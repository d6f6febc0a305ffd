------------------------------ MODULE SessionProxy ------------------------------
(***************************************************************************)
(* One session proxy (core/objects/SessionProxy.cxx) with the sessions it  *)
(* creates (Session.cxx), their root actions and web request tracers, and  *)
(* the session watchdog (core/SessionWatchdogContext.cxx).  Application    *)
(* threads call the proxy and leave actions, the watchdog closes sessions  *)
(* after their grace period and splits them by time, and the sending       *)
(* thread hands over the server's configuration.                           *)
(*                                                                         *)
(* Locks are state: `lock' is the holder of the proxy's mLockObject, and   *)
(* each session has the holder of its mMutex.  A thread that asks for a    *)
(* lock another one holds has to wait.  A lock that is taken and released  *)
(* with nothing in between that could block is not shown as held.          *)
(***************************************************************************)
EXTENDS Integers, FiniteSets

CONSTANTS AppThreads,    \* the application threads
          Watchdog,      \* the watchdog's thread
          NoThread,      \* nobody
          Actions,       \* the actions and tracers that can be created
          NoAction,      \* no action
          Tags,          \* the user tags
          NoTag,         \* the empty user tag
          MaxSessions,   \* bound on the sessions created in a behaviour
          MaxEvents,     \* getMaxEventsPerSession, 0 when not to split by events
          SplitByTime    \* TRUE: splitting by duration or idle time is enabled

ASSUME ProxyAssumption == /\ MaxSessions \in Nat \ {0}
                          /\ MaxEvents \in Nat
                          /\ SplitByTime \in BOOLEAN
                          /\ NoThread \notin AppThreads \cup {Watchdog}
                          /\ Watchdog \notin AppThreads
                          /\ NoAction \notin Actions
                          /\ NoTag \notin Tags

VARIABLES
    lock,               \* who holds the proxy's mLockObject
    proxy,              \* the proxy's members
    ses,                \* the sessions
    act,                \* the actions
    mSessionsToClose,   \* watchdog: sessions to end after their grace period
    toSplit,            \* watchdog: the proxy is in mSessionsToSplitByTimeout
    th,                 \* what each thread is doing
    failure             \* the null pointer that was dereferenced, if any

proxyVars == <<lock, proxy, ses, act, mSessionsToClose, toSplit, th, failure>>

Threads == AppThreads \cup {Watchdog}

Sessions == 1..MaxSessions

Created == {s \in Sessions : ses[s].life # "none"}

(* lock: of the session's mMutex. *)
NoSession == [life |-> "none", tried |-> FALSE, mChildren |-> {}, lock |-> NoThread,
              endEvent |-> FALSE, tag |-> NoTag]

NewSession(tag) == [NoSession EXCEPT !.life = "open", !.tag = tag]

(***************************************************************************)
(* pc: the next step; op: the call; s: the session being ended; event:     *)
(* whether with an end event; a: the action being left; acts, todo: the    *)
(* copies of the children still to be closed.                              *)
(***************************************************************************)
Idle == [pc |-> "idle", op |-> "none", s |-> 0, event |-> FALSE, a |-> NoAction,
         acts |-> {}, todo |-> {}]

(* The proxy is created with its first session, before or after the first *)
(* answer of the server has brought a configuration.                      *)
Init ==
    /\ lock = NoThread
    /\ \E configured \in BOOLEAN :
          /\ proxy = [mCurrentSession |-> 1, configured |-> configured,
                      mIsFinished |-> FALSE, mTopLevelActionCount |-> 0,
                      mLastUserTag |-> NoTag, mChildren |-> {1}]
          /\ toSplit = (configured /\ SplitByTime)
    /\ ses = [s \in Sessions |-> IF s = 1 THEN NewSession(NoTag) ELSE NoSession]
    /\ act = [a \in Actions |-> [state |-> "none", session |-> 0]]
    /\ mSessionsToClose = {}
    /\ th = [t \in Threads |-> Idle]
    /\ failure = "none"

Goto(t, pc) == th' = [th EXCEPT ![t].pc = pc]

(* The lock of session s can be had. *)
Free(s) == ses[s].lock = NoThread

(* The call returns, and with it the proxy's lock. *)
Release(t) ==
    /\ lock' = NoThread
    /\ th' = [th EXCEPT ![t] = Idle]

------------------------------------------------------------------------------
(* The calls that may split the session, under the proxy's lock. *)

isSessionSplitByEventsRequired ==
    /\ proxy.configured
    /\ MaxEvents > 0
    /\ MaxEvents <= proxy.mTopLevelActionCount

Splits(op) == (IF isSessionSplitByEventsRequired THEN 1 ELSE 0)
              + (IF op = "reportCrash" THEN 1 ELSE 0)

(***************************************************************************)
(* The call gets the proxy's lock, finds it not finished, and goes on with *)
(* getOrSplitCurrentSessionByEvents.  (sendEvent and sendBizEvent have the *)
(* same effect here.  An action that the privacy settings do not allow is  *)
(* not counted; it then behaves like a tracer.)                            *)
(***************************************************************************)
Call(t, op) ==
    /\ th[t].pc = "idle"
    /\ lock = NoThread
    /\ ~proxy.mIsFinished
    /\ Cardinality(Created) + Splits(op) <= MaxSessions
    /\ op \in {"enterAction", "traceWebRequest"} =>
         \E a \in Actions : act[a].state = "none"
    /\ lock' = t
    /\ th' = [th EXCEPT ![t] = [Idle EXCEPT
                !.op = op,
                !.pc = IF isSessionSplitByEventsRequired THEN "tryEnd" ELSE "op"]]
    /\ UNCHANGED <<proxy, ses, act, mSessionsToClose, toSplit, failure>>

(* The proxy hears that session s is closed: onChildClosed. *)
onChildClosed(s) ==
    /\ proxy' = [proxy EXCEPT !.mChildren = @ \ {s}]
    /\ mSessionsToClose' = mSessionsToClose \ {s}

(* closeOrEnqueueCurrentSessionForClosing without a configuration. *)
TryEndUnconfigured(t) ==
    /\ th[t].pc = "tryEnd"
    /\ ~proxy.configured
    /\ failure' = "configuration"
    /\ UNCHANGED <<lock, proxy, ses, act, mSessionsToClose, toSplit, th>>

(* Mutant: ends the session although it has children. *)
TryEnd_IgnoresChildren(t) ==
    LET s == proxy.mCurrentSession
    IN /\ th[t].pc = "tryEnd"
       /\ proxy.configured
       /\ Free(s)
       /\ ses' = [ses EXCEPT ![s].life = "finished"]
       /\ onChildClosed(s)
       /\ Goto(t, "create")
       /\ UNCHANGED <<lock, act, toSplit, failure>>

(***************************************************************************)
(* tryEnd of the current session, under its lock as well: it is ended if   *)
(* it has no children, else marked for its last child to end it.           *)
(***************************************************************************)
TryEnd(t) ==
    LET s == proxy.mCurrentSession
    IN /\ th[t].pc = "tryEnd"
       /\ proxy.configured
       /\ Free(s)
       /\ IF ses[s].life # "open"
          THEN Goto(t, "create") /\ UNCHANGED <<ses, proxy, mSessionsToClose>>
          ELSE IF ses[s].mChildren = {}
          THEN /\ ses' = [ses EXCEPT ![s].life = "finished"]
               /\ onChildClosed(s)
               /\ Goto(t, "create")
          ELSE /\ ses' = [ses EXCEPT ![s].tried = TRUE]
               /\ Goto(t, "enqueue")
               /\ UNCHANGED <<proxy, mSessionsToClose>>
       /\ UNCHANGED <<lock, act, toSplit, failure>>

(* Mutant: the session is not queued. *)
Enqueue_Lost(t) ==
    /\ th[t].pc = "enqueue"
    /\ Goto(t, "create")
    /\ UNCHANGED <<lock, proxy, ses, act, mSessionsToClose, toSplit, failure>>

(* The session gets its grace period. *)
Enqueue(t) ==
    /\ th[t].pc = "enqueue"
    /\ mSessionsToClose' = mSessionsToClose \cup {proxy.mCurrentSession}
    /\ Goto(t, "create")
    /\ UNCHANGED <<lock, proxy, ses, act, toSplit, failure>>

(* Mutant: the call goes on with the session from before the split. *)
Create_KeepsCurrent(t) ==
    LET n == Cardinality(Created) + 1
    IN /\ th[t].pc = "create"
       /\ ses' = [ses EXCEPT ![n] = NewSession(proxy.mLastUserTag)]
       /\ proxy' = [proxy EXCEPT !.mTopLevelActionCount = 0,
                                 !.mChildren = @ \cup {n}]
       /\ IF th[t].op = "split" THEN Release(t) ELSE Goto(t, "op") /\ UNCHANGED lock
       /\ UNCHANGED <<act, mSessionsToClose, toSplit, failure>>

(***************************************************************************)
(* createAndAssignCurrentSession and reTagCurrentSession.  After a split   *)
(* by events the call goes on with the new session; otherwise it returns.  *)
(***************************************************************************)
Create(t) ==
    LET n == Cardinality(Created) + 1
    IN /\ th[t].pc = "create"
       /\ ses' = [ses EXCEPT ![n] = NewSession(proxy.mLastUserTag)]
       /\ proxy' = [proxy EXCEPT !.mCurrentSession = n, !.mTopLevelActionCount = 0,
                                 !.mChildren = @ \cup {n}]
       /\ IF th[t].op = "split" THEN Release(t) ELSE Goto(t, "op") /\ UNCHANGED lock
       /\ UNCHANGED <<act, mSessionsToClose, toSplit, failure>>

Current == proxy.mCurrentSession

(* The current session, under its own lock, takes the call. *)
InSession(t, op) ==
    /\ th[t].pc = "op"
    /\ th[t].op = op
    /\ Free(Current)

(***************************************************************************)
(* The session adds action or tracer a to its children, unless it is being *)
(* ended (the call then returns a null object).                            *)
(***************************************************************************)
AddChild(t, a, counted) ==
    /\ act[a].state = "none"
    /\ proxy' = [proxy EXCEPT !.mTopLevelActionCount = @ + counted]
    /\ IF ses[Current].life = "open"
       THEN /\ ses' = [ses EXCEPT ![Current].mChildren = @ \cup {a}]
            /\ act' = [act EXCEPT ![a] = [state |-> "open", session |-> Current]]
       ELSE UNCHANGED <<ses, act>>
    /\ Release(t)
    /\ UNCHANGED <<mSessionsToClose, toSplit, failure>>

enterAction(t, a) == InSession(t, "enterAction") /\ AddChild(t, a, 1)

traceWebRequest(t, a) == InSession(t, "traceWebRequest") /\ AddChild(t, a, 0)

identifyUser(t, tag) ==
    /\ InSession(t, "identifyUser")
    /\ ses' = IF ses[Current].life = "open" THEN [ses EXCEPT ![Current].tag = tag] ELSE ses
    /\ proxy' = [proxy EXCEPT !.mLastUserTag = tag]
    /\ Release(t)
    /\ UNCHANGED <<act, mSessionsToClose, toSplit, failure>>

sendEvent(t) ==
    /\ InSession(t, "sendEvent")
    /\ Release(t)
    /\ UNCHANGED <<proxy, ses, act, mSessionsToClose, toSplit, failure>>

(* reportCrash splits the session after the report, in any case. *)
reportCrash(t) ==
    /\ InSession(t, "reportCrash")
    /\ th' = [th EXCEPT ![t].pc = "tryEnd", ![t].op = "split"]
    /\ UNCHANGED <<lock, proxy, ses, act, mSessionsToClose, toSplit, failure>>

(***************************************************************************)
(* reportNetworkTechnology, reportConnectionType, reportCarrier: under the *)
(* proxy's lock mCurrentSession is tested, and then used.                  *)
(***************************************************************************)
ReportTest(t) ==
    /\ th[t].pc = "idle"
    /\ lock = NoThread
    /\ Current # 0
    /\ lock' = t
    /\ Goto(t, "report")
    /\ UNCHANGED <<proxy, ses, act, mSessionsToClose, toSplit, failure>>

ReportUse(t) ==
    /\ th[t].pc = "report"
    /\ IF Current = 0
       THEN failure' = "session" /\ UNCHANGED <<lock, th>>
       ELSE Release(t) /\ UNCHANGED failure
    /\ UNCHANGED <<proxy, ses, act, mSessionsToClose, toSplit>>

------------------------------------------------------------------------------
(* Leaving actions, and ending a session that only waits for that. *)

(* leaveAction or stop: the action is marked, its record is added later. *)
LeaveAction(t, a) ==
    /\ th[t].pc = "idle"
    /\ act[a].state = "open"
    /\ act' = [act EXCEPT ![a].state = "left"]
    /\ th' = [th EXCEPT ![t].pc = "detach", ![t].op = "leave", ![t].a = a,
                        ![t].s = act[a].session]
    /\ UNCHANGED <<lock, proxy, ses, mSessionsToClose, toSplit, failure>>

(* Mutant: the children are counted before the child is removed. *)
Detach_CountsFirst(t) ==
    LET a == th[t].a
        s == th[t].s
        rest == ses[s].mChildren \ {a}
        ends == ses[s].tried /\ ses[s].mChildren = {} /\ ses[s].life = "open"
    IN /\ th[t].pc = "detach"
       /\ Free(s)
       /\ act' = [act EXCEPT ![a].state = "closed"]
       /\ IF ends
          THEN /\ ses' = [ses EXCEPT ![s] = [@ EXCEPT !.mChildren = rest, !.lock = t,
                                                      !.life = "finished", !.endEvent = TRUE]]
               /\ Goto(t, "tellHeld")
          ELSE /\ ses' = [ses EXCEPT ![s].mChildren = rest]
               /\ th' = IF th[t].op = "leave"
                        THEN [th EXCEPT ![t] = Idle]
                        ELSE [th EXCEPT ![t].pc = "close", ![t].a = NoAction]
       /\ UNCHANGED <<lock, proxy, mSessionsToClose, toSplit, failure>>

(***************************************************************************)
(* Session::onChildClosed.  The last child of a session that was tried for *)
(* ending ends it, and tells the proxy while the session's lock is held.   *)
(***************************************************************************)
Detach(t) ==
    LET a == th[t].a
        s == th[t].s
        rest == ses[s].mChildren \ {a}
        ends == ses[s].tried /\ rest = {} /\ ses[s].life = "open"
    IN /\ th[t].pc = "detach"
       /\ Free(s)
       /\ act' = [act EXCEPT ![a].state = "closed"]
       /\ IF ends
          THEN /\ ses' = [ses EXCEPT ![s] = [@ EXCEPT !.mChildren = rest, !.lock = t,
                                                      !.life = "finished", !.endEvent = TRUE]]
               /\ Goto(t, "tellHeld")
          ELSE /\ ses' = [ses EXCEPT ![s].mChildren = rest]
               /\ th' = IF th[t].op = "leave"
                        THEN [th EXCEPT ![t] = Idle]
                        ELSE [th EXCEPT ![t].pc = "close", ![t].a = NoAction]
       /\ UNCHANGED <<lock, proxy, mSessionsToClose, toSplit, failure>>

(* Mutant: the proxy changes its children without its lock. *)
TellHeld_Unlocked(t) ==
    /\ th[t].pc = "tellHeld"
    /\ onChildClosed(th[t].s)
    /\ ses' = [ses EXCEPT ![th[t].s].lock = NoThread]
    /\ th' = [th EXCEPT ![t] = Idle]
    /\ UNCHANGED <<lock, act, toSplit, failure>>

TellHeld(t) ==
    /\ th[t].pc = "tellHeld"
    /\ lock = NoThread
    /\ onChildClosed(th[t].s)
    /\ ses' = [ses EXCEPT ![th[t].s].lock = NoThread]
    /\ th' = [th EXCEPT ![t] = Idle]
    /\ UNCHANGED <<lock, act, toSplit, failure>>

------------------------------------------------------------------------------
(* Session::end(bool), of session th[t].s. *)

EndMark(t) ==
    LET s == th[t].s
    IN /\ th[t].pc = "end"
       /\ Free(s)
       /\ IF ses[s].life = "open"
          THEN ses' = [ses EXCEPT ![s].life = "finishing"] /\ Goto(t, "copy")
          ELSE Goto(t, "next") /\ UNCHANGED ses
       /\ UNCHANGED <<lock, proxy, act, mSessionsToClose, toSplit, failure>>

(* The list of children is copied without the session's lock. *)
EndCopy(t) ==
    /\ th[t].pc = "copy"
    /\ th' = [th EXCEPT ![t].pc = "close", ![t].acts = ses[th[t].s].mChildren]
    /\ UNCHANGED <<lock, proxy, ses, act, mSessionsToClose, toSplit, failure>>

(* close() of one child: nothing if another thread has already left it. *)
CloseChild(t, a) ==
    /\ th[t].pc = "close"
    /\ a \in th[t].acts
    /\ IF act[a].state = "open"
       THEN /\ act' = [act EXCEPT ![a].state = "left"]
            /\ th' = [th EXCEPT ![t].pc = "detach", ![t].a = a, ![t].acts = @ \ {a}]
       ELSE /\ th' = [th EXCEPT ![t].acts = @ \ {a}]
            /\ UNCHANGED act
    /\ UNCHANGED <<lock, proxy, ses, mSessionsToClose, toSplit, failure>>

EndFinish(t) ==
    LET s == th[t].s
    IN /\ th[t].pc = "close"
       /\ th[t].acts = {}
       /\ Free(s)
       /\ ses' = [ses EXCEPT ![s].life = "finished", ![s].endEvent = th[t].event]
       /\ Goto(t, "tell")
       /\ UNCHANGED <<lock, proxy, act, mSessionsToClose, toSplit, failure>>

Tell(t) ==
    /\ th[t].pc = "tell"
    /\ lock = NoThread
    /\ onChildClosed(th[t].s)
    /\ Goto(t, "next")
    /\ UNCHANGED <<lock, ses, act, toSplit, failure>>

------------------------------------------------------------------------------
(* SessionProxy::end, and the watchdog's round. *)

ProxyEnd(t) ==
    /\ th[t].pc = "idle"
    /\ lock = NoThread
    /\ ~proxy.mIsFinished
    /\ proxy' = [proxy EXCEPT !.mIsFinished = TRUE]
    /\ Goto(t, "copySessions")
    /\ UNCHANGED <<lock, ses, act, mSessionsToClose, toSplit, failure>>

(* Mutant: only the current session is ended. *)
CopySessions_OnlyCurrent(t) ==
    /\ th[t].pc = "copySessions"
    /\ th' = [th EXCEPT ![t].pc = "next", ![t].op = "end", ![t].todo = {Current}]
    /\ UNCHANGED <<lock, proxy, ses, act, mSessionsToClose, toSplit, failure>>

(* The proxy's children are copied without its lock. *)
CopySessions(t) ==
    /\ th[t].pc = "copySessions"
    /\ th' = [th EXCEPT ![t].pc = "next", ![t].op = "end", ![t].todo = proxy.mChildren]
    /\ UNCHANGED <<lock, proxy, ses, act, mSessionsToClose, toSplit, failure>>

(* closeExpiredSessions takes the sessions whose grace period is over. *)
CloseExpired(expired) ==
    /\ th[Watchdog].pc = "idle"
    /\ expired \subseteq mSessionsToClose
    /\ th' = [th EXCEPT ![Watchdog] = [Idle EXCEPT !.pc = "next", !.op = "close",
                                                   !.todo = expired]]
    /\ UNCHANGED <<lock, proxy, ses, act, mSessionsToClose, toSplit, failure>>

(* The next of the sessions to end: only the current one gets an end event. *)
EndNext(t, s) ==
    /\ th[t].pc = "next"
    /\ s \in th[t].todo
    /\ th' = [th EXCEPT ![t] = [Idle EXCEPT
                !.pc = "end", !.op = th[t].op, !.s = s, !.todo = th[t].todo \ {s},
                !.event = (th[t].op = "end" /\ s = Current)]]
    /\ mSessionsToClose' = IF th[t].op = "close" THEN mSessionsToClose \ {s}
                                                 ELSE mSessionsToClose
    /\ UNCHANGED <<lock, proxy, ses, act, toSplit, failure>>

ProxyEnded(t) ==
    /\ th[t].pc = "next" /\ th[t].op = "end"
    /\ th[t].todo = {}
    /\ toSplit' = FALSE
    /\ Goto(t, "reset")
    /\ UNCHANGED <<lock, proxy, ses, act, mSessionsToClose, failure>>

(* mCurrentSession is reset without the lock. *)
ResetCurrent(t) ==
    /\ th[t].pc = "reset"
    /\ proxy' = [proxy EXCEPT !.mCurrentSession = 0]
    /\ th' = [th EXCEPT ![t] = Idle]
    /\ UNCHANGED <<lock, ses, act, mSessionsToClose, toSplit, failure>>

(* The watchdog's round ends. *)
RoundDone == th' = [th EXCEPT ![Watchdog] = Idle]

StartSplit ==
    /\ lock' = Watchdog
    /\ th' = [th EXCEPT ![Watchdog] = [Idle EXCEPT !.pc = "tryEnd", !.op = "split"]]

(***************************************************************************)
(* splitSessionByTime returns -1 for a finished proxy, which the watchdog  *)
(* then forgets; else it splits the session when its time has come.        *)
(***************************************************************************)
splitSessionByTime(due) ==
    /\ lock = NoThread
    /\ toSplit' = ~proxy.mIsFinished
    /\ IF due /\ ~proxy.mIsFinished /\ Cardinality(Created) < MaxSessions
       THEN StartSplit
       ELSE RoundDone /\ UNCHANGED lock

(* splitTimedOutSessions, the second half of the watchdog's round. *)
SplitTimedOut(due) ==
    /\ th[Watchdog].pc = "next" /\ th[Watchdog].op = "close"
    /\ th[Watchdog].todo = {}
    /\ \/ ~toSplit /\ RoundDone /\ UNCHANGED <<lock, toSplit>>
       \/ toSplit /\ splitSessionByTime(due)
    /\ UNCHANGED <<proxy, ses, act, mSessionsToClose, failure>>

(***************************************************************************)
(* onServerConfigurationUpdate, from the sending thread.  Later updates    *)
(* are merged and keep the settings that matter here.                      *)
(***************************************************************************)
onServerConfigurationUpdate ==
    /\ lock = NoThread
    /\ ~proxy.configured
    /\ proxy' = [proxy EXCEPT !.configured = TRUE]
    /\ toSplit' = (toSplit \/ (SplitByTime /\ ~proxy.mIsFinished))
    /\ UNCHANGED <<lock, ses, act, mSessionsToClose, th, failure>>

------------------------------------------------------------------------------
(* What a thread does next inside a call that it has started. *)
InCall(t) ==
    \/ TryEndUnconfigured(t) \/ TryEnd(t) \/ Enqueue(t) \/ Create(t)
    \/ \E a \in Actions : enterAction(t, a) \/ traceWebRequest(t, a)
    \/ \E tag \in Tags \cup {NoTag} : identifyUser(t, tag)
    \/ sendEvent(t) \/ reportCrash(t) \/ ReportUse(t)
    \/ Detach(t) \/ TellHeld(t)
    \/ EndMark(t) \/ EndCopy(t) \/ EndFinish(t) \/ Tell(t)
    \/ \E a \in Actions : CloseChild(t, a)
    \/ \E s \in Sessions : EndNext(t, s)
    \/ CopySessions(t) \/ ProxyEnded(t) \/ ResetCurrent(t)

Calls == {"enterAction", "traceWebRequest", "identifyUser", "sendEvent", "reportCrash"}

Starts(t) ==
    \/ \E op \in Calls : Call(t, op)
    \/ \E a \in Actions : LeaveAction(t, a)
    \/ ReportTest(t)
    \/ ProxyEnd(t)

WatchdogStep ==
    \/ \E expired \in SUBSET mSessionsToClose : CloseExpired(expired)
    \/ \E due \in BOOLEAN : SplitTimedOut(due)
    \/ InCall(Watchdog)

Next ==
    /\ failure = "none"
    /\ \/ \E t \in AppThreads : Starts(t) \/ InCall(t)
       \/ WatchdogStep
       \/ onServerConfigurationUpdate

Spec == Init /\ [][Next]_proxyVars

(***************************************************************************)
(* Fairness: a thread inside a call goes on when it can, and gets a lock   *)
(* that is free again and again (SF: another thread may take it in         *)
(* between).  The watchdog's loop never stops, and every grace period ends *)
(* (the closing time is fixed when the session is queued).                 *)
(***************************************************************************)
Live(A) == failure = "none" /\ A

FairSpec ==
    /\ Spec
    /\ \A t \in AppThreads : SF_proxyVars(Live(InCall(t)))
    /\ SF_proxyVars(Live(InCall(Watchdog)))
    /\ SF_proxyVars(Live(\E due \in BOOLEAN : SplitTimedOut(due)))
    /\ \A s \in Sessions :
          SF_proxyVars(Live(\E expired \in SUBSET mSessionsToClose :
                              s \in expired /\ CloseExpired(expired)))

------------------------------------------------------------------------------
(***************************************************************************)
(* The proxy and a session take each other's locks in both orders (a split *)
(* calls tryEnd, the last child left calls the proxy), but never form a    *)
(* cycle: the session that is locked while its thread waits for the proxy  *)
(* is not the one the holder of the proxy's lock needs.                    *)
(***************************************************************************)
NoLockCycle ==
    \A t, u \in Threads :
        th[t].pc = "tellHeld" /\ lock = u /\ th[u].pc \in {"tryEnd", "op"}
        => th[t].s # Current

(***************************************************************************)
(* A session that was split off and is still open is known to somebody who *)
(* will end it: it has a child to leave, and the watchdog has it queued,   *)
(* is about to get it, or is about to end it.                              *)
(***************************************************************************)
SplitOffIsWatched ==
    \A s \in Sessions : ses[s].tried /\ ses[s].life = "open" =>
        /\ ses[s].mChildren # {}
        /\ \/ s \in mSessionsToClose
           \/ lock # NoThread /\ th[lock].pc = "enqueue" /\ s = Current
           \/ th[Watchdog].pc = "end" /\ th[Watchdog].s = s

(***************************************************************************)
(* The watchdog keeps no session that the proxy has already let go: a      *)
(* session cannot be queued after it was closed, though it may be ended by *)
(* another thread between tryEnd and the queueing.                         *)
(***************************************************************************)
WatchdogForgetsClosed == mSessionsToClose \subseteq proxy.mChildren

(***************************************************************************)
(* A finished session has no action or tracer that still is open, however  *)
(* it was ended and whoever else was entering or leaving actions.          *)
(***************************************************************************)
FinishedHasNoOpenAction ==
    \A a \in Actions : act[a].state = "open" => ses[act[a].session].life # "finished"

(***************************************************************************)
(* When end() has returned no session is left open and the watchdog will   *)
(* not look at the proxy any more, whatever was going on when it started.  *)
(***************************************************************************)
EndLeavesNothing ==
    Current = 0 => ~toSplit /\ \A s \in Created : ses[s].life # "open"

(* Every call of the application returns: no thread waits for ever. *)
EveryCallReturns ==
    \A t \in AppThreads :
        th[t].pc # "idle" ~> th[t].pc = "idle" \/ failure # "none"

(***************************************************************************)
(* A session that was split off ends, although its actions may never be    *)
(* left: the watchdog ends it when its grace period is over.               *)
(***************************************************************************)
SplitOffSessionsEnd ==
    \A s \in Sessions :
        ses[s].tried ~> ses[s].life = "finished" \/ failure # "none"

(***************************************************************************)
(* reportCrash always splits the session after the report.  (It cannot     *)
(* before the proxy has a configuration to take the grace period from.)    *)
(***************************************************************************)
CrashAlwaysSplits == failure # "configuration"
==============================================================================
