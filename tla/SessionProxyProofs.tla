-------------------------- MODULE SessionProxyProofs --------------------------
(***************************************************************************)
(* What is proved about a session proxy, for any number of application     *)
(* threads, actions and sessions: the locks form no cycle, no session that *)
(* was split off is forgotten, the watchdog keeps no session that was      *)
(* closed, a finished session has no open action, and end() leaves no      *)
(* session open.                                                           *)
(***************************************************************************)
EXTENDS SessionProxy, FiniteSetTheorems, TLAPS

Lives == {"none", "open", "finishing", "finished"}

SessionRecord ==
    [life : Lives, tried : BOOLEAN, mChildren : SUBSET Actions, lock : Threads \cup {NoThread},
     endEvent : BOOLEAN, tag : Tags \cup {NoTag}]

Holding == {"tryEnd", "enqueue", "create", "op", "report"}
Splitting == {"tryEnd", "enqueue", "create"}
Pcs == Holding \cup {"idle", "detach", "tellHeld", "end", "copy", "close", "tell", "next",
                     "copySessions", "reset"}
Ops == Calls \cup {"none", "split", "leave", "end", "close"}

ThreadRecord ==
    [pc : Pcs, op : Ops, s : 0..MaxSessions, event : BOOLEAN, a : Actions \cup {NoAction},
     acts : SUBSET Actions, todo : SUBSET Sessions]

(* The types of the proxy, its sessions, their actions and the threads. *)
ProxyTypeOK ==
    /\ lock \in Threads \cup {NoThread}
    /\ proxy \in [mCurrentSession : 0..MaxSessions, configured : BOOLEAN, mIsFinished : BOOLEAN,
                  mTopLevelActionCount : Nat, mLastUserTag : Tags \cup {NoTag},
                  mChildren : SUBSET Sessions]
    /\ ses \in [Sessions -> SessionRecord]
    /\ act \in [Actions -> [state : {"none", "open", "left", "closed"}, session : 0..MaxSessions]]
    /\ mSessionsToClose \in SUBSET Sessions
    /\ toSplit \in BOOLEAN
    /\ th \in [Threads -> ThreadRecord]
    /\ failure \in {"none", "configuration", "session"}

(* A thread holds the proxy's lock exactly while it is in a call under it, *)
(* and a session's lock exactly while it tells the proxy that it is closed. *)
LocksHeld ==
    /\ \A t \in Threads : lock = t <=> th[t].pc \in Holding
    /\ \A s \in Sessions, t \in Threads :
          ses[s].lock = t <=> th[t].pc = "tellHeld" /\ th[t].s = s

(* What each thread does belongs to the call it has made. *)
CallsFit ==
    \A t \in Threads :
       /\ th[t].pc \in {"idle", "report", "copySessions"} => th[t].op = "none"
       /\ th[t].pc \in Splitting => th[t].op \in Calls \cup {"split"}
       /\ th[t].pc = "op" => th[t].op \in Calls
       /\ th[t].pc \in {"next", "end", "copy", "close", "tell"} => th[t].op \in {"end", "close"}
       /\ th[t].pc = "detach" => th[t].op \in {"leave", "end", "close"}
       /\ th[t].pc = "tellHeld" => th[t].op = "leave"
       /\ th[t].pc = "reset" => th[t].op = "end"
       /\ th[t].op = "close" => t = Watchdog
       /\ th[t].pc \in {"end", "copy", "close", "tell", "detach", "tellHeld"} => th[t].s \in Sessions

(* The sessions that a call under the proxy's lock still is to create. *)
Pending(t) == (IF th[t].pc \in Splitting THEN 1 ELSE 0) + (IF th[t].op = "reportCrash" THEN 1 ELSE 0)

(* Sessions are created one after the other, and there is room for all. *)
RoomLeft ==
    /\ Cardinality(Created) \in Nat /\ Created = 1..Cardinality(Created)
    /\ \A t \in Threads : th[t].pc \in Splitting \cup {"op"} =>
          Cardinality(Created) + Pending(t) <= MaxSessions

(* There is a current session until end() is over, and no call that needs *)
(* it, or creates another, once end() has begun. *)
CurrentExists ==
    /\ Current = 0 \/ Current \in Created
    /\ Current = 0 => proxy.mIsFinished
    /\ proxy.mIsFinished => \A t \in Threads : th[t].pc \notin Splitting \cup {"op"}

(* The proxy knows the sessions that are not finished, and the one that a *)
(* thread is about to queue. *)
ChildrenKnown ==
    /\ \A s \in Sessions : ses[s].life \in {"open", "finishing"} => s \in proxy.mChildren
    /\ \A t \in Threads : th[t].pc = "enqueue" => Current \in proxy.mChildren

(* The current session is marked for its last child to end it only while *)
(* the thread that marked it replaces it; the proxy is told of a session's *)
(* end when it is finished. *)
TriedIsReplaced ==
    /\ \A s \in Sessions : s = Current /\ ses[s].tried =>
          \E t \in Threads : th[t].pc \in {"enqueue", "create"}
    /\ \A t \in Threads : th[t].pc = "tellHeld" => ses[th[t].s].tried
    /\ \A t \in Threads : th[t].pc \in {"tellHeld", "tell"} => ses[th[t].s].life = "finished"

(* One thread ends a session that is being ended: Session::end(). *)
Ending(t) == th[t].pc \in {"copy", "close"} \/ (th[t].pc = "detach" /\ th[t].op # "leave")

OneEnds ==
    /\ \A t \in Threads : Ending(t) => ses[th[t].s].life = "finishing"
    /\ \A t, u \in Threads : Ending(t) /\ Ending(u) /\ th[t].s = th[u].s => t = u

(* An open action is a child of its session, which is not finished, and *)
(* is still to be closed by the thread that ends the session. *)
OpenActions ==
    /\ \A a \in Actions : act[a].state = "open" =>
          /\ act[a].session \in Sessions /\ a \in ses[act[a].session].mChildren
          /\ ses[act[a].session].life \in {"open", "finishing"}
    /\ \A t \in Threads : Ending(t) /\ th[t].pc # "copy" =>
          \A a \in Actions : act[a].state = "open" /\ act[a].session = th[t].s => a \in th[t].acts

(* While end() runs, the open sessions are those it still is to end. *)
EndsAll ==
    \A t \in Threads :
       /\ th[t].op = "end" \/ th[t].pc = "copySessions" => proxy.mIsFinished
       /\ th[t].op = "end" =>
            \A s \in Sessions : ses[s].life = "open" =>
                /\ th[t].pc # "reset"
                /\ s \in th[t].todo \/ (th[t].pc = "end" /\ s = th[t].s)
       /\ th[t].pc = "reset" => ~toSplit

ProxyInv ==
    /\ ProxyTypeOK /\ LocksHeld /\ CallsFit /\ RoomLeft /\ CurrentExists /\ ChildrenKnown
    /\ TriedIsReplaced /\ OneEnds /\ OpenActions /\ EndsAll
    /\ SplitOffIsWatched /\ WatchdogForgetsClosed /\ EndLeavesNothing

------------------------------------------------------------------------------
(* A step of thread t leaves the other threads where they are. *)
Others(t) == \A u \in Threads \ {t} : th'[u] = th[u]

(* Going on within a call. *)
LEMMA GotoFacts ==
    ASSUME ProxyTypeOK, NEW t \in Threads, NEW x \in Pcs, Goto(t, x)
    PROVE  /\ th' \in [Threads -> ThreadRecord] /\ Others(t)
           /\ th'[t].pc = x /\ th'[t].op = th[t].op /\ th'[t].s = th[t].s
           /\ th'[t].acts = th[t].acts /\ th'[t].todo = th[t].todo
<1>1. th \in [Threads -> ThreadRecord] /\ th' = [th EXCEPT ![t].pc = x]
  BY DEF ProxyTypeOK, Goto
<1> QED BY <1>1 DEF ThreadRecord, Others

(* Returning from a call. *)
LEMMA IdleFacts ==
    ASSUME ProxyTypeOK, NEW t \in Threads, th' = [th EXCEPT ![t] = Idle]
    PROVE  /\ th' \in [Threads -> ThreadRecord] /\ Others(t)
           /\ th'[t].pc = "idle" /\ th'[t].op = "none"
<1>1. th \in [Threads -> ThreadRecord]
  BY DEF ProxyTypeOK
<1>2. Idle \in ThreadRecord /\ Idle.pc = "idle" /\ Idle.op = "none"
  BY ProxyAssumption DEF Idle, ThreadRecord, Pcs, Ops
<1> QED BY <1>1, <1>2 DEF Others

(* A thread that does nothing. *)
LEMMA IdleType == Idle \in ThreadRecord
BY ProxyAssumption DEF Idle, ThreadRecord, Pcs, Ops

(* Starting something from an idle thread. *)
LEMMA FreshFacts ==
    ASSUME ProxyTypeOK, NEW t \in Threads, NEW x \in Pcs, NEW op \in Ops,
           th' = [th EXCEPT ![t] = [Idle EXCEPT !.op = op, !.pc = x]]
    PROVE  /\ th' \in [Threads -> ThreadRecord] /\ Others(t)
           /\ th'[t].pc = x /\ th'[t].op = op
<1>1. th \in [Threads -> ThreadRecord]
  BY DEF ProxyTypeOK
<1>2. Idle \in ThreadRecord
  BY IdleType
<1>3. /\ [Idle EXCEPT !.op = op, !.pc = x] \in ThreadRecord
      /\ [Idle EXCEPT !.op = op, !.pc = x].pc = x /\ [Idle EXCEPT !.op = op, !.pc = x].op = op
  BY <1>2 DEF ThreadRecord
<1> QED BY <1>1, <1>3 DEF Others

(* The watchdog is a thread, and nobody is none. *)
LEMMA ThreadFacts == Watchdog \in Threads /\ NoThread \notin Threads
BY ProxyAssumption DEF Threads

(* A call under the lock that needs the current session has one. *)
LEMMA CurrentUsed ==
    ASSUME ProxyInv, NEW t \in Threads, th[t].pc \in Splitting \cup {"op"}
    PROVE  Current \in Sessions /\ Current \in Created /\ ~proxy.mIsFinished
BY DEF ProxyInv, CurrentExists, Created

(* The sessions that exist stay the same when no session is made. *)
LEMMA SameCreated ==
    ASSUME \A s \in Sessions : ses'[s].life = "none" <=> ses[s].life = "none"
    PROVE  Created' = Created
BY DEF Created

(* A step that changes one session only. *)
OtherSessions(s) == \A r \in Sessions \ {s} : ses'[r] = ses[r]

(* One session's life changes, and nothing else of it. *)
LEMMA LifeFacts ==
    ASSUME ProxyTypeOK, NEW s \in Sessions, NEW x \in Lives, ses' = [ses EXCEPT ![s].life = x]
    PROVE  /\ ses' \in [Sessions -> SessionRecord] /\ OtherSessions(s)
           /\ ses'[s].life = x /\ ses'[s].tried = ses[s].tried
           /\ ses'[s].mChildren = ses[s].mChildren /\ ses'[s].lock = ses[s].lock
<1>1. ses \in [Sessions -> SessionRecord]
  BY DEF ProxyTypeOK
<1> QED BY <1>1 DEF SessionRecord, OtherSessions

(* The proxy hears that session s is closed. *)
LEMMA ClosedFacts ==
    ASSUME ProxyTypeOK, NEW s, onChildClosed(s)
    PROVE  /\ proxy' \in [mCurrentSession : 0..MaxSessions, configured : BOOLEAN, mIsFinished : BOOLEAN,
                           mTopLevelActionCount : Nat, mLastUserTag : Tags \cup {NoTag},
                           mChildren : SUBSET Sessions]
           /\ proxy'.mCurrentSession = proxy.mCurrentSession
           /\ proxy'.mIsFinished = proxy.mIsFinished /\ proxy'.mChildren = proxy.mChildren \ {s}
           /\ mSessionsToClose' = mSessionsToClose \ {s} /\ mSessionsToClose' \in SUBSET Sessions
BY DEF onChildClosed, ProxyTypeOK

(* One more session, behind those that exist. *)
LEMMA OneMore ==
    ASSUME NEW n \in Nat, n # 0
    PROVE  (1..(n - 1)) \cup {n} = 1..n /\ Cardinality(1..n) = n
<1>1. (1..(n - 1)) \cup {n} = 1..n
  OBVIOUS
<1>2. Cardinality(1..n) = n
  BY FS_Interval
<1> QED BY <1>1, <1>2

(* The proxy's lock is held by a thread or by nobody. *)
LEMMA LockType == ASSUME ProxyInv PROVE lock \in Threads \cup {NoThread}
BY DEF ProxyInv, ProxyTypeOK

(* What is created is a session. *)
LEMMA CreatedSessions == Created \subseteq Sessions
BY DEF Created

(* A call gets the lock. *)
LEMMA CallKeeps ==
    ASSUME ProxyInv, NEW t \in Threads, NEW op \in Calls, Call(t, op)
    PROVE  ProxyInv'
<1>1. /\ th[t].pc = "idle" /\ lock = NoThread /\ lock' = t /\ ~proxy.mIsFinished
      /\ Cardinality(Created) + Splits(op) <= MaxSessions
      /\ UNCHANGED <<proxy, ses, act, mSessionsToClose, toSplit, failure>>
  BY DEF Call
<1>2. /\ th' \in [Threads -> ThreadRecord] /\ Others(t) /\ th'[t].op = op
      /\ th'[t].pc = IF isSessionSplitByEventsRequired THEN "tryEnd" ELSE "op"
  BY FreshFacts DEF Call, ProxyInv, Pcs, Ops, Holding
<1>3. th'[t].pc \in {"tryEnd", "op"} /\ op \notin {"end", "close", "none", "split"}
  BY <1>2 DEF Calls
<1>4. Created' = Created
  BY <1>1, SameCreated
<1>5. ProxyTypeOK'
  BY <1>1, <1>2, <1>3, <1>4 DEF ProxyInv, ProxyTypeOK
<1>6. LocksHeld'
  BY <1>1, <1>2, <1>3, <1>4, ThreadFacts DEF ProxyInv, LocksHeld, Holding, Others, OtherSessions
<1>7. CallsFit'
  BY <1>1, <1>2, <1>3, <1>4 DEF ProxyInv, CallsFit, Splitting, Others
<1>8. RoomLeft'
  <2>1. Pending(t)' = Splits(op)
    BY <1>2 DEF Pending, Splits, Splitting
  <2> QED BY <1>1, <1>2, <1>4, <2>1 DEF ProxyInv, RoomLeft, Pending, Splitting, Others
<1>9. CurrentExists'
  BY <1>1, <1>2, <1>3, <1>4 DEF ProxyInv, CurrentExists, Current, Splitting, Others
<1>10. ChildrenKnown'
  BY <1>1, <1>2, <1>3, <1>4, ThreadFacts DEF ProxyInv, ChildrenKnown, LocksHeld, Holding, Current, Others, OtherSessions
<1>11. TriedIsReplaced'
  BY <1>1, <1>2, <1>3, <1>4 DEF ProxyInv, TriedIsReplaced, CallsFit, Current, Others, OtherSessions
<1>12. OneEnds'
  BY <1>1, <1>2, <1>3, <1>4 DEF ProxyInv, OneEnds, CallsFit, Ending, Others, OtherSessions
<1>13. OpenActions'
  BY <1>1, <1>2, <1>3, <1>4 DEF ProxyInv, OpenActions, Ending, Others, OtherSessions
<1>14. EndsAll'
  BY <1>1, <1>2, <1>3, <1>4 DEF ProxyInv, EndsAll, Others, OtherSessions
<1>15. SplitOffIsWatched'
  BY <1>1, <1>2, <1>3, <1>4, ThreadFacts, LockType DEF ProxyInv, SplitOffIsWatched, Current, LocksHeld, Holding, Others, OtherSessions
<1>16. WatchdogForgetsClosed'
  BY <1>1, <1>2, <1>3, <1>4 DEF ProxyInv, WatchdogForgetsClosed
<1>17. EndLeavesNothing'
  BY <1>1, <1>2, <1>3, <1>4, CreatedSessions DEF ProxyInv, EndLeavesNothing, Current, OtherSessions
<1> QED BY <1>5, <1>6, <1>7, <1>8, <1>9, <1>10, <1>11, <1>12, <1>13, <1>14, <1>15, <1>16, <1>17 DEF ProxyInv

(* A step that changes nothing but that a null pointer is dereferenced. *)
LEMMA FailureKeeps ==
    ASSUME ProxyInv, failure' \in {"none", "configuration", "session"},
           UNCHANGED <<lock, proxy, ses, act, mSessionsToClose, toSplit, th>>
    PROVE  ProxyInv'
<1>1. /\ lock' = lock /\ proxy' = proxy /\ ses' = ses /\ act' = act /\ mSessionsToClose' = mSessionsToClose
      /\ toSplit' = toSplit /\ th' = th
  OBVIOUS
<1>2. Created' = Created
  BY <1>1, SameCreated
<1>3. ProxyTypeOK'
  BY <1>1, <1>2 DEF ProxyInv, ProxyTypeOK
<1>4. LocksHeld'
  BY <1>1, <1>2, ThreadFacts DEF ProxyInv, LocksHeld, Holding, Others, OtherSessions
<1>5. CallsFit'
  BY <1>1, <1>2 DEF ProxyInv, CallsFit, Splitting, Others
<1>6. RoomLeft'
  BY <1>1, <1>2 DEF ProxyInv, RoomLeft, Pending, Splitting, Others
<1>7. CurrentExists'
  BY <1>1, <1>2 DEF ProxyInv, CurrentExists, Current, Splitting, Others
<1>8. ChildrenKnown'
  BY <1>1, <1>2, ThreadFacts DEF ProxyInv, ChildrenKnown, LocksHeld, Holding, Current, Others, OtherSessions
<1>9. TriedIsReplaced'
  BY <1>1, <1>2 DEF ProxyInv, TriedIsReplaced, CallsFit, Current, Others, OtherSessions
<1>10. OneEnds'
  BY <1>1, <1>2 DEF ProxyInv, OneEnds, CallsFit, Ending, Others, OtherSessions
<1>11. OpenActions'
  BY <1>1, <1>2 DEF ProxyInv, OpenActions, Ending, Others, OtherSessions
<1>12. EndsAll'
  BY <1>1, <1>2 DEF ProxyInv, EndsAll, Others, OtherSessions
<1>13. SplitOffIsWatched'
  BY <1>1, <1>2, ThreadFacts, LockType DEF ProxyInv, SplitOffIsWatched, Current, LocksHeld, Holding, Others, OtherSessions
<1>14. WatchdogForgetsClosed'
  BY <1>1, <1>2 DEF ProxyInv, WatchdogForgetsClosed
<1>15. EndLeavesNothing'
  BY <1>1, <1>2, CreatedSessions DEF ProxyInv, EndLeavesNothing, Current, OtherSessions
<1> QED BY <1>3, <1>4, <1>5, <1>6, <1>7, <1>8, <1>9, <1>10, <1>11, <1>12, <1>13, <1>14, <1>15 DEF ProxyInv

(* The marked session is queued. *)
LEMMA EnqueueKeeps ==
    ASSUME ProxyInv, NEW t \in Threads, Enqueue(t)
    PROVE  ProxyInv'
<1>1. /\ th[t].pc = "enqueue" /\ mSessionsToClose' = mSessionsToClose \cup {Current}
      /\ Goto(t, "create") /\ UNCHANGED <<lock, proxy, ses, act, toSplit, failure>>
  BY DEF Enqueue, Current
<1>2. /\ th' \in [Threads -> ThreadRecord] /\ Others(t) /\ th'[t].pc = "create" /\ th'[t].op = th[t].op
      /\ th'[t].s = th[t].s /\ th'[t].acts = th[t].acts /\ th'[t].todo = th[t].todo
  BY <1>1, GotoFacts DEF ProxyInv, Pcs, Holding
<1>3. Current \in Sessions /\ Current \in proxy.mChildren
  BY <1>1, CurrentUsed DEF ProxyInv, ChildrenKnown, Splitting
<1>4. Created' = Created
  BY <1>1, SameCreated
<1>5. ProxyTypeOK'
  BY <1>1, <1>2, <1>3, <1>4 DEF ProxyInv, ProxyTypeOK
<1>6. LocksHeld'
  BY <1>1, <1>2, <1>3, <1>4, ThreadFacts DEF ProxyInv, LocksHeld, Holding, Others, OtherSessions
<1>7. CallsFit'
  BY <1>1, <1>2, <1>3, <1>4 DEF ProxyInv, CallsFit, Splitting, Others
<1>8. RoomLeft'
  BY <1>1, <1>2, <1>3, <1>4 DEF ProxyInv, RoomLeft, Pending, Splitting, Others
<1>9. CurrentExists'
  BY <1>1, <1>2, <1>3, <1>4 DEF ProxyInv, CurrentExists, Current, Splitting, Others
<1>10. ChildrenKnown'
  BY <1>1, <1>2, <1>3, <1>4, ThreadFacts DEF ProxyInv, ChildrenKnown, LocksHeld, Holding, Current, Others, OtherSessions
<1>11. TriedIsReplaced'
  BY <1>1, <1>2, <1>3, <1>4 DEF ProxyInv, TriedIsReplaced, CallsFit, Current, Others, OtherSessions
<1>12. OneEnds'
  BY <1>1, <1>2, <1>3, <1>4 DEF ProxyInv, OneEnds, CallsFit, Ending, Others, OtherSessions
<1>13. OpenActions'
  BY <1>1, <1>2, <1>3, <1>4 DEF ProxyInv, OpenActions, Ending, Others, OtherSessions
<1>14. EndsAll'
  BY <1>1, <1>2, <1>3, <1>4 DEF ProxyInv, EndsAll, Others, OtherSessions
<1>15. SplitOffIsWatched'
  BY <1>1, <1>2, <1>3, <1>4, ThreadFacts, LockType DEF ProxyInv, SplitOffIsWatched, Current, LocksHeld, Holding, Others, OtherSessions
<1>16. WatchdogForgetsClosed'
  BY <1>1, <1>2, <1>3, <1>4 DEF ProxyInv, WatchdogForgetsClosed
<1>17. EndLeavesNothing'
  BY <1>1, <1>2, <1>3, <1>4, CreatedSessions DEF ProxyInv, EndLeavesNothing, Current, OtherSessions
<1> QED BY <1>5, <1>6, <1>7, <1>8, <1>9, <1>10, <1>11, <1>12, <1>13, <1>14, <1>15, <1>16, <1>17 DEF ProxyInv

(* A call returns that has only looked at the current session. *)
LEMMA ReturnKeeps ==
    ASSUME ProxyInv, NEW t \in Threads, th[t].pc \in {"op", "report"}, Release(t), 
           UNCHANGED <<proxy, ses, act, mSessionsToClose, toSplit, failure>>
    PROVE  ProxyInv'
<1>1. lock' = NoThread /\ th' = [th EXCEPT ![t] = Idle]
      /\ proxy' = proxy /\ ses' = ses /\ act' = act /\ mSessionsToClose' = mSessionsToClose
      /\ toSplit' = toSplit /\ failure' = failure
  BY DEF Release
<1>2. th' \in [Threads -> ThreadRecord] /\ Others(t) /\ th'[t].pc = "idle" /\ th'[t].op = "none"
  BY <1>1, IdleFacts DEF ProxyInv
<1>3. Created' = Created
  BY <1>1, SameCreated
<1>4. ProxyTypeOK'
  BY <1>1, <1>2, <1>3 DEF ProxyInv, ProxyTypeOK
<1>5. LocksHeld'
  BY <1>1, <1>2, <1>3, ThreadFacts DEF ProxyInv, LocksHeld, Holding, Others, OtherSessions
<1>6. CallsFit'
  BY <1>1, <1>2, <1>3 DEF ProxyInv, CallsFit, Splitting, Others
<1>7. RoomLeft'
  BY <1>1, <1>2, <1>3 DEF ProxyInv, RoomLeft, Pending, Splitting, Others
<1>8. CurrentExists'
  BY <1>1, <1>2, <1>3 DEF ProxyInv, CurrentExists, Current, Splitting, Others
<1>9. ChildrenKnown'
  BY <1>1, <1>2, <1>3, ThreadFacts DEF ProxyInv, ChildrenKnown, LocksHeld, Holding, Current, Others, OtherSessions
<1>10. TriedIsReplaced'
  BY <1>1, <1>2, <1>3 DEF ProxyInv, TriedIsReplaced, CallsFit, Current, Others, OtherSessions
<1>11. OneEnds'
  BY <1>1, <1>2, <1>3 DEF ProxyInv, OneEnds, CallsFit, Ending, Others, OtherSessions
<1>12. OpenActions'
  BY <1>1, <1>2, <1>3 DEF ProxyInv, OpenActions, Ending, Others, OtherSessions
<1>13. EndsAll'
  BY <1>1, <1>2, <1>3 DEF ProxyInv, EndsAll, Others, OtherSessions
<1>14. SplitOffIsWatched'
  BY <1>1, <1>2, <1>3, ThreadFacts, LockType DEF ProxyInv, SplitOffIsWatched, Current, LocksHeld, Holding, Others, OtherSessions
<1>15. WatchdogForgetsClosed'
  BY <1>1, <1>2, <1>3 DEF ProxyInv, WatchdogForgetsClosed
<1>16. EndLeavesNothing'
  BY <1>1, <1>2, <1>3, CreatedSessions DEF ProxyInv, EndLeavesNothing, Current, OtherSessions
<1> QED BY <1>4, <1>5, <1>6, <1>7, <1>8, <1>9, <1>10, <1>11, <1>12, <1>13, <1>14, <1>15, <1>16 DEF ProxyInv

(* A crash is reported, and the session is to be split. *)
LEMMA CrashKeeps ==
    ASSUME ProxyInv, NEW t \in Threads, reportCrash(t)
    PROVE  ProxyInv'
<1>1. /\ th[t].pc = "op" /\ th[t].op = "reportCrash" /\ th' = [th EXCEPT ![t].pc = "tryEnd", ![t].op = "split"]
      /\ UNCHANGED <<lock, proxy, ses, act, mSessionsToClose, toSplit, failure>>
  BY DEF reportCrash, InSession
<1>2. th' \in [Threads -> ThreadRecord] /\ Others(t) /\ th'[t].pc = "tryEnd" /\ th'[t].op = "split"
  BY <1>1 DEF ProxyInv, ProxyTypeOK, ThreadRecord, Others, Pcs, Ops, Holding
<1>3. Created' = Created
  BY <1>1, SameCreated
<1>4. ProxyTypeOK'
  BY <1>1, <1>2, <1>3 DEF ProxyInv, ProxyTypeOK
<1>5. LocksHeld'
  BY <1>1, <1>2, <1>3, ThreadFacts DEF ProxyInv, LocksHeld, Holding, Others, OtherSessions
<1>6. CallsFit'
  BY <1>1, <1>2, <1>3 DEF ProxyInv, CallsFit, Splitting, Others
<1>7. RoomLeft'
  BY <1>1, <1>2, <1>3 DEF ProxyInv, RoomLeft, Pending, Splitting, Others
<1>8. CurrentExists'
  BY <1>1, <1>2, <1>3 DEF ProxyInv, CurrentExists, Current, Splitting, Others
<1>9. ChildrenKnown'
  BY <1>1, <1>2, <1>3, ThreadFacts DEF ProxyInv, ChildrenKnown, LocksHeld, Holding, Current, Others, OtherSessions
<1>10. TriedIsReplaced'
  BY <1>1, <1>2, <1>3 DEF ProxyInv, TriedIsReplaced, CallsFit, Current, Others, OtherSessions
<1>11. OneEnds'
  BY <1>1, <1>2, <1>3 DEF ProxyInv, OneEnds, CallsFit, Ending, Others, OtherSessions
<1>12. OpenActions'
  BY <1>1, <1>2, <1>3 DEF ProxyInv, OpenActions, Ending, Others, OtherSessions
<1>13. EndsAll'
  BY <1>1, <1>2, <1>3 DEF ProxyInv, EndsAll, Others, OtherSessions
<1>14. SplitOffIsWatched'
  BY <1>1, <1>2, <1>3, ThreadFacts, LockType DEF ProxyInv, SplitOffIsWatched, Current, LocksHeld, Holding, Others, OtherSessions
<1>15. WatchdogForgetsClosed'
  BY <1>1, <1>2, <1>3 DEF ProxyInv, WatchdogForgetsClosed
<1>16. EndLeavesNothing'
  BY <1>1, <1>2, <1>3, CreatedSessions DEF ProxyInv, EndLeavesNothing, Current, OtherSessions
<1> QED BY <1>4, <1>5, <1>6, <1>7, <1>8, <1>9, <1>10, <1>11, <1>12, <1>13, <1>14, <1>15, <1>16 DEF ProxyInv

(* A report tests for the current session under the lock ... *)
LEMMA ReportTestKeeps ==
    ASSUME ProxyInv, NEW t \in Threads, ReportTest(t)
    PROVE  ProxyInv'
<1>1. /\ th[t].pc = "idle" /\ lock = NoThread /\ lock' = t /\ Goto(t, "report")
      /\ UNCHANGED <<proxy, ses, act, mSessionsToClose, toSplit, failure>>
  BY DEF ReportTest
<1>2. /\ th' \in [Threads -> ThreadRecord] /\ Others(t) /\ th'[t].pc = "report" /\ th'[t].op = th[t].op
      /\ th'[t].s = th[t].s /\ th'[t].acts = th[t].acts /\ th'[t].todo = th[t].todo
  BY <1>1, GotoFacts DEF ProxyInv, Pcs, Holding
<1>3. Created' = Created
  BY <1>1, SameCreated
<1>4. ProxyTypeOK'
  BY <1>1, <1>2, <1>3 DEF ProxyInv, ProxyTypeOK
<1>5. LocksHeld'
  BY <1>1, <1>2, <1>3, ThreadFacts DEF ProxyInv, LocksHeld, Holding, Others, OtherSessions
<1>6. CallsFit'
  BY <1>1, <1>2, <1>3 DEF ProxyInv, CallsFit, Splitting, Others
<1>7. RoomLeft'
  BY <1>1, <1>2, <1>3 DEF ProxyInv, RoomLeft, Pending, Splitting, Others
<1>8. CurrentExists'
  BY <1>1, <1>2, <1>3 DEF ProxyInv, CurrentExists, Current, Splitting, Others
<1>9. ChildrenKnown'
  BY <1>1, <1>2, <1>3, ThreadFacts DEF ProxyInv, ChildrenKnown, LocksHeld, Holding, Current, Others, OtherSessions
<1>10. TriedIsReplaced'
  BY <1>1, <1>2, <1>3 DEF ProxyInv, TriedIsReplaced, CallsFit, Current, Others, OtherSessions
<1>11. OneEnds'
  BY <1>1, <1>2, <1>3 DEF ProxyInv, OneEnds, CallsFit, Ending, Others, OtherSessions
<1>12. OpenActions'
  BY <1>1, <1>2, <1>3 DEF ProxyInv, OpenActions, Ending, Others, OtherSessions
<1>13. EndsAll'
  BY <1>1, <1>2, <1>3 DEF ProxyInv, EndsAll, Others, OtherSessions
<1>14. SplitOffIsWatched'
  BY <1>1, <1>2, <1>3, ThreadFacts, LockType DEF ProxyInv, SplitOffIsWatched, Current, LocksHeld, Holding, Others, OtherSessions
<1>15. WatchdogForgetsClosed'
  BY <1>1, <1>2, <1>3 DEF ProxyInv, WatchdogForgetsClosed
<1>16. EndLeavesNothing'
  BY <1>1, <1>2, <1>3, CreatedSessions DEF ProxyInv, EndLeavesNothing, Current, OtherSessions
<1> QED BY <1>4, <1>5, <1>6, <1>7, <1>8, <1>9, <1>10, <1>11, <1>12, <1>13, <1>14, <1>15, <1>16 DEF ProxyInv

(* The current session is ended already: another one is created. *)
LEMMA TryEndOver ==
    ASSUME ProxyInv, NEW t \in Threads, TryEnd(t), ses[Current].life # "open"
    PROVE  ProxyInv'
<1>1. /\ th[t].pc = "tryEnd" /\ Goto(t, "create")
      /\ UNCHANGED <<lock, proxy, ses, act, mSessionsToClose, toSplit, failure>>
  BY DEF TryEnd, Current
<1>2. /\ th' \in [Threads -> ThreadRecord] /\ Others(t) /\ th'[t].pc = "create" /\ th'[t].op = th[t].op
      /\ th'[t].s = th[t].s /\ th'[t].acts = th[t].acts /\ th'[t].todo = th[t].todo
  BY <1>1, GotoFacts DEF ProxyInv, Pcs, Holding
<1>3. Created' = Created
  BY <1>1, SameCreated
<1>4. ProxyTypeOK'
  BY <1>1, <1>2, <1>3 DEF ProxyInv, ProxyTypeOK
<1>5. LocksHeld'
  BY <1>1, <1>2, <1>3, ThreadFacts DEF ProxyInv, LocksHeld, Holding, Others, OtherSessions
<1>6. CallsFit'
  BY <1>1, <1>2, <1>3 DEF ProxyInv, CallsFit, Splitting, Others
<1>7. RoomLeft'
  BY <1>1, <1>2, <1>3 DEF ProxyInv, RoomLeft, Pending, Splitting, Others
<1>8. CurrentExists'
  BY <1>1, <1>2, <1>3 DEF ProxyInv, CurrentExists, Current, Splitting, Others
<1>9. ChildrenKnown'
  BY <1>1, <1>2, <1>3, ThreadFacts DEF ProxyInv, ChildrenKnown, LocksHeld, Holding, Current, Others, OtherSessions
<1>10. TriedIsReplaced'
  BY <1>1, <1>2, <1>3 DEF ProxyInv, TriedIsReplaced, CallsFit, Current, Others, OtherSessions
<1>11. OneEnds'
  BY <1>1, <1>2, <1>3 DEF ProxyInv, OneEnds, CallsFit, Ending, Others, OtherSessions
<1>12. OpenActions'
  BY <1>1, <1>2, <1>3 DEF ProxyInv, OpenActions, Ending, Others, OtherSessions
<1>13. EndsAll'
  BY <1>1, <1>2, <1>3 DEF ProxyInv, EndsAll, Others, OtherSessions
<1>14. SplitOffIsWatched'
  BY <1>1, <1>2, <1>3, ThreadFacts, LockType DEF ProxyInv, SplitOffIsWatched, Current, LocksHeld, Holding, Others, OtherSessions
<1>15. WatchdogForgetsClosed'
  BY <1>1, <1>2, <1>3 DEF ProxyInv, WatchdogForgetsClosed
<1>16. EndLeavesNothing'
  BY <1>1, <1>2, <1>3, CreatedSessions DEF ProxyInv, EndLeavesNothing, Current, OtherSessions
<1> QED BY <1>4, <1>5, <1>6, <1>7, <1>8, <1>9, <1>10, <1>11, <1>12, <1>13, <1>14, <1>15, <1>16 DEF ProxyInv

(* The current session has no children: it is ended. *)
LEMMA TryEndFinishes ==
    ASSUME ProxyInv, NEW t \in Threads, TryEnd(t), ses[Current].life = "open", ses[Current].mChildren = {}
    PROVE  ProxyInv'
<1>1. /\ th[t].pc = "tryEnd" /\ Goto(t, "create") /\ ses' = [ses EXCEPT ![Current].life = "finished"]
      /\ onChildClosed(Current) /\ UNCHANGED <<lock, act, toSplit, failure>>
  BY DEF TryEnd, Current
<1>2. Current \in Sessions /\ Current # 0 /\ ~proxy.mIsFinished
  BY <1>1, CurrentUsed DEF Splitting, Sessions
<1>3. /\ th' \in [Threads -> ThreadRecord] /\ Others(t) /\ th'[t].pc = "create" /\ th'[t].op = th[t].op
      /\ th'[t].s = th[t].s /\ th'[t].acts = th[t].acts /\ th'[t].todo = th[t].todo
  BY <1>1, GotoFacts DEF ProxyInv, Pcs, Holding
<1>4. /\ ses' \in [Sessions -> SessionRecord] /\ OtherSessions(Current) /\ ses'[Current].life = "finished"
      /\ ses'[Current].tried = ses[Current].tried /\ ses'[Current].mChildren = ses[Current].mChildren
      /\ ses'[Current].lock = ses[Current].lock
  BY <1>1, <1>2, LifeFacts DEF ProxyInv, Lives
<1>5. /\ proxy' \in [mCurrentSession : 0..MaxSessions, configured : BOOLEAN, mIsFinished : BOOLEAN,
                   mTopLevelActionCount : Nat, mLastUserTag : Tags \cup {NoTag}, mChildren : SUBSET Sessions]
      /\ proxy'.mCurrentSession = proxy.mCurrentSession /\ proxy'.mIsFinished = proxy.mIsFinished
      /\ proxy'.mChildren = proxy.mChildren \ {Current} /\ mSessionsToClose' = mSessionsToClose \ {Current}
      /\ mSessionsToClose' \in SUBSET Sessions
  BY <1>1, ClosedFacts DEF ProxyInv
<1>6. Created' = Created
  BY <1>2, <1>4, SameCreated DEF OtherSessions
<1>7. ProxyTypeOK'
  BY <1>1, <1>2, <1>3, <1>4, <1>5, <1>6 DEF ProxyInv, ProxyTypeOK
<1>8. LocksHeld'
  BY <1>1, <1>2, <1>3, <1>4, <1>5, <1>6, ThreadFacts DEF ProxyInv, LocksHeld, Holding, Others, OtherSessions
<1>9. CallsFit'
  BY <1>1, <1>2, <1>3, <1>4, <1>5, <1>6 DEF ProxyInv, CallsFit, Splitting, Others
<1>10. RoomLeft'
  BY <1>1, <1>2, <1>3, <1>4, <1>5, <1>6 DEF ProxyInv, RoomLeft, Pending, Splitting, Others
<1>11. CurrentExists'
  BY <1>1, <1>2, <1>3, <1>4, <1>5, <1>6 DEF ProxyInv, CurrentExists, Current, Splitting, Others
<1>12. ChildrenKnown'
  BY <1>1, <1>2, <1>3, <1>4, <1>5, <1>6, ThreadFacts DEF ProxyInv, ChildrenKnown, LocksHeld, Holding, Current, Others, OtherSessions
<1>13. TriedIsReplaced'
  BY <1>1, <1>2, <1>3, <1>4, <1>5, <1>6 DEF ProxyInv, TriedIsReplaced, CallsFit, Current, Others, OtherSessions
<1>14. OneEnds'
  BY <1>1, <1>2, <1>3, <1>4, <1>5, <1>6 DEF ProxyInv, OneEnds, CallsFit, Ending, Others, OtherSessions
<1>15. OpenActions'
  BY <1>1, <1>2, <1>3, <1>4, <1>5, <1>6 DEF ProxyInv, OpenActions, Ending, Others, OtherSessions
<1>16. EndsAll'
  BY <1>1, <1>2, <1>3, <1>4, <1>5, <1>6 DEF ProxyInv, EndsAll, Others, OtherSessions
<1>17. SplitOffIsWatched'
  BY <1>1, <1>2, <1>3, <1>4, <1>5, <1>6, ThreadFacts, LockType DEF ProxyInv, SplitOffIsWatched, Current, LocksHeld, Holding, Others, OtherSessions
<1>18. WatchdogForgetsClosed'
  BY <1>1, <1>2, <1>3, <1>4, <1>5, <1>6 DEF ProxyInv, WatchdogForgetsClosed
<1>19. EndLeavesNothing'
  BY <1>1, <1>2, <1>3, <1>4, <1>5, <1>6, CreatedSessions DEF ProxyInv, EndLeavesNothing, Current, OtherSessions
<1> QED BY <1>7, <1>8, <1>9, <1>10, <1>11, <1>12, <1>13, <1>14, <1>15, <1>16, <1>17, <1>18, <1>19 DEF ProxyInv

(* The current session has children: the last one will end it. *)
LEMMA TryEndMarks ==
    ASSUME ProxyInv, NEW t \in Threads, TryEnd(t), ses[Current].life = "open", ses[Current].mChildren # {}
    PROVE  ProxyInv'
<1>1. /\ th[t].pc = "tryEnd" /\ Goto(t, "enqueue") /\ ses' = [ses EXCEPT ![Current].tried = TRUE]
      /\ UNCHANGED <<lock, proxy, mSessionsToClose, act, toSplit, failure>>
  BY DEF TryEnd, Current
<1>2. Current \in Sessions /\ Current # 0 /\ ~proxy.mIsFinished
  BY <1>1, CurrentUsed DEF Splitting, Sessions
<1>3. /\ th' \in [Threads -> ThreadRecord] /\ Others(t) /\ th'[t].pc = "enqueue" /\ th'[t].op = th[t].op
      /\ th'[t].s = th[t].s /\ th'[t].acts = th[t].acts /\ th'[t].todo = th[t].todo
  BY <1>1, GotoFacts DEF ProxyInv, Pcs, Holding
<1>4. /\ ses' \in [Sessions -> SessionRecord] /\ OtherSessions(Current) /\ ses'[Current].life = ses[Current].life
      /\ ses'[Current].tried = TRUE /\ ses'[Current].mChildren = ses[Current].mChildren
      /\ ses'[Current].lock = ses[Current].lock
  BY ZenonT(60), <1>1, <1>2 DEF ProxyInv, ProxyTypeOK, SessionRecord, OtherSessions
<1>5. Created' = Created
  BY <1>2, <1>4, SameCreated DEF OtherSessions
<1>6. ProxyTypeOK'
  BY <1>1, <1>2, <1>3, <1>4, <1>5 DEF ProxyInv, ProxyTypeOK
<1>7. LocksHeld'
  BY <1>1, <1>2, <1>3, <1>4, <1>5, ThreadFacts DEF ProxyInv, LocksHeld, Holding, Others, OtherSessions
<1>8. CallsFit'
  BY <1>1, <1>2, <1>3, <1>4, <1>5 DEF ProxyInv, CallsFit, Splitting, Others
<1>9. RoomLeft'
  BY <1>1, <1>2, <1>3, <1>4, <1>5 DEF ProxyInv, RoomLeft, Pending, Splitting, Others
<1>10. CurrentExists'
  BY <1>1, <1>2, <1>3, <1>4, <1>5 DEF ProxyInv, CurrentExists, Current, Splitting, Others
<1>11. ChildrenKnown'
  BY <1>1, <1>2, <1>3, <1>4, <1>5, ThreadFacts DEF ProxyInv, ChildrenKnown, LocksHeld, Holding, Current, Others, OtherSessions
<1>12. TriedIsReplaced'
  BY <1>1, <1>2, <1>3, <1>4, <1>5 DEF ProxyInv, TriedIsReplaced, CallsFit, Current, Others, OtherSessions
<1>13. OneEnds'
  BY <1>1, <1>2, <1>3, <1>4, <1>5 DEF ProxyInv, OneEnds, CallsFit, Ending, Others, OtherSessions
<1>14. OpenActions'
  BY <1>1, <1>2, <1>3, <1>4, <1>5 DEF ProxyInv, OpenActions, Ending, Others, OtherSessions
<1>15. EndsAll'
  BY <1>1, <1>2, <1>3, <1>4, <1>5 DEF ProxyInv, EndsAll, Others, OtherSessions
<1>16. SplitOffIsWatched'
  BY <1>1, <1>2, <1>3, <1>4, <1>5, ThreadFacts, LockType DEF ProxyInv, SplitOffIsWatched, Current, LocksHeld, Holding, Others, OtherSessions
<1>17. WatchdogForgetsClosed'
  BY <1>1, <1>2, <1>3, <1>4, <1>5 DEF ProxyInv, WatchdogForgetsClosed
<1>18. EndLeavesNothing'
  BY <1>1, <1>2, <1>3, <1>4, <1>5, CreatedSessions DEF ProxyInv, EndLeavesNothing, Current, OtherSessions
<1> QED BY <1>6, <1>7, <1>8, <1>9, <1>10, <1>11, <1>12, <1>13, <1>14, <1>15, <1>16, <1>17, <1>18 DEF ProxyInv

(* tryEnd of the current session. *)
LEMMA TryEndKeeps ==
    ASSUME ProxyInv, NEW t \in Threads, TryEnd(t)
    PROVE  ProxyInv'
BY TryEndOver, TryEndFinishes, TryEndMarks

(* The next session begins. *)
LEMMA CreateKeeps ==
    ASSUME ProxyInv, NEW t \in Threads, Create(t)
    PROVE  ProxyInv'
<1>1. /\ th[t].pc = "create" /\ ses' = [ses EXCEPT ![Cardinality(Created) + 1] = NewSession(proxy.mLastUserTag)]
      /\ proxy' = [proxy EXCEPT !.mCurrentSession = Cardinality(Created) + 1, !.mTopLevelActionCount = 0,
                                !.mChildren = @ \cup {Cardinality(Created) + 1}]
      /\ IF th[t].op = "split" THEN Release(t) ELSE Goto(t, "op") /\ UNCHANGED lock
  BY DEF Create
<1>2. th[t].pc = "create" /\ UNCHANGED <<act, mSessionsToClose, toSplit, failure>>
  BY DEF Create
<1>3. ~proxy.mIsFinished
  BY <1>1, CurrentUsed DEF Splitting
<1>4. PICK n \in Sessions : n = Cardinality(Created) + 1 /\ n # 0 /\ n \in Nat /\ ses[n].life = "none"
  <2>1. Pending(t) \in Int /\ Pending(t) >= 1
    BY <1>1 DEF Pending, Splitting
  <2>2. Cardinality(Created) + Pending(t) <= MaxSessions /\ Cardinality(Created) \in Nat
    BY <1>1 DEF ProxyInv, RoomLeft, Splitting
  <2>3. Cardinality(Created) + 1 \in Sessions /\ Cardinality(Created) + 1 # 0
    BY <2>1, <2>2, ProxyAssumption DEF Sessions
  <2>4. Cardinality(Created) + 1 \notin Created
    BY <2>2 DEF ProxyInv, RoomLeft
  <2>5. ses[Cardinality(Created) + 1].life = "none"
    BY <2>3, <2>4 DEF Created
  <2> QED BY <2>2, <2>3, <2>5
<1>5. /\ ses' \in [Sessions -> SessionRecord] /\ OtherSessions(n) /\ ses'[n].life = "open" /\ ses'[n].tried = FALSE
      /\ ses'[n].mChildren = {} /\ ses'[n].lock = NoThread
  <2>1. /\ NewSession(proxy.mLastUserTag) \in SessionRecord /\ NewSession(proxy.mLastUserTag).life = "open"
        /\ NewSession(proxy.mLastUserTag).tried = FALSE /\ NewSession(proxy.mLastUserTag).mChildren = {}
        /\ NewSession(proxy.mLastUserTag).lock = NoThread
    BY DEF ProxyInv, ProxyTypeOK, NewSession, NoSession, SessionRecord, Lives
  <2> QED BY <1>1, <1>4, <2>1 DEF ProxyInv, ProxyTypeOK, OtherSessions
<1>6. /\ proxy' \in [mCurrentSession : 0..MaxSessions, configured : BOOLEAN, mIsFinished : BOOLEAN,
                   mTopLevelActionCount : Nat, mLastUserTag : Tags \cup {NoTag}, mChildren : SUBSET Sessions]
      /\ proxy'.mCurrentSession = n /\ proxy'.mIsFinished = proxy.mIsFinished
      /\ proxy'.mChildren = proxy.mChildren \cup {n}
  <2>1. proxy' = [proxy EXCEPT !.mCurrentSession = n, !.mTopLevelActionCount = 0, !.mChildren = @ \cup {n}]
    BY <1>1, <1>4
  <2>2. n \in 0..MaxSessions
    BY <1>4 DEF Sessions
  <2> QED BY <1>4, <2>1, <2>2 DEF ProxyInv, ProxyTypeOK
<1>7. /\ th' \in [Threads -> ThreadRecord] /\ Others(t)
      /\ \/ lock' = NoThread /\ th'[t].pc = "idle" /\ th'[t].op = "none"
         \/ lock' = lock /\ th'[t].pc = "op" /\ th'[t].op = th[t].op /\ th[t].op # "split"
  BY <1>1, GotoFacts, IdleFacts DEF ProxyInv, Release, Pcs, Holding
<1>8. Created' = 1..n /\ Created' = Created \cup {n} /\ Cardinality(Created') = n
  <2>1. Created' = Created \cup {n}
    BY <1>4, <1>5 DEF Created, OtherSessions
  <2>2. Created = 1..(n - 1)
    BY <1>4 DEF ProxyInv, RoomLeft
  <2> QED BY <1>4, <2>1, <2>2, OneMore
<1>9. ProxyTypeOK'
  BY <1>2, <1>3, <1>4, <1>5, <1>6, <1>7, <1>8 DEF ProxyInv, ProxyTypeOK
<1>10. LocksHeld'
  <2>1. lock = t
    BY <1>2 DEF ProxyInv, LocksHeld, Holding
  <2>2. \A u \in Threads : lock' = u <=> th'[u].pc \in Holding
    BY <1>2, <1>7, <2>1, ThreadFacts DEF ProxyInv, LocksHeld, Holding, Others
  <2>3. \A s \in Sessions, u \in Threads : ses'[s].lock = u <=> th'[u].pc = "tellHeld" /\ th'[u].s = s
    <3>1. \A u \in Threads : th[u].pc = "tellHeld" => th[u].s # n
      BY <1>4 DEF ProxyInv, TriedIsReplaced
    <3> QED BY <1>2, <1>4, <1>5, <1>7, <3>1, ThreadFacts DEF ProxyInv, LocksHeld, Others, OtherSessions
  <2> QED BY <2>2, <2>3 DEF LocksHeld
<1>11. CallsFit'
  BY <1>2, <1>3, <1>4, <1>5, <1>6, <1>7, <1>8 DEF ProxyInv, CallsFit, Splitting, Others
<1>12. RoomLeft'
  <2>1. lock = t /\ \A u \in Threads \ {t} : th[u].pc \notin Holding
    BY <1>2 DEF ProxyInv, LocksHeld, Holding
  <2>2. Cardinality(Created) + Pending(t) <= MaxSessions /\ Cardinality(Created) \in Nat
    BY <1>2 DEF ProxyInv, RoomLeft, Splitting
  <2>3. th'[t].pc = "op" => n + Pending(t)' <= MaxSessions
    <3>1. SUFFICES ASSUME th'[t].pc = "op" PROVE n + Pending(t)' <= MaxSessions
      OBVIOUS
    <3>2. th'[t].op = th[t].op
      BY <1>7, <3>1
    <3>3. CASE th[t].op = "reportCrash"
      <4>1. Pending(t)' = 1 /\ Pending(t) = 2
        BY <1>2, <3>1, <3>2, <3>3 DEF Pending, Splitting
      <4> QED BY <1>4, <2>2, <4>1
    <3>4. CASE th[t].op # "reportCrash"
      <4>1. Pending(t)' = 0 /\ Pending(t) = 1
        BY <1>2, <3>1, <3>2, <3>4 DEF Pending, Splitting
      <4> QED BY <1>4, <2>2, <4>1
    <3> QED BY <3>3, <3>4
  <2>4. \A u \in Threads \ {t} : th'[u].pc \notin Splitting \cup {"op"}
    BY <1>7, <2>1 DEF Others, Splitting, Holding
  <2>5. th'[t].pc \notin Splitting
    BY <1>7 DEF Splitting
  <2> QED BY <1>4, <1>8, <2>3, <2>4, <2>5 DEF RoomLeft
<1>13. CurrentExists'
  BY <1>2, <1>3, <1>4, <1>5, <1>6, <1>7, <1>8 DEF ProxyInv, CurrentExists, Current, Splitting, Others
<1>14. ChildrenKnown'
  BY <1>2, <1>3, <1>4, <1>5, <1>6, <1>7, <1>8, ThreadFacts DEF ProxyInv, ChildrenKnown, LocksHeld, Holding, Current, Others, OtherSessions
<1>15. TriedIsReplaced'
  <2>1. \A u \in Threads : th[u].pc \in {"tellHeld", "tell"} => u # t /\ th[u].s \in Sessions \ {n}
    BY <1>2, <1>4 DEF ProxyInv, TriedIsReplaced, CallsFit
  <2>2. \A u \in Threads : th'[u].pc \in {"tellHeld", "tell"} => u # t
    BY <1>7
  <2>3. \A u \in Threads :
          /\ th'[u].pc = "tellHeld" => ses'[th'[u].s].tried
          /\ th'[u].pc \in {"tellHeld", "tell"} => ses'[th'[u].s].life = "finished"
    BY <1>5, <1>7, <2>1, <2>2 DEF ProxyInv, TriedIsReplaced, Others, OtherSessions
  <2> QED BY <1>5, <1>6, <2>3 DEF TriedIsReplaced, Current
<1>16. OneEnds'
  <2>1. \A u \in Threads : Ending(u) => u # t /\ th[u].s \in Sessions \ {n}
    BY <1>2, <1>4 DEF ProxyInv, OneEnds, CallsFit, Ending
  <2>2. \A u \in Threads : Ending(u)' => u # t /\ Ending(u) /\ th'[u] = th[u]
    BY <1>7 DEF Ending, Others
  <2> QED BY <1>5, <2>1, <2>2 DEF ProxyInv, OneEnds, OtherSessions
<1>17. OpenActions'
  <2>1. \A u \in Threads : Ending(u)' => u # t /\ Ending(u) /\ th'[u] = th[u]
    BY <1>7 DEF Ending, Others
  <2>2. \A a \in Actions : act[a].state = "open" => act[a].session # n
    BY <1>4 DEF ProxyInv, OpenActions
  <2> QED BY <1>2, <1>5, <2>1, <2>2 DEF ProxyInv, OpenActions, OtherSessions
<1>18. EndsAll'
  BY <1>2, <1>3, <1>4, <1>5, <1>6, <1>7, <1>8 DEF ProxyInv, EndsAll, Others, OtherSessions
<1>19. SplitOffIsWatched'
  BY <1>2, <1>3, <1>4, <1>5, <1>6, <1>7, <1>8, ThreadFacts, LockType DEF ProxyInv, SplitOffIsWatched, Current, LocksHeld, Holding, Others, OtherSessions
<1>20. WatchdogForgetsClosed'
  BY <1>2, <1>3, <1>4, <1>5, <1>6, <1>7, <1>8 DEF ProxyInv, WatchdogForgetsClosed
<1>21. EndLeavesNothing'
  BY <1>4, <1>6 DEF EndLeavesNothing, Current
<1> QED BY <1>9, <1>10, <1>11, <1>12, <1>13, <1>14, <1>15, <1>16, <1>17, <1>18, <1>19, <1>20, <1>21 DEF ProxyInv

(* An action or a tracer becomes a child of the current session. *)
LEMMA AddChildKeeps ==
    ASSUME ProxyInv, NEW t \in Threads, NEW a \in Actions, NEW counted \in Nat, th[t].pc = "op", AddChild(t, a, counted)
    PROVE  ProxyInv'
<1>1. /\ act[a].state = "none" /\ proxy' = [proxy EXCEPT !.mTopLevelActionCount = @ + counted]
      /\ lock' = NoThread /\ th' = [th EXCEPT ![t] = Idle]
      /\ UNCHANGED <<mSessionsToClose, toSplit, failure>>
  BY DEF AddChild, Release
<1>2. /\ act[a].state = "none" /\ lock' = NoThread /\ UNCHANGED <<mSessionsToClose, toSplit, failure>>
  BY <1>1
<1>3. Current \in Sessions /\ Current # 0 /\ ~proxy.mIsFinished
  BY CurrentUsed DEF Sessions
<1>4. th' \in [Threads -> ThreadRecord] /\ Others(t) /\ th'[t].pc = "idle" /\ th'[t].op = "none"
  BY <1>1, IdleFacts DEF ProxyInv
<1>5. /\ proxy' \in [mCurrentSession : 0..MaxSessions, configured : BOOLEAN, mIsFinished : BOOLEAN,
                   mTopLevelActionCount : Nat, mLastUserTag : Tags \cup {NoTag}, mChildren : SUBSET Sessions]
      /\ proxy'.mCurrentSession = proxy.mCurrentSession /\ proxy'.mIsFinished = proxy.mIsFinished
      /\ proxy'.mChildren = proxy.mChildren
  BY <1>1 DEF ProxyInv, ProxyTypeOK
<1>6. /\ ses' \in [Sessions -> SessionRecord] /\ OtherSessions(Current)
      /\ ses'[Current].life = ses[Current].life /\ ses'[Current].tried = ses[Current].tried
      /\ ses'[Current].lock = ses[Current].lock /\ ses[Current].mChildren \subseteq ses'[Current].mChildren
  <2>1. ses \in [Sessions -> SessionRecord]
    BY DEF ProxyInv, ProxyTypeOK
  <2>2. CASE ses' = ses
    BY <1>3, <2>1, <2>2 DEF OtherSessions
  <2>3. CASE ses' = [ses EXCEPT ![Current].mChildren = @ \cup {a}]
    BY <1>3, <2>1, <2>3 DEF OtherSessions, SessionRecord
  <2> QED BY <2>2, <2>3 DEF AddChild
<1>7. /\ act' \in [Actions -> [state : {"none", "open", "left", "closed"}, session : 0..MaxSessions]]
      /\ \A b \in Actions \ {a} : act'[b] = act[b]
      /\ act'[a].state = "open" =>
           act'[a].session = Current /\ a \in ses'[Current].mChildren /\ ses[Current].life = "open"
  <2>1. /\ act \in [Actions -> [state : {"none", "open", "left", "closed"}, session : 0..MaxSessions]]
        /\ ses \in [Sessions -> SessionRecord] /\ Current \in 0..MaxSessions
    BY <1>3 DEF ProxyInv, ProxyTypeOK, Sessions
  <2>2. CASE act' = act
    BY <1>1, <2>1, <2>2
  <2>3. CASE /\ ses[Current].life = "open" /\ ses' = [ses EXCEPT ![Current].mChildren = @ \cup {a}]
             /\ act' = [act EXCEPT ![a] = [state |-> "open", session |-> Current]]
    BY <1>3, <2>1, <2>3 DEF SessionRecord
  <2> QED BY <2>2, <2>3 DEF AddChild
<1>8. Created' = Created
  BY <1>3, <1>6, SameCreated DEF OtherSessions
<1>9. ProxyTypeOK'
  BY <1>2, <1>3, <1>4, <1>5, <1>6, <1>7, <1>8 DEF ProxyInv, ProxyTypeOK
<1>10. LocksHeld'
  BY <1>2, <1>3, <1>4, <1>5, <1>6, <1>7, <1>8, ThreadFacts DEF ProxyInv, LocksHeld, Holding, Others, OtherSessions
<1>11. CallsFit'
  BY <1>2, <1>3, <1>4, <1>5, <1>6, <1>7, <1>8 DEF ProxyInv, CallsFit, Splitting, Others
<1>12. RoomLeft'
  BY SMTT(60), <1>2, <1>3, <1>4, <1>5, <1>6, <1>7, <1>8 DEF ProxyInv, RoomLeft, Pending, Splitting, Others
<1>13. CurrentExists'
  BY <1>2, <1>3, <1>4, <1>5, <1>6, <1>7, <1>8 DEF ProxyInv, CurrentExists, Current, Splitting, Others
<1>14. ChildrenKnown'
  BY <1>2, <1>3, <1>4, <1>5, <1>6, <1>7, <1>8, ThreadFacts DEF ProxyInv, ChildrenKnown, LocksHeld, Holding, Current, Others, OtherSessions
<1>15. TriedIsReplaced'
  BY <1>2, <1>3, <1>4, <1>5, <1>6, <1>7, <1>8 DEF ProxyInv, TriedIsReplaced, CallsFit, Current, Others, OtherSessions
<1>16. OneEnds'
  BY <1>2, <1>3, <1>4, <1>5, <1>6, <1>7, <1>8 DEF ProxyInv, OneEnds, CallsFit, Ending, Others, OtherSessions
<1>17. OpenActions'
  <2>1. \A u \in Threads : Ending(u)' => u # t /\ Ending(u) /\ th'[u] = th[u]
    BY <1>4 DEF Ending, Others
  <2>2. \A u \in Threads : Ending(u) => ses[th[u].s].life = "finishing"
    BY DEF ProxyInv, OneEnds
  <2>3. \A b \in Actions : act'[b].state = "open" =>
          /\ act'[b].session \in Sessions /\ b \in ses'[act'[b].session].mChildren
          /\ ses'[act'[b].session].life \in {"open", "finishing"}
    BY <1>2, <1>3, <1>6, <1>7 DEF ProxyInv, OpenActions, OtherSessions
  <2>4. \A u \in Threads : Ending(u)' /\ th'[u].pc # "copy" =>
          \A b \in Actions : act'[b].state = "open" /\ act'[b].session = th'[u].s => b \in th'[u].acts
    BY <1>7, <2>1, <2>2 DEF ProxyInv, OpenActions
  <2> QED BY <2>3, <2>4 DEF OpenActions
<1>18. EndsAll'
  BY <1>2, <1>3, <1>4, <1>5, <1>6, <1>7, <1>8 DEF ProxyInv, EndsAll, Others, OtherSessions
<1>19. SplitOffIsWatched'
  BY <1>2, <1>3, <1>4, <1>5, <1>6, <1>7, <1>8, ThreadFacts, LockType DEF ProxyInv, SplitOffIsWatched, Current, LocksHeld, Holding, Others, OtherSessions
<1>20. WatchdogForgetsClosed'
  BY <1>2, <1>3, <1>4, <1>5, <1>6, <1>7, <1>8 DEF ProxyInv, WatchdogForgetsClosed
<1>21. EndLeavesNothing'
  BY <1>2, <1>3, <1>4, <1>5, <1>6, <1>7, <1>8, CreatedSessions DEF ProxyInv, EndLeavesNothing, Current, OtherSessions
<1> QED BY <1>9, <1>10, <1>11, <1>12, <1>13, <1>14, <1>15, <1>16, <1>17, <1>18, <1>19, <1>20, <1>21 DEF ProxyInv

(* The user is identified. *)
LEMMA IdentifyKeeps ==
    ASSUME ProxyInv, NEW t \in Threads, NEW tag \in Tags \cup {NoTag}, identifyUser(t, tag)
    PROVE  ProxyInv'
<1>1. /\ th[t].pc = "op" /\ proxy' = [proxy EXCEPT !.mLastUserTag = tag]
      /\ lock' = NoThread /\ th' = [th EXCEPT ![t] = Idle]
      /\ UNCHANGED <<act, mSessionsToClose, toSplit, failure>>
  BY DEF identifyUser, InSession, Release
<1>2. th[t].pc = "op" /\ lock' = NoThread /\ UNCHANGED <<act, mSessionsToClose, toSplit, failure>>
  BY <1>1
<1>3. Current \in Sessions /\ Current # 0 /\ ~proxy.mIsFinished
  BY <1>1, CurrentUsed DEF Sessions
<1>4. th' \in [Threads -> ThreadRecord] /\ Others(t) /\ th'[t].pc = "idle" /\ th'[t].op = "none"
  BY <1>1, IdleFacts DEF ProxyInv
<1>5. /\ proxy' \in [mCurrentSession : 0..MaxSessions, configured : BOOLEAN, mIsFinished : BOOLEAN,
                   mTopLevelActionCount : Nat, mLastUserTag : Tags \cup {NoTag}, mChildren : SUBSET Sessions]
      /\ proxy'.mCurrentSession = proxy.mCurrentSession /\ proxy'.mIsFinished = proxy.mIsFinished
      /\ proxy'.mChildren = proxy.mChildren
  BY <1>1 DEF ProxyInv, ProxyTypeOK
<1>6. /\ ses' \in [Sessions -> SessionRecord] /\ OtherSessions(Current)
      /\ ses'[Current].life = ses[Current].life /\ ses'[Current].tried = ses[Current].tried
      /\ ses'[Current].lock = ses[Current].lock /\ ses'[Current].mChildren = ses[Current].mChildren
  <2>1. ses \in [Sessions -> SessionRecord]
    BY DEF ProxyInv, ProxyTypeOK
  <2>2. ses' = ses \/ ses' = [ses EXCEPT ![Current].tag = tag]
    BY DEF identifyUser
  <2> QED BY <1>3, <2>1, <2>2 DEF OtherSessions, SessionRecord
<1>7. Created' = Created
  BY <1>3, <1>6, SameCreated DEF OtherSessions
<1>8. ProxyTypeOK'
  BY <1>2, <1>3, <1>4, <1>5, <1>6, <1>7 DEF ProxyInv, ProxyTypeOK
<1>9. LocksHeld'
  BY <1>2, <1>3, <1>4, <1>5, <1>6, <1>7, ThreadFacts DEF ProxyInv, LocksHeld, Holding, Others, OtherSessions
<1>10. CallsFit'
  BY <1>2, <1>3, <1>4, <1>5, <1>6, <1>7 DEF ProxyInv, CallsFit, Splitting, Others
<1>11. RoomLeft'
  BY <1>2, <1>3, <1>4, <1>5, <1>6, <1>7 DEF ProxyInv, RoomLeft, Pending, Splitting, Others
<1>12. CurrentExists'
  BY <1>2, <1>3, <1>4, <1>5, <1>6, <1>7 DEF ProxyInv, CurrentExists, Current, Splitting, Others
<1>13. ChildrenKnown'
  BY <1>2, <1>3, <1>4, <1>5, <1>6, <1>7, ThreadFacts DEF ProxyInv, ChildrenKnown, LocksHeld, Holding, Current, Others, OtherSessions
<1>14. TriedIsReplaced'
  BY <1>2, <1>3, <1>4, <1>5, <1>6, <1>7 DEF ProxyInv, TriedIsReplaced, CallsFit, Current, Others, OtherSessions
<1>15. OneEnds'
  BY <1>2, <1>3, <1>4, <1>5, <1>6, <1>7 DEF ProxyInv, OneEnds, CallsFit, Ending, Others, OtherSessions
<1>16. OpenActions'
  BY <1>2, <1>3, <1>4, <1>5, <1>6, <1>7 DEF ProxyInv, OpenActions, Ending, Others, OtherSessions
<1>17. EndsAll'
  BY <1>2, <1>3, <1>4, <1>5, <1>6, <1>7 DEF ProxyInv, EndsAll, Others, OtherSessions
<1>18. SplitOffIsWatched'
  BY <1>2, <1>3, <1>4, <1>5, <1>6, <1>7, ThreadFacts, LockType DEF ProxyInv, SplitOffIsWatched, Current, LocksHeld, Holding, Others, OtherSessions
<1>19. WatchdogForgetsClosed'
  BY <1>2, <1>3, <1>4, <1>5, <1>6, <1>7 DEF ProxyInv, WatchdogForgetsClosed
<1>20. EndLeavesNothing'
  BY <1>2, <1>3, <1>4, <1>5, <1>6, <1>7, CreatedSessions DEF ProxyInv, EndLeavesNothing, Current, OtherSessions
<1> QED BY <1>8, <1>9, <1>10, <1>11, <1>12, <1>13, <1>14, <1>15, <1>16, <1>17, <1>18, <1>19, <1>20 DEF ProxyInv

(* An action is left: it is not open any more. *)
LEMMA LeaveKeeps ==
    ASSUME ProxyInv, NEW t \in Threads, NEW a \in Actions, LeaveAction(t, a)
    PROVE  ProxyInv'
<1>1. /\ th[t].pc = "idle" /\ act[a].state = "open" /\ act' = [act EXCEPT ![a].state = "left"]
      /\ th' = [th EXCEPT ![t] = [th[t] EXCEPT !.pc = "detach", !.op = "leave", !.a = a, !.s = act[a].session]]
  BY DEF ProxyInv, ProxyTypeOK, LeaveAction
<1>2. th[t].pc = "idle" /\ UNCHANGED <<lock, proxy, ses, mSessionsToClose, toSplit, failure>>
  BY DEF LeaveAction
<1>3. act[a].session \in Sessions /\ act[a].session \in 0..MaxSessions
  BY <1>1 DEF ProxyInv, ProxyTypeOK, OpenActions
<1>4. /\ th' \in [Threads -> ThreadRecord] /\ Others(t) /\ th'[t].pc = "detach" /\ th'[t].op = "leave"
      /\ th'[t].s \in Sessions
  <2> DEFINE r == [th[t] EXCEPT !.pc = "detach", !.op = "leave", !.a = a, !.s = act[a].session]
  <2>1. th[t] \in ThreadRecord
    BY DEF ProxyInv, ProxyTypeOK
  <2>2. r \in ThreadRecord /\ r.pc = "detach" /\ r.op = "leave" /\ r.s = act[a].session
    BY <1>3, <2>1 DEF ThreadRecord, Pcs, Ops
  <2> HIDE DEF r
  <2>3. th' = [th EXCEPT ![t] = r]
    BY <1>1 DEF r
  <2> QED BY <1>3, <2>2, <2>3 DEF ProxyInv, ProxyTypeOK, Others
<1>5. /\ act' \in [Actions -> [state : {"none", "open", "left", "closed"}, session : 0..MaxSessions]]
      /\ \A b \in Actions : act'[b].session = act[b].session /\ (act'[b].state = "open" => act[b].state = "open")
  BY <1>1 DEF ProxyInv, ProxyTypeOK
<1>6. Created' = Created
  BY <1>2, SameCreated
<1>7. ProxyTypeOK'
  BY <1>2, <1>4, <1>5, <1>6 DEF ProxyInv, ProxyTypeOK
<1>8. LocksHeld'
  BY <1>2, <1>4, <1>5, <1>6, ThreadFacts DEF ProxyInv, LocksHeld, Holding, Others, OtherSessions
<1>9. CallsFit'
  BY <1>2, <1>4, <1>5, <1>6 DEF ProxyInv, CallsFit, Splitting, Others
<1>10. RoomLeft'
  BY <1>2, <1>4, <1>5, <1>6 DEF ProxyInv, RoomLeft, Pending, Splitting, Others
<1>11. CurrentExists'
  BY <1>2, <1>4, <1>5, <1>6 DEF ProxyInv, CurrentExists, Current, Splitting, Others
<1>12. ChildrenKnown'
  BY <1>2, <1>4, <1>5, <1>6, ThreadFacts DEF ProxyInv, ChildrenKnown, LocksHeld, Holding, Current, Others, OtherSessions
<1>13. TriedIsReplaced'
  BY <1>2, <1>4, <1>5, <1>6 DEF ProxyInv, TriedIsReplaced, CallsFit, Current, Others, OtherSessions
<1>14. OneEnds'
  BY <1>2, <1>4, <1>5, <1>6 DEF ProxyInv, OneEnds, CallsFit, Ending, Others, OtherSessions
<1>15. OpenActions'
  BY <1>2, <1>4, <1>5, <1>6 DEF ProxyInv, OpenActions, Ending, Others, OtherSessions
<1>16. EndsAll'
  BY <1>2, <1>4, <1>5, <1>6 DEF ProxyInv, EndsAll, Others, OtherSessions
<1>17. SplitOffIsWatched'
  BY <1>2, <1>4, <1>5, <1>6, ThreadFacts, LockType DEF ProxyInv, SplitOffIsWatched, Current, LocksHeld, Holding, Others, OtherSessions
<1>18. WatchdogForgetsClosed'
  BY <1>2, <1>4, <1>5, <1>6 DEF ProxyInv, WatchdogForgetsClosed
<1>19. EndLeavesNothing'
  BY <1>2, <1>4, <1>5, <1>6, CreatedSessions DEF ProxyInv, EndLeavesNothing, Current, OtherSessions
<1> QED BY <1>7, <1>8, <1>9, <1>10, <1>11, <1>12, <1>13, <1>14, <1>15, <1>16, <1>17, <1>18, <1>19 DEF ProxyInv

(* Session::onChildClosed ends a session that only waited for its last child. *)
LastLeaves(t) ==
    LET s == th[t].s
    IN ses[s].tried /\ ses[s].mChildren \ {th[t].a} = {} /\ ses[s].life = "open"

(* The last child of a session that was marked ends it. *)
LEMMA DetachEnds ==
    ASSUME ProxyInv, NEW t \in Threads, Detach(t), LastLeaves(t)
    PROVE  ProxyInv'
<1>1. /\ act' = [act EXCEPT ![th[t].a].state = "closed"]
      /\ th[t].pc = "detach" /\ Free(th[t].s) /\ UNCHANGED <<lock, proxy, mSessionsToClose, toSplit, failure>>
  BY DEF Detach
<1>2. /\ th[t].pc = "detach" /\ ses[th[t].s].lock = NoThread
      /\ UNCHANGED <<lock, proxy, mSessionsToClose, toSplit, failure>>
  BY <1>1 DEF Free
<1>3. /\ act' \in [Actions -> [state : {"none", "open", "left", "closed"}, session : 0..MaxSessions]]
      /\ \A b \in Actions : /\ act'[b].session = act[b].session
                            /\ act'[b].state = "open" => act[b].state = "open" /\ b # th[t].a
  BY ZenonT(60), <1>1 DEF ProxyInv, ProxyTypeOK
<1>4. th[t].s \in Sessions /\ ses[th[t].s].tried /\ ses[th[t].s].life = "open" /\ ses[th[t].s].mChildren \subseteq {th[t].a}
  BY <1>1 DEF ProxyInv, CallsFit, LastLeaves
<1>5. th[t].op = "leave"
  BY <1>2, <1>4 DEF ProxyInv, CallsFit, OneEnds, Ending
<1>6. /\ ses' = [ses EXCEPT ![th[t].s] = [@ EXCEPT !.mChildren = ses[th[t].s].mChildren \ {th[t].a}, !.lock = t,
                                           !.life = "finished", !.endEvent = TRUE]]
      /\ Goto(t, "tellHeld")
  BY DEF Detach, LastLeaves
<1>7. /\ ses' \in [Sessions -> SessionRecord] /\ OtherSessions(th[t].s) /\ ses'[th[t].s].life = "finished"
      /\ ses'[th[t].s].tried = ses[th[t].s].tried /\ ses'[th[t].s].lock = t
  <2>1. ses \in [Sessions -> SessionRecord] /\ ses[th[t].s] \in SessionRecord
    BY <1>4 DEF ProxyInv, ProxyTypeOK
  <2> DEFINE r == [ses[th[t].s] EXCEPT !.mChildren = ses[th[t].s].mChildren \ {th[t].a}, !.lock = t,
                                       !.life = "finished", !.endEvent = TRUE]
  <2>2. r \in SessionRecord /\ r.life = "finished" /\ r.tried = ses[th[t].s].tried /\ r.lock = t
    BY <2>1 DEF SessionRecord, Lives
  <2>3. ses' = [ses EXCEPT ![th[t].s] = r]
    BY <1>6
  <2> HIDE DEF r
  <2> QED BY <1>4, <2>1, <2>2, <2>3 DEF OtherSessions
<1>8. /\ th' \in [Threads -> ThreadRecord] /\ Others(t) /\ th'[t].pc = "tellHeld" /\ th'[t].op = th[t].op
      /\ th'[t].s = th[t].s /\ th'[t].acts = th[t].acts /\ th'[t].todo = th[t].todo
  BY <1>6, GotoFacts DEF ProxyInv, Pcs, Holding
<1>9. Created' = Created
  BY <1>4, <1>7, SameCreated DEF OtherSessions
<1>10. ProxyTypeOK'
  BY <1>2, <1>3, <1>4, <1>5, <1>7, <1>8, <1>9 DEF ProxyInv, ProxyTypeOK
<1>11. LocksHeld'
  BY <1>2, <1>3, <1>4, <1>5, <1>7, <1>8, <1>9, ThreadFacts DEF ProxyInv, LocksHeld, Holding, Others, OtherSessions
<1>12. CallsFit'
  BY <1>2, <1>3, <1>4, <1>5, <1>7, <1>8, <1>9 DEF ProxyInv, CallsFit, Splitting, Others
<1>13. RoomLeft'
  BY <1>2, <1>3, <1>4, <1>5, <1>7, <1>8, <1>9 DEF ProxyInv, RoomLeft, Pending, Splitting, Others
<1>14. CurrentExists'
  BY <1>2, <1>3, <1>4, <1>5, <1>7, <1>8, <1>9 DEF ProxyInv, CurrentExists, Current, Splitting, Others
<1>15. ChildrenKnown'
  BY <1>2, <1>3, <1>4, <1>5, <1>7, <1>8, <1>9, ThreadFacts DEF ProxyInv, ChildrenKnown, LocksHeld, Holding, Current, Others, OtherSessions
<1>16. TriedIsReplaced'
  <2>1. \A u \in Threads : th[u].pc \in {"enqueue", "create"} => th'[u].pc \in {"enqueue", "create"}
    BY <1>2, <1>8 DEF Others
  <2>2. \A s \in Sessions : ses'[s].tried => ses[s].tried
    BY <1>4, <1>7 DEF OtherSessions
  <2>3. \A s \in Sessions : s = Current' /\ ses'[s].tried =>
          \E u \in Threads : th'[u].pc \in {"enqueue", "create"}
    BY <1>2, <2>1, <2>2 DEF ProxyInv, TriedIsReplaced, Current
  <2>4. \A u \in Threads : th'[u].pc \in {"tellHeld", "tell"} => th'[u].s \in Sessions /\ (u # t => th'[u] = th[u])
    BY <1>4, <1>8 DEF ProxyInv, CallsFit, Others
  <2>5. \A u \in Threads :
          /\ th'[u].pc = "tellHeld" => ses'[th'[u].s].tried
          /\ th'[u].pc \in {"tellHeld", "tell"} => ses'[th'[u].s].life = "finished"
    <3>1. ses'[th'[t].s].tried /\ ses'[th'[t].s].life = "finished"
      BY <1>4, <1>7, <1>8
    <3>2. \A u \in Threads \ {t} : th[u].pc \in {"tellHeld", "tell"} => th[u].s # th[t].s
      BY <1>4 DEF ProxyInv, TriedIsReplaced
    <3> QED BY <1>7, <2>4, <3>1, <3>2 DEF ProxyInv, TriedIsReplaced, OtherSessions
  <2> QED BY <2>3, <2>5 DEF TriedIsReplaced
<1>17. OneEnds'
  BY <1>2, <1>3, <1>4, <1>5, <1>7, <1>8, <1>9 DEF ProxyInv, OneEnds, CallsFit, Ending, Others, OtherSessions
<1>18. OpenActions'
  <2>1. \A u \in Threads : Ending(u)' => u # t /\ Ending(u) /\ th'[u] = th[u]
    BY <1>8 DEF Ending, Others
  <2>2. \A b \in Actions : act'[b].state = "open" => act[b].state = "open" /\ act[b].session # th[t].s
    BY <1>3, <1>4 DEF ProxyInv, OpenActions
  <2> QED BY <1>3, <1>7, <2>1, <2>2 DEF ProxyInv, OpenActions, OtherSessions
<1>19. EndsAll'
  BY <1>2, <1>3, <1>4, <1>5, <1>7, <1>8, <1>9 DEF ProxyInv, EndsAll, Others, OtherSessions
<1>20. SplitOffIsWatched'
  BY <1>2, <1>3, <1>4, <1>5, <1>7, <1>8, <1>9, ThreadFacts, LockType DEF ProxyInv, SplitOffIsWatched, Current, LocksHeld, Holding, Others, OtherSessions
<1>21. WatchdogForgetsClosed'
  BY <1>2, <1>3, <1>4, <1>5, <1>7, <1>8, <1>9 DEF ProxyInv, WatchdogForgetsClosed
<1>22. EndLeavesNothing'
  BY <1>2, <1>3, <1>4, <1>5, <1>7, <1>8, <1>9, CreatedSessions DEF ProxyInv, EndLeavesNothing, Current, OtherSessions
<1> QED BY <1>10, <1>11, <1>12, <1>13, <1>14, <1>15, <1>16, <1>17, <1>18, <1>19, <1>20, <1>21, <1>22 DEF ProxyInv

(* A child is left, and the call returns. *)
LEMMA DetachReturns ==
    ASSUME ProxyInv, NEW t \in Threads, Detach(t), ~LastLeaves(t), th[t].op = "leave"
    PROVE  ProxyInv'
<1>1. /\ act' = [act EXCEPT ![th[t].a].state = "closed"]
      /\ th[t].pc = "detach" /\ Free(th[t].s) /\ UNCHANGED <<lock, proxy, mSessionsToClose, toSplit, failure>>
  BY DEF Detach
<1>2. /\ th[t].pc = "detach" /\ ses[th[t].s].lock = NoThread
      /\ UNCHANGED <<lock, proxy, mSessionsToClose, toSplit, failure>>
  BY <1>1 DEF Free
<1>3. /\ act' \in [Actions -> [state : {"none", "open", "left", "closed"}, session : 0..MaxSessions]]
      /\ \A b \in Actions : /\ act'[b].session = act[b].session
                            /\ act'[b].state = "open" => act[b].state = "open" /\ b # th[t].a
  BY ZenonT(60), <1>1 DEF ProxyInv, ProxyTypeOK
<1>4. th[t].s \in Sessions
  BY <1>1 DEF ProxyInv, CallsFit
<1>5. ~(ses[th[t].s].tried /\ ses[th[t].s].mChildren \ {th[t].a} = {} /\ ses[th[t].s].life = "open")
  BY DEF LastLeaves
<1>6. ses' = [ses EXCEPT ![th[t].s].mChildren = ses[th[t].s].mChildren \ {th[t].a}]
  BY DEF Detach, LastLeaves
<1>7. /\ ses' \in [Sessions -> SessionRecord] /\ OtherSessions(th[t].s)
      /\ ses'[th[t].s].life = ses[th[t].s].life /\ ses'[th[t].s].tried = ses[th[t].s].tried
      /\ ses'[th[t].s].lock = ses[th[t].s].lock
      /\ ses'[th[t].s].mChildren = ses[th[t].s].mChildren \ {th[t].a}
  BY SMTT(60), <1>4, <1>6 DEF ProxyInv, ProxyTypeOK, SessionRecord, OtherSessions
<1>8. th' \in [Threads -> ThreadRecord] /\ Others(t) /\ th'[t].pc = "idle" /\ th'[t].op = "none"
  BY IdleFacts DEF ProxyInv, Detach, LastLeaves
<1>9. Created' = Created
  BY <1>4, <1>7, SameCreated DEF OtherSessions
<1>10. ProxyTypeOK'
  BY <1>2, <1>3, <1>4, <1>5, <1>7, <1>8, <1>9 DEF ProxyInv, ProxyTypeOK
<1>11. LocksHeld'
  BY <1>2, <1>3, <1>4, <1>5, <1>7, <1>8, <1>9, ThreadFacts DEF ProxyInv, LocksHeld, Holding, Others, OtherSessions
<1>12. CallsFit'
  BY <1>2, <1>3, <1>4, <1>5, <1>7, <1>8, <1>9 DEF ProxyInv, CallsFit, Splitting, Others
<1>13. RoomLeft'
  BY <1>2, <1>3, <1>4, <1>5, <1>7, <1>8, <1>9 DEF ProxyInv, RoomLeft, Pending, Splitting, Others
<1>14. CurrentExists'
  BY <1>2, <1>3, <1>4, <1>5, <1>7, <1>8, <1>9 DEF ProxyInv, CurrentExists, Current, Splitting, Others
<1>15. ChildrenKnown'
  BY <1>2, <1>3, <1>4, <1>5, <1>7, <1>8, <1>9, ThreadFacts DEF ProxyInv, ChildrenKnown, LocksHeld, Holding, Current, Others, OtherSessions
<1>16. TriedIsReplaced'
  BY <1>2, <1>3, <1>4, <1>5, <1>7, <1>8, <1>9 DEF ProxyInv, TriedIsReplaced, CallsFit, Current, Others, OtherSessions
<1>17. OneEnds'
  BY <1>2, <1>3, <1>4, <1>5, <1>7, <1>8, <1>9 DEF ProxyInv, OneEnds, CallsFit, Ending, Others, OtherSessions
<1>18. OpenActions'
  BY SMTT(60), <1>2, <1>3, <1>4, <1>5, <1>7, <1>8, <1>9 DEF ProxyInv, OpenActions, Ending, Others, OtherSessions
<1>19. EndsAll'
  BY <1>2, <1>3, <1>4, <1>5, <1>7, <1>8, <1>9 DEF ProxyInv, EndsAll, Others, OtherSessions
<1>20. SplitOffIsWatched'
  BY <1>2, <1>3, <1>4, <1>5, <1>7, <1>8, <1>9, ThreadFacts, LockType DEF ProxyInv, SplitOffIsWatched, Current, LocksHeld, Holding, Others, OtherSessions
<1>21. WatchdogForgetsClosed'
  BY <1>2, <1>3, <1>4, <1>5, <1>7, <1>8, <1>9 DEF ProxyInv, WatchdogForgetsClosed
<1>22. EndLeavesNothing'
  BY <1>2, <1>3, <1>4, <1>5, <1>7, <1>8, <1>9, CreatedSessions DEF ProxyInv, EndLeavesNothing, Current, OtherSessions
<1> QED BY <1>10, <1>11, <1>12, <1>13, <1>14, <1>15, <1>16, <1>17, <1>18, <1>19, <1>20, <1>21, <1>22 DEF ProxyInv

(* A child is closed by the end of its session, which goes on. *)
LEMMA DetachGoesOn ==
    ASSUME ProxyInv, NEW t \in Threads, Detach(t), ~LastLeaves(t), th[t].op # "leave"
    PROVE  ProxyInv'
<1>1. /\ act' = [act EXCEPT ![th[t].a].state = "closed"]
      /\ th[t].pc = "detach" /\ Free(th[t].s) /\ UNCHANGED <<lock, proxy, mSessionsToClose, toSplit, failure>>
  BY DEF Detach
<1>2. /\ th[t].pc = "detach" /\ ses[th[t].s].lock = NoThread
      /\ UNCHANGED <<lock, proxy, mSessionsToClose, toSplit, failure>>
  BY <1>1 DEF Free
<1>3. /\ act' \in [Actions -> [state : {"none", "open", "left", "closed"}, session : 0..MaxSessions]]
      /\ \A b \in Actions : /\ act'[b].session = act[b].session
                            /\ act'[b].state = "open" => act[b].state = "open" /\ b # th[t].a
  BY ZenonT(60), <1>1 DEF ProxyInv, ProxyTypeOK
<1>4. th[t].s \in Sessions
  BY <1>1 DEF ProxyInv, CallsFit
<1>5. ~(ses[th[t].s].tried /\ ses[th[t].s].mChildren \ {th[t].a} = {} /\ ses[th[t].s].life = "open")
  BY DEF LastLeaves
<1>6. ses' = [ses EXCEPT ![th[t].s].mChildren = ses[th[t].s].mChildren \ {th[t].a}]
  BY DEF Detach, LastLeaves
<1>7. /\ ses' \in [Sessions -> SessionRecord] /\ OtherSessions(th[t].s)
      /\ ses'[th[t].s].life = ses[th[t].s].life /\ ses'[th[t].s].tried = ses[th[t].s].tried
      /\ ses'[th[t].s].lock = ses[th[t].s].lock
      /\ ses'[th[t].s].mChildren = ses[th[t].s].mChildren \ {th[t].a}
  BY <1>4, <1>6 DEF ProxyInv, ProxyTypeOK, SessionRecord, OtherSessions
<1>8. /\ th' \in [Threads -> ThreadRecord] /\ Others(t) /\ th'[t].pc = "close" /\ th'[t].op = th[t].op
      /\ th'[t].s = th[t].s /\ th'[t].acts = th[t].acts /\ th'[t].todo = th[t].todo
  <2>1. th' = [th EXCEPT ![t].pc = "close", ![t].a = NoAction]
    BY DEF Detach, LastLeaves
  <2> DEFINE r == [th[t] EXCEPT !.pc = "close", !.a = NoAction]
  <2>2. th \in [Threads -> ThreadRecord] /\ th[t] \in ThreadRecord
    BY DEF ProxyInv, ProxyTypeOK
  <2>3. /\ r \in ThreadRecord /\ r.pc = "close" /\ r.op = th[t].op /\ r.s = th[t].s
        /\ r.acts = th[t].acts /\ r.todo = th[t].todo
    BY <2>2 DEF ThreadRecord, Pcs
  <2>4. th' = [th EXCEPT ![t] = r]
    BY <2>1, <2>2
  <2> HIDE DEF r
  <2> QED BY <2>2, <2>3, <2>4 DEF Others
<1>9. Created' = Created
  BY <1>4, <1>7, SameCreated DEF OtherSessions
<1>10. ProxyTypeOK'
  BY <1>2, <1>3, <1>4, <1>5, <1>7, <1>8, <1>9 DEF ProxyInv, ProxyTypeOK
<1>11. LocksHeld'
  BY <1>2, <1>3, <1>4, <1>5, <1>7, <1>8, <1>9, ThreadFacts DEF ProxyInv, LocksHeld, Holding, Others, OtherSessions
<1>12. CallsFit'
  BY <1>2, <1>3, <1>4, <1>5, <1>7, <1>8, <1>9 DEF ProxyInv, CallsFit, Splitting, Others
<1>13. RoomLeft'
  BY <1>2, <1>3, <1>4, <1>5, <1>7, <1>8, <1>9 DEF ProxyInv, RoomLeft, Pending, Splitting, Others
<1>14. CurrentExists'
  BY <1>2, <1>3, <1>4, <1>5, <1>7, <1>8, <1>9 DEF ProxyInv, CurrentExists, Current, Splitting, Others
<1>15. ChildrenKnown'
  <2>1. ChildrenKnown /\ LocksHeld
    BY DEF ProxyInv
  <2> QED BY SMTT(60), <1>2, <1>4, <1>7, <1>8, <1>9, <2>1, ThreadFacts DEF ChildrenKnown, LocksHeld, Holding, Current, Others, OtherSessions
<1>16. TriedIsReplaced'
  <2>1. TriedIsReplaced /\ CallsFit
    BY DEF ProxyInv
  <2> QED BY SMTT(60), <1>2, <1>4, <1>5, <1>7, <1>8, <1>9, <2>1 DEF TriedIsReplaced, CallsFit, Current, Others, OtherSessions
<1>17. OneEnds'
  <2>1. OneEnds /\ CallsFit
    BY DEF ProxyInv
  <2> QED BY SMTT(60), <1>2, <1>4, <1>7, <1>8, <2>1 DEF OneEnds, CallsFit, Ending, Others, OtherSessions
<1>18. OpenActions'
  <2>1. OpenActions
    BY DEF ProxyInv
  <2> QED BY SMTT(60), <1>2, <1>3, <1>4, <1>7, <1>8, <2>1 DEF OpenActions, Ending, Others, OtherSessions
<1>19. EndsAll'
  BY <1>2, <1>3, <1>4, <1>5, <1>7, <1>8, <1>9 DEF ProxyInv, EndsAll, Others, OtherSessions
<1>20. SplitOffIsWatched'
  BY <1>2, <1>3, <1>4, <1>5, <1>7, <1>8, <1>9, ThreadFacts, LockType DEF ProxyInv, SplitOffIsWatched, Current, LocksHeld, Holding, Others, OtherSessions
<1>21. WatchdogForgetsClosed'
  BY <1>2, <1>3, <1>4, <1>5, <1>7, <1>8, <1>9 DEF ProxyInv, WatchdogForgetsClosed
<1>22. EndLeavesNothing'
  BY <1>2, <1>3, <1>4, <1>5, <1>7, <1>8, <1>9, CreatedSessions DEF ProxyInv, EndLeavesNothing, Current, OtherSessions
<1> QED BY <1>10, <1>11, <1>12, <1>13, <1>14, <1>15, <1>16, <1>17, <1>18, <1>19, <1>20, <1>21, <1>22 DEF ProxyInv

(* Session::onChildClosed. *)
LEMMA DetachKeeps ==
    ASSUME ProxyInv, NEW t \in Threads, Detach(t)
    PROVE  ProxyInv'
BY DetachEnds, DetachReturns, DetachGoesOn

(* The proxy is told, and the session's lock released. *)
LEMMA TellHeldKeeps ==
    ASSUME ProxyInv, NEW t \in Threads, TellHeld(t)
    PROVE  ProxyInv'
<1>1. /\ onChildClosed(th[t].s) /\ ses' = [ses EXCEPT ![th[t].s].lock = NoThread] /\ th' = [th EXCEPT ![t] = Idle]
  BY DEF TellHeld
<1>2. th[t].pc = "tellHeld" /\ lock = NoThread /\ UNCHANGED <<lock, act, toSplit, failure>>
  BY DEF TellHeld
<1>3. th[t].s \in Sessions /\ ses[th[t].s].life = "finished"
  BY <1>2 DEF ProxyInv, CallsFit, TriedIsReplaced
<1>4. /\ proxy' \in [mCurrentSession : 0..MaxSessions, configured : BOOLEAN, mIsFinished : BOOLEAN,
                   mTopLevelActionCount : Nat, mLastUserTag : Tags \cup {NoTag}, mChildren : SUBSET Sessions]
      /\ proxy'.mCurrentSession = proxy.mCurrentSession /\ proxy'.mIsFinished = proxy.mIsFinished
      /\ proxy'.mChildren = proxy.mChildren \ {th[t].s} /\ mSessionsToClose' = mSessionsToClose \ {th[t].s}
      /\ mSessionsToClose' \in SUBSET Sessions
  BY <1>1, ClosedFacts DEF ProxyInv
<1>5. th' \in [Threads -> ThreadRecord] /\ Others(t) /\ th'[t].pc = "idle" /\ th'[t].op = "none"
  BY <1>1, IdleFacts DEF ProxyInv
<1>6. /\ ses' \in [Sessions -> SessionRecord] /\ OtherSessions(th[t].s)
      /\ ses'[th[t].s].life = ses[th[t].s].life /\ ses'[th[t].s].tried = ses[th[t].s].tried
      /\ ses'[th[t].s].lock = NoThread /\ ses'[th[t].s].mChildren = ses[th[t].s].mChildren
  <2> DEFINE r == [ses[th[t].s] EXCEPT !.lock = NoThread]
  <2>1. ses \in [Sessions -> SessionRecord] /\ ses[th[t].s] \in SessionRecord
    BY <1>3 DEF ProxyInv, ProxyTypeOK
  <2>2. /\ r \in SessionRecord /\ r.life = ses[th[t].s].life /\ r.tried = ses[th[t].s].tried
        /\ r.lock = NoThread /\ r.mChildren = ses[th[t].s].mChildren
    BY <2>1 DEF SessionRecord
  <2>3. ses' = [ses EXCEPT ![th[t].s] = r]
    BY <1>1, <1>3, <2>1
  <2> HIDE DEF r
  <2> QED BY <1>3, <2>1, <2>2, <2>3 DEF OtherSessions
<1>7. Created' = Created
  BY <1>3, <1>6, SameCreated DEF OtherSessions
<1>8. ProxyTypeOK'
  BY <1>2, <1>3, <1>4, <1>5, <1>6, <1>7 DEF ProxyInv, ProxyTypeOK
<1>9. LocksHeld'
  BY <1>2, <1>3, <1>4, <1>5, <1>6, <1>7, ThreadFacts DEF ProxyInv, LocksHeld, Holding, Others, OtherSessions
<1>10. CallsFit'
  BY <1>2, <1>3, <1>4, <1>5, <1>6, <1>7 DEF ProxyInv, CallsFit, Splitting, Others
<1>11. RoomLeft'
  BY <1>2, <1>3, <1>4, <1>5, <1>6, <1>7 DEF ProxyInv, RoomLeft, Pending, Splitting, Others
<1>12. CurrentExists'
  BY <1>2, <1>3, <1>4, <1>5, <1>6, <1>7 DEF ProxyInv, CurrentExists, Current, Splitting, Others
<1>13. ChildrenKnown'
  BY <1>2, <1>3, <1>4, <1>5, <1>6, <1>7, ThreadFacts DEF ProxyInv, ChildrenKnown, LocksHeld, Holding, Current, Others, OtherSessions
<1>14. TriedIsReplaced'
  BY <1>2, <1>3, <1>4, <1>5, <1>6, <1>7 DEF ProxyInv, TriedIsReplaced, CallsFit, Current, Others, OtherSessions
<1>15. OneEnds'
  BY <1>2, <1>3, <1>4, <1>5, <1>6, <1>7 DEF ProxyInv, OneEnds, CallsFit, Ending, Others, OtherSessions
<1>16. OpenActions'
  BY <1>2, <1>3, <1>4, <1>5, <1>6, <1>7 DEF ProxyInv, OpenActions, Ending, Others, OtherSessions
<1>17. EndsAll'
  BY <1>2, <1>3, <1>4, <1>5, <1>6, <1>7 DEF ProxyInv, EndsAll, Others, OtherSessions
<1>18. SplitOffIsWatched'
  BY <1>2, <1>3, <1>4, <1>5, <1>6, <1>7, ThreadFacts, LockType DEF ProxyInv, SplitOffIsWatched, Current, LocksHeld, Holding, Others, OtherSessions
<1>19. WatchdogForgetsClosed'
  BY <1>2, <1>3, <1>4, <1>5, <1>6, <1>7 DEF ProxyInv, WatchdogForgetsClosed
<1>20. EndLeavesNothing'
  BY <1>2, <1>3, <1>4, <1>5, <1>6, <1>7, CreatedSessions DEF ProxyInv, EndLeavesNothing, Current, OtherSessions
<1> QED BY <1>8, <1>9, <1>10, <1>11, <1>12, <1>13, <1>14, <1>15, <1>16, <1>17, <1>18, <1>19, <1>20 DEF ProxyInv

(* end() of a session that is open begins. *)
LEMMA EndMarkBegins ==
    ASSUME ProxyInv, NEW t \in Threads, EndMark(t), ses[th[t].s].life = "open"
    PROVE  ProxyInv'
<1>1. ses' = [ses EXCEPT ![th[t].s].life = "finishing"] /\ Goto(t, "copy")
  BY DEF EndMark
<1>2. th[t].pc = "end" /\ UNCHANGED <<lock, proxy, act, mSessionsToClose, toSplit, failure>>
  BY DEF EndMark
<1>3. th[t].s \in Sessions /\ th[t].op \in {"end", "close"}
  BY <1>2 DEF ProxyInv, CallsFit
<1>4. /\ th' \in [Threads -> ThreadRecord] /\ Others(t) /\ th'[t].pc = "copy" /\ th'[t].op = th[t].op
      /\ th'[t].s = th[t].s /\ th'[t].acts = th[t].acts /\ th'[t].todo = th[t].todo
  BY <1>1, GotoFacts DEF ProxyInv, Pcs, Holding
<1>5. /\ ses' \in [Sessions -> SessionRecord] /\ OtherSessions(th[t].s) /\ ses'[th[t].s].life = "finishing"
      /\ ses'[th[t].s].tried = ses[th[t].s].tried /\ ses'[th[t].s].mChildren = ses[th[t].s].mChildren
      /\ ses'[th[t].s].lock = ses[th[t].s].lock
  BY <1>1, <1>3, LifeFacts DEF ProxyInv, Lives
<1>6. Created' = Created
  BY <1>3, <1>5, SameCreated DEF OtherSessions
<1>7. ProxyTypeOK'
  BY <1>2, <1>3, <1>4, <1>5, <1>6 DEF ProxyInv, ProxyTypeOK
<1>8. LocksHeld'
  BY <1>2, <1>3, <1>4, <1>5, <1>6, ThreadFacts DEF ProxyInv, LocksHeld, Holding, Others, OtherSessions
<1>9. CallsFit'
  BY <1>2, <1>3, <1>4, <1>5, <1>6 DEF ProxyInv, CallsFit, Splitting, Others
<1>10. RoomLeft'
  BY <1>2, <1>3, <1>4, <1>5, <1>6 DEF ProxyInv, RoomLeft, Pending, Splitting, Others
<1>11. CurrentExists'
  BY <1>2, <1>3, <1>4, <1>5, <1>6 DEF ProxyInv, CurrentExists, Current, Splitting, Others
<1>12. ChildrenKnown'
  BY <1>2, <1>3, <1>4, <1>5, <1>6, ThreadFacts DEF ProxyInv, ChildrenKnown, LocksHeld, Holding, Current, Others, OtherSessions
<1>13. TriedIsReplaced'
  BY <1>2, <1>3, <1>4, <1>5, <1>6 DEF ProxyInv, TriedIsReplaced, CallsFit, Current, Others, OtherSessions
<1>14. OneEnds'
  BY <1>2, <1>3, <1>4, <1>5, <1>6 DEF ProxyInv, OneEnds, CallsFit, Ending, Others, OtherSessions
<1>15. OpenActions'
  BY <1>2, <1>3, <1>4, <1>5, <1>6 DEF ProxyInv, OpenActions, Ending, Others, OtherSessions
<1>16. EndsAll'
  BY <1>2, <1>3, <1>4, <1>5, <1>6 DEF ProxyInv, EndsAll, Others, OtherSessions
<1>17. SplitOffIsWatched'
  BY <1>2, <1>3, <1>4, <1>5, <1>6, ThreadFacts, LockType DEF ProxyInv, SplitOffIsWatched, Current, LocksHeld, Holding, Others, OtherSessions
<1>18. WatchdogForgetsClosed'
  BY <1>2, <1>3, <1>4, <1>5, <1>6 DEF ProxyInv, WatchdogForgetsClosed
<1>19. EndLeavesNothing'
  BY <1>2, <1>3, <1>4, <1>5, <1>6, CreatedSessions DEF ProxyInv, EndLeavesNothing, Current, OtherSessions
<1> QED BY <1>7, <1>8, <1>9, <1>10, <1>11, <1>12, <1>13, <1>14, <1>15, <1>16, <1>17, <1>18, <1>19 DEF ProxyInv

(* end() of a session that another thread ends, or has ended. *)
LEMMA EndMarkSkips ==
    ASSUME ProxyInv, NEW t \in Threads, EndMark(t), ses[th[t].s].life # "open"
    PROVE  ProxyInv'
<1>1. /\ th[t].pc = "end" /\ Goto(t, "next")
      /\ UNCHANGED <<lock, proxy, ses, act, mSessionsToClose, toSplit, failure>>
  BY DEF EndMark
<1>2. th[t].s \in Sessions /\ th[t].op \in {"end", "close"}
  BY <1>1 DEF ProxyInv, CallsFit
<1>3. /\ th' \in [Threads -> ThreadRecord] /\ Others(t) /\ th'[t].pc = "next" /\ th'[t].op = th[t].op
      /\ th'[t].s = th[t].s /\ th'[t].acts = th[t].acts /\ th'[t].todo = th[t].todo
  BY <1>1, GotoFacts DEF ProxyInv, Pcs, Holding
<1>4. Created' = Created
  BY <1>1, SameCreated
<1>5. ProxyTypeOK'
  BY <1>1, <1>2, <1>3, <1>4 DEF ProxyInv, ProxyTypeOK
<1>6. LocksHeld'
  BY <1>1, <1>2, <1>3, <1>4, ThreadFacts DEF ProxyInv, LocksHeld, Holding, Others, OtherSessions
<1>7. CallsFit'
  BY <1>1, <1>2, <1>3, <1>4 DEF ProxyInv, CallsFit, Splitting, Others
<1>8. RoomLeft'
  BY <1>1, <1>2, <1>3, <1>4 DEF ProxyInv, RoomLeft, Pending, Splitting, Others
<1>9. CurrentExists'
  BY <1>1, <1>2, <1>3, <1>4 DEF ProxyInv, CurrentExists, Current, Splitting, Others
<1>10. ChildrenKnown'
  BY <1>1, <1>2, <1>3, <1>4, ThreadFacts DEF ProxyInv, ChildrenKnown, LocksHeld, Holding, Current, Others, OtherSessions
<1>11. TriedIsReplaced'
  BY <1>1, <1>2, <1>3, <1>4 DEF ProxyInv, TriedIsReplaced, CallsFit, Current, Others, OtherSessions
<1>12. OneEnds'
  BY <1>1, <1>2, <1>3, <1>4 DEF ProxyInv, OneEnds, CallsFit, Ending, Others, OtherSessions
<1>13. OpenActions'
  BY <1>1, <1>2, <1>3, <1>4 DEF ProxyInv, OpenActions, Ending, Others, OtherSessions
<1>14. EndsAll'
  BY <1>1, <1>2, <1>3, <1>4 DEF ProxyInv, EndsAll, Others, OtherSessions
<1>15. SplitOffIsWatched'
  BY <1>1, <1>2, <1>3, <1>4, ThreadFacts, LockType DEF ProxyInv, SplitOffIsWatched, Current, LocksHeld, Holding, Others, OtherSessions
<1>16. WatchdogForgetsClosed'
  BY <1>1, <1>2, <1>3, <1>4 DEF ProxyInv, WatchdogForgetsClosed
<1>17. EndLeavesNothing'
  BY <1>1, <1>2, <1>3, <1>4, CreatedSessions DEF ProxyInv, EndLeavesNothing, Current, OtherSessions
<1> QED BY <1>5, <1>6, <1>7, <1>8, <1>9, <1>10, <1>11, <1>12, <1>13, <1>14, <1>15, <1>16, <1>17 DEF ProxyInv

(* The children of the session are copied. *)
LEMMA EndCopyKeeps ==
    ASSUME ProxyInv, NEW t \in Threads, EndCopy(t)
    PROVE  ProxyInv'
<1>1. th' = [th EXCEPT ![t].pc = "close", ![t].acts = ses[th[t].s].mChildren]
  BY DEF EndCopy
<1>2. th[t].pc = "copy" /\ UNCHANGED <<lock, proxy, ses, act, mSessionsToClose, toSplit, failure>>
  BY DEF EndCopy
<1>3. th[t].s \in Sessions /\ th[t].op \in {"end", "close"} /\ ses[th[t].s].mChildren \in SUBSET Actions
  BY <1>2 DEF ProxyInv, ProxyTypeOK, SessionRecord, CallsFit
<1>4. /\ th' \in [Threads -> ThreadRecord] /\ Others(t) /\ th'[t].pc = "close" /\ th'[t].op = th[t].op
      /\ th'[t].s = th[t].s /\ th'[t].acts = ses[th[t].s].mChildren /\ th'[t].todo = th[t].todo
  <2> DEFINE r == [th[t] EXCEPT !.pc = "close", !.acts = ses[th[t].s].mChildren]
  <2>1. th \in [Threads -> ThreadRecord] /\ th[t] \in ThreadRecord
    BY DEF ProxyInv, ProxyTypeOK
  <2>2. /\ r \in ThreadRecord /\ r.pc = "close" /\ r.op = th[t].op /\ r.s = th[t].s
        /\ r.acts = ses[th[t].s].mChildren /\ r.todo = th[t].todo
    BY <1>3, <2>1 DEF ThreadRecord, Pcs
  <2>3. th' = [th EXCEPT ![t] = r]
    BY <1>1, <2>1
  <2> HIDE DEF r
  <2> QED BY <2>1, <2>2, <2>3 DEF Others
<1>5. Created' = Created
  BY <1>2, SameCreated
<1>6. ProxyTypeOK'
  BY <1>2, <1>3, <1>4, <1>5 DEF ProxyInv, ProxyTypeOK
<1>7. LocksHeld'
  BY <1>2, <1>3, <1>4, <1>5, ThreadFacts DEF ProxyInv, LocksHeld, Holding, Others, OtherSessions
<1>8. CallsFit'
  BY <1>2, <1>3, <1>4, <1>5 DEF ProxyInv, CallsFit, Splitting, Others
<1>9. RoomLeft'
  BY <1>2, <1>3, <1>4, <1>5 DEF ProxyInv, RoomLeft, Pending, Splitting, Others
<1>10. CurrentExists'
  BY <1>2, <1>3, <1>4, <1>5 DEF ProxyInv, CurrentExists, Current, Splitting, Others
<1>11. ChildrenKnown'
  BY <1>2, <1>3, <1>4, <1>5, ThreadFacts DEF ProxyInv, ChildrenKnown, LocksHeld, Holding, Current, Others, OtherSessions
<1>12. TriedIsReplaced'
  BY <1>2, <1>3, <1>4, <1>5 DEF ProxyInv, TriedIsReplaced, CallsFit, Current, Others, OtherSessions
<1>13. OneEnds'
  BY <1>2, <1>3, <1>4, <1>5 DEF ProxyInv, OneEnds, CallsFit, Ending, Others, OtherSessions
<1>14. OpenActions'
  BY <1>2, <1>3, <1>4, <1>5 DEF ProxyInv, OpenActions, Ending, Others, OtherSessions
<1>15. EndsAll'
  BY <1>2, <1>3, <1>4, <1>5 DEF ProxyInv, EndsAll, Others, OtherSessions
<1>16. SplitOffIsWatched'
  BY <1>2, <1>3, <1>4, <1>5, ThreadFacts, LockType DEF ProxyInv, SplitOffIsWatched, Current, LocksHeld, Holding, Others, OtherSessions
<1>17. WatchdogForgetsClosed'
  BY <1>2, <1>3, <1>4, <1>5 DEF ProxyInv, WatchdogForgetsClosed
<1>18. EndLeavesNothing'
  BY <1>2, <1>3, <1>4, <1>5, CreatedSessions DEF ProxyInv, EndLeavesNothing, Current, OtherSessions
<1> QED BY <1>6, <1>7, <1>8, <1>9, <1>10, <1>11, <1>12, <1>13, <1>14, <1>15, <1>16, <1>17, <1>18 DEF ProxyInv

(* A child that is open is closed. *)
LEMMA CloseOpenChild ==
    ASSUME ProxyInv, NEW t \in Threads, NEW a \in Actions, CloseChild(t, a), act[a].state = "open"
    PROVE  ProxyInv'
<1>1. /\ th' = [th EXCEPT ![t].pc = "detach", ![t].a = a, ![t].acts = @ \ {a}]
      /\ act' = [act EXCEPT ![a].state = "left"]
  BY DEF CloseChild
<1>2. th[t].pc = "close" /\ UNCHANGED <<lock, proxy, ses, mSessionsToClose, toSplit, failure>>
  BY DEF CloseChild
<1>3. th[t].s \in Sessions /\ th[t].op \in {"end", "close"}
  BY <1>2 DEF ProxyInv, CallsFit
<1>4. /\ th' \in [Threads -> ThreadRecord] /\ Others(t) /\ th'[t].pc = "detach" /\ th'[t].op = th[t].op
      /\ th'[t].s = th[t].s /\ th'[t].acts = th[t].acts \ {a} /\ th'[t].todo = th[t].todo
  <2> DEFINE r == [th[t] EXCEPT !.pc = "detach", !.a = a, !.acts = th[t].acts \ {a}]
  <2>1. th \in [Threads -> ThreadRecord] /\ th[t] \in ThreadRecord
    BY DEF ProxyInv, ProxyTypeOK
  <2>2. /\ r \in ThreadRecord /\ r.pc = "detach" /\ r.op = th[t].op /\ r.s = th[t].s
        /\ r.acts = th[t].acts \ {a} /\ r.todo = th[t].todo
    BY <2>1 DEF ThreadRecord, Pcs
  <2>3. th' = [th EXCEPT ![t] = r]
    BY <1>1, <2>1
  <2> HIDE DEF r
  <2> QED BY <2>1, <2>2, <2>3 DEF Others
<1>5. /\ act' \in [Actions -> [state : {"none", "open", "left", "closed"}, session : 0..MaxSessions]]
      /\ \A b \in Actions : /\ act'[b].session = act[b].session
                            /\ act'[b].state = "open" => act[b].state = "open" /\ b # a
  BY <1>1 DEF ProxyInv, ProxyTypeOK
<1>6. Created' = Created
  BY <1>2, SameCreated
<1>7. ProxyTypeOK'
  BY <1>2, <1>3, <1>4, <1>5, <1>6 DEF ProxyInv, ProxyTypeOK
<1>8. LocksHeld'
  BY <1>2, <1>3, <1>4, <1>5, <1>6, ThreadFacts DEF ProxyInv, LocksHeld, Holding, Others, OtherSessions
<1>9. CallsFit'
  BY <1>2, <1>3, <1>4, <1>5, <1>6 DEF ProxyInv, CallsFit, Splitting, Others
<1>10. RoomLeft'
  BY <1>2, <1>3, <1>4, <1>5, <1>6 DEF ProxyInv, RoomLeft, Pending, Splitting, Others
<1>11. CurrentExists'
  BY <1>2, <1>3, <1>4, <1>5, <1>6 DEF ProxyInv, CurrentExists, Current, Splitting, Others
<1>12. ChildrenKnown'
  BY <1>2, <1>3, <1>4, <1>5, <1>6, ThreadFacts DEF ProxyInv, ChildrenKnown, LocksHeld, Holding, Current, Others, OtherSessions
<1>13. TriedIsReplaced'
  BY <1>2, <1>3, <1>4, <1>5, <1>6 DEF ProxyInv, TriedIsReplaced, CallsFit, Current, Others, OtherSessions
<1>14. OneEnds'
  BY <1>2, <1>3, <1>4, <1>5, <1>6 DEF ProxyInv, OneEnds, CallsFit, Ending, Others, OtherSessions
<1>15. OpenActions'
  BY <1>2, <1>3, <1>4, <1>5, <1>6 DEF ProxyInv, OpenActions, Ending, Others, OtherSessions
<1>16. EndsAll'
  BY <1>2, <1>3, <1>4, <1>5, <1>6 DEF ProxyInv, EndsAll, Others, OtherSessions
<1>17. SplitOffIsWatched'
  BY <1>2, <1>3, <1>4, <1>5, <1>6, ThreadFacts, LockType DEF ProxyInv, SplitOffIsWatched, Current, LocksHeld, Holding, Others, OtherSessions
<1>18. WatchdogForgetsClosed'
  BY <1>2, <1>3, <1>4, <1>5, <1>6 DEF ProxyInv, WatchdogForgetsClosed
<1>19. EndLeavesNothing'
  BY <1>2, <1>3, <1>4, <1>5, <1>6, CreatedSessions DEF ProxyInv, EndLeavesNothing, Current, OtherSessions
<1> QED BY <1>7, <1>8, <1>9, <1>10, <1>11, <1>12, <1>13, <1>14, <1>15, <1>16, <1>17, <1>18, <1>19 DEF ProxyInv

(* A child that another thread has left needs no closing. *)
LEMMA CloseLeftChild ==
    ASSUME ProxyInv, NEW t \in Threads, NEW a \in Actions, CloseChild(t, a), act[a].state # "open"
    PROVE  ProxyInv'
<1>1. th' = [th EXCEPT ![t].acts = @ \ {a}]
  BY DEF CloseChild
<1>2. th[t].pc = "close" /\ UNCHANGED <<lock, proxy, ses, act, mSessionsToClose, toSplit, failure>>
  BY DEF CloseChild
<1>3. th[t].s \in Sessions /\ th[t].op \in {"end", "close"}
  BY <1>2 DEF ProxyInv, CallsFit
<1>4. /\ th' \in [Threads -> ThreadRecord] /\ Others(t) /\ th'[t].pc = th[t].pc /\ th'[t].op = th[t].op
      /\ th'[t].s = th[t].s /\ th'[t].acts = th[t].acts \ {a} /\ th'[t].todo = th[t].todo
  BY SMTT(60), <1>1 DEF ProxyInv, ProxyTypeOK, ThreadRecord, Others
<1>5. Created' = Created
  BY <1>2, SameCreated
<1>6. ProxyTypeOK'
  BY <1>2, <1>3, <1>4, <1>5 DEF ProxyInv, ProxyTypeOK
<1>7. LocksHeld'
  BY <1>2, <1>3, <1>4, <1>5, ThreadFacts DEF ProxyInv, LocksHeld, Holding, Others, OtherSessions
<1>8. CallsFit'
  BY <1>2, <1>3, <1>4, <1>5 DEF ProxyInv, CallsFit, Splitting, Others
<1>9. RoomLeft'
  BY <1>2, <1>3, <1>4, <1>5 DEF ProxyInv, RoomLeft, Pending, Splitting, Others
<1>10. CurrentExists'
  BY <1>2, <1>3, <1>4, <1>5 DEF ProxyInv, CurrentExists, Current, Splitting, Others
<1>11. ChildrenKnown'
  BY <1>2, <1>3, <1>4, <1>5, ThreadFacts DEF ProxyInv, ChildrenKnown, LocksHeld, Holding, Current, Others, OtherSessions
<1>12. TriedIsReplaced'
  BY <1>2, <1>3, <1>4, <1>5 DEF ProxyInv, TriedIsReplaced, CallsFit, Current, Others, OtherSessions
<1>13. OneEnds'
  BY <1>2, <1>3, <1>4, <1>5 DEF ProxyInv, OneEnds, CallsFit, Ending, Others, OtherSessions
<1>14. OpenActions'
  BY <1>2, <1>3, <1>4, <1>5 DEF ProxyInv, OpenActions, Ending, Others, OtherSessions
<1>15. EndsAll'
  BY <1>2, <1>3, <1>4, <1>5 DEF ProxyInv, EndsAll, Others, OtherSessions
<1>16. SplitOffIsWatched'
  BY <1>2, <1>3, <1>4, <1>5, ThreadFacts, LockType DEF ProxyInv, SplitOffIsWatched, Current, LocksHeld, Holding, Others, OtherSessions
<1>17. WatchdogForgetsClosed'
  BY <1>2, <1>3, <1>4, <1>5 DEF ProxyInv, WatchdogForgetsClosed
<1>18. EndLeavesNothing'
  BY <1>2, <1>3, <1>4, <1>5, CreatedSessions DEF ProxyInv, EndLeavesNothing, Current, OtherSessions
<1> QED BY <1>6, <1>7, <1>8, <1>9, <1>10, <1>11, <1>12, <1>13, <1>14, <1>15, <1>16, <1>17, <1>18 DEF ProxyInv

(* All children are closed: the session is finished. *)
LEMMA EndFinishKeeps ==
    ASSUME ProxyInv, NEW t \in Threads, EndFinish(t)
    PROVE  ProxyInv'
<1>1. ses' = [ses EXCEPT ![th[t].s].life = "finished", ![th[t].s].endEvent = th[t].event] /\ Goto(t, "tell")
  BY DEF EndFinish
<1>2. /\ th[t].pc = "close" /\ th[t].acts = {}
      /\ UNCHANGED <<lock, proxy, act, mSessionsToClose, toSplit, failure>>
  BY DEF EndFinish
<1>3. th[t].s \in Sessions /\ th[t].op \in {"end", "close"} /\ ses[th[t].s].life = "finishing"
  BY <1>2 DEF ProxyInv, CallsFit, OneEnds, Ending
<1>4. /\ th' \in [Threads -> ThreadRecord] /\ Others(t) /\ th'[t].pc = "tell" /\ th'[t].op = th[t].op
      /\ th'[t].s = th[t].s /\ th'[t].acts = th[t].acts /\ th'[t].todo = th[t].todo
  BY <1>1, GotoFacts DEF ProxyInv, Pcs, Holding
<1>5. /\ ses' \in [Sessions -> SessionRecord] /\ OtherSessions(th[t].s) /\ ses'[th[t].s].life = "finished"
      /\ ses'[th[t].s].tried = ses[th[t].s].tried /\ ses'[th[t].s].mChildren = ses[th[t].s].mChildren
      /\ ses'[th[t].s].lock = ses[th[t].s].lock
  <2> DEFINE r == [ses[th[t].s] EXCEPT !.life = "finished", !.endEvent = th[t].event]
  <2>1. /\ ses \in [Sessions -> SessionRecord] /\ ses[th[t].s] \in SessionRecord
        /\ th[t].event \in BOOLEAN
    BY <1>3 DEF ProxyInv, ProxyTypeOK, ThreadRecord
  <2>2. /\ r \in SessionRecord /\ r.life = "finished" /\ r.tried = ses[th[t].s].tried
        /\ r.lock = ses[th[t].s].lock /\ r.mChildren = ses[th[t].s].mChildren
    BY <2>1 DEF SessionRecord, Lives
  <2>3. ses' = [ses EXCEPT ![th[t].s] = r]
    BY <1>1, <1>3, <2>1
  <2> HIDE DEF r
  <2> QED BY <1>3, <2>1, <2>2, <2>3 DEF OtherSessions
<1>6. Created' = Created
  BY <1>3, <1>5, SameCreated DEF OtherSessions
<1>7. ProxyTypeOK'
  BY <1>2, <1>3, <1>4, <1>5, <1>6 DEF ProxyInv, ProxyTypeOK
<1>8. LocksHeld'
  BY <1>2, <1>3, <1>4, <1>5, <1>6, ThreadFacts DEF ProxyInv, LocksHeld, Holding, Others, OtherSessions
<1>9. CallsFit'
  BY <1>2, <1>3, <1>4, <1>5, <1>6 DEF ProxyInv, CallsFit, Splitting, Others
<1>10. RoomLeft'
  BY <1>2, <1>3, <1>4, <1>5, <1>6 DEF ProxyInv, RoomLeft, Pending, Splitting, Others
<1>11. CurrentExists'
  BY <1>2, <1>3, <1>4, <1>5, <1>6 DEF ProxyInv, CurrentExists, Current, Splitting, Others
<1>12. ChildrenKnown'
  BY <1>2, <1>3, <1>4, <1>5, <1>6, ThreadFacts DEF ProxyInv, ChildrenKnown, LocksHeld, Holding, Current, Others, OtherSessions
<1>13. TriedIsReplaced'
  BY <1>2, <1>3, <1>4, <1>5, <1>6 DEF ProxyInv, TriedIsReplaced, CallsFit, Current, Others, OtherSessions
<1>14. OneEnds'
  BY <1>2, <1>3, <1>4, <1>5, <1>6 DEF ProxyInv, OneEnds, CallsFit, Ending, Others, OtherSessions
<1>15. OpenActions'
  BY <1>2, <1>3, <1>4, <1>5, <1>6 DEF ProxyInv, OpenActions, Ending, Others, OtherSessions
<1>16. EndsAll'
  BY <1>2, <1>3, <1>4, <1>5, <1>6 DEF ProxyInv, EndsAll, Others, OtherSessions
<1>17. SplitOffIsWatched'
  BY <1>2, <1>3, <1>4, <1>5, <1>6, ThreadFacts, LockType DEF ProxyInv, SplitOffIsWatched, Current, LocksHeld, Holding, Others, OtherSessions
<1>18. WatchdogForgetsClosed'
  BY <1>2, <1>3, <1>4, <1>5, <1>6 DEF ProxyInv, WatchdogForgetsClosed
<1>19. EndLeavesNothing'
  BY <1>2, <1>3, <1>4, <1>5, <1>6, CreatedSessions DEF ProxyInv, EndLeavesNothing, Current, OtherSessions
<1> QED BY <1>7, <1>8, <1>9, <1>10, <1>11, <1>12, <1>13, <1>14, <1>15, <1>16, <1>17, <1>18, <1>19 DEF ProxyInv

(* The proxy is told of the end of the session. *)
LEMMA TellKeeps ==
    ASSUME ProxyInv, NEW t \in Threads, Tell(t)
    PROVE  ProxyInv'
<1>1. onChildClosed(th[t].s) /\ Goto(t, "next")
  BY DEF Tell
<1>2. th[t].pc = "tell" /\ lock = NoThread /\ UNCHANGED <<lock, ses, act, toSplit, failure>>
  BY DEF Tell
<1>3. th[t].s \in Sessions /\ th[t].op \in {"end", "close"} /\ ses[th[t].s].life = "finished"
  BY <1>2 DEF ProxyInv, CallsFit, TriedIsReplaced
<1>4. /\ proxy' \in [mCurrentSession : 0..MaxSessions, configured : BOOLEAN, mIsFinished : BOOLEAN,
                   mTopLevelActionCount : Nat, mLastUserTag : Tags \cup {NoTag}, mChildren : SUBSET Sessions]
      /\ proxy'.mCurrentSession = proxy.mCurrentSession /\ proxy'.mIsFinished = proxy.mIsFinished
      /\ proxy'.mChildren = proxy.mChildren \ {th[t].s} /\ mSessionsToClose' = mSessionsToClose \ {th[t].s}
      /\ mSessionsToClose' \in SUBSET Sessions
  BY <1>1, ClosedFacts DEF ProxyInv
<1>5. /\ th' \in [Threads -> ThreadRecord] /\ Others(t) /\ th'[t].pc = "next" /\ th'[t].op = th[t].op
      /\ th'[t].s = th[t].s /\ th'[t].acts = th[t].acts /\ th'[t].todo = th[t].todo
  BY <1>1, GotoFacts DEF ProxyInv, Pcs, Holding
<1>6. Created' = Created
  BY <1>2, SameCreated
<1>7. ProxyTypeOK'
  BY <1>2, <1>3, <1>4, <1>5, <1>6 DEF ProxyInv, ProxyTypeOK
<1>8. LocksHeld'
  BY <1>2, <1>3, <1>4, <1>5, <1>6, ThreadFacts DEF ProxyInv, LocksHeld, Holding, Others, OtherSessions
<1>9. CallsFit'
  BY <1>2, <1>3, <1>4, <1>5, <1>6 DEF ProxyInv, CallsFit, Splitting, Others
<1>10. RoomLeft'
  BY <1>2, <1>3, <1>4, <1>5, <1>6 DEF ProxyInv, RoomLeft, Pending, Splitting, Others
<1>11. CurrentExists'
  BY <1>2, <1>3, <1>4, <1>5, <1>6 DEF ProxyInv, CurrentExists, Current, Splitting, Others
<1>12. ChildrenKnown'
  BY <1>2, <1>3, <1>4, <1>5, <1>6, ThreadFacts DEF ProxyInv, ChildrenKnown, LocksHeld, Holding, Current, Others, OtherSessions
<1>13. TriedIsReplaced'
  BY <1>2, <1>3, <1>4, <1>5, <1>6 DEF ProxyInv, TriedIsReplaced, CallsFit, Current, Others, OtherSessions
<1>14. OneEnds'
  BY <1>2, <1>3, <1>4, <1>5, <1>6 DEF ProxyInv, OneEnds, CallsFit, Ending, Others, OtherSessions
<1>15. OpenActions'
  BY <1>2, <1>3, <1>4, <1>5, <1>6 DEF ProxyInv, OpenActions, Ending, Others, OtherSessions
<1>16. EndsAll'
  BY <1>2, <1>3, <1>4, <1>5, <1>6 DEF ProxyInv, EndsAll, Others, OtherSessions
<1>17. SplitOffIsWatched'
  BY <1>2, <1>3, <1>4, <1>5, <1>6, ThreadFacts, LockType DEF ProxyInv, SplitOffIsWatched, Current, LocksHeld, Holding, Others, OtherSessions
<1>18. WatchdogForgetsClosed'
  BY <1>2, <1>3, <1>4, <1>5, <1>6 DEF ProxyInv, WatchdogForgetsClosed
<1>19. EndLeavesNothing'
  BY <1>2, <1>3, <1>4, <1>5, <1>6, CreatedSessions DEF ProxyInv, EndLeavesNothing, Current, OtherSessions
<1> QED BY <1>7, <1>8, <1>9, <1>10, <1>11, <1>12, <1>13, <1>14, <1>15, <1>16, <1>17, <1>18, <1>19 DEF ProxyInv

(* end() of the proxy begins. *)
LEMMA ProxyEndKeeps ==
    ASSUME ProxyInv, NEW t \in Threads, ProxyEnd(t)
    PROVE  ProxyInv'
<1>1. proxy' = [proxy EXCEPT !.mIsFinished = TRUE] /\ Goto(t, "copySessions")
  BY DEF ProxyEnd
<1>2. /\ th[t].pc = "idle" /\ lock = NoThread /\ ~proxy.mIsFinished
      /\ UNCHANGED <<lock, ses, act, mSessionsToClose, toSplit, failure>>
  BY DEF ProxyEnd
<1>3. th[t].op = "none" /\ \A u \in Threads : th[u].pc \notin Holding
  BY <1>2, ThreadFacts DEF ProxyInv, LocksHeld, CallsFit
<1>4. /\ th' \in [Threads -> ThreadRecord] /\ Others(t) /\ th'[t].pc = "copySessions" /\ th'[t].op = th[t].op
      /\ th'[t].s = th[t].s /\ th'[t].acts = th[t].acts /\ th'[t].todo = th[t].todo
  BY <1>1, GotoFacts DEF ProxyInv, Pcs, Holding
<1>5. /\ proxy' \in [mCurrentSession : 0..MaxSessions, configured : BOOLEAN, mIsFinished : BOOLEAN,
                   mTopLevelActionCount : Nat, mLastUserTag : Tags \cup {NoTag}, mChildren : SUBSET Sessions]
      /\ proxy'.mCurrentSession = proxy.mCurrentSession /\ proxy'.mIsFinished = TRUE
      /\ proxy'.mChildren = proxy.mChildren
  BY <1>1 DEF ProxyInv, ProxyTypeOK
<1>6. Created' = Created
  BY <1>2, SameCreated
<1>7. ProxyTypeOK'
  BY <1>2, <1>3, <1>4, <1>5, <1>6 DEF ProxyInv, ProxyTypeOK
<1>8. LocksHeld'
  BY <1>2, <1>3, <1>4, <1>5, <1>6, ThreadFacts DEF ProxyInv, LocksHeld, Holding, Others, OtherSessions
<1>9. CallsFit'
  BY <1>2, <1>3, <1>4, <1>5, <1>6 DEF ProxyInv, CallsFit, Splitting, Others
<1>10. RoomLeft'
  BY <1>2, <1>3, <1>4, <1>5, <1>6 DEF ProxyInv, RoomLeft, Pending, Splitting, Others
<1>11. CurrentExists'
  BY <1>2, <1>3, <1>4, <1>5, <1>6 DEF ProxyInv, CurrentExists, Current, Splitting, Others, Holding
<1>12. ChildrenKnown'
  BY <1>2, <1>3, <1>4, <1>5, <1>6, ThreadFacts DEF ProxyInv, ChildrenKnown, LocksHeld, Holding, Current, Others, OtherSessions
<1>13. TriedIsReplaced'
  BY <1>2, <1>3, <1>4, <1>5, <1>6 DEF ProxyInv, TriedIsReplaced, CallsFit, Current, Others, OtherSessions
<1>14. OneEnds'
  BY <1>2, <1>3, <1>4, <1>5, <1>6 DEF ProxyInv, OneEnds, CallsFit, Ending, Others, OtherSessions
<1>15. OpenActions'
  BY <1>2, <1>3, <1>4, <1>5, <1>6 DEF ProxyInv, OpenActions, Ending, Others, OtherSessions
<1>16. EndsAll'
  BY <1>2, <1>3, <1>4, <1>5, <1>6 DEF ProxyInv, EndsAll, Others, OtherSessions
<1>17. SplitOffIsWatched'
  BY <1>2, <1>3, <1>4, <1>5, <1>6, ThreadFacts, LockType DEF ProxyInv, SplitOffIsWatched, Current, LocksHeld, Holding, Others, OtherSessions
<1>18. WatchdogForgetsClosed'
  BY <1>2, <1>3, <1>4, <1>5, <1>6 DEF ProxyInv, WatchdogForgetsClosed
<1>19. EndLeavesNothing'
  BY <1>2, <1>3, <1>4, <1>5, <1>6, CreatedSessions DEF ProxyInv, EndLeavesNothing, Current, OtherSessions
<1> QED BY <1>7, <1>8, <1>9, <1>10, <1>11, <1>12, <1>13, <1>14, <1>15, <1>16, <1>17, <1>18, <1>19 DEF ProxyInv

(* The sessions of the proxy are copied. *)
LEMMA CopySessionsKeeps ==
    ASSUME ProxyInv, NEW t \in Threads, CopySessions(t)
    PROVE  ProxyInv'
<1>1. th' = [th EXCEPT ![t].pc = "next", ![t].op = "end", ![t].todo = proxy.mChildren]
  BY DEF CopySessions
<1>2. th[t].pc = "copySessions" /\ UNCHANGED <<lock, proxy, ses, act, mSessionsToClose, toSplit, failure>>
  BY DEF CopySessions
<1>3. proxy.mIsFinished /\ proxy.mChildren \in SUBSET Sessions
  BY <1>2 DEF ProxyInv, ProxyTypeOK, EndsAll
<1>4. /\ th' \in [Threads -> ThreadRecord] /\ Others(t) /\ th'[t].pc = "next" /\ th'[t].op = "end"
      /\ th'[t].todo = proxy.mChildren
  <2> DEFINE r == [th[t] EXCEPT !.pc = "next", !.op = "end", !.todo = proxy.mChildren]
  <2>1. th \in [Threads -> ThreadRecord] /\ th[t] \in ThreadRecord
    BY DEF ProxyInv, ProxyTypeOK
  <2>2. r \in ThreadRecord /\ r.pc = "next" /\ r.op = "end" /\ r.todo = proxy.mChildren
    BY <1>3, <2>1 DEF ThreadRecord, Pcs, Ops
  <2>3. th' = [th EXCEPT ![t] = r]
    BY <1>1, <2>1
  <2> HIDE DEF r
  <2> QED BY <2>1, <2>2, <2>3 DEF Others
<1>5. Created' = Created
  BY <1>2, SameCreated
<1>6. ProxyTypeOK'
  BY <1>2, <1>3, <1>4, <1>5 DEF ProxyInv, ProxyTypeOK
<1>7. LocksHeld'
  BY <1>2, <1>3, <1>4, <1>5, ThreadFacts DEF ProxyInv, LocksHeld, Holding, Others, OtherSessions
<1>8. CallsFit'
  BY <1>2, <1>3, <1>4, <1>5 DEF ProxyInv, CallsFit, Splitting, Others
<1>9. RoomLeft'
  BY <1>2, <1>3, <1>4, <1>5 DEF ProxyInv, RoomLeft, Pending, Splitting, Others
<1>10. CurrentExists'
  BY <1>2, <1>3, <1>4, <1>5 DEF ProxyInv, CurrentExists, Current, Splitting, Others
<1>11. ChildrenKnown'
  BY <1>2, <1>3, <1>4, <1>5, ThreadFacts DEF ProxyInv, ChildrenKnown, LocksHeld, Holding, Current, Others, OtherSessions
<1>12. TriedIsReplaced'
  BY <1>2, <1>3, <1>4, <1>5 DEF ProxyInv, TriedIsReplaced, CallsFit, Current, Others, OtherSessions
<1>13. OneEnds'
  BY <1>2, <1>3, <1>4, <1>5 DEF ProxyInv, OneEnds, CallsFit, Ending, Others, OtherSessions
<1>14. OpenActions'
  BY <1>2, <1>3, <1>4, <1>5 DEF ProxyInv, OpenActions, Ending, Others, OtherSessions
<1>15. EndsAll'
  BY <1>2, <1>3, <1>4, <1>5 DEF ProxyInv, EndsAll, Others, OtherSessions, ChildrenKnown
<1>16. SplitOffIsWatched'
  BY <1>2, <1>3, <1>4, <1>5, ThreadFacts, LockType DEF ProxyInv, SplitOffIsWatched, Current, LocksHeld, Holding, Others, OtherSessions
<1>17. WatchdogForgetsClosed'
  BY <1>2, <1>3, <1>4, <1>5 DEF ProxyInv, WatchdogForgetsClosed
<1>18. EndLeavesNothing'
  BY <1>2, <1>3, <1>4, <1>5, CreatedSessions DEF ProxyInv, EndLeavesNothing, Current, OtherSessions
<1> QED BY <1>6, <1>7, <1>8, <1>9, <1>10, <1>11, <1>12, <1>13, <1>14, <1>15, <1>16, <1>17, <1>18 DEF ProxyInv

(* The watchdog takes sessions whose grace period is over. *)
LEMMA CloseExpiredKeeps ==
    ASSUME ProxyInv, NEW t \in Threads, NEW expired, t = Watchdog, CloseExpired(expired)
    PROVE  ProxyInv'
<1>1. th' = [th EXCEPT ![t] = [Idle EXCEPT !.pc = "next", !.op = "close", !.todo = expired]]
  BY DEF CloseExpired
<1>2. th[t].pc = "idle" /\ UNCHANGED <<lock, proxy, ses, act, mSessionsToClose, toSplit, failure>>
  BY DEF CloseExpired
<1>3. expired \in SUBSET Sessions
  BY DEF CloseExpired, ProxyInv, ProxyTypeOK
<1>4. th' \in [Threads -> ThreadRecord] /\ Others(t) /\ th'[t].pc = "next" /\ th'[t].op = "close"
  <2> DEFINE r == [Idle EXCEPT !.pc = "next", !.op = "close", !.todo = expired]
  <2>1. th \in [Threads -> ThreadRecord] /\ Idle \in ThreadRecord
    BY IdleType DEF ProxyInv, ProxyTypeOK
  <2>2. r \in ThreadRecord /\ r.pc = "next" /\ r.op = "close"
    BY <1>3, <2>1 DEF ThreadRecord, Pcs, Ops
  <2>3. th' = [th EXCEPT ![t] = r]
    BY <1>1
  <2> HIDE DEF r
  <2> QED BY <2>1, <2>2, <2>3 DEF Others
<1>5. Created' = Created
  BY <1>2, SameCreated
<1>6. ProxyTypeOK'
  BY <1>2, <1>4, <1>5 DEF ProxyInv, ProxyTypeOK
<1>7. LocksHeld'
  BY <1>2, <1>4, <1>5, ThreadFacts DEF ProxyInv, LocksHeld, Holding, Others, OtherSessions
<1>8. CallsFit'
  BY <1>2, <1>4, <1>5 DEF ProxyInv, CallsFit, Splitting, Others
<1>9. RoomLeft'
  BY <1>2, <1>4, <1>5 DEF ProxyInv, RoomLeft, Pending, Splitting, Others
<1>10. CurrentExists'
  BY <1>2, <1>4, <1>5 DEF ProxyInv, CurrentExists, Current, Splitting, Others
<1>11. ChildrenKnown'
  BY <1>2, <1>4, <1>5, ThreadFacts DEF ProxyInv, ChildrenKnown, LocksHeld, Holding, Current, Others, OtherSessions
<1>12. TriedIsReplaced'
  BY <1>2, <1>4, <1>5 DEF ProxyInv, TriedIsReplaced, CallsFit, Current, Others, OtherSessions
<1>13. OneEnds'
  BY <1>2, <1>4, <1>5 DEF ProxyInv, OneEnds, CallsFit, Ending, Others, OtherSessions
<1>14. OpenActions'
  BY <1>2, <1>4, <1>5 DEF ProxyInv, OpenActions, Ending, Others, OtherSessions
<1>15. EndsAll'
  BY <1>2, <1>4, <1>5 DEF ProxyInv, EndsAll, Others, OtherSessions
<1>16. SplitOffIsWatched'
  BY <1>2, <1>4, <1>5, ThreadFacts, LockType DEF ProxyInv, SplitOffIsWatched, Current, LocksHeld, Holding, Others, OtherSessions
<1>17. WatchdogForgetsClosed'
  BY <1>2, <1>4, <1>5 DEF ProxyInv, WatchdogForgetsClosed
<1>18. EndLeavesNothing'
  BY <1>2, <1>4, <1>5, CreatedSessions DEF ProxyInv, EndLeavesNothing, Current, OtherSessions
<1> QED BY <1>6, <1>7, <1>8, <1>9, <1>10, <1>11, <1>12, <1>13, <1>14, <1>15, <1>16, <1>17, <1>18 DEF ProxyInv

(* The next session is to be ended. *)
LEMMA EndNextKeeps ==
    ASSUME ProxyInv, NEW t \in Threads, NEW s \in Sessions, EndNext(t, s)
    PROVE  ProxyInv'
<1>1. th' = [th EXCEPT ![t] = [Idle EXCEPT !.pc = "end", !.op = th[t].op, !.s = s, !.todo = th[t].todo \ {s},
                                      !.event = (th[t].op = "end" /\ s = Current)]]
  BY DEF EndNext
<1>2. /\ th[t].pc = "next" /\ UNCHANGED <<lock, proxy, ses, act, toSplit, failure>>
      /\ mSessionsToClose' = IF th[t].op = "close" THEN mSessionsToClose \ {s} ELSE mSessionsToClose
  BY DEF EndNext
<1>3. th[t].op \in {"end", "close"} /\ (th[t].op = "close" => t = Watchdog)
  BY <1>2 DEF ProxyInv, CallsFit
<1>4. /\ th' \in [Threads -> ThreadRecord] /\ Others(t) /\ th'[t].pc = "end" /\ th'[t].op = th[t].op
      /\ th'[t].s = s /\ th'[t].todo = th[t].todo \ {s}
  <2> DEFINE r == [Idle EXCEPT !.pc = "end", !.op = th[t].op, !.s = s, !.todo = th[t].todo \ {s},
                              !.event = (th[t].op = "end" /\ s = Current)]
  <2>1. /\ th \in [Threads -> ThreadRecord] /\ Idle \in ThreadRecord /\ th[t].todo \in SUBSET Sessions
        /\ th[t].op \in Ops /\ s \in 0..MaxSessions
    BY IdleType DEF ProxyInv, ProxyTypeOK, ThreadRecord, Sessions
  <2>2. r \in ThreadRecord /\ r.pc = "end" /\ r.op = th[t].op /\ r.s = s /\ r.todo = th[t].todo \ {s}
    BY <2>1 DEF ThreadRecord, Pcs
  <2>3. th' = [th EXCEPT ![t] = r]
    BY <1>1
  <2> HIDE DEF r
  <2> QED BY <2>1, <2>2, <2>3 DEF Others
<1>5. Created' = Created
  BY <1>2, SameCreated
<1>6. ProxyTypeOK'
  BY <1>2, <1>3, <1>4, <1>5 DEF ProxyInv, ProxyTypeOK
<1>7. LocksHeld'
  BY <1>2, <1>3, <1>4, <1>5, ThreadFacts DEF ProxyInv, LocksHeld, Holding, Others, OtherSessions
<1>8. CallsFit'
  BY <1>2, <1>3, <1>4, <1>5 DEF ProxyInv, CallsFit, Splitting, Others
<1>9. RoomLeft'
  BY <1>2, <1>3, <1>4, <1>5 DEF ProxyInv, RoomLeft, Pending, Splitting, Others
<1>10. CurrentExists'
  BY <1>2, <1>3, <1>4, <1>5 DEF ProxyInv, CurrentExists, Current, Splitting, Others
<1>11. ChildrenKnown'
  BY <1>2, <1>3, <1>4, <1>5, ThreadFacts DEF ProxyInv, ChildrenKnown, LocksHeld, Holding, Current, Others, OtherSessions
<1>12. TriedIsReplaced'
  BY <1>2, <1>3, <1>4, <1>5 DEF ProxyInv, TriedIsReplaced, CallsFit, Current, Others, OtherSessions
<1>13. OneEnds'
  BY <1>2, <1>3, <1>4, <1>5 DEF ProxyInv, OneEnds, CallsFit, Ending, Others, OtherSessions
<1>14. OpenActions'
  BY <1>2, <1>3, <1>4, <1>5 DEF ProxyInv, OpenActions, Ending, Others, OtherSessions
<1>15. EndsAll'
  BY <1>2, <1>3, <1>4, <1>5 DEF ProxyInv, EndsAll, Others, OtherSessions
<1>16. SplitOffIsWatched'
  BY <1>2, <1>3, <1>4, <1>5, ThreadFacts, LockType DEF ProxyInv, SplitOffIsWatched, Current, LocksHeld, Holding, Others, OtherSessions
<1>17. WatchdogForgetsClosed'
  BY <1>2, <1>3, <1>4, <1>5 DEF ProxyInv, WatchdogForgetsClosed
<1>18. EndLeavesNothing'
  BY <1>2, <1>3, <1>4, <1>5, CreatedSessions DEF ProxyInv, EndLeavesNothing, Current, OtherSessions
<1> QED BY <1>6, <1>7, <1>8, <1>9, <1>10, <1>11, <1>12, <1>13, <1>14, <1>15, <1>16, <1>17, <1>18 DEF ProxyInv

(* All sessions are ended: the watchdog need not split the proxy any more. *)
LEMMA ProxyEndedKeeps ==
    ASSUME ProxyInv, NEW t \in Threads, ProxyEnded(t)
    PROVE  ProxyInv'
<1>1. Goto(t, "reset")
  BY DEF ProxyEnded
<1>2. /\ th[t].pc = "next" /\ th[t].op = "end" /\ th[t].todo = {} /\ toSplit' = FALSE
      /\ UNCHANGED <<lock, proxy, ses, act, mSessionsToClose, failure>>
  BY DEF ProxyEnded
<1>3. /\ th' \in [Threads -> ThreadRecord] /\ Others(t) /\ th'[t].pc = "reset" /\ th'[t].op = th[t].op
      /\ th'[t].s = th[t].s /\ th'[t].acts = th[t].acts /\ th'[t].todo = th[t].todo
  BY <1>1, GotoFacts DEF ProxyInv, Pcs, Holding
<1>4. Created' = Created
  BY <1>2, SameCreated
<1>5. ProxyTypeOK'
  BY <1>2, <1>3, <1>4 DEF ProxyInv, ProxyTypeOK
<1>6. LocksHeld'
  BY <1>2, <1>3, <1>4, ThreadFacts DEF ProxyInv, LocksHeld, Holding, Others, OtherSessions
<1>7. CallsFit'
  BY <1>2, <1>3, <1>4 DEF ProxyInv, CallsFit, Splitting, Others
<1>8. RoomLeft'
  BY <1>2, <1>3, <1>4 DEF ProxyInv, RoomLeft, Pending, Splitting, Others
<1>9. CurrentExists'
  BY <1>2, <1>3, <1>4 DEF ProxyInv, CurrentExists, Current, Splitting, Others
<1>10. ChildrenKnown'
  BY <1>2, <1>3, <1>4, ThreadFacts DEF ProxyInv, ChildrenKnown, LocksHeld, Holding, Current, Others, OtherSessions
<1>11. TriedIsReplaced'
  BY <1>2, <1>3, <1>4 DEF ProxyInv, TriedIsReplaced, CallsFit, Current, Others, OtherSessions
<1>12. OneEnds'
  BY <1>2, <1>3, <1>4 DEF ProxyInv, OneEnds, CallsFit, Ending, Others, OtherSessions
<1>13. OpenActions'
  BY <1>2, <1>3, <1>4 DEF ProxyInv, OpenActions, Ending, Others, OtherSessions
<1>14. EndsAll'
  BY <1>2, <1>3, <1>4 DEF ProxyInv, EndsAll, Others, OtherSessions
<1>15. SplitOffIsWatched'
  BY <1>2, <1>3, <1>4, ThreadFacts, LockType DEF ProxyInv, SplitOffIsWatched, Current, LocksHeld, Holding, Others, OtherSessions
<1>16. WatchdogForgetsClosed'
  BY <1>2, <1>3, <1>4 DEF ProxyInv, WatchdogForgetsClosed
<1>17. EndLeavesNothing'
  BY <1>2, <1>3, <1>4, CreatedSessions DEF ProxyInv, EndLeavesNothing, Current, OtherSessions
<1> QED BY <1>5, <1>6, <1>7, <1>8, <1>9, <1>10, <1>11, <1>12, <1>13, <1>14, <1>15, <1>16, <1>17 DEF ProxyInv

(* end() is over: there is no current session. *)
LEMMA ResetKeeps ==
    ASSUME ProxyInv, NEW t \in Threads, ResetCurrent(t)
    PROVE  ProxyInv'
<1>1. proxy' = [proxy EXCEPT !.mCurrentSession = 0] /\ th' = [th EXCEPT ![t] = Idle]
  BY DEF ResetCurrent
<1>2. th[t].pc = "reset" /\ UNCHANGED <<lock, ses, act, mSessionsToClose, toSplit, failure>>
  BY DEF ResetCurrent
<1>3. proxy.mIsFinished /\ ~toSplit /\ \A s \in Sessions : s # 0 /\ ses[s].life # "open"
  BY <1>2 DEF ProxyInv, CallsFit, EndsAll, Sessions
<1>4. th' \in [Threads -> ThreadRecord] /\ Others(t) /\ th'[t].pc = "idle" /\ th'[t].op = "none"
  BY <1>1, IdleFacts DEF ProxyInv
<1>5. /\ proxy' \in [mCurrentSession : 0..MaxSessions, configured : BOOLEAN, mIsFinished : BOOLEAN,
                   mTopLevelActionCount : Nat, mLastUserTag : Tags \cup {NoTag}, mChildren : SUBSET Sessions]
      /\ proxy'.mCurrentSession = 0 /\ proxy'.mIsFinished = proxy.mIsFinished
      /\ proxy'.mChildren = proxy.mChildren
  BY <1>1, ProxyAssumption DEF ProxyInv, ProxyTypeOK
<1>6. Created' = Created
  BY <1>2, SameCreated
<1>7. ProxyTypeOK'
  BY <1>2, <1>3, <1>4, <1>5, <1>6 DEF ProxyInv, ProxyTypeOK
<1>8. LocksHeld'
  BY <1>2, <1>3, <1>4, <1>5, <1>6, ThreadFacts DEF ProxyInv, LocksHeld, Holding, Others, OtherSessions
<1>9. CallsFit'
  BY <1>2, <1>3, <1>4, <1>5, <1>6 DEF ProxyInv, CallsFit, Splitting, Others
<1>10. RoomLeft'
  BY <1>2, <1>3, <1>4, <1>5, <1>6 DEF ProxyInv, RoomLeft, Pending, Splitting, Others
<1>11. CurrentExists'
  BY <1>2, <1>3, <1>4, <1>5, <1>6 DEF ProxyInv, CurrentExists, Current, Splitting, Others
<1>12. ChildrenKnown'
  BY <1>2, <1>3, <1>4, <1>5, <1>6, ThreadFacts DEF ProxyInv, ChildrenKnown, LocksHeld, Holding, Current, Others, OtherSessions, CurrentExists, Splitting
<1>13. TriedIsReplaced'
  BY <1>2, <1>3, <1>4, <1>5, <1>6 DEF ProxyInv, TriedIsReplaced, CallsFit, Current, Others, OtherSessions
<1>14. OneEnds'
  BY <1>2, <1>3, <1>4, <1>5, <1>6 DEF ProxyInv, OneEnds, CallsFit, Ending, Others, OtherSessions
<1>15. OpenActions'
  BY <1>2, <1>3, <1>4, <1>5, <1>6 DEF ProxyInv, OpenActions, Ending, Others, OtherSessions
<1>16. EndsAll'
  BY <1>2, <1>3, <1>4, <1>5, <1>6 DEF ProxyInv, EndsAll, Others, OtherSessions
<1>17. SplitOffIsWatched'
  BY <1>2, <1>3, <1>4, <1>5, <1>6, ThreadFacts, LockType DEF ProxyInv, SplitOffIsWatched, Current, LocksHeld, Holding, Others, OtherSessions
<1>18. WatchdogForgetsClosed'
  BY <1>2, <1>3, <1>4, <1>5, <1>6 DEF ProxyInv, WatchdogForgetsClosed
<1>19. EndLeavesNothing'
  BY <1>2, <1>3, <1>4, <1>5, <1>6, CreatedSessions DEF ProxyInv, EndLeavesNothing, Current, OtherSessions
<1> QED BY <1>7, <1>8, <1>9, <1>10, <1>11, <1>12, <1>13, <1>14, <1>15, <1>16, <1>17, <1>18, <1>19 DEF ProxyInv

(* The watchdog's round is over. *)
LEMMA RoundKeeps ==
    ASSUME ProxyInv, NEW t \in Threads, th[t].pc = "next", th' = [th EXCEPT ![t] = Idle], toSplit' = toSplit \/ toSplit' = ~proxy.mIsFinished,
           UNCHANGED <<lock, proxy, ses, act, mSessionsToClose, failure>>
    PROVE  ProxyInv'
<1>1. /\ lock' = lock /\ proxy' = proxy /\ ses' = ses /\ act' = act
      /\ mSessionsToClose' = mSessionsToClose /\ failure' = failure
  OBVIOUS
<1>2. th' \in [Threads -> ThreadRecord] /\ Others(t) /\ th'[t].pc = "idle" /\ th'[t].op = "none"
  BY IdleFacts DEF ProxyInv
<1>3. toSplit' \in BOOLEAN /\ (proxy.mIsFinished /\ ~toSplit => ~toSplit')
  <2>1. toSplit \in BOOLEAN /\ proxy.mIsFinished \in BOOLEAN
    BY DEF ProxyInv, ProxyTypeOK
  <2>2. CASE toSplit' = toSplit
    BY <2>1, <2>2, Zenon
  <2>3. CASE toSplit' = ~proxy.mIsFinished
    <3>1. CASE proxy.mIsFinished = TRUE
      BY <2>3, <3>1, Zenon
    <3>2. CASE proxy.mIsFinished = FALSE
      BY <2>3, <3>2, Zenon
    <3> QED BY <2>1, <3>1, <3>2, Zenon
  <2> QED BY <2>2, <2>3, Zenon
<1>4. Created' = Created
  BY <1>1, SameCreated
<1>5. ProxyTypeOK'
  BY <1>1, <1>2, <1>3, <1>4 DEF ProxyInv, ProxyTypeOK
<1>6. LocksHeld'
  BY <1>1, <1>2, <1>3, <1>4, ThreadFacts DEF ProxyInv, LocksHeld, Holding, Others, OtherSessions
<1>7. CallsFit'
  BY <1>1, <1>2, <1>3, <1>4 DEF ProxyInv, CallsFit, Splitting, Others
<1>8. RoomLeft'
  BY <1>1, <1>2, <1>3, <1>4 DEF ProxyInv, RoomLeft, Pending, Splitting, Others
<1>9. CurrentExists'
  BY <1>1, <1>2, <1>3, <1>4 DEF ProxyInv, CurrentExists, Current, Splitting, Others
<1>10. ChildrenKnown'
  BY <1>1, <1>2, <1>3, <1>4, ThreadFacts DEF ProxyInv, ChildrenKnown, LocksHeld, Holding, Current, Others, OtherSessions
<1>11. TriedIsReplaced'
  BY <1>1, <1>2, <1>3, <1>4 DEF ProxyInv, TriedIsReplaced, CallsFit, Current, Others, OtherSessions
<1>12. OneEnds'
  BY <1>1, <1>2, <1>3, <1>4 DEF ProxyInv, OneEnds, CallsFit, Ending, Others, OtherSessions
<1>13. OpenActions'
  BY <1>1, <1>2, <1>3, <1>4 DEF ProxyInv, OpenActions, Ending, Others, OtherSessions
<1>14. EndsAll'
  BY <1>1, <1>2, <1>3, <1>4 DEF ProxyInv, EndsAll, Others, OtherSessions, CallsFit
<1>15. SplitOffIsWatched'
  BY <1>1, <1>2, <1>3, <1>4, ThreadFacts, LockType DEF ProxyInv, SplitOffIsWatched, Current, LocksHeld, Holding, Others, OtherSessions
<1>16. WatchdogForgetsClosed'
  BY <1>1, <1>2, <1>3, <1>4 DEF ProxyInv, WatchdogForgetsClosed
<1>17. EndLeavesNothing'
  BY <1>1, <1>2, <1>3, <1>4, CreatedSessions DEF ProxyInv, EndLeavesNothing, Current, OtherSessions, CurrentExists
<1> QED BY <1>5, <1>6, <1>7, <1>8, <1>9, <1>10, <1>11, <1>12, <1>13, <1>14, <1>15, <1>16, <1>17 DEF ProxyInv

(* The watchdog splits the session. *)
LEMMA StartSplitKeeps ==
    ASSUME ProxyInv, NEW t \in Threads, t = Watchdog, th[t].pc = "next", lock = NoThread, StartSplit, ~proxy.mIsFinished,
           Cardinality(Created) < MaxSessions, toSplit' = TRUE, 
           UNCHANGED <<proxy, ses, act, mSessionsToClose, failure>>
    PROVE  ProxyInv'
<1>1. /\ lock' = t /\ proxy' = proxy /\ ses' = ses /\ act' = act
      /\ mSessionsToClose' = mSessionsToClose /\ failure' = failure
  BY DEF StartSplit
<1>2. th' \in [Threads -> ThreadRecord] /\ Others(t) /\ th'[t].pc = "tryEnd" /\ th'[t].op = "split"
  <2>1. th' = [th EXCEPT ![t] = [Idle EXCEPT !.op = "split", !.pc = "tryEnd"]]
    BY IdleType DEF StartSplit, ThreadRecord
  <2> QED BY <2>1, FreshFacts DEF ProxyInv, Pcs, Ops, Holding
<1>3. Created' = Created
  BY <1>1, SameCreated
<1>4. ProxyTypeOK'
  BY <1>1, <1>2, <1>3 DEF ProxyInv, ProxyTypeOK
<1>5. LocksHeld'
  BY <1>1, <1>2, <1>3, ThreadFacts DEF ProxyInv, LocksHeld, Holding, Others, OtherSessions
<1>6. CallsFit'
  BY <1>1, <1>2, <1>3 DEF ProxyInv, CallsFit, Splitting, Others
<1>7. RoomLeft'
  <2>1. Pending(t)' = 1
    BY <1>2 DEF Pending, Splitting
  <2> QED BY <1>2, <1>3, <2>1, ProxyAssumption DEF ProxyInv, RoomLeft, Pending, Splitting, Others
<1>8. CurrentExists'
  BY <1>1, <1>2, <1>3 DEF ProxyInv, CurrentExists, Current, Splitting, Others
<1>9. ChildrenKnown'
  BY <1>1, <1>2, <1>3, ThreadFacts DEF ProxyInv, ChildrenKnown, LocksHeld, Holding, Current, Others, OtherSessions
<1>10. TriedIsReplaced'
  BY <1>1, <1>2, <1>3 DEF ProxyInv, TriedIsReplaced, CallsFit, Current, Others, OtherSessions
<1>11. OneEnds'
  BY <1>1, <1>2, <1>3 DEF ProxyInv, OneEnds, CallsFit, Ending, Others, OtherSessions
<1>12. OpenActions'
  BY <1>1, <1>2, <1>3 DEF ProxyInv, OpenActions, Ending, Others, OtherSessions
<1>13. EndsAll'
  BY <1>1, <1>2, <1>3 DEF ProxyInv, EndsAll, Others, OtherSessions, CallsFit
<1>14. SplitOffIsWatched'
  BY <1>1, <1>2, <1>3, ThreadFacts, LockType DEF ProxyInv, SplitOffIsWatched, Current, LocksHeld, Holding, Others, OtherSessions
<1>15. WatchdogForgetsClosed'
  BY <1>1, <1>2, <1>3 DEF ProxyInv, WatchdogForgetsClosed
<1>16. EndLeavesNothing'
  BY <1>1, <1>2, <1>3, CreatedSessions DEF ProxyInv, EndLeavesNothing, Current, OtherSessions, CurrentExists
<1> QED BY <1>4, <1>5, <1>6, <1>7, <1>8, <1>9, <1>10, <1>11, <1>12, <1>13, <1>14, <1>15, <1>16 DEF ProxyInv

(* The second half of the watchdog's round. *)
LEMMA SplitTimedOutKeeps ==
    ASSUME ProxyInv, NEW due, SplitTimedOut(due)
    PROVE  ProxyInv'
<1>1. Watchdog \in Threads
  BY ThreadFacts
<1>2. th[Watchdog].pc = "next" /\ UNCHANGED <<proxy, ses, act, mSessionsToClose, failure>>
  BY DEF SplitTimedOut
<1>3. CASE ~toSplit /\ RoundDone /\ UNCHANGED <<lock, toSplit>>
  BY <1>1, <1>2, <1>3, RoundKeeps DEF RoundDone
<1>4. CASE lock = NoThread /\ toSplit' = ~proxy.mIsFinished /\ RoundDone /\ UNCHANGED lock
  BY <1>1, <1>2, <1>4, RoundKeeps DEF RoundDone
<1>5. CASE /\ lock = NoThread /\ toSplit' = ~proxy.mIsFinished
           /\ ~proxy.mIsFinished /\ Cardinality(Created) < MaxSessions /\ StartSplit
  <2>1. toSplit' = TRUE
    BY <1>5
  <2> QED BY <1>1, <1>2, <1>5, <2>1, StartSplitKeeps
<1> QED BY <1>3, <1>4, <1>5 DEF SplitTimedOut, splitSessionByTime

(* The server's configuration arrives. *)
LEMMA ConfigurationKeeps ==
    ASSUME ProxyInv, onServerConfigurationUpdate
    PROVE  ProxyInv'
<1>1. proxy' = [proxy EXCEPT !.configured = TRUE] /\ toSplit' = (toSplit \/ (SplitByTime /\ ~proxy.mIsFinished))
  BY DEF onServerConfigurationUpdate
<1>2. /\ lock' = lock /\ ses' = ses /\ act' = act /\ mSessionsToClose' = mSessionsToClose
      /\ th' = th /\ failure' = failure
  BY DEF onServerConfigurationUpdate
<1>3. /\ proxy' \in [mCurrentSession : 0..MaxSessions, configured : BOOLEAN, mIsFinished : BOOLEAN,
                   mTopLevelActionCount : Nat, mLastUserTag : Tags \cup {NoTag}, mChildren : SUBSET Sessions]
      /\ proxy'.mCurrentSession = proxy.mCurrentSession /\ proxy'.mIsFinished = proxy.mIsFinished
      /\ proxy'.mChildren = proxy.mChildren
  BY <1>1 DEF ProxyInv, ProxyTypeOK
<1>4. toSplit' \in BOOLEAN /\ (proxy.mIsFinished /\ ~toSplit => ~toSplit')
  <2>1. toSplit \in BOOLEAN /\ proxy.mIsFinished \in BOOLEAN /\ SplitByTime \in BOOLEAN
    BY ProxyAssumption DEF ProxyInv, ProxyTypeOK
  <2> QED BY <1>1, <2>1, Zenon
<1>5. Created' = Created
  BY <1>2, SameCreated
<1>6. ProxyTypeOK'
  BY <1>2, <1>3, <1>4, <1>5 DEF ProxyInv, ProxyTypeOK
<1>7. LocksHeld'
  BY <1>2, <1>3, <1>4, <1>5, ThreadFacts DEF ProxyInv, LocksHeld, Holding, Others, OtherSessions
<1>8. CallsFit'
  BY <1>2, <1>3, <1>4, <1>5 DEF ProxyInv, CallsFit, Splitting, Others
<1>9. RoomLeft'
  BY <1>2, <1>3, <1>4, <1>5 DEF ProxyInv, RoomLeft, Pending, Splitting, Others
<1>10. CurrentExists'
  BY <1>2, <1>3, <1>4, <1>5 DEF ProxyInv, CurrentExists, Current, Splitting, Others
<1>11. ChildrenKnown'
  BY <1>2, <1>3, <1>4, <1>5, ThreadFacts DEF ProxyInv, ChildrenKnown, LocksHeld, Holding, Current, Others, OtherSessions
<1>12. TriedIsReplaced'
  BY <1>2, <1>3, <1>4, <1>5 DEF ProxyInv, TriedIsReplaced, CallsFit, Current, Others, OtherSessions
<1>13. OneEnds'
  BY <1>2, <1>3, <1>4, <1>5 DEF ProxyInv, OneEnds, CallsFit, Ending, Others, OtherSessions
<1>14. OpenActions'
  BY <1>2, <1>3, <1>4, <1>5 DEF ProxyInv, OpenActions, Ending, Others, OtherSessions
<1>15. EndsAll'
  BY <1>2, <1>3, <1>4, <1>5 DEF ProxyInv, EndsAll, Others, OtherSessions, CallsFit
<1>16. SplitOffIsWatched'
  BY <1>2, <1>3, <1>4, <1>5, ThreadFacts, LockType DEF ProxyInv, SplitOffIsWatched, Current, LocksHeld, Holding, Others, OtherSessions
<1>17. WatchdogForgetsClosed'
  BY <1>2, <1>3, <1>4, <1>5 DEF ProxyInv, WatchdogForgetsClosed
<1>18. EndLeavesNothing'
  BY <1>2, <1>3, <1>4, <1>5, CreatedSessions DEF ProxyInv, EndLeavesNothing, Current, OtherSessions, CurrentExists
<1> QED BY <1>6, <1>7, <1>8, <1>9, <1>10, <1>11, <1>12, <1>13, <1>14, <1>15, <1>16, <1>17, <1>18 DEF ProxyInv

(* A step within a call. *)
LEMMA InCallKeeps ==
    ASSUME ProxyInv, NEW t \in Threads, InCall(t)
    PROVE  ProxyInv'
<1>1. CASE TryEndUnconfigured(t)
  BY <1>1, FailureKeeps DEF TryEndUnconfigured
<1>2. CASE TryEnd(t) \/ Enqueue(t) \/ Create(t)
  BY <1>2, TryEndKeeps, EnqueueKeeps, CreateKeeps
<1>3. ASSUME NEW a \in Actions, enterAction(t, a) \/ traceWebRequest(t, a)
      PROVE  ProxyInv'
  <2>1. th[t].pc = "op" /\ (AddChild(t, a, 0) \/ AddChild(t, a, 1))
    BY <1>3 DEF enterAction, traceWebRequest, InSession
  <2> QED BY <2>1, AddChildKeeps
<1>4. ASSUME NEW tag \in Tags \cup {NoTag}, identifyUser(t, tag)
      PROVE  ProxyInv'
  BY <1>4, IdentifyKeeps
<1>5. CASE sendEvent(t)
  BY <1>5, ReturnKeeps DEF sendEvent, InSession
<1>6. CASE reportCrash(t)
  BY <1>6, CrashKeeps
<1>7. CASE ReportUse(t)
  <2>1. CASE Current = 0
    BY <1>7, <2>1, FailureKeeps DEF ReportUse
  <2>2. CASE Current # 0
    BY <1>7, <2>2, ReturnKeeps DEF ReportUse
  <2> QED BY <2>1, <2>2
<1>8. CASE Detach(t) \/ TellHeld(t)
  BY <1>8, DetachKeeps, TellHeldKeeps
<1>9. CASE EndMark(t) \/ EndCopy(t) \/ EndFinish(t) \/ Tell(t)
  BY <1>9, EndMarkBegins, EndMarkSkips, EndCopyKeeps, EndFinishKeeps, TellKeeps
<1>10. ASSUME NEW a \in Actions, CloseChild(t, a)
       PROVE  ProxyInv'
  BY <1>10, CloseOpenChild, CloseLeftChild
<1>11. ASSUME NEW s \in Sessions, EndNext(t, s)
       PROVE  ProxyInv'
  BY <1>11, EndNextKeeps
<1>12. CASE CopySessions(t) \/ ProxyEnded(t) \/ ResetCurrent(t)
  BY <1>12, CopySessionsKeeps, ProxyEndedKeeps, ResetKeeps
<1> QED BY <1>1, <1>2, <1>3, <1>4, <1>5, <1>6, <1>7, <1>8, <1>9, <1>10, <1>11, <1>12 DEF InCall

(* Every step keeps the invariant. *)
LEMMA NextProxyInv == ASSUME ProxyInv, [Next]_proxyVars PROVE ProxyInv'
<1>1. ASSUME NEW t \in AppThreads, Starts(t) \/ InCall(t)
      PROVE  ProxyInv'
  <2>1. t \in Threads
    BY DEF Threads
  <2> QED BY <1>1, <2>1, InCallKeeps, CallKeeps, LeaveKeeps, ReportTestKeeps, ProxyEndKeeps DEF Starts
<1>2. CASE WatchdogStep
  BY <1>2, ThreadFacts, CloseExpiredKeeps, SplitTimedOutKeeps, InCallKeeps DEF WatchdogStep
<1>3. CASE onServerConfigurationUpdate
  BY <1>3, ConfigurationKeeps
<1>4. CASE UNCHANGED proxyVars
  <2>1. failure' \in {"none", "configuration", "session"}
    BY <1>4 DEF proxyVars, ProxyInv, ProxyTypeOK
  <2> QED BY <1>4, <2>1, FailureKeeps DEF proxyVars
<1> QED BY <1>1, <1>2, <1>3, <1>4 DEF Next

(* A proxy starts with one session that is open, and nobody in a call. *)
LEMMA InitProxyInv == Init => ProxyInv
<1> SUFFICES ASSUME Init PROVE ProxyInv
  OBVIOUS
<1>1. PICK configured \in BOOLEAN :
         /\ proxy = [mCurrentSession |-> 1, configured |-> configured,
                     mIsFinished |-> FALSE, mTopLevelActionCount |-> 0,
                     mLastUserTag |-> NoTag, mChildren |-> {1}]
         /\ toSplit = (configured /\ SplitByTime)
  BY DEF Init
<1>2. /\ lock = NoThread /\ ses = [s \in Sessions |-> IF s = 1 THEN NewSession(NoTag) ELSE NoSession]
      /\ act = [a \in Actions |-> [state |-> "none", session |-> 0]] /\ mSessionsToClose = {}
      /\ th = [t \in Threads |-> Idle] /\ failure = "none"
  BY DEF Init
<1>3. 1 \in Sessions /\ 0 \in 0..MaxSessions /\ 1 \in 0..MaxSessions /\ MaxSessions \in Nat
  BY ProxyAssumption DEF Sessions
<1>4. /\ NewSession(NoTag) \in SessionRecord /\ NewSession(NoTag).life = "open"
      /\ NewSession(NoTag).tried = FALSE /\ NewSession(NoTag).lock = NoThread
      /\ NoSession \in SessionRecord /\ NoSession.life = "none"
      /\ NoSession.tried = FALSE /\ NoSession.lock = NoThread
  BY DEF NewSession, NoSession, SessionRecord, Lives
<1>5. /\ ses \in [Sessions -> SessionRecord] /\ ses[1].life = "open"
      /\ \A s \in Sessions : ses[s].tried = FALSE /\ ses[s].lock = NoThread
      /\ \A s \in Sessions : s # 1 => ses[s].life = "none"
  BY <1>2, <1>3, <1>4
<1>6. th \in [Threads -> ThreadRecord] /\ \A t \in Threads : th[t].pc = "idle" /\ th[t].op = "none"
  BY <1>2, IdleType DEF Idle
<1>7. toSplit \in BOOLEAN
  BY <1>1, ProxyAssumption, Zenon
<1>8. ProxyTypeOK
  <2>1. proxy \in [mCurrentSession : 0..MaxSessions, configured : BOOLEAN, mIsFinished : BOOLEAN,
                   mTopLevelActionCount : Nat, mLastUserTag : Tags \cup {NoTag}, mChildren : SUBSET Sessions]
    BY <1>1, <1>3
  <2>2. act \in [Actions -> [state : {"none", "open", "left", "closed"}, session : 0..MaxSessions]]
    BY <1>2, <1>3
  <2> QED BY <1>2, <1>5, <1>6, <1>7, <2>1, <2>2 DEF ProxyTypeOK
<1>9. LocksHeld
  BY <1>2, <1>5, <1>6, ThreadFacts DEF LocksHeld, Holding
<1>10. CallsFit
  BY <1>6 DEF CallsFit, Splitting
<1>11. RoomLeft
  <2>1. Created = 1..1
    BY <1>3, <1>5 DEF Created
  <2>2. Cardinality(1..1) = 1
    <3>1. 1..1 = {1}
      OBVIOUS
    <3> QED BY <3>1, FS_Singleton
  <2> QED BY <1>6, <2>1, <2>2 DEF RoomLeft, Splitting
<1>12. CurrentExists
  BY <1>1, <1>3, <1>5 DEF CurrentExists, Current, Created
<1>13. ChildrenKnown
  BY <1>1, <1>5, <1>6 DEF ChildrenKnown
<1>14. TriedIsReplaced /\ OneEnds
  BY <1>5, <1>6 DEF TriedIsReplaced, OneEnds, Ending
<1>15. OpenActions
  BY <1>2, <1>6 DEF OpenActions, Ending
<1>16. EndsAll
  BY <1>6 DEF EndsAll
<1>17. SplitOffIsWatched /\ WatchdogForgetsClosed /\ EndLeavesNothing
  BY <1>1, <1>2, <1>5 DEF SplitOffIsWatched, WatchdogForgetsClosed, EndLeavesNothing, Current
<1> QED BY <1>8, <1>9, <1>10, <1>11, <1>12, <1>13, <1>14, <1>15, <1>16, <1>17 DEF ProxyInv

(* The invariant holds at all times. *)
LEMMA ProxyInvariant == Spec => []ProxyInv
<1>1. ProxyInv /\ [Next]_proxyVars => ProxyInv'
  BY NextProxyInv
<1> QED BY <1>1, InitProxyInv, PTL DEF Spec

------------------------------------------------------------------------------
(***************************************************************************)
(* The locks of the proxy and of its sessions, which are taken in both     *)
(* orders, never form a cycle: for any number of threads and sessions.     *)
(***************************************************************************)
THEOREM LocksFormNoCycle == Spec => []NoLockCycle
<1>1. ProxyInv => NoLockCycle
  <2>1. SUFFICES ASSUME ProxyInv, NEW t \in Threads, NEW u \in Threads, th[t].pc = "tellHeld",
                        lock = u, th[u].pc \in {"tryEnd", "op"}, th[t].s = Current
                 PROVE  FALSE
    BY DEF NoLockCycle
  <2>2. th[t].s \in Sessions /\ ses[th[t].s].tried
    BY <2>1 DEF ProxyInv, CallsFit, TriedIsReplaced
  <2>3. PICK v \in Threads : th[v].pc \in {"enqueue", "create"}
    BY <2>1, <2>2 DEF ProxyInv, TriedIsReplaced
  <2>4. v = u
    BY <2>1, <2>3 DEF ProxyInv, LocksHeld, Holding
  <2> QED BY <2>1, <2>3, <2>4
<1> QED BY <1>1, ProxyInvariant, PTL

(***************************************************************************)
(* A session that was split off and is open has a child to leave, and the  *)
(* watchdog has it, is about to get it or is about to end it.              *)
(***************************************************************************)
THEOREM SplitOffIsNeverForgotten == Spec => []SplitOffIsWatched
<1>1. ProxyInv => SplitOffIsWatched
  BY DEF ProxyInv
<1> QED BY <1>1, ProxyInvariant, PTL

(***************************************************************************)
(* The watchdog queues no session that the proxy has let go.               *)
(***************************************************************************)
THEOREM OnlyKnownAreQueued == Spec => []WatchdogForgetsClosed
<1>1. ProxyInv => WatchdogForgetsClosed
  BY DEF ProxyInv
<1> QED BY <1>1, ProxyInvariant, PTL

(***************************************************************************)
(* No session is finished with an action or a tracer that still is open,   *)
(* whoever ends it: tryEnd, its last child or Session::end().              *)
(***************************************************************************)
THEOREM FinishedIsQuiet == Spec => []FinishedHasNoOpenAction
<1>1. ProxyInv => FinishedHasNoOpenAction
  BY DEF ProxyInv, OpenActions, FinishedHasNoOpenAction
<1> QED BY <1>1, ProxyInvariant, PTL

(***************************************************************************)
(* When end() of the proxy is over, no session is open and the watchdog    *)
(* has forgotten the proxy.                                                *)
(***************************************************************************)
THEOREM EndIsThorough == Spec => []EndLeavesNothing
<1>1. ProxyInv => EndLeavesNothing
  BY DEF ProxyInv
<1> QED BY <1>1, ProxyInvariant, PTL
==============================================================================
