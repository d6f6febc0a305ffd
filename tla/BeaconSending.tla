----------------------------- MODULE BeaconSending -----------------------------
(***************************************************************************)
(* The beacon sending thread (core/BeaconSender.cxx and the states of      *)
(* core/communication) with the sessions it serves.  The thread executes   *)
(* its current state over and over; application threads meanwhile create   *)
(* sessions, let them capture data, end them and request shutdown, and the *)
(* evictor throws records away.                                            *)
(*                                                                         *)
(* Of a session's beacon only two facts matter here: whether the cache     *)
(* holds records for it (data), and whether its entry's byte counter is    *)
(* above zero (counted), which is what isEmpty looks at.  BeaconCache      *)
(* models both in detail.  Time is abstracted: an interval has or has not  *)
(* expired, a sleep may end by timeout at any moment.                      *)
(***************************************************************************)
EXTENDS Lists

CONSTANTS Sessions,         \* the sessions that can be created
          MaxNewRequests,   \* MAX_NEW_SESSION_REQUESTS
          StatusRetries,    \* retries of a status request
          MaxLeaving,       \* bound on the actions being left at a time
          Eviction          \* TRUE: the evictor may remove cached records

ASSUME SendingAssumption == /\ MaxNewRequests \in Nat
                            /\ StatusRetries \in Nat
                            /\ MaxLeaving \in Nat
                            /\ Eviction \in BOOLEAN

VARIABLES
    mCurrentState,   \* the state being executed
    mSessions,       \* the queue of sessions to serve
    ses,             \* the sessions
    captureOn,       \* capture flag of the context's mServerConfiguration
    mShutdown,       \* shutdown has been requested
    mSignaled,       \* the thread suspender has been woken up, for good
    init,            \* the latch and the result of the initialisation
    bs               \* where the sending thread is, and its local variables

sendVars == <<mCurrentState, mSessions, ses, captureOn, mShutdown, mSignaled,
              init, bs>>

(***************************************************************************)
(* A server's answer: an error other than "too many requests", "too many   *)
(* requests", or success with capturing switched on or off.  "none" stands *)
(* for the null pointer of a request that was not made.                    *)
(***************************************************************************)
Responses == {"error", "tooMany", "on", "off"}

isSuccessfulResponse(r) == r \in {"on", "off"}

isTooManyRequestsResponse(r) == r = "tooMany"

States == {"Initial", "CaptureOn", "CaptureOff", "FlushSessions", "Terminal"}

NewSession == [life |-> "none", configured |-> FALSE, capturing |-> FALSE,
               remaining |-> MaxNewRequests, data |-> FALSE, counted |-> FALSE,
               leaving |-> FALSE, late |-> FALSE]

(***************************************************************************)
(* pc: the next step; cont: the steps to return to; todo: what is left of  *)
(* the list being iterated; response: the local statusResponse; last: the  *)
(* lastStatusResponse; retry: of sendStatusRequest; next: mNextState.      *)
(***************************************************************************)
Init ==
    /\ mCurrentState = "Initial"
    /\ mSessions = <<>>
    /\ ses = [s \in Sessions |-> NewSession]
    /\ captureOn = TRUE
    /\ mShutdown = FALSE
    /\ mSignaled = FALSE
    /\ init = [released |-> FALSE, succeeded |-> FALSE]
    /\ bs = [pc |-> "execute", cont |-> <<>>, todo |-> <<>>, response |-> "none",
             last |-> "none", retry |-> 0, next |-> "none"]

------------------------------------------------------------------------------
(* Application threads and the evictor. *)

appUnchanged == <<mCurrentState, captureOn, init, bs>>

(***************************************************************************)
(* createSession, or the session after a split.  A new one starts with the *)
(* context's configuration; a split one takes its proxy's over, which is   *)
(* older: a split by time as its initial configuration only, a split by    *)
(* events for good.  Beyond the capture flag, multiplicity and traffic     *)
(* control decide whether it captures.  No session is created any more     *)
(* when OpenKit's shutdown, which ends all proxies first, asks the sender. *)
(***************************************************************************)
CreateSession(s, kind, capturing) ==
    /\ ses[s].life = "none"
    /\ ~mShutdown
    /\ \/ kind = "new"
       \/ \E q \in Sessions : ses[q].life # "none"
    /\ capturing => captureOn \/ kind # "new"
    /\ ses' = [ses EXCEPT ![s].life = "open", ![s].configured = (kind = "byEvents"),
                          ![s].capturing = capturing]
    /\ mSessions' = Append(mSessions, s)
    /\ UNCHANGED <<appUnchanged, mShutdown, mSignaled>>

Captured(x) == [x EXCEPT !.data = TRUE, !.counted = TRUE]

(* A record for an open session, captured if the beacon's configuration agrees. *)
Capture(s) ==
    /\ ses[s].life \in {"open", "finishing"}
    /\ ses[s].capturing
    /\ ses' = [ses EXCEPT ![s] = Captured(@)]
    /\ UNCHANGED <<appUnchanged, mSessions, mShutdown, mSignaled>>

(***************************************************************************)
(* leaveAction marks the action as left, and only later adds its record;   *)
(* in between the session may be ended by someone else.                    *)
(***************************************************************************)
LeaveBegin(s) ==
    /\ ses[s].life = "open"
    /\ ~ses[s].leaving
    /\ Cardinality({q \in Sessions : ses[q].leaving}) < MaxLeaving
    /\ ses' = [ses EXCEPT ![s].leaving = TRUE]
    /\ UNCHANGED <<appUnchanged, mSessions, mShutdown, mSignaled>>

LeaveEnd(s) ==
    /\ ses[s].leaving
    /\ ses' = [ses EXCEPT ![s] =
                 [(IF ses[s].capturing THEN Captured(ses[s]) ELSE ses[s]) EXCEPT
                    !.leaving = FALSE,
                    !.late = @ \/ (ses[s].capturing /\ ses[s].life = "finished")]]
    /\ UNCHANGED <<appUnchanged, mSessions, mShutdown, mSignaled>>

(* Session::end(bool), up to markAsIsFinishing. *)
EndBegin(s) ==
    /\ ses[s].life = "open"
    /\ ses' = [ses EXCEPT ![s].life = "finishing"]
    /\ UNCHANGED <<appUnchanged, mSessions, mShutdown, mSignaled>>

(* The end event, if asked for, and markAsFinished. *)
EndFinish(s, sendSessionEndEvent) ==
    /\ ses[s].life = "finishing"
    /\ ses' = [ses EXCEPT ![s] =
                 [(IF sendSessionEndEvent /\ @.capturing THEN Captured(@) ELSE @)
                    EXCEPT !.life = "finished"]]
    /\ UNCHANGED <<appUnchanged, mSessions, mShutdown, mSignaled>>

(* requestShutdown raises the flag, then wakes the sending thread up. *)
requestShutdown ==
    /\ ~mShutdown
    /\ mShutdown' = TRUE
    /\ UNCHANGED <<appUnchanged, mSessions, ses, mSignaled>>

wakeup ==
    /\ mShutdown
    /\ ~mSignaled
    /\ mSignaled' = TRUE
    /\ UNCHANGED <<appUnchanged, mSessions, ses, mShutdown>>

(* The last cached record of a session is evicted; the counter stays. *)
EvictRecords(s) ==
    /\ Eviction
    /\ ses[s].data
    /\ ses' = [ses EXCEPT ![s].data = FALSE]
    /\ UNCHANGED <<appUnchanged, mSessions, mShutdown, mSignaled>>

------------------------------------------------------------------------------
(* What the sending thread's steps are made of. *)

sharedUnchanged == <<mCurrentState, mSessions, ses, captureOn, init>>

appOnly == <<mShutdown, mSignaled>>

Goto(pc) == bs' = [bs EXCEPT !.pc = pc]

Return == bs' = [bs EXCEPT !.pc = Head(bs.cont), !.cont = Tail(bs.cont)]

Cleared(x) == [x EXCEPT !.data = FALSE, !.counted = FALSE]

(* The sessions of S in the order of the queue: a snapshot to iterate over. *)
Queued(S) == Erase(mSessions, Sessions \ S)

IsQueued(s) == \E i \in DOMAIN mSessions : mSessions[i] = s

NotConfigured == {s \in Sessions : ~ses[s].configured}

ConfiguredAndOpen == {s \in Sessions : ses[s].configured /\ ses[s].life # "finished"}

ConfiguredAndFinished == {s \in Sessions : ses[s].configured /\ ses[s].life = "finished"}

(* The thread suspender's sleep ends by timeout, or at once when signaled. *)
SleepTimeout ==
    /\ bs.pc = "sleep"
    /\ Return
    /\ UNCHANGED <<sharedUnchanged, appOnly>>

SleepInterrupted ==
    /\ bs.pc = "sleep"
    /\ mSignaled
    /\ Return
    /\ UNCHANGED <<sharedUnchanged, appOnly>>

(* clearAllSessionData: the beacon's data of the next session ... *)
ClearData ==
    /\ bs.pc = "clear"
    /\ IF bs.todo = <<>>
       THEN Return /\ UNCHANGED ses
       ELSE /\ ses' = [ses EXCEPT ![Head(bs.todo)] = Cleared(@)]
            /\ Goto("clearRemove")
    /\ UNCHANGED <<mCurrentState, mSessions, captureOn, init, appOnly>>

(* Mutant: sessions are removed from the queue without being asked. *)
ClearRemove_Any ==
    /\ bs.pc = "clearRemove"
    /\ mSessions' = Erase(mSessions, {Head(bs.todo)})
    /\ bs' = [bs EXCEPT !.pc = "clear", !.todo = Tail(@)]
    /\ UNCHANGED <<mCurrentState, ses, captureOn, init, appOnly>>

(* ... and if it is finished its place in the queue. *)
ClearRemove ==
    /\ bs.pc = "clearRemove"
    /\ mSessions' = IF ses[Head(bs.todo)].life = "finished"
                    THEN Erase(mSessions, {Head(bs.todo)}) ELSE mSessions
    /\ bs' = [bs EXCEPT !.pc = "clear", !.todo = Tail(@)]
    /\ UNCHANGED <<mCurrentState, ses, captureOn, init, appOnly>>

(* Start clearAllSessionData, to go on with `cont' afterwards. *)
ClearAll(cont) ==
    bs' = [bs EXCEPT !.pc = "clear", !.todo = mSessions, !.cont = cont]

(***************************************************************************)
(* The context's handleStatusResponse: an error switches capturing off and *)
(* clears all data, a success is merged into the configuration.  Of the    *)
(* answers only the one handled is still needed afterwards.                *)
(***************************************************************************)
HandleStatusResponse(r, cont) ==
    /\ captureOn' = (r = "on")
    /\ bs' = IF r = "on"
             THEN [bs EXCEPT !.pc = Head(cont), !.cont = Tail(cont),
                             !.response = r, !.last = "none"]
             ELSE [bs EXCEPT !.pc = "clear", !.todo = mSessions, !.cont = cont,
                             !.response = r, !.last = "none"]
    /\ UNCHANGED <<mCurrentState, mSessions, ses, init, appOnly>>

(* sendStatusRequest: retried unless it succeeds, is refused, or shutdown. *)
StatusRequest ==
    /\ bs.pc = "request"
    /\ ~mShutdown
    /\ \E r \in Responses :
          IF \/ isSuccessfulResponse(r)
             \/ isTooManyRequestsResponse(r)
             \/ bs.retry >= StatusRetries
          THEN bs' = [bs EXCEPT !.pc = "requested", !.response = r]
          ELSE bs' = [bs EXCEPT !.pc = "sleep", !.response = r, !.retry = @ + 1,
                                !.cont = <<"request">>]
    /\ UNCHANGED <<sharedUnchanged, appOnly>>

StatusRequestAborted ==
    /\ bs.pc = "request"
    /\ mShutdown
    /\ Goto("requested")
    /\ UNCHANGED <<sharedUnchanged, appOnly>>

StartRequest == bs' = [bs EXCEPT !.pc = "request", !.response = "none", !.retry = 0]

(***************************************************************************)
(* Beacon::send for the session at the head of todo: what is cached is     *)
(* taken out for sending; without data there is no request and no answer.  *)
(***************************************************************************)
SendBeacon ==
    /\ bs.pc = "send"
    /\ IF ses[Head(bs.todo)].data
       THEN /\ ses' = [ses EXCEPT ![Head(bs.todo)] = Cleared(@)]
            /\ Goto("sending")
       ELSE /\ bs' = [bs EXCEPT !.pc = Head(bs.cont), !.cont = Tail(bs.cont),
                                !.response = "none"]
            /\ UNCHANGED ses
    /\ UNCHANGED <<mCurrentState, mSessions, captureOn, init, appOnly>>

(* The answer to the last chunk; after an error the data goes back. *)
BeaconResponse(s, r) ==
    /\ bs.pc = "sending"
    /\ s = Head(bs.todo)
    /\ ses' = IF isSuccessfulResponse(r) THEN ses
              ELSE [ses EXCEPT ![s] = Captured(@)]
    /\ bs' = [bs EXCEPT !.pc = Head(bs.cont), !.cont = Tail(bs.cont), !.response = r]
    /\ UNCHANGED <<mCurrentState, mSessions, captureOn, init, appOnly>>

CallSend(after) == bs' = [bs EXCEPT !.pc = "send", !.cont = <<after>>]

NextSession(pc) == bs' = [bs EXCEPT !.pc = pc, !.todo = Tail(@)]

(* Set the next state and leave doExecute: its local variables are gone. *)
LeaveFor(state) ==
    bs' = [pc |-> "executed", cont |-> <<>>, todo |-> <<>>, response |-> "none",
           last |-> "none", retry |-> 0, next |-> state]

(* Leave doExecute with the next state as it was set, if it was. *)
Leave == LeaveFor(bs.next)

------------------------------------------------------------------------------
(* BeaconSendingInitialState *)

(* Mutant: the loop does not look at the shutdown flag. *)
InitialLoop_IgnoresShutdown ==
    /\ mCurrentState = "Initial"
    /\ bs.pc = "execute"
    /\ StartRequest
    /\ UNCHANGED <<sharedUnchanged, appOnly>>

(* The loop of executeStatusRequest. *)
InitialLoop ==
    /\ mCurrentState = "Initial"
    /\ bs.pc = "execute"
    /\ IF mShutdown THEN Goto("initialized") ELSE StartRequest
    /\ UNCHANGED <<sharedUnchanged, appOnly>>

(* Its body after the request: done, or sleep and try again. *)
InitialRequested ==
    /\ mCurrentState = "Initial"
    /\ bs.pc = "requested"
    /\ IF isSuccessfulResponse(bs.response)
       THEN Goto("initialized") /\ UNCHANGED captureOn
       ELSE IF isTooManyRequestsResponse(bs.response)
       THEN captureOn' = FALSE /\ ClearAll(<<"sleep", "execute">>)
       ELSE /\ bs' = [bs EXCEPT !.pc = "sleep", !.cont = <<"execute">>]
            /\ UNCHANGED captureOn
    /\ UNCHANGED <<mCurrentState, mSessions, ses, init, appOnly>>

(* doExecute after the loop: shutdown was requested ... *)
InitialAborted ==
    /\ bs.pc = "initialized"
    /\ mShutdown
    /\ init' = [released |-> TRUE, succeeded |-> FALSE]
    /\ Leave
    /\ UNCHANGED <<mCurrentState, mSessions, ses, captureOn, appOnly>>

(* ... or there is an answer to handle. *)
InitialAnswered ==
    /\ bs.pc = "initialized"
    /\ ~mShutdown
    /\ HandleStatusResponse(bs.response, <<"handled">>)

InitialCompleted ==
    /\ mCurrentState = "Initial"
    /\ bs.pc = "handled"
    /\ LeaveFor(IF captureOn THEN "CaptureOn" ELSE "CaptureOff")
    /\ init' = [released |-> TRUE, succeeded |-> TRUE]
    /\ UNCHANGED <<mCurrentState, mSessions, ses, captureOn, appOnly>>

------------------------------------------------------------------------------
(* BeaconSendingCaptureOnState *)

CaptureOnSleep ==
    /\ mCurrentState = "CaptureOn"
    /\ bs.pc = "execute"
    /\ bs' = [bs EXCEPT !.pc = "sleep", !.cont = <<"awake">>]
    /\ UNCHANGED <<sharedUnchanged, appOnly>>

CaptureOnAwake ==
    /\ mCurrentState = "CaptureOn"
    /\ bs.pc = "awake"
    /\ bs' = IF mShutdown THEN [bs EXCEPT !.pc = "executed"]
             ELSE [bs EXCEPT !.pc = "new", !.todo = Queued(NotConfigured),
                             !.response = "none", !.last = "none"]
    /\ UNCHANGED <<sharedUnchanged, appOnly>>

canSendNewSessionRequest(s) == ses[s].remaining > 0

(* sendNewSessionRequests: this session has used up its requests ... *)
GiveUpNewSession ==
    /\ bs.pc = "new"
    /\ bs.todo # <<>>
    /\ ~canSendNewSessionRequest(Head(bs.todo))
    /\ ses' = [ses EXCEPT ![Head(bs.todo)].configured = TRUE,
                          ![Head(bs.todo)].capturing = FALSE]
    /\ NextSession("new")
    /\ UNCHANGED <<mCurrentState, mSessions, captureOn, init, appOnly>>

(***************************************************************************)
(* ... or the request is sent.  A success configures the session.  Whether *)
(* it then captures is for the session's own configuration to say: traffic *)
(* control may be against it when capturing is on, and an answer for some  *)
(* other application turns the context's flag off, not the session's.      *)
(***************************************************************************)
SendNewSessionRequest(r, capturing) ==
    LET s == Head(bs.todo)
    IN /\ bs.pc = "new"
       /\ bs.todo # <<>>
       /\ canSendNewSessionRequest(s)
       /\ bs' = [bs EXCEPT !.response = r,
                           !.todo = IF isTooManyRequestsResponse(r) THEN <<>> ELSE Tail(@)]
       /\ captureOn' = IF isSuccessfulResponse(r) THEN r = "on" ELSE captureOn
       /\ ses' = IF isSuccessfulResponse(r)
                 THEN [ses EXCEPT ![s].configured = TRUE, ![s].capturing = capturing]
                 ELSE IF isTooManyRequestsResponse(r) THEN ses
                 ELSE [ses EXCEPT ![s].remaining = @ - 1]
       /\ UNCHANGED <<mCurrentState, mSessions, init, appOnly>>

NewSessionsDone ==
    /\ bs.pc = "new"
    /\ bs.todo = <<>>
    /\ IF isTooManyRequestsResponse(bs.response)
       THEN LeaveFor("CaptureOff")
       ELSE bs' = [bs EXCEPT !.pc = "finished", !.todo = Queued(ConfiguredAndFinished),
                             !.last = bs.response, !.response = "none"]
    /\ UNCHANGED <<sharedUnchanged, appOnly>>

(* sendFinishedSessions: send the next session, if that is allowed. *)
FinishedSession ==
    /\ bs.pc = "finished"
    /\ bs.todo # <<>>
    /\ IF ses[Head(bs.todo)].capturing
       THEN CallSend("finishedSent") ELSE Goto("finishedRemove")
    /\ UNCHANGED <<sharedUnchanged, appOnly>>

(* Mutant: a session that could not be sent is removed nevertheless. *)
FinishedSent_Removed ==
    /\ bs.pc = "finishedSent"
    /\ IF isTooManyRequestsResponse(bs.response)
       THEN bs' = [bs EXCEPT !.pc = "finished", !.todo = <<>>]
       ELSE Goto("finishedRemove")
    /\ UNCHANGED <<sharedUnchanged, appOnly>>

(* Mutant: a session with nothing to send counts as not sent. *)
FinishedSent_NotEmpty ==
    /\ bs.pc = "finishedSent"
    /\ IF ~isSuccessfulResponse(bs.response)
       THEN bs' = [bs EXCEPT !.pc = "finished", !.todo = <<>>]
       ELSE Goto("finishedRemove")
    /\ UNCHANGED <<sharedUnchanged, appOnly>>

(* It did not work and there is data left: break, and retry later. *)
FinishedSent ==
    /\ bs.pc = "finishedSent"
    /\ IF /\ ~isSuccessfulResponse(bs.response)
          /\ \/ isTooManyRequestsResponse(bs.response)
             \/ ses[Head(bs.todo)].counted
       THEN bs' = [bs EXCEPT !.pc = "finished", !.todo = <<>>]
       ELSE Goto("finishedRemove")
    /\ UNCHANGED <<sharedUnchanged, appOnly>>

(* removeSession and clearCapturedData. *)
FinishedRemove ==
    /\ bs.pc = "finishedRemove"
    /\ mSessions' = Erase(mSessions, {Head(bs.todo)})
    /\ ses' = [ses EXCEPT ![Head(bs.todo)] = Cleared(@)]
    /\ NextSession("finished")
    /\ UNCHANGED <<mCurrentState, captureOn, init, appOnly>>

Latest == IF bs.response = "none" THEN bs.last ELSE bs.response

(* The finished sessions are done; the open ones are due, or not yet. *)
FinishedSessionsDone(due) ==
    /\ bs.pc = "finished"
    /\ bs.todo = <<>>
    /\ IF isTooManyRequestsResponse(bs.response)
       THEN LeaveFor("CaptureOff")
       ELSE bs' = [bs EXCEPT !.pc = "open", !.last = Latest, !.response = "none",
                             !.todo = IF due THEN Queued(ConfiguredAndOpen) ELSE <<>>]
    /\ UNCHANGED <<sharedUnchanged, appOnly>>

(* sendOpenSessions: the next session is sent, or its data dropped. *)
OpenSession ==
    /\ bs.pc = "open"
    /\ bs.todo # <<>>
    /\ IF ses[Head(bs.todo)].capturing
       THEN CallSend("openSent") /\ UNCHANGED ses
       ELSE /\ ses' = [ses EXCEPT ![Head(bs.todo)] = Cleared(@)]
            /\ NextSession("open")
    /\ UNCHANGED <<mCurrentState, mSessions, captureOn, init, appOnly>>

OpenSent ==
    /\ bs.pc = "openSent"
    /\ IF isTooManyRequestsResponse(bs.response)
       THEN bs' = [bs EXCEPT !.pc = "open", !.todo = <<>>]
       ELSE NextSession("open")
    /\ UNCHANGED <<sharedUnchanged, appOnly>>

(* All is sent: handle the last answer, if there was any. *)
OpenSessionsDone ==
    /\ bs.pc = "open"
    /\ bs.todo = <<>>
    /\ IF isTooManyRequestsResponse(bs.response)
       THEN LeaveFor("CaptureOff") /\ UNCHANGED <<sharedUnchanged, appOnly>>
       ELSE IF Latest = "none"
       THEN Leave /\ UNCHANGED <<sharedUnchanged, appOnly>>
       ELSE HandleStatusResponse(Latest, <<"handled">>)

CaptureOnHandled ==
    /\ mCurrentState = "CaptureOn"
    /\ bs.pc = "handled"
    /\ IF captureOn THEN Leave ELSE LeaveFor("CaptureOff")
    /\ UNCHANGED <<sharedUnchanged, appOnly>>

------------------------------------------------------------------------------
(* BeaconSendingCaptureOffState *)

(* disableCaptureAndClear, before anything else. *)
CaptureOffClear ==
    /\ mCurrentState = "CaptureOff"
    /\ bs.pc = "execute"
    /\ captureOn' = FALSE
    /\ ClearAll(<<"cleared">>)
    /\ UNCHANGED <<mCurrentState, mSessions, ses, init, appOnly>>

(* Sleep if the next status check lies ahead, unless shutdown is requested. *)
CaptureOffSleep(ahead) ==
    /\ bs.pc = "cleared"
    /\ IF ahead /\ ~mShutdown
       THEN bs' = [bs EXCEPT !.pc = "sleep", !.cont = <<"awake">>]
       ELSE StartRequest
    /\ UNCHANGED <<sharedUnchanged, appOnly>>

CaptureOffAwake ==
    /\ mCurrentState = "CaptureOff"
    /\ bs.pc = "awake"
    /\ IF mShutdown THEN Leave ELSE StartRequest
    /\ UNCHANGED <<sharedUnchanged, appOnly>>

CaptureOffRequested ==
    /\ mCurrentState = "CaptureOff"
    /\ bs.pc = "requested"
    /\ IF bs.response = "none"
       THEN Goto("handled") /\ UNCHANGED <<sharedUnchanged, appOnly>>
       ELSE HandleStatusResponse(bs.response, <<"handled">>)

(* Back to CaptureOn only if the server said so; else stay. *)
CaptureOffHandled ==
    /\ mCurrentState = "CaptureOff"
    /\ bs.pc = "handled"
    /\ IF isSuccessfulResponse(bs.response) /\ captureOn
       THEN LeaveFor("CaptureOn") ELSE Leave
    /\ UNCHANGED <<sharedUnchanged, appOnly>>

------------------------------------------------------------------------------
(* BeaconSendingFlushSessionsState *)

FlushBegin ==
    /\ mCurrentState = "FlushSessions"
    /\ bs.pc = "execute"
    /\ bs' = [bs EXCEPT !.pc = "flushNew", !.todo = Queued(NotConfigured),
                        !.response = "none", !.last = "none"]
    /\ UNCHANGED <<mCurrentState, mSessions, ses, captureOn, init, appOnly>>

(* enableCapture; multiplicity and traffic control still have their say. *)
FlushNewSession(capturing) ==
    /\ bs.pc = "flushNew"
    /\ bs.todo # <<>>
    /\ ses' = [ses EXCEPT ![Head(bs.todo)].configured = TRUE,
                          ![Head(bs.todo)].capturing = capturing]
    /\ NextSession("flushNew")
    /\ UNCHANGED <<mCurrentState, mSessions, captureOn, init, appOnly>>

FlushNewDone ==
    /\ bs.pc = "flushNew"
    /\ bs.todo = <<>>
    /\ bs' = [bs EXCEPT !.pc = "flushOpen", !.todo = Queued(ConfiguredAndOpen)]
    /\ UNCHANGED <<sharedUnchanged, appOnly>>

(***************************************************************************)
(* end(false): the actions still open are left, each adding its record.    *)
(* It returns at once for a session that someone else is ending.           *)
(***************************************************************************)
FlushOpenSession(leaves) ==
    LET s == Head(bs.todo)
    IN /\ bs.pc = "flushOpen"
       /\ bs.todo # <<>>
       /\ ses' = IF ses[s].life # "open" THEN ses
                 ELSE [ses EXCEPT ![s] =
                        [(IF leaves /\ @.capturing THEN Captured(@) ELSE @)
                           EXCEPT !.life = "finished"]]
       /\ NextSession("flushOpen")
       /\ UNCHANGED <<mCurrentState, mSessions, captureOn, init, appOnly>>

FlushOpenDone ==
    /\ bs.pc = "flushOpen"
    /\ bs.todo = <<>>
    /\ bs' = [bs EXCEPT !.pc = "flush", !.todo = Queued(ConfiguredAndFinished)]
    /\ UNCHANGED <<sharedUnchanged, appOnly>>

(* bs.last remembers a "too many requests": nothing is sent any more. *)
FlushSession ==
    /\ bs.pc = "flush"
    /\ bs.todo # <<>>
    /\ IF ~isTooManyRequestsResponse(bs.last) /\ ses[Head(bs.todo)].capturing
       THEN CallSend("flushSent") ELSE Goto("flushRemove")
    /\ UNCHANGED <<sharedUnchanged, appOnly>>

FlushSent ==
    /\ bs.pc = "flushSent"
    /\ bs' = [bs EXCEPT !.pc = "flushRemove", !.last = bs.response]
    /\ UNCHANGED <<sharedUnchanged, appOnly>>

FlushRemove ==
    /\ bs.pc = "flushRemove"
    /\ ses' = [ses EXCEPT ![Head(bs.todo)] = Cleared(@)]
    /\ mSessions' = Erase(mSessions, {Head(bs.todo)})
    /\ NextSession("flush")
    /\ UNCHANGED <<mCurrentState, captureOn, init, appOnly>>

FlushDone ==
    /\ bs.pc = "flush"
    /\ bs.todo = <<>>
    /\ LeaveFor("Terminal")
    /\ UNCHANGED <<sharedUnchanged, appOnly>>

------------------------------------------------------------------------------
getShutdownState(state) ==
    IF state \in {"CaptureOn", "CaptureOff"} THEN "FlushSessions" ELSE "Terminal"

(***************************************************************************)
(* The end of execute and of executeCurrentState; the thread ends when the *)
(* new state is Terminal.                                                  *)
(***************************************************************************)
Executed ==
    LET next == IF mShutdown THEN getShutdownState(mCurrentState)
                ELSE IF bs.next = "none" THEN mCurrentState ELSE bs.next
    IN /\ bs.pc = "executed"
       /\ mCurrentState' = next
       /\ bs' = [pc |-> IF next = "Terminal" THEN "stopped" ELSE "execute",
                 cont |-> <<>>, todo |-> <<>>, response |-> "none",
                 last |-> "none", retry |-> 0, next |-> "none"]
       /\ UNCHANGED <<mSessions, ses, captureOn, init, appOnly>>

SendBeaconStep == SendBeacon \/ \E s \in Sessions, r \in Responses : BeaconResponse(s, r)

InitialStep == \/ InitialLoop \/ InitialRequested \/ InitialAborted
               \/ InitialAnswered \/ InitialCompleted

CaptureOnStep ==
    \/ CaptureOnSleep \/ CaptureOnAwake
    \/ GiveUpNewSession \/ NewSessionsDone
    \/ \E r \in Responses, c \in BOOLEAN : SendNewSessionRequest(r, c)
    \/ FinishedSession \/ FinishedSent \/ FinishedRemove
    \/ \E due \in BOOLEAN : FinishedSessionsDone(due)
    \/ OpenSession \/ OpenSent \/ OpenSessionsDone
    \/ CaptureOnHandled

CaptureOffStep ==
    \/ CaptureOffClear \/ CaptureOffAwake
    \/ \E ahead \in BOOLEAN : CaptureOffSleep(ahead)
    \/ CaptureOffRequested \/ CaptureOffHandled

FlushStep ==
    \/ FlushBegin \/ FlushNewDone \/ FlushOpenDone
    \/ \E c \in BOOLEAN : FlushNewSession(c) \/ FlushOpenSession(c)
    \/ FlushSession \/ FlushSent \/ FlushRemove \/ FlushDone

(* The sending thread, except that it may also sleep a sleep out. *)
SenderStep ==
    \/ SleepInterrupted \/ ClearData \/ ClearRemove
    \/ StatusRequest \/ StatusRequestAborted \/ SendBeaconStep
    \/ InitialStep \/ CaptureOnStep \/ CaptureOffStep \/ FlushStep
    \/ Executed

AppStep ==
    \/ requestShutdown
    \/ wakeup
    \/ \E s \in Sessions :
          \/ \E kind \in {"new", "byTime", "byEvents"}, c \in BOOLEAN :
                CreateSession(s, kind, c)
          \/ Capture(s)
          \/ LeaveBegin(s)
          \/ LeaveEnd(s)
          \/ EndBegin(s)
          \/ \E event \in BOOLEAN : EndFinish(s, event)
          \/ EvictRecords(s)

Next == AppStep \/ SleepTimeout \/ SenderStep

Spec == Init /\ [][Next]_sendVars

(***************************************************************************)
(* The thread runs whenever it is not asleep, every request is answered in *)
(* the end, and requestShutdown goes on to the wakeup.  No sleep need ever *)
(* be slept out.                                                           *)
(***************************************************************************)
FairSpec == Spec /\ WF_sendVars(SenderStep) /\ WF_sendVars(wakeup)

(***************************************************************************)
(* In addition sleeps do end before shutdown is requested, and a server    *)
(* that is asked again and again for the status, or sent the data of one   *)
(* session again and again, will accept it sometime.                       *)
(***************************************************************************)
StatusAccepted == StatusRequest /\ isSuccessfulResponse(bs'.response)

BeaconAccepted(s) == \E r \in {"on", "off"} : BeaconResponse(s, r)

ResponsiveSpec ==
    /\ FairSpec
    /\ WF_sendVars(SleepTimeout /\ ~mShutdown)
    /\ SF_sendVars(StatusAccepted)
    /\ \A s \in Sessions : SF_sendVars(BeaconAccepted(s))

------------------------------------------------------------------------------
(***************************************************************************)
(* A session leaves the queue only when it is finished: what an open one   *)
(* captures afterwards would never be sent.                                *)
(***************************************************************************)
OnlyFinishedLeave ==
    [][\A s \in Sessions :
         IsQueued(s) /\ ~IsQueued(s)' => ses[s].life = "finished"]_sendVars

(***************************************************************************)
(* The sending thread throws away data that has not been sent only if      *)
(* capturing is off, for everyone or for that session, or in the final     *)
(* flush; or if it came late, added to a session already finished.         *)
(***************************************************************************)
DroppedOnlyWhenOff ==
    [][\A s \in Sessions :
         /\ bs' # bs
         /\ bs.pc # "send"
         /\ ses[s].data /\ ~ses'[s].data
         => \/ ~captureOn
            \/ ~ses[s].capturing
            \/ mCurrentState = "FlushSessions"
            \/ ses[s].late]_sendVars

(* Shutdown ends the thread without waiting for a sleep to end. *)
ShutdownTerminates == mShutdown ~> bs.pc = "stopped"

(***************************************************************************)
(* A session whose records were all evicted, but not its byte counter:     *)
(* there is nothing to send, and it does not pass for empty either.        *)
(***************************************************************************)
Stuck(s) == ses[s].counted /\ ~ses[s].data

(***************************************************************************)
(* No finished session stays in the queue for ever, unless the thread ends *)
(* or the session is stuck.  Whether its data were sent by then is not     *)
(* said here: DroppedOnlyWhenOff bounds when they are thrown away instead. *)
(***************************************************************************)
FinishedSessionsLeave ==
    \A s \in Sessions :
        IsQueued(s) /\ ses[s].life = "finished"
          ~> ~IsQueued(s) \/ Stuck(s) \/ bs.pc = "stopped"

==============================================================================
