-------------------------------- MODULE Actions --------------------------------
(***************************************************************************)
(* One session with its actions and web request tracers, used by several   *)
(* threads, and the beacon they report to.  An object is left in several   *)
(* steps, and leaving it closes its children: a thread has a stack of the  *)
(* objects it is leaving.  Other threads may leave the same objects, open  *)
(* new ones and report values in between.                                  *)
(***************************************************************************)
EXTENDS Beacon, Lists, SequencesExt

CONSTANTS Threads,
          MaxActions, MaxTracers, \* how many actions and tracers there are at most
          Bounds,                 \* bounds of a behaviour, see below
          Privacies,              \* privacy settings
          ServerConfigurations,   \* configurations the server may send
          UserAttributes,         \* attributes the application gives an event
          ByteCounts              \* numbers of bytes, as int64_t

ASSUME ActionsAssumption ==
    /\ MaxActions \in Nat /\ MaxTracers \in Nat
    /\ Bounds \subseteq [actions : 0..MaxActions, tracers : 0..MaxTracers, reports : Nat,
                        privacy : Privacies, configurations : SUBSET ServerConfigurations]
    /\ \A p \in Privacies : p.level \in DataCollectionLevel /\ p.crashes \in CrashReportingLevel
    /\ \A a \in UserAttributes : \A k \in DOMAIN a : a[k] \in {User, NonFinite}

VARIABLES beacon,
          obj,       \* the session, its actions and its tracers
          tried,     \* mWasTriedForEnding
          stack,     \* what each thread is doing
          reports,   \* how many reports there were
          wasOff,    \* capturing has been off at some time
          bound      \* of this behaviour: how many actions, tracers and reports, its
                     \* privacy setting and the configurations the server may send

vars == <<beacon, obj, tried, stack, reports, wasOff, bound>>

Session == 0
Actions == 1..MaxActions
Tracers == MaxActions + 1..MaxActions + MaxTracers
Objects == {Session} \cup Actions \cup Tracers

(***************************************************************************)
(* state: "left" is an action whose mIsActionLeft is set, a tracer with an *)
(* end time, a session that is finishing; "closed" is one that has told    *)
(* its parent, a session that is finished.                                 *)
(***************************************************************************)
NoObject == [state |-> "none", parent |-> Session, mChildren |-> <<>>, id |-> 0,
             parentID |-> 0, start |-> 0, end |-> 0, cancelled |-> FALSE, tag |-> <<>>,
             bytesSent |-> -1, bytesReceived |-> -1, responseCode |-> -1]

(* A call under way.  holds: it holds the mutex of its object. *)
Frame(pc, o) == [pc |-> pc, o |-> o, discard |-> FALSE, event |-> FALSE, holds |-> FALSE,
                 todo |-> <<>>, record |-> NoRecord]

Init ==
    /\ bound \in Bounds
    /\ LET new == NewBeacon(bound.privacy, defaultInstance, "device",
                            [number |-> 7, sequence |-> 1], 50)
           started == startSession(new, Session)
       IN beacon = addEventData(started.beacon, started.record)
    /\ obj = [o \in Objects |-> IF o = Session THEN [NoObject EXCEPT !.state = "open"]
                                ELSE NoObject]
    /\ tried = FALSE /\ reports = 0
    /\ stack = [t \in Threads |-> <<>>]
    /\ wasOff = ~isDataCapturingEnabled(beacon)

Idle(t) == stack[t] = <<>>
Top(t) == Last(stack[t])
Replace(t, frame) == [stack EXCEPT ![t] = Append(Front(@), frame)]
Goto(t, pc) == stack' = Replace(t, [Top(t) EXCEPT !.pc = pc])
At(t, pc) == ~Idle(t) /\ Top(t).pc = pc

(* Mutant: a mutex that its own holder cannot take again. *)
Locked_NotRecursive(t, o) == \E u \in Threads : \E i \in DOMAIN stack[u] :
                                stack[u][i].o = o /\ stack[u][i].holds

(* Another thread holds the mutex of o. *)
Locked(t, o) == \E u \in Threads \ {t} : \E i \in DOMAIN stack[u] :
                    stack[u][i].o = o /\ stack[u][i].holds

Open(o) == obj[o].state = "open"
UnusedActions == {a \in 1..bound.actions : obj[a].state = "none"}
UnusedTracers == {w \in MaxActions + 1..MaxActions + bound.tracers : obj[w].state = "none"}

-------------------------------------------------------------------------------
(* New objects.  A call that finds its parent left returns a null object. *)

(* Mutant: children are added to a session that is finishing. *)
NewChild_UntilFinished(t, parent, child, new) ==
    /\ Idle(t) /\ ~Locked(t, parent)
    /\ Open(parent) \/ (parent = Session /\ obj[parent].state = "left")
    /\ obj' = [obj EXCEPT ![child] = new, ![parent].mChildren = Append(@, child)]
    /\ UNCHANGED <<tried, stack, reports, wasOff, bound>>

NewChild(t, parent, child, new) ==
    /\ Idle(t) /\ ~Locked(t, parent) /\ Open(parent)
    /\ obj' = [obj EXCEPT ![child] = new, ![parent].mChildren = Append(@, child)]
    /\ UNCHANGED <<tried, stack, reports, wasOff, bound>>

ActionCommonImpl(parent) ==
    [NoObject EXCEPT !.state = "open", !.parent = parent, !.parentID = obj[parent].id,
                     !.start = createSequenceNumber(beacon), !.id = createID(beacon)]

(* enterAction of the session and of a root action: leaf actions have none. *)
enterAction(t, parent) ==
    /\ obj[parent].parent = Session
    /\ UnusedActions # {}
    /\ NewChild(t, parent, Min(UnusedActions), ActionCommonImpl(parent))
    /\ beacon' = [beacon EXCEPT !.mSequenceNumber = createSequenceNumber(beacon),
                                !.mID = createID(beacon)]

WebRequestTracer(parent) ==
    [NoObject EXCEPT !.state = "open", !.parent = parent, !.parentID = obj[parent].id,
                     !.start = createSequenceNumber(beacon),
                     !.tag = createTag(beacon, obj[parent].id, createSequenceNumber(beacon))]

traceWebRequest(t, parent) ==
    /\ UnusedTracers # {}
    /\ NewChild(t, parent, Min(UnusedTracers), WebRequestTracer(parent))
    /\ beacon' = [beacon EXCEPT !.mSequenceNumber = createSequenceNumber(beacon)]

setBytes(t, w, field, n) ==
    /\ Idle(t) /\ Open(w) /\ reports < bound.reports
    /\ obj' = [obj EXCEPT ![w][field] = n]
    /\ reports' = reports + 1
    /\ UNCHANGED <<beacon, tried, stack, wasOff, bound>>

-------------------------------------------------------------------------------
(* Reports: the object's mutex is held until the record is added. *)

Report(t, o, built) ==
    /\ Idle(t) /\ ~Locked(t, o) /\ Open(o) /\ reports < bound.reports
    /\ beacon' = built.beacon
    /\ reports' = reports + 1
    /\ stack' = IF built.record = NoRecord THEN stack
                ELSE [stack EXCEPT ![t] = <<[Frame("addReport", o) EXCEPT
                                               !.holds = TRUE, !.record = built.record]>>]
    /\ UNCHANGED <<obj, tried, wasOff, bound>>

ActionReport(t, a) ==
    \/ Report(t, a, reportEvent(beacon, a, obj[a].id))
    \/ Report(t, a, reportIntValue(beacon, a, obj[a].id))
    \/ Report(t, a, reportDoubleValue(beacon, a, obj[a].id))
    \/ Report(t, a, reportStringValue(beacon, a, obj[a].id))
    \/ Report(t, a, reportErrorCode(beacon, a, obj[a].id))
    \/ Report(t, a, reportErrorCause(beacon, a, obj[a].id))

SessionReport(t) ==
    \/ Report(t, Session, identifyUser(beacon, Session))
    \/ Report(t, Session, reportCrash(beacon, Session))
    \/ \E attributes \in UserAttributes, tooLong \in BOOLEAN :
         \/ Report(t, Session, sendBizEvent(beacon, Session, attributes, tooLong))
         \/ Report(t, Session, sendEvent(beacon, Session, attributes, tooLong))

(* reportNetworkTechnology, reportCarrier, reportConnectionType: no mutex, *)
(* and for a session that has ended as well.                               *)
Supplement(t, what) ==
    /\ Idle(t) /\ reports < bound.reports
    /\ \/ beacon' = [beacon EXCEPT !.supplement = @ \cup {what}]
       \/ beacon' = [beacon EXCEPT !.supplement = @ \ {what}]
    /\ reports' = reports + 1
    /\ UNCHANGED <<obj, tried, stack, wasOff, bound>>

addReport(t) ==
    /\ At(t, "addReport")
    /\ beacon' = addEventData(beacon, Top(t).record)
    /\ stack' = [stack EXCEPT ![t] = <<>>]
    /\ UNCHANGED <<obj, tried, reports, wasOff, bound>>

-------------------------------------------------------------------------------
(* Leaving.  below: the stack of the thread under the call. *)

(* Mutant: does not see that the action has been left already. *)
doLeaveAction_Again(t, a, discard, below) ==
    /\ ~Locked(t, a)
    /\ obj' = [obj EXCEPT ![a].state = "left", ![a].cancelled = discard]
    /\ stack' = [stack EXCEPT ![t] =
                   Append(below, [Frame("copy", a) EXCEPT !.discard = discard])]
    /\ UNCHANGED <<beacon, tried, reports, wasOff, bound>>

(* Leaving an action begins with a mark that only one call can set. *)
doLeaveAction(t, a, discard, below) ==
    /\ ~Locked(t, a)
    /\ IF Open(a)
       THEN /\ obj' = [obj EXCEPT ![a].state = "left", ![a].cancelled = discard]
            /\ stack' = [stack EXCEPT ![t] =
                           Append(below, [Frame("copy", a) EXCEPT !.discard = discard])]
       ELSE /\ stack' = [stack EXCEPT ![t] = below]
            /\ UNCHANGED obj
    /\ UNCHANGED <<beacon, tried, reports, wasOff, bound>>

(* Mutant: the end number is taken after the mark, when the mutex is free. *)
doStop_LateNumber(t, w, code, discard, below) ==
    /\ IF Open(w)
       THEN /\ obj' = [obj EXCEPT ![w].state = "left", ![w].cancelled = discard,
                                  ![w].responseCode = code]
            /\ stack' = [stack EXCEPT ![t] =
                           Append(below, [Frame("children", w) EXCEPT !.discard = discard])]
       ELSE /\ stack' = [stack EXCEPT ![t] = below]
            /\ UNCHANGED obj
    /\ UNCHANGED <<beacon, tried, reports, wasOff, bound>>

(* Stopping a tracer: the mark is the end time, set with the end number. *)
doStop(t, w, code, discard, below) ==
    /\ IF Open(w)
       THEN /\ obj' = [obj EXCEPT ![w].state = "left", ![w].cancelled = discard,
                                  ![w].responseCode = code,
                                  ![w].end = createSequenceNumber(beacon)]
            /\ beacon' = [beacon EXCEPT !.mSequenceNumber = createSequenceNumber(beacon)]
            /\ stack' = [stack EXCEPT ![t] =
                           Append(below, [Frame("record", w) EXCEPT !.discard = discard])]
       ELSE /\ stack' = [stack EXCEPT ![t] = below]
            /\ UNCHANGED <<obj, beacon>>
    /\ UNCHANGED <<tried, reports, wasOff, bound>>

leaveAction(t, a) == Idle(t) /\ Open(a) /\ doLeaveAction(t, a, FALSE, <<>>)
cancelAction(t, a) == Idle(t) /\ Open(a) /\ doLeaveAction(t, a, TRUE, <<>>)
stop(t, w) == Idle(t) /\ Open(w) /\ doStop(t, w, 200, FALSE, <<>>)

(* The list of children is copied without the mutex. *)
getCopyOfChildObjects(t) ==
    /\ At(t, "copy")
    /\ stack' = Replace(t, [Top(t) EXCEPT !.pc = "children", !.todo = obj[Top(t).o].mChildren])
    /\ UNCHANGED <<beacon, obj, tried, reports, wasOff, bound>>

(* close() or cancel() of the next child of the copy. *)
closeChild(t) ==
    LET f == Top(t)
        c == Head(f.todo)
        below == Append(Front(stack[t]), [f EXCEPT !.todo = Tail(@)])
    IN /\ At(t, "children") /\ f.todo # <<>>
       /\ IF c \in Tracers THEN doStop(t, c, obj[c].responseCode, f.discard, below)
          ELSE doLeaveAction(t, c, f.discard, below)

ChildrenClosed(t) == At(t, "children") /\ Top(t).todo = <<>>

(* mEndTime and mEndSequenceNumber. *)
finish(t) ==
    /\ ChildrenClosed(t) /\ Top(t).o # Session
    /\ obj' = [obj EXCEPT ![Top(t).o].end = createSequenceNumber(beacon)]
    /\ beacon' = [beacon EXCEPT !.mSequenceNumber = createSequenceNumber(beacon)]
    /\ Goto(t, "record")
    /\ UNCHANGED <<tried, reports, wasOff, bound>>

(* addAction or addWebRequest, unless the data is discarded. *)
record(t) ==
    LET o == Top(t).o
        built == IF Top(t).discard THEN Built(beacon, NoRecord)
                 ELSE IF o \in Tracers THEN addWebRequest(beacon, o, obj[o])
                 ELSE addAction(beacon, o, obj[o])
    IN /\ At(t, "record")
       /\ stack' = Replace(t, [Top(t) EXCEPT !.record = built.record,
                                 !.pc = IF built.record = NoRecord THEN "detach" ELSE "add"])
       /\ UNCHANGED <<beacon, obj, tried, reports, wasOff, bound>>

add(t) ==
    /\ At(t, "add")
    /\ beacon' = addActionData(beacon, Top(t).record)
    /\ Goto(t, "detach")
    /\ UNCHANGED <<obj, tried, reports, wasOff, bound>>

(***************************************************************************)
(* The parent forgets the child.  A session that was tried for ending is   *)
(* ended when its last child is gone, with its mutex held.                 *)
(***************************************************************************)
onChildClosed(t) ==
    LET o == Top(t).o
        p == obj[o].parent
        rest == Erase(obj[p].mChildren, {o})
        ends == p = Session /\ tried /\ rest = <<>> /\ Open(Session)
    IN /\ At(t, "detach") /\ ~Locked(t, p)
       /\ obj' = [obj EXCEPT ![o].state = "closed",
                             ![p].mChildren = rest,
                             ![Session].state = IF ends THEN "left" ELSE @]
       /\ stack' = [stack EXCEPT ![t] =
                      IF ends
                      THEN Append(Front(@), [Frame("copy", Session) EXCEPT !.event = TRUE,
                                                                          !.holds = TRUE])
                      ELSE Front(@)]
       /\ UNCHANGED <<beacon, tried, reports, wasOff, bound>>

-------------------------------------------------------------------------------
(* The end of the session. *)

(***************************************************************************)
(* end(), by the application or by the end of its parent; without an end   *)
(* event by the watchdog, when a session that was tried for ending is past *)
(* its grace period, and by the sending thread's last flush.               *)
(***************************************************************************)
end(t, sendSessionEndEvent) ==
    /\ Idle(t) /\ ~Locked(t, Session) /\ Open(Session)
    /\ obj' = [obj EXCEPT ![Session].state = "left"]
    /\ stack' = [stack EXCEPT ![t] = <<[Frame("copy", Session) EXCEPT
                                           !.event = sendSessionEndEvent]>>]
    /\ UNCHANGED <<beacon, tried, reports, wasOff, bound>>

(* tryEnd(), when the session is split off: without children it ends, and  *)
(* without an end event; its mutex is held all the time.                   *)
tryEnd(t) ==
    /\ Idle(t) /\ ~Locked(t, Session) /\ Open(Session)
    /\ IF obj[Session].mChildren = <<>>
       THEN /\ obj' = [obj EXCEPT ![Session].state = "left"]
            /\ stack' = [stack EXCEPT ![t] = <<[Frame("copy", Session) EXCEPT !.holds = TRUE]>>]
            /\ UNCHANGED tried
       ELSE tried' = TRUE /\ UNCHANGED <<obj, stack>>
    /\ UNCHANGED <<beacon, reports, wasOff, bound>>

endEvent(t) ==
    LET built == IF Top(t).event THEN endSession(beacon, Session) ELSE Built(beacon, NoRecord)
    IN /\ ChildrenClosed(t) /\ Top(t).o = Session
       /\ beacon' = built.beacon
       /\ stack' = Replace(t, [Top(t) EXCEPT !.record = built.record,
                                 !.pc = IF built.record = NoRecord THEN "finished" ELSE "addEnd"])
       /\ UNCHANGED <<obj, tried, reports, wasOff, bound>>

addEnd(t) ==
    /\ At(t, "addEnd")
    /\ beacon' = addEventData(beacon, Top(t).record)
    /\ Goto(t, "finished")
    /\ UNCHANGED <<obj, tried, reports, wasOff, bound>>

(* markAsFinished; the session's parent is then told. *)
markAsFinished(t) ==
    /\ At(t, "finished") /\ ~Locked(t, Session)
    /\ obj' = [obj EXCEPT ![Session].state = "closed"]
    /\ stack' = [stack EXCEPT ![t] = Front(@)]
    /\ UNCHANGED <<beacon, tried, reports, wasOff, bound>>

(* The sending thread brings a configuration. *)
updateServerConfiguration(c) ==
    /\ beacon' = [beacon EXCEPT !.config = mergeConfigurations(beacon.config, c)]
    /\ beacon' # beacon
    /\ wasOff' = (wasOff \/ ~isDataCapturingEnabled(beacon'))
    /\ UNCHANGED <<obj, tried, stack, reports, bound>>

Call(t) ==
    \/ \E p \in {Session} \cup Actions : enterAction(t, p) \/ traceWebRequest(t, p)
    \/ \E a \in Actions : ActionReport(t, a) \/ leaveAction(t, a) \/ cancelAction(t, a)
    \/ \E w \in Tracers : \/ stop(t, w)
                          \/ \E f \in {"bytesSent", "bytesReceived"}, n \in ByteCounts :
                               setBytes(t, w, f, n)
    \/ SessionReport(t)
    \/ \E what \in {"technology", "carrier", "connection"} : Supplement(t, what)
    \/ \E event \in BOOLEAN : end(t, event)
    \/ tryEnd(t)

InCall(t) ==
    \/ addReport(t) \/ getCopyOfChildObjects(t) \/ closeChild(t)
    \/ finish(t) \/ record(t) \/ add(t) \/ onChildClosed(t)
    \/ endEvent(t) \/ addEnd(t) \/ markAsFinished(t)

Next ==
    \/ \E t \in Threads : Call(t) \/ InCall(t)
    \/ \E c \in bound.configurations : updateServerConfiguration(c)

Spec == Init /\ [][Next]_vars

-------------------------------------------------------------------------------
Recorded(o, types) == {i \in DOMAIN beacon.records : /\ beacon.records[i].who = o
                                                     /\ beacon.records[i].type \in types}

(***************************************************************************)
(* An action, a tracer or the end of the session is recorded at most once, *)
(* and not if it was cancelled, whoever leaves it, its parents and the     *)
(* session at the same time; and one that is through, without being        *)
(* cancelled, has been recorded if that was allowed all the time.          *)
(***************************************************************************)
RecordedOnce ==
    \A o \in Objects :
        LET n == Cardinality(Recorded(o, {"ACTION", "WEBREQUEST", "SESSION_END"}))
        IN /\ n <= (IF obj[o].cancelled THEN 0 ELSE 1)
           /\ /\ o # Session
              /\ obj[o].state = "closed" /\ ~obj[o].cancelled
              /\ ~wasOff /\ beacon.privacy.level # "OFF"
              => n = 1

(***************************************************************************)
(* Once the session is finished and no call is under way, every action and *)
(* every tracer is through and no list of children holds anything: none    *)
(* was entered too late to be closed with its parent.                      *)
(***************************************************************************)
NoOrphans ==
    obj[Session].state = "closed" /\ (\A t \in Threads : Idle(t)) =>
        \A o \in Objects : obj[o].state \in {"none", "closed"} /\ obj[o].mChildren = <<>>

(***************************************************************************)
(* A web request lies within its action: its numbers are between those of  *)
(* the action, even if the tracer is stopped by a thread of its own while  *)
(* another one leaves the action.  (An action is not always within its     *)
(* parent: the thread that leaves it may be overtaken.)                    *)
(***************************************************************************)
WebRequestsWithinAction ==
    \A w \in Tracers : LET a == obj[w].parent IN
        obj[w].state # "none" /\ a # Session =>
            /\ obj[a].start < obj[w].start
            /\ obj[a].end # 0 => obj[w].start < obj[w].end /\ obj[w].end < obj[a].end

(* An event with a type of OpenKit's own making: only business events have one. *)
BizEvent(r) == /\ r.type = "EVENT"
               /\ "event.type" \in DOMAIN r.content /\ r.content["event.type"] = Own

Performance == {"SESSION_END", "ACTION", "WEBREQUEST", "FAILURE_ERROR", "FAILURE_EXCEPTION"}

(***************************************************************************)
(* A crash has a setting of its own.  Otherwise the data collection level  *)
(* decides: only at USER_BEHAVIOR is everything recorded, at PERFORMANCE   *)
(* no values, users and events; at OFF still the start of the session and  *)
(* business events, though DataCollectionLevel.h calls data collection     *)
(* "off" there.                                                            *)
(***************************************************************************)
Permitted(r) ==
    IF r.type = "FAILURE_CRASH" THEN beacon.privacy.crashes = "OPT_IN_CRASHES"
    ELSE \/ r.type = "SESSION_START" \/ BizEvent(r)
         \/ r.type \in Performance /\ beacon.privacy.level # "OFF"
         \/ beacon.privacy.level = "USER_BEHAVIOR"

(***************************************************************************)
(* Nothing is recorded but what the privacy settings permit, and in events *)
(* no value of the application passes for one of OpenKit's own; in         *)
(* business events nothing of the application is under a reserved name.    *)
(***************************************************************************)
PrivacyKept ==
    \A i \in DOMAIN beacon.records : LET r == beacon.records[i] IN
        /\ Permitted(r)
        /\ r.type = "EVENT" => \A k \in NonOverridable : r.content[k] = Own
        /\ BizEvent(r) => \A k \in DOMAIN r.content \cap ReservedInternal : r.content[k] = Own

(***************************************************************************)
(* Whoever is in a call, some thread can go on: no two threads wait for    *)
(* each other, although the end of the session is run with its mutex held. *)
(***************************************************************************)
NobodyStuck ==
    (\E t \in Threads : ~Idle(t)) => \E t \in Threads : ENABLED InCall(t)
===============================================================================
