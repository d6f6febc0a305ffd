------------------------- MODULE ServerConfiguration -------------------------
(***************************************************************************)
(* What OpenKit and its sessions do as the server wants it.                *)
(***************************************************************************)
EXTENDS ResponseAttributes

Configurations ==
    [capture : BOOLEAN, crashReporting : BOOLEAN, errorReporting : BOOLEAN,
     serverId : Int, beaconSize : Int, multiplicity : Int, sendInterval : Int,
     maxSessionDuration : Int, splitByDuration : BOOLEAN,
     maxEvents : Int, splitByEvents : BOOLEAN,
     sessionTimeout : Int, splitByIdleTimeout : BOOLEAN,
     visitStoreVersion : Int, trafficControl : Int,
     shared : BOOLEAN]  \* the one instance that pointers are compared with

(* Sessions are split by a limit only if the server has sent the limit. *)
from(attributes) ==
    LET v == attributes.value
    IN [capture |-> v.IS_CAPTURE, crashReporting |-> v.IS_CAPTURE_CRASHES,
        errorReporting |-> v.IS_CAPTURE_ERRORS,
        serverId |-> v.SERVER_ID, beaconSize |-> v.MAX_BEACON_SIZE,
        multiplicity |-> v.MULTIPLICITY, sendInterval |-> v.SEND_INTERVAL,
        maxSessionDuration |-> v.MAX_SESSION_DURATION,
        splitByDuration |-> "MAX_SESSION_DURATION" \in attributes.set,
        maxEvents |-> v.MAX_EVENTS_PER_SESSION,
        splitByEvents |-> "MAX_EVENTS_PER_SESSION" \in attributes.set,
        sessionTimeout |-> v.SESSION_IDLE_TIMEOUT,
        splitByIdleTimeout |-> "SESSION_IDLE_TIMEOUT" \in attributes.set,
        visitStoreVersion |-> v.VISIT_STORE_VERSION,
        trafficControl |-> v.TRAFFIC_CONTROL_PERCENTAGE,
        shared |-> FALSE]

defaultInstance == [from(withDefaults(UndefinedDefaults)) EXCEPT !.shared = TRUE]

isSessionSplitBySessionDurationEnabled(c) == c.splitByDuration /\ c.maxSessionDuration > 0
isSessionSplitByEventsEnabled(c) == c.splitByEvents /\ c.maxEvents > 0
isSessionSplitByIdleTimeoutEnabled(c) == c.splitByIdleTimeout /\ c.sessionTimeout > 0

isSendingDataAllowed(c) == c.capture /\ c.multiplicity > 0
isSendingCrashesAllowed(c) == c.crashReporting /\ isSendingDataAllowed(c)
isSendingErrorsAllowed(c) == c.errorReporting /\ isSendingDataAllowed(c)

(* A builder made of a configuration asks it whether splitting is enabled. *)
Builder(c) == [c EXCEPT !.shared = FALSE,
                        !.splitByDuration = isSessionSplitBySessionDurationEnabled(c),
                        !.splitByEvents = isSessionSplitByEventsEnabled(c),
                        !.splitByIdleTimeout = isSessionSplitByIdleTimeoutEnabled(c)]

withCapture(c, on) == [Builder(c) EXCEPT !.capture = on]

(* Mutant: the traffic control percentage is taken from the other. *)
MergesSampling(this, other) ==
    LET b == Builder(this)
    IN [Builder(other) EXCEPT
          !.multiplicity = b.multiplicity, !.serverId = b.serverId,
          !.maxSessionDuration = b.maxSessionDuration, !.splitByDuration = b.splitByDuration,
          !.maxEvents = b.maxEvents, !.splitByEvents = b.splitByEvents,
          !.sessionTimeout = b.sessionTimeout, !.splitByIdleTimeout = b.splitByIdleTimeout,
          !.visitStoreVersion = b.visitStoreVersion]

(* Everything is taken from the other one, except what a session keeps. *)
mergeConfigurations(this, other) ==
    LET b == Builder(this)
    IN [Builder(other) EXCEPT
          !.multiplicity = b.multiplicity, !.serverId = b.serverId,
          !.maxSessionDuration = b.maxSessionDuration, !.splitByDuration = b.splitByDuration,
          !.maxEvents = b.maxEvents, !.splitByEvents = b.splitByEvents,
          !.sessionTimeout = b.sessionTimeout, !.splitByIdleTimeout = b.splitByIdleTimeout,
          !.visitStoreVersion = b.visitStoreVersion, !.trafficControl = b.trafficControl]
==============================================================================
