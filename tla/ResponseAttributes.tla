-------------------------- MODULE ResponseAttributes --------------------------
(***************************************************************************)
(* The settings a server answers with.  A setting has a value whether the  *)
(* server sent it or not; the set of attributes says which ones it sent.   *)
(***************************************************************************)
EXTENDS Integers, TLC

(* The attributes of an answer, by the part of a JSON answer that has them. *)
AgentAttributes == {"MAX_BEACON_SIZE", "MAX_SESSION_DURATION", "MAX_EVENTS_PER_SESSION",
                    "SESSION_IDLE_TIMEOUT", "SEND_INTERVAL", "VISIT_STORE_VERSION"}
ApplicationAttributes == {"IS_CAPTURE", "IS_CAPTURE_CRASHES", "IS_CAPTURE_ERRORS",
                          "TRAFFIC_CONTROL_PERCENTAGE", "APPLICATION_ID"}
DynamicAttributes == {"MULTIPLICITY", "SERVER_ID", "STATUS"}
ResponseAttribute == AgentAttributes \cup ApplicationAttributes \cup DynamicAttributes
                       \cup {"TIMESTAMP"}

(* Attributes whose value is text; those that switch something on or off. *)
TextAttributes == {"APPLICATION_ID", "STATUS"}
SwitchAttributes == {"IS_CAPTURE", "IS_CAPTURE_CRASHES", "IS_CAPTURE_ERRORS"}

(* The values that hold as long as no answer says otherwise. *)
AbstractResponseDefaults ==
    [SEND_INTERVAL |-> 120 * 1000, VISIT_STORE_VERSION |-> 1,
     IS_CAPTURE |-> TRUE, IS_CAPTURE_CRASHES |-> TRUE, IS_CAPTURE_ERRORS |-> TRUE,
     TRAFFIC_CONTROL_PERCENTAGE |-> 100, APPLICATION_ID |-> "", MULTIPLICITY |-> 1,
     SERVER_ID |-> 1, STATUS |-> "", TIMESTAMP |-> 0]

JsonResponseDefaults ==
    [MAX_BEACON_SIZE |-> 150 * 1024, MAX_SESSION_DURATION |-> 360 * 60 * 1000,
     MAX_EVENTS_PER_SESSION |-> 200, SESSION_IDLE_TIMEOUT |-> 600 * 1000]
      @@ AbstractResponseDefaults

KeyValueResponseDefaults ==
    [MAX_BEACON_SIZE |-> 30 * 1024, MAX_SESSION_DURATION |-> -1,
     MAX_EVENTS_PER_SESSION |-> -1, SESSION_IDLE_TIMEOUT |-> -1]
      @@ AbstractResponseDefaults

UndefinedDefaults == [KeyValueResponseDefaults EXCEPT !.SERVER_ID = -1]

(* The type of answers' settings: the values and the attributes that were set. *)
Attributes == [value : [ResponseAttribute -> Int \cup BOOLEAN \cup STRING],
               set : SUBSET ResponseAttribute]

(* A builder that starts from default values, in which nothing is set ... *)
withDefaults(defaults) == [value |-> defaults, set |-> {}]

(* ... and given every value of found, a function of attributes. *)
with(builder, found) ==
    [value |-> [a \in ResponseAttribute |-> IF a \in DOMAIN found THEN found[a]
                                           ELSE builder.value[a]],
     set |-> builder.set \cup DOMAIN found]

(* Mutant: the other's default values replace what earlier answers had set. *)
TakesDefaults(this, other) == [value |-> other.value, set |-> this.set \cup other.set]

(* Only the attributes that other has set replace values of this one. *)
merge(this, other) == with(this, [a \in other.set |-> other.value[a]])
===============================================================================
