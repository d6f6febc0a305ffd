-------------------------------- MODULE Beacon --------------------------------
(***************************************************************************)
(* The beacon of a session: what it records of the calls it gets, given    *)
(* the privacy settings of the application and the server's configuration. *)
(* A record is what is put into the cache; its text is left out.           *)
(***************************************************************************)
EXTENDS ServerConfiguration, Sequences

CONSTANT IntBits   \* the bits of an int32_t; an int64_t has twice as many

ASSUME BeaconAssumption == IntBits \in Nat \ {0}

DataCollectionLevel == {"OFF", "PERFORMANCE", "USER_BEHAVIOR"}
CrashReportingLevel == {"OFF", "OPT_OUT_CRASHES", "OPT_IN_CRASHES"}

(* What the privacy settings p allow. *)
isDeviceIdSendingAllowed(p) == p.level = "USER_BEHAVIOR"
isSessionNumberReportingAllowed(p) == p.level = "USER_BEHAVIOR"
isWebRequestTracingAllowed(p) == p.level # "OFF"
isSessionReportingAllowed(p) == p.level # "OFF"
isActionReportingAllowed(p) == p.level # "OFF"
isValueReportingAllowed(p) == p.level = "USER_BEHAVIOR"
isEventReportingAllowed(p) == p.level = "USER_BEHAVIOR"
isErrorReportingAllowed(p) == p.level # "OFF"
isCrashReportingAllowed(p) == p.crashes = "OPT_IN_CRASHES"
isUserIdentificationAllowed(p) == p.level = "USER_BEHAVIOR"

(* The device id and the session number are made up if they must not be told. *)
Random == "random"

(***************************************************************************)
(* A new beacon.  key: the session's number and its sequence number in a   *)
(* row of split sessions; control: the random number that decides whether  *)
(* the session is in the sample; records: what is in the cache, oldest     *)
(* first; supplement: what basic data the application has told.            *)
(***************************************************************************)
NewBeacon(privacy, config, device, key, control) ==
    [privacy |-> privacy, config |-> config, mTrafficControlValue |-> control,
     mDeviceID |-> IF isDeviceIdSendingAllowed(privacy) THEN device ELSE Random,
     mSessionNumber |-> IF isSessionNumberReportingAllowed(privacy) THEN key.number ELSE 1,
     mSessionSequenceNumber |-> key.sequence,
     mSequenceNumber |-> 0, mID |-> 0, records |-> <<>>, supplement |-> {}]

(* The next number: it is what the counter is incremented to. *)
createSequenceNumber(b) == b.mSequenceNumber + 1
createID(b) == b.mID + 1

InSample(b) == b.mTrafficControlValue < b.config.trafficControl
isDataCapturingEnabled(b) == isSendingDataAllowed(b.config) /\ InSample(b)
isErrorCapturingEnabled(b) == isSendingErrorsAllowed(b.config) /\ InSample(b)
isCrashCapturingEnabled(b) == isSendingCrashesAllowed(b.config) /\ InSample(b)

(***************************************************************************)
(* Two steps make a record.  The first one tests what is allowed, takes a  *)
(* sequence number where the record needs one of its own and writes the    *)
(* text; it gives the beacon and the record.  The second one, addEventData *)
(* or addActionData, tests again and puts the record into the cache: the   *)
(* sending thread may have changed the configuration in between.           *)
(***************************************************************************)
NoRecord == <<>>

Record(type, who, parent, start, end, content) ==
    <<[type |-> type, who |-> who, parent |-> parent, start |-> start, end |-> end,
       content |-> content]>>

Built(b, record) == [beacon |-> b, record |-> record]

(* An event that takes a number: buildEvent and its like. *)
buildEvent(b, allowed, type, who, parent) ==
    IF allowed
    THEN Built([b EXCEPT !.mSequenceNumber = createSequenceNumber(b)],
               Record(type, who, parent, createSequenceNumber(b), 0, <<>>))
    ELSE Built(b, NoRecord)

addEventData(b, record) ==
    IF isDataCapturingEnabled(b) THEN [b EXCEPT !.records = @ \o record] ELSE b
addActionData(b, record) == addEventData(b, record)

(* The start of a session is recorded whatever the privacy settings are. *)
startSession(b, s) == buildEvent(b, isDataCapturingEnabled(b), "SESSION_START", s, 0)
endSession(b, s) ==
    buildEvent(b, isSessionReportingAllowed(b.privacy) /\ isDataCapturingEnabled(b),
               "SESSION_END", s, 0)

(* a: an action that has been left, with its numbers. *)
addAction(b, who, a) ==
    IF isActionReportingAllowed(b.privacy) /\ isDataCapturingEnabled(b)
    THEN Built(b, Record("ACTION", who, a.parentID, a.start, a.end, [id |-> a.id]))
    ELSE Built(b, NoRecord)

reportIntValue(b, who, id) ==
    buildEvent(b, isValueReportingAllowed(b.privacy) /\ isDataCapturingEnabled(b),
               "VALUE_INT", who, id)
reportDoubleValue(b, who, id) ==
    buildEvent(b, isValueReportingAllowed(b.privacy) /\ isDataCapturingEnabled(b),
               "VALUE_DOUBLE", who, id)
reportStringValue(b, who, id) ==
    buildEvent(b, isValueReportingAllowed(b.privacy) /\ isDataCapturingEnabled(b),
               "VALUE_STRING", who, id)
reportEvent(b, who, id) ==
    buildEvent(b, isEventReportingAllowed(b.privacy) /\ isDataCapturingEnabled(b),
               "NAMED_EVENT", who, id)
reportErrorCode(b, who, id) ==
    buildEvent(b, isErrorReportingAllowed(b.privacy) /\ isErrorCapturingEnabled(b),
               "FAILURE_ERROR", who, id)
reportErrorCause(b, who, id) ==
    buildEvent(b, isErrorReportingAllowed(b.privacy) /\ isErrorCapturingEnabled(b),
               "FAILURE_EXCEPTION", who, id)
reportCrash(b, s) ==
    buildEvent(b, isCrashReportingAllowed(b.privacy) /\ isCrashCapturingEnabled(b),
               "FAILURE_CRASH", s, 0)
identifyUser(b, s) ==
    buildEvent(b, isUserIdentificationAllowed(b.privacy) /\ isDataCapturingEnabled(b),
               "IDENTIFY_USER", s, 0)

(* What is left of an int64_t in an int32_t. *)
ToInt32(n) == ((n + 2 ^ (IntBits - 1)) % 2 ^ IntBits) - 2 ^ (IntBits - 1)

(* w: a tracer that has been stopped.  Negative numbers are not told. *)
addWebRequest(b, who, w) ==
    LET told == [f \in {"bytesSent", "bytesReceived", "responseCode"} |-> ToInt32(w[f])]
    IN IF isWebRequestTracingAllowed(b.privacy) /\ isDataCapturingEnabled(b)
       THEN Built(b, Record("WEBREQUEST", who, w.parentID, w.start, w.end,
                            [f \in {g \in DOMAIN told : told[g] > -1} |-> told[f]]))
       ELSE Built(b, NoRecord)

(* The tag by which the server finds the web request of a tracer. *)
createTag(b, parent, number) ==
    IF isWebRequestTracingAllowed(b.privacy)
    THEN <<[server |-> b.config.serverId, device |-> b.mDeviceID,
            session |-> b.mSessionNumber,
            sequence |-> IF b.config.visitStoreVersion > 1 THEN b.mSessionSequenceNumber ELSE 0,
            parent |-> parent, number |-> number]>>
    ELSE <<>>

(* The part of a beacon's prefix that may change between two chunks. *)
getMutableBeaconData(b) ==
    [version |-> b.config.visitStoreVersion,
     sequence |-> IF b.config.visitStoreVersion > 1 THEN b.mSessionSequenceNumber ELSE 0,
     multiplicity |-> b.config.multiplicity,
     told |-> b.supplement]

-------------------------------------------------------------------------------
(***************************************************************************)
(* The payload of events: attributes, each with the value the application  *)
(* gave (User, or NonFinite: a number in it that JSON has no notation for) *)
(* or with OpenKit's own.                                                  *)
(***************************************************************************)
User == "user"
NonFinite == "nonFinite"
Own == "own"

(* Attributes the application may set itself, and those it may not. *)
Overridable == {"timestamp", "app.version", "os.name", "device.manufacturer",
                "device.model.identifier", "event.provider"}
NonOverridable == {"dt.rum.application.id", "dt.rum.instance.id", "dt.rum.sid",
                   "dt.rum.schema_version"}

(* "dt" itself and all that is in dt., except for dt.agent. *)
ReservedInternal == NonOverridable
                      \cup {"dt", "dt.rum.custom_attributes_size", "dt.rum.has_nfn_values"}

addOverridableAttribute(attributes, key) ==
    [k \in DOMAIN attributes \cup {key} |-> IF k \in DOMAIN attributes THEN attributes[k] ELSE Own]
addNonOverridableAttribute(attributes, key) ==
    [k \in DOMAIN attributes \cup {key} |-> IF k = key THEN Own ELSE attributes[k]]

cleanReservedInternalAttributes(attributes) ==
    [k \in DOMAIN attributes \ ReservedInternal |-> attributes[k]]

generateEventPayload(attributes) ==
    [k \in NonOverridable \cup DOMAIN attributes \cup Overridable |->
       IF k \in DOMAIN attributes \ NonOverridable THEN attributes[k] ELSE Own]

isEventContainingNonFiniteNumericValues(attributes) ==
    \E k \in DOMAIN attributes : attributes[k] = NonFinite

MarkNonFinite(attributes) ==
    IF isEventContainingNonFiniteNumericValues(attributes)
    THEN addNonOverridableAttribute(attributes, "dt.rum.has_nfn_values") ELSE attributes

(***************************************************************************)
(* tooLong: the payload has more than EVENT_PAYLOAD_BYTES_LENGTH bytes; an *)
(* exception then leaves the call, and nothing is recorded.                *)
(***************************************************************************)
sendEventPayload(b, s, attributes, tooLong) ==
    Built(b, IF tooLong THEN NoRecord ELSE Record("EVENT", s, 0, 0, 0, attributes))

sendBizEvent(b, s, attributes, tooLong) ==
    IF isDataCapturingEnabled(b)
    THEN LET typed == addNonOverridableAttribute(attributes, "event.type")
             clean == addNonOverridableAttribute(cleanReservedInternalAttributes(typed),
                                                 "dt.rum.custom_attributes_size")
             all == addNonOverridableAttribute(generateEventPayload(clean), "event.kind")
         IN sendEventPayload(b, s, MarkNonFinite(all), tooLong)
    ELSE Built(b, NoRecord)

(* Mutant: sent like a business event, whatever the level. *)
sendEvent_Unasked(b, s, attributes, tooLong) ==
    IF isDataCapturingEnabled(b)
    THEN LET named == addNonOverridableAttribute(generateEventPayload(attributes), "event.name")
             all == addOverridableAttribute(named, "event.kind")
         IN sendEventPayload(b, s, MarkNonFinite(all), tooLong)
    ELSE Built(b, NoRecord)

sendEvent(b, s, attributes, tooLong) ==
    IF isEventReportingAllowed(b.privacy) /\ isDataCapturingEnabled(b)
    THEN LET named == addNonOverridableAttribute(generateEventPayload(attributes), "event.name")
             all == addOverridableAttribute(named, "event.kind")
         IN sendEventPayload(b, s, MarkNonFinite(all), tooLong)
    ELSE Built(b, NoRecord)
===============================================================================
