---------------------------- MODULE ResponseParser ----------------------------
(***************************************************************************)
(* From the body of an answer to its attributes.  A body is of one format: *)
(* - "json", an object: parts names the members of the root that are       *)
(*   objects, and members maps attributes to what stands under their keys: *)
(*   numbers, text or values of another kind;                              *)
(* - "keyvalue": pairs is the sequence of key=value texts, where a value   *)
(*   is a number, "" (nothing behind the =) or text that is no number;     *)
(* - "broken": anything else, which the JSON parser refuses.               *)
(* Numbers are small enough for the conversions to milliseconds and bytes. *)
(***************************************************************************)
EXTENDS ResponseAttributes, Sequences

Number(n) == [kind |-> "number", number |-> n, text |-> ""]
Text(t)   == [kind |-> "text", number |-> 0, text |-> t]
Other     == [kind |-> "other", number |-> 0, text |-> ""]

JsonBody(parts, members) == [format |-> "json", parts |-> parts, members |-> members, pairs |-> <<>>]
KeyValueBody(pairs) == [format |-> "keyvalue", parts |-> {}, members |-> <<>>, pairs |-> pairs]
BrokenBody == [format |-> "broken", parts |-> {}, members |-> <<>>, pairs |-> <<>>]

(* What a number under an attribute's key means: units, and switches that a *)
(* number turns on.  Capturing is on with 1 only. *)
Converted(a, n) ==
    CASE a = "MAX_BEACON_SIZE" -> n * 1024
      [] a = "MAX_SESSION_DURATION" -> n * 60 * 1000
      [] a \in {"SESSION_IDLE_TIMEOUT", "SEND_INTERVAL"} -> n * 1000
      [] a = "IS_CAPTURE" -> n = 1
      [] a \in {"IS_CAPTURE_CRASHES", "IS_CAPTURE_ERRORS"} -> n # 0
      [] OTHER -> n

--------------------------------------------------------------------------------

(* The attributes of wanted that stand in the object with a value of their kind. *)
getJsonNumberFrom(body, wanted) ==
    {a \in (wanted \cap DOMAIN body.members) \ TextAttributes : body.members[a].kind = "number"}
getJsonStringFrom(body, wanted) ==
    {a \in wanted \cap DOMAIN body.members \cap TextAttributes : body.members[a].kind = "text"}

getJsonObjectFrom(body, part) == part \in body.parts

Members(body, wanted) ==
    [a \in getJsonNumberFrom(body, wanted) |-> Converted(a, body.members[a].number)]
      @@ [a \in getJsonStringFrom(body, wanted) |-> body.members[a].text]

applyAgentConfiguration(builder, body) ==
    IF getJsonObjectFrom(body, "mobileAgentConfig")
    THEN with(builder, Members(body, AgentAttributes)) ELSE builder
applyApplicationConfiguration(builder, body) ==
    IF getJsonObjectFrom(body, "appConfig")
    THEN with(builder, Members(body, ApplicationAttributes)) ELSE builder
applyDynamicConfiguration(builder, body) ==
    IF getJsonObjectFrom(body, "dynamicConfig")
    THEN with(builder, Members(body, DynamicAttributes)) ELSE builder
applyRootAttributes(builder, body) == with(builder, Members(body, {"TIMESTAMP"}))

parseJson(body) ==
    applyRootAttributes(
        applyDynamicConfiguration(
            applyApplicationConfiguration(
                applyAgentConfiguration(withDefaults(JsonResponseDefaults), body), body), body), body)

--------------------------------------------------------------------------------

KeyValueAttributes == {"MAX_BEACON_SIZE", "SEND_INTERVAL", "MULTIPLICITY", "SERVER_ID",
                       "TRAFFIC_CONTROL_PERCENTAGE"} \cup SwitchAttributes

(* The first pair of a key counts; a pair without a value does not. *)
KeyValuePairs(body) ==
    LET given(a) == {i \in DOMAIN body.pairs : body.pairs[i][1] = a /\ body.pairs[i][2] # Text("")}
    IN [a \in {b \in KeyValueAttributes : given(b) # {}} |->
          body.pairs[CHOOSE i \in given(a) : \A j \in given(a) : i <= j][2]]

(* std::stoi throws for text that does not begin with a number. *)
stoiThrows(body) == \E a \in DOMAIN KeyValuePairs(body) : KeyValuePairs(body)[a].kind # "number"

applyKeyValuePairs(builder, body) ==
    LET pairs == KeyValuePairs(body)
    IN with(builder, [a \in DOMAIN pairs |-> Converted(a, pairs[a].number)])

parseKeyValue(body) == applyKeyValuePairs(withDefaults(KeyValueResponseDefaults), body)

--------------------------------------------------------------------------------

isKeyValuePairResponse(body) == body.format = "keyvalue"

(* Parsing ends with a std::exception ... *)
ParseThrows(body) == \/ body.format = "broken"
                     \/ isKeyValuePairResponse(body) /\ stoiThrows(body)
(* ... or with attributes. *)
parseResponse(body) == IF isKeyValuePairResponse(body) THEN parseKeyValue(body) ELSE parseJson(body)
================================================================================
