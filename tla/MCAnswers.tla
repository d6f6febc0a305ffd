------------------------------- MODULE MCAnswers -------------------------------
(* Answers of both formats that leave out different settings, name some    *)
(* twice or with a value of another kind, refuse, fail or break off.       *)
EXTENDS Answers

Full == JsonBody({"mobileAgentConfig", "appConfig", "dynamicConfig"},
                 "MAX_EVENTS_PER_SESSION" :> Number(5) @@ "VISIT_STORE_VERSION" :> Number(2)
                   @@ "MULTIPLICITY" :> Number(3) @@ "SERVER_ID" :> Number(7)
                   @@ "TRAFFIC_CONTROL_PERCENTAGE" :> Number(50) @@ "TIMESTAMP" :> Number(4))
Sparse == JsonBody({"appConfig", "dynamicConfig"},
                   "APPLICATION_ID" :> Text("other") @@ "MULTIPLICITY" :> Number(0)
                     @@ "SERVER_ID" :> Text("7") @@ "SEND_INTERVAL" :> Number(1)
                     @@ "IS_CAPTURE_CRASHES" :> Other)
Pairs == KeyValueBody(<<<<"IS_CAPTURE", Number(0)>>, <<"IS_CAPTURE", Number(1)>>,
                        <<"SERVER_ID", Text("")>>, <<"MAX_BEACON_SIZE", Number(9)>>>>)
NoNumber == KeyValueBody(<<<<"MULTIPLICITY", Text("two")>>>>)
Refused == JsonBody({"dynamicConfig"}, "STATUS" :> Text("ERROR") @@ "MULTIPLICITY" :> Number(9))

Answer(code, retryAfter, body) == [code |-> code, retryAfter |-> retryAfter, body |-> body]
AllResponses == {Answer(200, <<>>, b) : b \in {Full, Sparse, Pairs, NoNumber, Refused}}
                  \cup {Answer(429, <<Number(3)>>, BrokenBody)}
AllInterims == {Answer(100, <<Number(8)>>, BrokenBody)}
Headers == {"Host" :> "elsewhere" @@ "User-Agent" :> "customer" @@ "Content-Encoding" :> "none"}
================================================================================
