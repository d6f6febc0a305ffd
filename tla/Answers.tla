-------------------------------- MODULE Answers --------------------------------
(***************************************************************************)
(* What answers of the server do: the sending thread makes requests with   *)
(* the HTTP client and applies answers to the sending context and to       *)
(* sessions, while application threads create sessions with the settings   *)
(* of the moment and split sessions with the settings of their proxy.  A   *)
(* round of the capture-on state asks for new sessions, then sends         *)
(* finished and then open ones; the context handles one of its answers.    *)
(* Which sessions are finished, and when a round begins, is left open.     *)
(***************************************************************************)
EXTENDS HTTPClient, ServerConfiguration

CONSTANTS Sessions,      \* sessions, in the beacon sender and of the proxies
          MaxRequests    \* bound: requests that are sent

ASSUME AnswersAssumption == MaxRequests \in Nat

ApplicationId == "app"
DefaultServerId == 1
NoConfiguration == [defaultInstance EXCEPT !.serverId = -2]

(* The local variables of a round: where it is, and the last response of     *)
(* each of its parts (NoResponse: none, a null pointer).                     *)
NoRound == [part |-> "sleep", new |-> NoResponse, finished |-> NoResponse, open |-> NoResponse]

VARIABLES
  mLastResponseAttributes, mServerConfiguration, \* the BeaconSendingContext
  mServerID,     \* server ID of the context's HTTP client configuration
  state, round,  \* the state of the sending thread, and its round when capturing is on
  created,       \* sessions that were created
  session,       \* BeaconConfiguration of each session
  home,          \* the first session of the proxy a session belongs to
  proxy,         \* SessionProxy::mServerConfiguration, of the proxy with that first session
  sent,          \* number of requests sent
  latest,        \* history: the last value of every attribute in any answer
  discarded,     \* history: attributes whose last value came in an answer that a
                 \* later one, or a session without data, took the place of
  givenBy        \* history: the configuration that configured each session

contextVars == <<mLastResponseAttributes, mServerConfiguration, mServerID>>
stateVars == <<state, round>>
sessionVars == <<created, session, home, proxy, givenBy>>
historyVars == <<latest, discarded>>
vars == <<clientVars, contextVars, stateVars, sessionVars, sent, historyVars>>

NewBeaconConfiguration(serverId) ==
    [mServerConfiguration |-> NoConfiguration, mIsServerConfigurationSet |-> FALSE,
     serverId |-> serverId]

Init ==
    /\ ClientInit
    /\ mLastResponseAttributes = withDefaults(UndefinedDefaults)
    /\ mServerConfiguration = defaultInstance /\ mServerID = DefaultServerId
    /\ state = "Initial" /\ round = NoRound
    /\ created = {} /\ home = [s \in Sessions |-> s]
    /\ session = [s \in Sessions |-> NewBeaconConfiguration(DefaultServerId)]
    /\ proxy = [s \in Sessions |-> NoConfiguration]
    /\ givenBy = [s \in Sessions |-> NoConfiguration]
    /\ sent = 0 /\ latest = UndefinedDefaults /\ discarded = {}

--------------------------------------------------------------------------------

(* The callback of a session's configuration, in the proxy. *)
onServerConfigurationUpdate(p, c) ==
    IF p = NoConfiguration THEN c ELSE mergeConfigurations(p, c)

(* Mutant: the configuration of the moment counts as the server's answer. *)
InitializedIsSet(b, c) ==
    IF c = defaultInstance \/ b.mIsServerConfigurationSet THEN b
    ELSE [b EXCEPT !.mServerConfiguration = c, !.mIsServerConfigurationSet = TRUE]

(* BeaconConfiguration: the default instance is ignored. *)
initializeServerConfiguration(b, c) ==
    IF c = defaultInstance \/ b.mIsServerConfigurationSet THEN b
    ELSE [b EXCEPT !.mServerConfiguration = c]

updateServerConfiguration(b, c) ==
    [b EXCEPT !.mServerConfiguration = IF b.mIsServerConfigurationSet
                                       THEN mergeConfigurations(b.mServerConfiguration, c) ELSE c,
              !.mIsServerConfigurationSet = TRUE]

getServerConfigurationOrDefault(b) ==
    IF b.mServerConfiguration = NoConfiguration THEN defaultInstance ELSE b.mServerConfiguration

updateCaptureWith(b, on) ==
    [b EXCEPT !.mServerConfiguration = withCapture(getServerConfigurationOrDefault(b), on),
              !.mIsServerConfigurationSet = TRUE]

(* Neither the sending thread nor a request is touched. *)
ApplicationStep == /\ UNCHANGED <<sent>> /\ UNCHANGED historyVars
                   /\ UNCHANGED contextVars /\ UNCHANGED stateVars /\ UNCHANGED clientVars

(* OpenKit::createSession(): the proxy's first session starts with the       *)
(* context's configuration and sends to the context's server.                *)
createSession(s) ==
    /\ s \notin created /\ created' = created \cup {s}
    /\ session' = [session EXCEPT ![s] =
         initializeServerConfiguration(NewBeaconConfiguration(mServerID), mServerConfiguration)]
    /\ proxy' = IF mServerConfiguration = defaultInstance THEN proxy
                ELSE [proxy EXCEPT ![s] = onServerConfigurationUpdate(@, mServerConfiguration)]
    /\ UNCHANGED <<home, givenBy>> /\ ApplicationStep

(* The proxy whose first session is s has begun another one, t. *)
BeginsFor(s, t) ==
    /\ s \in created /\ home[s] = s /\ t \notin created /\ proxy[s] # NoConfiguration
    /\ created' = created \cup {t} /\ home' = [home EXCEPT ![t] = s]
    /\ proxy' = [proxy EXCEPT ![s] = onServerConfigurationUpdate(@, proxy[s])]
    /\ ApplicationStep

(* Split by the number of events: t begins with the proxy's configuration as *)
(* if it were an answer, and is never asked for.                             *)
createSplitSession(s, t) ==
    /\ isSessionSplitByEventsEnabled(proxy[s])
    /\ BeginsFor(s, t)
    /\ session' = [session EXCEPT ![t] =
         updateServerConfiguration(NewBeaconConfiguration(session[s].serverId), proxy[s])]
    /\ givenBy' = [givenBy EXCEPT ![t] = proxy[s]]

(* Split by time, or by a crash whatever is enabled: t begins as the first   *)
(* session did, and will be asked for.                                       *)
splitAndCreateNewInitialSession(s, t) ==
    /\ BeginsFor(s, t)
    /\ session' = [session EXCEPT ![t] =
         initializeServerConfiguration(NewBeaconConfiguration(session[s].serverId), proxy[s])]
    /\ UNCHANGED givenBy

--------------------------------------------------------------------------------

Url(serverId, newSession, s) == [serverId |-> serverId, newSession |-> newSession, session |-> s]

Sends(type, url, data) ==
    /\ sent < MaxRequests /\ sent' = sent + 1
    /\ sendRequest(type, url, data)
    /\ UNCHANGED <<state>> /\ UNCHANGED historyVars
    /\ UNCHANGED contextVars /\ UNCHANGED sessionVars

sendStatusRequest ==
    /\ state \in {"Initial", "CaptureOff"}
    /\ Sends("STATUS", Url(mServerID, FALSE, "none"), <<>>)
    /\ UNCHANGED round

(* The parts of a round are in this order. *)
mayBe(part) ==
    /\ state = "CaptureOn"
    /\ round.part \in CASE part = "new" -> {"sleep", "new"}
                        [] part = "finished" -> {"sleep", "new", "finished"}
                        [] part = "open" -> {"sleep", "new", "finished", "open"}

sendNewSessionRequest(s) ==
    /\ mayBe("new") /\ round' = [round EXCEPT !.part = "new"]
    /\ s \in created /\ ~session[s].mIsServerConfigurationSet
    /\ Sends("NEW_SESSION", Url(mServerID, TRUE, s), <<>>)

sendBeaconRequest(s, part) ==
    /\ mayBe(part) /\ round' = [round EXCEPT !.part = part]
    /\ s \in created /\ session[s].mIsServerConfigurationSet
    /\ isSendingDataAllowed(session[s].mServerConfiguration)
    /\ Sends("BEACON", Url(session[s].serverId, FALSE, s), <<1, 2>>)

(* The settings of a response that would be applied: none of an error. *)
SetBy(r) == IF isSuccessfulResponse(r) THEN r.attributes.set ELSE {}
(* History: the settings of r are lost, those of answer are the latest. *)
Loses(r, answer) ==
    /\ discarded' = (discarded \cup SetBy(r)) \ SetBy(answer)
    /\ latest' = [a \in ResponseAttribute |-> IF a \in SetBy(answer) THEN answer.attributes.value[a]
                                             ELSE latest[a]]

(* A session without data is not sent; a null pointer takes the place of the *)
(* last response of its part.                                                *)
sendNothing(s, part) ==
    /\ phase = "idle" /\ mayBe(part) /\ round[part] # NoResponse
    /\ s \in created /\ session[s].mIsServerConfigurationSet
    /\ isSendingDataAllowed(session[s].mServerConfiguration)
    /\ round' = [round EXCEPT !.part = part, ![part] = NoResponse]
    /\ Loses(round[part], NoResponse)
    /\ UNCHANGED <<state, sent>>
    /\ UNCHANGED contextVars /\ UNCHANGED sessionVars /\ UNCHANGED clientVars

(* Capturing of s is switched without an answer, and s counts as configured. *)
switchCapture(s, on) ==
    /\ phase = "idle" /\ s \in created /\ ~session[s].mIsServerConfigurationSet
    /\ session' = [session EXCEPT ![s] = updateCaptureWith(@, on)]
    /\ givenBy' = [givenBy EXCEPT ![s] = session'[s].mServerConfiguration]
    /\ UNCHANGED <<created, home, proxy, sent>> /\ UNCHANGED historyVars
    /\ UNCHANGED contextVars /\ UNCHANGED stateVars /\ UNCHANGED clientVars

(* The session that may not ask any more is given up. *)
disableCapture(s) == mayBe("new") /\ switchCapture(s, FALSE)

(* After shutdown, sessions that were never configured are sent nevertheless; *)
(* the answers of the flush are applied to nothing.                           *)
enableCapture(s) == state = "FlushSessions" /\ switchCapture(s, TRUE)

shutdown ==
    /\ phase = "idle" /\ state \in {"CaptureOn", "CaptureOff"} /\ round = NoRound
    /\ state' = "FlushSessions"
    /\ UNCHANGED <<round, sent>> /\ UNCHANGED historyVars
    /\ UNCHANGED contextVars /\ UNCHANGED sessionVars /\ UNCHANGED clientVars

--------------------------------------------------------------------------------

isApplicationIdMismatch(attributes) ==
    "APPLICATION_ID" \in attributes.set /\ attributes.value.APPLICATION_ID # ApplicationId

(* BeaconSendingContext::updateFrom() of a successful response. *)
updateFrom(r) ==
    LET attributes == merge(mLastResponseAttributes, r.attributes)
        builder == from(attributes)
        new == IF isApplicationIdMismatch(attributes) THEN [builder EXCEPT !.capture = FALSE]
               ELSE builder
    IN /\ mLastResponseAttributes' = attributes
       /\ mServerConfiguration' = new
       /\ mServerID' = new.serverId

disableContextCapture ==
    /\ mServerConfiguration' = withCapture(mServerConfiguration, FALSE)
    /\ UNCHANGED <<mLastResponseAttributes, mServerID>>

handleStatusResponse(r) ==
    IF isErroneousResponse(r) THEN disableContextCapture ELSE updateFrom(r)

(* The answer to a status request: the initial state repeats it until it     *)
(* succeeds, the capture-off state handles every answer.                     *)
statusResponse ==
    /\ phase = "returned" /\ request.type = "STATUS" /\ taken
    /\ \/ /\ state = "CaptureOff" \/ isSuccessfulResponse(response)
          /\ handleStatusResponse(response)
          /\ state' = IF isSuccessfulResponse(response) /\ mServerConfiguration'.capture
                      THEN "CaptureOn" ELSE "ToCaptureOff"
       \/ /\ state = "Initial" /\ ~isSuccessfulResponse(response)
          /\ IF isTooManyRequestsResponse(response) THEN disableContextCapture
             ELSE UNCHANGED contextVars
          /\ state' = state
    /\ Loses(NoResponse, response)
    /\ UNCHANGED <<round, sent>> /\ UNCHANGED sessionVars

(* The capture-off state begins by disabling capturing. *)
disableCaptureAndClear ==
    /\ phase = "idle" /\ state = "ToCaptureOff" /\ state' = "CaptureOff"
    /\ disableContextCapture
    /\ UNCHANGED <<round, sent>> /\ UNCHANGED historyVars
    /\ UNCHANGED sessionVars /\ UNCHANGED clientVars

(* Mutant: the answer to a new session counts before that of a finished one. *)
PrefersNew(r) ==
    IF r.open # NoResponse THEN r.open
    ELSE IF r.new # NoResponse THEN r.new ELSE r.finished

lastStatusResponse(r) ==
    IF r.open # NoResponse THEN r.open
    ELSE IF r.finished # NoResponse THEN r.finished ELSE r.new

(* A response that was not applied as it came, and may be at the end. *)
Waiting == IF round.open # NoResponse THEN round.open ELSE round.finished

(* A round goes on with its response r, or leaves at once for capture off. *)
goesOn(r) ==
    IF isTooManyRequestsResponse(r) THEN state' = "ToCaptureOff" /\ round' = NoRound
    ELSE state' = state /\ round' = [round EXCEPT ![round.part] = r]

(* The answer to the new-session request of s. *)
newSessionResponse(s) ==
    /\ phase = "returned" /\ request.type = "NEW_SESSION" /\ s = request.url.session /\ taken
    /\ goesOn(response)
    /\ IF isSuccessfulResponse(response)
       THEN LET c == from(merge(mLastResponseAttributes, response.attributes))
                b == updateServerConfiguration(session[s], c)
            IN /\ updateFrom(response)
               /\ session' = [session EXCEPT ![s] = b]
               /\ proxy' = [proxy EXCEPT ![home[s]] =
                              onServerConfigurationUpdate(@, b.mServerConfiguration)]
               /\ givenBy' = [givenBy EXCEPT ![s] = c]
       ELSE UNCHANGED contextVars /\ UNCHANGED <<session, proxy, givenBy>>
    /\ Loses(NoResponse, response)
    /\ UNCHANGED <<created, home, sent>>

(* The answer to the last chunk of a session that was sent. *)
beaconResponse ==
    /\ phase = "returned" /\ request.type = "BEACON" /\ taken
    /\ goesOn(response)
    /\ Loses(Waiting, response)
    /\ UNCHANGED <<sent>> /\ UNCHANGED contextVars /\ UNCHANGED sessionVars

(* The end of a round: the last response is handled, if there is one. *)
endRound ==
    /\ phase = "idle" /\ state = "CaptureOn" /\ round.part # "sleep" /\ round' = NoRound
    /\ LET r == lastStatusResponse(round)
       IN IF r = NoResponse THEN UNCHANGED contextVars /\ state' = state
          ELSE /\ handleStatusResponse(r)
               /\ state' = IF mServerConfiguration'.capture THEN "CaptureOn" ELSE "ToCaptureOff"
    /\ UNCHANGED <<sent>> /\ UNCHANGED historyVars
    /\ UNCHANGED sessionVars /\ UNCHANGED clientVars

Quiet == /\ ClientNext /\ UNCHANGED <<sent>> /\ UNCHANGED historyVars
         /\ UNCHANGED contextVars /\ UNCHANGED stateVars /\ UNCHANGED sessionVars

Next ==
    \/ Quiet
    \/ sendStatusRequest \/ statusResponse \/ disableCaptureAndClear
    \/ beaconResponse \/ endRound \/ shutdown
    \/ \E s \in Sessions :
         \/ createSession(s) \/ sendNewSessionRequest(s) \/ newSessionResponse(s)
         \/ disableCapture(s) \/ enableCapture(s)
         \/ \E part \in {"finished", "open"} : sendBeaconRequest(s, part) \/ sendNothing(s, part)
         \/ \E t \in Sessions \ {s} : createSplitSession(s, t) \/ splitAndCreateNewInitialSession(s, t)

(* The sending thread goes on, and libcurl's time-outs (5 seconds to connect, *)
(* 30 for the transfer) end every transfer. *)
Progress == \/ curlInit \/ curlInitFails \/ sendRequestInternal \/ transferStep
            \/ performed \/ performFailed
Fairness == WF_vars(Progress /\ UNCHANGED <<sent, historyVars, contextVars, stateVars, sessionVars>>)

Spec == Init /\ [][Next]_vars /\ Fairness

--------------------------------------------------------------------------------

(***************************************************************************)
(* RequestReturns: every request ends, with an answer or with an error,    *)
(* whatever fails: at most three attempts are made.                        *)
(***************************************************************************)
RequestReturns == phase = "init" ~> phase = "returned"

(***************************************************************************)
(* LatestSettingWins: between two rounds, each setting of the context has  *)
(* the value the server has sent last, over any number of rounds whose     *)
(* answers are of either format and leave out different settings: the      *)
(* answer that is handled late, and those that are applied twice, never    *)
(* put an older value back, and defaults of a format never undo a setting. *)
(* Settings whose last value came in a response that the round discards    *)
(* (BeaconSendingCaptureOnState.cxx:86-95: all but one of the responses    *)
(* to beacons, and all of them after "too many requests") are excepted.    *)
(***************************************************************************)
LatestSettingWins ==
    round = NoRound => \A a \in ResponseAttribute \ discarded :
                          mLastResponseAttributes.value[a] = latest[a]

(***************************************************************************)
(* SessionSettingsStick: once a session is configured, its multiplicity,   *)
(* server, sampling, visit store version and split limits stay, whatever   *)
(* later answers and splits bring; a proxy keeps them likewise.            *)
(***************************************************************************)
Kept(c) == LET b == Builder(c)
           IN <<b.multiplicity, b.serverId, b.visitStoreVersion, b.trafficControl, b.maxEvents,
                b.splitByEvents, b.maxSessionDuration, b.splitByDuration,
                b.sessionTimeout, b.splitByIdleTimeout>>
SessionSettingsStick ==
    [][\A s \in Sessions :
         /\ session[s].mIsServerConfigurationSet =>
              /\ session'[s].mIsServerConfigurationSet
              /\ Kept(session'[s].mServerConfiguration) = Kept(session[s].mServerConfiguration)
         /\ proxy[s] # NoConfiguration => Kept(proxy'[s]) = Kept(proxy[s])]_vars

(***************************************************************************)
(* AnswerDecidesSession: a session counts as configured, so that its data  *)
(* are sent and it asks no more, only by an answer to its new-session      *)
(* request, by its proxy when it is split off, or by giving up; then it    *)
(* runs with exactly those settings.  What it was created with does not    *)
(* count, even if it comes from an answer.                                 *)
(***************************************************************************)
AnswerDecidesSession ==
    \A s \in Sessions :
        /\ session[s].mIsServerConfigurationSet = (givenBy[s] # NoConfiguration)
        /\ givenBy[s] # NoConfiguration => session[s].mServerConfiguration = givenBy[s]
================================================================================
