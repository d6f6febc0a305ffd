------------------------------ MODULE HTTPClient ------------------------------
(***************************************************************************)
(* One request of the HTTP client: it is tried until libcurl reports that  *)
(* an answer has arrived, or three times.  libcurl is external: it calls   *)
(* back for data to upload and with the lines and the body of the answers, *)
(* and may fail at any time.                                               *)
(***************************************************************************)
EXTENDS ResponseParser, SequencesExt

CONSTANTS Responses,        \* what servers answer: [code, retryAfter, body]
          Interims,         \* answers before the last one (100 Continue, a proxy's)
          InterceptedHeaders,  \* headers that customer code sets on a request
          BodyParts         \* parts in which a body arrives

ASSUME HTTPClientAssumption ==
    /\ BodyParts \in Nat \ {0}
    /\ \A r \in Responses \cup Interims :
         r.code \in 100..999 /\ r.retryAfter \in Seq(Range(r.retryAfter))

MAX_SEND_RETRIES == 3
INT32_MAX == 2147483647
NoWire == [code |-> -1, retryAfter |-> <<>>, body |-> BrokenBody]

VARIABLES
  request,     \* the request under way: its type, URL and beacon data
  phase,       \* where sendRequestInternal is
  retryCount,  \* its local variable
  curl,        \* options of the curl handle
  mReadBuffer, mReadBufferPos,
  parser,      \* the HTTPResponseParser of this attempt
  wire,        \* the answer libcurl is passing on
  passed,      \* its lines and body parts passed on so far
  uploaded,    \* what libcurl has read of the data to upload, in this attempt
  response     \* the status response that was returned

clientVars == <<request, phase, retryCount, curl, mReadBuffer, mReadBufferPos,
                parser, wire, passed, uploaded, response>>
transferVars == <<parser, wire, passed, uploaded, mReadBufferPos>>

-------------------------------------------------------------------------------

(* The parts of a body as they are passed on, and what they are together. *)
Parts(body) == [i \in 1..BodyParts |-> <<body, i>>]
Joined(parts) == IF parts # <<>> /\ parts = Parts(parts[1][1]) THEN parts[1][1] ELSE BrokenBody

NoRequest == [type |-> "NONE", url |-> [serverId |-> 0, newSession |-> FALSE, session |-> "none"],
              beaconData |-> <<>>]
NoOptions == [trustManager |-> FALSE, url |-> NoRequest.url, headers |-> <<>>,
              callbacks |-> FALSE, postFieldSize |-> 0]

initialParser == [mResponseStatus |-> -1, mResponseHeaders |-> <<>>, mResponseBody |-> <<>>]

NoResponse == [code |-> 0, headers |-> <<>>, attributes |-> withDefaults(UndefinedDefaults)]
createSuccessResponse(attributes, code, headers) ==
    [code |-> code, headers |-> headers, attributes |-> attributes]
createErrorResponse(code, headers) ==
    [code |-> code, headers |-> headers, attributes |-> withDefaults(UndefinedDefaults)]
unknownErrorResponse == createErrorResponse(INT32_MAX, <<>>)

isErroneousResponse(r) ==
    \/ r.code >= 400
    \/ "STATUS" \in r.attributes.set /\ r.attributes.value["STATUS"] = "ERROR"
isSuccessfulResponse(r) == ~isErroneousResponse(r)
isTooManyRequestsResponse(r) == r.code = 429

(* Milliseconds to wait: of the one Retry-After header if it is a number. *)
getRetryAfterInMilliseconds(r) ==
    IF Len(r.headers) = 1 /\ r.headers[1].kind = "number"
    THEN r.headers[1].number * 1000 ELSE 10 * 60 * 1000

(***************************************************************************)
(* The request's headers: customer code comes first and cannot set the     *)
(* restricted ones, then the client sets its own.                          *)
(***************************************************************************)
RESTRICTED_HEADERS == {"Host", "Content-Length"}
setHeader(headers, name, value) ==
    IF name \in RESTRICTED_HEADERS THEN headers ELSE (name :> value) @@ headers
intercepted(h) == [name \in DOMAIN h \ RESTRICTED_HEADERS |-> h[name]]

RequestHeaders(intercept) ==
    LET agent == setHeader(intercepted(intercept), "User-Agent", "OpenKit")
    IN IF request.beaconData = <<>> THEN agent
       ELSE setHeader(setHeader(agent, "X-Client-IP", "client"), "Content-Encoding", "gzip")

(* zlib: every block of the data is deflated; outData is replaced. *)
compressMemory(data) == [i \in DOMAIN data |-> <<"gzip", data[i]>>]

-------------------------------------------------------------------------------

ClientInit ==
    /\ request = NoRequest /\ phase = "idle" /\ retryCount = 0 /\ curl = NoOptions
    /\ mReadBuffer = <<>> /\ mReadBufferPos = 0 /\ parser = initialParser
    /\ wire = NoWire /\ passed = 0 /\ uploaded = <<>> /\ response = NoResponse

(* A new client (they are created for each use) is given a request. *)
sendRequest(type, url, beaconData) ==
    /\ phase = "idle"
    /\ request' = [type |-> type, url |-> url, beaconData |-> beaconData]
    /\ phase' = "init" /\ mReadBuffer' = <<>> /\ mReadBufferPos' = 0
    /\ UNCHANGED <<retryCount, curl, parser, wire, passed, uploaded, response>>

return(r) == /\ response' = r /\ phase' = "returned"
             /\ retryCount' = 0 /\ curl' = NoOptions

(* curl_easy_init() *)
curlInit ==
    /\ phase = "init"
    /\ phase' = "attempt"
    /\ UNCHANGED <<request, retryCount, curl, mReadBuffer, response>>
    /\ UNCHANGED transferVars
curlInitFails ==
    /\ phase = "init"
    /\ return(unknownErrorResponse)
    /\ UNCHANGED <<request, mReadBuffer>> /\ UNCHANGED transferVars

(* The body of the loop up to curl_easy_perform(). *)
sendRequestInternal ==
    /\ phase = "attempt"
    /\ \E h \in InterceptedHeaders :
         curl' = [trustManager |-> TRUE, url |-> request.url,
                  headers |-> RequestHeaders(h), callbacks |-> TRUE,
                  postFieldSize |-> Len(compressMemory(request.beaconData))]
    /\ IF request.beaconData # <<>>
       THEN mReadBuffer' = compressMemory(request.beaconData) /\ mReadBufferPos' = 0
       ELSE UNCHANGED <<mReadBuffer, mReadBufferPos>>
    /\ parser' = initialParser /\ wire' = NoWire /\ passed' = 0 /\ uploaded' = <<>>
    /\ phase' = "transfer"
    /\ UNCHANGED <<request, retryCount, response>>

(* libcurl asks for up to size blocks of the data to upload. *)
readFunction(size) ==
    LET available == Len(mReadBuffer) - mReadBufferPos
        written == IF size < available THEN size ELSE available
    IN /\ phase = "transfer" /\ Len(uploaded) < curl.postFieldSize /\ available > 0
       /\ mReadBufferPos' = mReadBufferPos + written
       /\ uploaded' = uploaded \o SubSeq(mReadBuffer, mReadBufferPos + 1, mReadBufferPos + written)
       /\ UNCHANGED <<request, phase, retryCount, curl, mReadBuffer, parser, wire, passed, response>>

Lines(r) == 1 + Len(r.retryAfter)
WholePassed == passed = Lines(wire) + (IF wire \in Interims THEN 0 ELSE BodyParts)

(* Mutant: a status line does not discard what came before it. *)
KeepsInterim(r) == parser' = [parser EXCEPT !.mResponseStatus = r.code]

reset(r) == parser' = [initialParser EXCEPT !.mResponseStatus = r.code]

(* A status line begins another answer. *)
responseStatusLine ==
    /\ phase = "transfer" /\ wire \in Interims \cup {NoWire} /\ (wire = NoWire \/ WholePassed)
    /\ \E r \in IF wire = NoWire THEN Responses \cup Interims ELSE Responses :
         /\ reset(r)
         /\ wire' = r /\ passed' = 1
    /\ UNCHANGED <<request, phase, retryCount, curl, mReadBuffer, mReadBufferPos, uploaded, response>>

(* A Retry-After header line; other headers are of no effect. *)
responseHeaderData ==
    /\ phase = "transfer" /\ wire # NoWire /\ passed < Lines(wire)
    /\ parser' = [parser EXCEPT !.mResponseHeaders = Append(@, wire.retryAfter[passed])]
    /\ passed' = passed + 1
    /\ UNCHANGED <<request, phase, retryCount, curl, mReadBuffer, mReadBufferPos, wire, uploaded, response>>

responseBodyData ==
    /\ phase = "transfer" /\ wire \notin Interims \cup {NoWire}
    /\ passed >= Lines(wire) /\ ~WholePassed
    /\ parser' = [parser EXCEPT !.mResponseBody =
                     Append(@, Parts(wire.body)[passed - Lines(wire) + 1])]
    /\ passed' = passed + 1
    /\ UNCHANGED <<request, phase, retryCount, curl, mReadBuffer, mReadBufferPos, wire, uploaded, response>>

handleResponse(p) ==
    IF p.mResponseStatus >= 400 THEN createErrorResponse(p.mResponseStatus, p.mResponseHeaders)
    ELSE IF ParseThrows(Joined(p.mResponseBody)) THEN unknownErrorResponse
    ELSE createSuccessResponse(parseResponse(Joined(p.mResponseBody)),
                               p.mResponseStatus, p.mResponseHeaders)

(* curl_easy_perform() returns CURLE_OK ... *)
performed ==
    /\ phase = "transfer" /\ wire \notin Interims \cup {NoWire} /\ WholePassed
    /\ return(handleResponse(parser))
    /\ UNCHANGED <<request, mReadBuffer>> /\ UNCHANGED transferVars

(* Mutant: the attempts are not counted. *)
RetriesForever ==
    /\ phase = "transfer"
    /\ curl' = NoOptions /\ phase' = "attempt"
    /\ UNCHANGED <<request, retryCount, mReadBuffer, response>> /\ UNCHANGED transferVars

(* ... or an error: the handle is reset and the request tried again. *)
performFailed ==
    /\ phase = "transfer"
    /\ IF retryCount + 1 < MAX_SEND_RETRIES
       THEN /\ retryCount' = retryCount + 1 /\ curl' = NoOptions /\ phase' = "attempt"
            /\ UNCHANGED response
       ELSE return(unknownErrorResponse)
    /\ UNCHANGED <<request, mReadBuffer>> /\ UNCHANGED transferVars

(* The caller has taken the status response. *)
taken == /\ phase = "returned" /\ phase' = "idle" /\ request' = NoRequest
         /\ response' = NoResponse /\ parser' = initialParser /\ wire' = NoWire
         /\ passed' = 0 /\ uploaded' = <<>> /\ mReadBuffer' = <<>> /\ mReadBufferPos' = 0
         /\ UNCHANGED <<retryCount, curl>>

(* Steps of libcurl in curl_easy_perform(). *)
transferStep == \/ \E size \in 1..2 : readFunction(size)
                \/ responseStatusLine \/ responseHeaderData \/ responseBodyData
ClientNext == \/ curlInit \/ curlInitFails \/ sendRequestInternal
              \/ transferStep \/ performed \/ performFailed

-------------------------------------------------------------------------------

(***************************************************************************)
(* AnswerIsLastResponse: the status response that is returned for a        *)
(* transfer that worked has the code, the Retry-After headers and the      *)
(* settings of the last answer of the server, complete and without         *)
(* anything of the answers before it (100 Continue, a proxy's answer) or   *)
(* of earlier attempts that failed.                                        *)
(***************************************************************************)
AnswerIsLastResponse ==
    phase = "returned" /\ response.code # INT32_MAX =>
       /\ wire \in Responses
       /\ response.code = wire.code /\ response.headers = wire.retryAfter
       /\ wire.code < 400 => response.attributes = parseResponse(wire.body)

===============================================================================
