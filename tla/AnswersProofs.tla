----------------------------- MODULE AnswersProofs -----------------------------
(***************************************************************************)
(* What is proved about the answers of the server, whatever servers answer *)
(* and in however many lines and parts: a status response is that of the   *)
(* last answer, and the settings that a session got are those it keeps.    *)
(***************************************************************************)
EXTENDS Answers, TLAPS

------------------------------------------------------------------------------
(***************************************************************************)
(* The invariant of a request: libcurl passes on an answer that servers    *)
(* give, and the parser holds of it what was passed on, and nothing else:  *)
(* its code, the header lines and the parts of the body so far.            *)
(***************************************************************************)
Answered == wire # NoWire

Wires == Responses \cup Interims

WireType == wire \in Wires \cup {NoWire}

ParserHolds ==
    phase = "transfer" /\ Answered =>
        LET lines == Lines(wire)
        IN /\ passed \in 1..(lines + BodyParts)
           /\ parser.mResponseStatus = wire.code
           /\ parser.mResponseHeaders =
                SubSeq(wire.retryAfter, 1, IF passed <= lines THEN passed - 1 ELSE lines - 1)
           /\ parser.mResponseBody =
                SubSeq(Parts(wire.body), 1, IF passed <= lines THEN 0 ELSE passed - lines)

ParserShape == parser = [mResponseStatus |-> parser.mResponseStatus,
                         mResponseHeaders |-> parser.mResponseHeaders,
                         mResponseBody |-> parser.mResponseBody]

ClientInv == WireType /\ ParserShape /\ ParserHolds /\ AnswerIsLastResponse

(* What servers send has a code and a sequence of header lines. *)
LEMMA WireFacts ==
    ASSUME NEW w \in Wires
    PROVE  /\ w.code \in 100..999
           /\ w # NoWire
           /\ w.retryAfter \in Seq(Range(w.retryAfter))
           /\ Len(w.retryAfter) \in Nat
           /\ Lines(w) = 1 + Len(w.retryAfter)
           /\ Lines(w) \in Nat
<1>1. w.code \in 100..999 /\ w.retryAfter \in Seq(Range(w.retryAfter))
  BY HTTPClientAssumption DEF Wires
<1>2. NoWire.code = -1
  BY DEF NoWire
<1>3. w # NoWire
  <2>1. SUFFICES ASSUME w = NoWire PROVE FALSE
    OBVIOUS
  <2>2. w.code = -1
    BY <2>1, <1>2
  <2> QED BY <2>2, <1>1
<1>4. Len(w.retryAfter) \in Nat
  BY <1>1
<1> QED BY <1>1, <1>3, <1>4 DEF Lines

(* A body in parts is a sequence. *)
LEMMA PartsFacts ==
    ASSUME NEW body
    PROVE  /\ Parts(body) \in Seq({body} \X (1..BodyParts))
           /\ Len(Parts(body)) = BodyParts
           /\ BodyParts \in Nat \ {0}
<1>1. BodyParts \in Nat \ {0}
  BY HTTPClientAssumption
<1>2. Parts(body) \in [1..BodyParts -> {body} \X (1..BodyParts)]
  BY DEF Parts
<1>3. Parts(body) \in Seq({body} \X (1..BodyParts))
  BY <1>1, <1>2
<1>4. Len(Parts(body)) = BodyParts
  BY <1>1, <1>2, <1>3
<1> QED BY <1>1, <1>3, <1>4

(* The parts of a body are the body again when all of them have arrived. *)
LEMMA JoinedParts == ASSUME NEW body PROVE Joined(Parts(body)) = body
<1>1. Len(Parts(body)) # 0
  BY PartsFacts
<1>2. Parts(body) # <<>>
  BY <1>1
<1>3. 1 \in 1..BodyParts
  BY HTTPClientAssumption
<1>4. Parts(body)[1] = <<body, 1>>
  BY <1>3 DEF Parts
<1>5. Parts(body)[1][1] = body
  BY <1>4
<1> QED BY <1>2, <1>5 DEF Joined

(* A further element of a sequence, behind the ones before it. *)
LEMMA SubSeqGrows ==
    ASSUME NEW S, NEW s \in Seq(S), NEW i \in 0..(Len(s) - 1)
    PROVE  Append(SubSeq(s, 1, i), s[i + 1]) = SubSeq(s, 1, i + 1)
OBVIOUS

(* The whole of a sequence, and nothing of it. *)
LEMMA SubSeqAll ==
    ASSUME NEW S, NEW s \in Seq(S)
    PROVE  SubSeq(s, 1, Len(s)) = s /\ SubSeq(s, 1, 0) = <<>>
OBVIOUS

------------------------------------------------------------------------------
(* Nothing has been passed on at first. *)
LEMMA InitClient == ClientInit => ClientInv
<1> SUFFICES ASSUME ClientInit PROVE ClientInv
  OBVIOUS
<1>1. WireType
  BY DEF ClientInit, WireType
<1>2. ParserShape
  BY DEF ClientInit, ParserShape, initialParser
<1>3. ParserHolds /\ AnswerIsLastResponse
  BY DEF ClientInit, ParserHolds, AnswerIsLastResponse
<1> QED BY <1>1, <1>2, <1>3 DEF ClientInv

(* Outside a transfer and before the return, nothing is asked of the parser. *)
LEMMA OutsideTransfer ==
    ASSUME WireType', ParserShape', phase' \notin {"transfer", "returned"}
    PROVE  ClientInv'
BY DEF ClientInv, ParserHolds, AnswerIsLastResponse

(* A request that is given up returns an error that no server sends. *)
LEMMA Unanswered ==
    ASSUME WireType', ParserShape', return(unknownErrorResponse)
    PROVE  ClientInv'
<1>1. response'.code = INT32_MAX /\ phase' = "returned"
  BY DEF return, unknownErrorResponse, createErrorResponse
<1> QED BY <1>1 DEF ClientInv, ParserHolds, AnswerIsLastResponse

(* A status line: the parser holds the code of the new answer only. *)
LEMMA StatusLineHolds == ASSUME ClientInv, responseStatusLine PROVE ClientInv'
<1>1. PICK r \in Wires : reset(r) /\ wire' = r /\ passed' = 1
  BY DEF responseStatusLine, Wires
<1>2. phase' = "transfer"
  BY DEF responseStatusLine
<1>3. parser' = [mResponseStatus |-> r.code, mResponseHeaders |-> <<>>, mResponseBody |-> <<>>]
  BY <1>1 DEF reset, initialParser
<1>4. WireType' /\ ParserShape'
  BY <1>1, <1>3 DEF WireType, ParserShape
<1>5. ParserHolds'
  <2>1. /\ Lines(r) \in Nat /\ Lines(r) = 1 + Len(r.retryAfter)
        /\ r.retryAfter \in Seq(Range(r.retryAfter)) /\ Len(r.retryAfter) \in Nat
    BY WireFacts
  <2>2. BodyParts \in Nat \ {0} /\ Parts(r.body) \in Seq({r.body} \X (1..BodyParts))
    BY PartsFacts
  <2>3. SubSeq(r.retryAfter, 1, 0) = <<>> /\ SubSeq(Parts(r.body), 1, 0) = <<>>
    BY <2>1, <2>2, SubSeqAll
  <2>4. 1 \in 1..(Lines(r) + BodyParts) /\ 1 <= Lines(r) /\ 1 - 1 = 0
    BY <2>1, <2>2
  <2> QED BY <1>1, <1>3, <2>3, <2>4 DEF ParserHolds
<1>6. AnswerIsLastResponse'
  BY <1>2 DEF AnswerIsLastResponse
<1> QED BY <1>4, <1>5, <1>6 DEF ClientInv

(* A header line: one more of the answer's header lines. *)
LEMMA HeaderHolds == ASSUME ClientInv, responseHeaderData PROVE ClientInv'
<1>1. /\ phase = "transfer" /\ phase' = "transfer" /\ wire # NoWire /\ wire' = wire
      /\ passed < Lines(wire) /\ passed' = passed + 1
      /\ parser' = [parser EXCEPT !.mResponseHeaders = Append(@, wire.retryAfter[passed])]
  BY DEF responseHeaderData
<1>2. wire \in Wires
  BY <1>1 DEF ClientInv, WireType
<1>3. /\ Lines(wire) \in Nat /\ Lines(wire) = 1 + Len(wire.retryAfter)
      /\ wire.retryAfter \in Seq(Range(wire.retryAfter)) /\ Len(wire.retryAfter) \in Nat
  BY <1>2, WireFacts
<1>4. BodyParts \in Nat \ {0}
  BY PartsFacts
<1>5. /\ passed \in 1..(Lines(wire) + BodyParts)
      /\ parser.mResponseStatus = wire.code
      /\ parser.mResponseHeaders =
           SubSeq(wire.retryAfter, 1, IF passed <= Lines(wire) THEN passed - 1 ELSE Lines(wire) - 1)
      /\ parser.mResponseBody =
           SubSeq(Parts(wire.body), 1, IF passed <= Lines(wire) THEN 0 ELSE passed - Lines(wire))
  BY <1>1 DEF ClientInv, ParserHolds, Answered
<1>6. parser = [mResponseStatus |-> parser.mResponseStatus,
                mResponseHeaders |-> parser.mResponseHeaders,
                mResponseBody |-> parser.mResponseBody]
  BY DEF ClientInv, ParserShape
<1>7. parser' = [mResponseStatus |-> parser.mResponseStatus,
                 mResponseHeaders |-> Append(parser.mResponseHeaders, wire.retryAfter[passed]),
                 mResponseBody |-> parser.mResponseBody]
  BY <1>1, <1>6
<1>8. passed \in Nat /\ passed >= 1 /\ passed <= Lines(wire) /\ passed + 1 <= Lines(wire)
  BY SMTT(60), <1>1, <1>3, <1>4, <1>5
<1>9. WireType' /\ ParserShape' /\ AnswerIsLastResponse'
  BY <1>1, <1>2, <1>7 DEF WireType, ParserShape, AnswerIsLastResponse
<1>10. ParserHolds'
  <2>1. passed - 1 \in 0..(Len(wire.retryAfter) - 1)
    BY <1>3, <1>8
  <2>2. Append(SubSeq(wire.retryAfter, 1, passed - 1), wire.retryAfter[(passed - 1) + 1])
          = SubSeq(wire.retryAfter, 1, (passed - 1) + 1)
    BY <2>1, <1>3, SubSeqGrows
  <2>3. (passed - 1) + 1 = passed /\ (passed + 1) - 1 = passed
    BY <1>8
  <2>4. parser'.mResponseHeaders = SubSeq(wire.retryAfter, 1, passed)
    BY <2>2, <2>3, <1>5, <1>7, <1>8
  <2>5. parser'.mResponseBody = SubSeq(Parts(wire.body), 1, 0)
    BY <1>5, <1>7, <1>8
  <2>6. passed + 1 \in 1..(Lines(wire) + BodyParts)
    BY <1>3, <1>4, <1>8
  <2>7. parser'.mResponseStatus = wire.code
    BY <1>5, <1>7
  <2> QED BY <1>1, <1>8, <2>3, <2>4, <2>5, <2>6, <2>7 DEF ParserHolds
<1> QED BY <1>9, <1>10 DEF ClientInv

(* A part of the body: all header lines are there, and one more part. *)
LEMMA BodyHolds == ASSUME ClientInv, responseBodyData PROVE ClientInv'
<1>1. /\ phase = "transfer" /\ phase' = "transfer" /\ wire \notin Interims /\ wire # NoWire
      /\ wire' = wire /\ passed >= Lines(wire) /\ passed' = passed + 1 /\ ~WholePassed
      /\ parser' = [parser EXCEPT !.mResponseBody =
                      Append(@, Parts(wire.body)[passed - Lines(wire) + 1])]
  BY DEF responseBodyData
<1>2. wire \in Wires
  BY <1>1 DEF ClientInv, WireType
<1>3. /\ Lines(wire) \in Nat /\ Lines(wire) = 1 + Len(wire.retryAfter)
      /\ wire.retryAfter \in Seq(Range(wire.retryAfter)) /\ Len(wire.retryAfter) \in Nat
  BY <1>2, WireFacts
<1>4. /\ BodyParts \in Nat \ {0} /\ Parts(wire.body) \in Seq({wire.body} \X (1..BodyParts))
      /\ Len(Parts(wire.body)) = BodyParts
  BY PartsFacts
<1>5. /\ passed \in 1..(Lines(wire) + BodyParts)
      /\ parser.mResponseStatus = wire.code
      /\ parser.mResponseHeaders =
           SubSeq(wire.retryAfter, 1, IF passed <= Lines(wire) THEN passed - 1 ELSE Lines(wire) - 1)
      /\ parser.mResponseBody =
           SubSeq(Parts(wire.body), 1, IF passed <= Lines(wire) THEN 0 ELSE passed - Lines(wire))
  BY <1>1 DEF ClientInv, ParserHolds, Answered
<1>6. parser = [mResponseStatus |-> parser.mResponseStatus,
                mResponseHeaders |-> parser.mResponseHeaders,
                mResponseBody |-> parser.mResponseBody]
  BY DEF ClientInv, ParserShape
<1> DEFINE n == passed - Lines(wire)
<1>7. parser' = [mResponseStatus |-> parser.mResponseStatus,
                 mResponseHeaders |-> parser.mResponseHeaders,
                 mResponseBody |-> Append(parser.mResponseBody, Parts(wire.body)[n + 1])]
  BY <1>1, <1>6
<1>8. passed # Lines(wire) + BodyParts
  BY <1>1 DEF WholePassed
<1>9. n \in 0..(BodyParts - 1) /\ passed \in Nat /\ (passed <= Lines(wire) => passed = Lines(wire) /\ n = 0)
  <2>1. passed \in 1..(Lines(wire) + BodyParts) /\ passed >= Lines(wire)
    BY <1>1, <1>5
  <2>2. Lines(wire) \in Nat /\ BodyParts \in Nat
    BY <1>3, <1>4
  <2> QED BY <2>1, <2>2, <1>8
<1>10. WireType' /\ ParserShape' /\ AnswerIsLastResponse'
  BY <1>1, <1>2, <1>7 DEF WireType, ParserShape, AnswerIsLastResponse
<1>11. ParserHolds'
  <2>1. /\ parser.mResponseHeaders = SubSeq(wire.retryAfter, 1, Lines(wire) - 1)
        /\ parser.mResponseBody = SubSeq(Parts(wire.body), 1, n)
    BY <1>3, <1>5, <1>9
  <2>2. Append(SubSeq(Parts(wire.body), 1, n), Parts(wire.body)[n + 1])
          = SubSeq(Parts(wire.body), 1, n + 1)
    BY <1>4, <1>9, SubSeqGrows
  <2>3. parser'.mResponseBody = SubSeq(Parts(wire.body), 1, n + 1)
    BY <1>7, <2>1, <2>2
  <2>4. /\ passed + 1 \in 1..(Lines(wire) + BodyParts) /\ ~(passed + 1 <= Lines(wire))
        /\ (passed + 1) - Lines(wire) = n + 1
    <3>1. passed \in 1..(Lines(wire) + BodyParts) /\ passed >= Lines(wire)
      BY <1>1, <1>5
    <3>2. Lines(wire) \in Nat /\ BodyParts \in Nat
      BY <1>3, <1>4
    <3> QED BY <3>1, <3>2, <1>8
  <2>5. parser'.mResponseStatus = wire.code
        /\ parser'.mResponseHeaders = SubSeq(wire.retryAfter, 1, Lines(wire) - 1)
    BY <1>5, <1>7, <2>1
  <2> QED BY <1>1, <2>3, <2>4, <2>5 DEF ParserHolds
<1> QED BY <1>10, <1>11 DEF ClientInv

(* The transfer has worked: what is returned is made of the whole answer. *)
LEMMA PerformedHolds == ASSUME ClientInv, performed PROVE ClientInv'
<1>1. /\ phase = "transfer" /\ phase' = "returned" /\ wire \notin Interims /\ wire # NoWire
      /\ wire' = wire /\ parser' = parser /\ WholePassed /\ response' = handleResponse(parser)
  BY DEF performed, return, transferVars
<1>2. wire \in Wires /\ wire \in Responses
  BY <1>1 DEF ClientInv, WireType, Wires
<1>3. /\ Lines(wire) \in Nat /\ Lines(wire) = 1 + Len(wire.retryAfter)
      /\ wire.retryAfter \in Seq(Range(wire.retryAfter)) /\ Len(wire.retryAfter) \in Nat
      /\ wire.code \in 100..999
  BY <1>2, WireFacts
<1>4. /\ BodyParts \in Nat \ {0} /\ Parts(wire.body) \in Seq({wire.body} \X (1..BodyParts))
      /\ Len(Parts(wire.body)) = BodyParts
  BY PartsFacts
<1>5. passed = Lines(wire) + BodyParts
  BY <1>1 DEF WholePassed
<1>6. ~(passed <= Lines(wire)) /\ passed - Lines(wire) = BodyParts /\ Lines(wire) - 1 = Len(wire.retryAfter)
  BY <1>3, <1>4, <1>5
<1>7. /\ parser.mResponseStatus = wire.code
      /\ parser.mResponseHeaders = SubSeq(wire.retryAfter, 1, Len(wire.retryAfter))
      /\ parser.mResponseBody = SubSeq(Parts(wire.body), 1, Len(Parts(wire.body)))
  BY <1>1, <1>4, <1>6 DEF ClientInv, ParserHolds, Answered
<1>8. /\ parser.mResponseStatus = wire.code /\ parser.mResponseHeaders = wire.retryAfter
      /\ Joined(parser.mResponseBody) = wire.body
  <2>1. SubSeq(wire.retryAfter, 1, Len(wire.retryAfter)) = wire.retryAfter
    BY <1>3, SubSeqAll
  <2>2. SubSeq(Parts(wire.body), 1, Len(Parts(wire.body))) = Parts(wire.body)
    BY <1>4, SubSeqAll
  <2>3. Joined(Parts(wire.body)) = wire.body
    BY JoinedParts
  <2> QED BY <1>7, <2>1, <2>2, <2>3
<1>9. WireType' /\ ParserShape' /\ ParserHolds'
  BY <1>1 DEF ClientInv, WireType, ParserShape, ParserHolds
<1>10. AnswerIsLastResponse'
  <2>1. CASE wire.code >= 400
    <3>1. response' = createErrorResponse(wire.code, wire.retryAfter)
      BY <1>1, <1>8, <2>1 DEF handleResponse
    <3>2. response'.code = wire.code /\ response'.headers = wire.retryAfter
      BY <3>1 DEF createErrorResponse
    <3>3. wire.code \in 100..999
      BY <1>3
    <3>4. wire.code \in Int
      BY <3>3
    <3>5. ~(wire.code < 400)
      BY <3>4, <2>1
    <3> QED BY <1>1, <1>2, <3>2, <3>5 DEF AnswerIsLastResponse
  <2>2. CASE ~(wire.code >= 400) /\ ParseThrows(wire.body)
    <3>1. response'.code = INT32_MAX
      BY <1>1, <1>8, <2>2 DEF handleResponse, unknownErrorResponse, createErrorResponse
    <3> QED BY <3>1 DEF AnswerIsLastResponse
  <2>3. CASE ~(wire.code >= 400) /\ ~ParseThrows(wire.body)
    <3>1. response' = createSuccessResponse(parseResponse(wire.body), wire.code, wire.retryAfter)
      BY <1>1, <1>8, <2>3 DEF handleResponse
    <3> QED BY <1>1, <1>2, <3>1 DEF AnswerIsLastResponse, createSuccessResponse
  <2> QED BY <2>1, <2>2, <2>3
<1> QED BY <1>9, <1>10 DEF ClientInv

(* The same when a step leaves the transfer's state and the response alone. *)
LEMMA ClientAtRest ==
    ASSUME ClientInv, UNCHANGED <<phase, parser, wire, passed, response>>
    PROVE  ClientInv'
<1>1. phase' = phase /\ parser' = parser /\ wire' = wire /\ passed' = passed /\ response' = response
  OBVIOUS
<1>2. WireType' /\ ParserShape'
  BY <1>1 DEF ClientInv, WireType, ParserShape
<1>3. ParserHolds' /\ AnswerIsLastResponse'
  BY <1>1 DEF ClientInv, ParserHolds, AnswerIsLastResponse, Answered
<1> QED BY <1>2, <1>3 DEF ClientInv

(* Every step of the client and of libcurl keeps the invariant. *)
LEMMA ClientNextHolds == ASSUME ClientInv, ClientNext PROVE ClientInv'
<1>1. CASE curlInit
  <2>1. WireType' /\ ParserShape' /\ phase' = "attempt"
    BY <1>1 DEF curlInit, transferVars, ClientInv, WireType, ParserShape
  <2> QED BY <2>1, OutsideTransfer
<1>2. CASE curlInitFails
  <2>1. WireType' /\ ParserShape' /\ return(unknownErrorResponse)
    BY <1>2 DEF curlInitFails, transferVars, ClientInv, WireType, ParserShape
  <2> QED BY <2>1, Unanswered
<1>3. CASE sendRequestInternal
  <2>1. parser' = initialParser /\ wire' = NoWire /\ phase' = "transfer"
    BY <1>3 DEF sendRequestInternal
  <2>2. ParserShape'
    BY <2>1 DEF ParserShape, initialParser
  <2> QED BY <2>1, <2>2 DEF ClientInv, WireType, ParserHolds, Answered, AnswerIsLastResponse
<1>4. CASE \E size \in 1..2 : readFunction(size)
  <2>1. UNCHANGED <<phase, parser, wire, passed, response>>
    BY <1>4 DEF readFunction
  <2> QED BY <2>1, ClientAtRest
<1>5. CASE responseStatusLine
  BY <1>5, StatusLineHolds
<1>6. CASE responseHeaderData
  BY <1>6, HeaderHolds
<1>7. CASE responseBodyData
  BY <1>7, BodyHolds
<1>8. CASE performed
  BY <1>8, PerformedHolds
<1>9. CASE performFailed
  <2>1. WireType' /\ ParserShape'
    BY <1>9 DEF performFailed, transferVars, ClientInv, WireType, ParserShape
  <2>2. phase' = "attempt" \/ return(unknownErrorResponse)
    BY <1>9 DEF performFailed
  <2> QED BY <2>1, <2>2, Unanswered, OutsideTransfer
<1> QED BY <1>1, <1>2, <1>3, <1>4, <1>5, <1>6, <1>7, <1>8, <1>9 DEF ClientNext, transferStep

(* A request begins, and an answer is taken: nothing is under way. *)
LEMMA TakenHolds == ASSUME ClientInv, taken PROVE ClientInv'
<1>1. parser' = initialParser /\ wire' = NoWire /\ phase' = "idle"
  BY DEF taken
<1>2. ParserShape' /\ WireType'
  BY <1>1 DEF ParserShape, initialParser, WireType
<1> QED BY <1>1, <1>2, OutsideTransfer

(* Every step of the sending thread and of the application keeps the invariant. *)
LEMMA NextClientInv == ASSUME ClientInv, [Next]_vars PROVE ClientInv'
<1>1. CASE Quiet
  BY <1>1, ClientNextHolds DEF Quiet
<1>2. ASSUME NEW type, NEW url, NEW data, Sends(type, url, data)
      PROVE  ClientInv'
  <2>1. WireType' /\ ParserShape' /\ phase' = "init"
    BY <1>2 DEF Sends, sendRequest, ClientInv, WireType, ParserShape
  <2> QED BY <2>1, OutsideTransfer
<1>3. CASE sendStatusRequest
  BY <1>2, <1>3 DEF sendStatusRequest
<1>4. CASE statusResponse \/ beaconResponse
  BY <1>4, TakenHolds DEF statusResponse, beaconResponse
<1>5. ASSUME NEW s \in Sessions, NEW t \in Sessions,
             \/ createSession(s) \/ disableCapture(s) \/ enableCapture(s)
             \/ createSplitSession(s, t) \/ splitAndCreateNewInitialSession(s, t)
             \/ \E part \in {"finished", "open"} : sendNothing(s, part)
      PROVE  ClientInv'
  <2>1. UNCHANGED <<phase, parser, wire, passed, response>>
    BY <1>5 DEF createSession, disableCapture, enableCapture, switchCapture, createSplitSession,
                splitAndCreateNewInitialSession, BeginsFor, ApplicationStep, sendNothing, clientVars
  <2> QED BY <2>1, ClientAtRest
<1>6. ASSUME NEW s \in Sessions, sendNewSessionRequest(s) PROVE ClientInv'
  BY <1>2, <1>6 DEF sendNewSessionRequest
<1>7. ASSUME NEW s \in Sessions, \E part \in {"finished", "open"} : sendBeaconRequest(s, part)
      PROVE  ClientInv'
  BY <1>2, <1>7 DEF sendBeaconRequest
<1>10. CASE endRound \/ shutdown \/ disableCaptureAndClear
  <2>1. UNCHANGED <<phase, parser, wire, passed, response>>
    BY <1>10 DEF endRound, shutdown, disableCaptureAndClear, clientVars
  <2> QED BY <2>1, ClientAtRest
<1>8. ASSUME NEW s \in Sessions, newSessionResponse(s) PROVE ClientInv'
  BY <1>8, TakenHolds DEF newSessionResponse
<1>9. CASE UNCHANGED vars
  BY <1>9, ClientAtRest DEF vars, clientVars
<1> QED BY <1>1, <1>3, <1>4, <1>5, <1>6, <1>7, <1>8, <1>9, <1>10 DEF Next

(* The parser holds exactly what was passed on of the present answer. *)
LEMMA ClientInvariant == Spec => []ClientInv
<1>1. Init => ClientInv
  BY InitClient DEF Init
<1>2. ClientInv /\ [Next]_vars => ClientInv'
  BY NextClientInv
<1> QED BY <1>1, <1>2, PTL DEF Spec

(***************************************************************************)
(* A status response is that of the last answer: whatever answers servers  *)
(* give, in however many header lines and parts of the body, and whatever  *)
(* interim answers and failed attempts came before.                        *)
(***************************************************************************)
THEOREM LastAnswerCounts == Spec => []AnswerIsLastResponse
<1>1. ClientInv => AnswerIsLastResponse
  BY DEF ClientInv
<1> QED BY <1>1, ClientInvariant, PTL

------------------------------------------------------------------------------
(***************************************************************************)
(* The invariant of rounds: of each setting that was not discarded, the    *)
(* last value is in the response that is handled at the end of the round,  *)
(* if that has it, and otherwise in the context already.  The context has  *)
(* what the last answer for a new session set, so that applying it again   *)
(* changes nothing; and a response for a finished session that another     *)
(* response hides has nothing left to say.                                 *)
(***************************************************************************)
RoundShape ==
    /\ round = [part |-> round.part, new |-> round.new, finished |-> round.finished,
                open |-> round.open]
    /\ round.part \in {"sleep", "new", "finished", "open"}
    /\ round.part \in {"sleep", "new"} => round.finished = NoResponse
    /\ round.part # "open" => round.open = NoResponse
    /\ round.part = "sleep" => round.new = NoResponse
    /\ state # "CaptureOn" => round = NoRound

RequestOfPart ==
    /\ phase # "idle" /\ request.type = "STATUS" => state \in {"Initial", "CaptureOff"}
    /\ phase # "idle" /\ request.type = "NEW_SESSION" => state = "CaptureOn" /\ round.part = "new"
    /\ phase # "idle" /\ request.type = "BEACON" =>
         state = "CaptureOn" /\ round.part \in {"finished", "open"}

LastIsSomewhere ==
    \A a \in ResponseAttribute \ discarded :
        LET r == lastStatusResponse(round)
        IN latest[a] = IF a \in SetBy(r) THEN r.attributes.value[a]
                       ELSE mLastResponseAttributes.value[a]

NewIsApplied ==
    \A a \in ResponseAttribute \cap SetBy(round.new) :
        mLastResponseAttributes.value[a] = round.new.attributes.value[a]

HiddenIsDiscarded ==
    round.open # NoResponse => SetBy(round.finished) \subseteq discarded \cup SetBy(round.open)

RoundInv == /\ RoundShape /\ RequestOfPart /\ LastIsSomewhere
            /\ NewIsApplied /\ HiddenIsDiscarded

(* No response sets nothing, and an error sets nothing. *)
LEMMA NothingSet == SetBy(NoResponse) = {} /\ \A r : isErroneousResponse(r) => SetBy(r) = {}
<1>1. NoResponse.attributes.set = {}
  BY DEF NoResponse, withDefaults
<1> QED BY <1>1 DEF SetBy, isSuccessfulResponse

(* What the context has after it was updated with a successful response. *)
LEMMA UpdatedAttributes ==
    ASSUME NEW r, isSuccessfulResponse(r), updateFrom(r)
    PROVE  \A a \in ResponseAttribute :
              mLastResponseAttributes'.value[a] =
                IF a \in SetBy(r) THEN r.attributes.value[a] ELSE mLastResponseAttributes.value[a]
<1> DEFINE found == [a \in r.attributes.set |-> r.attributes.value[a]]
<1>1. mLastResponseAttributes'.value =
        [a \in ResponseAttribute |-> IF a \in DOMAIN found THEN found[a]
                                    ELSE mLastResponseAttributes.value[a]]
  BY DEF updateFrom, merge, with
<1>2. DOMAIN found = SetBy(r) /\ \A a \in SetBy(r) : found[a] = r.attributes.value[a]
  BY DEF SetBy
<1> HIDE DEF found
<1> QED BY <1>1, <1>2

(* A step that leaves the responses, the context and the histories alone. *)
LEMMA RoundAtRest ==
    ASSUME RoundInv, RoundShape', RequestOfPart',
           round'.new = round.new, round'.finished = round.finished, round'.open = round.open,
           mLastResponseAttributes' = mLastResponseAttributes, UNCHANGED historyVars
    PROVE  RoundInv'
<1>1. latest' = latest /\ discarded' = discarded
  BY DEF historyVars
<1>2. lastStatusResponse(round)' = lastStatusResponse(round)
  BY DEF lastStatusResponse
<1>3. LastIsSomewhere'
  BY <1>1, <1>2 DEF RoundInv, LastIsSomewhere
<1>4. NewIsApplied' /\ HiddenIsDiscarded'
  BY <1>1 DEF RoundInv, NewIsApplied, HiddenIsDiscarded
<1> QED BY <1>3, <1>4 DEF RoundInv

(* Nothing is waiting in a round that has ended or not begun. *)
LEMMA NoRoundFacts ==
    /\ NoRound.part = "sleep" /\ NoRound.new = NoResponse /\ NoRound.finished = NoResponse
    /\ NoRound.open = NoResponse /\ lastStatusResponse(NoRound) = NoResponse
    /\ NoRound = [part |-> NoRound.part, new |-> NoRound.new, finished |-> NoRound.finished,
                  open |-> NoRound.open]
BY DEF NoRound, lastStatusResponse

(* After a round, or before it: all that counts is in the context. *)
LEMMA RoundIsOver ==
    ASSUME round' = NoRound, phase' = "idle",
           \A a \in ResponseAttribute \ discarded' : latest'[a] = mLastResponseAttributes'.value[a]
    PROVE  RoundInv'
<1>1. RoundShape' /\ RequestOfPart' /\ HiddenIsDiscarded'
  BY NoRoundFacts DEF RoundShape, RequestOfPart, HiddenIsDiscarded
<1>2. LastIsSomewhere' /\ NewIsApplied'
  BY NoRoundFacts, NothingSet DEF LastIsSomewhere, NewIsApplied
<1> QED BY <1>1, <1>2 DEF RoundInv

(* At first the context has the defaults, which are the last values. *)
LEMMA InitRound == Init => RoundInv
<1> SUFFICES ASSUME Init PROVE RoundInv
  OBVIOUS
<1>1. /\ round = NoRound /\ phase = "idle" /\ latest = UndefinedDefaults
      /\ mLastResponseAttributes.value = UndefinedDefaults
  BY DEF Init, ClientInit, withDefaults
<1>2. RoundShape /\ RequestOfPart /\ HiddenIsDiscarded
  BY <1>1, NoRoundFacts DEF RoundShape, RequestOfPart, HiddenIsDiscarded
<1>3. LastIsSomewhere /\ NewIsApplied
  BY <1>1, NoRoundFacts, NothingSet DEF LastIsSomewhere, NewIsApplied
<1> QED BY <1>2, <1>3 DEF RoundInv

(* What the histories become when an answer arrives in place of r. *)
LEMMA Losing ==
    ASSUME NEW r, NEW answer, Loses(r, answer)
    PROVE  \A a \in ResponseAttribute \ discarded' :
              /\ a \in SetBy(answer) => latest'[a] = answer.attributes.value[a]
              /\ a \notin SetBy(answer) =>
                   latest'[a] = latest[a] /\ a \notin discarded /\ a \notin SetBy(r)
BY DEF Loses

(* The answer to a status request is handled at once. *)
LEMMA StatusKeepsRound == ASSUME RoundInv, statusResponse PROVE RoundInv'
<1>1. round = NoRound /\ round' = NoRound /\ phase' = "idle" /\ Loses(NoResponse, response)
  BY DEF RoundInv, RoundShape, RequestOfPart, statusResponse, taken
<1>2. \A a \in ResponseAttribute \ discarded : latest[a] = mLastResponseAttributes.value[a]
  BY <1>1, NoRoundFacts, NothingSet DEF RoundInv, LastIsSomewhere
<1>3. CASE isSuccessfulResponse(response)
  <2>1. updateFrom(response)
    BY <1>3 DEF statusResponse, handleStatusResponse, isSuccessfulResponse
  <2> QED BY <1>1, <1>2, <1>3, <2>1, Losing, UpdatedAttributes, RoundIsOver
<1>4. CASE ~isSuccessfulResponse(response)
  <2>1. mLastResponseAttributes' = mLastResponseAttributes
    BY <1>4 DEF statusResponse, handleStatusResponse, isSuccessfulResponse, disableContextCapture,
                contextVars
  <2>2. SetBy(response) = {}
    BY <1>4 DEF SetBy
  <2> QED BY <1>1, <1>2, <2>1, <2>2, Losing, RoundIsOver
<1> QED BY <1>3, <1>4

(* The answer for a new session is applied, and is the last of the round. *)
LEMMA NewSessionKeepsRound ==
    ASSUME RoundInv, NEW s \in Sessions, newSessionResponse(s) PROVE RoundInv'
<1>1. /\ phase' = "idle" /\ goesOn(response) /\ Loses(NoResponse, response)
      /\ state = "CaptureOn" /\ round.part = "new"
  BY DEF RoundInv, RequestOfPart, newSessionResponse, taken
<1>2. /\ round.finished = NoResponse /\ round.open = NoResponse
      /\ lastStatusResponse(round) = round.new
      /\ round = [part |-> "new", new |-> round.new, finished |-> NoResponse, open |-> NoResponse]
  BY <1>1 DEF RoundInv, RoundShape, lastStatusResponse
<1>3. \A a \in ResponseAttribute \ discarded : latest[a] = mLastResponseAttributes.value[a]
  BY <1>2 DEF RoundInv, LastIsSomewhere, NewIsApplied
<1>4. \A a \in ResponseAttribute :
         mLastResponseAttributes'.value[a] = IF a \in SetBy(response) THEN response.attributes.value[a]
                                             ELSE mLastResponseAttributes.value[a]
  <2>1. CASE isSuccessfulResponse(response)
    <3>1. updateFrom(response)
      BY <2>1 DEF newSessionResponse
    <3> QED BY <2>1, <3>1, UpdatedAttributes
  <2>2. CASE ~isSuccessfulResponse(response)
    <3>1. mLastResponseAttributes' = mLastResponseAttributes
      BY <2>2 DEF newSessionResponse, contextVars
    <3> QED BY <2>2, <3>1 DEF SetBy
  <2> QED BY <2>1, <2>2
<1>5. \A a \in ResponseAttribute \ discarded' : latest'[a] = mLastResponseAttributes'.value[a]
  BY <1>1, <1>3, <1>4, Losing
<1>6. CASE isTooManyRequestsResponse(response)
  BY <1>1, <1>5, <1>6, RoundIsOver DEF goesOn
<1>7. CASE ~isTooManyRequestsResponse(response)
  <2>1. round' = [part |-> "new", new |-> response, finished |-> NoResponse, open |-> NoResponse]
    BY <1>1, <1>2, <1>7 DEF goesOn
  <2>2. state' = "CaptureOn"
    BY <1>1, <1>7 DEF goesOn
  <2>3. RoundShape' /\ RequestOfPart' /\ HiddenIsDiscarded'
    BY <1>1, <2>1, <2>2 DEF RoundShape, RequestOfPart, HiddenIsDiscarded
  <2>4. lastStatusResponse(round') = response
    BY <2>1 DEF lastStatusResponse
  <2>5. LastIsSomewhere' /\ NewIsApplied'
    BY <1>4, <1>5, <2>1, <2>4 DEF LastIsSomewhere, NewIsApplied
  <2> QED BY <2>3, <2>5 DEF RoundInv
<1> QED BY <1>6, <1>7

(* What a request returned has a code. *)
LEMMA SomeResponse == ASSUME ClientInv, phase = "returned" PROVE response # NoResponse
<1>1. response.code = INT32_MAX \/ (wire \in Wires /\ response.code = wire.code)
  BY DEF ClientInv, AnswerIsLastResponse, Wires
<1>2. response.code \in Int /\ response.code > 0
  <2>1. CASE response.code = INT32_MAX
    BY <2>1 DEF INT32_MAX
  <2>2. CASE wire \in Wires /\ response.code = wire.code
    <3>1. wire.code \in 100..999
      BY <2>2, WireFacts
    <3> QED BY <2>2, <3>1
  <2> QED BY <1>1, <2>1, <2>2
<1>3. NoResponse.code = 0
  BY DEF NoResponse
<1> QED BY <1>2, <1>3

(* The answer for a beacon hides the one before it, until the round ends. *)
LEMMA BeaconKeepsRound == ASSUME RoundInv, ClientInv, beaconResponse PROVE RoundInv'
<1>1. /\ phase' = "idle" /\ goesOn(response) /\ Loses(Waiting, response)
      /\ state = "CaptureOn" /\ round.part \in {"finished", "open"}
      /\ mLastResponseAttributes' = mLastResponseAttributes
  BY DEF RoundInv, RequestOfPart, beaconResponse, taken, contextVars
<1>2. round = [part |-> round.part, new |-> round.new, finished |-> round.finished,
               open |-> round.open]
  BY DEF RoundInv, RoundShape
<1>3. round.part # "open" => round.open = NoResponse
  BY DEF RoundInv, RoundShape
<1>4. \A a \in ResponseAttribute \ discarded :
         a \notin SetBy(Waiting) => latest[a] = mLastResponseAttributes.value[a]
  <2>1. CASE Waiting = NoResponse
    <3>1. lastStatusResponse(round) = round.new
      BY <2>1 DEF lastStatusResponse, Waiting
    <3> QED BY <3>1 DEF RoundInv, LastIsSomewhere, NewIsApplied
  <2>2. CASE Waiting # NoResponse
    <3>1. lastStatusResponse(round) = Waiting
      BY <2>2 DEF lastStatusResponse, Waiting
    <3> QED BY <3>1 DEF RoundInv, LastIsSomewhere
  <2> QED BY <2>1, <2>2
<1>5. \A a \in ResponseAttribute \ discarded' :
         latest'[a] = IF a \in SetBy(response) THEN response.attributes.value[a]
                      ELSE mLastResponseAttributes'.value[a]
  BY <1>1, <1>4, Losing
<1>6. CASE isTooManyRequestsResponse(response)
  <2>1. isErroneousResponse(response)
    BY <1>6 DEF isTooManyRequestsResponse, isErroneousResponse
  <2>2. SetBy(response) = {}
    BY <2>1, NothingSet
  <2> QED BY <1>1, <1>5, <1>6, <2>2, RoundIsOver DEF goesOn
<1>7. CASE ~isTooManyRequestsResponse(response)
  <2>1. /\ state' = "CaptureOn"
        /\ round' = IF round.part = "open" THEN [part |-> "open", new |-> round.new,
                                                finished |-> round.finished, open |-> response]
                    ELSE [part |-> "finished", new |-> round.new, finished |-> response,
                          open |-> NoResponse]
    <3>1. round' = [round EXCEPT ![round.part] = response] /\ state' = state
      BY <1>1, <1>7 DEF goesOn
    <3>2. CASE round.part = "open"
      <4>1. round' = [round EXCEPT !.open = response]
        BY <3>1, <3>2
      <4>2. round' = [part |-> "open", new |-> round.new, finished |-> round.finished,
                      open |-> response]
        BY <1>2, <3>2, <4>1
      <4> QED BY <1>1, <3>1, <3>2, <4>2
    <3>3. CASE round.part = "finished"
      <4>1. round' = [round EXCEPT !.finished = response]
        BY <3>1, <3>3
      <4>2. round' = [part |-> "finished", new |-> round.new, finished |-> response,
                      open |-> NoResponse]
        BY <1>2, <1>3, <3>3, <4>1
      <4> QED BY <1>1, <3>1, <3>3, <4>2
    <3> QED BY <1>1, <3>2, <3>3
  <2>2. RoundShape' /\ RequestOfPart'
    BY <1>1, <2>1 DEF RoundShape, RequestOfPart
  <2>3. HiddenIsDiscarded'
    <3>1. CASE round.part = "finished"
      BY <2>1, <3>1 DEF HiddenIsDiscarded
    <3>2. CASE round.part = "open"
      <4>1. discarded' = (discarded \cup SetBy(Waiting)) \ SetBy(response)
        BY <1>1 DEF Loses
      <4>2. SetBy(round.finished) \subseteq discarded \cup SetBy(Waiting)
        BY DEF RoundInv, HiddenIsDiscarded, Waiting
      <4>3. round'.finished = round.finished /\ round'.open = response
        BY <2>1, <3>2
      <4> QED BY <4>1, <4>2, <4>3 DEF HiddenIsDiscarded
    <3> QED BY <1>1, <3>1, <3>2
  <2>4. LastIsSomewhere'
    <3>1. response # NoResponse
      BY SomeResponse DEF beaconResponse
    <3>2. lastStatusResponse(round') = response
      BY <2>1, <3>1, <1>1 DEF lastStatusResponse
    <3> QED BY <3>2, <1>5 DEF LastIsSomewhere
  <2>5. NewIsApplied'
    BY <1>1, <2>1 DEF RoundInv, NewIsApplied
  <2> QED BY <2>2, <2>3, <2>4, <2>5 DEF RoundInv
<1> QED BY <1>6, <1>7

(* A session without data: what its part had got before is lost. *)
LEMMA NothingKeepsRound ==
    ASSUME RoundInv, NEW s \in Sessions, NEW part \in {"finished", "open"}, sendNothing(s, part)
    PROVE  RoundInv'
<1>1. /\ phase = "idle" /\ phase' = "idle" /\ state = "CaptureOn" /\ state' = state
      /\ round[part] # NoResponse /\ round' = [round EXCEPT !.part = part, ![part] = NoResponse]
      /\ Loses(round[part], NoResponse) /\ mLastResponseAttributes' = mLastResponseAttributes
  BY DEF sendNothing, mayBe, contextVars, clientVars
<1>2. round = [part |-> round.part, new |-> round.new, finished |-> round.finished,
               open |-> round.open]
  BY DEF RoundInv, RoundShape
<1>3. part = "finished" => round.open = NoResponse
  BY DEF RoundInv, RoundShape, sendNothing, mayBe
<1>4. /\ latest' = [a \in ResponseAttribute |-> latest[a]]
      /\ discarded' = discarded \cup SetBy(round[part])
  BY <1>1, NothingSet DEF Loses
<1>5. lastStatusResponse(round) = round[part]
  BY <1>1, <1>3 DEF lastStatusResponse
<1>6. \A a \in ResponseAttribute \ discarded' :
         latest'[a] = mLastResponseAttributes'.value[a] /\ a \notin SetBy(round[part])
  BY <1>1, <1>4, <1>5 DEF RoundInv, LastIsSomewhere
<1>9. phase' = "idle" /\ state' = "CaptureOn"
  BY <1>1
<1>7. CASE part = "finished"
  <2>1. round' = [round EXCEPT !.part = "finished", !.finished = NoResponse]
    BY <1>1, <1>7
  <2>2. round' = [part |-> "finished", new |-> round.new, finished |-> NoResponse, open |-> NoResponse]
    BY <1>2, <1>3, <1>7, <2>1
  <2>3. RoundShape' /\ RequestOfPart' /\ HiddenIsDiscarded'
    <3>1. RoundShape'
      BY <1>9, <2>2 DEF RoundShape
    <3>2. RequestOfPart' /\ HiddenIsDiscarded'
      BY <1>9, <2>2 DEF RequestOfPart, HiddenIsDiscarded
    <3> QED BY <3>1, <3>2
  <2>4. lastStatusResponse(round') = round.new
    BY <2>2 DEF lastStatusResponse
  <2>5. LastIsSomewhere' /\ NewIsApplied'
    BY <1>1, <1>6, <2>2, <2>4 DEF RoundInv, LastIsSomewhere, NewIsApplied
  <2> QED BY <2>3, <2>5 DEF RoundInv
<1>8. CASE part = "open"
  <2>1. round' = [round EXCEPT !.part = "open", !.open = NoResponse]
    BY <1>1, <1>8
  <2>2. round' = [part |-> "open", new |-> round.new, finished |-> round.finished, open |-> NoResponse]
    BY <1>2, <1>8, <2>1
  <2>3. RoundShape' /\ RequestOfPart' /\ HiddenIsDiscarded'
    <3>1. RoundShape'
      BY <1>9, <2>2 DEF RoundShape
    <3>2. RequestOfPart' /\ HiddenIsDiscarded'
      BY <1>9, <2>2 DEF RequestOfPart, HiddenIsDiscarded
    <3> QED BY <3>1, <3>2
  <2>4. SetBy(round.finished) \subseteq discarded'
    BY <1>1, <1>4, <1>8 DEF RoundInv, HiddenIsDiscarded
  <2>5. NewIsApplied'
    BY <1>1, <2>2 DEF RoundInv, NewIsApplied
  <2>6. CASE round.finished # NoResponse
    <3>1. lastStatusResponse(round') = round.finished
      BY <2>2, <2>6 DEF lastStatusResponse
    <3>2. LastIsSomewhere'
      BY <1>6, <2>4, <3>1 DEF LastIsSomewhere
    <3> QED BY <2>3, <2>5, <3>2 DEF RoundInv
  <2>7. CASE round.finished = NoResponse
    <3>1. lastStatusResponse(round') = round.new /\ round'.new = round.new
      BY <2>2, <2>7 DEF lastStatusResponse
    <3>2. LastIsSomewhere'
      BY <1>6, <2>5, <3>1 DEF LastIsSomewhere, NewIsApplied
    <3> QED BY <2>3, <2>5, <3>2 DEF RoundInv
  <2> QED BY <2>6, <2>7
<1> QED BY <1>7, <1>8

(* The end of a round: what is handled then is the last value it has. *)
LEMMA EndKeepsRound == ASSUME RoundInv, endRound PROVE RoundInv'
<1> DEFINE r == lastStatusResponse(round)
<1>1. /\ phase' = "idle" /\ round' = NoRound /\ latest' = latest /\ discarded' = discarded
      /\ IF r = NoResponse THEN UNCHANGED contextVars ELSE handleStatusResponse(r)
  BY DEF endRound, historyVars, clientVars
<1>2. \A a \in ResponseAttribute \ discarded :
         latest[a] = IF a \in SetBy(r) THEN r.attributes.value[a] ELSE mLastResponseAttributes.value[a]
  BY DEF RoundInv, LastIsSomewhere
<1> HIDE DEF r
<1>3. \A a \in ResponseAttribute :
         mLastResponseAttributes'.value[a] = IF a \in SetBy(r) THEN r.attributes.value[a]
                                             ELSE mLastResponseAttributes.value[a]
  <2>1. CASE r = NoResponse
    BY <1>1, <2>1, NothingSet DEF contextVars
  <2>2. CASE r # NoResponse /\ isErroneousResponse(r)
    BY <1>1, <2>2, NothingSet DEF handleStatusResponse, disableContextCapture
  <2>3. CASE r # NoResponse /\ ~isErroneousResponse(r)
    <3>1. updateFrom(r) /\ isSuccessfulResponse(r)
      BY <1>1, <2>3 DEF handleStatusResponse, isSuccessfulResponse
    <3> QED BY <3>1, UpdatedAttributes
  <2> QED BY <2>1, <2>2, <2>3
<1> QED BY <1>1, <1>2, <1>3, RoundIsOver

(* Every step keeps the invariant of rounds. *)
LEMMA NextRound == ASSUME RoundInv, ClientInv, [Next]_vars PROVE RoundInv'
<1>1. CASE Quiet
  <2>1. phase # "idle" /\ request' = request
    BY <1>1 DEF Quiet, ClientNext, transferStep, curlInit, curlInitFails, sendRequestInternal,
                readFunction, responseStatusLine, responseHeaderData, responseBodyData,
                performed, performFailed
  <2>2. UNCHANGED <<state, round, mLastResponseAttributes>> /\ UNCHANGED historyVars
    BY <1>1 DEF Quiet, stateVars, contextVars
  <2>3. RoundShape' /\ RequestOfPart'
    BY <2>1, <2>2 DEF RoundInv, RoundShape, RequestOfPart
  <2> QED BY <2>2, <2>3, RoundAtRest
<1>2. CASE sendStatusRequest
  <2>1. /\ state \in {"Initial", "CaptureOff"} /\ UNCHANGED <<state, round, mLastResponseAttributes>>
        /\ UNCHANGED historyVars /\ request'.type = "STATUS"
    BY <1>2 DEF sendStatusRequest, Sends, sendRequest, contextVars
  <2>2. RoundShape' /\ RequestOfPart'
    BY <2>1 DEF RoundInv, RoundShape, RequestOfPart
  <2> QED BY <2>1, <2>2, RoundAtRest
<1>3. ASSUME NEW s \in Sessions, sendNewSessionRequest(s) PROVE RoundInv'
  <2>1. /\ state = "CaptureOn" /\ state' = state /\ round.part \in {"sleep", "new"}
        /\ round' = [round EXCEPT !.part = "new"] /\ request'.type = "NEW_SESSION"
        /\ UNCHANGED historyVars /\ mLastResponseAttributes' = mLastResponseAttributes
    BY <1>3 DEF sendNewSessionRequest, mayBe, Sends, sendRequest, contextVars
  <2>2. round' = [part |-> "new", new |-> round.new, finished |-> round.finished, open |-> round.open]
    BY <2>1 DEF RoundInv, RoundShape
  <2>3. RoundShape' /\ RequestOfPart'
    BY <2>1, <2>2 DEF RoundInv, RoundShape, RequestOfPart
  <2> QED BY <2>1, <2>2, <2>3, RoundAtRest
<1>4. ASSUME NEW s \in Sessions, NEW part \in {"finished", "open"}, sendBeaconRequest(s, part)
      PROVE  RoundInv'
  <2>1. /\ state = "CaptureOn" /\ state' = state /\ (part = "finished" => round.part # "open")
        /\ round' = [round EXCEPT !.part = part] /\ request'.type = "BEACON"
        /\ UNCHANGED historyVars /\ mLastResponseAttributes' = mLastResponseAttributes
    BY <1>4 DEF sendBeaconRequest, mayBe, Sends, sendRequest, contextVars
  <2>2. round' = [part |-> part, new |-> round.new, finished |-> round.finished, open |-> round.open]
    BY <2>1 DEF RoundInv, RoundShape
  <2>3. RoundShape' /\ RequestOfPart'
    BY <2>1, <2>2 DEF RoundInv, RoundShape, RequestOfPart
  <2> QED BY <2>1, <2>2, <2>3, RoundAtRest
<1>5. ASSUME NEW s \in Sessions, NEW part \in {"finished", "open"}, sendNothing(s, part)
      PROVE  RoundInv'
  BY <1>5, NothingKeepsRound
<1>6. CASE statusResponse \/ beaconResponse \/ endRound \/ \E s \in Sessions : newSessionResponse(s)
  BY <1>6, StatusKeepsRound, BeaconKeepsRound, EndKeepsRound, NewSessionKeepsRound
<1>7. CASE shutdown \/ disableCaptureAndClear
  <2>1. /\ phase' = "idle" /\ round' = round /\ round = NoRound /\ UNCHANGED historyVars
        /\ mLastResponseAttributes' = mLastResponseAttributes
    BY <1>7 DEF shutdown, disableCaptureAndClear, disableContextCapture, contextVars, clientVars,
                RoundInv, RoundShape
  <2>2. RoundShape' /\ RequestOfPart'
    BY <2>1, NoRoundFacts DEF RoundShape, RequestOfPart
  <2> QED BY <2>1, <2>2, RoundAtRest
<1>8. ASSUME NEW s \in Sessions, NEW t \in Sessions,
             \/ createSession(s) \/ disableCapture(s) \/ enableCapture(s)
             \/ createSplitSession(s, t) \/ splitAndCreateNewInitialSession(s, t)
      PROVE  RoundInv'
  <2>1. UNCHANGED <<round, state, phase, request, mLastResponseAttributes>> /\ UNCHANGED historyVars
    BY <1>8 DEF createSession, disableCapture, enableCapture, switchCapture, createSplitSession,
                splitAndCreateNewInitialSession, BeginsFor, ApplicationStep, contextVars,
                stateVars, clientVars
  <2>2. RoundShape' /\ RequestOfPart'
    BY <2>1 DEF RoundInv, RoundShape, RequestOfPart
  <2> QED BY <2>1, <2>2, RoundAtRest
<1>9. CASE UNCHANGED vars
  <2>1. UNCHANGED <<round, state, phase, request, mLastResponseAttributes>> /\ UNCHANGED historyVars
    BY <1>9 DEF vars, contextVars, stateVars, clientVars
  <2>2. RoundShape' /\ RequestOfPart'
    BY <2>1 DEF RoundInv, RoundShape, RequestOfPart
  <2> QED BY <2>1, <2>2, RoundAtRest
<1> QED BY <1>1, <1>2, <1>3, <1>4, <1>5, <1>6, <1>7, <1>8, <1>9 DEF Next

(***************************************************************************)
(* Between two rounds each setting has the value that the server sent      *)
(* last, unless that came in a response that a round discarded: whatever   *)
(* the answers are, and for any number of rounds, sessions and requests.   *)
(***************************************************************************)
THEOREM LatestSettingIsKept == Spec => []LatestSettingWins
<1>1. Init => RoundInv /\ ClientInv
  BY InitRound, InitClient DEF Init
<1>2. RoundInv /\ ClientInv /\ [Next]_vars => RoundInv' /\ ClientInv'
  BY NextRound, NextClientInv
<1>3. RoundInv => LatestSettingWins
  BY NoRoundFacts, NothingSet DEF RoundInv, LastIsSomewhere, LatestSettingWins
<1> QED BY <1>1, <1>2, <1>3, PTL DEF Spec

------------------------------------------------------------------------------
(***************************************************************************)
(* Configurations are records of the same fields; only the default         *)
(* instance is the shared one, and what is made of answers never is it.    *)
(***************************************************************************)
Fields == {"capture", "crashReporting", "errorReporting", "serverId", "beaconSize",
           "multiplicity", "sendInterval", "maxSessionDuration", "splitByDuration", "maxEvents",
           "splitByEvents", "sessionTimeout", "splitByIdleTimeout", "visitStoreVersion",
           "trafficControl", "shared"}

IsConfiguration(c) == DOMAIN c = Fields

(* What is made of attributes is a configuration that is not shared. *)
LEMMA FromAttributes ==
    ASSUME NEW a PROVE IsConfiguration(from(a)) /\ from(a).shared = FALSE
BY DEF from, IsConfiguration, Fields

(* The configuration that stands for none is the shared one of another server. *)
LEMMA SharedConfigurations ==
    /\ IsConfiguration(defaultInstance) /\ IsConfiguration(NoConfiguration)
    /\ NoConfiguration.shared = TRUE
<1> DEFINE a == withDefaults(UndefinedDefaults)
<1>1. IsConfiguration(from(a))
  BY FromAttributes
<1> HIDE DEF a
<1>2. IsConfiguration([from(a) EXCEPT !.shared = TRUE]) /\ [from(a) EXCEPT !.shared = TRUE].shared = TRUE
  BY <1>1 DEF IsConfiguration, Fields
<1>3. IsConfiguration(defaultInstance) /\ defaultInstance.shared = TRUE
  BY <1>2 DEF defaultInstance, a
<1> QED BY <1>3 DEF NoConfiguration, IsConfiguration

(* Building on a configuration, and switching capturing, gives another one. *)
LEMMA BuiltOn ==
    ASSUME NEW c, IsConfiguration(c), NEW on
    PROVE  /\ IsConfiguration(Builder(c)) /\ Builder(c).shared = FALSE
           /\ IsConfiguration(withCapture(c, on)) /\ withCapture(c, on).shared = FALSE
<1>1. IsConfiguration(Builder(c)) /\ Builder(c).shared = FALSE
  BY DEF Builder, IsConfiguration, Fields
<1>2. IsConfiguration(withCapture(c, on)) /\ withCapture(c, on).shared = Builder(c).shared
  BY <1>1 DEF withCapture, IsConfiguration
<1> QED BY <1>1, <1>2

(* A merged configuration keeps what a session keeps. *)
LEMMA MergeKeeps ==
    ASSUME NEW p, NEW c, IsConfiguration(p), IsConfiguration(c)
    PROVE  /\ IsConfiguration(mergeConfigurations(p, c))
           /\ Kept(mergeConfigurations(p, c)) = Kept(p)
<1> DEFINE m == mergeConfigurations(p, c)
           b == Builder(p)
           o == Builder(c)
<1>1. IsConfiguration(b) /\ IsConfiguration(o)
  BY BuiltOn
<1>2. m = [o EXCEPT
             !.multiplicity = b.multiplicity, !.serverId = b.serverId,
             !.maxSessionDuration = b.maxSessionDuration, !.splitByDuration = b.splitByDuration,
             !.maxEvents = b.maxEvents, !.splitByEvents = b.splitByEvents,
             !.sessionTimeout = b.sessionTimeout, !.splitByIdleTimeout = b.splitByIdleTimeout,
             !.visitStoreVersion = b.visitStoreVersion, !.trafficControl = b.trafficControl]
  BY DEF mergeConfigurations
<1>3. /\ b.splitByDuration = (p.splitByDuration /\ p.maxSessionDuration > 0)
      /\ b.splitByEvents = (p.splitByEvents /\ p.maxEvents > 0)
      /\ b.splitByIdleTimeout = (p.splitByIdleTimeout /\ p.sessionTimeout > 0)
      /\ b.maxSessionDuration = p.maxSessionDuration /\ b.maxEvents = p.maxEvents
      /\ b.sessionTimeout = p.sessionTimeout
  BY DEF Builder, IsConfiguration, Fields, isSessionSplitBySessionDurationEnabled,
         isSessionSplitByEventsEnabled, isSessionSplitByIdleTimeoutEnabled
<1> HIDE DEF b, o, m
<1>4. DOMAIN m = Fields
  BY <1>1, <1>2 DEF IsConfiguration
<1>5. /\ m.multiplicity = b.multiplicity /\ m.serverId = b.serverId
      /\ m.maxSessionDuration = b.maxSessionDuration /\ m.splitByDuration = b.splitByDuration
      /\ m.maxEvents = b.maxEvents /\ m.splitByEvents = b.splitByEvents
      /\ m.sessionTimeout = b.sessionTimeout /\ m.splitByIdleTimeout = b.splitByIdleTimeout
      /\ m.visitStoreVersion = b.visitStoreVersion /\ m.trafficControl = b.trafficControl
  BY <1>1, <1>2 DEF IsConfiguration, Fields
<1>6. /\ Builder(m).multiplicity = m.multiplicity /\ Builder(m).serverId = m.serverId
      /\ Builder(m).maxSessionDuration = m.maxSessionDuration /\ Builder(m).maxEvents = m.maxEvents
      /\ Builder(m).sessionTimeout = m.sessionTimeout
      /\ Builder(m).visitStoreVersion = m.visitStoreVersion
      /\ Builder(m).trafficControl = m.trafficControl
      /\ Builder(m).splitByDuration = (m.splitByDuration /\ m.maxSessionDuration > 0)
      /\ Builder(m).splitByEvents = (m.splitByEvents /\ m.maxEvents > 0)
      /\ Builder(m).splitByIdleTimeout = (m.splitByIdleTimeout /\ m.sessionTimeout > 0)
  BY <1>4 DEF Builder, Fields, isSessionSplitBySessionDurationEnabled,
         isSessionSplitByEventsEnabled, isSessionSplitByIdleTimeoutEnabled
<1>7. Builder(m).splitByDuration = b.splitByDuration
  BY <1>3, <1>5, <1>6
<1>8. Builder(m).splitByEvents = b.splitByEvents
  BY <1>3, <1>5, <1>6
<1>9. Builder(m).splitByIdleTimeout = b.splitByIdleTimeout
  BY <1>3, <1>5, <1>6
<1>10. Kept(m) = Kept(p)
  BY <1>5, <1>6, <1>7, <1>8, <1>9 DEF Kept, b
<1> QED BY <1>4, <1>10 DEF m, IsConfiguration

(* The callback of a proxy: it keeps what it has, as a session does. *)
LEMMA ProxyKeeps ==
    ASSUME NEW p, NEW c, IsConfiguration(p), IsConfiguration(c)
    PROVE  /\ IsConfiguration(onServerConfigurationUpdate(p, c))
           /\ p # NoConfiguration => Kept(onServerConfigurationUpdate(p, c)) = Kept(p)
BY MergeKeeps DEF onServerConfigurationUpdate

------------------------------------------------------------------------------
(***************************************************************************)
(* The invariant of sessions: a session that is not created yet is not     *)
(* configured, and neither is the session whose new-session request is     *)
(* under way: nothing else configures it while the request is.             *)
(***************************************************************************)
IsBeaconConfiguration(b) ==
    /\ b = [mServerConfiguration |-> b.mServerConfiguration,
            mIsServerConfigurationSet |-> b.mIsServerConfigurationSet, serverId |-> b.serverId]
    /\ IsConfiguration(b.mServerConfiguration)

SessionsTyped ==
    /\ DOMAIN session = Sessions /\ DOMAIN proxy = Sessions /\ DOMAIN givenBy = Sessions
    /\ home \in [Sessions -> Sessions]
    /\ \A s \in Sessions : IsBeaconConfiguration(session[s]) /\ IsConfiguration(proxy[s])
    /\ IsConfiguration(mServerConfiguration)

OnlyCreatedConfigured ==
    \A s \in Sessions : s \notin created => givenBy[s] = NoConfiguration

AskedIsUnconfigured ==
    phase # "idle" /\ request.type = "NEW_SESSION" =>
        \A s \in Sessions : s = request.url.session => s \in created /\ givenBy[s] = NoConfiguration

SessionInv == SessionsTyped /\ OnlyCreatedConfigured /\ AskedIsUnconfigured /\ AnswerDecidesSession

(* At first no session is created, and none configured. *)
LEMMA InitSessions == Init => SessionInv
<1> SUFFICES ASSUME Init PROVE SessionInv
  OBVIOUS
<1>1. /\ session = [s \in Sessions |-> NewBeaconConfiguration(DefaultServerId)]
      /\ proxy = [s \in Sessions |-> NoConfiguration] /\ givenBy = [s \in Sessions |-> NoConfiguration]
      /\ mServerConfiguration = defaultInstance /\ phase = "idle"
      /\ home = [s \in Sessions |-> s]
  BY DEF Init, ClientInit
<1>2. IsConfiguration(defaultInstance) /\ IsConfiguration(NoConfiguration)
  BY SharedConfigurations
<1>3. /\ IsBeaconConfiguration(NewBeaconConfiguration(DefaultServerId))
      /\ NewBeaconConfiguration(DefaultServerId).mIsServerConfigurationSet = FALSE
  BY <1>2 DEF IsBeaconConfiguration, NewBeaconConfiguration
<1>4. SessionsTyped
  BY <1>1, <1>2, <1>3 DEF SessionsTyped
<1>5. OnlyCreatedConfigured /\ AskedIsUnconfigured
  BY <1>1 DEF OnlyCreatedConfigured, AskedIsUnconfigured
<1>6. AnswerDecidesSession
  BY <1>1, <1>3 DEF AnswerDecidesSession
<1> QED BY <1>4, <1>5, <1>6 DEF SessionInv

(* A configuration that is not the shared one is one. *)
LEMMA NotShared == ASSUME NEW c, c.shared = FALSE PROVE c # NoConfiguration
BY SharedConfigurations

(* What a step may do to what is configured, and that it suffices. *)
Sticks ==
    \A s \in Sessions :
        /\ session[s].mIsServerConfigurationSet =>
             /\ session'[s].mIsServerConfigurationSet
             /\ Kept(session'[s].mServerConfiguration) = Kept(session[s].mServerConfiguration)
        /\ proxy[s] # NoConfiguration => Kept(proxy'[s]) = Kept(proxy[s])

(* Steps that leave sessions, and the request that is asked, alone. *)
LEMMA SessionsAtRest ==
    ASSUME SessionInv, UNCHANGED sessionVars, IsConfiguration(mServerConfiguration'),
           \/ phase' = "idle"
           \/ request'.type # "NEW_SESSION"
           \/ phase # "idle" /\ request' = request
    PROVE  SessionInv' /\ Sticks
<1>1. session' = session /\ proxy' = proxy /\ givenBy' = givenBy /\ created' = created /\ home' = home
  BY DEF sessionVars
<1>2. SessionsTyped' /\ OnlyCreatedConfigured'
  BY <1>1 DEF SessionInv, SessionsTyped, OnlyCreatedConfigured
<1>3. AskedIsUnconfigured'
  BY <1>1 DEF SessionInv, AskedIsUnconfigured
<1>4. AnswerDecidesSession'
  BY <1>1 DEF SessionInv, AnswerDecidesSession
<1> QED BY <1>1, <1>2, <1>3, <1>4 DEF SessionInv, Sticks

(* One session that is not configured gets a configuration, its proxy too. *)
LEMMA OneConfigured ==
    ASSUME SessionInv, NEW t \in Sessions, NEW b, givenBy[t] = NoConfiguration,
           IsBeaconConfiguration(b), IsConfiguration(mServerConfiguration'),
           session' = [session EXCEPT ![t] = b],
           DOMAIN proxy' = Sessions,
           \A s \in Sessions : /\ IsConfiguration(proxy'[s])
                               /\ proxy[s] # NoConfiguration => Kept(proxy'[s]) = Kept(proxy[s]),
           \/ b.mIsServerConfigurationSet = FALSE /\ UNCHANGED givenBy
           \/ /\ b.mIsServerConfigurationSet = TRUE /\ b.mServerConfiguration # NoConfiguration
              /\ givenBy' = [givenBy EXCEPT ![t] = b.mServerConfiguration],
           created' = created \cup {t}, home' \in [Sessions -> Sessions],
           phase' = "idle" \/ (t \notin created /\ UNCHANGED <<phase, request>>)
    PROVE  SessionInv' /\ Sticks
<1>1. DOMAIN session = Sessions /\ DOMAIN givenBy = Sessions
  BY DEF SessionInv, SessionsTyped
<1>2. /\ DOMAIN session' = Sessions /\ session'[t] = b
      /\ \A s \in Sessions \ {t} : session'[s] = session[s]
  BY <1>1
<1>3. DOMAIN givenBy' = Sessions /\ \A s \in Sessions \ {t} : givenBy'[s] = givenBy[s]
  BY <1>1
<1>4. SessionsTyped'
  BY <1>2, <1>3 DEF SessionInv, SessionsTyped
<1>5. OnlyCreatedConfigured'
  BY <1>3 DEF SessionInv, OnlyCreatedConfigured
<1>6. AskedIsUnconfigured'
  <2>1. CASE phase' = "idle"
    BY <2>1 DEF AskedIsUnconfigured
  <2>2. CASE t \notin created /\ UNCHANGED <<phase, request>>
    BY <2>2, <1>3 DEF SessionInv, AskedIsUnconfigured
  <2> QED BY <2>1, <2>2
<1>7. /\ b.mIsServerConfigurationSet = (givenBy'[t] # NoConfiguration)
      /\ givenBy'[t] # NoConfiguration => b.mServerConfiguration = givenBy'[t]
  BY <1>1
<1>8. AnswerDecidesSession'
  BY <1>2, <1>3, <1>7 DEF SessionInv, AnswerDecidesSession
<1>9. Sticks
  <2>1. session[t].mIsServerConfigurationSet = FALSE
    BY DEF SessionInv, AnswerDecidesSession
  <2> QED BY <1>2, <2>1 DEF Sticks
<1> QED BY <1>4, <1>5, <1>6, <1>8, <1>9 DEF SessionInv

(* A new beacon configuration, and the one that was updated for the first time. *)
LEMMA FirstUpdate ==
    ASSUME NEW b, IsBeaconConfiguration(b), b.mIsServerConfigurationSet = FALSE,
           NEW c, IsConfiguration(c)
    PROVE  LET u == updateServerConfiguration(b, c)
           IN /\ IsBeaconConfiguration(u) /\ u.mIsServerConfigurationSet = TRUE
              /\ u.mServerConfiguration = c
<1>1. b = [mServerConfiguration |-> b.mServerConfiguration,
           mIsServerConfigurationSet |-> b.mIsServerConfigurationSet, serverId |-> b.serverId]
  BY DEF IsBeaconConfiguration
<1>2. updateServerConfiguration(b, c) =
        [b EXCEPT !.mServerConfiguration = c, !.mIsServerConfigurationSet = TRUE]
  BY DEF updateServerConfiguration
<1>3. updateServerConfiguration(b, c) =
        [mServerConfiguration |-> c, mIsServerConfigurationSet |-> TRUE, serverId |-> b.serverId]
  BY <1>1, <1>2
<1> QED BY <1>3 DEF IsBeaconConfiguration

(* A beacon configuration that was never given one. *)
LEMMA FreshBeacon ==
    ASSUME NEW id
    PROVE  /\ IsBeaconConfiguration(NewBeaconConfiguration(id))
           /\ NewBeaconConfiguration(id).mIsServerConfigurationSet = FALSE
BY SharedConfigurations DEF IsBeaconConfiguration, NewBeaconConfiguration

(* What it starts with does not configure it. *)
LEMMA InitializedBeacon ==
    ASSUME NEW n, NEW c, IsConfiguration(c),
           IsBeaconConfiguration(n), n.mIsServerConfigurationSet = FALSE
    PROVE  /\ IsBeaconConfiguration(initializeServerConfiguration(n, c))
           /\ initializeServerConfiguration(n, c).mIsServerConfigurationSet = FALSE
<1> DEFINE b == initializeServerConfiguration(n, c)
<1>1. CASE b = n
  BY <1>1
<1>2. CASE b = [n EXCEPT !.mServerConfiguration = c]
  <2>1. n = [mServerConfiguration |-> n.mServerConfiguration,
             mIsServerConfigurationSet |-> n.mIsServerConfigurationSet, serverId |-> n.serverId]
    BY DEF IsBeaconConfiguration
  <2>2. b = [mServerConfiguration |-> c,
             mIsServerConfigurationSet |-> n.mIsServerConfigurationSet, serverId |-> n.serverId]
    BY <1>2, <2>1
  <2> QED BY <2>2 DEF IsBeaconConfiguration
<1> QED BY <1>1, <1>2 DEF initializeServerConfiguration

(* A session is created: it is not configured by what it starts with. *)
LEMMA CreateKeeps ==
    ASSUME SessionInv, NEW s \in Sessions, createSession(s)
    PROVE  SessionInv' /\ Sticks
<1> DEFINE n == NewBeaconConfiguration(mServerID)
           b == initializeServerConfiguration(n, mServerConfiguration)
<1>1. IsConfiguration(mServerConfiguration)
  BY DEF SessionInv, SessionsTyped
<1>2. IsBeaconConfiguration(n) /\ n.mIsServerConfigurationSet = FALSE
  BY FreshBeacon
<1>3. session' = [session EXCEPT ![s] = b] /\ created' = created \cup {s} /\ s \notin created
  BY DEF createSession
<1>4. UNCHANGED <<givenBy, home, mServerConfiguration, phase, request>>
  BY DEF createSession, ApplicationStep, contextVars, clientVars
<1>5. proxy' = IF mServerConfiguration = defaultInstance THEN proxy
               ELSE [proxy EXCEPT ![s] = onServerConfigurationUpdate(@, mServerConfiguration)]
  BY DEF createSession
<1>6. IsBeaconConfiguration(b) /\ b.mIsServerConfigurationSet = FALSE
  BY <1>1, <1>2, InitializedBeacon
<1> HIDE DEF b
<1>7. DOMAIN proxy = Sessions /\ \A t \in Sessions : IsConfiguration(proxy[t])
  BY DEF SessionInv, SessionsTyped
<1>8. /\ DOMAIN proxy' = Sessions
      /\ \A t \in Sessions : /\ IsConfiguration(proxy'[t])
                             /\ proxy[t] # NoConfiguration => Kept(proxy'[t]) = Kept(proxy[t])
  BY <1>1, <1>5, <1>7, ProxyKeeps
<1>9. givenBy[s] = NoConfiguration
  BY <1>3 DEF SessionInv, OnlyCreatedConfigured
<1>10. IsConfiguration(mServerConfiguration')
  BY <1>1, <1>4
<1>11. home' \in [Sessions -> Sessions]
  BY <1>4 DEF SessionInv, SessionsTyped
<1> QED BY <1>3, <1>4, <1>6, <1>8, <1>9, <1>10, <1>11, OneConfigured

(* What any split does to the proxy, and leaves alone. *)
LEMMA BeginsFacts ==
    ASSUME SessionInv, NEW s \in Sessions, NEW t \in Sessions \ {s}, BeginsFor(s, t)
    PROVE  /\ created' = created \cup {t} /\ t \notin created /\ givenBy[t] = NoConfiguration
           /\ home' \in [Sessions -> Sessions] /\ IsConfiguration(proxy[s]) /\ proxy[s] # NoConfiguration
           /\ DOMAIN proxy' = Sessions
           /\ \A r \in Sessions : /\ IsConfiguration(proxy'[r])
                                  /\ proxy[r] # NoConfiguration => Kept(proxy'[r]) = Kept(proxy[r])
           /\ UNCHANGED <<mServerConfiguration, phase, request>> /\ IsConfiguration(mServerConfiguration')
<1>1. DOMAIN proxy = Sessions /\ \A r \in Sessions : IsConfiguration(proxy[r])
  BY DEF SessionInv, SessionsTyped
<1>2. /\ created' = created \cup {t} /\ t \notin created /\ proxy[s] # NoConfiguration
      /\ proxy' = [proxy EXCEPT ![s] = onServerConfigurationUpdate(@, proxy[s])]
      /\ home' = [home EXCEPT ![t] = s]
  BY DEF BeginsFor
<1>3. UNCHANGED <<mServerConfiguration, phase, request>>
  BY DEF BeginsFor, ApplicationStep, contextVars, clientVars
<1>4. /\ DOMAIN proxy' = Sessions
      /\ \A r \in Sessions : /\ IsConfiguration(proxy'[r])
                             /\ proxy[r] # NoConfiguration => Kept(proxy'[r]) = Kept(proxy[r])
  BY <1>1, <1>2, ProxyKeeps
<1>5. givenBy[t] = NoConfiguration
  BY <1>2 DEF SessionInv, OnlyCreatedConfigured
<1>6. home' \in [Sessions -> Sessions] /\ IsConfiguration(mServerConfiguration')
  BY <1>2, <1>3 DEF SessionInv, SessionsTyped
<1> QED BY <1>1, <1>2, <1>3, <1>4, <1>5, <1>6

(* A session is split off with the configuration of the proxy. *)
LEMMA SplitKeeps ==
    ASSUME SessionInv, NEW s \in Sessions, NEW t \in Sessions \ {s}, createSplitSession(s, t)
    PROVE  SessionInv' /\ Sticks
<1> DEFINE n == NewBeaconConfiguration(session[s].serverId)
           b == updateServerConfiguration(n, proxy[s])
<1>1. /\ BeginsFor(s, t) /\ session' = [session EXCEPT ![t] = b]
      /\ givenBy' = [givenBy EXCEPT ![t] = proxy[s]]
  BY DEF createSplitSession
<1>2. IsBeaconConfiguration(n) /\ n.mIsServerConfigurationSet = FALSE
  BY FreshBeacon
<1> HIDE DEF n
<1>3. IsConfiguration(proxy[s]) /\ proxy[s] # NoConfiguration
  BY <1>1, BeginsFacts
<1>4. IsBeaconConfiguration(b) /\ b.mIsServerConfigurationSet = TRUE /\ b.mServerConfiguration = proxy[s]
  BY <1>2, <1>3, FirstUpdate
<1> HIDE DEF b
<1>5. givenBy' = [givenBy EXCEPT ![t] = b.mServerConfiguration] /\ b.mServerConfiguration # NoConfiguration
  BY <1>1, <1>3, <1>4
<1> QED BY <1>1, <1>4, <1>5, BeginsFacts, OneConfigured

(* A session begins as a first one: its own answer is still to come. *)
LEMMA BeginKeeps ==
    ASSUME SessionInv, NEW s \in Sessions, NEW t \in Sessions \ {s},
           splitAndCreateNewInitialSession(s, t)
    PROVE  SessionInv' /\ Sticks
<1> DEFINE n == NewBeaconConfiguration(session[s].serverId)
           b == initializeServerConfiguration(n, proxy[s])
<1>1. BeginsFor(s, t) /\ session' = [session EXCEPT ![t] = b] /\ UNCHANGED givenBy
  BY DEF splitAndCreateNewInitialSession
<1>2. IsBeaconConfiguration(n) /\ n.mIsServerConfigurationSet = FALSE
  BY FreshBeacon
<1> HIDE DEF n
<1>3. IsConfiguration(proxy[s])
  BY <1>1, BeginsFacts
<1>4. IsBeaconConfiguration(b) /\ b.mIsServerConfigurationSet = FALSE
  BY <1>2, <1>3, InitializedBeacon
<1> HIDE DEF b
<1> QED BY <1>1, <1>4, BeginsFacts, OneConfigured

(* A session is given up: capturing is switched without an answer. *)
LEMMA GivenUpKeeps ==
    ASSUME SessionInv, NEW s \in Sessions, disableCapture(s) \/ enableCapture(s)
    PROVE  SessionInv' /\ Sticks
<1>1. PICK on \in BOOLEAN : /\ switchCapture(s, on)
                           /\ session' = [session EXCEPT ![s] = updateCaptureWith(@, on)]
  BY DEF disableCapture, enableCapture, switchCapture
<1>2. /\ phase = "idle" /\ s \in created /\ ~session[s].mIsServerConfigurationSet
      /\ givenBy' = [givenBy EXCEPT ![s] = session'[s].mServerConfiguration]
      /\ UNCHANGED <<created, home, proxy, mServerConfiguration, phase, request>>
  BY <1>1 DEF switchCapture, contextVars, clientVars
<1>3. /\ DOMAIN session = Sessions /\ DOMAIN proxy = Sessions /\ IsConfiguration(mServerConfiguration)
      /\ IsBeaconConfiguration(session[s]) /\ \A r \in Sessions : IsConfiguration(proxy[r])
  BY DEF SessionInv, SessionsTyped
<1> DEFINE d == getServerConfigurationOrDefault(session[s])
           b == updateCaptureWith(session[s], on)
<1>4. IsConfiguration(d)
  BY <1>3, SharedConfigurations DEF getServerConfigurationOrDefault, IsBeaconConfiguration
<1>5. IsConfiguration(withCapture(d, on)) /\ withCapture(d, on) # NoConfiguration
  BY <1>4, BuiltOn, NotShared
<1>6. b = [mServerConfiguration |-> withCapture(d, on), mIsServerConfigurationSet |-> TRUE,
           serverId |-> session[s].serverId]
  <2>1. session[s] = [mServerConfiguration |-> session[s].mServerConfiguration,
                      mIsServerConfigurationSet |-> session[s].mIsServerConfigurationSet,
                      serverId |-> session[s].serverId]
    BY <1>3 DEF IsBeaconConfiguration
  <2> HIDE DEF d
  <2>2. b = [session[s] EXCEPT !.mServerConfiguration = withCapture(d, on),
                               !.mIsServerConfigurationSet = TRUE]
    BY DEF updateCaptureWith, d
  <2> HIDE DEF b
  <2> QED BY <2>1, <2>2
<1> HIDE DEF d
<1>7. /\ IsBeaconConfiguration(b) /\ b.mIsServerConfigurationSet = TRUE
      /\ b.mServerConfiguration # NoConfiguration
  BY <1>5, <1>6 DEF IsBeaconConfiguration
<1>8. session' = [session EXCEPT ![s] = b]
  BY <1>1
<1> HIDE DEF b
<1>9. givenBy' = [givenBy EXCEPT ![s] = b.mServerConfiguration] /\ created' = created \cup {s}
  BY <1>2, <1>3, <1>8
<1>10. givenBy[s] = NoConfiguration
  BY <1>2 DEF SessionInv, AnswerDecidesSession
<1>11. DOMAIN proxy' = Sessions /\ IsConfiguration(mServerConfiguration') /\ phase' = "idle"
  BY <1>2, <1>3
<1>12. \A r \in Sessions : /\ IsConfiguration(proxy'[r])
                           /\ proxy[r] # NoConfiguration => Kept(proxy'[r]) = Kept(proxy[r])
  BY <1>2, <1>3
<1>13. home' \in [Sessions -> Sessions]
  BY <1>2 DEF SessionInv, SessionsTyped
<1> QED BY <1>7, <1>8, <1>9, <1>10, <1>11, <1>12, <1>13, OneConfigured

(* The context's configuration after an answer is a configuration. *)
LEMMA UpdatedContext ==
    ASSUME NEW r, updateFrom(r)
    PROVE  IsConfiguration(mServerConfiguration')
<1> DEFINE a == merge(mLastResponseAttributes, r.attributes)
<1>1. IsConfiguration(from(a))
  BY FromAttributes
<1> HIDE DEF a
<1>2. mServerConfiguration' = from(a) \/ mServerConfiguration' = [from(a) EXCEPT !.capture = FALSE]
  BY DEF updateFrom, a
<1> QED BY <1>1, <1>2 DEF IsConfiguration

(* The answer to the request of a session configures it, and it alone. *)
LEMMA AnswerKeeps ==
    ASSUME SessionInv, NEW s \in Sessions, newSessionResponse(s)
    PROVE  SessionInv' /\ Sticks
<1>1. /\ phase = "returned" /\ request.type = "NEW_SESSION" /\ s = request.url.session
      /\ phase' = "idle" /\ created' = created /\ home' = home
  BY DEF newSessionResponse, taken
<1>2. s \in created /\ givenBy[s] = NoConfiguration
  BY <1>1 DEF SessionInv, AskedIsUnconfigured
<1>3. session[s].mIsServerConfigurationSet = FALSE
  BY <1>2 DEF SessionInv, AnswerDecidesSession
<1>4. /\ DOMAIN proxy = Sessions /\ IsConfiguration(mServerConfiguration)
      /\ IsBeaconConfiguration(session[s]) /\ \A r \in Sessions : IsConfiguration(proxy[r])
      /\ home[s] \in Sessions /\ home \in [Sessions -> Sessions]
  BY DEF SessionInv, SessionsTyped
<1>5. CASE isSuccessfulResponse(response)
  <2> DEFINE c == from(merge(mLastResponseAttributes, response.attributes))
             b == updateServerConfiguration(session[s], c)
  <2>1. /\ updateFrom(response) /\ session' = [session EXCEPT ![s] = b]
        /\ proxy' = [proxy EXCEPT ![home[s]] = onServerConfigurationUpdate(@, b.mServerConfiguration)]
        /\ givenBy' = [givenBy EXCEPT ![s] = c]
    BY <1>5 DEF newSessionResponse
  <2>2. IsConfiguration(c) /\ c # NoConfiguration
    BY FromAttributes, NotShared
  <2> HIDE DEF c
  <2>3. IsBeaconConfiguration(b) /\ b.mIsServerConfigurationSet = TRUE /\ b.mServerConfiguration = c
    BY <1>3, <1>4, <2>2, FirstUpdate
  <2> HIDE DEF b
  <2>4. DOMAIN proxy' = Sessions
    BY <1>4, <2>1
  <2>5. \A r \in Sessions : /\ IsConfiguration(proxy'[r])
                            /\ proxy[r] # NoConfiguration => Kept(proxy'[r]) = Kept(proxy[r])
    BY <1>4, <2>1, <2>2, <2>3, ProxyKeeps
  <2>6. IsConfiguration(mServerConfiguration')
    BY <2>1, UpdatedContext
  <2>7. givenBy' = [givenBy EXCEPT ![s] = b.mServerConfiguration] /\ b.mServerConfiguration # NoConfiguration
    BY <2>1, <2>2, <2>3
  <2>8. created' = created \cup {s} /\ home' \in [Sessions -> Sessions]
    BY <1>1, <1>2, <1>4
  <2> QED BY <1>1, <1>2, <2>1, <2>3, <2>4, <2>5, <2>6, <2>7, <2>8, OneConfigured
<1>6. CASE ~isSuccessfulResponse(response)
  <2>1. UNCHANGED sessionVars /\ mServerConfiguration' = mServerConfiguration
    BY <1>1, <1>6 DEF newSessionResponse, contextVars, sessionVars
  <2>2. IsConfiguration(mServerConfiguration')
    BY <1>4, <2>1
  <2> QED BY <1>1, <2>1, <2>2, SessionsAtRest
<1> QED BY <1>5, <1>6

(* Every step keeps the invariant, and what sessions and proxies have. *)
LEMMA NextSessions ==
    ASSUME SessionInv, [Next]_vars
    PROVE  SessionInv' /\ Sticks
<1>1. IsConfiguration(mServerConfiguration)
  BY DEF SessionInv, SessionsTyped
<1>2. CASE Quiet
  <2>1. UNCHANGED sessionVars /\ mServerConfiguration' = mServerConfiguration
    BY <1>2 DEF Quiet, contextVars
  <2>2. phase # "idle" /\ request' = request
    BY <1>2 DEF Quiet, ClientNext, transferStep, curlInit, curlInitFails, sendRequestInternal,
                readFunction, responseStatusLine, responseHeaderData, responseBodyData,
                performed, performFailed
  <2>3. IsConfiguration(mServerConfiguration')
    BY <1>1, <2>1
  <2> QED BY <2>1, <2>2, <2>3, SessionsAtRest
<1>3. ASSUME NEW type, NEW url, Sends(type, url, <<>>), type # "NEW_SESSION"
      PROVE  SessionInv' /\ Sticks
  <2>1. UNCHANGED sessionVars /\ mServerConfiguration' = mServerConfiguration /\ request'.type # "NEW_SESSION"
    BY <1>3 DEF Sends, sendRequest, contextVars
  <2>2. IsConfiguration(mServerConfiguration')
    BY <1>1, <2>1
  <2> QED BY <2>1, <2>2, SessionsAtRest
<1>4. CASE sendStatusRequest
  BY <1>3, <1>4 DEF sendStatusRequest
<1>5. CASE statusResponse \/ beaconResponse \/ endRound \/ disableCaptureAndClear \/ shutdown
  <2>1. UNCHANGED sessionVars /\ (phase' = "idle" \/ UNCHANGED <<phase, request>>)
    BY <1>5 DEF statusResponse, beaconResponse, endRound, disableCaptureAndClear, shutdown, taken, clientVars
  <2>2. \/ mServerConfiguration' = mServerConfiguration
        \/ mServerConfiguration' = withCapture(mServerConfiguration, FALSE)
        \/ \E r : updateFrom(r)
    BY <1>5 DEF statusResponse, beaconResponse, endRound, disableCaptureAndClear, shutdown,
                handleStatusResponse, disableContextCapture, contextVars
  <2>3. IsConfiguration(mServerConfiguration')
    BY <1>1, <2>2, BuiltOn, UpdatedContext
  <2>4. phase' = "idle"
    BY <1>5 DEF statusResponse, beaconResponse, endRound, disableCaptureAndClear, shutdown, taken, clientVars
  <2> QED BY <2>1, <2>3, <2>4, SessionsAtRest
<1>6. ASSUME NEW s \in Sessions, NEW part, sendBeaconRequest(s, part) \/ sendNothing(s, part)
      PROVE  SessionInv' /\ Sticks
  <2>1. /\ UNCHANGED sessionVars /\ mServerConfiguration' = mServerConfiguration
        /\ request'.type # "NEW_SESSION" \/ phase' = "idle"
    <3>1. CASE sendBeaconRequest(s, part)
      <4>1. UNCHANGED sessionVars /\ UNCHANGED contextVars /\ request'.type = "BEACON"
        BY <3>1 DEF sendBeaconRequest, Sends, sendRequest
      <4> QED BY <4>1 DEF contextVars
    <3>2. CASE sendNothing(s, part)
      BY <3>2 DEF sendNothing, contextVars, clientVars
    <3> QED BY <1>6, <3>1, <3>2
  <2>2. IsConfiguration(mServerConfiguration')
    BY <1>1, <2>1
  <2> QED BY <2>1, <2>2, SessionsAtRest
<1>7. ASSUME NEW s \in Sessions, sendNewSessionRequest(s) PROVE SessionInv' /\ Sticks
  <2>1. /\ session' = session /\ proxy' = proxy /\ givenBy' = givenBy /\ created' = created /\ home' = home
        /\ mServerConfiguration' = mServerConfiguration /\ request'.url.session = s
        /\ s \in created /\ ~session[s].mIsServerConfigurationSet
    BY <1>7 DEF sendNewSessionRequest, Sends, sendRequest, contextVars, sessionVars, Url
  <2>2. givenBy[s] = NoConfiguration
    BY <2>1 DEF SessionInv, AnswerDecidesSession
  <2>3. AskedIsUnconfigured'
    BY <2>1, <2>2 DEF AskedIsUnconfigured
  <2>4. SessionsTyped' /\ OnlyCreatedConfigured'
    BY <2>1 DEF SessionInv, SessionsTyped, OnlyCreatedConfigured
  <2>5. AnswerDecidesSession' /\ Sticks
    BY <2>1 DEF SessionInv, AnswerDecidesSession, Sticks
  <2> QED BY <2>3, <2>4, <2>5 DEF SessionInv
<1>8. ASSUME NEW s \in Sessions, createSession(s) \/ disableCapture(s) \/ enableCapture(s)
                                  \/ newSessionResponse(s)
      PROVE  SessionInv' /\ Sticks
  BY <1>8, CreateKeeps, GivenUpKeeps, AnswerKeeps
<1>9. ASSUME NEW s \in Sessions, NEW t \in Sessions \ {s},
             createSplitSession(s, t) \/ splitAndCreateNewInitialSession(s, t)
      PROVE  SessionInv' /\ Sticks
  BY <1>9, SplitKeeps, BeginKeeps
<1>10. CASE UNCHANGED vars
  <2>1. UNCHANGED sessionVars /\ mServerConfiguration' = mServerConfiguration
        /\ phase' = phase /\ request' = request
    BY <1>10 DEF vars, contextVars, clientVars, sessionVars
  <2>2. IsConfiguration(mServerConfiguration')
    BY <1>1, <2>1
  <2> QED BY <2>1, <2>2, SessionsAtRest
<1> QED BY <1>2, <1>4, <1>5, <1>6, <1>7, <1>8, <1>9, <1>10 DEF Next

(* Sessions are as the invariant says, at all times. *)
LEMMA SessionInvariant == Spec => []SessionInv
<1>1. SessionInv /\ [Next]_vars => SessionInv'
  BY NextSessions
<1> QED BY <1>1, InitSessions, PTL DEF Spec

(***************************************************************************)
(* A session is configured by the answer to its own request, by its proxy  *)
(* at a split or by giving up, and runs with exactly those settings:       *)
(* whatever servers answer, and however requests, splits and creations     *)
(* interleave.                                                             *)
(***************************************************************************)
THEOREM OnlyAnswersConfigure == Spec => []AnswerDecidesSession
<1>1. SessionInv => AnswerDecidesSession
  BY DEF SessionInv
<1> QED BY <1>1, SessionInvariant, PTL

(***************************************************************************)
(* Once a session is configured, what it must keep stays, in the session   *)
(* and in the proxy, for all answers and splits that follow.               *)
(***************************************************************************)
THEOREM SettingsStick == Spec => SessionSettingsStick
<1>1. SessionInv /\ [Next]_vars => [Sticks]_vars
  BY NextSessions
<1>2. Spec => [][Sticks]_vars
  BY <1>1, SessionInvariant, PTL DEF Spec
<1>3. Sticks <=> \A s \in Sessions :
         /\ session[s].mIsServerConfigurationSet =>
              /\ session'[s].mIsServerConfigurationSet
              /\ Kept(session'[s].mServerConfiguration) = Kept(session[s].mServerConfiguration)
         /\ proxy[s] # NoConfiguration => Kept(proxy'[s]) = Kept(proxy[s])
  BY DEF Sticks
<1> QED BY <1>2, <1>3, PTL DEF SessionSettingsStick
==============================================================================
