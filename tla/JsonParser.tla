------------------------------- MODULE JsonParser -------------------------------
(***************************************************************************)
(* util/json/JsonParser.cxx: a text is read token by token with a stack of *)
(* the values that are open and a stack of the states to return to.        *)
(***************************************************************************)
EXTENDS JsonValue

CONSTANTS Values,      \* the values that are written and read again
          MaxLength,   \* length of the texts that are read as they are
          MaxCalls     \* how often parse() is called

VARIABLES
    written,       \* the value the text was written from, NoValue for other texts
    mReader,       \* the text still to be read
    mState,        \* JsonParserState
    mStateStack,   \* the state to return to, for every value but the outermost
    mValueStack,   \* the values that are open, the innermost last
    mParsedValue,  \* what parse() returns
    outcome,       \* of the call: "parsing", "returned" or the exception thrown
    calls,         \* the calls of parse() so far
    firstOutcome,  \* history: how the first call ended
    kinds          \* history: the kinds of the tokens of mReader

vars == <<written, mReader, mState, mStateStack, mValueStack, mParsedValue, outcome,
          calls, firstOutcome, kinds>>

States == {"INIT", "IN_ARRAY_START", "IN_ARRAY_VALUE", "IN_ARRAY_DELIMITER",
           "IN_OBJECT_START", "IN_OBJECT_KEY", "IN_OBJECT_COLON", "IN_OBJECT_VALUE",
           "IN_OBJECT_DELIMITER", "END", "ERROR"}

(* Exceptions: from the lexer, "unexpected" token, "internal" parser error, *)
(* "logic" for the std::logic_error that nothing catches, and "erroneous"   *)
(* for a call in state ERROR. *)
Exceptions == {"lexer", "unexpected", "internal", "logic", "erroneous"}

(* The kinds of the tokens of a text, as the grammar tells them apart. *)
KindOf(token) == CASE token.type = "string" /\ token.value = <<>> -> "empty"
                   [] token.type = "number" /\ token.value = <<"big">> -> "big"
                   [] OTHER -> token.type

RECURSIVE KindsIn(_)
KindsIn(text) ==
    LET lexed == nextToken(text)
    IN CASE lexed.thrown # "none" -> <<"bad">>
         [] lexed.token = NullToken -> <<>>
         [] OTHER -> <<KindOf(lexed.token)>> \o KindsIn(lexed.rest)

(* A text with one symbol replaced, removed or inserted. *)
Edits(text) ==
    UNION {{ReplaceAt(text, i, s), InsertAt(text, i, s)} : i \in 1..Len(text), s \in Symbols}
      \cup {RemoveAt(text, i) : i \in 1..Len(text)}

Inputs == (UNION {[1..n -> Symbols] : n \in 0..MaxLength})
            \cup UNION {Edits(text) : text \in UNION {Written(v) : v \in Values}}

Init == /\ \/ written \in Values /\ mReader \in Written(written)
           \/ written = NoValue /\ mReader \in Inputs
        /\ mState = "INIT"
        /\ mStateStack = <<>>
        /\ mValueStack = <<>>
        /\ mParsedValue = NoValue
        /\ outcome = "parsing"
        /\ calls = 1
        /\ firstOutcome = "parsing"
        /\ kinds = KindsIn(mReader)

(* JsonValueContainer: an open value, and the member of an object being read. *)
JsonValueContainer(value) == [value |-> value, key |-> <<>>, last |-> NoValue]

Top == Last(mValueStack)

tokenToSimpleJsonValue(token) ==
    CASE token.type = "null" -> JsonNullValue
      [] token.type = "boolean" -> JsonBooleanValue(token.value[1])
      [] token.type = "string" -> JsonStringValue(token.value)
      [] token.type = "number" -> fromNumberLiteral(token.value[1])

Simple == {"null", "boolean", "string", "number"}

(***************************************************************************)
(* How a handler ends: it goes on in a state with the stacks given, or     *)
(* throws an exception and leaves the parser in a state.                   *)
(***************************************************************************)
GoOn(state, states, values) ==
    /\ mState' = state /\ mStateStack' = states /\ mValueStack' = values
    /\ UNCHANGED <<mParsedValue, outcome, firstOutcome>>

Throw(exception, state) ==
    /\ outcome' = exception
    /\ mState' = state
    /\ firstOutcome' = IF calls = 1 THEN exception ELSE firstOutcome
    /\ UNCHANGED <<mStateStack, mValueStack, mParsedValue>>

Unexpected == Throw("unexpected", "ERROR")
Internal == Throw("internal", mState)

(* The innermost open value replaced. *)
SetTop(container) == Append(Front(mValueStack), container)

TopIs(type) == mValueStack # <<>> /\ Top.value.type = type

(* An array or an object begins; its end returns to the state `back'. *)
Open(token, back) ==
    GoOn(IF token.type = "[" THEN "IN_ARRAY_START" ELSE "IN_OBJECT_START",
         Append(mStateStack, back),
         Append(mValueStack, JsonValueContainer(IF token.type = "[" THEN JsonArrayValue(<<>>)
                                                ELSE JsonObjectValue({}))))

closeCompositeJsonValueAndRestoreState(values) ==
    LET closed == Last(values).value
        rest == Front(values)
        outer == Last(rest)
    IN IF Len(values) # Len(mStateStack) + 1 THEN Internal
       ELSE IF Len(values) = 1 THEN GoOn("END", mStateStack, values)
       ELSE IF outer.value.type = "array"
         THEN GoOn(Last(mStateStack), Front(mStateStack),
                   Append(Front(rest), [outer EXCEPT !.value.elems = Append(@, closed)]))
       ELSE IF outer.value.type = "object"
         THEN GoOn(Last(mStateStack), Front(mStateStack),
                   Append(Front(rest), [outer EXCEPT !.last = closed]))
       ELSE Internal

(* A value in an array: the first one, or the one after a comma. *)
ArrayElement(token) ==
    \/ /\ token.type \in Simple
       /\ IF TopIs("array")
            THEN GoOn("IN_ARRAY_VALUE", mStateStack,
                      SetTop([Top EXCEPT !.value.elems = Append(@, tokenToSimpleJsonValue(token))]))
            ELSE Internal
    \/ /\ token.type \in {"[", "{"}
       /\ Open(token, "IN_ARRAY_VALUE")

parseInitState(token) ==
    /\ mState = "INIT"
    /\ CASE token.type \in Simple ->
              GoOn("END", mStateStack, <<JsonValueContainer(tokenToSimpleJsonValue(token))>>)
         [] token.type = "[" ->
              GoOn("IN_ARRAY_START", mStateStack, <<JsonValueContainer(JsonArrayValue(<<>>))>>)
         [] token.type = "{" ->
              GoOn("IN_OBJECT_START", mStateStack, <<JsonValueContainer(JsonObjectValue({}))>>)
         [] OTHER -> Unexpected

parseInArrayStartState(token) ==
    /\ mState = "IN_ARRAY_START"
    /\ CASE token.type \in Simple \cup {"[", "{"} -> ArrayElement(token)
         [] token.type = "]" -> closeCompositeJsonValueAndRestoreState(mValueStack)
         [] OTHER -> Unexpected

parseInArrayValueState(token) ==
    /\ mState = "IN_ARRAY_VALUE"
    /\ CASE token.type = "," -> GoOn("IN_ARRAY_DELIMITER", mStateStack, mValueStack)
         [] token.type = "]" -> closeCompositeJsonValueAndRestoreState(mValueStack)
         [] OTHER -> Unexpected

(* Mutant: a comma may be followed by the end of the array. *)
TrailingComma(token) ==
    /\ mState = "IN_ARRAY_DELIMITER"
    /\ CASE token.type \in Simple \cup {"[", "{"} -> ArrayElement(token)
         [] token.type = "]" -> closeCompositeJsonValueAndRestoreState(mValueStack)
         [] OTHER -> Unexpected

parseInArrayDelimiterState(token) ==
    /\ mState = "IN_ARRAY_DELIMITER"
    /\ IF token.type \in Simple \cup {"[", "{"} THEN ArrayElement(token) ELSE Unexpected

(* The key of a member, if the innermost open value is an object. *)
ObjectKey(token) ==
    IF TopIs("object")
      THEN GoOn("IN_OBJECT_KEY", mStateStack, SetTop([Top EXCEPT !.key = token.value]))
      ELSE Internal

parseInObjectStartState(token) ==
    /\ mState = "IN_OBJECT_START"
    /\ CASE token.type = "}" -> closeCompositeJsonValueAndRestoreState(mValueStack)
         [] token.type = "string" -> ObjectKey(token)
         [] OTHER -> Unexpected

parseInObjectKeyState(token) ==
    /\ mState = "IN_OBJECT_KEY"
    /\ IF token.type = ":" THEN GoOn("IN_OBJECT_COLON", mStateStack, mValueStack)
                           ELSE Unexpected

(* An unexpected token leaves the state as it is; the end of the text does not. *)
parseInObjectColonState(token) ==
    /\ mState = "IN_OBJECT_COLON"
    /\ CASE token.type = "none" -> Unexpected
         [] ~TopIs("object") -> Internal
         [] token.type \in Simple ->
              GoOn("IN_OBJECT_VALUE", mStateStack,
                   SetTop([Top EXCEPT !.last = tokenToSimpleJsonValue(token)]))
         [] token.type \in {"[", "{"} /\ TopIs("object") -> Open(token, "IN_OBJECT_VALUE")
         [] OTHER -> Throw("unexpected", mState)

ensureKeyValuePairWasParsed == Top.key # <<>> /\ Top.last # NoValue

putLastParsedKeyValuePairIntoObject(last) ==
    SetTop([value |-> Put(Top.value, Top.key, Top.last),
            key |-> IF last THEN Top.key ELSE <<>>,
            last |-> IF last THEN Top.last ELSE NoValue])

parseInObjectValueState(token) ==
    /\ mState = "IN_OBJECT_VALUE"
    /\ CASE token.type \in {",", "}"} /\ ~(TopIs("object") /\ ensureKeyValuePairWasParsed) -> Internal
         [] token.type = "}" /\ ensureKeyValuePairWasParsed ->
              closeCompositeJsonValueAndRestoreState(putLastParsedKeyValuePairIntoObject(TRUE))
         [] token.type = "," /\ ensureKeyValuePairWasParsed ->
              GoOn("IN_OBJECT_DELIMITER", mStateStack, putLastParsedKeyValuePairIntoObject(FALSE))
         [] OTHER -> Unexpected

parseInObjectDelimiterState(token) ==
    /\ mState = "IN_OBJECT_DELIMITER"
    /\ IF token.type = "string" THEN ObjectKey(token) ELSE Unexpected

(* After the outermost value: the end of the text, where parse() returns. *)
parseEndState(token) ==
    /\ mState = "END"
    /\ IF token = NullToken
         THEN /\ outcome' = "returned"
              /\ firstOutcome' = IF calls = 1 THEN "returned" ELSE firstOutcome
              /\ mParsedValue' = Top.value
              /\ UNCHANGED <<mState, mStateStack, mValueStack>>
         ELSE Unexpected

(***************************************************************************)
(* One round of doParse's loop.  A JsonLexerException puts the parser into *)
(* state ERROR; a std::logic_error passes through.                         *)
(***************************************************************************)
Handle(token) ==
    \/ parseInitState(token)
    \/ parseInArrayStartState(token)
    \/ parseInArrayValueState(token)
    \/ parseInArrayDelimiterState(token)
    \/ parseInObjectStartState(token)
    \/ parseInObjectKeyState(token)
    \/ parseInObjectColonState(token)
    \/ parseInObjectValueState(token)
    \/ parseInObjectDelimiterState(token)
    \/ parseEndState(token)

doParse ==
    LET lexed == nextToken(mReader)
    IN /\ outcome = "parsing"
       /\ mReader' = lexed.rest
       /\ kinds' = IF kinds = <<>> THEN <<>> ELSE Tail(kinds)
       /\ UNCHANGED <<written, calls>>
       /\ CASE lexed.thrown = "lexer" -> Throw("lexer", "ERROR")
            [] lexed.thrown = "logic" -> Throw("logic", mState)
            [] OTHER -> Handle(lexed.token)

(* parse() once more after an exception: it goes on unless in state ERROR. *)
parse ==
    /\ outcome \in Exceptions /\ calls < MaxCalls
    /\ calls' = calls + 1
    /\ outcome' = IF mState = "ERROR" THEN "erroneous" ELSE "parsing"
    /\ UNCHANGED <<written, mReader, mState, mStateStack, mValueStack, mParsedValue,
                   firstOutcome, kinds>>

Next == doParse \/ parse

(* Fairness: the thread that calls parse() is not stopped in its loop. *)
Spec == Init /\ [][Next]_vars /\ WF_vars(doParse)

-----------------------------------------------------------------------------
(***************************************************************************)
(* RoundTrip: a text that writeJsonString produced is parsed, and gives    *)
(* the value it was written from, as far as its text holds it: a double is *)
(* written with six decimals, so that it is read back with an error of up  *)
(* to half a millionth, and as an integer if it has no decimals left; NaN  *)
(* is read back as null and a huge double as no value.  A text with a      *)
(* member that has an empty key or no value is refused.  (StringUtil.h:151 *)
(* promises more, that the precision guarantees a correct parsing again.)  *)
(***************************************************************************)
RoundTrip ==
    written # NoValue /\ firstOutcome # "parsing" =>
      IF Storable(written)
        THEN firstOutcome = "returned" /\ ReadAs(written, mParsedValue)
        ELSE firstOutcome = "internal"

(***************************************************************************)
(* The parser as an implementation of the grammar, for the first call of   *)
(* parse().  What is pending follows from the state, the states to return  *)
(* to and whether the member being read has an empty key or no value.      *)
(***************************************************************************)
PendingIn(state, container, innermost) ==
    LET member == IF container.key = <<>> THEN "X" ELSE "O1"
    IN CASE state = "IN_ARRAY_START" -> <<"A0">>
         [] state = "IN_ARRAY_VALUE" -> <<"A1">>
         [] state = "IN_ARRAY_DELIMITER" -> <<"V", "A1">>
         [] state = "IN_OBJECT_START" -> <<"O0">>
         [] state = "IN_OBJECT_KEY" -> <<":", "V", member>>
         [] state = "IN_OBJECT_COLON" -> <<"V", member>>
         [] state = "IN_OBJECT_VALUE" ->
              <<IF innermost /\ container.last = NoValue THEN "X" ELSE member>>
         [] state = "IN_OBJECT_DELIMITER" -> <<"K", ":", "V", "O1">>

Reading == calls = 1 /\ outcome = "parsing"

Pending ==
    LET n == Len(mValueStack)
        part(k) == IF k = 1 THEN PendingIn(mState, mValueStack[n], TRUE)
                   ELSE PendingIn(mStateStack[n + 1 - k], mValueStack[n + 1 - k], FALSE)
    IN CASE ~Reading \/ mState = "END" -> <<>>
         [] Reading /\ mState = "INIT" -> <<"V">>
         [] OTHER -> FlattenSeq([k \in 1..n |-> part(k)])

Verdict == CASE firstOutcome = "parsing" -> "reading"
             [] firstOutcome = "returned" -> "accepted"
             [] firstOutcome = "internal" -> "refused"
             [] OTHER -> "rejected"

Grammar == INSTANCE JsonGrammar WITH rest <- IF Reading THEN kinds ELSE <<>>,
                                     pending <- Pending,
                                     verdict <- Verdict

(* ImplementsGrammar: parse() accepts exactly the JSON values, refuses just *)
(* those with a member it cannot store, and always comes to a verdict. *)
ImplementsGrammar == Grammar!Spec
==============================================================================
