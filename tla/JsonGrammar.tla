------------------------------ MODULE JsonGrammar ------------------------------
(***************************************************************************)
(* What JsonParser promises: it reads the tokens of its input one after    *)
(* the other against the grammar of JSON values and says whether they are  *)
(* one.  `pending' is what the grammar still requires, its first element   *)
(* next:                                                                   *)
(*    V a value                ":" a colon           K the key of a member *)
(*    A0 the inside of an array, A1 the rest of it after a value           *)
(*    O0 the inside of an object, O1 the rest of it after a member         *)
(*    X  as O1, after a member the parser cannot store: its key is empty   *)
(*       or its value is a number that int64_t cannot hold                 *)
(* The verdict on a text with such a member is "refused".                  *)
(***************************************************************************)
EXTENDS Integers, Sequences

VARIABLES rest,      \* the kinds of the tokens still to be read
          pending,   \* what the grammar requires next
          verdict    \* "reading", "accepted", "rejected", "refused"

vars == <<rest, pending, verdict>>

(* "empty" and "big" are a string and a number that cannot be stored; "bad" *)
(* is what is no token. *)
Kinds == {"[", "]", "{", "}", ":", ",", "null", "boolean", "string", "number",
          "empty", "big", "bad"}

ValueStarts == {"null", "boolean", "string", "number", "empty", "big", "[", "{"}
Strings == {"string", "empty"}

(* What a value that begins with the token still requires. *)
ValueRest(kind) == CASE kind = "[" -> <<"A0">> [] kind = "{" -> <<"O0">> [] OTHER -> <<>>

Accepts(symbol, kind) ==
    CASE symbol = "V" -> kind \in ValueStarts
      [] symbol = "A0" -> kind \in ValueStarts \cup {"]"}
      [] symbol = "A1" -> kind \in {",", "]"}
      [] symbol = "O0" -> kind \in Strings \cup {"}"}
      [] symbol = "K" -> kind \in Strings
      [] symbol = ":" -> kind = ":"
      [] symbol \in {"O1", "X"} -> kind \in {",", "}"}

(* A member's key, and what follows it. *)
AfterKey(kind) == IF kind = "empty" THEN <<":", "V", "X">> ELSE <<":", "V", "O1">>

(* `pending' once the token has been read. *)
After(kind) ==
    LET symbol == Head(pending)
        more == Tail(pending)
    IN CASE symbol = "V" -> IF kind = "big" /\ more # <<>> /\ Head(more) = "O1"
                              THEN <<"X">> \o Tail(more)
                              ELSE ValueRest(kind) \o more
         [] symbol = "A0" -> IF kind = "]" THEN more ELSE ValueRest(kind) \o <<"A1">> \o more
         [] symbol = "A1" -> IF kind = "]" THEN more ELSE <<"V", "A1">> \o more
         [] symbol = "O0" -> IF kind = "}" THEN more ELSE AfterKey(kind) \o more
         [] symbol = "K" -> AfterKey(kind) \o Tail(Tail(Tail(more)))
         [] symbol = ":" -> more
         [] symbol = "O1" -> IF kind = "}" THEN more ELSE <<"K", ":", "V", "O1">> \o more

Expected == rest # <<>> /\ pending # <<>> /\ Accepts(Head(pending), Head(rest))

Init == rest \in Seq(Kinds) /\ pending = <<"V">> /\ verdict = "reading"

Read == /\ verdict = "reading" /\ Expected /\ Head(pending) # "X"
        /\ pending' = After(Head(rest))
        /\ rest' = Tail(rest)
        /\ UNCHANGED verdict

Conclude(v) == verdict = "reading" /\ verdict' = v /\ rest' = <<>> /\ pending' = <<>>

Accept == rest = <<>> /\ pending = <<>> /\ Conclude("accepted")
Reject == ~Expected /\ (rest # <<>> \/ pending # <<>>) /\ Conclude("rejected")
Refuse == Expected /\ Head(pending) = "X" /\ Conclude("refused")

Next == Read \/ Accept \/ Reject \/ Refuse

(* Fairness: doParse reads on until it returns or throws. *)
Spec == Init /\ [][Next]_vars /\ WF_vars(Next)
==============================================================================
