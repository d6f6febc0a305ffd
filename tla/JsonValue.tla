------------------------------- MODULE JsonValue -------------------------------
(***************************************************************************)
(* The JSON values (util/json/objects) and what JsonWriter makes of them.  *)
(* All values have the same fields: text is that of a string or the class  *)
(* of a number, elems are those of an array, members those of an object.   *)
(***************************************************************************)
EXTENDS JsonLexer, FiniteSets, FiniteSetsExt

Value(type, text, elems, members) ==
    [type |-> type, text |-> text, elems |-> elems, members |-> members]

NoValue == Value("none", <<>>, <<>>, {})       \* a null pointer
JsonNullValue == Value("null", <<>>, <<>>, {})
JsonBooleanValue(word) == Value("boolean", <<word>>, <<>>, {})
JsonStringValue(chars) == Value("string", chars, <<>>, {})
JsonArrayValue(elems) == Value("array", <<>>, elems, {})
JsonObjectValue(members) == Value("object", <<>>, <<>>, members)

(***************************************************************************)
(* The classes of numbers: int64_t "int" (-1) and "zero"; double "frac"    *)
(* (-0.5), "fine" (-0.5000004), "tiny" (-0.0000004), "whole" (-1.0),       *)
(* "huge" (has no fraction and does not fit into int64_t) and "nan" (no    *)
(* finite number).  What a number is, in tenths of a millionth:            *)
(***************************************************************************)
Million == 1000000
Amounts == [int |-> -10 * Million, zero |-> 0, frac |-> -5 * Million,
            fine |-> -5 * Million - 4, tiny |-> -4, whole |-> -10 * Million]

JsonNumberValue(class) == Value("number", <<class>>, <<>>, {})

Member(key, value) == [key |-> key, value |-> value]

(* Assignment to a key of the object's map. *)
Put(object, key, value) ==
    [object EXCEPT !.members = {m \in @ : m.key # key} \cup {Member(key, value)}]

(* fromNumberLiteral: a literal out of range gives a null pointer. *)
fromNumberLiteral(word) == IF word = "big" THEN NoValue ELSE JsonNumberValue(word)

(* escapeString: the symbols one character is written as. *)
escapeCharacter(c) == CASE c = "lf" -> <<"esc", "n">>
                        [] c \in {"solidus", "quote", "esc"} -> <<"esc", c>>
                        [] c = "us" -> <<"esc", "u", "001F">>
                        [] OTHER -> <<c>>

escapeString(chars) == FlattenSeq([i \in 1..Len(chars) |-> escapeCharacter(chars[i])])

Quoted(chars) == <<"quote">> \o escapeString(chars) \o <<"quote">>

(* The amount rounded to decimals of this size. *)
RoundedTo(size, amount) == -(size * ((size \div 2 - amount) \div size))

(* Mutant: no decimals are written. *)
SixDecimals_None(amount) == RoundedTo(10 * Million, amount)

(***************************************************************************)
(* toInvariantString: the number to six decimals, without the zeros at its *)
(* end (std::fixed).  The literals are named for what they are read as.    *)
(***************************************************************************)
SixDecimals(amount) == RoundedTo(10, amount)

NumberText(class) ==
    CASE class = "huge" -> "big"
      [] class = "nan" -> "null"
      [] OTHER -> CHOOSE n \in {"int", "zero", "frac"} : Amounts[n] = SixDecimals(Amounts[class])

(* Texts with a comma between any two of them. *)
Separated(texts) ==
    FlattenSeq([i \in 1..Len(texts) |-> IF i = 1 THEN texts[i] ELSE <<",">> \o texts[i]])

(***************************************************************************)
(* The texts writeJsonString may produce: the members of an object come in *)
(* the order of an unordered_map, which is any order.                      *)
(***************************************************************************)
RECURSIVE Written(_)
Written(v) ==
    CASE v.type = "null" -> {<<"null">>}
      [] v.type = "boolean" -> {v.text}
      [] v.type = "number" -> {<<NumberText(v.text[1])>>}
      [] v.type = "string" -> {Quoted(v.text)}
      [] v.type = "array" ->
           LET n == Len(v.elems)
               some == UNION {Written(v.elems[i]) : i \in 1..n}
           IN {<<"[">> \o Separated(texts) \o <<"]">> :
                 texts \in {f \in [1..n -> some] : \A i \in 1..n : f[i] \in Written(v.elems[i])}}
      [] v.type = "object" ->
           LET text(m) == {Quoted(m.key) \o <<":">> \o t : t \in Written(m.value)}
               some == UNION {text(m) : m \in v.members}
               orders == SetToSeqs(v.members)
           IN UNION {{<<"{">> \o Separated(texts) \o <<"}">> :
                        texts \in {f \in [1..Len(o) -> some] :
                                     \A i \in 1..Len(o) : f[i] \in text(o[i])}} : o \in orders}

(***************************************************************************)
(* Whether the value v is read back as w.  Six decimals are left of a      *)
(* number, and it is an integer if they are zeros; NaN is read as null and *)
(* a double that does not fit into int64_t as no value (a null pointer).   *)
(***************************************************************************)
NumberReadAs(class, w) ==
    CASE class = "nan" -> w = JsonNullValue
      [] class = "huge" -> w = NoValue
      [] OTHER -> /\ w.type = "number" /\ w.text[1] \in {"int", "zero", "frac"}
                  /\ Amounts[w.text[1]] - Amounts[class] \in -5..5

RECURSIVE ReadAs(_, _)
ReadAs(v, w) ==
    IF v.type = "number" THEN NumberReadAs(v.text[1], w)
    ELSE /\ w.type = v.type /\ w.text = v.text
         /\ Len(w.elems) = Len(v.elems) /\ \A i \in 1..Len(v.elems) : ReadAs(v.elems[i], w.elems[i])
         /\ Cardinality(w.members) = Cardinality(v.members)
         /\ \A m \in v.members : \E n \in w.members : n.key = m.key /\ ReadAs(m.value, n.value)

(* No member with an empty key, and none that is read as no value. *)
RECURSIVE Storable(_)
Storable(v) ==
    /\ \A i \in 1..Len(v.elems) : Storable(v.elems[i])
    /\ \A m \in v.members : m.key # <<>> /\ m.value # JsonNumberValue("huge") /\ Storable(m.value)
==============================================================================
