------------------------------- MODULE URLEncoding -------------------------------
(* core/util/URLEncoding.cxx: percent encoding of the bytes of a string. *)
EXTENDS UTF8String

Percent == 37
QuestionMark == 63
Unreserved == (48..57) \cup (65..90) \cup (97..122) \cup {45, 46, 95, 126}
HexDigits == (48..57) \cup (65..70) \cup (97..102)

HexCharacter(digit) == IF digit < 10 THEN 48 + digit ELSE 55 + digit
HexValue(c) == CASE c <= 57 -> c - 48 [] c \in 65..70 -> c - 55 [] OTHER -> c - 87

(* Mutant: a percent sign is taken for an unreserved character. *)
PercentKept(s, additionalReservedCharacters) ==
    LET one(b) == IF b \in (Unreserved \cup {Percent}) \ additionalReservedCharacters THEN <<b>>
                  ELSE <<Percent, HexCharacter(b \div 16), HexCharacter(b % 16)>>
    IN validateString(FlattenSeq([i \in 1..Len(s.data) |-> one(s.data[i])]))

urlencode(s, additionalReservedCharacters) ==
    LET one(b) == IF b \in Unreserved \ additionalReservedCharacters THEN <<b>>
                  ELSE <<Percent, HexCharacter(b \div 16), HexCharacter(b % 16)>>
    IN validateString(FlattenSeq([i \in 1..Len(s.data) |-> one(s.data[i])]))

(***************************************************************************)
(* urldecode: the decoding stops at a percent sign with fewer than two     *)
(* bytes behind it; one that is not followed by two hex digits becomes a   *)
(* question mark, and the two bytes are kept.                              *)
(***************************************************************************)
urldecode(s) ==
    LET n == Len(s.data)
        from[i \in 1..n + 1] ==
            IF i > n THEN <<>>
            ELSE CASE s.data[i] # Percent -> <<s.data[i]>> \o from[i + 1]
                   [] s.data[i] = Percent /\ i + 2 > n -> <<>>
                   [] OTHER ->
                        (IF s.data[i + 1] \in HexDigits /\ s.data[i + 2] \in HexDigits
                           THEN <<16 * HexValue(s.data[i + 1]) + HexValue(s.data[i + 2])>>
                           ELSE <<QuestionMark, s.data[i + 1], s.data[i + 2]>>)
                          \o from[i + 3]
    IN validateString(from[1])
==============================================================================
