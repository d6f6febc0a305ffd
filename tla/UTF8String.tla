------------------------------- MODULE UTF8String -------------------------------
(***************************************************************************)
(* core/UTF8String.cxx: strings of bytes 1..255 (a C string has no zero),  *)
(* which are made valid UTF-8 when a UTF8String is constructed.            *)
(***************************************************************************)
EXTENDS Integers, Sequences, SequencesExt, FiniteSets, FiniteSetsExt

isPartOfPreviousUtf8Multibyte(byte) == byte \in 128..191

(* The bytes of the character that begins with this byte; 0 for a byte that *)
(* begins none. *)
getByteWidthOfCharacter(byte) == CASE byte < 128 -> 1
                                   [] byte \in 192..223 -> 2
                                   [] byte \in 224..239 -> 3
                                   [] byte \in 240..247 -> 4
                                   [] OTHER -> 0

ReplacementCharacter == <<239, 191, 189>>

(* A C string ends at a zero byte, a string in modified UTF-8 at C0 80. *)
isStringTerminationCharacter(bytes, i) ==
    i > Len(bytes) \/ (i < Len(bytes) /\ bytes[i] = 192 /\ bytes[i + 1] = 128)

CString(bytes) ==
    SubSeq(bytes, 1, Min({i \in 1..Len(bytes) + 1 : isStringTerminationCharacter(bytes, i)}) - 1)

(* A string: mData and mStringLength. *)
Str(data, length) == [data |-> data, length |-> length]

(***************************************************************************)
(* One byte of validateString.  v.width and v.pos are the multi-byte       *)
(* character being read, -1 for none.                                      *)
(***************************************************************************)
Put(v, bytes, characters) ==
    [v EXCEPT !.data = @ \o bytes, !.length = @ + characters, !.width = -1, !.pos = -1]

(* Mutant: a character that breaks off is skipped without a trace. *)
SkipsBroken(v, bytes, i) ==
    LET byte == bytes[i]
        width == getByteWidthOfCharacter(byte)
    IN CASE isPartOfPreviousUtf8Multibyte(byte) ->
              (CASE v.pos + 1 > v.width - 1 -> Put(v, ReplacementCharacter, 1)
                 [] v.pos + 1 = v.width - 1 -> Put(v, SubSeq(bytes, i - v.width + 1, i), 1)
                 [] OTHER -> [v EXCEPT !.pos = @ + 1])
         [] width = 1 -> Put(v, <<byte>>, IF v.width >= 0 THEN 2 ELSE 1)
         [] width > 1 -> [v EXCEPT !.width = width, !.pos = 0]
         [] OTHER -> v

validateByte(v, bytes, i) ==
    LET byte == bytes[i]
        width == getByteWidthOfCharacter(byte)
        broken == v.width # -1
        marked == IF broken THEN Put(v, ReplacementCharacter, 1) ELSE v
    IN CASE isPartOfPreviousUtf8Multibyte(byte) ->
              (CASE v.pos + 1 > v.width - 1 -> Put(v, ReplacementCharacter, 1)
                 [] v.pos + 1 = v.width - 1 -> Put(v, SubSeq(bytes, i - v.width + 1, i), 1)
                 [] OTHER -> [v EXCEPT !.pos = @ + 1])
         [] width = 1 -> Put(marked, <<byte>>, 1)
         [] width > 1 -> [marked EXCEPT !.width = width, !.pos = 0]
         [] OTHER -> v

(* A character that breaks off at the end of the string is left out. *)
validateString(input) ==
    LET bytes == CString(input)
        v[i \in 0..Len(bytes)] ==
            IF i = 0 THEN [data |-> <<>>, length |-> 0, width |-> -1, pos |-> -1]
            ELSE validateByte(v[i - 1], bytes, i)
    IN Str(v[Len(bytes)].data, v[Len(bytes)].length)

concatenate(s, t) == IF t.length > 0 THEN Str(s.data \o t.data, s.length + t.length) ELSE s

(***************************************************************************)
(* substring(start, length), counted in characters from 0.  A start behind *)
(* the last character is not noticed: the string comes back as a whole,    *)
(* with length 0.                                                          *)
(***************************************************************************)
CharacterStarts(data) ==
    LET step(walk, i) ==
            IF i # walk.next THEN walk
            ELSE [starts |-> walk.starts \cup {i}, next |-> i + getByteWidthOfCharacter(data[i])]
    IN FoldLeft(step, [starts |-> {}, next |-> 1], [i \in 1..Len(data) |-> i]).starts

(* A set of positions in ascending order: the k-th has k of them up to it. *)
Ascending(S) == [k \in 1..Cardinality(S) |->
                   CHOOSE i \in S : Cardinality({j \in S : j <= i}) = k]

(* Mutant: the end is counted in bytes. *)
CutAtByte(s, start, length) ==
    LET starts == Ascending(CharacterStarts(s.data))
        first == IF start < Len(starts) THEN starts[start + 1] ELSE 1
        count == Max({0, Min({length, Len(starts) - start})})
    IN IF length = 0 \/ start > Len(s.data) \/ s.data = <<>> THEN Str(<<>>, 0)
       ELSE Str(SubSeq(s.data, first, Min({Len(s.data), first + length - 1})), count)

substring(s, start, length) ==
    LET starts == Ascending(CharacterStarts(s.data))
        first == IF start < Len(starts) THEN starts[start + 1] ELSE 1
        count == Max({0, Min({length, Len(starts) - start})})
        last == IF start + length < Len(starts) THEN starts[start + length + 1] - 1
                ELSE Len(s.data)
    IN IF length = 0 \/ start > Len(s.data) \/ s.data = <<>> THEN Str(<<>>, 0)
       ELSE Str(SubSeq(s.data, first, last), count)

NotFound == -1

(***************************************************************************)
(* What getIndexOf(character, offset) may return for an ASCII character.   *)
(* The index counts characters, but the loop goes on for as many of them   *)
(* as the string has bytes: in a string with multi-byte characters it      *)
(* reads behind the terminating zero, where it may find anything.          *)
(***************************************************************************)
getIndexOf(s, byte, offset) ==
    LET starts == Ascending(CharacterStarts(s.data))
        found == {i \in offset..Len(starts) - 1 : s.data[starts[i + 1]] = byte}
        behind == {i \in Len(starts) + 1..Len(s.data) - 1 : i >= offset}
    IN IF found = {} THEN {NotFound} \cup behind ELSE {Min(found)}

(* split(delimiter): std::getline drops an empty part at the end. *)
split(s, delimiter) ==
    LET cuts == {i \in 1..Len(s.data) : s.data[i] = delimiter}
        bounds == Ascending(cuts \cup {0, Len(s.data) + 1})
        parts == [k \in 1..Len(bounds) - 1 |->
                    validateString(SubSeq(s.data, bounds[k] + 1, bounds[k + 1] - 1))]
    IN IF parts # <<>> /\ Len(s.data) \in cuts \cup {0} THEN Front(parts) ELSE parts
==============================================================================
