-------------------------------- MODULE MCText --------------------------------
(***************************************************************************)
(* The text algorithms.  One behaviour either reads a text with            *)
(* JsonParser, or, once parse() has returned, looks at strings: a string   *)
(* grows byte by byte to every string of up to MaxBytes bytes, and an      *)
(* address in one of its text forms is damaged.                            *)
(***************************************************************************)
EXTENDS JsonParser

Utf == INSTANCE UTF8String
Url == INSTANCE URLEncoding
Inet == INSTANCE InetAddressValidator

CONSTANTS Bytes,     \* the bytes strings are made of
          MaxBytes   \* length of the strings

VARIABLES input,     \* the bytes given to the constructor
          address    \* the tokens given to the address validator, none
                     \* in a behaviour that is about JsonParser

(* Values of every type, nested, with repeated elements and with every     *)
(* character that is escaped.                                              *)
key == <<"word">>
key2 == <<"quote", "u">>

Leaves == {JsonNullValue, JsonBooleanValue("true"), JsonNumberValue("frac"),
           JsonNumberValue("fine"), JsonNumberValue("tiny"), JsonNumberValue("whole"), JsonNumberValue("nan"), JsonNumberValue("huge"),
           JsonStringValue(<<>>), JsonStringValue(<<"us", "solidus">>),
           JsonStringValue(<<"esc", "n">>), JsonStringValue(<<"lf", "astral">>),
           JsonStringValue(<<"quote", "byteC4">>)}

int == JsonNumberValue("int")

JsonValues ==
    Leaves \cup {JsonArrayValue(<<v>>) : v \in Leaves}
      \cup {JsonArrayValue(<<>>), JsonObjectValue({}),
            JsonArrayValue(<<JsonArrayValue(<<int, int>>), JsonObjectValue({})>>),
            JsonObjectValue({Member(key, JsonArrayValue(<<JsonObjectValue({Member(key, int)})>>))}),
            JsonObjectValue({Member(key, int), Member(key2, JsonNullValue)}),
            JsonObjectValue({Member(key, JsonObjectValue({})), Member(key2, JsonArrayValue(<<>>))}),
            JsonObjectValue({Member(<<>>, int)}),
            JsonObjectValue({Member(key, JsonNumberValue("huge"))})}

(* n blocks with a colon between any two of them. *)
BlockText(n, block) == [i \in 1..2 * n - 1 |-> IF i % 2 = 1 THEN block ELSE ":"]
Colons == <<":", ":">>

(***************************************************************************)
(* The text forms of an address: eight blocks, a row of blocks replaced by *)
(* two colons, the last two blocks as an IPv4 address, a zone at the end.  *)
(***************************************************************************)
Compressed(block) == {BlockText(a, block) \o Colons \o BlockText(b, block) :
                        <<a, b>> \in {p \in (0..7) \X (0..7) : p[1] + p[2] <= 7}}
MixedForms(block) ==
    {BlockText(6, block) \o <<":">> \o Inet!IPv4}
      \cup {BlockText(a, block) \o Colons \o Inet!IPv4 : a \in 0..5}
      \cup {BlockText(a, block) \o Colons \o BlockText(b, block) \o <<":">> \o Inet!IPv4 :
              <<a, b>> \in {p \in (0..4) \X (1..5) : p[1] + p[2] <= 5}}
Zoned(block) == {t \o <<"%", "z">> : t \in {u \in Compressed(block) \cup {BlockText(8, block)} :
                                             Inet!Characters(u) >= 5}}

AddressForms ==
    {Inet!IPv4} \cup UNION {{BlockText(8, b)} \cup Compressed(b) \cup MixedForms(b) \cup Zoned(b) :
                             b \in {"h", "d"}}

textVars == <<input, address>>

TextInit ==
    /\ input = <<>>
    /\ \/ Init /\ address = <<>>
       \/ Init /\ written = JsonBooleanValue("true") /\ address \in AddressForms

AppendByte == /\ outcome = "returned" /\ address = Inet!IPv4 /\ Len(input) < MaxBytes
              /\ \E b \in Bytes : input' = Append(input, b)
              /\ UNCHANGED <<vars, address>>

(* A token is lost, or doubled, or another one stands in its place. *)
Damage == /\ outcome = "returned" /\ address \in AddressForms /\ input = <<>>
          /\ \E i \in 1..Len(address) :
               address' \in {RemoveAt(address, i), InsertAt(address, i, address[i])}
                              \cup {ReplaceAt(address, i, c) : c \in {"d", ":", ".", "%"}}
          /\ UNCHANGED <<vars, input>>

TextNext == \/ Next /\ UNCHANGED textVars
            \/ AppendByte
            \/ Damage

TextSpec == /\ TextInit /\ [][TextNext]_<<vars, textVars>>
            /\ WF_<<vars, textVars>>(doParse /\ UNCHANGED textVars)

(* The strings that are valid UTF-8, from the lengths of their characters. *)
Characters(data) ==
    LET n == Len(data)
        \* the number of characters of the first i bytes, -1 if they are not valid
        upTo[i \in 0..n] ==
            IF i = 0 THEN 0
            ELSE LET w == {k \in 1..i : Utf!getByteWidthOfCharacter(data[i + 1 - k]) = k
                             /\ \A j \in i + 2 - k..i : Utf!isPartOfPreviousUtf8Multibyte(data[j])}
                 IN IF w = {} \/ upTo[i - Min(w)] = -1 THEN -1 ELSE upTo[i - Min(w)] + 1
    IN upTo[n]

-----------------------------------------------------------------------------
s == Utf!validateString(input)
Valid(data) == Characters(data) # -1
Replaced == \E i \in 1..Len(s.data) - 2 : SubSeq(s.data, i, i + 2) = Utf!ReplacementCharacter

(* Bytes that begin no character and continue none (F8 to FF), and of these *)
(* the ones behind a byte of a multi-byte character.                        *)
Foreign == {i \in 1..Len(input) : Utf!getByteWidthOfCharacter(input[i]) = 0
                                    /\ ~Utf!isPartOfPreviousUtf8Multibyte(input[i])}
Undetected == \E i \in Foreign : i > 1 /\ input[i - 1] >= 128

(* The last character of the string lacks bytes. *)
BreaksOff == LET data == Utf!CString(input)
                 n == Len(data)
             IN \E k \in 1..n : /\ Utf!getByteWidthOfCharacter(data[n + 1 - k]) > k
                               /\ \A i \in n + 2 - k..n : Utf!isPartOfPreviousUtf8Multibyte(data[i])

(***************************************************************************)
(* InvalidIsReplaced: whatever bytes a string is made of, its data are     *)
(* valid UTF-8, and invalid characters are replaced by U+FFFD in it, as    *)
(* docs/concepts.md says.                                                  *)
(***************************************************************************)
InvalidIsReplaced == Valid(s.data) /\ (~Valid(Utf!CString(input)) => Replaced)

(***************************************************************************)
(* ValidUtf8: unless a byte F8 to FF comes behind a byte of a multi-byte   *)
(* character (validateString passes it over and takes it for a part of the *)
(* character), the data of a UTF8String are valid UTF-8, its length is the *)
(* number of characters, and making a UTF8String of it again (as           *)
(* concatenations, copies and the C API do) changes nothing.  Valid data   *)
(* are left as they are; invalid ones contain U+FFFD, except for bytes F8  *)
(* to FF elsewhere and a character that breaks off at the end, which are   *)
(* left out.                                                               *)
(***************************************************************************)
ValidUtf8 ==
    ~Undetected =>
      /\ Characters(s.data) = s.length
      /\ Utf!validateString(s.data) = s
      /\ Valid(Utf!CString(input)) => s.data = Utf!CString(input)
      /\ ~Valid(Utf!CString(input)) => Replaced \/ Foreign # {} \/ BreaksOff

(***************************************************************************)
(* UrlRoundTrip: what urlencode makes of a value contains no separator of  *)
(* the beacon data and is decoded to the same value, whatever bytes are in *)
(* it and also with additional reserved characters.                        *)
(***************************************************************************)
UrlRoundTrip ==
    ~Undetected => \A reserved \in {{}, {95}} :
         LET e == Url!urlencode(s, reserved)
         IN /\ Url!urldecode(e) = s
            /\ \A i \in 1..Len(e.data) : e.data[i] \in Url!Unreserved \cup {Url!Percent}

(***************************************************************************)
(* CutAtCharacters: a value is truncated and taken apart between two       *)
(* characters: a prefix and the rest of a string are valid strings with    *)
(* the lengths asked for and make up the string again; cutting it at the   *)
(* first separator works whatever getIndexOf reads behind the string; and  *)
(* the parts of a split string are its data without the delimiters.        *)
(***************************************************************************)
CutAtCharacters ==
    Undetected \/
       /\ \A n \in 1..s.length - 1 :
            LET prefix == Utf!substring(s, 0, n)
                rest == Utf!substring(s, n, s.length)
            IN /\ prefix.length = n /\ Characters(prefix.data) = n
               /\ Utf!concatenate(prefix, rest) = s
       /\ \A d \in Bytes : d < 128 =>
            \A at \in Utf!getIndexOf(s, d, 0) :
              LET cut == IF at = Utf!NotFound THEN s ELSE Utf!substring(s, 0, at)
                  ends == {i \in 1..Len(s.data) : s.data[i] = d}
              IN cut.data = IF ends = {} THEN s.data ELSE SubSeq(s.data, 1, Min(ends) - 1)
       /\ \A d \in Bytes : d < 128 =>
            LET parts == Utf!split(s, d)
            IN FlattenSeq([k \in 1..Len(parts) |-> parts[k].data])
                 = SelectSeq(s.data, LAMBDA b : b # d)

(***************************************************************************)
(* AddressFormsAccepted: IsValidIP accepts an address in every text form   *)
(* it may have.  What it accepts beyond these has at most one pair of      *)
(* colons and otherwise the number of blocks an address has; only the      *)
(* number of blocks around a pair of colons is not limited.                *)
(***************************************************************************)
AddressFormsAccepted ==
    /\ address \in AddressForms => Inet!IsValidIP(address)
    /\ Inet!IsValidIP(address) =>
         LET zone == {i \in 1..Len(address) : address[i] = "%"}
             ip == IF zone = {} THEN address ELSE SubSeq(address, 1, Min(zone) - 1)
             pairs == {i \in 1..Len(ip) - 1 : ip[i] = ":" /\ ip[i + 1] = ":"}
         IN /\ Cardinality(pairs) <= 1
            /\ pairs = {} => Len(SelectSeq(ip, LAMBDA c : c \in {"h", "d"})) \in {4, 8, 10}
==============================================================================
