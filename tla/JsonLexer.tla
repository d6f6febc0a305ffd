------------------------------- MODULE JsonLexer -------------------------------
(***************************************************************************)
(* The lexer of the JSON parser (util/json/lexer, util/json/reader).       *)
(*                                                                         *)
(* A text is a sequence of symbols.  A symbol is a character, or a word    *)
(* the lexer treats as one thing: the literals, a number, the four hex     *)
(* digits of a UTF-16 code unit.  The words are chosen so that no two of   *)
(* them next to each other make up a literal or a number:                  *)
(*   "int" is -1, "zero" -0, "frac" -0.5, "big" an integer that does not   *)
(*   fit into int64_t, "word" some letters; "001F", "00C4", "20AC" code    *)
(*   units, "D83D" and "DE00" a high and a low surrogate;                  *)
(*   "lf" stands for the characters with an escape of one letter (the      *)
(*   whitespace ones), "n" for the letters of these escapes, "us" for the  *)
(*   other control characters.                                             *)
(* "byte..", and "astral" (the UTF-8 form of D83D DE00) are what escapes   *)
(* are replaced by.                                                        *)
(***************************************************************************)
EXTENDS Integers, Sequences, SequencesExt

Structural == {"[", "]", "{", "}", ":", ","}
Whitespace == {"lf"}
Numbers == {"int", "zero", "frac", "big"}
Literals == {"true", "false", "null"}
CodeUnits == {"001F", "00C4", "20AC", "D83D", "DE00"}
Produced == {"astral", "byte20", "byteAC", "byteC4"}

Symbols == Structural \cup Whitespace \cup Numbers \cup Literals \cup CodeUnits
             \cup Produced \cup {"quote", "esc", "solidus", "n", "u", "us", "word"}

isHighSurrogateCharacter(unit) == unit = "D83D"
isLowSurrogateCharacter(unit) == unit = "DE00"

isCharacterThatNeedsEscaping(c) == c \in {"quote", "esc", "lf", "us"}

(***************************************************************************)
(* What reading a part of the text gives: the characters or the token, the *)
(* text that is left, and the exception that was thrown instead:           *)
(* "lexer" JsonLexerException, "logic" std::logic_error.                   *)
(***************************************************************************)
Got(chars, rest) == [chars |-> chars, rest |-> rest, thrown |-> "none"]
Fail(exception, rest) == [chars |-> <<>>, rest |-> rest, thrown |-> exception]

(* The length of the longest prefix of text with symbols of S only. *)
Run(text, S) == CHOOSE n \in 0..Len(text) :
                    /\ \A i \in 1..n : text[i] \in S
                    /\ n < Len(text) => text[n + 1] \notin S

From(text, i) == SubSeq(text, i, Len(text))

consumeWhitespaceCharacters(text) == From(text, Run(text, Whitespace) + 1)

(* A literal ends at whitespace or at a structural character only. *)
parseLiteral(text) ==
    LET n == Run(text, Symbols \ (Structural \cup Whitespace))
    IN Got(SubSeq(text, 1, n), From(text, n + 1))

(* Four hex digits; the end of the text right after them is an error, too. *)
readUnicodeEscapeSequence(text) ==
    IF Len(text) > 1 /\ text[1] \in CodeUnits
      THEN Got(<<text[1]>>, Tail(text))
      ELSE Fail("lexer", <<>>)

(***************************************************************************)
(* The text after a high surrogate.  The reader's mark is good for one     *)
(* character: when a reverse solidus is followed by something else than    *)
(* `u' two were read, and reset() throws std::logic_error.  At the end of  *)
(* the text the stream has no position, and reset() does nothing.          *)
(***************************************************************************)
tryParseLowSurrogateChar(text) ==
    IF text[1] = "esc" /\ Len(text) > 1
      THEN IF text[2] = "u" THEN readUnicodeEscapeSequence(From(text, 3))
                            ELSE Fail("logic", From(text, 3))
      ELSE Fail("lexer", <<>>)

(* A code unit that is no surrogate is written as its one or two bytes. *)
BytesOfUnit(unit) == CASE unit = "001F" -> <<"us">>
                       [] unit = "00C4" -> <<"byteC4">>
                       [] unit = "20AC" -> <<"byte20", "byteAC">>

tryParseUnicodeEscapeSequence(text) ==
    LET first == readUnicodeEscapeSequence(text)
        second == tryParseLowSurrogateChar(first.rest)
    IN IF first.thrown # "none" THEN first
       ELSE IF isHighSurrogateCharacter(first.chars[1])
         THEN IF second.thrown # "none" THEN second
              ELSE IF isLowSurrogateCharacter(second.chars[1])
                THEN Got(<<"astral">>, second.rest)
                ELSE Fail("lexer", <<>>)
       ELSE IF isLowSurrogateCharacter(first.chars[1])
         THEN Fail("lexer", <<>>)
         ELSE Got(BytesOfUnit(first.chars[1]), first.rest)

(* The literals begin with t, f and n, which are escapes themselves. *)
tryParseEscapeSequence(text) ==
    IF text = <<>> THEN Fail("lexer", <<>>)
    ELSE CASE text[1] \in {"quote", "esc", "solidus"} -> Got(<<text[1]>>, Tail(text))
           [] text[1] = "n" -> Got(<<"lf">>, Tail(text))
           [] text[1] \in Literals -> Got(<<"lf", "word">>, Tail(text))
           [] text[1] = "u" -> tryParseUnicodeEscapeSequence(Tail(text))
           [] OTHER -> Fail("lexer", <<>>)

(* The text after the opening quotation mark, with `chars' read so far. *)
RECURSIVE StringFrom(_, _)
StringFrom(text, chars) ==
    IF text = <<>> THEN Fail("lexer", <<>>)
    ELSE LET escape == tryParseEscapeSequence(Tail(text))
         IN CASE text[1] = "quote" -> Got(chars, Tail(text))
              [] text[1] = "esc" ->
                   IF escape.thrown # "none" THEN escape
                   ELSE StringFrom(escape.rest, chars \o escape.chars)
              [] text[1] # "esc" /\ text[1] # "quote"
                   /\ isCharacterThatNeedsEscaping(text[1]) -> Fail("lexer", <<>>)
              [] OTHER -> StringFrom(Tail(text), Append(chars, text[1]))

tryParseStringToken(text) == StringFrom(text, <<>>)

(***************************************************************************)
(* Tokens: their type and their value, the symbols of it.                  *)
(***************************************************************************)
TokenTypes == Structural \cup {"null", "boolean", "string", "number"}

Token(type, value) == [type |-> type, value |-> value]
NullToken == Token("none", <<>>)

LiteralToken(literal) ==
    IF Len(literal) # 1 THEN NullToken
    ELSE CASE literal[1] \in {"true", "false"} -> Token("boolean", literal)
           [] literal[1] = "null" -> Token("null", literal)
           [] literal[1] \in Numbers -> Token("number", literal)
           [] OTHER -> NullToken

Lexed(token, rest, thrown) == [token |-> token, rest |-> rest, thrown |-> thrown]

doParseNextToken(text) ==
    LET string == tryParseStringToken(Tail(text))
        literal == parseLiteral(text)
        token == LiteralToken(literal.chars)
    IN CASE text[1] \in Structural -> Lexed(Token(text[1], <<>>), Tail(text), "none")
         [] text[1] = "quote" ->
              IF string.thrown # "none" THEN Lexed(NullToken, string.rest, string.thrown)
              ELSE Lexed(Token("string", string.chars), string.rest, "none")
         [] OTHER -> Lexed(token, literal.rest,
                           IF token = NullToken THEN "lexer" ELSE "none")

(* The next token of a text, the null token at its end. *)
nextToken(text) ==
    LET rest == consumeWhitespaceCharacters(text)
    IN IF rest = <<>> THEN Lexed(NullToken, <<>>, "none") ELSE doParseNextToken(rest)
==============================================================================
