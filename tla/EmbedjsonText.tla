---------------------------- MODULE EmbedjsonText -----------------------------
(***************************************************************************)
(* Embedjson with an application that writes the document it is told about *)
(* down again: what it writes is what was sent, white space apart.         *)
(***************************************************************************)
EXTENDS Embedjson

CONSTANT Shapes         \* bound: the inputs, each as what its first, second, ... byte may be

ASSUME TextAssumption == Shapes \subseteq Seq(SUBSET Alphabet)

VARIABLES
  input,      \* the bytes pushed so far
  compact,    \* the same, as the application is to write them
  text,       \* what the application has written
  nest,       \* the containers it is in
  owed        \* the separator it writes before anything but a closing bracket

tvars == <<evars, input, compact, text, nest, owed>>

(* Every number is written as this one: LexerReference is about the values.*)
NUMBER == 48

NumberBytes == L!BigNumberBytes \cup {L!PLUS}

COMMA == 44
COLON == 58

(***************************************************************************)
(* The application                                                         *)
(***************************************************************************)
Separated(bytes) == text \o owed \o bytes

(* Nothing is written after an empty array that is the value of a member:  *)
(* the parser takes no comma there.                                        *)
AfterArray == IF Last(text) = 91 /\ Len(nest) > 1 /\ nest[Len(nest) - 1] = "object"
              THEN <<>> ELSE <<COMMA>>

Literally == [e \in {"null", "bool_0", "bool_1"} |->
  L!Keyword[CASE e = "null" -> "IN_NULL" [] e = "bool_0" -> "IN_FALSE" [] OTHER -> "IN_TRUE"]]

Begin(container, bracket) ==
  text' = Separated(<<bracket>>) /\ nest' = Append(nest, container) /\ owed' = <<>>

End(bracket, separator) ==
  text' = Append(text, bracket) /\ nest' = Front(nest) /\ owed' = separator

Scalar(bytes) == text' = Separated(bytes) /\ owed' = <<COMMA>> /\ UNCHANGED nest

(* A string is a key unless it is in an array, at the top, or after a colon.*)
IsKey == nest # <<>> /\ Last(nest) = "object" /\ owed # <<COLON>>

StringBegin == /\ text' = Separated(<<L!QUOTE>>)
               /\ owed' = IF IsKey THEN <<COLON>> ELSE <<COMMA>>
               /\ UNCHANGED nest

Within(bytes) == text' = text \o bytes /\ UNCHANGED <<nest, owed>>

(* The callback e, made for the call c of the lexer.                       *)
Write(e, c) ==
  CASE e = "object_begin" -> Begin("object", 123)
    [] e = "object_end" -> End(125, <<COMMA>>)
    [] e = "array_begin" -> Begin("array", 91)
    [] e = "array_end" -> End(93, AfterArray)
    [] e \in DOMAIN Literally -> Scalar(Literally[e])
    [] e \in {"int", "double", "bignum_begin"} -> Scalar(<<NUMBER>>)
    [] e = "string_begin" -> StringBegin
    [] e = "string_chunk" -> Within(c.bytes)
    [] e = "string_end" -> Within(<<L!QUOTE>>)
    [] OTHER -> Within(<<>>)

MakesCallback(c) == c.call = "token" => c.tok \notin {"COMMA", "COLON"}

(***************************************************************************)
(* The input, without white space between tokens, its escapes replaced and *)
(* every run of number bytes that begins as a number does one NUMBER.      *)
(***************************************************************************)
Blank == [bytes |-> <<>>, mode |-> "out", hex |-> <<>>]

GoesOn(r, b) == r.mode = "number" /\ b \in NumberBytes

(* The two bytes of \uXXXX, b being its last digit.                        *)
CodeUnit(hex, b) == <<16 * L!HexValue(hex[1]) + L!HexValue(hex[2]),
                      16 * L!HexValue(hex[3]) + L!HexValue(b)>>

(* What the byte b stands for when it comes first in a token.              *)
First(b) == IF b \in L!WHITESPACE THEN <<>>
            ELSE IF b \in L!DIGITS \cup {L!MINUS} THEN <<NUMBER>>
            ELSE <<b>>

(* What the byte b of the input adds.                                      *)
Adds(r, b) ==
  CASE r.mode = "string" -> IF b = L!BACKSLASH THEN <<>> ELSE <<b>>
    [] r.mode = "escape" -> IF b \in DOMAIN L!Escaped THEN <<L!Escaped[b]>> ELSE <<>>
    [] r.mode = "unicode" -> IF Len(r.hex) = 3 THEN CodeUnit(r.hex, b) ELSE <<>>
    [] OTHER -> IF GoesOn(r, b) THEN <<>> ELSE First(b)

(* Where the next byte is.                                                 *)
Mode(r, b) ==
  CASE r.mode = "string" -> IF b = L!BACKSLASH THEN "escape" ELSE IF b = L!QUOTE THEN "out" ELSE "string"
    [] r.mode = "escape" -> IF b = 117 THEN "unicode" ELSE "string"
    [] r.mode = "unicode" -> IF Len(r.hex) = 3 THEN "string" ELSE "unicode"
    [] OTHER -> IF GoesOn(r, b) \/ b \in L!DIGITS \cup {L!MINUS} THEN "number"
                ELSE IF b = L!QUOTE THEN "string" ELSE "out"

Squeeze(r, b) == [bytes |-> r.bytes \o Adds(r, b),
                  mode  |-> Mode(r, b),
                  hex   |-> IF r.mode = "unicode" THEN Append(r.hex, b) ELSE <<>>]

(***************************************************************************)
(* All of it together                                                      *)
(***************************************************************************)
application == <<text, nest, owed>>

(* s may be completed to an input by n more bytes.                         *)
Fits(s, n) == \E shape \in Shapes : /\ Len(s) + n <= Len(shape)
                                    /\ \A i \in DOMAIN s : s[i] \in shape[i]

TInit == EInit /\ input = <<>> /\ compact = Blank /\ text = <<>> /\ nest = <<>> /\ owed = <<>>

TNext ==
  \/ \E size \in 0..MaxBuffer :
       /\ embedjson_push(size) /\ Fits(input, size)
       /\ UNCHANGED <<input, compact, application>>
  \/ \E b \in Alphabet :
       /\ Scan(b)
       /\ IF again THEN UNCHANGED <<input, compact>>
          ELSE input' = Append(input, b) /\ compact' = Squeeze(compact, b)
       /\ Fits(input', left') /\ UNCHANGED application
  \/ /\ Return \/ embedjson_lexer_finalize \/ embedjson_finalize \/ Over
     /\ UNCHANGED <<input, compact, application>>
  \/ /\ RunCall
     /\ IF err' = "OK" /\ MakesCallback(Head(calls)) THEN Write(event', Head(calls))
        ELSE UNCHANGED application
     /\ UNCHANGED <<input, compact>>

TSpec == TInit /\ [][TNext]_tvars

(* At any moment, in the middle of a push or after a failure too, the      *)
(* callbacks made so far spell a beginning of the input: none is missing,  *)
(* repeated or ahead of the input, however it is cut into buffers.         *)
CallbacksSpellInput == IsPrefix(text, compact.bytes)

(* What embedjson_finalize accepts, the application has been told to the   *)
(* last byte, and all it was told of is closed.  That need not be JSON:    *)
(* 1. and 1e+ are told as numbers at the end of the input, and the         *)
(* separators are the parser's (ParserLanguage).                           *)
AcceptedIsSpelledOut == finalized => text = compact.bytes /\ nest = <<>>
===============================================================================
