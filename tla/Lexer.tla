-------------------------------- MODULE Lexer ---------------------------------
(***************************************************************************)
(* The lexer of embedjson (lexer.c).  The application pushes buffers of    *)
(* bytes, cut anywhere; each iteration of the loop of embedjson_lexer_push *)
(* takes one byte, may call token functions, and works on a copy, lex, of  *)
(* *lexer that is stored back only when the whole buffer went well.        *)
(*                                                                         *)
(* One action per case of the switch over lex.state.  Every token call may *)
(* fail; the push returns at once then and the application gives up.       *)
(***************************************************************************)
EXTENDS Integers, Sequences, SequencesExt

CONSTANTS
  BIGNUM, VALIDATE_UTF8,   \* the EMBEDJSON_* build switches
  INT_MAX,                 \* EMBEDJSON_INT_MAX; EMBEDJSON_INT_T is at least as wide as int
  FRAC_MODULUS,            \* 2^(width of frac_value)
  Alphabet,                \* the bytes the input is made of
  MaxBuffer,               \* bound: bytes of one embedjson_push
  MaxFraction,             \* bound: digits after the decimal point
  NULL

ASSUME LexerAssumption ==
  /\ BIGNUM \in BOOLEAN /\ VALIDATE_UTF8 \in BOOLEAN
  /\ INT_MAX \in Nat /\ INT_MAX >= 127
  /\ FRAC_MODULUS \in Nat \ {0}
  /\ Alphabet \subseteq 0..255
  /\ MaxBuffer \in Nat
  /\ MaxFraction \in Nat
  /\ NULL \notin Seq(0..255)

VARIABLES
  lexer,      \* the fields of *lexer
  lex,        \* the working copy
  pushing,    \* embedjson_lexer_push is running
  left,       \* end - data
  data,       \* the byte of the last iteration
  again,      \* data-- was done: the next iteration sees the same byte
  chunk,      \* the bytes from string_chunk_begin to data, NULL if it points at none
  calls,      \* the token functions the last step called
  err,        \* what it returned, "OK" for 0
  finalized   \* embedjson_lexer_finalize returned 0

vars == <<lexer, lex, pushing, left, data, again, chunk, calls, err, finalized>>

NumberStates == {"IN_NUMBER_SIGN", "IN_NUMBER", "IN_NUMBER_FRAC", "IN_NUMBER_EXP_SIGN",
                 "IN_NUMBER_EXP", "IN_BIG_NUMBER"}
StringStates == {"IN_STRING", "IN_STRING_ESCAPE", "IN_STRING_UNICODE_ESCAPE"}
KeywordStates == {"IN_TRUE", "IN_FALSE", "IN_NULL"}
LexerStates == {"LOOKUP_TOKEN"} \cup NumberStates \cup StringStates \cup KeywordStates

Encodings == {"UNKNOWN", "UTF8", "UTF16LE", "UTF16BE", "UTF32LE", "UTF32BE"}

(***************************************************************************)
(* Bytes                                                                   *)
(***************************************************************************)
QUOTE == 34
BACKSLASH == 92
PLUS == 43
MINUS == 45
DOT == 46
DIGITS == 48..57
EXPONENT == {69, 101}
WHITESPACE == {32, 10, 13, 9}
Digit(b) == b - 48

Punctuation == [b \in {58, 44, 123, 125, 91, 93} |->
  CASE b = 58 -> "COLON" [] b = 44 -> "COMMA"
    [] b = 123 -> "OPEN_CURLY_BRACKET" [] b = 125 -> "CLOSE_CURLY_BRACKET"
    [] b = 91 -> "OPEN_BRACKET" [] OTHER -> "CLOSE_BRACKET"]

KeywordOf == [b \in {116, 102, 110} |->
  CASE b = 116 -> "IN_TRUE" [] b = 102 -> "IN_FALSE" [] OTHER -> "IN_NULL"]

Keyword == [s \in KeywordStates |->
  CASE s = "IN_TRUE" -> <<116, 114, 117, 101>>
    [] s = "IN_FALSE" -> <<102, 97, 108, 115, 101>>
    [] OTHER -> <<110, 117, 108, 108>>]

KeywordToken == [s \in KeywordStates |->
  CASE s = "IN_TRUE" -> "TRUE" [] s = "IN_FALSE" -> "FALSE" [] OTHER -> "NULL"]

KeywordError == [s \in KeywordStates |->
  CASE s = "IN_TRUE" -> "BAD_TRUE" [] s = "IN_FALSE" -> "BAD_FALSE" [] OTHER -> "BAD_NULL"]

(* \" \\ \/ \b \f \n \r \t *)
Escaped == [b \in {34, 92, 47, 98, 102, 110, 114, 116} |->
  CASE b = 98 -> 8 [] b = 102 -> 12 [] b = 110 -> 10 [] b = 114 -> 13 [] b = 116 -> 9
    [] OTHER -> b]

HexDigits == DIGITS \cup (97..102) \cup (65..70)
HexValue(b) == IF b \in DIGITS THEN b - 48 ELSE IF b >= 97 THEN 10 + b - 97 ELSE 10 + b - 65

BigNumberBytes == DIGITS \cup EXPONENT \cup {MINUS, DOT}

(***************************************************************************)
(* Token calls and the ways an iteration ends                              *)
(***************************************************************************)
Token(t)      == [call |-> "token", tok |-> t]
TokenC(bytes) == [call |-> "tokenc", bytes |-> bytes]
TokenCBegin   == [call |-> "tokenc_begin"]
TokenCEnd     == [call |-> "tokenc_end"]

TokenI(l)     == [call |-> "tokeni", int |-> IF l.minus THEN 0 - l.int_value ELSE l.int_value]
TokenBnBegin(n)  == [call |-> "tokenbn_begin", int |-> n]
TokenBn(bytes)   == [call |-> "tokenbn", bytes |-> bytes]
TokenBnEnd       == [call |-> "tokenbn_end"]

(* powm10(n) is 10^-n, entry n + 308 of a table of 632 entries.            *)
powm10Arguments == -308..323

(* The double (int + frac * powm10(power)) * powm10(-exp), negated by minus.*)
TokenF(l) == [call |-> "tokenf", int |-> l.int_value, frac |-> l.frac_value,
              power |-> l.frac_power, minus |-> l.minus,
              exp |-> IF l.exp_minus THEN 0 - l.exp_value ELSE l.exp_value]

(* The calls in seq are made in order, up to the first that fails.         *)
Make(seq) == \/ calls' = seq /\ err' = "OK"
             \/ \E k \in 1..Len(seq) : calls' = SubSeq(seq, 1, k) /\ err' = "CALLBACK"

(* The iteration makes the calls and goes on with l and c; redo is data--. *)
Proceed(seq, l, c, redo) ==
  /\ Make(seq)
  /\ IF err' = "OK" THEN lex' = l /\ chunk' = c /\ again' = redo
     ELSE UNCHANGED <<lex, chunk, again>>

(* return embedjson_error_ex(...)                                          *)
Fail(code) == err' = code /\ calls' = <<>> /\ UNCHANGED <<lex, chunk, again>>

(* A non-empty chunk is handed over before what ends it.                   *)
Flush(piece) == IF chunk = <<>> THEN <<>> ELSE <<piece>>

(***************************************************************************)
(* Encoding guess: the first four iterations record their byte (whether it *)
(* is zero is all that matters), the fifth compares.  as_int is little-    *)
(* endian, so the mask 0x000000FF spares the first byte.                   *)
(***************************************************************************)
ZeroBytes(l, positions) == \A i \in positions : l.magic[i] = 0

Guess(l) == IF ZeroBytes(l, {2, 3, 4}) THEN "UTF32BE"
            ELSE IF ZeroBytes(l, {1, 2, 3}) THEN "UTF32LE"
            ELSE IF ZeroBytes(l, {2, 4}) THEN "UTF16BE"
            ELSE IF ZeroBytes(l, {1, 3}) THEN "UTF16LE"
            ELSE "UTF8"

Sniff(l, b) == IF Len(l.magic) < 4 THEN [l EXCEPT !.magic = Append(@, IF b = 0 THEN 0 ELSE 1)]
               ELSE IF l.encoding = "UNKNOWN" THEN [l EXCEPT !.encoding = Guess(l)]
               ELSE l

(***************************************************************************)
(* LOOKUP_TOKEN                                                            *)
(***************************************************************************)
LookupToken(l, b) ==
  /\ l.state = "LOOKUP_TOKEN"
  /\ \/ b \in WHITESPACE /\ Proceed(<<>>, l, chunk, FALSE)
     \/ b \in DOMAIN Punctuation /\ Proceed(<<Token(Punctuation[b])>>, l, chunk, FALSE)
     \/ b = QUOTE /\ Proceed(<<TokenCBegin>>, [l EXCEPT !.state = "IN_STRING"], <<>>, FALSE)
     \/ /\ b \in DOMAIN KeywordOf
        /\ Proceed(<<>>, [l EXCEPT !.offset = 1, !.state = KeywordOf[b]], chunk, FALSE)
     \/ /\ b = MINUS
        /\ Proceed(<<>>, [l EXCEPT !.minus = TRUE, !.state = "IN_NUMBER_SIGN"], chunk, FALSE)
     \/ /\ b \in DIGITS
        /\ Proceed(<<>>, [l EXCEPT !.int_value = Digit(b), !.state = "IN_NUMBER"], chunk, FALSE)
     \/ b = PLUS /\ Fail("LEADING_PLUS")
     \/ /\ b \notin WHITESPACE \cup DOMAIN Punctuation \cup DOMAIN KeywordOf \cup DIGITS
                    \cup {QUOTE, MINUS, PLUS}
        /\ Fail("UNEXP_SYMBOL")

InKeyword(l, b) ==
  /\ l.state \in KeywordStates
  /\ LET word == Keyword[l.state]
         next == [l EXCEPT !.offset = @ + 1]
     IN IF b # word[l.offset + 1] THEN Fail(KeywordError[l.state])
        ELSE IF next.offset < Len(word) THEN Proceed(<<>>, next, chunk, FALSE)
        ELSE Proceed(<<Token(KeywordToken[l.state])>>,
                     [next EXCEPT !.state = "LOOKUP_TOKEN"], chunk, FALSE)

(***************************************************************************)
(* Strings.  nb counts the continuation bytes still to come and cc names   *)
(* the lead byte (1: E0, 2: F0, 3: F4) that restricts the next of them.    *)
(***************************************************************************)
Corner(l) == <<l.nb, l.cc>> \in {<<2, 1>>, <<3, 2>>, <<3, 3>>}

(* The bytes the masks let through; a three byte rest without a corner     *)
(* case is not tested at all.                                              *)
Continuations(l) ==
  CASE l.nb = 0 \/ (l.nb = 3 /\ ~Corner(l)) -> 0..255
    [] Corner(l) /\ l.cc = 1 -> 160..191
    [] Corner(l) /\ l.cc = 2 -> (144..159) \cup (176..191)
    [] Corner(l) /\ l.cc = 3 -> 128..143
    [] OTHER -> 128..191

(* Mutant: nb is decremented at every byte.                                *)
ContinueAlways(l) == [l EXCEPT !.nb = @ - 1, !.cc = IF Corner(l) THEN 0 ELSE @]

Continue(l) == IF l.nb = 0 THEN l
               ELSE [l EXCEPT !.nb = @ - 1, !.cc = IF Corner(l) THEN 0 ELSE @]

(* Mutant: F4 is a lead byte like any other.                               *)
LeadWithoutF4(l, b) == CASE b <= 223 -> [l EXCEPT !.nb = 1]
                         [] b \in 224..239 -> [l EXCEPT !.nb = 2, !.cc = IF b = 224 THEN 1 ELSE @]
                         [] OTHER -> [l EXCEPT !.nb = 3, !.cc = IF b = 240 THEN 2 ELSE @]

Lead(l, b) == CASE b <= 223 -> [l EXCEPT !.nb = 1]
                [] b \in 224..239 -> [l EXCEPT !.nb = 2, !.cc = IF b = 224 THEN 1 ELSE @]
                [] OTHER -> [l EXCEPT !.nb = 3, !.cc = IF b = 240 THEN 2 ELSE
                                                       IF b = 244 THEN 3 ELSE @]

InString(l, b) ==
  /\ l.state = "IN_STRING"
  /\ LET c    == IF VALIDATE_UTF8 THEN Continue(l) ELSE l
         good == VALIDATE_UTF8 => b \in Continuations(l)
         text == ~VALIDATE_UTF8 \/ b < 192
     IN \/ ~good /\ Fail("BAD_UTF8")
        \/ good /\ ~text /\ b >= 248 /\ Fail("LONG_UTF8")
        \/ good /\ ~text /\ b < 248 /\ Proceed(<<>>, Lead(c, b), Append(chunk, b), FALSE)
        \/ /\ good /\ b = BACKSLASH
           /\ Proceed(Flush(TokenC(chunk)), [c EXCEPT !.state = "IN_STRING_ESCAPE"], NULL, FALSE)
        \/ /\ good /\ b = QUOTE
           /\ Proceed(Flush(TokenC(chunk)) \o <<TokenCEnd>>,
                      [c EXCEPT !.state = "LOOKUP_TOKEN"], NULL, FALSE)
        \/ /\ good /\ text /\ b \notin {BACKSLASH, QUOTE}
           /\ IF VALIDATE_UTF8 /\ c.nb = 0 /\ b < 32 THEN Fail("BAD_UTF8")
              ELSE Proceed(<<>>, c, Append(chunk, b), FALSE)

(* Mutant: the text goes on at the escaped byte itself.                    *)
InStringEscapeTwice(l, b) ==
  /\ l.state = "IN_STRING_ESCAPE"
  /\ \/ /\ b \in DOMAIN Escaped
        /\ Proceed(<<TokenC(<<Escaped[b]>>)>>, [l EXCEPT !.state = "IN_STRING"], <<b>>, FALSE)
     \/ /\ b = 117
        /\ Proceed(<<>>, [l EXCEPT !.state = "IN_STRING_UNICODE_ESCAPE", !.offset = 0],
                   chunk, FALSE)
     \/ b \notin DOMAIN Escaped \cup {117} /\ Fail("BAD_ESCAPE")

InStringEscape(l, b) ==
  /\ l.state = "IN_STRING_ESCAPE"
  /\ \/ /\ b \in DOMAIN Escaped
        /\ Proceed(<<TokenC(<<Escaped[b]>>)>>, [l EXCEPT !.state = "IN_STRING"], <<>>, FALSE)
     \/ /\ b = 117
        /\ Proceed(<<>>, [l EXCEPT !.state = "IN_STRING_UNICODE_ESCAPE", !.offset = 0],
                   chunk, FALSE)
     \/ b \notin DOMAIN Escaped \cup {117} /\ Fail("BAD_ESCAPE")

(* Four hexadecimal digits make the two bytes of unicode_cp.               *)
InStringUnicodeEscape(l, b) ==
  /\ l.state = "IN_STRING_UNICODE_ESCAPE"
  /\ LET byte == l.offset \div 2 + 1
         half == IF l.offset % 2 = 0 THEN 16 * HexValue(b) ELSE l.unicode_cp[byte] + HexValue(b)
         next == [l EXCEPT !.unicode_cp = [@ EXCEPT ![byte] = half], !.offset = @ + 1]
     IN IF b \notin HexDigits THEN Fail("BAD_UNICODE_ESCAPE")
        ELSE IF l.offset < 3 THEN Proceed(<<>>, next, chunk, FALSE)
        ELSE Proceed(<<TokenC(next.unicode_cp)>>, [next EXCEPT !.state = "IN_STRING"],
                     <<>>, FALSE)

(***************************************************************************)
(* Numbers.  The byte that ends one is not part of it: data-- makes the    *)
(* next iteration look it up again.                                        *)
(***************************************************************************)
(* Mutant: the lexer does not leave the number.                            *)
AfterIntStays(l) == [l EXCEPT !.int_value = 0, !.minus = FALSE]

(* What embedjson_lexer_push resets when a number is complete.             *)
AfterInt(l) == [l EXCEPT !.int_value = 0, !.minus = FALSE, !.state = "LOOKUP_TOKEN"]

(* Mutant: the number of fraction digits is kept.                          *)
AfterFracKeepsPower(l) == [AfterInt(l) EXCEPT !.frac_value = 0]

AfterFrac(l) == [AfterInt(l) EXCEPT !.frac_power = 0, !.frac_value = 0]
AfterExp(l) == [AfterFrac(l) EXCEPT !.exp_value = 0, !.exp_minus = FALSE, !.exp_not_empty = FALSE]

(* Mutant: the multiplication is forgotten.                                *)
IntOverflowsLate(l, b) == l.int_value > INT_MAX - Digit(b)

(* Mutant: the code of the digit is subtracted in place of its value.      *)
IntOverflowsByCode(l, b) == l.int_value > (INT_MAX \div 10) - b

(* The test made before a digit is appended to int_value.                  *)
IntOverflows(l, b) == l.int_value > (INT_MAX \div 10) - Digit(b)

(* The sum is made from left to right: the code of the digit is added to   *)
(* the product, then '0' is subtracted.                                    *)
SumOverflows(l, b) == 10 * l.int_value + b > INT_MAX

AppendDigit(l, b) == [l EXCEPT !.int_value = (10 * @ + b) - 48]

InNumberSign(l, b) ==
  /\ l.state = "IN_NUMBER_SIGN"
  /\ IF b \in DIGITS
     THEN Proceed(<<>>, [AppendDigit(l, b) EXCEPT !.state = "IN_NUMBER"], chunk, FALSE)
     ELSE Fail("EOF_IN_STRING")

(* A sum that overflows is undefined: it wraps around twice and gives the  *)
(* right value, or stops the program (TRAP is not a code of it).  The digit*)
(* that would overflow is in neither the initial value nor the first chunk *)
(* of the big number.                                                      *)
InNumber(l, b) ==
  /\ l.state = "IN_NUMBER"
  /\ \/ b \in DIGITS /\ l.int_value = 0 /\ Fail("LEADING_ZERO")
     \/ /\ b \in DIGITS /\ l.int_value # 0
        /\ IF ~IntOverflows(l, b)
           THEN \/ Proceed(<<>>, AppendDigit(l, b), chunk, FALSE)
                \/ SumOverflows(l, b) /\ Fail("TRAP")
           ELSE IF BIGNUM THEN Proceed(<<TokenBnBegin(l.int_value)>>,
                                       [l EXCEPT !.state = "IN_BIG_NUMBER"], <<>>, FALSE)
           ELSE Fail("INT_OVERFLOW")
     \/ b = DOT /\ Proceed(<<>>, [l EXCEPT !.state = "IN_NUMBER_FRAC"], chunk, FALSE)
     \/ /\ b \in EXPONENT
        /\ Proceed(<<>>, [l EXCEPT !.state = "IN_NUMBER_EXP_SIGN"], chunk, FALSE)
     \/ /\ b \notin DIGITS \cup EXPONENT \cup {DOT}
        /\ Proceed(<<TokenI(l)>>, AfterInt(l), chunk, TRUE)

AppendFracDigit(l, b) == [l EXCEPT !.frac_value = (10 * @ + Digit(b)) % FRAC_MODULUS,
                                   !.frac_power = (@ + 1) % 65536]

InNumberFrac(l, b) ==
  /\ l.state = "IN_NUMBER_FRAC"
  /\ \/ /\ b \in DIGITS /\ l.frac_power < MaxFraction
        /\ Proceed(<<>>, AppendFracDigit(l, b), chunk, FALSE)
     \/ b \notin DIGITS /\ l.frac_power = 0 /\ Fail("EMPTY_FRAC")
     \/ /\ b \in EXPONENT /\ l.frac_power # 0
        /\ Proceed(<<>>, [l EXCEPT !.state = "IN_NUMBER_EXP_SIGN"], chunk, FALSE)
     \/ /\ b \notin DIGITS \cup EXPONENT /\ l.frac_power # 0
        /\ Proceed(<<TokenF(l)>>, AfterFrac(l), chunk, TRUE)

InNumberExpSign(l, b) ==
  /\ l.state = "IN_NUMBER_EXP_SIGN"
  /\ LET next == [l EXCEPT !.state = "IN_NUMBER_EXP"]
     IN \/ b = MINUS /\ Proceed(<<>>, [next EXCEPT !.exp_minus = TRUE], chunk, FALSE)
        \/ b = PLUS /\ Proceed(<<>>, next, chunk, FALSE)
        \/ /\ b \in DIGITS
           /\ Proceed(<<>>, [next EXCEPT !.exp_value = Digit(b), !.exp_not_empty = TRUE],
                      chunk, FALSE)
        \/ b \notin DIGITS \cup {MINUS, PLUS} /\ Fail("BAD_EXPONENT")

(* Mutant: one limit for both signs.                                       *)
ExponentLimitUnsigned(l) == 323

(* Beyond these exponents powm10 has no entry.                             *)
ExponentLimit(l) == IF l.exp_minus THEN 323 ELSE 308

InNumberExp(l, b) ==
  /\ l.state = "IN_NUMBER_EXP"
  /\ LET next == [l EXCEPT !.exp_value = 10 * @ + Digit(b), !.exp_not_empty = TRUE]
     IN \/ /\ b \in DIGITS
           /\ IF next.exp_value > ExponentLimit(l) THEN Fail("EXPONENT_OVERFLOW")
              ELSE Proceed(<<>>, next, chunk, FALSE)
        \/ b \notin DIGITS /\ ~l.exp_not_empty /\ Fail("EMPTY_EXP")
        \/ /\ b \notin DIGITS /\ l.exp_not_empty
           /\ Proceed(<<TokenF(l)>>, AfterExp(l), chunk, TRUE)

(* Mutant: the byte that ends the number is handed over with it.           *)
InBigNumberInclusive(l, b) ==
  /\ l.state = "IN_BIG_NUMBER"
  /\ \/ b \in BigNumberBytes /\ Proceed(<<>>, l, Append(chunk, b), FALSE)
     \/ /\ b \notin BigNumberBytes
        /\ Proceed(<<TokenBn(Append(chunk, b)), TokenBnEnd>>, AfterExp(l), NULL, TRUE)

InBigNumber(l, b) ==
  /\ l.state = "IN_BIG_NUMBER"
  /\ \/ b \in BigNumberBytes /\ Proceed(<<>>, l, Append(chunk, b), FALSE)
     \/ /\ b \notin BigNumberBytes
        /\ Proceed(Flush(TokenBn(chunk)) \o <<TokenBnEnd>>, AfterExp(l), NULL, TRUE)

(***************************************************************************)
(* embedjson_lexer_push and embedjson_lexer_finalize                       *)
(***************************************************************************)
Alive == err = "OK" /\ ~finalized

ChunkStates == {"IN_STRING", "IN_BIG_NUMBER"}

(* Mutant: an open string is not continued in the next buffer.             *)
BeginPushWithoutChunk(size) ==
  /\ Alive /\ ~pushing
  /\ pushing' = TRUE /\ left' = size
  /\ lex' = lexer
  /\ chunk' = NULL
  /\ calls' = <<>>
  /\ UNCHANGED <<lexer, data, again, err, finalized>>

(* A call with a buffer of size bytes; a chunk open at the end of the last *)
(* buffer goes on at the start of this one.                                *)
BeginPush(size) ==
  /\ Alive /\ ~pushing
  /\ pushing' = TRUE /\ left' = size
  /\ lex' = lexer
  /\ chunk' = IF lexer.state \in ChunkStates THEN <<>> ELSE NULL
  /\ calls' = <<>>
  /\ UNCHANGED <<lexer, data, again, err, finalized>>

(* One iteration of the loop, on the next byte or on the last one again.   *)
Iterate(b) ==
  /\ Alive /\ pushing
  /\ IF again THEN b = data /\ UNCHANGED left ELSE left > 0 /\ left' = left - 1
  /\ data' = b
  /\ LET l == Sniff(lex, b)
     IN \/ LookupToken(l, b)
        \/ InString(l, b)
        \/ InStringEscape(l, b)
        \/ InStringUnicodeEscape(l, b)
        \/ InNumberSign(l, b)
        \/ InNumber(l, b)
        \/ InNumberFrac(l, b)
        \/ InNumberExpSign(l, b)
        \/ InNumberExp(l, b)
        \/ InBigNumber(l, b)
        \/ InKeyword(l, b)
  /\ pushing' = (err' = "OK")
  /\ UNCHANGED <<lexer, finalized>>

(* Mutant: the text of a string that goes on is not handed over.           *)
CallsAtBufferEndBignumOnly(l) == IF l.state = "IN_BIG_NUMBER" THEN Flush(TokenBn(chunk)) ELSE <<>>

(* An open chunk is handed over with the buffer it points into.            *)
CallsAtBufferEnd(l) == CASE l.state = "IN_STRING" -> Flush(TokenC(chunk))
                         [] l.state = "IN_BIG_NUMBER" -> Flush(TokenBn(chunk))
                         [] OTHER -> <<>>

(* Mutant: lex is stored back before the open chunk is flushed.            *)
EndPushStoreFirst ==
  /\ Alive /\ pushing /\ left = 0 /\ ~again
  /\ Make(CallsAtBufferEnd(lex))
  /\ lexer' = lex
  /\ pushing' = FALSE /\ chunk' = NULL
  /\ UNCHANGED <<lex, left, data, again, finalized>>

(* The end of the buffer: the open chunk is flushed, lex stored back.      *)
EndPush ==
  /\ Alive /\ pushing /\ left = 0 /\ ~again
  /\ Make(CallsAtBufferEnd(lex))
  /\ lexer' = IF err' = "OK" THEN lex ELSE lexer
  /\ pushing' = FALSE /\ chunk' = NULL
  /\ UNCHANGED <<lex, left, data, again, finalized>>

(* Mutant: only integers are completed by the end of the input.            *)
CallsAtEndIntOnly(l) ==
  CASE l.state = "IN_NUMBER" -> <<TokenI(l)>>
    [] l.state = "IN_BIG_NUMBER" -> <<TokenBnEnd>>
    [] OTHER -> <<>>

(* A number may end with the input; *lexer is not stored back.             *)
CallsAtEnd(l) ==
  CASE l.state = "IN_NUMBER" -> <<TokenI(l)>>
    [] l.state \in {"IN_NUMBER_FRAC", "IN_NUMBER_EXP"} -> <<TokenF(l)>>
    [] l.state = "IN_BIG_NUMBER" -> <<TokenBnEnd>>
    [] OTHER -> <<>>

(* Mutant: a string may end with the input, unless inside an escape.       *)
ErrorAtEndOpenString(l) ==
  CASE l.state \in (StringStates \ {"IN_STRING"}) \cup {"IN_NUMBER_SIGN"} -> "EOF_IN_STRING"
    [] l.state = "IN_NUMBER_EXP_SIGN" -> "EOF_IN_EXPONENT"
    [] l.state = "IN_TRUE" -> "EOF_IN_TRUE"
    [] l.state = "IN_FALSE" -> "EOF_IN_FALSE"
    [] l.state = "IN_NULL" -> "EOF_IN_NULL"
    [] OTHER -> "OK"

ErrorAtEnd(l) ==
  CASE l.state \in StringStates \cup {"IN_NUMBER_SIGN"} -> "EOF_IN_STRING"
    [] l.state = "IN_NUMBER_EXP_SIGN" -> "EOF_IN_EXPONENT"
    [] l.state = "IN_TRUE" -> "EOF_IN_TRUE"
    [] l.state = "IN_FALSE" -> "EOF_IN_FALSE"
    [] l.state = "IN_NULL" -> "EOF_IN_NULL"
    [] OTHER -> "OK"

Finalize ==
  /\ Alive /\ ~pushing
  /\ IF ErrorAtEnd(lexer) # "OK" THEN err' = ErrorAtEnd(lexer) /\ calls' = <<>>
     ELSE Make(CallsAtEnd(lexer))
  /\ finalized' = (err' = "OK")
  /\ UNCHANGED <<lexer, lex, pushing, left, data, again, chunk>>

Stopped == ~Alive /\ UNCHANGED vars

(* README.md: memset the parser to zero.                                   *)
ZeroedLexer ==
  [state |-> "LOOKUP_TOKEN", offset |-> 0, unicode_cp |-> <<0, 0>>,
   encoding |-> "UNKNOWN", magic |-> <<>>,
   minus |-> FALSE, exp_minus |-> FALSE, exp_not_empty |-> FALSE,
   int_value |-> 0, frac_value |-> 0, frac_power |-> 0, exp_value |-> 0,
   nb |-> 0, cc |-> 0]

Init ==
  /\ lexer = ZeroedLexer /\ lex = ZeroedLexer
  /\ pushing = FALSE /\ left = 0 /\ data = 0 /\ again = FALSE
  /\ chunk = NULL /\ calls = <<>>
  /\ err = "OK" /\ finalized = FALSE

Next ==
  \/ \E size \in 0..MaxBuffer : BeginPush(size)
  \/ \E b \in Alphabet : Iterate(b)
  \/ EndPush
  \/ Finalize
  \/ Stopped

Spec == Init /\ [][Next]_vars

(* Inside a push the program runs on by itself; no callback has to fail, so*)
(* a loop that changes nothing any more is a push that does not return.    *)
RunsOn == ((\E b \in Alphabet : Iterate(b)) \/ EndPush) /\ err' # "CALLBACK"

FairSpec == Spec /\ WF_vars(RunsOn)

(***************************************************************************)
(* Properties                                                              *)
(***************************************************************************)
LexerType ==
  [state : LexerStates, offset : 0..5, unicode_cp : [1..2 -> 0..255],
   encoding : Encodings, magic : Seq({0, 1}),
   minus : BOOLEAN, exp_minus : BOOLEAN, exp_not_empty : BOOLEAN,
   int_value : Nat, frac_value : Nat, frac_power : Nat, exp_value : Nat,
   nb : 0..3, cc : 0..3]

(* The fields of embedjson_lexer hold values of their types.               *)
TypeOK ==
  /\ lexer \in LexerType /\ lex \in LexerType
  /\ pushing \in BOOLEAN /\ again \in BOOLEAN /\ finalized \in BOOLEAN
  /\ left \in Nat /\ data \in 0..255
  /\ chunk = NULL \/ chunk \in Seq(0..255)

(* The integer that is kept, and delivered, is representable in            *)
(* EMBEDJSON_INT_T, whatever the test before a digit let pass.  The sum by *)
(* which it is computed need not be: SumOverflows.                         *)
IntFits == lex.int_value <= INT_MAX

(* Both copies of the lexer start every number from cleared accumulators:  *)
(* nothing of an earlier number, however it ended, is left in them.        *)
CleanAccumulators ==
  \A l \in {lexer, lex} :
    /\ l.state \notin NumberStates => l.int_value = 0 /\ ~l.minus
    /\ l.state \notin {"IN_NUMBER_FRAC", "IN_NUMBER_EXP_SIGN", "IN_NUMBER_EXP"} =>
         l.frac_value = 0 /\ l.frac_power = 0
    /\ l.state # "IN_NUMBER_EXP" =>
         l.exp_value = 0 /\ ~l.exp_minus /\ ~l.exp_not_empty

(* powm10 is indexed inside its table for the exponent of every double.    *)
ExponentsInTable ==
  \A i \in DOMAIN calls : calls[i].call = "tokenf" => 0 - calls[i].exp \in powm10Arguments

(* lexer.c, 91-93: powm10 returns a power of ten.  Whatever it is called   *)
(* with, for the exponent and for the fraction, has an entry in its table. *)
PowersInTable ==
  \A i \in DOMAIN calls : calls[i].call = "tokenf" =>
     calls[i].power \in powm10Arguments /\ 0 - calls[i].exp \in powm10Arguments

(* lexer.h, 119: if an error occurs the lexer's state remains unchanged,   *)
(* whatever the loop had done to its copy, the last flush included.        *)
FailedPushKeepsLexer == [][err' # "OK" => lexer' = lexer]_vars

(* The digit that is looked at does not fit any more: the integer is       *)
(* refused, or goes on as a big number.                                    *)
LeavesInt == \/ err' = "INT_OVERFLOW"
             \/ \E i \in DOMAIN calls' : calls'[i].call = "tokenbn_begin"

(* ... or the sum that makes the integer stops the program.                *)
IntLost == LeavesInt \/ err' = "TRAP"

(* Not every integer that fits is delivered (LexerReference's              *)
(* IntegersAreDelivered), but those that are lost are near the limit: up to*)
(* INT_MAX - 81 none is refused, made a big number or met by an overflow.  *)
OverflowOnlyNearLimit ==
  [][IntLost => 10 * lex.int_value + Digit(data') > INT_MAX - 81]_vars

(* string_chunk_begin points into the current buffer whenever a chunk is   *)
(* to be handed over from it, in whatever buffer the lexeme began.         *)
ChunkPointsIntoBuffer == pushing /\ lex.state \in ChunkStates => chunk # NULL

(* README.md: embedjson_bignum_chunk gets only digits, '.', '-', 'e', 'E'. *)
BignumChunkBytes ==
  \A i \in DOMAIN calls : calls[i].call = "tokenbn" =>
     calls[i].bytes # <<>> /\ ToSet(calls[i].bytes) \subseteq BigNumberBytes

(* The loop ends: data-- never has a byte looked at for ever.              *)
PushReturns == pushing ~> ~pushing

(* The bytes that are left, and the one that is looked at again, become    *)
(* fewer with every iteration: no byte is looked at a third time.          *)
WorkLeft == 2 * left + (IF again THEN 1 ELSE 0)
LoopMakesProgress == [][(\E b \in Alphabet : Iterate(b)) => ~pushing' \/ WorkLeft' < WorkLeft]_vars

(***************************************************************************)
(* UTF-8.  What may follow a lead byte with a corner case, by RFC 3629 and *)
(* by the comments on cc in lexer.h.                                       *)
(***************************************************************************)
SecondByte(lead) == CASE lead = 224 -> 160..191 [] lead = 240 -> 144..191 [] lead = 244 -> 128..143

(* A byte is read right after a lead byte that has a corner case.          *)
AfterCornerLead == /\ VALIDATE_UTF8 /\ lex.state = "IN_STRING"
                   /\ left' < left /\ data \in {224, 240, 244}

(* Overlong forms and code points beyond U+10FFFF that a restricted second *)
(* byte gives away are refused, even when a buffer ends between the two.   *)
CornerCasesEnforced ==
  [][AfterCornerLead /\ data' \notin SecondByte(data) => err' # "OK"]_vars
==============================================================================
