---------------------------- MODULE LexerReference ----------------------------
(***************************************************************************)
(* The lexer compared with a reference that sees the whole input at once   *)
(* and knows nothing of buffers: Lexer with the history of its input and   *)
(* of its token calls, the chunks of strings and big numbers taken apart.  *)
(***************************************************************************)
EXTENDS Lexer

CONSTANT Inputs         \* bound: bytes of an input, for each set its bytes may be of

ASSUME ReferenceAssumption ==
  \A bytes \in DOMAIN Inputs : bytes \subseteq Alphabet /\ Inputs[bytes] \in Nat

VARIABLES input,        \* the bytes pushed so far
          out           \* the tokens the parser has been given

rvars == <<vars, input, out>>

(***************************************************************************)
(* The reference                                                           *)
(***************************************************************************)
EOF == 0 - 1            \* stands for the end of the input

Malformed == [call |-> "error"]

(* A piece of the input gives tokens and is followed by the one at next.   *)
Piece(tokens, i, place) == [tokens |-> tokens, next |-> <<i, place>>]
LastPiece(s, tokens) == Piece(tokens, Len(s) + 1, "OUTSIDE")

At(s, i, bytes) == i <= Len(s) /\ s[i] \in bytes
Hex(s, i) == 16 * HexValue(s[i]) + HexValue(s[i + 1])

(* The first position from i on that does not hold one of the bytes.       *)
Span(s, i, bytes) ==
  CHOOSE j \in i..(Len(s) + 1) : ~At(s, j, bytes) /\ \A k \in i..(j - 1) : At(s, k, bytes)

Decimal(s, i, j) ==
  LET value[k \in 0..Len(s)] == IF k < i THEN 0 ELSE 10 * value[k - 1] + Digit(s[k])
  IN value[j - 1]

(* A number is an integer part i..m-1, a fraction after m and an exponent  *)
(* d..z-1 after e.                                                         *)
Number(s, first) ==
  LET i == IF At(s, first, {MINUS}) THEN first + 1 ELSE first
      m == Span(s, i, DIGITS)
      e == IF At(s, m, {DOT}) THEN Span(s, m + 1, DIGITS) ELSE m
      d == IF At(s, e + 1, {PLUS, MINUS}) THEN e + 2 ELSE e + 1
      z == IF At(s, e, EXPONENT) THEN Span(s, d, DIGITS) ELSE e
  IN [i |-> i, m |-> m, e |-> e, d |-> d, z |-> z]

Power(s, n) == IF At(s, n.e + 1, {MINUS}) THEN 0 - Decimal(s, n.d, n.z) ELSE Decimal(s, n.d, n.z)

Broken(s, n) ==
  \/ n.m = n.i /\ n.i <= Len(s)
  \/ n.m > n.i + 1 /\ s[n.i] = 48
  \/ At(s, n.m, {DOT}) /\ n.e = n.m + 1 /\ n.e <= Len(s)
  \/ At(s, n.e, EXPONENT) /\ n.z = n.d /\ n.d <= Len(s)
  \/ At(s, n.e, EXPONENT) /\ Power(s, n) \notin -323..308

IntToken(s, first, n) ==
  [call |-> "tokeni", int |-> IF At(s, first, {MINUS}) THEN 0 - Decimal(s, n.i, n.m)
                              ELSE Decimal(s, n.i, n.m)]

FloatToken(s, first, n) ==
  [call |-> "tokenf", int |-> Decimal(s, n.i, n.m), minus |-> At(s, first, {MINUS}),
   frac  |-> IF At(s, n.m, {DOT}) THEN Decimal(s, n.m + 1, n.e) % FRAC_MODULUS ELSE 0,
   power |-> IF At(s, n.m, {DOT}) THEN n.e - n.m - 1 ELSE 0,
   exp   |-> IF At(s, n.e, EXPONENT) THEN Power(s, n) ELSE 0]

(* It is known to be complete only by the byte that follows.               *)
NumberAt(s, first) ==
  LET n == Number(s, first)
  IN IF Broken(s, n) THEN LastPiece(s, <<Malformed>>)
     ELSE IF n.z > Len(s) THEN LastPiece(s, <<>>)
     ELSE IF At(s, n.m, {DOT}) \/ At(s, n.e, EXPONENT)
     THEN Piece(<<FloatToken(s, first, n)>>, n.z, "OUTSIDE")
     ELSE Piece(<<IntToken(s, first, n)>>, n.z, "OUTSIDE")

KeywordAt(s, i) ==
  LET name == KeywordOf[s[i]]
      word == Keyword[name]
  IN IF \E k \in 1..Len(word) : i + k - 1 <= Len(s) /\ s[i + k - 1] # word[k]
     THEN LastPiece(s, <<Malformed>>)
     ELSE IF i + Len(word) - 1 > Len(s) THEN LastPiece(s, <<>>)
     ELSE Piece(<<Token(KeywordToken[name])>>, i + Len(word), "OUTSIDE")

(* \uXXXX, the backslash being at i, gives two bytes.                      *)
UnicodeAt(s, i) ==
  IF \E k \in 2..5 : i + k <= Len(s) /\ s[i + k] \notin HexDigits THEN LastPiece(s, <<Malformed>>)
  ELSE IF i + 5 > Len(s) THEN LastPiece(s, <<>>)
  ELSE Piece(<<TokenC(<<Hex(s, i + 2)>>), TokenC(<<Hex(s, i + 4)>>)>>, i + 6, "INSIDE")

EscapeAt(s, i) ==
  CASE i = Len(s) -> LastPiece(s, <<>>)
    [] At(s, i + 1, DOMAIN Escaped) -> Piece(<<TokenC(<<Escaped[s[i + 1]]>>)>>, i + 2, "INSIDE")
    [] At(s, i + 1, {117}) -> UnicodeAt(s, i)
    [] OTHER -> LastPiece(s, <<Malformed>>)

(* What is at i, inside or outside of a string.                            *)
PieceAt(s, i, place) ==
  CASE s[i] = EOF -> LastPiece(s, IF place = "OUTSIDE" THEN <<>> ELSE <<Malformed>>)
    [] place = "INSIDE" /\ s[i] = QUOTE -> Piece(<<TokenCEnd>>, i + 1, "OUTSIDE")
    [] place = "INSIDE" /\ s[i] = BACKSLASH -> EscapeAt(s, i)
    [] place = "INSIDE" /\ s[i] \notin {QUOTE, BACKSLASH, EOF} ->
         Piece(<<TokenC(<<s[i]>>)>>, i + 1, "INSIDE")
    [] place = "OUTSIDE" /\ s[i] = QUOTE -> Piece(<<TokenCBegin>>, i + 1, "INSIDE")
    [] place = "OUTSIDE" /\ s[i] \in WHITESPACE -> Piece(<<>>, i + 1, "OUTSIDE")
    [] place = "OUTSIDE" /\ s[i] \in DOMAIN Punctuation ->
         Piece(<<Token(Punctuation[s[i]])>>, i + 1, "OUTSIDE")
    [] place = "OUTSIDE" /\ s[i] \in DIGITS \cup {MINUS} -> NumberAt(s, i)
    [] place = "OUTSIDE" /\ s[i] \in DOMAIN KeywordOf -> KeywordAt(s, i)
    [] OTHER -> LastPiece(s, <<Malformed>>)

(* The tokens of s from every position on, up to the first malformed one.  *)
Rest(s) ==
  LET rest[q \in (1..(Len(s) + 1)) \X {"OUTSIDE", "INSIDE"}] ==
        IF q[1] > Len(s) THEN <<>>
        ELSE PieceAt(s, q[1], q[2]).tokens \o rest[PieceAt(s, q[1], q[2]).next]
  IN rest

Reference(s) == Rest(s)[<<1, "OUTSIDE">>]

(***************************************************************************)
(* The lexer, remembering                                                  *)
(***************************************************************************)
(* The bytes of a chunk, one by one; a step makes at most two calls.       *)
Bytewise(c) == IF c.call \in {"tokenc", "tokenbn"}
               THEN [k \in 1..Len(c.bytes) |-> [c EXCEPT !.bytes = <<c.bytes[k]>>]]
               ELSE <<c>>

Told(seq) == CASE Len(seq) = 0 -> <<>>
               [] Len(seq) = 1 -> Bytewise(seq[1])
               [] OTHER -> Bytewise(seq[1]) \o Bytewise(seq[2])

(* s may be completed to an input by n more bytes.                         *)
Fits(s, n) == \E bytes \in DOMAIN Inputs : ToSet(s) \subseteq bytes /\ Len(s) + n <= Inputs[bytes]

Record == /\ err' # "CALLBACK"
          /\ out' = out \o Told(calls') \o (IF err' = "OK" THEN <<>> ELSE <<Malformed>>)

RInit == Init /\ input = <<>> /\ out = <<>>

RNext ==
  \/ \E size \in 1..MaxBuffer :
       Fits(input, size) /\ BeginPush(size) /\ UNCHANGED <<input, out>>
  \/ \E b \in Alphabet :
       /\ Iterate(b) /\ Record
       /\ input' = IF again THEN input ELSE Append(input, b)
       /\ Fits(input', left')
  \/ EndPush /\ Record /\ UNCHANGED input
  \/ Finalize /\ Record /\ UNCHANGED input
  \/ Stopped /\ UNCHANGED <<input, out>>

RSpec == RInit /\ [][RNext]_rvars

(* The input ends inside a lexeme, or after the sign of a number.          *)
InputEnds == err \in {"EOF_IN_STRING", "EOF_IN_EXPONENT", "EOF_IN_TRUE", "EOF_IN_FALSE", "EOF_IN_NULL"}

(* The reference does not validate UTF-8 and has no limit for integers.    *)
Unlimited == /\ err \notin {"BAD_UTF8", "LONG_UTF8", "INT_OVERFLOW", "TRAP"}
             /\ \A k \in DOMAIN out : out[k].call # "tokenbn_begin"

(* Between pushes, and when a push fails, the parser has been given the    *)
(* tokens of the input so far, whatever the buffers it came in.            *)
TokensDoNotDependOnBuffers ==
  Unlimited /\ ~pushing /\ ~finalized /\ ~InputEnds => out = Reference(input)

(* At the end of the input it has been given all of them, and an open      *)
(* lexeme is an error; numbers that end in '.' or in the sign of an        *)
(* exponent are apart.                                                     *)
AllTokensAtEnd ==
  Unlimited /\ (InputEnds \/ (finalized /\ Last(<<EOF>> \o input) \notin {DOT, PLUS, MINUS})) =>
    out = Reference(Append(input, EOF))

(* The decimal digits of a number.                                         *)
Digits[n \in Nat] == IF n < 10 THEN <<48 + n>> ELSE Append(Digits[n \div 10], 48 + (n % 10))

(* The integer part of what the input begins with.                         *)
IntegerPart == LET n == Number(input, 1) IN Decimal(input, n.i, n.m)

(* The initial value and the chunks of a big number are together the number*)
(* as it stands in the input (which begins with it).                       *)
BignumIsWhole ==
  \A e \in DOMAIN out :
    out[e].call = "tokenbn_end" /\ (\A k \in 1..(e - 1) : out[k].call # "tokenbn_end") =>
      Digits[Head(out).int] \o [k \in 1..(e - 2) |-> out[k + 1].bytes[1]] =
        SubSeq(input, 1, Span(input, 1, BigNumberBytes) - 1)

(* README.md, 42 and common.h, 205-214: an integer that fits               *)
(* EMBEDJSON_INT_T is delivered as one; only one that does not is a big    *)
(* number, told in full, or refused.  No overflow is met on the way.       *)
IntegersAreDelivered ==
  out # <<>> =>
    /\ Head(out).call = "tokenbn_begin" => IntegerPart > INT_MAX /\ BignumIsWhole
    /\ Head(out) = Malformed /\ err = "INT_OVERFLOW" => IntegerPart > INT_MAX
    /\ Head(out) = Malformed => err # "TRAP"

(* The forms of a character in UTF-8, each byte by the values it may have. *)
Continuation == 128..191
Utf8Forms == {<<0..127>>,
              <<194..223, Continuation>>,
              <<{224}, 160..191, Continuation>>,
              <<{237}, 128..159, Continuation>>,
              <<(225..239) \ {237}, Continuation, Continuation>>,
              <<{240}, 144..191, Continuation, Continuation>>,
              <<241..243, Continuation, Continuation, Continuation>>,
              <<{244}, 128..143, Continuation, Continuation>>}

(* s is the beginning of a text in UTF-8.                                  *)
BeginsUtf8(s) ==
  LET rest[k \in 1..(Len(s) + 4)] ==
        \/ k > Len(s)
        \/ \E form \in Utf8Forms :
             /\ \A i \in DOMAIN form : k + i - 1 <= Len(s) => s[k + i - 1] \in form[i]
             /\ rest[k + Len(form)]
  IN rest[1]

(* README.md, 28: UTF-8 is validated, its shortest form included.  What is *)
(* refused as malformed is, and nothing malformed passes.                  *)
Utf8IsValidated ==
  VALIDATE_UTF8 => /\ err \in {"BAD_UTF8", "LONG_UTF8"} => ~BeginsUtf8(input)
                   /\ err = "OK" => BeginsUtf8(input)
===============================================================================
