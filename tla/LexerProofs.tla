----------------------------- MODULE LexerProofs ------------------------------
(***************************************************************************)
(* Proofs about the lexer, for every INT_MAX, every build, every alphabet  *)
(* and buffers of any size.                                                *)
(***************************************************************************)
EXTENDS Lexer, SequenceTheorems, TLAPS

(***************************************************************************)
(* The inductive invariant                                                 *)
(***************************************************************************)
Byte == 0..255
Limits == -323..308

TokenNames == {"COLON", "COMMA", "OPEN_CURLY_BRACKET", "CLOSE_CURLY_BRACKET",
               "OPEN_BRACKET", "CLOSE_BRACKET", "TRUE", "FALSE", "NULL"}

(* The calls the lexer makes, with arguments the parser may be given.      *)
PlainCalls ==
  [call : {"token"}, tok : TokenNames]
    \cup [call : {"tokenc"}, bytes : Seq(Byte)]
    \cup [call : {"tokenc_begin", "tokenc_end", "tokenbn_end"}]
    \cup [call : {"tokeni"}, int : Int]
    \cup [call : {"tokenbn"}, bytes : Seq(BigNumberBytes) \ {<<>>}]
    \cup [call : {"tokenf"}, int : Nat, frac : Nat, power : 0..MaxFraction,
          minus : BOOLEAN, exp : Limits]

Calls == PlainCalls \cup [call : {"tokenbn_begin"}, int : Nat]

(* Every state knows which accumulators are in use and how large they are. *)
Accumulators(l) ==
  /\ l.int_value <= INT_MAX
  /\ l.frac_power <= MaxFraction
  /\ l.state \notin NumberStates => l.int_value = 0 /\ ~l.minus
  /\ l.state = "IN_NUMBER_SIGN" => l.int_value = 0
  /\ l.state \notin {"IN_NUMBER_FRAC", "IN_NUMBER_EXP_SIGN", "IN_NUMBER_EXP"} =>
       l.frac_value = 0 /\ l.frac_power = 0
  /\ l.state # "IN_NUMBER_EXP" => l.exp_value = 0 /\ ~l.exp_minus /\ ~l.exp_not_empty
  /\ l.state = "IN_NUMBER_EXP" => l.exp_value <= ExponentLimit(l)

(* offset counts the letters of a keyword, or the digits of \uXXXX; after  *)
(* an odd number of digits a byte is half made.                            *)
Offsets(l) ==
  /\ l.state \in KeywordStates => l.offset \in 1..(Len(Keyword[l.state]) - 1)
  /\ l.state = "IN_STRING_UNICODE_ESCAPE" =>
       /\ l.offset \in 0..3
       /\ l.offset = 1 => l.unicode_cp[1] \in {16 * d : d \in 0..15}
       /\ l.offset = 3 => l.unicode_cp[2] \in {16 * d : d \in 0..15}

Good(l) == l \in LexerType /\ Accumulators(l) /\ Offsets(l)

GoodChunk(s, c) ==
  /\ c \in Seq(Byte) \cup {NULL}
  /\ s = "IN_STRING" => c \in Seq(Byte)
  /\ s = "IN_BIG_NUMBER" => c \in Seq(BigNumberBytes)

IInv ==
  /\ Good(lexer) /\ Good(lex)
  /\ pushing \in BOOLEAN /\ again \in BOOLEAN /\ finalized \in BOOLEAN
  /\ left \in Nat /\ data \in Byte
  /\ chunk \in Seq(Byte) \cup {NULL}
  /\ pushing => GoodChunk(lex.state, chunk)
  /\ calls \in Seq(Calls)

(***************************************************************************)
(* What an iteration does                                                  *)
(***************************************************************************)
IterationGood ==
  /\ calls' \in Seq(Calls)
  /\ again' \in BOOLEAN
  /\ Good(lex') /\ chunk' \in Seq(Byte) \cup {NULL}
  /\ err' = "OK" => GoodChunk(lex'.state, chunk')

(* An iteration that does not end an integer because of its size.          *)
PlainIteration == IterationGood /\ ~IntLost

LEMMA CallTypes ==
  /\ Seq(PlainCalls) \subseteq Seq(Calls)
  /\ \A seq \in Seq(PlainCalls) : \A i \in DOMAIN seq : seq[i].call # "tokenbn_begin"
<1>1. PlainCalls \subseteq Calls BY DEF Calls
<1>2. \A c \in PlainCalls : c.call # "tokenbn_begin" BY DEF PlainCalls
<1> QED BY <1>1, <1>2

LEMMA MakeLemma ==
  ASSUME NEW S, NEW seq \in Seq(S), Make(seq)
  PROVE  /\ calls' \in Seq(S)
         /\ err' \in {"OK", "CALLBACK"}
  BY DEF Make

LEMMA ProceedLemma ==
  ASSUME NEW seq \in Seq(Calls), NEW l, NEW c, NEW redo \in BOOLEAN,
         Proceed(seq, l, c, redo),
         IInv, Good(l), GoodChunk(l.state, c)
  PROVE  IterationGood
<1>1. calls' \in Seq(Calls) BY MakeLemma DEF Proceed
<1>2. CASE err' = "OK"
  BY <1>1, <1>2 DEF Proceed, IterationGood, GoodChunk
<1>3. CASE err' # "OK"
  BY <1>1, <1>3 DEF Proceed, IterationGood, IInv
<1> QED BY <1>2, <1>3

LEMMA PlainLemma ==
  ASSUME NEW seq \in Seq(PlainCalls), NEW l, NEW c, NEW redo \in BOOLEAN,
         Proceed(seq, l, c, redo),
         IInv, Good(l), GoodChunk(l.state, c)
  PROVE  PlainIteration
<1>1. IterationGood BY CallTypes, ProceedLemma
<1>2. calls' \in Seq(PlainCalls) /\ err' \notin {"INT_OVERFLOW", "TRAP"} BY MakeLemma DEF Proceed
<1> QED BY <1>1, <1>2, CallTypes DEF PlainIteration, IntLost, LeavesInt

LEMMA QuietLemma ==
  ASSUME NEW l, NEW c, Proceed(<<>>, l, c, FALSE), IInv, Good(l), GoodChunk(l.state, c)
  PROVE  PlainIteration
<1>1. <<>> \in Seq(PlainCalls) OBVIOUS
<1> QED BY <1>1, PlainLemma

LEMMA OneCallLemma ==
  ASSUME NEW call \in PlainCalls, NEW l, NEW c, NEW redo \in BOOLEAN,
         Proceed(<<call>>, l, c, redo), IInv, Good(l), GoodChunk(l.state, c)
  PROVE  PlainIteration
<1>1. <<call>> \in Seq(PlainCalls) OBVIOUS
<1> QED BY <1>1, PlainLemma

LEMMA FailLemma ==
  ASSUME NEW code, code # "OK", Fail(code), IInv
  PROVE  IterationGood /\ (code \notin {"INT_OVERFLOW", "TRAP"} => PlainIteration)
<1>1. calls' = <<>> /\ err' = code BY DEF Fail
<1>2. IterationGood BY <1>1 DEF Fail, IterationGood, IInv
<1> QED BY <1>1, <1>2 DEF PlainIteration, IntLost, LeavesInt

LEMMA UpdateLemma ==
  ASSUME NEW l \in LexerType
  PROVE  /\ \A s \in LexerStates : [l EXCEPT !.state = s] \in LexerType
         /\ \A v \in Nat : [l EXCEPT !.exp_value = v] \in LexerType
         /\ \A m \in BOOLEAN : [l EXCEPT !.exp_minus = m] \in LexerType
         /\ \A e \in BOOLEAN : [l EXCEPT !.exp_not_empty = e] \in LexerType
         /\ \A v \in Nat : [l EXCEPT !.int_value = v] \in LexerType
         /\ \A v \in Nat : [l EXCEPT !.frac_value = v] \in LexerType
         /\ \A v \in Nat : [l EXCEPT !.frac_power = v] \in LexerType
         /\ \A s \in LexerStates, m \in BOOLEAN : [l EXCEPT !.minus = m, !.state = s] \in LexerType
         /\ \A s \in LexerStates, v \in Nat : [l EXCEPT !.int_value = v, !.state = s] \in LexerType
<1>5. ASSUME NEW s \in LexerStates, NEW m \in BOOLEAN
      PROVE  [l EXCEPT !.minus = m, !.state = s] \in LexerType
  BY ZenonT(30) DEF LexerType
<1>6. ASSUME NEW s \in LexerStates, NEW v \in Nat
      PROVE  [l EXCEPT !.int_value = v, !.state = s] \in LexerType
  BY ZenonT(30) DEF LexerType
<1>1. ASSUME NEW s \in LexerStates PROVE [l EXCEPT !.state = s] \in LexerType
  BY ZenonT(30) DEF LexerType
<1>2. ASSUME NEW v \in Nat PROVE [l EXCEPT !.exp_value = v] \in LexerType
  BY ZenonT(30) DEF LexerType
<1>3. ASSUME NEW m \in BOOLEAN PROVE [l EXCEPT !.exp_minus = m] \in LexerType
  BY ZenonT(30) DEF LexerType
<1>4. ASSUME NEW e \in BOOLEAN PROVE [l EXCEPT !.exp_not_empty = e] \in LexerType
  BY ZenonT(30) DEF LexerType
<1>7. ASSUME NEW v \in Nat PROVE [l EXCEPT !.int_value = v] \in LexerType
  BY ZenonT(30) DEF LexerType
<1>8. ASSUME NEW v \in Nat PROVE [l EXCEPT !.frac_value = v] \in LexerType
  BY ZenonT(30) DEF LexerType
<1>9. ASSUME NEW v \in Nat PROVE [l EXCEPT !.frac_power = v] \in LexerType
  BY ZenonT(30) DEF LexerType
<1> QED BY <1>1, <1>2, <1>3, <1>4, <1>5, <1>6, <1>7, <1>8, <1>9

LEMMA SniffLemma ==
  ASSUME NEW l, Good(l), NEW b \in Byte
  PROVE  /\ Good(Sniff(l, b))
         /\ Sniff(l, b).state = l.state
         /\ Sniff(l, b).int_value = l.int_value
<1>1. Guess(l) \in Encodings BY DEF Guess, Encodings
<1>2. PICK m \in Seq({0, 1}), e \in Encodings : Sniff(l, b) = [l EXCEPT !.magic = m, !.encoding = e]
  <2>1. CASE Len(l.magic) < 4
    <3> DEFINE m == Append(l.magic, IF b = 0 THEN 0 ELSE 1)
    <3>1. m \in Seq({0, 1}) BY DEF Good, LexerType
    <3>2. Sniff(l, b) = [l EXCEPT !.magic = m, !.encoding = l.encoding]
      BY <2>1 DEF Sniff, Good, LexerType
    <3> QED BY <3>1, <3>2, ZenonT(60) DEF Good, LexerType
  <2>2. CASE ~(Len(l.magic) < 4) /\ l.encoding = "UNKNOWN"
    <3>1. Sniff(l, b) = [l EXCEPT !.magic = l.magic, !.encoding = Guess(l)]
      BY <2>2 DEF Sniff, Good, LexerType
    <3> QED BY <1>1, <3>1 DEF Good, LexerType
  <2>3. CASE ~(Len(l.magic) < 4) /\ l.encoding # "UNKNOWN"
    <3>1. Sniff(l, b) = [l EXCEPT !.magic = l.magic, !.encoding = l.encoding]
      BY <2>3 DEF Sniff, Good, LexerType
    <3> QED BY <3>1 DEF Good, LexerType
  <2> QED BY <2>1, <2>2, <2>3
<1> DEFINE s == [l EXCEPT !.magic = m, !.encoding = e]
<1>3. s \in LexerType BY DEF Good, LexerType
<1>4. Accumulators(s) BY DEF Good, LexerType, Accumulators, ExponentLimit
<1>5. Offsets(s) BY DEF Good, LexerType, Offsets
<1> QED BY <1>2, <1>3, <1>4, <1>5 DEF Good, LexerType

(***************************************************************************)
(* The cases of the switch, one lemma each                                 *)
(***************************************************************************)
Ready(l) == IInv /\ Good(l) /\ GoodChunk(l.state, chunk)

(* In another state of the lexer, with the accumulators as they were.      *)
LEMMA StateLemma ==
  ASSUME NEW l, Good(l), NEW s \in LexerStates \ NumberStates, l.state \notin NumberStates,
         NEW o \in 0..5,
         s \in KeywordStates => o \in 1..(Len(Keyword[s]) - 1),
         s = "IN_STRING_UNICODE_ESCAPE" => o = 0
  PROVE  Good([l EXCEPT !.offset = o, !.state = s])
<1> DEFINE n == [l EXCEPT !.offset = o, !.state = s]
<1>0. l \in LexerType /\ Accumulators(l) BY DEF Good
<1>1. n \in LexerType BY <1>0 DEF LexerType
<1>2. n.state = s /\ n.offset = o BY <1>0 DEF LexerType
<1>3. Accumulators(n) BY <1>0 DEF LexerType, Accumulators, NumberStates
<1>4. Offsets(n) BY <1>2 DEF Offsets
<1> QED BY <1>1, <1>3, <1>4 DEF Good

LEMMA LookupTokenLemma ==
  ASSUME NEW l, NEW b \in Byte, Ready(l), LookupToken(l, b)
  PROVE  PlainIteration
<1> USE LexerAssumption DEF Ready
<1>0. /\ l \in LexerType /\ Accumulators(l) /\ Offsets(l) /\ l.state = "LOOKUP_TOKEN"
      /\ chunk \in Seq(Byte) \cup {NULL}
  BY DEF Good, GoodChunk, LookupToken
<1>s. l.state \notin NumberStates BY <1>0 DEF NumberStates
<1>1. CASE b \in WHITESPACE /\ Proceed(<<>>, l, chunk, FALSE)
  BY <1>1, QuietLemma
<1>2. CASE b \in DOMAIN Punctuation /\ Proceed(<<Token(Punctuation[b])>>, l, chunk, FALSE)
  <2>1. Token(Punctuation[b]) \in PlainCalls
    BY <1>2 DEF Token, Punctuation, PlainCalls, TokenNames
  <2> QED BY <1>2, <2>1, OneCallLemma
<1>3. CASE b = QUOTE /\ Proceed(<<TokenCBegin>>, [l EXCEPT !.state = "IN_STRING"], <<>>, FALSE)
  <2> DEFINE n == [l EXCEPT !.state = "IN_STRING"]
  <2>1. TokenCBegin \in PlainCalls BY DEF TokenCBegin, PlainCalls
  <2>2. n = [l EXCEPT !.offset = l.offset, !.state = "IN_STRING"] BY <1>0 DEF LexerType
  <2>3. "IN_STRING" \in LexerStates \ NumberStates /\ "IN_STRING" \notin KeywordStates
    BY DEF LexerStates, StringStates, NumberStates, KeywordStates
  <2>4. Good(n) BY <1>0, <1>s, <2>2, <2>3, StateLemma DEF LexerType
  <2>5. GoodChunk(n.state, <<>>) BY <1>0 DEF LexerType, GoodChunk
  <2> QED BY <1>3, <2>1, <2>4, <2>5, OneCallLemma
<1>4. CASE b \in DOMAIN KeywordOf
             /\ Proceed(<<>>, [l EXCEPT !.offset = 1, !.state = KeywordOf[b]], chunk, FALSE)
  <2> DEFINE n == [l EXCEPT !.offset = 1, !.state = KeywordOf[b]]
  <2>1. KeywordOf[b] \in KeywordStates BY <1>4 DEF KeywordOf, KeywordStates
  <2>2. \A s \in KeywordStates : Len(Keyword[s]) \in {4, 5} BY DEF Keyword, KeywordStates
  <2>3. /\ KeywordOf[b] \in LexerStates \ NumberStates
        /\ KeywordOf[b] \notin {"IN_STRING", "IN_BIG_NUMBER", "IN_STRING_UNICODE_ESCAPE"}
    BY <2>1 DEF LexerStates, KeywordStates, NumberStates
  <2>a. Len(Keyword[KeywordOf[b]]) - 1 \in {3, 4} BY <2>1, <2>2
  <2>c. \A k \in {3, 4} : 1 \in 0..5 /\ 1 \in 1..k OBVIOUS
  <2>b. 1 \in 0..5 /\ 1 \in 1..(Len(Keyword[KeywordOf[b]]) - 1) BY <2>a, <2>c
  <2>4. Good(n) BY <1>s, <2>b, <2>3, StateLemma
  <2>5. GoodChunk(n.state, chunk) BY <1>0, <2>3 DEF GoodChunk, LexerType
  <2> QED BY <1>4, <2>4, <2>5, QuietLemma
<1>5. CASE b = MINUS
             /\ Proceed(<<>>, [l EXCEPT !.minus = TRUE, !.state = "IN_NUMBER_SIGN"], chunk, FALSE)
  <2> DEFINE n == [l EXCEPT !.minus = TRUE, !.state = "IN_NUMBER_SIGN"]
  <2>1. n \in LexerType
    <3>1. "IN_NUMBER_SIGN" \in LexerStates BY DEF LexerStates, NumberStates
    <3> QED BY <1>0, <3>1, UpdateLemma
  <2>2. Accumulators(n) BY <1>0, <1>s DEF LexerType, Accumulators, NumberStates
  <2>3. n.state = "IN_NUMBER_SIGN" BY <1>0 DEF LexerType
  <2>4. Offsets(n) BY <2>3 DEF Offsets, KeywordStates
  <2>5. GoodChunk(n.state, chunk) BY <1>0, <2>3 DEF GoodChunk
  <2> QED BY <1>5, <2>1, <2>2, <2>4, <2>5, QuietLemma DEF Good
<1>6. CASE b \in DIGITS
             /\ Proceed(<<>>, [l EXCEPT !.int_value = Digit(b), !.state = "IN_NUMBER"], chunk, FALSE)
  <2> DEFINE n == [l EXCEPT !.int_value = Digit(b), !.state = "IN_NUMBER"]
  <2>0. Digit(b) \in 0..9 BY <1>6 DEF Digit, DIGITS
  <2>1. Digit(b) \in Nat /\ "IN_NUMBER" \in LexerStates
    BY <2>0 DEF LexerStates, NumberStates
  <2>b. n \in LexerType BY <1>0, <2>1, UpdateLemma
  <2>2. Accumulators(n) BY <1>0, <2>0 DEF LexerType, Accumulators, NumberStates
  <2>3. n.state = "IN_NUMBER" BY <1>0 DEF LexerType
  <2>4. Offsets(n) BY <2>3 DEF Offsets, KeywordStates
  <2>5. GoodChunk(n.state, chunk) BY <1>0, <2>3 DEF GoodChunk
  <2> QED BY <1>6, <2>b, <2>2, <2>4, <2>5, QuietLemma DEF Good
<1>7. CASE Fail("LEADING_PLUS")
  BY <1>7, FailLemma
<1>8. CASE Fail("UNEXP_SYMBOL")
  BY <1>8, FailLemma
<1> QED BY <1>1, <1>2, <1>3, <1>4, <1>5, <1>6, <1>7, <1>8 DEF LookupToken

LEMMA InKeywordLemma ==
  ASSUME NEW l, NEW b \in Byte, Ready(l), InKeyword(l, b)
  PROVE  PlainIteration
<1> USE DEF Ready
<1> DEFINE word == Keyword[l.state]
           next == [l EXCEPT !.offset = @ + 1]
           done == [next EXCEPT !.state = "LOOKUP_TOKEN"]
<1>0. /\ l \in LexerType /\ l.state \in KeywordStates
      /\ l.offset \in 1..(Len(word) - 1) /\ Len(word) \in {4, 5}
      /\ chunk \in Seq(Byte) \cup {NULL}
  BY DEF Good, Offsets, GoodChunk, InKeyword, Keyword, KeywordStates
<1>1. /\ l.state \in LexerStates \ NumberStates /\ l.state \notin NumberStates
      /\ l.state \notin {"IN_STRING", "IN_BIG_NUMBER", "IN_STRING_UNICODE_ESCAPE"}
      /\ "LOOKUP_TOKEN" \in LexerStates \ NumberStates
      /\ "LOOKUP_TOKEN" \notin KeywordStates
  BY <1>0 DEF LexerStates, KeywordStates, NumberStates
<1>2. l.offset + 1 \in 1..5 /\ l.offset + 1 \in 0..5
  <2>1. \A k \in {4, 5} : \A o \in 1..(k - 1) : o + 1 \in 1..5 /\ o + 1 \in 0..5
    OBVIOUS
  <2> QED BY <1>0, <2>1
<1>3. CASE Fail(KeywordError[l.state])
  <2>1. KeywordError[l.state] \notin {"OK", "INT_OVERFLOW", "TRAP"} BY <1>0 DEF KeywordError, KeywordStates
  <2> QED BY <1>3, <2>1, FailLemma
<1>4. CASE next.offset < Len(word) /\ Proceed(<<>>, next, chunk, FALSE)
  <2>1. next = [l EXCEPT !.offset = l.offset + 1, !.state = l.state] BY <1>0 DEF LexerType
  <2>2. next.offset = l.offset + 1 /\ next.state = l.state BY <1>0 DEF LexerType
  <2>3. l.offset + 1 \in 1..(Len(word) - 1) BY <1>0, <1>2, <1>4, <2>2
  <2>4. Good(next) BY <1>1, <1>2, <2>1, <2>3, StateLemma
  <2>5. GoodChunk(next.state, chunk) BY <1>0, <1>1, <2>2 DEF GoodChunk
  <2> QED BY <1>4, <2>4, <2>5, QuietLemma
<1>5. CASE Proceed(<<Token(KeywordToken[l.state])>>, done, chunk, FALSE)
  <2>1. done = [l EXCEPT !.offset = l.offset + 1, !.state = "LOOKUP_TOKEN"] BY <1>0 DEF LexerType
  <2>2. done.state = "LOOKUP_TOKEN" BY <1>0 DEF LexerType
  <2>3. Good(done) BY <1>1, <1>2, <2>1, StateLemma
  <2>4. GoodChunk(done.state, chunk) BY <1>0, <2>2 DEF GoodChunk
  <2>5. Token(KeywordToken[l.state]) \in PlainCalls
    BY <1>0 DEF KeywordToken, KeywordStates, Token, PlainCalls, TokenNames
  <2> QED BY <1>5, <2>3, <2>4, <2>5, OneCallLemma
<1> QED BY <1>3, <1>4, <1>5 DEF InKeyword

WithUtf8(l, x, y) == [l EXCEPT !.nb = x, !.cc = y]

LEMMA Utf8Lemma ==
  ASSUME NEW l, Good(l), NEW x \in 0..3, NEW y \in 0..3
  PROVE  Good(WithUtf8(l, x, y)) /\ WithUtf8(l, x, y).state = l.state
<1> DEFINE n == WithUtf8(l, x, y)
<1> USE DEF WithUtf8
<1>0. l \in LexerType /\ Accumulators(l) /\ Offsets(l) BY DEF Good
<1>1. n \in LexerType BY <1>0 DEF LexerType
<1>2. Accumulators(n) BY <1>0 DEF LexerType, Accumulators, ExponentLimit
<1>3. Offsets(n) BY <1>0 DEF LexerType, Offsets
<1>4. n.state = l.state BY <1>0 DEF LexerType
<1> QED BY <1>1, <1>2, <1>3, <1>4 DEF Good

LEMMA ContinueLemma ==
  ASSUME NEW l, Good(l)
  PROVE  Good(Continue(l)) /\ Continue(l).state = l.state
<1>0. l \in LexerType BY DEF Good
<1>1. CASE l.nb = 0 BY <1>1 DEF Continue
<1>2. CASE l.nb # 0
  <2>1. PICK y : y = IF Corner(l) THEN 0 ELSE l.cc OBVIOUS
  <2>2. l.nb - 1 \in 0..3 /\ y \in 0..3 BY <1>0, <1>2, <2>1 DEF LexerType
  <2>3. Continue(l) = WithUtf8(l, l.nb - 1, y)
    BY <1>0, <1>2, <2>1 DEF Continue, LexerType, WithUtf8
  <2> QED BY <2>2, <2>3, Utf8Lemma
<1> QED BY <1>1, <1>2

LEMMA LeadLemma ==
  ASSUME NEW l, Good(l), NEW b \in Byte
  PROVE  Good(Lead(l, b)) /\ Lead(l, b).state = l.state
<1>0. l \in LexerType /\ l.cc \in 0..3 BY DEF Good, LexerType
<1>n. 1 \in 0..3 /\ 2 \in 0..3 /\ 3 \in 0..3 OBVIOUS
<1>1. CASE b <= 223
  <2>1. Lead(l, b) = [l EXCEPT !.nb = 1] BY <1>1 DEF Lead
  <2>2. Lead(l, b) = WithUtf8(l, 1, l.cc) BY <1>0, <2>1 DEF LexerType, WithUtf8
  <2> QED BY <1>0, <1>n, <2>2, Utf8Lemma
<1>2. CASE b \in 224..239
  <2>1. PICK y : y = IF b = 224 THEN 1 ELSE l.cc OBVIOUS
  <2>2. Lead(l, b) = WithUtf8(l, 2, y)
    BY <1>0, <1>2, <2>1 DEF Lead, LexerType, WithUtf8
  <2>3. y \in 0..3 BY <1>0, <2>1
  <2> QED BY <1>n, <2>2, <2>3, Utf8Lemma
<1>3. CASE b > 239
  <2>1. PICK y : y = IF b = 240 THEN 2 ELSE IF b = 244 THEN 3 ELSE l.cc OBVIOUS
  <2>2. ~(b <= 223) /\ b \notin 224..239 BY <1>3 DEF Byte
  <2>3. Lead(l, b) = WithUtf8(l, 3, y)
    <3>1. CASE b = 240 BY <1>0, <2>1, <3>1 DEF Lead, LexerType, WithUtf8
    <3>2. CASE b = 244 BY <1>0, <2>1, <3>2 DEF Lead, LexerType, WithUtf8
    <3>3. CASE b \notin {240, 244} BY <1>0, <2>1, <2>2, <3>3 DEF Lead, LexerType, WithUtf8
    <3> QED BY <3>1, <3>2, <3>3
  <2>4. y \in 0..3 BY <1>0, <2>1
  <2> QED BY <1>n, <2>3, <2>4, Utf8Lemma
<1> QED BY <1>1, <1>2, <1>3 DEF Byte

LEMMA InStringLemma ==
  ASSUME NEW l, NEW b \in Byte, Ready(l), InString(l, b)
  PROVE  PlainIteration
<1> USE DEF Ready
<1>0. l \in LexerType /\ l.state = "IN_STRING" /\ chunk \in Seq(Byte)
  BY DEF Good, GoodChunk, InString
<1>1. PICK c : c = IF VALIDATE_UTF8 THEN Continue(l) ELSE l OBVIOUS
<1>2. Good(c) /\ c.state = "IN_STRING" /\ c \in LexerType
  BY <1>0, <1>1, ContinueLemma DEF Good
<1>3. Append(chunk, b) \in Seq(Byte) BY <1>0
<1>4. Flush(TokenC(chunk)) \in Seq(PlainCalls)
      /\ Flush(TokenC(chunk)) \o <<TokenCEnd>> \in Seq(PlainCalls)
  <2>1. TokenC(chunk) \in PlainCalls BY <1>0 DEF TokenC, PlainCalls
  <2>2. TokenCEnd \in PlainCalls BY DEF TokenCEnd, PlainCalls
  <2>3. Flush(TokenC(chunk)) \in Seq(PlainCalls) BY <2>1 DEF Flush
  <2> QED BY <2>2, <2>3
<1>5. CASE Fail("BAD_UTF8") BY <1>5, FailLemma
<1>6. CASE Fail("LONG_UTF8") BY <1>6, FailLemma
<1>7. CASE Proceed(<<>>, Lead(c, b), Append(chunk, b), FALSE)
  <2>1. Good(Lead(c, b)) /\ Lead(c, b).state = "IN_STRING" BY <1>2, LeadLemma
  <2>2. GoodChunk(Lead(c, b).state, Append(chunk, b)) BY <1>3, <2>1 DEF GoodChunk
  <2> QED BY <1>7, <2>1, <2>2, QuietLemma
<1>8. CASE Proceed(<<>>, c, Append(chunk, b), FALSE)
  <2>1. GoodChunk(c.state, Append(chunk, b)) BY <1>2, <1>3 DEF GoodChunk
  <2> QED BY <1>2, <1>8, <2>1, QuietLemma
<1>9. ASSUME NEW s \in {"IN_STRING_ESCAPE", "LOOKUP_TOKEN"}, NEW seq \in Seq(PlainCalls),
             Proceed(seq, [c EXCEPT !.state = s], NULL, FALSE)
      PROVE  PlainIteration
  <2>1. PICK n : n = [c EXCEPT !.state = s] OBVIOUS
  <2>2. n = [c EXCEPT !.offset = c.offset, !.state = s] BY <1>2, <2>1 DEF LexerType
  <2>3. s \in LexerStates \ NumberStates /\ s \notin KeywordStates
    BY DEF LexerStates, StringStates, NumberStates, KeywordStates
  <2>4. c.offset \in 0..5 /\ c.state \notin NumberStates BY <1>2 DEF LexerType, NumberStates
  <2>5. Good(n) BY <1>2, <2>2, <2>3, <2>4, StateLemma
  <2>6. GoodChunk(n.state, NULL) BY <1>2, <2>1 DEF LexerType, GoodChunk
  <2> QED BY <1>9, <2>1, <2>5, <2>6, PlainLemma
<1> QED BY <1>1, <1>4, <1>5, <1>6, <1>7, <1>8, <1>9 DEF InString

LEMMA InStringEscapeLemma ==
  ASSUME NEW l, NEW b \in Byte, Ready(l), InStringEscape(l, b)
  PROVE  PlainIteration
<1> USE DEF Ready
<1>0. /\ l \in LexerType /\ l.state = "IN_STRING_ESCAPE" /\ l.state \notin NumberStates
      /\ chunk \in Seq(Byte) \cup {NULL}
  BY DEF Good, GoodChunk, InStringEscape, NumberStates
<1>1. CASE /\ b \in DOMAIN Escaped
           /\ Proceed(<<TokenC(<<Escaped[b]>>)>>, [l EXCEPT !.state = "IN_STRING"], <<>>, FALSE)
  <2>1. PICK n : n = [l EXCEPT !.state = "IN_STRING"] OBVIOUS
  <2>2. n = [l EXCEPT !.offset = l.offset, !.state = "IN_STRING"] BY <1>0, <2>1 DEF LexerType
  <2>3. "IN_STRING" \in LexerStates \ NumberStates /\ "IN_STRING" \notin KeywordStates
    BY DEF LexerStates, StringStates, NumberStates, KeywordStates
  <2>4. Good(n) BY <1>0, <2>2, <2>3, StateLemma DEF LexerType
  <2>5. GoodChunk(n.state, <<>>) BY <1>0, <2>1, SMTT(30) DEF LexerType, GoodChunk
  <2>6. Escaped[b] \in Byte BY <1>1 DEF Escaped, Byte
  <2>7. TokenC(<<Escaped[b]>>) \in PlainCalls BY <2>6 DEF TokenC, PlainCalls
  <2> QED BY <1>1, <2>1, <2>4, <2>5, <2>7, OneCallLemma
<1>2. CASE Proceed(<<>>, [l EXCEPT !.state = "IN_STRING_UNICODE_ESCAPE", !.offset = 0],
                   chunk, FALSE)
  <2>1. PICK n : n = [l EXCEPT !.state = "IN_STRING_UNICODE_ESCAPE", !.offset = 0] OBVIOUS
  <2>2. n = [l EXCEPT !.offset = 0, !.state = "IN_STRING_UNICODE_ESCAPE"]
    BY <1>0, <2>1 DEF LexerType
  <2>3. /\ "IN_STRING_UNICODE_ESCAPE" \in LexerStates \ NumberStates
        /\ "IN_STRING_UNICODE_ESCAPE" \notin KeywordStates /\ 0 \in 0..5
    BY DEF LexerStates, StringStates, NumberStates, KeywordStates
  <2>4. Good(n) BY <1>0, <2>2, <2>3, StateLemma
  <2>5. GoodChunk(n.state, chunk) BY <1>0, <2>1 DEF LexerType, GoodChunk
  <2> QED BY <1>2, <2>1, <2>4, <2>5, QuietLemma
<1>3. CASE Fail("BAD_ESCAPE") BY <1>3, FailLemma
<1> QED BY <1>1, <1>2, <1>3 DEF InStringEscape

LEMMA HexLemma == \A b \in HexDigits : HexValue(b) \in 0..15
  BY DEF HexDigits, HexValue, DIGITS

LEMMA InStringUnicodeEscapeLemma ==
  ASSUME NEW l, NEW b \in Byte, Ready(l), InStringUnicodeEscape(l, b)
  PROVE  PlainIteration
<1> USE DEF Ready
<1>0. /\ l \in LexerType /\ Accumulators(l) /\ Offsets(l)
      /\ l.state = "IN_STRING_UNICODE_ESCAPE" /\ l.offset \in 0..3
      /\ chunk \in Seq(Byte) \cup {NULL}
  BY DEF Good, Offsets, GoodChunk, InStringUnicodeEscape
<1>1. CASE Fail("BAD_UNICODE_ESCAPE") BY <1>1, FailLemma
<1>2. ASSUME b \in HexDigits PROVE PlainIteration
  <2>1. PICK h \in 0..15 : h = HexValue(b) BY <1>2, HexLemma
  <2>2. PICK byte \in 1..2 : byte = l.offset \div 2 + 1 BY <1>0
  <2>3. PICK half : half = IF l.offset % 2 = 0 THEN 16 * h ELSE l.unicode_cp[byte] + h
    OBVIOUS
  <2>4. half \in 0..255 /\ (l.offset \in {0, 2} => half = 16 * h)
    <3>1. CASE l.offset \in {0, 2} BY <2>3, <3>1
    <3>2. CASE l.offset = 1
      <4>1. PICK d \in 0..15 : l.unicode_cp[1] = 16 * d BY <1>0, <3>2 DEF Offsets
      <4>2. byte = 1 BY <2>2, <3>2
      <4> QED BY <2>3, <3>2, <4>1, <4>2
    <3>3. CASE l.offset = 3
      <4>1. PICK d \in 0..15 : l.unicode_cp[2] = 16 * d BY <1>0, <3>3 DEF Offsets
      <4>2. byte = 2 BY <2>2, <3>3
      <4> QED BY <2>3, <3>3, <4>1, <4>2
    <3>4. l.offset \in {0, 2} \/ l.offset = 1 \/ l.offset = 3 BY <1>0
    <3> QED BY <3>1, <3>2, <3>3, <3>4
  <2>5. PICK cp : cp = [l.unicode_cp EXCEPT ![byte] = half] OBVIOUS
  <2>6. cp \in [1..2 -> 0..255] /\ cp[byte] = half /\ \A i \in 1..2 : i # byte => cp[i] = l.unicode_cp[i]
    <3>1. l.unicode_cp \in [1..2 -> 0..255] BY <1>0 DEF LexerType
    <3> QED BY <2>4, <2>5, <3>1
  <2>7. PICK next : next = [l EXCEPT !.unicode_cp = cp, !.offset = l.offset + 1] OBVIOUS
  <2>8. /\ next.state = "IN_STRING_UNICODE_ESCAPE" /\ next.offset = l.offset + 1
        /\ next.unicode_cp = cp
    BY <1>0, <2>7 DEF LexerType
  <2>9. next \in LexerType
    <3>1. l.offset + 1 \in 0..5 BY <1>0
    <3> QED BY <1>0, <2>6, <2>7, <3>1 DEF LexerType
  <2>10. Accumulators(next)
    BY <1>0, <2>7 DEF LexerType, Accumulators, NumberStates
  <2>11. CASE l.offset < 3 /\ Proceed(<<>>, next, chunk, FALSE)
    <3>1. next.state \notin KeywordStates BY <2>8 DEF KeywordStates
    <3>2. next.offset \in 0..3 BY <1>0, <2>8, <2>11
    <3>7. l.offset \in {0, 2} => half \in {16 * d : d \in 0..15} BY <2>4
    <3>8. l.offset = 0 => byte = 1 BY <2>2
    <3>9. l.offset = 2 => byte = 2 BY <2>2
    <3>3. next.offset = 1 => cp[1] \in {16 * d : d \in 0..15}
      <4>1. next.offset = 1 => l.offset = 0 BY <1>0, <2>8
      <4> QED BY <2>6, <3>7, <3>8, <4>1
    <3>4. next.offset = 3 => cp[2] \in {16 * d : d \in 0..15}
      <4>1. next.offset = 3 => l.offset = 2 BY <1>0, <2>8
      <4> QED BY <2>6, <3>7, <3>9, <4>1
    <3>5. Good(next) BY <2>8, <2>9, <2>10, <3>1, <3>2, <3>3, <3>4 DEF Good, Offsets
    <3>6. GoodChunk(next.state, chunk) BY <1>0, <2>8 DEF GoodChunk
    <3> QED BY <2>11, <3>5, <3>6, QuietLemma
  <2>12. CASE Proceed(<<TokenC(next.unicode_cp)>>, [next EXCEPT !.state = "IN_STRING"],
                      <<>>, FALSE)
    <3>1. PICK n : n = [next EXCEPT !.state = "IN_STRING"] OBVIOUS
    <3>2. n.state = "IN_STRING" BY <2>9, <3>1 DEF LexerType
    <3>3. n \in LexerType BY <2>9, <3>1, ZenonT(60) DEF LexerType, LexerStates, StringStates
    <3>4. Accumulators(n)
      BY <2>8, <2>9, <2>10, <3>1 DEF LexerType, Accumulators, NumberStates
    <3>5. Offsets(n) BY <3>2 DEF Offsets, KeywordStates
    <3>6. GoodChunk(n.state, <<>>) BY <3>2 DEF GoodChunk
    <3>7. cp \in Seq(Byte)
      <4>1. cp \in [1..2 -> Byte] BY <2>6 DEF Byte
      <4>2. \E k \in Nat : cp \in [1..k -> Byte] BY <4>1
      <4> QED BY <4>2, SeqDef
    <3>8. TokenC(next.unicode_cp) \in PlainCalls BY <2>8, <3>7 DEF TokenC, PlainCalls
    <3> QED BY <2>12, <3>1, <3>3, <3>4, <3>5, <3>6, <3>8, OneCallLemma DEF Good
  <2>13. next = [l EXCEPT !.unicode_cp = [@ EXCEPT ![l.offset \div 2 + 1] =
                             IF l.offset % 2 = 0 THEN 16 * HexValue(b)
                             ELSE l.unicode_cp[l.offset \div 2 + 1] + HexValue(b)],
                          !.offset = @ + 1]
    BY <1>0, <2>1, <2>2, <2>3, <2>5, <2>7 DEF LexerType
  <2> QED BY <1>1, <1>2, <2>11, <2>12, <2>13 DEF InStringUnicodeEscape
<1> QED BY <1>1, <1>2 DEF InStringUnicodeEscape

(***************************************************************************)
(* Numbers                                                                 *)
(***************************************************************************)
(* Outside strings, keywords and big numbers only the accumulators matter. *)
LEMMA NumberLemma ==
  ASSUME NEW n \in LexerType, Accumulators(n), chunk \in Seq(Byte) \cup {NULL},
         n.state \in (NumberStates \ {"IN_BIG_NUMBER"}) \cup {"LOOKUP_TOKEN"}
  PROVE  Good(n) /\ GoodChunk(n.state, chunk)
<1>1. n.state \notin KeywordStates \cup {"IN_STRING", "IN_BIG_NUMBER", "IN_STRING_UNICODE_ESCAPE"}
  BY DEF NumberStates, KeywordStates
<1>2. Offsets(n) BY <1>1 DEF Offsets
<1> QED BY <1>1, <1>2 DEF Good, GoodChunk

LEMMA NumberStateNames ==
  /\ NumberStates \subseteq LexerStates /\ "LOOKUP_TOKEN" \in LexerStates
  /\ "LOOKUP_TOKEN" \notin NumberStates
  BY DEF NumberStates, LexerStates

LEMMA DigitLemma == \A b \in DIGITS : Digit(b) \in 0..9 /\ Digit(b) \in Nat
  BY DEF DIGITS, Digit

(* What the end of a number leaves behind.                                 *)
LEMMA AfterLemma ==
  ASSUME NEW l, Good(l)
  PROVE  /\ AfterExp(l) \in LexerType /\ Accumulators(AfterExp(l))
         /\ AfterExp(l).state = "LOOKUP_TOKEN"
         /\ l.state = "IN_NUMBER" => AfterInt(l) = AfterExp(l)
         /\ l.state = "IN_NUMBER_FRAC" => AfterFrac(l) = AfterExp(l)
<1> DEFINE n == AfterExp(l)
<1> USE LexerAssumption DEF AfterExp, AfterFrac, AfterInt
<1>0. l \in LexerType /\ Accumulators(l) BY DEF Good
<1>1. n \in LexerType
  <2>1. "LOOKUP_TOKEN" \in LexerStates BY DEF LexerStates
  <2>4. [l EXCEPT !.minus = FALSE, !.state = "LOOKUP_TOKEN"] \in LexerType
    BY <1>0, <2>1, UpdateLemma
  <2>5. \A m \in LexerType : [m EXCEPT !.int_value = 0] \in LexerType BY UpdateLemma
  <2>6. AfterInt(l) = [[l EXCEPT !.minus = FALSE, !.state = "LOOKUP_TOKEN"] EXCEPT !.int_value = 0]
    BY <1>0 DEF LexerType
  <2>2. AfterInt(l) \in LexerType BY <2>4, <2>5, <2>6, Zenon
  <2>3. AfterFrac(l) \in LexerType
    <3> HIDE DEF AfterInt
    <3>1. PICK i \in LexerType : i = AfterInt(l) BY <2>2
    <3>2. PICK f \in LexerType : f = [i EXCEPT !.frac_power = 0] BY UpdateLemma
    <3>3. [f EXCEPT !.frac_value = 0] \in LexerType BY UpdateLemma
    <3>4. AfterFrac(l) = [f EXCEPT !.frac_value = 0] BY <3>1, <3>2 DEF LexerType
    <3> QED BY <3>3, <3>4
  <2> HIDE DEF AfterFrac
  <2>7. PICK f \in LexerType : f = AfterFrac(l) BY <2>3
  <2>8. PICK x \in LexerType : x = [f EXCEPT !.exp_value = 0] BY UpdateLemma
  <2>9. PICK y \in LexerType : y = [x EXCEPT !.exp_minus = FALSE] BY UpdateLemma
  <2>10. [y EXCEPT !.exp_not_empty = FALSE] \in LexerType BY UpdateLemma
  <2>11. n = [y EXCEPT !.exp_not_empty = FALSE] BY <2>7, <2>8, <2>9 DEF LexerType
  <2> QED BY <2>10, <2>11
<1>2. /\ n.state = "LOOKUP_TOKEN" /\ n.int_value = 0 /\ ~n.minus
      /\ n.frac_power = 0 /\ n.frac_value = 0
      /\ n.exp_value = 0 /\ ~n.exp_minus /\ ~n.exp_not_empty
  BY <1>0 DEF LexerType
<1>3. Accumulators(n) BY <1>2 DEF Accumulators, NumberStates
<1>4. ASSUME l.state = "IN_NUMBER_FRAC" PROVE AfterFrac(l) = n
  BY <1>0, <1>4 DEF LexerType, Accumulators
<1>5. ASSUME l.state = "IN_NUMBER" PROVE AfterInt(l) = n
  BY <1>0, <1>5 DEF LexerType, Accumulators
<1> QED BY <1>1, <1>2, <1>3, <1>4, <1>5

(* The arguments of a double are what the table of powers has entries for. *)
LEMMA TokenFLemma ==
  ASSUME NEW l, Good(l), l.state \in {"IN_NUMBER_FRAC", "IN_NUMBER_EXP"}
  PROVE  TokenF(l) \in PlainCalls
<1> USE LexerAssumption
<1>0. l \in LexerType /\ Accumulators(l) BY DEF Good
<1>1. PICK e : e = IF l.exp_minus THEN 0 - l.exp_value ELSE l.exp_value OBVIOUS
<1>2. e \in Limits
  <2>1. CASE l.state = "IN_NUMBER_FRAC"
    BY <1>0, <1>1, <2>1 DEF LexerType, Accumulators, Limits
  <2>2. CASE l.state = "IN_NUMBER_EXP"
    <3>1. PICK k \in Nat : k = l.exp_value /\ k <= ExponentLimit(l)
      BY <1>0, <2>2 DEF LexerType, Accumulators
    <3>2. CASE l.exp_minus
      <4>1. k <= 323 /\ e = 0 - k BY <1>1, <3>1, <3>2 DEF ExponentLimit
      <4> QED BY <4>1 DEF Limits
    <3>3. CASE ~l.exp_minus
      <4>1. k <= 308 /\ e = k BY <1>1, <3>1, <3>3 DEF ExponentLimit
      <4> QED BY <4>1 DEF Limits
    <3> QED BY <3>2, <3>3
  <2> QED BY <2>1, <2>2
<1>3. l.frac_power \in 0..MaxFraction BY <1>0 DEF LexerType, Accumulators
<1> QED BY <1>0, <1>1, <1>2, <1>3 DEF TokenF, PlainCalls, LexerType

LEMMA TokenILemma ==
  ASSUME NEW l, Good(l)
  PROVE  TokenI(l) \in PlainCalls
<1>1. l \in LexerType BY DEF Good
<1>2. PICK i : i = IF l.minus THEN 0 - l.int_value ELSE l.int_value OBVIOUS
<1>3. i \in Int BY <1>1, <1>2 DEF LexerType
<1> QED BY <1>2, <1>3 DEF TokenI, PlainCalls

(* The code of the digit is added and '0' subtracted: its value is added.  *)
LEMMA AppendDigitLemma ==
  ASSUME NEW l \in LexerType, NEW b \in DIGITS
  PROVE  AppendDigit(l, b) = [l EXCEPT !.int_value = 10 * l.int_value + Digit(b)]
<1>1. l.int_value \in Nat BY DEF LexerType
<1>2. (10 * l.int_value + b) - 48 = 10 * l.int_value + Digit(b)
  BY <1>1 DEF Digit, DIGITS
<1> QED BY <1>2 DEF AppendDigit

LEMMA InNumberSignLemma ==
  ASSUME NEW l, NEW b \in Byte, Ready(l), InNumberSign(l, b)
  PROVE  PlainIteration
<1> USE LexerAssumption DEF Ready
<1>0. /\ l \in LexerType /\ Accumulators(l) /\ l.state = "IN_NUMBER_SIGN" /\ l.int_value = 0
      /\ chunk \in Seq(Byte) \cup {NULL}
  BY DEF Good, Accumulators, GoodChunk, InNumberSign
<1>1. CASE Fail("EOF_IN_STRING") BY <1>1, FailLemma
<1>2. CASE b \in DIGITS /\ Proceed(<<>>, [AppendDigit(l, b) EXCEPT !.state = "IN_NUMBER"],
                                   chunk, FALSE)
  <2>1. PICK n : n = [AppendDigit(l, b) EXCEPT !.state = "IN_NUMBER"] OBVIOUS
  <2>2. PICK d \in 0..9 : d = Digit(b) /\ d \in Nat BY <1>2, DigitLemma
  <2>a. 10 * l.int_value + d = d BY <1>0, <2>2
  <2>b. AppendDigit(l, b) = [l EXCEPT !.int_value = d] BY <1>0, <1>2, <2>2, <2>a, AppendDigitLemma
  <2>3. n = [l EXCEPT !.int_value = d, !.state = "IN_NUMBER"]
    BY <1>0, <2>1, <2>b DEF LexerType
  <2>c. "IN_NUMBER" \in LexerStates BY NumberStateNames DEF NumberStates
  <2>d. d \in Nat BY <2>2
  <2>e. l \in LexerType BY <1>0
  <2>4. n \in LexerType BY <2>3, <2>c, <2>d, <2>e, UpdateLemma
  <2>5. Accumulators(n) BY <1>0, <2>2, <2>3 DEF LexerType, Accumulators, NumberStates
  <2>6. n.state = "IN_NUMBER" BY <1>0, <2>3 DEF LexerType
  <2>7. Good(n) /\ GoodChunk(n.state, chunk)
    BY <1>0, <2>4, <2>5, <2>6, NumberLemma DEF NumberStates
  <2> QED BY <1>2, <2>1, <2>7, QuietLemma
<1> QED BY <1>1, <1>2 DEF InNumberSign

(* The test before a digit is appended: what passes fits, and what does    *)
(* not pass would have been less than 81 below the limit.  Where the sum   *)
(* that makes the integer overflows the limit is less than 48 away.        *)
LEMMA OverflowLemma ==
  ASSUME NEW l, l.int_value \in Nat, NEW b \in DIGITS
  PROVE  /\ ~IntOverflows(l, b) => 10 * l.int_value + Digit(b) <= INT_MAX
         /\ IntOverflows(l, b) => 10 * l.int_value + Digit(b) > INT_MAX - 81
         /\ SumOverflows(l, b) => 10 * l.int_value + Digit(b) > INT_MAX - 81
<1> USE LexerAssumption
<1>1. PICK d \in 0..9 : d = Digit(b) BY DigitLemma
<1>2. PICK v \in Nat : v = l.int_value OBVIOUS
<1>3. PICK q \in Nat : q = INT_MAX \div 10 OBVIOUS
<1>4. 10 * q <= INT_MAX /\ INT_MAX <= 10 * q + 9 BY <1>3
<1>5. v <= q - d => 10 * v + d <= INT_MAX BY <1>4
<1>6. v > q - d => 10 * v + d > INT_MAX - 81 BY <1>4
<1>7. b = d + 48 BY <1>1 DEF Digit, DIGITS
<1>8. SumOverflows(l, b) => 10 * v + d > INT_MAX - 81 BY <1>2, <1>7 DEF SumOverflows
<1> QED BY <1>1, <1>2, <1>3, <1>5, <1>6, <1>8 DEF IntOverflows

(* Only here an integer may become too large.                              *)
LEMMA InNumberLemma ==
  ASSUME NEW l, NEW b \in Byte, Ready(l), InNumber(l, b)
  PROVE  /\ IterationGood
         /\ IntLost => 10 * l.int_value + Digit(b) > INT_MAX - 81
<1> USE LexerAssumption DEF Ready
<1> DEFINE Near == IntLost => 10 * l.int_value + Digit(b) > INT_MAX - 81
<1>0. /\ l \in LexerType /\ Accumulators(l) /\ l.state = "IN_NUMBER" /\ l.int_value \in Nat
      /\ chunk \in Seq(Byte) \cup {NULL}
  BY DEF Good, GoodChunk, InNumber, LexerType
<1>1. CASE Fail("LEADING_ZERO") BY <1>1, FailLemma DEF PlainIteration
<1>2. CASE b \in DIGITS /\ IntOverflows(l, b) /\ Fail("INT_OVERFLOW")
  BY <1>0, <1>2, OverflowLemma, FailLemma
<1>t. CASE b \in DIGITS /\ SumOverflows(l, b) /\ Fail("TRAP")
  BY <1>0, <1>t, OverflowLemma, FailLemma
<1>3. CASE b \in DIGITS /\ ~IntOverflows(l, b) /\ Proceed(<<>>, AppendDigit(l, b), chunk, FALSE)
  <2>1. PICK n : n = AppendDigit(l, b) OBVIOUS
  <2>2. PICK v \in Nat : v = 10 * l.int_value + Digit(b) /\ v <= INT_MAX
    BY <1>0, <1>3, OverflowLemma, DigitLemma
  <2>3. n = [l EXCEPT !.int_value = v] BY <1>0, <1>3, <2>1, <2>2, AppendDigitLemma
  <2>a. n \in LexerType BY <1>0, <2>3, UpdateLemma
  <2>b. n.state = "IN_NUMBER" BY <1>0, <2>3 DEF LexerType
  <2>4. n \in LexerType /\ n.state = "IN_NUMBER" BY <2>a, <2>b
  <2>5. Accumulators(n) BY <1>0, <2>2, <2>3 DEF LexerType, Accumulators, NumberStates
  <2>6. Good(n) /\ GoodChunk(n.state, chunk)
    BY <1>0, <2>4, <2>5, NumberLemma DEF NumberStates
  <2> QED BY <1>3, <2>1, <2>6, QuietLemma DEF PlainIteration
<1>4. CASE /\ b \in DIGITS /\ IntOverflows(l, b)
           /\ Proceed(<<TokenBnBegin(l.int_value)>>, [l EXCEPT !.state = "IN_BIG_NUMBER"],
                      <<>>, FALSE)
  <2>1. PICK n : n = [l EXCEPT !.state = "IN_BIG_NUMBER"] OBVIOUS
  <2>2. TokenBnBegin(l.int_value) \in Calls BY <1>0 DEF TokenBnBegin, Calls
  <2>3. <<TokenBnBegin(l.int_value)>> \in Seq(Calls) BY <2>2
  <2>4. "IN_BIG_NUMBER" \in LexerStates BY NumberStateNames DEF NumberStates
  <2>a. n \in LexerType BY <1>0, <2>1, <2>4, UpdateLemma
  <2>b. n.state = "IN_BIG_NUMBER" BY <1>0, <2>1 DEF LexerType
  <2>5. n \in LexerType /\ n.state = "IN_BIG_NUMBER" BY <2>a, <2>b
  <2>6. Accumulators(n) BY <1>0, <2>1 DEF LexerType, Accumulators, NumberStates
  <2>7. Good(n) BY <2>5, <2>6 DEF Good, Offsets, KeywordStates
  <2>8. GoodChunk(n.state, <<>>) BY <2>5 DEF GoodChunk
  <2> QED BY <1>0, <1>4, <2>1, <2>3, <2>7, <2>8, ProceedLemma, OverflowLemma
<1>5. ASSUME NEW s \in {"IN_NUMBER_FRAC", "IN_NUMBER_EXP_SIGN"},
             Proceed(<<>>, [l EXCEPT !.state = s], chunk, FALSE)
      PROVE  PlainIteration
  <2>1. PICK n : n = [l EXCEPT !.state = s] OBVIOUS
  <2>2. s \in LexerStates BY NumberStateNames DEF NumberStates
  <2>a. n \in LexerType BY <1>0, <2>1, <2>2, UpdateLemma
  <2>b. n.state = s BY <1>0, <2>1 DEF LexerType
  <2>3. n \in LexerType /\ n.state = s BY <2>a, <2>b
  <2>4. Accumulators(n) BY <1>0, <2>1 DEF LexerType, Accumulators, NumberStates
  <2>5. Good(n) /\ GoodChunk(n.state, chunk)
    BY <1>0, <2>3, <2>4, NumberLemma DEF NumberStates
  <2> QED BY <1>5, <2>1, <2>5, QuietLemma
<1>6. CASE Proceed(<<TokenI(l)>>, AfterInt(l), chunk, TRUE)
  <2>1. PICK n : n = AfterInt(l) OBVIOUS
  <2>2. Good(n) /\ GoodChunk(n.state, chunk)
    BY <1>0, <2>1, AfterLemma, NumberLemma
  <2>3. TokenI(l) \in PlainCalls BY TokenILemma
  <2> QED BY <1>6, <2>1, <2>2, <2>3, OneCallLemma DEF PlainIteration
<1>7. PlainIteration => IterationGood /\ Near BY DEF PlainIteration
<1> QED BY <1>1, <1>2, <1>t, <1>3, <1>4, <1>5, <1>6, <1>7 DEF InNumber

LEMMA InNumberFracLemma ==
  ASSUME NEW l, NEW b \in Byte, Ready(l), InNumberFrac(l, b)
  PROVE  PlainIteration
<1> USE LexerAssumption DEF Ready
<1>0. /\ l \in LexerType /\ Accumulators(l) /\ l.state = "IN_NUMBER_FRAC"
      /\ chunk \in Seq(Byte) \cup {NULL}
  BY DEF Good, GoodChunk, InNumberFrac
<1>1. CASE Fail("EMPTY_FRAC") BY <1>1, FailLemma
<1>2. CASE /\ b \in DIGITS /\ l.frac_power < MaxFraction
           /\ Proceed(<<>>, AppendFracDigit(l, b), chunk, FALSE)
  <2>1. PICK n : n = AppendFracDigit(l, b) OBVIOUS
  <2>2. PICK f \in Nat : f = (10 * l.frac_value + Digit(b)) % FRAC_MODULUS
    BY <1>0, <1>2, DigitLemma DEF LexerType
  <2>3. PICK p \in Nat : p = (l.frac_power + 1) % 65536 /\ p <= MaxFraction
    BY <1>0, <1>2 DEF LexerType
  <2>4. n = [l EXCEPT !.frac_value = f, !.frac_power = p] BY <2>1, <2>2, <2>3 DEF AppendFracDigit
  <2>a. n \in LexerType
    <3>1. PICK m \in LexerType : m = [l EXCEPT !.frac_value = f] BY <1>0, UpdateLemma
    <3>2. [m EXCEPT !.frac_power = p] \in LexerType BY UpdateLemma
    <3>3. n = [m EXCEPT !.frac_power = p] BY <2>4, <3>1 DEF LexerType
    <3> QED BY <3>2, <3>3
  <2>b. n.state = "IN_NUMBER_FRAC" BY <1>0, <2>4 DEF LexerType
  <2>5. n \in LexerType /\ n.state = "IN_NUMBER_FRAC" BY <2>a, <2>b
  <2>6. Accumulators(n) BY <1>0, <2>3, <2>4, SMTT(30) DEF LexerType, Accumulators, NumberStates
  <2>7. Good(n) /\ GoodChunk(n.state, chunk)
    BY <1>0, <2>5, <2>6, NumberLemma DEF NumberStates
  <2> QED BY <1>2, <2>1, <2>7, QuietLemma
<1>3. CASE Proceed(<<>>, [l EXCEPT !.state = "IN_NUMBER_EXP_SIGN"], chunk, FALSE)
  <2>1. PICK n : n = [l EXCEPT !.state = "IN_NUMBER_EXP_SIGN"] OBVIOUS
  <2>2. "IN_NUMBER_EXP_SIGN" \in LexerStates BY NumberStateNames DEF NumberStates
  <2>3. n \in LexerType BY <1>0, <2>1, <2>2, UpdateLemma
  <2>s. n.state = "IN_NUMBER_EXP_SIGN" BY <1>0, <2>1 DEF LexerType
  <2>4. Accumulators(n) BY <1>0, <2>1 DEF LexerType, Accumulators, NumberStates
  <2>5. Good(n) /\ GoodChunk(n.state, chunk)
    BY <1>0, <2>3, <2>s, <2>4, NumberLemma DEF NumberStates
  <2> QED BY <1>3, <2>1, <2>5, QuietLemma
<1>4. CASE Proceed(<<TokenF(l)>>, AfterFrac(l), chunk, TRUE)
  <2>1. PICK n : n = AfterFrac(l) OBVIOUS
  <2>2. Good(n) /\ GoodChunk(n.state, chunk)
    BY <1>0, <2>1, AfterLemma, NumberLemma
  <2>3. TokenF(l) \in PlainCalls BY <1>0, TokenFLemma
  <2> QED BY <1>4, <2>1, <2>2, <2>3, OneCallLemma
<1> QED BY <1>1, <1>2, <1>3, <1>4 DEF InNumberFrac

WithExponent(l, sign, v, some) ==
  [l EXCEPT !.state = "IN_NUMBER_EXP", !.exp_minus = sign, !.exp_value = v,
            !.exp_not_empty = some]

LEMMA WithExponentLemma ==
  ASSUME NEW l \in LexerType, Accumulators(l), l.state \in {"IN_NUMBER_EXP_SIGN", "IN_NUMBER_EXP"},
         chunk \in Seq(Byte) \cup {NULL},
         NEW sign \in BOOLEAN, NEW v \in Nat, NEW some \in BOOLEAN,
         v <= IF sign THEN 323 ELSE 308
  PROVE  LET n == WithExponent(l, sign, v, some) IN Good(n) /\ GoodChunk(n.state, chunk)
<1> DEFINE n == WithExponent(l, sign, v, some)
<1>1. "IN_NUMBER_EXP" \in LexerStates BY NumberStateNames DEF NumberStates
<1>2. n \in LexerType
  <2>1. PICK m \in LexerType : m = [l EXCEPT !.state = "IN_NUMBER_EXP"] BY <1>1, UpdateLemma
  <2>2. PICK k \in LexerType : k = [m EXCEPT !.exp_value = v] BY UpdateLemma
  <2>3. PICK i \in LexerType : i = [k EXCEPT !.exp_minus = sign] BY UpdateLemma
  <2>4. n = [i EXCEPT !.exp_not_empty = some]
    BY <2>1, <2>2, <2>3 DEF LexerType, WithExponent
  <2> QED BY <2>4, UpdateLemma, ZenonT(60)
<1>3. /\ n.state = "IN_NUMBER_EXP" /\ n.exp_value = v /\ n.exp_minus = sign
      /\ n.int_value = l.int_value /\ n.frac_power = l.frac_power
  BY DEF LexerType, WithExponent
<1>4. n.exp_value <= ExponentLimit(n) BY <1>3 DEF ExponentLimit
<1>5. Accumulators(n) BY <1>3, <1>4 DEF Accumulators, NumberStates
<1> QED BY <1>2, <1>3, <1>5, NumberLemma DEF NumberStates

LEMMA InNumberExpSignLemma ==
  ASSUME NEW l, NEW b \in Byte, Ready(l), InNumberExpSign(l, b)
  PROVE  PlainIteration
<1> USE DEF Ready
<1> DEFINE next == [l EXCEPT !.state = "IN_NUMBER_EXP"]
<1>0. /\ l \in LexerType /\ Accumulators(l) /\ l.state = "IN_NUMBER_EXP_SIGN"
      /\ chunk \in Seq(Byte) \cup {NULL}
  BY DEF Good, GoodChunk, InNumberExpSign
<1>1. CASE Fail("BAD_EXPONENT") BY <1>1, FailLemma
<1>2. l.exp_value = 0 /\ l.exp_minus = FALSE /\ l.exp_not_empty = FALSE
  BY <1>0 DEF LexerType, Accumulators
<1>3. CASE Proceed(<<>>, [next EXCEPT !.exp_minus = TRUE], chunk, FALSE)
  <2>1. [next EXCEPT !.exp_minus = TRUE] = WithExponent(l, TRUE, 0, FALSE)
    BY <1>0, <1>2 DEF LexerType, WithExponent
  <2>2. PICK v \in Nat : v = 0 OBVIOUS
  <2>3. PICK n : n = WithExponent(l, TRUE, v, FALSE) OBVIOUS
  <2>4. v <= IF TRUE THEN 323 ELSE 308 BY <2>2
  <2>5. Good(n) /\ GoodChunk(n.state, chunk) BY <1>0, <2>3, <2>4, WithExponentLemma
  <2> QED BY <1>3, <2>1, <2>2, <2>3, <2>5, QuietLemma
<1>4. CASE Proceed(<<>>, next, chunk, FALSE)
  <2>1. next = WithExponent(l, FALSE, 0, FALSE)
    BY <1>0, <1>2 DEF LexerType, WithExponent
  <2>2. PICK v \in Nat : v = 0 OBVIOUS
  <2>3. PICK n : n = WithExponent(l, FALSE, v, FALSE) OBVIOUS
  <2>4. v <= IF FALSE THEN 323 ELSE 308 BY <2>2
  <2>5. Good(n) /\ GoodChunk(n.state, chunk) BY <1>0, <2>3, <2>4, WithExponentLemma
  <2> QED BY <1>4, <2>1, <2>2, <2>3, <2>5, QuietLemma
<1>5. CASE b \in DIGITS
           /\ Proceed(<<>>, [next EXCEPT !.exp_value = Digit(b), !.exp_not_empty = TRUE],
                      chunk, FALSE)
  <2>1. [next EXCEPT !.exp_value = Digit(b), !.exp_not_empty = TRUE]
          = WithExponent(l, FALSE, Digit(b), TRUE)
    BY <1>0, <1>2 DEF LexerType, WithExponent
  <2>2. PICK n : n = WithExponent(l, FALSE, Digit(b), TRUE) OBVIOUS
  <2>3. Digit(b) \in Nat /\ Digit(b) <= 308 BY <1>5, DigitLemma
  <2>4. Good(n) /\ GoodChunk(n.state, chunk) BY <1>0, <2>2, <2>3, WithExponentLemma
  <2> QED BY <1>5, <2>1, <2>2, <2>4, QuietLemma
<1> QED BY <1>1, <1>3, <1>4, <1>5 DEF InNumberExpSign

LEMMA InNumberExpLemma ==
  ASSUME NEW l, NEW b \in Byte, Ready(l), InNumberExp(l, b)
  PROVE  PlainIteration
<1> USE DEF Ready
<1> DEFINE next == [l EXCEPT !.exp_value = 10 * @ + Digit(b), !.exp_not_empty = TRUE]
<1>0. /\ l \in LexerType /\ Accumulators(l) /\ l.state = "IN_NUMBER_EXP"
      /\ chunk \in Seq(Byte) \cup {NULL}
  BY DEF Good, GoodChunk, InNumberExp
<1>1. CASE Fail("EXPONENT_OVERFLOW") \/ Fail("EMPTY_EXP") BY <1>1, FailLemma
<1>2. CASE /\ b \in DIGITS /\ ~(next.exp_value > ExponentLimit(l))
           /\ Proceed(<<>>, next, chunk, FALSE)
  <2>1. PICK v \in Nat : v = 10 * l.exp_value + Digit(b) BY <1>0, <1>2, DigitLemma DEF LexerType
  <2>2. next.exp_value = v BY <1>0, <2>1 DEF LexerType
  <2>3. l.exp_minus \in BOOLEAN /\ v <= IF l.exp_minus THEN 323 ELSE 308
    BY <1>0, <1>2, <2>1, <2>2 DEF LexerType, ExponentLimit
  <2>4. next = WithExponent(l, l.exp_minus, v, TRUE) BY <1>0, <2>1 DEF LexerType, WithExponent
  <2>5. PICK n : n = WithExponent(l, l.exp_minus, v, TRUE) OBVIOUS
  <2>6. Good(n) /\ GoodChunk(n.state, chunk) BY <1>0, <2>3, <2>5, WithExponentLemma
  <2> QED BY <1>2, <2>4, <2>5, <2>6, QuietLemma
<1>3. CASE Proceed(<<TokenF(l)>>, AfterExp(l), chunk, TRUE)
  <2>1. PICK n : n = AfterExp(l) OBVIOUS
  <2>2. Good(n) /\ GoodChunk(n.state, chunk)
    BY <1>0, <2>1, AfterLemma, NumberLemma
  <2>3. TokenF(l) \in PlainCalls BY <1>0, TokenFLemma
  <2> QED BY <1>3, <2>1, <2>2, <2>3, OneCallLemma
<1> QED BY <1>1, <1>2, <1>3 DEF InNumberExp

LEMMA FlushLemma ==
  ASSUME chunk \in Seq(BigNumberBytes)
  PROVE  /\ Flush(TokenBn(chunk)) \in Seq(PlainCalls)
         /\ Flush(TokenBn(chunk)) \o <<TokenBnEnd>> \in Seq(PlainCalls)
<1>1. Flush(TokenBn(chunk)) \in Seq(PlainCalls)
  <2>1. CASE chunk = <<>> BY <2>1 DEF Flush
  <2>2. CASE chunk # <<>>
    <3>1. TokenBn(chunk) \in PlainCalls BY <2>2 DEF TokenBn, PlainCalls
    <3> QED BY <2>2, <3>1 DEF Flush
  <2> QED BY <2>1, <2>2
<1>2. TokenBnEnd \in PlainCalls BY DEF TokenBnEnd, PlainCalls
<1> QED BY <1>1, <1>2

LEMMA InBigNumberLemma ==
  ASSUME NEW l, NEW b \in Byte, Ready(l), InBigNumber(l, b)
  PROVE  PlainIteration
<1> USE DEF Ready
<1>0. /\ l \in LexerType /\ l.state = "IN_BIG_NUMBER" /\ chunk \in Seq(BigNumberBytes)
      /\ chunk \in Seq(Byte)
  BY DEF Good, GoodChunk, InBigNumber, BigNumberBytes, DIGITS, EXPONENT, MINUS, DOT, Byte
<1>1. CASE b \in BigNumberBytes /\ Proceed(<<>>, l, Append(chunk, b), FALSE)
  <2>1. Append(chunk, b) \in Seq(BigNumberBytes) /\ Append(chunk, b) \in Seq(Byte)
    BY <1>0, <1>1
  <2>2. GoodChunk(l.state, Append(chunk, b)) BY <1>0, <2>1 DEF GoodChunk
  <2> QED BY <1>1, <2>2, QuietLemma
<1>2. CASE Proceed(Flush(TokenBn(chunk)) \o <<TokenBnEnd>>, AfterExp(l), NULL, TRUE)
  <2>1. Flush(TokenBn(chunk)) \o <<TokenBnEnd>> \in Seq(PlainCalls)
    BY <1>0, FlushLemma
  <2>2. PICK n : n = AfterExp(l) OBVIOUS
  <2>3. n.state = "LOOKUP_TOKEN" /\ n \in LexerType /\ Accumulators(n) BY <2>2, AfterLemma
  <2>4. Good(n) BY <2>3 DEF Good, Offsets, KeywordStates
  <2>5. GoodChunk(n.state, NULL) BY <2>3 DEF GoodChunk
  <2> QED BY <1>2, <2>1, <2>2, <2>4, <2>5, PlainLemma
<1> QED BY <1>1, <1>2 DEF InBigNumber

(***************************************************************************)
(* The steps                                                               *)
(***************************************************************************)
Near == IntLost => 10 * lex.int_value + Digit(data') > INT_MAX - 81

LEMMA IterateLemma ==
  ASSUME IInv, NEW b \in Alphabet, Iterate(b)
  PROVE  IInv' /\ Near
<1> DEFINE l == Sniff(lex, b)
<1>0. b \in Byte BY LexerAssumption DEF Byte
<1>1. Good(l) /\ l.state = lex.state /\ l.int_value = lex.int_value
  BY <1>0, SniffLemma DEF IInv
<1>2. Ready(l) BY <1>1 DEF Ready, IInv, Iterate
<1> HIDE DEF l
<1>3. \/ LookupToken(l, b)
      \/ InString(l, b)
      \/ InStringEscape(l, b)
      \/ InStringUnicodeEscape(l, b)
      \/ InNumberSign(l, b)
      \/ InNumber(l, b)
      \/ InNumberFrac(l, b)
      \/ InNumberExpSign(l, b)
      \/ InNumberExp(l, b)
      \/ InBigNumber(l, b)
      \/ InKeyword(l, b)
  BY DEF Iterate, l
<1>4. data' = b /\ lexer' = lexer /\ finalized' = finalized /\ pushing' = (err' = "OK")
      /\ left' \in Nat
  <2>1. CASE again BY <2>1 DEF Iterate, IInv
  <2>2. CASE ~again BY <2>2 DEF Iterate, IInv
  <2> QED BY <2>1, <2>2
<1>5. IterationGood /\ Near
  <2>1. CASE InNumber(l, b) BY <1>0, <1>1, <1>2, <1>4, <2>1, InNumberLemma DEF Near
  <2>2. CASE ~InNumber(l, b)
    <3>1. PlainIteration
      BY <1>0, <1>2, <1>3, <2>2, LookupTokenLemma, InStringLemma, InStringEscapeLemma,
         InStringUnicodeEscapeLemma, InNumberSignLemma, InNumberFracLemma,
         InNumberExpSignLemma, InNumberExpLemma, InBigNumberLemma, InKeywordLemma
    <3> QED BY <3>1 DEF PlainIteration, Near
  <2> QED BY <2>1, <2>2
<1>6. IInv' BY <1>0, <1>4, <1>5 DEF IInv, IterationGood
<1> QED BY <1>5, <1>6

LEMMA BeginPushLemma ==
  ASSUME IInv, NEW size \in 0..MaxBuffer, BeginPush(size)
  PROVE  IInv' /\ Near
<1>1. calls' = <<>> /\ err' = "OK" BY DEF BeginPush, Alive
<1>2. left' \in Nat BY LexerAssumption DEF BeginPush
<1>3. GoodChunk(lex'.state, chunk') /\ chunk' \in Seq(Byte) \cup {NULL}
  BY DEF BeginPush, ChunkStates, GoodChunk
<1>4. IInv' BY <1>1, <1>2, <1>3 DEF BeginPush, IInv
<1>5. Near BY <1>1 DEF Near, IntLost, LeavesInt
<1> QED BY <1>4, <1>5

LEMMA EndPushLemma ==
  ASSUME IInv, EndPush
  PROVE  IInv' /\ Near
<1>1. CallsAtBufferEnd(lex) \in Seq(PlainCalls)
  <2>1. CASE lex.state = "IN_STRING"
    <3>1. chunk \in Seq(Byte) BY <2>1 DEF EndPush, IInv, GoodChunk
    <3>2. TokenC(chunk) \in PlainCalls BY <3>1 DEF TokenC, PlainCalls
    <3> QED BY <2>1, <3>2 DEF CallsAtBufferEnd, Flush
  <2>2. CASE lex.state = "IN_BIG_NUMBER"
    <3>1. chunk \in Seq(BigNumberBytes) BY <2>2 DEF EndPush, IInv, GoodChunk
    <3> QED BY <2>2, <3>1, FlushLemma DEF CallsAtBufferEnd
  <2>3. CASE lex.state \notin {"IN_STRING", "IN_BIG_NUMBER"}
    BY <2>3 DEF CallsAtBufferEnd
  <2> QED BY <2>1, <2>2, <2>3
<1>2. calls' \in Seq(PlainCalls) /\ err' \in {"OK", "CALLBACK"}
  BY <1>1, MakeLemma DEF EndPush
<1>3. Near BY <1>2, CallTypes DEF Near, IntLost, LeavesInt
<1>4. calls' \in Seq(Calls) BY <1>2, CallTypes
<1>5. Good(lexer') /\ Good(lex') BY DEF EndPush, IInv
<1>6. IInv' BY <1>4, <1>5 DEF EndPush, IInv
<1> QED BY <1>3, <1>6

LEMMA FinalizeLemma ==
  ASSUME IInv, Finalize
  PROVE  IInv' /\ Near
<1>1. CallsAtEnd(lexer) \in Seq(PlainCalls)
  <2>0. Good(lexer) BY DEF IInv
  <2>1. CASE lexer.state = "IN_NUMBER"
    <3>1. TokenI(lexer) \in PlainCalls BY <2>0, TokenILemma
    <3> QED BY <2>1, <3>1 DEF CallsAtEnd
  <2>2. CASE lexer.state \in {"IN_NUMBER_FRAC", "IN_NUMBER_EXP"}
    <3>1. TokenF(lexer) \in PlainCalls BY <2>0, <2>2, TokenFLemma
    <3> QED BY <2>2, <3>1 DEF CallsAtEnd
  <2>3. CASE lexer.state = "IN_BIG_NUMBER"
    <3>1. TokenBnEnd \in PlainCalls BY DEF TokenBnEnd, PlainCalls
    <3> QED BY <2>3, <3>1 DEF CallsAtEnd
  <2>4. CASE lexer.state \notin {"IN_NUMBER", "IN_NUMBER_FRAC", "IN_NUMBER_EXP", "IN_BIG_NUMBER"}
    BY <2>4 DEF CallsAtEnd
  <2> QED BY <2>1, <2>2, <2>3, <2>4
<1>2. calls' \in Seq(PlainCalls) /\ err' \notin {"INT_OVERFLOW", "TRAP"}
  <2>1. CASE ErrorAtEnd(lexer) # "OK"
    BY <2>1 DEF Finalize, ErrorAtEnd
  <2>2. CASE ErrorAtEnd(lexer) = "OK"
    BY <1>1, <2>2, MakeLemma DEF Finalize
  <2> QED BY <2>1, <2>2
<1>3. Near BY <1>2, CallTypes DEF Near, IntLost, LeavesInt
<1>4. calls' \in Seq(Calls) BY <1>2, CallTypes
<1>5. IInv' BY <1>4 DEF Finalize, IInv
<1> QED BY <1>3, <1>5

LEMMA StepLemma == IInv /\ [Next]_vars => IInv' /\ (Next /\ vars' # vars => Near)
<1> SUFFICES ASSUME IInv, [Next]_vars PROVE IInv' /\ (Next /\ vars' # vars => Near)
  OBVIOUS
<1>1. CASE \E size \in 0..MaxBuffer : BeginPush(size) BY <1>1, BeginPushLemma
<1>2. CASE \E b \in Alphabet : Iterate(b) BY <1>2, IterateLemma
<1>3. CASE EndPush BY <1>3, EndPushLemma
<1>4. CASE Finalize BY <1>4, FinalizeLemma
<1>5. CASE UNCHANGED vars BY <1>5 DEF IInv, vars
<1> QED BY <1>1, <1>2, <1>3, <1>4, <1>5 DEF Next, Stopped

LEMMA InitLemma == Init => IInv
<1> SUFFICES ASSUME Init PROVE IInv
  OBVIOUS
<1> USE LexerAssumption
<1>1. PICK u : u = <<0, 0>> OBVIOUS
<1>2. u \in [1..2 -> 0..255] BY <1>1
<1>3. ZeroedLexer \in LexerType
  BY <1>1, <1>2 DEF ZeroedLexer, LexerType, LexerStates, Encodings
<1>4. Accumulators(ZeroedLexer) BY DEF ZeroedLexer, Accumulators, NumberStates
<1>5. Offsets(ZeroedLexer) BY DEF ZeroedLexer, Offsets, KeywordStates
<1>6. Good(lexer) /\ Good(lex) BY <1>3, <1>4, <1>5 DEF Init, Good
<1>7. pushing = FALSE /\ again = FALSE /\ finalized = FALSE BY DEF Init
<1>8. left \in Nat /\ data \in Byte BY DEF Init, Byte
<1>9. chunk \in Seq(Byte) \cup {NULL} /\ calls \in Seq(Calls) BY DEF Init
<1> QED BY <1>6, <1>7, <1>8, <1>9 DEF IInv

(* The inductive invariant holds in every execution.                       *)
THEOREM LexerInvariant == Spec => []IInv
  BY InitLemma, StepLemma, PTL DEF Spec

(***************************************************************************)
(* What follows from it                                                    *)
(***************************************************************************)
(* The fields of embedjson_lexer keep values of their types; int_value is  *)
(* exact, never wrapped.                                                   *)
THEOREM LexerTypeCorrect == Spec => []TypeOK
<1>1. IInv => TypeOK BY DEF IInv, TypeOK, Good, Byte
<1> QED BY <1>1, LexerInvariant, PTL

(* What int_value holds, and what is delivered, is representable in        *)
(* EMBEDJSON_INT_T: the test lets no digit pass that would not fit.  This  *)
(* is about the values only; the sums between them may overflow.           *)
THEOREM StoredIntegersFit == Spec => []IntFits
<1>1. IInv => IntFits BY DEF IInv, IntFits, Good, Accumulators
<1> QED BY <1>1, LexerInvariant, PTL

(* A number finds nothing of the numbers before it in the accumulators.    *)
THEOREM AccumulatorsAreClean == Spec => []CleanAccumulators
<1>1. IInv => CleanAccumulators BY DEF IInv, CleanAccumulators, Good, Accumulators
<1> QED BY <1>1, LexerInvariant, PTL

(* The exponent of every double has an entry in the table of powers,       *)
(* whichever sign it has and however long the fraction is.                 *)
THEOREM ExponentsAreInTable == Spec => []ExponentsInTable
<1>1. IInv => ExponentsInTable
  <2> SUFFICES ASSUME IInv, NEW i \in DOMAIN calls, calls[i].call = "tokenf"
               PROVE  0 - calls[i].exp \in powm10Arguments
    BY DEF ExponentsInTable
  <2>1. calls[i] \in Calls BY DEF IInv
  <2>2. calls[i].exp \in Limits BY <2>1 DEF Calls, PlainCalls
  <2>3. \A e \in Limits : 0 - e \in powm10Arguments BY DEF powm10Arguments, Limits
  <2> QED BY <2>2, <2>3
<1> QED BY <1>1, LexerInvariant, PTL

(* Whatever is handed over from a buffer is inside it.                     *)
THEOREM ChunksPointIntoBuffer == Spec => []ChunkPointsIntoBuffer
<1>1. IInv => ChunkPointsIntoBuffer
  <2> SUFFICES ASSUME IInv, pushing, lex.state \in ChunkStates PROVE chunk # NULL
    BY DEF ChunkPointsIntoBuffer
  <2>1. chunk \in Seq(Byte) \/ chunk \in Seq(BigNumberBytes)
    BY DEF IInv, GoodChunk, ChunkStates
  <2>2. BigNumberBytes \subseteq Byte
    BY DEF BigNumberBytes, DIGITS, EXPONENT, MINUS, DOT, Byte
  <2>3. chunk \in Seq(Byte) BY <2>1, <2>2
  <2> QED BY <2>3, LexerAssumption DEF Byte
<1> QED BY <1>1, LexerInvariant, PTL

(* Callbacks for big numbers get non-empty chunks of a number's bytes.     *)
THEOREM BignumChunksAreNumbers == Spec => []BignumChunkBytes
<1>1. IInv => BignumChunkBytes
  <2> SUFFICES ASSUME IInv, NEW i \in DOMAIN calls, calls[i].call = "tokenbn"
               PROVE  calls[i].bytes # <<>> /\ ToSet(calls[i].bytes) \subseteq BigNumberBytes
    BY DEF BignumChunkBytes
  <2>1. calls[i] \in Calls BY DEF IInv
  <2>2. calls[i].bytes \in Seq(BigNumberBytes) \ {<<>>}
    BY <2>1 DEF Calls, PlainCalls
  <2> QED BY <2>2 DEF ToSet
<1> QED BY <1>1, LexerInvariant, PTL

(* A failed push changes nothing in *lexer, at whatever point it fails.    *)
THEOREM FailedPushesKeepLexer == Spec => FailedPushKeepsLexer
<1>1. [Next]_vars => [err' # "OK" => lexer' = lexer]_vars
  <2> SUFFICES ASSUME Next PROVE err' # "OK" => lexer' = lexer
    OBVIOUS
  <2>1. ASSUME NEW size \in 0..MaxBuffer, BeginPush(size) PROVE lexer' = lexer
    BY <2>1 DEF BeginPush
  <2>2. ASSUME NEW b \in Alphabet, Iterate(b) PROVE lexer' = lexer
    BY <2>2 DEF Iterate
  <2>3. CASE EndPush BY <2>3 DEF EndPush
  <2>4. CASE Finalize BY <2>4 DEF Finalize
  <2>5. CASE Stopped BY <2>5 DEF Stopped, vars
  <2> QED BY <2>1, <2>2, <2>3, <2>4, <2>5 DEF Next
<1> QED BY <1>1, PTL DEF Spec, FailedPushKeepsLexer

(* No integer up to INT_MAX - 81 is refused, made a big number, or met by  *)
(* an overflow of the sum that makes it.                                   *)
THEOREM OverflowsAreNearLimit == Spec => OverflowOnlyNearLimit
<1>1. IInv /\ [Next]_vars =>
        [IntLost => 10 * lex.int_value + Digit(data') > INT_MAX - 81]_vars
  BY StepLemma DEF Near
<1> QED BY <1>1, LexerInvariant, PTL DEF Spec, OverflowOnlyNearLimit

(***************************************************************************)
(* Corner cases of UTF-8.  cc is set exactly while the byte that it        *)
(* restricts is still to come, in the copy that counts: lex during a push, *)
(* *lexer between pushes.  A lead byte with a corner case that was read    *)
(* last is the one cc stands for.                                          *)
(***************************************************************************)
Current == IF pushing THEN lex ELSE lexer

CornerOf(lead) == CASE lead = 224 -> <<2, 1>> [] lead = 240 -> <<3, 2>> [] OTHER -> <<3, 3>>

CornerLeads == {224, 240, 244}

Tracks(l, b) ==
  /\ l.cc # 0 => Corner(l)
  /\ l.state = "IN_STRING" /\ b \in CornerLeads => <<l.nb, l.cc>> = CornerOf(b)

CornerInv ==
  err = "OK" => /\ VALIDATE_UTF8 => Tracks(Current, data)
                /\ ~pushing => left = 0

HasFields(l) == {"state", "nb", "cc"} \subseteq DOMAIN l

(* Outside the text of strings nb and cc stay what they are, and the byte  *)
(* that leads into a string is not a lead byte.                            *)
Keeps(n, l, b) == /\ n.nb = l.nb /\ n.cc = l.cc
                  /\ n.state # "IN_STRING" \/ b \notin CornerLeads

LEMMA LookupTokenKeeps ==
  ASSUME NEW l, NEW b, HasFields(l), LookupToken(l, b), err' = "OK"
  PROVE  Keeps(lex', l, b)
<1>1. \/ lex' = l
      \/ b = QUOTE /\ lex' = [l EXCEPT !.state = "IN_STRING"]
      \/ b \in DOMAIN KeywordOf /\ lex' = [l EXCEPT !.offset = 1, !.state = KeywordOf[b]]
      \/ lex' = [l EXCEPT !.minus = TRUE, !.state = "IN_NUMBER_SIGN"]
      \/ lex' = [l EXCEPT !.int_value = Digit(b), !.state = "IN_NUMBER"]
  BY DEF LookupToken, Proceed, Fail
<1>2. l.state = "LOOKUP_TOKEN" BY DEF LookupToken
<1>3. b = QUOTE => b \notin CornerLeads BY DEF QUOTE, CornerLeads
<1>4. b \in DOMAIN KeywordOf => KeywordOf[b] # "IN_STRING" BY DEF KeywordOf
<1> QED BY <1>1, <1>2, <1>3, <1>4 DEF Keeps, HasFields

LEMMA EscapeKeeps ==
  ASSUME NEW l, NEW b, HasFields(l), err' = "OK",
         InStringEscape(l, b) \/ InStringUnicodeEscape(l, b)
  PROVE  Keeps(lex', l, b)
<1>1. CASE InStringEscape(l, b)
  <2>1. \/ b \in DOMAIN Escaped /\ lex' = [l EXCEPT !.state = "IN_STRING"]
        \/ lex' = [l EXCEPT !.state = "IN_STRING_UNICODE_ESCAPE", !.offset = 0]
    BY <1>1 DEF InStringEscape, Proceed, Fail
  <2>2. b \in DOMAIN Escaped => b \notin CornerLeads BY DEF Escaped, CornerLeads
  <2> QED BY <2>1, <2>2 DEF Keeps, HasFields
<1>2. CASE InStringUnicodeEscape(l, b)
  <2> DEFINE byte == l.offset \div 2 + 1
             half == IF l.offset % 2 = 0 THEN 16 * HexValue(b)
                     ELSE l.unicode_cp[byte] + HexValue(b)
             next == [l EXCEPT !.unicode_cp = [@ EXCEPT ![byte] = half], !.offset = @ + 1]
  <2>1. lex' = next \/ lex' = [next EXCEPT !.state = "IN_STRING"]
    BY <1>2 DEF InStringUnicodeEscape, Proceed, Fail
  <2>2. b \in HexDigits BY <1>2 DEF InStringUnicodeEscape, Fail
  <2>3. b \notin CornerLeads BY <2>2 DEF HexDigits, DIGITS, CornerLeads
  <2> QED BY <2>1, <2>3 DEF Keeps, HasFields
<1> QED BY <1>1, <1>2

LEMMA InKeywordKeeps ==
  ASSUME NEW l, NEW b, HasFields(l), InKeyword(l, b), err' = "OK"
  PROVE  Keeps(lex', l, b)
<1>1. \/ lex' = [l EXCEPT !.offset = @ + 1]
      \/ lex' = [[l EXCEPT !.offset = @ + 1] EXCEPT !.state = "LOOKUP_TOKEN"]
  <2>1. KeywordError[l.state] # "OK" BY DEF InKeyword, KeywordError, KeywordStates
  <2> QED BY <2>1 DEF InKeyword, Proceed, Fail
<1>2. l.state # "IN_STRING" BY DEF InKeyword, KeywordStates
<1> QED BY <1>1, <1>2 DEF Keeps, HasFields

(* What follows a number is looked up anew.                                *)
LEMMA AfterNumberKeeps ==
  ASSUME NEW l, HasFields(l), NEW b, NEW n \in {AfterInt(l), AfterFrac(l), AfterExp(l)}
  PROVE  Keeps(n, l, b)
<1>1. PICK i : i = AfterInt(l) OBVIOUS
<1>2. HasFields(i) /\ i.nb = l.nb /\ i.cc = l.cc /\ i.state = "LOOKUP_TOKEN"
  BY <1>1 DEF AfterInt, HasFields
<1>3. PICK f : f = AfterFrac(l) OBVIOUS
<1>4. HasFields(f) /\ f.nb = l.nb /\ f.cc = l.cc /\ f.state = "LOOKUP_TOKEN"
  BY <1>1, <1>2, <1>3 DEF AfterFrac, HasFields
<1>5. PICK e : e = AfterExp(l) OBVIOUS
<1>6. e.nb = l.nb /\ e.cc = l.cc /\ e.state = "LOOKUP_TOKEN"
  BY <1>3, <1>4, <1>5 DEF AfterExp, HasFields
<1> QED BY <1>1, <1>2, <1>3, <1>4, <1>5, <1>6 DEF Keeps

LEMMA IntegerKeeps ==
  ASSUME NEW l, NEW b, HasFields(l), err' = "OK", InNumberSign(l, b) \/ InNumber(l, b)
  PROVE  Keeps(lex', l, b)
<1>1. PICK d : d = AppendDigit(l, b) OBVIOUS
<1>2. HasFields(d) /\ d.nb = l.nb /\ d.cc = l.cc /\ d.state = l.state
  BY <1>1 DEF AppendDigit, HasFields
<1>3. l.state # "IN_STRING" BY DEF InNumberSign, InNumber
<1>4. \/ lex' = d \/ lex' = AfterInt(l)
      \/ lex' = [d EXCEPT !.state = "IN_NUMBER"]
      \/ \E s \in {"IN_BIG_NUMBER", "IN_NUMBER_FRAC", "IN_NUMBER_EXP_SIGN"} :
            lex' = [l EXCEPT !.state = s]
  <2>1. CASE InNumberSign(l, b) BY <1>1, <2>1 DEF InNumberSign, Proceed, Fail
  <2>2. CASE InNumber(l, b) BY <1>1, <2>2 DEF InNumber, Proceed, Fail
  <2> QED BY <2>1, <2>2
<1>5. CASE lex' = AfterInt(l) BY <1>5, AfterNumberKeeps
<1> QED BY <1>2, <1>3, <1>4, <1>5 DEF Keeps, HasFields

LEMMA FractionKeeps ==
  ASSUME NEW l, NEW b, HasFields(l), err' = "OK", InNumberFrac(l, b) \/ InBigNumber(l, b)
  PROVE  Keeps(lex', l, b)
<1>1. l.state # "IN_STRING" BY DEF InNumberFrac, InBigNumber
<1>2. PICK d : d = AppendFracDigit(l, b) OBVIOUS
<1>3. d.nb = l.nb /\ d.cc = l.cc /\ d.state = l.state BY <1>2 DEF AppendFracDigit, HasFields
<1>4. \/ lex' = l \/ lex' = d \/ lex' \in {AfterFrac(l), AfterExp(l)}
      \/ lex' = [l EXCEPT !.state = "IN_NUMBER_EXP_SIGN"]
  <2>1. CASE InNumberFrac(l, b) BY <1>2, <2>1 DEF InNumberFrac, Proceed, Fail
  <2>2. CASE InBigNumber(l, b) BY <2>2 DEF InBigNumber, Proceed
  <2> QED BY <2>1, <2>2
<1>5. CASE lex' \in {AfterFrac(l), AfterExp(l)} BY <1>5, AfterNumberKeeps
<1> QED BY <1>1, <1>3, <1>4, <1>5 DEF Keeps, HasFields

LEMMA ExponentKeeps ==
  ASSUME NEW l, NEW b, HasFields(l), err' = "OK", InNumberExpSign(l, b) \/ InNumberExp(l, b)
  PROVE  Keeps(lex', l, b)
<1>1. l.state # "IN_STRING" BY DEF InNumberExpSign, InNumberExp
<1>2. PICK next : next = [l EXCEPT !.state = "IN_NUMBER_EXP"] OBVIOUS
<1>3. HasFields(next) /\ next.nb = l.nb /\ next.cc = l.cc /\ next.state = "IN_NUMBER_EXP"
  BY <1>2 DEF HasFields
<1>4. \/ lex' = next \/ lex' = [next EXCEPT !.exp_minus = TRUE]
      \/ lex' = [next EXCEPT !.exp_value = Digit(b), !.exp_not_empty = TRUE]
      \/ lex' = [l EXCEPT !.exp_value = 10 * @ + Digit(b), !.exp_not_empty = TRUE]
      \/ lex' = AfterExp(l)
  <2>1. CASE InNumberExpSign(l, b) BY <1>2, <2>1 DEF InNumberExpSign, Proceed, Fail
  <2>2. CASE InNumberExp(l, b) BY <2>2 DEF InNumberExp, Proceed, Fail
  <2> QED BY <2>1, <2>2
<1>5. CASE lex' = AfterExp(l) BY <1>5, AfterNumberKeeps
<1> QED BY <1>1, <1>3, <1>4, <1>5 DEF Keeps, HasFields

(* A byte that is no continuation byte comes only where none is missing, or*)
(* where the masks let every byte through; no corner case is pending then. *)
LEMMA InStringTracks ==
  ASSUME VALIDATE_UTF8, NEW l, NEW b \in Byte, Good(l), l.cc # 0 => Corner(l),
         InString(l, b), err' = "OK"
  PROVE  Tracks(lex', b)
<1>0. l \in LexerType /\ l.nb \in 0..3 /\ l.cc \in 0..3 BY DEF Good, LexerType
<1>1. PICK c : c = Continue(l) OBVIOUS
<1>2. c \in LexerType /\ c.state = "IN_STRING" /\ Good(c)
  BY <1>1, ContinueLemma DEF Good, InString
<1>3. c.cc = 0
  <2>1. CASE l.nb = 0 BY <1>0, <1>1, <2>1 DEF Continue, Corner
  <2>2. CASE l.nb # 0 BY <1>0, <1>1, <2>2 DEF Continue, Corner, LexerType
  <2> QED BY <2>1, <2>2
<1>4. CASE b < 192
  <2>1. \/ lex' = c
        \/ \E t \in {"IN_STRING_ESCAPE", "LOOKUP_TOKEN"} : lex' = [c EXCEPT !.state = t]
    BY <1>1, <1>4 DEF InString, Proceed, Fail
  <2>2. HasFields(c) BY <1>2 DEF LexerType, HasFields
  <2>3. lex'.nb = c.nb /\ lex'.cc = c.cc BY <2>1, <2>2 DEF HasFields
  <2> QED BY <1>3, <1>4, <2>3 DEF Tracks, CornerLeads
<1>5. CASE ~(b < 192)
  <2>1. lex' = Lead(c, b)
    BY <1>1, <1>5 DEF InString, Proceed, Fail, BACKSLASH, QUOTE
  <2>2. CASE b <= 223
    <3>1. lex'.nb = 1 /\ lex'.cc = 0
      <4>1. HasFields(c) BY <1>2 DEF HasFields, LexerType
      <4>2. lex' = [c EXCEPT !.nb = 1] BY <2>1, <2>2 DEF Lead
      <4> QED BY <1>3, <4>1, <4>2 DEF HasFields
    <3> QED BY <2>2, <3>1 DEF Tracks, CornerLeads
  <2>3. CASE b \in 224..239
    <3>1. lex'.nb = 2 /\ lex'.cc = IF b = 224 THEN 1 ELSE 0
      <4>1. HasFields(c) BY <1>2 DEF HasFields, LexerType
      <4>2. PICK y : y = IF b = 224 THEN 1 ELSE 0 OBVIOUS
      <4>3. ~(b <= 223) BY <2>3
      <4>4. lex' = [c EXCEPT !.nb = 2, !.cc = y] BY <1>3, <2>1, <2>3, <4>2, <4>3 DEF Lead
      <4> QED BY <4>1, <4>2, <4>4 DEF HasFields
    <3> QED BY <2>3, <3>1 DEF Tracks, CornerLeads, Corner, CornerOf
  <2>4. CASE b > 239
    <3>1. lex'.nb = 3 /\ lex'.cc = IF b = 240 THEN 2 ELSE IF b = 244 THEN 3 ELSE 0
      <4>1. ~(b <= 223) /\ b \notin 224..239 BY <2>4 DEF Byte
      <4>2. HasFields(c) BY <1>2 DEF HasFields, LexerType
      <4>3. PICK y : y = IF b = 240 THEN 2 ELSE IF b = 244 THEN 3 ELSE 0 OBVIOUS
      <4>4. lex' = [c EXCEPT !.nb = 3, !.cc = y] BY <1>3, <2>1, <4>1, <4>3 DEF Lead
      <4> QED BY <4>2, <4>3, <4>4 DEF HasFields
    <3> QED BY <2>4, <3>1 DEF Tracks, CornerLeads, Corner, CornerOf
  <2> QED BY <2>2, <2>3, <2>4 DEF Byte
<1> QED BY <1>4, <1>5 DEF Byte

(* Right after a lead byte with a corner case the masks let through only   *)
(* what RFC 3629 does.                                                     *)
LEMMA InStringEnforces ==
  ASSUME VALIDATE_UTF8, NEW l, NEW b, InString(l, b),
         NEW lead \in CornerLeads, <<l.nb, l.cc>> = CornerOf(lead), b \notin SecondByte(lead)
  PROVE  err' = "BAD_UTF8"
<1>1. l.nb # 0 /\ Corner(l) BY DEF CornerOf, Corner, CornerLeads
<1>2. b \notin Continuations(l)
  <2>1. CASE lead = 224 /\ l.nb = 2 /\ l.cc = 1
    BY <1>1, <2>1 DEF SecondByte, Continuations
  <2>2. CASE lead = 240 /\ l.nb = 3 /\ l.cc = 2
    BY <1>1, <2>2 DEF SecondByte, Continuations
  <2>3. CASE lead = 244 /\ l.nb = 3 /\ l.cc = 3
    BY <1>1, <2>3 DEF SecondByte, Continuations
  <2> QED BY <2>1, <2>2, <2>3 DEF CornerOf, CornerLeads
<1> QED BY <1>2 DEF InString, Fail

LEMMA SniffKeepsUtf8 ==
  ASSUME NEW l \in LexerType, NEW b
  PROVE  Sniff(l, b).nb = l.nb /\ Sniff(l, b).cc = l.cc
  BY DEF Sniff, LexerType

EnforcesCornerCase == AfterCornerLead /\ data' \notin SecondByte(data) => err' # "OK"

LEMMA IterateTracks ==
  ASSUME IInv, CornerInv, NEW b \in Alphabet, Iterate(b)
  PROVE  CornerInv' /\ EnforcesCornerCase
<1> DEFINE l == Sniff(lex, b)
<1>0. b \in Byte BY LexerAssumption DEF Byte
<1>1. Good(l) /\ l.state = lex.state /\ l.nb = lex.nb /\ l.cc = lex.cc
  BY <1>0, SniffLemma, SniffKeepsUtf8 DEF IInv, Good
<1>2. /\ err = "OK" /\ pushing /\ pushing' = (err' = "OK") /\ data' = b
      /\ left' < left => ~again
  BY DEF Iterate, Alive, IInv
<1>3. VALIDATE_UTF8 => Tracks(l, data) BY <1>1, <1>2 DEF CornerInv, Current, Tracks, Corner
<1>4. \/ InString(l, b)
      \/ LookupToken(l, b)
      \/ InStringEscape(l, b)
      \/ InStringUnicodeEscape(l, b)
      \/ InNumberSign(l, b)
      \/ InNumber(l, b)
      \/ InNumberFrac(l, b)
      \/ InNumberExpSign(l, b)
      \/ InNumberExp(l, b)
      \/ InBigNumber(l, b)
      \/ InKeyword(l, b)
  BY DEF Iterate
<1> HIDE DEF l
<1>5. ASSUME VALIDATE_UTF8, err' = "OK" PROVE Tracks(lex', b)
  <2>1. l.cc # 0 => Corner(l) BY <1>3, <1>5 DEF Tracks
  <2>2. CASE InString(l, b) BY <1>0, <1>1, <1>5, <2>1, <2>2, InStringTracks
  <2>3. CASE ~InString(l, b)
    <3>1. HasFields(l) BY <1>1 DEF Good, LexerType, HasFields
    <3>2. Keeps(lex', l, b)
      BY <1>4, <1>5, <2>3, <3>1, LookupTokenKeeps, EscapeKeeps, IntegerKeeps, FractionKeeps,
         ExponentKeeps, InKeywordKeeps
    <3> QED BY <2>1, <3>2 DEF Keeps, Tracks, Corner
  <2> QED BY <2>2, <2>3
<1>6. CornerInv' BY <1>2, <1>5 DEF CornerInv, Current
<1>7. ASSUME AfterCornerLead, b \notin SecondByte(data) PROVE err' # "OK"
  <2>1. VALIDATE_UTF8 /\ l.state = "IN_STRING" /\ data \in CornerLeads
    BY <1>1, <1>7 DEF AfterCornerLead, CornerLeads
  <2>2. InString(l, b)
    BY <1>4, <2>1 DEF LookupToken, InStringEscape, InStringUnicodeEscape, InNumberSign, InNumber,
       InNumberFrac, InNumberExpSign, InNumberExp, InBigNumber, InKeyword, KeywordStates
  <2>3. <<l.nb, l.cc>> = CornerOf(data) BY <1>3, <2>1 DEF Tracks
  <2>4. err' = "BAD_UTF8" BY <1>7, <2>1, <2>2, <2>3, InStringEnforces
  <2> QED BY <2>4
<1> QED BY <1>2, <1>6, <1>7 DEF EnforcesCornerCase

LEMMA TracksStep == IInv /\ CornerInv /\ [Next]_vars => CornerInv' /\ [EnforcesCornerCase]_vars
<1> SUFFICES ASSUME IInv, CornerInv, [Next]_vars PROVE CornerInv' /\ [EnforcesCornerCase]_vars
  OBVIOUS
<1>1. ASSUME NEW size \in 0..MaxBuffer, BeginPush(size) PROVE CornerInv' /\ EnforcesCornerCase
  <2>1. left = 0 /\ left' \in Nat
    BY <1>1, LexerAssumption DEF BeginPush, Alive, CornerInv
  <2>2. ~AfterCornerLead BY <2>1 DEF AfterCornerLead
  <2>3. CornerInv' BY <1>1 DEF CornerInv, BeginPush, Alive, Current, Tracks, Corner
  <2> QED BY <2>2, <2>3 DEF EnforcesCornerCase
<1>2. ASSUME NEW b \in Alphabet, Iterate(b) PROVE CornerInv' /\ EnforcesCornerCase
  BY <1>2, IterateTracks
<1>3. ASSUME EndPush \/ Finalize PROVE CornerInv' /\ EnforcesCornerCase
  <2>1. left' = left /\ left \in Nat /\ data' = data BY <1>3 DEF EndPush, Finalize, IInv
  <2>2. ~AfterCornerLead BY <2>1 DEF AfterCornerLead
  <2>3. ~pushing' /\ (pushing => left = 0) BY <1>3 DEF EndPush, Finalize
  <2>4. err = "OK" /\ (err' = "OK" => lexer' = Current)
    BY <1>3 DEF EndPush, Finalize, Alive, Current
  <2>5. CornerInv' BY <2>1, <2>3, <2>4 DEF CornerInv, Current, Tracks, Corner
  <2> QED BY <2>2, <2>5 DEF EnforcesCornerCase
<1>4. CASE UNCHANGED vars
  BY <1>4 DEF vars, CornerInv, Current, Tracks, Corner
<1> QED BY <1>1, <1>2, <1>3, <1>4 DEF Next, Stopped

(* Overlong forms and code points beyond U+10FFFF that the second byte of  *)
(* a character gives away are refused, in whatever buffers the two bytes   *)
(* come and whatever was read before them.                                 *)
THEOREM CornerCasesAreEnforced == Spec => CornerCasesEnforced
<1>1. Init => CornerInv
  BY DEF Init, CornerInv, Current, Tracks, ZeroedLexer, CornerLeads
<1>2. IInv /\ CornerInv /\ [Next]_vars => CornerInv' /\ [EnforcesCornerCase]_vars BY TracksStep
<1> QED BY <1>1, <1>2, LexerInvariant, PTL DEF Spec, CornerCasesEnforced, EnforcesCornerCase

(***************************************************************************)
(* The loop.  Only a byte that ended a number is looked at again, and no   *)
(* number is open then.                                                    *)
(***************************************************************************)
LooksAgain == err = "OK" /\ again => pushing /\ lex.state = "LOOKUP_TOKEN"

LEMMA AgainAfterNumbers ==
  ASSUME IInv, LooksAgain, NEW b \in Alphabet, Iterate(b), err' = "OK"
  PROVE  /\ again' => ~again /\ lex'.state = "LOOKUP_TOKEN"
         /\ WorkLeft' < WorkLeft
<1>1. PICK l : l = Sniff(lex, b) OBVIOUS
<1>2. b \in Byte BY LexerAssumption DEF Byte
<1>3. Good(l) /\ l.state = lex.state BY <1>1, <1>2, SniffLemma DEF IInv
<1>4. err = "OK" /\ again \in BOOLEAN /\ left \in Nat BY DEF Iterate, Alive, IInv
<1>5. PICK n : n = AfterExp(l) OBVIOUS
<1>6. /\ n.state = "LOOKUP_TOKEN"
      /\ l.state = "IN_NUMBER" => AfterInt(l) = n
      /\ l.state = "IN_NUMBER_FRAC" => AfterFrac(l) = n
  BY <1>3, <1>5, AfterLemma
<1>7. \/ ~again'
      \/ l.state \in NumberStates /\ again' /\ lex' = n
  <2>1. CASE LookupToken(l, b) \/ InString(l, b) \/ InStringEscape(l, b)
    BY <2>1 DEF LookupToken, InString, InStringEscape, Proceed, Fail
  <2>2. CASE InStringUnicodeEscape(l, b) BY <2>2 DEF InStringUnicodeEscape, Proceed, Fail
  <2>3. CASE InKeyword(l, b)
    <3>1. KeywordError[l.state] # "OK" BY <2>3 DEF InKeyword, KeywordError, KeywordStates
    <3> QED BY <2>3, <3>1 DEF InKeyword, Proceed, Fail
  <2>4. CASE InNumberSign(l, b) BY <2>4 DEF InNumberSign, Proceed, Fail
  <2>5. CASE InNumber(l, b) BY <1>6, <2>5 DEF InNumber, Proceed, Fail, NumberStates
  <2>6. CASE InNumberFrac(l, b) BY <1>6, <2>6 DEF InNumberFrac, Proceed, Fail, NumberStates
  <2>7. CASE InNumberExpSign(l, b) BY <2>7 DEF InNumberExpSign, Proceed, Fail
  <2>8. CASE InNumberExp(l, b) BY <1>5, <2>8 DEF InNumberExp, Proceed, Fail, NumberStates
  <2>9. CASE InBigNumber(l, b) BY <1>5, <2>9 DEF InBigNumber, Proceed, NumberStates
  <2> QED BY <1>1, <2>1, <2>2, <2>3, <2>4, <2>5, <2>6, <2>7, <2>8, <2>9, Zenon DEF Iterate
<1>8. again' => ~again /\ lex'.state = "LOOKUP_TOKEN"
  BY <1>3, <1>4, <1>6, <1>7, NumberStateNames DEF LooksAgain
<1>9. WorkLeft' < WorkLeft
  <2>1. CASE again
    <3>1. left' = left /\ ~again' BY <1>8, <2>1 DEF Iterate
    <3> QED BY <1>4, <2>1, <3>1 DEF WorkLeft
  <2>2. CASE ~again
    <3>1. left' = left - 1 BY <2>2 DEF Iterate
    <3> QED BY <1>4, <2>2, <3>1 DEF WorkLeft
  <2> QED BY <2>1, <2>2
<1> QED BY <1>8, <1>9

(* data-- cannot make the loop of embedjson_lexer_push run for ever, in no *)
(* build and for no buffer: each iteration ends the push or leaves less    *)
(* work, so there are at most two of them for each byte.                   *)
THEOREM LoopsAreBounded == Spec => LoopMakesProgress
<1>1. Init => LooksAgain BY DEF Init, LooksAgain
<1>2. IInv /\ LooksAgain /\ [Next]_vars =>
        /\ LooksAgain'
        /\ [(\E b \in Alphabet : Iterate(b)) => ~pushing' \/ WorkLeft' < WorkLeft]_vars
  <2> SUFFICES ASSUME IInv, LooksAgain, [Next]_vars
               PROVE  /\ LooksAgain'
                      /\ (\E b \in Alphabet : Iterate(b)) => ~pushing' \/ WorkLeft' < WorkLeft
    OBVIOUS
  <2>1. ASSUME NEW b \in Alphabet, Iterate(b)
        PROVE  LooksAgain' /\ (~pushing' \/ WorkLeft' < WorkLeft)
    <3>1. pushing' = (err' = "OK") BY <2>1 DEF Iterate
    <3> QED BY <2>1, <3>1, AgainAfterNumbers DEF LooksAgain
  <2>2. ASSUME NEW size \in 0..MaxBuffer, BeginPush(size) PROVE LooksAgain'
    BY <2>2 DEF BeginPush, Alive, LooksAgain
  <2>3. ASSUME EndPush PROVE LooksAgain' BY <2>3 DEF EndPush, LooksAgain
  <2>4. ASSUME Finalize PROVE LooksAgain' BY <2>4 DEF Finalize, Alive, LooksAgain
  <2>5. ASSUME UNCHANGED vars PROVE LooksAgain' BY <2>5 DEF vars, LooksAgain
  <2> QED BY <2>1, <2>2, <2>3, <2>4, <2>5 DEF Next, Stopped
<1> QED BY <1>1, <1>2, LexerInvariant, PTL DEF Spec, LoopMakesProgress
==============================================================================
