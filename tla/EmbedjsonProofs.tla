--------------------------- MODULE EmbedjsonProofs ----------------------------
(***************************************************************************)
(* Lexer and parser together, in every build: the lexer calls the parser   *)
(* as the parser assumes.                                                  *)
(***************************************************************************)
EXTENDS Embedjson, SequenceTheorems, TLAPS

(***************************************************************************)
(* The inductive invariant                                                 *)
(***************************************************************************)
(* The call c may be made inside from and leaves the lexer inside to.      *)
Takes(c, from, to) ==
  \/ c.call = "token" /\ c.tok \in P!Tokens /\ from = "none" /\ to = "none"
  \/ c.call \in {"tokeni", "tokenf"} /\ from = "none" /\ to = "none"
  \/ c.call = "tokenc_begin" /\ from = "none" /\ to = "string"
  \/ c.call = "tokenc" /\ from = "string" /\ to = "string"
  \/ c.call = "tokenc_end" /\ from = "string" /\ to = "none"
  \/ c.call = "tokenbn_begin" /\ from = "none" /\ to = "bignum"
  \/ c.call = "tokenbn" /\ from = "bignum" /\ to = "bignum"
  \/ c.call = "tokenbn_end" /\ from = "bignum" /\ to = "none"

(* No iteration makes more than two calls.                                 *)
Follows(seq, from, to) ==
  \/ seq = <<>> /\ from = to
  \/ \E c : seq = <<c>> /\ Takes(c, from, to)
  \/ \E c, d, via : seq = <<c, d>> /\ Takes(c, from, via) /\ Takes(d, via, to)

(* The lexeme the lexer is in once the calls it owes are made.             *)
Destination == IF scanned THEN "none" ELSE Lexeme((IF pushing THEN lex ELSE lexer).state)

IInv ==
  /\ "state" \in DOMAIN lexer /\ "state" \in DOMAIN lex /\ "state" \in DOMAIN saved
  /\ err = "OK" => Follows(calls, lexing, Destination)

LEMMA NoCalls ==
  ASSUME NEW from, NEW to
  PROVE  Follows(<<>>, from, to) <=> from = to
  BY DEF Follows

LEMMA OneCall ==
  ASSUME NEW c, NEW from, NEW to, Takes(c, from, to)
  PROVE  Follows(<<c>>, from, to)
  BY DEF Follows

LEMMA TwoCalls ==
  ASSUME NEW c, NEW d, NEW from, NEW via, NEW to, Takes(c, from, via), Takes(d, via, to)
  PROVE  Follows(<<c, d>>, from, to)
  BY DEF Follows

(* The first of the calls is made, the others still follow.                *)
LEMMA NextCall ==
  ASSUME NEW seq, NEW from, NEW to, Follows(seq, from, to), seq # <<>>
  PROVE  \E via : Takes(Head(seq), from, via) /\ Follows(Tail(seq), via, to)
<1>1. CASE \E c : seq = <<c>> /\ Takes(c, from, to)
  <2>1. PICK c : seq = <<c>> /\ Takes(c, from, to) BY <1>1
  <2>2. Head(seq) = c /\ Tail(seq) = <<>> BY <2>1
  <2> QED BY <2>1, <2>2, NoCalls
<1>2. CASE \E c, d, via : seq = <<c, d>> /\ Takes(c, from, via) /\ Takes(d, via, to)
  <2>1. PICK c, d, via : seq = <<c, d>> /\ Takes(c, from, via) /\ Takes(d, via, to)
    BY <1>2
  <2>2. Head(seq) = c /\ Tail(seq) = <<d>> BY <2>1
  <2> QED BY <2>1, <2>2, OneCall
<1> QED BY <1>1, <1>2 DEF Follows

(* Every token function has one place it may be called in.                 *)
LEMMA Protocol ==
  ASSUME NEW c, NEW from, NEW to, Takes(c, from, to)
  PROVE  /\ c.call \in InsideString <=> from = "string"
         /\ c.call \in InsideBignum <=> from = "bignum"
  BY DEF Takes, InsideString, InsideBignum

LEMMA ProtocolFollows == IInv => LexerKeepsProtocol
<1> SUFFICES ASSUME IInv, err = "OK" PROVE LexerKeepsProtocol
  BY DEF LexerKeepsProtocol
<1>1. Follows(calls, lexing, Destination) BY DEF IInv
<1>2. CASE calls = <<>> BY <1>1, <1>2, NoCalls DEF LexerKeepsProtocol, Destination
<1>3. CASE calls # <<>>
  <2>1. PICK via : Takes(Head(calls), lexing, via) BY <1>1, <1>3, NextCall
  <2> QED BY <1>3, <2>1, Protocol DEF LexerKeepsProtocol
<1> QED BY <1>2, <1>3

(***************************************************************************)
(* The cases of the switch                                                 *)
(***************************************************************************)
(* An iteration goes from the lexeme it finds to the one it leaves.        *)
Delivers ==
  /\ "state" \in DOMAIN lex'
  /\ err' = "OK" => Follows(calls', Lexeme(lex.state), Lexeme(lex'.state))
  /\ err' = "OK" \/ err' \notin P!ErrorCodes

LEMMA ProceedDelivers ==
  ASSUME NEW seq, NEW n, NEW c, NEW redo,
         L!Proceed(seq, n, c, redo), err' # "CALLBACK",
         "state" \in DOMAIN n, Follows(seq, Lexeme(lex.state), Lexeme(n.state))
  PROVE  Delivers
  BY DEF L!Proceed, L!Make, Delivers

LEMMA FailDelivers ==
  ASSUME NEW code, code \notin P!ErrorCodes, L!Fail(code), "state" \in DOMAIN lex
  PROVE  Delivers
  BY DEF L!Fail, Delivers, P!ErrorCodes, P!SyntaxErrors

(* The iteration makes no call and stays in its lexeme.                    *)
LEMMA QuietDelivers ==
  ASSUME NEW n, NEW c, L!Proceed(<<>>, n, c, FALSE), err' # "CALLBACK",
         "state" \in DOMAIN n, Lexeme(lex.state) = Lexeme(n.state)
  PROVE  Delivers
  BY ProceedDelivers, NoCalls

LEMMA OneCallDelivers ==
  ASSUME NEW call, NEW n, NEW c, NEW redo, L!Proceed(<<call>>, n, c, redo), err' # "CALLBACK",
         "state" \in DOMAIN n, Takes(call, Lexeme(lex.state), Lexeme(n.state))
  PROVE  Delivers
  BY ProceedDelivers, OneCall

(* l is the copy after the byte is recorded for the encoding guess.        *)
Copy(l) == "state" \in DOMAIN l /\ l.state = lex.state

LEMMA SniffCopy ==
  ASSUME "state" \in DOMAIN lex, NEW b
  PROVE  Copy(L!Sniff(lex, b))
  BY DEF Copy, L!Sniff

LEMMA Lexemes ==
  /\ \A s \in L!StringStates : Lexeme(s) = "string"
  /\ Lexeme("IN_BIG_NUMBER") = "bignum"
  /\ Lexeme("LOOKUP_TOKEN") = "none"
  /\ \A s \in L!KeywordStates : Lexeme(s) = "none"
  /\ \A s \in L!NumberStates \ {"IN_BIG_NUMBER"} : Lexeme(s) = "none"
  BY DEF Lexeme, L!StringStates, L!KeywordStates, L!NumberStates

LEMMA LookupTokenDelivers ==
  ASSUME NEW l, NEW b, Copy(l), "state" \in DOMAIN lex, err' # "CALLBACK", L!LookupToken(l, b)
  PROVE  Delivers
<1>0. /\ "state" \in DOMAIN l /\ l.state = "LOOKUP_TOKEN" /\ lex.state = "LOOKUP_TOKEN"
      /\ Lexeme(lex.state) = "none"
  BY Lexemes DEF Copy, L!LookupToken
<1>1. CASE L!Proceed(<<>>, l, chunk, FALSE) BY <1>0, <1>1, QuietDelivers
<1>2. CASE /\ b \in DOMAIN L!Punctuation
           /\ L!Proceed(<<L!Token(L!Punctuation[b])>>, l, chunk, FALSE)
  <2>0. PICK t \in P!Tokens : t = L!Punctuation[b] BY <1>2 DEF L!Punctuation, P!Tokens
  <2>1. L!Token(t).call = "token" /\ L!Token(t).tok \in P!Tokens BY DEF L!Token
  <2> QED BY <1>0, <1>2, <2>0, <2>1, OneCallDelivers DEF Takes
<1>3. CASE L!Proceed(<<L!TokenCBegin>>, [l EXCEPT !.state = "IN_STRING"], <<>>, FALSE)
  <2>1. PICK n : n = [l EXCEPT !.state = "IN_STRING"] OBVIOUS
  <2>2. "state" \in DOMAIN n /\ Lexeme(n.state) = "string"
    BY <1>0, <2>1, Lexemes DEF L!StringStates
  <2>3. L!TokenCBegin.call = "tokenc_begin" BY DEF L!TokenCBegin
  <2> QED BY <1>0, <1>3, <2>1, <2>2, <2>3, OneCallDelivers DEF Takes
<1>4. CASE /\ b \in DOMAIN L!KeywordOf
           /\ L!Proceed(<<>>, [l EXCEPT !.offset = 1, !.state = L!KeywordOf[b]], chunk, FALSE)
  <2>1. PICK n : n = [l EXCEPT !.offset = 1, !.state = L!KeywordOf[b]] OBVIOUS
  <2>2. L!KeywordOf[b] \in L!KeywordStates BY <1>4 DEF L!KeywordOf, L!KeywordStates
  <2>3. "state" \in DOMAIN n /\ Lexeme(n.state) = "none" BY <1>0, <2>1, <2>2, Lexemes
  <2> QED BY <1>0, <1>4, <2>1, <2>3, QuietDelivers
<1>5. CASE L!Proceed(<<>>, [l EXCEPT !.minus = TRUE, !.state = "IN_NUMBER_SIGN"], chunk, FALSE)
  <2>1. PICK n : n = [l EXCEPT !.minus = TRUE, !.state = "IN_NUMBER_SIGN"] OBVIOUS
  <2>2. "state" \in DOMAIN n /\ Lexeme(n.state) = "none"
    BY <1>0, <2>1, Lexemes DEF L!NumberStates
  <2> QED BY <1>0, <1>5, <2>1, <2>2, QuietDelivers
<1>6. CASE L!Proceed(<<>>, [l EXCEPT !.int_value = L!Digit(b), !.state = "IN_NUMBER"], chunk, FALSE)
  <2>1. PICK n : n = [l EXCEPT !.int_value = L!Digit(b), !.state = "IN_NUMBER"] OBVIOUS
  <2>2. "state" \in DOMAIN n /\ Lexeme(n.state) = "none"
    BY <1>0, <2>1, Lexemes DEF L!NumberStates
  <2> QED BY <1>0, <1>6, <2>1, <2>2, QuietDelivers
<1>7. CASE L!Fail("LEADING_PLUS") \/ L!Fail("UNEXP_SYMBOL") BY <1>7, FailDelivers DEF P!ErrorCodes, P!SyntaxErrors
<1> QED BY <1>1, <1>2, <1>3, <1>4, <1>5, <1>6, <1>7 DEF L!LookupToken

LEMMA InKeywordDelivers ==
  ASSUME NEW l, NEW b, Copy(l), "state" \in DOMAIN lex, err' # "CALLBACK", L!InKeyword(l, b)
  PROVE  Delivers
<1> DEFINE word == L!Keyword[l.state]
           next == [l EXCEPT !.offset = @ + 1]
<1>0. /\ "state" \in DOMAIN l /\ Lexeme(lex.state) = "none" /\ Lexeme(l.state) = "none"
  BY Lexemes DEF Copy, L!InKeyword
<1>1. CASE L!Fail(L!KeywordError[l.state])
  <2>1. L!KeywordError[l.state] \notin P!ErrorCodes
    BY DEF L!InKeyword, L!KeywordError, P!ErrorCodes, P!SyntaxErrors
  <2> QED BY <1>1, <2>1, FailDelivers
<1>2. CASE L!Proceed(<<>>, next, chunk, FALSE)
  <2>1. "state" \in DOMAIN next /\ next.state = l.state BY <1>0
  <2> QED BY <1>0, <1>2, <2>1, QuietDelivers
<1>3. CASE L!Proceed(<<L!Token(L!KeywordToken[l.state])>>,
                     [next EXCEPT !.state = "LOOKUP_TOKEN"], chunk, FALSE)
  <2>1. PICK n : n = [next EXCEPT !.state = "LOOKUP_TOKEN"] OBVIOUS
  <2>2. "state" \in DOMAIN n /\ Lexeme(n.state) = "none" BY <1>0, <2>1, Lexemes
  <2>3. PICK t \in P!Tokens : t = L!KeywordToken[l.state]
    BY DEF L!InKeyword, L!KeywordToken, P!Tokens, P!Literals
  <2>4. L!Token(t).call = "token" /\ L!Token(t).tok \in P!Tokens BY DEF L!Token
  <2> QED BY <1>0, <1>3, <2>1, <2>2, <2>3, <2>4, OneCallDelivers DEF Takes
<1> QED BY <1>1, <1>2, <1>3 DEF L!InKeyword

(* A chunk that is not empty comes before what ends the lexeme.            *)
LEMMA Flushed ==
  ASSUME NEW c, NEW d, NEW from, NEW to,
         Takes(c, from, from), Takes(d, from, to)
  PROVE  /\ Follows(L!Flush(c), from, from)
         /\ Follows(L!Flush(c) \o <<d>>, from, to)
<1>1. CASE chunk = <<>>
  <2>1. L!Flush(c) = <<>> BY <1>1 DEF L!Flush
  <2>2. <<>> \o <<d>> = <<d>> OBVIOUS
  <2> QED BY <2>1, <2>2, NoCalls, OneCall
<1>2. CASE chunk # <<>>
  <2>1. L!Flush(c) = <<c>> BY <1>2 DEF L!Flush
  <2>2. <<c>> \o <<d>> = <<c, d>>
    <3> DEFINE both == <<c>> \o <<d>>
    <3>1. <<c>> \in Seq({c, d}) /\ <<d>> \in Seq({c, d}) /\ <<c, d>> \in Seq({c, d}) OBVIOUS
    <3>2. /\ both \in Seq({c, d}) /\ Len(both) = 2
          /\ \A i \in 1..2 : both[i] = IF i <= 1 THEN <<c>>[i] ELSE <<d>>[i - 1]
      BY <3>1, ConcatProperties
    <3>3. Len(<<c, d>>) = 2 /\ \A i \in 1..2 : both[i] = <<c, d>>[i] BY <3>2
    <3> HIDE DEF both
    <3>4. both = <<c, d>> BY <3>1, <3>2, <3>3, SeqEqual
    <3> QED BY <3>4 DEF both
  <2> QED BY <2>1, <2>2, OneCall, TwoCalls
<1> QED BY <1>1, <1>2

LEMMA ContinueCopy ==
  ASSUME NEW l, Copy(l) PROVE Copy(L!Continue(l))
  BY DEF Copy, L!Continue

LEMMA LeadCopy ==
  ASSUME NEW l, NEW b, Copy(l) PROVE Copy(L!Lead(l, b))
  BY DEF Copy, L!Lead

LEMMA InStringDelivers ==
  ASSUME NEW l, NEW b, Copy(l), "state" \in DOMAIN lex, err' # "CALLBACK", L!InString(l, b)
  PROVE  Delivers
<1>1. PICK c : c = IF VALIDATE_UTF8 THEN L!Continue(l) ELSE l OBVIOUS
<1>2. Copy(c) BY <1>1, ContinueCopy
<1>3. Lexeme(lex.state) = "string" BY Lexemes DEF Copy, L!InString, L!StringStates
<1>4. L!TokenC(chunk).call = "tokenc" /\ L!TokenCEnd.call = "tokenc_end"
  BY DEF L!TokenC, L!TokenCEnd
<1>5. CASE L!Fail("BAD_UTF8") \/ L!Fail("LONG_UTF8") BY <1>5, FailDelivers DEF P!ErrorCodes, P!SyntaxErrors
<1>6. CASE L!Proceed(<<>>, L!Lead(c, b), Append(chunk, b), FALSE)
  <2>1. Copy(L!Lead(c, b)) BY <1>2, LeadCopy
  <2> QED BY <1>6, <2>1, QuietDelivers DEF Copy
<1>7. CASE L!Proceed(L!Flush(L!TokenC(chunk)), [c EXCEPT !.state = "IN_STRING_ESCAPE"], NULL, FALSE)
  <2>1. PICK n : n = [c EXCEPT !.state = "IN_STRING_ESCAPE"] OBVIOUS
  <2>2. "state" \in DOMAIN n /\ Lexeme(n.state) = "string"
    BY <1>2, <2>1, Lexemes DEF Copy, L!StringStates
  <2>3. Follows(L!Flush(L!TokenC(chunk)), "string", "string")
    BY <1>4, Flushed DEF Takes
  <2> QED BY <1>3, <1>7, <2>1, <2>2, <2>3, ProceedDelivers
<1>8. CASE L!Proceed(L!Flush(L!TokenC(chunk)) \o <<L!TokenCEnd>>,
                     [c EXCEPT !.state = "LOOKUP_TOKEN"], NULL, FALSE)
  <2>1. PICK n : n = [c EXCEPT !.state = "LOOKUP_TOKEN"] OBVIOUS
  <2>2. "state" \in DOMAIN n /\ Lexeme(n.state) = "none" BY <1>2, <2>1, Lexemes DEF Copy
  <2>3. Follows(L!Flush(L!TokenC(chunk)) \o <<L!TokenCEnd>>, "string", "none")
    BY <1>4, Flushed DEF Takes
  <2> QED BY <1>3, <1>8, <2>1, <2>2, <2>3, ProceedDelivers
<1>9. CASE L!Proceed(<<>>, c, Append(chunk, b), FALSE)
  BY <1>2, <1>9, QuietDelivers DEF Copy
<1> QED BY <1>1, <1>5, <1>6, <1>7, <1>8, <1>9 DEF L!InString

LEMMA InStringEscapeDelivers ==
  ASSUME NEW l, NEW b, Copy(l), "state" \in DOMAIN lex, err' # "CALLBACK", L!InStringEscape(l, b)
  PROVE  Delivers
<1>0. "state" \in DOMAIN l /\ Lexeme(lex.state) = "string"
  BY Lexemes DEF Copy, L!InStringEscape, L!StringStates
<1>1. CASE L!Proceed(<<L!TokenC(<<L!Escaped[b]>>)>>, [l EXCEPT !.state = "IN_STRING"], <<>>, FALSE)
  <2>1. PICK n : n = [l EXCEPT !.state = "IN_STRING"] OBVIOUS
  <2>2. "state" \in DOMAIN n /\ Lexeme(n.state) = "string"
    BY <1>0, <2>1, Lexemes DEF L!StringStates
  <2>3. L!TokenC(<<L!Escaped[b]>>).call = "tokenc" BY DEF L!TokenC
  <2> QED BY <1>0, <1>1, <2>1, <2>2, <2>3, OneCallDelivers DEF Takes
<1>2. CASE L!Proceed(<<>>, [l EXCEPT !.state = "IN_STRING_UNICODE_ESCAPE", !.offset = 0],
                     chunk, FALSE)
  <2>1. PICK n : n = [l EXCEPT !.state = "IN_STRING_UNICODE_ESCAPE", !.offset = 0] OBVIOUS
  <2>2. "state" \in DOMAIN n /\ Lexeme(n.state) = "string"
    BY <1>0, <2>1, Lexemes DEF L!StringStates
  <2> QED BY <1>0, <1>2, <2>1, <2>2, QuietDelivers
<1>3. CASE L!Fail("BAD_ESCAPE") BY <1>3, FailDelivers DEF P!ErrorCodes, P!SyntaxErrors
<1> QED BY <1>1, <1>2, <1>3 DEF L!InStringEscape

LEMMA InStringUnicodeEscapeDelivers ==
  ASSUME NEW l, NEW b, Copy(l), "state" \in DOMAIN lex, err' # "CALLBACK",
         L!InStringUnicodeEscape(l, b)
  PROVE  Delivers
<1> DEFINE byte == l.offset \div 2 + 1
           half == IF l.offset % 2 = 0 THEN 16 * L!HexValue(b)
                   ELSE l.unicode_cp[byte] + L!HexValue(b)
<1>0. "state" \in DOMAIN l /\ Lexeme(lex.state) = "string" /\ l.state = lex.state
  BY Lexemes DEF Copy, L!InStringUnicodeEscape, L!StringStates
<1>1. PICK next : next = [l EXCEPT !.unicode_cp = [@ EXCEPT ![byte] = half], !.offset = @ + 1]
  OBVIOUS
<1>2. "state" \in DOMAIN next /\ next.state = l.state BY <1>0, <1>1
<1>3. CASE L!Fail("BAD_UNICODE_ESCAPE") BY <1>3, FailDelivers DEF P!ErrorCodes, P!SyntaxErrors
<1>4. CASE L!Proceed(<<>>, next, chunk, FALSE) BY <1>0, <1>2, <1>4, QuietDelivers
<1>5. CASE L!Proceed(<<L!TokenC(next.unicode_cp)>>, [next EXCEPT !.state = "IN_STRING"], <<>>, FALSE)
  <2>1. PICK n : n = [next EXCEPT !.state = "IN_STRING"] OBVIOUS
  <2>2. "state" \in DOMAIN n /\ Lexeme(n.state) = "string"
    BY <1>2, <2>1, Lexemes DEF L!StringStates
  <2>3. L!TokenC(next.unicode_cp).call = "tokenc" BY DEF L!TokenC
  <2> QED BY <1>0, <1>5, <2>1, <2>2, <2>3, OneCallDelivers DEF Takes
<1> QED BY <1>1, <1>3, <1>4, <1>5 DEF L!InStringUnicodeEscape

(***************************************************************************)
(* Numbers                                                                 *)
(***************************************************************************)
(* The fields of a number change, the state to another inside numbers.     *)
LEMMA QuietNumber ==
  ASSUME NEW n, L!Proceed(<<>>, n, chunk, FALSE), err' # "CALLBACK", "state" \in DOMAIN n,
         Lexeme(lex.state) = "none", n.state \in L!NumberStates \ {"IN_BIG_NUMBER"}
  PROVE  Delivers
  BY QuietDelivers, Lexemes

(* Every number ends in LOOKUP_TOKEN.                                      *)
LEMMA AfterNumber ==
  ASSUME NEW l, "state" \in DOMAIN l
  PROVE  \A n \in {L!AfterInt(l), L!AfterFrac(l), L!AfterExp(l)} :
           "state" \in DOMAIN n /\ Lexeme(n.state) = "none"
<1>1. "state" \in DOMAIN L!AfterInt(l) /\ L!AfterInt(l).state = "LOOKUP_TOKEN"
  BY DEF L!AfterInt
<1>2. "state" \in DOMAIN L!AfterFrac(l) /\ L!AfterFrac(l).state = "LOOKUP_TOKEN"
  BY <1>1 DEF L!AfterFrac
<1>3. "state" \in DOMAIN L!AfterExp(l) /\ L!AfterExp(l).state = "LOOKUP_TOKEN"
  BY <1>2 DEF L!AfterExp
<1> QED BY <1>1, <1>2, <1>3, Lexemes

LEMMA NumberCalls ==
  ASSUME NEW l
  PROVE  L!TokenI(l).call = "tokeni" /\ L!TokenF(l).call = "tokenf"
  BY DEF L!TokenI, L!TokenF

LEMMA AppendedDigit ==
  ASSUME NEW l, NEW b, "state" \in DOMAIN l
  PROVE  "state" \in DOMAIN L!AppendDigit(l, b) /\ L!AppendDigit(l, b).state = l.state
  BY DEF L!AppendDigit

LEMMA InNumberSignDelivers ==
  ASSUME NEW l, NEW b, Copy(l), "state" \in DOMAIN lex, err' # "CALLBACK", L!InNumberSign(l, b)
  PROVE  Delivers
<1>0. "state" \in DOMAIN l /\ Lexeme(lex.state) = "none"
  BY Lexemes DEF Copy, L!InNumberSign, L!NumberStates
<1>1. CASE L!Proceed(<<>>, [L!AppendDigit(l, b) EXCEPT !.state = "IN_NUMBER"], chunk, FALSE)
  <2>1. PICK m : m = L!AppendDigit(l, b) OBVIOUS
  <2>2. "state" \in DOMAIN m BY <1>0, <2>1, AppendedDigit
  <2>3. PICK n : n = [m EXCEPT !.state = "IN_NUMBER"] OBVIOUS
  <2>4. "state" \in DOMAIN n /\ n.state \in L!NumberStates \ {"IN_BIG_NUMBER"}
    BY <2>2, <2>3 DEF L!NumberStates
  <2> QED BY <1>0, <1>1, <2>1, <2>3, <2>4, QuietNumber
<1>2. CASE L!Fail("EOF_IN_STRING") BY <1>2, FailDelivers DEF P!ErrorCodes, P!SyntaxErrors
<1> QED BY <1>1, <1>2 DEF L!InNumberSign

LEMMA InNumberDelivers ==
  ASSUME NEW l, NEW b, Copy(l), "state" \in DOMAIN lex, err' # "CALLBACK", L!InNumber(l, b)
  PROVE  Delivers
<1>0. /\ "state" \in DOMAIN l /\ Lexeme(lex.state) = "none"
      /\ l.state \in L!NumberStates \ {"IN_BIG_NUMBER"}
  BY Lexemes DEF Copy, L!InNumber, L!NumberStates
<1>1. CASE L!Fail("LEADING_ZERO") \/ L!Fail("INT_OVERFLOW") \/ L!Fail("TRAP") BY <1>1, FailDelivers DEF P!ErrorCodes, P!SyntaxErrors
<1>2. CASE L!Proceed(<<>>, L!AppendDigit(l, b), chunk, FALSE)
  <2>1. PICK n : n = L!AppendDigit(l, b) OBVIOUS
  <2> QED BY <1>0, <1>2, <2>1, AppendedDigit, QuietNumber
<1>3. CASE L!Proceed(<<L!TokenBnBegin(l.int_value)>>, [l EXCEPT !.state = "IN_BIG_NUMBER"],
                     <<>>, FALSE)
  <2>1. PICK n : n = [l EXCEPT !.state = "IN_BIG_NUMBER"] OBVIOUS
  <2>2. "state" \in DOMAIN n /\ Lexeme(n.state) = "bignum" BY <1>0, <2>1, Lexemes
  <2>3. L!TokenBnBegin(l.int_value).call = "tokenbn_begin" BY DEF L!TokenBnBegin
  <2> QED BY <1>0, <1>3, <2>1, <2>2, <2>3, OneCallDelivers DEF Takes
<1>4. ASSUME NEW s \in {"IN_NUMBER_FRAC", "IN_NUMBER_EXP_SIGN"},
             L!Proceed(<<>>, [l EXCEPT !.state = s], chunk, FALSE)
      PROVE  Delivers
  <2>1. PICK n : n = [l EXCEPT !.state = s] OBVIOUS
  <2>2. "state" \in DOMAIN n /\ n.state \in L!NumberStates \ {"IN_BIG_NUMBER"}
    BY <1>0, <2>1 DEF L!NumberStates
  <2> QED BY <1>0, <1>4, <2>1, <2>2, QuietNumber
<1>5. CASE L!Proceed(<<L!TokenI(l)>>, L!AfterInt(l), chunk, TRUE)
  <2>1. PICK n : n = L!AfterInt(l) OBVIOUS
  <2> QED BY <1>0, <1>5, <2>1, AfterNumber, NumberCalls, OneCallDelivers DEF Takes
<1> QED BY <1>1, <1>2, <1>3, <1>4, <1>5 DEF L!InNumber

LEMMA InNumberFracDelivers ==
  ASSUME NEW l, NEW b, Copy(l), "state" \in DOMAIN lex, err' # "CALLBACK", L!InNumberFrac(l, b)
  PROVE  Delivers
<1>0. /\ "state" \in DOMAIN l /\ Lexeme(lex.state) = "none"
      /\ l.state \in L!NumberStates \ {"IN_BIG_NUMBER"}
  BY Lexemes DEF Copy, L!InNumberFrac, L!NumberStates
<1>1. CASE L!Proceed(<<>>, L!AppendFracDigit(l, b), chunk, FALSE)
  <2>1. PICK n : n = L!AppendFracDigit(l, b) OBVIOUS
  <2>2. "state" \in DOMAIN n /\ n.state = l.state BY <1>0, <2>1 DEF L!AppendFracDigit
  <2> QED BY <1>0, <1>1, <2>1, <2>2, QuietNumber
<1>2. CASE L!Fail("EMPTY_FRAC") BY <1>2, FailDelivers DEF P!ErrorCodes, P!SyntaxErrors
<1>3. CASE L!Proceed(<<>>, [l EXCEPT !.state = "IN_NUMBER_EXP_SIGN"], chunk, FALSE)
  <2>1. PICK n : n = [l EXCEPT !.state = "IN_NUMBER_EXP_SIGN"] OBVIOUS
  <2>2. "state" \in DOMAIN n /\ n.state \in L!NumberStates \ {"IN_BIG_NUMBER"}
    BY <1>0, <2>1 DEF L!NumberStates
  <2> QED BY <1>0, <1>3, <2>1, <2>2, QuietNumber
<1>4. CASE L!Proceed(<<L!TokenF(l)>>, L!AfterFrac(l), chunk, TRUE)
  <2>1. PICK n : n = L!AfterFrac(l) OBVIOUS
  <2> QED BY <1>0, <1>4, <2>1, AfterNumber, NumberCalls, OneCallDelivers DEF Takes
<1> QED BY <1>1, <1>2, <1>3, <1>4 DEF L!InNumberFrac

LEMMA InNumberExpSignDelivers ==
  ASSUME NEW l, NEW b, Copy(l), "state" \in DOMAIN lex, err' # "CALLBACK",
         L!InNumberExpSign(l, b)
  PROVE  Delivers
<1>0. "state" \in DOMAIN l /\ Lexeme(lex.state) = "none"
  BY Lexemes DEF Copy, L!InNumberExpSign, L!NumberStates
<1>1. PICK next : next = [l EXCEPT !.state = "IN_NUMBER_EXP"] OBVIOUS
<1>2. "state" \in DOMAIN next /\ next.state \in L!NumberStates \ {"IN_BIG_NUMBER"}
  BY <1>0, <1>1 DEF L!NumberStates
<1>3. CASE L!Proceed(<<>>, [next EXCEPT !.exp_minus = TRUE], chunk, FALSE)
  <2>1. PICK n : n = [next EXCEPT !.exp_minus = TRUE] OBVIOUS
  <2>2. "state" \in DOMAIN n /\ n.state = next.state BY <1>2, <2>1
  <2> QED BY <1>0, <1>2, <1>3, <2>1, <2>2, QuietNumber
<1>4. CASE L!Proceed(<<>>, next, chunk, FALSE) BY <1>0, <1>2, <1>4, QuietNumber
<1>5. CASE L!Proceed(<<>>, [next EXCEPT !.exp_value = L!Digit(b), !.exp_not_empty = TRUE],
                     chunk, FALSE)
  <2>1. PICK n : n = [next EXCEPT !.exp_value = L!Digit(b), !.exp_not_empty = TRUE] OBVIOUS
  <2>2. "state" \in DOMAIN n /\ n.state = next.state BY <1>2, <2>1
  <2> QED BY <1>0, <1>2, <1>5, <2>1, <2>2, QuietNumber
<1>6. CASE L!Fail("BAD_EXPONENT") BY <1>6, FailDelivers DEF P!ErrorCodes, P!SyntaxErrors
<1> QED BY <1>1, <1>3, <1>4, <1>5, <1>6 DEF L!InNumberExpSign

LEMMA InNumberExpDelivers ==
  ASSUME NEW l, NEW b, Copy(l), "state" \in DOMAIN lex, err' # "CALLBACK", L!InNumberExp(l, b)
  PROVE  Delivers
<1>0. /\ "state" \in DOMAIN l /\ Lexeme(lex.state) = "none"
      /\ l.state \in L!NumberStates \ {"IN_BIG_NUMBER"}
  BY Lexemes DEF Copy, L!InNumberExp, L!NumberStates
<1>1. CASE L!Fail("EXPONENT_OVERFLOW") \/ L!Fail("EMPTY_EXP") BY <1>1, FailDelivers DEF P!ErrorCodes, P!SyntaxErrors
<1>2. CASE L!Proceed(<<>>, [l EXCEPT !.exp_value = 10 * @ + L!Digit(b), !.exp_not_empty = TRUE],
                     chunk, FALSE)
  <2>1. PICK n : n = [l EXCEPT !.exp_value = 10 * @ + L!Digit(b), !.exp_not_empty = TRUE]
    OBVIOUS
  <2>2. "state" \in DOMAIN n /\ n.state = l.state BY <1>0, <2>1
  <2> QED BY <1>0, <1>2, <2>1, <2>2, QuietNumber
<1>3. CASE L!Proceed(<<L!TokenF(l)>>, L!AfterExp(l), chunk, TRUE)
  <2>1. PICK n : n = L!AfterExp(l) OBVIOUS
  <2> QED BY <1>0, <1>3, <2>1, AfterNumber, NumberCalls, OneCallDelivers DEF Takes
<1> QED BY <1>1, <1>2, <1>3 DEF L!InNumberExp

LEMMA InBigNumberDelivers ==
  ASSUME NEW l, NEW b, Copy(l), "state" \in DOMAIN lex, err' # "CALLBACK", L!InBigNumber(l, b)
  PROVE  Delivers
<1>0. /\ "state" \in DOMAIN l /\ l.state = lex.state /\ Lexeme(lex.state) = "bignum"
  BY Lexemes DEF Copy, L!InBigNumber
<1>1. CASE L!Proceed(<<>>, l, Append(chunk, b), FALSE) BY <1>0, <1>1, QuietDelivers
<1>2. CASE L!Proceed(L!Flush(L!TokenBn(chunk)) \o <<L!TokenBnEnd>>, L!AfterExp(l), NULL, TRUE)
  <2>1. PICK n : n = L!AfterExp(l) OBVIOUS
  <2>2. "state" \in DOMAIN n /\ Lexeme(n.state) = "none" BY <1>0, <2>1, AfterNumber
  <2>3. L!TokenBn(chunk).call = "tokenbn" /\ L!TokenBnEnd.call = "tokenbn_end"
    BY DEF L!TokenBn, L!TokenBnEnd
  <2>4. Follows(L!Flush(L!TokenBn(chunk)) \o <<L!TokenBnEnd>>, "bignum", "none")
    BY <2>3, Flushed DEF Takes
  <2> QED BY <1>0, <1>2, <2>1, <2>2, <2>4, ProceedDelivers
<1> QED BY <1>1, <1>2 DEF L!InBigNumber

(***************************************************************************)
(* The steps                                                               *)
(***************************************************************************)
LEMMA IterateDelivers ==
  ASSUME NEW b, "state" \in DOMAIN lex, err' # "CALLBACK", L!Iterate(b)
  PROVE  Delivers
<1>1. PICK l : l = L!Sniff(lex, b) OBVIOUS
<1>2. Copy(l) BY <1>1, SniffCopy
<1>3. \/ L!LookupToken(l, b)
      \/ L!InString(l, b)
      \/ L!InStringEscape(l, b)
      \/ L!InStringUnicodeEscape(l, b)
      \/ L!InNumberSign(l, b)
      \/ L!InNumber(l, b)
      \/ L!InNumberFrac(l, b)
      \/ L!InNumberExpSign(l, b)
      \/ L!InNumberExp(l, b)
      \/ L!InBigNumber(l, b)
      \/ L!InKeyword(l, b)
  BY <1>1 DEF L!Iterate
<1> QED BY <1>2, <1>3, LookupTokenDelivers, InStringDelivers, InStringEscapeDelivers,
           InStringUnicodeEscapeDelivers, InNumberSignDelivers, InNumberDelivers,
           InNumberFracDelivers, InNumberExpSignDelivers, InNumberExpDelivers,
           InBigNumberDelivers, InKeywordDelivers

LEMMA PushStep ==
  ASSUME IInv, NEW size, embedjson_push(size)
  PROVE  IInv'
<1>1. /\ err = "OK" /\ ~scanned /\ ~pushing /\ calls = <<>>
      /\ pushing' = TRUE /\ lex' = lexer /\ lexer' = lexer /\ scanned' = scanned
      /\ saved' = lexer
      /\ calls' = <<>> /\ lexing' = lexing
  BY DEF embedjson_push, L!BeginPush, L!Alive, Undelivered, parservars
<1>2. lexing = Lexeme(lexer.state) BY <1>1, NoCalls DEF IInv, Destination
<1>3. Destination' = Lexeme(lexer.state) BY <1>1 DEF Destination, Lexeme
<1> QED BY <1>1, <1>2, <1>3, NoCalls DEF IInv

LEMMA ScanStep ==
  ASSUME IInv, NEW b, Scan(b)
  PROVE  IInv'
<1>1. /\ err = "OK" /\ ~scanned /\ pushing /\ calls = <<>>
      /\ pushing' = (err' = "OK") /\ lexer' = lexer /\ scanned' = scanned
      /\ saved' = saved
      /\ lexing' = lexing /\ err' # "CALLBACK"
  BY DEF Scan, L!Iterate, L!Alive, Undelivered, parservars
<1>2. lexing = Lexeme(lex.state) BY <1>1, NoCalls DEF IInv, Destination
<1>3. Delivers BY <1>1, IterateDelivers DEF IInv, Scan
<1>4. err' = "OK" => Destination' = Lexeme(lex'.state) BY <1>1 DEF Destination, Lexeme
<1> QED BY <1>1, <1>2, <1>3, <1>4 DEF IInv, Delivers

LEMMA ReturnStep ==
  ASSUME IInv, Return
  PROVE  IInv'
<1>1. /\ err = "OK" /\ ~scanned /\ pushing /\ calls = <<>>
      /\ L!Make(L!CallsAtBufferEnd(lex)) /\ lexer' = IF err' = "OK" THEN lex ELSE lexer
      /\ pushing' = FALSE /\ lex' = lex /\ scanned' = scanned
      /\ saved' = saved
      /\ lexing' = lexing /\ err' # "CALLBACK"
  BY DEF Return, L!EndPush, L!Alive, Undelivered, parservars
<1>2. lexing = Lexeme(lex.state) BY <1>1, NoCalls DEF IInv, Destination
<1>3. calls' = L!CallsAtBufferEnd(lex) /\ err' = "OK" /\ lexer' = lex BY <1>1 DEF L!Make
<1>4. Destination' = Lexeme(lex.state) BY <1>1, <1>3 DEF Destination, Lexeme
<1>5. Follows(L!CallsAtBufferEnd(lex), Lexeme(lex.state), Lexeme(lex.state))
  <2>1. CASE lex.state = "IN_STRING"
    <3>1. L!TokenC(chunk).call = "tokenc" /\ L!TokenCEnd.call = "tokenc_end"
      BY DEF L!TokenC, L!TokenCEnd
    <3>2. Lexeme(lex.state) = "string" BY <2>1, Lexemes DEF L!StringStates
    <3>3. Follows(L!Flush(L!TokenC(chunk)), "string", "string") BY <3>1, Flushed DEF Takes
    <3> QED BY <2>1, <3>2, <3>3 DEF L!CallsAtBufferEnd
  <2>2. CASE lex.state = "IN_BIG_NUMBER"
    <3>1. L!TokenBn(chunk).call = "tokenbn" /\ L!TokenBnEnd.call = "tokenbn_end"
      BY DEF L!TokenBn, L!TokenBnEnd
    <3>2. Lexeme(lex.state) = "bignum" BY <2>2, Lexemes
    <3>3. Follows(L!Flush(L!TokenBn(chunk)), "bignum", "bignum") BY <3>1, Flushed DEF Takes
    <3> QED BY <2>2, <3>2, <3>3 DEF L!CallsAtBufferEnd
  <2>3. CASE lex.state \notin {"IN_STRING", "IN_BIG_NUMBER"}
    BY <2>3, NoCalls DEF L!CallsAtBufferEnd
  <2> QED BY <2>1, <2>2, <2>3
<1> QED BY <1>1, <1>2, <1>3, <1>4, <1>5 DEF IInv

LEMMA FinalizeStep ==
  ASSUME IInv, embedjson_lexer_finalize
  PROVE  IInv'
<1>1. /\ err = "OK" /\ ~scanned /\ ~pushing /\ calls = <<>>
      /\ scanned' = (err' = "OK") /\ lexer' = lexer /\ lex' = lex /\ saved' = lexer
      /\ lexing' = lexing /\ err' # "CALLBACK"
      /\ IF L!ErrorAtEnd(lexer) # "OK" THEN err' = L!ErrorAtEnd(lexer)
         ELSE L!Make(L!CallsAtEnd(lexer))
  BY DEF embedjson_lexer_finalize, L!Finalize, L!Alive, Undelivered, parservars
<1>2. lexing = Lexeme(lexer.state) BY <1>1, NoCalls DEF IInv, Destination
<1>3. CASE err' = "OK"
  <2>1. L!ErrorAtEnd(lexer) = "OK" /\ calls' = L!CallsAtEnd(lexer) BY <1>1, <1>3 DEF L!Make
  <2>2. lexer.state \notin L!StringStates BY <2>1 DEF L!ErrorAtEnd
  <2>3. Destination' = "none" BY <1>1, <1>3 DEF Destination
  <2>4. Follows(L!CallsAtEnd(lexer), Lexeme(lexer.state), "none")
    <3>1. CASE lexer.state = "IN_NUMBER"
      <4>1. L!CallsAtEnd(lexer) = <<L!TokenI(lexer)>> BY <3>1 DEF L!CallsAtEnd
      <4>2. Lexeme(lexer.state) = "none" BY <3>1, Lexemes DEF L!NumberStates
      <4> QED BY <4>1, <4>2, NumberCalls, OneCall DEF Takes
    <3>2. CASE lexer.state \in {"IN_NUMBER_FRAC", "IN_NUMBER_EXP"}
      <4>1. L!CallsAtEnd(lexer) = <<L!TokenF(lexer)>> BY <3>2 DEF L!CallsAtEnd
      <4>2. Lexeme(lexer.state) = "none" BY <3>2, Lexemes DEF L!NumberStates
      <4> QED BY <4>1, <4>2, NumberCalls, OneCall DEF Takes
    <3>3. CASE lexer.state = "IN_BIG_NUMBER"
      <4>1. L!CallsAtEnd(lexer) = <<L!TokenBnEnd>> BY <3>3 DEF L!CallsAtEnd
      <4>2. Lexeme(lexer.state) = "bignum" BY <3>3, Lexemes
      <4>3. L!TokenBnEnd.call = "tokenbn_end" BY DEF L!TokenBnEnd
      <4> QED BY <4>1, <4>2, <4>3, OneCall DEF Takes
    <3>4. CASE lexer.state \notin {"IN_NUMBER", "IN_NUMBER_FRAC", "IN_NUMBER_EXP", "IN_BIG_NUMBER"}
      BY <2>2, <3>4, NoCalls DEF L!CallsAtEnd, Lexeme
    <3> QED BY <3>1, <3>2, <3>3, <3>4
  <2> QED BY <1>1, <1>2, <2>1, <2>3, <2>4 DEF IInv
<1>4. CASE err' # "OK" BY <1>1, <1>4 DEF IInv
<1> QED BY <1>3, <1>4

(* A token function that returns 0 leaves the parser inside the lexeme the *)
(* lexer is in then.                                                       *)
LEMMA CallTakes ==
  ASSUME NEW c, NEW to, Call(c), err' = "OK", Takes(c, lexing, to)
  PROVE  lexing' = to
<1>1. CASE c.call = "token" /\ P!embedjson_token(c.tok)
  BY <1>1 DEF Takes, P!embedjson_token
<1>2. CASE c.call = "tokeni" /\ P!embedjson_tokeni BY <1>2 DEF Takes, P!embedjson_tokeni
<1>3. CASE c.call = "tokenf" /\ P!embedjson_tokenf BY <1>3 DEF Takes, P!embedjson_tokenf
<1>4. CASE c.call = "tokenc_begin" /\ P!embedjson_tokenc_begin
  BY <1>4 DEF Takes, P!embedjson_tokenc_begin
<1>5. CASE c.call = "tokenc" /\ P!embedjson_tokenc BY <1>5 DEF Takes, P!embedjson_tokenc
<1>6. CASE c.call = "tokenc_end" /\ P!embedjson_tokenc_end
  BY <1>6 DEF Takes, P!embedjson_tokenc_end, P!EndLexeme
<1>7. CASE c.call = "tokenbn_begin" /\ P!embedjson_tokenbn_begin
  BY <1>7 DEF Takes, P!embedjson_tokenbn_begin
<1>8. CASE c.call = "tokenbn" /\ P!embedjson_tokenbn BY <1>8 DEF Takes, P!embedjson_tokenbn
<1>9. CASE c.call = "tokenbn_end" /\ P!embedjson_tokenbn_end
  BY <1>9 DEF Takes, P!embedjson_tokenbn_end, P!EndLexeme
<1> QED BY <1>1, <1>2, <1>3, <1>4, <1>5, <1>6, <1>7, <1>8, <1>9 DEF Call

LEMMA CallRuns ==
  ASSUME NEW c, Call(c)
  PROVE  err = "OK"
  BY DEF Call, P!Running, P!embedjson_token, P!embedjson_tokeni, P!embedjson_tokenf,
         P!embedjson_tokenc_begin, P!embedjson_tokenc, P!embedjson_tokenc_end,
         P!embedjson_tokenbn_begin, P!embedjson_tokenbn, P!embedjson_tokenbn_end
LEMMA RunCallStep ==
  ASSUME IInv, RunCall
  PROVE  IInv'
<1>1. err = "OK" /\ saved' = saved BY CallRuns DEF RunCall
<1>2. PICK via : Takes(Head(calls), lexing, via) /\ Follows(Tail(calls), via, Destination)
  BY <1>1, NextCall DEF IInv, RunCall
<1>3. CASE err' = "OK"
  <2>1. calls' = Tail(calls) /\ UNCHANGED lexervars BY <1>3 DEF RunCall
  <2>2. lexing' = via BY <1>2, <1>3, CallTakes DEF RunCall
  <2>3. Destination' = Destination BY <2>1 DEF Destination, Lexeme, lexervars
  <2> QED BY <1>1, <1>2, <2>1, <2>2, <2>3 DEF IInv, lexervars
<1>4. CASE err' # "OK"
  <2>1. Abort BY <1>4 DEF RunCall
  <2> QED BY <1>1, <1>4, <2>1 DEF IInv, Abort
<1> QED BY <1>3, <1>4

LEMMA FinishStep ==
  ASSUME IInv, embedjson_finalize
  PROVE  IInv'
<1>1. UNCHANGED <<lexervars, calls, saved, lexing>>
  BY DEF embedjson_finalize, P!embedjson_finalize
<1>2. err = "OK" BY DEF embedjson_finalize, P!embedjson_finalize, P!Running
<1>3. Destination' = Destination BY <1>1 DEF Destination, Lexeme, lexervars
<1> QED BY <1>1, <1>2, <1>3 DEF IInv, lexervars

LEMMA InitStep == EInit => IInv
<1> SUFFICES ASSUME EInit PROVE IInv OBVIOUS
<1>1. /\ lexer = L!ZeroedLexer /\ lex = lexer /\ saved = lexer /\ ~pushing /\ ~scanned
      /\ calls = <<>> /\ lexing = "none"
  BY DEF EInit, L!Init, P!Init
<1>2. "state" \in DOMAIN L!ZeroedLexer /\ L!ZeroedLexer.state = "LOOKUP_TOKEN"
  BY DEF L!ZeroedLexer
<1>3. Destination = "none" BY <1>1, <1>2, Lexemes DEF Destination
<1> QED BY <1>1, <1>2, <1>3, NoCalls DEF IInv

LEMMA NextStep == IInv /\ [ENext]_evars => IInv'
<1> SUFFICES ASSUME IInv, [ENext]_evars PROVE IInv' OBVIOUS
<1>1. ASSUME NEW size \in 0..MaxBuffer, embedjson_push(size) PROVE IInv' BY <1>1, PushStep
<1>2. ASSUME NEW b \in Alphabet, Scan(b) PROVE IInv' BY <1>2, ScanStep
<1>3. CASE Return BY <1>3, ReturnStep
<1>4. CASE embedjson_lexer_finalize BY <1>4, FinalizeStep
<1>5. CASE RunCall BY <1>5, RunCallStep
<1>6. CASE embedjson_finalize BY <1>6, FinishStep
<1>7. CASE Over \/ UNCHANGED evars
  <2>1. UNCHANGED evars BY <1>7 DEF Over
  <2>2. Destination' = Destination BY <2>1 DEF Destination, Lexeme, evars, lexervars
  <2> QED BY <2>1, <2>2 DEF IInv, evars, lexervars, parservars
<1> QED BY <1>1, <1>2, <1>3, <1>4, <1>5, <1>6, <1>7 DEF ENext

(* For every input, cut in any way, every build and whatever fails: the    *)
(* lexer calls embedjson_tokenc and embedjson_tokenbn and their ends only  *)
(* inside what it has begun, all other token functions only outside, and   *)
(* lexer and parser agree about the lexeme between the calls.              *)
THEOREM LexerObeysProtocol == ESpec => []LexerKeepsProtocol
<1>1. EInit => IInv BY InitStep
<1>2. IInv /\ [ENext]_evars => IInv' BY NextStep
<1>3. IInv => LexerKeepsProtocol BY ProtocolFollows
<1> QED BY <1>1, <1>2, <1>3, PTL DEF ESpec

(***************************************************************************)
(* Below embedjson_push and embedjson_finalize the parser behaves as       *)
(* Parser does by itself: the lexer is one of the environments it assumes. *)
(***************************************************************************)
RInv == IInv /\ (finalized => scanned)

LEMMA Mapping ==
  /\ err \in P!ErrorCodes => ParserErr = err
  /\ err' \in P!ErrorCodes => ParserErr' = err'
  /\ err' \notin P!ErrorCodes => ParserErr' = "LEXER"
  /\ "OK" \in P!ErrorCodes
  BY DEF ParserErr, P!ErrorCodes, P!SyntaxErrors

(* The lexer goes on, or fails.                                            *)
LEMMA LexerStep ==
  ASSUME UNCHANGED parservars, err = "OK", ~finalized, err' = "OK" \/ err' \notin P!ErrorCodes
  PROVE  [Alone!Next]_(Alone!vars)
<1>1. CASE err' = "OK" BY <1>1, Mapping DEF Alone!vars, parservars
<1>2. CASE err' \notin P!ErrorCodes
  <2>1. Alone!LexerError BY <1>2, Mapping DEF Alone!LexerError, Alone!Running, parservars
  <2> QED BY <2>1 DEF Alone!Next
<1> QED BY <1>1, <1>2

(***************************************************************************)
(* A token function of P is one of Alone                                   *)
(***************************************************************************)
LEMMA CallErrors ==
  ASSUME NEW c, Call(c)
  PROVE  err' \in P!ErrorCodes
<1>1. CASE P!embedjson_token(c.tok)
  BY <1>1 DEF P!embedjson_token, P!OpenBracket, P!CloseBracket, P!Separator, P!Literal,
     P!RefuseToken, P!StackPushFails, P!Callback, P!embedjson_error_ex, P!TokenError,
     P!SelfCheck, P!Running, P!ErrorCodes, P!SyntaxErrors
<1>2. CASE P!embedjson_tokeni \/ P!embedjson_tokenf \/ P!embedjson_tokenbn_begin
  BY <1>2 DEF P!embedjson_tokeni, P!embedjson_tokenf, P!embedjson_tokenbn_begin, P!Number,
     P!NumberError, P!Callback, P!embedjson_error_ex, P!SelfCheck, P!ErrorCodes, P!SyntaxErrors
<1>3. CASE P!embedjson_tokenc_begin
  BY <1>3 DEF P!embedjson_tokenc_begin, P!StringError, P!Callback, P!embedjson_error_ex,
     P!SelfCheck, P!ErrorCodes, P!SyntaxErrors
<1>4. CASE P!embedjson_tokenc \/ P!embedjson_tokenbn
  BY <1>4 DEF P!embedjson_tokenc, P!embedjson_tokenbn, P!Callback, P!embedjson_error_ex,
     P!SelfCheck, P!ErrorCodes, P!SyntaxErrors
<1>5. CASE P!embedjson_tokenc_end \/ P!embedjson_tokenbn_end
  BY <1>5 DEF P!embedjson_tokenc_end, P!embedjson_tokenbn_end, P!EndLexeme, P!Callback,
     P!embedjson_error_ex, P!SelfCheck, P!ErrorCodes, P!SyntaxErrors
<1> QED BY <1>1, <1>2, <1>3, <1>4, <1>5 DEF Call

Same == ParserErr = err /\ ParserErr' = err'

LEMMA TokenStep ==
  ASSUME NEW t \in P!Tokens, P!embedjson_token(t), Same
  PROVE  Alone!Next
<1> USE DEF Same
<1>1. ASSUME P!OpenBracket(t) PROVE Alone!OpenBracket(t)
  BY <1>1 DEF P!OpenBracket, Alone!OpenBracket, P!StackPushFails, Alone!StackPushFails,
     P!StackFull, Alone!StackFull, P!Opens, Alone!Opens, P!Bracket, Alone!Bracket,
     P!Callback, Alone!Callback, P!embedjson_error_ex, Alone!embedjson_error_ex,
     P!ValueStates, Alone!ValueStates, P!STACK_VALUE_CURLY, Alone!STACK_VALUE_CURLY,
     P!STACK_VALUE_SQUARE, Alone!STACK_VALUE_SQUARE
<1>2. ASSUME P!CloseBracket(t) PROVE Alone!CloseBracket(t)
  <2>1. P!Bracket(t) = Alone!Bracket(t)
    BY DEF P!Bracket, Alone!Bracket, P!STACK_VALUE_CURLY, Alone!STACK_VALUE_CURLY,
       P!STACK_VALUE_SQUARE, Alone!STACK_VALUE_SQUARE
  <2>2. /\ P!Front(stack) = Alone!Front(stack) /\ P!Last(stack) = Alone!Last(stack)
        /\ \A s : P!Last(s) = Alone!Last(s)
    BY DEF P!Front, Alone!Front, P!Last, Alone!Last
  <2>3. P!States = Alone!States BY DEF P!States, Alone!States
  <2>4. \A s : /\ P!AfterEmptyArray(s) = Alone!AfterEmptyArray(s)
               /\ P!AfterContainer(s) = Alone!AfterContainer(s)
    BY <2>2 DEF P!AfterEmptyArray, Alone!AfterEmptyArray, P!AfterContainer,
       Alone!AfterContainer, P!STACK_VALUE_CURLY, Alone!STACK_VALUE_CURLY
  <2>5. P!AfterPop = Alone!AfterPop BY <2>2, <2>3, <2>4 DEF P!AfterPop, Alone!AfterPop
  <2>6. Alone!Closes(t) BY <1>2 DEF P!CloseBracket, P!Closes, Alone!Closes
  <2> QED BY <1>2, <2>1, <2>2, <2>5, <2>6 DEF P!CloseBracket, Alone!CloseBracket,
             P!Callback, Alone!Callback, P!embedjson_error_ex, Alone!embedjson_error_ex,
             P!STACK_VALUE_CURLY, Alone!STACK_VALUE_CURLY
<1>3. ASSUME P!Separator(t) PROVE Alone!Separator(t)
  BY <1>3 DEF P!Separator, Alone!Separator, P!Separates, Alone!Separates
<1>4. ASSUME P!Literal(t) PROVE Alone!Literal(t)
  BY <1>4 DEF P!Literal, Alone!Literal, P!Callback, Alone!Callback, P!AfterValue,
     Alone!AfterValue, P!ValueStates, Alone!ValueStates, P!Literals, Alone!Literals
<1>5. ASSUME P!RefuseToken(t) PROVE Alone!RefuseToken(t)
  BY <1>5 DEF P!RefuseToken, Alone!RefuseToken, P!Opens, Alone!Opens, P!Closes, Alone!Closes,
     P!Separates, Alone!Separates, P!ValueStates, Alone!ValueStates, P!Literals,
     Alone!Literals, P!embedjson_error_ex, Alone!embedjson_error_ex, P!TokenError,
     Alone!TokenError, P!SelfCheck, Alone!SelfCheck
<1>6. Alone!embedjson_token(t)
  BY <1>1, <1>2, <1>3, <1>4, <1>5 DEF P!embedjson_token, Alone!embedjson_token, P!Running,
     Alone!Running
<1>7. t \in Alone!Tokens BY DEF P!Tokens, Alone!Tokens, P!Literals, Alone!Literals
<1> QED BY <1>6, <1>7 DEF Alone!Next

LEMMA NumberStep ==
  ASSUME NEW callback, P!Number(callback), Same
  PROVE  Alone!Number(callback)
  BY DEF Same, P!Number, Alone!Number, P!ValueStates, Alone!ValueStates, P!AfterValue,
     Alone!AfterValue, P!Callback, Alone!Callback, P!embedjson_error_ex,
     Alone!embedjson_error_ex, P!NumberError, Alone!NumberError, P!SelfCheck, Alone!SelfCheck

LEMMA NumbersStep ==
  ASSUME P!embedjson_tokeni \/ P!embedjson_tokenf \/ P!embedjson_tokenbn_begin, Same
  PROVE  Alone!Next
<1>1. CASE P!embedjson_tokeni
  BY <1>1, NumberStep DEF Same, P!embedjson_tokeni, Alone!embedjson_tokeni, P!Running,
     Alone!Running, Alone!Next
<1>2. CASE P!embedjson_tokenf
  BY <1>2, NumberStep DEF Same, P!embedjson_tokenf, Alone!embedjson_tokenf, P!Running,
     Alone!Running, Alone!Next
<1>3. CASE P!embedjson_tokenbn_begin
  BY <1>3, NumberStep DEF Same, P!embedjson_tokenbn_begin, Alone!embedjson_tokenbn_begin,
     P!Running, Alone!Running, Alone!Next
<1> QED BY <1>1, <1>2, <1>3

LEMMA BeginStep ==
  ASSUME P!embedjson_tokenc_begin, Same
  PROVE  Alone!Next
<1>1. Alone!embedjson_tokenc_begin
  BY DEF Same, P!embedjson_tokenc_begin, Alone!embedjson_tokenc_begin, P!Running,
     Alone!Running, P!ValueStates, Alone!ValueStates, P!Callback, Alone!Callback,
     P!embedjson_error_ex, Alone!embedjson_error_ex, P!StringError, Alone!StringError,
     P!SelfCheck, Alone!SelfCheck
<1> QED BY <1>1 DEF Alone!Next

LEMMA ChunkStep ==
  ASSUME P!embedjson_tokenc \/ P!embedjson_tokenbn, Same
  PROVE  Alone!Next
<1>1. Alone!embedjson_tokenc \/ Alone!embedjson_tokenbn
  BY DEF Same, P!embedjson_tokenc, Alone!embedjson_tokenc, P!embedjson_tokenbn,
     Alone!embedjson_tokenbn, P!Running, Alone!Running, P!Callback, Alone!Callback,
     P!embedjson_error_ex, Alone!embedjson_error_ex, P!SelfCheck, Alone!SelfCheck
<1> QED BY <1>1 DEF Alone!Next

LEMMA EndLexemeStep ==
  ASSUME NEW next, NEW callback, P!EndLexeme(next, callback), Same
  PROVE  Alone!EndLexeme(next, callback)
  BY DEF Same, P!EndLexeme, Alone!EndLexeme, P!Callback, Alone!Callback,
     P!embedjson_error_ex, Alone!embedjson_error_ex, P!SelfCheck, Alone!SelfCheck

LEMMA EndStep ==
  ASSUME P!embedjson_tokenc_end \/ P!embedjson_tokenbn_end, Same
  PROVE  Alone!Next
<1>1. P!StringNextState(state) = Alone!StringNextState(state)
  BY DEF P!StringNextState, Alone!StringNextState, P!States, Alone!States
<1>2. P!BignumNextState(state) = Alone!BignumNextState(state)
  BY DEF P!BignumNextState, Alone!BignumNextState, P!States, Alone!States
<1>3. CASE P!embedjson_tokenc_end
  BY <1>1, <1>3, EndLexemeStep DEF Same, P!embedjson_tokenc_end, Alone!embedjson_tokenc_end,
     P!Running, Alone!Running, Alone!Next
<1>4. CASE P!embedjson_tokenbn_end
  BY <1>2, <1>4, EndLexemeStep DEF Same, P!embedjson_tokenbn_end, Alone!embedjson_tokenbn_end,
     P!Running, Alone!Running, Alone!Next
<1> QED BY <1>3, <1>4

LEMMA CallStep ==
  ASSUME NEW c, NEW from, NEW to, Takes(c, from, to), Call(c)
  PROVE  Alone!Next
<1>1. Same
  <2>1. err = "OK" BY CallRuns
  <2>2. err' \in P!ErrorCodes BY CallErrors
  <2> QED BY <2>1, <2>2, Mapping DEF Same
<1>2. ASSUME c.call = "token", P!embedjson_token(c.tok) PROVE Alone!Next
  <2>1. c.tok \in P!Tokens BY <1>2 DEF Takes
  <2> QED BY <1>1, <1>2, <2>1, TokenStep
<1> QED BY <1>1, <1>2, NumbersStep, BeginStep, ChunkStep, EndStep DEF Call

LEMMA FinishedStep ==
  ASSUME embedjson_finalize
  PROVE  Alone!Next
<1>1. err = "OK" /\ err' \in P!ErrorCodes
  BY DEF embedjson_finalize, P!embedjson_finalize, P!Running, P!ErrorCodes, P!SyntaxErrors
<1>2. Same BY <1>1, Mapping DEF Same
<1>3. Alone!embedjson_finalize
  BY <1>2 DEF Same, embedjson_finalize, P!embedjson_finalize, Alone!embedjson_finalize,
     P!Running, Alone!Running
<1> QED BY <1>3 DEF Alone!Next

(***************************************************************************)
(* The refinement                                                          *)
(***************************************************************************)
LEMMA ErrorsAtEnd ==
  ASSUME NEW l
  PROVE  L!ErrorAtEnd(l) = "OK" \/ L!ErrorAtEnd(l) \notin P!ErrorCodes
  BY DEF L!ErrorAtEnd, P!ErrorCodes, P!SyntaxErrors

LEMMA StepMapped ==
  ASSUME RInv, [ENext]_evars
  PROVE  RInv' /\ [Alone!Next]_(Alone!vars)
<1>0. IInv' BY NextStep DEF RInv
<1>1. ASSUME NEW size \in 0..MaxBuffer, embedjson_push(size)
      PROVE  RInv' /\ [Alone!Next]_(Alone!vars)
  <2>1. UNCHANGED <<parservars, scanned>> /\ err = "OK" /\ ~scanned /\ err' = "OK"
    BY <1>1 DEF embedjson_push, Undelivered, L!BeginPush, L!Alive
  <2>2. ~finalized /\ ~finalized' BY <2>1 DEF RInv, parservars
  <2> QED BY <1>0, <2>1, <2>2, LexerStep DEF RInv
<1>2. ASSUME NEW b \in Alphabet, Scan(b)
      PROVE  RInv' /\ [Alone!Next]_(Alone!vars)
  <2>1. UNCHANGED <<parservars, scanned>> /\ err = "OK" /\ ~scanned /\ err' # "CALLBACK"
    BY <1>2 DEF Scan, Undelivered, L!Iterate, L!Alive
  <2>2. ~finalized /\ ~finalized' BY <2>1 DEF RInv, parservars
  <2>3. err' = "OK" \/ err' \notin P!ErrorCodes
    BY <1>2, <2>1, IterateDelivers DEF RInv, IInv, Scan, Delivers
  <2> QED BY <1>0, <2>1, <2>2, <2>3, LexerStep DEF RInv
<1>3. CASE Return
  <2>1. UNCHANGED <<parservars, scanned>> /\ err = "OK" /\ ~scanned /\ err' = "OK"
    BY <1>3 DEF Return, Undelivered, L!EndPush, L!Make, L!Alive
  <2>2. ~finalized /\ ~finalized' BY <2>1 DEF RInv, parservars
  <2> QED BY <1>0, <2>1, <2>2, LexerStep DEF RInv
<1>4. CASE embedjson_lexer_finalize
  <2>1. /\ UNCHANGED parservars /\ err = "OK" /\ ~scanned
        /\ err' = "OK" \/ err' \notin P!ErrorCodes
    BY <1>4, ErrorsAtEnd
       DEF embedjson_lexer_finalize, Undelivered, L!Finalize, L!Make, L!Alive
  <2>2. ~finalized /\ ~finalized' BY <2>1 DEF RInv, parservars
  <2> QED BY <1>0, <2>1, <2>2, LexerStep DEF RInv
<1>5. CASE RunCall
  <2>1. err = "OK" /\ ~finalized /\ ~finalized'
    BY <1>5 DEF RunCall, Call, P!Running, P!embedjson_token, P!embedjson_tokeni,
       P!embedjson_tokenf, P!embedjson_tokenc_begin, P!embedjson_tokenc,
       P!embedjson_tokenc_end, P!embedjson_tokenbn_begin, P!embedjson_tokenbn,
       P!embedjson_tokenbn_end, P!Number, P!EndLexeme
  <2>2. PICK via : Takes(Head(calls), lexing, via)
    BY <1>5, <2>1, NextCall DEF RInv, IInv, RunCall
  <2>3. Alone!Next BY <1>5, <2>2, CallStep DEF RunCall
  <2> QED BY <1>0, <2>1, <2>3 DEF RInv
<1>6. CASE embedjson_finalize
  <2>1. scanned /\ scanned' = scanned BY <1>6 DEF embedjson_finalize, lexervars
  <2> QED BY <1>0, <1>6, <2>1, FinishedStep DEF RInv
<1>7. CASE Over \/ UNCHANGED evars
  <2>1. UNCHANGED evars BY <1>7 DEF Over
  <2>2. ParserErr' = ParserErr BY <2>1 DEF evars, ParserErr, P!ErrorCodes, P!SyntaxErrors
  <2> QED BY <1>0, <2>1, <2>2 DEF RInv, evars, lexervars, parservars, Alone!vars
<1> QED BY <1>1, <1>2, <1>3, <1>4, <1>5, <1>6, <1>7 DEF ENext

LEMMA InitMapped == EInit => RInv /\ Alone!Init
<1> SUFFICES ASSUME EInit PROVE RInv /\ Alone!Init OBVIOUS
<1>1. err = "OK" /\ ~finalized BY DEF EInit, P!Init
<1>2. ParserErr = "OK" BY <1>1, Mapping
<1>3. Alone!Init BY <1>2 DEF EInit, P!Init, Alone!Init
<1> QED BY <1>1, <1>3, InitStep DEF RInv

(* Below embedjson_push and embedjson_finalize, whatever the input, the    *)
(* buffers and the failures are, the parser does what Parser does by       *)
(* itself: the theorems about Parser are theorems about the whole.         *)
THEOREM EmbedjsonImplementsParser == ESpec => ImplementsParser
<1>1. EInit => RInv /\ Alone!Init BY InitMapped
<1>2. RInv /\ [ENext]_evars => RInv' /\ [Alone!Next]_(Alone!vars) BY StepMapped
<1> QED BY <1>1, <1>2, PTL DEF ESpec, ImplementsParser, Alone!Spec
===============================================================================
