-------------------------- MODULE EmbedjsonTextProofs --------------------------
(***************************************************************************)
(* What the application is told is the input, whatever the input, however  *)
(* it is cut into buffers and whatever fails.                              *)
(***************************************************************************)
EXTENDS EmbedjsonTextLemmas

(***************************************************************************)
(* The cases of the switch that are left: \u escapes and numbers           *)
(***************************************************************************)
LEMMA UnicodeSpells ==
  ASSUME NEW l, NEW b \in 0..255, Fields(l), L!InStringUnicodeEscape(l, b), Iterates,
         compact.hex \in Texts, Half(l), compact'.hex = Append(compact.hex, b)
  PROVE  /\ l.offset \in 0..3 /\ Len(compact.hex) = l.offset
         /\ l.offset < 3 => /\ ~again' /\ calls' = <<>> /\ Rest' = <<>>
                            /\ lex'.state = "IN_STRING_UNICODE_ESCAPE" /\ Half(lex)'
         /\ l.offset = 3 => Spells(CodeUnit(compact.hex, b), "string")
<1> DEFINE h == compact.hex
           half == IF l.offset % 2 = 0 THEN 16 * L!HexValue(b)
                   ELSE l.unicode_cp[l.offset \div 2 + 1] + L!HexValue(b)
           cp == [l.unicode_cp EXCEPT ![l.offset \div 2 + 1] = half]
           next == [l EXCEPT !.unicode_cp = [@ EXCEPT ![l.offset \div 2 + 1] = half],
                             !.offset = @ + 1]
<1>0. /\ l.state = "IN_STRING_UNICODE_ESCAPE" /\ {"state", "offset", "unicode_cp"} \subseteq DOMAIN l
      /\ l.offset \in 0..3 /\ Len(h) = l.offset /\ DOMAIN l.unicode_cp = 1..2
  BY DEF L!InStringUnicodeEscape, Fields, Half
<1>1. /\ next.state = l.state /\ next.offset = l.offset + 1 /\ next.unicode_cp = cp
      /\ DOMAIN next = DOMAIN l
  BY <1>0
<1>2. b \in Int /\ L!HexValue(b) \in Int /\ \A i \in 1..Len(h) : L!HexValue(h[i]) \in Int
  <2>1. \A x \in Int : L!HexValue(x) \in Int BY DEF L!HexValue
  <2>2. b \in Int /\ \A i \in 1..Len(h) : h[i] \in Int BY DEF Texts
  <2> QED BY <2>1, <2>2
<1>3. /\ Len(compact'.hex) = l.offset + 1 /\ compact'.hex[l.offset + 1] = b
      /\ \A i \in 1..l.offset : compact'.hex[i] = h[i]
  BY <1>0, <1>2 DEF Texts
<1>4. \/ L!Proceed(<<>>, next, chunk, FALSE) /\ l.offset < 3
      \/ /\ ~(l.offset < 3)
         /\ L!Proceed(<<L!TokenC(next.unicode_cp)>>, [next EXCEPT !.state = "IN_STRING"], <<>>, FALSE)
  <2>1. CASE L!Fail("BAD_UNICODE_ESCAPE") BY <2>1, FailIsError DEF Iterates
  <2> QED BY <2>1, Zenon DEF L!InStringUnicodeEscape
<1>d. 0 \div 2 = 0 /\ 1 \div 2 = 0 /\ 2 \div 2 = 1 /\ 3 \div 2 = 1
      /\ 0 % 2 = 0 /\ 1 % 2 = 1 /\ 2 % 2 = 0 /\ 3 % 2 = 1
  OBVIOUS
<1>5. ASSUME l.offset < 3, L!Proceed(<<>>, next, chunk, FALSE)
      PROVE  /\ ~again' /\ calls' = <<>> /\ Rest' = <<>>
             /\ lex'.state = "IN_STRING_UNICODE_ESCAPE" /\ Half(lex)'
  <2>1. Done(<<>>, next, chunk, FALSE) BY <1>5, ProceedDone DEF Iterates
  <2>2. /\ lex'.state = l.state /\ lex'.offset = l.offset + 1 /\ lex'.unicode_cp = cp
        /\ calls' = <<>> /\ again' = FALSE
    BY <1>1, <2>1 DEF Done
  <2>3. Half(lex)'
    <3>1. CASE l.offset = 0
      <4>1. cp[1] = 16 * L!HexValue(b) BY <1>0, <1>d, <3>1
      <4> QED BY <1>3, <2>2, <3>1, <4>1 DEF Half
    <3>2. CASE l.offset = 1
      <4>1. cp[1] = 16 * L!HexValue(h[1]) + L!HexValue(b) BY <1>0, <1>d, <3>2 DEF Half
      <4>2. compact'.hex[1] = h[1] /\ compact'.hex[2] = b BY <1>3, <3>2
      <4> QED BY <1>3, <2>2, <3>2, <4>1, <4>2 DEF Half
    <3>3. CASE l.offset = 2
      <4>1. cp[1] = 16 * L!HexValue(h[1]) + L!HexValue(h[2]) /\ cp[2] = 16 * L!HexValue(b)
        BY <1>0, <1>d, <3>3 DEF Half
      <4>2. compact'.hex[1] = h[1] /\ compact'.hex[2] = h[2] /\ compact'.hex[3] = b BY <1>3, <3>3
      <4> QED BY <1>3, <2>2, <3>3, <4>1, <4>2 DEF Half
    <3> QED BY <1>0, <1>5, <3>1, <3>2, <3>3
  <2>4. Rest' = <<>> BY <1>0, <2>2, RestNext
  <2> QED BY <1>0, <2>2, <2>3, <2>4
<1>6. ASSUME l.offset = 3,
             L!Proceed(<<L!TokenC(next.unicode_cp)>>, [next EXCEPT !.state = "IN_STRING"], <<>>, FALSE)
      PROVE  Spells(CodeUnit(h, b), "string")
  <2>1. cp = CodeUnit(h, b)
    <3>1. cp[1] = 16 * L!HexValue(h[1]) + L!HexValue(h[2]) BY <1>0, <1>d, <1>6 DEF Half
    <3>2. cp[2] = 16 * L!HexValue(h[3]) + L!HexValue(b) BY <1>0, <1>d, <1>6 DEF Half
    <3>3. DOMAIN cp = 1..2 /\ cp = [i \in 1..2 |-> cp[i]] BY <1>0
    <3> HIDE DEF cp
    <3>4. cp = <<cp[1], cp[2]>> BY <3>3
    <3> QED BY <3>1, <3>2, <3>4 DEF CodeUnit
  <2>2. PICK t : t = L!TokenC(cp) OBVIOUS
  <2>3. t.call = "tokenc" /\ t.bytes = cp BY <2>2 DEF L!TokenC
  <2>4. Spelled(t) = CodeUnit(h, b) BY <2>1, <2>3, SpelledCases
  <2>5. Done(<<L!TokenC(next.unicode_cp)>>, [next EXCEPT !.state = "IN_STRING"], <<>>, FALSE)
    BY <1>6, ProceedDone DEF Iterates
  <2>6. /\ lex'.state = "IN_STRING" /\ again' = FALSE /\ calls' = <<t>> /\ chunk' = <<>>
    BY <1>0, <1>1, <2>2, <2>5 DEF Done
  <2>7. Rest' = <<>> BY <2>6, RestNext
  <2>8. Spell(calls', Rest') = CodeUnit(h, b) \o <<>> BY <2>4, <2>6, <2>7, SpellCases
  <2>9. CodeUnit(h, b) \in Texts BY <1>0, <1>2, <1>6, SMTT(30) DEF CodeUnit, Texts
  <2>10. CodeUnit(h, b) \o <<>> = CodeUnit(h, b) BY <2>9, Joined
  <2> QED BY <2>6, <2>8, <2>10, ModeCases DEF Spells
<1> HIDE DEF next
<1>7. CASE L!Proceed(<<>>, next, chunk, FALSE) /\ l.offset < 3
  <2>1. ~(l.offset = 3) BY <1>7
  <2> QED BY <1>0, <1>5, <1>7, <2>1
<1>8. CASE /\ ~(l.offset < 3)
           /\ L!Proceed(<<L!TokenC(next.unicode_cp)>>, [next EXCEPT !.state = "IN_STRING"], <<>>, FALSE)
  <2>1. l.offset = 3 BY <1>0, <1>8
  <2> QED BY <1>0, <1>6, <1>8, <2>1
<1> QED BY <1>4, <1>7, <1>8

(* In a number that is not told yet.                                       *)
StaysNumber(b) == /\ b \in NumberBytes /\ calls' = <<>> /\ ~again' /\ lex'.state \in SmallNumberStates
GrowsNumber(b) == /\ b \in NumberBytes /\ ~again' /\ lex'.state = "IN_BIG_NUMBER"
                  /\ \E c : calls' = <<c>> /\ c.call = "tokenbn_begin"
EndsNumber     == /\ again' /\ lex'.state = "LOOKUP_TOKEN"
                  /\ \E c : calls' = <<c>> /\ c.call \in {"tokeni", "tokenf"}

LEMMA Stays ==
  ASSUME NEW b \in NumberBytes, NEW n, n.state \in SmallNumberStates,
         L!Proceed(<<>>, n, chunk, FALSE), Iterates
  PROVE  StaysNumber(b)
<1>1. Done(<<>>, n, chunk, FALSE) BY ProceedDone DEF Iterates
<1> QED BY <1>1 DEF Done, StaysNumber

LEMMA NumberSteps ==
  ASSUME NEW l, NEW b \in 0..255, Fields(l), Iterates,
         \/ L!InNumberSign(l, b) \/ L!InNumber(l, b) \/ L!InNumberFrac(l, b)
         \/ L!InNumberExpSign(l, b) \/ L!InNumberExp(l, b)
  PROVE  StaysNumber(b) \/ GrowsNumber(b) \/ EndsNumber
<1>0. "state" \in DOMAIN l BY DEF Fields
<1>1. (L!DIGITS \cup L!EXPONENT \cup {L!DOT, L!MINUS, L!PLUS}) \subseteq NumberBytes
  BY DEF NumberBytes, L!BigNumberBytes
<1>2. /\ L!TokenI(l).call = "tokeni" /\ L!TokenF(l).call = "tokenf"
      /\ \A n : L!TokenBnBegin(n).call = "tokenbn_begin"
  BY DEF L!TokenI, L!TokenF, L!TokenBnBegin
<1>3. /\ L!AfterInt(l).state = "LOOKUP_TOKEN" /\ L!AfterFrac(l).state = "LOOKUP_TOKEN"
      /\ L!AfterExp(l).state = "LOOKUP_TOKEN"
  BY <1>0 DEF L!AfterInt, L!AfterFrac, L!AfterExp
<1>4. CASE L!InNumberSign(l, b)
  <2>1. b \in L!DIGITS /\ L!Proceed(<<>>, [L!AppendDigit(l, b) EXCEPT !.state = "IN_NUMBER"], chunk, FALSE)
    <3>1. CASE L!Fail("EOF_IN_STRING") BY <3>1, FailIsError DEF Iterates
    <3> QED BY <1>4, <3>1 DEF L!InNumberSign
  <2>2. PICK n : n = [L!AppendDigit(l, b) EXCEPT !.state = "IN_NUMBER"] OBVIOUS
  <2>3. n.state \in SmallNumberStates BY <1>0, <2>2, StateNames DEF L!AppendDigit
  <2>4. L!Proceed(<<>>, n, chunk, FALSE) BY <2>1, <2>2
  <2> QED BY <1>1, <2>1, <2>3, <2>4, Stays
<1>5. CASE L!InNumber(l, b)
  <2>0. l.state = "IN_NUMBER" BY <1>5 DEF L!InNumber
  <2>1. CASE L!Fail("LEADING_ZERO") \/ L!Fail("INT_OVERFLOW") \/ L!Fail("TRAP")
    BY <2>1, FailIsError DEF Iterates
  <2>2. CASE b \in L!DIGITS /\ L!Proceed(<<>>, L!AppendDigit(l, b), chunk, FALSE)
    <3>1. PICK n : n = L!AppendDigit(l, b) OBVIOUS
    <3>2. n.state \in SmallNumberStates BY <1>0, <2>0, <3>1, StateNames DEF L!AppendDigit
    <3>3. L!Proceed(<<>>, n, chunk, FALSE) BY <2>2, <3>1
    <3> QED BY <1>1, <2>2, <3>2, <3>3, Stays
  <2>3. CASE b \in L!DIGITS /\ L!Proceed(<<L!TokenBnBegin(l.int_value)>>,
                                         [l EXCEPT !.state = "IN_BIG_NUMBER"], <<>>, FALSE)
    <3>1. PICK c : c = L!TokenBnBegin(l.int_value) OBVIOUS
    <3>2. c.call = "tokenbn_begin" BY <1>2, <3>1
    <3>3. Done(<<c>>, [l EXCEPT !.state = "IN_BIG_NUMBER"], <<>>, FALSE)
      BY <2>3, <3>1, ProceedDone DEF Iterates
    <3>4. lex'.state = "IN_BIG_NUMBER" /\ calls' = <<c>> /\ again' = FALSE
      BY <1>0, <3>3 DEF Done
    <3> QED BY <1>1, <2>3, <3>2, <3>4 DEF GrowsNumber
  <2>4. CASE b = L!DOT /\ L!Proceed(<<>>, [l EXCEPT !.state = "IN_NUMBER_FRAC"], chunk, FALSE)
    <3>1. PICK n : n = [l EXCEPT !.state = "IN_NUMBER_FRAC"] OBVIOUS
    <3>2. n.state \in SmallNumberStates BY <1>0, <3>1, StateNames
    <3>3. L!Proceed(<<>>, n, chunk, FALSE) BY <2>4, <3>1
    <3> QED BY <1>1, <2>4, <3>2, <3>3, Stays
  <2>5. CASE b \in L!EXPONENT /\ L!Proceed(<<>>, [l EXCEPT !.state = "IN_NUMBER_EXP_SIGN"], chunk, FALSE)
    <3>1. PICK n : n = [l EXCEPT !.state = "IN_NUMBER_EXP_SIGN"] OBVIOUS
    <3>2. n.state \in SmallNumberStates BY <1>0, <3>1, StateNames
    <3>3. L!Proceed(<<>>, n, chunk, FALSE) BY <2>5, <3>1
    <3> QED BY <1>1, <2>5, <3>2, <3>3, Stays
  <2>6. CASE L!Proceed(<<L!TokenI(l)>>, L!AfterInt(l), chunk, TRUE)
    <3>1. PICK c, n, seq : c = L!TokenI(l) /\ n = L!AfterInt(l) /\ seq = <<c>> OBVIOUS
    <3>2. c.call \in {"tokeni", "tokenf"} /\ n.state = "LOOKUP_TOKEN" BY <1>2, <1>3, <3>1
    <3>3. L!Proceed(seq, n, chunk, TRUE) BY <2>6, <3>1
    <3>4. Done(seq, n, chunk, TRUE) BY <3>3, ProceedDone DEF Iterates
    <3>5. EndsNumber BY <3>1, <3>2, <3>4 DEF Done, EndsNumber
    <3> QED BY <3>5
  <2> QED BY <1>5, <2>1, <2>2, <2>3, <2>4, <2>5, <2>6 DEF L!InNumber
<1>6. CASE L!InNumberFrac(l, b)
  <2>0. l.state = "IN_NUMBER_FRAC" BY <1>6 DEF L!InNumberFrac
  <2>1. CASE L!Fail("EMPTY_FRAC") BY <2>1, FailIsError DEF Iterates
  <2>2. CASE b \in L!DIGITS /\ L!Proceed(<<>>, L!AppendFracDigit(l, b), chunk, FALSE)
    <3>1. PICK n : n = L!AppendFracDigit(l, b) OBVIOUS
    <3>2. n.state \in SmallNumberStates BY <1>0, <2>0, <3>1, StateNames DEF L!AppendFracDigit
    <3>3. L!Proceed(<<>>, n, chunk, FALSE) BY <2>2, <3>1, ZenonT(60)
    <3> QED BY <1>1, <2>2, <3>2, <3>3, Stays
  <2>3. CASE b \in L!EXPONENT /\ L!Proceed(<<>>, [l EXCEPT !.state = "IN_NUMBER_EXP_SIGN"], chunk, FALSE)
    <3>1. PICK n : n = [l EXCEPT !.state = "IN_NUMBER_EXP_SIGN"] OBVIOUS
    <3>2. n.state \in SmallNumberStates BY <1>0, <3>1, StateNames
    <3>3. L!Proceed(<<>>, n, chunk, FALSE) BY <2>3, <3>1
    <3> QED BY <1>1, <2>3, <3>2, <3>3, Stays
  <2>4. CASE L!Proceed(<<L!TokenF(l)>>, L!AfterFrac(l), chunk, TRUE)
    <3>1. PICK c, n, seq : c = L!TokenF(l) /\ n = L!AfterFrac(l) /\ seq = <<c>> OBVIOUS
    <3>2. c.call \in {"tokeni", "tokenf"} /\ n.state = "LOOKUP_TOKEN" BY <1>2, <1>3, <3>1
    <3>3. L!Proceed(seq, n, chunk, TRUE) BY <2>4, <3>1
    <3>4. Done(seq, n, chunk, TRUE) BY <3>3, ProceedDone DEF Iterates
    <3>5. EndsNumber BY <3>1, <3>2, <3>4 DEF Done, EndsNumber
    <3> QED BY <3>5
  <2> QED BY <1>6, <2>1, <2>2, <2>3, <2>4 DEF L!InNumberFrac
<1>7. CASE L!InNumberExpSign(l, b)
  <2> DEFINE next == [l EXCEPT !.state = "IN_NUMBER_EXP"]
  <2>1. CASE L!Fail("BAD_EXPONENT") BY <2>1, FailIsError DEF Iterates
  <2>2. ASSUME NEW n, n.state = "IN_NUMBER_EXP", b \in L!DIGITS \cup {L!MINUS, L!PLUS},
               L!Proceed(<<>>, n, chunk, FALSE)
        PROVE  StaysNumber(b)
    BY <1>1, <2>2, Stays, StateNames
  <2>3. /\ next.state = "IN_NUMBER_EXP" /\ [next EXCEPT !.exp_minus = TRUE].state = "IN_NUMBER_EXP"
        /\ [next EXCEPT !.exp_value = L!Digit(b), !.exp_not_empty = TRUE].state = "IN_NUMBER_EXP"
    BY <1>0
  <2>4. CASE b = L!MINUS /\ L!Proceed(<<>>, [next EXCEPT !.exp_minus = TRUE], chunk, FALSE)
    BY <2>2, <2>3, <2>4
  <2>5. CASE b = L!PLUS /\ L!Proceed(<<>>, next, chunk, FALSE)
    BY <2>2, <2>3, <2>5
  <2>6. CASE /\ b \in L!DIGITS
             /\ L!Proceed(<<>>, [next EXCEPT !.exp_value = L!Digit(b), !.exp_not_empty = TRUE],
                          chunk, FALSE)
    BY <2>2, <2>3, <2>6
  <2> QED BY <1>7, <2>1, <2>4, <2>5, <2>6 DEF L!InNumberExpSign
<1>8. CASE L!InNumberExp(l, b)
  <2> DEFINE next == [l EXCEPT !.exp_value = 10 * @ + L!Digit(b), !.exp_not_empty = TRUE]
  <2>0. l.state = "IN_NUMBER_EXP" /\ next.state = l.state BY <1>0, <1>8 DEF L!InNumberExp
  <2>1. CASE L!Fail("EXPONENT_OVERFLOW") \/ L!Fail("EMPTY_EXP") BY <2>1, FailIsError DEF Iterates
  <2>2. CASE b \in L!DIGITS /\ L!Proceed(<<>>, next, chunk, FALSE)
    <3>1. PICK n : n = next OBVIOUS
    <3>2. n.state = "IN_NUMBER_EXP" BY <2>0, <3>1
    <3>3. n.state \in SmallNumberStates BY <3>2, StateNames
    <3> HIDE DEF next
    <3>4. L!Proceed(<<>>, n, chunk, FALSE) BY <2>2, <3>1
    <3> QED BY <1>1, <2>2, <3>3, <3>4, Stays
  <2>3. CASE L!Proceed(<<L!TokenF(l)>>, L!AfterExp(l), chunk, TRUE)
    <3>1. PICK c, n, seq : c = L!TokenF(l) /\ n = L!AfterExp(l) /\ seq = <<c>> OBVIOUS
    <3>2. c.call \in {"tokeni", "tokenf"} /\ n.state = "LOOKUP_TOKEN" BY <1>2, <1>3, <3>1
    <3>3. L!Proceed(seq, n, chunk, TRUE) BY <2>3, <3>1
    <3>4. Done(seq, n, chunk, TRUE) BY <3>3, ProceedDone DEF Iterates
    <3>5. EndsNumber BY <3>1, <3>2, <3>4 DEF Done, EndsNumber
    <3> QED BY <3>5
  <2> QED BY <1>8, <2>1, <2>2, <2>3 DEF L!InNumberExp
<1> QED BY <1>4, <1>5, <1>6, <1>7, <1>8

LEMMA BigNumberSteps ==
  ASSUME NEW l, NEW b \in 0..255, Fields(l), L!InBigNumber(l, b), Iterates
  PROVE  \/ /\ b \in NumberBytes /\ calls' = <<>> /\ ~again' /\ lex'.state = "IN_BIG_NUMBER"
         \/ /\ again' /\ lex'.state = "LOOKUP_TOKEN"
            /\ \A r \in Texts : Spell(calls', r) = r
<1>0. "state" \in DOMAIN l /\ l.state = "IN_BIG_NUMBER" BY DEF Fields, L!InBigNumber
<1>1. CASE b \in L!BigNumberBytes /\ L!Proceed(<<>>, l, Append(chunk, b), FALSE)
  <2>1. Done(<<>>, l, Append(chunk, b), FALSE) BY <1>1, ProceedDone DEF Iterates
  <2> QED BY <1>0, <1>1, <2>1 DEF Done, NumberBytes
<1>2. CASE L!Proceed(L!Flush(L!TokenBn(chunk)) \o <<L!TokenBnEnd>>, L!AfterExp(l), NULL, TRUE)
  <2>1. Done(L!Flush(L!TokenBn(chunk)) \o <<L!TokenBnEnd>>, L!AfterExp(l), NULL, TRUE)
    BY <1>2, ProceedDone DEF Iterates
  <2>2. L!AfterExp(l).state = "LOOKUP_TOKEN"
    BY <1>0 DEF L!AfterInt, L!AfterFrac, L!AfterExp
  <2>3. PICK t, d : t = L!TokenBn(chunk) /\ d = L!TokenBnEnd OBVIOUS
  <2>4. t.call = "tokenbn" /\ d.call = "tokenbn_end" BY <2>3 DEF L!TokenBn, L!TokenBnEnd
  <2>5. Spelled(t) = <<>> /\ Spelled(d) = <<>> BY <2>4, SpelledCases
  <2>6. calls' = <<d>> \/ calls' = <<t, d>>
    <3>1. calls' = L!Flush(t) \o <<d>> BY <2>1, <2>3 DEF Done
    <3>2. CASE chunk = <<>>
      <4>1. calls' = <<>> \o <<d>> BY <3>1, <3>2 DEF L!Flush
      <4> QED BY <4>1
    <3>3. CASE chunk # <<>>
      <4>1. calls' = <<t>> \o <<d>> BY <3>1, <3>3 DEF L!Flush
      <4> QED BY <4>1, PairJoined
    <3> QED BY <3>2, <3>3
  <2>7. ASSUME NEW r \in Texts PROVE Spell(<<d>>, r) = r /\ Spell(<<t, d>>, r) = r
    <3>1. Spell(<<d>>, r) = <<>> \o r BY <2>5, SpellCases
    <3>2. Spell(<<t, d>>, r) = <<>> \o (<<>> \o r)
      <4>1. Spell(<<t, d>>, r) = Spelled(t) \o (Spelled(d) \o r) BY SpellCases
      <4> QED BY <2>5, <4>1
    <3>3. <<>> \o r = r BY Joined
    <3> QED BY <3>1, <3>2, <3>3
  <2> QED BY <2>1, <2>2, <2>6, <2>7 DEF Done
<1> QED BY <1>1, <1>2 DEF L!InBigNumber

(***************************************************************************)
(* What a byte adds to the input without white space                       *)
(***************************************************************************)
LEMMA AddsInString ==
  ASSUME NEW r, NEW b \in 0..255, r.mode = "string"
  PROVE  /\ b = L!BACKSLASH => Adds(r, b) = <<>> /\ Mode(r, b) = "escape"
         /\ b = L!QUOTE => Adds(r, b) = <<b>> /\ Mode(r, b) = "out"
         /\ b \notin {L!BACKSLASH, L!QUOTE} => Adds(r, b) = <<b>> /\ Mode(r, b) = "string"
  BY DEF Adds, Mode, L!BACKSLASH, L!QUOTE

LEMMA AddsInUnicode ==
  ASSUME NEW r, NEW b \in 0..255, r.mode = "unicode"
  PROVE  /\ Len(r.hex) = 3 => Adds(r, b) = CodeUnit(r.hex, b) /\ Mode(r, b) = "string"
         /\ Len(r.hex) # 3 => Adds(r, b) = <<>> /\ Mode(r, b) = "unicode"
  BY DEF Adds, Mode

LEMMA AddsInNumber ==
  ASSUME NEW r, NEW b \in 0..255, r.mode = "number"
  PROVE  /\ b \in NumberBytes => Adds(r, b) = <<>>
         /\ b \notin NumberBytes => Adds(r, b) = First(b)
         /\ Mode(r, b) = ModeAgain(b)
  BY DEF Adds, Mode, GoesOn, ModeAgain, ModeAfter

LEMMA AddsOutside ==
  ASSUME NEW r, NEW b \in 0..255, r.mode = "out"
  PROVE  Adds(r, b) = First(b) /\ Mode(r, b) = ModeAfter(b)
  BY DEF Adds, Mode, GoesOn, ModeAfter

LEMMA AddsText ==
  ASSUME NEW r, NEW b \in 0..255, r.hex \in Texts
  PROVE  Adds(r, b) \in Texts
<1>1. b \in Int /\ <<b>> \in Texts /\ <<>> \in Texts /\ <<NUMBER>> \in Texts
  BY Joined DEF NUMBER
<1>2. First(b) \in Texts BY <1>1 DEF First
<1>3. b \in DOMAIN L!Escaped => <<L!Escaped[b]>> \in Texts
  <2>1. ASSUME b \in DOMAIN L!Escaped PROVE L!Escaped[b] \in Int
    <3>1. b \in {34, 92, 47, 98, 102, 110, 114, 116} BY <2>1 DEF L!Escaped
    <3> QED BY <3>1 DEF L!Escaped
  <2> QED BY <2>1, Joined
<1>4. Len(r.hex) = 3 => CodeUnit(r.hex, b) \in Texts
  <2>1. \A x \in Int : L!HexValue(x) \in Int BY DEF L!HexValue
  <2>2. Len(r.hex) = 3 => r.hex[1] \in Int /\ r.hex[2] \in Int /\ r.hex[3] \in Int BY DEF Texts
  <2>3. ASSUME Len(r.hex) = 3 PROVE CodeUnit(r.hex, b) \in Texts
    <3> DEFINE x == 16 * L!HexValue(r.hex[1]) + L!HexValue(r.hex[2])
               y == 16 * L!HexValue(r.hex[3]) + L!HexValue(b)
    <3>1. x \in Int /\ y \in Int
      <4>1. PICK g, k, m, n \in Int : /\ g = L!HexValue(r.hex[1]) /\ k = L!HexValue(r.hex[2])
                                      /\ m = L!HexValue(r.hex[3]) /\ n = L!HexValue(b)
        BY <1>1, <2>1, <2>2, <2>3
      <4>2. 16 * g + k \in Int /\ 16 * m + n \in Int OBVIOUS
      <4> QED BY <4>1, <4>2
    <3>2. CodeUnit(r.hex, b) = <<x, y>> BY DEF CodeUnit
    <3> HIDE DEF x, y
    <3>3. <<x, y>> \in Seq(Int) BY <3>1
    <3> QED BY <3>2, <3>3 DEF Texts
  <2> QED BY <2>3
<1> HIDE DEF First, CodeUnit, NumberBytes
<1> QED BY <1>1, <1>2, <1>3, <1>4 DEF Adds

(***************************************************************************)
(* The steps of the lexer                                                  *)
(***************************************************************************)
LEMMA AgainCases ==
  ASSUME NEW b \in 0..255
  PROVE  /\ ModeAgain(b) = "number" <=> b \in NumberBytes
         /\ b \notin NumberBytes => ModeAgain(b) = ModeAfter(b)
<1>1. (L!DIGITS \cup {L!MINUS}) \subseteq NumberBytes BY DEF NumberBytes, L!BigNumberBytes
<1> QED BY <1>1 DEF ModeAgain, ModeAfter

(* The byte that ends a number counts for what it begins.                  *)
LEMMA LooksAgain ==
  ASSUME NEW b \in 0..255, Iterates, again', data' = b, compact.mode = "number",
         compact' = Squeeze(compact, b), compact.hex \in Texts
  PROVE  Rest' = Adds(compact, b) /\ compact'.mode = ModeAgain(b) /\ Rest' \in Texts
<1>1. compact'.mode = Mode(compact, b) BY DEF Squeeze
<1>2. /\ Mode(compact, b) = ModeAgain(b)
      /\ b \in NumberBytes => Adds(compact, b) = <<>>
      /\ b \notin NumberBytes => Adds(compact, b) = First(b)
  BY AddsInNumber
<1>3. Rest' = IF compact'.mode = "number" THEN <<>> ELSE First(data')
  BY DEF Rest, Iterates, First
<1> QED BY <1>1, <1>2, <1>3, AgainCases, AddsText

(* What an iteration on a new byte does.                                   *)
Read(b) ==
  /\ Rest \o Adds(compact, b) = Spell(calls', Rest')
  /\ again' => /\ lex'.state = "LOOKUP_TOKEN" /\ compact'.mode = ModeAgain(b)
               /\ lexing # "string"
               /\ lexing = "none" => \E c : calls' = <<c>> /\ c.call \in {"tokeni", "tokenf"}
  /\ ~again' => compact'.mode = ModeOf(lex'.state)
  /\ lex'.state = "IN_STRING_UNICODE_ESCAPE" => Half(lex)'
  /\ lex.state \in SmallNumberStates => StaysNumber(b) \/ GrowsNumber(b) \/ EndsNumber

LEMMA Reads ==
  ASSUME TextInv, err = "OK", ~again, calls = <<>>, pushing, ~scanned, NEW b \in 0..255,
         L!Iterate(b), Iterates, compact' = Squeeze(compact, b), data' = b
  PROVE  Read(b)
<1> DEFINE adds == Adds(compact, b)
           mode == Mode(compact, b)
<1>0. Modes /\ Written /\ Sound BY DEF TextInv
<1>1. PICK l : l = L!Sniff(lex, b) OBVIOUS
<1>2. Fields(l) /\ l.state = lex.state /\ l.offset = lex.offset /\ l.unicode_cp = lex.unicode_cp
  BY <1>0, <1>1, SniffFields, LexerFields
<1>3. compact.mode = ModeOf(l.state) /\ Current = lex
  BY <1>0, <1>2 DEF Modes, Current
<1>4. Rest = RestOf(lex) BY <1>3 DEF Rest
<1>5. lexing = Lexeme(lex.state)
  <2>1. Follows(<<>>, lexing, Destination) BY <1>0 DEF Sound, RInv, IInv
  <2> QED BY <2>1, NoCalls DEF Destination
<1>6. /\ compact'.mode = mode
      /\ compact'.hex = IF compact.mode = "unicode" THEN Append(compact.hex, b) ELSE <<>>
  BY SMTT(30) DEF Squeeze
<1>7. adds \in Texts /\ Rest \in Texts /\ <<>> \o adds = adds /\ Rest \o <<>> = Rest
  BY <1>0, AddsText, TextsTyped, Joined DEF Written
<1> HIDE DEF adds, mode
<1>8. ASSUME Spells(Rest \o adds, mode), lex.state \notin SmallNumberStates
      PROVE  Read(b)
  BY <1>6, <1>8 DEF Spells, Read, adds
<1>9. CASE L!LookupToken(l, b)
  <2>1. l.state = "LOOKUP_TOKEN" BY <1>9 DEF L!LookupToken
  <2>2. compact.mode = "out" /\ Rest = <<>> BY <1>2, <1>3, <1>4, <2>1, ModeCases, RestOfCases
  <2>3. adds = First(b) /\ mode = ModeAfter(b) BY <2>2, AddsOutside DEF adds, mode
  <2>4. Spells(Rest \o adds, mode) BY <1>2, <1>7, <1>9, <2>2, <2>3, LookupSpells
  <2> QED BY <1>2, <1>8, <2>1, <2>4, StateNames
<1>10. CASE L!InKeyword(l, b)
  <2>1. l.state \in L!KeywordStates BY <1>10 DEF L!InKeyword
  <2>2. compact.mode = "out" BY <1>3, <2>1, ModeCases
  <2>3. Rest = SubSeq(L!Keyword[l.state], 1, l.offset) BY <1>2, <1>4, <2>1, RestOfCases
  <2>4. adds = First(b) /\ mode = ModeAfter(b) BY <2>2, AddsOutside DEF adds, mode
  <2>5. /\ Spells(SubSeq(L!Keyword[l.state], 1, l.offset) \o First(b), "out")
        /\ ModeAfter(b) = "out"
    BY <1>2, <1>10, KeywordSpells
  <2>6. Spells(Rest \o adds, mode) BY <2>3, <2>4, <2>5
  <2> QED BY <1>2, <1>8, <2>1, <2>6, StateNames
<1>11. CASE L!InString(l, b)
  <2>1. l.state = "IN_STRING" BY <1>11 DEF L!InString
  <2>2. compact.mode = "string" BY <1>3, <2>1, ModeCases
  <2>3. Rest = chunk /\ chunk \in Texts
    BY <1>0, <1>2, <1>4, <2>1, RestOfCases, LexerFields
  <2>4. /\ b = L!BACKSLASH => adds = <<>> /\ mode = "escape"
        /\ b = L!QUOTE => adds = <<b>> /\ mode = "out"
        /\ b \notin {L!BACKSLASH, L!QUOTE} => adds = <<b>> /\ mode = "string"
    BY <2>2, AddsInString DEF adds, mode
  <2>5. /\ b = L!BACKSLASH => Spells(chunk \o <<>>, "escape")
        /\ b = L!QUOTE => Spells(chunk \o <<b>>, "out")
        /\ b \notin {L!BACKSLASH, L!QUOTE} => Spells(chunk \o <<b>>, "string")
    BY <1>2, <1>11, <2>3, StringSpells
  <2>6. Spells(Rest \o adds, mode) BY <2>3, <2>4, <2>5
  <2> QED BY <1>2, <1>8, <2>1, <2>6, StateNames
<1>12. CASE L!InStringEscape(l, b)
  <2>1. l.state = "IN_STRING_ESCAPE" BY <1>12 DEF L!InStringEscape
  <2>2. compact.mode = "escape" /\ Rest = <<>> BY <1>2, <1>3, <1>4, <2>1, ModeCases, RestOfCases
  <2>3. /\ b \in DOMAIN L!Escaped => adds = <<L!Escaped[b]>>
        /\ b \notin DOMAIN L!Escaped => adds = <<>>
        /\ b = 117 => mode = "unicode"
        /\ b # 117 => mode = "string"
    <3>1. /\ b \in DOMAIN L!Escaped => Adds(compact, b) = <<L!Escaped[b]>>
          /\ b \notin DOMAIN L!Escaped => Adds(compact, b) = <<>>
      BY <2>2 DEF Adds
    <3>2. (b = 117 => Mode(compact, b) = "unicode") /\ (b # 117 => Mode(compact, b) = "string")
      BY <2>2 DEF Mode
    <3> QED BY <3>1, <3>2 DEF adds, mode
  <2>4. 117 \notin DOMAIN L!Escaped BY DEF L!Escaped
  <2>5. CASE b \in DOMAIN L!Escaped /\ Spells(<<L!Escaped[b]>>, "string")
    <3>1. Spells(Rest \o adds, mode) BY <1>7, <2>2, <2>3, <2>4, <2>5
    <3> QED BY <1>2, <1>8, <2>1, <3>1, StateNames
  <2>6. CASE /\ b = 117 /\ ~again' /\ calls' = <<>> /\ Rest' = <<>>
             /\ lex'.state = "IN_STRING_UNICODE_ESCAPE" /\ lex'.offset = 0
    <3>1. adds = <<>> /\ mode = "unicode" BY <2>3, <2>4, <2>6
    <3>2. Half(lex)'
      <4>1. compact'.hex = <<>> BY <1>6, <2>2
      <4> QED BY <2>6, <4>1 DEF Half
    <3>3. Rest \o adds = Spell(calls', Rest') BY <1>7, <2>2, <2>6, <3>1, SpellCases
    <3> QED BY <1>2, <1>6, <2>1, <2>6, <3>1, <3>2, <3>3, ModeCases, StateNames DEF Read, adds
  <2>7. \/ b \in DOMAIN L!Escaped /\ Spells(<<L!Escaped[b]>>, "string")
        \/ /\ b = 117 /\ ~again' /\ calls' = <<>> /\ Rest' = <<>>
           /\ lex'.state = "IN_STRING_UNICODE_ESCAPE" /\ lex'.offset = 0
    BY <1>2, <1>12, EscapeSpells
  <2> QED BY <2>5, <2>6, <2>7
<1>13. CASE L!InStringUnicodeEscape(l, b)
  <2>1. l.state = "IN_STRING_UNICODE_ESCAPE" BY <1>13 DEF L!InStringUnicodeEscape
  <2>2. compact.mode = "unicode" /\ Rest = <<>> BY <1>2, <1>3, <1>4, <2>1, ModeCases, RestOfCases
  <2>3. /\ Len(compact.hex) = 3 => adds = CodeUnit(compact.hex, b) /\ mode = "string"
        /\ Len(compact.hex) # 3 => adds = <<>> /\ mode = "unicode"
    BY <2>2, AddsInUnicode DEF adds, mode
  <2>4. Half(l)
    <3>1. Half(lex) BY <1>0, <1>2, <1>3, <2>1 DEF Modes
    <3> QED BY <1>2, <3>1 DEF Half
  <2>5. compact'.hex = Append(compact.hex, b) BY <1>6, <2>2
  <2>6. /\ l.offset \in 0..3 /\ Len(compact.hex) = l.offset
        /\ l.offset < 3 => /\ ~again' /\ calls' = <<>> /\ Rest' = <<>>
                           /\ lex'.state = "IN_STRING_UNICODE_ESCAPE" /\ Half(lex)'
        /\ l.offset = 3 => Spells(CodeUnit(compact.hex, b), "string")
    BY <1>0, <1>2, <1>13, <2>4, <2>5, UnicodeSpells DEF Written
  <2>7. CASE l.offset = 3
    <3>1. Spells(Rest \o adds, mode) BY <1>7, <2>2, <2>3, <2>6, <2>7
    <3> QED BY <1>2, <1>8, <2>1, <3>1, StateNames
  <2>8. CASE l.offset < 3
    <3>1. adds = <<>> /\ mode = "unicode" BY <2>3, <2>6, <2>8
    <3>2. Rest \o adds = Spell(calls', Rest') BY <1>7, <2>2, <2>6, <2>8, <3>1, SpellCases
    <3> QED BY <1>2, <1>6, <2>1, <2>6, <2>8, <3>1, <3>2, ModeCases, StateNames DEF Read, adds
  <2> QED BY <2>6, <2>7, <2>8
<1>14. CASE \/ L!InNumberSign(l, b) \/ L!InNumber(l, b) \/ L!InNumberFrac(l, b)
            \/ L!InNumberExpSign(l, b) \/ L!InNumberExp(l, b)
  <2>1. l.state \in SmallNumberStates
    BY <1>14, StateNames DEF L!InNumberSign, L!InNumber, L!InNumberFrac, L!InNumberExpSign,
       L!InNumberExp
  <2>2. compact.mode = "number" /\ Rest = <<NUMBER>>
    BY <1>2, <1>3, <1>4, <2>1, ModeCases, RestOfCases, StateNames
  <2>3. (b \in NumberBytes => adds = <<>>) /\ mode = ModeAgain(b)
    BY <2>2, AddsInNumber DEF adds, mode
  <2>4. StaysNumber(b) \/ GrowsNumber(b) \/ EndsNumber BY <1>2, <1>14, NumberSteps
  <2>5. lexing = "none" BY <1>2, <1>5, <2>1, StateNames DEF Lexeme
  <2>6. CASE StaysNumber(b)
    <3>1. Rest' = <<NUMBER>> /\ calls' = <<>> BY <2>6, RestNext DEF StaysNumber
    <3>2. adds = <<>> /\ mode = "number" BY <2>3, <2>6, AgainCases DEF StaysNumber
    <3>3. ModeOf(lex'.state) = "number" /\ lex'.state # "IN_STRING_UNICODE_ESCAPE"
      BY <2>6, ModeCases, StateNames DEF StaysNumber
    <3>4. Rest \o adds = Spell(calls', Rest') BY <1>7, <2>2, <3>1, <3>2, SpellCases
    <3> QED BY <1>6, <2>4, <2>6, <3>2, <3>3, <3>4 DEF Read, StaysNumber, adds
  <2>7. CASE GrowsNumber(b)
    <3>1. PICK c : calls' = <<c>> /\ c.call = "tokenbn_begin" BY <2>7 DEF GrowsNumber
    <3>2. Rest' = <<>> BY <2>7, RestNext DEF GrowsNumber
    <3>3. adds = <<>> /\ mode = "number" BY <2>3, <2>7, AgainCases DEF GrowsNumber
    <3>4. ModeOf(lex'.state) = "number" BY <2>7, ModeCases, StateNames DEF GrowsNumber
    <3>5. Spelled(c) = <<NUMBER>> BY <3>1, SpelledCases DEF NumberStarts
    <3>6. Spell(<<c>>, <<>>) = <<NUMBER>> \o <<>> BY <3>5, SpellCases
    <3>7. Rest \o adds = Spell(calls', Rest') BY <2>2, <3>1, <3>2, <3>3, <3>6
    <3> QED BY <1>6, <2>4, <2>7, <3>3, <3>4, <3>7 DEF Read, GrowsNumber, adds
  <2>8. CASE EndsNumber
    <3>1. PICK c : calls' = <<c>> /\ c.call \in {"tokeni", "tokenf"} BY <2>8, SMTT(30) DEF EndsNumber
    <3>2. Rest' = adds BY <1>0, <2>2, <2>8, LooksAgain DEF EndsNumber, Written, adds
    <3>3. Spelled(c) = <<NUMBER>> BY <3>1, SpelledCases DEF NumberStarts
    <3>4. Spell(<<c>>, adds) = <<NUMBER>> \o adds BY <3>3, SpellCases
    <3>5. Rest \o adds = Spell(calls', Rest') BY <2>2, <3>1, <3>2, <3>4
    <3> QED BY <1>6, <2>3, <2>4, <2>5, <2>8, <3>1, <3>5 DEF Read, EndsNumber, adds
  <2> QED BY <2>4, <2>6, <2>7, <2>8
<1>15. CASE L!InBigNumber(l, b)
  <2>1. l.state = "IN_BIG_NUMBER" BY <1>15 DEF L!InBigNumber
  <2>2. compact.mode = "number" /\ Rest = <<>>
    <3>1. "IN_BIG_NUMBER" \in L!NumberStates BY StateNames
    <3>2. compact.mode = "number" BY <1>3, <2>1, <3>1, ModeCases
    <3>3. Rest = <<>> BY <1>2, <1>4, <2>1, RestOfCases
    <3> QED BY <3>2, <3>3
  <2>3. (b \in NumberBytes => adds = <<>>) /\ mode = ModeAgain(b)
    BY <2>2, AddsInNumber DEF adds, mode
  <2>4. lexing = "bignum" /\ lex.state \notin SmallNumberStates
    BY <1>2, <1>5, <2>1, StateNames DEF Lexeme
  <2>5. CASE b \in NumberBytes /\ calls' = <<>> /\ ~again' /\ lex'.state = "IN_BIG_NUMBER"
    <3>1. Rest' = <<>> BY <2>5, RestNext
    <3>2. adds = <<>> /\ mode = "number" BY <2>3, <2>5, AgainCases
    <3>3. ModeOf(lex'.state) = "number" BY <2>5, ModeCases, StateNames
    <3>4. Rest \o adds = Spell(calls', Rest') BY <1>7, <2>2, <2>5, <3>1, <3>2, SpellCases
    <3> QED BY <1>6, <2>4, <2>5, <3>2, <3>3, <3>4 DEF Read, adds
  <2>6. CASE again' /\ lex'.state = "LOOKUP_TOKEN" /\ \A r \in Texts : Spell(calls', r) = r
    <3>1. Rest' = adds BY <1>0, <2>2, <2>6, LooksAgain DEF Written, adds
    <3>2. Rest \o adds = Spell(calls', Rest') BY <1>7, <2>2, <2>6, <3>1
    <3> QED BY <1>6, <2>3, <2>4, <2>6, <3>2 DEF Read, adds
  <2> QED BY <1>2, <1>15, <2>5, <2>6, BigNumberSteps, ZenonT(60)
<1> QED BY <1>1, <1>9, <1>10, <1>11, <1>12, <1>13, <1>14, <1>15 DEF L!Iterate

LEMMA Untold ==
  ASSUME UNCHANGED <<application, parservars>>
  PROVE  Told' = Told /\ (App => App')
<1>1. Told' = Told BY DEF application, parservars, Told
<1>2. App => App'
  BY DEF application, parservars, App, Nested, Owing, EmptyShows
<1> QED BY <1>1, <1>2

(* While the lexer runs the parser is not over.                            *)
LEMMA NotOver ==
  ASSUME TextInv, ~scanned
  PROVE  ~finalized
  BY DEF TextInv, Sound, RInv

LEMMA FirstIteration ==
  ASSUME TextInv, ~again, calls = <<>>, pushing, ~scanned, err = "OK", NEW b \in 0..255,
         L!Iterate(b), Iterates, UNCHANGED <<application, parservars>>,
         compact' = Squeeze(compact, b), data' = b
  PROVE  Modes' /\ Matches'
<1>0. Modes /\ Written /\ Sound /\ Matches BY DEF TextInv
<1>1. Read(b) BY Reads
<1>2. Told' = Told /\ UNCHANGED <<state, lexing>> BY Untold DEF parservars
<1>3. pushing' /\ ~scanned' /\ Current' = lex' /\ Current = lex BY DEF Iterates, Current
<1>4. Modes'
  <2>1. Half(Current)' <=> Half(lex)' BY <1>3 DEF Half
  <2> QED BY <1>1, <1>2, <1>3, <2>1 DEF Modes, Read
<1>5. compact'.bytes = compact.bytes \o Adds(compact, b) BY DEF Squeeze
<1>6. /\ Told \in Texts /\ Rest \in Texts /\ Adds(compact, b) \in Texts
      /\ Begins(Told, compact.bytes)
  BY <1>0, TextsTyped, AddsText DEF Written
<1>7. ASSUME compact.bytes = Told \o Spell(calls, Rest) PROVE Matches'
  <2>1. compact.bytes = Told \o Rest BY <1>7, SpellCases
  <2>2. (Told \o Rest) \o Adds(compact, b) = Told \o (Rest \o Adds(compact, b)) BY <1>6, Joined
  <2>3. compact'.bytes = Told' \o Spell(calls', Rest') BY <1>1, <1>2, <1>5, <2>1, <2>2 DEF Read
  <2> QED BY <2>3 DEF Matches
<1>8. ASSUME Doomed PROVE Matches'
  <2>1. /\ state \in AfterStates /\ lexing = "none" /\ lex.state \in SmallNumberStates
    BY <1>3, <1>8 DEF Doomed
  <2>2. Begins(Told', compact'.bytes)
    BY <1>0, <1>2, <1>5, <1>6, BeginsMore DEF Written
  <2>3. Begins(Told, compact.bytes)' BY <2>2 DEF Begins
  <2>4. ASSUME StaysNumber(b) PROVE Doomed'
    BY <1>2, <1>3, <2>1, <2>3, <2>4 DEF Doomed, StaysNumber
  <2>5. ASSUME GrowsNumber(b) \/ EndsNumber PROVE Doomed'
    <3>1. PICK c : calls' = <<c>> /\ c.call \in NumberStarts
      BY <2>5 DEF GrowsNumber, EndsNumber, NumberStarts
    <3>2. calls' # <<>> /\ Head(calls') = c BY <3>1
    <3> QED BY <1>2, <2>1, <2>3, <3>1, <3>2 DEF Doomed
  <2>6. Doomed' BY <1>1, <2>1, <2>4, <2>5 DEF Read
  <2> QED BY <2>6 DEF Matches
<1> QED BY <1>0, <1>4, <1>7, <1>8 DEF Matches

(* The byte that ended a number is looked up; one that goes on where a     *)
(* number does begins another, and the parser takes no second one.         *)
LEMMA SecondIteration ==
  ASSUME TextInv, again, calls = <<>>, pushing, ~scanned, err = "OK", NEW b \in 0..255,
         L!Iterate(b), Iterates, UNCHANGED <<application, parservars, compact>>, b = data
  PROVE  Modes' /\ Matches'
<1>0. Modes /\ Written /\ Sound /\ Matches BY DEF TextInv
<1>1. PICK l : l = L!Sniff(lex, b) OBVIOUS
<1>2. Fields(l) /\ l.state = lex.state BY <1>0, <1>1, SniffFields, LexerFields
<1>3. Current = lex /\ Current' = lex' BY DEF Current, Iterates
<1>4. l.state = "LOOKUP_TOKEN" /\ compact.mode = ModeAgain(b)
  BY <1>0, <1>2, <1>3 DEF Modes
<1>5. L!LookupToken(l, b)
  BY <1>1, <1>4, SMTT(30) DEF L!Iterate, L!InString, L!InStringEscape, L!InStringUnicodeEscape,
     L!InNumberSign, L!InNumber, L!InNumberFrac, L!InNumberExpSign, L!InNumberExp, L!InBigNumber,
     L!InKeyword, L!KeywordStates
<1>6. /\ Spells(First(b), ModeAfter(b))
      /\ b \in NumberBytes => calls' = <<>> /\ lex'.state \in SmallNumberStates
  BY <1>2, <1>5, LookupSpells
<1>7. b \in NumberBytes => calls' = <<>> /\ lex'.state \in SmallNumberStates BY <1>6
<1>8. ~again' /\ lex'.state # "IN_STRING_UNICODE_ESCAPE" BY <1>6 DEF Spells
<1>9. lexing = "none" /\ state \in AfterStates
  <2>1. Follows(<<>>, lexing, Destination) BY <1>0 DEF Sound, RInv, IInv
  <2>2. lexing = Lexeme(lex.state) BY <2>1, NoCalls DEF Destination
  <2>3. lexing = "none"
    <3>1. Lexeme("LOOKUP_TOKEN") = "none" BY DEF Lexeme, L!StringStates
    <3> QED BY <1>2, <1>4, <2>2, <3>1
  <2>4. ~\E c : calls = <<c>> OBVIOUS
  <2> QED BY <1>0, <2>3, <2>4 DEF Modes
<1>10. Told' = Told /\ UNCHANGED <<state, lexing>> BY Untold DEF parservars
<1>11. compact.bytes = Told \o Rest
  <2>1. ~Doomed BY DEF Doomed
  <2> QED BY <1>0, <2>1, SpellCases DEF Matches
<1>12. Told \in Texts /\ Told \o <<>> = Told BY <1>0, TextsTyped, Joined
<1>13. Rest = IF b \in NumberBytes THEN <<>> ELSE First(b)
  <2>1. Rest = IF compact.mode = "number" THEN <<>> ELSE First(b) BY DEF Rest
  <2> QED BY <1>4, <2>1, AgainCases
<1>14. CASE b \in NumberBytes
  <2>1. ModeOf(lex'.state) = "number" /\ compact.mode = "number"
    BY <1>4, <1>7, <1>14, AgainCases, ModeCases, StateNames
  <2>2. Modes' BY <1>3, <1>8, <2>1 DEF Modes
  <2>3. Begins(Told, compact.bytes)'
    <3>1. compact'.bytes = Told' \o <<>> /\ <<>> \in Texts
      BY <1>10, <1>11, <1>13, <1>14, Joined
    <3> QED BY <3>1 DEF Begins
  <2>4. Doomed'
    BY <1>3, <1>7, <1>8, <1>9, <1>10, <1>14, <2>3 DEF Doomed, Iterates
  <2> QED BY <2>2, <2>4 DEF Matches
<1>15. CASE b \notin NumberBytes
  <2>1. ModeOf(lex'.state) = compact.mode
    <3>1. ModeOf(lex'.state) = ModeAfter(b) BY <1>6 DEF Spells
    <3> QED BY <1>4, <1>15, <3>1, AgainCases
  <2>2. Modes' BY <1>3, <1>8, <2>1 DEF Modes
  <2>3. compact'.bytes = Told' \o Spell(calls', Rest')
    BY <1>6, <1>10, <1>11, <1>13, <1>15 DEF Spells
  <2> QED BY <2>2, <2>3 DEF Matches
<1> QED BY <1>14, <1>15

LEMMA ScanKeeps ==
  ASSUME TextInv, Sound', NEW b \in Alphabet, Scan(b), UNCHANGED application,
         IF again THEN UNCHANGED compact ELSE compact' = Squeeze(compact, b)
  PROVE  TextInv'
<1>1. b \in 0..255 BY EmbedjsonAssumption
<1>2. /\ calls = <<>> /\ L!Iterate(b) /\ UNCHANGED parservars
      /\ err = "OK" /\ ~scanned /\ pushing /\ data' = b /\ (again => b = data)
      /\ pushing' = (err' = "OK") /\ scanned' = scanned
  BY DEF Scan, Undelivered, L!Iterate, L!Alive
<1>3. ~finalized' BY <1>2, NotOver DEF parservars
<1>4. Written'
  <2>1. CASE again BY <2>1 DEF TextInv, Written, application
  <2>2. CASE ~again
    <3>1. /\ compact'.bytes = compact.bytes \o Adds(compact, b)
          /\ compact'.hex = IF compact.mode = "unicode" THEN Append(compact.hex, b) ELSE <<>>
      BY <2>2 DEF Squeeze
    <3>2. compact'.bytes \in Texts
      <4>1. compact.bytes \in Texts /\ Adds(compact, b) \in Texts
        BY <1>1, AddsText DEF TextInv, Written
      <4> QED BY <3>1, <4>1, Joined
    <3>3. compact'.hex \in Texts
      <4>1. b \in Int BY <1>1
      <4>2. Append(compact.hex, b) \in Texts BY <4>1 DEF TextInv, Written, Texts
      <4> QED BY <3>1, <4>2, Joined
    <3> QED BY <3>2, <3>3 DEF TextInv, Written, application
  <2> QED BY <2>1, <2>2
<1>5. CASE err' # "OK"
  <2>1. Begins(text, compact.bytes) BY <1>2, TextsTyped
  <2>2. Begins(text, compact'.bytes)
    <3>1. CASE again BY <2>1, <3>1
    <3>2. CASE ~again
      <4>1. compact'.bytes = compact.bytes \o Adds(compact, b) BY <3>2 DEF Squeeze
      <4>2. Adds(compact, b) \in Texts BY <1>1, AddsText DEF TextInv, Written
      <4> QED BY <2>1, <4>1, <4>2, BeginsMore DEF TextInv, Written
    <3> QED BY <3>1, <3>2
  <2>3. Begins(text, compact.bytes)' BY <2>2 DEF Begins, application
  <2> QED BY <1>3, <1>4, <1>5, <2>3 DEF TextInv
<1>6. CASE err' = "OK"
  <2>1. Iterates BY <1>2, <1>6, LexerFields DEF Iterates, TextInv
  <2>2. UNCHANGED <<application, parservars>> BY <1>2
  <2>3. App' BY <1>2, <2>2, Untold DEF TextInv
  <2>4. Modes' /\ Matches'
    <3>1. CASE again
      <4>1. UNCHANGED <<application, parservars, compact>> /\ b = data BY <1>2, <3>1
      <4> QED BY <1>1, <1>2, <2>1, <3>1, <4>1, SecondIteration
    <3>2. CASE ~again BY <1>1, <1>2, <2>1, <2>2, <3>2, FirstIteration
    <3> QED BY <3>1, <3>2
  <2> QED BY <1>3, <1>4, <1>6, <2>3, <2>4 DEF TextInv
<1> QED BY <1>5, <1>6

(* Between the iterations nothing new is read and nothing told.            *)
LEMMA Idle ==
  ASSUME TextInv, err = "OK", ~scanned, UNCHANGED <<application, parservars, compact>>
  PROVE  /\ Written' /\ App' /\ Told' = Told /\ ~finalized' /\ UNCHANGED <<state, lexing>>
         /\ err' # "OK" /\ Sound' => TextInv'
<1>1. Written' /\ App' /\ Told' = Told /\ ~finalized' /\ UNCHANGED <<state, lexing>>
  BY Untold, NotOver DEF TextInv, Written, application, parservars
<1>2. ASSUME err' # "OK", Sound' PROVE TextInv'
  <2>1. Begins(text, compact.bytes) BY TextsTyped
  <2>2. Begins(text, compact.bytes)' BY <2>1 DEF Begins, application
  <2> QED BY <1>1, <1>2, <2>2 DEF TextInv
<1> QED BY <1>1, <1>2

LEMMA PushKeeps ==
  ASSUME TextInv, Sound', NEW size, embedjson_push(size), UNCHANGED <<application, compact>>
  PROVE  TextInv'
<1>1. /\ calls = <<>> /\ calls' = <<>> /\ UNCHANGED parservars /\ err = "OK" /\ err' = "OK"
      /\ ~scanned /\ scanned' = scanned /\ ~pushing /\ pushing' = TRUE /\ lex' = lexer
      /\ again' = again
      /\ chunk' = IF lexer.state \in L!ChunkStates THEN <<>> ELSE NULL
  BY DEF embedjson_push, Undelivered, L!BeginPush, L!Alive
<1>0. Modes /\ Sound /\ Matches BY <1>1 DEF TextInv
<1>2. /\ App' /\ Written' /\ Told' = Told /\ ~finalized' /\ UNCHANGED <<state, lexing>>
  BY <1>1, Idle
<1>3. ~again /\ ~again' /\ Current = lexer /\ Current' = lexer
  BY <1>0, <1>1 DEF Modes, Current
<1>4. Modes' BY <1>0, <1>1, <1>3 DEF Modes, Half
<1>5. Rest' = Rest
  <2>1. Iterates BY <1>0, <1>1, LexerFields DEF Iterates
  <2>2. Rest = RestOf(lexer) BY <1>1, <1>3 DEF Rest
  <2>3. CASE lexer.state \in L!KeywordStates
    BY <1>1, <1>3, <2>1, <2>2, <2>3, RestNext, RestOfCases
  <2>4. CASE lexer.state \in SmallNumberStates
    BY <1>1, <1>3, <2>1, <2>2, <2>4, RestNext, RestOfCases
  <2>5. CASE lexer.state = "IN_STRING"
    <3>1. Rest = <<>> BY <1>1, <2>2, <2>5, RestOfCases
    <3>2. Rest' = chunk' BY <1>1, <1>3, <2>1, <2>5, RestNext
    <3>3. chunk' = <<>> BY <1>1, <2>5 DEF L!ChunkStates
    <3> QED BY <3>1, <3>2, <3>3
  <2>6. CASE lexer.state \in {"LOOKUP_TOKEN", "IN_BIG_NUMBER", "IN_STRING_ESCAPE",
                              "IN_STRING_UNICODE_ESCAPE"}
    BY <1>1, <1>3, <2>1, <2>2, <2>6, RestNext, RestOfCases
  <2>7. lexer.state \in L!LexerStates BY <1>0, <1>1, LexerFields DEF Fields
  <2> QED BY <2>3, <2>4, <2>5, <2>6, <2>7, StateNames
<1>6. Matches'
  <2>1. CASE compact.bytes = Told \o Spell(calls, Rest)
    <3>1. compact'.bytes = Told' \o Spell(calls', Rest') BY <1>1, <1>2, <1>5, <2>1
    <3> QED BY <3>1 DEF Matches
  <2>2. CASE Doomed
    <3>1. Begins(Told', compact'.bytes) BY <1>2, <2>2 DEF Doomed
    <3>2. Begins(Told, compact.bytes)' BY <3>1 DEF Begins
    <3>3. Doomed' BY <1>1, <1>2, <1>3, <2>2, <3>2 DEF Doomed
    <3> QED BY <3>3 DEF Matches
  <2> QED BY <1>0, <2>1, <2>2 DEF Matches
<1> QED BY <1>1, <1>2, <1>4, <1>6 DEF TextInv

LEMMA ReturnKeeps ==
  ASSUME TextInv, Sound', Return, UNCHANGED <<application, compact>>
  PROVE  TextInv'
<1>1. /\ calls = <<>> /\ UNCHANGED parservars /\ err = "OK"
      /\ ~scanned /\ scanned' = scanned /\ pushing /\ pushing' = FALSE
      /\ ~again /\ again' = again /\ L!Make(L!CallsAtBufferEnd(lex)) /\ err' # "CALLBACK"
      /\ lexer' = IF err' = "OK" THEN lex ELSE lexer
  BY DEF Return, Undelivered, L!EndPush, L!Alive
<1>2. calls' = L!CallsAtBufferEnd(lex) /\ err' = "OK" /\ lexer' = lex
  BY <1>1 DEF L!Make
<1>0. Modes /\ Sound /\ Matches BY <1>1 DEF TextInv
<1>3. /\ App' /\ Written' /\ Told' = Told /\ ~finalized' /\ UNCHANGED <<state, lexing>>
  BY <1>1, Idle
<1>4. ~again' /\ Current = lex /\ Current' = lex
  BY <1>1, <1>2 DEF Current
<1>5. Modes' BY <1>0, <1>1, <1>4 DEF Modes, Half
<1>6. Rest = RestOf(lex) /\ Rest' = RestOf(Current)' BY <1>1, <1>4 DEF Rest
<1>7. RestOf(Current)' =
        CASE lex.state \in L!KeywordStates -> SubSeq(L!Keyword[lex.state], 1, lex.offset)
          [] lex.state \in SmallNumberStates -> <<NUMBER>>
          [] lex.state = "IN_STRING" /\ pushing' -> chunk'
          [] OTHER -> <<>>
  BY <1>4 DEF RestOf
<1>8. lex.state \in L!LexerStates BY <1>0, <1>1, LexerFields DEF Fields
<1>9. ASSUME lex.state \notin L!ChunkStates PROVE calls' = <<>>
  BY <1>2, <1>9 DEF L!CallsAtBufferEnd, L!ChunkStates
<1>10. Spell(calls', Rest') = Rest
  <2>1. CASE lex.state = "IN_STRING"
    <3>1. Rest = chunk /\ chunk \in Texts BY <1>0, <1>1, <1>6, <2>1, RestOfCases, LexerFields
    <3>2. Rest' = <<>> BY <1>1, <1>6, <1>7, <2>1, StateNames
    <3>3. PICK t : t = L!TokenC(chunk) OBVIOUS
    <3>4. t.call = "tokenc" /\ t.bytes = chunk BY <3>3 DEF L!TokenC
    <3>5. Spelled(t) = chunk BY <3>4, SpelledCases
    <3>6. calls' = L!Flush(t) BY <1>2, <2>1, <3>3 DEF L!CallsAtBufferEnd
    <3>7. Spell(L!Flush(t), <<>>) = chunk BY <3>1, <3>5, SpellCases, Joined DEF L!Flush
    <3> QED BY <3>1, <3>2, <3>6, <3>7
  <2>2. CASE lex.state = "IN_BIG_NUMBER"
    <3>1. Rest = <<>> BY <1>6, <2>2, RestOfCases
    <3>2. Rest' = <<>> BY <1>1, <1>6, <1>7, <2>2, StateNames
    <3>3. PICK t : t = L!TokenBn(chunk) OBVIOUS
    <3>4. t.call = "tokenbn" BY <3>3 DEF L!TokenBn
    <3>5. Spelled(t) = <<>> BY <3>4, SpelledCases
    <3>6. calls' = L!Flush(t) BY <1>2, <2>2, <3>3 DEF L!CallsAtBufferEnd
    <3>7. Spell(<<t>>, <<>>) = <<>> \o <<>> BY <3>5, SpellCases
    <3>8. Spell(<<>>, <<>>) = <<>> /\ <<>> \o <<>> = <<>> BY SpellCases, Joined
    <3> QED BY <3>1, <3>2, <3>6, <3>7, <3>8 DEF L!Flush
  <2>3. CASE lex.state \notin L!ChunkStates
    <3>1. lex.state # "IN_STRING" /\ lex.state # "IN_BIG_NUMBER" BY <2>3 DEF L!ChunkStates
    <3>2. CASE lex.state \in L!KeywordStates
      <4>1. Rest = SubSeq(L!Keyword[lex.state], 1, lex.offset) BY <1>6, <3>2, RestOfCases
      <4>2. Rest' = SubSeq(L!Keyword[lex.state], 1, lex.offset) BY <1>6, <1>7, <3>2, StateNames
      <4> QED BY <1>9, <2>3, <4>1, <4>2, SpellCases
    <3>3. CASE lex.state \in SmallNumberStates
      <4>1. Rest = <<NUMBER>> BY <1>6, <3>3, RestOfCases
      <4>2. Rest' = <<NUMBER>> BY <1>6, <1>7, <3>3, StateNames
      <4> QED BY <1>9, <2>3, <4>1, <4>2, SpellCases
    <3>4. CASE lex.state \in {"LOOKUP_TOKEN", "IN_STRING_ESCAPE", "IN_STRING_UNICODE_ESCAPE"}
      <4>1. Rest = <<>> BY <1>6, <3>4, RestOfCases
      <4>2. Rest' = <<>> BY <1>6, <1>7, <3>4, StateNames
      <4> QED BY <1>9, <2>3, <4>1, <4>2, SpellCases
    <3> QED BY <1>8, <3>1, <3>2, <3>3, <3>4, StateNames
  <2> QED BY <2>1, <2>2, <2>3 DEF L!ChunkStates
<1>11. Matches'
  <2>1. CASE compact.bytes = Told \o Spell(calls, Rest)
    <3>1. compact.bytes = Told \o Rest BY <1>1, <2>1, SpellCases
    <3>2. compact'.bytes = Told' \o Spell(calls', Rest') BY <1>3, <1>10, <3>1
    <3> QED BY <3>2 DEF Matches
  <2>2. CASE Doomed
    <3>1. Begins(Told', compact'.bytes) BY <1>3, <2>2 DEF Doomed
    <3>2. Begins(Told, compact.bytes)' BY <3>1 DEF Begins
    <3>3. lex.state \in SmallNumberStates BY <1>1, <1>4, <2>2 DEF Doomed
    <3>4. calls' = <<>> BY <1>9, <3>3, StateNames DEF L!ChunkStates
    <3>5. Doomed' BY <1>1, <1>3, <1>4, <2>2, <3>2, <3>3, <3>4 DEF Doomed
    <3> QED BY <3>5 DEF Matches
  <2> QED BY <1>0, <2>1, <2>2 DEF Matches
<1> QED BY <1>2, <1>3, <1>5, <1>11 DEF TextInv

LEMMA LexerFinalizeKeeps ==
  ASSUME TextInv, Sound', embedjson_lexer_finalize, UNCHANGED <<application, compact>>
  PROVE  TextInv'
<1>1. /\ calls = <<>> /\ UNCHANGED <<parservars, lexer, pushing, again, data>> /\ err = "OK"
      /\ ~scanned /\ ~pushing /\ err' # "CALLBACK" /\ scanned' = (err' = "OK")
      /\ IF L!ErrorAtEnd(lexer) # "OK" THEN err' = L!ErrorAtEnd(lexer) /\ calls' = <<>>
         ELSE L!Make(L!CallsAtEnd(lexer))
  BY DEF embedjson_lexer_finalize, Undelivered, L!Finalize, L!Alive
<1>0. Modes /\ Sound /\ Matches BY <1>1 DEF TextInv
<1>2. /\ App' /\ Written' /\ Told' = Told /\ ~finalized' /\ UNCHANGED <<state, lexing>>
      /\ err' # "OK" => TextInv'
  BY <1>1, Idle
<1>3. CASE err' # "OK" BY <1>2, <1>3
<1>4. CASE err' = "OK"
  <2>1. L!ErrorAtEnd(lexer) = "OK" /\ calls' = L!CallsAtEnd(lexer) /\ scanned'
    BY <1>1, <1>4 DEF L!Make
  <2>2. ~again' /\ ~again /\ Current = lexer /\ Current' = lexer
    BY <1>0, <1>1 DEF Modes, Current
  <2>3. Modes' BY <1>0, <1>1, <2>2 DEF Modes, Half
  <2>4. Rest = RestOf(lexer) /\ Rest' = <<>> BY <1>1, <2>1, <2>2 DEF Rest
  <2>5. lexer.state \in {"LOOKUP_TOKEN", "IN_BIG_NUMBER", "IN_NUMBER", "IN_NUMBER_FRAC",
                         "IN_NUMBER_EXP"}
    <3>1. lexer.state \in L!LexerStates BY <1>0, <1>1, LexerFields DEF Fields
    <3>2. lexer.state \notin L!StringStates \cup {"IN_NUMBER_SIGN", "IN_NUMBER_EXP_SIGN",
                                                  "IN_TRUE", "IN_FALSE", "IN_NULL"}
      BY <2>1 DEF L!ErrorAtEnd, L!StringStates
    <3> QED BY <3>1, <3>2, StateNames
  <2>6. CASE lexer.state = "LOOKUP_TOKEN"
    <3>1. calls' = <<>> BY <2>1, <2>6 DEF L!CallsAtEnd
    <3>2. Rest = <<>> BY <2>4, <2>6, RestOfCases
    <3>3. ~Doomed BY <1>1, <2>2, <2>6, StateNames DEF Doomed
    <3>4. compact.bytes = Told \o Rest BY <1>0, <1>1, <3>3, SpellCases DEF Matches
    <3>5. compact'.bytes = Told' \o Spell(calls', Rest') BY <1>2, <2>4, <3>1, <3>2, <3>4, SpellCases
    <3>6. Matches' BY <3>5 DEF Matches
    <3> QED BY <1>2, <1>4, <2>3, <3>6 DEF TextInv
  <2>7. CASE lexer.state = "IN_BIG_NUMBER"
    <3>1. PICK d : d = L!TokenBnEnd OBVIOUS
    <3>2. calls' = <<d>> /\ d.call = "tokenbn_end"
      BY <2>1, <2>7, <3>1 DEF L!CallsAtEnd, L!TokenBnEnd
    <3>3. Rest = <<>> BY <2>4, <2>7, RestOfCases
    <3>4. ~Doomed BY <1>1, <2>2, <2>7, StateNames DEF Doomed
    <3>5. compact.bytes = Told \o Rest BY <1>0, <1>1, <3>4, SpellCases DEF Matches
    <3>6. Spelled(d) = <<>> BY <3>2, SpelledCases
    <3>7. Spell(<<d>>, <<>>) = <<>> \o <<>> /\ <<>> \o <<>> = <<>> BY <3>6, SpellCases, Joined
    <3>8. compact'.bytes = Told' \o Spell(calls', Rest') BY <1>2, <2>4, <3>2, <3>3, <3>5, <3>7
    <3>9. Matches' BY <3>8 DEF Matches
    <3> QED BY <1>2, <1>4, <2>3, <3>9 DEF TextInv
  <2>8. CASE lexer.state \in {"IN_NUMBER", "IN_NUMBER_FRAC", "IN_NUMBER_EXP"}
    <3>1. PICK c : calls' = <<c>> /\ c.call \in {"tokeni", "tokenf"}
      BY <2>1, <2>8 DEF L!CallsAtEnd, L!TokenI, L!TokenF
    <3>2. Rest = <<NUMBER>> BY <2>4, <2>8, RestOfCases, StateNames
    <3>3. c.call \in NumberStarts BY <3>1 DEF NumberStarts
    <3>4. Spelled(c) = <<NUMBER>> BY <3>3, SpelledCases
    <3>5. Spell(<<c>>, <<>>) = <<NUMBER>> \o <<>> BY <3>4, SpellCases
    <3>6. <<NUMBER>> \o <<>> = <<NUMBER>> BY Joined DEF NUMBER
    <3>7. ASSUME compact.bytes = Told \o Spell(calls, Rest) PROVE Matches'
      <4>1. compact.bytes = Told \o Rest BY <1>1, <3>7, SpellCases
      <4>2. compact'.bytes = Told' \o Spell(calls', Rest')
        BY <1>2, <2>4, <3>1, <3>2, <3>5, <3>6, <4>1
      <4> QED BY <4>2 DEF Matches
    <3>8. ASSUME Doomed PROVE Matches'
      <4>1. Begins(Told', compact'.bytes) BY <1>2, <3>8 DEF Doomed
      <4>2. Begins(Told, compact.bytes)' BY <4>1 DEF Begins
      <4>3. calls' # <<>> /\ Head(calls') = c BY <3>1
      <4>4. Doomed' BY <1>2, <3>3, <3>8, <4>2, <4>3 DEF Doomed
      <4> QED BY <4>4 DEF Matches
    <3>9. Matches' BY <1>0, <3>7, <3>8 DEF Matches
    <3> QED BY <1>2, <1>4, <2>3, <3>9 DEF TextInv
  <2> QED BY <2>5, <2>6, <2>7, <2>8
<1> QED BY <1>3, <1>4

LEMMA FinalizeKeeps ==
  ASSUME TextInv, Sound', embedjson_finalize, UNCHANGED <<application, compact>>
  PROVE  TextInv'
<1>1. /\ scanned /\ calls = <<>> /\ calls' = <<>> /\ err = "OK" /\ lexing = "none"
      /\ UNCHANGED <<lexervars, state, stack, lexing>>
      /\ IF state # "DONE" THEN err' # "OK" /\ UNCHANGED finalized
         ELSE finalized' = TRUE /\ UNCHANGED err
  BY DEF embedjson_finalize, P!embedjson_finalize, P!Running
<1>0. Modes /\ Sound /\ Matches /\ App /\ Written BY <1>1 DEF TextInv
<1>2. ~finalized BY <1>1 DEF embedjson_finalize, P!embedjson_finalize, P!Running
<1>3. Written' BY <1>0 DEF Written, application
<1>4. CASE state # "DONE"
  <2>1. Begins(text, compact.bytes) BY <1>1, TextsTyped
  <2>2. Begins(text, compact.bytes)' BY <2>1 DEF Begins, application
  <2> QED BY <1>1, <1>2, <1>3, <1>4, <2>2 DEF TextInv
<1>5. CASE state = "DONE"
  <2>1. UNCHANGED <<lexervars, calls, state, stack, lexing, err, application, compact>>
    BY <1>1, <1>5
  <2>2. ~Doomed BY <1>1 DEF Doomed
  <2>3. compact.bytes = Told \o Spell(calls, Rest) BY <1>0, <2>2 DEF Matches
  <2>4. Told = text \o <<>> BY <1>5 DEF Told, SeparatedStates
  <2>5. Rest = <<>> BY <1>1 DEF Rest
  <2>6. text \o <<>> = text /\ text \in Texts BY <1>0, Joined DEF Written
  <2>7. text = compact.bytes
    <3>1. Spell(calls, Rest) = <<>> BY <1>1, <2>5, SpellCases
    <3>2. compact.bytes = (text \o <<>>) \o <<>> BY <2>3, <2>4, <3>1
    <3> QED BY <3>2, <2>6
  <2>8. nest = <<>>
    <3>1. stack = <<>> BY <1>0, <1>1, <1>5, PlaceLemma DEF Place
    <3> QED BY <1>0, <3>1 DEF App, Nested
  <2>9. Told' = Told /\ Rest' = Rest /\ Current' = Current
    BY <2>1 DEF lexervars, application, Told, Rest, RestOf, Current
  <2>10. Modes'
    BY <1>0, <2>1, <2>9 DEF Modes, Half, lexervars
  <2>11. App' BY <1>0, <2>1 DEF App, Nested, Owing, EmptyShows, application
  <2>12. Matches'
    <3>1. compact'.bytes = Told' \o Spell(calls', Rest') BY <2>1, <2>3, <2>9
    <3> QED BY <3>1 DEF Matches
  <2>13. text' = compact'.bytes /\ nest' = <<>> BY <2>1, <2>7, <2>8 DEF application
  <2> QED BY <1>1, <1>3, <2>1, <2>10, <2>11, <2>12, <2>13 DEF TextInv
<1> QED BY <1>4, <1>5

LEMMA TextInit == TInit => TextInv
<1> SUFFICES ASSUME TInit PROVE TextInv OBVIOUS
<1>1. Sound BY SoundInit
<1>2. /\ lexer = L!ZeroedLexer /\ ~pushing /\ again = FALSE /\ ~scanned /\ calls = <<>>
      /\ err = "OK" /\ state = "EXPECT_VALUE" /\ stack = <<>> /\ lexing = "none" /\ finalized = FALSE
      /\ compact = Blank /\ text = <<>> /\ nest = <<>> /\ owed = <<>>
  BY DEF TInit, EInit, L!Init, P!Init
<1>3. compact.bytes = <<>> /\ compact.mode = "out" /\ compact.hex = <<>> BY <1>2 DEF Blank
<1>4. Current = lexer /\ Current.state = "LOOKUP_TOKEN"
  BY <1>2 DEF Current, L!ZeroedLexer
<1>5. Written BY <1>2, <1>3, Joined DEF Written
<1>6. Modes BY <1>2, <1>3, <1>4, ModeCases DEF Modes
<1>7. App
  <2>1. Nested BY <1>2 DEF Nested
  <2>2. owed = Owing BY <1>2 DEF Owing
  <2>3. EmptyShows BY <1>2 DEF EmptyShows
  <2> QED BY <2>1, <2>2, <2>3 DEF App
<1>8. Matches
  <2>1. Told = <<>> \o <<>> /\ <<>> \o <<>> = <<>> BY <1>2, Joined DEF Told, SeparatedStates
  <2>2. Rest = <<>> BY <1>2, <1>4, RestOfCases DEF Rest
  <2>3. compact.bytes = Told \o Spell(calls, Rest) BY <1>2, <1>3, <2>1, <2>2, SpellCases
  <2> QED BY <2>3 DEF Matches
<1> QED BY <1>1, <1>2, <1>5, <1>6, <1>7, <1>8 DEF TextInv

(* With the application or without it, the code does the same.             *)
LEMMA TextRefines == [TNext]_tvars => [ENext]_evars
<1>1. ASSUME TNext PROVE [ENext]_evars
  <2>1. CASE \E size \in 0..MaxBuffer : embedjson_push(size) BY <2>1 DEF ENext
  <2>2. CASE \E b \in Alphabet : Scan(b) BY <2>2 DEF ENext
  <2>3. CASE Return \/ embedjson_lexer_finalize \/ embedjson_finalize \/ Over \/ RunCall
    BY <2>3 DEF ENext
  <2> QED BY <1>1, <2>1, <2>2, <2>3 DEF TNext
<1>2. UNCHANGED tvars => UNCHANGED evars BY DEF tvars
<1> QED BY <1>1, <1>2

LEMMA TextStep ==
  ASSUME Contained, TextInv, [TNext]_tvars
  PROVE  TextInv'
<1>1. Sound' BY TextRefines, SoundStep DEF TextInv
<1>2. ASSUME NEW size \in 0..MaxBuffer, embedjson_push(size), UNCHANGED <<compact, application>>
      PROVE  TextInv'
  <2>1. UNCHANGED <<application, compact>> BY <1>2
  <2> QED BY <1>1, <1>2, <2>1, PushKeeps
<1>3. ASSUME NEW b \in Alphabet, Scan(b), UNCHANGED application,
             IF again THEN UNCHANGED compact ELSE compact' = Squeeze(compact, b)
      PROVE  TextInv'
  BY <1>1, <1>3, ScanKeeps
<1>4. ASSUME UNCHANGED <<compact, application>>,
             Return \/ embedjson_lexer_finalize \/ embedjson_finalize
      PROVE  TextInv'
  <2>1. UNCHANGED <<application, compact>> BY <1>4
  <2> QED BY <1>1, <1>4, <2>1, ReturnKeeps, LexerFinalizeKeeps, FinalizeKeeps
<1>5. ASSUME UNCHANGED <<evars, compact, application>>
      PROVE  TextInv'
  <2>1. UNCHANGED <<lexervars, parservars, calls, err, text, nest, owed, compact>>
    BY <1>5 DEF evars, application
  <2>2. UNCHANGED <<lexer, lex, pushing, again, data, chunk, scanned>> BY <2>1 DEF lexervars
  <2>3. UNCHANGED <<state, stack, lexing, finalized>> BY <2>1 DEF parservars
  <2>4. Current' = Current /\ Told' = Told
    BY <2>1, <2>2, <2>3 DEF Current, Told
  <2>5. Rest' = Rest BY <2>1, <2>2, <2>4 DEF Rest, RestOf, Current
  <2>6. Modes => Modes' BY <2>1, <2>2, <2>3, <2>4 DEF Modes, Half
  <2>7. App => App' BY <2>1, <2>3 DEF App, Nested, Owing, EmptyShows
  <2>8. Doomed => Doomed'
    <3>1. Begins(Told, compact.bytes) => Begins(Told, compact.bytes)'
      BY <2>1, <2>4 DEF Begins
    <3> QED BY <2>1, <2>2, <2>3, <2>4, <3>1 DEF Doomed
  <2>9. Matches => Matches'
    <3>1. ASSUME compact.bytes = Told \o Spell(calls, Rest) PROVE Matches'
      <4>1. compact'.bytes = Told' \o Spell(calls', Rest') BY <2>1, <2>4, <2>5, <3>1
      <4> QED BY <4>1 DEF Matches
    <3> QED BY <2>8, <3>1 DEF Matches
  <2>10. Begins(text, compact.bytes) => Begins(text, compact.bytes)' BY <2>1 DEF Begins
  <2>11. Written' BY <2>1 DEF TextInv, Written
  <2> QED BY <1>1, <2>1, <2>3, <2>6, <2>7, <2>9, <2>10, <2>11 DEF TextInv
<1>6. ASSUME RunCall, UNCHANGED compact,
             IF err' = "OK" /\ MakesCallback(Head(calls)) THEN Write(event', Head(calls))
             ELSE UNCHANGED application
      PROVE  TextInv'
  <2>1. Wrote(Head(calls)) BY <1>6 DEF Wrote
  <2> QED BY <1>1, <1>6, <2>1, RunCallKeeps
<1>7. CASE UNCHANGED tvars
  <2>1. UNCHANGED <<evars, compact, application>> BY <1>7 DEF tvars, application
  <2> QED BY <1>5, <2>1
<1>8. CASE Over /\ UNCHANGED <<compact, application>>
  <2>1. UNCHANGED <<evars, compact, application>> BY <1>8 DEF Over
  <2> QED BY <1>5, <2>1
<1>9. CASE TNext
  <2>1. CASE \E size \in 0..MaxBuffer :
               /\ embedjson_push(size) /\ Fits(input, size)
               /\ UNCHANGED <<input, compact, application>>
    BY <1>2, <2>1
  <2>2. CASE \E b \in Alphabet :
               /\ Scan(b)
               /\ IF again THEN UNCHANGED <<input, compact>>
                  ELSE input' = Append(input, b) /\ compact' = Squeeze(compact, b)
               /\ Fits(input', left') /\ UNCHANGED application
    BY <1>3, <2>2
  <2>3. CASE /\ Return \/ embedjson_lexer_finalize \/ embedjson_finalize \/ Over
             /\ UNCHANGED <<input, compact, application>>
    BY <1>4, <1>8, <2>3
  <2>4. CASE /\ RunCall
             /\ IF err' = "OK" /\ MakesCallback(Head(calls)) THEN Write(event', Head(calls))
                ELSE UNCHANGED application
             /\ UNCHANGED <<input, compact>>
    BY <1>6, <2>4
  <2> QED BY <1>9, <2>1, <2>2, <2>3, <2>4 DEF TNext
<1> QED BY <1>7, <1>9

(***************************************************************************)
(* The theorems                                                            *)
(***************************************************************************)
(* For every input, alphabet, stack and INT_MAX, however the input is cut  *)
(* into buffers, whichever callback or allocation fails, and at any moment *)
(* of it: the callbacks of embedjson_push and embedjson_finalize spell a   *)
(* beginning of the input, white space and the separators not yet due      *)
(* apart.  Contained leaves out the release build with big numbers, whose  *)
(* parser goes on from INVALID.                                            *)
THEOREM CallbacksFollowInput ==
  ASSUME Contained
  PROVE  TSpec => []CallbacksSpellInput
<1>1. TInit => TextInv BY TextInit
<1>2. TextInv /\ [TNext]_tvars => TextInv' BY TextStep
<1>3. TextInv => CallbacksSpellInput
  <2> SUFFICES ASSUME TextInv PROVE CallbacksSpellInput OBVIOUS
  <2>1. Begins(text, compact.bytes)
    <3>1. CASE err = "OK" BY <3>1, TextsTyped
    <3>2. CASE err # "OK" BY <3>2 DEF TextInv
    <3> QED BY <3>1, <3>2
  <2> QED BY <2>1, BeginsIsPrefix DEF CallbacksSpellInput, TextInv, Written
<1> QED BY <1>1, <1>2, <1>3, PTL DEF TSpec

(* What embedjson_finalize accepts the application has been told in full:  *)
(* what it wrote is the input, every container it opened is closed.        *)
THEOREM AcceptedInputIsTold ==
  ASSUME Contained
  PROVE  TSpec => []AcceptedIsSpelledOut
<1>1. TInit => TextInv BY TextInit
<1>2. TextInv /\ [TNext]_tvars => TextInv' BY TextStep
<1>3. TextInv => AcceptedIsSpelledOut BY DEF TextInv, AcceptedIsSpelledOut
<1> QED BY <1>1, <1>2, <1>3, PTL DEF TSpec
================================================================================
