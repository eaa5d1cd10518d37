-------------------------- MODULE EmbedjsonTextLemmas --------------------------
(***************************************************************************)
(* What a call of the parser writes and what an iteration of the lexer     *)
(* takes of the input: the parts of the proofs in EmbedjsonTextProofs that *)
(* look inside the two, but for \u escapes and numbers.                    *)
(***************************************************************************)
EXTENDS EmbedjsonText, EmbedjsonProofs

(* The theorems about the lexer and about the parser, for the composition. *)
LP == INSTANCE LexerProofs WITH finalized <- scanned
PP == INSTANCE ParserProofs WITH err <- ParserErr

(***************************************************************************)
(* The lexer and the parser keep their invariants                          *)
(***************************************************************************)
LEMMA Endings ==
  /\ \A seq, n, c, redo : L!Proceed(seq, n, c, redo) => LP!Proceed(seq, n, c, redo)
  /\ \A code : L!Fail(code) => LP!Fail(code)
  BY DEF L!Proceed, LP!Proceed, L!Make, LP!Make, L!Fail, LP!Fail

LEMMA Bytes ==
  /\ L!DIGITS = LP!DIGITS /\ L!EXPONENT = LP!EXPONENT /\ L!HexDigits = LP!HexDigits
  /\ L!QUOTE = LP!QUOTE /\ L!BACKSLASH = LP!BACKSLASH
  /\ L!PLUS = LP!PLUS /\ L!MINUS = LP!MINUS /\ L!DOT = LP!DOT
  /\ \A b : L!HexValue(b) = LP!HexValue(b) /\ L!Digit(b) = LP!Digit(b)
  BY DEF L!DIGITS, LP!DIGITS, L!EXPONENT, LP!EXPONENT, L!HexDigits, LP!HexDigits, L!QUOTE,
     LP!QUOTE, L!BACKSLASH, LP!BACKSLASH, L!PLUS, LP!PLUS, L!MINUS, LP!MINUS, L!DOT, LP!DOT,
     L!HexValue, LP!HexValue, L!Digit, LP!Digit

LEMMA StringCases ==
  ASSUME NEW l, NEW b
  PROVE  /\ L!InString(l, b) => LP!InString(l, b)
         /\ L!InStringEscape(l, b) => LP!InStringEscape(l, b)
         /\ L!InStringUnicodeEscape(l, b) => LP!InStringUnicodeEscape(l, b)
<1>1. L!InString(l, b) => LP!InString(l, b)
  BY DEF L!InString, LP!InString, L!Continue, LP!Continue, L!Corner, LP!Corner,
     L!Continuations, LP!Continuations, L!Lead, LP!Lead, L!Flush, LP!Flush, L!TokenC, LP!TokenC,
     L!TokenCEnd, LP!TokenCEnd, L!BACKSLASH, LP!BACKSLASH, L!QUOTE, LP!QUOTE, L!Proceed,
     LP!Proceed, L!Make, LP!Make, L!Fail, LP!Fail
<1>2. L!InStringEscape(l, b) => LP!InStringEscape(l, b)
  BY DEF L!InStringEscape, LP!InStringEscape, L!Escaped, LP!Escaped, L!TokenC, LP!TokenC,
     L!Proceed, LP!Proceed, L!Make, LP!Make, L!Fail, LP!Fail
<1>3. L!InStringUnicodeEscape(l, b) => LP!InStringUnicodeEscape(l, b)
  <2>1. \A bytes : L!TokenC(bytes) = LP!TokenC(bytes) BY DEF L!TokenC, LP!TokenC
  <2> QED BY <2>1, Endings, Bytes DEF L!InStringUnicodeEscape, LP!InStringUnicodeEscape
<1> QED BY <1>1, <1>2, <1>3

LEMMA NumberCases ==
  ASSUME NEW l, NEW b
  PROVE  /\ L!InNumberSign(l, b) => LP!InNumberSign(l, b)
         /\ L!InNumber(l, b) => LP!InNumber(l, b)
         /\ L!InNumberFrac(l, b) => LP!InNumberFrac(l, b)
         /\ L!InNumberExpSign(l, b) => LP!InNumberExpSign(l, b)
         /\ L!InNumberExp(l, b) => LP!InNumberExp(l, b)
         /\ L!InBigNumber(l, b) => LP!InBigNumber(l, b)
<1> USE Endings, Bytes
<1>a. L!AppendDigit(l, b) = LP!AppendDigit(l, b) BY DEF L!AppendDigit, LP!AppendDigit
<1>b. L!TokenF(l) = LP!TokenF(l) /\ L!TokenI(l) = LP!TokenI(l)
  BY DEF L!TokenF, LP!TokenF, L!TokenI, LP!TokenI
<1>c. L!AfterInt(l) = LP!AfterInt(l) BY DEF L!AfterInt, LP!AfterInt
<1>d. L!AfterFrac(l) = LP!AfterFrac(l) BY <1>c DEF L!AfterFrac, LP!AfterFrac
<1>e. L!AfterExp(l) = LP!AfterExp(l) BY <1>d DEF L!AfterExp, LP!AfterExp
<1>1. L!InNumberSign(l, b) => LP!InNumberSign(l, b)
  BY <1>a DEF L!InNumberSign, LP!InNumberSign
<1>2. L!InNumber(l, b) => LP!InNumber(l, b)
  BY <1>a, <1>b, <1>c DEF L!InNumber, LP!InNumber, L!IntOverflows, LP!IntOverflows,
     L!SumOverflows, LP!SumOverflows, L!TokenBnBegin, LP!TokenBnBegin
<1>3. L!InNumberFrac(l, b) => LP!InNumberFrac(l, b)
  <2>1. L!AppendFracDigit(l, b) = LP!AppendFracDigit(l, b)
    BY DEF L!AppendFracDigit, LP!AppendFracDigit, L!Digit, LP!Digit
  <2> QED BY <1>b, <1>d, <2>1 DEF L!InNumberFrac, LP!InNumberFrac
<1>4. L!InNumberExpSign(l, b) => LP!InNumberExpSign(l, b)
  BY DEF L!InNumberExpSign, LP!InNumberExpSign, L!Digit, LP!Digit
<1>5. L!InNumberExp(l, b) => LP!InNumberExp(l, b)
  <2>1. L!ExponentLimit(l) = LP!ExponentLimit(l) BY DEF L!ExponentLimit, LP!ExponentLimit
  <2> QED BY <1>b, <1>e, <2>1 DEF L!InNumberExp, LP!InNumberExp
<1>6. L!InBigNumber(l, b) => LP!InBigNumber(l, b)
  BY <1>e DEF L!InBigNumber, LP!InBigNumber, L!BigNumberBytes, LP!BigNumberBytes, L!TokenBn,
     LP!TokenBn, L!TokenBnEnd, LP!TokenBnEnd, L!Flush, LP!Flush
<1> QED BY <1>1, <1>2, <1>3, <1>4, <1>5, <1>6

LEMMA WordCases ==
  ASSUME NEW l, NEW b
  PROVE  /\ L!LookupToken(l, b) => LP!LookupToken(l, b)
         /\ L!InKeyword(l, b) => LP!InKeyword(l, b)
<1> USE DEF L!Proceed, LP!Proceed, L!Make, LP!Make, L!Fail, LP!Fail, L!Token, LP!Token,
            L!KeywordOf, LP!KeywordOf
<1>1. L!LookupToken(l, b) => LP!LookupToken(l, b)
  BY DEF L!LookupToken, LP!LookupToken, L!WHITESPACE, LP!WHITESPACE, L!Punctuation,
     LP!Punctuation, L!QUOTE, LP!QUOTE, L!TokenCBegin, LP!TokenCBegin, L!MINUS, LP!MINUS,
     L!DIGITS, LP!DIGITS, L!Digit, LP!Digit, L!PLUS, LP!PLUS
<1>2. L!InKeyword(l, b) => LP!InKeyword(l, b)
  BY DEF L!InKeyword, LP!InKeyword, L!KeywordStates, LP!KeywordStates, L!Keyword, LP!Keyword,
     L!KeywordError, LP!KeywordError, L!KeywordToken, LP!KeywordToken
<1> QED BY <1>1, <1>2

LEMMA LexerSteps ==
  /\ \A size : L!BeginPush(size) => LP!BeginPush(size)
  /\ \A b : L!Iterate(b) => LP!Iterate(b)
  /\ L!EndPush => LP!EndPush
  /\ L!Finalize => LP!Finalize
<1> USE DEF L!Alive, LP!Alive
<1>1. ASSUME NEW size, L!BeginPush(size) PROVE LP!BeginPush(size)
  BY <1>1 DEF L!BeginPush, LP!BeginPush, L!ChunkStates, LP!ChunkStates
<1>2. ASSUME NEW b, L!Iterate(b) PROVE LP!Iterate(b)
  <2>1. PICK l : l = L!Sniff(lex, b) OBVIOUS
  <2>2. l = LP!Sniff(lex, b)
    BY <2>1 DEF L!Sniff, LP!Sniff, L!Guess, LP!Guess, L!ZeroBytes, LP!ZeroBytes
  <2> QED BY <1>2, <2>1, <2>2, StringCases, NumberCases, WordCases DEF L!Iterate, LP!Iterate
<1>3. ASSUME L!EndPush PROVE LP!EndPush
  BY <1>3 DEF L!EndPush, LP!EndPush, L!CallsAtBufferEnd, LP!CallsAtBufferEnd, L!Make, LP!Make,
     L!Flush, LP!Flush, L!TokenC, LP!TokenC, L!TokenBn, LP!TokenBn
<1>4. ASSUME L!Finalize PROVE LP!Finalize
  BY <1>4 DEF L!Finalize, LP!Finalize, L!CallsAtEnd, LP!CallsAtEnd, L!ErrorAtEnd, LP!ErrorAtEnd,
     L!StringStates, LP!StringStates, L!Make, LP!Make, L!TokenI, LP!TokenI, L!TokenF, LP!TokenF,
     L!TokenBnEnd, LP!TokenBnEnd
<1> QED BY <1>1, <1>2, <1>3, <1>4

LEMMA ParserSteps == Alone!Next => PP!Next
  BY DEF Alone!Next, Alone!Running, Alone!embedjson_error_ex, Alone!Callback, Alone!SelfCheck,
     Alone!StackFull, Alone!StackPushFails, Alone!AfterContainer, Alone!AfterEmptyArray,
     Alone!AfterValue, Alone!AfterPop, Alone!Bracket, Alone!Opens, Alone!Closes,
     Alone!Separates, Alone!OpenBracket, Alone!CloseBracket, Alone!Separator, Alone!Literal,
     Alone!TokenError, Alone!RefuseToken, Alone!embedjson_token, Alone!NumberError,
     Alone!Number, Alone!embedjson_tokeni, Alone!embedjson_tokenf, Alone!StringError,
     Alone!embedjson_tokenc_begin, Alone!embedjson_tokenc, Alone!StringNextState,
     Alone!EndLexeme, Alone!embedjson_tokenc_end, Alone!embedjson_tokenbn_begin,
     Alone!embedjson_tokenbn, Alone!BignumNextState, Alone!embedjson_tokenbn_end,
     Alone!LexerError, Alone!embedjson_finalize, Alone!Stopped, Alone!vars, Alone!States,
     Alone!ValueStates, Alone!Literals, Alone!Tokens, Alone!STACK_VALUE_CURLY,
     Alone!STACK_VALUE_SQUARE, Alone!Last, Alone!Front,
     PP!Next, PP!Running, PP!embedjson_error_ex, PP!Callback, PP!SelfCheck,
     PP!StackFull, PP!StackPushFails, PP!AfterContainer, PP!AfterEmptyArray,
     PP!AfterValue, PP!AfterPop, PP!Bracket, PP!Opens, PP!Closes,
     PP!Separates, PP!OpenBracket, PP!CloseBracket, PP!Separator, PP!Literal,
     PP!TokenError, PP!RefuseToken, PP!embedjson_token, PP!NumberError,
     PP!Number, PP!embedjson_tokeni, PP!embedjson_tokenf, PP!StringError,
     PP!embedjson_tokenc_begin, PP!embedjson_tokenc, PP!StringNextState,
     PP!EndLexeme, PP!embedjson_tokenc_end, PP!embedjson_tokenbn_begin,
     PP!embedjson_tokenbn, PP!BignumNextState, PP!embedjson_tokenbn_end,
     PP!LexerError, PP!embedjson_finalize, PP!Stopped, PP!vars, PP!States,
     PP!ValueStates, PP!Literals, PP!Tokens, PP!STACK_VALUE_CURLY,
     PP!STACK_VALUE_SQUARE, PP!Last, PP!Front

(* The self-checks of the parser stop it at INVALID, or nothing leads there.*)
Contained == DEBUG \/ ~BIGNUM

Sound == RInv /\ PP!IInv /\ (err = "OK" => LP!IInv)

LEMMA SoundInit == TInit => Sound
<1> SUFFICES ASSUME TInit PROVE Sound OBVIOUS
<1>1. RInv /\ Alone!Init BY InitMapped DEF TInit
<1>2. PP!Init BY <1>1 DEF Alone!Init, PP!Init
<1>3. PP!TypeOK BY <1>2, PP!InitTypes, EmbedjsonAssumption
<1>4. PP!IInv
  BY <1>2, <1>3 DEF PP!Init, PP!IInv, PP!StackMatchesState, PP!ObjectStates, PP!ArrayStates,
     PP!LexemeMatchesState, PP!NoInternalError
<1>5. LP!Init BY DEF TInit, EInit, L!Init, LP!Init, L!ZeroedLexer, LP!ZeroedLexer
<1>6. LP!IInv BY <1>5, LP!InitLemma, EmbedjsonAssumption
<1> QED BY <1>1, <1>4, <1>6 DEF Sound

LEMMA SoundStep ==
  ASSUME Contained, Sound, [ENext]_evars
  PROVE  Sound'
<1>1. RInv' /\ [Alone!Next]_(Alone!vars) BY StepMapped DEF Sound
<1>2. PP!IInv'
  <2>1. [PP!Next]_(PP!vars) BY <1>1, ParserSteps DEF PP!vars, Alone!vars
  <2> QED BY <2>1, PP!InvStep, EmbedjsonAssumption DEF Sound, Contained, PP!Contained
<1>3. ASSUME err' = "OK" PROVE LP!IInv'
  <2>0. CASE UNCHANGED evars BY <2>0, <1>3 DEF evars, lexervars, Sound, LP!IInv
  <2> SUFFICES ASSUME ENext PROVE LP!IInv' BY <2>0
  <2>1. ASSUME NEW size \in 0..MaxBuffer, embedjson_push(size) PROVE LP!IInv'
    <3>1. LP!BeginPush(size) /\ err = "OK"
      BY <2>1, LexerSteps DEF embedjson_push, L!BeginPush, L!Alive
    <3> QED BY <3>1, LP!BeginPushLemma, EmbedjsonAssumption DEF Sound
  <2>2. ASSUME NEW b \in Alphabet, Scan(b) PROVE LP!IInv'
    <3>1. LP!Iterate(b) /\ err = "OK" BY <2>2, LexerSteps DEF Scan, L!Iterate, L!Alive
    <3> QED BY <3>1, LP!IterateLemma, EmbedjsonAssumption DEF Sound
  <2>3. CASE Return
    <3>1. LP!EndPush /\ err = "OK" BY <2>3, LexerSteps DEF Return, L!EndPush, L!Alive
    <3> QED BY <3>1, LP!EndPushLemma, EmbedjsonAssumption DEF Sound
  <2>4. CASE embedjson_lexer_finalize
    <3>1. LP!Finalize /\ err = "OK"
      BY <2>4, LexerSteps DEF embedjson_lexer_finalize, L!Finalize, L!Alive
    <3> QED BY <3>1, LP!FinalizeLemma, EmbedjsonAssumption DEF Sound
  <2>5. CASE RunCall
    <3>1. err = "OK" BY <2>5, CallRuns DEF RunCall
    <3>2. calls # <<>> /\ calls' = Tail(calls) /\ UNCHANGED lexervars
      BY <1>3, <2>5 DEF RunCall
    <3>3. calls' \in Seq(LP!Calls) BY <3>1, <3>2 DEF Sound, LP!IInv
    <3> QED BY <3>1, <3>2, <3>3 DEF Sound, LP!IInv, lexervars
  <2>6. CASE embedjson_finalize
    <3>1. UNCHANGED <<lexervars, calls>> /\ err = "OK"
      BY <2>6 DEF embedjson_finalize, P!embedjson_finalize, P!Running
    <3> QED BY <3>1 DEF lexervars, Sound, LP!IInv
  <2>7. CASE Over BY <2>0, <2>7 DEF Over
  <2> QED BY <2>1, <2>2, <2>3, <2>4, <2>5, <2>6, <2>7 DEF ENext
<1> QED BY <1>1, <1>2, <1>3 DEF Sound

(***************************************************************************)
(* The inductive invariant                                                 *)
(***************************************************************************)
Texts == Seq(Int)

Current == IF pushing THEN lex ELSE lexer

(* Inside a number whose value the parser is not told yet.                 *)
SmallNumberStates == L!NumberStates \ {"IN_BIG_NUMBER"}
NumberStarts == {"tokeni", "tokenf", "tokenbn_begin"}

(* What is told is complete, but for a container.                          *)
AfterStates == {"DONE", "MAYBE_OBJECT_COMMA", "MAYBE_ARRAY_COMMA"}

(* The separator is taken, what it separates is not.                       *)
SeparatedStates == {"EXPECT_OBJECT_VALUE", "EXPECT_OBJECT_KEY", "EXPECT_ARRAY_VALUE"}

Told == text \o (IF lexing = "none" /\ state \in SeparatedStates THEN owed ELSE <<>>)

(* What a token function is called for.                                    *)
TokenBytes(t) ==
  CASE t = "OPEN_CURLY_BRACKET" -> <<123>> [] t = "CLOSE_CURLY_BRACKET" -> <<125>>
    [] t = "OPEN_BRACKET" -> <<91>> [] t = "CLOSE_BRACKET" -> <<93>>
    [] t = "COMMA" -> <<COMMA>> [] t = "COLON" -> <<COLON>>
    [] t = "TRUE" -> L!Keyword["IN_TRUE"] [] t = "FALSE" -> L!Keyword["IN_FALSE"]
    [] OTHER -> L!Keyword["IN_NULL"]

Spelled(c) == CASE c.call = "token" -> TokenBytes(c.tok)
                [] c.call \in NumberStarts -> <<NUMBER>>
                [] c.call \in {"tokenc_begin", "tokenc_end"} -> <<L!QUOTE>>
                [] c.call = "tokenc" -> c.bytes
                [] OTHER -> <<>>

(* At most two calls, and what comes after them.                           *)
Spell(seq, rest) ==
  IF seq = <<>> THEN rest
  ELSE Spelled(Head(seq)) \o (IF Tail(seq) = <<>> THEN rest ELSE Spelled(Head(Tail(seq))) \o rest)

(* What the lexer has taken in without a call for it yet.                  *)
RestOf(l) == CASE l.state \in L!KeywordStates -> SubSeq(L!Keyword[l.state], 1, l.offset)
               [] l.state \in SmallNumberStates -> <<NUMBER>>
               [] l.state = "IN_STRING" /\ pushing -> chunk
               [] OTHER -> <<>>

Rest == IF scanned THEN <<>>
        ELSE IF again THEN IF compact.mode = "number" THEN <<>> ELSE First(data)
        ELSE RestOf(Current)

Begins(s, t) == \E v \in Texts : t = s \o v

(* A minus sign right after a number: the lexer begins another one, which  *)
(* the parser will refuse.                                                 *)
Doomed == /\ state \in AfterStates /\ lexing = "none" /\ Begins(Told, compact.bytes)
          /\ IF calls = <<>> THEN ~again /\ ~scanned /\ Current.state \in SmallNumberStates
             ELSE Head(calls).call \in NumberStarts

Matches == compact.bytes = Told \o Spell(calls, Rest) \/ Doomed

ModeOf(s) == CASE s \in L!NumberStates -> "number" [] s = "IN_STRING" -> "string"
               [] s = "IN_STRING_ESCAPE" -> "escape"
               [] s = "IN_STRING_UNICODE_ESCAPE" -> "unicode" [] OTHER -> "out"

(* Where a byte leaves the reader that is outside of everything.           *)
ModeAfter(b) == IF b \in L!DIGITS \cup {L!MINUS} THEN "number"
                ELSE IF b = L!QUOTE THEN "string" ELSE "out"

ModeAgain(b) == IF b \in NumberBytes THEN "number" ELSE ModeAfter(b)

(* The digits so far, and the bytes the lexer has made of them.            *)
Half(l) == LET h == compact.hex
           IN /\ Len(h) = l.offset
              /\ l.offset = 1 => l.unicode_cp[1] = 16 * L!HexValue(h[1])
              /\ l.offset > 1 => l.unicode_cp[1] = 16 * L!HexValue(h[1]) + L!HexValue(h[2])
              /\ l.offset = 3 => l.unicode_cp[2] = 16 * L!HexValue(h[3])

Modes ==
  /\ again => /\ pushing /\ ~scanned /\ lexing # "string"
              /\ Current.state = "LOOKUP_TOKEN" /\ compact.mode = ModeAgain(data)
  /\ ~again => compact.mode = ModeOf(Current.state)
  /\ Current.state = "IN_STRING_UNICODE_ESCAPE" => Half(Current)
  /\ again /\ lexing = "none" =>
       \/ calls = <<>> /\ state \in AfterStates
       \/ \E c : calls = <<c>> /\ c.call \in {"tokeni", "tokenf"}

(* What the application writes next depends on where the parser is.        *)
Owing ==
  IF lexing = "string"
  THEN IF state \in {"MAYBE_OBJECT_KEY", "EXPECT_OBJECT_KEY"} THEN <<COLON>> ELSE <<COMMA>>
  ELSE IF lexing = "bignum" THEN <<COMMA>>
  ELSE CASE state \in {"EXPECT_COLON", "EXPECT_OBJECT_VALUE"} -> <<COLON>>
         [] state \in {"EXPECT_VALUE", "MAYBE_OBJECT_KEY", "MAYBE_ARRAY_VALUE"} -> <<>>
         [] OTHER -> <<COMMA>>

ContainerOf(k) == IF k = 0 THEN "object" ELSE "array"

Nested == /\ nest \in Seq({"object", "array"}) /\ Len(nest) = Len(stack)
          /\ \A i \in 1..Len(stack) : nest[i] = ContainerOf(stack[i])

(* An array is empty while its bracket is the last thing written.          *)
EmptyShows == lexing = "none" =>
  /\ state = "MAYBE_ARRAY_VALUE" => text # <<>> /\ Last(text) = 91
  /\ state = "MAYBE_ARRAY_COMMA" => text # <<>> /\ Last(text) # 91

App == Nested /\ owed = Owing /\ EmptyShows

Written == text \in Texts /\ compact.bytes \in Texts /\ compact.hex \in Texts

TextInv ==
  /\ Sound /\ Written
  /\ err = "OK" => Modes /\ App /\ Matches
  /\ err # "OK" => Begins(text, compact.bytes)
  /\ finalized => text = compact.bytes /\ nest = <<>>

(***************************************************************************)
(* Texts                                                                   *)
(***************************************************************************)
LEMMA Joined ==
  /\ \A s, t \in Texts : s \o t \in Texts
  /\ \A s \in Texts : s \o <<>> = s /\ <<>> \o s = s
  /\ \A s, t, u \in Texts : (s \o t) \o u = s \o (t \o u)
  /\ \A s \in Texts, b \in Int : Append(s, b) = s \o <<b>> /\ <<b>> \in Texts
  /\ <<>> \in Texts /\ \A b \in Int : <<b>> \in Texts
<1>1. \A s, t \in Texts : s \o t \in Texts BY DEF Texts
<1>2. \A s \in Texts : s \o <<>> = s /\ <<>> \o s = s BY ConcatEmptySeq DEF Texts
<1>3. \A s, t, u \in Texts : (s \o t) \o u = s \o (t \o u)
  <2>1. ASSUME NEW s \in Seq(Int), NEW t \in Seq(Int), NEW u \in Seq(Int)
        PROVE  (s \o t) \o u = s \o (t \o u)
    BY SMTT(30)
  <2> QED BY <2>1, Zenon DEF Texts
<1>4. \A s \in Texts, b \in Int : Append(s, b) = s \o <<b>> /\ <<b>> \in Texts
  BY AppendIsConcat DEF Texts
<1>5. <<>> \in Texts /\ \A b \in Int : <<b>> \in Texts BY DEF Texts
<1> QED BY <1>1, <1>2, <1>3, <1>4, <1>5

LEMMA BeginsMore ==
  ASSUME NEW s \in Texts, NEW t \in Texts, NEW u \in Texts, Begins(s, t)
  PROVE  Begins(s, t \o u)
<1>1. PICK v \in Texts : t = s \o v BY DEF Begins
<1>2. t \o u = s \o (v \o u) /\ v \o u \in Texts BY <1>1, Joined, SMTT(30)
<1> QED BY <1>2 DEF Begins

LEMMA BeginsLess ==
  ASSUME NEW s \in Texts, NEW t \in Texts, NEW u, Begins(s \o t, u)
  PROVE  Begins(s, u)
<1>1. PICK v \in Texts : u = (s \o t) \o v BY DEF Begins
<1>2. u = s \o (t \o v) /\ t \o v \in Texts BY <1>1, Joined
<1> QED BY <1>2 DEF Begins

LEMMA BeginsIsPrefix ==
  ASSUME NEW s \in Texts, NEW t, Begins(s, t)
  PROVE  IsPrefix(s, t)
<1>1. PICK v \in Texts : t = s \o v BY DEF Begins
<1>2. /\ Len(s) <= Len(t) /\ \A i \in 1..Len(s) : s[i] = t[i]
      /\ Len(s) \in Nat /\ Len(t) \in Nat
  BY <1>1 DEF Texts
<1>3. SubSeq(s, 1, Len(s)) = SubSeq(t, 1, Len(s)) BY <1>1, <1>2 DEF Texts
<1> QED BY <1>2, <1>3 DEF IsPrefix, Texts

LEMMA SpellCases ==
  /\ \A r : Spell(<<>>, r) = r
  /\ \A r, c : Spell(<<c>>, r) = Spelled(c) \o r
  /\ \A r, c, d : Spell(<<c, d>>, r) = Spelled(c) \o (Spelled(d) \o r)
<1>1. \A c : <<c>> # <<>> /\ Head(<<c>>) = c /\ Tail(<<c>>) = <<>> OBVIOUS
<1>2. \A c, d : <<c, d>> # <<>> /\ Head(<<c, d>>) = c /\ Tail(<<c, d>>) = <<d>> OBVIOUS
<1> HIDE DEF Spelled
<1> QED BY <1>1, <1>2 DEF Spell

LEMMA SpellNext ==
  ASSUME NEW seq, NEW from, NEW to, Follows(seq, from, to), seq # <<>>, NEW r
  PROVE  Spell(seq, r) = Spelled(Head(seq)) \o Spell(Tail(seq), r)
<1>1. CASE \E c : seq = <<c>>
  <2>1. PICK c : seq = <<c>> BY <1>1
  <2>2. Head(seq) = c /\ Tail(seq) = <<>> BY <2>1
  <2> QED BY <2>1, <2>2, SpellCases, SMTT(30)
<1>2. CASE \E c, d : seq = <<c, d>>
  <2>1. PICK c, d : seq = <<c, d>> BY <1>2
  <2>2. Head(seq) = c /\ Tail(seq) = <<d>> BY <2>1
  <2>3. Spell(<<d>>, r) = Spelled(d) \o r BY SpellCases
  <2>4. Spell(<<c, d>>, r) = Spelled(c) \o (Spelled(d) \o r) BY SpellCases
  <2> QED BY <2>1, <2>2, <2>3, <2>4
<1> QED BY <1>1, <1>2 DEF Follows

(***************************************************************************)
(* The token functions                                                     *)
(***************************************************************************)
KeyStates == {"MAYBE_OBJECT_KEY", "EXPECT_OBJECT_KEY"}
PlainStates == {"EXPECT_VALUE", "DONE", "EXPECT_COLON", "MAYBE_OBJECT_COMMA", "MAYBE_ARRAY_VALUE",
                "MAYBE_ARRAY_COMMA", "MAYBE_OBJECT_KEY"}

(* Where the parser may be.                                                *)
Place ==
  /\ state \in PlainStates \cup SeparatedStates
  /\ stack \in Seq({0, 1})
  /\ state \in KeyStates \cup {"EXPECT_COLON", "MAYBE_OBJECT_COMMA", "EXPECT_OBJECT_VALUE"} =>
       stack # <<>> /\ Last(stack) = 0
  /\ state \in {"MAYBE_ARRAY_VALUE", "EXPECT_ARRAY_VALUE", "MAYBE_ARRAY_COMMA"} =>
       stack # <<>> /\ Last(stack) = 1
  /\ state \in {"EXPECT_VALUE", "DONE"} => stack = <<>>
  /\ lexing = "string" => state \in P!ValueStates \cup KeyStates
  /\ lexing = "bignum" => BIGNUM /\ state \in AfterStates

LEMMA PlaceLemma ==
  ASSUME Sound, err = "OK"
  PROVE  Place
<1>1. PP!IInv /\ ParserErr = "OK" BY Mapping DEF Sound
<1>2. /\ state \in PlainStates \cup SeparatedStates
      /\ stack \in Seq({0, 1})
  BY <1>1 DEF PP!IInv, PP!TypeOK, PP!States, PP!STACK_VALUE_CURLY, PP!STACK_VALUE_SQUARE,
     PlainStates, SeparatedStates
<1>3. PP!Last(stack) = Last(stack) BY DEF PP!Last, Last
<1>4. PP!StackMatchesState /\ PP!LexemeMatchesState BY <1>1 DEF PP!IInv
<1> QED BY <1>1, <1>2, <1>3, <1>4 DEF Place, PP!StackMatchesState, PP!LexemeMatchesState,
     PP!ObjectStates, PP!ArrayStates, PP!STACK_VALUE_CURLY, PP!STACK_VALUE_SQUARE, KeyStates,
     AfterStates, PP!KeyStates, PP!ValueStates, P!ValueStates

LEMMA OwingLemma ==
  ASSUME owed = Owing
  PROVE  /\ owed \in Texts
         /\ state \in P!ValueStates \cup KeyStates /\ lexing = "none" => Told = text \o owed
         /\ state \notin SeparatedStates \/ lexing # "none" => Told = text \o <<>>
<1>1. owed \in {<<>>, <<COMMA>>, <<COLON>>} BY DEF Owing
<1>2. owed \in Texts BY <1>1, Joined DEF COMMA, COLON
<1>3. ASSUME state \in P!ValueStates \cup KeyStates, lexing = "none" PROVE Told = text \o owed
  <2>1. state \in SeparatedStates \/ owed = <<>>
    BY <1>3 DEF Owing, P!ValueStates, KeyStates, SeparatedStates
  <2> QED BY <1>3, <2>1 DEF Told
<1>4. state \notin SeparatedStates \/ lexing # "none" => Told = text \o <<>> BY DEF Told
<1> QED BY <1>2, <1>3, <1>4

(* What the parser tells of the call c is what the call is for.            *)
Tells(c) == Told' = Told \o Spelled(c) /\ App' /\ text' \in Texts

LEMMA LastByte ==
  ASSUME NEW s \in Texts, NEW t \in Texts, t # <<>>
  PROVE  s \o t # <<>> /\ Last(s \o t) = Last(t)
  BY DEF Texts, Last

LEMMA ScalarTells ==
  ASSUME NEW c, NEW bytes \in Texts, bytes # <<>>, Last(bytes) # 91,
         Written, App, Place, lexing = "none", state \in P!ValueStates,
         Scalar(bytes), Spelled(c) = bytes, UNCHANGED stack, state' = P!AfterValue(state),
         lexing' \in {"none", "bignum"}
  PROVE  Tells(c)
<1>1. owed \in Texts /\ Told = text \o owed BY OwingLemma DEF App
<1>2. state' \in AfterStates BY DEF P!AfterValue, AfterStates
<1>3. text' = Told \o bytes /\ text' \in Texts
  BY <1>1, Joined DEF Scalar, Separated, Written
<1>4. Told' = text' BY <1>2, <1>3, Joined DEF Told, AfterStates, SeparatedStates
<1>5. owed' = Owing' BY <1>2 DEF Scalar, Owing, AfterStates
<1>6. text \o owed \in Texts BY <1>1, Joined DEF Written
<1>7. text' # <<>> /\ Last(text') # 91 BY <1>1, <1>3, <1>6, LastByte
<1>8. EmptyShows' BY <1>2, <1>7 DEF EmptyShows, AfterStates
<1>9. Nested' BY DEF App, Nested, Scalar
<1> QED BY <1>3, <1>4, <1>5, <1>8, <1>9 DEF Tells, App

LEMMA SeparatorTells ==
  ASSUME NEW c, c.call = "token", P!Separator(c.tok), Written, App, lexing = "none", lexing' = "none",
         UNCHANGED application
  PROVE  Tells(c)
<1> USE DEF P!Separator, P!Separates
<1>1. owed \in Texts /\ Told = text BY OwingLemma, Joined DEF App, Written, SeparatedStates
<1>2. Spelled(c) = owed
  <2>1. Spelled(c) = TokenBytes(c.tok) BY DEF Spelled, NumberStarts
  <2>2. CASE c.tok = "COLON" /\ state = "EXPECT_COLON" BY <2>1, <2>2 DEF App, Owing, TokenBytes
  <2>3. CASE c.tok = "COMMA" /\ state \in {"MAYBE_OBJECT_COMMA", "MAYBE_ARRAY_COMMA"}
    BY <2>1, <2>3 DEF App, Owing, TokenBytes
  <2> QED BY <2>2, <2>3
<1>3. state' \in SeparatedStates BY DEF SeparatedStates
<1>4. Told' = text \o owed BY <1>3 DEF Told, application
<1>5. owed' = Owing' BY DEF App, Owing, application
<1>6. Nested' BY DEF App, Nested, application
<1>7. EmptyShows' BY <1>3 DEF EmptyShows, SeparatedStates
<1> QED BY <1>1, <1>2, <1>4, <1>5, <1>6, <1>7 DEF Tells, App, Written, application

LEMMA SpelledCases ==
  ASSUME NEW c
  PROVE  /\ c.call = "token" => Spelled(c) = TokenBytes(c.tok)
         /\ c.call \in NumberStarts => Spelled(c) = <<NUMBER>>
         /\ c.call \in {"tokenc_begin", "tokenc_end"} => Spelled(c) = <<L!QUOTE>>
         /\ c.call = "tokenc" => Spelled(c) = c.bytes
         /\ c.call \in {"tokenbn", "tokenbn_end"} => Spelled(c) = <<>>
  BY DEF Spelled, NumberStarts

LEMMA WriteCases ==
  ASSUME NEW e, NEW c
  PROVE  /\ e = "object_begin" => (Write(e, c) <=> Begin("object", 123))
         /\ e = "object_end" => (Write(e, c) <=> End(125, <<COMMA>>))
         /\ e = "array_begin" => (Write(e, c) <=> Begin("array", 91))
         /\ e = "array_end" => (Write(e, c) <=> End(93, AfterArray))
         /\ e \in {"null", "bool_0", "bool_1"} => (Write(e, c) <=> Scalar(Literally[e]))
         /\ e \in {"int", "double", "bignum_begin"} => (Write(e, c) <=> Scalar(<<NUMBER>>))
         /\ e = "string_begin" => (Write(e, c) <=> StringBegin)
         /\ e = "string_chunk" => (Write(e, c) <=> Within(c.bytes))
         /\ e = "string_end" => (Write(e, c) <=> Within(<<L!QUOTE>>))
         /\ e = "bignum_chunk" => (Write(e, c) <=> Within(<<>>))
<1>1. DOMAIN Literally = {"null", "bool_0", "bool_1"} BY DEF Literally
<1> HIDE DEF Literally
<1> QED BY <1>1 DEF Write

LEMMA OpenTells ==
  ASSUME NEW c, c.call = "token", P!OpenBracket(c.tok), err' = "OK", Written, App, Place,
         lexing = "none", lexing' = "none", Write(event', c)
  PROVE  Tells(c)
<1> DEFINE k == P!Bracket(c.tok)
           byte == IF k = 0 THEN 123 ELSE 91
<1>0. state \in P!ValueStates /\ c.tok \in {"OPEN_CURLY_BRACKET", "OPEN_BRACKET"}
  BY DEF P!OpenBracket, P!Opens
<1>1. stack' = Append(stack, k)
  BY DEF P!OpenBracket, P!StackPushFails, P!embedjson_error_ex
<1>2. /\ event' = IF k = 0 THEN "object_begin" ELSE "array_begin"
      /\ state' = IF k = 0 THEN "MAYBE_OBJECT_KEY" ELSE "MAYBE_ARRAY_VALUE"
  BY DEF P!OpenBracket, P!StackPushFails, P!embedjson_error_ex, P!Callback,
     P!STACK_VALUE_CURLY
<1>3. k \in {0, 1} /\ Spelled(c) = <<byte>>
  BY <1>0, SpelledCases DEF P!Bracket, P!STACK_VALUE_CURLY, P!STACK_VALUE_SQUARE, TokenBytes
<1> HIDE DEF k
<1>4. Begin(ContainerOf(k), byte) BY <1>2, <1>3, WriteCases DEF ContainerOf
<1>5. owed \in Texts /\ Told = text \o owed BY <1>0, OwingLemma DEF App
<1>6. byte \in Int /\ <<byte>> \in Texts BY Joined
<1>7. text' = Told \o <<byte>> /\ text' \in Texts
  BY <1>4, <1>5, <1>6, Joined DEF Begin, Separated, Written
<1>8. Told' = text' BY <1>2, <1>7, Joined DEF Told, SeparatedStates
<1>9. owed' = Owing' BY <1>2, <1>4 DEF Owing, Begin
<1>10. EmptyShows'
  <2>1. text \o owed \in Texts BY <1>5, Joined DEF Written
  <2>2. text' # <<>> /\ Last(text') = byte BY <1>5, <1>6, <1>7, <2>1, LastByte DEF Last
  <2> QED BY <1>2, <2>2 DEF EmptyShows
<1>11. Nested'
  <2>1. nest' = Append(nest, ContainerOf(k)) BY <1>4 DEF Begin
  <2> QED BY <1>1, <1>3, <2>1 DEF Nested, App, Place, ContainerOf
<1> QED BY <1>3, <1>7, <1>8, <1>9, <1>10, <1>11 DEF Tells, App

LEMMA FrontLemma ==
  ASSUME NEW S, NEW s \in Seq(S), s # <<>>
  PROVE  /\ Front(s) \in Seq(S) /\ Len(Front(s)) = Len(s) - 1
         /\ \A i \in 1..(Len(s) - 1) : Front(s)[i] = s[i]
<1> DEFINE n == Len(s) - 1
<1>1. n \in Nat /\ 1 \in Int BY EmptySeq
<1>2. \A i \in 1..n : s[i] \in S OBVIOUS
<1>3. /\ SubSeq(s, 1, n) \in Seq(S)
      /\ Len(SubSeq(s, 1, n)) = IF 1 <= n THEN n - 1 + 1 ELSE 0
      /\ \A i \in 1..(n - 1 + 1) : SubSeq(s, 1, n)[i] = s[1 + i - 1]
  BY <1>1, <1>2, SubSeqProperties
<1>4. Front(s) = SubSeq(s, 1, n) BY DEF Front
<1> HIDE DEF n
<1>5. (1 <= n => n - 1 + 1 = n) /\ (~(1 <= n) => n = 0) /\ n - 1 + 1 = n
  BY <1>1
<1>6. \A i \in 1..n : 1 + i - 1 = i BY <1>1
<1>7. Len(Front(s)) = n BY <1>3, <1>4, <1>5
<1>8. \A i \in 1..n : Front(s)[i] = s[i] BY <1>3, <1>4, <1>5, <1>6
<1> QED BY <1>3, <1>4, <1>7, <1>8 DEF n

LEMMA CloseTells ==
  ASSUME NEW c, c.call = "token", P!CloseBracket(c.tok), err' = "OK", Written, App, Place,
         lexing = "none", lexing' = "none", Write(event', c)
  PROVE  Tells(c)
<1> DEFINE k == P!Bracket(c.tok)
           byte == IF k = 0 THEN 125 ELSE 93
<1>0. \/ c.tok = "CLOSE_CURLY_BRACKET" /\ state \in {"MAYBE_OBJECT_KEY", "MAYBE_OBJECT_COMMA"}
      \/ c.tok = "CLOSE_BRACKET" /\ state \in {"MAYBE_ARRAY_VALUE", "MAYBE_ARRAY_COMMA"}
  BY DEF P!CloseBracket, P!Closes
<1>1. stack # <<>> /\ stack \in Seq({0, 1}) BY <1>0 DEF Place, KeyStates
<1>2. /\ event' = IF k = 0 THEN "object_end" ELSE "array_end"
      /\ stack' = P!Front(stack) /\ state' \in P!AfterPop
  BY DEF P!CloseBracket, P!embedjson_error_ex, P!Callback, P!STACK_VALUE_CURLY
<1>3. k \in {0, 1} /\ Spelled(c) = <<byte>>
  BY <1>0, SpelledCases DEF P!Bracket, P!STACK_VALUE_CURLY, P!STACK_VALUE_SQUARE, TokenBytes
<1>4. k = 0 <=> state \in {"MAYBE_OBJECT_KEY", "MAYBE_OBJECT_COMMA"}
  BY <1>0 DEF P!Bracket, P!STACK_VALUE_CURLY, P!STACK_VALUE_SQUARE
<1> HIDE DEF k
<1> DEFINE s == Front(stack)
<1>5. /\ P!Front(stack) = s /\ s \in Seq({0, 1}) /\ Len(s) = Len(stack) - 1
      /\ \A i \in 1..Len(s) : s[i] = stack[i]
  <2>1. P!Front(stack) = s BY DEF P!Front, Front
  <2> QED BY <1>1, <2>1, FrontLemma
<1>6. s # <<>> <=> Len(stack) > 1 BY <1>1, <1>5
<1>7. s # <<>> => P!Last(s) = stack[Len(stack) - 1] BY <1>5 DEF P!Last
<1> HIDE DEF s
<1>8. state' = IF state = "MAYBE_ARRAY_VALUE" THEN P!AfterEmptyArray(s) ELSE P!AfterContainer(s)
  BY <1>1, <1>2, <1>5 DEF P!AfterPop
<1>9. state' \in AfterStates \cup {"MAYBE_OBJECT_KEY"}
  BY <1>8 DEF P!AfterEmptyArray, P!AfterContainer, AfterStates
<1>10. state' = "MAYBE_OBJECT_KEY" <=>
         state = "MAYBE_ARRAY_VALUE" /\ Len(stack) > 1 /\ stack[Len(stack) - 1] = 0
  BY <1>6, <1>7, <1>8 DEF P!AfterEmptyArray, P!AfterContainer, P!STACK_VALUE_CURLY
<1>11. End(byte, IF k = 0 THEN <<COMMA>> ELSE AfterArray)
  BY <1>2, <1>3, WriteCases
<1>12. Told = text /\ text' = Told \o <<byte>> /\ text' \in Texts
  <2>1. Told = text
    BY <1>0, OwingLemma, Joined DEF App, Written, SeparatedStates
  <2>2. text' = text \o <<byte>> /\ <<byte>> \in Texts BY <1>11, Joined DEF End, Written
  <2> QED BY <2>1, <2>2, Joined DEF Written
<1>13. Told' = text'
  <2>1. state' \notin SeparatedStates BY <1>9 DEF SeparatedStates, AfterStates
  <2> QED BY <1>12, <2>1, Joined DEF Told
<1>14. owed' = IF state' = "MAYBE_OBJECT_KEY" THEN <<>> ELSE <<COMMA>>
  <2>1. CASE k = 0 BY <1>4, <1>10, <1>11, <2>1 DEF End
  <2>2. CASE k # 0
    <3>1. state = "MAYBE_ARRAY_VALUE" <=> Last(text) = 91
      BY <1>0, <1>4, <2>2 DEF App, EmptyShows
    <3>2. Len(stack) > 1 => (nest[Len(nest) - 1] = "object" <=> stack[Len(stack) - 1] = 0)
      BY <1>1 DEF App, Nested, ContainerOf
    <3>3. Len(nest) = Len(stack) BY DEF App, Nested
    <3> QED BY <1>10, <1>11, <2>2, <3>1, <3>2, <3>3 DEF End, AfterArray
  <2> QED BY <2>1, <2>2
<1>15. owed' = Owing' BY <1>9, <1>14 DEF Owing, AfterStates
<1>16. EmptyShows'
  <2>1. text' # <<>> /\ Last(text') = byte
    BY <1>12, LastByte, Joined DEF Written, Last
  <2> QED BY <1>9, <2>1 DEF EmptyShows, AfterStates
<1>17. Nested'
  <2>1. nest' = Front(nest) BY <1>11 DEF End
  <2>2. /\ nest \in Seq({"object", "array"}) /\ Len(nest) = Len(stack) /\ Len(stack) > 0
        /\ \A i \in 1..Len(stack) : nest[i] = ContainerOf(stack[i])
    BY <1>1 DEF App, Nested
  <2>3. /\ nest' \in Seq({"object", "array"}) /\ Len(nest') = Len(nest) - 1
        /\ \A i \in 1..Len(nest') : nest'[i] = nest[i]
    BY <2>1, <2>2 DEF Front
  <2>4. stack' = s BY <1>2, <1>5
  <2> QED BY <1>5, <2>2, <2>3, <2>4, SMTT(30) DEF Nested
<1> QED BY <1>3, <1>12, <1>13, <1>15, <1>16, <1>17 DEF Tells, App

LEMMA Words ==
  /\ L!Keyword["IN_TRUE"] = <<116, 114, 117, 101>>
  /\ L!Keyword["IN_FALSE"] = <<102, 97, 108, 115, 101>>
  /\ L!Keyword["IN_NULL"] = <<110, 117, 108, 108>>
  BY DEF L!Keyword, L!KeywordStates

LEMMA LiteralTells ==
  ASSUME NEW c, c.call = "token", P!Literal(c.tok), err' = "OK", Written, App, Place,
         lexing = "none", lexing' = "none", Write(event', c)
  PROVE  Tells(c)
<1>1. /\ state \in P!ValueStates /\ state' = P!AfterValue(state) /\ UNCHANGED stack
      /\ c.tok \in {"TRUE", "FALSE", "NULL"}
      /\ event' = CASE c.tok = "TRUE" -> "bool_1" [] c.tok = "FALSE" -> "bool_0" [] OTHER -> "null"
  BY DEF P!Literal, P!Literals, P!Callback
<1>2. PICK bytes : bytes = TokenBytes(c.tok) OBVIOUS
<1>3. /\ c.tok = "TRUE" => bytes = <<116, 114, 117, 101>>
      /\ c.tok = "FALSE" => bytes = <<102, 97, 108, 115, 101>>
      /\ c.tok = "NULL" => bytes = <<110, 117, 108, 108>>
  BY <1>2, Words DEF TokenBytes
<1>4. /\ <<116, 114, 117, 101>> \in Texts /\ <<102, 97, 108, 115, 101>> \in Texts
      /\ <<110, 117, 108, 108>> \in Texts
  BY DEF Texts
<1>5. bytes \in Texts /\ bytes # <<>> /\ Last(bytes) # 91
  <2>1. /\ Last(<<116, 114, 117, 101>>) = 101 /\ Last(<<102, 97, 108, 115, 101>>) = 101
        /\ Last(<<110, 117, 108, 108>>) = 108
    BY DEF Last
  <2> QED BY <1>1, <1>3, <1>4, <2>1
<1>6. Literally["bool_1"] = L!Keyword["IN_TRUE"] /\ Literally["bool_0"] = L!Keyword["IN_FALSE"]
      /\ Literally["null"] = L!Keyword["IN_NULL"]
  BY DEF Literally
<1>7. Literally[event'] = bytes /\ event' \in {"null", "bool_0", "bool_1"}
  BY <1>1, <1>3, <1>6, Words
<1>8. Scalar(bytes) BY <1>7, WriteCases
<1>9. Spelled(c) = bytes BY <1>2, SpelledCases
<1> QED BY <1>1, <1>5, <1>8, <1>9, ScalarTells

(* The callback made for the call c is written.                            *)
Wrote(c) == IF err' = "OK" /\ MakesCallback(c) THEN Write(event', c) ELSE UNCHANGED application

LEMMA TokenTells ==
  ASSUME NEW c, c.call = "token", c.tok \in P!Tokens, P!embedjson_token(c.tok), err' = "OK",
         Written, App, Place, Wrote(c)
  PROVE  Tells(c)
<1>1. lexing = "none" /\ lexing' = "none" BY DEF P!embedjson_token
<1>2. CASE P!OpenBracket(c.tok)
  <2>1. MakesCallback(c) BY <1>2 DEF MakesCallback, P!OpenBracket, P!Opens
  <2> QED BY <1>1, <1>2, <2>1, OpenTells DEF Wrote
<1>3. CASE P!CloseBracket(c.tok)
  <2>1. MakesCallback(c) BY <1>3 DEF MakesCallback, P!CloseBracket, P!Closes
  <2> QED BY <1>1, <1>3, <2>1, CloseTells DEF Wrote
<1>4. CASE P!Separator(c.tok)
  <2>1. ~MakesCallback(c) BY <1>4 DEF MakesCallback, P!Separator, P!Separates
  <2> QED BY <1>1, <1>4, <2>1, SeparatorTells DEF Wrote
<1>5. CASE P!Literal(c.tok)
  <2>1. MakesCallback(c) BY <1>5 DEF MakesCallback, P!Literal, P!Literals
  <2> QED BY <1>1, <1>5, <2>1, LiteralTells DEF Wrote
<1>6. CASE P!RefuseToken(c.tok)
  <2>1. P!TokenError(c.tok) = "OK" BY <1>6 DEF P!RefuseToken, P!embedjson_error_ex
  <2>2. c.tok \in {"CLOSE_CURLY_BRACKET", "CLOSE_BRACKET", "COMMA", "COLON"} \/ state \notin P!ValueStates
    BY <1>6 DEF P!RefuseToken, P!Opens, P!Tokens
  <2> QED BY <2>1, <2>2 DEF P!TokenError, Place, PlainStates, SeparatedStates, P!ValueStates
<1> QED BY <1>2, <1>3, <1>4, <1>5, <1>6 DEF P!embedjson_token

LEMMA NumberTells ==
  ASSUME NEW c, c.call \in NumberStarts, NEW e \in {"int", "double", "bignum_begin"},
         P!Number(e), err' = "OK", Written, App, Place, lexing = "none",
         lexing' \in {"none", "bignum"}, Wrote(c)
  PROVE  Tells(c) /\ state' \in AfterStates
<1>1. state \in P!ValueStates
  <2>1. SUFFICES ASSUME state \notin P!ValueStates PROVE FALSE OBVIOUS
  <2>2. P!NumberError(state) = "OK" BY <2>1 DEF P!Number, P!embedjson_error_ex
  <2> QED BY <2>1, <2>2 DEF P!NumberError, Place, PlainStates, SeparatedStates, P!ValueStates
<1>2. state' = P!AfterValue(state) /\ event' = e /\ UNCHANGED stack
  BY <1>1 DEF P!Number, P!Callback
<1>3. MakesCallback(c) BY DEF MakesCallback, NumberStarts
<1>4. Scalar(<<NUMBER>>) BY <1>2, <1>3, WriteCases DEF Wrote
<1>5. <<NUMBER>> \in Texts /\ <<NUMBER>> # <<>> /\ Last(<<NUMBER>>) # 91
  BY DEF Texts, NUMBER, Last
<1>6. Tells(c) BY <1>1, <1>2, <1>4, <1>5, SpelledCases, ScalarTells
<1>7. state' \in AfterStates BY <1>1, <1>2 DEF P!AfterValue, AfterStates
<1> QED BY <1>6, <1>7

(* The lexeme goes on or ends: the bytes are written as they are.          *)
LEMMA WithinTells ==
  ASSUME NEW c, NEW bytes \in Texts, Written, App, lexing # "none", Within(bytes),
         Spelled(c) = bytes, UNCHANGED stack,
         \/ lexing' = lexing /\ UNCHANGED state
         \/ lexing = "string" /\ lexing' = "none" /\ state' \in P!StringNextState(state),
         Place, (bytes # <<>> /\ Last(bytes) # 91) \/ lexing' = lexing
  PROVE  Tells(c)
<1>1. Told = text BY OwingLemma, Joined DEF App, Written
<1>2. text' = text \o bytes /\ text' \in Texts BY Joined DEF Within, Written
<1>3. lexing' = "none" => state' \in AfterStates \cup {"EXPECT_COLON"}
  BY DEF P!StringNextState, Place, P!ValueStates, KeyStates, AfterStates
<1>4. Told' = text'
  <2>1. lexing' # "none" \/ state' \notin SeparatedStates BY <1>3 DEF AfterStates, SeparatedStates
  <2> QED BY <1>2, <2>1, Joined DEF Told
<1>5. owed' = Owing'
  <2>1. owed' = Owing BY DEF App, Within
  <2>2. CASE lexing' = lexing /\ UNCHANGED state BY <2>1, <2>2 DEF Owing
  <2>3. CASE lexing = "string" /\ lexing' = "none" /\ state' \in P!StringNextState(state)
    <3>1. CASE state \in KeyStates
      <4>1. state' = "EXPECT_COLON" BY <2>3, <3>1 DEF P!StringNextState, KeyStates
      <4> QED BY <2>1, <2>3, <3>1, <4>1 DEF Owing, KeyStates
    <3>2. CASE state \in P!ValueStates
      <4>1. state' \in AfterStates
        BY <2>3, <3>2 DEF P!StringNextState, P!ValueStates, AfterStates
      <4> QED BY <2>1, <2>3, <3>2, <4>1 DEF Owing, P!ValueStates, AfterStates
    <3> QED BY <2>3, <3>1, <3>2 DEF Place
  <2> QED BY <2>2, <2>3
<1>6. EmptyShows'
  <2>1. CASE lexing' = lexing BY <2>1 DEF EmptyShows
  <2>2. CASE lexing' # lexing
    <3>1. text' # <<>> /\ Last(text') # 91 BY <1>2, <2>2, LastByte DEF Written
    <3> QED BY <1>3, <2>2, <3>1 DEF EmptyShows, AfterStates
  <2> QED BY <2>1, <2>2
<1>7. Nested' BY DEF App, Nested, Within
<1> QED BY <1>1, <1>2, <1>4, <1>5, <1>6, <1>7 DEF Tells, App

LEMMA ByteTexts == \A s \in Seq(0..255) : s \in Texts
<1> SUFFICES ASSUME NEW s \in Seq(0..255) PROVE s \in Seq(Int) BY DEF Texts
<1>1. s \in [1..Len(s) -> 0..255] /\ Len(s) \in Nat BY LenProperties
<1>2. \A x \in 0..255 : x \in Int OBVIOUS
<1>3. s \in [1..Len(s) -> Int]
  <2>1. PICK D : D = 1..Len(s) OBVIOUS
  <2>2. PICK B : B = 0..255 OBVIOUS
  <2>3. s \in [D -> B] /\ \A x \in B : x \in Int BY <1>1, <1>2, <2>1, <2>2
  <2>4. s \in [D -> Int] BY <2>3
  <2> QED BY <2>1, <2>4
<1>4. Seq(Int) = UNION {[1..n -> Int] : n \in Nat} BY SeqDef
<1> QED BY <1>1, <1>3, <1>4

LEMMA SpelledText ==
  ASSUME NEW c \in LP!Calls
  PROVE  Spelled(c) \in Texts
<1>1. CASE c.call = "token"
  <2>1. /\ <<116, 114, 117, 101>> \in Texts /\ <<102, 97, 108, 115, 101>> \in Texts
        /\ <<110, 117, 108, 108>> \in Texts
        /\ \A b \in 0..255 : <<b>> \in Texts
    BY DEF Texts
  <2>2. \A t : TokenBytes(t) \in Texts BY <2>1, Words DEF TokenBytes, COMMA, COLON
  <2> QED BY <1>1, <2>2, SpelledCases
<1>2. CASE c.call = "tokenc"
  <2>1. c \in [call : {"tokenc"}, bytes : Seq(0..255)]
    BY <1>2 DEF LP!Calls, LP!PlainCalls, LP!Byte
  <2> QED BY <1>2, <2>1, ByteTexts, SpelledCases
<1>3. CASE c.call \notin {"token", "tokenc"}
  <2>1. <<NUMBER>> \in Texts /\ <<L!QUOTE>> \in Texts /\ <<>> \in Texts
    BY DEF Texts, NUMBER, L!QUOTE
  <2> QED BY <1>3, <2>1 DEF Spelled
<1> QED BY <1>1, <1>2, <1>3

LEMMA CallTells ==
  ASSUME Contained, NEW c \in LP!Calls, NEW via, Takes(c, lexing, via), Call(c), err' = "OK",
         Written, App, Place, Wrote(c)
  PROVE  /\ Tells(c)
         /\ c.call # "tokenbn_end"
         /\ c.call \in NumberStarts => state \in P!ValueStates /\ state' \in AfterStates
         /\ c.call \in {"tokeni", "tokenf"} => lexing' = "none"
         /\ c.call = "tokenbn" => lexing' = lexing
<1>0. state # "INVALID" BY DEF Place, PlainStates, SeparatedStates
<1>1. CASE c.call = "token"
  BY <1>1, TokenTells DEF Call, Takes, NumberStarts
<1>2. CASE c.call = "tokeni"
  <2>1. P!Number("int") /\ lexing' = "none" /\ lexing = "none"
    BY <1>2 DEF Call, P!embedjson_tokeni
  <2>2. state \in P!ValueStates
    BY <2>1, <1>0 DEF P!Number, P!embedjson_error_ex, P!NumberError, P!ValueStates, Place,
       PlainStates, SeparatedStates
  <2> QED BY <1>2, <2>1, <2>2, NumberTells DEF NumberStarts
<1>3. CASE c.call = "tokenf"
  <2>1. P!Number("double") /\ lexing' = "none" /\ lexing = "none"
    BY <1>3 DEF Call, P!embedjson_tokenf
  <2>2. state \in P!ValueStates
    BY <2>1, <1>0 DEF P!Number, P!embedjson_error_ex, P!NumberError, P!ValueStates, Place,
       PlainStates, SeparatedStates
  <2> QED BY <1>3, <2>1, <2>2, NumberTells DEF NumberStarts
<1>4. CASE c.call = "tokenbn_begin"
  <2>1. P!Number("bignum_begin") /\ lexing' = "bignum" /\ lexing = "none"
    BY <1>4 DEF Call, P!embedjson_tokenbn_begin
  <2>2. state \in P!ValueStates
    BY <2>1, <1>0 DEF P!Number, P!embedjson_error_ex, P!NumberError, P!ValueStates, Place,
       PlainStates, SeparatedStates
  <2> QED BY <1>4, <2>1, <2>2, NumberTells DEF NumberStarts
<1>5. CASE c.call = "tokenc_begin"
  <2>1. /\ lexing = "none" /\ lexing' = "string" /\ UNCHANGED <<state, stack>>
        /\ state \in P!ValueStates \cup KeyStates /\ event' = "string_begin"
    BY <1>0, <1>5 DEF Call, P!embedjson_tokenc_begin, P!Callback, P!embedjson_error_ex,
       P!StringError, P!ValueStates, KeyStates, Place, PlainStates, SeparatedStates
  <2>2. StringBegin BY <1>5, <2>1, WriteCases DEF Wrote, MakesCallback
  <2>3. Told = text \o owed /\ owed \in Texts BY <2>1, OwingLemma DEF App
  <2>4. <<L!QUOTE>> \in Texts /\ Spelled(c) = <<L!QUOTE>>
    BY <1>5, SpelledCases DEF Texts, L!QUOTE
  <2>5. text' = Told \o Spelled(c) /\ text' \in Texts
    BY <2>2, <2>3, <2>4, Joined DEF StringBegin, Separated, Written
  <2>6. Told' = text' BY <2>1, <2>5, Joined DEF Told
  <2>7. IsKey <=> state \in KeyStates
    <3>1. nest \in Seq({"object", "array"}) /\ Len(nest) = Len(stack)
          /\ \A i \in 1..Len(stack) : nest[i] = ContainerOf(stack[i])
      BY DEF App, Nested
    <3>2. stack \in Seq({0, 1}) BY DEF Place
    <3>3. stack # <<>> => nest # <<>> /\ (Last(nest) = "object" <=> Last(stack) = 0)
      BY <3>1, <3>2 DEF ContainerOf, Last
    <3>4. stack = <<>> => nest = <<>> BY <3>1
    <3>5. CASE state \in KeyStates
      BY <2>1, <3>3, <3>5 DEF IsKey, App, Owing, KeyStates, Place, COMMA, COLON
    <3>6. CASE state = "EXPECT_OBJECT_VALUE" BY <2>1, <3>6 DEF IsKey, App, Owing, KeyStates
    <3>7. CASE state \in {"MAYBE_ARRAY_VALUE", "EXPECT_ARRAY_VALUE"}
      BY <3>3, <3>7 DEF IsKey, KeyStates, Place
    <3>8. CASE state = "EXPECT_VALUE" BY <3>4, <3>8 DEF IsKey, KeyStates, Place
    <3> QED BY <2>1, <3>5, <3>6, <3>7, <3>8 DEF P!ValueStates
  <2>8. owed' = Owing' BY <2>1, <2>2, <2>7 DEF StringBegin, Owing, KeyStates
  <2>9. EmptyShows' BY <2>1 DEF EmptyShows
  <2>10. Nested' BY <2>1, <2>2 DEF App, Nested, StringBegin
  <2> QED BY <1>5, <2>5, <2>6, <2>8, <2>9, <2>10 DEF Tells, App, NumberStarts
<1>6. CASE c.call = "tokenc"
  <2>1. /\ lexing = "string" /\ UNCHANGED <<state, stack, lexing>> /\ event' = "string_chunk"
    BY <1>0, <1>6 DEF Call, P!embedjson_tokenc, P!Callback, P!SelfCheck
  <2>2. Within(c.bytes) /\ Spelled(c) = c.bytes
    BY <1>6, <2>1, WriteCases, SpelledCases DEF Wrote, MakesCallback
  <2>3. c.bytes \in Texts BY <1>6, SpelledText, <2>2
  <2>4. Tells(c) BY <2>1, <2>2, <2>3, WithinTells
  <2> QED BY <1>6, <2>4 DEF NumberStarts
<1>7. CASE c.call = "tokenc_end"
  <2>1. /\ lexing = "string" /\ lexing' = "none" /\ UNCHANGED stack
        /\ state' \in P!StringNextState(state) /\ event' = "string_end"
    BY <1>0, <1>7 DEF Call, P!embedjson_tokenc_end, P!EndLexeme, P!Callback, P!SelfCheck,
       P!embedjson_error_ex
  <2>2. Within(<<L!QUOTE>>) /\ Spelled(c) = <<L!QUOTE>>
    BY <1>7, <2>1, WriteCases, SpelledCases DEF Wrote, MakesCallback
  <2>3. <<L!QUOTE>> \in Texts /\ <<L!QUOTE>> # <<>> /\ Last(<<L!QUOTE>>) # 91
    BY DEF Texts, L!QUOTE, Last
  <2>4. Tells(c) BY <2>1, <2>2, <2>3, WithinTells
  <2> QED BY <1>7, <2>4 DEF NumberStarts
<1>8. CASE c.call = "tokenbn"
  <2>1. /\ lexing = "bignum" /\ UNCHANGED <<state, stack, lexing>> /\ event' = "bignum_chunk"
    BY <1>0, <1>8 DEF Call, P!embedjson_tokenbn, P!Callback, P!SelfCheck
  <2>2. Within(<<>>) /\ Spelled(c) = <<>>
    BY <1>8, <2>1, WriteCases, SpelledCases DEF Wrote, MakesCallback
  <2>3. <<>> \in Texts /\ lexing # "none" BY <2>1, Joined
  <2>4. Tells(c) BY <2>1, <2>2, <2>3, WithinTells
  <2> QED BY <1>8, <2>1, <2>4 DEF NumberStarts
<1>9. CASE c.call = "tokenbn_end"
  <2>1. lexing = "bignum" /\ P!EndLexeme(P!BignumNextState(state), "bignum_end")
    BY <1>9 DEF Call, P!embedjson_tokenbn_end
  <2>2. BIGNUM /\ state \in AfterStates BY <2>1 DEF Place
  <2>3. P!BignumNextState(state) = {"INVALID"} BY <2>2 DEF P!BignumNextState, AfterStates
  <2>4. DEBUG BY <2>2 DEF Contained
  <2> QED BY <1>0, <2>1, <2>3, <2>4 DEF P!EndLexeme, P!SelfCheck, P!embedjson_error_ex
<1> QED BY <1>1, <1>2, <1>3, <1>4, <1>5, <1>6, <1>7, <1>8, <1>9 DEF Call

(***************************************************************************)
(* What is known of the fields of the lexer                                *)
(***************************************************************************)
Fields(l) ==
  /\ {"state", "offset", "unicode_cp"} \subseteq DOMAIN l
  /\ l.state \in L!LexerStates
  /\ DOMAIN l.unicode_cp = 1..2 /\ l.unicode_cp[1] \in Int /\ l.unicode_cp[2] \in Int
  /\ l.state \in L!KeywordStates => l.offset \in 1..(Len(L!Keyword[l.state]) - 1)
  /\ l.state = "IN_STRING_UNICODE_ESCAPE" => l.offset \in 0..3

LEMMA FieldsLemma ==
  ASSUME NEW l, LP!Good(l)
  PROVE  Fields(l)
<1>1. LP!Keyword = L!Keyword /\ LP!KeywordStates = L!KeywordStates
  BY DEF LP!Keyword, L!Keyword, LP!KeywordStates, L!KeywordStates
<1>2. LP!LexerStates = L!LexerStates
  BY <1>1 DEF LP!LexerStates, L!LexerStates, LP!NumberStates, L!NumberStates, LP!StringStates,
     L!StringStates
<1>3. /\ {"state", "offset", "unicode_cp"} \subseteq DOMAIN l
      /\ l.state \in L!LexerStates /\ l.unicode_cp \in [1..2 -> 0..255]
  BY <1>2 DEF LP!Good, LP!LexerType
<1>4. DOMAIN l.unicode_cp = 1..2 /\ l.unicode_cp[1] \in Int /\ l.unicode_cp[2] \in Int BY <1>3
<1> QED BY <1>1, <1>3, <1>4 DEF Fields, LP!Good, LP!Offsets

LEMMA LexerFields ==
  ASSUME Sound, err = "OK"
  PROVE  /\ Fields(lexer) /\ Fields(lex) /\ Fields(Current)
         /\ data \in 0..255 /\ pushing \in BOOLEAN /\ again \in BOOLEAN
         /\ scanned \in BOOLEAN
         /\ pushing /\ lex.state = "IN_STRING" => chunk \in Texts
         /\ calls \in Seq(LP!Calls)
<1>1. LP!IInv BY DEF Sound
<1>2. Fields(lexer) /\ Fields(lex) /\ Fields(Current)
  BY <1>1, FieldsLemma DEF LP!IInv, Current
<1>3. pushing /\ lex.state = "IN_STRING" => chunk \in Texts
  BY <1>1, ByteTexts DEF LP!IInv, LP!GoodChunk, LP!Byte
<1> QED BY <1>1, <1>2, <1>3 DEF LP!IInv, LP!Byte

LEMMA StateNames ==
  /\ L!LexerStates = {"LOOKUP_TOKEN", "IN_BIG_NUMBER"} \cup SmallNumberStates \cup L!StringStates
                       \cup L!KeywordStates
  /\ SmallNumberStates = {"IN_NUMBER_SIGN", "IN_NUMBER", "IN_NUMBER_FRAC", "IN_NUMBER_EXP_SIGN",
                          "IN_NUMBER_EXP"}
  /\ L!StringStates = {"IN_STRING", "IN_STRING_ESCAPE", "IN_STRING_UNICODE_ESCAPE"}
  /\ L!KeywordStates = {"IN_TRUE", "IN_FALSE", "IN_NULL"}
  /\ L!NumberStates = SmallNumberStates \cup {"IN_BIG_NUMBER"}
  BY DEF L!LexerStates, SmallNumberStates, L!NumberStates, L!StringStates, L!KeywordStates

LEMMA RestOfCases ==
  ASSUME NEW l
  PROVE  /\ l.state \in L!KeywordStates => RestOf(l) = SubSeq(L!Keyword[l.state], 1, l.offset)
         /\ l.state \in SmallNumberStates => RestOf(l) = <<NUMBER>>
         /\ l.state = "IN_STRING" => RestOf(l) = IF pushing THEN chunk ELSE <<>>
         /\ l.state \in {"LOOKUP_TOKEN", "IN_BIG_NUMBER", "IN_STRING_ESCAPE",
                         "IN_STRING_UNICODE_ESCAPE"} => RestOf(l) = <<>>
  BY StateNames DEF RestOf

LEMMA ModeCases ==
  /\ \A s \in L!NumberStates : ModeOf(s) = "number"
  /\ ModeOf("IN_STRING") = "string" /\ ModeOf("IN_STRING_ESCAPE") = "escape"
  /\ ModeOf("IN_STRING_UNICODE_ESCAPE") = "unicode"
  /\ ModeOf("LOOKUP_TOKEN") = "out" /\ \A s \in L!KeywordStates : ModeOf(s) = "out"
  BY StateNames DEF ModeOf

LEMMA Letters ==
  ASSUME NEW s \in L!KeywordStates
  PROVE  /\ L!Keyword[s] \in Texts /\ Len(L!Keyword[s]) \in 4..5
         /\ \A i \in 1..Len(L!Keyword[s]) : L!Keyword[s][i] \in 97..122
<1>1. CASE s = "IN_TRUE"
  <2>1. PICK w : w = <<116, 114, 117, 101>> OBVIOUS
  <2>2. w \in Texts /\ Len(w) = 4 /\ \A i \in 1..4 : w[i] \in 97..122 BY <2>1 DEF Texts
  <2> QED BY <1>1, <2>1, <2>2, Words
<1>2. CASE s = "IN_FALSE"
  <2>1. PICK w : w = <<102, 97, 108, 115, 101>> OBVIOUS
  <2>2. w \in Texts /\ Len(w) = 5 /\ \A i \in 1..5 : w[i] \in 97..122 BY <2>1 DEF Texts
  <2> QED BY <1>2, <2>1, <2>2, Words
<1>3. CASE s = "IN_NULL"
  <2>1. PICK w : w = <<110, 117, 108, 108>> OBVIOUS
  <2>2. w \in Texts /\ Len(w) = 4 /\ \A i \in 1..4 : w[i] \in 97..122 BY <2>1 DEF Texts
  <2> QED BY <1>3, <2>1, <2>2, Words
<1> QED BY <1>1, <1>2, <1>3, StateNames

LEMMA SpelledLetters ==
  ASSUME NEW s \in L!KeywordStates, NEW n \in 1..Len(L!Keyword[s])
  PROVE  /\ SubSeq(L!Keyword[s], 1, n) \in Texts
         /\ n < Len(L!Keyword[s]) =>
              SubSeq(L!Keyword[s], 1, n) \o <<L!Keyword[s][n + 1]>> = SubSeq(L!Keyword[s], 1, n + 1)
         /\ SubSeq(L!Keyword[s], 1, Len(L!Keyword[s])) = L!Keyword[s]
         /\ SubSeq(L!Keyword[s], 1, 1) = <<L!Keyword[s][1]>>
<1>1. PICK w \in Seq(Int) : w = L!Keyword[s] BY Letters DEF Texts
<1>2. Len(w) \in 4..5 /\ n \in 1..Len(w) BY <1>1, Letters
<1>3. SubSeq(w, 1, n) \in Seq(Int) BY <1>2
<1>4. ASSUME n < Len(w) PROVE SubSeq(w, 1, n) \o <<w[n + 1]>> = SubSeq(w, 1, n + 1)
  <2>1. n + 1 \in 1..Len(w) /\ n + 1 - 1 = n BY <1>2, <1>4
  <2> QED BY <2>1, <1>2, SubSeqRecursiveSecond
<1>5. SubSeq(w, 1, Len(w)) = w BY SubSeqFull
<1>6. SubSeq(w, 1, 1) = <<w[1]>>
  <2>1. 1 \in 1..Len(w) /\ 1 - 1 = 0 BY <1>2
  <2>2. SubSeq(w, 1, 1) = SubSeq(w, 1, 0) \o <<w[1]>> BY <2>1, SubSeqRecursiveSecond
  <2>3. SubSeq(w, 1, 0) = <<>> /\ w[1] \in Int BY <2>1
  <2> QED BY <2>2, <2>3, Joined
<1> QED BY <1>1, <1>3, <1>4, <1>5, <1>6 DEF Texts

LEMMA SpellText ==
  ASSUME NEW seq \in Seq(LP!Calls), NEW from, NEW to, Follows(seq, from, to), NEW r \in Texts
  PROVE  Spell(seq, r) \in Texts
<1>1. CASE seq = <<>> BY <1>1, SpellCases
<1>2. CASE \E c : seq = <<c>>
  <2>1. PICK c : seq = <<c>> BY <1>2
  <2>2. c \in LP!Calls BY <2>1
  <2>3. Spelled(c) \o r \in Texts BY <2>2, SpelledText, Joined
  <2> QED BY <2>1, <2>3, SpellCases
<1>3. CASE \E c, d : seq = <<c, d>>
  <2>1. PICK c, d : seq = <<c, d>> BY <1>3
  <2>2. c \in LP!Calls /\ d \in LP!Calls BY <2>1
  <2>3. Spelled(c) \in Texts /\ Spelled(d) \in Texts BY <2>2, SpelledText
  <2>4. Spelled(c) \o (Spelled(d) \o r) \in Texts BY <2>3, Joined
  <2>5. Spell(<<c, d>>, r) = Spelled(c) \o (Spelled(d) \o r) BY SpellCases
  <2> QED BY <2>1, <2>4, <2>5
<1> QED BY <1>1, <1>2, <1>3 DEF Follows

LEMMA TextsTyped ==
  ASSUME TextInv, err = "OK"
  PROVE  /\ Told \in Texts /\ Rest \in Texts /\ owed \in Texts
         /\ Begins(Told, compact.bytes) /\ Begins(text, compact.bytes)
<1> USE DEF TextInv
<1>1. owed \in Texts BY OwingLemma DEF App
<1>2. Told \in Texts BY <1>1, Joined DEF Told, Written
<1>3. Rest \in Texts
  <2>1. CASE scanned BY <2>1, Joined DEF Rest
  <2>2. CASE ~scanned /\ again
    <3>1. data \in Int /\ NUMBER \in Int
      <4>1. data \in 0..255 BY LexerFields
      <4> QED BY <4>1 DEF NUMBER
    <3>2. First(data) \in Texts
      <4>1. <<>> \in Texts /\ <<NUMBER>> \in Texts /\ <<data>> \in Texts BY <3>1, Joined
      <4> QED BY <4>1 DEF First
    <3> QED BY <2>2, <3>2, Joined DEF Rest
  <2>3. CASE ~scanned /\ ~again
    <3>1. Rest = RestOf(Current) /\ Fields(Current) BY <2>3, LexerFields DEF Rest
    <3>2. CASE Current.state \in L!KeywordStates
      <4>1. Current.offset \in 1..Len(L!Keyword[Current.state])
        BY <3>1, <3>2, Letters DEF Fields
      <4> QED BY <3>1, <3>2, <4>1, RestOfCases, SpelledLetters
    <3>3. CASE Current.state \in SmallNumberStates
      BY <3>1, <3>3, RestOfCases, Joined DEF NUMBER
    <3>4. CASE Current.state = "IN_STRING"
      BY <3>1, <3>4, RestOfCases, LexerFields, Joined DEF Current
    <3>5. CASE Current.state \in {"LOOKUP_TOKEN", "IN_BIG_NUMBER", "IN_STRING_ESCAPE",
                                  "IN_STRING_UNICODE_ESCAPE"}
      BY <3>1, <3>5, RestOfCases, Joined
    <3> QED BY <3>1, <3>2, <3>3, <3>4, <3>5, StateNames DEF Fields
  <2> QED BY <2>1, <2>2, <2>3
<1>4. Follows(calls, lexing, Destination) /\ calls \in Seq(LP!Calls)
  BY LexerFields DEF Sound, RInv, IInv
<1>5. Spell(calls, Rest) \in Texts BY <1>3, <1>4, SpellText
<1>6. Begins(Told, compact.bytes)
  BY <1>5 DEF Matches, Doomed, Begins
<1>7. Begins(text, compact.bytes)
  BY <1>1, <1>6, BeginsLess, Joined DEF Told, Written
<1> QED BY <1>1, <1>2, <1>3, <1>6, <1>7

(***************************************************************************)
(* The steps that carry out a call                                         *)
(***************************************************************************)
LEMMA CallFinal ==
  ASSUME NEW c, Call(c)
  PROVE  ~finalized /\ finalized' = finalized
  BY DEF Call, P!Running, P!embedjson_token, P!embedjson_tokeni, P!embedjson_tokenf,
     P!embedjson_tokenc_begin, P!embedjson_tokenc, P!embedjson_tokenc_end,
     P!embedjson_tokenbn_begin, P!embedjson_tokenbn, P!embedjson_tokenbn_end, P!Number,
     P!EndLexeme

LEMMA RunCallKeeps ==
  ASSUME Contained, TextInv, Sound', RunCall, Wrote(Head(calls)), UNCHANGED compact
  PROVE  TextInv'
<1> DEFINE c == Head(calls)
<1>1. err = "OK" /\ ~finalized' BY CallRuns, CallFinal DEF RunCall
<1>2. Sound /\ Written /\ Modes /\ App /\ Matches BY <1>1 DEF TextInv
<1>3. Follows(calls, lexing, Destination) BY <1>1, <1>2 DEF Sound, RInv, IInv
<1>4. calls # <<>> /\ Call(c) BY DEF RunCall
<1>5. PICK via : Takes(c, lexing, via) /\ Follows(Tail(calls), via, Destination)
  BY <1>3, <1>4, NextCall
<1>6. CASE err' # "OK"
  <2>1. UNCHANGED <<text, compact>> BY <1>6 DEF Wrote, application
  <2>2. Begins(text, compact.bytes) BY <1>1, TextsTyped
  <2>3. Begins(text', compact'.bytes) BY <2>1, <2>2
  <2>4. Begins(text, compact.bytes)' BY <2>3 DEF Begins
  <2> QED BY <1>1, <1>2, <1>6, <2>1, <2>4 DEF TextInv, Written
<1>7. CASE err' = "OK"
  <2>0. calls' = Tail(calls) /\ UNCHANGED lexervars BY <1>7 DEF RunCall
  <2>1. c \in LP!Calls BY <1>1, <1>2, <1>4, LexerFields
  <2>2. Place BY <1>1, <1>2, PlaceLemma
  <2>3. /\ Tells(c) /\ c.call # "tokenbn_end"
        /\ c.call \in NumberStarts => state \in P!ValueStates /\ state' \in AfterStates
        /\ c.call \in {"tokeni", "tokenf"} => lexing' = "none"
        /\ c.call = "tokenbn" => lexing' = lexing
    BY <1>2, <1>4, <1>5, <1>7, <2>1, <2>2, CallTells
  <2>4. Rest' = Rest
    BY <2>0 DEF lexervars, Rest, RestOf, Current
  <2>5. Matches'
    <3>1. ~Doomed
      <4>1. c.call \in NumberStarts => state \notin AfterStates
        BY <2>3 DEF P!ValueStates, AfterStates
      <4> QED BY <1>4, <4>1 DEF Doomed
    <3>2. compact.bytes = Told \o Spell(calls, Rest) BY <1>2, <3>1 DEF Matches
    <3>3. Spell(calls, Rest) = Spelled(c) \o Spell(calls', Rest)
      BY <1>3, <1>4, <2>0, SpellNext
    <3>4. Spelled(c) \in Texts /\ Told \in Texts /\ Rest \in Texts
      BY <1>1, <2>1, SpelledText, TextsTyped
    <3>5. Spell(calls', Rest) \in Texts
      <4>1. Tail(calls) \in Seq(LP!Calls) BY <1>1, <1>2, <1>4, LexerFields
      <4> QED BY <1>5, <2>0, <3>4, <4>1, SpellText
    <3>6. Told \o (Spelled(c) \o Spell(calls', Rest)) = (Told \o Spelled(c)) \o Spell(calls', Rest)
      BY <3>4, <3>5, Joined
    <3>7. compact'.bytes = Told' \o Spell(calls', Rest')
      BY <2>3, <2>4, <3>2, <3>3, <3>6 DEF Tells
    <3> QED BY <3>7 DEF Matches
  <2>6. Modes'
    <3>1. UNCHANGED <<again, pushing, scanned, data, Current, compact>>
      BY <2>0 DEF lexervars, Current
    <3>2. ASSUME again
          PROVE  lexing' # "string" /\ (lexing' = "none" => calls' = <<>> /\ state' \in AfterStates)
      <4>1. lexing # "string" BY <1>2, <3>2 DEF Modes
      <4>2. CASE lexing = "none"
        <5>1. PICK d : calls = <<d>> /\ d.call \in {"tokeni", "tokenf"}
          BY <1>2, <1>4, <3>2, <4>2 DEF Modes
        <5>2. c = d /\ Tail(calls) = <<>> BY <5>1
        <5> QED BY <2>0, <2>3, <5>1, <5>2 DEF NumberStarts
      <4>3. CASE lexing = "bignum"
        <5>1. c.call \in {"tokenbn", "tokenbn_end"} BY <1>5, <4>3 DEF Takes
        <5> QED BY <2>3, <4>3, <5>1
      <4> QED BY <1>5, <4>1, <4>2, <4>3 DEF Takes
    <3> QED BY <1>2, <3>1, <3>2 DEF Modes, Half
  <2> QED BY <1>1, <1>2, <1>7, <2>3, <2>5, <2>6 DEF TextInv, Tells, Written
<1> QED BY <1>6, <1>7

(***************************************************************************)
(* The cases of the switch                                                 *)
(***************************************************************************)
(* The iteration goes on with n and c.                                     *)
Done(seq, n, c, redo) == calls' = seq /\ lex' = n /\ chunk' = c /\ again' = redo

LEMMA ProceedDone ==
  ASSUME NEW seq, NEW n, NEW c, NEW redo, L!Proceed(seq, n, c, redo), err' = "OK"
  PROVE  Done(seq, n, c, redo)
  BY DEF L!Proceed, L!Make, Done

LEMMA FailIsError ==
  ASSUME NEW code, L!Fail(code), code # "OK"
  PROVE  err' # "OK"
  BY DEF L!Fail

(* An iteration of a push that does not fail.                              *)
Iterates == err' = "OK" /\ pushing' = TRUE /\ scanned' = FALSE

LEMMA RestNext ==
  ASSUME Iterates, ~again'
  PROVE  /\ lex'.state \in L!KeywordStates => Rest' = SubSeq(L!Keyword[lex'.state], 1, lex'.offset)
         /\ lex'.state \in SmallNumberStates => Rest' = <<NUMBER>>
         /\ lex'.state = "IN_STRING" => Rest' = chunk'
         /\ lex'.state \in {"LOOKUP_TOKEN", "IN_BIG_NUMBER", "IN_STRING_ESCAPE",
                            "IN_STRING_UNICODE_ESCAPE"} => Rest' = <<>>
<1>1. Rest' = RestOf(Current)' BY DEF Iterates, Rest
<1>2. Current' = lex' BY DEF Iterates, Current
<1>3. RestOf(Current)' =
        CASE lex'.state \in L!KeywordStates -> SubSeq(L!Keyword[lex'.state], 1, lex'.offset)
          [] lex'.state \in SmallNumberStates -> <<NUMBER>>
          [] lex'.state = "IN_STRING" /\ pushing' -> chunk'
          [] OTHER -> <<>>
  BY <1>2 DEF RestOf
<1> QED BY <1>1, <1>3, StateNames DEF Iterates

(* One byte more of what is spelled.                                       *)
Spells(piece, mode) ==
  /\ ~again' /\ piece = Spell(calls', Rest')
  /\ ModeOf(lex'.state) = mode /\ lex'.state # "IN_STRING_UNICODE_ESCAPE"

LEMMA ByteClasses ==
  ASSUME NEW b \in 0..255
  PROVE  /\ b \in L!WHITESPACE => First(b) = <<>> /\ ModeAfter(b) = "out"
         /\ b \in L!DIGITS \cup {L!MINUS} => First(b) = <<NUMBER>> /\ ModeAfter(b) = "number"
         /\ b = L!QUOTE => First(b) = <<b>> /\ ModeAfter(b) = "string"
         /\ b \in DOMAIN L!Punctuation => First(b) = <<b>> /\ ModeAfter(b) = "out"
         /\ b \in 97..122 => First(b) = <<b>> /\ ModeAfter(b) = "out"
<1>1. DOMAIN L!Punctuation = {58, 44, 123, 125, 91, 93} BY DEF L!Punctuation
<1> HIDE DEF L!Punctuation
<1> QED BY <1>1 DEF First, ModeAfter, L!WHITESPACE, L!DIGITS, L!MINUS, L!QUOTE

LEMMA PunctuationSpelled ==
  ASSUME NEW b \in DOMAIN L!Punctuation
  PROVE  Spelled(L!Token(L!Punctuation[b])) = <<b>>
<1>1. b \in {58, 44, 123, 125, 91, 93} BY DEF L!Punctuation
<1>2. PICK t : t = L!Punctuation[b] OBVIOUS
<1>3. t = CASE b = 58 -> "COLON" [] b = 44 -> "COMMA"
    [] b = 123 -> "OPEN_CURLY_BRACKET" [] b = 125 -> "CLOSE_CURLY_BRACKET"
    [] b = 91 -> "OPEN_BRACKET" [] OTHER -> "CLOSE_BRACKET"
  BY <1>1, <1>2 DEF L!Punctuation
<1>4. TokenBytes(t) = <<b>> BY <1>1, <1>3 DEF TokenBytes, COMMA, COLON
<1>5. L!Token(t).call = "token" /\ L!Token(t).tok = t BY DEF L!Token
<1> QED BY <1>2, <1>4, <1>5, SpelledCases

LEMMA LookupSpells ==
  ASSUME NEW l, NEW b \in 0..255, Fields(l), L!LookupToken(l, b), Iterates
  PROVE  /\ Spells(First(b), ModeAfter(b))
         /\ b \in NumberBytes => calls' = <<>> /\ lex'.state \in SmallNumberStates
<1> USE DEF Iterates
<1>0. l.state = "LOOKUP_TOKEN" /\ "state" \in DOMAIN l /\ "offset" \in DOMAIN l
  BY DEF L!LookupToken, Fields
<1>n. NumberBytes = (48..57) \cup {69, 101, 45, 46, 43}
  BY DEF NumberBytes, L!BigNumberBytes, L!DIGITS, L!EXPONENT, L!MINUS, L!DOT, L!PLUS
<1>1. CASE b \in L!WHITESPACE /\ L!Proceed(<<>>, l, chunk, FALSE)
  <2>1. Done(<<>>, l, chunk, FALSE) BY <1>1, ProceedDone
  <2>2. Rest' = <<>> BY <1>0, <2>1, RestNext DEF Done
  <2>3. b \notin NumberBytes BY <1>1, <1>n DEF L!WHITESPACE
  <2> QED BY <1>0, <1>1, <2>1, <2>2, <2>3, ByteClasses, SpellCases, ModeCases DEF Done, Spells
<1>2. CASE /\ b \in DOMAIN L!Punctuation
           /\ L!Proceed(<<L!Token(L!Punctuation[b])>>, l, chunk, FALSE)
  <2>1. Done(<<L!Token(L!Punctuation[b])>>, l, chunk, FALSE) BY <1>2, ProceedDone
  <2>2. Rest' = <<>> BY <1>0, <2>1, RestNext DEF Done
  <2>3. b \notin NumberBytes BY <1>2, <1>n DEF L!Punctuation
  <2>4. Spell(calls', Rest') = <<b>> \o <<>>
    BY <1>2, <2>1, <2>2, SpellCases, PunctuationSpelled DEF Done
  <2>5. <<b>> \o <<>> = <<b>> BY Joined
  <2> QED BY <1>0, <1>2, <2>1, <2>3, <2>4, <2>5, ByteClasses, ModeCases DEF Done, Spells
<1>3. CASE b = L!QUOTE /\ L!Proceed(<<L!TokenCBegin>>, [l EXCEPT !.state = "IN_STRING"], <<>>, FALSE)
  <2>1. Done(<<L!TokenCBegin>>, [l EXCEPT !.state = "IN_STRING"], <<>>, FALSE)
    BY <1>3, ProceedDone
  <2>2. lex'.state = "IN_STRING" BY <1>0, <2>1 DEF Done
  <2>3. Rest' = <<>> BY <2>1, <2>2, RestNext DEF Done
  <2>4. b \notin NumberBytes BY <1>3, <1>n DEF L!QUOTE
  <2>5. L!TokenCBegin.call = "tokenc_begin" BY DEF L!TokenCBegin
  <2>6. Spell(calls', Rest') = <<b>> \o <<>>
    BY <1>3, <2>1, <2>3, <2>5, SpellCases, SpelledCases DEF Done
  <2>7. <<b>> \o <<>> = <<b>> BY Joined
  <2>8. First(b) = <<b>> /\ ModeAfter(b) = "string" BY <1>3, ByteClasses
  <2>9. ModeOf(lex'.state) = "string" BY <2>2, ModeCases
  <2>10. again' = FALSE BY <2>1 DEF Done
  <2> QED BY <2>2, <2>4, <2>6, <2>7, <2>8, <2>9, <2>10 DEF Spells
<1>4. CASE /\ b \in DOMAIN L!KeywordOf
           /\ L!Proceed(<<>>, [l EXCEPT !.offset = 1, !.state = L!KeywordOf[b]], chunk, FALSE)
  <2>1. Done(<<>>, [l EXCEPT !.offset = 1, !.state = L!KeywordOf[b]], chunk, FALSE)
    BY <1>4, ProceedDone
  <2>2. lex'.state = L!KeywordOf[b] /\ lex'.offset = 1 BY <1>0, <2>1 DEF Done
  <2>3. b \in {116, 102, 110} BY <1>4 DEF L!KeywordOf
  <2>4. L!KeywordOf[b] \in L!KeywordStates /\ L!Keyword[L!KeywordOf[b]][1] = b
    BY <2>3, Words, StateNames DEF L!KeywordOf
  <2>5. Rest' = <<b>>
    <3>1. Rest' = SubSeq(L!Keyword[L!KeywordOf[b]], 1, 1)
      BY <2>1, <2>2, <2>4, RestNext DEF Done
    <3>2. 1 \in 1..Len(L!Keyword[L!KeywordOf[b]]) BY <2>4, Letters
    <3> QED BY <2>4, <3>1, <3>2, SpelledLetters
  <2>6. b \notin NumberBytes /\ b \in 97..122 BY <2>3, <1>n, SMTT(30)
  <2>7. First(b) = <<b>> /\ ModeAfter(b) = "out" BY <2>6, ByteClasses
  <2>8. ModeOf(lex'.state) = "out" /\ lex'.state # "IN_STRING_UNICODE_ESCAPE"
    BY <2>2, <2>4, ModeCases, StateNames
  <2> QED BY <2>1, <2>5, <2>6, <2>7, <2>8, SpellCases DEF Done, Spells
<1>5. CASE \/ /\ b = L!MINUS
              /\ L!Proceed(<<>>, [l EXCEPT !.minus = TRUE, !.state = "IN_NUMBER_SIGN"], chunk, FALSE)
           \/ /\ b \in L!DIGITS
              /\ L!Proceed(<<>>, [l EXCEPT !.int_value = L!Digit(b), !.state = "IN_NUMBER"],
                           chunk, FALSE)
  <2>1. /\ calls' = <<>> /\ again' = FALSE /\ lex'.state \in {"IN_NUMBER_SIGN", "IN_NUMBER"}
        /\ b \in L!DIGITS \cup {L!MINUS}
    <3>1. CASE L!Proceed(<<>>, [l EXCEPT !.minus = TRUE, !.state = "IN_NUMBER_SIGN"], chunk, FALSE)
               /\ b = L!MINUS
      <4>1. Done(<<>>, [l EXCEPT !.minus = TRUE, !.state = "IN_NUMBER_SIGN"], chunk, FALSE)
        BY <3>1, ProceedDone
      <4> QED BY <1>0, <3>1, <4>1 DEF Done
    <3>2. CASE L!Proceed(<<>>, [l EXCEPT !.int_value = L!Digit(b), !.state = "IN_NUMBER"],
                         chunk, FALSE) /\ b \in L!DIGITS
      <4>1. Done(<<>>, [l EXCEPT !.int_value = L!Digit(b), !.state = "IN_NUMBER"], chunk, FALSE)
        BY <3>2, ProceedDone
      <4> QED BY <1>0, <3>2, <4>1 DEF Done
    <3> QED BY <1>5, <3>1, <3>2
  <2>2. lex'.state \in SmallNumberStates BY <2>1, StateNames
  <2>3. Rest' = <<NUMBER>> BY <2>1, <2>2, RestNext
  <2>4. ModeOf(lex'.state) = "number" BY <2>2, ModeCases, StateNames
  <2>5. First(b) = <<NUMBER>> /\ ModeAfter(b) = "number" BY <2>1, ByteClasses
  <2>6. Spell(calls', Rest') = <<NUMBER>> BY <2>1, <2>3, SpellCases
  <2>7. lex'.state # "IN_STRING_UNICODE_ESCAPE" BY <2>1
  <2> QED BY <2>1, <2>2, <2>4, <2>5, <2>6, <2>7 DEF Spells
<1>6. CASE L!Fail("LEADING_PLUS") \/ L!Fail("UNEXP_SYMBOL") BY <1>6, FailIsError
<1> QED BY <1>1, <1>2, <1>3, <1>4, <1>5, <1>6 DEF L!LookupToken

LEMMA SniffFields ==
  ASSUME NEW l, NEW b, Fields(l)
  PROVE  /\ Fields(L!Sniff(l, b)) /\ L!Sniff(l, b).state = l.state
         /\ L!Sniff(l, b).offset = l.offset /\ L!Sniff(l, b).unicode_cp = l.unicode_cp
<1>1. PICK n : n = L!Sniff(l, b) OBVIOUS
<1>2. /\ DOMAIN n = DOMAIN l /\ n.state = l.state /\ n.offset = l.offset
      /\ n.unicode_cp = l.unicode_cp
  BY <1>1 DEF L!Sniff, Fields
<1>3. Fields(n) BY <1>2, SMTT(30) DEF Fields
<1> QED BY <1>1, <1>2, <1>3

LEMMA KeywordSpells ==
  ASSUME NEW l, NEW b \in 0..255, Fields(l), L!InKeyword(l, b), Iterates
  PROVE  /\ Spells(SubSeq(L!Keyword[l.state], 1, l.offset) \o First(b), "out")
         /\ ModeAfter(b) = "out"
<1> DEFINE s == l.state
           word == L!Keyword[s]
           next == [l EXCEPT !.offset = @ + 1]
<1>1. s \in L!KeywordStates /\ l.offset \in 1..(Len(word) - 1) /\ Len(word) \in 4..5
  BY Letters DEF L!InKeyword, Fields
<1>2. /\ next.state = s /\ next.offset = l.offset + 1 /\ DOMAIN next = DOMAIN l
      /\ "state" \in DOMAIN l
  BY DEF Fields
<1>e. \A k \in L!KeywordStates : L!KeywordError[k] # "OK" BY StateNames DEF L!KeywordError
<1>3. b = word[l.offset + 1]
  <2>1. CASE L!Fail(L!KeywordError[s]) BY <1>1, <1>e, <2>1, FailIsError DEF Iterates
  <2> QED BY <2>1 DEF L!InKeyword
<1>4. First(b) = <<b>> /\ ModeAfter(b) = "out"
  <2>1. l.offset + 1 \in 1..Len(word) BY <1>1, SMTT(30)
  <2>2. b \in 97..122 BY <1>1, <1>3, <2>1, Letters, SMTT(30)
  <2> QED BY <2>2, ByteClasses
<1>5. SubSeq(word, 1, l.offset) \o First(b) = SubSeq(word, 1, l.offset + 1)
  <2>1. l.offset \in 1..Len(word) /\ l.offset < Len(word) BY <1>1
  <2> QED BY <1>1, <1>3, <1>4, <2>1, SpelledLetters
<1>6. CASE next.offset < Len(word) /\ L!Proceed(<<>>, next, chunk, FALSE)
  <2>1. Done(<<>>, next, chunk, FALSE) BY <1>6, ProceedDone DEF Iterates
  <2>2. lex'.state = s /\ lex'.offset = l.offset + 1 /\ again' = FALSE /\ calls' = <<>>
    BY <1>2, <2>1 DEF Done
  <2>3. Rest' = SubSeq(word, 1, l.offset + 1) BY <1>1, <2>2, RestNext
  <2>4. Spell(calls', Rest') = SubSeq(word, 1, l.offset + 1) BY <2>2, <2>3, SpellCases
  <2>5. ModeOf(lex'.state) = "out" /\ lex'.state # "IN_STRING_UNICODE_ESCAPE"
    BY <1>1, <2>2, ModeCases, StateNames
  <2> QED BY <1>4, <1>5, <2>2, <2>4, <2>5 DEF Spells
<1>7. CASE /\ ~(next.offset < Len(word))
           /\ L!Proceed(<<L!Token(L!KeywordToken[s])>>, [next EXCEPT !.state = "LOOKUP_TOKEN"],
                        chunk, FALSE)
  <2>1. Done(<<L!Token(L!KeywordToken[s])>>, [next EXCEPT !.state = "LOOKUP_TOKEN"], chunk, FALSE)
    BY <1>7, ProceedDone DEF Iterates
  <2>2. lex'.state = "LOOKUP_TOKEN" /\ again' = FALSE BY <1>2, <2>1 DEF Done
  <2>3. Rest' = <<>> BY <2>2, RestNext
  <2>4. Spelled(L!Token(L!KeywordToken[s])) = word
    <3>1. PICK t : t = L!KeywordToken[s] OBVIOUS
    <3>2. t = CASE s = "IN_TRUE" -> "TRUE" [] s = "IN_FALSE" -> "FALSE" [] OTHER -> "NULL"
      BY <1>1, <3>1 DEF L!KeywordToken
    <3>3. TokenBytes(t) = word BY <1>1, <3>2, StateNames DEF TokenBytes
    <3>4. L!Token(t).call = "token" /\ L!Token(t).tok = t BY DEF L!Token
    <3> QED BY <3>1, <3>3, <3>4, SpelledCases
  <2>5. word \in Texts /\ SubSeq(word, 1, l.offset + 1) = word
    <3>1. l.offset + 1 = Len(word) /\ 1 \in 1..Len(word) BY <1>1, <1>2, <1>7
    <3> QED BY <1>1, <3>1, Letters, SpelledLetters
  <2>6. Spell(calls', Rest') = word \o <<>> BY <2>1, <2>3, <2>4, SpellCases DEF Done
  <2>7. word \o <<>> = word BY <2>5, Joined
  <2> QED BY <1>4, <1>5, <2>2, <2>5, <2>6, <2>7, ModeCases DEF Spells
<1> QED BY <1>3, <1>4, <1>6, <1>7 DEF L!InKeyword

LEMMA PairJoined ==
  ASSUME NEW t, NEW d
  PROVE  <<t>> \o <<d>> = <<t, d>>
<1> DEFINE S == {t, d}
<1>1. <<t>> \in Seq(S) /\ <<d>> \in Seq(S) /\ <<t, d>> \in Seq(S) OBVIOUS
<1>2. /\ Len(<<t>>) = 1 /\ Len(<<d>>) = 1 /\ Len(<<t, d>>) = 2
      /\ <<t>>[1] = t /\ <<d>>[1] = d /\ <<t, d>>[1] = t /\ <<t, d>>[2] = d
  OBVIOUS
<1> HIDE DEF S
<1>3. PICK s, a, e \in Seq(S) : s = <<t>> /\ a = <<d>> /\ e = <<t, d>> BY <1>1
<1>4. s \o a \in Seq(S) /\ Len(s \o a) = 2 /\ (s \o a)[1] = t /\ (s \o a)[2] = d
  BY <1>2, <1>3, ConcatProperties
<1>5. \A i \in 1..Len(s \o a) : (s \o a)[i] = e[i] BY <1>2, <1>3, <1>4
<1>6. s \o a = e BY <1>2, <1>3, <1>4, <1>5, SeqEqual
<1> QED BY <1>3, <1>6

LEMMA StringSpells ==
  ASSUME NEW l, NEW b \in 0..255, Fields(l), L!InString(l, b), Iterates, chunk \in Texts
  PROVE  /\ b = L!BACKSLASH => Spells(chunk \o <<>>, "escape")
         /\ b = L!QUOTE => Spells(chunk \o <<b>>, "out")
         /\ b \notin {L!BACKSLASH, L!QUOTE} => Spells(chunk \o <<b>>, "string")
<1> DEFINE c == IF VALIDATE_UTF8 THEN L!Continue(l) ELSE l
<1>0. l.state = "IN_STRING" /\ "state" \in DOMAIN l BY DEF L!InString, Fields
<1>1. c.state = "IN_STRING" /\ "state" \in DOMAIN c BY <1>0 DEF L!Continue
<1>2. L!BACKSLASH # L!QUOTE /\ <<b>> \in Texts /\ chunk \o <<b>> \in Texts
  BY Joined DEF L!BACKSLASH, L!QUOTE
<1>3. ASSUME NEW n, n.state = "IN_STRING", b \notin {L!BACKSLASH, L!QUOTE},
             L!Proceed(<<>>, n, Append(chunk, b), FALSE)
      PROVE  Spells(chunk \o <<b>>, "string")
  <2>1. Done(<<>>, n, Append(chunk, b), FALSE) BY <1>3, ProceedDone DEF Iterates
  <2>2. lex'.state = "IN_STRING" /\ again' = FALSE /\ calls' = <<>> BY <1>3, <2>1 DEF Done
  <2>3. Rest' = chunk \o <<b>>
    <3>1. Rest' = Append(chunk, b) BY <2>1, <2>2, RestNext DEF Done
    <3> QED BY <3>1, Joined
  <2> QED BY <2>2, <2>3, SpellCases, ModeCases DEF Spells
<1>4. ASSUME NEW tail, NEW n, NEW mode, L!Proceed(L!Flush(L!TokenC(chunk)) \o tail, n, NULL, FALSE),
             n.state \in {"LOOKUP_TOKEN", "IN_STRING_ESCAPE"}, ModeOf(n.state) = mode,
             NEW bytes \in Texts,
             (tail = <<>> /\ bytes = <<>>) \/ (\E d : tail = <<d>> /\ Spelled(d) = bytes)
      PROVE  Spells(chunk \o bytes, mode)
  <2>1. Done(L!Flush(L!TokenC(chunk)) \o tail, n, NULL, FALSE) BY <1>4, ProceedDone DEF Iterates
  <2>2. lex' = n /\ again' = FALSE /\ calls' = L!Flush(L!TokenC(chunk)) \o tail BY <2>1 DEF Done
  <2>3. Rest' = <<>> BY <1>4, <2>2, RestNext
  <2>4. Spell(tail, <<>>) = bytes
    <3>1. CASE tail = <<>> /\ bytes = <<>> BY <3>1, SpellCases
    <3>2. CASE \E d : tail = <<d>> /\ Spelled(d) = bytes
      <4>1. PICK d : tail = <<d>> /\ Spelled(d) = bytes BY <3>2
      <4>2. Spell(<<d>>, <<>>) = bytes \o <<>> BY <4>1, SpellCases
      <4> QED BY <4>1, <4>2, Joined
    <3> QED BY <1>4, <3>1, <3>2
  <2>5. Spell(calls', <<>>) = chunk \o bytes
    <3>1. CASE chunk = <<>>
      <4>1. calls' = tail
        <5>1. calls' = <<>> \o tail BY <2>2, <3>1 DEF L!Flush
        <5>2. CASE tail = <<>> BY <5>1, <5>2
        <5>3. CASE \E d : tail = <<d>> BY <5>1, <5>3
        <5> QED BY <1>4, <5>2, <5>3
      <4>2. <<>> \o bytes = bytes BY Joined
      <4> QED BY <2>4, <3>1, <4>1, <4>2
    <3>2. CASE chunk # <<>>
      <4>1. PICK t : t = L!TokenC(chunk) OBVIOUS
      <4>2. t.call = "tokenc" /\ t.bytes = chunk BY <4>1 DEF L!TokenC
      <4>3. Spelled(t) = chunk BY <4>2, SpelledCases
      <4>4. calls' = <<t>> \o tail BY <2>2, <3>2, <4>1 DEF L!Flush
      <4>5. CASE tail = <<>> /\ bytes = <<>>
        <5>1. calls' = <<t>> BY <4>4, <4>5
        <5>2. Spell(<<t>>, <<>>) = chunk \o <<>> BY <4>3, SpellCases
        <5> QED BY <4>5, <5>1, <5>2
      <4>6. CASE \E d : tail = <<d>> /\ Spelled(d) = bytes
        <5>1. PICK d : tail = <<d>> /\ Spelled(d) = bytes BY <4>6
        <5>2. calls' = <<t, d>> BY <4>4, <5>1, PairJoined
        <5>3. Spell(<<t, d>>, <<>>) = chunk \o (bytes \o <<>>) BY <4>3, <5>1, SpellCases
        <5>4. bytes \o <<>> = bytes BY Joined
        <5> QED BY <5>2, <5>3, <5>4
      <4> QED BY <1>4, <4>5, <4>6
    <3> QED BY <3>1, <3>2
  <2>6. lex'.state # "IN_STRING_UNICODE_ESCAPE" /\ ModeOf(lex'.state) = mode BY <1>4, <2>2
  <2> QED BY <2>2, <2>3, <2>5, <2>6 DEF Spells
<1>5. CASE L!Fail("BAD_UTF8") \/ L!Fail("LONG_UTF8") BY <1>5, FailIsError DEF Iterates
<1>6. CASE /\ ~(~VALIDATE_UTF8 \/ b < 192) /\ b < 248
           /\ L!Proceed(<<>>, L!Lead(c, b), Append(chunk, b), FALSE)
  <2>1. PICK n : n = L!Lead(c, b) OBVIOUS
  <2>2. n.state = "IN_STRING" BY <1>1, <2>1 DEF L!Lead
  <2>3. b \notin {L!BACKSLASH, L!QUOTE} BY <1>6 DEF L!BACKSLASH, L!QUOTE
  <2>4. L!Proceed(<<>>, n, Append(chunk, b), FALSE) BY <1>6, <2>1
  <2>5. Spells(chunk \o <<b>>, "string") BY <1>3, <2>2, <2>3, <2>4
  <2> QED BY <2>3, <2>5
<1>7. CASE /\ b = L!BACKSLASH
           /\ L!Proceed(L!Flush(L!TokenC(chunk)), [c EXCEPT !.state = "IN_STRING_ESCAPE"], NULL, FALSE)
  <2>1. PICK n : n = [c EXCEPT !.state = "IN_STRING_ESCAPE"] OBVIOUS
  <2>2. n.state = "IN_STRING_ESCAPE" BY <1>1, <2>1
  <2>3. L!Flush(L!TokenC(chunk)) \o <<>> = L!Flush(L!TokenC(chunk))
    BY DEF L!Flush
  <2>4. ModeOf(n.state) = "escape" BY <2>2, ModeCases
  <2>5. <<>> \in Texts BY Joined
  <2>6. L!Proceed(L!Flush(L!TokenC(chunk)) \o <<>>, n, NULL, FALSE) BY <1>7, <2>1, <2>3
  <2>7. Spells(chunk \o <<>>, "escape") BY <1>4, <2>2, <2>4, <2>5, <2>6
  <2> QED BY <1>2, <1>7, <2>7
<1>8. CASE /\ b = L!QUOTE
           /\ L!Proceed(L!Flush(L!TokenC(chunk)) \o <<L!TokenCEnd>>,
                        [c EXCEPT !.state = "LOOKUP_TOKEN"], NULL, FALSE)
  <2>1. PICK n : n = [c EXCEPT !.state = "LOOKUP_TOKEN"] OBVIOUS
  <2>2. n.state = "LOOKUP_TOKEN" BY <1>1, <2>1
  <2>4. ModeOf(n.state) = "out" BY <2>2, ModeCases
  <2>5. PICK d : d = L!TokenCEnd OBVIOUS
  <2>6. d.call = "tokenc_end" BY <2>5 DEF L!TokenCEnd
  <2>7. Spelled(d) = <<b>> BY <1>8, <2>6, SpelledCases
  <2>8. L!Proceed(L!Flush(L!TokenC(chunk)) \o <<d>>, n, NULL, FALSE) BY <1>8, <2>1, <2>5
  <2>9. Spells(chunk \o <<b>>, "out") BY <1>2, <1>4, <2>2, <2>4, <2>7, <2>8
  <2> QED BY <1>2, <1>8, <2>9
<1>9. CASE /\ b \notin {L!BACKSLASH, L!QUOTE} /\ L!Proceed(<<>>, c, Append(chunk, b), FALSE)
  BY <1>1, <1>3, <1>9
<1> QED BY <1>5, <1>6, <1>7, <1>8, <1>9 DEF L!InString

LEMMA EscapeSpells ==
  ASSUME NEW l, NEW b \in 0..255, Fields(l), L!InStringEscape(l, b), Iterates
  PROVE  \/ b \in DOMAIN L!Escaped /\ Spells(<<L!Escaped[b]>>, "string")
         \/ /\ b = 117 /\ ~again' /\ calls' = <<>> /\ Rest' = <<>>
            /\ lex'.state = "IN_STRING_UNICODE_ESCAPE" /\ lex'.offset = 0
<1>0. "state" \in DOMAIN l /\ "offset" \in DOMAIN l BY DEF Fields
<1>1. CASE /\ b \in DOMAIN L!Escaped
           /\ L!Proceed(<<L!TokenC(<<L!Escaped[b]>>)>>, [l EXCEPT !.state = "IN_STRING"], <<>>, FALSE)
  <2>1. PICK t : t = L!TokenC(<<L!Escaped[b]>>) OBVIOUS
  <2>2. t.call = "tokenc" /\ t.bytes = <<L!Escaped[b]>> BY <2>1 DEF L!TokenC
  <2>3. Done(<<t>>, [l EXCEPT !.state = "IN_STRING"], <<>>, FALSE)
    BY <1>1, <2>1, ProceedDone DEF Iterates
  <2>4. lex'.state = "IN_STRING" /\ again' = FALSE /\ calls' = <<t>> /\ chunk' = <<>>
    BY <1>0, <2>3 DEF Done
  <2>5. Rest' = <<>> BY <2>4, RestNext
  <2>6. Spelled(t) = <<L!Escaped[b]>> BY <2>2, SpelledCases
  <2>7. Spell(calls', Rest') = <<L!Escaped[b]>> \o <<>> BY <2>4, <2>5, <2>6, SpellCases
  <2>8. <<L!Escaped[b]>> \o <<>> = <<L!Escaped[b]>>
    <3>1. b \in {34, 92, 47, 98, 102, 110, 114, 116} BY <1>1 DEF L!Escaped
    <3>2. L!Escaped[b] \in Int BY <3>1 DEF L!Escaped
    <3> QED BY <3>2, Joined
  <2> QED BY <1>1, <2>4, <2>7, <2>8, ModeCases DEF Spells
<1>2. CASE /\ b = 117
           /\ L!Proceed(<<>>, [l EXCEPT !.state = "IN_STRING_UNICODE_ESCAPE", !.offset = 0], chunk, FALSE)
  <2>1. Done(<<>>, [l EXCEPT !.state = "IN_STRING_UNICODE_ESCAPE", !.offset = 0], chunk, FALSE)
    BY <1>2, ProceedDone DEF Iterates
  <2>2. /\ lex'.state = "IN_STRING_UNICODE_ESCAPE" /\ lex'.offset = 0 /\ again' = FALSE
        /\ calls' = <<>>
    BY <1>0, <2>1 DEF Done
  <2> QED BY <1>2, <2>2, RestNext
<1>3. CASE L!Fail("BAD_ESCAPE") BY <1>3, FailIsError DEF Iterates
<1> QED BY <1>1, <1>2, <1>3 DEF L!InStringEscape
================================================================================
