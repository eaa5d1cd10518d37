----------------------------- MODULE ParserProofs -----------------------------
(***************************************************************************)
(* Theorems about Parser, for every build configuration, stack size and    *)
(* nesting depth.                                                          *)
(***************************************************************************)
EXTENDS Parser, TLAPS

Kinds == {STACK_VALUE_CURLY, STACK_VALUE_SQUARE}

(* The stack after one push, and after one pop, of a bracket.              *)
LEMMA PushLemma ==
  ASSUME NEW s \in Seq(Kinds), NEW k \in Kinds
  PROVE  /\ Append(s, k) \in Seq(Kinds)
         /\ Append(s, k) # <<>>
         /\ Last(Append(s, k)) = k
         /\ Front(Append(s, k)) = s
  BY DEF Last, Front

LEMMA PopLemma ==
  ASSUME NEW s \in Seq(Kinds)
  PROVE  /\ Front(s) \in Seq(Kinds)
         /\ s # <<>> => Last(s) \in Kinds
  BY DEF Last, Front

(***************************************************************************)
(* Type correctness                                                        *)
(***************************************************************************)
(* What may follow a state in the transition tables is a state.            *)
LEMMA TablesLemma ==
  ASSUME TypeOK
  PROVE  /\ AfterPop \subseteq States
         /\ StringNextState(state) \subseteq States
         /\ BignumNextState(state) \subseteq States
         /\ AfterValue(state) \in States
  BY DEF TypeOK, States, AfterPop, AfterEmptyArray, AfterContainer, AfterValue,
         StringNextState, BignumNextState

LEMMA ErrorCodesLemma ==
  /\ \A t \in Tokens : TokenError(t) \in ErrorCodes
  /\ \A s \in States : NumberError(s) \in ErrorCodes /\ StringError(s) \in ErrorCodes
  /\ \A s \in States : SelfCheck(s) \in ErrorCodes
  BY DEF TokenError, NumberError, StringError, SelfCheck, ErrorCodes, SyntaxErrors

LEMMA TypeStep == TypeOK /\ [Next]_vars => TypeOK'
<1> SUFFICES ASSUME TypeOK, [Next]_vars PROVE TypeOK'
  OBVIOUS
<1> USE TablesLemma, ErrorCodesLemma DEF TypeOK, embedjson_error_ex, Callback
<1>1. ASSUME NEW t \in Tokens, embedjson_token(t) PROVE TypeOK'
  <2>1. CASE OpenBracket(t)
    <3>1. Bracket(t) \in Kinds
      BY DEF Bracket, Kinds
    <3>2. stack' \in Seq(Kinds)
      BY <2>1, <3>1, PushLemma DEF OpenBracket, StackPushFails, Kinds
    <3>3. state' \in States /\ event' \in Events /\ err' \in ErrorCodes
      BY <2>1 DEF OpenBracket, StackPushFails, States, Events, ErrorCodes, SyntaxErrors
    <3> QED BY <1>1, <3>2, <3>3 DEF embedjson_token, Kinds
  <2>2. CASE CloseBracket(t)
    <3>1. stack' \in Seq(Kinds)
      BY <2>2, PopLemma DEF CloseBracket, Kinds
    <3>2. state' \in States
      BY <2>2 DEF CloseBracket
    <3>3. event' \in Events /\ err' \in ErrorCodes
      BY <2>2 DEF CloseBracket, Events, ErrorCodes, SyntaxErrors
    <3> QED BY <1>1, <3>1, <3>2, <3>3 DEF embedjson_token, Kinds
  <2>3. CASE Separator(t)
    BY <1>1, <2>3 DEF embedjson_token, Separator, States
  <2>4. CASE Literal(t)
    BY <1>1, <2>4 DEF embedjson_token, Literal, Events, ErrorCodes, SyntaxErrors
  <2>5. CASE RefuseToken(t)
    BY <1>1, <2>5 DEF embedjson_token, RefuseToken
  <2> QED BY <1>1, <2>1, <2>2, <2>3, <2>4, <2>5 DEF embedjson_token
<1>2. ASSUME embedjson_tokeni \/ embedjson_tokenf \/ embedjson_tokenbn_begin PROVE TypeOK'
  BY <1>2 DEF embedjson_tokeni, embedjson_tokenf, embedjson_tokenbn_begin, Number,
              Events, ErrorCodes, SyntaxErrors
<1>3. ASSUME embedjson_tokenc_begin PROVE TypeOK'
  BY <1>3 DEF embedjson_tokenc_begin, Events, ErrorCodes, SyntaxErrors
<1>4. ASSUME embedjson_tokenc \/ embedjson_tokenbn PROVE TypeOK'
  BY <1>4 DEF embedjson_tokenc, embedjson_tokenbn, Events, ErrorCodes, SyntaxErrors
<1>5. ASSUME embedjson_tokenc_end \/ embedjson_tokenbn_end PROVE TypeOK'
  <2>1. state' \in States
    BY <1>5 DEF embedjson_tokenc_end, embedjson_tokenbn_end, EndLexeme
  <2> QED BY <1>5, <2>1 DEF embedjson_tokenc_end, embedjson_tokenbn_end, EndLexeme,
                            Events, ErrorCodes, SyntaxErrors
<1>6. ASSUME LexerError \/ embedjson_finalize PROVE TypeOK'
  BY <1>6 DEF LexerError, embedjson_finalize, ErrorCodes, SyntaxErrors
<1>7. CASE UNCHANGED vars
  BY <1>7 DEF vars
<1> QED BY <1>1, <1>2, <1>3, <1>4, <1>5, <1>6, <1>7 DEF Next, Stopped

LEMMA InitTypes == Init => TypeOK
<1> SUFFICES ASSUME Init PROVE TypeOK
  OBVIOUS
<1>1. stack \in Seq({STACK_VALUE_CURLY, STACK_VALUE_SQUARE})
  BY DEF Init
<1> QED BY <1>1 DEF Init, TypeOK, States, Events, ErrorCodes, SyntaxErrors

(* The state, the stack and the codes returned stay within their types,    *)
(* also in a release build whose transition tables are read out of range.  *)
THEOREM TypeCorrect == Spec => []TypeOK
  BY InitTypes, TypeStep, PTL DEF Spec

(***************************************************************************)
(* The inductive invariant                                                 *)
(***************************************************************************)
(* Every transition of the automaton stays inside its tables: this needs   *)
(* either the self-checks of a DEBUG build, which stop the parser at       *)
(* INVALID, or the absence of big numbers, which lead there.               *)
Contained == DEBUG \/ ~BIGNUM

KeyStates == {"MAYBE_OBJECT_KEY", "EXPECT_OBJECT_KEY"}

(* A string is lexed in a state that takes one; a big number has already   *)
(* moved the parser past its value.                                        *)
LexemeMatchesState ==
  /\ lexing = "string" => state \in ValueStates \cup KeyStates
  /\ lexing = "bignum" => /\ state \in {"DONE", "MAYBE_OBJECT_COMMA", "MAYBE_ARRAY_COMMA"}
                          /\ BIGNUM

IInv == /\ TypeOK
        /\ StackMatchesState
        /\ err = "OK" => state # "INVALID" /\ LexemeMatchesState
        /\ ~BIGNUM => NoInternalError

(* The container a value belongs to decides what follows the value, and    *)
(* the stack below a container decides what follows the container.         *)
LEMMA AfterLemma ==
  ASSUME TypeOK, StackMatchesState, err = "OK", stack # <<>>,
         NEW s \in AfterPop
  PROVE  /\ s \in {"DONE", "MAYBE_OBJECT_COMMA", "MAYBE_ARRAY_COMMA", "MAYBE_OBJECT_KEY"}
         /\ s = "DONE" <=> Front(stack) = <<>>
         /\ s \in {"MAYBE_OBJECT_COMMA", "MAYBE_OBJECT_KEY"}
              => Front(stack) # <<>> /\ Last(Front(stack)) = STACK_VALUE_CURLY
         /\ s = "MAYBE_ARRAY_COMMA"
              => Front(stack) # <<>> /\ Last(Front(stack)) = STACK_VALUE_SQUARE
<1> DEFINE f == Front(stack)
<1>1. f # <<>> => Last(f) \in Kinds
  BY PopLemma DEF TypeOK, Kinds
<1> HIDE DEF f
<1>2. s \in {AfterEmptyArray(f), AfterContainer(f)}
  BY DEF AfterPop, f
<1> QED BY <1>1, <1>2 DEF AfterEmptyArray, AfterContainer, Kinds, f,
                          STACK_VALUE_CURLY, STACK_VALUE_SQUARE

LEMMA InvStep == ASSUME Contained PROVE IInv /\ [Next]_vars => IInv'
<1> SUFFICES ASSUME IInv, [Next]_vars PROVE IInv'
  OBVIOUS
<1>t. TypeOK /\ TypeOK'
  BY TypeStep DEF IInv
<1> DEFINE Rest == /\ StackMatchesState
                   /\ err = "OK" => state # "INVALID" /\ LexemeMatchesState
                   /\ ~BIGNUM => NoInternalError
<1> SUFFICES Rest'
  BY <1>t DEF IInv
<1>i. Rest
  BY DEF IInv
<1>1. ASSUME NEW t \in Tokens, embedjson_token(t) PROVE Rest'
  <2>0. err = "OK" /\ lexing = "none" /\ UNCHANGED lexing
    BY <1>1 DEF embedjson_token, Running
  <2> USE DEF LexemeMatchesState, NoInternalError, embedjson_error_ex, Callback
  <2>1. CASE OpenBracket(t)
    <3>1. Bracket(t) \in Kinds /\ stack \in Seq(Kinds)
      BY <1>t DEF Bracket, Kinds, TypeOK
    <3>2. CASE err' = "OK"
      <4>1. /\ stack' = Append(stack, Bracket(t))
            /\ state' = IF Bracket(t) = STACK_VALUE_CURLY THEN "MAYBE_OBJECT_KEY"
                        ELSE "MAYBE_ARRAY_VALUE"
        BY <2>1, <3>2 DEF OpenBracket, StackPushFails
      <4>2. stack' # <<>> /\ Last(stack') = Bracket(t)
        BY <3>1, <4>1, PushLemma
      <4> QED BY <2>0, <3>1, <3>2, <4>1, <4>2 DEF StackMatchesState, ObjectStates,
                                                  ArrayStates, Kinds
    <3>3. CASE err' # "OK"
      BY <2>1, <3>3 DEF OpenBracket, StackPushFails, StackMatchesState
    <3> QED BY <3>2, <3>3
  <2>2. CASE CloseBracket(t)
    <3>1. stack # <<>> /\ Last(stack) = Bracket(t)
      BY <2>0, <1>i, <2>2 DEF CloseBracket, Closes, Bracket, StackMatchesState,
                              ObjectStates, ArrayStates
    <3>2. CASE err' = "OK"
      <4>1. stack' = Front(stack) /\ state' \in AfterPop
        BY <2>2, <3>1, <3>2 DEF CloseBracket
      <4>2. /\ state' \in {"DONE", "MAYBE_OBJECT_COMMA", "MAYBE_ARRAY_COMMA", "MAYBE_OBJECT_KEY"}
            /\ state' = "DONE" <=> stack' = <<>>
            /\ state' \in {"MAYBE_OBJECT_COMMA", "MAYBE_OBJECT_KEY"}
                => stack' # <<>> /\ Last(stack') = STACK_VALUE_CURLY
            /\ state' = "MAYBE_ARRAY_COMMA"
                => stack' # <<>> /\ Last(stack') = STACK_VALUE_SQUARE
        BY <1>t, <1>i, <2>0, <3>1, <4>1, AfterLemma
      <4>3. StackMatchesState'
        BY <4>2 DEF StackMatchesState, ObjectStates, ArrayStates
      <4> QED BY <2>0, <3>2, <4>2, <4>3
    <3>3. CASE err' # "OK"
      BY <2>2, <3>1, <3>3 DEF CloseBracket, StackMatchesState
    <3> QED BY <3>2, <3>3
  <2>3. CASE Separator(t)
    BY <1>i, <2>0, <2>3 DEF Separator, Separates, StackMatchesState, ObjectStates, ArrayStates
  <2>4. CASE Literal(t)
    BY <1>i, <2>0, <2>4 DEF Literal, AfterValue, ValueStates, StackMatchesState,
                            ObjectStates, ArrayStates
  <2>5. CASE RefuseToken(t)
    <3>1. state \in States /\ state # "INVALID"
      BY <1>t, <1>i, <2>0 DEF TypeOK
    <3>2. TokenError(t) # "INTERNAL_ERROR"
      BY <3>1 DEF TokenError, SelfCheck, States, ValueStates
    <3> QED BY <1>i, <2>0, <2>5, <3>2 DEF RefuseToken, StackMatchesState
  <2> QED BY <1>1, <2>1, <2>2, <2>3, <2>4, <2>5 DEF embedjson_token
<1>2. ASSUME embedjson_tokeni \/ embedjson_tokenf \/ embedjson_tokenbn_begin PROVE Rest'
  <2>1. state \in States /\ state # "INVALID" /\ err = "OK" /\ lexing = "none"
    BY <1>t, <1>i, <1>2 DEF TypeOK, Running, embedjson_tokeni, embedjson_tokenf,
                            embedjson_tokenbn_begin
  <2>2. PICK callback : Number(callback)
    BY <1>2 DEF embedjson_tokeni, embedjson_tokenf, embedjson_tokenbn_begin
  <2>3. lexing' = "bignum" => BIGNUM
    BY <1>2, <2>1 DEF embedjson_tokeni, embedjson_tokenf, embedjson_tokenbn_begin
  <2>4. lexing' \in {"none", "bignum"}
    BY <1>2, <2>1 DEF embedjson_tokeni, embedjson_tokenf, embedjson_tokenbn_begin
  <2>5. CASE state \in ValueStates
    <3>1. state' = AfterValue(state) /\ err' \in {"OK", "CALLBACK"} /\ UNCHANGED stack
      BY <2>2, <2>5 DEF Number, Callback
    <3> QED BY <1>i, <2>1, <2>3, <2>4, <2>5, <3>1
            DEF AfterValue, ValueStates, StackMatchesState, ObjectStates, ArrayStates,
                LexemeMatchesState, NoInternalError
  <2>6. CASE state \notin ValueStates
    <3>1. err' = NumberError(state) /\ UNCHANGED <<state, stack>>
      BY <2>2, <2>6 DEF Number, embedjson_error_ex
    <3>2. err' \notin {"OK", "INTERNAL_ERROR"}
      BY <2>1, <2>6, <3>1 DEF NumberError, SelfCheck, States, ValueStates
    <3> QED BY <3>2 DEF StackMatchesState, NoInternalError
  <2> QED BY <2>5, <2>6
<1>3. ASSUME embedjson_tokenc_begin PROVE Rest'
  <2>1. state \in States /\ state # "INVALID" /\ err = "OK" /\ lexing = "none"
    BY <1>t, <1>i, <1>3 DEF TypeOK, Running, embedjson_tokenc_begin
  <2>2. CASE state \in ValueStates \cup KeyStates
    BY <1>i, <1>3, <2>1, <2>2 DEF embedjson_tokenc_begin, Callback, KeyStates,
       StackMatchesState, LexemeMatchesState, NoInternalError
  <2>3. CASE state \notin ValueStates \cup KeyStates
    <3>1. err' = StringError(state)
      BY <1>3, <2>3 DEF embedjson_tokenc_begin, KeyStates, embedjson_error_ex
    <3>2. err' \notin {"OK", "INTERNAL_ERROR"}
      BY <2>1, <2>3, <3>1 DEF StringError, SelfCheck, States, ValueStates, KeyStates
    <3> QED BY <3>2 DEF StackMatchesState, NoInternalError
  <2> QED BY <2>2, <2>3
<1>4. ASSUME embedjson_tokenc \/ embedjson_tokenbn PROVE Rest'
  BY <1>i, <1>4 DEF embedjson_tokenc, embedjson_tokenbn, Running, SelfCheck, Callback,
     embedjson_error_ex, StackMatchesState, LexemeMatchesState, NoInternalError
<1>5. ASSUME embedjson_tokenc_end \/ embedjson_tokenbn_end PROVE Rest'
  <2>1. PICK callback : \/ lexing = "string" /\ EndLexeme(StringNextState(state), callback)
                        \/ lexing = "bignum" /\ EndLexeme(BignumNextState(state), callback)
    BY <1>5 DEF embedjson_tokenc_end, embedjson_tokenbn_end
  <2>2. err = "OK" /\ state # "INVALID" /\ LexemeMatchesState /\ StackMatchesState
    BY <1>i, <1>5 DEF embedjson_tokenc_end, embedjson_tokenbn_end, Running
  <2>3. UNCHANGED stack /\ (err' = "OK" => lexing' = "none")
    BY <2>1 DEF EndLexeme
  <2>4. CASE lexing = "string"
    <3>1. /\ state' = IF state = "EXPECT_VALUE" THEN "DONE"
                      ELSE IF state \in KeyStates THEN "EXPECT_COLON"
                      ELSE IF state = "EXPECT_OBJECT_VALUE" THEN "MAYBE_OBJECT_COMMA"
                      ELSE "MAYBE_ARRAY_COMMA"
          /\ err' \in {"OK", "CALLBACK"}
      BY <2>1, <2>2, <2>4 DEF EndLexeme, StringNextState, SelfCheck, Callback,
                              LexemeMatchesState, ValueStates, KeyStates
    <3> QED BY <2>2, <2>3, <2>4, <3>1 DEF StackMatchesState, ObjectStates, ArrayStates,
               LexemeMatchesState, NoInternalError, ValueStates, KeyStates
  <2>5. CASE lexing = "bignum"
    <3>1. BIGNUM /\ DEBUG /\ state' = "INVALID"
      BY <2>1, <2>2, <2>5 DEF EndLexeme, BignumNextState, SelfCheck, LexemeMatchesState,
                              Contained
    <3>2. err' # "OK"
      BY <2>1, <2>2, <2>5, <3>1 DEF EndLexeme, SelfCheck, embedjson_error_ex
    <3> QED BY <3>1, <3>2 DEF StackMatchesState
  <2> QED BY <2>1, <2>4, <2>5
<1>6. ASSUME LexerError \/ embedjson_finalize PROVE Rest'
  BY <1>i, <1>6 DEF LexerError, embedjson_finalize, Running, StackMatchesState,
     LexemeMatchesState, NoInternalError
<1>7. CASE UNCHANGED vars
  BY <1>i, <1>7 DEF vars, StackMatchesState, LexemeMatchesState, NoInternalError
<1> QED BY <1>1, <1>2, <1>3, <1>4, <1>5, <1>6, <1>7 DEF Next, Stopped

LEMMA InvCorrect == ASSUME Contained PROVE Spec => []IInv
<1>1. Init => IInv
  <2> SUFFICES ASSUME Init PROVE IInv
    OBVIOUS
  <2>1. TypeOK
    BY InitTypes
  <2> QED BY <2>1 DEF Init, IInv, StackMatchesState, ObjectStates, ArrayStates,
                      LexemeMatchesState, NoInternalError
<1> QED BY <1>1, InvStep, PTL DEF Spec

(* stack_pop never underflows, the parent of a container is resumed in a   *)
(* state of its own kind, and the document is complete exactly when the    *)
(* stack is empty, whatever the nesting.                                   *)
THEOREM StackAgrees == ASSUME Contained PROVE Spec => []StackMatchesState
<1>1. IInv => StackMatchesState
  BY DEF IInv
<1> QED BY <1>1, InvCorrect, PTL

(* Without big numbers none of the self-checks of a DEBUG build can fail.  *)
THEOREM SelfChecksRedundant == ASSUME ~BIGNUM PROVE Spec => []NoInternalError
<1>1. Contained
  BY DEF Contained
<1>2. IInv => NoInternalError
  BY DEF IInv
<1> QED BY <1>1, <1>2, InvCorrect, PTL

(* A DEBUG build never goes on from INVALID.                               *)
THEOREM InvalidIsFinal == Spec => []DebugStopsWhenInvalid
<1>1. CASE DEBUG
  <2>1. Contained
    BY <1>1 DEF Contained
  <2>2. IInv => DebugStopsWhenInvalid
    BY DEF IInv, DebugStopsWhenInvalid
  <2> QED BY <2>1, <2>2, InvCorrect, PTL
<1>2. CASE ~DEBUG
  <2>1. DebugStopsWhenInvalid
    BY <1>2 DEF DebugStopsWhenInvalid
  <2> QED BY <2>1, PTL
<1> QED BY <1>1, <1>2

(***************************************************************************)
(* The diagram                                                             *)
(***************************************************************************)
LEMMA DiagramStep ==
  ASSUME Contained, IInv, IInv', Next, err' = "OK"
  PROVE  UNCHANGED <<state, stack>> \/ DiagramEdge \/ EmptyArrayMember
<1> DEFINE Goal == UNCHANGED <<state, stack>> \/ DiagramEdge \/ EmptyArrayMember
<1>0. CASE ~Running
  BY <1>0 DEF Next, Stopped, vars, embedjson_token, embedjson_tokeni, embedjson_tokenf,
     embedjson_tokenc_begin, embedjson_tokenc, embedjson_tokenc_end, embedjson_tokenbn_begin,
     embedjson_tokenbn, embedjson_tokenbn_end, LexerError, embedjson_finalize
<1>s. ASSUME Running PROVE err = "OK" /\ StackMatchesState /\ TypeOK /\ LexemeMatchesState
  BY <1>s DEF IInv, Running
<1>1. ASSUME NEW t \in Tokens, embedjson_token(t), Running PROVE Goal
  <2>1. CASE OpenBracket(t)
    BY <1>s, <1>1, <2>1 DEF OpenBracket, StackPushFails, embedjson_error_ex, Opens, Bracket,
       DiagramEdge, PushEdge, STACK_VALUE_CURLY, STACK_VALUE_SQUARE
  <2>2. CASE CloseBracket(t)
    <3>1. stack # <<>> /\ Last(stack) = Bracket(t)
      BY <1>s, <1>1, <2>2 DEF CloseBracket, Closes, Bracket, StackMatchesState,
                              ObjectStates, ArrayStates
    <3>2. stack' = Front(stack) /\ state' \in AfterPop
      BY <2>2, <3>1 DEF CloseBracket
    <3>3. PopsTop
      BY <1>s, <1>1, <2>2, <3>1, <3>2 DEF CloseBracket, Closes, Bracket, PopsTop
    <3>4. CASE state = "MAYBE_ARRAY_VALUE" /\ state' # AfterContainer(stack')
      BY <3>1, <3>2, <3>3, <3>4 DEF AfterPop, AfterEmptyArray, AfterContainer, EmptyArrayMember
    <3>5. CASE state # "MAYBE_ARRAY_VALUE" \/ state' = AfterContainer(stack')
      BY <3>1, <3>2, <3>3, <3>5 DEF AfterPop, DiagramEdge
    <3> QED BY <3>4, <3>5
  <2>3. CASE Separator(t)
    BY <2>3 DEF Separator, Separates, DiagramEdge, PlainEdges
  <2>4. CASE Literal(t)
    BY <2>4 DEF Literal, AfterValue, ValueStates, DiagramEdge, PlainEdges
  <2>5. CASE RefuseToken(t)
    BY <2>5 DEF RefuseToken
  <2> QED BY <1>1, <2>1, <2>2, <2>3, <2>4, <2>5 DEF embedjson_token
<1>2. ASSUME embedjson_tokeni \/ embedjson_tokenf \/ embedjson_tokenbn_begin PROVE Goal
  <2>1. PICK callback : Number(callback)
    BY <1>2 DEF embedjson_tokeni, embedjson_tokenf, embedjson_tokenbn_begin
  <2> QED BY <2>1 DEF Number, AfterValue, ValueStates, DiagramEdge, PlainEdges
<1>3. ASSUME embedjson_tokenc_end, Running PROVE Goal
  <2>1. lexing = "string" /\ state' \in StringNextState(state) /\ UNCHANGED stack
    BY <1>3, <1>s DEF embedjson_tokenc_end, EndLexeme, SelfCheck, embedjson_error_ex
  <2> QED BY <1>s, <1>3, <2>1 DEF StringNextState, LexemeMatchesState, ValueStates, KeyStates,
                                  DiagramEdge, PlainEdges
<1>4. ASSUME embedjson_tokenbn_end, Running PROVE FALSE
  <2>1. lexing = "bignum" /\ state' = "INVALID"
    BY <1>4, <1>s DEF embedjson_tokenbn_end, EndLexeme, SelfCheck, embedjson_error_ex,
                      BignumNextState, LexemeMatchesState
  <2> QED BY <2>1 DEF IInv
<1> QED BY <1>0, <1>1, <1>2, <1>3, <1>4
        DEF Next, Stopped, embedjson_tokenc_begin, embedjson_tokenc, embedjson_tokenbn,
            LexerError, embedjson_finalize

(* Every successful call takes an edge of doc/syntax-parser-fsm.dot with   *)
(* the stack operation the edge names, the one exception being the end of  *)
(* an empty array that is the value of an object's member.                 *)
THEOREM DiagramFollowed == ASSUME Contained PROVE Spec => FollowsDiagramButEmptyArrays
<1>1. IInv /\ IInv' /\ [Next]_vars
        => [err' = "OK" => UNCHANGED <<state, stack>> \/ DiagramEdge \/ EmptyArrayMember]_vars
  BY DiagramStep
<1> QED BY <1>1, InvCorrect, PTL DEF Spec, FollowsDiagramButEmptyArrays

(***************************************************************************)
(* Parser implements SaxStream, for every stack size and nesting depth.    *)
(***************************************************************************)
(* SaxStream has its own instances of the community operators.             *)
LEMMA SaxOperators ==
  ASSUME NEW s
  PROVE  /\ Sax!Last(s) = Last(s)
         /\ Sax!Front(s) = Front(s)
         /\ Sax!WantIn(s) = IF s = <<>> THEN "nothing"
                            ELSE IF Last(s) = STACK_VALUE_CURLY THEN "key" ELSE "value"
  BY DEF Sax!Last, Sax!Front, Last, Front, Sax!WantIn

(* Where the automaton takes a value: nowhere else is a value wanted.      *)
LEMMA WantLemma ==
  ASSUME IInv, err = "OK"
  PROVE  /\ state \in ValueStates => Want = "value"
         /\ state \in KeyStates => Want = "key"
         /\ state \in {"DONE", "MAYBE_OBJECT_COMMA", "MAYBE_ARRAY_COMMA", "MAYBE_OBJECT_KEY",
                       "EXPECT_OBJECT_KEY", "MAYBE_ARRAY_VALUE", "EXPECT_ARRAY_VALUE"}
              => Want = Sax!WantIn(stack)
         /\ state \in {"EXPECT_COLON", "EXPECT_OBJECT_VALUE"} => Want = "value"
         /\ Want = "nothing" <=> state = "DONE"
<1>1. StackMatchesState
  BY DEF IInv
<1>2. STACK_VALUE_CURLY # STACK_VALUE_SQUARE
  BY DEF STACK_VALUE_CURLY, STACK_VALUE_SQUARE
<1>3. state \in {"DONE", "MAYBE_OBJECT_COMMA", "MAYBE_ARRAY_COMMA", "MAYBE_OBJECT_KEY",
                "EXPECT_OBJECT_KEY", "MAYBE_ARRAY_VALUE", "EXPECT_ARRAY_VALUE"}
              => Want = Sax!WantIn(stack)
  BY <1>1, <1>2, SaxOperators DEF StackMatchesState, ObjectStates, ArrayStates, Want
<1>4. state \in ValueStates => Want = "value"
  BY DEF ValueStates, Want
<1>5. state \in KeyStates => Want = "key"
  BY DEF KeyStates, Want
<1> QED BY <1>3, <1>4, <1>5 DEF Want

(* The same after a step.                                                  *)
LEMMA WantNextLemma ==
  ASSUME IInv', err' = "OK",
         state' \in {"DONE", "MAYBE_OBJECT_COMMA", "MAYBE_ARRAY_COMMA", "MAYBE_OBJECT_KEY"}
  PROVE  Want' = Sax!WantIn(stack')
<1>1. StackMatchesState'
  BY DEF IInv
<1>2. STACK_VALUE_CURLY # STACK_VALUE_SQUARE
  BY DEF STACK_VALUE_CURLY, STACK_VALUE_SQUARE
<1> QED BY <1>1, <1>2, SaxOperators DEF StackMatchesState, ObjectStates, ArrayStates, Want

(* A call that fails rejects the document; the callback that failed was    *)
(* one the application could expect.                                       *)
LEMMA RejectLemma ==
  ASSUME Running, err' # "OK", event' = event \/ Sax!Legal(event')
  PROVE  Sax!Reject
  BY DEF Running, Sax!Reject, Want

LEMMA TokenRefines ==
  ASSUME Contained, IInv, IInv', NEW t \in Tokens, embedjson_token(t)
  PROVE  [Sax!Next]_(Sax!svars)
<1>0. /\ err = "OK" /\ ~finalized /\ Running /\ lexing = "none"
      /\ UNCHANGED <<lexing, finalized>>
  BY DEF embedjson_token, Running
<1>i. TypeOK /\ StackMatchesState /\ state # "INVALID"
  BY <1>0 DEF IInv
<1>1. CASE OpenBracket(t)
  <2> DEFINE c == Bracket(t)
  <2>1. c \in Kinds /\ Want = "value"
    BY <1>0, <1>1, WantLemma DEF OpenBracket, Opens, Bracket, Kinds
  <2>2. CASE StackPushFails
    BY <1>0, <2>2, RejectLemma DEF StackPushFails, embedjson_error_ex, Sax!Next
  <2>3. CASE ~StackPushFails
    <3>1. /\ event' = Sax!BeginOf(c) /\ err' \in {"OK", "CALLBACK"}
          /\ err' = "OK" => /\ stack' = Append(stack, c)
                            /\ state' = IF c = STACK_VALUE_CURLY THEN "MAYBE_OBJECT_KEY"
                                        ELSE "MAYBE_ARRAY_VALUE"
      BY <1>1, <2>3 DEF OpenBracket, Callback, Sax!BeginOf
    <3>2. CASE err' = "OK"
      <4>1. Want' = IF c = STACK_VALUE_CURLY THEN "key" ELSE "value"
        BY <3>1, <3>2 DEF Want
      <4>2. Sax!Begin(c)
        BY <1>0, <2>1, <3>1, <3>2, <4>1 DEF Sax!Begin
      <4> QED BY <1>0, <2>1, <3>2, <4>2 DEF Sax!Next, Sax!Offer, Kinds
    <3>3. CASE err' # "OK"
      <4>1. Sax!Legal(event')
        BY <1>0, <2>1, <3>1 DEF Sax!Legal, Sax!BeginOf
      <4> QED BY <1>0, <3>3, <4>1, RejectLemma DEF Sax!Next
    <3> QED BY <3>2, <3>3
  <2> QED BY <2>2, <2>3
<1>2. CASE CloseBracket(t)
  <2> DEFINE c == Bracket(t)
  <2>1. stack # <<>> /\ Last(stack) = c /\ c \in Kinds
    BY <1>0, <1>i, <1>2 DEF CloseBracket, Closes, Bracket, StackMatchesState,
                            ObjectStates, ArrayStates, Kinds
  <2>2. Want = Sax!WantIn(stack)
    BY <1>0, <1>2, WantLemma DEF CloseBracket, Closes
  <2>3. /\ event' = Sax!EndOf(c) /\ err' \in {"OK", "CALLBACK"}
        /\ err' = "OK" => stack' = Front(stack) /\ state' \in AfterPop
    BY <1>2, <2>1 DEF CloseBracket, Callback, Sax!EndOf
  <2>4. CASE err' = "OK"
    <3>1. state' \in {"DONE", "MAYBE_OBJECT_COMMA", "MAYBE_ARRAY_COMMA", "MAYBE_OBJECT_KEY"}
      BY <1>0, <1>i, <2>1, <2>3, <2>4, AfterLemma
    <3>2. Want' = Sax!WantIn(stack')
      BY <2>4, <3>1, WantNextLemma
    <3>3. Sax!End(c)
      BY <1>0, <2>1, <2>2, <2>3, <2>4, <3>2, SaxOperators DEF Sax!End
    <3> QED BY <1>0, <2>1, <2>4, <3>3 DEF Sax!Next, Sax!Offer, Kinds
  <2>5. CASE err' # "OK"
    <3>1. Sax!Legal(event')
      BY <1>0, <2>1, <2>2, <2>3, SaxOperators DEF Sax!Legal
    <3> QED BY <1>0, <2>5, <3>1, RejectLemma DEF Sax!Next
  <2> QED BY <2>4, <2>5
<1>3. CASE Separator(t)
  <2>1. UNCHANGED <<stack, event, err, lexing, finalized>> /\ Want' = Want
    BY <1>0, <1>3 DEF Separator, Separates, Want
  <2> QED BY <2>1 DEF Sax!svars
<1>4. CASE Literal(t)
  <2>1. /\ Want = "value" /\ event' \in Sax!Scalars /\ err' \in {"OK", "CALLBACK"}
        /\ UNCHANGED stack
    BY <1>0, <1>4, WantLemma DEF Literal, Callback, Sax!Scalars
  <2>2. CASE err' = "OK"
    <3>1. state' \in {"DONE", "MAYBE_OBJECT_COMMA", "MAYBE_ARRAY_COMMA"}
      BY <1>4, <2>2 DEF Literal, AfterValue
    <3>2. Want' = Sax!WantIn(stack')
      BY <2>2, <3>1, WantNextLemma
    <3>3. Sax!Scalar(event')
      BY <1>0, <2>1, <2>2, <3>2, SaxOperators DEF Sax!Scalar
    <3> QED BY <1>0, <2>1, <2>2, <3>3 DEF Sax!Next, Sax!Offer
  <2>3. CASE err' # "OK"
    BY <1>0, <2>1, <2>3, RejectLemma DEF Sax!Next, Sax!Legal
  <2> QED BY <2>2, <2>3
<1>5. CASE RefuseToken(t)
  BY <1>0, <1>5, RejectLemma DEF RefuseToken, embedjson_error_ex, Sax!Next, Sax!svars, Want
<1> QED BY <1>1, <1>2, <1>3, <1>4, <1>5 DEF embedjson_token

LEMMA NumberRefines ==
  ASSUME Contained, IInv, IInv',
         embedjson_tokeni \/ embedjson_tokenf \/ embedjson_tokenbn_begin
  PROVE  [Sax!Next]_(Sax!svars)
<1>0. /\ err = "OK" /\ ~finalized /\ Running /\ lexing = "none" /\ UNCHANGED finalized
  BY DEF embedjson_tokeni, embedjson_tokenf, embedjson_tokenbn_begin, Number, Running
<1>1. PICK callback : /\ Number(callback)
                      /\ \/ callback \in {"int", "double"} /\ UNCHANGED lexing
                         \/ /\ callback = "bignum_begin"
                            /\ lexing' = IF err' = "OK" THEN "bignum" ELSE lexing
  BY DEF embedjson_tokeni, embedjson_tokenf, embedjson_tokenbn_begin
<1>2. CASE state \in ValueStates
  <2>1. /\ Want = "value" /\ state' = AfterValue(state) /\ event' = callback
        /\ err' \in {"OK", "CALLBACK"} /\ UNCHANGED stack
    BY <1>0, <1>1, <1>2, WantLemma DEF Number, Callback
  <2>2. CASE err' = "OK"
    <3>1. Want' = Sax!WantIn(stack')
      BY <2>1, <2>2, WantNextLemma DEF AfterValue
    <3>2. CASE callback \in {"int", "double"} /\ UNCHANGED lexing
      <4>1. Sax!Scalar(event') /\ event' \in Sax!Scalars
        BY <1>0, <2>1, <2>2, <3>1, <3>2 DEF Sax!Scalar, Sax!Scalars
      <4> QED BY <1>0, <2>2, <4>1 DEF Sax!Next, Sax!Offer
    <3>3. CASE callback = "bignum_begin" /\ lexing' = "bignum"
      <4>1. Sax!BignumBegin
        BY <1>0, <2>1, <2>2, <3>1, <3>3 DEF Sax!BignumBegin
      <4> QED BY <1>0, <2>2, <4>1 DEF Sax!Next, Sax!Offer
    <3> QED BY <1>1, <2>2, <3>2, <3>3
  <2>3. CASE err' # "OK"
    <3>1. Sax!Legal(event')
      BY <1>0, <1>1, <2>1 DEF Sax!Legal, Sax!Scalars
    <3> QED BY <1>0, <2>3, <3>1, RejectLemma DEF Sax!Next
  <2> QED BY <2>2, <2>3
<1>3. CASE state \notin ValueStates
  <2>1. err' = NumberError(state) /\ UNCHANGED event
    BY <1>1, <1>3 DEF Number, embedjson_error_ex
  <2>2. err' # "OK"
    BY <1>0, <1>3, <2>1 DEF IInv, TypeOK, States, ValueStates, NumberError, SelfCheck
  <2> QED BY <1>0, <2>1, <2>2, RejectLemma DEF Sax!Next
<1> QED BY <1>2, <1>3

LEMMA StringRefines ==
  ASSUME Contained, IInv, IInv',
         embedjson_tokenc_begin \/ embedjson_tokenc \/ embedjson_tokenc_end
  PROVE  [Sax!Next]_(Sax!svars)
<1>0. err = "OK" /\ ~finalized /\ Running /\ UNCHANGED <<stack, finalized>>
  BY DEF embedjson_tokenc_begin, embedjson_tokenc, embedjson_tokenc_end, EndLexeme, Running
<1>i. state \in States \ {"INVALID"} /\ LexemeMatchesState
  BY <1>0 DEF IInv, TypeOK
<1>1. CASE embedjson_tokenc_begin
  <2>0. lexing = "none" /\ UNCHANGED state
    BY <1>1 DEF embedjson_tokenc_begin
  <2>1. CASE state \in ValueStates \cup KeyStates
    <3>1. /\ event' = "string_begin" /\ err' \in {"OK", "CALLBACK"} /\ UNCHANGED state
          /\ lexing' = IF err' = "OK" THEN "string" ELSE lexing
      BY <1>1, <2>1 DEF embedjson_tokenc_begin, Callback, KeyStates
    <3>2. Want \in {"key", "value"}
      BY <1>0, <2>1, WantLemma
    <3>3. CASE err' = "OK"
      <4>1. Want' = Want
        BY <1>0, <3>1, <3>3 DEF Want
      <4>2. Sax!StringBegin
        BY <1>0, <2>0, <3>1, <3>2, <3>3, <4>1 DEF Sax!StringBegin
      <4> QED BY <1>0, <3>3, <4>2 DEF Sax!Next, Sax!Offer
    <3>4. CASE err' # "OK"
      <4>1. Sax!Legal(event')
        BY <1>0, <2>0, <3>1, <3>2 DEF Sax!Legal
      <4> QED BY <1>0, <3>4, <4>1, RejectLemma DEF Sax!Next
    <3> QED BY <3>3, <3>4
  <2>2. CASE state \notin ValueStates \cup KeyStates
    <3>1. err' = StringError(state) /\ UNCHANGED event
      BY <1>1, <2>2 DEF embedjson_tokenc_begin, KeyStates, embedjson_error_ex
    <3>2. err' # "OK"
      BY <1>i, <2>2, <3>1 DEF States, ValueStates, KeyStates, StringError, SelfCheck
    <3> QED BY <1>0, <3>1, <3>2, RejectLemma DEF Sax!Next
  <2> QED BY <2>1, <2>2
<1>2. CASE embedjson_tokenc
  <2>1. /\ lexing = "string" /\ event' = "string_chunk" /\ err' \in {"OK", "CALLBACK"}
        /\ UNCHANGED <<state, lexing>>
    BY <1>2, <1>i DEF embedjson_tokenc, SelfCheck, Callback
  <2>2. CASE err' = "OK"
    <3>1. Want' = Want
      BY <1>0, <2>1, <2>2 DEF Want
    <3>2. Sax!StringChunk
      BY <1>0, <2>1, <2>2, <3>1 DEF Sax!StringChunk
    <3> QED BY <1>0, <2>2, <3>2 DEF Sax!Next, Sax!Offer
  <2>3. CASE err' # "OK"
    <3>1. Sax!Legal(event')
      BY <1>0, <2>1 DEF Sax!Legal
    <3> QED BY <1>0, <2>3, <3>1, RejectLemma DEF Sax!Next
  <2> QED BY <2>2, <2>3
<1>3. CASE embedjson_tokenc_end
  <2>0. lexing = "string" /\ state \in ValueStates \cup KeyStates
    BY <1>3, <1>i DEF embedjson_tokenc_end, LexemeMatchesState
  <2>1. state' \in StringNextState(state)
    BY <1>3, <1>i DEF embedjson_tokenc_end, EndLexeme, SelfCheck
  <2>2. /\ state \in KeyStates => state' = "EXPECT_COLON"
        /\ state \in ValueStates => state' \in {"DONE", "MAYBE_OBJECT_COMMA", "MAYBE_ARRAY_COMMA"}
    BY <2>1 DEF StringNextState, KeyStates, ValueStates
  <2>3. event' = "string_end" /\ err' \in {"OK", "CALLBACK"} /\ (err' = "OK" => lexing' = "none")
    BY <1>3, <1>i, <2>0, <2>2 DEF embedjson_tokenc_end, EndLexeme, SelfCheck, Callback
  <2>4. CASE err' = "OK"
    <3>1. CASE state \in KeyStates
      BY <1>0, <2>0, <2>2, <2>3, <2>4, <3>1, WantLemma
         DEF Sax!Next, Sax!Offer, Sax!StringEnd, Want
    <3>2. CASE state \in ValueStates
      <4>1. Want = "value" /\ Want' = Sax!WantIn(stack')
        BY <1>0, <2>2, <2>4, <3>2, WantLemma, WantNextLemma
      <4>2. Sax!StringEnd
        BY <1>0, <2>0, <2>3, <2>4, <4>1 DEF Sax!StringEnd
      <4> QED BY <1>0, <2>4, <4>2 DEF Sax!Next, Sax!Offer
    <3> QED BY <2>0, <3>1, <3>2
  <2>5. CASE err' # "OK"
    <3>1. Sax!Legal(event')
      BY <1>0, <2>0, <2>3 DEF Sax!Legal
    <3> QED BY <1>0, <2>5, <3>1, RejectLemma DEF Sax!Next
  <2> QED BY <2>4, <2>5
<1> QED BY <1>1, <1>2, <1>3

LEMMA OtherStepsRefine ==
  ASSUME Contained, IInv, IInv',
         embedjson_tokenbn \/ embedjson_tokenbn_end \/ LexerError \/ embedjson_finalize
  PROVE  [Sax!Next]_(Sax!svars)
<1>0. err = "OK" /\ ~finalized /\ Running /\ UNCHANGED stack
  BY DEF embedjson_tokenbn, embedjson_tokenbn_end, EndLexeme, LexerError, embedjson_finalize,
         Running
<1>i. state \in States \ {"INVALID"} /\ LexemeMatchesState
  BY <1>0 DEF IInv, TypeOK
<1>1. CASE embedjson_tokenbn
  <2>1. /\ lexing = "bignum" /\ event' = "bignum_chunk" /\ err' \in {"OK", "CALLBACK"}
        /\ UNCHANGED <<state, lexing, finalized>>
    BY <1>1, <1>i DEF embedjson_tokenbn, SelfCheck, Callback
  <2>2. CASE err' = "OK"
    <3>1. Want' = Want
      BY <1>0, <2>1, <2>2 DEF Want
    <3>2. Sax!BignumChunk
      BY <1>0, <2>1, <2>2, <3>1 DEF Sax!BignumChunk
    <3> QED BY <1>0, <2>1, <2>2, <3>2 DEF Sax!Next, Sax!Offer
  <2>3. CASE err' # "OK"
    <3>1. Sax!Legal(event')
      BY <1>0, <2>1 DEF Sax!Legal
    <3> QED BY <1>0, <2>3, <3>1, RejectLemma DEF Sax!Next
  <2> QED BY <2>2, <2>3
<1>2. CASE embedjson_tokenbn_end
  <2>1. lexing = "bignum" /\ BIGNUM /\ DEBUG /\ state' = "INVALID"
    BY <1>2, <1>i DEF embedjson_tokenbn_end, LexemeMatchesState, Contained, EndLexeme,
                      BignumNextState, SelfCheck
  <2>2. err' # "OK" /\ UNCHANGED event
    BY <1>2, <1>i, <2>1 DEF embedjson_tokenbn_end, EndLexeme, SelfCheck, embedjson_error_ex
  <2> QED BY <1>0, <2>2, RejectLemma DEF Sax!Next
<1>3. CASE LexerError
  BY <1>0, <1>3, RejectLemma DEF LexerError, Sax!Next
<1>4. CASE embedjson_finalize
  <2>1. CASE state # "DONE"
    BY <1>0, <1>4, <2>1, RejectLemma DEF embedjson_finalize, Sax!Next
  <2>2. CASE state = "DONE"
    <3>1. stack = <<>> /\ Want = "nothing" /\ Want' = "nothing"
      BY <1>0, <1>4, <2>2 DEF IInv, StackMatchesState, Want, embedjson_finalize
    <3>2. Sax!Accept
      BY <1>0, <1>4, <2>2, <3>1 DEF embedjson_finalize, Sax!Accept
    <3> QED BY <3>2 DEF Sax!Next
  <2> QED BY <2>1, <2>2
<1> QED BY <1>1, <1>2, <1>3, <1>4

(* The callbacks of every parse are those of one well nested document,     *)
(* with strings as keys, whatever tokens arrive, wherever a callback, the  *)
(* lexer or the stack fails; finalize succeeds only at the document's end. *)
THEOREM ParserImplementsSaxStream == ASSUME Contained PROVE Spec => ImplementsSaxStream
<1>1. Init => Sax!Init
  BY DEF Init, Sax!Init, Want
<1>2. IInv /\ IInv' /\ [Next]_vars => [Sax!Next]_(Sax!svars)
  <2> SUFFICES ASSUME IInv, IInv', [Next]_vars PROVE [Sax!Next]_(Sax!svars)
    OBVIOUS
  <2>1. CASE UNCHANGED vars
    BY <2>1 DEF vars, Sax!svars, Want
  <2> QED BY <2>1, TokenRefines, NumberRefines, StringRefines, OtherStepsRefine
          DEF Next, Stopped
<1> QED BY <1>1, <1>2, InvCorrect, PTL DEF Spec, ImplementsSaxStream, Sax!Spec
===============================================================================
