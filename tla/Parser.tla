------------------------------- MODULE Parser --------------------------------
(***************************************************************************)
(* The syntax parser of embedjson (parser.c): a pushdown automaton driven  *)
(* by the token functions the lexer calls.  One action per C function.     *)
(*                                                                         *)
(* The bit stack is a sequence here; ParserStack shows that the bits       *)
(* implement it.  The lexer is the environment: it calls token functions   *)
(* in any order its protocol allows (chunks only between begin and end).   *)
(* Every application callback may fail, and a failing call ends the parse. *)
(***************************************************************************)
EXTENDS Naturals, Sequences, SequencesExt

CONSTANTS
  DEBUG, BIGNUM, DYNAMIC_STACK,   \* the EMBEDJSON_... build switches
  STATIC_STACK_SIZE,              \* bytes of the static stack
  MaxNesting                      \* bound: nesting depth of the input

ASSUME ParserAssumption ==
  /\ DEBUG \in BOOLEAN /\ BIGNUM \in BOOLEAN /\ DYNAMIC_STACK \in BOOLEAN
  /\ STATIC_STACK_SIZE \in Nat
  /\ MaxNesting \in Nat

VARIABLES
  state,      \* parser->state
  stack,      \* the live bits of parser->stack, bottom first
  lexing,     \* the lexer is between ..._begin and ..._end of this lexeme
  event,      \* the last callback made into the application
  err,        \* what the last call returned, "OK" for 0
  finalized   \* embedjson_finalize returned 0

vars == <<state, stack, lexing, event, err, finalized>>

STACK_VALUE_CURLY  == 0
STACK_VALUE_SQUARE == 1

States == {"EXPECT_VALUE", "MAYBE_OBJECT_KEY", "EXPECT_OBJECT_KEY", "EXPECT_COLON",
           "MAYBE_OBJECT_COMMA", "EXPECT_OBJECT_VALUE", "MAYBE_ARRAY_VALUE",
           "EXPECT_ARRAY_VALUE", "MAYBE_ARRAY_COMMA", "DONE", "INVALID"}

ValueStates == {"EXPECT_VALUE", "EXPECT_OBJECT_VALUE", "MAYBE_ARRAY_VALUE", "EXPECT_ARRAY_VALUE"}

Literals == {"TRUE", "FALSE", "NULL"}
Tokens == {"OPEN_CURLY_BRACKET", "CLOSE_CURLY_BRACKET", "OPEN_BRACKET", "CLOSE_BRACKET",
           "COMMA", "COLON"} \cup Literals

Running == err = "OK" /\ ~finalized

(***************************************************************************)
(* Callbacks and errors.  embedjson_error_ex returns what the application's*)
(* embedjson_error returns, which aborts the parse by being non-zero.      *)
(***************************************************************************)
embedjson_error_ex(code) == err' = code /\ UNCHANGED event

Callback(e) == event' = e /\ err' \in {"OK", "CALLBACK"}

(* EMBEDJSON_CHECK_STATE, and the INVALID cases of the switches: an error  *)
(* in a DEBUG build, nothing at all in a release build.                    *)
SelfCheck(s) == IF DEBUG /\ s = "INVALID" THEN "INTERNAL_ERROR" ELSE "OK"

(***************************************************************************)
(* The stack.  max_size is an unsigned char.                               *)
(***************************************************************************)
StackFull == ~DYNAMIC_STACK /\ Len(stack) = (8 * STATIC_STACK_SIZE) % 256

(* stack_push fails: the static stack is full, or the dynamic one is (its  *)
(* capacity is the application's business) and embedjson_stack_overflow    *)
(* could not enlarge it.                                                   *)
StackPushFails ==
  /\ DYNAMIC_STACK \/ StackFull
  /\ embedjson_error_ex(IF DYNAMIC_STACK THEN "CALLBACK" ELSE "STACK_OVERFLOW")

(* Mutant: the kinds of the parent are confused.                           *)
AfterContainerOfOtherKind(s) == IF s = <<>> THEN "DONE"
                                ELSE IF Last(s) = STACK_VALUE_CURLY THEN "MAYBE_ARRAY_COMMA"
                                ELSE "MAYBE_OBJECT_COMMA"

(* The state in which a container that was a value leaves its parent.      *)
AfterContainer(s) == IF s = <<>> THEN "DONE"
                     ELSE IF Last(s) = STACK_VALUE_CURLY THEN "MAYBE_OBJECT_COMMA"
                     ELSE "MAYBE_ARRAY_COMMA"

(* ... and the one an array closed while still empty leaves it in.         *)
AfterEmptyArray(s) == IF s = <<>> THEN "DONE"
                      ELSE IF Last(s) = STACK_VALUE_CURLY THEN "MAYBE_OBJECT_KEY"
                      ELSE "MAYBE_ARRAY_COMMA"

AfterValue(s) == CASE s = "EXPECT_VALUE" -> "DONE"
                   [] s = "EXPECT_OBJECT_VALUE" -> "MAYBE_OBJECT_COMMA"
                   [] OTHER -> "MAYBE_ARRAY_COMMA"

(* stack_pop and the test of the new top.  Popping an empty stack wraps    *)
(* stack_size and reads outside the stack: any state may follow.           *)
AfterPop == IF stack = <<>> THEN States
            ELSE {IF state = "MAYBE_ARRAY_VALUE" THEN AfterEmptyArray(Front(stack))
                  ELSE AfterContainer(Front(stack))}

(***************************************************************************)
(* embedjson_token: brackets, separators and literals                      *)
(***************************************************************************)
(* Mutant: the number of the token is taken for that of its bracket.       *)
BracketOfToken(t) == CASE t = "OPEN_CURLY_BRACKET" -> 0 [] t = "CLOSE_CURLY_BRACKET" -> 1
                       [] t = "OPEN_BRACKET" -> 2 [] OTHER -> 3

Bracket(t) == IF t \in {"OPEN_CURLY_BRACKET", "CLOSE_CURLY_BRACKET"}
              THEN STACK_VALUE_CURLY ELSE STACK_VALUE_SQUARE

Opens(t) == state \in ValueStates /\ t \in {"OPEN_CURLY_BRACKET", "OPEN_BRACKET"}

(* Mutant: a bracket may follow a comma.                                   *)
ClosesAfterComma(t) ==
  \/ t = "CLOSE_CURLY_BRACKET" /\ state \in {"MAYBE_OBJECT_KEY", "MAYBE_OBJECT_COMMA"}
  \/ t = "CLOSE_BRACKET" /\ state \in {"MAYBE_ARRAY_VALUE", "MAYBE_ARRAY_COMMA", "EXPECT_ARRAY_VALUE"}

(* Mutant: any bracket may follow an array element.                        *)
ClosesOtherKind(t) ==
  \/ /\ t = "CLOSE_CURLY_BRACKET"
     /\ state \in {"MAYBE_OBJECT_KEY", "MAYBE_OBJECT_COMMA", "MAYBE_ARRAY_COMMA"}
  \/ t = "CLOSE_BRACKET" /\ state \in {"MAYBE_ARRAY_VALUE", "MAYBE_ARRAY_COMMA"}

Closes(t) == \/ t = "CLOSE_CURLY_BRACKET" /\ state \in {"MAYBE_OBJECT_KEY", "MAYBE_OBJECT_COMMA"}
             \/ t = "CLOSE_BRACKET" /\ state \in {"MAYBE_ARRAY_VALUE", "MAYBE_ARRAY_COMMA"}

(* Mutant: no comma between the members of an object.                      *)
SeparatesElementsOnly(t) == \/ t = "COLON" /\ state = "EXPECT_COLON"
                            \/ t = "COMMA" /\ state = "MAYBE_ARRAY_COMMA"

Separates(t) == \/ t = "COLON" /\ state = "EXPECT_COLON"
                \/ t = "COMMA" /\ state \in {"MAYBE_OBJECT_COMMA", "MAYBE_ARRAY_COMMA"}

(* The push is not undone when the callback fails.                         *)
OpenBracket(t) ==
  /\ Opens(t) /\ Len(stack) < MaxNesting
  /\ \/ StackPushFails /\ UNCHANGED <<state, stack>>
     \/ /\ ~StackFull
        /\ stack' = Append(stack, Bracket(t))
        /\ Callback(IF Bracket(t) = STACK_VALUE_CURLY THEN "object_begin" ELSE "array_begin")
        /\ state' = IF err' # "OK" THEN state
                    ELSE IF Bracket(t) = STACK_VALUE_CURLY THEN "MAYBE_OBJECT_KEY"
                    ELSE "MAYBE_ARRAY_VALUE"

CloseBracket(t) ==
  /\ Closes(t)
  /\ IF DEBUG /\ (stack = <<>> \/ Last(stack) # Bracket(t))
     THEN embedjson_error_ex("INTERNAL_ERROR") /\ UNCHANGED <<state, stack>>
     ELSE /\ Callback(IF Bracket(t) = STACK_VALUE_CURLY THEN "object_end" ELSE "array_end")
          /\ IF err' = "OK" THEN stack' = Front(stack) /\ state' \in AfterPop
             ELSE UNCHANGED <<state, stack>>

(* Mutant: after a comma an object may end.                                *)
SeparatorThenMaybeKey(t) ==
  /\ Separates(t)
  /\ state' = CASE state = "EXPECT_COLON" -> "EXPECT_OBJECT_VALUE"
                [] state = "MAYBE_OBJECT_COMMA" -> "MAYBE_OBJECT_KEY"
                [] OTHER -> "EXPECT_ARRAY_VALUE"
  /\ UNCHANGED <<stack, event, err>>

Separator(t) ==
  /\ Separates(t)
  /\ state' = CASE state = "EXPECT_COLON" -> "EXPECT_OBJECT_VALUE"
                [] state = "MAYBE_OBJECT_COMMA" -> "EXPECT_OBJECT_KEY"
                [] OTHER -> "EXPECT_ARRAY_VALUE"
  /\ UNCHANGED <<stack, event, err>>

Literal(t) ==
  /\ state \in ValueStates /\ t \in Literals
  /\ Callback(CASE t = "TRUE" -> "bool_1" [] t = "FALSE" -> "bool_0" [] OTHER -> "null")
  /\ state' = IF err' = "OK" THEN AfterValue(state) ELSE state
  /\ UNCHANGED stack

(* What embedjson_token reports for a token that no transition takes.      *)
TokenError(t) ==
  CASE state \in ValueStates ->
         (CASE t = "CLOSE_CURLY_BRACKET" -> "UNEXP_CLOSE_CURLY"
            [] t = "CLOSE_BRACKET" -> "UNEXP_CLOSE_BRACKET"
            [] t = "COMMA" -> "UNEXP_COMMA"
            [] OTHER -> "UNEXP_COLON")
    [] state \in {"MAYBE_OBJECT_KEY", "EXPECT_OBJECT_KEY"} -> "EXP_OBJECT_KEY"
    [] state = "EXPECT_COLON" -> "EXP_COLON"
    [] state = "MAYBE_OBJECT_COMMA" -> "EXP_COMMA_OR_CLOSE_CURLY"
    [] state = "MAYBE_ARRAY_COMMA" -> "EXP_COMMA_OR_CLOSE_BRACKET"
    [] state = "DONE" -> "EXCESSIVE_INPUT"
    [] OTHER -> SelfCheck(state)

RefuseToken(t) ==
  /\ ~Opens(t) /\ ~Closes(t) /\ ~Separates(t)
  /\ ~(state \in ValueStates /\ t \in Literals)
  /\ embedjson_error_ex(TokenError(t))
  /\ UNCHANGED <<state, stack>>

embedjson_token(t) ==
  /\ Running /\ lexing = "none"
  /\ \/ OpenBracket(t)
     \/ CloseBracket(t)
     \/ Separator(t)
     \/ Literal(t)
     \/ RefuseToken(t)
  /\ UNCHANGED <<lexing, finalized>>

(***************************************************************************)
(* Numbers.  The state advances before the callback is made.               *)
(***************************************************************************)
NumberError(s) ==
  CASE s = "MAYBE_OBJECT_KEY" -> "EXP_OBJECT_KEY_OR_CLOSE_CURLY"
    [] s = "EXPECT_OBJECT_KEY" -> "EXP_OBJECT_KEY"
    [] s = "EXPECT_COLON" -> "EXP_COLON"
    [] s = "MAYBE_OBJECT_COMMA" -> "EXP_COMMA_OR_CLOSE_BRACKET"
    [] s = "MAYBE_ARRAY_COMMA" -> "EXP_COMMA_OR_CLOSE_CURLY"
    [] s = "DONE" -> "EXCESSIVE_INPUT"
    [] OTHER -> SelfCheck(s)

Number(callback) ==
  /\ IF state \in ValueStates
     THEN state' = AfterValue(state) /\ Callback(callback)
     ELSE embedjson_error_ex(NumberError(state)) /\ UNCHANGED state
  /\ UNCHANGED <<stack, finalized>>

embedjson_tokeni ==
  /\ Running /\ lexing = "none"
  /\ Number("int") /\ UNCHANGED lexing

embedjson_tokenf ==
  /\ Running /\ lexing = "none"
  /\ Number("double") /\ UNCHANGED lexing

(***************************************************************************)
(* Strings                                                                 *)
(***************************************************************************)
StringError(s) ==
  CASE s = "EXPECT_COLON" -> "EXP_COLON"
    [] s = "MAYBE_OBJECT_COMMA" -> "EXP_COMMA_OR_CLOSE_CURLY"
    [] s = "MAYBE_ARRAY_COMMA" -> "EXP_COMMA_OR_CLOSE_BRACKET"
    [] s = "DONE" -> "EXCESSIVE_INPUT"
    [] OTHER -> SelfCheck(s)

embedjson_tokenc_begin ==
  /\ Running /\ lexing = "none"
  /\ IF state \in ValueStates \cup {"MAYBE_OBJECT_KEY", "EXPECT_OBJECT_KEY"}
     THEN Callback("string_begin")
     ELSE embedjson_error_ex(StringError(state))
  /\ lexing' = IF err' = "OK" THEN "string" ELSE lexing
  /\ UNCHANGED <<state, stack, finalized>>

embedjson_tokenc ==
  /\ Running /\ lexing = "string"
  /\ IF SelfCheck(state) # "OK" THEN embedjson_error_ex(SelfCheck(state))
     ELSE Callback("string_chunk")
  /\ UNCHANGED <<state, stack, lexing, finalized>>

(* Mutant: the first key of an object is taken for a whole member.         *)
StringNextStateKeyIsMember(s) ==
  CASE s = "EXPECT_VALUE" -> {"DONE"}
    [] s = "EXPECT_OBJECT_KEY" -> {"EXPECT_COLON"}
    [] s \in {"MAYBE_OBJECT_KEY", "EXPECT_OBJECT_VALUE"} -> {"MAYBE_OBJECT_COMMA"}
    [] s \in {"MAYBE_ARRAY_VALUE", "EXPECT_ARRAY_VALUE"} -> {"MAYBE_ARRAY_COMMA"}
    [] OTHER -> {"INVALID"}

(* The next_state table of embedjson_tokenc_end.  It has no entry for      *)
(* INVALID: a release build reads past it and may find any state there.    *)
StringNextState(s) ==
  CASE s = "EXPECT_VALUE" -> {"DONE"}
    [] s \in {"MAYBE_OBJECT_KEY", "EXPECT_OBJECT_KEY"} -> {"EXPECT_COLON"}
    [] s = "EXPECT_OBJECT_VALUE" -> {"MAYBE_OBJECT_COMMA"}
    [] s \in {"MAYBE_ARRAY_VALUE", "EXPECT_ARRAY_VALUE"} -> {"MAYBE_ARRAY_COMMA"}
    [] s = "INVALID" -> States
    [] OTHER -> {"INVALID"}

(* Mutant: the state is checked before the table is consulted only.        *)
EndLexemeCheckedOnce(next, callback) ==
  /\ IF SelfCheck(state) # "OK"
     THEN UNCHANGED state /\ embedjson_error_ex(SelfCheck(state))
     ELSE state' \in next /\ Callback(callback)
  /\ lexing' = IF err' = "OK" THEN "none" ELSE lexing
  /\ UNCHANGED <<stack, finalized>>

(* The common shape of the two ..._end functions.                          *)
EndLexeme(next, callback) ==
  /\ IF SelfCheck(state) # "OK"
     THEN UNCHANGED state /\ embedjson_error_ex(SelfCheck(state))
     ELSE /\ state' \in next
          /\ IF SelfCheck(state') # "OK" THEN embedjson_error_ex(SelfCheck(state'))
             ELSE Callback(callback)
  /\ lexing' = IF err' = "OK" THEN "none" ELSE lexing
  /\ UNCHANGED <<stack, finalized>>

embedjson_tokenc_end ==
  /\ Running /\ lexing = "string"
  /\ EndLexeme(StringNextState(state), "string_end")

(***************************************************************************)
(* Big numbers (EMBEDJSON_BIGNUM).  embedjson_tokenbn_begin has already    *)
(* moved past the value when embedjson_tokenbn_end consults its table.     *)
(***************************************************************************)
embedjson_tokenbn_begin ==
  /\ Running /\ lexing = "none" /\ BIGNUM
  /\ Number("bignum_begin")
  /\ lexing' = IF err' = "OK" THEN "bignum" ELSE lexing

embedjson_tokenbn ==
  /\ Running /\ lexing = "bignum"
  /\ IF SelfCheck(state) # "OK" THEN embedjson_error_ex(SelfCheck(state))
     ELSE Callback("bignum_chunk")
  /\ UNCHANGED <<state, stack, lexing, finalized>>

BignumNextState(s) ==
  CASE s = "EXPECT_VALUE" -> {"DONE"}
    [] s = "EXPECT_OBJECT_VALUE" -> {"MAYBE_OBJECT_COMMA"}
    [] s \in {"MAYBE_ARRAY_VALUE", "EXPECT_ARRAY_VALUE"} -> {"MAYBE_ARRAY_COMMA"}
    [] s = "INVALID" -> States
    [] OTHER -> {"INVALID"}

embedjson_tokenbn_end ==
  /\ Running /\ lexing = "bignum"
  /\ EndLexeme(BignumNextState(state), "bignum_end")

(***************************************************************************)
(* End of input                                                            *)
(***************************************************************************)
(* The lexer finds a malformed lexeme, or the input ends inside one.       *)
LexerError ==
  /\ Running
  /\ err' = "LEXER"
  /\ UNCHANGED <<state, stack, lexing, event, finalized>>

(* embedjson_finalize, once embedjson_lexer_finalize has returned 0.       *)
embedjson_finalize ==
  /\ Running /\ lexing = "none"
  /\ IF state # "DONE" THEN err' = "INSUFFICIENT_INPUT" /\ UNCHANGED finalized
     ELSE finalized' = TRUE /\ UNCHANGED err
  /\ UNCHANGED <<state, stack, lexing, event>>

(* The application stops after an error or a successful finalize.          *)
Stopped == ~Running /\ UNCHANGED vars

Init ==
  /\ state = "EXPECT_VALUE"
  /\ stack = <<>>
  /\ lexing = "none"
  /\ event = "none"
  /\ err = "OK"
  /\ finalized = FALSE

Next ==
  \/ \E t \in Tokens : embedjson_token(t)
  \/ embedjson_tokeni
  \/ embedjson_tokenf
  \/ embedjson_tokenc_begin
  \/ embedjson_tokenc
  \/ embedjson_tokenc_end
  \/ embedjson_tokenbn_begin
  \/ embedjson_tokenbn
  \/ embedjson_tokenbn_end
  \/ LexerError
  \/ embedjson_finalize
  \/ Stopped

Spec == Init /\ [][Next]_vars
(***************************************************************************)
(* Properties                                                              *)
(***************************************************************************)
Events == {"none", "null", "bool_1", "bool_0", "int", "double",
           "string_begin", "string_chunk", "string_end",
           "object_begin", "object_end", "array_begin", "array_end",
           "bignum_begin", "bignum_chunk", "bignum_end"}

(* The codes of syntax errors, all that common.h has of them.              *)
SyntaxErrors == {"STACK_OVERFLOW",
                 "UNEXP_CLOSE_CURLY", "UNEXP_CLOSE_BRACKET", "UNEXP_COMMA", "UNEXP_COLON",
                 "EXP_COLON", "EXP_OBJECT_KEY_OR_CLOSE_CURLY", "EXP_OBJECT_KEY", "EXP_OBJECT_VALUE",
                 "EXP_COMMA_OR_CLOSE_BRACKET", "EXP_COMMA_OR_CLOSE_CURLY", "EXP_ARRAY_VALUE",
                 "EXCESSIVE_INPUT", "INSUFFICIENT_INPUT"}

(* CALLBACK and LEXER are not codes of the program: a callback has failed, *)
(* the lexer has.                                                          *)
ErrorCodes == {"OK", "INTERNAL_ERROR", "CALLBACK", "LEXER"} \cup SyntaxErrors

(* The fields of embedjson_parser hold values of their types.              *)
TypeOK ==
  /\ state \in States
  /\ stack \in Seq({STACK_VALUE_CURLY, STACK_VALUE_SQUARE})
  /\ lexing \in {"none", "string", "bignum"}
  /\ event \in Events
  /\ err \in ErrorCodes
  /\ finalized \in BOOLEAN

ObjectStates == {"MAYBE_OBJECT_KEY", "EXPECT_OBJECT_KEY", "EXPECT_COLON",
                 "MAYBE_OBJECT_COMMA", "EXPECT_OBJECT_VALUE"}
ArrayStates == {"MAYBE_ARRAY_VALUE", "EXPECT_ARRAY_VALUE", "MAYBE_ARRAY_COMMA"}

(* The automaton's state and the stack agree on the innermost container,   *)
(* so that stack_pop never underflows and the parent is resumed in a state *)
(* of its own kind.  After a failed call they need not: the push, or the   *)
(* state change, of the failing call is not undone.                        *)
StackMatchesState ==
  err = "OK" =>
    /\ state \in ObjectStates => stack # <<>> /\ Last(stack) = STACK_VALUE_CURLY
    /\ state \in ArrayStates => stack # <<>> /\ Last(stack) = STACK_VALUE_SQUARE
    /\ state \in {"EXPECT_VALUE", "DONE"} => stack = <<>>

(* A build without big numbers never reports EMBEDJSON_INTERNAL_ERROR: the *)
(* self-checks of a DEBUG build are redundant.                             *)
NoInternalError == err # "INTERNAL_ERROR"

(* A DEBUG build stops at once when the state becomes INVALID.             *)
DebugStopsWhenInvalid == DEBUG /\ err = "OK" => state # "INVALID"

(***************************************************************************)
(* doc/syntax-parser-fsm.dot, its edges grouped by what they do.           *)
(***************************************************************************)
PlainEdges == {<<"EXPECT_VALUE", "DONE">>, <<"EXPECT_OBJECT_VALUE", "MAYBE_OBJECT_COMMA">>,
               <<"MAYBE_ARRAY_VALUE", "MAYBE_ARRAY_COMMA">>,
               <<"EXPECT_ARRAY_VALUE", "MAYBE_ARRAY_COMMA">>,
               <<"MAYBE_OBJECT_KEY", "EXPECT_COLON">>, <<"EXPECT_OBJECT_KEY", "EXPECT_COLON">>,
               <<"EXPECT_COLON", "EXPECT_OBJECT_VALUE">>,
               <<"MAYBE_OBJECT_COMMA", "EXPECT_OBJECT_KEY">>,
               <<"MAYBE_ARRAY_COMMA", "EXPECT_ARRAY_VALUE">>}

PushEdge == /\ state \in ValueStates
            /\ \/ stack' = Append(stack, STACK_VALUE_CURLY) /\ state' = "MAYBE_OBJECT_KEY"
               \/ stack' = Append(stack, STACK_VALUE_SQUARE) /\ state' = "MAYBE_ARRAY_VALUE"

PopsTop == /\ stack # <<>> /\ stack' = Front(stack)
           /\ \/ state \in {"MAYBE_OBJECT_KEY", "MAYBE_OBJECT_COMMA"} /\ Last(stack) = STACK_VALUE_CURLY
              \/ state \in {"MAYBE_ARRAY_VALUE", "MAYBE_ARRAY_COMMA"} /\ Last(stack) = STACK_VALUE_SQUARE

DiagramEdge == \/ <<state, state'>> \in PlainEdges /\ stack' = stack
               \/ PushEdge
               \/ PopsTop /\ state' = AfterContainer(stack')

(* The edge the code has in place of maybe_array_value -> maybe_object_comma.*)
EmptyArrayMember == /\ PopsTop /\ state = "MAYBE_ARRAY_VALUE" /\ stack' # <<>>
                    /\ Last(stack') = STACK_VALUE_CURLY /\ state' = "MAYBE_OBJECT_KEY"

(* Every successful call follows an edge of the diagram, with its stack    *)
(* operation, or leaves state and stack alone.                             *)
FollowsDiagram ==
  [][err' = "OK" => UNCHANGED <<state, stack>> \/ DiagramEdge]_vars

(* The same, an array closed while empty in an object apart.               *)
FollowsDiagramButEmptyArrays ==
  [][err' = "OK" => UNCHANGED <<state, stack>> \/ DiagramEdge \/ EmptyArrayMember]_vars

(***************************************************************************)
(* The callbacks form one well nested document (SaxStream).  A failed call *)
(* ends the document, whatever it left behind in state and stack.          *)
(***************************************************************************)
Want == IF err # "OK" \/ state = "DONE" THEN "nothing"
        ELSE IF state \in {"MAYBE_OBJECT_KEY", "EXPECT_OBJECT_KEY", "MAYBE_OBJECT_COMMA"}
        THEN "key" ELSE "value"

Sax == INSTANCE SaxStream WITH
         CURLY <- STACK_VALUE_CURLY,
         SQUARE <- STACK_VALUE_SQUARE,
         open <- IF err = "OK" THEN stack ELSE <<>>,
         want <- Want,
         mode <- IF err = "OK" /\ lexing # "none" THEN lexing ELSE "idle",
         event <- event,
         outcome <- IF err # "OK" THEN "rejected" ELSE IF finalized THEN "accepted" ELSE "running"

(* The parser implements the stream of callbacks an application expects.   *)
ImplementsSaxStream == Sax!Spec
==============================================================================
