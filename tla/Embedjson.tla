------------------------------ MODULE Embedjson ------------------------------
(***************************************************************************)
(* embedjson as the application sees it: embedjson_push and                *)
(* embedjson_finalize (parser.c), the lexer below them and the parser the  *)
(* lexer calls.                                                            *)
(*                                                                         *)
(* A step of Lexer leaves the token functions it calls in calls; they are  *)
(* then carried out one by one, each an action of Parser.  What the lexer  *)
(* assigns after a call is local to the push, except *lexer itself: when a *)
(* call fails *lexer is again what it was at the beginning of the push.    *)
(***************************************************************************)
EXTENDS Integers, Sequences, SequencesExt

CONSTANTS
  DEBUG, BIGNUM, DYNAMIC_STACK, VALIDATE_UTF8, STATIC_STACK_SIZE, INT_MAX, FRAC_MODULUS,
  Alphabet, MaxBuffer, MaxFraction, MaxNesting, NULL

(* What Lexer and Parser assume.                                           *)
ASSUME EmbedjsonAssumption ==
  /\ DEBUG \in BOOLEAN /\ BIGNUM \in BOOLEAN /\ DYNAMIC_STACK \in BOOLEAN
  /\ VALIDATE_UTF8 \in BOOLEAN
  /\ STATIC_STACK_SIZE \in Nat /\ MaxNesting \in Nat
  /\ INT_MAX \in Nat /\ INT_MAX >= 127
  /\ FRAC_MODULUS \in Nat \ {0}
  /\ Alphabet \subseteq 0..255
  /\ MaxBuffer \in Nat /\ MaxFraction \in Nat
  /\ NULL \notin Seq(0..255)

VARIABLES
  lexer, lex, pushing, left, data, again, chunk,   \* the lexer's (see Lexer)
  state, stack, lexing, event,                     \* the parser's (see Parser)
  calls,      \* token functions called by the last step of the lexer, still to run
  saved,      \* *lexer at the beginning of the push
  scanned,    \* embedjson_lexer_finalize has no error of its own to return
  err,        \* what the last call returned, "OK" for 0
  finalized   \* embedjson_finalize returned 0

lexervars  == <<lexer, lex, pushing, left, data, again, chunk, scanned>>
parservars == <<state, stack, lexing, event, finalized>>
evars      == <<lexervars, parservars, calls, saved, err>>

L == INSTANCE Lexer WITH finalized <- scanned
P == INSTANCE Parser

(***************************************************************************)
(* Steps of the lexer.  Whether a call fails is the parser's to say.       *)
(***************************************************************************)
Undelivered == err' # "CALLBACK" /\ UNCHANGED parservars

embedjson_push(size) == calls = <<>> /\ L!BeginPush(size) /\ Undelivered /\ saved' = lexer

Scan(b) == calls = <<>> /\ L!Iterate(b) /\ Undelivered /\ UNCHANGED saved

Return == calls = <<>> /\ L!EndPush /\ Undelivered /\ UNCHANGED saved

embedjson_lexer_finalize == calls = <<>> /\ L!Finalize /\ Undelivered /\ saved' = lexer

(***************************************************************************)
(* The token functions                                                     *)
(***************************************************************************)
Call(c) == \/ c.call = "token" /\ P!embedjson_token(c.tok)
           \/ c.call = "tokeni" /\ P!embedjson_tokeni
           \/ c.call = "tokenf" /\ P!embedjson_tokenf
           \/ c.call = "tokenc_begin" /\ P!embedjson_tokenc_begin
           \/ c.call = "tokenc" /\ P!embedjson_tokenc
           \/ c.call = "tokenc_end" /\ P!embedjson_tokenc_end
           \/ c.call = "tokenbn_begin" /\ P!embedjson_tokenbn_begin
           \/ c.call = "tokenbn" /\ P!embedjson_tokenbn
           \/ c.call = "tokenbn_end" /\ P!embedjson_tokenbn_end

(* RETURN_IF: a call that fails ends the push, or the finalize.            *)
Abort == /\ calls' = <<>> /\ lexer' = saved /\ pushing' = FALSE /\ scanned' = FALSE
         /\ UNCHANGED <<lex, left, data, again, chunk>>

RunCall ==
  /\ calls # <<>>
  /\ Call(Head(calls))
  /\ IF err' = "OK" THEN calls' = Tail(calls) /\ UNCHANGED lexervars ELSE Abort
  /\ UNCHANGED saved

(* Mutant: the state of the parser is not tested.                          *)
embedjson_finalize_unchecked ==
  /\ scanned /\ calls = <<>>
  /\ P!Running /\ finalized' = TRUE
  /\ UNCHANGED <<lexervars, state, stack, lexing, event, calls, saved, err>>

(* embedjson_lexer_finalize has returned 0.                                *)
embedjson_finalize ==
  /\ scanned /\ calls = <<>>
  /\ P!embedjson_finalize
  /\ UNCHANGED <<lexervars, calls, saved>>

Over == (err # "OK" \/ finalized) /\ UNCHANGED evars

EInit == /\ L!Init /\ P!Init
         /\ saved = lexer

ENext == \/ \E size \in 0..MaxBuffer : embedjson_push(size)
         \/ \E b \in Alphabet : Scan(b)
         \/ Return
         \/ embedjson_lexer_finalize
         \/ RunCall
         \/ embedjson_finalize
         \/ Over

ESpec == EInit /\ [][ENext]_evars

(***************************************************************************)
(* Properties                                                              *)
(***************************************************************************)
(* The lexeme a state of the lexer is inside of.                           *)
Lexeme(s) == IF s \in L!StringStates THEN "string"
             ELSE IF s = "IN_BIG_NUMBER" THEN "bignum" ELSE "none"

InsideString == {"tokenc", "tokenc_end"}
InsideBignum == {"tokenbn", "tokenbn_end"}

(* The lexer calls token functions in the order Parser assumes: chunks and *)
(* ends only inside what was begun, anything else only outside, in every   *)
(* buffer and at the end of the input; and between calls both sides agree  *)
(* about the lexeme they are in.                                           *)
LexerKeepsProtocol ==
  err = "OK" =>
    /\ calls # <<>> => /\ Head(calls).call \in InsideString <=> lexing = "string"
                       /\ Head(calls).call \in InsideBignum <=> lexing = "bignum"
    /\ calls = <<>> =>
         lexing = IF scanned THEN "none" ELSE Lexeme((IF pushing THEN lex ELSE lexer).state)

(* Parser does not look into the lexer: all errors of the lexer are one.   *)
ParserErr == IF err \in P!ErrorCodes THEN err ELSE "LEXER"

Alone == INSTANCE Parser WITH err <- ParserErr

(* Parser, by itself, assumes what its environment does.  The lexer, the   *)
(* pushes and their failures are such an environment: what holds of Parser *)
(* holds below embedjson_push and embedjson_finalize.                      *)
ImplementsParser == Alone!Spec
==============================================================================
