# embedjson: models, model checking and proofs

embedjson (`../src`) is a streaming JSON parser in C: the application hands it
buffers cut anywhere in the text and gets callbacks (`embedjson_object_begin`,
`embedjson_string_chunk`, ...).  It keeps no text and allocates nothing, so
everything it knows about the input lives in two small structures, the lexer's
and the parser's.  This directory holds TLA+ models of both, the TLC runs that
check them and the TLAPS proofs about them.  Line numbers are those of
`../src` at the commit modelled.

## 1. Inventory

| Component | State | Operations | Modelled by |
|---|---|---|---|
| Syntax parser, `parser.c` | `state` (11 values), the stack | `embedjson_token`, `_tokenc*`, `_tokeni`, `_tokenf`, `_tokenbn*`, `embedjson_finalize` | `Parser` |
| Bit stack, `parser.c:60-111` | `stack`, `stack_size`, `stack_capacity` | `stack_push`, `stack_pop`, `stack_top`, `stack_full`, the application's `embedjson_stack_overflow` | `ParserStack` |
| Lexer, `lexer.c` | `embedjson_lexer`: state, accumulators of a number, of a `\u` escape, of a UTF-8 character, encoding guess | `embedjson_lexer_push`, `embedjson_lexer_finalize` | `Lexer` |
| Errors, `common.c`, `common.h` | none | `embedjson_error_ex`, `embedjson_strerror` | codes only, `err` in `Parser` and `Lexer` |
| Lexer and parser together | both structures | `embedjson_push`, `embedjson_finalize` | `Embedjson`, `EmbedjsonText` |
| Doubles, `lexer.c` `powm10` | none | arithmetic | its arguments only, in `Lexer` |
| `embedjson_lint.c` | a dynamic stack | `embedjson_stack_overflow` and printing | its growth, in `MCParserStack` |
| Build, amalgamation, tests | - | - | not modelled |

How they interact: the application calls `embedjson_push`, which runs the
lexer's loop over the buffer; the loop calls the parser's token functions; they
change the parser's state and stack and call back into the application.  All of
it is one thread and synchronous.  What makes it hard is not concurrency but:

* *Cuts.*  A buffer can end between any two bytes.  All context must survive in
  the structure, yet `string_chunk_begin`, `data` and the copy of the lexer are
  local to one push.
* *Failure half way.*  Every token call and every callback can fail; state may
  have been changed before the call that fails, and an aborted push forgets the
  lexer's copy and keeps the parser's changes.
* *Protocol.*  `begin`, `chunk` and `end` calls of a lexeme have to match, and the tables
  used at `end` have to fit the state `begin` left behind.
* *Boundaries.*  Signed integers that must not overflow, a table indexed by an
  exponent and by the digits of a fraction, a bit stack counted in an `unsigned char`, an unsigned `stack_size`
  that may be popped below zero, stale bits in reused and grown stacks.

What makes each part correct:

* Parser: it accepts exactly JSON's documents; its state and its stack never
  disagree; the callbacks form one well nested document whatever fails; the
  self-checks of a `DEBUG` build never fire.
* Stack: it is a last-in first-out stack, inside its memory, full exactly when
  its memory is used up (it is not, from 32 bytes on: finding 3).
* Lexer: tokens depend on the text and not on the cuts; integers that are delivered
  fit their type, those that do are delivered, and no step of their computation
  overflows (the last two fail near the limit: finding 4); no accumulator
  survives its number; `powm10` stays in its table (not for a long fraction: finding 5);
  strings are UTF-8 (finding 6), its restricted second bytes are enforced; a failed push
  leaves no trace; every push returns.
* Errors: the code that is reported describes the input (three do not, see the end of section 3).
* Together: the lexer calls the parser in the order the parser relies on, and the
  callbacks tell the application the document it was sent.

`PROJECT.json` lists the hazards line by line, with the properties about each.

## 2. Modules

```
 SaxStream <--implements-- Parser <--restricts-- ParserLanguage <-- ParserLanguageProofs
                           |    |
                ParserProofs    +----------- Embedjson <-- EmbedjsonText
                                             |       |          |
                                             |   EmbedjsonProofs <-- EmbedjsonTextLemmas
                                             |                            |
 LexerReference --carries along--> Lexer ----+                 EmbedjsonTextProofs
           |                         |
 LexerReferenceProofs <------ LexerProofs

 Lifo <--implements-- ParserStack <-- ParserStackProofs
```

`MC*.tla` give the constants their values; each `.cfg` is one run.

### Parser

One action per token function, with every state change, guard and callback of
it; `lexing` records which of the `begin`/`end` pairs the lexer is in, so that
the environment calls only what the lexer can call.  `stack` is a sequence of
brackets (that the bits implement one is `ParserStack`'s business).  A callback
fails or not, `Callback`, and a failed call leaves what was changed before it.
After an error the application stops (`Running`): the documented programs do,
and recovery is on the repository's list of things to do (`README.md:152`).  The build switches
`DEBUG`, `BIGNUM`, `DYNAMIC_STACK` and `STATIC_STACK_SIZE` are constants.

* `err = "CALLBACK"` and `"LEXER"` are not codes of the program: they stand for
  an application's callback and for the lexer having failed.
* State values the code cannot hold behave as `INVALID`, and where a release
  build goes on in `INVALID` and indexes a table past its end, any state may
  follow.
* `embedjson_error` is taken to return non-zero, as the sample of `../src/README.md`,
  `embedjson_lint.c` and `ut_parser.c` do (section 5).

`SaxStream` is the abstract specification: what an application can rely on. It
knows the open containers, what the innermost takes next (`want`), whether a
string or big number is being delivered, and the outcome; it knows no token, no
separator and no stack.  `Parser` implements it under the mapping at the end of
`Parser.tla`.  After a rejection nothing is promised, hence its variables go to
fixed values there; a callback that failed must still have been one that was
allowed.

`ParserLanguage` carries along the tokens fed so far and compares what the
parser accepts with the JSON grammar, as a definition of its own (sets of
documents by length, no automaton).  It has the one exception of finding 1.

### ParserStack

The bits themselves: a byte is the set of its one bits.  `max_size` is computed
modulo 256 like the `unsigned char` of `parser.c:77`.  A dynamic stack grows
along `Grow[c]` when it is full, or the application refuses; grown bytes hold
anything (`Garbage`).  Assumed of the application: a successful
`embedjson_stack_overflow` has enlarged the stack, kept its bytes and set
`stack_capacity`, as `embedjson_lint.c:148-154` does.  The documentation names
`stack_size` instead (`README.md:39`, `parser.h:65-67`), in which the code counts bits.  That
`stack_pop` and `stack_top` find something is the parser's business
(`StackMatchesState`) and a guard here.  `Lifo`
is the abstract stack; it says which bracket a push adds (`pushed`), and what an
inspection shows (`top`).

### Lexer

One iteration of the loop of `embedjson_lexer_push` is one step, with one action
per case of its switch.  `lexer` is the stored structure, `lex` the copy, made
at `BeginPush` and stored at `EndPush` only.  `chunk` is what the pointer
`string_chunk_begin` delimits (`NULL` when it points nowhere), `again` is
`data--`.  Calls are recorded in `calls`; any of them may fail.  `int_value` is
an unbounded integer so that an overflow shows.  `AppendDigit` is the expression of
`lexer.c:437`: the code of the digit is added to the product and 48 subtracted from the sum.
A sum beyond `INT_MAX` is undefined in C (`SumOverflows`): it wraps twice and gives the
right integer, or the program stops (`err = "TRAP"`, not a code of the program).
`INT_MAX` stands for the largest `EMBEDJSON_INT_T` of a type at least as wide as `int`,
for narrower types the sum is an `int`; small values of it are scaled-down limits.
At `lexer.c:414` the product is 0, so there is nothing to overflow.
`frac_value` wraps (`FRAC_MODULUS`).  A double is passed on as its parts, not computed.

`LexerReference` records the input and all calls, and compares the calls with
those of a reference that sees the whole text at once: `PieceAt` is what stands at
a position, inside or outside of a string (a number is found by the ends of its
digits, a `\u` escape by its six bytes), and `Reference` the tokens of all pieces up
to the first malformed one.  Chunks are taken apart into bytes before comparing: where they
are cut is the one thing allowed to depend on the buffers.  The reference has
neither UTF-8 validation nor a largest integer, so what the lexer refuses or
splits for these, and sums that overflow, are left out (`Unlimited`); an input that ends in `.` or in the sign of
an exponent is too, for `embedjson_lexer_finalize` takes it for a number and the
reference does not.

### Embedjson

`L` and `P` are instances of `Lexer` and `Parser` over the same `err`.  A step of the
lexer (`embedjson_push` begins a push, `Scan` is an iteration, `Return` the end of a
buffer, `embedjson_lexer_finalize`) leaves the token functions it calls in
`calls`; `RunCall` carries out the first of them, an action of `P`, and only `P` says
whether it fails.  What the lexer assigns after a call is local to the push, so
that doing it before the call makes no difference, but for `*lexer`:
`saved` is what it was, and a call that fails (`RETURN_IF`, `lexer.c:66`) restores it
and drops the other calls (`Abort`).  `scanned` stands for
`embedjson_lexer_finalize` having nothing more to do; only then
`embedjson_finalize` looks at the parser's state.

`EmbedjsonText` adds an application that writes down the document it is told: a
bracket, literal, number or string for each callback, a comma or colon where the
callbacks so far call for one.  Its text is compared with `compact`: the input
without white space, its escapes replaced by the bytes they stand for and every
number by one digit.  `compact` is computed byte by byte next to the lexer, from
the text alone: `mode` says whether a byte is outside a lexeme, in a string, an
escape, a `\u` escape (whose digits are in `hex`) or a number; it knows no
buffers, calls, chunks or accumulators.  What is accepted has been told in full and is
closed; that it is JSON is not part of this, for `1.` and `1e+` are one number
here as they are for the lexer (see the end of section 3), and the grammar of the tokens is `ParserLanguage`'s.

## 3. Runs

Passing runs, with what they answer:

| Run | Question | Properties |
|---|---|---|
| `parser` | With everything switched on, do state, stack, diagram and callbacks agree? | `TypeOK`, `StackMatchesState`, `DebugStopsWhenInvalid`, `FollowsDiagramButEmptyArrays`, `ImplementsSaxStream` |
| `parser_language` | Which texts are accepted, and when are they refused? | `AcceptsOnlyDocuments`, `RefusesOnlyNonDocuments`, `NoInternalError` |
| `parser_stack` | Are the bits a stack, across growth and stale memory? | `TypeOK`, `InBounds`, `ImplementsLifo` |
| `lexer_numbers` | Numbers of any length, cut anywhere | `IntFits`, `CleanAccumulators`, `ExponentsInTable`, `BignumChunkBytes`, `ChunkPointsIntoBuffer`, `FailedPushKeepsLexer`, `OverflowOnlyNearLimit`, `LoopMakesProgress`, `PushReturns` |
| `lexer_reference` | Do the tokens depend on the cuts? Is restricted UTF-8 enforced? | `TypeOK`, `ChunkPointsIntoBuffer`, `TokensDoNotDependOnBuffers`, `AllTokensAtEnd`, `CornerCasesEnforced` |
| `embedjson` | Does the lexer call the parser as it should, and is the application told the document it sent? | `LexerKeepsProtocol`, `CallbacksSpellInput`, `AcceptedIsSpelledOut`, `ImplementsParser` |

Runs that must find a violation, each of a statement the repository makes
(`PROJECT.json` quotes it):

1. `parser_diagram`, `FollowsDiagram`: `parser.c:295` leaves an empty array that
   is an object member's value in `MAYBE_OBJECT_KEY`, where the diagram
   (`doc/syntax-parser-fsm.dot:58`) goes to `maybe_object_comma`.  So
   `{"a":[],"b":1}` is refused and `{"a":[]"b":1}` accepted.
2. `parser_bignum_internal_error`, `NoInternalError`: `embedjson_tokenbn_end` looks
   up the state in a table meant for the state *before* the value
   (`parser.c:572-590`).  A `DEBUG` build reports `EMBEDJSON_INTERNAL_ERROR` at
   every big number; a release build goes on in `INVALID`.
3. `parser_stack_deep`, `InBounds`: `max_size` is an `unsigned char`; along
   `embedjson_lint`'s growth 0, 1, 3, 7, 15, 31, 63 bytes the last stack is
   never found full and the 505th bracket is written outside it.
4. `lexer_integers`, `IntegersAreDelivered`: near the limit of its type an integer that fits is
   not delivered, and one that does not is not told in full (`README.md:42`, `common.h:205-214`).
   * The sum of `lexer.c:437` overflows for integers that fit and are less than 48
     below the limit (32720 with `INT_MAX` 32767, 9223372036854775800 with a `long long`),
     undefined behaviour.  This is the trace TLC stops at.
   * The test of `lexer.c:427` refuses integers that fit, of up to 81 below the limit, or
     makes them big numbers (32707 and 32727 in the run).
   * The digit at which an integer turns out too large is neither in the
     initial value nor in the first chunk (`lexer.c:429`): 32770 is told as begin(3277), end.
     Nor is the sign passed on.
5. `lexer_long_fraction`, `PowersInTable`: `frac_power` is not limited (`lexer.c:457`), and
   a fraction of 324 digits indexes `powm10` outside its table.
6. `lexer_utf8`, `Utf8IsValidated`: what `README.md:28` promises, against the forms of a character
   in UTF-8 (`Utf8Forms`).
   * With no byte due, a continuation byte 80..BF is neither a lead byte nor anything else
     the code tests, and passes as a character (`lexer.c:310-333`).  This is the trace TLC stops at.
   * C0 and C1, which begin overlong forms only, are accepted (`lexer.c:310`).
   * After F0 the second bytes A0..AF are refused although the comment at `lexer.c:275`
     allows 90..BF.
   * After F1..F3 the next byte is not tested, so a quote ends the string inside the
     character and `nb` stays for the next string (`lexer.c:272`, `lexer.h:63`).

TLC stops at the first state that violates the property; `tlc -continue` lists the others.

Where the documentation says something else than the code and no run compares them (the models
are as the code is):

* For a static stack of 32 bytes `max_size` is 0 (`parser.c:77`), so the empty stack is full
  and the first bracket is refused, where `README.md:40` has a bit for each level and
  `common.h:141` advises to increase the stack.  `8 * 32` is the same conversion as in finding 3.
* An application that initialises `stack` and `stack_size`, as `README.md:39` and `parser.h:65-67`
  say, and leaves `stack_capacity` at zero is never asked for a larger stack: the code tests
  `stack_capacity`.
* `embedjson_lexer_finalize` accepts `1.` and `1e+` as complete numbers
  (`lexer.c:623-642`), against `common.h:109` and `180-183`.  `LexerReference` leaves
  out inputs that end so, `EmbedjsonText` takes them for a number as the lexer does.
* A number in place of a comma is reported with the code of the other container (`parser.c:414`,
  `423`, `450`, `459`, `540`, `549`, against `common.h:162-165`).
* A minus sign without a digit is reported as the end of the input in a string (`lexer.c:418`,
  `common.h:118-124`), a control character in a string as bad UTF-8 (`lexer.c:353`); the code
  `common.h:190-196` has for the latter is not used.

### Bounds and why they are enough

* `parser`: nesting 9 over a static stack of one byte: the eighth bracket fits
  and the ninth is refused, so the limit is met in every kind of container.
  Nothing else is bounded, inputs are of any length.
* `parser_language`: 10 tokens reach every state with every parent kind, with an
  element before and after it; both properties are proved for any length.  The stack is
  made large enough not to interfere.
* `parser_stack`: 0 to 2 bytes of capacity and depth 10 cross a byte's end and
  grow at exactly that moment, from nothing and from one byte, with fresh memory
  of all zeros, all ones and a mixture.  These capacities do not reach the 32 bytes from
  which `max_size` is wrong; `parser_stack_deep` (one kind of bracket, 504 steps) does.
* `lexer_numbers`: buffers of up to 2 bytes, any number of them: a
  cut between any two bytes, the first and last byte of a buffer different and the
  same.  `INT_MAX = 127` puts the limit of an 8 bit `EMBEDJSON_INT_T` within
  three digits (the code is the same text for wider types); the alphabet holds a
  byte of each class the code distinguishes, and digits that make integers and
  exponents on both sides of the limits.  `MaxFraction` caps the digits of a
  fraction, as `frac_power` is not limited by the code: one digit here, for which only the
  exponent's use of `powm10` is checked (`ExponentsInTable`), and 324 in
  `lexer_long_fraction`, with an alphabet of `0`, `.` and comma and `FRAC_MODULUS` 1 so that
  nothing but the number of digits varies.
* `lexer_reference`: `Inputs` gives each alphabet its length, 8 bytes for strings
  and escapes, 7 for numbers and literals, 5 for UTF-8, in buffers of up to 3 bytes:
  a lexeme is cut in up to four pieces, two lexemes with an escape or an exponent each
  fit, and so does a character of four bytes with the quotes.
* `lexer_integers`: `INT_MAX = 32767`, an `int` of 16 bits, and 7 bytes of the digits of 32720
  and 32767, `0`, `2`, `3`, `7`, with a comma to end the number.  A limit of 16 bits is the
  smallest at which the sum is wrong in C: a narrower type is promoted.
  `lexer_utf8`: strings of up to 4 bytes with a letter and bytes of each kind of lead and
  continuation byte.
* `embedjson`: `Shapes` lists the inputs, each as what its first, second, ... byte
  may be: every text of up to 6 bytes over the structural characters, a quote, a
  digit, a dot and a space; texts of 11 and 12 bytes that begin with a member of an
  object, so that siblings come after it; literals behind a bracket, a minus
  or a digit (`Words`); signs and exponents between digits (`Signs`); strings
  with simple and `\u` escapes (`Escapes`).
  Buffers of 0 to 2 bytes.  With `INT_MAX = 127` four digits are a big number;
  self-checks are on and every callback may fail.  Nesting does not reach the
  stack's size here (`parser` is about that limit).

### Deadlock and fairness

Every module has a step for the stopped program (after an error, after
`finalize`), so deadlock is checked everywhere.  The only liveness property is
`PushReturns`: a push that has begun returns.  It is checked under
`FairSpec`, weak fairness on the iterations and the end of a push (`RunsOn`):
between them there is no waiting, the loop runs on by itself.  Steps in which a
callback fails are not forced, so that an endless loop is not ended by a
failure it could have met.  No fairness is assumed of the application: it need
not push, nor finalize.

## 4. Proofs

All theorems hold for every stack size, nesting depth and input, but for the
conditions named; the modules they are about declare no `RECURSIVE` operator.

`ParserProofs`

* `TypeCorrect`: `Spec => []TypeOK`, in every build.
* `InvCorrect`: the inductive invariant `IInv`.  `StackMatchesState` alone is not
  inductive: it says which bracket is on top in the states inside a container,
  but a pop uncovers the bracket below, the state is chosen by it, and a string
  or a big number is between two calls when the table is looked up.  `IInv` adds that
  what the lexer is inside of fits the state (`LexemeMatchesState`: `begin` was
  called in a state that allows it and the state has not moved for a string) and that `INVALID`
  is not reached.  Assumption `Contained == DEBUG \/ ~BIGNUM`: in a release
  build with big numbers finding 2 lets the parse go on in `INVALID`,
  so there is no agreement to prove, for a single big number breaks it.
* `StackAgrees` (`[]StackMatchesState`): the state and the stack agree, hence no
  pop of an empty stack, under `Contained`.
* `SelfChecksRedundant` (`[]NoInternalError`): without big numbers no self-check
  can fail.
* `InvalidIsFinal` (`[]DebugStopsWhenInvalid`): a `DEBUG` build never continues
  from `INVALID`.
* `DiagramFollowed` (`FollowsDiagramButEmptyArrays`): every successful call
  takes an edge of the diagram with its stack operation, with finding 1 as the
  only exception.
* `ParserImplementsSaxStream`: `Spec => ImplementsSaxStream` under `Contained`.
  One lemma for each group of token functions: under `IInv` every successful
  call is the `Offer` of its callback and every failing one a `Reject`.  What
  makes it work is `WantLemma`: the parser's state decides `want`, because with
  `IInv` it knows the kind of the innermost container.

`ParserStackProofs`

* `StackTypeCorrect`: no assumption.
* `StackInBounds`, `StackImplementsLifo` under `SmallStack`
  (all capacities below 32 bytes), where `8 * capacity` fits an `unsigned char`;
  finding 3 shows what happens above.  Inductive invariant: `stack_size` is at
  most `8 * stack_capacity` and nothing outside was accessed.  For the
  refinement, `BitsAreDistinct` says that two depths never share a bit and
  `PushedBits` what a push does to all of them, with enlarged and uninitialised
  memory.

`LexerProofs`: for every `INT_MAX` from 127 on, every alphabet and build, and
buffers of any size.

* `LexerInvariant`: the inductive invariant `IInv`.  The properties are not
  inductive: whether the next digit fits, or a reset leaves the accumulators
  clean, depends on what the other fields may hold in that state.  `Accumulators`
  says for each state which accumulators may be other than zero and how large
  they are (`int_value` at most `INT_MAX`, `exp_value` at most the limit of its
  sign); `Offsets` where a keyword or an escape stands, so that no byte of
  `unicode_cp` exceeds 255; `GoodChunk` what an open chunk may hold.  It holds of
  `*lexer` and of the copy, and the calls are typed.  One lemma for each case of
  the switch, one for each of the other steps.
* `LexerTypeCorrect` (`TypeOK`), `StoredIntegersFit` (`IntFits`: of the integers that are kept
  and delivered, the sums are finding 4), `AccumulatorsAreClean`, `ChunksPointIntoBuffer`, `BignumChunksAreNumbers`,
  `FailedPushesKeepLexer` follow from it.
* `CornerCasesAreEnforced` needs `CornerInv` besides: after a lead byte E0, F0 or F4 in a
  string, `nb` and `cc` (in the stored lexer too, when the buffer ends
  there) hold the test the next byte is due, and `cc` is never left over from an earlier character.
* `ExponentsAreInTable` (`ExponentsInTable`): the limits of `lexer.c:499-500` keep the exponent
  inside the table on both sides, whatever the length of the fraction, whose own use of
  `powm10` has no limit (finding 5).
* `LoopsAreBounded` (`LoopMakesProgress`): an iteration of the loop ends the push or leaves less
  work (two for each byte that is left, one more if `data--` was done), by the invariant that a
  byte is looked at again in `LOOKUP_TOKEN` only.  This is the part of `PushReturns`
  that depends on the code: with it, a push that keeps running returns.
* `OverflowsAreNearLimit` (`OverflowOnlyNearLimit`): how far finding 4 reaches.  The
  test compares with `INT_MAX / 10` minus the digit, so it is wrong by at most nine in the
  tenths, and the sum is at most 48 above the integer: what is refused, becomes a big
  number or overflows is more than `INT_MAX - 81`, and everything below is delivered.

`LexerReferenceProofs`: for inputs of any length, buffers of any size, every `INT_MAX`,
build and alphabet, and fractions of less than 65536 digits (`frac_power` has 16 bits and
wraps around; the code does not limit it).

* `TokensFollowInput` (`TokensDoNotDependOnBuffers`) and `EndCompletesTokens`
  (`AllTokensAtEnd`), with the values of integers, the parts of doubles and the
  bytes of escapes.  The properties compare the lexer with the reference of the
  input read so far, or of the input that ends here; neither is inductive, for in the
  middle of a lexeme the reference has no token of it and one byte more may complete it or
  make it malformed.  The invariant (`Known` in `RInv`) speaks of every text that begins
  with the input: up to some position its tokens are what the parser has been told (and the
  open chunk), and from there to the next byte to be read the lexer has just what its
  state and its fields say (`Follows`, `Read`: a beginning of a keyword, the digits whose
  value is `int_value`, the place of the point and of the exponent, ...).
  It is true of every continuation, so a byte more only narrows them down.
* One lemma for each case of the switch: the lexer goes on knowing more of the lexeme, or
  makes the call of the piece that the reference has there, or refuses what the reference
  finds malformed.  `Incomplete` is the text that ends inside a lexeme,
  `EndFollows` the one at whose end `embedjson_lexer_finalize` is called.
* The reference is made of functions of positions (`Decimal`, `Rest`) and of ends of digits
  (`Span`).  That these functions are what their equations say, for texts of any length,
  is an induction by the least number at which it would fail (`Least`, from the
  well-foundedness of the subset order in the library; `UpTo`).

`ParserLanguageProofs`: for every `MaxTokens`, that is, for every input.

* `NothingElseIsAccepted` (`AcceptsOnlyDocuments`), with any stack and in every
  build.  The grammar is a recursive function of the length; `Documented` and the
  lemmas before it give its rules (a value between brackets is a value, a value and
  elements are elements, ...) and the forms of each value, the former as long as the result
  has at most `MaxTokens` tokens.  That the function has the levels one expects
  is an induction over the length, by the least length at which it would fail (the
  induction theorems of the library take an operator, which no prover here
  instantiates).  The grammar adds elements and members at the front, the
  parser reads them to the end: so what has been read of a container is described by what may follow,
  whatever elements or members come next make elements or members with it (`ArrayReady`, `KeyReady`).
  The inductive invariant is `AcceptInv`: the
  input is cut at the open brackets (`Nests`), between one and the next stands what waits for a
  value, and behind the last what the state says (`Holds`).  The property alone
  is far from inductive, it speaks of `DONE` only.
* `DocumentsAreAccepted` (`RefusesOnlyNonDocuments`) under `StackSuffices`: the stack is
  dynamic, or has a bit for every token of the input; with a smaller one a
  document may be refused for its depth.  The invariant `RefuseInv`
  looks the other way: every text that makes a document of the input consists of what the
  state still needs (`Remains`), the bracket of the innermost container, what may
  follow that container, and so on outwards (`Endings`).  Its first token is one the
  parser takes, and what comes after it is such a text for the new state
  (`TokenProgress`); when nothing is left the state is `DONE` (`Complete`).  An array
  that may still be empty has two such texts: its end is finding 1 when it is a
  member's value (`Continues`).

`EmbedjsonProofs`: for every input, in every build, without an assumption.

* `LexerObeysProtocol` (`LexerKeepsProtocol`).  The property speaks of the next
  call only and says nothing of those behind it; the invariant has
  `Follows(calls, lexing, Destination)`: the calls that are left lead
  from the lexeme the parser is in to the one the lexer is in.  Every case of the
  switch is such a path of at most two calls.
* `EmbedjsonImplementsParser` (`ImplementsParser`): under the mapping that takes
  every error of the lexer for `"LEXER"`, a step of `Embedjson` is a step of
  `Parser` or leaves its variables alone.  Hence what is proved of `Parser`
  in its own environment, from `StackAgrees` to `ParserImplementsSaxStream`, holds when the
  lexer drives it.

`EmbedjsonTextLemmas`, `EmbedjsonTextProofs`: for every input, alphabet, `INT_MAX` and stack,
however the input is cut and whatever fails, under `Contained` again.

* `CallbacksFollowInput` (`CallbacksSpellInput`) and `AcceptedInputIsTold`
  (`AcceptedIsSpelledOut`).  The inductive invariant `TextInv` has the invariants of lexer and
  parser in it (`Sound`; the theorems about both are instantiated for the composition) and:
  `Modes`, which lexer states go with which mode of the text, and that the
  digits of a `\u` escape read so far are the ones `unicode_cp` was made of;
  `App`, the containers the application is in are the parser's stack and the separator
  it owes is the one the parser's state waits for; and `Matches`, the input so far is what has been
  written, then what the calls not yet made will write (`Spell`), then what the lexer still holds
  (`Rest`: a beginning of a keyword, an unfinished number, the open chunk).
  Without `Matches` nothing can be said of a step of the lexer, which writes
  nothing, or of a callback, which reads nothing.
* One case breaks `Matches`: `1-1` is one number for the text, while the lexer ends
  a number at the minus sign and begins another.  The parser refuses the second one
  wherever it comes, so nothing is written any more (`Doomed`); TLC finds the case in `Signs`.
* The first module has what each call writes and what each case of the switch takes of
  the input, `\u` escapes and numbers apart; the second has those two and puts all of them
  together, step by step.

Only model-checked: liveness (`PushReturns`), which is out of the prover's reach but for
`LoopsAreBounded`, and the release build with big numbers, in which finding 2 leaves nothing to prove.  Every invariant and
every action property that a passing run checks is a theorem, but for the conditions named.

## 5. What is not modelled

* Floating point: the values in `powm10`'s table and the arithmetic of doubles; neither
  TLC nor the prover has it.  What the table is indexed with
  is modelled (`ExponentsInTable`, `PowersInTable`).
* Positions passed to `embedjson_error`.  They are pointers into the buffer, but for a
  number that the parser refuses: `data--` comes before the call (`lexer.c:444`), so
  the position can be one before the buffer, which `embedjson_lint.c:183`
  dereferences (it pushes single bytes).
* The messages (`embedjson_strerror`, a pure table that `ut_common.c` tests
  exhaustively) and logging; the encoding guess is modelled but ends in a log line only.
* An `embedjson_error` that returns 0.  `embedjson_lexer_push` then returns success
  without storing the lexer and `stack_push` reports success without a push.
  `ut_lexer.c:205-217` returns 0 and looks at the recorded error only; no
  document says what 0 means.
* Pushes after an error: recovery is on the list of things to do
  (`README.md:152`).
* `embedjson_lint`'s printing and file reading; the build and the amalgamation,
  which have no state at run time.
* The dereference of `data` before its buffer: `data--` on the first byte of a
  buffer is followed by `data++` before the loop reads anything.

## 6. Plan

1. Done: `Parser`, `SaxStream`, `ParserLanguage`, `ParserStack`, `Lifo`, `Lexer`,
   `LexerReference`, and the proofs of the parser and of the stack.
2. Done: `LexerProofs`, and that tokens do not depend on the buffers (`LexerReferenceProofs`).
3. Done: `Embedjson`, `EmbedjsonText`, `EmbedjsonProofs`, the language of the parser
   (`ParserLanguageProofs`) and the text the callbacks spell (`EmbedjsonTextProofs`).
4. Done: integers and big numbers around the limit (`lexer_integers`) and the distance of the
   overflow test from it (`OverflowOnlyNearLimit`).
5. Done: what the documentation says of UTF-8, against the code (`lexer_utf8`).
6. Next: the composition of parser and bit stack: `Parser` over `ParserStack` implements
   `Parser` over a sequence, for stacks below 32 bytes.
7. `embedjson_lint` as an application: positions, its dynamic stack, its exit code.
