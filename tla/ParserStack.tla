----------------------------- MODULE ParserStack ------------------------------
(***************************************************************************)
(* The bit stack of the syntax parser (parser.c, 60-111): one bit for each *)
(* open bracket, packed in bytes.  A byte is the set of its one bits, so   *)
(* that  |= embedjson_one[i]  adds i and  &= embedjson_zero[i]  removes it.*)
(*                                                                         *)
(* With EMBEDJSON_DYNAMIC_STACK the application enlarges the stack in      *)
(* embedjson_stack_overflow; the bytes it adds are not initialised.  It has*)
(* to keep stack_capacity up to date, as embedjson_lint does; README.md, 39*)
(* and parser.h, 67 name stack_size, in which the code counts the bits.    *)
(***************************************************************************)
EXTENDS Naturals, Sequences, SequencesExt

CONSTANTS
  DYNAMIC_STACK,      \* EMBEDJSON_DYNAMIC_STACK
  InitialCapacity,    \* bytes: EMBEDJSON_STATIC_STACK_SIZE, or the user's first allocation
  Capacities,         \* bytes that can be allocated
  Grow,               \* Grow[c]: what embedjson_stack_overflow may make of capacity c
  Brackets,           \* the kinds of brackets the input opens
  Garbage,            \* what uninitialised bytes may hold
  MaxDepth            \* bound: brackets open at once

VARIABLES
  stack,              \* parser->stack
  stack_size,         \* parser->stack_size, in bits
  stack_capacity,     \* EMBEDJSON_STACK_CAPACITY(parser), in bytes
  top,                \* what the last stack_top returned
  pushed,             \* the bracket of the last stack_push that succeeded
  failed,             \* a stack_push returned an error, the parse is aborted
  outside             \* a byte outside the allocation was accessed

pvars == <<stack, stack_size, stack_capacity, top, pushed, failed, outside>>

Byte == SUBSET (0..7)
Value == {0, 1}

ASSUME StackAssumption ==
  /\ DYNAMIC_STACK \in BOOLEAN
  /\ Capacities \subseteq Nat
  /\ InitialCapacity \in Capacities
  /\ Grow \in [Capacities -> SUBSET Capacities]
  /\ \A c \in Capacities : \A d \in Grow[c] : d > c
  /\ Brackets \subseteq Value
  /\ Garbage \subseteq Byte
  /\ MaxDepth \in Nat

Live == ~failed /\ ~outside

stack_empty == stack_size = 0

(* max_size is an unsigned char.                                           *)
max_size == (8 * stack_capacity) % 256

(* Mutant: one push too many before the stack counts as full.              *)
stack_full_late == stack_size > max_size

stack_full == stack_size = max_size

(* The bit below depth k, counted from the bottom.                         *)
Bit(k) == IF k % 8 \in stack[k \div 8] THEN 1 ELSE 0

(* Mutant: the masks are numbered from one.                                *)
WriteBitFromOne(byte, nbit, value) ==
  IF value = 1 THEN byte \cup {nbit + 1} ELSE byte \ {nbit + 1}

(* Mutant: a curly bracket leaves the old bit in place.                    *)
WriteBitSetOnly(byte, nbit, value) == IF value = 1 THEN byte \cup {nbit} ELSE byte

WriteBit(byte, nbit, value) == IF value = 1 THEN byte \cup {nbit} ELSE byte \ {nbit}

(* realloc to c bytes, as in embedjson_lint's embedjson_stack_overflow:    *)
(* stack and stack_capacity change, stack_size does not.                   *)
Enlarged(c, fresh) ==
  [b \in 0..(c - 1) |-> IF b < stack_capacity THEN stack[b] ELSE fresh[b]]

(* A full stack: an error for the static one, and for the dynamic one when *)
(* embedjson_stack_overflow fails.                                         *)
PushFails ==
  /\ stack_full
  /\ failed' = TRUE
  /\ UNCHANGED <<stack, stack_size, stack_capacity, top, pushed, outside>>

PushBit(value) ==
  /\ stack_full => DYNAMIC_STACK
  /\ \E c \in IF stack_full THEN Grow[stack_capacity] ELSE {stack_capacity} :
       \E fresh \in [stack_capacity..(c - 1) -> Garbage] :
         LET nbucket == stack_size \div 8
             memory  == IF stack_full THEN Enlarged(c, fresh) ELSE stack
         IN /\ stack_capacity' = c
            /\ stack' = IF nbucket \in DOMAIN memory
                        THEN [memory EXCEPT ![nbucket] = WriteBit(@, stack_size % 8, value)]
                        ELSE memory
            /\ outside' = (nbucket \notin DOMAIN memory)
  /\ stack_size' = stack_size + 1
  /\ pushed' = value
  /\ UNCHANGED <<top, failed>>

stack_push(value) ==
  /\ Live /\ stack_size < MaxDepth
  /\ PushFails \/ PushBit(value)

(* The parser pops and looks only when something is open (Parser's         *)
(* StackMatchesState).                                                     *)
stack_pop ==
  /\ Live /\ ~stack_empty
  /\ stack_size' = stack_size - 1
  /\ UNCHANGED <<stack, stack_capacity, top, pushed, failed, outside>>

stack_top ==
  /\ Live /\ ~stack_empty
  /\ outside' = ((stack_size - 1) \div 8 \notin DOMAIN stack)
  /\ top' = IF outside' THEN top ELSE Bit(stack_size - 1)
  /\ UNCHANGED <<stack, stack_size, stack_capacity, pushed, failed>>

Stopped == ~Live /\ UNCHANGED pvars

Init ==
  /\ stack_size = 0
  /\ stack_capacity = InitialCapacity
  /\ IF DYNAMIC_STACK THEN stack \in [0..(InitialCapacity - 1) -> Garbage]
     ELSE stack = [b \in 0..(InitialCapacity - 1) |-> {}]
  /\ top = 0
  /\ pushed = 0
  /\ failed = FALSE
  /\ outside = FALSE

Next ==
  \/ \E value \in Brackets : stack_push(value)
  \/ stack_pop
  \/ stack_top
  \/ Stopped

Spec == Init /\ [][Next]_pvars

(***************************************************************************)
(* Properties                                                              *)
(***************************************************************************)
(* The fields of embedjson_parser that make up the stack have their types. *)
TypeOK ==
  /\ stack_capacity \in Capacities
  /\ stack_size \in Nat
  /\ stack \in [0..(stack_capacity - 1) -> Byte]
  /\ top \in Value
  /\ pushed \in Value
  /\ failed \in BOOLEAN
  /\ outside \in BOOLEAN

(* No byte outside the allocated stack is read or written.                 *)
InBounds == ~outside

(* The bits in use are a last-in first-out stack, across growth and over   *)
(* the stale bits earlier brackets left behind.                            *)
Items == [i \in 1..stack_size |-> Bit(i - 1)]

Abstract == INSTANCE Lifo WITH items <- Items

(* push, pop and top of the bits are those of the abstract stack.          *)
ImplementsLifo == Abstract!LSpec
===============================================================================
