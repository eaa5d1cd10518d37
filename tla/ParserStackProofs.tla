-------------------------- MODULE ParserStackProofs ---------------------------
(***************************************************************************)
(* Theorems about ParserStack, for stacks of any size below 32 bytes, any  *)
(* growth and any depth.  At 32 bytes max_size no longer fits its unsigned *)
(* char (MCParserStackStatic and MCParserStackDeep show what happens then).*)
(***************************************************************************)
EXTENDS ParserStack, SequenceTheorems, TLAPS

(* Type correctness, of every stack the application may provide.           *)
LEMMA StackTypeStep == TypeOK /\ [Next]_pvars => TypeOK'
<1> SUFFICES ASSUME TypeOK, [Next]_pvars PROVE TypeOK'
  OBVIOUS
<1> USE StackAssumption DEF TypeOK
<1>1. ASSUME NEW value \in Brackets, Live, PushBit(value) PROVE TypeOK'
  <2> DEFINE Memory(c, fresh) ==
          IF stack_full THEN Enlarged(c, fresh) ELSE stack
        Written(memory) ==
          IF stack_size \div 8 \in DOMAIN memory
          THEN [memory EXCEPT ![stack_size \div 8] = WriteBit(@, stack_size % 8, value)]
          ELSE memory
  <2>a. PICK c \in IF stack_full THEN Grow[stack_capacity] ELSE {stack_capacity} :
          /\ stack_capacity' = c
          /\ \E fresh \in [stack_capacity..(c - 1) -> Garbage] :
               /\ stack' = Written(Memory(c, fresh))
               /\ outside' = (stack_size \div 8 \notin DOMAIN Memory(c, fresh))
    BY <1>1, Zenon DEF PushBit
  <2>0. c \in Capacities /\ c >= stack_capacity
    BY StackAssumption
  <2>1. PICK fresh \in [stack_capacity..(c - 1) -> Garbage] :
          /\ stack' = Written(Memory(c, fresh))
          /\ outside' = (stack_size \div 8 \notin DOMAIN Memory(c, fresh))
    BY <2>a
  <2>2. Memory(c, fresh) \in [0..(c - 1) -> Byte]
    <3>1. Enlarged(c, fresh) \in [0..(c - 1) -> Byte]
      BY <2>0, <2>1 DEF Enlarged
    <3>2. ~stack_full => c = stack_capacity
      BY <2>a
    <3> QED BY <3>1, <3>2
  <2>3. stack_size \div 8 \in Nat /\ stack_size % 8 \in 0..7
    OBVIOUS
  <2>4. \A b \in Byte : WriteBit(b, stack_size % 8, value) \in Byte
    BY <2>3 DEF WriteBit, Byte
  <2>5. stack' \in [0..(c - 1) -> Byte]
    <3> HIDE DEF Memory
    <3> QED BY <2>1, <2>2, <2>3, <2>4
  <2>6. outside' \in BOOLEAN
    BY <2>1
  <2> QED BY <1>1, <2>a, <2>0, <2>5, <2>6 DEF PushBit
<1>2. ASSUME NEW value \in Brackets, stack_push(value) PROVE TypeOK'
  BY <1>1, <1>2 DEF stack_push, PushFails
<1>3. CASE stack_pop
  BY <1>3 DEF stack_pop, stack_empty
<1>4. CASE stack_top
  BY <1>4 DEF stack_top, Bit, Value
<1>5. CASE UNCHANGED pvars
  BY <1>5 DEF pvars
<1> QED BY <1>2, <1>3, <1>4, <1>5 DEF Next, Stopped

LEMMA InitTypes == Init => TypeOK
<1> SUFFICES ASSUME Init PROVE TypeOK
  OBVIOUS
<1>1. stack \in [0..(InitialCapacity - 1) -> Byte]
  BY StackAssumption DEF Init, Byte
<1>2. stack_capacity \in Capacities /\ stack_size \in Nat /\ top \in Value /\ pushed \in Value
  BY StackAssumption DEF Init, Value
<1> QED BY <1>1, <1>2 DEF Init, TypeOK

(* The counters and the bytes keep their types, whatever the application   *)
(* allocates and whatever its memory holds.                                *)
THEOREM StackTypeCorrect == Spec => []TypeOK
  BY InitTypes, StackTypeStep, PTL DEF Spec

(***************************************************************************)
(* The bits in use fit the bytes allocated                                 *)
(***************************************************************************)
SmallStack == \A c \in Capacities : c < 32

SizeFits == stack_size <= 8 * stack_capacity

IInv == TypeOK /\ SizeFits /\ InBounds

(* In a small stack max_size counts the bits there are.                    *)
LEMMA MaxSizeLemma ==
  ASSUME SmallStack, TypeOK
  PROVE  max_size = 8 * stack_capacity
  BY StackAssumption DEF SmallStack, TypeOK, max_size

(* A push that succeeds writes inside the stack as it is afterwards.       *)
LEMMA PushLemma ==
  ASSUME SmallStack, IInv, NEW value, PushBit(value)
  PROVE  /\ stack_size \div 8 < stack_capacity'
         /\ stack_capacity' \in Capacities /\ stack_capacity' >= stack_capacity
         /\ stack_size + 1 <= 8 * stack_capacity'
         /\ ~outside'
<1> USE StackAssumption, MaxSizeLemma DEF IInv, TypeOK
<1>1. PICK c \in Capacities :
        /\ stack_capacity' = c
        /\ IF stack_full THEN c > stack_capacity ELSE c = stack_capacity
        /\ \E fresh \in [stack_capacity..(c - 1) -> Garbage] :
             outside' = (stack_size \div 8 \notin DOMAIN (IF stack_full THEN Enlarged(c, fresh) ELSE stack))
  BY DEF PushBit
<1>2. stack_size < 8 * c
  BY <1>1 DEF stack_full, SizeFits
<1>3. stack_size \div 8 < c /\ c >= stack_capacity /\ stack_size \div 8 \in 0..(c - 1)
  BY <1>1, <1>2
<1>4. \A fresh : stack_size \div 8 \in DOMAIN (IF stack_full THEN Enlarged(c, fresh) ELSE stack)
  BY <1>1, <1>3 DEF Enlarged
<1>5. ~outside'
  BY <1>1, <1>4
<1> QED BY <1>1, <1>2, <1>3, <1>5

LEMMA InvStep == ASSUME SmallStack PROVE IInv /\ [Next]_pvars => IInv'
<1> SUFFICES ASSUME IInv, [Next]_pvars PROVE IInv'
  OBVIOUS
<1>t. TypeOK /\ TypeOK'
  BY StackTypeStep DEF IInv
<1> DEFINE Rest == SizeFits /\ InBounds
<1> SUFFICES Rest'
  BY <1>t DEF IInv
<1>i. Rest
  BY DEF IInv
<1> USE StackAssumption DEF SizeFits, InBounds
<1>1. ASSUME NEW value \in Brackets, stack_push(value) PROVE Rest'
  <2>1. CASE PushFails
    BY <1>t, <1>i, <2>1, MaxSizeLemma DEF PushFails, stack_full
  <2>2. CASE PushBit(value)
    <3>1. stack_size' = stack_size + 1 /\ UNCHANGED failed /\ ~failed
      BY <1>1, <2>2 DEF PushBit, stack_push, Live
    <3> QED BY <2>2, <3>1, PushLemma
  <2> QED BY <1>1, <2>1, <2>2 DEF stack_push
<1>2. CASE stack_pop
  BY <1>t, <1>i, <1>2 DEF stack_pop, Live, stack_empty, TypeOK
<1>3. CASE stack_top
  <2>1. (stack_size - 1) \div 8 < stack_capacity
    BY <1>t, <1>i, <1>3 DEF stack_top, stack_empty, TypeOK
  <2>2. (stack_size - 1) \div 8 \in DOMAIN stack
    BY <1>t, <1>3, <2>1 DEF TypeOK, stack_top, stack_empty
  <2>3. ~outside'
    BY <1>3, <2>2, Zenon DEF stack_top
  <2> QED BY <1>i, <1>3, <2>3 DEF stack_top, Live
<1>4. CASE UNCHANGED pvars
  BY <1>i, <1>4 DEF pvars
<1> QED BY <1>1, <1>2, <1>3, <1>4 DEF Next, Stopped

LEMMA InvCorrect == ASSUME SmallStack PROVE Spec => []IInv
<1>1. Init => IInv
  <2> SUFFICES ASSUME Init PROVE IInv
    OBVIOUS
  <2>1. SizeFits
    BY StackAssumption DEF Init, SizeFits
  <2> QED BY <2>1, InitTypes DEF Init, IInv, InBounds
<1> QED BY <1>1, InvStep, PTL DEF Spec

(* Whatever brackets arrive and however the application enlarges the stack,*)
(* no byte outside it is read or written, at any depth.                    *)
THEOREM StackInBounds == ASSUME SmallStack PROVE Spec => []InBounds
<1>1. IInv => InBounds
  BY DEF IInv
<1> QED BY <1>1, InvCorrect, PTL

(***************************************************************************)
(* The bits implement a last-in first-out stack                            *)
(***************************************************************************)
(* Depths have bits of their own.                                          *)
LEMMA BitsAreDistinct ==
  ASSUME NEW j \in Nat, NEW k \in Nat, j \div 8 = k \div 8, j % 8 = k % 8
  PROVE  j = k
  OBVIOUS

(* A push sets the bit above the bits in use and leaves those alone, also  *)
(* when they are moved to a larger stack.                                  *)
LEMMA PushedBits ==
  ASSUME SmallStack, IInv, NEW value \in Value, PushBit(value)
  PROVE  \A k \in 0..stack_size : Bit(k)' = IF k < stack_size THEN Bit(k) ELSE value
<1> DEFINE bucket == stack_size \div 8
           Memory(c, fresh) == IF stack_full THEN Enlarged(c, fresh) ELSE stack
<1> USE StackAssumption DEF IInv, TypeOK
<1> DEFINE Written(memory) == IF bucket \in DOMAIN memory
                             THEN [memory EXCEPT ![bucket] = WriteBit(@, stack_size % 8, value)]
                             ELSE memory
<1>0. PICK c \in IF stack_full THEN Grow[stack_capacity] ELSE {stack_capacity} :
        /\ stack_capacity' = c
        /\ \E fresh \in [stack_capacity..(c - 1) -> Garbage] : stack' = Written(Memory(c, fresh))
  BY Zenon DEF PushBit
<1>1. /\ c \in Capacities /\ c >= stack_capacity
      /\ ~stack_full => c = stack_capacity
  BY <1>0
<1>2. bucket < c /\ bucket \in 0..(c - 1)
  BY <1>0, <1>1, PushLemma
<1>e. ASSUME NEW fresh \in [stack_capacity..(c - 1) -> Garbage]
      PROVE  Memory(c, fresh) = Enlarged(c, fresh)
  BY <1>1 DEF Enlarged
<1>3. PICK fresh \in [stack_capacity..(c - 1) -> Garbage] :
        stack' = [Enlarged(c, fresh) EXCEPT ![bucket] = WriteBit(@, stack_size % 8, value)]
  BY <1>0, <1>1, <1>2, <1>e DEF Enlarged
<1>4. ASSUME NEW k \in 0..stack_size, k = stack_size PROVE Bit(k)' = value
  <2>1. stack'[bucket] = WriteBit(Enlarged(c, fresh)[bucket], stack_size % 8, value)
    BY <1>2, <1>3 DEF Enlarged
  <2>2. stack_size % 8 \in stack'[bucket] <=> value = 1
    BY <2>1 DEF WriteBit, Value
  <2> QED BY <1>4, <2>2 DEF Bit, Value
<1>5. ASSUME NEW k \in 0..(stack_size - 1) PROVE Bit(k)' = Bit(k)
  <2>1. k \div 8 \in 0..(stack_capacity - 1) /\ k \div 8 \in 0..(c - 1) /\ k % 8 \in 0..7
    BY <1>1 DEF SizeFits
  <2>2. Enlarged(c, fresh)[k \div 8] = stack[k \div 8]
    BY <2>1 DEF Enlarged
  <2>3. CASE k \div 8 # bucket
    BY <1>3, <2>1, <2>2, <2>3 DEF Enlarged, Bit
  <2>4. CASE k \div 8 = bucket
    <3>1. k % 8 # stack_size % 8
      BY <2>4, BitsAreDistinct
    <3>2. stack'[k \div 8] = WriteBit(stack[k \div 8], stack_size % 8, value)
      BY <1>2, <1>3, <2>2, <2>4 DEF Enlarged
    <3>3. k % 8 \in stack'[k \div 8] <=> k % 8 \in stack[k \div 8]
      BY <3>1, <3>2 DEF WriteBit
    <3> QED BY <3>3 DEF Bit
  <2> QED BY <2>3, <2>4
<1> QED BY <1>4, <1>5

LEMMA ItemsLemma ==
  ASSUME IInv
  PROVE  /\ Items \in Seq(Value) /\ Len(Items) = stack_size
         /\ \A i \in 1..stack_size : Items[i] = Bit(i - 1)
  BY DEF Items, Bit, Value, IInv, TypeOK

LEMMA AppendAsFunction ==
  ASSUME NEW S, NEW s \in Seq(S), NEW v \in S
  PROVE  Append(s, v) = [i \in 1..(Len(s) + 1) |-> IF i <= Len(s) THEN s[i] ELSE v]
<1> DEFINE f == [i \in 1..(Len(s) + 1) |-> IF i <= Len(s) THEN s[i] ELSE v]
<1>1. f \in Seq(S) /\ Len(f) = Len(s) + 1
  OBVIOUS
<1>2. \A i \in 1..Len(f) : f[i] = Append(s, v)[i]
  BY <1>1, AppendProperties
<1> HIDE DEF f
<1>3. f = Append(s, v)
  BY <1>1, <1>2, AppendProperties, SeqEqual
<1> QED BY <1>3 DEF f

LEMMA LifoStep ==
  ASSUME SmallStack, IInv, IInv', Next
  PROVE  Abstract!LNext \/ UNCHANGED <<Items, top, pushed>>
<1> USE StackAssumption
<1>t. TypeOK /\ TypeOK'
  BY DEF IInv
<1>1. ASSUME NEW value \in Brackets, stack_push(value)
      PROVE  Abstract!LNext \/ UNCHANGED <<Items, top, pushed>>
  <2>1. CASE PushFails
    BY <2>1 DEF PushFails, Items, Bit
  <2>2. CASE PushBit(value)
    <3>1. stack_size' = stack_size + 1 /\ UNCHANGED top /\ pushed' = value /\ value \in Value
      BY <2>2 DEF PushBit
    <3>2. Items' = [i \in 1..(stack_size + 1) |-> Bit(i - 1)']
      BY <3>1 DEF Items
    <3>3. \A i \in 1..(stack_size + 1) :
             Bit(i - 1)' = IF i <= stack_size THEN Items[i] ELSE value
      <4> TAKE i \in 1..(stack_size + 1)
      <4>1. i - 1 \in 0..stack_size
        BY <1>t DEF TypeOK
      <4>2. Bit(i - 1)' = IF i - 1 < stack_size THEN Bit(i - 1) ELSE value
        BY <2>2, <3>1, <4>1, PushedBits
      <4> QED BY <1>t, <4>1, <4>2, ItemsLemma DEF TypeOK
    <3>4. Items' = Append(Items, value)
      <4>1. Append(Items, value) = [i \in 1..(stack_size + 1) |->
                                      IF i <= stack_size THEN Items[i] ELSE value]
        BY <3>1, ItemsLemma, AppendAsFunction
      <4> QED BY <3>2, <3>3, <4>1
    <3> QED BY <3>1, <3>4 DEF Abstract!LNext, Abstract!Push
  <2> QED BY <1>1, <2>1, <2>2 DEF stack_push
<1>2. CASE stack_pop
  <2>1. /\ stack_size > 0 /\ stack_size' = stack_size - 1
        /\ UNCHANGED <<stack, top, pushed>>
    BY <1>t, <1>2 DEF stack_pop, stack_empty, TypeOK
  <2>2. Items # <<>>
    BY <1>t, <2>1, ItemsLemma DEF TypeOK
  <2>3. Items' = [i \in 1..(stack_size - 1) |-> Bit(i - 1)]
    BY <2>1 DEF Items, Bit
  <2>4. Items' = [i \in 1..(Len(Items) - 1) |-> Items[i]]
    BY <1>t, <2>1, <2>3, ItemsLemma DEF TypeOK
  <2> QED BY <2>1, <2>2, <2>4 DEF Abstract!LNext, Abstract!Pop, Abstract!Front
<1>3. CASE stack_top
  <2>1. stack_size > 0 /\ UNCHANGED <<Items, pushed>>
    BY <1>t, <1>3 DEF stack_top, stack_empty, TypeOK, Items, Bit
  <2>2. ~outside'
    BY DEF IInv, InBounds
  <2>3. top' = Bit(stack_size - 1)
    BY <1>3, <2>2, Zenon DEF stack_top
  <2>4. Items # <<>> /\ top' = Items[Len(Items)]
    BY <1>t, <2>1, <2>3, ItemsLemma DEF TypeOK
  <2> QED BY <2>1, <2>4 DEF Abstract!LNext, Abstract!Inspect, Abstract!Last
<1>4. CASE Stopped
  BY <1>4 DEF Stopped, pvars, Items, Bit
<1> QED BY <1>1, <1>2, <1>3, <1>4 DEF Next

(* The packed bits are a stack of brackets: what was pushed last is what   *)
(* top shows and pop removes, over stale bits and across every growth.     *)
THEOREM StackImplementsLifo == ASSUME SmallStack PROVE Spec => ImplementsLifo
<1>1. Init => Abstract!LInit
  BY InitTypes DEF Init, Abstract!LInit, Items, TypeOK
<1>2. IInv /\ IInv' /\ [Next]_pvars => [Abstract!LNext]_<<Items, top, pushed>>
  <2>1. UNCHANGED pvars => UNCHANGED <<Items, top, pushed>>
    BY DEF pvars, Items, Bit
  <2> QED BY <2>1, LifoStep
<1> QED BY <1>1, <1>2, InvCorrect, PTL DEF Spec, ImplementsLifo, Abstract!LSpec
===============================================================================
