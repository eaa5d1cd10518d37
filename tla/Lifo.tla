--------------------------------- MODULE Lifo ---------------------------------
(***************************************************************************)
(* What the syntax parser needs of its stack: a last-in first-out sequence *)
(* of brackets.  A push that fails is no step of it.                       *)
(***************************************************************************)
EXTENDS Naturals, Sequences, SequencesExt

CONSTANT Value

VARIABLES items,   \* bottom first
          top,     \* what the last inspection of the top returned
          pushed   \* what was pushed last

LInit == items = <<>> /\ top \in Value /\ pushed \in Value

Push(v) == items' = Append(items, v) /\ pushed' = v /\ UNCHANGED top

Pop == items # <<>> /\ items' = Front(items) /\ UNCHANGED <<top, pushed>>

Inspect == items # <<>> /\ top' = Last(items) /\ UNCHANGED <<items, pushed>>

LNext == (\E v \in Value : Push(v)) \/ Pop \/ Inspect

LSpec == LInit /\ [][LNext]_<<items, top, pushed>>
===============================================================================
