------------------------------ MODULE SaxStream ------------------------------
(***************************************************************************)
(* What an application that implements the embedjson callbacks relies on:  *)
(* the callbacks describe ONE document, containers close in the reverse    *)
(* order they were opened, an object offers a string (the key) and then a  *)
(* value, strings and big numbers are not interleaved with anything, and   *)
(* embedjson_finalize succeeds only when the document is complete.         *)
(*                                                                         *)
(* It says nothing about tokens, separators, states or the stack.          *)
(***************************************************************************)
EXTENDS Naturals, Sequences, SequencesExt

CONSTANTS CURLY, SQUARE      \* the two kinds of container

VARIABLES
  open,      \* containers begun and not ended, outermost first
  want,      \* what may be offered next: "key", "value" or "nothing"
  mode,      \* "idle", or inside a "string" or a "bignum"
  event,     \* the last callback made, "none" before the first
  outcome    \* "running", "accepted" or "rejected"

svars == <<open, want, mode, event, outcome>>

Scalars == {"null", "bool_1", "bool_0", "int", "double"}
BeginOf(c) == IF c = CURLY THEN "object_begin" ELSE "array_begin"
EndOf(c)   == IF c = CURLY THEN "object_end" ELSE "array_end"

(* What the innermost of the containers s takes once a value is complete.  *)
WantIn(s) == IF s = <<>> THEN "nothing"
             ELSE IF Last(s) = CURLY THEN "key" ELSE "value"

Init == /\ open = <<>>
        /\ want = "value"
        /\ mode = "idle"
        /\ event = "none"
        /\ outcome = "running"

Scalar(e) ==
  /\ mode = "idle" /\ want = "value"
  /\ want' = WantIn(open)
  /\ event' = e
  /\ UNCHANGED <<open, mode>>

Begin(c) ==
  /\ mode = "idle" /\ want = "value"
  /\ open' = Append(open, c)
  /\ want' = IF c = CURLY THEN "key" ELSE "value"
  /\ event' = BeginOf(c)
  /\ UNCHANGED mode

End(c) ==
  /\ mode = "idle" /\ open # <<>> /\ Last(open) = c
  /\ want = WantIn(open)
  /\ open' = Front(open)
  /\ want' = WantIn(open')
  /\ event' = EndOf(c)
  /\ UNCHANGED mode

StringBegin ==
  /\ mode = "idle" /\ want # "nothing"
  /\ mode' = "string" /\ event' = "string_begin"
  /\ UNCHANGED <<open, want>>

StringChunk ==
  /\ mode = "string"
  /\ event' = "string_chunk"
  /\ UNCHANGED <<open, want, mode>>

StringEnd ==
  /\ mode = "string"
  /\ mode' = "idle" /\ event' = "string_end"
  /\ want' = IF want = "key" THEN "value" ELSE WantIn(open)
  /\ UNCHANGED open

BignumBegin ==
  /\ mode = "idle" /\ want = "value"
  /\ mode' = "bignum" /\ event' = "bignum_begin"
  /\ want' = WantIn(open)
  /\ UNCHANGED open

BignumChunk ==
  /\ mode = "bignum"
  /\ event' = "bignum_chunk"
  /\ UNCHANGED <<open, want, mode>>

BignumEnd ==
  /\ mode = "bignum"
  /\ mode' = "idle" /\ event' = "bignum_end"
  /\ UNCHANGED <<open, want>>

Offer ==
  /\ outcome = "running" /\ outcome' = "running"
  /\ \/ \E e \in Scalars : Scalar(e)
     \/ \E c \in {CURLY, SQUARE} : Begin(c) \/ End(c)
     \/ StringBegin \/ StringChunk \/ StringEnd
     \/ BignumBegin \/ BignumChunk \/ BignumEnd

(* Callbacks that may be made now; a callback that reports failure was one *)
(* of them.                                                                *)
Legal(e) ==
  \/ e \in {"string_chunk", "string_end"} /\ mode = "string"
  \/ e \in {"bignum_chunk", "bignum_end"} /\ mode = "bignum"
  \/ e = "string_begin" /\ mode = "idle" /\ want # "nothing"
  \/ /\ e \in Scalars \cup {"object_begin", "array_begin", "bignum_begin"}
     /\ mode = "idle" /\ want = "value"
  \/ /\ mode = "idle" /\ open # <<>> /\ want = WantIn(open)
     /\ e = EndOf(Last(open))

Accept == /\ outcome = "running" /\ outcome' = "accepted"
          /\ mode = "idle" /\ want = "nothing" /\ open = <<>>
          /\ UNCHANGED <<open, want, mode, event>>

(* The parse fails: nothing is offered afterwards.                         *)
Reject == /\ outcome = "running" /\ outcome' = "rejected"
          /\ event' = event \/ Legal(event')
          /\ open' = <<>> /\ want' = "nothing" /\ mode' = "idle"

Next == Offer \/ Accept \/ Reject

Spec == Init /\ [][Next]_svars
==============================================================================
