------------------------------ MODULE MCParser -------------------------------
(* Parser on small instances; the .cfg files give the build switches, the  *)
(* size of the static stack and the nesting of the input.                  *)
EXTENDS Parser
==============================================================================
