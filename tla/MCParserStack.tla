---------------------------- MODULE MCParserStack -----------------------------
(* ParserStack on small instances.                                         *)
EXTENDS ParserStack

(* An application may take any larger size ...                             *)
UpToTwoBytes == 0..2
AnyGrowth == [c \in UpToTwoBytes |-> {d \in UpToTwoBytes : d > c}]

(* ... embedjson_lint doubles and adds one.                                *)
LintCapacities == {0, 1, 3, 7, 15, 31, 63, 127}
LintGrowth == [c \in LintCapacities |-> {2 * c + 1} \cap LintCapacities]

(* Uninitialised memory: zeroes, ones, or a mixture.                       *)
SomeGarbage == {{}, 0..7, {0, 2}}
ZeroedMemory == {{}}
===============================================================================
