---------------------------- MODULE MCEmbedjson -------------------------------
(* Every input of a few bytes of a small alphabet, cut anywhere.           *)
EXTENDS EmbedjsonText

(* { } [ ] , : " 1 . and space                                             *)
JsonBytes == {123, 125, 91, 93, 44, 58, 34, 49, 46, 32}

(* Objects that begin with the key "" and an empty array or a number.      *)
Member == <<{123}, {34}, {34}, {58}>>
Siblings == [i \in 1..6 |-> {44, 34, 58, 49, 125}]

(* A literal after a bracket, a minus or a digit, and what comes after it. *)
Words == <<{91, 45, 49}, {116}, {114}, {117}, {101}, {44, 93, 49, 45, 101}, {45, 49, 93}, {45, 93}>>

(* Signs and exponents between digits.                                     *)
Signs == [i \in 1..6 |-> {45, 49, 43, 101, 44}]

(* \n \u1n.. \" and so on, at the beginning of a string.                   *)
Escapes == <<{34}, {92, 110}, {110, 117, 34, 92}, {49, 34}, {101, 92}, {49, 110}, {101, 34}, {34}>>

JsonShapes == {[i \in 1..6 |-> JsonBytes],
               Member \o <<{91}, {93}>> \o Siblings,
               Member \o <<{49}>> \o Siblings,
               Words, Signs, Escapes}

(* The bytes of all of them: also - + \ and the letters e n r t u.         *)
AllBytes == JsonBytes \cup {45, 43, 92, 101, 110, 114, 116, 117}
===============================================================================
