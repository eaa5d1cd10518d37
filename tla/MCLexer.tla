------------------------------- MODULE MCLexer --------------------------------
(* Lexer on small alphabets, for inputs of any length.                     *)
EXTENDS Lexer

(* 0 1 3 . - + e and comma: 303 and 313 are exponents on the two sides of  *)
(* the limits, 103 and 111 integers on the two sides of the overflow test. *)
NumberBytes == {48, 49, 51, 46, 45, 43, 101, 44}

(* 0 . and comma                                                           *)
FractionBytes == {48, 46, 44}
===============================================================================
