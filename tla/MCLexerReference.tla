--------------------------- MODULE MCLexerReference ---------------------------
(* Every input of a few bytes of a small alphabet, cut anywhere.           *)
EXTENDS LexerReference

(* " \ u f 4                                                               *)
StringBytes == {34, 92, 117, 102, 52}

(* 0 1 . - + e comma, and the letters of null                              *)
NumberBytes == {48, 49, 46, 45, 43, 101, 44, 110, 117, 108}

(* A quote, an escape, a text byte, and lead and continuation bytes of     *)
(* every kind the masks tell apart.                                        *)
Utf8Bytes == {34, 92, 110, 10, 32, 128, 144, 160, 191, 195, 224, 225, 240, 241, 244, 248}

AllInputs == (StringBytes :> 8) @@ (NumberBytes :> 7) @@ (Utf8Bytes :> 5)
AllBytes == StringBytes \cup NumberBytes \cup Utf8Bytes

(* 0 2 3 7 and comma: integers on both sides of 32767.                     *)
LimitBytes == {48, 50, 51, 55, 44}
LimitInputs == LimitBytes :> 7

(* A quote and a letter, and lead and continuation bytes.                  *)
CharacterBytes == {34, 65, 128, 144, 160, 192, 195, 224, 240, 241, 244, 248}
CharacterInputs == CharacterBytes :> 5
===============================================================================
