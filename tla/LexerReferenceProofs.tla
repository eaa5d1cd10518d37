-------------------------- MODULE LexerReferenceProofs --------------------------
(***************************************************************************)
(* The tokens do not depend on the buffers the input is cut into, for      *)
(* inputs of any length, buffers of any size and every INT_MAX: at every   *)
(* moment the lexer has told the tokens of the reference up to some        *)
(* position of the input, and knows just what has been read of the lexeme  *)
(* that begins there, whatever text may follow.                            *)
(***************************************************************************)
EXTENDS LexerReference, LexerProofs, FiniteSetTheorems, WellFoundedInduction

Text == Seq(Byte \cup {EOF})
Places == {"OUTSIDE", "INSIDE"}
Positions(s) == (1..(Len(s) + 1)) \X Places

(***************************************************************************)
(* Induction over the natural numbers: a set of them has a least member.   *)
(***************************************************************************)
LEMMA Least ==
  ASSUME NEW T \in SUBSET Nat, T # {}
  PROVE  \E n \in T : \A m \in T : n <= m
<1> DEFINE Below(n) == 0..(n - 1)
           Segments == {Below(n) : n \in T}
<1>1. \A n \in T : Below(n) \in FiniteSubsetsOf(Nat)
  <2> TAKE n \in T
  <2>1. IsFiniteSet(Below(n)) BY FS_Interval
  <2> QED BY <2>1 DEF FiniteSubsetsOf
<1>2. Segments \subseteq FiniteSubsetsOf(Nat) /\ Segments # {} BY <1>1
<1>3. IsWellFoundedOn(StrictSubsetOrdering(Nat), FiniteSubsetsOf(Nat))
  BY FS_StrictSubsetOrderingWellFounded
<1>4. PICK s \in Segments : \A r \in Segments : ~(<<r, s>> \in StrictSubsetOrdering(Nat))
  <2> HIDE DEF Segments
  <2> QED BY <1>2, <1>3, WFMin
<1>5. PICK n \in T : s = Below(n) OBVIOUS
<1>6. ASSUME NEW m \in T, m < n PROVE FALSE
  <2>1. Below(m) \subseteq Below(n) /\ m \in Below(n) /\ m \notin Below(m) BY <1>6
  <2>2. Below(m) # Below(n) BY <2>1
  <2>3. Below(m) \in SUBSET Nat /\ Below(n) \in SUBSET Nat OBVIOUS
  <2>4. <<Below(m), Below(n)>> \in StrictSubsetOrdering(Nat)
    BY <2>1, <2>2, <2>3 DEF StrictSubsetOrdering
  <2> QED BY <1>4, <1>5, <2>4
<1> QED BY <1>6

(* What holds at i and passes from each number to the next up to z holds   *)
(* at z.                                                                   *)
LEMMA UpTo ==
  ASSUME NEW T, NEW i \in Nat, NEW z \in Nat, i <= z,
         i \in T, \A j \in i..(z - 1) : j \in T => j + 1 \in T
  PROVE  \A j \in i..z : j \in T
<1> DEFINE Missing == {j \in i..z : j \notin T}
<1> SUFFICES ASSUME Missing # {} PROVE FALSE OBVIOUS
<1>1. PICK j \in Missing : \A k \in Missing : j <= k
  <2>1. Missing \in SUBSET Nat OBVIOUS
  <2> HIDE DEF Missing
  <2> QED BY <2>1, Least
<1>2. j # i /\ j \in i..z /\ j \notin T OBVIOUS
<1>3. j - 1 \in i..(z - 1) /\ j - 1 \notin Missing BY <1>1, <1>2
<1>4. j - 1 \in T BY <1>3
<1>5. (j - 1) + 1 \in T BY <1>3, <1>4
<1>6. (j - 1) + 1 = j BY <1>2
<1> QED BY <1>2, <1>5, <1>6

(***************************************************************************)
(* Spans and decimal numbers                                               *)
(***************************************************************************)
LEMMA TextLemma ==
  ASSUME NEW s \in Text
  PROVE  Len(s) \in Nat /\ \A k \in 1..Len(s) : s[k] \in Int /\ s[k] \in Byte \cup {EOF}
<1>1. \A k \in 1..Len(s) : s[k] \in Byte \cup {EOF} BY DEF Text
<1>2. Byte \cup {EOF} \subseteq Int BY DEF Byte, EOF
<1> QED BY <1>1, <1>2 DEF Text

LEMMA SpanLemma ==
  ASSUME NEW s \in Text, NEW i \in 1..(Len(s) + 1), NEW bytes
  PROVE  /\ Span(s, i, bytes) \in i..(Len(s) + 1)
         /\ ~At(s, Span(s, i, bytes), bytes)
         /\ \A k \in i..(Span(s, i, bytes) - 1) : At(s, k, bytes)
<1>0. Len(s) \in Nat BY TextLemma
<1> DEFINE T == {j \in i..(Len(s) + 1) : ~At(s, j, bytes)}
<1>1. Len(s) + 1 \in T BY <1>0 DEF At
<1>2. PICK j \in T : \A k \in T : j <= k
  <2>1. T \in SUBSET Nat /\ T # {} BY <1>0, <1>1
  <2> HIDE DEF T
  <2> QED BY <2>1, Least
<1>3. \A k \in i..(j - 1) : At(s, k, bytes)
  <2> TAKE k \in i..(j - 1)
  <2>1. k \in i..(Len(s) + 1) /\ k \notin T BY <1>0, <1>2
  <2> QED BY <2>1
<1>4. \E n \in i..(Len(s) + 1) : ~At(s, n, bytes) /\ \A k \in i..(n - 1) : At(s, k, bytes)
  BY <1>2, <1>3
<1> HIDE DEF T
<1> QED BY <1>4 DEF Span

LEMMA SpanIs ==
  ASSUME NEW s \in Text, NEW i \in 1..(Len(s) + 1), NEW bytes,
         NEW j \in i..(Len(s) + 1), ~At(s, j, bytes), \A k \in i..(j - 1) : At(s, k, bytes)
  PROVE  Span(s, i, bytes) = j
<1>0. Len(s) \in Nat BY TextLemma
<1>1. PICK n : n = Span(s, i, bytes) OBVIOUS
<1>2. n \in i..(Len(s) + 1) /\ ~At(s, n, bytes) /\ \A k \in i..(n - 1) : At(s, k, bytes)
  BY <1>1, SpanLemma
<1>3. ~(n < j) BY <1>0, <1>2
<1>4. ~(j < n) BY <1>0, <1>2
<1> QED BY <1>0, <1>1, <1>2, <1>3, <1>4

(* A span reaches beyond what is known to be in it.                        *)
LEMMA SpanReaches ==
  ASSUME NEW s \in Text, NEW i \in 1..(Len(s) + 1), NEW bytes,
         NEW j \in i..(Len(s) + 1), \A k \in i..(j - 1) : At(s, k, bytes)
  PROVE  Span(s, i, bytes) \in j..(Len(s) + 1)
<1>0. Len(s) \in Nat BY TextLemma
<1>1. PICK n : n = Span(s, i, bytes) OBVIOUS
<1>2. n \in i..(Len(s) + 1) /\ ~At(s, n, bytes) BY <1>1, SpanLemma
<1>3. ~(n < j) BY <1>0, <1>2
<1> QED BY <1>0, <1>1, <1>2, <1>3

DecimalBody(s, i, f, k) == IF k < i THEN 0 ELSE 10 * f[k - 1] + Digit(s[k])

LEMMA DecimalFunction ==
  ASSUME NEW s \in Text, NEW i \in Nat \ {0}
  PROVE  \E f : /\ \A k \in 0..Len(s) : f[k] = DecimalBody(s, i, f, k)
                /\ \A j : Decimal(s, i, j) = f[j - 1]
<1>0. Len(s) \in Nat BY TextLemma
<1> DEFINE Defined(n) == \E f : f = [k \in 0..n |-> DecimalBody(s, i, f, k)]
           T == {n \in Nat : Defined(n)}
<1>1. 0 \in T
  <2>1. [k \in 0..0 |-> 0] = [k \in 0..0 |-> DecimalBody(s, i, [l \in 0..0 |-> 0], k)]
    BY DEF DecimalBody
  <2> QED BY <2>1
<1>2. ASSUME NEW n \in Nat, n \in T PROVE n + 1 \in T
  <2>1. PICK f : f = [k \in 0..n |-> DecimalBody(s, i, f, k)] BY <1>2
  <2> DEFINE g == [k \in 0..(n + 1) |-> IF k <= n THEN f[k] ELSE DecimalBody(s, i, f, k)]
  <2>2. ASSUME NEW k \in 0..(n + 1) PROVE g[k] = DecimalBody(s, i, g, k)
    <3>1. k > 0 => g[k - 1] = f[k - 1] OBVIOUS
    <3>2. g[k] = DecimalBody(s, i, f, k) BY <2>1
    <3> HIDE DEF g
    <3> QED BY <3>1, <3>2 DEF DecimalBody
  <2>3. g = [k \in 0..(n + 1) |-> DecimalBody(s, i, g, k)] BY <2>2, Zenon
  <2> HIDE DEF g
  <2>4. Defined(n + 1) BY <2>3, Zenon
  <2> QED BY <2>4
<1>3. Defined(Len(s))
  <2>1. \A j \in 0..Len(s) : j \in T
    <3>1. \A j \in 0..(Len(s) - 1) : j \in T => j + 1 \in T BY <1>0, <1>2
    <3>2. 0 \in Nat /\ 0 <= Len(s) BY <1>0
    <3> HIDE DEF T
    <3> QED BY <1>0, <1>1, <3>1, <3>2, UpTo
  <2> QED BY <1>0, <2>1
<1> DEFINE Equation(f) == f = [k \in 0..Len(s) |-> IF k < i THEN 0 ELSE 10 * f[k - 1] + Digit(s[k])]
           v == CHOOSE f : Equation(f)
<1>4. \E f : Equation(f)
  <2>1. PICK f : f = [k \in 0..Len(s) |-> DecimalBody(s, i, f, k)] BY <1>3
  <2>2. Equation(f) BY <2>1, Zenon DEF DecimalBody
  <2> QED BY <2>2
<1>5. Equation(v)
  <2> HIDE DEF Equation
  <2> QED BY <1>4
<1>6. \A k \in 0..Len(s) : v[k] = DecimalBody(s, i, v, k)
  <2> HIDE DEF v
  <2> QED BY <1>5 DEF DecimalBody
<1>7. \A j : Decimal(s, i, j) = v[j - 1] BY DEF Decimal
<1> QED BY <1>6, <1>7

LEMMA DecimalSteps ==
  ASSUME NEW s \in Text, NEW i \in 1..(Len(s) + 1)
  PROVE  /\ Decimal(s, i, i) = 0
         /\ \A j \in i..Len(s) : Decimal(s, i, j + 1) = 10 * Decimal(s, i, j) + Digit(s[j])
<1>0. Len(s) \in Nat BY TextLemma
<1>1. PICK f : /\ \A k \in 0..Len(s) : f[k] = DecimalBody(s, i, f, k)
               /\ \A j : Decimal(s, i, j) = f[j - 1]
  BY <1>0, DecimalFunction
<1>2. f[i - 1] = 0
  <2>1. i - 1 \in 0..Len(s) /\ i - 1 < i BY <1>0
  <2> QED BY <1>1, <2>1 DEF DecimalBody
<1>3. ASSUME NEW j \in i..Len(s)
      PROVE  Decimal(s, i, j + 1) = 10 * Decimal(s, i, j) + Digit(s[j])
  <2>1. j \in 0..Len(s) /\ ~(j < i) /\ (j + 1) - 1 = j BY <1>0
  <2>2. f[j] = 10 * f[j - 1] + Digit(s[j]) BY <1>1, <2>1 DEF DecimalBody
  <2> QED BY <1>1, <2>1, <2>2
<1> QED BY <1>1, <1>2, <1>3

AllIn(s, i, j, bytes) == \A k \in i..(j - 1) : s[k] \in bytes

LEMMA DecimalGrows ==
  ASSUME NEW s \in Text, NEW i \in 1..(Len(s) + 1), NEW z \in i..(Len(s) + 1),
         AllIn(s, i, z, DIGITS)
  PROVE  \A j \in i..z : Decimal(s, i, j) \in Nat /\ Decimal(s, i, j) <= Decimal(s, i, z)
<1>0. Len(s) \in Nat BY TextLemma
<1>1. ASSUME NEW j \in i..(z - 1), Decimal(s, i, j) \in Nat
      PROVE  Decimal(s, i, j + 1) \in Nat /\ Decimal(s, i, j) <= Decimal(s, i, j + 1)
  <2>1. j \in i..Len(s) /\ s[j] \in DIGITS BY <1>0 DEF AllIn
  <2>2. Digit(s[j]) \in Nat BY <2>1, DigitLemma
  <2>3. Decimal(s, i, j + 1) = 10 * Decimal(s, i, j) + Digit(s[j]) BY <2>1, DecimalSteps
  <2> QED BY <1>1, <2>2, <2>3
<1>2. \A j \in i..z : Decimal(s, i, j) \in Nat
  <2> DEFINE T == {j \in i..z : Decimal(s, i, j) \in Nat}
  <2>1. i \in T BY <1>0, DecimalSteps
  <2>2. \A j \in i..(z - 1) : j \in T => j + 1 \in T BY <1>0, <1>1
  <2>3. i \in Nat /\ z \in Nat /\ i <= z BY <1>0
  <2>4. \A j \in i..z : j \in T
    <3> HIDE DEF T
    <3> QED BY <2>1, <2>2, <2>3, UpTo
  <2> QED BY <2>4
<1>3. ASSUME NEW j \in i..z PROVE Decimal(s, i, j) <= Decimal(s, i, z)
  <2> DEFINE T == {k \in j..z : Decimal(s, i, j) <= Decimal(s, i, k)}
  <2>1. j \in T BY <1>0, <1>2
  <2>2. ASSUME NEW k \in j..(z - 1), k \in T PROVE k + 1 \in T
    <3>1. k \in i..(z - 1) /\ k \in i..z /\ k + 1 \in i..z /\ k + 1 \in j..z BY <1>0
    <3>2. Decimal(s, i, k) <= Decimal(s, i, k + 1) BY <1>1, <1>2, <3>1
    <3>3. Decimal(s, i, j) <= Decimal(s, i, k) BY <2>2
    <3>4. Decimal(s, i, j) \in Nat /\ Decimal(s, i, k) \in Nat /\ Decimal(s, i, k + 1) \in Nat
      BY <1>2, <3>1
    <3>5. Decimal(s, i, j) <= Decimal(s, i, k + 1) BY <3>2, <3>3, <3>4
    <3> QED BY <3>1, <3>5
  <2>3. j \in Nat /\ z \in Nat /\ j <= z /\ z \in j..z BY <1>0
  <2>4. \A k \in j..z : k \in T
    <3> HIDE DEF T
    <3> QED BY <2>1, <2>2, <2>3, UpTo
  <2> QED BY <2>3, <2>4
<1> QED BY <1>2, <1>3

(***************************************************************************)
(* The marks of a number                                                   *)
(***************************************************************************)
FirstDigit(s, i) == IF s[i] = MINUS THEN i + 1 ELSE i

Marks(s, first, i, m, e, d, z) ==
  /\ i = FirstDigit(s, first)
  /\ m = Span(s, i, DIGITS)
  /\ e = IF At(s, m, {DOT}) THEN Span(s, m + 1, DIGITS) ELSE m
  /\ d = IF At(s, e + 1, {PLUS, MINUS}) THEN e + 2 ELSE e + 1
  /\ z = IF At(s, e, EXPONENT) THEN Span(s, d, DIGITS) ELSE e

LEMMA NumberIs ==
  ASSUME NEW s \in Text, NEW first \in 1..Len(s)
  PROVE  \E i, m, e, d, z :
           /\ Number(s, first) = [i |-> i, m |-> m, e |-> e, d |-> d, z |-> z]
           /\ Marks(s, first, i, m, e, d, z)
<1> DEFINE i == IF At(s, first, {MINUS}) THEN first + 1 ELSE first
           m == Span(s, i, DIGITS)
           e == IF At(s, m, {DOT}) THEN Span(s, m + 1, DIGITS) ELSE m
           d == IF At(s, e + 1, {PLUS, MINUS}) THEN e + 2 ELSE e + 1
           z == IF At(s, e, EXPONENT) THEN Span(s, d, DIGITS) ELSE e
<1>1. Number(s, first) = [i |-> i, m |-> m, e |-> e, d |-> d, z |-> z] BY DEF Number
<1>z. z = IF At(s, e, EXPONENT) THEN Span(s, d, DIGITS) ELSE e OBVIOUS
<1> HIDE DEF z
<1>d. d = IF At(s, e + 1, {PLUS, MINUS}) THEN e + 2 ELSE e + 1 OBVIOUS
<1> HIDE DEF d
<1>e. e = IF At(s, m, {DOT}) THEN Span(s, m + 1, DIGITS) ELSE m OBVIOUS
<1> HIDE DEF e
<1>m. m = Span(s, i, DIGITS) OBVIOUS
<1> HIDE DEF m
<1>2. first <= Len(s) /\ (At(s, first, {MINUS}) <=> s[first] = MINUS) BY TextLemma DEF At
<1>i. i = FirstDigit(s, first) BY <1>2 DEF FirstDigit
<1> HIDE DEF i
<1>3. Marks(s, first, i, m, e, d, z) BY <1>i, <1>m, <1>e, <1>d, <1>z DEF Marks
<1> QED BY <1>1, <1>3

(* Where the marks are.                                                    *)
LEMMA MarksInOrder ==
  ASSUME NEW s \in Text, NEW first \in 1..Len(s), NEW i, NEW m, NEW e, NEW d, NEW z,
         Marks(s, first, i, m, e, d, z)
  PROVE  /\ i \in first..(first + 1) /\ m \in i..(Len(s) + 1)
         /\ e \in m..(Len(s) + 1) /\ z \in e..(Len(s) + 1)
         /\ At(s, m, {DOT}) => e > m
         /\ At(s, e, EXPONENT) => z > e /\ z \in d..(Len(s) + 1)
<1> USE DEF Marks
<1>0. Len(s) \in Nat BY TextLemma
<1>1. i \in first..(first + 1) /\ i \in 1..(Len(s) + 1) BY <1>0 DEF FirstDigit
<1>2. m \in i..(Len(s) + 1) BY <1>1, SpanLemma
<1>3. e \in m..(Len(s) + 1) /\ (At(s, m, {DOT}) => e > m)
  <2>1. CASE At(s, m, {DOT})
    <3>1. m + 1 \in 1..(Len(s) + 1) BY <1>0, <1>1, <1>2, <2>1 DEF At
    <3>2. e \in (m + 1)..(Len(s) + 1) BY <2>1, <3>1, SpanLemma
    <3> QED BY <1>0, <1>1, <1>2, <3>2, SMTT(30)
  <2>2. CASE ~At(s, m, {DOT}) BY <1>0, <1>1, <1>2, <2>2
  <2> QED BY <2>1, <2>2
<1>4. CASE At(s, e, EXPONENT)
  <2>1. e \in Nat /\ e <= Len(s) /\ e > 0
    <3>1. e <= Len(s) BY <1>4 DEF At
    <3>2. e \in m..(Len(s) + 1) /\ m \in Nat /\ m > 0 BY <1>0, <1>1, <1>2, <1>3
    <3> HIDE DEF Marks
    <3> QED BY <1>0, <3>1, <3>2
  <2>2. At(s, e + 1, {PLUS, MINUS}) => e + 1 <= Len(s) BY DEF At
  <2>3. d = e + 1 \/ (d = e + 2 /\ e + 1 <= Len(s)) BY <2>2
  <2>4. d \in 1..(Len(s) + 1) /\ d > e
    <3> HIDE DEF Marks
    <3> QED BY <1>0, <2>1, <2>3
  <2>5. z \in d..(Len(s) + 1) BY <1>4, <2>4, SpanLemma
  <2> QED BY <1>0, <1>1, <1>2, <1>3, <2>4, <2>5, SMTT(30)
<1>5. CASE ~At(s, e, EXPONENT) BY <1>0, <1>1, <1>2, <1>3, <1>5
<1> QED BY <1>1, <1>2, <1>3, <1>4, <1>5

(***************************************************************************)
(* The pieces                                                              *)
(***************************************************************************)
LEMMA PieceFields ==
  ASSUME NEW t, NEW i, NEW place
  PROVE  Piece(t, i, place).tokens = t /\ Piece(t, i, place).next = <<i, place>>
  BY DEF Piece

LEMMA ByteSets ==
  /\ DOMAIN Punctuation = {58, 44, 123, 125, 91, 93}
  /\ DOMAIN KeywordOf = {116, 102, 110}
  /\ DOMAIN Escaped = {34, 92, 47, 98, 102, 110, 114, 116}
  BY DEF Punctuation, KeywordOf, Escaped

LEMMA InsidePieces ==
  ASSUME NEW s, NEW i, s[i] \in Byte \cup {EOF}
  PROVE  /\ s[i] = EOF => PieceAt(s, i, "INSIDE") = LastPiece(s, <<Malformed>>)
         /\ s[i] = QUOTE => PieceAt(s, i, "INSIDE") = Piece(<<TokenCEnd>>, i + 1, "OUTSIDE")
         /\ s[i] = BACKSLASH => PieceAt(s, i, "INSIDE") = EscapeAt(s, i)
         /\ s[i] \notin {QUOTE, BACKSLASH, EOF} =>
              PieceAt(s, i, "INSIDE") = Piece(<<TokenC(<<s[i]>>)>>, i + 1, "INSIDE")
  BY DEF PieceAt, EOF, QUOTE, BACKSLASH

OutsideBytes == {QUOTE, EOF, MINUS} \cup WHITESPACE \cup DOMAIN Punctuation \cup DIGITS
                  \cup DOMAIN KeywordOf

LEMMA OutsidePieces ==
  ASSUME NEW s, NEW i, s[i] \in Byte \cup {EOF}
  PROVE  /\ s[i] = EOF => PieceAt(s, i, "OUTSIDE") = LastPiece(s, <<>>)
         /\ s[i] = QUOTE => PieceAt(s, i, "OUTSIDE") = Piece(<<TokenCBegin>>, i + 1, "INSIDE")
         /\ s[i] \in WHITESPACE => PieceAt(s, i, "OUTSIDE") = Piece(<<>>, i + 1, "OUTSIDE")
         /\ s[i] \in DOMAIN Punctuation =>
              PieceAt(s, i, "OUTSIDE") = Piece(<<Token(Punctuation[s[i]])>>, i + 1, "OUTSIDE")
         /\ s[i] \in DIGITS \cup {MINUS} => PieceAt(s, i, "OUTSIDE") = NumberAt(s, i)
         /\ s[i] \in DOMAIN KeywordOf => PieceAt(s, i, "OUTSIDE") = KeywordAt(s, i)
         /\ s[i] \notin OutsideBytes => PieceAt(s, i, "OUTSIDE") = LastPiece(s, <<Malformed>>)
<1>1. s[i] = EOF => PieceAt(s, i, "OUTSIDE") = LastPiece(s, <<>>)
  BY ByteSets DEF PieceAt, EOF, QUOTE, WHITESPACE, DIGITS, MINUS
<1>2. s[i] = QUOTE => PieceAt(s, i, "OUTSIDE") = Piece(<<TokenCBegin>>, i + 1, "INSIDE")
  BY ByteSets DEF PieceAt, EOF, QUOTE, WHITESPACE, DIGITS, MINUS
<1>3. s[i] \in WHITESPACE => PieceAt(s, i, "OUTSIDE") = Piece(<<>>, i + 1, "OUTSIDE")
  <2>1. ASSUME s[i] \in WHITESPACE
        PROVE  /\ s[i] # EOF /\ s[i] # QUOTE /\ s[i] \notin DOMAIN Punctuation
               /\ s[i] \notin DIGITS \cup {MINUS} /\ s[i] \notin DOMAIN KeywordOf
    BY <2>1, ByteSets DEF EOF, QUOTE, WHITESPACE, DIGITS, MINUS
  <2> QED BY <2>1 DEF PieceAt
<1>4. s[i] \in DOMAIN Punctuation =>
        PieceAt(s, i, "OUTSIDE") = Piece(<<Token(Punctuation[s[i]])>>, i + 1, "OUTSIDE")
  BY ByteSets DEF PieceAt, EOF, QUOTE, WHITESPACE, DIGITS, MINUS
<1>5. s[i] \in DIGITS \cup {MINUS} => PieceAt(s, i, "OUTSIDE") = NumberAt(s, i)
  BY ByteSets DEF PieceAt, EOF, QUOTE, WHITESPACE, DIGITS, MINUS
<1>6. s[i] \in DOMAIN KeywordOf => PieceAt(s, i, "OUTSIDE") = KeywordAt(s, i)
  BY ByteSets DEF PieceAt, EOF, QUOTE, WHITESPACE, DIGITS, MINUS
<1>7. s[i] \notin OutsideBytes => PieceAt(s, i, "OUTSIDE") = LastPiece(s, <<Malformed>>)
  BY DEF PieceAt, OutsideBytes
<1> QED BY <1>1, <1>2, <1>3, <1>4, <1>5, <1>6, <1>7

(* A piece gives at most two tokens and ends beyond its beginning.         *)
Few(t) == t = <<>> \/ (\E a : t = <<a>>) \/ (\E a, b : t = <<a, b>>)

GoodPiece(s, i, r) ==
  \E t, j, place : /\ r = Piece(t, j, place) /\ Few(t)
                   /\ j \in (i + 1)..(Len(s) + 1) /\ place \in Places

LEMMA LastPieceIsGood ==
  ASSUME NEW s \in Text, NEW i \in 1..Len(s), NEW t, Few(t)
  PROVE  GoodPiece(s, i, LastPiece(s, t))
<1>1. Len(s) + 1 \in (i + 1)..(Len(s) + 1) BY TextLemma
<1>2. "OUTSIDE" \in Places BY DEF Places
<1> QED BY <1>1, <1>2 DEF GoodPiece, LastPiece

LEMMA FewLemma == Few(<<>>) /\ (\A a : Few(<<a>>)) /\ (\A a, b : Few(<<a, b>>))
  BY DEF Few

LEMMA OnePieceIsGood ==
  ASSUME NEW s \in Text, NEW i \in 1..Len(s), NEW t, Few(t),
         NEW j \in (i + 1)..(Len(s) + 1), NEW place \in Places
  PROVE  GoodPiece(s, i, Piece(t, j, place))
  BY DEF GoodPiece

LEMMA NumberIsGood ==
  ASSUME NEW s \in Text, NEW first \in 1..Len(s)
  PROVE  GoodPiece(s, first, NumberAt(s, first))
<1>0. Len(s) \in Nat BY TextLemma
<1>1. PICK i, m, e, d, z :
        /\ Number(s, first) = [i |-> i, m |-> m, e |-> e, d |-> d, z |-> z]
        /\ Marks(s, first, i, m, e, d, z)
  BY NumberIs
<1>2. PICK n : n = Number(s, first) OBVIOUS
<1>3. n.i = i /\ n.m = m /\ n.e = e /\ n.d = d /\ n.z = z BY <1>1, <1>2
<1>4. /\ i \in first..(first + 1) /\ m \in i..(Len(s) + 1)
      /\ e \in m..(Len(s) + 1) /\ z \in e..(Len(s) + 1)
  BY <1>1, MarksInOrder
<1>5. CASE Broken(s, n)
  BY <1>2, <1>5, LastPieceIsGood, FewLemma DEF NumberAt
<1>6. CASE ~Broken(s, n) /\ z > Len(s)
  BY <1>2, <1>3, <1>6, LastPieceIsGood, FewLemma DEF NumberAt
<1>7. CASE ~Broken(s, n) /\ ~(z > Len(s))
  <2>1. ~(m = i /\ i <= Len(s)) BY <1>3, <1>7 DEF Broken
  <2>2. z \in (first + 1)..(Len(s) + 1) BY <1>0, <1>4, <1>7, <2>1
  <2>3. \E t : NumberAt(s, first) = Piece(t, z, "OUTSIDE") /\ Few(t)
    BY <1>2, <1>3, <1>7, FewLemma DEF NumberAt
  <2> QED BY <2>2, <2>3, OnePieceIsGood DEF Places
<1> QED BY <1>5, <1>6, <1>7

LEMMA KeywordLength ==
  ASSUME NEW b \in DOMAIN KeywordOf
  PROVE  KeywordOf[b] \in KeywordStates /\ Len(Keyword[KeywordOf[b]]) \in {4, 5}
<1>1. KeywordOf[b] \in KeywordStates BY DEF KeywordOf, KeywordStates
<1>2. \A name \in KeywordStates : Len(Keyword[name]) \in {4, 5} BY DEF Keyword, KeywordStates
<1> QED BY <1>1, <1>2

LEMMA KeywordIsGood ==
  ASSUME NEW s \in Text, NEW i \in 1..Len(s), s[i] \in DOMAIN KeywordOf
  PROVE  GoodPiece(s, i, KeywordAt(s, i))
<1>0. Len(s) \in Nat BY TextLemma
<1>1. PICK word : word = Keyword[KeywordOf[s[i]]] OBVIOUS
<1>2. Len(word) \in {4, 5} BY <1>1, KeywordLength
<1>3. PICK wrong : wrong = \E k \in 1..Len(word) : i + k - 1 <= Len(s) /\ s[i + k - 1] # word[k]
  OBVIOUS
<1>4. KeywordAt(s, i) =
        IF wrong THEN LastPiece(s, <<Malformed>>)
        ELSE IF i + Len(word) - 1 > Len(s) THEN LastPiece(s, <<>>)
        ELSE Piece(<<Token(KeywordToken[KeywordOf[s[i]]])>>, i + Len(word), "OUTSIDE")
  BY <1>1, <1>3 DEF KeywordAt
<1>5. CASE wrong \/ i + Len(word) - 1 > Len(s)
  BY <1>4, <1>5, LastPieceIsGood, FewLemma
<1>6. CASE ~wrong /\ ~(i + Len(word) - 1 > Len(s))
  <2>2. \A n \in {4, 5} : ~(i + n - 1 > Len(s)) => i + n \in (i + 1)..(Len(s) + 1) BY <1>0
  <2>1. i + Len(word) \in (i + 1)..(Len(s) + 1) BY <1>2, <1>6, <2>2
  <2> QED BY <1>4, <1>6, <2>1, OnePieceIsGood, FewLemma DEF Places
<1> QED BY <1>5, <1>6

LEMMA EscapeIsGood ==
  ASSUME NEW s \in Text, NEW i \in 1..Len(s)
  PROVE  GoodPiece(s, i, EscapeAt(s, i))
<1>0. Len(s) \in Nat /\ "INSIDE" \in Places BY TextLemma DEF Places
<1>1. GoodPiece(s, i, UnicodeAt(s, i))
  <2>1. PICK wrong : wrong = \E k \in 2..5 : i + k <= Len(s) /\ s[i + k] \notin HexDigits OBVIOUS
  <2>2. PICK a, b : a = TokenC(<<Hex(s, i + 2)>>) /\ b = TokenC(<<Hex(s, i + 4)>>) OBVIOUS
  <2>3. UnicodeAt(s, i) = IF wrong THEN LastPiece(s, <<Malformed>>)
                          ELSE IF i + 5 > Len(s) THEN LastPiece(s, <<>>)
                          ELSE Piece(<<a, b>>, i + 6, "INSIDE")
    BY <2>1, <2>2 DEF UnicodeAt
  <2>4. CASE wrong \/ i + 5 > Len(s)
    BY <2>3, <2>4, LastPieceIsGood, FewLemma
  <2>5. CASE ~wrong /\ ~(i + 5 > Len(s))
    <3>1. i + 6 \in (i + 1)..(Len(s) + 1) BY <1>0, <2>5
    <3> QED BY <1>0, <2>3, <2>5, <3>1, OnePieceIsGood, FewLemma
  <2> QED BY <2>4, <2>5
<1>2. CASE i = Len(s)
  <2>1. EscapeAt(s, i) = LastPiece(s, <<>>) BY <1>0, <1>2 DEF EscapeAt, At
  <2> QED BY <2>1, LastPieceIsGood, FewLemma
<1>3. CASE i # Len(s)
  <2>1. i + 1 <= Len(s) /\ i + 2 \in (i + 1)..(Len(s) + 1) BY <1>0, <1>3
  <2>2. PICK a : a = TokenC(<<Escaped[s[i + 1]]>>) OBVIOUS
  <2>3. \/ EscapeAt(s, i) = Piece(<<a>>, i + 2, "INSIDE")
        \/ EscapeAt(s, i) = UnicodeAt(s, i)
        \/ EscapeAt(s, i) = LastPiece(s, <<Malformed>>)
    BY <1>3, <2>2, ByteSets DEF EscapeAt, At
  <2>4. GoodPiece(s, i, Piece(<<a>>, i + 2, "INSIDE"))
    BY <1>0, <2>1, OnePieceIsGood, FewLemma
  <2>5. GoodPiece(s, i, LastPiece(s, <<Malformed>>)) BY LastPieceIsGood, FewLemma
  <2> QED BY <1>1, <2>3, <2>4, <2>5
<1> QED BY <1>2, <1>3

LEMMA PieceIsGood ==
  ASSUME NEW s \in Text, NEW i \in 1..Len(s), NEW place \in Places
  PROVE  GoodPiece(s, i, PieceAt(s, i, place))
<1>0. Len(s) \in Nat /\ s[i] \in Byte \cup {EOF} BY TextLemma
<1>1. i + 1 \in (i + 1)..(Len(s) + 1) /\ "INSIDE" \in Places /\ "OUTSIDE" \in Places
  BY <1>0 DEF Places
<1>2. \A t : Few(t) => /\ GoodPiece(s, i, LastPiece(s, t))
                       /\ GoodPiece(s, i, Piece(t, i + 1, "INSIDE"))
                       /\ GoodPiece(s, i, Piece(t, i + 1, "OUTSIDE"))
  BY <1>1, LastPieceIsGood, OnePieceIsGood
<1>3. CASE place = "INSIDE"
  <2>1. s[i] = EOF \/ s[i] = QUOTE \/ s[i] = BACKSLASH \/ s[i] \notin {QUOTE, BACKSLASH, EOF}
    OBVIOUS
  <2>2. GoodPiece(s, i, EscapeAt(s, i)) BY EscapeIsGood
  <2>3. /\ GoodPiece(s, i, LastPiece(s, <<Malformed>>))
        /\ GoodPiece(s, i, Piece(<<TokenCEnd>>, i + 1, "OUTSIDE"))
        /\ GoodPiece(s, i, Piece(<<TokenC(<<s[i]>>)>>, i + 1, "INSIDE"))
    BY <1>2, FewLemma, Zenon
  <2>4. GoodPiece(s, i, PieceAt(s, i, "INSIDE")) BY <1>0, <2>1, <2>2, <2>3, InsidePieces, Zenon
  <2> QED BY <1>3, <2>4
<1>4. CASE place = "OUTSIDE"
  <2>1. \/ s[i] = EOF \/ s[i] = QUOTE \/ s[i] \in WHITESPACE \/ s[i] \in DOMAIN Punctuation
        \/ s[i] \in DIGITS \cup {MINUS} \/ s[i] \in DOMAIN KeywordOf \/ s[i] \notin OutsideBytes
    BY DEF OutsideBytes
  <2>2. /\ GoodPiece(s, i, NumberAt(s, i))
        /\ s[i] \in DOMAIN KeywordOf => GoodPiece(s, i, KeywordAt(s, i))
    BY NumberIsGood, KeywordIsGood
  <2>3. /\ GoodPiece(s, i, LastPiece(s, <<Malformed>>))
        /\ GoodPiece(s, i, LastPiece(s, <<>>))
        /\ GoodPiece(s, i, Piece(<<>>, i + 1, "OUTSIDE"))
        /\ GoodPiece(s, i, Piece(<<TokenCBegin>>, i + 1, "INSIDE"))
        /\ GoodPiece(s, i, Piece(<<Token(Punctuation[s[i]])>>, i + 1, "OUTSIDE"))
    BY <1>2, FewLemma, Zenon
  <2>4. GoodPiece(s, i, PieceAt(s, i, "OUTSIDE"))
    BY <1>0, <2>1, <2>2, <2>3, OutsidePieces, Zenon
  <2> QED BY <1>4, <2>4
<1> QED BY <1>3, <1>4 DEF Places

(***************************************************************************)
(* The tokens of the rest of the text                                      *)
(***************************************************************************)
RestBody(s, f, q) == IF q[1] > Len(s) THEN <<>>
                     ELSE PieceAt(s, q[1], q[2]).tokens \o f[PieceAt(s, q[1], q[2]).next]

Beyond(s, m) == {q \in Positions(s) : q[1] > m}

LEMMA PositionLemma ==
  ASSUME NEW s \in Text
  PROVE  /\ \A q \in Positions(s) : /\ q[1] \in 1..(Len(s) + 1) /\ q[2] \in Places
                                    /\ q = <<q[1], q[2]>>
         /\ \A i \in 1..(Len(s) + 1), place \in Places :
              <<i, place>> \in Positions(s) /\ <<i, place>>[1] = i /\ <<i, place>>[2] = place
  BY DEF Positions

LEMMA NextLemma ==
  ASSUME NEW s \in Text, NEW q \in Positions(s), q[1] <= Len(s)
  PROVE  /\ PieceAt(s, q[1], q[2]).next \in Positions(s)
         /\ PieceAt(s, q[1], q[2]).next[1] > q[1]
         /\ Few(PieceAt(s, q[1], q[2]).tokens)
<1>0. Len(s) \in Nat /\ q[1] \in 1..Len(s) /\ q[2] \in Places BY TextLemma, PositionLemma
<1>1. PICK t, j, place : /\ PieceAt(s, q[1], q[2]) = Piece(t, j, place) /\ Few(t)
                         /\ j \in (q[1] + 1)..(Len(s) + 1) /\ place \in Places
  BY <1>0, PieceIsGood DEF GoodPiece
<1>2. j \in 1..(Len(s) + 1) /\ j > q[1] BY <1>0, <1>1
<1> QED BY <1>1, <1>2, PieceFields, PositionLemma

LEMMA RestFunction ==
  ASSUME NEW s \in Text
  PROVE  \A q \in Positions(s) : Rest(s)[q] = RestBody(s, Rest(s), q)
<1>0. Len(s) \in Nat BY TextLemma
<1> DEFINE Defined(n) == \E f : f = [q \in Beyond(s, (Len(s) + 1) - n) |-> RestBody(s, f, q)]
           T == {n \in Nat : Defined(n)}
<1>1. 0 \in T
  <2>1. Beyond(s, (Len(s) + 1) - 0) = {} BY <1>0, PositionLemma DEF Beyond
  <2> DEFINE f == [q \in {} |-> <<>>]
  <2>2. f = [q \in Beyond(s, (Len(s) + 1) - 0) |-> RestBody(s, f, q)] BY <2>1
  <2> HIDE DEF f
  <2>3. Defined(0) BY <2>2
  <2> QED BY <2>3
<1>2. ASSUME NEW n \in 0..Len(s), n \in T PROVE n + 1 \in T
  <2>0. PICK m : m = (Len(s) + 1) - n OBVIOUS
  <2>m. m \in Int /\ (Len(s) + 1) - (n + 1) = m - 1 BY <1>0, <2>0
  <2>1. PICK f : f = [q \in Beyond(s, m) |-> RestBody(s, f, q)] BY <1>2, <2>0
  <2> DEFINE g == [q \in Beyond(s, m - 1) |-> IF q[1] > m THEN f[q] ELSE RestBody(s, f, q)]
  <2>2. ASSUME NEW q \in Beyond(s, m - 1) PROVE g[q] = RestBody(s, g, q)
    <3>1. q \in Positions(s) /\ q[1] > m - 1 /\ q[1] \in Int BY PositionLemma DEF Beyond
    <3>2. g[q] = RestBody(s, f, q)
      <4>1. q[1] > m => q \in Beyond(s, m) BY <3>1 DEF Beyond
      <4>2. q[1] > m => f[q] = RestBody(s, f, q) BY <2>1, <4>1
      <4>3. g[q] = IF q[1] > m THEN f[q] ELSE RestBody(s, f, q) OBVIOUS
      <4> HIDE DEF g
      <4> QED BY <4>2, <4>3
    <3>3. CASE q[1] > Len(s) BY <3>2, <3>3 DEF RestBody
    <3>4. CASE ~(q[1] > Len(s))
      <4>1. PICK r : r = PieceAt(s, q[1], q[2]) OBVIOUS
      <4>2. r.next \in Positions(s) /\ r.next[1] > q[1] BY <1>0, <3>1, <3>4, <4>1, NextLemma
      <4>3. r.next[1] \in Int /\ r.next[1] > m BY <2>m, <3>1, <4>2, PositionLemma
      <4>4. r.next \in Beyond(s, m - 1) BY <2>m, <4>2, <4>3 DEF Beyond
      <4>5. g[r.next] = f[r.next] BY <4>3, <4>4
      <4> HIDE DEF g
      <4> QED BY <3>2, <3>4, <4>1, <4>5 DEF RestBody
    <3> QED BY <3>3, <3>4
  <2>3. g = [q \in Beyond(s, m - 1) |-> RestBody(s, g, q)] BY <2>2, Zenon
  <2> HIDE DEF g
  <2>4. Defined(n + 1) BY <2>m, <2>3
  <2> QED BY <1>0, <2>4
<1>3. Defined(Len(s) + 1)
  <2>1. \A j \in 0..((Len(s) + 1) - 1) : j \in T => j + 1 \in T BY <1>0, <1>2
  <2>2. \A j \in 0..(Len(s) + 1) : j \in T
    <3> HIDE DEF T
    <3> QED BY <1>0, <1>1, <2>1, UpTo, SMTT(30)
  <2>3. Len(s) + 1 \in 0..(Len(s) + 1) BY <1>0
  <2>4. Len(s) + 1 \in T
    <3> HIDE DEF T
    <3> QED BY <2>2, <2>3
  <2> QED BY <2>4
<1> DEFINE Equation(f) ==
             f = [q \in (1..(Len(s) + 1)) \X {"OUTSIDE", "INSIDE"} |->
                    IF q[1] > Len(s) THEN <<>>
                    ELSE PieceAt(s, q[1], q[2]).tokens \o f[PieceAt(s, q[1], q[2]).next]]
           v == CHOOSE f : Equation(f)
<1>4. \E f : Equation(f)
  <2>1. (Len(s) + 1) - (Len(s) + 1) = 0 BY <1>0
  <2>2. Beyond(s, 0) = (1..(Len(s) + 1)) \X {"OUTSIDE", "INSIDE"}
    BY PositionLemma DEF Beyond, Positions, Places
  <2>3. PICK f : f = [q \in Beyond(s, 0) |-> RestBody(s, f, q)] BY <1>3, <2>1
  <2>4. Equation(f) BY <2>2, <2>3, Zenon DEF RestBody
  <2> QED BY <2>4
<1>5. Equation(v)
  <2> HIDE DEF Equation
  <2> QED BY <1>4
<1>6. Rest(s) = v BY DEF Rest
<1>7. \A q \in Positions(s) : v[q] = RestBody(s, v, q)
  <2> HIDE DEF v
  <2> QED BY <1>5 DEF RestBody, Positions, Places
<1> HIDE DEF v
<1> QED BY <1>6, <1>7

TokenSet(s) == {PieceAt(s, q[1], q[2]).tokens[k] : q \in Positions(s), k \in 1..2}

LEMMA RestType ==
  ASSUME NEW s \in Text
  PROVE  /\ \A q \in Positions(s) : Rest(s)[q] \in Seq(TokenSet(s))
         /\ \A q \in Positions(s) : q[1] <= Len(s) =>
              PieceAt(s, q[1], q[2]).tokens \in Seq(TokenSet(s))
<1>0. Len(s) \in Nat BY TextLemma
<1>1. ASSUME NEW q \in Positions(s), q[1] <= Len(s)
      PROVE  PieceAt(s, q[1], q[2]).tokens \in Seq(TokenSet(s))
  <2>1. PICK t : t = PieceAt(s, q[1], q[2]).tokens OBVIOUS
  <2>2. t[1] \in TokenSet(s) /\ t[2] \in TokenSet(s)
    <3>1. 1 \in 1..2 /\ 2 \in 1..2 OBVIOUS
    <3> QED BY <2>1, <3>1 DEF TokenSet
  <2>3. Few(t) BY <1>1, <2>1, NextLemma
  <2>4. CASE t = <<>> BY <2>1, <2>4
  <2>5. CASE \E a : t = <<a>> BY <2>1, <2>2, <2>5
  <2>6. CASE \E a, b : t = <<a, b>> BY <2>1, <2>2, <2>6
  <2> QED BY <2>3, <2>4, <2>5, <2>6 DEF Few
<1> DEFINE Typed(n) == \A q \in Beyond(s, (Len(s) + 1) - n) : Rest(s)[q] \in Seq(TokenSet(s))
           T == {n \in Nat : Typed(n)}
<1>2. 0 \in T
  <2>1. Beyond(s, (Len(s) + 1) - 0) = {} BY <1>0, PositionLemma DEF Beyond
  <2> QED BY <2>1
<1>3. ASSUME NEW n \in 0..Len(s), n \in T PROVE n + 1 \in T
  <2>0. PICK m : m = (Len(s) + 1) - n OBVIOUS
  <2>m. m \in Int /\ (Len(s) + 1) - (n + 1) = m - 1 BY <1>0, <2>0
  <2>1. \A q \in Beyond(s, m) : Rest(s)[q] \in Seq(TokenSet(s)) BY <1>3, <2>0
  <2>2. ASSUME NEW q \in Beyond(s, m - 1) PROVE Rest(s)[q] \in Seq(TokenSet(s))
    <3>1. q \in Positions(s) /\ q[1] > m - 1 /\ q[1] \in Int BY PositionLemma DEF Beyond
    <3>2. Rest(s)[q] = RestBody(s, Rest(s), q) BY <3>1, RestFunction
    <3>3. CASE q[1] > Len(s) BY <3>2, <3>3 DEF RestBody
    <3>4. CASE ~(q[1] > Len(s))
      <4>1. PICK r : r = PieceAt(s, q[1], q[2]) OBVIOUS
      <4>2. q[1] <= Len(s) BY <1>0, <3>1, <3>4
      <4>3. r.next \in Positions(s) /\ r.next[1] > q[1] BY <3>1, <4>1, <4>2, NextLemma
      <4>4. r.next[1] \in Int /\ r.next[1] > m BY <2>m, <3>1, <4>3, PositionLemma
      <4>5. Rest(s)[r.next] \in Seq(TokenSet(s)) BY <2>1, <4>3, <4>4 DEF Beyond
      <4>6. r.tokens \in Seq(TokenSet(s)) BY <1>1, <3>1, <4>1, <4>2
      <4>7. Rest(s)[q] = r.tokens \o Rest(s)[r.next] BY <3>2, <3>4, <4>1 DEF RestBody
      <4> QED BY <4>5, <4>6, <4>7, ConcatProperties
    <3> QED BY <3>3, <3>4
  <2>3. Typed(n + 1) BY <2>m, <2>2
  <2> QED BY <1>0, <2>3
<1>4. Typed(Len(s) + 1)
  <2>1. \A j \in 0..((Len(s) + 1) - 1) : j \in T => j + 1 \in T BY <1>0, <1>3
  <2>2. \A j \in 0..(Len(s) + 1) : j \in T
    <3> HIDE DEF T
    <3> QED BY <1>0, <1>2, <2>1, UpTo
  <2>3. Len(s) + 1 \in 0..(Len(s) + 1) BY <1>0
  <2>4. Len(s) + 1 \in T
    <3> HIDE DEF T
    <3> QED BY <2>2, <2>3
  <2> QED BY <2>4
<1>5. \A q \in Positions(s) : q \in Beyond(s, (Len(s) + 1) - (Len(s) + 1))
  BY <1>0, PositionLemma DEF Beyond
<1> QED BY <1>1, <1>4, <1>5

(***************************************************************************)
(* What has been told of a text                                            *)
(***************************************************************************)
Items == Calls \cup {Malformed}

(* The tokens of s are o and those from i on.                              *)
ToldUpTo(s, i, place, o) == /\ <<i, place>> \in Positions(s) /\ o \in Seq(Items)
                            /\ Reference(s) = o \o Rest(s)[<<i, place>>]

LEMMA ToldInit == ASSUME NEW s \in Text PROVE ToldUpTo(s, 1, "OUTSIDE", <<>>)
<1>1. <<1, "OUTSIDE">> \in Positions(s) BY TextLemma DEF Positions, Places
<1>2. Rest(s)[<<1, "OUTSIDE">>] \in Seq(TokenSet(s)) BY <1>1, RestType
<1>3. <<>> \o Rest(s)[<<1, "OUTSIDE">>] = Rest(s)[<<1, "OUTSIDE">>] BY <1>2, ConcatEmptySeq
<1> QED BY <1>1, <1>3 DEF ToldUpTo, Reference

LEMMA RestAt ==
  ASSUME NEW s \in Text, NEW i \in 1..Len(s), NEW place \in Places
  PROVE  /\ Rest(s)[<<i, place>>] =
              PieceAt(s, i, place).tokens \o Rest(s)[PieceAt(s, i, place).next]
         /\ PieceAt(s, i, place).next \in Positions(s)
         /\ PieceAt(s, i, place).tokens \in Seq(TokenSet(s))
<1>0. Len(s) \in Nat BY TextLemma
<1>1. PICK q : q = <<i, place>> OBVIOUS
<1>2. q \in Positions(s) /\ q[1] = i /\ q[2] = place BY <1>0, <1>1, PositionLemma
<1>3. Rest(s)[q] = RestBody(s, Rest(s), q) BY <1>2, RestFunction
<1>4. ~(i > Len(s)) /\ q[1] <= Len(s) BY <1>0, <1>2
<1>5. Rest(s)[q] = PieceAt(s, i, place).tokens \o Rest(s)[PieceAt(s, i, place).next]
  BY <1>2, <1>3, <1>4 DEF RestBody
<1> QED BY <1>1, <1>2, <1>4, <1>5, NextLemma, RestType

LEMMA Advance ==
  ASSUME NEW s \in Text, NEW i \in 1..Len(s), NEW place \in Places, NEW o, ToldUpTo(s, i, place, o),
         NEW t \in Seq(Items), NEW j, NEW there, PieceAt(s, i, place) = Piece(t, j, there)
  PROVE  ToldUpTo(s, j, there, o \o t)
<1>1. PICK r : r = PieceAt(s, i, place) OBVIOUS
<1>2. r.tokens = t /\ r.next = <<j, there>> BY <1>1, PieceFields
<1>3. PICK a, b : a = Rest(s)[<<i, place>>] /\ b = Rest(s)[<<j, there>>] OBVIOUS
<1>4. a = t \o b /\ <<j, there>> \in Positions(s) BY <1>1, <1>2, <1>3, RestAt
<1>5. b \in Seq(TokenSet(s)) BY <1>3, <1>4, RestType
<1>6. o \in Seq(Items) /\ Reference(s) = o \o a BY <1>3 DEF ToldUpTo
<1>7. o \in Seq(Items \cup TokenSet(s)) /\ t \in Seq(Items \cup TokenSet(s))
      /\ b \in Seq(Items \cup TokenSet(s))
  BY <1>5, <1>6, SeqMonotonic
<1>8. (o \o t) \o b = o \o (t \o b) BY <1>7, ConcatAssociative, SMTT(30)
<1>9. o \o t \in Seq(Items) BY <1>6, ConcatProperties
<1> QED BY <1>3, <1>4, <1>6, <1>8, <1>9 DEF ToldUpTo

LEMMA ToldAll ==
  ASSUME NEW s \in Text, NEW place, NEW o, ToldUpTo(s, Len(s) + 1, place, o)
  PROVE  Reference(s) = o
<1>0. Len(s) \in Nat BY TextLemma
<1>1. PICK q : q = <<Len(s) + 1, place>> OBVIOUS
<1>2. q \in Positions(s) /\ q[1] = Len(s) + 1 BY <1>1 DEF ToldUpTo
<1>3. Rest(s)[q] = RestBody(s, Rest(s), q) BY <1>2, RestFunction
<1>4. Rest(s)[q] = <<>> BY <1>0, <1>2, <1>3 DEF RestBody
<1>5. o \in Seq(Items) /\ Reference(s) = o \o <<>> BY <1>1, <1>4 DEF ToldUpTo
<1> QED BY <1>5, ConcatEmptySeq

LEMMA Conclude ==
  ASSUME NEW s \in Text, NEW i \in 1..Len(s), NEW place \in Places, NEW o, ToldUpTo(s, i, place, o),
         NEW t \in Seq(Items), PieceAt(s, i, place) = LastPiece(s, t)
  PROVE  Reference(s) = o \o t
<1>1. PieceAt(s, i, place) = Piece(t, Len(s) + 1, "OUTSIDE") BY DEF LastPiece
<1>2. ToldUpTo(s, Len(s) + 1, "OUTSIDE", o \o t) BY <1>1, Advance
<1> QED BY <1>2, ToldAll

LEMMA ItemLemma ==
  /\ <<>> \in Seq(Items) /\ <<Malformed>> \in Seq(Items)
  /\ \A c \in Calls : <<c>> \in Seq(Items)
  /\ \A c \in Calls, e \in Calls : <<c, e>> \in Seq(Items)
<1>1. Calls \subseteq Items /\ Malformed \in Items BY DEF Items
<1> HIDE DEF Items
<1>2. <<>> \in Seq(Items) /\ <<Malformed>> \in Seq(Items) BY <1>1
<1>3. \A c \in Calls : <<c>> \in Seq(Items) BY <1>1
<1>4. \A c \in Calls, e \in Calls : <<c, e>> \in Seq(Items) BY <1>1
<1> QED BY <1>2, <1>3, <1>4

(***************************************************************************)
(* Numbers                                                                 *)
(***************************************************************************)
(* The definitions of LexerReference, of the marks themselves.             *)
PowerBy(s, e, d, z) == IF At(s, e + 1, {MINUS}) THEN 0 - Decimal(s, d, z) ELSE Decimal(s, d, z)

BrokenBy(s, i, m, e, d, z) ==
  \/ m = i /\ i <= Len(s)
  \/ m > i + 1 /\ s[i] = 48
  \/ At(s, m, {DOT}) /\ e = m + 1 /\ e <= Len(s)
  \/ At(s, e, EXPONENT) /\ z = d /\ d <= Len(s)
  \/ At(s, e, EXPONENT) /\ PowerBy(s, e, d, z) \notin Limits

IntTokenBy(s, first, i, m) ==
  [call |-> "tokeni", int |-> IF At(s, first, {MINUS}) THEN 0 - Decimal(s, i, m)
                              ELSE Decimal(s, i, m)]

FloatTokenBy(s, first, i, m, e, d, z) ==
  [call |-> "tokenf", int |-> Decimal(s, i, m), minus |-> At(s, first, {MINUS}),
   frac  |-> IF At(s, m, {DOT}) THEN Decimal(s, m + 1, e) % FRAC_MODULUS ELSE 0,
   power |-> IF At(s, m, {DOT}) THEN e - m - 1 ELSE 0,
   exp   |-> IF At(s, e, EXPONENT) THEN PowerBy(s, e, d, z) ELSE 0]

LEMMA NumberAtIs ==
  ASSUME NEW s, NEW first, NEW i, NEW m, NEW e, NEW d, NEW z,
         Number(s, first) = [i |-> i, m |-> m, e |-> e, d |-> d, z |-> z]
  PROVE  NumberAt(s, first) =
           IF BrokenBy(s, i, m, e, d, z) THEN LastPiece(s, <<Malformed>>)
           ELSE IF z > Len(s) THEN LastPiece(s, <<>>)
           ELSE IF At(s, m, {DOT}) \/ At(s, e, EXPONENT)
           THEN Piece(<<FloatTokenBy(s, first, i, m, e, d, z)>>, z, "OUTSIDE")
           ELSE Piece(<<IntTokenBy(s, first, i, m)>>, z, "OUTSIDE")
<1>1. PICK n : n = Number(s, first) OBVIOUS
<1>2. n.i = i /\ n.m = m /\ n.e = e /\ n.d = d /\ n.z = z BY <1>1
<1>3. Power(s, n) = PowerBy(s, e, d, z) BY <1>2, Zenon DEF Power, PowerBy
<1>4. Broken(s, n) <=> BrokenBy(s, i, m, e, d, z)
  <2>1. PICK w : w = Power(s, n) OBVIOUS
  <2>2. Broken(s, n) <=>
          \/ m = i /\ i <= Len(s)
          \/ m > i + 1 /\ s[i] = 48
          \/ At(s, m, {DOT}) /\ e = m + 1 /\ e <= Len(s)
          \/ At(s, e, EXPONENT) /\ z = d /\ d <= Len(s)
          \/ At(s, e, EXPONENT) /\ w \notin Limits
    BY <1>2, <2>1, SMT DEF Broken, Limits
  <2>3. w = PowerBy(s, e, d, z) BY <1>3, <2>1
  <2> QED BY <2>2, <2>3, Zenon DEF BrokenBy
<1>5. IntToken(s, first, n) = IntTokenBy(s, first, i, m) BY <1>2, Zenon DEF IntToken, IntTokenBy
<1>6. FloatToken(s, first, n) = FloatTokenBy(s, first, i, m, e, d, z)
  BY <1>2, <1>3, Zenon DEF FloatToken, FloatTokenBy
<1>7. NumberAt(s, first) =
        IF Broken(s, n) THEN LastPiece(s, <<Malformed>>)
        ELSE IF z > Len(s) THEN LastPiece(s, <<>>)
        ELSE IF At(s, m, {DOT}) \/ At(s, e, EXPONENT)
        THEN Piece(<<FloatToken(s, first, n)>>, z, "OUTSIDE")
        ELSE Piece(<<IntToken(s, first, n)>>, z, "OUTSIDE")
  BY <1>1, <1>2, Zenon DEF NumberAt
<1> QED BY <1>4, <1>5, <1>6, <1>7, Zenon

(***************************************************************************)
(* What the lexer knows of the number that begins at i: the digits of its  *)
(* integer part are f..m-1, those of its fraction m+1..e-1 and those of    *)
(* its exponent d..p-1.                                                    *)
(***************************************************************************)
IntegerRead(s, l, i, f, m) ==
  /\ s[i] \in DIGITS \cup {MINUS} /\ f = FirstDigit(s, i)
  /\ f < m /\ AllIn(s, f, m, DIGITS)
  /\ s[f] = 48 => m = f + 1
  /\ l.int_value = 0 <=> s[f] = 48
  /\ l.int_value = Decimal(s, f, m)
  /\ l.minus <=> s[i] = MINUS

FractionRead(s, l, m, e) ==
  IF s[m] = DOT
  THEN /\ m < e /\ AllIn(s, m + 1, e, DIGITS)
       /\ l.frac_power = e - m - 1
       /\ l.frac_value = Decimal(s, m + 1, e) % FRAC_MODULUS
  ELSE e = m /\ l.frac_power = 0 /\ l.frac_value = 0

(* Where the digits of the exponent begin.                                 *)
ExponentDigits(s, e) == IF s[e + 1] \in {PLUS, MINUS} THEN e + 2 ELSE e + 1

ExponentRead(s, l, e, d, p) ==
  /\ s[e] \in EXPONENT /\ e + 1 < p
  /\ d = ExponentDigits(s, e)
  /\ AllIn(s, d, p, DIGITS)
  /\ l.exp_value = Decimal(s, d, p)
  /\ l.exp_minus <=> s[e + 1] = MINUS
  /\ l.exp_not_empty <=> d < p

LEMMA AllAt ==
  ASSUME NEW s \in Text, NEW i \in 1..(Len(s) + 1), NEW j \in i..(Len(s) + 1), NEW bytes,
         AllIn(s, i, j, bytes)
  PROVE  \A k \in i..(j - 1) : At(s, k, bytes)
  BY TextLemma DEF AllIn, At

LEMMA IntMarks ==
  ASSUME NEW s \in Text, NEW first \in 1..Len(s), NEW i, NEW m, NEW e, NEW d, NEW z,
         Marks(s, first, i, m, e, d, z),
         NEW l, NEW f \in 1..(Len(s) + 1), NEW mm \in 1..(Len(s) + 1),
         IntegerRead(s, l, first, f, mm)
  PROVE  i = f /\ m \in mm..(Len(s) + 1) /\ (~At(s, mm, DIGITS) => m = mm)
<1>0. Len(s) \in Nat BY TextLemma
<1>1. i = f /\ m = Span(s, f, DIGITS) BY DEF Marks, IntegerRead
<1>2. mm \in f..(Len(s) + 1) BY <1>0 DEF IntegerRead
<1>3. \A k \in f..(mm - 1) : At(s, k, DIGITS) BY <1>2, AllAt DEF IntegerRead
<1> QED BY <1>1, <1>2, <1>3, SpanIs, SpanReaches

LEMMA FracMarks ==
  ASSUME NEW s \in Text, NEW first \in 1..Len(s), NEW i, NEW m, NEW e, NEW d, NEW z,
         Marks(s, first, i, m, e, d, z),
         NEW l, m \in 1..Len(s), NEW ee \in 1..(Len(s) + 1), FractionRead(s, l, m, ee),
         s[m] = DOT => ~At(s, ee, DIGITS)
  PROVE  e = ee
<1>0. Len(s) \in Nat BY TextLemma
<1>1. At(s, m, {DOT}) <=> s[m] = DOT BY <1>0 DEF At
<1>2. e = IF s[m] = DOT THEN Span(s, m + 1, DIGITS) ELSE m BY <1>1 DEF Marks
<1>3. CASE s[m] = DOT
  <2>1. m + 1 \in 1..(Len(s) + 1) /\ ee \in (m + 1)..(Len(s) + 1)
    BY <1>0, <1>3 DEF FractionRead
  <2>2. \A k \in (m + 1)..(ee - 1) : At(s, k, DIGITS) BY <1>3, <2>1, AllAt DEF FractionRead
  <2> QED BY <1>2, <1>3, <2>1, <2>2, SpanIs
<1>4. CASE s[m] # DOT BY <1>2, <1>4 DEF FractionRead
<1> QED BY <1>3, <1>4

LEMMA ExpMarks ==
  ASSUME NEW s \in Text, NEW first \in 1..Len(s), NEW i, NEW m, NEW e, NEW d, NEW z,
         Marks(s, first, i, m, e, d, z),
         NEW l, e \in 1..Len(s), NEW dd, NEW p \in 1..(Len(s) + 1), ExponentRead(s, l, e, dd, p)
  PROVE  d = dd /\ d \in 1..p /\ z \in p..(Len(s) + 1) /\ (~At(s, p, DIGITS) => z = p)
<1>0. Len(s) \in Nat BY TextLemma
<1>1. At(s, e, EXPONENT) /\ e + 1 <= Len(s) BY <1>0 DEF ExponentRead, At
<1>2. At(s, e + 1, {PLUS, MINUS}) <=> s[e + 1] \in {PLUS, MINUS} BY <1>1 DEF At
<1>3. d = dd BY <1>2 DEF Marks, ExponentRead, ExponentDigits
<1>4. d \in 1..p /\ z = Span(s, d, DIGITS)
  <2>1. d = e + 1 \/ d = e + 2 BY DEF Marks
  <2>2. z = Span(s, d, DIGITS) BY <1>1 DEF Marks
  <2>3. e + 1 < p BY DEF ExponentRead
  <2>4. d \in 1..p BY <1>0, <2>1, <2>3
  <2> QED BY <2>2, <2>4
<1>5. d \in 1..(Len(s) + 1) /\ p \in d..(Len(s) + 1) BY <1>0, <1>4
<1>6. \A k \in d..(p - 1) : At(s, k, DIGITS) BY <1>3, <1>5, AllAt DEF ExponentRead
<1> QED BY <1>3, <1>4, <1>5, <1>6, SpanIs, SpanReaches

LEMMA NumberPiece ==
  ASSUME NEW s \in Text, NEW i \in 1..Len(s), s[i] \in DIGITS \cup {MINUS}
  PROVE  PieceAt(s, i, "OUTSIDE") = NumberAt(s, i) /\ (At(s, i, {MINUS}) <=> s[i] = MINUS)
<1>1. s[i] \in Byte \cup {EOF} /\ i <= Len(s) BY TextLemma
<1> QED BY <1>1, OutsidePieces DEF At

LEMMA TokenIIs ==
  ASSUME NEW l, NEW minus, NEW n, l.minus <=> minus, l.int_value = n
  PROVE  [call |-> "tokeni", int |-> IF minus THEN 0 - n ELSE n] = TokenI(l)
<1>1. (IF minus THEN 0 - n ELSE n) = IF l.minus THEN 0 - l.int_value ELSE l.int_value OBVIOUS
<1> QED BY <1>1, Zenon DEF TokenI

LEMMA AtParts ==
  ASSUME NEW s, NEW p
  PROVE  /\ At(s, p, DIGITS \cup EXPONENT) <=> At(s, p, DIGITS) \/ At(s, p, EXPONENT)
         /\ At(s, p, DIGITS \cup EXPONENT \cup {DOT}) <=>
              At(s, p, DIGITS) \/ At(s, p, EXPONENT) \/ At(s, p, {DOT})
  BY DEF At

(* An integer ends where no digit, exponent or fraction follows, and is    *)
(* complete when something does.                                           *)
LEMMA IntEnds ==
  ASSUME NEW s \in Text, NEW i \in 1..Len(s), NEW l, NEW f \in 1..(Len(s) + 1),
         NEW p \in 1..(Len(s) + 1), IntegerRead(s, l, i, f, p),
         ~At(s, p, DIGITS \cup EXPONENT \cup {DOT})
  PROVE  /\ p > Len(s) => PieceAt(s, i, "OUTSIDE") = LastPiece(s, <<>>)
         /\ ~(p > Len(s)) => PieceAt(s, i, "OUTSIDE") = Piece(<<TokenI(l)>>, p, "OUTSIDE")
<1>0. Len(s) \in Nat BY TextLemma
<1>1. ~At(s, p, DIGITS) /\ ~At(s, p, EXPONENT) /\ ~At(s, p, {DOT}) BY AtParts
<1>2. PICK ii, m, e, d, z :
        /\ Number(s, i) = [i |-> ii, m |-> m, e |-> e, d |-> d, z |-> z]
        /\ Marks(s, i, ii, m, e, d, z)
  BY NumberIs
<1>3. ii = f /\ m = p BY <1>1, <1>2, IntMarks
<1>4. e = p /\ z = p BY <1>1, <1>2, <1>3 DEF Marks
<1>5. ~BrokenBy(s, ii, m, e, d, z)
  <2>1. f < p /\ (s[f] = 48 => p = f + 1) BY DEF IntegerRead
  <2>2. ~(m = ii) /\ ~(m > ii + 1 /\ s[ii] = 48) BY <1>3, <2>1
  <2> QED BY <1>1, <1>3, <1>4, <2>2, Zenon DEF BrokenBy
<1>6. s[i] \in DIGITS \cup {MINUS} BY DEF IntegerRead
<1>7. NumberAt(s, i) = IF p > Len(s) THEN LastPiece(s, <<>>)
                       ELSE Piece(<<IntTokenBy(s, i, f, p)>>, p, "OUTSIDE")
  BY <1>1, <1>2, <1>3, <1>4, <1>5, NumberAtIs
<1>8. IntTokenBy(s, i, f, p) = TokenI(l)
  <2>1. (l.minus <=> At(s, i, {MINUS})) /\ l.int_value = Decimal(s, f, p)
    BY <1>6, NumberPiece DEF IntegerRead
  <2> QED BY <2>1, TokenIIs DEF IntTokenBy
<1> QED BY <1>6, <1>7, <1>8, NumberPiece

(* A digit after a leading zero.                                           *)
LEMMA LeadingZero ==
  ASSUME NEW s \in Text, NEW i \in 1..Len(s), NEW l, NEW f \in 1..(Len(s) + 1),
         NEW p \in 1..Len(s), IntegerRead(s, l, i, f, p), s[f] = 48, s[p] \in DIGITS
  PROVE  PieceAt(s, i, "OUTSIDE") = LastPiece(s, <<Malformed>>)
<1>0. Len(s) \in Nat BY TextLemma
<1>2. PICK ii, m, e, d, z :
        /\ Number(s, i) = [i |-> ii, m |-> m, e |-> e, d |-> d, z |-> z]
        /\ Marks(s, i, ii, m, e, d, z)
  BY NumberIs
<1>3. ii = f /\ m \in p..(Len(s) + 1) BY <1>0, <1>2, IntMarks
<1>4. p = f + 1 BY DEF IntegerRead
<1>5. m # p
  <2>1. ii \in 1..(Len(s) + 1) /\ m = Span(s, ii, DIGITS) BY <1>2, <1>3 DEF Marks
  <2>2. ~At(s, m, DIGITS) BY <2>1, SpanLemma
  <2>3. p <= Len(s) BY <1>0
  <2> QED BY <2>2, <2>3 DEF At
<1>6. m > ii + 1 BY <1>0, <1>3, <1>4, <1>5
<1>7. BrokenBy(s, ii, m, e, d, z) BY <1>3, <1>6 DEF BrokenBy
<1>8. s[i] \in DIGITS \cup {MINUS} BY DEF IntegerRead
<1>9. NumberAt(s, i) = LastPiece(s, <<Malformed>>) BY <1>2, <1>7, NumberAtIs
<1> QED BY <1>8, <1>9, NumberPiece

(* No digit after the sign.                                                *)
LEMMA SignEnds ==
  ASSUME NEW s \in Text, NEW i \in 1..Len(s), s[i] = MINUS, ~At(s, i + 1, DIGITS)
  PROVE  PieceAt(s, i, "OUTSIDE") = LastPiece(s, IF i + 1 > Len(s) THEN <<>> ELSE <<Malformed>>)
<1>0. Len(s) \in Nat BY TextLemma
<1>1. PICK p : p = i + 1 OBVIOUS
<1>2. PICK ii, m, e, d, z :
        /\ Number(s, i) = [i |-> ii, m |-> m, e |-> e, d |-> d, z |-> z]
        /\ Marks(s, i, ii, m, e, d, z)
  BY NumberIs
<1>3. ii = p BY <1>1, <1>2 DEF Marks, FirstDigit
<1>4. m = p
  <2>1. p \in 1..(Len(s) + 1) /\ p \in p..(Len(s) + 1) /\ ~At(s, p, DIGITS) BY <1>0, <1>1
  <2>2. \A k \in p..(p - 1) : At(s, k, DIGITS) BY <2>1
  <2> QED BY <1>2, <1>3, <2>1, <2>2, SpanIs DEF Marks
<1>5. PieceAt(s, i, "OUTSIDE") = NumberAt(s, i) BY NumberPiece
<1>6. CASE p > Len(s)
  <2>1. \A x : ~At(s, p, x) BY <1>0, <1>1, <1>6 DEF At
  <2>2. e = p /\ z = p BY <1>2, <1>4, <2>1 DEF Marks
  <2>4. ~(p <= Len(s)) /\ ~(p > p + 1) BY <1>0, <1>1, <1>6
  <2>3. ~BrokenBy(s, ii, m, e, d, z) BY <1>3, <1>4, <2>1, <2>2, <2>4, Zenon DEF BrokenBy
  <2>5. z > Len(s) BY <1>6, <2>2
  <2> QED BY <1>1, <1>2, <1>5, <1>6, <2>3, <2>5, NumberAtIs
<1>7. CASE ~(p > Len(s))
  <2>1. p <= Len(s) BY <1>0, <1>1, <1>7
  <2>2. BrokenBy(s, ii, m, e, d, z) BY <1>3, <1>4, <2>1 DEF BrokenBy
  <2> QED BY <1>1, <1>2, <1>5, <1>7, <2>2, NumberAtIs
<1> QED BY <1>6, <1>7

LEMMA TokenFIs ==
  ASSUME NEW s \in Text, NEW i \in 1..Len(s), NEW l, l.minus \in BOOLEAN,
         NEW f, NEW m \in 1..Len(s), NEW e, NEW d, NEW z,
         IntegerRead(s, l, i, f, m), FractionRead(s, l, m, e),
         (IF At(s, e, EXPONENT) THEN PowerBy(s, e, d, z) ELSE 0) =
           IF l.exp_minus THEN 0 - l.exp_value ELSE l.exp_value
  PROVE  FloatTokenBy(s, i, f, m, e, d, z) = TokenF(l)
<1>1. At(s, m, {DOT}) <=> s[m] = DOT BY TextLemma DEF At
<1>2. /\ (IF At(s, m, {DOT}) THEN Decimal(s, m + 1, e) % FRAC_MODULUS ELSE 0) = l.frac_value
      /\ (IF At(s, m, {DOT}) THEN e - m - 1 ELSE 0) = l.frac_power
  BY <1>1 DEF FractionRead
<1>3. l.int_value = Decimal(s, f, m) BY DEF IntegerRead
<1>4. At(s, i, {MINUS}) = l.minus
  <2>1. l.minus <=> At(s, i, {MINUS}) BY NumberPiece DEF IntegerRead
  <2>2. At(s, i, {MINUS}) \in BOOLEAN BY DEF At
  <2> QED BY <2>1, <2>2
<1> QED BY <1>2, <1>3, <1>4, Zenon DEF FloatTokenBy, TokenF

(* A fraction ends where no digit follows; that it has none is an error.   *)
LEMMA FracEnds ==
  ASSUME NEW s \in Text, NEW i \in 1..Len(s), NEW l, l.minus \in BOOLEAN,
         NEW f \in 1..(Len(s) + 1), NEW m \in 1..Len(s), NEW p \in 1..(Len(s) + 1),
         IntegerRead(s, l, i, f, m), s[m] = DOT, FractionRead(s, l, m, p),
         l.exp_value = 0, ~l.exp_minus, ~At(s, p, DIGITS)
  PROVE  /\ p > Len(s) => PieceAt(s, i, "OUTSIDE") = LastPiece(s, <<>>)
         /\ ~(p > Len(s)) /\ l.frac_power = 0 =>
              PieceAt(s, i, "OUTSIDE") = LastPiece(s, <<Malformed>>)
         /\ ~(p > Len(s)) /\ l.frac_power # 0 /\ ~At(s, p, EXPONENT) =>
              PieceAt(s, i, "OUTSIDE") = Piece(<<TokenF(l)>>, p, "OUTSIDE")
<1>0. Len(s) \in Nat BY TextLemma
<1>1. PICK ii, mm, e, d, z :
        /\ Number(s, i) = [i |-> ii, m |-> mm, e |-> e, d |-> d, z |-> z]
        /\ Marks(s, i, ii, mm, e, d, z)
  BY NumberIs
<1>2. At(s, m, {DOT}) /\ ~At(s, m, DIGITS) BY DEF At, DOT, DIGITS
<1>3. ii = f /\ mm = m BY <1>0, <1>1, <1>2, IntMarks
<1>4. e = p BY <1>1, <1>3, FracMarks
<1>5. PieceAt(s, i, "OUTSIDE") = NumberAt(s, i)
  <2>1. s[i] \in DIGITS \cup {MINUS} BY DEF IntegerRead
  <2> QED BY <2>1, NumberPiece
<1>6. ~(m = f) /\ ~(m > f + 1 /\ s[f] = 48)
  <2>1. f < m /\ (s[f] = 48 => m = f + 1) BY DEF IntegerRead
  <2> QED BY <2>1
<1>7. m < p /\ (l.frac_power = 0 <=> p = m + 1) BY DEF FractionRead
<1>8. CASE ~At(s, p, EXPONENT) /\ (p > Len(s) \/ l.frac_power # 0)
  <2>1. ~(p = m + 1 /\ p <= Len(s)) BY <1>0, <1>7, <1>8
  <2>2. ~BrokenBy(s, ii, mm, e, d, z) BY <1>3, <1>4, <1>6, <1>8, <2>1, Zenon DEF BrokenBy
  <2>3. z = p BY <1>1, <1>4, <1>8 DEF Marks
  <2>4. NumberAt(s, i) = IF p > Len(s) THEN LastPiece(s, <<>>)
                         ELSE Piece(<<FloatTokenBy(s, i, f, m, p, d, p)>>, p, "OUTSIDE")
    BY <1>1, <1>2, <1>3, <1>4, <2>2, <2>3, NumberAtIs
  <2>5. FloatTokenBy(s, i, f, m, p, d, p) = TokenF(l) BY <1>8, TokenFIs
  <2> QED BY <1>5, <1>8, <2>4, <2>5
<1>9. CASE ~(p > Len(s)) /\ l.frac_power = 0
  <2>1. p = m + 1 /\ p <= Len(s) BY <1>0, <1>7, <1>9
  <2>2. BrokenBy(s, ii, mm, e, d, z) BY <1>2, <1>3, <1>4, <2>1, Zenon DEF BrokenBy
  <2>3. NumberAt(s, i) = LastPiece(s, <<Malformed>>) BY <1>1, <2>2, NumberAtIs
  <2> QED BY <1>5, <1>9, <2>3
<1>10. p > Len(s) => ~At(s, p, EXPONENT) BY <1>0 DEF At
<1> QED BY <1>8, <1>9, <1>10

(* After the integer part, or the fraction, and 'e' at e.                  *)
ExponentAt(s, l, i, f, m, e) ==
  /\ IntegerRead(s, l, i, f, m) /\ FractionRead(s, l, m, e)
  /\ s[m] = DOT => m + 1 < e
  /\ s[e] \in EXPONENT

LEMMA ExponentMarks ==
  ASSUME NEW s \in Text, NEW i \in 1..Len(s), NEW l, NEW f \in 1..Len(s), NEW m \in 1..Len(s),
         NEW e \in 1..Len(s), ExponentAt(s, l, i, f, m, e),
         NEW ii, NEW mm, NEW ee, NEW d, NEW z, Marks(s, i, ii, mm, ee, d, z)
  PROVE  /\ ii = f /\ mm = m /\ ee = e /\ At(s, e, EXPONENT)
         /\ ~(m = f) /\ ~(m > f + 1 /\ s[f] = 48) /\ ~(At(s, m, {DOT}) /\ e = m + 1)
         /\ PieceAt(s, i, "OUTSIDE") = NumberAt(s, i)
<1>0. Len(s) \in Nat BY TextLemma
<1>1. IntegerRead(s, l, i, f, m) /\ FractionRead(s, l, m, e) /\ (s[m] = DOT => m + 1 < e)
      /\ s[e] \in EXPONENT
  BY DEF ExponentAt
<1>2. ~At(s, m, DIGITS)
  <2>1. s[m] = DOT \/ s[m] \in EXPONENT BY <1>1 DEF FractionRead
  <2>2. DOT \notin DIGITS /\ \A b \in EXPONENT : b \notin DIGITS BY DEF DOT, EXPONENT, DIGITS
  <2> QED BY <2>1, <2>2 DEF At
<1>3. ii = f /\ mm = m BY <1>0, <1>1, <1>2, IntMarks
<1>4. ~At(s, e, DIGITS) /\ At(s, e, EXPONENT)
  <2>1. \A b \in EXPONENT : b \notin DIGITS BY DEF EXPONENT, DIGITS
  <2>2. e <= Len(s) BY <1>0
  <2> QED BY <1>1, <2>1, <2>2 DEF At
<1>5. ee = e BY <1>0, <1>1, <1>3, <1>4, FracMarks
<1>6. ~(m = f) /\ ~(m > f + 1 /\ s[f] = 48)
  <2>1. f < m /\ (s[f] = 48 => m = f + 1) BY <1>1 DEF IntegerRead
  <2> QED BY <2>1
<1>7. ~(At(s, m, {DOT}) /\ e = m + 1) BY <1>1 DEF At
<1>8. PieceAt(s, i, "OUTSIDE") = NumberAt(s, i)
  <2>1. s[i] \in DIGITS \cup {MINUS} BY <1>1 DEF IntegerRead
  <2> QED BY <2>1, NumberPiece
<1> QED BY <1>3, <1>4, <1>5, <1>6, <1>7, <1>8

(* Neither a sign nor a digit after the 'e'.                               *)
LEMMA ExpSignEnds ==
  ASSUME NEW s \in Text, NEW i \in 1..Len(s), NEW l, NEW f \in 1..Len(s), NEW m \in 1..Len(s),
         NEW e \in 1..Len(s), ExponentAt(s, l, i, f, m, e),
         ~At(s, e + 1, DIGITS), ~At(s, e + 1, {PLUS, MINUS})
  PROVE  PieceAt(s, i, "OUTSIDE") = LastPiece(s, IF e + 1 > Len(s) THEN <<>> ELSE <<Malformed>>)
<1>0. Len(s) \in Nat BY TextLemma
<1>1. PICK p : p = e + 1 OBVIOUS
<1>2. PICK ii, mm, ee, d, z :
        /\ Number(s, i) = [i |-> ii, m |-> mm, e |-> ee, d |-> d, z |-> z]
        /\ Marks(s, i, ii, mm, ee, d, z)
  BY NumberIs
<1>3. /\ ii = f /\ mm = m /\ ee = e /\ At(s, e, EXPONENT)
      /\ ~(m = f) /\ ~(m > f + 1 /\ s[f] = 48) /\ ~(At(s, m, {DOT}) /\ e = m + 1)
      /\ PieceAt(s, i, "OUTSIDE") = NumberAt(s, i)
  BY <1>2, ExponentMarks
<1>4. d = p /\ z = Span(s, p, DIGITS) BY <1>1, <1>2, <1>3 DEF Marks
<1>5. z = p
  <2>1. p \in 1..(Len(s) + 1) /\ p \in p..(Len(s) + 1) /\ ~At(s, p, DIGITS) BY <1>0, <1>1
  <2>2. \A k \in p..(p - 1) : At(s, k, DIGITS) BY <2>1
  <2> QED BY <1>4, <2>1, <2>2, SpanIs
<1>6. PowerBy(s, e, d, z) = 0
  <2>1. ~At(s, e + 1, {MINUS}) BY DEF At
  <2>2. p \in 1..(Len(s) + 1) BY <1>0, <1>1
  <2>3. Decimal(s, p, p) = 0 BY <2>2, DecimalSteps
  <2> QED BY <1>4, <1>5, <2>1, <2>3 DEF PowerBy
<1>7. CASE p > Len(s)
  <2>1. ~(d <= Len(s)) /\ 0 \in Limits BY <1>0, <1>1, <1>4, <1>7 DEF Limits
  <2>2. ~BrokenBy(s, ii, mm, ee, d, z) BY <1>3, <1>6, <2>1, Zenon DEF BrokenBy
  <2>3. NumberAt(s, i) = LastPiece(s, <<>>) BY <1>2, <1>5, <1>7, <2>2, NumberAtIs
  <2> QED BY <1>1, <1>3, <1>7, <2>3
<1>8. CASE ~(p > Len(s))
  <2>1. d <= Len(s) BY <1>0, <1>1, <1>4, <1>8
  <2>2. BrokenBy(s, ii, mm, ee, d, z) BY <1>3, <1>4, <1>5, <2>1, Zenon DEF BrokenBy
  <2>3. NumberAt(s, i) = LastPiece(s, <<Malformed>>) BY <1>2, <2>2, NumberAtIs
  <2> QED BY <1>1, <1>3, <1>8, <2>3
<1> QED BY <1>7, <1>8

GoodExponent(l) == /\ l.minus \in BOOLEAN /\ l.exp_minus \in BOOLEAN
                   /\ l.exp_value \in Nat /\ l.exp_value <= ExponentLimit(l)

LEMMA PositiveLimit == ASSUME NEW v \in Nat PROVE v \in Limits <=> v <= 308
  BY DEF Limits

LEMMA NegativeLimit == ASSUME NEW v \in Nat PROVE 0 - v \in Limits <=> v <= 323
  BY DEF Limits

(* The exponent ends where no digit follows; that it has none is an error. *)
LEMMA ExpEnds ==
  ASSUME NEW s \in Text, NEW i \in 1..Len(s), NEW l, NEW f \in 1..Len(s), NEW m \in 1..Len(s),
         NEW e \in 1..Len(s), ExponentAt(s, l, i, f, m, e), GoodExponent(l),
         NEW dd, NEW p \in 1..(Len(s) + 1), ExponentRead(s, l, e, dd, p), ~At(s, p, DIGITS)
  PROVE  /\ p > Len(s) => PieceAt(s, i, "OUTSIDE") = LastPiece(s, <<>>)
         /\ ~(p > Len(s)) /\ ~l.exp_not_empty =>
              PieceAt(s, i, "OUTSIDE") = LastPiece(s, <<Malformed>>)
         /\ ~(p > Len(s)) /\ l.exp_not_empty =>
              PieceAt(s, i, "OUTSIDE") = Piece(<<TokenF(l)>>, p, "OUTSIDE")
<1>0. Len(s) \in Nat BY TextLemma
<1>2. PICK ii, mm, ee, d, z :
        /\ Number(s, i) = [i |-> ii, m |-> mm, e |-> ee, d |-> d, z |-> z]
        /\ Marks(s, i, ii, mm, ee, d, z)
  BY NumberIs
<1>3. /\ ii = f /\ mm = m /\ ee = e /\ At(s, e, EXPONENT)
      /\ ~(m = f) /\ ~(m > f + 1 /\ s[f] = 48) /\ ~(At(s, m, {DOT}) /\ e = m + 1)
      /\ PieceAt(s, i, "OUTSIDE") = NumberAt(s, i)
  BY <1>2, ExponentMarks
<1>4. d = dd /\ d \in 1..p /\ z = p BY <1>2, <1>3, ExpMarks
<1>5. PowerBy(s, e, d, p) = IF l.exp_minus THEN 0 - l.exp_value ELSE l.exp_value
  <2>1. e + 1 <= Len(s) BY <1>0 DEF ExponentRead
  <2>2. (l.exp_minus <=> At(s, e + 1, {MINUS})) /\ l.exp_value = Decimal(s, d, p)
    BY <1>4, <2>1 DEF ExponentRead, At
  <2> QED BY <2>2 DEF PowerBy
<1>6. PowerBy(s, e, d, p) \in Limits
  <2>1. /\ l.exp_value \in Nat
        /\ IF l.exp_minus THEN l.exp_value <= 323 ELSE l.exp_value <= 308
    BY DEF GoodExponent, ExponentLimit
  <2>2. PICK v, w : v = l.exp_value /\ w = PowerBy(s, e, d, p) OBVIOUS
  <2>3. v \in Nat /\ ((w = v /\ v <= 308) \/ (w = 0 - v /\ v <= 323)) BY <1>5, <2>1, <2>2
  <2>4. (v <= 308 => v \in Limits) /\ (v <= 323 => 0 - v \in Limits)
    <3>1. v \in Nat BY <2>3
    <3> QED BY <3>1, PositiveLimit, NegativeLimit
  <2>5. w \in Limits BY <2>3, <2>4, Zenon
  <2> QED BY <2>2, <2>5
<1>7. (d = p <=> ~l.exp_not_empty) BY <1>4 DEF ExponentRead
<1>8. CASE ~(p > Len(s)) /\ ~l.exp_not_empty
  <2>1. d <= Len(s) /\ p = d BY <1>0, <1>7, <1>8
  <2>2. BrokenBy(s, ii, mm, ee, d, z) BY <1>3, <1>4, <2>1, Zenon DEF BrokenBy
  <2>3. NumberAt(s, i) = LastPiece(s, <<Malformed>>) BY <1>2, <2>2, NumberAtIs
  <2> QED BY <1>3, <1>8, <2>3
<1>9. CASE p > Len(s) \/ l.exp_not_empty
  <2>1. ~(p = d /\ d <= Len(s)) BY <1>0, <1>7, <1>9
  <2>2. ~BrokenBy(s, ii, mm, ee, d, z) BY <1>3, <1>4, <1>6, <2>1, Zenon DEF BrokenBy
  <2>3. NumberAt(s, i) = IF p > Len(s) THEN LastPiece(s, <<>>)
                         ELSE Piece(<<FloatTokenBy(s, i, f, m, e, d, p)>>, p, "OUTSIDE")
    BY <1>2, <1>3, <1>4, <2>2, NumberAtIs
  <2>4. FloatTokenBy(s, i, f, m, e, d, p) = TokenF(l)
    BY <1>3, <1>5, TokenFIs DEF GoodExponent, ExponentAt
  <2> QED BY <1>3, <1>9, <2>3, <2>4
<1> QED BY <1>8, <1>9

(* The digits so far and the next one are beyond the limit, and so are all.*)
LEMMA ExpOverflows ==
  ASSUME NEW s \in Text, NEW i \in 1..Len(s), NEW l, NEW f \in 1..Len(s), NEW m \in 1..Len(s),
         NEW e \in 1..Len(s), ExponentAt(s, l, i, f, m, e), GoodExponent(l),
         NEW dd, NEW p \in 1..Len(s), ExponentRead(s, l, e, dd, p), s[p] \in DIGITS,
         10 * l.exp_value + Digit(s[p]) > ExponentLimit(l)
  PROVE  PieceAt(s, i, "OUTSIDE") = LastPiece(s, <<Malformed>>)
<1>0. Len(s) \in Nat BY TextLemma
<1>2. PICK ii, mm, ee, d, z :
        /\ Number(s, i) = [i |-> ii, m |-> mm, e |-> ee, d |-> d, z |-> z]
        /\ Marks(s, i, ii, mm, ee, d, z)
  BY NumberIs
<1>3. /\ ii = f /\ mm = m /\ ee = e /\ At(s, e, EXPONENT)
      /\ PieceAt(s, i, "OUTSIDE") = NumberAt(s, i)
  BY <1>2, ExponentMarks
<1>4. d = dd /\ d \in 1..p /\ z \in p..(Len(s) + 1) BY <1>0, <1>2, <1>3, ExpMarks
<1>5. z = Span(s, d, DIGITS) /\ d \in 1..(Len(s) + 1) BY <1>0, <1>2, <1>3, <1>4 DEF Marks
<1>6. z > p
  <2>1. ~At(s, z, DIGITS) BY <1>5, SpanLemma
  <2>2. z # p BY <1>0, <2>1 DEF At
  <2> QED BY <1>0, <1>4, <2>2
<1>7. Decimal(s, d, p + 1) = 10 * l.exp_value + Digit(s[p])
  <2>1. p \in d..Len(s) BY <1>0, <1>4
  <2>2. l.exp_value = Decimal(s, d, p) BY <1>4 DEF ExponentRead
  <2> QED BY <1>5, <2>1, <2>2, DecimalSteps
<1>8. Decimal(s, d, p + 1) \in Nat /\ Decimal(s, d, z) \in Nat
      /\ Decimal(s, d, p + 1) <= Decimal(s, d, z)
  <2>1. \A k \in d..(z - 1) : At(s, k, DIGITS) BY <1>5, SpanLemma
  <2>2. AllIn(s, d, z, DIGITS) BY <2>1 DEF AllIn, At
  <2>3. z \in d..(Len(s) + 1) /\ p + 1 \in d..z /\ z \in d..z BY <1>0, <1>4, <1>6
  <2> QED BY <1>5, <2>2, <2>3, DecimalGrows
<1>9. PowerBy(s, e, d, z) \notin Limits
  <2>1. e + 1 <= Len(s) BY <1>0 DEF ExponentRead
  <2>2. l.exp_minus <=> At(s, e + 1, {MINUS}) BY <2>1 DEF ExponentRead, At
  <2>3. Decimal(s, d, z) > ExponentLimit(l)
    <3>1. ExponentLimit(l) \in Nat BY DEF ExponentLimit
    <3>2. Decimal(s, d, p + 1) > ExponentLimit(l) BY <1>7
    <3> QED BY <1>8, <3>1, <3>2
  <2>4. CASE l.exp_minus
    <3>1. PowerBy(s, e, d, z) = 0 - Decimal(s, d, z) /\ ExponentLimit(l) = 323
      BY <2>2, <2>4 DEF PowerBy, ExponentLimit
    <3>2. PICK v : v = Decimal(s, d, z) OBVIOUS
    <3>3. v \in Nat /\ v > 323 BY <1>8, <2>3, <3>1, <3>2
    <3>4. ~(v <= 323) BY <3>3
    <3>5. ~(0 - v \in Limits) BY <3>3, <3>4, NegativeLimit
    <3> QED BY <3>1, <3>2, <3>5
  <2>5. CASE ~l.exp_minus
    <3>1. PowerBy(s, e, d, z) = Decimal(s, d, z) /\ ExponentLimit(l) = 308
      BY <2>2, <2>5 DEF PowerBy, ExponentLimit
    <3>2. PICK v : v = Decimal(s, d, z) OBVIOUS
    <3>3. v \in Nat /\ v > 308 BY <1>8, <2>3, <3>1, <3>2
    <3>4. ~(v <= 308) BY <3>3
    <3>5. ~(v \in Limits) BY <3>3, <3>4, PositiveLimit
    <3> QED BY <3>1, <3>2, <3>5
  <2> QED BY <2>4, <2>5
<1>10. BrokenBy(s, ii, mm, ee, d, z) BY <1>3, <1>9 DEF BrokenBy
<1>11. NumberAt(s, i) = LastPiece(s, <<Malformed>>) BY <1>2, <1>10, NumberAtIs
<1> QED BY <1>3, <1>11

(***************************************************************************)
(* What it knows of a keyword and of \uXXXX                                *)
(***************************************************************************)
KeywordRead(s, l, i, p) ==
  /\ i + l.offset = p /\ s[i] \in DOMAIN KeywordOf /\ KeywordOf[s[i]] = l.state
  /\ \A k \in 1..l.offset : s[i + k - 1] = Keyword[l.state][k]

LEMMA KeywordEnds ==
  ASSUME NEW s \in Text, NEW i \in 1..Len(s), NEW l, NEW p \in 1..(Len(s) + 1),
         KeywordRead(s, l, i, p), l.offset \in 1..(Len(Keyword[l.state]) - 1)
  PROVE  /\ p > Len(s) => PieceAt(s, i, "OUTSIDE") = LastPiece(s, <<>>)
         /\ ~(p > Len(s)) /\ s[p] # Keyword[l.state][l.offset + 1] =>
              PieceAt(s, i, "OUTSIDE") = LastPiece(s, <<Malformed>>)
         /\ ~(p > Len(s)) /\ s[p] = Keyword[l.state][l.offset + 1]
              /\ l.offset + 1 = Len(Keyword[l.state]) =>
              PieceAt(s, i, "OUTSIDE") = Piece(<<Token(KeywordToken[l.state])>>, p + 1, "OUTSIDE")
<1>0. Len(s) \in Nat /\ s[i] \in Byte \cup {EOF} BY TextLemma
<1>1. PICK word, o : word = Keyword[l.state] /\ o = l.offset OBVIOUS
<1>2. /\ i + o = p /\ s[i] \in DOMAIN KeywordOf /\ KeywordOf[s[i]] = l.state
      /\ \A k \in 1..o : s[i + k - 1] = word[k]
  BY <1>1 DEF KeywordRead
<1>3. Len(word) \in {4, 5} /\ o \in 1..(Len(word) - 1) BY <1>1, <1>2, KeywordLength
<1>4. PICK wrong : wrong = \E k \in 1..Len(word) : i + k - 1 <= Len(s) /\ s[i + k - 1] # word[k]
  OBVIOUS
<1>5. PieceAt(s, i, "OUTSIDE") =
        IF wrong THEN LastPiece(s, <<Malformed>>)
        ELSE IF i + Len(word) - 1 > Len(s) THEN LastPiece(s, <<>>)
        ELSE Piece(<<Token(KeywordToken[l.state])>>, i + Len(word), "OUTSIDE")
  <2>1. PieceAt(s, i, "OUTSIDE") = KeywordAt(s, i) BY <1>0, <1>2, OutsidePieces
  <2>2. KeywordAt(s, i) =
          IF wrong THEN LastPiece(s, <<Malformed>>)
          ELSE IF i + Len(word) - 1 > Len(s) THEN LastPiece(s, <<>>)
          ELSE Piece(<<Token(KeywordToken[l.state])>>, i + Len(word), "OUTSIDE")
    BY <1>1, <1>2, <1>4 DEF KeywordAt
  <2> QED BY <2>1, <2>2
<1>6. PICK n \in {4, 5} : n = Len(word) BY <1>3
<1>7. CASE p > Len(s)
  <2>1. \A k \in 1..n : i + k - 1 <= Len(s) => k \in 1..o BY <1>0, <1>2, <1>3, <1>6, <1>7
  <2>2. ~wrong BY <1>2, <1>4, <1>6, <2>1
  <2>3. i + n - 1 > Len(s) BY <1>0, <1>2, <1>3, <1>6, <1>7
  <2> QED BY <1>5, <1>6, <1>7, <2>2, <2>3
<1>8. CASE ~(p > Len(s)) /\ s[p] # word[o + 1]
  <2>0. o \in Nat /\ o + 1 <= n BY <1>2, <1>3, <1>6
  <2>1. o + 1 \in 1..n /\ i + (o + 1) - 1 = p /\ p <= Len(s) BY <1>0, <1>2, <1>8, <2>0
  <2>2. wrong BY <1>4, <1>6, <1>8, <2>1
  <2> QED BY <1>1, <1>5, <1>8, <2>2
<1>9. CASE ~(p > Len(s)) /\ s[p] = word[o + 1] /\ o + 1 = Len(word)
  <2>1. \A k \in 1..n : k \in 1..o \/ (k = o + 1 /\ i + k - 1 = p) BY <1>2, <1>3, <1>6, <1>9
  <2>2. ~wrong BY <1>2, <1>4, <1>6, <1>9, <2>1
  <2>3. i + n = p + 1 /\ ~(i + n - 1 > Len(s))
    <3>1. n = o + 1 /\ o \in Int /\ i + o = p BY <1>2, <1>3, <1>6, <1>9
    <3> HIDE <1>6
    <3> QED BY <1>0, <1>9, <3>1
  <2> QED BY <1>1, <1>5, <1>6, <1>9, <2>2, <2>3
<1> QED BY <1>1, <1>7, <1>8, <1>9

UnicodeRead(s, l, i, p) ==
  /\ i + 2 + l.offset = p /\ s[i] = BACKSLASH /\ s[i + 1] = 117
  /\ AllIn(s, i + 2, p, HexDigits)
  /\ l.offset = 1 => l.unicode_cp[1] = 16 * HexValue(s[i + 2])
  /\ l.offset > 1 => l.unicode_cp[1] = Hex(s, i + 2)
  /\ l.offset = 3 => l.unicode_cp[2] = 16 * HexValue(s[i + 4])

LEMMA UnicodeEnds ==
  ASSUME NEW s \in Text, NEW i \in 1..Len(s), NEW l, NEW p \in 1..(Len(s) + 1),
         UnicodeRead(s, l, i, p), l.offset \in 0..3
  PROVE  /\ p > Len(s) => PieceAt(s, i, "INSIDE") = LastPiece(s, <<>>)
         /\ ~(p > Len(s)) /\ s[p] \notin HexDigits =>
              PieceAt(s, i, "INSIDE") = LastPiece(s, <<Malformed>>)
         /\ ~(p > Len(s)) /\ s[p] \in HexDigits /\ l.offset = 3 =>
              PieceAt(s, i, "INSIDE") =
                Piece(<<TokenC(<<Hex(s, i + 2)>>), TokenC(<<Hex(s, i + 4)>>)>>, p + 1, "INSIDE")
<1>0. Len(s) \in Nat /\ s[i] \in Byte \cup {EOF} BY TextLemma
<1>1. PICK o \in 0..3 : o = l.offset OBVIOUS
<1>2. i + 2 + o = p /\ s[i] = BACKSLASH /\ s[i + 1] = 117 /\ AllIn(s, i + 2, p, HexDigits)
  BY <1>1 DEF UnicodeRead
<1>3. PICK wrong : wrong = \E k \in 2..5 : i + k <= Len(s) /\ s[i + k] \notin HexDigits OBVIOUS
<1>4. PICK a, b : a = TokenC(<<Hex(s, i + 2)>>) /\ b = TokenC(<<Hex(s, i + 4)>>) OBVIOUS
<1>5. PieceAt(s, i, "INSIDE") = IF wrong THEN LastPiece(s, <<Malformed>>)
                                ELSE IF i + 5 > Len(s) THEN LastPiece(s, <<>>)
                                ELSE Piece(<<a, b>>, i + 6, "INSIDE")
  <2>1. i # Len(s) /\ i + 1 <= Len(s) BY <1>0, <1>2
  <2>2. EscapeAt(s, i) = UnicodeAt(s, i) BY <1>2, <2>1, ByteSets DEF EscapeAt, At
  <2>3. PieceAt(s, i, "INSIDE") = EscapeAt(s, i) BY <1>0, <1>2, InsidePieces
  <2>4. UnicodeAt(s, i) = IF wrong THEN LastPiece(s, <<Malformed>>)
                          ELSE IF i + 5 > Len(s) THEN LastPiece(s, <<>>)
                          ELSE Piece(<<a, b>>, i + 6, "INSIDE")
    BY <1>3, <1>4 DEF UnicodeAt
  <2> QED BY <2>2, <2>3, <2>4
<1>6. \A k \in 2..(o + 1) : s[i + k] \in HexDigits
  <2>1. \A k \in 2..(o + 1) : i + k \in (i + 2)..(p - 1) BY <1>0, <1>2
  <2> QED BY <1>2, <2>1 DEF AllIn
<1>7. CASE p > Len(s)
  <2>1. \A k \in 2..5 : i + k <= Len(s) => k \in 2..(o + 1) BY <1>0, <1>2, <1>7
  <2>2. ~wrong BY <1>3, <1>6, <2>1
  <2>3. i + 5 > Len(s) BY <1>0, <1>2, <1>7
  <2> QED BY <1>5, <1>7, <2>2, <2>3
<1>8. CASE ~(p > Len(s)) /\ s[p] \notin HexDigits
  <2>1. o + 2 \in 2..5 /\ i + (o + 2) = p /\ p <= Len(s) BY <1>0, <1>2, <1>8
  <2>2. wrong BY <1>3, <1>8, <2>1
  <2> QED BY <1>5, <1>8, <2>2
<1>9. CASE ~(p > Len(s)) /\ s[p] \in HexDigits /\ o = 3
  <2>1. \A k \in 2..5 : k \in 2..(o + 1) \/ i + k = p BY <1>0, <1>2, <1>9
  <2>2. ~wrong BY <1>3, <1>6, <1>9, <2>1
  <2>3. i + 6 = p + 1 /\ ~(i + 5 > Len(s)) BY <1>0, <1>2, <1>9
  <2> QED BY <1>4, <1>5, <1>9, <2>2, <2>3
<1> QED BY <1>1, <1>7, <1>8, <1>9

(***************************************************************************)
(* What the parser is told of the calls of a step                          *)
(***************************************************************************)
LEMMA BytewiseText ==
  ASSUME NEW c \in Seq(Byte)
  PROVE  /\ Bytewise(TokenC(c)) = [k \in 1..Len(c) |-> TokenC(<<c[k]>>)]
         /\ Bytewise(TokenC(c)) \in Seq(Items)
<1>1. PICK t : t = TokenC(c) OBVIOUS
<1>2. t.call = "tokenc" /\ t.bytes = c BY <1>1 DEF TokenC
<1>3. Bytewise(t) = [k \in 1..Len(c) |-> [t EXCEPT !.bytes = <<c[k]>>]]
  BY <1>2 DEF Bytewise
<1>4. ASSUME NEW k PROVE [t EXCEPT !.bytes = <<c[k]>>] = TokenC(<<c[k]>>) BY <1>1 DEF TokenC
<1>5. [k \in 1..Len(c) |-> [t EXCEPT !.bytes = <<c[k]>>]] = [k \in 1..Len(c) |-> TokenC(<<c[k]>>)]
  BY <1>4, Zenon
<1>6. \A k \in 1..Len(c) : TokenC(<<c[k]>>) \in Items
  BY DEF TokenC, Items, Calls, PlainCalls
<1>7. [k \in 1..Len(c) |-> TokenC(<<c[k]>>)] \in Seq(Items)
  <2>1. Len(c) \in Nat OBVIOUS
  <2> QED BY <1>6, <2>1
<1> QED BY <1>1, <1>3, <1>5, <1>7

LEMMA BytewiseParts ==
  /\ Bytewise(TokenC(<<>>)) = <<>>
  /\ \A a \in Byte : Bytewise(TokenC(<<a>>)) = <<TokenC(<<a>>)>>
  /\ \A a \in Byte, b \in Byte : Bytewise(TokenC(<<a, b>>)) = <<TokenC(<<a>>), TokenC(<<b>>)>>
<1>1. Bytewise(TokenC(<<>>)) = <<>>
  <2>1. PICK c : c = <<>> OBVIOUS
  <2>2. c \in Seq(Byte) /\ Len(c) = 0 BY <2>1
  <2>3. PICK t : t = Bytewise(TokenC(c)) OBVIOUS
  <2>4. t = [k \in 1..Len(c) |-> TokenC(<<c[k]>>)] /\ t \in Seq(Items)
    BY <2>2, <2>3, BytewiseText
  <2>5. Len(t) = 0 BY <2>2, <2>4
  <2>6. t = <<>> BY <2>4, <2>5
  <2> QED BY <2>1, <2>3, <2>6
<1>2. ASSUME NEW a \in Byte PROVE Bytewise(TokenC(<<a>>)) = <<TokenC(<<a>>)>>
  <2>1. PICK c : c = <<a>> OBVIOUS
  <2>2. c \in Seq(Byte) /\ Len(c) = 1 /\ c[1] = a BY <2>1
  <2>3. PICK t : t = Bytewise(TokenC(c)) OBVIOUS
  <2>4. t = [k \in 1..Len(c) |-> TokenC(<<c[k]>>)] /\ t \in Seq(Items)
    BY <2>2, <2>3, BytewiseText
  <2>5. Len(t) = 1 /\ t[1] = TokenC(<<a>>) BY <2>2, <2>4
  <2>6. t = <<t[1]>> BY <2>4, <2>5
  <2> QED BY <2>1, <2>3, <2>5, <2>6
<1>3. ASSUME NEW a \in Byte, NEW b \in Byte
      PROVE  Bytewise(TokenC(<<a, b>>)) = <<TokenC(<<a>>), TokenC(<<b>>)>>
  <2>1. PICK c : c = <<a, b>> OBVIOUS
  <2>2. c \in Seq(Byte) /\ Len(c) = 2 /\ c[1] = a /\ c[2] = b BY <2>1
  <2>3. PICK t : t = Bytewise(TokenC(c)) OBVIOUS
  <2>4. t = [k \in 1..Len(c) |-> TokenC(<<c[k]>>)] /\ t \in Seq(Items)
    BY <2>2, <2>3, BytewiseText
  <2>5. Len(t) = 2 /\ t[1] = TokenC(<<a>>) /\ t[2] = TokenC(<<b>>) BY <2>2, <2>4
  <2>6. t = <<t[1], t[2]>> BY <2>4, <2>5
  <2> QED BY <2>1, <2>3, <2>5, <2>6
<1> QED BY <1>1, <1>2, <1>3

LEMMA OneMore ==
  ASSUME NEW S, NEW t \in Seq(S), NEW x \in S
  PROVE  /\ t \o <<x>> \in Seq(S) /\ Len(t \o <<x>>) = Len(t) + 1
         /\ \A k \in 1..Len(t) : (t \o <<x>>)[k] = t[k]
         /\ (t \o <<x>>)[Len(t) + 1] = x
  OBVIOUS

LEMMA BytewiseAppend ==
  ASSUME NEW c \in Seq(Byte), NEW b \in Byte
  PROVE  Bytewise(TokenC(Append(c, b))) = Bytewise(TokenC(c)) \o <<TokenC(<<b>>)>>
<1>1. PICK d : d = Append(c, b) OBVIOUS
<1>2. /\ d \in Seq(Byte) /\ Len(d) = Len(c) + 1 /\ d[Len(c) + 1] = b
      /\ \A k \in 1..Len(c) : d[k] = c[k]
  BY <1>1
<1>3. PICK t, u, v : t = Bytewise(TokenC(c)) /\ u = Bytewise(TokenC(d)) /\ v = <<TokenC(<<b>>)>>
  OBVIOUS
<1>4. /\ t = [k \in 1..Len(c) |-> TokenC(<<c[k]>>)] /\ t \in Seq(Items)
      /\ u = [k \in 1..Len(d) |-> TokenC(<<d[k]>>)] /\ u \in Seq(Items)
  BY <1>2, <1>3, BytewiseText
<1>5. TokenC(<<b>>) \in Items BY DEF TokenC, Items, Calls, PlainCalls
<1>6. /\ t \o v \in Seq(Items) /\ Len(t \o v) = Len(c) + 1
      /\ \A k \in 1..Len(c) : (t \o v)[k] = t[k]
      /\ (t \o v)[Len(c) + 1] = TokenC(<<b>>)
  <2>1. Len(t) = Len(c) BY <1>4
  <2> QED BY <1>3, <1>4, <1>5, <2>1, OneMore
<1>7. ASSUME NEW k \in 1..(Len(c) + 1) PROVE u[k] = (t \o v)[k]
  <2>1. CASE k <= Len(c)
    <3>1. k \in 1..Len(c) /\ k \in 1..Len(d) BY <1>2, <2>1
    <3>2. u[k] = TokenC(<<d[k]>>) /\ t[k] = TokenC(<<c[k]>>) /\ d[k] = c[k] BY <1>2, <1>4, <3>1
    <3> QED BY <1>6, <2>1, <3>2
  <2>2. CASE ~(k <= Len(c))
    <3>1. k = Len(c) + 1 /\ k \in 1..Len(d) /\ k - Len(c) = 1 BY <1>2, <2>2
    <3>2. u[k] = TokenC(<<d[k]>>) /\ d[k] = b BY <1>2, <1>4, <3>1
    <3> QED BY <1>6, <3>1, <3>2
  <2> QED BY <2>1, <2>2
<1>8. Len(u) = Len(c) + 1 BY <1>2, <1>4
<1>9. u = t \o v
  <2>1. \A k \in 1..Len(u) : u[k] = (t \o v)[k] BY <1>7, <1>8
  <2> HIDE DEF Items
  <2> QED BY <1>4, <1>6, <1>8, <2>1, SeqEqual
<1> QED BY <1>1, <1>3, <1>9

LEMMA ToldOne ==
  /\ Told(<<>>) = <<>>
  /\ \A c : Told(<<c>>) = Bytewise(c)
  /\ \A c, e : Told(<<c, e>>) = Bytewise(c) \o Bytewise(e)
<1>1. Told(<<>>) = <<>> BY DEF Told
<1>2. ASSUME NEW c PROVE Told(<<c>>) = Bytewise(c)
  <2>1. PICK q : q = <<c>> OBVIOUS
  <2>2. Len(q) = 1 /\ q[1] = c BY <2>1
  <2>3. Told(q) = Bytewise(q[1]) BY <2>2 DEF Told
  <2> QED BY <2>1, <2>2, <2>3
<1>3. ASSUME NEW c, NEW e PROVE Told(<<c, e>>) = Bytewise(c) \o Bytewise(e)
  <2>1. PICK q : q = <<c, e>> OBVIOUS
  <2>2. Len(q) = 2 /\ q[1] = c /\ q[2] = e BY <2>1
  <2>3. Told(q) = Bytewise(q[1]) \o Bytewise(q[2]) BY <2>2 DEF Told
  <2> QED BY <2>1, <2>2, <2>3
<1> QED BY <1>1, <1>2, <1>3

LEMMA Pair ==
  ASSUME NEW c, NEW e PROVE <<c>> \o <<e>> = <<c, e>>
<1>1. PICK t, w : t = <<c>> /\ w = t \o <<e>> OBVIOUS
<1>2. t \in Seq({c, e}) /\ Len(t) = 1 /\ t[1] = c BY <1>1
<1>3. w \in Seq({c, e}) /\ Len(w) = 2 /\ w[1] = c /\ w[2] = e BY <1>1, <1>2, OneMore
<1>4. w = <<w[1], w[2]>> BY <1>3
<1> QED BY <1>1, <1>3, <1>4

(* Calls other than chunks are told as they are.                           *)
LEMMA ToldPlain ==
  ASSUME NEW c, c.call \notin {"tokenc", "tokenbn"}
  PROVE  Told(<<c>>) = <<c>> /\ Bytewise(c) = <<c>>
  BY ToldOne DEF Bytewise

LEMMA ToldText ==
  ASSUME chunk \in Seq(Byte)
  PROVE  /\ Told(Flush(TokenC(chunk))) = Bytewise(TokenC(chunk))
         /\ Told(Flush(TokenC(chunk)) \o <<TokenCEnd>>) = Bytewise(TokenC(chunk)) \o <<TokenCEnd>>
<1>1. TokenCEnd.call \notin {"tokenc", "tokenbn"} BY DEF TokenCEnd
<1>2. Told(<<TokenCEnd>>) = <<TokenCEnd>> /\ Bytewise(TokenCEnd) = <<TokenCEnd>>
  BY <1>1, ToldPlain
<1>3. CASE chunk = <<>>
  <2>1. Flush(TokenC(chunk)) = <<>> /\ Bytewise(TokenC(chunk)) = <<>>
    BY <1>3, BytewiseParts DEF Flush
  <2>2. <<>> \o <<TokenCEnd>> = <<TokenCEnd>> OBVIOUS
  <2> QED BY <1>2, <2>1, <2>2, ToldOne
<1>4. CASE chunk # <<>>
  <2>1. Flush(TokenC(chunk)) = <<TokenC(chunk)>> BY <1>4 DEF Flush
  <2>2. \A c, e : <<c>> \o <<e>> = <<c, e>> BY Pair
  <2>3. Flush(TokenC(chunk)) \o <<TokenCEnd>> = <<TokenC(chunk), TokenCEnd>> BY <2>1, <2>2
  <2> QED BY <1>2, <2>1, <2>3, ToldOne
<1> QED BY <1>3, <1>4

(***************************************************************************)
(* What the lexer knows of the lexeme that begins at i, the next byte being*)
(* that at p                                                               *)
(***************************************************************************)
SignRead(s, l, i, p) == i + 1 = p /\ s[i] = MINUS /\ l.minus

IntRead(s, l, i, p) == \E f \in 1..p : IntegerRead(s, l, i, f, p)

FracRead(s, l, i, p) ==
  \E f \in 1..p, m \in 1..p :
    IntegerRead(s, l, i, f, m) /\ s[m] = DOT /\ FractionRead(s, l, m, p)

ExpSignRead(s, l, i, p) ==
  \E f \in 1..p, m \in 1..p, e \in 1..p : ExponentAt(s, l, i, f, m, e) /\ e + 1 = p

ExpRead(s, l, i, p) ==
  \E f \in 1..p, m \in 1..p, e \in 1..p, d \in 1..p :
    ExponentAt(s, l, i, f, m, e) /\ ExponentRead(s, l, e, d, p)

Read(s, l, i, p) ==
  \/ l.state \in {"LOOKUP_TOKEN", "IN_STRING"} /\ i = p
  \/ l.state \in KeywordStates /\ KeywordRead(s, l, i, p)
  \/ l.state = "IN_STRING_ESCAPE" /\ i + 1 = p /\ s[i] = BACKSLASH
  \/ l.state = "IN_STRING_UNICODE_ESCAPE" /\ UnicodeRead(s, l, i, p)
  \/ l.state = "IN_NUMBER_SIGN" /\ SignRead(s, l, i, p)
  \/ l.state = "IN_NUMBER" /\ IntRead(s, l, i, p)
  \/ l.state = "IN_NUMBER_FRAC" /\ FracRead(s, l, i, p)
  \/ l.state = "IN_NUMBER_EXP_SIGN" /\ ExpSignRead(s, l, i, p)
  \/ l.state = "IN_NUMBER_EXP" /\ ExpRead(s, l, i, p)

PlaceOf(l) == IF l.state \in StringStates THEN "INSIDE" ELSE "OUTSIDE"

(* The parser has been told o, the tokens of s up to a lexeme that has been*)
(* read up to p.                                                           *)
Follows(s, l, p, o) == \E i \in 1..p : ToldUpTo(s, i, PlaceOf(l), o) /\ Read(s, l, i, p)

(* Equal fields, equal knowledge.                                          *)
Alike(l, n) ==
  /\ n.state = l.state /\ n.offset = l.offset /\ n.unicode_cp = l.unicode_cp
  /\ n.minus = l.minus /\ n.exp_minus = l.exp_minus /\ n.exp_not_empty = l.exp_not_empty
  /\ n.int_value = l.int_value /\ n.frac_value = l.frac_value /\ n.frac_power = l.frac_power
  /\ n.exp_value = l.exp_value

LEMMA IntegerKept ==
  ASSUME NEW l, NEW n, n.int_value = l.int_value, n.minus = l.minus,
         NEW s, NEW i, NEW f, NEW m, IntegerRead(s, l, i, f, m)
  PROVE  IntegerRead(s, n, i, f, m)
  BY Zenon DEF IntegerRead

LEMMA FractionKept ==
  ASSUME NEW l, NEW n, n.frac_power = l.frac_power, n.frac_value = l.frac_value,
         NEW s, NEW m, NEW e, FractionRead(s, l, m, e)
  PROVE  FractionRead(s, n, m, e)
  BY Zenon DEF FractionRead

LEMMA ExponentKept ==
  ASSUME NEW l, NEW n, n.int_value = l.int_value, n.minus = l.minus,
         n.frac_power = l.frac_power, n.frac_value = l.frac_value,
         NEW s, NEW i, NEW f, NEW m, NEW e, ExponentAt(s, l, i, f, m, e)
  PROVE  ExponentAt(s, n, i, f, m, e)
  BY IntegerKept, FractionKept, Zenon DEF ExponentAt

LEMMA ReadKept ==
  ASSUME NEW l, NEW n, Alike(l, n), NEW s, NEW i, NEW p, Read(s, l, i, p)
  PROVE  Read(s, n, i, p) /\ PlaceOf(n) = PlaceOf(l)
<1> USE DEF Alike
<1>1. KeywordRead(s, l, i, p) => KeywordRead(s, n, i, p) BY Zenon DEF KeywordRead
<1>2. UnicodeRead(s, l, i, p) => UnicodeRead(s, n, i, p) BY Zenon DEF UnicodeRead
<1>3. SignRead(s, l, i, p) => SignRead(s, n, i, p) BY Zenon DEF SignRead
<1>4. IntRead(s, l, i, p) => IntRead(s, n, i, p) BY IntegerKept, Zenon DEF IntRead
<1>5. FracRead(s, l, i, p) => FracRead(s, n, i, p)
  BY IntegerKept, FractionKept, Zenon DEF FracRead
<1>6. ExpSignRead(s, l, i, p) => ExpSignRead(s, n, i, p)
  BY ExponentKept, Zenon DEF ExpSignRead
<1>7. \A e, d : ExponentRead(s, l, e, d, p) => ExponentRead(s, n, e, d, p)
  BY Zenon DEF ExponentRead
<1>8. ExpRead(s, l, i, p) => ExpRead(s, n, i, p) BY <1>7, ExponentKept, ZenonT(60) DEF ExpRead
<1>9. n.state = l.state OBVIOUS
<1>10. PlaceOf(n) = PlaceOf(l) BY <1>9, Zenon DEF PlaceOf
<1>11. Read(s, n, i, p)
  BY <1>1, <1>2, <1>3, <1>4, <1>5, <1>6, <1>8, <1>9, Zenon DEF Read
<1> QED BY <1>10, <1>11

LEMMA SniffReads ==
  ASSUME NEW l \in LexerType, NEW b, NEW s, NEW p, NEW o, Follows(s, l, p, o)
  PROVE  Follows(s, Sniff(l, b), p, o)
<1>1. Alike(l, Sniff(l, b)) BY DEF Alike, Sniff, LexerType
<1> QED BY <1>1, ReadKept, Zenon DEF Follows

(***************************************************************************)
(* One iteration, on the byte at p of a text                               *)
(***************************************************************************)
(* The text read since the last call belongs to what the parser will have  *)
(* been told.                                                              *)
PendingOf(l, c) == IF l.state = "IN_STRING" THEN Bytewise(TokenC(c)) ELSE <<>>

Reading(s, l, p, b) ==
  /\ s \in Text /\ p \in 1..Len(s) /\ s[p] = b /\ b \in Byte
  /\ Good(l) /\ GoodChunk(l.state, chunk)
  /\ out \in Seq(Items) /\ Record
  /\ Follows(s, l, p, out \o PendingOf(l, chunk))

(* The lexer goes on, or has told all tokens of the text.                  *)
Outcome(s, p) ==
  \/ ~Unlimited'
  \/ /\ err' = "OK"
     /\ Follows(s, lex', IF again' THEN p ELSE p + 1, out' \o PendingOf(lex', chunk'))
  \/ err' # "OK" /\ Reference(s) = out'

LEMMA ProceedOutcome ==
  ASSUME out \in Seq(Items), Record, NEW seq, Told(seq) \in Seq(Items),
         NEW l, NEW c, NEW redo \in BOOLEAN, Proceed(seq, l, c, redo),
         NEW s, NEW p,
         Follows(s, l, IF redo THEN p ELSE p + 1, (out \o Told(seq)) \o PendingOf(l, c))
  PROVE  Outcome(s, p)
<1>1. err' = "OK" /\ calls' = seq BY DEF Record, Proceed, Make
<1>2. lex' = l /\ chunk' = c /\ again' = redo BY <1>1 DEF Proceed
<1>3. out' = (out \o Told(seq)) \o <<>> BY <1>1 DEF Record
<1>4. out \o Told(seq) \in Seq(Items) BY ConcatProperties
<1>5. out' = out \o Told(seq) BY <1>3, <1>4, ConcatEmptySeq
<1>6. Follows(s, lex', IF again' THEN p ELSE p + 1, out' \o PendingOf(lex', chunk'))
  BY <1>2, <1>5
<1> QED BY <1>1, <1>6 DEF Outcome

(* No call: the lexeme goes on.                                            *)
LEMMA QuietOutcome ==
  ASSUME out \in Seq(Items), Record, NEW l, NEW c, Proceed(<<>>, l, c, FALSE),
         l.state # "IN_STRING", NEW s, NEW p, Follows(s, l, p + 1, out)
  PROVE  Outcome(s, p)
<1>1. Told(<<>>) = <<>> /\ PendingOf(l, c) = <<>> BY ToldOne DEF PendingOf
<1>2. (out \o <<>>) \o <<>> = out /\ <<>> \in Seq(Items) BY ConcatEmptySeq
<1>3. Follows(s, l, IF FALSE THEN p ELSE p + 1, (out \o Told(<<>>)) \o PendingOf(l, c))
  BY <1>1, <1>2
<1> QED BY <1>1, <1>2, <1>3, ProceedOutcome

LEMMA ReadAnew ==
  ASSUME NEW s, NEW l, NEW o, NEW j \in Nat \ {0}, ToldUpTo(s, j, PlaceOf(l), o),
         l.state \in {"LOOKUP_TOKEN", "IN_STRING"}
  PROVE  Follows(s, l, j, o)
<1>1. j \in 1..j OBVIOUS
<1>2. Read(s, l, j, j) BY DEF Read
<1> QED BY <1>1, <1>2 DEF Follows

(* The call that completes the piece that began at i.                      *)
LEMMA CompleteOutcome ==
  ASSUME NEW s \in Text, NEW i \in 1..Len(s), NEW place \in Places, ToldUpTo(s, i, place, out),
         NEW call \in Calls, Bytewise(call) = <<call>>, NEW j \in Nat \ {0},
         PieceAt(s, i, place) = Piece(<<call>>, j, "OUTSIDE"),
         Record, NEW l, NEW c, NEW redo \in BOOLEAN, Proceed(<<call>>, l, c, redo),
         l.state = "LOOKUP_TOKEN", NEW p, j = IF redo THEN p ELSE p + 1
  PROVE  Outcome(s, p)
<1>1. out \in Seq(Items) BY DEF ToldUpTo
<1>2. <<call>> \in Seq(Items) /\ Told(<<call>>) = <<call>> BY ItemLemma, ToldOne
<1>3. PlaceOf(l) = "OUTSIDE" /\ PendingOf(l, c) = <<>> BY DEF PlaceOf, PendingOf, StringStates
<1>4. ToldUpTo(s, j, "OUTSIDE", out \o <<call>>) BY <1>2, Advance
<1>5. Follows(s, l, j, out \o <<call>>) BY <1>3, <1>4, ReadAnew
<1>6. (out \o <<call>>) \o <<>> = out \o <<call>>
  BY <1>1, <1>2, ConcatProperties, ConcatEmptySeq
<1> QED BY <1>1, <1>2, <1>3, <1>5, <1>6, ProceedOutcome

LEMMA FailOutcome ==
  ASSUME NEW s \in Text, NEW i \in 1..Len(s), NEW place \in Places, ToldUpTo(s, i, place, out),
         PieceAt(s, i, place) = LastPiece(s, <<Malformed>>),
         Record, NEW code, code # "OK", Fail(code), NEW p
  PROVE  Outcome(s, p)
<1>1. err' # "OK" /\ calls' = <<>> BY DEF Fail
<1>2. out' = (out \o <<>>) \o <<Malformed>> BY <1>1, ToldOne DEF Record
<1>3. out \o <<>> = out BY ConcatEmptySeq DEF ToldUpTo
<1>4. Reference(s) = out \o <<Malformed>> BY ItemLemma, Conclude
<1> QED BY <1>1, <1>2, <1>3, <1>4 DEF Outcome

LEMMA ReadingLemma ==
  ASSUME NEW s, NEW l, NEW p, NEW b, Reading(s, l, p, b), l.state # "IN_STRING"
  PROVE  \E i \in 1..p : ToldUpTo(s, i, PlaceOf(l), out) /\ Read(s, l, i, p)
<1>1. PendingOf(l, chunk) = <<>> BY DEF PendingOf
<1>2. out \o <<>> = out BY ConcatEmptySeq DEF Reading
<1> QED BY <1>1, <1>2 DEF Reading, Follows

LEMMA NotIn ==
  /\ \A b \in {PLUS} : b \notin OutsideBytes
  /\ \A b : b \notin WHITESPACE \cup DOMAIN Punctuation \cup DOMAIN KeywordOf \cup DIGITS
                    \cup {QUOTE, MINUS, PLUS} /\ b \in Byte => b \notin OutsideBytes
  BY ByteSets DEF OutsideBytes, PLUS, QUOTE, EOF, MINUS, WHITESPACE, DIGITS, Byte

(* A number of one digit.                                                  *)
LEMMA FirstDigitRead ==
  ASSUME NEW s \in Text, NEW i \in 1..Len(s), NEW p \in i..Len(s), p = FirstDigit(s, i),
         s[i] \in DIGITS \cup {MINUS}, s[p] \in DIGITS,
         NEW l, l.int_value = Digit(s[p]), l.minus <=> s[i] = MINUS
  PROVE  IntRead(s, l, i, p + 1)
<1>0. Len(s) \in Nat BY TextLemma
<1>1. p \in 1..(Len(s) + 1) /\ p \in p..Len(s) /\ p \in 1..(p + 1) BY <1>0
<1>2. Decimal(s, p, p + 1) = Digit(s[p])
  <2>1. Decimal(s, p, p) = 0 /\ Decimal(s, p, p + 1) = 10 * Decimal(s, p, p) + Digit(s[p])
    BY <1>1, DecimalSteps
  <2>2. Digit(s[p]) \in Nat BY DigitLemma
  <2> QED BY <2>1, <2>2
<1>3. AllIn(s, p, p + 1, DIGITS) BY <1>0 DEF AllIn
<1>4. Digit(s[p]) = 0 <=> s[p] = 48 BY DEF Digit, DIGITS
<1>5. p < p + 1 /\ (s[p] = 48 => p + 1 = p + 1) BY <1>0
<1>6. IntegerRead(s, l, i, p, p + 1) BY <1>2, <1>3, <1>4, <1>5, Zenon DEF IntegerRead
<1> QED BY <1>1, <1>6 DEF IntRead

LEMMA LookupTokenFollows ==
  ASSUME NEW s, NEW l, NEW p, NEW b, Reading(s, l, p, b), LookupToken(l, b)
  PROVE  Outcome(s, p)
<1>0. /\ s \in Text /\ p \in 1..Len(s) /\ s[p] = b /\ b \in Byte /\ b \in Byte \cup {EOF}
      /\ Good(l) /\ out \in Seq(Items) /\ Record /\ p + 1 \in Nat \ {0} /\ p \in 1..(p + 1)
      /\ l.state = "LOOKUP_TOKEN" /\ l \in LexerType
  BY DEF Reading, LookupToken, Good
<1>1. ToldUpTo(s, p, "OUTSIDE", out) /\ PlaceOf(l) = "OUTSIDE" /\ "OUTSIDE" \in Places
  <2>1. PICK i \in 1..p : ToldUpTo(s, i, PlaceOf(l), out) /\ Read(s, l, i, p)
    BY <1>0, ReadingLemma
  <2>2. i = p BY <1>0, <2>1 DEF Read, KeywordStates
  <2> QED BY <1>0, <2>1, <2>2 DEF PlaceOf, StringStates, Places
<1>2. CASE b \in WHITESPACE /\ Proceed(<<>>, l, chunk, FALSE)
  <2>1. PieceAt(s, p, "OUTSIDE") = Piece(<<>>, p + 1, "OUTSIDE") BY <1>0, <1>2, OutsidePieces
  <2>2. ToldUpTo(s, p + 1, "OUTSIDE", out \o <<>>) BY <1>0, <1>1, <2>1, ItemLemma, Advance
  <2>3. out \o <<>> = out BY <1>0, ConcatEmptySeq
  <2>4. Follows(s, l, p + 1, out) BY <1>0, <1>1, <2>2, <2>3, ReadAnew
  <2> QED BY <1>0, <1>2, <2>4, QuietOutcome
<1>3. CASE b \in DOMAIN Punctuation /\ Proceed(<<Token(Punctuation[b])>>, l, chunk, FALSE)
  <2>1. PICK call : call = Token(Punctuation[b]) OBVIOUS
  <2>2. PieceAt(s, p, "OUTSIDE") = Piece(<<call>>, p + 1, "OUTSIDE")
    BY <1>0, <1>3, <2>1, OutsidePieces
  <2>3. Punctuation[b] \in TokenNames BY <1>3 DEF Punctuation, TokenNames
  <2>4. call \in Calls /\ Bytewise(call) = <<call>>
    BY <2>1, <2>3 DEF Token, Calls, PlainCalls, Bytewise
  <2> QED BY <1>0, <1>1, <1>3, <2>1, <2>2, <2>4, CompleteOutcome
<1>4. CASE b = QUOTE /\ Proceed(<<TokenCBegin>>, [l EXCEPT !.state = "IN_STRING"], <<>>, FALSE)
  <2>1. PICK n : n = [l EXCEPT !.state = "IN_STRING"] OBVIOUS
  <2>2. n.state = "IN_STRING" BY <1>0, <2>1 DEF LexerType
  <2>3. PieceAt(s, p, "OUTSIDE") = Piece(<<TokenCBegin>>, p + 1, "INSIDE")
    BY <1>0, <1>4, OutsidePieces
  <2>4. TokenCBegin \in Calls /\ TokenCBegin.call \notin {"tokenc", "tokenbn"}
    BY DEF TokenCBegin, Calls, PlainCalls
  <2>5. Told(<<TokenCBegin>>) = <<TokenCBegin>> /\ <<TokenCBegin>> \in Seq(Items)
    BY <2>4, ItemLemma, ToldPlain
  <2>6. ToldUpTo(s, p + 1, "INSIDE", out \o <<TokenCBegin>>)
    BY <1>0, <1>1, <2>3, <2>5, Advance
  <2>7. PlaceOf(n) = "INSIDE" /\ PendingOf(n, <<>>) = <<>>
    BY <2>2, BytewiseParts DEF PlaceOf, StringStates, PendingOf
  <2>8. Follows(s, n, p + 1, out \o <<TokenCBegin>>) BY <1>0, <2>2, <2>6, <2>7, ReadAnew
  <2>9. (out \o <<TokenCBegin>>) \o <<>> = out \o <<TokenCBegin>>
    BY <1>0, <2>5, ConcatProperties, ConcatEmptySeq
  <2> QED BY <1>0, <1>4, <2>1, <2>5, <2>7, <2>8, <2>9, ProceedOutcome
<1>5. CASE b \in DOMAIN KeywordOf /\
           Proceed(<<>>, [l EXCEPT !.offset = 1, !.state = KeywordOf[b]], chunk, FALSE)
  <2>1. PICK n : n = [l EXCEPT !.offset = 1, !.state = KeywordOf[b]] OBVIOUS
  <2>2. n.offset = 1 /\ n.state = KeywordOf[b] BY <1>0, <2>1 DEF LexerType
  <2>3. KeywordOf[b] \in KeywordStates BY <1>5, KeywordLength
  <2>4. Keyword[KeywordOf[b]][1] = b BY <1>5 DEF KeywordOf, Keyword, KeywordStates
  <2>5. KeywordRead(s, n, p, p + 1)
    <3>1. \A k \in 1..1 : p + k - 1 = p /\ k = 1 BY <1>0
    <3>2. \A k \in 1..n.offset : s[p + k - 1] = Keyword[n.state][k]
      BY <1>0, <2>2, <2>4, <3>1
    <3> QED BY <1>0, <1>5, <2>2, <3>2 DEF KeywordRead
  <2>6. PlaceOf(n) = "OUTSIDE" /\ n.state # "IN_STRING"
    BY <2>2, <2>3 DEF PlaceOf, StringStates, KeywordStates
  <2>7. Read(s, n, p, p + 1) BY <2>2, <2>3, <2>5 DEF Read
  <2>8. Follows(s, n, p + 1, out) BY <1>0, <1>1, <2>6, <2>7 DEF Follows
  <2> QED BY <1>0, <1>5, <2>1, <2>6, <2>8, QuietOutcome
<1>6. CASE b = MINUS /\
           Proceed(<<>>, [l EXCEPT !.minus = TRUE, !.state = "IN_NUMBER_SIGN"], chunk, FALSE)
  <2>1. PICK n : n = [l EXCEPT !.minus = TRUE, !.state = "IN_NUMBER_SIGN"] OBVIOUS
  <2>2. n.minus = TRUE /\ n.state = "IN_NUMBER_SIGN" BY <1>0, <2>1 DEF LexerType
  <2>3. Read(s, n, p, p + 1) BY <1>0, <1>6, <2>2 DEF Read, SignRead
  <2>4. PlaceOf(n) = "OUTSIDE" BY <2>2 DEF PlaceOf, StringStates
  <2>5. Follows(s, n, p + 1, out) BY <1>0, <1>1, <2>3, <2>4 DEF Follows
  <2> QED BY <1>0, <1>6, <2>1, <2>2, <2>5, QuietOutcome
<1>7. CASE b \in DIGITS /\
           Proceed(<<>>, [l EXCEPT !.int_value = Digit(b), !.state = "IN_NUMBER"], chunk, FALSE)
  <2>1. PICK n : n = [l EXCEPT !.int_value = Digit(b), !.state = "IN_NUMBER"] OBVIOUS
  <2>2. n.int_value = Digit(b) /\ n.state = "IN_NUMBER" /\ n.minus = l.minus
    BY <1>0, <2>1 DEF LexerType
  <2>3. ~l.minus BY <1>0 DEF Good, Accumulators, NumberStates
  <2>4. p = FirstDigit(s, p) /\ s[p] # MINUS /\ p \in p..Len(s)
    BY <1>0, <1>7, SMTT(30) DEF FirstDigit, MINUS, DIGITS
  <2>5. IntRead(s, n, p, p + 1) BY <1>0, <1>7, <2>2, <2>3, <2>4, FirstDigitRead
  <2>6. Read(s, n, p, p + 1) BY <2>2, <2>5 DEF Read
  <2>7. PlaceOf(n) = "OUTSIDE" BY <2>2 DEF PlaceOf, StringStates
  <2>8. Follows(s, n, p + 1, out) BY <1>0, <1>1, <2>6, <2>7 DEF Follows
  <2> QED BY <1>0, <1>7, <2>1, <2>2, <2>8, QuietOutcome
<1>8. ASSUME NEW code \in {"LEADING_PLUS", "UNEXP_SYMBOL"}, b \notin OutsideBytes, Fail(code)
      PROVE  Outcome(s, p)
  <2>1. PieceAt(s, p, "OUTSIDE") = LastPiece(s, <<Malformed>>) BY <1>0, <1>8, OutsidePieces
  <2> QED BY <1>0, <1>1, <1>8, <2>1, FailOutcome
<1> QED
  <2>1. CASE b = PLUS /\ Fail("LEADING_PLUS")
    <3>1. b \notin OutsideBytes BY <2>1, NotIn
    <3> QED BY <1>8, <2>1, <3>1
  <2>2. CASE /\ b \notin WHITESPACE \cup DOMAIN Punctuation \cup DOMAIN KeywordOf \cup DIGITS
                           \cup {QUOTE, MINUS, PLUS}
             /\ Fail("UNEXP_SYMBOL")
    <3>1. b \notin OutsideBytes BY <1>0, <2>2, NotIn
    <3> QED BY <1>8, <2>2, <3>1
  <2> QED BY <1>2, <1>3, <1>4, <1>5, <1>6, <1>7, <2>1, <2>2, Zenon DEF LookupToken

LEMMA InKeywordFollows ==
  ASSUME NEW s, NEW l, NEW p, NEW b, Reading(s, l, p, b), InKeyword(l, b)
  PROVE  Outcome(s, p)
<1>0. /\ s \in Text /\ p \in 1..Len(s) /\ s[p] = b /\ Good(l) /\ out \in Seq(Items) /\ Record
      /\ p + 1 \in Nat \ {0} /\ l.state \in KeywordStates /\ l \in LexerType /\ Len(s) \in Nat
  BY TextLemma DEF Reading, InKeyword, Good
<1>1. l.state # "IN_STRING" /\ PlaceOf(l) = "OUTSIDE" /\ "OUTSIDE" \in Places
  BY <1>0 DEF KeywordStates, PlaceOf, StringStates, Places
<1>2. PICK i \in 1..p : ToldUpTo(s, i, "OUTSIDE", out) /\ Read(s, l, i, p)
  BY <1>1, ReadingLemma
<1>3. KeywordRead(s, l, i, p) BY <1>0, <1>2 DEF Read, KeywordStates
<1>4. l.offset \in 1..(Len(Keyword[l.state]) - 1) BY <1>0 DEF Good, Offsets
<1>5. i \in 1..Len(s) /\ p \in 1..(Len(s) + 1) /\ ~(p > Len(s)) /\ i \in 1..(p + 1) BY <1>0
<1>6. PICK word, next : word = Keyword[l.state] /\ next = [l EXCEPT !.offset = @ + 1] OBVIOUS
<1>7. next.offset = l.offset + 1 /\ next.state = l.state BY <1>0, <1>6 DEF LexerType
<1>8. Len(word) \in {4, 5} BY <1>0, <1>6 DEF Keyword, KeywordStates
<1>9. CASE b # word[l.offset + 1] /\ Fail(KeywordError[l.state])
  <2>1. KeywordError[l.state] # "OK" BY <1>0 DEF KeywordError, KeywordStates
  <2>2. PieceAt(s, i, "OUTSIDE") = LastPiece(s, <<Malformed>>)
    BY <1>0, <1>3, <1>4, <1>5, <1>6, <1>9, KeywordEnds
  <2> QED BY <1>0, <1>1, <1>2, <1>5, <1>9, <2>1, <2>2, FailOutcome
<1>10. CASE /\ b = word[l.offset + 1] /\ next.offset < Len(word)
            /\ Proceed(<<>>, next, chunk, FALSE)
  <2>1. KeywordRead(s, next, i, p + 1)
    <3>1. PICK o : o = l.offset OBVIOUS
    <3>2. /\ i + o = p /\ s[i] \in DOMAIN KeywordOf /\ KeywordOf[s[i]] = l.state
          /\ \A k \in 1..o : s[i + k - 1] = word[k]
      BY <1>3, <1>6, <3>1 DEF KeywordRead
    <3>3. \A n \in {4, 5} : o \in 1..(n - 1) => o \in Nat OBVIOUS
    <3>4. o \in Nat BY <1>4, <1>6, <1>8, <3>1, <3>3
    <3>5. \A k \in 1..(o + 1) : k \in 1..o \/ (k = o + 1 /\ i + k - 1 = p) BY <3>2, <3>4
    <3>6. \A k \in 1..(o + 1) : s[i + k - 1] = word[k]
      <4>1. word[o + 1] = s[p] BY <1>0, <1>10, <3>1
      <4> QED BY <3>2, <3>5, <4>1
    <3>7. i + (o + 1) = p + 1 BY <3>2, <3>4
    <3> QED BY <1>6, <1>7, <3>1, <3>2, <3>6, <3>7 DEF KeywordRead
  <2>2. Read(s, next, i, p + 1) BY <1>0, <1>7, <2>1 DEF Read
  <2>3. PlaceOf(next) = "OUTSIDE" /\ next.state # "IN_STRING" BY <1>1, <1>7 DEF PlaceOf
  <2>4. Follows(s, next, p + 1, out) BY <1>2, <1>5, <2>2, <2>3 DEF Follows
  <2> QED BY <1>0, <1>10, <2>3, <2>4, QuietOutcome
<1>11. CASE /\ b = word[l.offset + 1] /\ ~(next.offset < Len(word))
            /\ Proceed(<<Token(KeywordToken[l.state])>>, [next EXCEPT !.state = "LOOKUP_TOKEN"],
                       chunk, FALSE)
  <2>1. PICK call, n : /\ call = Token(KeywordToken[l.state])
                       /\ n = [next EXCEPT !.state = "LOOKUP_TOKEN"]
    OBVIOUS
  <2>2. n.state = "LOOKUP_TOKEN" BY <1>0, <1>6, <2>1 DEF LexerType
  <2>3. call \in Calls /\ Bytewise(call) = <<call>>
    BY <1>0, <2>1
    DEF KeywordToken, KeywordStates, Token, Calls, PlainCalls, TokenNames, Bytewise
  <2>4. l.offset + 1 = Len(word)
    <3>1. \A n2 \in {4, 5} : \A o \in 1..(n2 - 1) : ~(o + 1 < n2) => o + 1 = n2 OBVIOUS
    <3> QED BY <1>4, <1>6, <1>7, <1>8, <1>11, <3>1
  <2>5. PieceAt(s, i, "OUTSIDE") = Piece(<<call>>, p + 1, "OUTSIDE")
    BY <1>0, <1>3, <1>4, <1>5, <1>6, <1>11, <2>1, <2>4, KeywordEnds
  <2> QED BY <1>0, <1>1, <1>2, <1>5, <1>11, <2>1, <2>2, <2>3, <2>5, CompleteOutcome
<1> QED BY <1>6, <1>9, <1>10, <1>11 DEF InKeyword

(* What a byte of a string adds.                                           *)
LEMMA TextGrows ==
  ASSUME NEW o \in Seq(Items), NEW c \in Seq(Byte), NEW b \in Byte
  PROVE  (o \o Bytewise(TokenC(c))) \o <<TokenC(<<b>>)>> = (o \o <<>>) \o Bytewise(TokenC(Append(c, b)))
<1>1. PICK t, u : t = Bytewise(TokenC(c)) /\ u = <<TokenC(<<b>>)>> OBVIOUS
<1>2. t \in Seq(Items) BY <1>1, BytewiseText
<1>3. TokenC(<<b>>) \in Items BY DEF TokenC, Items, Calls, PlainCalls
<1>4. u \in Seq(Items) BY <1>1, <1>3
<1>5. (o \o t) \o u = o \o (t \o u) BY <1>2, <1>4, ConcatAssociative, SMTT(30)
<1>6. Bytewise(TokenC(Append(c, b))) = t \o u BY <1>1, BytewiseAppend
<1>7. o \o <<>> = o BY ConcatEmptySeq
<1> QED BY <1>1, <1>5, <1>6, <1>7

LEMMA InStringFollows ==
  ASSUME NEW s, NEW l, NEW p, NEW b, Reading(s, l, p, b), InString(l, b)
  PROVE  Outcome(s, p)
<1>0. /\ s \in Text /\ p \in 1..Len(s) /\ s[p] = b /\ Good(l) /\ out \in Seq(Items) /\ Record
      /\ p + 1 \in Nat \ {0} /\ l.state = "IN_STRING" /\ chunk \in Seq(Byte) /\ b \in Byte
      /\ b # EOF /\ b \in Byte \cup {EOF} /\ p \in 1..(p + 1)
  <2>1. /\ s \in Text /\ p \in 1..Len(s) /\ s[p] = b /\ Good(l) /\ out \in Seq(Items) /\ Record
        /\ l.state = "IN_STRING" /\ GoodChunk(l.state, chunk) /\ b \in Byte
    BY DEF Reading, InString
  <2>2. chunk \in Seq(Byte) BY <2>1 DEF GoodChunk, ChunkStates
  <2>3. b # EOF BY <2>1 DEF Byte, EOF
  <2>4. p + 1 \in Nat \ {0} /\ p \in 1..(p + 1) BY <2>1, TextLemma
  <2> QED BY <2>1, <2>2, <2>3, <2>4
<1>1. PICK t : t = Bytewise(TokenC(chunk)) OBVIOUS
<1>2. t \in Seq(Items) /\ out \o t \in Seq(Items) BY <1>0, <1>1, BytewiseText, ConcatProperties
<1>3. ToldUpTo(s, p, "INSIDE", out \o t) /\ "INSIDE" \in Places
  <2>1. PendingOf(l, chunk) = t /\ PlaceOf(l) = "INSIDE"
    BY <1>0, <1>1 DEF PendingOf, PlaceOf, StringStates
  <2>2. PICK i \in 1..p : ToldUpTo(s, i, "INSIDE", out \o t) /\ Read(s, l, i, p)
    BY <2>1 DEF Reading, Follows
  <2>3. i = p BY <1>0, <2>2 DEF Read, KeywordStates
  <2> QED BY <2>2, <2>3 DEF Places
<1>4. PICK c : c = IF VALIDATE_UTF8 THEN Continue(l) ELSE l OBVIOUS
<1>5. c \in LexerType /\ c.state = "IN_STRING" /\ Good(c)
  BY <1>0, <1>4, ContinueLemma DEF Good
<1>6. ASSUME NEW code \in {"BAD_UTF8", "LONG_UTF8"}, Fail(code) PROVE Outcome(s, p)
  BY <1>6 DEF Outcome, Unlimited, Fail
<1>7. ASSUME b \notin {QUOTE, BACKSLASH}, NEW n, n.state = "IN_STRING",
             Proceed(<<>>, n, Append(chunk, b), FALSE)
      PROVE  Outcome(s, p)
  <2>1. PieceAt(s, p, "INSIDE") = Piece(<<TokenC(<<b>>)>>, p + 1, "INSIDE")
    BY <1>0, <1>7, InsidePieces
  <2>2. <<TokenC(<<b>>)>> \in Seq(Items)
    <3>1. TokenC(<<b>>) \in Calls BY <1>0 DEF TokenC, Calls, PlainCalls
    <3> QED BY <3>1, ItemLemma
  <2>3. ToldUpTo(s, p + 1, "INSIDE", (out \o t) \o <<TokenC(<<b>>)>>)
    BY <1>0, <1>3, <2>1, <2>2, Advance
  <2>4. PlaceOf(n) = "INSIDE" /\ PendingOf(n, Append(chunk, b)) = Bytewise(TokenC(Append(chunk, b)))
    BY <1>7 DEF PlaceOf, StringStates, PendingOf
  <2>5. (out \o t) \o <<TokenC(<<b>>)>> = (out \o <<>>) \o PendingOf(n, Append(chunk, b))
    BY <1>0, <1>1, <2>4, TextGrows
  <2>6. Follows(s, n, p + 1, (out \o <<>>) \o PendingOf(n, Append(chunk, b)))
    BY <1>0, <1>7, <2>3, <2>4, <2>5, ReadAnew
  <2> QED BY <1>0, <1>7, <2>6, ToldOne, ItemLemma, ProceedOutcome
<1>8. CASE b = BACKSLASH /\
           Proceed(Flush(TokenC(chunk)), [c EXCEPT !.state = "IN_STRING_ESCAPE"], NULL, FALSE)
  <2>1. PICK n : n = [c EXCEPT !.state = "IN_STRING_ESCAPE"] OBVIOUS
  <2>2. n.state = "IN_STRING_ESCAPE" BY <1>5, <2>1 DEF LexerType
  <2>3. Told(Flush(TokenC(chunk))) = t BY <1>0, <1>1, ToldText
  <2>4. Read(s, n, p, p + 1) BY <1>0, <1>8, <2>2 DEF Read
  <2>5. PlaceOf(n) = "INSIDE" /\ PendingOf(n, NULL) = <<>>
    BY <2>2 DEF PlaceOf, StringStates, PendingOf
  <2>6. Follows(s, n, p + 1, out \o t) BY <1>0, <1>3, <2>4, <2>5 DEF Follows
  <2>7. (out \o t) \o <<>> = out \o t BY <1>2, ConcatEmptySeq
  <2> QED BY <1>0, <1>2, <1>8, <2>1, <2>3, <2>5, <2>6, <2>7, ProceedOutcome
<1>9. CASE b = QUOTE /\ Proceed(Flush(TokenC(chunk)) \o <<TokenCEnd>>,
                                [c EXCEPT !.state = "LOOKUP_TOKEN"], NULL, FALSE)
  <2>1. PICK n, u : n = [c EXCEPT !.state = "LOOKUP_TOKEN"] /\ u = <<TokenCEnd>> OBVIOUS
  <2>2. n.state = "LOOKUP_TOKEN" BY <1>5, <2>1 DEF LexerType
  <2>3. u \in Seq(Items)
    <3>1. TokenCEnd \in Calls BY DEF TokenCEnd, Calls, PlainCalls
    <3> QED BY <2>1, <3>1, ItemLemma
  <2>4. Told(Flush(TokenC(chunk)) \o u) = t \o u /\ t \o u \in Seq(Items)
    BY <1>0, <1>1, <1>2, <2>1, <2>3, ToldText, ConcatProperties
  <2>5. PieceAt(s, p, "INSIDE") = Piece(u, p + 1, "OUTSIDE") BY <1>0, <1>9, <2>1, InsidePieces
  <2>6. ToldUpTo(s, p + 1, "OUTSIDE", (out \o t) \o u) BY <1>0, <1>3, <2>3, <2>5, Advance
  <2>7. PlaceOf(n) = "OUTSIDE" /\ PendingOf(n, NULL) = <<>>
    BY <2>2 DEF PlaceOf, StringStates, PendingOf
  <2>8. Follows(s, n, p + 1, (out \o t) \o u) BY <1>0, <2>2, <2>6, <2>7, ReadAnew
  <2>9. (out \o t) \o u = (out \o (t \o u)) \o <<>>
    <3>1. (out \o t) \o u = out \o (t \o u) BY <1>0, <1>2, <2>3, ConcatAssociative
    <3>2. out \o (t \o u) \in Seq(Items) BY <1>0, <2>4, ConcatProperties
    <3> QED BY <3>1, <3>2, ConcatEmptySeq
  <2>10. PICK q : q = Flush(TokenC(chunk)) \o u OBVIOUS
  <2>11. Told(q) \in Seq(Items) /\ Proceed(q, n, NULL, FALSE) BY <1>9, <2>1, <2>4, <2>10
  <2>12. Follows(s, n, p + 1, (out \o Told(q)) \o PendingOf(n, NULL))
    BY <2>4, <2>7, <2>8, <2>9, <2>10
  <2> QED BY <1>0, <2>11, <2>12, ProceedOutcome
<1>10. CASE ~(~VALIDATE_UTF8 \/ b < 192) /\ b < 248 /\ Proceed(<<>>, Lead(c, b), Append(chunk, b), FALSE)
  <2>1. b >= 192 BY <1>0, <1>10 DEF Byte
  <2>2. b \notin {QUOTE, BACKSLASH} BY <2>1 DEF QUOTE, BACKSLASH
  <2>3. Lead(c, b).state = "IN_STRING" BY <1>0, <1>5, LeadLemma
  <2>4. PICK n : n = Lead(c, b) OBVIOUS
  <2>5. n.state = "IN_STRING" /\ Proceed(<<>>, n, Append(chunk, b), FALSE) BY <1>10, <2>3, <2>4
  <2> QED BY <1>7, <2>2, <2>5
<1>11. CASE b \notin {BACKSLASH, QUOTE} /\ Proceed(<<>>, c, Append(chunk, b), FALSE)
  BY <1>5, <1>7, <1>11
<1> QED
  <2>1. \/ Fail("BAD_UTF8") \/ Fail("LONG_UTF8")
        \/ /\ ~(~VALIDATE_UTF8 \/ b < 192) /\ b < 248
           /\ Proceed(<<>>, Lead(c, b), Append(chunk, b), FALSE)
        \/ /\ b = BACKSLASH
           /\ Proceed(Flush(TokenC(chunk)), [c EXCEPT !.state = "IN_STRING_ESCAPE"], NULL, FALSE)
        \/ /\ b = QUOTE
           /\ Proceed(Flush(TokenC(chunk)) \o <<TokenCEnd>>,
                      [c EXCEPT !.state = "LOOKUP_TOKEN"], NULL, FALSE)
        \/ b \notin {BACKSLASH, QUOTE} /\ Proceed(<<>>, c, Append(chunk, b), FALSE)
    BY <1>4, Zenon DEF InString
  <2> QED BY <1>6, <1>8, <1>9, <1>10, <1>11, <2>1

(* A piece of a string that is not text is complete.                       *)
LEMMA InsideOutcome ==
  ASSUME NEW s \in Text, NEW i \in 1..Len(s), ToldUpTo(s, i, "INSIDE", out),
         out \in Seq(Items), Record, NEW seq, NEW t \in Seq(Items), Told(seq) = t,
         NEW p \in Nat, PieceAt(s, i, "INSIDE") = Piece(t, p + 1, "INSIDE"),
         NEW n, n.state = "IN_STRING", Proceed(seq, n, <<>>, FALSE)
  PROVE  Outcome(s, p)
<1>1. ToldUpTo(s, p + 1, "INSIDE", out \o t) BY Advance DEF Places
<1>2. PlaceOf(n) = "INSIDE" /\ PendingOf(n, <<>>) = <<>>
  BY BytewiseParts DEF PlaceOf, StringStates, PendingOf
<1>3. p + 1 \in Nat \ {0} OBVIOUS
<1>4. Follows(s, n, p + 1, out \o t) BY <1>1, <1>2, <1>3, ReadAnew
<1>5. out \o t \in Seq(Items) BY ConcatProperties
<1>6. (out \o t) \o <<>> = out \o t BY <1>5, ConcatEmptySeq
<1>7. Follows(s, n, p + 1, (out \o Told(seq)) \o PendingOf(n, <<>>)) BY <1>2, <1>4, <1>6
<1> QED BY <1>7, ProceedOutcome

LEMMA EscapeIs ==
  ASSUME NEW s \in Text, NEW i \in 1..Len(s), s[i] = BACKSLASH
  PROVE  /\ i = Len(s) => PieceAt(s, i, "INSIDE") = LastPiece(s, <<>>)
         /\ i + 1 <= Len(s) /\ s[i + 1] \in DOMAIN Escaped =>
              PieceAt(s, i, "INSIDE") = Piece(<<TokenC(<<Escaped[s[i + 1]]>>)>>, i + 2, "INSIDE")
         /\ i + 1 <= Len(s) /\ s[i + 1] \notin DOMAIN Escaped \cup {117} =>
              PieceAt(s, i, "INSIDE") = LastPiece(s, <<Malformed>>)
<1>0. Len(s) \in Nat BY TextLemma
<1>1. PieceAt(s, i, "INSIDE") = EscapeAt(s, i)
  <2>1. s[i] \in Byte \cup {EOF} BY TextLemma
  <2> QED BY <2>1, InsidePieces
<1>2. i = Len(s) => EscapeAt(s, i) = LastPiece(s, <<>>)
  <2> SUFFICES ASSUME i = Len(s) PROVE EscapeAt(s, i) = LastPiece(s, <<>>) OBVIOUS
  <2>1. ~At(s, i + 1, DOMAIN Escaped) /\ ~At(s, i + 1, {117}) BY <1>0 DEF At
  <2> QED BY <2>1, Zenon DEF EscapeAt
<1>3. ASSUME i + 1 <= Len(s) PROVE i # Len(s) /\ \A bytes : At(s, i + 1, bytes) <=> s[i + 1] \in bytes
  BY <1>0, <1>3 DEF At
<1>4. ASSUME i + 1 <= Len(s), s[i + 1] \in DOMAIN Escaped
      PROVE  EscapeAt(s, i) = Piece(<<TokenC(<<Escaped[s[i + 1]]>>)>>, i + 2, "INSIDE")
  <2>1. i # Len(s) /\ At(s, i + 1, DOMAIN Escaped) BY <1>3, <1>4
  <2>2. ~At(s, i + 1, {117})
    <3>1. s[i + 1] # 117 BY <1>4, ByteSets
    <3> QED BY <3>1 DEF At
  <2> QED BY <2>1, <2>2, Zenon DEF EscapeAt
<1>5. ASSUME i + 1 <= Len(s), s[i + 1] \notin DOMAIN Escaped \cup {117}
      PROVE  EscapeAt(s, i) = LastPiece(s, <<Malformed>>)
  <2>1. i # Len(s) /\ ~At(s, i + 1, DOMAIN Escaped) /\ ~At(s, i + 1, {117}) BY <1>3, <1>5
  <2> QED BY <2>1, Zenon DEF EscapeAt
<1> QED BY <1>1, <1>2, <1>4, <1>5

LEMMA EscapedBytes == \A b \in DOMAIN Escaped : Escaped[b] \in Byte
  BY DEF Escaped, Byte

LEMMA InStringEscapeFollows ==
  ASSUME NEW s, NEW l, NEW p, NEW b, Reading(s, l, p, b), InStringEscape(l, b)
  PROVE  Outcome(s, p)
<1>0. /\ s \in Text /\ p \in 1..Len(s) /\ s[p] = b /\ Good(l) /\ out \in Seq(Items) /\ Record
      /\ l.state = "IN_STRING_ESCAPE" /\ l \in LexerType /\ Len(s) \in Nat
  BY TextLemma DEF Reading, InStringEscape, Good
<1>1. PlaceOf(l) = "INSIDE" /\ "INSIDE" \in Places BY <1>0 DEF PlaceOf, StringStates, Places
<1>2. PICK i \in 1..p : ToldUpTo(s, i, "INSIDE", out) /\ Read(s, l, i, p)
  BY <1>0, <1>1, ReadingLemma
<1>3. i + 1 = p /\ s[i] = BACKSLASH BY <1>0, <1>2 DEF Read, KeywordStates
<1>4. i \in 1..Len(s) /\ i + 1 <= Len(s) /\ p \in Nat /\ s[i + 1] = b /\ i + 2 = p + 1
      /\ i \in 1..(p + 1) /\ i + 2 + 0 = p + 1
  BY <1>0, <1>3
<1>5. CASE b \in DOMAIN Escaped /\
           Proceed(<<TokenC(<<Escaped[b]>>)>>, [l EXCEPT !.state = "IN_STRING"], <<>>, FALSE)
  <2>1. PICK n, call : /\ n = [l EXCEPT !.state = "IN_STRING"]
                       /\ call = TokenC(<<Escaped[b]>>)
    OBVIOUS
  <2>2. n.state = "IN_STRING" BY <1>0, <2>1 DEF LexerType
  <2>3. Told(<<call>>) = <<call>> BY <1>5, <2>1, EscapedBytes, BytewiseParts, ToldOne
  <2>4. <<call>> \in Seq(Items)
    <3>1. Escaped[b] \in Byte BY <1>5, EscapedBytes
    <3>2. call \in Calls BY <2>1, <3>1 DEF TokenC, Calls, PlainCalls
    <3> QED BY <3>2, ItemLemma
  <2>5. PieceAt(s, i, "INSIDE") = Piece(<<call>>, p + 1, "INSIDE")
    BY <1>0, <1>3, <1>4, <1>5, <2>1, EscapeIs
  <2>6. Proceed(<<call>>, n, <<>>, FALSE) BY <1>5, <2>1
  <2> QED BY <1>0, <1>2, <1>4, <2>2, <2>3, <2>4, <2>5, <2>6, InsideOutcome
<1>6. CASE b = 117 /\
           Proceed(<<>>, [l EXCEPT !.state = "IN_STRING_UNICODE_ESCAPE", !.offset = 0], chunk, FALSE)
  <2>1. PICK n : n = [l EXCEPT !.state = "IN_STRING_UNICODE_ESCAPE", !.offset = 0] OBVIOUS
  <2>2. n.state = "IN_STRING_UNICODE_ESCAPE" /\ n.offset = 0 BY <1>0, <2>1 DEF LexerType
  <2>3. AllIn(s, i + 2, p + 1, HexDigits) BY <1>4 DEF AllIn
  <2>4. UnicodeRead(s, n, i, p + 1) BY <1>3, <1>4, <1>6, <2>2, <2>3 DEF UnicodeRead
  <2>5. Read(s, n, i, p + 1) /\ PlaceOf(n) = "INSIDE" /\ n.state # "IN_STRING"
    BY <2>2, <2>4 DEF Read, PlaceOf, StringStates
  <2>6. Follows(s, n, p + 1, out) BY <1>2, <1>4, <2>5 DEF Follows
  <2> QED BY <1>0, <1>6, <2>1, <2>5, <2>6, QuietOutcome
<1>7. CASE b \notin DOMAIN Escaped \cup {117} /\ Fail("BAD_ESCAPE")
  <2>1. PieceAt(s, i, "INSIDE") = LastPiece(s, <<Malformed>>) BY <1>0, <1>3, <1>4, <1>7, EscapeIs
  <2> QED BY <1>0, <1>1, <1>2, <1>4, <1>7, <2>1, FailOutcome
<1> QED BY <1>5, <1>6, <1>7 DEF InStringEscape

(* A digit of \uXXXX makes half a byte, or the other half.                 *)
HalfMade(l, next, b) ==
  /\ next.offset = l.offset + 1
  /\ l.offset = 0 => next.unicode_cp[1] = 16 * HexValue(b)
  /\ l.offset = 1 => next.unicode_cp[1] = l.unicode_cp[1] + HexValue(b)
  /\ l.offset \in {2, 3} => next.unicode_cp[1] = l.unicode_cp[1]
  /\ l.offset = 2 => next.unicode_cp[2] = 16 * HexValue(b)
  /\ l.offset = 3 => next.unicode_cp[2] = l.unicode_cp[2] + HexValue(b)

LEMMA UnicodeGrows ==
  ASSUME NEW s \in Text, NEW i \in 1..Len(s), NEW l, NEW p \in 1..Len(s),
         UnicodeRead(s, l, i, p), l.offset \in 0..3, s[p] \in HexDigits,
         NEW next, HalfMade(l, next, s[p])
  PROVE  /\ l.offset < 3 => UnicodeRead(s, next, i, p + 1)
         /\ l.offset = 3 => /\ next.unicode_cp[1] = Hex(s, i + 2) /\ Hex(s, i + 2) \in Byte
                            /\ next.unicode_cp[2] = Hex(s, i + 4) /\ Hex(s, i + 4) \in Byte
<1>0. Len(s) \in Nat BY TextLemma
<1>1. PICK o \in 0..3 : o = l.offset OBVIOUS
<1>2. i + 2 + o = p /\ s[i] = BACKSLASH /\ s[i + 1] = 117 BY <1>1 DEF UnicodeRead
<1>3. AllIn(s, i + 2, p + 1, HexDigits)
  <2>1. \A k \in (i + 2)..((p + 1) - 1) : k \in (i + 2)..(p - 1) \/ k = p BY <1>0
  <2> QED BY <2>1 DEF UnicodeRead, AllIn
<1>4. next.offset = o + 1 BY <1>1 DEF HalfMade
<1>5. CASE o = 0
  <2>1. next.unicode_cp[1] = 16 * HexValue(s[i + 2]) BY <1>1, <1>2, <1>5 DEF HalfMade
  <2>2. i + 2 + next.offset = p + 1 /\ next.offset = 1 BY <1>2, <1>4, <1>5
  <2> QED BY <1>1, <1>2, <1>3, <1>5, <2>1, <2>2 DEF UnicodeRead
<1>6. CASE o = 1
  <2>1. s[i + 3] = s[p] /\ i + 2 + 1 = i + 3 BY <1>2, <1>6
  <2>2. next.unicode_cp[1] = 16 * HexValue(s[i + 2]) + HexValue(s[i + 3])
    BY <1>1, <1>6, <2>1 DEF HalfMade, UnicodeRead
  <2>3. next.unicode_cp[1] = Hex(s, i + 2) BY <2>1, <2>2 DEF Hex
  <2>4. i + 2 + next.offset = p + 1 /\ next.offset = 2 BY <1>2, <1>4, <1>6
  <2> QED BY <1>1, <1>2, <1>3, <1>6, <2>3, <2>4 DEF UnicodeRead
<1>7. CASE o = 2
  <2>1. s[i + 4] = s[p] BY <1>2, <1>7
  <2>2. next.unicode_cp[1] = Hex(s, i + 2) BY <1>1, <1>7 DEF HalfMade, UnicodeRead
  <2>3. next.unicode_cp[2] = 16 * HexValue(s[i + 4]) BY <1>1, <1>7, <2>1 DEF HalfMade
  <2>4. i + 2 + next.offset = p + 1 /\ next.offset = 3 BY <1>2, <1>4, <1>7
  <2> QED BY <1>1, <1>2, <1>3, <1>7, <2>2, <2>3, <2>4 DEF UnicodeRead
<1>8. CASE o = 3
  <2>1. s[i + 5] = s[p] /\ i + 4 + 1 = i + 5 /\ i + 2 + 1 = i + 3 BY <1>2, <1>8
  <2>2. next.unicode_cp[1] = Hex(s, i + 2) BY <1>1, <1>8 DEF HalfMade, UnicodeRead
  <2>3. next.unicode_cp[2] = 16 * HexValue(s[i + 4]) + HexValue(s[i + 5])
    BY <1>1, <1>8, <2>1 DEF HalfMade, UnicodeRead
  <2>4. next.unicode_cp[2] = Hex(s, i + 4) BY <2>1, <2>3 DEF Hex
  <2>5. \A k \in {i + 2, i + 3, i + 4, i + 5} : s[k] \in HexDigits
    <3>1. \A k \in {i + 2, i + 3, i + 4, i + 5} : k \in (i + 2)..((p + 1) - 1) BY <1>2, <1>8
    <3> QED BY <1>3, <3>1 DEF AllIn
  <2>6. \A a \in 0..15, c \in 0..15 : 16 * a + c \in Byte BY DEF Byte
  <2>7. HexValue(s[i + 2]) \in 0..15 /\ HexValue(s[i + 3]) \in 0..15
        /\ HexValue(s[i + 4]) \in 0..15 /\ HexValue(s[i + 5]) \in 0..15
    BY <2>5, HexLemma
  <2>8. Hex(s, i + 2) \in Byte /\ Hex(s, i + 4) \in Byte
    BY <2>1, <2>6, <2>7 DEF Hex
  <2> QED BY <1>1, <1>8, <2>2, <2>4, <2>8
<1> QED BY <1>5, <1>6, <1>7, <1>8

LEMMA PairIs ==
  ASSUME NEW S, NEW cp \in [1..2 -> S]
  PROVE  cp = <<cp[1], cp[2]>>
<1>1. PICK a, c : a = cp[1] /\ c = cp[2] OBVIOUS
<1>2. <<a, c>> \in [1..2 -> S] /\ \A k \in 1..2 : <<a, c>>[k] = cp[k] BY <1>1
<1> QED BY <1>1, <1>2

UnicodeNext(l, b) ==
  [l EXCEPT !.unicode_cp = [@ EXCEPT ![l.offset \div 2 + 1] =
               IF l.offset % 2 = 0 THEN 16 * HexValue(b)
               ELSE l.unicode_cp[l.offset \div 2 + 1] + HexValue(b)],
            !.offset = @ + 1]

LEMMA HalfLemma ==
  ASSUME NEW l \in LexerType, l.offset \in 0..3, NEW b \in HexDigits, NEW next,
         next = UnicodeNext(l, b)
  PROVE  /\ HalfMade(l, next, b) /\ next.state = l.state
         /\ next.unicode_cp = <<next.unicode_cp[1], next.unicode_cp[2]>>
         /\ \A n : n = [next EXCEPT !.state = "IN_STRING"] => n.state = "IN_STRING"
<1>1. PICK o \in 0..3 : o = l.offset OBVIOUS
<1>2. PICK h \in Int : h = HexValue(b) BY HexLemma
<1>3. PICK cp \in [1..2 -> Int] : cp = l.unicode_cp
  <2>1. l.unicode_cp \in [1..2 -> 0..255] BY DEF LexerType
  <2>2. 0..255 \subseteq Int OBVIOUS
  <2> QED BY <2>1, <2>2
<1>4. PICK byte \in 1..2 : /\ byte = o \div 2 + 1
                          /\ byte = IF o \in {0, 1} THEN 1 ELSE 2
  <2>1. \A n \in 0..3 : n \div 2 + 1 = IF n \in {0, 1} THEN 1 ELSE 2 OBVIOUS
  <2>2. (IF o \in {0, 1} THEN 1 ELSE 2) \in 1..2 OBVIOUS
  <2> QED BY <2>1, <2>2
<1>5. PICK half \in Int : /\ half = IF o % 2 = 0 THEN 16 * h ELSE cp[byte] + h
                         /\ half = IF o \in {0, 2} THEN 16 * h ELSE cp[byte] + h
  <2>1. \A n \in 0..3 : n % 2 = 0 <=> n \in {0, 2} OBVIOUS
  <2> QED BY <2>1
<1>6. PICK new : new = [cp EXCEPT ![byte] = half] OBVIOUS
<1>7. /\ new \in [1..2 -> Int] /\ new[byte] = half
      /\ \A k \in 1..2 : k # byte => new[k] = cp[k]
  BY <1>6
<1>8. next = [l EXCEPT !.unicode_cp = new, !.offset = o + 1]
  BY <1>1, <1>2, <1>3, <1>4, <1>5, <1>6 DEF LexerType, UnicodeNext
<1>9. next.unicode_cp = new /\ next.offset = o + 1 /\ next.state = l.state
  BY <1>8 DEF LexerType
<1>10. new = <<new[1], new[2]>> BY <1>7, PairIs
<1>11. \A n : n = [next EXCEPT !.state = "IN_STRING"] => n.state = "IN_STRING"
  BY <1>8 DEF LexerType
<1>12. HalfMade(l, next, b)
  <2>1. /\ o = 0 => byte = 1 /\ half = 16 * h
        /\ o = 1 => byte = 1 /\ half = cp[1] + h
        /\ o = 2 => byte = 2 /\ half = 16 * h
        /\ o = 3 => byte = 2 /\ half = cp[2] + h
    BY <1>4, <1>5
  <2>2. /\ o = 0 => new[1] = 16 * h
        /\ o = 1 => new[1] = cp[1] + h
        /\ o \in {2, 3} => new[1] = cp[1]
        /\ o = 2 => new[2] = 16 * h
        /\ o = 3 => new[2] = cp[2] + h
    BY <1>7, <2>1
  <2> QED BY <1>1, <1>2, <1>3, <1>9, <2>2 DEF HalfMade
<1> QED BY <1>9, <1>10, <1>11, <1>12

LEMMA InStringUnicodeEscapeFollows ==
  ASSUME NEW s, NEW l, NEW p, NEW b, Reading(s, l, p, b), InStringUnicodeEscape(l, b)
  PROVE  Outcome(s, p)
<1>0. /\ s \in Text /\ p \in 1..Len(s) /\ s[p] = b /\ Good(l) /\ out \in Seq(Items) /\ Record
      /\ l.state = "IN_STRING_UNICODE_ESCAPE" /\ l \in LexerType /\ Len(s) \in Nat
      /\ l.offset \in 0..3
  BY TextLemma DEF Reading, InStringUnicodeEscape, Good, Offsets
<1>1. PlaceOf(l) = "INSIDE" /\ "INSIDE" \in Places BY <1>0 DEF PlaceOf, StringStates, Places
<1>2. PICK i \in 1..p : ToldUpTo(s, i, "INSIDE", out) /\ Read(s, l, i, p)
  BY <1>0, <1>1, ReadingLemma
<1>3. UnicodeRead(s, l, i, p) BY <1>0, <1>2 DEF Read, KeywordStates
<1>4. i \in 1..Len(s) /\ p \in 1..(Len(s) + 1) /\ p \in Nat /\ ~(p > Len(s)) /\ i \in 1..(p + 1)
  BY <1>0
<1>5. CASE b \notin HexDigits /\ Fail("BAD_UNICODE_ESCAPE")
  <2>1. PieceAt(s, i, "INSIDE") = LastPiece(s, <<Malformed>>)
    BY <1>0, <1>3, <1>4, <1>5, UnicodeEnds
  <2> QED BY <1>0, <1>1, <1>2, <1>4, <1>5, <2>1, FailOutcome
<1>6. PICK next : next = UnicodeNext(l, b)
  OBVIOUS
<1>7. ASSUME b \in HexDigits
      PROVE  /\ HalfMade(l, next, b) /\ next.state = "IN_STRING_UNICODE_ESCAPE"
             /\ next.unicode_cp = <<next.unicode_cp[1], next.unicode_cp[2]>>
             /\ \A n : n = [next EXCEPT !.state = "IN_STRING"] => n.state = "IN_STRING"
  BY <1>0, <1>6, <1>7, HalfLemma
<1>8. CASE b \in HexDigits /\ l.offset < 3 /\ Proceed(<<>>, next, chunk, FALSE)
  <2>1. UnicodeRead(s, next, i, p + 1) BY <1>0, <1>3, <1>4, <1>7, <1>8, UnicodeGrows
  <2>2. Read(s, next, i, p + 1) /\ PlaceOf(next) = "INSIDE" /\ next.state # "IN_STRING"
    BY <1>7, <1>8, <2>1 DEF Read, PlaceOf, StringStates
  <2>3. Follows(s, next, p + 1, out) BY <1>2, <1>4, <2>2 DEF Follows
  <2> QED BY <1>0, <1>8, <2>2, <2>3, QuietOutcome
<1>9. CASE /\ b \in HexDigits /\ ~(l.offset < 3)
           /\ Proceed(<<TokenC(next.unicode_cp)>>, [next EXCEPT !.state = "IN_STRING"],
                      <<>>, FALSE)
  <2>1. PICK n, x, y, cp : /\ n = [next EXCEPT !.state = "IN_STRING"] /\ x = Hex(s, i + 2)
                           /\ y = Hex(s, i + 4) /\ cp = next.unicode_cp
    OBVIOUS
  <2>2. n.state = "IN_STRING" BY <1>7, <1>9, <2>1
  <2>3. l.offset = 3 BY <1>0, <1>9
  <2>4. cp = <<x, y>> /\ x \in Byte /\ y \in Byte
    BY <1>0, <1>3, <1>4, <1>7, <1>9, <2>1, <2>3, UnicodeGrows
  <2>5. PICK a, c : a = TokenC(<<x>>) /\ c = TokenC(<<y>>) OBVIOUS
  <2>6. <<a, c>> \in Seq(Items)
    <3>1. a \in Calls /\ c \in Calls BY <2>4, <2>5 DEF TokenC, Calls, PlainCalls
    <3> QED BY <3>1, ItemLemma
  <2>7. Told(<<TokenC(cp)>>) = <<a, c>> BY <2>4, <2>5, BytewiseParts, ToldOne
  <2>8. PieceAt(s, i, "INSIDE") = Piece(<<a, c>>, p + 1, "INSIDE")
    BY <1>0, <1>3, <1>4, <1>9, <2>1, <2>3, <2>5, UnicodeEnds
  <2>9. Proceed(<<TokenC(cp)>>, n, <<>>, FALSE) BY <1>9, <2>1
  <2> QED BY <1>0, <1>2, <1>4, <2>2, <2>6, <2>7, <2>8, <2>9, InsideOutcome
<1> QED BY <1>5, <1>6, <1>8, <1>9 DEF InStringUnicodeEscape, UnicodeNext

(* The next digit of an integer.                                           *)
LEMMA IntegerGrows ==
  ASSUME NEW s \in Text, NEW l, l.int_value \in Nat, NEW i \in 1..Len(s), NEW f \in 1..Len(s),
         NEW p \in 1..Len(s), IntegerRead(s, l, i, f, p), s[p] \in DIGITS, s[f] # 48,
         NEW n, n.int_value = 10 * l.int_value + Digit(s[p]), n.minus = l.minus
  PROVE  IntegerRead(s, n, i, f, p + 1)
<1>0. Len(s) \in Nat BY TextLemma
<1>1. f < p /\ AllIn(s, f, p, DIGITS) /\ l.int_value = Decimal(s, f, p) /\ l.int_value # 0
  BY DEF IntegerRead
<1>2. f \in 1..(Len(s) + 1) /\ p \in f..Len(s) /\ f < p + 1 BY <1>0, <1>1
<1>3. n.int_value = Decimal(s, f, p + 1) BY <1>1, <1>2, DecimalSteps
<1>4. n.int_value # 0
  <2>1. PICK v \in Nat, d \in Nat : v = l.int_value /\ d = Digit(s[p]) BY DigitLemma
  <2> QED BY <1>1, <2>1
<1>5. AllIn(s, f, p + 1, DIGITS)
  <2>1. \A k \in f..((p + 1) - 1) : k \in f..(p - 1) \/ k = p BY <1>0
  <2> QED BY <1>1, <2>1 DEF AllIn
<1> QED BY <1>2, <1>3, <1>4, <1>5 DEF IntegerRead

LEMMA InNumberSignFollows ==
  ASSUME NEW s, NEW l, NEW p, NEW b, Reading(s, l, p, b), InNumberSign(l, b)
  PROVE  Outcome(s, p)
<1>0. /\ s \in Text /\ p \in 1..Len(s) /\ s[p] = b /\ Good(l) /\ out \in Seq(Items) /\ Record
      /\ l.state = "IN_NUMBER_SIGN" /\ l \in LexerType /\ Len(s) \in Nat /\ l.int_value = 0
  BY TextLemma DEF Reading, InNumberSign, Good, Accumulators
<1>1. PlaceOf(l) = "OUTSIDE" /\ "OUTSIDE" \in Places BY <1>0 DEF PlaceOf, StringStates, Places
<1>2. PICK i \in 1..p : ToldUpTo(s, i, "OUTSIDE", out) /\ Read(s, l, i, p)
  BY <1>0, <1>1, ReadingLemma
<1>3. i + 1 = p /\ s[i] = MINUS /\ l.minus BY <1>0, <1>2 DEF Read, KeywordStates, SignRead
<1>4. i \in 1..Len(s) /\ p \in i..Len(s) /\ p \in Nat /\ ~(i + 1 > Len(s)) /\ i \in 1..(p + 1)
  BY <1>0, <1>3
<1>5. CASE b \in DIGITS /\
           Proceed(<<>>, [AppendDigit(l, b) EXCEPT !.state = "IN_NUMBER"], chunk, FALSE)
  <2>1. PICK d \in Nat : d = Digit(b) BY <1>5, DigitLemma
  <2>2. PICK n : n = [AppendDigit(l, b) EXCEPT !.state = "IN_NUMBER"] OBVIOUS
  <2>3. n.int_value = 10 * l.int_value + d /\ n.minus = l.minus /\ n.state = "IN_NUMBER"
    BY <1>0, <1>5, <2>1, <2>2, AppendDigitLemma DEF LexerType
  <2>4. n.int_value = Digit(s[p]) BY <1>0, <2>1, <2>3
  <2>5. p = FirstDigit(s, i) BY <1>3 DEF FirstDigit
  <2>6. IntRead(s, n, i, p + 1) BY <1>0, <1>3, <1>4, <1>5, <2>3, <2>4, <2>5, FirstDigitRead
  <2>7. Read(s, n, i, p + 1) /\ PlaceOf(n) = "OUTSIDE" /\ n.state # "IN_STRING"
    BY <2>3, <2>6 DEF Read, PlaceOf, StringStates
  <2>8. Follows(s, n, p + 1, out) BY <1>2, <1>4, <2>7 DEF Follows
  <2> QED BY <1>0, <1>5, <2>2, <2>7, <2>8, QuietOutcome
<1>6. CASE b \notin DIGITS /\ Fail("EOF_IN_STRING")
  <2>1. ~At(s, i + 1, DIGITS) BY <1>0, <1>3, <1>6 DEF At
  <2>2. PieceAt(s, i, "OUTSIDE") = LastPiece(s, <<Malformed>>) BY <1>0, <1>3, <1>4, <2>1, SignEnds
  <2> QED BY <1>0, <1>1, <1>2, <1>4, <1>6, <2>2, FailOutcome
<1> QED BY <1>5, <1>6 DEF InNumberSign

(* A big number, or its error, is beyond the reference.                    *)
LEMMA BignumOutcome ==
  ASSUME out \in Seq(Items), Record, NEW v \in Nat, NEW l, NEW c,
         Proceed(<<TokenBnBegin(v)>>, l, c, FALSE), NEW s, NEW p
  PROVE  Outcome(s, p)
<1>1. PICK call : call = TokenBnBegin(v) OBVIOUS
<1>2. call \in Calls /\ call.call = "tokenbn_begin" BY <1>1 DEF TokenBnBegin, Calls
<1>3. err' = "OK" /\ calls' = <<call>> BY <1>1 DEF Record, Proceed, Make
<1>4. Told(<<call>>) = <<call>> BY <1>2, ToldPlain
<1>5. <<call>> \in Seq(Items) BY <1>2, ItemLemma
<1>6. out' = (out \o <<call>>) \o <<>> BY <1>3, <1>4 DEF Record
<1>7. out' = out \o <<call>>
  <2>1. out \o <<call>> \in Seq(Items) BY <1>5, ConcatProperties
  <2> QED BY <1>6, <2>1, ConcatEmptySeq
<1>8. call \in Items BY <1>2 DEF Items
<1>9. out' \in Seq(Items) /\ Len(out') = Len(out) + 1 /\ out'[Len(out) + 1] = call
  BY <1>7, <1>8, OneMore
<1>10. Len(out) + 1 \in DOMAIN out' BY <1>9
<1> QED BY <1>2, <1>9, <1>10 DEF Outcome, Unlimited

LEMMA InNumberFollows ==
  ASSUME NEW s, NEW l, NEW p, NEW b, Reading(s, l, p, b), InNumber(l, b)
  PROVE  Outcome(s, p)
<1>0. /\ s \in Text /\ p \in 1..Len(s) /\ s[p] = b /\ Good(l) /\ out \in Seq(Items) /\ Record
      /\ l.state = "IN_NUMBER" /\ l \in LexerType /\ Len(s) \in Nat
      /\ l.int_value \in Nat /\ l.frac_value = 0 /\ l.frac_power = 0
  BY TextLemma DEF Reading, InNumber, Good, Accumulators, LexerType
<1>1. PlaceOf(l) = "OUTSIDE" /\ "OUTSIDE" \in Places BY <1>0 DEF PlaceOf, StringStates, Places
<1>2. PICK i \in 1..p : ToldUpTo(s, i, "OUTSIDE", out) /\ Read(s, l, i, p)
  BY <1>0, <1>1, ReadingLemma
<1>3. PICK f \in 1..p : IntegerRead(s, l, i, f, p)
  BY <1>0, <1>2 DEF Read, KeywordStates, IntRead
<1>4. /\ i \in 1..Len(s) /\ f \in 1..Len(s) /\ f \in 1..(Len(s) + 1) /\ p \in 1..(Len(s) + 1)
      /\ p \in Nat \ {0} /\ ~(p > Len(s)) /\ i \in 1..(p + 1) /\ f \in 1..(p + 1) /\ p \in 1..(p + 1)
  BY <1>0
<1>5. l.int_value = 0 <=> s[f] = 48 BY <1>3 DEF IntegerRead
<1>6. ASSUME NEW n, n.state \in NumberStates, Read(s, n, i, p + 1), Proceed(<<>>, n, chunk, FALSE)
      PROVE  Outcome(s, p)
  <2>1. PlaceOf(n) = "OUTSIDE" /\ n.state # "IN_STRING"
    BY <1>6 DEF PlaceOf, StringStates, NumberStates
  <2>2. Follows(s, n, p + 1, out) BY <1>2, <1>4, <1>6, <2>1 DEF Follows
  <2> QED BY <1>0, <1>6, <2>1, <2>2, QuietOutcome
<1>7. CASE b \in DIGITS /\ l.int_value = 0 /\ Fail("LEADING_ZERO")
  <2>1. PieceAt(s, i, "OUTSIDE") = LastPiece(s, <<Malformed>>)
    BY <1>0, <1>3, <1>4, <1>5, <1>7, LeadingZero
  <2> QED BY <1>0, <1>1, <1>2, <1>4, <1>7, <2>1, FailOutcome
<1>8. CASE b \in DIGITS /\ l.int_value # 0 /\ Proceed(<<>>, AppendDigit(l, b), chunk, FALSE)
  <2>1. PICK n : n = AppendDigit(l, b) OBVIOUS
  <2>2. n.int_value = 10 * l.int_value + Digit(b) /\ n.minus = l.minus /\ n.state = "IN_NUMBER"
    BY <1>0, <1>8, <2>1, AppendDigitLemma DEF LexerType
  <2>3. IntegerRead(s, n, i, f, p + 1) BY <1>0, <1>3, <1>4, <1>5, <1>8, <2>2, IntegerGrows
  <2>4. Read(s, n, i, p + 1) BY <1>4, <2>2, <2>3 DEF Read, IntRead
  <2>5. n.state \in NumberStates BY <2>2 DEF NumberStates
  <2> QED BY <1>6, <1>8, <2>1, <2>4, <2>5
<1>9. CASE Proceed(<<TokenBnBegin(l.int_value)>>, [l EXCEPT !.state = "IN_BIG_NUMBER"], <<>>, FALSE)
  BY <1>0, <1>9, BignumOutcome
<1>10. CASE Fail("INT_OVERFLOW") \/ Fail("TRAP") BY <1>10 DEF Outcome, Unlimited, Fail
<1>11. CASE b = DOT /\ Proceed(<<>>, [l EXCEPT !.state = "IN_NUMBER_FRAC"], chunk, FALSE)
  <2>1. PICK n : n = [l EXCEPT !.state = "IN_NUMBER_FRAC"] OBVIOUS
  <2>2. /\ n.int_value = l.int_value /\ n.minus = l.minus /\ n.state = "IN_NUMBER_FRAC"
        /\ n.frac_value = 0 /\ n.frac_power = 0
    BY <1>0, <2>1 DEF LexerType
  <2>3. IntegerRead(s, n, i, f, p) BY <1>3, <2>2, IntegerKept
  <2>4. FractionRead(s, n, p, p + 1)
    <3>1. p + 1 \in 1..(Len(s) + 1) BY <1>0
    <3>2. Decimal(s, p + 1, p + 1) = 0 BY <1>0, <3>1, DecimalSteps
    <3>3. \A m \in Nat \ {0} : 0 % m = 0 OBVIOUS
    <3>4. 0 % FRAC_MODULUS = 0 BY <3>3, LexerAssumption
    <3>5. AllIn(s, p + 1, p + 1, DIGITS) BY <1>4 DEF AllIn
    <3>6. (p + 1) - p - 1 = 0 /\ p < p + 1 BY <1>4
    <3> QED BY <1>0, <1>11, <2>2, <3>2, <3>4, <3>5, <3>6 DEF FractionRead
  <2>5. Read(s, n, i, p + 1) BY <1>0, <1>4, <1>11, <2>2, <2>3, <2>4 DEF Read, FracRead
  <2>6. n.state \in NumberStates BY <2>2 DEF NumberStates
  <2> QED BY <1>6, <1>11, <2>1, <2>5, <2>6
<1>12. CASE b \in EXPONENT /\ Proceed(<<>>, [l EXCEPT !.state = "IN_NUMBER_EXP_SIGN"], chunk, FALSE)
  <2>1. PICK n : n = [l EXCEPT !.state = "IN_NUMBER_EXP_SIGN"] OBVIOUS
  <2>2. /\ n.int_value = l.int_value /\ n.minus = l.minus /\ n.state = "IN_NUMBER_EXP_SIGN"
        /\ n.frac_value = 0 /\ n.frac_power = 0
    BY <1>0, <2>1 DEF LexerType
  <2>3. IntegerRead(s, n, i, f, p) BY <1>3, <2>2, IntegerKept
  <2>4. s[p] # DOT /\ s[p] \in EXPONENT BY <1>0, <1>12 DEF EXPONENT, DOT
  <2>5. FractionRead(s, n, p, p) BY <2>2, <2>4 DEF FractionRead
  <2>6. ExponentAt(s, n, i, f, p, p) BY <2>3, <2>4, <2>5 DEF ExponentAt
  <2>7. Read(s, n, i, p + 1) BY <1>4, <2>2, <2>6 DEF Read, ExpSignRead
  <2>8. n.state \in NumberStates BY <2>2 DEF NumberStates
  <2> QED BY <1>6, <1>12, <2>1, <2>7, <2>8
<1>13. CASE b \notin DIGITS \cup EXPONENT \cup {DOT} /\ Proceed(<<TokenI(l)>>, AfterInt(l), chunk, TRUE)
  <2>1. PICK n, call : n = AfterInt(l) /\ call = TokenI(l) OBVIOUS
  <2>2. n.state = "LOOKUP_TOKEN" BY <1>0, <2>1 DEF AfterInt, LexerType
  <2>3. ~At(s, p, DIGITS \cup EXPONENT \cup {DOT}) BY <1>0, <1>13 DEF At
  <2>4. PieceAt(s, i, "OUTSIDE") = Piece(<<call>>, p, "OUTSIDE")
    BY <1>0, <1>3, <1>4, <2>1, <2>3, IntEnds
  <2>5. call \in Calls /\ Bytewise(call) = <<call>>
    <3>1. call.call = "tokeni" BY <2>1 DEF TokenI
    <3> QED BY <1>0, <2>1, <3>1, TokenILemma, ToldPlain DEF Calls
  <2>6. Proceed(<<call>>, n, chunk, TRUE) BY <1>13, <2>1
  <2> QED BY <1>0, <1>1, <1>2, <1>4, <2>2, <2>4, <2>5, <2>6, CompleteOutcome
<1> QED BY <1>7, <1>8, <1>9, <1>10, <1>11, <1>12, <1>13 DEF InNumber

(***************************************************************************)
(* The fraction is kept modulo 2^width; its remainder is that of the       *)
(* fraction itself.                                                        *)
(***************************************************************************)
LEMMA DivMod ==
  ASSUME NEW M \in Nat, M > 0, NEW x \in Nat
  PROVE \E q \in Nat, r \in 0..(M - 1) : x = q * M + r /\ r = x % M
<1>1. x % M \in 0..(M - 1) OBVIOUS
<1>2. x \div M \in Int OBVIOUS
<1>3. x = M * (x \div M) + (x % M) OBVIOUS
<1>4. PICK q \in Int, r \in 0..(M - 1) : q = x \div M /\ r = x % M BY <1>1, <1>2
<1>5. x = M * q + r BY <1>3, <1>4
<1>6. M * q = q * M OBVIOUS
<1>7. ~(q < 0)
  <2> SUFFICES ASSUME q < 0 PROVE FALSE OBVIOUS
  <2>1. PICK k \in Nat : q = 0 - (k + 1) /\ k = 0 - q - 1 OBVIOUS
  <2>2. M * q = 0 - (M * k + M) BY <2>1
  <2>3. M * k \in Nat OBVIOUS
  <2> QED BY <1>5, <2>2, <2>3
<1> QED BY <1>4, <1>5, <1>6, <1>7

LEMMA MultiplesApart ==
  ASSUME NEW M \in Nat, M > 0, NEW k \in Nat, NEW q \in Nat, q < k
  PROVE k * M >= q * M + M
<1>1. PICK d \in Nat : k = q + 1 + d /\ d = k - q - 1 OBVIOUS
<1>2. k * M = q * M + M + d * M BY <1>1
<1>3. d * M \in Nat OBVIOUS
<1>4. q * M \in Nat OBVIOUS
<1> QED BY <1>2, <1>3, <1>4

LEMMA RemainderUnique ==
  ASSUME NEW M \in Nat, M > 0, NEW q \in Nat, NEW k \in Nat, NEW r \in 0..(M-1), NEW t \in 0..(M-1),
    q * M + r = k * M + t
  PROVE r = t
<1>0. q * M \in Nat /\ k * M \in Nat OBVIOUS
<1>1. ~(q < k) BY <1>0, MultiplesApart
<1>2. ~(k < q) BY <1>0, MultiplesApart
<1>3. q = k BY <1>1, <1>2
<1> QED BY <1>0, <1>3

LEMMA RemainderKept ==
  ASSUME NEW M \in Nat, M > 0, NEW x \in Nat, NEW d \in Nat
  PROVE  (10 * (x % M) + d) % M = (10 * x + d) % M
<1>1. PICK q \in Nat, r \in 0..(M-1) : x = q * M + r /\ r = x % M BY DivMod
<1>2. PICK y \in Nat : y = 10 * r + d OBVIOUS
<1>3. PICK u \in Nat, v \in 0..(M-1) : y = u * M + v /\ v = y % M BY DivMod
<1>4. PICK z \in Nat : z = 10 * x + d OBVIOUS
<1>5. PICK g \in Nat, h \in 0..(M-1) : z = g * M + h /\ h = z % M BY DivMod
<1>6. z = (10 * q + u) * M + v
  <2>1. PICK qm \in Nat, um \in Nat : qm = q * M /\ um = u * M OBVIOUS
  <2>2. z = 10 * qm + um + v
    <3>1. x = qm + r /\ y = um + v BY <1>1, <1>3, <2>1
    <3>2. y = 10 * r + d /\ z = 10 * x + d BY <1>2, <1>4
    <3> QED BY <3>1, <3>2
  <2>3. (10 * q + u) * M = 10 * qm + um BY <2>1
  <2> QED BY <2>2, <2>3
<1>7. 10 * q + u \in Nat OBVIOUS
<1>8. h = v
  <2>1. PICK w \in Nat : w = 10 * q + u BY <1>7
  <2>2. w * M + v = g * M + h BY <1>5, <1>6, <2>1
  <2> QED BY <2>2, RemainderUnique
<1> QED BY <1>1, <1>2, <1>3, <1>4, <1>5, <1>8

(* The next digit of a fraction.                                           *)
LEMMA FractionGrows ==
  ASSUME NEW s \in Text, NEW l, NEW m \in 1..Len(s), NEW p \in 1..Len(s),
         s[m] = DOT, FractionRead(s, l, m, p), s[p] \in DIGITS,
         NEW n, n.frac_power = l.frac_power + 1,
         n.frac_value = (10 * l.frac_value + Digit(s[p])) % FRAC_MODULUS
  PROVE  FractionRead(s, n, m, p + 1)
<1>0. Len(s) \in Nat BY TextLemma
<1>1. m < p /\ AllIn(s, m + 1, p, DIGITS) /\ l.frac_power = p - m - 1
      /\ l.frac_value = Decimal(s, m + 1, p) % FRAC_MODULUS
  BY DEF FractionRead
<1>2. m + 1 \in 1..(Len(s) + 1) /\ p \in (m + 1)..(Len(s) + 1) /\ p \in (m + 1)..Len(s)
      /\ p \in (m + 1)..p
  BY <1>0, <1>1
<1>3. PICK x \in Nat : x = Decimal(s, m + 1, p) BY <1>1, <1>2, DecimalGrows
<1>4. PICK d \in Nat : d = Digit(s[p]) BY DigitLemma
<1>5. Decimal(s, m + 1, p + 1) = 10 * x + d BY <1>2, <1>3, <1>4, DecimalSteps
<1>6. n.frac_value = Decimal(s, m + 1, p + 1) % FRAC_MODULUS
  <2>1. FRAC_MODULUS \in Nat /\ FRAC_MODULUS > 0 BY LexerAssumption
  <2>2. (10 * (x % FRAC_MODULUS) + d) % FRAC_MODULUS = (10 * x + d) % FRAC_MODULUS
    BY <2>1, RemainderKept
  <2> QED BY <1>1, <1>3, <1>4, <1>5, <2>2
<1>7. n.frac_power = (p + 1) - m - 1 BY <1>0, <1>1
<1>8. AllIn(s, m + 1, p + 1, DIGITS)
  <2>1. \A k \in (m + 1)..((p + 1) - 1) : k \in (m + 1)..(p - 1) \/ k = p BY <1>0
  <2> QED BY <1>1, <2>1 DEF AllIn
<1>9. m < p + 1 BY <1>0, <1>1
<1> QED BY <1>6, <1>7, <1>8, <1>9 DEF FractionRead

LEMMA FloatCall ==
  ASSUME NEW l, Good(l), l.state \in {"IN_NUMBER_FRAC", "IN_NUMBER_EXP"}
  PROVE  TokenF(l) \in Calls /\ Bytewise(TokenF(l)) = <<TokenF(l)>>
<1>1. TokenF(l).call = "tokenf" BY DEF TokenF
<1> QED BY <1>1, TokenFLemma, ToldPlain DEF Calls

(* frac_power is of 16 bits.                                               *)
PowerModulus == 65536
FractionFits == MaxFraction < PowerModulus

LEMMA PowerModulusLemma == PowerModulus \in Nat /\ PowerModulus > 0
  BY SMT DEF PowerModulus

LEMMA SmallRemainder ==
  ASSUME NEW M \in Nat, M > 0, NEW x \in Nat, x < M
  PROVE  x % M = x
  OBVIOUS

LEMMA AppendFracLemma ==
  ASSUME FractionFits, NEW l \in LexerType, l.frac_power < MaxFraction, NEW b,
         NEW n, n = AppendFracDigit(l, b)
  PROVE  /\ n.frac_value = (10 * l.frac_value + Digit(b)) % FRAC_MODULUS
         /\ n.frac_power = l.frac_power + 1
         /\ n.int_value = l.int_value /\ n.minus = l.minus /\ n.state = l.state
<1>1. PICK k \in Nat : k = l.frac_power /\ k < MaxFraction BY DEF LexerType
<1>2. PICK v : v = (10 * l.frac_value + Digit(b)) % FRAC_MODULUS OBVIOUS
<1>3. n = [l EXCEPT !.frac_value = (10 * @ + Digit(b)) % FRAC_MODULUS,
                    !.frac_power = (@ + 1) % PowerModulus]
  BY SMT DEF AppendFracDigit, PowerModulus
<1>4. (k + 1) % PowerModulus = k + 1
  <2>1. k + 1 < PowerModulus BY <1>1, LexerAssumption, PowerModulusLemma DEF FractionFits
  <2> QED BY <2>1, PowerModulusLemma, SmallRemainder
<1>5. n = [l EXCEPT !.frac_value = v, !.frac_power = k + 1]
  BY <1>1, <1>2, <1>3, <1>4 DEF LexerType
<1> QED BY <1>1, <1>2, <1>5 DEF LexerType

LEMMA InNumberFracFollows ==
  ASSUME FractionFits,
         NEW s, NEW l, NEW p, NEW b, Reading(s, l, p, b), InNumberFrac(l, b)
  PROVE  Outcome(s, p)
<1>0. /\ s \in Text /\ p \in 1..Len(s) /\ s[p] = b /\ Good(l) /\ out \in Seq(Items) /\ Record
      /\ l.state = "IN_NUMBER_FRAC" /\ l \in LexerType /\ Len(s) \in Nat
      /\ l.frac_power \in Nat /\ l.minus \in BOOLEAN /\ l.exp_value = 0 /\ ~l.exp_minus
  BY TextLemma DEF Reading, InNumberFrac, Good, Accumulators, LexerType
<1>1. PlaceOf(l) = "OUTSIDE" /\ "OUTSIDE" \in Places BY <1>0 DEF PlaceOf, StringStates, Places
<1>2. PICK i \in 1..p : ToldUpTo(s, i, "OUTSIDE", out) /\ Read(s, l, i, p)
  BY <1>0, <1>1, ReadingLemma
<1>3. PICK f \in 1..p, m \in 1..p : IntegerRead(s, l, i, f, m) /\ s[m] = DOT /\ FractionRead(s, l, m, p)
  BY <1>0, <1>2 DEF Read, KeywordStates, FracRead
<1>4. /\ i \in 1..Len(s) /\ m \in 1..Len(s) /\ f \in 1..(Len(s) + 1) /\ p \in 1..(Len(s) + 1)
      /\ p \in Nat \ {0} /\ ~(p > Len(s))
      /\ i \in 1..(p + 1) /\ f \in 1..(p + 1) /\ m \in 1..(p + 1) /\ p \in 1..(p + 1)
  BY <1>0
<1>5. ASSUME NEW n, n.state \in NumberStates, Read(s, n, i, p + 1), Proceed(<<>>, n, chunk, FALSE)
      PROVE  Outcome(s, p)
  <2>1. PlaceOf(n) = "OUTSIDE" /\ n.state # "IN_STRING"
    BY <1>5 DEF PlaceOf, StringStates, NumberStates
  <2>2. Follows(s, n, p + 1, out) BY <1>2, <1>4, <1>5, <2>1 DEF Follows
  <2> QED BY <1>0, <1>5, <2>1, <2>2, QuietOutcome
<1>6. CASE b \in DIGITS /\ l.frac_power < MaxFraction
           /\ Proceed(<<>>, AppendFracDigit(l, b), chunk, FALSE)
  <2>1. PICK n : n = AppendFracDigit(l, b) OBVIOUS
  <2>2. /\ n.frac_value = (10 * l.frac_value + Digit(b)) % FRAC_MODULUS
        /\ n.frac_power = l.frac_power + 1
        /\ n.int_value = l.int_value /\ n.minus = l.minus /\ n.state = "IN_NUMBER_FRAC"
    BY <1>0, <1>6, <2>1, AppendFracLemma
  <2>4. FractionRead(s, n, m, p + 1) BY <1>0, <1>3, <1>4, <1>6, <2>2, FractionGrows
  <2>5. IntegerRead(s, n, i, f, m) BY <1>3, <2>2, IntegerKept
  <2>6. Read(s, n, i, p + 1) BY <1>3, <1>4, <2>2, <2>4, <2>5 DEF Read, FracRead
  <2>7. n.state \in NumberStates BY <2>2 DEF NumberStates
  <2> QED BY <1>5, <1>6, <2>1, <2>6, <2>7
<1>7. CASE b \notin DIGITS /\ l.frac_power = 0 /\ Fail("EMPTY_FRAC")
  <2>1. ~At(s, p, DIGITS) BY <1>0, <1>7 DEF At
  <2>2. /\ p > Len(s) => PieceAt(s, i, "OUTSIDE") = LastPiece(s, <<>>)
        /\ ~(p > Len(s)) /\ l.frac_power = 0 =>
             PieceAt(s, i, "OUTSIDE") = LastPiece(s, <<Malformed>>)
        /\ ~(p > Len(s)) /\ l.frac_power # 0 /\ ~At(s, p, EXPONENT) =>
             PieceAt(s, i, "OUTSIDE") = Piece(<<TokenF(l)>>, p, "OUTSIDE")
    <3>1. s \in Text /\ l.minus \in BOOLEAN /\ l.exp_value = 0 /\ ~l.exp_minus BY <1>0
    <3>2. IntegerRead(s, l, i, f, m) /\ s[m] = DOT /\ FractionRead(s, l, m, p) BY <1>3
    <3>3. i \in 1..Len(s) /\ m \in 1..Len(s) /\ f \in 1..(Len(s) + 1) /\ p \in 1..(Len(s) + 1) BY <1>4
    <3> QED BY <2>1, <3>1, <3>2, <3>3, FracEnds
  <2>3. PieceAt(s, i, "OUTSIDE") = LastPiece(s, <<Malformed>>) BY <1>4, <1>7, <2>2
  <2> QED BY <1>0, <1>1, <1>2, <1>4, <1>7, <2>3, FailOutcome
<1>8. CASE b \in EXPONENT /\ l.frac_power # 0
           /\ Proceed(<<>>, [l EXCEPT !.state = "IN_NUMBER_EXP_SIGN"], chunk, FALSE)
  <2>1. PICK n : n = [l EXCEPT !.state = "IN_NUMBER_EXP_SIGN"] OBVIOUS
  <2>2. /\ n.int_value = l.int_value /\ n.minus = l.minus /\ n.state = "IN_NUMBER_EXP_SIGN"
        /\ n.frac_value = l.frac_value /\ n.frac_power = l.frac_power
    BY <1>0, <2>1 DEF LexerType
  <2>3. IntegerRead(s, n, i, f, m) BY <1>3, <2>2, IntegerKept
  <2>4. FractionRead(s, n, m, p) BY <1>3, <2>2, FractionKept
  <2>5. m + 1 < p
    <3>1. m < p /\ l.frac_power = p - m - 1 BY <1>3 DEF FractionRead
    <3> QED BY <1>0, <1>8, <3>1
  <2>6. ExponentAt(s, n, i, f, m, p) BY <1>0, <1>8, <2>3, <2>4, <2>5 DEF ExponentAt
  <2>7. Read(s, n, i, p + 1) BY <1>4, <2>2, <2>6 DEF Read, ExpSignRead
  <2>8. n.state \in NumberStates BY <2>2 DEF NumberStates
  <2> QED BY <1>5, <1>8, <2>1, <2>7, <2>8
<1>9. CASE b \notin DIGITS \cup EXPONENT /\ l.frac_power # 0
           /\ Proceed(<<TokenF(l)>>, AfterFrac(l), chunk, TRUE)
  <2>1. PICK n, call : n = AfterFrac(l) /\ call = TokenF(l) OBVIOUS
  <2>2. n.state = "LOOKUP_TOKEN" BY <1>0, <2>1, AfterLemma
  <2>3. ~At(s, p, DIGITS) /\ ~At(s, p, EXPONENT) BY <1>0, <1>9 DEF At
  <2>4. PieceAt(s, i, "OUTSIDE") = Piece(<<call>>, p, "OUTSIDE")
    BY <1>0, <1>3, <1>4, <1>9, <2>1, <2>3, FracEnds
  <2>5. call \in Calls /\ Bytewise(call) = <<call>> BY <1>0, <2>1, FloatCall
  <2>6. Proceed(<<call>>, n, chunk, TRUE) BY <1>9, <2>1
  <2> QED BY <1>0, <1>1, <1>2, <1>4, <2>2, <2>4, <2>5, <2>6, CompleteOutcome
<1> QED BY <1>6, <1>7, <1>8, <1>9 DEF InNumberFrac

(* The next digit of an exponent.                                          *)
LEMMA ExponentGrows ==
  ASSUME NEW s \in Text, NEW l, NEW e \in 1..Len(s), NEW d \in 1..Len(s), NEW p \in 1..Len(s),
         ExponentRead(s, l, e, d, p), d <= p, s[p] \in DIGITS,
         NEW n, n.exp_value = 10 * l.exp_value + Digit(s[p]), n.exp_minus = l.exp_minus,
         n.exp_not_empty = TRUE
  PROVE  ExponentRead(s, n, e, d, p + 1)
<1>0. Len(s) \in Nat BY TextLemma
<1>1. /\ e + 1 < p /\ d = ExponentDigits(s, e) /\ AllIn(s, d, p, DIGITS)
      /\ l.exp_value = Decimal(s, d, p)
  BY DEF ExponentRead
<1>2. d \in 1..(Len(s) + 1) /\ p \in d..Len(s) /\ d < p + 1 /\ e + 1 < p + 1 BY <1>0, <1>1
<1>3. n.exp_value = Decimal(s, d, p + 1) BY <1>1, <1>2, DecimalSteps
<1>4. AllIn(s, d, p + 1, DIGITS)
  <2>1. \A k \in d..((p + 1) - 1) : k \in d..(p - 1) \/ k = p BY <1>0
  <2> QED BY <1>1, <2>1 DEF AllIn
<1> QED BY <1>2, <1>3, <1>4 DEF ExponentRead

(* A number goes on in a state of numbers.                                 *)
LEMMA NumberOutcome ==
  ASSUME out \in Seq(Items), Record, NEW s, NEW p \in Nat, NEW i \in 1..p,
         ToldUpTo(s, i, "OUTSIDE", out), NEW n, n.state \in NumberStates,
         Read(s, n, i, p + 1), Proceed(<<>>, n, chunk, FALSE)
  PROVE  Outcome(s, p)
<1>1. PlaceOf(n) = "OUTSIDE" /\ n.state # "IN_STRING"
  BY DEF PlaceOf, StringStates, NumberStates
<1>2. i \in 1..(p + 1) OBVIOUS
<1>3. Follows(s, n, p + 1, out) BY <1>1, <1>2 DEF Follows
<1> QED BY <1>1, <1>3, QuietOutcome

(* The sign of an exponent, or its first digit.                            *)
LEMMA ExponentBegins ==
  ASSUME NEW s \in Text, NEW n, NEW e \in 1..Len(s), e + 1 \in 1..Len(s), s[e] \in EXPONENT
  PROVE  /\ /\ s[e + 1] \in {PLUS, MINUS} /\ n.exp_value = 0 /\ ~n.exp_not_empty
            /\ n.exp_minus <=> s[e + 1] = MINUS
            => ExponentRead(s, n, e, e + 2, e + 2)
         /\ /\ s[e + 1] \in DIGITS /\ n.exp_value = Digit(s[e + 1]) /\ n.exp_not_empty
            /\ ~n.exp_minus
            => ExponentRead(s, n, e, e + 1, e + 2)
<1>0. Len(s) \in Nat BY TextLemma
<1>1. e + 1 \in 1..(Len(s) + 1) /\ e + 2 \in 1..(Len(s) + 1) /\ e + 1 \in (e + 1)..Len(s)
      /\ e + 1 < e + 2 /\ ~(e + 2 < e + 2) /\ (e + 1) + 1 = e + 2
  BY <1>0
<1>2. ASSUME s[e + 1] \in {PLUS, MINUS}, n.exp_value = 0, ~n.exp_not_empty,
             n.exp_minus <=> s[e + 1] = MINUS
      PROVE  ExponentRead(s, n, e, e + 2, e + 2)
  <2>1. Decimal(s, e + 2, e + 2) = 0 BY <1>1, DecimalSteps
  <2>2. AllIn(s, e + 2, e + 2, DIGITS) BY <1>0 DEF AllIn
  <2>3. ExponentDigits(s, e) = e + 2 BY <1>2 DEF ExponentDigits
  <2> QED BY <1>1, <1>2, <2>1, <2>2, <2>3 DEF ExponentRead
<1>3. ASSUME s[e + 1] \in DIGITS, n.exp_value = Digit(s[e + 1]), n.exp_not_empty, ~n.exp_minus
      PROVE  ExponentRead(s, n, e, e + 1, e + 2)
  <2>1. Decimal(s, e + 1, e + 2) = Digit(s[e + 1])
    <3>1. Decimal(s, e + 1, e + 1) = 0 BY <1>1, DecimalSteps
    <3>2. Decimal(s, e + 1, e + 2) = 10 * Decimal(s, e + 1, e + 1) + Digit(s[e + 1])
      BY <1>1, DecimalSteps
    <3>3. Digit(s[e + 1]) \in Nat BY <1>3, DigitLemma
    <3> QED BY <3>1, <3>2, <3>3
  <2>2. AllIn(s, e + 1, e + 2, DIGITS)
    <3>1. \A k \in (e + 1)..((e + 2) - 1) : k = e + 1 BY <1>0
    <3> QED BY <1>3, <3>1 DEF AllIn
  <2>3. s[e + 1] \notin {PLUS, MINUS} BY <1>3 DEF DIGITS, PLUS, MINUS
  <2>4. ExponentDigits(s, e) = e + 1 BY <2>3 DEF ExponentDigits
  <2>5. s[e + 1] # MINUS BY <2>3
  <2> QED BY <1>1, <1>3, <2>1, <2>2, <2>4, <2>5 DEF ExponentRead
<1> QED BY <1>2, <1>3

LEMMA InNumberExpSignFollows ==
  ASSUME NEW s, NEW l, NEW p, NEW b, Reading(s, l, p, b), InNumberExpSign(l, b)
  PROVE  Outcome(s, p)
<1>0. /\ s \in Text /\ p \in 1..Len(s) /\ s[p] = b /\ Good(l) /\ out \in Seq(Items) /\ Record
      /\ l.state = "IN_NUMBER_EXP_SIGN" /\ l \in LexerType /\ Len(s) \in Nat
      /\ l.exp_value = 0 /\ ~l.exp_minus /\ ~l.exp_not_empty
  BY TextLemma DEF Reading, InNumberExpSign, Good, Accumulators
<1>1. PlaceOf(l) = "OUTSIDE" /\ "OUTSIDE" \in Places BY <1>0 DEF PlaceOf, StringStates, Places
<1>2. PICK i \in 1..p : ToldUpTo(s, i, "OUTSIDE", out) /\ Read(s, l, i, p)
  BY <1>0, <1>1, ReadingLemma
<1>3. PICK f \in 1..p, m \in 1..p, e \in 1..p : ExponentAt(s, l, i, f, m, e) /\ e + 1 = p
  BY <1>0, <1>2 DEF Read, KeywordStates, ExpSignRead
<1>4. /\ i \in 1..Len(s) /\ m \in 1..Len(s) /\ f \in 1..Len(s) /\ e \in 1..Len(s)
      /\ p \in Nat /\ ~(e + 1 > Len(s)) /\ e + 1 \in 1..Len(s) /\ e + 2 = p + 1
      /\ f \in 1..(p + 1) /\ m \in 1..(p + 1) /\ e \in 1..(p + 1)
      /\ e + 1 \in 1..(p + 1) /\ e + 2 \in 1..(p + 1)
  BY <1>0, <1>3
<1>5. s[e] \in EXPONENT /\ s[e + 1] = b BY <1>0, <1>3 DEF ExponentAt
<1>6. ASSUME NEW n, n.state = "IN_NUMBER_EXP", n.int_value = l.int_value, n.minus = l.minus,
             n.frac_power = l.frac_power, n.frac_value = l.frac_value,
             \E d \in 1..(p + 1) : ExponentRead(s, n, e, d, p + 1), Proceed(<<>>, n, chunk, FALSE)
      PROVE  Outcome(s, p)
  <2>1. ExponentAt(s, n, i, f, m, e) BY <1>3, <1>6, ExponentKept
  <2>2. ExpRead(s, n, i, p + 1) BY <1>4, <1>6, <2>1 DEF ExpRead
  <2>3. Read(s, n, i, p + 1) BY <1>6, <2>2 DEF Read
  <2>4. n.state \in NumberStates BY <1>6 DEF NumberStates
  <2> QED BY <1>0, <1>2, <1>4, <1>6, <2>3, <2>4, NumberOutcome
<1>7. CASE b = MINUS /\ Proceed(<<>>, [[l EXCEPT !.state = "IN_NUMBER_EXP"] EXCEPT !.exp_minus = TRUE],
                                chunk, FALSE)
  <2>1. PICK n : n = [[l EXCEPT !.state = "IN_NUMBER_EXP"] EXCEPT !.exp_minus = TRUE] OBVIOUS
  <2>2. /\ n.state = "IN_NUMBER_EXP" /\ n.int_value = l.int_value /\ n.minus = l.minus
        /\ n.frac_power = l.frac_power /\ n.frac_value = l.frac_value
        /\ n.exp_minus = TRUE /\ n.exp_value = 0 /\ ~n.exp_not_empty
    BY <1>0, <2>1 DEF LexerType
  <2>3. ExponentRead(s, n, e, e + 2, e + 2) BY <1>0, <1>4, <1>5, <1>7, <2>2, ExponentBegins
  <2> QED BY <1>4, <1>6, <1>7, <2>1, <2>2, <2>3
<1>8. CASE b = PLUS /\ Proceed(<<>>, [l EXCEPT !.state = "IN_NUMBER_EXP"], chunk, FALSE)
  <2>1. PICK n : n = [l EXCEPT !.state = "IN_NUMBER_EXP"] OBVIOUS
  <2>2. /\ n.state = "IN_NUMBER_EXP" /\ n.int_value = l.int_value /\ n.minus = l.minus
        /\ n.frac_power = l.frac_power /\ n.frac_value = l.frac_value
        /\ ~n.exp_minus /\ n.exp_value = 0 /\ ~n.exp_not_empty
    BY <1>0, <2>1 DEF LexerType
  <2>3. b # MINUS /\ b \in {PLUS, MINUS} BY <1>8 DEF PLUS, MINUS
  <2>4. ExponentRead(s, n, e, e + 2, e + 2) BY <1>0, <1>4, <1>5, <2>2, <2>3, ExponentBegins
  <2> QED BY <1>4, <1>6, <1>8, <2>1, <2>2, <2>4
<1>9. CASE b \in DIGITS /\ Proceed(<<>>, [[l EXCEPT !.state = "IN_NUMBER_EXP"] EXCEPT
                                            !.exp_value = Digit(b), !.exp_not_empty = TRUE],
                                   chunk, FALSE)
  <2>1. PICK n : n = [[l EXCEPT !.state = "IN_NUMBER_EXP"] EXCEPT
                        !.exp_value = Digit(b), !.exp_not_empty = TRUE]
    OBVIOUS
  <2>2. /\ n.state = "IN_NUMBER_EXP" /\ n.int_value = l.int_value /\ n.minus = l.minus
        /\ n.frac_power = l.frac_power /\ n.frac_value = l.frac_value
        /\ ~n.exp_minus /\ n.exp_value = Digit(b) /\ n.exp_not_empty
    BY <1>0, <2>1 DEF LexerType
  <2>3. ExponentRead(s, n, e, e + 1, e + 2) BY <1>0, <1>4, <1>5, <1>9, <2>2, ExponentBegins
  <2> QED BY <1>4, <1>6, <1>9, <2>1, <2>2, <2>3
<1>10. CASE b \notin DIGITS \cup {MINUS, PLUS} /\ Fail("BAD_EXPONENT")
  <2>1. ~At(s, e + 1, DIGITS) /\ ~At(s, e + 1, {PLUS, MINUS}) BY <1>5, <1>10 DEF At
  <2>2. PieceAt(s, i, "OUTSIDE") = LastPiece(s, <<Malformed>>)
    BY <1>0, <1>3, <1>4, <2>1, ExpSignEnds
  <2> QED BY <1>0, <1>1, <1>2, <1>4, <1>10, <2>2, FailOutcome
<1> QED BY <1>7, <1>8, <1>9, <1>10 DEF InNumberExpSign

LEMMA ExponentIsGood ==
  ASSUME NEW l, Good(l), l.state = "IN_NUMBER_EXP"
  PROVE  GoodExponent(l)
  BY DEF Good, LexerType, Accumulators, GoodExponent

LEMMA InNumberExpFollows ==
  ASSUME NEW s, NEW l, NEW p, NEW b, Reading(s, l, p, b), InNumberExp(l, b)
  PROVE  Outcome(s, p)
<1>0. /\ s \in Text /\ p \in 1..Len(s) /\ s[p] = b /\ Good(l) /\ out \in Seq(Items) /\ Record
      /\ l.state = "IN_NUMBER_EXP" /\ l \in LexerType /\ Len(s) \in Nat /\ GoodExponent(l)
  BY TextLemma, ExponentIsGood DEF Reading, InNumberExp, Good
<1>1. PlaceOf(l) = "OUTSIDE" /\ "OUTSIDE" \in Places BY <1>0 DEF PlaceOf, StringStates, Places
<1>2. PICK i \in 1..p : ToldUpTo(s, i, "OUTSIDE", out) /\ Read(s, l, i, p)
  BY <1>0, <1>1, ReadingLemma
<1>3. PICK f \in 1..p, m \in 1..p, e \in 1..p, d \in 1..p :
        ExponentAt(s, l, i, f, m, e) /\ ExponentRead(s, l, e, d, p)
  BY <1>0, <1>2 DEF Read, KeywordStates, ExpRead
<1>4. /\ i \in 1..Len(s) /\ m \in 1..Len(s) /\ f \in 1..Len(s) /\ e \in 1..Len(s)
      /\ d \in 1..Len(s) /\ d <= p /\ p \in Nat /\ p \in Nat \ {0} /\ ~(p > Len(s))
      /\ p \in 1..(Len(s) + 1) /\ f \in 1..(p + 1) /\ m \in 1..(p + 1) /\ e \in 1..(p + 1)
      /\ d \in 1..(p + 1)
  BY <1>0
<1>5. PICK next : next = [l EXCEPT !.exp_value = 10 * @ + Digit(b), !.exp_not_empty = TRUE]
  OBVIOUS
<1>6. /\ next.state = "IN_NUMBER_EXP" /\ next.int_value = l.int_value /\ next.minus = l.minus
      /\ next.frac_power = l.frac_power /\ next.frac_value = l.frac_value
      /\ next.exp_minus = l.exp_minus /\ next.exp_value = 10 * l.exp_value + Digit(b)
      /\ next.exp_not_empty = TRUE
  BY <1>0, <1>5 DEF LexerType
<1>7. CASE b \in DIGITS /\ next.exp_value > ExponentLimit(l) /\ Fail("EXPONENT_OVERFLOW")
  <2>1. 10 * l.exp_value + Digit(s[p]) > ExponentLimit(l) BY <1>0, <1>6, <1>7
  <2>2. PieceAt(s, i, "OUTSIDE") = LastPiece(s, <<Malformed>>)
    BY <1>0, <1>3, <1>4, <1>7, <2>1, ExpOverflows
  <2> QED BY <1>0, <1>1, <1>2, <1>4, <1>7, <2>2, FailOutcome
<1>8. CASE b \in DIGITS /\ Proceed(<<>>, next, chunk, FALSE)
  <2>1. ExponentRead(s, next, e, d, p + 1) BY <1>0, <1>3, <1>4, <1>6, <1>8, ExponentGrows
  <2>2. ExponentAt(s, next, i, f, m, e) BY <1>3, <1>6, ExponentKept
  <2>3. Read(s, next, i, p + 1) BY <1>4, <1>6, <2>1, <2>2 DEF Read, ExpRead
  <2>4. next.state \in NumberStates BY <1>6 DEF NumberStates
  <2> QED BY <1>0, <1>2, <1>4, <1>8, <2>3, <2>4, NumberOutcome
<1>9. ASSUME b \notin DIGITS
      PROVE  /\ ~l.exp_not_empty => PieceAt(s, i, "OUTSIDE") = LastPiece(s, <<Malformed>>)
             /\ l.exp_not_empty => PieceAt(s, i, "OUTSIDE") = Piece(<<TokenF(l)>>, p, "OUTSIDE")
  <2>1. ~At(s, p, DIGITS) BY <1>0, <1>9 DEF At
  <2> QED BY <1>0, <1>3, <1>4, <2>1, ExpEnds
<1>10. CASE b \notin DIGITS /\ ~l.exp_not_empty /\ Fail("EMPTY_EXP")
  BY <1>0, <1>1, <1>2, <1>4, <1>9, <1>10, FailOutcome
<1>11. CASE b \notin DIGITS /\ l.exp_not_empty /\ Proceed(<<TokenF(l)>>, AfterExp(l), chunk, TRUE)
  <2>1. PICK n, call : n = AfterExp(l) /\ call = TokenF(l) OBVIOUS
  <2>2. n.state = "LOOKUP_TOKEN" BY <1>0, <2>1, AfterLemma
  <2>3. PieceAt(s, i, "OUTSIDE") = Piece(<<call>>, p, "OUTSIDE") BY <1>9, <1>11, <2>1
  <2>4. call \in Calls /\ Bytewise(call) = <<call>> BY <1>0, <2>1, FloatCall
  <2>5. Proceed(<<call>>, n, chunk, TRUE) BY <1>11, <2>1
  <2> QED BY <1>0, <1>1, <1>2, <1>4, <2>2, <2>3, <2>4, <2>5, CompleteOutcome
<1> QED BY <1>5, <1>7, <1>8, <1>10, <1>11 DEF InNumberExp

LEMMA IterateFollows ==
  ASSUME FractionFits, NEW b \in Alphabet, Iterate(b), NEW s, NEW p,
         Reading(s, Sniff(lex, b), p, b)
  PROVE  Outcome(s, p)
<1>1. PICK l : l = Sniff(lex, b) OBVIOUS
<1>2. \/ LookupToken(l, b)
      \/ InString(l, b)
      \/ InStringEscape(l, b)
      \/ InStringUnicodeEscape(l, b)
      \/ InNumberSign(l, b)
      \/ InNumber(l, b)
      \/ InNumberFrac(l, b)
      \/ InNumberExpSign(l, b)
      \/ InNumberExp(l, b)
      \/ InBigNumber(l, b)
      \/ InKeyword(l, b)
  BY <1>1, Zenon DEF Iterate
<1>3. Reading(s, l, p, b) BY <1>1
<1>4. ~InBigNumber(l, b)
  <2> SUFFICES ASSUME l.state = "IN_BIG_NUMBER" PROVE FALSE BY DEF InBigNumber
  <2>1. PICK i \in 1..p : Read(s, l, i, p) BY <1>3 DEF Reading, Follows
  <2> QED BY <2>1 DEF Read, KeywordStates
<1> QED
  BY <1>2, <1>3, <1>4, LookupTokenFollows, InStringFollows, InStringEscapeFollows,
     InStringUnicodeEscapeFollows, InNumberSignFollows, InNumberFollows,
     InNumberFracFollows, InNumberExpSignFollows, InNumberExpFollows, InKeywordFollows, Zenon

(***************************************************************************)
(* The end of a text                                                       *)
(***************************************************************************)
(* A lexeme that has been read up to the end of the text is not complete.  *)
LEMMA Incomplete ==
  ASSUME NEW s \in Text, NEW l, Good(l), NEW o \in Seq(Items), Follows(s, l, Len(s) + 1, o)
  PROVE  Reference(s) = o
<1>0. Len(s) \in Nat /\ l \in LexerType BY TextLemma DEF Good
<1>1. PICK p : p = Len(s) + 1 OBVIOUS
<1>2. PICK i \in 1..p : ToldUpTo(s, i, PlaceOf(l), o) /\ Read(s, l, i, p) BY <1>1 DEF Follows
<1>3. CASE i = p BY <1>1, <1>2, <1>3, ToldAll
<1>4. ASSUME i # p PROVE i \in 1..Len(s) /\ p > Len(s) /\ p \in 1..(Len(s) + 1)
  BY <1>0, <1>1, <1>4
<1>5. ASSUME NEW place \in Places, place = PlaceOf(l), i # p,
             PieceAt(s, i, place) = LastPiece(s, <<>>)
      PROVE  Reference(s) = o
  <2>1. Reference(s) = o \o <<>> BY <1>2, <1>4, <1>5, ItemLemma, Conclude
  <2> QED BY <2>1, ConcatEmptySeq
<1>6. ~At(s, p, DIGITS) /\ ~At(s, p, EXPONENT) /\ ~At(s, p, {PLUS, MINUS})
      /\ ~At(s, p, DIGITS \cup EXPONENT \cup {DOT})
  BY <1>0, <1>1 DEF At
<1>7. CASE l.state \in KeywordStates /\ KeywordRead(s, l, i, p)
  <2>1. PlaceOf(l) = "OUTSIDE" /\ "OUTSIDE" \in Places
    BY <1>7 DEF KeywordStates, PlaceOf, StringStates, Places
  <2>2. l.offset \in 1..(Len(Keyword[l.state]) - 1) BY <1>7 DEF Good, Offsets
  <2>3. i # p
    <3>1. Len(Keyword[l.state]) \in {4, 5} BY <1>7 DEF Keyword, KeywordStates
    <3>2. l.offset \in Nat /\ l.offset > 0 BY <2>2, <3>1
    <3> QED BY <1>7, <3>2 DEF KeywordRead
  <2> QED BY <1>4, <1>5, <1>7, <2>1, <2>2, <2>3, KeywordEnds
<1>8. CASE l.state = "IN_STRING_ESCAPE" /\ i + 1 = p /\ s[i] = BACKSLASH
  <2>1. PlaceOf(l) = "INSIDE" /\ "INSIDE" \in Places /\ i # p /\ i = Len(s)
    BY <1>0, <1>1, <1>8 DEF PlaceOf, StringStates, Places
  <2> QED BY <1>4, <1>5, <1>8, <2>1, EscapeIs
<1>9. CASE l.state = "IN_STRING_UNICODE_ESCAPE" /\ UnicodeRead(s, l, i, p)
  <2>1. l.offset \in 0..3 BY <1>9 DEF Good, Offsets
  <2>2. PlaceOf(l) = "INSIDE" /\ "INSIDE" \in Places BY <1>9 DEF PlaceOf, StringStates, Places
  <2>3. i # p BY <1>9, <2>1 DEF UnicodeRead
  <2> QED BY <1>4, <1>5, <1>9, <2>1, <2>2, <2>3, UnicodeEnds
<1>10. ASSUME l.state \in NumberStates PROVE PlaceOf(l) = "OUTSIDE" /\ "OUTSIDE" \in Places
  BY <1>10 DEF PlaceOf, StringStates, NumberStates, Places
<1>11. CASE l.state = "IN_NUMBER_SIGN" /\ SignRead(s, l, i, p)
  <2>1. i # p /\ i + 1 = p /\ s[i] = MINUS /\ i + 1 > Len(s) BY <1>0, <1>1, <1>11 DEF SignRead
  <2>2. PieceAt(s, i, "OUTSIDE") = LastPiece(s, <<>>) BY <1>4, <1>6, <2>1, SignEnds
  <2> QED BY <1>5, <1>10, <1>11, <2>1, <2>2 DEF NumberStates
<1>12. CASE l.state = "IN_NUMBER" /\ IntRead(s, l, i, p)
  <2>1. PICK f \in 1..p : IntegerRead(s, l, i, f, p) BY <1>12 DEF IntRead
  <2>2. f \in 1..(Len(s) + 1) BY <1>1
  <2>3. i # p BY <1>0, <1>1, <2>1 DEF IntegerRead, FirstDigit
  <2>4. PieceAt(s, i, "OUTSIDE") = LastPiece(s, <<>>) BY <1>4, <1>6, <2>1, <2>2, <2>3, IntEnds
  <2> QED BY <1>5, <1>10, <1>12, <2>3, <2>4 DEF NumberStates
<1>13. CASE l.state = "IN_NUMBER_FRAC" /\ FracRead(s, l, i, p)
  <2>1. PICK f \in 1..p, m \in 1..p :
          IntegerRead(s, l, i, f, m) /\ s[m] = DOT /\ FractionRead(s, l, m, p)
    BY <1>13 DEF FracRead
  <2>2. f \in 1..(Len(s) + 1) BY <1>1
  <2>3. m \in 1..Len(s) /\ i # p
    <3>1. m < p BY <2>1 DEF FractionRead
    <3>2. f < m /\ (f = i \/ f = i + 1) BY <2>1 DEF IntegerRead, FirstDigit
    <3> QED BY <1>0, <1>1, <3>1, <3>2
  <2>4. l.minus \in BOOLEAN /\ l.exp_value = 0 /\ ~l.exp_minus
    BY <1>13 DEF Good, LexerType, Accumulators
  <2>5. PieceAt(s, i, "OUTSIDE") = LastPiece(s, <<>>)
    <3>1. i \in 1..Len(s) /\ p > Len(s) /\ p \in 1..(Len(s) + 1) BY <1>4, <2>3
    <3>2. ~At(s, p, DIGITS) BY <1>6
    <3>3. IntegerRead(s, l, i, f, m) /\ s[m] = DOT /\ FractionRead(s, l, m, p) BY <2>1
    <3>4. m \in 1..Len(s) BY <2>3
    <3>5. /\ p > Len(s) => PieceAt(s, i, "OUTSIDE") = LastPiece(s, <<>>)
          /\ ~(p > Len(s)) /\ l.frac_power = 0 =>
               PieceAt(s, i, "OUTSIDE") = LastPiece(s, <<Malformed>>)
          /\ ~(p > Len(s)) /\ l.frac_power # 0 /\ ~At(s, p, EXPONENT) =>
               PieceAt(s, i, "OUTSIDE") = Piece(<<TokenF(l)>>, p, "OUTSIDE")
      BY <2>2, <2>4, <3>1, <3>2, <3>3, <3>4, FracEnds
    <3> QED BY <3>1, <3>5
  <2> QED BY <1>5, <1>10, <1>13, <2>3, <2>5 DEF NumberStates
<1>14. ASSUME NEW f \in 1..p, NEW m \in 1..p, NEW e \in 1..p, ExponentAt(s, l, i, f, m, e), e < p
       PROVE  i # p /\ f \in 1..Len(s) /\ m \in 1..Len(s) /\ e \in 1..Len(s)
  <2>1. f < m /\ (f = i \/ f = i + 1) BY <1>14 DEF ExponentAt, IntegerRead, FirstDigit
  <2>2. m = e \/ m < e BY <1>14 DEF ExponentAt, FractionRead
  <2> QED BY <1>0, <1>1, <1>14, <2>1, <2>2
<1>15. CASE l.state = "IN_NUMBER_EXP_SIGN" /\ ExpSignRead(s, l, i, p)
  <2>1. PICK f \in 1..p, m \in 1..p, e \in 1..p : ExponentAt(s, l, i, f, m, e) /\ e + 1 = p
    BY <1>15 DEF ExpSignRead
  <2>2. e < p /\ e + 1 > Len(s) BY <1>0, <1>1, <2>1
  <2>3. i # p /\ f \in 1..Len(s) /\ m \in 1..Len(s) /\ e \in 1..Len(s) BY <1>14, <2>1, <2>2
  <2>4. PieceAt(s, i, "OUTSIDE") = LastPiece(s, <<>>)
    BY <1>4, <1>6, <2>1, <2>2, <2>3, ExpSignEnds
  <2> QED BY <1>5, <1>10, <1>15, <2>3, <2>4 DEF NumberStates
<1>16. CASE l.state = "IN_NUMBER_EXP" /\ ExpRead(s, l, i, p)
  <2>1. PICK f \in 1..p, m \in 1..p, e \in 1..p, d \in 1..p :
          ExponentAt(s, l, i, f, m, e) /\ ExponentRead(s, l, e, d, p)
    BY <1>16 DEF ExpRead
  <2>2. e < p BY <1>0, <1>1, <2>1 DEF ExponentRead
  <2>3. i # p /\ f \in 1..Len(s) /\ m \in 1..Len(s) /\ e \in 1..Len(s) BY <1>14, <2>1, <2>2
  <2>4. GoodExponent(l) BY <1>16, ExponentIsGood
  <2>5. PieceAt(s, i, "OUTSIDE") = LastPiece(s, <<>>)
    BY <1>4, <1>6, <2>1, <2>3, <2>4, ExpEnds
  <2> QED BY <1>5, <1>10, <1>16, <2>3, <2>5 DEF NumberStates
<1> QED BY <1>2, <1>3, <1>7, <1>8, <1>9, <1>11, <1>12, <1>13, <1>15, <1>16 DEF Read

(* The number that ends at p is the last token, if a text ends there.      *)
LEMMA LastCall ==
  ASSUME NEW s \in Text, NEW p \in 1..Len(s), p = Len(s), s[p] = EOF,
         NEW i \in 1..Len(s), NEW o, ToldUpTo(s, i, "OUTSIDE", o),
         NEW call \in Calls, PieceAt(s, i, "OUTSIDE") = Piece(<<call>>, p, "OUTSIDE")
  PROVE  Reference(s) = o \o <<call>>
<1>1. "OUTSIDE" \in Places BY DEF Places
<1>2. <<call>> \in Seq(Items) /\ <<>> \in Seq(Items) BY ItemLemma
<1>3. ToldUpTo(s, p, "OUTSIDE", o \o <<call>>) BY <1>1, <1>2, Advance
<1>4. PieceAt(s, p, "OUTSIDE") = LastPiece(s, <<>>) BY OutsidePieces
<1>5. PICK u : u = o \o <<call>> OBVIOUS
<1>6. Reference(s) = u \o <<>> BY <1>1, <1>2, <1>3, <1>4, <1>5, Conclude
<1>7. u \in Seq(Items) BY <1>3, <1>5 DEF ToldUpTo
<1> QED BY <1>5, <1>6, <1>7, ConcatEmptySeq

LEMMA EndNotIn ==
  /\ EOF \notin DIGITS /\ EOF \notin EXPONENT /\ EOF \notin {PLUS, MINUS} /\ EOF # DOT
  /\ EOF \notin HexDigits /\ EOF \notin DOMAIN Escaped \cup {117}
  /\ \A name \in KeywordStates : \A k \in 1..Len(Keyword[name]) : EOF # Keyword[name][k]
<1>1. EOF \notin Byte BY DEF EOF, Byte
<1>2. /\ DIGITS \subseteq Byte /\ EXPONENT \subseteq Byte /\ HexDigits \subseteq Byte
      /\ PLUS \in Byte /\ MINUS \in Byte /\ DOT \in Byte
      /\ DOMAIN Escaped \cup {117} \subseteq Byte
  <2>1. DIGITS \subseteq Byte /\ EXPONENT \subseteq Byte BY DEF DIGITS, EXPONENT, Byte
  <2>2. HexDigits \subseteq Byte BY DEF HexDigits, DIGITS, Byte
  <2>3. PLUS \in Byte /\ MINUS \in Byte /\ DOT \in Byte BY DEF PLUS, MINUS, DOT, Byte
  <2>4. DOMAIN Escaped \cup {117} \subseteq Byte BY ByteSets DEF Byte
  <2> QED BY <2>1, <2>2, <2>3, <2>4
<1>3. \A name \in KeywordStates : \A k \in 1..Len(Keyword[name]) : Keyword[name][k] \in Byte
  <2>1. /\ <<116, 114, 117, 101>> \in Seq(0..255)
        /\ <<102, 97, 108, 115, 101>> \in Seq(0..255)
        /\ <<110, 117, 108, 108>> \in Seq(0..255)
    OBVIOUS
  <2>2. /\ Keyword["IN_TRUE"] \in Seq(Byte)
        /\ Keyword["IN_FALSE"] \in Seq(Byte)
        /\ Keyword["IN_NULL"] \in Seq(Byte)
    BY <2>1 DEF Keyword, KeywordStates, Byte
  <2> QED BY <2>2 DEF KeywordStates
<1>4. EOF \notin {PLUS, MINUS} /\ EOF # DOT BY <1>1, <1>2
<1> QED BY <1>1, <1>2, <1>3, <1>4

LEMMA EndFollows ==
  ASSUME NEW s \in Text, NEW p \in 1..Len(s), p = Len(s), s[p] = EOF,
         NEW l, Good(l), NEW o \in Seq(Items), Follows(s, l, p, o)
  PROVE  /\ ErrorAtEnd(l) # "OK" => Reference(s) = o \o <<Malformed>>
         /\ ErrorAtEnd(l) = "OK" /\ (p > 1 => s[p - 1] \notin {DOT, PLUS, MINUS}) =>
              Reference(s) = o \o Told(CallsAtEnd(l))
<1> DEFINE Goal == /\ ErrorAtEnd(l) # "OK" => Reference(s) = o \o <<Malformed>>
                   /\ ErrorAtEnd(l) = "OK" /\ (p > 1 => s[p - 1] \notin {DOT, PLUS, MINUS}) =>
                        Reference(s) = o \o Told(CallsAtEnd(l))
<1> SUFFICES Goal OBVIOUS
<1>0. Len(s) \in Nat /\ l \in LexerType BY TextLemma DEF Good
<1>1. PICK place \in Places : place = PlaceOf(l) BY DEF PlaceOf, Places
<1>2. PICK i \in 1..p : ToldUpTo(s, i, place, o) /\ Read(s, l, i, p) BY <1>1 DEF Follows
<1>3. i \in 1..Len(s) /\ ~(p > Len(s)) /\ p \in 1..(Len(s) + 1) BY <1>0
<1>4. ASSUME ErrorAtEnd(l) # "OK", PieceAt(s, i, place) = LastPiece(s, <<Malformed>>) PROVE Goal
  BY <1>2, <1>3, <1>4, ItemLemma, Conclude
<1>5. ASSUME place = "OUTSIDE", NEW call \in Calls, ErrorAtEnd(l) = "OK", CallsAtEnd(l) = <<call>>,
             call.call \notin {"tokenc", "tokenbn"},
             (p > 1 => s[p - 1] \notin {DOT, PLUS, MINUS}) =>
               PieceAt(s, i, "OUTSIDE") = Piece(<<call>>, p, "OUTSIDE")
      PROVE  Goal
  BY <1>2, <1>3, <1>5, ToldPlain, LastCall
<1>6. /\ ~At(s, p, DIGITS) /\ ~At(s, p, EXPONENT) /\ ~At(s, p, {PLUS, MINUS})
      /\ ~At(s, p, DIGITS \cup EXPONENT \cup {DOT})
  BY EndNotIn DEF At
<1>7. CASE l.state = "LOOKUP_TOKEN" /\ i = p
  <2>1. place = "OUTSIDE" BY <1>1, <1>7 DEF PlaceOf, StringStates
  <2>2. ErrorAtEnd(l) = "OK" /\ CallsAtEnd(l) = <<>>
    BY <1>7 DEF ErrorAtEnd, CallsAtEnd, StringStates
  <2>3. PieceAt(s, i, "OUTSIDE") = LastPiece(s, <<>>) BY <1>7, OutsidePieces
  <2>4. Reference(s) = o \o <<>> BY <1>2, <1>3, <2>1, <2>3, ItemLemma, Conclude
  <2> QED BY <2>2, <2>4, ToldOne
<1>8. CASE l.state \in StringStates
  <2>1. place = "INSIDE" BY <1>1, <1>8 DEF PlaceOf
  <2>2. ErrorAtEnd(l) # "OK" BY <1>8 DEF ErrorAtEnd
  <2>3. CASE l.state = "IN_STRING"
    <3>1. i = p BY <1>2, <2>3 DEF Read, KeywordStates
    <3>2. PieceAt(s, i, "INSIDE") = LastPiece(s, <<Malformed>>) BY <3>1, InsidePieces
    <3> QED BY <1>4, <2>1, <2>2, <3>2
  <2>4. CASE l.state = "IN_STRING_ESCAPE"
    <3>1. i + 1 = p /\ s[i] = BACKSLASH BY <1>2, <2>4 DEF Read, KeywordStates
    <3>2. i + 1 <= Len(s) /\ s[i + 1] \notin DOMAIN Escaped \cup {117}
      BY <1>0, <3>1, EndNotIn
    <3>3. PieceAt(s, i, "INSIDE") = LastPiece(s, <<Malformed>>)
      BY <1>3, <3>1, <3>2, EscapeIs
    <3> QED BY <1>4, <2>1, <2>2, <3>3
  <2>5. CASE l.state = "IN_STRING_UNICODE_ESCAPE"
    <3>1. UnicodeRead(s, l, i, p) BY <1>2, <2>5 DEF Read, KeywordStates
    <3>2. l.offset \in 0..3 BY <2>5 DEF Good, Offsets
    <3>3. PieceAt(s, i, "INSIDE") = LastPiece(s, <<Malformed>>)
      BY <1>3, <3>1, <3>2, EndNotIn, UnicodeEnds
    <3> QED BY <1>4, <2>1, <2>2, <3>3
  <2> QED BY <1>8, <2>3, <2>4, <2>5 DEF StringStates
<1>9. CASE l.state \in KeywordStates
  <2>1. place = "OUTSIDE" BY <1>1, <1>9 DEF PlaceOf, StringStates, KeywordStates
  <2>2. ErrorAtEnd(l) # "OK" BY <1>9 DEF ErrorAtEnd, KeywordStates, StringStates
  <2>3. KeywordRead(s, l, i, p) BY <1>2, <1>9 DEF Read, KeywordStates
  <2>4. l.offset \in 1..(Len(Keyword[l.state]) - 1) BY <1>9 DEF Good, Offsets
  <2>5. Len(Keyword[l.state]) \in {4, 5} BY <1>9 DEF Keyword, KeywordStates
  <2>6. l.offset + 1 \in 1..Len(Keyword[l.state]) BY <2>4, <2>5
  <2>7. s[p] # Keyword[l.state][l.offset + 1] BY <1>9, <2>6, EndNotIn
  <2>8. PieceAt(s, i, "OUTSIDE") = LastPiece(s, <<Malformed>>)
    BY <1>3, <2>3, <2>4, <2>7, KeywordEnds
  <2> QED BY <1>4, <2>1, <2>2, <2>8
<1>10. ASSUME l.state \in NumberStates PROVE place = "OUTSIDE"
  BY <1>1, <1>10 DEF PlaceOf, StringStates, NumberStates
<1>11. CASE l.state = "IN_NUMBER_SIGN" /\ SignRead(s, l, i, p)
  <2>1. ErrorAtEnd(l) # "OK" BY <1>11 DEF ErrorAtEnd
  <2>2. i + 1 = p /\ s[i] = MINUS BY <1>11 DEF SignRead
  <2>3. PieceAt(s, i, "OUTSIDE") = LastPiece(s, <<Malformed>>) BY <1>3, <1>6, <2>2, SignEnds
  <2> QED BY <1>4, <1>10, <1>11, <2>1, <2>3 DEF NumberStates
<1>12. CASE l.state = "IN_NUMBER" /\ IntRead(s, l, i, p)
  <2>1. PICK f \in 1..p : IntegerRead(s, l, i, f, p) BY <1>12 DEF IntRead
  <2>2. PICK call : call = TokenI(l) OBVIOUS
  <2>3. call \in Calls /\ call.call = "tokeni" BY <2>2, TokenILemma DEF Calls, TokenI
  <2>4. ErrorAtEnd(l) = "OK" /\ CallsAtEnd(l) = <<call>>
    BY <1>12, <2>2 DEF ErrorAtEnd, CallsAtEnd, StringStates
  <2>5. f \in 1..(Len(s) + 1) BY <1>0
  <2>6. /\ p > Len(s) => PieceAt(s, i, "OUTSIDE") = LastPiece(s, <<>>)
        /\ ~(p > Len(s)) => PieceAt(s, i, "OUTSIDE") = Piece(<<TokenI(l)>>, p, "OUTSIDE")
    <3>1. i \in 1..Len(s) /\ p \in 1..(Len(s) + 1) /\ ~At(s, p, DIGITS \cup EXPONENT \cup {DOT})
      BY <1>3, <1>6
    <3> QED BY <2>1, <2>5, <3>1, IntEnds
  <2>7. PieceAt(s, i, "OUTSIDE") = Piece(<<call>>, p, "OUTSIDE") BY <1>3, <2>2, <2>6
  <2> QED BY <1>5, <1>10, <1>12, <2>3, <2>4, <2>7 DEF NumberStates
<1>13. ASSUME l.state \in {"IN_NUMBER_FRAC", "IN_NUMBER_EXP"},
              (p > 1 => s[p - 1] \notin {DOT, PLUS, MINUS}) =>
                PieceAt(s, i, "OUTSIDE") = Piece(<<TokenF(l)>>, p, "OUTSIDE")
       PROVE  Goal
  <2>1. PICK call : call = TokenF(l) OBVIOUS
  <2>2. call \in Calls /\ call.call = "tokenf" BY <1>13, <2>1, TokenFLemma DEF Calls, TokenF
  <2>3. ErrorAtEnd(l) = "OK" /\ CallsAtEnd(l) = <<call>>
    BY <1>13, <2>1 DEF ErrorAtEnd, CallsAtEnd, StringStates
  <2> QED BY <1>5, <1>10, <1>13, <2>1, <2>2, <2>3 DEF NumberStates
<1>14. CASE l.state = "IN_NUMBER_FRAC" /\ FracRead(s, l, i, p)
  <2>1. PICK f \in 1..p, m \in 1..p :
          IntegerRead(s, l, i, f, m) /\ s[m] = DOT /\ FractionRead(s, l, m, p)
    BY <1>14 DEF FracRead
  <2>2. f \in 1..(Len(s) + 1) /\ m \in 1..Len(s) BY <1>0
  <2>3. l.minus \in BOOLEAN /\ l.exp_value = 0 /\ ~l.exp_minus
    BY <1>14 DEF Good, LexerType, Accumulators
  <2>4. ~At(s, p, DIGITS) /\ ~At(s, p, EXPONENT) BY <1>6
  <2>5. /\ p > Len(s) => PieceAt(s, i, "OUTSIDE") = LastPiece(s, <<>>)
        /\ ~(p > Len(s)) /\ l.frac_power = 0 =>
             PieceAt(s, i, "OUTSIDE") = LastPiece(s, <<Malformed>>)
        /\ ~(p > Len(s)) /\ l.frac_power # 0 /\ ~At(s, p, EXPONENT) =>
             PieceAt(s, i, "OUTSIDE") = Piece(<<TokenF(l)>>, p, "OUTSIDE")
    <3>1. i \in 1..Len(s) /\ p \in 1..(Len(s) + 1) BY <1>3
    <3>2. IntegerRead(s, l, i, f, m) /\ s[m] = DOT /\ FractionRead(s, l, m, p) BY <2>1
    <3> QED BY <2>2, <2>3, <2>4, <3>1, <3>2, FracEnds
  <2>6. (p > 1 => s[p - 1] \notin {DOT, PLUS, MINUS}) => l.frac_power # 0
    <3>1. m < p /\ l.frac_power = p - m - 1 /\ s[m] = DOT BY <2>1 DEF FractionRead
    <3>2. l.frac_power = 0 => m = p - 1 /\ p > 1 BY <1>0, <3>1
    <3> QED BY <3>1, <3>2
  <2> QED BY <1>3, <1>13, <1>14, <2>4, <2>5, <2>6
<1>15. ASSUME NEW f \in 1..p, NEW m \in 1..p, NEW e \in 1..p
       PROVE  f \in 1..Len(s) /\ m \in 1..Len(s) /\ e \in 1..Len(s)
  BY <1>0
<1>16. CASE l.state = "IN_NUMBER_EXP_SIGN" /\ ExpSignRead(s, l, i, p)
  <2>1. PICK f \in 1..p, m \in 1..p, e \in 1..p : ExponentAt(s, l, i, f, m, e) /\ e + 1 = p
    BY <1>16 DEF ExpSignRead
  <2>2. ErrorAtEnd(l) # "OK" BY <1>16 DEF ErrorAtEnd, StringStates
  <2>3. f \in 1..Len(s) /\ m \in 1..Len(s) /\ e \in 1..Len(s) BY <1>15
  <2>4. PieceAt(s, i, "OUTSIDE") = LastPiece(s, <<Malformed>>)
    BY <1>3, <1>6, <2>1, <2>3, ExpSignEnds
  <2> QED BY <1>4, <1>10, <1>16, <2>2, <2>4 DEF NumberStates
<1>17. CASE l.state = "IN_NUMBER_EXP" /\ ExpRead(s, l, i, p)
  <2>1. PICK f \in 1..p, m \in 1..p, e \in 1..p, d \in 1..p :
          ExponentAt(s, l, i, f, m, e) /\ ExponentRead(s, l, e, d, p)
    BY <1>17 DEF ExpRead
  <2>2. f \in 1..Len(s) /\ m \in 1..Len(s) /\ e \in 1..Len(s) BY <1>15
  <2>3. GoodExponent(l) BY <1>17, ExponentIsGood
  <2>4. l.exp_not_empty => PieceAt(s, i, "OUTSIDE") = Piece(<<TokenF(l)>>, p, "OUTSIDE")
    BY <1>3, <1>6, <2>1, <2>2, <2>3, ExpEnds
  <2>5. (p > 1 => s[p - 1] \notin {DOT, PLUS, MINUS}) => l.exp_not_empty
    <3>1. /\ e + 1 < p /\ (l.exp_not_empty <=> d < p)
          /\ d = IF s[e + 1] \in {PLUS, MINUS} THEN e + 2 ELSE e + 1
      BY <2>1 DEF ExponentRead, ExponentDigits
    <3>2. ~l.exp_not_empty => e + 1 = p - 1 /\ p > 1 /\ s[e + 1] \in {PLUS, MINUS}
      BY <1>0, <3>1
    <3> QED BY <3>2
  <2> QED BY <1>13, <1>17, <2>4, <2>5
<1> QED BY <1>2, <1>7, <1>8, <1>9, <1>11, <1>12, <1>14, <1>16, <1>17 DEF Read, StringStates

(***************************************************************************)
(* The inductive invariant                                                 *)
(***************************************************************************)
LEMMA BytewiseItems == ASSUME NEW c \in Calls PROVE Bytewise(c) \in Seq(Items)
<1>1. CASE c.call \notin {"tokenc", "tokenbn"}
  <2>1. Bytewise(c) = <<c>> BY <1>1, ToldPlain
  <2> QED BY <2>1, ItemLemma
<1>2. ASSUME NEW S, c \in [call : {c.call}, bytes : Seq(S)], c.call \in {"tokenc", "tokenbn"},
             \A x \in S : [call |-> c.call, bytes |-> <<x>>] \in Items
      PROVE  Bytewise(c) \in Seq(Items)
  <2>1. PICK n, d : n = Len(c.bytes) /\ d = c.bytes OBVIOUS
  <2>2. n \in Nat /\ \A k \in 1..n : d[k] \in S BY <1>2, <2>1
  <2>3. \A k : [c EXCEPT !.bytes = <<d[k]>>] = [call |-> c.call, bytes |-> <<d[k]>>] BY <1>2
  <2>4. Bytewise(c) = [k \in 1..n |-> [c EXCEPT !.bytes = <<d[k]>>]] BY <1>2, <2>1 DEF Bytewise
  <2>5. [k \in 1..n |-> [c EXCEPT !.bytes = <<d[k]>>]]
          = [k \in 1..n |-> [call |-> c.call, bytes |-> <<d[k]>>]]
    BY <2>3, Zenon
  <2>6. \A k \in 1..n : [call |-> c.call, bytes |-> <<d[k]>>] \in Items BY <1>2, <2>2
  <2>7. [k \in 1..n |-> [call |-> c.call, bytes |-> <<d[k]>>]] \in Seq(Items) BY <2>2, <2>6
  <2> QED BY <2>4, <2>5, <2>7
<1>3. CASE c.call = "tokenc"
  <2>1. c \in [call : {"tokenc"}, bytes : Seq(Byte)] BY <1>3 DEF Calls, PlainCalls
  <2>2. \A x \in Byte : [call |-> "tokenc", bytes |-> <<x>>] \in Items
    BY DEF Items, Calls, PlainCalls
  <2> QED BY <1>2, <1>3, <2>1, <2>2
<1>4. CASE c.call = "tokenbn"
  <2>1. c \in [call : {"tokenbn"}, bytes : Seq(BigNumberBytes)] BY <1>4 DEF Calls, PlainCalls
  <2>2. ASSUME NEW x \in BigNumberBytes PROVE <<x>> \in Seq(BigNumberBytes) \ {<<>>}
    <3>1. PICK q : q = <<x>> OBVIOUS
    <3>2. q \in Seq(BigNumberBytes) /\ Len(q) = 1 BY <3>1
    <3>3. q # <<>> BY <3>2, EmptySeq
    <3> QED BY <3>1, <3>2, <3>3
  <2>3. \A x \in BigNumberBytes : [call |-> "tokenbn", bytes |-> <<x>>] \in Items
    BY <2>2 DEF Items, Calls, PlainCalls
  <2> QED BY <1>2, <1>4, <2>1, <2>3
<1> QED BY <1>1, <1>3, <1>4

LEMMA ToldItems == ASSUME NEW q \in Seq(Calls) PROVE Told(q) \in Seq(Items)
<1>0. PICK n \in Nat : n = Len(q) OBVIOUS
<1>1. CASE n = 0 BY <1>0, <1>1, ItemLemma DEF Told
<1>2. CASE n = 1
  <2>0. 1 \in 1..n BY <1>2
  <2>1. q[1] \in Calls BY <1>0, <2>0
  <2>2. Told(q) = Bytewise(q[1]) BY <1>0, <1>2 DEF Told
  <2> QED BY <2>1, <2>2, BytewiseItems
<1>3. CASE n # 0 /\ n # 1
  <2>1. 1 \in 1..n /\ 2 \in 1..n BY <1>3
  <2>2. q[1] \in Calls /\ q[2] \in Calls BY <1>0, <2>1
  <2>3. Told(q) = Bytewise(q[1]) \o Bytewise(q[2]) BY <1>0, <1>3 DEF Told
  <2> QED BY <2>2, <2>3, BytewiseItems, ConcatProperties
<1> QED BY <1>1, <1>2, <1>3

LEMMA OutGrows ==
  ASSUME out \in Seq(Items), calls' \in Seq(Calls), Record, err = "OK"
  PROVE  out' \in Seq(Items) /\ (Unlimited' => Unlimited)
<1>1. PICK t, u : t = Told(calls') /\ u = IF err' = "OK" THEN <<>> ELSE <<Malformed>> OBVIOUS
<1>2. t \in Seq(Items) /\ u \in Seq(Items) BY <1>1, ToldItems, ItemLemma
<1>3. out' = (out \o t) \o u BY <1>1 DEF Record
<1>4. PICK v : v = out \o t OBVIOUS
<1>5. v \in Seq(Items) /\ Len(v) = Len(out) + Len(t) /\ \A k \in 1..Len(out) : v[k] = out[k]
  BY <1>2, <1>4, ConcatProperties
<1>6. /\ out' \in Seq(Items) /\ Len(out') = Len(v) + Len(u) /\ \A k \in 1..Len(v) : out'[k] = v[k]
  BY <1>2, <1>3, <1>4, <1>5, ConcatProperties
<1>7. \A k \in DOMAIN out : k \in DOMAIN out' /\ out'[k] = out[k]
  <2>1. Len(out) \in Nat /\ Len(t) \in Nat /\ Len(u) \in Nat BY <1>2
  <2>2. DOMAIN out = 1..Len(out) /\ DOMAIN out' = 1..Len(out') BY <1>6
  <2> QED BY <1>5, <1>6, <2>1, <2>2
<1> QED BY <1>6, <1>7 DEF Unlimited

Extends(s, t) == Len(t) <= Len(s) /\ \A k \in 1..Len(t) : s[k] = t[k]

(* Where the lexer is: the working copy during a push, the byte that is    *)
(* looked at next, and the text that has not been handed over yet.         *)
AtWork == IF pushing THEN lex ELSE lexer
Unread == IF again THEN Len(input) ELSE Len(input) + 1
Pending == IF pushing THEN PendingOf(lex, chunk) ELSE <<>>

AgainInv == err = "OK" /\ again => pushing /\ input # <<>> /\ data = input[Len(input)]

Known ==
  Unlimited /\ err = "OK" /\ ~finalized =>
    \A s \in Text : Extends(s, input) => Follows(s, AtWork, Unread, out \o Pending)

Failed ==
  Unlimited /\ err # "OK" /\ ~InputEnds => \A s \in Text : Extends(s, input) => Reference(s) = out

RInv ==
  /\ IInv /\ input \in Seq(Byte) /\ out \in Seq(Items)
  /\ AgainInv /\ Known /\ Failed /\ AllTokensAtEnd

LEMMA InputText ==
  ASSUME NEW t \in Seq(Byte)
  PROVE  /\ t \in Text /\ Extends(t, t)
         /\ Append(t, EOF) \in Text /\ Extends(Append(t, EOF), t)
         /\ Len(Append(t, EOF)) = Len(t) + 1 /\ Append(t, EOF)[Len(t) + 1] = EOF
<1>1. Byte \subseteq Byte \cup {EOF} /\ EOF \in Byte \cup {EOF} OBVIOUS
<1>2. t \in Seq(Byte \cup {EOF}) BY <1>1
<1>3. /\ Append(t, EOF) \in Seq(Byte \cup {EOF}) /\ Len(Append(t, EOF)) = Len(t) + 1
      /\ \A k \in 1..Len(t) : Append(t, EOF)[k] = t[k]
      /\ Append(t, EOF)[Len(t) + 1] = EOF
  BY <1>1, <1>2
<1>4. Len(t) \in Nat OBVIOUS
<1> QED BY <1>2, <1>3, <1>4 DEF Text, Extends

LEMMA ExtendsAppend ==
  ASSUME NEW t \in Seq(Byte), NEW b \in Byte, NEW s \in Text, Extends(s, Append(t, b))
  PROVE  Extends(s, t) /\ Len(t) + 1 \in 1..Len(s) /\ s[Len(t) + 1] = b
<1>1. /\ Len(Append(t, b)) = Len(t) + 1 /\ \A k \in 1..Len(t) : Append(t, b)[k] = t[k]
      /\ Append(t, b)[Len(t) + 1] = b
  OBVIOUS
<1>2. Len(t) \in Nat /\ Len(s) \in Nat BY TextLemma
<1>3. Len(t) + 1 <= Len(s) /\ \A k \in 1..(Len(t) + 1) : s[k] = Append(t, b)[k]
  BY <1>1 DEF Extends
<1>4. \A k \in 1..Len(t) : k \in 1..(Len(t) + 1) BY <1>2
<1>5. Len(t) + 1 \in 1..(Len(t) + 1) /\ Len(t) + 1 \in 1..Len(s) BY <1>2, <1>3
<1> QED BY <1>1, <1>2, <1>3, <1>4, <1>5 DEF Extends

ReadByte(b) == Iterate(b) /\ Record /\ input' = IF again THEN input ELSE Append(input, b)

(* The byte of an iteration is that at the end of the input read so far.   *)
LEMMA ByteRead ==
  ASSUME RInv, NEW b \in Alphabet, ReadByte(b), NEW s \in Text, Extends(s, input')
  PROVE  /\ b \in Byte /\ input' \in Seq(Byte) /\ Len(input') = Unread /\ input' # <<>>
         /\ input'[Unread] = b /\ Extends(s, input)
         /\ Unread \in 1..Len(s) /\ s[Unread] = b
<1>1. b \in Byte BY LexerAssumption DEF Byte
<1>2. CASE again
  <2>1. input' = input /\ input # <<>> /\ b = input[Len(input)] /\ Unread = Len(input)
    BY <1>2 DEF ReadByte, Iterate, Alive, RInv, AgainInv, Unread
  <2>2. input \in Seq(Byte) /\ Len(input) \in Nat BY DEF RInv
  <2>3. Len(input) # 0 BY <2>1, <2>2, EmptySeq
  <2>4. Len(input) \in 1..Len(input) /\ Len(input) \in 1..Len(s)
    BY <2>1, <2>2, <2>3, TextLemma DEF Extends
  <2> QED BY <1>1, <2>1, <2>2, <2>4 DEF Extends
<1>3. CASE ~again
  <2>1. input' = Append(input, b) /\ Unread = Len(input) + 1 /\ input \in Seq(Byte)
    BY <1>3 DEF ReadByte, Unread, RInv
  <2>2. Append(input, b) \in Seq(Byte) /\ Len(Append(input, b)) = Len(input) + 1
        /\ Append(input, b)[Len(input) + 1] = b
    BY <1>1, <2>1
  <2>3. Len(input) \in Nat /\ Len(input') # 0 BY <2>1, <2>2
  <2>4. input' # <<>> BY <2>1, <2>2, <2>3, EmptySeq
  <2> QED BY <1>1, <2>1, <2>2, <2>4, ExtendsAppend
<1> QED BY <1>2, <1>3

LEMMA StepOutcome ==
  ASSUME FractionFits, RInv, NEW b \in Alphabet, ReadByte(b), Unlimited',
         NEW s \in Text, Extends(s, input')
  PROVE  Outcome(s, Unread)
<1>1. /\ Iterate(b) /\ Record /\ pushing /\ err = "OK" /\ ~finalized
      /\ Good(lex) /\ GoodChunk(lex.state, chunk) /\ out \in Seq(Items)
  BY DEF ReadByte, Iterate, Alive, RInv, IInv
<1>2. /\ b \in Byte /\ Extends(s, input) /\ Unread \in 1..Len(s) /\ s[Unread] = b BY ByteRead
<1>3. IInv' BY <1>1, IterateLemma DEF RInv
<1>4. calls' \in Seq(Calls) BY <1>3 DEF IInv
<1>5. Unlimited BY <1>1, <1>4, OutGrows
<1>6. Follows(s, lex, Unread, out \o PendingOf(lex, chunk))
  BY <1>1, <1>2, <1>5 DEF RInv, Known, AtWork, Pending
<1>7. PICK l : l = Sniff(lex, b) OBVIOUS
<1>8. Good(l) /\ l.state = lex.state /\ lex \in LexerType BY <1>1, <1>2, <1>7, SniffLemma DEF Good
<1>9. Follows(s, l, Unread, out \o PendingOf(lex, chunk)) BY <1>6, <1>7, <1>8, SniffReads
<1>10. PendingOf(l, chunk) = PendingOf(lex, chunk) BY <1>8 DEF PendingOf
<1>11. Reading(s, l, Unread, b) BY <1>1, <1>2, <1>8, <1>9, <1>10 DEF Reading
<1> QED BY <1>1, <1>7, <1>11, IterateFollows

LEMMA ReadByteStep ==
  ASSUME FractionFits, RInv, NEW b \in Alphabet, ReadByte(b)
  PROVE  RInv'
<1>0. Iterate(b) /\ Record /\ pushing /\ err = "OK" /\ ~finalized /\ out \in Seq(Items)
  BY DEF ReadByte, Iterate, Alive, RInv
<1>1. IInv' BY <1>0, IterateLemma DEF RInv
<1>2. out' \in Seq(Items)
  <2>1. calls' \in Seq(Calls) BY <1>1 DEF IInv
  <2> QED BY <1>0, <2>1, OutGrows
<1>3. /\ input' \in Seq(Byte) /\ Len(input') = Unread /\ input' # <<>> /\ input'[Unread] = b
  <2>1. input \in Seq(Byte) /\ b \in Byte BY LexerAssumption DEF RInv, Byte
  <2>2. input' \in Seq(Byte)
    <3>1. Append(input, b) \in Seq(Byte) BY <2>1
    <3> QED BY <2>1, <3>1 DEF ReadByte
  <2>3. input' \in Text /\ Extends(input', input') BY <2>2, InputText
  <2> QED BY <2>3, ByteRead
<1>4. data' = b /\ finalized' = finalized /\ pushing' = (err' = "OK") BY <1>0 DEF Iterate
<1>5. AgainInv' BY <1>3, <1>4 DEF AgainInv
<1>6. ASSUME Unlimited', NEW s \in Text, Extends(s, input')
      PROVE  \/ /\ err' = "OK"
                /\ Follows(s, AtWork', Unread', out' \o Pending')
             \/ err' # "OK" /\ Reference(s) = out'
  <2>1. Outcome(s, Unread) BY <1>6, StepOutcome
  <2>2. CASE err' # "OK" BY <1>6, <2>1, <2>2 DEF Outcome
  <2>3. CASE err' = "OK"
    <3>1. Follows(s, lex', IF again' THEN Unread ELSE Unread + 1, out' \o PendingOf(lex', chunk'))
      BY <1>6, <2>1, <2>3 DEF Outcome
    <3>2. AtWork' = lex' /\ Pending' = PendingOf(lex', chunk')
      BY <1>4, <2>3 DEF AtWork, Pending
    <3>3. Unread' = IF again' THEN Unread ELSE Unread + 1 BY <1>3 DEF Unread
    <3> QED BY <2>3, <3>1, <3>2, <3>3
  <2> QED BY <2>2, <2>3
<1>7. Known' BY <1>6 DEF Known
<1>8. Failed' BY <1>6 DEF Failed
<1>9. AllTokensAtEnd'
  <2> SUFFICES ASSUME Unlimited', InputEnds' PROVE out' = Reference(Append(input', EOF))
    BY <1>0, <1>4 DEF AllTokensAtEnd
  <2>1. err' # "OK" BY DEF InputEnds
  <2>2. Append(input', EOF) \in Text /\ Extends(Append(input', EOF), input') BY <1>3, InputText
  <2> QED BY <1>6, <2>1, <2>2
<1> QED BY <1>1, <1>2, <1>3, <1>5, <1>7, <1>8, <1>9 DEF RInv

(***************************************************************************)
(* The other steps                                                         *)
(***************************************************************************)
LEMMA InitialText == RInit => RInv
<1> SUFFICES ASSUME RInit PROVE RInv OBVIOUS
<1>1. /\ IInv /\ input = <<>> /\ out = <<>> /\ err = "OK" /\ ~pushing /\ ~again /\ ~finalized
      /\ lexer.state = "LOOKUP_TOKEN"
  BY InitLemma DEF RInit, Init, ZeroedLexer
<1>2. input \in Seq(Byte) /\ out \in Seq(Items) BY <1>1, ItemLemma
<1>3. Unread = 1 /\ AtWork = lexer /\ Pending = <<>> BY <1>1 DEF Unread, AtWork, Pending
<1>4. out \o Pending = <<>> BY <1>1, <1>3
<1>5. PlaceOf(lexer) = "OUTSIDE" BY <1>1 DEF PlaceOf, StringStates
<1>6. ASSUME NEW s \in Text PROVE Follows(s, AtWork, Unread, out \o Pending)
  BY <1>1, <1>3, <1>4, <1>5, ToldInit, ReadAnew
<1>7. Known BY <1>6 DEF Known
<1>8. AgainInv /\ Failed /\ AllTokensAtEnd
  BY <1>1 DEF AgainInv, Failed, AllTokensAtEnd, InputEnds
<1> QED BY <1>1, <1>2, <1>7, <1>8 DEF RInv

LEMMA BeginPushText ==
  ASSUME RInv, NEW size \in 1..MaxBuffer, BeginPush(size), UNCHANGED <<input, out>>
  PROVE  RInv'
<1>1. size \in 0..MaxBuffer BY LexerAssumption
<1>2. IInv' BY <1>1, BeginPushLemma DEF RInv
<1>3. /\ err = "OK" /\ err' = err /\ ~finalized /\ finalized' = finalized
      /\ ~pushing /\ pushing' /\ again' = again /\ ~again /\ lex' = lexer
  BY DEF BeginPush, Alive, RInv, AgainInv, IInv
<1>4. AtWork = lexer /\ AtWork' = lexer /\ Unread' = Unread
  BY <1>3 DEF AtWork, Unread
<1>5. Pending = <<>> /\ Pending' = <<>>
  <2>1. lexer.state = "IN_STRING" => chunk' = <<>> BY DEF BeginPush, ChunkStates
  <2>2. PendingOf(lex', chunk') = <<>> BY <1>3, <2>1, BytewiseParts DEF PendingOf
  <2> QED BY <1>3, <2>2 DEF Pending
<1>6. Unlimited' <=> Unlimited BY <1>3 DEF Unlimited
<1>7. AgainInv' BY <1>3 DEF AgainInv
<1>8. Known' BY <1>3, <1>4, <1>5, <1>6 DEF RInv, Known
<1>9. Failed' /\ AllTokensAtEnd' BY <1>3 DEF Failed, AllTokensAtEnd, InputEnds
<1> QED BY <1>2, <1>7, <1>8, <1>9 DEF RInv

(* The end of a buffer hands over the text that was pending.               *)
LEMMA EndPushText ==
  ASSUME RInv, EndPush, Record, UNCHANGED input
  PROVE  RInv'
<1>1. IInv' BY EndPushLemma DEF RInv
<1>2. /\ err = "OK" /\ err' = "OK" /\ ~finalized /\ finalized' = finalized
      /\ pushing /\ ~pushing' /\ again' = again /\ ~again /\ lexer' = lex
      /\ calls' = CallsAtBufferEnd(lex) /\ out \in Seq(Items) /\ input' = input
  BY DEF EndPush, Alive, RInv, IInv, Record, Make
<1>3. out' \in Seq(Items) /\ (Unlimited' => Unlimited)
  <2>1. calls' \in Seq(Calls) BY <1>1 DEF IInv
  <2> QED BY <1>2, <2>1, OutGrows
<1>4. AtWork = lex /\ AtWork' = lex /\ Unread' = Unread /\ Pending' = <<>>
      /\ Pending = PendingOf(lex, chunk)
  BY <1>2 DEF AtWork, Unread, Pending
<1>5. ASSUME Unlimited', NEW s \in Text, Extends(s, input)
      PROVE  Follows(s, AtWork', Unread', out' \o Pending')
  <2>1. Follows(s, lex, Unread, out \o PendingOf(lex, chunk))
    BY <1>2, <1>3, <1>4, <1>5 DEF RInv, Known
  <2>2. lex.state # "IN_BIG_NUMBER"
    <3> SUFFICES ASSUME lex.state = "IN_BIG_NUMBER" PROVE FALSE OBVIOUS
    <3>1. PICK i \in 1..Unread : Read(s, lex, i, Unread) BY <2>1 DEF Follows
    <3> QED BY <3>1 DEF Read, KeywordStates
  <2>3. Told(CallsAtBufferEnd(lex)) = PendingOf(lex, chunk)
    <3>1. CASE lex.state = "IN_STRING"
      <4>1. chunk \in Seq(Byte) BY <1>2, <3>1 DEF RInv, IInv, GoodChunk
      <4>2. CallsAtBufferEnd(lex) = Flush(TokenC(chunk)) BY <3>1 DEF CallsAtBufferEnd
      <4> QED BY <3>1, <4>1, <4>2, ToldText DEF PendingOf
    <3>2. CASE lex.state # "IN_STRING"
      <4>1. CallsAtBufferEnd(lex) = <<>> BY <2>2, <3>2 DEF CallsAtBufferEnd
      <4> QED BY <3>2, <4>1, ToldOne DEF PendingOf
    <3> QED BY <3>1, <3>2
  <2>4. PICK o : o = out \o PendingOf(lex, chunk) OBVIOUS
  <2>5. out' = o \o <<>> BY <1>2, <2>3, <2>4 DEF Record
  <2>6. o \in Seq(Items) BY <2>1, <2>4 DEF Follows, ToldUpTo
  <2>7. out' = o /\ o \o <<>> = o BY <2>5, <2>6, ConcatEmptySeq
  <2> QED BY <1>4, <2>1, <2>4, <2>7
<1>6. Known' BY <1>2, <1>5 DEF Known
<1>7. AgainInv' /\ Failed' /\ AllTokensAtEnd'
  BY <1>2 DEF AgainInv, Failed, AllTokensAtEnd, InputEnds
<1> QED BY <1>1, <1>2, <1>3, <1>6, <1>7 DEF RInv

LEMMA LastByte ==
  ASSUME NEW t \in Seq(Byte)
  PROVE  Len(t) > 0 => Last(<<EOF>> \o t) = t[Len(t)]
<1>1. PICK e : e = <<EOF>> OBVIOUS
<1>2. e \in Text /\ Len(e) = 1 BY <1>1 DEF Text
<1>3. t \in Text BY InputText
<1>4. /\ Len(e \o t) = Len(e) + Len(t)
      /\ \A k \in 1..(Len(e) + Len(t)) :
           (e \o t)[k] = IF k <= Len(e) THEN e[k] ELSE t[k - Len(e)]
  BY <1>2, <1>3, ConcatProperties DEF Text
<1>5. PICK n \in Nat : n = Len(t) OBVIOUS
<1>6. ASSUME n > 0 PROVE Last(e \o t) = t[n]
  <2>1. 1 + n \in 1..(1 + n) /\ ~(1 + n <= 1) /\ (1 + n) - 1 = n BY <1>6
  <2> QED BY <1>2, <1>4, <1>5, <2>1 DEF Last
<1> QED BY <1>1, <1>5, <1>6

LEMMA FinalizeText ==
  ASSUME RInv, Finalize, Record, UNCHANGED input
  PROVE  RInv'
<1>1. IInv' BY FinalizeLemma DEF RInv
<1>2. /\ err = "OK" /\ ~finalized /\ ~pushing /\ ~again /\ finalized' = (err' = "OK")
      /\ again' = again /\ out \in Seq(Items) /\ input \in Seq(Byte) /\ input' = input
      /\ Good(lexer)
  BY DEF Finalize, Alive, RInv, IInv, AgainInv
<1>3. \/ /\ ErrorAtEnd(lexer) # "OK" /\ err' = ErrorAtEnd(lexer) /\ calls' = <<>>
      \/ /\ ErrorAtEnd(lexer) = "OK" /\ err' = "OK" /\ calls' = CallsAtEnd(lexer)
  BY DEF Finalize, Record, Make
<1>4. err' # "OK" => InputEnds' BY <1>3 DEF ErrorAtEnd, InputEnds
<1>5. out' \in Seq(Items) /\ (Unlimited' => Unlimited)
  <2>1. calls' \in Seq(Calls) BY <1>1 DEF IInv
  <2> QED BY <1>2, <2>1, OutGrows
<1>6. Known' /\ Failed' /\ AgainInv' BY <1>2, <1>4 DEF Known, Failed, AgainInv
<1>7. AllTokensAtEnd'
  <2> SUFFICES ASSUME Unlimited',
                      err' # "OK" \/ Last(<<EOF>> \o input) \notin {DOT, PLUS, MINUS}
               PROVE  out' = Reference(Append(input, EOF))
    BY <1>2 DEF AllTokensAtEnd, InputEnds
  <2>1. PICK s, p : s = Append(input, EOF) /\ p = Len(input) + 1 OBVIOUS
  <2>2. /\ s \in Text /\ Extends(s, input) /\ Len(s) = p /\ s[p] = EOF /\ Len(input) \in Nat
    BY <1>2, <2>1, InputText
  <2>3. p \in 1..Len(s) /\ p = Len(s) BY <2>1, <2>2
  <2>4. Unread = p /\ AtWork = lexer /\ Pending = <<>>
    BY <1>2, <2>1 DEF Unread, AtWork, Pending
  <2>5. out \o <<>> = out BY <1>2, ConcatEmptySeq
  <2>6. Follows(s, lexer, p, out)
    BY <1>2, <1>5, <2>2, <2>4, <2>5 DEF RInv, Known
  <2>7. /\ ErrorAtEnd(lexer) # "OK" => Reference(s) = out \o <<Malformed>>
        /\ ErrorAtEnd(lexer) = "OK" /\ (p > 1 => s[p - 1] \notin {DOT, PLUS, MINUS}) =>
             Reference(s) = out \o Told(CallsAtEnd(lexer))
    BY <1>2, <2>2, <2>3, <2>6, EndFollows
  <2>8. CASE ErrorAtEnd(lexer) # "OK"
    <3>1. out' = (out \o <<>>) \o <<Malformed>> BY <1>3, <2>8, ToldOne DEF Record
    <3> QED BY <2>1, <2>5, <2>7, <2>8, <3>1
  <2>9. CASE ErrorAtEnd(lexer) = "OK"
    <3>1. p > 1 => s[p - 1] \notin {DOT, PLUS, MINUS}
      <4> SUFFICES ASSUME p > 1 PROVE s[p - 1] \notin {DOT, PLUS, MINUS} OBVIOUS
      <4>1. p - 1 = Len(input) /\ Len(input) > 0 /\ Len(input) \in 1..Len(input)
        BY <2>1, <2>2
      <4>2. s[p - 1] = input[Len(input)] BY <2>2, <4>1 DEF Extends
      <4> QED BY <1>2, <1>3, <2>9, <4>1, <4>2, LastByte
    <3>2. Reference(s) = out \o Told(calls') BY <1>3, <2>7, <2>9, <3>1
    <3>3. out' = (out \o Told(calls')) \o <<>> BY <1>3, <2>9 DEF Record
    <3>4. out \o Told(calls') \in Seq(Items)
      <4>1. calls' \in Seq(Calls) BY <1>1 DEF IInv
      <4> QED BY <1>2, <4>1, ToldItems, ConcatProperties
    <3>5. out' = out \o Told(calls') BY <3>3, <3>4, ConcatEmptySeq
    <3> QED BY <2>1, <3>2, <3>5
  <2> QED BY <2>8, <2>9
<1> QED BY <1>1, <1>2, <1>5, <1>6, <1>7 DEF RInv

LEMMA StillText == ASSUME RInv, UNCHANGED rvars PROVE RInv'
<1>1. IInv' BY DEF RInv, IInv, rvars, vars
<1>2. Unlimited' <=> Unlimited BY DEF rvars, vars, Unlimited
<1>3. Known'
  BY <1>2 DEF RInv, Known, AtWork, Unread, Pending, PendingOf, rvars, vars
<1>4. Failed' /\ AgainInv' /\ AllTokensAtEnd'
  BY <1>2 DEF RInv, Failed, AgainInv, AllTokensAtEnd, InputEnds, rvars, vars
<1> QED BY <1>1, <1>3, <1>4 DEF RInv, rvars

LEMMA TextStep == FractionFits /\ RInv /\ [RNext]_rvars => RInv'
<1> SUFFICES ASSUME FractionFits, RInv, [RNext]_rvars PROVE RInv' OBVIOUS
<1>1. ASSUME NEW size \in 1..MaxBuffer, BeginPush(size), UNCHANGED <<input, out>> PROVE RInv'
  BY <1>1, BeginPushText
<1>2. ASSUME NEW b \in Alphabet, ReadByte(b) PROVE RInv' BY <1>2, ReadByteStep
<1>3. CASE EndPush /\ Record /\ UNCHANGED input BY <1>3, EndPushText
<1>4. CASE Finalize /\ Record /\ UNCHANGED input BY <1>4, FinalizeText
<1>5. CASE Stopped /\ UNCHANGED <<input, out>> BY <1>5, StillText DEF Stopped, rvars
<1>6. CASE UNCHANGED rvars BY <1>6, StillText
<1> QED BY <1>1, <1>2, <1>3, <1>4, <1>5, <1>6 DEF RNext, ReadByte

LEMMA TextInvariant == ASSUME FractionFits PROVE RSpec => []RInv
<1>1. RInv /\ [RNext]_rvars => RInv' BY TextStep
<1> QED BY <1>1, InitialText, PTL DEF RSpec

LEMMA TokensSoFar == RInv => TokensDoNotDependOnBuffers
<1> SUFFICES ASSUME RInv, Unlimited, ~pushing, ~finalized, ~InputEnds
             PROVE  out = Reference(input)
  BY DEF TokensDoNotDependOnBuffers
<1>1. input \in Text /\ Extends(input, input) /\ out \in Seq(Items) /\ Good(lexer)
  BY InputText DEF RInv, IInv
<1>2. CASE err # "OK" BY <1>1, <1>2 DEF RInv, Failed
<1>3. CASE err = "OK"
  <2>1. ~again BY <1>3 DEF RInv, IInv, AgainInv
  <2>2. Unread = Len(input) + 1 /\ AtWork = lexer /\ Pending = <<>>
    BY <2>1 DEF Unread, AtWork, Pending
  <2>3. out \o <<>> = out BY <1>1, ConcatEmptySeq
  <2>4. Follows(input, lexer, Len(input) + 1, out)
    BY <1>1, <1>3, <2>2, <2>3 DEF RInv, Known
  <2> QED BY <1>1, <2>4, Incomplete
<1> QED BY <1>2, <1>3

(***************************************************************************)
(* The theorems.  frac_power counts fraction digits in 16 bits; with fewer *)
(* than 65536 of them it does not wrap around.                             *)
(***************************************************************************)
(* Between pushes, and when a push fails, the parser has been given the    *)
(* tokens of the input so far, whatever buffers embedjson_push got it in.  *)
THEOREM TokensFollowInput ==
  ASSUME MaxFraction < 65536 PROVE RSpec => []TokensDoNotDependOnBuffers
<1>1. FractionFits BY SMT DEF FractionFits, PowerModulus
<1>2. RSpec => []RInv BY <1>1, TextInvariant
<1> QED BY <1>2, TokensSoFar, PTL

(* embedjson_lexer_finalize completes the tokens: at the end of the input  *)
(* the parser has been given those of the whole text, and an open lexeme   *)
(* has been refused.                                                       *)
THEOREM EndCompletesTokens ==
  ASSUME MaxFraction < 65536 PROVE RSpec => []AllTokensAtEnd
<1>1. FractionFits BY SMT DEF FractionFits, PowerModulus
<1>2. RSpec => []RInv BY <1>1, TextInvariant
<1>3. RInv => AllTokensAtEnd BY DEF RInv
<1> QED BY <1>2, <1>3, PTL
=================================================================================
