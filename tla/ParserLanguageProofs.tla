------------------------- MODULE ParserLanguageProofs -------------------------
(***************************************************************************)
(* The parser accepts the documents of the grammar of ParserLanguage and   *)
(* nothing else, for every length of the input.  Soundness follows what    *)
(* the input has built so far (AcceptInv), completeness what may still     *)
(* follow it (RefuseInv).                                                  *)
(***************************************************************************)
EXTENDS ParserLanguage, ParserProofs, NaturalsInduction, FiniteSetTheorems, WellFoundedInduction,
        SequenceTheorems

(***************************************************************************)
(* The levels of the grammar                                               *)
(***************************************************************************)
Terminals == Tokens \cup {"NUMBER", "STRING"}
Texts == Seq(Terminals)
TextsOf(n) == {s \in Texts : Len(s) = n}

Levels == [values : SUBSET Texts, elements : SUBSET Texts, members : SUBSET Texts]

Level(g, n) == [values   |-> Values(g, n),
                elements |-> Elements(g, n),
                members  |-> Members(g, n)]

Fits(r, n) == /\ r.values \subseteq TextsOf(n) /\ r.elements \subseteq TextsOf(n)
              /\ r.members \subseteq TextsOf(n)

LEMMA JoinLength ==
  ASSUME NEW s \in Texts, NEW t \in Texts
  PROVE  s \o t \in Texts /\ Len(s \o t) = Len(s) + Len(t) /\ Len(s) \in Nat
  BY ConcatProperties DEF Texts

LEMMA Reassociate ==
  ASSUME NEW s \in Texts, NEW t \in Texts, NEW u \in Texts
  PROVE  (s \o t) \o u = s \o (t \o u)
  BY ConcatAssociative DEF Texts

LEMMA EmptyText == <<>> \in Texts /\ Len(<<>>) = 0 /\ \A s \in Texts : s \o <<>> = s /\ <<>> \o s = s
  BY ConcatEmptySeq DEF Texts

LEMMA OneToken == ASSUME NEW t \in Terminals PROVE <<t>> \in Texts /\ Len(<<t>>) = 1
  BY DEF Texts

LEMMA TwoTokens == <<"STRING">> \o <<"COLON">> = <<"STRING", "COLON">>
<1> DEFINE a == <<"STRING">>
           b == <<"COLON">>
           ab == <<"STRING", "COLON">>
<1>1. a \in Texts /\ b \in Texts /\ ab \in Texts BY DEF Texts, Terminals, Tokens
<1>2. Len(a) = 1 /\ Len(b) = 1 /\ Len(ab) = 2 OBVIOUS
<1>7. a[1] = ab[1] /\ b[1] = ab[2] OBVIOUS
<1> HIDE DEF a, b, ab
<1>3. a \o b \in Texts /\ Len(a \o b) = 2
  <2>1. a \o b \in Texts /\ Len(a \o b) = Len(a) + Len(b) BY <1>1, JoinLength
  <2> QED BY <1>2, <2>1
<1>4. \A i \in 1..2 : (a \o b)[i] = IF i <= 1 THEN a[i] ELSE b[i - 1]
  <2>1. \A i \in 1..(Len(a) + Len(b)) : (a \o b)[i] = IF i <= Len(a) THEN a[i] ELSE b[i - Len(a)]
    BY <1>1, ConcatProperties DEF Texts
  <2>2. Len(a) + Len(b) = 2 BY <1>2
  <2> QED BY <1>2, <2>1, <2>2
<1>5. \A i \in 1..2 : (a \o b)[i] = ab[i]
  <2> DEFINE ith(i) == (a \o b)[i]
             one(i) == a[i]
             two(i) == b[i]
  <2>3. \A i \in 1..2 : ith(i) = IF i <= 1 THEN one(i) ELSE two(i - 1) BY <1>4
  <2> HIDE DEF ith, one, two
  <2>4. ith(1) = one(1) /\ ith(2) = two(1) BY <2>3
  <2>1. (a \o b)[1] = a[1] /\ (a \o b)[2] = b[1] BY <2>4 DEF ith, one, two
  <2>2. \A i \in 1..2 : i = 1 \/ i = 2 OBVIOUS
  <2> QED BY <1>7, <2>1, <2>2
<1>6. a \o b = ab BY <1>1, <1>2, <1>3, <1>5, SeqEqual DEF Texts
<1> QED BY <1>6 DEF a, b, ab

LEMMA ConstantTexts ==
  /\ \A p \in Primitives : <<p>> \in Texts /\ Len(<<p>>) = 1
  /\ \A s \in Texts : /\ Curly(s) \in Texts /\ Len(Curly(s)) = Len(s) + 2
                      /\ Square(s) \in Texts /\ Len(Square(s)) = Len(s) + 2
                      /\ Member(s) \in Texts /\ Len(Member(s)) = Len(s) + 2
                      /\ MemberSeparator(s) \in Texts
                      /\ Follow(s) \in Texts
                      /\ Len(Follow(s)) = IF s = EmptyArray THEN 4 ELSE Len(s) + 3
  /\ EmptyArray \in TextsOf(2) /\ Curly(<<>>) \in TextsOf(2)
  /\ <<"COMMA">> \in Texts /\ <<"COLON">> \in Texts /\ <<"STRING">> \in Texts /\ <<>> \in Texts
<1>1. /\ <<"COMMA">> \in Texts /\ <<>> \in Texts /\ <<"STRING", "COLON">> \in Texts
      /\ <<"COLON">> \in Texts /\ <<"STRING">> \in Texts
      /\ <<"OPEN_BRACKET">> \in Texts /\ <<"CLOSE_BRACKET">> \in Texts
      /\ <<"OPEN_CURLY_BRACKET">> \in Texts /\ <<"CLOSE_CURLY_BRACKET">> \in Texts
  BY DEF Texts, Terminals, Tokens
<1>2. \A p \in Primitives : <<p>> \in Texts /\ Len(<<p>>) = 1
  BY DEF Primitives, Terminals, Tokens, Literals, Texts
<1>3. \A s \in Texts : /\ Curly(s) \in Texts /\ Len(Curly(s)) = Len(s) + 2
                       /\ Square(s) \in Texts /\ Len(Square(s)) = Len(s) + 2
                       /\ Member(s) \in Texts /\ Len(Member(s)) = Len(s) + 2
  <2> TAKE s \in Texts
  <2>1. Curly(s) \in Texts /\ Len(Curly(s)) = Len(s) + 2 BY <1>1 DEF Curly, Texts
  <2>2. Square(s) \in Texts /\ Len(Square(s)) = Len(s) + 2 BY <1>1 DEF Square, Texts
  <2>3. Member(s) \in Texts /\ Len(Member(s)) = Len(s) + 2 BY <1>1 DEF Member, Texts
  <2> QED BY <2>1, <2>2, <2>3
<1>4. EmptyArray \in TextsOf(2) /\ Curly(<<>>) \in TextsOf(2)
  <2>1. Len(<<>>) = 0 OBVIOUS
  <2>2. Square(<<>>) \in Texts /\ Len(Square(<<>>)) = Len(<<>>) + 2 BY <1>1, <1>3, Zenon
  <2>3. Curly(<<>>) \in Texts /\ Len(Curly(<<>>)) = Len(<<>>) + 2 BY <1>1, <1>3, Zenon
  <2> QED BY <2>1, <2>2, <2>3 DEF EmptyArray, TextsOf
<1>5. \A s \in Texts : /\ MemberSeparator(s) \in Texts
                       /\ Follow(s) \in Texts
                       /\ Len(Follow(s)) = IF s = EmptyArray THEN 4 ELSE Len(s) + 3
  <2> TAKE s \in Texts
  <2>1. MemberSeparator(s) \in Texts BY <1>1 DEF MemberSeparator
  <2>2. Len(MemberSeparator(s)) = IF s = EmptyArray THEN 0 ELSE 1 BY DEF MemberSeparator
  <2>3. Follow(s) \in Texts /\ Len(Follow(s)) = Len(s) + 2 + Len(MemberSeparator(s))
    <3> DEFINE m == Member(s)
               c == MemberSeparator(s)
    <3>1. m \in Texts /\ c \in Texts /\ Len(m) = Len(s) + 2 BY <1>3, <2>1
    <3> HIDE DEF m, c
    <3>2. m \o c \in Texts /\ Len(m \o c) = Len(m) + Len(c) BY <3>1 DEF Texts
    <3> QED BY <3>1, <3>2 DEF Follow, m, c
  <2>4. s = EmptyArray => Len(s) = 2 BY <1>4 DEF TextsOf
  <2>5. Len(s) \in Nat BY DEF Texts
  <2>6. Len(Follow(s)) = IF s = EmptyArray THEN 4 ELSE Len(s) + 3
    <3>1. CASE s = EmptyArray
      <4>1. Len(MemberSeparator(s)) = 0 /\ Len(s) = 2 BY <2>2, <2>4, <3>1
      <4>2. Len(Follow(s)) = 4 BY <2>3, <4>1
      <4> QED BY <3>1, <4>2
    <3>2. CASE s # EmptyArray
      <4>1. Len(MemberSeparator(s)) = 1 BY <2>2, <3>2
      <4>2. Len(Follow(s)) = Len(s) + 3 BY <2>3, <2>5, <4>1
      <4> QED BY <3>2, <4>2
    <3> QED BY <3>1, <3>2
  <2> QED BY <2>1, <2>3, <2>6
<1> QED BY <1>1, <1>2, <1>3, <1>4, <1>5

Listed(v, e) == v \o <<"COMMA">> \o e

LEMMA ListedTexts ==
  ASSUME NEW v \in Texts, NEW e \in Texts
  PROVE  /\ Listed(v, e) \in Texts /\ Len(Listed(v, e)) = Len(v) + 1 + Len(e)
         /\ Listed(v, e) = (v \o <<"COMMA">>) \o e
<1> DEFINE c == <<"COMMA">>
<1>1. c \in Texts /\ Len(c) = 1 BY ConstantTexts
<1>2. Listed(v, e) = (v \o c) \o e BY DEF Listed
<1> HIDE DEF c
<1>3. v \o c \in Texts /\ Len(v \o c) = Len(v) + 1
  <2>1. v \o c \in Texts /\ Len(v \o c) = Len(v) + Len(c) BY <1>1, JoinLength
  <2> QED BY <1>1, <2>1
<1>4. (v \o c) \o e \in Texts /\ Len((v \o c) \o e) = Len(v) + 1 + Len(e) BY <1>3, JoinLength
<1> QED BY <1>2, <1>4 DEF c

LEMMA ValuesAre ==
  ASSUME NEW g, NEW n, NEW v
  PROVE  v \in Values(g, n) <=>
           \/ n = 1 /\ \E p \in Primitives : v = <<p>>
           \/ n = 2 /\ v \in {EmptyArray, Curly(<<>>)}
           \/ n > 2 /\ \E e \in g[n - 2].elements : v = Square(e)
           \/ n > 2 /\ \E m \in g[n - 2].members : v = Curly(m)
  BY DEF Values

LEMMA ElementsAre ==
  ASSUME NEW g, NEW n, NEW e
  PROVE  e \in Elements(g, n) <=>
           \/ e \in Values(g, n)
           \/ \E k \in 1..(n - 2) : \E v \in g[k].values, f \in g[n - 1 - k].elements :
                e = Listed(v, f)
<1> DEFINE Pairs(k) == {p[1] \o <<"COMMA">> \o p[2] : p \in g[k].values \X g[n - 1 - k].elements}
<1>1. \A k : e \in Pairs(k) <=> \E v \in g[k].values, f \in g[n - 1 - k].elements :
                                  e = Listed(v, f)
  <2> TAKE k
  <2>1. ASSUME NEW v \in g[k].values, NEW f \in g[n - 1 - k].elements, e = Listed(v, f)
        PROVE  e \in Pairs(k)
    <3>1. <<v, f>> \in g[k].values \X g[n - 1 - k].elements OBVIOUS
    <3>2. <<v, f>>[1] = v /\ <<v, f>>[2] = f OBVIOUS
    <3> QED BY <2>1, <3>1, <3>2 DEF Listed
  <2>2. ASSUME e \in Pairs(k)
        PROVE  \E v \in g[k].values, f \in g[n - 1 - k].elements : e = Listed(v, f)
    BY <2>2 DEF Listed
  <2> QED BY <2>1, <2>2
<1>2. Elements(g, n) = Values(g, n) \cup UNION {Pairs(k) : k \in 1..(n - 2)} BY DEF Elements
<1> HIDE DEF Pairs
<1> QED BY <1>1, <1>2

LEMMA MembersAre ==
  ASSUME NEW g, NEW n, NEW s
  PROVE  s \in Members(g, n) <=>
           \/ n > 2 /\ \E v \in g[n - 2].values : s = Member(v)
           \/ \E k \in 1..(n - 4) : \E v \in g[k].values :
                \E m \in g[n - Len(Follow(v))].members : s = Follow(v) \o m
<1> DEFINE All == UNION {g[k].values : k \in 1..(n - 4)}
           More(v) == {Follow(v) \o m : m \in g[n - Len(Follow(v))].members}
<1>1. Members(g, n) = (IF n > 2 THEN {Member(v) : v \in g[n - 2].values} ELSE {})
                        \cup UNION {More(v) : v \in All}
  BY DEF Members
<1>2. \A v : v \in All <=> \E k \in 1..(n - 4) : v \in g[k].values OBVIOUS
<1>3. \A v : s \in More(v) <=> \E m \in g[n - Len(Follow(v))].members : s = Follow(v) \o m OBVIOUS
<1> HIDE DEF All, More
<1> QED BY <1>1, <1>2, <1>3

LEMMA FollowLength ==
  ASSUME NEW v \in Texts, Len(v) > 0
  PROVE  /\ Follow(v) \in Texts /\ Len(Follow(v)) \in 4..(Len(v) + 3)
         /\ Len(Follow(v)) = IF v = EmptyArray THEN 4 ELSE Len(v) + 3
<1>1. Follow(v) \in Texts /\ Len(Follow(v)) = IF v = EmptyArray THEN 4 ELSE Len(v) + 3
  BY ConstantTexts
<1>2. Len(v) \in Nat BY DEF Texts
<1>3. CASE v = EmptyArray
  <2>1. Len(Follow(v)) = 4 BY <1>1, <1>3
  <2> QED BY <1>1, <1>2, <2>1
<1>4. CASE v # EmptyArray
  <2>1. Len(Follow(v)) = Len(v) + 3 BY <1>1, <1>4
  <2> QED BY <1>1, <1>2, <2>1
<1> QED BY <1>3, <1>4

(* Only what the levels below hold matters.                                *)
LowerFit(g, n) == /\ g \in Seq(Levels) /\ n \in Nat \ {0} /\ Len(g) >= n - 1
                  /\ \A k \in 1..(n - 1) : Fits(g[k], k)

LEMMA LowerTexts ==
  ASSUME NEW g, NEW n, LowerFit(g, n), NEW k \in 1..(n - 1)
  PROVE  /\ \A v \in g[k].values : v \in Texts /\ Len(v) = k
         /\ \A v \in g[k].elements : v \in Texts /\ Len(v) = k
         /\ \A v \in g[k].members : v \in Texts /\ Len(v) = k
  BY DEF LowerFit, Fits, TextsOf

LEMMA LevelFits ==
  ASSUME NEW g, NEW n, LowerFit(g, n)
  PROVE  Level(g, n) \in Levels /\ Fits(Level(g, n), n)
<1>0. n \in Nat \ {0} BY DEF LowerFit
<1>1. ASSUME NEW v \in Values(g, n) PROVE v \in TextsOf(n)
  <2>1. CASE n = 1 /\ \E p \in Primitives : v = <<p>> BY <2>1, ConstantTexts DEF TextsOf
  <2>2. CASE n = 2 /\ v \in {EmptyArray, Curly(<<>>)} BY <2>2, ConstantTexts
  <2>3. CASE n > 2 /\ \E e \in g[n - 2].elements : v = Square(e)
    <3>1. n - 2 \in 1..(n - 1) BY <1>0, <2>3
    <3>2. PICK e \in g[n - 2].elements : v = Square(e) BY <2>3
    <3>3. e \in Texts /\ Len(e) = n - 2 BY <3>1, LowerTexts
    <3>4. v \in Texts /\ Len(v) = Len(e) + 2 BY <3>2, <3>3, ConstantTexts
    <3> QED BY <1>0, <3>3, <3>4 DEF TextsOf
  <2>4. CASE n > 2 /\ \E m \in g[n - 2].members : v = Curly(m)
    <3>1. n - 2 \in 1..(n - 1) BY <1>0, <2>4
    <3>2. PICK m \in g[n - 2].members : v = Curly(m) BY <2>4
    <3>3. m \in Texts /\ Len(m) = n - 2 BY <3>1, LowerTexts
    <3>4. v \in Texts /\ Len(v) = Len(m) + 2 BY <3>2, <3>3, ConstantTexts
    <3> QED BY <1>0, <3>3, <3>4 DEF TextsOf
  <2> QED BY <2>1, <2>2, <2>3, <2>4, ValuesAre
<1>2. ASSUME NEW e \in Elements(g, n) PROVE e \in TextsOf(n)
  <2>1. CASE e \in Values(g, n) BY <1>1, <2>1
  <2>2. CASE \E k \in 1..(n - 2) : \E v \in g[k].values, f \in g[n - 1 - k].elements :
               e = Listed(v, f)
    <3>1. PICK k \in 1..(n - 2) : \E v \in g[k].values, f \in g[n - 1 - k].elements :
                                    e = Listed(v, f) BY <2>2
    <3>2. PICK v \in g[k].values, f \in g[n - 1 - k].elements : e = Listed(v, f) BY <3>1
    <3>3. k \in 1..(n - 1) /\ n - 1 - k \in 1..(n - 1) BY <1>0
    <3>4. v \in Texts /\ Len(v) = k /\ f \in Texts /\ Len(f) = n - 1 - k BY <3>3, LowerTexts
    <3>6. e \in Texts /\ Len(e) = Len(v) + 1 + Len(f) BY <3>2, <3>4, ListedTexts
    <3> QED BY <1>0, <3>3, <3>4, <3>6 DEF TextsOf
  <2> QED BY <2>1, <2>2, ElementsAre
<1>3. ASSUME NEW s \in Members(g, n) PROVE s \in TextsOf(n)
  <2>1. CASE n > 2 /\ \E v \in g[n - 2].values : s = Member(v)
    <3>1. n - 2 \in 1..(n - 1) BY <1>0, <2>1
    <3>2. PICK v \in g[n - 2].values : s = Member(v) BY <2>1
    <3>3. v \in Texts /\ Len(v) = n - 2 BY <3>1, LowerTexts
    <3>4. s \in Texts /\ Len(s) = Len(v) + 2 BY <3>2, <3>3, ConstantTexts
    <3> QED BY <1>0, <3>3, <3>4 DEF TextsOf
  <2>2. CASE \E k \in 1..(n - 4) : \E v \in g[k].values :
               \E m \in g[n - Len(Follow(v))].members : s = Follow(v) \o m
    <3>1. PICK k \in 1..(n - 4) : \E v \in g[k].values :
                 \E m \in g[n - Len(Follow(v))].members : s = Follow(v) \o m BY <2>2
    <3>2. PICK v \in g[k].values :
                 \E m \in g[n - Len(Follow(v))].members : s = Follow(v) \o m BY <3>1
    <3>3. PICK m \in g[n - Len(Follow(v))].members : s = Follow(v) \o m BY <3>2
    <3>4. v \in Texts /\ Len(v) = k
      <4>1. k \in 1..(n - 1) BY <1>0
      <4> QED BY <4>1, LowerTexts
    <3>5. Follow(v) \in Texts /\ Len(Follow(v)) \in 4..(n - 1)
      BY <1>0, <3>4, FollowLength
    <3>6. m \in Texts /\ Len(m) = n - Len(Follow(v))
      <4>1. n - Len(Follow(v)) \in 1..(n - 1) BY <1>0, <3>5
      <4> QED BY <4>1, LowerTexts
    <3>7. s \in Texts /\ Len(s) = Len(Follow(v)) + Len(m) BY <3>3, <3>5, <3>6, JoinLength
    <3> QED BY <1>0, <3>5, <3>6, <3>7 DEF TextsOf
  <2> QED BY <2>1, <2>2, MembersAre
<1>4. Fits(Level(g, n), n) BY <1>1, <1>2, <1>3 DEF Fits, Level
<1>5. TextsOf(n) \subseteq Texts BY DEF TextsOf
<1> QED BY <1>1, <1>2, <1>3, <1>4, <1>5 DEF Levels, Level

LEMMA SameLevel ==
  ASSUME NEW g, NEW h, NEW n, LowerFit(g, n), LowerFit(h, n), \A k \in 1..(n - 1) : g[k] = h[k]
  PROVE  Level(g, n) = Level(h, n)
<1>0. n \in Nat \ {0} BY DEF LowerFit
<1>1. n > 2 => g[n - 2] = h[n - 2] BY <1>0
<1>2. Values(g, n) = Values(h, n)
  <2>1. \A v : v \in Values(g, n) <=> v \in Values(h, n) BY <1>1, ValuesAre
  <2> QED BY <2>1
<1>3. Elements(g, n) = Elements(h, n)
  <2>1. \A k \in 1..(n - 2) : g[k] = h[k] /\ g[n - 1 - k] = h[n - 1 - k]
    <3> TAKE k \in 1..(n - 2)
    <3>1. k \in 1..(n - 1) /\ n - 1 - k \in 1..(n - 1) BY <1>0
    <3> QED BY <3>1
  <2>2. \A e : e \in Elements(g, n) <=> e \in Elements(h, n) BY <1>2, <2>1, ElementsAre
  <2> QED BY <2>2
<1>4. Members(g, n) = Members(h, n)
  <2>1. \A k \in 1..(n - 4) : /\ g[k] = h[k]
                              /\ \A v \in g[k].values :
                                   g[n - Len(Follow(v))] = h[n - Len(Follow(v))]
    <3> TAKE k \in 1..(n - 4)
    <3>1. k \in 1..(n - 1) BY <1>0
    <3>2. ASSUME NEW v \in g[k].values PROVE g[n - Len(Follow(v))] = h[n - Len(Follow(v))]
      <4>1. v \in Texts /\ Len(v) = k BY <3>1, LowerTexts
      <4>2. Len(Follow(v)) \in 4..(k + 3) BY <4>1, FollowLength
      <4>3. n - Len(Follow(v)) \in 1..(n - 1) BY <1>0, <4>2
      <4> QED BY <4>3
    <3> QED BY <3>1, <3>2
  <2>2. \A s : s \in Members(g, n) <=> s \in Members(h, n) BY <1>1, <2>1, MembersAre, SMTT(30)
  <2> QED BY <2>2
<1> QED BY <1>2, <1>3, <1>4 DEF Level

(***************************************************************************)
(* Induction over the natural numbers: a set of them has a least member.   *)
(***************************************************************************)
LEMMA Least ==
  ASSUME NEW T \in SUBSET Nat, T # {}
  PROVE  \E n \in T : \A m \in T : n <= m
<1> DEFINE Below(n) == 0..(n - 1)
           Segments == {Below(n) : n \in T}
<1>1. \A n \in T : Below(n) \in FiniteSubsetsOf(Nat)
  <2> TAKE n \in T
  <2>1. IsFiniteSet(Below(n)) BY FS_Interval
  <2> QED BY <2>1 DEF FiniteSubsetsOf
<1>2. Segments \subseteq FiniteSubsetsOf(Nat) /\ Segments # {} BY <1>1
<1>3. IsWellFoundedOn(StrictSubsetOrdering(Nat), FiniteSubsetsOf(Nat))
  BY FS_StrictSubsetOrderingWellFounded
<1>4. PICK s \in Segments : \A r \in Segments : ~(<<r, s>> \in StrictSubsetOrdering(Nat))
  <2> HIDE DEF Segments
  <2> QED BY <1>2, <1>3, WFMin
<1>5. PICK n \in T : s = Below(n) OBVIOUS
<1>6. ASSUME NEW m \in T, m < n PROVE FALSE
  <2>1. Below(m) \subseteq Below(n) /\ m \in Below(n) /\ m \notin Below(m) BY <1>6
  <2>2. Below(m) # Below(n) BY <2>1
  <2>3. Below(m) \in SUBSET Nat /\ Below(n) \in SUBSET Nat OBVIOUS
  <2>4. <<Below(m), Below(n)>> \in StrictSubsetOrdering(Nat)
    BY <2>1, <2>2, <2>3 DEF StrictSubsetOrdering
  <2> QED BY <1>4, <1>5, <2>4
<1> QED BY <1>6

LEMMA UpTo ==
  ASSUME NEW T \in SUBSET Nat, 0 \in T, \A n \in T : n + 1 \in T
  PROVE  T = Nat
<1> SUFFICES ASSUME Nat \ T # {} PROVE FALSE OBVIOUS
<1>1. PICK n \in Nat \ T : \A m \in Nat \ T : n <= m BY Least
<1>2. n # 0 /\ n - 1 \in Nat BY <1>1
<1>3. n - 1 \in T BY <1>1, <1>2
<1> QED BY <1>1, <1>2, <1>3

(***************************************************************************)
(* The recursion that defines the grammar                                  *)
(***************************************************************************)
Approximated(n) ==
  \E f : f = [i \in 0..n |-> IF i = 0 THEN <<>> ELSE Derive(f[i - 1], i)]

LEMMA Approximations == \A n \in Nat : Approximated(n)
<1> DEFINE T == {n \in Nat : Approximated(n)}
<1>1. Approximated(0)
  <2> DEFINE f == [i \in 0..0 |-> <<>>]
  <2>1. f = [i \in 0..0 |-> IF i = 0 THEN <<>> ELSE Derive(f[i - 1], i)] OBVIOUS
  <2> QED BY <2>1 DEF Approximated
<1>2. ASSUME NEW n \in Nat, Approximated(n) PROVE Approximated(n + 1)
  <2>1. PICK f : f = [i \in 0..n |-> IF i = 0 THEN <<>> ELSE Derive(f[i - 1], i)]
    BY <1>2 DEF Approximated
  <2> DEFINE g == [i \in 0..(n + 1) |-> IF i <= n THEN f[i] ELSE Derive(f[n], i)]
  <2>2. ASSUME NEW i \in 0..(n + 1) PROVE g[i] = IF i = 0 THEN <<>> ELSE Derive(g[i - 1], i)
    <3>1. CASE i <= n
      <4>1. g[i] = f[i] /\ f[i] = IF i = 0 THEN <<>> ELSE Derive(f[i - 1], i) BY <2>1, <3>1
      <4>2. i # 0 => g[i - 1] = f[i - 1] BY <3>1
      <4> QED BY <4>1, <4>2
    <3>2. CASE i = n + 1 BY <3>2
    <3> QED BY <3>1, <3>2
  <2>3. g = [i \in 0..(n + 1) |-> IF i = 0 THEN <<>> ELSE Derive(g[i - 1], i)] BY <2>2, Zenon
  <2> QED BY <2>3 DEF Approximated
<1>3. T = Nat
  <2>1. T \in SUBSET Nat /\ 0 \in T /\ \A n \in T : n + 1 \in T BY <1>1, <1>2
  <2> HIDE DEF T
  <2> QED BY <2>1, UpTo
<1> QED BY <1>3

LEMMA DerivedIs ==
  Derived = [n \in 0..MaxTokens |-> IF n = 0 THEN <<>> ELSE Derive(Derived[n - 1], n)]
<1>1. Approximated(MaxTokens) BY Approximations, LanguageAssumption
<1> QED BY <1>1 DEF Derived, Approximated

(* The first n levels.                                                     *)
Leveled(n) == LET g == Derived[n]
              IN /\ g \in Seq(Levels) /\ Len(g) = n
                 /\ \A k \in 1..n : g[k] = Level(g, k) /\ Fits(g[k], k)

LEMMA DerivedLevels == \A n \in 0..MaxTokens : Leveled(n)
<1> DEFINE T == {n \in Nat : n <= MaxTokens => Leveled(n)}
<1>0. MaxTokens \in Nat BY LanguageAssumption
<1>1. Leveled(0)
  <2>1. Derived[0] = <<>> BY <1>0, DerivedIs
  <2> QED BY <2>1 DEF Leveled
<1>2. ASSUME NEW n \in Nat, n + 1 <= MaxTokens, Leveled(n) PROVE Leveled(n + 1)
  <2> DEFINE g == Derived[n]
             h == Derived[n + 1]
             top == Level(g, n + 1)
  <2>1. g \in Seq(Levels) /\ Len(g) = n /\ \A k \in 1..n : g[k] = Level(g, k) /\ Fits(g[k], k)
    BY <1>2 DEF Leveled
  <2>2. h = Append(g, top)
    <3>1. h = Derive(Derived[(n + 1) - 1], n + 1) BY <1>0, <1>2, DerivedIs
    <3> QED BY <3>1 DEF Derive, Level
  <2> HIDE DEF g, h
  <2>3. LowerFit(g, n + 1) BY <2>1 DEF LowerFit
  <2>4. top \in Levels /\ Fits(top, n + 1) BY <2>3, LevelFits
  <2> HIDE DEF top
  <2>5. /\ h \in Seq(Levels) /\ Len(h) = n + 1 /\ h[n + 1] = top
        /\ \A k \in 1..n : h[k] = g[k]
    BY <2>1, <2>2, <2>4, AppendProperties
  <2>6. \A k \in 1..(n + 1) : Fits(h[k], k) BY <2>1, <2>4, <2>5
  <2>7. ASSUME NEW k \in 1..(n + 1) PROVE h[k] = Level(h, k)
    <3>1. LowerFit(g, k) /\ LowerFit(h, k)
      <4>1. 1..(k - 1) \subseteq 1..n /\ 1..n \subseteq 1..(n + 1) BY <2>7
      <4> QED BY <2>1, <2>5, <2>6, <2>7, <4>1 DEF LowerFit
    <3>2. \A j \in 1..(k - 1) : g[j] = h[j] BY <2>5
    <3>3. Level(g, k) = Level(h, k) BY <3>1, <3>2, SameLevel
    <3>4. h[k] = Level(g, k)
      <4>1. CASE k = n + 1 BY <2>5, <4>1 DEF top
      <4>2. CASE k # n + 1 BY <2>1, <2>5, <4>2
      <4> QED BY <4>1, <4>2
    <3> QED BY <3>3, <3>4
  <2> QED BY <2>5, <2>6, <2>7 DEF Leveled, h
<1>3. T = Nat
  <2>1. ASSUME NEW n \in T PROVE n + 1 \in T
    <3>1. n + 1 <= MaxTokens => n <= MaxTokens BY <1>0
    <3> QED BY <1>2, <2>1, <3>1
  <2>2. T \in SUBSET Nat /\ 0 \in T BY <1>1
  <2> HIDE DEF T
  <2> QED BY <2>1, <2>2, UpTo
<1> QED BY <1>0, <1>3

(***************************************************************************)
(* The grammar, free of levels                                             *)
(***************************************************************************)
Grammar == Derived[MaxTokens]

Lengths == 1..MaxTokens

Vals  == UNION {Grammar[n].values : n \in Lengths}
Elems == UNION {Grammar[n].elements : n \in Lengths}
Membs == UNION {Grammar[n].members : n \in Lengths}

LEMMA GrammarLevels ==
  ASSUME NEW n \in Lengths
  PROVE  /\ Grammar[n].values = Values(Grammar, n) /\ Grammar[n].elements = Elements(Grammar, n)
         /\ Grammar[n].members = Members(Grammar, n)
         /\ LowerFit(Grammar, n)
<1>1. MaxTokens \in Nat /\ MaxTokens \in 0..MaxTokens BY LanguageAssumption
<1>2. Leveled(MaxTokens) BY <1>1, DerivedLevels
<1>3. /\ Grammar \in Seq(Levels) /\ Len(Grammar) = MaxTokens
      /\ \A k \in 1..MaxTokens : Grammar[k] = Level(Grammar, k) /\ Fits(Grammar[k], k)
  BY <1>2 DEF Leveled, Grammar
<1>4. LowerFit(Grammar, n)
  <2>1. n \in Nat \ {0} /\ MaxTokens >= n - 1 /\ 1..(n - 1) \subseteq 1..MaxTokens
    BY <1>1 DEF Lengths
  <2> QED BY <1>3, <2>1 DEF LowerFit
<1> QED BY <1>3, <1>4 DEF Lengths, Level

LEMMA Lengthy ==
  /\ \A v \in Vals : v \in Texts /\ Len(v) \in Lengths /\ v \in Grammar[Len(v)].values
  /\ \A v \in Elems : v \in Texts /\ Len(v) \in Lengths /\ v \in Grammar[Len(v)].elements
  /\ \A v \in Membs : v \in Texts /\ Len(v) \in Lengths /\ v \in Grammar[Len(v)].members
<1>1. MaxTokens \in Nat /\ MaxTokens \in 0..MaxTokens BY LanguageAssumption
<1>2. Leveled(MaxTokens) BY <1>1, DerivedLevels
<1>3. \A n \in Lengths : Fits(Grammar[n], n) BY <1>2 DEF Leveled, Grammar, Lengths
<1>4. ASSUME NEW n \in Lengths
      PROVE  /\ \A v \in Grammar[n].values : v \in Texts /\ Len(v) = n
             /\ \A v \in Grammar[n].elements : v \in Texts /\ Len(v) = n
             /\ \A v \in Grammar[n].members : v \in Texts /\ Len(v) = n
  BY <1>3 DEF Fits, TextsOf
<1> HIDE DEF Grammar, Lengths
<1> QED BY <1>4 DEF Vals, Elems, Membs

LEMMA Documented == Documents = Vals
<1>1. MaxTokens \in Nat /\ MaxTokens \in 0..MaxTokens BY LanguageAssumption
<1>2. Leveled(MaxTokens) BY <1>1, DerivedLevels
<1>3. Grammar \in Seq(Levels) /\ Len(Grammar) = MaxTokens BY <1>2 DEF Leveled, Grammar
<1>4. ToSet(Grammar) = {Grammar[n] : n \in Lengths} BY <1>3 DEF ToSet, Lengths
<1>5. Documents = UNION {r.values : r \in ToSet(Grammar)} BY DEF Documents, Grammar
<1> HIDE DEF Grammar
<1> QED BY <1>4, <1>5 DEF Vals

(* The rules of the grammar.                                               *)
LEMMA PrimitiveRule ==
  ASSUME NEW p \in Primitives, 1 \in Lengths
  PROVE  <<p>> \in Vals
<1>1. <<p>> \in Values(Grammar, 1) BY ValuesAre
<1> QED BY <1>1, GrammarLevels DEF Vals

LEMMA EmptyRules ==
  ASSUME 2 \in Lengths
  PROVE  EmptyArray \in Vals /\ Curly(<<>>) \in Vals
<1>1. EmptyArray \in Values(Grammar, 2) /\ Curly(<<>>) \in Values(Grammar, 2) BY ValuesAre
<1> QED BY <1>1, GrammarLevels DEF Vals

LEMMA SquareRule ==
  ASSUME NEW e \in Elems, Len(e) + 2 \in Lengths
  PROVE  Square(e) \in Vals
<1> DEFINE n == Len(e) + 2
<1>1. n > 2 /\ n - 2 = Len(e) /\ e \in Grammar[Len(e)].elements BY Lengthy DEF Lengths
<1>2. \E f \in Grammar[n - 2].elements : Square(e) = Square(f) BY <1>1
<1>3. Square(e) \in Values(Grammar, n) BY <1>1, <1>2, ValuesAre
<1> QED BY <1>3, GrammarLevels DEF Vals

LEMMA CurlyRule ==
  ASSUME NEW m \in Membs, Len(m) + 2 \in Lengths
  PROVE  Curly(m) \in Vals
<1> DEFINE n == Len(m) + 2
<1>1. n > 2 /\ n - 2 = Len(m) /\ m \in Grammar[Len(m)].members BY Lengthy DEF Lengths
<1>2. \E f \in Grammar[n - 2].members : Curly(m) = Curly(f) BY <1>1
<1>3. Curly(m) \in Values(Grammar, n) BY <1>1, <1>2, ValuesAre
<1> QED BY <1>3, GrammarLevels DEF Vals

LEMMA ElementRule == ASSUME NEW v \in Vals PROVE v \in Elems
<1>1. Len(v) \in Lengths /\ v \in Values(Grammar, Len(v)) BY Lengthy, GrammarLevels
<1>2. v \in Elements(Grammar, Len(v)) BY <1>1, ElementsAre
<1> QED BY <1>1, <1>2, GrammarLevels DEF Elems

LEMMA ListedRule ==
  ASSUME NEW v \in Vals, NEW e \in Elems, Len(v) + 1 + Len(e) \in Lengths
  PROVE  Listed(v, e) \in Elems
<1> DEFINE k == Len(v)
           n == Len(v) + 1 + Len(e)
<1>1. /\ v \in Grammar[k].values /\ e \in Grammar[Len(e)].elements
      /\ k \in Lengths /\ Len(e) \in Lengths
  BY Lengthy
<1>2. k \in 1..(n - 2) /\ n - 1 - k = Len(e) BY <1>1 DEF Lengths
<1>3. \E w \in Grammar[k].values, f \in Grammar[n - 1 - k].elements : Listed(v, e) = Listed(w, f)
  BY <1>1, <1>2
<1> HIDE DEF k, n
<1>4. Listed(v, e) \in Elements(Grammar, n) BY <1>2, <1>3, ElementsAre
<1> QED BY <1>4, GrammarLevels DEF Elems, n

LEMMA MemberRule ==
  ASSUME NEW v \in Vals, Len(v) + 2 \in Lengths
  PROVE  Member(v) \in Membs
<1> DEFINE n == Len(v) + 2
<1>1. n > 2 /\ n - 2 = Len(v) /\ v \in Grammar[Len(v)].values BY Lengthy DEF Lengths
<1>2. \E f \in Grammar[n - 2].values : Member(v) = Member(f) BY <1>1
<1>3. Member(v) \in Members(Grammar, n) BY <1>1, <1>2, MembersAre
<1> QED BY <1>3, GrammarLevels DEF Membs

LEMMA FollowRule ==
  ASSUME NEW v \in Vals, NEW m \in Membs, Len(Follow(v)) + Len(m) \in Lengths
  PROVE  Follow(v) \o m \in Membs
<1> DEFINE k == Len(v)
           n == Len(Follow(v)) + Len(m)
<1>1. /\ v \in Grammar[k].values /\ m \in Grammar[Len(m)].members
      /\ k \in Lengths /\ Len(m) \in Lengths /\ v \in Texts
  BY Lengthy
<1>2. Len(Follow(v)) \in 4..(k + 3) /\ Len(Follow(v)) = IF v = EmptyArray THEN 4 ELSE k + 3
  BY <1>1, FollowLength DEF Lengths
<1>3. n - Len(Follow(v)) = Len(m) BY <1>1, <1>2 DEF Lengths
<1>4. k \in 1..(n - 4)
  <2>1. Len(m) > 2
    <3>1. Len(m) \in Lengths /\ m \in Members(Grammar, Len(m)) BY <1>1, GrammarLevels
    <3>2. Len(m) > 2 \/ \E j \in 1..(Len(m) - 4) : TRUE BY <3>1, MembersAre
    <3> QED BY <3>1, <3>2 DEF Lengths
  <2>2. CASE v = EmptyArray
    <3>1. Len(Follow(v)) = 4 /\ k = 2 BY <1>2, <2>2, ConstantTexts DEF TextsOf
    <3> QED BY <1>1, <2>1, <3>1 DEF Lengths
  <2>3. CASE v # EmptyArray
    <3>1. Len(Follow(v)) = k + 3 BY <1>2, <2>3
    <3> QED BY <1>1, <2>1, <3>1 DEF Lengths
  <2> QED BY <2>2, <2>3
<1>5. \E w \in Grammar[k].values : \E f \in Grammar[n - Len(Follow(w))].members :
        Follow(v) \o m = Follow(w) \o f
  BY <1>1, <1>3
<1> HIDE DEF k, n
<1>6. Follow(v) \o m \in Members(Grammar, n) BY <1>4, <1>5, MembersAre
<1> QED BY <1>6, GrammarLevels DEF Membs, n

(* ... and nothing else is in the grammar.                                 *)
LEMMA ValueForms ==
  ASSUME NEW v \in Vals
  PROVE  \/ \E p \in Primitives : v = <<p>>
         \/ v = EmptyArray \/ v = Curly(<<>>)
         \/ \E e \in Elems : v = Square(e)
         \/ \E m \in Membs : v = Curly(m)
<1> DEFINE n == Len(v)
<1>1. n \in Lengths /\ v \in Values(Grammar, n) BY Lengthy, GrammarLevels
<1>2. n > 2 => n - 2 \in Lengths BY <1>1, LanguageAssumption DEF Lengths
<1>3. n > 2 => Grammar[n - 2].elements \subseteq Elems /\ Grammar[n - 2].members \subseteq Membs
  BY <1>2 DEF Elems, Membs
<1> HIDE DEF n
<1> QED BY <1>1, <1>3, ValuesAre

LEMMA ElementForms ==
  ASSUME NEW e \in Elems
  PROVE  e \in Vals \/ \E v \in Vals, f \in Elems : e = Listed(v, f)
<1> DEFINE n == Len(e)
<1>1. n \in Lengths /\ e \in Elements(Grammar, n) BY Lengthy, GrammarLevels
<1>2. e \in Values(Grammar, n) => e \in Vals BY <1>1, GrammarLevels DEF Vals
<1>3. \A k \in 1..(n - 2) : Grammar[k].values \subseteq Vals /\ Grammar[n - 1 - k].elements \subseteq Elems
  <2> TAKE k \in 1..(n - 2)
  <2>1. k \in Lengths /\ n - 1 - k \in Lengths BY <1>1, LanguageAssumption DEF Lengths
  <2> QED BY <2>1 DEF Vals, Elems
<1> HIDE DEF n
<1>4. CASE \E k \in 1..(n - 2) : \E v \in Grammar[k].values, f \in Grammar[n - 1 - k].elements :
             e = Listed(v, f)
  BY <1>3, <1>4
<1> QED BY <1>1, <1>2, <1>4, ElementsAre

LEMMA MemberForms ==
  ASSUME NEW s \in Membs
  PROVE  \/ \E v \in Vals : s = Member(v)
         \/ \E v \in Vals, m \in Membs : s = Follow(v) \o m
<1> DEFINE n == Len(s)
<1>1. n \in Lengths /\ s \in Members(Grammar, n) BY Lengthy, GrammarLevels
<1>2. n > 2 => Grammar[n - 2].values \subseteq Vals
  <2>1. n > 2 => n - 2 \in Lengths BY <1>1, LanguageAssumption DEF Lengths
  <2> QED BY <2>1 DEF Vals
<1>3. \A k \in 1..(n - 4) : Grammar[k].values \subseteq Vals
  <2> TAKE k \in 1..(n - 4)
  <2>1. k \in Lengths BY <1>1, LanguageAssumption DEF Lengths
  <2> QED BY <2>1 DEF Vals
<1>4. \A k \in 1..(n - 4) : \A v \in Grammar[k].values : Grammar[n - Len(Follow(v))].members \subseteq Membs
  <2> TAKE k \in 1..(n - 4)
  <2> TAKE v \in Grammar[k].values
  <2>1. k \in Lengths /\ k \in 1..((k + 1) - 1) /\ k + 1 \in Lengths BY <1>1, LanguageAssumption DEF Lengths
  <2>2. v \in Texts /\ Len(v) = k BY <2>1, GrammarLevels, LowerTexts
  <2>3. Len(Follow(v)) \in 4..(k + 3) BY <2>1, <2>2, FollowLength DEF Lengths
  <2>4. n - Len(Follow(v)) \in Lengths BY <1>1, <2>3, LanguageAssumption DEF Lengths
  <2> QED BY <2>4 DEF Membs
<1> HIDE DEF n
<1>5. CASE \E k \in 1..(n - 4) : \E v \in Grammar[k].values :
             \E m \in Grammar[n - Len(Follow(v))].members : s = Follow(v) \o m
  BY <1>3, <1>4, <1>5
<1>6. CASE n > 2 /\ \E v \in Grammar[n - 2].values : s = Member(v) BY <1>2, <1>6
<1>7. s \in Members(Grammar, n) => (n > 2 /\ \E v \in Grammar[n - 2].values : s = Member(v))
         \/ (\E k \in 1..(n - 4) : \E v \in Grammar[k].values :
              \E m \in Grammar[n - Len(Follow(v))].members : s = Follow(v) \o m)
  BY MembersAre
<1> QED BY <1>1, <1>5, <1>6, <1>7

(***************************************************************************)
(* The parser as an automaton over whole tokens                            *)
(***************************************************************************)
(* The state once the string that has begun is over.                       *)
Reached == IF lexing # "string" THEN state
           ELSE IF state \in KeyStates THEN "EXPECT_COLON" ELSE AfterValue(state)

Agrees == /\ Reached \in ObjectStates => stack # <<>> /\ Last(stack) = STACK_VALUE_CURLY
          /\ Reached \in ArrayStates => stack # <<>> /\ Last(stack) = STACK_VALUE_SQUARE
          /\ Reached \in {"EXPECT_VALUE", "DONE"} => stack = <<>>
          /\ Reached # "INVALID" /\ lexing # "bignum"
          /\ lexing = "string" => state \in ValueStates \cup KeyStates

Stays(s) == Reached' = s /\ stack' = stack

Leaves(s) == stack # <<>> /\ stack' = Front(stack) /\ Reached' = s

(* The token t takes the parser from state and stack to others.            *)
Takes(t) ==
  \/ t \in Primitives /\ state \in ValueStates /\ Stays(AfterValue(state))
  \/ t = "STRING" /\ state \in KeyStates /\ Stays("EXPECT_COLON")
  \/ t = "COLON" /\ state = "EXPECT_COLON" /\ Stays("EXPECT_OBJECT_VALUE")
  \/ t = "COMMA" /\ state = "MAYBE_OBJECT_COMMA" /\ Stays("EXPECT_OBJECT_KEY")
  \/ t = "COMMA" /\ state = "MAYBE_ARRAY_COMMA" /\ Stays("EXPECT_ARRAY_VALUE")
  \/ /\ t = "OPEN_CURLY_BRACKET" /\ state \in ValueStates
     /\ stack' = Append(stack, STACK_VALUE_CURLY) /\ Reached' = "MAYBE_OBJECT_KEY"
  \/ /\ t = "OPEN_BRACKET" /\ state \in ValueStates
     /\ stack' = Append(stack, STACK_VALUE_SQUARE) /\ Reached' = "MAYBE_ARRAY_VALUE"
  \/ /\ t = "CLOSE_CURLY_BRACKET" /\ state \in {"MAYBE_OBJECT_KEY", "MAYBE_OBJECT_COMMA"}
     /\ Leaves(AfterContainer(Front(stack)))
  \/ t = "CLOSE_BRACKET" /\ state = "MAYBE_ARRAY_VALUE" /\ Leaves(AfterEmptyArray(Front(stack)))
  \/ t = "CLOSE_BRACKET" /\ state = "MAYBE_ARRAY_COMMA" /\ Leaves(AfterContainer(Front(stack)))

(* No transition takes the token t.                                        *)
Refuses(t) == /\ ~Opens(t) /\ ~Closes(t) /\ ~Separates(t)
              /\ ~(state \in ValueStates /\ t \in Primitives)
              /\ ~(state \in KeyStates /\ t = "STRING")

Receives(t) == input' = Append(input, t) /\ Len(input) < MaxTokens /\ lexing = "none" /\ ~finalized'

(* What a step of a running parser does.                                   *)
Goes == err' = "OK" /\ \E t \in Terminals : /\ Receives(t) /\ Takes(t) /\ lexing' # "bignum"
                                            /\ lexing' = "string" => t = "STRING" /\ state' = state
Stops == \E t \in Terminals : /\ Receives(t) /\ err' \notin {"OK", "INSUFFICIENT_INPUT"}
                              /\ Refuses(t) \/ (Opens(t) /\ ~DYNAMIC_STACK /\ StackFull)
Pauses == /\ err' = "OK" /\ Stays(Reached) /\ lexing' = "none" /\ UNCHANGED input
          /\ finalized' => state = "DONE" /\ lexing = "none"
Ends == err' = "INSUFFICIENT_INPUT" /\ state # "DONE" /\ lexing = "none"
        /\ UNCHANGED input /\ ~finalized'

LEMMA TokenSteps ==
  ASSUME TypeOK, Agrees, err = "OK", NEW t \in (Tokens \ Literals) \cup {"TRUE"},
         embedjson_token(t), Receive(t)
  PROVE  Goes \/ Stops
<1>1. /\ lexing = "none" /\ lexing' = "none" /\ ~finalized /\ ~finalized' /\ err' # "CALLBACK"
      /\ t \in Tokens /\ t \in Terminals
  BY DEF embedjson_token, Running, Receive, TypeOK, Terminals, Tokens, Literals
<1>2. Reached = state /\ Reached' = state' BY <1>1 DEF Reached
<1>3. Receives(t) BY <1>1 DEF Receives, Receive
<1>4. CASE OpenBracket(t)
  <2>1. CASE StackPushFails
    <3>1. ~DYNAMIC_STACK /\ StackFull /\ err' = "STACK_OVERFLOW"
      BY <1>1, <2>1 DEF StackPushFails, embedjson_error_ex, StackFull
    <3> QED BY <1>1, <1>3, <1>4, <3>1 DEF OpenBracket, Stops
  <2>2. CASE ~StackPushFails
    <3>1. /\ stack' = Append(stack, Bracket(t)) /\ err' = "OK" /\ Opens(t)
          /\ state' = IF Bracket(t) = STACK_VALUE_CURLY THEN "MAYBE_OBJECT_KEY"
                      ELSE "MAYBE_ARRAY_VALUE"
      BY <1>1, <1>4, <2>2 DEF OpenBracket, Callback
    <3>2. Takes(t)
      BY <1>2, <3>1 DEF Takes, Opens, Bracket, STACK_VALUE_CURLY, STACK_VALUE_SQUARE
    <3> QED BY <1>1, <1>3, <3>1, <3>2 DEF Goes
  <2> QED BY <2>1, <2>2
<1>5. CASE CloseBracket(t)
  <2>1. Closes(t) BY <1>5 DEF CloseBracket
  <2>2. stack # <<>> /\ Last(stack) = Bracket(t)
    BY <1>2, <2>1 DEF Closes, Agrees, ObjectStates, ArrayStates, Bracket
  <2>3. err' = "OK" /\ stack' = Front(stack) /\ state' \in AfterPop
    BY <1>1, <1>5, <2>2 DEF CloseBracket, Callback
  <2>4. state' = IF state = "MAYBE_ARRAY_VALUE" THEN AfterEmptyArray(Front(stack))
                 ELSE AfterContainer(Front(stack))
    BY <2>2, <2>3 DEF AfterPop
  <2>5. Takes(t) BY <1>2, <2>1, <2>2, <2>3, <2>4 DEF Takes, Leaves, Closes
  <2> QED BY <1>1, <1>3, <2>3, <2>5 DEF Goes
<1>6. CASE Separator(t)
  <2>1. err' = "OK" /\ Takes(t) BY <1>2, <1>6 DEF Separator, Separates, Takes, Stays
  <2> QED BY <1>1, <1>3, <2>1 DEF Goes
<1>7. CASE Literal(t)
  <2>1. t \in Primitives BY <1>7 DEF Literal, Literals, Tokens, Primitives
  <2>2. err' = "OK" BY <1>1, <1>7 DEF Literal, Callback
  <2>3. state \in ValueStates /\ state' = AfterValue(state) /\ stack' = stack
    BY <1>7, <2>2 DEF Literal
  <2>4. Takes(t) BY <1>2, <2>1, <2>3 DEF Takes, Stays
  <2> QED BY <1>1, <1>3, <2>2, <2>4 DEF Goes
<1>8. CASE RefuseToken(t)
  <2>1. Refuses(t) BY <1>1, <1>8 DEF RefuseToken, Refuses, Primitives, Literals, Tokens
  <2>2. err' = TokenError(t) BY <1>8 DEF RefuseToken, embedjson_error_ex
  <2>3. state \in States \ {"INVALID"} BY <1>2 DEF TypeOK, Agrees
  <2>4. TokenError(t) \notin {"OK", "INSUFFICIENT_INPUT"}
    BY <2>3 DEF TokenError, States, ValueStates, SelfCheck
  <2> QED BY <1>1, <1>3, <2>1, <2>2, <2>4 DEF Stops
<1> QED BY <1>4, <1>5, <1>6, <1>7, <1>8 DEF embedjson_token

LEMMA NumberSteps ==
  ASSUME TypeOK, Agrees, err = "OK", embedjson_tokeni, Receive("NUMBER")
  PROVE  Goes \/ Stops
<1>1. /\ lexing = "none" /\ lexing' = "none" /\ ~finalized /\ ~finalized' /\ err' # "CALLBACK"
      /\ "NUMBER" \in Terminals /\ stack' = stack
  BY DEF embedjson_tokeni, Number, Running, Receive, TypeOK, Terminals
<1>2. Reached = state /\ Reached' = state' BY <1>1 DEF Reached
<1>3. Receives("NUMBER") BY <1>1 DEF Receives, Receive
<1>4. CASE state \in ValueStates
  <2>1. err' = "OK" /\ state' = AfterValue(state)
    BY <1>1, <1>4 DEF embedjson_tokeni, Number, Callback
  <2>2. Takes("NUMBER") BY <1>1, <1>2, <1>4, <2>1 DEF Takes, Stays, Primitives
  <2> QED BY <1>1, <1>3, <2>1, <2>2 DEF Goes
<1>5. CASE state \notin ValueStates
  <2>1. err' = NumberError(state) BY <1>5 DEF embedjson_tokeni, Number, embedjson_error_ex
  <2>2. state \in States \ {"INVALID"} BY <1>2 DEF TypeOK, Agrees
  <2>3. NumberError(state) \notin {"OK", "INSUFFICIENT_INPUT"}
    BY <1>5, <2>2 DEF NumberError, States, ValueStates
  <2>4. Refuses("NUMBER") BY <1>5 DEF Refuses, Opens, Closes, Separates
  <2> QED BY <1>1, <1>3, <2>1, <2>3, <2>4 DEF Stops
<1> QED BY <1>4, <1>5

LEMMA StringSteps ==
  ASSUME TypeOK, Agrees, err = "OK", embedjson_tokenc_begin, Receive("STRING")
  PROVE  Goes \/ Stops
<1>1. /\ lexing = "none" /\ ~finalized /\ ~finalized' /\ err' # "CALLBACK"
      /\ "STRING" \in Terminals /\ stack' = stack /\ state' = state
  BY DEF embedjson_tokenc_begin, Running, Receive, TypeOK, Terminals
<1>2. Reached = state BY <1>1 DEF Reached
<1>3. Receives("STRING") BY <1>1 DEF Receives, Receive
<1>4. CASE state \in ValueStates \cup KeyStates
  <2>1. err' = "OK" /\ lexing' = "string"
    BY <1>1, <1>4 DEF embedjson_tokenc_begin, Callback, KeyStates
  <2>2. Reached' = IF state \in KeyStates THEN "EXPECT_COLON" ELSE AfterValue(state)
    BY <1>1, <2>1 DEF Reached
  <2>3. Takes("STRING")
    BY <1>1, <1>4, <2>2 DEF Takes, Stays, Primitives, KeyStates, ValueStates
  <2> QED BY <1>1, <1>3, <2>1, <2>3 DEF Goes
<1>5. CASE state \notin ValueStates \cup KeyStates
  <2>1. err' = StringError(state)
    BY <1>5 DEF embedjson_tokenc_begin, embedjson_error_ex, KeyStates
  <2>2. state \in States \ {"INVALID"} BY <1>2 DEF TypeOK, Agrees
  <2>3. StringError(state) \notin {"OK", "INSUFFICIENT_INPUT"}
    BY <1>5, <2>2 DEF StringError, States, ValueStates, KeyStates
  <2>4. Refuses("STRING") BY <1>5 DEF Refuses, Opens, Closes, Separates
  <2> QED BY <1>1, <1>3, <2>1, <2>3, <2>4 DEF Stops
<1> QED BY <1>4, <1>5

LEMMA Steps ==
  ASSUME TypeOK, Agrees, err = "OK", ~finalized, LNext
  PROVE  Goes \/ Stops \/ Pauses \/ Ends
<1>1. CASE \E t \in (Tokens \ Literals) \cup {"TRUE"} : embedjson_token(t) /\ Receive(t)
  BY <1>1, TokenSteps
<1>2. CASE embedjson_tokeni /\ Receive("NUMBER") BY <1>2, NumberSteps
<1>3. CASE embedjson_tokenc_begin /\ Receive("STRING") BY <1>3, StringSteps
<1>4. CASE embedjson_tokenc_end /\ err' # "CALLBACK" /\ UNCHANGED input
  <2>1. lexing = "string" /\ state \in ValueStates \cup KeyStates /\ UNCHANGED <<stack, finalized>>
    BY <1>4 DEF embedjson_tokenc_end, EndLexeme, Agrees
  <2>2. SelfCheck(state) = "OK" /\ \A s \in StringNextState(state) : SelfCheck(s) = "OK"
    BY <2>1 DEF SelfCheck, StringNextState, ValueStates, KeyStates
  <2>3. state' \in StringNextState(state) /\ err' = "OK" /\ lexing' = "none"
    BY <1>4, <2>2 DEF embedjson_tokenc_end, EndLexeme, Callback
  <2>4. Reached' = Reached
    BY <2>1, <2>3 DEF Reached, StringNextState, AfterValue, ValueStates, KeyStates
  <2> QED BY <1>4, <2>1, <2>3, <2>4 DEF Pauses, Stays
<1>5. CASE embedjson_finalize /\ UNCHANGED input
  <2>1. lexing = "none" /\ UNCHANGED <<state, stack, lexing>> BY <1>5 DEF embedjson_finalize
  <2>2. Reached' = Reached BY <2>1 DEF Reached
  <2>3. CASE state = "DONE"
    BY <1>5, <2>1, <2>2, <2>3 DEF embedjson_finalize, Pauses, Stays
  <2>4. CASE state # "DONE"
    BY <1>5, <2>1, <2>4 DEF embedjson_finalize, Ends
  <2> QED BY <2>3, <2>4
<1>6. CASE Stopped /\ UNCHANGED input BY <1>6 DEF Stopped, Running
<1> QED BY <1>1, <1>2, <1>3, <1>4, <1>5, <1>6 DEF LNext

(***************************************************************************)
(* What is accepted is a document                                          *)
(***************************************************************************)
(* s may be completed by the members, or elements, that come next.         *)
KeyReady(s) == \A m \in Membs : Len(s) + Len(m) <= MaxTokens => s \o m \in Membs
ArrayReady(s) == \A e \in Elems : Len(s) + Len(e) <= MaxTokens => s \o e \in Elems

(* s stands between a bracket of the kind k and a value.                   *)
Awaits(k, s) ==
  IF k = STACK_VALUE_SQUARE THEN ArrayReady(s)
  ELSE \E r \in Texts : s = r \o <<"STRING", "COLON">> /\ KeyReady(r)

(* s is what the innermost container holds when the parser is in a state.  *)
Holds(st, s) ==
  CASE st = "EXPECT_VALUE" -> s = <<>>
    [] st = "DONE" -> s \in Vals
    [] st = "MAYBE_OBJECT_KEY" -> (s = <<>> \/ s \in Membs) /\ KeyReady(s)
    [] st = "EXPECT_OBJECT_KEY" -> KeyReady(s)
    [] st = "EXPECT_COLON" -> \E r \in Texts : s = r \o <<"STRING">> /\ KeyReady(r)
    [] st = "EXPECT_OBJECT_VALUE" -> Awaits(STACK_VALUE_CURLY, s)
    [] st = "MAYBE_OBJECT_COMMA" -> s \in Membs /\ KeyReady(s \o <<"COMMA">>)
    [] st = "MAYBE_ARRAY_VALUE" -> s = <<>>
    [] st = "EXPECT_ARRAY_VALUE" -> ArrayReady(s)
    [] st = "MAYBE_ARRAY_COMMA" -> s \in Elems /\ ArrayReady(s \o <<"COMMA">>)
    [] OTHER -> FALSE

Opening(k) == IF k = STACK_VALUE_CURLY THEN "OPEN_CURLY_BRACKET" ELSE "OPEN_BRACKET"
Closing(k) == IF k = STACK_VALUE_CURLY THEN "CLOSE_CURLY_BRACKET" ELSE "CLOSE_BRACKET"

Opened(k, s) == <<Opening(k)>> \o s

(* pre[i] is the input in front of the bracket i.                          *)
Nests(pre) == /\ pre \in Seq(Texts) /\ Len(pre) = Len(stack)
              /\ stack # <<>> => pre[1] = <<>>
              /\ \A i \in 1..(Len(stack) - 1) :
                   \E s \in Texts : pre[i + 1] = pre[i] \o Opened(stack[i], s) /\ Awaits(stack[i], s)

(* ... and s what comes after the last of them.                            *)
Innermost(pre, s) == input = IF stack = <<>> THEN s
                             ELSE pre[Len(stack)] \o Opened(Last(stack), s)

Parsed == \E pre : Nests(pre) /\ \E s \in Texts : Innermost(pre, s) /\ Holds(Reached, s)

AcceptInv == /\ TypeOK /\ input \in Texts /\ Len(input) <= MaxTokens
             /\ err = "OK" => Agrees /\ Parsed
             /\ finalized => err = "OK" /\ Reached = "DONE"

LEMMA EmptyReady == KeyReady(<<>>) /\ ArrayReady(<<>>)
<1>1. \A m \in Membs : m \in Texts BY Lengthy
<1>2. \A e \in Elems : e \in Texts BY Lengthy
<1> QED BY <1>1, <1>2, EmptyText DEF KeyReady, ArrayReady

LEMMA Kept == AfterValue("EXPECT_VALUE") = "DONE" /\ AfterValue("EXPECT_OBJECT_VALUE") = "MAYBE_OBJECT_COMMA"
              /\ AfterValue("MAYBE_ARRAY_VALUE") = "MAYBE_ARRAY_COMMA"
              /\ AfterValue("EXPECT_ARRAY_VALUE") = "MAYBE_ARRAY_COMMA"
  BY DEF AfterValue

LEMMA MaxIsNat == MaxTokens \in Nat /\ \A n \in Nat : n \in Lengths <=> 0 < n /\ n <= MaxTokens
  BY LanguageAssumption DEF Lengths

(* A value goes into an array, and into an object.                         *)
LEMMA IntoArray ==
  ASSUME NEW s \in Texts, NEW v \in Vals, ArrayReady(s), Len(s) + Len(v) <= MaxTokens
  PROVE  Holds("MAYBE_ARRAY_COMMA", s \o v)
<1> DEFINE c == <<"COMMA">>
<1>0. v \in Texts /\ c \in Texts /\ Len(c) = 1 /\ s \in Texts BY Lengthy, ConstantTexts
<1>1. s \o v \in Elems BY ElementRule DEF ArrayReady
<1>2. ASSUME NEW e \in Elems, Len((s \o v) \o c) + Len(e) <= MaxTokens
      PROVE  ((s \o v) \o c) \o e \in Elems
  <2>1. e \in Texts /\ Len(e) \in Lengths /\ Len(v) \in Lengths BY Lengthy
  <2>2. Listed(v, e) = (v \o c) \o e /\ Len(Listed(v, e)) = Len(v) + 1 + Len(e)
        /\ Listed(v, e) \in Texts
    BY <1>0, <2>1, ListedTexts
  <2> HIDE DEF c
  <2>3. Len((s \o v) \o c) = Len(s) + Len(v) + 1
    <3>1. s \o v \in Texts /\ Len(s \o v) = Len(s) + Len(v) /\ Len(s) \in Nat BY <1>0, JoinLength
    <3>2. Len((s \o v) \o c) = Len(s \o v) + Len(c) BY <1>0, <3>1, JoinLength
    <3> QED BY <1>0, <3>1, <3>2
  <2>4. Len(s) \in Nat BY <1>0, JoinLength
  <2>5. Listed(v, e) \in Elems
    <3>1. Len(v) + 1 + Len(e) \in Lengths BY <1>2, <2>1, <2>3, <2>4, MaxIsNat DEF Lengths
    <3> QED BY <3>1, ListedRule
  <2>6. s \o Listed(v, e) \in Elems
    <3>1. Len(s) + Len(Listed(v, e)) <= MaxTokens
      BY <1>2, <2>1, <2>2, <2>3, <2>4, MaxIsNat DEF Lengths
    <3> QED BY <2>5, <3>1 DEF ArrayReady
  <2>7. ((s \o v) \o c) \o e = s \o ((v \o c) \o e)
    <3>1. (s \o v) \o c = s \o (v \o c) BY <1>0, Reassociate
    <3>2. v \o c \in Texts BY <1>0, JoinLength
    <3>3. (s \o (v \o c)) \o e = s \o ((v \o c) \o e) BY <2>1, <3>2, Reassociate
    <3> QED BY <3>1, <3>3
  <2> QED BY <2>2, <2>6, <2>7
<1> QED BY <1>1, <1>2 DEF Holds, ArrayReady

LEMMA IntoObject ==
  ASSUME NEW s \in Texts, NEW v \in Vals, Awaits(STACK_VALUE_CURLY, s),
         Len(s) + Len(v) <= MaxTokens
  PROVE  Holds(IF v = EmptyArray THEN "MAYBE_OBJECT_KEY" ELSE "MAYBE_OBJECT_COMMA", s \o v)
<1> DEFINE k == <<"STRING", "COLON">>
           c == MemberSeparator(v)
<1>1. PICK r \in Texts : s = r \o k /\ KeyReady(r)
  BY DEF Awaits, STACK_VALUE_CURLY, STACK_VALUE_SQUARE
<1>2. /\ v \in Texts /\ Len(v) \in Lengths /\ c \in Texts /\ k \in Texts /\ Len(k) = 2
      /\ Member(v) = k \o v /\ Follow(v) = (k \o v) \o c
      /\ Len(Member(v)) = Len(v) + 2
  <2>1. v \in Texts /\ Len(v) \in Lengths BY Lengthy
  <2>2. k \in Texts /\ Len(k) = 2 BY DEF Texts, Terminals, Tokens
  <2> QED BY <2>1, <2>2, ConstantTexts DEF Member, Follow
<1>3. s \in Texts /\ Len(s) = Len(r) + 2 /\ Len(r) \in Nat
  <2> HIDE DEF k
  <2>1. r \o k \in Texts /\ Len(r \o k) = Len(r) + Len(k) /\ Len(r) \in Nat BY <1>2, JoinLength
  <2> QED BY <1>1, <1>2, <2>1
<1> HIDE DEF k, c
<1>4. s \o v = r \o Member(v) BY <1>1, <1>2, Reassociate, SMTT(30)
<1>5. s \o v \in Membs
  <2>1. Len(v) + 2 \in Lengths BY <1>2, <1>3, MaxIsNat DEF Lengths
  <2>2. Member(v) \in Membs BY <2>1, MemberRule
  <2>3. Len(r) + Len(Member(v)) <= MaxTokens BY <1>2, <1>3, MaxIsNat DEF Lengths
  <2> QED BY <1>1, <1>4, <2>2, <2>3 DEF KeyReady
<1>6. KeyReady((s \o v) \o c)
  <2> SUFFICES ASSUME NEW m \in Membs, Len((s \o v) \o c) + Len(m) <= MaxTokens
               PROVE  ((s \o v) \o c) \o m \in Membs
    BY DEF KeyReady
  <2>1. m \in Texts /\ Len(m) \in Lengths BY Lengthy
  <2>2. k \o v \in Texts BY <1>2, JoinLength
  <2>3. Follow(v) \in Texts BY <1>2, <2>2, JoinLength
  <2>4. (s \o v) \o c = r \o Follow(v)
    <3>1. (r \o (k \o v)) \o c = r \o ((k \o v) \o c) BY <1>2, <2>2, Reassociate
    <3> QED BY <1>2, <1>4, <3>1
  <2>5. Len(r \o Follow(v)) = Len(r) + Len(Follow(v)) /\ Len(Follow(v)) \in Nat
    BY <2>3, JoinLength
  <2>6. Follow(v) \o m \in Membs /\ Len(Follow(v) \o m) = Len(Follow(v)) + Len(m)
    <3>1. Len(Follow(v)) + Len(m) \in Lengths BY <1>3, <2>1, <2>4, <2>5, MaxIsNat DEF Lengths
    <3> QED BY <2>1, <2>3, <3>1, FollowRule, JoinLength
  <2>7. r \o (Follow(v) \o m) \in Membs
    <3>1. Len(r) + Len(Follow(v) \o m) <= MaxTokens
      BY <1>3, <2>1, <2>4, <2>5, <2>6, MaxIsNat DEF Lengths
    <3> QED BY <1>1, <2>6, <3>1 DEF KeyReady
  <2>8. (r \o Follow(v)) \o m = r \o (Follow(v) \o m) BY <2>1, <2>3, Reassociate
  <2> QED BY <2>4, <2>7, <2>8
<1>7. CASE v = EmptyArray
  <2>1. c = <<>> BY <1>7 DEF c, MemberSeparator
  <2>2. s \o v \in Texts BY <1>2, JoinLength
  <2>3. KeyReady(s \o v) BY <1>6, <2>1, <2>2, EmptyText
  <2> QED BY <1>5, <1>7, <2>3 DEF Holds
<1>8. CASE v # EmptyArray
  <2>1. c = <<"COMMA">> BY <1>8 DEF c, MemberSeparator
  <2> QED BY <1>5, <1>6, <1>8, <2>1 DEF Holds
<1> QED BY <1>7, <1>8

(* Where a value is due.                                                   *)
LEMMA Awaiting ==
  ASSUME NEW s \in Texts, Agrees, Holds(Reached, s), Reached \in ValueStates
  PROVE  /\ Reached = "EXPECT_VALUE" => s = <<>> /\ stack = <<>>
         /\ Reached # "EXPECT_VALUE" => stack # <<>> /\ Awaits(Last(stack), s)
  BY EmptyReady DEF Agrees, Holds, ValueStates, ObjectStates, ArrayStates, Awaits,
     STACK_VALUE_CURLY, STACK_VALUE_SQUARE

LEMMA Openings ==
  /\ \A k : Opening(k) \in Terminals /\ Closing(k) \in Terminals
  /\ \A s : Opened(STACK_VALUE_SQUARE, s) \o <<Closing(STACK_VALUE_SQUARE)>> = Square(s)
  /\ \A s : Opened(STACK_VALUE_CURLY, s) \o <<Closing(STACK_VALUE_CURLY)>> = Curly(s)
<1>1. \A k : Opening(k) \in Terminals /\ Closing(k) \in Terminals
  BY DEF Opening, Closing, Terminals, Tokens
<1>2. /\ Opening(STACK_VALUE_SQUARE) = "OPEN_BRACKET" /\ Closing(STACK_VALUE_SQUARE) = "CLOSE_BRACKET"
      /\ Opening(STACK_VALUE_CURLY) = "OPEN_CURLY_BRACKET"
      /\ Closing(STACK_VALUE_CURLY) = "CLOSE_CURLY_BRACKET"
  BY DEF Opening, Closing, STACK_VALUE_CURLY, STACK_VALUE_SQUARE
<1> QED BY <1>1, <1>2 DEF Opened, Square, Curly

LEMMA OpenedText ==
  ASSUME NEW k, NEW s \in Texts
  PROVE  Opened(k, s) \in Texts /\ \A t \in Texts : Opened(k, s) \o t = Opened(k, s \o t)
<1>1. <<Opening(k)>> \in Texts BY Openings, OneToken
<1>2. Opened(k, s) \in Texts BY <1>1, JoinLength DEF Opened
<1>3. \A t \in Texts : Opened(k, s) \o t = Opened(k, s \o t) BY <1>1, Reassociate DEF Opened
<1> QED BY <1>2, <1>3

LEMMA BeginsCurly ==
  ASSUME NEW s \in Texts
  PROVE  Curly(s) # EmptyArray
<1> DEFINE o == <<"OPEN_CURLY_BRACKET">>
           c == <<"CLOSE_CURLY_BRACKET">>
           p == <<"OPEN_BRACKET">>
           d == <<"CLOSE_BRACKET">>
<1>1. o \in Texts /\ c \in Texts /\ p \in Texts /\ d \in Texts BY DEF Texts, Terminals, Tokens
<1>2. o[1] = "OPEN_CURLY_BRACKET" /\ p[1] = "OPEN_BRACKET" /\ Len(o) = 1 /\ Len(p) = 1 OBVIOUS
<1> HIDE DEF o, c, p, d
<1>3. \A t, u, w \in Texts : Len(t) = 1 => ((t \o u) \o w)[1] = t[1]
  <2> TAKE t, u, w \in Texts
  <2> HAVE Len(t) = 1
  <2>1. t \o u \in Texts /\ Len(t \o u) = 1 + Len(u) /\ Len(u) \in Nat /\ Len(w) \in Nat
    <3>1. t \o u \in Texts /\ Len(t \o u) = Len(t) + Len(u) /\ Len(u) \in Nat BY JoinLength
    <3> QED BY <3>1, JoinLength
  <2>2. (t \o u)[1] = t[1] BY <2>1, ConcatProperties DEF Texts
  <2>3. ((t \o u) \o w)[1] = (t \o u)[1] BY <2>1, ConcatProperties DEF Texts
  <2> QED BY <2>2, <2>3
<1>4. Curly(s) = (o \o s) \o c BY DEF Curly, o, c
<1>5. EmptyArray = (p \o <<>>) \o d BY DEF EmptyArray, Square, p, d
<1>6. <<>> \in Texts BY EmptyText
<1>7. Curly(s)[1] = "OPEN_CURLY_BRACKET" BY <1>1, <1>2, <1>3, <1>4
<1>8. EmptyArray[1] = "OPEN_BRACKET" BY <1>1, <1>2, <1>3, <1>5, <1>6
<1> QED BY <1>7, <1>8

(* More of the same container.                                             *)
LEMMA SameContainer ==
  ASSUME TypeOK, NEW pre, Nests(pre), NEW s \in Texts, Innermost(pre, s), NEW t \in Texts,
         input' = input \o t, stack' = stack, Holds(Reached', s \o t)
  PROVE  Parsed'
<1>1. Nests(pre)' BY DEF Nests
<1>2. Innermost(pre, s \o t)'
  <2>1. CASE stack = <<>> BY <2>1 DEF Innermost
  <2>2. CASE stack # <<>>
    <3>1. pre[Len(stack)] \in Texts BY <2>2 DEF Nests, TypeOK
    <3>2. Opened(Last(stack), s) \in Texts BY OpenedText
    <3>3. input' = pre[Len(stack)] \o (Opened(Last(stack), s) \o t)
      BY <2>2, <3>1, <3>2, Reassociate DEF Innermost
    <3>4. input' = pre[Len(stack)] \o Opened(Last(stack), s \o t) BY <3>3, OpenedText
    <3> QED BY <2>2, <3>4 DEF Innermost
  <2> QED BY <2>1, <2>2
<1>3. s \o t \in Texts BY JoinLength
<1> QED BY <1>1, <1>2, <1>3 DEF Parsed

(* A container in the place of a value.                                    *)
LEMMA NewContainer ==
  ASSUME TypeOK, Agrees, input \in Texts,
         NEW pre, Nests(pre), NEW s \in Texts, Innermost(pre, s), Holds(Reached, s),
         Reached \in ValueStates, NEW k \in Kinds,
         stack' = Append(stack, k), input' = input \o <<Opening(k)>>, Holds(Reached', <<>>)
  PROVE  Parsed'
<1> DEFINE d == Len(stack)
<1>1. PICK p : p = Append(pre, input) OBVIOUS
<1>2. stack \in Seq(Kinds) /\ d \in Nat BY DEF TypeOK, Kinds
<1>3. /\ stack' # <<>> /\ Len(stack') = d + 1 /\ Last(stack') = k
      /\ \A i \in 1..d : stack'[i] = stack[i]
  BY <1>2, PushLemma
<1>4. /\ p \in Seq(Texts) /\ Len(p) = d + 1 /\ p[d + 1] = input
      /\ \A i \in 1..d : p[i] = pre[i]
  BY <1>1 DEF Nests
<1>5. p[1] = <<>>
  <2>1. CASE stack = <<>>
    <3>1. d = 0 /\ Reached = "EXPECT_VALUE" BY <2>1, Awaiting
    <3>2. input = <<>> BY <2>1, <3>1, Awaiting DEF Innermost
    <3> QED BY <1>4, <3>1, <3>2
  <2>2. CASE stack # <<>>
    <3>1. 1 \in 1..d BY <1>2, <2>2
    <3> QED BY <1>4, <2>2, <3>1 DEF Nests
  <2> QED BY <2>1, <2>2
<1>6. ASSUME NEW i \in 1..d
      PROVE  \E u \in Texts : p[i + 1] = p[i] \o Opened(stack[i], u) /\ Awaits(stack[i], u)
  <2>1. CASE i = d
    <3>1. stack # <<>> /\ Last(stack) = stack[i] /\ p[i] = pre[d] /\ p[i + 1] = input
      BY <1>2, <1>4, <2>1 DEF Last
    <3>2. Awaits(stack[i], s) BY <3>1, Awaiting DEF Agrees
    <3>3. input = pre[d] \o Opened(stack[i], s) BY <3>1 DEF Innermost
    <3> QED BY <3>1, <3>2, <3>3
  <2>2. CASE i # d
    <3>1. i \in 1..(d - 1) /\ i + 1 \in 1..d BY <1>2, <2>2
    <3>2. p[i] = pre[i] /\ p[i + 1] = pre[i + 1] BY <1>4, <3>1
    <3> QED BY <3>1, <3>2 DEF Nests
  <2> QED BY <2>1, <2>2
<1>7. Nests(p)'
  <2>1. ASSUME NEW i \in 1..(Len(stack') - 1)
        PROVE  \E u \in Texts : p[i + 1] = p[i] \o Opened(stack'[i], u) /\ Awaits(stack'[i], u)
    <3>1. i \in 1..d /\ stack'[i] = stack[i] BY <1>2, <1>3
    <3> QED BY <1>6, <3>1
  <2> QED BY <1>3, <1>4, <1>5, <2>1 DEF Nests
<1>8. Innermost(p, <<>>)'
  <2>1. Opened(k, <<>>) = <<Opening(k)>> BY Openings, OneToken, EmptyText DEF Opened
  <2> QED BY <1>3, <1>4, <2>1 DEF Innermost
<1> QED BY <1>7, <1>8, EmptyText DEF Parsed

(* The end of a container, which is a value of the one around it.          *)
LEMMA EndOfContainer ==
  ASSUME TypeOK, NEW pre, Nests(pre), NEW s \in Texts, Innermost(pre, s), stack # <<>>,
         NEW v \in Vals, v = Opened(Last(stack), s) \o <<Closing(Last(stack))>>,
         input' = input \o <<Closing(Last(stack))>>, Len(input') <= MaxTokens,
         stack' = Front(stack),
         Reached' = IF v = EmptyArray THEN AfterEmptyArray(stack') ELSE AfterContainer(stack')
  PROVE  Parsed'
<1> DEFINE d == Len(stack)
<1>1. stack \in Seq(Kinds) /\ d \in Nat \ {0} /\ d = Len(stack) BY DEF TypeOK, Kinds
<1>p. pre \in Seq(Texts) /\ Len(pre) = d BY DEF Nests
<1>2. v \in Texts /\ pre[d] \in Texts BY <1>1, <1>p, Lengthy
<1>3. input' = pre[d] \o v
  <2>1. <<Closing(Last(stack))>> \in Texts /\ Opened(Last(stack), s) \in Texts
    BY Openings, OneToken, OpenedText
  <2> QED BY <1>2, <2>1, Reassociate DEF Innermost
<1>4. CASE d = 1
  <2>1. pre[d] = <<>> BY <1>4 DEF Nests
  <2>2. input' = v BY <1>2, <1>3, <2>1, EmptyText
  <2>3. stack' = <<>> BY <1>1, <1>4 DEF Front
  <2>4. Reached' = "DONE" BY <2>3 DEF AfterEmptyArray, AfterContainer
  <2>5. Innermost(<<>>, v)' BY <2>2, <2>3 DEF Innermost
  <2>6. Nests(<<>>)' BY <2>3 DEF Nests
  <2>7. Holds(Reached', v) BY <2>4 DEF Holds
  <2> QED BY <1>2, <2>5, <2>6, <2>7 DEF Parsed
<1>5. CASE d > 1
  <2>1. PICK u \in Texts : pre[(d - 1) + 1] = pre[d - 1] \o Opened(stack[d - 1], u)
                           /\ Awaits(stack[d - 1], u)
    <3>1. d - 1 \in 1..(Len(stack) - 1) BY <1>1, <1>5
    <3> QED BY <3>1 DEF Nests
  <2>2. /\ stack' # <<>> /\ Len(stack') = d - 1 /\ Last(stack') = stack[d - 1]
        /\ \A i \in 1..(d - 1) : stack'[i] = stack[i]
    <3>1. stack' = SubSeq(stack, 1, d - 1) /\ d - 1 \in Nat /\ d - 1 <= Len(stack)
      BY <1>1, <1>5 DEF Front
    <3>2. Len(stack') = d - 1 /\ \A i \in 1..(d - 1) : stack'[i] = stack[i] BY <1>1, <3>1
    <3>3. d - 1 \in 1..(d - 1) /\ stack' # <<>> BY <1>1, <1>5, <3>2
    <3> QED BY <3>2, <3>3 DEF Last
  <2>a. d - 1 \in 1..d BY <1>1, <1>5
  <2>3. stack[d - 1] \in Kinds BY <1>1, <2>a
  <2>4. pre[d - 1] \in Texts BY <1>p, <2>a
  <2>5. pre[d] = pre[d - 1] \o Opened(stack[d - 1], u)
    <3>1. (d - 1) + 1 = d BY <1>1
    <3> QED BY <2>1, <3>1, Zenon
  <2>6. input' = pre[d - 1] \o Opened(stack[d - 1], u \o v)
    <3>1. Opened(stack[d - 1], u) \in Texts BY OpenedText
    <3>2. input' = pre[d - 1] \o (Opened(stack[d - 1], u) \o v)
      <4>1. (pre[d - 1] \o Opened(stack[d - 1], u)) \o v
              = pre[d - 1] \o (Opened(stack[d - 1], u) \o v)
        BY <1>2, <2>4, <3>1, Reassociate, ZenonT(60)
      <4> QED BY <1>3, <2>5, <4>1, Zenon
    <3>3. Opened(stack[d - 1], u) \o v = Opened(stack[d - 1], u \o v) BY <1>2, OpenedText, ZenonT(60)
    <3> QED BY <3>2, <3>3
  <2>7. PICK p : p = SubSeq(pre, 1, d - 1) OBVIOUS
  <2>8. p \in Seq(Texts) /\ Len(p) = d - 1 /\ \A i \in 1..(d - 1) : p[i] = pre[i]
    BY <1>1, <1>5, <2>7 DEF Nests
  <2>9. Nests(p)'
    <3>1. ASSUME NEW i \in 1..(Len(stack') - 1)
          PROVE  \E w \in Texts : p[i + 1] = p[i] \o Opened(stack'[i], w) /\ Awaits(stack'[i], w)
      <4>1. /\ i \in 1..(Len(stack) - 1) /\ stack'[i] = stack[i]
            /\ i \in 1..(d - 1) /\ i + 1 \in 1..(d - 1)
        BY <1>1, <2>2
      <4>2. p[i] = pre[i] /\ p[i + 1] = pre[i + 1] BY <2>8, <4>1
      <4> QED BY <4>1, <4>2 DEF Nests
    <3>2. p[1] = <<>>
      <4>1. 1 \in 1..(d - 1) BY <1>1, <1>5
      <4> QED BY <2>8, <4>1 DEF Nests
    <3> QED BY <2>2, <2>8, <3>1, <3>2 DEF Nests
  <2>10. Innermost(p, u \o v)'
    <3>1. p[d - 1] = pre[d - 1] BY <1>1, <1>5, <2>8
    <3> QED BY <2>2, <2>6, <3>1 DEF Innermost
  <2>11. u \o v \in Texts /\ Len(u) + Len(v) <= MaxTokens
    <3>1. /\ u \o v \in Texts /\ Len(u \o v) = Len(u) + Len(v)
          /\ Len(u) \in Nat /\ Len(v) \in Nat
      BY <1>2, JoinLength
    <3>2. Len(Opened(stack[d - 1], u \o v)) = 1 + Len(u \o v)
          /\ Opened(stack[d - 1], u \o v) \in Texts
      BY <3>1, Openings, OneToken, JoinLength DEF Opened
    <3>3. Len(input') = Len(pre[d - 1]) + Len(Opened(stack[d - 1], u \o v))
          /\ Len(pre[d - 1]) \in Nat
      BY <2>4, <2>6, <3>2, JoinLength, ZenonT(60)
    <3>6. Len(Opened(stack[d - 1], u \o v)) = 1 + (Len(u) + Len(v)) BY <3>1, <3>2, Zenon
    <3>4. Len(input') = Len(pre[d - 1]) + (1 + (Len(u) + Len(v))) BY <3>3, <3>6, Zenon
    <3>5. Len(u) + Len(v) <= MaxTokens
      <4>1. \A x, y, z, n \in Nat : x + (1 + (y + z)) <= n => y + z <= n OBVIOUS
      <4>2. Len(pre[d - 1]) + (1 + (Len(u) + Len(v))) <= MaxTokens BY <3>4, Zenon
      <4> QED BY <3>1, <3>3, <4>1, <4>2, LanguageAssumption
    <3> QED BY <3>1, <3>5
  <2>12. Holds(Reached', u \o v)
    <3>1. CASE stack[d - 1] = STACK_VALUE_CURLY
      <4>1. Reached' = IF v = EmptyArray THEN "MAYBE_OBJECT_KEY" ELSE "MAYBE_OBJECT_COMMA"
        BY <2>2, <3>1 DEF AfterEmptyArray, AfterContainer
      <4> QED BY <2>1, <2>11, <3>1, <4>1, IntoObject
    <3>2. CASE stack[d - 1] = STACK_VALUE_SQUARE
      <4>1. Reached' = "MAYBE_ARRAY_COMMA"
        BY <2>2, <3>2 DEF AfterEmptyArray, AfterContainer, STACK_VALUE_CURLY, STACK_VALUE_SQUARE
      <4>2. ArrayReady(u) BY <2>1, <3>2 DEF Awaits
      <4> QED BY <2>11, <4>1, <4>2, IntoArray
    <3> QED BY <2>3, <3>1, <3>2 DEF Kinds
  <2> QED BY <2>9, <2>10, <2>11, <2>12 DEF Parsed
<1> QED BY <1>1, <1>4, <1>5

LEMMA AgreesStep ==
  ASSUME TypeOK, TypeOK', Agrees, NEW t, Takes(t), lexing = "none", lexing' # "bignum",
         lexing' = "string" => t = "STRING" /\ state' = state
  PROVE  Agrees'
<1>1. Reached = state BY DEF Reached
<1>2. lexing' = "string" => state' \in ValueStates \cup KeyStates
  BY DEF Takes, Primitives
<1>3. CASE stack' = stack
  <2>1. \/ state \in ValueStates /\ Reached' = AfterValue(state)
        \/ state \in KeyStates /\ Reached' = "EXPECT_COLON"
        \/ state = "EXPECT_COLON" /\ Reached' = "EXPECT_OBJECT_VALUE"
        \/ state = "MAYBE_OBJECT_COMMA" /\ Reached' = "EXPECT_OBJECT_KEY"
        \/ state = "MAYBE_ARRAY_COMMA" /\ Reached' = "EXPECT_ARRAY_VALUE"
    <3>1. stack \in Seq(Kinds) BY DEF TypeOK, Kinds
    <3>2. \A k \in Kinds : Append(stack, k) # stack BY <3>1
    <3>3. stack # <<>> => Front(stack) # stack BY <3>1 DEF Front
    <3> QED BY <1>3, <3>2, <3>3 DEF Takes, Stays, Leaves, Kinds
  <2> QED BY <1>1, <1>2, <1>3, <2>1 DEF Agrees, AfterValue, ObjectStates, ArrayStates, ValueStates,
                                       KeyStates
<1>4. CASE \E k \in Kinds : /\ stack' = Append(stack, k)
                            /\ Reached' = IF k = STACK_VALUE_CURLY THEN "MAYBE_OBJECT_KEY"
                                          ELSE "MAYBE_ARRAY_VALUE"
  <2>1. PICK k \in Kinds : /\ stack' = Append(stack, k)
                           /\ Reached' = IF k = STACK_VALUE_CURLY THEN "MAYBE_OBJECT_KEY"
                                         ELSE "MAYBE_ARRAY_VALUE" BY <1>4
  <2>2. stack' # <<>> /\ Last(stack') = k BY <2>1, PushLemma DEF TypeOK, Kinds
  <2> QED BY <1>2, <2>1, <2>2 DEF Agrees, ObjectStates, ArrayStates, Kinds
<1>5. CASE /\ stack # <<>> /\ stack' = Front(stack)
           /\ Reached' \in {AfterContainer(stack'), AfterEmptyArray(stack')}
  <2>1. stack' # <<>> => Last(stack') \in Kinds BY PopLemma DEF TypeOK, Kinds
  <2> QED BY <1>2, <1>5, <2>1 DEF Agrees, AfterContainer, AfterEmptyArray, ObjectStates, ArrayStates,
                                  Kinds, STACK_VALUE_CURLY, STACK_VALUE_SQUARE
<1>6. \/ stack' = stack
      \/ \E k \in Kinds : /\ stack' = Append(stack, k)
                          /\ Reached' = IF k = STACK_VALUE_CURLY THEN "MAYBE_OBJECT_KEY"
                                        ELSE "MAYBE_ARRAY_VALUE"
      \/ /\ stack # <<>> /\ stack' = Front(stack)
         /\ Reached' \in {AfterContainer(stack'), AfterEmptyArray(stack')}
  <2>1. \A st, t2 : Stays(st) => stack' = stack BY DEF Stays
  <2>2. STACK_VALUE_CURLY \in Kinds /\ STACK_VALUE_SQUARE \in Kinds
        /\ STACK_VALUE_SQUARE # STACK_VALUE_CURLY
    BY DEF Kinds, STACK_VALUE_CURLY, STACK_VALUE_SQUARE
  <2>3. ASSUME stack' = Append(stack, STACK_VALUE_CURLY), Reached' = "MAYBE_OBJECT_KEY"
        PROVE  \E k \in Kinds : /\ stack' = Append(stack, k)
                                /\ Reached' = IF k = STACK_VALUE_CURLY THEN "MAYBE_OBJECT_KEY"
                                              ELSE "MAYBE_ARRAY_VALUE"
    BY <2>2, <2>3
  <2>4. ASSUME stack' = Append(stack, STACK_VALUE_SQUARE), Reached' = "MAYBE_ARRAY_VALUE"
        PROVE  \E k \in Kinds : /\ stack' = Append(stack, k)
                                /\ Reached' = IF k = STACK_VALUE_CURLY THEN "MAYBE_OBJECT_KEY"
                                              ELSE "MAYBE_ARRAY_VALUE"
    BY <2>2, <2>4
  <2>5. \A st : Leaves(st) => stack # <<>> /\ stack' = Front(stack) /\ Reached' = st BY DEF Leaves
  <2> QED BY <2>1, <2>3, <2>4, <2>5 DEF Takes
<1> QED BY <1>3, <1>4, <1>5, <1>6

LEMMA ParsedStep ==
  ASSUME TypeOK, Agrees, input \in Texts, Parsed, lexing = "none",
         NEW t \in Terminals, Takes(t), input' = input \o <<t>>, Len(input') <= MaxTokens
  PROVE  Parsed'
<1>1. PICK pre : Nests(pre) /\ \E s \in Texts : Innermost(pre, s) /\ Holds(Reached, s) BY DEF Parsed
<1>2. PICK s \in Texts : Innermost(pre, s) /\ Holds(Reached, s) BY <1>1
<1>3. Reached = state BY DEF Reached
<1>4. <<t>> \in Texts /\ Len(<<t>>) = 1 BY OneToken
<1>5. Len(s) + 1 <= MaxTokens /\ Len(s) \in Nat
  <2>1. Len(input') = Len(input) + 1 /\ Len(input) \in Nat /\ Len(s) \in Nat BY <1>4, JoinLength
  <2>2. Len(s) <= Len(input)
    <3>1. CASE stack = <<>> BY <1>2, <2>1, <3>1 DEF Innermost
    <3>2. CASE stack # <<>>
      <4>1. pre[Len(stack)] \in Texts BY <1>1, <3>2 DEF Nests, TypeOK
      <4>2. <<Opening(Last(stack))>> \in Texts /\ Len(<<Opening(Last(stack))>>) = 1
        BY Openings, OneToken
      <4>3. Opened(Last(stack), s) \in Texts /\ Len(Opened(Last(stack), s)) = 1 + Len(s)
        BY <4>2, JoinLength DEF Opened
      <4>4. Len(input) = Len(pre[Len(stack)]) + Len(Opened(Last(stack), s))
            /\ Len(pre[Len(stack)]) \in Nat
        BY <1>2, <3>2, <4>1, <4>3, JoinLength DEF Innermost
      <4>5. \A x, y, n \in Nat : n = x + (1 + y) => y <= n OBVIOUS
      <4>6. Len(input) = Len(pre[Len(stack)]) + (1 + Len(s)) BY <4>3, <4>4, Zenon
      <4> QED BY <2>1, <4>4, <4>5, <4>6
    <3> QED BY <3>1, <3>2
  <2> QED BY <2>1, <2>2, LanguageAssumption
<1>6. MaxTokens \in Nat /\ 1 \in Lengths BY <1>5, LanguageAssumption DEF Lengths
<1>7. CASE t \in Primitives /\ state \in ValueStates /\ Stays(AfterValue(state))
  <2>1. <<t>> \in Vals BY <1>6, <1>7, PrimitiveRule
  <2>2. <<t>> # EmptyArray
    <3>1. Len(EmptyArray) = 2 BY ConstantTexts DEF TextsOf
    <3> QED BY <1>4, <3>1
  <2>3. Holds(AfterValue(state), s \o <<t>>)
    <3>1. CASE state = "EXPECT_VALUE"
      <4>1. s = <<>> BY <1>2, <1>3, <3>1 DEF Holds
      <4> QED BY <1>4, <2>1, <3>1, <4>1, Kept, EmptyText DEF Holds
    <3>2. CASE state = "EXPECT_OBJECT_VALUE"
      <4>1. Awaits(STACK_VALUE_CURLY, s) BY <1>2, <1>3, <3>2 DEF Holds
      <4> QED BY <1>4, <1>5, <2>1, <2>2, <3>2, <4>1, Kept, IntoObject
    <3>3. CASE state \in {"MAYBE_ARRAY_VALUE", "EXPECT_ARRAY_VALUE"}
      <4>1. ArrayReady(s) BY <1>2, <1>3, <3>3, EmptyReady DEF Holds
      <4> QED BY <1>4, <1>5, <2>1, <3>3, <4>1, Kept, IntoArray
    <3> QED BY <1>7, <3>1, <3>2, <3>3 DEF ValueStates
  <2> QED BY <1>1, <1>2, <1>4, <1>7, <2>3, SameContainer DEF Stays
<1>8. CASE t = "STRING" /\ state \in KeyStates /\ Stays("EXPECT_COLON")
  <2>1. KeyReady(s) BY <1>2, <1>3, <1>8 DEF Holds, KeyStates
  <2>2. Holds("EXPECT_COLON", s \o <<t>>) BY <1>8, <2>1 DEF Holds
  <2> QED BY <1>1, <1>2, <1>4, <1>8, <2>2, SameContainer DEF Stays
<1>9. CASE t = "COLON" /\ state = "EXPECT_COLON" /\ Stays("EXPECT_OBJECT_VALUE")
  <2>1. PICK r \in Texts : s = r \o <<"STRING">> /\ KeyReady(r) BY <1>2, <1>3, <1>9 DEF Holds
  <2>2. s \o <<t>> = r \o <<"STRING", "COLON">>
    <3>1. <<"STRING">> \in Texts BY ConstantTexts
    <3>2. <<"STRING">> \o <<"COLON">> = <<"STRING", "COLON">> BY TwoTokens
    <3>3. (r \o <<"STRING">>) \o <<t>> = r \o (<<"STRING">> \o <<t>>) BY <1>4, <3>1, Reassociate
    <3> QED BY <1>9, <2>1, <3>2, <3>3, Zenon
  <2>3. Awaits(STACK_VALUE_CURLY, s \o <<t>>)
    <3>1. \E q \in Texts : s \o <<t>> = q \o <<"STRING", "COLON">> /\ KeyReady(q) BY <2>1, <2>2
    <3>2. STACK_VALUE_CURLY # STACK_VALUE_SQUARE BY DEF STACK_VALUE_CURLY, STACK_VALUE_SQUARE
    <3> QED BY <3>1, <3>2, Zenon DEF Awaits
  <2>4. Holds("EXPECT_OBJECT_VALUE", s \o <<t>>) BY <2>3 DEF Holds
  <2> QED BY <1>1, <1>2, <1>4, <1>9, <2>4, SameContainer DEF Stays
<1>10. CASE t = "COMMA" /\ state = "MAYBE_OBJECT_COMMA" /\ Stays("EXPECT_OBJECT_KEY")
  <2>1. Holds("EXPECT_OBJECT_KEY", s \o <<t>>) BY <1>2, <1>3, <1>10 DEF Holds
  <2> QED BY <1>1, <1>2, <1>4, <1>10, <2>1, SameContainer DEF Stays
<1>11. CASE t = "COMMA" /\ state = "MAYBE_ARRAY_COMMA" /\ Stays("EXPECT_ARRAY_VALUE")
  <2>1. Holds("EXPECT_ARRAY_VALUE", s \o <<t>>) BY <1>2, <1>3, <1>11 DEF Holds
  <2> QED BY <1>1, <1>2, <1>4, <1>11, <2>1, SameContainer DEF Stays
<1>12. CASE /\ t = "OPEN_CURLY_BRACKET" /\ state \in ValueStates
            /\ stack' = Append(stack, STACK_VALUE_CURLY) /\ Reached' = "MAYBE_OBJECT_KEY"
  <2>1. t = Opening(STACK_VALUE_CURLY) /\ STACK_VALUE_CURLY \in Kinds
    BY <1>12 DEF Opening, Kinds
  <2>2. Holds(Reached', <<>>) BY <1>12, EmptyReady DEF Holds
  <2> QED BY <1>1, <1>2, <1>3, <1>12, <2>1, <2>2, NewContainer
<1>13. CASE /\ t = "OPEN_BRACKET" /\ state \in ValueStates
            /\ stack' = Append(stack, STACK_VALUE_SQUARE) /\ Reached' = "MAYBE_ARRAY_VALUE"
  <2>1. t = Opening(STACK_VALUE_SQUARE) /\ STACK_VALUE_SQUARE \in Kinds
    BY <1>13 DEF Opening, Kinds, STACK_VALUE_CURLY, STACK_VALUE_SQUARE
  <2>2. Holds(Reached', <<>>) BY <1>13 DEF Holds
  <2> QED BY <1>1, <1>2, <1>3, <1>13, <2>1, <2>2, NewContainer
<1>a. stack # <<>> => Len(s) + 2 \in Lengths
  <2> SUFFICES ASSUME stack # <<>> PROVE Len(s) + 2 \in Lengths OBVIOUS
  <2>1. pre[Len(stack)] \in Texts BY <1>1 DEF Nests, TypeOK
  <2>2. <<Opening(Last(stack))>> \in Texts /\ Len(<<Opening(Last(stack))>>) = 1
    BY Openings, OneToken
  <2>3. Opened(Last(stack), s) \in Texts /\ Len(Opened(Last(stack), s)) = 1 + Len(s)
    BY <2>2, JoinLength DEF Opened
  <2>4. Len(input) = Len(pre[Len(stack)]) + Len(Opened(Last(stack), s))
        /\ Len(pre[Len(stack)]) \in Nat
    BY <1>2, <2>1, <2>3, JoinLength DEF Innermost
  <2>5. Len(input') = Len(input) + 1 BY <1>4, JoinLength
  <2>6. \A x, y, n \in Nat : (x + (1 + y)) + 1 <= n => 0 < y + 2 /\ y + 2 <= n /\ y + 2 \in Nat OBVIOUS
  <2>7. (Len(pre[Len(stack)]) + (1 + Len(s))) + 1 <= MaxTokens BY <2>3, <2>4, <2>5, Zenon
  <2> QED BY <1>5, <2>4, <2>6, <2>7, MaxIsNat
<1>14. CASE /\ t = "CLOSE_CURLY_BRACKET" /\ state \in {"MAYBE_OBJECT_KEY", "MAYBE_OBJECT_COMMA"}
            /\ Leaves(AfterContainer(Front(stack)))
  <2>1. stack # <<>> /\ Last(stack) = STACK_VALUE_CURLY
    BY <1>3, <1>14 DEF Agrees, ObjectStates
  <2>2. t = Closing(Last(stack)) BY <1>14, <2>1 DEF Closing
  <2>3. Opened(Last(stack), s) \o <<Closing(Last(stack))>> = Curly(s) BY <2>1, Openings
  <2>4. Curly(s) \in Vals
    <3>1. s = <<>> \/ s \in Membs BY <1>2, <1>3, <1>14 DEF Holds
    <3>2. CASE s = <<>>
      <4>1. 2 \in Lengths BY <1>a, <2>1, <3>2, EmptyText
      <4> QED BY <3>2, <4>1, EmptyRules
    <3>3. CASE s \in Membs BY <1>a, <2>1, <3>3, CurlyRule
    <3> QED BY <3>1, <3>2, <3>3
  <2>5. Curly(s) # EmptyArray BY BeginsCurly
  <2> QED BY <1>1, <1>2, <1>14, <2>1, <2>2, <2>3, <2>4, <2>5, EndOfContainer DEF Leaves
<1>15. CASE /\ t = "CLOSE_BRACKET" /\ state = "MAYBE_ARRAY_VALUE"
            /\ Leaves(AfterEmptyArray(Front(stack)))
  <2>1. stack # <<>> /\ Last(stack) = STACK_VALUE_SQUARE /\ s = <<>>
    BY <1>2, <1>3, <1>15 DEF Agrees, ArrayStates, Holds
  <2>2. t = Closing(Last(stack))
    BY <1>15, <2>1 DEF Closing, STACK_VALUE_CURLY, STACK_VALUE_SQUARE
  <2>3. Opened(Last(stack), s) \o <<Closing(Last(stack))>> = EmptyArray
    BY <2>1, Openings DEF EmptyArray
  <2>4. EmptyArray \in Vals
    <3>1. 2 \in Lengths BY <1>a, <2>1, EmptyText
    <3> QED BY <3>1, EmptyRules
  <2> QED BY <1>1, <1>2, <1>15, <2>1, <2>2, <2>3, <2>4, EndOfContainer DEF Leaves
<1>16. CASE /\ t = "CLOSE_BRACKET" /\ state = "MAYBE_ARRAY_COMMA"
            /\ Leaves(AfterContainer(Front(stack)))
  <2>1. stack # <<>> /\ Last(stack) = STACK_VALUE_SQUARE /\ s \in Elems
    BY <1>2, <1>3, <1>16 DEF Agrees, ArrayStates, Holds
  <2>2. t = Closing(Last(stack))
    BY <1>16, <2>1 DEF Closing, STACK_VALUE_CURLY, STACK_VALUE_SQUARE
  <2>3. Opened(Last(stack), s) \o <<Closing(Last(stack))>> = Square(s) BY <2>1, Openings
  <2>4. Square(s) \in Vals BY <1>a, <2>1, SquareRule
  <2>5. Square(s) # EmptyArray
    <3>1. Len(s) > 0 BY <2>1, Lengthy DEF Lengths
    <3>2. Len(Square(s)) = Len(s) + 2 BY ConstantTexts
    <3>3. Len(EmptyArray) = 2 BY ConstantTexts DEF TextsOf
    <3>4. Len(Square(s)) # 2 BY <1>5, <3>1, <3>2
    <3> QED BY <3>3, <3>4, Zenon
  <2> QED BY <1>1, <1>2, <1>16, <2>1, <2>2, <2>3, <2>4, <2>5, EndOfContainer DEF Leaves
<1> QED BY <1>7, <1>8, <1>9, <1>10, <1>11, <1>12, <1>13, <1>14, <1>15, <1>16 DEF Takes

LEMMA Initially == LInit => AcceptInv
<1> SUFFICES ASSUME LInit PROVE AcceptInv OBVIOUS
<1>1. TypeOK BY InitTypes DEF LInit
<1>2. /\ state = "EXPECT_VALUE" /\ stack = <<>> /\ lexing = "none" /\ err = "OK" /\ ~finalized
      /\ input = <<>>
  BY DEF LInit, Init
<1>3. Reached = "EXPECT_VALUE" BY <1>2 DEF Reached
<1>4. Agrees BY <1>2, <1>3 DEF Agrees, ObjectStates, ArrayStates
<1>5. Nests(<<>>) BY <1>2 DEF Nests
<1>6. Innermost(<<>>, <<>>) BY <1>2 DEF Innermost
<1>7. Holds(Reached, <<>>) BY <1>3 DEF Holds
<1>8. Parsed BY <1>5, <1>6, <1>7, EmptyText DEF Parsed
<1>9. input \in Texts /\ Len(input) <= MaxTokens BY <1>2, EmptyText, LanguageAssumption
<1> QED BY <1>1, <1>2, <1>4, <1>8, <1>9 DEF AcceptInv

LEMMA OneMore ==
  ASSUME input \in Texts, NEW t \in Terminals, input' = Append(input, t), Len(input) < MaxTokens
  PROVE  input' = input \o <<t>> /\ input' \in Texts /\ Len(input') <= MaxTokens
<1>1. Append(input, t) = input \o <<t>> BY AppendIsConcat DEF Texts
<1>2. <<t>> \in Texts /\ Len(<<t>>) = 1 BY OneToken
<1>3. input' \in Texts /\ Len(input') = Len(input) + Len(<<t>>) /\ Len(input) \in Nat
  BY <1>1, <1>2, JoinLength
<1> QED BY <1>1, <1>2, <1>3, LanguageAssumption

LEMMA SameParsed ==
  ASSUME Parsed, Reached' = Reached, stack' = stack, input' = input
  PROVE  Parsed'
<1>1. \A pre : Nests(pre) => Nests(pre)' BY DEF Nests
<1>2. \A pre, s : Innermost(pre, s) => Innermost(pre, s)' BY DEF Innermost
<1>3. \A s : Holds(Reached, s) => Holds(Reached', s) OBVIOUS
<1>4. PICK pre : Nests(pre) /\ \E s \in Texts : Innermost(pre, s) /\ Holds(Reached, s) BY DEF Parsed
<1>5. PICK s \in Texts : Innermost(pre, s) /\ Holds(Reached, s) BY <1>4
<1> QED BY <1>1, <1>2, <1>3, <1>4, <1>5 DEF Parsed

LEMMA AcceptStep == AcceptInv /\ [LNext]_lvars => AcceptInv'
<1> SUFFICES ASSUME AcceptInv, [LNext]_lvars PROVE AcceptInv' OBVIOUS
<1>0. TypeOK /\ input \in Texts /\ Len(input) <= MaxTokens BY DEF AcceptInv
<1>1. TypeOK'
  <2>1. LNext => Next BY DEF LNext, Next, Tokens, Literals
  <2>2. [Next]_vars BY <2>1 DEF lvars
  <2> QED BY <1>0, <2>2, TypeStep
<1>2. CASE UNCHANGED lvars
  <2>1. UNCHANGED <<state, stack, lexing, err, finalized, input>> BY <1>2 DEF lvars, vars
  <2>2. Reached' = Reached BY <2>1 DEF Reached
  <2>3. Agrees => Agrees' BY <2>1, <2>2 DEF Agrees
  <2>4. Parsed => Parsed' BY <2>1, <2>2, SameParsed
  <2> QED BY <1>0, <1>1, <2>1, <2>2, <2>3, <2>4 DEF AcceptInv
<1>3. CASE LNext /\ ~Running
  <2>1. UNCHANGED lvars
    BY <1>3 DEF LNext, lvars, embedjson_token, embedjson_tokeni, Number, embedjson_tokenc_begin,
       embedjson_tokenc_end, EndLexeme, embedjson_finalize, Stopped
  <2> QED BY <1>2, <2>1
<1>4. CASE LNext /\ Running
  <2>1. Agrees /\ Parsed /\ err = "OK" /\ ~finalized BY <1>4 DEF Running, AcceptInv
  <2>2. Goes \/ Stops \/ Pauses \/ Ends BY <1>0, <1>4, <2>1, Steps
  <2>3. CASE Goes
    <3>1. PICK t \in Terminals : /\ Receives(t) /\ Takes(t) /\ lexing' # "bignum"
                                 /\ lexing' = "string" => t = "STRING" /\ state' = state
      BY <2>3 DEF Goes
    <3>2. lexing = "none" /\ ~finalized' /\ err' = "OK" BY <2>3, <3>1 DEF Receives, Goes
    <3>3. input' = input \o <<t>> /\ input' \in Texts /\ Len(input') <= MaxTokens
      BY <1>0, <3>1, OneMore DEF Receives
    <3>4. Agrees' BY <1>0, <1>1, <2>1, <3>1, <3>2, AgreesStep
    <3>5. Parsed' BY <1>0, <2>1, <3>1, <3>2, <3>3, ParsedStep
    <3> QED BY <1>1, <3>2, <3>3, <3>4, <3>5 DEF AcceptInv
  <2>4. CASE Stops
    <3>1. PICK t \in Terminals : Receives(t) /\ err' \notin {"OK", "INSUFFICIENT_INPUT"}
      BY <2>4 DEF Stops
    <3>2. input' \in Texts /\ Len(input') <= MaxTokens BY <1>0, <3>1, OneMore DEF Receives
    <3> QED BY <1>1, <3>1, <3>2 DEF AcceptInv, Receives
  <2>5. CASE Pauses
    <3>1. /\ Reached' = Reached /\ stack' = stack /\ lexing' = "none" /\ input' = input /\ err' = "OK"
          /\ finalized' => state = "DONE" /\ lexing = "none"
      BY <2>5 DEF Pauses, Stays
    <3>2. Agrees' BY <2>1, <3>1 DEF Agrees
    <3>3. Parsed' BY <2>1, <3>1, SameParsed
    <3>4. finalized' => Reached' = "DONE" BY <3>1 DEF Reached
    <3> QED BY <1>0, <1>1, <3>1, <3>2, <3>3, <3>4 DEF AcceptInv
  <2>6. CASE Ends
    BY <1>0, <1>1, <2>6 DEF Ends, AcceptInv
  <2> QED BY <2>2, <2>3, <2>4, <2>5, <2>6
<1> QED BY <1>2, <1>3, <1>4

(* embedjson_finalize succeeds on documents of the grammar and on nothing  *)
(* else, however long the input, however small the stack.                  *)
THEOREM NothingElseIsAccepted == LSpec => []AcceptsOnlyDocuments
<1>1. AcceptInv => AcceptsOnlyDocuments
  <2> SUFFICES ASSUME AcceptInv, finalized PROVE input \in Documents BY DEF AcceptsOnlyDocuments
  <2>1. Reached = "DONE" /\ Agrees /\ Parsed BY DEF AcceptInv
  <2>2. stack = <<>> BY <2>1 DEF Agrees
  <2>3. PICK pre : \E s \in Texts : Innermost(pre, s) /\ Holds(Reached, s) BY <2>1 DEF Parsed
  <2>4. input \in Vals BY <2>1, <2>2, <2>3 DEF Innermost, Holds
  <2> QED BY <2>4, Documented
<1> QED BY <1>1, Initially, AcceptStep, PTL DEF LSpec

(***************************************************************************)
(* Every document is accepted                                              *)
(***************************************************************************)
(* What may stand between the parser in a state and the end of the         *)
(* innermost container: first where that end may come, ...                 *)
Closable(st, c) ==
  CASE st = "DONE" -> c = <<>>
    [] st = "MAYBE_OBJECT_KEY" -> c = <<>> \/ c \in Membs
    [] st = "MAYBE_OBJECT_COMMA" -> c = <<>> \/ \E m \in Membs : c = <<"COMMA">> \o m
    [] st = "MAYBE_ARRAY_COMMA" -> c = <<>> \/ \E e \in Elems : c = <<"COMMA">> \o e
    [] OTHER -> FALSE

(* ... then where a value is due, which decides what may follow it.        *)
NextIn(st, v) == IF v = EmptyArray /\ st = "EXPECT_OBJECT_VALUE" THEN "MAYBE_OBJECT_KEY"
                 ELSE AfterValue(st)

Valued(st, c) == \E v \in Vals : \E u \in Texts : c = v \o u /\ Closable(NextIn(st, v), u)

Remains(st, c) ==
  CASE st \in ValueStates -> Valued(st, c)
    [] st = "EXPECT_OBJECT_KEY" -> c \in Membs
    [] st = "EXPECT_COLON" -> \E u \in Texts : c = <<"COLON">> \o u /\ Valued("EXPECT_OBJECT_VALUE", u)
    [] OTHER -> Closable(st, c)

(* suf[i] is what may come after the end of container i of the stack stk.  *)
Endings(stk, suf) ==
  /\ suf \in Seq(Texts) /\ Len(suf) = Len(stk)
  /\ stk # <<>> => suf[1] = <<>>
  /\ \A i \in 1..(Len(stk) - 1) :
       \E c \in Texts : /\ suf[i + 1] = c \o (<<Closing(stk[i])>> \o suf[i])
                        /\ Closable(AfterContainer(<<stk[i]>>), c)

Outside(stk, w) ==
  \E suf : Endings(stk, suf)
           /\ w = IF stk = <<>> THEN <<>> ELSE <<Closing(stk[Len(stk)])>> \o suf[Len(stk)]

Leads(st, stk, rest) ==
  \E w \in Texts : Outside(stk, w) /\ \E c \in Texts : Remains(st, c) /\ rest = c \o w

(* rest takes a parser with the state st and the stack stk to the end of a *)
(* document.  An array that is still empty may end, which it is not the    *)
(* same for its container as the end of another array.                     *)
Continues(st, stk, rest) ==
  \/ Leads(st, stk, rest)
  \/ /\ st = "MAYBE_ARRAY_VALUE" /\ stk # <<>>
     /\ \E r \in Texts : rest = <<"CLOSE_BRACKET">> \o r
                         /\ Leads(AfterEmptyArray(Front(stk)), Front(stk), r)

Before(t, r) == <<t>> \o r

LEMMA FirstToken ==
  ASSUME NEW t \in Terminals, NEW u \in Terminals, NEW r \in Texts, NEW w \in Texts,
         Before(t, r) = Before(u, w)
  PROVE  t = u /\ r = w
<1> USE DEF Before
<1> DEFINE a == <<t>>
           b == <<u>>
<1>1. a \in Texts /\ b \in Texts /\ Len(a) = 1 /\ Len(b) = 1 BY OneToken
<1>2. a[1] = t /\ b[1] = u OBVIOUS
<1>3. a \o r = b \o w OBVIOUS
<1> HIDE DEF a, b
<1>4. \A p, q \in Texts : Len(p) = 1 => (p \o q)[1] = p[1]
  <2> TAKE p, q \in Texts
  <2> HAVE Len(p) = 1
  <2>1. 1 \in 1..(Len(p) + Len(q)) /\ 1 <= Len(p)
    <3>1. Len(q) \in Nat BY DEF Texts
    <3> QED BY <3>1
  <2> QED BY <2>1, ConcatProperties DEF Texts
<1>5. t = u BY <1>1, <1>2, <1>3, <1>4
<1>6. a = b BY <1>5 DEF a, b
<1>7. r = w BY <1>1, <1>3, <1>6, ConcatSimplifications DEF Texts
<1> QED BY <1>5, <1>7

LEMMA NoText ==
  ASSUME NEW r \in Texts, NEW w \in Texts, r \o w = <<>>
  PROVE  r = <<>> /\ w = <<>>
  BY ConcatSimplifications DEF Texts

LEMMA NotEmpty == ASSUME NEW t \in Terminals, NEW r \in Texts PROVE <<t>> \o r # <<>>
<1>1. <<t>> \in Texts /\ Len(<<t>>) = 1 BY OneToken
<1>2. Len(<<>>) = 0 OBVIOUS
<1> QED BY <1>1, <1>2, NoText

(* A container begins or ends.                                             *)
LEMMA OutsideNew ==
  ASSUME NEW stk \in Seq(Kinds), NEW w, Outside(stk, w), NEW k \in Kinds, NEW u \in Texts,
         Closable(AfterContainer(stk), u)
  PROVE  Outside(Append(stk, k), <<Closing(k)>> \o (u \o w))
<1> DEFINE n == Len(stk)
           s2 == Append(stk, k)
<1>1. PICK suf : /\ Endings(stk, suf)
                 /\ w = IF stk = <<>> THEN <<>> ELSE <<Closing(stk[Len(stk)])>> \o suf[Len(stk)]
  BY DEF Outside
<1>2. PICK next : next = Append(suf, u \o w) OBVIOUS
<1>3. n \in Nat /\ Len(s2) = n + 1 /\ s2 # <<>> /\ s2[n + 1] = k /\ \A i \in 1..n : s2[i] = stk[i]
  BY PushLemma
<1>4. u \o w \in Texts
  <2>1. CASE stk = <<>> BY <1>1, <2>1, EmptyText
  <2>2. CASE stk # <<>>
    <3>1. suf[n] \in Texts BY <1>1, <1>3, <2>2 DEF Endings
    <3>2. <<Closing(stk[n])>> \in Texts BY Openings, OneToken
    <3> QED BY <1>1, <2>2, <3>1, <3>2, JoinLength
  <2> QED BY <2>1, <2>2
<1>5. /\ next \in Seq(Texts) /\ Len(next) = n + 1 /\ next[n + 1] = u \o w
      /\ \A i \in 1..n : next[i] = suf[i]
  <2>1. suf \in Seq(Texts) /\ Len(suf) = n BY <1>1 DEF Endings
  <2>2. PICK z \in Texts : z = u \o w BY <1>4
  <2>3. next = Append(suf, z) BY <1>2, <2>2, Zenon
  <2> HIDE DEF n
  <2>4. /\ next \in Seq(Texts) /\ Len(next) = n + 1 /\ next[n + 1] = z
        /\ \A i \in 1..n : next[i] = suf[i]
    BY <1>3, <2>1, <2>3, AppendProperties
  <2> QED BY <2>2, <2>4, Zenon
<1>6. next[1] = <<>>
  <2>1. CASE stk = <<>>
    <3>1. u = <<>> /\ w = <<>> /\ n = 0 BY <1>1, <2>1 DEF Closable, AfterContainer
    <3> QED BY <1>5, <3>1, EmptyText
  <2>2. CASE stk # <<>>
    <3>1. 1 \in 1..n BY <1>3, <2>2
    <3> QED BY <1>1, <1>5, <2>2, <3>1 DEF Endings
  <2> QED BY <2>1, <2>2
<1>7. ASSUME NEW i \in 1..n
      PROVE  \E c \in Texts : /\ next[i + 1] = c \o (<<Closing(s2[i])>> \o next[i])
                              /\ Closable(AfterContainer(<<s2[i]>>), c)
  <2>1. next[i] = suf[i] /\ s2[i] = stk[i] BY <1>3, <1>5
  <2>2. CASE i = n
    <3>1. stk # <<>> /\ next[i + 1] = u \o w BY <1>3, <1>5, <2>2
    <3>2. w = <<Closing(s2[i])>> \o next[i] BY <1>1, <2>1, <2>2, <3>1
    <3>3. AfterContainer(<<s2[i]>>) = AfterContainer(stk)
      BY <2>1, <2>2, <3>1 DEF AfterContainer, Last
    <3> QED BY <3>1, <3>2, <3>3
  <2>3. CASE i # n
    <3>1. i \in 1..(Len(stk) - 1) /\ i + 1 \in 1..n BY <1>3, <2>3
    <3>2. next[i + 1] = suf[i + 1] BY <1>5, <3>1
    <3> QED BY <1>1, <2>1, <3>1, <3>2 DEF Endings
  <2> QED BY <2>2, <2>3
<1> HIDE DEF s2, n
<1>8. Endings(s2, next)
  <2>1. \A i \in 1..(Len(s2) - 1) : i \in 1..n BY <1>3
  <2>2. Len(next) = Len(s2) BY <1>3, <1>5
  <2> QED BY <1>5, <1>6, <1>7, <2>1, <2>2 DEF Endings
<1>9. <<Closing(s2[Len(s2)])>> \o next[Len(s2)] = <<Closing(k)>> \o (u \o w) BY <1>3, <1>5
<1>10. Outside(s2, <<Closing(k)>> \o (u \o w)) BY <1>3, <1>8, <1>9 DEF Outside
<1> QED BY <1>10 DEF s2

LEMMA OutsideOld ==
  ASSUME NEW stk \in Seq(Kinds), NEW w, Outside(stk, w), stk # <<>>
  PROVE  \E u, x \in Texts : /\ w = <<Closing(Last(stk))>> \o (u \o x)
                             /\ Outside(Front(stk), x) /\ Closable(AfterContainer(Front(stk)), u)
<1> DEFINE n == Len(stk)
           s2 == Front(stk)
<1>1. PICK suf : Endings(stk, suf) /\ w = <<Closing(stk[n])>> \o suf[n] BY DEF Outside
<1>2. /\ n \in Nat \ {0} /\ Last(stk) = stk[n] /\ s2 = SubSeq(stk, 1, n - 1)
      /\ s2 \in Seq(Kinds) /\ Len(s2) = n - 1 /\ \A i \in 1..(n - 1) : s2[i] = stk[i]
  <2>1. n \in Nat \ {0} /\ n - 1 \in Nat /\ n - 1 <= n /\ Last(stk) = stk[n] BY DEF Last
  <2>2. s2 = SubSeq(stk, 1, n - 1) BY DEF Front
  <2>3. s2 \in Seq(Kinds) BY PopLemma
  <2>4. \A q \in Nat : q <= n => /\ Len(SubSeq(stk, 1, q)) = q
                                 /\ \A i \in 1..q : SubSeq(stk, 1, q)[i] = stk[i]
    BY <2>1
  <2>5. Len(s2) = n - 1 /\ \A i \in 1..(n - 1) : s2[i] = stk[i]
    <3> HIDE DEF n, s2
    <3> QED BY <2>1, <2>2, <2>4
  <2> QED BY <2>1, <2>2, <2>3, <2>5
<1>3. suf \in Seq(Texts) /\ Len(suf) = n BY <1>1 DEF Endings
<1>4. PICK rest : rest = SubSeq(suf, 1, n - 1) OBVIOUS
<1>5. rest \in Seq(Texts) /\ Len(rest) = n - 1 /\ \A i \in 1..(n - 1) : rest[i] = suf[i]
  BY <1>2, <1>3, <1>4
<1> HIDE DEF n, s2
<1>6. Endings(s2, rest)
  <2>1. ASSUME NEW i \in 1..(Len(s2) - 1)
        PROVE  \E c \in Texts : /\ rest[i + 1] = c \o (<<Closing(s2[i])>> \o rest[i])
                                /\ Closable(AfterContainer(<<s2[i]>>), c)
    <3>1. i \in 1..(Len(stk) - 1) /\ i \in 1..(n - 1) /\ i + 1 \in 1..(n - 1) BY <1>2 DEF n
    <3>2. rest[i] = suf[i] /\ rest[i + 1] = suf[i + 1] /\ s2[i] = stk[i] BY <1>2, <1>5, <3>1
    <3> QED BY <1>1, <3>1, <3>2 DEF Endings
  <2>2. s2 # <<>> => rest[1] = <<>>
    <3> SUFFICES ASSUME s2 # <<>> PROVE rest[1] = <<>> OBVIOUS
    <3>1. 1 \in 1..(n - 1) /\ stk # <<>> BY <1>2
    <3> QED BY <1>1, <1>5, <3>1 DEF Endings
  <2> QED BY <1>2, <1>5, <2>1, <2>2 DEF Endings
<1>7. CASE n = 1
  <2>1. s2 = <<>> BY <1>2, <1>7
  <2>2. suf[n] = <<>> BY <1>1, <1>7 DEF Endings
  <2>3. Outside(s2, <<>>) BY <1>6, <2>1 DEF Outside
  <2>4. Closable(AfterContainer(s2), <<>>) BY <2>1 DEF Closable, AfterContainer
  <2>5. w = <<Closing(Last(stk))>> \o (<<>> \o <<>>) BY <1>1, <1>2, <2>2, EmptyText
  <2> QED BY <2>3, <2>4, <2>5, EmptyText DEF s2
<1>8. CASE n # 1
  <2>1. n - 1 \in 1..(Len(stk) - 1) /\ (n - 1) + 1 = n BY <1>2, <1>8 DEF n
  <2>2. PICK c \in Texts : /\ suf[n] = c \o (<<Closing(stk[n - 1])>> \o suf[n - 1])
                           /\ Closable(AfterContainer(<<stk[n - 1]>>), c)
    BY <1>1, <2>1 DEF Endings
  <2>3. s2 # <<>> /\ s2[Len(s2)] = stk[n - 1] /\ rest[Len(s2)] = suf[n - 1] BY <1>2, <1>5, <1>8
  <2>4. PICK x : x = <<Closing(stk[n - 1])>> \o suf[n - 1] OBVIOUS
  <2>5. x \in Texts
    <3>1. suf[n - 1] \in Texts BY <1>2, <1>3, <1>8
    <3>2. <<Closing(stk[n - 1])>> \in Texts BY Openings, OneToken
    <3> QED BY <2>4, <3>1, <3>2, JoinLength
  <2>6. Outside(s2, x) BY <1>6, <2>3, <2>4 DEF Outside
  <2>7. AfterContainer(s2) = AfterContainer(<<stk[n - 1]>>) BY <2>3 DEF AfterContainer, Last
  <2>8. w = <<Closing(Last(stk))>> \o (c \o x) BY <1>1, <1>2, <2>2, <2>4
  <2> QED BY <2>2, <2>5, <2>6, <2>7, <2>8 DEF s2
<1> QED BY <1>7, <1>8

LEMMA ElementBegins ==
  ASSUME NEW e \in Elems, NEW st \in {"MAYBE_ARRAY_VALUE", "EXPECT_ARRAY_VALUE"}
  PROVE  Valued(st, e)
<1>1. \A v : NextIn(st, v) = "MAYBE_ARRAY_COMMA" BY DEF NextIn, AfterValue
<1>2. CASE e \in Vals
  <2>1. e = e \o <<>> /\ <<>> \in Texts BY <1>2, Lengthy, EmptyText
  <2>2. Closable("MAYBE_ARRAY_COMMA", <<>>) BY DEF Closable
  <2> QED BY <1>1, <1>2, <2>1, <2>2 DEF Valued
<1>3. ASSUME NEW v \in Vals, NEW f \in Elems, e = Listed(v, f) PROVE Valued(st, e)
  <2>1. v \in Texts /\ f \in Texts /\ <<"COMMA">> \in Texts BY Lengthy, ConstantTexts
  <2>2. e = (v \o <<"COMMA">>) \o f BY <1>3, <2>1, ListedTexts
  <2>3. e = v \o (<<"COMMA">> \o f) BY <2>1, <2>2, Reassociate
  <2>4. <<"COMMA">> \o f \in Texts BY <2>1, JoinLength
  <2>5. Closable("MAYBE_ARRAY_COMMA", <<"COMMA">> \o f) BY DEF Closable
  <2> QED BY <1>1, <2>3, <2>4, <2>5 DEF Valued
<1> QED BY <1>2, <1>3, ElementForms

LEMMA MemberBegins ==
  ASSUME NEW m \in Membs
  PROVE  \E u \in Texts : m = <<"STRING">> \o (<<"COLON">> \o u) /\ Valued("EXPECT_OBJECT_VALUE", u)
<1> DEFINE a == <<"STRING">>
           b == <<"COLON">>
           k == <<"STRING", "COLON">>
<1>1. a \in Texts /\ b \in Texts /\ k \in Texts /\ a \o b = k
  <2>1. k \in Texts BY DEF Texts, Terminals, Tokens
  <2> QED BY <2>1, ConstantTexts, TwoTokens
<1> HIDE DEF a, b, k
<1>2. ASSUME NEW v \in Vals, NEW x \in Texts, m = Member(v) \o x, Closable(NextIn("EXPECT_OBJECT_VALUE", v), x)
      PROVE  \E u \in Texts : m = a \o (b \o u) /\ Valued("EXPECT_OBJECT_VALUE", u)
  <2>1. v \in Texts /\ Member(v) = k \o v BY Lengthy DEF Member, k
  <2>2. v \o x \in Texts BY <2>1, JoinLength
  <2>3. m = k \o (v \o x) BY <1>1, <1>2, <2>1, Reassociate, SMTT(30)
  <2>4. m = a \o (b \o (v \o x))
    <3>1. \A y \in Texts : (a \o b) \o y = a \o (b \o y) BY <1>1, Reassociate
    <3> QED BY <1>1, <2>2, <2>3, <3>1, Zenon
  <2>5. Valued("EXPECT_OBJECT_VALUE", v \o x) BY <1>2, <2>2 DEF Valued
  <2> QED BY <2>2, <2>4, <2>5
<1>3. ASSUME NEW v \in Vals, m = Member(v)
      PROVE  \E u \in Texts : m = a \o (b \o u) /\ Valued("EXPECT_OBJECT_VALUE", u)
  <2>1. Member(v) \in Texts BY Lengthy, ConstantTexts
  <2>2. m = Member(v) \o <<>> /\ <<>> \in Texts BY <1>3, <2>1, EmptyText
  <2>3. Closable(NextIn("EXPECT_OBJECT_VALUE", v), <<>>) BY DEF Closable, NextIn, AfterValue
  <2> QED BY <1>2, <2>2, <2>3
<1>4. ASSUME NEW v \in Vals, NEW n \in Membs, m = Follow(v) \o n
      PROVE  \E u \in Texts : m = a \o (b \o u) /\ Valued("EXPECT_OBJECT_VALUE", u)
  <2>1. /\ n \in Texts /\ Member(v) \in Texts /\ MemberSeparator(v) \in Texts
        /\ Follow(v) = Member(v) \o MemberSeparator(v)
    BY Lengthy, ConstantTexts DEF Follow
  <2>2. m = Member(v) \o (MemberSeparator(v) \o n) BY <1>4, <2>1, Reassociate
  <2>3. MemberSeparator(v) \o n \in Texts BY <2>1, JoinLength
  <2>4. Closable(NextIn("EXPECT_OBJECT_VALUE", v), MemberSeparator(v) \o n)
    <3>1. CASE v = EmptyArray
      <4>1. MemberSeparator(v) \o n = n BY <2>1, <3>1, EmptyText DEF MemberSeparator
      <4>2. NextIn("EXPECT_OBJECT_VALUE", v) = "MAYBE_OBJECT_KEY" BY <3>1 DEF NextIn
      <4> QED BY <4>1, <4>2 DEF Closable
    <3>2. CASE v # EmptyArray
      <4>1. MemberSeparator(v) \o n = <<"COMMA">> \o n BY <3>2 DEF MemberSeparator
      <4>2. NextIn("EXPECT_OBJECT_VALUE", v) = "MAYBE_OBJECT_COMMA" BY <3>2 DEF NextIn, AfterValue
      <4> QED BY <4>1, <4>2 DEF Closable
    <3> QED BY <3>1, <3>2
  <2> QED BY <1>2, <2>2, <2>3, <2>4
<1>5. \E u \in Texts : m = a \o (b \o u) /\ Valued("EXPECT_OBJECT_VALUE", u)
  BY <1>3, <1>4, MemberForms
<1> QED BY <1>5 DEF a, b

(* The text after the bracket that begins a value.                         *)
LEMMA Begun ==
  ASSUME NEW s \in Texts, NEW x \in Texts
  PROVE  /\ Square(s) \o x = <<"OPEN_BRACKET">> \o (s \o (<<"CLOSE_BRACKET">> \o x))
         /\ Curly(s) \o x = <<"OPEN_CURLY_BRACKET">> \o (s \o (<<"CLOSE_CURLY_BRACKET">> \o x))
         /\ s \o (<<"CLOSE_BRACKET">> \o x) \in Texts
         /\ s \o (<<"CLOSE_CURLY_BRACKET">> \o x) \in Texts
<1>1. ASSUME NEW o \in Texts, NEW c \in Texts
      PROVE  ((o \o s) \o c) \o x = o \o (s \o (c \o x)) /\ s \o (c \o x) \in Texts
  <2>1. o \o s \in Texts /\ c \o x \in Texts BY JoinLength
  <2>2. ((o \o s) \o c) \o x = (o \o s) \o (c \o x)
    <3>1. \A p \in Texts : (p \o c) \o x = p \o (c \o x) BY Reassociate, ZenonT(60)
    <3> QED BY <2>1, <3>1, Zenon
  <2>3. (o \o s) \o (c \o x) = o \o (s \o (c \o x)) BY <2>1, Reassociate
  <2>4. s \o (c \o x) \in Texts BY <2>1, JoinLength
  <2> QED BY <2>2, <2>3, <2>4
<1>2. /\ <<"OPEN_BRACKET">> \in Texts /\ <<"CLOSE_BRACKET">> \in Texts
      /\ <<"OPEN_CURLY_BRACKET">> \in Texts /\ <<"CLOSE_CURLY_BRACKET">> \in Texts
  BY DEF Texts, Terminals, Tokens
<1> QED BY <1>1, <1>2 DEF Square, Curly

(* The parser takes the token t whenever it may come next, ...             *)
Progress(t, r) == ~Refuses(t) /\ (Takes(t) => Continues(Reached', stack', r))

(* ... such as the first of a value.                                       *)
LEMMA ValueProgress ==
  ASSUME TypeOK, Agrees, Reached = state, state \in ValueStates,
         NEW v \in Vals, NEW u \in Texts, Closable(NextIn(state, v), u),
         NEW w \in Texts, Outside(stack, w),
         NEW t \in Terminals, NEW r \in Texts, <<t>> \o r = (v \o u) \o w
  PROVE  Progress(t, r)
<1> DEFINE x == u \o w
<1>1. stack \in Seq(Kinds) BY DEF TypeOK, Kinds
<1>2. x \in Texts /\ v \in Texts BY Lengthy, JoinLength
<1>3. <<t>> \o r = v \o x BY <1>2, Reassociate, ZenonT(60)
<1>4. /\ AfterValue(state) = AfterContainer(stack)
      /\ NextIn(state, EmptyArray) = AfterEmptyArray(stack)
  BY DEF Agrees, ValueStates, ObjectStates, ArrayStates, AfterValue, AfterContainer, AfterEmptyArray,
         NextIn, STACK_VALUE_CURLY, STACK_VALUE_SQUARE
<1>5. v # EmptyArray => Closable(AfterContainer(stack), u) BY <1>4 DEF NextIn
<1> HIDE DEF x
<1>6. ASSUME NEW p \in Primitives, v = <<p>> PROVE Progress(t, r)
  <2>1. p \in Terminals BY DEF Primitives, Terminals, Tokens, Literals
  <2>0. Before(t, r) = Before(p, x) BY <1>3, <1>6, Zenon DEF Before
  <2>2. t = p /\ r = x BY <1>2, <2>0, <2>1, FirstToken
  <2>3. v # EmptyArray
    <3>1. Len(v) = 1 BY <1>6, <2>1, OneToken, Zenon
    <3>2. Len(EmptyArray) = 2 BY ConstantTexts DEF TextsOf
    <3>3. 1 # 2 OBVIOUS
    <3> QED BY <3>1, <3>2, <3>3, Zenon
  <2>4. ~Refuses(t) BY <2>2 DEF Refuses
  <2>5. ASSUME Takes(t) PROVE Reached' = AfterContainer(stack) /\ stack' = stack
    BY <1>4, <2>2, <2>5 DEF Takes, Stays, Primitives, ValueStates, KeyStates
  <2>6. Remains(AfterContainer(stack), u)
    BY <1>5, <2>3 DEF Remains, AfterContainer, ValueStates
  <2>7. Leads(AfterContainer(stack), stack, x) BY <2>6 DEF Leads, x
  <2> QED BY <2>2, <2>4, <2>5, <2>7 DEF Progress, Continues
<1>7. ASSUME NEW s \in Texts, NEW k \in Kinds, v = (<<Opening(k)>> \o s) \o <<Closing(k)>>,
             v # EmptyArray, Remains(IF k = STACK_VALUE_CURLY THEN "MAYBE_OBJECT_KEY" ELSE "MAYBE_ARRAY_VALUE", s)
      PROVE  Progress(t, r)
  <2>1. v \o x = <<Opening(k)>> \o (s \o (<<Closing(k)>> \o x))
        /\ s \o (<<Closing(k)>> \o x) \in Texts
    <3>1. CASE k = STACK_VALUE_CURLY
      <4>1. v = Curly(s) /\ Opening(k) = "OPEN_CURLY_BRACKET" /\ Closing(k) = "CLOSE_CURLY_BRACKET"
        BY <1>7, <3>1 DEF Curly, Opening, Closing
      <4>2. /\ Curly(s) \o x = <<"OPEN_CURLY_BRACKET">> \o (s \o (<<"CLOSE_CURLY_BRACKET">> \o x))
            /\ s \o (<<"CLOSE_CURLY_BRACKET">> \o x) \in Texts
        BY <1>2, Begun
      <4> QED BY <4>1, <4>2, Zenon
    <3>2. CASE k # STACK_VALUE_CURLY
      <4>1. v = Square(s) /\ Opening(k) = "OPEN_BRACKET" /\ Closing(k) = "CLOSE_BRACKET"
        BY <1>7, <3>2 DEF Square, Opening, Closing
      <4>2. /\ Square(s) \o x = <<"OPEN_BRACKET">> \o (s \o (<<"CLOSE_BRACKET">> \o x))
            /\ s \o (<<"CLOSE_BRACKET">> \o x) \in Texts
        BY <1>2, Begun
      <4> QED BY <4>1, <4>2, Zenon
    <3> QED BY <3>1, <3>2
  <2>2. t = Opening(k) /\ r = s \o (<<Closing(k)>> \o x)
    <3>3. PICK y : y = s \o (<<Closing(k)>> \o x) OBVIOUS
    <3>4. y \in Texts BY <2>1, <3>3, Zenon
    <3>1. Before(t, r) = Before(Opening(k), y) BY <1>3, <2>1, <3>3, Zenon DEF Before
    <3>2. Opening(k) \in Terminals BY Openings
    <3>5. t = Opening(k) /\ r = y BY <3>1, <3>2, <3>4, FirstToken
    <3> QED BY <3>3, <3>5, Zenon
  <2>3. ~Refuses(t) BY <2>2 DEF Refuses, Opens, Opening
  <2>4. ASSUME Takes(t)
        PROVE  /\ stack' = Append(stack, k)
               /\ Reached' = IF k = STACK_VALUE_CURLY THEN "MAYBE_OBJECT_KEY" ELSE "MAYBE_ARRAY_VALUE"
    BY <2>2, <2>4 DEF Takes, Opening, Kinds, Primitives, STACK_VALUE_CURLY, STACK_VALUE_SQUARE
  <2>5. Outside(Append(stack, k), <<Closing(k)>> \o x) BY <1>1, <1>5, <1>7, OutsideNew DEF x
  <2>6. <<Closing(k)>> \o x \in Texts
    <3>1. <<Closing(k)>> \in Texts BY Openings, OneToken
    <3> QED BY <1>2, <3>1, JoinLength
  <2>7. Leads(IF k = STACK_VALUE_CURLY THEN "MAYBE_OBJECT_KEY" ELSE "MAYBE_ARRAY_VALUE",
              Append(stack, k), r)
    BY <1>7, <2>2, <2>5, <2>6 DEF Leads
  <2> QED BY <2>3, <2>4, <2>7 DEF Progress, Continues
<1>8. ASSUME v = EmptyArray PROVE Progress(t, r)
  <2> DEFINE c == <<"CLOSE_BRACKET">>
  <2>1. v \o x = <<"OPEN_BRACKET">> \o (<<>> \o (c \o x)) /\ <<>> \o (c \o x) \in Texts
    BY <1>2, <1>8, EmptyText, Begun DEF EmptyArray
  <2>2. c \in Texts /\ "OPEN_BRACKET" \in Terminals BY DEF Texts, Terminals, Tokens
  <2>3. c \o x \in Texts /\ <<>> \o (c \o x) = c \o x
    <3> HIDE DEF c
    <3>1. c \o x \in Texts BY <1>2, <2>2, JoinLength
    <3> QED BY <3>1, EmptyText
  <2>0. PICK y \in Texts : y = c \o x BY <2>3
  <2>a. Before(t, r) = Before("OPEN_BRACKET", y) BY <1>3, <2>0, <2>1, <2>3, Zenon DEF Before
  <2>4. t = "OPEN_BRACKET" /\ r = c \o x
    <3> HIDE DEF c
    <3>1. y \in Texts /\ "OPEN_BRACKET" \in Terminals BY <2>0, <2>2
    <3>2. t = "OPEN_BRACKET" /\ r = y BY <2>a, <3>1, FirstToken
    <3> QED BY <2>0, <3>2, Zenon
  <2>5. ~Refuses(t) BY <2>4 DEF Refuses, Opens
  <2>6. ASSUME Takes(t)
        PROVE  stack' = Append(stack, STACK_VALUE_SQUARE) /\ Reached' = "MAYBE_ARRAY_VALUE"
    BY <2>4, <2>6 DEF Takes, Primitives
  <2>7. STACK_VALUE_SQUARE \in Kinds BY DEF Kinds
  <2>8. Front(Append(stack, STACK_VALUE_SQUARE)) = stack /\ Append(stack, STACK_VALUE_SQUARE) # <<>>
    BY <1>1, <2>7, PushLemma
  <2>9. Remains(AfterEmptyArray(stack), u)
    BY <1>4, <1>8 DEF Remains, AfterEmptyArray, ValueStates
  <2>10. Leads(AfterEmptyArray(stack), stack, x) BY <2>9 DEF Leads, x
  <2>11. Continues("MAYBE_ARRAY_VALUE", Append(stack, STACK_VALUE_SQUARE), r)
    BY <1>2, <2>4, <2>8, <2>10 DEF Continues
  <2> QED BY <2>5, <2>6, <2>11 DEF Progress
<1>9. ASSUME v = Curly(<<>>) PROVE Progress(t, r)
  <2>1. v # EmptyArray BY <1>9, EmptyText, BeginsCurly
  <2>2. STACK_VALUE_CURLY \in Kinds /\ v = (<<Opening(STACK_VALUE_CURLY)>> \o <<>>) \o <<Closing(STACK_VALUE_CURLY)>>
    BY <1>9 DEF Curly, Kinds, Opening, Closing
  <2>3. Remains("MAYBE_OBJECT_KEY", <<>>) BY DEF Remains, Closable, ValueStates
  <2> QED BY <1>7, <2>1, <2>2, <2>3, EmptyText
<1>10. ASSUME NEW m \in Membs, v = Curly(m) PROVE Progress(t, r)
  <2>0. m \in Texts BY Lengthy
  <2>1. v # EmptyArray BY <1>10, <2>0, BeginsCurly
  <2>2. STACK_VALUE_CURLY \in Kinds /\ v = (<<Opening(STACK_VALUE_CURLY)>> \o m) \o <<Closing(STACK_VALUE_CURLY)>>
    BY <1>10 DEF Curly, Kinds, Opening, Closing
  <2>3. Remains("MAYBE_OBJECT_KEY", m) BY DEF Remains, Closable, ValueStates
  <2> QED BY <1>7, <2>0, <2>1, <2>2, <2>3
<1>11. ASSUME NEW e \in Elems, v = Square(e) PROVE Progress(t, r)
  <2>0. e \in Texts BY Lengthy
  <2>1. v # EmptyArray
    <3>1. Len(Square(e)) = Len(e) + 2 BY <2>0, ConstantTexts
    <3>2. Len(EmptyArray) = 2 BY ConstantTexts DEF TextsOf
    <3>3. Len(e) \in Nat /\ Len(e) > 0 BY Lengthy DEF Lengths
    <3>4. Len(Square(e)) # 2 BY <3>1, <3>3
    <3> QED BY <1>11, <3>2, <3>4, Zenon
  <2>2. /\ STACK_VALUE_SQUARE \in Kinds /\ STACK_VALUE_SQUARE # STACK_VALUE_CURLY
        /\ v = (<<Opening(STACK_VALUE_SQUARE)>> \o e) \o <<Closing(STACK_VALUE_SQUARE)>>
    BY <1>11 DEF Square, Kinds, Opening, Closing, STACK_VALUE_SQUARE, STACK_VALUE_CURLY
  <2>3. Remains("MAYBE_ARRAY_VALUE", e) BY ElementBegins DEF Remains, ValueStates
  <2> QED BY <1>7, <2>0, <2>1, <2>2, <2>3
<1> QED BY <1>6, <1>8, <1>9, <1>10, <1>11, ValueForms

(* ... the end of a container, ...                                         *)
LEMMA CloseProgress ==
  ASSUME TypeOK, Agrees, Reached = state, Closable(state, <<>>),
         NEW w \in Texts, Outside(stack, w), NEW t \in Terminals, NEW r \in Texts, <<t>> \o r = w
  PROVE  Progress(t, r)
<1>1. stack \in Seq(Kinds) BY DEF TypeOK, Kinds
<1>2. stack # <<>>
  <2>1. ASSUME stack = <<>> PROVE w = <<>> BY <2>1 DEF Outside
  <2> QED BY <2>1, NotEmpty
<1>3. \/ state \in {"MAYBE_OBJECT_KEY", "MAYBE_OBJECT_COMMA"} /\ Last(stack) = STACK_VALUE_CURLY
      \/ state = "MAYBE_ARRAY_COMMA" /\ Last(stack) = STACK_VALUE_SQUARE
  BY <1>2 DEF Closable, Agrees, ObjectStates, ArrayStates
<1>4. PICK u, x \in Texts : /\ w = <<Closing(Last(stack))>> \o (u \o x)
                            /\ Outside(Front(stack), x) /\ Closable(AfterContainer(Front(stack)), u)
  BY <1>1, <1>2, OutsideOld
<1>5. t = Closing(Last(stack)) /\ r = u \o x
  <2>1. u \o x \in Texts /\ Closing(Last(stack)) \in Terminals BY JoinLength, Openings
  <2>2. Before(t, r) = Before(Closing(Last(stack)), u \o x) BY <1>4, Zenon DEF Before
  <2> QED BY <2>1, <2>2, FirstToken
<1>6. \/ state \in {"MAYBE_OBJECT_KEY", "MAYBE_OBJECT_COMMA"} /\ t = "CLOSE_CURLY_BRACKET"
      \/ state = "MAYBE_ARRAY_COMMA" /\ t = "CLOSE_BRACKET"
  BY <1>3, <1>5 DEF Closing, STACK_VALUE_CURLY, STACK_VALUE_SQUARE
<1>7. ~Refuses(t) BY <1>6 DEF Refuses, Closes
<1>8. ASSUME Takes(t) PROVE stack' = Front(stack) /\ Reached' = AfterContainer(Front(stack))
  BY <1>6, <1>8 DEF Takes, Leaves, Primitives
<1>9. Remains(AfterContainer(Front(stack)), u) BY <1>4 DEF Remains, AfterContainer, ValueStates
<1>10. Leads(AfterContainer(Front(stack)), Front(stack), r) BY <1>4, <1>5, <1>9 DEF Leads
<1> QED BY <1>7, <1>8, <1>10 DEF Progress, Continues

(* ... and what comes inside one.                                          *)
Joined(s, t) == s \o t

LEMMA NextToken ==
  ASSUME NEW t \in Terminals, NEW r \in Texts, NEW u \in Terminals, NEW c \in Texts, NEW w \in Texts,
         Before(t, r) = Joined(Before(u, c), w)
  PROVE  t = u /\ r = Joined(c, w)
<1>1. <<u>> \in Texts BY OneToken
<1>2. Before(u, c) \o w = <<u>> \o (c \o w) BY <1>1, Reassociate DEF Before
<1>3. PICK y : y = c \o w OBVIOUS
<1>4. y \in Texts BY <1>3, JoinLength
<1>5. Before(t, r) = Before(u, y) BY <1>2, <1>3, Zenon DEF Before, Joined
<1>6. t = u /\ r = y BY <1>4, <1>5, FirstToken
<1> QED BY <1>3, <1>6, Zenon DEF Joined

LEMMA StaysProgress ==
  ASSUME NEW w \in Texts, Outside(stack, w), NEW c \in Texts, NEW st, Remains(st, c),
         NEW t \in Terminals, NEW r \in Texts, r = c \o w, ~Refuses(t), Takes(t) => Stays(st)
  PROVE  Progress(t, r)
  BY DEF Progress, Continues, Leads, Stays

LEMMA MemberProgress ==
  ASSUME state \in KeyStates, NEW m \in Membs, NEW w \in Texts, Outside(stack, w),
         NEW t \in Terminals, NEW r \in Texts, <<t>> \o r = m \o w
  PROVE  Progress(t, r)
<1>1. PICK u \in Texts : m = <<"STRING">> \o (<<"COLON">> \o u) /\ Valued("EXPECT_OBJECT_VALUE", u)
  BY MemberBegins
<1>2. PICK c : c = <<"COLON">> \o u OBVIOUS
<1>3. c \in Texts BY <1>2, ConstantTexts, JoinLength
<1>4. "STRING" \in Terminals BY DEF Terminals
<1>5. m = <<"STRING">> \o c BY <1>1, <1>2, Zenon
<1>6. t = "STRING" /\ r = c \o w
  <2>1. Before(t, r) = Joined(Before("STRING", c), w) BY <1>5, Zenon DEF Before, Joined
  <2>2. t = "STRING" /\ r = Joined(c, w) BY <1>3, <1>4, <2>1, NextToken
  <2> QED BY <2>2 DEF Joined
<1>7. Remains("EXPECT_COLON", c) BY <1>1, <1>2 DEF Remains, ValueStates
<1>8. ~Refuses(t) BY <1>6 DEF Refuses
<1>9. Takes(t) => Stays("EXPECT_COLON") BY <1>6 DEF Takes, ValueStates, KeyStates
<1> QED BY <1>3, <1>6, <1>7, <1>8, <1>9, StaysProgress

LEMMA LeadsProgress ==
  ASSUME TypeOK, Agrees, Reached = state,
         NEW t \in Terminals, NEW r \in Texts, Leads(state, stack, <<t>> \o r)
  PROVE  Progress(t, r)
<1>1. PICK w \in Texts : Outside(stack, w) /\ \E c \in Texts : Remains(state, c) /\ <<t>> \o r = c \o w
  BY Zenon DEF Leads
<1>2. PICK c \in Texts : Remains(state, c) /\ <<t>> \o r = c \o w BY <1>1
<1>3. CASE state \in ValueStates
  <2>0. Valued(state, c) BY <1>2, <1>3 DEF Remains, ValueStates
  <2>1. PICK v \in Vals : \E u \in Texts : c = v \o u /\ Closable(NextIn(state, v), u)
    BY <2>0, Zenon DEF Valued
  <2>2. PICK u \in Texts : c = v \o u /\ Closable(NextIn(state, v), u) BY <2>1
  <2>3. <<t>> \o r = (v \o u) \o w BY <1>2, <2>2, Zenon
  <2> QED BY <1>1, <1>3, <2>2, <2>3, ValueProgress
<1>4. CASE state = "EXPECT_OBJECT_KEY"
  <2>1. c \in Membs /\ state \in KeyStates BY <1>2, <1>4 DEF Remains, ValueStates, KeyStates
  <2> QED BY <1>1, <1>2, <2>1, MemberProgress
<1>5. CASE state = "EXPECT_COLON"
  <2>1. PICK u \in Texts : c = <<"COLON">> \o u /\ Valued("EXPECT_OBJECT_VALUE", u)
    BY <1>2, <1>5 DEF Remains, ValueStates
  <2>2. "COLON" \in Terminals BY DEF Terminals, Tokens
  <2>3. t = "COLON" /\ r = u \o w
    <3>1. Before(t, r) = Joined(Before("COLON", u), w) BY <1>2, <2>1, Zenon DEF Before, Joined
    <3>2. t = "COLON" /\ r = Joined(u, w) BY <2>2, <3>1, NextToken
    <3> QED BY <3>2 DEF Joined
  <2>4. Remains("EXPECT_OBJECT_VALUE", u) BY <2>1 DEF Remains, ValueStates
  <2>5. ~Refuses(t) BY <1>5, <2>3 DEF Refuses, Separates
  <2>6. Takes(t) => Stays("EXPECT_OBJECT_VALUE") BY <2>3 DEF Takes, Primitives
  <2> QED BY <1>1, <2>3, <2>4, <2>5, <2>6, StaysProgress
<1>6. CASE Closable(state, c) /\ c = <<>>
  <2>1. <<t>> \o r = w BY <1>2, <1>6, EmptyText
  <2> QED BY <1>1, <1>6, <2>1, CloseProgress
<1>7. CASE state = "MAYBE_OBJECT_KEY" /\ c \in Membs
  <2>1. state \in KeyStates BY <1>7 DEF KeyStates
  <2> QED BY <1>1, <1>2, <1>7, <2>1, MemberProgress
<1>8. CASE state = "MAYBE_OBJECT_COMMA" /\ \E m \in Membs : c = <<"COMMA">> \o m
  <2>1. PICK m \in Membs : c = <<"COMMA">> \o m BY <1>8
  <2>2. "COMMA" \in Terminals /\ m \in Texts BY Lengthy DEF Terminals, Tokens
  <2>3. t = "COMMA" /\ r = m \o w
    <3>1. Before(t, r) = Joined(Before("COMMA", m), w) BY <1>2, <2>1, Zenon DEF Before, Joined
    <3>2. t = "COMMA" /\ r = Joined(m, w) BY <2>2, <3>1, NextToken
    <3> QED BY <3>2 DEF Joined
  <2>4. Remains("EXPECT_OBJECT_KEY", m) BY DEF Remains, ValueStates
  <2>5. ~Refuses(t) BY <1>8, <2>3 DEF Refuses, Separates
  <2>6. Takes(t) => Stays("EXPECT_OBJECT_KEY") BY <1>8, <2>3 DEF Takes, Primitives
  <2> QED BY <1>1, <2>2, <2>3, <2>4, <2>5, <2>6, StaysProgress
<1>9. CASE state = "MAYBE_ARRAY_COMMA" /\ \E e \in Elems : c = <<"COMMA">> \o e
  <2>1. PICK e \in Elems : c = <<"COMMA">> \o e BY <1>9
  <2>2. "COMMA" \in Terminals /\ e \in Texts BY Lengthy DEF Terminals, Tokens
  <2>3. t = "COMMA" /\ r = e \o w
    <3>1. Before(t, r) = Joined(Before("COMMA", e), w) BY <1>2, <2>1, Zenon DEF Before, Joined
    <3>2. t = "COMMA" /\ r = Joined(e, w) BY <2>2, <3>1, NextToken
    <3> QED BY <3>2 DEF Joined
  <2>4. Remains("EXPECT_ARRAY_VALUE", e) BY ElementBegins DEF Remains, ValueStates
  <2>5. ~Refuses(t) BY <1>9, <2>3 DEF Refuses, Separates
  <2>6. Takes(t) => Stays("EXPECT_ARRAY_VALUE") BY <1>9, <2>3 DEF Takes, Primitives
  <2> QED BY <1>1, <2>2, <2>3, <2>4, <2>5, <2>6, StaysProgress
<1>10. state \notin ValueStates \cup {"EXPECT_OBJECT_KEY", "EXPECT_COLON"} => Closable(state, c)
  BY <1>2 DEF Remains
<1>11. Closable(state, c) => \/ c = <<>>
                             \/ state = "MAYBE_OBJECT_KEY" /\ c \in Membs
                             \/ state = "MAYBE_OBJECT_COMMA" /\ \E m \in Membs : c = <<"COMMA">> \o m
                             \/ state = "MAYBE_ARRAY_COMMA" /\ \E e \in Elems : c = <<"COMMA">> \o e
  BY DEF Closable
<1> QED BY <1>3, <1>4, <1>5, <1>6, <1>7, <1>8, <1>9, <1>10, <1>11

LEMMA TokenProgress ==
  ASSUME TypeOK, Agrees, Reached = state,
         NEW t \in Terminals, NEW r \in Texts, Continues(state, stack, <<t>> \o r)
  PROVE  Progress(t, r)
<1>1. ASSUME state = "MAYBE_ARRAY_VALUE", stack # <<>>,
             NEW x \in Texts, <<t>> \o r = <<"CLOSE_BRACKET">> \o x,
             Leads(AfterEmptyArray(Front(stack)), Front(stack), x)
      PROVE  Progress(t, r)
  <2>1. "CLOSE_BRACKET" \in Terminals BY DEF Terminals, Tokens
  <2>2. Before(t, r) = Before("CLOSE_BRACKET", x) BY <1>1, Zenon DEF Before
  <2>3. t = "CLOSE_BRACKET" /\ r = x BY <2>1, <2>2, FirstToken
  <2>4. ~Refuses(t) BY <1>1, <2>3 DEF Refuses, Closes
  <2>5. ASSUME Takes(t) PROVE stack' = Front(stack) /\ Reached' = AfterEmptyArray(Front(stack))
    BY <1>1, <2>3, <2>5 DEF Takes, Leaves, Primitives
  <2> QED BY <1>1, <2>3, <2>4, <2>5 DEF Progress, Continues
<1> QED BY <1>1, LeadsProgress DEF Continues

(* Where a document may end the parser is done.                            *)
LEMMA Complete ==
  ASSUME TypeOK, Agrees, Reached = state, Continues(state, stack, <<>>)
  PROVE  state = "DONE"
<1>1. ~\E x \in Texts : <<>> = <<"CLOSE_BRACKET">> \o x
  <2>1. "CLOSE_BRACKET" \in Terminals BY DEF Terminals, Tokens
  <2> QED BY <2>1, NotEmpty
<1>2. PICK w \in Texts : Outside(stack, w) /\ \E c \in Texts : Remains(state, c) /\ <<>> = c \o w
  BY <1>1 DEF Continues, Leads
<1>3. PICK c \in Texts : Remains(state, c) /\ <<>> = c \o w BY <1>2
<1>4. c = <<>> /\ w = <<>> BY <1>3, NoText
<1>5. stack = <<>>
  <2> SUFFICES ASSUME stack # <<>> PROVE FALSE OBVIOUS
  <2>1. stack \in Seq(Kinds) BY DEF TypeOK, Kinds
  <2>2. PICK u, x \in Texts : w = <<Closing(Last(stack))>> \o (u \o x)
    <3>1. Outside(stack, w) BY <1>2
    <3>2. \E u, x \in Texts : /\ w = <<Closing(Last(stack))>> \o (u \o x)
                             /\ Outside(Front(stack), x) /\ Closable(AfterContainer(Front(stack)), u)
      BY <2>1, <3>1, OutsideOld, Zenon
    <3> QED BY <3>2, Zenon
  <2>3. u \o x \in Texts /\ Closing(Last(stack)) \in Terminals BY JoinLength, Openings
  <2> QED BY <1>4, <2>2, <2>3, NotEmpty
<1>6. state \in {"EXPECT_VALUE", "DONE"}
  BY <1>5 DEF TypeOK, States, Agrees, ObjectStates, ArrayStates
<1>7. state # "EXPECT_VALUE"
  <2> SUFFICES ASSUME state = "EXPECT_VALUE" PROVE FALSE OBVIOUS
  <2>1. PICK v \in Vals : \E u \in Texts : <<>> = v \o u BY <1>3, <1>4 DEF Remains, Valued, ValueStates
  <2>2. v \in Texts /\ Len(v) > 0 BY Lengthy DEF Lengths
  <2>3. v = <<>> BY <2>1, <2>2, NoText
  <2> QED BY <2>2, <2>3, EmptyText
<1> QED BY <1>6, <1>7

(* However deep the input nests, the stack holds it.                       *)
StackSuffices == DYNAMIC_STACK \/ MaxTokens <= (8 * STATIC_STACK_SIZE) % 256

RefuseInv ==
  /\ AcceptInv
  /\ err = "OK" => Len(stack) <= Len(input)
  /\ err = "OK" => \A rest \in Texts : input \o rest \in Vals => Continues(Reached, stack, rest)
  /\ err = "INSUFFICIENT_INPUT" => input \notin Vals
  /\ err \notin {"OK", "INSUFFICIENT_INPUT"} => \A rest \in Texts : input \o rest \notin Vals

LEMMA RefuseInitially == LInit => RefuseInv
<1> SUFFICES ASSUME LInit PROVE RefuseInv OBVIOUS
<1>1. AcceptInv BY Initially
<1>2. /\ state = "EXPECT_VALUE" /\ stack = <<>> /\ lexing = "none" /\ err = "OK" /\ input = <<>>
  BY DEF LInit, Init
<1>3. Reached = "EXPECT_VALUE" BY <1>2 DEF Reached
<1>4. Len(stack) <= Len(input) BY <1>2
<1>5. ASSUME NEW rest \in Texts, input \o rest \in Vals PROVE Continues(Reached, stack, rest)
  <2>1. rest \in Vals BY <1>2, <1>5, EmptyText
  <2>2. rest = rest \o <<>> /\ <<>> \in Texts BY EmptyText
  <2>3. Closable("DONE", <<>>) BY DEF Closable
  <2>4. NextIn("EXPECT_VALUE", rest) = "DONE" BY DEF NextIn, AfterValue
  <2>5. Valued("EXPECT_VALUE", rest) BY <2>1, <2>2, <2>3, <2>4 DEF Valued
  <2>6. Remains("EXPECT_VALUE", rest) BY <2>5 DEF Remains, ValueStates
  <2>7. Endings(<<>>, <<>>) BY DEF Endings
  <2>8. Outside(<<>>, <<>>) BY <2>7 DEF Outside
  <2>9. Leads("EXPECT_VALUE", <<>>, rest) BY <2>2, <2>6, <2>8, Zenon DEF Leads
  <2> QED BY <1>2, <1>3, <2>9 DEF Continues
<1> QED BY <1>1, <1>2, <1>4, <1>5 DEF RefuseInv

LEMMA OneDeeper ==
  ASSUME TypeOK, NEW t \in Terminals, Takes(t)
  PROVE  Len(stack) \in Nat /\ Len(stack') <= Len(stack) + 1
<1>1. stack \in Seq(Kinds) BY DEF TypeOK, Kinds
<1>2. Len(stack) \in Nat BY <1>1
<1>3. CASE stack' = stack BY <1>2, <1>3
<1>4. ASSUME NEW k \in Kinds, stack' = Append(stack, k) PROVE Len(stack') <= Len(stack) + 1
  <2>1. Len(Append(stack, k)) = Len(stack) + 1 BY <1>1, PushLemma
  <2> QED BY <1>2, <1>4, <2>1
<1>5. CASE stack # <<>> /\ stack' = Front(stack)
  <2>1. Len(stack) # 0 /\ Front(stack) = SubSeq(stack, 1, Len(stack) - 1) BY <1>1, <1>5 DEF Front
  <2>2. Len(Front(stack)) = Len(stack) - 1
    <3>1. \A q \in Nat : q <= Len(stack) => Len(SubSeq(stack, 1, q)) = q BY <1>1
    <3>2. PICK q \in Nat : q = Len(stack) - 1 BY <1>2, <2>1
    <3>3. Len(SubSeq(stack, 1, q)) = q BY <1>2, <3>1, <3>2
    <3> QED BY <2>1, <3>2, <3>3
  <2> QED BY <1>2, <1>5, <2>2
<1>6. \/ stack' = stack \/ (stack # <<>> /\ stack' = Front(stack))
      \/ stack' = Append(stack, STACK_VALUE_CURLY) \/ stack' = Append(stack, STACK_VALUE_SQUARE)
  BY DEF Takes, Stays, Leaves
<1> QED BY <1>2, <1>3, <1>4, <1>5, <1>6 DEF Kinds

LEMMA RefuseStep ==
  ASSUME StackSuffices, RefuseInv, [LNext]_lvars
  PROVE  RefuseInv'
<1>1. AcceptInv' BY AcceptStep DEF RefuseInv
<1>2. TypeOK /\ input \in Texts /\ Len(input) <= MaxTokens BY DEF RefuseInv, AcceptInv
<1>3. CASE UNCHANGED lvars
  <2>1. UNCHANGED <<state, stack, lexing, err, finalized, input>> BY <1>3 DEF lvars, vars
  <2>2. Reached' = Reached BY <2>1 DEF Reached
  <2> QED BY <1>1, <2>1, <2>2 DEF RefuseInv
<1>4. CASE LNext /\ ~Running
  <2>1. UNCHANGED lvars
    BY <1>4 DEF LNext, lvars, embedjson_token, embedjson_tokeni, Number, embedjson_tokenc_begin,
       embedjson_tokenc_end, EndLexeme, embedjson_finalize, Stopped
  <2> QED BY <1>3, <2>1
<1>5. CASE LNext /\ Running
  <2>1. err = "OK" /\ ~finalized BY <1>5 DEF Running
  <2>2. Agrees /\ Len(stack) <= Len(input) BY <2>1 DEF RefuseInv, AcceptInv
  <2>3. \A rest \in Texts : input \o rest \in Vals => Continues(Reached, stack, rest)
    BY <2>1 DEF RefuseInv
  <2>4. ASSUME NEW t \in Terminals, Receives(t), NEW rest \in Texts, input' \o rest \in Vals
        PROVE  Progress(t, rest)
    <3>1. input' = input \o <<t>> /\ lexing = "none" BY <1>2, <2>4, OneMore DEF Receives
    <3>2. <<t>> \in Texts BY OneToken
    <3>3. input' \o rest = input \o (<<t>> \o rest) BY <1>2, <3>1, <3>2, Reassociate
    <3>4. <<t>> \o rest \in Texts BY <3>2, JoinLength
    <3>5. PICK all \in Texts : all = <<t>> \o rest BY <3>4
    <3>6. input \o all \in Vals BY <2>4, <3>3, <3>5, Zenon
    <3>7. Continues(Reached, stack, all) BY <2>3, <3>6
    <3>8. Reached = state BY <3>1 DEF Reached
    <3>9. Continues(state, stack, <<t>> \o rest) BY <3>5, <3>7, <3>8, Zenon
    <3> QED BY <1>2, <2>2, <3>8, <3>9, TokenProgress
  <2>5. CASE Goes
    <3>1. PICK t \in Terminals : Receives(t) /\ Takes(t) BY <2>5 DEF Goes
    <3>2. \A rest \in Texts : input' \o rest \in Vals => Continues(Reached', stack', rest)
      BY <2>4, <3>1 DEF Progress
    <3>3. Len(stack') <= Len(input')
      <4>1. Len(input') = Len(input) + 1 /\ Len(input) \in Nat BY <1>2, <3>1 DEF Receives, Texts
      <4>2. Len(stack') <= Len(stack) + 1 /\ Len(stack) \in Nat BY <1>2, <3>1, OneDeeper
      <4>3. Len(stack') \in Nat BY <1>1 DEF AcceptInv, TypeOK
      <4> QED BY <2>2, <4>1, <4>2, <4>3
    <3> QED BY <1>1, <2>5, <3>2, <3>3 DEF RefuseInv, Goes
  <2>6. CASE Stops
    <3>1. PICK t \in Terminals : /\ Receives(t) /\ err' \notin {"OK", "INSUFFICIENT_INPUT"}
                                 /\ Refuses(t) \/ (Opens(t) /\ ~DYNAMIC_STACK /\ StackFull)
      BY <2>6 DEF Stops
    <3>2. Refuses(t)
      <4> SUFFICES ASSUME ~DYNAMIC_STACK, StackFull PROVE FALSE BY <3>1
      <4>1. Len(stack) = (8 * STATIC_STACK_SIZE) % 256 BY DEF StackFull
      <4>2. Len(input) < MaxTokens BY <3>1 DEF Receives
      <4>3. MaxTokens <= Len(stack) BY <4>1 DEF StackSuffices
      <4>4. Len(input) \in Nat /\ Len(stack) \in Nat /\ MaxTokens \in Nat
        BY <1>2, LanguageAssumption DEF TypeOK, Texts
      <4> QED BY <2>2, <4>2, <4>3, <4>4
    <3>3. \A rest \in Texts : input' \o rest \notin Vals BY <2>4, <3>1, <3>2 DEF Progress
    <3> QED BY <1>1, <3>1, <3>3 DEF RefuseInv
  <2>7. CASE Pauses
    <3>1. Reached' = Reached /\ stack' = stack /\ input' = input /\ err' = "OK"
      BY <2>7 DEF Pauses, Stays
    <3> QED BY <1>1, <2>1, <3>1 DEF RefuseInv
  <2>8. CASE Ends
    <3>1. input' = input /\ err' = "INSUFFICIENT_INPUT" /\ state # "DONE" /\ lexing = "none"
      BY <2>8 DEF Ends
    <3>2. Reached = state BY <3>1 DEF Reached
    <3>3. ASSUME input \in Vals PROVE FALSE
      <4>1. input \o <<>> \in Vals /\ <<>> \in Texts BY <1>2, <3>3, EmptyText
      <4>2. Continues(state, stack, <<>>) BY <2>3, <3>2, <4>1
      <4> QED BY <1>2, <2>2, <3>1, <3>2, <4>2, Complete
    <3> QED BY <1>1, <3>1, <3>3 DEF RefuseInv
  <2> QED BY <1>2, <1>5, <2>1, <2>2, <2>5, <2>6, <2>7, <2>8, Steps
<1> QED BY <1>3, <1>4, <1>5

LEMMA PrefixRest ==
  ASSUME NEW s \in Texts, NEW d \in Texts, IsPrefix(s, d)
  PROVE  \E rest \in Texts : d = s \o rest
<1> DEFINE n == Len(s)
           r == SubSeq(d, n + 1, Len(d))
<1>1. n \in Nat /\ Len(d) \in Nat /\ n <= Len(d) BY DEF Texts, IsPrefix
<1>2. s = SubSeq(s, 1, n) BY SubSeqFull DEF Texts
<1>3. s = SubSeq(d, 1, n) BY <1>2 DEF IsPrefix
<1>4. SubSeq(d, 1, n) \o SubSeq(d, n + 1, Len(d)) = SubSeq(d, 1, Len(d))
  <2>1. 1 \in 1..(Len(d) + 1) /\ n \in (1 - 1)..Len(d) /\ Len(d) \in n..Len(d) BY <1>1
  <2>2. d \in Seq(Terminals) BY DEF Texts
  <2> HIDE DEF n
  <2> QED BY <2>1, <2>2, ConcatAdjacentSubSeq
<1>5. d = SubSeq(d, 1, Len(d)) BY SubSeqFull DEF Texts
<1>6. r \in Texts BY <1>1 DEF Texts
<1> HIDE DEF r
<1>7. d = s \o r BY <1>3, <1>4, <1>5, Zenon DEF r
<1> QED BY <1>6, <1>7

(* A token is refused only when no document of the grammar begins with the *)
(* input, and finalize fails only when the input is not one: the parser    *)
(* accepts every document whose nesting the stack holds.                   *)
THEOREM DocumentsAreAccepted ==
  ASSUME StackSuffices
  PROVE  LSpec => []RefusesOnlyNonDocuments
<1>1. RefuseInv => RefusesOnlyNonDocuments
  <2> SUFFICES ASSUME RefuseInv PROVE RefusesOnlyNonDocuments OBVIOUS
  <2>1. input \in Texts BY DEF RefuseInv, AcceptInv
  <2>2. ASSUME err \notin {"OK", "INSUFFICIENT_INPUT"}, NEW d \in Vals, IsPrefix(input, d)
        PROVE  FALSE
    <3>1. d \in Texts BY Lengthy
    <3>2. PICK rest \in Texts : d = input \o rest BY <2>1, <2>2, <3>1, PrefixRest
    <3>3. \A r \in Texts : input \o r \notin Vals BY <2>2 DEF RefuseInv
    <3> QED BY <2>2, <3>2, <3>3, Zenon
  <2> QED BY <2>2, Documented DEF RefuseInv, RefusesOnlyNonDocuments
<1>2. RefuseInv /\ [LNext]_lvars => RefuseInv' BY RefuseStep
<1> QED BY <1>1, <1>2, RefuseInitially, PTL DEF LSpec
================================================================================
