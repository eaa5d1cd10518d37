---------------------------- MODULE ParserLanguage ----------------------------
(***************************************************************************)
(* Which token sequences does the parser accept?  Parser with the history  *)
(* of the tokens it was given, compared with a grammar that generates every*)
(* document up to a bounded number of tokens.  A whole string is one token *)
(* here, and so is a number.  Callbacks do not fail and stacks suffice.    *)
(***************************************************************************)
EXTENDS Parser

CONSTANT MaxTokens      \* bound: tokens of an input

ASSUME LanguageAssumption == MaxTokens \in Nat

VARIABLE input          \* the tokens received so far

lvars == <<vars, input>>

(***************************************************************************)
(* The grammar, as sets of token sequences: g[n] holds the values, the     *)
(* array elements and the object members of exactly n tokens.              *)
(***************************************************************************)
Primitives == {"TRUE", "NUMBER", "STRING"}

Curly(m) == <<"OPEN_CURLY_BRACKET">> \o m \o <<"CLOSE_CURLY_BRACKET">>
Square(e) == <<"OPEN_BRACKET">> \o e \o <<"CLOSE_BRACKET">>
EmptyArray == Square(<<>>)
Member(v) == <<"STRING", "COLON">> \o v

(* What stands between a member with value v and the next one: a comma, as *)
(* JSON has it, but nothing at all after an empty array (see AfterPop).    *)
MemberSeparator(v) == IF v = EmptyArray THEN <<>> ELSE <<"COMMA">>

Follow(v) == Member(v) \o MemberSeparator(v)

Values(g, n) == (IF n = 1 THEN {<<p>> : p \in Primitives} ELSE {})
           \cup (IF n = 2 THEN {EmptyArray, Curly(<<>>)} ELSE {})
           \cup (IF n > 2 THEN {Square(e) : e \in g[n - 2].elements}
                               \cup {Curly(m) : m \in g[n - 2].members} ELSE {})

Elements(g, n) == Values(g, n) \cup
  UNION {{p[1] \o <<"COMMA">> \o p[2] : p \in g[k].values \X g[n - 1 - k].elements} : k \in 1..(n - 2)}

Members(g, n) == (IF n > 2 THEN {Member(v) : v \in g[n - 2].values} ELSE {}) \cup
  UNION {{Follow(v) \o m : m \in g[n - Len(Follow(v))].members}
           : v \in UNION {g[k].values : k \in 1..(n - 4)}}

Derive(g, n) == Append(g, [values   |-> Values(g, n),
                           elements |-> Elements(g, n),
                           members  |-> Members(g, n)])

Derived[n \in 0..MaxTokens] == IF n = 0 THEN <<>> ELSE Derive(Derived[n - 1], n)

Documents == UNION {r.values : r \in ToSet(Derived[MaxTokens])}

(***************************************************************************)
(* The parser, remembering its input                                       *)
(***************************************************************************)
Receive(token) == Len(input) < MaxTokens /\ input' = Append(input, token) /\ err' # "CALLBACK"

LInit == Init /\ input = <<>>

LNext ==
  \/ \E t \in (Tokens \ Literals) \cup {"TRUE"} : embedjson_token(t) /\ Receive(t)
  \/ embedjson_tokeni /\ Receive("NUMBER")
  \/ embedjson_tokenc_begin /\ Receive("STRING")
  \/ embedjson_tokenc_end /\ err' # "CALLBACK" /\ UNCHANGED input
  \/ embedjson_finalize /\ UNCHANGED input
  \/ Stopped /\ UNCHANGED input

LSpec == LInit /\ [][LNext]_lvars

(* embedjson_finalize succeeds only on documents of the grammar: nothing   *)
(* but JSON is accepted, empty arrays inside objects apart.                *)
AcceptsOnlyDocuments == finalized => input \in Documents

(* A token is refused, or finalize fails, only when the input cannot be    *)
(* continued to (is not) a document: everything the grammar generates is   *)
(* accepted.                                                               *)
RefusesOnlyNonDocuments ==
  /\ err = "INSUFFICIENT_INPUT" => input \notin Documents
  /\ err \notin {"OK", "INSUFFICIENT_INPUT"} => \A d \in Documents : ~IsPrefix(input, d)
===============================================================================
