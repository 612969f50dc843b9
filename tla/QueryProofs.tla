---------------------------- MODULE QueryProofs ----------------------------
(***************************************************************************)
(* Proofs about answering a query.                                         *)
(*                                                                         *)
(* The parser (Parser, of SQL's specification), for queries of any length, *)
(* any schema and any databases: what it makes of a query says the whole   *)
(* query, and it follows NULL only for queries, or variables in them, that *)
(* are cut short.                                                          *)
(*                                                                         *)
(* The blocks that scans and joins keep in use (JoinPins), for every       *)
(* number of tables and blocks and every size of the pool that has room    *)
(* for more than two blocks, when a nested loop join has two tables, and a *)
(* NOT_EQUAL join is asked only of tables the smaller of which fits the    *)
(* pool (UnequalFits).                                                     *)
(***************************************************************************)
EXTENDS SQL, JoinPins, SequenceProofs, FiniteSetTheorems

-----------------------------------------------------------------------------
(* The words of a query and the clauses they make.                         *)

Signs == {"SELECT", "FROM", "WHERE", "GROUP", "ORDER", "BY", "LIMIT", "COMMA", "AND",
          "ASC", "DESC", "LEFT_PARENTHESIS", "RIGHT_PARENTHESIS"} \cup Aggregates \cup Comparisons
Words == (UNION {Range(q) : q \in Queries}) \cup {Keyword(type) : type \in Signs}
Text == Seq(Words)

Variables == {Var(type, w) : type \in {"VAR"} \cup Aggregates,
                             w \in {v \in Words : v.type = "VAR" /\ ~NoColumn(v)}}
TableNames == {w.data[1] : w \in {v \in Words : v.type = "TABLE"}}
Statement == [vars : Seq(Variables), tables : Seq(TableNames),
              expr : Seq([x : Words, op : Comparisons, y : Words]),
              group : Seq(Variables), order : Seq([var : Variables, asc : BOOLEAN]),
              limit : {0} \cup {w.data[1] : w \in {v \in Words : v.type = "INT"}}]

\* The clauses of a statement, part by part.
SelectParts(s) == [k \in DOMAIN s.vars |-> SaidVar(s.vars[k])]
FromParts(s) == [k \in DOMAIN s.tables |-> <<[type |-> "TABLE", data |-> <<s.tables[k]>>]>>]
WhereParts(s) == [k \in DOMAIN s.expr |-> <<s.expr[k].x, Keyword(s.expr[k].op), s.expr[k].y>>]
GroupParts(s) == [k \in DOMAIN s.group |-> SaidVar(s.group[k])]
OrderParts(s) == [k \in DOMAIN s.order |-> SaidVar(s.order[k].var)]

Heading(types) == [i \in DOMAIN types |-> Keyword(types[i])]

\* A clause of which more is to come: every part is followed by a separator.
Open(types, parts, between) ==
  Heading(types)
  \o (IF parts = <<>> THEN <<>> ELSE Separated(parts, between) \o <<Keyword(between)>>)

Select(s) == Clause(<<"SELECT">>, SelectParts(s), "COMMA")
SelectFrom(s) == Select(s) \o Clause(<<"FROM">>, FromParts(s), "COMMA")
SelectWhere(s) == SelectFrom(s) \o Clause(<<"WHERE">>, WhereParts(s), "AND")
SelectGroup(s) == SelectWhere(s) \o Clause(<<"GROUP", "BY">>, GroupParts(s), "COMMA")
SelectOrder(s) == SelectGroup(s) \o Clause(<<"ORDER", "BY">>, OrderParts(s), "COMMA")
Directions(s) == IF s.order = <<>> THEN {<<>>}
                 ELSE IF s.order[1].asc THEN {<<Keyword("ASC")>>}
                 ELSE {<<Keyword("DESC")>>, <<>>}
Limits(s) == {<<Keyword("LIMIT"), [type |-> "INT", data |-> <<s.limit>>]>>}
             \cup (IF s.limit = 0 THEN {<<>>} ELSE {})

\* What the tokens parsed so far are, by the clause parsing is in.
Parsed(text) == query = text \o tokens
SaidSoFar ==
  /\ at = "statement" => query = tokens /\ stm = EmptyStatement
  /\ at = "vars" => Parsed(Open(<<"SELECT">>, SelectParts(stm), "COMMA"))
  /\ at = "tables" => Parsed(Select(stm) \o Open(<<"FROM">>, FromParts(stm), "COMMA"))
  /\ at = "where" => Parsed(SelectFrom(stm))
  /\ at = "expr" => Parsed(SelectFrom(stm) \o Open(<<"WHERE">>, WhereParts(stm), "AND"))
  /\ at = "group" => Parsed(SelectWhere(stm))
  /\ at = "order" => Parsed(SelectGroup(stm))
  /\ at = "limit" => \E d \in Directions(stm) : Parsed(SelectOrder(stm) \o d)
  /\ at = "parsed" => SaidIsParsed

\* Clauses that are still to come are empty.
Ahead ==
  /\ at \in {"statement", "vars"} => stm.tables = <<>>
  /\ at \in {"statement", "vars", "tables", "where"} => stm.expr = <<>>
  /\ at \in {"statement", "vars", "tables", "where", "expr", "group"} => stm.group = <<>>
  /\ at \in {"statement", "vars", "tables", "where", "expr", "group", "order"} => stm.order = <<>>
  /\ at \in {"statement", "vars", "tables", "where", "expr", "group", "order", "limit"} =>
       stm.limit = 0

Typed == query \in Text /\ tokens \in Text /\ stm \in Statement

-----------------------------------------------------------------------------
\* Tokens.

LEMMA WordsAreTokens ==
  ASSUME NEW w \in Words
  PROVE  /\ w.type # "NONE"
         /\ w.type \in Signs => w = Keyword(w.type)
         /\ w.type = "VAR" /\ ~NoColumn(w) => w = [type |-> "VAR", data |-> <<w.data[1], w.data[2]>>]
         /\ w.type \in {"INT", "TABLE"} => w = [type |-> w.type, data |-> <<w.data[1]>>]
<1>1. IsToken(w)
  <2>1. CASE \E q \in Queries : w \in Range(q)
    BY <2>1, ParserAssumption
  <2>2. CASE \E type \in Signs : w = Keyword(type)
    <3>1. PICK type \in Signs : w = [type |-> type, data |-> <<>>]
      BY <2>2 DEF Keyword
    <3>2. type \notin {"NONE", "VAR", "INT", "DOUBLE", "STRING", "TABLE"}
      BY DEF Signs, Aggregates, Comparisons
    <3>3. w.type = type
      BY <3>1
    <3> QED
      BY <3>1, <3>2, <3>3 DEF IsToken
  <2> QED
    BY <2>1, <2>2 DEF Words
<1> QED
  BY <1>1 DEF IsToken, Signs, Aggregates, Comparisons, Keyword

LEMMA SignsAreWords == \A type \in Signs : Keyword(type) \in Words
BY DEF Words

LEMMA QueriesAreText == Queries \subseteq Text
<1> SUFFICES ASSUME NEW q \in Queries PROVE q \in Text
  OBVIOUS
<1>1. Range(q) \subseteq Words /\ q \in Seq(Range(q))
  BY ParserAssumption DEF Words
<1> QED
  BY <1>1, SeqMonotonic DEF Text

\* What the first tokens say, and what is left.
LEMMA Popped ==
  ASSUME NEW s \in Text, NEW n \in 0..Len(s)
  PROVE  /\ SubSeq(s, 1, n) \in Text /\ Len(SubSeq(s, 1, n)) = n
         /\ SubSeq(s, n + 1, Len(s)) \in Text
         /\ s = SubSeq(s, 1, n) \o SubSeq(s, n + 1, Len(s))
         /\ \A i \in 1..n : SubSeq(s, 1, n)[i] = s[i]
<1>1. Len(s) \in Nat /\ \A i \in 1..Len(s) : s[i] \in Words
  BY LenProperties, ElementOfSeq DEF Text
<1>2. SubSeq(s, 1, n) \o SubSeq(s, n + 1, Len(s)) = SubSeq(s, 1, Len(s))
  <2>1. 1 \in 1..(Len(s) + 1) /\ n \in (1 - 1)..Len(s) /\ Len(s) \in n..Len(s)
    BY <1>1
  <2> QED
    BY <2>1, ConcatAdjacentSubSeq DEF Text
<1>3. SubSeq(s, 1, Len(s)) = s
  BY SubSeqFull DEF Text
<1>4. SubSeq(s, n + 1, Len(s)) \in Text
  BY <1>1, SubSeqProperties DEF Text
<1>5. SubSeq(s, 1, n) \in Text /\ Len(SubSeq(s, 1, n)) = n
  BY <1>1, SubSeqProperties DEF Text
<1>6. ASSUME NEW i \in 1..n PROVE SubSeq(s, 1, n)[i] = s[i]
  <2>1. i \in 1..(n - 1 + 1) /\ 1 + i - 1 = i /\ \A j \in 1..n : s[j] \in Words
    BY <1>1
  <2> QED
    BY <1>1, <2>1, SubSeqProperties
<1> QED
  BY <1>2, <1>3, <1>4, <1>5, <1>6

\* Words that are what a text begins with.
LEMMA Begins ==
  ASSUME NEW s \in Text, NEW w \in Text, Len(w) <= Len(s), \A i \in 1..Len(w) : s[i] = w[i]
  PROVE  SubSeq(s, Len(w) + 1, Len(s)) \in Text /\ s = w \o SubSeq(s, Len(w) + 1, Len(s))
<1>1. Len(w) \in 0..Len(s)
  BY LenProperties DEF Text
<1>2. /\ SubSeq(s, 1, Len(w)) \in Text /\ Len(SubSeq(s, 1, Len(w))) = Len(w)
      /\ \A i \in 1..Len(w) : SubSeq(s, 1, Len(w))[i] = s[i]
  BY <1>1, Popped
<1>3. SubSeq(s, 1, Len(w)) = w
  BY <1>2, SeqEqual DEF Text
<1> QED
  BY <1>1, <1>3, Popped

LEMMA TypeAtIs ==
  ASSUME tokens \in Text, NEW i \in Nat \ {0}
  PROVE  /\ TypeAt(i) = "NONE" <=> i > Len(tokens)
         /\ TypeAt(i) # "NONE" => tokens[i] \in Words /\ tokens[i].type = TypeAt(i)
<1>1. DOMAIN tokens = 1..Len(tokens) /\ Len(tokens) \in Nat
  BY LenProperties DEF Text
<1>2. \A j \in 1..Len(tokens) : tokens[j] \in Words
  BY ElementOfSeq DEF Text
<1> QED
  BY <1>1, <1>2, WordsAreTokens DEF TypeAt

\* Joined texts.
LEMMA TextsJoin ==
  ASSUME NEW u \in Text, NEW v \in Text
  PROVE  u \o v \in Text /\ u \o <<>> = u /\ <<>> \o u = u /\ <<>> \in Text
BY ConcatProperties, ConcatEmptySeq, EmptySeq DEF Text

LEMMA TextsAssociate ==
  ASSUME NEW u \in Text, NEW v \in Text, NEW w \in Text
  PROVE  (u \o v) \o w = u \o (v \o w)
BY ConcatAssociative DEF Text

-----------------------------------------------------------------------------
\* Clauses.

LEMMA SeparatedMore ==
  ASSUME NEW parts \in Seq(Text), NEW p \in Text, NEW between \in Signs
  PROVE  /\ Separated(parts, between) \in Text
         /\ Separated(Append(parts, p), between) =
              IF parts = <<>> THEN p
              ELSE (Separated(parts, between) \o <<Keyword(between)>>) \o p
<1> DEFINE Prefixed(ps) == [i \in DOMAIN ps |-> IF i = 1 THEN ps[i] ELSE <<Keyword(between)>> \o ps[i]]
           last == IF parts = <<>> THEN p ELSE <<Keyword(between)>> \o p
<1>1. /\ Len(parts) \in Nat /\ DOMAIN parts = 1..Len(parts) /\ \A i \in 1..Len(parts) : parts[i] \in Text
      /\ parts = <<>> <=> Len(parts) = 0
  BY LenProperties, ElementOfSeq, EmptySeq
<1>2. /\ Append(parts, p) \in Seq(Text) /\ Len(Append(parts, p)) = Len(parts) + 1
      /\ DOMAIN Append(parts, p) = 1..(Len(parts) + 1)
      /\ \A i \in 1..Len(parts) : Append(parts, p)[i] = parts[i]
      /\ Append(parts, p)[Len(parts) + 1] = p
  BY <1>1, AppendProperties, LenProperties
<1>3. <<Keyword(between)>> \in Text /\ \A u \in Text : <<Keyword(between)>> \o u \in Text
  <2>1. <<Keyword(between)>> \in Text
    BY SignsAreWords DEF Text
  <2> QED
    BY <2>1, TextsJoin
<1>4. Prefixed(parts) \in Seq(Text) /\ Len(Prefixed(parts)) = Len(parts)
  <2>1. \A i \in 1..Len(parts) : (IF i = 1 THEN parts[i] ELSE <<Keyword(between)>> \o parts[i]) \in Text
    BY <1>1, <1>3
  <2> QED
    BY <1>1, <2>1
<1>5. last \in Text
  BY <1>3
<1>6. Prefixed(Append(parts, p)) = Append(Prefixed(parts), last)
  <2> DEFINE u == Prefixed(Append(parts, p))
             v == Append(Prefixed(parts), last)
  <2>1. /\ v \in Seq(Text) /\ Len(v) = Len(parts) + 1
        /\ \A i \in 1..Len(parts) : v[i] = Prefixed(parts)[i]
        /\ v[Len(parts) + 1] = last
    BY <1>4, <1>5, AppendProperties
  <2>2. DOMAIN v = 1..(Len(parts) + 1) /\ v = [i \in DOMAIN v |-> v[i]]
    BY <2>1, LenProperties
  <2>3. ASSUME NEW i \in 1..(Len(parts) + 1) PROVE u[i] = v[i]
    <3>1. CASE i = Len(parts) + 1
      BY <1>1, <1>2, <2>1, <3>1
    <3>2. CASE i # Len(parts) + 1
      <4>1. i \in 1..Len(parts)
        BY <1>1, <3>2
      <4> QED
        BY <1>1, <1>2, <2>1, <4>1
    <3> QED
      BY <3>1, <3>2
  <2> HIDE DEF v
  <2>4. u = [i \in 1..(Len(parts) + 1) |-> u[i]]
    BY <1>2
  <2> HIDE DEF u
  <2>5. u = v
    BY <2>2, <2>3, <2>4
  <2> QED
    BY <2>5 DEF u, v
<1>7. Separated(parts, between) = FlattenSeq(Prefixed(parts)) /\ Separated(Append(parts, p), between) = FlattenSeq(Prefixed(Append(parts, p)))
  BY DEF Separated
<1>8. FlattenSeq(Prefixed(parts)) \in Text /\ FlattenSeq(Append(Prefixed(parts), last)) = FlattenSeq(Prefixed(parts)) \o last
  BY <1>4, <1>5, FlattenOneMore DEF Text
<1>9. parts = <<>> => FlattenSeq(Prefixed(parts)) = <<>>
  BY <1>1, FlattenEmpty
<1> HIDE DEF Prefixed
<1>10. CASE parts = <<>>
  BY <1>6, <1>7, <1>8, <1>9, <1>10, TextsJoin
<1>11. CASE parts # <<>>
  <2>1. Separated(Append(parts, p), between) = Separated(parts, between) \o (<<Keyword(between)>> \o p)
    BY <1>6, <1>7, <1>8, <1>11
  <2>2. (Separated(parts, between) \o <<Keyword(between)>>) \o p = Separated(parts, between) \o (<<Keyword(between)>> \o p)
    BY <1>3, <1>7, <1>8, TextsAssociate
  <2> QED
    BY <1>7, <1>8, <1>11, <2>1, <2>2
<1> QED
  BY <1>10, <1>11

\* One part more closes an open clause, and a separator opens it again.
LEMMA OpenMore ==
  ASSUME NEW types \in Seq(Signs), NEW parts \in Seq(Text), NEW p \in Text, NEW between \in Signs
  PROVE  /\ Open(types, parts, between) \in Text
         /\ Clause(types, parts, between) \in Text
         /\ Clause(types, Append(parts, p), between) \in Text
         /\ Open(types, parts, between) \o p = Clause(types, Append(parts, p), between)
         /\ (Open(types, parts, between) \o p) \o <<Keyword(between)>>
              = Open(types, Append(parts, p), between)
<1> DEFINE h == Heading(types)
           k == <<Keyword(between)>>
           s == Separated(parts, between)
           t == Separated(Append(parts, p), between)
<1>1. h \in Text /\ k \in Text
  <2>1. \A i \in DOMAIN types : types[i] \in Signs
    BY LenProperties, ElementOfSeq
  <2>2. DOMAIN types = 1..Len(types) /\ Len(types) \in Nat
    BY LenProperties
  <2>3. \A i \in 1..Len(types) : Keyword(types[i]) \in Words
    BY <2>1, <2>2, SignsAreWords
  <2> QED
    BY <2>2, <2>3, SignsAreWords DEF Heading, Text
<1>2. s \in Text /\ t = IF parts = <<>> THEN p ELSE (s \o k) \o p
  BY SeparatedMore
<1>3. Append(parts, p) \in Seq(Text) /\ Append(parts, p) # <<>>
  BY AppendProperties
<1>4. t \in Text
  BY <1>3, SeparatedMore
<1>5. Clause(types, parts, between) = IF parts = <<>> THEN <<>> ELSE h \o s
  BY DEF Clause, Heading
<1>6. Clause(types, Append(parts, p), between) = h \o t
  BY <1>3 DEF Clause, Heading
<1>7. Open(types, parts, between) = h \o (IF parts = <<>> THEN <<>> ELSE s \o k)
  BY DEF Open
<1>8. Open(types, Append(parts, p), between) = h \o (t \o k)
  BY <1>3 DEF Open
<1> HIDE DEF h, k, s, t
<1>9. /\ h \o s \in Text /\ h \o t \in Text /\ s \o k \in Text /\ t \o k \in Text
      /\ <<>> \in Text /\ h \o <<>> = h
      /\ h \o (s \o k) \in Text
  BY <1>1, <1>2, <1>4, TextsJoin
<1>10. Open(types, parts, between) \o p = h \o t
  <2>1. CASE parts = <<>>
    BY <1>2, <1>7, <1>9, <2>1
  <2>2. CASE parts # <<>>
    <3>1. t = (s \o k) \o p /\ Open(types, parts, between) = h \o (s \o k)
      BY <1>2, <1>7, <2>2
    <3>2. PICK m \in Text : m = s \o k
      BY <1>9
    <3>3. (h \o m) \o p = h \o (m \o p)
      BY <1>1, TextsAssociate
    <3> QED
      BY <3>1, <3>2, <3>3
  <2> QED
    BY <2>1, <2>2
<1>11. (h \o t) \o k = h \o (t \o k)
  BY <1>1, <1>4, TextsAssociate
<1> QED
  BY <1>1, <1>5, <1>6, <1>7, <1>8, <1>9, <1>10, <1>11 DEF k

\* A clause with nothing in it.
LEMMA EmptyClause ==
  ASSUME NEW types, NEW between
  PROVE  /\ Clause(types, <<>>, between) = <<>>
         /\ Open(types, <<>>, between) = Heading(types) \o <<>>
BY DEF Clause, Open

LEMMA Headings ==
  /\ \A x \in Signs : Heading(<<x>>) = <<Keyword(x)>> /\ <<Keyword(x)>> \in Text
  /\ \A x, y \in Signs : /\ Heading(<<x, y>>) = <<Keyword(x), Keyword(y)>>
                         /\ <<Keyword(x), Keyword(y)>> \in Text
BY SignsAreWords DEF Heading, Text

-----------------------------------------------------------------------------
\* Statements.

LEMMA SaidVarIs ==
  ASSUME NEW w \in Words, w.type = "VAR", ~NoColumn(w)
  PROVE  /\ Var("VAR", w) \in Variables /\ SaidVar(Var("VAR", w)) = <<w>> /\ <<w>> \in Text
         /\ \A f \in Aggregates :
              /\ Var(f, w) \in Variables
              /\ SaidVar(Var(f, w)) =
                   <<Keyword(f), Keyword("LEFT_PARENTHESIS"), w, Keyword("RIGHT_PARENTHESIS")>>
              /\ <<Keyword(f), Keyword("LEFT_PARENTHESIS"), w, Keyword("RIGHT_PARENTHESIS")>> \in Text
<1>1. w = [type |-> "VAR", data |-> <<w.data[1], w.data[2]>>]
  BY WordsAreTokens
<1>2. SaidVar(Var("VAR", w)) = <<w>> /\ <<w>> \in Text /\ Var("VAR", w) \in Variables
  BY <1>1 DEF SaidVar, Var, IsAggregate, Text, Variables
<1>3. ASSUME NEW f \in Aggregates
      PROVE  /\ Var(f, w) \in Variables
             /\ SaidVar(Var(f, w)) =
                  <<Keyword(f), Keyword("LEFT_PARENTHESIS"), w, Keyword("RIGHT_PARENTHESIS")>>
  <2>1. Var(f, w) \in Variables
    BY DEF Variables
  <2>2. /\ Var(f, w).type = f /\ f \in {"COUNT", "SUM"}
        /\ Var(f, w).table = w.data[1] /\ Var(f, w).column = w.data[2]
    BY DEF Var, Aggregates
  <2>3. [type |-> "VAR", data |-> <<Var(f, w).table, Var(f, w).column>>] = w
    BY <1>1, <2>2
  <2> QED
    BY <2>1, <2>2, <2>3 DEF SaidVar, IsAggregate
<1>4. ASSUME NEW f \in Aggregates
      PROVE  <<Keyword(f), Keyword("LEFT_PARENTHESIS"), w, Keyword("RIGHT_PARENTHESIS")>> \in Text
  <2>1. /\ Keyword(f) \in Words /\ Keyword("LEFT_PARENTHESIS") \in Words
        /\ Keyword("RIGHT_PARENTHESIS") \in Words
    BY SignsAreWords DEF Signs
  <2> QED
    BY <2>1 DEF Text
<1> QED
  BY <1>2, <1>3, <1>4

LEMMA VariablesSaid ==
  ASSUME NEW v \in Variables
  PROVE  SaidVar(v) \in Text
<1>1. PICK type \in {"VAR"} \cup Aggregates, w \in {x \in Words : x.type = "VAR" /\ ~NoColumn(x)} :
          v = Var(type, w)
  BY DEF Variables
<1> QED
  BY <1>1, SaidVarIs

\* The variable ahead, and the words it takes.
LEMMA VarAhead ==
  ASSUME tokens \in Text, NEW i \in Nat \ {0}, VarLength(i) > 0, ~ColumnFaults(i)
  PROVE  /\ VarLength(i) \in Nat /\ i + VarLength(i) - 1 <= Len(tokens)
         /\ VarAt(i) \in Variables
         /\ SaidVar(VarAt(i)) \in Text /\ Len(SaidVar(VarAt(i))) = VarLength(i)
         /\ \A j \in 1..VarLength(i) : SaidVar(VarAt(i))[j] = tokens[i + j - 1]
<1>1. CASE TypeAt(i) = "VAR"
  <2>1. tokens[i] \in Words /\ tokens[i].type = "VAR" /\ ~(i > Len(tokens)) /\ VarLength(i) = 1
    BY <1>1, TypeAtIs DEF VarLength
  <2>2. VarAt(i) = Var("VAR", tokens[i]) /\ ~NoColumn(tokens[i])
    BY <1>1 DEF VarAt, VarToken, ColumnFaults
  <2>3. Len(tokens) \in Nat
    BY LenProperties DEF Text
  <2> QED
    <3>1. /\ VarAt(i) \in Variables /\ SaidVar(VarAt(i)) = <<tokens[i]>>
          /\ SaidVar(VarAt(i)) \in Text
      BY <2>1, <2>2, SaidVarIs
    <3>2. \A j \in 1..1 : j = 1 /\ i + j - 1 = i
      OBVIOUS
    <3> QED
      BY <2>1, <2>3, <3>1, <3>2
<1>2. CASE TypeAt(i) # "VAR"
  <2>1. /\ TypeAt(i) \in Aggregates /\ TypeAt(i + 1) = "LEFT_PARENTHESIS"
        /\ TypeAt(i + 2) = "VAR" /\ TypeAt(i + 3) = "RIGHT_PARENTHESIS"
        /\ VarLength(i) = 4
    BY <1>2 DEF VarLength
  <2>2. /\ tokens[i] \in Words /\ tokens[i].type = TypeAt(i)
        /\ tokens[i + 1] \in Words /\ tokens[i + 1].type = "LEFT_PARENTHESIS"
        /\ tokens[i + 2] \in Words /\ tokens[i + 2].type = "VAR"
        /\ tokens[i + 3] \in Words /\ tokens[i + 3].type = "RIGHT_PARENTHESIS"
        /\ ~(i + 3 > Len(tokens)) /\ Len(tokens) \in Nat
    <3>1. TypeAt(i) # "NONE"
      BY <2>1 DEF Aggregates
    <3>2. i + 1 \in Nat \ {0} /\ i + 2 \in Nat \ {0} /\ i + 3 \in Nat \ {0} /\ Len(tokens) \in Nat
      BY LenProperties DEF Text
    <3> QED
      BY <2>1, <3>1, <3>2, TypeAtIs
  <2>3. /\ tokens[i] = Keyword(TypeAt(i)) /\ tokens[i + 1] = Keyword("LEFT_PARENTHESIS")
        /\ tokens[i + 3] = Keyword("RIGHT_PARENTHESIS")
    BY <2>1, <2>2, WordsAreTokens DEF Signs
  <2>4. VarAt(i) = Var(TypeAt(i), tokens[i + 2]) /\ ~NoColumn(tokens[i + 2])
    BY <1>2 DEF VarAt, VarToken, ColumnFaults
  <2>5. SaidVar(VarAt(i)) = <<tokens[i], tokens[i + 1], tokens[i + 2], tokens[i + 3]>>
    BY <2>1, <2>2, <2>3, <2>4, SaidVarIs
  <2>6. VarAt(i) \in Variables /\ SaidVar(VarAt(i)) \in Text
    BY <2>1, <2>2, <2>4, SaidVarIs, VariablesSaid
  <2>7. \A j \in 1..4 : j = 1 \/ j = 2 \/ j = 3 \/ j = 4
    OBVIOUS
  <2> QED
    BY <2>1, <2>2, <2>5, <2>6, <2>7
<1> QED
  BY <1>1, <1>2

\* Mapping a list that one more is put on.
LEMMA MapAppend ==
  ASSUME NEW A, NEW B, NEW f \in [A -> B], NEW q \in Seq(A), NEW e \in A
  PROVE  /\ [k \in DOMAIN q |-> f[q[k]]] \in Seq(B)
         /\ [k \in DOMAIN Append(q, e) |-> f[Append(q, e)[k]]]
              = Append([k \in DOMAIN q |-> f[q[k]]], f[e])
<1>1. DOMAIN q = 1..Len(q) /\ Len(q) \in Nat /\ \A k \in 1..Len(q) : q[k] \in A
  BY LenProperties, ElementOfSeq
<1>2. /\ Append(q, e) \in Seq(A) /\ Len(Append(q, e)) = Len(q) + 1
      /\ DOMAIN Append(q, e) = 1..(Len(q) + 1)
      /\ \A k \in 1..Len(q) : Append(q, e)[k] = q[k]
      /\ Append(q, e)[Len(q) + 1] = e
  BY <1>1, AppendProperties, LenProperties
<1>3. \A p \in Seq(A) : [k \in DOMAIN p |-> f[p[k]]] \in Seq(B) /\ Len([k \in DOMAIN p |-> f[p[k]]]) = Len(p)
  <2> SUFFICES ASSUME NEW p \in Seq(A)
               PROVE  /\ [k \in DOMAIN p |-> f[p[k]]] \in Seq(B)
                      /\ Len([k \in DOMAIN p |-> f[p[k]]]) = Len(p)
    OBVIOUS
  <2>1. DOMAIN p = 1..Len(p) /\ Len(p) \in Nat /\ \A k \in 1..Len(p) : p[k] \in A
    BY LenProperties, ElementOfSeq
  <2>2. \A k \in 1..Len(p) : f[p[k]] \in B
    BY <2>1
  <2> QED
    BY <2>1, <2>2
<1> DEFINE u == [k \in DOMAIN Append(q, e) |-> f[Append(q, e)[k]]]
           v == Append([k \in DOMAIN q |-> f[q[k]]], f[e])
<1>4. u \in Seq(B) /\ Len(u) = Len(q) + 1
  BY <1>2, <1>3
<1>5. /\ v \in Seq(B) /\ Len(v) = Len(q) + 1 /\ v[Len(q) + 1] = f[e]
      /\ \A k \in 1..Len(q) : v[k] = f[q[k]]
  BY <1>1, <1>3, AppendProperties
<1>6. ASSUME NEW k \in 1..(Len(q) + 1) PROVE u[k] = v[k]
  <2>1. u[k] = f[Append(q, e)[k]]
    BY <1>2
  <2>2. CASE k = Len(q) + 1
    BY <1>1, <1>2, <1>5, <2>1, <2>2
  <2>3. CASE k # Len(q) + 1
    <3>1. k \in 1..Len(q)
      BY <1>1, <2>3
    <3> QED
      BY <1>2, <1>5, <2>1, <3>1
  <2> QED
    BY <2>2, <2>3
<1> HIDE DEF u, v
<1>7. u = v
  BY <1>4, <1>5, <1>6, SeqEqual
<1> QED
  BY <1>3, <1>7 DEF u, v

LEMMA PartsTyped ==
  ASSUME NEW s \in Statement
  PROVE  /\ SelectParts(s) \in Seq(Text) /\ FromParts(s) \in Seq(Text)
         /\ WhereParts(s) \in Seq(Text) /\ GroupParts(s) \in Seq(Text)
         /\ OrderParts(s) \in Seq(Text)
<1>1. \A q \in Seq(Variables) : [k \in DOMAIN q |-> SaidVar(q[k])] \in Seq(Text)
  <2> SUFFICES ASSUME NEW q \in Seq(Variables) PROVE [k \in DOMAIN q |-> SaidVar(q[k])] \in Seq(Text)
    OBVIOUS
  <2>1. DOMAIN q = 1..Len(q) /\ Len(q) \in Nat /\ \A k \in 1..Len(q) : SaidVar(q[k]) \in Text
    BY LenProperties, ElementOfSeq, VariablesSaid
  <2> QED
    BY <2>1
<1>2. SelectParts(s) \in Seq(Text) /\ GroupParts(s) \in Seq(Text)
  BY <1>1 DEF Statement, SelectParts, GroupParts
<1>3. FromParts(s) \in Seq(Text)
  <2>1. /\ DOMAIN s.tables = 1..Len(s.tables) /\ Len(s.tables) \in Nat
        /\ \A k \in 1..Len(s.tables) : s.tables[k] \in TableNames
    BY LenProperties, ElementOfSeq DEF Statement
  <2>2. \A t \in TableNames : [type |-> "TABLE", data |-> <<t>>] \in Words
    BY WordsAreTokens DEF TableNames
  <2>3. \A k \in 1..Len(s.tables) : <<[type |-> "TABLE", data |-> <<s.tables[k]>>]>> \in Text
    BY <2>1, <2>2 DEF Text
  <2> QED
    BY <2>1, <2>3 DEF FromParts
<1>4. WhereParts(s) \in Seq(Text)
  <2>1. /\ DOMAIN s.expr = 1..Len(s.expr) /\ Len(s.expr) \in Nat
        /\ \A k \in 1..Len(s.expr) :
             s.expr[k].x \in Words /\ s.expr[k].y \in Words /\ s.expr[k].op \in Comparisons
    <3>1. s.expr \in Seq([x : Words, op : Comparisons, y : Words])
      BY DEF Statement
    <3>2. /\ DOMAIN s.expr = 1..Len(s.expr) /\ Len(s.expr) \in Nat
          /\ \A k \in 1..Len(s.expr) : s.expr[k] \in [x : Words, op : Comparisons, y : Words]
      BY <3>1, LenProperties, ElementOfSeq
    <3> QED
      BY <3>2
  <2>2. \A c \in Comparisons : Keyword(c) \in Words
    BY SignsAreWords DEF Signs
  <2>3. \A k \in 1..Len(s.expr) : <<s.expr[k].x, Keyword(s.expr[k].op), s.expr[k].y>> \in Text
    BY <2>1, <2>2 DEF Text
  <2> QED
    BY <2>1, <2>3 DEF WhereParts
<1>5. OrderParts(s) \in Seq(Text)
  <2>1. /\ DOMAIN s.order = 1..Len(s.order) /\ Len(s.order) \in Nat
        /\ \A k \in 1..Len(s.order) : SaidVar(s.order[k].var) \in Text
    <3>1. s.order \in Seq([var : Variables, asc : BOOLEAN])
      BY DEF Statement
    <3>2. /\ DOMAIN s.order = 1..Len(s.order) /\ Len(s.order) \in Nat
          /\ \A k \in 1..Len(s.order) : s.order[k] \in [var : Variables, asc : BOOLEAN]
      BY <3>1, LenProperties, ElementOfSeq
    <3> QED
      BY <3>2, VariablesSaid
  <2> QED
    BY <2>1 DEF OrderParts
<1> QED
  BY <1>2, <1>3, <1>4, <1>5

LEMMA ClausesTyped ==
  ASSUME NEW s \in Statement
  PROVE  /\ Select(s) \in Text /\ SelectFrom(s) \in Text /\ SelectWhere(s) \in Text
         /\ SelectGroup(s) \in Text /\ SelectOrder(s) \in Text
         /\ s.tables = <<>> => FromParts(s) = <<>>
         /\ s.expr = <<>> => WhereParts(s) = <<>> /\ SelectWhere(s) = SelectFrom(s)
         /\ s.group = <<>> => GroupParts(s) = <<>> /\ SelectGroup(s) = SelectWhere(s)
         /\ s.order = <<>> => OrderParts(s) = <<>> /\ SelectOrder(s) = SelectGroup(s)
<1>1. \A types \in Seq(Signs), parts \in Seq(Text) :
        /\ Clause(types, parts, "COMMA") \in Text /\ Clause(types, parts, "AND") \in Text
  BY OpenMore, EmptySeq DEF Signs, Text
<1>2. /\ <<"SELECT">> \in Seq(Signs) /\ <<"FROM">> \in Seq(Signs) /\ <<"WHERE">> \in Seq(Signs)
      /\ <<"GROUP", "BY">> \in Seq(Signs) /\ <<"ORDER", "BY">> \in Seq(Signs)
  BY DEF Signs
<1>3. Select(s) \in Text
  BY <1>1, <1>2, PartsTyped DEF Select
<1>4. SelectFrom(s) \in Text
  BY <1>1, <1>2, <1>3, PartsTyped, TextsJoin DEF SelectFrom
<1>5. SelectWhere(s) \in Text
  BY <1>1, <1>2, <1>4, PartsTyped, TextsJoin DEF SelectWhere
<1>6. SelectGroup(s) \in Text
  BY <1>1, <1>2, <1>5, PartsTyped, TextsJoin DEF SelectGroup
<1>7. SelectOrder(s) \in Text
  BY <1>1, <1>2, <1>6, PartsTyped, TextsJoin DEF SelectOrder
<1>8. /\ s.tables = <<>> => FromParts(s) = <<>>
      /\ s.expr = <<>> => WhereParts(s) = <<>>
      /\ s.group = <<>> => GroupParts(s) = <<>>
      /\ s.order = <<>> => OrderParts(s) = <<>>
  BY DEF FromParts, WhereParts, GroupParts, OrderParts
<1>9. s.expr = <<>> => SelectWhere(s) = SelectFrom(s)
  BY <1>4, <1>8, EmptyClause, TextsJoin DEF SelectWhere
<1>10. s.group = <<>> => SelectGroup(s) = SelectWhere(s)
  BY <1>5, <1>8, EmptyClause, TextsJoin DEF SelectGroup
<1>11. s.order = <<>> => SelectOrder(s) = SelectGroup(s)
  BY <1>6, <1>8, EmptyClause, TextsJoin DEF SelectOrder
<1> QED
  BY <1>3, <1>4, <1>5, <1>6, <1>7, <1>8, <1>9, <1>10, <1>11

\* One more variable, table or expression.
LEMMA StatementMore ==
  ASSUME NEW s \in Statement
  PROVE  /\ \A v \in Variables :
              LET t == [s EXCEPT !.vars = Append(@, v)] IN
              /\ t \in Statement /\ SelectParts(t) = Append(SelectParts(s), SaidVar(v))
              /\ t.tables = s.tables /\ t.expr = s.expr /\ t.group = s.group
              /\ t.order = s.order /\ t.limit = s.limit
         /\ \A w \in {x \in Words : x.type = "TABLE"} :
              LET t == [s EXCEPT !.tables = Append(@, w.data[1])] IN
              /\ t \in Statement /\ FromParts(t) = Append(FromParts(s), <<w>>)
              /\ t.vars = s.vars /\ t.expr = s.expr /\ t.group = s.group
              /\ t.order = s.order /\ t.limit = s.limit
         /\ \A x, y \in Words, op \in Comparisons :
              LET t == [s EXCEPT !.expr = Append(@, [x |-> x, op |-> op, y |-> y])] IN
              /\ t \in Statement /\ WhereParts(t) = Append(WhereParts(s), <<x, Keyword(op), y>>)
              /\ t.vars = s.vars /\ t.tables = s.tables /\ t.group = s.group
              /\ t.order = s.order /\ t.limit = s.limit
<1> DEFINE Exprs3 == [x : Words, op : Comparisons, y : Words]
<1>1. /\ s.vars \in Seq(Variables) /\ s.tables \in Seq(TableNames) /\ s.expr \in Seq(Exprs3)
      /\ s = [vars |-> s.vars, tables |-> s.tables, expr |-> s.expr, group |-> s.group,
              order |-> s.order, limit |-> s.limit]
  BY DEF Statement
<1>2. ASSUME NEW v \in Variables
      PROVE  LET t == [s EXCEPT !.vars = Append(@, v)] IN
             /\ t \in Statement /\ SelectParts(t) = Append(SelectParts(s), SaidVar(v))
             /\ t.tables = s.tables /\ t.expr = s.expr /\ t.group = s.group
             /\ t.order = s.order /\ t.limit = s.limit
  <2> DEFINE t == [s EXCEPT !.vars = Append(@, v)]
             f == [u \in Variables |-> SaidVar(u)]
  <2>1. Append(s.vars, v) \in Seq(Variables)
    BY <1>1, AppendProperties
  <2>2. /\ t \in Statement /\ t.vars = Append(s.vars, v)
        /\ t.tables = s.tables /\ t.expr = s.expr /\ t.group = s.group
        /\ t.order = s.order /\ t.limit = s.limit
    BY <2>1 DEF Statement
  <2> HIDE DEF t
  <2>3. f \in [Variables -> Text]
    BY VariablesSaid
  <2>4. ASSUME NEW q \in Seq(Variables)
        PROVE  [k \in DOMAIN q |-> SaidVar(q[k])] = [k \in DOMAIN q |-> f[q[k]]]
    <3>1. \A k \in DOMAIN q : q[k] \in Variables
      BY LenProperties, ElementOfSeq
    <3> QED
      BY <3>1
  <2>5. f[v] = SaidVar(v)
    OBVIOUS
  <2> HIDE DEF f
  <2>6. SelectParts(t) = [k \in DOMAIN Append(s.vars, v) |-> f[Append(s.vars, v)[k]]]
    BY <2>1, <2>2, <2>4 DEF SelectParts
  <2>7. SelectParts(s) = [k \in DOMAIN s.vars |-> f[s.vars[k]]]
    BY <1>1, <2>4 DEF SelectParts
  <2>8. SelectParts(t) = Append(SelectParts(s), SaidVar(v))
    BY <1>1, <2>3, <2>5, <2>6, <2>7, MapAppend
  <2> QED
    BY <2>2, <2>8 DEF t
<1>3. ASSUME NEW w \in {x \in Words : x.type = "TABLE"}
      PROVE  LET t == [s EXCEPT !.tables = Append(@, w.data[1])] IN
             /\ t \in Statement /\ FromParts(t) = Append(FromParts(s), <<w>>)
             /\ t.vars = s.vars /\ t.expr = s.expr /\ t.group = s.group
             /\ t.order = s.order /\ t.limit = s.limit
  <2> DEFINE n == w.data[1]
             t == [s EXCEPT !.tables = Append(@, n)]
             f == [u \in TableNames |-> <<[type |-> "TABLE", data |-> <<u>>]>>]
  <2>1. n \in TableNames /\ Append(s.tables, n) \in Seq(TableNames)
    BY <1>1, AppendProperties DEF TableNames
  <2>2. /\ t \in Statement /\ t.tables = Append(s.tables, n)
        /\ t.vars = s.vars /\ t.expr = s.expr /\ t.group = s.group
        /\ t.order = s.order /\ t.limit = s.limit
    BY <2>1 DEF Statement
  <2> HIDE DEF t
  <2>3. f \in [TableNames -> Text] /\ f[n] = <<w>>
    <3>1. \A u \in TableNames : [type |-> "TABLE", data |-> <<u>>] \in Words
      BY WordsAreTokens DEF TableNames
    <3>2. w = [type |-> "TABLE", data |-> <<n>>]
      BY WordsAreTokens
    <3> QED
      BY <2>1, <3>1, <3>2 DEF Text
  <2>4. ASSUME NEW q \in Seq(TableNames)
        PROVE  [k \in DOMAIN q |-> <<[type |-> "TABLE", data |-> <<q[k]>>]>>]
                 = [k \in DOMAIN q |-> f[q[k]]]
    <3>1. \A k \in DOMAIN q : q[k] \in TableNames
      BY LenProperties, ElementOfSeq
    <3> QED
      BY <3>1
  <2> HIDE DEF f, n
  <2>6. FromParts(t) = [k \in DOMAIN Append(s.tables, n) |-> f[Append(s.tables, n)[k]]]
    BY <2>1, <2>2, <2>4 DEF FromParts
  <2>7. FromParts(s) = [k \in DOMAIN s.tables |-> f[s.tables[k]]]
    BY <1>1, <2>4 DEF FromParts
  <2>8. FromParts(t) = Append(FromParts(s), <<w>>)
    BY <1>1, <2>1, <2>3, <2>6, <2>7, MapAppend
  <2> QED
    BY <2>2, <2>8 DEF t, n
<1>4. ASSUME NEW x \in Words, NEW y \in Words, NEW op \in Comparisons
      PROVE  LET t == [s EXCEPT !.expr = Append(@, [x |-> x, op |-> op, y |-> y])] IN
             /\ t \in Statement /\ WhereParts(t) = Append(WhereParts(s), <<x, Keyword(op), y>>)
             /\ t.vars = s.vars /\ t.tables = s.tables /\ t.group = s.group
             /\ t.order = s.order /\ t.limit = s.limit
  <2> DEFINE e == [x |-> x, op |-> op, y |-> y]
             t == [s EXCEPT !.expr = Append(@, e)]
             f == [u \in Exprs3 |-> <<u.x, Keyword(u.op), u.y>>]
  <2>1. e \in Exprs3 /\ Append(s.expr, e) \in Seq(Exprs3)
    BY <1>1, AppendProperties
  <2>2. /\ t \in Statement /\ t.expr = Append(s.expr, e)
        /\ t.vars = s.vars /\ t.tables = s.tables /\ t.group = s.group
        /\ t.order = s.order /\ t.limit = s.limit
    BY <2>1 DEF Statement
  <2> HIDE DEF t
  <2>3. f \in [Exprs3 -> Text] /\ f[e] = <<x, Keyword(op), y>>
    <3>1. \A c \in Comparisons : Keyword(c) \in Words
      BY SignsAreWords DEF Signs
    <3>2. \A u \in Exprs3 : <<u.x, Keyword(u.op), u.y>> \in Text
      BY <3>1 DEF Text
    <3> QED
      BY <2>1, <3>2
  <2>4. ASSUME NEW q \in Seq(Exprs3)
        PROVE  [k \in DOMAIN q |-> <<q[k].x, Keyword(q[k].op), q[k].y>>]
                 = [k \in DOMAIN q |-> f[q[k]]]
    <3>1. \A k \in DOMAIN q : q[k] \in Exprs3
      BY LenProperties, ElementOfSeq
    <3> QED
      BY <3>1
  <2> HIDE DEF f, e
  <2>6. WhereParts(t) = [k \in DOMAIN Append(s.expr, e) |-> f[Append(s.expr, e)[k]]]
    BY <2>1, <2>2, <2>4 DEF WhereParts
  <2>7. WhereParts(s) = [k \in DOMAIN s.expr |-> f[s.expr[k]]]
    BY <1>1, <2>4 DEF WhereParts
  <2>8. WhereParts(t) = Append(WhereParts(s), <<x, Keyword(op), y>>)
    BY <1>1, <2>1, <2>3, <2>6, <2>7, MapAppend
  <2> QED
    BY <2>2, <2>8 DEF t, e
<1> QED
  BY <1>2, <1>3, <1>4

-----------------------------------------------------------------------------
\* Reading on.

LEMMA Advances ==
  ASSUME Typed, NEW p \in Text, Parsed(p), NEW w \in Text, Len(w) <= Len(tokens),
         \A i \in 1..Len(w) : tokens[i] = w[i]
  PROVE  /\ SubSeq(tokens, Len(w) + 1, Len(tokens)) \in Text
         /\ query = (p \o w) \o SubSeq(tokens, Len(w) + 1, Len(tokens))
         /\ p \o w \in Text
<1>1. PICK rest \in Text : /\ rest = SubSeq(tokens, Len(w) + 1, Len(tokens))
                           /\ tokens = w \o rest
  BY Begins DEF Typed
<1>2. query = p \o (w \o rest)
  BY <1>1 DEF Parsed
<1>3. (p \o w) \o rest = p \o (w \o rest)
  BY TextsAssociate
<1> QED
  BY <1>1, <1>2, <1>3, TextsJoin

LEMMA NothingRead ==
  ASSUME tokens \in Text
  PROVE  SubSeq(tokens, 0 + 1, Len(tokens)) = tokens
BY SubSeqFull DEF Text

\* The word at a place whose type is one of a sign.
LEMMA SignAt ==
  ASSUME tokens \in Text, NEW i \in Nat \ {0}, TypeAt(i) \in Signs
  PROVE  tokens[i] = Keyword(TypeAt(i)) /\ i <= Len(tokens)
<1>1. TypeAt(i) # "NONE"
  BY DEF Signs, Aggregates, Comparisons
<1>2. Len(tokens) \in Nat
  BY LenProperties DEF Text
<1> QED
  BY <1>1, <1>2, TypeAtIs, WordsAreTokens

\* The last word ahead is the last of the query.
LEMMA LastWord ==
  ASSUME Typed, NEW p \in Text, Parsed(p), tokens # <<>>
  PROVE  query[Len(query)] = tokens[Len(tokens)]
<1>1. Len(tokens) \in Nat \ {0} /\ Len(p) \in Nat
  BY EmptySeq, LenProperties DEF Typed, Text
<1>2. Len(query) = Len(p) + Len(tokens)
  BY ConcatProperties DEF Typed, Text, Parsed
<1>3. query[Len(p) + Len(tokens)] =
        IF Len(p) + Len(tokens) <= Len(p) THEN p[Len(p) + Len(tokens)]
        ELSE tokens[Len(p) + Len(tokens) - Len(p)]
  BY <1>1, ConcatProperties DEF Typed, Text, Parsed
<1> QED
  BY <1>1, <1>2, <1>3

-----------------------------------------------------------------------------
\* The steps of the parser.

Cut ==
  \/ query = <<>>
  \/ query[Len(query)].type \in {"GROUP", "ORDER", "BY", "LIMIT"}
  \/ \E i \in DOMAIN query : NoColumn(query[i])
ParsedRight == Typed /\ SaidSoFar /\ Ahead

LEMMA ParserStops ==
  ASSUME Typed, at' \in {"rejected", "faulted"}, UNCHANGED <<query, tokens, stm>>
  PROVE  ParsedRight'
BY DEF Typed, ParsedRight, SaidSoFar, Ahead

\* A variable ahead that faults is one of the query's.
LEMMA CutVariables ==
  ASSUME Typed, NEW p \in Text, Parsed(p), NEW i \in Nat \ {0}, ColumnFaults(i)
  PROVE  Cut
<1>1. /\ Len(tokens) \in Nat /\ Len(p) \in Nat
      /\ Len(query) = Len(p) + Len(tokens) /\ DOMAIN query = 1..Len(query)
  BY ConcatProperties, LenProperties DEF Typed, Text, Parsed
<1>2. PICK j \in Nat \ {0} : j <= Len(tokens) /\ NoColumn(tokens[j])
  <2>1. CASE TypeAt(i) = "VAR"
    BY <1>1, <2>1, TypeAtIs DEF ColumnFaults, VarToken, Typed
  <2>2. CASE TypeAt(i) # "VAR"
    <3>1. TypeAt(i + 2) = "VAR" /\ NoColumn(tokens[i + 2]) /\ i + 2 \in Nat \ {0}
      BY <2>2 DEF ColumnFaults, VarLength, VarToken
    <3> QED
      BY <1>1, <3>1, TypeAtIs DEF Typed
  <2> QED
    BY <2>1, <2>2
<1>3. /\ Len(p) + j \in 1..(Len(p) + Len(tokens)) /\ ~(Len(p) + j <= Len(p))
      /\ Len(p) + j - Len(p) = j
  BY <1>1, <1>2
<1>4. query[Len(p) + j] = tokens[j]
  BY <1>1, <1>3, ConcatProperties DEF Typed, Text, Parsed
<1> QED
  BY <1>1, <1>2, <1>3, <1>4 DEF Cut

LEMMA ParseStatementStep ==
  ASSUME ParsedRight, ParseStatement
  PROVE  ParsedRight' /\ (at' = "faulted" => Cut)
<1>1. Typed /\ at = "statement" /\ query = tokens /\ stm = EmptyStatement
  BY DEF ParseStatement, ParsedRight, SaidSoFar
<1>2. CASE TypeAt(1) = "NONE" /\ Fault
  <2>1. Len(tokens) = 0
    BY <1>1, <1>2, TypeAtIs, LenProperties DEF Typed, Text
  <2>2. query = <<>>
    BY <1>1, <2>1, EmptySeq DEF Typed, Text
  <2> QED
    BY <1>1, <1>2, <2>2, ParserStops DEF Fault, Cut
<1>3. CASE TypeAt(1) = "SELECT" /\ Accept(1, "vars", stm)
  <2> DEFINE w == <<Keyword("SELECT")>>
  <2>1. tokens[1] = Keyword("SELECT") /\ 1 <= Len(tokens)
    BY <1>1, <1>3, SignAt DEF Signs, Typed
  <2>2. w \in Text /\ Len(w) = 1 /\ Heading(<<"SELECT">>) = w
    BY Headings DEF Signs
  <2>3. /\ tokens' = SubSeq(tokens, Len(w) + 1, Len(tokens)) /\ stm' = stm /\ at' = "vars"
        /\ query' = query
    BY <1>3, <2>2 DEF Accept
  <2>4. tokens' \in Text /\ tokens = w \o tokens'
    <3>1. Len(w) <= Len(tokens) /\ \A i \in 1..Len(w) : tokens[i] = w[i]
      BY <2>1, <2>2
    <3> QED
      BY <1>1, <2>2, <2>3, <3>1, Begins DEF Typed
  <2>5. Open(<<"SELECT">>, SelectParts(stm'), "COMMA") = w
    <3>1. SelectParts(stm') = <<>>
      BY <1>1, <2>3 DEF SelectParts, EmptyStatement
    <3> QED
      BY <2>2, <3>1, EmptyClause, TextsJoin
  <2>6. Parsed(Open(<<"SELECT">>, SelectParts(stm), "COMMA"))'
    BY <1>1, <2>3, <2>4, <2>5 DEF Parsed
  <2>7. Ahead' /\ Typed'
    BY <1>1, <2>3, <2>4 DEF Ahead, Typed, EmptyStatement
  <2> QED
    BY <2>3, <2>6, <2>7 DEF ParsedRight, SaidSoFar
<1>4. CASE TypeAt(1) \notin {"NONE", "SELECT"} /\ Reject
  BY <1>1, <1>4, ParserStops DEF Reject
<1> QED
  BY <1>2, <1>3, <1>4 DEF ParseStatement

LEMMA ParseVarListStep ==
  ASSUME ParsedRight, ParseVarList
  PROVE  ParsedRight' /\ (at' = "faulted" => Cut)
<1> DEFINE n == VarLength(1)
           last == TypeAt(n + 1)
           v == VarAt(1)
           p == Open(<<"SELECT">>, SelectParts(stm), "COMMA")
           said == SaidVar(v)
           k == <<Keyword(last)>>
           w == said \o k
<1>1. Typed /\ at = "vars" /\ Parsed(p) /\ Ahead
  BY DEF ParseVarList, ParsedRight, SaidSoFar
<1>2. CASE ~(n > 0 /\ last \in {"COMMA", "FROM"})
  <2>1. Reject
    BY <1>2 DEF ParseVarList
  <2> QED
    BY <1>1, <2>1, ParserStops DEF Reject
<1>4. CASE n > 0 /\ last \in {"COMMA", "FROM"} /\ ColumnFaults(1)
  <2>1. Fault
    BY <1>4 DEF ParseVarList
  <2>2. p \in Text
    <3>1. SelectParts(stm) \in Seq(Text) /\ "COMMA" \in Signs /\ <<"SELECT">> \in Seq(Signs)
      BY <1>1, PartsTyped DEF Typed, Signs
    <3> QED
      BY <3>1, OpenMore, EmptySeq DEF Text
  <2> QED
    BY <1>1, <1>4, <2>1, <2>2, CutVariables, ParserStops DEF Fault
<1>3. CASE n > 0 /\ last \in {"COMMA", "FROM"} /\ ~ColumnFaults(1)
  <2>1. Accept(n + 1, IF last = "COMMA" THEN "vars" ELSE "tables",
               [stm EXCEPT !.vars = Append(@, v)])
    BY <1>3 DEF ParseVarList
  <2>2. /\ n \in Nat \ {0} /\ n <= Len(tokens) /\ v \in Variables
        /\ said \in Text /\ Len(said) = n /\ \A j \in 1..n : said[j] = tokens[j]
    <3>1. /\ n \in Nat /\ 1 + n - 1 <= Len(tokens) /\ v \in Variables
          /\ said \in Text /\ Len(said) = n /\ \A j \in 1..n : said[j] = tokens[1 + j - 1]
      BY <1>1, <1>3, VarAhead DEF Typed
    <3>2. \A j \in 1..n : 1 + j - 1 = j
      BY <3>1
    <3> QED
      BY <1>3, <3>1, <3>2
  <2>3. k \in Text /\ Len(k) = 1 /\ k[1] = Keyword(last) /\ k = Heading(<<last>>) /\ last \in Signs
    BY <1>3, Headings DEF Signs
  <2>4. tokens[n + 1] = Keyword(last) /\ n + 1 <= Len(tokens)
    BY <1>1, <2>2, <2>3, SignAt DEF Typed
  <2> HIDE DEF n, last, v, said, k
  <2>5. w \in Text /\ Len(w) = n + 1 /\ \A j \in 1..(n + 1) : w[j] = tokens[j]
    <3>1. /\ w \in Text /\ Len(w) = n + 1
          /\ \A j \in 1..(n + 1) : w[j] = IF j <= n THEN said[j] ELSE k[j - n]
      <4>1. /\ w \in Text /\ Len(w) = Len(said) + Len(k)
            /\ \A j \in 1..Len(said) + Len(k) :
                 w[j] = IF j <= Len(said) THEN said[j] ELSE k[j - Len(said)]
        BY <2>2, <2>3, ConcatProperties DEF Text
      <4> QED
        BY <2>2, <2>3, <4>1
    <3>2. \A j \in 1..(n + 1) : IF j <= n THEN j \in 1..n ELSE j = n + 1 /\ j - n = 1
      BY <2>2
    <3> QED
      BY <2>2, <2>3, <2>4, <3>1, <3>2
  <2>6. /\ stm \in Statement /\ stm' \in Statement
        /\ SelectParts(stm') = Append(SelectParts(stm), said)
        /\ stm'.tables = stm.tables /\ stm'.expr = stm.expr /\ stm'.group = stm.group
        /\ stm'.order = stm.order /\ stm'.limit = stm.limit
    BY <1>1, <2>1, <2>2, StatementMore DEF Accept, Typed, said
  <2>7. /\ p \in Text /\ Select(stm') \in Text /\ p \o said = Select(stm')
        /\ (p \o said) \o <<Keyword("COMMA")>> = Open(<<"SELECT">>, SelectParts(stm'), "COMMA")
    <3>1. SelectParts(stm) \in Seq(Text) /\ <<"SELECT">> \in Seq(Signs) /\ "COMMA" \in Signs
      BY <2>6, PartsTyped DEF Signs
    <3>2. Select(stm') = Clause(<<"SELECT">>, Append(SelectParts(stm), said), "COMMA")
      BY <2>6 DEF Select
    <3>3. /\ p \in Text /\ Clause(<<"SELECT">>, Append(SelectParts(stm), said), "COMMA") \in Text
          /\ p \o said = Clause(<<"SELECT">>, Append(SelectParts(stm), said), "COMMA")
          /\ (p \o said) \o <<Keyword("COMMA")>>
               = Open(<<"SELECT">>, Append(SelectParts(stm), said), "COMMA")
      BY <2>2, <3>1, OpenMore
    <3> QED
      BY <2>6, <3>2, <3>3
  <2>8. /\ tokens' = SubSeq(tokens, Len(w) + 1, Len(tokens)) /\ query' = query
        /\ at' = IF last = "COMMA" THEN "vars" ELSE "tables"
    BY <2>1, <2>5 DEF Accept
  <2>9. tokens' \in Text /\ query' = (p \o w) \o tokens'
    <3>1. Len(w) <= Len(tokens) /\ \A j \in 1..Len(w) : tokens[j] = w[j]
      BY <2>4, <2>5
    <3> QED
      BY <1>1, <2>5, <2>7, <2>8, <3>1, Advances
  <2>10. p \o w = (p \o said) \o k
    BY <2>2, <2>3, <2>7, TextsAssociate
  <2>11. Typed' /\ Ahead'
    BY <1>1, <2>6, <2>8, <2>9 DEF Typed, Ahead
  <2>12. CASE last = "COMMA"
    <3>1. query' = Open(<<"SELECT">>, SelectParts(stm'), "COMMA") \o tokens'
      BY <2>7, <2>9, <2>10, <2>12 DEF k
    <3> QED
      BY <2>8, <2>11, <2>12, <3>1 DEF ParsedRight, SaidSoFar, Parsed
  <2>13. CASE last = "FROM"
    <3>1. FromParts(stm') = <<>>
      BY <1>1, <2>6 DEF Ahead, FromParts
    <3>2. Open(<<"FROM">>, FromParts(stm'), "COMMA") = k
      BY <2>3, <2>13, <3>1, EmptyClause, TextsJoin
    <3>3. query' = (Select(stm') \o Open(<<"FROM">>, FromParts(stm'), "COMMA")) \o tokens'
      BY <2>7, <2>9, <2>10, <3>2
    <3> QED
      BY <2>8, <2>11, <2>13, <3>3 DEF ParsedRight, SaidSoFar, Parsed
  <2> QED
    BY <1>3, <2>12, <2>13 DEF last
<1> QED
  BY <1>2, <1>3, <1>4

\* One word more.
LEMMA WordMore ==
  ASSUME NEW u \in Text, NEW x \in Words
  PROVE  /\ u \o <<x>> \in Text /\ Len(u \o <<x>>) = Len(u) + 1
         /\ \A i \in 1..Len(u) : (u \o <<x>>)[i] = u[i]
         /\ (u \o <<x>>)[Len(u) + 1] = x
<1>1. PICK k \in Text : k = <<x>>
  <2>1. <<x>> \in Text
    BY DEF Text
  <2> QED
    BY <2>1
<1>2. Len(k) = 1 /\ k[1] = x /\ Len(u) \in Nat
  BY <1>1, LenProperties DEF Text
<1>3. PICK z : z = u \o k
  OBVIOUS
<1>4. /\ z \in Text /\ Len(z) = Len(u) + Len(k)
      /\ \A i \in 1..Len(u) + Len(k) : z[i] = IF i <= Len(u) THEN u[i] ELSE k[i - Len(u)]
  BY <1>3, ConcatProperties DEF Text
<1>5. \A i \in 1..Len(u) : z[i] = u[i]
  BY <1>2, <1>4
<1>6. z[Len(u) + 1] = x
  BY <1>2, <1>4
<1> QED
  BY <1>1, <1>2, <1>3, <1>4, <1>5, <1>6

\* A part more after the clauses before.
LEMMA ClauseMore ==
  ASSUME NEW p \in Text, NEW types \in Seq(Signs), NEW parts \in Seq(Text), NEW said \in Text,
         NEW between \in Signs
  PROVE  /\ p \o Open(types, parts, between) \in Text
         /\ (p \o Open(types, parts, between)) \o said
              = p \o Clause(types, Append(parts, said), between)
         /\ (p \o Open(types, parts, between)) \o (said \o <<Keyword(between)>>)
              = p \o Open(types, Append(parts, said), between)
<1>1. PICK o \in Text : /\ o = Open(types, parts, between)
                        /\ o \o said = Clause(types, Append(parts, said), between)
                        /\ (o \o said) \o <<Keyword(between)>> = Open(types, Append(parts, said), between)
  BY OpenMore
<1>2. PICK k \in Text : k = <<Keyword(between)>>
  <2>1. <<Keyword(between)>> \in Text
    BY SignsAreWords DEF Text
  <2> QED
    BY <2>1
<1>3. (p \o o) \o said = p \o (o \o said)
  BY TextsAssociate
<1>4. PICK z \in Text : z = said \o k
  BY TextsJoin
<1>5. (p \o o) \o z = p \o (o \o z)
  BY TextsAssociate
<1>6. o \o z = (o \o said) \o k
  BY <1>4, TextsAssociate
<1>7. p \o o \in Text
  BY TextsJoin
<1> QED
  BY <1>1, <1>2, <1>3, <1>4, <1>5, <1>6, <1>7

\* A clause of one part.
LEMMA ClauseOfOne ==
  ASSUME NEW types \in Seq(Signs), NEW said \in Text
  PROVE  Clause(types, <<said>>, "COMMA") = Heading(types) \o said
<1>1. "COMMA" \in Signs /\ <<>> \in Seq(Text) /\ Append(<<>>, said) = <<said>>
  BY EmptySeq DEF Signs
<1>2. Open(types, <<>>, "COMMA") \o said = Clause(types, <<said>>, "COMMA")
  <2>1. PICK parts \in Seq(Text) : parts = <<>> /\ Append(parts, said) = <<said>>
    BY <1>1
  <2>2. Open(types, parts, "COMMA") \o said = Clause(types, Append(parts, said), "COMMA")
    BY <1>1, OpenMore
  <2> QED
    BY <2>1, <2>2
<1>3. Heading(types) \in Text
  <2>1. DOMAIN types = 1..Len(types) /\ Len(types) \in Nat /\ \A i \in 1..Len(types) : types[i] \in Signs
    BY LenProperties, ElementOfSeq
  <2>2. \A i \in 1..Len(types) : Keyword(types[i]) \in Words
    BY <2>1, SignsAreWords
  <2> QED
    BY <2>1, <2>2 DEF Heading, Text
<1>4. Open(types, <<>>, "COMMA") = Heading(types)
  BY <1>3, EmptyClause, TextsJoin
<1> QED
  BY <1>2, <1>4

\* Clauses are of their parts of the statement alone.
LEMMA SameClauses ==
  ASSUME NEW s, NEW t
  PROVE  /\ t.vars = s.vars => Select(t) = Select(s)
         /\ t.vars = s.vars /\ t.tables = s.tables => SelectFrom(t) = SelectFrom(s)
         /\ t.vars = s.vars /\ t.tables = s.tables /\ t.expr = s.expr => SelectWhere(t) = SelectWhere(s)
         /\ t.vars = s.vars /\ t.tables = s.tables /\ t.expr = s.expr /\ t.group = s.group
              => SelectGroup(t) = SelectGroup(s)
         /\ t.vars = s.vars /\ t.tables = s.tables /\ t.expr = s.expr /\ t.group = s.group
              /\ t.order = s.order => SelectOrder(t) = SelectOrder(s) /\ Directions(t) = Directions(s)
BY DEF Select, SelectFrom, SelectWhere, SelectGroup, SelectOrder, SelectParts, FromParts, WhereParts,
       GroupParts, OrderParts, Directions

\* Words of a known length, read off the tokens.
LEMMA Reads ==
  ASSUME Typed, NEW p \in Text, Parsed(p), NEW w \in Text, NEW n \in Nat, Len(w) = n,
         n <= Len(tokens), \A i \in 1..n : tokens[i] = w[i],
         tokens' = SubSeq(tokens, n + 1, Len(tokens)), query' = query, stm' \in Statement
  PROVE  Typed' /\ query' = (p \o w) \o tokens'
<1>1. tokens' = SubSeq(tokens, Len(w) + 1, Len(tokens))
  OBVIOUS
<1>2. tokens' \in Text /\ query' = (p \o w) \o tokens'
  BY <1>1, Advances
<1> QED
  BY <1>2 DEF Typed

LEMMA ParseTableListStep ==
  ASSUME ParsedRight, ParseTableList
  PROVE  ParsedRight' /\ at' # "faulted"
<1> DEFINE last == TypeAt(2)
           said == <<tokens[1]>>
           p == Select(stm)
           o == Open(<<"FROM">>, FromParts(stm), "COMMA")
           s == [stm EXCEPT !.tables = Append(@, tokens[1].data[1])]
<1>1. Typed /\ at = "tables" /\ Parsed(p \o o) /\ Ahead
  BY DEF ParseTableList, ParsedRight, SaidSoFar
<1>2. CASE ~(TypeAt(1) = "TABLE" /\ last \in {"COMMA", "WHERE", "GROUP", "ORDER", "LIMIT", "NONE"})
  <2>1. Reject
    BY <1>2 DEF ParseTableList
  <2> QED
    BY <1>1, <2>1, ParserStops DEF Reject
<1>3. CASE TypeAt(1) = "TABLE" /\ last \in {"COMMA", "WHERE", "GROUP", "ORDER", "LIMIT", "NONE"}
  <2>1. Accept(IF last = "COMMA" THEN 2 ELSE 1, IF last = "COMMA" THEN "tables" ELSE "where", s)
    BY <1>3 DEF ParseTableList
  <2>2. tokens[1] \in Words /\ tokens[1].type = "TABLE" /\ 1 <= Len(tokens) /\ Len(tokens) \in Nat
    BY <1>1, <1>3, TypeAtIs, LenProperties DEF Typed, Text
  <2>3. said \in Text /\ Len(said) = 1 /\ said[1] = tokens[1]
    BY <2>2 DEF Text
  <2>4. /\ stm \in Statement /\ s \in Statement /\ FromParts(s) = Append(FromParts(stm), said)
        /\ s.vars = stm.vars /\ s.expr = stm.expr /\ s.group = stm.group
        /\ s.order = stm.order /\ s.limit = stm.limit
    BY <1>1, <2>2, StatementMore DEF Typed
  <2> HIDE DEF last, said, s
  <2>5. /\ p \in Text /\ FromParts(stm) \in Seq(Text) /\ <<"FROM">> \in Seq(Signs) /\ "COMMA" \in Signs
        /\ Select(s) = p
    <3>1. p \in Text /\ FromParts(stm) \in Seq(Text)
      BY <2>4, ClausesTyped, PartsTyped
    <3>2. Select(s) = p
      BY <2>4, SameClauses
    <3> QED
      BY <3>1, <3>2 DEF Signs
  <2> HIDE DEF p
  <2>6. /\ p \o o \in Text
        /\ (p \o o) \o said = p \o Clause(<<"FROM">>, FromParts(s), "COMMA")
        /\ (p \o o) \o (said \o <<Keyword("COMMA")>>) = p \o Open(<<"FROM">>, FromParts(s), "COMMA")
    <3>1. PICK types \in Seq(Signs), parts \in Seq(Text), between \in Signs :
             types = <<"FROM">> /\ parts = FromParts(stm) /\ between = "COMMA"
      BY <2>5
    <3>2. /\ p \o Open(types, parts, between) \in Text
          /\ (p \o Open(types, parts, between)) \o said = p \o Clause(types, Append(parts, said), between)
          /\ (p \o Open(types, parts, between)) \o (said \o <<Keyword(between)>>)
               = p \o Open(types, Append(parts, said), between)
      <4>1. PICK a \in Text, b \in Text : a = p /\ b = said
        BY <2>3, <2>5
      <4>2. /\ a \o Open(types, parts, between) \in Text
            /\ (a \o Open(types, parts, between)) \o b = a \o Clause(types, Append(parts, b), between)
            /\ (a \o Open(types, parts, between)) \o (b \o <<Keyword(between)>>)
                 = a \o Open(types, Append(parts, b), between)
        BY ClauseMore
      <4> QED
        BY <4>1, <4>2
    <3> QED
      BY <2>4, <3>1, <3>2
  <2> HIDE DEF o
  <2>9. PICK begun \in Text : begun = p \o o /\ Parsed(begun)
    BY <1>1, <2>6
  <2>7. CASE last = "COMMA"
    <3> DEFINE w == said \o <<Keyword("COMMA")>>
    <3>1. tokens[2] = Keyword("COMMA") /\ 2 <= Len(tokens)
      BY <1>1, <2>7, SignAt DEF Typed, Signs, last
    <3>2. /\ w \in Text /\ Len(w) = 2 /\ \A i \in 1..1 : w[i] = said[i]
          /\ w[2] = Keyword("COMMA")
      <4>1. Keyword("COMMA") \in Words
        BY SignsAreWords DEF Signs
      <4> HIDE DEF w
      <4>2. /\ w \in Text /\ Len(w) = Len(said) + 1 /\ \A i \in 1..Len(said) : w[i] = said[i]
            /\ w[Len(said) + 1] = Keyword("COMMA")
        BY <2>3, <4>1, WordMore DEF w
      <4> QED
        BY <2>3, <4>2
    <3>3. \A i \in 1..2 : tokens[i] = w[i]
      <4>1. (\A i \in 1..2 : i = 2 \/ i = 1) /\ 1 \in 1..1
        OBVIOUS
      <4> HIDE DEF w
      <4> QED
        BY <2>3, <3>1, <3>2, <4>1
    <3>4. Accept(2, "tables", s)
      BY <2>1, <2>7
    <3> HIDE DEF w
    <3>5. Typed' /\ at' = "tables" /\ stm' = s /\ query' = (begun \o w) \o tokens'
      BY <1>1, <2>4, <2>9, <3>1, <3>2, <3>3, <3>4, Reads DEF Accept
    <3>6. query' = (Select(stm') \o Open(<<"FROM">>, FromParts(stm'), "COMMA")) \o tokens'
      BY <2>5, <2>6, <2>9, <3>5 DEF Parsed, w
    <3>7. Ahead'
      BY <1>1, <2>4, <3>5 DEF Ahead
    <3> QED
      BY <3>5, <3>6, <3>7 DEF ParsedRight, SaidSoFar, Parsed
  <2>8. CASE last # "COMMA"
    <3>1. Accept(1, "where", s)
      BY <2>1, <2>8
    <3>2. \A i \in 1..1 : tokens[i] = said[i]
      BY <2>3
    <3>3. Typed' /\ at' = "where" /\ stm' = s /\ query' = (begun \o said) \o tokens'
      BY <1>1, <2>2, <2>3, <2>4, <2>9, <3>1, <3>2, Reads DEF Accept
    <3>4. query' = SelectFrom(stm') \o tokens'
      BY <2>5, <2>6, <2>9, <3>3 DEF Parsed, SelectFrom
    <3>5. Ahead'
      BY <1>1, <2>4, <3>3 DEF Ahead
    <3> QED
      BY <3>3, <3>4, <3>5 DEF ParsedRight, SaidSoFar, Parsed
  <2> QED
    BY <2>7, <2>8
<1> QED
  BY <1>2, <1>3

LEMMA ParseWhereClauseStep ==
  ASSUME ParsedRight, ParseWhereClause
  PROVE  ParsedRight' /\ at' # "faulted"
<1>1. Typed /\ at = "where" /\ Parsed(SelectFrom(stm)) /\ Ahead /\ stm \in Statement
  BY DEF ParseWhereClause, ParsedRight, SaidSoFar, Typed
<1>2. SelectFrom(stm) \in Text /\ stm.expr = <<>> /\ WhereParts(stm) = <<>> /\ SelectWhere(stm) = SelectFrom(stm)
  BY <1>1, ClausesTyped DEF Ahead
<1>3. CASE TypeAt(1) = "WHERE"
  <2> DEFINE w == <<Keyword("WHERE")>>
  <2>1. tokens[1] = Keyword("WHERE") /\ 1 <= Len(tokens)
    BY <1>1, <1>3, SignAt DEF Signs, Typed
  <2>2. w \in Text /\ Len(w) = 1 /\ Heading(<<"WHERE">>) = w
    BY Headings DEF Signs
  <2>3. Accept(1, "expr", stm)
    BY <1>3 DEF ParseWhereClause
  <2>4. \A i \in 1..1 : tokens[i] = w[i]
    BY <2>1
  <2>5. Open(<<"WHERE">>, WhereParts(stm), "AND") = w
    BY <1>2, <2>2, EmptyClause, TextsJoin
  <2> HIDE DEF w
  <2>6. Typed' /\ at' = "expr" /\ stm' = stm /\ query' = (SelectFrom(stm) \o w) \o tokens'
    BY <1>1, <1>2, <2>1, <2>2, <2>3, <2>4, Reads DEF Accept
  <2>7. query' = (SelectFrom(stm') \o Open(<<"WHERE">>, WhereParts(stm'), "AND")) \o tokens'
    BY <2>5, <2>6 DEF Parsed
  <2>8. Ahead'
    BY <1>1, <2>6 DEF Ahead
  <2> QED
    BY <2>6, <2>7, <2>8 DEF ParsedRight, SaidSoFar, Parsed
<1>4. CASE TypeAt(1) # "WHERE"
  <2>1. Accept(0, "group", stm)
    BY <1>4 DEF ParseWhereClause
  <2>2. tokens' = tokens /\ stm' = stm /\ query' = query /\ at' = "group"
    BY <1>1, <2>1, NothingRead DEF Accept, Typed
  <2>3. query' = SelectWhere(stm') \o tokens'
    BY <1>1, <1>2, <2>2 DEF Parsed
  <2> QED
    BY <1>1, <2>2, <2>3 DEF ParsedRight, SaidSoFar, Parsed, Ahead, Typed
<1> QED
  BY <1>3, <1>4

LEMMA ParseExprStep ==
  ASSUME ParsedRight, ParseExpr
  PROVE  ParsedRight' /\ (at' = "faulted" => Cut)
<1> DEFINE last == TypeAt(4)
           said == <<tokens[1], tokens[2], tokens[3]>>
           p == SelectFrom(stm)
           o == Open(<<"WHERE">>, WhereParts(stm), "AND")
           s == [stm EXCEPT !.expr = Append(@, [x |-> tokens[1], op |-> TypeAt(2), y |-> tokens[3]])]
           compares == TypeAt(1) \in Operands /\ TypeAt(2) \in Comparisons /\ TypeAt(3) \in Operands
           faults == ColumnFaults(1) \/ ColumnFaults(3)
           fits == compares /\ ~faults /\ last \in {"AND", "GROUP", "ORDER", "LIMIT", "NONE"}
<1>1. Typed /\ at = "expr" /\ Parsed(p \o o) /\ Ahead
  BY DEF ParseExpr, ParsedRight, SaidSoFar
<1>2. CASE ~compares \/ (~faults /\ ~fits)
  <2>1. Reject
    BY <1>2 DEF ParseExpr
  <2> QED
    BY <1>1, <2>1, ParserStops DEF Reject
<1>4. CASE compares /\ faults
  <2>1. Fault
    BY <1>4 DEF ParseExpr
  <2>2. p \o o \in Text
    <3>1. p \in Text /\ WhereParts(stm) \in Seq(Text) /\ "AND" \in Signs /\ <<"WHERE">> \in Seq(Signs)
      BY <1>1, ClausesTyped, PartsTyped DEF Typed, Signs
    <3>2. o \in Text
      BY <3>1, OpenMore, EmptySeq DEF Text
    <3> QED
      BY <3>1, <3>2, TextsJoin
  <2> QED
    BY <1>1, <1>4, <2>1, <2>2, CutVariables, ParserStops DEF Fault
<1>3. CASE fits
  <2>1. Accept(IF last = "AND" THEN 4 ELSE 3, IF last = "AND" THEN "expr" ELSE "group", s)
    BY <1>3 DEF ParseExpr
  <2>2. /\ tokens[1] \in Words /\ tokens[2] \in Words /\ tokens[3] \in Words
        /\ tokens[2] = Keyword(TypeAt(2)) /\ 3 <= Len(tokens) /\ Len(tokens) \in Nat
    <3>1. TypeAt(1) # "NONE" /\ TypeAt(3) # "NONE" /\ TypeAt(2) \in Signs
      BY <1>3 DEF Operands, Signs
    <3>2. tokens[1] \in Words
      BY <1>1, <3>1, TypeAtIs DEF Typed
    <3>3. tokens[3] \in Words /\ ~(3 > Len(tokens)) /\ Len(tokens) \in Nat
      BY <1>1, <3>1, TypeAtIs, LenProperties DEF Typed, Text
    <3>4. tokens[2] = Keyword(TypeAt(2))
      BY <1>1, <3>1, SignAt DEF Typed
    <3> QED
      BY <3>1, <3>2, <3>3, <3>4, SignsAreWords
  <2>3. said \in Text /\ Len(said) = 3 /\ \A i \in 1..3 : said[i] = tokens[i]
    <3>1. said \in Text /\ Len(said) = 3 /\ said[1] = tokens[1] /\ said[2] = tokens[2] /\ said[3] = tokens[3]
      BY <2>2 DEF Text
    <3>2. \A i \in 1..3 : i = 1 \/ i = 2 \/ i = 3
      OBVIOUS
    <3> QED
      BY <3>1, <3>2
  <2>4. /\ stm \in Statement /\ s \in Statement /\ WhereParts(s) = Append(WhereParts(stm), said)
        /\ s.vars = stm.vars /\ s.tables = stm.tables /\ s.group = stm.group
        /\ s.order = stm.order /\ s.limit = stm.limit
    <3>1. stm \in Statement /\ TypeAt(2) \in Comparisons /\ tokens[1] \in Words /\ tokens[3] \in Words
      BY <1>1, <1>3, <2>2 DEF Typed
    <3>2. said = <<tokens[1], Keyword(TypeAt(2)), tokens[3]>>
      BY <2>2
    <3> HIDE DEF said
    <3>3. /\ s \in Statement /\ WhereParts(s) = Append(WhereParts(stm), <<tokens[1], Keyword(TypeAt(2)), tokens[3]>>)
          /\ s.vars = stm.vars /\ s.tables = stm.tables /\ s.group = stm.group
          /\ s.order = stm.order /\ s.limit = stm.limit
      BY <3>1, StatementMore
    <3> QED
      BY <3>1, <3>2, <3>3
  <2> HIDE DEF last, said, s
  <2>5. /\ p \in Text /\ WhereParts(stm) \in Seq(Text) /\ <<"WHERE">> \in Seq(Signs) /\ "AND" \in Signs
        /\ SelectFrom(s) = p
    <3>1. p \in Text /\ WhereParts(stm) \in Seq(Text)
      BY <2>4, ClausesTyped, PartsTyped
    <3>2. SelectFrom(s) = p
      BY <2>4, SameClauses
    <3> QED
      BY <3>1, <3>2 DEF Signs
  <2> HIDE DEF p
  <2>6. /\ p \o o \in Text
        /\ (p \o o) \o said = p \o Clause(<<"WHERE">>, WhereParts(s), "AND")
        /\ (p \o o) \o (said \o <<Keyword("AND")>>) = p \o Open(<<"WHERE">>, WhereParts(s), "AND")
    <3>1. PICK types \in Seq(Signs), parts \in Seq(Text), between \in Signs :
             types = <<"WHERE">> /\ parts = WhereParts(stm) /\ between = "AND"
      BY <2>5
    <3>2. /\ p \o Open(types, parts, between) \in Text
          /\ (p \o Open(types, parts, between)) \o said = p \o Clause(types, Append(parts, said), between)
          /\ (p \o Open(types, parts, between)) \o (said \o <<Keyword(between)>>)
               = p \o Open(types, Append(parts, said), between)
      <4>1. PICK a \in Text, b \in Text : a = p /\ b = said
        BY <2>3, <2>5
      <4>2. /\ a \o Open(types, parts, between) \in Text
            /\ (a \o Open(types, parts, between)) \o b = a \o Clause(types, Append(parts, b), between)
            /\ (a \o Open(types, parts, between)) \o (b \o <<Keyword(between)>>)
                 = a \o Open(types, Append(parts, b), between)
        BY ClauseMore
      <4> QED
        BY <4>1, <4>2
    <3> QED
      BY <2>4, <3>1, <3>2
  <2> HIDE DEF o
  <2>9. PICK begun \in Text : begun = p \o o /\ Parsed(begun)
    BY <1>1, <2>6
  <2>7. CASE last = "AND"
    <3> DEFINE w == said \o <<Keyword("AND")>>
    <3>1. tokens[4] = Keyword("AND") /\ 4 <= Len(tokens)
      BY <1>1, <2>7, SignAt DEF Typed, Signs, last
    <3>2. /\ w \in Text /\ Len(w) = 4 /\ \A i \in 1..3 : w[i] = said[i]
          /\ w[4] = Keyword("AND")
      <4>1. Keyword("AND") \in Words
        BY SignsAreWords DEF Signs
      <4> HIDE DEF w
      <4>2. /\ w \in Text /\ Len(w) = Len(said) + 1 /\ \A i \in 1..Len(said) : w[i] = said[i]
            /\ w[Len(said) + 1] = Keyword("AND")
        BY <2>3, <4>1, WordMore DEF w
      <4> QED
        BY <2>3, <4>2
    <3>3. \A i \in 1..4 : tokens[i] = w[i]
      <4>1. \A i \in 1..4 : i = 4 \/ i \in 1..3
        OBVIOUS
      <4> QED
        BY <2>3, <3>1, <3>2, <4>1
    <3>4. Accept(4, "expr", s)
      BY <2>1, <2>7
    <3> HIDE DEF w
    <3>5. Typed' /\ at' = "expr" /\ stm' = s /\ query' = (begun \o w) \o tokens'
      BY <1>1, <2>4, <2>9, <3>1, <3>2, <3>3, <3>4, Reads DEF Accept
    <3>6. query' = (SelectFrom(stm') \o Open(<<"WHERE">>, WhereParts(stm'), "AND")) \o tokens'
      BY <2>5, <2>6, <2>9, <3>5 DEF Parsed, w
    <3>7. Ahead'
      BY <1>1, <2>4, <3>5 DEF Ahead
    <3> QED
      BY <3>5, <3>6, <3>7 DEF ParsedRight, SaidSoFar, Parsed
  <2>8. CASE last # "AND"
    <3>1. Accept(3, "group", s)
      BY <2>1, <2>8
    <3>3. Typed' /\ at' = "group" /\ stm' = s /\ query' = (begun \o said) \o tokens'
      BY <1>1, <2>2, <2>3, <2>4, <2>9, <3>1, Reads DEF Accept
    <3>4. query' = SelectWhere(stm') \o tokens'
      BY <2>5, <2>6, <2>9, <3>3 DEF Parsed, SelectWhere
    <3>5. Ahead'
      BY <1>1, <2>4, <3>3 DEF Ahead
    <3> QED
      BY <3>3, <3>4, <3>5 DEF ParsedRight, SaidSoFar, Parsed
  <2> QED
    BY <2>7, <2>8
<1> QED
  BY <1>2, <1>3, <1>4

\* GROUP BY or ORDER BY, and the variable after it.
LEMMA HeadingAhead ==
  ASSUME Typed, NEW x \in Signs, tokens[1] = Keyword(x), tokens[2] = Keyword("BY"),
         NEW said \in Text, NEW n \in Nat, Len(said) = n,
         \A j \in 1..n : said[j] = tokens[3 + j - 1]
  PROVE  /\ Heading(<<x, "BY">>) \o said \in Text /\ Len(Heading(<<x, "BY">>) \o said) = n + 2
         /\ \A i \in 1..(n + 2) : tokens[i] = (Heading(<<x, "BY">>) \o said)[i]
<1>1. PICK u \in Text : u = Heading(<<x, "BY">>) /\ Len(u) = 2 /\ u[1] = tokens[1] /\ u[2] = tokens[2]
  <2>1. "BY" \in Signs
    BY DEF Signs
  <2>2. Heading(<<x, "BY">>) = <<Keyword(x), Keyword("BY")>> /\ Heading(<<x, "BY">>) \in Text
    BY <2>1, Headings
  <2> QED
    BY <2>2
<1>2. PICK z : z = u \o said
  OBVIOUS
<1>3. /\ z \in Text /\ Len(z) = Len(u) + Len(said)
      /\ \A i \in 1..Len(u) + Len(said) : z[i] = IF i <= Len(u) THEN u[i] ELSE said[i - Len(u)]
  BY <1>2, ConcatProperties DEF Text
<1>5. Len(z) = n + 2 /\ \A i \in 1..(n + 2) : z[i] = IF i <= 2 THEN u[i] ELSE said[i - 2]
  <2>1. PICK l \in Nat : l = Len(u) /\ l = 2
    BY <1>1
  <2>2. l + n = n + 2
    BY <2>1
  <2>3. PICK m : m = Len(said) /\ m = n
    OBVIOUS
  <2>4. /\ Len(z) = l + m
        /\ \A i \in 1..l + m : z[i] = IF i <= l THEN u[i] ELSE said[i - l]
    BY <1>3, <2>1, <2>3
  <2> QED
    BY <2>1, <2>2, <2>3, <2>4
<1>4. ASSUME NEW i \in 1..(n + 2) PROVE tokens[i] = z[i]
  <2>1. z[i] = IF i <= 2 THEN u[i] ELSE said[i - 2]
    BY <1>5
  <2>2. CASE i <= 2
    <3>1. i = 1 \/ i = 2
      BY <2>2
    <3> QED
      BY <1>1, <2>1, <3>1
  <2>3. CASE i > 2
    <3>1. i - 2 \in 1..n /\ 3 + (i - 2) - 1 = i
      BY <2>3
    <3> QED
      BY <2>1, <2>3, <3>1
  <2> QED
    BY <2>2, <2>3
<1> QED
  BY <1>1, <1>2, <1>3, <1>4, <1>5

LEMMA CutQueries ==
  ASSUME Typed, NEW p \in Text, Parsed(p), TypeAt(1) \in {"GROUP", "ORDER"}, CutShort
  PROVE  Cut
<1>1. Len(tokens) \in Nat /\ 1 <= Len(tokens) /\ tokens[1].type = TypeAt(1) /\ tokens # <<>>
  BY TypeAtIs, LenProperties, EmptySeq DEF Typed, Text
<1>2. TypeAt(2) = "NONE" <=> 2 > Len(tokens)
  BY TypeAtIs DEF Typed
<1>3. TypeAt(3) = "NONE" <=> 3 > Len(tokens)
  BY TypeAtIs DEF Typed
<1>4. query[Len(query)] = tokens[Len(tokens)]
  BY <1>1, LastWord
<1>5. CASE TypeAt(2) = "NONE"
  <2>1. Len(tokens) = 1
    BY <1>1, <1>2, <1>5
  <2> QED
    BY <1>1, <1>4, <2>1 DEF Cut
<1>6. CASE TypeAt(2) # "NONE"
  <2>1. TypeAt(2) = "BY" /\ TypeAt(3) = "NONE"
    BY <1>6 DEF CutShort
  <2>2. Len(tokens) = 2
    <3>1. PICK l \in Nat : l = Len(tokens)
      BY <1>1
    <3>2. ~(2 > l) /\ 3 > l
      BY <1>2, <1>3, <1>6, <2>1, <3>1
    <3>3. l = 2
      BY <3>2
    <3> QED
      BY <3>1, <3>3
  <2>3. tokens[2].type = "BY"
    BY <2>1, TypeAtIs DEF Typed
  <2> QED
    BY <1>4, <2>2, <2>3 DEF Cut
<1> QED
  BY <1>5, <1>6

LEMMA ParseGroupClauseStep ==
  ASSUME ParsedRight, ParseGroupClause
  PROVE  ParsedRight' /\ (at' = "faulted" => Cut)
<1>1. Typed /\ at = "group" /\ Parsed(SelectWhere(stm)) /\ Ahead /\ stm \in Statement
  BY DEF ParseGroupClause, ParsedRight, SaidSoFar, Typed
<1>2. SelectWhere(stm) \in Text /\ SelectGroup(stm) = SelectWhere(stm)
  BY <1>1, ClausesTyped DEF Ahead
<1>3. CASE TypeAt(1) # "GROUP" /\ Accept(0, "order", stm)
  <2>1. tokens' = tokens /\ stm' = stm /\ query' = query /\ at' = "order"
    BY <1>1, <1>3, NothingRead DEF Accept, Typed
  <2>2. query' = SelectGroup(stm') \o tokens'
    BY <1>1, <1>2, <2>1 DEF Parsed
  <2> QED
    BY <1>1, <2>1, <2>2 DEF ParsedRight, SaidSoFar, Parsed, Ahead, Typed
<1>4. CASE TypeAt(1) = "GROUP" /\ (CutShort \/ ColumnFaults(3)) /\ Fault
  <2>1. Cut
    BY <1>1, <1>2, <1>4, CutQueries, CutVariables
  <2> QED
    BY <1>1, <1>4, <2>1, ParserStops DEF Fault
<1>5. CASE /\ TypeAt(1) = "GROUP" /\ TypeAt(2) = "BY" /\ TypeAt(3) = "VAR" /\ ~ColumnFaults(3)
           /\ Accept(3, "order", [stm EXCEPT !.group = <<VarAt(3)>>])
  <2>1. /\ tokens[1] = Keyword("GROUP") /\ tokens[2] = Keyword("BY")
        /\ 3 <= Len(tokens) /\ Len(tokens) \in Nat
    <3>1. tokens[1] = Keyword("GROUP") /\ tokens[2] = Keyword("BY")
      BY <1>1, <1>5, SignAt DEF Typed, Signs
    <3>2. ~(3 > Len(tokens)) /\ Len(tokens) \in Nat
      BY <1>1, <1>5, TypeAtIs, LenProperties DEF Typed, Text
    <3> QED
      BY <3>1, <3>2
  <2>2. VarLength(3) = 1
    BY <1>5 DEF VarLength
  <2>3. PICK v \in Variables : v = VarAt(3)
    BY <1>1, <1>5, <2>2, VarAhead DEF Typed
  <2>4. PICK said \in Text : /\ said = SaidVar(v) /\ Len(said) = 1
                             /\ \A j \in 1..1 : said[j] = tokens[3 + j - 1]
    <3>1. /\ SaidVar(VarAt(3)) \in Text /\ Len(SaidVar(VarAt(3))) = 1
          /\ \A j \in 1..1 : SaidVar(VarAt(3))[j] = tokens[3 + j - 1]
      <4>1. VarLength(3) > 0 /\ ~ColumnFaults(3) /\ 3 \in Nat \ {0} /\ tokens \in Text
        BY <1>1, <1>5, <2>2 DEF Typed
      <4>2. /\ SaidVar(VarAt(3)) \in Text /\ Len(SaidVar(VarAt(3))) = VarLength(3)
            /\ \A j \in 1..VarLength(3) : SaidVar(VarAt(3))[j] = tokens[3 + j - 1]
        BY <4>1, VarAhead
      <4> QED
        BY <2>2, <4>2
    <3> QED
      BY <2>3, <3>1
  <2>5. PICK w \in Text : /\ w = Heading(<<"GROUP", "BY">>) \o said /\ Len(w) = 3
                          /\ \A i \in 1..3 : tokens[i] = w[i]
    <3>1. "GROUP" \in Signs
      BY DEF Signs
    <3>2. PICK n \in Nat : n = 1 /\ n + 2 = 3
      OBVIOUS
    <3>3. /\ Heading(<<"GROUP", "BY">>) \o said \in Text /\ Len(Heading(<<"GROUP", "BY">>) \o said) = n + 2
          /\ \A i \in 1..(n + 2) : tokens[i] = (Heading(<<"GROUP", "BY">>) \o said)[i]
      BY <1>1, <2>1, <2>4, <3>1, <3>2, HeadingAhead
    <3> QED
      BY <3>2, <3>3
  <2>6. /\ stm' = [stm EXCEPT !.group = <<v>>] /\ query' = query /\ at' = "order"
        /\ tokens' = SubSeq(tokens, 3 + 1, Len(tokens))
    BY <1>5, <2>3 DEF Accept
  <2>7. /\ stm' \in Statement /\ stm'.vars = stm.vars /\ stm'.tables = stm.tables /\ stm'.expr = stm.expr
        /\ stm'.group = <<v>> /\ stm'.order = stm.order /\ stm'.limit = stm.limit
    <3>1. <<v>> \in Seq(Variables)
      OBVIOUS
    <3> QED
      BY <1>1, <2>6, <3>1 DEF Statement
  <2>8. Typed' /\ query' = (SelectWhere(stm) \o w) \o tokens'
    BY <1>1, <1>2, <2>1, <2>5, <2>6, <2>7, Reads
  <2>9. SelectGroup(stm') = SelectWhere(stm) \o w
    <3>1. GroupParts(stm') = <<said>>
      BY <2>4, <2>7 DEF GroupParts
    <3>2. <<"GROUP", "BY">> \in Seq(Signs)
      BY DEF Signs
    <3>3. Clause(<<"GROUP", "BY">>, GroupParts(stm'), "COMMA") = w
      BY <2>5, <3>1, <3>2, ClauseOfOne
    <3>4. SelectWhere(stm') = SelectWhere(stm)
      BY <2>7, SameClauses
    <3> QED
      BY <3>3, <3>4 DEF SelectGroup
  <2>10. Ahead'
    BY <1>1, <2>6, <2>7 DEF Ahead
  <2> QED
    BY <2>6, <2>8, <2>9, <2>10 DEF ParsedRight, SaidSoFar, Parsed
<1>6. CASE Reject
  BY <1>1, <1>6, ParserStops DEF Reject
<1> QED
  BY <1>3, <1>4, <1>5, <1>6 DEF ParseGroupClause

LEMMA ParseOrderClauseStep ==
  ASSUME ParsedRight, ParseOrderClause
  PROVE  ParsedRight' /\ (at' = "faulted" => Cut)
<1> DEFINE n == VarLength(3)
           last == TypeAt(n + 3)
           directed == last \in {"ASC", "DESC"}
<1>1. Typed /\ at = "order" /\ Parsed(SelectGroup(stm)) /\ Ahead /\ stm \in Statement
  BY DEF ParseOrderClause, ParsedRight, SaidSoFar, Typed
<1>2. SelectGroup(stm) \in Text /\ SelectOrder(stm) = SelectGroup(stm) /\ stm.order = <<>>
  BY <1>1, ClausesTyped DEF Ahead
<1>3. CASE TypeAt(1) # "ORDER" /\ Accept(0, "limit", stm)
  <2>1. tokens' = tokens /\ stm' = stm /\ query' = query /\ at' = "limit"
    BY <1>1, <1>3, NothingRead DEF Accept, Typed
  <2>2. <<>> \in Directions(stm') /\ query' = (SelectOrder(stm') \o <<>>) \o tokens'
    BY <1>1, <1>2, <2>1, TextsJoin DEF Parsed, Directions
  <2> QED
    BY <1>1, <2>1, <2>2 DEF ParsedRight, SaidSoFar, Parsed, Ahead, Typed
<1>4. CASE TypeAt(1) = "ORDER" /\ (CutShort \/ ColumnFaults(3)) /\ Fault
  <2>1. Cut
    BY <1>1, <1>2, <1>4, CutQueries, CutVariables
  <2> QED
    BY <1>1, <1>4, <2>1, ParserStops DEF Fault
<1>5. CASE /\ TypeAt(1) = "ORDER" /\ TypeAt(2) = "BY" /\ n > 0 /\ ~ColumnFaults(3)
           /\ last \in {"ASC", "DESC", "LIMIT", "NONE"}
           /\ Accept(IF directed THEN n + 3 ELSE n + 2, "limit",
                     [stm EXCEPT !.order = <<[var |-> VarAt(3), asc |-> Ascending(last)]>>])
  <2>1. tokens[1] = Keyword("ORDER") /\ tokens[2] = Keyword("BY")
    BY <1>1, <1>5, SignAt DEF Typed, Signs
  <2>2. /\ n \in Nat /\ 3 + n - 1 <= Len(tokens) /\ VarAt(3) \in Variables
        /\ SaidVar(VarAt(3)) \in Text /\ Len(SaidVar(VarAt(3))) = n
        /\ \A j \in 1..n : SaidVar(VarAt(3))[j] = tokens[3 + j - 1]
    BY <1>1, <1>5, VarAhead DEF Typed
  <2>3. PICK v \in Variables, said \in Text :
           /\ v = VarAt(3) /\ said = SaidVar(v) /\ Len(said) = n
           /\ \A j \in 1..n : said[j] = tokens[3 + j - 1]
    BY <2>2
  <2>4. Len(tokens) \in Nat /\ n + 2 <= Len(tokens)
    BY <1>1, <2>2, LenProperties DEF Typed, Text
  <2>5. directed => tokens[n + 3] = Keyword(last) /\ n + 3 <= Len(tokens) /\ Keyword(last) \in Words
    <3>1. directed => last \in Signs
      BY DEF Signs
    <3> QED
      BY <1>1, <2>2, <3>1, SignAt, SignsAreWords DEF Typed
  <2> HIDE DEF n, last
  <2>6. PICK u \in Text : /\ u = Heading(<<"ORDER", "BY">>) \o said /\ Len(u) = n + 2
                          /\ \A i \in 1..(n + 2) : tokens[i] = u[i]
    <3>1. "ORDER" \in Signs
      BY DEF Signs
    <3>2. /\ Heading(<<"ORDER", "BY">>) \o said \in Text /\ Len(Heading(<<"ORDER", "BY">>) \o said) = n + 2
          /\ \A i \in 1..(n + 2) : tokens[i] = (Heading(<<"ORDER", "BY">>) \o said)[i]
      BY <1>1, <2>1, <2>2, <2>3, <3>1, HeadingAhead
    <3> QED
      BY <3>2
  <2>7. /\ stm' = [stm EXCEPT !.order = <<[var |-> v, asc |-> Ascending(last)]>>]
        /\ query' = query /\ at' = "limit"
        /\ tokens' = SubSeq(tokens, (IF directed THEN n + 3 ELSE n + 2) + 1, Len(tokens))
    BY <1>5, <2>3 DEF Accept
  <2>8. /\ stm' \in Statement /\ stm'.vars = stm.vars /\ stm'.tables = stm.tables /\ stm'.expr = stm.expr
        /\ stm'.group = stm.group /\ stm'.order = <<[var |-> v, asc |-> Ascending(last)]>>
        /\ stm'.limit = stm.limit
    <3>1. <<[var |-> v, asc |-> Ascending(last)]>> \in Seq([var : Variables, asc : BOOLEAN])
      BY DEF Ascending
    <3> QED
      BY <1>1, <2>7, <3>1 DEF Statement
  <2>9. SelectOrder(stm') = SelectGroup(stm) \o u
    <3>1. OrderParts(stm') = <<said>>
      BY <2>3, <2>8 DEF OrderParts
    <3>2. <<"ORDER", "BY">> \in Seq(Signs)
      BY DEF Signs
    <3>3. Clause(<<"ORDER", "BY">>, OrderParts(stm'), "COMMA") = u
      BY <2>6, <3>1, <3>2, ClauseOfOne
    <3>4. SelectGroup(stm') = SelectGroup(stm)
      BY <2>8, SameClauses
    <3> QED
      BY <3>3, <3>4 DEF SelectOrder
  <2>10. Ahead'
    BY <1>1, <2>7, <2>8 DEF Ahead
  <2>11. CASE directed
    <3>1. PICK w \in Text : /\ w = u \o <<Keyword(last)>> /\ Len(w) = n + 3
                            /\ \A i \in 1..(n + 3) : tokens[i] = w[i]
      <4>1. PICK w \in Text : /\ w = u \o <<Keyword(last)>> /\ Len(w) = Len(u) + 1
                              /\ \A i \in 1..Len(u) : w[i] = u[i]
                              /\ w[Len(u) + 1] = Keyword(last)
        BY <2>5, <2>11, WordMore
      <4>2. Len(w) = n + 3 /\ w[n + 3] = Keyword(last) /\ \A i \in 1..(n + 2) : w[i] = u[i]
        <5>1. Len(u) + 1 = n + 3
          BY <2>2, <2>6
        <5> QED
          BY <2>6, <4>1, <5>1
      <4>3. \A i \in 1..(n + 3) : i = n + 3 \/ i \in 1..(n + 2)
        BY <2>2
      <4> QED
        <5>1. ASSUME NEW i \in 1..(n + 3) PROVE tokens[i] = w[i]
          <6>1. CASE i = n + 3
            BY <2>5, <2>11, <4>2, <6>1
          <6>2. CASE i \in 1..(n + 2)
            BY <2>6, <4>2, <6>2
          <6> QED
            BY <4>3, <6>1, <6>2
        <5> QED
          BY <4>1, <4>2, <5>1
    <3>2. Typed' /\ query' = (SelectGroup(stm) \o w) \o tokens'
      <4>1. n + 3 \in Nat /\ n + 3 <= Len(tokens) /\ tokens' = SubSeq(tokens, (n + 3) + 1, Len(tokens))
        <5>1. n + 3 \in Nat
          BY <2>2
        <5>2. n + 3 <= Len(tokens)
          BY <2>5, <2>11
        <5>3. tokens' = SubSeq(tokens, (n + 3) + 1, Len(tokens))
          BY <2>7, <2>11
        <5> QED
          BY <5>1, <5>2, <5>3
      <4> QED
        BY <1>1, <1>2, <2>7, <2>8, <3>1, <4>1, Reads
    <3>3. <<Keyword(last)>> \in Directions(stm')
      <4>1. stm'.order = <<[var |-> v, asc |-> Ascending(last)]>>
        BY <2>8
      <4>2. stm'.order # <<>> /\ stm'.order[1].asc = Ascending(last)
        BY <4>1
      <4> QED
        BY <2>11, <4>2 DEF Directions, Ascending
    <3>4. SelectGroup(stm) \o w = SelectOrder(stm') \o <<Keyword(last)>>
      <4>1. PICK k \in Text : k = <<Keyword(last)>>
        <5>1. <<Keyword(last)>> \in Text
          BY <2>5, <2>11 DEF Text
        <5> QED
          BY <5>1
      <4>2. (SelectGroup(stm) \o u) \o k = SelectGroup(stm) \o (u \o k)
        BY <1>2, TextsAssociate
      <4> QED
        BY <2>9, <3>1, <4>1, <4>2
    <3>5. \E d \in Directions(stm') : query' = (SelectOrder(stm') \o d) \o tokens'
      BY <3>2, <3>3, <3>4
    <3> QED
      BY <2>7, <2>10, <3>2, <3>5 DEF ParsedRight, SaidSoFar, Parsed
  <2>12. CASE ~directed
    <3>1. Typed' /\ query' = (SelectGroup(stm) \o u) \o tokens'
      <4>1. n + 2 \in Nat /\ tokens' = SubSeq(tokens, (n + 2) + 1, Len(tokens))
        <5>1. n + 2 \in Nat
          BY <2>2
        <5> QED
          BY <2>7, <2>12, <5>1
      <4> QED
        BY <1>1, <1>2, <2>4, <2>6, <2>7, <2>8, <4>1, Reads
    <3>2. <<>> \in Directions(stm')
      <4>1. stm'.order = <<[var |-> v, asc |-> Ascending(last)]>>
        BY <2>8
      <4>2. stm'.order # <<>> /\ stm'.order[1].asc = Ascending(last)
        BY <4>1
      <4> QED
        BY <2>12, <4>2 DEF Directions, Ascending
    <3>3. SelectOrder(stm') \o <<>> = SelectGroup(stm) \o u
      BY <1>2, <2>9, TextsJoin
    <3>5. \E d \in Directions(stm') : query' = (SelectOrder(stm') \o d) \o tokens'
      BY <3>1, <3>2, <3>3
    <3> QED
      BY <2>7, <2>10, <3>1, <3>5 DEF ParsedRight, SaidSoFar, Parsed
  <2> QED
    BY <2>11, <2>12
<1>6. CASE Reject
  BY <1>1, <1>6, ParserStops DEF Reject
<1> QED
  BY <1>3, <1>4, <1>5, <1>6 DEF ParseOrderClause

LEMMA ParseLimitClauseStep ==
  ASSUME ParsedRight, ParseLimitClause
  PROVE  ParsedRight' /\ (at' = "faulted" => Cut)
<1>1. Typed /\ at = "limit" /\ Ahead /\ stm \in Statement /\ stm.limit = 0
  BY DEF ParseLimitClause, ParsedRight, SaidSoFar, Typed, Ahead
<1>2. PICK d \in Directions(stm) : Parsed(SelectOrder(stm) \o d)
  BY <1>1 DEF ParsedRight, SaidSoFar
<1>3. d \in Text /\ SelectOrder(stm) \in Text /\ SelectOrder(stm) \o d \in Text
  <2>1. Keyword("ASC") \in Words /\ Keyword("DESC") \in Words
    BY SignsAreWords DEF Signs
  <2>2. <<Keyword("ASC")>> \in Text /\ <<Keyword("DESC")>> \in Text /\ <<>> \in Text
    BY <2>1 DEF Text
  <2>3. d \in Text
    BY <2>2 DEF Directions
  <2> QED
    BY <1>1, <2>3, ClausesTyped, TextsJoin
<1>4. PICK p \in Text : p = SelectOrder(stm) \o d /\ query = p \o tokens
  BY <1>2, <1>3 DEF Parsed
<1>5. ASSUME NEW l \in Limits(stm'), UNCHANGED <<query>>, query = p \o l, stm' \in Statement,
             stm'.vars = stm.vars, stm'.tables = stm.tables, stm'.expr = stm.expr,
             stm'.group = stm.group, stm'.order = stm.order, at' = "parsed", tokens' \in Text
      PROVE  ParsedRight'
  <2>1. SelectOrder(stm') = SelectOrder(stm) /\ Directions(stm') = Directions(stm)
    BY <1>5, SameClauses
  <2>2. Sayings' = {(SelectOrder(stm') \o e) \o m : e \in Directions(stm'), m \in Limits(stm')}
    BY DEF Sayings, SelectOrder, SelectGroup, SelectWhere, SelectFrom, Select, SelectParts, FromParts,
           WhereParts, GroupParts, OrderParts, Directions, Limits
  <2>3. query' = (SelectOrder(stm') \o d) \o l
    BY <1>4, <1>5, <2>1
  <2>4. query' \in Sayings'
    BY <2>1, <2>2, <2>3
  <2> QED
    BY <1>1, <1>5, <2>4 DEF ParsedRight, SaidSoFar, SaidIsParsed, Typed, Ahead
<1>6. CASE TypeAt(1) = "NONE" /\ Accept(0, "parsed", stm)
  <2>1. tokens' = tokens /\ stm' = stm /\ query' = query /\ at' = "parsed" /\ tokens \in Text
    BY <1>1, <1>6, NothingRead DEF Accept, Typed
  <2>2. tokens = <<>>
    <3>1. PICK n \in Nat : n = Len(tokens)
      BY <2>1, LenProperties DEF Text
    <3>2. 1 > n
      BY <1>6, <2>1, <3>1, TypeAtIs
    <3>3. n = 0
      BY <3>2
    <3> QED
      BY <2>1, <3>1, <3>3, EmptySeq DEF Text
  <2>3. tokens \in Limits(stm')
    BY <1>1, <2>1, <2>2 DEF Limits
  <2>4. ParsedRight'
    BY <1>1, <1>4, <1>5, <2>1, <2>3
  <2> QED
    BY <2>1, <2>4
<1>7. CASE <<TypeAt(1), TypeAt(2)>> = <<"LIMIT", "NONE">> /\ Fault
  <2>1. TypeAt(1) = "LIMIT" /\ TypeAt(2) = "NONE" /\ tokens \in Text
    BY <1>1, <1>7 DEF Typed
  <2>2. PICK n \in Nat : n = Len(tokens)
    BY <2>1, LenProperties DEF Text
  <2>3. ~(1 > n) /\ 2 > n /\ tokens[1].type = "LIMIT"
    BY <2>1, <2>2, TypeAtIs
  <2>4. n = 1
    BY <2>3
  <2>5. tokens # <<>>
    BY <2>1, <2>2, <2>4, EmptySeq DEF Text
  <2>6. query[Len(query)] = tokens[Len(tokens)]
    BY <1>1, <1>2, <1>3, <2>5, LastWord
  <2>7. Cut
    BY <2>2, <2>3, <2>4, <2>6 DEF Cut
  <2> QED
    BY <1>1, <1>7, <2>7, ParserStops DEF Fault
<1>8. CASE /\ <<TypeAt(1), TypeAt(2), TypeAt(3)>> = <<"LIMIT", "INT", "NONE">>
           /\ Accept(2, "parsed", [stm EXCEPT !.limit = tokens[2].data[1]])
  <2>1. TypeAt(1) = "LIMIT" /\ TypeAt(2) = "INT" /\ TypeAt(3) = "NONE" /\ tokens \in Text
    BY <1>1, <1>8 DEF Typed
  <2>2. PICK n \in Nat : n = Len(tokens)
    BY <2>1, LenProperties DEF Text
  <2>3. ~(2 > n) /\ 3 > n /\ tokens[2] \in Words /\ tokens[2].type = "INT"
    BY <2>1, <2>2, TypeAtIs
  <2>4. n = 2
    BY <2>3
  <2>5. tokens[1] = Keyword("LIMIT")
    BY <2>1, SignAt DEF Signs
  <2>6. PICK x : x = tokens[2].data[1] /\ tokens[2] = [type |-> "INT", data |-> <<x>>]
    BY <2>3, WordsAreTokens
  <2>7. tokens = <<Keyword("LIMIT"), [type |-> "INT", data |-> <<x>>]>>
    <3>1. PICK w \in Text : w = <<Keyword("LIMIT"), [type |-> "INT", data |-> <<x>>]>>
      <4>1. Keyword("LIMIT") \in Words /\ [type |-> "INT", data |-> <<x>>] \in Words
        BY <2>3, <2>6, SignsAreWords DEF Signs
      <4>2. <<Keyword("LIMIT"), [type |-> "INT", data |-> <<x>>]>> \in Text
        BY <4>1 DEF Text
      <4> QED
        BY <4>2
    <3>2. Len(w) = 2 /\ w[1] = tokens[1] /\ w[2] = tokens[2]
      BY <2>5, <2>6, <3>1
    <3>3. \A i \in 1..2 : i = 1 \/ i = 2
      OBVIOUS
    <3>4. Len(tokens) = 2 /\ \A i \in 1..2 : tokens[i] = w[i]
      BY <2>2, <2>4, <3>2, <3>3
    <3> QED
      BY <2>1, <3>1, <3>2, <3>4, SeqEqual DEF Text
  <2>8. /\ stm' = [stm EXCEPT !.limit = x] /\ query' = query /\ at' = "parsed"
        /\ tokens' = SubSeq(tokens, 3, Len(tokens))
    BY <1>8, <2>6 DEF Accept
  <2>9. /\ stm' \in Statement /\ stm'.vars = stm.vars /\ stm'.tables = stm.tables /\ stm'.expr = stm.expr
        /\ stm'.group = stm.group /\ stm'.order = stm.order /\ stm'.limit = x
    BY <1>1, <2>3, <2>6, <2>8 DEF Statement
  <2>10. tokens' \in Text
    <3>1. n \in 0..Len(tokens) /\ n + 1 = 3
      BY <2>2, <2>4
    <3>2. SubSeq(tokens, n + 1, Len(tokens)) \in Text
      BY <2>1, <3>1, Popped
    <3> QED
      BY <2>8, <3>1, <3>2
  <2>11. tokens \in Limits(stm')
    BY <2>7, <2>9 DEF Limits
  <2>12. ParsedRight'
    BY <1>4, <1>5, <2>8, <2>9, <2>10, <2>11
  <2> QED
    BY <2>8, <2>12
<1>9. CASE Reject
  BY <1>1, <1>9, ParserStops DEF Reject
<1> QED
  BY <1>6, <1>7, <1>8, <1>9 DEF ParseLimitClause

LEMMA ParseStep ==
  ASSUME ParsedRight, Parse
  PROVE  ParsedRight' /\ (at' = "faulted" => Cut)
BY ParseStatementStep, ParseVarListStep, ParseTableListStep, ParseWhereClauseStep, ParseExprStep,
   ParseGroupClauseStep, ParseOrderClauseStep, ParseLimitClauseStep DEF Parse

-----------------------------------------------------------------------------
(* The whole query.                                                        *)

Parsing == at \in {"statement", "vars", "tables", "where", "expr", "group", "order", "limit", "parsed"}

\* What is parsed is right, and a query that faults before it is checked is
\* cut.
QueryInv ==
  /\ ParsedRight
  /\ next \in Nat
  /\ Parsing => next = 0
  /\ at \in {"evaluating", "answered"} => next # 0
  /\ OnlyCutQueriesFault

LEMMA QueryStarts ==
  ASSUME Init
  PROVE  QueryInv
<1>1. /\ query \in Queries /\ tokens = query /\ stm = EmptyStatement /\ at = "statement" /\ next = 0
  BY DEF Init, ParserInit
<1>2. query \in Text
  BY <1>1, QueriesAreText
<1>3. stm \in Statement
  BY <1>1 DEF Statement, EmptyStatement
<1>4. ParsedRight
  BY <1>1, <1>2, <1>3 DEF ParsedRight, Typed, SaidSoFar, Ahead, EmptyStatement
<1> QED
  BY <1>1, <1>4 DEF QueryInv, OnlyCutQueriesFault, Parsing

\* Once the query is parsed nothing of it changes.
LEMMA ParsedKept ==
  ASSUME ParsedRight, UNCHANGED <<query, tokens, stm>>,
         at' \in {"evaluating", "answered", "rejected", "faulted"} \/ at' = at
  PROVE  ParsedRight'
<1>1. CASE at' = at
  <2>1. query' = query /\ tokens' = tokens /\ stm' = stm /\ at' = at
    BY <1>1
  <2>2. Typed' /\ Ahead'
    BY <2>1 DEF ParsedRight, Typed, Ahead
  <2>3. Sayings' = Sayings
    BY <2>1 DEF Sayings
  <2>4. SaidIsParsed' <=> SaidIsParsed
    BY <2>1, <2>3 DEF SaidIsParsed
  <2>5. SaidSoFar'
    BY <2>1, <2>4 DEF ParsedRight, SaidSoFar, Parsed
  <2> QED
    BY <2>2, <2>5 DEF ParsedRight
<1>2. CASE at' \in {"evaluating", "answered", "rejected", "faulted"}
  BY <1>2 DEF ParsedRight, Typed, SaidSoFar, Ahead
<1> QED
  BY <1>1, <1>2

LEMMA QueryInvPreserved ==
  ASSUME QueryInv, [Next]_vars
  PROVE  QueryInv'
<1>1. ParsedRight /\ next \in Nat /\ (Parsing => next = 0) /\ OnlyCutQueriesFault
      /\ (at \in {"evaluating", "answered"} => next # 0)
  BY DEF QueryInv
<1>2. CASE Parse /\ UNCHANGED <<db, next, set, answer>>
  <2>1. ParsedRight' /\ (at' = "faulted" => Cut) /\ query' = query /\ next' = next
    <3>1. query' = query
      BY <1>2 DEF Parse, ParseStatement, ParseVarList, ParseTableList, ParseWhereClause, ParseExpr,
                  ParseGroupClause, ParseOrderClause, ParseLimitClause, Accept, Reject, Fault
    <3> QED
      BY <1>1, <1>2, <3>1, ParseStep
  <2>2. Parsing /\ at' \notin {"evaluating", "answered"}
    BY <1>2 DEF Parse, ParseStatement, ParseVarList, ParseTableList, ParseWhereClause, ParseExpr,
                ParseGroupClause, ParseOrderClause, ParseLimitClause, Accept, Reject, Fault, Parsing
  <2>3. OnlyCutQueriesFault'
    BY <2>1 DEF OnlyCutQueriesFault, Cut
  <2> QED
    BY <1>1, <2>1, <2>2, <2>3 DEF QueryInv
<1>3. CASE Analyze
  <2>1. UNCHANGED <<query, tokens, stm>> /\ at' \in {"evaluating", "rejected"} /\ next' = 1
    BY <1>3 DEF Analyze
  <2>2. ParsedRight'
    BY <1>1, <2>1, ParsedKept
  <2> QED
    BY <2>1, <2>2 DEF QueryInv, OnlyCutQueriesFault, Parsing
<1>4. CASE EvaluateExpr \/ EvaluateTable \/ Finalize
  <2>1. /\ at = "evaluating" /\ UNCHANGED <<query, tokens, stm>>
        /\ at' = at \/ at' \in {"faulted", "answered"}
        /\ next' = next \/ next' = next + 1
    BY <1>4 DEF EvaluateExpr, EvaluateTable, Finalize, Combine
  <2>2. ParsedRight'
    BY <1>1, <2>1, ParsedKept
  <2>3. next' \in Nat /\ next' # 0
    BY <1>1, <2>1
  <2> QED
    BY <2>1, <2>2, <2>3 DEF QueryInv, OnlyCutQueriesFault, Parsing
<1>5. CASE UNCHANGED vars
  <2>1. UNCHANGED <<query, tokens, stm>> /\ at' = at /\ next' = next
    BY <1>5 DEF vars
  <2>2. ParsedRight'
    BY <1>1, <2>1, ParsedKept
  <2> QED
    BY <1>1, <2>1, <2>2 DEF QueryInv, OnlyCutQueriesFault, Parsing
<1> QED
  BY <1>2, <1>3, <1>4, <1>5 DEF Next, Done

LEMMA QueryInvHolds == Spec => []QueryInv
<1>1. Init => QueryInv
  BY QueryStarts
<1>2. QueryInv /\ [Next]_vars => QueryInv'
  BY QueryInvPreserved
<1> QED
  BY <1>1, <1>2, PTL DEF Spec

\* The parser neither loses, invents nor moves a word: what parse_statement
\* makes of a query says all of that query and nothing else, whatever the
\* query is and however many turns its clauses' loops take.
THEOREM ParserKeepsTheQuery == Spec => []SaidIsParsed
<1>1. QueryInv => SaidIsParsed
  BY DEF QueryInv, ParsedRight, SaidSoFar, SaidIsParsed
<1> QED
  BY <1>1, QueryInvHolds, PTL

\* Parsing follows NULL only for no tokens at all, for queries that stop after
\* GROUP, ORDER, BY or LIMIT, and for those with a variable that stops after
\* its dot.
THEOREM OnlyCutQueriesEndThePeer == Spec => []OnlyCutQueriesFault
<1>1. QueryInv => OnlyCutQueriesFault
  BY DEF QueryInv
<1> QED
  BY <1>1, QueryInvHolds, PTL

-----------------------------------------------------------------------------
(* The blocks of joins.                                                    *)

\* What the program's pool of 1000 blocks and its queries provide: room for a
\* block of either table and one to spare, and no table joined with itself by
\* heap_file_bnl, which would unpin the same block twice.
JoinsFit == Size > 2 /\ SelfJoins = "hashed"

\* heap_file_hash_join pins the whole inner table without asking for room when
\* the operator is NOT_EQUAL.
UnequalFits == run # Idle /\ run.kind = "unequal" => blocks[run.inner] <= Size

-----------------------------------------------------------------------------
\* The inductive invariant: which blocks are pinned, place by place.

Active == With("active")

\* The blocks of file f from number a up to b, b left out.
Span(f, a, b) == {<<f, n>> : n \in a..(b - 1)}
InnerTable == Span(run.inner, 0, blocks[run.inner])
OuterBlock == <<run.outer, run.i>>
InnerBlock == <<run.inner, run.j>>

\* A nested loop join that keeps the inner table has got all of it once it has
\* been through it for the first outer block, and its first j blocks before.
Kept ==
  IF ~run.inMemory THEN {}
  ELSE IF run.i > 0 THEN InnerTable ELSE Span(run.inner, 0, run.j)

Exact ==
  /\ count = Cardinality(Active) /\ IsFiniteSet(Active)
  /\ Range(pq) = With("inactive") /\ IsInjective(pq)

\* Where an operation of each kind can be, and how far its loops have come.
PlacesOk ==
  run # Idle =>
    /\ run.kind = "nested" => /\ run.at \in {"outer", "inner", "got", "release"}
                              /\ run.outer # run.inner
    /\ run.kind = "equal" => run.at \in {"build", "built", "probe", "probed"}
    /\ run.kind = "unequal" =>
         run.at \in {"build", "built", "pairs", "release", "probe", "probed"}
    /\ run.kind = "scan" => run.at \in {"probe", "probed"}
    /\ run.at \in {"inner", "got", "probed"} => run.i < blocks[run.outer]
    /\ run.at = "build" => run.i <= blocks[run.inner]
    /\ run.at \in {"built", "pairs"} => run.i < blocks[run.inner]
    /\ run.at = "got" => run.j < blocks[run.inner]
    /\ run.at = "outer" => run.j = 0

\* The inner table is kept only where there was room for it and one more.
KeptFits ==
  run # Idle /\ run.kind = "nested" =>
    /\ run.inMemory => blocks[run.inner] + 1 < Size
    /\ run.at = "release" => run.inMemory

HeldIdle == run.at \in {"idle", "probe"} => Active = {}

HeldNested ==
  /\ run.at = "outer" => Active = Kept
  /\ run.at = "inner" => Active = Kept \cup {OuterBlock}
  /\ run.at = "got" => Active = Kept \cup {OuterBlock, InnerBlock}

HeldEqual ==
  run # Idle /\ run.kind = "equal" =>
    /\ run.at = "build" => Active = {}
    /\ run.at = "built" => Active = {<<run.inner, run.i>>}

\* A NOT_EQUAL join has at least the blocks it has been through.
HeldUnequal ==
  run # Idle /\ run.kind = "unequal" =>
    /\ run.at \in {"build", "built", "pairs"} =>
         Span(run.inner, 0, run.i) \subseteq Active /\ Active \subseteq InnerTable
    /\ run.at \in {"built", "pairs"} => <<run.inner, run.i>> \in Active

HeldRelease == run.at = "release" => Active = Span(run.inner, run.j, blocks[run.inner])

HeldProbed == run.at = "probed" => Active = {OuterBlock}

JoinsInv ==
  /\ JoinsTypeOK /\ Exact /\ PlacesOk /\ KeptFits /\ program = "runs"
  /\ HeldIdle /\ HeldNested /\ HeldEqual /\ HeldUnequal /\ HeldRelease /\ HeldProbed

-----------------------------------------------------------------------------
\* Facts about a state.

\* The blocks of a table are keys of the pool, and no more than they number.
LEMMA SpanFacts ==
  ASSUME NEW f \in Files, NEW a \in Nat, NEW b \in Nat
  PROVE  /\ b <= MaxBlocks => Span(f, a, b) \subseteq Keys
         /\ IsFiniteSet(Span(f, 0, b)) /\ Cardinality(Span(f, 0, b)) <= b
<1>1. b <= MaxBlocks => Span(f, a, b) \subseteq Keys
  BY PoolAssumption DEF Span, Keys
<1>2. IsFiniteSet(Span(f, 0, b)) /\ Cardinality(Span(f, 0, b)) <= b
  <2> DEFINE pair == [n \in 0..(b - 1) |-> <<f, n>>]
  <2>1. IsFiniteSet(0..(b - 1)) /\ Cardinality(0..(b - 1)) = b
    BY FS_Interval
  <2>2. pair \in Surjection(0..(b - 1), Span(f, 0, b))
    BY DEF Span, Surjection
  <2> QED
    BY <2>1, <2>2, FS_Surjection
<1> QED
  BY <1>1, <1>2

\* In a set of at most n elements, a subset without one of them has fewer than n.
LEMMA RoomForOne ==
  ASSUME NEW S, IsFiniteSet(S), NEW T \in SUBSET S, NEW k \in S, k \notin T
  PROVE  Cardinality(T) < Cardinality(S)
<1>1. IsFiniteSet(T) /\ Cardinality(T \cup {k}) = Cardinality(T) + 1
  BY FS_Subset, FS_AddElement
<1>2. T \cup {k} \in SUBSET S
  OBVIOUS
<1>3. Cardinality(T \cup {k}) <= Cardinality(S)
  BY <1>2, FS_Subset
<1>4. Cardinality(T) \in Nat /\ Cardinality(S) \in Nat
  BY <1>1, FS_CardinalityType
<1> QED
  BY <1>1, <1>3, <1>4

(* block_get of a block that fits the pool beside the active ones makes it *)
(* active and evicts nothing.                                              *)
LEMMA GetKeeps ==
  ASSUME PoolTypeOK, Exact, program = "runs",
         NEW f \in Files, NEW n \in Nat, <<f, n>> \in Keys, Get(f, n),
         NEW S, IsFiniteSet(S), Cardinality(S) <= Size, Active \cup {<<f, n>>} \subseteq S
  PROVE  /\ PoolTypeOK' /\ Exact' /\ program' = "runs"
         /\ Active' = Active \cup {<<f, n>>}
<1> DEFINE k == <<f, n>>
<1> USE DEF PoolTypeOK, Active, Exact
<1>a. k \in Keys /\ IsFiniteSet(Active)
  OBVIOUS
<1>b. array' \in [Keys -> Contents] /\ status[k] \in {"absent", "active", "inactive"}
  BY PoolAssumption DEF Get, Insert, Allocate
<1>1. CASE status[k] = "absent"
  <2>1. Insert(k, Zero)
    BY <1>1 DEF Get
  <2>2. k \notin Active
    BY <1>1 DEF With
  <2>3. count < Size
    <3>1. Cardinality(Active) < Cardinality(S)
      BY <2>2, RoomForOne
    <3>2. Cardinality(Active) \in Nat /\ Cardinality(S) \in Nat
      BY <1>a, FS_CardinalityType
    <3> QED
      BY <3>1, <3>2, PoolAssumption
  <2>4. Victims = {}
    BY <2>3, PoolAssumption DEF Victims
  <2>5. /\ status' = [status EXCEPT ![k] = "active"]
        /\ count' = count + 1 /\ pq' = pq /\ program' = program
    BY <2>1, <2>4 DEF Insert
  <2>6. With("active")' = With("active") \cup {k} /\ With("inactive")' = With("inactive")
    BY <1>1, <1>a, <2>5 DEF With
  <2>7. IsFiniteSet(Active') /\ count' = Cardinality(Active')
    <3>1. IsFiniteSet(Active \cup {k}) /\ Cardinality(Active \cup {k}) = Cardinality(Active) + 1
      BY <1>a, <2>2, FS_AddElement
    <3> QED
      BY <2>5, <2>6, <3>1
  <2>8. Exact'
    BY <2>5, <2>6, <2>7
  <2> QED
    BY <1>a, <1>b, <2>5, <2>6, <2>8
<1>2. CASE status[k] = "inactive"
  <2>1. /\ status' = [status EXCEPT ![k] = "active"] /\ pq' = PqRemove(pq, k)
        /\ count' = count + 1 /\ program' = IF pq = <<>> THEN "faulted" ELSE program
    BY <1>2 DEF Get, Allocate
  <2>2. k \in Range(pq) /\ k \notin Active
    BY <1>2, <1>a DEF With
  <2>3. pq # <<>>
    BY <2>2 DEF Range
  <2>4. /\ pq' \in Seq(Keys) /\ IsInjective(pq') /\ Range(pq') = Range(pq) \ {k}
    BY <2>1, <2>2, PqRemoveProperties
  <2>5. /\ With("active")' = With("active") \cup {k}
        /\ With("inactive")' = With("inactive") \ {k}
    BY <1>2, <1>a, <2>1 DEF With
  <2>6. IsFiniteSet(Active') /\ count' = Cardinality(Active')
    <3>1. IsFiniteSet(Active \cup {k}) /\ Cardinality(Active \cup {k}) = Cardinality(Active) + 1
      BY <1>a, <2>2, FS_AddElement
    <3> QED
      BY <2>1, <2>5, <3>1
  <2>7. status' \in [Keys -> {"absent", "active", "inactive"}] /\ count' \in Int
    BY <1>a, <2>1
  <2>8. Exact'
    BY <2>4, <2>5, <2>6
  <2> QED
    BY <1>b, <2>1, <2>3, <2>4, <2>5, <2>7, <2>8
<1>3. CASE status[k] = "active"
  <2>1. status' = status /\ pq' = pq /\ count' = count /\ program' = program
    BY <1>3 DEF Get, Allocate
  <2>2. k \in Active
    BY <1>3, <1>a DEF With
  <2>3. With("active")' = With("active") /\ With("inactive")' = With("inactive")
    BY <2>1 DEF With
  <2> HIDE DEF k
  <2> QED
    BY <1>b, <2>1, <2>2, <2>3 DEF k
<1> QED
  BY <1>b, <1>1, <1>2, <1>3

(* block_unpin of an active block makes it a candidate for eviction.       *)
LEMMA UnpinKeeps ==
  ASSUME PoolTypeOK, Exact, program = "runs",
         NEW f \in Files, NEW n \in Nat, <<f, n>> \in Active, Unpin(f, n)
  PROVE  /\ PoolTypeOK' /\ Exact' /\ program' = "runs"
         /\ Active' = Active \ {<<f, n>>}
<1>0. SUFFICES ASSUME NEW k, k = <<f, n>>
               PROVE  PoolTypeOK' /\ Exact' /\ program' = "runs" /\ Active' = Active \ {k}
  OBVIOUS
<1> USE DEF PoolTypeOK, Active, Exact
<1>1. k \in Keys /\ k \in Active /\ status[k] = "active" /\ IsFiniteSet(Active)
  BY <1>0 DEF With
<1>2. /\ status' = [status EXCEPT ![k] = "inactive"] /\ pq' = PqInsert(pq, k)
      /\ count' = count - 1 /\ program' = program /\ array' = array
  BY <1>0, <1>1 DEF Unpin, SetInactive
<1>3. k \notin Range(pq)
  BY <1>1 DEF With
<1>4. pq' \in Seq(Keys) /\ IsInjective(pq') /\ Range(pq') = Range(pq) \cup {k}
  BY <1>1, <1>2, <1>3, PqInsertProperties
<1>5. /\ With("active")' = With("active") \ {k}
      /\ With("inactive")' = With("inactive") \cup {k}
  BY <1>1, <1>2 DEF With
<1>6. IsFiniteSet(Active') /\ count' = Cardinality(Active')
  BY <1>1, <1>2, <1>5, FS_RemoveElement
<1>7. status' \in [Keys -> {"absent", "active", "inactive"}] /\ count' \in Int
  BY <1>1, <1>2
<1> QED
  BY <1>2, <1>4, <1>5, <1>6, <1>7

\* What the loops' counters and the place of an operation become.
LEMMA StepFields ==
  ASSUME run \in Runs, NEW place \in Places, NEW i \in Nat, NEW j \in Nat
  PROVE  /\ Step(place, i, j) \in Runs /\ Step(place, i, j) # Idle
         /\ Step(place, i, j).at = place /\ Step(place, i, j).i = i /\ Step(place, i, j).j = j
         /\ Step(place, i, j).kind = run.kind /\ Step(place, i, j).inMemory = run.inMemory
         /\ Step(place, i, j).outer = run.outer /\ Step(place, i, j).inner = run.inner
BY DEF Runs, Step, Idle, Places

\* The types of what an operation under way works on.
LEMMA RunFacts ==
  ASSUME JoinsTypeOK, run # Idle
  PROVE  /\ run \in Runs /\ run.at \in Places /\ run.kind \in Kinds /\ run.inMemory \in BOOLEAN
         /\ run.outer \in Files /\ run.inner \in Files /\ run.i \in Nat /\ run.j \in Nat
         /\ blocks[run.outer] \in Nat /\ blocks[run.outer] <= MaxBlocks
         /\ blocks[run.inner] \in Nat /\ blocks[run.inner] <= MaxBlocks
         /\ blocks[run.inner] <= blocks[run.outer]
         /\ \A n \in Nat : /\ n < blocks[run.outer] => <<run.outer, n>> \in Keys
                           /\ n < blocks[run.inner] => <<run.inner, n>> \in Keys
<1>1. run \in Runs
  BY DEF JoinsTypeOK
<1>2. /\ run.at \in Places /\ run.kind \in Kinds /\ run.inMemory \in BOOLEAN
      /\ run.outer \in Files /\ run.inner \in Files /\ run.i \in Nat /\ run.j \in Nat
  BY <1>1 DEF Runs
<1>3. \A f \in Files : /\ blocks[f] \in Nat /\ blocks[f] <= MaxBlocks
                       /\ \A n \in Nat : n < blocks[f] => <<f, n>> \in Keys
  BY PoolAssumption DEF JoinsTypeOK, Keys
<1> QED
  BY <1>1, <1>2, <1>3 DEF JoinsTypeOK

\* An action that does not touch the pool leaves what is pinned alone.
LEMMA PoolStays ==
  ASSUME PoolTypeOK, Exact, UNCHANGED poolVars
  PROVE  PoolTypeOK' /\ Exact' /\ program' = program /\ Active' = Active
BY DEF poolVars, PoolTypeOK, Exact, Active, With

\* A step of an operation under way keeps the types if its counters stay in range.
LEMMA TypesKept ==
  ASSUME JoinsTypeOK, run # Idle, PoolTypeOK', UNCHANGED blocks,
         NEW place \in Places, NEW i \in Nat, NEW j \in Nat,
         i <= blocks[run.outer], j <= blocks[run.inner], run' = Step(place, i, j)
  PROVE  /\ JoinsTypeOK' /\ run' # Idle
         /\ run'.at = place /\ run'.i = i /\ run'.j = j
         /\ run'.kind = run.kind /\ run'.inMemory = run.inMemory
         /\ run'.outer = run.outer /\ run'.inner = run.inner
         /\ InnerTable' = InnerTable
<1>1. run \in Runs
  BY RunFacts
<1>2. /\ run' \in Runs /\ run' # Idle
      /\ run'.at = place /\ run'.i = i /\ run'.j = j
      /\ run'.kind = run.kind /\ run'.inMemory = run.inMemory
      /\ run'.outer = run.outer /\ run'.inner = run.inner
  BY <1>1, StepFields
<1> QED
  BY <1>2 DEF JoinsTypeOK, InnerTable

-----------------------------------------------------------------------------
\* The steps of heap_file_bnl.

\* While a nested loop join is under way its blocks fit the pool, an outer and
\* an inner one beside those it keeps.
LEMMA NestedRoom ==
  ASSUME JoinsInv, JoinsFit, run # Idle, run.kind = "nested"
  PROVE  LET S == (IF run.inMemory THEN InnerTable ELSE {InnerBlock}) \cup {OuterBlock}
         IN  IsFiniteSet(S) /\ Cardinality(S) < Size
<1>1. run.inMemory => blocks[run.inner] + 1 < Size
  BY DEF JoinsInv, KeptFits
<1>2. CASE run.inMemory
  <2>1. IsFiniteSet(InnerTable) /\ Cardinality(InnerTable) <= blocks[run.inner]
    BY RunFacts, SpanFacts DEF JoinsInv, InnerTable
  <2>2. Cardinality(InnerTable) \in Nat
    BY <2>1, FS_CardinalityType
  <2>3. /\ IsFiniteSet(InnerTable \cup {OuterBlock})
        /\ Cardinality(InnerTable \cup {OuterBlock}) \in
             {Cardinality(InnerTable), Cardinality(InnerTable) + 1}
    BY <2>1, FS_AddElement
  <2> QED
    BY <1>1, <1>2, <2>1, <2>2, <2>3, RunFacts, PoolAssumption DEF JoinsInv
<1>3. CASE ~run.inMemory
  <2>1. IsFiniteSet({InnerBlock}) /\ Cardinality({InnerBlock}) = 1
    BY FS_Singleton
  <2>2. /\ IsFiniteSet({InnerBlock} \cup {OuterBlock})
        /\ Cardinality({InnerBlock} \cup {OuterBlock}) <= 2
    <3>1. /\ IsFiniteSet({InnerBlock} \cup {OuterBlock})
          /\ Cardinality({InnerBlock} \cup {OuterBlock})
               \in {Cardinality({InnerBlock}), Cardinality({InnerBlock}) + 1}
      BY <2>1, FS_AddElement
    <3> HIDE DEF InnerBlock, OuterBlock
    <3>2. 1 <= 2 /\ 1 + 1 <= 2
      OBVIOUS
    <3> QED
      BY <2>1, <3>1, <3>2
  <2>3. Cardinality({InnerBlock} \cup {OuterBlock}) \in Nat
    BY <2>2, FS_CardinalityType
  <2> QED
    BY <1>3, <2>2, <2>3, PoolAssumption DEF JoinsFit
<1> QED
  BY <1>2, <1>3

\* What is kept is a part of the inner table, and nothing unless it is kept in memory.
LEMMA KeptWithin ==
  ASSUME JoinsTypeOK, run # Idle
  PROVE  Kept \subseteq (IF run.inMemory THEN InnerTable ELSE {})
BY RunFacts DEF Kept, InnerTable, Span, JoinsTypeOK

\* The outer block is read.
LEMMA NestedOuterStep ==
  ASSUME JoinsInv, JoinsFit, NestedOuter
  PROVE  JoinsInv'
<1> USE DEF NestedOuter, JoinsInv
<1>1. run # Idle /\ run.kind = "nested" /\ run.j = 0 /\ Active = Kept
  BY RunFacts DEF PlacesOk, HeldNested, Idle, Kinds
<1>2. /\ PoolTypeOK' /\ Exact' /\ program' = "runs"
      /\ Active' = Active \cup {OuterBlock}
  <2> DEFINE S == (IF run.inMemory THEN InnerTable ELSE {InnerBlock}) \cup {OuterBlock}
  <2>1. IsFiniteSet(S) /\ Cardinality(S) <= Size
    BY <1>1, NestedRoom, FS_CardinalityType, PoolAssumption
  <2>2. Active \cup {OuterBlock} \subseteq S
    BY <1>1, KeptWithin
  <2> HIDE DEF S
  <2>3. OuterBlock = <<run.outer, run.i>> /\ OuterBlock \in Keys
    BY <1>1, RunFacts DEF OuterBlock
  <2> QED
    BY <1>1, <2>1, <2>2, <2>3, RunFacts, GetKeeps DEF JoinsTypeOK
<1>3. /\ JoinsTypeOK' /\ run' # Idle
      /\ run'.at = "inner" /\ run'.i = run.i /\ run'.j = 0
      /\ run'.kind = run.kind /\ run'.inMemory = run.inMemory
      /\ run'.outer = run.outer /\ run'.inner = run.inner
      /\ InnerTable' = InnerTable
  BY <1>1, <1>2, RunFacts, TypesKept DEF Places
<1>4. PlacesOk' /\ KeptFits'
  BY <1>1, <1>3 DEF PlacesOk, KeptFits
<1>5. Kept' = Kept /\ OuterBlock' = OuterBlock
  BY <1>1, <1>3 DEF Kept, OuterBlock
<1> QED
  BY <1>1, <1>2, <1>3, <1>4, <1>5
     DEF HeldIdle, HeldNested, HeldEqual, HeldUnequal, HeldRelease, HeldProbed

\* An inner block is read; a block the join keeps is in use already.
LEMMA NestedInnerStep ==
  ASSUME JoinsInv, JoinsFit, NestedInner
  PROVE  JoinsInv'
<1> USE DEF NestedInner, JoinsInv
<1>1. run # Idle /\ run.kind = "nested" /\ Active = Kept \cup {OuterBlock}
  BY RunFacts DEF PlacesOk, HeldNested, Idle, Kinds
<1>2. /\ PoolTypeOK' /\ Exact' /\ program' = "runs"
      /\ Active' = Active \cup {InnerBlock}
  <2> DEFINE S == (IF run.inMemory THEN InnerTable ELSE {InnerBlock}) \cup {OuterBlock}
  <2>1. IsFiniteSet(S) /\ Cardinality(S) <= Size
    BY <1>1, NestedRoom, FS_CardinalityType, PoolAssumption
  <2>2. InnerBlock \in InnerTable
    BY <1>1, RunFacts DEF InnerBlock, InnerTable, Span
  <2>3. Active \cup {InnerBlock} \subseteq S
    BY <1>1, <2>2, KeptWithin
  <2> HIDE DEF S
  <2>4. InnerBlock = <<run.inner, run.j>> /\ InnerBlock \in Keys
    BY <1>1, RunFacts DEF InnerBlock
  <2> QED
    BY <1>1, <2>1, <2>3, <2>4, RunFacts, GetKeeps DEF JoinsTypeOK
<1>3. run' = Step("got", run.i, run.j)
  BY <1>1, RunFacts DEF Goto, Step, Runs
<1>4. /\ JoinsTypeOK' /\ run' # Idle
      /\ run'.at = "got" /\ run'.i = run.i /\ run'.j = run.j
      /\ run'.kind = run.kind /\ run'.inMemory = run.inMemory
      /\ run'.outer = run.outer /\ run'.inner = run.inner
      /\ InnerTable' = InnerTable
  BY <1>1, <1>2, <1>3, RunFacts, TypesKept DEF Places, JoinsTypeOK
<1>5. PlacesOk' /\ KeptFits'
  BY <1>1, <1>4 DEF PlacesOk, KeptFits
<1>6. Kept' = Kept /\ OuterBlock' = OuterBlock /\ InnerBlock' = InnerBlock
  BY <1>1, <1>4 DEF Kept, OuterBlock, InnerBlock
<1> QED
  BY <1>1, <1>2, <1>4, <1>5, <1>6
     DEF HeldIdle, HeldNested, HeldEqual, HeldUnequal, HeldRelease, HeldProbed

\* An inner block is kept, or given back before the next one is read.
LEMMA NestedNextStep ==
  ASSUME JoinsInv, JoinsFit, NestedNext
  PROVE  JoinsInv'
<1> USE DEF NestedNext, JoinsInv
<1>1. /\ run # Idle /\ run.kind = "nested" /\ run.outer # run.inner
      /\ run.i < blocks[run.outer] /\ run.j < blocks[run.inner]
      /\ Active = Kept \cup {OuterBlock, InnerBlock}
  BY RunFacts DEF PlacesOk, HeldNested, Idle, Kinds
<1>2. OuterBlock # InnerBlock
  BY <1>1 DEF OuterBlock, InnerBlock
<1>3. /\ PoolTypeOK' /\ Exact' /\ program' = "runs"
      /\ Active' = IF run.inMemory THEN Active ELSE {OuterBlock}
  <2>1. CASE run.inMemory
    BY <2>1, PoolStays DEF Keeps, JoinsTypeOK
  <2>2. CASE ~run.inMemory
    <3>1. Unpin(run.inner, run.j) /\ InnerBlock \in Active /\ Kept = {}
      BY <1>1, <2>2 DEF Keeps, Kept
    <3>2. InnerBlock = <<run.inner, run.j>>
      BY DEF InnerBlock
    <3>3. /\ PoolTypeOK' /\ Exact' /\ program' = "runs"
          /\ Active' = Active \ {InnerBlock}
      BY <1>1, <3>1, <3>2, RunFacts, UnpinKeeps DEF JoinsTypeOK
    <3> QED
      BY <1>1, <1>2, <2>2, <3>1, <3>3
  <2> QED
    BY <2>1, <2>2
<1>4. run.j + 1 \in Nat /\ run.j + 1 <= blocks[run.inner] /\ run.i <= blocks[run.outer]
  BY <1>1, RunFacts
<1>5. /\ JoinsTypeOK' /\ run' # Idle
      /\ run'.at = "inner" /\ run'.i = run.i /\ run'.j = run.j + 1
      /\ run'.kind = run.kind /\ run'.inMemory = run.inMemory
      /\ run'.outer = run.outer /\ run'.inner = run.inner
      /\ InnerTable' = InnerTable
  BY <1>1, <1>3, <1>4, RunFacts, TypesKept DEF Places
<1>6. PlacesOk' /\ KeptFits'
  BY <1>1, <1>5 DEF PlacesOk, KeptFits
<1>7. OuterBlock' = OuterBlock
  BY <1>5 DEF OuterBlock
<1>8. Active' = Kept' \cup {OuterBlock}
  <2>1. CASE ~run.inMemory
    BY <1>3, <1>5, <2>1 DEF Kept
  <2>2. CASE run.inMemory /\ run.i > 0
    <3>1. Kept' = InnerTable /\ Kept = InnerTable
      BY <1>5, <2>2 DEF Kept
    <3>2. InnerBlock \in InnerTable
      BY <1>1, RunFacts DEF InnerBlock, InnerTable, Span
    <3> QED
      BY <1>1, <1>3, <2>2, <3>1, <3>2
  <2>3. CASE run.inMemory /\ ~(run.i > 0)
    <3>1. Kept' = Span(run.inner, 0, run.j + 1) /\ Kept = Span(run.inner, 0, run.j)
      BY <1>5, <2>3 DEF Kept, Span
    <3>2. Span(run.inner, 0, run.j + 1) = Span(run.inner, 0, run.j) \cup {InnerBlock}
      BY <1>1, RunFacts DEF Span, InnerBlock
    <3> QED
      BY <1>1, <1>3, <2>3, <3>1, <3>2
  <2> QED
    BY <2>1, <2>2, <2>3
<1> QED
  BY <1>1, <1>3, <1>5, <1>6, <1>7, <1>8
     DEF HeldIdle, HeldNested, HeldEqual, HeldUnequal, HeldRelease, HeldProbed

\* The outer block is given back when the inner table is through.
LEMMA NestedUnpinStep ==
  ASSUME JoinsInv, JoinsFit, NestedUnpin
  PROVE  JoinsInv'
<1> USE DEF NestedUnpin, JoinsInv
<1>1. /\ run # Idle /\ run.kind = "nested" /\ run.outer # run.inner
      /\ run.i < blocks[run.outer] /\ run.j = blocks[run.inner]
      /\ Active = Kept \cup {OuterBlock}
  BY RunFacts DEF PlacesOk, HeldNested, Idle, Kinds
<1>2. OuterBlock \notin Kept
  BY <1>1, RunFacts DEF OuterBlock, Kept, InnerTable, Span
<1>3. /\ PoolTypeOK' /\ Exact' /\ program' = "runs"
      /\ Active' = Kept
  <2>1. OuterBlock = <<run.outer, run.i>>
    BY DEF OuterBlock
  <2>2. /\ PoolTypeOK' /\ Exact' /\ program' = "runs"
        /\ Active' = Active \ {OuterBlock}
    BY <1>1, <2>1, RunFacts, UnpinKeeps DEF JoinsTypeOK
  <2> QED
    BY <1>1, <1>2, <2>2
<1>4. run.i + 1 \in Nat /\ run.i + 1 <= blocks[run.outer] /\ run.i + 1 > 0
  BY <1>1, RunFacts
<1>5. /\ JoinsTypeOK' /\ run' # Idle
      /\ run'.at = "outer" /\ run'.i = run.i + 1 /\ run'.j = 0
      /\ run'.kind = run.kind /\ run'.inMemory = run.inMemory
      /\ run'.outer = run.outer /\ run'.inner = run.inner
      /\ InnerTable' = InnerTable
  BY <1>1, <1>3, <1>4, RunFacts, TypesKept DEF Places
<1>6. PlacesOk' /\ KeptFits'
  BY <1>1, <1>5 DEF PlacesOk, KeptFits
<1>7. Kept' = Kept
  BY <1>1, <1>4, <1>5, RunFacts DEF Kept, InnerTable
<1> QED
  BY <1>1, <1>3, <1>5, <1>6, <1>7
     DEF HeldIdle, HeldNested, HeldEqual, HeldUnequal, HeldRelease, HeldProbed

\* At the end of the join what is kept is the whole inner table, or nothing.
LEMMA NestedEndStep ==
  ASSUME JoinsInv, JoinsFit, NestedEnd
  PROVE  JoinsInv'
<1> USE DEF NestedEnd, JoinsInv
<1>1. /\ run # Idle /\ run.kind = "nested" /\ run.j = 0 /\ run.i = blocks[run.outer]
      /\ Active = Kept
  BY RunFacts DEF PlacesOk, HeldNested, Idle, Kinds
<1>2. PoolTypeOK' /\ Exact' /\ program' = "runs" /\ Active' = Active
  BY PoolStays DEF JoinsTypeOK
<1>3. CASE run.inMemory
  <2>1. Active = InnerTable
    <3>1. CASE run.i > 0
      BY <1>1, <1>3, <3>1 DEF Kept
    <3>2. CASE ~(run.i > 0)
      <4>1. blocks[run.inner] = 0 /\ run.j = 0
        BY <1>1, <3>2, RunFacts
      <4> QED
        BY <1>1, <1>3, <3>2, <4>1 DEF Kept, InnerTable
    <3> QED
      BY <3>1, <3>2
  <2>2. /\ run' = Step("release", run.i, 0) /\ blocks' = blocks
        /\ run.i <= blocks[run.outer] /\ 0 <= blocks[run.inner]
        /\ run.i \in Nat /\ "release" \in Places
    BY <1>1, <1>3, RunFacts DEF Places
  <2>3. /\ JoinsTypeOK' /\ run' # Idle
        /\ run'.at = "release" /\ run'.i = run.i /\ run'.j = 0
        /\ run'.kind = run.kind /\ run'.inMemory = run.inMemory
        /\ run'.outer = run.outer /\ run'.inner = run.inner
        /\ InnerTable' = InnerTable
    BY <1>1, <1>2, <2>2, TypesKept
  <2>4. PlacesOk' /\ KeptFits'
    BY <1>1, <1>3, <2>3 DEF PlacesOk, KeptFits
  <2>5. Active' = Span(run'.inner, run'.j, blocks'[run'.inner])
    BY <1>2, <2>1, <2>3 DEF InnerTable
  <2> QED
    BY <1>1, <1>2, <2>3, <2>4, <2>5
       DEF HeldIdle, HeldNested, HeldEqual, HeldUnequal, HeldRelease, HeldProbed
<1>4. CASE ~run.inMemory
  <2>1. run' = Idle /\ Active' = {}
    BY <1>1, <1>2, <1>4 DEF Kept
  <2>2. JoinsTypeOK'
    BY <1>2, <2>1 DEF JoinsTypeOK
  <2> QED
    BY <1>2, <2>1, <2>2
       DEF PlacesOk, KeptFits, HeldIdle, HeldNested, HeldEqual, HeldUnequal, HeldRelease,
           HeldProbed, Idle
<1> QED
  BY <1>3, <1>4

-----------------------------------------------------------------------------
\* The steps that give the inner table back.

\* The inner blocks are given back in order.
LEMMA ReleaseStep ==
  ASSUME JoinsInv, Release
  PROVE  JoinsInv'
<1> USE DEF Release, LastReleased, JoinsInv
<1>1. run # Idle /\ Active = Span(run.inner, run.j, blocks[run.inner])
  BY DEF HeldRelease, Idle
<1>2. /\ run.j + 1 \in Nat /\ run.j + 1 <= blocks[run.inner]
      /\ run.i <= blocks[run.outer] /\ blocks' = blocks
  BY <1>1, RunFacts DEF JoinsTypeOK
<1>3. /\ PoolTypeOK' /\ Exact' /\ program' = "runs"
      /\ Active' = Active \ {<<run.inner, run.j>>}
  <2>1. <<run.inner, run.j>> \in Active
    BY <1>1, RunFacts DEF Span
  <2> QED
    BY <1>1, <2>1, RunFacts, UnpinKeeps DEF JoinsTypeOK
<1>4. run' = Step("release", run.i, run.j + 1)
  BY <1>1, RunFacts DEF Step, Runs
<1>5. /\ JoinsTypeOK' /\ run' # Idle
      /\ run'.at = "release" /\ run'.i = run.i /\ run'.j = run.j + 1
      /\ run'.kind = run.kind /\ run'.inMemory = run.inMemory
      /\ run'.outer = run.outer /\ run'.inner = run.inner
  BY <1>1, <1>2, <1>3, <1>4, RunFacts, TypesKept DEF Places
<1>6. PlacesOk' /\ KeptFits'
  BY <1>1, <1>2, <1>5 DEF PlacesOk, KeptFits
<1>7. Active' = Span(run'.inner, run'.j, blocks'[run'.inner])
  <2>1. /\ Active' = Span(run.inner, run.j, blocks[run.inner]) \ {<<run.inner, run.j>>}
        /\ run.j \in Nat /\ run.j < blocks[run.inner] /\ blocks[run.inner] \in Nat
    BY <1>1, <1>3, RunFacts
  <2>2. Span(run.inner, run.j, blocks[run.inner]) \ {<<run.inner, run.j>>}
          = Span(run.inner, run.j + 1, blocks[run.inner])
    BY <2>1 DEF Span
  <2> QED
    BY <1>2, <1>5, <2>1, <2>2
<1> QED
  BY <1>1, <1>3, <1>5, <1>6, <1>7
     DEF HeldIdle, HeldNested, HeldEqual, HeldUnequal, HeldRelease, HeldProbed

\* A step to "probe" with the counters reset keeps the invariant if nothing is pinned.
LEMMA ToProbe ==
  ASSUME JoinsInv, run # Idle, PoolTypeOK', Exact', program' = "runs", blocks' = blocks,
         Active' = {}, run' = Step("probe", 0, 0), run.kind \in {"equal", "unequal"}
  PROVE  JoinsInv'
<1> USE DEF JoinsInv
<1>1. 0 <= blocks[run.outer] /\ 0 <= blocks[run.inner]
  BY RunFacts
<1>2. /\ JoinsTypeOK' /\ run' # Idle
      /\ run'.at = "probe" /\ run'.i = 0 /\ run'.j = 0
      /\ run'.kind = run.kind /\ run'.inMemory = run.inMemory
      /\ run'.outer = run.outer /\ run'.inner = run.inner
  BY <1>1, TypesKept DEF Places
<1>3. PlacesOk' /\ KeptFits'
  BY <1>2 DEF PlacesOk, KeptFits
<1> QED
  BY <1>2, <1>3
     DEF HeldIdle, HeldNested, HeldEqual, HeldUnequal, HeldRelease, HeldProbed

\* An operation that ends with nothing pinned keeps the invariant.
LEMMA ToIdle ==
  ASSUME JoinsInv, UNCHANGED <<poolVars, blocks>>, Active = {}, run' = Idle
  PROVE  JoinsInv'
<1> USE DEF JoinsInv
<1>1. PoolTypeOK' /\ Exact' /\ program' = "runs" /\ Active' = Active
  BY PoolStays DEF JoinsTypeOK
<1>2. JoinsTypeOK'
  BY <1>1 DEF JoinsTypeOK
<1> QED
  BY <1>1, <1>2
     DEF PlacesOk, KeptFits, HeldIdle, HeldNested, HeldEqual, HeldUnequal, HeldRelease,
         HeldProbed, Idle

\* When the last inner block is given back nothing is pinned.
LEMMA ReleaseEndStep ==
  ASSUME JoinsInv, ReleaseEnd
  PROVE  JoinsInv'
<1> USE DEF ReleaseEnd, LastReleased, JoinsInv
<1>1. /\ run # Idle /\ run.kind \in {"nested", "unequal"}
      /\ Active = Span(run.inner, run.j, blocks[run.inner])
  BY RunFacts DEF HeldRelease, Idle, PlacesOk, Kinds
<1>2. Active = {}
  BY <1>1, RunFacts DEF Span
<1>3. PoolTypeOK' /\ Exact' /\ program' = "runs" /\ Active' = Active
  BY PoolStays DEF JoinsTypeOK
<1> QED
  BY <1>1, <1>2, <1>3, ToProbe, ToIdle

-----------------------------------------------------------------------------
\* The steps of heap_file_hash_join.

\* A step of a NOT_EQUAL join within the blocks it has got.
LEMMA ToUnequal ==
  ASSUME JoinsInv, run # Idle, run.kind = "unequal",
         PoolTypeOK', Exact', program' = "runs", blocks' = blocks,
         NEW place \in {"build", "built", "pairs"}, NEW i \in Nat, NEW j \in Nat,
         i <= blocks[run.inner], j <= blocks[run.inner],
         place \in {"built", "pairs"} => i < blocks[run.inner] /\ <<run.inner, i>> \in Active',
         Span(run.inner, 0, i) \subseteq Active', Active' \subseteq InnerTable,
         run' = Step(place, i, j)
  PROVE  JoinsInv'
<1> USE DEF JoinsInv
<1>1. i <= blocks[run.outer] /\ place \in Places
  BY RunFacts DEF Places
<1>2. /\ JoinsTypeOK' /\ run' # Idle
      /\ run'.at = place /\ run'.i = i /\ run'.j = j
      /\ run'.kind = run.kind /\ run'.inMemory = run.inMemory
      /\ run'.outer = run.outer /\ run'.inner = run.inner
      /\ InnerTable' = InnerTable
  BY <1>1, TypesKept
<1>3. PlacesOk' /\ KeptFits'
  BY <1>2 DEF PlacesOk, KeptFits
<1> QED
  BY <1>2, <1>3
     DEF HeldIdle, HeldNested, HeldEqual, HeldUnequal, HeldRelease, HeldProbed

\* A step of an EQUAL join that reads one inner block at a time.
LEMMA ToEqual ==
  ASSUME JoinsInv, run # Idle, run.kind = "equal",
         PoolTypeOK', Exact', program' = "runs", blocks' = blocks,
         NEW place \in {"build", "built"}, NEW i \in Nat, NEW j \in Nat,
         i <= blocks[run.inner], j <= blocks[run.inner],
         place = "built" => i < blocks[run.inner],
         Active' = IF place = "built" THEN {<<run.inner, i>>} ELSE {},
         run' = Step(place, i, j)
  PROVE  JoinsInv'
<1> USE DEF JoinsInv
<1>1. i <= blocks[run.outer] /\ place \in Places
  BY RunFacts DEF Places
<1>2. /\ JoinsTypeOK' /\ run' # Idle
      /\ run'.at = place /\ run'.i = i /\ run'.j = j
      /\ run'.kind = run.kind /\ run'.inMemory = run.inMemory
      /\ run'.outer = run.outer /\ run'.inner = run.inner
      /\ InnerTable' = InnerTable
  BY <1>1, TypesKept
<1>3. PlacesOk' /\ KeptFits'
  BY <1>2 DEF PlacesOk, KeptFits
<1> QED
  BY <1>2, <1>3
     DEF HeldIdle, HeldNested, HeldEqual, HeldUnequal, HeldRelease, HeldProbed

\* A NOT_EQUAL join whose inner table fits the pool can get any block of it.
LEMMA UnequalRoom ==
  ASSUME JoinsInv, UnequalFits, run # Idle, run.kind = "unequal",
         run.at \in {"build", "built", "pairs"},
         NEW n \in Nat, n < blocks[run.inner], Get(run.inner, n)
  PROVE  /\ PoolTypeOK' /\ Exact' /\ program' = "runs"
         /\ Active' = Active \cup {<<run.inner, n>>}
         /\ Active' \subseteq InnerTable /\ <<run.inner, n>> \in InnerTable
<1> USE DEF JoinsInv
<1>1. IsFiniteSet(InnerTable) /\ Cardinality(InnerTable) <= blocks[run.inner]
  BY RunFacts, SpanFacts DEF InnerTable
<1>2. Cardinality(InnerTable) <= Size
  BY <1>1, RunFacts, PoolAssumption, FS_CardinalityType DEF UnequalFits
<1>3. Active \subseteq InnerTable /\ <<run.inner, n>> \in InnerTable
  BY RunFacts DEF HeldUnequal, InnerTable, Span
<1>4. <<run.inner, n>> \in Keys
  BY RunFacts
<1> HIDE DEF InnerTable
<1>5. /\ PoolTypeOK' /\ Exact' /\ program' = "runs"
      /\ Active' = Active \cup {<<run.inner, n>>}
  BY <1>1, <1>2, <1>3, <1>4, RunFacts, GetKeeps DEF JoinsTypeOK
<1> QED
  BY <1>3, <1>5

\* An inner block is read to be hashed.
LEMMA BuildStep ==
  ASSUME JoinsInv, JoinsFit, UnequalFits, Build
  PROVE  JoinsInv'
<1> USE DEF Build, JoinsInv
<1>1. run # Idle /\ run.kind \in {"equal", "unequal"}
  BY RunFacts DEF PlacesOk, Idle, Kinds
<1>2. run' = Step("built", run.i, run.j) /\ blocks' = blocks
  BY <1>1, RunFacts DEF Goto, Step, Runs
<1>3. run.i \in Nat /\ run.j \in Nat /\ run.i <= blocks[run.inner] /\ run.j <= blocks[run.inner]
  BY <1>1, RunFacts DEF JoinsTypeOK
<1>4. CASE run.kind = "unequal"
  <2>1. /\ PoolTypeOK' /\ Exact' /\ program' = "runs"
        /\ Active' = Active \cup {<<run.inner, run.i>>} /\ Active' \subseteq InnerTable
    BY <1>1, <1>3, <1>4, UnequalRoom
  <2>2. Span(run.inner, 0, run.i) \subseteq Active'
    BY <1>1, <1>4, <2>1 DEF HeldUnequal
  <2> QED
    BY <1>1, <1>2, <1>3, <1>4, <2>1, <2>2, ToUnequal
<1>5. CASE run.kind = "equal"
  <2>1. Active = {}
    BY <1>1, <1>5 DEF HeldEqual
  <2>2. IsFiniteSet({<<run.inner, run.i>>}) /\ Cardinality({<<run.inner, run.i>>}) <= Size
    <3>1. IsFiniteSet({<<run.inner, run.i>>}) /\ Cardinality({<<run.inner, run.i>>}) = 1
      BY FS_Singleton
    <3> QED
      BY <3>1, PoolAssumption DEF JoinsFit
  <2>3. <<run.inner, run.i>> \in Keys
    BY <1>1, RunFacts
  <2>4. /\ PoolTypeOK' /\ Exact' /\ program' = "runs"
        /\ Active' = {<<run.inner, run.i>>}
    BY <1>1, <2>1, <2>2, <2>3, RunFacts, GetKeeps DEF JoinsTypeOK
  <2> QED
    BY <1>1, <1>2, <1>3, <1>5, <2>4, ToEqual
<1> QED
  BY <1>1, <1>4, <1>5

\* An EQUAL join gives the block back when it is hashed.
LEMMA BuildEqualStep ==
  ASSUME JoinsInv, BuildEqual
  PROVE  JoinsInv'
<1> USE DEF BuildEqual, JoinsInv
<1>1. run # Idle /\ run.i < blocks[run.inner] /\ Active = {<<run.inner, run.i>>}
  BY DEF PlacesOk, Idle, HeldEqual
<1>2. /\ run.i + 1 \in Nat /\ run.i + 1 <= blocks[run.inner]
      /\ 0 <= blocks[run.inner] /\ blocks' = blocks
  BY <1>1, RunFacts
<1>3. /\ PoolTypeOK' /\ Exact' /\ program' = "runs"
      /\ Active' = {}
  BY <1>1, RunFacts, UnpinKeeps DEF JoinsTypeOK
<1> QED
  BY <1>1, <1>2, <1>3, ToEqual

\* The blocks up to and including number i, when those before it and it are there.
LEMMA SpanNext ==
  ASSUME NEW f, NEW i \in Nat, NEW S, Span(f, 0, i) \subseteq S, <<f, i>> \in S
  PROVE  Span(f, 0, i + 1) \subseteq S
<1> SUFFICES ASSUME NEW n \in 0..((i + 1) - 1) PROVE <<f, n>> \in S
  BY DEF Span
<1>1. n \in 0..(i - 1) \/ n = i
  OBVIOUS
<1> QED
  BY <1>1 DEF Span

\* A NOT_EQUAL join goes over the inner table for the block's records, or passes on.
LEMMA BuildUnequalStep ==
  ASSUME JoinsInv, BuildUnequal
  PROVE  JoinsInv'
<1> USE DEF BuildUnequal, JoinsInv
<1>1. /\ run # Idle /\ run.i < blocks[run.inner]
      /\ Span(run.inner, 0, run.i) \subseteq Active /\ Active \subseteq InnerTable
      /\ <<run.inner, run.i>> \in Active
  BY DEF PlacesOk, Idle, HeldUnequal
<1>2. /\ run.i \in Nat /\ run.i + 1 \in Nat /\ run.i + 1 <= blocks[run.inner]
      /\ run.i <= blocks[run.inner] /\ 0 <= blocks[run.inner] /\ blocks' = blocks
  BY <1>1, RunFacts
<1>3. PoolTypeOK' /\ Exact' /\ program' = "runs" /\ Active' = Active
  BY PoolStays DEF JoinsTypeOK
<1>4. CASE run' = Step("pairs", run.i, 0)
  BY <1>1, <1>2, <1>3, <1>4, ToUnequal
<1>5. CASE run' = Step("build", run.i + 1, 0)
  <2>1. Span(run.inner, 0, run.i + 1) \subseteq Active'
    BY <1>1, <1>2, <1>3, SpanNext
  <2> QED
    BY <1>1, <1>2, <1>3, <1>5, <2>1, ToUnequal
<1> QED
  BY <1>4, <1>5

\* The pass over the inner table gets its blocks, most of them in use already.
LEMMA PairsStep ==
  ASSUME JoinsInv, UnequalFits, Pairs
  PROVE  JoinsInv'
<1> USE DEF Pairs, JoinsInv
<1>1. /\ run # Idle /\ run.kind = "unequal" /\ run.i < blocks[run.inner]
      /\ Span(run.inner, 0, run.i) \subseteq Active
      /\ <<run.inner, run.i>> \in Active
  BY RunFacts DEF PlacesOk, Idle, HeldUnequal, Kinds
<1>2. /\ run.i \in Nat /\ run.j \in Nat /\ run.j + 1 \in Nat /\ run.j + 1 <= blocks[run.inner]
      /\ run.i <= blocks[run.inner] /\ blocks' = blocks
  BY <1>1, RunFacts
<1>3. /\ PoolTypeOK' /\ Exact' /\ program' = "runs"
      /\ Active' = Active \cup {<<run.inner, run.j>>} /\ Active' \subseteq InnerTable
  BY <1>1, <1>2, UnequalRoom
<1>4. run' = Step("pairs", run.i, run.j + 1)
  BY <1>1, RunFacts DEF Step, Runs
<1>5. Span(run.inner, 0, run.i) \subseteq Active' /\ <<run.inner, run.i>> \in Active'
  BY <1>1, <1>3
<1> QED
  BY <1>1, <1>2, <1>3, <1>4, <1>5, ToUnequal

\* The pass is over, and the next inner block is due.
LEMMA PairsEndStep ==
  ASSUME JoinsInv, PairsEnd
  PROVE  JoinsInv'
<1> USE DEF PairsEnd, JoinsInv
<1>1. /\ run # Idle /\ run.kind = "unequal" /\ run.i < blocks[run.inner]
      /\ Span(run.inner, 0, run.i) \subseteq Active /\ Active \subseteq InnerTable
      /\ <<run.inner, run.i>> \in Active
  BY RunFacts DEF PlacesOk, Idle, HeldUnequal, Kinds
<1>2. /\ run.i \in Nat /\ run.i + 1 \in Nat /\ run.i + 1 <= blocks[run.inner]
      /\ 0 <= blocks[run.inner] /\ blocks' = blocks
  BY <1>1, RunFacts
<1>3. PoolTypeOK' /\ Exact' /\ program' = "runs" /\ Active' = Active
  BY PoolStays DEF JoinsTypeOK
<1>4. Span(run.inner, 0, run.i + 1) \subseteq Active'
  BY <1>1, <1>2, <1>3, SpanNext
<1> QED
  BY <1>1, <1>2, <1>3, <1>4, ToUnequal

\* When the inner table is through, a NOT_EQUAL join has all of it pinned.
LEMMA BuildEndStep ==
  ASSUME JoinsInv, BuildEnd
  PROVE  JoinsInv'
<1> USE DEF BuildEnd, JoinsInv
<1>1. run # Idle /\ run.kind \in {"equal", "unequal"}
  BY RunFacts DEF PlacesOk, Idle, Kinds
<1>2. /\ PoolTypeOK' /\ Exact' /\ program' = "runs" /\ Active' = Active
      /\ blocks' = blocks
  BY PoolStays DEF JoinsTypeOK
<1>3. CASE run.kind = "equal"
  BY <1>1, <1>2, <1>3, ToProbe DEF HeldEqual
<1>4. CASE run.kind = "unequal"
  <2>1. run' = Step("release", 0, 0)
    BY <1>4
  <2>2. Active = InnerTable
    BY <1>1, <1>4 DEF HeldUnequal, InnerTable
  <2>3. 0 <= blocks[run.outer] /\ 0 <= blocks[run.inner]
    BY <1>1, RunFacts
  <2>4. /\ JoinsTypeOK' /\ run' # Idle
        /\ run'.at = "release" /\ run'.i = 0 /\ run'.j = 0
        /\ run'.kind = run.kind /\ run'.inMemory = run.inMemory
        /\ run'.outer = run.outer /\ run'.inner = run.inner
    BY <1>1, <1>2, <2>1, <2>3, TypesKept DEF Places
  <2>5. PlacesOk' /\ KeptFits'
    BY <1>4, <2>4 DEF PlacesOk, KeptFits
  <2>6. Active' = Span(run'.inner, run'.j, blocks'[run'.inner])
    BY <1>2, <2>2, <2>4 DEF InnerTable
  <2> QED
    BY <1>2, <1>4, <2>4, <2>5, <2>6
       DEF HeldIdle, HeldNested, HeldEqual, HeldUnequal, HeldRelease, HeldProbed
<1> QED
  BY <1>1, <1>3, <1>4

-----------------------------------------------------------------------------
\* Scans, filters and the outer loop of a hash join.

\* A block is read on its own.
LEMMA ProbeStep ==
  ASSUME JoinsInv, JoinsFit, Probe
  PROVE  JoinsInv'
<1> USE DEF Probe, JoinsInv
<1>1. run # Idle /\ run.kind # "nested" /\ Active = {}
  BY RunFacts DEF PlacesOk, Idle, HeldIdle
<1>2. run' = Step("probed", run.i, run.j) /\ blocks' = blocks
  BY <1>1, RunFacts DEF Goto, Step, Runs
<1>3. /\ PoolTypeOK' /\ Exact' /\ program' = "runs"
      /\ Active' = {OuterBlock}
  <2>1. IsFiniteSet({OuterBlock}) /\ Cardinality({OuterBlock}) = 1
    BY FS_Singleton
  <2>2. Cardinality({OuterBlock}) <= Size
    BY <2>1, PoolAssumption DEF JoinsFit
  <2>3. OuterBlock = <<run.outer, run.i>> /\ OuterBlock \in Keys
    BY <1>1, RunFacts DEF OuterBlock
  <2> QED
    BY <1>1, <2>1, <2>2, <2>3, RunFacts, GetKeeps DEF JoinsTypeOK
<1>4. run.i <= blocks[run.outer] /\ run.j <= blocks[run.inner]
  BY <1>1 DEF JoinsTypeOK
<1>5. /\ JoinsTypeOK' /\ run' # Idle
      /\ run'.at = "probed" /\ run'.i = run.i /\ run'.j = run.j
      /\ run'.kind = run.kind /\ run'.inMemory = run.inMemory
      /\ run'.outer = run.outer /\ run'.inner = run.inner
  BY <1>1, <1>2, <1>3, <1>4, RunFacts, TypesKept DEF Places
<1>6. PlacesOk' /\ KeptFits'
  BY <1>1, <1>5 DEF PlacesOk, KeptFits
<1>7. OuterBlock' = OuterBlock
  BY <1>5 DEF OuterBlock
<1> QED
  BY <1>1, <1>3, <1>5, <1>6, <1>7
     DEF HeldIdle, HeldNested, HeldEqual, HeldUnequal, HeldRelease, HeldProbed

\* And given back.
LEMMA ProbedStep ==
  ASSUME JoinsInv, Probed
  PROVE  JoinsInv'
<1> USE DEF Probed, JoinsInv
<1>1. /\ run # Idle /\ run.kind # "nested" /\ Active = {OuterBlock}
      /\ run.i < blocks[run.outer]
  BY RunFacts DEF PlacesOk, Idle, HeldProbed
<1>2. /\ run.i + 1 \in Nat /\ run.i + 1 <= blocks[run.outer] /\ 0 <= blocks[run.inner]
      /\ blocks' = blocks
  BY <1>1, RunFacts
<1>3. /\ PoolTypeOK' /\ Exact' /\ program' = "runs"
      /\ Active' = {}
  <2>1. OuterBlock = <<run.outer, run.i>>
    BY DEF OuterBlock
  <2> QED
    BY <1>1, <2>1, RunFacts, UnpinKeeps DEF JoinsTypeOK
<1>4. /\ JoinsTypeOK' /\ run' # Idle
      /\ run'.at = "probe" /\ run'.i = run.i + 1 /\ run'.j = 0
      /\ run'.kind = run.kind /\ run'.inMemory = run.inMemory
      /\ run'.outer = run.outer /\ run'.inner = run.inner
  BY <1>1, <1>2, <1>3, TypesKept DEF Places
<1>5. PlacesOk' /\ KeptFits'
  BY <1>1, <1>4 DEF PlacesOk, KeptFits
<1> QED
  BY <1>3, <1>4, <1>5
     DEF HeldIdle, HeldNested, HeldEqual, HeldUnequal, HeldRelease, HeldProbed

-----------------------------------------------------------------------------
\* Operations begin with nothing pinned.

\* heap_file_scan and heap_file_filter begin.
LEMMA ScanStep ==
  ASSUME JoinsInv, NEW f \in Files, ScanTable(f)
  PROVE  JoinsInv'
<1>1. /\ PoolTypeOK' /\ Exact' /\ program' = "runs" /\ Active' = {}
      /\ blocks' = blocks /\ blocks \in [Files -> 0..MaxBlocks]
  BY PoolStays DEF ScanTable, JoinsInv, JoinsTypeOK, HeldIdle, Idle
<1>2. run' = [kind |-> "scan", at |-> "probe", outer |-> f, inner |-> f, i |-> 0, j |-> 0,
              inMemory |-> FALSE]
  BY DEF ScanTable, Running
<1>3. run' \in Runs /\ run'.at # Idle.at
  BY <1>2 DEF Runs, Idle, Kinds, Places
<1>4. blocks[f] \in Nat
  BY <1>1, PoolAssumption
<1>5. JoinsTypeOK'
  BY <1>1, <1>2, <1>3, <1>4 DEF JoinsTypeOK
<1>6. PlacesOk' /\ KeptFits'
  BY <1>2 DEF PlacesOk, KeptFits
<1> QED
  BY <1>1, <1>2, <1>5, <1>6
     DEF JoinsInv, HeldIdle, HeldNested, HeldEqual, HeldUnequal, HeldRelease, HeldProbed

\* A join begins: the table with fewer blocks becomes the inner one.
LEMMA JoinStep ==
  ASSUME JoinsInv, JoinsFit, NEW kind \in Kinds \ {"scan"}, NEW f \in Files, NEW g \in Files,
         Join(kind, f, g)
  PROVE  JoinsInv'
<1> USE DEF JoinsInv
<1>1. PoolTypeOK' /\ Exact' /\ program' = "runs" /\ Active' = {} /\ Active = {}
      /\ blocks' = blocks
  BY PoolStays DEF JoinsTypeOK, HeldIdle, Idle, Join
<1>2. PICK outer \in Files, inner \in Files :
        /\ blocks[inner] <= blocks[outer] /\ (kind = "nested" => outer # inner)
        /\ run' = IF kind = "nested"
                  THEN Running(kind, "outer", outer, inner, Fits(inner))
                  ELSE Running(kind, "build", outer, inner, FALSE)
  <2>1. blocks[f] \in Nat /\ blocks[g] \in Nat
    BY PoolAssumption DEF JoinsTypeOK
  <2>2. CASE blocks[g] > blocks[f]
    <3>1. run' = IF kind = "nested" THEN Running(kind, "outer", g, f, Fits(f))
                 ELSE Running(kind, "build", g, f, FALSE)
      BY <2>2 DEF Join
    <3>2. blocks[f] <= blocks[g] /\ (kind = "nested" => g # f)
      BY <2>1, <2>2
    <3> QED
      BY <3>1, <3>2
  <2>3. CASE ~(blocks[g] > blocks[f])
    <3>1. run' = IF kind = "nested" THEN Running(kind, "outer", f, g, Fits(g))
                 ELSE Running(kind, "build", f, g, FALSE)
      BY <2>3 DEF Join
    <3>2. blocks[g] <= blocks[f] /\ (kind = "nested" => f # g)
      BY <2>1, <2>3 DEF Join, JoinsFit
    <3> QED
      BY <3>1, <3>2
  <2> QED
    BY <2>2, <2>3
<1>3. blocks[inner] \in Nat /\ blocks[outer] \in Nat
  BY PoolAssumption DEF JoinsTypeOK
<1>4. Fits(inner) \in BOOLEAN /\ (Fits(inner) => blocks[inner] + 1 < Size)
  <2>1. count = 0
    BY <1>1, FS_EmptySet DEF Exact
  <2> QED
    BY <1>3, <2>1, PoolAssumption, JoinAssumption DEF Fits, AvailableSpace
<1>5. CASE kind = "nested"
  <2>1. run' = [kind |-> "nested", at |-> "outer", outer |-> outer, inner |-> inner,
                i |-> 0, j |-> 0, inMemory |-> Fits(inner)]
    BY <1>2, <1>5 DEF Running
  <2>2. run' \in Runs /\ run' # Idle
    BY <1>4, <2>1 DEF Runs, Idle, Kinds, Places
  <2>3. JoinsTypeOK' /\ PlacesOk' /\ KeptFits'
    BY <1>1, <1>2, <1>3, <1>4, <1>5, <2>1, <2>2 DEF JoinsTypeOK, PlacesOk, KeptFits
  <2>4. Kept' = {}
    BY <2>1 DEF Kept, Span
  <2> QED
    BY <1>1, <2>1, <2>3, <2>4
       DEF HeldIdle, HeldNested, HeldEqual, HeldUnequal, HeldRelease, HeldProbed
<1>6. CASE kind \in {"equal", "unequal"}
  <2>1. run' = [kind |-> kind, at |-> "build", outer |-> outer, inner |-> inner,
                i |-> 0, j |-> 0, inMemory |-> FALSE]
    BY <1>2, <1>6 DEF Running
  <2>2. run' \in Runs /\ run' # Idle
    BY <2>1 DEF Runs, Idle, Kinds, Places
  <2>3. JoinsTypeOK' /\ PlacesOk' /\ KeptFits'
    <3>1. JoinsTypeOK'
      <4>1. blocks[inner] <= blocks[outer]
        BY <1>2
      <4>2. /\ run'.i = 0 /\ run'.j = 0 /\ run'.inner = inner /\ run'.outer = outer
        BY <2>1
      <4> QED
        BY <1>1, <1>3, <2>2, <4>1, <4>2 DEF JoinsTypeOK
    <3>2. run'.kind = kind /\ run'.at = "build" /\ run'.i = 0 /\ run'.inner = inner
      BY <2>1
    <3>3. PlacesOk' /\ KeptFits'
      BY <1>1, <1>3, <1>6, <3>2 DEF PlacesOk, KeptFits
    <3> QED
      BY <3>1, <3>3
  <2>4. Span(run'.inner, 0, run'.i) = {}
    BY <2>1 DEF Span
  <2> QED
    BY <1>1, <1>6, <2>1, <2>3, <2>4
       DEF HeldIdle, HeldNested, HeldEqual, HeldUnequal, HeldRelease, HeldProbed
<1> QED
  BY <1>5, <1>6 DEF Kinds

-----------------------------------------------------------------------------
\* The theorems.

\* An empty pool over tables of any size satisfies the invariant.
LEMMA JoinsInitHolds == JoinsInit => JoinsInv
<1> SUFFICES ASSUME JoinsInit PROVE JoinsInv
  OBVIOUS
<1> USE DEF JoinsInit, PoolInit
<1>1. With("active") = {} /\ With("inactive") = {}
  BY DEF With
<1>2. PoolTypeOK
  <2>1. <<>> \in Seq(Keys)
    BY EmptySeq
  <2> QED
    BY <2>1, PoolAssumption DEF PoolTypeOK
<1>3. Exact
  <2>1. Range(pq) = {} /\ IsInjective(pq)
    BY DEF Range, IsInjective
  <2>2. Active = {} /\ count = 0
    BY <1>1 DEF Active
  <2> QED
    BY <1>1, <2>1, <2>2, FS_EmptySet DEF Exact
<1>4. JoinsTypeOK
  BY <1>2 DEF JoinsTypeOK
<1> QED
  BY <1>1, <1>3, <1>4
     DEF JoinsInv, PlacesOk, KeptFits, HeldIdle, HeldNested, HeldEqual, HeldUnequal, HeldRelease,
         HeldProbed, Idle, Active

\* Every step of every operation keeps the invariant.
LEMMA JoinsNextPreserves == JoinsFit /\ UnequalFits /\ JoinsInv /\ [JoinsNext]_joinVars => JoinsInv'
<1> SUFFICES ASSUME JoinsFit, UnequalFits, JoinsInv, [JoinsNext]_joinVars PROVE JoinsInv'
  OBVIOUS
<1>1. CASE UNCHANGED joinVars
  BY <1>1 DEF joinVars, JoinsInv, JoinsTypeOK, PoolTypeOK, Exact, Active, With, PlacesOk, KeptFits,
              HeldIdle, HeldNested, HeldEqual, HeldUnequal, HeldRelease, HeldProbed,
              Kept, InnerTable, Span, OuterBlock, InnerBlock
<1>2. CASE NestedOuter \/ NestedInner \/ NestedNext \/ NestedUnpin \/ NestedEnd
  BY <1>2, NestedOuterStep, NestedInnerStep, NestedNextStep, NestedUnpinStep, NestedEndStep
<1>3. CASE Release \/ ReleaseEnd
  BY <1>3, ReleaseStep, ReleaseEndStep
<1>4. CASE Build \/ BuildEqual \/ BuildUnequal \/ Pairs \/ PairsEnd \/ BuildEnd
  BY <1>4, BuildStep, BuildEqualStep, BuildUnequalStep, PairsStep, PairsEndStep, BuildEndStep
<1>5. CASE Probe \/ Probed
  BY <1>5, ProbeStep, ProbedStep
<1>6. CASE ProbeEnd
  BY <1>6, ToIdle DEF ProbeEnd, JoinsInv, HeldIdle
<1>7. ASSUME NEW f \in Files, ScanTable(f) PROVE JoinsInv'
  BY <1>7, ScanStep
<1>8. ASSUME NEW f \in Files, NEW g \in Files, NEW kind \in Kinds \ {"scan"}, Join(kind, f, g)
      PROVE  JoinsInv'
  BY <1>8, JoinStep
<1> QED
  BY <1>1, <1>2, <1>3, <1>4, <1>5, <1>6, <1>7, <1>8 DEF JoinsNext

\* The inductive invariant holds as long as NOT_EQUAL joins fit.
LEMMA JoinsInductive ==
  ASSUME JoinsFit
  PROVE  JoinsSpec /\ []UnequalFits => []JoinsInv
<1>1. JoinsInit => JoinsInv
  BY JoinsInitHolds
<1>2. UnequalFits /\ JoinsInv /\ [JoinsNext]_joinVars => JoinsInv'
  BY JoinsNextPreserves
<1> QED
  BY <1>1, <1>2, PTL DEF JoinsSpec

(* The pool and the operation under way keep their types; the loops of a   *)
(* join never leave its tables.                                            *)
THEOREM TypeCorrect ==
  ASSUME JoinsFit
  PROVE  JoinsSpec /\ []UnequalFits => []JoinsTypeOK
<1>1. JoinsInv => JoinsTypeOK
  BY DEF JoinsInv
<1> QED
  BY <1>1, JoinsInductive, PTL

(* Nothing is pinned between operations, so each has given back what it    *)
(* got, whichever way it read its tables.                                  *)
THEOREM EverythingReleased ==
  ASSUME JoinsFit
  PROVE  JoinsSpec /\ []UnequalFits => []AllReleased
<1>1. JoinsInv => AllReleased
  BY FS_EmptySet DEF JoinsInv, HeldIdle, Exact, Active, AllReleased, Idle
<1> QED
  BY <1>1, JoinsInductive, PTL

(* count is the number of active blocks and the queue holds each inactive  *)
(* block once, in the middle of every operation too.                       *)
THEOREM PoolIsExact ==
  ASSUME JoinsFit
  PROVE  JoinsSpec /\ []UnequalFits => []PoolExact
<1>1. JoinsInv => PoolExact
  BY DEF JoinsInv, Exact, Active, PoolExact
<1> QED
  BY <1>1, JoinsInductive, PTL

(* No operation unpins a block that is not cached or takes one from an     *)
(* empty queue.                                                            *)
THEOREM NeverFaults ==
  ASSUME JoinsFit
  PROVE  JoinsSpec /\ []UnequalFits => []NoFault
<1>1. JoinsInv => NoFault
  BY DEF JoinsInv, NoFault
<1> QED
  BY <1>1, JoinsInductive, PTL

\* What a nested loop join has pinned lies within the inner table it keeps, or
\* two blocks if it keeps none.
LEMMA NestedHolds == JoinsFit /\ JoinsInv => NestedFits
<1> SUFFICES ASSUME JoinsFit, JoinsInv, run # Idle, run.kind = "nested"
             PROVE  Cardinality(Active) < Size
  BY DEF NestedFits, Active
<1> DEFINE S == (IF run.inMemory THEN InnerTable ELSE {InnerBlock}) \cup {OuterBlock}
<1>1. run.at \in {"outer", "inner", "got", "release"} /\ JoinsTypeOK
  BY DEF JoinsInv, PlacesOk
<1>2. IsFiniteSet(S) /\ Cardinality(S) < Size
  BY NestedRoom DEF JoinsInv
<1>3. Active \subseteq S
  <2>1. CASE run.at = "release"
    BY <1>1, <2>1, RunFacts DEF JoinsInv, HeldRelease, KeptFits, InnerTable, Span
  <2>2. CASE run.at \in {"outer", "inner"}
    BY <1>1, <2>2, KeptWithin DEF JoinsInv, HeldNested
  <2>3. CASE run.at = "got"
    <3>1. InnerBlock \in InnerTable
      BY <1>1, <2>3, RunFacts DEF JoinsInv, PlacesOk, InnerBlock, InnerTable, Span
    <3> QED
      BY <1>1, <2>3, <3>1, KeptWithin DEF JoinsInv, HeldNested
  <2> QED
    BY <1>1, <2>1, <2>2, <2>3
<1> HIDE DEF S
<1>4. Cardinality(Active) <= Cardinality(S) /\ Cardinality(S) \in Nat /\ Cardinality(Active) \in Nat
  BY <1>2, <1>3, FS_Subset, FS_CardinalityType
<1> QED
  BY <1>2, <1>4, PoolAssumption

(* A nested loop join never fills the pool, however large its tables are   *)
(* and however small the pool.                                             *)
THEOREM NestedJoinFits ==
  ASSUME JoinsFit
  PROVE  JoinsSpec /\ []UnequalFits => []NestedFits
<1>1. JoinsInv => NestedFits
  BY NestedHolds
<1> QED
  BY <1>1, JoinsInductive, PTL
=============================================================================
