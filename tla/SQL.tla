-------------------------------- MODULE SQL --------------------------------
(***************************************************************************)
(* What a query should answer, stated over the database's records without  *)
(* result sets, and for which statements Query answers so.                 *)
(***************************************************************************)
EXTENDS Query, FiniteSetsExt

-----------------------------------------------------------------------------
(* The meaning of a statement.                                             *)

\* A row of the tables' product: a record of each table.
Combos(tables) ==
  {c \in [tables -> UNION {Range(RecordsOf(db, t)) : t \in tables}] :
     \A t \in tables : c[t] \in Range(RecordsOf(db, t))}

Of(c, var) == Field(c[var.table], var)
Meaning(c, operand) == IF IsVar(operand) THEN Of(c, VarOf(operand)) ELSE operand.data[1]
Holds(c, e) == Condition(Meaning(c, e.x) - Meaning(c, e.y), e.op)

\* The product's rows that the first n expressions hold of.
Satisfying(tables, n) == {c \in Combos(tables) : \A i \in 1..n : Holds(c, stm.expr[i])}

Matching == Satisfying(Range(stm.tables), Len(stm.expr))

Aggregated == \E k \in DOMAIN stm.vars : IsAggregate(stm.vars[k])

\* The groups of matching rows that one row of the answer is made from each.
MeantGroups ==
  IF stm.group # <<>>
  THEN {{d \in Matching : Of(d, stm.group[1]) = Of(c, stm.group[1])} : c \in Matching}
  ELSE IF Aggregated THEN {Matching} ELSE {{c} : c \in Matching}

Total(group, var) == MapThenSumSet(LAMBDA c : Of(c, var), group)

MeantRow(group) ==
  [k \in DOMAIN stm.vars |->
     LET var == stm.vars[k]
     IN IF var.type = "COUNT" THEN Cardinality(group)
        ELSE IF var.type = "SUM" THEN Total(group, var)
        ELSE Of(CHOOSE c \in group : TRUE, var)]

\* r1 comes strictly before r2 in the order asked for.
Precedes(r1, r2) ==
  stm.order # <<>> /\
  LET k == OrderPos(stm)
  IN IF stm.order[1].asc THEN r1[k] < r2[k] ELSE r1[k] > r2[k]

-----------------------------------------------------------------------------
(* The statements that are answered so.  Each part names what a statement, *)
(* or the database, must not be like, and the code that it is for.         *)

TablesOf(e) == {VarOf(o).table : o \in {p \in {e.x, e.y} : IsVar(p)}}
TablesUpTo(n) == UNION {TablesOf(stm.expr[i]) : i \in 1..n}
Exprs == Range(stm.expr)
Joining == {e \in Exprs : IsJoin(e)}
SidesOf(e) == Sides(db, VarOf(e.x), VarOf(e.y))
Symmetric(e) == Hashed(e)

Asked(var) == Known(var) /\ var.table \in Range(stm.tables)

\* Only FROM and SELECT are checked (semantic.c), and each only against the
\* database: SELECT, WHERE, GROUP BY and ORDER BY may go past FROM.
NamesMeant ==
  /\ IsInjective(stm.tables)
  /\ \A k \in DOMAIN stm.vars : Asked(stm.vars[k])
  /\ \A e \in Exprs : \A o \in {e.x, e.y} : IsVar(o) => Asked(VarOf(o))
  /\ \A k \in DOMAIN stm.group : Asked(stm.group[k])

\* With a WHERE clause FROM is not read (db_file.c:124): a table without an
\* expression is left out.  Without one the tables from the third on are
\* misplaced (result_set.c:94).
TablesRead ==
  IF stm.expr = <<>> THEN Len(stm.tables) <= 2
  ELSE TablesUpTo(Len(stm.expr)) = Range(stm.tables)

\* An expression on one table's two columns is a join of it with itself, two
\* numbers are taken for a variable, and a number on the left is compared as
\* if it were on the right (db_file.c:225).
OperandsMeant ==
  \A e \in Exprs :
    /\ IsVar(e.x) /\ IsVar(e.y) => VarOf(e.x).table # VarOf(e.y).table
    /\ IsVar(e.x) \/ (IsVar(e.y) /\ Symmetric(e))

\* The sides of an inequality are swapped without it (bnl.c:27).
NoneSwapped == \A e \in Joining : Symmetric(e) \/ SidesOf(e)[1] = VarOf(e.x)

\* A freed record is copied (hash_join.c:166), and an outer value that is not
\* among the inner ones differs from none of them (hash_join.c:219).
HashesMeant ==
  \A e \in Joining :
    /\ ~HashJoinFaults(db, VarOf(e.x), VarOf(e.y), e.op)
    /\ e.op = "NOT_EQUAL" =>
         LET Values(k) == {Field(r, SidesOf(e)[k]) : r \in Range(RecordsOf(db, SidesOf(e)[k].table))}
         IN Values(2) = {} \/ Values(1) \subseteq Values(2)

\* A join's second table is lost when the first is all there was before
\* (result_set.c:83), and tables are misplaced in the sets that are combined
\* with a cross product (result_set.c:94).
NoneLost ==
  \A n \in 2..Len(stm.expr) :
    LET e == stm.expr[n]
    IN /\ e \in Joining => \/ TablesUpTo(n - 1) # {SidesOf(e)[1].table}
       /\ TablesOf(e) \cap TablesUpTo(n - 1) = {} => n = Len(stm.expr)

\* Records are told apart by their fields (record.c:50), whatever table or
\* place they are from.
RecordsDistinct ==
  IsInjective(FlattenSeq([k \in DOMAIN stm.tables |-> RecordsOf(db, stm.tables[k])]))

\* Differences and sums wrap around (databox.c:43, :81).
NothingWraps ==
  LET numbers == UNION {Range(r) : r \in UNION {Range(RecordsOf(db, t)) : t \in Range(stm.tables)}}
                 \cup {o.data[1] : o \in {p \in {e.x : e \in Exprs} \cup {e.y : e \in Exprs} : ~IsVar(p)}}
      rows == {MeantRow(g) : g \in MeantGroups \ {{}}}
  IN /\ \A i, j \in numbers : i - j \in Ints
     /\ \A r \in rows : Range(r) \subseteq Ints
     /\ stm.order # <<>> => \A r1, r2 \in rows : r1[OrderPos(stm)] - r2[OrderPos(stm)] \in Ints

\* A selected variable is the group's, or there is no aggregate, and an
\* aggregate of no rows has no row (result_set.c:340).
RowsMeant ==
  /\ \A k \in DOMAIN stm.vars : ~IsAggregate(stm.vars[k]) =>
       /\ Aggregated => stm.group # <<>>
       /\ stm.group # <<>> => stm.vars[k] = stm.group[1]
  /\ Aggregated /\ stm.group = <<>> => Matching # {}

\* ORDER BY sorts on a selected field, the first of that name (result_set.c:392),
\* and not in the direction that goes without saying (parser.c:114); LIMIT 0 is
\* no limit (result_set.c:407).
OrderMeant ==
  /\ stm.order # <<>> =>
       /\ OrderPos(stm) \in DOMAIN stm.vars
       /\ stm.vars[OrderPos(stm)] = stm.order[1].var
       /\ \E i \in DOMAIN query : query[i].type \in {"ASC", "DESC"}
  /\ (\E i \in DOMAIN query : query[i].type = "LIMIT") => stm.limit > 0

Supported ==
  /\ NamesMeant /\ TablesRead /\ OperandsMeant /\ NoneSwapped /\ HashesMeant /\ NoneLost
  /\ RecordsDistinct /\ OrderMeant /\ RowsMeant /\ NothingWraps

-----------------------------------------------------------------------------
(* Properties.                                                             *)

\* Whatever is computed, also of overflowing differences and sums, is an int,
\* and what has not begun is empty.
TypeOK ==
  /\ at \in {"statement", "vars", "tables", "where", "expr", "group", "order", "limit",
             "parsed", "evaluating", "answered", "rejected", "faulted"}
  /\ next \in 0..(Len(stm.expr) + Len(stm.tables) + 1)
  /\ answer \in Seq(Seq(Ints))
  /\ next = 0 => set = NoSet

\* The tokens that say a statement.
Keyword(type) == [type |-> type, data |-> <<>>]
SaidVar(v) ==
  LET token == [type |-> "VAR", data |-> <<v.table, v.column>>]
  IN IF IsAggregate(v)
     THEN <<Keyword(v.type), Keyword("LEFT_PARENTHESIS"), token, Keyword("RIGHT_PARENTHESIS")>>
     ELSE <<token>>
Separated(parts, type) ==
  FlattenSeq([i \in DOMAIN parts |-> IF i = 1 THEN parts[i] ELSE <<Keyword(type)>> \o parts[i]])
Clause(types, parts, between) ==
  IF parts = <<>> THEN <<>>
  ELSE [i \in DOMAIN types |-> Keyword(types[i])] \o Separated(parts, between)

Sayings ==
  LET start == Clause(<<"SELECT">>, [k \in DOMAIN stm.vars |-> SaidVar(stm.vars[k])], "COMMA")
        \o Clause(<<"FROM">>, [k \in DOMAIN stm.tables |->
             <<[type |-> "TABLE", data |-> <<stm.tables[k]>>]>>], "COMMA")
        \o Clause(<<"WHERE">>, [k \in DOMAIN stm.expr |->
             <<stm.expr[k].x, Keyword(stm.expr[k].op), stm.expr[k].y>>], "AND")
        \o Clause(<<"GROUP", "BY">>, [k \in DOMAIN stm.group |-> SaidVar(stm.group[k])], "COMMA")
        \o Clause(<<"ORDER", "BY">>, [k \in DOMAIN stm.order |-> SaidVar(stm.order[k].var)], "COMMA")
      directions == IF stm.order = <<>> THEN {<<>>}
                    ELSE IF stm.order[1].asc THEN {<<Keyword("ASC")>>}
                    ELSE {<<Keyword("DESC")>>, <<>>}
      limits == {<<Keyword("LIMIT"), [type |-> "INT", data |-> <<stm.limit>>]>>}
                \cup (IF stm.limit = 0 THEN {<<>>} ELSE {})
  IN {start \o d \o l : d \in directions, l \in limits}

\* The statement parsed from a query says every word of it, in its order, and
\* nothing more: no clause's loop loses or takes a token of another's.
SaidIsParsed == at = "parsed" => query \in Sayings

\* The only queries that end the peer while they are parsed are those that
\* tokenize has an error in, those cut short after GROUP, ORDER, BY or LIMIT,
\* and those with a variable cut short after its dot; every other ill-formed
\* one is rejected.
OnlyCutQueriesFault ==
  at = "faulted" /\ next = 0 =>
    \/ query = <<>>
    \/ query[Len(query)].type \in {"GROUP", "ORDER", "BY", "LIMIT"}
    \/ \E i \in DOMAIN query : NoColumn(query[i])

\* After each expression of a supported statement the result set holds each
\* row of the product of its tables that the expressions so far hold of, and
\* holds it once.
StepRight ==
  at = "evaluating" /\ set # NoSet /\ Supported =>
    LET rows == Satisfying(Range(set.tables), IF stm.expr = <<>> THEN 0 ELSE next - 1)
        items == set.results
    IN /\ Len(items) = Cardinality(rows)
       /\ {Range(items[i]) : i \in DOMAIN items} = {Range(c) : c \in rows}

\* A supported statement is answered, with the rows SQL gives it: each as often
\* as it is meant to be there, in the order asked for, and as many of the first
\* ones as LIMIT allows.
AnswerRight ==
  at \in {"answered", "rejected", "faulted"} /\ next > 0 /\ Supported =>
    LET groups == MeantGroups
        Meant(r) == Cardinality({g \in groups : MeantRow(g) = r})
        Given(r) == Cardinality({i \in DOMAIN answer : answer[i] = r})
        size == Cardinality(groups)
    IN /\ at = "answered"
       /\ Len(answer) = IF stm.limit > 0 /\ stm.limit < size THEN stm.limit ELSE size
       /\ \A i \in DOMAIN answer : Given(answer[i]) <= Meant(answer[i])
       /\ \A i, j \in DOMAIN answer : i < j => ~Precedes(answer[j], answer[i])
       /\ \A g \in groups, i \in DOMAIN answer :
            Given(MeantRow(g)) < Meant(MeantRow(g)) => ~Precedes(MeantRow(g), answer[i])
=============================================================================
