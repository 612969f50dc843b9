------------------------------- MODULE Query -------------------------------
(***************************************************************************)
(* database_query (src/rdbms/db_files/db_file.c) with the semantic check   *)
(* (src/rdbms/compiler/semantic.c): a query is parsed and checked, each    *)
(* expression of WHERE, or else each table of FROM, makes a result set     *)
(* that is combined with those before it, and the last one is finalized.   *)
(*                                                                         *)
(* One query runs by itself here, over files it only reads.  Faulted is    *)
(* undefined behaviour: the peer is ended or anything is answered.         *)
(***************************************************************************)
EXTENDS Parser, ResultSets

CONSTANT Databases \* the databases queries are asked of

VARIABLES
  db,    \* the blocks of records of each table
  next,  \* the expression, or the table, to evaluate next; 0 before the check
  set,   \* the result set so far
  answer \* the records returned

vars == <<query, tokens, stm, at, db, next, set, answer>>

ASSUME QueryAssumption ==
  \A d \in Databases : DOMAIN d = Tables

NoSet == [tables |-> <<>>, results |-> <<>>]

Init ==
  /\ ParserInit
  /\ db \in Databases
  /\ next = 0
  /\ set = NoSet
  /\ answer = <<>>

-----------------------------------------------------------------------------
Known(var) == var.table \in Tables /\ FieldPos(var.table, var.column) # 0

\* smemantic_analyze looks at the tables of FROM and the variables of SELECT.
Analyze ==
  /\ at = "parsed"
  /\ at' = IF /\ \A k \in DOMAIN stm.tables : stm.tables[k] \in Tables
              /\ \A k \in DOMAIN stm.vars : Known(stm.vars[k])
           THEN "evaluating" ELSE "rejected"
  /\ next' = 1
  /\ UNCHANGED <<query, tokens, stm, db, set, answer>>

IsVar(operand) == operand.type = "VAR"
VarOf(operand) == Var("VAR", operand)
IsJoin(e) == IsVar(e.x) /\ IsVar(e.y)

\* decide_expression's filter: the variable and the value, whichever is first,
\* with the operator as it is.
FilterOf(e) ==
  IF IsVar(e.x) THEN [var |-> VarOf(e.x), value |-> e.y.data[1]]
  ELSE [var |-> VarOf(e.y), value |-> e.x.data[1]]

Hashed(e) == e.op \in {"EQUAL", "NOT_EQUAL"}

\* A value is taken for a variable, a table that is not there is looked into,
\* or a join reads a column that is not there of a record it has come to.
ExprFaults(e) ==
  \/ ~IsVar(e.x) /\ ~IsVar(e.y)
  \/ \E o \in {e.x, e.y} : IsVar(o) /\ VarOf(o).table \notin Tables
  \/ IsJoin(e) /\
     LET sides == Sides(db, VarOf(e.x), VarOf(e.y))
         Empty(k) == RecordsOf(db, sides[k].table) = <<>>
     IN \/ \E k \in {1, 2} :
             /\ ~Known(sides[k])
             /\ ~Empty(k)
             /\ Hashed(e) \/ ~Empty(3 - k)
        \/ /\ Known(sides[1]) /\ Known(sides[2])
           /\ Hashed(e) /\ HashJoinFaults(db, VarOf(e.x), VarOf(e.y), e.op)

\* The result set of an expression; a filter on a column that is not there
\* has none.
SetOf(e) ==
  IF IsJoin(e)
  THEN IF Hashed(e) THEN HashJoin(db, VarOf(e.x), VarOf(e.y), e.op)
       ELSE Bnl(db, VarOf(e.x), VarOf(e.y), e.op)
  ELSE LET f == FilterOf(e)
       IN IF Known(f.var) THEN Filter(db, f.var, e.op, f.value) ELSE NoSet

\* The first set is taken as it is, later ones go through result_set_and.
Combine(new) ==
  IF set = NoSet THEN set' = new /\ next' = next + 1 /\ UNCHANGED at
  ELSE IF new = NoSet \/ AndFaults(set, new) THEN at' = "faulted" /\ UNCHANGED <<set, next>>
  ELSE set' = And(set, new) /\ next' = next + 1 /\ UNCHANGED at

EvaluateExpr ==
  /\ at = "evaluating" /\ next \in DOMAIN stm.expr
  /\ IF ExprFaults(stm.expr[next]) THEN at' = "faulted" /\ UNCHANGED <<set, next>>
     ELSE Combine(SetOf(stm.expr[next]))
  /\ UNCHANGED <<query, tokens, stm, db, answer>>

\* Without a WHERE clause.
EvaluateTable ==
  /\ at = "evaluating" /\ stm.expr = <<>> /\ next \in DOMAIN stm.tables
  /\ Combine(Scan(db, stm.tables[next]))
  /\ UNCHANGED <<query, tokens, stm, db, answer>>

Finalize ==
  /\ at = "evaluating"
  /\ next > Len(IF stm.expr = <<>> THEN stm.tables ELSE stm.expr)
  /\ IF set = NoSet \/ GroupFaults(set, stm)
     THEN at' = "faulted" /\ UNCHANGED answer
     ELSE \E groups \in Groupings(set, stm) :
            IF RowFaults(set, stm, groups) THEN at' = "faulted" /\ UNCHANGED answer
            ELSE at' = "answered" /\ answer' = Answer(set, stm, groups)
  /\ UNCHANGED <<query, tokens, stm, db, next, set>>

\* The query is over.
Done == at \in {"answered", "rejected", "faulted"} /\ UNCHANGED vars

Next ==
  \/ Parse /\ UNCHANGED <<db, next, set, answer>>
  \/ Analyze \/ EvaluateExpr \/ EvaluateTable \/ Finalize \/ Done

Spec == Init /\ [][Next]_vars
=============================================================================
