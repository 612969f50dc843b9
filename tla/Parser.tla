------------------------------- MODULE Parser -------------------------------
(***************************************************************************)
(* The statement parser (src/rdbms/compiler/parser.c).  It pops tokens off *)
(* the list tokenize made of a query and fills a statement in: one action  *)
(* for each clause, one step for each turn of a clause's loop.             *)
(*                                                                         *)
(* A token is its type and the sequence of what its data holds: nothing, a *)
(* number, a string, a table, or the table and column of a VAR.  A word    *)
(* that ends with its dot is a VAR as well, without a column.  No tokens   *)
(* at all is what tokenize makes of a query it has an error in.            *)
(* "rejected" is a NULL statement; "faulted" an access through NULL, which *)
(* ends the peer.                                                          *)
(***************************************************************************)
EXTENDS Records

CONSTANT Queries \* the token lists of queries

\* strtok (NULL, ".") finds no column in a VAR's data.
NoColumn(token) == token.type = "VAR" /\ Len(token.data) = 1

\* A token's data by its type, which is "NONE" of none.
IsToken(token) ==
  LET data == token.data
  IN /\ token.type # "NONE"
     /\ token = [type |-> token.type, data |->
          IF token.type = "VAR" /\ ~NoColumn(token) THEN <<data[1], data[2]>>
          ELSE IF token.type \in {"VAR", "INT", "DOUBLE", "STRING", "TABLE"} THEN <<data[1]>>
          ELSE <<>>]

ASSUME ParserAssumption ==
  \A q \in Queries : q \in Seq(Range(q)) /\ \A token \in Range(q) : IsToken(token)

VARIABLES
  query,  \* what tokenize returned
  tokens, \* what is left of it
  stm,    \* the statement
  at      \* where parsing, and then answering, has come to

parserVars == <<query, tokens, stm, at>>

Aggregates == {"COUNT", "SUM"}
Operands == {"VAR", "INT", "DOUBLE", "STRING"}

\* The statement parse_statement starts from; group and order hold one
\* variable or none, and no limit is limit 0.
EmptyStatement ==
  [vars |-> <<>>, tables |-> <<>>, expr |-> <<>>, group |-> <<>>, order |-> <<>>,
   limit |-> 0]

ParserInit ==
  /\ query \in Queries
  /\ tokens = query
  /\ stm = EmptyStatement
  /\ at = "statement"

-----------------------------------------------------------------------------
\* The type of the i-th token ahead, "NONE" past the end.
TypeAt(i) == IF i \in DOMAIN tokens THEN tokens[i].type ELSE "NONE"

\* The variable a VAR token names.
Var(type, token) == [type |-> type, table |-> token.data[1], column |-> token.data[2]]

\* How many tokens the variable that starts at the i-th takes, 0 if none does.
VarLength(i) ==
  IF TypeAt(i) = "VAR" THEN 1
  ELSE IF /\ TypeAt(i) \in Aggregates
          /\ <<TypeAt(i + 1), TypeAt(i + 2), TypeAt(i + 3)>> =
               <<"LEFT_PARENTHESIS", "VAR", "RIGHT_PARENTHESIS">>
       THEN 4
  ELSE 0

\* Its VAR token.
VarToken(i) == IF TypeAt(i) = "VAR" THEN tokens[i] ELSE tokens[i + 2]
VarAt(i) == Var(TypeAt(i), VarToken(i))

\* strdup (NULL), for the column of the variable that starts at the i-th.
ColumnFaults(i) == VarLength(i) > 0 /\ NoColumn(VarToken(i))

\* n tokens are popped, s is the statement now and parsing goes on at next.
Accept(n, next, s) ==
  /\ tokens' = SubSeq(tokens, n + 1, Len(tokens))
  /\ stm' = s
  /\ at' = next
  /\ UNCHANGED query

Reject == at' = "rejected" /\ UNCHANGED <<query, tokens, stm>>
Fault == at' = "faulted" /\ UNCHANGED <<query, tokens, stm>>

-----------------------------------------------------------------------------
ParseStatement ==
  /\ at = "statement"
  /\ \/ TypeAt(1) = "NONE" /\ Fault
     \/ TypeAt(1) = "SELECT" /\ Accept(1, "vars", stm)
     \/ TypeAt(1) \notin {"NONE", "SELECT"} /\ Reject

\* A variable and the comma or FROM after it.
ParseVarList ==
  /\ at = "vars"
  /\ LET n == VarLength(1)
         last == TypeAt(n + 1)
     IN IF ~(n > 0 /\ last \in {"COMMA", "FROM"}) THEN Reject
        ELSE IF ColumnFaults(1) THEN Fault
        ELSE Accept(n + 1, IF last = "COMMA" THEN "vars" ELSE "tables",
                    [stm EXCEPT !.vars = Append(@, VarAt(1))])

\* A table and the comma after it, if there is one.
ParseTableList ==
  /\ at = "tables"
  /\ LET last == TypeAt(2)
     IN IF TypeAt(1) = "TABLE" /\ last \in {"COMMA", "WHERE", "GROUP", "ORDER", "LIMIT", "NONE"}
        THEN Accept(IF last = "COMMA" THEN 2 ELSE 1, IF last = "COMMA" THEN "tables" ELSE "where",
                    [stm EXCEPT !.tables = Append(@, tokens[1].data[1])])
        ELSE Reject

ParseWhereClause ==
  /\ at = "where"
  /\ IF TypeAt(1) = "WHERE" THEN Accept(1, "expr", stm) ELSE Accept(0, "group", stm)

\* parse_expr, and the AND after it, if there is one.
ParseExpr ==
  /\ at = "expr"
  /\ LET last == TypeAt(4)
     IN IF ~(TypeAt(1) \in Operands /\ TypeAt(2) \in Comparisons /\ TypeAt(3) \in Operands)
        THEN Reject
        ELSE IF ColumnFaults(1) \/ ColumnFaults(3) THEN Fault
        ELSE IF last \in {"AND", "GROUP", "ORDER", "LIMIT", "NONE"}
        THEN Accept(IF last = "AND" THEN 4 ELSE 3, IF last = "AND" THEN "expr" ELSE "group",
                    [stm EXCEPT !.expr = Append(@, [x |-> tokens[1], op |-> TypeAt(2),
                                                    y |-> tokens[3]])])
        ELSE Reject

\* The tokens end after GROUP or ORDER, or after its BY.
CutShort == "NONE" \in {TypeAt(2), TypeAt(IF TypeAt(2) = "BY" THEN 3 ELSE 2)}

ParseGroupClause ==
  /\ at = "group"
  /\ \/ TypeAt(1) # "GROUP" /\ Accept(0, "order", stm)
     \/ /\ TypeAt(1) = "GROUP"
        /\ IF CutShort \/ (<<TypeAt(2), TypeAt(3)>> = <<"BY", "VAR">> /\ ColumnFaults(3)) THEN Fault
           ELSE IF TypeAt(2) = "BY" /\ TypeAt(3) = "VAR" /\ TypeAt(4) \in {"ORDER", "LIMIT", "NONE"}
           THEN Accept(3, "order", [stm EXCEPT !.group = <<VarAt(3)>>])
           ELSE Reject

\* A slip in parse_order_clause: the two directions' branches are swapped.
AscendingSwapped(last) == last = "DESC"

\* isAsc, from the token after the variable.
Ascending(last) == last = "ASC"

ParseOrderClause ==
  /\ at = "order"
  /\ \/ TypeAt(1) # "ORDER" /\ Accept(0, "limit", stm)
     \/ /\ TypeAt(1) = "ORDER"
        /\ LET n == VarLength(3)
               last == TypeAt(n + 3)
           IN IF CutShort \/ (TypeAt(2) = "BY" /\ ColumnFaults(3)) THEN Fault
              ELSE IF TypeAt(2) = "BY" /\ n > 0 /\ last \in {"ASC", "DESC", "LIMIT", "NONE"}
              THEN Accept(IF last \in {"ASC", "DESC"} THEN n + 3 ELSE n + 2, "limit",
                          [stm EXCEPT !.order = <<[var |-> VarAt(3), asc |-> Ascending(last)]>>])
              ELSE Reject

\* A slip in parse_limit_clause: the list's length is not looked at first.
ParseLimitClauseUnguarded ==
  /\ at = "limit"
  /\ IF "NONE" \in {TypeAt(1), TypeAt(2)} THEN Fault
     ELSE Accept(2, "parsed", [stm EXCEPT !.limit = tokens[2].data[1]])

ParseLimitClause ==
  /\ at = "limit"
  /\ \/ TypeAt(1) = "NONE" /\ Accept(0, "parsed", stm)
     \/ /\ TypeAt(1) # "NONE"
        /\ IF <<TypeAt(1), TypeAt(2)>> = <<"LIMIT", "NONE">> THEN Fault
           ELSE IF <<TypeAt(1), TypeAt(2), TypeAt(3)>> = <<"LIMIT", "INT", "NONE">>
           THEN Accept(2, "parsed", [stm EXCEPT !.limit = tokens[2].data[1]])
           ELSE Reject

Parse ==
  \/ ParseStatement \/ ParseVarList \/ ParseTableList \/ ParseWhereClause \/ ParseExpr
  \/ ParseGroupClause \/ ParseOrderClause \/ ParseLimitClause
=============================================================================
