------------------------------- MODULE Joins -------------------------------
(***************************************************************************)
(* The operations that make a result set from the tables of a database:    *)
(* heap_file_scan and heap_file_filter (src/rdbms/db_files/heapfile.c),    *)
(* heap_file_bnl and heap_file_hash_join (src/rdbms/joins/).  Blocks are   *)
(* got and unpinned as HeapFile and BlockStore describe.                   *)
(*                                                                         *)
(* A result set names its tables; each of its results, an item, is the     *)
(* sequence of one record from each of them.                               *)
(***************************************************************************)
EXTENDS Records

\* result_set_add_table
AddTable(tables, t) == IF t \in Range(tables) THEN tables ELSE Append(tables, t)

Scan(db, t) ==
  [tables |-> <<t>>,
   results |-> [i \in DOMAIN RecordsOf(db, t) |-> <<RecordsOf(db, t)[i]>>]]

Filter(db, var, op, value) ==
  [tables |-> <<var.table>>,
   results |-> SelectSeq(Scan(db, var.table).results,
                         LAMBDA item : Condition(Compare(Field(item[1], var), value), op))]

\* The two variables of a join, that of the table with more blocks first.
\* The operator between them stays as it was.
Sides(db, x, y) == IF Len(db[y.table]) > Len(db[x.table]) THEN <<y, x>> ELSE <<x, y>>

JoinTables(sides) == AddTable(AddTable(<<>>, sides[1].table), sides[2].table)

\* heap_file_bnl: record pairs of every pair of blocks.
Bnl(db, x, y, op) ==
  LET sides == Sides(db, x, y)
      blocks == NestedLoop(db[sides[1].table], db[sides[2].table])
      pairs == FlattenSeq([k \in DOMAIN blocks |-> NestedLoop(blocks[k][1], blocks[k][2])])
  IN [tables |-> JoinTables(sides),
      results |-> SelectSeq(pairs, LAMBDA p :
                    Condition(Compare(Field(p[1], sides[1]), Field(p[2], sides[2])), op))]

\* heap_file_hash_join: the inner records are hashed on their field.  For
\* EQUAL a value leads to the records that have it, for NOT_EQUAL to the
\* others; a value no inner record has leads to none.
HashJoin(db, x, y, op) ==
  LET sides == Sides(db, x, y)
      inner == RecordsOf(db, sides[2].table)
      Value(side, record) == Field(record, sides[side])
      Found(p) == \E i \in DOMAIN inner : Value(2, inner[i]) = Value(1, p[1])
  IN [tables |-> JoinTables(sides),
      results |-> SelectSeq(NestedLoop(RecordsOf(db, sides[1].table), inner), LAMBDA p :
                    /\ Found(p)
                    /\ (op = "EQUAL") = (Value(1, p[1]) = Value(2, p[2])))]

\* Inserting a second inner record with a value destroys its key, and with
\* it that record, which stays on the list and is copied when looked up.
HashJoinFaults(db, x, y, op) ==
  LET sides == Sides(db, x, y)
      outer == RecordsOf(db, sides[1].table)
      inner == RecordsOf(db, sides[2].table)
  IN /\ op = "EQUAL"
     /\ \E i, j \in DOMAIN inner, k \in DOMAIN outer :
          /\ i < j
          /\ Field(inner[i], sides[2]) = Field(inner[j], sides[2])
          /\ Field(inner[i], sides[2]) = Field(outer[k], sides[1])
=============================================================================
