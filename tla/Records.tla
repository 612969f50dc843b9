------------------------------ MODULE Records ------------------------------
(***************************************************************************)
(* Values, records and tables (src/rdbms/table/databox.c, record.c,        *)
(* table.c) as query evaluation uses them.                                 *)
(*                                                                         *)
(* Every field is an int: strings and doubles are compared and copied the  *)
(* same way, doubles by the integer part of their difference.  A record is *)
(* the sequence of its fields; a table of a database is the sequence of    *)
(* its heap file's blocks of records, the three header blocks left out.    *)
(***************************************************************************)
EXTENDS Integers, SequencesExt

CONSTANTS
  Schema, \* the columns of each table
  IntMax  \* INT_MAX

ASSUME RecordsAssumption ==
  /\ \A t \in DOMAIN Schema : Schema[t] # <<>> /\ IsInjective(Schema[t])
  /\ IntMax \in Nat \ {0}

Tables == DOMAIN Schema
Ints == (-IntMax - 1)..IntMax

\* A slip: the result is kept in a wider type.
WrappedWider(i) == i

\* Arithmetic on int, as the build wraps it.
Wrapped(i) == ((i + IntMax + 1) % (2 * (IntMax + 1))) - (IntMax + 1)

\* databox_compare and databox_compare_value: a difference.
Compare(x, y) == Wrapped(x - y)

Comparisons == {"EQUAL", "NOT_EQUAL", "GREATER", "LESS", "GEQ", "LEQ"}

\* result_condition
Condition(result, op) ==
  \/ op = "EQUAL" /\ result = 0
  \/ op = "NOT_EQUAL" /\ result # 0
  \/ op = "GREATER" /\ result > 0
  \/ op = "LESS" /\ result < 0
  \/ op = "GEQ" /\ result >= 0
  \/ op = "LEQ" /\ result <= 0

\* table_field_pos, counted from 1; 0 when there is no such column.
FieldPos(t, column) == SelectInSeq(Schema[t], LAMBDA c : c = column)

\* record_get_field_value of the column a variable names.
Field(record, var) == record[FieldPos(var.table, var.column)]

\* What two nested loops over s and t visit, in that order.
NestedLoop(s, t) ==
  FlattenSeq([i \in DOMAIN s |-> [j \in DOMAIN t |-> <<s[i], t[j]>>]])

\* The records of a table, block by block.
RecordsOf(db, t) == FlattenSeq(db[t])
=============================================================================
