----------------------------- MODULE ResultSets -----------------------------
(***************************************************************************)
(* Combining result sets and making the rows of the answer from one        *)
(* (src/rdbms/table/result_set.c).  Records are compared by their fields   *)
(* (record_compare), whatever table they are from.                         *)
(***************************************************************************)
EXTENDS Joins

-----------------------------------------------------------------------------
\* result_set_and

\* The positions in s1's items of the tables s2 has too.
Common(s1, s2) ==
  SelectSeq([i \in DOMAIN s1.tables |-> i], LAMBDA i : s1.tables[i] \in Range(s2.tables))

\* s2's tables up to the one it has in common with t, where the loop breaks.
Before(tables, t) ==
  SubSeq(tables, 1, SelectInSeq(Append(tables, t), LAMBDA u : u = t) - 1)

AndTables(s1, s2) ==
  FoldLeft(AddTable, s1.tables,
           FlattenSeq([i \in DOMAIN s1.tables |-> Before(s2.tables, s1.tables[i])]))
  \o (IF Common(s1, s2) = <<>> THEN s2.tables ELSE <<>>)

\* A slip in result_item_intersection: the last common table decides.
MatchesLast(item1, item2, common) == item1[Last(common)] \in Range(item2)

\* result_item_intersection's test of the common tables' records.
Matches(item1, item2, common) ==
  \A k \in DOMAIN common : item1[common[k]] \in Range(item2)

\* That test follows NULL when it comes to a position item1 does not have.
MatchFaults(item1, item2, common) ==
  \E k \in DOMAIN common :
    /\ common[k] > Len(item1)
    /\ \A j \in 1..(k - 1) : item1[common[j]] \in Range(item2)

\* result_item_get_records: item1 and the records of item2 it does not hold.
Joined(item1, item2) ==
  FoldLeft(LAMBDA item, r : IF r \in Range(item) THEN item ELSE Append(item, r),
           item1, item2)

AndFaults(s1, s2) ==
  \E i \in DOMAIN s1.results, j \in DOMAIN s2.results :
    MatchFaults(s1.results[i], s2.results[j], Common(s1, s2))

\* Without a common table a cross join, else the pairs that match.
And(s1, s2) ==
  LET common == Common(s1, s2)
      pairs == NestedLoop(s1.results, s2.results)
      matching == SelectSeq(pairs, LAMBDA p : Matches(p[1], p[2], common))
  IN [tables |-> AndTables(s1, s2),
      results |-> IF common = <<>>
                  THEN [k \in DOMAIN pairs |-> pairs[k][1] \o pairs[k][2]]
                  ELSE [k \in DOMAIN matching |-> Joined(matching[k][1], matching[k][2])]]

-----------------------------------------------------------------------------
\* result_set_finalize

\* result_set_get_indexes and result_item_get_value; the value can be used
\* when the item has that record and, but for COUNT, the record that field.
TablePos(set, var) == SelectInSeq(set.tables, LAMBDA t : t = var.table)
Readable(set, item, var) ==
  /\ TablePos(set, var) \in DOMAIN item
  /\ var.type = "COUNT"
     \/ FieldPos(var.table, var.column) \in DOMAIN item[TablePos(set, var)]
Value(set, item, var) == Field(item[TablePos(set, var)], var)

\* databox_count and databox_sum over a group's items.
Aggregate(set, items, var) ==
  IF var.type = "COUNT" THEN Wrapped(Len(items))
  ELSE FoldLeft(LAMBDA sum, item : Wrapped(sum + Value(set, item, var)), 0, items)

IsAggregate(var) == var.type \in {"COUNT", "SUM"}

\* The groups of items a row is made from each: with GROUP BY those with one
\* value, in whatever order the hash table has them; without, all of them if
\* there is an aggregate, else each alone.
Groupings(set, stm) ==
  LET items == set.results
      By(v) == SelectSeq(items, LAMBDA item : Value(set, item, stm.group[1]) = v)
      values == {Value(set, items[i], stm.group[1]) : i \in DOMAIN items}
  IN IF stm.group # <<>>
     THEN {[k \in DOMAIN order |-> By(order[k])] : order \in SetToSeqs(values)}
     ELSE IF (\E k \in DOMAIN stm.vars : IsAggregate(stm.vars[k])) /\ items # <<>>
     THEN {<<items>>}
     ELSE {[i \in DOMAIN items |-> <<items[i]>>]}

\* A row: variables from the group's first item, aggregates over all.
Row(set, stm, items) ==
  [k \in DOMAIN stm.vars |->
     IF IsAggregate(stm.vars[k]) THEN Aggregate(set, items, stm.vars[k])
     ELSE Value(set, Head(items), stm.vars[k])]

\* The field ORDER BY sorts on: the first selected one of that name, or the
\* one after the last.
OrderPos(stm) ==
  SelectInSeq(Append(stm.vars, stm.order[1].var),
              LAMBDA v : v.table = stm.order[1].var.table
                         /\ v.column = stm.order[1].var.column)

\* record_compare_asc, record_compare_desc
OrderCompare(stm, r1, r2) ==
  LET c == Compare(r1[OrderPos(stm)], r2[OrderPos(stm)])
  IN IF stm.order[1].asc THEN c ELSE Wrapped(-c)

\* g_list_sort_with_data, which is stable.
Sorted(stm, rows) ==
  LET Insert(done, row) ==
        SelectSeq(done, LAMBDA r : OrderCompare(stm, r, row) <= 0) \o <<row>>
        \o SelectSeq(done, LAMBDA r : OrderCompare(stm, r, row) > 0)
  IN IF stm.order = <<>> THEN rows ELSE FoldLeft(Insert, <<>>, rows)

\* A slip in result_set_finalize: the copying loop stops one short.
LimitedShort(stm, rows) ==
  IF stm.limit > 0 /\ stm.limit < Len(rows) THEN SubSeq(rows, 1, stm.limit - 1) ELSE rows

Limited(stm, rows) ==
  IF stm.limit > 0 /\ stm.limit < Len(rows) THEN SubSeq(rows, 1, stm.limit) ELSE rows

\* Grouping follows NULL, or the table it never found, for a variable that is
\* not in the items.
GroupFaults(set, stm) ==
  /\ stm.group # <<>>
  /\ \/ stm.group[1].table \notin Tables
     \/ \E i \in DOMAIN set.results : ~Readable(set, set.results[i], stm.group[1])

\* So does making a row, and sorting on a variable that is not selected.
RowFaults(set, stm, groups) ==
  \/ \E g \in DOMAIN groups, k \in DOMAIN stm.vars :
       \E i \in IF IsAggregate(stm.vars[k]) THEN DOMAIN groups[g] ELSE {1} :
         ~Readable(set, groups[g][i], stm.vars[k])
  \/ stm.order # <<>> /\ Len(groups) > 1 /\ OrderPos(stm) > Len(stm.vars)

Answer(set, stm, groups) ==
  Limited(stm, Sorted(stm, [g \in DOMAIN groups |-> Row(set, stm, groups[g])]))
=============================================================================
