--------------------------- MODULE PriorityQueue ---------------------------
(***************************************************************************)
(* The buffer pool's queue of eviction candidates                          *)
(* (src/rdbms/memory/priority_queue.c), as operators on sequences of hash  *)
(* table entries, head first.  Despite its name and the priority field of  *)
(* its nodes, the live operations never compare priorities: pq_insert      *)
(* appends, pq_remove takes the first match.  LinkedQueue.tla models the   *)
(* doubly linked list these sequences stand for.                           *)
(***************************************************************************)
EXTENDS Naturals, SequencesExt

\* pq_insert: the node becomes the new tail.
PqInsert(q, e) == Append(q, e)

\* The node the scan in pq_remove stops at: the first one holding e.
FirstPosition(q, e) ==
  CHOOSE i \in 1..Len(q) : q[i] = e /\ \A j \in 1..(i - 1) : q[j] # e

\* pq_remove on a non-empty queue: unlink the first node holding e, if any.
\* (On an empty queue the code returns NULL instead of the queue.)
PqRemove(q, e) ==
  IF e \in Range(q) THEN RemoveAt(q, FirstPosition(q, e)) ELSE q

\* pq_pop: its guard is `pq->head', not `pq->head==NULL', so a queue that has
\* a head is returned as it is; only an empty one gets past the guard, and
\* there the code frees a NULL node.
PqPop(q) == IF q # <<>> THEN q ELSE Tail(q)
=============================================================================
