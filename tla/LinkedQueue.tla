---------------------------- MODULE LinkedQueue ----------------------------
(***************************************************************************)
(* The doubly linked list of src/rdbms/memory/priority_queue.c: pointers   *)
(* head and tail, and per node its entry and its next and prev pointers.   *)
(* Nodes are heap addresses; a freed node may be handed out again by       *)
(* malloc and keeps its stale pointers until then.  pq_pop is not an       *)
(* action: the buffer manager calls it on a non-empty queue only, which it *)
(* returns unchanged (see PqPop).  Entries may be queued twice.            *)
(***************************************************************************)
EXTENDS PriorityQueue, FiniteSets

CONSTANTS
  Nodes,    \* addresses malloc may return
  Entries,  \* (filename, block number) pairs
  NULL,     \* the null pointer
  Freed     \* the entry of a node that is not allocated

ASSUME PointersDistinct == NULL \notin Nodes /\ Freed \notin Entries
ASSUME MemoryFinite == IsFiniteSet(Nodes)

VARIABLES head, tail, next, prev, entry
vars == <<head, tail, next, prev, entry>>

Pointers == Nodes \cup {NULL}

(* The shape of the pq struct and its nodes: pq_insert tells an empty queue *)
(* by both pointers being NULL, so neither may be NULL alone.              *)
TypeOK ==
  /\ head \in Pointers /\ tail \in Pointers /\ (head = NULL <=> tail = NULL)
  /\ next \in [Nodes -> Pointers] /\ prev \in [Nodes -> Pointers]
  /\ entry \in [Nodes -> Entries \cup {Freed}]

Init ==
  /\ head = NULL /\ tail = NULL
  /\ next = [n \in Nodes |-> NULL] /\ prev = [n \in Nodes |-> NULL]
  /\ entry = [n \in Nodes |-> Freed]

-----------------------------------------------------------------------------
\* The i-th node met when following `link' from `from', NULL past the end.
Walk(from, link) ==
  LET node[i \in Nat] ==
        IF i = 0 THEN from
        ELSE IF node[i - 1] = NULL THEN NULL ELSE link[node[i - 1]]
  IN  node

\* The nodes of the list in that order; a cyclic list is cut off.
Nodelist(from, link) ==
  LET steps == 0..Cardinality(Nodes)
      ends  == {i \in steps : Walk(from, link)[i] = NULL}
      size  == IF ends = {} THEN Cardinality(Nodes) + 1
               ELSE CHOOSE i \in ends : \A j \in ends : i <= j
  IN  [i \in 1..size |-> Walk(from, link)[i - 1]]

Forward  == Nodelist(head, next)
Backward == Nodelist(tail, prev)

\* The sequence of entries the list stands for.
Queue == [i \in DOMAIN Forward |-> entry[Forward[i]]]

-----------------------------------------------------------------------------
\* pq_insert of a node just made by pq_node_create.
InsertNode(n, e) ==
  /\ entry[n] = Freed
  /\ entry' = [entry EXCEPT ![n] = e]
  /\ IF head = NULL /\ tail = NULL
     THEN /\ head' = n
          /\ next' = [next EXCEPT ![n] = NULL]
          /\ prev' = [prev EXCEPT ![n] = NULL]
     ELSE /\ head' = head
          /\ next' = [next EXCEPT ![n] = NULL, ![tail] = n]
          /\ prev' = [prev EXCEPT ![n] = tail]
  /\ tail' = n

Found(cur, e) == e \in Range(Queue) /\ cur = Forward[FirstPosition(Queue, e)]

\* A slip in UnlinkOnly: the tail pointer still holds the freed node.
UnlinkOnlyKeepsTail(cur) ==
  /\ head = cur /\ tail = cur
  /\ head' = NULL
  /\ UNCHANGED <<tail, next, prev>>

\* The four ways pq_remove unlinks the node it found.
UnlinkOnly(cur) ==
  /\ head = cur /\ tail = cur
  /\ head' = NULL /\ tail' = NULL
  /\ UNCHANGED <<next, prev>>

\* A slip in UnlinkHead: the new head's prev is not cleared.
UnlinkHeadKeepsPrev(cur) ==
  /\ head = cur /\ tail # cur
  /\ head' = next[cur]
  /\ UNCHANGED <<tail, next, prev>>

UnlinkHead(cur) ==
  /\ head = cur /\ tail # cur
  /\ head' = next[cur]
  /\ prev' = [prev EXCEPT ![next[cur]] = NULL]
  /\ UNCHANGED <<tail, next>>

UnlinkTail(cur) ==
  /\ head # cur /\ tail = cur
  /\ tail' = prev[cur]
  /\ next' = [next EXCEPT ![prev[cur]] = NULL]
  /\ UNCHANGED <<head, prev>>

\* A slip in UnlinkInner: next skips one node too many.
UnlinkInnerOneWay(cur) ==
  /\ head # cur /\ tail # cur
  /\ next' = [next EXCEPT ![prev[cur]] = next[next[cur]]]
  /\ prev' = [prev EXCEPT ![next[cur]] = prev[cur]]
  /\ UNCHANGED <<head, tail>>

UnlinkInner(cur) ==
  /\ head # cur /\ tail # cur
  /\ next' = [next EXCEPT ![prev[cur]] = next[cur]]
  /\ prev' = [prev EXCEPT ![next[cur]] = prev[cur]]
  /\ UNCHANGED <<head, tail>>

\* pq_remove of an entry that is queued; pq_node_destroy frees the node.
RemoveNode(cur, e) ==
  /\ Found(cur, e)
  /\ \/ UnlinkOnly(cur) \/ UnlinkHead(cur) \/ UnlinkTail(cur) \/ UnlinkInner(cur)
  /\ entry' = [entry EXCEPT ![cur] = Freed]

Next == \E n \in Nodes, e \in Entries : InsertNode(n, e) \/ RemoveNode(n, e)

Spec == Init /\ [][Next]_vars

-----------------------------------------------------------------------------
(* The two directions agree and every allocated node is on the list: after *)
(* any mix of pq_insert and of the four unlink cases of pq_remove, walking *)
(* prev from the tail gives the mirror image of walking next from the head,*)
(* no freed node is reachable and no node is leaked.                       *)
WellLinked ==
  /\ Backward = Reverse(Forward)
  /\ Range(Forward) = {n \in Nodes : entry[n] # Freed}
  /\ IsInjective(Forward)

(* Each pointer operation is the sequence operation it stands for:         *)
(* pq_insert appends and pq_remove deletes the first match and nothing     *)
(* else, keeping the order of the other candidates.                        *)
OperationsOnQueue ==
  [][\A n \in Nodes, e \in Entries :
        /\ InsertNode(n, e) => Queue' = PqInsert(Queue, e)
        /\ RemoveNode(n, e) => Queue' = PqRemove(Queue, e)]_vars

=============================================================================
