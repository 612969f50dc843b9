--------------------------- MODULE LinkedQueueProofs ---------------------------
(***************************************************************************)
(* Proofs about LinkedQueue: for any finite number of nodes, the pointers  *)
(* hold one list of the nodes that are allocated, in both directions, and  *)
(* pq_insert and pq_remove do to its entries what PriorityQueue says.      *)
(***************************************************************************)
EXTENDS LinkedQueue, SequenceProofs, FiniteSetTheorems

-----------------------------------------------------------------------------
\* The inductive invariant: the pointers are those of a list of nodes.

Linked(q, from, link) ==
  /\ from = IF q = <<>> THEN NULL ELSE q[1]
  /\ \A i \in 1..Len(q) : link[q[i]] = IF i = Len(q) THEN NULL ELSE q[i + 1]

\* The list of next pointers, and the same backwards.
Lists(q) ==
  /\ \A i, j \in 1..Len(q) : q[i] = q[j] => i = j
  /\ \A n \in Nodes : entry[n] # Freed <=> \E i \in 1..Len(q) : q[i] = n
  /\ Linked(q, head, next)
  /\ tail = IF q = <<>> THEN NULL ELSE q[Len(q)]
  /\ \A i \in 1..Len(q) : prev[q[i]] = IF i = 1 THEN NULL ELSE q[i - 1]

PointersTyped ==
  /\ next \in [Nodes -> Pointers] /\ prev \in [Nodes -> Pointers]
  /\ entry \in [Nodes -> Entries \cup {Freed}]

IInv == PointersTyped /\ \E q \in Seq(Nodes) : Lists(q)

-----------------------------------------------------------------------------
\* What following the pointers finds.

Walks(w, from, link) ==
  w = [i \in Nat |-> IF i = 0 THEN from ELSE IF w[i - 1] = NULL THEN NULL ELSE link[w[i - 1]]]

LEMMA WalkIs ==
  ASSUME NEW from, NEW link, NEW w, Walks(w, from, link)
  PROVE  Walk(from, link) = w
<1> DEFINE g == CHOOSE h : Walks(h, from, link)
<1>1. Walks(g, from, link)
  OBVIOUS
<1>2. Walk(from, link) = g
  BY DEF Walk, Walks
<1> HIDE DEF g
<1>3. \A i \in Nat : /\ w[i] = IF i = 0 THEN from ELSE IF w[i - 1] = NULL THEN NULL ELSE link[w[i - 1]]
                     /\ g[i] = IF i = 0 THEN from ELSE IF g[i - 1] = NULL THEN NULL ELSE link[g[i - 1]]
  BY <1>1 DEF Walks
<1> DEFINE T == {i \in Nat : g[i] # w[i]}
<1>4. T = {}
  <2> SUFFICES ASSUME T # {} PROVE FALSE
    OBVIOUS
  <2>1. PICK n \in T : \A m \in T : n <= m
    BY LeastNumber
  <2>2. n # 0
    BY <1>3, <2>1
  <2>3. n - 1 \in Nat /\ ~(n <= n - 1)
    BY <2>1, <2>2
  <2>4. g[n - 1] = w[n - 1]
    BY <2>1, <2>3
  <2> QED
    BY <1>3, <2>1, <2>2, <2>4
<1>5. g = w
  <2>1. g = [i \in Nat |-> g[i]] /\ w = [i \in Nat |-> w[i]]
    <3>1. DOMAIN g = Nat /\ DOMAIN w = Nat /\ g = [i \in DOMAIN g |-> g[i]]
          /\ w = [i \in DOMAIN w |-> w[i]]
      BY <1>1 DEF Walks
    <3> QED
      BY <3>1
  <2>2. \A i \in Nat : g[i] = w[i]
    BY <1>4
  <2> HIDE DEF T
  <2> QED
    BY ONLY <2>1, <2>2
<1> QED
  BY <1>2, <1>5

\* A list of distinct nodes is no longer than there are nodes.
LEMMA ListIsShort ==
  ASSUME NEW q \in Seq(Nodes), \A i, j \in 1..Len(q) : q[i] = q[j] => i = j
  PROVE  Len(q) \in Nat /\ Cardinality(Nodes) \in Nat /\ Len(q) <= Cardinality(Nodes)
<1>1. Len(q) \in Nat /\ q \in [1..Len(q) -> Nodes]
  BY LenProperties
<1>2. q \in Injection(1..Len(q), Nodes)
  BY <1>1 DEF Injection, IsInjective
<1>3. Cardinality(1..Len(q)) <= Cardinality(Nodes)
  <2>1. PICK D : D = 1..Len(q)
    OBVIOUS
  <2>2. q \in Injection(D, Nodes)
    BY <1>2, <2>1
  <2>3. Cardinality(D) <= Cardinality(Nodes)
    BY ONLY <2>2, FS_Injection, MemoryFinite
  <2> QED
    BY <2>1, <2>3
<1>4. Cardinality(1..Len(q)) = IF 1 > Len(q) THEN 0 ELSE Len(q) - 1 + 1
  BY <1>1, FS_Interval
<1>5. Cardinality(1..Len(q)) = Len(q)
  BY <1>1, <1>4
<1> QED
  BY <1>1, <1>3, <1>5, FS_CardinalityType, MemoryFinite

LEMMA NodelistIs ==
  ASSUME NEW q \in Seq(Nodes), \A i, j \in 1..Len(q) : q[i] = q[j] => i = j,
         NEW from, NEW link, Linked(q, from, link)
  PROVE  Nodelist(from, link) = q
<1>1. Len(q) \in Nat /\ Cardinality(Nodes) \in Nat /\ Len(q) <= Cardinality(Nodes)
  BY ListIsShort
<1>2. \A i \in 1..Len(q) : q[i] \in Nodes /\ q[i] # NULL
  BY ElementOfSeq, PointersDistinct
<1> DEFINE w == [i \in Nat |-> IF i < Len(q) THEN q[i + 1] ELSE NULL]
<1>3. Walks(w, from, link)
  <2>1. ASSUME NEW i \in Nat
        PROVE  w[i] = IF i = 0 THEN from ELSE IF w[i - 1] = NULL THEN NULL ELSE link[w[i - 1]]
    <3>1. CASE i = 0
      <4>1. from = IF q = <<>> THEN NULL ELSE q[1]
        BY DEF Linked
      <4>2. q = <<>> <=> ~(0 < Len(q))
        BY <1>1, EmptySeq
      <4>3. w[0] = IF 0 < Len(q) THEN q[1] ELSE NULL
        OBVIOUS
      <4> QED
        BY <3>1, <4>1, <4>2, <4>3
    <3>2. CASE i # 0
      <4>1. i - 1 \in Nat /\ (i - 1) + 1 = i
        BY <3>2
      <4>2. w[i - 1] = IF i - 1 < Len(q) THEN q[i] ELSE NULL
        BY <4>1
      <4>3. CASE i - 1 < Len(q)
        <5>1. i \in 1..Len(q) /\ (i = Len(q) <=> ~(i < Len(q)))
          BY <1>1, <3>2, <4>3
        <5>2. link[q[i]] = IF i = Len(q) THEN NULL ELSE q[i + 1]
          BY <5>1 DEF Linked
        <5> QED
          BY <1>2, <3>2, <4>2, <4>3, <5>1, <5>2
      <4>4. CASE ~(i - 1 < Len(q))
        <5>1. ~(i < Len(q))
          BY <1>1, <3>2, <4>4
        <5> QED
          BY <3>2, <4>2, <4>4, <5>1
      <4> QED
        BY <4>3, <4>4
    <3> QED
      BY <3>1, <3>2
  <2>2. w = [i \in Nat |-> IF i = 0 THEN from ELSE IF w[i - 1] = NULL THEN NULL ELSE link[w[i - 1]]]
    BY <2>1
  <2> HIDE DEF w
  <2> QED
    BY <2>2 DEF Walks
<1>4. \A i \in Nat : w[i] = IF i < Len(q) THEN q[i + 1] ELSE NULL
  OBVIOUS
<1> HIDE DEF w
<1>5. Walk(from, link) = w
  BY <1>3, WalkIs
<1> DEFINE ends == {i \in 0..Cardinality(Nodes) : Walk(from, link)[i] = NULL}
<1>6. \A i \in 0..Cardinality(Nodes) : i \in ends <=> Len(q) <= i
  <2> SUFFICES ASSUME NEW i \in 0..Cardinality(Nodes) PROVE w[i] = NULL <=> Len(q) <= i
    BY <1>5
  <2>1. i \in Nat /\ (i < Len(q) => i + 1 \in 1..Len(q)) /\ (Len(q) <= i <=> ~(i < Len(q)))
    BY <1>1
  <2> QED
    BY <1>2, <1>4, <2>1
<1>7. Len(q) \in ends /\ \A j \in ends : Len(q) <= j
  BY <1>1, <1>6
<1> DEFINE size == IF ends = {} THEN Cardinality(Nodes) + 1
                   ELSE CHOOSE i \in ends : \A j \in ends : i <= j
<1>8. size = Len(q)
  <2>1. \A i \in ends : (\A j \in ends : i <= j) => i = Len(q)
    BY <1>1, <1>7
  <2> HIDE DEF ends
  <2> QED
    BY <1>7, <2>1
<1>9. Nodelist(from, link) = [i \in 1..size |-> Walk(from, link)[i - 1]]
  BY DEF Nodelist
<1> HIDE DEF size, ends
<1>10. \A i \in 1..Len(q) : w[i - 1] = q[i]
  <2> SUFFICES ASSUME NEW i \in 1..Len(q) PROVE w[i - 1] = q[i]
    OBVIOUS
  <2>1. i - 1 \in Nat /\ i - 1 < Len(q) /\ (i - 1) + 1 = i
    BY <1>1
  <2> QED
    BY <1>4, <2>1
<1>11. q = [i \in 1..Len(q) |-> q[i]]
  BY LenProperties
<1> QED
  BY <1>5, <1>8, <1>9, <1>10, <1>11

\* The list backwards is a list along the other pointers.
LEMMA ListFacts ==
  ASSUME NEW q \in Seq(Nodes), Lists(q)
  PROVE  /\ Forward = q /\ Backward = Reverse(q)
         /\ Len(q) \in Nat /\ DOMAIN q = 1..Len(q) /\ (q = <<>> <=> Len(q) = 0)
         /\ \A i \in 1..Len(q) : q[i] \in Nodes /\ q[i] # NULL
         /\ Queue = [i \in 1..Len(q) |-> entry[q[i]]]
<1>1. Len(q) \in Nat /\ DOMAIN q = 1..Len(q) /\ (q = <<>> <=> Len(q) = 0)
  BY LenProperties, EmptySeq
<1>2. \A i \in 1..Len(q) : q[i] \in Nodes /\ q[i] # NULL
  BY ElementOfSeq, PointersDistinct
<1>3. Forward = q
  BY NodelistIs DEF Lists, Forward
<1>4. PICK r : r = [i \in 1..Len(q) |-> q[(Len(q) - i) + 1]]
  OBVIOUS
<1>5. \A i \in 1..Len(q) : (Len(q) - i) + 1 \in 1..Len(q)
  BY <1>1
<1>6. r \in Seq(Nodes) /\ Len(r) = Len(q) /\ \A i \in 1..Len(q) : r[i] = q[(Len(q) - i) + 1]
  <2>1. r \in [1..Len(q) -> Nodes]
    BY <1>2, <1>4, <1>5
  <2> QED
    BY <1>1, <1>4, <2>1
<1>7. ASSUME NEW i \in 1..Len(q), NEW j \in 1..Len(q), r[i] = r[j]
      PROVE  i = j
  <2>1. PICK a \in 1..Len(q), b \in 1..Len(q) : a = (Len(q) - i) + 1 /\ b = (Len(q) - j) + 1
    BY <1>5
  <2>2. q[a] = q[b]
    BY <1>6, <1>7, <2>1
  <2>3. a = b
    BY <2>2 DEF Lists
  <2>4. \A l \in Nat : \A x, y \in 1..l : (l - x) + 1 = (l - y) + 1 => x = y
    OBVIOUS
  <2> QED
    BY <1>1, <2>1, <2>3, <2>4
<1>8. Linked(r, tail, prev)
  <2>1. tail = IF r = <<>> THEN NULL ELSE r[1]
    <3>1. tail = IF q = <<>> THEN NULL ELSE q[Len(q)]
      BY DEF Lists
    <3>2. r = <<>> <=> q = <<>>
      BY <1>1, <1>6, EmptySeq
    <3>3. CASE q = <<>>
      BY <3>1, <3>2, <3>3
    <3>4. CASE q # <<>>
      <4>1. 1 \in 1..Len(q) /\ (Len(q) - 1) + 1 = Len(q)
        BY <1>1, <3>4
      <4>2. r[1] = q[Len(q)]
        BY <1>6, <4>1
      <4> QED
        BY <3>1, <3>2, <3>4, <4>2
    <3> QED
      BY <3>3, <3>4
  <2>2. ASSUME NEW i \in 1..Len(q)
        PROVE  prev[r[i]] = IF i = Len(q) THEN NULL ELSE r[i + 1]
    <3>1. PICK m \in 1..Len(q) : m = (Len(q) - i) + 1
      BY <1>5
    <3>2. prev[q[m]] = IF m = 1 THEN NULL ELSE q[m - 1]
      BY DEF Lists
    <3>0. \A l \in Nat : \A x \in 1..l :
            /\ (l - x) + 1 = 1 <=> x = l
            /\ x # l => x + 1 \in 1..l /\ (l - (x + 1)) + 1 = ((l - x) + 1) - 1
      OBVIOUS
    <3>3. m = 1 <=> i = Len(q)
      BY <1>1, <3>0, <3>1
    <3>4. ASSUME i # Len(q) PROVE r[i + 1] = q[m - 1]
      <4>1. i + 1 \in 1..Len(q) /\ (Len(q) - (i + 1)) + 1 = m - 1
        BY <1>1, <3>0, <3>1, <3>4
      <4> QED
        BY <1>6, <4>1
    <3> QED
      BY <1>6, <3>1, <3>2, <3>3, <3>4
  <2> QED
    BY <1>6, <2>1, <2>2 DEF Linked
<1>9. Backward = r
  BY <1>6, <1>7, <1>8, NodelistIs DEF Backward
<1>10. Reverse(q) = r
  BY <1>4 DEF Reverse
<1>11. Queue = [i \in 1..Len(q) |-> entry[q[i]]]
  BY <1>1, <1>3 DEF Queue
<1> QED
  BY <1>1, <1>2, <1>3, <1>9, <1>10, <1>11

-----------------------------------------------------------------------------
\* pq_insert.

LEMMA InsertFacts ==
  ASSUME PointersTyped, NEW q \in Seq(Nodes), Lists(q), NEW n \in Nodes, NEW e \in Entries,
         InsertNode(n, e)
  PROVE  PointersTyped' /\ Append(q, n) \in Seq(Nodes) /\ Lists(Append(q, n))'
<1>1. /\ Len(q) \in Nat /\ (q = <<>> <=> Len(q) = 0)
      /\ \A i \in 1..Len(q) : q[i] \in Nodes /\ q[i] # NULL
  BY ListFacts
<1>2. PICK r : r = Append(q, n)
  OBVIOUS
<1>3. /\ r \in Seq(Nodes) /\ Len(r) = Len(q) + 1 /\ \A i \in 1..Len(q) : r[i] = q[i]
      /\ r[Len(q) + 1] = n
  BY <1>2, AppendProperties
<1>4. \A i \in 1..Len(q) : q[i] # n
  BY <1>1 DEF Lists, InsertNode
<1>5. /\ head = IF q = <<>> THEN NULL ELSE q[1]
      /\ tail = IF q = <<>> THEN NULL ELSE q[Len(q)]
      /\ \A i \in 1..Len(q) : /\ next[q[i]] = IF i = Len(q) THEN NULL ELSE q[i + 1]
                              /\ prev[q[i]] = IF i = 1 THEN NULL ELSE q[i - 1]
      /\ \A i, j \in 1..Len(q) : q[i] = q[j] => i = j
      /\ \A m \in Nodes : entry[m] # Freed <=> \E i \in 1..Len(q) : q[i] = m
  BY DEF Lists, Linked
<1>6. \A i \in 1..(Len(q) + 1) : i \in 1..Len(q) \/ i = Len(q) + 1
  BY <1>1
<1>7. Len(q) + 1 \in 1..(Len(q) + 1) /\ \A i \in 1..Len(q) : i \in 1..(Len(q) + 1) /\ i # Len(q) + 1
  BY <1>1
<1>8. e # Freed /\ entry' = [entry EXCEPT ![n] = e] /\ tail' = n
  BY PointersDistinct DEF InsertNode
<1>9. \A i, j \in 1..Len(r) : r[i] = r[j] => i = j
  BY <1>3, <1>4, <1>5, <1>6
<1>10. \A m \in Nodes : entry'[m] # Freed <=> \E i \in 1..Len(r) : r[i] = m
  <2> SUFFICES ASSUME NEW m \in Nodes
               PROVE  entry'[m] # Freed <=> \E i \in 1..(Len(q) + 1) : r[i] = m
    BY <1>3
  <2>1. entry'[m] = IF m = n THEN e ELSE entry[m]
    BY <1>8 DEF PointersTyped
  <2>2. (\E i \in 1..(Len(q) + 1) : r[i] = m) <=> m = n \/ \E i \in 1..Len(q) : q[i] = m
    BY <1>3, <1>6, <1>7
  <2> QED
    BY <1>5, <1>8, <2>1, <2>2
<1>11. tail' = IF r = <<>> THEN NULL ELSE r[Len(r)]
  BY <1>1, <1>3, <1>8, EmptySeq
<1>12. CASE q = <<>>
  <2>1. /\ head' = n /\ next' = [next EXCEPT ![n] = NULL] /\ prev' = [prev EXCEPT ![n] = NULL]
    BY <1>5, <1>12 DEF InsertNode
  <2>2. Len(q) = 0 /\ Len(r) = 1 /\ r[1] = n
    BY <1>1, <1>3, <1>12
  <2>3. next'[n] = NULL /\ prev'[n] = NULL
    BY <2>1 DEF PointersTyped
  <2>4. \A i \in 1..Len(r) : i = 1 /\ r[i] = n
    BY <2>2
  <2>5. PointersTyped'
    BY <1>8, <2>1 DEF PointersTyped, Pointers
  <2>6. r # <<>>
    BY <2>2
  <2>7. Lists(r)'
    BY <1>9, <1>10, <1>11, <2>1, <2>2, <2>3, <2>4, <2>6 DEF Lists, Linked
  <2> QED
    BY <1>2, <1>3, <2>5, <2>7
<1>13. CASE q # <<>>
  <2>1. Len(q) \in 1..Len(q) /\ 1 \in 1..Len(q) /\ tail = q[Len(q)] /\ head = q[1]
    BY <1>1, <1>5, <1>13
  <2>2. tail \in Nodes /\ tail # n /\ head # NULL
    BY <1>1, <1>4, <2>1
  <2>3. /\ head' = head /\ next' = [next EXCEPT ![n] = NULL, ![tail] = n]
        /\ prev' = [prev EXCEPT ![n] = tail]
    BY <2>2 DEF InsertNode
  <2>4. \A m \in Nodes : /\ next'[m] = IF m = tail THEN n ELSE IF m = n THEN NULL ELSE next[m]
                         /\ prev'[m] = IF m = n THEN tail ELSE prev[m]
    BY <2>2, <2>3 DEF PointersTyped
  <2>5. PointersTyped'
    BY <1>8, <2>2, <2>3 DEF PointersTyped, Pointers
  <2>6. head' = IF r = <<>> THEN NULL ELSE r[1]
    BY <1>3, <2>1, <2>3, EmptySeq
  <2>7. ASSUME NEW i \in 1..Len(r)
        PROVE  /\ next'[r[i]] = IF i = Len(r) THEN NULL ELSE r[i + 1]
               /\ prev'[r[i]] = IF i = 1 THEN NULL ELSE r[i - 1]
    <3>1. CASE i = Len(q) + 1
      <4>1. r[i] = n /\ i # 1 /\ i - 1 = Len(q) /\ i = Len(r)
        BY <1>1, <1>3, <2>1, <3>1
      <4>2. r[i - 1] = tail
        BY <1>3, <2>1, <4>1
      <4> QED
        BY <2>2, <2>4, <4>1, <4>2
    <3>2. CASE i # Len(q) + 1
      <4>1. i \in 1..Len(q) /\ r[i] = q[i] /\ i # Len(r)
        BY <1>3, <1>6, <3>2
      <4>2. q[i] \in Nodes /\ q[i] # n /\ (q[i] = tail <=> i = Len(q))
        BY <1>1, <1>4, <1>5, <2>1, <4>1
      <4>3. prev'[r[i]] = IF i = 1 THEN NULL ELSE r[i - 1]
        <5>1. i # 1 => i - 1 \in 1..Len(q)
          BY <1>1, <4>1
        <5>2. prev'[r[i]] = prev[q[i]]
          BY <2>4, <4>1, <4>2
        <5> QED
          BY <1>3, <1>5, <4>1, <5>1, <5>2
      <4>4. next'[r[i]] = r[i + 1]
        <5>1. CASE i = Len(q)
          BY <1>3, <2>4, <4>1, <4>2, <5>1
        <5>2. CASE i # Len(q)
          <6>1. i + 1 \in 1..Len(q)
            BY <1>1, <4>1, <5>2
          <6>2. next'[r[i]] = next[q[i]]
            BY <2>4, <4>1, <4>2, <5>2
          <6> QED
            BY <1>3, <1>5, <4>1, <5>2, <6>1, <6>2
        <5> QED
          BY <5>1, <5>2
      <4> QED
        BY <4>1, <4>3, <4>4
    <3> QED
      BY <3>1, <3>2
  <2>8. Lists(r)'
    BY <1>9, <1>10, <1>11, <2>6, <2>7 DEF Lists, Linked
  <2> QED
    BY <1>2, <1>3, <2>5, <2>8
<1> QED
  BY <1>12, <1>13

-----------------------------------------------------------------------------
\* pq_remove.

LEMMA FoundAt ==
  ASSUME NEW q \in Seq(Nodes), Lists(q), NEW cur \in Nodes, NEW e \in Entries, Found(cur, e)
  PROVE  /\ FirstPosition(Queue, e) \in 1..Len(q) /\ q[FirstPosition(Queue, e)] = cur
         /\ e \in Range(Queue)
<1>1. /\ Len(q) \in Nat /\ Queue = [i \in 1..Len(q) |-> entry[q[i]]] /\ Forward = q
  BY ListFacts
<1>2. PICK s : s = Queue
  OBVIOUS
<1>3. e \in Range(s) /\ cur = q[FirstPosition(s, e)] /\ Len(s) = Len(q) /\ DOMAIN s = 1..Len(q)
  BY <1>1, <1>2 DEF Found
<1> DEFINE T == {i \in 1..Len(q) : s[i] = e}
<1>4. T \in SUBSET Nat /\ T # {}
  BY <1>1, <1>3 DEF Range
<1>5. PICK i \in T : \A j \in T : i <= j
  BY <1>4, LeastNumber
<1>6. i \in 1..Len(s) /\ s[i] = e /\ \A j \in 1..(i - 1) : s[j] # e
  BY <1>1, <1>3, <1>5
<1>7. FirstPosition(s, e) \in 1..Len(s)
  BY <1>6 DEF FirstPosition
<1> QED
  BY <1>2, <1>3, <1>7

\* The four ways to unlink the node are one.
Unlinked(q, k) ==
  /\ head' = IF k = 1 THEN next[q[k]] ELSE head
  /\ tail' = IF k = Len(q) THEN prev[q[k]] ELSE tail
  /\ next' = IF k = 1 THEN next ELSE [next EXCEPT ![q[k - 1]] = next[q[k]]]
  /\ prev' = IF k = Len(q) THEN prev ELSE [prev EXCEPT ![q[k + 1]] = prev[q[k]]]

LEMMA UnlinkedOneWay ==
  ASSUME NEW q \in Seq(Nodes), Lists(q), NEW k \in 1..Len(q),
         UnlinkOnly(q[k]) \/ UnlinkHead(q[k]) \/ UnlinkTail(q[k]) \/ UnlinkInner(q[k])
  PROVE  Unlinked(q, k)
<1>1. Len(q) \in Nat /\ q # <<>> /\ 1 \in 1..Len(q) /\ Len(q) \in 1..Len(q)
  BY ListFacts
<1>2. /\ head = q[1] /\ tail = q[Len(q)]
      /\ next[q[k]] = IF k = Len(q) THEN NULL ELSE q[k + 1]
      /\ prev[q[k]] = IF k = 1 THEN NULL ELSE q[k - 1]
  BY <1>1 DEF Lists, Linked
<1>3. (q[k] = head <=> k = 1) /\ (q[k] = tail <=> k = Len(q))
  BY <1>1, <1>2 DEF Lists
<1>4. CASE UnlinkOnly(q[k])
  <2>1. k = 1 /\ k = Len(q)
    BY <1>3, <1>4 DEF UnlinkOnly
  <2> QED
    BY <1>2, <1>4, <2>1 DEF UnlinkOnly, Unlinked
<1>5. CASE UnlinkHead(q[k])
  <2>1. k = 1 /\ k # Len(q)
    BY <1>3, <1>5 DEF UnlinkHead
  <2> QED
    BY <1>2, <1>5, <2>1 DEF UnlinkHead, Unlinked
<1>6. CASE UnlinkTail(q[k])
  <2>1. k # 1 /\ k = Len(q)
    BY <1>3, <1>6 DEF UnlinkTail
  <2> QED
    BY <1>2, <1>6, <2>1 DEF UnlinkTail, Unlinked
<1>7. CASE UnlinkInner(q[k])
  <2>1. k # 1 /\ k # Len(q)
    BY <1>3, <1>7 DEF UnlinkInner
  <2> QED
    BY <1>2, <1>7, <2>1 DEF UnlinkInner, Unlinked
<1> QED
  BY <1>4, <1>5, <1>6, <1>7

LEMMA RemoveFacts ==
  ASSUME PointersTyped, NEW q \in Seq(Nodes), Lists(q), NEW k \in 1..Len(q), Unlinked(q, k),
         entry' = [entry EXCEPT ![q[k]] = Freed]
  PROVE  PointersTyped' /\ RemoveAt(q, k) \in Seq(Nodes) /\ Lists(RemoveAt(q, k))'
<1>1. /\ Len(q) \in Nat /\ \A i \in 1..Len(q) : q[i] \in Nodes /\ q[i] # NULL
  BY ListFacts
<1>2. PICK r : r = RemoveAt(q, k)
  OBVIOUS
<1>3. PICK l \in Nat : l = Len(q) /\ k \in 1..l
  BY <1>1
<1>4. /\ r \in Seq(Nodes) /\ Len(r) = l - 1
      /\ \A j \in 1..(l - 1) : r[j] = IF j < k THEN q[j] ELSE q[j + 1]
  BY <1>2, <1>3, RemoveAtProperties
<1>5. /\ \A i \in 1..l : /\ next[q[i]] = IF i = l THEN NULL ELSE q[i + 1]
                         /\ prev[q[i]] = IF i = 1 THEN NULL ELSE q[i - 1]
      /\ \A i, j \in 1..l : q[i] = q[j] => i = j
      /\ \A m \in Nodes : entry[m] # Freed <=> \E i \in 1..l : q[i] = m
  BY <1>3 DEF Lists, Linked
<1>6. l # 0 /\ head = q[1] /\ tail = q[l] /\ 1 \in 1..l /\ l \in 1..l
  <2>1. l # 0 /\ q # <<>> /\ 1 \in 1..l /\ l \in 1..l
    BY <1>3, ListFacts
  <2> QED
    BY <1>3, <2>1 DEF Lists, Linked
\* Where the j-th node of what is left was.
<1> DEFINE At(j) == IF j < k THEN j ELSE j + 1
<1>7. \A j \in 1..(l - 1) : At(j) \in 1..l /\ At(j) # k /\ r[j] = q[At(j)]
  BY <1>3, <1>4
<1>8. \A i, j \in 1..(l - 1) : At(i) = At(j) => i = j
  BY <1>3
<1>9. \A i \in 1..l : i # k => \E j \in 1..(l - 1) : At(j) = i
  <2> SUFFICES ASSUME NEW i \in 1..l, i # k PROVE \E j \in 1..(l - 1) : At(j) = i
    OBVIOUS
  <2>1. CASE i < k
    <3>1. i \in 1..(l - 1) /\ At(i) = i
      BY <1>3, <2>1
    <3> QED
      BY <3>1
  <2>2. CASE ~(i < k)
    <3>1. i - 1 \in 1..(l - 1) /\ At(i - 1) = i
      BY <1>3, <2>2
    <3> QED
      BY <3>1
  <2> QED
    BY <2>1, <2>2
<1>10. \A j \in 1..(l - 1) : /\ At(j) = 1 => j = 1 /\ k # 1
                             /\ At(j) = l => j = l - 1 /\ k # l
                             /\ (j # 1 => j - 1 \in 1..(l - 1)) /\ (j # l - 1 => j + 1 \in 1..(l - 1))
                             /\ j # 1 => At(j - 1) = IF At(j) = k + 1 THEN k - 1 ELSE At(j) - 1
                             /\ j # l - 1 => At(j + 1) = IF At(j) = k - 1 THEN k + 1 ELSE At(j) + 1
                             /\ j = 1 /\ At(j) # 1 => At(j) = k + 1 /\ k = 1
                             /\ j = l - 1 /\ At(j) # l => At(j) = k - 1 /\ k = l
  BY <1>3
<1> HIDE DEF At
<1>11. /\ head' = IF k = 1 THEN next[q[k]] ELSE head
       /\ tail' = IF k = l THEN prev[q[k]] ELSE tail
       /\ next' = IF k = 1 THEN next ELSE [next EXCEPT ![q[k - 1]] = next[q[k]]]
       /\ prev' = IF k = l THEN prev ELSE [prev EXCEPT ![q[k + 1]] = prev[q[k]]]
  BY <1>3 DEF Unlinked
<1>12. (k # 1 => k - 1 \in 1..l) /\ (k # l => k + 1 \in 1..l)
  BY <1>3
<1>13. /\ \A i \in 1..l : next'[q[i]] = IF i = k - 1 THEN next[q[k]] ELSE next[q[i]]
       /\ \A i \in 1..l : prev'[q[i]] = IF i = k + 1 THEN prev[q[k]] ELSE prev[q[i]]
  <2>1. \A i \in 1..l : q[i] \in Nodes
    BY <1>1, <1>3
  <2>2. ASSUME NEW i \in 1..l PROVE next'[q[i]] = IF i = k - 1 THEN next[q[k]] ELSE next[q[i]]
    <3>1. CASE k = 1
      BY <1>3, <1>11, <3>1
    <3>2. CASE k # 1
      <4>1. q[i] = q[k - 1] <=> i = k - 1
        BY <1>5, <1>12, <3>2
      <4> QED
        BY <1>11, <2>1, <3>2, <4>1 DEF PointersTyped
    <3> QED
      BY <3>1, <3>2
  <2>3. ASSUME NEW i \in 1..l PROVE prev'[q[i]] = IF i = k + 1 THEN prev[q[k]] ELSE prev[q[i]]
    <3>1. CASE k = l
      <4>1. i # k + 1
        BY <1>3, <3>1
      <4> QED
        BY <1>11, <3>1, <4>1
    <3>2. CASE k # l
      <4>1. q[i] = q[k + 1] <=> i = k + 1
        BY <1>5, <1>12, <3>2
      <4> QED
        BY <1>11, <2>1, <3>2, <4>1 DEF PointersTyped
    <3> QED
      BY <3>1, <3>2
  <2> QED
    BY <2>2, <2>3
<1>14. PointersTyped'
  <2>1. next[q[k]] \in Pointers /\ prev[q[k]] \in Pointers
    BY <1>1 DEF PointersTyped
  <2> QED
    BY <1>11, <2>1 DEF PointersTyped
<1>15. \A i, j \in 1..Len(r) : r[i] = r[j] => i = j
  <2> SUFFICES ASSUME NEW i \in 1..(l - 1), NEW j \in 1..(l - 1), r[i] = r[j] PROVE i = j
    BY <1>4
  <2>1. PICK u \in 1..l : u = At(i) /\ r[i] = q[u]
    BY <1>7
  <2>2. PICK v \in 1..l : v = At(j) /\ r[j] = q[v]
    BY <1>7
  <2>3. q[u] = q[v]
    BY ONLY r[i] = r[j], <2>1, <2>2
  <2>4. u = v
    BY ONLY <1>5, <2>3, u \in 1..l, v \in 1..l
  <2> QED
    BY <1>8, <2>1, <2>2, <2>4
<1>16. \A m \in Nodes : entry'[m] # Freed <=> \E j \in 1..Len(r) : r[j] = m
  <2> SUFFICES ASSUME NEW m \in Nodes
               PROVE  entry'[m] # Freed <=> \E j \in 1..(l - 1) : r[j] = m
    BY <1>4
  <2>1. entry'[m] # Freed <=> entry[m] # Freed /\ m # q[k]
    BY DEF PointersTyped
  <2>2. ASSUME NEW j \in 1..(l - 1), r[j] = m PROVE entry[m] # Freed /\ m # q[k]
    BY <1>3, <1>5, <1>7, <2>2
  <2>3. ASSUME NEW i \in 1..l, q[i] = m, m # q[k] PROVE \E j \in 1..(l - 1) : r[j] = m
    BY <1>7, <1>9, <2>3
  <2> QED
    BY <1>5, <2>1, <2>2, <2>3
<1>17. ASSUME NEW j \in 1..(l - 1)
       PROVE  /\ next'[r[j]] = IF j = l - 1 THEN NULL ELSE r[j + 1]
              /\ prev'[r[j]] = IF j = 1 THEN NULL ELSE r[j - 1]
  <2>1. PICK i \in 1..l : i = At(j) /\ i # k /\ r[j] = q[i]
    BY <1>7
  <2>4. (j # 1 => j - 1 \in 1..(l - 1)) /\ (j # l - 1 => j + 1 \in 1..(l - 1))
    BY <1>10
  <2>5. /\ j # 1 => r[j - 1] = q[At(j - 1)] /\ At(j - 1) \in 1..l
        /\ j # l - 1 => r[j + 1] = q[At(j + 1)] /\ At(j + 1) \in 1..l
    BY <1>7, <2>4
  <2>6. /\ i = 1 => j = 1 /\ k # 1
        /\ i = l => j = l - 1 /\ k # l
        /\ j # 1 => At(j - 1) = IF i = k + 1 THEN k - 1 ELSE i - 1
        /\ j # l - 1 => At(j + 1) = IF i = k - 1 THEN k + 1 ELSE i + 1
        /\ j = 1 /\ i # 1 => i = k + 1 /\ k = 1
        /\ j = l - 1 /\ i # l => i = k - 1 /\ k = l
    BY <1>10, <2>1
  <2>2. next'[r[j]] = IF j = l - 1 THEN NULL ELSE r[j + 1]
    <3>1. CASE i = k - 1
      <4>1. next'[r[j]] = IF k = l THEN NULL ELSE q[k + 1]
        <5>1. next'[q[i]] = next[q[k]]
          BY ONLY <1>13, <3>1, i \in 1..l
        <5>2. next[q[k]] = IF k = l THEN NULL ELSE q[k + 1]
          BY ONLY <1>5, <1>3
        <5> QED
          BY ONLY <2>1, <5>1, <5>2
      <4>2. k = l <=> j = l - 1
        <5>1. j # l - 1 => At(j + 1) = k + 1 /\ At(j + 1) \in 1..l
          BY <2>5, <2>6, <3>1
        <5>2. j = l - 1 => i = l \/ k = l
          BY <2>6
        <5>3. i = l => ~(i = k - 1)
          BY <1>3
        <5>4. k = l => ~(k + 1 \in 1..l)
          BY <1>3
        <5> QED
          BY <3>1, <5>1, <5>2, <5>3, <5>4
      <4>3. j # l - 1 => r[j + 1] = q[k + 1]
        BY <2>5, <2>6, <3>1
      <4> QED
        BY <4>1, <4>2, <4>3
    <3>2. CASE i # k - 1
      <4>1. next'[r[j]] = IF i = l THEN NULL ELSE q[i + 1]
        <5>1. next'[q[i]] = next[q[i]]
          BY ONLY <1>13, <3>2, i \in 1..l
        <5>2. next[q[i]] = IF i = l THEN NULL ELSE q[i + 1]
          BY ONLY <1>5, i \in 1..l
        <5> QED
          BY ONLY <2>1, <5>1, <5>2
      <4>2. i = l <=> j = l - 1
        BY <2>6, <3>2
      <4>3. j # l - 1 => r[j + 1] = q[i + 1]
        BY <2>5, <2>6, <3>2
      <4> QED
        BY <4>1, <4>2, <4>3
    <3> QED
      BY <3>1, <3>2
  <2>3. prev'[r[j]] = IF j = 1 THEN NULL ELSE r[j - 1]
    <3>1. CASE i = k + 1
      <4>1. prev'[r[j]] = IF k = 1 THEN NULL ELSE q[k - 1]
        <5>1. prev'[q[i]] = prev[q[k]]
          BY ONLY <1>13, <3>1, i \in 1..l
        <5>2. prev[q[k]] = IF k = 1 THEN NULL ELSE q[k - 1]
          BY ONLY <1>5, <1>3
        <5> QED
          BY ONLY <2>1, <5>1, <5>2
      <4>2. k = 1 <=> j = 1
        <5>1. j # 1 => At(j - 1) = k - 1 /\ At(j - 1) \in 1..l
          BY <2>5, <2>6, <3>1
        <5>2. j = 1 => i = 1 \/ k = 1
          BY <2>6
        <5>3. i = 1 => ~(i = k + 1)
          BY <1>3
        <5>4. k = 1 => ~(k - 1 \in 1..l)
          BY <1>3
        <5> QED
          BY <3>1, <5>1, <5>2, <5>3, <5>4
      <4>3. j # 1 => r[j - 1] = q[k - 1]
        BY <2>5, <2>6, <3>1
      <4> QED
        BY <4>1, <4>2, <4>3
    <3>2. CASE i # k + 1
      <4>1. prev'[r[j]] = IF i = 1 THEN NULL ELSE q[i - 1]
        <5>1. prev'[q[i]] = prev[q[i]]
          BY ONLY <1>13, <3>2, i \in 1..l
        <5>2. prev[q[i]] = IF i = 1 THEN NULL ELSE q[i - 1]
          BY ONLY <1>5, i \in 1..l
        <5> QED
          BY ONLY <2>1, <5>1, <5>2
      <4>2. i = 1 <=> j = 1
        BY <2>6, <3>2
      <4>3. j # 1 => r[j - 1] = q[i - 1]
        BY <2>5, <2>6, <3>2
      <4> QED
        BY <4>1, <4>2, <4>3
    <3> QED
      BY <3>1, <3>2
  <2> QED
    BY <2>2, <2>3
<1>18. /\ head' = IF r = <<>> THEN NULL ELSE r[1]
       /\ tail' = IF r = <<>> THEN NULL ELSE r[Len(r)]
  <2>1. r = <<>> <=> l = 1
    BY <1>4, <1>6, EmptySeq
  <2>2. CASE l = 1
    <3>1. k = 1 /\ k = l
      BY <1>3, <2>2
    <3> QED
      BY <1>5, <1>6, <1>11, <2>1, <2>2, <3>1
  <2>3. CASE l # 1
    <3>1. 1 \in 1..(l - 1) /\ l - 1 \in 1..(l - 1)
      BY <1>3, <1>6, <2>3
    <3>2. r[1] = IF k = 1 THEN q[2] ELSE q[1]
      BY <1>3, <1>4, <3>1
    <3>3. r[l - 1] = IF k = l THEN q[l - 1] ELSE q[l]
      <4>1. (l - 1 < k <=> k = l) /\ (l - 1) + 1 = l
        BY <1>3
      <4> QED
        BY <1>4, <3>1, <4>1
    <3>4. head' = r[1]
      BY <1>5, <1>6, <1>11, <2>3, <3>2
    <3>5. tail' = r[l - 1]
      BY <1>5, <1>6, <1>11, <2>3, <3>3
    <3> QED
      BY <1>4, <2>1, <2>3, <3>4, <3>5
  <2> QED
    BY <2>2, <2>3
<1>19. Lists(r)'
  BY <1>4, <1>15, <1>16, <1>17, <1>18 DEF Lists, Linked
<1> QED
  BY <1>2, <1>4, <1>14, <1>19

-----------------------------------------------------------------------------
\* The invariant, and the theorems.

LEMMA IInvInit == Init => IInv
<1> SUFFICES ASSUME Init PROVE IInv
  OBVIOUS
<1>1. PointersTyped
  BY DEF Init, PointersTyped, Pointers
<1>2. <<>> \in Seq(Nodes) /\ Len(<<>>) = 0
  OBVIOUS
<1>3. Lists(<<>>)
  BY <1>2 DEF Init, Lists, Linked
<1> QED
  BY <1>1, <1>2, <1>3 DEF IInv

LEMMA IInvNext ==
  ASSUME IInv, [Next]_vars
  PROVE  IInv'
<1>1. PICK q \in Seq(Nodes) : Lists(q)
  BY DEF IInv
<1>2. PointersTyped
  BY DEF IInv
<1>3. ASSUME NEW n \in Nodes, NEW e \in Entries, InsertNode(n, e)
      PROVE  IInv'
  BY <1>1, <1>2, <1>3, InsertFacts DEF IInv
<1>4. ASSUME NEW n \in Nodes, NEW e \in Entries, RemoveNode(n, e)
      PROVE  IInv'
  <2>1. PICK k \in 1..Len(q) : q[k] = n
    BY <1>1, <1>4, FoundAt DEF RemoveNode
  <2>2. Unlinked(q, k) /\ entry' = [entry EXCEPT ![q[k]] = Freed]
    BY <1>1, <1>4, <2>1, UnlinkedOneWay DEF RemoveNode
  <2> QED
    BY <1>1, <1>2, <2>1, <2>2, RemoveFacts DEF IInv
<1>5. CASE UNCHANGED vars
  <2>1. PointersTyped' /\ Lists(q)'
    BY <1>1, <1>2, <1>5 DEF vars, PointersTyped, Lists, Linked
  <2> QED
    BY <2>1 DEF IInv
<1> QED
  BY <1>3, <1>4, <1>5 DEF Next

LEMMA Invariant == Spec => []IInv
BY IInvInit, IInvNext, PTL DEF Spec

(* The pointers stay pointers, and head and tail are NULL together, which  *)
(* is how pq_insert tells an empty queue.                                  *)
THEOREM TypeCorrect == Spec => []TypeOK
<1>1. IInv => TypeOK
  <2> SUFFICES ASSUME IInv PROVE TypeOK
    OBVIOUS
  <2>1. PointersTyped
    BY DEF IInv
  <2>2. PICK q \in Seq(Nodes) : Lists(q)
    BY DEF IInv
  <2>3. /\ Len(q) \in Nat /\ (q = <<>> <=> Len(q) = 0)
        /\ \A i \in 1..Len(q) : q[i] \in Nodes /\ q[i] # NULL
    BY <2>2, ListFacts
  <2>4. head = (IF q = <<>> THEN NULL ELSE q[1]) /\ tail = IF q = <<>> THEN NULL ELSE q[Len(q)]
    BY <2>2 DEF Lists, Linked
  <2>5. q # <<>> => 1 \in 1..Len(q) /\ Len(q) \in 1..Len(q)
    BY <2>3
  <2> QED
    BY <2>1, <2>3, <2>4, <2>5 DEF TypeOK, PointersTyped, Pointers
<1> QED
  BY <1>1, Invariant, PTL

(* Whatever was inserted and removed, walking next from the head and prev  *)
(* from the tail meet the same nodes, each once, and just those allocated: *)
(* pq_remove leaves neither a dangling pointer nor a node out of reach.    *)
THEOREM StaysWellLinked == Spec => []WellLinked
<1>1. IInv => WellLinked
  <2> SUFFICES ASSUME IInv PROVE WellLinked
    OBVIOUS
  <2>1. PICK q \in Seq(Nodes) : Lists(q)
    BY DEF IInv
  <2>2. /\ Forward = q /\ Backward = Reverse(q) /\ DOMAIN q = 1..Len(q)
        /\ \A i \in 1..Len(q) : q[i] \in Nodes
    BY <2>1, ListFacts
  <2>3. IsInjective(q)
    BY <2>1, <2>2 DEF Lists, IsInjective
  <2>4. Range(q) = {n \in Nodes : entry[n] # Freed}
    BY <2>1, <2>2 DEF Lists, Range
  <2> QED
    BY <2>2, <2>3, <2>4 DEF WellLinked
<1> QED
  BY <1>1, Invariant, PTL

\* What the two operations do to the entries.
LEMMA QueueNext ==
  ASSUME NEW r \in Seq(Nodes), Lists(r)'
  PROVE  Queue' = [i \in 1..Len(r) |-> entry'[r[i]]]
<1>1. (\A i, j \in 1..Len(r) : r[i] = r[j] => i = j) /\ Linked(r, head', next')
  BY DEF Lists, Linked
<1>2. Nodelist(head', next') = r
  BY <1>1, NodelistIs
<1>3. Forward' = r /\ DOMAIN r = 1..Len(r)
  BY <1>2, LenProperties DEF Forward
<1> QED
  BY <1>3 DEF Queue

LEMMA InsertAppends ==
  ASSUME IInv, NEW n \in Nodes, NEW e \in Entries, InsertNode(n, e)
  PROVE  Queue' = PqInsert(Queue, e)
<1>1. PICK q \in Seq(Nodes) : Lists(q)
  BY DEF IInv
<1>2. PointersTyped
  BY DEF IInv
<1>3. PICK r \in Seq(Nodes) : r = Append(q, n) /\ Lists(r)'
  BY <1>1, <1>2, InsertFacts
<1>4. /\ Queue = [i \in 1..Len(q) |-> entry[q[i]]] /\ Len(q) \in Nat
      /\ \A i \in 1..Len(q) : q[i] \in Nodes /\ q[i] # n
  BY <1>1, ListFacts DEF InsertNode, Lists
<1>5. Queue' = [i \in 1..Len(r) |-> entry'[r[i]]]
  BY <1>3, QueueNext
<1>6. PICK a : a = [i \in 1..Len(q) |-> entry[q[i]]]
  OBVIOUS
<1>7. PICK b : b = [i \in 1..Len(r) |-> entry'[r[i]]]
  OBVIOUS
<1>8. /\ Len(r) = Len(q) + 1 /\ \A i \in 1..Len(q) : r[i] = q[i]
      /\ r[Len(q) + 1] = n
  BY <1>3, AppendProperties
<1>9. PICK S : S = Entries \cup {Freed}
  OBVIOUS
<1>10. a \in Seq(S) /\ Len(a) = Len(q) /\ e \in S
  <2>1. a \in [1..Len(q) -> S]
    BY <1>2, <1>4, <1>6, <1>9 DEF PointersTyped
  <2>2. PICK l \in Nat : l = Len(q)
    BY <1>4
  <2>3. a \in [1..l -> S]
    BY <2>1, <2>2
  <2>4. a \in Seq(S) /\ Len(a) = l
    BY ONLY <2>2, <2>3
  <2>5. e \in S
    BY <1>9
  <2> QED
    BY <2>2, <2>4, <2>5
<1>11. \A m \in Nodes : entry'[m] = IF m = n THEN e ELSE entry[m]
  BY <1>2 DEF PointersTyped, InsertNode
<1>12. b \in Seq(S) /\ Len(b) = Len(q) + 1
  <2>1. \A i \in 1..Len(r) : r[i] \in Nodes
    BY <1>3, ElementOfSeq
  <2>2. b \in [1..Len(r) -> S]
    BY <1>2, <1>7, <1>9, <1>10, <1>11, <2>1 DEF PointersTyped
  <2>3. Len(r) \in Nat
    BY <1>3, LenProperties
  <2> QED
    BY <1>8, <2>2, <2>3
<1>13. /\ Append(a, e) \in Seq(S) /\ Len(Append(a, e)) = Len(q) + 1
       /\ \A i \in 1..Len(q) : Append(a, e)[i] = a[i]
       /\ Append(a, e)[Len(q) + 1] = e
  BY <1>10, AppendProperties
<1>14. \A i \in 1..(Len(q) + 1) : b[i] = Append(a, e)[i]
  <2> SUFFICES ASSUME NEW i \in 1..(Len(q) + 1) PROVE b[i] = Append(a, e)[i]
    OBVIOUS
  <2>1. CASE i = Len(q) + 1
    BY <1>7, <1>8, <1>11, <1>13, <2>1
  <2>2. CASE i # Len(q) + 1
    <3>1. i \in 1..Len(q) /\ i \in 1..Len(r)
      BY <1>4, <1>8, <2>2
    <3>2. b[i] = entry[q[i]]
      BY <1>4, <1>7, <1>8, <1>11, <3>1
    <3> QED
      BY <1>6, <1>13, <3>1, <3>2
  <2> QED
    BY <2>1, <2>2
<1>15. b = Append(a, e)
  BY <1>12, <1>13, <1>14, SeqEqual
<1> QED
  BY <1>4, <1>5, <1>6, <1>7, <1>15 DEF PqInsert

LEMMA RemoveDeletes ==
  ASSUME IInv, NEW n \in Nodes, NEW e \in Entries, RemoveNode(n, e)
  PROVE  Queue' = PqRemove(Queue, e)
<1>1. PICK q \in Seq(Nodes) : Lists(q)
  BY DEF IInv
<1>2. PointersTyped
  BY DEF IInv
<1>3. PICK k \in 1..Len(q) : k = FirstPosition(Queue, e) /\ q[k] = n /\ e \in Range(Queue)
  BY <1>1, FoundAt DEF RemoveNode
<1>4. Unlinked(q, k) /\ entry' = [entry EXCEPT ![q[k]] = Freed]
  BY <1>1, <1>3, UnlinkedOneWay DEF RemoveNode
<1>5. PICK r \in Seq(Nodes) : r = RemoveAt(q, k) /\ Lists(r)'
  BY <1>1, <1>2, <1>4, RemoveFacts
<1>6. PICK l \in Nat : l = Len(q) /\ k \in 1..l
  BY <1>1, ListFacts
<1>7. /\ Len(r) = l - 1
      /\ \A j \in 1..(l - 1) : r[j] = IF j < k THEN q[j] ELSE q[j + 1]
  BY <1>5, <1>6, RemoveAtProperties
<1>8. PICK a : a = [i \in 1..l |-> entry[q[i]]] /\ Queue = a
  BY <1>1, <1>6, ListFacts
<1>9. PICK b : b = [i \in 1..(l - 1) |-> entry'[r[i]]] /\ Queue' = b
  BY <1>5, <1>7, QueueNext
<1>10. PICK S : S = Entries \cup {Freed}
  OBVIOUS
<1>11. /\ \A i \in 1..l : q[i] \in Nodes
       /\ \A i, j \in 1..l : q[i] = q[j] => i = j
  BY <1>1, <1>6, ListFacts DEF Lists
<1>12. a \in Seq(S) /\ Len(a) = l
  <2>1. a \in [1..l -> S]
    BY <1>2, <1>8, <1>10, <1>11 DEF PointersTyped
  <2> QED
    BY <1>6, <2>1
<1>13. ASSUME NEW j \in 1..(l - 1)
       PROVE  b[j] = IF j < k THEN a[j] ELSE a[j + 1]
  <2>1. PICK i \in 1..l : i = (IF j < k THEN j ELSE j + 1) /\ i # k
    BY <1>6
  <2>2. r[j] = q[i]
    BY <1>7, <2>1
  <2>3. entry'[q[i]] = entry[q[i]]
    BY <1>2, <1>4, <1>6, <1>11, <2>1 DEF PointersTyped
  <2> QED
    BY <1>8, <1>9, <2>1, <2>2, <2>3
<1>14. /\ RemoveAt(a, k) \in Seq(S) /\ Len(RemoveAt(a, k)) = l - 1
       /\ \A j \in 1..(l - 1) : RemoveAt(a, k)[j] = IF j < k THEN a[j] ELSE a[j + 1]
  <2>1. k \in 1..Len(a)
    BY <1>6, <1>12
  <2>2. PICK d : d = RemoveAt(a, k)
    OBVIOUS
  <2>3. /\ d \in Seq(S) /\ Len(d) = Len(a) - 1
        /\ \A j \in 1..(Len(a) - 1) : d[j] = IF j < k THEN a[j] ELSE a[j + 1]
    BY ONLY <2>1, <2>2, <1>12, RemoveAtProperties
  <2>4. /\ d \in Seq(S) /\ Len(d) = l - 1
        /\ \A j \in 1..(l - 1) : d[j] = IF j < k THEN a[j] ELSE a[j + 1]
    BY ONLY <1>12, <2>3
  <2> QED
    BY ONLY <2>2, <2>4
<1>15. b = RemoveAt(a, k)
  <2>1. l - 1 \in Nat
    BY <1>6
  <2>2. RemoveAt(a, k) = [j \in 1..(l - 1) |-> RemoveAt(a, k)[j]]
    BY <1>14, LenProperties
  <2> QED
    BY <1>9, <1>13, <1>14, <2>2
<1> QED
  BY <1>3, <1>8, <1>9, <1>15 DEF PqRemove

(* On any list the pointer operations do what PriorityQueue says of its    *)
(* entries: one is added at the end, or the first that matches taken out.  *)
THEOREM OperationsAreRight == Spec => OperationsOnQueue
<1>1. IInv => \A n \in Nodes, e \in Entries :
                 /\ InsertNode(n, e) => Queue' = PqInsert(Queue, e)
                 /\ RemoveNode(n, e) => Queue' = PqRemove(Queue, e)
  BY InsertAppends, RemoveDeletes
<1> QED
  BY <1>1, Invariant, PTL DEF Spec, OperationsOnQueue
=============================================================================
