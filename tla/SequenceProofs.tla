---------------------------- MODULE SequenceProofs ----------------------------
(***************************************************************************)
(* Facts about sequences that the proofs share: what the queue operators   *)
(* do to the set of queued entries, and what FlattenSeq computes.          *)
(***************************************************************************)
EXTENDS PriorityQueue, SequenceTheorems, WellFoundedInduction, TLAPS

-----------------------------------------------------------------------------
\* Induction over numbers, for sets of numbers.

LEMMA LeastNumber ==
  ASSUME NEW T \in SUBSET Nat, T # {}
  PROVE  \E n \in T : \A m \in T : n <= m
<1> DEFINE R == OpToRel(<, Nat)
<1>1. IsWellFoundedOn(R, Nat)
  BY NatLessThanWellFounded
<1>2. \A x, y \in Nat : x < y => <<x, y>> \in R
  BY DEF OpToRel
<1> HIDE DEF R
<1>3. PICK n \in T : \A m \in T : ~(<<m, n>> \in R)
  BY <1>1, WFMin
<1>4. \A m \in T : ~(m < n)
  BY <1>2, <1>3
<1> QED
  BY <1>4

LEMMA Induction ==
  ASSUME NEW T \in SUBSET Nat, 0 \in T, \A n \in T : n + 1 \in T
  PROVE  T = Nat
<1> SUFFICES ASSUME Nat \ T # {} PROVE FALSE
  OBVIOUS
<1>1. PICK n \in Nat \ T : \A m \in Nat \ T : n <= m
  BY LeastNumber
<1>2. n # 0 /\ n - 1 \in Nat
  BY <1>1
<1>3. n - 1 \in T
  BY <1>1, <1>2
<1> QED
  BY <1>1, <1>3

-----------------------------------------------------------------------------
\* What FlattenSeq computes.

\* f holds the concatenations of the first sequences of s.
Flattens(f, s) ==
  f = [i \in 1..Len(s) |-> IF i = 1 THEN s[i] ELSE f[i - 1] \o s[i]]

LEMMA FlattensExtended ==
  ASSUME NEW S, NEW s \in Seq(Seq(S)), NEW b \in Seq(S), NEW f, Flattens(f, s)
  PROVE  LET g == [i \in 1..(Len(s) + 1) |->
                     IF i = Len(s) + 1 THEN IF s = <<>> THEN b ELSE f[Len(s)] \o b ELSE f[i]]
         IN  Flattens(g, Append(s, b))
<1> DEFINE n == Len(s)
           t == Append(s, b)
           g == [i \in 1..(n + 1) |->
                   IF i = n + 1 THEN IF s = <<>> THEN b ELSE f[n] \o b ELSE f[i]]
<1>1. /\ n \in Nat /\ Len(t) = n + 1 /\ t[n + 1] = b /\ \A i \in 1..n : t[i] = s[i]
      /\ s = <<>> <=> n = 0
  BY AppendProperties, LenProperties, EmptySeq
<1> HIDE DEF t
<1>2. \A i \in 1..n : f[i] = IF i = 1 THEN s[i] ELSE f[i - 1] \o s[i]
  BY DEF Flattens
<1>3. ASSUME NEW i \in 1..(n + 1)
      PROVE  g[i] = IF i = 1 THEN t[i] ELSE g[i - 1] \o t[i]
  <2>1. CASE i = n + 1
    <3>1. CASE n = 0
      BY <1>1, <2>1, <3>1
    <3>2. CASE n # 0
      <4>1. n \in 1..(n + 1) /\ n # n + 1 /\ i - 1 = n /\ i # 1
        BY <1>1, <2>1, <3>2
      <4>2. g[n] = f[n] /\ g[n + 1] = f[n] \o b
        BY <1>1, <3>2, <4>1
      <4> QED
        BY <1>1, <2>1, <4>1, <4>2
    <3> QED
      BY <3>1, <3>2
  <2>2. CASE i # n + 1
    <3>1. i \in 1..n /\ (i # 1 => i - 1 \in 1..(n + 1) /\ i - 1 # n + 1)
      BY <1>1, <2>2
    <3>2. g[i] = f[i] /\ (i # 1 => g[i - 1] = f[i - 1]) /\ t[i] = s[i]
      BY <1>1, <2>2, <3>1
    <3> QED
      BY <1>2, <3>1, <3>2
  <2> QED
    BY <2>1, <2>2
<1>4. g = [i \in 1..(n + 1) |-> IF i = 1 THEN t[i] ELSE g[i - 1] \o t[i]]
  BY <1>3
<1> HIDE DEF g
<1>5. Flattens(g, t)
  BY <1>1, <1>4 DEF Flattens
<1> QED
  BY <1>5 DEF g, t, n

\* The sequence without its last element.
LEMMA FrontAppended ==
  ASSUME NEW S, NEW s \in Seq(S), s # <<>>
  PROVE  /\ Front(s) \in Seq(S) /\ Len(Front(s)) = Len(s) - 1
         /\ s = Append(Front(s), Last(s)) /\ Last(s) \in S
<1>1. Len(s) \in Nat /\ Len(s) # 0
  BY LenProperties, EmptySeq
<1>2. \A j \in 1..(Len(s) - 1) : s[j] \in S
  BY <1>1, ElementOfSeq
<1>3. /\ Front(s) \in Seq(S) /\ Len(Front(s)) = Len(s) - 1
      /\ \A j \in 1..(Len(s) - 1) : Front(s)[j] = s[j]
  <2>1. \A j \in 1..(Len(s) - 1) : s[j] \in S /\ (1 + j) - 1 = j
    BY <1>1, <1>2
  <2>2. /\ SubSeq(s, 1, Len(s) - 1) \in Seq(S)
        /\ Len(SubSeq(s, 1, Len(s) - 1)) =
             IF 1 <= Len(s) - 1 THEN (Len(s) - 1) - 1 + 1 ELSE 0
        /\ \A j \in 1..((Len(s) - 1) - 1 + 1) : SubSeq(s, 1, Len(s) - 1)[j] = s[1 + j - 1]
    BY <1>1, <2>1, SubSeqProperties
  <2>3. Len(SubSeq(s, 1, Len(s) - 1)) = Len(s) - 1
    <3>1. \A n \in Nat : n # 0 => n - 1 = IF 1 <= n - 1 THEN (n - 1) - 1 + 1 ELSE 0
      OBVIOUS
    <3> QED
      BY ONLY <1>1, <2>2, <3>1
  <2>4. ASSUME NEW j \in 1..(Len(s) - 1) PROVE SubSeq(s, 1, Len(s) - 1)[j] = s[j]
    <3>1. j \in 1..((Len(s) - 1) - 1 + 1) /\ 1 + j - 1 = j
      BY <1>1
    <3> QED
      BY <2>2, <3>1
  <2> QED
    BY <2>2, <2>3, <2>4 DEF Front
<1>4. Last(s) \in S
  BY <1>1, ElementOfSeq DEF Last
<1>5. /\ Append(Front(s), Last(s)) \in Seq(S) /\ Len(Append(Front(s), Last(s))) = Len(s)
      /\ \A j \in 1..(Len(s) - 1) : Append(Front(s), Last(s))[j] = s[j]
      /\ Append(Front(s), Last(s))[Len(s)] = s[Len(s)]
  BY <1>1, <1>3, <1>4, AppendProperties DEF Last
<1>6. \A j \in 1..Len(s) : Append(Front(s), Last(s))[j] = s[j]
  BY <1>1, <1>5
<1> QED
  BY <1>3, <1>4, <1>5, <1>6, SeqEqual

LEMMA FlattensExists ==
  ASSUME NEW S, NEW s \in Seq(Seq(S))
  PROVE  \E f : Flattens(f, s)
<1> DEFINE T == {n \in Nat : \A r \in Seq(Seq(S)) : Len(r) = n => \E f : Flattens(f, r)}
<1>1. 0 \in T
  <2> SUFFICES ASSUME NEW r \in Seq(Seq(S)), Len(r) = 0 PROVE \E f : Flattens(f, r)
    OBVIOUS
  <2>1. 1..Len(r) = {}
    OBVIOUS
  <2>2. Flattens([i \in {} |-> i], r)
    BY <2>1 DEF Flattens
  <2> QED
    BY <2>2
<1>2. ASSUME NEW n \in T PROVE n + 1 \in T
  <2> SUFFICES ASSUME NEW r \in Seq(Seq(S)), Len(r) = n + 1 PROVE \E f : Flattens(f, r)
    OBVIOUS
  <2>0. r # <<>>
    BY EmptySeq
  <2>1. /\ Front(r) \in Seq(Seq(S)) /\ Len(Front(r)) = Len(r) - 1 /\ Last(r) \in Seq(S)
        /\ r = Append(Front(r), Last(r))
    BY ONLY <2>0, r \in Seq(Seq(S)), FrontAppended
  <2>3. Len(Front(r)) = n
    BY <2>1
  <2>2. PICK f : Flattens(f, Front(r))
    BY <2>1, <2>3
  <2> QED
    BY <2>1, <2>2, FlattensExtended
<1> HIDE DEF T
<1>3. T = Nat
  BY <1>1, <1>2, Induction DEF T
<1> QED
  BY <1>3, LenProperties DEF T

LEMMA FlattensOnce ==
  ASSUME NEW S, NEW s \in Seq(Seq(S)), NEW f, NEW g, Flattens(f, s), Flattens(g, s),
         NEW k \in 1..Len(s)
  PROVE  f[k] = g[k]
<1> DEFINE T == {n \in Nat : n + 1 \in 1..Len(s) => f[n + 1] = g[n + 1]}
<1>1. \A i \in 1..Len(s) : /\ f[i] = IF i = 1 THEN s[i] ELSE f[i - 1] \o s[i]
                           /\ g[i] = IF i = 1 THEN s[i] ELSE g[i - 1] \o s[i]
  BY DEF Flattens
<1>2. 0 \in T
  BY <1>1
<1>3. ASSUME NEW n \in T PROVE n + 1 \in T
  <2> SUFFICES ASSUME (n + 1) + 1 \in 1..Len(s) PROVE f[(n + 1) + 1] = g[(n + 1) + 1]
    OBVIOUS
  <2>1. n + 1 \in 1..Len(s) /\ ((n + 1) + 1) - 1 = n + 1 /\ (n + 1) + 1 # 1
    BY LenProperties
  <2>2. f[n + 1] = g[n + 1]
    BY <2>1
  <2> QED
    BY <1>1, <2>1, <2>2
<1> HIDE DEF T
<1>4. T = Nat
  BY <1>2, <1>3, Induction DEF T
<1>5. k - 1 \in Nat /\ (k - 1) + 1 = k
  BY LenProperties
<1> QED
  BY <1>4, <1>5 DEF T

LEMMA FlattenIs ==
  ASSUME NEW S, NEW s \in Seq(Seq(S)), s # <<>>, NEW f, Flattens(f, s)
  PROVE  FlattenSeq(s) = f[Len(s)]
<1>1. Len(s) \in Nat /\ Len(s) # 0 /\ Len(s) \in 1..Len(s)
  BY LenProperties, EmptySeq
<1> DEFINE g == CHOOSE h : Flattens(h, s)
<1>2. Flattens(g, s)
  BY FlattensExists
<1>3. FlattenSeq(s) = g[Len(s)]
  BY <1>1 DEF FlattenSeq, Flattens
<1> HIDE DEF g
<1> QED
  BY <1>1, <1>2, <1>3, FlattensOnce

LEMMA FlattenEmpty == FlattenSeq(<<>>) = <<>>
BY DEF FlattenSeq

\* One sequence more.
LEMMA FlattenAppend ==
  ASSUME NEW S, NEW s \in Seq(Seq(S)), NEW b \in Seq(S), FlattenSeq(s) \in Seq(S)
  PROVE  FlattenSeq(Append(s, b)) = FlattenSeq(s) \o b
<1>1. PICK f : Flattens(f, s)
  BY FlattensExists
<1> DEFINE g == [i \in 1..(Len(s) + 1) |->
                   IF i = Len(s) + 1 THEN IF s = <<>> THEN b ELSE f[Len(s)] \o b ELSE f[i]]
<1>2. /\ Append(s, b) \in Seq(Seq(S)) /\ Len(Append(s, b)) = Len(s) + 1 /\ Len(s) \in Nat
      /\ Append(s, b) # <<>>
  BY AppendProperties, LenProperties
<1>3. Flattens(g, Append(s, b))
  BY <1>1, FlattensExtended
<1>4. g[Len(s) + 1] = IF s = <<>> THEN b ELSE f[Len(s)] \o b
  BY <1>2
<1> HIDE DEF g
<1>5. FlattenSeq(Append(s, b)) = IF s = <<>> THEN b ELSE f[Len(s)] \o b
  BY <1>2, <1>3, <1>4, FlattenIs
<1>6. CASE s = <<>>
  BY <1>5, <1>6, FlattenEmpty, ConcatEmptySeq
<1>7. CASE s # <<>>
  BY <1>1, <1>5, <1>7, FlattenIs
<1> QED
  BY <1>6, <1>7

LEMMA FlattenTyped ==
  ASSUME NEW S, NEW s \in Seq(Seq(S))
  PROVE  FlattenSeq(s) \in Seq(S)
<1> DEFINE T == {n \in Nat : \A r \in Seq(Seq(S)) : Len(r) = n => FlattenSeq(r) \in Seq(S)}
<1>1. 0 \in T
  <2> SUFFICES ASSUME NEW r \in Seq(Seq(S)), Len(r) = 0 PROVE FlattenSeq(r) \in Seq(S)
    OBVIOUS
  <2>1. r = <<>>
    BY EmptySeq
  <2> QED
    BY <2>1, FlattenEmpty, EmptySeq
<1>2. ASSUME NEW n \in T PROVE n + 1 \in T
  <2> SUFFICES ASSUME NEW r \in Seq(Seq(S)), Len(r) = n + 1 PROVE FlattenSeq(r) \in Seq(S)
    OBVIOUS
  <2>0. r # <<>>
    BY EmptySeq
  <2>1. /\ Front(r) \in Seq(Seq(S)) /\ Len(Front(r)) = Len(r) - 1 /\ Last(r) \in Seq(S)
        /\ r = Append(Front(r), Last(r))
    BY ONLY <2>0, r \in Seq(Seq(S)), FrontAppended
  <2>2. Len(Front(r)) = n
    BY <2>1
  <2>3. FlattenSeq(Front(r)) \in Seq(S)
    BY <2>1, <2>2
  <2>4. FlattenSeq(Append(Front(r), Last(r))) = FlattenSeq(Front(r)) \o Last(r)
    BY ONLY <2>1, <2>3, FlattenAppend
  <2>5. FlattenSeq(r) = FlattenSeq(Front(r)) \o Last(r)
    BY <2>1, <2>4
  <2> QED
    BY <2>1, <2>3, <2>5, ConcatProperties
<1> HIDE DEF T
<1>3. T = Nat
  BY <1>1, <1>2, Induction DEF T
<1> QED
  BY <1>3, LenProperties DEF T

LEMMA FlattenOneMore ==
  ASSUME NEW S, NEW s \in Seq(Seq(S)), NEW b \in Seq(S)
  PROVE  FlattenSeq(Append(s, b)) = FlattenSeq(s) \o b /\ FlattenSeq(s) \in Seq(S)
BY FlattenTyped, FlattenAppend

-----------------------------------------------------------------------------
\* pq_insert adds one entry and keeps a duplicate-free queue duplicate-free.
LEMMA PqInsertProperties ==
  ASSUME NEW S, NEW q \in Seq(S), NEW e \in S
  PROVE  /\ PqInsert(q, e) \in Seq(S)
         /\ Range(PqInsert(q, e)) = Range(q) \cup {e}
         /\ IsInjective(q) /\ e \notin Range(q) => IsInjective(PqInsert(q, e))
<1>1. /\ PqInsert(q, e) \in Seq(S) /\ Len(PqInsert(q, e)) = Len(q) + 1
      /\ \A i \in 1..Len(q) : PqInsert(q, e)[i] = q[i]
      /\ PqInsert(q, e)[Len(q) + 1] = e
  BY AppendProperties DEF PqInsert
<1>2. DOMAIN PqInsert(q, e) = 1..(Len(q) + 1) /\ DOMAIN q = 1..Len(q) /\ Len(q) \in Nat
  BY <1>1, LenProperties
<1>3. Range(PqInsert(q, e)) = Range(q) \cup {e}
  BY <1>1, <1>2 DEF Range
<1>4. ASSUME IsInjective(q), e \notin Range(q)
      PROVE  IsInjective(PqInsert(q, e))
  BY <1>1, <1>2, <1>4 DEF IsInjective, Range
<1> QED
  BY <1>1, <1>3, <1>4

\* Removing one position of a duplicate-free sequence removes just its element.
LEMMA RemoveAtProperties ==
  ASSUME NEW S, NEW q \in Seq(S), NEW i \in 1..Len(q)
  PROVE  /\ RemoveAt(q, i) \in Seq(S)
         /\ Len(RemoveAt(q, i)) = Len(q) - 1
         /\ \A j \in 1..(Len(q) - 1) :
              RemoveAt(q, i)[j] = IF j < i THEN q[j] ELSE q[j + 1]
<1> DEFINE front == SubSeq(q, 1, i - 1)
           back  == SubSeq(q, i + 1, Len(q))
<1>1. Len(q) \in Nat /\ \A j \in 1..Len(q) : q[j] \in S
  BY LenProperties, ElementOfSeq
<1>2. /\ front \in Seq(S) /\ Len(front) = i - 1
      /\ \A j \in 1..(i - 1) : front[j] = q[j]
  <2>1. \A j \in 1..(i - 1) : q[j] \in S
    BY <1>1
  <2>2. Len(front) = IF 1 <= i - 1 THEN (i - 1) - 1 + 1 ELSE 0
    BY <2>1, SubSeqProperties
  <2>3. front \in Seq(S) /\ \A j \in 1..((i - 1) - 1 + 1) : front[j] = q[1 + j - 1]
    BY <2>1, SubSeqProperties
  <2> QED
    BY <1>1, <2>2, <2>3
<1>3. /\ back \in Seq(S) /\ Len(back) = Len(q) - i
      /\ \A j \in 1..(Len(q) - i) : back[j] = q[i + j]
  <2>1. \A j \in (i + 1)..Len(q) : q[j] \in S
    BY <1>1
  <2>2. Len(back) = IF i + 1 <= Len(q) THEN Len(q) - (i + 1) + 1 ELSE 0
    BY <1>1, <2>1, SubSeqProperties
  <2>3. back \in Seq(S) /\ \A j \in 1..(Len(q) - (i + 1) + 1) : back[j] = q[(i + 1) + j - 1]
    BY <1>1, <2>1, SubSeqProperties
  <2> QED
    BY <1>1, <2>2, <2>3
<1> HIDE DEF front, back
<1> DEFINE cat == front \o back
<1>4. /\ cat \in Seq(S) /\ Len(cat) = Len(front) + Len(back)
      /\ \A j \in 1..(Len(front) + Len(back)) :
           cat[j] = IF j <= Len(front) THEN front[j] ELSE back[j - Len(front)]
  BY <1>2, <1>3, ConcatProperties
<1>5. RemoveAt(q, i) = cat
  BY DEF RemoveAt, front, back
<1> HIDE DEF cat
<1>6. Len(cat) = Len(q) - 1
  BY <1>1, <1>2, <1>3, <1>4
<1>7. ASSUME NEW j \in 1..(Len(q) - 1)
      PROVE  cat[j] = IF j < i THEN q[j] ELSE q[j + 1]
  <2>1. j \in 1..(Len(front) + Len(back))
    BY <1>1, <1>2, <1>3
  <2>2. CASE j < i
    BY <1>1, <1>2, <1>4, <2>1, <2>2
  <2>3. CASE ~(j < i)
    <3>1. cat[j] = back[j - (i - 1)]
      BY <1>1, <1>2, <1>4, <2>1, <2>3
    <3>2. j - (i - 1) \in 1..(Len(q) - i) /\ i + (j - (i - 1)) = j + 1
      BY <1>1, <2>3
    <3> QED
      BY <1>3, <2>3, <3>1, <3>2
  <2> QED
    BY <2>2, <2>3
<1> QED
  BY <1>4, <1>5, <1>6, <1>7

\* pq_remove takes a queued entry off and nothing else.
LEMMA PqRemoveProperties ==
  ASSUME NEW S, NEW q \in Seq(S), IsInjective(q), NEW e \in Range(q)
  PROVE  /\ PqRemove(q, e) \in Seq(S)
         /\ Range(PqRemove(q, e)) = Range(q) \ {e}
         /\ IsInjective(PqRemove(q, e))
<1> DEFINE i == FirstPosition(q, e)
           r == RemoveAt(q, i)
<1>1. DOMAIN q = 1..Len(q) /\ Len(q) \in Nat
  BY LenProperties
<1>2. i \in 1..Len(q) /\ q[i] = e
  <2>1. PICK p \in 1..Len(q) : q[p] = e
    BY <1>1 DEF Range
  <2>2. \A j \in 1..(p - 1) : q[j] # e
    BY <1>1, <2>1 DEF IsInjective
  <2> QED
    BY <2>1, <2>2 DEF FirstPosition
<1>3. /\ r \in Seq(S) /\ Len(r) = Len(q) - 1
      /\ \A j \in 1..(Len(q) - 1) : r[j] = IF j < i THEN q[j] ELSE q[j + 1]
  BY <1>2, RemoveAtProperties
<1>4. DOMAIN r = 1..(Len(q) - 1)
  BY <1>3, LenProperties
<1>5. PqRemove(q, e) = r
  BY DEF PqRemove
<1> HIDE DEF i, r
<1>6. Range(r) = Range(q) \ {e}
  <2>1. ASSUME NEW x \in Range(r) PROVE x \in Range(q) \ {e}
    <3>1. PICK j \in 1..(Len(q) - 1) : x = r[j]
      BY <1>4 DEF Range
    <3>2. PICK k \in 1..Len(q) : k # i /\ x = q[k]
      BY <1>1, <1>2, <1>3, <3>1
    <3> QED
      BY <1>1, <1>2, <3>2 DEF Range, IsInjective
  <2>2. ASSUME NEW x \in Range(q) \ {e} PROVE x \in Range(r)
    <3>1. PICK k \in 1..Len(q) : x = q[k]
      BY <1>1 DEF Range
    <3>2. k # i
      BY <1>2, <3>1
    <3>3. CASE k < i
      BY <1>1, <1>2, <1>3, <1>4, <3>1, <3>3, SMTT(30) DEF Range
    <3>4. CASE k > i
      <4>1. k - 1 \in 1..(Len(q) - 1) /\ ~(k - 1 < i) /\ (k - 1) + 1 = k
        BY <1>1, <1>2, <3>4
      <4>2. r[k - 1] = q[k]
        BY <1>3, <4>1
      <4> QED
        BY <1>4, <3>1, <4>1, <4>2 DEF Range
    <3> QED
      BY <1>1, <1>2, <3>2, <3>3, <3>4
  <2> QED
    BY <2>1, <2>2
<1>7. IsInjective(r)
  <2> SUFFICES ASSUME NEW a \in 1..(Len(q) - 1), NEW b \in 1..(Len(q) - 1), r[a] = r[b]
               PROVE  a = b
    BY <1>4 DEF IsInjective
  <2> DEFINE Pos(j) == IF j < i THEN j ELSE j + 1
  <2>1. \A j \in 1..(Len(q) - 1) : Pos(j) \in 1..Len(q) /\ r[j] = q[Pos(j)]
    BY <1>1, <1>2, <1>3
  <2>2. Pos(a) = Pos(b)
    BY <1>1, <2>1 DEF IsInjective
  <2> QED
    BY <1>1, <1>2, <2>2
<1> QED
  BY <1>3, <1>5, <1>6, <1>7
=============================================================================
