---------------------------- MODULE DatabaseProofs ----------------------------
(***************************************************************************)
(* Proofs about Database: for any fragments of any contents, loaded in any *)
(* order, again and again and with a death at any step.                    *)
(***************************************************************************)
EXTENDS Database, SequenceProofs, FiniteSetTheorems

-----------------------------------------------------------------------------
\* The inductive invariant.

\* What the fields hold; the fragments' sizes add up to what a file may hold.
Typed ==
  /\ store \in [Files -> Seq(Blocks)]
  /\ out \in [Handles -> Device!Copies \cup {Free}]
  /\ insert \in {Done} \cup [at : {"last", "fresh", "unpin", "extend"}, file : {Temp}, record : Records]
  /\ load \in [at : {"closed", "merging", "open"}, parts : Seq(Parts), left : Seq(Parts),
                block : Nat, record : Nat]
  /\ \A f \in Parts : Len(store[f]) <= MaxBase
  /\ Len(store[Temp]) <= MaxBlocks

\* A block of a fragment is in use.
Reading == out["reader"] # Free
\* How many fragments are in the copy.
Taken == Len(load.parts) - Len(load.left)

\* The merge is at the next block of the fragment after those, and reads it
\* as it is on disk.
LoadInPlace ==
  /\ load.at = "closed" => load = ClosedDb
  /\ load.at # "closed" =>
       /\ Taken \in 1..Len(load.parts) /\ Len(load.parts) <= Cardinality(Parts)
       /\ \A i \in 1..Len(load.left) : load.left[i] = load.parts[Taken + i]
  /\ load.at = "open" => load.left = <<>>
  /\ Merging => load.block <= Len(store[Part])
  /\ Reading =>
       /\ Merging /\ load.block < Len(store[Part])
       /\ out["reader"] = [file |-> Part, number |-> load.block,
                           contents |-> store[Part][load.block + 1]]
       /\ load.record <= Len(store[Part][load.block + 1])

\* heap_file_insert holds the last block of the copy, or is between two.
End == Last(store[Temp])
Inserted == IF insert.at = "unpin" THEN Append(End, insert.record) ELSE End
InsertInPlace ==
  /\ insert # Done =>
       /\ Reading /\ load.record > 0
       /\ Len(store[Temp]) > 0
  /\ insert.at \in {"last", "fresh", "unpin"} =>
       out["writer"] = [file |-> Temp, number |-> Len(store[Temp]) - 1, contents |-> Inserted]
  /\ insert.at \in {"done", "extend"} => out["writer"] = Free
  /\ insert.at = "fresh" => End = <<>>
  /\ insert.at = "extend" => Len(End) = Capacity

\* Only full blocks are added to: those beyond the first fragment's, full but
\* for the last, hold no more than the blocks that were read.
Pending == IF insert = Done THEN 0 ELSE 1
RecordsRead == IF Reading THEN load.record ELSE 0
BlocksRead == (Taken - 1) * MaxBase + load.block
RoomLeft ==
  Merging /\ Len(store[Temp]) > MaxBase =>
    (Len(store[Temp]) - MaxBase - 1) * Capacity + Len(End) + Pending
      <= BlocksRead * Capacity + RecordsRead

Struct == Typed /\ LoadInPlace /\ InsertInPlace /\ RoomLeft

\* The copy, with the record being inserted, is what has been read.
First(f, n) == FlattenSeq(SubSeq(store[f], 1, n))
Whole(k) == FlattenSeq([i \in 1..k |-> Scan(load.parts[i])])
Expected ==
  Whole(Taken) \o (IF Merging THEN First(Part, load.block) ELSE <<>>)
  \o (IF Reading THEN SubSeq(Contents("reader"), 1, load.record) ELSE <<>>)
Kept == IF insert = Done THEN Scan(Temp) ELSE Append(Scan(Temp), insert.record)
ContentRight == load.at # "closed" => Kept = Expected

IInv == Struct /\ ContentRight

-----------------------------------------------------------------------------
(* The sequences of blocks.                                                *)

\* The first k + 1 of the sequences, for k < Len(s).
LEMMA FirstExtended ==
  ASSUME NEW Q, NEW s \in Seq(Q), NEW k \in 0..(Len(s) - 1)
  PROVE  /\ SubSeq(s, 1, k) \in Seq(Q) /\ s[k + 1] \in Q
         /\ SubSeq(s, 1, k + 1) = Append(SubSeq(s, 1, k), s[k + 1])
<1>1. Len(s) \in Nat /\ k \in Nat /\ k + 1 <= Len(s)
  BY LenProperties
<1>2. ASSUME NEW m \in 0..Len(s)
      PROVE  /\ SubSeq(s, 1, m) \in Seq(Q) /\ Len(SubSeq(s, 1, m)) = m
             /\ \A i \in 1..m : SubSeq(s, 1, m)[i] = s[i]
  <2>1. m \in Int /\ m <= Len(s) /\ \A i \in 1..m : s[i] \in Q
    BY <1>1, ElementOfSeq
  <2>2. /\ SubSeq(s, 1, m) \in Seq(Q)
        /\ Len(SubSeq(s, 1, m)) = IF 1 <= m THEN m - 1 + 1 ELSE 0
        /\ \A i \in 1..(m - 1 + 1) : SubSeq(s, 1, m)[i] = s[1 + i - 1]
    BY <2>1, SubSeqProperties
  <2>3. \A n \in 0..Len(s) : n = (IF 1 <= n THEN n - 1 + 1 ELSE 0) /\ n - 1 + 1 = n
    OBVIOUS
  <2>4. \A i \in 1..m : 1 + i - 1 = i
    OBVIOUS
  <2> QED
    BY <2>2, <2>3, <2>4
<1>3. k \in 0..Len(s) /\ k + 1 \in 0..Len(s) /\ s[k + 1] \in Q
  BY <1>1, ElementOfSeq
<1> DEFINE a == SubSeq(s, 1, k)
           b == SubSeq(s, 1, k + 1)
<1>4. /\ a \in Seq(Q) /\ Len(a) = k /\ b \in Seq(Q) /\ Len(b) = k + 1
      /\ \A i \in 1..k : a[i] = s[i]
      /\ \A i \in 1..(k + 1) : b[i] = s[i]
  BY <1>2, <1>3
<1> HIDE DEF a, b
<1>5. /\ Append(a, s[k + 1]) \in Seq(Q) /\ Len(Append(a, s[k + 1])) = k + 1
      /\ \A i \in 1..k : Append(a, s[k + 1])[i] = a[i]
      /\ Append(a, s[k + 1])[k + 1] = s[k + 1]
  BY <1>3, <1>4, AppendProperties
<1>6. \A i \in 1..(k + 1) : b[i] = Append(a, s[k + 1])[i]
  BY <1>1, <1>4, <1>5
<1>7. b = Append(a, s[k + 1])
  BY <1>4, <1>5, <1>6, SeqEqual
<1> QED
  BY <1>3, <1>4, <1>7 DEF a, b

LEMMA FirstAll ==
  ASSUME NEW Q, NEW s \in Seq(Q)
  PROVE  SubSeq(s, 1, Len(s)) = s /\ SubSeq(s, 1, 0) = <<>>
BY SubSeqEmpty, LenProperties

LEMMA FlattenFirst ==
  ASSUME NEW S, NEW s \in Seq(Seq(S)), NEW k \in 0..(Len(s) - 1)
  PROVE  /\ FlattenSeq(SubSeq(s, 1, k + 1)) = FlattenSeq(SubSeq(s, 1, k)) \o s[k + 1]
         /\ FlattenSeq(SubSeq(s, 1, k)) \in Seq(S)
<1>1. PICK Q : Q = Seq(S)
  OBVIOUS
<1>2. /\ SubSeq(s, 1, k) \in Seq(Q) /\ s[k + 1] \in Q
      /\ SubSeq(s, 1, k + 1) = Append(SubSeq(s, 1, k), s[k + 1])
  BY <1>1, FirstExtended
<1> QED
  BY <1>1, <1>2, FlattenOneMore

\* Concatenation of records is associative.
LEMMA RecordsAssociate ==
  ASSUME NEW u \in Seq(Records), NEW v \in Seq(Records), NEW w \in Seq(Records)
  PROVE (u \o v) \o w = u \o (v \o w)
<1>1. /\ u \o v \in Seq(Records) /\ v \o w \in Seq(Records)
      /\ (u \o v) \o w \in Seq(Records) /\ u \o (v \o w) \in Seq(Records)
  BY ConcatProperties
<1>2. PICK s \in Seq(Records) : s = (u \o v) \o w
  BY <1>1
<1>3. PICK t \in Seq(Records) : t = u \o (v \o w)
  BY <1>1
<1>4. PICK x \in Nat, y \in Nat, z \in Nat : x = Len(u) /\ y = Len(v) /\ z = Len(w)
  BY LenProperties
<1>5. /\ Len(u \o v) = x + y /\ Len(v \o w) = y + z
  BY <1>4, ConcatProperties
<1>6. Len(s) = x + y + z /\ Len(t) = x + y + z
  BY <1>1, <1>2, <1>3, <1>4, <1>5, ConcatProperties
<1>7. ASSUME NEW i \in 1..(x + y + z) PROVE s[i] = t[i]
  <2>1. s[i] = IF i <= x + y THEN (u \o v)[i] ELSE w[i - (x + y)]
    BY <1>1, <1>2, <1>4, <1>5, ConcatProperties
  <2>2. t[i] = IF i <= x THEN u[i] ELSE (v \o w)[i - x]
    BY <1>1, <1>3, <1>4, <1>5, ConcatProperties
  <2>3. i <= x + y => (u \o v)[i] = IF i <= x THEN u[i] ELSE v[i - x]
    BY <1>4, ConcatProperties
  <2>4. ~(i <= x) => (v \o w)[i - x] = IF i - x <= y THEN v[i - x] ELSE w[i - x - y]
    BY <1>4, ConcatProperties
  <2>5. i - x - y = i - (x + y) /\ (i - x <= y <=> i <= x + y) /\ (i <= x => i <= x + y)
    OBVIOUS
  <2> QED
    BY ONLY <2>1, <2>2, <2>3, <2>4, <2>5
<1>8. s = t
  BY <1>6, <1>7, SeqEqual
<1> QED
  BY ONLY <1>2, <1>3, <1>8

LEMMA ConcatAppend ==
  ASSUME NEW S, NEW s \in Seq(S), NEW t \in Seq(S), NEW e \in S
  PROVE  s \o Append(t, e) = Append(s \o t, e)
<1>1. <<e>> \in Seq(S) /\ s \o t \in Seq(S)
  BY ConcatProperties
<1>2. Append(t, e) = t \o <<e>>
  BY AppendIsConcat
<1>3. Append(s \o t, e) = (s \o t) \o <<e>>
  BY <1>1, AppendIsConcat
<1>4. (s \o t) \o <<e>> = s \o (t \o <<e>>)
  BY ONLY s \in Seq(S), t \in Seq(S), <1>1, ConcatAssociative
<1> QED
  BY ONLY <1>2, <1>3, <1>4

\* The last block is another.
LEMMA FlattenLast ==
  ASSUME NEW S, NEW s \in Seq(Seq(S)), s # <<>>, NEW b \in Seq(S)
  PROVE  LET t == [s EXCEPT ![Len(s)] = b] IN
         /\ FlattenSeq(s) = FlattenSeq(Front(s)) \o Last(s)
         /\ FlattenSeq(t) = FlattenSeq(Front(s)) \o b
         /\ FlattenSeq(Front(s)) \in Seq(S) /\ Last(s) \in Seq(S)
<1> DEFINE t == [s EXCEPT ![Len(s)] = b]
<1>1. PICK Q : Q = Seq(S)
  OBVIOUS
<1>2. s \in Seq(Q) /\ b \in Q
  BY <1>1
<1>3. /\ Front(s) \in Seq(Q) /\ Len(Front(s)) = Len(s) - 1
      /\ s = Append(Front(s), Last(s)) /\ Last(s) \in Q
  BY <1>2, FrontAppended
<1>4. Len(s) \in Nat /\ Len(s) # 0
  BY LenProperties, EmptySeq
<1>5. /\ t \in Seq(Q) /\ Len(t) = Len(s)
      /\ \A i \in 1..Len(s) : t[i] = IF i = Len(s) THEN b ELSE s[i]
  BY <1>2, <1>4, ExceptSeq
<1> HIDE DEF t
<1>6. /\ Append(Front(s), b) \in Seq(Q) /\ Len(Append(Front(s), b)) = Len(s)
      /\ \A i \in 1..(Len(s) - 1) : Append(Front(s), b)[i] = Front(s)[i]
      /\ Append(Front(s), b)[Len(s)] = b
      /\ \A i \in 1..(Len(s) - 1) : Append(Front(s), Last(s))[i] = Front(s)[i]
  BY <1>2, <1>3, <1>4, AppendProperties
<1>7. \A i \in 1..Len(s) : t[i] = Append(Front(s), b)[i]
  <2> SUFFICES ASSUME NEW i \in 1..Len(s) PROVE t[i] = Append(Front(s), b)[i]
    OBVIOUS
  <2>1. CASE i = Len(s)
    BY <1>5, <1>6, <2>1
  <2>2. CASE i # Len(s)
    <3>1. i \in 1..(Len(s) - 1)
      BY <1>4, <2>2
    <3>2. s[i] = Front(s)[i]
      BY <1>3, <1>6, <3>1
    <3> QED
      BY <1>5, <1>6, <2>2, <3>1, <3>2
  <2> QED
    BY <2>1, <2>2
<1>8. t = Append(Front(s), b)
  BY <1>5, <1>6, <1>7, SeqEqual
<1>9. FlattenSeq(Front(s)) \in Seq(S) /\ FlattenSeq(t) = FlattenSeq(Front(s)) \o b
  BY <1>1, <1>2, <1>3, <1>8, FlattenOneMore
<1>10. FlattenSeq(s) = FlattenSeq(Front(s)) \o Last(s)
  BY <1>1, <1>3, FlattenOneMore
<1> QED
  BY <1>1, <1>3, <1>9, <1>10 DEF t

-----------------------------------------------------------------------------
\* Blocks, copies and fragments.

LEMMA BlocksAre ==
  /\ \A b : b \in Blocks <=> b \in Seq(Records) /\ Len(b) <= Capacity
  /\ <<>> \in Blocks /\ Capacity \in Nat \ {0} /\ Seq(Blocks) \subseteq Seq(Seq(Records))
<1>1. Capacity \in Nat \ {0}
  BY RecordAssumption
<1>2. Blocks = UNION {[1..m -> Records] : m \in 0..Capacity}
  BY DEF Blocks, BoundedSeq, SeqOf
<1>3. ASSUME NEW b, b \in Seq(Records), Len(b) <= Capacity
      PROVE  b \in Blocks
  <2>1. Len(b) \in 0..Capacity /\ b \in [1..Len(b) -> Records]
    BY <1>1, <1>3, LenProperties
  <2> QED
    BY <1>2, <2>1
<1>4. ASSUME NEW b \in Blocks
      PROVE  b \in Seq(Records) /\ Len(b) <= Capacity
  <2>1. PICK m \in 0..Capacity : b \in [1..m -> Records]
    BY <1>2
  <2> QED
    BY <1>1, <2>1
<1>5. <<>> \in Blocks
  <2>1. <<>> \in Seq(Records) /\ Len(<<>>) = 0
    OBVIOUS
  <2>2. 0 <= Capacity
    BY <1>1
  <2>3. Len(<<>>) <= Capacity
    BY <2>1, <2>2
  <2> QED
    BY <1>3, <2>1, <2>3
<1>6. Seq(Blocks) \subseteq Seq(Seq(Records))
  <2>1. Blocks \subseteq Seq(Records)
    BY <1>4
  <2> QED
    BY <2>1, SeqMonotonic
<1> QED
  BY <1>1, <1>3, <1>4, <1>5, <1>6

LEMMA CopyNotFree ==
  ASSUME NEW f \in Files, NEW n \in Nat, NEW b \in Blocks
  PROVE  [file |-> f, number |-> n, contents |-> b] # Free
<1>1. b \in Seq(Records)
  BY BlocksAre
<1> QED
  BY <1>1, RecordAssumption

LEMMA PartsFacts ==
  /\ \A f \in Parts : f \in Files /\ f # Temp
  /\ IsFiniteSet(Parts) /\ Cardinality(Parts) \in Nat /\ Temp \in Files
  /\ MaxBase \in Nat /\ MaxBlocks \in Nat
  /\ \A k \in Nat : k <= Cardinality(Parts) => k * MaxBase <= MaxBlocks
<1>1. IsFiniteSet(Parts)
  BY DatabaseAssumption, FS_Subset DEF Parts
<1>2. Cardinality(Parts) \in Nat
  BY <1>1, FS_CardinalityType
<1>3. \A a, b, c \in Nat : a <= b => a * c <= b * c
  OBVIOUS
<1>4. ASSUME NEW k \in Nat, k <= Cardinality(Parts)
      PROVE  k * MaxBase <= MaxBlocks
  <2>1. /\ k * MaxBase <= Cardinality(Parts) * MaxBase /\ k * MaxBase \in Nat
        /\ Cardinality(Parts) * MaxBase \in Nat
    BY <1>2, <1>3, <1>4, DatabaseAssumption
  <2> QED
    BY <2>1, DatabaseAssumption, RecordAssumption
<1> QED
  BY <1>1, <1>2, <1>4, DatabaseAssumption, RecordAssumption DEF Parts

\* The fragment being read, and the fragments before it.
LEMMA MergingFacts ==
  ASSUME Typed, LoadInPlace
  PROVE  /\ Taken \in Int /\ Len(load.parts) \in Nat /\ Len(load.left) \in Nat
         /\ Merging => /\ Part \in Parts /\ Taken \in 1..(Len(load.parts) - 1)
                       /\ Part = load.parts[Taken + 1] /\ load.left # <<>>
                       /\ Len(load.parts) <= Cardinality(Parts)
         /\ \A i \in 1..Len(load.parts) : load.parts[i] \in Parts
<1>1. load.parts \in Seq(Parts) /\ load.left \in Seq(Parts)
  BY DEF Typed
<1>2. Len(load.parts) \in Nat /\ Len(load.left) \in Nat
  BY <1>1, LenProperties
<1>3. ASSUME Merging
      PROVE  /\ Part \in Parts /\ Taken \in 1..(Len(load.parts) - 1)
             /\ Part = load.parts[Taken + 1] /\ load.left # <<>>
             /\ Len(load.parts) <= Cardinality(Parts)
  <2>1. load.at # "closed" /\ load.left # <<>>
    BY <1>3 DEF Merging
  <2>2. Len(load.left) # 0
    BY <1>1, <2>1, EmptySeq
  <2>3. Part = load.left[1] /\ 1 \in 1..Len(load.left)
    BY <1>1, <1>2, <2>1, <2>2 DEF Part
  <2>4. /\ Taken \in 1..Len(load.parts) /\ Len(load.parts) <= Cardinality(Parts)
        /\ \A i \in 1..Len(load.left) : load.left[i] = load.parts[Taken + i]
    BY <2>1 DEF LoadInPlace
  <2>5. Taken = Len(load.parts) - Len(load.left)
    BY DEF Taken
  <2>6. Part \in Parts
    BY <1>1, <2>3, ElementOfSeq
  <2>7. \A a, b \in Nat : b # 0 /\ a - b \in 1..a => a - b \in 1..(a - 1)
    OBVIOUS
  <2>8. Taken \in 1..(Len(load.parts) - 1)
    BY ONLY <1>2, <2>2, <2>4, <2>5, <2>7
  <2>9. Part = load.parts[Taken + 1]
    BY ONLY <2>3, <2>4
  <2> QED
    BY <2>1, <2>4, <2>6, <2>8, <2>9
<1>4. ASSUME NEW i \in 1..Len(load.parts) PROVE load.parts[i] \in Parts
  BY <1>1, ElementOfSeq
<1>5. Taken \in Int
  BY <1>2 DEF Taken
<1> QED
  BY <1>2, <1>3, <1>4, <1>5

\* Giving a block back as it was read changes nothing.
LEMMA UnpinSame ==
  ASSUME NEW h \in Handles, NEW f \in Files, NEW n \in Nat, store \in [Files -> Seq(Blocks)],
         n < Len(store[f]), out[h] = [file |-> f, number |-> n, contents |-> store[f][n + 1]],
         Unpin(h)
  PROVE  store' = store /\ out' = [out EXCEPT ![h] = Free]
<1>1. store' = [store EXCEPT ![f][n + 1] = store[f][n + 1]]
  BY DEF Unpin, Contents
<1>2. store[f] \in Seq(Blocks)
  OBVIOUS
<1>3. [store[f] EXCEPT ![n + 1] = store[f][n + 1]] = store[f]
  BY <1>2
<1>4. store' = [store EXCEPT ![f] = store[f]]
  BY <1>1, <1>3
<1> QED
  BY <1>4 DEF Unpin

-----------------------------------------------------------------------------
\* What is in the files, and what of it was read.

LEMMA FilesTyped ==
  ASSUME Typed, NEW f \in Files
  PROVE  /\ store[f] \in Seq(Blocks) /\ store[f] \in Seq(Seq(Records)) /\ Len(store[f]) \in Nat
         /\ Scan(f) \in Seq(Records) /\ First(f, 0) = <<>> /\ First(f, Len(store[f])) = Scan(f)
<1>1. store[f] \in Seq(Blocks)
  BY DEF Typed
<1>2. store[f] \in Seq(Seq(Records))
  BY <1>1, BlocksAre
<1>3. SubSeq(store[f], 1, Len(store[f])) = store[f] /\ SubSeq(store[f], 1, 0) = <<>>
  BY <1>1, FirstAll
<1>4. FlattenSeq(store[f]) \in Seq(Records)
  BY <1>2, FlattenTyped
<1> QED
  BY <1>1, <1>2, <1>3, <1>4, FlattenEmpty, LenProperties DEF Scan, First

LEMMA FirstMore ==
  ASSUME Typed, NEW f \in Files, NEW n \in Nat, n < Len(store[f])
  PROVE  /\ First(f, n + 1) = First(f, n) \o store[f][n + 1]
         /\ First(f, n) \in Seq(Records)
         /\ store[f][n + 1] \in Blocks /\ store[f][n + 1] \in Seq(Records)
<1>1. store[f] \in Seq(Blocks) /\ store[f] \in Seq(Seq(Records)) /\ Len(store[f]) \in Nat
  BY FilesTyped
<1>2. n \in 0..(Len(store[f]) - 1) /\ n + 1 \in 1..Len(store[f])
  BY <1>1
<1>3. store[f][n + 1] \in Blocks
  BY <1>1, <1>2, ElementOfSeq
<1>4. /\ FlattenSeq(SubSeq(store[f], 1, n + 1)) = FlattenSeq(SubSeq(store[f], 1, n)) \o store[f][n + 1]
      /\ FlattenSeq(SubSeq(store[f], 1, n)) \in Seq(Records)
  BY <1>1, <1>2, FlattenFirst
<1> QED
  BY <1>3, <1>4, BlocksAre DEF First

LEMMA FirstTyped ==
  ASSUME Typed, NEW f \in Files, NEW n \in Nat, n <= Len(store[f])
  PROVE  First(f, n) \in Seq(Records)
<1>1. CASE n = Len(store[f])
  BY <1>1, FilesTyped
<1>2. CASE n # Len(store[f])
  <2>1. n < Len(store[f])
    BY <1>2, FilesTyped
  <2> QED
    BY <2>1, FirstMore
<1> QED
  BY <1>1, <1>2

LEMMA WholeMore ==
  ASSUME Typed, NEW k \in Nat, k < Len(load.parts)
  PROVE  /\ Whole(k + 1) = Whole(k) \o Scan(load.parts[k + 1])
         /\ Whole(k) \in Seq(Records) /\ Whole(k + 1) \in Seq(Records)
<1>1. load.parts \in Seq(Parts) /\ Len(load.parts) \in Nat
  BY LenProperties DEF Typed
<1>2. ASSUME NEW i \in 1..Len(load.parts)
      PROVE  Scan(load.parts[i]) \in Seq(Records)
  <2>1. load.parts[i] \in Files
    BY <1>1, ElementOfSeq, PartsFacts
  <2> QED
    BY <2>1, FilesTyped
<1> SUFFICES ASSUME NEW s, s = [i \in 1..k |-> Scan(load.parts[i])],
                    NEW b, b = Scan(load.parts[k + 1]),
                    NEW t, t = [i \in 1..(k + 1) |-> Scan(load.parts[i])]
             PROVE  /\ FlattenSeq(t) = FlattenSeq(s) \o b
                    /\ FlattenSeq(s) \in Seq(Records) /\ FlattenSeq(t) \in Seq(Records)
  BY DEF Whole
<1>3. k + 1 \in 1..Len(load.parts) /\ \A i \in 1..k : i \in 1..Len(load.parts)
  BY <1>1
<1>4. b \in Seq(Records)
  BY <1>2, <1>3
<1>5. s \in Seq(Seq(Records)) /\ Len(s) = k
  <2>1. s \in [1..k -> Seq(Records)]
    BY <1>2, <1>3
  <2> QED
    BY <2>1, LenProperties
<1>6. t \in Seq(Seq(Records)) /\ Len(t) = k + 1
  <2>1. \A i \in 1..(k + 1) : i \in 1..Len(load.parts)
    BY <1>1
  <2>2. t \in [1..(k + 1) -> Seq(Records)] /\ k + 1 \in Nat
    BY <1>2, <2>1
  <2>3. PICK n \in Nat : n = k + 1
    BY <2>2
  <2> QED
    BY <2>2, <2>3, LenProperties
<1>7. t = Append(s, b)
  <2>1. /\ Append(s, b) \in Seq(Seq(Records)) /\ Len(Append(s, b)) = k + 1
        /\ \A i \in 1..k : Append(s, b)[i] = s[i]
        /\ Append(s, b)[k + 1] = b
    BY <1>4, <1>5, AppendProperties
  <2>2. \A i \in 1..(k + 1) : t[i] = Append(s, b)[i]
    <3> SUFFICES ASSUME NEW i \in 1..(k + 1) PROVE t[i] = Append(s, b)[i]
      OBVIOUS
    <3>1. CASE i = k + 1
      BY <2>1, <3>1
    <3>2. CASE i # k + 1
      <4>1. i \in 1..k
        BY <3>2
      <4> QED
        BY <2>1, <4>1
    <3> QED
      BY <3>1, <3>2
  <2> QED
    BY <1>6, <2>1, <2>2, SeqEqual
<1>8. FlattenSeq(t) = FlattenSeq(s) \o b /\ FlattenSeq(s) \in Seq(Records)
  BY <1>4, <1>5, <1>7, FlattenOneMore
<1> QED
  BY <1>6, <1>8, FlattenTyped

LEMMA WholeTyped ==
  ASSUME Typed, NEW k \in 0..Len(load.parts)
  PROVE  Whole(k) \in Seq(Records) /\ Whole(0) = <<>>
<1>1. Whole(0) = <<>>
  <2>1. [i \in 1..0 |-> Scan(load.parts[i])] = <<>>
    OBVIOUS
  <2> QED
    BY <2>1, FlattenEmpty DEF Whole
<1>2. CASE k = 0
  BY <1>1, <1>2, EmptySeq
<1>3. CASE k # 0
  <2>1. Len(load.parts) \in Nat
    BY LenProperties DEF Typed
  <2>2. k - 1 \in Nat /\ k - 1 < Len(load.parts) /\ (k - 1) + 1 = k
    BY <1>3, <2>1
  <2>3. PICK j \in Nat : j = k - 1
    BY <2>2
  <2> QED
    BY <1>1, <2>2, <2>3, WholeMore
<1> QED
  BY <1>1, <1>2, <1>3

\* The fragments keep what they hold.
FragmentsSame == \A f \in Parts : store'[f] = store[f]

LEMMA WholeKept ==
  ASSUME Typed, FragmentsSame, load'.parts = load.parts, NEW k \in 0..Len(load.parts)
  PROVE  Whole(k)' = Whole(k)
<1>1. load.parts \in Seq(Parts) /\ Len(load.parts) \in Nat
  BY LenProperties DEF Typed
<1>2. \A i \in 1..k : load.parts[i] \in Parts
  BY <1>1, ElementOfSeq
<1>3. \A i \in 1..k : Scan(load.parts[i])' = Scan(load.parts[i])
  BY <1>2 DEF FragmentsSame, Scan
<1>4. [i \in 1..k |-> Scan(load.parts[i])]' = [i \in 1..k |-> Scan(load.parts[i])]
  BY <1>3
<1> QED
  BY <1>4 DEF Whole

-----------------------------------------------------------------------------
\* What a step of heap_file_insert leaves alone.

LEMMA InsertTyped ==
  ASSUME Typed
  PROVE  /\ insert.at \in {"done", "last", "fresh", "unpin", "extend"}
         /\ insert = Done <=> insert.at = "done"
         /\ insert # Done => insert.file = Temp /\ insert.record \in Records
         /\ \A r \in Records :
              insert # Done => insert = [at |-> insert.at, file |-> Temp, record |-> insert.record]
<1>1. insert \in {Done} \cup [at : {"last", "fresh", "unpin", "extend"}, file : {Temp}, record : Records]
  BY DEF Typed
<1>2. CASE insert = Done
  BY <1>2 DEF Done
<1>3. CASE insert \in [at : {"last", "fresh", "unpin", "extend"}, file : {Temp}, record : Records]
  BY <1>3 DEF Done
<1> QED
  BY <1>1, <1>2, <1>3

\* The block the merge reads.
LEMMA ReadingFacts ==
  ASSUME Typed, LoadInPlace, Reading
  PROVE  /\ Merging /\ Part \in Parts /\ Part \in Files /\ Part # Temp
         /\ load.block \in Nat /\ load.block < Len(store[Part])
         /\ Contents("reader") = store[Part][load.block + 1]
         /\ Contents("reader") \in Blocks /\ Contents("reader") \in Seq(Records)
         /\ Len(Contents("reader")) \in Nat /\ Len(Contents("reader")) <= Capacity
         /\ load.record \in Nat /\ load.record <= Len(Contents("reader"))
         /\ load.block < MaxBase
<1>1. /\ Merging /\ load.block < Len(store[Part])
      /\ out["reader"] = [file |-> Part, number |-> load.block,
                          contents |-> store[Part][load.block + 1]]
      /\ load.record <= Len(store[Part][load.block + 1])
  BY DEF LoadInPlace
<1>2. Contents("reader") = store[Part][load.block + 1]
  BY <1>1 DEF Contents
<1>3. Part \in Parts /\ Part \in Files /\ Part # Temp
  BY <1>1, MergingFacts, PartsFacts
<1>4. load.block \in Nat /\ load.record \in Nat
  BY DEF Typed
<1>5. store[Part][load.block + 1] \in Blocks /\ store[Part][load.block + 1] \in Seq(Records)
  BY <1>1, <1>3, <1>4, FirstMore
<1>6. Len(store[Part][load.block + 1]) <= Capacity /\ Len(store[Part][load.block + 1]) \in Nat
  BY <1>5, BlocksAre, LenProperties
<1>7. Len(store[Part]) <= MaxBase /\ Len(store[Part]) \in Nat
  <2>1. Len(store[Part]) <= MaxBase
    BY <1>3 DEF Typed
  <2> QED
    BY <1>3, <2>1, FilesTyped
<1>8. load.block < MaxBase
  BY <1>1, <1>4, <1>7, PartsFacts
<1> QED
  BY <1>1, <1>2, <1>3, <1>4, <1>5, <1>6, <1>8

\* The last block of the copy.
LEMMA EndFacts ==
  ASSUME Typed, Len(store[Temp]) > 0
  PROVE  /\ End = store[Temp][Len(store[Temp])] /\ End \in Blocks /\ End \in Seq(Records)
         /\ Len(End) \in Nat /\ Len(End) <= Capacity
         /\ Len(store[Temp]) \in Nat /\ store[Temp] # <<>> /\ store[Temp] \in Seq(Blocks)
         /\ store[Temp] \in Seq(Seq(Records))
         /\ Len(store[Temp]) - 1 \in Nat /\ (Len(store[Temp]) - 1) + 1 = Len(store[Temp])
         /\ Len(store[Temp]) - 1 < Len(store[Temp])
         /\ Len(store[Temp]) <= MaxBlocks /\ Len(store[Temp]) - 1 < MaxBlocks
<1>1. Temp \in Files
  BY PartsFacts
<1>2. store[Temp] \in Seq(Blocks) /\ store[Temp] \in Seq(Seq(Records)) /\ Len(store[Temp]) \in Nat
  BY <1>1, FilesTyped
<1>3. Len(store[Temp]) \in 1..Len(store[Temp])
  BY <1>2
<1>4. End = store[Temp][Len(store[Temp])]
  BY DEF End, Last
<1>5. End \in Blocks
  BY <1>2, <1>3, <1>4, ElementOfSeq
<1>6. End \in Seq(Records) /\ Len(End) <= Capacity /\ Len(End) \in Nat
  BY <1>5, BlocksAre, LenProperties
<1>7. store[Temp] # <<>>
  BY <1>2, EmptySeq
<1>8. /\ \A n \in Nat : n > 0 => n - 1 \in Nat /\ (n - 1) + 1 = n /\ n - 1 < n
      /\ \A n, m \in Nat : n <= m => n - 1 < m
  OBVIOUS
<1>9. Len(store[Temp]) <= MaxBlocks /\ Len(store[Temp]) - 1 < MaxBlocks
  <2>1. Len(store[Temp]) <= MaxBlocks
    BY DEF Typed
  <2> QED
    BY <1>2, <1>8, <2>1, PartsFacts
<1> QED
  BY <1>2, <1>4, <1>5, <1>6, <1>7, <1>8, <1>9

LEMMA InsertStepRest ==
  ASSUME IInv, insert # Done, load' = load, out'["reader"] = out["reader"], FragmentsSame
  PROVE  /\ Reading /\ Reading' /\ Merging /\ Merging' /\ LoadInPlace' /\ Expected' = Expected
         /\ BlocksRead' = BlocksRead /\ RecordsRead' = RecordsRead
         /\ load.record > 0 /\ load'.record > 0 /\ Len(store[Temp]) > 0
         /\ \A f \in Parts : Len(store'[f]) <= MaxBase
<1>1. Typed /\ LoadInPlace /\ InsertInPlace
  BY DEF IInv, Struct
<1>2. Reading /\ load.record > 0 /\ Len(store[Temp]) > 0
  BY <1>1 DEF InsertInPlace
<1>3. Merging /\ Part \in Parts
  BY <1>1, <1>2, ReadingFacts
<1>4. Part' = Part /\ Taken' = Taken /\ Merging' /\ Reading' /\ store'[Part] = store[Part]
  BY <1>2, <1>3 DEF Part, Taken, Merging, Reading, FragmentsSame
<1>5. LoadInPlace'
  <2>1. load.at # "closed"
    BY <1>3 DEF Merging
  <2> QED
    BY <1>1, <1>2, <1>3, <1>4, <2>1 DEF LoadInPlace
<1>6. Expected' = Expected
  <2>1. Taken \in 0..Len(load.parts)
    <3>1. Taken \in 1..(Len(load.parts) - 1) /\ Len(load.parts) \in Nat
      BY <1>1, <1>3, MergingFacts
    <3> QED
      BY <3>1
  <2>2. PICK k \in 0..Len(load.parts) : k = Taken
    BY <2>1
  <2>3. Whole(k)' = Whole(k)
    BY <1>1, WholeKept
  <2>4. First(Part, load.block)' = First(Part, load.block)
    BY <1>4 DEF First
  <2>5. Contents("reader")' = Contents("reader")
    BY DEF Contents
  <2> QED
    BY <1>2, <1>3, <1>4, <2>2, <2>3, <2>4, <2>5 DEF Expected
<1>7. BlocksRead' = BlocksRead /\ RecordsRead' = RecordsRead
  BY <1>4, <1>2 DEF BlocksRead, RecordsRead
<1>8. \A f \in Parts : Len(store'[f]) <= MaxBase
  BY <1>1 DEF FragmentsSame, Typed
<1> QED
  BY <1>2, <1>3, <1>4, <1>5, <1>6, <1>7, <1>8

-----------------------------------------------------------------------------
\* heap_file_insert.

LEMMA TempChanged ==
  ASSUME Typed, NEW s \in Seq(Blocks), store' = [store EXCEPT ![Temp] = s]
  PROVE  store' \in [Files -> Seq(Blocks)] /\ FragmentsSame /\ store'[Temp] = s
<1>1. store \in [Files -> Seq(Blocks)] /\ Temp \in Files /\ \A f \in Parts : f \in Files /\ f # Temp
  BY PartsFacts DEF Typed
<1> QED
  BY <1>1 DEF FragmentsSame

LEMMA HandleChanged ==
  ASSUME Typed, NEW h \in Handles, NEW c \in Device!Copies \cup {Free}, out' = [out EXCEPT ![h] = c]
  PROVE  /\ out' \in [Handles -> Device!Copies \cup {Free}] /\ out'[h] = c
         /\ \A o \in Handles : o # h => out'[o] = out[o]
BY DEF Typed

LEMMA CopyTyped ==
  ASSUME NEW f \in Files, NEW n \in Nat, n < MaxBlocks, NEW b \in Blocks
  PROVE  [file |-> f, number |-> n, contents |-> b] \in Device!Copies
<1>1. n \in 0..(MaxBlocks - 1)
  BY PartsFacts
<1> QED
  BY <1>1 DEF Device!Copies

LEMMA IntoLastKeeps ==
  ASSUME IInv, InsertIntoLast, UNCHANGED <<load, loads>>
  PROVE  IInv' /\ store' = store
<1>1. Typed /\ LoadInPlace /\ InsertInPlace /\ RoomLeft /\ ContentRight
  BY DEF IInv, Struct
<1>2. insert.at = "last" /\ insert # Done /\ insert.file = Temp /\ insert.record \in Records
  BY <1>1, InsertTyped DEF InsertIntoLast
<1>3. out["writer"] = [file |-> Temp, number |-> Len(store[Temp]) - 1, contents |-> End]
  BY <1>1, <1>2 DEF InsertInPlace, Inserted
<1>4. Len(store[Temp]) > 0
  BY <1>1, <1>2 DEF InsertInPlace
<1>5. End \in Blocks /\ End \in Seq(Records) /\ Len(End) \in Nat /\ Len(store[Temp]) - 1 \in Nat
      /\ Len(store[Temp]) - 1 < MaxBlocks
  BY <1>1, <1>4, EndFacts
<1>6. PICK b : b = Append(End, insert.record)
  OBVIOUS
<1>7. b \in Blocks
  <2>1. b \in Seq(Records) /\ Len(b) = Len(End) + 1
    BY <1>2, <1>5, <1>6, AppendProperties
  <2>2. Len(End) < Capacity
    BY <1>3 DEF InsertIntoLast, HasRoom, Contents
  <2>3. Len(b) <= Capacity
    BY <1>5, <2>1, <2>2, BlocksAre
  <2> QED
    BY <2>1, <2>3, BlocksAre
<1>8. PICK c : c = [file |-> Temp, number |-> Len(store[Temp]) - 1, contents |-> b]
  OBVIOUS
<1>9. c \in Device!Copies
  BY <1>5, <1>7, <1>8, CopyTyped, PartsFacts
<1>10. store' = store /\ out' = [out EXCEPT !["writer"] = c]
  <2>1. Placed(Contents("writer"), insert.record) = b
    BY <1>3, <1>6 DEF Placed, Contents
  <2>2. store' = store /\ out' = [out EXCEPT !["writer"].contents = b]
    BY <2>1 DEF InsertIntoLast, SetDirty
  <2>3. [out["writer"] EXCEPT !.contents = b] = c
    BY <1>3, <1>8
  <2>4. out' = [out EXCEPT !["writer"] = [out["writer"] EXCEPT !.contents = b]]
    BY <2>2
  <2> QED
    BY <2>2, <2>3, <2>4
<1>11. /\ out' \in [Handles -> Device!Copies \cup {Free}] /\ out'["writer"] = c
       /\ out'["reader"] = out["reader"]
  <2>1. "writer" \in Handles /\ "reader" \in Handles /\ "reader" # "writer"
    BY DEF Handles
  <2> QED
    BY <1>1, <1>9, <1>10, <2>1, HandleChanged
<1>12. /\ insert' = [at |-> "unpin", file |-> Temp, record |-> insert.record]
       /\ insert' # Done /\ insert'.at = "unpin" /\ insert'.record = insert.record
  <2>1. insert = [at |-> "last", file |-> Temp, record |-> insert.record]
    BY <1>1, <1>2, InsertTyped
  <2>2. insert' = [at |-> "unpin", file |-> Temp, record |-> insert.record]
    BY <2>1 DEF InsertIntoLast
  <2> QED
    BY <2>2 DEF Done
<1>13. /\ Reading /\ Reading' /\ Merging /\ Merging' /\ LoadInPlace' /\ Expected' = Expected
       /\ BlocksRead' = BlocksRead /\ RecordsRead' = RecordsRead /\ load'.record > 0
  BY <1>2, <1>10, <1>11, InsertStepRest DEF FragmentsSame
<1>14. Typed'
  BY <1>1, <1>2, <1>10, <1>11, <1>12 DEF Typed
<1>15. End' = End /\ Inserted' = b
  BY <1>6, <1>10, <1>12 DEF End, Inserted
<1>16. InsertInPlace'
  BY <1>4, <1>8, <1>10, <1>11, <1>12, <1>13, <1>15 DEF InsertInPlace
<1>17. RoomLeft'
  <2>1. Pending' = Pending
    BY <1>2, <1>12 DEF Pending
  <2> QED
    BY <1>1, <1>10, <1>13, <1>15, <2>1 DEF RoomLeft
<1>18. ContentRight'
  <2>1. Kept' = Kept
    BY <1>2, <1>10, <1>12 DEF Kept, Scan
  <2> QED
    BY <1>1, <1>13, <2>1 DEF ContentRight
<1> QED
  BY <1>10, <1>13, <1>14, <1>16, <1>17, <1>18 DEF IInv, Struct

LEMMA LeaveLastKeeps ==
  ASSUME IInv, LeaveLast, UNCHANGED <<load, loads>>
  PROVE  IInv' /\ store' = store
<1>1. Typed /\ LoadInPlace /\ InsertInPlace /\ RoomLeft /\ ContentRight
  BY DEF IInv, Struct
<1>2. insert.at = "last" /\ insert # Done /\ insert.file = Temp /\ insert.record \in Records
  BY <1>1, InsertTyped DEF LeaveLast
<1>3. out["writer"] = [file |-> Temp, number |-> Len(store[Temp]) - 1, contents |-> End]
  BY <1>1, <1>2 DEF InsertInPlace, Inserted
<1>4. Len(store[Temp]) > 0
  BY <1>1, <1>2 DEF InsertInPlace
<1>5. /\ End \in Blocks /\ Len(End) \in Nat /\ Len(End) <= Capacity /\ Len(store[Temp]) - 1 \in Nat
      /\ End = store[Temp][Len(store[Temp])] /\ (Len(store[Temp]) - 1) + 1 = Len(store[Temp])
      /\ Len(store[Temp]) - 1 < Len(store[Temp])
  BY <1>1, <1>4, EndFacts
<1>6. Len(End) = Capacity
  <2>1. ~(Len(End) < Capacity)
    BY <1>3 DEF LeaveLast, HasRoom, Contents
  <2> QED
    BY <1>5, <2>1, BlocksAre
<1>7. "writer" \in Handles /\ "reader" \in Handles /\ "reader" # "writer"
  BY DEF Handles
<1>8. store' = store /\ out' = [out EXCEPT !["writer"] = Free]
  <2>1. PICK n \in Nat : n = Len(store[Temp]) - 1
    BY <1>5
  <2>2. n < Len(store[Temp]) /\ out["writer"] = [file |-> Temp, number |-> n, contents |-> store[Temp][n + 1]]
    BY <1>3, <1>5, <2>1
  <2>3. Unpin("writer") /\ Temp \in Files /\ store \in [Files -> Seq(Blocks)]
    BY <1>1, PartsFacts DEF LeaveLast, Typed
  <2> QED
    BY <1>7, <2>2, <2>3, UnpinSame
<1>9. /\ out' \in [Handles -> Device!Copies \cup {Free}] /\ out'["writer"] = Free
      /\ out'["reader"] = out["reader"]
  BY <1>1, <1>7, <1>8, HandleChanged
<1>10. /\ insert' = [at |-> "extend", file |-> Temp, record |-> insert.record]
       /\ insert' # Done /\ insert'.at = "extend" /\ insert'.record = insert.record
  <2>1. insert = [at |-> "last", file |-> Temp, record |-> insert.record]
    BY <1>1, <1>2, InsertTyped
  <2>2. insert' = [at |-> "extend", file |-> Temp, record |-> insert.record]
    BY <2>1 DEF LeaveLast
  <2> QED
    BY <2>2 DEF Done
<1>11. /\ Reading /\ Reading' /\ Merging /\ Merging' /\ LoadInPlace' /\ Expected' = Expected
       /\ BlocksRead' = BlocksRead /\ RecordsRead' = RecordsRead /\ load'.record > 0
  BY <1>2, <1>8, <1>9, InsertStepRest DEF FragmentsSame
<1>12. Typed'
  BY <1>1, <1>2, <1>8, <1>9, <1>10 DEF Typed
<1>13. End' = End
  BY <1>8 DEF End
<1>14. InsertInPlace'
  BY <1>4, <1>6, <1>8, <1>9, <1>10, <1>11, <1>13 DEF InsertInPlace
<1>15. RoomLeft'
  <2>1. Pending' = Pending
    BY <1>2, <1>10 DEF Pending
  <2> QED
    BY <1>1, <1>8, <1>11, <1>13, <2>1 DEF RoomLeft
<1>16. ContentRight'
  <2>1. Kept' = Kept
    BY <1>2, <1>8, <1>10 DEF Kept, Scan
  <2> QED
    BY <1>1, <1>11, <2>1 DEF ContentRight
<1> QED
  BY <1>8, <1>11, <1>12, <1>14, <1>15, <1>16 DEF IInv, Struct

LEMMA RoomArithmetic ==
  ASSUME NEW L \in Nat, NEW M \in Nat, NEW C \in Nat \ {0}, NEW T \in Nat \ {0},
         NEW b \in Nat, NEW r \in Nat, b < M, r <= C,
         L > M => (L - M - 1) * C + C + 1 <= ((T - 1) * M + b) * C + r
  PROVE  L < (T + 1) * M
<1>1. PICK p \in Nat : p = T - 1
  OBVIOUS
<1>2. (T + 1) * M = p * M + 2 * M /\ p * M \in Nat
  BY <1>1
<1>3. CASE L <= M
  BY <1>2, <1>3
<1>4. CASE L > M
  <2>1. PICK d \in Nat : d = L - M - 1
    BY <1>4
  <2>2. PICK B \in Nat : B = p * M + b
    BY <1>2
  <2>3. d * C + C + 1 <= B * C + r
    BY <1>1, <1>4, <2>1, <2>2
  <2>4. d < B
    <3>1. \A x, y, z \in Nat : x <= y => x * z <= y * z
      OBVIOUS
    <3>2. d * C \in Nat /\ B * C \in Nat /\ (B <= d => B * C <= d * C)
      BY <3>1
    <3> QED
      BY <2>3, <3>2
  <2>5. PICK q \in Nat : q = p * M
    BY <1>2
  <2>6. L = d + M + 1 /\ B = q + b /\ (T + 1) * M = q + 2 * M
    BY <1>2, <2>1, <2>2, <2>5
  <2> QED
    BY <2>4, <2>6
<1> QED
  BY <1>3, <1>4

\* A block may be added to the copy when there is none or the last is full.
LEMMA RoomForBlock ==
  ASSUME IInv, Reading
  PROVE  /\ load.block < MaxBlocks
         /\ Len(store[Temp]) = 0 \/ insert.at = "extend" => Len(store[Temp]) < MaxBlocks
<1>1. Typed /\ LoadInPlace /\ InsertInPlace /\ RoomLeft
  BY DEF IInv, Struct
<1>2. /\ Merging /\ load.block \in Nat /\ load.block < MaxBase /\ load.record \in Nat
      /\ load.record <= Capacity
  <2>1. /\ Merging /\ load.block \in Nat /\ load.block < MaxBase /\ load.record \in Nat
        /\ load.record <= Len(Contents("reader")) /\ Len(Contents("reader")) \in Nat
        /\ Len(Contents("reader")) <= Capacity
    BY <1>1, ReadingFacts
  <2> QED
    BY <2>1, BlocksAre
<1>3. /\ Taken \in 1..(Len(load.parts) - 1) /\ Len(load.parts) \in Nat
      /\ Len(load.parts) <= Cardinality(Parts)
  BY <1>1, <1>2, MergingFacts
<1>4. PICK t \in Nat \ {0} : t = Taken /\ t + 1 \in Nat /\ t + 1 <= Cardinality(Parts)
  BY <1>3, PartsFacts
<1>5. (t + 1) * MaxBase <= MaxBlocks
  BY <1>4, PartsFacts
<1>6. MaxBase \in Nat /\ MaxBlocks \in Nat
  BY PartsFacts
<1>7. MaxBase <= (t + 1) * MaxBase /\ (t + 1) * MaxBase \in Nat
  <2>1. (t + 1) * MaxBase = t * MaxBase + MaxBase /\ t * MaxBase \in Nat
    BY <1>6
  <2> QED
    BY <1>6, <2>1
<1>8. 0 < MaxBlocks /\ load.block < MaxBlocks
  BY <1>2, <1>5, <1>6, <1>7
<1>9. CASE insert.at = "extend"
  <2>1. insert # Done /\ Len(End) = Capacity
    BY <1>1, <1>9, InsertTyped DEF InsertInPlace
  <2>2. Len(store[Temp]) \in Nat
    BY <1>1, FilesTyped, PartsFacts
  <2>3. Len(store[Temp]) > MaxBase =>
          (Len(store[Temp]) - MaxBase - 1) * Capacity + Capacity + 1
            <= ((t - 1) * MaxBase + load.block) * Capacity + load.record
    BY <1>1, <1>2, <1>4, <2>1 DEF RoomLeft, BlocksRead, RecordsRead, Pending
  <2>4. Capacity \in Nat \ {0}
    BY BlocksAre
  <2>5. PICK L \in Nat, M \in Nat, C \in Nat \ {0}, b \in Nat, r \in Nat :
          /\ L = Len(store[Temp]) /\ M = MaxBase /\ C = Capacity /\ b = load.block
          /\ r = load.record
    BY <1>2, <1>6, <2>2, <2>4
  <2>6. L < (t + 1) * M
    <3>1. /\ b < M /\ r <= C
          /\ L > M => (L - M - 1) * C + C + 1 <= ((t - 1) * M + b) * C + r
      BY <1>2, <2>3, <2>5
    <3> QED
      BY <3>1, RoomArithmetic
  <2>7. Len(store[Temp]) < (t + 1) * MaxBase
    BY <2>5, <2>6
  <2> QED
    BY <1>5, <1>6, <1>7, <1>8, <2>2, <2>7
<1> QED
  BY <1>8, <1>9

\* A new block at the end of the copy.
LEMMA TempExtended ==
  ASSUME Typed, store' = [store EXCEPT ![Temp] = Append(@, <<>>)]
  PROVE  /\ store' \in [Files -> Seq(Blocks)] /\ FragmentsSame
         /\ store'[Temp] = Append(store[Temp], <<>>)
         /\ Len(store'[Temp]) = Len(store[Temp]) + 1
         /\ End' = <<>> /\ Scan(Temp)' = Scan(Temp)
<1>1. Temp \in Files
  BY PartsFacts
<1>2. /\ store[Temp] \in Seq(Blocks) /\ store[Temp] \in Seq(Seq(Records))
      /\ Len(store[Temp]) \in Nat /\ Scan(Temp) \in Seq(Records)
  BY <1>1, FilesTyped
<1>3. PICK s : s = Append(store[Temp], <<>>)
  OBVIOUS
<1>4. /\ s \in Seq(Blocks) /\ Len(s) = Len(store[Temp]) + 1 /\ s[Len(store[Temp]) + 1] = <<>>
  BY <1>2, <1>3, AppendProperties, BlocksAre
<1>5. store' \in [Files -> Seq(Blocks)] /\ FragmentsSame /\ store'[Temp] = s
  BY <1>3, <1>4, TempChanged
<1>6. End' = <<>>
  BY <1>4, <1>5 DEF End, Last
<1>7. FlattenSeq(s) = FlattenSeq(store[Temp]) \o <<>>
  <2>1. <<>> \in Seq(Records)
    BY BlocksAre
  <2> QED
    BY <1>2, <1>3, <2>1, FlattenOneMore
<1>8. Scan(Temp)' = Scan(Temp)
  BY <1>2, <1>5, <1>7, ConcatEmptySeq DEF Scan
<1> QED
  BY <1>3, <1>4, <1>5, <1>6, <1>8

LEMMA ExtendKeeps ==
  ASSUME IInv, InsertExtend, UNCHANGED <<load, loads>>
  PROVE  IInv' /\ FragmentsSame /\ Scan(Temp)' = Scan(Temp)
<1>1. Typed /\ LoadInPlace /\ InsertInPlace /\ RoomLeft /\ ContentRight
  BY DEF IInv, Struct
<1>2. insert.at = "extend" /\ insert # Done /\ insert.file = Temp /\ insert.record \in Records
  BY <1>1, InsertTyped DEF InsertExtend
<1>3. Reading /\ Len(End) = Capacity
  BY <1>1, <1>2 DEF InsertInPlace
<1>4. Len(store[Temp]) \in Nat /\ Len(store[Temp]) < MaxBlocks
  BY <1>1, <1>2, <1>3, RoomForBlock, FilesTyped, PartsFacts
<1>5. /\ store' = [store EXCEPT ![Temp] = Append(@, <<>>)]
      /\ out' = [out EXCEPT !["writer"] = [file |-> Temp, number |-> Len(store[Temp]), contents |-> <<>>]]
  BY <1>2 DEF InsertExtend, Allocate
<1>6. /\ store' \in [Files -> Seq(Blocks)] /\ FragmentsSame
      /\ Len(store'[Temp]) = Len(store[Temp]) + 1 /\ End' = <<>> /\ Scan(Temp)' = Scan(Temp)
  BY <1>1, <1>5, TempExtended
<1>7. PICK c : c = [file |-> Temp, number |-> Len(store[Temp]), contents |-> <<>>]
  OBVIOUS
<1>8. c \in Device!Copies
  BY <1>4, <1>7, CopyTyped, PartsFacts, BlocksAre
<1>9. /\ out' \in [Handles -> Device!Copies \cup {Free}] /\ out'["writer"] = c
      /\ out'["reader"] = out["reader"]
  <2>1. "writer" \in Handles /\ "reader" \in Handles /\ "reader" # "writer"
    BY DEF Handles
  <2>2. out' = [out EXCEPT !["writer"] = c]
    BY <1>5, <1>7
  <2> QED
    BY <1>1, <1>8, <2>1, <2>2, HandleChanged
<1>10. /\ insert' = [at |-> "fresh", file |-> Temp, record |-> insert.record]
       /\ insert' # Done /\ insert'.at = "fresh" /\ insert'.record = insert.record
  <2>1. insert = [at |-> "extend", file |-> Temp, record |-> insert.record]
    BY <1>1, <1>2, InsertTyped
  <2>2. insert' = [at |-> "fresh", file |-> Temp, record |-> insert.record]
    BY <2>1 DEF InsertExtend
  <2> QED
    BY <2>2 DEF Done
<1>11. /\ Reading /\ Reading' /\ Merging /\ Merging' /\ LoadInPlace' /\ Expected' = Expected
       /\ BlocksRead' = BlocksRead /\ RecordsRead' = RecordsRead
       /\ load.record > 0 /\ load'.record > 0 /\ Len(store[Temp]) > 0
       /\ \A f \in Parts : Len(store'[f]) <= MaxBase
  BY <1>2, <1>6, <1>9, InsertStepRest DEF InsertExtend
<1>12. Typed'
  <2>1. Len(store'[Temp]) <= MaxBlocks
    BY <1>4, <1>6, PartsFacts
  <2>2. load' = load
    OBVIOUS
  <2> QED
    BY <1>1, <1>2, <1>6, <1>9, <1>10, <1>11, <2>1, <2>2 DEF Typed
<1>13. InsertInPlace'
  <2>1. Inserted' = <<>>
    BY <1>6, <1>10 DEF Inserted
  <2>2. Len(store'[Temp]) - 1 = Len(store[Temp]) /\ Len(store'[Temp]) > 0
    BY <1>4, <1>6
  <2> QED
    BY <1>6, <1>7, <1>9, <1>10, <1>11, <2>1, <2>2 DEF InsertInPlace
<1>14. RoomLeft'
  <2>1. PICK L \in Nat, M \in Nat, C \in Nat \ {0} :
          L = Len(store[Temp]) /\ M = MaxBase /\ C = Capacity
    BY <1>4, PartsFacts, BlocksAre
  <2>2. Pending' = 1 /\ Pending = 1 /\ Len(End') = 0
    BY <1>2, <1>6, <1>10 DEF Pending
  <2>3. RecordsRead = load.record /\ load.record \in Nat \ {0} /\ BlocksRead \in Nat
    <3>1. load.record \in Nat \ {0} /\ load.block \in Nat
      BY <1>1, <1>11 DEF Typed
    <3>2. Taken \in 1..(Len(load.parts) - 1) /\ Len(load.parts) \in Nat
      BY <1>1, <1>11, MergingFacts
    <3>3. PICK p \in Nat : p = Taken - 1
      BY <3>2
    <3>4. p * MaxBase \in Nat
      BY PartsFacts
    <3> QED
      BY <1>3, <3>1, <3>3, <3>4 DEF RecordsRead, BlocksRead
  <2>4. PICK r \in Nat \ {0}, B \in Nat : r = RecordsRead /\ B = BlocksRead /\ B * C \in Nat
    BY <2>3
  <2>5. L > M => (L - M - 1) * C + C + 1 <= B * C + r
    BY <1>1, <1>3, <1>11, <2>1, <2>2, <2>4 DEF RoomLeft
  <2>6. L + 1 > M => ((L + 1) - M - 1) * C + 0 + 1 <= B * C + r
    <3>1. CASE L > M
      <4>1. PICK d \in Nat : d = L - M - 1
        BY <3>1
      <4>2. (L + 1) - M - 1 = d + 1 /\ (d + 1) * C = d * C + C
        BY <4>1
      <4>3. d * C + C + 1 <= B * C + r /\ d * C \in Nat
        BY <2>5, <3>1, <4>1
      <4> QED
        BY <4>2, <4>3
    <3>2. CASE L = M
      <4>1. (L + 1) - M - 1 = 0 /\ 0 * C = 0
        BY <3>2
      <4> QED
        BY <2>4, <4>1
    <3> QED
      BY <3>1, <3>2
  <2> QED
    BY <1>6, <1>11, <2>1, <2>2, <2>4, <2>6 DEF RoomLeft
<1>15. ContentRight'
  <2>1. Kept' = Kept
    BY <1>2, <1>6, <1>10 DEF Kept
  <2> QED
    BY <1>1, <1>11, <2>1 DEF ContentRight
<1> QED
  BY <1>6, <1>11, <1>12, <1>13, <1>14, <1>15 DEF IInv, Struct

LEMMA IntoFreshKeeps ==
  ASSUME IInv, InsertIntoFresh, UNCHANGED <<load, loads>>
  PROVE  IInv' /\ store' = store
<1>1. Typed /\ LoadInPlace /\ InsertInPlace /\ RoomLeft /\ ContentRight
  BY DEF IInv, Struct
<1>2. insert.at = "fresh" /\ insert # Done /\ insert.file = Temp /\ insert.record \in Records
  BY <1>1, InsertTyped DEF InsertIntoFresh
<1>3. /\ out["writer"] = [file |-> Temp, number |-> Len(store[Temp]) - 1, contents |-> End]
      /\ Len(store[Temp]) > 0 /\ End = <<>>
  BY <1>1, <1>2 DEF InsertInPlace, Inserted
<1>4. Len(store[Temp]) - 1 \in Nat /\ Len(store[Temp]) - 1 < MaxBlocks
  BY <1>1, <1>3, EndFacts
<1>5. PICK b : b = <<insert.record>>
  OBVIOUS
<1>6. b \in Blocks /\ b = Append(<<>>, insert.record)
  <2>1. b \in Seq(Records) /\ Len(b) = 1
    BY <1>2, <1>5
  <2>2. 1 <= Capacity
    BY BlocksAre
  <2>3. Len(b) <= Capacity
    BY <2>1, <2>2
  <2>4. Append(<<>>, insert.record) = <<insert.record>>
    OBVIOUS
  <2> QED
    BY <1>5, <2>1, <2>3, <2>4, BlocksAre
<1>7. PICK c : c = [file |-> Temp, number |-> Len(store[Temp]) - 1, contents |-> b]
  OBVIOUS
<1>8. c \in Device!Copies
  BY <1>4, <1>6, <1>7, CopyTyped, PartsFacts
<1>9. store' = store /\ out' = [out EXCEPT !["writer"] = c]
  <2>1. store' = store /\ out' = [out EXCEPT !["writer"].contents = b]
    BY <1>5 DEF InsertIntoFresh, SetDirty
  <2>2. [out["writer"] EXCEPT !.contents = b] = c
    BY <1>3, <1>7
  <2>3. out' = [out EXCEPT !["writer"] = [out["writer"] EXCEPT !.contents = b]]
    BY <2>1
  <2> QED
    BY <2>1, <2>2, <2>3
<1>10. /\ out' \in [Handles -> Device!Copies \cup {Free}] /\ out'["writer"] = c
       /\ out'["reader"] = out["reader"]
  <2>1. "writer" \in Handles /\ "reader" \in Handles /\ "reader" # "writer"
    BY DEF Handles
  <2> QED
    BY <1>1, <1>8, <1>9, <2>1, HandleChanged
<1>11. /\ insert' = [at |-> "unpin", file |-> Temp, record |-> insert.record]
       /\ insert' # Done /\ insert'.at = "unpin" /\ insert'.record = insert.record
  <2>1. insert = [at |-> "fresh", file |-> Temp, record |-> insert.record]
    BY <1>1, <1>2, InsertTyped
  <2>2. insert' = [at |-> "unpin", file |-> Temp, record |-> insert.record]
    BY <2>1 DEF InsertIntoFresh
  <2> QED
    BY <2>2 DEF Done
<1>12. /\ Reading /\ Reading' /\ Merging /\ Merging' /\ LoadInPlace' /\ Expected' = Expected
       /\ BlocksRead' = BlocksRead /\ RecordsRead' = RecordsRead /\ load'.record > 0
  BY <1>2, <1>9, <1>10, InsertStepRest DEF FragmentsSame
<1>13. Typed'
  BY <1>1, <1>2, <1>9, <1>10, <1>11 DEF Typed
<1>14. End' = End /\ Inserted' = b
  BY <1>3, <1>6, <1>9, <1>11 DEF End, Inserted
<1>15. InsertInPlace'
  BY <1>3, <1>7, <1>9, <1>10, <1>11, <1>12, <1>14 DEF InsertInPlace
<1>16. RoomLeft'
  <2>1. Pending' = Pending
    BY <1>2, <1>11 DEF Pending
  <2> QED
    BY <1>1, <1>9, <1>12, <1>14, <2>1 DEF RoomLeft
<1>17. ContentRight'
  <2>1. Kept' = Kept
    BY <1>2, <1>9, <1>11 DEF Kept, Scan
  <2> QED
    BY <1>1, <1>12, <2>1 DEF ContentRight
<1> QED
  BY <1>9, <1>12, <1>13, <1>15, <1>16, <1>17 DEF IInv, Struct

LEMMA InsertUnpinKeeps ==
  ASSUME IInv, InsertUnpin, UNCHANGED <<load, loads>>
  PROVE  IInv' /\ FragmentsSame /\ Scan(Temp)' = Append(Scan(Temp), insert.record)
<1>1. Typed /\ LoadInPlace /\ InsertInPlace /\ RoomLeft /\ ContentRight
  BY DEF IInv, Struct
<1>2. insert.at = "unpin" /\ insert # Done /\ insert.file = Temp /\ insert.record \in Records
  BY <1>1, InsertTyped DEF InsertUnpin
<1>3. PICK r \in Records : r = insert.record
  BY <1>2
<1>4. PICK b : b = Append(End, r)
  OBVIOUS
<1>5. /\ out["writer"] = [file |-> Temp, number |-> Len(store[Temp]) - 1, contents |-> b]
      /\ Len(store[Temp]) > 0
  BY <1>1, <1>2, <1>3, <1>4 DEF InsertInPlace, Inserted
<1>6. /\ End \in Blocks /\ End \in Seq(Records) /\ Len(End) \in Nat /\ End = Last(store[Temp])
      /\ (Len(store[Temp]) - 1) + 1 = Len(store[Temp]) /\ Len(store[Temp]) \in Nat
      /\ store[Temp] \in Seq(Blocks) /\ store[Temp] \in Seq(Seq(Records)) /\ store[Temp] # <<>>
      /\ Len(store[Temp]) <= MaxBlocks
  BY <1>1, <1>5, EndFacts DEF End
<1>7. b \in Blocks /\ b \in Seq(Records) /\ Len(b) = Len(End) + 1
  <2>1. "writer" \in Handles
    BY DEF Handles
  <2>2. out["writer"] \in Device!Copies
    <3>1. out["writer"] # Free
      <4>1. b \in Seq(Records) /\ Len(store[Temp]) - 1 \in Nat
        BY <1>4, <1>5, <1>6, AppendProperties
      <4> QED
        BY <1>5, <4>1, PartsFacts, RecordAssumption
    <3> QED
      BY <1>1, <2>1, <3>1 DEF Typed
  <2>3. b \in Blocks
    BY <1>5, <2>2 DEF Device!Copies
  <2> QED
    BY <1>4, <1>6, <2>3, AppendProperties, BlocksAre
<1>8. PICK s : s = [store[Temp] EXCEPT ![Len(store[Temp])] = b]
  OBVIOUS
<1>9. s \in Seq(Blocks) /\ Len(s) = Len(store[Temp]) /\ s[Len(store[Temp])] = b
  <2>1. Len(store[Temp]) \in 1..Len(store[Temp])
    BY <1>5, <1>6
  <2> QED
    BY <1>6, <1>7, <1>8, <2>1, ExceptSeq
<1>10. store' = [store EXCEPT ![Temp] = s] /\ out' = [out EXCEPT !["writer"] = Free]
  <2>1. /\ store' = [store EXCEPT ![Temp][Len(store[Temp])] = b]
        /\ out' = [out EXCEPT !["writer"] = Free]
    BY <1>5, <1>6 DEF InsertUnpin, Unpin, Contents
  <2> QED
    BY <1>8, <2>1
<1>11. store' \in [Files -> Seq(Blocks)] /\ FragmentsSame /\ store'[Temp] = s
  BY <1>1, <1>9, <1>10, TempChanged
<1>12. /\ out' \in [Handles -> Device!Copies \cup {Free}] /\ out'["writer"] = Free
       /\ out'["reader"] = out["reader"]
  <2>1. "writer" \in Handles /\ "reader" \in Handles /\ "reader" # "writer"
    BY DEF Handles
  <2> QED
    BY <1>1, <1>10, <2>1, HandleChanged
<1>13. insert' = Done /\ insert'.at = "done"
  BY DEF InsertUnpin, Done
<1>14. Scan(Temp)' = Append(Scan(Temp), r)
  <2>1. /\ FlattenSeq(store[Temp]) = FlattenSeq(Front(store[Temp])) \o End
        /\ FlattenSeq(s) = FlattenSeq(Front(store[Temp])) \o b
        /\ FlattenSeq(Front(store[Temp])) \in Seq(Records)
    BY <1>6, <1>7, <1>8, FlattenLast
  <2>2. PICK F \in Seq(Records), l \in Seq(Records) : F = FlattenSeq(Front(store[Temp])) /\ l = End
    BY <1>6, <2>1
  <2>3. F \o Append(l, r) = Append(F \o l, r)
    BY ConcatAppend
  <2>4. Scan(Temp)' = FlattenSeq(s) /\ Scan(Temp) = FlattenSeq(store[Temp])
    BY <1>11 DEF Scan
  <2> QED
    BY <1>4, <2>1, <2>2, <2>3, <2>4
<1>15. /\ Reading /\ Reading' /\ Merging /\ Merging' /\ LoadInPlace' /\ Expected' = Expected
       /\ BlocksRead' = BlocksRead /\ RecordsRead' = RecordsRead
       /\ \A f \in Parts : Len(store'[f]) <= MaxBase
  BY <1>2, <1>11, <1>12, InsertStepRest
<1>16. Typed'
  <2>1. load' = load
    OBVIOUS
  <2> QED
    BY <1>1, <1>6, <1>9, <1>11, <1>12, <1>13, <1>15, <2>1 DEF Typed
<1>17. InsertInPlace'
  BY <1>12, <1>13 DEF InsertInPlace
<1>18. RoomLeft'
  <2>1. Len(store'[Temp]) = Len(store[Temp]) /\ End' = b
    BY <1>9, <1>11 DEF End, Last
  <2>2. Pending = 1 /\ Pending' = 0
    BY <1>2, <1>13 DEF Pending
  <2>3. Len(End') + Pending' = Len(End) + Pending
    BY <1>6, <1>7, <2>1, <2>2
  <2>5. ASSUME Len(store[Temp]) > MaxBase
        PROVE  (Len(store[Temp]) - MaxBase - 1) * Capacity + Len(End') + Pending' =
                 (Len(store[Temp]) - MaxBase - 1) * Capacity + Len(End) + Pending
    <3>1. PICK d \in Nat : d = Len(store[Temp]) - MaxBase - 1
      <4>1. \A m, n \in Nat : m > n => m - n - 1 \in Nat
        OBVIOUS
      <4>2. Len(store[Temp]) \in Nat /\ MaxBase \in Nat
        BY <1>6, PartsFacts
      <4> QED
        BY ONLY <2>5, <4>1, <4>2
    <3>2. PICK e \in Nat : e = d * Capacity
      BY BlocksAre
    <3>3. PICK l \in Nat : l = Len(End) /\ Len(End') = l + 1
      BY <1>6, <1>7, <2>1
    <3>4. e + (l + 1) + 0 = e + l + 1
      OBVIOUS
    <3> QED
      BY <2>2, <3>1, <3>2, <3>3, <3>4
  <2> QED
    BY <1>1, <1>15, <2>1, <2>5 DEF RoomLeft
<1>19. ContentRight'
  <2>1. Kept' = Kept
    BY <1>2, <1>3, <1>13, <1>14 DEF Kept
  <2> QED
    BY <1>1, <1>15, <2>1 DEF ContentRight
<1> QED
  BY <1>3, <1>11, <1>14, <1>15, <1>16, <1>17, <1>18, <1>19 DEF IInv, Struct

LEMMA InsertKeeps ==
  ASSUME IInv, Insert
  PROVE  /\ IInv' /\ FragmentsSame
         /\ \/ Scan(Temp)' = Scan(Temp)
            \/ \E r \in Records : Scan(Temp)' = Append(Scan(Temp), r)
<1>1. InsertStep /\ UNCHANGED <<load, loads>>
  BY DEF Insert
<1>2. store' = store => FragmentsSame /\ Scan(Temp)' = Scan(Temp)
  BY DEF FragmentsSame, Scan
<1>3. CASE InsertUnpin
  <2>1. Typed /\ insert.at = "unpin"
    BY <1>3 DEF InsertUnpin, IInv, Struct
  <2>2. insert.record \in Records
    BY <2>1, InsertTyped
  <2> QED
    BY <1>1, <1>3, <2>2, InsertUnpinKeeps
<1> QED
  BY <1>1, <1>2, <1>3, IntoLastKeeps, LeaveLastKeeps, ExtendKeeps, IntoFreshKeeps DEF InsertStep

-----------------------------------------------------------------------------
\* heap_file_merge.

\* Nothing is being inserted.
LEMMA NotInserting ==
  ASSUME IInv, insert = Done
  PROVE  insert.at = "done" /\ out["writer"] = Free /\ Pending = 0 /\ Kept = Scan(Temp)
<1>1. Typed /\ InsertInPlace
  BY DEF IInv, Struct
<1>2. insert.at = "done"
  BY <1>1, InsertTyped
<1> QED
  BY <1>1, <1>2 DEF InsertInPlace, Pending, Kept

LEMMA ExpectedTyped ==
  ASSUME Typed, LoadInPlace, Reading
  PROVE  /\ Whole(Taken) \in Seq(Records) /\ First(Part, load.block) \in Seq(Records)
         /\ Whole(Taken) \o First(Part, load.block) \in Seq(Records)
         /\ SubSeq(Contents("reader"), 1, load.record) \in Seq(Records)
<1>1. /\ Merging /\ Part \in Files /\ load.block \in Nat /\ load.block < Len(store[Part])
      /\ Contents("reader") \in Seq(Records) /\ Len(Contents("reader")) \in Nat
      /\ load.record \in Nat /\ load.record <= Len(Contents("reader"))
  BY ReadingFacts
<1>2. First(Part, load.block) \in Seq(Records)
  BY <1>1, FirstMore
<1>3. Taken \in 0..Len(load.parts)
  <2>1. Taken \in 1..(Len(load.parts) - 1) /\ Len(load.parts) \in Nat
    BY <1>1, MergingFacts
  <2> QED
    BY <2>1
<1>4. PICK k \in 0..Len(load.parts) : k = Taken
  BY <1>3
<1>5. Whole(Taken) \in Seq(Records)
  BY <1>4, WholeTyped
<1>6. SubSeq(Contents("reader"), 1, load.record) \in Seq(Records)
  <2>1. \A i \in 1..load.record : Contents("reader")[i] \in Records
    BY <1>1, ElementOfSeq
  <2> QED
    BY <1>1, <2>1, SubSeqProperties
<1> QED
  BY <1>2, <1>5, <1>6, ConcatProperties

LEMMA MergeInsertKeeps ==
  ASSUME IInv, MergeInsert
  PROVE  IInv' /\ FragmentsSame /\ Scan(Temp)' = Scan(Temp)
<1>1. Typed /\ LoadInPlace /\ InsertInPlace /\ RoomLeft /\ ContentRight
  BY DEF IInv, Struct
<1>2. Reading /\ insert = Done /\ load.record < Len(Contents("reader"))
  BY DEF MergeInsert, Reading, InsertBegin
<1>3. /\ Merging /\ Part \in Parts /\ load.block \in Nat
      /\ Contents("reader") \in Seq(Records) /\ Len(Contents("reader")) \in Nat
      /\ load.record \in Nat /\ load.block < Len(store[Part])
      /\ Contents("reader") = store[Part][load.block + 1]
  BY <1>1, <1>2, ReadingFacts
<1>4. PICK r : r = Contents("reader")[load.record + 1]
  OBVIOUS
<1>5. r \in Records /\ load.record \in 0..(Len(Contents("reader")) - 1)
  <2>1. load.record + 1 \in 1..Len(Contents("reader"))
    BY <1>2, <1>3
  <2>2. load.record \in 0..(Len(Contents("reader")) - 1)
    BY <1>2, <1>3
  <2> QED
    BY <1>3, <1>4, <2>1, <2>2, ElementOfSeq
<1>6. InsertBegin(Temp, r) /\ load' = [load EXCEPT !.record = @ + 1] /\ loads' = loads
  BY <1>4 DEF MergeInsert, Target
<1>7. /\ load'.at = load.at /\ load'.parts = load.parts /\ load'.left = load.left
      /\ load'.block = load.block /\ load'.record = load.record + 1
      /\ load' \in [at : {"closed", "merging", "open"}, parts : Seq(Parts), left : Seq(Parts),
                    block : Nat, record : Nat]
  <2>1. load \in [at : {"closed", "merging", "open"}, parts : Seq(Parts), left : Seq(Parts),
                  block : Nat, record : Nat]
    BY <1>1 DEF Typed
  <2>2. PICK n \in Nat : n = load.record + 1
    BY <1>3
  <2>3. load' = [load EXCEPT !.record = n]
    BY <1>6, <2>2
  <2> QED
    BY ONLY <2>1, <2>2, <2>3
<1>8. Len(store[Temp]) \in Nat /\ Temp \in Files
  BY <1>1, FilesTyped, PartsFacts
<1>9. "writer" \in Handles /\ "reader" \in Handles /\ "reader" # "writer"
  BY DEF Handles
\* The store and the block in hand, with a last block and without.
<1>10. /\ store' \in [Files -> Seq(Blocks)] /\ FragmentsSame /\ Scan(Temp)' = Scan(Temp)
       /\ Len(store'[Temp]) > 0 /\ Len(store'[Temp]) <= MaxBlocks
       /\ out' \in [Handles -> Device!Copies \cup {Free}] /\ out'["reader"] = out["reader"]
       /\ out'["writer"] = [file |-> Temp, number |-> Len(store'[Temp]) - 1, contents |-> End']
       /\ insert' \in {Inserting("last", Temp, r), Inserting("fresh", Temp, r)}
       /\ insert'.at = "fresh" => End' = <<>>
       /\ \/ store' = store
          \/ Len(store'[Temp]) = 1 /\ End' = <<>>
  <2>1. CASE Len(store[Temp]) > 0
    <3>1. /\ store' = store /\ insert' = Inserting("last", Temp, r)
          /\ out' = [out EXCEPT !["writer"] =
               [file |-> Temp, number |-> Len(store[Temp]) - 1,
                contents |-> store[Temp][(Len(store[Temp]) - 1) + 1]]]
      BY <1>6, <2>1 DEF InsertBegin, Get
    <3>2. /\ End = store[Temp][Len(store[Temp])] /\ End \in Blocks
          /\ Len(store[Temp]) - 1 \in Nat /\ (Len(store[Temp]) - 1) + 1 = Len(store[Temp])
          /\ Len(store[Temp]) <= MaxBlocks /\ Len(store[Temp]) - 1 < MaxBlocks
      BY <1>1, <2>1, EndFacts
    <3>3. PICK c : c = [file |-> Temp, number |-> Len(store[Temp]) - 1, contents |-> End]
      OBVIOUS
    <3>4. c \in Device!Copies /\ out' = [out EXCEPT !["writer"] = c]
      BY <1>8, <3>1, <3>2, <3>3, CopyTyped
    <3>5. /\ out' \in [Handles -> Device!Copies \cup {Free}] /\ out'["writer"] = c
          /\ out'["reader"] = out["reader"]
      BY <1>1, <1>9, <3>4, HandleChanged
    <3>6. End' = End /\ FragmentsSame /\ Scan(Temp)' = Scan(Temp)
      BY <3>1 DEF End, FragmentsSame, Scan
    <3>7. insert'.at = "last"
      BY <3>1 DEF Inserting
    <3> QED
      BY <1>1, <2>1, <3>1, <3>2, <3>3, <3>5, <3>6, <3>7 DEF Typed
  <2>2. CASE ~(Len(store[Temp]) > 0)
    <3>1. Len(store[Temp]) = 0 /\ Len(store[Temp]) < MaxBlocks
      BY <1>2, <1>8, <2>2, RoomForBlock
    <3>2. /\ store' = [store EXCEPT ![Temp] = Append(@, <<>>)]
          /\ insert' = Inserting("fresh", Temp, r)
          /\ out' = [out EXCEPT !["writer"] = [file |-> Temp, number |-> Len(store[Temp]), contents |-> <<>>]]
      BY <1>6, <2>2 DEF InsertBegin, Allocate
    <3>3. /\ store' \in [Files -> Seq(Blocks)] /\ FragmentsSame
          /\ Len(store'[Temp]) = Len(store[Temp]) + 1 /\ End' = <<>> /\ Scan(Temp)' = Scan(Temp)
      BY <1>1, <3>2, TempExtended
    <3>4. PICK c : c = [file |-> Temp, number |-> Len(store[Temp]), contents |-> <<>>]
      OBVIOUS
    <3>5. c \in Device!Copies /\ out' = [out EXCEPT !["writer"] = c]
      BY <1>8, <3>1, <3>2, <3>4, CopyTyped, BlocksAre
    <3>6. /\ out' \in [Handles -> Device!Copies \cup {Free}] /\ out'["writer"] = c
          /\ out'["reader"] = out["reader"]
      BY <1>1, <1>9, <3>5, HandleChanged
    <3>7. /\ Len(store'[Temp]) = 1 /\ Len(store'[Temp]) > 0 /\ Len(store'[Temp]) <= MaxBlocks
          /\ Len(store'[Temp]) - 1 = Len(store[Temp])
      BY <3>1, <3>3, PartsFacts
    <3> QED
      BY <3>2, <3>3, <3>4, <3>6, <3>7
  <2> QED
    BY <2>1, <2>2
<1>11. /\ insert' # Done /\ insert'.record = r /\ insert'.at \in {"last", "fresh"}
       /\ insert' \in [at : {"last", "fresh", "unpin", "extend"}, file : {Temp}, record : Records]
  <2>1. \A w \in {"last", "fresh"} :
          /\ Inserting(w, Temp, r) # Done /\ Inserting(w, Temp, r).record = r
          /\ Inserting(w, Temp, r).at = w
          /\ Inserting(w, Temp, r) \in [at : {"last", "fresh", "unpin", "extend"}, file : {Temp}, record : Records]
    BY <1>5 DEF Inserting, Done
  <2> QED
    BY <1>10, <2>1
<1>12. Merging' /\ Part' = Part /\ Taken' = Taken /\ store'[Part] = store[Part] /\ Reading'
  BY <1>2, <1>3, <1>7, <1>10 DEF Merging, Part, Taken, FragmentsSame, Reading
<1>13. Typed'
  <2>1. \A f \in Parts : Len(store'[f]) <= MaxBase
    BY <1>1, <1>10 DEF FragmentsSame, Typed
  <2> QED
    BY <1>7, <1>10, <1>11, <2>1 DEF Typed
<1>14. LoadInPlace'
  <2>1. load.at # "closed"
    BY <1>3 DEF Merging
  <2>2. load.record + 1 <= Len(store[Part][load.block + 1])
    BY <1>2, <1>3
  <2> QED
    BY <1>1, <1>2, <1>3, <1>7, <1>10, <1>12, <2>1, <2>2 DEF LoadInPlace
<1>15. InsertInPlace'
  <2>1. load'.record > 0
    BY <1>3, <1>7
  <2>2. Inserted' = End'
    BY <1>11 DEF Inserted
  <2> QED
    BY <1>10, <1>11, <1>12, <2>1, <2>2 DEF InsertInPlace
<1>16. RoomLeft'
  <2>1. Pending = 0 /\ Pending' = 1
    BY <1>2, <1>11, NotInserting DEF Pending
  <2>2. BlocksRead' = BlocksRead /\ BlocksRead \in Nat
    <3>1. Taken \in 1..(Len(load.parts) - 1) /\ Len(load.parts) \in Nat
      BY <1>1, <1>3, MergingFacts
    <3>2. PICK p \in Nat : p = Taken - 1
      BY <3>1
    <3>3. p * MaxBase \in Nat
      BY PartsFacts
    <3> QED
      BY <1>3, <1>7, <1>12, <3>2, <3>3 DEF BlocksRead
  <2>3. RecordsRead = load.record /\ RecordsRead' = load.record + 1
    BY <1>2, <1>7, <1>12 DEF RecordsRead
  <2>4. PICK B \in Nat, C \in Nat, R \in Nat, M \in Nat :
          /\ B = BlocksRead /\ C = Capacity /\ R = load.record /\ M = MaxBase /\ B * C \in Nat
    <3>1. \A m, n \in Nat : m * n \in Nat
      OBVIOUS
    <3>2. Capacity \in Nat /\ MaxBase \in Nat /\ BlocksRead \in Nat /\ load.record \in Nat
      BY <1>3, <2>2, PartsFacts, BlocksAre
    <3> QED
      BY ONLY <3>1, <3>2
  <2>5. CASE store' = store
    <3>1. End' = End
      BY <2>5 DEF End
    <3> SUFFICES ASSUME Len(store[Temp]) > MaxBase
                 PROVE  (Len(store[Temp]) - MaxBase - 1) * Capacity + Len(End) + 1
                          <= BlocksRead * Capacity + (load.record + 1)
      BY <2>1, <2>2, <2>3, <2>5, <3>1 DEF RoomLeft
    <3>2. PICK d \in Nat : d = (Len(store[Temp]) - MaxBase - 1) * C
      <4>1. \A m, n \in Nat : m > n => m - n - 1 \in Nat
        OBVIOUS
      <4>2. MaxBase \in Nat
        BY PartsFacts
      <4>3. Len(store[Temp]) - MaxBase - 1 \in Nat
        BY ONLY <1>8, <4>1, <4>2, Len(store[Temp]) > MaxBase
      <4> QED
        BY <4>3
    <3>3. PICK e \in Nat : e = Len(End)
      <4>1. Len(store[Temp]) > 0
        BY <1>8, PartsFacts
      <4> QED
        BY <1>1, <4>1, EndFacts
    <3>4. d + e + 0 <= B * C + R
      BY <1>1, <1>3, <2>1, <2>3, <2>4, <3>2, <3>3 DEF RoomLeft
    <3>5. d + e + 1 <= B * C + (R + 1)
      BY <2>4, <3>4
    <3> QED
      BY <2>4, <3>2, <3>3, <3>5
  <2>6. CASE Len(store'[Temp]) = 1 /\ End' = <<>>
    <3> SUFFICES ASSUME 1 > M
                 PROVE  (1 - M - 1) * C + 0 + 1 <= B * C + (R + 1)
      BY <2>1, <2>2, <2>3, <2>4, <2>6 DEF RoomLeft
    <3>1. M = 0 /\ 1 - M - 1 = 0 /\ 0 * C = 0
      OBVIOUS
    <3> QED
      BY <2>4, <3>1
  <2> QED
    BY <1>10, <2>5, <2>6
<1>17. Kept' = Append(Kept, r)
  BY <1>2, <1>10, <1>11, NotInserting DEF Kept
<1>18. Expected' = Append(Expected, r)
  <2>1. Taken \in 0..Len(load.parts)
    <3>1. Taken \in 1..(Len(load.parts) - 1) /\ Len(load.parts) \in Nat
      BY <1>1, <1>3, MergingFacts
    <3> QED
      BY <3>1
  <2>2. PICK k \in 0..Len(load.parts) : k = Taken
    BY <2>1
  <2>3. Whole(k)' = Whole(k)
    BY <1>1, <1>7, <1>10, WholeKept
  <2>4. First(Part, load.block)' = First(Part, load.block) /\ Contents("reader")' = Contents("reader")
    BY <1>7, <1>10, <1>12 DEF First, Contents
  <2>5. PICK w : w = Whole(Taken) \o First(Part, load.block)
    OBVIOUS
  <2>6. PICK c : c = Contents("reader")
    OBVIOUS
  <2>7. Expected = w \o SubSeq(c, 1, load.record) /\ Expected' = w \o SubSeq(c, 1, load.record + 1)
    BY <1>2, <1>3, <1>7, <1>12, <2>2, <2>3, <2>4, <2>5, <2>6 DEF Expected
  <2>8. SubSeq(c, 1, load.record + 1) = Append(SubSeq(c, 1, load.record), r)
    BY <1>3, <1>4, <1>5, <2>6, FirstExtended
  <2>9. w \in Seq(Records) /\ SubSeq(c, 1, load.record) \in Seq(Records)
    BY <1>1, <1>2, <2>5, <2>6, ExpectedTyped
  <2>10. PICK x \in Seq(Records) : x = SubSeq(c, 1, load.record)
    BY <2>9
  <2>11. w \o Append(x, r) = Append(w \o x, r)
    BY <1>5, <2>9, ConcatAppend
  <2> QED
    BY <2>7, <2>8, <2>10, <2>11
<1>19. ContentRight'
  <2>1. load.at # "closed"
    BY <1>3 DEF Merging
  <2>2. Kept = Expected
    BY <1>1, <2>1 DEF ContentRight
  <2> QED
    BY <1>17, <1>18, <2>2 DEF ContentRight
<1> QED
  BY <1>10, <1>13, <1>14, <1>15, <1>16, <1>19 DEF IInv, Struct

\* Between two blocks nothing is being inserted.
LEMMA NotReading ==
  ASSUME IInv, ~Reading
  PROVE  insert = Done
BY InsertTyped DEF IInv, Struct, InsertInPlace

LEMMA TakenTyped ==
  ASSUME Typed, LoadInPlace, Merging
  PROVE  Taken \in 0..Len(load.parts) /\ BlocksRead \in Nat
<1>1. Taken \in 1..(Len(load.parts) - 1) /\ Len(load.parts) \in Nat
  BY MergingFacts
<1>2. PICK p \in Nat : p = Taken - 1
  BY <1>1
<1>3. p * MaxBase \in Nat /\ load.block \in Nat
  BY PartsFacts DEF Typed
<1> QED
  BY <1>1, <1>2, <1>3 DEF BlocksRead

LEMMA MergeGetKeeps ==
  ASSUME IInv, MergeGet
  PROVE  IInv' /\ store' = store
<1>1. Typed /\ LoadInPlace /\ InsertInPlace /\ RoomLeft /\ ContentRight
  BY DEF IInv, Struct
<1>2. /\ Merging /\ ~Reading /\ load.block < Len(store[Part]) /\ load.block \in Nat
      /\ store' = store /\ insert' = insert /\ loads' = loads /\ load' = [load EXCEPT !.record = 0]
      /\ out' = [out EXCEPT !["reader"] = [file |-> Part, number |-> load.block,
                                           contents |-> store[Part][load.block + 1]]]
  BY <1>1 DEF MergeGet, Reading, Get, Typed
<1>3. Part \in Parts /\ Part \in Files /\ insert = Done
  BY <1>1, <1>2, MergingFacts, PartsFacts, NotReading
<1>4. store[Part][load.block + 1] \in Blocks /\ store[Part][load.block + 1] \in Seq(Records)
  BY <1>1, <1>2, <1>3, FirstMore
<1>5. PICK c : c = [file |-> Part, number |-> load.block, contents |-> store[Part][load.block + 1]]
  OBVIOUS
<1>6. c \in Device!Copies /\ c # Free
  <2>1. load.block < MaxBlocks
    <3>1. Taken \in 1..(Len(load.parts) - 1) /\ Len(load.parts) \in Nat /\ Len(load.parts) <= Cardinality(Parts)
      BY <1>1, <1>2, MergingFacts
    <3>2. 1 <= Cardinality(Parts)
      BY <3>1, PartsFacts
    <3>3. 1 * MaxBase <= MaxBlocks
      BY <3>2, PartsFacts
    <3>4. Len(store[Part]) <= MaxBase /\ Len(store[Part]) \in Nat
      <4>1. Len(store[Part]) <= MaxBase
        BY <1>1, <1>3 DEF Typed
      <4> QED
        BY <1>1, <1>3, <4>1, FilesTyped
    <3> QED
      BY <1>2, <3>3, <3>4, PartsFacts
  <2> QED
    BY <1>2, <1>3, <1>4, <1>5, <2>1, CopyTyped, CopyNotFree
<1>7. /\ out' \in [Handles -> Device!Copies \cup {Free}] /\ out'["reader"] = c
      /\ out'["writer"] = out["writer"]
  <2>1. "writer" \in Handles /\ "reader" \in Handles /\ "reader" # "writer"
    BY DEF Handles
  <2> QED
    BY <1>1, <1>2, <1>5, <1>6, <2>1, HandleChanged
<1>8. /\ load'.at = load.at /\ load'.parts = load.parts /\ load'.left = load.left
      /\ load'.block = load.block /\ load'.record = 0
      /\ load' \in [at : {"closed", "merging", "open"}, parts : Seq(Parts), left : Seq(Parts),
                    block : Nat, record : Nat]
  <2>1. load \in [at : {"closed", "merging", "open"}, parts : Seq(Parts), left : Seq(Parts),
                  block : Nat, record : Nat]
    BY <1>1 DEF Typed
  <2>2. load' = [load EXCEPT !.record = 0]
    BY <1>2
  <2> QED
    BY ONLY <2>1, <2>2
<1>9. Merging' /\ Part' = Part /\ Taken' = Taken /\ Reading' /\ FragmentsSame
  BY <1>2, <1>6, <1>7, <1>8 DEF Merging, Part, Taken, Reading, FragmentsSame
<1>10. Typed'
  BY <1>1, <1>2, <1>7, <1>8 DEF Typed
<1>11. LoadInPlace'
  <2>1. load.at # "closed"
    BY <1>2 DEF Merging
  <2>2. 0 <= Len(store[Part][load.block + 1])
    BY <1>4, LenProperties
  <2> QED
    BY <1>1, <1>2, <1>5, <1>7, <1>8, <1>9, <2>1, <2>2 DEF LoadInPlace
<1>12. InsertInPlace'
  BY <1>1, <1>2, <1>3, <1>7, InsertTyped DEF InsertInPlace
<1>13. RoomLeft'
  <2>1. /\ BlocksRead' = BlocksRead /\ RecordsRead = 0 /\ RecordsRead' = 0 /\ Pending' = Pending
        /\ End' = End
    BY <1>2, <1>8, <1>9 DEF BlocksRead, RecordsRead, Pending, End
  <2> QED
    BY <1>1, <1>2, <2>1 DEF RoomLeft
<1>14. ContentRight'
  <2>1. PICK k \in 0..Len(load.parts) : k = Taken
    BY <1>1, <1>2, TakenTyped
  <2>2. Whole(k)' = Whole(k) /\ Whole(Taken) \in Seq(Records)
    BY <1>1, <1>8, <1>9, <2>1, WholeKept, WholeTyped
  <2>3. First(Part, load.block)' = First(Part, load.block) /\ First(Part, load.block) \in Seq(Records)
    BY <1>1, <1>2, <1>3, <1>8, <1>9, FirstMore DEF First
  <2>4. PICK w : w = Whole(Taken) \o First(Part, load.block)
    OBVIOUS
  <2>5. w \in Seq(Records)
    BY <2>2, <2>3, <2>4, ConcatProperties
  <2>6. Expected = w \o <<>>
    BY <1>2, <2>4 DEF Expected
  <2>7. SubSeq(Contents("reader")', 1, load'.record) = <<>>
    <3>1. Contents("reader")' = store[Part][load.block + 1]
      BY <1>5, <1>7 DEF Contents
    <3> QED
      BY <1>4, <1>8, <3>1, SubSeqEmpty, LenProperties
  <2>8. Expected' = w \o <<>>
    BY <1>8, <1>9, <2>1, <2>2, <2>3, <2>4, <2>7 DEF Expected
  <2>9. Kept' = Kept /\ load.at # "closed"
    BY <1>2 DEF Kept, Scan, Merging
  <2> QED
    BY <1>1, <2>6, <2>8, <2>9 DEF ContentRight
<1> QED
  BY <1>2, <1>10, <1>11, <1>12, <1>13, <1>14 DEF IInv, Struct

LEMMA MergeUnpinKeeps ==
  ASSUME IInv, MergeUnpin
  PROVE  IInv' /\ store' = store
<1>1. Typed /\ LoadInPlace /\ InsertInPlace /\ RoomLeft /\ ContentRight
  BY DEF IInv, Struct
<1>2. /\ Reading /\ load.record = Len(Contents("reader")) /\ insert = Done /\ Unpin("reader")
      /\ insert' = insert /\ loads' = loads /\ load' = [load EXCEPT !.block = @ + 1]
  BY DEF MergeUnpin, Reading, BlockDone
<1>3. /\ Merging /\ Part \in Parts /\ Part \in Files /\ load.block \in Nat
      /\ load.block < Len(store[Part])
      /\ Contents("reader") = store[Part][load.block + 1] /\ Contents("reader") \in Seq(Records)
      /\ Len(Contents("reader")) \in Nat /\ Len(Contents("reader")) <= Capacity
      /\ out["reader"] = [file |-> Part, number |-> load.block, contents |-> store[Part][load.block + 1]]
  <2>1. out["reader"] = [file |-> Part, number |-> load.block, contents |-> store[Part][load.block + 1]]
    BY <1>1, <1>2 DEF LoadInPlace
  <2> QED
    BY <1>1, <1>2, <2>1, ReadingFacts
<1>4. "writer" \in Handles /\ "reader" \in Handles /\ "reader" # "writer"
  BY DEF Handles
<1>5. store' = store /\ out' = [out EXCEPT !["reader"] = Free]
  <2>1. store \in [Files -> Seq(Blocks)]
    BY <1>1 DEF Typed
  <2> QED
    BY <1>2, <1>3, <1>4, <2>1, UnpinSame
<1>6. /\ out' \in [Handles -> Device!Copies \cup {Free}] /\ out'["reader"] = Free
      /\ out'["writer"] = out["writer"]
  BY <1>1, <1>4, <1>5, HandleChanged
<1>7. /\ load'.at = load.at /\ load'.parts = load.parts /\ load'.left = load.left
      /\ load'.block = load.block + 1 /\ load'.record = load.record
      /\ load' \in [at : {"closed", "merging", "open"}, parts : Seq(Parts), left : Seq(Parts),
                    block : Nat, record : Nat]
  <2>1. load \in [at : {"closed", "merging", "open"}, parts : Seq(Parts), left : Seq(Parts),
                  block : Nat, record : Nat]
    BY <1>1 DEF Typed
  <2>2. PICK n \in Nat : n = load.block + 1
    BY <1>3
  <2>3. load' = [load EXCEPT !.block = n]
    BY <1>2, <2>2
  <2> QED
    BY ONLY <2>1, <2>2, <2>3
<1>8. Merging' /\ Part' = Part /\ Taken' = Taken /\ ~Reading' /\ FragmentsSame
  BY <1>3, <1>5, <1>6, <1>7 DEF Merging, Part, Taken, Reading, FragmentsSame
<1>9. Typed'
  BY <1>1, <1>2, <1>5, <1>6, <1>7 DEF Typed
<1>10. LoadInPlace'
  <2>1. load.at # "closed"
    BY <1>3 DEF Merging
  <2>2. load.block + 1 <= Len(store[Part])
    <3>1. Len(store[Part]) \in Nat
      BY <1>1, <1>3, FilesTyped
    <3> QED
      BY <1>3, <3>1
  <2> QED
    BY <1>1, <1>3, <1>5, <1>7, <1>8, <2>1, <2>2 DEF LoadInPlace
<1>11. InsertInPlace'
  BY <1>1, <1>2, <1>5, <1>6, InsertTyped DEF InsertInPlace
<1>12. RoomLeft'
  <2>1. /\ RecordsRead = load.record /\ RecordsRead' = 0 /\ Pending' = 0 /\ Pending = 0
        /\ End' = End
    BY <1>2, <1>5, <1>8 DEF RecordsRead, Pending, End
  <2>2. PICK p \in Nat, B \in Nat : p = (Taken - 1) * MaxBase /\ B = BlocksRead /\ B = p + load.block
    <3>1. Taken \in 1..(Len(load.parts) - 1) /\ Len(load.parts) \in Nat
      BY <1>1, <1>3, MergingFacts
    <3>2. PICK q \in Nat : q = Taken - 1
      BY <3>1
    <3>3. q * MaxBase \in Nat
      BY PartsFacts
    <3> QED
      BY <1>3, <3>2, <3>3 DEF BlocksRead
  <2>3. BlocksRead' = B + 1
    BY <1>3, <1>7, <1>8, <2>2 DEF BlocksRead
  <2>4. (B + 1) * Capacity = B * Capacity + Capacity /\ B * Capacity \in Nat /\ Capacity \in Nat
    BY BlocksAre
  <2> SUFFICES ASSUME Len(store[Temp]) > MaxBase
               PROVE  (Len(store[Temp]) - MaxBase - 1) * Capacity + Len(End) + 0
                        <= (B + 1) * Capacity + 0
    BY <1>5, <1>8, <2>1, <2>3 DEF RoomLeft
  <2>5. PICK d \in Nat : d = (Len(store[Temp]) - MaxBase - 1) * Capacity
    <3>1. \A m, n \in Nat : m > n => m - n - 1 \in Nat
      OBVIOUS
    <3>2. MaxBase \in Nat /\ Len(store[Temp]) \in Nat
      BY <1>1, PartsFacts, FilesTyped
    <3>3. Len(store[Temp]) - MaxBase - 1 \in Nat
      BY ONLY <3>1, <3>2, Len(store[Temp]) > MaxBase
    <3> QED
      BY <2>4, <3>3
  <2>6. PICK e \in Nat : e = Len(End)
    <3>1. Len(store[Temp]) > 0
      BY <1>1, PartsFacts, FilesTyped
    <3> QED
      BY <1>1, <3>1, EndFacts
  <2>7. d + e + 0 <= B * Capacity + load.record
    BY <1>1, <1>3, <2>1, <2>2, <2>5, <2>6 DEF RoomLeft
  <2>8. load.record \in Nat /\ load.record <= Capacity
    BY <1>2, <1>3
  <2>9. PICK x \in Nat, y \in Nat, z \in Nat : x = B * Capacity /\ y = Capacity /\ z = load.record
    BY <2>4, <2>8
  <2>10. d + e + 0 <= x + y + 0
    BY <2>7, <2>8, <2>9
  <2> QED
    BY <2>4, <2>5, <2>6, <2>9, <2>10
<1>13. ContentRight'
  <2>1. PICK k \in 0..Len(load.parts) : k = Taken
    BY <1>1, <1>3, TakenTyped
  <2>2. Whole(k)' = Whole(k) /\ Whole(Taken) \in Seq(Records)
    BY <1>1, <1>7, <1>8, <2>1, WholeKept, WholeTyped
  <2>3. /\ First(Part, load.block + 1) = First(Part, load.block) \o Contents("reader")
        /\ First(Part, load.block) \in Seq(Records)
    BY <1>1, <1>3, FirstMore
  <2>4. First(Part, load.block)' = First(Part, load.block + 1)
    BY <1>5, <1>7, <1>8 DEF First
  <2>5. SubSeq(Contents("reader"), 1, load.record) = Contents("reader")
    BY <1>2, <1>3, FirstAll
  <2>6. PICK w \in Seq(Records), f \in Seq(Records), c \in Seq(Records) :
          w = Whole(Taken) /\ f = First(Part, load.block) /\ c = Contents("reader")
    BY <1>3, <2>2, <2>3
  <2>7. Expected = (w \o f) \o c
    BY <1>2, <1>3, <2>5, <2>6 DEF Expected
  <2>8. Expected' = (w \o (f \o c)) \o <<>>
    BY <1>7, <1>8, <2>1, <2>2, <2>3, <2>4, <2>6 DEF Expected
  <2>9. (w \o (f \o c)) \o <<>> = (w \o f) \o c
    <3>1. f \o c \in Seq(Records)
      BY ConcatProperties
    <3>2. w \o (f \o c) \in Seq(Records)
      BY <3>1, ConcatProperties
    <3>3. (w \o (f \o c)) \o <<>> = w \o (f \o c)
      BY ONLY <3>2, ConcatEmptySeq
    <3>4. (w \o f) \o c = w \o (f \o c)
      BY ONLY w \in Seq(Records), f \in Seq(Records), c \in Seq(Records), RecordsAssociate
    <3> QED
      BY ONLY <3>3, <3>4
  <2>10. Kept' = Kept /\ load.at # "closed"
    BY <1>2, <1>3, <1>5 DEF Kept, Scan, Merging
  <2> QED
    BY <1>1, <2>7, <2>8, <2>9, <2>10 DEF ContentRight
<1> QED
  BY <1>5, <1>9, <1>10, <1>11, <1>12, <1>13 DEF IInv, Struct

\* Before the first block of a fragment nothing of it was read.
LEMMA FirstNone ==
  ASSUME NEW f \in Files, store' \in [Files -> Seq(Blocks)]
  PROVE  First(f, 0)' = <<>>
<1>1. store'[f] \in Seq(Blocks)
  OBVIOUS
<1>2. SubSeq(store'[f], 1, 0) = <<>>
  BY <1>1, FirstAll
<1> QED
  BY <1>2, FlattenEmpty DEF First

LEMMA MergeCloseKeeps ==
  ASSUME IInv, MergeClose
  PROVE  IInv' /\ store' = store
<1>1. Typed /\ LoadInPlace /\ InsertInPlace /\ RoomLeft /\ ContentRight
  BY DEF IInv, Struct
<1>2. /\ Merging /\ ~Reading /\ load.block = Len(store[Part])
      /\ store' = store /\ out' = out /\ insert' = insert
      /\ load' = [load EXCEPT !.left = Tail(@), !.block = 0]
  BY DEF MergeClose, Reading
<1>3. insert = Done /\ load.at = "merging"
  BY <1>2, NotReading DEF Merging
<1>4. /\ Part \in Parts /\ Part \in Files /\ Taken \in 1..(Len(load.parts) - 1)
      /\ Part = load.parts[Taken + 1] /\ load.left # <<>> /\ Len(load.parts) <= Cardinality(Parts)
      /\ Len(load.parts) \in Nat /\ Len(load.left) \in Nat
  BY <1>1, <1>2, MergingFacts, PartsFacts
<1>5. load.left \in Seq(Parts)
  BY <1>1 DEF Typed
<1>6. PICK l \in Seq(Parts) : l = Tail(load.left)
  BY <1>4, <1>5, HeadTailProperties
<1>7. Len(l) = Len(load.left) - 1 /\ \A i \in 1..Len(l) : l[i] = load.left[i + 1]
  BY <1>4, <1>5, <1>6, HeadTailProperties
<1>8. /\ load'.at = "merging" /\ load'.parts = load.parts /\ load'.left = l
      /\ load'.block = 0 /\ load'.record = load.record
      /\ load' \in [at : {"closed", "merging", "open"}, parts : Seq(Parts), left : Seq(Parts),
                    block : Nat, record : Nat]
  <2>1. load \in [at : {"closed", "merging", "open"}, parts : Seq(Parts), left : Seq(Parts),
                  block : Nat, record : Nat]
    BY <1>1 DEF Typed
  <2>2. load' = [load EXCEPT !.left = l, !.block = 0]
    BY <1>2, <1>6
  <2> QED
    BY ONLY <1>3, <1>6, <2>1, <2>2
<1>9. PICK k \in Nat : k = Taken /\ k \in 1..(Len(load.parts) - 1)
  BY <1>4
<1>10. Taken' = k + 1 /\ k + 1 \in 1..Len(load.parts)
  <2>1. Taken = Len(load.parts) - Len(load.left) /\ Taken' = Len(load.parts) - Len(l)
    BY <1>8 DEF Taken
  <2>2. \A m, n \in Nat : m - (n - 1) = (m - n) + 1
    OBVIOUS
  <2>3. Taken' = k + 1
    BY ONLY <1>4, <1>7, <1>9, <2>1, <2>2
  <2>4. \A m, n \in Nat : m \in 1..(n - 1) => m + 1 \in 1..n
    OBVIOUS
  <2> QED
    BY ONLY <1>4, <1>9, <2>3, <2>4
<1>11. ~Reading' /\ FragmentsSame
  BY <1>2 DEF Reading, FragmentsSame
<1>12. Merging' => Part' \in Parts
  <2>1. ASSUME l # <<>> PROVE Head(l) \in Parts
    BY <1>6, <2>1, HeadTailProperties
  <2> QED
    BY <1>8, <2>1 DEF Merging, Part
<1>13. Typed'
  BY <1>1, <1>2, <1>8 DEF Typed
<1>14. LoadInPlace'
  <2>1. \A i \in 1..Len(l) : l[i] = load.parts[(k + 1) + i]
    <3> SUFFICES ASSUME NEW i \in 1..Len(l) PROVE l[i] = load.parts[(k + 1) + i]
      OBVIOUS
    <3>1. i + 1 \in 1..Len(load.left) /\ k + (i + 1) = (k + 1) + i
      BY <1>4, <1>7
    <3>2. load.left[i + 1] = load.parts[Taken + (i + 1)]
      BY <1>1, <1>3, <3>1 DEF LoadInPlace
    <3> QED
      BY <1>7, <1>9, <3>1, <3>2
  <2>2. Merging' => load'.block <= Len(store'[Part'])
    <3>1. \A f \in Parts : 0 <= Len(store[f])
      BY <1>1, PartsFacts, FilesTyped
    <3> QED
      BY <1>2, <1>8, <1>12, <3>1
  <2> QED
    BY <1>4, <1>8, <1>10, <1>11, <2>1, <2>2 DEF LoadInPlace
<1>15. InsertInPlace'
  BY <1>1, <1>2, <1>3, InsertTyped DEF InsertInPlace
<1>16. RoomLeft'
  <2>1. RecordsRead = 0 /\ RecordsRead' = 0 /\ Pending' = Pending /\ End' = End
    BY <1>2, <1>11 DEF RecordsRead, Pending, End
  <2>2. PICK p \in Nat : p = (k - 1) * MaxBase
    <3>1. PICK q \in Nat : q = k - 1
      BY <1>9
    <3> QED
      BY <3>1, PartsFacts
  <2>3. BlocksRead = p + load.block /\ BlocksRead \in Nat
    BY <1>1, <1>2, <1>9, <2>2, TakenTyped DEF BlocksRead
  <2>4. BlocksRead' = p + MaxBase
    <3>1. (k + 1) - 1 = k /\ k * MaxBase = (k - 1) * MaxBase + MaxBase
      BY PartsFacts
    <3>2. BlocksRead' = ((k + 1) - 1) * MaxBase + 0
      BY <1>8, <1>10 DEF BlocksRead
    <3> QED
      BY <2>2, <3>1, <3>2, PartsFacts
  <2>5. BlocksRead <= BlocksRead' /\ BlocksRead' \in Nat
    <3>1. load.block <= MaxBase
      BY <1>1, <1>2, <1>4 DEF Typed
    <3>2. load.block \in Nat
      BY <1>1 DEF Typed
    <3> QED
      BY <2>3, <2>4, <3>1, <3>2, PartsFacts
  <2>6. BlocksRead * Capacity <= BlocksRead' * Capacity
    <3>1. \A x, y, z \in Nat : x <= y => x * z <= y * z
      OBVIOUS
    <3> QED
      BY <2>3, <2>5, <3>1, BlocksAre
  <2> SUFFICES ASSUME Len(store[Temp]) > MaxBase
               PROVE  (Len(store[Temp]) - MaxBase - 1) * Capacity + Len(End) + Pending
                        <= BlocksRead' * Capacity + 0
    BY <1>2, <2>1 DEF RoomLeft
  <2>7. (Len(store[Temp]) - MaxBase - 1) * Capacity + Len(End) + Pending <= BlocksRead * Capacity + 0
    BY <1>1, <1>2, <2>1 DEF RoomLeft
  <2>8. PICK d \in Nat : d = (Len(store[Temp]) - MaxBase - 1) * Capacity
    <3>1. \A m, n \in Nat : m > n => m - n - 1 \in Nat
      OBVIOUS
    <3>2. MaxBase \in Nat /\ Len(store[Temp]) \in Nat
      BY <1>1, PartsFacts, FilesTyped
    <3>3. Len(store[Temp]) - MaxBase - 1 \in Nat
      BY ONLY <3>1, <3>2, Len(store[Temp]) > MaxBase
    <3> QED
      BY <3>3, BlocksAre
  <2>9. PICK e \in Nat : e = Len(End)
    <3>1. Len(store[Temp]) > 0
      BY <1>1, PartsFacts, FilesTyped
    <3> QED
      BY <1>1, <3>1, EndFacts
  <2>10. PICK x \in Nat, y \in Nat : x = BlocksRead * Capacity /\ y = BlocksRead' * Capacity
    <3>1. \A m, n \in Nat : m * n \in Nat
      OBVIOUS
    <3>2. Capacity \in Nat
      BY BlocksAre
    <3> QED
      BY ONLY <2>3, <2>5, <3>1, <3>2
  <2>11. Pending \in Nat
    BY DEF Pending
  <2> QED
    BY <2>6, <2>7, <2>8, <2>9, <2>10, <2>11
<1>17. ContentRight'
  <2>1. Whole(k + 1)' = Whole(k + 1) /\ Whole(k + 1) \in Seq(Records) /\ Whole(k) \in Seq(Records)
    <3>1. k + 1 \in 0..Len(load.parts) /\ k \in 0..Len(load.parts)
      BY <1>4, <1>9, <1>10
    <3> QED
      BY <1>1, <1>8, <1>11, <3>1, WholeKept, WholeTyped
  <2>2. Whole(k + 1) = Whole(k) \o Scan(Part)
    <3>1. k < Len(load.parts)
      BY <1>4, <1>9
    <3> QED
      BY <1>1, <1>4, <1>9, <3>1, WholeMore
  <2>3. First(Part, load.block) = Scan(Part) /\ Scan(Part) \in Seq(Records)
    BY <1>1, <1>2, <1>4, FilesTyped
  <2>4. Expected = Whole(k + 1) \o <<>>
    BY <1>2, <1>9, <2>2, <2>3 DEF Expected
  <2>5. Merging' => First(Part, load.block)' = <<>>
    <3>1. \A f \in Files : FlattenSeq(SubSeq(store[f], 1, 0)) = <<>>
      BY <1>1, FilesTyped DEF First
    <3> QED
      BY <1>2, <1>8, <1>12, <3>1, PartsFacts DEF First
  <2>6. Whole(Taken)' = Whole(k + 1)
    BY <1>10, <2>1
  <2>7. Expected' = (Whole(k + 1) \o <<>>) \o <<>>
    BY <1>11, <2>5, <2>6 DEF Expected
  <2>8. Expected' = Expected
    BY <2>1, <2>4, <2>7, ConcatEmptySeq
  <2>9. Kept' = Kept
    BY <1>2 DEF Kept, Scan
  <2> QED
    BY <1>1, <1>3, <2>8, <2>9 DEF ContentRight
<1> QED
  BY <1>2, <1>13, <1>14, <1>15, <1>16, <1>17 DEF IInv, Struct

LEMMA LoadedKeeps ==
  ASSUME IInv, Loaded
  PROVE  IInv' /\ store' = store
<1>1. Typed /\ LoadInPlace /\ InsertInPlace /\ RoomLeft /\ ContentRight
  BY DEF IInv, Struct
<1>2. /\ load.at = "merging" /\ load.left = <<>> /\ ~Merging /\ ~Merging'
      /\ store' = store /\ out' = out /\ insert' = insert /\ load' = [load EXCEPT !.at = "open"]
  <2>1. load' = [load EXCEPT !.at = "open"] /\ load.left = <<>> /\ load.at = "merging"
    BY DEF Loaded
  <2>2. load'.left = load.left
    BY <2>1
  <2> QED
    BY <2>1, <2>2 DEF Loaded, Merging
<1>3. /\ load'.at = "open" /\ load'.parts = load.parts /\ load'.left = load.left
      /\ load' \in [at : {"closed", "merging", "open"}, parts : Seq(Parts), left : Seq(Parts),
                    block : Nat, record : Nat]
  <2>1. load \in [at : {"closed", "merging", "open"}, parts : Seq(Parts), left : Seq(Parts),
                  block : Nat, record : Nat]
    BY <1>1 DEF Typed
  <2> QED
    BY ONLY <1>2, <2>1
<1>4. ~Reading /\ ~Reading' /\ Taken' = Taken /\ insert = Done /\ FragmentsSame
  <2>1. ~Reading
    BY <1>1, <1>2 DEF LoadInPlace
  <2> QED
    BY <1>2, <1>3, <2>1, NotReading DEF Reading, Taken, FragmentsSame
<1>5. Typed'
  BY <1>1, <1>2, <1>3 DEF Typed
<1>6. LoadInPlace'
  BY <1>1, <1>2, <1>3, <1>4 DEF LoadInPlace
<1>7. InsertInPlace'
  BY <1>1, <1>2, <1>4, InsertTyped DEF InsertInPlace
<1>8. RoomLeft'
  BY <1>2 DEF RoomLeft
<1>9. ContentRight'
  <2>1. Taken \in 0..Len(load.parts)
    <3>1. Taken \in 1..Len(load.parts) /\ Len(load.parts) \in Nat
      BY <1>1, <1>2, MergingFacts DEF LoadInPlace
    <3> QED
      BY <3>1
  <2>2. PICK k \in 0..Len(load.parts) : k = Taken
    BY <2>1
  <2>3. Whole(k)' = Whole(k)
    BY <1>1, <1>3, <1>4, WholeKept
  <2>4. Expected' = Expected
    BY <1>2, <1>4, <2>2, <2>3 DEF Expected
  <2>5. Kept' = Kept
    BY <1>2 DEF Kept, Scan
  <2> QED
    BY <1>1, <1>2, <2>4, <2>5 DEF ContentRight
<1> QED
  BY <1>2, <1>5, <1>6, <1>7, <1>8, <1>9 DEF IInv, Struct

-----------------------------------------------------------------------------
\* Opening a database, and the start.

LEMMA PartsChosen ==
  ASSUME NEW S, NEW n \in Nat, NEW s \in BoundedSeq(S, n)
  PROVE  s \in Seq(S) /\ Len(s) \in Nat /\ Len(s) <= n
<1>1. PICK m \in 0..n : s \in [1..m -> S]
  BY DEF BoundedSeq, SeqOf
<1> QED
  BY <1>1

LEMMA FlattenOne ==
  ASSUME NEW S, NEW s \in Seq(S), NEW t, t = [i \in 1..1 |-> s]
  PROVE  FlattenSeq(t) = s
<1>1. <<>> \in Seq(Seq(S)) /\ <<>> \in Seq(S)
  OBVIOUS
<1>2. FlattenSeq(Append(<<>>, s)) = FlattenSeq(<<>>) \o s
  BY ONLY <1>1, s \in Seq(S), FlattenOneMore
<1>3. t = Append(<<>>, s)
  OBVIOUS
<1>4. <<>> \o s = s
  BY ConcatEmptySeq
<1> QED
  BY <1>2, <1>3, <1>4, FlattenEmpty

LEMMA OpenKeeps ==
  ASSUME IInv, NEW parts \in BoundedSeq(Parts, Cardinality(Parts)), Open(parts)
  PROVE  IInv' /\ FragmentsSame
<1>1. Typed /\ LoadInPlace /\ InsertInPlace /\ RoomLeft /\ ContentRight
  BY DEF IInv, Struct
<1>2. /\ load.at \in {"closed", "open"} /\ parts # <<>> /\ loads' = loads + 1
      /\ store' = [store EXCEPT ![Temp] = store[parts[1]]] /\ out' = out /\ insert' = insert
      /\ load' = [ClosedDb EXCEPT !.at = "merging", !.parts = parts, !.left = Tail(parts)]
  BY DEF Open
<1>3. /\ parts \in Seq(Parts) /\ Len(parts) \in Nat /\ Len(parts) <= Cardinality(Parts)
      /\ Len(parts) # 0
  <2>1. parts \in Seq(Parts) /\ Len(parts) \in Nat /\ Len(parts) <= Cardinality(Parts)
    BY PartsChosen, PartsFacts
  <2> QED
    BY <1>2, <2>1, EmptySeq
<1>4. ~Merging /\ ~Reading /\ insert = Done
  <2>1. ~Merging
    BY <1>2 DEF Merging
  <2>2. ~Reading
    BY <1>1, <2>1 DEF LoadInPlace
  <2> QED
    BY <2>1, <2>2, NotReading
<1>5. parts[1] \in Parts /\ parts[1] \in Files /\ parts[1] # Temp
  <2>1. 1 \in 1..Len(parts)
    BY <1>3
  <2> QED
    BY <1>3, <2>1, ElementOfSeq, PartsFacts
<1>6. PICK s : s = store[parts[1]]
  OBVIOUS
<1>7. /\ s \in Seq(Blocks) /\ s \in Seq(Seq(Records)) /\ Len(s) \in Nat /\ Len(s) <= MaxBase
  <2>1. Len(s) <= MaxBase
    BY <1>1, <1>5, <1>6 DEF Typed
  <2> QED
    BY <1>1, <1>5, <1>6, <2>1, FilesTyped
<1>8. store' \in [Files -> Seq(Blocks)] /\ FragmentsSame /\ store'[Temp] = s
  BY <1>1, <1>2, <1>6, <1>7, TempChanged
<1>9. PICK l \in Seq(Parts) : l = Tail(parts)
  BY <1>2, <1>3, HeadTailProperties
<1>10. Len(l) = Len(parts) - 1 /\ \A i \in 1..Len(l) : l[i] = parts[i + 1]
  BY <1>2, <1>3, <1>9, HeadTailProperties
<1>11. /\ load'.at = "merging" /\ load'.parts = parts /\ load'.left = l /\ load'.block = 0
       /\ load'.record = 0
       /\ load' \in [at : {"closed", "merging", "open"}, parts : Seq(Parts), left : Seq(Parts),
                     block : Nat, record : Nat]
  BY <1>2, <1>3, <1>9 DEF ClosedDb
<1>12. Taken' = 1 /\ 1 \in 1..Len(parts)
  <2>1. Taken' = Len(parts) - Len(l)
    BY <1>11 DEF Taken
  <2>2. \A n \in Nat : n - (n - 1) = 1 /\ (n # 0 => 1 \in 1..n)
    OBVIOUS
  <2> QED
    BY ONLY <1>3, <1>10, <2>1, <2>2
<1>13. ~Reading'
  BY <1>2, <1>4 DEF Reading
<1>14. Merging' => Part' \in Parts
  <2>1. ASSUME l # <<>> PROVE Head(l) \in Parts
    BY <1>9, <2>1, HeadTailProperties
  <2> QED
    BY <1>11, <2>1 DEF Merging, Part
<1>15. Typed'
  <2>1. \A f \in Parts : Len(store'[f]) <= MaxBase
    BY <1>1, <1>8 DEF FragmentsSame, Typed
  <2>2. Len(store'[Temp]) <= MaxBlocks
    <3>1. 1 <= Cardinality(Parts)
      BY <1>3, PartsFacts
    <3>2. 1 * MaxBase <= MaxBlocks
      BY <3>1, PartsFacts
    <3> QED
      BY <1>7, <1>8, <3>2, PartsFacts
  <2> QED
    BY <1>1, <1>2, <1>8, <1>11, <2>1, <2>2 DEF Typed
<1>16. LoadInPlace'
  <2>1. \A i \in 1..Len(l) : l[i] = parts[1 + i]
    <3> SUFFICES ASSUME NEW i \in 1..Len(l) PROVE l[i] = parts[1 + i]
      OBVIOUS
    <3>1. i + 1 = 1 + i
      OBVIOUS
    <3> QED
      BY <1>10, <3>1
  <2>2. Merging' => load'.block <= Len(store'[Part'])
    <3>1. \A f \in Parts : 0 <= Len(store'[f])
      <4>1. \A f \in Parts : store'[f] \in Seq(Blocks)
        BY <1>8, PartsFacts
      <4> QED
        BY <4>1, LenProperties
    <3> QED
      BY <1>11, <1>14, <3>1
  <2> QED
    BY <1>3, <1>11, <1>12, <1>13, <2>1, <2>2 DEF LoadInPlace
<1>17. InsertInPlace'
  BY <1>1, <1>2, <1>4, InsertTyped DEF InsertInPlace
<1>18. RoomLeft'
  <2>1. ~(Len(store'[Temp]) > MaxBase)
    BY <1>7, <1>8, PartsFacts
  <2> QED
    BY <2>1 DEF RoomLeft
<1>19. ContentRight'
  <2>1. Scan(parts[1])' = FlattenSeq(s) /\ FlattenSeq(s) \in Seq(Records)
    BY <1>5, <1>6, <1>7, <1>8, FlattenTyped DEF Scan, FragmentsSame
  <2>2. Whole(1)' = FlattenSeq(s)
    <3>1. [i \in 1..1 |-> Scan(load.parts[i])]' = [i \in 1..1 |-> FlattenSeq(s)]
      BY <1>11, <2>1
    <3> QED
      BY <2>1, <3>1, FlattenOne DEF Whole
  <2>3. Merging' => First(Part, load.block)' = <<>>
    <3>1. \A f \in Files : First(f, 0)' = <<>>
      BY <1>8, FirstNone
    <3>2. \A f \in Files : FlattenSeq(SubSeq(store'[f], 1, 0)) = <<>>
      BY <3>1 DEF First
    <3> QED
      BY <1>11, <1>14, <3>2, PartsFacts DEF First
  <2>4. Whole(Taken)' = Whole(1)'
    BY <1>12
  <2>5. Expected' = (FlattenSeq(s) \o <<>>) \o <<>>
    BY <1>13, <2>2, <2>3, <2>4 DEF Expected
  <2>6. Expected' = FlattenSeq(s)
    BY <2>1, <2>5, ConcatEmptySeq
  <2>7. Kept' = FlattenSeq(s)
    BY <1>2, <1>4, <1>8 DEF Kept, Scan
  <2> QED
    BY <2>6, <2>7 DEF ContentRight
<1> QED
  BY <1>8, <1>15, <1>16, <1>17, <1>18, <1>19 DEF IInv, Struct

LEMMA CrashKeeps ==
  ASSUME IInv, Crash
  PROVE  IInv' /\ store' = store /\ load'.at = "closed"
<1>1. Typed
  BY DEF IInv, Struct
<1>2. /\ out' = [h \in Handles |-> Free] /\ insert' = Done /\ load' = ClosedDb /\ store' = store
  BY DEF Crash
<1>3. load'.at = "closed" /\ insert'.at = "done"
  BY <1>2 DEF ClosedDb, Done
<1>4. "reader" \in Handles /\ "writer" \in Handles
  BY DEF Handles
<1>5. ~Reading' /\ ~Merging'
  BY <1>2, <1>3, <1>4 DEF Reading, Merging
<1>6. Typed'
  <2>1. <<>> \in Seq(Parts)
    BY EmptySeq
  <2>2. ClosedDb \in [at : {"closed", "merging", "open"}, parts : Seq(Parts), left : Seq(Parts),
                      block : Nat, record : Nat]
    BY <2>1 DEF ClosedDb
  <2> QED
    BY <1>1, <1>2, <2>2 DEF Typed
<1>7. LoadInPlace'
  BY <1>2, <1>3, <1>5 DEF LoadInPlace
<1>8. InsertInPlace'
  BY <1>2, <1>3, <1>4 DEF InsertInPlace
<1>9. RoomLeft' /\ ContentRight'
  BY <1>3, <1>5 DEF RoomLeft, ContentRight
<1> QED
  BY <1>2, <1>3, <1>6, <1>7, <1>8, <1>9 DEF IInv, Struct

LEMMA IInvInit == Init => IInv
<1> SUFFICES ASSUME Init PROVE IInv
  OBVIOUS
<1>1. PICK base \in [Parts -> BoundedSeq(Blocks, MaxBase)] :
        store = [f \in Files |-> IF f = Temp THEN <<>> ELSE base[f]]
  BY DEF Init
<1>2. out = [h \in Handles |-> Free] /\ insert = Done /\ load = ClosedDb
  BY DEF Init
<1>3. load.at = "closed" /\ insert.at = "done"
  BY <1>2 DEF ClosedDb, Done
<1>4. "reader" \in Handles /\ "writer" \in Handles
  BY DEF Handles
<1>5. ~Reading /\ ~Merging
  BY <1>2, <1>3, <1>4 DEF Reading, Merging
<1>6. \A f \in Parts : store[f] = base[f] /\ base[f] \in Seq(Blocks) /\ Len(base[f]) <= MaxBase
  BY <1>1, PartsFacts, PartsChosen
<1>7. store[Temp] = <<>> /\ <<>> \in Seq(Blocks) /\ Len(<<>>) = 0
  BY <1>1, PartsFacts, EmptySeq
<1>8. store \in [Files -> Seq(Blocks)]
  BY <1>1, <1>6, <1>7 DEF Parts
<1>9. Typed
  <2>1. <<>> \in Seq(Parts)
    BY EmptySeq
  <2>2. ClosedDb \in [at : {"closed", "merging", "open"}, parts : Seq(Parts), left : Seq(Parts),
                      block : Nat, record : Nat]
    BY <2>1 DEF ClosedDb
  <2>3. Len(store[Temp]) <= MaxBlocks
    BY <1>7, PartsFacts
  <2> QED
    BY <1>2, <1>6, <1>8, <2>2, <2>3 DEF Typed
<1>10. LoadInPlace
  BY <1>2, <1>3, <1>5 DEF LoadInPlace
<1>11. InsertInPlace
  BY <1>2, <1>3, <1>4 DEF InsertInPlace
<1>12. RoomLeft /\ ContentRight
  BY <1>3, <1>5 DEF RoomLeft, ContentRight
<1> QED
  BY <1>9, <1>10, <1>11, <1>12 DEF IInv, Struct

LEMMA StutterKeeps ==
  ASSUME IInv, UNCHANGED vars
  PROVE  IInv' /\ store' = store /\ out' = out
BY DEF IInv, Struct, Typed, LoadInPlace, InsertInPlace, RoomLeft, ContentRight, vars, Reading,
       Taken, Merging, Part, End, Inserted, Pending, RecordsRead, BlocksRead, First, Whole,
       Expected, Kept, Scan, Contents

LEMMA IInvNext ==
  ASSUME IInv, [Next]_vars
  PROVE  IInv'
BY InsertKeeps, MergeInsertKeeps, MergeGetKeeps, MergeUnpinKeeps, MergeCloseKeeps, LoadedKeeps,
   OpenKeeps, CrashKeeps, StutterKeeps DEF Next

\* How often a database was opened is counted.
Counted == IInv /\ loads \in Nat

LEMMA Invariant == Spec => []Counted
<1>1. Init => Counted
  BY IInvInit DEF Init, Counted
<1>2. Counted /\ [Next]_vars => Counted'
  <2> SUFFICES ASSUME Counted, [Next]_vars PROVE loads' \in Nat
    BY IInvNext DEF Counted
  <2>1. ASSUME NEW parts, Open(parts) PROVE loads' = loads + 1
    BY <2>1 DEF Open
  <2>2. ~(\E parts \in BoundedSeq(Parts, Cardinality(Parts)) : Open(parts)) => loads' = loads
    BY DEF Next, vars, MergeGet, MergeInsert, Insert, MergeUnpin, MergeClose, Loaded, Crash
  <2> QED
    BY <2>1, <2>2 DEF Counted
<1> QED
  BY <1>1, <1>2, PTL DEF Spec

-----------------------------------------------------------------------------
\* The theorems.

LEMMA LeftIsSuffix ==
  ASSUME NEW S, NEW l \in Seq(S), NEW p \in Seq(S), NEW t \in Nat, t = Len(p) - Len(l),
         \A i \in 1..Len(l) : l[i] = p[t + i]
  PROVE  IsSuffix(l, p)
<1>1. Len(l) \in Nat /\ Len(p) \in Nat /\ Len(p) = t + Len(l)
  BY LenProperties
<1> DEFINE rl == [i \in 1..Len(l) |-> l[(Len(l) - i) + 1]]
           rp == [i \in 1..Len(p) |-> p[(Len(p) - i) + 1]]
<1>2. ASSUME NEW q \in Seq(S), NEW n \in Nat, n = Len(q)
      PROVE  [i \in 1..n |-> q[(n - i) + 1]] \in Seq(S)
  <2>1. \A i \in 1..n : q[(n - i) + 1] \in S
    <3>1. \A i \in 1..n : (n - i) + 1 \in 1..n
      OBVIOUS
    <3> QED
      BY <1>2, <3>1, ElementOfSeq
  <2>2. [i \in 1..n |-> q[(n - i) + 1]] \in [1..n -> S]
    BY <2>1
  <2> QED
    BY <2>2
<1>3. rl \in Seq(S) /\ Len(rl) = Len(l) /\ rp \in Seq(S) /\ Len(rp) = Len(p)
  BY <1>1, <1>2
<1>4. \A i \in 1..Len(l) : rl[i] = rp[i]
  <2> SUFFICES ASSUME NEW i \in 1..Len(l) PROVE rl[i] = rp[i]
    OBVIOUS
  <2>1. /\ (Len(l) - i) + 1 \in 1..Len(l) /\ i \in 1..Len(p)
        /\ t + ((Len(l) - i) + 1) = (Len(p) - i) + 1
    BY <1>1
  <2>2. l[(Len(l) - i) + 1] = p[t + ((Len(l) - i) + 1)]
    BY <2>1
  <2> QED
    BY <2>1, <2>2
<1>5. Reverse(l) = rl /\ Reverse(p) = rp
  BY DEF Reverse
<1> HIDE DEF rl, rp
<1>6. rl = SubSeq(rp, 1, Len(rl))
  <2>1. \A i \in 1..Len(l) : rp[i] \in S
    BY <1>1, <1>3, ElementOfSeq
  <2> QED
    BY <1>1, <1>3, <1>4, <2>1
<1>7. Len(rl) <= Len(rp)
  BY <1>1, <1>3
<1> QED
  BY <1>5, <1>6, <1>7 DEF IsSuffix, IsPrefix

(* The variables hold what they are meant to, and the fragments still to   *)
(* be merged are the last ones of those asked for.                         *)
THEOREM TypeCorrect == Spec => []TypeOK
<1>1. Counted => TypeOK
  <2> SUFFICES ASSUME Counted PROVE TypeOK
    OBVIOUS
  <2>1. Typed /\ LoadInPlace
    BY DEF Counted, IInv, Struct
  <2>2. insert = Done \/ (insert.file = Temp /\ insert.record \in Records)
    BY <2>1, InsertTyped
  <2>3. load.at \in {"closed", "merging", "open"} /\ (load.at = "closed") = (load = ClosedDb)
    BY <2>1 DEF Typed, LoadInPlace, ClosedDb
  <2>4. IsSuffix(load.left, load.parts)
    <3>1. load.parts \in Seq(Parts) /\ load.left \in Seq(Parts)
      BY <2>1 DEF Typed
    <3>2. CASE load.at = "closed"
      <4>1. load.parts = <<>> /\ load.left = <<>>
        BY <2>1, <3>2 DEF LoadInPlace, ClosedDb
      <4>2. PICK t \in Nat : t = 0
        OBVIOUS
      <4>3. t = Len(load.parts) - Len(load.left)
        BY <4>1, <4>2
      <4>4. \A i \in 1..Len(load.left) : load.left[i] = load.parts[t + i]
        BY <4>1
      <4> QED
        BY <3>1, <4>3, <4>4, LeftIsSuffix
    <3>3. CASE load.at # "closed"
      <4>1. /\ Taken \in 1..Len(load.parts) /\ Len(load.parts) \in Nat
            /\ \A i \in 1..Len(load.left) : load.left[i] = load.parts[Taken + i]
        BY <2>1, <3>3, MergingFacts DEF LoadInPlace
      <4>2. Taken \in Nat /\ Taken = Len(load.parts) - Len(load.left)
        BY <4>1 DEF Taken
      <4> QED
        BY <3>1, <4>1, <4>2, LeftIsSuffix
    <3> QED
      BY <3>2, <3>3
  <2> QED
    BY <2>1, <2>2, <2>3, <2>4 DEF TypeOK, Typed
<1> QED
  BY <1>1, Invariant, PTL

(* A table that is loaded has the records of its fragments, one after the  *)
(* other, however many there are, whatever they hold and whatever died     *)
(* before: no record is lost at a block that is full, none is read twice.  *)
THEOREM LoadedRight == Spec => []LoadedIsConcatenation
<1>1. Counted => LoadedIsConcatenation
  <2> SUFFICES ASSUME Counted, load.at = "open"
               PROVE  Scan(Temp) = FlattenSeq([i \in DOMAIN load.parts |-> Scan(load.parts[i])])
    BY DEF LoadedIsConcatenation
  <2>1. IInv /\ Typed /\ LoadInPlace /\ ContentRight
    BY DEF Counted, IInv, Struct
  <2>2. load.left = <<>> /\ ~Merging
    BY <2>1 DEF LoadInPlace, Merging
  <2>3. ~Reading
    BY <2>1, <2>2 DEF LoadInPlace
  <2>4. Kept = Scan(Temp)
    BY <2>1, <2>3, NotReading, NotInserting
  <2>5. load.parts \in Seq(Parts) /\ Len(load.parts) \in Nat
    BY <2>1, LenProperties DEF Typed
  <2>6. Taken = Len(load.parts)
    <3>1. Len(load.left) = 0
      BY <2>2
    <3> QED
      BY <2>5, <3>1 DEF Taken
  <2>7. PICK k \in 0..Len(load.parts) : k = Len(load.parts)
    BY <2>5
  <2>8. Whole(k) \in Seq(Records)
    BY <2>1, WholeTyped
  <2>9. Expected = (Whole(k) \o <<>>) \o <<>>
    BY <2>2, <2>3, <2>6, <2>7 DEF Expected
  <2>10. Scan(Temp) = Whole(k)
    BY <2>1, <2>4, <2>8, <2>9, ConcatEmptySeq DEF ContentRight
  <2>11. DOMAIN load.parts = 1..k
    BY <2>5, <2>7
  <2> QED
    BY <2>10, <2>11 DEF Whole
<1> QED
  BY <1>1, Invariant, PTL

\* What a step does to the files.
LEMMA StepStores ==
  ASSUME Counted, [Next]_vars
  PROVE  /\ FragmentsSame
         /\ load'.at # "closed" /\ loads' = loads =>
              \/ Scan(Temp)' = Scan(Temp)
              \/ \E r \in Records : Scan(Temp)' = Append(Scan(Temp), r)
<1>1. store' = store => FragmentsSame /\ Scan(Temp)' = Scan(Temp)
  BY DEF FragmentsSame, Scan
<1>2. ASSUME NEW parts \in BoundedSeq(Parts, Cardinality(Parts)), Open(parts)
      PROVE  FragmentsSame /\ loads' # loads
  <2>1. FragmentsSame
    BY <1>2, OpenKeeps DEF Counted
  <2>2. loads' = loads + 1 /\ loads \in Nat
    BY <1>2 DEF Open, Counted
  <2> QED
    BY <2>1, <2>2
<1>3. IInv
  BY DEF Counted
<1> QED
  BY <1>1, <1>2, <1>3, InsertKeeps, MergeInsertKeeps, MergeGetKeeps, MergeUnpinKeeps,
     MergeCloseKeeps, LoadedKeeps, CrashKeeps, StutterKeeps DEF Next

(* Between two opens a scan of the copy only gains records at its end, one *)
(* at a time, at every step of heap_file_insert.                           *)
THEOREM OnlyGrows == Spec => GrowsByRecords
<1>1. Counted /\ [Next]_vars =>
        (store'[Temp] # store[Temp] /\ load'.at # "closed" /\ loads' = loads =>
           \/ Scan(Temp)' = Scan(Temp)
           \/ \E r \in Records : Scan(Temp)' = Append(Scan(Temp), r))
  BY StepStores
<1> QED
  BY <1>1, Invariant, PTL DEF Spec, GrowsByRecords

(* No step, a death included, changes a fragment's file.                   *)
THEOREM FragmentsStay == Spec => FragmentsKept
<1>1. Counted /\ [Next]_vars => \A f \in Parts : store'[f] = store[f]
  BY StepStores DEF FragmentsSame
<1> QED
  BY <1>1, Invariant, PTL DEF Spec, FragmentsKept

-----------------------------------------------------------------------------
\* Every step is one the block layer allows for.

LEMMA WriterHeld ==
  ASSUME IInv, insert.at \in {"last", "fresh", "unpin"}
  PROVE  out["writer"] # Free /\ insert # Done /\ insert.record \in Records /\ insert.file = Temp
<1>1. Typed /\ InsertInPlace
  BY DEF IInv, Struct
<1>2. insert # Done /\ insert.record \in Records /\ insert.file = Temp
  BY <1>1, InsertTyped DEF Done
<1>3. Len(store[Temp]) > 0
  BY <1>1, <1>2 DEF InsertInPlace
<1>4. End \in Seq(Records) /\ Len(store[Temp]) - 1 \in Nat
  BY <1>1, <1>3, EndFacts
<1>5. Inserted \in Seq(Records)
  BY <1>2, <1>4, AppendProperties DEF Inserted
<1>6. out["writer"] = [file |-> Temp, number |-> Len(store[Temp]) - 1, contents |-> Inserted]
  BY <1>1 DEF InsertInPlace
<1> QED
  BY <1>2, <1>4, <1>5, <1>6, PartsFacts, RecordAssumption

LEMMA EditStep ==
  ASSUME NEW h \in Handles, out[h] # Free, NEW b \in Blocks, SetDirty(h, b)
  PROVE  Device!Next
<1>1. Device!Edit(h, b)
  BY DEF SetDirty, Device!Edit
<1> QED
  BY <1>1 DEF Device!Next

LEMMA CheckInStep ==
  ASSUME NEW h \in Handles, out[h] # Free, Unpin(h)
  PROVE  Device!Next
<1>1. Device!CheckIn(h)
  BY DEF Unpin, Contents, Device!CheckIn
<1> QED
  BY <1>1 DEF Device!Next

LEMMA ExtendStep ==
  ASSUME NEW h \in Handles, NEW f \in Files, out[h] = Free, Len(store[f]) < MaxBlocks, Allocate(h, f)
  PROVE  Device!Next
<1>1. Device!Extend(h, f)
  BY DEF Allocate, Device!Extend
<1> QED
  BY <1>1 DEF Device!Next

LEMMA CheckOutStep ==
  ASSUME NEW h \in Handles, NEW f \in Files, NEW n \in Nat, out[h] = Free, n < Len(store[f]),
         n < MaxBlocks, \A o \in Handles : o # h => out[o] = Free \/ out[o].file # f,
         Get(h, f, n)
  PROVE  Device!Next
<1>1. ~Device!CheckedOut(f, n)
  BY DEF Device!CheckedOut
<1>2. Device!CheckOut(h, f, n)
  BY <1>1 DEF Get, Device!CheckOut
<1>3. n \in 0..(MaxBlocks - 1)
  BY PartsFacts
<1> QED
  BY <1>2, <1>3 DEF Device!Next

LEMMA InsertIsDeviceStep ==
  ASSUME IInv, Insert
  PROVE  Device!Next
<1>1. Typed /\ LoadInPlace /\ InsertInPlace
  BY DEF IInv, Struct
<1>2. "writer" \in Handles /\ Temp \in Files
  BY PartsFacts DEF Handles
<1>3. CASE InsertIntoLast
  <2>1. /\ insert.at = "last" /\ Len(Contents("writer")) < Capacity
        /\ SetDirty("writer", Append(Contents("writer"), insert.record))
    BY <1>3 DEF InsertIntoLast, HasRoom, Placed
  <2>2. out["writer"] # Free /\ insert.record \in Records
    BY <2>1, WriterHeld
  <2>3. Contents("writer") \in Blocks
    BY <1>1, <1>2, <2>2 DEF Typed, Contents, Device!Copies
  <2>4. Append(Contents("writer"), insert.record) \in Blocks
    <3>1. /\ Contents("writer") \in Seq(Records) /\ Len(Contents("writer")) \in Nat
          /\ Len(Contents("writer")) <= Capacity
      BY <2>3, BlocksAre, LenProperties
    <3>2. /\ Append(Contents("writer"), insert.record) \in Seq(Records)
          /\ Len(Append(Contents("writer"), insert.record)) = Len(Contents("writer")) + 1
      BY <2>2, <3>1, AppendProperties
    <3>3. Len(Contents("writer")) + 1 <= Capacity
      BY <2>1, <3>1, BlocksAre
    <3> QED
      BY <3>2, <3>3, BlocksAre
  <2> QED
    BY <1>2, <2>1, <2>2, <2>4, EditStep
<1>4. CASE LeaveLast
  <2>1. Unpin("writer") /\ out["writer"] # Free
    BY <1>4, WriterHeld DEF LeaveLast
  <2> QED
    BY <1>2, <2>1, CheckInStep
<1>5. CASE InsertExtend
  <2>1. insert.at = "extend" /\ Allocate("writer", insert.file)
    BY <1>5 DEF InsertExtend
  <2>2. insert # Done /\ insert.file = Temp
    BY <1>1, <2>1, InsertTyped
  <2>3. out["writer"] = Free /\ Reading
    BY <1>1, <2>1, <2>2 DEF InsertInPlace
  <2>4. Len(store[Temp]) < MaxBlocks
    BY <2>1, <2>3, RoomForBlock
  <2> QED
    BY <1>2, <2>1, <2>2, <2>3, <2>4, ExtendStep
<1>6. CASE InsertIntoFresh
  <2>1. insert.at = "fresh" /\ SetDirty("writer", <<insert.record>>)
    BY <1>6 DEF InsertIntoFresh
  <2>2. out["writer"] # Free /\ insert.record \in Records
    BY <2>1, WriterHeld
  <2>3. <<insert.record>> \in Blocks
    <3>1. <<insert.record>> \in Seq(Records) /\ Len(<<insert.record>>) = 1
      BY <2>2
    <3>2. 1 <= Capacity
      BY BlocksAre
    <3> QED
      BY <3>1, <3>2, BlocksAre
  <2> QED
    BY <1>2, <2>1, <2>2, <2>3, EditStep
<1>7. CASE InsertUnpin
  <2>1. Unpin("writer") /\ out["writer"] # Free
    BY <1>7, WriterHeld DEF InsertUnpin
  <2> QED
    BY <1>2, <2>1, CheckInStep
<1> QED
  BY <1>3, <1>4, <1>5, <1>6, <1>7 DEF Insert, InsertStep

LEMMA MergeInsertIsDeviceStep ==
  ASSUME IInv, MergeInsert
  PROVE  Device!Next
<1>1. Typed /\ LoadInPlace /\ InsertInPlace
  BY DEF IInv, Struct
<1>2. Reading /\ insert = Done
  BY DEF MergeInsert, Reading, InsertBegin
<1>3. out["writer"] = Free
  BY <1>2, NotInserting
<1>4. "writer" \in Handles /\ Temp \in Files /\ Handles = {"reader", "writer"}
  BY PartsFacts DEF Handles
<1>5. PICK r : InsertBegin(Temp, r)
  BY DEF MergeInsert, Target
<1>6. CASE Len(store[Temp]) > 0
  <2>1. Get("writer", Temp, Len(store[Temp]) - 1)
    BY <1>5, <1>6 DEF InsertBegin
  <2>2. /\ Len(store[Temp]) - 1 \in Nat /\ Len(store[Temp]) - 1 < Len(store[Temp])
        /\ Len(store[Temp]) - 1 < MaxBlocks
    BY <1>1, <1>6, EndFacts
  <2>3. PICK n \in Nat : n = Len(store[Temp]) - 1
    BY <2>2
  <2>4. out["reader"].file # Temp
    <3>1. Part # Temp
      BY <1>1, <1>2, ReadingFacts
    <3>2. out["reader"] = [file |-> Part, number |-> load.block,
                           contents |-> store[Part][load.block + 1]]
      BY <1>1, <1>2 DEF LoadInPlace
    <3> QED
      BY <3>1, <3>2
  <2>5. \A o \in Handles : o # "writer" => out[o] = Free \/ out[o].file # Temp
    BY <1>4, <2>4
  <2>6. Get("writer", Temp, n) /\ n < Len(store[Temp]) /\ n < MaxBlocks
    BY <2>1, <2>2, <2>3
  <2> QED
    BY <1>3, <1>4, <2>5, <2>6, CheckOutStep
<1>7. CASE ~(Len(store[Temp]) > 0)
  <2>1. Allocate("writer", Temp)
    BY <1>5, <1>7 DEF InsertBegin
  <2>2. Len(store[Temp]) = 0
    BY <1>1, <1>4, <1>7, FilesTyped
  <2>3. Len(store[Temp]) < MaxBlocks
    BY <1>2, <2>2, RoomForBlock
  <2> QED
    BY <1>3, <1>4, <2>1, <2>3, ExtendStep
<1> QED
  BY <1>6, <1>7

LEMMA MergeGetIsDeviceStep ==
  ASSUME IInv, MergeGet
  PROVE  Device!Next
<1>1. Typed /\ LoadInPlace /\ InsertInPlace
  BY DEF IInv, Struct
<1>2. /\ Merging /\ ~Reading /\ out["reader"] = Free /\ Get("reader", Part, load.block)
      /\ load.block < Len(store[Part]) /\ load.block \in Nat
  BY <1>1 DEF MergeGet, Reading, Typed
<1>3. out["writer"] = Free
  BY <1>2, NotReading, NotInserting
<1>4. "reader" \in Handles /\ Handles = {"reader", "writer"}
  BY DEF Handles
<1>5. Part \in Parts /\ Part \in Files
  BY <1>1, <1>2, MergingFacts, PartsFacts
<1>6. load.block < MaxBlocks
  <2>1. Taken \in 1..(Len(load.parts) - 1) /\ Len(load.parts) \in Nat /\ Len(load.parts) <= Cardinality(Parts)
    BY <1>1, <1>2, MergingFacts
  <2>2. 1 <= Cardinality(Parts)
    BY <2>1, PartsFacts
  <2>3. 1 * MaxBase <= MaxBlocks
    BY <2>2, PartsFacts
  <2>4. Len(store[Part]) <= MaxBase
    BY <1>1, <1>5 DEF Typed
  <2>5. Len(store[Part]) \in Nat
    BY <1>1, <1>5, FilesTyped
  <2> QED
    BY <1>2, <2>3, <2>4, <2>5, PartsFacts
<1>7. \A o \in Handles : o # "reader" => out[o] = Free \/ out[o].file # Part
  BY <1>3, <1>4
<1>8. PICK f \in Files, n \in Nat : f = Part /\ n = load.block
  BY <1>2, <1>5
<1> QED
  BY <1>2, <1>4, <1>6, <1>7, <1>8, CheckOutStep

(* Every step of a load, but for cp and a death, is a step of the block    *)
(* layer's specification: loading never has a block in use twice, never    *)
(* forgets to give one back, and never asks for one that is not there.     *)
THEOREM DisciplineKept == Spec => KeepsDiscipline
<1>1. Counted /\ [Next]_vars =>
        [loads' = loads /\ load'.at # "closed" => Device!Next]_<<store, out>>
  <2> SUFFICES ASSUME Counted, [Next]_vars, loads' = loads, load'.at # "closed",
                      <<store, out>>' # <<store, out>>
               PROVE  Device!Next
    OBVIOUS
  <2>1. IInv /\ loads \in Nat
    BY DEF Counted
  <2>2. ASSUME NEW parts, Open(parts) PROVE FALSE
    <3>1. loads' = loads + 1
      BY <2>2 DEF Open
    <3> QED
      BY <2>1, <3>1
  <2>3. CASE MergeUnpin
    <3>1. Unpin("reader") /\ out["reader"] # Free /\ "reader" \in Handles
      BY <2>3 DEF MergeUnpin, Handles
    <3> QED
      BY <3>1, CheckInStep
  <2>4. ~MergeClose /\ ~Loaded /\ ~UNCHANGED vars
    BY DEF MergeClose, Loaded, vars
  <2>5. ~Crash
    BY DEF Crash, ClosedDb
  <2> QED
    BY <2>1, <2>2, <2>3, <2>4, <2>5, MergeGetIsDeviceStep, MergeInsertIsDeviceStep,
       InsertIsDeviceStep DEF Next
<1> QED
  BY <1>1, Invariant, PTL DEF Spec, KeepsDiscipline
=============================================================================
