-------------------------- MODULE BlockStoreProofs --------------------------
(***************************************************************************)
(* Proofs about BlockStore for every number of files, blocks, descriptors, *)
(* handles and contents, as long as the blocks callers hold at once fit    *)
(* the pool (PinsFit).                                                     *)
(***************************************************************************)
EXTENDS BlockStore, SequenceProofs, FiniteSetTheorems

-----------------------------------------------------------------------------
\* The inductive invariant.  It speaks of a held block by where the kernel
\* finds it (Place) rather than by the name in the slot table (KeyOf); that
\* the two are the same is NamesCurrent.

Place(b) == <<opened[b.fd], b.number>>
Pinned == {h \in Handles : IsHeld(h)}
HeldPlaces == {Place(handle[h]) : h \in Pinned}

HandlesOpen ==
  \A h \in Pinned : /\ opened[handle[h].fd] \in Files
                    /\ handle[h].number < Len(disk[opened[handle[h].fd]])

HoldersDistinct ==
  \A g, h \in Pinned : Place(handle[g]) = Place(handle[h]) => g = h

ActiveHeld == With("active") = HeldPlaces

QueueExact == Range(pq) = With("inactive") /\ IsInjective(pq)

CountExact ==
  /\ count = Cardinality(Pinned)
  /\ IsFiniteSet(With("active")) /\ count = Cardinality(With("active"))

ResidentOnDisk == \A k \in Resident : k[2] < Len(disk[k[1]])

CleanCached ==
  \A k \in Resident :
    \/ \E h \in Pinned : handle[h].bit = 1 /\ Place(handle[h]) = k
    \/ array[k] = disk[k[1]][k[2] + 1]

IInv ==
  /\ TypeOK /\ NamesCurrent /\ HandlesOpen /\ HoldersDistinct
  /\ ActiveHeld /\ QueueExact /\ CountExact /\ ResidentOnDisk /\ CleanCached
  /\ program = "runs"

-----------------------------------------------------------------------------
\* Facts about a state.

\* block_file_name of an open descriptor is the file the kernel has behind it.
LEMMA NameIsOpened ==
  TypeOK /\ NamesCurrent =>
    \A fd \in Descriptors : opened[fd] # None => NameOf(fd) = opened[fd]
<1> SUFFICES ASSUME TypeOK, NamesCurrent, NEW fd \in Descriptors, opened[fd] # None
             PROVE  NameOf(fd) = opened[fd]
  OBVIOUS
<1>1. PICK i \in Slots : slots[i] = [fd |-> fd, file |-> opened[fd]]
  BY DEF NamesCurrent
<1>2. fd # 0
  BY StoreAssumption
<1>3. \A j \in Slots : slots[j].fd = fd => j = i
  BY <1>1, <1>2 DEF NamesCurrent
<1>4. \A j \in 1..(i - 1) : j \in Slots /\ j # i
  BY StoreAssumption DEF Slots
<1>5. i = CHOOSE j \in Slots :
            slots[j].fd = fd /\ \A m \in 1..(j - 1) : slots[m].fd # fd
  BY <1>1, <1>3, <1>4
<1> QED
  BY <1>1, <1>5 DEF NameOf

\* A held block is looked up in the pool under the place it came from.
LEMMA KeyIsPlace ==
  TypeOK /\ NamesCurrent /\ HandlesOpen =>
    \A h \in Pinned : KeyOf(handle[h]) = Place(handle[h])
<1> SUFFICES ASSUME TypeOK, NamesCurrent, HandlesOpen, NEW h \in Pinned
             PROVE  KeyOf(handle[h]) = Place(handle[h])
  OBVIOUS
<1>1. handle[h] \in Held
  BY DEF TypeOK, Pinned, IsHeld
<1>2. handle[h].fd \in Descriptors
  BY <1>1 DEF Held
<1>3. opened[handle[h].fd] # None
  BY StoreAssumption DEF HandlesOpen
<1> QED
  BY <1>2, <1>3, NameIsOpened DEF KeyOf, Place

\* The place of a held block is a key of the pool.
LEMMA PlaceType ==
  TypeOK /\ HandlesOpen => \A h \in Pinned : /\ Place(handle[h]) \in Keys
                                             /\ handle[h] \in Held
<1> SUFFICES ASSUME TypeOK, HandlesOpen, NEW h \in Pinned
             PROVE  Place(handle[h]) \in Keys /\ handle[h] \in Held
  OBVIOUS
<1>1. handle[h] \in Held
  BY DEF TypeOK, Pinned, IsHeld
<1> QED
  BY <1>1 DEF HandlesOpen, Place, Keys, Held

(* The invariants TLC checks follow from the inductive one.                *)
LEMMA InvariantsFollow == IInv => NamesCurrent /\ PoolExact /\ CacheCoherent /\ NoFault
<1> SUFFICES ASSUME IInv PROVE PoolExact /\ CacheCoherent
  BY DEF IInv, NoFault
<1>1. \A h \in Pinned : KeyOf(handle[h]) = Place(handle[h])
  BY KeyIsPlace DEF IInv
<1>2. HeldKeys = HeldPlaces
  BY <1>1 DEF HeldKeys, HeldPlaces, Pinned
<1>3. PoolExact
  BY <1>2 DEF IInv, PoolExact, ActiveHeld, QueueExact, CountExact
<1>4. CacheCoherent
  BY <1>1 DEF IInv, CacheCoherent, ResidentOnDisk, CleanCached, Pinned
<1> QED
  BY <1>3, <1>4

-----------------------------------------------------------------------------
\* The initial states.

\* An empty pool over any files on disk satisfies the invariant.
LEMMA InitHolds == Init => IInv
<1> SUFFICES ASSUME Init PROVE IInv
  OBVIOUS
<1> USE DEF Init, PoolInit
<1>1. TypeOK
  <2>1. disk \in [Files -> Seq(Contents)] /\ \A f \in Files : Len(disk[f]) <= MaxBlocks
    <3>1. \A s \in BoundedSeq(Contents, MaxBlocks) :
             s \in Seq(Contents) /\ Len(s) <= MaxBlocks
      BY PoolAssumption DEF BoundedSeq, SeqOf
    <3> QED
      BY <3>1
  <2>2. PoolTypeOK
    <3>1. <<>> \in Seq(Keys)
      BY EmptySeq
    <3> QED
      BY <3>1, PoolAssumption DEF PoolTypeOK
  <2>3. slots \in [Slots -> [fd : Descriptors \cup {0}, file : Files \cup {None}]]
    BY DEF FreeSlot
  <2> QED
    BY <2>1, <2>2, <2>3 DEF TypeOK
<1>2. NamesCurrent
  BY DEF NamesCurrent, FreeSlot
<1>3. Pinned = {} /\ With("active") = {} /\ With("inactive") = {} /\ Resident = {}
  BY DEF Pinned, IsHeld, With, Resident
<1>4. HandlesOpen /\ HoldersDistinct /\ ActiveHeld /\ ResidentOnDisk /\ CleanCached
  BY <1>3 DEF HandlesOpen, HoldersDistinct, ActiveHeld, HeldPlaces, ResidentOnDisk, CleanCached
<1>5. QueueExact
  BY <1>3 DEF QueueExact, Range, IsInjective
<1>6. CountExact
  BY <1>3, FS_EmptySet DEF CountExact
<1> QED
  BY <1>1, <1>2, <1>4, <1>5, <1>6 DEF IInv

-----------------------------------------------------------------------------
\* Opening and closing files leaves the pool alone.

\* block_file_create keeps the invariant.
LEMMA FileCreateStep ==
  ASSUME IInv, NEW f \in Files, FileCreate(f)
  PROVE  IInv'
<1> USE DEF FileCreate, poolVars
<1>1. /\ Pinned' = Pinned /\ Resident' = Resident
      /\ \A s : With(s)' = With(s)
      /\ \A h \in Pinned : Place(handle[h])' = Place(handle[h])
  BY DEF Pinned, IsHeld, Resident, With, Place
<1>2. disk' \in [Files -> Seq(Contents)] /\ \A g \in Files : Len(disk'[g]) <= MaxBlocks
  BY PoolAssumption, EmptySeq DEF IInv, TypeOK
<1>3. TypeOK'
  BY <1>2 DEF IInv, TypeOK, PoolTypeOK
<1>4. NamesCurrent'
  BY DEF IInv, NamesCurrent
<1>5. HandlesOpen'
  <2>1. \A h \in Pinned : handle[h].fd \in Descriptors
    BY PlaceType DEF IInv, Held
  <2> QED
    BY <1>1, <2>1 DEF IInv, HandlesOpen, TypeOK
<1>6. HoldersDistinct' /\ ActiveHeld'
  BY <1>1 DEF IInv, HoldersDistinct, ActiveHeld, HeldPlaces
<1>7. QueueExact' /\ CountExact'
  BY <1>1 DEF IInv, QueueExact, CountExact
<1>8. ResidentOnDisk' /\ CleanCached'
  <2>1. \A k \in Resident : k[1] \in Files /\ disk'[k[1]] = disk[k[1]]
    BY DEF IInv, TypeOK, Resident, Keys
  <2> QED
    BY <1>1, <2>1 DEF IInv, ResidentOnDisk, CleanCached
<1> QED
  BY <1>3, <1>4, <1>5, <1>6, <1>7, <1>8 DEF IInv

\* block_file_open keeps the invariant: the new slot is the only one with its descriptor.
LEMMA FileOpenStep ==
  ASSUME IInv, NEW f \in Files, NEW fd \in Descriptors, NEW i \in Slots,
         FileOpen(f, fd, i)
  PROVE  IInv'
<1> USE DEF FileOpen, poolVars
<1>1. \A h \in Pinned : handle[h].fd \in Descriptors /\ handle[h].fd # fd
  BY StoreAssumption, PlaceType DEF IInv, Held, HandlesOpen
<1>2. /\ Pinned' = Pinned /\ Resident' = Resident
      /\ \A s : With(s)' = With(s)
      /\ \A h \in Pinned : Place(handle[h])' = Place(handle[h])
  BY <1>1 DEF Pinned, IsHeld, Resident, With, Place, IInv, TypeOK
<1>3. TypeOK'
  BY DEF IInv, TypeOK, PoolTypeOK
<1>4. NamesCurrent'
  <2>1. fd # 0 /\ \A j \in Slots : slots[j].fd # fd
    BY StoreAssumption DEF IInv, NamesCurrent, TypeOK
  <2>2. slots'[i] = [fd |-> fd, file |-> f] /\ \A j \in Slots \ {i} : slots'[j] = slots[j]
    BY DEF IInv, TypeOK
  <2>3. \A e \in Descriptors : opened'[e] = IF e = fd THEN f ELSE opened[e]
    BY DEF IInv, TypeOK
  <2>4. ASSUME NEW e \in Descriptors, opened'[e] # None
        PROVE  \E j \in Slots : slots'[j] = [fd |-> e, file |-> opened'[e]]
    <3>1. CASE e = fd
      BY <2>2, <2>3, <3>1
    <3>2. CASE e # fd
      <4>1. PICK j \in Slots : slots[j] = [fd |-> e, file |-> opened[e]]
        BY <2>3, <2>4, <3>2 DEF IInv, NamesCurrent
      <4>2. j # i
        BY <4>1, StoreAssumption
      <4> QED
        BY <2>2, <2>3, <3>2, <4>1, <4>2
    <3> QED
      BY <3>1, <3>2
  <2>5. \A j \in Slots : slots'[j].fd # 0 =>
         slots'[j].file \in Files /\ opened'[slots'[j].fd] = slots'[j].file
    <3>1. \A j \in Slots : slots[j].fd # 0 => slots[j].fd \in Descriptors
      BY DEF IInv, TypeOK
    <3> QED
      BY <2>1, <2>2, <2>3, <3>1 DEF IInv, NamesCurrent
  <2>6. \A j, m \in Slots : slots'[j].fd = slots'[m].fd /\ slots'[j].fd # 0 => j = m
    BY <2>1, <2>2 DEF IInv, NamesCurrent
  <2> QED
    BY <2>4, <2>5, <2>6 DEF NamesCurrent
<1>5. HandlesOpen' /\ HoldersDistinct' /\ ActiveHeld'
  BY <1>1, <1>2 DEF IInv, HandlesOpen, HoldersDistinct, ActiveHeld, HeldPlaces, TypeOK
<1>6. QueueExact' /\ CountExact'
  BY <1>2 DEF IInv, QueueExact, CountExact
<1>7. ResidentOnDisk' /\ CleanCached'
  BY <1>2 DEF IInv, ResidentOnDisk, CleanCached
<1> QED
  BY <1>3, <1>4, <1>5, <1>6, <1>7 DEF IInv

\* block_file_close keeps the invariant: nothing held refers to the freed slot.
LEMMA FileCloseStep ==
  ASSUME IInv, NEW fd \in Descriptors, NEW i \in Slots, FileClose(fd, i)
  PROVE  IInv'
<1> USE DEF FileClose, poolVars
<1>1. \A h \in Pinned : handle[h].fd \in Descriptors /\ handle[h].fd # fd
  BY PlaceType DEF IInv, Held, Pinned
<1>2. /\ Pinned' = Pinned /\ Resident' = Resident
      /\ \A s : With(s)' = With(s)
      /\ \A h \in Pinned : Place(handle[h])' = Place(handle[h])
  BY <1>1 DEF Pinned, IsHeld, Resident, With, Place, IInv, TypeOK
<1>3. TypeOK'
  BY DEF IInv, TypeOK, PoolTypeOK, FreeSlot
<1>4. NamesCurrent'
  <2>1. slots'[i] = FreeSlot /\ \A j \in Slots \ {i} : slots'[j] = slots[j] /\ slots[j].fd # fd
    BY StoreAssumption DEF IInv, TypeOK, NamesCurrent
  <2>2. \A e \in Descriptors : opened'[e] = IF e = fd THEN None ELSE opened[e]
    BY DEF IInv, TypeOK
  <2>3. ASSUME NEW e \in Descriptors, opened'[e] # None
        PROVE  \E j \in Slots : slots'[j] = [fd |-> e, file |-> opened'[e]]
    <3>1. e # fd
      BY <2>2, <2>3
    <3>2. PICK j \in Slots : slots[j] = [fd |-> e, file |-> opened[e]]
      BY <2>2, <2>3, <3>1 DEF IInv, NamesCurrent
    <3> QED
      BY <2>1, <2>2, <3>1, <3>2
  <2>4. \A j \in Slots : slots'[j].fd # 0 =>
         slots'[j].file \in Files /\ opened'[slots'[j].fd] = slots'[j].file
    <3>1. \A j \in Slots : slots[j].fd # 0 => slots[j].fd \in Descriptors
      BY DEF IInv, TypeOK
    <3> QED
      BY <2>1, <2>2, <3>1 DEF IInv, NamesCurrent, FreeSlot
  <2>5. \A j, m \in Slots : slots'[j].fd = slots'[m].fd /\ slots'[j].fd # 0 => j = m
    BY <2>1 DEF IInv, NamesCurrent, FreeSlot
  <2> QED
    BY <2>3, <2>4, <2>5 DEF NamesCurrent
<1>5. HandlesOpen' /\ HoldersDistinct' /\ ActiveHeld'
  BY <1>1, <1>2 DEF IInv, HandlesOpen, HoldersDistinct, ActiveHeld, HeldPlaces, TypeOK
<1>6. QueueExact' /\ CountExact'
  BY <1>2 DEF IInv, QueueExact, CountExact
<1>7. ResidentOnDisk' /\ CleanCached'
  BY <1>2 DEF IInv, ResidentOnDisk, CleanCached
<1> QED
  BY <1>3, <1>4, <1>5, <1>6, <1>7 DEF IInv

-----------------------------------------------------------------------------
\* A handle takes a block that no other handle holds.

\* A handle that takes a place nobody holds adds just that place to the held ones.
LEMMA TakeHandle ==
  ASSUME TypeOK, HandlesOpen, HoldersDistinct, CountExact, opened' = opened,
         NEW h \in Handles, ~IsHeld(h), NEW fd \in Descriptors,
         opened[fd] \in Files, NEW n \in 0..(MaxBlocks - 1),
         <<opened[fd], n>> \notin HeldPlaces,
         handle' = [handle EXCEPT ![h] = [fd |-> fd, number |-> n, bit |-> 0]]
  PROVE  /\ handle' \in [Handles -> Held \cup {Free}]
         /\ h \notin Pinned /\ Pinned' = Pinned \cup {h}
         /\ \A g \in Pinned : handle'[g] = handle[g]
         /\ HeldPlaces' = HeldPlaces \cup {<<opened[fd], n>>}
         /\ HoldersDistinct'
         /\ Cardinality(Pinned') = count + 1
<1> DEFINE b == [fd |-> fd, number |-> n, bit |-> 0]
<1>1. b \in Held /\ b # Free /\ handle'[h] = b
  BY StoreAssumption DEF Held, TypeOK
<1>2. handle' \in [Handles -> Held \cup {Free}] /\ \A g \in Handles \ {h} : handle'[g] = handle[g]
  BY <1>1 DEF TypeOK
<1>3. h \notin Pinned /\ Pinned' = Pinned \cup {h}
  BY <1>1, <1>2 DEF Pinned, IsHeld
<1>4. \A g \in Pinned : g # h /\ handle'[g] = handle[g] /\ Place(handle[g])' = Place(handle[g])
  BY <1>2, <1>3 DEF Pinned, Place
<1>5. Place(handle[h])' = <<opened[fd], n>>
  BY <1>1 DEF Place
<1>6. HeldPlaces' = HeldPlaces \cup {<<opened[fd], n>>}
  BY <1>3, <1>4, <1>5 DEF HeldPlaces
<1>7. HoldersDistinct'
  <2> SUFFICES ASSUME NEW g \in Pinned', NEW k \in Pinned',
                      Place(handle[g])' = Place(handle[k])'
               PROVE  g = k
    BY DEF HoldersDistinct
  <2>1. CASE g \in Pinned /\ k \in Pinned
    BY <1>4, <2>1 DEF HoldersDistinct
  <2>2. CASE g = h /\ k \in Pinned
    BY <1>4, <1>5, <2>2 DEF HeldPlaces
  <2>3. CASE k = h /\ g \in Pinned
    BY <1>4, <1>5, <2>3 DEF HeldPlaces
  <2> QED
    BY <1>3, <2>1, <2>2, <2>3
<1>8. Cardinality(Pinned') = count + 1
  <2>1. IsFiniteSet(Pinned)
    BY StoreAssumption, FS_Subset DEF Pinned
  <2> QED
    BY <1>3, <2>1, FS_AddElement DEF CountExact
<1> QED
  BY <1>2, <1>3, <1>4, <1>6, <1>7, <1>8

(* While a handle is free, not every place of the pool is in use, so an     *)
(* insertion evicts nothing.                                                *)
LEMMA NotFull ==
  ASSUME IInv, PinsFit, NEW h \in Handles, ~IsHeld(h)
  PROVE  Victims = {}
<1>1. IsFiniteSet(Pinned) /\ Pinned \cup {h} \in SUBSET Handles /\ h \notin Pinned
  BY StoreAssumption, FS_Subset DEF Pinned
<1>2. Cardinality(Pinned \cup {h}) = Cardinality(Pinned) + 1
  BY <1>1, FS_AddElement
<1>3. Cardinality(Pinned \cup {h}) <= Cardinality(Handles)
  BY <1>1, StoreAssumption, FS_Subset
<1>4. Cardinality(Handles) \in Nat /\ Cardinality(Pinned) \in Nat
  BY <1>1, StoreAssumption, FS_CardinalityType
<1>5. count < Size
  BY <1>2, <1>3, <1>4, PoolAssumption DEF IInv, CountExact, PinsFit
<1> QED
  BY <1>5, PoolAssumption DEF Victims, IInv, TypeOK, PoolTypeOK

(* The pool's side of taking a block, whether it was cached or is inserted. *)
LEMMA TakeBlock ==
  ASSUME IInv, NEW k \in Keys, k \notin HeldPlaces, NEW c \in Contents,
         status' = [status EXCEPT ![k] = "active"],
         array' = [array EXCEPT ![k] = c],
         count' = count + 1,
         pq' = IF status[k] = "inactive" THEN PqRemove(pq, k) ELSE pq,
         program' = program
  PROVE  /\ PoolTypeOK' /\ QueueExact'
         /\ With("active")' = With("active") \cup {k}
         /\ IsFiniteSet(With("active")')
         /\ Cardinality(With("active")') = count + 1
         /\ Resident' = Resident \cup {k}
<1> USE DEF IInv, TypeOK, PoolTypeOK
<1>1. status' \in [Keys -> {"absent", "active", "inactive"}] /\ array' \in [Keys -> Contents]
  OBVIOUS
<1>2. /\ k \notin With("active") /\ With("active")' = With("active") \cup {k}
      /\ With("inactive")' = With("inactive") \ {k}
      /\ Resident' = Resident \cup {k}
  BY DEF With, Resident, ActiveHeld
<1>3. IsFiniteSet(With("active")') /\ Cardinality(With("active")') = count + 1
  BY <1>2, FS_AddElement DEF CountExact
<1>4. pq' \in Seq(Keys) /\ QueueExact'
  <2>1. CASE status[k] = "inactive"
    <3>1. k \in Range(pq) /\ IsInjective(pq)
      BY <2>1 DEF QueueExact, With
    <3>2. pq \in Seq(Keys) /\ pq' = PqRemove(pq, k)
      BY <2>1
    <3>3. /\ pq' \in Seq(Keys) /\ IsInjective(pq')
          /\ Range(pq') = Range(pq) \ {k}
      BY <3>1, <3>2, PqRemoveProperties
    <3> QED
      BY <1>2, <3>3 DEF QueueExact
  <2>2. CASE status[k] # "inactive"
    <3>1. With("inactive")' = With("inactive")
      BY <1>2, <2>2 DEF With
    <3> QED
      BY <2>2, <3>1 DEF QueueExact
  <2> QED
    BY <2>1, <2>2
<1> QED
  BY <1>1, <1>2, <1>3, <1>4

\* block_allocate keeps the invariant.
LEMMA BlockAllocateStep ==
  ASSUME IInv, PinsFit, NEW h \in Handles, NEW fd \in Descriptors,
         BlockAllocate(h, fd)
  PROVE  IInv'
<1> DEFINE f == opened[fd]
           n == Len(disk[f])
           k == <<f, n>>
<1> USE DEF BlockAllocate, BlocksOf
<1>1. NameOf(fd) = f /\ f \in Files
  BY NameIsOpened DEF IInv, TypeOK
<1>2. n \in 0..(MaxBlocks - 1) /\ k \in Keys
  BY <1>1, PoolAssumption, LenProperties DEF IInv, TypeOK, Keys
<1>3. status[k] = "absent"
  BY <1>1, <1>2 DEF IInv, ResidentOnDisk, Resident, With
<1>4. k \notin HeldPlaces
  BY <1>3 DEF IInv, ActiveHeld, With
<1>5. Insert(k, Zero) /\ Victims = {}
  BY <1>1, NotFull
<1>6. /\ status' = [status EXCEPT ![k] = "active"]
      /\ array' = [array EXCEPT ![k] = Zero]
      /\ count' = count + 1 /\ pq' = pq /\ program' = program
  BY <1>5 DEF Insert, IInv, TypeOK, PoolTypeOK
<1>7. /\ PoolTypeOK' /\ QueueExact' /\ With("active")' = With("active") \cup {k}
      /\ IsFiniteSet(With("active")') /\ Cardinality(With("active")') = count + 1
      /\ Resident' = Resident \cup {k}
  BY <1>2, <1>3, <1>4, <1>6, PoolAssumption, TakeBlock
<1>8. /\ handle' \in [Handles -> Held \cup {Free}]
      /\ h \notin Pinned /\ Pinned' = Pinned \cup {h}
      /\ \A g \in Pinned : handle'[g] = handle[g]
      /\ HeldPlaces' = HeldPlaces \cup {k}
      /\ HoldersDistinct'
      /\ Cardinality(Pinned') = count + 1
  BY <1>1, <1>2, <1>4, TakeHandle DEF IInv
<1>9. /\ disk' \in [Files -> Seq(Contents)]
      /\ Len(disk'[f]) = n + 1 /\ disk'[f][n + 1] = Zero
      /\ \A i \in 1..n : disk'[f][i] = disk[f][i]
      /\ \A g \in Files \ {f} : disk'[g] = disk[g]
  <2>1. disk[f] \in Seq(Contents)
    BY <1>1 DEF IInv, TypeOK
  <2>2. disk' = [disk EXCEPT ![f] = Append(disk[f], Zero)]
    OBVIOUS
  <2>3. disk'[f] = Append(disk[f], Zero) /\ \A g \in Files \ {f} : disk'[g] = disk[g]
    BY <1>1, <2>2 DEF IInv, TypeOK
  <2>4. disk' \in [Files -> Seq(Contents)]
    BY <1>1, <2>1, <2>2, PoolAssumption, AppendProperties DEF IInv, TypeOK
  <2> QED
    BY <2>1, <2>3, <2>4, PoolAssumption, AppendProperties
<1> HIDE DEF f, n, k
<1>10. TypeOK'
  <2>1. \A g \in Files : Len(disk'[g]) <= MaxBlocks
    BY <1>2, <1>9, PoolAssumption DEF IInv, TypeOK
  <2> QED
    BY <1>7, <1>8, <1>9, <2>1 DEF IInv, TypeOK
<1>11. NamesCurrent'
  BY DEF IInv, NamesCurrent
<1>12. HandlesOpen'
  <2>1. handle'[h] = [fd |-> fd, number |-> n, bit |-> 0]
    BY DEF IInv, TypeOK, n, f
  <2>2. \A g \in Pinned : /\ opened'[handle'[g].fd] \in Files
                          /\ handle'[g].number < Len(disk'[opened'[handle'[g].fd]])
    <3>1. ASSUME NEW g \in Pinned
          PROVE  /\ opened[handle[g].fd] \in Files
                 /\ handle[g].number < Len(disk'[opened[handle[g].fd]])
      <4>1. handle[g] \in Held /\ opened[handle[g].fd] \in Files
            /\ handle[g].number < Len(disk[opened[handle[g].fd]])
        BY PlaceType DEF IInv, HandlesOpen
      <4>2. CASE opened[handle[g].fd] = f
        BY <1>2, <1>9, <4>1, <4>2 DEF Held, n
      <4>3. CASE opened[handle[g].fd] # f
        BY <1>9, <4>1, <4>3
      <4> QED
        BY <4>2, <4>3
    <3> QED
      BY <1>8, <3>1
  <2>3. opened'[fd] \in Files /\ n < Len(disk'[opened'[fd]])
    BY <1>1, <1>2, <1>9 DEF f
  <2> QED
    BY <1>8, <2>1, <2>2, <2>3 DEF HandlesOpen
<1>13. ActiveHeld' /\ CountExact'
  BY <1>6, <1>7, <1>8 DEF IInv, ActiveHeld, CountExact
<1>14. ResidentOnDisk'
  <2>1. ASSUME NEW j \in Resident PROVE j[2] < Len(disk'[j[1]])
    <3>1. j \in Keys /\ j[1] \in Files /\ j[2] \in Nat /\ j[2] < Len(disk[j[1]])
      BY DEF IInv, ResidentOnDisk, Resident, Keys
    <3> QED
      BY <1>2, <1>9, <3>1 DEF n
  <2>2. k[2] < Len(disk'[k[1]])
    BY <1>2, <1>9 DEF k
  <2> QED
    BY <1>7, <2>1, <2>2 DEF ResidentOnDisk
<1>15. CleanCached'
  <2>1. ASSUME NEW j \in Resident
        PROVE  \/ \E g \in Pinned' : handle'[g].bit = 1 /\ Place(handle[g])' = j
               \/ array'[j] = disk'[j[1]][j[2] + 1]
    <3>1. j \in Keys /\ j # k /\ array'[j] = array[j]
      BY <1>2, <1>3, <1>6 DEF IInv, TypeOK, PoolTypeOK, Resident, With
    <3>2. CASE \E g \in Pinned : handle[g].bit = 1 /\ Place(handle[g]) = j
      BY <1>8, <3>2 DEF Place
    <3>3. CASE array[j] = disk[j[1]][j[2] + 1]
      <4>1. j[1] \in Files /\ j[2] \in Nat /\ j[2] < Len(disk[j[1]])
        BY <3>1 DEF IInv, ResidentOnDisk, Keys
      <4>2. disk'[j[1]][j[2] + 1] = disk[j[1]][j[2] + 1]
        BY <1>2, <1>9, <4>1 DEF n
      <4> QED
        BY <3>1, <3>3, <4>2
    <3> QED
      BY <3>2, <3>3 DEF IInv, CleanCached
  <2>2. array'[k] = disk'[k[1]][k[2] + 1]
    BY <1>2, <1>6, <1>9 DEF IInv, TypeOK, PoolTypeOK, k
  <2> QED
    BY <1>7, <2>1, <2>2 DEF CleanCached
<1> QED
  BY <1>6, <1>7, <1>8, <1>10, <1>11, <1>12, <1>13, <1>14, <1>15 DEF IInv

(* block_get, from the cache or from disk: in both cases the handle shares *)
(* an array that holds what is on disk.                                    *)
LEMMA GetStep ==
  ASSUME IInv, NEW h \in Handles, NEW fd \in Descriptors,
         NEW n \in 0..(MaxBlocks - 1), MayGet(h, fd, n),
         status' = [status EXCEPT ![<<NameOf(fd), n>>] = "active"],
         array' = [array EXCEPT ![<<NameOf(fd), n>>] = disk[opened[fd]][n + 1]],
         count' = count + 1,
         pq' = IF status[<<NameOf(fd), n>>] = "inactive"
               THEN PqRemove(pq, <<NameOf(fd), n>>) ELSE pq,
         program' = program
  PROVE  IInv'
<1> DEFINE f == opened[fd]
           k == <<f, n>>
<1> USE DEF MayGet, BlocksOf
<1>1. NameOf(fd) = f /\ f \in Files /\ k \in Keys /\ n < Len(disk[f])
  BY NameIsOpened DEF IInv, TypeOK, Keys
<1>2. HeldKeys = HeldPlaces
  BY KeyIsPlace DEF IInv, HeldKeys, HeldPlaces, Pinned
<1>3. k \notin HeldPlaces /\ disk[f][n + 1] \in Contents
  BY <1>1, <1>2, ElementOfSeq, LenProperties DEF IInv, TypeOK
<1>4. /\ PoolTypeOK' /\ QueueExact' /\ With("active")' = With("active") \cup {k}
      /\ IsFiniteSet(With("active")') /\ Cardinality(With("active")') = count + 1
      /\ Resident' = Resident \cup {k}
  BY <1>1, <1>3, TakeBlock
<1>5. /\ handle' \in [Handles -> Held \cup {Free}]
      /\ Pinned' = Pinned \cup {h}
      /\ \A g \in Pinned : handle'[g] = handle[g]
      /\ HeldPlaces' = HeldPlaces \cup {k}
      /\ HoldersDistinct'
      /\ Cardinality(Pinned') = count + 1
  BY <1>1, <1>3, TakeHandle DEF IInv
<1>6. array'[k] = disk[f][n + 1] /\ \A j \in Keys \ {k} : array'[j] = array[j]
  BY <1>1 DEF IInv, TypeOK, PoolTypeOK
<1>7. handle'[h] = [fd |-> fd, number |-> n, bit |-> 0]
  BY DEF IInv, TypeOK
<1> HIDE DEF f, k
<1>8. TypeOK' /\ NamesCurrent'
  BY <1>4, <1>5 DEF IInv, TypeOK, NamesCurrent
<1>9. HandlesOpen'
  BY <1>1, <1>5, <1>7 DEF IInv, HandlesOpen, f
<1>10. ActiveHeld' /\ CountExact'
  BY <1>4, <1>5 DEF IInv, ActiveHeld, CountExact
<1>11. ResidentOnDisk'
  BY <1>1, <1>4 DEF IInv, ResidentOnDisk, k
<1>12. CleanCached'
  <2>1. ASSUME NEW j \in Resident, j # k
        PROVE  \/ \E g \in Pinned' : handle'[g].bit = 1 /\ Place(handle[g])' = j
               \/ array'[j] = disk'[j[1]][j[2] + 1]
    <3>1. j \in Keys
      BY DEF Resident
    <3>2. CASE \E g \in Pinned : handle[g].bit = 1 /\ Place(handle[g]) = j
      BY <1>5, <3>2 DEF Place
    <3>3. CASE array[j] = disk[j[1]][j[2] + 1]
      BY <1>6, <2>1, <3>1, <3>3
    <3> QED
      BY <3>2, <3>3 DEF IInv, CleanCached
  <2>2. array'[k] = disk'[k[1]][k[2] + 1]
    BY <1>6 DEF k
  <2> QED
    BY <1>4, <2>1, <2>2 DEF CleanCached
<1> QED
  BY <1>4, <1>5, <1>8, <1>9, <1>10, <1>11, <1>12 DEF IInv

\* block_get of an uncached block keeps the invariant.
LEMMA BlockGetReadStep ==
  ASSUME IInv, PinsFit, NEW h \in Handles, NEW fd \in Descriptors,
         NEW n \in 0..(MaxBlocks - 1), BlockGetRead(h, fd, n)
  PROVE  IInv'
<1> DEFINE k == <<NameOf(fd), n>>
<1>1. MayGet(h, fd, n) /\ status[k] = "absent" /\ Insert(k, disk[opened[fd]][n + 1])
  BY DEF BlockGetRead
<1>2. Victims = {}
  BY <1>1, NotFull DEF MayGet
<1>3. /\ status' = [status EXCEPT ![k] = "active"]
      /\ array' = [array EXCEPT ![k] = disk[opened[fd]][n + 1]]
      /\ count' = count + 1 /\ pq' = pq /\ program' = program
  BY <1>1, <1>2 DEF Insert, IInv, TypeOK, PoolTypeOK
<1> QED
  BY <1>1, <1>3, GetStep

\* block_get of a cached block keeps the invariant: its queue entry goes.
LEMMA BlockGetCachedStep ==
  ASSUME IInv, NEW h \in Handles, NEW fd \in Descriptors,
         NEW n \in 0..(MaxBlocks - 1), BlockGetCached(h, fd, n)
  PROVE  IInv'
<1> DEFINE k == <<NameOf(fd), n>>
<1>1. MayGet(h, fd, n) /\ Allocate(k)
  BY DEF BlockGetCached
<1>2. NameOf(fd) = opened[fd] /\ k \in Keys
  BY <1>1, NameIsOpened DEF IInv, TypeOK, Keys, MayGet
<1>3. HeldKeys = HeldPlaces
  BY KeyIsPlace DEF IInv, HeldKeys, HeldPlaces, Pinned
<1>4. status[k] = "inactive"
  BY <1>1, <1>2, <1>3 DEF IInv, TypeOK, PoolTypeOK, ActiveHeld, With, MayGet, Allocate
<1>5. pq # <<>>
  BY <1>2, <1>4 DEF IInv, QueueExact, With, Range
<1>6. array[k] = disk[opened[fd]][n + 1]
  <2>1. k \in Resident /\ k \notin HeldPlaces
    BY <1>1, <1>2, <1>3, <1>4 DEF Resident, With, MayGet
  <2> QED
    BY <1>2, <2>1 DEF IInv, CleanCached, HeldPlaces
<1>7. array' = [array EXCEPT ![k] = disk[opened[fd]][n + 1]]
  BY <1>1, <1>2, <1>6 DEF Allocate, IInv, TypeOK, PoolTypeOK
<1> QED
  BY <1>1, <1>4, <1>5, <1>7, GetStep DEF Allocate

-----------------------------------------------------------------------------
\* Editing a held block and giving it back.

\* An edit followed by block_set_dirty keeps the invariant.
LEMMA BlockSetDirtyStep ==
  ASSUME IInv, NEW h \in Handles, NEW c \in Contents, BlockSetDirty(h, c)
  PROVE  IInv'
<1> DEFINE k == Place(handle[h])
<1> USE DEF BlockSetDirty
<1>1. h \in Pinned /\ KeyOf(handle[h]) = k /\ k \in Keys /\ handle[h] \in Held
  BY KeyIsPlace, PlaceType DEF IInv, Pinned
<1>2. status[k] = "active"
  BY <1>1 DEF IInv, ActiveHeld, HeldPlaces, With
<1>3. program' = program /\ array' = [array EXCEPT ![k] = c]
  BY <1>1, <1>2
<1>4. /\ handle' \in [Handles -> Held \cup {Free}]
      /\ handle'[h] \in Held /\ handle'[h].bit = 1
      /\ handle'[h].fd = handle[h].fd /\ handle'[h].number = handle[h].number
      /\ \A g \in Handles \ {h} : handle'[g] = handle[g]
  BY <1>1 DEF IInv, TypeOK, Held
<1>5. /\ Pinned' = Pinned /\ \A s : With(s)' = With(s)
      /\ Resident' = Resident
      /\ \A g \in Pinned : Place(handle[g])' = Place(handle[g])
  BY <1>1, <1>4, StoreAssumption DEF Pinned, IsHeld, With, Resident, Place
<1>6. TypeOK' /\ NamesCurrent'
  BY <1>1, <1>3, <1>4 DEF IInv, TypeOK, PoolTypeOK, NamesCurrent
<1>7. HandlesOpen'
  BY <1>1, <1>4, <1>5 DEF IInv, HandlesOpen
<1>8. HoldersDistinct' /\ ActiveHeld' /\ QueueExact' /\ CountExact' /\ ResidentOnDisk'
  <2>1. HeldPlaces' = HeldPlaces
    BY <1>5 DEF HeldPlaces
  <2>2. HoldersDistinct'
    BY <1>5 DEF IInv, HoldersDistinct
  <2>3. ActiveHeld' /\ CountExact'
    BY <1>5, <2>1 DEF IInv, ActiveHeld, CountExact
  <2>4. QueueExact' /\ ResidentOnDisk'
    BY <1>5 DEF IInv, QueueExact, ResidentOnDisk
  <2> QED
    BY <2>2, <2>3, <2>4
<1>9. CleanCached'
  <2> SUFFICES ASSUME NEW j \in Resident
               PROVE  \/ \E g \in Pinned : handle'[g].bit = 1 /\ Place(handle[g])' = j
                      \/ array'[j] = disk[j[1]][j[2] + 1]
    BY <1>5 DEF CleanCached
  <2>1. CASE j = k
    BY <1>1, <1>4, <1>5, <2>1
  <2>2. CASE j # k
    <3>1. array'[j] = array[j]
      BY <1>1, <1>3, <2>2 DEF IInv, TypeOK, PoolTypeOK, Resident
    <3>2. \A g \in Pinned : handle[g].bit = 1 => handle'[g].bit = 1
      BY <1>4 DEF Pinned
    <3> QED
      BY <1>5, <3>1, <3>2 DEF IInv, CleanCached
  <2> QED
    BY <2>1, <2>2
<1> QED
  BY <1>3, <1>6, <1>7, <1>8, <1>9 DEF IInv

\* block_unpin keeps the invariant: what leaves the held ones is clean and queued.
LEMMA BlockUnpinStep ==
  ASSUME IInv, NEW h \in Handles, BlockUnpin(h)
  PROVE  IInv'
<1> DEFINE b == handle[h]
           f == opened[b.fd]
           k == Place(b)
<1> USE DEF BlockUnpin
<1>1. h \in Pinned /\ KeyOf(b) = k /\ k \in Keys /\ b \in Held
  BY KeyIsPlace, PlaceType DEF IInv, Pinned
<1>2. f \in Files /\ b.number \in 0..(MaxBlocks - 1) /\ b.number < Len(disk[f])
  BY <1>1 DEF IInv, HandlesOpen, Held
<1>3. status[k] = "active"
  BY <1>1 DEF IInv, ActiveHeld, HeldPlaces, With
<1>4. /\ status' = [status EXCEPT ![k] = "inactive"] /\ pq' = PqInsert(pq, k)
      /\ count' = count - 1 /\ program' = program /\ array' = array
  BY <1>1, <1>3 DEF SetInactive
<1>5. /\ handle' \in [Handles -> Held \cup {Free}]
      /\ Pinned' = Pinned \ {h}
      /\ \A g \in Pinned \ {h} : /\ handle'[g] = handle[g]
                                 /\ Place(handle[g])' = Place(handle[g])
  BY DEF IInv, TypeOK, Pinned, IsHeld, Place
<1>6. HeldPlaces' = HeldPlaces \ {k}
  BY <1>1, <1>5 DEF IInv, HeldPlaces, HoldersDistinct
<1>7. /\ With("active")' = With("active") \ {k} /\ k \in With("active")
      /\ With("inactive")' = With("inactive") \cup {k}
      /\ k \notin With("inactive")
      /\ Resident' = Resident
  BY <1>1, <1>3, <1>4 DEF IInv, TypeOK, PoolTypeOK, With, Resident
<1>8. pq' \in Seq(Keys) /\ QueueExact'
  <2>1. pq \in Seq(Keys) /\ Range(pq) = With("inactive") /\ IsInjective(pq)
    BY DEF IInv, TypeOK, PoolTypeOK, QueueExact
  <2>2. /\ pq' \in Seq(Keys) /\ Range(pq') = Range(pq) \cup {k} /\ IsInjective(pq')
    BY <1>1, <1>4, <1>7, <2>1, PqInsertProperties
  <2> QED
    BY <1>7, <2>1, <2>2 DEF QueueExact
<1>9. CountExact'
  <2>1. IsFiniteSet(Pinned)
    BY StoreAssumption, FS_Subset DEF Pinned
  <2>2. Cardinality(Pinned \ {h}) = count - 1
    BY <1>1, <2>1, FS_RemoveElement DEF IInv, CountExact
  <2>3. /\ IsFiniteSet(With("active") \ {k})
        /\ Cardinality(With("active") \ {k}) = count - 1
    BY <1>7, FS_RemoveElement DEF IInv, CountExact
  <2> QED
    BY <1>4, <1>5, <1>7, <2>2, <2>3 DEF CountExact
<1>10. /\ disk' \in [Files -> Seq(Contents)]
       /\ \A g \in Files : Len(disk'[g]) = Len(disk[g])
       /\ \A g \in Files, i \in Nat :
            <<g, i>> # k /\ i < Len(disk[g]) => disk'[g][i + 1] = disk[g][i + 1]
       /\ b.bit = 1 => disk'[f][b.number + 1] = array[k]
  <2>1. CASE b.bit = 0
    BY <2>1 DEF IInv, TypeOK
  <2>2. CASE b.bit = 1
    <3>1. array[k] \in Contents /\ b.number + 1 \in 1..Len(disk[f]) /\ disk[f] \in Seq(Contents)
      BY <1>1, <1>2, LenProperties DEF IInv, TypeOK, PoolTypeOK
    <3>2. disk' = [disk EXCEPT ![f] = [disk[f] EXCEPT ![b.number + 1] = array[k]]]
      BY <1>1, <2>2
    <3>3. /\ disk'[f] = [disk[f] EXCEPT ![b.number + 1] = array[k]]
          /\ \A g \in Files \ {f} : disk'[g] = disk[g]
      BY <1>2, <3>2 DEF IInv, TypeOK
    <3>4. /\ disk'[f] \in Seq(Contents) /\ Len(disk'[f]) = Len(disk[f])
          /\ \A i \in 1..Len(disk[f]) :
               disk'[f][i] = IF i = b.number + 1 THEN array[k] ELSE disk[f][i]
      BY <3>1, <3>3, ExceptSeq, SMTT(30)
    <3>5. disk' \in [Files -> Seq(Contents)]
      BY <1>2, <3>2, <3>3, <3>4 DEF IInv, TypeOK
    <3>6. ASSUME NEW g \in Files, NEW i \in Nat, <<g, i>> # k, i < Len(disk[g])
          PROVE  disk'[g][i + 1] = disk[g][i + 1]
      <4>1. CASE g # f
        BY <3>3, <4>1
      <4>2. CASE g = f
        <5>1. i # b.number /\ i + 1 \in 1..Len(disk[f]) /\ i + 1 # b.number + 1
          BY <1>2, <3>1, <3>6, <4>2, LenProperties DEF Place
        <5> QED
          BY <3>4, <4>2, <5>1
      <4> QED
        BY <4>1, <4>2
    <3> QED
      BY <1>2, <3>1, <3>3, <3>4, <3>5, <3>6, ZenonT(30)
  <2> QED
    BY <1>1, <2>1, <2>2, SMTT(30) DEF Held
<1> HIDE DEF b, f, k
<1>11. TypeOK' /\ NamesCurrent'
  <2>1. PoolTypeOK'
    BY <1>1, <1>4, <1>8 DEF IInv, TypeOK, PoolTypeOK
  <2>2. TypeOK'
    BY <1>5, <1>10, <2>1 DEF IInv, TypeOK
  <2>3. NamesCurrent'
    BY DEF IInv, NamesCurrent
  <2> QED
    BY <2>2, <2>3
<1>12. HandlesOpen' /\ HoldersDistinct' /\ ActiveHeld'
  <2>1. HandlesOpen'
    BY <1>5, <1>10 DEF IInv, HandlesOpen
  <2>2. HoldersDistinct'
    BY <1>5 DEF IInv, HoldersDistinct
  <2>3. ActiveHeld'
    BY <1>6, <1>7 DEF IInv, ActiveHeld
  <2> QED
    BY <2>1, <2>2, <2>3
<1>13. ResidentOnDisk'
  BY <1>7, <1>10 DEF IInv, ResidentOnDisk, Resident, Keys
<1>14. CleanCached'
  <2> SUFFICES ASSUME NEW j \in Resident
               PROVE  \/ \E g \in Pinned' : handle'[g].bit = 1 /\ Place(handle[g])' = j
                      \/ array[j] = disk'[j[1]][j[2] + 1]
    BY <1>4, <1>7 DEF CleanCached
  <2>1. /\ j[1] \in Files /\ j[2] \in Nat /\ j = <<j[1], j[2]>>
        /\ j[2] < Len(disk[j[1]])
    BY DEF IInv, ResidentOnDisk, Resident, Keys
  <2>2. CASE j = k /\ b.bit = 1
    BY <1>10, <2>2 DEF k, f, b, Place
  <2>3. CASE j = k /\ b.bit = 0
    <3>1. disk' = disk
      BY <2>3 DEF b
    <3>2. ~\E g \in Pinned : handle[g].bit = 1 /\ Place(handle[g]) = j
      BY <1>1, <2>3 DEF IInv, HoldersDistinct, k, b
    <3> QED
      BY <3>1, <3>2 DEF IInv, CleanCached
  <2>4. CASE j # k
    <3>1. disk'[j[1]][j[2] + 1] = disk[j[1]][j[2] + 1]
      BY <1>10, <2>1, <2>4
    <3>2. ASSUME NEW g \in Pinned, handle[g].bit = 1, Place(handle[g]) = j
          PROVE  g \in Pinned' /\ handle'[g].bit = 1 /\ Place(handle[g])' = j
      BY <1>5, <2>4, <3>2 DEF k, b
    <3> QED
      BY <3>1, <3>2 DEF IInv, CleanCached
  <2> QED
    BY <1>1, <2>2, <2>3, <2>4 DEF Held
<1> QED
  BY <1>4, <1>8, <1>9, <1>11, <1>12, <1>13, <1>14 DEF IInv

-----------------------------------------------------------------------------
\* Every step of the store keeps the invariant.
LEMMA NextPreserves == PinsFit /\ IInv /\ [Next]_vars => IInv'
<1> SUFFICES ASSUME PinsFit, IInv, [Next]_vars PROVE IInv'
  OBVIOUS
<1>1. CASE UNCHANGED vars
  BY <1>1 DEF vars, IInv, TypeOK, PoolTypeOK, NamesCurrent, HandlesOpen,
       HoldersDistinct, ActiveHeld, HeldPlaces, Place, QueueExact, CountExact,
       ResidentOnDisk, CleanCached, Pinned, IsHeld, With, Resident
<1>2. CASE Next
  BY <1>2, FileCreateStep, FileOpenStep, FileCloseStep, BlockAllocateStep,
     BlockGetCachedStep, BlockGetReadStep, BlockSetDirtyStep, BlockUnpinStep DEF Next
<1> QED
  BY <1>1, <1>2

(* The pool, the handles, the slots and the disk keep their types.         *)
THEOREM TypeCorrect ==
  ASSUME PinsFit
  PROVE  Spec => []TypeOK
<1>1. IInv => TypeOK
  BY DEF IInv
<1> QED
  BY <1>1, InitHolds, NextPreserves, PTL DEF Spec

(* With no more blocks held at once than the pool has places: count, the   *)
(* active blocks and the queue agree, cached blocks equal what is on disk, *)
(* every open descriptor is registered under its file, and no caller ever  *)
(* follows a freed pointer.                                                *)
THEOREM PoolIsExact ==
  ASSUME PinsFit
  PROVE  Spec => []PoolExact
  BY InitHolds, NextPreserves, InvariantsFollow, PTL DEF Spec

\* No block that callers have let go of differs between cache and disk.
THEOREM CacheIsCoherent ==
  ASSUME PinsFit
  PROVE  Spec => []CacheCoherent
  BY InitHolds, NextPreserves, InvariantsFollow, PTL DEF Spec

\* The slot table names the file behind every open descriptor and no other.
THEOREM NamesAreCurrent ==
  ASSUME PinsFit
  PROVE  Spec => []NamesCurrent
  BY InitHolds, NextPreserves, InvariantsFollow, PTL DEF Spec

\* No operation follows a pointer the pool freed or never set.
THEOREM NeverFaults ==
  ASSUME PinsFit
  PROVE  Spec => []NoFault
  BY InitHolds, NextPreserves, InvariantsFollow, PTL DEF Spec

-----------------------------------------------------------------------------
\* The block store implements the device.

CopiesByPlace ==
  \A h \in Pinned :
    CopyOf(h) = [file |-> opened[handle[h].fd], number |-> handle[h].number,
                 contents |-> array[Place(handle[h])]]

\* The copy a handle has out, read through the place of its block.
LEMMA CopyOfHeld == IInv => CopiesByPlace
<1> USE DEF CopiesByPlace
<1> SUFFICES ASSUME IInv, NEW h \in Pinned
             PROVE  CopyOf(h) = [file |-> opened[handle[h].fd],
                                 number |-> handle[h].number,
                                 contents |-> array[Place(handle[h])]]
  OBVIOUS
<1>1. IsHeld(h) /\ KeyOf(handle[h]) = Place(handle[h])
  BY KeyIsPlace DEF IInv, Pinned
<1>2. NameOf(handle[h].fd) = opened[handle[h].fd]
  BY <1>1 DEF KeyOf, Place
<1> QED
  BY <1>1, <1>2 DEF CopyOf

\* A step that leaves the names, the handles and the held arrays alone leaves the copies alone.
LEMMA CopiesKept ==
  ASSUME IInv, IInv', NEW G \in SUBSET Handles,
         \A h \in G : /\ h \in Pinned <=> h \in Pinned'
                      /\ h \in Pinned => /\ handle'[h].fd = handle[h].fd
                                         /\ handle'[h].number = handle[h].number
                                         /\ opened'[handle[h].fd] = opened[handle[h].fd]
                                         /\ array'[Place(handle[h])] = array[Place(handle[h])]
  PROVE  \A h \in G : CopiesOut'[h] = CopiesOut[h]
<1>a. CopiesByPlace /\ CopiesByPlace'
  BY CopyOfHeld, PTL
<1> SUFFICES ASSUME NEW h \in G PROVE CopiesOut'[h] = CopiesOut[h]
  OBVIOUS
<1>1. CopiesOut[h] = CopyOf(h) /\ CopiesOut'[h] = CopyOf(h)'
  BY DEF CopiesOut
<1>2. CASE h \notin Pinned
  BY <1>1, <1>2 DEF CopyOf, Pinned
<1>3. CASE h \in Pinned
  <2>1. Place(handle[h])' = Place(handle[h])
    BY <1>3 DEF Place
  <2>2. CopyOf(h)' = [file |-> opened'[handle'[h].fd], number |-> handle'[h].number,
                      contents |-> array'[Place(handle[h])']]
    BY <1>3, <1>a DEF CopiesByPlace
  <2> QED
    BY <1>1, <1>3, <1>a, <2>1, <2>2 DEF CopiesByPlace
<1> QED
  BY <1>2, <1>3

\* The device has a block checked out exactly when the store holds its place.
LEMMA OutIsHeld ==
  ASSUME IInv
  PROVE  /\ CopiesOut \in [Handles -> {CopyOf(h) : h \in Handles}]
         /\ \A h \in Handles : CopiesOut[h] = Free <=> h \notin Pinned
         /\ \A f, n : Device!CheckedOut(f, n) <=> <<f, n>> \in HeldPlaces
<1>1. \A h \in Handles : h \notin Pinned => CopiesOut[h] = Free
  BY DEF CopiesOut, CopyOf, Pinned
<1>2. \A h \in Pinned : /\ CopiesOut[h].file = opened[handle[h].fd]
                        /\ CopiesOut[h].number = handle[h].number
                        /\ CopiesOut[h] # Free
  <2> SUFFICES ASSUME NEW h \in Pinned
               PROVE  /\ CopiesOut[h].file = opened[handle[h].fd]
                      /\ CopiesOut[h].number = handle[h].number
                      /\ CopiesOut[h] # Free
    OBVIOUS
  <2>1. CopiesOut[h] = [file |-> opened[handle[h].fd], number |-> handle[h].number,
                        contents |-> array[Place(handle[h])]]
    BY CopyOfHeld DEF CopiesByPlace, CopiesOut, Pinned
  <2>2. opened[handle[h].fd] \in Files /\ Place(handle[h]) \in Keys
    BY PlaceType DEF IInv, HandlesOpen
  <2>3. CopiesOut[h] \in Copies
    BY <2>1, <2>2, PlaceType DEF IInv, TypeOK, PoolTypeOK, Held, Copies
  <2> QED
    BY <2>1, <2>3, StoreAssumption
<1>3. \A f, n : Device!CheckedOut(f, n) <=> <<f, n>> \in HeldPlaces
  BY <1>1, <1>2 DEF Device!CheckedOut, HeldPlaces, Place, Pinned
<1> QED
  BY <1>1, <1>2, <1>3 DEF CopiesOut

\* The store starts where the device may start.
LEMMA DeviceInit == Init => Device!Init
  BY DEF Init, Device!Init, CopiesOut, CopyOf, IsHeld, BoundedSeq, SeqOf,
         Device!BoundedSeq, Device!SeqOf

(* Opening and closing files is invisible.                                 *)
LEMMA FileStutter ==
  ASSUME IInv, IInv', disk' = disk, array' = array, handle' = handle,
         \A h \in Pinned : opened'[handle[h].fd] = opened[handle[h].fd]
  PROVE  UNCHANGED <<disk, CopiesOut>>
<1>1. Pinned' = Pinned
  BY DEF Pinned, IsHeld
<1>2. \A h \in Handles : CopiesOut'[h] = CopiesOut[h]
  BY <1>1, CopiesKept
<1> QED
  BY <1>2 DEF CopiesOut

\* block_file_create is the device starting a file over.
LEMMA FileCreateIsCreate ==
  ASSUME IInv, IInv', NEW f \in Files, FileCreate(f)
  PROVE  Device!Create(f)
<1>1. ASSUME NEW n \in 0..(MaxBlocks - 1) PROVE ~Device!CheckedOut(f, n)
  <2>1. <<f, n>> \notin HeldPlaces
    BY PlaceType DEF FileCreate, IInv, HeldPlaces, Place, Held
  <2> QED
    BY <2>1, OutIsHeld
<1>2. Pinned' = Pinned
  BY DEF FileCreate, Pinned, IsHeld
<1>3. \A h \in Handles : CopiesOut'[h] = CopiesOut[h]
  BY <1>2, CopiesKept DEF FileCreate, poolVars
<1>4. CopiesOut' = CopiesOut
  BY <1>3 DEF CopiesOut
<1> QED
  BY <1>1, <1>4 DEF FileCreate, Device!Create

(* A handle that takes block n of file f now shows it, the others stay.    *)
LEMMA TakenCopy ==
  ASSUME IInv, IInv', opened' = opened, NEW h \in Handles, ~IsHeld(h),
         NEW fd \in Descriptors, NEW n \in 0..(MaxBlocks - 1), NEW c \in Contents,
         <<opened[fd], n>> \notin HeldPlaces,
         handle' = [handle EXCEPT ![h] = [fd |-> fd, number |-> n, bit |-> 0]],
         array' = [array EXCEPT ![<<opened[fd], n>>] = c]
  PROVE  CopiesOut' = [CopiesOut EXCEPT ![h] =
                         [file |-> opened[fd], number |-> n, contents |-> c]]
<1>1. handle'[h] = [fd |-> fd, number |-> n, bit |-> 0] /\ h \notin Pinned
  BY DEF IInv, TypeOK, Pinned
<1>2. h \in Pinned'
  BY <1>1, StoreAssumption DEF Pinned, IsHeld, Held
<1>3. \A g \in Handles \ {h} : CopiesOut'[g] = CopiesOut[g]
  <2>1. \A g \in Handles \ {h} : handle'[g] = handle[g] /\ (g \in Pinned <=> g \in Pinned')
    BY DEF IInv, TypeOK, Pinned, IsHeld
  <2>2. \A g \in Pinned : array'[Place(handle[g])] = array[Place(handle[g])]
    BY PlaceType DEF IInv, TypeOK, PoolTypeOK, HeldPlaces
  <2>3. Handles \ {h} \in SUBSET Handles
    OBVIOUS
  <2> QED
    BY <2>1, <2>2, <2>3, CopiesKept
<1>4. CopiesOut'[h] = [file |-> opened[fd], number |-> n, contents |-> c]
  <2>1. CopiesByPlace'
    BY CopyOfHeld, PTL
  <2>2. <<opened[fd], n>> \in Keys
    BY <1>1, <1>2 DEF IInv, HandlesOpen, Keys
  <2>3. array'[<<opened[fd], n>>] = c
    BY <2>2 DEF IInv, TypeOK, PoolTypeOK
  <2>4. CopyOf(h)' = [file |-> opened'[handle'[h].fd], number |-> handle'[h].number,
                      contents |-> array'[Place(handle[h])']]
    BY <1>2, <2>1 DEF CopiesByPlace
  <2>5. Place(handle[h])' = <<opened[fd], n>>
    BY <1>1 DEF Place
  <2> QED
    BY <1>1, <2>3, <2>4, <2>5 DEF CopiesOut
<1> QED
  BY <1>3, <1>4 DEF CopiesOut

\* block_allocate is the device extending a file.
LEMMA BlockAllocateIsExtend ==
  ASSUME IInv, IInv', PinsFit, NEW h \in Handles, NEW fd \in Descriptors,
         BlockAllocate(h, fd)
  PROVE  opened[fd] \in Files /\ Device!Extend(h, opened[fd])
<1> DEFINE f == opened[fd]
           n == Len(disk[f])
<1> USE DEF BlockAllocate, BlocksOf
<1>1. NameOf(fd) = f /\ f \in Files /\ n \in 0..(MaxBlocks - 1)
  <2>1. f \in Files
    BY DEF IInv, TypeOK
  <2> QED
    BY <2>1, NameIsOpened, PoolAssumption, LenProperties DEF IInv, TypeOK
<1>2. <<f, n>> \notin HeldPlaces
  BY PlaceType DEF IInv, HandlesOpen, HeldPlaces, Place
<1>3. array' = [array EXCEPT ![<<f, n>>] = Zero]
  BY <1>1 DEF Insert
<1>4. CopiesOut' = [CopiesOut EXCEPT ![h] = [file |-> f, number |-> n, contents |-> Zero]]
  BY <1>1, <1>2, <1>3, PoolAssumption, TakenCopy, ZenonT(60)
<1>5. CopiesOut[h] = Free
  BY OutIsHeld DEF Pinned
<1> QED
  BY <1>1, <1>4, <1>5 DEF Device!Extend

\* block_get, hit or miss, is a check-out of what the file holds.
LEMMA BlockGetIsCheckOut ==
  ASSUME IInv, IInv', NEW h \in Handles, NEW fd \in Descriptors,
         NEW n \in 0..(MaxBlocks - 1),
         BlockGetCached(h, fd, n) \/ BlockGetRead(h, fd, n)
  PROVE  opened[fd] \in Files /\ Device!CheckOut(h, opened[fd], n)
<1> DEFINE f == opened[fd]
           k == <<f, n>>
           c == disk[f][n + 1]
<1>1. MayGet(h, fd, n)
  BY DEF BlockGetCached, BlockGetRead
<1>2. NameOf(fd) = f /\ f \in Files /\ k \in Keys /\ n < Len(disk[f])
  BY <1>1, NameIsOpened DEF IInv, TypeOK, Keys, MayGet, BlocksOf
<1>3. k \notin HeldPlaces
  BY <1>1, <1>2, KeyIsPlace DEF IInv, HeldKeys, HeldPlaces, Pinned, MayGet
<1>4. c \in Contents
  BY <1>2, ElementOfSeq, LenProperties DEF IInv, TypeOK
<1>5. array' = [array EXCEPT ![k] = c]
  <2>1. CASE BlockGetRead(h, fd, n)
    BY <1>2, <2>1 DEF BlockGetRead, Insert
  <2>2. CASE BlockGetCached(h, fd, n)
    <3>1. array' = array /\ k \in Resident
      BY <1>2, <2>2 DEF BlockGetCached, Allocate, Resident, With
    <3>2. array[k] = c
      BY <1>3, <3>1 DEF IInv, CleanCached, HeldPlaces
    <3> QED
      BY <3>1, <3>2 DEF IInv, TypeOK, PoolTypeOK
  <2> QED
    BY <2>1, <2>2 DEF BlockGetCached, BlockGetRead
<1>6. CopiesOut' = [CopiesOut EXCEPT ![h] = [file |-> f, number |-> n, contents |-> c]]
  <2>1. /\ ~IsHeld(h) /\ opened' = opened
        /\ handle' = [handle EXCEPT ![h] = [fd |-> fd, number |-> n, bit |-> 0]]
    BY <1>1 DEF MayGet
  <2> HIDE DEF c
  <2> QED
    BY <1>3, <1>4, <1>5, <2>1, TakenCopy, ZenonT(60)
<1>7. CopiesOut[h] = Free /\ ~Device!CheckedOut(f, n)
  BY <1>1, <1>3, OutIsHeld DEF Pinned, MayGet
<1> QED
  BY <1>1, <1>2, <1>6, <1>7 DEF Device!CheckOut, MayGet

\* An edit of the shared array changes one checked-out copy.
LEMMA BlockSetDirtyIsEdit ==
  ASSUME IInv, IInv', NEW h \in Handles, NEW c \in Contents, BlockSetDirty(h, c)
  PROVE  Device!Edit(h, c)
<1> DEFINE b == handle[h]
           k == Place(b)
<1> USE DEF BlockSetDirty
<1>1. h \in Pinned /\ KeyOf(b) = k /\ k \in Keys /\ b \in Held
  BY KeyIsPlace, PlaceType DEF IInv, Pinned
<1>2. /\ array' = [array EXCEPT ![k] = c]
      /\ handle'[h].fd = b.fd /\ handle'[h].number = b.number
      /\ \A g \in Handles \ {h} : handle'[g] = handle[g]
  BY <1>1 DEF IInv, TypeOK, Held
<1>3. h \in Pinned' /\ Place(b)' = k
  <2>1. handle'[h] = [b EXCEPT !.bit = 1] /\ [b EXCEPT !.bit = 1] \in Held
    BY <1>1 DEF IInv, TypeOK, Held
  <2> QED
    BY <1>2, <2>1, StoreAssumption DEF Pinned, IsHeld, Place
<1>4. \A g \in Handles \ {h} : CopiesOut'[g] = CopiesOut[g]
  <2>1. \A g \in Handles \ {h} : g \in Pinned <=> g \in Pinned'
    BY <1>2 DEF Pinned, IsHeld
  <2>2. \A g \in Pinned \ {h} : array'[Place(handle[g])] = array[Place(handle[g])]
    BY <1>1, <1>2, PlaceType DEF IInv, TypeOK, PoolTypeOK, HoldersDistinct
  <2>3. Handles \ {h} \in SUBSET Handles
    OBVIOUS
  <2> QED
    BY <1>2, <2>1, <2>2, <2>3, CopiesKept DEF Pinned
<1>5. CopiesOut[h] = [file |-> opened[b.fd], number |-> b.number, contents |-> array[k]]
  BY <1>1, CopyOfHeld DEF CopiesByPlace, CopiesOut
<1>6. CopiesOut'[h] = [file |-> opened[b.fd], number |-> b.number, contents |-> c]
  <2>1. CopiesByPlace'
    BY CopyOfHeld, PTL
  <2>2. array'[k] = c
    BY <1>1, <1>2 DEF IInv, TypeOK, PoolTypeOK
  <2>3. CopyOf(h)' = [file |-> opened'[handle'[h].fd], number |-> handle'[h].number,
                      contents |-> array'[Place(b)']]
    BY <1>3, <2>1 DEF CopiesByPlace
  <2> QED
    BY <1>2, <1>3, <2>2, <2>3 DEF CopiesOut
<1>7. CopiesOut' = [CopiesOut EXCEPT ![h].contents = c]
  <2>1. [CopiesOut[h] EXCEPT !.contents = c] = CopiesOut'[h]
    BY <1>5, <1>6
  <2> QED
    BY <1>4, <2>1 DEF CopiesOut
<1> QED
  BY <1>1, <1>7, OutIsHeld DEF Device!Edit, Pinned

\* block_unpin, writing or not, checks in what the caller last saw.
LEMMA BlockUnpinIsCheckIn ==
  ASSUME IInv, IInv', NEW h \in Handles, BlockUnpin(h)
  PROVE  Device!CheckIn(h)
<1> DEFINE b == handle[h]
           f == opened[b.fd]
           k == Place(b)
<1> USE DEF BlockUnpin
<1>1. h \in Pinned /\ KeyOf(b) = k /\ k \in Keys /\ b \in Held /\ k = <<f, b.number>>
  BY KeyIsPlace, PlaceType DEF IInv, Pinned, Place
<1>2. f \in Files /\ b.number \in Nat /\ b.number < Len(disk[f])
  BY <1>1 DEF IInv, HandlesOpen, Held
<1>3. CopiesOut[h] = [file |-> f, number |-> b.number, contents |-> array[k]]
  BY <1>1, CopyOfHeld DEF CopiesByPlace, CopiesOut
<1>4. array' = array /\ h \notin Pinned'
  BY DEF SetInactive, IInv, TypeOK, Pinned, IsHeld
<1>5. disk' = [disk EXCEPT ![f] = [disk[f] EXCEPT ![b.number + 1] = array[k]]]
  <2>1. CASE b.bit = 1
    BY <1>1, <2>1
  <2>2. CASE b.bit = 0
    <3>1. array[k] = disk[f][b.number + 1]
      <4>1. k \in Resident
        BY <1>1 DEF IInv, ActiveHeld, HeldPlaces, Resident, With
      <4>2. ~\E g \in Pinned : handle[g].bit = 1 /\ Place(handle[g]) = k
        BY <1>1, <2>2 DEF IInv, HoldersDistinct
      <4> QED
        BY <1>1, <4>1, <4>2 DEF IInv, CleanCached
    <3>2. disk[f] \in Seq(Contents) /\ b.number + 1 \in 1..Len(disk[f])
      BY <1>2, LenProperties DEF IInv, TypeOK
    <3>3. [disk[f] EXCEPT ![b.number + 1] = array[k]] = disk[f]
      BY <3>1, <3>2, LenProperties
    <3> QED
      BY <1>2, <2>2, <3>3 DEF IInv, TypeOK
  <2> QED
    BY <1>1, <2>1, <2>2 DEF Held
<1>6. \A g \in Handles \ {h} : CopiesOut'[g] = CopiesOut[g]
  <2>1. \A g \in Handles \ {h} : handle'[g] = handle[g] /\ (g \in Pinned <=> g \in Pinned')
    BY DEF IInv, TypeOK, Pinned, IsHeld
  <2>2. Handles \ {h} \in SUBSET Handles
    OBVIOUS
  <2> QED
    BY <1>4, <2>1, <2>2, CopiesKept
<1>7. CopiesOut' = [CopiesOut EXCEPT ![h] = Free]
  <2>1. CopiesOut'[h] = Free
    BY <1>4 DEF CopiesOut, CopyOf, Pinned
  <2> QED
    BY <1>6, <2>1 DEF CopiesOut
<1>8. CopiesOut[h] # Free
  BY <1>1, OutIsHeld DEF Pinned
<1>9. disk' = [disk EXCEPT ![CopiesOut[h].file][CopiesOut[h].number + 1] = CopiesOut[h].contents]
  <2>1. CopiesOut[h].file = f /\ CopiesOut[h].number = b.number /\ CopiesOut[h].contents = array[k]
    BY <1>3
  <2> HIDE DEF b, f, k, BlockUnpin
  <2> QED
    BY <1>5, <2>1
<1> QED
  BY <1>7, <1>8, <1>9 DEF Device!CheckIn

\* Every step of the store is a step of the device or a stutter.
LEMMA DeviceStep ==
  PinsFit /\ IInv /\ IInv' /\ [Next]_vars => [Device!Next]_<<disk, CopiesOut>>
<1> SUFFICES ASSUME PinsFit, IInv, IInv', [Next]_vars
             PROVE  Device!Next \/ UNCHANGED <<disk, CopiesOut>>
  OBVIOUS
<1>1. CASE UNCHANGED vars
  BY <1>1, FileStutter DEF vars
<1>2. ASSUME NEW f \in Files, FileCreate(f) PROVE Device!Next
  BY <1>2, FileCreateIsCreate DEF Device!Next
<1>3. ASSUME NEW f \in Files, NEW fd \in Descriptors, NEW i \in Slots, FileOpen(f, fd, i)
      PROVE  UNCHANGED <<disk, CopiesOut>>
  <2>1. \A h \in Pinned : handle[h].fd \in Descriptors /\ handle[h].fd # fd
    BY <1>3, StoreAssumption, PlaceType DEF IInv, Held, HandlesOpen, FileOpen
  <2>2. \A h \in Pinned : opened'[handle[h].fd] = opened[handle[h].fd]
    BY <1>3, <2>1 DEF IInv, TypeOK, FileOpen
  <2> QED
    BY <1>3, <2>2, FileStutter DEF FileOpen, poolVars
<1>4. ASSUME NEW fd \in Descriptors, NEW i \in Slots, FileClose(fd, i)
      PROVE  UNCHANGED <<disk, CopiesOut>>
  <2>1. \A h \in Pinned : handle[h].fd \in Descriptors /\ handle[h].fd # fd
    BY <1>4, PlaceType DEF IInv, Held, FileClose, Pinned
  <2>2. \A h \in Pinned : opened'[handle[h].fd] = opened[handle[h].fd]
    BY <1>4, <2>1 DEF IInv, TypeOK, FileClose
  <2> QED
    BY <1>4, <2>2, FileStutter DEF FileClose, poolVars
<1>5. ASSUME NEW h \in Handles, NEW fd \in Descriptors, BlockAllocate(h, fd)
      PROVE  Device!Next
  BY <1>5, BlockAllocateIsExtend DEF Device!Next
<1>6. ASSUME NEW h \in Handles, NEW fd \in Descriptors, NEW n \in 0..(MaxBlocks - 1),
             BlockGetCached(h, fd, n) \/ BlockGetRead(h, fd, n)
      PROVE  Device!Next
  BY <1>6, BlockGetIsCheckOut DEF Device!Next
<1>7. ASSUME NEW h \in Handles, NEW c \in Contents, BlockSetDirty(h, c)
      PROVE  Device!Next
  BY <1>7, BlockSetDirtyIsEdit DEF Device!Next
<1>8. ASSUME NEW h \in Handles, BlockUnpin(h) PROVE Device!Next
  BY <1>8, BlockUnpinIsCheckIn DEF Device!Next
<1> QED
  BY <1>1, <1>2, <1>3, <1>4, <1>5, <1>6, <1>7, <1>8 DEF Next

(* Callers of the block layer may reason as if there were no cache, no     *)
(* descriptors and no slots: every behaviour of the block store is one of  *)
(* the device, where a check-out returns what was last checked in.         *)
THEOREM StoreImplementsDevice ==
  ASSUME PinsFit
  PROVE  Spec => ImplementsDevice
<1>1. Init => Device!Init
  BY DeviceInit
<1>2. Spec => []IInv
  BY InitHolds, NextPreserves, PTL DEF Spec
<1>3. PinsFit /\ IInv /\ IInv' /\ [Next]_vars => [Device!Next]_(Device!vars)
  BY DeviceStep DEF Device!vars
<1> QED
  BY <1>1, <1>2, <1>3, PTL DEF Spec, ImplementsDevice, Device!Spec
=============================================================================
