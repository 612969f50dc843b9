----------------------------- MODULE BlockStore -----------------------------
(***************************************************************************)
(* The block layer (src/rdbms/disk/block.c) over the buffer pool: the      *)
(* table of registered descriptors, the kernel's open files, the files on  *)
(* disk, and the Block structs callers work with.  A handle is one such    *)
(* struct: free, or holding a block between block_get or block_allocate    *)
(* and block_unpin.  One thread runs at a time here: the interleavings of  *)
(* query threads are not part of this module.                              *)
(*                                                                         *)
(* Callers behave as heapfile.c, result_file.c and the joins do: a block   *)
(* is held by one handle at a time, only blocks of the file are asked for  *)
(* (loops run below tell/BLOCK_SIZE), an edit is followed by               *)
(* block_set_dirty, and a file is closed after its blocks were unpinned;   *)
(* fewer files are open at once than MAX_OPEN_FILES (a file opened beyond  *)
(* that would be left without a name).                                     *)
(***************************************************************************)
EXTENDS BufferManager

CONSTANTS
  Descriptors,  \* what open() may return
  MaxOpenFiles, \* MAX_OPEN_FILES
  Handles,      \* Block structs in use at once
  None,         \* no file
  Free          \* the handle holds no block

VARIABLES
  disk,    \* the blocks each file holds on disk
  opened,  \* the kernel's view: the file behind each descriptor, or None
  slots,   \* allocator->fds and allocator->files
  handle   \* the Block structs

storeVars == <<disk, opened, slots, handle>>
vars == <<status, array, pq, count, program, disk, opened, slots, handle>>

Slots == 1..MaxOpenFiles
FreeSlot == [fd |-> 0, file |-> None]
Held == [fd : Descriptors, number : 0..(MaxBlocks - 1), bit : {0, 1}]
Copies == [file : Files, number : 0..(MaxBlocks - 1), contents : Contents]

ASSUME StoreAssumption ==
  /\ Descriptors \subseteq Nat \ {0} /\ MaxOpenFiles \in Nat
  /\ IsFiniteSet(Handles)
  /\ None \notin Files /\ Free \notin Held \cup Copies

\* The callers' side of the capacity: the blocks in use at once fit the pool.
PinsFit == Cardinality(Handles) <= Size

TypeOK ==
  /\ PoolTypeOK
  /\ disk \in [Files -> Seq(Contents)]
  /\ \A f \in Files : Len(disk[f]) <= MaxBlocks
  /\ opened \in [Descriptors -> Files \cup {None}]
  /\ slots \in [Slots -> [fd : Descriptors \cup {0}, file : Files \cup {None}]]
  /\ handle \in [Handles -> Held \cup {Free}]

Init ==
  /\ PoolInit
  /\ disk \in [Files -> BoundedSeq(Contents, MaxBlocks)]
  /\ opened = [fd \in Descriptors |-> None]
  /\ slots = [i \in Slots |-> FreeSlot]
  /\ handle = [h \in Handles |-> Free]

-----------------------------------------------------------------------------
IsHeld(h) == handle[h] # Free

\* block_file_name: the file registered for a descriptor.
NameOf(fd) ==
  LET i == CHOOSE i \in Slots :
             slots[i].fd = fd /\ \A j \in 1..(i - 1) : slots[j].fd # fd
  IN  slots[i].file

\* The entry block_unpin, block_get and block_allocate look up.
KeyOf(b) == <<NameOf(b.fd), b.number>>
HeldKeys == {KeyOf(handle[h]) : h \in {g \in Handles : IsHeld(g)}}

\* tell(fd)/BLOCK_SIZE
BlocksOf(fd) == Len(disk[opened[fd]])

\* block_file_create, by callers that create a file before they first open it.
FileCreate(f) ==
  /\ \A fd \in Descriptors : opened[fd] # f
  /\ \A k \in Resident : k[1] # f
  /\ disk' = [disk EXCEPT ![f] = <<>>]
  /\ UNCHANGED <<poolVars, opened, slots, handle>>

\* block_file_open: the first slot whose fd is 0 remembers the name.  A file
\* is open once at a time.
FileOpen(f, fd, i) ==
  /\ opened[fd] = None /\ \A e \in Descriptors : opened[e] # f
  /\ slots[i].fd = 0 /\ \A j \in 1..(i - 1) : slots[j].fd # 0
  /\ opened' = [opened EXCEPT ![fd] = f]
  /\ slots' = [slots EXCEPT ![i] = [fd |-> fd, file |-> f]]
  /\ UNCHANGED <<poolVars, disk, handle>>

\* A slip in block_file_close: the slot is not given back.
FileCloseKeepsSlot(fd, i) ==
  /\ opened[fd] # None /\ \A h \in Handles : IsHeld(h) => handle[h].fd # fd
  /\ slots[i].fd = fd /\ \A j \in 1..(i - 1) : slots[j].fd # fd
  /\ opened' = [opened EXCEPT ![fd] = None]
  /\ UNCHANGED <<poolVars, slots, disk, handle>>

\* A slip in block_file_close: the slot is marked free the usual way, not with 0.
FileCloseMinusOne(fd, i) ==
  /\ opened[fd] # None /\ \A h \in Handles : IsHeld(h) => handle[h].fd # fd
  /\ slots[i].fd = fd /\ \A j \in 1..(i - 1) : slots[j].fd # fd
  /\ slots' = [slots EXCEPT ![i] = [fd |-> 0 - 1, file |-> None]]
  /\ opened' = [opened EXCEPT ![fd] = None]
  /\ UNCHANGED <<poolVars, disk, handle>>

\* block_file_close: blocks of the file stay cached.
FileClose(fd, i) ==
  /\ opened[fd] # None /\ \A h \in Handles : IsHeld(h) => handle[h].fd # fd
  /\ slots[i].fd = fd /\ \A j \in 1..(i - 1) : slots[j].fd # fd
  /\ slots' = [slots EXCEPT ![i] = FreeSlot]
  /\ opened' = [opened EXCEPT ![fd] = None]
  /\ UNCHANGED <<poolVars, disk, handle>>

\* block_allocate: write a zero block at the end of the file, cache it.
BlockAllocate(h, fd) ==
  /\ ~IsHeld(h) /\ opened[fd] # None /\ BlocksOf(fd) < MaxBlocks
  /\ disk' = [disk EXCEPT ![opened[fd]] = Append(@, Zero)]
  /\ Insert(<<NameOf(fd), BlocksOf(fd)>>, Zero)
  /\ handle' = [handle EXCEPT ![h] = [fd |-> fd, number |-> BlocksOf(fd), bit |-> 0]]
  /\ UNCHANGED <<opened, slots>>

\* What block_get and the callers that keep to the discipline require.
MayGet(h, fd, n) ==
  /\ ~IsHeld(h) /\ opened[fd] # None
  /\ n < BlocksOf(fd) /\ <<NameOf(fd), n>> \notin HeldKeys
  /\ handle' = [handle EXCEPT ![h] = [fd |-> fd, number |-> n, bit |-> 0]]
  /\ UNCHANGED <<disk, opened, slots>>

\* block_get of a cached block: no read, the caller shares the cached array.
BlockGetCached(h, fd, n) ==
  MayGet(h, fd, n) /\ Allocate(<<NameOf(fd), n>>)

\* block_get of a block that is not cached: read it and insert it.
BlockGetRead(h, fd, n) ==
  /\ MayGet(h, fd, n)
  /\ status[<<NameOf(fd), n>>] = "absent"
  /\ Insert(<<NameOf(fd), n>>, disk[opened[fd]][n + 1])

\* A slip in block_set_dirty: the bit stays 0.
BlockStaysClean(h, c) ==
  /\ IsHeld(h)
  /\ array' = [array EXCEPT ![KeyOf(handle[h])] = c]
  /\ UNCHANGED <<status, pq, count, program, disk, opened, slots, handle>>

\* The caller edits byteArray and calls block_set_dirty.  The memory is gone
\* if the pool has evicted the block meanwhile.
BlockSetDirty(h, c) ==
  /\ IsHeld(h)
  /\ array' = [array EXCEPT ![KeyOf(handle[h])] = c]
  /\ program' = IF status[KeyOf(handle[h])] = "absent" THEN "faulted" ELSE program
  /\ handle' = [handle EXCEPT ![h].bit = 1]
  /\ UNCHANGED <<status, pq, count, disk, opened, slots>>

\* A slip in block_unpin: the dirty bit is tested the wrong way round.
BlockUnpinInverted(h) ==
  LET b == handle[h] IN
  /\ IsHeld(h)
  /\ disk' = IF b.bit = 0
             THEN [disk EXCEPT ![opened[b.fd]][b.number + 1] = array[KeyOf(b)]]
             ELSE disk
  /\ SetInactive(KeyOf(b))
  /\ handle' = [handle EXCEPT ![h] = Free]
  /\ UNCHANGED <<opened, slots>>

\* block_unpin: a dirty block is written through, then becomes a candidate.
BlockUnpin(h) ==
  LET b == handle[h] IN
  /\ IsHeld(h)
  /\ disk' = IF b.bit = 1
             THEN [disk EXCEPT ![opened[b.fd]][b.number + 1] = array[KeyOf(b)]]
             ELSE disk
  /\ SetInactive(KeyOf(b))
  /\ handle' = [handle EXCEPT ![h] = Free]
  /\ UNCHANGED <<opened, slots>>

\* A program that has faulted takes no further step.
Next ==
  /\ program = "runs"
  /\ \/ \E f \in Files : FileCreate(f)
     \/ \E f \in Files, fd \in Descriptors, i \in Slots : FileOpen(f, fd, i)
     \/ \E fd \in Descriptors, i \in Slots : FileClose(fd, i)
     \/ \E h \in Handles :
          \/ \E fd \in Descriptors : BlockAllocate(h, fd)
          \/ \E fd \in Descriptors, n \in 0..(MaxBlocks - 1) :
               BlockGetCached(h, fd, n) \/ BlockGetRead(h, fd, n)
          \/ \E c \in Contents : BlockSetDirty(h, c)
          \/ BlockUnpin(h)

Spec == Init /\ [][Next]_vars

-----------------------------------------------------------------------------
(* Every descriptor the kernel has open is registered under the name of    *)
(* the very file it reads and writes, and nothing else is: opening and     *)
(* closing in any order, with descriptors and slots reused, never makes a  *)
(* cache key name another file than the one the block came from.           *)
NamesCurrent ==
  /\ \A fd \in Descriptors : opened[fd] # None =>
       \E i \in Slots : slots[i] = [fd |-> fd, file |-> opened[fd]]
  /\ \A i \in Slots : slots[i].fd # 0 =>
       slots[i].file \in Files /\ opened[slots[i].fd] = slots[i].file
  /\ \A i, j \in Slots : slots[i].fd = slots[j].fd /\ slots[i].fd # 0 => i = j

(* The pool's three records of who uses what agree: count is the number of *)
(* active blocks, active blocks are those callers hold, and the queue      *)
(* holds each inactive block exactly once.                                 *)
PoolExact ==
  /\ count = Cardinality(With("active"))
  /\ With("active") = HeldKeys
  /\ Range(pq) = With("inactive") /\ IsInjective(pq)

(* A block no caller holds is the same in the cache and on disk, whatever  *)
(* other blocks and files did since: a later hit returns what was stored,  *)
(* and dropping the pool (block_allocator_destroy) loses nothing.          *)
CacheCoherent ==
  \A k \in Resident :
    /\ k[2] < Len(disk[k[1]])
    /\ (\A h \in Handles : IsHeld(h) /\ handle[h].bit = 1 => KeyOf(handle[h]) # k)
         => array[k] = disk[k[1]][k[2] + 1]

(* No caller ever follows a pointer the pool has freed or never set.       *)
NoFault == program = "runs"

\* The copy a handle has checked out, as the device sees it.
CopyOf(h) ==
  IF IsHeld(h)
  THEN [file |-> NameOf(handle[h].fd), number |-> handle[h].number,
        contents |-> array[KeyOf(handle[h])]]
  ELSE Free
CopiesOut == [h \in Handles |-> CopyOf(h)]

Device == INSTANCE BlockDevice WITH store <- disk, out <- CopiesOut

(* The cached, registered, pinned implementation is the plain device: with *)
(* hits, misses, write-through on unpin and files closed and reopened in   *)
(* any order, a caller reads exactly what was last checked in.             *)
ImplementsDevice == Device!Spec

(* An evicted block leaves the queue (`Pop the least recently used         *)
(* element'): a queued block is a cached one.                              *)
QueuedAreResident == Range(pq) \subseteq Resident
=============================================================================
