--------------------------- MODULE BufferManager ---------------------------
(***************************************************************************)
(* The buffer pool (src/rdbms/memory/buffer_manager.c): a hash table from  *)
(* (filename, block number) to a cached array, a flag per cached block     *)
(* saying whether a caller still uses it, and the queue of blocks that are *)
(* candidates for eviction.  Its operations are action formulas over the   *)
(* pool's variables; BlockStore.tla composes them with block.c.            *)
(*                                                                         *)
(* Abstracted: the priority numbers, which are written and never read, and *)
(* the array pointers: a cached array is shared with the caller's block,   *)
(* so array[k] is the memory both of them see.                             *)
(***************************************************************************)
EXTENDS Integers, FiniteSets, PriorityQueue

CONSTANTS
  Files,     \* names of database files
  MaxBlocks, \* bound: blocks per file
  Contents,  \* what a block may hold
  Zero,      \* a block of zero bytes
  Size       \* the pool's size in blocks

Keys == Files \X (0..(MaxBlocks - 1))

ASSUME PoolAssumption ==
  /\ MaxBlocks \in Nat /\ Size \in Nat /\ Size > 0
  /\ Zero \in Contents

VARIABLES
  status, \* the table and HashTableValue.active: absent, active or inactive
  array,  \* HashTableValue.array of a cached block
  pq,     \* the candidates for eviction
  count,  \* bufferManager->count
  program \* runs, or faulted: it followed a pointer that is NULL or freed

poolVars == <<status, array, pq, count, program>>

PoolTypeOK ==
  /\ status \in [Keys -> {"absent", "active", "inactive"}]
  /\ array \in [Keys -> Contents]
  /\ pq \in Seq(Keys)
  /\ count \in Int
  /\ program \in {"runs", "faulted"}

PoolInit ==
  /\ status = [k \in Keys |-> "absent"]
  /\ array = [k \in Keys |-> Zero]
  /\ pq = <<>> /\ count = 0 /\ program = "runs"

With(s) == {k \in Keys : status[k] = s}
Resident == Keys \ With("absent")

-----------------------------------------------------------------------------
\* The entry a full pool removes from its table: the head of the queue,
\* whatever has become of that block since it was queued.
Victims == IF count = Size /\ pq # <<>> THEN {Head(pq)} ELSE {}

\* buffer_manager_insert(k, array holding c).
Insert(k, c) ==
  /\ status' = [j \in Keys |-> IF j = k THEN "active" ELSE
                               IF j \in Victims THEN "absent" ELSE status[j]]
  /\ array' = [array EXCEPT ![k] = c]
  /\ pq' = IF Victims = {} THEN pq ELSE PqPop(pq)
  /\ count' = IF Victims = {} THEN count + 1 ELSE count
  /\ program' = program

\* A slip in buffer_manager_set_inactive: the block never becomes a candidate.
SetInactiveUnqueued(k) ==
  /\ status' = IF status[k] = "absent" THEN status
               ELSE [status EXCEPT ![k] = "inactive"]
  /\ count' = count - 1
  /\ UNCHANGED <<pq, array, program>>

\* buffer_manager_set_inactive(k); without an entry its lookup is NULL.
SetInactive(k) ==
  /\ status' = IF status[k] = "absent" THEN status
               ELSE [status EXCEPT ![k] = "inactive"]
  /\ pq' = PqInsert(pq, k)
  /\ count' = count - 1
  /\ program' = IF status[k] = "absent" THEN "faulted" ELSE program
  /\ array' = array

\* A slip in buffer_manager_allocate: the block stays a candidate.
AllocateKeepsCandidate(k) ==
  /\ status' = [status EXCEPT ![k] = "active"]
  /\ count' = IF status[k] = "inactive" THEN count + 1 ELSE count
  /\ UNCHANGED <<array, pq, program>>

\* buffer_manager_allocate(k) of a cached block.  pq_remove of an empty
\* queue returns NULL, which the next pq_insert follows.
Allocate(k) ==
  /\ status[k] # "absent"
  /\ IF status[k] = "inactive"
     THEN /\ status' = [status EXCEPT ![k] = "active"]
          /\ pq' = PqRemove(pq, k)
          /\ count' = count + 1
          /\ program' = IF pq = <<>> THEN "faulted" ELSE program
     ELSE UNCHANGED <<status, pq, count, program>>
  /\ array' = array

\* buffer_manager_available_space
AvailableSpace == Size - count
=============================================================================
