------------------------------ MODULE HeapFile ------------------------------
(***************************************************************************)
(* Heap files (src/rdbms/db_files/heapfile.c): a table's records in the    *)
(* blocks of a file, inserted one at a time.  A block is the sequence of   *)
(* its records: its first byte counts them and record j lies at            *)
(* 1 + j * record size.  The blocks before FirstBlock hold the schema and  *)
(* are left out, so store[f] are the data blocks.                          *)
(*                                                                         *)
(* heap_file_insert is cut at its calls of the block layer.  These are     *)
(* taken as they are called: that they are calls the block layer allows    *)
(* for (Device) is a property of the modules that use this one.            *)
(***************************************************************************)
EXTENDS Naturals, SequencesExt

CONSTANTS
  Files,      \* heap files
  MaxBlocks,  \* bound: data blocks per file
  Records,    \* what a record may be
  BlockSize,  \* BLOCK_SIZE
  RecordSize, \* record->size
  Free        \* the handle holds no block

\* How many records heap_file_insert puts into a block.
Capacity == BlockSize \div RecordSize

\* What the schemas of create_files.c satisfy and the code relies on: the
\* byte that counts the records does not shorten the room for them, and the
\* count fits a signed char.
ASSUME RecordAssumption ==
  /\ BlockSize \in Nat /\ RecordSize \in Nat \ {0}
  /\ BlockSize % RecordSize # 0
  /\ Capacity \in 1..127
  /\ MaxBlocks \in Nat
  /\ Free \notin [file : Files, number : Nat, contents : Seq(Records)]

VARIABLES
  store,  \* the data blocks of each file
  out,    \* the blocks checked out
  insert  \* heap_file_insert: where it is, in which file, for which record

Blocks == BoundedSeq(Records, Capacity)
Handles == {"reader", "writer"}
Device == INSTANCE BlockDevice WITH Contents <- Blocks, Zero <- <<>>

\* heap_file_scan, and what filter, merge and the joins iterate over.
Scan(f) == FlattenSeq(store[f])

Contents(h) == out[h].contents
Done == [at |-> "done"]
Inserting(where, f, r) == [at |-> where, file |-> f, record |-> r]

\* block_get and block_allocate into a Block struct, block_unpin of it, and an
\* edit followed by block_set_dirty.
Get(h, f, n) ==
  /\ out' = [out EXCEPT ![h] =
               [file |-> f, number |-> n, contents |-> store[f][n + 1]]]
  /\ UNCHANGED store
Allocate(h, f) ==
  /\ out' = [out EXCEPT ![h] =
               [file |-> f, number |-> Len(store[f]), contents |-> <<>>]]
  /\ store' = [store EXCEPT ![f] = Append(@, <<>>)]
Unpin(h) ==
  /\ store' = [store EXCEPT ![out[h].file][out[h].number + 1] = Contents(h)]
  /\ out' = [out EXCEPT ![h] = Free]
SetDirty(h, block) ==
  /\ out' = [out EXCEPT ![h].contents = block]
  /\ UNCHANGED store

-----------------------------------------------------------------------------
\* heap_file_insert(r, f): the last block is looked at if there is one.
InsertBegin(f, r) ==
  /\ insert = Done
  /\ IF Len(store[f]) > 0
     THEN /\ Get("writer", f, Len(store[f]) - 1)
          /\ insert' = Inserting("last", f, r)
     ELSE /\ Allocate("writer", f)
          /\ insert' = Inserting("fresh", f, r)

\* A slip in heap_file_insert: one more record than the block has room for.
HasRoomTooMuch(block) == Len(block) <= Capacity

HasRoom(block) == Len(block) < Capacity

\* A slip in heap_file_insert: the record is written over the last one.
PlacedOver(block, r) == IF block = <<>> THEN <<r>> ELSE Append(Front(block), r)

\* heap_file_write_record at the offset the count gives.
Placed(block, r) == Append(block, r)

\* There is room in the last block.
InsertIntoLast ==
  /\ insert.at = "last" /\ HasRoom(Contents("writer"))
  /\ SetDirty("writer", Placed(Contents("writer"), insert.record))
  /\ insert' = [insert EXCEPT !.at = "unpin"]

\* The last block is full: it is given back and another one allocated.
LeaveLast ==
  /\ insert.at = "last" /\ ~HasRoom(Contents("writer"))
  /\ Unpin("writer")
  /\ insert' = [insert EXCEPT !.at = "extend"]

InsertExtend ==
  /\ insert.at = "extend"
  /\ Allocate("writer", insert.file)
  /\ insert' = [insert EXCEPT !.at = "fresh"]

\* The new block gets its first record.
InsertIntoFresh ==
  /\ insert.at = "fresh"
  /\ SetDirty("writer", <<insert.record>>)
  /\ insert' = [insert EXCEPT !.at = "unpin"]

InsertUnpin ==
  /\ insert.at = "unpin"
  /\ Unpin("writer")
  /\ insert' = Done

InsertStep ==
  InsertIntoLast \/ LeaveLast \/ InsertExtend \/ InsertIntoFresh \/ InsertUnpin
=============================================================================
