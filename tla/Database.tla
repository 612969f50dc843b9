------------------------------ MODULE Database ------------------------------
(***************************************************************************)
(* Loading fragments of a table (database_open, database_open_existing,    *)
(* database_close in src/rdbms/db_files/db_file.c; heap_file_merge;        *)
(* load_database_from_fragments in src/net/main.c): the first fragment's   *)
(* file is copied to a temporary one, and the records of the others are    *)
(* inserted into that copy, one by one.  A database may be loaded again    *)
(* with other fragments, and the process may die at any step.              *)
(*                                                                         *)
(* One table is modelled; the tables of a database are loaded one after    *)
(* the other and share nothing.  Queries only read what is loaded.         *)
(***************************************************************************)
EXTENDS HeapFile, FiniteSets

CONSTANTS
  Temp,     \* the temporary copy; the other files are the fragments
  MaxBase,  \* bound: data blocks of a fragment
  MaxLoads  \* bound: how often the database is loaded

Parts == Files \ {Temp}

ASSUME DatabaseAssumption ==
  /\ Temp \in Files /\ IsFiniteSet(Files) /\ MaxBase \in Nat /\ MaxLoads \in Nat
  /\ Cardinality(Parts) * MaxBase <= MaxBlocks \* the bound on blocks stops no load

VARIABLES
  load,  \* what is loaded: at, the fragments, those left, the next block and record
  loads  \* how often a load was begun

vars == <<store, out, insert, load, loads>>

ClosedDb == [at |-> "closed", parts |-> <<>>, left |-> <<>>, block |-> 0, record |-> 0]

TypeOK ==
  /\ store \in [Files -> Seq(Blocks)]
  /\ out \in [Handles -> Device!Copies \cup {Free}]
  /\ insert = Done \/ (insert.file = Temp /\ insert.record \in Records)
  /\ load.at \in {"closed", "merging", "open"}
  /\ (load.at = "closed") = (load = ClosedDb)
  /\ IsSuffix(load.left, load.parts)

Init ==
  /\ \E base \in [Parts -> BoundedSeq(Blocks, MaxBase)] :
       store = [f \in Files |-> IF f = Temp THEN <<>> ELSE base[f]]
  /\ out = [h \in Handles |-> Free]
  /\ insert = Done /\ load = ClosedDb /\ loads = 0

-----------------------------------------------------------------------------
\* database_open of the first fragment: cp, and the copy is opened; a database
\* loaded before is closed first, by load_database_from_fragments.
Open(parts) ==
  /\ load.at \in {"closed", "open"} /\ loads < MaxLoads
  /\ parts # <<>> /\ IsInjective(parts)
  /\ store' = [store EXCEPT ![Temp] = store[parts[1]]]
  /\ load' = [ClosedDb EXCEPT !.at = "merging", !.parts = parts, !.left = Tail(parts)]
  /\ loads' = loads + 1
  /\ UNCHANGED <<out, insert>>

Part == Head(load.left)
Merging == load.at = "merging" /\ load.left # <<>>

\* heap_file_merge: the next block of the fragment.
MergeGet ==
  /\ Merging /\ out["reader"] = Free /\ load.block < Len(store[Part])
  /\ Get("reader", Part, load.block)
  /\ load' = [load EXCEPT !.record = 0]
  /\ UNCHANGED <<insert, loads>>

\* A slip in heap_file_merge: records are inserted into the file they are
\* read from.
TargetSwapped == Part

Target == Temp

\* The next record of that block is inserted into the copy.
MergeInsert ==
  /\ Merging /\ out["reader"] # Free /\ load.record < Len(Contents("reader"))
  /\ InsertBegin(Target, Contents("reader")[load.record + 1])
  /\ load' = [load EXCEPT !.record = @ + 1]
  /\ UNCHANGED loads

Insert == InsertStep /\ UNCHANGED <<load, loads>>

\* A slip in heap_file_merge: the block is given back before its last record.
BlockDoneEarly == load.record + 1 >= Len(Contents("reader"))

BlockDone == load.record = Len(Contents("reader"))

\* The block is done with.
MergeUnpin ==
  /\ Merging /\ out["reader"] # Free /\ BlockDone /\ insert = Done
  /\ Unpin("reader")
  /\ load' = [load EXCEPT !.block = @ + 1]
  /\ UNCHANGED <<insert, loads>>

\* database_open_existing closes the merged fragment; the next one follows.
MergeClose ==
  /\ Merging /\ out["reader"] = Free /\ load.block = Len(store[Part])
  /\ load' = [load EXCEPT !.left = Tail(@), !.block = 0]
  /\ UNCHANGED <<store, out, insert, loads>>

\* All fragments are loaded.
Loaded ==
  /\ load.at = "merging" /\ load.left = <<>>
  /\ load' = [load EXCEPT !.at = "open"]
  /\ UNCHANGED <<store, out, insert, loads>>

\* The process dies; what block_unpin and block_allocate wrote stays.
Crash ==
  /\ load.at # "closed"
  /\ out' = [h \in Handles |-> Free] /\ insert' = Done /\ load' = ClosedDb
  /\ UNCHANGED <<store, loads>>

Next ==
  \/ \E parts \in BoundedSeq(Parts, Cardinality(Parts)) : Open(parts)
  \/ MergeGet \/ MergeInsert \/ Insert \/ MergeUnpin \/ MergeClose \/ Loaded
  \/ Crash

Spec == Init /\ [][Next]_vars

-----------------------------------------------------------------------------
(* Once loaded, a scan of the table returns the records of the fragments   *)
(* asked for, each once and in their order, whatever was loaded before and *)
(* however an earlier load was interrupted.                                *)
LoadedIsConcatenation ==
  load.at = "open" =>
    Scan(Temp) = FlattenSeq([i \in DOMAIN load.parts |-> Scan(load.parts[i])])

(* Between opens the copy only grows, by one whole record at a time: a     *)
(* death at any step of heap_file_insert leaves no torn or lost record,    *)
(* though a block is allocated, edited and written in separate steps.      *)
GrowsByRecords ==
  [][store'[Temp] # store[Temp] /\ load'.at # "closed" /\ loads' = loads =>
       \/ Scan(Temp)' = Scan(Temp)
       \/ \E r \in Records : Scan(Temp)' = Append(Scan(Temp), r)]_vars

(* Loading never changes a fragment: it can be loaded again.               *)
FragmentsKept == [][\A f \in Parts : store'[f] = store[f]]_vars

(* Loading uses blocks the way the block layer expects of its callers: a   *)
(* block is in use by one Block struct at a time, though a merge reads one *)
(* file while it inserts into another, and a struct is unpinned before it  *)
(* is used for another block.  But for the copying, which is another       *)
(* program's, and a death, every step is a step of the block device.       *)
KeepsDiscipline ==
  [][loads' = loads /\ load'.at # "closed" => Device!Next]_<<store, out>>
=============================================================================
