------------------------------ MODULE JoinPins ------------------------------
(***************************************************************************)
(* The blocks that reading a table and joining two tables keep in use:     *)
(* heap_file_scan and heap_file_filter (src/rdbms/db_files/heapfile.c),    *)
(* heap_file_bnl and heap_file_hash_join (src/rdbms/joins), over the       *)
(* buffer pool.  What they return is the business of Joins.                *)
(*                                                                         *)
(* Unlike the callers of BlockStore, joins hold many blocks with two Block *)
(* structs: a struct that is given another block does not unpin the one it *)
(* had.  The nested loop join keeps the whole inner table if the pool has  *)
(* the room, and unpins it at its end; a hash join on NOT_EQUAL always     *)
(* does, and gets its blocks with both structs.                            *)
(*                                                                         *)
(* Operations follow one another on a pool in which blocks of earlier ones *)
(* are cached.  Data blocks count from 0, the schema's are left out.       *)
(***************************************************************************)
EXTENDS BufferManager

CONSTANTS
  FirstBlock, \* the number of the first data block
  SelfJoins   \* "hashed": a nested loop join has two tables, "any": or one

ASSUME JoinAssumption ==
  FirstBlock \in Nat /\ SelfJoins \in {"hashed", "any"}

VARIABLES
  blocks, \* how many data blocks each table has
  run     \* the operation under way

joinVars == <<status, array, pq, count, program, blocks, run>>

Kinds == {"scan", "nested", "equal", "unequal"}

\* i and j are the loops' counters; in a join, i runs over the outer table
\* (in "build" and "pairs" over the inner one) and j over the inner.
Idle == [at |-> "idle"]
Running(kind, at, outer, inner, inMemory) ==
  [kind |-> kind, at |-> at, outer |-> outer, inner |-> inner, i |-> 0, j |-> 0,
   inMemory |-> inMemory]
Places == {"outer", "inner", "got", "build", "built", "pairs", "release", "probe", "probed"}
Runs == [kind : Kinds, at : Places, outer : Files, inner : Files, i : Nat, j : Nat,
         inMemory : BOOLEAN]

JoinsTypeOK ==
  /\ PoolTypeOK
  /\ blocks \in [Files -> 0..MaxBlocks]
  /\ run \in Runs \cup {Idle}
  /\ run # Idle => /\ blocks[run.inner] <= blocks[run.outer]
                   /\ run.i <= blocks[run.outer] /\ run.j <= blocks[run.inner]

JoinsInit ==
  /\ PoolInit
  /\ blocks \in [Files -> 0..MaxBlocks]
  /\ run = Idle

-----------------------------------------------------------------------------
\* block_get and block_unpin, of a block that is not edited.
Get(f, n) ==
  IF status[<<f, n>>] = "absent" THEN Insert(<<f, n>>, Zero) ELSE Allocate(<<f, n>>)
Unpin(f, n) == SetInactive(<<f, n>>)

Goto(at) == [run EXCEPT !.at = at]
Step(at, i, j) == [run EXCEPT !.at = at, !.i = i, !.j = j]

\* A slip in heap_file_bnl: no room is left for the outer block.
FitsBarely(inner) == AvailableSpace >= blocks[inner]

\* buffer_manager_available_space (...) > right_block_num + 1
Fits(inner) == AvailableSpace > blocks[inner] + FirstBlock + 1

ScanTable(f) ==
  /\ run = Idle
  /\ run' = Running("scan", "probe", f, f, FALSE)
  /\ UNCHANGED <<poolVars, blocks>>

\* The table with fewer blocks is the inner one.
Join(kind, f, g) ==
  LET swapped == blocks[g] > blocks[f]
      outer == IF swapped THEN g ELSE f
      inner == IF swapped THEN f ELSE g IN
  /\ run = Idle
  /\ kind = "nested" /\ SelfJoins = "hashed" => f # g
  /\ run' = IF kind = "nested"
            THEN Running(kind, "outer", outer, inner, Fits(inner))
            ELSE Running(kind, "build", outer, inner, FALSE)
  /\ UNCHANGED <<poolVars, blocks>>

-----------------------------------------------------------------------------
\* heap_file_bnl

NestedOuter ==
  /\ run.at = "outer" /\ run.i < blocks[run.outer]
  /\ Get(run.outer, run.i)
  /\ run' = Step("inner", run.i, 0)
  /\ UNCHANGED blocks

NestedInner ==
  /\ run.at = "inner" /\ run.j < blocks[run.inner]
  /\ Get(run.inner, run.j)
  /\ run' = Goto("got")
  /\ UNCHANGED blocks

\* A slip in heap_file_bnl: in_memory_join==1
KeepsOthers == ~run.inMemory

Keeps == run.inMemory

\* if(in_memory_join==0) block_unpin (allocator, fd2, &block2)
NestedNext ==
  /\ run.at = "got"
  /\ IF Keeps THEN UNCHANGED poolVars ELSE Unpin(run.inner, run.j)
  /\ run' = Step("inner", run.i, run.j + 1)
  /\ UNCHANGED blocks

NestedUnpin ==
  /\ run.at = "inner" /\ run.j = blocks[run.inner]
  /\ Unpin(run.outer, run.i)
  /\ run' = Step("outer", run.i + 1, 0)
  /\ UNCHANGED blocks

NestedEnd ==
  /\ run.at = "outer" /\ run.i = blocks[run.outer]
  /\ run' = IF run.inMemory THEN Step("release", run.i, 0) ELSE Idle
  /\ UNCHANGED <<poolVars, blocks>>

\* A slip in heap_file_bnl: the loop runs to left_block_num.
LastOuter == blocks[run.outer]

\* right_block_num
LastReleased == blocks[run.inner]

\* The inner blocks are unpinned one by one through one struct.
Release ==
  /\ run.at = "release" /\ run.j < LastReleased
  /\ Unpin(run.inner, run.j)
  /\ run' = [run EXCEPT !.j = @ + 1]
  /\ UNCHANGED blocks

ReleaseEnd ==
  /\ run.at = "release" /\ run.j = LastReleased
  /\ run' = IF run.kind = "nested" THEN Idle ELSE Step("probe", 0, 0)
  /\ UNCHANGED <<poolVars, blocks>>

-----------------------------------------------------------------------------
\* heap_file_hash_join

Build ==
  /\ run.at = "build" /\ run.i < blocks[run.inner]
  /\ Get(run.inner, run.i)
  /\ run' = Goto("built")
  /\ UNCHANGED blocks

\* EQUAL: the block's records are hashed and it is given back.
BuildEqual ==
  /\ run.at = "built" /\ run.kind = "equal"
  /\ Unpin(run.inner, run.i)
  /\ run' = Step("build", run.i + 1, 0)
  /\ UNCHANGED blocks

\* NOT_EQUAL: all inner blocks are got for each record of the block.  A later
\* record finds them in use and changes nothing; a block may have none.
BuildUnequal ==
  /\ run.at = "built" /\ run.kind = "unequal"
  /\ \/ run' = Step("pairs", run.i, 0)
     \/ run' = Step("build", run.i + 1, 0)
  /\ UNCHANGED <<poolVars, blocks>>

Pairs ==
  /\ run.at = "pairs" /\ run.j < blocks[run.inner]
  /\ Get(run.inner, run.j)
  /\ run' = [run EXCEPT !.j = @ + 1]
  /\ UNCHANGED blocks

PairsEnd ==
  /\ run.at = "pairs" /\ run.j = blocks[run.inner]
  /\ run' = Step("build", run.i + 1, 0)
  /\ UNCHANGED <<poolVars, blocks>>

BuildEnd ==
  /\ run.at = "build" /\ run.i = blocks[run.inner]
  /\ run' = Step(IF run.kind = "equal" THEN "probe" ELSE "release", 0, 0)
  /\ UNCHANGED <<poolVars, blocks>>

-----------------------------------------------------------------------------
\* The loop of heap_file_scan and heap_file_filter, and the one over the outer
\* table of heap_file_hash_join.
Probe ==
  /\ run.at = "probe" /\ run.i < blocks[run.outer]
  /\ Get(run.outer, run.i)
  /\ run' = Goto("probed")
  /\ UNCHANGED blocks

Probed ==
  /\ run.at = "probed"
  /\ Unpin(run.outer, run.i)
  /\ run' = Step("probe", run.i + 1, 0)
  /\ UNCHANGED blocks

ProbeEnd ==
  /\ run.at = "probe" /\ run.i = blocks[run.outer]
  /\ run' = Idle
  /\ UNCHANGED <<poolVars, blocks>>

\* A program that has faulted takes no further step.
JoinsNext ==
  /\ program = "runs"
  /\ \/ \E f \in Files : ScanTable(f)
     \/ \E f, g \in Files, kind \in Kinds \ {"scan"} : Join(kind, f, g)
     \/ NestedOuter \/ NestedInner \/ NestedNext \/ NestedUnpin \/ NestedEnd
     \/ Release \/ ReleaseEnd
     \/ Build \/ BuildEqual \/ BuildUnequal \/ Pairs \/ PairsEnd \/ BuildEnd
     \/ Probe \/ Probed \/ ProbeEnd

JoinsSpec == JoinsInit /\ [][JoinsNext]_joinVars

-----------------------------------------------------------------------------
(* Between operations nothing is pinned and count is back at zero: however *)
(* a join decided to keep its inner table, every block it got was unpinned *)
(* as often as it counted.                                                 *)
AllReleased == run = Idle => With("active") = {} /\ count = 0

(* Whatever is read in whatever order, with blocks got by two structs and  *)
(* given back by one, count is the number of active blocks and the queue   *)
(* holds each inactive block once: so later evictions are of blocks nobody *)
(* uses.                                                                   *)
PoolExact ==
  /\ count = Cardinality(With("active"))
  /\ Range(pq) = With("inactive") /\ IsInjective(pq)

(* No operation unpins a block that is not cached or removes one from an   *)
(* empty queue.                                                            *)
NoFault == program = "runs"

(* A nested loop join never fills the pool: it keeps the inner table only  *)
(* where the outer block fits beside it.                                   *)
NestedFits == run # Idle /\ run.kind = "nested" => Cardinality(With("active")) < Size
=============================================================================
