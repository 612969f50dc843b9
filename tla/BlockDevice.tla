---------------------------- MODULE BlockDevice ----------------------------
(***************************************************************************)
(* What the block layer promises its callers, with no cache and no file    *)
(* descriptors: files are sequences of blocks, a caller checks a copy of a *)
(* block out, may edit it, and checks it in; what was checked in is what   *)
(* the next check-out returns.  BlockStore.tla implements this.            *)
(***************************************************************************)
EXTENDS Naturals, SequencesExt

CONSTANTS Files, MaxBlocks, Contents, Zero, Handles, Free

VARIABLES
  store, \* what each file holds
  out    \* per handle the copy it has checked out, or Free

vars == <<store, out>>

Copies == [file : Files, number : 0..(MaxBlocks - 1), contents : Contents]

Init ==
  /\ store \in [Files -> BoundedSeq(Contents, MaxBlocks)]
  /\ out = [h \in Handles |-> Free]

CheckedOut(f, n) ==
  \E h \in Handles : out[h] # Free /\ out[h].file = f /\ out[h].number = n

\* Start a file over; nothing of it is in use.
Create(f) ==
  /\ \A n \in 0..(MaxBlocks - 1) : ~CheckedOut(f, n)
  /\ store' = [store EXCEPT ![f] = <<>>]
  /\ UNCHANGED out

\* Append a block of zeroes and check it out.
Extend(h, f) ==
  /\ out[h] = Free
  /\ Len(store[f]) < MaxBlocks
  /\ store' = [store EXCEPT ![f] = Append(@, Zero)]
  /\ out' = [out EXCEPT ![h] =
               [file |-> f, number |-> Len(store[f]), contents |-> Zero]]

CheckOut(h, f, n) ==
  /\ out[h] = Free
  /\ n < Len(store[f]) /\ ~CheckedOut(f, n)
  /\ out' = [out EXCEPT ![h] =
               [file |-> f, number |-> n, contents |-> store[f][n + 1]]]
  /\ UNCHANGED store

Edit(h, c) ==
  /\ out[h] # Free
  /\ out' = [out EXCEPT ![h].contents = c]
  /\ UNCHANGED store

CheckIn(h) ==
  /\ out[h] # Free
  /\ store' = [store EXCEPT ![out[h].file][out[h].number + 1] = out[h].contents]
  /\ out' = [out EXCEPT ![h] = Free]

Next ==
  \/ \E f \in Files : Create(f)
  \/ \E h \in Handles :
       \/ \E f \in Files : Extend(h, f)
       \/ \E f \in Files, n \in 0..(MaxBlocks - 1) : CheckOut(h, f, n)
       \/ \E c \in Contents : Edit(h, c)
       \/ CheckIn(h)

Spec == Init /\ [][Next]_vars
=============================================================================
