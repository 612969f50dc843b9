--------------------------- MODULE MCLinkedQueue ---------------------------
(* Four interchangeable addresses: enough for a node with two neighbours  *)
(* on each side to be unlinked, and for an entry to be queued twice.      *)
EXTENDS LinkedQueue

AddressSymmetry == Permutations(Nodes)
=============================================================================
