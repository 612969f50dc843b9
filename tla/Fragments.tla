----------------------------- MODULE Fragments -----------------------------
(***************************************************************************)
(* How load_database (src/net/main.c) deals the database's fragments, the  *)
(* directories data0/, data1/, ..., to the peers it counted: fragment i    *)
(* goes to slot i % peer_count, where slot 0 is the leader itself.         *)
(***************************************************************************)
EXTENDS Naturals

CONSTANT FragmentCount \* FRAGMENT_COUNT

ASSUME FragmentAssumption == FragmentCount \in Nat

Fragments == 0..(FragmentCount - 1)

\* fragments_per_peer[slot] when `count' peers take part.
Share(slot, count) == {i \in Fragments : i % count = slot}
=============================================================================
