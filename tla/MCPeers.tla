------------------------------ MODULE MCPeers ------------------------------
(* Two interchangeable peers. *)
EXTENDS Peers, TLC

PeerSymmetry == Permutations(Nodes)
=============================================================================
