--------------------------- MODULE MCRollbackPeers ---------------------------
(***************************************************************************)
(* Model values for RollbackPeers: every player sits at a peer of its own, *)
(* named alike.                                                            *)
(***************************************************************************)
EXTENDS RollbackPeers, TLC

CONSTANTS p1, p2, p3, a, b

Symmetry == Permutations(Peers)
TwoPlayers == (p1 :> p1) @@ (p2 :> p2)
TwoCommandsEach == [q \in Players |-> 2]
TwoAndOne == (p1 :> 2) @@ (p2 :> 1)
=============================================================================
