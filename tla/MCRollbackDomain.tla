---------------------------- MODULE MCRollbackDomain ----------------------------
(* Instances of RollbackDomain for TLC. *)
EXTENDS RollbackDomain

\* At most this many snapshots are held at once
MaxHeld == 2

Held == {i \in {1, 2} : auto[i] # NoSnapshot} \cup {n \in Names : manual[n].taken}

FewSnapshots == Cardinality(Held) <= MaxHeld
================================================================================
