---------------------------- MODULE MCSharedPointers ----------------------------
(***************************************************************************)
(* Handles for SharedPointers.  Nothing is claimed of what follows a state   *)
(* with spoiled, so such a state is checked but not followed.                *)
(***************************************************************************)
EXTENDS SharedPointers, TLC

CONSTANTS h1, h2, h3, h4, h5, h6

Symmetry == Permutations(Handles \ {First})

Unspoiled == ~spoiled
================================================================================
