------------------------------ MODULE Lockstep ------------------------------
(***************************************************************************)
(* What the rollback machinery promises, whatever it predicts meanwhile:   *)
(* deterministic lockstep.  log[q] holds, frame by frame, the commands of  *)
(* player q that can no longer change, history[p] what peer p has computed *)
(* the state of its confirmed frames from.  Both only grow, and a peer     *)
(* confirms a frame from exactly the commands all players' logs hold.      *)
(***************************************************************************)
EXTENDS Naturals, Sequences, SequencesExt

CONSTANTS Peers, Players

VARIABLES log, history

Init == /\ log = [q \in Players |-> <<>>]
        /\ history = [p \in Peers |-> <<>>]

Grows(f, g) == \A x \in DOMAIN f : IsPrefix(f[x], g[x])

FromTheLog(l, h) ==
  \A q \in Players : IsPrefix([f \in 1 .. Len(h) |-> h[f][q]], l[q])

Next == /\ Grows(log, log')
        /\ Grows(history, history')
        /\ \A p \in Peers : FromTheLog(log', history'[p])

Spec == Init /\ [][Next]_<<log, history>>
=============================================================================
