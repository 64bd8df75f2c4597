------------------------------ MODULE BatchChannel ------------------------------
(***************************************************************************)
(* What a direction of a session's connection promises: batches of messages *)
(* arrive whole, once and in the order they were sent; when the connection   *)
(* ends, those at the end may be missing.                                    *)
(***************************************************************************)
EXTENDS Integers, Sequences

CONSTANT Batches

VARIABLES sent, received

Init == sent = <<>> /\ received = <<>>

Send(b) == sent' = Append(sent, b) /\ UNCHANGED received

Receive ==
    /\ Len(received) < Len(sent)
    /\ received' = SubSeq(sent, 1, Len(received) + 1)
    /\ UNCHANGED sent

Next == (\E b \in Batches : Send(b)) \/ Receive

Spec == Init /\ [][Next]_<<sent, received>>
================================================================================
