------------------------------- MODULE WorkQueue -------------------------------
(***************************************************************************)
(* What a work pump promises: items are worked on one at a time, each once, *)
(* in the order in which they were added; only while the pump is open; and  *)
(* it closes only between two items.                                       *)
(***************************************************************************)
EXTENDS Sequences

CONSTANTS Items, NoItem

VARIABLES pending, busy, done, open

vars == <<pending, busy, done, open>>

Init ==
    /\ pending = <<>>
    /\ busy = NoItem
    /\ done = <<>>
    /\ open = FALSE

Add(i) == pending' = Append(pending, i) /\ UNCHANGED <<busy, done, open>>

Take ==
    /\ open /\ busy = NoItem /\ pending # <<>>
    /\ busy' = Head(pending)
    /\ pending' = Tail(pending)
    /\ UNCHANGED <<done, open>>

Finish ==
    /\ open /\ busy # NoItem
    /\ done' = Append(done, busy)
    /\ busy' = NoItem
    /\ UNCHANGED <<pending, open>>

Open == ~open /\ open' = TRUE /\ UNCHANGED <<pending, busy, done>>

Close == open /\ busy = NoItem /\ open' = FALSE /\ UNCHANGED <<pending, busy, done>>

Next == (\E i \in Items : Add(i)) \/ Take \/ Finish \/ Open \/ Close

Spec == Init /\ [][Next]_vars

================================================================================
