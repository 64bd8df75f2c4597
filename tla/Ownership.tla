-------------------------------- MODULE Ownership --------------------------------
(***************************************************************************)
(* What the pointers to one allocation promise: the object is deleted once, *)
(* when its last owner has left, and nobody becomes an owner afterwards; the *)
(* reference counts live until the last observer has left as well.  The      *)
(* promise may lapse, but never while there is an owner.                     *)
(***************************************************************************)
CONSTANTS Handles, First

VARIABLES owners, observers, object, kept

vars == <<owners, observers, object, kept>>

Init == owners = {First} /\ observers = {} /\ object = "alive" /\ kept = TRUE

Join(h) ==
    /\ owners # {} /\ h \notin owners
    /\ owners' = owners \cup {h}
    /\ UNCHANGED <<observers, object>>

Leave(h) ==
    /\ h \in owners
    /\ owners' = owners \ {h}
    /\ UNCHANGED <<observers, object>>

Observe(h) ==
    /\ object # "freed" /\ h \notin observers
    /\ observers' = observers \cup {h}
    /\ UNCHANGED <<owners, object>>

Forget(h) ==
    /\ h \in observers
    /\ observers' = observers \ {h}
    /\ UNCHANGED <<owners, object>>

\* g takes the place of h
Succeed(h, g) ==
    /\ h # g
    /\ \/ /\ h \in owners /\ g \notin owners
          /\ owners' = (owners \ {h}) \cup {g}
          /\ UNCHANGED observers
       \/ /\ h \in observers /\ g \notin observers
          /\ observers' = (observers \ {h}) \cup {g}
          /\ UNCHANGED owners
    /\ UNCHANGED object

Delete ==
    /\ owners = {} /\ object = "alive"
    /\ object' = "deleted"
    /\ UNCHANGED <<owners, observers>>

Free ==
    /\ owners = {} /\ observers = {} /\ object = "deleted"
    /\ object' = "freed"
    /\ UNCHANGED <<owners, observers>>

\* Nobody owns the object any more, and from here on anything may happen
Lapse == (owners = {} \/ ~kept) /\ kept' = FALSE

Kept ==
    \/ \E h \in Handles : Join(h) \/ Leave(h) \/ Observe(h) \/ Forget(h)
    \/ \E h, g \in Handles : Succeed(h, g)
    \/ Delete \/ Free

Next == (kept /\ kept' /\ Kept) \/ Lapse

Spec == Init /\ [][Next]_vars
================================================================================
