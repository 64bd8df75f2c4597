------------------------------ MODULE StateStream ------------------------------
(***************************************************************************)
(* One variable that rollback can take back: RF::state::StateStream, a    *)
(* list of the last changes of a value in the order of their times.  The   *)
(* two vectors of the code, times and values, are one function from the    *)
(* times of the changes to the values; it says the same, since the times   *)
(* are sorted and all different.  Times are frames.                        *)
(***************************************************************************)
EXTENDS Integers, FiniteSets, FiniteSetsExt, Functions

CONSTANTS
    Values,             \* what a variable may hold
    Default,            \* ValueType{}: what it reads before its first change
    LastFrame,          \* bound: the last frame
    PerfOptimizations   \* config::flag::kRollbackPerfOptimizations

ASSUME StreamAssumption ==
    /\ Default \in Values
    /\ LastFrame \in Nat \ {0}
    /\ PerfOptimizations \in BOOLEAN

Frames == 0 .. LastFrame

Streams == UNION {[times -> Values] : times \in SUBSET Frames}

NewStream == [u \in {} |-> Default]

Before(s, t) == {u \in DOMAIN s : u < t}

UpTo(s, t) == {u \in DOMAIN s : u <= t}

\* Nothing of what was changed at t or later remains
Discard(s, t) == Restrict(s, Before(s, t))

\* Does v repeat the value that holds just before t?
Repeats(s, t, v) == Before(s, t) # {} /\ s[Max(Before(s, t))] = v

\* A mutant of Kept that drops the oldest change also for one that replaces others
KeptOfFull(s, t, max) ==
    IF Cardinality(DOMAIN s) = max
    THEN Before(s, t) \ {Min(DOMAIN s)}
    ELSE Before(s, t)

\* A full stream drops its oldest change for one at its end
Kept(s, t, max) ==
    IF Before(s, t) = DOMAIN s /\ Cardinality(DOMAIN s) = max
    THEN Before(s, t) \ {Min(DOMAIN s)}
    ELSE Before(s, t)

\* A change at t removes all later ones.  One that changes nothing is not kept,
\* except that builds without the optimization append it at the end.
Write(s, t, v, max) ==
    IF Repeats(s, t, v) /\ (PerfOptimizations \/ Before(s, t) # DOMAIN s)
    THEN Discard(s, t)
    ELSE [u \in Kept(s, t, max) \cup {t} |-> IF u = t THEN v ELSE s[u]]

Read(s, t) == IF UpTo(s, t) = {} THEN Default ELSE s[Max(UpTo(s, t))]

EarliestTime(s) == IF DOMAIN s = {} THEN 0 ELSE Min(DOMAIN s)

================================================================================
