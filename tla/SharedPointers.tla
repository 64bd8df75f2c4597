----------------------------- MODULE SharedPointers -----------------------------
(***************************************************************************)
(* The pointers of core/ptr to one allocation: SharedPtr, UniquePtr, WeakPtr *)
(* and WeakSharedPtr, and the PtrRef with the two counts they share.  Every  *)
(* variable that may hold a pointer is a handle.  Threads copy, lock, move    *)
(* and destroy handles of their own at the same time, so every access to a   *)
(* count is a step; only what is local to one thread is joined to the next.  *)
(* A variable is not changed while another thread reads it: that much the    *)
(* callers owe.                                                              *)
(* What a Lock that comes too late returns has no target but still the       *)
(* reference, and it is copied and destroyed like every other SharedPtr:     *)
(* spoiled says that such a pointer has touched a count nobody kept for it.  *)
(***************************************************************************)
EXTENDS Integers, FiniteSets

CONSTANTS
    Handles,
    First,          \* the handle the CreationPayload goes to
    NumCounts       \* the values of PtrRef::CountType, 2^32 in the code

ASSUME PointersAssumption ==
    /\ First \in Handles /\ IsFiniteSet(Handles)
    /\ NumCounts \in Nat /\ Cardinality(Handles) + 1 < NumCounts

VARIABLES
    kind,           \* the type of pointer in the handle, or "none": mRef is null
    target,         \* mTarget is not null
    step,           \* where its construction or destruction is, or "rest"
    source,         \* the handle it is constructed from, or itself
    seen,           \* currentCount of IncreaseStrongCount
    mStrongCount,
    mWeakCount,
    deletions,      \* how often the target was deleted
    refDeletions,   \* how often the PtrRef was
    spoiled         \* history: a count was touched that nobody kept

counts == <<mStrongCount, mWeakCount>>
deleted == <<deletions, refDeletions>>
vars == <<kind, target, step, source, seen, counts, deleted, spoiled>>

Strong == {"unique", "shared"}
Weak == {"weak", "weakShared"}

Init ==
    /\ \E k \in Strong : kind = [h \in Handles |-> IF h = First THEN k ELSE "none"]
    /\ target = [h \in Handles |-> h = First]
    /\ step = [h \in Handles |-> "rest"]
    /\ source = [h \in Handles |-> h]
    /\ seen = [h \in Handles |-> 0]
    /\ mStrongCount = 1 /\ mWeakCount = 1
    /\ deletions = 0 /\ refDeletions = 0
    /\ spoiled = FALSE

------------------------------------------------------------------------------
(* Who may do what with a handle.                                           *)

Usable(h) == kind[h] # "none" /\ step[h] = "rest"

Locked(h) == kind[h] = "weakShared" /\ \E g \in Handles \ {h} : source[g] = h

\* Lock is not const, the other reads are
Readable(h) == Usable(h) /\ ~Locked(h)

Unread(h) == \A g \in Handles \ {h} : source[g] # h

Changeable(h) == Usable(h) /\ Unread(h)
Vacant(h) == kind[h] = "none" /\ Unread(h)

\* The handle holds nothing any more
Clear(h) ==
    /\ kind' = [kind EXCEPT ![h] = "none"]
    /\ target' = [target EXCEPT ![h] = FALSE]
    /\ step' = [step EXCEPT ![h] = "rest"]

Goto(h, s) == step' = [step EXCEPT ![h] = s]

\* What an access finds in a count: anything, once the PtrRef is freed
Found(count) == IF refDeletions = 0 THEN {count} ELSE 0 .. NumCounts - 1

Spoils(untended) == spoiled' = (spoiled \/ untended)

------------------------------------------------------------------------------
(* Strong pointers from others.                                             *)

\* SharedPtr( SharedPtr const& ) up to IncreaseStrongCount
Copy(s, h) ==
    /\ kind[s] = "shared" /\ Readable(s) /\ Vacant(h) /\ s # h
    /\ kind' = [kind EXCEPT ![h] = "shared"]
    /\ target' = [target EXCEPT ![h] = target[s]]
    /\ source' = [source EXCEPT ![h] = s]
    /\ Goto(h, "load")
    /\ UNCHANGED <<seen, counts, deleted, spoiled>>

\* WeakSharedPtr::Lock up to IncreaseStrongCount
Lock(w, h) ==
    /\ kind[w] = "weakShared" /\ Changeable(w) /\ Vacant(h)
    /\ kind' = [kind EXCEPT ![h] = "shared"]
    /\ source' = [source EXCEPT ![h] = w]
    /\ Goto(h, "load")
    /\ UNCHANGED <<target, seen, counts, deleted, spoiled>>

\* IncreaseStrongCount returns: a copy is complete, Lock goes on
Increased(h, s) ==
    IF kind[source[h]] = "weakShared"
    THEN Goto(h, s) /\ UNCHANGED source
    ELSE Goto(h, "rest") /\ source' = [source EXCEPT ![h] = h]

\* A mutant of Load that does not look for zero
LoadAny(h) ==
    /\ step[h] = "load"
    /\ \E n \in Found(mStrongCount) : seen' = [seen EXCEPT ![h] = n]
    /\ Goto(h, "swap")
    /\ Spoils(refDeletions # 0)
    /\ UNCHANGED <<kind, target, source, counts, deleted>>

Load(h) ==
    /\ step[h] = "load"
    /\ \E n \in Found(mStrongCount) :
        IF n = 0
        THEN Increased(h, "late") /\ UNCHANGED seen
        ELSE /\ seen' = [seen EXCEPT ![h] = n]
             /\ Goto(h, "swap")
             /\ UNCHANGED source
    /\ Spoils(refDeletions # 0)
    /\ UNCHANGED <<kind, target, counts, deleted>>

\* A mutant of CompareExchange that stores without comparing
Store(h) ==
    /\ step[h] = "swap"
    /\ mStrongCount' = (seen[h] + 1) % NumCounts
    /\ Increased(h, "locked")
    /\ seen' = [seen EXCEPT ![h] = 0]
    /\ UNCHANGED <<kind, target, mWeakCount, deleted, spoiled>>

\* compare_exchange_weak, which may fail for no reason
CompareExchange(h) ==
    /\ step[h] = "swap"
    /\ \/ /\ seen[h] \in Found(mStrongCount)
          /\ mStrongCount' = (seen[h] + 1) % NumCounts
          /\ Increased(h, "locked")
       \/ /\ Goto(h, "load")
          /\ UNCHANGED <<source, mStrongCount>>
    /\ seen' = [seen EXCEPT ![h] = 0]
    /\ UNCHANGED <<kind, target, mWeakCount, deleted, spoiled>>

\* SanitizeTarget and the payload Lock returns
SanitizeTarget(h) ==
    /\ step[h] \in {"locked", "late"}
    /\ \E n \in Found(mStrongCount) :
        LET w == source[h]
            kept == target[w] /\ n # 0
        IN target' = [target EXCEPT ![w] = kept, ![h] = kept]
    /\ Goto(h, "rest")
    /\ source' = [source EXCEPT ![h] = h]
    /\ UNCHANGED <<kind, seen, counts, deleted, spoiled>>

------------------------------------------------------------------------------
(* Weak pointers, and moves.                                                *)

\* Conversions and copies; a WeakSharedPtr comes from a SharedPtr or its like
MakeWeak(s, h, k) ==
    /\ Readable(s) /\ Vacant(h) /\ s # h
    /\ k = "weakShared" => kind[s] \in {"shared", "weakShared"}
    /\ kind' = [kind EXCEPT ![h] = k]
    /\ target' = [target EXCEPT ![h] = target[s]]
    /\ \E n \in Found(mWeakCount) : mWeakCount' = (n + 1) % NumCounts
    /\ Spoils(mWeakCount = 0)
    /\ UNCHANGED <<step, source, seen, mStrongCount, deleted>>

\* Move construction, and PtrTransformer from UniquePtr to SharedPtr
Move(s, h, k) ==
    /\ Changeable(s) /\ Vacant(h) /\ s # h
    /\ k = kind[s] \/ (kind[s] = "unique" /\ k = "shared")
    /\ kind' = [kind EXCEPT ![h] = k, ![s] = "none"]
    /\ target' = [target EXCEPT ![h] = target[s], ![s] = FALSE]
    /\ UNCHANGED <<step, source, seen, counts, deleted, spoiled>>

------------------------------------------------------------------------------
(* Destruction.                                                             *)

\* ~UniquePtr makes sure that it is the only strong owner, or aborts
IsUniqueStrongOwner(h) ==
    /\ kind[h] = "unique" /\ Changeable(h)
    /\ \E n \in Found(mStrongCount) : Goto(h, IF n = 1 THEN "decrease" ELSE "aborted")
    /\ UNCHANGED <<kind, target, source, seen, counts, deleted, spoiled>>

Minus1(n) == (n - 1) % NumCounts

DecreaseStrongCount(h) ==
    /\ \/ kind[h] = "shared" /\ Changeable(h)
       \/ step[h] = "decrease"
    /\ \E n \in Found(mStrongCount) :
        /\ mStrongCount' = Minus1(n)
        /\ IF n = 1
           THEN Goto(h, "delete") /\ UNCHANGED <<kind, target>>
           ELSE Clear(h)
    /\ Spoils(mStrongCount = 0)
    /\ UNCHANGED <<source, seen, mWeakCount, deleted>>

Delete(h) ==
    /\ step[h] = "delete"
    /\ deletions' = IF target[h] THEN deletions + 1 ELSE deletions
    /\ target' = [target EXCEPT ![h] = FALSE]
    /\ Goto(h, "release")
    /\ UNCHANGED <<kind, source, seen, counts, refDeletions, spoiled>>

\* A mutant of DecreaseWeakCount that frees what one pointer still counts on
DecreaseWeakEarly(h) ==
    /\ \/ kind[h] \in Weak /\ Changeable(h)
       \/ step[h] = "release"
    /\ mWeakCount' = Minus1(mWeakCount)
    /\ IF mWeakCount' <= 1
       THEN Goto(h, "deleteSelf") /\ UNCHANGED <<kind, target>>
       ELSE Clear(h)
    /\ UNCHANGED <<source, seen, mStrongCount, deleted, spoiled>>

\* By a weak pointer, and once on behalf of all the strong ones
DecreaseWeakCount(h) ==
    /\ \/ kind[h] \in Weak /\ Changeable(h)
       \/ step[h] = "release"
    /\ \E n \in Found(mWeakCount) :
        /\ mWeakCount' = Minus1(n)
        /\ IF n = 1
           THEN Goto(h, "deleteSelf") /\ UNCHANGED <<kind, target>>
           ELSE Clear(h)
    /\ UNCHANGED <<source, seen, mStrongCount, deleted, spoiled>>

DeleteSelf(h) ==
    /\ step[h] = "deleteSelf"
    /\ refDeletions' = refDeletions + 1
    /\ Clear(h)
    /\ UNCHANGED <<source, seen, counts, deletions, spoiled>>

------------------------------------------------------------------------------
Next ==
    \/ \E s, h \in Handles :
        \/ Copy(s, h) \/ Lock(s, h)
        \/ \E k \in Weak : MakeWeak(s, h, k)
        \/ \E k \in Strong \cup Weak : Move(s, h, k)
    \/ \E h \in Handles :
        \/ Load(h) \/ CompareExchange(h) \/ SanitizeTarget(h)
        \/ IsUniqueStrongOwner(h) \/ DecreaseStrongCount(h) \/ Delete(h)
        \/ DecreaseWeakCount(h) \/ DeleteSelf(h)

Spec == Init /\ [][Next]_vars

------------------------------------------------------------------------------
(* Properties *)

TypeOK ==
    /\ kind \in [Handles -> Strong \cup Weak \cup {"none"}]
    /\ target \in [Handles -> BOOLEAN]
    /\ step \in [Handles -> {"rest", "load", "swap", "locked", "late", "decrease", "aborted",
                             "delete", "release", "deleteSelf"}]
    /\ source \in [Handles -> Handles]
    /\ seen \in [Handles -> 0 .. NumCounts - 1]
    /\ mStrongCount \in 0 .. NumCounts - 1 /\ mWeakCount \in 0 .. NumCounts - 1
    /\ deletions \in Nat /\ refDeletions \in Nat
    /\ spoiled \in BOOLEAN

\* The handles the strong count counts, once their construction has counted them
Owners ==
    {h \in Handles : kind[h] \in Strong /\ \/ step[h] = "rest" /\ target[h]
                                           \/ step[h] \in {"locked", "decrease", "aborted"}}
Observers == {h \in Handles : kind[h] \in Weak /\ step[h] = "rest"}

\* What Lock returns when it comes too late, no target but a reference, and its copies
Empty(h) ==
    /\ kind[h] = "shared" /\ ~target[h]
    /\ step[h] = "rest" \/ (step[h] = "load" /\ kind[source[h]] = "shared")

Object ==
    CASE deletions = 0 /\ refDeletions = 0 -> "alive"
      [] deletions = 1 /\ refDeletions = 0 -> "deleted"
      [] deletions = 1 /\ refDeletions = 1 -> "freed"
      [] OTHER -> "broken"

(* The pointers keep what Ownership promises, however copies, locks and         *)
(* destructions of different threads interleave: the last owner's leaving       *)
(* deletes the target, once, and a Lock that comes later gets nothing.  The      *)
(* promise lapses when what a late Lock returned is destroyed, copied or         *)
(* weakened and finds a count at zero; while there is an owner it cannot lapse.  *)
Promise == INSTANCE Ownership
           WITH owners <- Owners, observers <- Observers, object <- Object, kept <- ~spoiled
ImplementsOwnership == Promise!Spec

(* A weak reference that resolves to a target resolves to a living one, as long  *)
(* as nothing a late Lock returned has touched a count (LateLockIsNull says what *)
(* happens then).                                                                *)
WeakMeansAlive ==
    \A h \in Handles :
        kind[h] \in Weak /\ step[h] = "rest" /\ target[h] /\ mStrongCount # 0
            => deletions = 0 \/ spoiled

(* The PtrRef lives exactly as long as somebody will still read or change its    *)
(* counts: it is not deleted by the last weak pointer while the last strong one  *)
(* deletes the target, nor while a Lock is on its way, and it is not left over   *)
(* when the last pointer is gone.  It does not wait for what late Locks          *)
(* returned, and this holds until one of those spoils the counts.                *)
RefLivesAsLong ==
    spoiled \/ refDeletions = IF \E h \in Handles : kind[h] # "none" /\ ~Empty(h) THEN 0 ELSE 1

(* ~UniquePtr never finds another owner: what a UniquePtr can be turned into     *)
(* lets nobody become an owner behind its back.  No run checks this; it is       *)
(* proved in SharedPointersProofs.                                               *)
UniqueIsSole == spoiled \/ \A h \in Handles : step[h] # "aborted"

(* What a comment claims: "At this time, the strong count is 0, so any attempt   *)
(* to resolve a weak reference should result in a null reference"                *)
(* (core/ptr/ptr_ref.h:113-114).  The destructor of what a late Lock returned    *)
(* takes one from that zero, and weak references resolve again.                  *)
LateLockIsNull ==
    \A h \in Handles :
        kind[h] \in Weak /\ step[h] = "rest" /\ target[h] /\ mStrongCount # 0 => deletions = 0
================================================================================
