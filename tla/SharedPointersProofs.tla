-------------------------- MODULE SharedPointersProofs --------------------------
(***************************************************************************)
(* Proofs about SharedPointers, for any finite number of handles and any     *)
(* width of the counts that has room for them.  What late Locks return is     *)
(* copied and destroyed like the rest; the invariant holds until one of them  *)
(* touches a count at zero, and that takes an object without owners.          *)
(***************************************************************************)
EXTENDS SharedPointers, FiniteSetTheorems, TLAPS

Making == {"load", "swap", "locked", "late"}

\* The handles on whose behalf the weak count has one for the strong pointers
Ending == {h \in Handles : step[h] \in {"delete", "release"}}
Deleting == {h \in Handles : step[h] = "delete"}
Freeing == {h \in Handles : step[h] = "deleteSelf"}

\* What a handle is at each step, and the one it is made from
Shape ==
    \A h \in Handles :
        /\ kind[h] = "none" => step[h] = "rest" /\ ~target[h]
        /\ step[h] \in Making <=> source[h] # h
        /\ step[h] \in Making => kind[h] = "shared" /\ step[source[h]] = "rest"
        /\ step[h] \in {"load", "swap"} =>
                \/ kind[source[h]] = "weakShared"
                \/ /\ kind[source[h]] = "shared" /\ (target[source[h]] <=> target[h])
                   /\ step[h] = "swap" => target[h]
        /\ step[h] \in {"locked", "late"} => kind[source[h]] = "weakShared"
        /\ step[h] = "swap" => seen[h] # 0
        /\ kind[h] = "unique" /\ step[h] = "rest" => target[h]
        /\ step[h] = "decrease" => kind[h] = "unique" /\ target[h]
        /\ step[h] \in {"delete", "release"} => kind[h] \in Strong
        /\ step[h] = "delete" => target[h]
        /\ step[h] = "deleteSelf" => kind[h] # "none"
        /\ step[h] # "aborted"

\* The strong pointers share one of the weak count until the last has released it
Group == IF Owners # {} \/ Ending # {} THEN 1 ELSE 0

Counted ==
    /\ mStrongCount = Cardinality(Owners)
    /\ mWeakCount = Cardinality(Observers) + Group

\* What is deleted when, and by one handle
Deleted ==
    /\ Ending # {} => Owners = {}
    /\ \A g, h \in Ending \cup Freeing : g = h
    /\ Freeing # {} => Owners = {} /\ Observers = {}
    /\ deletions = IF Owners # {} \/ Deleting # {} THEN 0 ELSE 1
    /\ refDeletions = IF Owners \cup Observers \cup Ending \cup Freeing # {} THEN 0 ELSE 1

\* While there is an owner nobody has lost the target
Targets ==
    /\ Owners # {} => \A h \in Handles : kind[h] # "none" /\ step[h] = "rest" => target[h]
    /\ \A h \in Handles : step[h] = "late" => Owners = {}

UniqueAlone ==
    \A h \in Handles : kind[h] = "unique" =>
        \A g \in Handles \ {h} : kind[g] \in {"none", "weak"}

\* The counts are right
Sound == ~spoiled /\ TypeOK /\ Shape /\ Counted /\ Deleted /\ Targets /\ UniqueAlone

PInv == TypeOK /\ (spoiled \/ Sound)

\* What a step is to Ownership
Maps == [Promise!Next]_<<Owners, Observers, Object, ~spoiled>>

\* What a step that leaves the counts alone or right has to show
Keeps == Sound' /\ Maps

USE DEF Strong, Weak, Making, counts, deleted

------------------------------------------------------------------------------
(* Counting.                                                                *)

LEMMA SetsAreFinite ==
    /\ IsFiniteSet(Owners) /\ IsFiniteSet(Observers)
    /\ Cardinality(Owners) \in Nat /\ Cardinality(Owners) <= Cardinality(Handles)
    /\ Cardinality(Observers) \in Nat /\ Cardinality(Observers) <= Cardinality(Handles)
    /\ Cardinality(Owners) = 0 <=> Owners = {}
    /\ Cardinality(Observers) = 0 <=> Observers = {}
    /\ Cardinality(Handles) \in Nat
  <1>1. Owners \subseteq Handles /\ Observers \subseteq Handles
    BY DEF Owners, Observers
  <1> QED
    BY <1>1, PointersAssumption, FS_Subset, FS_CardinalityType, FS_EmptySet

LEMMA Adding ==
  ASSUME NEW S, NEW h, IsFiniteSet(S), h \notin S
  PROVE  Cardinality(S \cup {h}) = Cardinality(S) + 1
  BY FS_AddElement

LEMMA Removing ==
  ASSUME NEW S, NEW h, IsFiniteSet(S), h \in S
  PROVE  /\ Cardinality(S \ {h}) = Cardinality(S) - 1
         /\ Cardinality(S) = 1 <=> S = {h}
  <1>1. Cardinality(S \ {h}) = Cardinality(S) - 1 /\ IsFiniteSet(S \ {h})
    BY FS_RemoveElement
  <1>2. Cardinality(S \ {h}) = 0 <=> S \ {h} = {}
    BY <1>1, FS_EmptySet
  <1>3. Cardinality(S) \in Nat
    BY FS_CardinalityType
  <1> QED
    BY <1>1, <1>2, <1>3

LEMMA Fits ==
  ASSUME NEW n \in Nat, n < NumCounts
  PROVE  n % NumCounts = n
  BY PointersAssumption

(* A step that is one of Ownership's, or none, while the counts are right.      *)
LEMMA KeptSteps ==
  ASSUME ~spoiled, ~spoiled', Promise!Kept \/ UNCHANGED <<Owners, Observers, Object>>
  PROVE  Maps
  BY DEF Maps, Promise!Next

(* The invariant holds at the start. *)
LEMMA InitPInv == Init => PInv
  <1> SUFFICES ASSUME Init PROVE PInv
    OBVIOUS
  <1> USE DEF Init
  <1>1. Owners = {First} /\ Observers = {} /\ Ending = {} /\ Deleting = {} /\ Freeing = {}
    BY PointersAssumption DEF Owners, Observers, Ending, Deleting, Freeing
  <1>2. Cardinality({First}) = 1 /\ Cardinality({}) = 0
    BY FS_Singleton, FS_EmptySet
  <1>3. Cardinality(Handles) \in Nat /\ NumCounts > 1
    BY PointersAssumption, FS_CardinalityType
  <1>4. TypeOK
    <2>1. kind \in [Handles -> Strong \cup Weak \cup {"none"}]
      OBVIOUS
    <2>2. 0 \in 0 .. NumCounts - 1 /\ 1 \in 0 .. NumCounts - 1
      BY <1>3, PointersAssumption
    <2> QED
      BY <2>1, <2>2 DEF TypeOK
  <1>5. Shape
    BY DEF Shape
  <1>6. Counted
    BY <1>1, <1>2 DEF Counted, Group
  <1>7. Deleted
    BY <1>1 DEF Deleted
  <1>8. Targets /\ UniqueAlone
    BY <1>1 DEF Targets, UniqueAlone
  <1> QED
    BY <1>4, <1>5, <1>6, <1>7, <1>8 DEF PInv, Sound

(* Whatever becomes of the counts, they stay numbers of their width.            *)
LEMMA TypesAreKept ==
  ASSUME TypeOK, [Next]_vars
  PROVE  TypeOK'
  <1> USE DEF TypeOK, Goto, Clear, Spoils
  <1>1. NumCounts \in Nat /\ NumCounts > 0 /\ 0 \in 0 .. NumCounts - 1
    BY PointersAssumption, FS_CardinalityType
  <1>2. \A n \in 0 .. NumCounts - 1 :
            (n + 1) % NumCounts \in 0 .. NumCounts - 1 /\ Minus1(n) \in 0 .. NumCounts - 1
    BY <1>1 DEF Minus1
  <1>3. Found(mStrongCount) \subseteq 0 .. NumCounts - 1
        /\ Found(mWeakCount) \subseteq 0 .. NumCounts - 1
    BY DEF Found
  <1>4. CASE UNCHANGED vars
    BY <1>4 DEF vars
  <1>5. ASSUME NEW s \in Handles, NEW h \in Handles, Copy(s, h) \/ Lock(s, h)
        PROVE  TypeOK'
    BY <1>5 DEF Copy, Lock
  <1>6. ASSUME NEW s \in Handles, NEW h \in Handles, NEW k \in Weak, MakeWeak(s, h, k)
        PROVE  TypeOK'
    BY <1>2, <1>3, <1>6 DEF MakeWeak
  <1>7. ASSUME NEW s \in Handles, NEW h \in Handles, NEW k \in Strong \cup Weak, Move(s, h, k)
        PROVE  TypeOK'
    BY <1>7 DEF Move
  <1>8. ASSUME NEW h \in Handles, Load(h)
        PROVE  TypeOK'
    BY <1>3, <1>8 DEF Load, Increased
  <1>9. ASSUME NEW h \in Handles, CompareExchange(h)
        PROVE  TypeOK'
    <2>1. mStrongCount' \in 0 .. NumCounts - 1
      BY <1>2, <1>9 DEF CompareExchange
    <2>2. /\ seen' = [seen EXCEPT ![h] = 0]
          /\ UNCHANGED <<kind, target, mWeakCount, deletions, refDeletions, spoiled>>
      BY <1>9 DEF CompareExchange
    <2>3. step' \in [Handles -> {"rest", "load", "swap", "locked", "late", "decrease", "aborted",
                                 "delete", "release", "deleteSelf"}]
          /\ source' \in [Handles -> Handles]
      BY <1>9 DEF CompareExchange, Increased
    <2> QED
      BY <1>1, <2>1, <2>2, <2>3
  <1>10. ASSUME NEW h \in Handles, SanitizeTarget(h)
         PROVE  TypeOK'
    BY <1>10 DEF SanitizeTarget
  <1>11. ASSUME NEW h \in Handles, IsUniqueStrongOwner(h)
         PROVE  TypeOK'
    <2>1. \E n \in 0 .. NumCounts - 1 :
              step' = [step EXCEPT ![h] = IF n = 1 THEN "decrease" ELSE "aborted"]
      BY <1>3, <1>11 DEF IsUniqueStrongOwner
    <2> QED
      BY <1>11, <2>1 DEF IsUniqueStrongOwner
  <1>12. ASSUME NEW h \in Handles, Delete(h) \/ DeleteSelf(h)
         PROVE  TypeOK'
    <2>1. deletions' \in Nat /\ refDeletions' \in Nat
      BY <1>12 DEF Delete, DeleteSelf
    <2> QED
      BY <1>12, <2>1 DEF Delete, DeleteSelf
  <1>13. ASSUME NEW h \in Handles, DecreaseStrongCount(h)
         PROVE  TypeOK'
    BY <1>2, <1>3, <1>13 DEF DecreaseStrongCount
  <1>14. ASSUME NEW h \in Handles, DecreaseWeakCount(h)
         PROVE  TypeOK'
    <2>1. mWeakCount' \in 0 .. NumCounts - 1
      BY <1>2, <1>3, <1>14 DEF DecreaseWeakCount
    <2>2. /\ kind' = [kind EXCEPT ![h] = "none"] \/ kind' = kind
          /\ target' = [target EXCEPT ![h] = FALSE] \/ target' = target
          /\ step' = [step EXCEPT ![h] = "rest"] \/ step' = [step EXCEPT ![h] = "deleteSelf"]
      BY <1>14 DEF DecreaseWeakCount
    <2>3. UNCHANGED <<source, seen, mStrongCount, deletions, refDeletions, spoiled>>
      BY <1>14 DEF DecreaseWeakCount
    <2> QED
      BY <2>1, <2>2, <2>3
  <1> QED
    BY <1>4, <1>5, <1>6, <1>7, <1>8, <1>9, <1>10, <1>11, <1>13, <1>14, <1>12 DEF Next

------------------------------------------------------------------------------
(* One action at a time: first what becomes of the sets, then the parts of the *)
(* invariant, and at last what the step is to Ownership.                      *)

LEMMA CopyKeepsPInv ==
  ASSUME Sound, TypeOK', ~spoiled', NEW s \in Handles, NEW h \in Handles, Copy(s, h)
  PROVE  Keeps
  <1> USE DEF Sound, Keeps
  <1>1. s # h /\ kind[s] = "shared" /\ step[s] = "rest" /\ kind[h] = "none"
        /\ \A g \in Handles \ {h} : source[g] # h
    BY DEF Copy, Readable, Usable, Vacant, Unread, TypeOK
  <1>2. /\ Owners' = Owners /\ Observers' = Observers
        /\ Ending' = Ending /\ Deleting' = Deleting /\ Freeing' = Freeing
    BY <1>1 DEF Copy, Goto, TypeOK, Shape, Owners, Observers, Ending, Deleting, Freeing
  <1>3. Shape'
    BY <1>1 DEF Copy, Goto, TypeOK, Shape
  <1>4. Counted' /\ Deleted'
    BY <1>2 DEF Copy, Counted, Group, Deleted
  <1>5. Targets'
    BY <1>1, <1>2 DEF Copy, Goto, TypeOK, Shape, Targets
  <1>6. UniqueAlone'
    BY <1>1 DEF Copy, TypeOK, UniqueAlone
  <1>7. Maps
    BY <1>2, KeptSteps DEF Copy, Object
  <1> QED
    BY <1>3, <1>4, <1>5, <1>6, <1>7

LEMMA LockKeepsPInv ==
  ASSUME Sound, TypeOK', ~spoiled', NEW w \in Handles, NEW h \in Handles, Lock(w, h)
  PROVE  Keeps
  <1> USE DEF Sound, Keeps
  <1>1. w # h /\ kind[w] = "weakShared" /\ step[w] = "rest" /\ kind[h] = "none"
        /\ \A g \in Handles \ {h} : source[g] # h
    BY DEF Lock, Changeable, Usable, Vacant, Unread, TypeOK
  <1>2. /\ Owners' = Owners /\ Observers' = Observers
        /\ Ending' = Ending /\ Deleting' = Deleting /\ Freeing' = Freeing
    BY <1>1 DEF Lock, Goto, TypeOK, Shape, Owners, Observers, Ending, Deleting, Freeing
  <1>3. Shape'
    BY <1>1 DEF Lock, Goto, TypeOK, Shape
  <1>4. Counted' /\ Deleted'
    BY <1>2 DEF Lock, Counted, Group, Deleted
  <1>5. Targets'
    BY <1>1, <1>2 DEF Lock, Goto, TypeOK, Shape, Targets
  <1>6. UniqueAlone'
    BY <1>1 DEF Lock, TypeOK, UniqueAlone
  <1>7. Maps
    BY <1>2, KeptSteps DEF Lock, Object
  <1> QED
    BY <1>3, <1>4, <1>5, <1>6, <1>7

(* A load of zero is a Lock's, or that of a copy of what a late Lock returned.  *)
LEMMA LoadKeepsPInv ==
  ASSUME Sound, TypeOK', ~spoiled', NEW h \in Handles, Load(h)
  PROVE  Keeps
  <1> USE DEF Sound, Keeps
  <1>1. /\ step[h] = "load" /\ kind[h] = "shared" /\ source[h] # h /\ source[h] \in Handles
        /\ step[source[h]] = "rest"
        /\ \/ kind[source[h]] = "weakShared"
           \/ kind[source[h]] = "shared" /\ (target[source[h]] <=> target[h])
    BY DEF Load, TypeOK, Shape
  <1>2. mStrongCount = 0 <=> Owners = {}
    BY SetsAreFinite DEF Counted
  <1>3. Found(mStrongCount) = {mStrongCount}
    BY DEF Load, Spoils, Found
  <1>4. kind[source[h]] = "shared" => (target[h] <=> mStrongCount # 0)
    BY <1>1, <1>2 DEF Owners, Targets
  <1>5. /\ UNCHANGED <<kind, target, counts, deleted>>
        /\ \/ /\ mStrongCount = 0 /\ kind[source[h]] = "shared" /\ ~target[h]
              /\ step' = [step EXCEPT ![h] = "rest"] /\ source' = [source EXCEPT ![h] = h]
              /\ seen' = seen
           \/ /\ mStrongCount = 0 /\ kind[source[h]] = "weakShared"
              /\ step' = [step EXCEPT ![h] = "late"]
              /\ source' = source /\ seen' = seen
           \/ /\ mStrongCount # 0
              /\ kind[source[h]] = "shared" => target[h]
              /\ step' = [step EXCEPT ![h] = "swap"]
              /\ source' = source /\ seen' = [seen EXCEPT ![h] = mStrongCount]
    BY <1>1, <1>3, <1>4 DEF Load, Increased, Goto
  <1>6. /\ Owners' = Owners /\ Observers' = Observers
        /\ Ending' = Ending /\ Deleting' = Deleting /\ Freeing' = Freeing
    BY <1>1, <1>5 DEF TypeOK, Owners, Observers, Ending, Deleting, Freeing
  <1>7. Shape'
    BY <1>1, <1>5 DEF TypeOK, Shape
  <1>8. Counted' /\ Deleted'
    BY <1>5, <1>6 DEF Counted, Group, Deleted
  <1>9. Targets' /\ UniqueAlone'
    BY <1>1, <1>2, <1>5, <1>6 DEF TypeOK, Targets, UniqueAlone
  <1>10. Maps
    BY <1>5, <1>6, KeptSteps DEF Object
  <1> QED
    BY <1>7, <1>8, <1>9, <1>10

(* Only an exchange that finds an owner makes another.                          *)
LEMMA CompareExchangeKeepsPInv ==
  ASSUME Sound, TypeOK', ~spoiled', NEW h \in Handles, CompareExchange(h)
  PROVE  Keeps
  <1> USE DEF Sound, Keeps
  <1>1. /\ step[h] = "swap" /\ kind[h] = "shared" /\ source[h] # h /\ source[h] \in Handles
        /\ step[source[h]] = "rest" /\ seen[h] # 0 /\ h \notin Owners
    BY DEF CompareExchange, TypeOK, Shape, Owners
  <1>2. Found(mStrongCount) = {mStrongCount}
    <2>1. source[h] \in Owners \cup Observers
      BY <1>1 DEF Shape, Owners, Observers
    <2> QED
      BY <2>1 DEF Deleted, Found
  <1>3. CASE Goto(h, "load") /\ UNCHANGED <<source, mStrongCount>>
    <2>1. /\ Owners' = Owners /\ Observers' = Observers
          /\ Ending' = Ending /\ Deleting' = Deleting /\ Freeing' = Freeing
      BY <1>1, <1>3 DEF CompareExchange, Goto, TypeOK, Owners, Observers, Ending, Deleting, Freeing
    <2>2. 0 \in 0 .. NumCounts - 1
      BY PointersAssumption, FS_CardinalityType
    <2>3. Shape'
      BY <1>1, <1>3 DEF CompareExchange, Goto, TypeOK, Shape
    <2>4. Counted' /\ Deleted'
      BY <1>3, <2>1 DEF CompareExchange, Counted, Group, Deleted
    <2>5. Targets' /\ UniqueAlone'
      BY <1>1, <1>3, <2>1 DEF CompareExchange, Goto, TypeOK, Targets, UniqueAlone
    <2>6. Maps
      BY <2>1, KeptSteps DEF CompareExchange, Object
    <2> QED
      BY <2>3, <2>4, <2>5, <2>6
  <1>4. CASE /\ mStrongCount = seen[h] /\ mStrongCount' = (seen[h] + 1) % NumCounts
             /\ Increased(h, "locked")
    <2>1. Owners # {} /\ Ending = {} /\ Freeing = {} /\ Deleting = {}
      BY <1>1, <1>4, SetsAreFinite DEF Counted, Deleted, Ending, Deleting, Freeing
    <2>2. /\ Owners' = Owners \cup {h} /\ Observers' = Observers
          /\ Ending' = Ending /\ Deleting' = Deleting /\ Freeing' = Freeing
      BY <1>1, <1>4 DEF CompareExchange, Increased, Goto, TypeOK, Shape, Owners, Observers,
                        Ending, Deleting, Freeing
    <2>3. Cardinality(Owners \cup {h}) = Cardinality(Owners) + 1
          /\ Cardinality(Owners \cup {h}) <= Cardinality(Handles)
      <3>1. Owners \cup {h} \subseteq Handles
        BY DEF Owners
      <3> QED
        BY <3>1, <1>1, SetsAreFinite, Adding, FS_Subset, PointersAssumption
    <2>4. mStrongCount' = mStrongCount + 1 /\ mStrongCount + 1 < NumCounts
          /\ mStrongCount + 1 \in Nat
      BY <1>4, <2>3, SetsAreFinite, Fits, PointersAssumption DEF Counted
    <2>5. Shape'
      BY <1>1, <1>4 DEF CompareExchange, Increased, Goto, TypeOK, Shape
    <2>6. Counted'
      BY <2>1, <2>2, <2>3, <2>4 DEF CompareExchange, Counted, Group
    <2>7. Deleted'
      BY <2>1, <2>2 DEF CompareExchange, Deleted
    <2>8. Targets' /\ UniqueAlone'
      BY <1>1, <1>4, <2>1, <2>2 DEF CompareExchange, Increased, Goto, TypeOK, Shape, Targets,
                                    UniqueAlone
    <2>9. Maps
      <3>1. Promise!Join(h)
        BY <1>1, <2>1, <2>2 DEF CompareExchange, Object, Promise!Join
      <3> QED
        BY <3>1, KeptSteps DEF Promise!Kept
    <2> QED
      BY <2>5, <2>6, <2>7, <2>8, <2>9
  <1> QED
    BY <1>3, <1>4, <1>2 DEF CompareExchange

(* A Lock that counted keeps the target; one that came late gives it up.        *)
LEMMA SanitizeTargetKeepsPInv ==
  ASSUME Sound, TypeOK', ~spoiled', NEW h \in Handles, SanitizeTarget(h)
  PROVE  Keeps
  <1> USE DEF Sound, Keeps
  <1> DEFINE w == source[h]
  <1>1. /\ step[h] \in {"locked", "late"} /\ kind[h] = "shared" /\ w # h /\ w \in Handles
        /\ kind[w] = "weakShared" /\ step[w] = "rest"
    BY DEF SanitizeTarget, TypeOK, Shape
  <1>2. mStrongCount = 0 <=> Owners = {}
    BY SetsAreFinite DEF Counted
  <1>3. (target[w] /\ mStrongCount # 0) = (step[h] = "locked")
    <2>1. CASE step[h] = "locked"
      BY <1>1, <1>2, <2>1 DEF Owners, Targets, TypeOK
    <2>2. CASE step[h] = "late"
      BY <1>1, <1>2, <2>2 DEF Targets
    <2> QED
      BY <1>1, <2>1, <2>2
  <1>4. target' = [target EXCEPT ![w] = step[h] = "locked", ![h] = step[h] = "locked"]
    <2>1. w \in Observers
      BY <1>1 DEF Observers
    <2>2. Found(mStrongCount) = {mStrongCount}
      BY <2>1 DEF Deleted, Found
    <2>3. target' = [target EXCEPT ![w] = target[w] /\ mStrongCount # 0,
                                   ![h] = target[w] /\ mStrongCount # 0]
      BY <2>2 DEF SanitizeTarget
    <2> QED
      BY <1>3, <2>3
  <1>5. /\ Owners' = Owners /\ Observers' = Observers
        /\ Ending' = Ending /\ Deleting' = Deleting /\ Freeing' = Freeing
    BY <1>1, <1>4 DEF SanitizeTarget, Goto, TypeOK, Owners, Observers, Ending, Deleting, Freeing
  <1>6. Shape'
    BY <1>1, <1>4 DEF SanitizeTarget, Goto, TypeOK, Shape
  <1>7. Counted' /\ Deleted'
    BY <1>5 DEF SanitizeTarget, Counted, Group, Deleted
  <1>8. Targets' /\ UniqueAlone'
    BY <1>1, <1>4, <1>5 DEF SanitizeTarget, Goto, TypeOK, Targets, UniqueAlone
  <1>9. Maps
    BY <1>5, KeptSteps DEF SanitizeTarget, Object
  <1> QED
    BY <1>6, <1>7, <1>8, <1>9

LEMMA MakeWeakKeepsPInv ==
  ASSUME Sound, TypeOK', ~spoiled', NEW s \in Handles, NEW h \in Handles, NEW k \in Weak,
         MakeWeak(s, h, k)
  PROVE  Keeps
  <1> USE DEF Sound, Keeps
  <1>1. /\ s # h /\ kind[s] # "none" /\ step[s] = "rest" /\ kind[h] = "none"
        /\ \A g \in Handles \ {h} : source[g] # h
    BY DEF MakeWeak, Readable, Usable, Vacant, Unread, TypeOK
  <1>2. step[h] = "rest" /\ source[h] = h /\ h \notin Observers
    BY <1>1 DEF Shape, TypeOK, Observers
  <1>3. refDeletions = 0 /\ Freeing = {} /\ Found(mWeakCount) = {mWeakCount}
    <2>1. mWeakCount # 0
      BY DEF MakeWeak, Spoils
    <2>2. Observers # {} \/ Owners # {} \/ Ending # {}
      BY <2>1, SetsAreFinite DEF Counted, Group
    <2>3. \A g \in Ending : g \notin Freeing
      BY DEF Ending, Freeing
    <2> QED
      BY <2>2, <2>3 DEF Deleted, Found
  <1>4. /\ Owners' = Owners /\ Observers' = Observers \cup {h}
        /\ Ending' = Ending /\ Deleting' = Deleting /\ Freeing' = Freeing
    BY <1>1, <1>2 DEF MakeWeak, TypeOK, Owners, Observers, Ending, Deleting, Freeing
  <1>5. Cardinality(Observers \cup {h}) = Cardinality(Observers) + 1
        /\ Cardinality(Observers \cup {h}) <= Cardinality(Handles)
    <2>1. Observers \cup {h} \subseteq Handles
      BY DEF Observers
    <2> QED
      BY <2>1, <1>2, SetsAreFinite, Adding, FS_Subset, PointersAssumption
  <1>6. mWeakCount' = mWeakCount + 1 /\ mWeakCount' \in 0 .. NumCounts - 1
    <2>1. mWeakCount' = (mWeakCount + 1) % NumCounts
      BY <1>3 DEF MakeWeak
    <2>2. mWeakCount + 1 \in Nat /\ mWeakCount + 1 < NumCounts
      BY <1>5, SetsAreFinite, PointersAssumption DEF Counted, Group
    <2> QED
      BY <2>1, <2>2, Fits, PointersAssumption
  <1>7. Shape'
    BY <1>1, <1>2 DEF MakeWeak, TypeOK, Shape
  <1>8. Counted'
    BY <1>4, <1>5, <1>6, SetsAreFinite DEF MakeWeak, Counted, Group
  <1>9. Deleted'
    BY <1>4, <1>3 DEF MakeWeak, Deleted
  <1>10. Targets'
    BY <1>1, <1>2, <1>4 DEF MakeWeak, TypeOK, Targets
  <1>11. UniqueAlone'
    BY <1>1 DEF MakeWeak, TypeOK, UniqueAlone
  <1>12. Maps
    <2>1. Promise!Observe(h)
      BY <1>2, <1>4, <1>3 DEF MakeWeak, Object, Promise!Observe
    <2> QED
      BY <2>1, KeptSteps DEF Promise!Kept
  <1> QED
    BY <1>7, <1>8, <1>9, <1>10, <1>11, <1>12

LEMMA Replacing ==
  ASSUME NEW S, NEW s, NEW h, IsFiniteSet(S), s \in S, h \notin S
  PROVE  Cardinality((S \ {s}) \cup {h}) = Cardinality(S)
  <1>1. IsFiniteSet(S \ {s}) /\ Cardinality(S \ {s}) = Cardinality(S) - 1
    BY FS_RemoveElement
  <1>2. Cardinality((S \ {s}) \cup {h}) = Cardinality(S \ {s}) + 1
    BY <1>1, Adding
  <1> QED
    BY <1>1, <1>2, FS_CardinalityType

LEMMA MoveKeepsPInv ==
  ASSUME Sound, TypeOK', ~spoiled', NEW s \in Handles, NEW h \in Handles,
         NEW k \in Strong \cup Weak, Move(s, h, k)
  PROVE  Keeps
  <1> USE DEF Sound, Keeps
  <1>1. /\ s # h /\ kind[s] # "none" /\ step[s] = "rest" /\ kind[h] = "none" /\ step[h] = "rest"
        /\ k = kind[s] \/ (kind[s] = "unique" /\ k = "shared")
        /\ \A g \in Handles : (source[g] # h /\ source[g] # s) \/ g = source[g]
    BY DEF Move, Changeable, Usable, Vacant, Unread, TypeOK, Shape
  <1>2. source[s] = s /\ source[h] = h /\ h \notin Owners /\ h \notin Observers
    BY <1>1 DEF TypeOK, Shape, Owners, Observers
  <1>3. Shape'
    BY <1>1, <1>2 DEF Move, TypeOK, Shape
  <1>4. Ending' = Ending /\ Deleting' = Deleting /\ Freeing' = Freeing
    BY DEF Move, Ending, Deleting, Freeing
  <1>5. /\ Owners' = IF s \in Owners THEN (Owners \ {s}) \cup {h} ELSE Owners
        /\ Observers' = IF s \in Observers THEN (Observers \ {s}) \cup {h} ELSE Observers
    <2>1. kind' = [kind EXCEPT ![h] = k, ![s] = "none"]
          /\ target' = [target EXCEPT ![h] = target[s], ![s] = FALSE] /\ step' = step
      BY DEF Move
    <2>2. kind'[h] = k /\ kind'[s] = "none" /\ target'[h] = target[s]
          /\ \A g \in Handles \ {s, h} : kind'[g] = kind[g] /\ target'[g] = target[g]
      BY <1>1, <2>1 DEF TypeOK
    <2>3. s \in Owners <=> h \in Owners'
      BY <1>1, <2>1, <2>2 DEF Owners
    <2>4. s \in Observers <=> h \in Observers'
      BY <1>1, <2>1, <2>2 DEF Observers
    <2>5. s \notin Owners' /\ s \notin Observers'
      BY <2>2 DEF Owners, Observers
    <2>6. \A g \in Handles \ {s, h} : (g \in Owners <=> g \in Owners')
                                   /\ (g \in Observers <=> g \in Observers')
      BY <2>1, <2>2 DEF Owners, Observers
    <2>7. Owners \subseteq Handles /\ Owners' \subseteq Handles
          /\ Observers \subseteq Handles /\ Observers' \subseteq Handles
      BY DEF Owners, Observers
    <2> QED
      BY <1>1, <1>2, <2>3, <2>4, <2>5, <2>6, <2>7
  <1>6. /\ Cardinality(Owners') = Cardinality(Owners) /\ (Owners' = {} <=> Owners = {})
        /\ Cardinality(Observers') = Cardinality(Observers)
        /\ (Observers' = {} <=> Observers = {})
    BY <1>2, <1>5, SetsAreFinite, Replacing
  <1>7. Counted' /\ Deleted'
    BY <1>4, <1>6 DEF Move, Counted, Group, Deleted
  <1>8. Targets'
    BY <1>1, <1>6 DEF Move, TypeOK, Targets
  <1>9. UniqueAlone'
    BY <1>1 DEF Move, TypeOK, UniqueAlone
  <1>10. Maps
    <2>1. CASE s \in Owners
      <3>1. s \notin Observers
        BY <2>1 DEF Owners, Observers
      <3>2. Promise!Succeed(s, h)
        BY <1>1, <1>2, <1>5, <2>1, <3>1 DEF Move, Object, Promise!Succeed
      <3> QED
        BY <3>2, KeptSteps DEF Promise!Kept
    <2>2. CASE s \in Observers
      <3>1. s \notin Owners
        BY <2>2 DEF Owners, Observers
      <3>2. Promise!Succeed(s, h)
        BY <1>1, <1>2, <1>5, <2>2, <3>1 DEF Move, Object, Promise!Succeed
      <3> QED
        BY <3>2, KeptSteps DEF Promise!Kept
    <2>3. CASE s \notin Owners /\ s \notin Observers
      BY <1>5, <2>3, KeptSteps DEF Move, Object
    <2> QED
      BY <2>1, <2>2, <2>3
  <1> QED
    BY <1>3, <1>7, <1>8, <1>9, <1>10

(* A UniquePtr is alone: its destructor does not abort.                         *)
LEMMA IsUniqueKeepsPInv ==
  ASSUME Sound, TypeOK', ~spoiled', NEW h \in Handles, IsUniqueStrongOwner(h)
  PROVE  Keeps
  <1> USE DEF Sound, Keeps
  <1>1. kind[h] = "unique" /\ step[h] = "rest" /\ target[h]
        /\ \A g \in Handles \ {h} : source[g] # h
    BY DEF IsUniqueStrongOwner, Changeable, Usable, Unread, Shape
  <1>2. Owners = {h}
    BY <1>1 DEF Owners, UniqueAlone
  <1>3. mStrongCount = 1
    BY <1>2, FS_Singleton DEF Counted
  <1>4. step' = [step EXCEPT ![h] = "decrease"]
    <2>1. Found(mStrongCount) = {mStrongCount}
      BY <1>2 DEF Deleted, Found
    <2> QED
      BY <1>3, <2>1 DEF IsUniqueStrongOwner, Goto
  <1>5. TypeOK' /\ Shape'
    BY <1>1, <1>4 DEF IsUniqueStrongOwner, TypeOK, Shape
  <1>6. /\ Owners' = Owners /\ Observers' = Observers
        /\ Ending' = Ending /\ Deleting' = Deleting /\ Freeing' = Freeing
    BY <1>1, <1>4 DEF IsUniqueStrongOwner, TypeOK, Owners, Observers, Ending, Deleting, Freeing
  <1>7. Counted' /\ Deleted'
    BY <1>6 DEF IsUniqueStrongOwner, Counted, Group, Deleted
  <1>8. Targets' /\ UniqueAlone'
    BY <1>1, <1>4, <1>6 DEF IsUniqueStrongOwner, TypeOK, Targets, UniqueAlone
  <1>9. Maps
    BY <1>6, KeptSteps DEF IsUniqueStrongOwner, Object
  <1> QED
    BY <1>5, <1>7, <1>8, <1>9

(* The last owner goes on to delete, every other one is just gone.              *)
LEMMA DecreaseStrongKeepsPInv ==
  ASSUME Sound, TypeOK', ~spoiled', NEW h \in Handles, DecreaseStrongCount(h)
  PROVE  Keeps
  <1> USE DEF Sound, Keeps
  <1>1. /\ kind[h] \in Strong /\ step[h] \in {"rest", "decrease"} /\ target[h]
        /\ step[h] = "rest" => \A g \in Handles \ {h} : source[g] # h
    <2>1. Owners # {}
      BY SetsAreFinite DEF DecreaseStrongCount, Spoils, Counted
    <2> QED
      BY <2>1 DEF DecreaseStrongCount, Changeable, Usable, Unread, TypeOK, Shape, Targets
  <1>2. source[h] = h /\ \A g \in Handles \ {h} : source[g] # h
    BY <1>1 DEF TypeOK, Shape
  <1>3. h \in Owners /\ h \notin Observers
    BY <1>1 DEF Owners, Observers
  <1>4. Ending = {} /\ Deleting = {} /\ Freeing = {} /\ deletions = 0 /\ refDeletions = 0
    BY <1>3 DEF Deleted, Ending, Deleting, Freeing
  <1>5. mStrongCount = Cardinality(Owners) /\ (mStrongCount = 1 <=> Owners = {h})
        /\ Cardinality(Owners \ {h}) = mStrongCount - 1
    BY <1>3, SetsAreFinite, Removing DEF Counted
  <1>6. Found(mStrongCount) = {mStrongCount}
    BY <1>4 DEF Found
  <1>7. mStrongCount' = mStrongCount - 1 /\ mStrongCount' \in 0 .. NumCounts - 1
    <2>1. mStrongCount \in Nat /\ mStrongCount # 0 /\ mStrongCount - 1 < NumCounts
      BY <1>3, <1>5, SetsAreFinite, PointersAssumption DEF TypeOK
    <2>2. (mStrongCount - 1) % NumCounts = mStrongCount - 1
      BY <2>1, Fits
    <2> QED
      BY <1>6, <2>1, <2>2, PointersAssumption DEF DecreaseStrongCount, Minus1
  <1>8. CASE mStrongCount = 1
    <2>1. step' = [step EXCEPT ![h] = "delete"] /\ UNCHANGED <<kind, target>>
      BY <1>8, <1>6 DEF DecreaseStrongCount, Goto
    <2>2. /\ Owners' = Owners \ {h} /\ Observers' = Observers
          /\ Ending' = {h} /\ Deleting' = {h} /\ Freeing' = {}
      BY <1>1, <1>3, <1>4, <2>1 DEF TypeOK, Owners, Observers, Ending, Deleting, Freeing
    <2>3. Shape'
      BY <1>1, <1>2, <2>1 DEF DecreaseStrongCount, TypeOK, Shape
    <2>4. Owners' = {} /\ Owners # {}
      BY <1>5, <1>8, <2>2
    <2>5. Counted' /\ Deleted'
      BY <1>4, <1>5, <1>7, <2>2, <2>4 DEF DecreaseStrongCount, Counted, Group, Deleted
    <2>6. Targets' /\ UniqueAlone'
      BY <2>1, <2>4 DEF Targets, UniqueAlone
    <2>7. Maps
      <3>1. Promise!Leave(h)
        BY <1>3, <2>2 DEF DecreaseStrongCount, Object, Promise!Leave
      <3> QED
        BY <3>1, KeptSteps DEF Promise!Kept
    <2> QED
      BY <2>3, <2>5, <2>6, <2>7
  <1>9. CASE mStrongCount # 1
    <2>1. /\ kind' = [kind EXCEPT ![h] = "none"] /\ target' = [target EXCEPT ![h] = FALSE]
          /\ step' = [step EXCEPT ![h] = "rest"]
      BY <1>9, <1>6 DEF DecreaseStrongCount, Clear
    <2>2. /\ Owners' = Owners \ {h} /\ Observers' = Observers
          /\ Ending' = {} /\ Deleting' = {} /\ Freeing' = {}
      BY <1>1, <1>3, <1>4, <2>1 DEF TypeOK, Owners, Observers, Ending, Deleting, Freeing
    <2>3. Shape'
      BY <1>1, <1>2, <2>1 DEF DecreaseStrongCount, TypeOK, Shape
    <2>4. Owners' # {} /\ Owners # {}
      BY <1>3, <1>5, <1>9, <2>2
    <2>5. Counted' /\ Deleted'
      BY <1>4, <1>5, <1>7, <2>2, <2>4 DEF DecreaseStrongCount, Counted, Group, Deleted
    <2>6. Targets' /\ UniqueAlone'
      BY <2>1, <2>4 DEF TypeOK, Targets, UniqueAlone
    <2>7. Maps
      <3>1. Promise!Leave(h)
        BY <1>3, <2>2 DEF DecreaseStrongCount, Object, Promise!Leave
      <3> QED
        BY <3>1, KeptSteps DEF Promise!Kept
    <2> QED
      BY <2>3, <2>5, <2>6, <2>7
  <1> QED
    BY <1>8, <1>9

LEMMA DeleteKeepsPInv ==
  ASSUME Sound, TypeOK', ~spoiled', NEW h \in Handles, Delete(h)
  PROVE  Keeps
  <1> USE DEF Sound, Keeps
  <1>1. kind[h] \in Strong /\ step[h] = "delete" /\ target[h] /\ source[h] = h
    BY DEF Delete, TypeOK, Shape
  <1>2. \A g \in Handles \ {h} : source[g] # h
    BY <1>1 DEF TypeOK, Shape
  <1>3. h \in Ending /\ h \in Deleting
    BY <1>1 DEF Ending, Deleting
  <1>4. Ending = {h} /\ Freeing = {} /\ Owners = {} /\ deletions = 0 /\ refDeletions = 0
    BY <1>1, <1>3 DEF Deleted, Ending, Freeing
  <1>5. deletions' = 1 /\ refDeletions' = 0
    BY <1>1, <1>4 DEF Delete
  <1>6. /\ Owners' = {} /\ Observers' = Observers
        /\ Ending' = {h} /\ Deleting' = {} /\ Freeing' = {}
    <2>1. step' = [step EXCEPT ![h] = "release"] /\ target' = [target EXCEPT ![h] = FALSE]
          /\ kind' = kind
      BY DEF Delete, Goto
    <2>2. Owners' = Owners /\ Observers' = Observers /\ Ending' = Ending /\ Freeing' = Freeing
      BY <1>1, <2>1 DEF TypeOK, Owners, Observers, Ending, Freeing
    <2>3. Deleting' = {}
      BY <1>4, <2>1 DEF TypeOK, Deleting, Ending
    <2> QED
      BY <1>4, <2>2, <2>3
  <1>7. Shape'
    BY <1>1, <1>2 DEF Delete, Goto, TypeOK, Shape
  <1>8. Counted' /\ Deleted'
    BY <1>4, <1>5, <1>6 DEF Delete, Counted, Group, Deleted
  <1>9. Targets' /\ UniqueAlone'
    BY <1>6 DEF Delete, Targets, UniqueAlone
  <1>10. Maps
    <2>1. Promise!Delete
      BY <1>4, <1>5, <1>6 DEF Object, Promise!Delete
    <2> QED
      BY <2>1, KeptSteps DEF Promise!Kept
  <1> QED
    BY <1>7, <1>8, <1>9, <1>10

(* The count of weak pointers, with one for the strong ones, is as many as go.  *)
LEMMA DecreaseWeakKeepsPInv ==
  ASSUME Sound, TypeOK', ~spoiled', NEW h \in Handles, DecreaseWeakCount(h)
  PROVE  Keeps
  <1> USE DEF Sound, Keeps
  <1>1. /\ kind[h] # "none" /\ source[h] = h
        /\ \/ kind[h] \in Weak /\ step[h] = "rest"
           \/ kind[h] \in Strong /\ step[h] = "release"
        /\ step[h] = "rest" => \A g \in Handles \ {h} : source[g] # h
    BY DEF DecreaseWeakCount, Changeable, Usable, Unread, TypeOK, Shape
  <1>2. \A g \in Handles \ {h} : source[g] # h
    BY <1>1 DEF TypeOK, Shape
  <1>3. h \notin Owners /\ (h \in Observers \/ h \in Ending)
        /\ (h \in Observers => h \notin Ending) /\ h \notin Deleting /\ h \notin Freeing
    BY <1>1 DEF Owners, Observers, Ending, Deleting, Freeing
  <1>4. Freeing = {} /\ refDeletions = 0 /\ Found(mWeakCount) = {mWeakCount}
    BY <1>3 DEF Deleted, Found
  <1>5. h \in Ending => Ending = {h} /\ Owners = {} /\ Deleting = {}
    BY <1>3 DEF Deleted, Ending, Deleting
  <1> DEFINE weakLeft == Observers \ {h}
  <1> DEFINE endsLeft == Ending \ {h}
  <1> DEFINE groupLeft == IF Owners # {} \/ endsLeft # {} THEN 1 ELSE 0
  <1>6. /\ Cardinality(weakLeft) = Cardinality(Observers) - (IF h \in Observers THEN 1 ELSE 0)
        /\ Cardinality(weakLeft) \in Nat /\ (Cardinality(weakLeft) = 0 <=> weakLeft = {})
    <2>1. IsFiniteSet(weakLeft)
      BY SetsAreFinite, FS_RemoveElement
    <2>2. Cardinality(weakLeft) \in Nat /\ (Cardinality(weakLeft) = 0 <=> weakLeft = {})
      BY <2>1, FS_CardinalityType, FS_EmptySet
    <2>3. h \notin Observers => weakLeft = Observers
      OBVIOUS
    <2>4. h \in Observers => Cardinality(weakLeft) = Cardinality(Observers) - 1
      BY SetsAreFinite, Removing
    <2> QED
      <3> HIDE DEF weakLeft
      <3> QED
        BY <2>2, <2>3, <2>4, SetsAreFinite
  <1>7. /\ mWeakCount - 1 = Cardinality(weakLeft) + groupLeft
        /\ mWeakCount = 1 <=> Owners = {} /\ weakLeft = {} /\ endsLeft = {}
        /\ mWeakCount \in Nat /\ mWeakCount # 0
    <2>1. CASE h \in Observers
      <3>1. endsLeft = Ending /\ groupLeft = Group /\ Group \in {0, 1}
        BY <1>3, <2>1 DEF Group
      <3>2. groupLeft = 0 <=> Owners = {} /\ endsLeft = {}
        OBVIOUS
      <3>3. Cardinality(Observers) = Cardinality(weakLeft) + 1
        BY <1>6, <2>1, SetsAreFinite
      <3>4. mWeakCount = Cardinality(weakLeft) + 1 + groupLeft
        BY <3>1, <3>3 DEF Counted
      <3>5. /\ Cardinality(weakLeft) \in Nat /\ groupLeft \in {0, 1}
            /\ (Cardinality(weakLeft) = 0 <=> weakLeft = {})
        BY <1>6, <3>1
      <3> HIDE DEF groupLeft, weakLeft, endsLeft
      <3>6. mWeakCount - 1 = Cardinality(weakLeft) + groupLeft
            /\ mWeakCount \in Nat /\ mWeakCount # 0
        BY <3>4, <3>5
      <3>7. mWeakCount = 1 <=> Cardinality(weakLeft) = 0 /\ groupLeft = 0
        BY <3>4, <3>5
      <3> QED
        BY <3>2, <3>5, <3>6, <3>7
    <2>2. CASE h \in Ending
      BY <1>3, <1>5, <1>6, <2>2, SetsAreFinite DEF Counted, Group
    <2> QED
      BY <1>3, <2>1, <2>2
  <1>8. mWeakCount' = mWeakCount - 1 /\ mWeakCount' \in 0 .. NumCounts - 1
    <2>1. mWeakCount - 1 \in Nat /\ mWeakCount - 1 < NumCounts
      BY <1>7, PointersAssumption DEF TypeOK
    <2>2. (mWeakCount - 1) % NumCounts = mWeakCount - 1
      BY <2>1, Fits
    <2> QED
      BY <1>4, <2>1, <2>2, PointersAssumption DEF DecreaseWeakCount, Minus1
  <1>9. ASSUME Owners' = Owners, Observers' = weakLeft
        PROVE  Maps
    <2>1. CASE h \in Observers
      <3>1. Promise!Forget(h)
        BY <1>9, <2>1 DEF DecreaseWeakCount, Object, Promise!Forget
      <3> QED
        BY <3>1, KeptSteps DEF Promise!Kept
    <2>2. CASE h \notin Observers
      BY <1>9, <2>2, KeptSteps DEF DecreaseWeakCount, Object
    <2> QED
      BY <2>1, <2>2
  <1>10. CASE mWeakCount = 1
    <2>1. step' = [step EXCEPT ![h] = "deleteSelf"] /\ UNCHANGED <<kind, target>>
      BY <1>4, <1>10 DEF DecreaseWeakCount, Goto
    <2>2. Owners = {} /\ weakLeft = {} /\ endsLeft = {}
      BY <1>7, <1>10
    <2>3. /\ Owners' = Owners /\ Observers' = weakLeft
          /\ Ending' = endsLeft /\ Deleting' = Deleting /\ Freeing' = {h}
      BY <1>1, <1>3, <1>4, <2>1 DEF TypeOK, Owners, Observers, Ending, Deleting, Freeing
    <2>4. Shape'
      BY <1>1, <1>2, <2>1 DEF DecreaseWeakCount, TypeOK, Shape
    <2>5. Counted'
      BY <1>7, <1>8, <2>2, <2>3 DEF DecreaseWeakCount, Counted, Group
    <2>6. Deleted'
      BY <1>4, <2>2, <2>3 DEF DecreaseWeakCount, Deleted
    <2>7. Targets' /\ UniqueAlone'
      BY <2>1, <2>2, <2>3 DEF Targets, UniqueAlone
    <2>8. Maps
      BY <1>9, <2>3
    <2> QED
      BY <2>4, <2>5, <2>6, <2>7, <2>8
  <1>11. CASE mWeakCount # 1
    <2>1. /\ kind' = [kind EXCEPT ![h] = "none"] /\ target' = [target EXCEPT ![h] = FALSE]
          /\ step' = [step EXCEPT ![h] = "rest"]
      BY <1>4, <1>11 DEF DecreaseWeakCount, Clear
    <2>2. /\ Owners' = Owners /\ Observers' = weakLeft
          /\ Ending' = endsLeft /\ Deleting' = Deleting /\ Freeing' = {}
      BY <1>1, <1>3, <1>4, <2>1 DEF TypeOK, Owners, Observers, Ending, Deleting, Freeing
    <2>3. Shape'
      BY <1>1, <1>2, <2>1 DEF DecreaseWeakCount, TypeOK, Shape
    <2>4. Counted'
      BY <1>7, <1>8, <2>2 DEF DecreaseWeakCount, Counted, Group
    <2>5. Deleted'
      BY <1>4, <1>5, <1>7, <1>11, <2>2 DEF DecreaseWeakCount, Deleted
    <2>6. Targets' /\ UniqueAlone'
      BY <2>1, <2>2 DEF TypeOK, Targets, UniqueAlone
    <2>7. Maps
      BY <1>9, <2>2
    <2> QED
      BY <2>3, <2>4, <2>5, <2>6, <2>7
  <1> QED
    BY <1>10, <1>11

LEMMA DeleteSelfKeepsPInv ==
  ASSUME Sound, TypeOK', ~spoiled', NEW h \in Handles, DeleteSelf(h)
  PROVE  Keeps
  <1> USE DEF Sound, Keeps
  <1>1. kind[h] # "none" /\ step[h] = "deleteSelf" /\ source[h] = h
        /\ \A g \in Handles \ {h} : source[g] # h
    BY DEF DeleteSelf, TypeOK, Shape
  <1>2. h \in Freeing /\ Freeing = {h} /\ Owners = {} /\ Observers = {}
    BY <1>1 DEF Deleted, Freeing
  <1>3. Ending = {} /\ Deleting = {} /\ refDeletions = 0 /\ deletions = 1
    BY <1>1, <1>2 DEF Deleted, Ending, Deleting, Freeing
  <1>4. /\ kind' = [kind EXCEPT ![h] = "none"] /\ target' = [target EXCEPT ![h] = FALSE]
        /\ step' = [step EXCEPT ![h] = "rest"]
    BY DEF DeleteSelf, Clear
  <1>5. refDeletions' = 1 /\ deletions' = 1
    BY <1>3 DEF DeleteSelf
  <1>6. TypeOK' /\ Shape'
    BY <1>1, <1>4, <1>5 DEF DeleteSelf, TypeOK, Shape
  <1>7. /\ Owners' = {} /\ Observers' = {} /\ Ending' = {} /\ Deleting' = {} /\ Freeing' = {}
    BY <1>1, <1>2, <1>3, <1>4 DEF TypeOK, Owners, Observers, Ending, Deleting, Freeing
  <1>8. Counted' /\ Deleted'
    BY <1>2, <1>3, <1>5, <1>7 DEF DeleteSelf, Counted, Group, Deleted
  <1>9. Targets' /\ UniqueAlone'
    BY <1>4, <1>7 DEF TypeOK, Targets, UniqueAlone
  <1>10. Maps
    <2>1. Promise!Free
      BY <1>2, <1>3, <1>5, <1>7 DEF Object, Promise!Free
    <2> QED
      BY <2>1, KeptSteps DEF Promise!Kept
  <1> QED
    BY <1>6, <1>8, <1>9, <1>10

(* The counts are spoiled only when there is no owner any more.                 *)
LEMMA SpoiledByNoOwner ==
  ASSUME Sound, [Next]_vars, spoiled'
  PROVE  Owners = {}
  <1> USE DEF Sound
  <1>1. mStrongCount = 0 \/ mWeakCount = 0 \/ refDeletions # 0
    <2>1. CASE UNCHANGED vars
      BY <2>1 DEF vars
    <2>2. CASE Next
      BY <2>2 DEF Next, Spoils, Copy, Lock, Load, CompareExchange, SanitizeTarget, MakeWeak, Move,
                  IsUniqueStrongOwner, DecreaseStrongCount, Delete, DecreaseWeakCount, DeleteSelf
    <2> QED
      BY <2>1, <2>2
  <1>2. mStrongCount = 0 => Owners = {}
    BY SetsAreFinite DEF Counted
  <1>3. mWeakCount = 0 => Owners = {}
    BY SetsAreFinite DEF Counted, Group
  <1>4. refDeletions # 0 => Owners = {}
    BY DEF Deleted
  <1> QED
    BY <1>1, <1>2, <1>3, <1>4

LEMMA NextKeepsPInv ==
  ASSUME PInv, [Next]_vars
  PROVE  PInv' /\ Maps
  <1>1. TypeOK'
    BY TypesAreKept DEF PInv
  <1>2. CASE spoiled
    <2>1. spoiled'
      BY <1>2 DEF Next, vars, Spoils, Copy, Lock, Load, CompareExchange, SanitizeTarget, MakeWeak,
                  Move, IsUniqueStrongOwner, DecreaseStrongCount, Delete, DecreaseWeakCount, DeleteSelf
    <2> QED
      BY <1>1, <1>2, <2>1 DEF PInv, Maps, Promise!Next, Promise!Lapse
  <1>3. CASE Sound /\ spoiled'
    <2>1. Owners = {}
      BY <1>3, SpoiledByNoOwner
    <2> QED
      BY <1>1, <1>3, <2>1 DEF PInv, Maps, Promise!Next, Promise!Lapse
  <1>4. CASE Sound /\ ~spoiled'
    <2>1. CASE UNCHANGED vars
      <3>1. UNCHANGED <<Owners, Observers, Ending, Deleting, Freeing, Object>>
        BY <2>1 DEF vars, Owners, Observers, Ending, Deleting, Freeing, Object
      <3>2. Sound'
        BY <1>4, <2>1, <3>1 DEF vars, Sound, TypeOK, Shape, Counted, Group, Deleted, Targets,
                                UniqueAlone
      <3>3. Maps
        BY <1>4, <3>1, KeptSteps DEF Sound
      <3> QED
        BY <1>1, <3>2, <3>3 DEF PInv
    <2>2. CASE Next
      <3>1. Keeps
        BY <1>1, <1>4, <2>2, CopyKeepsPInv, LockKeepsPInv, LoadKeepsPInv, CompareExchangeKeepsPInv,
           SanitizeTargetKeepsPInv, MakeWeakKeepsPInv, MoveKeepsPInv, IsUniqueKeepsPInv,
           DecreaseStrongKeepsPInv, DeleteKeepsPInv, DecreaseWeakKeepsPInv, DeleteSelfKeepsPInv
        DEF Next
      <3> QED
        BY <1>1, <3>1 DEF Keeps, PInv
    <2> QED
      BY <2>1, <2>2
  <1> QED
    BY <1>2, <1>3, <1>4 DEF PInv

(* The inductive invariant: until a count at zero is touched, both counts are    *)
(* what they should be (Counted), and what is deleted is deleted by one handle,  *)
(* once (Deleted).                                                               *)
THEOREM PointersInvariant == Spec => []PInv
  <1>1. PInv /\ [Next]_vars => PInv'
    BY NextKeepsPInv
  <1> QED
    BY <1>1, InitPInv, PTL DEF Spec

------------------------------------------------------------------------------
(* A weak pointer that resolves while others copy, lock and destroy the same    *)
(* pointers resolves to a target that lives, until a count at zero is touched.   *)
THEOREM WeakIsTrue == Spec => []WeakMeansAlive
  <1>1. PInv => WeakMeansAlive
    BY SetsAreFinite DEF PInv, Sound, Counted, Deleted, WeakMeansAlive
  <1> QED
    BY <1>1, PointersInvariant, PTL

(* The PtrRef outlives all who will touch its counts but what late Locks         *)
(* returned, and nobody else.                                                    *)
THEOREM CountsAreThere == Spec => []RefLivesAsLong
  <1>1. ASSUME Sound, NEW h \in Handles, kind[h] # "none", ~Empty(h)
        PROVE  refDeletions = 0
    <2> USE DEF Sound
    <2>1. CASE h \in Owners \cup Observers \cup Ending \cup Freeing
      BY <1>1, <2>1 DEF Deleted
    <2>2. CASE step[h] \in Making
      <3>1. kind[source[h]] = "shared" => target[source[h]]
        BY <1>1, <2>2 DEF TypeOK, Shape, Empty
      <3>2. source[h] \in Owners \cup Observers
        BY <1>1, <2>2, <3>1 DEF TypeOK, Shape, Owners, Observers
      <3> QED
        BY <1>1, <3>2 DEF Deleted
    <2> QED
      BY <1>1, <2>1, <2>2 DEF Empty, TypeOK, Shape, Owners, Observers, Ending, Freeing
  <1>2. ASSUME Sound, \A h \in Handles : kind[h] = "none" \/ Empty(h)
        PROVE  refDeletions = 1
    <2>1. Owners = {} /\ Observers = {} /\ Ending = {} /\ Freeing = {}
      BY <1>2 DEF Sound, Shape, Empty, Owners, Observers, Ending, Freeing
    <2> QED
      BY <1>2, <2>1 DEF Sound, Deleted
  <1>3. PInv => RefLivesAsLong
    BY <1>1, <1>2 DEF PInv, RefLivesAsLong
  <1> QED
    BY <1>3, PointersInvariant, PTL

(* The destructor of a UniquePtr never aborts the program: with a UniquePtr      *)
(* there is an owner, and no Lock has come late.                                 *)
THEOREM UniqueStaysSole == Spec => []UniqueIsSole
  <1>1. PInv => UniqueIsSole
    BY DEF PInv, Sound, Shape, UniqueIsSole
  <1> QED
    BY <1>1, PointersInvariant, PTL

(* The pointers implement Ownership: the object is deleted once, by the last    *)
(* owner's leaving, and its references by the last pointer's; the promise       *)
(* lapses only when the last owner has left and a late Lock's result is used.   *)
THEOREM PointersKeepPromise == Spec => ImplementsOwnership
  <1>1. Init => Promise!Init
    <2> SUFFICES ASSUME Init PROVE Promise!Init
      OBVIOUS
    <2>1. Owners = {First} /\ Observers = {}
      BY PointersAssumption DEF Init, Owners, Observers
    <2> QED
      BY <2>1 DEF Init, Object, Promise!Init
  <1>2. PInv /\ [Next]_vars => [Promise!Next]_(Promise!vars)
    BY NextKeepsPInv DEF Maps, Promise!vars
  <1> QED
    BY <1>1, <1>2, PointersInvariant, PTL DEF Spec, ImplementsOwnership, Promise!Spec
================================================================================
