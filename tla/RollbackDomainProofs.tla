-------------------------- MODULE RollbackDomainProofs --------------------------
(***************************************************************************)
(* Theorems about StateStream and RollbackDomain, for any number of frames, *)
(* variables, values and snapshots and any size of the window.             *)
(*                                                                         *)
(* The lemmas on streams say what Write and Discard do to what Read        *)
(* returns.  Room is the one that counts: a full stream that drops its     *)
(* oldest change for one at t still has a change at f, or before it, if    *)
(* fewer than max frames lie between.  DInv is inductive with their help.  *)
(***************************************************************************)
EXTENDS RollbackDomain, TLAPS, FiniteSetTheorems, WellFoundedInduction

-----------------------------------------------------------------------------
(* Least and greatest elements *)

\* "Less than" on the natural numbers as a relation.
LT == {p \in Nat \X Nat : p[1] < p[2]}

\* It is well founded.
LEMMA LTWellFounded == IsWellFoundedOn(LT, Nat)
<1>1. OpToRel(<, Nat) = LT
  BY Zenon DEF LT, OpToRel
<1> QED
  BY <1>1, NatLessThanWellFounded, Zenon

\* A non-empty set of natural numbers has a least element.
LEMMA LeastExists ==
  ASSUME NEW S, S \subseteq Nat, S # {}
  PROVE  \E x \in S : \A y \in S : x <= y
<1>1. \E x \in S : \A y \in S : ~ (<<y, x>> \in LT)
  BY LTWellFounded, WFMin, Zenon
<1>2. \A x, y \in S : ~ (<<y, x>> \in LT) => x <= y
  BY DEF LT
<1> QED
  BY <1>1, <1>2

\* A non-empty set of frames has a greatest element.
LEMMA MaxOfFrames ==
  ASSUME NEW S \in SUBSET Frames, S # {}
  PROVE  Max(S) \in S /\ \A u \in S : u <= Max(S)
<1> DEFINE T == {LastFrame - u : u \in S}
<1>1. LastFrame \in Nat /\ S \subseteq Nat /\ \A u \in S : u <= LastFrame
  BY StreamAssumption DEF Frames
<1>2. T \subseteq Nat /\ T # {}
  <2>1. \A u \in S : LastFrame - u \in Nat
    BY <1>1
  <2>2. PICK u \in S : TRUE
    OBVIOUS
  <2> QED
    BY <2>1, <2>2
<1>3. PICK x \in T : \A y \in T : x <= y
  BY <1>2, LeastExists
<1>4. PICK u \in S : x = LastFrame - u
  BY <1>3
<1>5. \A w \in S : u >= w
  BY <1>1, <1>3, <1>4
<1>6. Max(S) \in S /\ \A w \in S : Max(S) >= w
  BY <1>5 DEF Max
<1> QED
  BY <1>1, <1>6

\* A non-empty set of frames has a least element.
LEMMA MinOfFrames ==
  ASSUME NEW S \in SUBSET Frames, S # {}
  PROVE  Min(S) \in S /\ \A u \in S : Min(S) <= u
<1>1. S \subseteq Nat
  BY StreamAssumption DEF Frames
<1>2. \E x \in S : \A y \in S : x <= y
  BY <1>1, LeastExists
<1> QED
  BY <1>2 DEF Min

\* The greatest of three numbers.
LEMMA MaxOfThree ==
  ASSUME NEW a \in Int, NEW b \in Int, NEW c \in Int
  PROVE  /\ Max({a, b, c}) \in {a, b, c}
         /\ a <= Max({a, b, c}) /\ b <= Max({a, b, c}) /\ c <= Max({a, b, c})
<1>1. \E x \in {a, b, c} : \A y \in {a, b, c} : x >= y
  BY a <= b \/ b <= a, b <= c \/ c <= b, a <= c \/ c <= a
<1>2. Max({a, b, c}) \in {a, b, c} /\ \A y \in {a, b, c} : Max({a, b, c}) >= y
  BY <1>1 DEF Max
<1> QED
  BY <1>2

\* The greater of two numbers.
LEMMA MaxOfTwo ==
  ASSUME NEW a \in Int, NEW b \in Int
  PROVE  Max({a, b}) \in {a, b} /\ a <= Max({a, b}) /\ b <= Max({a, b})
<1>1. \E x \in {a, b} : \A y \in {a, b} : x >= y
  BY a <= b \/ b <= a
<1>2. Max({a, b}) \in {a, b} /\ \A y \in {a, b} : Max({a, b}) >= y
  BY <1>1 DEF Max
<1> QED
  BY <1>2

-----------------------------------------------------------------------------
(* Streams *)

\* What a stream is made of.
LEMMA StreamShape ==
  ASSUME NEW s \in Streams
  PROVE  /\ DOMAIN s \in SUBSET Frames
         /\ \A u \in DOMAIN s : s[u] \in Values
BY DEF Streams

\* The stream of a new variable.
LEMMA NewStreamShape == NewStream \in Streams /\ DOMAIN NewStream = {}
<1>1. NewStream \in [{} -> Values]
  BY DEF NewStream
<1> QED
  BY <1>1 DEF Streams

\* What is read is the value of the last change that is not later.
LEMMA ReadLast ==
  ASSUME NEW s \in Streams, NEW t \in Frames, NEW u \in DOMAIN s,
         u <= t, \A w \in DOMAIN s : w <= t => w <= u
  PROVE  Read(s, t) = s[u]
<1>1. UpTo(s, t) \in SUBSET Frames /\ u \in UpTo(s, t) /\ \A w \in UpTo(s, t) : w <= u
  BY StreamShape DEF UpTo
<1>2. Max(UpTo(s, t)) \in UpTo(s, t) /\ \A w \in UpTo(s, t) : w <= Max(UpTo(s, t))
  BY <1>1, MaxOfFrames
<1>3. Max(UpTo(s, t)) = u
  BY <1>1, <1>2 DEF Frames
<1> QED
  BY <1>1, <1>3 DEF Read

\* There is such a change if there is any that is not later.
LEMMA LastExists ==
  ASSUME NEW s \in Streams, NEW t \in Frames, \E w \in DOMAIN s : w <= t
  PROVE  \E u \in DOMAIN s : u <= t /\ \A w \in DOMAIN s : w <= t => w <= u
<1>1. UpTo(s, t) \in SUBSET Frames /\ UpTo(s, t) # {}
  BY StreamShape DEF UpTo
<1>2. Max(UpTo(s, t)) \in UpTo(s, t) /\ \A w \in UpTo(s, t) : w <= Max(UpTo(s, t))
  BY <1>1, MaxOfFrames
<1> QED
  BY <1>2 DEF UpTo

\* Before the first change the default is read.
LEMMA ReadNone ==
  ASSUME NEW s, NEW t, \A w \in DOMAIN s : ~ (w <= t)
  PROVE  Read(s, t) = Default
BY DEF Read, UpTo

\* A read returns a value.
LEMMA ReadType ==
  ASSUME NEW s \in Streams, NEW t \in Frames
  PROVE  Read(s, t) \in Values
<1>1. CASE \E w \in DOMAIN s : w <= t
  <2>1. PICK u \in DOMAIN s : u <= t /\ \A w \in DOMAIN s : w <= t => w <= u
    BY <1>1, LastExists
  <2>2. Read(s, t) = s[u]
    BY <2>1, ReadLast
  <2> QED
    BY <2>2, StreamShape
<1>2. CASE ~ \E w \in DOMAIN s : w <= t
  BY <1>2, ReadNone, StreamAssumption
<1> QED
  BY <1>1, <1>2

\* Two streams that have the same changes up to some frames read alike there.
LEMMA ReadAlike ==
  ASSUME NEW s \in Streams, NEW d \in Streams, NEW t \in Frames, NEW u \in Frames,
         \A w \in DOMAIN s : w <= t => w \in DOMAIN d /\ w <= u,
         \A w \in DOMAIN d : w <= u => w \in DOMAIN s /\ w <= t /\ d[w] = s[w]
  PROVE  Read(d, u) = Read(s, t)
<1>1. CASE \E w \in DOMAIN s : w <= t
  <2>1. PICK w \in DOMAIN s : w <= t /\ \A x \in DOMAIN s : x <= t => x <= w
    BY <1>1, LastExists
  <2>2. Read(s, t) = s[w]
    BY <2>1, ReadLast
  <2>3. w \in DOMAIN d /\ w <= u /\ \A x \in DOMAIN d : x <= u => x <= w
    BY <2>1
  <2>4. Read(d, u) = d[w]
    BY <2>3, ReadLast
  <2> QED
    BY <2>2, <2>3, <2>4
<1>2. CASE ~ \E w \in DOMAIN s : w <= t
  <2>1. Read(s, t) = Default
    BY <1>2, ReadNone
  <2>2. \A w \in DOMAIN d : ~ (w <= u)
    BY <1>2
  <2> QED
    BY <2>1, <2>2, ReadNone
<1> QED
  BY <1>1, <1>2

\* Discarding from t on leaves the changes before t.
LEMMA DiscardShape ==
  ASSUME NEW s \in Streams, NEW t \in Int
  PROVE  /\ Discard(s, t) \in Streams
         /\ DOMAIN Discard(s, t) = {u \in DOMAIN s : u < t}
         /\ \A u \in DOMAIN Discard(s, t) : Discard(s, t)[u] = s[u]
<1> DEFINE D == {u \in DOMAIN s : u < t}
<1>1. D \in SUBSET Frames
  BY StreamShape
<1>2. Discard(s, t) = [u \in D |-> s[u]]
  BY DEF Discard, Restrict, Before
<1>3. [u \in D |-> s[u]] \in [D -> Values]
  BY StreamShape
<1> HIDE DEF D
<1>4. Discard(s, t) \in Streams
  BY <1>1, <1>2, <1>3 DEF Streams
<1> QED
  BY <1>2, <1>4 DEF D

\* After a rewind to t everything up to t reads as before, and everything after
\* t as t did.
LEMMA ReadDiscard ==
  ASSUME NEW s \in Streams, NEW t \in Frames, NEW u \in Frames
  PROVE  Read(Discard(s, t + 1), u) = Read(s, IF u <= t THEN u ELSE t)
<1> DEFINE d == Discard(s, t + 1)
           m == IF u <= t THEN u ELSE t
<1>1. t + 1 \in Int
  BY DEF Frames
<1>2. d \in Streams /\ DOMAIN d = {w \in DOMAIN s : w < t + 1}
      /\ \A w \in DOMAIN d : d[w] = s[w]
  BY <1>1, DiscardShape
<1>3. m \in Frames /\ m <= u /\ m <= t /\ (m = u \/ m = t)
  BY DEF Frames
<1>4. DOMAIN s \subseteq Nat /\ t \in Nat /\ u \in Nat /\ m \in Nat
  BY <1>3, StreamShape DEF Frames
<1> HIDE DEF d, m
<1>5. \A w \in DOMAIN s : w <= m => w \in DOMAIN d /\ w <= u
  BY <1>2, <1>3, <1>4
<1>6. \A w \in DOMAIN d : w <= u => w \in DOMAIN s /\ w <= m /\ d[w] = s[w]
  BY <1>2, <1>3, <1>4
<1>7. Read(d, u) = Read(s, m)
  BY <1>2, <1>3, <1>5, <1>6, ReadAlike
<1> QED
  BY <1>7 DEF d, m

\* What a full stream keeps is part of what it had before the change.
LEMMA KeptShape ==
  ASSUME NEW s \in Streams, NEW t \in Frames, NEW max
  PROVE  /\ Kept(s, t, max) \in SUBSET DOMAIN s
         /\ \A u \in Kept(s, t, max) : u < t
BY DEF Kept, Before

\* The stream w is what s keeps, and v at t.
Adds(w, s, t, v, max) ==
  /\ DOMAIN w = Kept(s, t, max) \cup {t}
  /\ w[t] = v
  /\ \A u \in Kept(s, t, max) : w[u] = s[u]

\* A write either repeats what holds before it and only discards, or it keeps
\* earlier changes and adds one at t.
LEMMA WriteShape ==
  ASSUME NEW s \in Streams, NEW t \in Frames, NEW v \in Values, NEW max
  PROVE  /\ Write(s, t, v, max) \in Streams
         /\ \/ Write(s, t, v, max) = Discard(s, t) /\ Repeats(s, t, v)
            \/ Adds(Write(s, t, v, max), s, t, v, max)
<1>0. t \in Int
  BY DEF Frames
<1>1. Discard(s, t) \in Streams
  BY <1>0, DiscardShape
<1> DEFINE D == Kept(s, t, max) \cup {t}
           f == [u \in D |-> IF u = t THEN v ELSE s[u]]
<1>2. D \in SUBSET Frames /\ t \notin Kept(s, t, max)
  BY KeptShape, StreamShape DEF Frames
<1>3. \A u \in D : (IF u = t THEN v ELSE s[u]) \in Values
  BY KeptShape, StreamShape
<1>4. f \in [D -> Values]
  BY <1>3
<1>5. f \in Streams
  <2> HIDE DEF D, f
  <2> QED
    BY <1>2, <1>4 DEF Streams
<1>6. DOMAIN f = D /\ f[t] = v /\ \A u \in Kept(s, t, max) : f[u] = s[u]
  BY <1>2
<1>7. CASE Repeats(s, t, v) /\ (PerfOptimizations \/ Before(s, t) # DOMAIN s)
  BY <1>1, <1>7 DEF Write
<1>8. CASE ~ (Repeats(s, t, v) /\ (PerfOptimizations \/ Before(s, t) # DOMAIN s))
  <2>1. Write(s, t, v, max) = f
    BY <1>8 DEF Write
  <2> HIDE DEF f, D
  <2>2. Adds(f, s, t, v, max)
    BY <1>6 DEF D, Adds
  <2> QED
    BY <1>5, <2>1, <2>2
<1> QED
  BY <1>7, <1>8

\* From t on, what was written at t is read.
LEMMA ReadWritten ==
  ASSUME NEW s \in Streams, NEW t \in Frames, NEW v \in Values, NEW max,
         NEW u \in Frames, t <= u
  PROVE  /\ Read(Write(s, t, v, max), u) = v
         /\ \E x \in DOMAIN Write(s, t, v, max) : x <= t
<1> DEFINE w == Write(s, t, v, max)
<1>1. t \in Int /\ t \in Nat /\ u \in Nat /\ DOMAIN s \subseteq Nat
  BY StreamShape DEF Frames
<1>0. w \in Streams
  BY WriteShape
<1>2. CASE w = Discard(s, t) /\ Repeats(s, t, v)
  <2>0. DOMAIN Discard(s, t) = Before(s, t)
        /\ \A x \in DOMAIN Discard(s, t) : Discard(s, t)[x] = s[x]
    BY <1>1, DiscardShape DEF Before
  <2>1. DOMAIN w = Before(s, t) /\ \A x \in DOMAIN w : w[x] = s[x]
    BY <1>2, <2>0
  <2>2. Before(s, t) \in SUBSET Frames /\ Before(s, t) # {}
    BY <1>2, StreamShape DEF Before, Repeats
  <2> DEFINE b == Max(Before(s, t))
  <2>3. b \in Before(s, t) /\ \A x \in Before(s, t) : x <= b
    BY <2>2, MaxOfFrames
  <2>4. s[b] = v
    BY <1>2 DEF Repeats
  <2> HIDE DEF b, w
  <2>5. b \in DOMAIN w /\ b <= u /\ b <= t /\ \A x \in DOMAIN w : x <= u => x <= b
    BY <1>1, <2>1, <2>3 DEF Before
  <2>6. Read(w, u) = w[b]
    BY <1>0, <1>1, <2>5, ReadLast
  <2>7. Read(w, u) = v /\ \E x \in DOMAIN w : x <= t
    BY <2>1, <2>4, <2>5, <2>6
  <2> QED
    BY <2>7 DEF w
<1>3. CASE Adds(w, s, t, v, max)
  <2> USE <1>3 DEF Adds
  <2> HIDE DEF w
  <2>1. t \in DOMAIN w /\ \A x \in DOMAIN w : x <= u => x <= t
    BY <1>1, <1>3, KeptShape
  <2>2. Read(w, u) = v
    BY <1>0, <1>1, <1>3, <2>1, ReadLast
  <2> QED
    BY <1>1, <2>1, <2>2 DEF w
<1> QED
  BY <1>2, <1>3, WriteShape

\* Before t, a write changes nothing for those who read behind what it keeps.
LEMMA ReadBeforeWritten ==
  ASSUME NEW s \in Streams, NEW t \in Frames, NEW v \in Values, NEW max,
         NEW u \in Frames, u < t,
         \/ Kept(s, t, max) = Before(s, t)
         \/ \E e \in Kept(s, t, max) : e <= u
            /\ \A x \in Before(s, t) : x \in Kept(s, t, max) \/ x <= e
  PROVE  Read(Write(s, t, v, max), u) = Read(s, u)
<1> DEFINE w == Write(s, t, v, max)
<1>1. t \in Int /\ t \in Nat /\ u \in Nat /\ DOMAIN s \subseteq Nat
  BY StreamShape DEF Frames
<1>0. w \in Streams
  BY WriteShape
<1>2. CASE w = Discard(s, t)
  <2>0. DOMAIN Discard(s, t) = {x \in DOMAIN s : x < t}
        /\ \A x \in DOMAIN Discard(s, t) : Discard(s, t)[x] = s[x]
    BY <1>1, DiscardShape
  <2>1. DOMAIN w = {x \in DOMAIN s : x < t} /\ \A x \in DOMAIN w : w[x] = s[x]
    BY <1>2, <2>0
  <2> HIDE DEF w
  <2>2. Read(w, u) = Read(s, u)
    BY <1>0, <1>1, <2>1, ReadAlike
  <2> QED
    BY <2>2 DEF w
<1>3. CASE Adds(w, s, t, v, max)
  <2> USE <1>3 DEF Adds
  <2> HIDE DEF w
  <2>1. \A x \in DOMAIN w : x <= u => x \in Kept(s, t, max) /\ x \in DOMAIN s /\ w[x] = s[x]
    BY <1>1, <1>3, KeptShape
  <2>2. CASE Kept(s, t, max) = Before(s, t)
    <3>1. \A x \in DOMAIN s : x <= u => x \in DOMAIN w
      BY <1>1, <1>3, <2>2 DEF Before
    <3> QED
      BY <1>0, <1>1, <2>1, <3>1, ReadAlike DEF w
  <2>3. CASE \E e \in Kept(s, t, max) : e <= u
             /\ \A x \in Before(s, t) : x \in Kept(s, t, max) \/ x <= e
    <3>1. PICK e \in Kept(s, t, max) : e <= u
             /\ \A x \in Before(s, t) : x \in Kept(s, t, max) \/ x <= e
      BY <2>3
    <3>2. e \in DOMAIN s /\ e \in DOMAIN w
      BY <1>3, <3>1, KeptShape
    <3>3. PICK y \in DOMAIN s : y <= u /\ \A x \in DOMAIN s : x <= u => x <= y
      BY <3>1, <3>2, LastExists
    <3>4. y \in Kept(s, t, max)
      BY <1>1, <3>1, <3>2, <3>3 DEF Before
    <3>5. y \in DOMAIN w /\ \A x \in DOMAIN w : x <= u => x <= y
      BY <1>3, <2>1, <3>3, <3>4
    <3>6. Read(w, u) = w[y] /\ Read(s, u) = s[y]
      BY <1>0, <1>1, <3>3, <3>5, ReadLast
    <3> QED
      BY <1>3, <3>4, <3>6 DEF w
  <2> QED
    BY <2>2, <2>3
<1> QED
  BY <1>2, <1>3, WriteShape

\* A full stream that drops its oldest change for one at t has another at f, or
\* before it, if less than max frames lie between f and t.
LEMMA Room ==
  ASSUME NEW s \in Streams, NEW t \in Frames, NEW max \in Nat \ {0},
         NEW f \in Frames, f < t, t - f < max
  PROVE  \/ Kept(s, t, max) = Before(s, t)
         \/ \E e \in Kept(s, t, max) : e <= f
            /\ \A x \in Before(s, t) : x \in Kept(s, t, max) \/ x <= e
<1> SUFFICES ASSUME Kept(s, t, max) # Before(s, t)
             PROVE  \E e \in Kept(s, t, max) : e <= f
                    /\ \A x \in Before(s, t) : x \in Kept(s, t, max) \/ x <= e
  OBVIOUS
<1> DEFINE D == DOMAIN s
           K == Kept(s, t, max)
<1>1. D \in SUBSET Frames /\ t \in Nat /\ f \in Nat /\ D \subseteq Nat
  BY StreamShape DEF Frames
<1>2. Before(s, t) = D /\ Cardinality(D) = max /\ K = D \ {Min(D)}
  BY DEF Kept
<1>3. IsFiniteSet(D) /\ D # {}
  <2>1. IsFiniteSet(Frames)
    BY FS_Interval, StreamAssumption DEF Frames
  <2> QED
    BY <1>1, <1>2, <2>1, FS_Subset, FS_EmptySet
<1>4. Min(D) \in D /\ \A x \in D : Min(D) <= x
  BY <1>1, <1>3, MinOfFrames
<1>5. IsFiniteSet(K) /\ Cardinality(K) = max - 1
  BY <1>2, <1>3, <1>4, FS_RemoveElement
<1>6. \A x \in K : x \in Nat /\ x < t
  BY <1>1, <1>2 DEF Before
<1>7. \E e \in K : e <= f
  <2> SUFFICES ASSUME \A e \in K : ~ (e <= f) PROVE FALSE
    OBVIOUS
  <2>1. K \in SUBSET ((f + 1) .. (t - 1))
    BY <1>1, <1>6
  <2>2. f + 1 \in Int /\ t - 1 \in Int
    BY <1>1
  <2>3. IsFiniteSet((f + 1) .. (t - 1))
        /\ Cardinality((f + 1) .. (t - 1)) = IF f + 1 > t - 1 THEN 0 ELSE (t - 1) - (f + 1) + 1
    BY <2>2, FS_Interval
  <2>4. Cardinality(K) <= Cardinality((f + 1) .. (t - 1))
    BY <2>1, <2>3, FS_Subset
  <2> QED
    BY <1>1, <1>5, <2>3, <2>4
<1> HIDE DEF D, K
<1>8. PICK e \in K : e <= f
  BY <1>7
<1>9. \A x \in Before(s, t) : x \in K \/ x <= e
  BY <1>1, <1>2, <1>4, <1>8
<1> QED
  BY <1>8, <1>9 DEF K

-----------------------------------------------------------------------------
(* The invariant *)

\* The clocks, the variables, and the window.
WindowType ==
  /\ ids \in SUBSET Vars /\ bound \in SUBSET Vars
  /\ window \in [Vars -> Streams]
  /\ now \in Frames /\ reach \in Frames /\ base \in Frames
  /\ hist \in [Vars -> [Frames -> Values]]
  /\ promised \in SUBSET Vars /\ settled \in SUBSET promised

SnapshotType ==
  /\ auto \in [{1, 2} -> Snapshots]
  /\ manual \in [Names -> [taken : BOOLEAN, shot : Snapshots]]

\* The present lies between the floor and the furthest frame, a load is past, and
\* the window answers for variables that are bound and have a stream.
Clocks == base < now /\ now <= reach /\ Floor <= now

Bindings == promised \subseteq bound /\ bound \subseteq ids

Absent == \A x \in Vars \ ids : window[x] = NewStream

\* RewindsAreSafe without the least element.
Early == \A x \in settled : \E u \in DOMAIN window[x] : u <= Floor

WindowInv ==
  WindowType /\ Clocks /\ Bindings /\ Absent /\ WindowTellsTheTruth /\ Early

SnapshotInv == SnapshotType /\ SnapshotsTellTheTruth

DInv == WindowInv /\ SnapshotInv

\* The variables of either half.
windowVars == <<ids, window, bound, now, reach, base, hist, promised, settled>>
snapshotVars == <<auto, manual>>

\* The floor as a function of the two clocks it depends on.
FloorOf(b, r) == Max({0, b, r - MaxRollback})

\* It is neither before the last load nor further back than a rewind may go.
LEMMA FloorBounds ==
  ASSUME NEW b \in Frames, NEW r \in Frames
  PROVE  /\ FloorOf(b, r) \in Frames
         /\ b <= FloorOf(b, r) /\ r - MaxRollback <= FloorOf(b, r)
         /\ b <= r => FloorOf(b, r) <= r
<1>1. b \in Nat /\ r \in Nat /\ b <= LastFrame /\ r <= LastFrame /\ LastFrame \in Nat
      /\ MaxRollback \in Nat /\ r - MaxRollback \in Int
  BY StreamAssumption, DomainAssumption DEF Frames
<1>2. /\ FloorOf(b, r) \in {0, b, r - MaxRollback}
      /\ 0 <= FloorOf(b, r) /\ b <= FloorOf(b, r) /\ r - MaxRollback <= FloorOf(b, r)
  <2>1. 0 \in Int /\ b \in Int /\ r - MaxRollback \in Int
    BY <1>1
  <2> QED
    BY <2>1, MaxOfThree, Zenon DEF FloorOf
<1> QED
  BY <1>1, <1>2 DEF Frames

\* What the floor is, now and after a step.
LEMMA FloorIs ==
  ASSUME WindowType
  PROVE  /\ Floor = FloorOf(base, reach) /\ Floor' = FloorOf(base', reach')
         /\ Floor \in Frames /\ base <= Floor /\ reach - MaxRollback <= Floor
<1>1. Floor = FloorOf(base, reach) /\ Floor' = FloorOf(base', reach')
  BY DEF Floor, FloorOf
<1> QED
  BY <1>1, FloorBounds DEF WindowType

\* Frames are numbers.
LEMMA FramesAreNumbers ==
  Frames \subseteq Nat /\ 0 \in Frames /\ 1 \in Frames /\ \A u \in Frames : u <= LastFrame
BY StreamAssumption DEF Frames

\* A history that is changed from t on.
LEMMA FromShape ==
  ASSUME NEW h \in [Frames -> Values], NEW t, NEW v \in Values
  PROVE  /\ From(h, t, v) \in [Frames -> Values]
         /\ \A u \in Frames : From(h, t, v)[u] = IF u >= t THEN v ELSE h[u]
BY DEF From

\* A history that never changes.
LEMMA FlatShape ==
  ASSUME NEW v \in Values
  PROVE  Flat(v) \in [Frames -> Values] /\ \A u \in Frames : Flat(v)[u] = v
BY DEF Flat

\* The empty snapshot.
LEMMA NoSnapshotShape == NoSnapshot \in Snapshots /\ TrueSnapshot(NoSnapshot)
BY NewStreamShape, FramesAreNumbers, StreamAssumption DEF NoSnapshot, Snapshots, TrueSnapshot

\* The initial states.
LEMMA DomainStart == Init => DInv
<1> SUFFICES ASSUME Init PROVE DInv
  OBVIOUS
<1> USE DEF Init
<1>1. WindowType
  BY NewStreamShape, FramesAreNumbers, FlatShape, StreamAssumption DEF WindowType
<1>2. Clocks
  <2>1. Floor <= reach
    BY <1>1, FloorIs, FloorBounds DEF WindowType
  <2> QED
    BY <2>1 DEF Clocks
<1>3. WindowInv
  BY <1>1, <1>2 DEF WindowInv, Bindings, Absent, WindowTellsTheTruth, Early
<1>4. SnapshotInv
  BY NoSnapshotShape DEF SnapshotInv, SnapshotType, SnapshotsTellTheTruth
<1> QED
  BY <1>3, <1>4 DEF DInv

-----------------------------------------------------------------------------
(* Variables and frames *)

\* A step that leaves the window alone.
LEMMA WindowStays ==
  ASSUME WindowInv, UNCHANGED windowVars
  PROVE  WindowInv'
BY DEF WindowInv, windowVars, WindowType, Clocks, Floor, Bindings, Absent,
       WindowTellsTheTruth, Early

\* A step that leaves the snapshots alone.
LEMMA SnapshotsStay ==
  ASSUME SnapshotInv, UNCHANGED snapshotVars
  PROVE  SnapshotInv'
BY DEF SnapshotInv, snapshotVars, SnapshotType, SnapshotsTellTheTruth, TrueSnapshot

\* Binding a variable.
LEMMA BindKeeps ==
  ASSUME WindowInv, NEW x \in Vars, NEW fromZero \in BOOLEAN, Bind(x, fromZero)
  PROVE  WindowInv'
<1> USE DEF WindowInv, WindowType, Bind, clock
<1>0. Default \in Values /\ MaxChanges \in Nat \ {0} /\ 0 \in Frames /\ Frames \subseteq Nat
  BY StreamAssumption, DomainAssumption, FramesAreNumbers
<1> DEFINE w == Write(window[x], 0, Default, MaxChanges)
<1>1. w \in Streams /\ Flat(Default) \in [Frames -> Values]
  BY <1>0, WriteShape, FlatShape
<1>2. Floor' = Floor /\ Floor \in Frames
  BY FloorIs, FloorBounds DEF FloorOf
<1>3. \A t \in Frames : Read(w, t) = Default
  BY <1>0, ReadWritten
<1>4. \E u \in DOMAIN w : u <= 0
  BY <1>0, ReadWritten
<1>5. DOMAIN w \subseteq Nat
  BY <1>0, <1>1, StreamShape
<1> HIDE DEF w
<1>6. window' = IF fromZero THEN [window EXCEPT ![x] = w] ELSE window
  BY DEF w
<1>7. WindowType'
  BY <1>1, <1>6
<1>8. Clocks' /\ Bindings' /\ Absent'
  BY <1>2, <1>6 DEF Clocks, Bindings, Absent
<1>9. WindowTellsTheTruth'
  <2> SUFFICES ASSUME NEW y \in promised', NEW t \in Floor .. LastFrame
               PROVE  Read(window'[y], t) = hist'[y][t]
    BY <1>2 DEF WindowTellsTheTruth
  <2>0. t \in Frames
    BY <1>0, <1>2, FramesAreNumbers DEF Frames
  <2>1. CASE y # x
    BY <1>6, <2>1 DEF WindowTellsTheTruth
  <2>2. CASE y = x /\ fromZero
    <3>1. window'[x] = w /\ hist'[x] = Flat(Default)
      BY <1>6, <2>2
    <3> QED
      BY <1>0, <1>3, <2>0, <2>2, <3>1, FlatShape
  <2>3. CASE y = x /\ ~ fromZero
    <3>1. x \notin promised
      BY DEF Bindings
    <3>2. x \notin ids
      BY <2>3, <3>1
    <3>3. window'[x] = NewStream /\ hist'[x] = Flat(Default)
      BY <1>6, <2>3, <3>2 DEF Absent
    <3>4. Read(NewStream, t) = Default
      BY NewStreamShape, ReadNone
    <3> QED
      BY <1>0, <2>0, <2>3, <3>3, <3>4, FlatShape
  <2> QED
    BY <2>1, <2>2, <2>3
<1>10. Early'
  <2> SUFFICES ASSUME NEW y \in settled' PROVE \E u \in DOMAIN window'[y] : u <= Floor
    BY <1>2 DEF Early
  <2>1. CASE y = x /\ fromZero
    <3>1. window'[x] = w
      BY <1>6, <2>1
    <3>2. PICK u \in DOMAIN w : u <= 0
      BY <1>4
    <3>3. u <= Floor
      BY <1>0, <1>2, <1>5, <3>2
    <3> QED
      BY <2>1, <3>1, <3>3
  <2>2. CASE ~ (y = x /\ fromZero)
    <3>1. y \in settled /\ y # x
      BY <2>2 DEF Bindings
    <3>2. window'[y] = window[y]
      BY <1>6, <3>1
    <3> QED
      BY <3>1, <3>2 DEF Early
  <2> QED
    BY <2>1, <2>2
<1> QED
  BY <1>7, <1>8, <1>9, <1>10

\* Taking a variable away.
LEMMA UnbindKeeps ==
  ASSUME WindowInv, NEW x \in Vars, Unbind(x)
  PROVE  WindowInv'
<1> USE DEF WindowInv, WindowType, Unbind, clock
<1>1. Floor' = Floor
  BY FloorIs
<1>2. Flat(Default) \in [Frames -> Values]
  BY StreamAssumption, FlatShape
<1>3. WindowType'
  BY <1>2, NewStreamShape
<1>4. Clocks' /\ Bindings' /\ Absent'
  BY <1>1 DEF Clocks, Bindings, Absent
<1>5. WindowTellsTheTruth' /\ Early'
  BY <1>1 DEF WindowTellsTheTruth, Early
<1> QED
  BY <1>3, <1>4, <1>5

\* Assigning: a full window drops a change that nobody can go back to.
LEMMA AssignKeeps ==
  ASSUME WindowInv, NEW x \in Vars, NEW v \in Values, Assign(x, v)
  PROVE  WindowInv'
<1> USE DEF WindowInv, WindowType, Assign, clock
<1>0. MaxChanges \in Nat \ {0} /\ MaxRollback \in Nat /\ MaxRollback < MaxChanges
      /\ Frames \subseteq Nat /\ now \in Nat /\ reach \in Nat /\ now <= reach
  BY DomainAssumption, FramesAreNumbers DEF Clocks
<1>1. Floor' = Floor /\ Floor \in Frames /\ reach - MaxRollback <= Floor /\ Floor <= now
  BY FloorIs DEF Clocks
<1> DEFINE s == window[x]
           w == Write(window[x], now, v, MaxChanges)
<1>2. s \in Streams /\ w \in Streams
  BY WriteShape
<1>3. ASSUME Floor < now
      PROVE  \/ Kept(s, now, MaxChanges) = Before(s, now)
             \/ \E e \in Kept(s, now, MaxChanges) : e <= Floor
                /\ \A y \in Before(s, now) : y \in Kept(s, now, MaxChanges) \/ y <= e
  <2>1. now - Floor < MaxChanges
    BY <1>0, <1>1
  <2> QED
    BY <1>0, <1>1, <1>2, <1>3, <2>1, Room
<1>4. \A u \in Frames : now <= u => Read(w, u) = v
  BY ReadWritten
<1>5. ASSUME NEW u \in Frames, Floor <= u, u < now
      PROVE  Read(w, u) = Read(s, u)
  <2>1. Floor < now
    BY <1>0, <1>1, <1>5
  <2>2. \/ Kept(s, now, MaxChanges) = Before(s, now)
        \/ \E e \in Kept(s, now, MaxChanges) : e <= u
           /\ \A y \in Before(s, now) : y \in Kept(s, now, MaxChanges) \/ y <= e
    <3>1. CASE Kept(s, now, MaxChanges) = Before(s, now)
      BY <3>1
    <3>2. CASE \E e \in Kept(s, now, MaxChanges) : e <= Floor
                /\ \A y \in Before(s, now) : y \in Kept(s, now, MaxChanges) \/ y <= e
      <4>1. PICK e \in Kept(s, now, MaxChanges) : e <= Floor
                /\ \A y \in Before(s, now) : y \in Kept(s, now, MaxChanges) \/ y <= e
        BY <3>2
      <4>2. e \in Nat
        BY <1>0, <1>2, KeptShape, StreamShape
      <4>3. e <= u
        BY <1>0, <1>1, <1>5, <4>1, <4>2
      <4> QED
        BY <4>1, <4>3
    <3> QED
      BY <1>3, <2>1, <3>1, <3>2
  <2> HIDE DEF s
  <2>3. Read(Write(s, now, v, MaxChanges), u) = Read(s, u)
    BY <1>2, <1>5, <2>2, ReadBeforeWritten
  <2> QED
    BY <2>3 DEF s
<1>6. ASSUME \E u \in DOMAIN s : u <= Floor
      PROVE  \E u \in DOMAIN w : u <= Floor
  <2>1. PICK d \in DOMAIN s : d <= Floor
    BY <1>6
  <2>2. d \in Nat
    BY <1>0, <1>2, StreamShape
  <2>3. CASE Floor = now
    <3>1. \E y \in DOMAIN w : y <= now
      BY ReadWritten, <1>0
    <3> QED
      BY <2>3, <3>1
  <2>4. CASE Floor < now
    <3>1. d \in Before(s, now)
      BY <1>0, <1>1, <2>1, <2>2, <2>4 DEF Before
    <3>2. (w = Discard(s, now) /\ Repeats(s, now, v)) \/ Adds(w, s, now, v, MaxChanges)
      BY <1>2, WriteShape
    <3>3. CASE w = Discard(s, now)
      <4>1. now \in Int
        BY <1>0
      <4>2. DOMAIN Discard(s, now) = {u \in DOMAIN s : u < now}
        BY <1>2, <4>1, DiscardShape
      <4> HIDE DEF s, w
      <4> QED
        BY <2>1, <3>1, <3>3, <4>2 DEF Before
    <3>4. CASE Adds(w, s, now, v, MaxChanges)
      <4>1. \E e \in Kept(s, now, MaxChanges) : e <= Floor
        BY <1>3, <2>1, <2>4, <3>1
      <4> HIDE DEF s, w
      <4> QED
        BY <3>4, <4>1 DEF Adds
    <3> QED
      BY <3>2, <3>3, <3>4
  <2> QED
    BY <1>0, <1>1, <2>3, <2>4
<1> HIDE DEF s, w
<1>7. window' = [window EXCEPT ![x] = w] /\ window[x] = s /\ window'[x] = w
  BY DEF w, s
<1>8. WindowType'
  <2>1. hist' \in [Vars -> [Frames -> Values]]
    <3>1. From(hist[x], now, v) \in [Frames -> Values]
      BY FromShape
    <3> QED
      BY <3>1
  <2> QED
    BY <1>2, <1>7, <2>1
<1>9. Clocks' /\ Bindings' /\ Absent'
  BY <1>1, <1>7 DEF Clocks, Bindings, Absent
<1>10. WindowTellsTheTruth'
  <2> SUFFICES ASSUME NEW y \in promised, NEW t \in Floor .. LastFrame
               PROVE  Read(window'[y], t) = hist'[y][t]
    BY <1>1 DEF WindowTellsTheTruth
  <2>0. t \in Frames /\ t \in Nat /\ Floor <= t
    BY <1>0, <1>1, FramesAreNumbers DEF Frames
  <2>1. CASE y # x
    BY <1>7, <2>1 DEF WindowTellsTheTruth
  <2>2. CASE y = x
    <3>1. hist'[x] = From(hist[x], now, v) /\ hist[x] \in [Frames -> Values]
      BY <2>2
    <3>2. hist'[x][t] = IF t >= now THEN v ELSE hist[x][t]
      BY <2>0, <3>1, FromShape
    <3>3. Read(s, t) = hist[x][t]
      BY <1>7, <2>2 DEF WindowTellsTheTruth
    <3>4. CASE t >= now
      BY <1>0, <1>4, <1>7, <2>0, <2>2, <3>2, <3>4
    <3>5. CASE t < now
      BY <1>0, <1>5, <1>7, <2>0, <2>2, <3>2, <3>3, <3>5
    <3> QED
      BY <1>0, <2>0, <3>4, <3>5
  <2> QED
    BY <2>1, <2>2
<1>11. Early'
  <2> SUFFICES ASSUME NEW y \in settled PROVE \E u \in DOMAIN window'[y] : u <= Floor
    BY <1>1 DEF Early
  <2>1. \E u \in DOMAIN window[y] : u <= Floor
    BY DEF Early
  <2>2. CASE y # x
    BY <1>7, <2>1, <2>2
  <2>3. CASE y = x
    BY <1>6, <1>7, <2>1, <2>3
  <2> QED
    BY <2>2, <2>3
<1> QED
  BY <1>8, <1>9, <1>10, <1>11

\* The next frame.
LEMMA NextFrameKeeps ==
  ASSUME WindowInv, NextFrame
  PROVE  WindowInv'
<1> USE DEF WindowInv, WindowType, NextFrame, clock
<1>0. Frames \subseteq Nat /\ now \in Nat /\ reach \in Nat /\ base \in Nat
      /\ LastFrame \in Nat /\ MaxRollback \in Nat
  BY FramesAreNumbers, StreamAssumption, DomainAssumption
<1>1. reach' \in {reach, now + 1} /\ reach <= reach' /\ now' <= reach'
  <2>1. reach \in Int /\ now + 1 \in Int /\ now' = now + 1 /\ reach' = Max({reach, now'})
    BY <1>0
  <2>2. reach' = Max({reach, now + 1})
    BY <2>1
  <2> QED
    BY <2>1, <2>2, MaxOfTwo, Zenon
<1>2. now' \in Frames /\ reach' \in Frames /\ base' = base
  BY <1>0, <1>1 DEF Frames
<1>3. WindowType'
  BY <1>2
<1>4. /\ Floor = FloorOf(base, reach) /\ Floor' = FloorOf(base, reach')
      /\ Floor \in Frames /\ Floor' \in Frames
      /\ base <= Floor' /\ reach' - MaxRollback <= Floor'
      /\ base <= reach' => Floor' <= reach'
  BY <1>2, FloorIs, FloorBounds
<1>5. Floor \in {0, base, reach - MaxRollback} /\ 0 <= Floor'
  <2>1. 0 \in Int /\ base \in Int /\ reach - MaxRollback \in Int
    BY <1>0
  <2>2. Floor \in {0, base, reach - MaxRollback}
    BY <1>4, <2>1, MaxOfThree, Zenon DEF FloorOf
  <2> QED
    BY <1>0, <1>4, <2>2 DEF Frames
<1>6. Floor <= Floor'
  BY <1>0, <1>1, <1>2, <1>4, <1>5
<1>7. Clocks'
  <2>1. CASE reach' = reach
    BY <1>0, <1>1, <1>4, <2>1 DEF Clocks
  <2>2. CASE reach' = now + 1
    BY <1>0, <1>1, <1>4, <2>2 DEF Clocks
  <2> QED
    BY <1>1, <2>1, <2>2
<1>8. Bindings' /\ Absent'
  BY DEF Bindings, Absent
<1>9. WindowTellsTheTruth'
  <2>1. (Floor' .. LastFrame) \subseteq (Floor .. LastFrame)
    BY <1>0, <1>4, <1>6
  <2> QED
    BY <2>1 DEF WindowTellsTheTruth
<1>10. Early'
  <2> SUFFICES ASSUME NEW y \in settled PROVE \E u \in DOMAIN window[y] : u <= Floor'
    BY DEF Early
  <2>1. PICK u \in DOMAIN window[y] : u <= Floor
    BY DEF Early
  <2>2. u \in Nat
    BY <1>0, StreamShape
  <2> QED
    BY <1>0, <1>4, <1>6, <2>1, <2>2
<1> QED
  BY <1>3, <1>7, <1>8, <1>9, <1>10

\* A rewind discards what was changed after t, and the floor is not after t.
LEMMA RewindKeeps ==
  ASSUME WindowInv, NEW t \in Frames, Rewind(t)
  PROVE  WindowInv'
<1> USE DEF WindowInv, WindowType, Rewind, clock
<1>0. Frames \subseteq Nat /\ now \in Nat /\ reach \in Nat /\ base \in Nat /\ t \in Nat
      /\ LastFrame \in Nat /\ \A u \in Frames : u <= LastFrame
  BY FramesAreNumbers, StreamAssumption
<1>1. Floor' = Floor /\ Floor \in Frames /\ Floor <= t /\ base <= Floor /\ t + 1 <= now
  BY <1>0, FloorIs
<1>2. t + 1 \in Frames /\ t + 1 \in Int
  BY <1>0, <1>1 DEF Frames
<1>3. \A x \in Vars : window'[x] \in Streams
  BY <1>2, DiscardShape
<1>4. \A x \in Vars : /\ hist'[x] \in [Frames -> Values]
                      /\ \A u \in Frames : hist'[x][u] = IF u >= t + 1 THEN hist[x][t] ELSE hist[x][u]
  BY FromShape
<1>5. WindowType'
  BY <1>2, <1>3, <1>4
<1>6. Clocks' /\ Bindings'
  BY <1>0, <1>1 DEF Clocks, Bindings
<1>7. Absent'
  BY DEF Absent
<1>8. WindowTellsTheTruth'
  <2> SUFFICES ASSUME NEW x \in promised, NEW u \in Floor .. LastFrame
               PROVE  Read(window'[x], u) = hist'[x][u]
    BY <1>1 DEF WindowTellsTheTruth
  <2>0. u \in Frames /\ u \in Nat /\ Floor <= u
    BY <1>0, <1>1 DEF Frames
  <2>1. x \in ids /\ x \in Vars
    BY DEF Bindings
  <2>2. window'[x] = Discard(window[x], t + 1)
    BY <2>1
  <2>3. Read(window'[x], u) = Read(window[x], IF u <= t THEN u ELSE t)
    BY <2>0, <2>1, <2>2, ReadDiscard
  <2>4. t \in Floor .. LastFrame
    BY <1>0, <1>1
  <2>5. Read(window[x], t) = hist[x][t] /\ Read(window[x], u) = hist[x][u]
    BY <2>4 DEF WindowTellsTheTruth
  <2>6. hist'[x][u] = IF u >= t + 1 THEN hist[x][t] ELSE hist[x][u]
    BY <1>4, <2>0, <2>1
  <2> QED
    BY <1>0, <2>0, <2>3, <2>5, <2>6
<1>9. Early'
  <2> SUFFICES ASSUME NEW y \in settled PROVE \E u \in DOMAIN window'[y] : u <= Floor
    BY <1>1 DEF Early
  <2>1. PICK u \in DOMAIN window[y] : u <= Floor
    BY DEF Early
  <2>2. y \in ids /\ y \in Vars /\ window[y] \in Streams
    BY DEF Bindings
  <2>3. u \in Nat
    BY <1>0, <2>2, StreamShape
  <2>4. DOMAIN Discard(window[y], t + 1) = {w \in DOMAIN window[y] : w < t + 1}
    BY <1>2, <2>2, DiscardShape
  <2>5. u \in DOMAIN window'[y]
    BY <1>0, <1>1, <2>1, <2>2, <2>3, <2>4
  <2> QED
    BY <2>1, <2>5
<1> QED
  BY <1>5, <1>6, <1>7, <1>8, <1>9

-----------------------------------------------------------------------------
(* Snapshots *)

\* The streams T are those of "to", and from t on those of "from" as they were at t.
Transferred(T, to, from, fromIds, t) ==
  /\ T \in [Vars -> Streams]
  /\ \A x \in Vars \ fromIds : T[x] = to[x]
  /\ \A x \in fromIds : \A u \in Frames : t <= u =>
        Read(T[x], u) = Read(from[x], t) /\ \E y \in DOMAIN T[x] : y <= t

\* What a transfer does to the streams.
LEMMA TransferShape ==
  ASSUME NEW to \in [Vars -> Streams], NEW from \in [Vars -> Streams],
         NEW fromIds \in SUBSET Vars, NEW t \in Frames, NEW max
  PROVE  Transferred(Transfer(to, from, fromIds, t, max), to, from, fromIds, t)
<1> DEFINE T == Transfer(to, from, fromIds, t, max)
<1>1. \A x \in Vars : Read(from[x], t) \in Values
  BY ReadType
<1>2. \A x \in Vars : Write(to[x], t, Read(from[x], t), max) \in Streams
  BY <1>1, WriteShape
<1>3. T \in [Vars -> Streams]
  BY <1>2 DEF Transfer
<1>4. \A x \in Vars \ fromIds : T[x] = to[x]
  BY DEF Transfer
<1>5. \A x \in fromIds : T[x] = Write(to[x], t, Read(from[x], t), max)
  BY DEF Transfer
<1>6. ASSUME NEW x \in fromIds, NEW u \in Frames, t <= u
      PROVE  Read(T[x], u) = Read(from[x], t) /\ \E y \in DOMAIN T[x] : y <= t
  <2>1. Read(from[x], t) \in Values /\ to[x] \in Streams
    BY <1>1
  <2>2. Read(Write(to[x], t, Read(from[x], t), max), u) = Read(from[x], t)
        /\ \E y \in DOMAIN Write(to[x], t, Read(from[x], t), max) : y <= t
    BY <1>6, <2>1, ReadWritten
  <2> QED
    BY <1>5, <2>2
<1> HIDE DEF T
<1>7. Transferred(T, to, from, fromIds, t)
  BY <1>3, <1>4, <1>6 DEF Transferred
<1> QED
  BY <1>7 DEF T

\* A snapshot that is taken, into an old one or into none, tells the truth.
LEMMA TakenIsTrue ==
  ASSUME WindowInv, NEW old \in Snapshots, NEW t \in Frames, Floor <= t
  PROVE  /\ Taken(old, t) \in Snapshots
         /\ TrueSnapshot(Taken(old, t))
         /\ Taken(old, t).time = t
<1> USE DEF WindowInv, WindowType
<1> DEFINE T == Transfer(old.streams, window, ids, t, 1)
<1>1. old.streams \in [Vars -> Streams] /\ old.ids \in SUBSET Vars
  BY DEF Snapshots
<1>2. Transferred(T, old.streams, window, ids, t)
  BY <1>1, TransferShape
<1>3. \A x \in ids : Read(T[x], t) = Read(window[x], t)
  <2>1. t <= t
    BY DEF Frames
  <2> QED
    BY <1>2, <2>1 DEF Transferred
<1>4. \A x \in promised : x \in ids /\ Read(window[x], t) = hist[x][t]
  <2>1. t \in Floor .. LastFrame
    BY FloorIs, FramesAreNumbers, StreamAssumption
  <2> QED
    BY <2>1 DEF WindowTellsTheTruth, Bindings
<1> HIDE DEF T
<1>5. Taken(old, t) =
        [time |-> t, ids |-> old.ids \cup ids, streams |-> T, told |-> promised,
         truth |-> [x \in Vars |-> IF x \in promised THEN hist[x][t] ELSE Default]]
  BY DEF Taken, T
<1>6. Taken(old, t) \in Snapshots
  BY <1>1, <1>2, <1>5, StreamAssumption DEF Snapshots, Transferred
<1>7. TrueSnapshot(Taken(old, t))
  BY <1>3, <1>4, <1>5 DEF TrueSnapshot
<1> QED
  BY <1>5, <1>6, <1>7

\* Which of the automatic snapshots is the older.
LEMMA OldestAndLatest ==
  OldestAuto \in {1, 2} /\ LatestAuto \in {1, 2} /\ OldestAuto # LatestAuto
BY DEF OldestAuto, LatestAuto

\* An automatic snapshot.
LEMMA TakeAutoKeeps ==
  ASSUME DInv, NEW t \in Frames, TakeAuto(t)
  PROVE  DInv'
<1> USE DEF DInv, TakeAuto, SnapshotInv, SnapshotType
<1>1. WindowInv'
  BY WindowStays DEF windowVars, clock
<1>2. Floor <= t
  BY FloorIs, FramesAreNumbers DEF WindowInv
<1>3. auto[OldestAuto] \in Snapshots
  BY OldestAndLatest
<1>4. Taken(auto[OldestAuto], t) \in Snapshots /\ TrueSnapshot(Taken(auto[OldestAuto], t))
  BY <1>2, <1>3, TakenIsTrue
<1>5. auto' = [auto EXCEPT ![OldestAuto] = Taken(auto[OldestAuto], t)]
  OBVIOUS
<1>6. SnapshotType'
  BY <1>4, <1>5, OldestAndLatest
<1>7. \A i \in {1, 2} : TrueSnapshot(auto'[i])
  BY <1>4, <1>5, OldestAndLatest DEF SnapshotsTellTheTruth
<1>8. SnapshotsTellTheTruth'
  BY <1>7 DEF SnapshotsTellTheTruth, TrueSnapshot
<1> QED
  BY <1>1, <1>6, <1>8

\* A manual snapshot.
LEMMA TakeManualKeeps ==
  ASSUME DInv, NEW n \in Names, TakeManual(n)
  PROVE  DInv'
<1> USE DEF DInv, TakeManual, SnapshotInv, SnapshotType
<1>1. WindowInv'
  BY WindowStays DEF windowVars, clock
<1>2. Floor <= now /\ now \in Frames
  BY DEF WindowInv, WindowType, Clocks
<1>3. manual[n].shot \in Snapshots
  OBVIOUS
<1>4. Taken(manual[n].shot, now) \in Snapshots /\ TrueSnapshot(Taken(manual[n].shot, now))
  BY <1>2, <1>3, TakenIsTrue
<1>5. manual' = [manual EXCEPT ![n] = [taken |-> TRUE, shot |-> Taken(manual[n].shot, now)]]
  OBVIOUS
<1>6. SnapshotType'
  BY <1>4, <1>5
<1>7. \A m \in Names : TrueSnapshot(manual'[m].shot)
  BY <1>4, <1>5 DEF SnapshotsTellTheTruth
<1>8. SnapshotsTellTheTruth'
  BY <1>7 DEF SnapshotsTellTheTruth, TrueSnapshot
<1> QED
  BY <1>1, <1>6, <1>8

\* A manual snapshot that is removed.
LEMMA RemoveManualKeeps ==
  ASSUME DInv, NEW n \in Names, RemoveManual(n)
  PROVE  DInv'
<1> USE DEF DInv, RemoveManual, SnapshotInv, SnapshotType
<1>1. WindowInv'
  BY WindowStays DEF windowVars, clock
<1>2. SnapshotType'
  BY NoSnapshotShape
<1>3. \A m \in Names : TrueSnapshot(manual'[m].shot)
  BY NoSnapshotShape DEF SnapshotsTellTheTruth
<1>4. SnapshotsTellTheTruth'
  BY <1>3 DEF SnapshotsTellTheTruth, TrueSnapshot
<1> QED
  BY <1>1, <1>2, <1>4

\* Snapshots that are dropped.
LEMMA ClearKeeps ==
  ASSUME DInv, NEW gone, Clear(gone)
  PROVE  DInv'
<1> USE DEF DInv, Clear, SnapshotInv, SnapshotType
<1>1. WindowInv'
  BY WindowStays DEF windowVars, clock
<1>2. SnapshotType'
  BY NoSnapshotShape
<1>3. \A i \in {1, 2} : TrueSnapshot(auto'[i])
  BY NoSnapshotShape DEF SnapshotsTellTheTruth
<1>4. \A m \in Names : TrueSnapshot(manual'[m].shot)
  BY NoSnapshotShape DEF SnapshotsTellTheTruth
<1>5. SnapshotsTellTheTruth'
  BY <1>3, <1>4 DEF SnapshotsTellTheTruth, TrueSnapshot
<1> QED
  BY <1>1, <1>2, <1>5

\* A load: the variables the snapshot tells of start again from its values.
LEMMA LoadKeeps ==
  ASSUME WindowInv, NEW s \in Snapshots, TrueSnapshot(s), Load(s)
  PROVE  WindowInv'
<1> USE DEF WindowInv, WindowType, Load
<1>0. Frames \subseteq Nat /\ LastFrame \in Nat /\ \A u \in Frames : u <= LastFrame
  BY FramesAreNumbers, StreamAssumption
<1>1. s.time \in Frames /\ s.time \in Nat /\ s.ids \in SUBSET Vars /\ s.streams \in [Vars -> Streams]
      /\ s.told \in SUBSET Vars /\ s.truth \in [Vars -> Values]
  BY <1>0 DEF Snapshots
<1>2. s.time + 1 \in Frames
  BY <1>0, <1>1 DEF Frames
<1>3. /\ window' \in [Vars -> Streams]
      /\ \A x \in Vars \ s.ids : window'[x] = window[x]
      /\ \A x \in s.ids : \A u \in Frames : s.time <= u =>
            /\ Read(window'[x], u) = Read(s.streams[x], s.time)
            /\ \E y \in DOMAIN window'[x] : y <= s.time
  <2>1. window' = Transfer(window, s.streams, s.ids, s.time, MaxChanges)
    OBVIOUS
  <2>2. Transferred(window', window, s.streams, s.ids, s.time)
    BY <1>1, <2>1, TransferShape
  <2> QED
    BY <2>2 DEF Transferred
<1>4. Flat(Default) \in [Frames -> Values]
  BY FlatShape, StreamAssumption
<1>5. \A x \in Vars : From(hist[x], s.time, s.truth[x]) \in [Frames -> Values]
  BY <1>1, FromShape
<1>6. hist' \in [Vars -> [Frames -> Values]]
  BY <1>4, <1>5
<1>7. WindowType'
  BY <1>1, <1>2, <1>3, <1>6
<1>8. Floor' = FloorOf(s.time, s.time + 1) /\ Floor' \in Frames
      /\ s.time <= Floor' /\ Floor' <= s.time + 1
  <2>1. Floor' = FloorOf(s.time, s.time + 1)
    BY FloorIs
  <2>2. s.time <= s.time + 1
    BY <1>0, <1>1
  <2> QED
    BY <1>1, <1>2, <2>1, <2>2, FloorBounds
<1>9. Clocks'
  BY <1>0, <1>1, <1>8 DEF Clocks
<1>10. Bindings' /\ Absent'
  BY <1>3 DEF Bindings, Absent
<1>11. WindowTellsTheTruth'
  <2> SUFFICES ASSUME NEW x \in promised', NEW u \in Floor' .. LastFrame
               PROVE  Read(window'[x], u) = hist'[x][u]
    BY DEF WindowTellsTheTruth
  <2>1. u \in Frames /\ u \in Nat /\ s.time <= u
    BY <1>0, <1>1, <1>8 DEF Frames
  <2>2. x \in promised /\ x \in s.told /\ x \in Vars
    OBVIOUS
  <2>3. x \in s.ids /\ Read(s.streams[x], s.time) = s.truth[x]
    BY <2>2 DEF TrueSnapshot
  <2>4. hist'[x] = From(hist[x], s.time, s.truth[x])
    BY <2>2
  <2>5. hist'[x][u] = s.truth[x]
    BY <1>0, <1>1, <2>1, <2>2, <2>4, FromShape
  <2> QED
    BY <1>3, <2>1, <2>3, <2>5
<1>12. Early'
  <2> SUFFICES ASSUME NEW x \in settled' PROVE \E u \in DOMAIN window'[x] : u <= Floor'
    BY DEF Early
  <2>1. x \in s.ids
    BY DEF TrueSnapshot
  <2>2. s.time <= s.time
    BY <1>0, <1>1
  <2>3. PICK u \in DOMAIN window'[x] : u <= s.time
    BY <1>1, <1>3, <2>1, <2>2
  <2>4. u \in Nat
    BY <1>0, <1>1, <1>3, <2>1, StreamShape
  <2> QED
    BY <1>0, <1>1, <1>8, <2>3, <2>4
<1> QED
  BY <1>7, <1>9, <1>10, <1>11, <1>12

-----------------------------------------------------------------------------
(* The theorems *)

\* Every step keeps the invariant.
LEMMA DomainStep == DInv /\ [Next]_vars => DInv'
<1> SUFFICES ASSUME DInv, [Next]_vars PROVE DInv'
  OBVIOUS
<1> USE DEF DInv
<1>1. ASSUME NEW x \in Vars, NEW fromZero \in BOOLEAN, Bind(x, fromZero) PROVE DInv'
  BY <1>1, BindKeeps, SnapshotsStay DEF Bind, snapshotVars
<1>2. ASSUME NEW x \in Vars, Unbind(x) PROVE DInv'
  BY <1>2, UnbindKeeps, SnapshotsStay DEF Unbind, snapshotVars
<1>3. ASSUME NEW x \in Vars, NEW v \in Values, Assign(x, v) PROVE DInv'
  BY <1>3, AssignKeeps, SnapshotsStay DEF Assign, snapshotVars
<1>4. CASE NextFrame
  BY <1>4, NextFrameKeeps, SnapshotsStay DEF NextFrame, snapshotVars
<1>5. ASSUME NEW t \in Frames, Rewind(t) PROVE DInv'
  BY <1>5, RewindKeeps, SnapshotsStay DEF Rewind, snapshotVars
<1>6. ASSUME NEW t \in Frames, TakeAuto(t) PROVE DInv'
  BY <1>6, TakeAutoKeeps
<1>7. ASSUME NEW t \in Frames, ClearAllSnapshotsBefore(t) \/ ClearAllSnapshotsAfter(t)
      PROVE  DInv'
  BY <1>7, ClearKeeps DEF ClearAllSnapshotsBefore, ClearAllSnapshotsAfter
<1>8. ASSUME NEW n \in Names, TakeManual(n) \/ RemoveManual(n) PROVE DInv'
  BY <1>8, TakeManualKeeps, RemoveManualKeeps
<1>9. ASSUME NEW s \in Snapshots, TrueSnapshot(s), Load(s) PROVE DInv'
  BY <1>9, LoadKeeps, SnapshotsStay DEF Load, snapshotVars
<1>10. ASSUME NEW n \in Names, LoadManual(n) PROVE DInv'
  <2>1. manual[n].shot \in Snapshots /\ TrueSnapshot(manual[n].shot)
    BY DEF SnapshotInv, SnapshotType, SnapshotsTellTheTruth
  <2> QED
    BY <1>9, <1>10, <2>1 DEF LoadManual
<1>11. CASE LoadLatestAuto
  <2>1. auto[LatestAuto] \in Snapshots /\ TrueSnapshot(auto[LatestAuto])
    BY OldestAndLatest DEF SnapshotInv, SnapshotType, SnapshotsTellTheTruth
  <2> QED
    BY <1>9, <1>11, <2>1 DEF LoadLatestAuto
<1>12. CASE UNCHANGED vars
  <2>1. UNCHANGED windowVars /\ UNCHANGED snapshotVars
    BY <1>12 DEF vars, windowVars, snapshotVars
  <2> QED
    BY <2>1, WindowStays, SnapshotsStay
<1> QED
  BY <1>1, <1>2, <1>3, <1>4, <1>5, <1>6, <1>7, <1>8, <1>10, <1>11, <1>12 DEF Next

\* Every reachable state of a domain satisfies the invariant (Rollback/Domain,
\* core_state/StateStream).
THEOREM DomainInvariant == Spec => []DInv
<1>1. Init => DInv
  BY DomainStart
<1>2. DInv /\ [Next]_vars => DInv'
  BY DomainStep
<1> QED
  BY <1>1, <1>2, PTL DEF Spec

\* The variables have their types.
THEOREM DomainTypes == Spec => []TypeOK
<1>1. DInv => TypeOK
  BY DEF DInv, WindowInv, WindowType, SnapshotInv, SnapshotType, TypeOK
<1> QED
  BY <1>1, DomainInvariant, PTL

\* From the floor onwards a variable reads what an unbounded history of it says,
\* for windows of any size (StateStream::Write drops the oldest change).
THEOREM WindowIsTrue == Spec => []WindowTellsTheTruth
<1>1. DInv => WindowTellsTheTruth
  BY DEF DInv, WindowInv
<1> QED
  BY <1>1, DomainInvariant, PTL

\* A rewind finds a value of every settled variable: assertSafeRewind of the frame
\* loop (cc3o3.cpp:417-431).
THEOREM RewindsStaySafe == Spec => []RewindsAreSafe
<1>1. DInv => RewindsAreSafe
  <2> SUFFICES ASSUME DInv, NEW x \in settled
               PROVE  DOMAIN window[x] # {} /\ EarliestTime(window[x]) <= Floor
    BY DEF RewindsAreSafe
  <2>1. window[x] \in Streams /\ Floor \in Frames /\ Floor \in Nat
    BY FloorIs, FramesAreNumbers DEF DInv, WindowInv, WindowType
  <2>2. PICK u \in DOMAIN window[x] : u <= Floor
    BY DEF DInv, WindowInv, Early
  <2>3. DOMAIN window[x] \in SUBSET Frames
    BY <2>1, StreamShape
  <2>4. Min(DOMAIN window[x]) \in DOMAIN window[x] /\ Min(DOMAIN window[x]) <= u
    BY <2>2, <2>3, MinOfFrames
  <2>5. u \in Nat /\ Min(DOMAIN window[x]) \in Nat
    BY <2>2, <2>3, <2>4, FramesAreNumbers
  <2>6. EarliestTime(window[x]) = Min(DOMAIN window[x])
    BY <2>2 DEF EarliestTime
  <2> QED
    BY <2>1, <2>2, <2>4, <2>5, <2>6
<1> QED
  BY <1>1, DomainInvariant, PTL

\* A snapshot gives back what the variables held when it was taken, also when it
\* was taken into an older one (Domain::TakeAutoSnapshot, TakeManualSnapshot).
THEOREM SnapshotsAreTrue == Spec => []SnapshotsTellTheTruth
<1>1. DInv => SnapshotsTellTheTruth
  BY DEF DInv, SnapshotInv
<1> QED
  BY <1>1, DomainInvariant, PTL

\* A later automatic snapshot becomes the latest and the one that was latest stays
\* (Domain::GetOldestAutoSnapshot, GetLatestAutoSnapshot).
THEOREM AutoSnapshotsTakeTurns == Spec => PreviousAutoIsKept
<1> DEFINE A == \A t \in Frames :
         (TakeAuto(t) /\ t > auto[LatestAuto].time)
            => /\ auto'[LatestAuto'].time = t
               /\ auto'[OldestAuto'] = auto[LatestAuto]
<1>1. DInv /\ [Next]_vars => [A]_vars
  <2> SUFFICES ASSUME DInv, NEW t \in Frames, TakeAuto(t), t > auto[LatestAuto].time
               PROVE  /\ auto'[LatestAuto'].time = t
                      /\ auto'[OldestAuto'] = auto[LatestAuto]
    OBVIOUS
  <2>1. auto \in [{1, 2} -> Snapshots]
    BY DEF DInv, SnapshotInv, SnapshotType
  <2>2. Floor <= t
    BY FloorIs, FramesAreNumbers DEF TakeAuto, DInv, WindowInv
  <2>3. Taken(auto[OldestAuto], t).time = t
    BY <2>1, <2>2, OldestAndLatest, TakenIsTrue DEF DInv
  <2>4. auto'[OldestAuto].time = t /\ auto'[LatestAuto] = auto[LatestAuto]
    BY <2>1, <2>3, OldestAndLatest DEF TakeAuto
  <2>5. auto[LatestAuto].time \in Nat /\ t \in Nat
    BY <2>1, OldestAndLatest, FramesAreNumbers DEF Snapshots
  <2>6. LatestAuto' = OldestAuto /\ OldestAuto' = LatestAuto
    <3>1. CASE OldestAuto = 1 /\ LatestAuto = 2
      <4>1. ~ (auto'[1].time < auto'[2].time)
        BY <2>4, <2>5, <3>1
      <4> QED
        BY <3>1, <4>1 DEF OldestAuto, LatestAuto
    <3>2. CASE OldestAuto = 2 /\ LatestAuto = 1
      <4>1. auto'[1].time < auto'[2].time
        BY <2>4, <2>5, <3>2
      <4> QED
        BY <3>2, <4>1 DEF OldestAuto, LatestAuto
    <3> QED
      BY <3>1, <3>2, OldestAndLatest
  <2> QED
    BY <2>4, <2>6
<1> QED
  BY <1>1, DomainInvariant, PTL DEF Spec, PreviousAutoIsKept
=============================================================================
