-------------------------- MODULE RollbackPeersProofs --------------------------
(***************************************************************************)
(* Proofs about RollbackPeers, for any peers, players, inputs and bounds,  *)
(* as long as every peer has a player of its own and a stalled frame that  *)
(* has been sent gets no more commands.                                    *)
(*                                                                         *)
(* The invariant says, for every player and every other peer, how far the  *)
(* packs still on their way will bring that peer: each pack begins among   *)
(* what the peer will know by then and ends later or at the same place,    *)
(* and the last one ends with all that was given.  The lemmas follow a     *)
(* frame through its parts: the commit before it, the frame itself, the    *)
(* commit after it, and the packs that are merged, one after another.      *)
(***************************************************************************)
EXTENDS RollbackPeers, FiniteSetTheorems, SequenceTheorems,
        WellFoundedInduction, NaturalsInduction, TLAPS

\* Commands are not added to a frame that has been sent, and every peer has a
\* player.
NoSecondThoughts == ~PressAgain
EveryPeerPlays == \A p \in Peers : Local(p) # {}

\* The commands in a stream, and the packs a peer sends.
Commands == [time : Nat, value : Inputs]
Packs(src) == [frameReadyToCommit : Nat, streams : [Local(src) -> Seq(Commands)]]

\* Commands come in the order of their frames.
Ordered(events) ==
  \A i, j \in 1 .. Len(events) : i <= j => events[i].time <= events[j].time

(***************************************************************************)
(* The streams of one peer, when all committed ones end at h: a player's   *)
(* commands are committed up to h and uncommitted after it.                *)
(***************************************************************************)
Divided(committed, uncommitted, h, head) ==
  /\ Ordered(committed) /\ Ordered(uncommitted)
  /\ \A i \in 1 .. Len(committed) : committed[i].time <= h
  /\ \A i \in 1 .. Len(uncommitted) :
       h < uncommitted[i].time /\ uncommitted[i].time <= head

\* The two streams of one player at a peer that has committed up to h.
StreamOK(c, u, h) ==
  /\ c \in Streams /\ u \in Streams
  /\ c.head = h /\ h <= u.head
  /\ Divided(c.events, u.events, h, u.head)

\* All the streams of a peer that has committed up to h.
StreamsOK(s, h) ==
  /\ h \in Nat
  /\ s.com \in [Players -> Streams] /\ s.unc \in [Players -> Streams]
  /\ \A q \in Players : StreamOK(s.com[q], s.unc[q], h)

(***************************************************************************)
(* What a peer knows of a player's commands is a beginning of them, and    *)
(* all that come up to its head.                                           *)
(***************************************************************************)
Beginning(known, given) ==
  /\ Len(known) <= Len(given)
  /\ \A i \in 1 .. Len(known) : known[i] = given[i]

\* A head that a pack's frame, or else the last command, has moved there.
Reached(head, known, frames) ==
  \/ head <= frames
  \/ Len(known) > 0 /\ head <= known[Len(known)].time

\* What is known is a beginning of what was given, and all of it up to the head.
KnowsAllUpTo(head, known, given) ==
  /\ Beginning(known, given)
  /\ \A i \in Len(known) + 1 .. Len(given) : head < given[i].time

\* New commands that begin after the first a given, among the known ones or
\* right after them, and go on at least as far.
Continues(new, a, known, given) ==
  /\ a <= Len(known) /\ Len(known) <= a + Len(new) /\ a + Len(new) <= Len(given)
  /\ \A j \in 1 .. Len(new) : new[j] = given[a + j]

\* They begin with all that was not committed by a frame, and end with all of it
\* or of the frame their last command belongs to.
IsCompleteAt(ready, a, after, given) ==
  /\ \A j \in 1 .. a : given[j].time <= ready
  /\ \A j \in after + 1 .. Len(given) :
       ready < given[j].time /\ (after > 0 => given[after].time < given[j].time)

\* How many commands a peer knows when it has merged pack i, which begins
\* after the first from[i].
After(queue, q, from, i) == from[i] + Len(queue[i].streams[q])

\* A pack on its way: it holds what was given up to its frame and has no part
\* of a frame without the rest.
PackOK(pack, q, first, given, frames) ==
  LET events == pack.streams[q]
      ready == pack.frameReadyToCommit
      after == first + Len(events)
  IN  /\ after <= Len(given)
      /\ \A j \in 1 .. Len(events) : events[j] = given[first + j]
      /\ IsCompleteAt(ready, first, after, given)
      /\ ready <= frames

\* The packs after the first n, in the order they were sent: each begins where
\* the receiver will be by then or before, and the last one holds the rest.
Carries(queue, n, q, from, head, known, given, frames) ==
  /\ from \in [1 .. Len(queue) -> Nat]
  /\ \A i \in n + 1 .. Len(queue) :
       /\ PackOK(queue[i], q, from[i], given, frames)
       /\ Reached(head, known, queue[i].frameReadyToCommit)
       /\ Len(known) <= After(queue, q, from, i)
       /\ from[i] <= (IF i = n + 1 THEN Len(known) ELSE After(queue, q, from, i - 1))
       /\ \A j \in i .. Len(queue) :
            /\ queue[i].frameReadyToCommit <= queue[j].frameReadyToCommit
            /\ After(queue, q, from, i) <= After(queue, q, from, j)
  /\ Len(given) = IF Len(queue) = n THEN Len(known) ELSE After(queue, q, from, Len(queue))

-----------------------------------------------------------------------------

(***************************************************************************)
(* The inductive invariant.  Types are those of TypeOK, said of whole      *)
(* functions; the other parts relate the peers, their streams and the      *)
(* packs between them.                                                     *)
(***************************************************************************)
Types ==
  /\ frame \in [Peers -> Nat]
  /\ com \in [Peers -> [Players -> Streams]]
  /\ unc \in [Peers -> [Players -> Streams]]
  /\ mode \in [Peers -> SimulationModes]
  /\ sim \in [Peers -> [0 .. MaxFrame -> [Players -> Seq(Inputs)]]]
  /\ window \in [Peers -> SUBSET Nat]
  /\ packs \in [Peers -> [Peers -> UNION {Seq(Packs(src)) : src \in Peers}]]
  /\ \A p, d \in Peers : packs[p][d] \in Seq(Packs(p))
  /\ \A p \in Peers : packs[p][p] = <<>>
  /\ failed = [p \in Peers |-> FALSE]

\* A peer's clock.
ClockOK(p) ==
  /\ 1 <= frame[p] /\ frame[p] <= MaxFrame + 1
  /\ CommitHead(p) < frame[p]
  /\ frame[p] <= CommitHead(p) + kMaxRollbackFrames + 1

\* The window holds the changes that are not too old, and no later ones.
WindowOK(p) ==
  /\ \A t \in window[p] : t < frame[p]
  /\ \A t \in 0 .. frame[p] - 1 : frame[p] < t + MaxChanges => t \in window[p]

\* A player's own stream.
OwnOK(q) ==
  LET p == Owner[q]
      head == unc[p][q].head
  IN  /\ head = frame[p] - 1 \/ (head = frame[p] /\ mode[p] = "StallSimulation")
      /\ \A i \in 1 .. Len(Given(p, q)) : Given(p, q)[i].time <= MaxFrame

\* A player's stream at another peer.
RemoteOK(p, q) ==
  LET known == Given(p, q)
      given == Given(Owner[q], q)
      head == unc[p][q].head
      frames == frame[Owner[q]] - 1
  IN  /\ KnowsAllUpTo(head, known, given)
      /\ Reached(head, known, frames)
      /\ \E from \in [1 .. Len(packs[Owner[q]][p]) -> 0 .. Len(given)] :
           Carries(packs[Owner[q]][p], 0, q, from, head, known, given, frames)

\* Every frame up to the commit head was last simulated with its commands.
SimOK(p) ==
  \A f \in 0 .. MaxFrame :
    f <= CommitHead(p) => sim[p][f] = [q \in Players |-> At(Given(p, q), f)]

\* Its last three conjuncts, which Types holds too, let Rest stand alone.
Rest ==
  /\ \A p \in Peers : StreamsOK([com |-> com[p], unc |-> unc[p]], CommitHead(p))
  /\ \A p \in Peers : ClockOK(p)
  /\ \A p \in Peers : WindowOK(p)
  /\ \A p \in Peers : SimOK(p)
  /\ \A q \in Players : OwnOK(q)
  /\ \A q \in Players : \A p \in Peers \ {Owner[q]} : RemoteOK(p, q)
  /\ failed = [p \in Peers |-> FALSE]
  /\ \A p \in Peers : packs[p][p] = <<>>
  /\ frame \in [Peers -> Nat]

\* What holds between the frames.
IInv == Types /\ Rest
-----------------------------------------------------------------------------

(***************************************************************************)
(* Induction, and the places that are found in an ordered stream           *)
(***************************************************************************)

\* A set of numbers has a least one.
LEMMA Least == ASSUME NEW S \in SUBSET Nat, S # {} PROVE \E m \in S : \A n \in S : m <= n
<1>1. PICK m \in S : \A n \in S : ~ (<<n, m>> \in OpToRel(<, Nat))
  BY NatLessThanWellFounded, WFMin
<1>2. \A n \in S : ~ (n < m)
  BY <1>1 DEF OpToRel
<1> QED
  BY <1>2

\* Induction up to a bound.
LEMMA SetInduction ==
  ASSUME NEW n \in Nat, NEW S, 0 \in S, \A i \in 1 .. n : i - 1 \in S => i \in S
  PROVE  0 .. n \subseteq S
<1>1. (0 .. n) \ S = {}
  <2> SUFFICES ASSUME (0 .. n) \ S # {} PROVE FALSE
    OBVIOUS
  <2>1. PICK m \in (0 .. n) \ S : \A i \in (0 .. n) \ S : m <= i
    BY Least, (0 .. n) \ S \in SUBSET Nat
  <2>2. m \in 1 .. n /\ m - 1 \in 0 .. n /\ m - 1 \in S
    BY <2>1
  <2> QED
    BY <2>1, <2>2
<1> QED
  BY <1>1

\* The frame after an earlier one.
LEMMA NextFrame ==
  ASSUME NEW m \in Nat, NEW n \in Nat, m < n
  PROVE  m + 1 \in Nat /\ m + 1 <= m + 1 /\ m + 1 <= n /\ m <= n
OBVIOUS

\* What m more after the first a have in common with the first n.
LEMMA InCommon ==
  ASSUME NEW a \in Nat, NEW n \in Nat, NEW m \in Nat, a <= n, n <= a + m
  PROVE  /\ n - a \in 0 .. m /\ a + m - n = m - (n - a)
         /\ a + (n - a) = n /\ a + m \in Nat
OBVIOUS

\* A sequence of commands and its elements.
LEMMA ElementsOf ==
  ASSUME NEW e \in Seq(Commands)
  PROVE  /\ Len(e) \in Nat
         /\ \A i \in 1 .. Len(e) : e[i] \in Commands /\ e[i].time \in Nat /\ e[i].value \in Inputs
<1>1. Len(e) \in Nat /\ \A i \in 1 .. Len(e) : e[i] \in Commands
  BY ElementOfSeq, LenProperties
<1> QED
  BY <1>1 DEF Commands

\* The size of an interval.
LEMMA IntervalSize ==
  ASSUME NEW n \in Nat, NEW m \in Nat, n <= m
  PROVE  Cardinality(n + 1 .. m) = m - n
<1>1. n + 1 \in Int /\ m \in Int
  OBVIOUS
<1>2. Cardinality(n + 1 .. m) = IF n + 1 > m THEN 0 ELSE m - (n + 1) + 1
  BY <1>1, FS_Interval
<1> QED
  BY <1>2

\* The number of commands before a time is known once one knows where they end.
LEMMA CountIs ==
  ASSUME NEW e \in Seq(Commands), NEW t \in Nat, NEW n \in 0 .. Len(e),
         \A i \in 1 .. Len(e) : i <= n <=> e[i].time < t
  PROVE  CountBefore(e, t) = n
<1>1. Len(e) \in Nat
  BY ElementsOf
<1>2. {i \in 1 .. Len(e) : e[i].time < t} = 1 .. n
  BY <1>1
<1>3. Cardinality(1 .. n) = n
  BY <1>1, FS_Interval
<1> QED
  BY <1>2, <1>3 DEF CountBefore

\* In an ordered stream they come first.
LEMMA CountSplits ==
  ASSUME NEW e \in Seq(Commands), Ordered(e), NEW t \in Nat
  PROVE  /\ CountBefore(e, t) \in 0 .. Len(e)
         /\ \A i \in 1 .. Len(e) : i <= CountBefore(e, t) <=> e[i].time < t
<1> DEFINE S == {n \in 0 .. Len(e) : \A i \in n + 1 .. Len(e) : t <= e[i].time}
<1>1. Len(e) \in Nat /\ \A i \in 1 .. Len(e) : e[i].time \in Nat
  BY ElementsOf
<1>2. S \in SUBSET Nat /\ Len(e) \in S
  BY <1>1
<1>3. PICK n \in S : \A m \in S : n <= m
  BY <1>2, Least
<1>4. ASSUME NEW i \in 1 .. n PROVE e[i].time < t
  <2>0. n \in 1 .. Len(e)
    BY <1>1, <1>3
  <2>1. n - 1 \in 0 .. Len(e) /\ ~ (n - 1 \in S)
    <3>1. n - 1 \in 0 .. Len(e) /\ ~ (n <= n - 1)
      BY <2>0, <1>1
    <3> QED
      BY <3>1, <1>3
  <2>2. PICK j \in n .. Len(e) : ~ (t <= e[j].time)
    BY <2>1, <1>1
  <2>3. j = n
    BY <2>2, <1>3, <1>1
  <2> QED
    BY <2>2, <2>3, <1>1, <1>4 DEF Ordered
<1>5. \A i \in 1 .. Len(e) : i <= n <=> e[i].time < t
  BY <1>1, <1>3, <1>4
<1>6. n \in 0 .. Len(e)
  BY <1>3
<1> QED
  BY <1>5, <1>6, CountIs

\* What a stream keeps from a time on, if that is all of it.
LEMMA FromAll ==
  ASSUME NEW e \in Seq(Commands), NEW t \in Nat, \A i \in 1 .. Len(e) : t <= e[i].time
  PROVE  From(e, t) = e
<1>1. Len(e) \in Nat /\ \A i \in 1 .. Len(e) : e[i].time \in Nat
  BY ElementsOf
<1>2. CountBefore(e, t) = 0
  BY <1>1, CountIs
<1> QED
  BY <1>2, SubSeqFull DEF From

\* The commands of a frame lie between two places.
LEMMA AtIs ==
  ASSUME NEW e \in Seq(Commands), Ordered(e), NEW t \in Nat
  PROVE  LET n == CountBefore(e, t)
             m == CountBefore(e, t + 1)
         IN  /\ n \in 0 .. Len(e) /\ m \in n .. Len(e)
             /\ At(e, t) = [i \in 1 .. m - n |-> e[n + i].value]
             /\ \A i \in 1 .. Len(e) : e[i].time = t <=> i \in n + 1 .. m
<1> DEFINE n == CountBefore(e, t)
           m == CountBefore(e, t + 1)
           same == {i \in 1 .. Len(e) : e[i].time = t}
<1>1. Len(e) \in Nat /\ \A i \in 1 .. Len(e) : e[i].time \in Nat
  BY ElementsOf
<1>2. n \in 0 .. Len(e) /\ \A i \in 1 .. Len(e) : i <= n <=> e[i].time < t
  BY CountSplits
<1>3. m \in 0 .. Len(e) /\ \A i \in 1 .. Len(e) : i <= m <=> e[i].time < t + 1
  BY CountSplits, t + 1 \in Nat
<1> HIDE DEF n, m
<1>4. n <= m
  <2> SUFFICES ASSUME m < n PROVE FALSE
    BY <1>2, <1>3, <1>1
  <2>1. n \in 1 .. Len(e) /\ n <= n /\ ~ (n <= m)
    BY <1>2, <1>3, <1>1
  <2>2. e[n].time < t /\ ~ (e[n].time < t + 1)
    BY <2>1, <1>2, <1>3
  <2> QED
    BY <2>1, <2>2, <1>1
<1>5. \A i \in 1 .. Len(e) : e[i].time = t <=> i \in n + 1 .. m
  <2> TAKE i \in 1 .. Len(e)
  <2>1. e[i].time = t <=> ~ (e[i].time < t) /\ e[i].time < t + 1
    BY <1>1
  <2>2. i \in n + 1 .. m <=> ~ (i <= n) /\ i <= m
    BY <1>1, <1>2, <1>3
  <2> QED
    BY <2>1, <2>2, <1>2, <1>3
<1>6. same = n + 1 .. m
  BY <1>5, <1>1, <1>2, <1>3
<1>7. Cardinality(n + 1 .. m) = m - n
  <2>1. n \in Nat /\ m \in Nat
    BY <1>1, <1>2, <1>3
  <2> QED
    BY <2>1, <1>4, IntervalSize
<1>8. At(e, t) = [i \in 1 .. m - n |-> e[n + i].value]
  BY <1>6, <1>7 DEF At, n
<1> QED
  BY <1>1, <1>2, <1>3, <1>4, <1>5, <1>8 DEF n, m

\* They are commands.
LEMMA AtType ==
  ASSUME NEW e \in Seq(Commands), Ordered(e), NEW t \in Nat
  PROVE  At(e, t) \in Seq(Inputs)
<1> DEFINE n == CountBefore(e, t)
           m == CountBefore(e, t + 1)
<1>1. Len(e) \in Nat /\ \A i \in 1 .. Len(e) : e[i].value \in Inputs
  BY ElementsOf
<1>2. n \in 0 .. Len(e) /\ m \in n .. Len(e) /\ At(e, t) = [i \in 1 .. m - n |-> e[n + i].value]
  BY AtIs
<1> HIDE DEF n, m
<1>3. m - n \in Nat /\ \A i \in 1 .. m - n : e[n + i].value \in Inputs
  BY <1>1, <1>2
<1>4. [i \in 1 .. m - n |-> e[n + i].value] \in Seq(Inputs)
  BY <1>3
<1> QED
  BY <1>2, <1>4

\* A frame is empty if no command has its time.
LEMMA AtEmpty ==
  ASSUME NEW e \in Seq(Commands), Ordered(e), NEW t \in Nat
  PROVE  At(e, t) = <<>> <=> \A i \in 1 .. Len(e) : e[i].time # t
<1> DEFINE n == CountBefore(e, t)
           m == CountBefore(e, t + 1)
<1>1. Len(e) \in Nat
  BY ElementsOf
<1>2. /\ n \in 0 .. Len(e) /\ m \in n .. Len(e) /\ At(e, t) = [i \in 1 .. m - n |-> e[n + i].value]
      /\ \A i \in 1 .. Len(e) : e[i].time = t <=> i \in n + 1 .. m
  BY AtIs
<1> HIDE DEF n, m
<1>3. Len(At(e, t)) = m - n
  BY <1>1, <1>2
<1>4. CASE m = n
  BY <1>1, <1>2, <1>4
<1>5. CASE m # n
  <2>1. n + 1 \in 1 .. Len(e) /\ n + 1 \in n + 1 .. m /\ m - n # 0
    BY <1>1, <1>2, <1>5
  <2> QED
    BY <2>1, <1>2, <1>3
<1> QED
  BY <1>4, <1>5

\* What is given later than a frame leaves the frame alone.
LEMMA AtOfBeginning ==
  ASSUME NEW e \in Seq(Commands), NEW g \in Seq(Commands), Ordered(e), NEW t \in Nat,
         Beginning(e, g), \A i \in Len(e) + 1 .. Len(g) : t < g[i].time
  PROVE  At(g, t) = At(e, t)
<1> DEFINE n == CountBefore(e, t)
           m == CountBefore(e, t + 1)
<1>1. /\ Len(e) \in Nat /\ Len(g) \in Nat
      /\ \A i \in 1 .. Len(e) : e[i].time \in Nat
      /\ \A i \in 1 .. Len(g) : g[i].time \in Nat
  BY ElementsOf
<1>2. Len(e) <= Len(g) /\ \A i \in 1 .. Len(e) : e[i] = g[i]
  BY DEF Beginning
<1>3. /\ n \in 0 .. Len(e) /\ m \in n .. Len(e) /\ At(e, t) = [i \in 1 .. m - n |-> e[n + i].value]
      /\ \A i \in 1 .. Len(e) : e[i].time = t <=> i \in n + 1 .. m
  BY AtIs
<1>4. \A i \in 1 .. Len(e) : i <= n <=> e[i].time < t
  BY CountSplits
<1> HIDE DEF n, m
<1>5. \A i \in 1 .. Len(g) : i <= n <=> g[i].time < t
  <2> TAKE i \in 1 .. Len(g)
  <2>1. CASE i \in 1 .. Len(e)
    BY <2>1, <1>2, <1>4
  <2>2. CASE ~ (i \in 1 .. Len(e))
    <3>1. i \in Len(e) + 1 .. Len(g) /\ ~ (i <= n)
      BY <2>2, <1>1, <1>3
    <3> QED
      BY <3>1, <1>1
  <2> QED
    BY <2>1, <2>2
<1>6. CountBefore(g, t) = n
  <2>1. n \in 0 .. Len(g)
    BY <1>1, <1>2, <1>3
  <2> QED
    BY <1>5, <2>1, CountIs
<1>7. {i \in 1 .. Len(g) : g[i].time = t} = n + 1 .. m
  <2>1. ASSUME NEW i \in 1 .. Len(g) PROVE g[i].time = t <=> i \in n + 1 .. m
    <3>1. CASE i \in 1 .. Len(e)
      BY <3>1, <1>2, <1>3
    <3>2. CASE ~ (i \in 1 .. Len(e))
      <4>1. i \in Len(e) + 1 .. Len(g) /\ ~ (i \in n + 1 .. m)
        BY <3>2, <1>1, <1>3
      <4> QED
        BY <4>1, <1>1
    <3> QED
      BY <3>1, <3>2
  <2>2. n + 1 .. m \subseteq 1 .. Len(g)
    BY <1>1, <1>2, <1>3
  <2> QED
    BY <2>1, <2>2
<1>8. Cardinality(n + 1 .. m) = m - n
  <2>1. n \in Nat /\ m \in Nat /\ n <= m
    BY <1>1, <1>3
  <2> QED
    BY <2>1, IntervalSize
<1>9. At(g, t) = [i \in 1 .. m - n |-> g[n + i].value]
  BY <1>6, <1>7, <1>8 DEF At
<1>10. \A i \in 1 .. m - n : g[n + i] = e[n + i]
  BY <1>1, <1>2, <1>3
<1> QED
  BY <1>9, <1>10, <1>3

-----------------------------------------------------------------------------

(***************************************************************************)
(* What a commit, the local controllers and the players do to the streams  *)
(***************************************************************************)

\* All of a player's commands that a peer has.
Whole(s, q) == s.com[q].events \o s.unc[q].events

\* A part of a stream.
LEMMA PartOf ==
  ASSUME NEW e \in Seq(Commands), NEW m \in Nat, NEW n \in Nat, 1 <= m, n <= Len(e), m <= n + 1
  PROVE  /\ SubSeq(e, m, n) \in Seq(Commands)
         /\ Len(SubSeq(e, m, n)) = n + 1 - m
         /\ \A i \in 1 .. n + 1 - m : SubSeq(e, m, n)[i] = e[m + i - 1]
<1>1. Len(e) \in Nat /\ \A i \in m .. n : e[i] \in Commands
  BY ElementsOf
<1>2. m \in Int /\ n \in Int /\ n - m + 1 = n + 1 - m
  OBVIOUS
<1>3. /\ SubSeq(e, m, n) \in Seq(Commands)
      /\ Len(SubSeq(e, m, n)) = IF m <= n THEN n - m + 1 ELSE 0
      /\ \A i \in 1 .. n - m + 1 : SubSeq(e, m, n)[i] = e[m + i - 1]
  BY <1>1, <1>2, SubSeqProperties
<1> QED
  BY <1>2, <1>3

\* Two streams one after the other.
LEMMA JoinOf ==
  ASSUME NEW e \in Seq(Commands), NEW g \in Seq(Commands)
  PROVE  /\ e \o g \in Seq(Commands)
         /\ Len(e \o g) = Len(e) + Len(g)
         /\ \A i \in 1 .. Len(e) : (e \o g)[i] = e[i]
         /\ \A i \in 1 .. Len(g) : (e \o g)[Len(e) + i] = g[i]
         /\ \A i \in Len(e) + 1 .. Len(e) + Len(g) : (e \o g)[i] = g[i - Len(e)]
<1>1. Len(e) \in Nat /\ Len(g) \in Nat
  BY ElementsOf
<1>2. /\ e \o g \in Seq(Commands)
      /\ Len(e \o g) = Len(e) + Len(g)
      /\ \A i \in 1 .. Len(e) + Len(g) : (e \o g)[i] = IF i <= Len(e) THEN e[i] ELSE g[i - Len(e)]
  BY ConcatProperties
<1> QED
  BY <1>1, <1>2

\* Streams can be joined in any order.
LEMMA JoinAssociates ==
  ASSUME NEW d \in Seq(Commands), NEW e \in Seq(Commands), NEW g \in Seq(Commands)
  PROVE  (d \o e) \o g = d \o (e \o g)
BY ConcatAssociative, SMTT(30)

\* The types of a stream's parts.
LEMMA StreamTypes ==
  ASSUME NEW c, NEW u, NEW h \in Nat, StreamOK(c, u, h)
  PROVE  /\ c.events \in Seq(Commands) /\ u.events \in Seq(Commands)
         /\ c.head \in Nat /\ u.head \in Nat
         /\ c = [events |-> c.events, head |-> c.head]
         /\ u = [events |-> u.events, head |-> u.head]
  BY DEF StreamOK, Streams, Commands

\* The whole of a stream is ordered, and its committed part comes first.
LEMMA WholeOf ==
  ASSUME NEW d \in Seq(Commands), NEW u \in Seq(Commands), NEW h \in Nat, NEW head \in Nat,
         h <= head, Divided(d, u, h, head)
  PROVE  LET e == d \o u
         IN  /\ e \in Seq(Commands)
             /\ Ordered(e)
             /\ Len(e) = Len(d) + Len(u)
             /\ Len(e) \in Nat /\ Len(d) \in Nat /\ Len(u) \in Nat
             /\ \A i \in 1 .. Len(e) : e[i].time \in Nat /\ e[i].time <= head
             /\ \A i \in 1 .. Len(e) : i <= Len(d) <=> e[i].time <= h
             /\ Beginning(d, e)
             /\ \A i \in Len(d) + 1 .. Len(e) : h < e[i].time
<1> DEFINE e == d \o u
<1>1. /\ e \in Seq(Commands)
      /\ Len(e) = Len(d) + Len(u)
      /\ \A i \in 1 .. Len(d) : e[i] = d[i]
      /\ \A i \in Len(d) + 1 .. Len(d) + Len(u) : e[i] = u[i - Len(d)]
  BY JoinOf
<1>2. /\ Len(d) \in Nat /\ Len(u) \in Nat
      /\ \A i \in 1 .. Len(d) : d[i].time \in Nat
      /\ \A i \in 1 .. Len(u) : u[i].time \in Nat
  BY ElementsOf
<1>3. /\ Ordered(d) /\ Ordered(u)
      /\ \A i \in 1 .. Len(d) : d[i].time <= h
      /\ \A i \in 1 .. Len(u) : h < u[i].time /\ u[i].time <= head
  BY DEF Divided
<1> HIDE DEF e
<1>4. \A i \in Len(d) + 1 .. Len(d) + Len(u) : i - Len(d) \in 1 .. Len(u)
  BY <1>2
<1>5. \A i \in Len(d) + 1 .. Len(e) :
        e[i].time \in Nat /\ h < e[i].time /\ e[i].time <= head
  BY <1>1, <1>2, <1>3, <1>4
<1>6. \A i \in 1 .. Len(d) : e[i].time \in Nat /\ e[i].time <= h /\ e[i].time <= head
  BY <1>1, <1>2, <1>3
<1>7. \A i \in 1 .. Len(e) : i \in 1 .. Len(d) \/ i \in Len(d) + 1 .. Len(e)
  BY <1>1, <1>2
<1>8. ASSUME NEW i \in 1 .. Len(e), NEW j \in 1 .. Len(e), i <= j
      PROVE  e[i].time <= e[j].time
  <2>1. CASE j \in 1 .. Len(d)
    <3>1. i \in 1 .. Len(d)
      BY <2>1, <1>2, <1>8
    <3> QED
      BY <2>1, <3>1, <1>1, <1>3, <1>8 DEF Ordered
  <2>2. CASE i \in 1 .. Len(d) /\ j \in Len(d) + 1 .. Len(e)
    BY <2>2, <1>5, <1>6
  <2>3. CASE i \in Len(d) + 1 .. Len(e) /\ j \in Len(d) + 1 .. Len(e)
    <3>1. i - Len(d) <= j - Len(d) /\ i - Len(d) \in 1 .. Len(u) /\ j - Len(d) \in 1 .. Len(u)
      BY <2>3, <1>1, <1>2, <1>8
    <3>2. u[i - Len(d)].time <= u[j - Len(d)].time
      BY <3>1, <1>3 DEF Ordered
    <3> QED
      BY <2>3, <3>2, <1>1
  <2> QED
    BY <2>1, <2>2, <2>3, <1>7
<1>9. Ordered(e)
  BY <1>8 DEF Ordered
<1>10. \A i \in 1 .. Len(e) : i <= Len(d) <=> e[i].time <= h
  <2> TAKE i \in 1 .. Len(e)
  <2>1. CASE i \in 1 .. Len(d)
    BY <2>1, <1>6
  <2>2. CASE i \in Len(d) + 1 .. Len(e)
    BY <2>2, <1>5, <1>2
  <2> QED
    BY <2>1, <2>2, <1>7
<1>11. Beginning(d, e)
  BY <1>1, <1>2 DEF Beginning
<1>12. \A i \in 1 .. Len(e) : e[i].time \in Nat /\ e[i].time <= head
  BY <1>5, <1>6, <1>7
<1>13. Len(e) \in Nat
  BY <1>1, <1>2
<1> QED
  BY <1>1, <1>2, <1>5, <1>9, <1>10, <1>11, <1>12, <1>13 DEF e

\* A commit cuts the uncommitted part in two and moves the first.
LEMMA Cut ==
  ASSUME NEW d \in Seq(Commands), NEW u \in Seq(Commands), NEW h \in Nat, NEW head \in Nat,
         Divided(d, u, h, head), NEW last \in Nat, h <= last, last <= head
  PROVE  LET moved == UpTo(From(u, h), last)
             kept == From(u, last + 1)
         IN  /\ moved \in Seq(Commands) /\ kept \in Seq(Commands)
             /\ d \o moved \in Seq(Commands)
             /\ Divided(d \o moved, kept, last, head)
             /\ (d \o moved) \o kept = d \o u
             /\ moved # <<>> => h < moved[1].time
<1> DEFINE n == CountBefore(u, last + 1)
           moved == SubSeq(u, 1, n)
           kept == SubSeq(u, n + 1, Len(u))
<1>1. /\ Len(d) \in Nat /\ Len(u) \in Nat
      /\ \A i \in 1 .. Len(d) : d[i].time \in Nat
      /\ \A i \in 1 .. Len(u) : u[i].time \in Nat
  BY ElementsOf
<1>2. /\ Ordered(d) /\ Ordered(u)
      /\ \A i \in 1 .. Len(d) : d[i].time <= h
      /\ \A i \in 1 .. Len(u) : h < u[i].time /\ u[i].time <= head
  BY DEF Divided
<1>3. From(u, h) = u
  <2>1. \A i \in 1 .. Len(u) : h <= u[i].time
    BY <1>1, <1>2
  <2> QED
    BY <2>1, FromAll
<1>4. n \in 0 .. Len(u) /\ \A i \in 1 .. Len(u) : i <= n <=> u[i].time < last + 1
  BY <1>2, CountSplits, last + 1 \in Nat
<1>5. UpTo(From(u, h), last) = moved /\ From(u, last + 1) = kept
  BY <1>3 DEF UpTo, From
<1> HIDE DEF n
<1>6. /\ moved \in Seq(Commands) /\ Len(moved) = n
      /\ \A i \in 1 .. n : moved[i] = u[i]
  <2>1. n \in Nat /\ n <= Len(u) /\ 1 <= n + 1 /\ n + 1 - 1 = n
    BY <1>1, <1>4
  <2>2. /\ moved \in Seq(Commands) /\ Len(moved) = n + 1 - 1
        /\ \A i \in 1 .. n + 1 - 1 : moved[i] = u[1 + i - 1]
    BY <2>1, PartOf
  <2>3. \A i \in 1 .. n : 1 + i - 1 = i
    BY <2>1
  <2> QED
    BY <2>1, <2>2, <2>3
<1>7. /\ kept \in Seq(Commands) /\ Len(kept) = Len(u) - n
      /\ \A i \in 1 .. Len(u) - n : kept[i] = u[n + i]
  <2>1. n + 1 \in Nat /\ 1 <= n + 1 /\ n + 1 <= Len(u) + 1 /\ Len(u) + 1 - (n + 1) = Len(u) - n
    BY <1>1, <1>4
  <2>2. /\ kept \in Seq(Commands) /\ Len(kept) = Len(u) + 1 - (n + 1)
        /\ \A i \in 1 .. Len(u) + 1 - (n + 1) : kept[i] = u[n + 1 + i - 1]
    BY <2>1, <1>1, PartOf
  <2>3. \A i \in 1 .. Len(u) - n : n + 1 + i - 1 = n + i
    BY <1>1, <1>4
  <2> QED
    BY <2>1, <2>2, <2>3
<1>8. moved \o kept = u
  <2>1. 1 \in 1 .. Len(u) + 1 /\ n \in 1 - 1 .. Len(u) /\ Len(u) \in n .. Len(u)
    BY <1>1, <1>4
  <2>2. SubSeq(u, 1, n) \o SubSeq(u, n + 1, Len(u)) = SubSeq(u, 1, Len(u))
    BY <2>1, ConcatAdjacentSubSeq
  <2> QED
    BY <2>2, SubSeqFull
<1> HIDE DEF moved, kept
<1>9. (d \o moved) \o kept = d \o u
  <2>1. moved \in Seq(Commands) /\ kept \in Seq(Commands)
    BY <1>6, <1>7
  <2>2. (d \o moved) \o kept = d \o (moved \o kept)
    BY <2>1, ConcatAssociative, SMTT(30)
  <2> QED
    BY <2>2, <1>8
<1>10. \A i \in 1 .. n : i \in 1 .. Len(u) /\ moved[i].time \in Nat /\ h < moved[i].time
                         /\ moved[i].time <= last /\ moved[i].time <= head
  <2> TAKE i \in 1 .. n
  <2>1. i \in 1 .. Len(u) /\ i <= n
    BY <1>1, <1>4
  <2>2. u[i].time < last + 1 /\ u[i].time \in Nat /\ h < u[i].time /\ u[i].time <= head
    BY <2>1, <1>1, <1>2, <1>4
  <2> QED
    BY <2>1, <2>2, <1>6
<1>11. Divided(d, moved, h, head)
  <2>1. Ordered(moved)
    BY <1>2, <1>6, <1>10 DEF Ordered
  <2> QED
    BY <2>1, <1>2, <1>6, <1>10 DEF Divided
<1>12. h <= head
  OBVIOUS
<1>13. /\ d \o moved \in Seq(Commands) /\ Ordered(d \o moved)
       /\ Len(d \o moved) = Len(d) + n
       /\ \A i \in 1 .. Len(d \o moved) : i <= Len(d) <=> (d \o moved)[i].time <= h
  BY <1>6, <1>11, <1>12, WholeOf
<1>14. /\ \A i \in 1 .. Len(d) : (d \o moved)[i] = d[i]
       /\ \A i \in Len(d) + 1 .. Len(d) + n : (d \o moved)[i] = moved[i - Len(d)]
  BY <1>6, JoinOf
<1>15. \A i \in 1 .. Len(d \o moved) : (d \o moved)[i].time <= last
  <2> TAKE i \in 1 .. Len(d \o moved)
  <2>1. CASE i \in 1 .. Len(d)
    BY <2>1, <1>1, <1>2, <1>14
  <2>2. CASE i \in Len(d) + 1 .. Len(d) + n
    <3>1. i - Len(d) \in 1 .. n
      BY <2>2, <1>1, <1>4
    <3> QED
      BY <2>2, <3>1, <1>10, <1>14
  <2> QED
    BY <2>1, <2>2, <1>1, <1>4, <1>13
<1>16. \A i \in 1 .. Len(u) - n : n + i \in 1 .. Len(u) /\ ~ (n + i <= n)
  BY <1>1, <1>4
<1>17. \A i \in 1 .. Len(kept) : last < kept[i].time /\ kept[i].time <= head
  <2> TAKE i \in 1 .. Len(kept)
  <2>1. i \in 1 .. Len(u) - n /\ n + i \in 1 .. Len(u) /\ ~ (n + i <= n)
    BY <1>7, <1>16
  <2>2. u[n + i].time \in Nat /\ ~ (u[n + i].time < last + 1) /\ u[n + i].time <= head
    BY <2>1, <1>1, <1>2, <1>4
  <2> QED
    BY <2>1, <2>2, <1>7
<1>18. Ordered(kept)
  <2> SUFFICES ASSUME NEW i \in 1 .. Len(kept), NEW j \in 1 .. Len(kept), i <= j
               PROVE  kept[i].time <= kept[j].time
    BY DEF Ordered
  <2>1. i \in 1 .. Len(u) - n /\ j \in 1 .. Len(u) - n /\ n + i <= n + j
    BY <1>1, <1>4, <1>7
  <2>2. u[n + i].time <= u[n + j].time
    BY <2>1, <1>2, <1>16 DEF Ordered
  <2> QED
    BY <2>1, <2>2, <1>7
<1>19. Divided(d \o moved, kept, last, head)
  BY <1>13, <1>15, <1>17, <1>18 DEF Divided
<1>20. moved # <<>> => h < moved[1].time
  <2>1. moved # <<>> => 1 \in 1 .. n
    BY <1>6, EmptySeq
  <2> QED
    BY <2>1, <1>10
<1> QED
  BY <1>5, <1>6, <1>7, <1>9, <1>13, <1>19, <1>20

\* What the streams of a peer are made of.
LEMMA PeerStreams ==
  ASSUME NEW s, NEW h \in Nat, StreamsOK(s, h), NEW q \in Players
  PROVE  /\ StreamOK(s.com[q], s.unc[q], h)
         /\ s.com[q].events \in Seq(Commands) /\ s.unc[q].events \in Seq(Commands)
         /\ s.com[q].head = h /\ s.unc[q].head \in Nat /\ h <= s.unc[q].head
         /\ s.com[q] = [events |-> s.com[q].events, head |-> h]
         /\ s.unc[q] = [events |-> s.unc[q].events, head |-> s.unc[q].head]
         /\ Divided(s.com[q].events, s.unc[q].events, h, s.unc[q].head)
<1>1. StreamOK(s.com[q], s.unc[q], h)
  BY DEF StreamsOK
<1>2. s.com[q] \in Streams /\ s.unc[q] \in Streams /\ s.com[q].head = h
  BY <1>1 DEF StreamOK
<1>3. h <= s.unc[q].head /\ Divided(s.com[q].events, s.unc[q].events, h, s.unc[q].head)
  BY <1>1, ZenonT(60) DEF StreamOK
<1> QED
  BY <1>1, <1>2, <1>3, StreamTypes DEF Streams, Commands

\* A player's commands at a peer: all that are committed, then the others.
LEMMA WholeIs ==
  ASSUME NEW s, NEW h \in Nat, StreamsOK(s, h), NEW q \in Players
  PROVE  LET e == Whole(s, q)
             c == s.com[q].events
         IN  /\ e \in Seq(Commands)
             /\ Ordered(e)
             /\ Len(e) = Len(c) + Len(s.unc[q].events)
             /\ Len(e) \in Nat /\ Len(c) \in Nat /\ Len(s.unc[q].events) \in Nat
             /\ \A i \in 1 .. Len(e) : e[i].time \in Nat /\ e[i].time <= s.unc[q].head
             /\ \A i \in 1 .. Len(e) : i <= Len(c) <=> e[i].time <= h
             /\ Beginning(c, e)
             /\ \A i \in Len(c) + 1 .. Len(e) : h < e[i].time
<1> DEFINE c == s.com[q].events
           u == s.unc[q].events
           head == s.unc[q].head
<1>1. /\ c \in Seq(Commands) /\ u \in Seq(Commands) /\ head \in Nat /\ h <= head
      /\ Divided(c, u, h, head)
  BY PeerStreams
<1>2. Whole(s, q) = c \o u
  BY DEF Whole
<1> HIDE DEF c, u, head
<1>3. LET e == c \o u
      IN  /\ e \in Seq(Commands)
          /\ Ordered(e)
          /\ Len(e) = Len(c) + Len(u)
          /\ Len(e) \in Nat /\ Len(c) \in Nat /\ Len(u) \in Nat
          /\ \A i \in 1 .. Len(e) : e[i].time \in Nat /\ e[i].time <= head
          /\ \A i \in 1 .. Len(e) : i <= Len(c) <=> e[i].time <= h
          /\ Beginning(c, e)
          /\ \A i \in Len(c) + 1 .. Len(e) : h < e[i].time
  BY <1>1, WholeOf
<1> QED
  BY <1>2, <1>3 DEF c, u, head

\* A commit fails no test and changes nothing but where commands are kept.
LEMMA CommitKeeps ==
  ASSUME NEW s, NEW h \in Nat, StreamsOK(s, h), s.ok,
         NEW last \in Nat, h <= last, \A q \in Players : last <= s.unc[q].head
  PROVE  LET t == CommitFrames(s, h, last)
         IN  /\ StreamsOK(t, last)
             /\ t.ok
             /\ \A q \in Players : Whole(t, q) = Whole(s, q) /\ t.unc[q].head = s.unc[q].head
<1> DEFINE t == CommitFrames(s, h, last)
           moved(q) == UpTo(From(s.unc[q].events, h), last)
           kept(q) == From(s.unc[q].events, last + 1)
<1>1. ASSUME NEW q \in Players
      PROVE  /\ moved(q) \in Seq(Commands) /\ kept(q) \in Seq(Commands)
             /\ s.com[q].events \o moved(q) \in Seq(Commands)
             /\ Divided(s.com[q].events \o moved(q), kept(q), last, s.unc[q].head)
             /\ (s.com[q].events \o moved(q)) \o kept(q) = s.com[q].events \o s.unc[q].events
             /\ moved(q) # <<>> => h < moved(q)[1].time
             /\ FrontTime(s.unc[q]) >= h
             /\ s.com[q].head = h
             /\ s.unc[q].head \in Nat /\ last <= s.unc[q].head
             /\ s.unc[q] = [events |-> s.unc[q].events, head |-> s.unc[q].head]
  <2> DEFINE d == s.com[q].events
             u == s.unc[q].events
             head == s.unc[q].head
  <2>1. /\ d \in Seq(Commands) /\ u \in Seq(Commands) /\ head \in Nat /\ h <= head
        /\ Divided(d, u, h, head) /\ last <= head
        /\ s.unc[q] = [events |-> u, head |-> head]
        /\ s.com[q].head = h
    BY PeerStreams, ZenonT(60)
  <2> HIDE DEF d, u, head
  <2>2. LET m == UpTo(From(u, h), last)
            k == From(u, last + 1)
        IN  /\ m \in Seq(Commands) /\ k \in Seq(Commands)
            /\ d \o m \in Seq(Commands)
            /\ Divided(d \o m, k, last, head)
            /\ (d \o m) \o k = d \o u
            /\ m # <<>> => h < m[1].time
    <3>1. d \in Seq(Commands) /\ u \in Seq(Commands) /\ head \in Nat
      BY <2>1
    <3>2. Divided(d, u, h, head) /\ last <= head
      BY <2>1
    <3> QED
      BY <3>1, <3>2, Cut
  <2>3. FrontTime(s.unc[q]) >= h
    <3>1. u # <<>> => 1 \in 1 .. Len(u)
      BY <2>1, EmptySeq
    <3>2. \A i \in 1 .. Len(u) : h < u[i].time /\ u[i].time \in Nat
      BY <2>1, ElementsOf DEF Divided
    <3>3. FrontTime(s.unc[q]) = IF u = <<>> THEN head ELSE u[1].time
      BY <2>1 DEF FrontTime
    <3> QED
      BY <3>1, <3>2, <3>3, <2>1
  <2> QED
    BY <2>1, <2>2, <2>3 DEF d, u, head
<1>2. ASSUME NEW q \in Players
      PROVE  /\ t.com[q] = [events |-> s.com[q].events \o moved(q), head |-> last]
             /\ t.unc[q] = [events |-> kept(q), head |-> s.unc[q].head]
  <2>1. t.unc[q] = DiscardOldEvents(s.unc[q], last)
    BY DEF CommitFrames
  <2>2. DiscardOldEvents(s.unc[q], last) = [events |-> kept(q), head |-> s.unc[q].head]
    <3>1. s.unc[q] = [events |-> s.unc[q].events, head |-> s.unc[q].head]
      BY <1>1
    <3> QED
      BY <3>1 DEF DiscardOldEvents
  <2> QED
    BY <2>1, <2>2 DEF CommitFrames
<1>3. /\ t.com = [q \in Players |-> t.com[q]] /\ t.unc = [q \in Players |-> t.unc[q]]
  BY DEF CommitFrames
<1>4. t.ok
  <2>1. \A q \in Players :
          /\ FrontTime(s.unc[q]) >= h \/ s.unc[q].events = <<>>
          /\ moved(q) # <<>> => CanWrite(s.com[q], moved(q)[1].time)
          /\ CanWrite(s.com[q], last)
    <3> TAKE q \in Players
    <3>1. moved(q) # <<>> => moved(q)[1].time \in Nat
      <4>1. moved(q) # <<>> => 1 \in 1 .. Len(moved(q))
        BY <1>1, EmptySeq
      <4> QED
        BY <4>1, <1>1, ElementsOf
    <3>2. s.com[q].head = h /\ (moved(q) # <<>> => h < moved(q)[1].time) /\ FrontTime(s.unc[q]) >= h
      BY <1>1
    <3> HIDE DEF moved
    <3> QED
      BY <3>1, <3>2 DEF CanWrite
  <2> QED
    BY <2>1 DEF CommitFrames
<1> HIDE DEF t, moved, kept
<1>5. ASSUME NEW q \in Players
      PROVE  StreamOK(t.com[q], t.unc[q], last) /\ Whole(t, q) = Whole(s, q)
             /\ t.unc[q].head = s.unc[q].head /\ t.com[q] \in Streams /\ t.unc[q] \in Streams
  <2> DEFINE d == s.com[q].events \o moved(q)
             k == kept(q)
             head == s.unc[q].head
  <2>1. /\ d \in Seq(Commands) /\ k \in Seq(Commands) /\ head \in Nat /\ last <= head
        /\ Divided(d, k, last, head)
        /\ d \o k = s.com[q].events \o s.unc[q].events
    BY <1>1
  <2>2. t.com[q] = [events |-> d, head |-> last] /\ t.unc[q] = [events |-> k, head |-> head]
    BY <1>2
  <2> HIDE DEF d, k
  <2>3. t.com[q] \in Streams /\ t.unc[q] \in Streams
    BY <2>1, <2>2 DEF Streams, Commands
  <2>4. StreamOK(t.com[q], t.unc[q], last)
    BY <2>1, <2>2, <2>3 DEF StreamOK
  <2>5. t.com[q].events = d /\ t.unc[q].events = k /\ t.unc[q].head = head
    BY <2>2
  <2>6. Whole(t, q) = Whole(s, q)
    BY <2>1, <2>5 DEF Whole
  <2> QED
    BY <2>3, <2>4, <2>5, <2>6
<1>6. StreamsOK(t, last)
  BY <1>3, <1>5 DEF StreamsOK
<1> QED
  BY <1>4, <1>5, <1>6 DEF t

\* Advancing the local controllers moves their heads and drops nothing.
LEMMA AdvanceKeeps ==
  ASSUME NEW s, NEW h \in Nat, StreamsOK(s, h), s.ok, NEW p \in Peers,
         NEW locked \in Nat, locked <= h + 1, NEW now \in Nat, locked <= now, h <= now,
         \A q \in Local(p) : s.unc[q].head <= now
  PROVE  LET t == AdvanceLocalControllers(s, p, locked, now)
         IN  /\ StreamsOK(t, h)
             /\ t.ok
             /\ \A q \in Players : Whole(t, q) = Whole(s, q)
             /\ \A q \in Local(p) : t.unc[q].head = now
             /\ \A q \in Players \ Local(p) : t.unc[q] = s.unc[q]
             /\ t.com = s.com
<1> DEFINE t == AdvanceLocalControllers(s, p, locked, now)
<1>1. Local(p) \subseteq Players
  BY DEF Local
<1>2. ASSUME NEW q \in Local(p)
      PROVE  IncreaseReadHead(IncreaseWriteHead(s.unc[q], now), locked)
               = [events |-> s.unc[q].events, head |-> now]
  <2>1. /\ s.unc[q].events \in Seq(Commands)
        /\ s.unc[q] = [events |-> s.unc[q].events, head |-> s.unc[q].head]
        /\ Divided(s.com[q].events, s.unc[q].events, h, s.unc[q].head)
    BY <1>1, PeerStreams
  <2> DEFINE u == s.unc[q].events
  <2>2. \A i \in 1 .. Len(u) : h < u[i].time /\ u[i].time \in Nat
    BY <2>1, ElementsOf DEF Divided
  <2>3. u \in Seq(Commands)
    BY <2>1
  <2> HIDE DEF u
  <2>4. \A i \in 1 .. Len(u) : locked <= u[i].time
    BY <2>2
  <2>5. From(u, locked) = u
    BY <2>3, <2>4, FromAll
  <2>6. IncreaseWriteHead(s.unc[q], now) = [events |-> u, head |-> now]
    <3>1. s.unc[q] = [events |-> u, head |-> s.unc[q].head]
      BY <2>1 DEF u
    <3> QED
      BY <3>1 DEF IncreaseWriteHead
  <2>7. IncreaseReadHead([events |-> u, head |-> now], locked) = [events |-> From(u, locked), head |-> now]
    BY DEF IncreaseReadHead
  <2> QED
    BY <2>5, <2>6, <2>7 DEF u
<1>3. s.unc = [q \in Players |-> s.unc[q]] /\ s.com \in [Players -> Streams]
  BY DEF StreamsOK
<1>4. /\ t.com = s.com
      /\ t.unc = [q \in Players |->
                    IF q \in Local(p)
                      THEN IncreaseReadHead(IncreaseWriteHead(s.unc[q], now), locked)
                      ELSE s.unc[q]]
      /\ t.ok = (/\ s.ok
                 /\ \A q \in Local(p) : CanWrite(s.unc[q], now)
                 /\ Local(p) # {} => locked <= now)
  BY DEF AdvanceLocalControllers
<1>5. t.ok
  BY <1>4 DEF CanWrite
<1>6. ASSUME NEW q \in Players
      PROVE  /\ t.unc[q] = IF q \in Local(p) THEN [events |-> s.unc[q].events, head |-> now]
                           ELSE s.unc[q]
             /\ t.unc[q].events = s.unc[q].events
  BY <1>2, <1>4
<1> HIDE DEF t
<1>7. ASSUME NEW q \in Players PROVE StreamOK(t.com[q], t.unc[q], h)
  <2>1. /\ StreamOK(s.com[q], s.unc[q], h)
        /\ s.unc[q].events \in Seq(Commands) /\ s.unc[q].head \in Nat
        /\ Divided(s.com[q].events, s.unc[q].events, h, s.unc[q].head)
    BY PeerStreams
  <2>2. CASE q \in Local(p)
    <3>1. s.unc[q].head <= now
      BY <2>2
    <3>2. Divided(s.com[q].events, s.unc[q].events, h, now)
      <4> DEFINE u == s.unc[q].events
                 head == s.unc[q].head
      <4>1. /\ Divided(s.com[q].events, u, h, head) /\ head \in Nat /\ head <= now
            /\ \A i \in 1 .. Len(u) : u[i].time \in Nat
        BY <2>1, <3>1, ElementsOf
      <4> HIDE DEF u, head
      <4>2. Divided(s.com[q].events, u, h, now)
        BY <4>1 DEF Divided
      <4> QED
        BY <4>2 DEF u
    <3>3. t.unc[q] = [events |-> s.unc[q].events, head |-> now]
      BY <1>6, <2>2
    <3> QED
      BY <2>1, <3>2, <3>3, <1>4 DEF StreamOK, Streams, Commands
  <2>3. CASE ~ (q \in Local(p))
    BY <2>1, <2>3, <1>4, <1>6
  <2> QED
    BY <2>2, <2>3
<1>8. StreamsOK(t, h)
  <2>1. \A q \in Players : t.unc[q] \in Streams
    BY <1>7, SMTT(30) DEF StreamOK
  <2> QED
    BY <2>1, <1>3, <1>4, <1>7 DEF StreamsOK
<1>9. \A q \in Players : Whole(t, q) = Whole(s, q)
  BY <1>4, <1>6 DEF Whole
<1> QED
  <2>1. t.ok /\ t.com = s.com
    BY <1>4, <1>5
  <2>2. ASSUME NEW q \in Local(p) PROVE t.unc[q].head = now
    <3>1. t.unc[q] = [events |-> s.unc[q].events, head |-> now]
      BY <1>1, <1>6
    <3> QED
      BY <3>1
  <2>3. \A q \in Players \ Local(p) : t.unc[q] = s.unc[q]
    BY <1>6
  <2> QED
    BY <2>1, <2>2, <2>3, <1>8, <1>9 DEF t

\* What a player presses, as commands of a frame.
Pressed(values, now) == [i \in 1 .. Len(values) |-> Event(now, values[i])]

\* What a player presses in a frame is a stream of that frame's commands.
LEMMA PressedType ==
  ASSUME NEW p \in Peers, NEW pressed \in Presses(p), NEW q \in Local(p), NEW now \in Nat
  PROVE  /\ pressed[q] \in Seq(Inputs)
         /\ Pressed(pressed[q], now) \in Seq(Commands)
         /\ Len(Pressed(pressed[q], now)) = Len(pressed[q])
         /\ \A i \in 1 .. Len(pressed[q]) : Pressed(pressed[q], now)[i].time = now
         /\ Pressed(pressed[q], now) = <<>> <=> pressed[q] = <<>>
<1>1. pressed[q] \in UNION {[1 .. n -> Inputs] : n \in 0 .. MaxPerFrame}
  BY DEF Presses
<1>2. pressed[q] \in Seq(Inputs)
  <2>1. PICK n \in 0 .. MaxPerFrame : pressed[q] \in [1 .. n -> Inputs]
    BY <1>1
  <2>2. n \in Nat
    BY <2>1, ConstantsAssumption
  <2> QED
    BY <2>1, <2>2, SeqDef
<1> DEFINE v == pressed[q]
<1>3. v \in Seq(Inputs)
  BY <1>2
<1> HIDE DEF v
<1>4. Len(v) \in Nat /\ \A i \in 1 .. Len(v) : v[i] \in Inputs
  BY <1>3, ElementOfSeq, LenProperties
<1>5. \A i \in 1 .. Len(v) : Event(now, v[i]) \in Commands /\ Event(now, v[i]).time = now
  BY <1>4 DEF Event, Commands
<1>6. Pressed(v, now) \in Seq(Commands)
  BY <1>4, <1>5 DEF Pressed
<1>7. Len(Pressed(v, now)) = Len(v) /\ \A i \in 1 .. Len(v) : Pressed(v, now)[i].time = now
  BY <1>4, <1>5 DEF Pressed
<1>8. Pressed(v, now) = <<>> <=> v = <<>>
  <2>1. v = <<>> <=> Len(v) = 0
    BY <1>3, EmptySeq
  <2>2. Pressed(v, now) = <<>> <=> Len(Pressed(v, now)) = 0
    BY <1>6, EmptySeq
  <2> QED
    BY <2>1, <2>2, <1>7
<1> QED
  BY <1>3, <1>6, <1>7, <1>8 DEF v

\* What is pressed comes at the end of the player's commands.
Ticks(t, s, h, p, now, pressed) ==
  /\ StreamsOK(t, h)
  /\ t.ok
  /\ \A q \in Local(p) : Whole(t, q) = Whole(s, q) \o Pressed(pressed[q], now)
  /\ \A q \in Local(p) : t.unc[q].head = now
  /\ \A q \in Players \ Local(p) : t.unc[q] = s.unc[q]
  /\ t.com = s.com

\* TickLocalControllers does that.
LEMMA TickKeeps ==
  ASSUME NEW s, NEW h \in Nat, StreamsOK(s, h), s.ok, NEW p \in Peers,
         NEW now \in Nat, h < now, \A q \in Local(p) : s.unc[q].head = now,
         NEW pressed \in Presses(p)
  PROVE  Ticks(TickLocalControllers(s, p, now, pressed), s, h, p, now, pressed)
<1> DEFINE t == TickLocalControllers(s, p, now, pressed)
<1>1. Local(p) \subseteq Players
  BY DEF Local
<1>2. s.unc = [q \in Players |-> s.unc[q]] /\ s.com \in [Players -> Streams]
  BY DEF StreamsOK
<1>3. /\ t.com = s.com
      /\ t.unc = [q \in Players |->
                    IF q \in Local(p) /\ pressed[q] # <<>>
                      THEN [events |-> s.unc[q].events \o Pressed(pressed[q], now), head |-> now]
                      ELSE s.unc[q]]
      /\ t.ok = (s.ok /\ \A q \in Local(p) : CanWrite(s.unc[q], now))
  BY DEF TickLocalControllers, Pressed
<1> HIDE DEF t
<1>4. t.ok
  <2>1. \A q \in Local(p) : s.unc[q].head <= now
    OBVIOUS
  <2> QED
    BY <2>1, <1>3 DEF CanWrite
<1>5. ASSUME NEW q \in Local(p)
      PROVE  t.unc[q] = [events |-> s.unc[q].events \o Pressed(pressed[q], now), head |-> now]
  <2>0. q \in Players /\ s.unc[q].head = now
    BY <1>1
  <2>1. /\ s.unc[q].events \in Seq(Commands)
        /\ s.unc[q] = [events |-> s.unc[q].events, head |-> now]
    BY <2>0, PeerStreams, ZenonT(60)
  <2>2. CASE pressed[q] # <<>>
    BY <1>1, <1>3, <2>2
  <2>3. CASE pressed[q] = <<>>
    <3>1. Pressed(pressed[q], now) = <<>>
      BY <2>3, PressedType
    <3>2. s.unc[q].events \o <<>> = s.unc[q].events
      BY <2>1, ConcatEmptySeq
    <3>3. t.unc[q] = s.unc[q]
      BY <1>1, <1>3, <2>3
    <3> QED
      BY <2>1, <3>1, <3>2, <3>3
  <2> QED
    BY <2>2, <2>3
<1>6. ASSUME NEW q \in Players \ Local(p) PROVE t.unc[q] = s.unc[q]
  <2>1. q \in Players /\ ~ (q \in Local(p))
    BY ZenonT(60)
  <2> QED
    BY <2>1, <1>3
<1>7. ASSUME NEW q \in Local(p)
      PROVE  /\ StreamOK(t.com[q], t.unc[q], h)
             /\ Whole(t, q) = Whole(s, q) \o Pressed(pressed[q], now)
  <2> DEFINE d == s.com[q].events
             u == s.unc[q].events
             x == Pressed(pressed[q], now)
  <2>1. /\ d \in Seq(Commands) /\ u \in Seq(Commands) /\ Divided(d, u, h, now)
        /\ s.com[q] = [events |-> d, head |-> h] /\ h <= now
    <3>1. q \in Players /\ s.unc[q].head = now
      BY <1>1
    <3>2. /\ d \in Seq(Commands) /\ u \in Seq(Commands) /\ Divided(d, u, h, s.unc[q].head)
          /\ s.com[q] = [events |-> d, head |-> h]
      <4>1. q \in Players
        BY <3>1
      <4>2. StreamOK(s.com[q], s.unc[q], h)
        BY <4>1, PeerStreams
      <4>3. Divided(d, u, h, s.unc[q].head)
        BY <4>2 DEF StreamOK
      <4>4. d \in Seq(Commands) /\ u \in Seq(Commands)
        BY <4>1, PeerStreams
      <4>5. s.com[q] = [events |-> d, head |-> h]
        BY <4>2 DEF StreamOK, Streams
      <4> QED
        BY <4>3, <4>4, <4>5
    <3>3. h <= now
      OBVIOUS
    <3> QED
      BY <3>1, <3>2, <3>3
  <2>2. /\ x \in Seq(Commands) /\ \A i \in 1 .. Len(x) : x[i].time = now
    <3>1. /\ x \in Seq(Commands) /\ Len(x) = Len(pressed[q])
          /\ \A i \in 1 .. Len(pressed[q]) : x[i].time = now
      BY PressedType
    <3> QED
      BY <3>1
  <2> HIDE DEF d, u, x
  <2>3. now - 1 \in Nat /\ now - 1 <= now
    OBVIOUS
  <2>4. /\ Len(u) \in Nat /\ Len(x) \in Nat /\ \A i \in 1 .. Len(u) : u[i].time \in Nat
    BY <2>1, <2>2, ElementsOf
  <2>5. /\ u \o x \in Seq(Commands) /\ Len(u \o x) = Len(u) + Len(x)
        /\ \A i \in 1 .. Len(u) : (u \o x)[i] = u[i]
        /\ \A i \in Len(u) + 1 .. Len(u) + Len(x) : (u \o x)[i] = x[i - Len(u)]
    BY <2>1, <2>2, JoinOf
  <2>6. \A i \in Len(u) + 1 .. Len(u) + Len(x) : (u \o x)[i].time = now
    <3> TAKE i \in Len(u) + 1 .. Len(u) + Len(x)
    <3>1. i - Len(u) \in 1 .. Len(x)
      BY <2>4
    <3> QED
      BY <3>1, <2>2, <2>5
  <2>7. \A i \in 1 .. Len(u) + Len(x) : i \in 1 .. Len(u) \/ i \in Len(u) + 1 .. Len(u) + Len(x)
    BY <2>4
  <2>8. \A i \in 1 .. Len(u) : h < u[i].time /\ u[i].time <= now
    BY <2>1 DEF Divided
  <2>9. \A i \in 1 .. Len(u \o x) : h < (u \o x)[i].time /\ (u \o x)[i].time <= now
    BY <2>5, <2>6, <2>7, <2>8
  <2>10. ASSUME NEW i \in 1 .. Len(u \o x), NEW j \in 1 .. Len(u \o x), i <= j
         PROVE  (u \o x)[i].time <= (u \o x)[j].time
    <3>1. CASE j \in 1 .. Len(u)
      <4>1. i \in 1 .. Len(u)
        BY <3>1, <2>4, <2>5, <2>10
      <4> QED
        BY <3>1, <4>1, <2>1, <2>5, <2>10 DEF Divided, Ordered
    <3>2. CASE j \in Len(u) + 1 .. Len(u) + Len(x)
      BY <3>2, <2>6, <2>9
    <3> QED
      BY <3>1, <3>2, <2>5, <2>7
  <2>11. Divided(d, u \o x, h, now)
    BY <2>1, <2>9, <2>10 DEF Divided, Ordered
  <2>12. t.unc[q] = [events |-> u \o x, head |-> now] /\ t.com[q] = [events |-> d, head |-> h]
    BY <1>3, <1>5, <2>1 DEF u, x
  <2>13. StreamOK(t.com[q], t.unc[q], h)
    BY <2>1, <2>5, <2>11, <2>12 DEF StreamOK, Streams, Commands
  <2>14. Whole(t, q) = d \o (u \o x)
    BY <2>12 DEF Whole
  <2>15. d \o (u \o x) = (d \o u) \o x
    <3>1. d \in Seq(Commands) /\ u \in Seq(Commands) /\ x \in Seq(Commands)
      BY <2>1, <2>2
    <3> QED
      BY <3>1, ConcatAssociative, SMTT(30)
  <2> QED
    BY <2>13, <2>14, <2>15 DEF Whole, d, u, x
<1>8. ASSUME NEW q \in Players PROVE StreamOK(t.com[q], t.unc[q], h)
  <2>1. CASE q \in Local(p)
    BY <2>1, <1>7
  <2>2. CASE ~ (q \in Local(p))
    <3>1. t.unc[q] = s.unc[q] /\ t.com[q] = s.com[q]
      BY <2>2, <1>3, <1>6
    <3> QED
      BY <3>1, PeerStreams
  <2> QED
    BY <2>1, <2>2
<1>9. StreamsOK(t, h)
  <2>1. \A q \in Players : t.unc[q] \in Streams
    BY <1>8 DEF StreamOK
  <2> QED
    BY <2>1, <1>2, <1>3, <1>8 DEF StreamsOK
<1> QED
  <2>1. t.com = s.com
    BY <1>3
  <2>2. ASSUME NEW q \in Local(p) PROVE t.unc[q].head = now
    <3>1. t.unc[q] = [events |-> s.unc[q].events \o Pressed(pressed[q], now), head |-> now]
      BY <1>5
    <3> QED
      BY <3>1
  <2>3. \A q \in Local(p) : Whole(t, q) = Whole(s, q) \o Pressed(pressed[q], now)
    BY <1>7
  <2> QED
    BY <2>1, <2>2, <2>3, <1>3, <1>4, <1>6, <1>9 DEF t, Ticks

-----------------------------------------------------------------------------

(***************************************************************************)
(* Merging what a pack holds of a stream                                   *)
(***************************************************************************)

\* The overlap of a pack that begins among the known commands and ends with
\* the last of them or later is what it repeats.
LEMMA OverlapIs ==
  ASSUME NEW d \in Seq(Commands), NEW u \in Seq(Commands), NEW h \in Nat, NEW head \in Nat,
         h <= head, Divided(d, u, h, head),
         NEW given \in Seq(Commands), Ordered(given),
         KnowsAllUpTo(head, d \o u, given),
         NEW new \in Seq(Commands), NEW a \in Nat,
         Continues(new, a, d \o u, given)
  PROVE  Overlap([events |-> d, head |-> h], [events |-> u, head |-> head], new)
           = [found |-> TRUE, count |-> Len(d \o u) - a]
<1> DEFINE known == d \o u
           n == Len(known)
           k == n - a
           last == Len(new)
           c == [events |-> d, head |-> h]
           s == [events |-> u, head |-> head]
<1>1. /\ known \in Seq(Commands)
      /\ n \in Nat
      /\ \A i \in 1 .. n : known[i].time \in Nat /\ known[i].time <= head
      /\ \A i \in 1 .. n : i <= Len(d) <=> known[i].time <= h
      /\ Beginning(d, known)
      /\ Len(d) \in Nat
  BY WholeOf
<1>2. /\ Len(given) \in Nat /\ last \in Nat
      /\ \A i \in 1 .. Len(given) : given[i].time \in Nat
      /\ \A i \in 1 .. last : new[i].time \in Nat
  BY ElementsOf
<1>3. /\ n <= Len(given) /\ \A i \in 1 .. n : known[i] = given[i]
  BY DEF KnowsAllUpTo, Beginning
<1>4. /\ a <= n /\ n <= a + last /\ a + last <= Len(given)
      /\ \A i \in n + 1 .. Len(given) : head < given[i].time
      /\ \A j \in 1 .. last : new[j] = given[a + j]
  BY DEF KnowsAllUpTo, Continues
<1>5. new = <<>> <=> last = 0
  BY EmptySeq
<1>6. Len(d) <= n /\ \A i \in 1 .. Len(d) : d[i] = known[i]
  BY <1>1 DEF Beginning
<1>7. Overlap(c, s, new) =
        CASE new = <<>> \/ head < new[1].time -> [found |-> TRUE, count |-> 0]
          [] new # <<>> /\ Last(new).time < FrontTime(c) -> NoOverlap
          [] OTHER ->
               LET tried == UpTo(new, head)
                   old == LastEvents(c, s, Len(tried))
                   matches == {j \in 1 .. Len(tried) : SubSeq(new, 1, j) \in SubSeqs(old)}
                   longest == CHOOSE j \in matches : \A i \in matches : i <= j
               IN  IF old = <<>>
                     THEN [found |-> head = new[1].time, count |-> 0]
                     ELSE IF /\ matches # {}
                             /\ IsSuffix(SubSeq(new, 1, longest), old)
                             /\ \A j \in longest .. Len(tried) : new[j].time >= Last(old).time
                            THEN [found |-> TRUE, count |-> longest]
                            ELSE NoOverlap
  BY DEF Overlap
<1> HIDE DEF known, n, k, last, c
<1>8. \A i \in 1 .. last : i <= k <=> new[i].time < head + 1
  <2> TAKE i \in 1 .. last
  <2>1. a + i \in 1 .. Len(given) /\ new[i] = given[a + i]
    BY <1>2, <1>4
  <2>2. CASE i <= k
    <3>1. a + i \in 1 .. n
      BY <2>2, <1>1, <1>4, <2>1 DEF k
    <3>2. given[a + i].time <= head /\ given[a + i].time \in Nat
      BY <3>1, <1>1, <1>3
    <3> QED
      BY <2>1, <2>2, <3>2
  <2>3. CASE ~ (i <= k)
    <3>1. a + i \in n + 1 .. Len(given)
      BY <2>3, <1>1, <1>2, <1>4, <2>1, SMTT(30) DEF k
    <3>2. head < given[a + i].time /\ given[a + i].time \in Nat
      BY <3>1, <2>1, <1>2, <1>4
    <3> QED
      BY <2>1, <2>3, <3>2
  <2> QED
    BY <2>2, <2>3
<1>9. k \in 0 .. last /\ a + k = n
  BY <1>1, <1>2, <1>4 DEF k
<1>10. last # 0 => ~ (Last(new).time < FrontTime(c))
  <2> SUFFICES ASSUME last # 0 PROVE ~ (Last(new).time < FrontTime(c))
    OBVIOUS
  <2>1. /\ last \in 1 .. last /\ 1 \in 1 .. last /\ a + last \in 1 .. Len(given)
        /\ a + 1 \in 1 .. Len(given) /\ 1 \in 1 .. Len(given) /\ a + 1 <= a + last
        /\ 1 <= a + last
    BY <1>2, <1>4
  <2>2. Last(new) = given[a + last] /\ given[a + last].time \in Nat
    BY <2>1, <1>2, <1>4 DEF Last, last
  <2>3. given[1].time <= given[a + last].time /\ given[a + 1].time <= given[a + last].time
    BY <2>1 DEF Ordered
  <2>4. d = <<>> <=> Len(d) = 0
    BY EmptySeq
  <2>5. CASE d = <<>>
    <3>1. FrontTime(c) = h
      BY <2>5 DEF FrontTime, c
    <3>2. h < given[a + 1].time /\ given[a + 1].time \in Nat
      <4>1. CASE a + 1 \in 1 .. n
        <5>1. ~ (a + 1 <= Len(d))
          BY <2>4, <2>5
        <5>2. known[a + 1].time \in Nat /\ ~ (known[a + 1].time <= h)
          BY <4>1, <5>1, <1>1
        <5>3. known[a + 1] = given[a + 1]
          BY <4>1, <1>3
        <5> QED
          BY <5>2, <5>3
      <4>2. CASE ~ (a + 1 \in 1 .. n)
        <5>1. a + 1 \in n + 1 .. Len(given)
          BY <4>2, <2>1, <1>1, <1>2, SMTT(30)
        <5> QED
          BY <5>1, <2>1, <1>2, <1>4
      <4> QED
        BY <4>1, <4>2
    <3> QED
      BY <3>1, <3>2, <2>2, <2>3
  <2>6. CASE d # <<>>
    <3>1. FrontTime(c) = d[1].time
      BY <2>6 DEF FrontTime, c
    <3>2. 1 \in 1 .. Len(d) /\ 1 \in 1 .. n
      BY <2>4, <2>6, <1>1, <1>6
    <3>3. d[1] = given[1] /\ given[1].time \in Nat
      BY <3>2, <1>6, <1>3, <2>1, <1>2
    <3> QED
      BY <3>1, <3>3, <2>2, <2>3, SMTT(30)
  <2> QED
    BY <2>5, <2>6
<1>11. CASE new = <<>> \/ head < new[1].time
  <2>1. k = 0
    <3>1. CASE last = 0
      BY <3>1, <1>9
    <3>2. CASE last # 0
      <4>1. 1 \in 1 .. last /\ new[1].time \in Nat
        BY <3>2, <1>2
      <4>2. ~ (1 <= k)
        BY <4>1, <1>5, <1>8, <1>11, <3>2
      <4> QED
        BY <4>2, <1>9
    <3> QED
      BY <3>1, <3>2
  <2>2. ~ (new # <<>> /\ Last(new).time < FrontTime(c))
    BY <1>5, <1>10
  <2> QED
    BY <1>7, <1>11, <2>1, <2>2 DEF k, n, known, c
<1>12. CASE ~ (new = <<>> \/ head < new[1].time)
  <2>1. last # 0 /\ 1 \in 1 .. last /\ new[1].time \in Nat /\ ~ (head < new[1].time)
    BY <1>2, <1>5, <1>12
  <2>2. k \in 1 .. last
    BY <2>1, <1>8, <1>9
  <2> DEFINE tried == UpTo(new, head)
             old == LastEvents(c, s, Len(tried))
             matches == {j \in 1 .. Len(tried) : SubSeq(new, 1, j) \in SubSeqs(old)}
             longest == CHOOSE j \in matches : \A i \in matches : i <= j
  <2>3. CountBefore(new, head + 1) = k
    BY <1>8, <1>9, CountIs, head + 1 \in Nat DEF last
  <2>4. /\ SubSeq(new, 1, k) \in Seq(Commands) /\ Len(SubSeq(new, 1, k)) = k
        /\ \A i \in 1 .. k : SubSeq(new, 1, k)[i] = new[i]
    <3>1. k \in Nat /\ 1 <= k + 1 /\ k <= last /\ k + 1 - 1 = k /\ \A i \in 1 .. k : 1 + i - 1 = i
      BY <2>2, <1>2
    <3>2. /\ SubSeq(new, 1, k) \in Seq(Commands) /\ Len(SubSeq(new, 1, k)) = k + 1 - 1
          /\ \A i \in 1 .. k + 1 - 1 : SubSeq(new, 1, k)[i] = new[1 + i - 1]
      BY <3>1, PartOf DEF last
    <3> QED
      BY <3>1, <3>2
  <2>5. tried = SubSeq(new, 1, k)
    BY <2>3 DEF UpTo
  <2>6. Len(tried) = k
    BY <2>4, <2>5
  <2>7. /\ old \in Seq(Commands) /\ Len(old) = k
        /\ \A i \in 1 .. k : old[i] = known[a + i]
    <3>1. old = IF n <= k THEN known ELSE SubSeq(known, n - k + 1, n)
      BY <2>6 DEF LastEvents, known, n, c
    <3>2. CASE n <= k
      <4>1. a = 0 /\ n = k
        BY <3>2, <1>1, <1>4 DEF k
      <4>2. \A i \in 1 .. k : a + i = i
        BY <4>1, <2>2
      <4> QED
        BY <3>1, <3>2, <4>1, <4>2, <1>1 DEF n
    <3>3. CASE ~ (n <= k)
      <4>1. /\ n - k + 1 = a + 1 /\ a + 1 \in Nat /\ 1 <= a + 1 /\ n <= Len(known) /\ a + 1 <= n + 1
            /\ n + 1 - (a + 1) = k /\ \A i \in 1 .. k : a + 1 + i - 1 = a + i
        BY <3>3, <1>1, <1>4, <2>2 DEF k, n
      <4>2. /\ SubSeq(known, a + 1, n) \in Seq(Commands) /\ Len(SubSeq(known, a + 1, n)) = n + 1 - (a + 1)
            /\ \A i \in 1 .. n + 1 - (a + 1) : SubSeq(known, a + 1, n)[i] = known[a + 1 + i - 1]
        <5>1. a + 1 \in Nat /\ n \in Nat /\ 1 <= a + 1 /\ n <= Len(known) /\ a + 1 <= n + 1
          BY <4>1, <1>1
        <5>2. known \in Seq(Commands)
          BY <1>1
        <5>3. ASSUME NEW b \in Nat, 1 <= b, b <= n + 1, n \in Nat, n <= Len(known)
              PROVE  /\ SubSeq(known, b, n) \in Seq(Commands) /\ Len(SubSeq(known, b, n)) = n + 1 - b
                     /\ \A i \in 1 .. n + 1 - b : SubSeq(known, b, n)[i] = known[b + i - 1]
          BY <5>2, <5>3, PartOf
        <5> QED
          BY <5>1, <5>3
      <4>3. old = SubSeq(known, a + 1, n) /\ n + 1 - (a + 1) = k
        BY <3>1, <3>3, <4>1
      <4> HIDE DEF old
      <4>4. \A i \in 1 .. k : a + 1 + i - 1 = a + i
        BY <4>1
      <4> QED
        BY <4>2, <4>3, <4>4
    <3> QED
      BY <3>2, <3>3
  <2> HIDE DEF tried, old
  <2>8. \A i \in 1 .. k : old[i] = new[i]
    <3> TAKE i \in 1 .. k
    <3>1. i \in 1 .. last /\ a + i \in 1 .. n
      BY <2>2, <1>2, <1>9
    <3> QED
      BY <3>1, <2>7, <1>3, <1>4
  <2>9. SubSeq(new, 1, k) = old
    BY <2>4, <2>7, <2>8, SeqEqual
  <2>10. old \in SubSeqs(old)
    <3>1. SubSeq(old, 0 + 1, k) = old
      BY <2>7, SubSeqFull
    <3>2. 0 \in 0 .. Len(old) /\ k \in 0 .. Len(old)
      BY <2>2, <2>7
    <3> QED
      BY <3>1, <3>2 DEF SubSeqs
  <2>11. k \in matches
    <3>1. SubSeq(new, 1, k) \in SubSeqs(old)
      BY <2>9, <2>10
    <3>2. k \in 1 .. Len(tried)
      BY <2>2, <2>6
    <3> QED
      BY <3>1, <3>2
  <2>12. \A j \in matches : j <= k /\ j \in 1 .. k
    BY <2>6, <2>2
  <2> HIDE DEF matches
  <2>13. longest = k
    <3>1. longest \in matches /\ \A i \in matches : i <= longest
      BY <2>11, <2>12
    <3>2. longest \in 1 .. k /\ longest <= k /\ k <= longest
      BY <3>1, <2>11, <2>12
    <3> QED
      BY <3>2, <2>2
  <2>14. old # <<>>
    BY <2>2, <2>7, EmptySeq
  <2>15. IsSuffix(old, old)
    <3>1. Len(Reverse(old)) \in Nat
      BY <2>7, <2>2 DEF Reverse
    <3> QED
      BY <3>1 DEF IsSuffix, IsPrefix
  <2>16. \A j \in k .. k : new[j].time >= Last(old).time
    <3>1. Last(old) = new[k]
      BY <2>2, <2>7, <2>8 DEF Last
    <3>2. new[k].time \in Nat
      BY <2>2, <1>2
    <3>3. \A j \in k .. k : j = k
      BY <2>2
    <3> QED
      BY <3>1, <3>2, <3>3
  <2>17. ~ (new # <<>> /\ Last(new).time < FrontTime(c))
    BY <1>5, <1>10
  <2>18. Overlap(c, s, new) =
           IF old = <<>>
             THEN [found |-> head = new[1].time, count |-> 0]
             ELSE IF /\ matches # {}
                     /\ IsSuffix(SubSeq(new, 1, longest), old)
                     /\ \A j \in longest .. Len(tried) : new[j].time >= Last(old).time
                    THEN [found |-> TRUE, count |-> longest]
                    ELSE NoOverlap
    BY <1>7, <1>12, <2>17 DEF tried, old, matches
  <2> HIDE DEF longest
  <2>19. Overlap(c, s, new) = [found |-> TRUE, count |-> k]
    BY <2>6, <2>9, <2>11, <2>13, <2>14, <2>15, <2>16, <2>18
  <2> QED
    BY <2>19 DEF k, n, known, c
<1> QED
  BY <1>11, <1>12

\* A merged stream of a peer whose committed commands are d: it has the first n
\* commands a player has given.
Merged(m, d, h, head, given, n, ready) ==
  /\ m.ok
  /\ \E v \in Seq(Commands), top \in Nat :
       /\ m.unc = [events |-> v, head |-> top]
       /\ head <= top
       /\ Divided(d, v, h, top)
       /\ KnowsAllUpTo(top, d \o v, given)
       /\ Len(d \o v) = n
       /\ Reached(top, d \o v, ready)

\* Merging a pack fails no test, adds exactly what the pack has beyond the
\* known commands, and moves the head as far as the pack allows.
LEMMA MergeOne ==
  ASSUME NEW d \in Seq(Commands), NEW u \in Seq(Commands), NEW h \in Nat, NEW head \in Nat,
         h <= head, Divided(d, u, h, head),
         NEW given \in Seq(Commands), Ordered(given),
         KnowsAllUpTo(head, d \o u, given),
         NEW new \in Seq(Commands), NEW a \in Nat, NEW ready \in Nat,
         Continues(new, a, d \o u, given),
         IsCompleteAt(ready, a, a + Len(new), given),
         Reached(head, d \o u, ready)
  PROVE  Merged(MergeStream([events |-> d, head |-> h], [events |-> u, head |-> head], new, ready),
                d, h, head, given, a + Len(new), ready)
<1> DEFINE known == d \o u
           n == Len(known)
           last == Len(new)
           after == a + last
           c == [events |-> d, head |-> h]
           s == [events |-> u, head |-> head]
           k == n - a
           rest == SubSeq(new, k + 1, last)
           merged == IF rest = <<>> THEN s ELSE [events |-> u \o rest, head |-> Last(rest).time]
           try == new = <<>> \/ ready >= Last(new).time
           valid == CanPrepareRemoteFrame(c, merged, ready)
           m == MergeStream(c, s, new, ready)
<1>1. Overlap(c, s, new) = [found |-> TRUE, count |-> k]
  BY OverlapIs
<1>2. /\ known \in Seq(Commands)
      /\ Len(known) = Len(d) + Len(u)
      /\ n \in Nat /\ Len(d) \in Nat /\ Len(u) \in Nat
      /\ \A i \in 1 .. n : known[i].time \in Nat /\ known[i].time <= head
  BY WholeOf
<1>3. /\ Len(given) \in Nat /\ last \in Nat
      /\ \A i \in 1 .. Len(given) : given[i].time \in Nat
      /\ \A i \in 1 .. last : new[i].time \in Nat
      /\ \A i \in 1 .. Len(u) : u[i].time \in Nat
  BY ElementsOf
<1>4. /\ a <= n /\ n <= after /\ after <= Len(given)
      /\ n <= Len(given) /\ \A i \in 1 .. n : known[i] = given[i]
  BY DEF Beginning, KnowsAllUpTo, Continues
<1>5. /\ \A i \in n + 1 .. Len(given) : head < given[i].time
      /\ \A j \in 1 .. last : new[j] = given[a + j]
      /\ \A j \in 1 .. a : given[j].time <= ready
      /\ \A j \in after + 1 .. Len(given) :
           ready < given[j].time /\ (after > 0 => given[after].time < given[j].time)
  BY DEF KnowsAllUpTo, Continues, IsCompleteAt
<1>6. head <= ready \/ (n > 0 /\ head <= known[n].time)
  BY DEF Reached
<1>7. new = <<>> <=> last = 0
  BY EmptySeq
<1>8. m = LET over == Overlap(c, s, new)
              written == Preparable(c, s, SubSeq(new, over.count + 1, last))
              moved == IF written = <<>> THEN s
                       ELSE [events |-> s.events \o written, head |-> Last(written).time]
              can == CanPrepareRemoteFrame(c, moved, ready)
          IN  [unc |-> IF try /\ can THEN IncreaseWriteHead(moved, ready) ELSE moved,
               ok |-> /\ new # <<>> => c.head <= FrontTime(s) /\ over.found
                      /\ try => can]
  BY DEF MergeStream
<1> HIDE DEF known, n, last, after, rest, merged, m
<1>9. k \in 0 .. last /\ after - n = last - k /\ a + k = n /\ after \in Nat
  <2>1. a \in Nat /\ n \in Nat /\ last \in Nat /\ a <= n /\ n <= a + last
    BY <1>2, <1>3, <1>4 DEF after
  <2> QED
    BY <2>1, InCommon DEF after
<1> HIDE DEF k
<1>10. /\ rest \in Seq(Commands) /\ Len(rest) = last - k
       /\ \A i \in 1 .. last - k : rest[i] = new[k + i]
  <2>0. k \in 0 .. last /\ last \in Nat
    BY <1>3, <1>9
  <2>1. /\ k + 1 \in Nat /\ 1 <= k + 1 /\ last <= Len(new) /\ k + 1 <= last + 1 /\ last \in Nat
        /\ last + 1 - (k + 1) = last - k /\ \A i \in 1 .. last - k : k + 1 + i - 1 = k + i
    <3>1. last = Len(new)
      BY DEF last
    <3> QED
      BY <2>0, <3>1
  <2>2. /\ SubSeq(new, k + 1, last) \in Seq(Commands)
        /\ Len(SubSeq(new, k + 1, last)) = last + 1 - (k + 1)
        /\ \A i \in 1 .. last + 1 - (k + 1) : SubSeq(new, k + 1, last)[i] = new[k + 1 + i - 1]
    BY <2>1, PartOf, ZenonT(60)
  <2> QED
    BY <2>1, <2>2 DEF rest
<1>11. \A i \in 1 .. last - k : /\ n + i \in n + 1 .. Len(given) /\ n + i \in 1 .. Len(given)
                                /\ n + i <= after
                                /\ k + i \in 1 .. last /\ a + (k + i) = n + i
  BY <1>2, <1>3, <1>4, <1>9
<1>12. \A i \in 1 .. last - k : /\ rest[i] = given[n + i] /\ rest[i].time \in Nat
                                /\ head < rest[i].time
  <2> TAKE i \in 1 .. last - k
  <2>1. rest[i] = new[k + i] /\ new[k + i] = given[a + (k + i)]
    BY <1>5, <1>10, <1>11
  <2>2. rest[i] = given[n + i]
    BY <2>1, <1>11
  <2>3. given[n + i].time \in Nat /\ head < given[n + i].time
    BY <1>3, <1>5, <1>11
  <2> QED
    BY <2>2, <2>3
<1>13. Preparable(c, s, rest) = rest
  <2>1. \A i \in 1 .. Len(rest) : head <= rest[i].time /\ h <= rest[i].time
    BY <1>10, <1>12
  <2>2. From(rest, head) = rest /\ From(rest, h) = rest
    BY <2>1, <1>10, FromAll
  <2> QED
    BY <2>2 DEF Preparable, c, s
<1>14. m = [unc |-> IF try /\ valid THEN IncreaseWriteHead(merged, ready) ELSE merged,
            ok |-> /\ new # <<>> => c.head <= FrontTime(s)
                   /\ try => valid]
  <2>1. Overlap(c, s, new).count = k /\ Overlap(c, s, new).found
    BY <1>1
  <2>2. Preparable(c, s, SubSeq(new, Overlap(c, s, new).count + 1, last)) = rest
    BY <2>1, <1>13 DEF rest
  <2>3. s.events = u
    BY DEF s
  <2> HIDE DEF c, s, try
  <2> QED
    BY <1>8, <2>1, <2>2, <2>3 DEF merged
<1>15. c.head <= FrontTime(s)
  <2>1. u # <<>> => 1 \in 1 .. Len(u)
    BY EmptySeq
  <2>2. \A i \in 1 .. Len(u) : h < u[i].time
    BY DEF Divided
  <2> QED
    BY <2>1, <2>2, <1>3 DEF FrontTime, c, s
<1> DEFINE v == u \o rest
           moved == IF rest = <<>> THEN head ELSE given[after].time
<1>16. rest = <<>> <=> after = n
  <2>1. rest = <<>> <=> Len(rest) = 0
    BY <1>10, EmptySeq
  <2> QED
    BY <2>1, <1>2, <1>9, <1>10, SMTT(30)
<1>17. /\ v \in Seq(Commands)
       /\ Len(v) = Len(u) + (after - n)
       /\ \A i \in 1 .. Len(u) : v[i] = u[i]
       /\ \A i \in Len(u) + 1 .. Len(u) + (after - n) : v[i] = rest[i - Len(u)]
  <2>1. Len(rest) = after - n /\ rest \in Seq(Commands)
    BY <1>9, <1>10
  <2>2. /\ v \in Seq(Commands)
        /\ Len(v) = Len(u) + Len(rest)
        /\ \A i \in 1 .. Len(u) : v[i] = u[i]
        /\ \A i \in Len(u) + 1 .. Len(u) + Len(rest) : v[i] = rest[i - Len(u)]
    BY <2>1, JoinOf
  <2> HIDE DEF v
  <2> QED
    BY <2>1, <2>2
<1>18. rest # <<>> => /\ Last(rest) = given[after] /\ Last(new) = given[after]
                      /\ given[after].time \in Nat /\ head < given[after].time
                      /\ after > 0 /\ new # <<>>
  <2> SUFFICES ASSUME rest # <<>>
               PROVE  /\ Last(rest) = given[after] /\ Last(new) = given[after]
                      /\ given[after].time \in Nat /\ head < given[after].time
                      /\ after > 0 /\ new # <<>>
    OBVIOUS
  <2>1. last - k \in 1 .. last - k /\ n + (last - k) = after /\ last \in 1 .. last /\ a + last = after
    BY <1>2, <1>3, <1>9, <1>16 DEF after
  <2>2. Last(rest) = rest[last - k] /\ Last(new) = new[last]
    BY <1>10 DEF Last, last
  <2>3. rest[last - k] = given[after] /\ rest[last - k].time \in Nat /\ head < rest[last - k].time
    BY <2>1, <1>12
  <2>4. new[last] = given[after]
    BY <2>1, <1>5
  <2>5. after > 0 /\ last # 0
    BY <2>1, <1>3, <1>9
  <2> QED
    BY <2>2, <2>3, <2>4, <2>5, <1>7
<1>19. merged = [events |-> v, head |-> moved] /\ moved \in Nat /\ head <= moved
  <2>1. CASE rest = <<>>
    <3>1. u \o <<>> = u
      BY ConcatEmptySeq
    <3> QED
      BY <2>1, <3>1 DEF merged, s
  <2>2. CASE rest # <<>>
    <3>1. /\ Last(rest) = given[after] /\ given[after].time \in Nat /\ head < given[after].time
      BY <2>2, <1>18
    <3>2. merged = [events |-> v, head |-> Last(rest).time]
      BY <2>2 DEF merged
    <3>3. moved = given[after].time
      BY <2>2
    <3> HIDE DEF v, moved
    <3> QED
      BY <3>1, <3>2, <3>3
  <2> QED
    BY <2>1, <2>2
<1> HIDE DEF s
<1>20. new # <<>> => Last(new) = given[after] /\ after > 0
  <2> SUFFICES ASSUME new # <<>> PROVE Last(new) = given[after] /\ after > 0
    OBVIOUS
  <2>1. last \in 1 .. last /\ a + last = after /\ after > 0
    BY <1>3, <1>7 DEF after
  <2> QED
    BY <2>1, <1>5 DEF Last, last
<1>21. rest = <<>> => moved = head /\ after = n
  BY <1>16
<1>22. rest # <<>> => moved = given[after].time
  OBVIOUS
<1> HIDE DEF v, moved
<1>23. after > 0 => given[after].time \in Nat
  BY <1>3, <1>4, <1>9
<1>24. try => moved <= ready
  <2>1. CASE new = <<>>
    <3>1. last = 0 /\ after = a /\ n = a /\ rest = <<>>
      BY <2>1, <1>3, <1>4, <1>7, <1>16, <1>18 DEF after
    <3>2. n > 0 => known[n] = given[n] /\ given[n].time <= ready /\ given[n].time \in Nat
      <4>1. n > 0 => n \in 1 .. n /\ n \in 1 .. a /\ n \in 1 .. Len(given)
        BY <3>1, <1>2, <1>3, <1>4
      <4> QED
        BY <4>1, <1>3, <1>4, <1>5
    <3> QED
      BY <3>1, <3>2, <1>6, <1>21
  <2>2. CASE new # <<>> /\ ready >= Last(new).time
    <3>1. given[after].time <= ready
      BY <2>2, <1>20, <1>23
    <3>2. CASE rest # <<>>
      BY <3>1, <3>2, <1>22
    <3>3. CASE rest = <<>>
      <4>1. n > 0 => known[n] = given[after]
        BY <3>3, <1>2, <1>4, <1>21
      <4> QED
        BY <3>1, <3>3, <4>1, <1>6, <1>20, <1>21, <1>23
    <3> QED
      BY <3>2, <3>3
  <2> QED
    BY <2>1, <2>2
<1>25. valid <=> moved <= ready
  <2>1. c.head = h /\ merged.head = moved
    BY <1>19
  <2>2. h <= moved
    BY <1>19
  <2> HIDE DEF c
  <2>3. valid <=> moved <= ready /\ h <= ready
    BY <2>1 DEF CanPrepareRemoteFrame, CanWrite
  <2> QED
    BY <2>2, <2>3, <1>19
<1> HIDE DEF valid
<1> DEFINE top == IF try THEN ready ELSE moved
<1>26. m.ok
  BY <1>14, <1>15, <1>24, <1>25
<1>27. m.unc = [events |-> v, head |-> top]
  <2>1. m.unc = IF try /\ valid THEN IncreaseWriteHead(merged, ready) ELSE merged
    BY <1>14
  <2> HIDE DEF try
  <2>2. CASE try
    <3>1. valid
      BY <2>2, <1>24, <1>25
    <3>2. IncreaseWriteHead([events |-> v, head |-> moved], ready) = [events |-> v, head |-> ready]
      BY DEF IncreaseWriteHead
    <3> QED
      BY <2>1, <2>2, <3>1, <3>2, <1>19
  <2>3. CASE ~ try
    BY <2>1, <2>3, <1>19
  <2> QED
    BY <2>2, <2>3
<1>28. top \in Nat /\ moved <= top /\ head <= top
  BY <1>19, <1>24
<1>29. \A i \in 1 .. Len(v) : h < v[i].time /\ v[i].time <= top /\ v[i].time \in Nat
  <2> TAKE i \in 1 .. Len(v)
  <2>1. CASE i \in 1 .. Len(u)
    <3>1. h < u[i].time /\ u[i].time <= head /\ u[i].time \in Nat
      BY <2>1, <1>3 DEF Divided
    <3> QED
      BY <2>1, <3>1, <1>17, <1>28, SMTT(30)
  <2>2. CASE ~ (i \in 1 .. Len(u))
    <3>1. i \in Len(u) + 1 .. Len(u) + (after - n) /\ i - Len(u) \in 1 .. last - k
      <4>1. /\ Len(u) \in Nat /\ n \in Nat /\ after \in Nat /\ after - n = last - k
            /\ last \in Nat /\ k \in 0 .. last
        BY <1>2, <1>3, <1>9
      <4>2. Len(v) = Len(u) + (after - n)
        BY <1>17
      <4> QED
        BY <4>1, <4>2, <2>2
    <3>2. v[i] = rest[i - Len(u)]
      BY <3>1, <1>17
    <3>3. /\ rest[i - Len(u)] = given[n + (i - Len(u))] /\ head < rest[i - Len(u)].time
          /\ rest[i - Len(u)].time \in Nat
      BY <3>1, <1>12
    <3>4. n + (i - Len(u)) \in 1 .. Len(given) /\ n + (i - Len(u)) <= after
          /\ after \in 1 .. Len(given)
      <4>1. n + (i - Len(u)) \in 1 .. Len(given) /\ n + (i - Len(u)) <= after
        BY <3>1, <1>11
      <4> QED
        BY <4>1, <1>3, <1>4, <1>9, SMTT(30)
    <3>5. given[n + (i - Len(u))].time <= given[after].time
      BY <3>4 DEF Ordered
    <3>6. rest # <<>>
      BY <3>1, <1>9, <1>16
    <3>7. given[after].time = moved
      BY <3>6, <1>22
    <3> QED
      <4>1. v[i].time <= moved /\ v[i].time \in Nat /\ head < v[i].time
        BY <3>2, <3>3, <3>5, <3>7
      <4>2. moved \in Nat /\ moved <= top /\ top \in Nat
        BY <1>19, <1>28
      <4> HIDE DEF top
      <4> QED
        BY <4>1, <4>2, SMTT(30)
  <2> QED
    BY <2>1, <2>2
<1>30. Beginning(d \o v, given) /\ Len(d \o v) = after /\ Ordered(v)
  <2>1. d \o v = known \o rest
    <3>1. d \in Seq(Commands) /\ u \in Seq(Commands) /\ rest \in Seq(Commands)
      BY <1>10
    <3>2. (d \o u) \o rest = d \o (u \o rest)
      BY <3>1, JoinAssociates, ZenonT(60)
    <3> QED
      BY <3>2 DEF v, known
  <2>2. /\ known \o rest \in Seq(Commands)
        /\ Len(known \o rest) = n + (last - k)
        /\ \A i \in 1 .. n : (known \o rest)[i] = known[i]
        /\ \A i \in n + 1 .. n + (last - k) : (known \o rest)[i] = rest[i - n]
    <3>1. known \in Seq(Commands) /\ rest \in Seq(Commands) /\ Len(rest) = last - k
      BY <1>2, <1>10
    <3>2. /\ known \o rest \in Seq(Commands)
          /\ Len(known \o rest) = n + Len(rest)
          /\ \A i \in 1 .. n : (known \o rest)[i] = known[i]
          /\ \A i \in n + 1 .. n + Len(rest) : (known \o rest)[i] = rest[i - n]
      BY <3>1, JoinOf DEF n
    <3> QED
      BY <3>1, <3>2
  <2>3. n + (last - k) = after
    BY <1>2, <1>3, <1>9
  <2>4. \A i \in 1 .. after : (known \o rest)[i] = given[i]
    <3> TAKE i \in 1 .. after
    <3>1. CASE i \in 1 .. n
      BY <3>1, <2>2, <1>4
    <3>2. CASE ~ (i \in 1 .. n)
      <4>1. i \in n + 1 .. n + (last - k) /\ i - n \in 1 .. last - k /\ n + (i - n) = i
        <5>1. n \in Nat /\ last \in Nat /\ k \in 0 .. last
          BY <1>2, <1>3, <1>9
        <5> QED
          BY <5>1, <3>2, <2>3
      <4>2. rest[i - n] = given[n + (i - n)]
        BY <4>1, <1>12
      <4> QED
        BY <4>1, <4>2, <2>2
    <3> QED
      BY <3>1, <3>2
  <2>5. Beginning(d \o v, given) /\ Len(d \o v) = after
    BY <2>1, <2>2, <2>3, <2>4, <1>4 DEF Beginning
  <2>6. Ordered(v)
    <3> SUFFICES ASSUME NEW i \in 1 .. Len(v), NEW j \in 1 .. Len(v), i <= j
                 PROVE  v[i].time <= v[j].time
      BY DEF Ordered
    <3>1. /\ Len(v) \in Nat /\ Len(d) \in Nat
          /\ \A l \in 1 .. Len(v) : (d \o v)[Len(d) + l] = v[l]
          /\ Len(d \o v) = Len(d) + Len(v)
      BY <1>2, <1>17, JoinOf, ElementsOf
    <3>2. Len(d) + i \in 1 .. after /\ Len(d) + j \in 1 .. after /\ Len(d) + i <= Len(d) + j
      BY <3>1, <2>5, SMTT(30)
    <3>3. v[i] = given[Len(d) + i] /\ v[j] = given[Len(d) + j]
      BY <3>1, <3>2, <2>1, <2>4
    <3>4. Len(d) + i \in 1 .. Len(given) /\ Len(d) + j \in 1 .. Len(given)
      BY <3>2, <1>3, <1>4, <1>9, SMTT(30)
    <3>5. given[Len(d) + i].time <= given[Len(d) + j].time
      BY <3>2, <3>4 DEF Ordered
    <3> QED
      BY <3>3, <3>5
  <2> QED
    BY <2>5, <2>6
<1>31. Divided(d, v, h, top)
  BY <1>29, <1>30 DEF Divided
<1>32. \A i \in after + 1 .. Len(given) : top < given[i].time
  <2> TAKE i \in after + 1 .. Len(given)
  <2>1. ready < given[i].time /\ (after > 0 => given[after].time < given[i].time)
    BY <1>5
  <2>2. i \in n + 1 .. Len(given)
    BY <1>2, <1>3, <1>4, <1>9
  <2>3. head < given[i].time
    BY <2>2, <1>5
  <2> QED
    BY <2>1, <2>3, <1>18, <1>21, <1>22
<1>33. Reached(top, d \o v, ready)
  <2>1. CASE try
    BY <2>1 DEF Reached
  <2>2. CASE ~ try
    <3>1. top = moved /\ new # <<>>
      BY <2>2
    <3>2. after \in 1 .. after /\ (d \o v)[after] = given[after] /\ after > 0
      <4>1. after \in 1 .. after /\ after > 0
        BY <3>1, <1>9, <1>20
      <4> QED
        BY <4>1, <1>30 DEF Beginning
    <3>3. CASE rest # <<>>
      <4>1. top <= (d \o v)[after].time
        BY <3>1, <3>2, <3>3, <1>22, <1>23
      <4> QED
        BY <3>2, <4>1, <1>30 DEF Reached
    <3>4. CASE rest = <<>>
      <4>1. after = n /\ top = head
        BY <3>1, <3>4, <1>21
      <4>2. known[n] = given[after]
        BY <3>2, <4>1, <1>4
      <4>3. top <= ready \/ top <= (d \o v)[after].time
        BY <3>2, <4>1, <4>2, <1>6
      <4> QED
        BY <3>2, <4>3, <1>30 DEF Reached
    <3> QED
      BY <3>3, <3>4
  <2> QED
    BY <2>1, <2>2
<1> QED
  <2>1. /\ m.unc = [events |-> v, head |-> top] /\ v \in Seq(Commands) /\ top \in Nat
        /\ head <= top
    BY <1>17, <1>27, <1>28
  <2>2. Divided(d, v, h, top) /\ Len(d \o v) = a + Len(new) /\ Reached(top, d \o v, ready)
    BY <1>30, <1>31, <1>33 DEF after, last
  <2>3. KnowsAllUpTo(top, d \o v, given)
    BY <1>30, <1>32 DEF KnowsAllUpTo
  <2> HIDE DEF top, v
  <2> QED
    BY <2>1, <2>2, <2>3, <1>26 DEF Merged, m, c, s

-----------------------------------------------------------------------------

(***************************************************************************)
(* Merging the packs that have arrived                                     *)
(***************************************************************************)

\* What a peer's streams, the packs of a queue after the first n and what a
\* player has given say of each other.
Follows(s, q, queue, n, from, given, frames) ==
  /\ KnowsAllUpTo(s.unc[q].head, Whole(s, q), given)
  /\ Reached(s.unc[q].head, Whole(s, q), frames)
  /\ Carries(queue, n, q, from, s.unc[q].head, Whole(s, q), given, frames)

\* When a pack can be merged, one stream after the other.
Fits(s, src, pack, given, a) ==
  \A q \in Local(src) :
    /\ Ordered(given[q])
    /\ KnowsAllUpTo(s.unc[q].head, Whole(s, q), given[q])
    /\ Continues(pack.streams[q], a[q], Whole(s, q), given[q])
    /\ IsCompleteAt(pack.frameReadyToCommit, a[q], a[q] + Len(pack.streams[q]), given[q])
    /\ Reached(s.unc[q].head, Whole(s, q), pack.frameReadyToCommit)

\* The streams s when it has been.
HasMerged(t, s, h, src, pack, given, a) ==
  /\ StreamsOK(t, h)
  /\ t.ok
  /\ t.com = s.com
  /\ \A q \in Players \ Local(src) : t.unc[q] = s.unc[q]
  /\ \A q \in Local(src) :
       /\ s.unc[q].head <= t.unc[q].head
       /\ KnowsAllUpTo(t.unc[q].head, Whole(t, q), given[q])
       /\ Len(Whole(t, q)) = a[q] + Len(pack.streams[q])
       /\ Reached(t.unc[q].head, Whole(t, q), pack.frameReadyToCommit)

\* One pack: what merging it does to the streams of its sender's players.
LEMMA ApplyOne ==
  ASSUME NEW src \in Peers, NEW pack \in Packs(src), NEW s, NEW h \in Nat, StreamsOK(s, h), s.ok,
         NEW given \in [Local(src) -> Seq(Commands)], NEW a \in [Local(src) -> Nat],
         Fits(s, src, pack, given, a)
  PROVE  HasMerged(ApplyPackFromRemote(s, pack), s, h, src, pack, given, a)
<1> DEFINE t == ApplyPackFromRemote(s, pack)
           ready == pack.frameReadyToCommit
           m(q) == MergeStream(s.com[q], s.unc[q], pack.streams[q], ready)
<1>1. Local(src) \subseteq Players
  BY DEF Local
<1>2. ready \in Nat /\ pack.streams \in [Local(src) -> Seq(Commands)] /\ DOMAIN pack.streams = Local(src)
  BY DEF Packs
<1>3. /\ t.com = s.com
      /\ t.unc = [q \in Players |-> IF q \in Local(src) THEN m(q).unc ELSE s.unc[q]]
      /\ t.ok = (s.ok /\ \A q \in Local(src) : m(q).ok)
  <2>1. \A q \in Local(src) :
          [x \in Local(src) |-> MergeStream(s.com[x], s.unc[x], pack.streams[x],
                                            pack.frameReadyToCommit)][q] = m(q)
    OBVIOUS
  <2> QED
    BY <1>2, <2>1 DEF ApplyPackFromRemote
<1>4. ASSUME NEW q \in Local(src)
      PROVE  Merged(m(q), s.com[q].events, h, s.unc[q].head, given[q],
                    a[q] + Len(pack.streams[q]), ready)
  <2> DEFINE d == s.com[q].events
             u == s.unc[q].events
             head == s.unc[q].head
             new == pack.streams[q]
  <2>1. /\ d \in Seq(Commands) /\ u \in Seq(Commands) /\ head \in Nat /\ h <= head
        /\ Divided(d, u, h, head)
    BY <1>1, PeerStreams
  <2>2. s.com[q] = [events |-> d, head |-> h] /\ s.unc[q] = [events |-> u, head |-> head]
    BY <1>1, PeerStreams
  <2>3. /\ given[q] \in Seq(Commands) /\ Ordered(given[q])
        /\ KnowsAllUpTo(head, d \o u, given[q])
        /\ new \in Seq(Commands) /\ a[q] \in Nat /\ ready \in Nat
        /\ Continues(new, a[q], d \o u, given[q])
        /\ IsCompleteAt(ready, a[q], a[q] + Len(new), given[q])
        /\ Reached(head, d \o u, ready)
    BY <1>2 DEF Whole, Fits
  <2> DEFINE g == given[q]
             b == a[q]
  <2> HIDE DEF d, u, head, new, g, b, ready
  <2>4. Merged(MergeStream([events |-> d, head |-> h], [events |-> u, head |-> head], new, ready),
               d, h, head, g, b + Len(new), ready)
    <3>1. /\ g \in Seq(Commands) /\ Ordered(g)
          /\ KnowsAllUpTo(head, d \o u, g)
          /\ new \in Seq(Commands) /\ b \in Nat /\ ready \in Nat
          /\ Continues(new, b, d \o u, g)
          /\ IsCompleteAt(ready, b, b + Len(new), g)
          /\ Reached(head, d \o u, ready)
      BY <2>3 DEF g, b
    <3>2. d \in Seq(Commands) /\ u \in Seq(Commands) /\ head \in Nat /\ h <= head
          /\ Divided(d, u, h, head)
      BY <2>1
    <3> QED
      BY <3>1, <3>2, MergeOne
  <2>5. m(q) = MergeStream([events |-> d, head |-> h], [events |-> u, head |-> head], new, ready)
    BY <2>2 DEF new
  <2> QED
    BY <2>4, <2>5 DEF d, head, new, g, b
<1>5. t.ok
  BY <1>3, <1>4 DEF Merged
<1>6. ASSUME NEW q \in Local(src)
      PROVE  /\ StreamOK(t.com[q], t.unc[q], h)
             /\ s.unc[q].head <= t.unc[q].head
             /\ KnowsAllUpTo(t.unc[q].head, Whole(t, q), given[q])
             /\ Len(Whole(t, q)) = a[q] + Len(pack.streams[q])
             /\ Reached(t.unc[q].head, Whole(t, q), ready)
  <2> DEFINE d == s.com[q].events
             head == s.unc[q].head
  <2>1. /\ d \in Seq(Commands) /\ head \in Nat /\ h <= head
        /\ s.com[q] = [events |-> d, head |-> h]
    BY <1>1, PeerStreams, ZenonT(60)
  <2>2. PICK v \in Seq(Commands), top \in Nat :
                  /\ m(q).unc = [events |-> v, head |-> top]
                  /\ head <= top
                  /\ Divided(d, v, h, top)
                  /\ KnowsAllUpTo(top, d \o v, given[q])
                  /\ Len(d \o v) = a[q] + Len(pack.streams[q])
                  /\ Reached(top, d \o v, ready)
    BY <1>4 DEF Merged
  <2>3. t.com[q] = [events |-> d, head |-> h] /\ t.unc[q] = [events |-> v, head |-> top]
    BY <1>1, <1>3, <2>1, <2>2
  <2> HIDE DEF d, head, t
  <2>4. Whole(t, q) = d \o v /\ t.unc[q].head = top
    BY <2>3 DEF Whole
  <2>5. h <= top
    BY <2>1, <2>2
  <2>6. StreamOK(t.com[q], t.unc[q], h)
    BY <2>1, <2>2, <2>3, <2>5 DEF StreamOK, Streams, Commands
  <2>7. head <= t.unc[q].head
    BY <2>2, <2>4
  <2> QED
    BY <2>2, <2>4, <2>6, <2>7 DEF head
<1>7. \A q \in Players \ Local(src) : t.unc[q] = s.unc[q]
  BY <1>3
<1>8. DOMAIN t.unc = Players /\ t.unc = [q \in Players |-> t.unc[q]]
  BY <1>3
<1> HIDE DEF t
<1>9. \A q \in Players : StreamOK(t.com[q], t.unc[q], h)
  <2> TAKE q \in Players
  <2>1. CASE q \in Local(src)
    BY <2>1, <1>6
  <2>2. CASE ~ (q \in Local(src))
    <3>1. StreamOK(s.com[q], s.unc[q], h)
      BY PeerStreams
    <3> QED
      BY <2>2, <3>1, <1>3, <1>7
  <2> QED
    BY <2>1, <2>2
<1>10. StreamsOK(t, h)
  <2>1. \A q \in Players : t.unc[q] \in Streams
    BY <1>9 DEF StreamOK
  <2>2. s.com \in [Players -> Streams]
    BY DEF StreamsOK
  <2> QED
    BY <2>1, <2>2, <1>3, <1>8, <1>9 DEF StreamsOK
<1> QED
  <2>1. t.com = s.com
    BY <1>3
  <2> QED
    BY <2>1, <1>5, <1>6, <1>7, <1>10 DEF HasMerged, t

\* The next pack of a queue can be merged.
LEMMA NextPack ==
  ASSUME NEW src \in Peers, NEW queue \in Seq(Packs(src)), NEW q \in Local(src),
         NEW i \in 1 .. Len(queue), NEW from, NEW head \in Nat,
         NEW known \in Seq(Commands), NEW given \in Seq(Commands), NEW frames \in Nat,
         Carries(queue, i - 1, q, from, head, known, given, frames)
  PROVE  /\ from[i] \in Nat
         /\ Continues(queue[i].streams[q], from[i], known, given)
         /\ IsCompleteAt(queue[i].frameReadyToCommit, from[i],
                         from[i] + Len(queue[i].streams[q]), given)
         /\ Reached(head, known, queue[i].frameReadyToCommit)
         /\ queue[i].frameReadyToCommit <= frames
<1>1. Len(queue) \in Nat /\ i \in i - 1 + 1 .. Len(queue) /\ i = i - 1 + 1
  BY LenProperties
<1>2. /\ PackOK(queue[i], q, from[i], given, frames)
      /\ Reached(head, known, queue[i].frameReadyToCommit)
      /\ Len(known) <= After(queue, q, from, i)
      /\ from[i] <= Len(known)
      /\ from[i] \in Nat
  BY <1>1 DEF Carries
<1> DEFINE new == queue[i].streams[q]
<1>3. /\ from[i] + Len(new) <= Len(given)
      /\ \A j \in 1 .. Len(new) : new[j] = given[from[i] + j]
      /\ IsCompleteAt(queue[i].frameReadyToCommit, from[i], from[i] + Len(new), given)
      /\ queue[i].frameReadyToCommit <= frames
  BY <1>2 DEF PackOK
<1> QED
  BY <1>2, <1>3 DEF Continues, After

\* When it has been merged, the rest of the queue can be.
LEMMA RestOfQueue ==
  ASSUME NEW src \in Peers, NEW queue \in Seq(Packs(src)), NEW q \in Local(src),
         NEW i \in 1 .. Len(queue), NEW from, NEW head \in Nat, NEW top \in Nat,
         NEW known \in Seq(Commands), NEW more \in Seq(Commands),
         NEW given \in Seq(Commands), NEW frames \in Nat,
         Carries(queue, i - 1, q, from, head, known, given, frames),
         Len(more) = from[i] + Len(queue[i].streams[q]),
         Reached(top, more, queue[i].frameReadyToCommit)
  PROVE  /\ Carries(queue, i, q, from, top, more, given, frames)
         /\ Reached(top, more, frames)
         /\ Len(known) <= Len(more)
<1>1. Len(queue) \in Nat /\ i \in i - 1 + 1 .. Len(queue) /\ i = i - 1 + 1 /\ Len(queue) # i - 1
  BY LenProperties
<1>2. /\ PackOK(queue[i], q, from[i], given, frames)
      /\ Len(known) <= After(queue, q, from, i)
      /\ \A j \in i .. Len(queue) :
            /\ queue[i].frameReadyToCommit <= queue[j].frameReadyToCommit
            /\ After(queue, q, from, i) <= After(queue, q, from, j)
  BY <1>1 DEF Carries
<1>3. Len(more) = After(queue, q, from, i)
  BY DEF After
<1>4. \A j \in 1 .. Len(queue) : queue[j].frameReadyToCommit \in Nat
  <2>1. \A j \in 1 .. Len(queue) : queue[j] \in Packs(src)
    BY ElementOfSeq
  <2> QED
    BY <2>1 DEF Packs
<1>5. \A f \in Nat : queue[i].frameReadyToCommit <= f => Reached(top, more, f)
  BY <1>4 DEF Reached
<1>6. Reached(top, more, frames)
  BY <1>2, <1>5 DEF PackOK
<1>7. Len(given) = IF Len(queue) = i THEN Len(more) ELSE After(queue, q, from, Len(queue))
  <2>1. Len(given) = After(queue, q, from, Len(queue))
    BY <1>1 DEF Carries
  <2> QED
    BY <2>1, <1>3
<1>8. ASSUME NEW l \in i + 1 .. Len(queue)
      PROVE  /\ PackOK(queue[l], q, from[l], given, frames)
             /\ Reached(top, more, queue[l].frameReadyToCommit)
             /\ Len(more) <= After(queue, q, from, l)
             /\ from[l] <= (IF l = i + 1 THEN Len(more) ELSE After(queue, q, from, l - 1))
             /\ \A j \in l .. Len(queue) :
                  /\ queue[l].frameReadyToCommit <= queue[j].frameReadyToCommit
                  /\ After(queue, q, from, l) <= After(queue, q, from, j)
  <2>1. l \in i - 1 + 1 .. Len(queue) /\ l # i - 1 + 1 /\ l \in i .. Len(queue) /\ l \in 1 .. Len(queue)
    BY <1>1
  <2>2. /\ PackOK(queue[l], q, from[l], given, frames)
        /\ from[l] <= After(queue, q, from, l - 1)
        /\ \A j \in l .. Len(queue) :
                  /\ queue[l].frameReadyToCommit <= queue[j].frameReadyToCommit
                  /\ After(queue, q, from, l) <= After(queue, q, from, j)
    BY <2>1 DEF Carries
  <2>3. queue[i].frameReadyToCommit <= queue[l].frameReadyToCommit
        /\ After(queue, q, from, i) <= After(queue, q, from, l)
    BY <2>1, <1>2
  <2>4. Reached(top, more, queue[l].frameReadyToCommit)
    BY <2>1, <2>3, <1>4, <1>5
  <2>5. l = i + 1 => l - 1 = i
    OBVIOUS
  <2> QED
    BY <2>2, <2>3, <2>4, <2>5, <1>3
<1>9. from \in [1 .. Len(queue) -> Nat]
  BY DEF Carries
<1> QED
  BY <1>2, <1>3, <1>6, <1>7, <1>8, <1>9 DEF Carries

\* The streams after each of the packs.
Merges(s, queue, n, g) ==
  /\ ApplyPacks(s, queue, n) = g[n]
  /\ g[0] = s
  /\ \A i \in 1 .. n : g[i] = ApplyPackFromRemote(g[i - 1], queue[i])

\* ApplyPacks merges one after the other.
LEMMA MergedIs ==
  ASSUME NEW s, NEW queue, NEW n \in Nat
  PROVE  \E g : Merges(s, queue, n, g)
<1> DEFINE IsMerged(g, m) ==
             g = [i \in 0 .. m |-> IF i = 0 THEN s ELSE ApplyPackFromRemote(g[i - 1], queue[i])]
           S == {m \in 0 .. n : \E g : IsMerged(g, m)}
<1>1. 0 \in S
  <2> DEFINE g == [i \in 0 .. 0 |-> s]
  <2>1. IsMerged(g, 0)
    OBVIOUS
  <2>2. \E x : IsMerged(x, 0)
    BY <2>1
  <2> QED
    BY <2>2
<1>2. ASSUME NEW m \in 1 .. n, m - 1 \in S PROVE m \in S
  <2>1. PICK f : IsMerged(f, m - 1)
    BY <1>2
  <2> DEFINE x == ApplyPackFromRemote(f[m - 1], queue[m])
             g == [i \in 0 .. m |-> IF i = m THEN x ELSE f[i]]
  <2>2. \A i \in 0 .. m - 1 : g[i] = f[i]
    OBVIOUS
  <2>3. \A i \in 0 .. m - 1 : f[i] = IF i = 0 THEN s ELSE ApplyPackFromRemote(f[i - 1], queue[i])
    <3> HIDE DEF g
    <3> QED
      BY <2>1
  <2>4. g[m] = x
    OBVIOUS
  <2>5. DOMAIN g = 0 .. m /\ g = [i \in 0 .. m |-> g[i]]
    OBVIOUS
  <2> HIDE DEF g
  <2>6. ASSUME NEW i \in 0 .. m
        PROVE  g[i] = IF i = 0 THEN s ELSE ApplyPackFromRemote(g[i - 1], queue[i])
    <3>1. CASE i = m
      <4>1. i # 0 /\ m - 1 \in 0 .. m - 1
        BY <3>1
      <4>2. g[m - 1] = f[m - 1]
        BY <4>1, <2>2
      <4> QED
        BY <3>1, <4>1, <4>2, <2>4
    <3>2. CASE i # m
      <4>1. i \in 0 .. m - 1 /\ (i # 0 => i - 1 \in 0 .. m - 1)
        BY <3>2
      <4>2. g[i] = f[i] /\ (i # 0 => g[i - 1] = f[i - 1])
        BY <4>1, <2>2
      <4> QED
        BY <4>1, <4>2, <2>3
    <3> QED
      BY <3>1, <3>2
  <2>7. IsMerged(g, m)
    BY <2>5, <2>6
  <2> QED
    BY <2>7
<1>3. n \in S
  <2>1. \A i \in 1 .. n : i - 1 \in S => i \in S
    BY <1>2
  <2> HIDE DEF S
  <2>2. 0 .. n \subseteq S
    BY <1>1, <2>1, SetInduction
  <2> QED
    BY <2>2
<1> DEFINE g == CHOOSE g : IsMerged(g, n)
<1>4. IsMerged(g, n)
  BY <1>3
<1>5. ApplyPacks(s, queue, n) = g[n]
  BY DEF ApplyPacks
<1> HIDE DEF g
<1>6. g[0] = s /\ \A i \in 1 .. n : g[i] = ApplyPackFromRemote(g[i - 1], queue[i])
  <2>1. \A i \in 0 .. n : g[i] = IF i = 0 THEN s ELSE ApplyPackFromRemote(g[i - 1], queue[i])
    BY <1>4
  <2> QED
    BY <2>1
<1>7. Merges(s, queue, n, g)
  BY <1>5, <1>6 DEF Merges
<1> QED
  BY <1>7

\* Any number of packs of a queue can be merged, and then the rest.
LEMMA MergeQueue ==
  ASSUME NEW src \in Peers, NEW queue \in Seq(Packs(src)), NEW n \in 0 .. Len(queue),
         NEW s, NEW h \in Nat, StreamsOK(s, h), s.ok, NEW frames \in Nat,
         NEW given \in [Local(src) -> Seq(Commands)], NEW from,
         \A q \in Local(src) :
           Ordered(given[q]) /\ Follows(s, q, queue, 0, from[q], given[q], frames)
  PROVE  LET t == ApplyPacks(s, queue, n)
         IN  /\ StreamsOK(t, h)
             /\ t.ok
             /\ t.com = s.com
             /\ \A q \in Local(src) :
                  /\ s.unc[q].head <= t.unc[q].head
                  /\ Len(Whole(s, q)) <= Len(Whole(t, q))
                  /\ Follows(t, q, queue, n, from[q], given[q], frames)
<1>0. PICK g : Merges(s, queue, n, g)
  <2>1. n \in Nat
    BY LenProperties
  <2> QED
    BY <2>1, MergedIs
<1>1. /\ ApplyPacks(s, queue, n) = g[n]
      /\ g[0] = s
      /\ \A i \in 1 .. n : g[i] = ApplyPackFromRemote(g[i - 1], queue[i])
  BY <1>0 DEF Merges
<1> DEFINE Good(t, i) ==
             /\ StreamsOK(t, h)
             /\ t.ok
             /\ t.com = s.com
             /\ \A q \in Local(src) :
                  /\ s.unc[q].head <= t.unc[q].head
                  /\ Len(Whole(s, q)) <= Len(Whole(t, q))
                  /\ Follows(t, q, queue, i, from[q], given[q], frames)
           S == {i \in 0 .. n : Good(g[i], i)}
<1>2. Local(src) \subseteq Players /\ Len(queue) \in Nat /\ n \in Nat
  BY LenProperties DEF Local
<1>3. 0 \in S
  <2>1. \A q \in Local(src) : s.unc[q].head \in Nat /\ Len(Whole(s, q)) \in Nat
    BY <1>2, PeerStreams, WholeIs
  <2>2. Good(s, 0)
    BY <2>1
  <2> QED
    BY <2>2, <1>1
<1>4. ASSUME NEW i \in 1 .. n, i - 1 \in S PROVE i \in S
  <2> DEFINE r == g[i - 1]
             t == g[i]
             pack == queue[i]
             a == [q \in Local(src) |-> from[q][i]]
  <2>1. i \in 1 .. Len(queue) /\ pack \in Packs(src) /\ i \in 0 .. n /\ i - 1 \in Nat
    BY <1>2, ElementOfSeq
  <2>2. Good(r, i - 1) /\ t = ApplyPackFromRemote(r, pack)
    BY <1>1, <1>4
  <2> HIDE DEF r, t, pack
  <2>3. StreamsOK(r, h) /\ r.ok /\ r.com = s.com
    BY <2>2
  <2>4. ASSUME NEW q \in Local(src)
        PROVE  /\ r.unc[q].head \in Nat /\ Whole(r, q) \in Seq(Commands)
               /\ Len(Whole(r, q)) \in Nat /\ Len(Whole(s, q)) \in Nat /\ s.unc[q].head \in Nat
               /\ given[q] \in Seq(Commands) /\ Ordered(given[q])
    BY <1>2, <2>3, PeerStreams, WholeIs
  <2>5. ASSUME NEW q \in Local(src)
        PROVE  /\ s.unc[q].head <= r.unc[q].head
               /\ Len(Whole(s, q)) <= Len(Whole(r, q))
               /\ KnowsAllUpTo(r.unc[q].head, Whole(r, q), given[q])
               /\ Carries(queue, i - 1, q, from[q], r.unc[q].head, Whole(r, q), given[q], frames)
    BY <2>2 DEF Follows
  <2>6. ASSUME NEW q \in Local(src)
        PROVE  /\ a[q] \in Nat
               /\ Continues(pack.streams[q], a[q], Whole(r, q), given[q])
               /\ IsCompleteAt(pack.frameReadyToCommit, a[q], a[q] + Len(pack.streams[q]), given[q])
               /\ Reached(r.unc[q].head, Whole(r, q), pack.frameReadyToCommit)
    <3> DEFINE head == r.unc[q].head
               known == Whole(r, q)
               gq == given[q]
               fq == from[q]
    <3>1. head \in Nat /\ known \in Seq(Commands) /\ gq \in Seq(Commands)
          /\ Carries(queue, i - 1, q, fq, head, known, gq, frames)
      BY <2>4, <2>5
    <3>2. a[q] = fq[i]
      OBVIOUS
    <3> HIDE DEF head, known, gq, fq, a
    <3>3. /\ fq[i] \in Nat
          /\ Continues(queue[i].streams[q], fq[i], known, gq)
          /\ IsCompleteAt(queue[i].frameReadyToCommit, fq[i],
                         fq[i] + Len(queue[i].streams[q]), gq)
          /\ Reached(head, known, queue[i].frameReadyToCommit)
      BY <2>1, <3>1, NextPack
    <3> QED
      BY <3>2, <3>3 DEF head, known, gq, pack
  <2>7. a \in [Local(src) -> Nat]
    BY <2>6
  <2> HIDE DEF a
  <2>8. /\ StreamsOK(t, h)
        /\ t.ok
        /\ t.com = r.com
        /\ \A q \in Local(src) :
             /\ r.unc[q].head <= t.unc[q].head
             /\ KnowsAllUpTo(t.unc[q].head, Whole(t, q), given[q])
             /\ Len(Whole(t, q)) = a[q] + Len(pack.streams[q])
             /\ Reached(t.unc[q].head, Whole(t, q), pack.frameReadyToCommit)
    <3>1. Fits(r, src, pack, given, a)
      BY <2>4, <2>5, <2>6 DEF Fits
    <3>2. StreamsOK(r, h) /\ r.ok
      BY <2>3
    <3>3. HasMerged(t, r, h, src, pack, given, a)
      <4> HIDE DEF Good, S
      <4> QED
        BY <2>1, <2>2, <2>7, <3>1, <3>2, ApplyOne
    <3> QED
      BY <3>3 DEF HasMerged
  <2>9. ASSUME NEW q \in Local(src)
        PROVE  /\ s.unc[q].head <= t.unc[q].head
               /\ Len(Whole(s, q)) <= Len(Whole(t, q))
               /\ Follows(t, q, queue, i, from[q], given[q], frames)
    <3> DEFINE head == r.unc[q].head
               known == Whole(r, q)
               top == t.unc[q].head
               more == Whole(t, q)
               gq == given[q]
               fq == from[q]
    <3>1. /\ head \in Nat /\ known \in Seq(Commands) /\ gq \in Seq(Commands)
          /\ Carries(queue, i - 1, q, fq, head, known, gq, frames)
      BY <2>4, <2>5
    <3>2. top \in Nat /\ more \in Seq(Commands) /\ Len(more) \in Nat
      BY <1>2, <2>8, PeerStreams, WholeIs
    <3>3. Len(more) = fq[i] + Len(queue[i].streams[q])
      BY <2>8 DEF a, pack
    <3>4. Reached(top, more, queue[i].frameReadyToCommit)
      BY <2>8 DEF pack
    <3>5. s.unc[q].head \in Nat /\ s.unc[q].head <= head /\ head <= top
          /\ Len(Whole(s, q)) \in Nat /\ Len(Whole(s, q)) <= Len(known) /\ Len(known) \in Nat
      BY <2>4, <2>5, <2>8
    <3>6. KnowsAllUpTo(top, more, gq)
      BY <2>8
    <3> HIDE DEF head, known, top, more, gq, fq, Good, S
    <3>7. /\ Carries(queue, i, q, fq, top, more, gq, frames)
          /\ Reached(top, more, frames)
          /\ Len(known) <= Len(more)
      BY <2>1, <3>1, <3>2, <3>3, <3>4, RestOfQueue
    <3>8. Follows(t, q, queue, i, from[q], given[q], frames)
      BY <3>6, <3>7 DEF Follows, top, more, gq, fq
    <3> DEFINE first == s.unc[q].head
               least == Len(Whole(s, q))
    <3>9. first <= top /\ least <= Len(more)
      <4>1. first \in Nat /\ first <= head /\ least \in Nat /\ least <= Len(known)
        BY <3>5
      <4> HIDE DEF first, least
      <4> QED
        BY <4>1, <3>1, <3>2, <3>5, <3>7, SMTT(30)
    <3> QED
      BY <3>8, <3>9 DEF top, more
  <2>10. Good(t, i)
    BY <2>3, <2>8, <2>9
  <2> QED
    BY <2>1, <2>10 DEF t
<1>5. n \in S
  <2>1. \A i \in 1 .. n : i - 1 \in S => i \in S
    BY <1>4
  <2> HIDE DEF S
  <2>2. 0 .. n \subseteq S
    BY <1>2, <1>3, <2>1, SetInduction
  <2> QED
    BY <2>2, <1>2
<1> QED
  BY <1>1, <1>5

-----------------------------------------------------------------------------

(***************************************************************************)
(* A frame                                                                 *)
(***************************************************************************)

\* The head all committed streams share.
LEMMA HeadIs ==
  ASSUME NEW s, NEW h \in Nat, StreamsOK(s, h)
  PROVE  GetMaxCommitHead(s) = h /\ InSync(s)
<1>1. \A q \in Players : s.com[q].head = h
  BY DEF StreamsOK, StreamOK
<1>2. (CHOOSE q \in Players : TRUE) \in Players
  BY ConstantsAssumption
<1> QED
  BY <1>1, <1>2 DEF GetMaxCommitHead, InSync

\* The least head of the uncommitted streams.
LEMMA MinIs ==
  ASSUME NEW s, NEW h \in Nat, StreamsOK(s, h)
  PROVE  LET m == MinUncommitHead(s)
         IN  /\ m \in Nat /\ h <= m
             /\ \A q \in Players : m <= s.unc[q].head
             /\ \E q \in Players : m = s.unc[q].head
<1> DEFINE S == {s.unc[q].head : q \in Players}
           m == MinUncommitHead(s)
<1>1. \A q \in Players : s.unc[q].head \in Nat /\ h <= s.unc[q].head
  BY PeerStreams
<1>2. S \in SUBSET Nat /\ S # {}
  BY <1>1, ConstantsAssumption
<1>3. \E x \in S : \A y \in S : x <= y
  <2> HIDE DEF S
  <2> QED
    BY <1>2, Least
<1>4. \E x \in S : \A q \in Players : x <= s.unc[q].head
  BY <1>3
<1>5. m \in S /\ \A q \in Players : m <= s.unc[q].head
  BY <1>4 DEF MinUncommitHead
<1> HIDE DEF m
<1> QED
  BY <1>1, <1>5 DEF m

\* An uncommitted stream whose head is the commit head has no commands.
LEMMA NothingAtHead ==
  ASSUME NEW s, NEW h \in Nat, StreamsOK(s, h)
  PROVE  CanGetFramesReady(s)
<1>1. ASSUME NEW q \in Players, s.unc[q].head = h PROVE ~ HasDataAtHead(s.unc[q])
  <2> DEFINE u == s.unc[q].events
  <2>1. u \in Seq(Commands) /\ Divided(s.com[q].events, u, h, h)
    BY <1>1, PeerStreams
  <2>2. Len(u) \in Nat /\ \A i \in 1 .. Len(u) : u[i].time \in Nat
    BY <2>1, ElementsOf
  <2>3. \A i \in 1 .. Len(u) : h < u[i].time /\ u[i].time <= h
    BY <2>1 DEF Divided
  <2> HIDE DEF u
  <2>4. Len(u) = 0
    <3> SUFFICES ASSUME Len(u) # 0 PROVE FALSE
      OBVIOUS
    <3>1. 1 \in 1 .. Len(u)
      BY <2>2
    <3> QED
      BY <3>1, <2>2, <2>3
  <2>5. u = <<>>
    BY <2>1, <2>4, EmptySeq
  <2> QED
    BY <2>5 DEF HasDataAtHead, u
<1>2. \A q \in Players : s.unc[q].head \in Nat /\ h <= s.unc[q].head
  BY PeerStreams
<1> QED
  BY <1>1, <1>2, HeadIs DEF CanGetFramesReady

\* The streams of a peer at the start of a frame.
Started(p, s, h) ==
  /\ StreamsOK(s, h) /\ frame[p] \in Nat /\ h < frame[p] /\ Local(p) # {}
  /\ \A q \in Local(p) : \/ s.unc[q].head = frame[p] - 1
                         \/ s.unc[q].head = frame[p] /\ mode[p] = "StallSimulation"

\* How far a peer commits before a frame, and how it simulates it.
LEMMA StartIs ==
  ASSUME NEW p \in Peers, NEW s, NEW h \in Nat, Started(p, s, h)
  PROVE  LET last == LastToCommit(s, frame[p])
             now == frame[p]
         IN  /\ last \in Nat /\ h <= last /\ last < now
             /\ CanChooseMode(s, now, mode[p])
             /\ \A q \in Players : last <= s.unc[q].head
             /\ last = h /\ h < now - 1 => \E q \in Players \ Local(p) : s.unc[q].head = h
             /\ SimulationMode(s, now) =
                  IF last > h THEN "RollbackAndSimulate"
                  ELSE IF h = now - 1 \/ now - 1 - h < kMaxRollbackFrames
                    THEN "SingleFrameSimulate" ELSE "StallSimulation"
<1> DEFINE now == frame[p]
           m == MinUncommitHead(s)
           last == LastToCommit(s, now)
<1>1. StreamsOK(s, h) /\ now \in Nat /\ h < now /\ Local(p) # {}
  BY DEF Started
<1>2. GetMaxCommitHead(s) = h
  BY <1>1, HeadIs
<1>3. /\ m \in Nat /\ h <= m
      /\ \A q \in Players : m <= s.unc[q].head
      /\ \E q \in Players : m = s.unc[q].head
  BY <1>1, MinIs
<1>4. CanGetFramesReady(s)
  BY <1>1, NothingAtHead
<1>5. Local(p) \subseteq Players
  BY DEF Local
<1> HIDE DEF m, now
<1>6. \A q \in Local(p) : s.unc[q].head = now - 1 \/ (s.unc[q].head = now /\ mode[p] = "StallSimulation")
  BY DEF Started, now
<1>7. m <= now - 1 \/ (m <= now /\ mode[p] = "StallSimulation")
  <2>1. PICK q \in Local(p) : TRUE
    BY <1>1
  <2> DEFINE head == s.unc[q].head
  <2>2. m <= head /\ (head = now - 1 \/ (head = now /\ mode[p] = "StallSimulation"))
    BY <2>1, <1>3, <1>5, <1>6
  <2> HIDE DEF head
  <2> QED
    BY <2>2, <1>1, <1>3
<1>8. last = IF m = now THEN now - 1 ELSE m
  <2>1. ~ (h >= now)
    BY <1>1
  <2> QED
    BY <2>1, <1>2 DEF LastToCommit, m
<1> HIDE DEF last
<1>9. last \in Nat /\ h <= last /\ last < now /\ last <= m
  BY <1>1, <1>3, <1>7, <1>8
<1>10. CanChooseMode(s, now, mode[p])
  BY <1>1, <1>2, <1>3, <1>4, <1>7 DEF CanChooseMode, m
<1>11. \A q \in Players : last <= s.unc[q].head
  <2> TAKE q \in Players
  <2> DEFINE head == s.unc[q].head
  <2>1. head \in Nat /\ m <= head
    BY <1>1, <1>3, PeerStreams
  <2> HIDE DEF head
  <2>2. last <= head
    BY <2>1, <1>3, <1>9
  <2> QED
    BY <2>2 DEF head
<1>12. last = h /\ h < now - 1 => \E q \in Players \ Local(p) : s.unc[q].head = h
  <2> SUFFICES ASSUME last = h, h < now - 1 PROVE \E q \in Players \ Local(p) : s.unc[q].head = h
    OBVIOUS
  <2>1. m = h
    BY <1>1, <1>3, <1>8
  <2>2. PICK q \in Players : m = s.unc[q].head
    BY <1>3
  <2>3. ~ (q \in Local(p))
    <3> SUFFICES ASSUME q \in Local(p) PROVE FALSE
      OBVIOUS
    <3>1. m = now - 1 \/ m = now
      BY <2>2, <1>6
    <3> QED
      BY <3>1, <2>1, <1>1
  <2> QED
    BY <2>1, <2>2, <2>3
<1>13. SimulationMode(s, now) =
         IF last > h THEN "RollbackAndSimulate"
         ELSE IF h = now - 1 \/ now - 1 - h < kMaxRollbackFrames
           THEN "SingleFrameSimulate" ELSE "StallSimulation"
  <2>1. ~ (h >= now) /\ h < now /\ (last <= h <=> ~ (last > h))
    BY <1>1, <1>9
  <2> QED
    BY <2>1, <1>2 DEF SimulationMode, last
<1> QED
  BY <1>9, <1>10, <1>11, <1>12, <1>13 DEF now, last

\* The streams when the frame is about to be simulated: committed up to a frame,
\* the heads of the peer's own players at the current one.
IsBefore(t, s, p, last) ==
  /\ StreamsOK(t, last)
  /\ t.ok
  /\ \A q \in Players : Whole(t, q) = Whole(s, q)
  /\ \A q \in Local(p) : t.unc[q].head = frame[p]
  /\ \A q \in Players \ Local(p) : t.unc[q].head = s.unc[q].head

\* What BeforeFrame makes of the streams of a peer that does not replay.
LEMMA BeforeIs ==
  ASSUME NEW p \in Peers, NEW com0, NEW unc0, NEW h \in Nat,
         Started(p, [com |-> com0, unc |-> unc0, ok |-> TRUE], h)
  PROVE  LET s == [com |-> com0, unc |-> unc0, ok |-> TRUE]
             last == LastToCommit(s, frame[p])
         IN  IsBefore(BeforeFrame(p, s, FALSE, last), s, p, last)
<1> DEFINE s == [com |-> com0, unc |-> unc0, ok |-> TRUE]
           now == frame[p]
           last == LastToCommit(s, now)
           s1 == [s EXCEPT !.ok = CanChooseMode(s, frame[p], mode[p])]
           s2 == CommitFrames(s1, h, last)
           t == AdvanceLocalControllers(s2, p, last + 1, now)
<1>1. StreamsOK(s, h) /\ now \in Nat /\ h < now
  BY DEF Started
<1>2. /\ last \in Nat /\ h <= last /\ last < now
      /\ CanChooseMode(s, now, mode[p])
      /\ \A q \in Players : last <= s.unc[q].head
  BY StartIs
<1>3. s1.com = s.com /\ s1.unc = s.unc /\ s1.ok
  BY <1>2
<1>4. BeforeFrame(p, s, FALSE, last) = t
  <2>1. GetMaxCommitHead(s) = h
    BY <1>1, HeadIs
  <2> QED
    BY <2>1 DEF BeforeFrame, AdvanceUnless
<1>5. \A q \in Local(p) : s.unc[q].head = now - 1 \/ s.unc[q].head = now
  BY DEF Started
<1> HIDE DEF s, last, s1, now
<1>6. StreamsOK(s1, h)
  BY <1>1, <1>3 DEF StreamsOK
<1>7. /\ StreamsOK(s2, last)
      /\ s2.ok
      /\ \A q \in Players : Whole(s2, q) = Whole(s1, q) /\ s2.unc[q].head = s1.unc[q].head
  <2>1. \A q \in Players : last <= s1.unc[q].head
    BY <1>2, <1>3
  <2> QED
    BY <2>1, <1>2, <1>3, <1>6, CommitKeeps
<1>8. Local(p) \subseteq Players
  BY DEF Local
<1> HIDE DEF s2
<1>9. \A q \in Local(p) : s2.unc[q].head <= now
  <2> TAKE q \in Local(p)
  <2>1. s2.unc[q].head = now - 1 \/ s2.unc[q].head = now
    BY <1>3, <1>5, <1>7, <1>8
  <2> QED
    BY <2>1, <1>1
<1>10. /\ StreamsOK(t, last)
       /\ t.ok
       /\ \A q \in Players : Whole(t, q) = Whole(s2, q)
       /\ \A q \in Local(p) : t.unc[q].head = now
       /\ \A q \in Players \ Local(p) : t.unc[q] = s2.unc[q]
  <2>1. last + 1 \in Nat /\ last + 1 <= last + 1 /\ last + 1 <= now /\ last <= now
    BY <1>1, <1>2, NextFrame, SMTT(30)
  <2> QED
    BY <2>1, <1>1, <1>2, <1>7, <1>9, AdvanceKeeps
<1> HIDE DEF t
<1>11. \A q \in Players : Whole(t, q) = Whole(s, q)
  BY <1>3, <1>7, <1>10 DEF Whole
<1>12. \A q \in Players \ Local(p) : t.unc[q].head = s.unc[q].head
  BY <1>3, <1>7, <1>10
<1>13. BeforeFrame(p, s, FALSE, LastToCommit(s, frame[p])) = t
  BY <1>4 DEF last, now
<1> QED
  BY <1>10, <1>11, <1>12, <1>13 DEF IsBefore, s, last, now

\* The streams when the players have pressed, and when they can be sent.
IsSent(t, ticked, s, p, pressed, last) ==
  /\ StreamsOK(ticked, last)
  /\ StreamsOK(t, last)
  /\ t.ok
  /\ t.com = s.com
  /\ \A q \in Players : Whole(t, q) = Whole(ticked, q)
  /\ \A q \in Local(p) : Whole(t, q) = Whole(s, q) \o Pressed(pressed[q], frame[p])
  /\ \A q \in Players \ Local(p) : Whole(t, q) = Whole(s, q)
  /\ \A q \in Local(p) : t.unc[q].head = frame[p]
  /\ \A q \in Players \ Local(p) : t.unc[q] = s.unc[q]

\* What the frame itself makes of them: its players' commands come last.
LEMMA DuringIs ==
  ASSUME NEW p \in Peers, NEW s, NEW last \in Nat, StreamsOK(s, last), s.ok,
         frame[p] \in Nat, last < frame[p], \A q \in Local(p) : s.unc[q].head = frame[p],
         NEW pressed \in Presses(p)
  PROVE  LET ticked == TickLocalControllers(s, p, frame[p], pressed)
         IN  IsSent(AdvanceUnless(FALSE, ticked, p, last + 1), ticked, s, p, pressed, last)
<1> DEFINE now == frame[p]
           ticked == TickLocalControllers(s, p, now, pressed)
           t == AdvanceLocalControllers(ticked, p, last + 1, now)
<1>1. Local(p) \subseteq Players
  BY DEF Local
<1>2. /\ StreamsOK(ticked, last)
      /\ ticked.ok
      /\ \A q \in Local(p) : Whole(ticked, q) = Whole(s, q) \o Pressed(pressed[q], now)
      /\ \A q \in Local(p) : ticked.unc[q].head = now
      /\ \A q \in Players \ Local(p) : ticked.unc[q] = s.unc[q]
      /\ ticked.com = s.com
  <2>1. \A q \in Local(p) : s.unc[q].head = now
    OBVIOUS
  <2> QED
    <3>1. Ticks(ticked, s, last, p, now, pressed)
      BY <2>1, TickKeeps
    <3> QED
      BY <3>1 DEF Ticks
<1>3. AdvanceUnless(FALSE, ticked, p, last + 1) = t
  BY DEF AdvanceUnless
<1> HIDE DEF ticked
<1>0. now \in Nat /\ last < now
  OBVIOUS
<1>4. /\ StreamsOK(t, last)
      /\ t.ok
      /\ \A q \in Players : Whole(t, q) = Whole(ticked, q)
      /\ \A q \in Local(p) : t.unc[q].head = now
      /\ \A q \in Players \ Local(p) : t.unc[q] = ticked.unc[q]
      /\ t.com = ticked.com
  <2> HIDE DEF now
  <2>1. last + 1 \in Nat /\ last + 1 <= last + 1 /\ last + 1 <= now /\ last <= now
    BY <1>0
  <2>2. \A q \in Local(p) : ticked.unc[q].head <= now
    BY <1>0, <1>2, SMTT(30)
  <2> QED
    BY <2>1, <2>2, <1>0, <1>2, AdvanceKeeps
<1> HIDE DEF t
<1>5. \A q \in Players \ Local(p) : Whole(ticked, q) = Whole(s, q)
  BY <1>2 DEF Whole
<1>6. IsSent(t, ticked, s, p, pressed, last)
  BY <1>1, <1>2, <1>4, <1>5 DEF IsSent
<1> QED
  BY <1>3, <1>6 DEF ticked

\* How a peer's stream of another peer's player stands to what that player has
\* given and to the packs that have not been merged.
Remote(p, s, q, n, from, given) ==
  Follows(s, q, packs[Owner[q]][p], n, from, given, frame[Owner[q]] - 1)

\* What a merge may do to a stream.
Grows(s, t, q) ==
  s.unc[q].head <= t.unc[q].head /\ Len(Whole(s, q)) <= Len(Whole(t, q))

\* What is on its way to a peer.
PacksOK(p) ==
  /\ packs[p][p] = <<>>
  /\ \A src \in Peers : packs[src][p] \in Seq(Packs(src)) /\ frame[src] - 1 \in Nat

\* Merging what has arrived fails no test, leaves the peer's own streams alone
\* and keeps the others in step with their owners and the rest of the packs.
LEMMA ReceiveKeeps ==
  ASSUME NEW p \in Peers, PacksOK(p),
         NEW s, NEW h \in Nat, StreamsOK(s, h), s.ok,
         NEW arrived, \A src \in Peers : arrived[src] \in 0 .. Len(packs[src][p]),
         NEW given \in [Players -> Seq(Commands)], NEW from,
         \A q \in Players \ Local(p) : Ordered(given[q]) /\ Remote(p, s, q, 0, from[q], given[q])
  PROVE  LET t == Receive(p, s, arrived)
         IN  /\ StreamsOK(t, h)
             /\ t.ok
             /\ t.com = s.com
             /\ \A q \in Local(p) : t.unc[q] = s.unc[q]
             /\ \A q \in Players \ Local(p) :
                  Grows(s, t, q) /\ Remote(p, t, q, arrived[Owner[q]], from[q], given[q])
<1> DEFINE t == Receive(p, s, arrived)
           m(src) == ApplyPacks(s, packs[src][p], arrived[src])
<1>1. Owner \in [Players -> Peers]
  BY ConstantsAssumption
<1>2. m(p) = s
  <2>1. packs[p][p] = <<>> /\ arrived[p] \in 0 .. Len(packs[p][p])
    BY DEF PacksOK
  <2>2. arrived[p] = 0
    <3>1. Len(packs[p][p]) = 0
      BY <2>1
    <3> QED
      BY <2>1, <3>1
  <2>3. PICK g : Merges(s, packs[p][p], 0, g)
    BY MergedIs
  <2>4. ApplyPacks(s, packs[p][p], 0) = s
    BY <2>3 DEF Merges
  <2> QED
    BY <2>2, <2>4
<1>3. ASSUME NEW src \in Peers
      PROVE  /\ StreamsOK(m(src), h)
             /\ m(src).ok
             /\ m(src).com = s.com
             /\ \A q \in Local(src) \ Local(p) :
                  /\ Grows(s, m(src), q)
                  /\ Remote(p, m(src), q, arrived[src], from[q], given[q])
  <2>1. CASE src = p
    BY <2>1, <1>2
  <2>2. CASE src # p
    <3> DEFINE queue == packs[src][p]
               n == arrived[src]
               frames == frame[src] - 1
               g == [q \in Local(src) |-> given[q]]
    <3>1. Local(src) \subseteq Players /\ \A q \in Local(src) : Owner[q] = src /\ ~ (q \in Local(p))
      BY <2>2 DEF Local
    <3>2. g \in [Local(src) -> Seq(Commands)]
      BY <3>1
    <3>3. queue \in Seq(Packs(src)) /\ n \in 0 .. Len(queue) /\ frames \in Nat
      BY DEF PacksOK
    <3>4. \A q \in Local(src) : Ordered(g[q]) /\ Follows(s, q, queue, 0, from[q], g[q], frames)
      BY <3>1 DEF Remote
    <3>5. \A q \in Local(src) : g[q] = given[q]
      OBVIOUS
    <3> HIDE DEF queue, n, frames, g
    <3>6. LET x == ApplyPacks(s, queue, n)
          IN  /\ StreamsOK(x, h)
              /\ x.ok
              /\ x.com = s.com
              /\ \A q \in Local(src) :
                   /\ s.unc[q].head <= x.unc[q].head
                   /\ Len(Whole(s, q)) <= Len(Whole(x, q))
                   /\ Follows(x, q, queue, n, from[q], g[q], frames)
      BY <3>2, <3>3, <3>4, MergeQueue
    <3>7. m(src) = ApplyPacks(s, queue, n)
      BY DEF queue, n
    <3> QED
      <4>1. ASSUME NEW q \in Local(src) \ Local(p)
            PROVE  Grows(s, m(src), q) /\ Remote(p, m(src), q, arrived[src], from[q], given[q])
        <5>1. Owner[q] = src /\ g[q] = given[q]
          BY <3>1, <3>5
        <5> QED
          BY <5>1, <3>6, <3>7 DEF Grows, Remote, queue, n, frames
      <4> QED
        BY <4>1, <3>6, <3>7
  <2> QED
    BY <2>1, <2>2
<1>4. /\ t.com = s.com
      /\ t.unc = [q \in Players |-> m(Owner[q]).unc[q]]
      /\ t.ok = (s.ok /\ \A src \in Peers : m(src).ok)
  <2>1. \A src \in Peers : [x \in Peers |-> ApplyPacks(s, packs[x][p], arrived[x])][src] = m(src)
    OBVIOUS
  <2> QED
    BY <2>1, <1>1 DEF Receive
<1>5. t.ok
  BY <1>3, <1>4
<1>6. ASSUME NEW q \in Players
      PROVE  t.unc[q] = m(Owner[q]).unc[q] /\ Whole(t, q) = Whole(m(Owner[q]), q)
             /\ StreamOK(t.com[q], t.unc[q], h)
  <2>1. Owner[q] \in Peers
    BY <1>1
  <2>2. t.unc[q] = m(Owner[q]).unc[q]
    BY <1>4
  <2>3. m(Owner[q]).com = s.com /\ StreamsOK(m(Owner[q]), h)
    BY <2>1, <1>3
  <2>4. StreamOK(m(Owner[q]).com[q], m(Owner[q]).unc[q], h)
    BY <2>3, PeerStreams
  <2> QED
    BY <2>2, <2>3, <2>4, <1>4 DEF Whole
<1>7. t.unc = [q \in Players |-> t.unc[q]]
  BY <1>4
<1> HIDE DEF t, m
<1>8. StreamsOK(t, h)
  <2>1. \A q \in Players : t.unc[q] \in Streams
    BY <1>6 DEF StreamOK
  <2>2. s.com \in [Players -> Streams]
    BY DEF StreamsOK
  <2> QED
    BY <2>1, <2>2, <1>4, <1>6, <1>7 DEF StreamsOK
<1>9. \A q \in Local(p) : t.unc[q] = s.unc[q]
  BY <1>2, <1>6 DEF Local
<1>10. ASSUME NEW q \in Players \ Local(p)
       PROVE  Grows(s, t, q) /\ Remote(p, t, q, arrived[Owner[q]], from[q], given[q])
  <2>1. Owner[q] \in Peers /\ q \in Local(Owner[q]) \ Local(p)
    BY <1>1 DEF Local
  <2>2. Grows(s, m(Owner[q]), q)
        /\ Remote(p, m(Owner[q]), q, arrived[Owner[q]], from[q], given[q])
    BY <2>1, <1>3
  <2> QED
    BY <2>2, <1>6 DEF Grows, Remote, Follows
<1> QED
  BY <1>4, <1>5, <1>8, <1>9, <1>10 DEF t

\* The commit after the frame, and what has arrived.
LEMMA AfterIs ==
  ASSUME NEW p \in Peers, PacksOK(p), frame[p] \in Nat, Local(p) # {},
         NEW s, NEW last \in Nat, StreamsOK(s, last), s.ok, last < frame[p],
         \A q \in Local(p) : s.unc[q].head = frame[p],
         NEW arrived, \A src \in Peers : arrived[src] \in 0 .. Len(packs[src][p]),
         NEW given \in [Players -> Seq(Commands)], NEW from,
         \A q \in Players \ Local(p) : Ordered(given[q]) /\ Remote(p, s, q, 0, from[q], given[q])
  PROVE  LET t == AfterFrame(p, s, FALSE, arrived)
             ready == MinUncommitHead(s)
         IN  /\ ready \in Nat /\ last <= ready /\ ready <= frame[p]
             /\ \A q \in Players : ready <= s.unc[q].head
             /\ StreamsOK(t, ready)
             /\ t.ok
             /\ \A q \in Local(p) : Whole(t, q) = Whole(s, q) /\ t.unc[q].head = frame[p]
             /\ \A q \in Players \ Local(p) :
                  Grows(s, t, q) /\ Remote(p, t, q, arrived[Owner[q]], from[q], given[q])
<1> DEFINE now == frame[p]
           ready == MinUncommitHead(s)
           s1 == [s EXCEPT !.ok = @ /\ CanGetFramesReady(s)]
           s2 == CommitFrames(s1, last, ready)
           s3 == AdvanceLocalControllers(s2, p, ready, now)
           t == Receive(p, s3, arrived)
<1>1. Local(p) \subseteq Players
  BY DEF Local
<1>2. /\ ready \in Nat /\ last <= ready
      /\ \A q \in Players : ready <= s.unc[q].head
  BY MinIs
<1>3. ready <= now
  BY <1>1, <1>2
<1>4. s1.com = s.com /\ s1.unc = s.unc /\ s1.ok
  <2>1. CanGetFramesReady(s)
    BY NothingAtHead
  <2>2. (s.ok /\ CanGetFramesReady(s)) = TRUE
    BY <2>1
  <2>3. s1 = [s EXCEPT !.ok = TRUE]
    BY <2>2
  <2> HIDE DEF ready, now, s1
  <2> QED
    BY <2>3
<1>5. AfterFrame(p, s, FALSE, arrived) = t
  <2>1. GetMaxCommitHead(s) = last
    BY HeadIs
  <2> QED
    BY <2>1 DEF AfterFrame, AdvanceUnless
<1> HIDE DEF s1
<1>6. StreamsOK(s1, last)
  BY <1>4 DEF StreamsOK
<1> HIDE DEF ready
<1>7. /\ StreamsOK(s2, ready)
      /\ s2.ok
      /\ \A q \in Players : Whole(s2, q) = Whole(s1, q) /\ s2.unc[q].head = s1.unc[q].head
  <2>1. \A q \in Players : ready <= s1.unc[q].head
    BY <1>2, <1>4
  <2> QED
    BY <2>1, <1>2, <1>4, <1>6, CommitKeeps, SMTT(30)
<1> HIDE DEF s2
<1>8. \A q \in Local(p) : s2.unc[q].head = now
  BY <1>1, <1>4, <1>7
<1>9. /\ StreamsOK(s3, ready)
      /\ s3.ok
      /\ \A q \in Players : Whole(s3, q) = Whole(s2, q)
      /\ \A q \in Local(p) : s3.unc[q].head = now
      /\ \A q \in Players \ Local(p) : s3.unc[q] = s2.unc[q]
  <2>1. ready <= ready + 1 /\ now \in Nat
    BY <1>2
  <2>2. \A q \in Local(p) : s2.unc[q].head <= now
    BY <1>8
  <2> HIDE DEF now
  <2> QED
    BY <2>1, <2>2, <1>2, <1>3, <1>7, AdvanceKeeps
<1> HIDE DEF s3
<1>10. ASSUME NEW q \in Players
       PROVE  Whole(s3, q) = Whole(s, q) /\ s3.unc[q].head = s.unc[q].head
  <2>1. Whole(s3, q) = Whole(s, q)
    BY <1>4, <1>7, <1>9 DEF Whole
  <2>2. CASE q \in Local(p)
    BY <2>1, <2>2, <1>9
  <2>3. CASE ~ (q \in Local(p))
    BY <2>1, <2>3, <1>4, <1>7, <1>9
  <2> QED
    BY <2>2, <2>3
<1>11. \A q \in Players \ Local(p) : Ordered(given[q]) /\ Remote(p, s3, q, 0, from[q], given[q])
  BY <1>10 DEF Remote, Follows
<1>12. /\ StreamsOK(t, ready)
       /\ t.ok
       /\ t.com = s3.com
       /\ \A q \in Local(p) : t.unc[q] = s3.unc[q]
       /\ \A q \in Players \ Local(p) :
                  Grows(s3, t, q) /\ Remote(p, t, q, arrived[Owner[q]], from[q], given[q])
  BY <1>2, <1>9, <1>11, ReceiveKeeps
<1> HIDE DEF t
<1>13. \A q \in Local(p) : Whole(t, q) = Whole(s, q) /\ t.unc[q].head = now
  <2> TAKE q \in Local(p)
  <2>1. t.unc[q] = s3.unc[q] /\ t.com = s3.com /\ s3.unc[q].head = now /\ q \in Players
    BY <1>1, <1>9, <1>12
  <2>2. Whole(t, q) = Whole(s3, q)
    BY <2>1 DEF Whole
  <2> QED
    BY <2>1, <2>2, <1>10
<1>14. \A q \in Players \ Local(p) : Grows(s, t, q)
  BY <1>10, <1>12 DEF Grows
<1> QED
  BY <1>2, <1>3, <1>5, <1>12, <1>13, <1>14 DEF ready

\* The streams of a peer between two frames.
Here(p) == [com |-> com[p], unc |-> unc[p]]

(***************************************************************************)
(* What a frame of peer p does: when it commits and whether it stalls,     *)
(* what its players press and it sends, what it knows when the packs have  *)
(* been merged, and how the variables change.                              *)
(***************************************************************************)
FrameTimes(p, last, ready, stall) ==
  /\ frame[p] <= MaxFrame
  /\ CommitHead(p) <= last /\ last < frame[p] /\ last <= ready /\ ready <= frame[p]
  /\ last = CommitHead(p) /\ CommitHead(p) < frame[p] - 1 => ready = CommitHead(p)
  /\ stall => last = CommitHead(p) /\ CommitHead(p) < frame[p] - 1
  /\ ~ stall => CommitHead(p) < last \/ frame[p] <= CommitHead(p) + kMaxRollbackFrames

\* When the pack is sent, the peer's players have given what they pressed.
FrameSends(p, pressed, last, sent) ==
  /\ StreamsOK(sent, last)
  /\ \A q \in Local(p) :
       /\ Whole(sent, q) = Given(p, q) \o Pressed(pressed[q], frame[p])
       /\ Len(sent.com[q].events) <= Len(Given(p, q))
       /\ pressed[q] # <<>> => PressAgain \/ At(Given(p, q), frame[p]) = <<>>
  /\ \A q \in Players \ Local(p) : Whole(sent, q) = Given(p, q)

\* When the frame is over, the arrived packs have been merged.
FrameKeeps(p, arrived, ready, sent) ==
  /\ StreamsOK(Here(p)', ready)
  /\ \A q \in Local(p) : Given(p, q)' = Whole(sent, q) /\ unc'[p][q].head = frame[p]
  /\ \A q \in Players \ Local(p) :
       /\ ready <= unc[p][q].head
       /\ Grows(Here(p), Here(p)', q)
       /\ \E from \in [1 .. Len(packs[Owner[q]][p]) -> 0 .. Len(Given(Owner[q], q))] :
            Remote(p, Here(p)', q, arrived[Owner[q]], from, Given(Owner[q], q))

\* How the variables follow from that.
FrameChanges(p, arrived, last, stall, sent) ==
  LET now == frame[p]
      head == CommitHead(p)
      simulated == Simulated(p, IF head < last THEN head .. now - 1 ELSE {}, head)
  IN  /\ com' = [com EXCEPT ![p] = com'[p]]
      /\ unc' = [unc EXCEPT ![p] = unc'[p]]
      /\ sim' = [sim EXCEPT ![p] =
                   [f \in 0 .. MaxFrame |->
                      CASE f = now -> CommandsAt(sent, f)
                        [] f \in (IF head < last THEN head .. now - 1 ELSE {}) ->
                             CommandsAt(Here(p), f)
                        [] OTHER -> sim[p][f]]]
      /\ packs' = Exchange(p, PreparePackForSend(sent, p, IF stall THEN now - 1 ELSE now), arrived)
      /\ failed' = failed
      /\ window' = [window EXCEPT ![p] =
                      IF stall THEN RewindBefore(simulated, now) ELSE simulated]
      /\ mode' = [mode EXCEPT ![p] = mode'[p]]
      /\ mode'[p] \in SimulationModes /\ (stall => mode'[p] = "StallSimulation")
      /\ frame' = [frame EXCEPT ![p] = IF stall THEN now ELSE now + 1]

\* What the invariant says of a peer at the start of a frame.
LEMMA StartOfFrame ==
  ASSUME IInv, EveryPeerPlays, NEW p \in Peers
  PROVE  LET s == [com |-> com[p], unc |-> unc[p], ok |-> TRUE]
         IN  /\ CommitHead(p) \in Nat
             /\ StreamsOK(Here(p), CommitHead(p))
             /\ Started(p, s, CommitHead(p))
             /\ frame[p] \in Nat
             /\ PacksOK(p)
             /\ \A q \in Players : Whole(s, q) = Given(p, q) /\ Whole(Here(p), q) = Given(p, q)
             /\ CanRewind(window[p], CommitHead(p))
<1> DEFINE s == [com |-> com[p], unc |-> unc[p], ok |-> TRUE]
           H == CommitHead(p)
<1>1. /\ StreamsOK(Here(p), H)
      /\ ClockOK(p) /\ WindowOK(p) /\ frame[p] \in Nat
      /\ \A q \in Players : OwnOK(q)
  BY DEF IInv, Rest, Types, Here
<1>2. H \in Nat
  BY <1>1 DEF StreamsOK
<1>3. s.com = com[p] /\ s.unc = unc[p] /\ Here(p).com = com[p] /\ Here(p).unc = unc[p]
  BY DEF Here
<1> HIDE DEF s
<1>4. StreamsOK(s, H)
  BY <1>1, <1>3 DEF StreamsOK
<1>5. \A q \in Local(p) : \/ s.unc[q].head = frame[p] - 1
                          \/ s.unc[q].head = frame[p] /\ mode[p] = "StallSimulation"
  BY <1>1, <1>3 DEF OwnOK, Local
<1>6. Started(p, s, H)
  BY <1>1, <1>4, <1>5 DEF Started, ClockOK, EveryPeerPlays
<1>7. \A q \in Players : Whole(s, q) = Given(p, q) /\ Whole(Here(p), q) = Given(p, q)
  BY <1>3 DEF Whole, Given
<1>8. PacksOK(p)
  <2>1. packs[p][p] = <<>>
    BY DEF IInv, Types
  <2>2. \A src \in Peers : packs[src][p] \in Seq(Packs(src))
    BY DEF IInv, Types
  <2>3. \A src \in Peers : ClockOK(src) /\ frame[src] \in Nat
    BY DEF IInv, Rest
  <2>4. \A src \in Peers : frame[src] - 1 \in Nat
    BY <2>3 DEF ClockOK
  <2> QED
    BY <2>1, <2>2, <2>4 DEF PacksOK
<1>9. CanRewind(window[p], H)
  <2> DEFINE t == IF H = 0 THEN 0 ELSE H - 1
             now == frame[p]
  <2>1. /\ now \in Nat /\ H < now /\ now <= H + (MaxChanges - 3) + 1 /\ MaxChanges \in Nat
    BY <1>1, ConstantsAssumption DEF ClockOK, kMaxRollbackFrames
  <2>2. t \in 0 .. now - 1 /\ now < t + MaxChanges /\ (t < H \/ t = 0)
    <3> HIDE DEF now, H
    <3> QED
      BY <2>1, <1>2
  <2>3. t \in window[p]
    BY <2>2, <1>1 DEF WindowOK
  <2> HIDE DEF t
  <2> QED
    BY <2>2, <2>3 DEF CanRewind
<1> QED
  BY <1>1, <1>2, <1>6, <1>7, <1>8, <1>9 DEF s

\* The packs that arrive are some of those on their way.
LEMMA ArrivedIs ==
  ASSUME NEW p \in Peers, PacksOK(p), NEW arrived \in Arrivals(p)
  PROVE  \A src \in Peers : arrived[src] \in 0 .. Len(packs[src][p])
<1> TAKE src \in Peers
<1> DEFINE most == Max(Range([x \in Peers |-> Len(packs[x][p])]))
<1>1. arrived \in [Peers -> 0 .. most] /\ arrived[src] <= Len(packs[src][p])
  BY DEF Arrivals
<1> HIDE DEF most
<1>2. arrived[src] \in 0 .. most
  BY <1>1
<1>3. arrived[src] \in Int /\ 0 <= arrived[src]
  BY <1>2
<1>4. Len(packs[src][p]) \in Nat
  BY LenProperties DEF PacksOK
<1> QED
  BY <1>1, <1>3, <1>4

\* The frame, its local values computed and its choices named.
LEMMA FrameOf ==
  ASSUME NEW p \in Peers, Frame(p)
  PROVE  LET now == frame[p]
             start == [com |-> com[p], unc |-> unc[p], ok |-> TRUE]
             simulation == SimulationMode(start, now)
             stall == simulation = "StallSimulation"
             first == GetMaxCommitHead(start)
             last == LastToCommit(start, now)
             resimulated == IF simulation = "RollbackAndSimulate" THEN first .. now - 1 ELSE {}
             simulated == Simulated(p, resimulated, first)
             before == BeforeFrame(p, start, FALSE, last)
         IN  simulation # "OnRailsReplay" =>
               /\ now <= MaxFrame
               /\ \E pressed \in Presses(p), arrived \in Arrivals(p) :
                    LET ticked == TickLocalControllers(before, p, now, pressed)
                        sent == AdvanceUnless(FALSE, ticked, p, last + 1)
                        received == AfterFrame(p, sent, FALSE, arrived)
                    IN  /\ MayPress(before, p, now, pressed)
                        /\ com' = [com EXCEPT ![p] = received.com]
                        /\ unc' = [unc EXCEPT ![p] = received.unc]
                        /\ sim' = [sim EXCEPT ![p] =
                                     [f \in 0 .. MaxFrame |->
                                        CASE f = now -> CommandsAt(ticked, f)
                                          [] f \in resimulated -> CommandsAt(before, f)
                                          [] OTHER -> sim[p][f]]]
                        /\ packs' = Exchange(p, PreparePackForSend(sent, p,
                                                   IF stall THEN now - 1 ELSE now), arrived)
                        /\ failed' = [failed EXCEPT ![p] =
                                        \/ ~received.ok
                                        \/ resimulated # {} /\ ~CanRewind(window[p], first)]
               /\ window' = [window EXCEPT ![p] =
                               IF stall THEN RewindBefore(simulated, now) ELSE simulated]
               /\ mode' = [mode EXCEPT ![p] = simulation]
               /\ frame' = [frame EXCEPT ![p] = IF stall THEN now ELSE now + 1]
<1> DEFINE now == frame[p]
           start == [com |-> com[p], unc |-> unc[p], ok |-> TRUE]
           simulation == SimulationMode(start, now)
           replay == simulation = "OnRailsReplay"
           stall == simulation = "StallSimulation"
           first == GetMaxCommitHead(start)
           last == LastToCommit(start, now)
           resimulated == IF simulation = "RollbackAndSimulate" THEN first .. now - 1 ELSE {}
           simulated == Simulated(p, resimulated, first)
           Ticked(s, pressed) == IF replay THEN s ELSE TickLocalControllers(s, p, now, pressed)
           Changes(s, ticked, sent, received, arrived) ==
             /\ com' = [com EXCEPT ![p] = received.com]
             /\ unc' = [unc EXCEPT ![p] = received.unc]
             /\ sim' = [sim EXCEPT ![p] =
                          [f \in 0 .. MaxFrame |->
                             CASE f = now -> CommandsAt(ticked, f)
                               [] f \in resimulated -> CommandsAt(s, f)
                               [] OTHER -> @[f]]]
             /\ packs' = IF replay THEN packs
                         ELSE Exchange(p, PreparePackForSend(sent, p,
                                             IF stall THEN now - 1 ELSE now), arrived)
             /\ failed' = [failed EXCEPT ![p] =
                             \/ ~received.ok
                             \/ resimulated # {} /\ ~CanRewind(window[p], first)]
<1>1. ProcessFrame(p, Arrivals(p))
  BY DEF Frame
<1>2. /\ ~failed[p] /\ now <= MaxFrame
      /\ \E ready \in {BeforeFrame(p, start, replay, last)}, pressed \in Presses(p) :
         /\ MayPress(ready, p, now, pressed)
         /\ \E ticked \in {Ticked(ready, pressed)} :
            \E sent \in {AdvanceUnless(replay, ticked, p, last + 1)} :
            \E arrived \in Arrivals(p) :
            \E received \in {AfterFrame(p, sent, replay, arrived)} :
              Changes(ready, ticked, sent, received, arrived)
      /\ window' = [window EXCEPT ![p] =
                      IF stall THEN RewindBefore(simulated, now) ELSE simulated]
      /\ mode' = [mode EXCEPT ![p] = simulation]
      /\ frame' = [frame EXCEPT ![p] = IF stall THEN now ELSE now + 1]
  BY <1>1, Zenon DEF ProcessFrame
<1> SUFFICES ASSUME ~ replay
             PROVE  \E pressed \in Presses(p), arrived \in Arrivals(p) :
                      LET before == BeforeFrame(p, start, FALSE, last)
                          ticked == TickLocalControllers(before, p, now, pressed)
                          sent == AdvanceUnless(FALSE, ticked, p, last + 1)
                          received == AfterFrame(p, sent, FALSE, arrived)
                      IN  /\ MayPress(before, p, now, pressed)
                          /\ com' = [com EXCEPT ![p] = received.com]
                          /\ unc' = [unc EXCEPT ![p] = received.unc]
                          /\ sim' = [sim EXCEPT ![p] =
                                       [f \in 0 .. MaxFrame |->
                                          CASE f = now -> CommandsAt(ticked, f)
                                            [] f \in resimulated -> CommandsAt(before, f)
                                            [] OTHER -> sim[p][f]]]
                          /\ packs' = Exchange(p, PreparePackForSend(sent, p,
                                                     IF stall THEN now - 1 ELSE now), arrived)
                          /\ failed' = [failed EXCEPT ![p] =
                                          \/ ~received.ok
                                          \/ resimulated # {} /\ ~CanRewind(window[p], first)]
  BY <1>2, Zenon
<1> HIDE DEF Changes, start, last, now, Ticked, replay
<1>3. PICK pressed \in Presses(p), arrived \in Arrivals(p) :
        LET before == BeforeFrame(p, start, replay, last)
            ticked == Ticked(before, pressed)
            sent == AdvanceUnless(replay, ticked, p, last + 1)
        IN  /\ MayPress(before, p, now, pressed)
            /\ Changes(before, ticked, sent, AfterFrame(p, sent, replay, arrived), arrived)
  BY <1>2
<1> DEFINE before == BeforeFrame(p, start, FALSE, last)
           ticked == TickLocalControllers(before, p, now, pressed)
           sent == AdvanceUnless(FALSE, ticked, p, last + 1)
           received == AfterFrame(p, sent, FALSE, arrived)
<1>4. BeforeFrame(p, start, replay, last) = before
  BY DEF BeforeFrame, AdvanceUnless
<1>5. Ticked(before, pressed) = ticked
  BY DEF Ticked
<1>6. AdvanceUnless(replay, ticked, p, last + 1) = sent
  BY DEF AdvanceUnless
<1>7. AfterFrame(p, sent, replay, arrived) = received
  BY DEF AfterFrame, AdvanceUnless
<1> HIDE DEF before, ticked, sent, received
<1>8. MayPress(before, p, now, pressed) /\ Changes(before, ticked, sent, received, arrived)
  BY <1>3, <1>4, <1>5, <1>6, <1>7
<1> QED
  BY <1>8, Zenon DEF Changes, before, ticked, sent, received

\* Where the invariant places the streams of the other peers' players.
LEMMA RemoteStreams ==
  ASSUME IInv, NEW p \in Peers
  PROVE  /\ \A q \in Players :
              /\ Given(Owner[q], q) \in Seq(Commands) /\ Ordered(Given(Owner[q], q))
              /\ Len(Given(Owner[q], q)) \in Nat
         /\ \A q \in Players \ Local(p) :
              \E from \in [1 .. Len(packs[Owner[q]][p]) -> 0 .. Len(Given(Owner[q], q))] :
                Remote(p, Here(p), q, 0, from, Given(Owner[q], q))
<1>1. Owner \in [Players -> Peers]
  BY ConstantsAssumption
<1>2. ASSUME NEW q \in Players
      PROVE  /\ Given(Owner[q], q) \in Seq(Commands) /\ Ordered(Given(Owner[q], q))
             /\ Len(Given(Owner[q], q)) \in Nat
  <2> DEFINE r == Owner[q]
  <2>1. r \in Peers
    BY <1>1
  <2> HIDE DEF r
  <2>2. StreamsOK(Here(r), CommitHead(r)) /\ CommitHead(r) \in Nat
    BY <2>1 DEF IInv, Rest, Here, StreamsOK
  <2>3. Whole(Here(r), q) \in Seq(Commands) /\ Ordered(Whole(Here(r), q)) /\ Len(Whole(Here(r), q)) \in Nat
    BY <2>2, WholeIs
  <2>4. Whole(Here(r), q) = Given(r, q)
    BY DEF Whole, Here, Given
  <2> QED
    BY <2>3, <2>4 DEF r
<1>3. ASSUME NEW q \in Players \ Local(p)
      PROVE  \E from \in [1 .. Len(packs[Owner[q]][p]) -> 0 .. Len(Given(Owner[q], q))] :
                Remote(p, Here(p), q, 0, from, Given(Owner[q], q))
  <2>1. RemoteOK(p, q)
    BY <1>1 DEF IInv, Rest, Local
  <2>2. Whole(Here(p), q) = Given(p, q) /\ Here(p).unc = unc[p]
    BY DEF Whole, Here, Given
  <2>3. PICK from \in [1 .. Len(packs[Owner[q]][p]) -> 0 .. Len(Given(Owner[q], q))] :
          Carries(packs[Owner[q]][p], 0, q, from, unc[p][q].head, Given(p, q),
                  Given(Owner[q], q), frame[Owner[q]] - 1)
    BY <2>1 DEF RemoteOK
  <2>4. /\ KnowsAllUpTo(unc[p][q].head, Given(p, q), Given(Owner[q], q))
        /\ Reached(unc[p][q].head, Given(p, q), frame[Owner[q]] - 1)
    BY <2>1 DEF RemoteOK
  <2>5. Remote(p, Here(p), q, 0, from, Given(Owner[q], q))
    BY <2>2, <2>3, <2>4 DEF Remote, Follows
  <2> QED
    BY <2>5
<1> QED
  BY <1>2, <1>3

\* What a frame does.
LEMMA FrameDoes ==
  ASSUME IInv, EveryPeerPlays, NEW p \in Peers, Frame(p)
  PROVE  \E pressed \in Presses(p), arrived \in Arrivals(p),
            last \in Nat, ready \in Nat, stall \in BOOLEAN : \E sent :
           /\ FrameTimes(p, last, ready, stall)
           /\ FrameSends(p, pressed, last, sent)
           /\ FrameKeeps(p, arrived, ready, sent)
           /\ FrameChanges(p, arrived, last, stall, sent)
<1> DEFINE now == frame[p]
           H == CommitHead(p)
           start == [com |-> com[p], unc |-> unc[p], ok |-> TRUE]
           simulation == SimulationMode(start, now)
           stall == simulation = "StallSimulation"
           last == LastToCommit(start, now)
           first == GetMaxCommitHead(start)
           resimulated == IF simulation = "RollbackAndSimulate" THEN first .. now - 1 ELSE {}
           simulated == Simulated(p, resimulated, first)
           before == BeforeFrame(p, start, FALSE, last)
<1>1. /\ H \in Nat /\ now \in Nat
      /\ Started(p, start, H)
      /\ PacksOK(p)
      /\ \A q \in Players : Whole(start, q) = Given(p, q) /\ Whole(Here(p), q) = Given(p, q)
      /\ CanRewind(window[p], H)
  BY StartOfFrame
<1>2. StreamsOK(start, H) /\ H < now /\ Local(p) # {}
  BY <1>1 DEF Started
<1>3. GetMaxCommitHead(start) = H
  BY <1>1, <1>2, HeadIs
<1>4. /\ last \in Nat /\ H <= last /\ last < now
      /\ CanChooseMode(start, now, mode[p])
      /\ \A q \in Players : last <= start.unc[q].head
      /\ last = H /\ H < now - 1 => \E q \in Players \ Local(p) : start.unc[q].head = H
      /\ simulation =
           IF last > H THEN "RollbackAndSimulate"
           ELSE IF H = now - 1 \/ now - 1 - H < kMaxRollbackFrames
             THEN "SingleFrameSimulate" ELSE "StallSimulation"
  BY <1>1, StartIs
<1>5. /\ StreamsOK(before, last)
      /\ before.ok
      /\ \A q \in Players : Whole(before, q) = Whole(start, q)
      /\ \A q \in Local(p) : before.unc[q].head = frame[p]
      /\ \A q \in Players \ Local(p) : before.unc[q].head = start.unc[q].head
  <2>1. Started(p, start, H) /\ H \in Nat
    BY <1>1
  <2> DEFINE com0 == com[p]
             unc0 == unc[p]
             s == [com |-> com0, unc |-> unc0, ok |-> TRUE]
  <2>2. start = s
    OBVIOUS
  <2> HIDE DEF com0, unc0, H
  <2>3. IsBefore(BeforeFrame(p, s, FALSE, LastToCommit(s, frame[p])), s, p, LastToCommit(s, frame[p]))
    BY <2>1, <2>2, BeforeIs
  <2> QED
    BY <2>2, <2>3, ZenonT(60) DEF IsBefore
<1>6. simulation # "OnRailsReplay" /\ (simulation = "RollbackAndSimulate" <=> H < last)
      /\ (stall <=> ~ (H < last) /\ ~ (H = now - 1 \/ now - 1 - H < kMaxRollbackFrames))
      /\ simulation \in SimulationModes
  <2> HIDE DEF simulation, now, H, last
  <2> QED
    BY <1>1, <1>4 DEF SimulationModes
<1> HIDE DEF simulation, last, H, before, start
<1>7. /\ now <= MaxFrame
      /\ \E pressed \in Presses(p), arrived \in Arrivals(p) :
           LET ticked == TickLocalControllers(before, p, now, pressed)
               sent == AdvanceUnless(FALSE, ticked, p, last + 1)
               received == AfterFrame(p, sent, FALSE, arrived)
           IN  /\ MayPress(before, p, now, pressed)
               /\ com' = [com EXCEPT ![p] = received.com]
               /\ unc' = [unc EXCEPT ![p] = received.unc]
               /\ sim' = [sim EXCEPT ![p] =
                            [f \in 0 .. MaxFrame |->
                               CASE f = now -> CommandsAt(ticked, f)
                                 [] f \in resimulated -> CommandsAt(before, f)
                                 [] OTHER -> sim[p][f]]]
               /\ packs' = Exchange(p, PreparePackForSend(sent, p,
                                          IF stall THEN now - 1 ELSE now), arrived)
               /\ failed' = [failed EXCEPT ![p] =
                               \/ ~received.ok
                               \/ resimulated # {} /\ ~CanRewind(window[p], first)]
      /\ window' = [window EXCEPT ![p] =
                      IF stall THEN RewindBefore(simulated, now) ELSE simulated]
      /\ mode' = [mode EXCEPT ![p] = simulation]
      /\ frame' = [frame EXCEPT ![p] = IF stall THEN now ELSE now + 1]
  BY <1>6, FrameOf, Zenon DEF start, simulation, last, before
<1>8. PICK pressed \in Presses(p), arrived \in Arrivals(p) :
           LET ticked == TickLocalControllers(before, p, now, pressed)
               sent == AdvanceUnless(FALSE, ticked, p, last + 1)
               received == AfterFrame(p, sent, FALSE, arrived)
           IN  /\ MayPress(before, p, now, pressed)
               /\ com' = [com EXCEPT ![p] = received.com]
               /\ unc' = [unc EXCEPT ![p] = received.unc]
               /\ sim' = [sim EXCEPT ![p] =
                            [f \in 0 .. MaxFrame |->
                               CASE f = now -> CommandsAt(ticked, f)
                                 [] f \in resimulated -> CommandsAt(before, f)
                                 [] OTHER -> sim[p][f]]]
               /\ packs' = Exchange(p, PreparePackForSend(sent, p,
                                          IF stall THEN now - 1 ELSE now), arrived)
               /\ failed' = [failed EXCEPT ![p] =
                               \/ ~received.ok
                               \/ resimulated # {} /\ ~CanRewind(window[p], first)]
  BY <1>7, Zenon
<1> DEFINE ticked == TickLocalControllers(before, p, now, pressed)
           sent == AdvanceUnless(FALSE, ticked, p, last + 1)
           received == AfterFrame(p, sent, FALSE, arrived)
           ready == MinUncommitHead(sent)
           given == [q \in Players |-> Given(Owner[q], q)]
           from == [q \in Players \ Local(p) |->
                      CHOOSE f \in [1 .. Len(packs[Owner[q]][p]) -> 0 .. Len(Given(Owner[q], q))] :
                        Remote(p, Here(p), q, 0, f, Given(Owner[q], q))]
<1>9. /\ StreamsOK(ticked, last)
      /\ StreamsOK(sent, last)
      /\ sent.ok
      /\ sent.com = before.com
      /\ \A q \in Players : Whole(sent, q) = Whole(ticked, q)
      /\ \A q \in Local(p) : Whole(sent, q) = Whole(before, q) \o Pressed(pressed[q], now)
      /\ \A q \in Players \ Local(p) : Whole(sent, q) = Whole(before, q)
      /\ \A q \in Local(p) : sent.unc[q].head = now
      /\ \A q \in Players \ Local(p) : sent.unc[q] = before.unc[q]
  <2>1. StreamsOK(before, last) /\ before.ok /\ last \in Nat /\ last < now /\ now \in Nat
    BY <1>1, <1>4, <1>5
  <2>2. \A q \in Local(p) : before.unc[q].head = now
    BY <1>5
  <2>3. IsSent(sent, ticked, before, p, pressed, last)
    BY <2>1, <2>2, DuringIs
  <2> HIDE DEF sent, ticked
  <2> QED
    BY <2>3 DEF IsSent
<1>10. \A q \in Players \ Local(p) :
         /\ from[q] \in [1 .. Len(packs[Owner[q]][p]) -> 0 .. Len(Given(Owner[q], q))]
         /\ Remote(p, Here(p), q, 0, from[q], Given(Owner[q], q))
  BY RemoteStreams
<1>11. /\ given \in [Players -> Seq(Commands)]
       /\ \A q \in Players : Ordered(given[q])
       /\ \A q \in Players : given[q] = Given(Owner[q], q)
  BY RemoteStreams
<1> HIDE DEF ticked, sent, received, ready, from, given
<1>12. \A q \in Players : Whole(before, q) = Given(p, q)
  BY <1>1, <1>5
<1>13. ASSUME NEW q \in Players \ Local(p)
       PROVE  /\ Whole(sent, q) = Given(p, q) /\ Whole(Here(p), q) = Given(p, q)
              /\ sent.unc[q].head = unc[p][q].head /\ Here(p).unc = unc[p]
              /\ start.unc[q].head = unc[p][q].head
  <2>1. Here(p).unc = unc[p] /\ start.unc = unc[p]
    BY DEF Here, start
  <2> QED
    BY <2>1, <1>1, <1>5, <1>9, <1>12
<1>14. \A q \in Players \ Local(p) : Ordered(given[q]) /\ Remote(p, sent, q, 0, from[q], given[q])
  BY <1>10, <1>11, <1>13 DEF Remote, Follows
<1>15. /\ ready \in Nat /\ last <= ready /\ ready <= now
       /\ \A q \in Players : ready <= sent.unc[q].head
       /\ StreamsOK(received, ready)
       /\ received.ok
       /\ \A q \in Local(p) : Whole(received, q) = Whole(sent, q) /\ received.unc[q].head = now
       /\ \A q \in Players \ Local(p) :
            Grows(sent, received, q)
            /\ Remote(p, received, q, arrived[Owner[q]], from[q], given[q])
  <2>1. \A src \in Peers : arrived[src] \in 0 .. Len(packs[src][p])
    BY <1>1, ArrivedIs
  <2>2. /\ PacksOK(p) /\ frame[p] \in Nat /\ Local(p) # {} /\ last \in Nat
        /\ StreamsOK(sent, last) /\ sent.ok /\ last < frame[p]
        /\ \A q \in Local(p) : sent.unc[q].head = frame[p]
    BY <1>1, <1>2, <1>4, <1>9
  <2>3. given \in [Players -> Seq(Commands)]
    BY <1>11
  <2> HIDE DEF now
  <2> QED
    BY <2>1, <2>2, <2>3, <1>14, AfterIs DEF received, ready, now
<1>16. com'[p] = received.com /\ unc'[p] = received.unc
  BY <1>8 DEF IInv, Types, received, sent, ticked
<1>17. (Here(p)').com = received.com /\ (Here(p)').unc = received.unc
       /\ Here(p)' = [com |-> received.com, unc |-> received.unc]
  BY <1>16 DEF Here
<1>18. FrameTimes(p, last, ready, stall)
  <2>1. last = H /\ H < now - 1 => ready = H
    <3> SUFFICES ASSUME last = H, H < now - 1 PROVE ready = H
      OBVIOUS
    <3>1. PICK q \in Players \ Local(p) : start.unc[q].head = H
      BY <1>4
    <3>2. ready <= H
      BY <3>1, <1>13, <1>15
    <3> QED
      BY <3>2, <1>1, <1>4, <1>15
  <2>2. kMaxRollbackFrames \in Nat /\ kMaxRollbackFrames >= 1
    BY ConstantsAssumption DEF kMaxRollbackFrames
  <2>3. stall => last = H /\ H < now - 1
    <3> HIDE DEF stall, now
    <3> QED
      BY <2>2, <1>1, <1>2, <1>4, <1>6
  <2>4. ~ stall => H < last \/ now <= H + kMaxRollbackFrames
    <3> HIDE DEF stall, now
    <3> QED
      BY <2>2, <1>1, <1>2, <1>4, <1>6
  <2>5. now <= MaxFrame /\ H <= last /\ last < now /\ last <= ready /\ ready <= now
    BY <1>4, <1>7, <1>15
  <2> QED
    BY <2>1, <2>3, <2>4, <2>5 DEF FrameTimes, H
<1>19. FrameSends(p, pressed, last, sent)
  <2>1. ASSUME NEW q \in Local(p)
        PROVE  /\ Whole(sent, q) = Given(p, q) \o Pressed(pressed[q], now)
               /\ Len(sent.com[q].events) <= Len(Given(p, q))
               /\ pressed[q] # <<>> => PressAgain \/ At(Given(p, q), now) = <<>>
    <3>0. q \in Players
      BY DEF Local
    <3>1. Whole(before, q) = Given(p, q)
      BY <3>0, <1>12
    <3>2. Len(before.com[q].events) <= Len(Whole(before, q))
      <4>1. /\ Len(Whole(before, q)) = Len(before.com[q].events) + Len(before.unc[q].events)
            /\ Len(before.com[q].events) \in Nat /\ Len(before.unc[q].events) \in Nat
        BY <3>0, <1>4, <1>5, WholeIs
      <4> DEFINE x == Len(before.com[q].events)
                 y == Len(before.unc[q].events)
      <4>2. x \in Nat /\ y \in Nat /\ Len(Whole(before, q)) = x + y
        BY <4>1
      <4> HIDE DEF x, y
      <4>3. x <= Len(Whole(before, q))
        BY <4>2
      <4> QED
        BY <4>3 DEF x
    <3>3. pressed[q] # <<>> => PressAgain \/ At(Given(p, q), now) = <<>>
      BY <3>1, <1>8 DEF MayPress, Whole
    <3> QED
      BY <3>1, <3>2, <3>3, <1>9
  <2> QED
    BY <2>1, <1>9, <1>13 DEF FrameSends
<1>20. FrameKeeps(p, arrived, ready, sent)
  <2>1. StreamsOK(Here(p)', ready)
    BY <1>15, <1>17 DEF StreamsOK
  <2>2. \A q \in Players : Whole(Here(p)', q) = Whole(received, q) /\ Given(p, q)' = Whole(received, q)
    BY <1>16, <1>17 DEF Whole, Given
  <2>3. \A q \in Local(p) : Given(p, q)' = Whole(sent, q) /\ unc'[p][q].head = now
    <3> TAKE q \in Local(p)
    <3>1. q \in Players
      BY DEF Local
    <3> QED
      BY <3>1, <2>2, <1>15, <1>16
  <2>4. ASSUME NEW q \in Players \ Local(p)
        PROVE  /\ ready <= unc[p][q].head
               /\ Grows(Here(p), Here(p)', q)
               /\ Remote(p, Here(p)', q, arrived[Owner[q]], from[q], Given(Owner[q], q))
    <3>1. Grows(sent, received, q) /\ Remote(p, received, q, arrived[Owner[q]], from[q], given[q])
      BY <1>15
    <3>2. Grows(Here(p), Here(p)', q)
      BY <3>1, <2>2, <1>13, <1>17 DEF Grows
    <3>3. Remote(p, Here(p)', q, arrived[Owner[q]], from[q], Given(Owner[q], q))
      BY <3>1, <2>2, <1>11, <1>17 DEF Remote, Follows
    <3>4. ready <= unc[p][q].head
      BY <1>13, <1>15
    <3> QED
      BY <3>2, <3>3, <3>4
  <2> QED
    BY <2>1, <2>3, <2>4, <1>10 DEF FrameKeeps
<1> DEFINE resim == IF H < last THEN H .. now - 1 ELSE {}
<1>21. resimulated = resim /\ simulated = Simulated(p, resim, H)
  <2>1. resimulated = resim
    BY <1>3, <1>6, SMTT(30)
  <2> HIDE DEF resimulated, resim
  <2> QED
    BY <2>1, <1>3
<1>22. \A f : CommandsAt(ticked, f) = CommandsAt(sent, f) /\ CommandsAt(before, f) = CommandsAt(Here(p), f)
  <2>1. \A q \in Players : Whole(ticked, q) = Whole(sent, q) /\ Whole(before, q) = Whole(Here(p), q)
    BY <1>1, <1>9, <1>12
  <2> QED
    BY <2>1 DEF CommandsAt, Whole
<1>23. FrameChanges(p, arrived, last, stall, sent)
  <2>1. com' = [com EXCEPT ![p] = com'[p]] /\ unc' = [unc EXCEPT ![p] = unc'[p]]
    BY <1>8, <1>16 DEF received, sent, ticked
  <2>2. sim' = [sim EXCEPT ![p] =
                            [f \in 0 .. MaxFrame |->
                               CASE f = now -> CommandsAt(ticked, f)
                                 [] f \in resimulated -> CommandsAt(before, f)
                                 [] OTHER -> sim[p][f]]]
    BY <1>8, Zenon DEF ticked
  <2>3. sim' = [sim EXCEPT ![p] =
                            [f \in 0 .. MaxFrame |->
                               CASE f = now -> CommandsAt(sent, f)
                                 [] f \in resim -> CommandsAt(Here(p), f)
                                 [] OTHER -> sim[p][f]]]
    <3> HIDE DEF resim, resimulated, now
    <3>1. ASSUME NEW f \in 0 .. MaxFrame
          PROVE  (CASE f = now -> CommandsAt(ticked, f)
                    [] f \in resimulated -> CommandsAt(before, f)
                    [] OTHER -> sim[p][f])
                 = (CASE f = now -> CommandsAt(sent, f)
                      [] f \in resim -> CommandsAt(Here(p), f)
                      [] OTHER -> sim[p][f])
      <4>1. /\ CommandsAt(ticked, f) = CommandsAt(sent, f)
            /\ CommandsAt(before, f) = CommandsAt(Here(p), f)
            /\ resimulated = resim
        BY <1>21, <1>22
      <4> QED
        BY <4>1
    <3> QED
      BY <2>2, <3>1
  <2>4. packs' = Exchange(p, PreparePackForSend(sent, p, IF stall THEN now - 1 ELSE now), arrived)
    BY <1>8, Zenon DEF sent, ticked
  <2>5. failed' = failed
    <3>1. failed' = [failed EXCEPT ![p] =
                               \/ ~received.ok
                               \/ resimulated # {} /\ ~CanRewind(window[p], first)]
      BY <1>8, Zenon DEF received, sent, ticked
    <3>2. (\/ ~received.ok
           \/ resimulated # {} /\ ~CanRewind(window[p], first)) = FALSE
      BY <1>1, <1>3, <1>15
    <3>3. failed' = [failed EXCEPT ![p] = FALSE]
      BY <3>1, <3>2, Zenon
    <3>4. failed = [x \in Peers |-> FALSE]
      BY DEF IInv, Types
    <3> QED
      BY <3>3, <3>4
  <2>6. window' = [window EXCEPT ![p] =
                      IF stall THEN RewindBefore(Simulated(p, resim, H), now) ELSE Simulated(p, resim, H)]
    BY <1>7, <1>21, Zenon
  <2>7. mode' = [mode EXCEPT ![p] = simulation] /\ mode'[p] = simulation
    BY <1>7 DEF IInv, Types
  <2>8. frame' = [frame EXCEPT ![p] = IF stall THEN now ELSE now + 1]
    BY <1>7
  <2>9. mode'[p] \in SimulationModes /\ (stall => mode'[p] = "StallSimulation")
        /\ mode' = [mode EXCEPT ![p] = mode'[p]]
    BY <2>7, <1>6
  <2> HIDE DEF now, stall
  <2> QED
    BY <2>1, <2>3, <2>4, <2>5, <2>6, <2>8, <2>9, Zenon DEF FrameChanges, resim, H, now
<1> QED
  <2>1. stall \in BOOLEAN
    OBVIOUS
  <2> QED
    BY <2>1, <1>4, <1>15, <1>18, <1>19, <1>20, <1>23, Zenon

-----------------------------------------------------------------------------

(***************************************************************************)
(* A frame keeps the invariant                                             *)
(***************************************************************************)
FrameIs(p, pressed, arrived, last, ready, stall, sent) ==
  /\ FrameTimes(p, last, ready, stall)
  /\ FrameSends(p, pressed, last, sent)
  /\ FrameKeeps(p, arrived, ready, sent)
  /\ FrameChanges(p, arrived, last, stall, sent)

\* What a frame leaves alone.
LEMMA Elsewhere ==
  ASSUME IInv, NEW p \in Peers, NEW pressed, NEW arrived, NEW last, NEW ready, NEW stall, NEW sent,
         FrameIs(p, pressed, arrived, last, ready, stall, sent), NEW x \in Peers \ {p}
  PROVE  /\ com'[x] = com[x] /\ unc'[x] = unc[x] /\ sim'[x] = sim[x]
         /\ window'[x] = window[x] /\ mode'[x] = mode[x] /\ frame'[x] = frame[x]
         /\ CommitHead(x)' = CommitHead(x) /\ Here(x)' = Here(x)
         /\ \A q \in Players : Given(x, q)' = Given(x, q)
<1>1. /\ com'[x] = com[x] /\ unc'[x] = unc[x] /\ sim'[x] = sim[x]
      /\ window'[x] = window[x] /\ mode'[x] = mode[x] /\ frame'[x] = frame[x]
  BY DEF IInv, Types, FrameIs, FrameChanges
<1> QED
  BY <1>1 DEF CommitHead, GetMaxCommitHead, Here, Given

\* The streams of the peer itself.
LEMMA NewStreams ==
  ASSUME IInv, NEW p \in Peers, NEW pressed, NEW arrived, NEW last \in Nat, NEW ready \in Nat,
         NEW stall \in BOOLEAN, NEW sent, FrameIs(p, pressed, arrived, last, ready, stall, sent)
  PROVE  /\ StreamsOK(Here(p)', ready)
         /\ CommitHead(p)' = ready
         /\ com'[p] \in [Players -> Streams] /\ unc'[p] \in [Players -> Streams]
         /\ frame'[p] = IF stall THEN frame[p] ELSE frame[p] + 1
         /\ \A q \in Players : Whole(Here(p)', q) = Given(p, q)'
         /\ \A q \in Players : (Here(p)').unc[q].head = unc'[p][q].head
<1>1. StreamsOK(Here(p)', ready)
  BY DEF FrameIs, FrameKeeps
<1>2. (Here(p)').com = com'[p] /\ (Here(p)').unc = unc'[p]
  BY DEF Here
<1>3. GetMaxCommitHead(Here(p)') = ready
  BY <1>1, HeadIs
<1>4. CommitHead(p)' = ready
  BY <1>2, <1>3 DEF CommitHead, GetMaxCommitHead
<1>5. com'[p] \in [Players -> Streams] /\ unc'[p] \in [Players -> Streams]
  BY <1>1, <1>2 DEF StreamsOK
<1>6. frame'[p] = IF stall THEN frame[p] ELSE frame[p] + 1
  BY DEF IInv, Types, FrameIs, FrameChanges
<1>7. \A q \in Players : Whole(Here(p)', q) = Given(p, q)'
  BY <1>2 DEF Whole, Given
<1> QED
  BY <1>1, <1>2, <1>4, <1>5, <1>6, <1>7

\* The clock.
LEMMA ClockKept ==
  ASSUME IInv, NEW p \in Peers, NEW pressed, NEW arrived, NEW last \in Nat, NEW ready \in Nat,
         NEW stall \in BOOLEAN, NEW sent, FrameIs(p, pressed, arrived, last, ready, stall, sent)
  PROVE  ClockOK(p)' /\ frame'[p] \in Nat
<1> DEFINE now == frame[p]
           H == CommitHead(p)
           k == kMaxRollbackFrames
<1>1. /\ 1 <= now /\ now <= MaxFrame + 1 /\ H < now /\ now <= H + k + 1 /\ now \in Nat
  BY DEF IInv, Rest, ClockOK
<1>2. H \in Nat
  BY DEF IInv, Rest, StreamsOK
<1>3. FrameTimes(p, last, ready, stall)
  BY DEF FrameIs
<1>4. CommitHead(p)' = ready /\ frame'[p] = IF stall THEN now ELSE now + 1
  BY NewStreams
<1>5. k \in Nat /\ k >= 1 /\ MaxFrame \in Nat
  BY ConstantsAssumption DEF kMaxRollbackFrames
<1>6. /\ now <= MaxFrame
      /\ H <= last /\ last < now /\ last <= ready /\ ready <= now
      /\ last = H /\ H < now - 1 => ready = H
      /\ stall => last = H /\ H < now - 1
      /\ ~ stall => H < last \/ now <= H + k
  BY <1>3 DEF FrameTimes
<1> DEFINE next == IF stall THEN now ELSE now + 1
<1> HIDE DEF now, H, k
<1>7. 1 <= next /\ next <= MaxFrame + 1 /\ ready < next /\ next <= ready + k + 1 /\ next \in Nat
  <2>1. CASE stall
    BY <2>1, <1>1, <1>2, <1>5, <1>6
  <2>2. CASE ~ stall
    BY <2>2, <1>1, <1>2, <1>5, <1>6
  <2> QED
    BY <2>1, <2>2
<1>8. frame'[p] = next
  BY <1>4
<1> HIDE DEF next
<1> QED
  BY <1>4, <1>7, <1>8 DEF ClockOK, k, kMaxRollbackFrames

\* The window.
LEMMA WindowKept ==
  ASSUME IInv, NEW p \in Peers, NEW pressed, NEW arrived, NEW last \in Nat, NEW ready \in Nat,
         NEW stall \in BOOLEAN, NEW sent, FrameIs(p, pressed, arrived, last, ready, stall, sent)
  PROVE  WindowOK(p)'
<1> DEFINE now == frame[p]
           H == CommitHead(p)
           W == window[p]
           resim == IF H < last THEN H .. now - 1 ELSE {}
           all == {now} \cup resim \cup (IF resim = {} THEN W ELSE RewindBefore(W, H))
           kept == KeepNewest(all)
           next == IF stall THEN now ELSE now + 1
<1>1. /\ now \in Nat /\ 1 <= now /\ H < now
      /\ \A t \in W : t < now
      /\ \A t \in 0 .. now - 1 : now < t + MaxChanges => t \in W
      /\ W \in SUBSET Nat
  BY DEF IInv, Types, Rest, ClockOK, WindowOK
<1>2. H \in Nat
  BY DEF IInv, Rest, StreamsOK
<1>3. FrameTimes(p, last, ready, stall)
  BY DEF FrameIs
<1>4. frame'[p] = next
  BY NewStreams
<1>5. window'[p] = IF stall THEN RewindBefore(kept, now) ELSE kept
  BY DEF FrameIs, FrameChanges, Simulated, IInv, Types
<1>6. MaxChanges \in Nat /\ MaxChanges > 3
  BY ConstantsAssumption
<1>7. last < now /\ (stall => last = H)
  BY <1>3 DEF FrameTimes
<1> HIDE DEF now, H, W
<1>8. \A t \in all : t \in Nat /\ t <= now
  BY <1>1, <1>2 DEF RewindBefore
<1>9. ASSUME NEW t \in 0 .. now, now + 1 < t + MaxChanges \/ (t # now /\ ~ (H < last) /\ now < t + MaxChanges)
      PROVE  t \in all
  <2>1. CASE t = now
    BY <2>1
  <2>2. CASE t # now
    <3>1. t \in 0 .. now - 1 /\ now < t + MaxChanges
      BY <2>2, <1>1, <1>6, <1>9
    <3>2. t \in W
      BY <3>1, <1>1
    <3>3. CASE H < last
      <4>1. resim = H .. now - 1 /\ H \in resim
        BY <3>3, <1>1, <1>2
      <4>2. t \in H .. now - 1 \/ t < H
        BY <3>1, <1>1, <1>2
      <4> QED
        BY <3>2, <4>1, <4>2 DEF RewindBefore
    <3>4. CASE ~ (H < last)
      BY <3>2, <3>4
    <3> QED
      BY <3>3, <3>4
  <2> QED
    BY <2>1, <2>2
<1>10. ASSUME NEW t \in all, now < t + MaxChanges PROVE t \in kept
  <2> DEFINE later == {u \in all : u > t}
  <2>1. later \subseteq t + 1 .. now
    <3> HIDE DEF all
    <3> QED
      BY <1>1, <1>8
  <2>2. t \in Nat /\ t <= now
    BY <1>8
  <2> HIDE DEF all, later
  <2>3. IsFiniteSet(t + 1 .. now) /\ Cardinality(t + 1 .. now) = now - t
    <3>1. t + 1 \in Int /\ now \in Int
      BY <2>2, <1>1
    <3>2. IsFiniteSet(t + 1 .. now)
      BY <3>1, FS_Interval
    <3>3. Cardinality(t + 1 .. now) = now - t
      BY <2>2, <1>1, IntervalSize
    <3> QED
      BY <3>2, <3>3
  <2>4. Cardinality(later) <= now - t /\ Cardinality(later) \in Nat
    <3>1. IsFiniteSet(later) /\ Cardinality(later) <= Cardinality(t + 1 .. now)
      BY <2>1, <2>3, FS_Subset
    <3>2. Cardinality(later) \in Nat
      BY <3>1, FS_CardinalityType
    <3> QED
      BY <3>1, <3>2, <2>3
  <2>5. Cardinality(later) < MaxChanges
    BY <2>2, <2>4, <1>1, <1>6, <1>10
  <2> QED
    BY <2>5 DEF KeepNewest, later
<1>11. \A t \in kept : t \in all
  BY DEF KeepNewest
<1> HIDE DEF all, kept
<1>12. CASE stall
  <2>1. next = now /\ window'[p] = RewindBefore(kept, now) /\ ~ (H < last)
    BY <1>12, <1>2, <1>5, <1>7
  <2>2. \A t \in RewindBefore(kept, now) : t < now
    BY <1>1 DEF RewindBefore
  <2>3. ASSUME NEW t \in 0 .. now - 1, now < t + MaxChanges PROVE t \in RewindBefore(kept, now)
    <3>1. t \in 0 .. now /\ t # now /\ t < now
      BY <1>1
    <3>2. t \in all
      BY <3>1, <2>1, <2>3, <1>9
    <3>3. t \in kept
      BY <3>2, <2>3, <1>10
    <3> QED
      BY <3>1, <3>3 DEF RewindBefore
  <2>4. /\ \A t \in window'[p] : t < next
        /\ \A t \in 0 .. next - 1 : next < t + MaxChanges => t \in window'[p]
    BY <2>1, <2>2, <2>3
  <2> HIDE DEF next
  <2> QED
    BY <2>4, <1>4 DEF WindowOK
<1>13. CASE ~ stall
  <2>1. next = now + 1 /\ window'[p] = kept
    BY <1>13, <1>5
  <2>2. \A t \in kept : t < now + 1
    BY <1>1, <1>8, <1>11
  <2>3. ASSUME NEW t \in 0 .. now, now + 1 < t + MaxChanges PROVE t \in kept
    <3>1. t \in all
      <4>1. now + 1 < t + MaxChanges \/ (t # now /\ ~ (H < last) /\ now < t + MaxChanges)
        BY <2>3
      <4> QED
        BY <4>1, <1>9
    <3>2. now < t + MaxChanges
      BY <2>3, <1>1, <1>6
    <3> QED
      BY <3>1, <3>2, <1>10
  <2>4. now + 1 - 1 = now
    BY <1>1
  <2>5. /\ \A t \in window'[p] : t < next
        /\ \A t \in 0 .. next - 1 : next < t + MaxChanges => t \in window'[p]
    <3>1. \A t \in window'[p] : t < next
      BY <2>1, <2>2
    <3>2. ASSUME NEW t \in 0 .. next - 1, next < t + MaxChanges PROVE t \in window'[p]
      <4>1. t \in 0 .. now /\ now + 1 < t + MaxChanges
        <5>1. next = now + 1 /\ now + 1 - 1 = now
          BY <2>1, <2>4
        <5> HIDE DEF next
        <5> QED
          BY <3>2, <5>1, <1>1, <1>6
      <4> QED
        BY <4>1, <2>1, <2>3
    <3> QED
      BY <3>1, <3>2
  <2> HIDE DEF next
  <2> QED
    BY <2>5, <1>4 DEF WindowOK
<1> QED
  BY <1>12, <1>13

\* What a player gives in a frame, x: it belongs to that frame, and if nothing is
\* added to a frame that has been sent, the frame has been empty.
Gives(p, q, sent, x) ==
  LET g == Given(p, q)
  IN  /\ Given(p, q)' = g \o x /\ Whole(sent, q) = g \o x
      /\ g \o x \in Seq(Commands) /\ Ordered(g \o x)
      /\ g \in Seq(Commands) /\ Ordered(g) /\ x \in Seq(Commands)
      /\ \A i \in 1 .. Len(g) : g[i].time \in Nat /\ g[i].time <= frame[p]
      /\ ~ PressAgain /\ Len(x) # 0 => \A i \in 1 .. Len(g) : g[i].time < frame[p]
      /\ \A i \in 1 .. Len(x) : x[i].time = frame[p]
      /\ unc'[p][q].head = frame[p]
      /\ \A i \in 1 .. Len(g) : g[i].time <= MaxFrame

\* A peer's own player gives what is pressed, after all that was given before.
LEMMA OwnGiven ==
  ASSUME IInv, NEW p \in Peers, NEW pressed \in Presses(p), NEW arrived,
         NEW last \in Nat, NEW ready \in Nat, NEW stall \in BOOLEAN, NEW sent,
         FrameIs(p, pressed, arrived, last, ready, stall, sent), NEW q \in Local(p)
  PROVE  Gives(p, q, sent, Pressed(pressed[q], frame[p]))
<1> DEFINE g == Given(p, q)
           x == Pressed(pressed[q], frame[p])
           now == frame[p]
<1>0. q \in Players /\ Owner[q] = p /\ now \in Nat
  BY DEF Local, IInv, Types
<1>1. /\ Given(p, q)' = g \o x /\ Whole(sent, q) = g \o x /\ unc'[p][q].head = now
      /\ pressed[q] # <<>> => PressAgain \/ At(g, now) = <<>>
  BY DEF FrameIs, FrameKeeps, FrameSends
<1>2. /\ x \in Seq(Commands) /\ \A i \in 1 .. Len(x) : x[i].time = now
      /\ Len(x) # 0 => pressed[q] # <<>>
  <2>1. /\ x \in Seq(Commands) /\ Len(x) = Len(pressed[q])
        /\ \A i \in 1 .. Len(pressed[q]) : x[i].time = now
        /\ (x = <<>> <=> pressed[q] = <<>>)
    BY <1>0, PressedType
  <2>2. Len(x) # 0 => x # <<>>
    OBVIOUS
  <2> QED
    BY <2>1, <2>2
<1>3. StreamsOK(Here(p), CommitHead(p)) /\ CommitHead(p) \in Nat
  BY DEF IInv, Rest, Here, StreamsOK
<1>4. Whole(Here(p), q) = g /\ Here(p).unc[q].head = unc[p][q].head
  BY DEF Whole, Here, Given
<1>5. /\ g \in Seq(Commands) /\ Ordered(g)
      /\ \A i \in 1 .. Len(g) : g[i].time \in Nat /\ g[i].time <= unc[p][q].head
  BY <1>0, <1>3, <1>4, WholeIs
<1>6. OwnOK(q)
  BY <1>0 DEF IInv, Rest
<1>7. unc[p][q].head = now - 1 \/ unc[p][q].head = now
  BY <1>0, <1>6 DEF OwnOK
<1>8. StreamsOK(Here(p)', ready) /\ Whole(Here(p)', q) = Given(p, q)'
  BY <1>0, NewStreams
<1>9. Given(p, q)' \in Seq(Commands) /\ Ordered(Given(p, q)')
  BY <1>0, <1>8, WholeIs
<1>10. \A i \in 1 .. Len(g) : g[i].time <= MaxFrame
  BY <1>0, <1>6 DEF OwnOK
<1> HIDE DEF g, x, now
<1>11. \A i \in 1 .. Len(g) : g[i].time \in Nat /\ g[i].time <= now
  BY <1>0, <1>5, <1>7
<1>12. ~ PressAgain /\ Len(x) # 0 => \A i \in 1 .. Len(g) : g[i].time < now
  <2> SUFFICES ASSUME ~ PressAgain, Len(x) # 0 PROVE \A i \in 1 .. Len(g) : g[i].time < now
    OBVIOUS
  <2>1. At(g, now) = <<>>
    BY <1>1, <1>2
  <2>2. \A i \in 1 .. Len(g) : g[i].time # now
    BY <2>1, <1>0, <1>5, AtEmpty
  <2> QED
    BY <2>2, <1>0, <1>11
<1> QED
  <2>1. g \o x \in Seq(Commands) /\ Ordered(g \o x)
    BY <1>1, <1>9
  <2> QED
    BY <2>1, <1>1, <1>2, <1>5, <1>10, <1>11, <1>12 DEF Gives, g, x, now

\* The owners.
LEMMA OwnKept ==
  ASSUME IInv, NEW p \in Peers, NEW pressed \in Presses(p), NEW arrived,
         NEW last \in Nat, NEW ready \in Nat, NEW stall \in BOOLEAN, NEW sent,
         FrameIs(p, pressed, arrived, last, ready, stall, sent), NEW q \in Players
  PROVE  OwnOK(q)'
<1>1. Owner[q] \in Peers
  BY ConstantsAssumption
<1>2. CASE Owner[q] = p
  <2> DEFINE g == Given(p, q)
             x == Pressed(pressed[q], frame[p])
             now == frame[p]
  <2>1. q \in Local(p)
    BY <1>2 DEF Local
  <2>2. /\ Given(p, q)' = g \o x /\ unc'[p][q].head = now
        /\ g \in Seq(Commands) /\ x \in Seq(Commands)
        /\ \A i \in 1 .. Len(x) : x[i].time = now
        /\ \A i \in 1 .. Len(g) : g[i].time <= MaxFrame
    <3>1. Gives(p, q, sent, x)
      BY <2>1, OwnGiven
    <3> HIDE DEF x
    <3> QED
      BY <3>1 DEF Gives
  <2>3. FrameTimes(p, last, ready, stall) /\ FrameChanges(p, arrived, last, stall, sent)
    BY DEF FrameIs
  <2>4. now <= MaxFrame /\ now \in Nat
    BY <2>3 DEF FrameTimes, IInv, Types
  <2>5. frame'[p] = IF stall THEN now ELSE now + 1
    BY NewStreams
  <2>6. stall => mode'[p] = "StallSimulation"
    BY <2>3 DEF FrameChanges
  <2> HIDE DEF g, x, now
  <2>7. ASSUME NEW i \in 1 .. Len(g \o x) PROVE (g \o x)[i].time <= MaxFrame
    <3>1. /\ Len(g \o x) = Len(g) + Len(x) /\ Len(g) \in Nat /\ Len(x) \in Nat
          /\ \A j \in 1 .. Len(g) : (g \o x)[j] = g[j]
          /\ \A j \in Len(g) + 1 .. Len(g) + Len(x) : (g \o x)[j] = x[j - Len(g)]
      BY <2>2, JoinOf, ElementsOf
    <3>2. CASE i \in 1 .. Len(g)
      BY <3>1, <3>2, <2>2
    <3>3. CASE ~ (i \in 1 .. Len(g))
      <4>1. i \in Len(g) + 1 .. Len(g) + Len(x) /\ i - Len(g) \in 1 .. Len(x)
        BY <3>1, <3>3
      <4> QED
        BY <4>1, <3>1, <2>2, <2>4
    <3> QED
      BY <3>2, <3>3
  <2>8. now = frame'[p] - 1 \/ (now = frame'[p] /\ mode'[p] = "StallSimulation")
    <3>1. CASE stall
      BY <3>1, <2>5, <2>6
    <3>2. CASE ~ stall
      <4>1. frame'[p] - 1 = now
        BY <3>2, <2>4, <2>5
      <4> QED
        BY <4>1
    <3> QED
      BY <3>1, <3>2
  <2> QED
    BY <1>2, <2>2, <2>7, <2>8 DEF OwnOK
<1>3. CASE Owner[q] # p
  <2> DEFINE r == Owner[q]
  <2>1. r \in Peers \ {p}
    BY <1>1, <1>3
  <2>2. OwnOK(q)
    BY DEF IInv, Rest
  <2>3. /\ unc'[r] = unc[r] /\ mode'[r] = mode[r] /\ frame'[r] = frame[r]
        /\ Given(r, q)' = Given(r, q)
    BY <2>1, Elsewhere
  <2> QED
    BY <2>2, <2>3 DEF OwnOK
<1> QED
  BY <1>2, <1>3

\* What a peer knows of a player after a frame goes on from what it knew.
GoesOn(p, q, sent, ready) ==
  LET e == Given(p, q)
      g == Given(p, q)'
  IN  /\ e \in Seq(Commands) /\ Ordered(e)
      /\ g \in Seq(Commands) /\ Ordered(g)
      /\ Beginning(e, g)
      /\ q \in Local(p) => /\ Whole(sent, q) = g
                           /\ \A i \in Len(e) + 1 .. Len(g) : g[i].time = frame[p]
      /\ ~ (q \in Local(p)) => /\ Whole(sent, q) = e
                               /\ \A i \in Len(e) + 1 .. Len(g) : ready < g[i].time

\* At every peer, what was known of a player begins what is known then.
LEMMA KnownGoesOn ==
  ASSUME IInv, NEW p \in Peers, NEW pressed \in Presses(p), NEW arrived,
         NEW last \in Nat, NEW ready \in Nat, NEW stall \in BOOLEAN, NEW sent,
         FrameIs(p, pressed, arrived, last, ready, stall, sent), NEW q \in Players
  PROVE  GoesOn(p, q, sent, ready)
<1> DEFINE e == Given(p, q)
           g == Given(p, q)'
<1>1. StreamsOK(Here(p), CommitHead(p)) /\ CommitHead(p) \in Nat /\ Whole(Here(p), q) = e
  BY DEF IInv, Rest, Here, StreamsOK, Whole, Given
<1>2. e \in Seq(Commands) /\ Ordered(e) /\ Len(e) \in Nat
  BY <1>1, WholeIs
<1>3. StreamsOK(Here(p)', ready) /\ Whole(Here(p)', q) = g
  BY NewStreams
<1>4. g \in Seq(Commands) /\ Ordered(g) /\ Len(g) \in Nat
  BY <1>3, WholeIs
<1>5. CASE q \in Local(p)
  <2> DEFINE x == Pressed(pressed[q], frame[p])
             now == frame[p]
  <2>1. /\ g = e \o x /\ Whole(sent, q) = e \o x /\ x \in Seq(Commands)
        /\ \A i \in 1 .. Len(x) : x[i].time = now
    <3>1. Gives(p, q, sent, x)
      BY <1>5, OwnGiven
    <3> HIDE DEF x
    <3> QED
      BY <3>1 DEF Gives
  <2> HIDE DEF e, g, x, now
  <2>2. /\ Len(g) = Len(e) + Len(x) /\ Len(x) \in Nat
        /\ \A i \in 1 .. Len(e) : g[i] = e[i]
        /\ \A i \in Len(e) + 1 .. Len(e) + Len(x) : g[i] = x[i - Len(e)]
    BY <2>1, <1>2, JoinOf, ElementsOf
  <2>3. Beginning(e, g)
    BY <2>2, <1>2 DEF Beginning
  <2>4. \A i \in Len(e) + 1 .. Len(g) : g[i].time = now
    <3> TAKE i \in Len(e) + 1 .. Len(g)
    <3>1. i - Len(e) \in 1 .. Len(x) /\ i \in Len(e) + 1 .. Len(e) + Len(x)
      BY <2>2, <1>2
    <3> QED
      BY <3>1, <2>1, <2>2
  <2> QED
    BY <2>1, <2>3, <2>4, <1>2, <1>4, <1>5 DEF GoesOn, e, g, now
<1>6. CASE ~ (q \in Local(p))
  <2>1. /\ Grows(Here(p), Here(p)', q) /\ ready <= unc[p][q].head
        /\ \E from : Remote(p, Here(p)', q, arrived[Owner[q]], from, Given(Owner[q], q))
    BY <1>6 DEF FrameIs, FrameKeeps
  <2>2. \E from : Remote(p, Here(p), q, 0, from, Given(Owner[q], q))
    BY <1>6, RemoteStreams
  <2> DEFINE all == Given(Owner[q], q)
             head == unc[p][q].head
  <2>3. KnowsAllUpTo(head, e, all)
    BY <2>2, <1>1 DEF Remote, Follows, Here
  <2>4. Beginning(g, all)
    BY <2>1, <1>3 DEF Remote, Follows, KnowsAllUpTo
  <2>5. Len(e) <= Len(g)
    BY <2>1, <1>1, <1>3 DEF Grows
  <2>6. Whole(sent, q) = e
    BY <1>6 DEF FrameIs, FrameSends
  <2>7. head \in Nat /\ ready <= head
    <3>1. Here(p).unc[q].head = unc[p][q].head
      BY DEF Here
    <3> QED
      BY <3>1, <2>1, <1>1, PeerStreams
  <2>8. all \in Seq(Commands)
    BY RemoteStreams
  <2> HIDE DEF e, g, all, head
  <2>9. Len(all) \in Nat /\ \A i \in 1 .. Len(all) : all[i].time \in Nat
    BY <2>8, ElementsOf
  <2>10. Beginning(e, g)
    BY <2>3, <2>4, <2>5, <2>9, <1>2, <1>4 DEF Beginning, KnowsAllUpTo
  <2>11. \A i \in Len(e) + 1 .. Len(g) : ready < g[i].time
    <3> TAKE i \in Len(e) + 1 .. Len(g)
    <3>1. i \in 1 .. Len(g) /\ i \in Len(e) + 1 .. Len(all) /\ i \in 1 .. Len(all)
      BY <2>4, <2>9, <1>2, <1>4 DEF Beginning
    <3>2. g[i] = all[i] /\ head < all[i].time
      BY <3>1, <2>3, <2>4 DEF Beginning, KnowsAllUpTo
    <3> QED
      BY <3>1, <3>2, <2>7, <2>9
  <2> QED
    BY <2>6, <2>10, <2>11, <1>2, <1>4, <1>6 DEF GoesOn, e, g
<1> QED
  BY <1>5, <1>6

\* What the game has been simulated with.
LEMMA SimKept ==
  ASSUME IInv, NEW p \in Peers, NEW pressed \in Presses(p), NEW arrived,
         NEW last \in Nat, NEW ready \in Nat, NEW stall \in BOOLEAN, NEW sent,
         FrameIs(p, pressed, arrived, last, ready, stall, sent)
  PROVE  SimOK(p)'
<1> DEFINE now == frame[p]
           H == CommitHead(p)
           resim == IF H < last THEN H .. now - 1 ELSE {}
<1>1. /\ H \in Nat /\ now \in Nat /\ H < now /\ SimOK(p)
  BY DEF IInv, Rest, ClockOK, StreamsOK
<1>2. FrameTimes(p, last, ready, stall) /\ FrameChanges(p, arrived, last, stall, sent)
  BY DEF FrameIs
<1>3. CommitHead(p)' = ready
  BY NewStreams
<1>4. sim'[p] = [f \in 0 .. MaxFrame |->
                      CASE f = now -> CommandsAt(sent, f)
                        [] f \in resim -> CommandsAt(Here(p), f)
                        [] OTHER -> sim[p][f]]
  BY <1>2 DEF FrameChanges, IInv, Types
<1>5. ASSUME NEW f \in Nat, f <= ready, f <= now, NEW q \in Players
      PROVE  /\ At(Given(p, q)', f) = At(Whole(sent, q), f)
             /\ f < now => At(Given(p, q)', f) = At(Given(p, q), f)
  <2> DEFINE e == Given(p, q)
             g == Given(p, q)'
             w == Whole(sent, q)
  <2>1. /\ e \in Seq(Commands) /\ Ordered(e)
        /\ g \in Seq(Commands) /\ Ordered(g)
        /\ Beginning(e, g)
        /\ q \in Local(p) => /\ w = g
                             /\ \A i \in Len(e) + 1 .. Len(g) : g[i].time = now
        /\ ~ (q \in Local(p)) => /\ w = e
                                 /\ \A i \in Len(e) + 1 .. Len(g) : ready < g[i].time
    <3>1. GoesOn(p, q, sent, ready)
      BY KnownGoesOn
    <3> QED
      BY <3>1 DEF GoesOn
  <2> HIDE DEF e, g, w, now
  <2>2. Len(e) \in Nat /\ Len(g) \in Nat /\ \A i \in 1 .. Len(g) : g[i].time \in Nat
    BY <2>1, ElementsOf
  <2>3. CASE q \in Local(p)
    <3>1. f < now => At(g, f) = At(e, f)
      <4> SUFFICES ASSUME f < now PROVE At(g, f) = At(e, f)
        OBVIOUS
      <4>1. \A i \in Len(e) + 1 .. Len(g) : f < g[i].time
        BY <2>1, <2>3
      <4> QED
        BY <4>1, <2>1, AtOfBeginning
    <3> QED
      BY <3>1, <2>1, <2>3 DEF e, g, w
  <2>4. CASE ~ (q \in Local(p))
    <3>1. \A i \in Len(e) + 1 .. Len(g) : f < g[i].time
      <4> TAKE i \in Len(e) + 1 .. Len(g)
      <4>1. ready < g[i].time /\ i \in 1 .. Len(g)
        BY <2>1, <2>2, <2>4
      <4> QED
        BY <4>1, <2>2, <1>5
    <3>2. At(g, f) = At(e, f)
      BY <3>1, <2>1, AtOfBeginning
    <3> QED
      BY <3>2, <2>1, <2>4 DEF e, g, w
  <2> QED
    BY <2>3, <2>4
<1>6. /\ last <= ready /\ ready <= now /\ H <= last /\ last < now
      /\ last = H /\ H < now - 1 => ready = H
  BY <1>2 DEF FrameTimes
<1>7. \A f, q : At(Here(p).com[q].events \o Here(p).unc[q].events, f) = At(Given(p, q), f)
  BY DEF Here, Given
<1>8. ASSUME NEW f \in 0 .. MaxFrame, f <= ready
      PROVE  sim'[p][f] = [q \in Players |-> At(Given(p, q)', f)]
  <2>1. f \in Nat /\ f <= now
    <3> HIDE DEF now, H
    <3> QED
      BY <1>1, <1>6, <1>8
  <2>2. CASE f = now
    <3>1. sim'[p][f] = CommandsAt(sent, f)
      BY <1>4, <2>2
    <3>2. CommandsAt(sent, f) = [q \in Players |-> At(Whole(sent, q), f)]
      BY DEF CommandsAt, Whole
    <3> QED
      BY <3>1, <3>2, <2>1, <1>5, <1>8
  <2>3. CASE f # now
    <3>0. f < now
      BY <2>1, <2>3, <1>1
    <3>1. sim'[p][f] = [q \in Players |-> At(Given(p, q), f)]
      <4>1. CASE f \in resim
        <5>1. sim'[p][f] = CommandsAt(Here(p), f)
          BY <1>4, <2>3, <4>1
        <5> QED
          BY <5>1, <1>7 DEF CommandsAt
      <4>2. CASE ~ (f \in resim)
        <5>1. sim'[p][f] = sim[p][f]
          BY <1>4, <2>3, <4>2
        <5>2. f <= H
          <6> HIDE DEF now, H
          <6>1. CASE H < last
            <7>1. ~ (f \in H .. now - 1)
              BY <4>2, <6>1
            <7> QED
              BY <7>1, <3>0, <2>1, <1>1
          <6>2. CASE ~ (H < last)
            <7>1. last = H
              BY <6>2, <1>1, <1>6
            <7> QED
              BY <7>1, <3>0, <2>1, <1>1, <1>6, <1>8
          <6> QED
            BY <6>1, <6>2
        <5> QED
          BY <5>1, <5>2, <1>1 DEF SimOK
      <4> QED
        BY <4>1, <4>2
    <3>2. \A q \in Players : At(Given(p, q)', f) = At(Given(p, q), f)
      BY <3>0, <2>1, <1>5, <1>8
    <3> QED
      BY <3>1, <3>2
  <2> QED
    BY <2>2, <2>3
<1> QED
  BY <1>3, <1>8 DEF SimOK

\* What is left of a queue when some of its packs have been merged.
LEMMA CarriesRest ==
  ASSUME NEW src \in Peers, NEW queue \in Seq(Packs(src)), NEW n \in 0 .. Len(queue), NEW q,
         NEW given \in Seq(Commands), NEW from \in [1 .. Len(queue) -> 0 .. Len(given)],
         NEW head, NEW known, NEW frames,
         Carries(queue, n, q, from, head, known, given, frames)
  PROVE  LET rest == SubSeq(queue, n + 1, Len(queue))
             tail == [i \in 1 .. Len(rest) |-> from[n + i]]
         IN  /\ tail \in [1 .. Len(rest) -> 0 .. Len(given)]
             /\ Carries(rest, 0, q, tail, head, known, given, frames)
<1> DEFINE rest == SubSeq(queue, n + 1, Len(queue))
           tail == [i \in 1 .. Len(rest) |-> from[n + i]]
           m == Len(queue)
<1>1. m \in Nat /\ n \in Nat /\ n <= m /\ Len(given) \in Nat
  BY LenProperties
<1>2. Len(rest) = m - n /\ m - n \in Nat /\ \A i \in 1 .. m - n : rest[i] = queue[n + i]
  <2>1. n + 1 \in Int /\ m \in Int /\ \A i \in n + 1 .. m : queue[i] \in Packs(src)
    BY <1>1, ElementOfSeq
  <2>2. /\ Len(rest) = IF n + 1 <= m THEN m - (n + 1) + 1 ELSE 0
        /\ \A i \in 1 .. m - (n + 1) + 1 : rest[i] = queue[n + 1 + i - 1]
    BY <2>1, SubSeqProperties
  <2> HIDE DEF m, rest
  <2>3. m - (n + 1) + 1 = m - n /\ \A i \in 1 .. m - n : n + 1 + i - 1 = n + i
    BY <1>1
  <2> QED
    BY <2>2, <2>3, <1>1
<1>3. \A i \in 1 .. m - n : n + i \in 1 .. m /\ n + i \in n + 1 .. m
  <2> HIDE DEF m
  <2> QED
    BY <1>1
<1>4. \A i \in 1 .. m - n : tail[i] = from[n + i] /\ from[n + i] \in 0 .. Len(given)
  BY <1>2, <1>3
<1>5. tail \in [1 .. Len(rest) -> 0 .. Len(given)]
  BY <1>2, <1>4
<1>6. /\ \A i \in n + 1 .. m :
           /\ PackOK(queue[i], q, from[i], given, frames)
           /\ Reached(head, known, queue[i].frameReadyToCommit)
           /\ Len(known) <= After(queue, q, from, i)
           /\ from[i] <= (IF i = n + 1 THEN Len(known) ELSE After(queue, q, from, i - 1))
           /\ \A j \in i .. m :
                /\ queue[i].frameReadyToCommit <= queue[j].frameReadyToCommit
                /\ After(queue, q, from, i) <= After(queue, q, from, j)
      /\ Len(given) = IF m = n THEN Len(known) ELSE After(queue, q, from, m)
  BY DEF Carries
<1> HIDE DEF tail, rest, m
<1>7. \A i \in 1 .. m - n : After(rest, q, tail, i) = After(queue, q, from, n + i)
  BY <1>2, <1>4 DEF After
<1>8. ASSUME NEW i \in 1 .. m - n
      PROVE  /\ PackOK(rest[i], q, tail[i], given, frames)
             /\ Reached(head, known, rest[i].frameReadyToCommit)
             /\ Len(known) <= After(rest, q, tail, i)
             /\ tail[i] <= (IF i = 1 THEN Len(known) ELSE After(rest, q, tail, i - 1))
             /\ \A j \in i .. m - n :
                  /\ rest[i].frameReadyToCommit <= rest[j].frameReadyToCommit
                  /\ After(rest, q, tail, i) <= After(rest, q, tail, j)
  <2>1. n + i \in n + 1 .. m /\ rest[i] = queue[n + i] /\ tail[i] = from[n + i]
        /\ After(rest, q, tail, i) = After(queue, q, from, n + i)
    BY <1>2, <1>3, <1>4, <1>7
  <2>2. /\ PackOK(rest[i], q, tail[i], given, frames)
        /\ Reached(head, known, rest[i].frameReadyToCommit)
        /\ Len(known) <= After(rest, q, tail, i)
    BY <2>1, <1>6
  <2>3. tail[i] <= (IF i = 1 THEN Len(known) ELSE After(rest, q, tail, i - 1))
    <3>1. from[n + i] <= (IF n + i = n + 1 THEN Len(known) ELSE After(queue, q, from, n + i - 1))
      BY <2>1, <1>6
    <3>2. CASE i = 1
      BY <3>1, <3>2, <2>1
    <3>3. CASE i # 1
      <4>1. n + i # n + 1 /\ i - 1 \in 1 .. m - n /\ n + i - 1 = n + (i - 1)
        BY <3>3, <1>1, <1>2
      <4>2. After(rest, q, tail, i - 1) = After(queue, q, from, n + i - 1)
        BY <4>1, <1>7
      <4> QED
        BY <3>1, <3>3, <4>1, <4>2, <2>1
    <3> QED
      BY <3>2, <3>3
  <2>4. ASSUME NEW j \in i .. m - n
        PROVE  /\ rest[i].frameReadyToCommit <= rest[j].frameReadyToCommit
               /\ After(rest, q, tail, i) <= After(rest, q, tail, j)
    <3>1. j \in 1 .. m - n /\ n + j \in n + i .. m
      BY <1>1, <1>2
    <3>2. rest[j] = queue[n + j] /\ After(rest, q, tail, j) = After(queue, q, from, n + j)
      BY <3>1, <1>2, <1>7
    <3>3. /\ queue[n + i].frameReadyToCommit <= queue[n + j].frameReadyToCommit
          /\ After(queue, q, from, n + i) <= After(queue, q, from, n + j)
      BY <3>1, <2>1, <1>6
    <3> QED
      BY <3>2, <3>3, <2>1
  <2> QED
    BY <2>2, <2>3, <2>4
<1>9. Len(given) = IF Len(rest) = 0 THEN Len(known) ELSE After(rest, q, tail, Len(rest))
  <2>1. CASE m = n
    BY <2>1, <1>1, <1>2, <1>6
  <2>2. CASE m # n
    <3>1. m - n \in 1 .. m - n /\ n + (m - n) = m /\ Len(rest) # 0
      BY <2>2, <1>1, <1>2
    <3> QED
      BY <2>2, <3>1, <1>2, <1>6, <1>7
  <2> QED
    BY <2>1, <2>2
<1>10. tail \in [1 .. Len(rest) -> Nat]
  BY <1>1, <1>5
<1>11. 0 + 1 = 1
  OBVIOUS
<1>12. Carries(rest, 0, q, tail, head, known, given, frames)
  BY <1>2, <1>8, <1>9, <1>10, <1>11 DEF Carries
<1> QED
  BY <1>5, <1>12 DEF tail, rest, m

\* New commands x of a frame, given after those that are all from earlier frames
\* unless there are none.
Later(g, x, now) ==
  /\ g \in Seq(Commands) /\ x \in Seq(Commands)
  /\ \A i \in 1 .. Len(x) : x[i].time = now
  /\ Len(x) # 0 => \A i \in 1 .. Len(g) : g[i].time < now

\* Commands of the current frame come after those of earlier ones.
LEMMA LaterIs ==
  ASSUME NEW g, NEW x, NEW now \in Nat, Later(g, x, now)
  PROVE  LET all == g \o x
         IN  /\ Len(g) \in Nat /\ Len(x) \in Nat /\ all \in Seq(Commands)
             /\ Len(all) = Len(g) + Len(x)
             /\ \A i \in 1 .. Len(all) : all[i].time \in Nat
             /\ \A i \in 1 .. Len(g) : all[i] = g[i]
             /\ \A i \in Len(g) + 1 .. Len(all) :
                  /\ all[i].time = now /\ Len(x) # 0
                  /\ \A j \in 1 .. Len(g) : g[j].time < now
<1>1. /\ g \in Seq(Commands) /\ x \in Seq(Commands)
      /\ \A i \in 1 .. Len(x) : x[i].time = now
      /\ Len(x) # 0 => \A i \in 1 .. Len(g) : g[i].time < now
  BY DEF Later
<1> DEFINE all == g \o x
<1>2. Len(g) \in Nat /\ Len(x) \in Nat
  BY <1>1, ElementsOf
<1>3. /\ all \in Seq(Commands)
      /\ Len(all) = Len(g) + Len(x)
      /\ \A i \in 1 .. Len(g) : all[i] = g[i]
      /\ \A i \in Len(g) + 1 .. Len(g) + Len(x) : all[i] = x[i - Len(g)]
  BY <1>1, JoinOf
<1>4. \A i \in 1 .. Len(all) : all[i].time \in Nat
  BY <1>3, ElementsOf
<1> HIDE DEF all
<1>5. ASSUME NEW i \in Len(g) + 1 .. Len(all) PROVE all[i].time = now /\ Len(x) # 0
  <2>1. i - Len(g) \in 1 .. Len(x) /\ i \in Len(g) + 1 .. Len(g) + Len(x) /\ Len(x) # 0
    BY <1>2, <1>3
  <2> QED
    BY <2>1, <1>1, <1>3
<1> QED
  BY <1>1, <1>2, <1>3, <1>4, <1>5 DEF all

\* A peer that knows all up to its head still does.
LEMMA StillKnows ==
  ASSUME NEW g, NEW x, NEW now \in Nat, now >= 1, Later(g, x, now),
         NEW head \in Nat, NEW known \in Seq(Commands),
         KnowsAllUpTo(head, known, g), Reached(head, known, now - 1)
  PROVE  KnowsAllUpTo(head, known, g \o x)
<1> DEFINE all == g \o x
<1>1. /\ Len(g) \in Nat /\ Len(x) \in Nat /\ all \in Seq(Commands)
      /\ Len(all) = Len(g) + Len(x)
      /\ \A i \in 1 .. Len(g) : all[i] = g[i]
      /\ \A i \in Len(g) + 1 .. Len(all) :
           /\ all[i].time = now /\ Len(x) # 0
           /\ \A j \in 1 .. Len(g) : g[j].time < now
  BY LaterIs
<1>2. /\ Len(known) \in Nat /\ \A i \in 1 .. Len(known) : known[i].time \in Nat
  BY ElementsOf
<1>3. /\ Len(known) <= Len(g) /\ \A i \in 1 .. Len(known) : known[i] = g[i]
      /\ \A i \in Len(known) + 1 .. Len(g) : head < g[i].time
  BY DEF KnowsAllUpTo, Beginning
<1> HIDE DEF all
<1>4. ASSUME NEW i \in Len(known) + 1 .. Len(all) PROVE head < all[i].time
  <2>1. CASE i \in Len(known) + 1 .. Len(g)
    <3>1. i \in 1 .. Len(g)
      BY <2>1, <1>2
    <3> QED
      BY <2>1, <3>1, <1>1, <1>3
  <2>2. CASE ~ (i \in Len(known) + 1 .. Len(g))
    <3>1. i \in Len(g) + 1 .. Len(all)
      BY <2>2, <1>1, <1>2
    <3>2. all[i].time = now /\ \A j \in 1 .. Len(g) : g[j].time < now
      BY <3>1, <1>1
    <3>3. CASE head <= now - 1
      BY <3>2, <3>3
    <3>4. CASE Len(known) > 0 /\ head <= known[Len(known)].time
      <4>1. Len(known) \in 1 .. Len(known) /\ Len(known) \in 1 .. Len(g)
        BY <3>4, <1>1, <1>2, <1>3
      <4>2. known[Len(known)] = g[Len(known)] /\ known[Len(known)].time \in Nat
        BY <4>1, <1>2, <1>3
      <4>3. known[Len(known)].time < now
        BY <4>1, <4>2, <3>2
      <4> QED
        BY <4>2, <4>3, <3>2, <3>4
    <3> QED
      BY <3>3, <3>4 DEF Reached
  <2> QED
    BY <2>1, <2>2
<1>5. Beginning(known, all)
  BY <1>1, <1>2, <1>3 DEF Beginning
<1> QED
  BY <1>4, <1>5 DEF KnowsAllUpTo, all

\* A pack on its way is still whole.
LEMMA PackStays ==
  ASSUME NEW g, NEW x, NEW now \in Nat, now >= 1, Later(g, x, now),
         NEW src, NEW pack \in Packs(src), NEW q \in Local(src), NEW first \in Nat,
         NEW next \in Nat, now - 1 <= next,
         PackOK(pack, q, first, g, now - 1)
  PROVE  PackOK(pack, q, first, g \o x, next)
<1> DEFINE all == g \o x
           events == pack.streams[q]
           ready == pack.frameReadyToCommit
           after == first + Len(events)
<1>1. /\ Len(g) \in Nat /\ Len(x) \in Nat
      /\ Len(all) = Len(g) + Len(x)
      /\ \A i \in 1 .. Len(g) : all[i] = g[i]
      /\ \A i \in Len(g) + 1 .. Len(all) :
           /\ all[i].time = now /\ Len(x) # 0
           /\ \A j \in 1 .. Len(g) : g[j].time < now
  BY LaterIs
<1>2. ready \in Nat /\ events \in Seq(Commands)
  BY DEF Packs
<1>3. /\ after <= Len(g)
      /\ \A j \in 1 .. Len(events) : events[j] = g[first + j]
      /\ \A j \in 1 .. first : g[j].time <= ready
      /\ \A j \in after + 1 .. Len(g) :
           ready < g[j].time /\ (after > 0 => g[after].time < g[j].time)
      /\ ready <= now - 1
  BY DEF PackOK, IsCompleteAt
<1>4. Len(events) \in Nat /\ after \in Nat /\ first <= after
  BY <1>2, ElementsOf
<1>5. \A j \in 1 .. Len(events) : first + j \in 1 .. Len(g)
  <2> HIDE DEF events
  <2> QED
    BY <1>1, <1>3, <1>4
<1> HIDE DEF all, events, ready
<1>6. \A j \in 1 .. Len(events) : events[j] = all[first + j]
  BY <1>1, <1>3, <1>5
<1> HIDE DEF after
<1>7. after <= Len(all) /\ ready <= next
  BY <1>1, <1>2, <1>3, <1>4
<1>8. \A j \in 1 .. first : all[j].time <= ready
  BY <1>1, <1>3, <1>4
<1>9. ASSUME NEW j \in after + 1 .. Len(all)
      PROVE  ready < all[j].time /\ (after > 0 => all[after].time < all[j].time)
  <2>0. after > 0 => after \in 1 .. Len(g) /\ all[after] = g[after]
    BY <1>1, <1>3, <1>4
  <2>1. CASE j \in after + 1 .. Len(g)
    <3>1. j \in 1 .. Len(g)
      BY <2>1, <1>4
    <3> QED
      BY <2>0, <2>1, <3>1, <1>1, <1>3
  <2>2. CASE ~ (j \in after + 1 .. Len(g))
    <3>1. j \in Len(g) + 1 .. Len(all)
      BY <2>2, <1>1, <1>4
    <3>2. all[j].time = now /\ \A l \in 1 .. Len(g) : g[l].time < now
      BY <3>1, <1>1
    <3> QED
      BY <2>0, <3>2, <1>2, <1>3
  <2> QED
    BY <2>1, <2>2
<1> QED
  BY <1>6, <1>7, <1>8, <1>9 DEF PackOK, IsCompleteAt, all, events, ready, after

\* A pack with what was not committed when a frame ended: all but the first a.
Sends(pack, q, a, g, x, now) ==
  LET all == g \o x
      events == pack.streams[q]
      ready == pack.frameReadyToCommit
  IN  /\ a \in Nat /\ a <= Len(g)
      /\ a + Len(events) = Len(all)
      /\ \A j \in 1 .. Len(events) : events[j] = all[a + j]
      /\ \A j \in 1 .. a : g[j].time < now
      /\ now - 1 <= ready

\* Such a pack is whole.
LEMMA PackIsWhole ==
  ASSUME NEW g, NEW x, NEW now \in Nat, now >= 1, Later(g, x, now),
         NEW src, NEW pack \in Packs(src), NEW q \in Local(src), NEW a,
         Sends(pack, q, a, g, x, now)
  PROVE  PackOK(pack, q, a, g \o x, pack.frameReadyToCommit)
<1> DEFINE all == g \o x
           events == pack.streams[q]
           ready == pack.frameReadyToCommit
<1>1. /\ Len(g) \in Nat /\ Len(x) \in Nat /\ Len(all) = Len(g) + Len(x)
      /\ \A i \in 1 .. Len(all) : all[i].time \in Nat
      /\ \A i \in 1 .. Len(g) : all[i] = g[i]
  BY LaterIs
<1>2. /\ a \in Nat /\ a <= Len(g)
      /\ a + Len(events) = Len(all)
      /\ \A j \in 1 .. Len(events) : events[j] = all[a + j]
      /\ \A j \in 1 .. a : g[j].time < now
      /\ now - 1 <= ready
  BY DEF Sends
<1>3. ready \in Nat
  BY DEF Packs
<1> HIDE DEF all, events, ready
<1>4. ASSUME NEW j \in 1 .. a PROVE all[j].time <= ready
  <2>1. j \in 1 .. Len(g) /\ j \in 1 .. Len(all)
    BY <1>1, <1>2
  <2>2. all[j].time < now /\ all[j].time \in Nat
    BY <2>1, <1>1, <1>2
  <2> QED
    BY <2>2, <1>2, <1>3
<1>5. ~ (\E j \in Len(all) + 1 .. Len(all) : TRUE)
  BY <1>1
<1>6. IsCompleteAt(ready, a, Len(all), all)
  BY <1>4, <1>5 DEF IsCompleteAt
<1>7. a + Len(events) <= Len(all) /\ ready <= ready
  BY <1>1, <1>2, <1>3
<1> QED
  BY <1>2, <1>6, <1>7 DEF PackOK, all, events, ready

\* A queue still carries what a peer lacks when such a pack has been added.
LEMMA EnqueueCarries ==
  ASSUME NEW g, NEW x, NEW now \in Nat, now >= 1, Later(g, x, now),
         NEW src, NEW pack \in Packs(src), NEW q \in Local(src), NEW a,
         Sends(pack, q, a, g, x, now),
         NEW queue \in Seq(Packs(src)), NEW from \in [1 .. Len(queue) -> 0 .. Len(g)],
         NEW head \in Nat, NEW known \in Seq(Commands), Len(known) <= Len(g),
         Reached(head, known, now - 1),
         Carries(queue, 0, q, from, head, known, g, now - 1)
  PROVE  \E f \in [1 .. Len(Enqueue(queue, pack)) -> 0 .. Len(g \o x)] :
           Carries(Enqueue(queue, pack), 0, q, f, head, known, g \o x, pack.frameReadyToCommit)
<1> DEFINE all == g \o x
           events == pack.streams[q]
           ready == pack.frameReadyToCommit
           m == Len(queue)
<1>1. /\ Len(g) \in Nat /\ Len(x) \in Nat /\ Len(all) = Len(g) + Len(x)
      /\ \A i \in 1 .. Len(g) : all[i] = g[i]
      /\ \A i \in Len(g) + 1 .. Len(all) :
           /\ all[i].time = now /\ Len(x) # 0
           /\ \A j \in 1 .. Len(g) : g[j].time < now
      /\ \A i \in 1 .. Len(all) : all[i].time \in Nat
  BY LaterIs
<1>2. /\ a \in Nat /\ a <= Len(g)
      /\ a + Len(events) = Len(all)
      /\ \A j \in 1 .. Len(events) : events[j] = all[a + j]
      /\ now - 1 <= ready
  BY DEF Sends
<1>3. ready \in Nat /\ events \in Seq(Commands)
  BY DEF Packs
<1>4. m \in Nat /\ Len(events) \in Nat /\ Len(known) \in Nat
  <2>1. Len(events) \in Nat
    BY <1>3, ElementsOf
  <2>2. m \in Nat
    BY LenProperties
  <2>3. Len(known) \in Nat
    BY ElementsOf
  <2> QED
    BY <2>1, <2>2, <2>3
<1>5. /\ \A i \in 1 .. m :
           /\ PackOK(queue[i], q, from[i], g, now - 1)
           /\ Reached(head, known, queue[i].frameReadyToCommit)
           /\ Len(known) <= After(queue, q, from, i)
           /\ from[i] <= (IF i = 1 THEN Len(known) ELSE After(queue, q, from, i - 1))
           /\ \A j \in i .. m :
                /\ queue[i].frameReadyToCommit <= queue[j].frameReadyToCommit
                /\ After(queue, q, from, i) <= After(queue, q, from, j)
      /\ Len(g) = IF m = 0 THEN Len(known) ELSE After(queue, q, from, m)
  <2>1. 0 + 1 = 1
    OBVIOUS
  <2> QED
    BY <2>1 DEF Carries
<1>6. \A i \in 1 .. m : /\ queue[i] \in Packs(src) /\ from[i] \in Nat /\ from[i] <= Len(g)
                        /\ queue[i].frameReadyToCommit \in Nat
                        /\ After(queue, q, from, i) <= Len(g)
                        /\ queue[i].frameReadyToCommit <= now - 1
                        /\ queue[i].streams[q] \in Seq(Commands)
                        /\ Len(queue[i].streams[q]) \in Nat
                        /\ After(queue, q, from, i) \in Nat
                        /\ \A j \in 1 .. Len(queue[i].streams[q]) :
                             queue[i].streams[q][j] = g[from[i] + j]
  <2> TAKE i \in 1 .. m
  <2>1. queue[i] \in Packs(src)
    BY ElementOfSeq
  <2>2. from[i] \in Nat /\ from[i] <= Len(g)
    BY <1>1
  <2>3. queue[i].streams[q] \in Seq(Commands) /\ queue[i].frameReadyToCommit \in Nat
    BY <2>1 DEF Packs
  <2>4. Len(queue[i].streams[q]) \in Nat
    BY <2>3, ElementsOf
  <2>5. /\ After(queue, q, from, i) <= Len(g)
        /\ queue[i].frameReadyToCommit <= now - 1
        /\ \A j \in 1 .. Len(queue[i].streams[q]) :
                             queue[i].streams[q][j] = g[from[i] + j]
    BY <1>5 DEF PackOK, After
  <2>6. After(queue, q, from, i) \in Nat
    BY <2>2, <2>4, SMTT(30) DEF After
  <2> QED
    BY <2>1, <2>2, <2>3, <2>4, <2>5, <2>6
<1>7. CASE m # 0 /\ queue[m] = pack
  <2>1. m \in 1 .. m
    BY <1>4, <1>7
  <2>2. ready <= now - 1 /\ Len(g) = from[m] + Len(events)
        /\ (\A j \in 1 .. Len(events) : events[j] = g[from[m] + j]) /\ from[m] \in Nat
    BY <2>1, <1>5, <1>6, <1>7 DEF After
  <2> HIDE DEF all, events, ready
  <2>3. Len(x) = 0
    <3> SUFFICES ASSUME Len(x) # 0 PROVE FALSE
      OBVIOUS
    <3>1. Len(events) \in 1 .. Len(events) /\ Len(events) # 0
      BY <1>1, <1>2, <1>4
    <3>2. Len(g) \in 1 .. Len(g)
      BY <3>1, <2>2, <1>1, <1>4, SMTT(30)
    <3>3. events[Len(events)] = all[Len(all)] /\ events[Len(events)] = g[Len(g)]
      BY <3>1, <1>2, <2>2
    <3>4. Len(all) \in Len(g) + 1 .. Len(all)
      BY <1>1
    <3>5. all[Len(all)].time = now /\ g[Len(g)].time < now
      BY <3>2, <3>4, <1>1
    <3> QED
      BY <3>3, <3>5
  <2>4. all = g
    <3>1. x = <<>> /\ g \in Seq(Commands)
      BY <2>3, EmptySeq DEF Later
    <3>2. g \o <<>> = g
      BY <3>1, ConcatEmptySeq
    <3> QED
      BY <3>1, <3>2 DEF all
  <2>5. ready = now - 1
    BY <2>2, <1>2, <1>3
  <2>6. Enqueue(queue, pack) = queue
    <3>1. queue # <<>> /\ Last(queue) = pack
      BY <1>7 DEF Last
    <3> QED
      BY <3>1 DEF Enqueue
  <2> QED
    BY <2>4, <2>5, <2>6 DEF all, ready
<1>8. CASE ~ (m # 0 /\ queue[m] = pack)
  <2> DEFINE longer == Append(queue, pack)
             f == [i \in 1 .. m + 1 |-> IF i = m + 1 THEN a ELSE from[i]]
  <2>1. Enqueue(queue, pack) = longer
    <3>1. ~ (queue # <<>> /\ Last(queue) = pack)
      <4>1. queue # <<>> => Len(queue) # 0
        BY EmptySeq
      <4> QED
        BY <4>1, <1>8 DEF Last
    <3> QED
      BY <3>1 DEF Enqueue
  <2>2. /\ Len(longer) = m + 1 /\ longer[m + 1] = pack
        /\ \A i \in 1 .. m : longer[i] = queue[i]
    BY AppendProperties
  <2>3. /\ f[m + 1] = a /\ \A i \in 1 .. m : f[i] = from[i]
        /\ f \in [1 .. m + 1 -> 0 .. Len(all)] /\ f \in [1 .. m + 1 -> Nat]
    <3>1. m + 1 \in 1 .. m + 1 /\ \A i \in 1 .. m : i \in 1 .. m + 1 /\ i # m + 1
      BY <1>4
    <3>2. a \in 0 .. Len(all) /\ a \in Nat
      BY <1>1, <1>2
    <3>3. \A i \in 1 .. m : from[i] \in 0 .. Len(all) /\ from[i] \in Nat
      <4> HIDE DEF m, all
      <4> QED
        BY <1>6, <1>1
    <3> HIDE DEF m, all
    <3>4. \A i \in 1 .. m + 1 : i # m + 1 => i \in 1 .. m
      BY <1>4
    <3> QED
      BY <3>1, <3>2, <3>3, <3>4
  <2>4. After(longer, q, f, m + 1) = Len(all)
    BY <2>2, <2>3, <1>2 DEF After
  <2>5. \A i \in 1 .. m : After(longer, q, f, i) = After(queue, q, from, i)
    BY <2>2, <2>3 DEF After
  <2> HIDE DEF longer, f
  <2> DEFINE Good(i) ==
                 /\ PackOK(longer[i], q, f[i], all, ready)
                 /\ Reached(head, known, longer[i].frameReadyToCommit)
                 /\ Len(known) <= After(longer, q, f, i)
                 /\ f[i] <= (IF i = 1 THEN Len(known) ELSE After(longer, q, f, i - 1))
                 /\ \A j \in i .. m + 1 :
                      /\ longer[i].frameReadyToCommit <= longer[j].frameReadyToCommit
                      /\ After(longer, q, f, i) <= After(longer, q, f, j)
  <2>6. ASSUME NEW i \in 1 .. m PROVE Good(i)
    <3>1. longer[i] = queue[i] /\ f[i] = from[i] /\ After(longer, q, f, i) = After(queue, q, from, i)
      BY <2>2, <2>3, <2>5
    <3>2. PackOK(queue[i], q, from[i], all, ready)
      <4>1. PackOK(queue[i], q, from[i], g, now - 1) /\ queue[i] \in Packs(src) /\ from[i] \in Nat
        BY <1>5, <1>6
      <4> HIDE DEF all, ready, m
      <4>2. PackOK(queue[i], q, from[i], g \o x, ready)
        BY <4>1, <1>2, <1>3, PackStays
      <4> QED
        BY <4>2 DEF all
    <3>3. from[i] <= (IF i = 1 THEN Len(known) ELSE After(longer, q, f, i - 1))
      <4>1. from[i] <= (IF i = 1 THEN Len(known) ELSE After(queue, q, from, i - 1))
        BY <1>5
      <4>2. CASE i = 1
        BY <4>1, <4>2
      <4>3. CASE i # 1
        <5>1. i - 1 \in 1 .. m
          BY <4>3, <1>4
        <5> QED
          BY <4>1, <4>3, <5>1, <2>5
      <4> QED
        BY <4>2, <4>3
    <3>4. ASSUME NEW j \in i .. m + 1
          PROVE  /\ longer[i].frameReadyToCommit <= longer[j].frameReadyToCommit
                 /\ After(longer, q, f, i) <= After(longer, q, f, j)
      <4>1. CASE j = m + 1
        <5>1. longer[j].frameReadyToCommit = ready /\ After(longer, q, f, j) = Len(all)
          BY <4>1, <2>2, <2>4
        <5>2. queue[i].frameReadyToCommit <= now - 1 /\ After(queue, q, from, i) <= Len(g)
              /\ queue[i].frameReadyToCommit \in Nat /\ After(queue, q, from, i) \in Nat
          BY <1>6
        <5>3. queue[i].frameReadyToCommit <= ready /\ After(queue, q, from, i) <= Len(all)
          <6> DEFINE r1 == queue[i].frameReadyToCommit
                     a1 == After(queue, q, from, i)
          <6> HIDE DEF all, ready, r1, a1
          <6>1. r1 <= now - 1 /\ a1 <= Len(g) /\ r1 \in Nat /\ a1 \in Nat
            BY <5>2 DEF r1, a1
          <6>2. r1 <= ready /\ a1 <= Len(all)
            BY <6>1, <1>1, <1>2, <1>3
          <6> QED
            BY <6>2 DEF r1, a1
        <5> QED
          BY <5>1, <5>3, <3>1
      <4>2. CASE j # m + 1
        <5>1. j \in 1 .. m /\ j \in i .. m
          <6> HIDE DEF m
          <6> QED
            BY <4>2, <1>4
        <5>2. longer[j] = queue[j] /\ After(longer, q, f, j) = After(queue, q, from, j)
          BY <5>1, <2>2, <2>5
        <5> QED
          BY <5>1, <5>2, <3>1, <1>5
      <4> QED
        BY <4>1, <4>2
    <3> QED
      BY <3>1, <3>2, <3>3, <3>4, <1>5
  <2>7. Good(m + 1)
    <3>1. PackOK(pack, q, a, g \o x, pack.frameReadyToCommit)
      BY PackIsWhole
    <3>2. PackOK(longer[m + 1], q, f[m + 1], all, ready)
      BY <3>1, <2>2, <2>3
    <3>3. Reached(head, known, longer[m + 1].frameReadyToCommit)
      <4>1. longer[m + 1].frameReadyToCommit = ready
        BY <2>2
      <4> HIDE DEF ready
      <4>2. CASE head <= now - 1
        <5>1. head <= ready
          BY <4>2, <1>2, <1>3
        <5> QED
          BY <5>1, <4>1 DEF Reached
      <4>3. CASE ~ (head <= now - 1)
        BY <4>1, <4>3 DEF Reached
      <4> QED
        BY <4>2, <4>3
    <3>4. Len(known) <= Len(all)
      <4> HIDE DEF all
      <4> QED
        BY <1>1, <1>4
    <3>5. a <= (IF m + 1 = 1 THEN Len(known) ELSE After(longer, q, f, m + 1 - 1))
      <4>1. CASE m = 0
        <5>1. Len(g) = Len(known) /\ m + 1 = 1
          BY <4>1, <1>5
        <5> QED
          BY <5>1, <1>2
      <4>2. CASE m # 0
        <5>1. m \in 1 .. m /\ m + 1 # 1 /\ m + 1 - 1 = m
          BY <4>2, <1>4
        <5>2. After(longer, q, f, m) = Len(g)
          BY <5>1, <4>2, <2>5, <1>5
        <5> QED
          BY <5>1, <5>2, <1>2
      <4> QED
        BY <4>1, <4>2
    <3>6. \A j \in m + 1 .. m + 1 : j = m + 1
      BY <1>4
    <3>7. Len(all) <= Len(all) /\ ready <= ready
      BY <1>1, <1>3
    <3> QED
      BY <3>2, <3>3, <3>4, <3>5, <3>6, <3>7, <2>2, <2>3, <2>4
  <2>8. Carries(longer, 0, q, f, head, known, all, ready)
    <3> HIDE DEF m, all, ready
    <3>1. 0 + 1 = 1 /\ m + 1 # 0 /\ \A i \in 1 .. m + 1 : i = m + 1 \/ i \in 1 .. m
      BY <1>4
    <3> HIDE DEF Good
    <3>2. Good(m + 1) /\ \A i \in 1 .. m : Good(i)
      BY <2>6, <2>7
    <3>3. \A i \in 1 .. m + 1 : Good(i)
      BY <3>1, <3>2
    <3> QED
      BY <3>1, <3>3, <2>2, <2>3, <2>4 DEF Carries, Good
  <2> QED
    <3>1. f \in [1 .. Len(longer) -> 0 .. Len(all)]
      BY <2>2, <2>3
    <3> QED
      BY <3>1, <2>8, <2>1 DEF all, ready
<1> QED
  BY <1>7, <1>8

\* What a frame sends.
Sent(p, sent, stall) ==
  PreparePackForSend(sent, p, IF stall THEN frame[p] - 1 ELSE frame[p])

\* The packs that are on their way after a frame.
Queues(p, arrived, pack) ==
  \A src, dst \in Peers :
    packs'[src][dst] =
      CASE src = p /\ dst # p -> Enqueue(packs[src][dst], pack)
        [] src # p /\ dst = p ->
             SubSeq(packs[src][dst], arrived[src] + 1, Len(packs[src][dst]))
        [] OTHER -> packs[src][dst]

\* The pack a frame sends, and what becomes of the queues.
PacksMove(p, arrived, sent, stall) ==
  LET pack == Sent(p, sent, stall)
  IN  /\ pack \in Packs(p)
      /\ pack.frameReadyToCommit = frame'[p] - 1
      /\ frame[p] - 1 <= frame'[p] - 1 /\ frame[p] - 1 \in Nat /\ frame'[p] - 1 \in Nat
      /\ \A q \in Local(p) : pack.streams[q] = sent.unc[q].events
      /\ Queues(p, arrived, pack)
      /\ packs' = Exchange(p, pack, arrived)

\* A frame sends the uncommitted commands of its own players.
LEMMA PacksAre ==
  ASSUME IInv, NEW p \in Peers, NEW pressed, NEW arrived, NEW last \in Nat, NEW ready \in Nat,
         NEW stall \in BOOLEAN, NEW sent, FrameIs(p, pressed, arrived, last, ready, stall, sent)
  PROVE  PacksMove(p, arrived, sent, stall)
<1> DEFINE r == IF stall THEN frame[p] - 1 ELSE frame[p]
<1>1. FrameSends(p, pressed, last, sent) /\ FrameChanges(p, arrived, last, stall, sent)
  BY DEF FrameIs
<1>2. frame'[p] = IF stall THEN frame[p] ELSE frame[p] + 1
  BY NewStreams
<1>3. frame[p] \in Nat /\ 1 <= frame[p]
  BY DEF IInv, Rest, ClockOK
<1>4. r \in Nat /\ r = frame'[p] - 1 /\ frame[p] - 1 <= frame'[p] - 1 /\ frame[p] - 1 \in Nat
  BY <1>2, <1>3
<1> HIDE DEF r
<1>5. Local(p) \subseteq Players
  BY DEF Local
<1>6. StreamsOK(sent, last)
  BY <1>1 DEF FrameSends
<1>7. \A q \in Local(p) : sent.unc[q].events \in Seq(Commands)
  BY <1>5, <1>6, PeerStreams
<1>8. Sent(p, sent, stall) = [frameReadyToCommit |-> r,
                              streams |-> [q \in Local(p) |-> sent.unc[q].events]]
  BY DEF Sent, PreparePackForSend, r
<1>9. Sent(p, sent, stall) \in Packs(p)
  BY <1>4, <1>7, <1>8 DEF Packs
<1>10. packs' = Exchange(p, Sent(p, sent, stall), arrived)
  BY <1>1 DEF FrameChanges, Sent
<1>11. Queues(p, arrived, Sent(p, sent, stall))
  BY <1>10 DEF Exchange, Queues
<1> QED
  BY <1>4, <1>8, <1>9, <1>10, <1>11 DEF PacksMove

\* A peer that has run the frame: what it has merged.
LEMMA ReceiverKept ==
  ASSUME IInv, EveryPeerPlays, NEW p \in Peers, NEW pressed, NEW arrived \in Arrivals(p),
         NEW last \in Nat, NEW ready \in Nat,
         NEW stall \in BOOLEAN, NEW sent, FrameIs(p, pressed, arrived, last, ready, stall, sent),
         NEW q \in Players, Owner[q] # p
  PROVE  RemoteOK(p, q)'
<1> DEFINE r == Owner[q]
           g == Given(r, q)
           queue == packs[r][p]
           n == arrived[r]
           head == unc'[p][q].head
           known == Given(p, q)'
           frames == frame[r] - 1
<1>1. r \in Peers \ {p}
  BY ConstantsAssumption
<1>2. PICK from \in [1 .. Len(queue) -> 0 .. Len(g)] : Remote(p, Here(p)', q, n, from, g)
  <2>1. q \in Players \ Local(p)
    BY DEF Local
  <2> QED
    BY <2>1 DEF FrameIs, FrameKeeps
<1>3. Whole(Here(p)', q) = known /\ (Here(p)').unc[q].head = head
  BY NewStreams
<1>4. /\ KnowsAllUpTo(head, known, g)
      /\ Reached(head, known, frames)
      /\ Carries(queue, n, q, from, head, known, g, frames)
  BY <1>2, <1>3 DEF Remote, Follows
<1>5. g \in Seq(Commands) /\ Len(g) \in Nat
  BY RemoteStreams
<1>6. queue \in Seq(Packs(r)) /\ n \in 0 .. Len(queue)
  <2>1. PacksOK(p)
    BY StartOfFrame
  <2> QED
    BY <1>1, <2>1, ArrivedIs DEF PacksOK
<1>7. Given(r, q)' = g /\ frame'[r] = frame[r]
  BY <1>1, Elsewhere
<1>8. packs'[r][p] = SubSeq(queue, n + 1, Len(queue))
  <2>1. Queues(p, arrived, Sent(p, sent, stall))
    <3>1. PacksMove(p, arrived, sent, stall)
      BY PacksAre
    <3> QED
      BY <3>1 DEF PacksMove
  <2> QED
    BY <1>1, <2>1 DEF Queues
<1> HIDE DEF r, g, queue, n, head, known, frames
<1>9. PICK tail : /\ tail \in [1 .. Len(SubSeq(queue, n + 1, Len(queue))) -> 0 .. Len(g)]
                  /\ Carries(SubSeq(queue, n + 1, Len(queue)), 0, q, tail, head, known, g, frames)
  BY <1>1, <1>2, <1>4, <1>5, <1>6, CarriesRest
<1> QED
  BY <1>4, <1>7, <1>8, <1>9 DEF RemoteOK, r, g, known, head, frames

\* The other peers, which the frame's pack will reach.
LEMMA SenderKept ==
  ASSUME IInv, NoSecondThoughts, NEW p \in Peers, NEW pressed \in Presses(p), NEW arrived,
         NEW last \in Nat, NEW ready \in Nat,
         NEW stall \in BOOLEAN, NEW sent, FrameIs(p, pressed, arrived, last, ready, stall, sent),
         NEW q \in Local(p), NEW d \in Peers \ {p}
  PROVE  RemoteOK(d, q)'
<1> DEFINE g == Given(p, q)
           x == Pressed(pressed[q], frame[p])
           now == frame[p]
           queue == packs[p][d]
           head == unc[d][q].head
           known == Given(d, q)
           pack == Sent(p, sent, stall)
           a == Len(sent.com[q].events)
<1>0. q \in Players /\ Owner[q] = p
  BY DEF Local
<1>1. /\ g \in Seq(Commands) /\ Len(g) \in Nat
      /\ \E from \in [1 .. Len(queue) -> 0 .. Len(g)] : Remote(d, Here(d), q, 0, from, g)
  <2>1. q \in Players \ Local(d)
    BY <1>0 DEF Local
  <2> QED
    BY <1>0, <2>1, RemoteStreams
<1>2. PICK from \in [1 .. Len(queue) -> 0 .. Len(g)] : Remote(d, Here(d), q, 0, from, g)
  BY <1>1
<1>3. Whole(Here(d), q) = known /\ Here(d).unc[q].head = head
  BY DEF Whole, Here, Given
<1>4. /\ KnowsAllUpTo(head, known, g)
      /\ Reached(head, known, now - 1)
      /\ Carries(queue, 0, q, from, head, known, g, now - 1)
  BY <1>0, <1>2, <1>3 DEF Remote, Follows
<1>5. StreamsOK(Here(d), CommitHead(d)) /\ CommitHead(d) \in Nat
  BY DEF IInv, Rest, Here, StreamsOK
<1>6. known \in Seq(Commands) /\ head \in Nat
  <2>1. Whole(Here(d), q) \in Seq(Commands)
    BY <1>0, <1>5, WholeIs
  <2>2. Here(d).unc[q].head \in Nat
    BY <1>0, <1>5, PeerStreams
  <2> QED
    BY <2>1, <2>2, <1>3
<1>7. Gives(p, q, sent, x)
  BY OwnGiven
<1>8. now \in Nat /\ now >= 1
  BY DEF IInv, Rest, ClockOK
<1>9. /\ pack \in Packs(p) /\ pack.frameReadyToCommit = frame'[p] - 1
      /\ now - 1 <= frame'[p] - 1
      /\ pack.streams[q] = sent.unc[q].events
      /\ packs'[p][d] = Enqueue(queue, pack)
  <2>0. PacksMove(p, arrived, sent, stall)
    BY PacksAre
  <2>1. Queues(p, arrived, pack)
    BY <2>0 DEF PacksMove
  <2> HIDE DEF pack
  <2>2. packs'[p][d] = Enqueue(queue, pack)
    BY <2>1 DEF Queues
  <2> QED
    BY <2>0, <2>2 DEF PacksMove, pack
<1>10. StreamsOK(sent, last) /\ a <= Len(g) /\ last < now
  BY DEF FrameIs, FrameSends, FrameTimes
<1>11. queue \in Seq(Packs(p))
  BY DEF IInv, Types
<1>12. Given(p, q)' = g \o x /\ Whole(sent, q) = g \o x
  BY <1>7 DEF Gives
<1>13. Given(d, q)' = known /\ unc'[d] = unc[d]
  BY <1>0, Elsewhere
<1> HIDE DEF x
<1>14. Later(g, x, now)
  BY <1>7 DEF Gives, Later, NoSecondThoughts
<1>15. Sends(pack, q, a, g, x, now)
  <2> DEFINE all == g \o x
             c == sent.com[q].events
             u == sent.unc[q].events
  <2>1. /\ all = c \o u /\ c \in Seq(Commands) /\ u \in Seq(Commands)
        /\ \A i \in 1 .. Len(c) : c[i].time <= last
    <3>1. c \in Seq(Commands) /\ u \in Seq(Commands)
          /\ Divided(c, u, last, sent.unc[q].head)
      BY <1>0, <1>10, PeerStreams
    <3> QED
      BY <3>1, <1>12 DEF Whole, Divided
  <2> HIDE DEF c, u
  <2>2. /\ Len(all) = Len(c) + Len(u) /\ Len(c) \in Nat /\ Len(u) \in Nat
        /\ \A i \in 1 .. Len(c) : all[i] = c[i] /\ c[i].time \in Nat
        /\ \A i \in 1 .. Len(u) : all[Len(c) + i] = u[i]
    BY <2>1, JoinOf, ElementsOf
  <2>3. \A i \in 1 .. Len(g) : all[i] = g[i]
    BY <1>8, <1>14, LaterIs
  <2> HIDE DEF all
  <2>4. Len(c) <= Len(g)
    BY <1>10 DEF c
  <2>5. \A j \in 1 .. Len(c) : g[j].time < now
    <3> TAKE j \in 1 .. Len(c)
    <3>1. j \in 1 .. Len(g)
      BY <2>2, <2>4, <1>1
    <3>2. g[j] = c[j] /\ c[j].time <= last /\ c[j].time \in Nat
      BY <3>1, <2>1, <2>2, <2>3
    <3> HIDE DEF now, g
    <3> QED
      BY <3>2, <1>8, <1>10
  <2>6. pack.streams[q] = u /\ a = Len(c)
    BY <1>9 DEF u, c
  <2>7. now - 1 <= pack.frameReadyToCommit
    BY <1>9
  <2> HIDE DEF pack, a, now, g
  <2> QED
    BY <2>2, <2>4, <2>5, <2>6, <2>7, SMTT(30) DEF Sends, all
<1>16. Len(known) <= Len(g)
  BY <1>4 DEF KnowsAllUpTo, Beginning
<1>17. KnowsAllUpTo(head, known, g \o x)
  BY <1>4, <1>6, <1>8, <1>14, StillKnows
<1>18. Reached(head, known, frame'[p] - 1)
  <2>1. CASE head <= now - 1
    <3>1. frame'[p] - 1 \in Nat /\ now - 1 \in Nat
      <4>1. PacksMove(p, arrived, sent, stall)
        BY PacksAre
      <4> QED
        BY <4>1 DEF PacksMove
    <3>2. head <= frame'[p] - 1
      <4> DEFINE f1 == frame'[p] - 1
                 n1 == now - 1
      <4>1. f1 \in Nat /\ n1 \in Nat /\ n1 <= f1 /\ head <= n1
        BY <2>1, <3>1, <1>9
      <4> HIDE DEF f1, n1, head
      <4>2. head <= f1
        BY <4>1, <1>6
      <4> QED
        BY <4>2 DEF f1
    <3> QED
      BY <3>2 DEF Reached
  <2>2. CASE ~ (head <= now - 1)
    BY <2>2, <1>4 DEF Reached
  <2> QED
    BY <2>1, <2>2
<1> HIDE DEF g, now, queue, head, known, pack, a
<1>19. \E f \in [1 .. Len(Enqueue(queue, pack)) -> 0 .. Len(g \o x)] :
         Carries(Enqueue(queue, pack), 0, q, f, head, known, g \o x, pack.frameReadyToCommit)
  BY <1>2, <1>4, <1>6, <1>8, <1>9, <1>11, <1>14, <1>15, <1>16, EnqueueCarries
<1> DEFINE all == g \o x
           longer == Enqueue(queue, pack)
           frames == frame'[p] - 1
<1>20. \E f \in [1 .. Len(longer) -> 0 .. Len(all)] :
         Carries(longer, 0, q, f, head, known, all, frames)
  BY <1>19, <1>9
<1>21. /\ Given(p, q)' = all /\ Given(d, q)' = known /\ (unc[d][q].head)' = head
       /\ packs'[p][d] = longer
  BY <1>9, <1>12, <1>13 DEF head
<1>22. KnowsAllUpTo(head, known, all) /\ Reached(head, known, frames)
  BY <1>17, <1>18
<1> HIDE DEF all, longer
<1> QED
  BY <1>0, <1>20, <1>21, <1>22 DEF RemoteOK

\* All of them.
LEMMA RemoteKept ==
  ASSUME IInv, EveryPeerPlays, NoSecondThoughts, NEW p \in Peers,
         NEW pressed \in Presses(p), NEW arrived \in Arrivals(p),
         NEW last \in Nat, NEW ready \in Nat,
         NEW stall \in BOOLEAN, NEW sent, FrameIs(p, pressed, arrived, last, ready, stall, sent),
         NEW q \in Players, NEW d \in Peers \ {Owner[q]}
  PROVE  RemoteOK(d, q)'
<1>1. Owner[q] \in Peers
  BY ConstantsAssumption
<1>2. CASE d = p
  BY <1>2, ReceiverKept
<1>3. CASE d # p /\ Owner[q] = p
  <2>1. q \in Local(p) /\ d \in Peers \ {p}
    BY <1>3 DEF Local
  <2> QED
    BY <2>1, SenderKept
<1>4. CASE d # p /\ Owner[q] # p
  <2> DEFINE r == Owner[q]
  <2>1. d \in Peers \ {p} /\ r \in Peers \ {p}
    BY <1>1, <1>4
  <2>2. /\ unc'[d] = unc[d] /\ Given(d, q)' = Given(d, q)
        /\ frame'[r] = frame[r] /\ Given(r, q)' = Given(r, q)
    BY <2>1, Elsewhere
  <2>3. packs'[r][d] = packs[r][d]
    <3>0. PacksMove(p, arrived, sent, stall)
      BY PacksAre
    <3>1. Queues(p, arrived, Sent(p, sent, stall))
      BY <3>0 DEF PacksMove
    <3> HIDE DEF r
    <3> QED
      BY <2>1, <3>1 DEF Queues
  <2>4. RemoteOK(d, q)
    BY DEF IInv, Rest
  <2> QED
    BY <2>2, <2>3, <2>4 DEF RemoteOK
<1> QED
  BY <1>2, <1>3, <1>4

\* The commands of a frame are commands.
LEMMA CommandsType ==
  ASSUME NEW s, NEW h \in Nat, StreamsOK(s, h), NEW f \in Nat
  PROVE  CommandsAt(s, f) \in [Players -> Seq(Inputs)]
<1>1. ASSUME NEW q \in Players PROVE At(s.com[q].events \o s.unc[q].events, f) \in Seq(Inputs)
  <2>1. Whole(s, q) \in Seq(Commands) /\ Ordered(Whole(s, q))
    BY WholeIs
  <2>2. At(Whole(s, q), f) \in Seq(Inputs)
    BY <2>1, AtType
  <2> QED
    BY <2>2 DEF Whole
<1> QED
  BY <1>1 DEF CommandsAt

\* The types.
LEMMA TypesKept ==
  ASSUME IInv, EveryPeerPlays, NEW p \in Peers, NEW pressed, NEW arrived \in Arrivals(p),
         NEW last \in Nat, NEW ready \in Nat,
         NEW stall \in BOOLEAN, NEW sent, FrameIs(p, pressed, arrived, last, ready, stall, sent)
  PROVE  Types'
<1> DEFINE now == frame[p]
           H == CommitHead(p)
<1>0. FrameChanges(p, arrived, last, stall, sent) /\ FrameSends(p, pressed, last, sent)
  BY DEF FrameIs
<1>1. Types
  BY DEF IInv
<1>2. frame' \in [Peers -> Nat]
  <2>1. frame'[p] \in Nat
    BY ClockKept
  <2>2. frame' = [frame EXCEPT ![p] = IF stall THEN now ELSE now + 1]
    BY <1>0 DEF FrameChanges
  <2> QED
    BY <2>1, <2>2, <1>1 DEF Types
<1>3. com' \in [Peers -> [Players -> Streams]] /\ unc' \in [Peers -> [Players -> Streams]]
  <2>1. com'[p] \in [Players -> Streams] /\ unc'[p] \in [Players -> Streams]
    BY NewStreams
  <2>2. com' = [com EXCEPT ![p] = com'[p]] /\ unc' = [unc EXCEPT ![p] = unc'[p]]
    BY <1>0 DEF FrameChanges
  <2>3. com \in [Peers -> [Players -> Streams]] /\ unc \in [Peers -> [Players -> Streams]]
    BY <1>1 DEF Types
  <2> QED
    BY <2>1, <2>2, <2>3
<1>4. mode' \in [Peers -> SimulationModes]
  <2>1. mode' = [mode EXCEPT ![p] = mode'[p]] /\ mode'[p] \in SimulationModes
    BY <1>0 DEF FrameChanges
  <2>2. mode \in [Peers -> SimulationModes]
    BY <1>1 DEF Types
  <2> QED
    BY <2>1, <2>2
<1>5. sim' \in [Peers -> [0 .. MaxFrame -> [Players -> Seq(Inputs)]]]
  <2> DEFINE resim == IF H < last THEN H .. now - 1 ELSE {}
             new == [f \in 0 .. MaxFrame |->
                      CASE f = now -> CommandsAt(sent, f)
                        [] f \in resim -> CommandsAt(Here(p), f)
                        [] OTHER -> sim[p][f]]
  <2>1. sim' = [sim EXCEPT ![p] = new]
    BY <1>0 DEF FrameChanges
  <2>2. sim \in [Peers -> [0 .. MaxFrame -> [Players -> Seq(Inputs)]]]
    BY <1>1 DEF Types
  <2>3. ASSUME NEW f \in 0 .. MaxFrame
        PROVE  /\ CommandsAt(sent, f) \in [Players -> Seq(Inputs)]
               /\ CommandsAt(Here(p), f) \in [Players -> Seq(Inputs)]
    <3>1. f \in Nat
      OBVIOUS
    <3>2. StreamsOK(sent, last)
      BY <1>0 DEF FrameSends
    <3>3. StreamsOK(Here(p), H) /\ H \in Nat
      BY DEF IInv, Rest, Here, StreamsOK
    <3> HIDE DEF H
    <3> QED
      BY <3>1, <3>2, <3>3, CommandsType
  <2> HIDE DEF resim, now
  <2>4. new \in [0 .. MaxFrame -> [Players -> Seq(Inputs)]]
    BY <2>2, <2>3, ZenonT(60)
  <2> HIDE DEF new
  <2> QED
    BY <2>1, <2>2, <2>4
<1>6. window' \in [Peers -> SUBSET Nat]
  <2>1. window \in [Peers -> SUBSET Nat] /\ now \in Nat
    BY <1>1 DEF Types
  <2>2. H \in Nat
    BY DEF IInv, Rest, StreamsOK
  <2> DEFINE resim == IF H < last THEN H .. now - 1 ELSE {}
             simulated == Simulated(p, resim, H)
             new == IF stall THEN RewindBefore(simulated, now) ELSE simulated
  <2>3. window' = [window EXCEPT ![p] = new]
    BY <1>0 DEF FrameChanges
  <2>4. resim \in SUBSET Nat
    <3> HIDE DEF H, now
    <3> QED
      BY <2>1, <2>2
  <2> HIDE DEF resim
  <2>5. simulated \in SUBSET Nat
    BY <2>1, <2>4 DEF Simulated, KeepNewest, RewindBefore
  <2> HIDE DEF simulated
  <2>6. new \in SUBSET Nat
    BY <2>5 DEF RewindBefore
  <2> HIDE DEF new
  <2> QED
    BY <2>1, <2>3, <2>6
<1>7. PacksMove(p, arrived, sent, stall)
  BY PacksAre
<1> DEFINE pack == Sent(p, sent, stall)
<1>8. ASSUME NEW src \in Peers, NEW dst \in Peers
      PROVE  /\ packs'[src][dst] \in Seq(Packs(src))
             /\ src = dst => packs'[src][dst] = <<>>
  <2>1. /\ pack \in Packs(p)
        /\ packs'[src][dst] =
             CASE src = p /\ dst # p -> Enqueue(packs[src][dst], pack)
               [] src # p /\ dst = p ->
                    SubSeq(packs[src][dst], arrived[src] + 1, Len(packs[src][dst]))
               [] OTHER -> packs[src][dst]
    BY <1>7 DEF PacksMove, Queues
  <2> HIDE DEF pack
  <2>2. packs[src][dst] \in Seq(Packs(src)) /\ (src = dst => packs[src][dst] = <<>>)
    BY <1>1 DEF Types
  <2>3. CASE src = p /\ dst # p
    <3>1. packs'[src][dst] = Enqueue(packs[src][dst], pack)
      BY <2>1, <2>3
    <3>2. Append(packs[src][dst], pack) \in Seq(Packs(src))
      BY <2>1, <2>2, <2>3, AppendProperties
    <3> QED
      BY <3>1, <3>2, <2>2, <2>3 DEF Enqueue
  <2>4. CASE src # p /\ dst = p
    <3> DEFINE queue == packs[src][dst]
               n == arrived[src]
    <3>1. packs'[src][dst] = SubSeq(queue, n + 1, Len(queue))
      BY <2>1, <2>4
    <3>2. n \in 0 .. Len(queue)
      <4>1. PacksOK(p)
        BY StartOfFrame
      <4> QED
        BY <4>1, <2>4, ArrivedIs
    <3>3. \A i \in n + 1 .. Len(queue) : queue[i] \in Packs(src)
      <4>1. Len(queue) \in Nat /\ \A i \in 1 .. Len(queue) : queue[i] \in Packs(src)
        BY <2>2, LenProperties, ElementOfSeq
      <4> HIDE DEF queue, n
      <4> QED
        BY <4>1, <3>2
    <3>4. n + 1 \in Int /\ Len(queue) \in Int
      <4>1. Len(queue) \in Nat
        BY <2>2, LenProperties
      <4> HIDE DEF queue, n
      <4> QED
        BY <4>1, <3>2
    <3> HIDE DEF queue, n
    <3>5. SubSeq(queue, n + 1, Len(queue)) \in Seq(Packs(src))
      BY <3>3, <3>4, SubSeqProperties
    <3> QED
      BY <3>1, <3>5, <2>4
  <2>5. CASE ~ (src = p /\ dst # p) /\ ~ (src # p /\ dst = p)
    <3>1. packs'[src][dst] = packs[src][dst]
      BY <2>1, <2>5
    <3> QED
      BY <3>1, <2>2
  <2> QED
    BY <2>3, <2>4, <2>5
<1>9. packs' \in [Peers -> [Peers -> UNION {Seq(Packs(src)) : src \in Peers}]]
  <2>1. packs' = Exchange(p, pack, arrived)
    BY <1>7 DEF PacksMove
  <2> DEFINE E(src, dst) ==
               CASE src = p /\ dst # p -> Enqueue(packs[src][dst], pack)
                 [] src # p /\ dst = p ->
                      SubSeq(packs[src][dst], arrived[src] + 1, Len(packs[src][dst]))
                 [] OTHER -> packs[src][dst]
  <2>2. packs' = [src \in Peers |-> [dst \in Peers |-> E(src, dst)]]
    BY <2>1 DEF Exchange
  <2> HIDE DEF E
  <2>3. \A src, dst \in Peers : packs'[src][dst] = E(src, dst)
    BY <2>2
  <2>4. \A src, dst \in Peers : E(src, dst) \in UNION {Seq(Packs(x)) : x \in Peers}
    BY <2>3, <1>8
  <2> QED
    BY <2>2, <2>4
<1>10. failed' = [x \in Peers |-> FALSE]
  BY <1>0, <1>1 DEF FrameChanges, Types
<1>11. (\A src, dst \in Peers : packs'[src][dst] \in Seq(Packs(src)))
       /\ \A src \in Peers : packs'[src][src] = <<>>
  BY <1>8
<1> QED
  BY <1>2, <1>3, <1>4, <1>5, <1>6, <1>9, <1>10, <1>11 DEF Types, Packs, Local

\* A frame keeps the invariant.
LEMMA FrameKeepsInvariant ==
  ASSUME IInv, EveryPeerPlays, NoSecondThoughts, NEW p \in Peers, Frame(p)
  PROVE  IInv'
<1>1. PICK pressed \in Presses(p), arrived \in Arrivals(p),
           last \in Nat, ready \in Nat, stall \in BOOLEAN : \E sent :
           /\ FrameTimes(p, last, ready, stall)
           /\ FrameSends(p, pressed, last, sent)
           /\ FrameKeeps(p, arrived, ready, sent)
           /\ FrameChanges(p, arrived, last, stall, sent)
  BY FrameDoes
<1>2. PICK sent : FrameIs(p, pressed, arrived, last, ready, stall, sent)
  BY <1>1 DEF FrameIs
<1>3. Types'
  BY <1>2, TypesKept
<1>4. ASSUME NEW x \in Peers
      PROVE  /\ StreamsOK([com |-> com[x], unc |-> unc[x]], CommitHead(x))'
             /\ ClockOK(x)' /\ WindowOK(x)' /\ SimOK(x)'
  <2>1. CASE x = p
    <3>1. StreamsOK(Here(p)', ready) /\ CommitHead(p)' = ready
      BY <1>2, NewStreams
    <3>2. StreamsOK([com |-> com[p], unc |-> unc[p]], CommitHead(p))'
      BY <3>1 DEF Here, StreamsOK
    <3>3. ClockOK(p)'
      BY <1>2, ClockKept
    <3>4. WindowOK(p)'
      BY <1>2, WindowKept
    <3>5. SimOK(p)'
      BY <1>2, SimKept
    <3> QED
      BY <2>1, <3>2, <3>3, <3>4, <3>5
  <2>2. CASE x # p
    <3>1. /\ com'[x] = com[x] /\ unc'[x] = unc[x] /\ sim'[x] = sim[x]
          /\ window'[x] = window[x] /\ frame'[x] = frame[x]
          /\ CommitHead(x)' = CommitHead(x)
          /\ \A q \in Players : Given(x, q)' = Given(x, q)
      BY <1>2, <2>2, Elsewhere
    <3>2. StreamsOK([com |-> com[x], unc |-> unc[x]], CommitHead(x))
          /\ ClockOK(x) /\ WindowOK(x) /\ SimOK(x)
      BY DEF IInv, Rest
    <3>3. StreamsOK([com |-> com[x], unc |-> unc[x]], CommitHead(x))'
      BY <3>1, <3>2 DEF StreamsOK
    <3>4. ClockOK(x)' /\ WindowOK(x)'
      BY <3>1, <3>2 DEF ClockOK, WindowOK
    <3>5. SimOK(x)'
      BY <3>1, <3>2 DEF SimOK
    <3> QED
      BY <3>3, <3>4, <3>5
  <2> QED
    BY <2>1, <2>2
<1>5. \A q \in Players : OwnOK(q)'
  BY <1>2, OwnKept
<1>6. ASSUME NEW q \in Players, NEW d \in Peers \ {Owner[q]} PROVE RemoteOK(d, q)'
  BY <1>2, RemoteKept
<1>7. /\ (failed = [x \in Peers |-> FALSE])' /\ (\A x \in Peers : packs[x][x] = <<>>)'
      /\ (frame \in [Peers -> Nat])'
  BY <1>3 DEF Types
<1>8. Rest'
  BY <1>4, <1>5, <1>6, <1>7 DEF Rest
<1> QED
  BY <1>3, <1>8 DEF IInv

\* A stream to which nothing has been written.
LEMMA NothingYet ==
  /\ EmptyStream(0) = [events |-> <<>>, head |-> 0]
  /\ EmptyStream(0) \in Streams
  /\ EmptyStream(0).events = <<>> /\ EmptyStream(0).head = 0
  /\ EmptyStream(0).events \o EmptyStream(0).events = <<>>
  /\ <<>> \in Seq(Commands) /\ Len(<<>>) = 0
  /\ \A f \in Nat : At(<<>>, f) = <<>>
<1>1. EmptyStream(0) = [events |-> <<>>, head |-> 0]
  BY DEF EmptyStream
<1>2. <<>> \in Seq(Commands) /\ Len(<<>>) = 0
  OBVIOUS
<1>3. EmptyStream(0) \in Streams
  <2>1. <<>> \in Seq([time : Nat, value : Inputs])
    OBVIOUS
  <2> DEFINE S == Seq([time : Nat, value : Inputs])
  <2>2. Streams = [events : S, head : Nat] /\ <<>> \in S
    BY <2>1 DEF Streams
  <2> HIDE DEF S
  <2>3. [events |-> <<>>, head |-> 0] \in [events : S, head : Nat]
    BY <2>2
  <2> QED
    BY <1>1, <2>2, <2>3
<1>4. <<>> \o <<>> = <<>>
  OBVIOUS
<1>5. ASSUME NEW f \in Nat PROVE At(<<>>, f) = <<>>
  <2>1. Ordered(<<>>) /\ \A i \in 1 .. Len(<<>>) : <<>>[i].time # f
    BY <1>2 DEF Ordered
  <2> QED
    BY <2>1, <1>2, AtEmpty
<1> QED
  BY <1>1, <1>2, <1>3, <1>4, <1>5

\* The invariant holds at first.
LEMMA InitHasInvariant == Init => IInv
<1> SUFFICES ASSUME Init PROVE IInv
  OBVIOUS
<1> DEFINE E == EmptyStream(0)
<1>0. /\ E = [events |-> <<>>, head |-> 0] /\ E \in Streams
      /\ E.events = <<>> /\ E.head = 0
      /\ E.events \o E.events = <<>>
      /\ <<>> \in Seq(Commands) /\ Len(<<>>) = 0
      /\ \A f \in Nat : At(<<>>, f) = <<>>
  BY NothingYet
<1> HIDE DEF E
<1>1. /\ frame = [p \in Peers |-> 1]
      /\ com = [p \in Peers |-> [q \in Players |-> E]]
      /\ unc = [p \in Peers |-> [q \in Players |-> E]]
      /\ mode = [p \in Peers |-> "Invalid"]
      /\ sim = [p \in Peers |-> [f \in 0 .. MaxFrame |-> NoCommands]]
      /\ window = [p \in Peers |-> {0}]
      /\ packs = [p \in Peers |-> [d \in Peers |-> <<>>]]
      /\ failed = [p \in Peers |-> FALSE]
  BY DEF Init, E
<1>2. /\ MaxChanges \in Nat /\ MaxChanges > 3 /\ MaxFrame \in Nat
      /\ Owner \in [Players -> Peers]
  BY ConstantsAssumption
<1>3. NoCommands \in [Players -> Seq(Inputs)]
  BY DEF NoCommands
<1>4. ASSUME NEW p \in Peers
      PROVE  /\ com[p] = [q \in Players |-> E] /\ unc[p] = [q \in Players |-> E]
             /\ \A q \in Players : com[p][q] = E /\ unc[p][q] = E /\ Given(p, q) = <<>>
             /\ frame[p] = 1 /\ window[p] = {0}
             /\ \A f \in 0 .. MaxFrame : sim[p][f] = NoCommands
             /\ \A d \in Peers : packs[p][d] = <<>>
             /\ CommitHead(p) = 0
  <2>1. com[p] = [q \in Players |-> E] /\ unc[p] = [q \in Players |-> E]
    BY <1>1
  <2>2. (CHOOSE q \in Players : TRUE) \in Players
    BY ConstantsAssumption
  <2>3. CommitHead(p) = 0
    BY <2>1, <2>2, <1>0 DEF CommitHead, GetMaxCommitHead
  <2>4. \A q \in Players : Given(p, q) = <<>>
    BY <2>1, <1>0 DEF Given
  <2> QED
    BY <2>1, <2>3, <2>4, <1>1
<1>5. Types
  <2>1. frame \in [Peers -> Nat] /\ mode \in [Peers -> SimulationModes]
        /\ window \in [Peers -> SUBSET Nat]
    BY <1>1 DEF SimulationModes
  <2>2. com \in [Peers -> [Players -> Streams]] /\ unc \in [Peers -> [Players -> Streams]]
    BY <1>0, <1>1
  <2>3. sim \in [Peers -> [0 .. MaxFrame -> [Players -> Seq(Inputs)]]]
    BY <1>1, <1>3
  <2>4. \A src : <<>> \in Seq(Packs(src))
    OBVIOUS
  <2>5. packs \in [Peers -> [Peers -> UNION {Seq(Packs(src)) : src \in Peers}]]
    BY <2>4, <1>1
  <2>6. \A p, d \in Peers : packs[p][d] \in Seq(Packs(p))
    BY <2>4, <1>1
  <2> QED
    BY <2>1, <2>2, <2>3, <2>5, <2>6, <1>1, <1>4 DEF Types
<1>6. ASSUME NEW p \in Peers
      PROVE  StreamsOK([com |-> com[p], unc |-> unc[p]], CommitHead(p))
  <2>1. StreamOK(E, E, 0)
    BY <1>0 DEF StreamOK, Divided, Ordered
  <2>2. \A q \in Players : StreamOK(com[p][q], unc[p][q], 0)
    BY <2>1, <1>4
  <2>3. com[p] \in [Players -> Streams] /\ unc[p] \in [Players -> Streams]
    BY <1>0, <1>4
  <2> QED
    BY <2>2, <2>3, <1>4 DEF StreamsOK
<1>7. ASSUME NEW p \in Peers PROVE ClockOK(p) /\ WindowOK(p)
  <2>1. kMaxRollbackFrames \in Nat
    BY <1>2 DEF kMaxRollbackFrames
  <2>2. ClockOK(p)
    BY <2>1, <1>2, <1>4 DEF ClockOK
  <2>3. \A t \in 0 .. 1 - 1 : t = 0
    OBVIOUS
  <2>4. WindowOK(p)
    BY <2>3, <1>4 DEF WindowOK
  <2> QED
    BY <2>2, <2>4
<1>8. ASSUME NEW p \in Peers PROVE SimOK(p)
  <2>1. ASSUME NEW f \in 0 .. MaxFrame PROVE sim[p][f] = [q \in Players |-> At(Given(p, q), f)]
    <3>1. \A q \in Players : At(Given(p, q), f) = <<>>
      BY <1>0, <1>4
    <3> QED
      BY <3>1, <1>4 DEF NoCommands
  <2> QED
    BY <2>1 DEF SimOK
<1>9. ASSUME NEW q \in Players PROVE OwnOK(q)
  <2> DEFINE r == Owner[q]
  <2>1. r \in Peers
    BY <1>2
  <2>2. unc[r][q].head = 0 /\ frame[r] - 1 = 0 /\ Len(Given(r, q)) = 0
    BY <2>1, <1>0, <1>4
  <2> QED
    BY <2>2 DEF OwnOK
<1>10. ASSUME NEW q \in Players, NEW p \in Peers \ {Owner[q]} PROVE RemoteOK(p, q)
  <2> DEFINE r == Owner[q]
             from == [i \in 1 .. Len(packs[r][p]) |-> 0]
  <2>1. r \in Peers
    BY <1>2
  <2>2. /\ Given(p, q) = <<>> /\ Given(r, q) = <<>> /\ unc[p][q].head = 0
        /\ frame[r] - 1 = 0 /\ packs[r][p] = <<>>
    BY <2>1, <1>0, <1>4
  <2> HIDE DEF r
  <2>3. KnowsAllUpTo(0, <<>>, <<>>) /\ Reached(0, <<>>, 0)
    BY <1>0 DEF KnowsAllUpTo, Beginning, Reached
  <2>4. from \in [1 .. Len(packs[r][p]) -> 0 .. Len(Given(r, q))]
    BY <2>2
  <2>5. Carries(<<>>, 0, q, from, 0, <<>>, <<>>, 0)
    <3>1. from \in [1 .. Len(<<>>) -> Nat]
      BY <2>2
    <3>2. ~ (\E i \in 0 + 1 .. Len(<<>>) : TRUE)
      BY <1>0
    <3> QED
      BY <3>1, <3>2, <1>0 DEF Carries
  <2> HIDE DEF from
  <2>6. /\ KnowsAllUpTo(unc[p][q].head, Given(p, q), Given(r, q))
        /\ Reached(unc[p][q].head, Given(p, q), frame[r] - 1)
        /\ Carries(packs[r][p], 0, q, from, unc[p][q].head, Given(p, q), Given(r, q), frame[r] - 1)
    BY <2>2, <2>3, <2>5
  <2> QED
    BY <2>4, <2>6 DEF RemoteOK, r
<1>11. \A p \in Peers : packs[p][p] = <<>>
  BY <1>4
<1> QED
  BY <1>1, <1>5, <1>6, <1>7, <1>8, <1>9, <1>10, <1>11 DEF IInv, Rest, Types

\* A step without a frame changes nothing.
LEMMA StutterKeepsInvariant == ASSUME IInv, UNCHANGED vars PROVE IInv'
<1>1. /\ frame' = frame /\ com' = com /\ unc' = unc /\ mode' = mode /\ sim' = sim
      /\ window' = window /\ packs' = packs /\ failed' = failed
  BY DEF vars
<1>2. Types'
  BY <1>1 DEF IInv, Types
<1>3. /\ \A p : CommitHead(p)' = CommitHead(p)
      /\ \A p, q : Given(p, q)' = Given(p, q)
  BY <1>1 DEF CommitHead, GetMaxCommitHead, Given
<1>4. ASSUME NEW p \in Peers
      PROVE  /\ StreamsOK([com |-> com[p], unc |-> unc[p]], CommitHead(p))'
             /\ ClockOK(p)' /\ WindowOK(p)' /\ SimOK(p)'
  <2>1. /\ StreamsOK([com |-> com[p], unc |-> unc[p]], CommitHead(p))
        /\ ClockOK(p) /\ WindowOK(p) /\ SimOK(p)
    BY DEF IInv, Rest
  <2>2. StreamsOK([com |-> com[p], unc |-> unc[p]], CommitHead(p))'
    BY <2>1, <1>1, <1>3 DEF StreamsOK
  <2>3. ClockOK(p)' /\ WindowOK(p)'
    BY <2>1, <1>1, <1>3 DEF ClockOK, WindowOK
  <2>4. SimOK(p)'
    BY <2>1, <1>1, <1>3 DEF SimOK
  <2> QED
    BY <2>2, <2>3, <2>4
<1>5. ASSUME NEW q \in Players PROVE OwnOK(q)'
  <2>1. OwnOK(q)
    BY DEF IInv, Rest
  <2> QED
    BY <2>1, <1>1, <1>3 DEF OwnOK
<1>6. ASSUME NEW q \in Players, NEW p \in Peers \ {Owner[q]} PROVE RemoteOK(p, q)'
  <2>1. RemoteOK(p, q)
    BY DEF IInv, Rest
  <2> QED
    BY <2>1, <1>1, <1>3 DEF RemoteOK
<1>7. Rest'
  BY <1>2, <1>4, <1>5, <1>6 DEF Rest, Types
<1> QED
  BY <1>2, <1>7 DEF IInv

\* The invariant is inductive: whatever frames the peers run, in whatever order
\* and with however many packs arrived, ProcessFrame keeps it.
THEOREM PeersInvariant == ASSUME EveryPeerPlays, NoSecondThoughts PROVE Spec => []IInv
<1>1. Init => IInv
  BY InitHasInvariant
<1>2. ASSUME IInv, [Next]_vars PROVE IInv'
  <2>1. ASSUME NEW p \in Peers, Frame(p) PROVE IInv'
    BY <2>1, <1>2, FrameKeepsInvariant
  <2>2. CASE Finished
    BY <2>2, <1>2, StutterKeepsInvariant DEF Finished
  <2>3. CASE UNCHANGED vars
    BY <2>3, <1>2, StutterKeepsInvariant
  <2> QED
    BY <2>1, <2>2, <2>3, <1>2 DEF Next
<1> QED
  BY <1>1, <1>2, PTL DEF Spec

\* What the invariant says of a peer's streams.
Known(p) ==
  /\ StreamsOK(Here(p), CommitHead(p)) /\ CommitHead(p) \in Nat
  /\ frame[p] \in Nat
  /\ \A q \in Players :
       /\ Whole(Here(p), q) = Given(p, q) /\ Here(p).unc[q].head = unc[p][q].head
       /\ Here(p).com[q] = com[p][q] /\ Here(p).unc[q] = unc[p][q]
       /\ Given(p, q) \in Seq(Commands) /\ Ordered(Given(p, q)) /\ Len(Given(p, q)) \in Nat
       /\ \A i \in 1 .. Len(Given(p, q)) :
            Given(p, q)[i].time \in Nat /\ Given(p, q)[i].time <= unc[p][q].head
       /\ unc[p][q].head \in Nat /\ CommitHead(p) <= unc[p][q].head

\* It follows from the invariant.
LEMMA KnownIs == ASSUME IInv, NEW p \in Peers PROVE Known(p)
<1>1. StreamsOK(Here(p), CommitHead(p)) /\ frame[p] \in Nat
  BY DEF IInv, Rest, Here
<1>2. CommitHead(p) \in Nat
  BY <1>1 DEF StreamsOK
<1>3. ASSUME NEW q \in Players
      PROVE  /\ Whole(Here(p), q) = Given(p, q) /\ Here(p).unc[q].head = unc[p][q].head
             /\ Here(p).com[q] = com[p][q] /\ Here(p).unc[q] = unc[p][q]
  BY DEF Whole, Here, Given
<1>4. ASSUME NEW q \in Players
      PROVE  /\ Given(p, q) \in Seq(Commands) /\ Ordered(Given(p, q)) /\ Len(Given(p, q)) \in Nat
             /\ \A i \in 1 .. Len(Given(p, q)) :
                  Given(p, q)[i].time \in Nat /\ Given(p, q)[i].time <= unc[p][q].head
  <2> DEFINE s == Here(p)
             e == Whole(s, q)
  <2> HIDE DEF s
  <2>1. /\ e \in Seq(Commands) /\ Ordered(e) /\ Len(e) \in Nat
        /\ \A i \in 1 .. Len(e) : e[i].time \in Nat /\ e[i].time <= s.unc[q].head
    BY <1>1, <1>2, WholeIs DEF s
  <2>2. e = Given(p, q) /\ s.unc[q].head = unc[p][q].head
    BY <1>3 DEF s
  <2> HIDE DEF e
  <2> QED
    BY <2>1, <2>2
<1>5. ASSUME NEW q \in Players PROVE unc[p][q].head \in Nat /\ CommitHead(p) <= unc[p][q].head
  <2>1. Here(p).unc[q].head \in Nat /\ CommitHead(p) <= Here(p).unc[q].head
    BY <1>1, <1>2, PeerStreams
  <2> QED
    BY <2>1, <1>3
<1> QED
  BY <1>1, <1>2, <1>3, <1>4, <1>5 DEF Known

\* A beginning of a sequence is a prefix of it.
LEMMA BeginningIsPrefix ==
  ASSUME NEW S, NEW e \in Seq(S), NEW g \in Seq(S), Len(e) <= Len(g), \A i \in 1 .. Len(e) : e[i] = g[i]
  PROVE  IsPrefix(e, g)
<1>1. Len(e) \in Nat /\ Len(g) \in Nat
  BY LenProperties
<1>2. SubSeq(e, 1, Len(e)) = e
  BY SubSeqFull
<1>3. /\ SubSeq(g, 1, Len(e)) \in Seq(S) /\ Len(SubSeq(g, 1, Len(e))) = Len(e)
      /\ \A i \in 1 .. Len(e) : SubSeq(g, 1, Len(e))[i] = g[i]
  <2> DEFINE n == Len(e)
  <2>1. n \in Int /\ 1 \in Int /\ \A i \in 1 .. n : g[i] \in S
    <3>1. \A i \in 1 .. n : i \in 1 .. Len(g)
      BY <1>1
    <3> QED
      BY <3>1, <1>1, ElementOfSeq
  <2> HIDE DEF n
  <2>2. /\ SubSeq(g, 1, n) \in Seq(S) /\ Len(SubSeq(g, 1, n)) = IF 1 <= n THEN n - 1 + 1 ELSE 0
        /\ \A i \in 1 .. n - 1 + 1 : SubSeq(g, 1, n)[i] = g[1 + i - 1]
    BY <2>1, SubSeqProperties
  <2>3. n \in Nat /\ n - 1 + 1 = n /\ (~ (1 <= n) => n = 0) /\ \A i \in 1 .. n : 1 + i - 1 = i
    <3>1. n \in Nat
      BY <1>1 DEF n
    <3> QED
      BY <3>1
  <2>4. Len(SubSeq(g, 1, n)) = n /\ \A i \in 1 .. n : SubSeq(g, 1, n)[i] = g[i]
    BY <2>2, <2>3
  <2> QED
    BY <2>2, <2>4 DEF n
<1> DEFINE part == SubSeq(g, 1, Len(e))
<1> HIDE DEF part
<1>4. part = e
  <2>1. part \in Seq(S) /\ Len(part) = Len(e) /\ \A i \in 1 .. Len(part) : part[i] = e[i]
    BY <1>3 DEF part
  <2> QED
    BY <2>1, SeqEqual
<1> QED
  BY <1>2, <1>4 DEF IsPrefix, part

(***************************************************************************)
(* What the runs check                                                     *)
(***************************************************************************)

\* A stream as TypeOK has it.
LEMMA StreamType ==
  ASSUME NEW s \in Streams, Ordered(s.events), \A i \in 1 .. Len(s.events) : s.events[i].time <= s.head
  PROVE  \A i \in 1 .. Len(s.events) :
           s.events[i].time <= (IF i = Len(s.events) THEN s.head ELSE s.events[i + 1].time)
<1>1. s.events \in Seq(Commands)
  BY DEF Streams, Commands
<1>2. Len(s.events) \in Nat
  BY <1>1, ElementsOf
<1> TAKE i \in 1 .. Len(s.events)
<1>3. CASE i = Len(s.events)
  BY <1>3
<1>4. CASE i # Len(s.events)
  <2> DEFINE n == Len(s.events)
  <2>1. i + 1 \in 1 .. n /\ i <= i + 1
    <3>1. i \in 1 .. n /\ i # n /\ n \in Nat
      BY <1>2, <1>4
    <3> HIDE DEF n
    <3> QED
      BY <3>1
  <2> QED
    BY <2>1, <1>4 DEF Ordered
<1> QED
  BY <1>3, <1>4

\* Every variable keeps its type, and every input stream stays ordered by time
\* with its write head at its last command or later (RollbackInputStream).
THEOREM PeersTypes == ASSUME EveryPeerPlays, NoSecondThoughts PROVE Spec => []TypeOK
<1>1. ASSUME IInv PROVE TypeOK
  <2>1. Types
    BY <1>1 DEF IInv
  <2>2. ASSUME NEW p \in Peers, NEW q \in Players, NEW s \in {com[p][q], unc[p][q]}
        PROVE  /\ s \in Streams
               /\ \A i \in 1 .. Len(s.events) :
                    s.events[i].time <= (IF i = Len(s.events) THEN s.head ELSE s.events[i + 1].time)
    <3>1. Known(p)
      BY <1>1, KnownIs
    <3>2. /\ com[p][q] \in Streams /\ unc[p][q] \in Streams /\ com[p][q].head = CommitHead(p)
          /\ Divided(com[p][q].events, unc[p][q].events, CommitHead(p), unc[p][q].head)
      <4>1. StreamOK(com[p][q], unc[p][q], CommitHead(p))
        BY <3>1 DEF Known, StreamsOK
      <4> QED
        BY <4>1 DEF StreamOK
    <3>3. Ordered(s.events) /\ s \in Streams /\ \A i \in 1 .. Len(s.events) : s.events[i].time <= s.head
      BY <3>2 DEF Divided
    <3> QED
      BY <3>3, StreamType
  <2>3. ASSUME NEW p \in Peers, NEW d \in Peers, NEW i \in 1 .. Len(packs[p][d])
        PROVE  /\ packs[p][d][i].frameReadyToCommit \in Nat
               /\ packs[p][d][i].streams \in [Local(p) -> Seq([time : Nat, value : Inputs])]
    <3>1. packs[p][d] \in Seq(Packs(p))
      BY <2>1 DEF Types
    <3>2. packs[p][d][i] \in Packs(p)
      BY <3>1, ElementOfSeq
    <3> QED
      BY <3>2 DEF Packs, Commands
  <2>4. failed \in [Peers -> BOOLEAN]
    BY <2>1 DEF Types
  <2>5. /\ frame \in [Peers -> Nat] /\ mode \in [Peers -> SimulationModes]
        /\ sim \in [Peers -> [0 .. MaxFrame -> [Players -> Seq(Inputs)]]]
        /\ window \in [Peers -> SUBSET Nat]
    BY <2>1 DEF Types
  <2> QED
    BY <2>2, <2>3, <2>4, <2>5 DEF TypeOK
<1> QED
  BY <1>1, PeersInvariant, PTL

\* No FATAL test and no assertion that ProcessFrame, the input streams and the
\* merge of packs make can fail, however frames and packs interleave.
THEOREM NothingFails == ASSUME EveryPeerPlays, NoSecondThoughts PROVE Spec => []NoFailure
<1>1. IInv => NoFailure
  BY DEF IInv, Types, NoFailure
<1> QED
  BY <1>1, PeersInvariant, PTL

\* A frame that CommitFrames has moved behind the commit head was last simulated
\* with exactly the commands committed for it: no wrong prediction stays.
THEOREM CommittedIsSimulated ==
  ASSUME EveryPeerPlays, NoSecondThoughts PROVE Spec => []SimulationIsCommitted
<1>1. ASSUME IInv, NEW p \in Peers, NEW f \in 0 .. MaxFrame, f <= CommitHead(p), NEW q \in Players
      PROVE  sim[p][f][q] = At(com[p][q].events, f)
  <2> DEFINE c == com[p][q].events
             g == Given(p, q)
             H == CommitHead(p)
  <2>1. Known(p)
    BY <1>1, KnownIs
  <2>2. StreamsOK(Here(p), H) /\ H \in Nat /\ Whole(Here(p), q) = g /\ Here(p).com[q] = com[p][q]
    BY <2>1 DEF Known
  <2>3. /\ g \in Seq(Commands)
        /\ Beginning(c, g)
        /\ \A i \in Len(c) + 1 .. Len(g) : H < g[i].time
    BY <2>2, WholeIs
  <2>4. c \in Seq(Commands) /\ Ordered(c)
    <3>1. /\ Here(p).com[q].events \in Seq(Commands)
          /\ Divided(Here(p).com[q].events, Here(p).unc[q].events, H, Here(p).unc[q].head)
      BY <2>2, PeerStreams
    <3> QED
      BY <3>1, <2>2 DEF Divided
  <2>5. sim[p][f] = [x \in Players |-> At(Given(p, x), f)]
    BY <1>1 DEF IInv, Rest, SimOK
  <2>6. sim[p][f][q] = At(g, f)
    BY <2>5
  <2> HIDE DEF c, g, H
  <2>7. \A i \in Len(c) + 1 .. Len(g) : f < g[i].time
    <3> TAKE i \in Len(c) + 1 .. Len(g)
    <3>1. Len(c) \in Nat /\ Len(g) \in Nat /\ \A j \in 1 .. Len(g) : g[j].time \in Nat
      BY <2>3, <2>4, ElementsOf
    <3>2. i \in 1 .. Len(g) /\ H < g[i].time
      BY <3>1, <2>3
    <3>3. f \in Nat /\ f <= H
      BY <1>1 DEF H
    <3> QED
      BY <3>1, <3>2, <3>3, <2>2
  <2>8. At(g, f) = At(c, f)
    BY <2>3, <2>4, <2>7, AtOfBeginning, f \in Nat
  <2> QED
    BY <2>6, <2>8 DEF c
<1>2. IInv => SimulationIsCommitted
  BY <1>1 DEF SimulationIsCommitted
<1> QED
  BY <1>2, PeersInvariant, PTL

\* What ApplyPackFromRemote makes of the packs of a peer is a beginning of what
\* its players gave, and all of it before the stream's head: the overlaps of
\* consecutive packs repeat, drop and alter nothing.
THEOREM NothingIsLost == ASSUME EveryPeerPlays, NoSecondThoughts PROVE Spec => []NothingLost
<1>1. ASSUME IInv, NEW p \in Peers, NEW q \in Players
      PROVE  /\ IsPrefix(Given(p, q), Given(Owner[q], q))
             /\ \A i \in Len(Given(p, q)) + 1 .. Len(Given(Owner[q], q)) :
                  Given(Owner[q], q)[i].time >= unc[p][q].head
  <2> DEFINE r == Owner[q]
             known == Given(p, q)
             given == Given(r, q)
             head == unc[p][q].head
  <2>1. r \in Peers
    BY ConstantsAssumption
  <2>2. known \in Seq(Commands) /\ Len(known) \in Nat /\ head \in Nat
    <3>1. Known(p)
      BY <1>1, KnownIs
    <3> QED
      BY <3>1 DEF Known
  <2>3. /\ given \in Seq(Commands) /\ Len(given) \in Nat
        /\ \A i \in 1 .. Len(given) : given[i].time \in Nat
    <3>1. Known(r)
      BY <1>1, <2>1, KnownIs
    <3> QED
      BY <3>1 DEF Known
  <2>4. CASE p = r
    <3>1. known = given
      BY <2>4
    <3> HIDE DEF known, given
    <3>2. IsPrefix(known, given)
      BY <3>1, <2>2, <2>3, BeginningIsPrefix
    <3>3. ~ (\E i \in Len(known) + 1 .. Len(given) : TRUE)
      BY <3>1, <2>2
    <3> QED
      BY <3>2, <3>3 DEF known, given
  <2>5. CASE p # r
    <3>1. KnowsAllUpTo(head, known, given)
      <4>1. RemoteOK(p, q)
        BY <1>1, <2>5 DEF IInv, Rest
      <4> QED
        BY <4>1 DEF RemoteOK
    <3> HIDE DEF known, given, head
    <3>2. IsPrefix(known, given)
      BY <3>1, <2>2, <2>3, BeginningIsPrefix DEF KnowsAllUpTo, Beginning
    <3>3. \A i \in Len(known) + 1 .. Len(given) : given[i].time >= head
      <4> TAKE i \in Len(known) + 1 .. Len(given)
      <4>1. i \in 1 .. Len(given) /\ head < given[i].time
        BY <3>1, <2>2, <2>3 DEF KnowsAllUpTo
      <4> QED
        BY <4>1, <2>2, <2>3
    <3> QED
      BY <3>2, <3>3 DEF known, given, head
  <2> QED
    BY <2>4, <2>5
<1>2. IInv => NothingLost
  BY <1>1 DEF NothingLost
<1> QED
  BY <1>2, PeersInvariant, PTL

\* The rollback window still holds a change from before the frame to which a
\* rollback would go back: a peer stalls (kMaxRollbackFrames) soon enough.
THEOREM HistoryIsEnough == ASSUME EveryPeerPlays, NoSecondThoughts PROVE Spec => []EnoughHistory
<1>1. ASSUME IInv, EveryPeerPlays, NEW p \in Peers PROVE CanRewind(window[p], CommitHead(p))
  BY <1>1, StartOfFrame
<1>2. EveryPeerPlays /\ IInv => EnoughHistory
  BY <1>1 DEF EnoughHistory
<1> QED
  BY <1>2, PeersInvariant, PTL

\* A head is no later than its owner's clock.
LEMMA HeadIsReached ==
  ASSUME IInv, NEW q \in Players, NEW p \in Peers \ {Owner[q]}
  PROVE  LET r == Owner[q]
             head == unc[p][q].head
             given == Given(r, q)
         IN  /\ \A i \in 1 .. Len(given) : given[i].time <= frame[r] /\ given[i].time <= MaxFrame
             /\ \/ head <= frame[r] - 1
                \/ \E i \in 1 .. Len(given) : head <= given[i].time
<1> DEFINE r == Owner[q]
           head == unc[p][q].head
           given == Given(r, q)
           known == Given(p, q)
<1>1. r \in Peers
  BY ConstantsAssumption
<1>2. /\ \A i \in 1 .. Len(given) : given[i].time \in Nat /\ given[i].time <= unc[r][q].head
      /\ unc[r][q].head \in Nat /\ frame[r] \in Nat /\ Len(given) \in Nat
  <2>1. Known(r)
    BY <1>1, KnownIs
  <2> QED
    BY <2>1 DEF Known
<1>3. /\ unc[r][q].head <= frame[r]
      /\ \A i \in 1 .. Len(given) : given[i].time <= MaxFrame
  <2>1. OwnOK(q)
    BY DEF IInv, Rest
  <2> QED
    BY <2>1, <1>2 DEF OwnOK
<1>4. KnowsAllUpTo(head, known, given) /\ Reached(head, known, frame[r] - 1)
  <2>1. RemoteOK(p, q)
    BY DEF IInv, Rest
  <2> QED
    BY <2>1 DEF RemoteOK
<1>5. Len(known) \in Nat
  <2>1. Known(p)
    BY KnownIs
  <2> QED
    BY <2>1 DEF Known
<1> DEFINE top == unc[r][q].head
           now == frame[r]
<1> HIDE DEF head, given, known, top, now
<1>6. \A i \in 1 .. Len(given) : given[i].time <= now
  BY <1>2, <1>3 DEF top, now
<1>7. \/ head <= now - 1
      \/ \E i \in 1 .. Len(given) : head <= given[i].time
  <2>1. CASE Len(known) > 0 /\ head <= known[Len(known)].time
    <3>1. Len(known) \in 1 .. Len(known) /\ Len(known) \in 1 .. Len(given)
      BY <2>1, <1>2, <1>4, <1>5 DEF KnowsAllUpTo, Beginning
    <3>2. known[Len(known)] = given[Len(known)]
      BY <3>1, <1>4 DEF KnowsAllUpTo, Beginning
    <3> QED
      BY <2>1, <3>1, <3>2
  <2>2. CASE ~ (Len(known) > 0 /\ head <= known[Len(known)].time)
    BY <2>2, <1>4 DEF Reached, now
  <2> QED
    BY <2>1, <2>2
<1> QED
  BY <1>3, <1>6, <1>7 DEF head, given, now

\* A peer is at most kMaxRollbackFrames + 1 frames ahead of any other, since it
\* stalls until the commands it predicts have come.
THEOREM PeersKeepTogether == ASSUME EveryPeerPlays, NoSecondThoughts PROVE Spec => []PeersStayTogether
<1>1. ASSUME IInv, NEW p \in Peers, NEW r \in Peers, Local(r) # {}
      PROVE  frame[p] - frame[r] <= kMaxRollbackFrames + 1
  <2> DEFINE k == kMaxRollbackFrames
             H == CommitHead(p)
             now == frame[r]
  <2>1. PICK q \in Players : Owner[q] = r
    BY <1>1 DEF Local
  <2>2. k \in Nat
    BY ConstantsAssumption DEF kMaxRollbackFrames
  <2>3. frame[p] <= H + k + 1 /\ frame[p] \in Nat /\ H \in Nat
    <3>1. ClockOK(p)
      BY <1>1 DEF IInv, Rest
    <3>2. Known(p)
      BY <1>1, KnownIs
    <3> QED
      BY <3>1, <3>2 DEF ClockOK, Known
  <2>4. now \in Nat
    <3>1. Known(r)
      BY <1>1, KnownIs
    <3> QED
      BY <3>1 DEF Known
  <2>5. CASE p = r
    BY <2>5, <2>2, <2>4
  <2>6. CASE p # r
    <3> DEFINE head == unc[p][q].head
               given == Given(r, q)
    <3>1. head \in Nat /\ H <= head
      <4>1. Known(p)
        BY <1>1, KnownIs
      <4> QED
        BY <4>1 DEF Known
    <3>2. \A i \in 1 .. Len(given) : given[i].time \in Nat
      <4>1. Known(r)
        BY <1>1, KnownIs
      <4> QED
        BY <4>1 DEF Known
    <3>3. /\ \A i \in 1 .. Len(given) : given[i].time <= now
          /\ \/ head <= now - 1
             \/ \E i \in 1 .. Len(given) : head <= given[i].time
      BY <1>1, <2>1, <2>6, HeadIsReached
    <3> HIDE DEF head, given, now, H
    <3>4. head <= now
      BY <3>1, <3>2, <3>3, <2>4
    <3>5. frame[p] - now <= k + 1
      <4> DEFINE f == frame[p]
      <4>1. f \in Nat /\ f <= H + k + 1
        BY <2>3 DEF f
      <4> HIDE DEF f, k
      <4>2. f - now <= k + 1
        BY <4>1, <3>1, <3>4, <2>2, <2>3, <2>4
      <4> QED
        BY <4>2 DEF f
    <3> QED
      BY <3>5 DEF now
  <2> QED
    BY <2>5, <2>6
<1>2. IInv => PeersStayTogether
  BY <1>1 DEF PeersStayTogether
<1> QED
  BY <1>2, PeersInvariant, PTL

(***************************************************************************)
(* Lockstep                                                                *)
(***************************************************************************)

\* What a peer has committed is closed, and what it has simulated is what has
\* been given.
LEMMA CommittedIsClosed ==
  ASSUME IInv, NoSecondThoughts, NEW p \in Peers, NEW q \in Players
  PROVE  /\ CommitHead(p) <= Closed(q) /\ CommitHead(p) \in Nat /\ Closed(q) \in Nat
         /\ \A f \in Nat : f <= CommitHead(p) => At(Given(p, q), f) = At(Given(Owner[q], q), f)
<1> DEFINE r == Owner[q]
           H == CommitHead(p)
           now == frame[r]
           given == Given(r, q)
           known == Given(p, q)
           head == unc[p][q].head
<1>1. r \in Peers
  BY ConstantsAssumption
<1>2. /\ H \in Nat /\ head \in Nat /\ H <= head
      /\ known \in Seq(Commands) /\ Ordered(known)
  <2>1. Known(p)
    BY KnownIs
  <2> QED
    BY <2>1 DEF Known
<1>3. /\ given \in Seq(Commands) /\ Ordered(given)
      /\ Len(given) \in Nat /\ \A i \in 1 .. Len(given) : given[i].time \in Nat
  <2>1. Known(r)
    BY <1>1, KnownIs
  <2> QED
    BY <2>1 DEF Known
<1>4. now \in Nat /\ 1 <= now
  <2>1. ClockOK(r) /\ frame[r] \in Nat
    BY <1>1 DEF IInv, Rest
  <2> QED
    BY <2>1 DEF ClockOK
<1>5. Closed(q) = IF now <= MaxFrame /\ At(given, now) # <<>> THEN now ELSE now - 1
  BY DEF Closed, NoSecondThoughts
<1>6. Closed(q) \in Nat /\ now - 1 <= Closed(q)
  <2> HIDE DEF now, given
  <2> QED
    BY <1>4, <1>5
<1>7. CASE p = r
  <2>1. ClockOK(p)
    BY DEF IInv, Rest
  <2>2. H < now
    BY <2>1, <1>7 DEF ClockOK
  <2> HIDE DEF now, H
  <2>3. H <= Closed(q)
    BY <2>2, <1>2, <1>4, <1>6
  <2> QED
    BY <2>3, <1>2, <1>6, <1>7 DEF H
<1>8. CASE p # r
  <2>1. /\ \A i \in 1 .. Len(given) : given[i].time <= now /\ given[i].time <= MaxFrame
        /\ \/ head <= now - 1
           \/ \E i \in 1 .. Len(given) : head <= given[i].time
    BY <1>8, HeadIsReached
  <2>2. KnowsAllUpTo(head, known, given)
    <3>1. RemoteOK(p, q)
      BY <1>8 DEF IInv, Rest
    <3> QED
      BY <3>1 DEF RemoteOK
  <2> HIDE DEF now, H, given, known, head
  <2>3. H <= Closed(q)
    <3>1. CASE head <= now - 1
      BY <3>1, <1>2, <1>4, <1>6
    <3>2. CASE ~ (head <= now - 1)
      <4>1. PICK i \in 1 .. Len(given) : head <= given[i].time
        BY <2>1, <3>2
      <4>2. given[i].time = now /\ now <= MaxFrame /\ head <= now
        BY <4>1, <2>1, <3>2, <1>2, <1>3, <1>4
      <4>3. At(given, now) # <<>>
        BY <4>2, <1>3, <1>4, AtEmpty
      <4> QED
        BY <4>2, <4>3, <1>2, <1>4, <1>5
    <3> QED
      BY <3>1, <3>2
  <2>4. ASSUME NEW f \in Nat, f <= H PROVE At(known, f) = At(given, f)
    <3>1. Beginning(known, given) /\ Len(known) \in Nat
          /\ \A i \in Len(known) + 1 .. Len(given) : head < given[i].time
      BY <2>2, <1>2, ElementsOf DEF KnowsAllUpTo
    <3>2. \A i \in Len(known) + 1 .. Len(given) : f < given[i].time
      <4> TAKE i \in Len(known) + 1 .. Len(given)
      <4>1. i \in 1 .. Len(given)
        BY <3>1, <1>3
      <4> QED
        BY <4>1, <3>1, <2>4, <1>2, <1>3
    <3> QED
      BY <3>1, <3>2, <1>2, <1>3, AtOfBeginning
  <2> QED
    BY <2>3, <2>4, <1>2, <1>6 DEF H, known, given
<1> QED
  BY <1>7, <1>8

\* A player's closed frames stay closed, with the commands they have.
LEMMA LogGrows ==
  ASSUME IInv, NoSecondThoughts, NEW p \in Peers, NEW pressed \in Presses(p), NEW arrived,
         NEW last \in Nat, NEW ready \in Nat,
         NEW stall \in BOOLEAN, NEW sent, FrameIs(p, pressed, arrived, last, ready, stall, sent),
         NEW q \in Players
  PROVE  /\ Closed(q) \in Nat /\ Closed(q)' \in Nat /\ Closed(q) <= Closed(q)'
         /\ \A f \in 1 .. Closed(q) : At(Given(Owner[q], q), f) = At(Given(Owner[q], q)', f)
<1> DEFINE r == Owner[q]
           now == frame[r]
           given == Given(r, q)
           next == frame'[r]
           given1 == Given(r, q)'
<1>1. r \in Peers
  BY ConstantsAssumption
<1>2. now \in Nat /\ 1 <= now
  <2>1. ClockOK(r) /\ frame[r] \in Nat
    BY <1>1 DEF IInv, Rest
  <2> QED
    BY <2>1 DEF ClockOK
<1>3. Closed(q) = IF now <= MaxFrame /\ At(given, now) # <<>> THEN now ELSE now - 1
  BY DEF Closed, NoSecondThoughts
<1>4. Closed(q)' = IF next <= MaxFrame /\ At(given1, next) # <<>> THEN next ELSE next - 1
  BY DEF Closed, NoSecondThoughts
<1>5. CASE r # p
  <2>1. next = now /\ given1 = given
    BY <1>1, <1>5, Elsewhere
  <2>2. Closed(q)' = Closed(q)
    BY <2>1, <1>3, <1>4
  <2>3. Closed(q) \in Nat
    <3> HIDE DEF now, given
    <3> QED
      BY <1>2, <1>3
  <2> QED
    BY <2>1, <2>2, <2>3
<1>6. CASE r = p
  <2> DEFINE x == Pressed(pressed[q], frame[p])
  <2>1. Gives(p, q, sent, x)
    <3>1. q \in Local(p)
      BY <1>6 DEF Local
    <3> QED
      BY <3>1, OwnGiven
  <2> HIDE DEF x
  <2>2. Later(given, x, now) /\ given1 = given \o x
        /\ given \in Seq(Commands) /\ Ordered(given) /\ given1 \in Seq(Commands) /\ Ordered(given1)
    BY <2>1, <1>6 DEF Gives, Later, NoSecondThoughts
  <2>3. next = IF stall THEN now ELSE now + 1
    <3>1. frame'[p] = IF stall THEN frame[p] ELSE frame[p] + 1
      BY NewStreams
    <3> QED
      BY <3>1, <1>6
  <2>4. now <= MaxFrame /\ MaxFrame \in Nat
    BY <1>6, ConstantsAssumption DEF FrameIs, FrameTimes
  <2> HIDE DEF now, given, next, given1
  <2>5. /\ Len(given) \in Nat /\ Beginning(given, given1)
        /\ \A i \in 1 .. Len(given1) : given1[i].time \in Nat
        /\ \A i \in Len(given) + 1 .. Len(given1) :
             /\ given1[i].time = now
             /\ \A j \in 1 .. Len(given) : given[j].time < now
    <3> DEFINE all == given \o x
    <3>1. /\ Len(given) \in Nat /\ Len(x) \in Nat /\ Len(all) = Len(given) + Len(x)
          /\ \A i \in 1 .. Len(all) : all[i].time \in Nat
          /\ \A i \in 1 .. Len(given) : all[i] = given[i]
          /\ \A i \in Len(given) + 1 .. Len(all) :
               /\ all[i].time = now
               /\ \A j \in 1 .. Len(given) : given[j].time < now
      BY <1>2, <2>2, LaterIs
    <3>2. all = given1
      BY <2>2
    <3> HIDE DEF all
    <3>3. Beginning(given, all)
      BY <3>1 DEF Beginning
    <3> QED
      BY <3>1, <3>2, <3>3
  <2>6. CASE At(given, now) # <<>>
    <3>1. PICK j \in 1 .. Len(given) : given[j].time = now
      BY <2>2, <2>6, <1>2, AtEmpty
    <3>2. Len(given1) = Len(given)
      <4> SUFFICES ASSUME Len(given1) # Len(given) PROVE FALSE
        OBVIOUS
      <4>1. Len(given1) \in Nat /\ Len(given) <= Len(given1)
        BY <2>2, <2>5, ElementsOf DEF Beginning
      <4>2. Len(given1) \in Len(given) + 1 .. Len(given1)
        BY <4>1, <2>5
      <4>3. given[j].time < now
        BY <4>2, <2>5
      <4> QED
        BY <4>3, <3>1, <1>2
    <3>3. given1 = given
      <4>1. \A i \in 1 .. Len(given1) : given1[i] = given[i]
        BY <3>2, <2>5 DEF Beginning
      <4> QED
        BY <4>1, <3>2, <2>2, SeqEqual
    <3>4. Closed(q) = now
      BY <2>4, <2>6, <1>3
    <3>5. Closed(q)' \in Nat /\ now <= Closed(q)'
      BY <3>3, <2>3, <2>4, <2>6, <1>2, <1>4
    <3> QED
      BY <3>3, <3>4, <3>5, <1>2 DEF given, given1
  <2>7. CASE At(given, now) = <<>>
    <3>1. Closed(q) = now - 1
      BY <2>7, <1>3
    <3>2. Closed(q)' \in Nat /\ now - 1 <= Closed(q)'
      BY <2>3, <1>2, <1>4
    <3>3. ASSUME NEW f \in 1 .. now - 1 PROVE At(given, f) = At(given1, f)
      <4>1. f \in Nat /\ f < now
        BY <1>2
      <4>2. \A i \in Len(given) + 1 .. Len(given1) : f < given1[i].time
        BY <4>1, <2>5
      <4> QED
        BY <4>1, <4>2, <2>2, <2>5, AtOfBeginning
    <3>4. now - 1 \in Nat
      BY <1>2
    <3> QED
      BY <3>1, <3>2, <3>3, <3>4 DEF given, given1
  <2> QED
    BY <2>6, <2>7
<1> QED
  BY <1>5, <1>6

\* A peer's confirmed frames stay as they are.
LEMMA HistoryGrows ==
  ASSUME IInv, NEW p \in Peers, NEW pressed \in Presses(p), NEW arrived,
         NEW last \in Nat, NEW ready \in Nat,
         NEW stall \in BOOLEAN, NEW sent, FrameIs(p, pressed, arrived, last, ready, stall, sent),
         NEW x \in Peers
  PROVE  /\ CommitHead(x) \in Nat /\ CommitHead(x)' \in Nat /\ CommitHead(x) <= CommitHead(x)'
         /\ \A f \in 1 .. CommitHead(x) : sim[x][f] = sim'[x][f]
<1>1. CommitHead(x) \in Nat
  BY DEF IInv, Rest, StreamsOK
<1>2. CASE x # p
  BY <1>1, <1>2, Elsewhere
<1>3. CASE x = p
  <2> DEFINE now == frame[p]
             H == CommitHead(p)
             resim == IF H < last THEN H .. now - 1 ELSE {}
  <2>1. /\ H \in Nat /\ now \in Nat /\ H < now /\ SimOK(p)
    BY DEF IInv, Rest, ClockOK, StreamsOK
  <2>2. FrameTimes(p, last, ready, stall) /\ FrameChanges(p, arrived, last, stall, sent)
    BY DEF FrameIs
  <2>3. CommitHead(p)' = ready
    BY NewStreams
  <2>4. sim'[p] = [f \in 0 .. MaxFrame |->
                        CASE f = now -> CommandsAt(sent, f)
                          [] f \in resim -> CommandsAt(Here(p), f)
                          [] OTHER -> sim[p][f]]
    BY <2>2 DEF FrameChanges, IInv, Types
  <2>5. H <= last /\ last <= ready /\ now <= MaxFrame
    BY <2>2 DEF FrameTimes
  <2>6. MaxFrame \in Nat
    BY ConstantsAssumption
  <2>7. ASSUME NEW f \in 1 .. H PROVE sim[p][f] = sim'[p][f]
    <3>1. f \in 0 .. MaxFrame /\ f # now /\ f <= H
      <4> HIDE DEF now, H
      <4> QED
        BY <2>1, <2>5, <2>6, <2>7
    <3>2. sim[p][f] = [q \in Players |-> At(Given(p, q), f)]
      BY <3>1, <2>1 DEF SimOK
    <3>3. CommandsAt(Here(p), f) = [q \in Players |-> At(Given(p, q), f)]
      <4>1. \A q : At(Here(p).com[q].events \o Here(p).unc[q].events, f) = At(Given(p, q), f)
        BY DEF Here, Given
      <4> QED
        BY <4>1 DEF CommandsAt
    <3>4. sim'[p][f] = CommandsAt(Here(p), f) \/ sim'[p][f] = sim[p][f]
      BY <3>1, <2>4
    <3> QED
      BY <3>2, <3>3, <3>4
  <2>8. H <= ready
    <3> HIDE DEF H
    <3> QED
      BY <2>1, <2>5
  <2> QED
    BY <2>1, <2>3, <2>7, <2>8, <1>3
<1> QED
  BY <1>2, <1>3

\* Lockstep has the same prefixes.
LEMMA PrefixIsPrefix == ASSUME NEW e, NEW g, IsPrefix(e, g) PROVE Abstract!IsPrefix(e, g)
BY DEF IsPrefix, Abstract!IsPrefix

\* The logs and the histories of a state.
LogOK ==
  /\ \A q \in Players :
       Closed(q) \in Nat /\ \A f \in Nat : At(Given(Owner[q], q), f) \in Seq(Inputs)
  /\ \A p \in Peers :
       /\ CommitHead(p) \in Nat
       /\ \A f \in 1 .. CommitHead(p) : sim[p][f] \in [Players -> Seq(Inputs)]
  /\ \A p \in Peers : \A q \in Players :
       /\ CommitHead(p) <= Closed(q)
       /\ \A f \in 1 .. CommitHead(p) : sim[p][f][q] = At(Given(Owner[q], q), f)

\* They follow from the invariant.
LEMMA LogIsOK == ASSUME NoSecondThoughts PROVE IInv => LogOK
<1> SUFFICES ASSUME IInv PROVE LogOK
  OBVIOUS
<1>1. ASSUME NEW q \in Players
      PROVE  Closed(q) \in Nat /\ \A f \in Nat : At(Given(Owner[q], q), f) \in Seq(Inputs)
  <2>1. Owner[q] \in Peers
    BY ConstantsAssumption
  <2>2. Closed(q) \in Nat
    BY <2>1, CommittedIsClosed
  <2>3. Given(Owner[q], q) \in Seq(Commands) /\ Ordered(Given(Owner[q], q))
    BY RemoteStreams, <2>1
  <2> QED
    BY <2>2, <2>3, AtType
<1>2. ASSUME NEW p \in Peers
      PROVE  /\ CommitHead(p) \in Nat
             /\ \A f \in 1 .. CommitHead(p) : f \in 0 .. MaxFrame /\ sim[p][f] \in [Players -> Seq(Inputs)]
  <2> DEFINE H == CommitHead(p)
  <2>1. H \in Nat /\ ClockOK(p) /\ frame[p] \in Nat
    BY DEF IInv, Rest, StreamsOK
  <2>2. sim[p] \in [0 .. MaxFrame -> [Players -> Seq(Inputs)]] /\ MaxFrame \in Nat
    BY ConstantsAssumption DEF IInv, Types
  <2>3. H < MaxFrame + 1
    <3> DEFINE f == frame[p]
    <3>1. f \in Nat /\ H < f /\ f <= MaxFrame + 1
      BY <2>1 DEF ClockOK
    <3> HIDE DEF f, H
    <3> QED
      BY <3>1, <2>1, <2>2
  <2> HIDE DEF H
  <2>4. \A f \in 1 .. H : f \in 0 .. MaxFrame
    BY <2>1, <2>2, <2>3
  <2>5. \A f \in 1 .. H : sim[p][f] \in [Players -> Seq(Inputs)]
    BY <2>2, <2>4
  <2> QED
    BY <2>1, <2>4, <2>5 DEF H
<1>3. ASSUME NEW p \in Peers, NEW q \in Players
      PROVE  /\ CommitHead(p) <= Closed(q)
             /\ \A f \in 1 .. CommitHead(p) : sim[p][f][q] = At(Given(Owner[q], q), f)
  <2> DEFINE H == CommitHead(p)
  <2>1. /\ H <= Closed(q) /\ H \in Nat
        /\ \A f \in Nat : f <= H => At(Given(p, q), f) = At(Given(Owner[q], q), f)
    BY CommittedIsClosed
  <2>2. \A f \in 1 .. H : f \in Nat /\ f <= H
    <3> HIDE DEF H
    <3> QED
      BY <2>1
  <2>3. ASSUME NEW f \in 1 .. H PROVE sim[p][f][q] = At(Given(p, q), f)
    <3>1. SimOK(p)
      BY DEF IInv, Rest
    <3>2. sim[p][f] = [y \in Players |-> At(Given(p, y), f)]
      BY <3>1, <2>2, <1>2 DEF SimOK
    <3> QED
      BY <3>2
  <2> QED
    BY <2>1, <2>2, <2>3
<1> QED
  BY <1>1, <1>2, <1>3 DEF LogOK

\* How a step changes them.
LogGoesOn ==
  /\ \A q \in Players :
       /\ Closed(q) <= Closed(q)'
       /\ \A f \in 1 .. Closed(q) : At(Given(Owner[q], q), f) = At(Given(Owner[q], q)', f)
  /\ \A p \in Peers :
       /\ CommitHead(p) <= CommitHead(p)'
       /\ \A f \in 1 .. CommitHead(p) : sim[p][f] = sim'[p][f]

\* A frame closes frames and simulates them, but never reopens or changes one.
LEMMA FrameGoesOn ==
  ASSUME IInv, EveryPeerPlays, NoSecondThoughts, NEW p \in Peers, Frame(p)
  PROVE  LogGoesOn
<1>1. PICK pressed \in Presses(p), arrived \in Arrivals(p),
           last \in Nat, ready \in Nat, stall \in BOOLEAN : \E sent :
           /\ FrameTimes(p, last, ready, stall)
           /\ FrameSends(p, pressed, last, sent)
           /\ FrameKeeps(p, arrived, ready, sent)
           /\ FrameChanges(p, arrived, last, stall, sent)
  BY FrameDoes
<1>2. PICK sent : FrameIs(p, pressed, arrived, last, ready, stall, sent)
  BY <1>1 DEF FrameIs
<1>3. \A q \in Players :
       /\ Closed(q) <= Closed(q)'
       /\ \A f \in 1 .. Closed(q) : At(Given(Owner[q], q), f) = At(Given(Owner[q], q)', f)
  BY <1>2, LogGrows
<1>4. \A x \in Peers :
       /\ CommitHead(x) <= CommitHead(x)'
       /\ \A f \in 1 .. CommitHead(x) : sim[x][f] = sim'[x][f]
  BY <1>2, HistoryGrows
<1> QED
  BY <1>3, <1>4 DEF LogGoesOn

\* Such a step is one of lockstep.
LEMMA LockstepStep ==
  ASSUME LogOK, LogOK', LogGoesOn
  PROVE  Abstract!Next
<1>1. Abstract!Grows(LockstepLog, LockstepLog')
  <2>1. ASSUME NEW q \in Players PROVE Abstract!IsPrefix(LockstepLog[q], (LockstepLog')[q])
    <3> DEFINE n == Closed(q)
               m == Closed(q)'
               e == [f \in 1 .. n |-> At(Given(Owner[q], q), f)]
               g == [f \in 1 .. m |-> At(Given(Owner[q], q)', f)]
    <3>1. /\ n \in Nat /\ m \in Nat /\ n <= m
          /\ \A f \in 1 .. n : At(Given(Owner[q], q), f) \in Seq(Inputs)
          /\ \A f \in 1 .. m : At(Given(Owner[q], q)', f) \in Seq(Inputs)
          /\ \A f \in 1 .. n : At(Given(Owner[q], q), f) = At(Given(Owner[q], q)', f)
      <4>1. n \in Nat /\ \A f \in Nat : At(Given(Owner[q], q), f) \in Seq(Inputs)
        BY DEF LogOK
      <4>2. m \in Nat /\ \A f \in Nat : At(Given(Owner[q], q)', f) \in Seq(Inputs)
        BY DEF LogOK
      <4>3. n <= m /\ \A f \in 1 .. n : At(Given(Owner[q], q), f) = At(Given(Owner[q], q)', f)
        BY DEF LogGoesOn
      <4> HIDE DEF n, m
      <4> QED
        BY <4>1, <4>2, <4>3
    <3>2. LockstepLog[q] = e /\ (LockstepLog')[q] = g
      BY DEF LockstepLog
    <3> HIDE DEF n, m
    <3>3. /\ e \in Seq(Seq(Inputs)) /\ Len(e) = n
          /\ g \in Seq(Seq(Inputs)) /\ Len(g) = m
      BY <3>1
    <3>4. \A i \in 1 .. n : e[i] = g[i]
      BY <3>1
    <3> HIDE DEF e, g
    <3>5. IsPrefix(e, g)
      BY <3>1, <3>3, <3>4, BeginningIsPrefix
    <3> QED
      BY <3>2, <3>5, PrefixIsPrefix
  <2>2. DOMAIN LockstepLog = Players
    BY DEF LockstepLog
  <2> QED
    BY <2>1, <2>2 DEF Abstract!Grows
<1>2. Abstract!Grows(LockstepHistory, LockstepHistory')
  <2>1. ASSUME NEW p \in Peers PROVE Abstract!IsPrefix(LockstepHistory[p], (LockstepHistory')[p])
    <3> DEFINE n == CommitHead(p)
               m == CommitHead(p)'
               S == [Players -> Seq(Inputs)]
               e == [f \in 1 .. n |-> sim[p][f]]
               g == [f \in 1 .. m |-> sim'[p][f]]
    <3>1. /\ n \in Nat /\ m \in Nat /\ n <= m
          /\ \A f \in 1 .. n : sim[p][f] \in S
          /\ \A f \in 1 .. m : sim'[p][f] \in S
          /\ \A f \in 1 .. n : sim[p][f] = sim'[p][f]
      <4>1. n \in Nat /\ \A f \in 1 .. n : sim[p][f] \in S
        BY DEF LogOK
      <4>2. m \in Nat /\ \A f \in 1 .. m : sim'[p][f] \in S
        BY DEF LogOK
      <4>3. n <= m /\ \A f \in 1 .. n : sim[p][f] = sim'[p][f]
        BY DEF LogGoesOn
      <4> HIDE DEF n, m, S
      <4> QED
        BY <4>1, <4>2, <4>3
    <3>2. LockstepHistory[p] = e /\ (LockstepHistory')[p] = g
      BY DEF LockstepHistory
    <3> HIDE DEF n, m, S
    <3>3. e \in Seq(S) /\ Len(e) = n /\ g \in Seq(S) /\ Len(g) = m
      BY <3>1
    <3>4. \A i \in 1 .. n : e[i] = g[i]
      <4> TAKE i \in 1 .. n
      <4>1. i \in 1 .. m
        BY <3>1
      <4> QED
        BY <4>1, <3>1
    <3> HIDE DEF e, g
    <3>5. IsPrefix(e, g)
      BY <3>1, <3>3, <3>4, BeginningIsPrefix
    <3> QED
      BY <3>2, <3>5, PrefixIsPrefix
  <2>2. DOMAIN LockstepHistory = Peers
    BY DEF LockstepHistory
  <2> QED
    BY <2>1, <2>2 DEF Abstract!Grows
<1>3. ASSUME NEW p \in Peers PROVE Abstract!FromTheLog(LockstepLog', (LockstepHistory')[p])
  <2> DEFINE H == CommitHead(p)'
             h == [f \in 1 .. H |-> sim'[p][f]]
  <2>1. (LockstepHistory')[p] = h /\ H \in Nat
    BY DEF LockstepHistory, LogOK
  <2>2. Len(h) = H
    <3> HIDE DEF H
    <3> QED
      BY <2>1
  <2>3. ASSUME NEW q \in Players
        PROVE  Abstract!IsPrefix([f \in 1 .. Len(h) |-> h[f][q]], (LockstepLog')[q])
    <3> DEFINE m == Closed(q)'
               g == [f \in 1 .. m |-> At(Given(Owner[q], q)', f)]
               e == [f \in 1 .. H |-> h[f][q]]
    <3>1. /\ m \in Nat /\ H <= m
          /\ \A f \in Nat : At(Given(Owner[q], q)', f) \in Seq(Inputs)
          /\ \A f \in 1 .. H : h[f][q] = At(Given(Owner[q], q)', f)
      <4>1. m \in Nat /\ \A f \in Nat : At(Given(Owner[q], q)', f) \in Seq(Inputs)
        BY DEF LogOK
      <4>2. H <= m /\ \A f \in 1 .. H : sim'[p][f][q] = At(Given(Owner[q], q)', f)
        BY DEF LogOK
      <4>3. \A f \in 1 .. H : h[f] = sim'[p][f]
        OBVIOUS
      <4> QED
        BY <4>1, <4>2, <4>3
    <3>2. (LockstepLog')[q] = g
      BY DEF LockstepLog
    <3> HIDE DEF m, H, h
    <3>3. /\ e \in Seq(Seq(Inputs)) /\ Len(e) = H
          /\ g \in Seq(Seq(Inputs)) /\ Len(g) = m
      <4>1. (\A f \in 1 .. H : f \in Nat) /\ \A f \in 1 .. m : f \in Nat
        BY <3>1, <2>1
      <4>2. \A f \in 1 .. H : h[f][q] \in Seq(Inputs)
        BY <4>1, <3>1
      <4>3. e \in Seq(Seq(Inputs)) /\ Len(e) = H
        BY <4>2, <2>1
      <4>4. \A f \in 1 .. m : At(Given(Owner[q], q)', f) \in Seq(Inputs)
        BY <4>1, <3>1
      <4>5. m \in Nat
        BY <3>1
      <4>6. g \in Seq(Seq(Inputs)) /\ Len(g) = m
        BY <4>4, <4>5
      <4> QED
        BY <4>3, <4>6
    <3>4. \A i \in 1 .. H : e[i] = g[i]
      BY <3>1, <2>1
    <3>5. [f \in 1 .. Len(h) |-> h[f][q]] = e
      BY <2>2
    <3> HIDE DEF e, g
    <3>6. IsPrefix(e, g)
      BY <3>1, <3>3, <3>4, <2>1, BeginningIsPrefix
    <3> QED
      BY <3>2, <3>5, <3>6, PrefixIsPrefix
  <2> HIDE DEF h
  <2> QED
    BY <2>1, <2>3 DEF Abstract!FromTheLog
<1> QED
  BY <1>1, <1>2, <1>3 DEF Abstract!Next

\* The peers implement Lockstep: every committed frame of ProcessFrame is one
\* for which all players' commands are final, and each peer's history of them
\* is the same.
THEOREM PeersKeepLockstep ==
  ASSUME EveryPeerPlays, NoSecondThoughts PROVE Spec => ImplementsLockstep
<1>1. Init => Abstract!Init
  <2> SUFFICES ASSUME Init PROVE Abstract!Init
    OBVIOUS
  <2>1. IInv
    BY InitHasInvariant
  <2>2. ASSUME NEW q \in Players PROVE LockstepLog[q] = <<>>
    <3>1. Owner[q] \in Peers
      BY ConstantsAssumption
    <3>2. frame[Owner[q]] = 1 /\ Given(Owner[q], q) = <<>>
      <4>1. EmptyStream(0).events \o EmptyStream(0).events = <<>>
        BY NothingYet
      <4> QED
        BY <3>1, <4>1 DEF Init, Given
    <3>3. At(<<>>, 1) = <<>>
      BY NothingYet
    <3>4. Closed(q) = 0
      BY <3>2, <3>3 DEF Closed
    <3>5. LockstepLog[q] = [f \in 1 .. 0 |-> At(Given(Owner[q], q), f)]
      BY <3>4 DEF LockstepLog
    <3> QED
      BY <3>5
  <2>3. ASSUME NEW p \in Peers PROVE LockstepHistory[p] = <<>>
    <3>1. (CHOOSE q \in Players : TRUE) \in Players
      BY ConstantsAssumption
    <3>2. CommitHead(p) = 0
      BY <3>1, NothingYet DEF Init, CommitHead, GetMaxCommitHead
    <3>3. LockstepHistory[p] = [f \in 1 .. 0 |-> sim[p][f]]
      BY <3>2 DEF LockstepHistory
    <3> QED
      BY <3>3
  <2>4. LockstepLog = [q \in Players |-> <<>>]
    <3>1. LockstepLog = [q \in Players |-> LockstepLog[q]]
      BY DEF LockstepLog
    <3> QED
      BY <3>1, <2>2
  <2>5. LockstepHistory = [p \in Peers |-> <<>>]
    <3>1. LockstepHistory = [p \in Peers |-> LockstepHistory[p]]
      BY DEF LockstepHistory
    <3> QED
      BY <3>1, <2>3
  <2> QED
    BY <2>4, <2>5 DEF Abstract!Init
<1>2. IInv => LogOK
  BY LogIsOK
<1>3. ASSUME IInv, LogOK, LogOK', [Next]_vars
      PROVE  [Abstract!Next]_<<LockstepLog, LockstepHistory>>
  <2>1. ASSUME NEW p \in Peers, Frame(p) PROVE Abstract!Next
    BY <2>1, <1>3, FrameGoesOn, LockstepStep
  <2>2. CASE UNCHANGED vars
    <3>1. /\ frame' = frame /\ com' = com /\ unc' = unc /\ sim' = sim
      BY <2>2 DEF vars
    <3>2. LockstepLog' = LockstepLog /\ LockstepHistory' = LockstepHistory
      BY <3>1 DEF LockstepLog, LockstepHistory, Closed, Given, CommitHead, GetMaxCommitHead
    <3> QED
      BY <3>2
  <2> QED
    BY <2>1, <2>2, <1>3 DEF Next, Finished
<1> QED
  BY <1>1, <1>2, <1>3, PeersInvariant, PTL DEF Spec, ImplementsLockstep, Abstract!Spec
===============================================================================
