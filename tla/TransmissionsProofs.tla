-------------------------- MODULE TransmissionsProofs --------------------------
(***************************************************************************)
(* Theorems about Transmissions, for any batches, payloads and prefetches. *)
(*                                                                         *)
(* Every unit that is sent has its place, after all units sent before it.  *)
(* The invariant says that what the receiver holds and what is on its way  *)
(* are the units at the places behind the batches already received, up to  *)
(* what the sender has stored as long as the connection is valid.  So a    *)
(* decoding begins where the next batch begins, whatever has been cut or   *)
(* stitched, and comes to the whole batch or to a wait for more.           *)
(***************************************************************************)
EXTENDS Transmissions, SequenceTheorems, WellFoundedInduction, NaturalsInduction, TLAPS

(* What a fetch finds *)

\* The part of the invariant that does not depend on what is decoded.
RInv == TypeOK /\ FetchNeverBlocks

\* The initial states.
LEMMA ReaderStart == Init => RInv
<1> SUFFICES ASSUME Init PROVE RInv
  OBVIOUS
<1>1. Len(Sizes) \in Nat /\ Len(Sizes) > 0
  BY TransmissionsAssumption
<1>2. 1 \in 1 .. Len(Sizes) + 1
  BY <1>1
<1>3. TypeOK
  BY <1>2 DEF Init, TypeOK
<1>4. FetchNeverBlocks
  BY DEF Init, FetchNeverBlocks
<1> QED
  BY <1>3, <1>4 DEF RInv

\* What a sender does leaves the receiver's buffers alone.
LEMMA SenderKeeps ==
  ASSUME RInv, SendBatch \/ StoreNextBuffer \/ Close \/ Terminate
  PROVE  RInv'
<1>1. Len(Sizes) \in Nat
  BY TransmissionsAssumption
<1>2. UNCHANGED <<prefetched, working, reader>>
  BY DEF SendBatch, StoreNextBuffer, Close, Terminate, buffers
<1>3. FetchNeverBlocks'
  BY <1>2 DEF RInv, FetchNeverBlocks
<1>4. TypeOK'
  <2>1. CASE SendBatch
    BY <1>1, <2>1 DEF RInv, TypeOK, SendBatch
  <2>2. CASE StoreNextBuffer \/ Close \/ Terminate
    BY <2>2 DEF RInv, TypeOK, StoreNextBuffer, Close, Terminate, sender
  <2> QED
    BY <2>1, <2>2
<1> QED
  BY <1>3, <1>4 DEF RInv

\* A size is only found where there is something to fetch.
LEMMA PeekKeeps ==
  ASSUME RInv, BeginPass \/ PeekNextBufferSize
  PROVE  RInv'
<1>1. CASE BeginPass
  BY <1>1 DEF RInv, TypeOK, FetchNeverBlocks, BeginPass, sender, buffers
<1>2. CASE PeekNextBufferSize
  <2>1. TypeOK'
    BY <1>2 DEF RInv, TypeOK, PeekNextBufferSize, Prefetch, sender
  <2>2. working' = working /\ (working # <<>> => prefetched' = prefetched)
    BY <1>2 DEF PeekNextBufferSize
  <2>3. reader' = IF working = <<>> /\ prefetched' = <<>> THEN "idle" ELSE "decode"
    BY <1>2 DEF PeekNextBufferSize
  <2> QED
    BY <2>1, <2>2, <2>3 DEF RInv, FetchNeverBlocks
<1> QED
  BY <1>1, <1>2

\* A fetch takes all that was prefetched into the working buffer.
LEMMA DecodeKeeps ==
  ASSUME RInv, Decode
  PROVE  RInv'
<1>1. prefetched' = IF working = <<>> THEN <<>> ELSE prefetched
  BY DEF Decode
<1>2. prefetched' = <<>>
  BY <1>1 DEF RInv, FetchNeverBlocks
<1>3. /\ reader' \in {"stitch", "peek", "idle"}
      /\ socket' \in {"shut", socket}
      /\ \E d : greeted' = (greeted \/ d.is = "success") /\ invalid' = (invalid \/ d.is = "bad")
  <2>1. PICK bytes, d :
          /\ greeted' = (greeted \/ d.is = "success")
          /\ invalid' = (invalid \/ d.is = "bad")
          /\ socket' = IF d.is = "bad" THEN "shut" ELSE socket
          /\ reader' = CASE d.is = "too small" -> "stitch"
                          [] d.is # "too small" /\ greeted -> "peek"
                          [] OTHER -> "idle"
    BY DEF Decode
  <2> QED
    BY <2>1
<1>4. UNCHANGED <<next, closed>>
  BY DEF Decode, sender
<1>5. greeted' \in BOOLEAN /\ invalid' \in BOOLEAN
  BY <1>3
<1> QED
  BY <1>2, <1>3, <1>4, <1>5 DEF RInv, TypeOK, FetchNeverBlocks

\* Stitching leaves nothing prefetched.
LEMMA StitchKeeps ==
  ASSUME RInv, TryStitchNextBuffer
  PROVE  RInv'
<1>1. prefetched' = <<>> /\ reader' \in {"peek", "idle"} /\ socket' \in {"ended", socket}
  BY DEF TryStitchNextBuffer
<1>2. UNCHANGED <<next, closed, greeted, invalid>>
  BY DEF TryStitchNextBuffer, sender
<1> QED
  BY <1>1, <1>2 DEF RInv, TypeOK, FetchNeverBlocks

\* Every step keeps the invariant.
LEMMA ReaderStep == RInv /\ [Next]_vars => RInv'
<1>1. CASE UNCHANGED vars
  BY <1>1 DEF vars, sender, buffers, RInv, TypeOK, FetchNeverBlocks
<1> QED
  BY <1>1, SenderKeeps, PeekKeeps, DecodeKeeps, StitchKeeps DEF Next, Read

\* The variables have their types.
THEOREM TransmissionsTypes == Spec => []TypeOK
<1>1. RInv => TypeOK
  BY DEF RInv
<1> QED
  BY <1>1, ReaderStart, ReaderStep, PTL DEF Spec

\* A fetch that follows a peek finds its bytes without waiting for the sender
\* (BufferStream.h, IncomingBufferStitcher::CloneNextBuffer).
THEOREM FetchesDoNotBlock == Spec => []FetchNeverBlocks
<1>1. RInv => FetchNeverBlocks
  BY DEF RInv
<1> QED
  BY <1>1, ReaderStart, ReaderStep, PTL DEF Spec

-----------------------------------------------------------------------------
(* Places and the invariant *)

\* What is sent and received.
Unit == [kind : {"common", "batch", "message"}, total : Nat, size : Nat, encrypted : BOOLEAN]

\* How many transmissions batch b takes, how many messages and how many units the
\* first k of them hold, and how many units they all do.
Parts(b) == (Sizes[b] + MaxPayload - 1) \div MaxPayload
Until(b, k) == Least(k * MaxPayload, Sizes[b])
Through(b, k) == Until(b, k) + 2 * k
Units(b) == Sizes[b] + 2 * Parts(b)

\* How many units are sent before batch b, and before its transmission k.
Offset[b \in 1 .. Len(Sizes) + 1] ==
  IF b = 1 THEN 0 ELSE Offset[b - 1] + Units(b - 1)

Start(b, k) == Offset[b] + Through(b, k - 1)

\* The bytes are what is sent after the first units.
Holds(bytes, first) ==
  \A b \in DOMAIN Sizes : \A k \in 1 .. Parts(b) :
    \A o \in 1 .. Len(CreateTransmissions(b)[k]) : \A i \in 1 .. Len(bytes) :
      first + i = Start(b, k) + o => bytes[i] = CreateTransmissions(b)[k][o]

\* The units that the sender has stored, those that make the batches received,
\* and those the receiver has on its side or will get.
Stored == IF unstored = <<>> THEN Offset[next]
          ELSE Start(next - 1, Parts(next - 1) - Len(unstored) + 1)
Done == Offset[Len(batches) + 1]
Held == (working \o prefetched) \o network

\* What is left of a batch to be stored is the end of its transmissions.
Unsent ==
  /\ unstored \in Seq(Seq(Unit))
  /\ unstored # <<>> =>
       /\ next > 1
       /\ Len(unstored) <= Parts(next - 1)
       /\ \A j \in 1 .. Len(unstored) :
            unstored[j] = CreateTransmissions(next - 1)[Parts(next - 1) - Len(unstored) + j]

\* What has been received is what was sent first.
Received ==
  /\ batches \in Seq(Seq(Unit)) /\ greeted = (batches # <<>>)
  /\ Len(batches) <= SentWhole
  /\ \A b \in 1 .. Len(batches) : batches[b] = Messages(b)

\* What the receiver holds and what is on its way comes next.
Coming ==
  /\ working \in Seq(Unit) /\ prefetched \in Seq(Unit) /\ network \in Seq(Unit)
  /\ Done + Len(Held) <= Stored
  /\ socket = "valid" => Done + Len(Held) = Stored
  /\ Holds(Held, Done)

\* The invariant.
SInv == RInv /\ Unsent /\ Received /\ Coming /\ ~invalid

-----------------------------------------------------------------------------
(* Arithmetic, batches and transmissions *)

\* A set of numbers has a smallest one.
LEMMA Smallest == ASSUME NEW S \in SUBSET Nat, S # {} PROVE \E m \in S : \A n \in S : m <= n
<1>1. PICK m \in S : \A n \in S : ~ (<<n, m>> \in OpToRel(<, Nat))
  BY NatLessThanWellFounded, WFMin
<1>2. \A n \in S : ~ (n < m)
  BY <1>1 DEF OpToRel
<1> QED
  BY <1>2

\* Induction up to a bound.
LEMMA SetInduction ==
  ASSUME NEW n \in Nat, NEW S, 0 \in S, \A i \in 1 .. n : i - 1 \in S => i \in S
  PROVE  0 .. n \subseteq S
<1>1. (0 .. n) \ S = {}
  <2> SUFFICES ASSUME (0 .. n) \ S # {} PROVE FALSE
    OBVIOUS
  <2>1. PICK m \in (0 .. n) \ S : \A i \in (0 .. n) \ S : m <= i
    BY Smallest, (0 .. n) \ S \in SUBSET Nat
  <2>2. m \in 1 .. n /\ m - 1 \in 0 .. n /\ m - 1 \in S
    BY <2>1
  <2> QED
    BY <2>1, <2>2
<1> QED
  BY <1>1

\* Divided by a size and rounded up.
LEMMA DivideUp ==
  ASSUME NEW s \in Nat, NEW m \in Nat, s > 0, m > 0
  PROVE  LET n == (s + m - 1) \div m
         IN  n \in Nat /\ n > 0 /\ n * m >= s /\ (n - 1) * m < s
OBVIOUS

\* Multiplying keeps the order.
LEMMA TimesGrows ==
  ASSUME NEW a \in Nat, NEW b \in Nat, NEW m \in Nat, a <= b
  PROVE  a * m <= b * m
OBVIOUS

\* A product is a number.
LEMMA TimesNat == ASSUME NEW a \in Nat, NEW m \in Nat PROVE a * m \in Nat
OBVIOUS

\* A batch has messages, and as many transmissions as they need.
LEMMA BatchSizes ==
  ASSUME NEW b \in DOMAIN Sizes
  PROVE  /\ Len(Sizes) \in Nat /\ b \in 1 .. Len(Sizes)
         /\ Sizes[b] \in Nat /\ Sizes[b] > 0
         /\ Parts(b) \in Nat /\ Parts(b) > 0
         /\ Units(b) \in Nat /\ Units(b) > 0
         /\ Parts(b) * MaxPayload >= Sizes[b]
         /\ (Parts(b) - 1) * MaxPayload < Sizes[b]
<1>1. Len(Sizes) \in Nat /\ b \in 1 .. Len(Sizes) /\ Sizes[b] \in Nat \ {0}
  BY TransmissionsAssumption
<1>2. Sizes[b] \in Nat /\ Sizes[b] > 0 /\ MaxPayload \in Nat /\ MaxPayload > 0
  BY <1>1, TransmissionsAssumption
<1>3. /\ Parts(b) \in Nat /\ Parts(b) > 0
      /\ Parts(b) * MaxPayload >= Sizes[b]
      /\ (Parts(b) - 1) * MaxPayload < Sizes[b]
  BY <1>2, DivideUp DEF Parts
<1>4. Units(b) \in Nat /\ Units(b) > 0
  BY <1>2, <1>3 DEF Units
<1> QED
  BY <1>1, <1>2, <1>3, <1>4

\* All transmissions but the last are full.
LEMMA UntilIs ==
  ASSUME NEW b \in DOMAIN Sizes, NEW k \in 0 .. Parts(b)
  PROVE  /\ Until(b, k) \in Nat /\ Until(b, k) <= Sizes[b]
         /\ k < Parts(b) => Until(b, k) = k * MaxPayload /\ Until(b, k) < Sizes[b]
         /\ k = Parts(b) => Until(b, k) = Sizes[b]
<1>1. k \in Nat /\ MaxPayload \in Nat /\ Parts(b) \in Nat /\ Sizes[b] \in Nat
  BY BatchSizes, TransmissionsAssumption
<1>2. k * MaxPayload \in Nat
  BY <1>1, TimesNat
<1>3. Until(b, k) \in Nat /\ Until(b, k) <= Sizes[b]
  BY <1>1, <1>2 DEF Until, Least
<1>4. ASSUME k < Parts(b) PROVE Until(b, k) = k * MaxPayload /\ Until(b, k) < Sizes[b]
  <2>1. Parts(b) - 1 \in Nat /\ k <= Parts(b) - 1
    BY <1>1, <1>4
  <2>2. k * MaxPayload <= (Parts(b) - 1) * MaxPayload /\ (Parts(b) - 1) * MaxPayload \in Nat
    BY <1>1, <2>1, TimesGrows, TimesNat
  <2>3. k * MaxPayload < Sizes[b]
    BY <1>1, <1>2, <2>2, BatchSizes
  <2> QED
    BY <2>3 DEF Until, Least
<1>5. ASSUME k = Parts(b) PROVE Until(b, k) = Sizes[b]
  BY <1>1, <1>2, <1>5, BatchSizes DEF Until, Least
<1> QED
  BY <1>3, <1>4, <1>5

\* A transmission has messages, as many as it may.
LEMMA UntilGrows ==
  ASSUME NEW b \in DOMAIN Sizes, NEW k \in 1 .. Parts(b)
  PROVE  /\ k \in Nat /\ k - 1 \in 0 .. Parts(b) /\ k \in 0 .. Parts(b)
         /\ Until(b, k - 1) = (k - 1) * MaxPayload
         /\ Until(b, k - 1) \in Nat /\ Until(b, k) \in Nat
         /\ Until(b, k - 1) < Until(b, k)
<1>1. Parts(b) \in Nat /\ MaxPayload \in Nat /\ MaxPayload > 0 /\ Sizes[b] \in Nat
  BY BatchSizes, TransmissionsAssumption
<1>2. k \in Nat /\ k - 1 \in 0 .. Parts(b) /\ k \in 0 .. Parts(b) /\ k - 1 < Parts(b)
  BY <1>1
<1>3. Until(b, k - 1) = (k - 1) * MaxPayload /\ Until(b, k - 1) < Sizes[b]
  BY <1>2, UntilIs
<1>4. Until(b, k - 1) \in Nat /\ Until(b, k) \in Nat
  BY <1>2, UntilIs
<1>5. Until(b, k - 1) < Until(b, k)
  <2>1. CASE k < Parts(b)
    <3>1. Until(b, k) = k * MaxPayload
      BY <1>2, <2>1, UntilIs
    <3>2. k * MaxPayload = (k - 1) * MaxPayload + MaxPayload
      BY <1>1, <1>2
    <3> QED
      BY <3>1, <3>2, <1>1, <1>3, <1>4
  <2>2. CASE k = Parts(b)
    BY <1>2, <1>3, <2>2, UntilIs
  <2> QED
    BY <2>1, <2>2, <1>1, <1>2
<1> QED
  BY <1>2, <1>3, <1>4, <1>5

\* The units of the transmissions of a batch.
LEMMA ThroughGrows ==
  ASSUME NEW b \in DOMAIN Sizes, NEW k \in 1 .. Parts(b)
  PROVE  /\ Through(b, k - 1) \in Nat /\ Through(b, k) \in Nat
         /\ Through(b, k) = Through(b, k - 1) + 2 + (Until(b, k) - Until(b, k - 1))
         /\ Through(b, k - 1) + 2 < Through(b, k)
<1>1. /\ k \in Nat /\ k - 1 \in Nat
      /\ Until(b, k - 1) \in Nat /\ Until(b, k) \in Nat
      /\ Until(b, k - 1) < Until(b, k)
  BY UntilGrows
<1> QED
  BY <1>1 DEF Through

\* None of the transmissions of a batch, and all of them.
LEMMA ThroughAll ==
  ASSUME NEW b \in DOMAIN Sizes
  PROVE  Through(b, 0) = 0 /\ Through(b, Parts(b)) = Units(b)
<1>1. Parts(b) \in Nat /\ Parts(b) > 0 /\ Parts(b) \in 0 .. Parts(b) /\ 0 \in 0 .. Parts(b)
  BY BatchSizes
<1>2. Until(b, 0) = 0
  <2>1. Until(b, 0) = 0 * MaxPayload /\ MaxPayload \in Nat
    BY <1>1, UntilIs, TransmissionsAssumption
  <2> QED
    BY <2>1
<1>3. Until(b, Parts(b)) = Sizes[b]
  BY <1>1, UntilIs
<1> QED
  BY <1>1, <1>2, <1>3 DEF Through, Units

\* More transmissions are not fewer units.
LEMMA ThroughMonotone ==
  ASSUME NEW b \in DOMAIN Sizes, NEW j \in 0 .. Parts(b), NEW k \in 0 .. Parts(b), j <= k
  PROVE  Through(b, j) \in Nat /\ Through(b, k) \in Nat /\ Through(b, j) <= Through(b, k)
<1>1. Parts(b) \in Nat /\ j \in Nat /\ k \in Nat /\ k - j \in Nat
  BY BatchSizes
<1>2. Through(b, j) \in Nat /\ Through(b, k) \in Nat
  BY <1>1, UntilIs DEF Through
<1> DEFINE S == {n \in 0 .. (k - j) : Through(b, j) <= Through(b, j + n)}
<1>3. 0 \in S
  BY <1>1, <1>2
<1>4. ASSUME NEW n \in 1 .. (k - j), n - 1 \in S PROVE n \in S
  <2>1. j + n \in 1 .. Parts(b) /\ n \in 0 .. (k - j) /\ (j + n) - 1 = j + (n - 1)
    BY <1>1
  <2>2. Through(b, j) <= Through(b, (j + n) - 1)
    BY <1>4, <2>1
  <2>3. /\ Through(b, (j + n) - 1) \in Nat /\ Through(b, j + n) \in Nat
        /\ Through(b, (j + n) - 1) + 2 < Through(b, j + n)
    BY <2>1, ThroughGrows
  <2> HIDE DEF S
  <2>4. Through(b, j) <= Through(b, j + n)
    BY <1>2, <2>2, <2>3
  <2> QED
    BY <2>1, <2>4 DEF S
<1>5. \A n \in 1 .. (k - j) : n - 1 \in S => n \in S
  BY <1>4
<1> HIDE DEF S
<1>6. k - j \in S
  <2>1. 0 .. (k - j) \subseteq S
    BY <1>1, <1>3, <1>5, SetInduction
  <2> QED
    BY <2>1, <1>1
<1>7. j + (k - j) = k
  BY <1>1
<1> QED
  BY <1>2, <1>6, <1>7 DEF S

\* One sequence after another.
LEMMA Joined ==
  ASSUME NEW s \in Seq(Unit), NEW t \in Seq(Unit)
  PROVE  /\ Len(s) \in Nat /\ Len(t) \in Nat
         /\ s \o t \in Seq(Unit) /\ Len(s \o t) = Len(s) + Len(t)
         /\ \A i \in 1 .. Len(s) : (s \o t)[i] = s[i]
         /\ \A i \in 1 .. Len(t) : (s \o t)[Len(s) + i] = t[i]
<1>1. Len(s) \in Nat /\ Len(t) \in Nat
  BY LenProperties
<1>2. /\ s \o t \in Seq(Unit) /\ Len(s \o t) = Len(s) + Len(t)
      /\ \A i \in 1 .. Len(s) + Len(t) :
           (s \o t)[i] = IF i <= Len(s) THEN s[i] ELSE t[i - Len(s)]
  BY ConcatProperties
<1>3. \A i \in 1 .. Len(s) : (s \o t)[i] = s[i]
  BY <1>1, <1>2
<1>4. ASSUME NEW i \in 1 .. Len(t) PROVE (s \o t)[Len(s) + i] = t[i]
  <2>1. Len(s) + i \in 1 .. Len(s) + Len(t) /\ ~ (Len(s) + i <= Len(s))
        /\ (Len(s) + i) - Len(s) = i
    BY <1>1
  <2>2. (s \o t)[Len(s) + i] = t[(Len(s) + i) - Len(s)]
    BY <1>2, <2>1
  <2> QED
    BY <2>1, <2>2
<1> QED
  BY <1>1, <1>2, <1>3, <1>4

\* The messages of a batch.
LEMMA MessagesAre ==
  ASSUME NEW b \in DOMAIN Sizes
  PROVE  /\ Messages(b) \in Seq(Unit) /\ Len(Messages(b)) = Sizes[b]
         /\ Messages(b) # <<>>
         /\ \A i \in 1 .. Sizes[b] :
              Messages(b)[i] =
                [kind |-> "message", total |-> b, size |-> i, encrypted |-> Encrypted(b)]
<1>1. Sizes[b] \in Nat /\ Sizes[b] > 0 /\ b \in Nat
  BY BatchSizes
<1> DEFINE u(i) == [kind |-> "message", total |-> b, size |-> i, encrypted |-> Encrypted(b)]
<1>2. \A i \in 1 .. Sizes[b] : u(i) \in Unit
  BY <1>1 DEF Unit, Encrypted
<1>3. Messages(b) = [i \in 1 .. Sizes[b] |-> u(i)]
  BY DEF Messages
<1> HIDE DEF u
<1>4. Messages(b) \in Seq(Unit) /\ Len(Messages(b)) = Sizes[b] /\ Messages(b) # <<>>
  BY <1>1, <1>2, <1>3
<1>5. \A i \in 1 .. Sizes[b] : Messages(b)[i] = u(i)
  BY <1>3
<1> QED
  BY <1>4, <1>5 DEF u

\* Two headers before some messages.
LEMMA Framed ==
  ASSUME NEW h \in Seq(Unit), NEW m \in Seq(Unit), Len(h) = 2
  PROVE  LET t == h \o m
         IN  /\ t \in Seq(Unit) /\ Len(t) = 2 + Len(m)
             /\ t[1] = h[1] /\ t[2] = h[2] /\ \A i \in 1 .. Len(m) : t[2 + i] = m[i]
<1>1. /\ h \o m \in Seq(Unit) /\ Len(h \o m) = Len(h) + Len(m)
      /\ \A i \in 1 .. Len(h) : (h \o m)[i] = h[i]
      /\ \A i \in 1 .. Len(m) : (h \o m)[Len(h) + i] = m[i]
  BY Joined
<1> QED
  BY <1>1

\* One transmission: two headers and some messages.
LEMMA TransmissionIs ==
  ASSUME NEW b \in DOMAIN Sizes, NEW k \in 1 .. Parts(b)
  PROVE  LET t == CreateTransmissions(b)[k]
             n == Until(b, k) - Until(b, k - 1)
         IN  /\ n \in Nat /\ n > 0
             /\ t \in Seq(Unit) /\ Len(t) = 2 + n /\ t # <<>>
             /\ t[1] = Common /\ t[2] = BatchHeader(Sizes[b], n, Encrypted(b))
             /\ \A i \in 1 .. n : t[2 + i] = Messages(b)[Until(b, k - 1) + i]
<1> DEFINE f == Until(b, k - 1)
           l == Until(b, k)
           n == l - f
           h == <<Common, BatchHeader(Sizes[b], n, Encrypted(b))>>
           m == SubSeq(Messages(b), f + 1, l)
<1>1. f \in Nat /\ l \in Nat /\ f < l /\ f = (k - 1) * MaxPayload /\ l <= Sizes[b]
  <2>1. k \in 0 .. Parts(b)
    BY UntilGrows
  <2> QED
    BY <2>1, UntilGrows, UntilIs
<1>2. CreateTransmissions(b)[k] = h \o m
  <2>1. l - (f + 1) + 1 = n
    BY <1>1
  <2>2. (k - 1) * MaxPayload + 1 = f + 1 /\ Least(k * MaxPayload, Sizes[b]) = l
    BY <1>1 DEF Until
  <2>3. CreateTransmissions(b)[k] =
          LET first == (k - 1) * MaxPayload + 1
              last == Least(k * MaxPayload, Sizes[b])
          IN  <<Common, BatchHeader(Sizes[b], last - first + 1, Encrypted(b))>>
                \o SubSeq(Messages(b), first, last)
    BY DEF CreateTransmissions, Parts
  <2> HIDE DEF f, l
  <2>4. CreateTransmissions(b)[k] =
          <<Common, BatchHeader(Sizes[b], l - (f + 1) + 1, Encrypted(b))>>
                \o SubSeq(Messages(b), f + 1, l)
    BY <2>2, <2>3
  <2> QED
    BY <2>1, <2>4
<1>3. n \in Nat /\ n > 0
  BY <1>1
<1> HIDE DEF f, l
<1>4. m \in Seq(Unit) /\ Len(m) = n /\ \A i \in 1 .. n : m[i] = Messages(b)[f + i]
  <2>1. Messages(b) \in Seq(Unit) /\ Len(Messages(b)) = Sizes[b] /\ Sizes[b] \in Nat
    BY MessagesAre, BatchSizes
  <2>2. \A i \in 1 .. n : f + 1 + i - 1 = f + i
    BY <1>1
  <2>3. Len(m) = n
    BY <1>1, <2>1
  <2>4. \A i \in 1 .. n : m[i] = Messages(b)[f + i]
    BY <1>1, <2>1, SMTT(30)
  <2>5. \A i \in 1 .. n : Messages(b)[f + i] \in Unit
    BY <1>1, <2>1
  <2>6. m \in Seq(Unit)
    BY <1>1, <2>1
  <2> QED
    BY <2>3, <2>4, <2>6
<1>5. Common \in Unit /\ BatchHeader(Sizes[b], n, Encrypted(b)) \in Unit
  BY <1>3, BatchSizes DEF Common, BatchHeader, Unit, Encrypted
<1> HIDE DEF n, m
<1>6. h \in Seq(Unit) /\ Len(h) = 2
  BY <1>5
<1>7. h[1] = Common /\ h[2] = BatchHeader(Sizes[b], n, Encrypted(b))
  OBVIOUS
<1> HIDE DEF h
<1> DEFINE t == h \o m
<1>9. /\ t \in Seq(Unit) /\ Len(t) = 2 + n
      /\ t[1] = h[1] /\ t[2] = h[2] /\ \A i \in 1 .. n : t[2 + i] = m[i]
  BY <1>4, <1>6, Framed
<1> HIDE DEF t
<1>10. t # <<>>
  BY <1>9, <1>3
<1>11. CreateTransmissions(b)[k] = t
  BY <1>2 DEF t
<1> QED
  BY <1>3, <1>4, <1>7, <1>9, <1>10, <1>11 DEF n, f, l

\* How many transmissions there are.
LEMMA TransmissionsAre ==
  ASSUME NEW b \in DOMAIN Sizes
  PROVE  /\ CreateTransmissions(b) \in Seq(Seq(Unit))
         /\ Len(CreateTransmissions(b)) = Parts(b)
         /\ CreateTransmissions(b) # <<>>
<1>1. Parts(b) \in Nat /\ Parts(b) > 0
  BY BatchSizes
<1>2. \A k \in 1 .. Parts(b) : CreateTransmissions(b)[k] \in Seq(Unit)
  BY TransmissionIs
<1> DEFINE t(k) == CreateTransmissions(b)[k]
<1>3. CreateTransmissions(b) = [k \in 1 .. Parts(b) |-> t(k)]
  BY DEF CreateTransmissions, Parts
<1> DEFINE T == CreateTransmissions(b)
<1>4. \A k \in 1 .. Parts(b) : t(k) \in Seq(Unit)
  BY <1>2
<1> HIDE DEF t
<1>5. T \in Seq(Seq(Unit)) /\ Len(T) = Parts(b)
  BY <1>1, <1>3, <1>4
<1> HIDE DEF T
<1>6. T # <<>>
  BY <1>1, <1>5
<1> QED
  BY <1>5, <1>6 DEF T

\* The places where batches begin.
LEMMA OffsetIs ==
  /\ Offset[1] = 0
  /\ \A b \in 1 .. Len(Sizes) + 1 : Offset[b] \in Nat
  /\ \A b \in DOMAIN Sizes : Offset[b + 1] = Offset[b] + Units(b)
<1>0. Len(Sizes) \in Nat /\ DOMAIN Sizes = 1 .. Len(Sizes)
  BY TransmissionsAssumption
<1>1. \A b \in DOMAIN Sizes : Units(b) \in Nat
  BY BatchSizes
<1> DEFINE IsIt(g, m) ==
             g = [i \in 1 .. m + 1 |-> IF i = 1 THEN 0 ELSE g[i - 1] + Units(i - 1)]
           S == {m \in 0 .. Len(Sizes) : \E g : IsIt(g, m)}
<1>2. 0 \in S
  <2> DEFINE g == [i \in 1 .. 1 |-> 0]
  <2>1. IsIt(g, 0)
    OBVIOUS
  <2>2. \E x : IsIt(x, 0)
    BY <2>1
  <2> QED
    BY <2>2, <1>0
<1>3. ASSUME NEW m \in 1 .. Len(Sizes), m - 1 \in S PROVE m \in S
  <2>1. PICK f : IsIt(f, m - 1)
    BY <1>3
  <2> DEFINE x == f[m] + Units(m)
             g == [i \in 1 .. m + 1 |-> IF i = m + 1 THEN x ELSE f[i]]
  <2>2. \A i \in 1 .. m : g[i] = f[i]
    OBVIOUS
  <2>3. \A i \in 1 .. m : f[i] = IF i = 1 THEN 0 ELSE f[i - 1] + Units(i - 1)
    <3> HIDE DEF g
    <3> QED
      BY <2>1
  <2>4. g[m + 1] = x
    OBVIOUS
  <2>5. g = [i \in 1 .. m + 1 |-> g[i]]
    OBVIOUS
  <2> HIDE DEF g
  <2>6. ASSUME NEW i \in 1 .. m + 1
        PROVE  g[i] = IF i = 1 THEN 0 ELSE g[i - 1] + Units(i - 1)
    <3>1. CASE i = m + 1
      <4>1. i # 1 /\ i - 1 = m /\ m \in 1 .. m
        BY <3>1
      <4> QED
        BY <3>1, <4>1, <2>2, <2>4
    <3>2. CASE i # m + 1
      <4>1. i \in 1 .. m /\ (i # 1 => i - 1 \in 1 .. m)
        BY <3>2
      <4> QED
        BY <4>1, <2>2, <2>3
    <3> QED
      BY <3>1, <3>2
  <2>7. IsIt(g, m)
    BY <2>5, <2>6
  <2> QED
    BY <2>7
<1>4. Len(Sizes) \in S
  <2>1. \A i \in 1 .. Len(Sizes) : i - 1 \in S => i \in S
    BY <1>3
  <2> HIDE DEF S
  <2>2. 0 .. Len(Sizes) \subseteq S
    BY <1>0, <1>2, <2>1, SetInduction
  <2> QED
    BY <2>2, <1>0
<1> DEFINE o == CHOOSE g : IsIt(g, Len(Sizes))
<1>5. IsIt(o, Len(Sizes))
  BY <1>4
<1>6. Offset = o
  BY DEF Offset
<1> HIDE DEF o
<1>7. \A i \in 1 .. Len(Sizes) + 1 :
        Offset[i] = IF i = 1 THEN 0 ELSE Offset[i - 1] + Units(i - 1)
  BY <1>5, <1>6
<1>8. Offset[1] = 0
  BY <1>0, <1>7
<1>9. \A b \in DOMAIN Sizes : Offset[b + 1] = Offset[b] + Units(b)
  BY <1>0, <1>7
<1> DEFINE N == {n \in 0 .. Len(Sizes) : Offset[n + 1] \in Nat}
<1>10. 0 \in N
  BY <1>0, <1>8
<1>11. ASSUME NEW n \in 1 .. Len(Sizes), n - 1 \in N PROVE n \in N
  <2>1. Offset[n] \in Nat /\ Offset[n + 1] = Offset[n] + Units(n) /\ Units(n) \in Nat
    BY <1>0, <1>1, <1>9, <1>11
  <2> QED
    BY <2>1
<1>12. \A n \in 1 .. Len(Sizes) : n - 1 \in N => n \in N
  BY <1>11
<1> HIDE DEF N
<1>13. 0 .. Len(Sizes) \subseteq N
  BY <1>0, <1>10, <1>12, SetInduction
<1>14. \A b \in 1 .. Len(Sizes) + 1 : Offset[b] \in Nat
  <2> TAKE b \in 1 .. Len(Sizes) + 1
  <2>1. b - 1 \in 0 .. Len(Sizes) /\ (b - 1) + 1 = b
    BY <1>0
  <2> QED
    BY <2>1, <1>13 DEF N
<1> QED
  BY <1>8, <1>9, <1>14

\* A batch begins after the ones before it.
LEMMA OffsetGrows ==
  ASSUME NEW b \in 1 .. Len(Sizes) + 1, NEW c \in 1 .. Len(Sizes) + 1, b < c
  PROVE  /\ b \in DOMAIN Sizes /\ Offset[b] \in Nat /\ Offset[c] \in Nat
         /\ Offset[b] + Units(b) <= Offset[c]
<1>0. Len(Sizes) \in Nat /\ DOMAIN Sizes = 1 .. Len(Sizes) /\ b \in DOMAIN Sizes
  BY TransmissionsAssumption
<1>1. Offset[b] \in Nat /\ Offset[c] \in Nat /\ Units(b) \in Nat
  BY <1>0, OffsetIs, BatchSizes
<1> DEFINE w == Offset[b] + Units(b)
           S == {n \in 0 .. (c - (b + 1)) : w <= Offset[b + 1 + n]}
<1>2. c - (b + 1) \in Nat /\ w \in Nat
  BY <1>0, <1>1
<1>3. 0 \in S
  <2>1. Offset[b + 1 + 0] = w
    BY <1>0, OffsetIs
  <2> HIDE DEF w
  <2> QED
    BY <2>1, <1>2
<1>4. ASSUME NEW n \in 1 .. (c - (b + 1)), n - 1 \in S PROVE n \in S
  <2>1. b + n \in DOMAIN Sizes /\ b + 1 + (n - 1) = b + n /\ b + 1 + n = (b + n) + 1
        /\ b + n \in 1 .. Len(Sizes) + 1
    BY <1>0, <1>2, SMTT(30)
  <2>2. Offset[(b + n) + 1] = Offset[b + n] + Units(b + n) /\ Units(b + n) \in Nat
        /\ Offset[b + n] \in Nat
    BY <2>1, OffsetIs, BatchSizes
  <2>3. w <= Offset[b + n]
    BY <1>4, <2>1
  <2> HIDE DEF w
  <2>4. w <= Offset[b + 1 + n]
    BY <1>2, <2>1, <2>2, <2>3
  <2>5. n \in 0 .. (c - (b + 1))
    BY <1>2
  <2> QED
    BY <2>4, <2>5
<1>5. \A n \in 1 .. (c - (b + 1)) : n - 1 \in S => n \in S
  BY <1>4
<1> HIDE DEF S
<1>6. c - (b + 1) \in S
  <2>1. 0 .. (c - (b + 1)) \subseteq S
    BY <1>2, <1>3, <1>5, SetInduction
  <2> QED
    BY <2>1, <1>2
<1>7. b + 1 + (c - (b + 1)) = c
  BY <1>0
<1> QED
  BY <1>0, <1>1, <1>6, <1>7 DEF S

-----------------------------------------------------------------------------
(* Places *)

\* Where a transmission begins and ends.
LEMMA PlaceIs ==
  ASSUME NEW b \in DOMAIN Sizes, NEW k \in 1 .. Parts(b)
  PROVE  LET n == Len(CreateTransmissions(b)[k])
         IN  /\ n \in Nat /\ Start(b, k) \in Nat /\ Offset[b] \in Nat
             /\ Start(b, k) = Offset[b] + Through(b, k - 1)
             /\ Start(b, k) + n = Offset[b] + Through(b, k)
             /\ Offset[b] <= Start(b, k) /\ Start(b, k) + n <= Offset[b] + Units(b)
<1> DEFINE n == Len(CreateTransmissions(b)[k])
<1>1. b \in 1 .. Len(Sizes) + 1 /\ Offset[b] \in Nat
  <2>1. b \in 1 .. Len(Sizes) + 1
    BY BatchSizes
  <2> QED
    BY <2>1, OffsetIs
<1>2. /\ k \in 0 .. Parts(b) /\ k - 1 \in 0 .. Parts(b) /\ Parts(b) \in 0 .. Parts(b)
      /\ k <= Parts(b) /\ Until(b, k) \in Nat /\ Until(b, k - 1) \in Nat
  BY UntilGrows, BatchSizes
<1>3. n = 2 + (Until(b, k) - Until(b, k - 1))
  BY TransmissionIs
<1>4. /\ Through(b, k - 1) \in Nat /\ Through(b, k) \in Nat
      /\ Through(b, k) = Through(b, k - 1) + 2 + (Until(b, k) - Until(b, k - 1))
      /\ Through(b, k - 1) + 2 < Through(b, k)
  BY ThroughGrows
<1>5. Through(b, k) <= Units(b) /\ Units(b) \in Nat
  BY <1>2, ThroughMonotone, ThroughAll, BatchSizes
<1>6. Start(b, k) = Offset[b] + Through(b, k - 1)
  BY DEF Start
<1> DEFINE x == Through(b, k - 1)
           u == Until(b, k - 1)
<1> HIDE DEF n, x, u
<1>7. /\ n \in Nat /\ Start(b, k) \in Nat
      /\ Start(b, k) + n = Offset[b] + Through(b, k)
      /\ Offset[b] <= Start(b, k) /\ Start(b, k) + n <= Offset[b] + Units(b)
  <2>1. Start(b, k) = Offset[b] + x /\ x \in Nat
    BY <1>4, <1>6 DEF x
  <2>2. n = 2 + (Until(b, k) - u) /\ Through(b, k) = x + n /\ u \in Nat /\ Until(b, k) \in Nat
    BY <1>2, <1>3, <1>4 DEF x, u
  <2>3. x + 2 < Through(b, k) /\ Through(b, k) \in Nat
    BY <1>4 DEF x
  <2>4. n \in Nat
    BY <2>1, <2>2, <2>3
  <2>5. Offset[b] \in Nat /\ Units(b) \in Nat /\ Through(b, k) <= Units(b)
    BY <1>1, <1>5
  <2>6. Start(b, k) \in Nat /\ Offset[b] <= Start(b, k)
    BY <2>1, <2>5
  <2>7. Start(b, k) + n = Offset[b] + Through(b, k)
    BY <2>1, <2>2, <2>4, <2>5
  <2>8. Start(b, k) + n <= Offset[b] + Units(b)
    BY <2>3, <2>5, <2>7
  <2> QED
    BY <2>4, <2>6, <2>7, <2>8
<1> QED
  BY <1>1, <1>6, <1>7 DEF n

\* Two units are not sent at one place.
LEMMA PlacesDiffer ==
  ASSUME NEW b \in DOMAIN Sizes, NEW k \in 1 .. Parts(b),
         NEW o \in 1 .. Len(CreateTransmissions(b)[k]),
         NEW c \in DOMAIN Sizes, NEW l \in 1 .. Parts(c),
         NEW p \in 1 .. Len(CreateTransmissions(c)[l]),
         b < c \/ (b = c /\ k < l)
  PROVE  Start(b, k) + o < Start(c, l) + p
<1> DEFINE n == Len(CreateTransmissions(b)[k])
<1>1. /\ n \in Nat /\ Start(b, k) \in Nat /\ Offset[b] \in Nat
      /\ Start(b, k) + n = Offset[b] + Through(b, k)
      /\ Start(b, k) + n <= Offset[b] + Units(b)
  BY PlaceIs
<1>2. /\ Len(CreateTransmissions(c)[l]) \in Nat /\ Start(c, l) \in Nat /\ Offset[c] \in Nat
      /\ Start(c, l) = Offset[c] + Through(c, l - 1)
      /\ Offset[c] <= Start(c, l)
  BY PlaceIs
<1>3. o \in Nat /\ o <= n /\ p \in Nat /\ p > 0
  BY <1>1, <1>2
<1>4. Units(b) \in Nat
  BY BatchSizes
<1> HIDE DEF n
<1>5. Start(b, k) + n <= Start(c, l)
  <2>1. CASE b < c
    <3>1. b \in 1 .. Len(Sizes) + 1 /\ c \in 1 .. Len(Sizes) + 1
      BY BatchSizes, SMTT(30)
    <3>2. Offset[b] + Units(b) <= Offset[c]
      BY <2>1, <3>1, OffsetGrows
    <3> QED
      BY <1>1, <1>2, <1>4, <3>2, SMTT(30)
  <2>2. CASE b = c /\ k < l
    <3>1. k \in 0 .. Parts(b) /\ l - 1 \in 0 .. Parts(b) /\ k <= l - 1
      BY <2>2, BatchSizes
    <3>2. Through(b, k) <= Through(b, l - 1) /\ Through(b, k) \in Nat /\ Through(b, l - 1) \in Nat
      BY <3>1, ThroughMonotone
    <3>3. Offset[c] = Offset[b] /\ Through(c, l - 1) = Through(b, l - 1)
      BY <2>2
    <3> QED
      BY <1>1, <1>2, <3>2, <3>3
  <2> QED
    BY <2>1, <2>2
<1> QED
  BY <1>1, <1>2, <1>3, <1>5

\* The place of a unit says which one it is.
LEMMA OnePlace ==
  ASSUME NEW b \in DOMAIN Sizes, NEW k \in 1 .. Parts(b),
         NEW o \in 1 .. Len(CreateTransmissions(b)[k]),
         NEW c \in DOMAIN Sizes, NEW l \in 1 .. Parts(c),
         NEW p \in 1 .. Len(CreateTransmissions(c)[l]),
         Start(b, k) + o = Start(c, l) + p
  PROVE  b = c /\ k = l /\ o = p
<1>1. /\ Len(CreateTransmissions(b)[k]) \in Nat /\ Start(b, k) \in Nat
      /\ Len(CreateTransmissions(c)[l]) \in Nat /\ Start(c, l) \in Nat
  BY PlaceIs
<1>2. b \in Nat /\ c \in Nat /\ k \in Nat /\ l \in Nat /\ o \in Nat /\ p \in Nat
  <2>1. b \in Nat /\ Parts(b) \in Nat
    BY BatchSizes
  <2>2. c \in Nat /\ Parts(c) \in Nat
    BY BatchSizes
  <2> QED
    BY <1>1, <2>1, <2>2
<1>3. ~ (b < c \/ (b = c /\ k < l))
  <2>1. ASSUME b < c \/ (b = c /\ k < l) PROVE FALSE
    <3>1. Start(b, k) + o < Start(c, l) + p
      BY <2>1, PlacesDiffer
    <3> QED
      BY <3>1, <1>1, <1>2
  <2> QED
    BY <2>1
<1>4. ~ (c < b \/ (c = b /\ l < k))
  <2>1. ASSUME c < b \/ (c = b /\ l < k) PROVE FALSE
    <3>1. Start(c, l) + p < Start(b, k) + o
      BY <2>1, PlacesDiffer
    <3> QED
      BY <3>1, <1>1, <1>2
  <2> QED
    BY <2>1
<1>5. b = c /\ k = l
  BY <1>2, <1>3, <1>4
<1> QED
  BY <1>1, <1>2, <1>5

\* Fewer units are held just as well.
LEMMA HoldsFewer ==
  ASSUME NEW s \in Seq(Unit), NEW t \in Seq(Unit), NEW f \in Nat, Holds(s, f),
         Len(t) <= Len(s), \A i \in 1 .. Len(t) : t[i] = s[i]
  PROVE  Holds(t, f)
<1>1. Len(s) \in Nat /\ Len(t) \in Nat
  BY LenProperties
<1>2. 1 .. Len(t) \subseteq 1 .. Len(s)
  BY <1>1
<1> QED
  BY <1>2 DEF Holds

\* The units that are left when some have been taken.
LEMMA HoldsRest ==
  ASSUME NEW s \in Seq(Unit), NEW t \in Seq(Unit), NEW f \in Nat, Holds(s, f),
         NEW n \in Nat, Len(s) = n + Len(t), \A i \in 1 .. Len(t) : t[i] = s[n + i]
  PROVE  Holds(t, f + n)
<1>1. Len(s) \in Nat /\ Len(t) \in Nat
  BY LenProperties
<1>2. SUFFICES ASSUME NEW b \in DOMAIN Sizes, NEW k \in 1 .. Parts(b),
                      NEW o \in 1 .. Len(CreateTransmissions(b)[k]),
                      NEW i \in 1 .. Len(t), f + n + i = Start(b, k) + o
               PROVE  t[i] = CreateTransmissions(b)[k][o]
  BY DEF Holds
<1>3. n + i \in 1 .. Len(s) /\ f + (n + i) = f + n + i
  BY <1>1
<1>4. f + (n + i) = Start(b, k) + o
  BY <1>2, <1>3
<1>5. s[n + i] = CreateTransmissions(b)[k][o]
  BY <1>3, <1>4 DEF Holds
<1> QED
  BY <1>5

\* What is sent next is added behind.
LEMMA HoldsMore ==
  ASSUME NEW s \in Seq(Unit), NEW t \in Seq(Unit), NEW f \in Nat, Holds(s, f),
         NEW b \in DOMAIN Sizes, NEW k \in 1 .. Parts(b),
         t = CreateTransmissions(b)[k], f + Len(s) = Start(b, k)
  PROVE  Holds(s \o t, f)
<1>1. Len(s) \in Nat /\ Len(t) \in Nat
  BY LenProperties
<1>2. /\ Len(s \o t) = Len(s) + Len(t)
      /\ \A i \in 1 .. Len(s) : (s \o t)[i] = s[i]
      /\ \A i \in 1 .. Len(t) : (s \o t)[Len(s) + i] = t[i]
  BY Joined
<1> DEFINE u == s \o t
<1>3. /\ Len(u) = Len(s) + Len(t)
      /\ \A i \in 1 .. Len(s) : u[i] = s[i]
      /\ \A i \in 1 .. Len(t) : u[Len(s) + i] = t[i]
  BY <1>2
<1> HIDE DEF u
<1>4. ASSUME NEW c \in DOMAIN Sizes, NEW l \in 1 .. Parts(c),
             NEW p \in 1 .. Len(CreateTransmissions(c)[l]),
             NEW i \in 1 .. Len(u), f + i = Start(c, l) + p
      PROVE  u[i] = CreateTransmissions(c)[l][p]
  <2>1. CASE i \in 1 .. Len(s)
    <3>1. s[i] = CreateTransmissions(c)[l][p]
      BY <2>1, <1>4 DEF Holds
    <3> QED
      BY <2>1, <3>1, <1>3
  <2>2. CASE i \notin 1 .. Len(s)
    <3> DEFINE o == i - Len(s)
    <3>1. o \in 1 .. Len(t) /\ i = Len(s) + o /\ f + i = f + Len(s) + o
      BY <1>1, <1>3, <2>2
    <3>2. Start(b, k) + o = Start(c, l) + p
      BY <3>1, <1>4
    <3> HIDE DEF o
    <3>3. o \in 1 .. Len(CreateTransmissions(b)[k])
      BY <3>1
    <3>4. b = c /\ k = l /\ o = p
      BY <3>2, <3>3, OnePlace
    <3>5. u[i] = t[o]
      BY <3>1, <1>3
    <3> QED
      BY <3>4, <3>5
  <2> QED
    BY <2>1, <2>2
<1>5. Holds(u, f)
  BY <1>4 DEF Holds
<1> QED
  BY <1>5 DEF u

-----------------------------------------------------------------------------
(* Decoding *)

\* What a decoding knows that has found the first k transmissions of a batch.
Found(b, k, is) ==
  [is |-> is, at |-> Through(b, k), found |-> SubSeq(Messages(b), 1, Until(b, k)),
   total |-> IF k = 0 THEN 0 ELSE Sizes[b]]

\* A decoding that finds no more.
LEMMA FoundLess ==
  ASSUME NEW b, NEW k
  PROVE  [Found(b, k, "incomplete") EXCEPT !.is = "too small"] = Found(b, k, "too small")
<1> DEFINE p == Through(b, k)
           m == SubSeq(Messages(b), 1, Until(b, k))
           t == IF k = 0 THEN 0 ELSE Sizes[b]
           d == Found(b, k, "incomplete")
           States(is) == [is : {is}, at : {p}, found : {m}, total : {t}]
<1>1. /\ d = [is |-> "incomplete", at |-> p, found |-> m, total |-> t]
      /\ Found(b, k, "too small") = [is |-> "too small", at |-> p, found |-> m, total |-> t]
  BY DEF Found
<1> HIDE DEF p, m, t, d
<1>2. d \in States("incomplete")
  BY <1>1
<1>3. [d EXCEPT !.is = "too small"] \in States("too small")
  BY <1>2
<1>4. [d EXCEPT !.is = "too small"] = [is |-> "too small", at |-> p, found |-> m, total |-> t]
  <2> DEFINE x == [d EXCEPT !.is = "too small"]
  <2>1. x \in States("too small")
    BY <1>3
  <2> HIDE DEF x
  <2>2. x = [is |-> "too small", at |-> p, found |-> m, total |-> t]
    BY <2>1
  <2> QED
    BY <2>2 DEF x
<1> QED
  BY <1>1, <1>4 DEF d

\* A unit of the batch that is next.
LEMMA UnitIs ==
  ASSUME NEW bytes \in Seq(Unit), NEW b \in DOMAIN Sizes, Holds(bytes, Offset[b]),
         NEW k \in 1 .. Parts(b), NEW o \in 1 .. Len(CreateTransmissions(b)[k]),
         Through(b, k - 1) + o <= Len(bytes)
  PROVE  bytes[Through(b, k - 1) + o] = CreateTransmissions(b)[k][o]
<1> DEFINE i == Through(b, k - 1) + o
<1>1. /\ Through(b, k - 1) \in Nat /\ Offset[b] \in Nat
      /\ Len(CreateTransmissions(b)[k]) \in Nat
      /\ Start(b, k) = Offset[b] + Through(b, k - 1)
  BY PlaceIs, ThroughGrows
<1>2. o \in Nat /\ o > 0 /\ Len(bytes) \in Nat
  BY <1>1, LenProperties
<1>3. i \in 1 .. Len(bytes) /\ Offset[b] + i = Start(b, k) + o
  BY <1>1, <1>2
<1> HIDE DEF i
<1>4. bytes[i] = CreateTransmissions(b)[k][o]
  BY <1>3 DEF Holds
<1> QED
  BY <1>4 DEF i

\* The messages of a transmission continue the batch.
LEMMA MessagesFollow ==
  ASSUME NEW bytes \in Seq(Unit), NEW b \in DOMAIN Sizes, Holds(bytes, Offset[b]),
         NEW k \in 1 .. Parts(b), Through(b, k) <= Len(bytes)
  PROVE  LET p == Through(b, k - 1)
             n == Until(b, k) - Until(b, k - 1)
         IN  SubSeq(Messages(b), 1, Until(b, k - 1)) \o SubSeq(bytes, p + 3, p + 2 + n)
               = SubSeq(Messages(b), 1, Until(b, k))
<1> DEFINE p == Through(b, k - 1)
           f == Until(b, k - 1)
           l == Until(b, k)
           n == l - f
           m == Messages(b)
<1>1. /\ p \in Nat /\ f \in Nat /\ l \in Nat /\ f < l /\ l <= Sizes[b] /\ Through(b, k) = p + 2 + n
      /\ n \in Nat /\ p + 2 + n <= Len(bytes)
  <2>1. /\ k \in 0 .. Parts(b) /\ f \in Nat /\ l \in Nat /\ f < l
    BY UntilGrows
  <2>2. p \in Nat /\ Through(b, k) = p + 2 + n
    BY ThroughGrows
  <2>3. l <= Sizes[b]
    BY <2>1, UntilIs
  <2>4. n \in Nat
    BY <2>1
  <2> HIDE DEF p, f, l, n
  <2> QED
    BY <2>1, <2>2, <2>3, <2>4
<1>2. Len(bytes) \in Nat
  BY LenProperties
<1>3. m \in Seq(Unit) /\ Len(m) = Sizes[b] /\ Sizes[b] \in Nat
  BY MessagesAre, BatchSizes
<1>4. ASSUME NEW i \in 1 .. n PROVE bytes[p + 2 + i] = m[f + i]
  <2> DEFINE t == CreateTransmissions(b)[k]
  <2>1. Len(t) = 2 + n /\ \A j \in 1 .. n : t[2 + j] = m[f + j]
    BY TransmissionIs
  <2> HIDE DEF p, f, l, n, m
  <2>2. 2 + i \in 1 .. Len(t) /\ p + (2 + i) <= Len(bytes) /\ p + (2 + i) = p + 2 + i
    <3>1. i \in Nat /\ 0 < i /\ i <= n /\ Len(t) = 2 + n
      BY <1>1, <2>1
    <3> HIDE DEF t
    <3> QED
      BY <1>1, <1>2, <3>1, SMTT(30)
  <2>3. bytes[p + (2 + i)] = t[2 + i]
    BY <2>2, UnitIs DEF p
  <2> HIDE DEF t
  <2> QED
    BY <2>1, <2>2, <2>3
<1> HIDE DEF p, f, l, n, m
<1>5. SubSeq(bytes, p + 3, p + 2 + n) = SubSeq(m, f + 1, l)
  <2> DEFINE x == SubSeq(bytes, p + 3, p + 2 + n)
             y == SubSeq(m, f + 1, l)
  <2>0. f + n = l
    BY <1>1 DEF n
  <2>1. /\ x \in Seq(Unit) /\ Len(x) = n
        /\ \A i \in 1 .. n : x[i] = bytes[p + 2 + i]
    <3>1. p + 3 \in Int /\ p + 2 + n \in Int /\ (p + 2 + n) - (p + 3) + 1 = n
          /\ (IF p + 3 <= p + 2 + n THEN n ELSE 0) = n
      BY <1>1
    <3>2. \A i \in p + 3 .. p + 2 + n : bytes[i] \in Unit
      BY <1>1, <1>2, ElementOfSeq
    <3>3. /\ x \in Seq(Unit)
          /\ Len(x) = IF p + 3 <= p + 2 + n THEN (p + 2 + n) - (p + 3) + 1 ELSE 0
          /\ \A i \in 1 .. (p + 2 + n) - (p + 3) + 1 : x[i] = bytes[p + 3 + i - 1]
      BY <3>1, <3>2, SubSeqProperties
    <3>4. \A i \in 1 .. n : p + 3 + i - 1 = p + 2 + i
      BY <1>1
    <3> HIDE DEF x
    <3> QED
      BY <3>1, <3>3, <3>4
  <2>2. /\ y \in Seq(Unit) /\ Len(y) = n
        /\ \A i \in 1 .. n : y[i] = m[f + i]
    <3>1. f + 1 \in Int /\ l \in Int /\ l - (f + 1) + 1 = n
          /\ (IF f + 1 <= l THEN n ELSE 0) = n
      BY <1>1, <2>0
    <3>2. \A i \in f + 1 .. l : m[i] \in Unit
      BY <1>1, <1>3, ElementOfSeq
    <3>3. /\ y \in Seq(Unit)
          /\ Len(y) = IF f + 1 <= l THEN l - (f + 1) + 1 ELSE 0
          /\ \A i \in 1 .. l - (f + 1) + 1 : y[i] = m[f + 1 + i - 1]
      BY <3>1, <3>2, SubSeqProperties
    <3>4. \A i \in 1 .. n : f + 1 + i - 1 = f + i
      BY <1>1
    <3> HIDE DEF y
    <3> QED
      BY <3>1, <3>3, <3>4
  <2> HIDE DEF x, y
  <2>3. x = y
    BY <1>4, <2>1, <2>2, SeqEqual
  <2> QED
    BY <2>3 DEF x, y
<1>6. SubSeq(m, 1, f) \o SubSeq(m, f + 1, l) = SubSeq(m, 1, l)
  <2>1. 1 \in 1 .. Len(m) + 1 /\ f \in (1 - 1) .. Len(m) /\ l \in f .. Len(m)
    BY <1>1, <1>3
  <2> QED
    BY <1>3, <2>1, ConcatAdjacentSubSeq
<1> QED
  BY <1>5, <1>6 DEF p, f, l, n, m

\* The next transmission of a batch is decoded when it is there.
LEMMA DecodesNext ==
  ASSUME NEW bytes \in Seq(Unit), NEW b \in DOMAIN Sizes, Holds(bytes, Offset[b]),
         NEW k \in 1 .. Parts(b), Through(b, k - 1) <= Len(bytes)
  PROVE  LET r == TryDecodeTransmission(bytes, Encrypted(b), Found(b, k - 1, "incomplete"))
         IN  \/ r = Found(b, k - 1, "too small")
             \/ /\ Through(b, k) <= Len(bytes)
                /\ r = Found(b, k, IF k < Parts(b) THEN "incomplete" ELSE "success")
<1> DEFINE d == Found(b, k - 1, "incomplete")
           p == Through(b, k - 1)
           n == Until(b, k) - Until(b, k - 1)
           t == CreateTransmissions(b)[k]
           encrypted == Encrypted(b)
           left == Len(bytes) - d.at
           header == bytes[d.at + 2]
           found == d.found \o SubSeq(bytes, d.at + 3, d.at + 2 + header.size)
           malformed == \/ left > 0 /\ bytes[d.at + 1].kind # "common"
                        \/ left > 1 /\ header.kind # "batch"
           short == left < 2 \/ left - 2 < header.size
           refused == \/ header.encrypted # encrypted
                      \/ d.total # 0 /\ header.total # d.total
           r == TryDecodeTransmission(bytes, encrypted, d)
<1>1. r = CASE malformed -> [d EXCEPT !.is = "bad"]
            [] ~malformed /\ short -> [d EXCEPT !.is = "too small"]
            [] ~malformed /\ ~short /\ refused -> [d EXCEPT !.is = "bad"]
            [] OTHER -> [is |-> IF Len(found) < header.total THEN "incomplete" ELSE "success",
                         at |-> d.at + 2 + header.size, found |-> found, total |-> header.total]
  BY DEF TryDecodeTransmission
<1>2. /\ d = [is |-> "incomplete", at |-> p, found |-> SubSeq(Messages(b), 1, Until(b, k - 1)),
              total |-> IF k - 1 = 0 THEN 0 ELSE Sizes[b]]
      /\ d.at = p /\ d.found = SubSeq(Messages(b), 1, Until(b, k - 1))
      /\ d.total \in {0, Sizes[b]}
  BY DEF Found
<1>3. [d EXCEPT !.is = "too small"] = Found(b, k - 1, "too small")
  BY FoundLess
<1>4. Len(bytes) \in Nat /\ p \in Nat /\ n \in Nat /\ Through(b, k) = p + 2 + n
      /\ k \in 0 .. Parts(b) /\ Parts(b) \in Nat
  <2>1. p \in Nat /\ Through(b, k) = p + 2 + n
    BY ThroughGrows
  <2>2. n \in Nat /\ k \in 0 .. Parts(b)
    BY UntilGrows
  <2> QED
    BY <2>1, <2>2, LenProperties, BatchSizes
<1>5. Len(t) = 2 + n /\ t[1] = Common /\ t[2] = BatchHeader(Sizes[b], n, Encrypted(b))
  BY TransmissionIs
<1>6. left > 0 => bytes[p + 1] = Common
  <2> SUFFICES ASSUME left > 0 PROVE bytes[p + 1] = t[1]
    BY <1>5
  <2>1. 1 \in 1 .. Len(t) /\ p + 1 <= Len(bytes)
    <3> HIDE DEF p, n, t, d
    <3> QED
      BY <1>2, <1>4, <1>5
  <2> QED
    BY <2>1, UnitIs
<1>7. left > 1 => header = BatchHeader(Sizes[b], n, Encrypted(b))
  <2> SUFFICES ASSUME left > 1 PROVE bytes[p + 2] = t[2]
    BY <1>2, <1>5
  <2>1. 2 \in 1 .. Len(t) /\ p + 2 <= Len(bytes)
    <3> HIDE DEF p, n, t, d
    <3> QED
      BY <1>2, <1>4, <1>5
  <2> QED
    BY <2>1, UnitIs
<1>8. ~malformed
  BY <1>2, <1>6, <1>7 DEF Common, BatchHeader
<1>9. CASE short
  <2>1. r = [d EXCEPT !.is = "too small"]
    <3> HIDE DEF r, malformed, short, refused, found, header, left, d
    <3> QED
      BY <1>1, <1>8, <1>9
  <2> QED
    BY <2>1, <1>3
<1>10. CASE ~short
  <2>1. left > 1
    <3> HIDE DEF p, n, t, d, header
    <3> QED
      BY <1>2, <1>4, <1>10
  <2>2. header.total = Sizes[b] /\ header.size = n /\ header.encrypted = encrypted
    BY <1>7, <2>1 DEF BatchHeader
  <2>3. ~refused
    <3> HIDE DEF d, header, encrypted
    <3> QED
      BY <2>2, <1>2
  <2>4. r = [is |-> IF Len(found) < header.total THEN "incomplete" ELSE "success",
             at |-> d.at + 2 + header.size, found |-> found, total |-> header.total]
    <3> HIDE DEF r, malformed, short, refused, found, header, left, d
    <3> QED
      BY <1>1, <1>8, <1>10, <2>3
  <2>5. Through(b, k) <= Len(bytes)
    <3> HIDE DEF p, n, t, d, header
    <3> QED
      BY <1>2, <1>4, <1>10, <2>2
  <2>6. found = SubSeq(Messages(b), 1, Until(b, k))
    <3>1. found = SubSeq(Messages(b), 1, Until(b, k - 1)) \o SubSeq(bytes, p + 3, p + 2 + n)
      BY <1>2, <2>2
    <3> QED
      BY <3>1, <2>5, MessagesFollow
  <2>7. Len(found) = Until(b, k) /\ Until(b, k) \in Nat
    <3>1. Until(b, k) \in Nat /\ Until(b, k) <= Sizes[b]
      BY <1>4, UntilIs
    <3>2. Messages(b) \in Seq(Unit) /\ Len(Messages(b)) = Sizes[b] /\ Sizes[b] \in Nat
      BY MessagesAre, BatchSizes
    <3>3. Len(SubSeq(Messages(b), 1, Until(b, k))) = Until(b, k)
      BY <3>1, <3>2
    <3> QED
      BY <3>1, <3>3, <2>6
  <2>8. (Until(b, k) < Sizes[b]) = (k < Parts(b))
    BY <1>4, UntilIs, BatchSizes, SMTT(30)
  <2>9. k # 0
    OBVIOUS
  <2>10. r = [is |-> IF k < Parts(b) THEN "incomplete" ELSE "success",
              at |-> Through(b, k), found |-> SubSeq(Messages(b), 1, Until(b, k)),
              total |-> Sizes[b]]
    <3>1. d.at + 2 + header.size = Through(b, k)
      <4> HIDE DEF d, header, p, n
      <4> QED
        BY <1>2, <1>4, <2>2
    <3>2. (Len(found) < header.total) = (k < Parts(b))
      <4> HIDE DEF found, header
      <4> QED
        BY <2>2, <2>7, <2>8
    <3> HIDE DEF r, found, header, d
    <3> QED
      BY <2>2, <2>4, <2>6, <3>1, <3>2
  <2>11. r = Found(b, k, IF k < Parts(b) THEN "incomplete" ELSE "success")
    <3> HIDE DEF r
    <3> QED
      BY <2>9, <2>10 DEF Found
  <2> QED
    BY <2>5, <2>11
<1> QED
  BY <1>9, <1>10

\* A decoding on its way through the transmissions of a batch.
Going(d, b, bytes) ==
  \E k \in 0 .. Parts(b) :
    /\ Through(b, k) <= Len(bytes)
    /\ \/ d = Found(b, k, "incomplete") /\ k < Parts(b)
       \/ d = Found(b, k, "too small")
       \/ d = Found(b, k, "success") /\ k = Parts(b)

\* What it comes to: the whole batch, or a wait for more.
Decided(d, b, bytes) ==
  \/ d = Found(b, Parts(b), "success") /\ Units(b) <= Len(bytes)
  \/ \E k \in 0 .. Parts(b) : d = Found(b, k, "too small")

\* How a decoding ended.
LEMMA FoundIs ==
  ASSUME NEW b, NEW k, NEW is
  PROVE  Found(b, k, is).is = is
BY DEF Found

\* A decoding begins with none of the transmissions.
LEMMA GoingStarts ==
  ASSUME NEW bytes \in Seq(Unit), NEW b \in DOMAIN Sizes
  PROVE  Decoding = Found(b, 0, "incomplete") /\ Going(Decoding, b, bytes)
<1>1. Parts(b) \in Nat /\ 0 < Parts(b) /\ 0 \in 0 .. Parts(b)
  BY BatchSizes
<1>2. Through(b, 0) = 0 /\ 0 <= Len(bytes)
  BY ThroughAll, LenProperties
<1>3. SubSeq(Messages(b), 1, Until(b, 0)) = <<>>
  <2>1. Until(b, 0) \in Nat /\ Until(b, 0) + 2 * 0 = 0
    BY <1>1, <1>2, UntilIs DEF Through
  <2>2. Until(b, 0) \in Int /\ 1 \in Int /\ Until(b, 0) < 1
    BY <2>1
  <2> QED
    BY <2>2, SubSeqEmpty
<1>4. Decoding = Found(b, 0, "incomplete")
  BY <1>2, <1>3 DEF Decoding, Found
<1> QED
  BY <1>1, <1>2, <1>4 DEF Going

\* A decoding that is not at its end goes on with the next transmission.
LEMMA GoesOn ==
  ASSUME NEW bytes \in Seq(Unit), NEW b \in DOMAIN Sizes, Holds(bytes, Offset[b]),
         NEW d, Going(d, b, bytes), d.is = "incomplete"
  PROVE  Going(TryDecodeTransmission(bytes, Encrypted(b), d), b, bytes)
<1>1. PICK k \in 0 .. Parts(b) :
        /\ Through(b, k) <= Len(bytes)
        /\ \/ d = Found(b, k, "incomplete") /\ k < Parts(b)
           \/ d = Found(b, k, "too small")
           \/ d = Found(b, k, "success") /\ k = Parts(b)
  BY DEF Going
<1>2. d = Found(b, k, "incomplete") /\ k < Parts(b)
  <2>1. Found(b, k, "too small").is = "too small" /\ Found(b, k, "success").is = "success"
    BY FoundIs
  <2> QED
    BY <1>1, <2>1
<1> DEFINE l == k + 1
           r == TryDecodeTransmission(bytes, Encrypted(b), d)
<1>3. l \in 1 .. Parts(b) /\ l \in 0 .. Parts(b) /\ l - 1 = k
  BY <1>2, BatchSizes
<1>4. \/ r = Found(b, k, "too small")
      \/ /\ Through(b, l) <= Len(bytes)
         /\ r = Found(b, l, IF l < Parts(b) THEN "incomplete" ELSE "success")
  <2> HIDE DEF l
  <2>1. Through(b, l - 1) <= Len(bytes)
    BY <1>1, <1>3
  <2>2. LET x == TryDecodeTransmission(bytes, Encrypted(b), Found(b, l - 1, "incomplete"))
        IN  \/ x = Found(b, l - 1, "too small")
            \/ /\ Through(b, l) <= Len(bytes)
               /\ x = Found(b, l, IF l < Parts(b) THEN "incomplete" ELSE "success")
    BY <2>1, <1>3, DecodesNext
  <2> QED
    BY <2>2, <1>2, <1>3
<1> HIDE DEF l, r
<1>5. Going(r, b, bytes)
  <2>1. CASE r = Found(b, k, "too small")
    BY <2>1, <1>1 DEF Going
  <2>2. CASE /\ Through(b, l) <= Len(bytes)
             /\ r = Found(b, l, IF l < Parts(b) THEN "incomplete" ELSE "success")
    <3>1. CASE l < Parts(b)
      BY <3>1, <2>2, <1>3 DEF Going
    <3>2. CASE ~ (l < Parts(b))
      <4>1. l = Parts(b)
        BY <3>2, <1>3, BatchSizes
      <4> QED
        BY <3>2, <4>1, <2>2, <1>3 DEF Going
    <3> QED
      BY <3>1, <3>2
  <2> QED
    BY <1>4, <2>1, <2>2
<1> QED
  BY <1>5 DEF r

\* Where a decoding comes to an end.
LEMMA GoingEnds ==
  ASSUME NEW bytes, NEW b \in DOMAIN Sizes, NEW d, Going(d, b, bytes)
  PROVE  /\ d.is # "incomplete" => Decided(d, b, bytes)
         /\ d.is = "incomplete" => Decided([d EXCEPT !.is = "too small"], b, bytes)
<1>1. PICK k \in 0 .. Parts(b) :
        /\ Through(b, k) <= Len(bytes)
        /\ \/ d = Found(b, k, "incomplete") /\ k < Parts(b)
           \/ d = Found(b, k, "too small")
           \/ d = Found(b, k, "success") /\ k = Parts(b)
  BY DEF Going
<1>2. CASE d = Found(b, k, "incomplete")
  <2>1. [d EXCEPT !.is = "too small"] = Found(b, k, "too small")
    BY <1>2, FoundLess
  <2>2. Decided([d EXCEPT !.is = "too small"], b, bytes)
    BY <2>1 DEF Decided
  <2>3. d.is = "incomplete"
    BY <1>2, FoundIs
  <2> QED
    BY <2>2, <2>3
<1>3. CASE d = Found(b, k, "too small")
  <2>1. d.is = "too small"
    BY <1>3, FoundIs
  <2>2. Decided(d, b, bytes)
    BY <1>3 DEF Decided
  <2> QED
    BY <2>1, <2>2
<1>4. CASE d = Found(b, k, "success") /\ k = Parts(b)
  <2>1. d.is = "success"
    BY <1>4, FoundIs
  <2>2. Units(b) <= Len(bytes)
    BY <1>1, <1>4, ThroughAll
  <2>3. Decided(d, b, bytes)
    BY <1>4, <2>2 DEF Decided
  <2> QED
    BY <2>1, <2>3
<1> QED
  BY <1>1, <1>2, <1>3, <1>4

\* A set of one has its element chosen.
LEMMA ChosenOfOne ==
  ASSUME NEW x
  PROVE  (CHOOSE r \in {x} : TRUE) = x
OBVIOUS

\* The frame thread finds the next batch, or waits for more of it.
LEMMA DecodesBatch ==
  ASSUME NEW bytes \in Seq(Unit), NEW b \in DOMAIN Sizes, Holds(bytes, Offset[b])
  PROVE  Decided(TryDecodeTransmissionsIntoFullBatch(bytes, Encrypted(b)), b, bytes)
<1> DEFINE encrypted == Encrypted(b)
           n == Len(bytes)
           IsAfter(g, m) ==
             g = [k \in 0 .. m |->
                    IF k = 0 THEN Decoding
                    ELSE CHOOSE r \in {IF d.is = "incomplete"
                                       THEN TryDecodeTransmission(bytes, encrypted, d)
                                       ELSE d : d \in {g[k - 1]}} : TRUE]
           S == {m \in 0 .. n : \E g : IsAfter(g, m)}
           Go(e) == CHOOSE r \in {IF d.is = "incomplete"
                                  THEN TryDecodeTransmission(bytes, encrypted, d)
                                  ELSE d : d \in {e}} : TRUE
<1>0. n \in Nat
  BY LenProperties
<1>1. \A e : Go(e) = IF e.is = "incomplete" THEN TryDecodeTransmission(bytes, encrypted, e) ELSE e
  <2> TAKE e
  <2>1. {IF d.is = "incomplete" THEN TryDecodeTransmission(bytes, encrypted, d) ELSE d : d \in {e}}
          = {IF e.is = "incomplete" THEN TryDecodeTransmission(bytes, encrypted, e) ELSE e}
    OBVIOUS
  <2> QED
    BY <2>1, ChosenOfOne
<1>2. \A g, m : IsAfter(g, m) <=> g = [k \in 0 .. m |-> IF k = 0 THEN Decoding ELSE Go(g[k - 1])]
  OBVIOUS
<1> HIDE DEF Go, IsAfter
<1>3. 0 \in S
  <2> DEFINE g == [k \in 0 .. 0 |-> Decoding]
  <2>1. g = [k \in 0 .. 0 |-> IF k = 0 THEN Decoding ELSE Go(g[k - 1])]
    OBVIOUS
  <2>2. IsAfter(g, 0)
    BY <2>1, <1>2
  <2>3. \E x : IsAfter(x, 0)
    BY <2>2
  <2> QED
    BY <2>3, <1>0
<1>4. ASSUME NEW m \in 1 .. n, m - 1 \in S PROVE m \in S
  <2>1. PICK f : IsAfter(f, m - 1)
    BY <1>4
  <2>2. f = [k \in 0 .. m - 1 |-> IF k = 0 THEN Decoding ELSE Go(f[k - 1])]
    BY <2>1, <1>2
  <2> DEFINE x == Go(f[m - 1])
             g == [k \in 0 .. m |-> IF k = m THEN x ELSE f[k]]
  <2>3. \A k \in 0 .. m - 1 : g[k] = f[k]
    OBVIOUS
  <2>4. \A k \in 0 .. m - 1 : f[k] = IF k = 0 THEN Decoding ELSE Go(f[k - 1])
    <3> HIDE DEF g
    <3> QED
      BY <2>2
  <2>5. g[m] = x
    OBVIOUS
  <2>6. g = [k \in 0 .. m |-> g[k]]
    OBVIOUS
  <2> HIDE DEF g
  <2>7. ASSUME NEW k \in 0 .. m
        PROVE  g[k] = IF k = 0 THEN Decoding ELSE Go(g[k - 1])
    <3>1. CASE k = m
      <4>1. k # 0 /\ m - 1 \in 0 .. m - 1
        BY <3>1
      <4>2. g[m - 1] = f[m - 1]
        BY <4>1, <2>3
      <4> QED
        BY <3>1, <4>1, <4>2, <2>5
    <3>2. CASE k # m
      <4>1. k \in 0 .. m - 1 /\ (k # 0 => k - 1 \in 0 .. m - 1)
        BY <3>2
      <4>2. g[k] = f[k] /\ (k # 0 => g[k - 1] = f[k - 1])
        BY <4>1, <2>3
      <4> QED
        BY <4>1, <4>2, <2>4
    <3> QED
      BY <3>1, <3>2
  <2>8. g = [k \in 0 .. m |-> IF k = 0 THEN Decoding ELSE Go(g[k - 1])]
    BY <2>6, <2>7
  <2>9. IsAfter(g, m)
    BY <2>8, <1>2
  <2> QED
    BY <2>9
<1>5. \E g : IsAfter(g, n)
  <2>1. \A m \in 1 .. n : m - 1 \in S => m \in S
    BY <1>4
  <2> HIDE DEF S
  <2>2. 0 .. n \subseteq S
    BY <1>0, <1>3, <2>1, SetInduction
  <2> QED
    BY <2>2, <1>0 DEF S
<1> DEFINE after == CHOOSE g : IsAfter(g, n)
<1>6. IsAfter(after, n)
  BY <1>5
<1>7. TryDecodeTransmissionsIntoFullBatch(bytes, encrypted) =
        CHOOSE r \in {IF d.is = "incomplete" THEN [d EXCEPT !.is = "too small"] ELSE d :
                        d \in {after[n]}} : TRUE
  BY DEF TryDecodeTransmissionsIntoFullBatch, IsAfter
<1> HIDE DEF after
<1>8. after = [k \in 0 .. n |-> IF k = 0 THEN Decoding ELSE Go(after[k - 1])]
  BY <1>6, <1>2
<1>9. after[0] = Decoding /\ \A k \in 1 .. n : after[k] = Go(after[k - 1])
  <2>1. \A k \in 0 .. n : after[k] = IF k = 0 THEN Decoding ELSE Go(after[k - 1])
    BY <1>8
  <2> QED
    BY <2>1, <1>0
<1> DEFINE G == {m \in 0 .. n : Going(after[m], b, bytes)}
<1>10. 0 \in G
  BY <1>0, <1>9, GoingStarts
<1>11. ASSUME NEW m \in 1 .. n, m - 1 \in G PROVE m \in G
  <2> DEFINE e == after[m - 1]
  <2>1. Going(e, b, bytes)
    BY <1>11
  <2>2. after[m] = IF e.is = "incomplete" THEN TryDecodeTransmission(bytes, encrypted, e) ELSE e
    BY <1>1, <1>9
  <2> HIDE DEF e
  <2>3. Going(after[m], b, bytes)
    <3>1. CASE e.is = "incomplete"
      <4>1. Going(TryDecodeTransmission(bytes, Encrypted(b), e), b, bytes)
        BY <2>1, <3>1, GoesOn
      <4> QED
        BY <2>2, <3>1, <4>1
    <3>2. CASE e.is # "incomplete"
      BY <2>1, <2>2, <3>2
    <3> QED
      BY <3>1, <3>2
  <2> QED
    BY <2>3
<1>12. Going(after[n], b, bytes)
  <2>1. \A m \in 1 .. n : m - 1 \in G => m \in G
    BY <1>11
  <2> HIDE DEF G
  <2>2. 0 .. n \subseteq G
    BY <1>0, <1>10, <2>1, SetInduction
  <2> QED
    BY <2>2, <1>0 DEF G
<1> DEFINE e == after[n]
<1> HIDE DEF e
<1>13. TryDecodeTransmissionsIntoFullBatch(bytes, encrypted) =
         IF e.is = "incomplete" THEN [e EXCEPT !.is = "too small"] ELSE e
  <2>1. {IF d.is = "incomplete" THEN [d EXCEPT !.is = "too small"] ELSE d : d \in {e}}
          = {IF e.is = "incomplete" THEN [e EXCEPT !.is = "too small"] ELSE e}
    OBVIOUS
  <2> QED
    BY <2>1, <1>7, ChosenOfOne DEF e
<1>14. Going(e, b, bytes)
  BY <1>12 DEF e
<1>15. CASE e.is = "incomplete"
  <2>1. Decided([e EXCEPT !.is = "too small"], b, bytes)
    BY <1>14, <1>15, GoingEnds
  <2> QED
    BY <1>13, <1>15, <2>1
<1>16. CASE e.is # "incomplete"
  <2>1. Decided(e, b, bytes)
    BY <1>14, <1>16, GoingEnds
  <2> QED
    BY <1>13, <1>16, <2>1
<1> QED
  BY <1>15, <1>16

\* The handshake thread finds the greeting, or waits for more of it.
LEMMA DecodesGreeting ==
  ASSUME NEW bytes \in Seq(Unit), Holds(bytes, Offset[1])
  PROVE  1 \in DOMAIN Sizes /\ Decided(TryDecodeGreeting(bytes), 1, bytes)
<1>1. 1 \in DOMAIN Sizes /\ Sizes[1] \in Nat \ {0} /\ Sizes[1] <= MaxPayload
      /\ MaxPayload \in Nat \ {0}
  BY TransmissionsAssumption
<1>2. Parts(1) = 1
  <2>1. Parts(1) \in Nat /\ Parts(1) > 0 /\ (Parts(1) - 1) * MaxPayload < Sizes[1]
    BY <1>1, BatchSizes
  <2>2. ASSUME Parts(1) # 1 PROVE FALSE
    <3>1. 1 <= Parts(1) - 1 /\ Parts(1) - 1 \in Nat /\ 1 \in Nat /\ MaxPayload \in Nat
      BY <2>1, <2>2, <1>1
    <3>2. 1 * MaxPayload <= (Parts(1) - 1) * MaxPayload /\ (Parts(1) - 1) * MaxPayload \in Nat
      BY <3>1, TimesGrows, TimesNat
    <3> QED
      BY <3>1, <3>2, <2>1, <1>1
  <2> QED
    BY <2>2
<1>3. Decoding = Found(1, 0, "incomplete") /\ Encrypted(1) = FALSE /\ Through(1, 0) = 0
  BY <1>1, GoingStarts, ThroughAll DEF Encrypted
<1> DEFINE d == TryDecodeTransmission(bytes, FALSE, Decoding)
<1>4. \/ d = Found(1, 0, "too small")
      \/ d = Found(1, 1, "success") /\ Units(1) <= Len(bytes)
  <2>1. 1 \in 1 .. Parts(1) /\ 1 - 1 = 0 /\ ~ (1 < Parts(1)) /\ Len(bytes) \in Nat
    BY <1>2, LenProperties
  <2>2. Through(1, 1 - 1) <= Len(bytes)
    BY <2>1, <1>3
  <2>3. LET x == TryDecodeTransmission(bytes, Encrypted(1), Found(1, 1 - 1, "incomplete"))
        IN  \/ x = Found(1, 1 - 1, "too small")
            \/ /\ Through(1, 1) <= Len(bytes)
               /\ x = Found(1, 1, IF 1 < Parts(1) THEN "incomplete" ELSE "success")
    BY <1>1, <2>1, <2>2, DecodesNext
  <2>4. Through(1, 1) = Units(1)
    BY <1>1, <1>2, ThroughAll
  <2> QED
    BY <2>1, <2>3, <2>4, <1>3
<1> HIDE DEF d
<1>5. TryDecodeGreeting(bytes) =
        IF d.is = "success" /\ d.found # Messages(1) THEN [d EXCEPT !.is = "bad"] ELSE d
  BY DEF TryDecodeGreeting, d
<1>6. CASE d = Found(1, 0, "too small")
  <2>1. d.is = "too small"
    BY <1>6, FoundIs
  <2>2. ~ (d.is = "success")
    BY <2>1
  <2>3. TryDecodeGreeting(bytes) = d
    BY <2>2, <1>5
  <2>4. 0 \in 0 .. Parts(1)
    BY <1>2
  <2> QED
    BY <2>3, <2>4, <1>1, <1>6 DEF Decided
<1>7. CASE d = Found(1, 1, "success") /\ Units(1) <= Len(bytes)
  <2>1. d.found = Messages(1)
    <3>1. Until(1, 1) = Sizes[1] /\ Messages(1) \in Seq(Unit) /\ Len(Messages(1)) = Sizes[1]
      BY <1>1, <1>2, UntilIs, MessagesAre
    <3>2. d.found = SubSeq(Messages(1), 1, Until(1, 1))
      BY <1>7 DEF Found
    <3> QED
      BY <3>1, <3>2, SubSeqFull
  <2>2. TryDecodeGreeting(bytes) = d
    BY <2>1, <1>5
  <2> QED
    BY <2>2, <1>1, <1>2, <1>7 DEF Decided
<1> QED
  BY <1>4, <1>6, <1>7

-----------------------------------------------------------------------------
(* Sender *)

\* What the sender has still to store of a batch.
LEMMA SenderIs ==
  ASSUME RInv, Unsent
  PROVE  /\ SentWhole \in 0 .. Len(Sizes) /\ Len(Sizes) \in Nat /\ DOMAIN Sizes = 1 .. Len(Sizes)
         /\ unstored = <<>> => next = SentWhole + 1 /\ Stored = Offset[SentWhole + 1]
         /\ unstored # <<>> =>
              LET b == SentWhole + 1
                  k == Parts(b) - Len(unstored) + 1
              IN  /\ next = b + 1 /\ b \in DOMAIN Sizes /\ k \in 1 .. Parts(b)
                  /\ Stored = Start(b, k) /\ Head(unstored) = CreateTransmissions(b)[k]
                  /\ Len(unstored) \in Nat \ {0}
<1>1. /\ Len(Sizes) \in Nat /\ DOMAIN Sizes = 1 .. Len(Sizes)
      /\ next \in 1 .. Len(Sizes) + 1
  BY TransmissionsAssumption DEF RInv, TypeOK
<1>2. CASE unstored = <<>>
  <2>1. SentWhole = next - 1 /\ Stored = Offset[next]
    BY <1>2 DEF SentWhole, Stored
  <2>2. SentWhole + 1 = next /\ SentWhole \in 0 .. Len(Sizes)
    BY <1>1, <2>1
  <2> QED
    BY <1>1, <1>2, <2>1, <2>2
<1>3. CASE unstored # <<>>
  <2> DEFINE b == SentWhole + 1
             k == Parts(b) - Len(unstored) + 1
  <2>1. SentWhole = next - 2 /\ next > 1
        /\ Stored = Start(next - 1, Parts(next - 1) - Len(unstored) + 1)
    BY <1>3 DEF SentWhole, Stored, Unsent
  <2>2. b = next - 1 /\ SentWhole \in 0 .. Len(Sizes) /\ next = b + 1 /\ b \in DOMAIN Sizes
    BY <1>1, <2>1
  <2>3. Parts(b) \in Nat /\ Len(unstored) \in Nat \ {0}
    <3>1. unstored \in Seq(Seq(Unit))
      BY DEF Unsent
    <3> HIDE DEF b
    <3> QED
      BY <2>2, <3>1, <1>3, BatchSizes, EmptySeq
  <2>4. Len(unstored) <= Parts(b)
    BY <1>3, <2>2 DEF Unsent
  <2>5. unstored[1] = CreateTransmissions(b)[Parts(b) - Len(unstored) + 1]
    <3>1. 1 \in 1 .. Len(unstored)
      BY <2>3
    <3> QED
      BY <1>3, <2>2, <3>1 DEF Unsent
  <2>6. Head(unstored) = unstored[1]
    BY <1>3 DEF Unsent
  <2>7. k \in 1 .. Parts(b)
    <3> HIDE DEF b
    <3> QED
      BY <2>3, <2>4
  <2>8. Stored = Start(b, k)
    BY <2>1, <2>2
  <2> HIDE DEF b
  <2> QED
    BY <1>1, <1>3, <2>2, <2>3, <2>5, <2>6, <2>7, <2>8 DEF b
<1> QED
  BY <1>2, <1>3

\* What the sender has stored ends within the batch it is storing.
LEMMA StoredIs ==
  ASSUME RInv, Unsent
  PROVE  /\ SentWhole + 1 \in 1 .. Len(Sizes) + 1 /\ SentWhole \in Nat
         /\ Offset[SentWhole + 1] \in Nat /\ Stored \in Nat
         /\ Offset[SentWhole + 1] <= Stored
         /\ SentWhole + 1 \notin DOMAIN Sizes => Stored = Offset[SentWhole + 1]
         /\ SentWhole + 1 \in DOMAIN Sizes =>
              Stored < Offset[SentWhole + 1] + Units(SentWhole + 1)
<1>1. SentWhole \in 0 .. Len(Sizes) /\ Len(Sizes) \in Nat
  BY SenderIs
<1> DEFINE b == SentWhole + 1
<1>2. b \in 1 .. Len(Sizes) + 1 /\ SentWhole \in Nat
  BY <1>1
<1>3. Offset[b] \in Nat
  BY <1>2, OffsetIs
<1>4. CASE unstored = <<>>
  <2>1. Stored = Offset[b]
    BY <1>4, SenderIs
  <2>2. b \in DOMAIN Sizes => Units(b) \in Nat /\ Units(b) > 0
    BY BatchSizes
  <2> HIDE DEF b
  <2>3. Stored \in Nat /\ Offset[b] <= Stored /\ (b \in DOMAIN Sizes => Stored < Offset[b] + Units(b))
    BY <1>3, <2>1, <2>2
  <2> QED
    BY <1>2, <1>3, <2>1, <2>3 DEF b
<1>5. CASE unstored # <<>>
  <2> DEFINE k == Parts(b) - Len(unstored) + 1
             n == Len(CreateTransmissions(b)[k])
  <2>1. b \in DOMAIN Sizes /\ k \in 1 .. Parts(b) /\ Stored = Start(b, k)
    BY <1>5, SenderIs
  <2> HIDE DEF k
  <2>2. /\ n \in Nat /\ Start(b, k) \in Nat
        /\ Offset[b] <= Start(b, k) /\ Start(b, k) + n <= Offset[b] + Units(b)
    BY <2>1, PlaceIs
  <2>3. n > 0
    <3>1. /\ Until(b, k) - Until(b, k - 1) \in Nat
          /\ n = 2 + (Until(b, k) - Until(b, k - 1))
      BY <2>1, TransmissionIs
    <3> QED
      BY <3>1
  <2>4. Units(b) \in Nat
    BY <2>1, BatchSizes
  <2> HIDE DEF b, n
  <2>5. Stored \in Nat /\ Offset[b] <= Stored /\ Stored < Offset[b] + Units(b)
    BY <1>3, <2>1, <2>2, <2>3, <2>4
  <2> QED
    BY <1>2, <1>3, <2>1, <2>5 DEF b
<1> QED
  BY <1>4, <1>5

\* A batch of which all units are stored has been sent whole.
LEMMA WholeIsSent ==
  ASSUME RInv, Unsent, NEW b \in DOMAIN Sizes, Offset[b] + Units(b) <= Stored
  PROVE  b <= SentWhole
<1> DEFINE c == SentWhole + 1
<1>1. /\ c \in 1 .. Len(Sizes) + 1 /\ SentWhole \in Nat /\ Len(Sizes) \in Nat
      /\ Offset[c] \in Nat /\ Stored \in Nat
      /\ c \notin DOMAIN Sizes => Stored = Offset[c]
      /\ c \in DOMAIN Sizes => Stored < Offset[c] + Units(c)
  BY StoredIs, TransmissionsAssumption
<1>2. b \in Nat /\ b \in 1 .. Len(Sizes) + 1 /\ Offset[b] \in Nat /\ Units(b) \in Nat
      /\ DOMAIN Sizes = 1 .. Len(Sizes)
  <2>1. Len(Sizes) \in Nat /\ b \in 1 .. Len(Sizes) /\ Units(b) \in Nat
    BY BatchSizes
  <2>2. b \in 1 .. Len(Sizes) + 1 /\ b \in Nat
    BY <2>1
  <2> QED
    BY <2>1, <2>2, OffsetIs, TransmissionsAssumption
<1> SUFFICES ASSUME c <= b PROVE FALSE
  BY <1>1, <1>2
<1>3. c \in DOMAIN Sizes /\ Units(c) \in Nat
  <2>1. c \in DOMAIN Sizes
    <3>1. b \in 1 .. Len(Sizes)
      BY <1>2
    <3> HIDE DEF c
    <3> QED
      BY <1>1, <1>2, <3>1
  <2> QED
    BY <2>1, BatchSizes
<1>4. Offset[c] + Units(c) <= Offset[b] + Units(b)
  <2>1. CASE c = b
    <3> HIDE DEF c
    <3> QED
      BY <2>1, <1>1, <1>2, <1>3
  <2>2. CASE c < b
    <3>1. Offset[c] + Units(c) <= Offset[b]
      BY <2>2, <1>1, <1>2, OffsetGrows
    <3> HIDE DEF c
    <3> QED
      BY <3>1, <1>1, <1>2, <1>3
  <2> HIDE DEF c
  <2> QED
    BY <2>1, <2>2, <1>1, <1>2
<1> HIDE DEF c
<1> QED
  BY <1>1, <1>2, <1>3, <1>4, SMTT(30)

-----------------------------------------------------------------------------
(* Steps *)

\* Three sequences one after another.
LEMMA JoinedTwice ==
  ASSUME NEW s \in Seq(Unit), NEW t \in Seq(Unit), NEW u \in Seq(Unit)
  PROVE  (s \o t) \o u = s \o (t \o u)
BY ConcatAssociative

\* What a step can be for the channel: nothing, a batch sent, a batch received.
Quiet == SentWhole' = SentWhole /\ batches' = batches

OneSent ==
  SentWhole' = SentWhole + 1 /\ SentWhole + 1 \in DOMAIN Sizes /\ batches' = batches

OneReceived ==
  /\ SentWhole' = SentWhole
  /\ Len(batches) + 1 \in DOMAIN Sizes /\ Len(batches) < SentWhole
  /\ batches' = Append(batches, Messages(Len(batches) + 1))

\* The invariant without the reader's part.
Rest == Unsent /\ Received /\ Coming

\* The initial states.
LEMMA ChannelStart == Init => SInv
<1> SUFFICES ASSUME Init PROVE SInv
  OBVIOUS
<1>1. Len(Sizes) \in Nat /\ 1 \in 1 .. Len(Sizes) + 1 /\ Offset[1] = 0
  BY TransmissionsAssumption, OffsetIs
<1>2. Unsent
  BY DEF Init, Unsent
<1>3. SentWhole = 0 /\ Stored = 0
  BY <1>1 DEF Init, SentWhole, Stored
<1>4. Received
  <2>1. batches = <<>> /\ greeted = FALSE
    BY DEF Init
  <2>2. batches \in Seq(Seq(Unit)) /\ Len(batches) = 0
    BY <2>1
  <2>3. greeted = (batches # <<>>)
    BY <2>1
  <2>4. \A b \in 1 .. Len(batches) : batches[b] = Messages(b)
    BY <2>2
  <2> QED
    BY <1>3, <2>2, <2>3, <2>4 DEF Received
<1>5. Done = 0
  BY <1>1 DEF Init, Done
<1>6. Held = <<>>
  <2>1. Held = (<<>> \o <<>>) \o <<>>
    BY DEF Init, Held
  <2>2. <<>> \in Seq(Unit)
    OBVIOUS
  <2> QED
    BY <2>1, <2>2, ConcatEmptySeq
<1>7. Holds(<<>>, 0)
  BY DEF Holds
<1>8. Coming
  BY <1>3, <1>5, <1>6, <1>7 DEF Init, Coming
<1> QED
  BY <1>2, <1>4, <1>8, ReaderStart DEF SInv, Init

\* What is held is a sequence of units.
LEMMA HeldIs ==
  ASSUME Coming
  PROVE  /\ working \o prefetched \in Seq(Unit) /\ Held \in Seq(Unit)
         /\ Len(working \o prefetched) <= Len(Held) /\ Len(Held) \in Nat
         /\ Len(Held) = Len(working \o prefetched) + Len(network)
         /\ \A i \in 1 .. Len(working \o prefetched) : Held[i] = (working \o prefetched)[i]
<1>1. working \in Seq(Unit) /\ prefetched \in Seq(Unit) /\ network \in Seq(Unit)
  BY DEF Coming
<1> DEFINE w == working \o prefetched
<1>2. w \in Seq(Unit)
  BY <1>1, Joined
<1> HIDE DEF w
<1>3. /\ w \o network \in Seq(Unit) /\ Len(w \o network) = Len(w) + Len(network)
      /\ Len(w) \in Nat /\ Len(network) \in Nat
      /\ \A i \in 1 .. Len(w) : (w \o network)[i] = w[i]
  BY <1>1, <1>2, Joined
<1>4. Held = w \o network
  BY DEF Held, w
<1> DEFINE h == w \o network
<1> HIDE DEF h
<1>5. /\ h \in Seq(Unit) /\ Len(h) = Len(w) + Len(network)
      /\ Len(w) \in Nat /\ Len(network) \in Nat
      /\ \A i \in 1 .. Len(w) : h[i] = w[i]
  BY <1>3 DEF h
<1>6. Len(w) <= Len(h) /\ Len(h) \in Nat
  BY <1>5
<1> QED
  BY <1>2, <1>4, <1>5, <1>6 DEF w, h

\* Nothing happens to what is held.
LEMMA HeldKept ==
  ASSUME Rest, UNCHANGED <<next, unstored, batches, greeted>>, Held' = Held,
         working' \in Seq(Unit), prefetched' \in Seq(Unit), network' \in Seq(Unit),
         socket' = "valid" => socket = "valid"
  PROVE  Rest' /\ Quiet
<1>1. SentWhole' = SentWhole /\ Stored' = Stored /\ Done' = Done
  BY DEF SentWhole, Stored, Done
<1>2. Unsent'
  BY DEF Rest, Unsent
<1>3. Received'
  BY <1>1 DEF Rest, Received
<1>4. Coming'
  <2>1. Coming
    BY DEF Rest
  <2>2. Done' + Len(Held') <= Stored' /\ (socket' = "valid" => Done' + Len(Held') = Stored')
    BY <1>1, <2>1 DEF Coming
  <2>3. Holds(Held', Done')
    BY <1>1, <2>1 DEF Coming
  <2> QED
    BY <2>2, <2>3 DEF Coming
<1> QED
  BY <1>1, <1>2, <1>3, <1>4 DEF Rest, Quiet

\* A batch to send changes nothing for the receiver.
LEMMA SendBatchKeeps ==
  ASSUME RInv, Rest, SendBatch
  PROVE  Rest' /\ Quiet
<1>1. /\ next <= Len(Sizes) /\ unstored = <<>>
      /\ unstored' = CreateTransmissions(next) /\ next' = next + 1
      /\ UNCHANGED <<batches, greeted, socket, working, prefetched, network>>
  BY DEF SendBatch, buffers
<1>2. /\ Len(Sizes) \in Nat /\ next \in DOMAIN Sizes /\ next' - 1 = next /\ next' > 1
      /\ next \in Nat /\ next' - 2 = next - 1
  <2>1. Len(Sizes) \in Nat /\ next \in 1 .. Len(Sizes) + 1 /\ DOMAIN Sizes = 1 .. Len(Sizes)
    BY TransmissionsAssumption DEF RInv, TypeOK
  <2> QED
    BY <1>1, <2>1
<1>3. /\ unstored' \in Seq(Seq(Unit)) /\ Len(unstored') = Parts(next) /\ unstored' # <<>>
      /\ Parts(next) \in Nat
  BY <1>1, <1>2, TransmissionsAre, BatchSizes
<1>4. Parts(next) - Len(unstored') = 0
  BY <1>3
<1>5. Unsent'
  <2>1. \A j \in 1 .. Len(unstored') :
          unstored'[j] = CreateTransmissions(next' - 1)[Parts(next' - 1) - Len(unstored') + j]
    <3> TAKE j \in 1 .. Len(unstored')
    <3>1. Parts(next) - Len(unstored') + j = j
      BY <1>3, <1>4
    <3> QED
      BY <1>1, <1>2, <3>1
  <2>2. Len(unstored') <= Parts(next' - 1)
    BY <1>2, <1>3
  <2> QED
    BY <1>2, <1>3, <2>1, <2>2 DEF Unsent
<1>6. SentWhole' = SentWhole
  BY <1>1, <1>2, <1>3 DEF SentWhole
<1>7. Stored' = Stored
  <2>1. Stored' = Start(next, Parts(next) - Len(unstored') + 1)
    BY <1>2, <1>3 DEF Stored
  <2>2. Parts(next) - Len(unstored') + 1 = 1 /\ 1 - 1 = 0
    BY <1>4
  <2>3. Stored' = Start(next, 1)
    BY <2>1, <2>2
  <2>4. Offset[next] \in Nat
    <3>1. next \in 1 .. Len(Sizes) + 1
      BY DEF RInv, TypeOK
    <3> QED
      BY <3>1, OffsetIs
  <2>5. Start(next, 1) = Offset[next] + 0
    BY <1>2, <2>2, ThroughAll DEF Start
  <2>6. Stored = Offset[next]
    BY <1>1 DEF Stored
  <2> QED
    BY <2>3, <2>4, <2>5, <2>6
<1>8. Done' = Done /\ Held' = Held
  BY <1>1 DEF Done, Held
<1>9. Received'
  BY <1>1, <1>6 DEF Rest, Received
<1>10. Coming'
  <2>1. Coming
    BY DEF Rest
  <2>2. Done' + Len(Held') <= Stored' /\ (socket' = "valid" => Done' + Len(Held') = Stored')
    BY <1>1, <1>7, <1>8, <2>1 DEF Coming
  <2>3. Holds(Held', Done')
    BY <1>8, <2>1 DEF Coming
  <2> QED
    BY <1>1, <2>1, <2>2, <2>3 DEF Coming
<1> QED
  BY <1>1, <1>5, <1>6, <1>9, <1>10 DEF Rest, Quiet

\* A transmission goes behind all that is held; with its last one the batch is sent.
LEMMA StoreKeeps ==
  ASSUME RInv, Rest, StoreNextBuffer
  PROVE  Rest' /\ (Quiet \/ OneSent)
<1> DEFINE b == SentWhole + 1
           k == Parts(b) - Len(unstored) + 1
           t == Head(unstored)
<1>1. /\ unstored # <<>> /\ unstored' = Tail(unstored)
      /\ network' = IF socket = "valid" THEN network \o t ELSE network
      /\ UNCHANGED <<next, batches, greeted, socket, working, prefetched>>
  BY DEF StoreNextBuffer
<1>2. /\ next = b + 1 /\ b \in DOMAIN Sizes /\ k \in 1 .. Parts(b)
      /\ Stored = Start(b, k) /\ t = CreateTransmissions(b)[k]
      /\ Len(unstored) \in Nat \ {0} /\ SentWhole \in 0 .. Len(Sizes)
  BY <1>1, SenderIs DEF Rest
<1>3. /\ unstored \in Seq(Seq(Unit))
      /\ Len(unstored) <= Parts(b)
      /\ \A j \in 1 .. Len(unstored) :
           unstored[j] = CreateTransmissions(b)[Parts(b) - Len(unstored) + j]
  <2>1. next - 1 = b
    BY <1>2
  <2> HIDE DEF b
  <2> QED
    BY <1>1, <2>1 DEF Rest, Unsent
<1>4. /\ unstored' \in Seq(Seq(Unit)) /\ Len(unstored') = Len(unstored) - 1
      /\ \A j \in 1 .. Len(unstored') : unstored'[j] = unstored[j + 1]
  BY <1>1, <1>3, HeadTailProperties
<1>5. /\ Parts(b) \in Nat /\ Offset[b] \in Nat /\ b \in Nat
      /\ Len(t) \in Nat /\ Start(b, k) \in Nat /\ t \in Seq(Unit)
      /\ Start(b, k) + Len(t) = Offset[b] + Through(b, k)
  <2> HIDE DEF b, k, t
  <2>1. Parts(b) \in Nat /\ b \in 1 .. Len(Sizes)
    BY <1>2, BatchSizes
  <2>2. LET n == Len(CreateTransmissions(b)[k])
        IN  /\ n \in Nat /\ Start(b, k) \in Nat /\ Offset[b] \in Nat
            /\ Start(b, k) + n = Offset[b] + Through(b, k)
    BY <1>2, PlaceIs
  <2>3. CreateTransmissions(b)[k] \in Seq(Unit)
    BY <1>2, TransmissionIs
  <2> QED
    BY <1>2, <2>1, <2>2, <2>3
<1>6. (unstored' = <<>>) = (k = Parts(b))
  <2>1. unstored' = <<>> <=> Len(unstored') = 0
    BY <1>4, EmptySeq
  <2>2. Len(unstored') = 0 <=> k = Parts(b)
    <3> DEFINE m == Len(unstored)
               n == Len(unstored')
               p == Parts(b)
    <3>1. n = m - 1 /\ m \in Nat /\ p \in Nat /\ k = p - m + 1
      BY <1>2, <1>4, <1>5
    <3> HIDE DEF b, k, m, n, p
    <3>2. n = 0 <=> k = p
      BY <3>1
    <3> QED
      BY <3>2 DEF n, p
  <2> HIDE DEF b, k
  <2> QED
    BY <2>1, <2>2
<1>7. Unsent'
  <2> SUFFICES ASSUME unstored' # <<>>
               PROVE  /\ next' > 1 /\ Len(unstored') <= Parts(next' - 1)
                      /\ \A j \in 1 .. Len(unstored') :
                           unstored'[j] =
                             CreateTransmissions(next' - 1)[Parts(next' - 1) - Len(unstored') + j]
    BY <1>4 DEF Unsent
  <2>1. next' - 1 = b /\ next' > 1
    <3> HIDE DEF b
    <3>1. b \in 1 .. Len(Sizes) /\ Len(Sizes) \in Nat
      BY <1>2, BatchSizes
    <3>2. next' = b + 1 /\ b \in Nat /\ b > 0
      BY <1>1, <1>2, <3>1
    <3> QED
      BY <3>2
  <2> HIDE DEF b
  <2>2. Len(unstored') <= Parts(b)
    BY <1>2, <1>3, <1>4, <1>5
  <2>3. ASSUME NEW j \in 1 .. Len(unstored')
        PROVE  unstored'[j] = CreateTransmissions(b)[Parts(b) - Len(unstored') + j]
    <3>1. j + 1 \in 1 .. Len(unstored)
          /\ Parts(b) - Len(unstored) + (j + 1) = Parts(b) - Len(unstored') + j
      BY <1>2, <1>4, <1>5
    <3>2. unstored[j + 1] = CreateTransmissions(b)[Parts(b) - Len(unstored) + (j + 1)]
      BY <1>3, <3>1
    <3> QED
      BY <1>4, <3>1, <3>2
  <2> QED
    BY <2>1, <2>2, <2>3
<1>8. SentWhole' = IF unstored' = <<>> THEN SentWhole + 1 ELSE SentWhole
  <2>1. next - 1 = SentWhole + 1 /\ next - 2 = SentWhole
    BY <1>2
  <2> QED
    BY <1>1, <2>1 DEF SentWhole
<1>9. Stored' = Stored + Len(t) /\ Stored \in Nat
  <2>1. CASE unstored' = <<>>
    <3>1. Stored' = Offset[b + 1]
      BY <2>1, <1>1, <1>2 DEF Stored
    <3>2. Offset[b + 1] = Offset[b] + Units(b) /\ Through(b, k) = Units(b)
      <4> HIDE DEF b, k
      <4>1. k = Parts(b)
        BY <2>1, <1>6
      <4> QED
        BY <4>1, <1>2, OffsetIs, ThroughAll
    <3> HIDE DEF b, k, t
    <3> QED
      BY <3>1, <3>2, <1>2, <1>5
  <2>2. CASE unstored' # <<>>
    <3> DEFINE l == Parts(b) - Len(unstored') + 1
    <3>1. next' - 1 = b
      BY <1>1, <1>2
    <3>2. Stored' = Start(b, l)
      <4> HIDE DEF b
      <4> QED
        BY <2>2, <3>1 DEF Stored
    <3>3. l = k + 1 /\ l - 1 = k
      <4> HIDE DEF b
      <4> QED
        BY <1>2, <1>4, <1>5, SMTT(30)
    <3>4. Start(b, l) = Offset[b] + Through(b, k)
      <4> HIDE DEF b, k, l
      <4> QED
        BY <3>3 DEF Start
    <3> HIDE DEF b, k, l, t
    <3> QED
      BY <3>2, <3>4, <1>2, <1>5
  <2> QED
    BY <2>1, <2>2
<1>10. Received'
  <2>1. Received /\ SentWhole <= SentWhole'
    BY <1>2, <1>8 DEF Rest
  <2>2. Len(batches) \in Nat /\ SentWhole \in Nat /\ SentWhole' \in Nat
    BY <1>2, <1>8, <2>1, LenProperties DEF Received
  <2>3. Len(batches) <= SentWhole'
    BY <2>1, <2>2 DEF Received
  <2> QED
    BY <1>1, <2>1, <2>3 DEF Received
<1>11. Coming'
  <2> HIDE DEF b, k, t
  <2>1. Coming
    BY DEF Rest
  <2>2. Done' = Done
    BY <1>1 DEF Done
  <2>3. Held \in Seq(Unit) /\ Len(Held) \in Nat /\ Done \in Nat
    <3>1. Len(batches) + 1 \in 1 .. Len(Sizes) + 1
      <4>1. Len(batches) \in Nat /\ Len(batches) <= SentWhole /\ Len(Sizes) \in Nat
        BY LenProperties, TransmissionsAssumption DEF Rest, Received
      <4> QED
        BY <4>1, <1>2
    <3> QED
      BY <2>1, <3>1, HeldIs, OffsetIs DEF Done
  <2>4. CASE socket = "valid"
    <3>1. /\ working \o prefetched \in Seq(Unit) /\ network \in Seq(Unit)
          /\ working \in Seq(Unit) /\ prefetched \in Seq(Unit)
      BY <2>1, HeldIs DEF Coming
    <3>2. network' = network \o t
      BY <1>1, <2>4
    <3>3. Held' = Held \o t
      <4>1. Held' = (working \o prefetched) \o (network \o t)
        BY <1>1, <3>2 DEF Held
      <4>2. (working \o prefetched) \o (network \o t) = ((working \o prefetched) \o network) \o t
        <5> DEFINE w == working \o prefetched
        <5>1. w \in Seq(Unit)
          BY <3>1
        <5> HIDE DEF w
        <5>2. (w \o network) \o t = w \o (network \o t)
          BY <3>1, <5>1, <1>5, JoinedTwice, ZenonT(60)
        <5> QED
          BY <5>2 DEF w
      <4> QED
        BY <4>1, <4>2 DEF Held
    <3>4. network' \in Seq(Unit)
      BY <3>1, <3>2, <1>5, Joined
    <3>5. Len(Held') = Len(Held) + Len(t)
      BY <3>3, <2>3, <1>5, Joined
    <3>6. Done + Len(Held) = Stored
      BY <2>1, <2>4 DEF Coming
    <3>7. Holds(Held', Done')
      <4>1. Holds(Held, Done)
        BY <2>1 DEF Coming
      <4>2. Done + Len(Held) = Start(b, k)
        BY <3>6, <1>2
      <4>3. Holds(Held \o t, Done)
        BY <4>1, <4>2, <2>3, <1>2, <1>5, HoldsMore
      <4> QED
        BY <4>3, <3>3, <2>2
    <3>8. Done' + Len(Held') = Stored'
      BY <3>5, <3>6, <1>9, <1>5, <2>2, <2>3, SMTT(30)
    <3>9. Stored' \in Nat
      BY <1>9, <1>5
    <3> QED
      BY <1>1, <3>1, <3>4, <3>7, <3>8, <3>9 DEF Coming
  <2>5. CASE socket # "valid"
    <3>1. network' = network /\ Held' = Held
      BY <1>1, <2>5 DEF Held
    <3>2. Done' + Len(Held') <= Stored'
      <4>1. Done + Len(Held) <= Stored
        BY <2>1 DEF Coming
      <4> QED
        BY <4>1, <3>1, <1>9, <1>5, <2>2, <2>3
    <3>3. Holds(Held', Done')
      BY <2>1, <2>2, <3>1 DEF Coming
    <3> QED
      BY <1>1, <2>1, <2>5, <3>1, <3>2, <3>3 DEF Coming
  <2> QED
    BY <2>4, <2>5
<1>12. Quiet \/ OneSent
  BY <1>1, <1>2, <1>8 DEF Quiet, OneSent
<1> QED
  BY <1>7, <1>10, <1>11, <1>12 DEF Rest

\* Some of what is on its way comes to the receiver.
LEMMA Cut ==
  ASSUME NEW s \in Seq(Unit), s # <<>>, NEW n \in 1 .. Least(Len(s), MaxPrefetch)
  PROVE  /\ SubSeq(s, 1, n) \in Seq(Unit) /\ SubSeq(s, n + 1, Len(s)) \in Seq(Unit)
         /\ SubSeq(s, 1, n) \o SubSeq(s, n + 1, Len(s)) = s
<1>1. Len(s) \in Nat /\ Len(s) > 0 /\ MaxPrefetch \in Nat
  BY TransmissionsAssumption, EmptySeq
<1>2. n \in Nat /\ n > 0 /\ n <= Len(s)
  BY <1>1 DEF Least
<1>3. SubSeq(s, 1, n) \in Seq(Unit) /\ SubSeq(s, n + 1, Len(s)) \in Seq(Unit)
  <2>1. \A i \in 1 .. n : s[i] \in Unit
    BY <1>1, <1>2, ElementOfSeq
  <2>2. \A i \in n + 1 .. Len(s) : s[i] \in Unit
    BY <1>1, <1>2, ElementOfSeq
  <2>3. 1 \in Int /\ n \in Int /\ n + 1 \in Int /\ Len(s) \in Int
    BY <1>1, <1>2
  <2> QED
    BY <2>1, <2>2, <2>3, SubSeqProperties
<1>4. SubSeq(s, 1, n) \o SubSeq(s, n + 1, Len(s)) = SubSeq(s, 1, Len(s))
  <2>1. 1 \in 1 .. Len(s) + 1 /\ n \in (1 - 1) .. Len(s) /\ Len(s) \in n .. Len(s)
    BY <1>1, <1>2
  <2> QED
    BY <2>1, ConcatAdjacentSubSeq
<1>5. SubSeq(s, 1, Len(s)) = s
  BY SubSeqFull
<1> QED
  BY <1>3, <1>4, <1>5

\* Nothing before or behind.
LEMMA JoinedToNothing ==
  ASSUME NEW s \in Seq(Unit)
  PROVE  s \o <<>> = s /\ <<>> \o s = s /\ <<>> \in Seq(Unit)
BY ConcatEmptySeq

\* A step that does not touch what is sent or received.
LEMMA OtherStepsKeep ==
  ASSUME RInv, Rest, Close \/ BeginPass
  PROVE  Rest' /\ Quiet
<1>1. /\ UNCHANGED <<next, unstored, batches, greeted>>
      /\ UNCHANGED <<working, prefetched, network, socket>>
  BY DEF Close, BeginPass, sender, buffers
<1>2. Held' = Held
  BY <1>1 DEF Held
<1>3. working' \in Seq(Unit) /\ prefetched' \in Seq(Unit) /\ network' \in Seq(Unit)
  BY <1>1 DEF Rest, Coming
<1> QED
  BY <1>1, <1>2, <1>3, HeldKept

\* A peek takes units from the network into the empty buffer.
LEMMA PeekNextKeeps ==
  ASSUME RInv, Rest, PeekNextBufferSize
  PROVE  Rest' /\ Quiet
<1>1. UNCHANGED <<next, unstored, batches, greeted, working>>
  BY DEF PeekNextBufferSize, sender
<1>2. working \in Seq(Unit) /\ prefetched \in Seq(Unit) /\ network \in Seq(Unit)
  BY DEF Rest, Coming
<1>3. CASE ~ (working = <<>> /\ prefetched = <<>>)
  <2>1. UNCHANGED <<prefetched, network, socket>>
    BY <1>3 DEF PeekNextBufferSize
  <2>2. Held' = Held
    BY <2>1, <1>1 DEF Held
  <2> QED
    BY <1>1, <1>2, <2>1, <2>2, HeldKept
<1>4. CASE working = <<>> /\ prefetched = <<>>
  <2>1. Prefetch
    BY <1>4 DEF PeekNextBufferSize
  <2>2. socket' = "valid" => socket = "valid"
    BY <2>1 DEF Prefetch
  <2>3. Held = network
    BY <1>2, <1>4, JoinedToNothing DEF Held
  <2>4. CASE socket = "valid" /\ network # <<>>
    <3>1. PICK n \in 1 .. Least(Len(network), MaxPrefetch) :
            /\ prefetched' = SubSeq(network, 1, n)
            /\ network' = SubSeq(network, n + 1, Len(network))
      BY <2>1, <2>4 DEF Prefetch
    <3>2. /\ prefetched' \in Seq(Unit) /\ network' \in Seq(Unit)
          /\ prefetched' \o network' = network
      BY <3>1, <2>4, <1>2, Cut
    <3>3. Held' = network
      <4>1. Held' = (<<>> \o prefetched') \o network'
        BY <1>1, <1>4 DEF Held
      <4> QED
        BY <4>1, <3>2, JoinedToNothing
    <3> QED
      BY <1>1, <1>2, <2>2, <2>3, <3>2, <3>3, HeldKept
  <2>5. CASE ~ (socket = "valid" /\ network # <<>>)
    <3>1. UNCHANGED <<prefetched, network>>
      BY <2>1, <2>5 DEF Prefetch
    <3>2. Held' = Held
      BY <3>1, <1>1 DEF Held
    <3> QED
      BY <1>1, <1>2, <2>2, <3>1, <3>2, HeldKept
  <2> QED
    BY <2>4, <2>5
<1> QED
  BY <1>3, <1>4

\* What is stitched to the working buffer came before what is left.
LEMMA StitchNextKeeps ==
  ASSUME RInv, Rest, TryStitchNextBuffer
  PROVE  Rest' /\ Quiet
<1>1. UNCHANGED <<next, unstored, batches, greeted>>
  BY DEF TryStitchNextBuffer, sender
<1>2. working \in Seq(Unit) /\ prefetched \in Seq(Unit) /\ network \in Seq(Unit)
  BY DEF Rest, Coming
<1>3. CASE prefetched = <<>> /\ socket = "valid" /\ network # <<>>
  <2>1. PICK n \in 1 .. Least(Len(network), MaxPrefetch) :
          /\ working' = working \o SubSeq(network, 1, n)
          /\ network' = SubSeq(network, n + 1, Len(network))
          /\ UNCHANGED <<prefetched, socket>>
    BY <1>3 DEF TryStitchNextBuffer
  <2> DEFINE x == SubSeq(network, 1, n)
  <2>2. /\ x \in Seq(Unit) /\ network' \in Seq(Unit)
        /\ x \o network' = network
    BY <2>1, <1>2, <1>3, Cut
  <2>3. working' = working \o x
    BY <2>1
  <2> HIDE DEF x
  <2>4. working' \in Seq(Unit)
    BY <2>2, <2>3, <1>2, Joined
  <2>5. Held' = Held
    <3>1. Held' = (working' \o <<>>) \o network'
      BY <2>1, <1>3 DEF Held
    <3>2. working' \o <<>> = working'
      BY <2>4, JoinedToNothing
    <3>3. (working \o x) \o network' = working \o (x \o network')
      <4> DEFINE y == network'
      <4>1. y \in Seq(Unit)
        BY <2>2
      <4> HIDE DEF y
      <4>2. (working \o x) \o y = working \o (x \o y)
        BY <4>1, JoinedTwice
      <4> QED
        BY <4>2 DEF y
    <3>4. Held = working \o network
      BY <1>2, <1>3, JoinedToNothing DEF Held
    <3> QED
      BY <3>1, <3>2, <3>3, <3>4, <2>2, <2>3
  <2> QED
    BY <1>1, <1>2, <2>1, <2>2, <2>4, <2>5, HeldKept
<1>4. CASE ~ (prefetched = <<>> /\ socket = "valid" /\ network # <<>>)
  <2>1. /\ working' = working \o prefetched /\ prefetched' = <<>> /\ network' = network
        /\ socket' = "valid" => socket = "valid"
    BY <1>4 DEF TryStitchNextBuffer
  <2>2. working' \in Seq(Unit) /\ prefetched' \in Seq(Unit) /\ network' \in Seq(Unit)
    BY <1>2, <2>1, Joined
  <2>3. Held' = Held
    <3>1. Held' = (working' \o <<>>) \o network'
      BY <2>1 DEF Held
    <3>2. working' \o <<>> = working'
      BY <2>2, JoinedToNothing
    <3> QED
      BY <3>1, <3>2, <2>1 DEF Held
  <2> QED
    BY <1>1, <2>1, <2>2, <2>3, HeldKept
<1> QED
  BY <1>3, <1>4

\* What was on its way is lost with the connection.
LEMMA TerminateKeeps ==
  ASSUME RInv, Rest, Terminate
  PROVE  Rest' /\ Quiet
<1>1. /\ UNCHANGED <<next, unstored, batches, greeted, working, prefetched>>
      /\ network' = <<>> /\ socket' # "valid"
  BY DEF Terminate, sender
<1>2. SentWhole' = SentWhole /\ Stored' = Stored /\ Done' = Done
  BY <1>1 DEF SentWhole, Stored, Done
<1>3. Unsent'
  BY <1>1 DEF Rest, Unsent
<1>4. Received'
  BY <1>1, <1>2 DEF Rest, Received
<1>5. Coming
  BY DEF Rest
<1> DEFINE w == working \o prefetched
<1>6. /\ w \in Seq(Unit) /\ Held \in Seq(Unit) /\ Len(w) <= Len(Held) /\ Len(Held) \in Nat
      /\ \A i \in 1 .. Len(w) : Held[i] = w[i]
  BY <1>5, HeldIs
<1>7. Held' = w
  <2>1. Held' = w \o <<>>
    BY <1>1 DEF Held
  <2> HIDE DEF w
  <2> QED
    BY <2>1, <1>6, JoinedToNothing
<1>8. Done \in Nat /\ Stored \in Nat
  <2>1. Len(batches) \in Nat /\ Len(batches) <= SentWhole
    BY LenProperties DEF Rest, Received
  <2>2. SentWhole \in 0 .. Len(Sizes) /\ Len(Sizes) \in Nat
    BY SenderIs DEF Rest
  <2>3. Len(batches) + 1 \in 1 .. Len(Sizes) + 1
    BY <2>1, <2>2
  <2> QED
    BY <2>3, OffsetIs, StoredIs DEF Done, Rest
<1> HIDE DEF w
<1>9. Holds(w, Done)
  <2>1. Holds(Held, Done)
    BY <1>5 DEF Coming
  <2> QED
    BY <2>1, <1>6, <1>8, HoldsFewer
<1>10. Done + Len(w) <= Stored
  <2>1. Done + Len(Held) <= Stored /\ Len(w) \in Nat
    BY <1>5, <1>6, LenProperties DEF Coming
  <2> QED
    BY <2>1, <1>6, <1>8
<1>11. Coming'
  <2>1. network' \in Seq(Unit)
    BY <1>1
  <2> QED
    BY <2>1, <1>1, <1>2, <1>5, <1>7, <1>9, <1>10 DEF Coming
<1> QED
  BY <1>1, <1>2, <1>3, <1>4, <1>11 DEF Rest, Quiet

\* What is decoded is the beginning of what is held, and that is the next batch.
LEMMA DecodedIs ==
  ASSUME RInv, Rest, reader = "decode",
         NEW bytes, bytes = IF working = <<>> THEN prefetched ELSE working
  PROVE  LET b == Len(batches) + 1
         IN  /\ bytes = working \o prefetched /\ bytes \in Seq(Unit)
             /\ b \in DOMAIN Sizes /\ Done = Offset[b] /\ Done \in Nat
             /\ Holds(bytes, Offset[b]) /\ Encrypted(b) = greeted
             /\ Len(bytes) <= Len(Held) /\ Len(Held) \in Nat
<1> DEFINE b == Len(batches) + 1
<1>1. Coming /\ working \in Seq(Unit) /\ prefetched \in Seq(Unit) /\ network \in Seq(Unit)
  BY DEF Rest, Coming
<1>2. bytes = working \o prefetched /\ bytes # <<>> /\ bytes \in Seq(Unit)
  <2>1. CASE working = <<>>
    BY <2>1, <1>1, JoinedToNothing DEF RInv, FetchNeverBlocks
  <2>2. CASE working # <<>>
    <3>1. prefetched = <<>>
      BY <2>2 DEF RInv, FetchNeverBlocks
    <3> QED
      BY <2>2, <3>1, <1>1, JoinedToNothing
  <2> QED
    BY <2>1, <2>2
<1>3. /\ Held \in Seq(Unit) /\ Len(bytes) <= Len(Held) /\ Len(Held) \in Nat
      /\ \A i \in 1 .. Len(bytes) : Held[i] = bytes[i]
  BY <1>1, <1>2, HeldIs
<1>4. Len(bytes) \in Nat /\ Len(bytes) > 0
  BY <1>2, EmptySeq
<1>5. /\ Len(batches) \in Nat /\ Len(batches) <= SentWhole
      /\ greeted = (batches # <<>>) /\ batches \in Seq(Seq(Unit))
  BY LenProperties DEF Rest, Received
<1>6. /\ SentWhole \in 0 .. Len(Sizes) /\ Len(Sizes) \in Nat /\ DOMAIN Sizes = 1 .. Len(Sizes)
      /\ SentWhole + 1 \in 1 .. Len(Sizes) + 1
      /\ Stored \in Nat
      /\ SentWhole + 1 \notin DOMAIN Sizes => Stored = Offset[SentWhole + 1]
  BY SenderIs, StoredIs DEF Rest
<1>7. b \in 1 .. Len(Sizes) + 1 /\ Done = Offset[b] /\ Done \in Nat
  <2>1. b \in 1 .. Len(Sizes) + 1
    BY <1>5, <1>6
  <2> HIDE DEF b
  <2>2. Done = Offset[b]
    BY DEF Done, b
  <2> QED
    BY <2>1, <2>2, OffsetIs
<1>8. Done + Len(Held) <= Stored /\ Holds(Held, Done)
  BY <1>1 DEF Coming
<1>9. b \in DOMAIN Sizes
  <2> SUFFICES ASSUME b \notin DOMAIN Sizes PROVE FALSE
    OBVIOUS
  <2>1. b = SentWhole + 1
    <3>1. b \in 1 .. Len(Sizes) + 1 /\ b \notin 1 .. Len(Sizes) /\ Len(Sizes) \in Nat
      BY <1>6, <1>7
    <3> QED
      BY <3>1, <1>5, <1>6
  <2>2. Stored = Done
    <3>1. SentWhole + 1 \notin DOMAIN Sizes
      BY <2>1
    <3>2. Stored = Offset[SentWhole + 1]
      BY <3>1, <1>6
    <3> QED
      BY <2>1, <3>2, <1>7
  <2> HIDE DEF b
  <2> QED
    BY <2>2, <1>3, <1>4, <1>7, <1>8
<1>10. Holds(bytes, Done)
  BY <1>2, <1>3, <1>7, <1>8, HoldsFewer
<1>11. Encrypted(b) = greeted
  <2>1. batches = <<>> <=> Len(batches) = 0
    BY <1>5, EmptySeq
  <2>2. Encrypted(b) <=> greeted
    <3>1. b > 1 <=> ~ (Len(batches) = 0)
      BY <1>5
    <3>2. greeted <=> ~ (batches = <<>>)
      BY <1>5
    <3> HIDE DEF b
    <3> QED
      BY <2>1, <3>1, <3>2 DEF Encrypted
  <2>3. Encrypted(b) \in BOOLEAN /\ greeted \in BOOLEAN
    BY DEF Encrypted, RInv, TypeOK
  <2> QED
    BY <2>2, <2>3
<1> QED
  BY <1>2, <1>3, <1>7, <1>9, <1>10, <1>11

\* A batch that is whole is taken from the front.
LEMMA SuccessKeeps ==
  ASSUME RInv, Rest, reader = "decode",
         NEW bytes, bytes = IF working = <<>> THEN prefetched ELSE working,
         NEW b, b = Len(batches) + 1,
         NEW d, d = Found(b, Parts(b), "success"), Units(b) <= Len(bytes),
         UNCHANGED <<next, unstored, network>>, prefetched' = <<>>,
         working' = SubSeq(bytes, d.at + 1, Len(bytes)),
         batches' = Append(batches, d.found), greeted' = TRUE,
         socket' = socket
  PROVE  Rest' /\ OneReceived
<1>1. /\ bytes = working \o prefetched /\ bytes \in Seq(Unit)
      /\ b \in DOMAIN Sizes /\ Done = Offset[b] /\ Done \in Nat
      /\ Holds(bytes, Offset[b])
      /\ Len(bytes) <= Len(Held) /\ Len(Held) \in Nat
  BY DecodedIs
<1>2. /\ Units(b) \in Nat /\ Parts(b) \in Nat /\ b \in Nat /\ b > 0
      /\ Through(b, Parts(b)) = Units(b) /\ Until(b, Parts(b)) = Sizes[b]
  <2>1. Units(b) \in Nat /\ Parts(b) \in Nat /\ b \in 1 .. Len(Sizes) /\ Through(b, Parts(b)) = Units(b)
    BY <1>1, BatchSizes, ThroughAll
  <2>2. Until(b, Parts(b)) = Sizes[b]
    BY <1>1, <2>1, UntilIs
  <2> QED
    BY <2>1, <2>2
<1>3. d.at = Units(b) /\ d.found = Messages(b)
  <2>1. Messages(b) \in Seq(Unit) /\ Len(Messages(b)) = Sizes[b]
    BY <1>1, MessagesAre
  <2>2. d.found = SubSeq(Messages(b), 1, Until(b, Parts(b))) /\ d.at = Through(b, Parts(b))
    BY DEF Found
  <2> QED
    BY <2>1, <2>2, <1>2, SubSeqFull
<1>4. Len(bytes) \in Nat
  BY <1>1, LenProperties
<1> DEFINE n == Units(b)
           x == SubSeq(bytes, n + 1, Len(bytes))
<1>5. /\ x \in Seq(Unit) /\ Len(x) = Len(bytes) - n /\ Len(x) \in Nat
      /\ \A i \in 1 .. Len(x) : x[i] = bytes[n + i]
  <2> HIDE DEF n
  <2>1. n \in Nat /\ n <= Len(bytes)
    BY <1>2 DEF n
  <2>2. n + 1 \in Int /\ Len(bytes) \in Int /\ Len(bytes) - (n + 1) + 1 = Len(bytes) - n
    BY <2>1, <1>4
  <2>3. \A i \in n + 1 .. Len(bytes) : bytes[i] \in Unit
    BY <2>1, <1>1, <1>4, ElementOfSeq
  <2>4. /\ x \in Seq(Unit)
        /\ Len(x) = IF n + 1 <= Len(bytes) THEN Len(bytes) - (n + 1) + 1 ELSE 0
        /\ \A i \in 1 .. Len(bytes) - (n + 1) + 1 : x[i] = bytes[n + 1 + i - 1]
    BY <2>2, <2>3, SubSeqProperties
  <2> HIDE DEF x
  <2>5. Len(x) = Len(bytes) - n /\ Len(x) \in Nat
    BY <2>1, <2>2, <2>4, <1>4
  <2>6. \A i \in 1 .. Len(x) : x[i] = bytes[n + i]
    <3> TAKE i \in 1 .. Len(x)
    <3>1. i \in 1 .. Len(bytes) - (n + 1) + 1 /\ n + 1 + i - 1 = n + i
      BY <2>1, <2>2, <2>5, <1>4
    <3> QED
      BY <3>1, <2>4
  <2> QED
    BY <2>4, <2>5, <2>6
<1>6. working' = x
  BY <1>3
<1> HIDE DEF n, x
<1>7. Coming
  BY DEF Rest
<1>8. Held' \in Seq(Unit) /\ Len(Held) = n + Len(Held')
      /\ \A i \in 1 .. Len(Held') : Held'[i] = Held[n + i]
  <2>1. network \in Seq(Unit)
    BY <1>7 DEF Coming
  <2>2. Held' = x \o network
    <3>1. Held' = (x \o <<>>) \o network
      BY <1>6 DEF Held
    <3> QED
      BY <3>1, <1>5, JoinedToNothing
  <2>3. Held = bytes \o network
    BY <1>1 DEF Held
  <2> DEFINE h == x \o network
             g == bytes \o network
  <2>4. /\ h \in Seq(Unit) /\ Len(h) = Len(x) + Len(network) /\ Len(network) \in Nat
        /\ \A i \in 1 .. Len(x) : h[i] = x[i]
        /\ \A i \in 1 .. Len(network) : h[Len(x) + i] = network[i]
    BY <2>1, <1>5, Joined
  <2>5. /\ g \in Seq(Unit) /\ Len(g) = Len(bytes) + Len(network)
        /\ \A i \in 1 .. Len(bytes) : g[i] = bytes[i]
        /\ \A i \in 1 .. Len(network) : g[Len(bytes) + i] = network[i]
    BY <2>1, <1>1, Joined
  <2> HIDE DEF h, g
  <2>6. n \in Nat
    BY <1>2 DEF n
  <2>7. Len(g) = n + Len(h)
    BY <2>4, <2>5, <2>6, <1>4, <1>5
  <2>8. ASSUME NEW i \in 1 .. Len(h) PROVE h[i] = g[n + i]
    <3>0. Len(h) = Len(x) + Len(network) /\ Len(network) \in Nat /\ Len(x) \in Nat
          /\ Len(x) = Len(bytes) - n
      BY <2>4, <1>5
    <3>1. CASE i \in 1 .. Len(x)
      <4>1. n + i \in 1 .. Len(bytes)
        BY <3>0, <3>1, <2>6, <1>4
      <4> QED
        BY <3>1, <4>1, <2>4, <2>5, <1>5
    <3>2. CASE i \notin 1 .. Len(x)
      <4> DEFINE j == i - Len(x)
      <4>1. j \in 1 .. Len(network) /\ i = Len(x) + j /\ n + i = Len(bytes) + j
        <5> DEFINE lx == Len(x)
                   lb == Len(bytes)
                   ln == Len(network)
        <5>1. i \in Nat /\ i > lx /\ i <= lx + ln
          BY <3>0, <3>2
        <5>2. lx \in Nat /\ lb \in Nat /\ ln \in Nat /\ n \in Nat /\ lx = lb - n
          BY <3>0, <2>6, <1>4
        <5> HIDE DEF lx, lb, ln
        <5>3. i - lx \in 1 .. ln /\ i = lx + (i - lx) /\ n + i = lb + (i - lx)
          BY <5>1, <5>2
        <5> QED
          BY <5>3 DEF lx, lb, ln
      <4> HIDE DEF j
      <4>2. h[Len(x) + j] = network[j] /\ g[Len(bytes) + j] = network[j]
        BY <4>1, <2>4, <2>5
      <4> QED
        BY <4>1, <4>2
    <3> QED
      BY <3>1, <3>2
  <2>9. Held' = h /\ Held = g
    BY <2>2, <2>3 DEF h, g
  <2> QED
    BY <2>4, <2>7, <2>8, <2>9
<1>9. /\ batches \in Seq(Seq(Unit)) /\ Messages(b) \in Seq(Unit)
      /\ batches' \in Seq(Seq(Unit)) /\ Len(batches') = b /\ batches' # <<>>
      /\ Len(batches) \in Nat
      /\ \A c \in 1 .. Len(batches) : batches'[c] = batches[c]
      /\ batches'[b] = Messages(b)
  <2>1. batches \in Seq(Seq(Unit)) /\ Messages(b) \in Seq(Unit)
    BY <1>1, MessagesAre DEF Rest, Received
  <2>2. batches' = Append(batches, Messages(b))
    BY <1>3
  <2> QED
    BY <2>1, <2>2, AppendProperties, LenProperties, SMTT(60)
<1>10. SentWhole' = SentWhole /\ Stored' = Stored
  BY DEF SentWhole, Stored
<1>11. Done' = Done + n
  <2>1. Done' = Offset[b + 1]
    BY <1>9 DEF Done
  <2>2. Offset[b + 1] = Offset[b] + n
    BY <1>1, OffsetIs DEF n
  <2> QED
    BY <1>1, <2>1, <2>2
<1>12. b <= SentWhole
  <2>1. Done + Len(Held) <= Stored /\ Stored \in Nat
    BY <1>7, StoredIs DEF Coming, Rest
  <2>2. Offset[b] + Units(b) <= Stored
    BY <2>1, <1>1, <1>2, <1>4, SMTT(30)
  <2> QED
    BY <2>2, <1>1, WholeIsSent DEF Rest
<1>13. Unsent'
  BY DEF Rest, Unsent
<1>14. Received'
  <2>1. \A c \in 1 .. Len(batches') : batches'[c] = Messages(c)
    <3> TAKE c \in 1 .. Len(batches')
    <3>1. c \in 1 .. Len(batches) \/ c = b
      BY <1>9, <1>2
    <3>2. \A i \in 1 .. Len(batches) : batches[i] = Messages(i)
      BY DEF Rest, Received
    <3> QED
      BY <3>1, <3>2, <1>9
  <2>2. greeted' = (batches' # <<>>)
    BY <1>9
  <2>3. Len(batches') <= SentWhole'
    BY <1>9, <1>10, <1>12
  <2> QED
    BY <1>9, <2>1, <2>2, <2>3 DEF Received
<1>15. Coming'
  <2>1. n \in Nat /\ Len(Held') \in Nat
    BY <1>2, <1>8, LenProperties DEF n
  <2>2. Holds(Held', Done')
    <3> DEFINE h == Held'
    <3>1. Holds(Held, Done) /\ Held \in Seq(Unit)
      BY <1>7, HeldIs DEF Coming
    <3>2. h \in Seq(Unit) /\ Len(Held) = n + Len(h) /\ \A i \in 1 .. Len(h) : h[i] = Held[n + i]
      BY <1>8
    <3> HIDE DEF h
    <3>3. Holds(h, Done + n)
      BY <3>1, <3>2, <2>1, <1>1, HoldsRest
    <3> QED
      BY <3>3, <1>11 DEF h
  <2>3. Done' + Len(Held') = Done + Len(Held)
    BY <2>1, <1>1, <1>8, <1>11
  <2>4. Done' + Len(Held') <= Stored' /\ (socket' = "valid" => Done' + Len(Held') = Stored')
    BY <2>3, <1>7, <1>10 DEF Coming
  <2>5. working' \in Seq(Unit) /\ prefetched' \in Seq(Unit) /\ network' \in Seq(Unit)
    <3>1. network \in Seq(Unit)
      BY <1>7 DEF Coming
    <3>2. <<>> \in Seq(Unit)
      OBVIOUS
    <3> QED
      BY <1>5, <1>6, <3>1, <3>2
  <2> QED
    BY <2>2, <2>4, <2>5 DEF Coming
<1>16. OneReceived
  <2>1. Len(batches) < SentWhole
    <3>1. SentWhole \in Nat
      BY StoredIs DEF Rest
    <3> QED
      BY <3>1, <1>9, <1>12
  <2> QED
    BY <2>1, <1>1, <1>3, <1>10 DEF OneReceived
<1> QED
  BY <1>13, <1>14, <1>15, <1>16 DEF Rest

\* Decoding finds the next batch whole, or keeps what there is; never bad bytes.
LEMMA DecodeNextKeeps ==
  ASSUME RInv, Rest, ~invalid, Decode
  PROVE  Rest' /\ ~invalid' /\ (Quiet \/ OneReceived)
<1> DEFINE bytes == IF working = <<>> THEN prefetched ELSE working
           b == Len(batches) + 1
           d == IF greeted THEN TryDecodeTransmissionsIntoFullBatch(bytes, TRUE)
                ELSE TryDecodeGreeting(bytes)
<1>1. /\ reader = "decode"
      /\ prefetched' = IF working = <<>> THEN <<>> ELSE prefetched
      /\ working' = IF d.is = "success" THEN SubSeq(bytes, d.at + 1, Len(bytes)) ELSE bytes
      /\ batches' = IF d.is = "success" THEN Append(batches, d.found) ELSE batches
      /\ greeted' = (greeted \/ d.is = "success")
      /\ invalid' = (invalid \/ d.is = "bad")
      /\ socket' = IF d.is = "bad" THEN "shut" ELSE socket
      /\ UNCHANGED <<next, unstored, network>>
  BY ZenonT(60) DEF Decode, sender
<1>2. /\ bytes = working \o prefetched /\ bytes \in Seq(Unit)
      /\ b \in DOMAIN Sizes /\ Holds(bytes, Offset[b]) /\ Encrypted(b) = greeted
  <2> HIDE DEF bytes
  <2>1. bytes = IF working = <<>> THEN prefetched ELSE working
    BY DEF bytes
  <2> QED
    BY <1>1, <2>1, DecodedIs
<1>3. prefetched' = <<>>
  BY <1>1 DEF RInv, FetchNeverBlocks
<1> HIDE DEF bytes, d
<1>4. Decided(d, b, bytes)
  <2>1. CASE greeted
    <3>1. Decided(TryDecodeTransmissionsIntoFullBatch(bytes, Encrypted(b)), b, bytes)
      <4> HIDE DEF b
      <4> QED
        BY <1>2, DecodesBatch
    <3>2. Encrypted(b) = TRUE
      BY <2>1, <1>2 DEF RInv, TypeOK
    <3> QED
      BY <2>1, <3>1, <3>2 DEF d
  <2>2. CASE ~greeted
    <3>1. b = 1
      <4>1. batches = <<>>
        BY <2>2 DEF Rest, Received
      <4> QED
        BY <4>1
    <3>2. Decided(TryDecodeGreeting(bytes), 1, bytes)
      BY <3>1, <1>2, DecodesGreeting
    <3> QED
      BY <2>2, <3>1, <3>2 DEF d
  <2> QED
    BY <2>1, <2>2
<1>5. CASE d = Found(b, Parts(b), "success") /\ Units(b) <= Len(bytes)
  <2>1. d.is = "success"
    BY <1>5, FoundIs
  <2>2. ~ (d.is = "bad")
    BY <2>1
  <2>3. /\ working' = SubSeq(bytes, d.at + 1, Len(bytes))
        /\ batches' = Append(batches, d.found) /\ greeted' = TRUE /\ socket' = socket
        /\ ~invalid'
    BY <1>1, <2>1, <2>2
  <2>4. bytes = IF working = <<>> THEN prefetched ELSE working
    BY DEF bytes
  <2>5. b = Len(batches) + 1
    OBVIOUS
  <2> HIDE DEF b
  <2>6. Rest' /\ OneReceived
    BY <1>1, <1>3, <1>5, <2>3, <2>4, <2>5, SuccessKeeps
  <2> QED
    BY <2>3, <2>6
<1>6. CASE \E k \in 0 .. Parts(b) : d = Found(b, k, "too small")
  <2>1. d.is = "too small"
    <3>1. PICK k \in 0 .. Parts(b) : d = Found(b, k, "too small")
      BY <1>6
    <3> HIDE DEF b
    <3> QED
      BY <3>1, FoundIs
  <2>2. ~ (d.is = "bad") /\ ~ (d.is = "success")
    BY <2>1
  <2>3. working' = bytes /\ batches' = batches /\ socket' = socket /\ ~invalid'
        /\ greeted' = (greeted \/ FALSE)
    BY <1>1, <2>2
  <2>4. greeted' = greeted
    BY <2>3 DEF RInv, TypeOK
  <2>5. Held' = Held
    <3>1. Held' = (bytes \o <<>>) \o network
      BY <1>1, <1>3, <2>3 DEF Held
    <3>2. bytes \o <<>> = bytes
      BY <1>2, JoinedToNothing
    <3> QED
      BY <3>1, <3>2, <1>2 DEF Held
  <2>6. working' \in Seq(Unit) /\ prefetched' \in Seq(Unit) /\ network' \in Seq(Unit)
    BY <1>1, <1>2, <1>3, <2>3 DEF Rest, Coming
  <2> QED
    BY <1>1, <2>3, <2>4, <2>5, <2>6, HeldKept
<1> QED
  BY <1>4, <1>5, <1>6 DEF Decided

-----------------------------------------------------------------------------
(* Theorems *)

\* Every step keeps the invariant, and is nothing, a batch sent or a batch received.
LEMMA ChannelStep == SInv /\ [Next]_vars => SInv' /\ (Quiet \/ OneSent \/ OneReceived)
<1> SUFFICES ASSUME SInv, [Next]_vars PROVE SInv' /\ (Quiet \/ OneSent \/ OneReceived)
  OBVIOUS
<1>1. RInv /\ Rest /\ ~invalid
  BY DEF SInv, Rest
<1>2. RInv'
  BY <1>1, ReaderStep
<1>3. Rest' /\ ~invalid' /\ (Quiet \/ OneSent \/ OneReceived)
  <2>1. CASE SendBatch
    BY <1>1, <2>1, SendBatchKeeps DEF SendBatch
  <2>2. CASE StoreNextBuffer
    BY <1>1, <2>2, StoreKeeps DEF StoreNextBuffer
  <2>3. CASE Close \/ BeginPass
    <3>1. Rest' /\ Quiet
      BY <1>1, <2>3, OtherStepsKeep
    <3>2. invalid' = invalid
      BY <2>3 DEF Close, BeginPass
    <3> QED
      BY <1>1, <3>1, <3>2
  <2>4. CASE PeekNextBufferSize
    BY <1>1, <2>4, PeekNextKeeps DEF PeekNextBufferSize
  <2>5. CASE Decode
    BY <1>1, <2>5, DecodeNextKeeps
  <2>6. CASE TryStitchNextBuffer
    BY <1>1, <2>6, StitchNextKeeps DEF TryStitchNextBuffer
  <2>7. CASE Terminate
    BY <1>1, <2>7, TerminateKeeps DEF Terminate
  <2>8. CASE UNCHANGED vars
    <3>1. /\ UNCHANGED <<next, unstored, batches, greeted>>
          /\ UNCHANGED <<working, prefetched, network, socket, invalid>>
      BY <2>8 DEF vars, sender, buffers
    <3>2. Held' = Held
      BY <3>1 DEF Held
    <3>3. working' \in Seq(Unit) /\ prefetched' \in Seq(Unit) /\ network' \in Seq(Unit)
      BY <1>1, <3>1 DEF Rest, Coming
    <3> QED
      BY <1>1, <3>1, <3>2, <3>3, HeldKept
  <2> QED
    BY <2>1, <2>2, <2>3, <2>4, <2>5, <2>6, <2>7, <2>8 DEF Next, Read
<1> QED
  BY <1>2, <1>3 DEF SInv, Rest

\* The channel's view of what has been sent.
Sent == [b \in 1 .. SentWhole |-> Messages(b)]

\* The channel has sent one batch more.
LEMMA ChannelSends ==
  ASSUME SInv, OneSent
  PROVE  Sent' = Append(Sent, Messages(SentWhole + 1))
<1> DEFINE n == SentWhole
           m(b) == Messages(b)
<1>1. n \in Nat /\ SentWhole' = n + 1
  BY StoredIs DEF SInv, OneSent
<1>2. Sent' = [b \in 1 .. n + 1 |-> m(b)]
  BY <1>1 DEF Sent
<1>3. Sent = [b \in 1 .. n |-> m(b)]
  BY DEF Sent
<1> HIDE DEF n, m
<1>4. Append([b \in 1 .. n |-> m(b)], m(n + 1)) = [b \in 1 .. n + 1 |-> m(b)]
  BY <1>1
<1> QED
  BY <1>2, <1>3, <1>4 DEF n, m

\* The channel receives the first of those it has not yet.
LEMMA ChannelReceives ==
  ASSUME SInv, OneReceived
  PROVE  /\ Len(batches) < Len(Sent)
         /\ batches' = SubSeq(Sent, 1, Len(batches) + 1)
         /\ Sent' = Sent
<1> DEFINE n == SentWhole
           k == Len(batches) + 1
<1>1. n \in Nat /\ k \in 1 .. n /\ k \in Nat /\ Len(batches) \in Nat /\ Len(batches) < n
  <2>1. n \in Nat
    BY StoredIs DEF SInv
  <2>2. Len(batches) \in Nat /\ Len(batches) < n
    BY LenProperties DEF SInv, Received, OneReceived
  <2> HIDE DEF n
  <2> QED
    BY <2>1, <2>2
<1>2. Sent' = Sent
  BY DEF Sent, OneReceived
<1>3. n \in 0 .. Len(Sizes) /\ DOMAIN Sizes = 1 .. Len(Sizes) /\ Len(Sizes) \in Nat
  BY SenderIs DEF SInv
<1>4. Sent \in Seq(Seq(Unit)) /\ Len(Sent) = n /\ \A b \in 1 .. n : Sent[b] = Messages(b)
  <2> DEFINE m(b) == Messages(b)
  <2>1. \A b \in 1 .. n : m(b) \in Seq(Unit)
    <3>1. \A b \in 1 .. n : b \in DOMAIN Sizes
      BY <1>1, <1>3
    <3> QED
      BY <3>1, MessagesAre
  <2>2. Sent = [b \in 1 .. n |-> m(b)]
    BY DEF Sent
  <2> HIDE DEF n, m
  <2>3. Sent \in Seq(Seq(Unit)) /\ Len(Sent) = n /\ \A b \in 1 .. n : Sent[b] = m(b)
    BY <1>1, <2>1, <2>2
  <2> QED
    BY <2>3 DEF m
<1> DEFINE s == SubSeq(Sent, 1, k)
<1> HIDE DEF n
<1>5. s \in Seq(Seq(Unit)) /\ Len(s) = k /\ \A b \in 1 .. k : s[b] = Sent[b]
  <2> HIDE DEF k
  <2>1. \A i \in 1 .. k : Sent[i] \in Seq(Unit)
    BY <1>1, <1>4, ElementOfSeq
  <2>2. 1 \in Int /\ k \in Int /\ 1 <= k /\ k - 1 + 1 = k
    BY <1>1
  <2>3. /\ s \in Seq(Seq(Unit))
        /\ Len(s) = IF 1 <= k THEN k - 1 + 1 ELSE 0
        /\ \A i \in 1 .. k - 1 + 1 : s[i] = Sent[1 + i - 1]
    BY <2>1, <2>2, SubSeqProperties
  <2> HIDE DEF s
  <2>4. \A i \in 1 .. k : 1 + i - 1 = i
    BY <1>1
  <2> QED
    BY <2>2, <2>3, <2>4
<1>6. batches \in Seq(Seq(Unit)) /\ \A b \in 1 .. Len(batches) : batches[b] = Messages(b)
  BY DEF SInv, Received
<1>7. batches' = Append(batches, Messages(k)) /\ Messages(k) \in Seq(Unit)
  <2>1. k \in DOMAIN Sizes
    BY DEF OneReceived
  <2> QED
    BY <2>1, MessagesAre DEF OneReceived
<1> DEFINE t == Append(batches, Messages(k))
<1>8. /\ t \in Seq(Seq(Unit)) /\ Len(t) = Len(batches) + 1
      /\ \A i \in 1 .. Len(batches) : t[i] = batches[i]
      /\ t[Len(batches) + 1] = Messages(k)
  BY <1>6, <1>7, AppendProperties
<1>9. t = s
  <2> HIDE DEF s, t
  <2>1. ASSUME NEW i \in 1 .. Len(t) PROVE t[i] = s[i]
    <3>1. i \in 1 .. k /\ (i \in 1 .. Len(batches) \/ i = Len(batches) + 1)
      BY <1>1, <1>8
    <3>2. t[i] = Messages(i)
      BY <3>1, <1>6, <1>8
    <3>3. s[i] = Sent[i] /\ i \in 1 .. n
      BY <3>1, <1>1, <1>5
    <3> QED
      BY <3>2, <3>3, <1>4
  <2>2. Len(t) = Len(s)
    BY <1>5, <1>8
  <2> QED
    BY <2>1, <2>2, <1>5, <1>8, SeqEqual
<1> QED
  BY <1>1, <1>2, <1>4, <1>7, <1>9

\* However the network cuts what is sent, and whenever it is closed or terminated:
\* batches come out whole, once and in order (CreateTransmissions and
\* TryDecodeTransmissionsIntoFullBatch, across the change of the encryption).
THEOREM BatchesComeOutWhole == Spec => ImplementsChannel
<1>1. Init => Channel!Init
  <2> SUFFICES ASSUME Init PROVE Channel!Init
    OBVIOUS
  <2>1. SentWhole = 0 /\ batches = <<>>
    BY DEF Init, SentWhole
  <2>2. [b \in 1 .. SentWhole |-> Messages(b)] = <<>>
    BY <2>1
  <2> QED
    BY <2>1, <2>2 DEF Channel!Init
<1>2. SInv /\ [Next]_vars => [Channel!Next]_<<Sent, batches>>
  <2> SUFFICES ASSUME SInv, [Next]_vars PROVE [Channel!Next]_<<Sent, batches>>
    OBVIOUS
  <2>1. CASE Quiet
    <3>1. Sent' = Sent /\ batches' = batches
      BY <2>1 DEF Quiet, Sent
    <3> QED
      BY <3>1
  <2>2. CASE OneSent
    <3>1. Sent' = Append(Sent, Messages(SentWhole + 1)) /\ batches' = batches
      BY <2>2, ChannelSends DEF OneSent
    <3>2. Messages(SentWhole + 1) \in {Messages(b) : b \in DOMAIN Sizes}
      BY <2>2 DEF OneSent
    <3>3. Channel!Send(Messages(SentWhole + 1))
      BY <3>1 DEF Channel!Send, Sent
    <3> QED
      BY <3>2, <3>3 DEF Channel!Next
  <2>3. CASE OneReceived
    <3>1. /\ Len(batches) < Len(Sent)
          /\ batches' = SubSeq(Sent, 1, Len(batches) + 1)
          /\ Sent' = Sent
      BY <2>3, ChannelReceives
    <3>2. Channel!Receive
      BY <3>1 DEF Channel!Receive, Sent
    <3> QED
      BY <3>2 DEF Channel!Next
  <2> QED
    BY <2>1, <2>2, <2>3, ChannelStep
<1>3. SInv /\ [Next]_vars => SInv'
  BY ChannelStep
<1>4. [Channel!Next]_<<Sent, batches>> =>
        [Channel!Next]_<<[b \in 1 .. SentWhole |-> Messages(b)], batches>>
  BY DEF Sent
<1> QED
  BY <1>1, <1>2, <1>3, <1>4, ChannelStart, PTL DEF Spec, ImplementsChannel, Channel!Spec

\* No bytes that arrive are taken for invalid: both sides change their encryption
\* behind the same unit, and a transmission is only decoded when it is whole.
THEOREM NothingIsInvalid == Spec => []~invalid
<1>1. SInv /\ [Next]_vars => SInv'
  BY ChannelStep
<1>2. SInv => ~invalid
  BY DEF SInv
<1> QED
  BY <1>1, <1>2, ChannelStart, PTL DEF Spec
=============================================================================
