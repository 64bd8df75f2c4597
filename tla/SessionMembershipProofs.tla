------------------------ MODULE SessionMembershipProofs ------------------------
(***************************************************************************)
(* Theorems about SessionMembership, for any number of clients, of         *)
(* connections and of players, and queues of any length.                   *)
(*                                                                         *)
(* SInv is inductive.  Its parts beside the properties say which           *)
(* connections the host may still count on: a pass that has begun knows    *)
(* every one of the session that it does not count as valid to have        *)
(* failed, and a player's owner is in the session or valid in this pass.   *)
(***************************************************************************)
EXTENDS SessionMembership, TLAPS, FiniteSetTheorems, SequenceTheorems

-----------------------------------------------------------------------------
(* Queues *)

\* A queue after something was put at its end.
LEMMA Appended ==
  ASSUME NEW S, NEW s \in Seq(S), NEW e \in S
  PROVE  /\ Append(s, e) \in Seq(S) /\ Append(s, e) # <<>>
         /\ Append(s, e)[Len(Append(s, e))] = e
         /\ \A k \in DOMAIN Append(s, e) :
               (k \in DOMAIN s /\ Append(s, e)[k] = s[k]) \/ Append(s, e)[k] = e
<1>1. Append(s, e) \in Seq(S) /\ Append(s, e) # <<>> /\ Len(Append(s, e)) = Len(s) + 1
  BY AppendProperties
<1>2. \A k \in 1 .. Len(s) : Append(s, e)[k] = s[k]
  BY AppendProperties
<1>3. Append(s, e)[Len(s) + 1] = e
  BY AppendProperties
<1>4. Len(s) \in Nat /\ DOMAIN s = 1 .. Len(s) /\ DOMAIN Append(s, e) = 1 .. (Len(s) + 1)
  BY <1>1, LenProperties
<1> QED
  BY <1>1, <1>2, <1>3, <1>4

\* A queue after its first element was taken.
LEMMA Taken ==
  ASSUME NEW S, NEW s \in Seq(S), 0 < Len(s)
  PROVE  s # <<>> /\ Head(s) \in S /\ Tail(s) \in Seq(S) /\ Len(Tail(s)) = Len(s) - 1
<1>1. s # <<>>
  OBVIOUS
<1> QED
  BY <1>1, HeadTailProperties

\* The first n elements of a queue.
LEMMA Prefix ==
  ASSUME NEW S, NEW s \in Seq(S), NEW n \in Nat, n <= Len(s)
  PROVE  SubSeq(s, 1, n) \in Seq(S) /\ Len(SubSeq(s, 1, n)) = n
<1>1. Len(s) \in Nat
  BY LenProperties
<1>2. \A i \in 1 .. n : i \in 1 .. Len(s)
  BY <1>1
<1> QED
  BY <1>1, <1>2, SubSeqProperties

\* What is behind the first n elements of a queue.
LEMMA Suffix ==
  ASSUME NEW S, NEW s \in Seq(S), NEW n \in 0 .. Len(s)
  PROVE  /\ SubSeq(s, n + 1, Len(s)) \in Seq(S)
         /\ Len(SubSeq(s, n + 1, Len(s))) = Len(s) - n
         /\ \A k \in DOMAIN SubSeq(s, n + 1, Len(s)) :
               n + k \in DOMAIN s /\ SubSeq(s, n + 1, Len(s))[k] = s[n + k]
<1>1. Len(s) \in Nat /\ n \in Nat /\ n <= Len(s) /\ n + 1 \in Int /\ DOMAIN s = 1 .. Len(s)
  BY LenProperties
<1>2. \A i \in (n + 1) .. Len(s) : i \in 1 .. Len(s)
  BY <1>1
<1> DEFINE t == SubSeq(s, n + 1, Len(s))
<1>3. /\ t \in Seq(S)
      /\ Len(t) = IF n + 1 <= Len(s) THEN Len(s) - (n + 1) + 1 ELSE 0
      /\ \A i \in 1 .. Len(s) - (n + 1) + 1 : t[i] = s[(n + 1) + i - 1]
  BY <1>1, <1>2, SubSeqProperties
<1> HIDE DEF t
<1>4. Len(t) = Len(s) - n /\ Len(s) - (n + 1) + 1 = Len(s) - n
  <2>1. Len(s) - (n + 1) + 1 = Len(s) - n
    BY <1>1
  <2>2. \A l, k \in Nat : k <= l => k + 1 <= l \/ (l - k = 0 /\ ~ (k + 1 <= l))
    OBVIOUS
  <2>3. Len(t) = IF n + 1 <= Len(s) THEN Len(s) - (n + 1) + 1 ELSE 0
    BY <1>3
  <2>4. n + 1 <= Len(s) \/ (Len(s) - n = 0 /\ ~ (n + 1 <= Len(s)))
    BY <1>1, <2>2
  <2> QED
    BY <2>1, <2>3, <2>4
<1>5. DOMAIN t = 1 .. (Len(s) - n)
  BY <1>3, <1>4, LenProperties
<1>6. ASSUME NEW k \in DOMAIN t PROVE n + k \in DOMAIN s /\ t[k] = s[n + k]
  <2>1. k \in Nat /\ 1 <= k /\ k <= Len(s) - n /\ (n + 1) + k - 1 = n + k
    BY <1>1, <1>5
  <2>2. t[k] = s[(n + 1) + k - 1]
    BY <1>3, <1>4, <1>5
  <2> QED
    BY <1>1, <2>1, <2>2
<1> QED
  BY <1>3, <1>4, <1>6 DEF t

\* Two queues one behind the other.
LEMMA Joined ==
  ASSUME NEW S, NEW s \in Seq(S), NEW t \in Seq(S)
  PROVE  s \o t \in Seq(S) /\ Len(s) <= Len(s \o t)
<1>1. s \o t \in Seq(S) /\ Len(s \o t) = Len(s) + Len(t)
  BY ConcatProperties
<1>2. Len(s) \in Nat /\ Len(t) \in Nat
  BY LenProperties
<1> QED
  BY <1>1, <1>2

-----------------------------------------------------------------------------
(* The invariant *)

\* What a pass has taken is there to be handled, and the connection is valid.
Queued ==
  \A x \in Conns : todo[x] <= Len(up[x]) /\ (todo[x] > 0 => passing /\ x \in valid)

\* A client's connection is open and its own.
Linked ==
  /\ \A c \in Clients : link[c] # NoConn => conn[link[c]] = "open"
  /\ \A c, d \in Clients : link[c] # NoConn /\ link[c] = link[d] => c = d

\* What is in the session has been connected; what a pass does not count as valid
\* any more has failed.
Known ==
  /\ \A x \in all \cup valid : conn[x] # "unused"
  /\ ~passing => valid = {}
  /\ \A x \in doomed : conn[x] = "broken"
  /\ passing => \A x \in all : x \in valid \/ conn[x] \in {"broken", "gone"}

Owned == \A p \in Players : owner[p] \in all \cup valid \cup {Host, NoConn}

SInv == TypeOK /\ Queued /\ Linked /\ Known /\ Owned /\ ListsAreGood /\ LastListIsCurrent

\* The initial states.
LEMMA MembershipStart == Init => SInv
<1> SUFFICES ASSUME Init PROVE SInv
  OBVIOUS
<1>1. <<>> \in Seq(Messages) /\ <<>> \in Seq(Lists) /\ Len(<<>>) = 0 /\ DOMAIN <<>> = {}
  OBVIOUS
<1>2. TypeOK
  BY <1>1 DEF Init, TypeOK, NoMembers, Lists, Owners, NoRequest, Requests
<1>3. Queued /\ Linked /\ Known /\ Owned
  BY <1>1 DEF Init, Queued, Linked, Known, Owned
<1>4. ListsAreGood
  BY <1>1 DEF Init, ListsAreGood
<1>5. LastListIsCurrent
  BY MembershipAssumption DEF Init, LastListIsCurrent
<1> QED
  BY <1>2, <1>3, <1>4, <1>5 DEF SInv

\* A client without a connection is not in the session.
LEMMA NoConnIsNone ==
  ASSUME TypeOK
  PROVE  NoConn \notin Conns /\ NoConn \notin all /\ Host \notin Conns
BY MembershipAssumption DEF TypeOK

\* A process joins.
LEMMA JoinKeeps ==
  ASSUME SInv, NEW c \in Clients, Join(c)
  PROVE  SInv'
<1> USE DEF SInv
<1>1. PICK x \in Conns : /\ conn[x] = "unused"
                         /\ conn' = [conn EXCEPT ![x] = "open"]
                         /\ link' = [link EXCEPT ![c] = x]
  BY DEF Join
<1>2. UNCHANGED <<all, owner, changed, valid, doomed, todo, passing, up, down, members, request>>
      /\ link[c] = NoConn
  BY DEF Join, hostPass
<1>3. TypeOK'
  BY <1>1, <1>2 DEF TypeOK
<1>4. Queued' /\ Owned'
  BY <1>2 DEF Queued, Owned
<1>5. x \notin all /\ x \notin valid /\ \A d \in Clients : link[d] # x
  BY <1>1, NoConnIsNone DEF Known, Linked
<1>6. Linked'
  BY <1>1, <1>2, <1>5, NoConnIsNone DEF Linked, TypeOK
<1>7. Known'
  BY <1>1, <1>2, <1>5 DEF Known, TypeOK
<1>8. ListsAreGood'
  BY <1>2 DEF ListsAreGood, GoodList
<1>9. LastListIsCurrent'
  <2> SUFFICES ASSUME NEW d \in Clients, link'[d] \in all, ~changed
               PROVE  LastList(d)' = List(link[d])'
    BY <1>2 DEF LastListIsCurrent
  <2>1. d # c
    BY <1>1, <1>5 DEF TypeOK
  <2>2. link'[d] = link[d]
    BY <1>1, <2>1 DEF TypeOK
  <2> QED
    BY <1>2, <2>2 DEF LastListIsCurrent, LastList, List
<1> QED
  BY <1>3, <1>4, <1>6, <1>7, <1>8, <1>9

\* A client's end is shut: nobody else's connection, list or request is touched.
LEMMA CloseKeeps ==
  ASSUME SInv, NEW c \in Clients, Close(c),
         members' \in [Clients -> Lists], request' \in [Clients -> [Players -> Requests]],
         \A d \in Clients \ {c} : members'[d] = members[d],
         UNCHANGED <<all, owner, changed, hostPass, up>>
  PROVE  SInv'
<1> USE DEF SInv
<1>0. UNCHANGED <<all, owner, changed, valid, doomed, todo, passing, up>>
  BY DEF hostPass
<1>1. link[c] \in Conns \cup {NoConn} /\ (link[c] # NoConn => conn[link[c]] = "open")
  BY DEF TypeOK, Linked
<1>2. /\ conn' = [x \in Conns |-> IF x = link[c] THEN "left" ELSE conn[x]]
      /\ down' = [x \in Conns |-> IF x = link[c] THEN <<>> ELSE down[x]]
      /\ link' = [link EXCEPT ![c] = NoConn]
  BY DEF Close
<1>3. \A x \in Conns : conn'[x] = conn[x] \/ (conn[x] = "open" /\ conn'[x] = "left")
  BY <1>1, <1>2, NoConnIsNone
<1>4. TypeOK'
  <2>1. <<>> \in Seq(Lists)
    OBVIOUS
  <2>2. conn' \in [Conns -> {"unused", "open", "left", "broken", "gone"}]
        /\ down' \in [Conns -> Seq(Lists)] /\ link' \in [Clients -> Conns \cup {NoConn}]
    BY <1>2, <2>1 DEF TypeOK
  <2> QED
    BY <1>0, <2>2 DEF TypeOK
<1>5. Queued' /\ Owned'
  BY <1>0 DEF Queued, Owned
<1>6. Linked'
  <2>1. \A d \in Clients : link'[d] # NoConn => d # c /\ link'[d] = link[d] /\ link[d] \in Conns
    BY <1>2 DEF TypeOK
  <2>2. \A d \in Clients : link'[d] # NoConn => link[d] # link[c]
    BY <2>1 DEF Linked
  <2>3. \A d \in Clients : link'[d] # NoConn => conn'[link'[d]] = "open"
    BY <1>2, <2>1, <2>2 DEF Linked
  <2>4. \A d, e \in Clients : link'[d] # NoConn /\ link'[d] = link'[e] => d = e
    BY <2>1 DEF Linked
  <2> QED
    BY <2>3, <2>4 DEF Linked
<1>7. Known'
  <2>1. all \subseteq Conns /\ valid \subseteq Conns /\ doomed \subseteq Conns
    BY DEF TypeOK
  <2> QED
    BY <1>0, <1>3, <2>1 DEF Known
<1>8. ListsAreGood'
  <2> SUFFICES ASSUME NEW x \in Conns, NEW k \in DOMAIN down'[x] PROVE GoodList(down'[x][k], x)
    BY DEF ListsAreGood, GoodList
  <2>1. x # link[c]
    BY <1>2
  <2> QED
    BY <1>2, <2>1 DEF ListsAreGood
<1>9. LastListIsCurrent'
  <2> SUFFICES ASSUME NEW d \in Clients, link'[d] \in all, ~changed
               PROVE  LastList(d)' = List(link[d])'
    BY <1>0 DEF LastListIsCurrent
  <2>1. d # c
    BY <1>2, NoConnIsNone DEF TypeOK
  <2>2. link'[d] = link[d] /\ members'[d] = members[d] /\ link[d] \in Conns
    BY <1>2, <2>1 DEF TypeOK
  <2>3. link[d] # link[c]
    BY <2>1, <2>2, NoConnIsNone DEF Linked
  <2>4. down'[link[d]] = down[link[d]]
    BY <1>2, <2>2, <2>3
  <2> QED
    BY <1>0, <2>2, <2>4 DEF LastListIsCurrent, LastList, List
<1> QED
  BY <1>4, <1>5, <1>6, <1>7, <1>8, <1>9

\* A process ends.
LEMMA LeaveKeeps ==
  ASSUME SInv, NEW c \in Clients, Leave(c)
  PROVE  SInv'
<1>1. NoMembers \in Lists /\ NoRequest \in Requests
  BY DEF NoMembers, Lists, Owners, NoRequest, Requests
<1>2. /\ members' = [members EXCEPT ![c] = NoMembers]
      /\ request' = [request EXCEPT ![c] = [p \in Players |-> NoRequest]]
      /\ members \in [Clients -> Lists] /\ request \in [Clients -> [Players -> Requests]]
  BY DEF Leave, SInv, TypeOK
<1>3. /\ members' \in [Clients -> Lists] /\ request' \in [Clients -> [Players -> Requests]]
      /\ \A d \in Clients \ {c} : members'[d] = members[d]
  BY <1>1, <1>2
<1> QED
  BY <1>3, CloseKeeps DEF Leave

\* A client's socket fails.
LEMMA DisconnectKeeps ==
  ASSUME SInv, NEW c \in Clients, Disconnect(c)
  PROVE  SInv'
BY CloseKeeps DEF Disconnect, SInv, TypeOK

\* The host's socket fails.
LEMMA BreakKeeps ==
  ASSUME SInv, NEW x \in Conns, Break(x)
  PROVE  SInv'
<1> USE DEF SInv
<1>0. UNCHANGED <<all, owner, changed, valid, doomed, todo, passing, down, link, members, request>>
  BY DEF Break, hostPass, clientSide
<1>1. SubSeq(up[x], 1, todo[x]) \in Seq(Messages) /\ Len(SubSeq(up[x], 1, todo[x])) = todo[x]
  BY Prefix DEF TypeOK, Queued
<1>2. up' = [up EXCEPT ![x] = SubSeq(up[x], 1, todo[x])] /\ conn[x] = "left"
      /\ conn' = [conn EXCEPT ![x] = "broken"]
  BY DEF Break
<1>3. TypeOK'
  BY <1>0, <1>1, <1>2 DEF TypeOK
<1>4. Queued'
  <2>1. \A y \in Conns : todo[y] <= Len(up'[y])
    <3> SUFFICES ASSUME NEW y \in Conns PROVE todo[y] <= Len(up'[y])
      OBVIOUS
    <3>1. todo[y] \in Nat
      BY DEF TypeOK
    <3>2. CASE y = x
      BY <1>1, <1>2, <3>1, <3>2 DEF TypeOK
    <3>3. CASE y # x
      BY <1>2, <3>3 DEF TypeOK, Queued
    <3> QED
      BY <3>2, <3>3
  <2> QED
    BY <1>0, <2>1 DEF Queued
<1>5. Linked' /\ Known' /\ Owned'
  BY <1>0, <1>2 DEF Linked, Known, Owned, TypeOK
<1>6. ListsAreGood' /\ LastListIsCurrent'
  BY <1>0 DEF ListsAreGood, GoodList, LastListIsCurrent, LastList, List
<1> QED
  BY <1>3, <1>4, <1>5, <1>6

-----------------------------------------------------------------------------
(* The host *)

\* A player of the host's own is claimed or given up.
LEMMA AttemptKeeps ==
  ASSUME SInv, NEW p \in Players, NEW claim \in BOOLEAN, AttemptPlayerChange(p, claim)
  PROVE  SInv'
<1> USE DEF SInv
<1>0. UNCHANGED <<conn, all, valid, doomed, todo, passing, up, down, link, members, request>>
      /\ changed' = TRUE
  BY DEF AttemptPlayerChange, hostPass, clientSide
<1>1. \A q \in Players : owner'[q] \in {owner[q], Host, NoConn}
      /\ owner' \in [Players -> Owners]
  BY DEF AttemptPlayerChange, TryClaimPlayer, TryRelinquishPlayer, TypeOK, Owners
<1>2. TypeOK'
  BY <1>0, <1>1 DEF TypeOK
<1>3. Owned'
  BY <1>0, <1>1 DEF Owned
<1>4. Queued' /\ Linked' /\ Known'
  BY <1>0 DEF Queued, Linked, Known
<1>5. ListsAreGood' /\ LastListIsCurrent'
  BY <1>0 DEF ListsAreGood, GoodList, LastListIsCurrent
<1> QED
  BY <1>2, <1>3, <1>4, <1>5

\* A pass begins.
LEMMA BeginPassKeeps ==
  ASSUME SInv, BeginPass
  PROVE  SInv'
<1> USE DEF SInv
<1>0. UNCHANGED <<conn, all, owner, changed, up, down, link, members, request>>
      /\ ~passing /\ passing' = TRUE
      /\ valid' = {x \in Conns : conn[x] \in {"open", "left"}}
      /\ doomed' = {x \in Conns : conn[x] = "broken"}
      /\ todo' = [x \in Conns |-> IF x \in valid' THEN Len(up[x]) ELSE 0]
  BY DEF BeginPass, clientSide
<1>1. \A x \in Conns : Len(up[x]) \in Nat
  BY LenProperties DEF TypeOK
<1>2. TypeOK'
  BY <1>0, <1>1 DEF TypeOK
<1>3. Queued'
  BY <1>0, <1>1 DEF Queued
<1>4. Known'
  BY <1>0 DEF Known, TypeOK
<1>5. Owned'
  BY <1>0 DEF Owned, Known
<1>6. Linked' /\ ListsAreGood' /\ LastListIsCurrent'
  BY <1>0 DEF Linked, ListsAreGood, GoodList, LastListIsCurrent, LastList, List
<1> QED
  BY <1>2, <1>3, <1>4, <1>5, <1>6

\* One MsgClaimPlayer.
LEMMA HandleMessageKeeps ==
  ASSUME SInv, NEW x \in Conns, HandleMessage(x)
  PROVE  SInv'
<1> USE DEF SInv
<1>0. UNCHANGED <<conn, all, valid, doomed, passing, down, link, members, request>>
      /\ passing /\ todo[x] > 0
      /\ up' = [up EXCEPT ![x] = Tail(up[x])]
      /\ todo' = [todo EXCEPT ![x] = todo[x] - 1]
  BY DEF HandleMessage, clientSide
<1> DEFINE msg == Head(up[x])
<1>1. /\ todo[x] \in Nat /\ Len(up[x]) \in Nat /\ x \in valid
      /\ 0 < Len(up[x])
  BY <1>0, LenProperties DEF TypeOK, Queued
<1>2. msg \in Messages /\ Tail(up[x]) \in Seq(Messages) /\ Len(Tail(up[x])) = Len(up[x]) - 1
  BY <1>1, Taken DEF TypeOK
<1>3. msg.player \in Players /\ msg.claim \in BOOLEAN
  BY <1>2 DEF Messages
<1>4. \/ /\ msg.claim
         /\ owner' = TryClaimPlayer(msg.player, x)
         /\ changed' = (changed \/ ClaimSucceeds(msg.player, x))
      \/ /\ ~msg.claim
         /\ owner' = TryRelinquishPlayer(msg.player, x)
         /\ changed' = TRUE
  BY DEF HandleMessage
<1> HIDE DEF msg
<1>5. /\ owner' \in [Players -> Owners]
      /\ \A q \in Players : owner'[q] \in {owner[q], x, NoConn}
      /\ owner' = owner \/ changed' = TRUE
      /\ changed' \in BOOLEAN
  BY <1>3, <1>4 DEF TryClaimPlayer, TryRelinquishPlayer, ClaimSucceeds, TypeOK, Owners
<1>6. changed => changed'
  BY <1>4
<1>7. TypeOK'
  BY <1>0, <1>1, <1>2, <1>5 DEF TypeOK
<1>8. Queued'
  <2> SUFFICES ASSUME NEW y \in Conns
               PROVE  todo'[y] <= Len(up'[y]) /\ (todo'[y] > 0 => passing /\ y \in valid)
    BY <1>0 DEF Queued
  <2>1. CASE y = x
    <3>1. todo'[x] = todo[x] - 1 /\ Len(up'[x]) = Len(up[x]) - 1
      BY <1>0, <1>2 DEF TypeOK
    <3>2. todo[x] <= Len(up[x])
      BY DEF Queued
    <3> QED
      BY <1>0, <1>1, <2>1, <3>1, <3>2
  <2>2. CASE y # x
    BY <1>0, <2>2 DEF Queued, TypeOK
  <2> QED
    BY <2>1, <2>2
<1>9. Owned'
  BY <1>0, <1>1, <1>5 DEF Owned
<1>10. Linked' /\ Known' /\ ListsAreGood'
  BY <1>0 DEF Linked, Known, ListsAreGood, GoodList
<1>11. LastListIsCurrent'
  <2> SUFFICES ASSUME NEW d \in Clients, link[d] \in all, ~changed'
               PROVE  LastList(d)' = List(link[d])'
    BY <1>0 DEF LastListIsCurrent
  <2>1. owner' = owner /\ ~changed
    BY <1>5, <1>6
  <2> QED
    BY <1>0, <2>1 DEF LastListIsCurrent, LastList, List
<1> QED
  BY <1>7, <1>8, <1>9, <1>10, <1>11

\* The end of a pass: lists go out if anything differs.
LEMMA DoMessageWorkKeeps ==
  ASSUME SInv, DoMessageWork
  PROVE  SInv'
<1> USE DEF SInv
<1>0. /\ UNCHANGED <<todo, up, link, members, request>>
      /\ passing /\ passing' = FALSE /\ valid' = {} /\ doomed' = {} /\ changed' = FALSE
      /\ \A x \in Conns : todo[x] = 0
      /\ all' = valid
      /\ owner' = IF all' # all THEN ReclaimOrphanedPlayerIDs ELSE owner
      /\ conn' = [x \in Conns |-> IF x \in doomed THEN "gone" ELSE conn[x]]
  BY DEF DoMessageWork, clientSide
<1> DEFINE list(x) == [local |-> x, all |-> all', owner |-> owner']
           tell == all' # all \/ changed
<1>1. down' = IF tell
              THEN [x \in Conns |-> IF x \in valid /\ conn[x] = "open"
                                    THEN Append(down[x], list(x))
                                    ELSE down[x]]
              ELSE down
  BY DEF DoMessageWork
<1>2. /\ owner' \in [Players -> Owners]
      /\ \A p \in Players : owner'[p] \in all' \cup {Host, NoConn}
  <2>1. CASE all' # all
    <3>1. owner' = [p \in Players |-> IF owner[p] \in all' \cup {Host} THEN owner[p] ELSE NoConn]
      BY <1>0, <2>1 DEF ReclaimOrphanedPlayerIDs
    <3> QED
      BY <3>1 DEF TypeOK, Owners
  <2>2. CASE all' = all
    BY <1>0, <2>2 DEF TypeOK, Owned
  <2> QED
    BY <2>1, <2>2
<1>3. all' \in SUBSET Conns
  BY <1>0 DEF TypeOK
<1>4. \A x \in Conns : list(x) \in Lists
  BY <1>2, <1>3 DEF Lists, Owners
<1>5. \A x \in Conns : /\ Append(down[x], list(x)) \in Seq(Lists)
                       /\ Append(down[x], list(x)) # <<>>
                       /\ Append(down[x], list(x))[Len(Append(down[x], list(x)))] = list(x)
                       /\ \A k \in DOMAIN Append(down[x], list(x)) :
                             \/ k \in DOMAIN down[x] /\ Append(down[x], list(x))[k] = down[x][k]
                             \/ Append(down[x], list(x))[k] = list(x)
  <2> SUFFICES ASSUME NEW x \in Conns
               PROVE  /\ Append(down[x], list(x)) \in Seq(Lists)
                      /\ Append(down[x], list(x)) # <<>>
                      /\ Append(down[x], list(x))[Len(Append(down[x], list(x)))] = list(x)
                      /\ \A k \in DOMAIN Append(down[x], list(x)) :
                            \/ k \in DOMAIN down[x] /\ Append(down[x], list(x))[k] = down[x][k]
                            \/ Append(down[x], list(x))[k] = list(x)
    OBVIOUS
  <2>1. down[x] \in Seq(Lists) /\ list(x) \in Lists
    BY <1>4 DEF TypeOK
  <2> HIDE DEF list
  <2> QED
    BY <2>1, Appended
<1> HIDE DEF list, tell
<1>6. TypeOK'
  <2>1. down' \in [Conns -> Seq(Lists)]
    BY <1>1, <1>5 DEF TypeOK
  <2>2. conn' \in [Conns -> {"unused", "open", "left", "broken", "gone"}]
    BY <1>0 DEF TypeOK
  <2> QED
    BY <1>0, <1>2, <1>3, <2>1, <2>2 DEF TypeOK
<1>7. Queued'
  <2>1. \A x \in Conns : todo'[x] <= Len(up'[x])
    BY <1>0 DEF Queued
  <2> QED
    BY <1>0, <2>1 DEF Queued
<1>8. Known' /\ Owned'
  BY <1>0, <1>2, <1>3 DEF Known, Owned
<1>9. Linked'
  <2>1. \A c \in Clients : link[c] # NoConn => link[c] \notin doomed
    BY DEF Linked, Known
  <2> QED
    BY <1>0, <2>1 DEF Linked, TypeOK
<1>10. ListsAreGood'
  <2> SUFFICES ASSUME NEW x \in Conns, NEW k \in DOMAIN down'[x]
               PROVE  GoodList(down'[x][k], x)
    BY DEF ListsAreGood, GoodList
  <2>1. CASE k \in DOMAIN down[x] /\ down'[x][k] = down[x][k]
    BY <2>1 DEF ListsAreGood
  <2>2. CASE x \in valid /\ down'[x][k] = list(x)
    BY <1>0, <1>2, <2>2 DEF GoodList, list
  <2> QED
    BY <1>1, <1>5, <2>1, <2>2 DEF TypeOK
<1>11. LastListIsCurrent'
  <2> SUFFICES ASSUME NEW c \in Clients, link[c] \in all'
               PROVE  LastList(c)' = List(link[c])'
    BY <1>0 DEF LastListIsCurrent
  <2>0. link[c] \in Conns /\ link[c] \in valid /\ conn[link[c]] = "open"
    BY <1>0, <1>3, NoConnIsNone DEF Linked
  <2>1. CASE tell
    <3>1. down'[link[c]] = Append(down[link[c]], list(link[c]))
      BY <1>1, <2>0, <2>1
    <3>2. LastList(c)' = list(link[c])
      BY <1>0, <1>5, <2>0, <3>1 DEF LastList
    <3> QED
      BY <1>0, <3>2 DEF list, List
  <2>2. CASE ~tell
    <3>1. all' = all /\ ~changed /\ owner' = owner /\ down' = down
      BY <1>0, <1>1, <2>2 DEF tell
    <3>2. LastList(c) = List(link[c])
      BY <2>0, <3>1, <1>0 DEF LastListIsCurrent
    <3> QED
      BY <1>0, <3>1, <3>2 DEF LastList, List
  <2> QED
    BY <2>1, <2>2
<1> QED
  BY <1>6, <1>7, <1>8, <1>9, <1>10, <1>11

-----------------------------------------------------------------------------
(* The clients *)

\* A client asks for a change.
LEMMA RequestKeeps ==
  ASSUME SInv, NEW c \in Clients, NEW p \in Players, NEW kind \in {"claim", "relinquish"},
         RequestPlayerChange(c, p, kind)
  PROVE  SInv'
<1> USE DEF SInv
<1>0. UNCHANGED <<conn, link, all, owner, changed, valid, doomed, todo, passing, up, down, members>>
      /\ request' = [request EXCEPT ![c][p] = [kind |-> kind, sent |-> FALSE]]
  BY DEF RequestPlayerChange, hostPass
<1>1. TypeOK'
  BY <1>0 DEF TypeOK, Requests
<1>2. Queued' /\ Linked' /\ Known' /\ Owned' /\ ListsAreGood' /\ LastListIsCurrent'
  BY <1>0 DEF Queued, Linked, Known, Owned, ListsAreGood, GoodList, LastListIsCurrent, LastList, List
<1> QED
  BY <1>1, <1>2

\* A client reads n lists and sends what it has to.
LEMMA ClientPassKeeps ==
  ASSUME SInv, NEW c \in Clients, NEW n, NEW again \in SUBSET Players, ClientPass(c, n, again)
  PROVE  SInv'
<1> USE DEF SInv
<1> DEFINE x == link[c]
           m == MembersRead(c, n)
           r == request[c]
           known == m.local # NoConn
           send == {p \in Wanted(m, r) : ~r[p].sent \/ p \in again}
<1>0. /\ UNCHANGED <<conn, link, all, owner, changed, valid, doomed, todo, passing>>
      /\ x # NoConn /\ x \in Conns
      /\ n \in 0 .. Len(down[x])
  BY DEF ClientPass, hostPass, TypeOK
<1>1. PICK msgs \in [1 .. (IF known THEN Cardinality(send) ELSE 0) -> send] :
        up' = [up EXCEPT ![x] = @ \o [i \in DOMAIN msgs |-> IF r[msgs[i]].kind = "claim"
                                                           THEN Claim(msgs[i]) ELSE Relinquish(msgs[i])]]
  BY DEF ClientPass
<1>2. request' = IF known
                 THEN [request EXCEPT ![c] = [p \in Players |->
                           IF Settled(m, p, r[p]) THEN NoRequest
                           ELSE IF p \in send THEN [r[p] EXCEPT !.sent = TRUE]
                           ELSE r[p]]]
                 ELSE request
  BY DEF ClientPass
<1>3. members' = [members EXCEPT ![c] = m] /\ down' = [down EXCEPT ![x] = SubSeq(@, n + 1, Len(@))]
  BY DEF ClientPass
<1>4. down[x] \in Seq(Lists) /\ up[x] \in Seq(Messages) /\ members[c] \in Lists /\ r \in [Players -> Requests]
  BY <1>0 DEF TypeOK
<1>5. m \in Lists
  <2>1. CASE n = 0
    BY <1>4, <2>1 DEF MembersRead
  <2>2. CASE n # 0
    <3>1. n \in DOMAIN down[x]
      BY <1>0, <1>4, <2>2, LenProperties
    <3> QED
      BY <1>4, <2>2, <3>1, ElementOfSeq, LenProperties DEF MembersRead
  <2> QED
    BY <2>1, <2>2
<1>6. send \in SUBSET Players /\ Cardinality(send) \in Nat
  <2>1. send \in SUBSET Players
    BY DEF Wanted
  <2> HIDE DEF send
  <2> QED
    BY <2>1, MembershipAssumption, FS_Subset, FS_CardinalityType
<1> HIDE DEF send, m
<1>7. /\ up' \in [Conns -> Seq(Messages)]
      /\ \A y \in Conns : Len(up[y]) <= Len(up'[y])
  <2> DEFINE k == IF known THEN Cardinality(send) ELSE 0
             q == [i \in DOMAIN msgs |-> IF r[msgs[i]].kind = "claim"
                                         THEN Claim(msgs[i]) ELSE Relinquish(msgs[i])]
  <2>1. k \in Nat /\ DOMAIN msgs = 1 .. k
    BY <1>6
  <2>2. \A i \in 1 .. k : msgs[i] \in Players
    BY <1>6
  <2>3. \A i \in 1 .. k : q[i] \in Messages
    BY <2>1, <2>2 DEF Claim, Relinquish, Messages
  <2>4. q = [i \in 1 .. k |-> q[i]]
    BY <2>1
  <2> HIDE DEF q, k
  <2>5. q \in [1 .. k -> Messages]
    BY <2>3, <2>4
  <2>6. q \in Seq(Messages)
    BY <2>1, <2>5, SeqDef
  <2>7. up' = [up EXCEPT ![x] = up[x] \o q]
    BY <1>1 DEF q
  <2>8. up[x] \o q \in Seq(Messages) /\ Len(up[x]) <= Len(up[x] \o q)
    BY <1>4, <2>6, Joined
  <2>9. \A y \in Conns : Len(up[y]) \in Nat
    BY LenProperties DEF TypeOK
  <2> HIDE DEF x
  <2> QED
    BY <1>0, <2>7, <2>8, <2>9 DEF TypeOK
<1>8. /\ SubSeq(down[x], n + 1, Len(down[x])) \in Seq(Lists)
      /\ Len(SubSeq(down[x], n + 1, Len(down[x]))) = Len(down[x]) - n
      /\ \A k \in DOMAIN SubSeq(down[x], n + 1, Len(down[x])) :
            n + k \in DOMAIN down[x] /\ SubSeq(down[x], n + 1, Len(down[x]))[k] = down[x][n + k]
  BY <1>0, <1>4, Suffix
<1> DEFINE rest == SubSeq(down[x], n + 1, Len(down[x]))
<1> HIDE DEF rest
<1>9. /\ rest \in Seq(Lists) /\ Len(rest) = Len(down[x]) - n
      /\ \A k \in DOMAIN rest : n + k \in DOMAIN down[x] /\ rest[k] = down[x][n + k]
      /\ down' = [down EXCEPT ![x] = rest]
  BY <1>3, <1>8 DEF rest
<1>10. request' \in [Clients -> [Players -> Requests]]
  <2> DEFINE f == [p \in Players |-> IF Settled(m, p, r[p]) THEN NoRequest
                                     ELSE IF p \in send THEN [r[p] EXCEPT !.sent = TRUE]
                                     ELSE r[p]]
  <2>1. \A p \in Players : r[p] \in Requests /\ [r[p] EXCEPT !.sent = TRUE] \in Requests
    BY <1>4 DEF Requests
  <2>2. f \in [Players -> Requests]
    BY <2>1 DEF NoRequest, Requests
  <2>3. request' = IF known THEN [request EXCEPT ![c] = f] ELSE request
    BY <1>2
  <2> HIDE DEF f, known
  <2> QED
    BY <2>2, <2>3 DEF TypeOK
<1>11. TypeOK'
  <2> HIDE DEF x
  <2>1. members' \in [Clients -> Lists] /\ down' \in [Conns -> Seq(Lists)]
    BY <1>3, <1>5, <1>9 DEF TypeOK
  <2> QED
    BY <1>0, <1>7, <1>10, <2>1 DEF TypeOK
<1>12. Queued'
  <2>1. \A y \in Conns : todo[y] \in Nat /\ Len(up[y]) \in Nat /\ Len(up'[y]) \in Nat
    BY <1>7, LenProperties DEF TypeOK
  <2>2. \A y \in Conns : todo[y] <= Len(up[y]) /\ Len(up[y]) <= Len(up'[y])
    BY <1>7 DEF Queued
  <2>3. \A y \in Conns : todo[y] <= Len(up'[y])
    BY <2>1, <2>2
  <2> QED
    BY <1>0, <2>3 DEF Queued
<1>13. Linked' /\ Known' /\ Owned'
  BY <1>0 DEF Linked, Known, Owned
<1>14. ListsAreGood'
  <2> SUFFICES ASSUME NEW y \in Conns, NEW k \in DOMAIN down'[y]
               PROVE  GoodList(down'[y][k], y)
    BY DEF ListsAreGood, GoodList
  <2> HIDE DEF x
  <2>1. CASE y = x
    <3>1. down'[x] = rest
      BY <1>0, <1>9 DEF TypeOK
    <3>2. n + k \in DOMAIN down[x] /\ rest[k] = down[x][n + k]
      BY <1>9, <2>1, <3>1
    <3> QED
      BY <1>0, <2>1, <3>1, <3>2 DEF ListsAreGood
  <2>2. CASE y # x
    <3>1. down'[y] = down[y]
      BY <1>9, <2>2 DEF TypeOK
    <3> QED
      BY <3>1 DEF ListsAreGood
  <2> QED
    BY <2>1, <2>2
<1>15. LastListIsCurrent'
  <2> SUFFICES ASSUME NEW d \in Clients, link[d] \in all, ~changed
               PROVE  LastList(d)' = List(link[d])'
    BY <1>0 DEF LastListIsCurrent
  <2>0. LastList(d) = List(link[d]) /\ List(link[d])' = List(link[d])
    BY <1>0 DEF LastListIsCurrent, List
  <2>1. CASE d = c
    <3>1. down'[x] = rest /\ members'[c] = m
      BY <1>0, <1>3, <1>9 DEF TypeOK
    <3>2. Len(down[x]) \in Nat /\ n \in Nat /\ n <= Len(down[x]) /\ DOMAIN down[x] = 1 .. Len(down[x])
          /\ DOMAIN rest = 1 .. Len(rest)
      BY <1>0, <1>4, <1>9, LenProperties
    <3>3. CASE n = Len(down[x]) /\ n = 0
      <4>1. rest = <<>> /\ down[x] = <<>>
        <5>1. Len(rest) = 0 /\ Len(down[x]) = 0
          BY <1>9, <3>2, <3>3
        <5> QED
          BY <1>4, <1>9, <5>1, EmptySeq
      <4>2. m = members[c]
        BY <3>3 DEF m, MembersRead
      <4> QED
        BY <1>0, <2>0, <2>1, <3>1, <4>1, <4>2 DEF LastList
    <3>4. CASE n = Len(down[x]) /\ n # 0
      <4>1. rest = <<>> /\ down[x] # <<>>
        BY <1>4, <1>9, <3>2, <3>4, EmptySeq
      <4>2. m = down[x][Len(down[x])]
        BY <3>4 DEF m, MembersRead
      <4> QED
        BY <1>0, <2>0, <2>1, <3>1, <4>1, <4>2 DEF LastList
    <3>5. CASE n < Len(down[x])
      <4>1. rest # <<>> /\ down[x] # <<>> /\ Len(rest) \in DOMAIN rest
            /\ n + Len(rest) = Len(down[x])
        BY <1>4, <1>9, <3>2, <3>5, EmptySeq
      <4>2. rest[Len(rest)] = down[x][Len(down[x])]
        BY <1>9, <4>1
      <4> QED
        BY <1>0, <2>0, <2>1, <3>1, <4>1, <4>2 DEF LastList
    <3> QED
      BY <3>2, <3>3, <3>4, <3>5
  <2>2. CASE d # c
    <3>1. link[d] # x /\ link[d] \in Conns
      BY <1>0, <2>2, NoConnIsNone DEF Linked, TypeOK
    <3> HIDE DEF x
    <3>2. down'[link[d]] = down[link[d]] /\ members'[d] = members[d]
      BY <1>3, <1>9, <2>2, <3>1 DEF TypeOK
    <3> QED
      BY <1>0, <2>0, <3>2 DEF LastList
  <2> QED
    BY <2>1, <2>2
<1> QED
  BY <1>11, <1>12, <1>13, <1>14, <1>15

-----------------------------------------------------------------------------
(* The theorems *)

\* Every step keeps the invariant.
LEMMA MembershipStep == SInv /\ [Next]_vars => SInv'
<1> SUFFICES ASSUME SInv, [Next]_vars PROVE SInv'
  OBVIOUS
<1>1. ASSUME NEW c \in Clients, Join(c) PROVE SInv'
  BY <1>1, JoinKeeps
<1>2. ASSUME NEW c \in Clients, Leave(c) PROVE SInv'
  BY <1>2, LeaveKeeps
<1>3. ASSUME NEW c \in Clients, NEW p \in Players, NEW kind \in {"claim", "relinquish"},
             RequestPlayerChange(c, p, kind)
      PROVE  SInv'
  BY <1>3, RequestKeeps
<1>4. ASSUME NEW c \in Clients, NEW n \in 0 .. MaxDown, NEW again \in SUBSET Players,
             ClientPass(c, n, again)
      PROVE  SInv'
  BY <1>4, ClientPassKeeps
<1>5. ASSUME NEW c \in Clients, Disconnect(c) PROVE SInv'
  BY <1>5, DisconnectKeeps
<1>6. ASSUME NEW x \in Conns, Break(x) \/ HandleMessage(x) PROVE SInv'
  BY <1>6, BreakKeeps, HandleMessageKeeps
<1>7. ASSUME NEW p \in Players, NEW claim \in BOOLEAN, AttemptPlayerChange(p, claim) PROVE SInv'
  BY <1>7, AttemptKeeps
<1>8. CASE BeginPass
  BY <1>8, BeginPassKeeps
<1>9. CASE DoMessageWork
  BY <1>9, DoMessageWorkKeeps
<1>10. CASE UNCHANGED vars
  BY <1>10 DEF vars, SInv, TypeOK, Queued, Linked, Known, Owned, ListsAreGood, GoodList,
               LastListIsCurrent, LastList, List
<1> QED
  BY <1>1, <1>2, <1>3, <1>4, <1>5, <1>6, <1>7, <1>8, <1>9, <1>10 DEF Next

\* Every reachable state of a session satisfies the invariant (SessionHostManager,
\* SessionClientManager).
THEOREM MembershipInvariant == Spec => []SInv
<1>1. Init => SInv
  BY MembershipStart
<1>2. SInv /\ [Next]_vars => SInv'
  BY MembershipStep
<1> QED
  BY <1>1, <1>2, PTL DEF Spec

\* The variables have their types.
THEOREM MembershipTypes == Spec => []TypeOK
<1>1. SInv => TypeOK
  BY DEF SInv
<1> QED
  BY <1>1, MembershipInvariant, PTL

\* Between passes the owners of players are in the session (SessionMembers.cpp:76).
THEOREM OwnersBelong == Spec => []OwnersAreMembers
<1>1. SInv => OwnersAreMembers
  BY DEF SInv, Owned, Known, OwnersAreMembers
<1> QED
  BY <1>1, MembershipInvariant, PTL

\* No list under way contradicts itself (CreateSessionListMessage).
THEOREM NoListIsBad == Spec => []ListsAreGood
<1>1. SInv => ListsAreGood
  BY DEF SInv
<1> QED
  BY <1>1, MembershipInvariant, PTL

\* What a client was told last is what the host holds, or it will be told again
\* (SessionHostManager::DoMessageWork).
THEOREM ClientsAreTold == Spec => []LastListIsCurrent
<1>1. SInv => LastListIsCurrent
  BY DEF SInv
<1> QED
  BY <1>1, MembershipInvariant, PTL

\* Only who gives up a player, or has failed, loses it (TryClaimPlayer,
\* TryRelinquishPlayer, ReclaimOrphanedPlayerIDs).
THEOREM NobodyLosesAPlayer == Spec => NobodyIsRobbed
<1> DEFINE Fair(p) ==
        owner'[p] # owner[p] =>
            \/ owner[p] = NoConn
            \/ owner[p] = Host /\ ~passing
            \/ owner[p] \in Conns /\ conn[owner[p]] \in {"broken", "gone"}
            \/ /\ owner[p] \in Conns /\ up[owner[p]] # <<>>
               /\ Head(up[owner[p]]) = Relinquish(p)
               /\ up'[owner[p]] = Tail(up[owner[p]])
<1>1. SInv /\ [Next]_vars => [\A p \in Players : Fair(p)]_vars
  <2> SUFFICES ASSUME SInv, Next, NEW p \in Players PROVE Fair(p)
    BY DEF vars
  <2> USE DEF SInv
  <2>1. ASSUME NEW x \in Conns, HandleMessage(x) PROVE Fair(p)
    <3> DEFINE msg == Head(up[x])
    <3>0. todo[x] \in Nat /\ Len(up[x]) \in Nat /\ 0 < Len(up[x])
      BY <2>1, LenProperties DEF HandleMessage, TypeOK, Queued
    <3>1. up[x] # <<>> /\ msg \in Messages /\ up' = [up EXCEPT ![x] = Tail(up[x])]
      BY <2>1, <3>0, Taken DEF TypeOK, HandleMessage
    <3>2. msg.player \in Players /\ msg.claim \in BOOLEAN
          /\ msg = [player |-> msg.player, claim |-> msg.claim]
      BY <3>1 DEF Messages
    <3>3. \/ msg.claim /\ owner' = TryClaimPlayer(msg.player, x)
          \/ ~msg.claim /\ owner' = TryRelinquishPlayer(msg.player, x)
      BY <2>1 DEF HandleMessage
    <3> HIDE DEF msg
    <3>4. CASE msg.claim /\ owner' = TryClaimPlayer(msg.player, x)
      BY <3>2, <3>4 DEF TryClaimPlayer, TypeOK
    <3>5. CASE ~msg.claim /\ owner' = TryRelinquishPlayer(msg.player, x)
      <4> SUFFICES ASSUME owner'[p] # owner[p] PROVE Fair(p)
        OBVIOUS
      <4>1. p = msg.player /\ owner[p] = x
        BY <3>2, <3>5 DEF TryRelinquishPlayer, TypeOK
      <4>2. msg = Relinquish(p)
        BY <3>2, <3>5, <4>1 DEF Relinquish
      <4>3. up'[x] = Tail(up[x])
        BY <3>1 DEF TypeOK
      <4> QED
        BY <3>1, <4>1, <4>2, <4>3 DEF msg
    <3> QED
      BY <3>3, <3>4, <3>5
  <2>2. CASE DoMessageWork
    <3> SUFFICES ASSUME owner'[p] # owner[p] PROVE Fair(p)
      OBVIOUS
    <3>1. all' = valid /\ owner' = [q \in Players |-> IF owner[q] \in all' \cup {Host} THEN owner[q] ELSE NoConn]
      BY <2>2 DEF DoMessageWork, ReclaimOrphanedPlayerIDs
    <3>2. owner[p] \notin valid /\ owner[p] # Host
      BY <3>1
    <3>3. owner[p] = NoConn \/ owner[p] \in all
      BY <3>2 DEF Owned
    <3>4. passing /\ all \subseteq Conns
      BY <2>2 DEF DoMessageWork, TypeOK
    <3> QED
      BY <3>2, <3>3, <3>4 DEF Known
  <2>3. ASSUME NEW q \in Players, NEW claim \in BOOLEAN, AttemptPlayerChange(q, claim) PROVE Fair(p)
    BY <2>3 DEF AttemptPlayerChange, TryClaimPlayer, TryRelinquishPlayer, TypeOK
  <2>4. ASSUME owner' = owner PROVE Fair(p)
    BY <2>4
  <2>5. ASSUME NEW c \in Clients,
               \/ Join(c) \/ Leave(c) \/ Disconnect(c)
               \/ \E q \in Players : \E kind \in {"claim", "relinquish"} : RequestPlayerChange(c, q, kind)
               \/ \E n \in 0 .. MaxDown : \E again \in SUBSET Players : ClientPass(c, n, again)
        PROVE  owner' = owner
    BY <2>5 DEF Join, Leave, Disconnect, RequestPlayerChange, ClientPass
  <2>6. ASSUME BeginPass \/ \E x \in Conns : Break(x) PROVE owner' = owner
    BY <2>6 DEF BeginPass, Break
  <2> HIDE DEF Fair
  <2> QED
    BY <2>1, <2>2, <2>3, <2>4, <2>5, <2>6 DEF Next
<1> QED
  BY <1>1, MembershipInvariant, PTL DEF Spec, NobodyIsRobbed
=============================================================================
