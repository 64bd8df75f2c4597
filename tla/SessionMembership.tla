--------------------------- MODULE SessionMembership ---------------------------
(***************************************************************************)
(* Who plays which player in a session: sync::SessionHostManager keeps the  *)
(* members and tells the clients, sync::SessionClientManager asks for       *)
(* changes and believes the last list it got.  Connections have completed   *)
(* their handshake here; each is a pair of queues, as TCP delivers.         *)
(*                                                                         *)
(* A pass of the host (SessionManager::ProcessPendingConnectionOperations)  *)
(* settles at its start which connections are valid and takes what they     *)
(* have sent, handles it message by message, does its own work and at last *)
(* destroys what has terminated; connections come and go all the while.     *)
(***************************************************************************)
EXTENDS Integers, FiniteSets, Sequences

CONSTANTS
    Clients,            \* processes that join as clients
    Conns,              \* identifiers the host generates one after the other
    Players,            \* HostSpec::mPermittedPlayerIDs
    Host,               \* mSessionMembers.mLocalConnection of the host
    NoConn,             \* kInvalidConnectionIdentifier
    Cut,                \* bound: clients whose sockets fail while they go on
    MaxUp,              \* bound: messages on their way to the host, per connection
    MaxDown             \* bound: lists on their way to a client

ASSUME MembershipAssumption ==
    /\ IsFiniteSet(Players)
    /\ Conns \subseteq Nat
    /\ Host \notin Conns
    /\ NoConn \notin Conns \cup {Host}
    /\ MaxUp \in Nat \ {0}
    /\ MaxDown \in Nat \ {0}

VARIABLES
    conn,               \* each connection: "unused", "open", "left" as its client's
                        \* socket knows, "broken" as the host's socket knows, or "gone"
    link,               \* each client's connection, unless it has failed
    all,                \* host: mAllConnections, without its own
    owner,              \* host: mPlayerConnections
    changed,            \* host: mLocalPlayerChangesMade
    valid,              \* host: validConnections of the pass
    doomed,             \* host: connectionsToDestroy of the pass
    todo,               \* host: how many messages of each the pass has taken
    passing,            \* host: inside a pass
    up,                 \* MsgClaimPlayer on their way, per connection
    down,               \* MsgSessionList on their way, per connection
    members,            \* each client's mSessionMembers
    request             \* each client's mPlayerChanges

vars == <<conn, link, all, owner, changed, valid, doomed, todo, passing, up, down, members,
          request>>
hostPass == <<valid, doomed, todo, passing>>
clientSide == <<link, members, request>>

Owners == Conns \cup {Host, NoConn}

Claim(p) == [player |-> p, claim |-> TRUE]
Relinquish(p) == [player |-> p, claim |-> FALSE]
Messages == [player : Players, claim : BOOLEAN]

List(x) == [local |-> x, all |-> all, owner |-> owner]
Lists == [local : Owners, all : SUBSET Conns, owner : [Players -> Owners]]

NoMembers == [local |-> NoConn, all |-> {}, owner |-> [p \in Players |-> NoConn]]

\* mSent is reset by a request and set when it is sent
NoRequest == [kind |-> "none", sent |-> FALSE]
Requests == [kind : {"none", "claim", "relinquish"}, sent : BOOLEAN]

Init ==
    /\ conn = [x \in Conns |-> "unused"]
    /\ link = [c \in Clients |-> NoConn]
    /\ all = {}
    /\ owner = [p \in Players |-> NoConn]
    /\ changed = FALSE
    /\ valid = {} /\ doomed = {} /\ todo = [x \in Conns |-> 0] /\ passing = FALSE
    /\ up = [x \in Conns |-> <<>>]
    /\ down = [x \in Conns |-> <<>>]
    /\ members = [c \in Clients |-> NoMembers]
    /\ request = [c \in Clients |-> [p \in Players |-> NoRequest]]

------------------------------------------------------------------------------
(* Connections *)

\* A new process connects, and the host's validator trusts it
Join(c) ==
    /\ link[c] = NoConn /\ members[c].local = NoConn
    /\ \E x \in Conns :
        /\ conn[x] = "unused" /\ \A y \in Conns : conn[y] = "unused" => x <= y
        /\ conn' = [conn EXCEPT ![x] = "open"]
        /\ link' = [link EXCEPT ![c] = x]
    /\ UNCHANGED <<all, owner, changed, hostPass, up, down, members, request>>

\* The client's end is shut; what it has sent may still arrive
Close(c) ==
    /\ conn' = [x \in Conns |-> IF x = link[c] THEN "left" ELSE conn[x]]
    /\ down' = [x \in Conns |-> IF x = link[c] THEN <<>> ELSE down[x]]
    /\ link' = [link EXCEPT ![c] = NoConn]

\* The process ends, by a failed assertion too
Leave(c) ==
    /\ link[c] # NoConn \/ members[c].local # NoConn
    /\ Close(c)
    /\ members' = [members EXCEPT ![c] = NoMembers]
    /\ request' = [request EXCEPT ![c] = [p \in Players |-> NoRequest]]
    /\ UNCHANGED <<all, owner, changed, hostPass, up>>

\* A client's socket fails.  The process goes on with the members and the requests
\* it has, and sends nothing any more; it does not connect again
Disconnect(c) ==
    /\ c \in Cut /\ link[c] # NoConn
    /\ Close(c)
    /\ UNCHANGED <<all, owner, changed, hostPass, up, members, request>>

\* The host's socket fails; what the pass has not taken is lost
Break(x) ==
    /\ conn[x] = "left"
    /\ conn' = [conn EXCEPT ![x] = "broken"]
    /\ up' = [up EXCEPT ![x] = SubSeq(@, 1, todo[x])]
    /\ UNCHANGED <<all, owner, changed, hostPass, down, clientSide>>

------------------------------------------------------------------------------
(* Host *)

TryClaimPlayer(p, x) == IF owner[p] = NoConn THEN [owner EXCEPT ![p] = x] ELSE owner

ClaimSucceeds(p, x) == owner[p] \in {NoConn, x}

\* A mutant of TryRelinquishPlayer that does not ask who owns the player
Unclaim(p, x) == [owner EXCEPT ![p] = NoConn]

TryRelinquishPlayer(p, x) == IF owner[p] = x THEN [owner EXCEPT ![p] = NoConn] ELSE owner

\* A mutant of AttemptPlayerChange that tells the clients nothing
SilentPlayerChange(p, claim) ==
    /\ ~passing
    /\ owner[p] = IF claim THEN NoConn ELSE Host
    /\ owner' = IF claim THEN TryClaimPlayer(p, Host) ELSE TryRelinquishPlayer(p, Host)
    /\ UNCHANGED <<conn, all, changed, hostPass, up, down, clientSide>>

\* What the lobby offers: players that are free, players of one's own
AttemptPlayerChange(p, claim) ==
    /\ ~passing
    /\ owner[p] = IF claim THEN NoConn ELSE Host
    /\ owner' = IF claim THEN TryClaimPlayer(p, Host) ELSE TryRelinquishPlayer(p, Host)
    /\ changed' = TRUE
    /\ UNCHANGED <<conn, all, hostPass, up, down, clientSide>>

BeginPass ==
    /\ ~passing
    /\ passing' = TRUE
    /\ valid' = {x \in Conns : conn[x] \in {"open", "left"}}
    /\ doomed' = {x \in Conns : conn[x] = "broken"}
    /\ todo' = [x \in Conns |-> IF x \in valid' THEN Len(up[x]) ELSE 0]
    /\ UNCHANGED <<conn, all, owner, changed, up, down, clientSide>>

\* A mutant of HandleMessage that only tells the clients of claims
HandleClaims(x) ==
    /\ passing /\ todo[x] > 0
    /\ LET msg == Head(up[x]) IN
        IF msg.claim
        THEN /\ owner' = TryClaimPlayer(msg.player, x)
             /\ changed' = (changed \/ ClaimSucceeds(msg.player, x))
        ELSE /\ owner' = TryRelinquishPlayer(msg.player, x)
             /\ changed' = changed
    /\ up' = [up EXCEPT ![x] = Tail(@)]
    /\ todo' = [todo EXCEPT ![x] = @ - 1]
    /\ UNCHANGED <<conn, all, valid, doomed, passing, down, clientSide>>

\* MsgClaimPlayer; connections are visited in any order, each one's in its order
HandleMessage(x) ==
    /\ passing /\ todo[x] > 0
    /\ LET msg == Head(up[x]) IN
        IF msg.claim
        THEN /\ owner' = TryClaimPlayer(msg.player, x)
             /\ changed' = (changed \/ ClaimSucceeds(msg.player, x))
        ELSE /\ owner' = TryRelinquishPlayer(msg.player, x)
             /\ changed' = TRUE
    /\ up' = [up EXCEPT ![x] = Tail(@)]
    /\ todo' = [todo EXCEPT ![x] = @ - 1]
    /\ UNCHANGED <<conn, all, valid, doomed, passing, down, clientSide>>

ReclaimOrphanedPlayerIDs ==
    [p \in Players |-> IF owner[p] \in all' \cup {Host} THEN owner[p] ELSE NoConn]

\* A mutant of DoMessageWork that writes the list before it takes players back
ListBeforeReclaim ==
    /\ passing /\ \A x \in Conns : todo[x] = 0
    /\ \A x \in valid : Len(down[x]) < MaxDown
    /\ all' = valid
    /\ owner' = IF all' # all THEN ReclaimOrphanedPlayerIDs ELSE owner
    /\ changed' = FALSE
    /\ down' = IF all' # all \/ changed
               THEN [x \in Conns |-> IF x \in valid /\ conn[x] = "open"
                                     THEN Append(down[x], [local |-> x, all |-> all', owner |-> owner])
                                     ELSE down[x]]
               ELSE down
    /\ conn' = [x \in Conns |-> IF x \in doomed THEN "gone" ELSE conn[x]]
    /\ passing' = FALSE
    /\ valid' = {} /\ doomed' = {}
    /\ UNCHANGED <<todo, up, clientSide>>

\* DoMessageWork, the transmissions it causes and the end of the pass
DoMessageWork ==
    /\ passing /\ \A x \in Conns : todo[x] = 0
    /\ \A x \in valid : Len(down[x]) < MaxDown
    /\ all' = valid
    /\ owner' = IF all' # all THEN ReclaimOrphanedPlayerIDs ELSE owner
    /\ changed' = FALSE
    /\ down' = IF all' # all \/ changed
               THEN [x \in Conns |-> IF x \in valid /\ conn[x] = "open"
                                     THEN Append(down[x], [local |-> x, all |-> all', owner |-> owner'])
                                     ELSE down[x]]
               ELSE down
    /\ conn' = [x \in Conns |-> IF x \in doomed THEN "gone" ELSE conn[x]]
    /\ passing' = FALSE
    /\ valid' = {} /\ doomed' = {}
    /\ UNCHANGED <<todo, up, clientSide>>

------------------------------------------------------------------------------
(* Clients *)

\* What a client has still to send
Unsent(c) == {p \in Players : request[c][p].kind # "none" /\ ~request[c][p].sent}

\* What the lobby offers, by what the client believes
RequestPlayerChange(c, p, kind) ==
    /\ members[c].local # NoConn
    /\ members[c].owner[p] = IF kind = "claim" THEN NoConn ELSE members[c].local
    /\ link[c] # NoConn => Len(up[link[c]]) + Cardinality(Unsent(c) \cup {p}) <= MaxUp
    /\ request' = [request EXCEPT ![c][p] = [kind |-> kind, sent |-> FALSE]]
    /\ UNCHANGED <<conn, link, all, owner, changed, hostPass, up, down, members>>

\* The members after reading the first n lists
MembersRead(c, n) == IF n = 0 THEN members[c] ELSE down[link[c]][n]

Settled(m, p, r) ==
    \/ r.kind = "claim" /\ m.owner[p] = m.local
    \/ r.kind = "relinquish" /\ m.owner[p] = NoConn

\* Requests that are neither settled nor have to wait for the player to be free
Wanted(m, r) ==
    {p \in Players : /\ r[p].kind # "none" /\ ~Settled(m, p, r[p])
                     /\ r[p].kind = "claim" => m.owner[p] = NoConn}

\* A client's pass: read n lists, and send again what was sent a while ago if it
\* is in "again".  A player to be given up that is another's by its list fails an
\* assertion; if that does not stop the process, it is asked for all the same
ClientPass(c, n, again) ==
    LET m == MembersRead(c, n)
        r == request[c]
        known == m.local # NoConn
        send == {p \in Wanted(m, r) : ~r[p].sent \/ p \in again}
    IN  /\ link[c] # NoConn
        /\ n \in 0 .. Len(down[link[c]])
        /\ \A p \in again : r[p].sent
        /\ Len(up[link[c]]) + Cardinality(Unsent(c) \cup again) <= MaxUp
        /\ \E msgs \in [1 .. (IF known THEN Cardinality(send) ELSE 0) -> send] :
            /\ \A i, j \in DOMAIN msgs : msgs[i] = msgs[j] => i = j
            /\ up' = [up EXCEPT ![link[c]] =
                        @ \o [i \in DOMAIN msgs |-> IF r[msgs[i]].kind = "claim"
                                                    THEN Claim(msgs[i]) ELSE Relinquish(msgs[i])]]
        /\ request' = IF known
                      THEN [request EXCEPT ![c] = [p \in Players |->
                                IF Settled(m, p, r[p]) THEN NoRequest
                                ELSE IF p \in send THEN [r[p] EXCEPT !.sent = TRUE]
                                ELSE r[p]]]
                      ELSE request
        /\ members' = [members EXCEPT ![c] = m]
        /\ down' = [down EXCEPT ![link[c]] = SubSeq(@, n + 1, Len(@))]
        /\ UNCHANGED <<conn, link, all, owner, changed, hostPass>>

------------------------------------------------------------------------------
Next ==
    \/ \E c \in Clients :
        \/ Join(c)
        \/ Leave(c)
        \/ Disconnect(c)
        \/ \E p \in Players : \E kind \in {"claim", "relinquish"} : RequestPlayerChange(c, p, kind)
        \/ \E n \in 0 .. MaxDown : \E again \in SUBSET Players : ClientPass(c, n, again)
    \/ \E x \in Conns : Break(x) \/ HandleMessage(x)
    \/ \E p \in Players : \E claim \in BOOLEAN : AttemptPlayerChange(p, claim)
    \/ BeginPass
    \/ DoMessageWork

\* A frame of the host is one pass from its beginning to its end
HostGoesOn == BeginPass \/ (\E x \in Conns : HandleMessage(x)) \/ DoMessageWork

\* A client that reads all there is, and repeats no request
ClientCatchesUp(c) == link[c] # NoConn /\ ClientPass(c, Len(down[link[c]]), {})

\* When each of these can change something
HostCanGoOn ==
    passing => \/ \E x \in Conns : todo[x] > 0
               \/ \A x \in valid : Len(down[x]) < MaxDown

ClientCanCatchUp(c) ==
    /\ link[c] # NoConn
    /\ Len(up[link[c]]) + Cardinality(Unsent(c)) <= MaxUp
    /\ \/ down[link[c]] # <<>>
       \/ /\ members[c].local # NoConn
          /\ \E p \in Players :
                \/ Settled(members[c], p, request[c][p])
                \/ p \in Unsent(c) \cap Wanted(members[c], request[c])

\* Host and clients go on with their frames, what was sent arrives, and the host
\* learns in the end that a client is gone.  (This is weak fairness of the three,
\* with the states in which they are enabled named.)
Fairness ==
    /\ []<>~HostCanGoOn \/ []<><<HostGoesOn>>_vars
    /\ []<>(\A x \in Conns : conn[x] # "left") \/ []<><<\E x \in Conns : Break(x)>>_vars
    /\ \A c \in Clients : []<>~ClientCanCatchUp(c) \/ []<><<ClientCatchesUp(c)>>_vars

Spec == Init /\ [][Next]_vars

FairSpec == Spec /\ Fairness

------------------------------------------------------------------------------
(* Properties *)

TypeOK ==
    /\ conn \in [Conns -> {"unused", "open", "left", "broken", "gone"}]
    /\ link \in [Clients -> Conns \cup {NoConn}]
    /\ all \in SUBSET Conns /\ valid \in SUBSET Conns /\ doomed \in SUBSET Conns
    /\ owner \in [Players -> Owners]
    /\ changed \in BOOLEAN /\ passing \in BOOLEAN
    /\ todo \in [Conns -> Nat]
    /\ up \in [Conns -> Seq(Messages)]
    /\ down \in [Conns -> Seq(Lists)]
    /\ members \in [Clients -> Lists]
    /\ request \in [Clients -> [Players -> Requests]]

(* Between two passes every player is unclaimed or belongs to a connection of  *)
(* the session, as GetConnectionPlayerIDs asserts (SessionMembers.cpp:76).     *)
OwnersAreMembers ==
    ~passing => \A p \in Players : owner[p] \in all \cup {Host, NoConn}

(* A list, wherever it is, names only connections it also lists as owners, and *)
(* its receiver among them (the tests of CreateSessionListMessage and          *)
(* ReadSessionListMessage).                                                    *)
GoodList(m, x) ==
    m.local = x /\ x \in m.all /\ \A p \in Players : m.owner[p] \in m.all \cup {Host, NoConn}

ListsAreGood ==
    \A x \in Conns : \A k \in DOMAIN down[x] : GoodList(down[x][k], x)

(* The last list sent to a client is what the host holds, or the next pass     *)
(* sends another: no change is ever forgotten, whoever made it and whenever    *)
(* (mLocalPlayerChangesMade, the comparison of mAllConnections).               *)
LastList(c) ==
    IF down[link[c]] = <<>> THEN members[c] ELSE down[link[c]][Len(down[link[c]])]

LastListIsCurrent ==
    \A c \in Clients :
        (link[c] \in all /\ ~changed) => LastList(c) = List(link[c])

(* A player is taken from a connection only at its own request, or when the    *)
(* connection has failed (TryClaimPlayer, ReclaimOrphanedPlayerIDs).           *)
NobodyIsRobbed ==
    [][\A p \in Players :
        owner'[p] # owner[p] =>
            \/ owner[p] = NoConn
            \/ owner[p] = Host /\ ~passing
            \/ owner[p] \in Conns /\ conn[owner[p]] \in {"broken", "gone"}
            \/ /\ owner[p] \in Conns /\ up[owner[p]] # <<>>
               /\ Head(up[owner[p]]) = Relinquish(p)
               /\ up'[owner[p]] = Tail(up[owner[p]])]_vars

GivesUp(x, p) == \E c \in Clients : link[c] = x /\ request[c][p].kind = "relinquish"

Holds(x, p) == owner[p] = x \/ \E c \in Clients : link[c] = x /\ members[c].owner[p] = x

(* What a client asks to give up it loses at the host, and it learns that it   *)
(* has, or hears from the host no more: whether its request arrives, or its    *)
(* connection fails before that and the host takes the player back             *)
(* (RequestPlayerChange, TryRelinquishPlayer, ReclaimOrphanedPlayerIDs).       *)
RelinquishTakesEffect ==
    \A x \in Conns : \A p \in Players : GivesUp(x, p) ~> ~Holds(x, p)

------------------------------------------------------------------------------
(* What an assertion says and the code does not keep.  No run checks it;       *)
(* section 6 of the README tells what happens.                                 *)

(* A client never asks to give up a player that is another's by its own list   *)
(* (the assertion of SessionClientManager.cpp:575).                            *)
RelinquishOnlyOwn ==
    \A c \in Clients : \A p \in Players :
        request[c][p].kind = "relinquish" => members[c].owner[p] = members[c].local

================================================================================
