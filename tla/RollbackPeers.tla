---------------------------- MODULE RollbackPeers ----------------------------
(***************************************************************************)
(* Peers that play one game over a network: each runs its own frame loop   *)
(* (ProcessFrame of apps/cc3o3/cc3o3.cpp), keeps a committed and an        *)
(* uncommitted input stream for every player (libs/Rollback), sends the    *)
(* uncommitted commands of its own players to the others and merges theirs *)
(* (libs/GameSync), rolls back and simulates again when late commands      *)
(* arrive, and stalls when it is too far ahead of what is committed.       *)
(*                                                                         *)
(* Time is counted in frames.  A behaviour starts right after the time     *)
(* reset with which a session begins.  A frame is one step: it reads what  *)
(* other threads write at one place only, the queue of received packs,     *)
(* and the step chooses how many packs have arrived by then.               *)
(***************************************************************************)
EXTENDS Integers, FiniteSets, InputStream

CONSTANTS
  Peers,        \* processes in the session, the host and its clients
  Players,      \* input streams
  Owner,        \* the peer at which a player sits
  Inputs,       \* commands a player can give
  MaxChanges,   \* changes the rollback window keeps (kMaxChangesInWindow)
  PressAgain,   \* whether commands may be added to a stalled frame that has some
  MaxFrame,     \* bound: the last frame
  MaxPerFrame,  \* bound: commands of a player in one frame
  MaxCommands   \* bound: commands of each player

ASSUME ConstantsAssumption ==
  /\ IsFiniteSet(Players) /\ Players # {}
  /\ Owner \in [Players -> Peers]
  /\ MaxChanges \in Nat /\ MaxChanges > 3
  /\ PressAgain \in BOOLEAN
  /\ MaxFrame \in Nat /\ MaxPerFrame \in Nat /\ MaxCommands \in [Players -> Nat]

(***************************************************************************)
(* Mutations: what a plausible mistake would make of a definition.  Each   *)
(* stands before the definition it would replace and is used by no other.  *)
(***************************************************************************)

\* One frame more, as though the window kept what the current frame drops.
OneFrameMore == MaxChanges - 2

\* How far a peer may run ahead of what is committed before it stalls.
kMaxRollbackFrames == MaxChanges - 3

SimulationModes == {"Invalid", "SingleFrameSimulate", "RollbackAndSimulate",
                    "StallSimulation", "OnRailsReplay"}

VARIABLES
  frame,   \* FrameClock::now() at the start of the next frame
  com,     \* committed streams
  unc,     \* uncommitted streams
  mode,    \* sDebugPreviousFrameSimulationMode
  sim,     \* history: the commands a frame was last simulated with
  window,  \* times of the kept changes of one variable of the game's state
  packs,   \* packs[p][d]: sent by p to d and not yet merged there, oldest first
  failed   \* a FATAL test or an assertion did not hold

vars == <<frame, com, unc, mode, sim, window, packs, failed>>

Local(p) == {q \in Players : Owner[q] = p}

NoCommands == [q \in Players |-> <<>>]

Init ==
  /\ frame = [p \in Peers |-> 1]
  /\ com = [p \in Peers |-> [q \in Players |-> EmptyStream(0)]]
  /\ unc = [p \in Peers |-> [q \in Players |-> EmptyStream(0)]]
  /\ mode = [p \in Peers |-> "Invalid"]
  /\ sim = [p \in Peers |-> [f \in 0 .. MaxFrame |-> NoCommands]]
  /\ window = [p \in Peers |-> {0}]
  /\ packs = [p \in Peers |-> [d \in Peers |-> <<>>]]
  /\ failed = [p \in Peers |-> FALSE]

-----------------------------------------------------------------------------

(***************************************************************************)
(* The streams of one peer while a frame is computed: [com, unc, ok],      *)
(* where ok says that every test on the way has held.                      *)
(***************************************************************************)

\* All committed streams share one head.
GetMaxCommitHead(s) == s.com[CHOOSE q \in Players : TRUE].head
InSync(s) == \A q \in Players : s.com[q].head = GetMaxCommitHead(s)

MinUncommitHead(s) == CHOOSE h \in {s.unc[q].head : q \in Players} :
                        \A q \in Players : h <= s.unc[q].head

\* GetFramesReadyToCommit returns <<GetMaxCommitHead, MinUncommitHead>>, and
\* fails if commands lie at or behind the commit head.
CanGetFramesReady(s) ==
  /\ InSync(s)
  /\ \A q \in Players :
       /\ s.unc[q].head >= GetMaxCommitHead(s)
       /\ s.unc[q].head = GetMaxCommitHead(s) => ~HasDataAtHead(s.unc[q])

\* Moves the commands of the frames first .. last to the committed streams.
CommitFrames(s, first, last) ==
  LET Moved(q) == UpTo(From(s.unc[q].events, first), last)
  IN  [com |-> [q \in Players |->
                  [events |-> s.com[q].events \o Moved(q), head |-> last]],
       unc |-> [q \in Players |-> DiscardOldEvents(s.unc[q], last)],
       ok  |-> /\ s.ok
               /\ first <= last
               /\ \A q \in Players :
                    /\ FrontTime(s.unc[q]) >= first \/ s.unc[q].events = <<>>
                    /\ Moved(q) # <<>> => CanWrite(s.com[q], Moved(q)[1].time)
                    /\ CanWrite(s.com[q], last)]

\* Moves the heads of the streams that a peer's own players write.
AdvanceLocalControllers(s, p, lockedFrame, newWriteHead) ==
  [s EXCEPT !.unc = [q \in Players |->
                       IF q \in Local(p)
                         THEN IncreaseReadHead(IncreaseWriteHead(@[q], newWriteHead),
                                               lockedFrame)
                         ELSE @[q]],
            !.ok = /\ @
                   /\ \A q \in Local(p) : CanWrite(s.unc[q], newWriteHead)
                   /\ Local(p) # {} => lockedFrame <= newWriteHead]

\* Writes what the peer's players have pressed into the current frame.
TickLocalControllers(s, p, now, pressed) ==
  LET Pressed(q) == [i \in 1 .. Len(pressed[q]) |-> Event(now, pressed[q][i])]
  IN  [s EXCEPT !.unc = [q \in Players |->
                           IF q \in Local(p) /\ pressed[q] # <<>>
                             THEN [events |-> @[q].events \o Pressed(q), head |-> now]
                             ELSE @[q]],
                !.ok = @ /\ \A q \in Local(p) : CanWrite(s.unc[q], now)]

\* What a frame of the game sees: GetGameCommandStream of a player's
\* controller, restricted to the frame.
CommandsAt(s, f) == [q \in Players |-> At(s.com[q].events \o s.unc[q].events, f)]

\* A pack that closes one frame too many, or too few.
PackAhead(s, p, frameReadyToCommit) ==
  [frameReadyToCommit |-> frameReadyToCommit + 1,
   streams |-> [q \in Local(p) |-> s.unc[q].events]]
PackBehind(s, p, frameReadyToCommit) ==
  [frameReadyToCommit |-> frameReadyToCommit - 1,
   streams |-> [q \in Local(p) |-> s.unc[q].events]]

\* What is sent to the other peers.
PreparePackForSend(s, p, frameReadyToCommit) ==
  [frameReadyToCommit |-> frameReadyToCommit,
   streams |-> [q \in Local(p) |-> s.unc[q].events]]

\* Advances the head of a remote player's stream, unless that is in the past.
CanPrepareRemoteFrame(committed, uncommitted, time) ==
  CanWrite(uncommitted, time) /\ CanWrite(committed, time)

\* The events, ordered by time, for which that succeeds.
Preparable(committed, uncommitted, events) ==
  From(From(events, uncommitted.head), committed.head)

\* Merges what a pack holds of one stream: the events that follow the overlap,
\* then the head, which may be later than the last event.
MergeStream(committed, uncommitted, events, frameReadyToCommit) ==
  LET over == Overlap(committed, uncommitted, events)
      written == Preparable(committed, uncommitted,
                            SubSeq(events, over.count + 1, Len(events)))
      merged == IF written = <<>> THEN uncommitted
                ELSE [events |-> uncommitted.events \o written, head |-> Last(written).time]
      tryCommitPastInput == events = <<>> \/ frameReadyToCommit >= Last(events).time
      valid == CanPrepareRemoteFrame(committed, merged, frameReadyToCommit)
  IN  [unc |-> IF tryCommitPastInput /\ valid
                 THEN IncreaseWriteHead(merged, frameReadyToCommit) ELSE merged,
       ok |-> /\ events # <<>> => committed.head <= FrontTime(uncommitted) /\ over.found
              /\ tryCommitPastInput => valid]

\* Merges a pack, stream by stream.
ApplyPackFromRemote(s, pack) ==
  LET streams == DOMAIN pack.streams
      merged == [q \in streams |-> MergeStream(s.com[q], s.unc[q], pack.streams[q],
                                               pack.frameReadyToCommit)]
  IN  [s EXCEPT !.unc = [q \in Players |-> IF q \in streams THEN merged[q].unc ELSE @[q]],
                !.ok = @ /\ \A q \in streams : merged[q].ok]

\* Merges the first n packs of a queue.
ApplyPacks(s, queue, n) ==
  LET merged[i \in 0 .. n] ==
        IF i = 0 THEN s ELSE ApplyPackFromRemote(merged[i - 1], queue[i])
  IN  merged[n]

-----------------------------------------------------------------------------

(***************************************************************************)
(* The rollback window of one variable (StateStream): the times of its     *)
(* last changes.  The variable exists since the time reset and gets        *)
(* another value in every frame, which drops old changes fastest: a write  *)
(* that changes nothing is not kept and drops nothing.                     *)
(***************************************************************************)

KeepNewest(times) == {t \in times : Cardinality({u \in times : u > t}) < MaxChanges}

\* Before the re-simulation of a frame, everything since its start is undone.
\* Frame 0 cannot be undone, only written again.
RewindBefore(times, f) == {t \in times : t < f \/ t = 0}

-----------------------------------------------------------------------------

(***************************************************************************)
(* ProcessFrame                                                            *)
(***************************************************************************)

\* A peer that does not wait for the rest of a stalled frame.
CommitCurrentFrame(s, now) ==
  IF GetMaxCommitHead(s) >= now THEN GetMaxCommitHead(s) ELSE MinUncommitHead(s)

\* The last frame to commit before the current one is simulated.  The current
\* frame, ready after a stall, waits for what is still added to it.
LastToCommit(s, now) ==
  IF GetMaxCommitHead(s) >= now THEN GetMaxCommitHead(s)
  ELSE IF MinUncommitHead(s) = now THEN now - 1 ELSE MinUncommitHead(s)

\* A peer that trusts its predictions, and one that never stalls.
TrustPredictions(s, now) ==
  LET head == GetMaxCommitHead(s)
  IN  CASE head >= now -> "OnRailsReplay"
        [] head < now /\ now - 1 - head < kMaxRollbackFrames -> "SingleFrameSimulate"
        [] head < now /\ now - 1 - head >= kMaxRollbackFrames -> "StallSimulation"
NeverStall(s, now) ==
  CASE GetMaxCommitHead(s) >= now -> "OnRailsReplay"
    [] GetMaxCommitHead(s) < now /\ LastToCommit(s, now) > GetMaxCommitHead(s) ->
         "RollbackAndSimulate"
    [] OTHER -> "SingleFrameSimulate"

SimulationMode(s, now) ==
  LET head == GetMaxCommitHead(s)
      ready == LastToCommit(s, now)
  IN  CASE head >= now -> "OnRailsReplay"
        [] head < now /\ ready > head -> "RollbackAndSimulate"
        [] head < now /\ ready <= head ->
             IF head = now - 1 \/ now - 1 - head < kMaxRollbackFrames
               THEN "SingleFrameSimulate" ELSE "StallSimulation"

\* What is tested before the commit.
CanChooseMode(s, now, previous) ==
  GetMaxCommitHead(s) < now =>
    /\ CanGetFramesReady(s)
    /\ MinUncommitHead(s) <= now
    /\ MinUncommitHead(s) = now => previous = "StallSimulation"

\* A rewind must leave the variable a change to go back to.
CanRewind(times, first) == \E t \in times : t < first \/ t = 0

\* A sender that stalls repeats itself: a pack equal to the last one on its way
\* is not added again, since merging it twice changes nothing.
Enqueue(queue, pack) ==
  IF queue # <<>> /\ Last(queue) = pack THEN queue ELSE Append(queue, pack)

\* What the peer's players press while the frame runs.
Presses(p) == [Local(p) -> UNION {[1 .. n -> Inputs] : n \in 0 .. MaxPerFrame}]

MayPress(s, p, now, pressed) ==
  \A q \in Local(p) : pressed[q] # <<>> =>
    LET given == s.com[q].events \o s.unc[q].events
    IN  /\ Len(given) + Len(pressed[q]) <= MaxCommands[q]
        /\ IF At(given, now) = <<>> THEN TRUE
           ELSE PressAgain /\ Len(At(given, now)) + Len(pressed[q]) <= MaxPerFrame

\* Unless it replays, a peer moves the heads of its players' streams.
AdvanceUnless(replay, s, p, locked) ==
  IF replay THEN s ELSE AdvanceLocalControllers(s, p, locked, frame[p])

\* The streams when the current frame is about to be simulated.
BeforeFrame(p, start, replay, last) ==
  AdvanceUnless(replay,
                CommitFrames([start EXCEPT !.ok = CanChooseMode(start, frame[p], mode[p])],
                             GetMaxCommitHead(start), last),
                p, last + 1)

\* Merges what has arrived.  The packs of different peers hold different
\* streams, so each peer's can be merged on their own.
Receive(p, s, arrived) ==
  LET merged == [src \in Peers |-> ApplyPacks(s, packs[src][p], arrived[src])]
  IN  [s EXCEPT !.unc = [q \in Players |-> merged[Owner[q]].unc[q]],
                !.ok = @ /\ \A src \in Peers : merged[src].ok]

\* The commit after the frame, and what has arrived.
AfterFrame(p, s, replay, arrived) ==
  LET ready == MinUncommitHead(s)
      committed == CommitFrames([s EXCEPT !.ok = @ /\ CanGetFramesReady(s)],
                                GetMaxCommitHead(s), ready)
      settled == AdvanceUnless(replay, committed, p, ready)
  IN  IF replay THEN settled ELSE Receive(p, settled, arrived)

\* The changes the variable has after the frames have been simulated.
Simulated(p, resimulated, first) ==
  KeepNewest({frame[p]} \cup resimulated \cup
             (IF resimulated = {} THEN window[p] ELSE RewindBefore(window[p], first)))

\* The packs that are still on their way: one is sent, some have been merged.
Exchange(p, pack, arrived) ==
  [src \in Peers |-> [dst \in Peers |->
     CASE src = p /\ dst # p -> Enqueue(packs[src][dst], pack)
       [] src # p /\ dst = p ->
            SubSeq(packs[src][dst], arrived[src] + 1, Len(packs[src][dst]))
       [] OTHER -> packs[src][dst]]]

\* One frame of one peer.  (A bound variable that ranges over one value stands
\* for a local one.)
ProcessFrame(p, arrivals) ==
  LET now == frame[p]
      start == [com |-> com[p], unc |-> unc[p], ok |-> TRUE]
      simulation == SimulationMode(start, now)
      replay == simulation = "OnRailsReplay"
      stall == simulation = "StallSimulation"
      first == GetMaxCommitHead(start)
      last == LastToCommit(start, now)
      resimulated == IF simulation = "RollbackAndSimulate" THEN first .. now - 1 ELSE {}
      simulated == Simulated(p, resimulated, first)
      Ticked(s, pressed) == IF replay THEN s ELSE TickLocalControllers(s, p, now, pressed)
  IN  /\ ~failed[p] /\ now <= MaxFrame
      /\ frame' = [frame EXCEPT ![p] = IF stall THEN now ELSE now + 1]
      /\ mode' = [mode EXCEPT ![p] = simulation]
      /\ window' = [window EXCEPT ![p] =
                      IF stall THEN RewindBefore(simulated, now) ELSE simulated]
      /\ \E ready \in {BeforeFrame(p, start, replay, last)}, pressed \in Presses(p) :
         /\ MayPress(ready, p, now, pressed)
         /\ \E ticked \in {Ticked(ready, pressed)} :
            \E advanced \in {AdvanceUnless(replay, ticked, p, last + 1)} :
            \E arrived \in arrivals :
            \E received \in {AfterFrame(p, advanced, replay, arrived)} :
              /\ com' = [com EXCEPT ![p] = received.com]
              /\ unc' = [unc EXCEPT ![p] = received.unc]
              /\ sim' = [sim EXCEPT ![p] =
                           [f \in 0 .. MaxFrame |->
                              CASE f = now -> CommandsAt(ticked, f)
                                [] f \in resimulated -> CommandsAt(ready, f)
                                [] OTHER -> @[f]]]
              /\ packs' = IF replay THEN packs
                          ELSE Exchange(p, PreparePackForSend(advanced, p,
                                             IF stall THEN now - 1 ELSE now), arrived)
              /\ failed' = [failed EXCEPT ![p] =
                              \/ ~received.ok
                              \/ resimulated # {} /\ ~CanRewind(window[p], first)]

\* How many packs of each peer have arrived when a frame reads the queue.
Arrivals(p) ==
  LET most == [src \in Peers |-> Len(packs[src][p])]
  IN  {a \in [Peers -> 0 .. Max(Range(most))] : \A src \in Peers : a[src] <= most[src]}

Frame(p) == ProcessFrame(p, Arrivals(p))

\* A frame that finds everything that was sent to the peer.
FrameCaughtUp(p) == ProcessFrame(p, {[src \in Peers |-> Len(packs[src][p])]})

\* All peers have come to the bound.
Finished == (\A p \in Peers : frame[p] > MaxFrame) /\ UNCHANGED vars

Next == (\E p \in Peers : Frame(p)) \/ Finished

\* A stalled peer that can only repeat itself: its frames change nothing.
Waits(p) ==
  /\ mode[p] = "StallSimulation"
  /\ SimulationMode([com |-> com[p], unc |-> unc[p]], frame[p]) = "StallSimulation"
  /\ \A d \in Peers \ {p} : packs[d][p] = <<>> /\ packs[p][d] # <<>>

\* Every process keeps running frames, and the connections (TCP) deliver what
\* was sent: a peer that is ahead stalls and then only repeats itself, so that
\* in the end a frame of the other has everything.  (This is weak fairness of
\* FrameCaughtUp, with the states in which it changes nothing named.)
Fairness ==
  \A p \in Peers :
    \/ []<>(failed[p] \/ frame[p] > MaxFrame \/ Waits(p))
    \/ []<><<FrameCaughtUp(p)>>_vars

Spec == Init /\ [][Next]_vars
FairSpec == Spec /\ Fairness

-----------------------------------------------------------------------------

(***************************************************************************)
(* Properties                                                              *)
(***************************************************************************)

CommitHead(p) == GetMaxCommitHead([com |-> com[p]])
Given(p, q) == com[p][q].events \o unc[p][q].events

Streams == [events : Seq([time : Nat, value : Inputs]), head : Nat]

\* Every variable keeps its type, and a stream is ordered by time and ends at
\* its write head at the latest.
TypeOK ==
  /\ frame \in [Peers -> Nat]
  /\ \A p \in Peers : \A q \in Players : \A s \in {com[p][q], unc[p][q]} :
       /\ s \in Streams
       /\ \A i \in 1 .. Len(s.events) :
            s.events[i].time <= (IF i = Len(s.events) THEN s.head ELSE s.events[i + 1].time)
  /\ mode \in [Peers -> SimulationModes]
  /\ sim \in [Peers -> [0 .. MaxFrame -> [Players -> Seq(Inputs)]]]
  /\ window \in [Peers -> SUBSET Nat]
  /\ \A p, d \in Peers : \A i \in 1 .. Len(packs[p][d]) :
       /\ packs[p][d][i].frameReadyToCommit \in Nat
       /\ packs[p][d][i].streams \in [Local(p) -> Seq([time : Nat, value : Inputs])]
  /\ failed \in [Peers -> BOOLEAN]

\* No FATAL test and no assertion of the frame loop, the streams and the merge
\* fails, however the frames of the peers and their packs interleave.
NoFailure == \A p \in Peers : ~failed[p]

\* A committed frame was last simulated with exactly the commands committed for
\* it: every wrong prediction has been rolled back.
SimulationIsCommitted ==
  \A p \in Peers : \A f \in 0 .. MaxFrame :
    f <= CommitHead(p) /\ f < frame[p]
      => \A q \in Players : sim[p][f][q] = At(com[p][q].events, f)

\* What a peer knows of a player's commands is the beginning of what the player
\* has given, nothing lost in between, repeated or altered by the merge, and it
\* is all of it up to the stream's head (short of a stalled frame).
NothingLost ==
  \A p \in Peers : \A q \in Players :
    LET known == Given(p, q)
        given == Given(Owner[q], q)
    IN  /\ IsPrefix(known, given)
        /\ \A i \in Len(known) + 1 .. Len(given) : given[i].time >= unc[p][q].head

\* The window keeps a change from before the frame a rollback would go back to,
\* which is why a peer stalls three frames before the window is full.
EnoughHistory == \A p \in Peers : CanRewind(window[p], CommitHead(p))

\* No peer is further ahead of another than it may predict.
PeersStayTogether ==
  \A p, r \in Peers :
    Local(r) # {} => frame[p] - frame[r] <= kMaxRollbackFrames + 1

\* However often they stall for each other, all peers come to the last frame.
FramesGoOn == <>(\A p \in Peers : frame[p] > MaxFrame)

(***************************************************************************)
(* The peers implement lockstep, so that no two of them disagree about a   *)
(* frame both have confirmed.  A player's frame is closed when its         *)
(* owner has left it, or when it has the commands that no later one may    *)
(* follow (see PressAgain).                                                *)
(***************************************************************************)
Closed(q) ==
  LET now == frame[Owner[q]]
  IN  IF now <= MaxFrame /\ ~PressAgain /\ At(Given(Owner[q], q), now) # <<>>
        THEN now ELSE now - 1

LockstepLog == [q \in Players |-> [f \in 1 .. Closed(q) |-> At(Given(Owner[q], q), f)]]
LockstepHistory == [p \in Peers |-> [f \in 1 .. CommitHead(p) |-> sim[p][f]]]

Abstract == INSTANCE Lockstep WITH log <- LockstepLog, history <- LockstepHistory
ImplementsLockstep == Abstract!Spec
=============================================================================
