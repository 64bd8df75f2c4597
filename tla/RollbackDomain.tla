----------------------------- MODULE RollbackDomain -----------------------------
(***************************************************************************)
(* A rollback domain: the window of all rollback-aware variables, and the  *)
(* snapshots taken of it (Rollback/Domain, TransferHelpers, Var, AutoVar,   *)
(* core_state/StateTree).  The frame loop moves from frame to frame, goes  *)
(* back a few frames and simulates them again, and now and then loads a    *)
(* snapshot.  What the variables should hold is kept beside the window as  *)
(* an unbounded history; the window keeps MaxChanges changes of each.      *)
(***************************************************************************)
EXTENDS StateStream

CONSTANTS
    Vars,               \* identifiers of variables
    Names,              \* identifiers of manual snapshots
    MaxChanges,         \* kMaxChangesInWindow
    MaxRollback         \* how far behind the furthest frame a rewind may go

ASSUME DomainAssumption ==
    /\ MaxChanges \in Nat \ {0}
    /\ MaxRollback \in Nat
    /\ MaxRollback < MaxChanges

VARIABLES
    ids,                \* the variables the window has streams for
    window,             \* their streams
    bound,              \* the variables an AutoVar is bound to
    now,                \* FrameClock
    reach,              \* the furthest frame since the last load
    base,               \* the frame of the last load
    auto,               \* the two automatic snapshots: mAutoSnapshots
    manual,             \* the manual ones, by name: mManualSnapshots
    hist,               \* (history) what each variable holds at each frame
    promised,           \* (history) the variables the window answers for
    settled             \* (history) those that have a value from the floor onwards

vars == <<ids, window, bound, now, reach, base, auto, manual, hist, promised, settled>>
clock == <<now, reach, base>>

Flat(v) == [t \in Frames |-> v]

\* "told" and "truth" are history: what the snapshot was meant to record
NoSnapshot ==
    [time |-> 0, ids |-> {}, streams |-> [x \in Vars |-> NewStream],
     told |-> {}, truth |-> [x \in Vars |-> Default]]

Snapshots ==
    [time : Frames, ids : SUBSET Vars, streams : [Vars -> Streams],
     told : SUBSET Vars, truth : [Vars -> Values]]

\* The earliest frame a rewind may go back to
Floor == Max({0, base, reach - MaxRollback})

Init ==
    /\ ids = {}
    /\ window = [x \in Vars |-> NewStream]
    /\ bound = {}
    /\ now = 1
    /\ reach = 1
    /\ base = 0
    /\ auto = [i \in {1, 2} |-> NoSnapshot]
    /\ manual = [n \in Names |-> [taken |-> FALSE, shot |-> NoSnapshot]]
    /\ hist = [x \in Vars |-> Flat(Default)]
    /\ promised = {}
    /\ settled = {}

------------------------------------------------------------------------------
(* Variables *)

\* A variable gets the stream of its name, which may be there already because a
\* load created it.  Game states that roll back write a first value at time zero.
Bind(x, fromZero) ==
    /\ x \notin bound
    /\ bound' = bound \cup {x}
    /\ ids' = ids \cup {x}
    /\ window' = IF fromZero
                 THEN [window EXCEPT ![x] = Write(@, 0, Default, MaxChanges)]
                 ELSE window
    /\ IF fromZero \/ x \notin ids
       THEN /\ hist' = [hist EXCEPT ![x] = Flat(Default)]
            /\ promised' = promised \cup {x}
       ELSE UNCHANGED <<hist, promised>>
    /\ settled' = IF fromZero THEN settled \cup {x} ELSE settled
    /\ UNCHANGED <<clock, auto, manual>>

Unbind(x) ==
    /\ x \in bound
    /\ bound' = bound \ {x}
    /\ ids' = ids \ {x}
    /\ window' = [window EXCEPT ![x] = NewStream]
    /\ hist' = [hist EXCEPT ![x] = Flat(Default)]
    /\ promised' = promised \ {x}
    /\ settled' = settled \ {x}
    /\ UNCHANGED <<clock, auto, manual>>

\* The history of a variable once it holds v from t on
From(h, t, v) == [u \in Frames |-> IF u >= t THEN v ELSE h[u]]

Assign(x, v) ==
    /\ x \in bound
    /\ window' = [window EXCEPT ![x] = Write(@, now, v, MaxChanges)]
    /\ hist' = IF x \in promised THEN [hist EXCEPT ![x] = From(@, now, v)] ELSE hist
    /\ UNCHANGED <<ids, bound, clock, auto, manual, promised, settled>>

------------------------------------------------------------------------------
(* Frames *)

NextFrame ==
    /\ now < LastFrame
    /\ now' = now + 1
    /\ reach' = Max({reach, now'})
    /\ UNCHANGED <<ids, window, bound, base, auto, manual, hist, promised, settled>>

\* A mutant of Rewind that leaves what was changed in the frame after t
RewindTooLittle(t) ==
    /\ t \in Floor .. now - 1
    /\ window' = [x \in Vars |-> IF x \in ids THEN Discard(window[x], t + 2) ELSE window[x]]
    /\ hist' = [x \in Vars |-> From(hist[x], t + 1, hist[x][t])]
    /\ now' = t + 1
    /\ UNCHANGED <<ids, bound, reach, base, auto, manual, promised, settled>>

\* Everything after t is discarded; the next frame simulated is t + 1
Rewind(t) ==
    /\ t \in Floor .. now - 1
    /\ window' = [x \in Vars |-> IF x \in ids THEN Discard(window[x], t + 1) ELSE window[x]]
    /\ hist' = [x \in Vars |-> From(hist[x], t + 1, hist[x][t])]
    /\ now' = t + 1
    /\ UNCHANGED <<ids, bound, reach, base, auto, manual, promised, settled>>

------------------------------------------------------------------------------
(* Snapshots *)

\* Streams of the variables in "from" are read at t and written into "to"
Transfer(to, from, fromIds, t, max) ==
    [x \in Vars |-> IF x \in fromIds THEN Write(to[x], t, Read(from[x], t), max) ELSE to[x]]

\* A mutant of Taken that leaves alone what the old snapshot has
TakenOnce(old, t) ==
    [time |-> t,
     ids |-> old.ids \cup ids,
     streams |-> Transfer(old.streams, window, ids \ old.ids, t, 1),
     told |-> promised,
     truth |-> [x \in Vars |-> IF x \in promised THEN hist[x][t] ELSE Default]]

\* A snapshot taken into an old one keeps the old one's other variables
Taken(old, t) ==
    [time |-> t,
     ids |-> old.ids \cup ids,
     streams |-> Transfer(old.streams, window, ids, t, 1),
     told |-> promised,
     truth |-> [x \in Vars |-> IF x \in promised THEN hist[x][t] ELSE Default]]

OldestAuto == IF auto[1].time < auto[2].time THEN 1 ELSE 2

LatestAuto == IF auto[1].time < auto[2].time THEN 2 ELSE 1

\* A mutant of TakeAuto that takes the latest one again
TakeAutoOverLatest(t) ==
    /\ t \in Floor .. now
    /\ auto' = [auto EXCEPT ![LatestAuto] = Taken(@, t)]
    /\ UNCHANGED <<ids, window, bound, clock, manual, hist, promised, settled>>

TakeAuto(t) ==
    /\ t \in Floor .. now
    /\ auto' = [auto EXCEPT ![OldestAuto] = Taken(@, t)]
    /\ UNCHANGED <<ids, window, bound, clock, manual, hist, promised, settled>>

TakeManual(n) ==
    /\ manual' = [manual EXCEPT ![n] = [taken |-> TRUE, shot |-> Taken(@.shot, now)]]
    /\ UNCHANGED <<ids, window, bound, clock, auto, hist, promised, settled>>

RemoveManual(n) ==
    /\ manual[n].taken
    /\ manual' = [manual EXCEPT ![n] = [taken |-> FALSE, shot |-> NoSnapshot]]
    /\ UNCHANGED <<ids, window, bound, clock, auto, hist, promised, settled>>

\* A load writes the snapshot into the window and goes on behind its frame.  A
\* variable the snapshot does not tell of keeps what it had, of a time to come.
Load(s) ==
    /\ s.time < LastFrame
    /\ window' = Transfer(window, s.streams, s.ids, s.time, MaxChanges)
    /\ ids' = ids \cup s.ids
    /\ hist' = [x \in Vars |-> IF x \in promised \cap s.told
                               THEN From(hist[x], s.time, s.truth[x])
                               ELSE Flat(Default)]
    /\ promised' = promised \cap s.told
    /\ settled' = promised \cap s.told
    /\ now' = s.time + 1
    /\ reach' = s.time + 1
    /\ base' = s.time
    /\ UNCHANGED <<bound, auto, manual>>

LoadLatestAuto == Load(auto[LatestAuto])

LoadManual(n) == manual[n].taken /\ Load(manual[n].shot)

\* The snapshots of the frames in "gone" are dropped
Clear(gone) ==
    /\ auto' = [i \in {1, 2} |-> IF auto[i].time \in gone THEN NoSnapshot ELSE auto[i]]
    /\ manual' = [n \in Names |-> IF manual[n].shot.time \in gone
                                  THEN [taken |-> FALSE, shot |-> NoSnapshot]
                                  ELSE manual[n]]
    /\ UNCHANGED <<ids, window, bound, clock, hist, promised, settled>>

ClearAllSnapshotsBefore(t) == Clear({u \in Frames : u < t})

ClearAllSnapshotsAfter(t) == Clear({u \in Frames : u > t})

------------------------------------------------------------------------------
Next ==
    \/ \E x \in Vars :
        \/ \E fromZero \in BOOLEAN : Bind(x, fromZero)
        \/ Unbind(x)
        \/ \E v \in Values : Assign(x, v)
    \/ NextFrame
    \/ \E t \in Frames :
        \/ Rewind(t)
        \/ TakeAuto(t)
        \/ ClearAllSnapshotsBefore(t)
        \/ ClearAllSnapshotsAfter(t)
    \/ \E n \in Names : TakeManual(n) \/ RemoveManual(n) \/ LoadManual(n)
    \/ LoadLatestAuto

Spec == Init /\ [][Next]_vars

------------------------------------------------------------------------------
(* Properties *)

TypeOK ==
    /\ ids \in SUBSET Vars
    /\ window \in [Vars -> Streams]
    /\ bound \in SUBSET Vars
    /\ now \in Frames /\ reach \in Frames /\ base \in Frames
    /\ auto \in [{1, 2} -> Snapshots]
    /\ manual \in [Names -> [taken : BOOLEAN, shot : Snapshots]]
    /\ hist \in [Vars -> [Frames -> Values]]
    /\ promised \in SUBSET Vars
    /\ settled \in SUBSET promised

(* From the earliest frame that a rewind may still go back to onwards, a       *)
(* variable reads what an unbounded history of it says, although the window    *)
(* drops its oldest changes (StateStream::Write, Read, Discard; all rewinds,   *)
(* re-simulations, snapshots and loads in between).                            *)
WindowTellsTheTruth ==
    \A x \in promised : \A t \in Floor .. LastFrame : Read(window[x], t) = hist[x][t]

(* A rewind never takes the earliest value of a variable that has had one      *)
(* since the floor: assertSafeRewind of the frame loop (cc3o3.cpp:417-431).    *)
RewindsAreSafe ==
    \A x \in settled : DOMAIN window[x] # {} /\ EarliestTime(window[x]) <= Floor

(* What a snapshot gives back for its frame is what the variables held then,   *)
(* also when it was taken into an older one, of an earlier or later frame      *)
(* (Domain::TakeAutoSnapshot, TakeManualSnapshot, WriteAllIdentifiers).        *)
TrueSnapshot(s) ==
    \A x \in s.told : x \in s.ids /\ Read(s.streams[x], s.time) = s.truth[x]

SnapshotsTellTheTruth ==
    /\ \A i \in {1, 2} : TrueSnapshot(auto[i])
    /\ \A n \in Names : TrueSnapshot(manual[n].shot)

(* An automatic snapshot later than those before it becomes the latest one and *)
(* leaves the one that was latest as the other (Domain.h:44-48).               *)
PreviousAutoIsKept ==
    [][\A t \in Frames :
         (TakeAuto(t) /\ t > auto[LatestAuto].time)
            => /\ auto'[LatestAuto'].time = t
               /\ auto'[OldestAuto'] = auto[LatestAuto]]_vars

================================================================================
