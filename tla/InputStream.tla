----------------------------- MODULE InputStream -----------------------------
(***************************************************************************)
(* The input streams of libs/Rollback/InputStream.cpp: the commands of one  *)
(* player, oldest first, each with the frame it belongs to, and a write    *)
(* head, the frame before which nothing can be written any more.           *)
(*                                                                         *)
(* The code also keeps markers in a stream, events with an invalid value   *)
(* that stand for a frame without commands.  Every reader skips them       *)
(* (CommitFrames, PreparePackForSend, CanOverlapOrSuffix and               *)
(* GetGameCommandStream), so a stream here has none; back() of a stream    *)
(* whose head is past its last event is such a marker, see HasDataAtHead.  *)
(***************************************************************************)
EXTENDS Naturals, FiniteSets, Sequences, SequencesExt

Event(time, value) == [time |-> time, value |-> value]

\* A stream without events, with its write head at the given frame.
EmptyStream(time) == [events |-> <<>>, head |-> time]

\* Whether back() is an event that was written, not the marker of a head that
\* has moved on.
HasDataAtHead(s) == s.events # <<>> /\ Last(s.events).time = s.head

\* The time of front(): of the first event, or the head if there is none.
FrontTime(s) == IF s.events = <<>> THEN s.head ELSE s.events[1].time

\* Writes a command; CanWrite is what the code asserts before.
CanWrite(s, time) == s.head <= time
IncreaseWriteHead(s, time) == [s EXCEPT !.head = time]

\* How many of a stream's events, which are ordered, come before a time: the
\* place lower_bound finds, and upper_bound for the time after.
CountBefore(events, time) == Cardinality({i \in 1 .. Len(events) : events[i].time < time})

From(events, time) == SubSeq(events, CountBefore(events, time) + 1, Len(events))
IncreaseReadHead(s, time) == [s EXCEPT !.events = From(s.events, time)]
DiscardOldEvents(s, time) == [s EXCEPT !.events = From(s.events, time + 1)]

UpTo(events, time) == SubSeq(events, 1, CountBefore(events, time + 1))

\* The commands of one frame.
At(events, time) ==
  LET same == {i \in 1 .. Len(events) : events[i].time = time}
  IN  [i \in 1 .. Cardinality(same) |-> events[CountBefore(events, time) + i].value]

-----------------------------------------------------------------------------

(***************************************************************************)
(* What a pack repeats of what is already there (RollbackFilters).         *)
(***************************************************************************)

\* The last n commands of a player, uncommitted ones last.
LastEvents(com, unc, n) ==
  LET all == com.events \o unc.events
  IN  IF Len(all) <= n THEN all ELSE SubSeq(all, Len(all) - n + 1, Len(all))

\* A merge that looks for no overlap (a mistake; not used).
AllIsNew(com, unc, new) == [found |-> TRUE, count |-> 0]

\* The longest prefix of the new events up to the write head that is found
\* among the old ones; it counts only if nothing old follows it and no new
\* event tried on the way is older than the last old one.  NoOverlap if there
\* is none.
NoOverlap == [found |-> FALSE, count |-> 0]
Overlap(com, unc, new) ==
  LET tried == UpTo(new, unc.head)
      old == LastEvents(com, unc, Len(tried))
      Found(k) == SubSeq(new, 1, k) \in SubSeqs(old)
      matches == {k \in 1 .. Len(tried) : Found(k)}
      longest == CHOOSE k \in matches : \A j \in matches : j <= k
  IN  CASE new = <<>> \/ unc.head < new[1].time -> [found |-> TRUE, count |-> 0]
        [] new # <<>> /\ Last(new).time < FrontTime(com) -> NoOverlap
        [] OTHER ->
             IF old = <<>>
               THEN [found |-> unc.head = new[1].time, count |-> 0]
               ELSE IF /\ matches # {}
                       /\ IsSuffix(SubSeq(new, 1, longest), old)
                       /\ \A k \in longest .. Len(tried) : new[k].time >= Last(old).time
                      THEN [found |-> TRUE, count |-> longest]
                      ELSE NoOverlap
=============================================================================
