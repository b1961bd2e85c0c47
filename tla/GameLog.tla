------------------------------- MODULE GameLog -------------------------------
(***************************************************************************)
(* The game's log as dt-cli sees it (log_capture_windows.c, logs.go): the   *)
(* patched write of the console's stream copies what the game writes into a *)
(* ring of records, without ever waiting; a goroutine drains the ring into  *)
(* lines; a history keeps the last of them; clients of the logs pipe read   *)
(* the history and may follow it.                                           *)
(*                                                                          *)
(* Sizes are scaled: a record's header is one unit, as a character is.      *)
(***************************************************************************)
EXTENDS Integers, Sequences, SequencesExt, TLC

CONSTANTS
  RingSize,     \* RAW_QUEUE_BYTES
  RecordSize,   \* RAW_RECORD_BYTES, logDrainBytes
  LineSize,     \* logLineBytes
  HistoryLines, \* logHistoryLines
  Texts,        \* what the game writes at once
  MaxWrites,    \* bound: writes
  Followers,    \* connections of the logs pipe
  MaxLines      \* lines a client asks for are 0 .. MaxLines

ASSUME LogAssumption == RecordSize \in Nat \ {0} /\ HistoryLines \in Nat \ {0}

VARIABLES
  capture,    \* captureReady and captureError: "pending", "on", "failed"
  ring,       \* raw_queue, queue_read, queue_write, queue_used
  lost,       \* dropped_bytes
  draining,   \* pending and discarding of drainLoop
  hub,        \* logHub
  following,  \* what each connection knows
  written     \* history: units written while capturing, text captured, text drained, lines made of it

logVars == <<capture, ring, lost, draining, hub, following, written>>

\* Characters are numbers, as a header is.
NewLine == 10
EmptyRing == [cells |-> [i \in 0 .. RingSize - 1 |-> 0], read |-> 0, write |-> 0, used |-> 0]
NotFollowing == [at |-> "none", cursor |-> 0, dropped |-> 0, wake |-> 0, from |-> 0, got |-> << >>, missed |-> 0]

LogInit ==
  /\ capture = "pending"
  /\ ring = EmptyRing
  /\ lost = 0
  /\ draining = [pending |-> << >>, discarding |-> FALSE]
  /\ hub = [entries |-> << >>, next |-> 1, dropped |-> 0, changed |-> 0]
  /\ following = [f \in Followers |-> NotFollowing]
  /\ written = [count |-> 0, units |-> 0, captured |-> << >>, drained |-> << >>, lines |-> << >>]

\* The write's call site is located and patched, or the reason is kept for every client.
StartCapture ==
  /\ capture = "pending"
  /\ capture' \in {"on", "failed"}
  /\ UNCHANGED <<ring, lost, draining, hub, following, written>>

(***************************************************************************)
(* capture_bytes.                                                           *)
(***************************************************************************)
Advance(position, n) == (position + n) % RingSize

\* queue_copy_in, queue_copy_out.
CopyIn(r, units) ==
  [r EXCEPT !.cells = [i \in DOMAIN @ |->
                         LET at == (i - r.write) % RingSize IN IF at < Len(units) THEN units[at + 1] ELSE @[i]],
            !.write = Advance(@, Len(units)),
            !.used = @ + Len(units)]
UnitsAt(r, n) == [k \in 1 .. n |-> r.cells[(r.read + k - 1) % RingSize]]
CopyOut(r, n) == [r EXCEPT !.read = Advance(@, n), !.used = @ - n]

RecordCount(n) == (n - 1) \div RecordSize + 1
RecordText(text, k) == SubSeq(text, (k - 1) * RecordSize + 1, IF k * RecordSize < Len(text) THEN k * RecordSize ELSE Len(text))

Required(n) == n + RecordCount(n)

Writes(text) ==
  /\ capture = "on"
  /\ written.count < MaxWrites
  /\ UNCHANGED <<capture, draining, hub, following>>

Capture(text) ==
  /\ Writes(text)
  /\ Required(Len(text)) <= RingSize - ring.used
  /\ ring' = FoldLeft(LAMBDA r, k : CopyIn(CopyIn(r, <<Len(RecordText(text, k))>>), RecordText(text, k)),
                      ring, [k \in 1 .. RecordCount(Len(text)) |-> k])
  /\ written' = [written EXCEPT !.count = @ + 1, !.units = @ + Len(text), !.captured = @ \o text]
  /\ UNCHANGED lost

\* Larger than the ring, no room, or the lock is held by the drain or another writer.
Drop(text) ==
  /\ Writes(text)
  /\ lost' = lost + Len(text)
  /\ written' = [written EXCEPT !.count = @ + 1, !.units = @ + Len(text)]
  /\ UNCHANGED ring

(***************************************************************************)
(* drainLoop, consume, logHub.append.                                       *)
(***************************************************************************)
Truncated == -1

\* A character ends the line, belongs to it, or is beyond what a line may have.
Consumed(c, state) ==
  IF c = NewLine
  THEN [pending |-> << >>, discarding |-> FALSE,
        lines |-> Append(state.lines, IF state.discarding THEN Append(state.pending, Truncated) ELSE state.pending)]
  ELSE IF state.discarding THEN state
  ELSE IF Len(state.pending) = LineSize THEN [state EXCEPT !.discarding = TRUE]
  ELSE [state EXCEPT !.pending = Append(@, c)]

\* Mutant: the history is trimmed without counting on.
AppendedRenumbered(h, line, keep) ==
  LET all == Append(h.entries, [sequence |-> Len(h.entries) + 1, line |-> line])
  IN [h EXCEPT !.entries = SubSeq(all, Len(all) - keep + 1, Len(all)), !.next = Len(all) + 1, !.changed = @ + 1]

\* The oldest lines go, by their number or by their size; the newest stays.
Appended(h, line, keep) ==
  LET all == Append(h.entries, [sequence |-> h.next, line |-> line])
  IN [h EXCEPT !.entries = SubSeq(all, Len(all) - keep + 1, Len(all)), !.next = @ + 1, !.changed = @ + 1]

Smaller(a, b) == IF a < b THEN a ELSE b

AddDropped(h) == IF lost = 0 THEN h ELSE [h EXCEPT !.dropped = @ + lost, !.changed = @ + 1]

Pop ==
  /\ capture = "on"
  /\ lost > 0 \/ ring.used > 0
  /\ lost' = 0
  /\ LET header == UnitsAt(ring, 1)[1]
         body == CopyOut(ring, 1)
         text == UnitsAt(body, header)
         after == FoldLeft(LAMBDA s, c : Consumed(c, s), draining @@ [lines |-> << >>], text)
     IN IF ring.used = 0
        THEN hub' = AddDropped(hub) /\ UNCHANGED <<ring, draining, written>>
        ELSE IF header > RecordSize \/ header > body.used
        THEN hub' = AddDropped(hub) /\ ring' = body /\ UNCHANGED <<draining, written>>
        ELSE /\ ring' = CopyOut(body, header)
             /\ draining' = [pending |-> after.pending, discarding |-> after.discarding]
             /\ \E keep \in 1 .. HistoryLines :
                  hub' = FoldLeft(LAMBDA h, l : Appended(h, l, Smaller(keep, Len(h.entries) + 1)), AddDropped(hub), after.lines)
             /\ written' = [written EXCEPT !.drained = @ \o text, !.lines = @ \o after.lines]
  /\ UNCHANGED <<capture, following>>

(***************************************************************************)
(* handleConn.                                                              *)
(***************************************************************************)
Sequences(entries) == [i \in DOMAIN entries |-> entries[i].sequence]

\* snapshot: the last lines, and where to go on; what was dropped so far is told.
Connect(f, lines) ==
  /\ capture = "on"
  /\ following[f].at = "none"
  /\ LET entries == SubSeq(hub.entries, Len(hub.entries) - Smaller(lines, Len(hub.entries)) + 1, Len(hub.entries))
     IN following' = [following EXCEPT ![f] =
          [NotFollowing EXCEPT !.at = "look", !.cursor = hub.next, !.dropped = hub.dropped,
                               !.from = hub.next - Len(entries), !.got = Sequences(entries)]]
  /\ UNCHANGED <<capture, ring, lost, draining, hub, written>>

Oldest == IF hub.entries = << >> THEN hub.next ELSE hub.entries[1].sequence

StartIndex(cursor) == IF cursor >= Oldest THEN Smaller(cursor - Oldest, Len(hub.entries)) ELSE 0

\* after: the lines since the cursor, the gap before them, what was dropped meanwhile, and the channel
\* that will be closed by the next change.
Follow(f) ==
  /\ following[f].at = "look"
  /\ LET one == following[f]
         entries == SubSeq(hub.entries, StartIndex(one.cursor) + 1, Len(hub.entries))
         gap == IF one.cursor < Oldest THEN Oldest - one.cursor ELSE 0
     IN following' = [following EXCEPT ![f] =
          [one EXCEPT !.at = IF entries = << >> THEN "wait" ELSE "look",
                      !.cursor = IF entries = << >> THEN @ ELSE hub.next,
                      !.dropped = hub.dropped,
                      !.wake = hub.changed,
                      !.got = @ \o Sequences(entries),
                      !.missed = @ + gap]]
  /\ UNCHANGED <<capture, ring, lost, draining, hub, written>>

Wake(f) ==
  /\ following[f].at = "wait"
  /\ following[f].wake # hub.changed
  /\ following' = [following EXCEPT ![f].at = "look"]
  /\ UNCHANGED <<capture, ring, lost, draining, hub, written>>

Disconnect(f) ==
  /\ following[f].at # "none"
  /\ following' = [following EXCEPT ![f] = NotFollowing]
  /\ UNCHANGED <<capture, ring, lost, draining, hub, written>>

LogNext ==
  \/ StartCapture
  \/ \E text \in Texts : Capture(text) \/ Drop(text)
  \/ Pop
  \/ \E f \in Followers :
       \/ \E lines \in 0 .. MaxLines : Connect(f, lines)
       \/ Follow(f) \/ Wake(f) \/ Disconnect(f)

(***************************************************************************)
(* Properties.                                                              *)
(***************************************************************************)
\* What the lines of a text are: its parts between line ends, cut at the size of a line.
LineEnds(text) == {i \in DOMAIN text : text[i] = NewLine}
LineUpTo(text, i) ==
  LET start == CHOOSE s \in 1 .. i : (s = 1 \/ s - 1 \in LineEnds(text)) /\ \A j \in s .. i - 1 : j \notin LineEnds(text)
  IN IF i - start > LineSize THEN Append(SubSeq(text, start, start + LineSize - 1), Truncated)
     ELSE SubSeq(text, start, i - 1)
LinesOf(text) ==
  LET ends == SetToSortSeq(LineEnds(text), <)
  IN [k \in DOMAIN ends |-> LineUpTo(text, ends[k])]

\* The log is what the game wrote: through the wraps of the ring, the cuts of long writes into records
\* and of long lines, every captured character is drained once and in its place, and whatever could not be
\* captured is counted.
LogIsWhatWasWritten ==
  /\ IsPrefix(written.drained, written.captured)
  /\ ring.used = 0 => written.drained = written.captured
  /\ written.lines = LinesOf(written.drained)
  /\ written.units = Len(written.captured) + lost + hub.dropped

\* A follower gets every line since it connected once and in order, or is told how many it missed,
\* while the history is trimmed behind it; and one that waits has seen everything there is.
FollowersMissNothing ==
  \A f \in Followers : LET one == following[f] IN
    one.at # "none" =>
      /\ one.cursor - one.from = Len(one.got) + one.missed
      /\ \A i \in DOMAIN one.got : /\ one.got[i] < one.cursor
                                   /\ i > 1 => one.got[i - 1] < one.got[i]
      /\ one.at = "wait" /\ one.wake = hub.changed => one.cursor = hub.next /\ one.dropped = hub.dropped

\* The log of the game is complete for everyone who reads it, or says what is missing.
LogIsComplete == LogIsWhatWasWritten /\ FollowersMissNothing
=============================================================================
