----------------------------- MODULE EventQueue -----------------------------
(***************************************************************************)
(* The events of the Realms native runtime (realms_events.cpp): the engine's*)
(* callbacks and the relay's thread push them, the game's thread polls one  *)
(* at a time and clears them when a session starts.  A full queue drops the *)
(* new event and counts it; the poller is told the count.                   *)
(*                                                                          *)
(* An event is its place in the order of the pushes.  The mutex covers the  *)
(* queue; the count is also exchanged outside it.                           *)
(***************************************************************************)
EXTENDS Naturals, Sequences, FiniteSets, SequencesExt

CONSTANTS
  MaxEvents,   \* kMaximumQueuedEvents
  MaxPushes    \* bound: events ever pushed

VARIABLES
  events,    \* g_events
  dropped,   \* g_dropped_event_count
  polling,   \* where the poller is
  pushes,    \* history: events pushed, and which of them were dropped since the last report or clear
  seen       \* history: the last event delivered, how many were since the clear, and lost in reports

eventVars == <<events, dropped, polling, pushes, seen>>

EventInit ==
  /\ events = << >>
  /\ dropped = 0
  /\ polling = "rest"
  /\ pushes = [count |-> 0, from |-> 0, lost |-> {}]
  /\ seen = [last |-> 0, count |-> 0, told |-> 0]

Pushed(lost) == pushes' = [pushes EXCEPT !.count = @ + 1, !.lost = @ \cup lost]

PushEvent ==
  /\ pushes.count < MaxPushes
  /\ IF Len(events) >= MaxEvents
     THEN /\ dropped' = dropped + 1
          /\ Pushed({pushes.count + 1})
          /\ UNCHANGED events
     ELSE /\ events' = Append(events, pushes.count + 1)
          /\ Pushed({})
          /\ UNCHANGED dropped
  /\ UNCHANGED <<polling, seen>>

ClearEvents ==
  /\ polling = "rest"
  /\ events' = << >>
  /\ dropped' = 0
  /\ pushes' = [pushes EXCEPT !.from = pushes.count, !.lost = {}]
  /\ seen' = [last |-> pushes.count, count |-> 0, told |-> 0]
  /\ UNCHANGED polling

(***************************************************************************)
(* poll_runtime_event.                                                      *)
(***************************************************************************)
PollEvent ==
  /\ polling = "rest"
  /\ events # << >> \/ dropped # 0
  /\ polling' = "validate"
  /\ UNCHANGED <<events, dropped, pushes, seen>>

InvalidKeeps == UNCHANGED dropped

\* The caller's structure is not writable or of another version.
PollInvalid ==
  /\ polling = "validate"
  /\ InvalidKeeps
  /\ polling' = "rest"
  /\ UNCHANGED <<events, pushes, seen>>

\* Mutant: drops are reported once the queue is empty.
ReportsLast == dropped # 0 /\ events = << >>

Reports == dropped # 0

\* The exchange: a report of the count comes before every event that is still queued.
TakeDropped ==
  /\ polling = "validate"
  /\ IF Reports
     THEN /\ dropped' = 0
          /\ polling' = "rest"
          /\ pushes' = [pushes EXCEPT !.lost = {}]
          /\ seen' = [seen EXCEPT !.told = @ + dropped]
     ELSE polling' = "pop" /\ UNCHANGED <<dropped, pushes, seen>>
  /\ UNCHANGED events

PopEvent ==
  /\ polling = "pop"
  /\ events # << >>
  /\ events' = Tail(events)
  /\ polling' = "rest"
  /\ seen' = [seen EXCEPT !.last = Head(events), !.count = @ + 1]
  /\ UNCHANGED <<dropped, pushes>>

EventNext == PushEvent \/ ClearEvents \/ PollEvent \/ PollInvalid \/ TakeDropped \/ PopEvent

(***************************************************************************)
(* Properties.                                                              *)
(***************************************************************************)
\* Every event of a session is delivered, still queued, reported as lost or about to be reported, however
\* the pushes of other threads and polls with a bad output fall between the steps of a poll; and no event is
\* delivered before the loss of an earlier one was reported.
EventsAccountedFor ==
  /\ pushes.count - pushes.from = seen.count + Len(events) + seen.told + dropped
  /\ Cardinality(pushes.lost) = dropped
  /\ \A e \in pushes.lost : seen.last < e
  /\ \A i \in DOMAIN events : seen.last < events[i] /\ (i > 1 => events[i - 1] < events[i])
=============================================================================
