------------------------------- MODULE EndsMC -------------------------------
(***************************************************************************)
(* What must come to an end: three components, each running fairly by        *)
(* itself.  An execution belongs to one of them and the others rest.        *)
(*                                                                          *)
(* Fairness is what the code's scheduling gives: the engine's update calls  *)
(* the host every frame, a thread that is runnable runs, timers fire, and a *)
(* device that was started plays.  What peers, players and mods do is never *)
(* assumed.                                                                 *)
(***************************************************************************)
EXTENDS HostTransport

CONSTANTS Host, Clients, PlayerSlots, NoSlot, MaxPlays, MaxTarget, MaxLoop

Shape(cached, reads, late, loops) == [cached |-> cached, reads |-> reads, late |-> late, loops |-> loops]

\* A file that is decoded while it plays, told its end only after its last frame, and twice a cached one.
MCShapes == {Shape(FALSE, 1, TRUE, 1), Shape(TRUE, 1, FALSE, 2)}

VARIABLES
  remotes, stage, failed, bootRequested, slot, awaited, closing, peerSyncs, events, limit, admits, relayFailed,
  installed, introduced, reason, link, syncing, members, claimed, joins, changes

Hosting == INSTANCE Admission WITH
  Slots <- PlayerSlots, Limits <- {3}, MaxJoins <- 1, MaxChanges <- 0, running <- syncing, told <- introduced, accepting <- admits

hostingVars == <<remotes, stage, failed, bootRequested, slot, awaited, closing, peerSyncs, events, limit, admits, relayFailed,
                 installed, introduced, reason, link, syncing, members, claimed, joins, changes>>

VARIABLES marked, nextId, files, queues, heap, output, call, work, due, told, heard

Playing == INSTANCE AudioPlayer WITH engine <- output, Shapes <- MCShapes

playingVars == <<marked, nextId, files, queues, heap, output, call, work, due, told, heard>>

VARIABLE part
endsVars == <<part, hostingVars, vars, playingVars>>

EndsInit ==
  /\ part \in {"admission", "transport", "playing"}
  /\ Hosting!Init
  /\ part = "admission" \/ admits
  /\ Init
  /\ Playing!PlayerInit

EndsNext ==
  /\ UNCHANGED part
  /\ \/ part = "admission" /\ Hosting!Next /\ UNCHANGED <<vars, playingVars>>
     \/ part = "transport" /\ Next /\ UNCHANGED <<hostingVars, playingVars>>
     \/ part = "playing" /\ Playing!PlayerNext /\ UNCHANGED <<hostingVars, vars>>

\* The step of a part, whose other parts rest.
Admitting(A) == part = "admission" /\ A /\ UNCHANGED <<part, vars, playingVars>>
Relaying(A) == part = "transport" /\ A /\ UNCHANGED <<part, hostVars, hostingVars, playingVars>>
Sounding(A) == part = "playing" /\ A /\ UNCHANGED <<part, hostingVars, vars>>

\* ConnectionManager.update and ConnectionHost.update run every frame, and the engine's profile
\* synchronizer completes what it has started.
AdmissionFairness ==
  /\ WF_endsVars(Admitting(Hosting!NextEvent))
  /\ \A c \in Clients :
       /\ WF_endsVars(Admitting(Hosting!NoticesClosedChannel(c)))
       /\ WF_endsVars(Admitting(Hosting!TimesOut(c)))
       /\ WF_endsVars(Admitting(Hosting!ClosePendingChannel(c)))
       /\ \A s \in Clients \cup {Host} : WF_endsVars(Admitting(Hosting!SyncCompletes(c, s)))

\* The relay thread runs and its timers fire.
TransportFairness ==
  /\ WF_endsVars(Relaying(RelayThread))
  /\ \A e \in Index : WF_endsVars(Relaying(EntryExpires(e)))

\* The worker and its ticker run, a call that was answered returns, and every voice is played.
PlayingFairness ==
  /\ WF_endsVars(Sounding(Playing!Worker))
  /\ WF_endsVars(Sounding(Playing!Tick))
  /\ WF_endsVars(Sounding(Playing!Return))
  /\ \A p \in Playing!Id : WF_endsVars(Sounding(Playing!DevicePlays(p)))

EndsSpec ==
  /\ EndsInit /\ [][EndsNext]_endsVars
  /\ AdmissionFairness /\ TransportFairness /\ PlayingFairness

(***************************************************************************)
(* What admission and the player promise, of the instances above.           *)
(***************************************************************************)
\* A client the host has let in is connected some time or gone, and two who stay get to know each
\* other (connection_host.lua).
JoiningEnds == Hosting!JoiningEnds

\* A playback that was started ends, whatever is stopped, seeked or lost meanwhile, and its end is
\* told (worker.go).
PlaybacksEnd == Playing!PlaybacksEnd
=============================================================================
