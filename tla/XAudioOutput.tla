---------------------------- MODULE XAudioOutput ----------------------------
(***************************************************************************)
(* The XAudio2 objects of the SimpleAudio runtime (xaudio.cpp): an engine   *)
(* and the voices made from it, each acquired part by part, where a part    *)
(* that cannot be had gives the earlier ones back, and the callback through *)
(* which the device reports a critical error from a thread of its own.      *)
(*                                                                          *)
(* The thread that creates and destroys is the worker's; what the voices    *)
(* play is AudioPlayer's matter.  One voice is modelled: voices are         *)
(* independent of each other.                                               *)
(***************************************************************************)
EXTENDS Naturals, Sequences, SequencesExt

CONSTANT ErrorCode   \* the HRESULTs a device can report

VARIABLES
  held,      \* what the engine and the voice hold
  calls,     \* the call in progress: its parts still to acquire, and to release
  channels,  \* channels of the voice
  report,    \* the critical error: the callback's step, the code and the flag in the engine
  read       \* the worker's look at the critical error

outputVars == <<held, calls, channels, report, read>>

EngineParts == <<"memory", "engine", "callback", "registration", "mastering", "channels", "x3d">>

\* A mono voice needs no azimuths.
VoiceParts(n) ==
  IF n > 1 THEN <<"voice", "matrix", "azimuths", "source", "started">> ELSE <<"voice", "matrix", "source", "started">>

\* What is asked of the device or computed, and holds nothing.
Transient == {"channels", "x3d", "started"}

NoCalls == [acquire |-> << >>, release |-> << >>]
NoReport == [at |-> "rest", code |-> 0, flag |-> FALSE]
NoRead == [at |-> "rest", seen |-> 0]

OutputInit ==
  /\ held = {}
  /\ calls = NoCalls
  /\ channels = 1
  /\ report = NoReport
  /\ read = NoRead

OutputIdle == calls = NoCalls
EngineUp == {"memory", "x3dReady"} \subseteq held
VoiceUp == "voiceReady" \in held
Begins(acquire, release) == OutputIdle /\ calls' = [acquire |-> acquire, release |-> release]

CreateEngine ==
  /\ "memory" \notin held
  /\ Begins(EngineParts, << >>)
  /\ report' = NoReport
  /\ UNCHANGED <<held, channels, read>>

CreateVoice(n) ==
  /\ EngineUp /\ ~VoiceUp
  /\ Begins(VoiceParts(n), << >>)
  /\ channels' = n
  /\ UNCHANGED <<held, report, read>>

\* The engine and the voice are handed out when their last part is there.
Complete(part) == CASE part = "x3d" -> {"x3dReady"} [] part = "started" -> {"voiceReady"} [] OTHER -> {}

Acquire ==
  /\ calls.acquire # << >>
  /\ LET part == Head(calls.acquire)
     IN held' = held \cup ({part} \ Transient) \cup Complete(part)
  /\ calls' = [calls EXCEPT !.acquire = Tail(@)]
  /\ UNCHANGED <<channels, report, read>>

\* What each failure path gives back, in its order.
ReleasedAfter(part) ==
  CASE part = "engine" -> <<"memory">>
    [] part = "callback" -> <<"engine", "memory">>
    [] part = "registration" -> <<"engine", "callback", "memory">>
    [] part = "mastering" -> <<"registration", "engine", "callback", "memory">>
    [] part \in {"channels", "x3d"} -> <<"mastering", "registration", "engine", "callback", "memory">>
    [] part = "matrix" -> <<"voice">>
    [] part = "azimuths" -> <<"matrix", "voice">>
    [] part = "source" -> <<"azimuths", "matrix", "voice">>
    [] part = "started" -> <<"source", "azimuths", "matrix", "voice">>
    [] OTHER -> << >>

AcquireFails ==
  /\ calls.acquire # << >>
  /\ calls' = [acquire |-> << >>, release |-> ReleasedAfter(Head(calls.acquire))]
  /\ UNCHANGED <<held, channels, report, read>>

DestroyVoice ==
  /\ VoiceUp
  /\ Begins(<< >>, <<"source", "matrix", "azimuths", "voice">>)
  /\ held' = held \ {"voiceReady"}
  /\ UNCHANGED <<channels, report, read>>

DestroyOrder == <<"mastering", "registration", "engine", "callback", "memory">>

\* The player destroys its voices first (AudioPlayer).
DestroyEngine ==
  /\ EngineUp /\ ~VoiceUp
  /\ Begins(<< >>, DestroyOrder)
  /\ held' = held \ {"x3dReady"}
  /\ UNCHANGED <<channels, report, read>>

\* The engine does not let go of a callback that is running.
Release ==
  /\ calls.release # << >>
  /\ LET part == Head(calls.release)
     IN /\ part \in {"registration", "engine"} => report.at = "rest"
        /\ held' = held \ {part}
  /\ calls' = [calls EXCEPT !.release = Tail(@)]
  /\ UNCHANGED <<channels, report, read>>

\* Releasing an engine that was never unregistered from ends its registration too.
Registered == {"registration", "engine"} \subseteq held

(***************************************************************************)
(* OnCriticalError, on a thread of the device: the code, then the flag.     *)
(***************************************************************************)
\* Mutant: the flag is raised before the code is there.
FlagFirst(e) == [at |-> "writing", code |-> report.code, flag |-> TRUE]

WriteCode(e) == [report EXCEPT !.at = "writing", !.code = e]

OnCriticalError(e) ==
  /\ Registered
  /\ report.at = "rest"
  /\ report' = WriteCode(e)
  /\ UNCHANGED <<held, calls, channels, read>>

SetFlag ==
  /\ report.at = "writing"
  /\ report' = [report EXCEPT !.at = "rest", !.flag = TRUE]
  /\ UNCHANGED <<held, calls, channels, read>>

(***************************************************************************)
(* sa_xaudio_engine_critical_error: the flag, then the code.                *)
(***************************************************************************)
ReadFlag ==
  /\ EngineUp /\ OutputIdle
  /\ read.at = "rest"
  /\ report.flag
  /\ read' = [at |-> "flagged", seen |-> 0]
  /\ UNCHANGED <<held, calls, channels, report>>

ReadCode ==
  /\ read.at = "flagged"
  /\ read' = [at |-> "done", seen |-> report.code]
  /\ UNCHANGED <<held, calls, channels, report>>

ReadDone ==
  /\ read.at = "done"
  /\ read' = NoRead
  /\ UNCHANGED <<held, calls, channels, report>>

OutputNext ==
  \/ read.at = "rest" /\ (CreateEngine \/ DestroyVoice \/ DestroyEngine \/ \E n \in 1 .. 2 : CreateVoice(n))
  \/ Acquire \/ AcquireFails \/ Release
  \/ \E e \in ErrorCode : OnCriticalError(e)
  \/ SetFlag \/ ReadFlag \/ ReadCode \/ ReadDone

OutputSpec == OutputInit /\ [][OutputNext]_outputVars

(***************************************************************************)
(* Properties.                                                              *)
(***************************************************************************)
\* Whichever part could not be had, and whatever was destroyed, nothing stays behind: between calls
\* there is a whole engine or none, and a whole voice of that engine or none.
WholeOrNothing ==
  OutputIdle =>
    LET engine == {"x3dReady"} \cup (ToSet(EngineParts) \ Transient)
        voice == {"voiceReady"} \cup (ToSet(VoiceParts(channels)) \ Transient)
    IN held \in {{}, engine, engine \cup voice}

\* The device's thread finds the callback and the engine's memory for as long as it may call, also
\* while creation fails half-way and while the engine is destroyed under it; and a critical error is
\* never read as success or as the code of another one.
ErrorsArriveWhole ==
  /\ Registered => {"callback", "memory"} \subseteq held
  /\ report.at = "writing" => Registered
  /\ read.at = "done" => read.seen \in ErrorCode

\* The output is there as a whole and tells of its end truly.
OutputIsWhole == WholeOrNothing /\ ErrorsArriveWhole
=============================================================================
