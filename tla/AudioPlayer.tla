---------------------------- MODULE AudioPlayer ----------------------------
(***************************************************************************)
(* The SimpleAudio player (player.go, worker.go, file_playback.go and the   *)
(* voices of xaudio.cpp): a worker thread that decodes into buffers, hands  *)
(* them to the voices and takes them back, the device that plays them, and  *)
(* the game's thread, which waits for the worker's answer to every command  *)
(* and may look at the marks and the events at any other time.              *)
(*                                                                          *)
(* The cache is AudioCache, the decoder Decoder and the engine's parts      *)
(* XAudioOutput; here a file answers reads, a cached file is one buffer and *)
(* the engine is there, broken or missing.                                  *)
(***************************************************************************)
EXTENDS Integers, Sequences, FiniteSets, SequencesExt

CONSTANTS
  MaxPlays,    \* bound: playbacks ever started
  Shapes,      \* what can be played: cached or not, reads of a segment, whether its end comes with a
               \* read of its own, loops (-1 for ever)
  MaxTarget,   \* targetQueuedBuffers
  MaxLoop      \* XAUDIO2_MAX_LOOP_COUNT

ASSUME PlayerAssumption ==
  /\ {MaxPlays, MaxTarget, MaxLoop} \subseteq Nat \ {0}
  /\ Shapes \subseteq [cached : BOOLEAN, reads : Nat, late : BOOLEAN, loops : Nat \cup {-1}]

VARIABLES
  marked,   \* player.active
  nextId,   \* player.nextID
  files,    \* the worker's playbacks
  queues,   \* what each voice has still to play
  heap,     \* buffers allocated
  engine,   \* "none", "good", or "bad" once it reported a critical error
  call,     \* the game thread's call
  work,     \* where the worker is
  due,      \* the ticker has fired
  told,     \* history: events pushed of each playback
  heard     \* history: what each playback in progress had played of it

fileVars == <<files, queues, heap, heard>>
playerVars == <<marked, nextId, files, queues, heap, engine, call, work, due, told, heard>>

Id == 1 .. MaxPlays
\* The cached samples of a file; AudioCache says how long they stay.
Cached == <<0, 0>>
NoFile == [at |-> "none"]
NoCall == [at |-> "none"]
Playing == {p \in Id : files[p] # NoFile}
Rest(at) == [at |-> at]

PlayerInit ==
  /\ marked = {}
  /\ nextId = 1
  /\ files = [p \in Id |-> NoFile]
  /\ queues = [p \in Id |-> << >>]
  /\ heap = {}
  /\ engine = "none"
  /\ call = NoCall
  /\ work = Rest("stopped")
  /\ due = FALSE
  /\ told = [p \in Id |-> 0]
  /\ heard = [p \in Id |-> 0]

(***************************************************************************)
(* The game's thread.                                                       *)
(***************************************************************************)
\* One caller, which waits for the answer (main.go, SimpleAudio.lua).
Sends(command) == call = NoCall /\ work.at # "stopped" /\ call' = [command EXCEPT !.at = "sent"]
callerOnly == <<files, queues, heap, engine, work, due, told, heard>>

Start ==
  /\ work.at = "stopped"
  /\ call = NoCall
  /\ engine' = "good"
  /\ work' = Rest("select")
  /\ UNCHANGED <<marked, nextId, files, queues, heap, call, due, told, heard>>

Play(shape) ==
  /\ nextId <= MaxPlays
  /\ Sends([at |-> "", kind |-> "play", id |-> nextId, shape |-> shape])
  /\ marked' = marked \cup {nextId}
  /\ nextId' = nextId + 1
  /\ UNCHANGED callerOnly

Stop(p, fade) ==
  /\ p \in marked
  /\ Sends([at |-> "", kind |-> "stop", ids |-> {p}, fade |-> fade])
  /\ UNCHANGED <<marked, nextId, callerOnly>>

SetPosition(p) ==
  /\ p \in marked
  /\ Sends([at |-> "", kind |-> "position", ids |-> {p}])
  /\ UNCHANGED <<marked, nextId, callerOnly>>

StopAll(fade) ==
  /\ Sends([at |-> "", kind |-> "stop", ids |-> Id, fade |-> fade])
  /\ UNCHANGED <<marked, nextId, callerOnly>>

Shutdown ==
  /\ Sends([at |-> "", kind |-> "shutdown"])
  /\ UNCHANGED <<marked, nextId, callerOnly>>

\* The number of a playback that failed to start is given up.
MarksAfterCall == marked \ {call.refused}

Return ==
  /\ call.at = "answered"
  /\ marked' = MarksAfterCall
  /\ call' = NoCall
  /\ UNCHANGED <<nextId, fileVars, engine, work, due, told>>

(***************************************************************************)
(* Helpers of the worker.                                                   *)
(***************************************************************************)
Answer(ok) == call' = [at |-> "answered", refused |-> IF call.kind = "play" /\ ~ok THEN call.id ELSE 0]
Unanswered == UNCHANGED call

\* pushEvent.  The channel holds 1024 events, far more than playbacks end between two polls.
Report(ids) ==
  told' = [p \in Id |-> IF p \notin ids THEN told[p] ELSE IF told[p] = 0 THEN 1 ELSE 2]
Silent == UNCHANGED told

BuffersOf(ids) == UNION {ToSet(files[p].held) : p \in ids}

\* filePlayback.close: the voice goes before its buffers.
Close(ids) ==
  /\ files' = [p \in Id |-> IF p \in ids THEN NoFile ELSE files[p]]
  /\ queues' = [p \in Id |-> IF p \in ids THEN << >> ELSE queues[p]]
  /\ heap' = heap \ BuffersOf(ids)
  /\ heard' = [p \in Id |-> IF p \in ids THEN 0 ELSE heard[p]]

(***************************************************************************)
(* Player.loop.                                                             *)
(***************************************************************************)
\* Mutant: commands are taken first, and the ticker only when there is none.
CommandsFirst == call.at = "sent"

\* The ticker is looked at before the commands.
CommandsDue == call.at = "sent" /\ (Playing = {} \/ ~due)

TakeCommand ==
  /\ work.at = "select"
  /\ CommandsDue
  /\ work' = [at |-> "recover", then |-> "handle", back |-> Rest("select")]
  /\ UNCHANGED <<marked, nextId, fileVars, engine, call, due, told>>

TakeTick ==
  /\ work.at = "select"
  /\ Playing # {} /\ due /\ ~CommandsDue
  /\ due' = FALSE
  /\ work' = [at |-> "recover", then |-> "fade", back |-> Rest("select")]
  /\ UNCHANGED <<marked, nextId, fileVars, engine, call, told>>

Recovered == work' = IF work.then = "fade" THEN Rest("fade") ELSE [work EXCEPT !.at = "handle"]
Unrecovered == work' = work.back

\* A shutdown asks no engine, and a command for nothing but playbacks that are gone neither.
Unneeded == work.then = "handle" /\ (call.kind = "shutdown" \/ (call.kind # "play" /\ Playing = {}))

NoRecovery ==
  /\ work.at = "recover"
  /\ Unneeded \/ engine = "good"
  /\ Recovered
  /\ UNCHANGED <<marked, nextId, fileVars, engine, call, due, told>>

\* Mutant: recovery leaves the playbacks to the new engine.
KeepFiles == {}

Casualties == Playing

\* The error ends every playback, and a new engine is made at once, or with the next command.
RecoverCriticalError ==
  /\ work.at = "recover"
  /\ ~Unneeded
  /\ engine = "bad"
  /\ Close(Casualties)
  /\ marked' = marked \ Casualties
  /\ Report(Casualties)
  /\ \/ engine' = "good" /\ Recovered /\ Unanswered
     \/ engine' = "none" /\ Unrecovered /\ IF work.then = "handle" THEN Answer(FALSE) ELSE Unanswered
  /\ UNCHANGED <<nextId, due>>

RecreateEngine ==
  /\ work.at = "recover"
  /\ ~Unneeded
  /\ engine = "none"
  /\ \/ engine' = "good" /\ Recovered /\ Unanswered
     \/ engine' = "none" /\ Unrecovered /\ IF work.then = "handle" THEN Answer(FALSE) ELSE Unanswered
  /\ UNCHANGED <<marked, nextId, fileVars, due, told>>

(***************************************************************************)
(* handleCommand.                                                           *)
(***************************************************************************)
Handles(kind) == work.at = "handle" /\ call.kind = kind
Handled == work' = work.back

\* A decoder is opened, or the cached samples, and a voice created; then the first buffer is filled.
OpenPlayback ==
  /\ Handles("play")
  /\ LET s == call.shape
         file == [at |-> "open", shape |-> s, read |-> 0, loops |-> s.loops, held |-> << >>, eof |-> FALSE,
                  fade |-> "no", plays |-> IF s.cached /\ s.loops >= 0 THEN s.loops + 1 ELSE 0]
     IN /\ files' = [files EXCEPT ![call.id] = file]
        /\ queues' = [queues EXCEPT ![call.id] = IF s.cached /\ s.loops < 0 THEN <<[buffer |-> Cached, plays |-> -1]>> ELSE << >>]
  /\ work' = [at |-> "fill", id |-> call.id, target |-> 1, starting |-> TRUE, back |-> work.back]
  /\ UNCHANGED <<marked, nextId, heap, engine, call, due, told, heard>>

OpenFails ==
  /\ Handles("play")
  /\ Answer(FALSE)
  /\ Handled
  /\ UNCHANGED <<marked, nextId, fileVars, engine, due, told>>

PositionPlayback ==
  /\ Handles("position")
  /\ \E ok \in BOOLEAN : Answer(ok)
  /\ Handled
  /\ UNCHANGED <<marked, nextId, fileVars, engine, due, told>>

StopPlaybacks ==
  /\ Handles("stop")
  /\ IF call.fade
     THEN /\ files' = [p \in Id |-> IF p \in call.ids \cap Playing THEN [files[p] EXCEPT !.fade = "fading"] ELSE files[p]]
          /\ UNCHANGED <<marked, queues, heap, heard>>
     ELSE /\ Close(call.ids \cap Playing)
          /\ marked' = marked \ call.ids
  /\ Answer(call.ids \cap Playing # {})
  /\ Handled
  /\ UNCHANGED <<nextId, engine, due, told>>

HandleShutdown ==
  /\ Handles("shutdown")
  /\ Close(Playing)
  /\ marked' = {}
  /\ engine' = "none"
  /\ Answer(TRUE)
  /\ work' = Rest("stopped")
  /\ due' = FALSE
  /\ UNCHANGED <<nextId, told>>

(***************************************************************************)
(* filePlayback.fillTo, one read or one submission at a time.               *)
(***************************************************************************)
File == files[work.id]
Queued == Len(queues[work.id])
Filling == work.at = "fill"

\* refillFilePlaybacks takes a command, if there is one, after each playback.
PollsCommand ==
  work' = IF call.at = "sent" THEN [at |-> "recover", then |-> "handle", back |-> work.back] ELSE work.back

\* newFilePlayback keeps nothing of a playback that could not be filled; a playback that runs is told
\* first and closed after.
FillFails ==
  /\ work.at \in {"fill", "restart"}
  /\ IF work.starting
     THEN Close({work.id}) /\ Answer(FALSE) /\ work' = work.back /\ Silent
     ELSE Report({work.id}) /\ work' = [work EXCEPT !.at = "failed"] /\ Unanswered /\ UNCHANGED fileVars
  /\ UNCHANGED <<marked, nextId, engine, due>>

CloseFailed ==
  /\ work.at = "failed"
  /\ Close({work.id})
  /\ marked' = marked \ {work.id}
  /\ PollsCommand
  /\ UNCHANGED <<nextId, engine, call, due, told>>

\* The allocator hands out memory again as soon as it was returned.
Free == CHOOSE b \in Id \X (1 .. MaxTarget + 1) : b[1] = work.id /\ b \notin heap

\* restartOrMarkEOF, at the end of a segment.
Over(file) == [file EXCEPT !.eof = file.loops = 0]
Continues(file, over) == work' = IF over /\ file.loops # 0 THEN [work EXCEPT !.at = "restart"] ELSE work

NeedsBuffer == ~File.shape.cached /\ ~File.eof /\ Len(File.held) < work.target

ReadFrames ==
  /\ Filling /\ NeedsBuffer
  /\ File.read < File.shape.reads
  /\ LET read == [File EXCEPT !.read = @ + 1, !.held = Append(@, Free)]
         finished == read.read = File.shape.reads /\ ~File.shape.late
     IN /\ files' = [files EXCEPT ![work.id] = IF finished THEN Over(read) ELSE read]
        /\ Continues(read, finished)
  /\ queues' = [queues EXCEPT ![work.id] = Append(@, [buffer |-> Free, plays |-> 1])]
  /\ heap' = heap \cup {Free}
  /\ UNCHANGED <<marked, nextId, engine, call, due, told, heard>>

\* No frames and the end: what is queued is closed by a discontinuity.
ReadEnd ==
  /\ Filling /\ NeedsBuffer
  /\ File.read = File.shape.reads
  /\ files' = [files EXCEPT ![work.id] = Over(File)]
  /\ Continues(File, TRUE)
  /\ UNCHANGED <<marked, nextId, queues, heap, engine, call, due, told, heard>>

\* The file is opened anew, or its samples are in the cache by now.
Restart ==
  /\ work.at = "restart"
  /\ LET again == [File EXCEPT !.read = 0, !.loops = IF @ > 0 THEN @ - 1 ELSE @]
     IN files' = [files EXCEPT ![work.id] = again]
  /\ work' = [work EXCEPT !.at = "fill"]
  /\ UNCHANGED <<marked, nextId, queues, heap, engine, call, due, told, heard>>

NeedsLoop == File.shape.cached /\ Queued < work.target /\ File.plays > 0

LoopCount(plays) == plays - 1

\* A cached file is one buffer, submitted for up to MaxLoop + 1 plays.
SubmitLoop ==
  /\ Filling /\ NeedsLoop
  /\ LET plays == IF File.plays > MaxLoop + 1 THEN MaxLoop + 1 ELSE File.plays
     IN /\ LoopCount(plays) <= MaxLoop
        /\ files' = [files EXCEPT ![work.id].plays = @ - plays]
        /\ queues' = [queues EXCEPT ![work.id] = Append(@, [buffer |-> Cached, plays |-> LoopCount(plays) + 1])]
  /\ UNCHANGED <<marked, nextId, heap, engine, call, work, due, told, heard>>

Filled == Filling /\ ~NeedsBuffer /\ ~NeedsLoop

PlaybackStarts ==
  /\ Filled /\ work.starting
  /\ IF File.eof /\ File.held = << >>
     THEN Close({work.id}) /\ Answer(FALSE)
     ELSE Answer(TRUE) /\ UNCHANGED fileVars
  /\ work' = work.back
  /\ UNCHANGED <<marked, nextId, engine, due, told>>

PlaybackFilled ==
  /\ Filled /\ ~work.starting
  /\ PollsCommand
  /\ UNCHANGED <<marked, nextId, fileVars, engine, call, due, told>>

(***************************************************************************)
(* Maintenance: fade-outs, reclaiming, refilling.                           *)
(***************************************************************************)
FadeOut(p) ==
  /\ work.at = "fade"
  /\ p \in Playing
  /\ \/ files[p].fade = "gone" /\ Report({p})
     \/ files[p].fade # "no" /\ engine = "bad" /\ Report({p})
  /\ Close({p})
  /\ marked' = marked \ {p}
  /\ UNCHANGED <<nextId, engine, call, work, due>>

FadedOut ==
  /\ work.at = "fade"
  /\ \A p \in Playing : files[p].fade # "gone"
  /\ work' = IF Playing = {} THEN Rest("select") ELSE [at |-> "reclaim", todo |-> Playing]
  /\ UNCHANGED <<marked, nextId, fileVars, engine, call, due, told>>

\* The voice is asked how much it has queued, and plays on while the rest is freed.
ReadQueued(p) ==
  /\ work.at = "reclaim"
  /\ p \in work.todo
  /\ work' = [at |-> "free", todo |-> work.todo \ {p}, id |-> p, queued |-> Len(queues[p])]
  /\ UNCHANGED <<marked, nextId, fileVars, engine, call, due, told>>

Consumed(file, queued) == Len(file.held) - queued

\* Mutant: a cached playback is over as soon as its voice has nothing queued.
QuietIsOver ==
  IF File.shape.cached THEN [File EXCEPT !.eof = work.queued = 0]
  ELSE [File EXCEPT !.held = SubSeq(@, Consumed(File, work.queued) + 1, Len(@))]

Reclaimed ==
  IF File.shape.cached
  THEN [File EXCEPT !.eof = work.queued = 0 /\ File.plays = 0]
  ELSE [File EXCEPT !.held = SubSeq(@, Consumed(File, work.queued) + 1, Len(@))]

Reclaim ==
  /\ work.at = "free"
  /\ work' = [at |-> "reclaim", todo |-> work.todo]
  /\ IF Reclaimed.eof /\ Reclaimed.held = << >>
     THEN /\ Close({work.id})
          /\ marked' = marked \ {work.id}
          /\ Report({work.id})
     ELSE /\ files' = [files EXCEPT ![work.id] = Reclaimed]
          /\ heap' = heap \ (ToSet(File.held) \ ToSet(Reclaimed.held))
          /\ UNCHANGED <<queues, marked, heard>> /\ Silent
  /\ UNCHANGED <<nextId, engine, call, due>>

RefillAt(target, todo) == [at |-> "refill", target |-> target, todo |-> todo]

AllReclaimed ==
  /\ work.at = "reclaim"
  /\ work.todo = {}
  /\ work' = IF Playing = {} THEN Rest("select") ELSE RefillAt(1, Playing)
  /\ UNCHANGED <<marked, nextId, fileVars, engine, call, due, told>>

\* refillFilePlaybacks.
RefillNext(p) ==
  /\ work.at = "refill"
  /\ p \in work.todo \cap Playing
  /\ work' = [at |-> "fill", id |-> p, target |-> work.target, starting |-> FALSE,
              back |-> RefillAt(work.target, work.todo \ {p})]
  /\ UNCHANGED <<marked, nextId, fileVars, engine, call, due, told>>

RefillDone ==
  /\ work.at = "refill"
  /\ work.todo \cap Playing = {}
  /\ work' = IF Playing = {} \/ work.target = MaxTarget THEN Rest("select") ELSE RefillAt(work.target + 1, Playing)
  /\ UNCHANGED <<marked, nextId, fileVars, engine, call, due, told>>

(***************************************************************************)
(* The device and the clock.                                                *)
(***************************************************************************)
PlayedOnce(buffer) == IF buffer.plays = 1 THEN << >> ELSE <<[buffer EXCEPT !.plays = @ - 1]>>

DevicePlays(p) ==
  /\ engine = "good"
  /\ queues[p] # << >>
  /\ Head(queues[p]).plays # -1
  /\ queues' = [queues EXCEPT ![p] = PlayedOnce(Head(@)) \o Tail(@)]
  /\ heard' = [heard EXCEPT ![p] = @ + 1]
  /\ UNCHANGED <<marked, nextId, files, heap, engine, call, work, due, told>>

CriticalError ==
  /\ engine = "good"
  /\ engine' = "bad"
  /\ UNCHANGED <<marked, nextId, fileVars, call, work, due, told>>

Tick ==
  /\ Playing # {} /\ ~due
  /\ due' = TRUE
  /\ UNCHANGED <<marked, nextId, fileVars, engine, call, work, told>>

FadeElapses(p) ==
  /\ p \in Playing
  /\ files[p].fade = "fading"
  /\ files' = [files EXCEPT ![p].fade = "gone"]
  /\ UNCHANGED <<marked, nextId, queues, heap, engine, call, work, due, told, heard>>

Caller ==
  \/ Start
  \/ \E s \in Shapes : Play(s)
  \/ \E p \in Id : SetPosition(p) \/ \E fade \in BOOLEAN : Stop(p, fade)
  \/ \E fade \in BOOLEAN : StopAll(fade)
  \/ Shutdown
  \/ Return

Worker ==
  \/ TakeCommand \/ TakeTick
  \/ NoRecovery \/ RecoverCriticalError \/ RecreateEngine
  \/ OpenPlayback \/ OpenFails \/ PositionPlayback \/ StopPlaybacks \/ HandleShutdown
  \/ FillFails \/ CloseFailed \/ ReadFrames \/ ReadEnd \/ Restart \/ SubmitLoop \/ PlaybackStarts \/ PlaybackFilled
  \/ \E p \in Id : FadeOut(p) \/ ReadQueued(p) \/ RefillNext(p)
  \/ FadedOut \/ Reclaim \/ AllReclaimed \/ RefillDone

PlayerNext ==
  \/ Caller
  \/ Worker
  \/ \E p \in Id : DevicePlays(p) \/ FadeElapses(p)
  \/ CriticalError
  \/ Tick

PlayerSpec == PlayerInit /\ [][PlayerNext]_playerVars

\* The worker runs, the ticker ticks, a good engine plays and the caller takes its answer.
PlayerFairness ==
  /\ WF_playerVars(Worker)
  /\ WF_playerVars(Tick)
  /\ WF_playerVars(Return)
  /\ \A p \in Id : WF_playerVars(DevicePlays(p))

(***************************************************************************)
(* Properties.                                                              *)
(***************************************************************************)
\* The device never reads memory that was returned: what a voice still has queued is held by its
\* playback, in its order, while the worker reclaims behind it, fills, fades and recovers; and what no
\* playback holds was returned.
VoicesReadLiveMemory ==
  /\ \A p \in Id : queues[p] # << >> =>
       /\ p \in Playing
       /\ ~files[p].shape.cached =>
            LET played == Len(files[p].held) - Len(queues[p])
            IN played >= 0 /\ \A i \in DOMAIN queues[p] : queues[p][i].buffer = files[p].held[played + i]
  /\ heap = BuffersOf(Playing)
  /\ engine = "none" => Playing = {}

\* What the game asks of a number is what the worker plays: between maintenance and calls the marks
\* are the playbacks, whichever of starting, playing, recovering and stopping failed before.
MarksFollowPlaybacks == work.at \in {"select", "stopped"} /\ call = NoCall => marked = Playing

\* A playback and its voice are one: the device reads what the playback holds, and the game's marks are
\* the playbacks.
PlaybacksAreWhole == VoicesReadLiveMemory /\ MarksFollowPlaybacks

Total(s) == (s.loops + 1) * (IF s.cached THEN 1 ELSE s.reads)

Ends(p) == p \in Playing /\ p \notin Playing'

\* A playback that ends is reported once, unless the game ended it itself or never learnt its number;
\* and one that is reclaimed at its end has had every buffer of every loop played by the device.
EndsAreTold ==
  [][\A p \in Id :
       /\ told'[p] <= 1
       /\ Ends(p) => \/ told'[p] = 1
                     \/ work.at = "handle" /\ call.kind # "position"
                     \/ work.at \in {"fill", "restart"} /\ call'.at = "answered" /\ call'.refused = p
       /\ Ends(p) /\ work.at = "free" /\ files[p].fade = "no" => heard[p] = Total(files[p].shape)]_playerVars

\* A playback that does not loop for ever ends, however the game's calls, the critical errors and the
\* other playbacks interleave with it.
PlaybacksEnd ==
  \A p \in Id : p \in Playing /\ files[p].shape.loops >= 0 /\ engine # "none" ~> p \notin Playing

\* What the check of an empty playback says in its error, "Playback range is empty": a playback that
\* has nothing to play is refused, so that the call returns.
EmptyRangesAreRefused ==
  call.at = "sent" /\ call.kind = "play" /\ call.shape.reads = 0 ~> call.at # "sent"
=============================================================================
