---------------------------- MODULE VoiceRuntime ----------------------------
(***************************************************************************)
(* The voice part of the Realms native runtime (realms_voice.cpp): the game *)
(* thread, which calls the exported functions, the voice worker, and the    *)
(* callbacks of the audio devices, which run on threads of their own.       *)
(*                                                                          *)
(* Audio is counted in chunks of 10 ms.  Samples, echo reference, mixing,   *)
(* codecs and volumes are left out: what is modelled is which chunk ends up *)
(* in which packet, which packet reaches which decoder, and which device    *)
(* runs when.                                                               *)
(***************************************************************************)
EXTENDS Integers, Sequences, FiniteSets, SequencesExt, Queues

CONSTANTS
  Speaker,        \* the numbers Lua gives to speakers
  MaxSpeakers,    \* RealmsRuntime_MaximumHostMembers
  Chunks,         \* chunks of a voice frame: 1 or 2 (frame_ms / 10)
  Captured,       \* capacity of the captured ring
  PacketCapacity, \* kPacketCapacity
  Streams,        \* capture_stream counts modulo Streams: 2^32 in the code
  MaxRemovals     \* bound of the model: removals of a speaker

ASSUME VoiceAssumption ==
  /\ MaxSpeakers \in Nat \ {0}
  /\ Chunks \in {1, 2}
  /\ Captured \in Nat \ {0}
  /\ PacketCapacity \in Nat \ {0}
  /\ Streams \in Nat \ {0, 1}
  /\ MaxRemovals \in Nat

VARIABLES
  game,       \* the game thread: the step it has reached inside of an exported function
  voice,      \* Voice: flags, devices and configuration
  capturing,  \* Voice: captured, processed_samples, capture_stream and outgoing
  worker,     \* the voice worker: its step and the packets it has taken
  incoming,   \* Voice: packets and removals for the worker
  decoders,   \* Voice: the speakers that have a decoder, with the generation it was made for
  talking     \* Lua: the remote members that speak, and the removals of each

voiceVars == <<game, voice, capturing, worker, incoming, decoders, talking>>

AudioDevice == {"playback", "capture"}
NoVoice ==
  [started |-> FALSE, stopping |-> FALSE, wake |-> FALSE, failed |-> FALSE, changes |-> {},
   capture |-> FALSE, captureEnabled |-> FALSE, transmitting |-> FALSE, reference |-> FALSE,
   echo |-> FALSE, suppression |-> FALSE, defaults |-> {}]
NothingCaptured == [captured |-> 0, processed |-> << >>, stream |-> 0, outgoing |-> << >>]
NoWorker == [pc |-> "exited", packets |-> << >>]

VoiceInit ==
  /\ game = [pc |-> "idle", resume |-> FALSE, then |-> "idle"]
  /\ voice = NoVoice
  /\ capturing = NothingCaptured
  /\ worker = NoWorker
  /\ incoming = << >>
  /\ decoders = << >>
  /\ talking = [present |-> {}, generation |-> [s \in Speaker |-> 0]]

GameAt(pc) == game.pc = pc
VoiceIdle == GameAt("idle")
Healthy == voice.started /\ ~voice.failed
GameGoesTo(pc) == game' = [game EXCEPT !.pc = pc]
CaptureFree == worker.pc # "encode"      \* capture_mutex is free for the game thread
Processing == voice.echo \/ voice.suppression

(***************************************************************************)
(* Starting and stopping.                                                   *)
(***************************************************************************)
\* A start that fails joins its worker and leaves no Voice behind: not a step of the model.
StartVoice(echo, suppression, default) ==
  /\ VoiceIdle
  /\ ~voice.started
  /\ voice' = [NoVoice EXCEPT !.started = TRUE, !.echo = echo, !.suppression = suppression, !.defaults = default]
  /\ capturing' = NothingCaptured
  /\ worker' = [pc |-> "wait", packets |-> << >>]
  /\ incoming' = << >>
  /\ decoders' = << >>
  /\ talking' = [present |-> {}, generation |-> [s \in Speaker |-> 0]]
  /\ UNCHANGED game

\* ~Voice: the devices end with their callbacks, then the worker is woken and joined.
Destroying(v) ==
  /\ voice' = [v EXCEPT !.stopping = TRUE, !.wake = TRUE, !.capture = FALSE, !.reference = FALSE]
  /\ game' = [game EXCEPT !.pc = "join", !.then = "idle"]

StopVoice ==
  /\ VoiceIdle
  /\ voice.started
  /\ Destroying(voice)
  /\ UNCHANGED <<capturing, worker, incoming, decoders, talking>>

JoinWorker ==
  /\ GameAt("join")
  /\ worker.pc = "exited"
  /\ voice' = NoVoice
  /\ capturing' = NothingCaptured
  /\ incoming' = << >>
  /\ decoders' = << >>
  /\ worker' = NoWorker
  /\ talking' = [present |-> {}, generation |-> [s \in Speaker |-> 0]]
  /\ GameGoesTo("idle")

(***************************************************************************)
(* Capture.  Switching it off takes several steps, between which the worker *)
(* goes on; capture_mutex keeps it out of the last one.                     *)
(***************************************************************************)
CaptureOff ==
  /\ VoiceIdle
  /\ voice.capture
  /\ voice' = [voice EXCEPT !.transmitting = FALSE]
  /\ GameGoesTo("disable")
  /\ UNCHANGED <<capturing, worker, incoming, decoders, talking>>

DisableCapture ==
  /\ GameAt("disable")
  /\ voice' = [voice EXCEPT !.captureEnabled = FALSE]
  /\ GameGoesTo("uninit")
  /\ UNCHANGED <<capturing, worker, incoming, decoders, talking>>

UninitCapture ==
  /\ GameAt("uninit")
  /\ voice' = [voice EXCEPT !.capture = FALSE]
  /\ GameGoesTo("clear")
  /\ UNCHANGED <<capturing, worker, incoming, decoders, talking>>

\* Mutant: a frame that was not full is kept.
NewStreamKeepsSamples == [capturing EXCEPT !.captured = 0, !.stream = (@ + 1) % Streams, !.outgoing = << >>]

\* What was captured, processed and encoded for the last transmission goes.
NewStream == [captured |-> 0, processed |-> << >>, stream |-> (capturing.stream + 1) % Streams, outgoing |-> << >>]

ClearCapture ==
  /\ GameAt("clear")
  /\ CaptureFree
  /\ voice' = [voice EXCEPT !.reference = FALSE]
  /\ capturing' = NewStream
  /\ GameGoesTo(game.then)
  /\ UNCHANGED <<worker, incoming, decoders, talking>>

\* The device, the echo reference or the processing may fail; the capture device is then closed.
CaptureOn(default, works) ==
  /\ VoiceIdle \/ GameAt("reopen")
  /\ Healthy
  /\ ~voice.capture
  /\ CaptureFree
  /\ GameAt("reopen") => default
  /\ voice' = IF works
       THEN [voice EXCEPT !.capture = TRUE, !.captureEnabled = TRUE, !.reference = voice.echo,
                          !.defaults = IF default THEN @ \cup {"capture"} ELSE @ \ {"capture"}]
       ELSE voice
  /\ IF GameAt("reopen") THEN GameGoesTo(IF works THEN "resume" ELSE "stop") ELSE UNCHANGED game
  /\ UNCHANGED <<capturing, worker, incoming, decoders, talking>>

SetTransmission(enabled) ==
  /\ CaptureFree
  /\ voice' = [voice EXCEPT !.transmitting = enabled]
  /\ capturing' = NewStream

SetVoiceTransmission(enabled) ==
  /\ VoiceIdle
  /\ Healthy
  /\ enabled => voice.capture
  /\ voice.transmitting # enabled
  /\ SetTransmission(enabled)
  /\ UNCHANGED <<game, worker, incoming, decoders, talking>>

(***************************************************************************)
(* Playback and processing.  A failure ends the voice.                      *)
(***************************************************************************)
Reopened(v, default) ==
  [v EXCEPT !.reference = v.capture /\ v.echo,
            !.defaults = IF default THEN @ \cup {"playback"} ELSE @ \ {"playback"}]

SetPlaybackDevice(default, works) ==
  /\ VoiceIdle \/ (GameAt("replay") /\ default)
  /\ Healthy
  /\ CaptureFree
  /\ IF works
     THEN /\ voice' = Reopened(voice, default)
          /\ IF GameAt("replay") THEN GameGoesTo(game.then) ELSE UNCHANGED game
     ELSE Destroying(voice)
  /\ UNCHANGED <<capturing, worker, incoming, decoders, talking>>

SetVoiceProcessing(echo, suppression, works) ==
  /\ VoiceIdle
  /\ Healthy
  /\ CaptureFree
  /\ IF works
     THEN /\ voice' = [voice EXCEPT !.echo = echo, !.suppression = suppression, !.reference = echo /\ voice.capture]
          /\ capturing' = [capturing EXCEPT !.processed = << >>]
          /\ UNCHANGED game
     ELSE Destroying(voice) /\ UNCHANGED capturing
  /\ UNCHANGED <<worker, incoming, decoders, talking>>

(***************************************************************************)
(* UpdateVoice follows the default devices: it reopens playback, and then   *)
(* capture with the transmission it had.  A failed voice is destroyed.      *)
(***************************************************************************)
Changed == (voice.changes \cap voice.defaults) \ (IF voice.capture THEN {} ELSE {"capture"})

UpdateVoice ==
  /\ VoiceIdle
  /\ voice.started
  /\ IF voice.failed
     THEN Destroying(voice)
     ELSE /\ voice.changes # {}
          /\ voice' = [voice EXCEPT !.changes = {}]
          /\ LET capture == IF "capture" \in Changed THEN "recapture" ELSE "idle" IN
             game' = [pc |-> IF "playback" \in Changed THEN "replay" ELSE capture,
                      resume |-> voice.transmitting, then |-> capture]
  /\ UNCHANGED <<capturing, worker, incoming, decoders, talking>>

Recapture ==
  /\ GameAt("recapture")
  /\ voice' = [voice EXCEPT !.transmitting = FALSE]
  /\ game' = [game EXCEPT !.pc = "disable", !.then = "reopen"]
  /\ UNCHANGED <<capturing, worker, incoming, decoders, talking>>

ResumeTransmission ==
  /\ GameAt("resume")
  /\ Healthy
  /\ IF game.resume THEN SetTransmission(TRUE) ELSE UNCHANGED <<voice, capturing>>
  /\ game' = [game EXCEPT !.pc = "idle", !.then = "idle"]
  /\ UNCHANGED <<worker, incoming, decoders, talking>>

\* A step found the voice failed, or failed itself.  Before playback is reopened the voice is
\* left to the next update.
UpdateFails ==
  \/ /\ GameAt("replay")
     /\ voice.failed
     /\ game' = [game EXCEPT !.pc = "idle", !.then = "idle"]
     /\ UNCHANGED <<voice, capturing, worker, incoming, decoders, talking>>
  \/ /\ GameAt("stop") \/ (game.pc \in {"reopen", "resume"} /\ voice.failed)
     /\ Destroying(voice)
     /\ UNCHANGED <<capturing, worker, incoming, decoders, talking>>

(***************************************************************************)
(* Packets: to Lua, and from Lua to the worker.                             *)
(***************************************************************************)
\* PollVoicePacket also drops the packets at the front that are too old.
PollVoicePacket ==
  /\ VoiceIdle
  /\ Healthy
  /\ capturing.outgoing # << >>
  /\ capturing' = [capturing EXCEPT !.outgoing = Tail(@)]
  /\ UNCHANGED <<game, voice, worker, incoming, decoders, talking>>

\* A queue, or a list of decoders, without those of a speaker.
Without(queue, s) == Keeping(queue, {i \in DOMAIN queue : queue[i].speaker # s})

Ordinary(queue) == {i \in DOMAIN queue : ~queue[i].remove}
Oldest(S) == CHOOSE i \in S : \A j \in S : i <= j

HasRoom == Len(incoming) < PacketCapacity \/ Ordinary(incoming) # {}

\* Mutant: a full queue drops its oldest entry, be it a removal.
EnqueuedDropsRemovals(packet) ==
  Append(IF Len(incoming) < PacketCapacity THEN incoming ELSE Tail(incoming), packet)

\* enqueue_packet: a removal replaces the packets of its speaker, a packet the oldest packet
\* of a full queue.
Enqueued(packet) ==
  IF packet.remove
  THEN Append(Without(incoming, packet.speaker), packet)
  ELSE IF Len(incoming) < PacketCapacity THEN Append(incoming, packet)
  ELSE IF ~HasRoom THEN incoming
  ELSE Append(RemoveAt(incoming, Oldest(Ordinary(incoming))), packet)

\* Lua numbers the remote members, of whom there are MaxSpeakers - 1 at a time, and uses
\* the number of one who has left never again.
MaySpeak(s) ==
  \/ s \in talking.present
  \/ talking.generation[s] = 0 /\ Cardinality(talking.present) < MaxSpeakers - 1

SubmitVoicePacket(s) ==
  /\ VoiceIdle
  /\ Healthy
  /\ MaySpeak(s)
  /\ talking' = [talking EXCEPT !.present = @ \cup {s}]
  /\ incoming' = Enqueued([speaker |-> s, generation |-> talking.generation[s], remove |-> FALSE])
  /\ voice' = [voice EXCEPT !.wake = @ \/ HasRoom]
  /\ UNCHANGED <<game, capturing, worker, decoders>>

\* The speaker's next packets are of another stream, it is muted, or it leaves.
RemoveVoiceSpeaker(s, leaves) ==
  /\ VoiceIdle
  /\ Healthy
  /\ MaySpeak(s)
  /\ talking.generation[s] < MaxRemovals
  /\ talking' = [talking EXCEPT !.present = IF leaves THEN @ \ {s} ELSE @ \cup {s}, !.generation[s] = @ + 1]
  /\ incoming' = Enqueued([speaker |-> s, generation |-> talking.generation[s], remove |-> TRUE])
  /\ voice' = [voice EXCEPT !.wake = TRUE]
  /\ UNCHANGED <<game, capturing, worker, decoders>>

(***************************************************************************)
(* The devices.                                                             *)
(***************************************************************************)
\* audio_callback of the capture device, and of the others, which only wake the worker here.
CaptureCallback ==
  /\ voice.capture
  /\ voice.captureEnabled
  /\ ~voice.stopping
  /\ voice.transmitting \/ Processing
  /\ capturing' = [capturing EXCEPT !.captured = IF @ < Captured THEN @ + 1 ELSE @]
  /\ voice' = [voice EXCEPT !.wake = TRUE]
  /\ UNCHANGED <<game, worker, incoming, decoders, talking>>

PlaybackCallback ==
  /\ voice.started
  /\ ~voice.stopping
  /\ ~voice.wake
  /\ voice' = [voice EXCEPT !.wake = TRUE]
  /\ UNCHANGED <<game, capturing, worker, incoming, decoders, talking>>

\* notification: a default device is reopened by the next update, another one ends the voice.
DeviceStops(d) ==
  /\ voice.started
  /\ ~voice.stopping
  /\ ~GameAt("replay")
  /\ d = "capture" => voice.capture /\ voice.captureEnabled
  /\ voice' = IF d \in voice.defaults
              THEN [voice EXCEPT !.changes = @ \cup {d}]
              ELSE [voice EXCEPT !.failed = TRUE, !.wake = TRUE]
  /\ UNCHANGED <<game, capturing, worker, incoming, decoders, talking>>

(***************************************************************************)
(* The worker.                                                              *)
(***************************************************************************)
WorkerAt(pc) == worker.pc = pc
WorkerGoes(pc) == worker' = [worker EXCEPT !.pc = pc]
WorkerFails == voice' = [voice EXCEPT !.failed = TRUE, !.wake = TRUE]

Wakes ==
  /\ WorkerAt("wait")
  /\ voice.wake
  /\ voice' = [voice EXCEPT !.wake = FALSE]
  /\ WorkerGoes(IF voice.stopping THEN "exited" ELSE "capture")
  /\ UNCHANGED <<game, capturing, incoming, decoders, talking>>

\* encode_capture takes capture_mutex; it keeps two frames of what was captured.
LockCapture ==
  /\ WorkerAt("capture")
  /\ IF voice.captureEnabled
     THEN /\ WorkerGoes("encode")
          /\ capturing' = [capturing EXCEPT !.captured = IF @ > 2 * Chunks THEN 2 * Chunks ELSE @]
     ELSE WorkerGoes("swap") /\ UNCHANGED capturing
  /\ UNCHANGED <<game, voice, incoming, decoders, talking>>

\* A chunk is encoded only while transmitting; a frame that is full becomes a packet.
EncodeChunk ==
  /\ WorkerAt("encode")
  /\ capturing.captured > 0
  /\ LET stream == capturing.stream
         processed == Append(capturing.processed, stream)
         full == Len(processed) = Chunks
         packet == [stream |-> stream, chunks |-> processed]
         room == Len(capturing.outgoing) < PacketCapacity IN
     capturing' = IF ~voice.transmitting
       THEN [capturing EXCEPT !.captured = @ - 1]
       ELSE [capturing EXCEPT !.captured = @ - 1,
                              !.processed = IF full THEN << >> ELSE processed,
                              !.outgoing = IF full /\ room THEN Append(@, packet) ELSE @]
  /\ UNCHANGED <<game, voice, worker, incoming, decoders, talking>>

EncodeFails ==
  /\ WorkerAt("encode")
  /\ WorkerFails
  /\ WorkerGoes("swap")
  /\ UNCHANGED <<game, capturing, incoming, decoders, talking>>

UnlockCapture ==
  /\ WorkerAt("encode")
  /\ capturing.captured = 0
  /\ WorkerGoes("swap")
  /\ UNCHANGED <<game, voice, capturing, incoming, decoders, talking>>

TakePackets ==
  /\ WorkerAt("swap")
  /\ worker' = [pc |-> "decode", packets |-> incoming]
  /\ incoming' = << >>
  /\ UNCHANGED <<game, voice, capturing, decoders, talking>>

\* decode_packet.  decoders lists [speaker, generation]; the generation is that of the packet
\* the decoder was made for.
DecoderOf(s) == {i \in DOMAIN decoders : decoders[i].speaker = s}
NextPacket == worker' = [worker EXCEPT !.packets = Tail(@)]
NewDecoder(p) == Append(decoders, [speaker |-> p.speaker, generation |-> p.generation])

Decode ==
  LET p == Head(worker.packets) IN
  /\ WorkerAt("decode")
  /\ worker.packets # << >>
  /\ NextPacket
  /\ IF p.remove THEN decoders' = Without(decoders, p.speaker) /\ UNCHANGED voice
     ELSE IF DecoderOf(p.speaker) # {} THEN UNCHANGED <<decoders, voice>>
     ELSE IF Len(decoders) >= MaxSpeakers THEN WorkerFails /\ UNCHANGED decoders
     ELSE decoders' = NewDecoder(p) /\ UNCHANGED voice
  /\ UNCHANGED <<game, capturing, incoming, talking>>

PacketExpired ==
  /\ WorkerAt("decode")
  /\ worker.packets # << >>
  /\ ~Head(worker.packets).remove
  /\ NextPacket
  /\ UNCHANGED <<game, voice, capturing, incoming, decoders, talking>>

\* The codec fails; the decoder of a new speaker may exist by then.
DecodeFails ==
  /\ WorkerAt("decode")
  /\ worker.packets # << >>
  /\ ~Head(worker.packets).remove
  /\ WorkerFails
  /\ NextPacket
  /\ UNCHANGED <<game, capturing, incoming, decoders, talking>>

MixAndLoop ==
  /\ WorkerAt("decode")
  /\ worker.packets = << >>
  /\ WorkerGoes(IF voice.failed \/ voice.stopping THEN "exited" ELSE "wait")
  /\ UNCHANGED <<game, voice, capturing, incoming, decoders, talking>>

VoiceWorker ==
  \/ Wakes \/ LockCapture \/ EncodeChunk \/ EncodeFails \/ UnlockCapture
  \/ TakePackets \/ Decode \/ PacketExpired \/ DecodeFails \/ MixAndLoop

GameOperation ==
  \/ \E e, n \in BOOLEAN, default \in {{}, {"playback"}} : StartVoice(e, n, default)
  \/ StopVoice \/ CaptureOff \/ UpdateVoice \/ PollVoicePacket
  \/ \E default, works \in BOOLEAN : CaptureOn(default, works) \/ SetPlaybackDevice(default, works)
  \/ \E enabled \in BOOLEAN : SetVoiceTransmission(enabled)
  \/ \E e, n, works \in BOOLEAN : SetVoiceProcessing(e, n, works)
  \/ \E s \in Speaker : SubmitVoicePacket(s) \/ \E leaves \in BOOLEAN : RemoveVoiceSpeaker(s, leaves)

GameStep ==
  JoinWorker \/ DisableCapture \/ UninitCapture \/ ClearCapture \/ Recapture \/ ResumeTransmission \/ UpdateFails

AudioDevices == CaptureCallback \/ PlaybackCallback \/ \E d \in AudioDevice : DeviceStops(d)

VoiceNext == GameOperation \/ GameStep \/ AudioDevices \/ VoiceWorker

VoiceSpec == VoiceInit /\ [][VoiceNext]_voiceVars

(***************************************************************************)
(* Properties.                                                              *)
(***************************************************************************)
\* Push-to-talk: between two operations every chunk that waits to be encoded or sent belongs to
\* the running transmission.  What was said before it, or before a change of the device, is
\* never sent, and no packet mixes two transmissions.
OnlyTheRunningTransmission ==
  VoiceIdle =>
    /\ \A i \in DOMAIN capturing.outgoing :
         LET packet == capturing.outgoing[i] IN
         packet.stream = capturing.stream /\ \A j \in DOMAIN packet.chunks : packet.chunks[j] = packet.stream
    /\ \A i \in DOMAIN capturing.processed : capturing.processed[i] = capturing.stream
    /\ capturing.outgoing # << >> \/ capturing.processed # << >> => voice.transmitting

\* A packet is decoded by the decoder of its own stream, and a new speaker finds room: the
\* removal of a speaker is never lost in a full queue and never overtaken by other packets.
DecodersFollowStreams ==
  worker.packets # << >> /\ ~Head(worker.packets).remove =>
    LET p == Head(worker.packets) IN
    /\ \A i \in DecoderOf(p.speaker) : decoders[i].generation = p.generation
    /\ DecoderOf(p.speaker) = {} => Len(decoders) < MaxSpeakers

\* The echo reference runs exactly while it is of use, whatever device is opened, reopened or
\* closed and whatever processing is chosen, in any order.
ReferenceFollowsCapture ==
  (VoiceIdle /\ voice.started) => (voice.reference <=> voice.capture /\ voice.echo)

\* The worker never sleeps while something waits for it: a packet, a captured chunk, or the
\* destructor, which joins it under the mutex that every function takes.
WorkerIsWoken ==
  (worker.pc = "wait" /\ ~voice.wake) =>
    /\ incoming = << >>
    /\ ~voice.stopping
    /\ voice.captureEnabled => capturing.captured = 0

\* Speakers are heard: their packets meet the decoder they need, the echo they cause is known, and the
\* worker wakes up for them.
SpeakersAreHeard == DecodersFollowStreams /\ ReferenceFollowsCapture /\ WorkerIsWoken
=============================================================================
