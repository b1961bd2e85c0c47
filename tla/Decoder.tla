------------------------------ MODULE Decoder ------------------------------
(***************************************************************************)
(* Reading of decoded samples in the SimpleAudio runtime (ffmpeg/decoder.c, *)
(* filter.c, raw_cache.c): packets of a file go through a codec and then    *)
(* through a resampler or a filter graph into the caller's buffer, whose    *)
(* size has nothing to do with that of a packet, a frame or a chunk that    *)
(* the graph returns.  Decoded frames may also come from the raw cache.     *)
(*                                                                          *)
(* A sample is its place in the stream.  FFmpeg is external: codec,         *)
(* resampler and graph are queues that answer when they like until they are *)
(* flushed, and may fail.                                                   *)
(***************************************************************************)
EXTENDS Integers, Sequences, SequencesExt

CONSTANTS
  Streams,      \* files: sequences of packets; a packet is another stream's or a sequence of frame sizes
  MaxRead,      \* bound: frames a caller asks for at once
  MaxBytes,     \* budgets of a raw cache build
  Overhead      \* SA_RAW_FRAME_OVERHEAD

Other == <<-1>>
Modes == {"resample", "filter", "cached", "build"}

VARIABLES
  mode,        \* what reads: a decoder without or with filters, a cached filter decoder, a raw build
  stream,      \* the packets
  input,       \* packets read, the packet held, input_eof, sent_flush, and the codec's queue of frames
  filter,      \* the resampler or the graph: its queue, whether it exists, was sent the end, is finished
  pending,     \* pending_samples
  readAt,      \* where the call is; what it has written and may write
  output,      \* all samples written so far, and whether the end was reported
  raw          \* the raw cache: frames, byte_count, budget

decoderVars == <<mode, stream, input, filter, pending, readAt, output, raw>>

Idle == [at |-> "idle", written |-> 0, max |-> 0]
InputStart == [next |-> 1, packet |-> FALSE, eof |-> FALSE, flushed |-> FALSE, codec |-> << >>, frame |-> << >>]
FilterStart == [made |-> FALSE, queue |-> << >>, eof |-> FALSE, finished |-> FALSE]

\* The frames of the packets, as runs of sample numbers.
Sizes(packets) == FlattenSeq([i \in DOMAIN packets |-> IF packets[i] = Other THEN << >> ELSE packets[i]])
Before(sizes, i) == FoldLeft(+, 0, SubSeq(sizes, 1, i - 1))
Frames(packets) ==
  LET sizes == Sizes(packets)
  IN [i \in DOMAIN sizes |-> [k \in 1 .. sizes[i] |-> Before(sizes, i) + k]]
FramesOf(packets, i) == SubSeq(Frames(packets), Len(Sizes(SubSeq(packets, 1, i - 1))) + 1, Len(Sizes(SubSeq(packets, 1, i))))

DecoderInit ==
  /\ mode \in Modes
  /\ stream \in Streams
  /\ input = InputStart
  /\ filter = FilterStart
  /\ pending = << >>
  /\ readAt = Idle
  /\ output = [samples |-> << >>, finished |-> FALSE]
  /\ \E budget \in MaxBytes :
       raw = [frames |-> IF mode = "cached" THEN Frames(stream) ELSE << >>, bytes |-> 0, max |-> budget, tooLarge |-> FALSE]
  /\ mode = "cached" => Frames(stream) # << >>

At(place) == readAt.at = place
Goto(place) == readAt' = [readAt EXCEPT !.at = place]
Returns == readAt' = Idle
Fails == Goto("failed")
Room == readAt.max - readAt.written
Filtered == mode \in {"filter", "cached"}

(***************************************************************************)
(* sa_decoder_read and sa_raw_filter_decoder_read.                          *)
(***************************************************************************)
\* What the graph still has comes first.
ReadCall(max) ==
  /\ mode # "build"
  /\ At("idle")
  /\ ~output.finished
  /\ readAt' = [at |-> IF filter.made /\ ~filter.finished /\ Filtered THEN "drain" ELSE "next", written |-> 0, max |-> max]
  /\ UNCHANGED <<mode, stream, input, filter, pending, output, raw>>

\* Mutant: a read returns after the first frame.
OneFrameOnly(room) == "return"

\* The loop of a read, after a frame or after the first drain.
More(room) == IF room > 0 THEN "next" ELSE "return"

ReadReturns == At("return") /\ Returns /\ UNCHANGED <<mode, stream, input, filter, pending, output, raw>>

CachedFrame ==
  /\ mode = "cached"
  /\ At("next")
  /\ input.next <= Len(raw.frames)
  /\ input' = [input EXCEPT !.next = @ + 1, !.frame = raw.frames[input.next]]
  /\ Goto("convert")
  /\ UNCHANGED <<mode, stream, filter, pending, output, raw>>

CachedEnd ==
  /\ mode = "cached"
  /\ At("next")
  /\ input.next > Len(raw.frames)
  /\ Goto("end")
  /\ UNCHANGED <<mode, stream, input, filter, pending, output, raw>>

(***************************************************************************)
(* sa_decoder_next_frame.                                                   *)
(***************************************************************************)
Nexting(place) == mode # "cached" /\ At(place)

ReceiveFrame ==
  /\ Nexting("next")
  /\ input.codec # << >>
  /\ input' = [input EXCEPT !.codec = Tail(@), !.frame = Head(input.codec)]
  /\ Goto("convert")
  /\ UNCHANGED <<mode, stream, filter, pending, output, raw>>

ReceiveEnd ==
  /\ Nexting("next")
  /\ input.flushed /\ input.codec = << >>
  /\ Goto("end")
  /\ UNCHANGED <<mode, stream, input, filter, pending, output, raw>>

\* EAGAIN: the codec wants input, although it may hold frames.
ReceiveNothing ==
  /\ Nexting("next")
  /\ ~input.flushed
  /\ Goto(IF input.packet \/ input.eof THEN "send" ELSE "input")
  /\ UNCHANGED <<mode, stream, input, filter, pending, output, raw>>

Flushes == input.eof /\ ~input.packet

SendPacket ==
  /\ At("send") /\ ~Flushes
  /\ input' = [input EXCEPT !.packet = FALSE, !.codec = @ \o FramesOf(stream, input.next - 1)]
  /\ Goto("next")
  /\ UNCHANGED <<mode, stream, filter, pending, output, raw>>

SendFlush ==
  /\ At("send") /\ Flushes
  /\ input' = [input EXCEPT !.flushed = TRUE]
  /\ Goto("next")
  /\ UNCHANGED <<mode, stream, filter, pending, output, raw>>

SkipPacket ==
  /\ At("input")
  /\ input.next <= Len(stream) /\ stream[input.next] = Other
  /\ input' = [input EXCEPT !.next = @ + 1]
  /\ UNCHANGED <<mode, stream, filter, pending, readAt, output, raw>>

ReadPacket ==
  /\ At("input")
  /\ input.next <= Len(stream) /\ stream[input.next] # Other
  /\ input' = [input EXCEPT !.next = @ + 1, !.packet = TRUE]
  /\ Goto("next")
  /\ UNCHANGED <<mode, stream, filter, pending, output, raw>>

ReadEof ==
  /\ At("input")
  /\ input.next > Len(stream)
  /\ input' = [input EXCEPT !.eof = TRUE]
  /\ Goto("next")
  /\ UNCHANGED <<mode, stream, filter, pending, output, raw>>

(***************************************************************************)
(* sa_decoder_convert_frame, sa_decoder_flush_resampler.                    *)
(***************************************************************************)
Writes(samples) == output' = [output EXCEPT !.samples = @ \o samples]
Smaller(a, b) == IF a < b THEN a ELSE b

\* The resampler takes the whole frame, returns what it likes up to the room and keeps the rest; with
\* no room the frame would be lost.
ConvertFrame ==
  /\ mode = "resample"
  /\ At("convert")
  /\ LET queue == IF Room > 0 THEN filter.queue \o input.frame ELSE filter.queue
     IN \E k \in 0 .. Smaller(Room, Len(queue)) :
          /\ Writes(SubSeq(queue, 1, k))
          /\ filter' = [filter EXCEPT !.made = TRUE, !.queue = SubSeq(queue, k + 1, Len(queue))]
          /\ readAt' = [readAt EXCEPT !.written = @ + k, !.at = More(Room - k)]
  /\ input' = [input EXCEPT !.frame = << >>]
  /\ UNCHANGED <<mode, stream, pending, raw>>

\* A flushed resampler returns something until it has nothing left.
FlushResampler ==
  /\ mode = "resample"
  /\ At("end")
  /\ filter.queue # << >> /\ Room > 0
  /\ \E k \in 1 .. Smaller(Room, Len(filter.queue)) :
       /\ Writes(SubSeq(filter.queue, 1, k))
       /\ filter' = [filter EXCEPT !.queue = SubSeq(@, k + 1, Len(@))]
       /\ readAt' = [readAt EXCEPT !.written = @ + k]
  /\ UNCHANGED <<mode, stream, input, pending, raw>>

ResamplerEmpty == Room > 0 /\ filter.queue = << >>

Finishes(ended) ==
  /\ output' = [output EXCEPT !.finished = ended]
  /\ Returns

ResamplerFlushed ==
  /\ mode = "resample"
  /\ At("end")
  /\ Room = 0 \/ filter.queue = << >>
  /\ Finishes(ResamplerEmpty)
  /\ UNCHANGED <<mode, stream, input, filter, pending, raw>>

(***************************************************************************)
(* sa_decoder_filter_frame, sa_filter_drain, sa_filter_flush.               *)
(***************************************************************************)
FilterFrame ==
  /\ Filtered
  /\ At("convert")
  /\ filter' = [filter EXCEPT !.made = TRUE, !.queue = @ \o input.frame]
  /\ input' = [input EXCEPT !.frame = << >>]
  /\ Goto("drain")
  /\ UNCHANGED <<mode, stream, pending, output, raw>>

\* A file without a frame has no graph.
FilterFlush ==
  /\ Filtered
  /\ At("end")
  /\ IF filter.made
     THEN filter' = [filter EXCEPT !.eof = TRUE] /\ Goto("last") /\ UNCHANGED output
     ELSE Finishes(TRUE) /\ UNCHANGED filter
  /\ UNCHANGED <<mode, stream, input, pending, raw>>

Draining == readAt.at \in {"drain", "last"}

CopyPending ==
  /\ Draining
  /\ pending # << >> /\ Room > 0
  /\ LET k == Smaller(Room, Len(pending))
     IN /\ Writes(SubSeq(pending, 1, k))
        /\ pending' = SubSeq(pending, k + 1, Len(pending))
        /\ readAt' = [readAt EXCEPT !.written = @ + k]
  /\ UNCHANGED <<mode, stream, input, filter, raw>>

\* Mutant: what does not fit is dropped.
DropRest(chunk, k) == << >>

StorePending(chunk, k) == SubSeq(chunk, k + 1, Len(chunk))

\* The graph returns chunks of its own size.
GetFrame ==
  /\ Draining
  /\ pending = << >> /\ Room > 0 /\ ~filter.finished
  /\ \E n \in 1 .. Len(filter.queue) :
       LET chunk == SubSeq(filter.queue, 1, n)
           k == Smaller(Room, n)
       IN /\ Writes(SubSeq(chunk, 1, k))
          /\ pending' = StorePending(chunk, k)
          /\ filter' = [filter EXCEPT !.queue = SubSeq(@, n + 1, Len(@))]
          /\ readAt' = [readAt EXCEPT !.written = @ + k]
  /\ UNCHANGED <<mode, stream, input, raw>>

EndOfFilter ==
  /\ Draining
  /\ pending = << >> /\ Room > 0 /\ ~filter.finished
  /\ filter.eof /\ filter.queue = << >>
  /\ filter' = [filter EXCEPT !.finished = TRUE]
  /\ UNCHANGED <<mode, stream, input, pending, readAt, output, raw>>

\* The buffer is full, the graph wants more input, or it has ended.
Drained ==
  /\ Draining
  /\ \/ Room = 0
     \/ pending = << >> /\ (filter.finished \/ ~filter.eof)
  /\ IF At("last")
     THEN Finishes(filter.finished)
     ELSE Goto(More(Room)) /\ UNCHANGED output
  /\ UNCHANGED <<mode, stream, input, filter, pending, raw>>

(***************************************************************************)
(* sa_raw_audio_decode.                                                     *)
(***************************************************************************)
StartBuild ==
  /\ mode = "build"
  /\ At("idle")
  /\ ~output.finished /\ raw.frames = << >> /\ ~raw.tooLarge
  /\ Goto("next")
  /\ UNCHANGED <<mode, stream, input, filter, pending, output, raw>>

Accounted(frame) == Len(frame) + Overhead

Fits(frame) == raw.bytes <= raw.max - Accounted(frame)

AppendFrame ==
  /\ mode = "build"
  /\ At("convert")
  /\ Fits(input.frame)
  /\ raw' = [raw EXCEPT !.frames = Append(@, input.frame), !.bytes = @ + Accounted(input.frame)]
  /\ input' = [input EXCEPT !.frame = << >>]
  /\ Goto("next")
  /\ UNCHANGED <<mode, stream, filter, pending, output>>

\* Everything decoded so far is closed.
TooLarge ==
  /\ mode = "build"
  /\ At("convert")
  /\ ~Fits(input.frame)
  /\ raw' = [raw EXCEPT !.frames = << >>, !.tooLarge = TRUE]
  /\ Fails
  /\ UNCHANGED <<mode, stream, input, filter, pending, output>>

BuildEnds ==
  /\ mode = "build"
  /\ At("end")
  /\ IF raw.frames = << >> THEN Fails /\ UNCHANGED output ELSE Finishes(TRUE)
  /\ UNCHANGED <<mode, stream, input, filter, pending, raw>>

\* FFmpeg or an allocation fails, or the build is cancelled; the caller closes the decoder.
ReadFails ==
  /\ readAt.at \in {"next", "send", "input", "convert", "drain", "last"}
  /\ Fails
  /\ raw' = IF mode = "build" THEN [raw EXCEPT !.frames = << >>] ELSE raw
  /\ UNCHANGED <<mode, stream, input, filter, pending, output>>

Steps ==
  \/ ReadReturns \/ CachedFrame \/ CachedEnd
  \/ ReceiveFrame \/ ReceiveEnd \/ ReceiveNothing \/ SendPacket \/ SendFlush \/ SkipPacket \/ ReadPacket \/ ReadEof
  \/ ConvertFrame \/ FlushResampler \/ ResamplerFlushed
  \/ FilterFrame \/ FilterFlush \/ CopyPending \/ GetFrame \/ EndOfFilter \/ Drained
  \/ AppendFrame \/ TooLarge \/ BuildEnds

DecoderNext ==
  \/ \E max \in 1 .. MaxRead : ReadCall(max)
  \/ StartBuild
  \/ Steps
  \/ ReadFails

DecoderSpec == DecoderInit /\ [][DecoderNext]_decoderVars
(***************************************************************************)
(* Properties.                                                              *)
(***************************************************************************)
TotalSamples == FoldLeft(+, 0, Sizes(stream))
Upto(n) == [k \in 1 .. n |-> k]

\* Every decoded sample comes out once and in its place, whatever the sizes of packets, frames, chunks
\* and buffers, and all of them by the time the end is reported; and what a raw cache keeps is the
\* whole stream.
EverySampleOnce ==
  /\ output.samples = Upto(Len(output.samples))
  /\ output.finished => (IF mode = "build" THEN FlattenSeq(raw.frames) ELSE output.samples) = Upto(TotalSamples)

\* A read that succeeds fills its buffer or reports the end: the player takes one that does neither for
\* a broken file.
ReadsProgress ==
  [][~At("idle") /\ readAt' = Idle /\ mode # "build" => Room = 0 \/ output'.finished]_decoderVars

\* The frames a raw build keeps never exceed its budget, a build that gives up as too large really
\* could not hold the next frame, and keeps nothing.
RawWithinBudget ==
  /\ raw.bytes <= raw.max
  /\ raw.tooLarge => raw.frames = << >> /\ raw.bytes + Accounted(input.frame) > raw.max

\* A file is decoded as it is, and kept within its budget.
DecodingIsExact == EverySampleOnce /\ RawWithinBudget
=============================================================================
