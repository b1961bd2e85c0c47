------------------------------ MODULE PlayerMC ------------------------------
(***************************************************************************)
(* The parts of the SimpleAudio runtime, checked side by side: an execution *)
(* plays files, fills and empties the caches, opens and closes the output,  *)
(* reads a decoder, or opens and closes one, and the other parts rest.      *)
(***************************************************************************)
EXTENDS AudioPlayerMC, XAudioOutput, Decoder, DecoderParts, TLC

\* Packets with nothing to hear, other streams between them, an end without frames, and long frames.
MCStreams == {<< <<2>>, Other, << >>, <<1, 2>> >>, << <<1>>, <<3>> >>, <<Other>>, << >>, << <<1>>, <<1>>, <<1>> >>}
MCLibraries == <<"avutil", "avcodec", "avfilter">>

\* A file that just fits the budget and one that does not, played twice at once.
CONSTANTS NoAsset, p1, p2
MCFileSize == [medium |-> 2, huge |-> 4]

VARIABLES
  size, entry, refs, usage, building, capturing, queue, closing, resident, reserved, reclaiming,
  evictor, worker, playback, player

cacheVars == <<size, entry, refs, usage, building, capturing, queue, closing, resident, reserved, reclaiming,
               evictor, worker, playback, player>>

Cache == INSTANCE AudioCache WITH
  PcmKeys <- {"medium"}, RawKeys <- {"huge"}, Size <- MCFileSize, MaxBytes <- 2, Workers <- {"w1"}, Playbacks <- {p1, p2},
  QueueCapacity <- 1, Blocks <- 1 .. 5, None <- NoAsset

Symmetry == Permutations({p1, p2})

VARIABLE part
decoding == <<decoderVars, partsVars>>
vars == <<part, playerVars, outputVars, decoding, cacheVars>>

Init ==
  /\ part \in {"playing", "caching", "output", "reading", "opening"}
  /\ PlayerInit
  /\ OutputInit
  /\ DecoderInit
  /\ part = "reading" \/ (mode = "build" /\ stream = <<Other>> /\ raw.max = 1)
  /\ PartsInit
  /\ Cache!Init

Next ==
  /\ UNCHANGED part
  /\ \/ part = "playing" /\ PlayerNext /\ UNCHANGED <<outputVars, decoding, cacheVars>>
     \/ part = "caching" /\ Cache!Next /\ UNCHANGED <<playerVars, outputVars, decoding>>
     \/ part = "output" /\ OutputNext /\ UNCHANGED <<playerVars, decoding, cacheVars>>
     \/ part = "reading" /\ DecoderNext /\ UNCHANGED <<playerVars, outputVars, partsVars, cacheVars>>
     \/ part = "opening" /\ PartsNext /\ UNCHANGED <<playerVars, outputVars, decoderVars, cacheVars>>

Spec == Init /\ [][Next]_vars

(***************************************************************************)
(* What the caches promise, of the instance above.                          *)
(***************************************************************************)
\* The books, leases, owners, producers and usage records of the caches are right (pcm_cache.go,
\* raw_cache.go, cache_budget.go).
CachesAreSound == Cache!CachesAreSound
=============================================================================
