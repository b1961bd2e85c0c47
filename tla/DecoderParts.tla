---------------------------- MODULE DecoderParts ----------------------------
(***************************************************************************)
(* What the FFmpeg objects of the SimpleAudio runtime are made of: the      *)
(* libraries and their symbols (loader.c), a decoder (decoder.c), its       *)
(* resampler or filter graph, made when the first frame is there (filter.c),*)
(* and a raw build with the frames it keeps, which a decoder of its own may  *)
(* filter again (raw_cache.c).  Each is acquired stage by stage, any stage  *)
(* may fail, and every stage has a failure path of its own that releases    *)
(* what it names.                                                           *)
(***************************************************************************)
EXTENDS Naturals, Sequences, SequencesExt

CONSTANT Libraries   \* the libraries of FFmpeg, in the order they are loaded

ASSUME PartsAssumption == Libraries \in Seq(STRING)

VARIABLES
  owned,    \* objects allocated
  job,      \* the stages still to do, or none
  loaded    \* libraries whose symbols are there, and sa_ffmpeg_initialized

partsVars == <<owned, job, loaded>>

\* A stage allocates, releases some objects however it ends, and others when it fails.
Stage(gets, drops, undo) == [gets |-> gets, drops |-> drops, undo |-> undo]
NoJob == << >>

PartsInit ==
  /\ owned = {}
  /\ job = NoJob
  /\ loaded = [libraries |-> {}, symbols |-> FALSE, initialized |-> FALSE]

(***************************************************************************)
(* sa_ffmpeg_initialize: a failure keeps what was loaded, and the next call *)
(* loads everything again.                                                  *)
(***************************************************************************)
LoadLibraries ==
  /\ job = NoJob /\ ~loaded.initialized
  /\ \E n \in 0 .. Len(Libraries) :
       LET all == n = Len(Libraries)
           got == ToSet(SubSeq(Libraries, 1, n))
       IN \E symbols \in BOOLEAN :
            /\ symbols => all
            /\ loaded' = [libraries |-> loaded.libraries \cup got, symbols |-> loaded.symbols \/ symbols,
                          initialized |-> symbols]
  /\ UNCHANGED <<owned, job>>

(***************************************************************************)
(* Decoders.                                                                *)
(***************************************************************************)
Endpoints == {"inputs", "outputs"}
Graph == {"state", "graph", "graphFrame"}
DecoderObjects == {"decoder", "description", "format", "codec", "packet", "frame", "resampler"} \cup Graph

\* The description is there before anything that sa_decoder_close_internal would have to release.
OpenStages(filtered) ==
  <<Stage({"decoder"}, {}, {})>>
  \o (IF filtered THEN <<Stage({"description"}, {}, {"decoder"})>> ELSE << >>)
  \o <<Stage({"format"}, {}, DecoderObjects), Stage({}, {}, DecoderObjects),
       Stage({"codec"}, {}, DecoderObjects), Stage({}, {}, DecoderObjects),
       Stage({"packet", "frame"}, {}, DecoderObjects)>>

Begin(stages) == job = NoJob /\ job' = stages

OpenDecoder(filtered) ==
  /\ loaded.initialized
  /\ owned = {}
  /\ Begin(OpenStages(filtered))
  /\ UNCHANGED <<owned, loaded>>

MakeResampler ==
  /\ "decoder" \in owned /\ owned \cap {"description", "resampler", "audio"} = {}
  /\ Begin(<<Stage({"resampler"}, {}, {}), Stage({}, {}, {"resampler"})>>)
  /\ UNCHANGED <<owned, loaded>>

\* Mutant: the text of the graph stays when its endpoints cannot be had.
GraphStagesForgetful ==
  <<Stage({"text"}, {}, {}), Stage({"state"}, {}, {"text"}), Stage({}, {}, {"text", "state"}),
    Stage({"graph", "graphFrame"}, {}, {"text"} \cup Graph), Stage({}, {}, {"text"} \cup Graph),
    Stage(Endpoints, {}, Endpoints \cup Graph), Stage({}, {}, {"text"} \cup Endpoints \cup Graph),
    Stage({}, {"text"}, Endpoints \cup Graph), Stage({}, Endpoints, Graph)>>

\* The text is freed once it is parsed, the endpoints once the graph is configured.
GraphStages ==
  <<Stage({"text"}, {}, {}), Stage({"state"}, {}, {"text"}), Stage({}, {}, {"text", "state"}),
    Stage({"graph", "graphFrame"}, {}, {"text"} \cup Graph), Stage({}, {}, {"text"} \cup Graph),
    Stage(Endpoints, {}, {"text"} \cup Endpoints \cup Graph), Stage({}, {}, {"text"} \cup Endpoints \cup Graph),
    Stage({}, {"text"}, Endpoints \cup Graph), Stage({}, Endpoints, Graph)>>

MakeGraph ==
  /\ "description" \in owned /\ "graph" \notin owned
  /\ Begin(GraphStages)
  /\ UNCHANGED <<owned, loaded>>

CloseDecoder ==
  /\ job = NoJob
  /\ "decoder" \in owned
  /\ owned' = owned \ DecoderObjects
  /\ UNCHANGED <<job, loaded>>

(***************************************************************************)
(* sa_raw_audio_decode.                                                     *)
(***************************************************************************)
Audio == {"audio", "parameters", "frames"}

BuildStages ==
  OpenStages(FALSE)
  \o <<Stage({"audio"}, {}, DecoderObjects), Stage({"parameters"}, {}, DecoderObjects \cup Audio),
       Stage({}, {}, DecoderObjects \cup Audio), Stage({"frames"}, {}, DecoderObjects \cup Audio),
       Stage({}, DecoderObjects, Audio)>>

BuildRaw ==
  /\ loaded.initialized
  /\ owned = {}
  /\ Begin(BuildStages)
  /\ UNCHANGED <<owned, loaded>>

\* A decoder that filters the frames of a raw audio, which is leased until it is closed.
CachedObjects == {"cached", "description"} \cup Graph

OpenCached ==
  /\ Audio \subseteq owned /\ "cached" \notin owned
  /\ Begin(<<Stage({"cached"}, {}, {}), Stage({"description"}, {}, {"cached"})>>)
  /\ UNCHANGED <<owned, loaded>>

CloseCached ==
  /\ job = NoJob
  /\ "cached" \in owned
  /\ owned' = owned \ CachedObjects
  /\ UNCHANGED <<job, loaded>>

CloseRaw ==
  /\ job = NoJob
  /\ Audio \subseteq owned /\ "cached" \notin owned
  /\ owned' = owned \ Audio
  /\ UNCHANGED <<job, loaded>>

(***************************************************************************)
(* A stage of the job.  Two allocations of one stage are both tried before  *)
(* either is looked at.                                                     *)
(***************************************************************************)
StageDone ==
  /\ job # NoJob
  /\ owned' = (owned \cup Head(job).gets) \ Head(job).drops
  /\ job' = Tail(job)
  /\ UNCHANGED loaded

StageFails ==
  /\ job # NoJob
  /\ \E got \in SUBSET Head(job).gets :
       /\ got # Head(job).gets \/ got = {}
       /\ owned' = ((owned \cup got) \ Head(job).drops) \ Head(job).undo
  /\ job' = NoJob
  /\ UNCHANGED loaded

PartsNext ==
  \/ LoadLibraries
  \/ \E filtered \in BOOLEAN : OpenDecoder(filtered)
  \/ MakeResampler \/ MakeGraph \/ CloseDecoder \/ BuildRaw \/ OpenCached \/ CloseCached \/ CloseRaw
  \/ StageDone \/ StageFails

PartsSpec == PartsInit /\ [][PartsNext]_partsVars

(***************************************************************************)
(* Properties.                                                              *)
(***************************************************************************)
\* Whichever stage failed, what is left is a whole: nothing, a decoder with or without its description,
\* with the converter it may have or without, or a raw audio and perhaps a decoder that filters it;
\* and nobody decodes before every symbol is there.
NothingStaysBehind ==
  job = NoJob =>
    LET plain == {"decoder", "format", "codec", "packet", "frame"}
        filtering == plain \cup {"description"}
    IN /\ owned \in {{}, plain, plain \cup {"resampler"}, filtering, filtering \cup Graph,
                     Audio, Audio \cup (CachedObjects \ Graph), Audio \cup CachedObjects}
       /\ owned # {} => loaded.symbols /\ loaded.libraries = ToSet(Libraries)
=============================================================================
