---------------------------- MODULE PlayerProofs ----------------------------
(***************************************************************************)
(* Proofs about the player of SimpleAudio: its playbacks (AudioPlayer), the *)
(* parts of an engine and a voice (XAudioOutput) and those of a decoder     *)
(* (DecoderParts).                                                          *)
(***************************************************************************)
EXTENDS AudioPlayer, XAudioOutput, DecoderParts, FiniteSetTheorems, SequenceTheorems, TLAPS

-----------------------------------------------------------------------------
(***************************************************************************)
(* The output (xaudio.cpp): for any error codes, whatever cannot be had.    *)
(***************************************************************************)
EngineObjects == {"memory", "engine", "callback", "registration", "mastering"}
WholeEngine == EngineObjects \cup {"x3dReady"}
VoiceObjects(n) == IF n > 1 THEN {"voice", "matrix", "azimuths", "source"} ELSE {"voice", "matrix", "source"}
WholeVoice(n) == WholeEngine \cup VoiceObjects(n) \cup {"voiceReady"}

Part == EngineObjects \cup VoiceObjects(2) \cup Transient

\* What is held before each part is acquired.
EngineHeld == <<{}, {"memory"}, {"memory", "engine"}, {"memory", "engine", "callback"},
                {"memory", "engine", "callback", "registration"}, EngineObjects, EngineObjects>>
VoiceHeld(n) == IF n > 1 THEN <<{}, {"voice"}, {"voice", "matrix"}, {"voice", "matrix", "azimuths"}, VoiceObjects(n)>>
                ELSE <<{}, {"voice"}, {"voice", "matrix"}, VoiceObjects(n)>>

\* The parts from the kth on.
From(parts, k) == SubSeq(parts, k, Len(parts))

AcquiringEngine == \E k \in 1 .. 7 : calls.acquire = From(EngineParts, k) /\ held = EngineHeld[k]
AcquiringVoice ==
  \E k \in 1 .. Len(VoiceParts(channels)) :
    calls.acquire = From(VoiceParts(channels), k) /\ held = WholeEngine \cup VoiceHeld(channels)[k]

\* The device is told to stop calling before what it calls is given back.
Unregisters == <<"registration", "engine", "callback", "memory">>
UnregistersFirst(q) == "registration" \in ToSet(q) => q \in {Unregisters, DestroyOrder}
Distinct(q) == \A i, j \in DOMAIN q : q[i] = q[j] => i = j

ReleasingEngine(q) == ToSet(q) \subseteq EngineObjects /\ held = ToSet(q) /\ UnregistersFirst(q)
ReleasingVoice(q) ==
  ToSet(q) \subseteq VoiceObjects(2) /\ held = WholeEngine \cup (ToSet(q) \cap VoiceObjects(channels))

BetweenCalls == OutputIdle /\ held \in {{}, WholeEngine, WholeVoice(channels)}
Acquiring == calls.release = << >> /\ calls.acquire # << >> /\ (AcquiringEngine \/ AcquiringVoice)
Releasing ==
  /\ calls.acquire = << >> /\ calls.release # << >> /\ Distinct(calls.release)
  /\ ReleasingEngine(calls.release) \/ ReleasingVoice(calls.release)

\* What is held fits the call in progress; the code of an error is there before its flag, and the
\* worker looks at it only between calls.
OutputInv ==
  /\ channels \in 1 .. 2
  /\ calls \in [acquire : Seq(Part), release : Seq(Part)]
  /\ BetweenCalls \/ Acquiring \/ Releasing
  /\ report \in [at : {"rest", "writing"}, code : Nat \cup ErrorCode, flag : BOOLEAN]
  /\ report.at = "writing" => Registered
  /\ report.at = "writing" \/ report.flag => report.code \in ErrorCode
  /\ read.at \in {"rest", "flagged", "done"}
  /\ read.at = "flagged" => report.flag
  /\ read.at # "rest" => OutputIdle /\ EngineUp
  /\ read.at = "done" => read.seen \in ErrorCode

\* One part less is left of a call's parts.
LEMMA FromStep ==
    ASSUME NEW parts \in Seq(Part), NEW k \in 1 .. Len(parts)
    PROVE  /\ From(parts, k) \in Seq(Part) /\ From(parts, k) # << >>
           /\ Head(From(parts, k)) = parts[k]
           /\ Tail(From(parts, k)) = From(parts, k + 1)
           /\ k = Len(parts) => Tail(From(parts, k)) = << >>
           /\ k # Len(parts) => From(parts, k + 1) # << >>
<1>1. /\ Len(From(parts, k)) = Len(parts) + 1 - k /\ From(parts, k) \in Seq(Part)
      /\ \A i \in 1 .. (Len(parts) + 1 - k) : From(parts, k)[i] = parts[k + i - 1]
  BY DEF From
<1>2. /\ Len(From(parts, k + 1)) = Len(parts) - k /\ From(parts, k + 1) \in Seq(Part)
      /\ \A i \in 1 .. (Len(parts) - k) : From(parts, k + 1)[i] = parts[k + i]
  BY DEF From
<1> DEFINE t == Tail(From(parts, k))
           u == From(parts, k + 1)
<1>3. Len(t) = Len(parts) - k /\ t \in Seq(Part) /\ \A i \in 1 .. (Len(parts) - k) : t[i] = parts[k + i]
  BY <1>1
<1>4. t = u
  <2>1. Len(t) = Len(u) /\ (\A i \in 1 .. Len(t) : t[i] = u[i]) /\ t \in Seq(Part) /\ u \in Seq(Part)
    BY <1>2, <1>3
  <2> HIDE DEF t, u
  <2> QED
    BY <2>1, SeqEqual
<1>5. From(parts, k) # << >> /\ Head(From(parts, k)) = parts[k]
  BY <1>1
<1>6. k = Len(parts) => t = << >>
  <2>1. k = Len(parts) => Len(t) = 0
    BY <1>3
  <2> HIDE DEF t
  <2> QED
    BY <1>3, <2>1, EmptySeq
<1>7. k # Len(parts) => u # << >>
  BY <1>2
<1> QED
  BY <1>1, <1>4, <1>5, <1>6, <1>7

LEMMA FromFirst ==
    ASSUME NEW parts \in Seq(Part), Len(parts) # 0
    PROVE  From(parts, 1) = parts /\ parts # << >>
<1>1. From(parts, 1) \in Seq(Part) /\ Len(From(parts, 1)) = Len(parts)
      /\ \A i \in 1 .. Len(parts) : From(parts, 1)[i] = parts[i]
  BY DEF From
<1>2. From(parts, 1) = parts
  BY <1>1, SeqEqual
<1>3. parts # << >>
  BY EmptySeq
<1> QED
  BY <1>2, <1>3

LEMMA PartsTypes ==
    /\ EngineParts \in Seq(Part) /\ Len(EngineParts) = 7
    /\ \A n \in 1 .. 2 : VoiceParts(n) \in Seq(Part) /\ Len(VoiceParts(n)) = (IF n > 1 THEN 5 ELSE 4)
<1>1. EngineParts \in Seq(Part) /\ Len(EngineParts) = 7
  BY DEF EngineParts, Part, EngineObjects, Transient
<1>2. ASSUME NEW n \in 1 .. 2 PROVE VoiceParts(n) \in Seq(Part) /\ Len(VoiceParts(n)) = (IF n > 1 THEN 5 ELSE 4)
  <2>1. CASE n = 1
    BY <2>1 DEF VoiceParts, Part, VoiceObjects, Transient
  <2>2. CASE n = 2
    BY <2>2 DEF VoiceParts, Part, VoiceObjects, Transient
  <2> QED
    BY <2>1, <2>2
<1> QED
  BY <1>1, <1>2

\* A part that was had is what the next one finds held; the last makes the whole.
LEMMA EngineGrows ==
    ASSUME NEW k \in 1 .. 7
    PROVE  EngineHeld[k] \cup ({EngineParts[k]} \ Transient) \cup Complete(EngineParts[k])
             = IF k = 7 THEN WholeEngine ELSE EngineHeld[k + 1]
<1>1. CASE k = 1  BY <1>1 DEF EngineHeld, EngineParts, Transient, Complete, WholeEngine, EngineObjects
<1>2. CASE k = 2  BY <1>2 DEF EngineHeld, EngineParts, Transient, Complete, WholeEngine, EngineObjects
<1>3. CASE k = 3  BY <1>3 DEF EngineHeld, EngineParts, Transient, Complete, WholeEngine, EngineObjects
<1>4. CASE k = 4  BY <1>4 DEF EngineHeld, EngineParts, Transient, Complete, WholeEngine, EngineObjects
<1>5. CASE k = 5  BY <1>5 DEF EngineHeld, EngineParts, Transient, Complete, WholeEngine, EngineObjects
<1>6. CASE k = 6  BY <1>6 DEF EngineHeld, EngineParts, Transient, Complete, WholeEngine, EngineObjects
<1>7. CASE k = 7  BY <1>7 DEF EngineHeld, EngineParts, Transient, Complete, WholeEngine, EngineObjects
<1> QED
  BY <1>1, <1>2, <1>3, <1>4, <1>5, <1>6, <1>7

LEMMA VoiceGrows ==
    ASSUME NEW n \in 1 .. 2, NEW k \in 1 .. Len(VoiceParts(n))
    PROVE  VoiceHeld(n)[k] \cup ({VoiceParts(n)[k]} \ Transient) \cup Complete(VoiceParts(n)[k])
             = IF k = Len(VoiceParts(n)) THEN VoiceObjects(n) \cup {"voiceReady"} ELSE VoiceHeld(n)[k + 1]
<1>a. \A part \in {"voice", "matrix", "azimuths", "source"} : {part} \ Transient = {part} /\ Complete(part) = {}
  BY DEF Transient, Complete
<1>b. {"started"} \ Transient = {} /\ Complete("started") = {"voiceReady"}
  BY DEF Transient, Complete
<1>1. CASE n = 1
  <2>1. Len(VoiceParts(n)) = 4 /\ VoiceParts(n) = <<"voice", "matrix", "source", "started">>
        /\ VoiceHeld(n) = <<{}, {"voice"}, {"voice", "matrix"}, {"voice", "matrix", "source"}>>
    BY <1>1 DEF VoiceParts, VoiceHeld, VoiceObjects
  <2>2. k \in 1 .. 4
    BY <2>1
  <2>3. CASE k = 1  BY <1>1, <1>a, <1>b, <2>1, <2>3 DEF VoiceObjects
  <2>4. CASE k = 2  BY <1>1, <1>a, <1>b, <2>1, <2>4 DEF VoiceObjects
  <2>5. CASE k = 3  BY <1>1, <1>a, <1>b, <2>1, <2>5 DEF VoiceObjects
  <2>6. CASE k = 4  BY <1>1, <1>a, <1>b, <2>1, <2>6 DEF VoiceObjects
  <2> QED
    BY <2>2, <2>3, <2>4, <2>5, <2>6
<1>2. CASE n = 2
  <2>1. Len(VoiceParts(n)) = 5 /\ VoiceParts(n) = <<"voice", "matrix", "azimuths", "source", "started">>
        /\ VoiceHeld(n) = <<{}, {"voice"}, {"voice", "matrix"}, {"voice", "matrix", "azimuths"}, {"voice", "matrix", "azimuths", "source"}>>
    BY <1>2 DEF VoiceParts, VoiceHeld, VoiceObjects
  <2>2. k \in 1 .. 5
    BY <2>1
  <2>3. CASE k = 1  BY <1>2, <1>a, <1>b, <2>1, <2>3 DEF VoiceObjects
  <2>4. CASE k = 2  BY <1>2, <1>a, <1>b, <2>1, <2>4 DEF VoiceObjects
  <2>5. CASE k = 3  BY <1>2, <1>a, <1>b, <2>1, <2>5 DEF VoiceObjects
  <2>6. CASE k = 4  BY <1>2, <1>a, <1>b, <2>1, <2>6 DEF VoiceObjects
  <2>7. CASE k = 5  BY <1>2, <1>a, <1>b, <2>1, <2>7 DEF VoiceObjects
  <2> QED
    BY <2>2, <2>3, <2>4, <2>5, <2>6, <2>7
<1> QED
  BY <1>1, <1>2

\* What a path releases, as sets.
LEMMA ReleasedSets ==
    ASSUME NEW part
    PROVE  ToSet(ReleasedAfter(part)) =
             CASE part = "engine" -> {"memory"}
               [] part = "callback" -> {"memory", "engine"}
               [] part = "registration" -> {"memory", "engine", "callback"}
               [] part = "mastering" -> {"memory", "engine", "callback", "registration"}
               [] part \in {"channels", "x3d"} -> EngineObjects
               [] part = "matrix" -> {"voice"}
               [] part = "azimuths" -> {"voice", "matrix"}
               [] part = "source" -> {"voice", "matrix", "azimuths"}
               [] part = "started" -> {"voice", "matrix", "azimuths", "source"}
               [] OTHER -> {}
<1>0. ToSet(<< >>) = {}
  BY DEF ToSet
<1>1. ToSet(<<"memory">>) = {"memory"}
  BY DEF ToSet
<1>2. ToSet(<<"engine", "memory">>) = {"memory", "engine"}
  BY DEF ToSet
<1>3. ToSet(<<"engine", "callback", "memory">>) = {"memory", "engine", "callback"}
  BY DEF ToSet
<1>4. ToSet(<<"registration", "engine", "callback", "memory">>) = {"memory", "engine", "callback", "registration"}
  BY DEF ToSet
<1>5. ToSet(<<"mastering", "registration", "engine", "callback", "memory">>) = EngineObjects
  BY DEF ToSet, EngineObjects
<1>6. ToSet(<<"voice">>) = {"voice"}
  BY DEF ToSet
<1>7. ToSet(<<"matrix", "voice">>) = {"voice", "matrix"}
  BY DEF ToSet
<1>8. ToSet(<<"azimuths", "matrix", "voice">>) = {"voice", "matrix", "azimuths"}
  BY DEF ToSet
<1>9. ToSet(<<"source", "azimuths", "matrix", "voice">>) = {"voice", "matrix", "azimuths", "source"}
  BY DEF ToSet
<1> QED
  BY <1>0, <1>1, <1>2, <1>3, <1>4, <1>5, <1>6, <1>7, <1>8, <1>9 DEF ReleasedAfter

LEMMA ReleasedDistinct ==
    ASSUME NEW part
    PROVE  Distinct(ReleasedAfter(part)) /\ ReleasedAfter(part) \in Seq(Part)
<1>1. Distinct(<< >>) /\ << >> \in Seq(Part)
  BY DEF Distinct, Part, EngineObjects, VoiceObjects
<1>2. Distinct(<<"memory">>) /\ <<"memory">> \in Seq(Part)
  BY DEF Distinct, Part, EngineObjects, VoiceObjects
<1>3. Distinct(<<"voice">>) /\ <<"voice">> \in Seq(Part)
  BY DEF Distinct, Part, EngineObjects, VoiceObjects
<1>4. Distinct(<<"engine", "memory">>) /\ <<"engine", "memory">> \in Seq(Part)
  BY DEF Distinct, Part, EngineObjects, VoiceObjects
<1>5. Distinct(<<"matrix", "voice">>) /\ <<"matrix", "voice">> \in Seq(Part)
  BY DEF Distinct, Part, EngineObjects, VoiceObjects
<1>6. Distinct(<<"engine", "callback", "memory">>) /\ <<"engine", "callback", "memory">> \in Seq(Part)
  BY DEF Distinct, Part, EngineObjects, VoiceObjects
<1>7. Distinct(<<"azimuths", "matrix", "voice">>) /\ <<"azimuths", "matrix", "voice">> \in Seq(Part)
  BY DEF Distinct, Part, EngineObjects, VoiceObjects
<1>8. Distinct(<<"registration", "engine", "callback", "memory">>) /\ <<"registration", "engine", "callback", "memory">> \in Seq(Part)
  BY DEF Distinct, Part, EngineObjects, VoiceObjects
<1>9. Distinct(<<"source", "azimuths", "matrix", "voice">>) /\ <<"source", "azimuths", "matrix", "voice">> \in Seq(Part)
  BY DEF Distinct, Part, EngineObjects, VoiceObjects
<1>10. Distinct(<<"mastering", "registration", "engine", "callback", "memory">>) /\ <<"mastering", "registration", "engine", "callback", "memory">> \in Seq(Part)
  BY DEF Distinct, Part, EngineObjects, VoiceObjects
<1> QED
  BY <1>1, <1>2, <1>3, <1>4, <1>5, <1>6, <1>7, <1>8, <1>9, <1>10 DEF ReleasedAfter


LEMMA OrdersAre ==
    /\ DestroyOrder \in Seq(Part) /\ Distinct(DestroyOrder) /\ ToSet(DestroyOrder) = EngineObjects
    /\ \A q : q = <<"source", "matrix", "azimuths", "voice">> =>
         q \in Seq(Part) /\ Distinct(q) /\ ToSet(q) = VoiceObjects(2) /\ q # << >>
    /\ DestroyOrder # << >> /\ Tail(DestroyOrder) = Unregisters
    /\ Head(DestroyOrder) = "mastering" /\ Head(Unregisters) = "registration"
<1>1. DestroyOrder \in Seq(Part) /\ Distinct(DestroyOrder)
  BY DEF DestroyOrder, Distinct, Part, EngineObjects
<1>2. ToSet(DestroyOrder) = EngineObjects
  BY DEF DestroyOrder, ToSet, EngineObjects
<1>3. ASSUME NEW q, q = <<"source", "matrix", "azimuths", "voice">>
      PROVE  q \in Seq(Part) /\ Distinct(q) /\ ToSet(q) = VoiceObjects(2) /\ q # << >>
  <2>1. q \in Seq(Part) /\ Distinct(q) /\ q # << >>
    BY <1>3 DEF Distinct, Part, VoiceObjects
  <2>2. ToSet(q) = VoiceObjects(2)
    BY <1>3 DEF ToSet, VoiceObjects
  <2> QED
    BY <2>1, <2>2
<1>4. DestroyOrder # << >> /\ Head(DestroyOrder) = "mastering" /\ Head(Unregisters) = "registration"
  BY DEF DestroyOrder, Unregisters
<1>5. Tail(DestroyOrder) = Unregisters
  BY DEF DestroyOrder, Unregisters
<1> QED
  BY <1>1, <1>2, <1>3, <1>4, <1>5

\* The first of distinct entries is not among the rest.
LEMMA TailSet ==
    ASSUME NEW q \in Seq(Part), Distinct(q), q # << >>
    PROVE  /\ Tail(q) \in Seq(Part) /\ Distinct(Tail(q))
           /\ ToSet(Tail(q)) = ToSet(q) \ {Head(q)} /\ Head(q) \in ToSet(q)
<1>1. Len(q) \in Nat \ {0} /\ DOMAIN q = 1 .. Len(q) /\ Head(q) = q[1]
  OBVIOUS
<1>2. /\ Tail(q) \in Seq(Part) /\ DOMAIN Tail(q) = 1 .. (Len(q) - 1)
      /\ \A i \in 1 .. (Len(q) - 1) : Tail(q)[i] = q[i + 1]
  BY <1>1
<1>3. Distinct(Tail(q))
  BY <1>1, <1>2 DEF Distinct
<1>4. ToSet(Tail(q)) \subseteq ToSet(q) \ {Head(q)}
  BY <1>1, <1>2 DEF ToSet, Distinct
<1>5. ASSUME NEW x \in ToSet(q) \ {Head(q)} PROVE x \in ToSet(Tail(q))
  <2>1. PICK i \in 1 .. Len(q) : q[i] = x
    BY <1>1 DEF ToSet
  <2>2. i # 1
    BY <1>1, <2>1
  <2>3. i - 1 \in 1 .. (Len(q) - 1) /\ Tail(q)[i - 1] = x
    BY <1>1, <1>2, <2>1, <2>2
  <2> QED
    BY <1>2, <2>3 DEF ToSet
<1>6. Head(q) \in ToSet(q)
  BY <1>1 DEF ToSet
<1> QED
  BY <1>2, <1>3, <1>4, <1>5, <1>6

\* Acquire: the next part finds what it needs, the last one makes the whole.
LEMMA AcquireFits ==
    ASSUME OutputInv, Acquire
    PROVE  BetweenCalls' \/ Acquiring'
<1>1. calls.acquire # << >> /\ Acquiring
  BY DEF Acquire, OutputInv, BetweenCalls, OutputIdle, NoCalls, Releasing
<1>2. /\ calls' = [calls EXCEPT !.acquire = Tail(@)] /\ channels' = channels
      /\ held' = held \cup ({Head(calls.acquire)} \ Transient) \cup Complete(Head(calls.acquire))
  BY DEF Acquire
<1>3. calls'.acquire = Tail(calls.acquire) /\ calls'.release = << >> /\ calls' = [acquire |-> Tail(calls.acquire), release |-> << >>]
  BY <1>1, <1>2 DEF OutputInv, Acquiring
<1>4. CASE AcquiringEngine
  <2>1. PICK k \in 1 .. 7 : calls.acquire = From(EngineParts, k) /\ held = EngineHeld[k]
    BY <1>4 DEF AcquiringEngine
  <2>2. /\ Head(calls.acquire) = EngineParts[k] /\ Tail(calls.acquire) = From(EngineParts, k + 1)
        /\ k = 7 => Tail(calls.acquire) = << >>
        /\ k # 7 => From(EngineParts, k + 1) # << >>
    <3>1. EngineParts \in Seq(Part) /\ Len(EngineParts) = 7 /\ k \in 1 .. Len(EngineParts)
      BY PartsTypes
    <3>2. /\ Head(From(EngineParts, k)) = EngineParts[k]
          /\ Tail(From(EngineParts, k)) = From(EngineParts, k + 1)
          /\ k = Len(EngineParts) => Tail(From(EngineParts, k)) = << >>
          /\ k # Len(EngineParts) => From(EngineParts, k + 1) # << >>
      BY <3>1, FromStep
    <3> QED
      BY <2>1, <3>1, <3>2
  <2>3. held' = IF k = 7 THEN WholeEngine ELSE EngineHeld[k + 1]
    BY <1>2, <2>1, <2>2, EngineGrows
  <2>4. CASE k = 7
    BY <1>3, <2>2, <2>3, <2>4 DEF BetweenCalls, OutputIdle, NoCalls
  <2>5. CASE k # 7
    <3>1. k + 1 \in 1 .. 7
      BY <2>5
    <3>2. AcquiringEngine'
      BY <1>3, <2>2, <2>3, <2>5, <3>1 DEF AcquiringEngine
    <3> QED
      BY <1>3, <2>2, <2>5, <3>2 DEF Acquiring
  <2> QED
    BY <2>4, <2>5
<1>5. CASE AcquiringVoice
  <2> DEFINE parts == VoiceParts(channels)
  <2>1. PICK k \in 1 .. Len(parts) : calls.acquire = From(parts, k) /\ held = WholeEngine \cup VoiceHeld(channels)[k]
    BY <1>5 DEF AcquiringVoice
  <2>0. channels \in 1 .. 2 /\ parts \in Seq(Part) /\ Len(parts) \in Nat /\ parts' = parts
    BY <1>2, PartsTypes DEF OutputInv
  <2>2. /\ Head(calls.acquire) = parts[k] /\ Tail(calls.acquire) = From(parts, k + 1)
        /\ k = Len(parts) => Tail(calls.acquire) = << >>
        /\ k # Len(parts) => From(parts, k + 1) # << >>
    <3> HIDE DEF parts
    <3> QED
      BY <2>0, <2>1, FromStep
  <2>3. VoiceHeld(channels)[k] \cup ({parts[k]} \ Transient) \cup Complete(parts[k])
             = IF k = Len(parts) THEN VoiceObjects(channels) \cup {"voiceReady"} ELSE VoiceHeld(channels)[k + 1]
    BY <2>0, <2>1, VoiceGrows
  <2>4. held' = WholeEngine \cup (VoiceHeld(channels)[k] \cup ({parts[k]} \ Transient) \cup Complete(parts[k]))
    BY <1>2, <2>1, <2>2
  <2>5. CASE k = Len(parts)
    <3>1. held' = WholeVoice(channels')
      BY <1>2, <2>3, <2>4, <2>5 DEF WholeVoice
    <3> QED
      BY <1>3, <2>2, <2>5, <3>1 DEF BetweenCalls, OutputIdle, NoCalls
  <2>6. CASE k # Len(parts)
    <3>1. k + 1 \in 1 .. Len(parts)
      BY <2>0, <2>6
    <3>2. held' = WholeEngine \cup VoiceHeld(channels)[k + 1]
      BY <2>3, <2>4, <2>6
    <3>3. AcquiringVoice'
      BY <1>2, <1>3, <2>2, <2>6, <3>1, <3>2 DEF AcquiringVoice
    <3> QED
      BY <1>3, <2>2, <2>6, <3>3 DEF Acquiring
  <2> QED
    BY <2>5, <2>6
<1> QED
  BY <1>1, <1>4, <1>5 DEF Acquiring
\* What a path gives back is what was held, or what was added to the engine; nothing is given back twice.
LEMMA EngineFails ==
    ASSUME NEW k \in 1 .. 7
    PROVE  LET q == ReleasedAfter(EngineParts[k]) IN
           /\ ToSet(q) = EngineHeld[k] /\ EngineHeld[k] \subseteq EngineObjects
           /\ UnregistersFirst(q) /\ (q = << >> => EngineHeld[k] = {})
<1> DEFINE q == ReleasedAfter(EngineParts[k])
<1>1. ToSet(q) = EngineHeld[k] /\ EngineHeld[k] \subseteq EngineObjects
  <2>1. CASE k = 1  BY <2>1, ReleasedSets DEF EngineHeld, EngineParts, EngineObjects
  <2>2. CASE k = 2  BY <2>2, ReleasedSets DEF EngineHeld, EngineParts, EngineObjects
  <2>3. CASE k = 3  BY <2>3, ReleasedSets DEF EngineHeld, EngineParts, EngineObjects
  <2>4. CASE k = 4  BY <2>4, ReleasedSets DEF EngineHeld, EngineParts, EngineObjects
  <2>5. CASE k = 5  BY <2>5, ReleasedSets DEF EngineHeld, EngineParts, EngineObjects
  <2>6. CASE k = 6  BY <2>6, ReleasedSets DEF EngineHeld, EngineParts, EngineObjects
  <2>7. CASE k = 7  BY <2>7, ReleasedSets DEF EngineHeld, EngineParts, EngineObjects
  <2> QED
    BY <2>1, <2>2, <2>3, <2>4, <2>5, <2>6, <2>7
<1>2. k \in {5, 6, 7} => q \in {Unregisters, DestroyOrder}
  <2>1. CASE k = 5  BY <2>1 DEF EngineParts, ReleasedAfter, Unregisters
  <2>2. CASE k = 6  BY <2>2 DEF EngineParts, ReleasedAfter, DestroyOrder
  <2>3. CASE k = 7  BY <2>3 DEF EngineParts, ReleasedAfter, DestroyOrder
  <2> QED
    BY <2>1, <2>2, <2>3
<1>3. k \notin {5, 6, 7} => "registration" \notin EngineHeld[k]
  <2>1. CASE k = 1  BY <2>1 DEF EngineHeld
  <2>2. CASE k = 2  BY <2>2 DEF EngineHeld
  <2>3. CASE k = 3  BY <2>3 DEF EngineHeld
  <2>4. CASE k = 4  BY <2>4 DEF EngineHeld
  <2> QED
    BY <2>1, <2>2, <2>3, <2>4
<1>4. UnregistersFirst(q)
  BY <1>1, <1>2, <1>3 DEF UnregistersFirst
<1>5. q = << >> => ToSet(q) = {}
  BY DEF ToSet
<1> QED
  BY <1>1, <1>4, <1>5

LEMMA VoiceReleases ==
    /\ ToSet(ReleasedAfter("voice")) = {}
    /\ ToSet(ReleasedAfter("matrix")) = {"voice"}
    /\ ToSet(ReleasedAfter("azimuths")) = {"voice", "matrix"}
    /\ ToSet(ReleasedAfter("source")) = {"voice", "matrix", "azimuths"}
    /\ ToSet(ReleasedAfter("started")) = {"voice", "matrix", "azimuths", "source"}
BY ReleasedSets

LEMMA VoiceFails ==
    ASSUME NEW n \in 1 .. 2, NEW k \in 1 .. Len(VoiceParts(n))
    PROVE  LET q == ReleasedAfter(VoiceParts(n)[k]) IN
           /\ ToSet(q) \subseteq VoiceObjects(2) /\ ToSet(q) \cap VoiceObjects(n) = VoiceHeld(n)[k]
           /\ q = << >> => VoiceHeld(n)[k] = {}
<1> DEFINE q == ReleasedAfter(VoiceParts(n)[k])
<1>0. q = << >> => ToSet(q) = {}
  BY DEF ToSet
<1> SUFFICES ToSet(q) \subseteq VoiceObjects(2) /\ ToSet(q) \cap VoiceObjects(n) = VoiceHeld(n)[k]
  BY <1>0
<1>1. CASE n = 1
  <2>1. Len(VoiceParts(n)) = 4 /\ VoiceParts(n) = <<"voice", "matrix", "source", "started">>
        /\ VoiceHeld(n) = <<{}, {"voice"}, {"voice", "matrix"}, {"voice", "matrix", "source"}>>
    BY <1>1 DEF VoiceParts, VoiceHeld, VoiceObjects
  <2>2. k \in 1 .. 4
    BY <2>1
  <2>3. CASE k = 1
    <3>1. VoiceParts(n)[k] = "voice" /\ VoiceHeld(n)[k] = {}
      BY <2>1, <2>3
    <3> QED
      BY <1>1, <3>1, VoiceReleases DEF VoiceObjects
  <2>4. CASE k = 2
    <3>1. VoiceParts(n)[k] = "matrix" /\ VoiceHeld(n)[k] = {"voice"}
      BY <2>1, <2>4
    <3> QED
      BY <1>1, <3>1, VoiceReleases DEF VoiceObjects
  <2>5. CASE k = 3
    <3>1. VoiceParts(n)[k] = "source" /\ VoiceHeld(n)[k] = {"voice", "matrix"}
      BY <2>1, <2>5
    <3> QED
      BY <1>1, <3>1, VoiceReleases DEF VoiceObjects
  <2>6. CASE k = 4
    <3>1. VoiceParts(n)[k] = "started" /\ VoiceHeld(n)[k] = {"voice", "matrix", "source"}
      BY <2>1, <2>6
    <3> QED
      BY <1>1, <3>1, VoiceReleases DEF VoiceObjects
  <2> QED
    BY <2>2, <2>3, <2>4, <2>5, <2>6
<1>2. CASE n = 2
  <2>1. Len(VoiceParts(n)) = 5 /\ VoiceParts(n) = <<"voice", "matrix", "azimuths", "source", "started">>
        /\ VoiceHeld(n) = <<{}, {"voice"}, {"voice", "matrix"}, {"voice", "matrix", "azimuths"}, {"voice", "matrix", "azimuths", "source"}>>
    BY <1>2 DEF VoiceParts, VoiceHeld, VoiceObjects
  <2>2. k \in 1 .. 5
    BY <2>1
  <2>3. CASE k = 1
    <3>1. VoiceParts(n)[k] = "voice" /\ VoiceHeld(n)[k] = {}
      BY <2>1, <2>3
    <3> QED
      BY <1>2, <3>1, VoiceReleases DEF VoiceObjects
  <2>4. CASE k = 2
    <3>1. VoiceParts(n)[k] = "matrix" /\ VoiceHeld(n)[k] = {"voice"}
      BY <2>1, <2>4
    <3> QED
      BY <1>2, <3>1, VoiceReleases DEF VoiceObjects
  <2>5. CASE k = 3
    <3>1. VoiceParts(n)[k] = "azimuths" /\ VoiceHeld(n)[k] = {"voice", "matrix"}
      BY <2>1, <2>5
    <3> QED
      BY <1>2, <3>1, VoiceReleases DEF VoiceObjects
  <2>6. CASE k = 4
    <3>1. VoiceParts(n)[k] = "source" /\ VoiceHeld(n)[k] = {"voice", "matrix", "azimuths"}
      BY <2>1, <2>6
    <3> QED
      BY <1>2, <3>1, VoiceReleases DEF VoiceObjects
  <2>7. CASE k = 5
    <3>1. VoiceParts(n)[k] = "started" /\ VoiceHeld(n)[k] = {"voice", "matrix", "azimuths", "source"}
      BY <2>1, <2>7
    <3> QED
      BY <1>2, <3>1, VoiceReleases DEF VoiceObjects
  <2> QED
    BY <2>2, <2>3, <2>4, <2>5, <2>6, <2>7
<1> QED
  BY <1>1, <1>2

\* A part that cannot be had: the path named for it gives back what was there.
LEMMA AcquireFailsFits ==
    ASSUME OutputInv, AcquireFails
    PROVE  BetweenCalls' \/ Releasing'
<1>1. calls.acquire # << >> /\ Acquiring
  BY DEF AcquireFails, OutputInv, BetweenCalls, OutputIdle, NoCalls, Releasing
<1> DEFINE q == ReleasedAfter(Head(calls.acquire))
<1>2. calls' = [acquire |-> << >>, release |-> q] /\ channels' = channels /\ held' = held
  BY DEF AcquireFails
<1>3. Distinct(q) /\ q \in Seq(Part)
  BY ReleasedDistinct
<1>4. CASE AcquiringEngine
  <2>1. PICK k \in 1 .. 7 : calls.acquire = From(EngineParts, k) /\ held = EngineHeld[k]
    BY <1>4 DEF AcquiringEngine
  <2>2. EngineParts \in Seq(Part) /\ Len(EngineParts) = 7 /\ k \in 1 .. Len(EngineParts)
    BY PartsTypes
  <2>3. Head(calls.acquire) = EngineParts[k]
    BY ZenonT(60), <2>1, <2>2, FromStep
  <2>4. /\ ToSet(q) = EngineHeld[k] /\ EngineHeld[k] \subseteq EngineObjects
        /\ UnregistersFirst(q) /\ (q = << >> => EngineHeld[k] = {})
    BY <2>3, EngineFails
  <2> HIDE DEF q
  <2>5. CASE q = << >>
    BY <1>2, <2>1, <2>4, <2>5 DEF BetweenCalls, OutputIdle, NoCalls
  <2>6. CASE q # << >>
    BY <1>2, <1>3, <2>1, <2>4, <2>6 DEF Releasing, ReleasingEngine
  <2> QED
    BY <2>5, <2>6
<1>5. CASE AcquiringVoice
  <2> DEFINE parts == VoiceParts(channels)
  <2>1. PICK k \in 1 .. Len(parts) : calls.acquire = From(parts, k) /\ held = WholeEngine \cup VoiceHeld(channels)[k]
    BY <1>5 DEF AcquiringVoice
  <2>2. channels \in 1 .. 2 /\ parts \in Seq(Part)
    BY PartsTypes DEF OutputInv
  <2>3. Head(calls.acquire) = parts[k]
    <3> HIDE DEF parts
    <3> QED
      BY <2>1, <2>2, FromStep
  <2>4. /\ ToSet(q) \subseteq VoiceObjects(2) /\ ToSet(q) \cap VoiceObjects(channels) = VoiceHeld(channels)[k]
        /\ q = << >> => VoiceHeld(channels)[k] = {}
    BY <2>1, <2>2, <2>3, VoiceFails
  <2> HIDE DEF q, parts
  <2>5. CASE q = << >>
    BY <1>2, <2>1, <2>4, <2>5 DEF BetweenCalls, OutputIdle, NoCalls
  <2>6. CASE q # << >>
    BY <1>2, <1>3, <2>1, <2>4, <2>6 DEF Releasing, ReleasingVoice
  <2> QED
    BY <2>5, <2>6
<1> QED
  BY <1>1, <1>4, <1>5 DEF Acquiring

\* Release: what is left to give back is what is left, and the end is a whole or nothing.
LEMMA ReleaseFits ==
    ASSUME OutputInv, Release
    PROVE  /\ BetweenCalls' \/ Releasing'
           /\ report.at = "writing" => Registered'
<1>1. calls.release # << >> /\ Releasing
  BY DEF Release, OutputInv, BetweenCalls, OutputIdle, NoCalls, Acquiring
<1> DEFINE q == calls.release
           t == Tail(q)
<1>2. /\ q \in Seq(Part) /\ Distinct(q) /\ calls.acquire = << >>
      /\ calls' = [calls EXCEPT !.release = Tail(@)] /\ channels' = channels /\ held' = held \ {Head(q)}
      /\ Head(q) \in {"registration", "engine"} => report.at = "rest"
  BY <1>1 DEF Release, OutputInv, Releasing
<1>3. calls' = [acquire |-> << >>, release |-> t]
  BY <1>2 DEF OutputInv
<1>4. /\ t \in Seq(Part) /\ Distinct(t)
      /\ ToSet(t) = ToSet(q) \ {Head(q)} /\ Head(q) \in ToSet(q)
  BY <1>1, <1>2, TailSet
<1>5. t = << >> => ToSet(t) = {}
  BY DEF ToSet
<1>8. calls'.acquire = << >> /\ calls'.release = t /\ (t = << >> => calls' = NoCalls)
  BY <1>3 DEF NoCalls
<1> HIDE DEF q, t
<1>6. CASE ReleasingEngine(q)
  <2>1. held' = ToSet(t) /\ ToSet(t) \subseteq EngineObjects
    BY <1>2, <1>4, <1>6 DEF ReleasingEngine
  <2>2. UnregistersFirst(t)
    <3>1. SUFFICES ASSUME "registration" \in ToSet(t) PROVE t = Unregisters
      BY DEF UnregistersFirst
    <3>2. q \in {Unregisters, DestroyOrder}
      BY <1>4, <1>6, <3>1 DEF ReleasingEngine, UnregistersFirst
    <3>3. q # Unregisters
      BY <1>4, <3>1, OrdersAre
    <3> QED
      BY <3>2, <3>3, OrdersAre DEF t
  <2>3. t = << >> => BetweenCalls'
    BY <1>5, <1>8, <2>1 DEF BetweenCalls, OutputIdle
  <2>4. t # << >> => Releasing'
    BY <1>4, <1>8, <2>1, <2>2 DEF Releasing, ReleasingEngine, UnregistersFirst
  <2> QED
    BY <1>2, <2>3, <2>4 DEF OutputInv, Registered
<1>7. CASE ReleasingVoice(q)
  <2>1. Head(q) \notin WholeEngine
    BY <1>4, <1>7 DEF ReleasingVoice, WholeEngine, VoiceObjects, EngineObjects
  <2>2. ToSet(t) \subseteq VoiceObjects(2) /\ held' = WholeEngine \cup (ToSet(t) \cap VoiceObjects(channels))
    BY <1>2, <1>4, <1>7, <2>1 DEF ReleasingVoice
  <2>3. t = << >> => BetweenCalls'
    BY <1>2, <1>5, <1>8, <2>2 DEF BetweenCalls, OutputIdle
  <2>4. t # << >> => Releasing'
    BY <1>2, <1>4, <1>8, <2>2 DEF Releasing, ReleasingVoice
  <2>5. Registered'
    BY <2>2 DEF Registered, WholeEngine, EngineObjects
  <2> QED
    BY <2>3, <2>4, <2>5
<1> QED
  BY <1>1, <1>6, <1>7 DEF Releasing, q

\* Calls begin with nothing or with wholes, and never under the reader of an error.
LEMMA BeginFits ==
    ASSUME OutputInv, read.at = "rest",
           CreateEngine \/ DestroyVoice \/ DestroyEngine \/ \E n \in 1 .. 2 : CreateVoice(n)
    PROVE  OutputInv'
<1>1. OutputIdle /\ held \in {{}, WholeEngine, WholeVoice(channels)} /\ calls.acquire = << >> /\ calls.release = << >>
  <2>1. OutputIdle
    BY DEF CreateEngine, DestroyVoice, DestroyEngine, CreateVoice, Begins
  <2> QED
    BY <2>1 DEF OutputInv, Acquiring, Releasing, BetweenCalls, OutputIdle, NoCalls
<1>2. /\ "memory" \notin held => held = {}
      /\ EngineUp => held \in {WholeEngine, WholeVoice(channels)}
      /\ ~VoiceUp => held \in {{}, WholeEngine}
      /\ VoiceUp => held = WholeVoice(channels)
  BY <1>1 DEF EngineUp, VoiceUp, WholeVoice, WholeEngine, EngineObjects, VoiceObjects
<1>3. ASSUME CreateEngine PROVE OutputInv'
  <2>1. /\ held = {} /\ held' = {} /\ channels' = channels /\ read' = read /\ report' = NoReport
        /\ calls' = [acquire |-> EngineParts, release |-> << >>]
    BY <1>2, <1>3 DEF CreateEngine, Begins
  <2>2. EngineParts \in Seq(Part) /\ From(EngineParts, 1) = EngineParts /\ EngineParts # << >>
    <3>1. EngineParts \in Seq(Part) /\ Len(EngineParts) # 0
      BY PartsTypes
    <3> QED
      BY <3>1, FromFirst
  <2>3. EngineHeld[1] = {}
    BY DEF EngineHeld
  <2>4. AcquiringEngine'
    BY <2>1, <2>2, <2>3 DEF AcquiringEngine
  <2>5. Acquiring'
    BY <2>1, <2>2, <2>4 DEF Acquiring
  <2>6. calls' \in [acquire : Seq(Part), release : Seq(Part)]
    BY <2>1, <2>2
  <2> QED
    BY <2>1, <2>5, <2>6 DEF OutputInv, NoReport
<1>4. ASSUME NEW n \in 1 .. 2, CreateVoice(n) PROVE OutputInv'
  <2>1. /\ held = WholeEngine /\ held' = WholeEngine /\ channels' = n /\ read' = read /\ report' = report
        /\ calls' = [acquire |-> VoiceParts(n), release |-> << >>]
    BY <1>2, <1>4 DEF CreateVoice, Begins, WholeEngine, EngineUp
  <2>2. VoiceParts(n) \in Seq(Part) /\ Len(VoiceParts(n)) \in 4 .. 5 /\ From(VoiceParts(n), 1) = VoiceParts(n) /\ VoiceParts(n) # << >>
    <3>1. VoiceParts(n) \in Seq(Part) /\ Len(VoiceParts(n)) \in 4 .. 5
      BY PartsTypes
    <3>2. Len(VoiceParts(n)) # 0
      <4>1. \A l \in 4 .. 5 : l # 0
        OBVIOUS
      <4> QED
        BY <3>1, <4>1
    <3> QED
      BY <3>1, <3>2, FromFirst
  <2>3. VoiceHeld(n)[1] = {}
    BY DEF VoiceHeld
  <2>4. AcquiringVoice'
    <3>1. 1 \in 1 .. Len(VoiceParts(n))
      BY <2>2
    <3> QED
      BY <2>1, <2>2, <2>3, <3>1 DEF AcquiringVoice
  <2>5. Acquiring'
    BY <2>1, <2>2, <2>4 DEF Acquiring
  <2>6. calls' \in [acquire : Seq(Part), release : Seq(Part)]
    BY <2>1, <2>2
  <2>7. report.at = "writing" => Registered'
    BY <2>1 DEF OutputInv, Registered, WholeEngine, EngineObjects
  <2> QED
    BY <2>1, <2>5, <2>6, <2>7 DEF OutputInv
<1>5. ASSUME DestroyVoice PROVE OutputInv'
  <2> DEFINE q == <<"source", "matrix", "azimuths", "voice">>
  <2>1. /\ held = WholeVoice(channels) /\ held' = held \ {"voiceReady"} /\ channels' = channels /\ read' = read /\ report' = report
        /\ calls' = [acquire |-> << >>, release |-> q]
    BY <1>2, <1>5 DEF DestroyVoice, Begins
  <2>2. q \in Seq(Part) /\ Distinct(q) /\ ToSet(q) = VoiceObjects(2) /\ q # << >>
    BY OrdersAre
  <2> HIDE DEF q
  <2>3. held' = WholeEngine \cup (ToSet(q) \cap VoiceObjects(channels))
    BY <2>1, <2>2 DEF WholeVoice, WholeEngine, EngineObjects, VoiceObjects
  <2>4. Releasing'
    BY <2>1, <2>2, <2>3 DEF Releasing, ReleasingVoice
  <2>5. Registered'
    BY <2>3 DEF Registered, WholeEngine, EngineObjects
  <2>6. calls' \in [acquire : Seq(Part), release : Seq(Part)]
    BY <2>1, <2>2
  <2> QED
    BY <2>1, <2>4, <2>5, <2>6 DEF OutputInv
<1>6. ASSUME DestroyEngine PROVE OutputInv'
  <2>1. /\ held = WholeEngine /\ held' = held \ {"x3dReady"} /\ channels' = channels /\ read' = read /\ report' = report
        /\ calls' = [acquire |-> << >>, release |-> DestroyOrder]
    BY <1>2, <1>6 DEF DestroyEngine, Begins, EngineUp
  <2>2. held' = EngineObjects
    BY <2>1 DEF WholeEngine, EngineObjects
  <2>3. Releasing'
    BY <2>1, <2>2, OrdersAre DEF Releasing, ReleasingEngine, UnregistersFirst
  <2>4. Registered'
    BY <2>2 DEF Registered, EngineObjects
  <2>5. calls' \in [acquire : Seq(Part), release : Seq(Part)]
    BY <2>1, OrdersAre
  <2> QED
    BY <2>1, <2>3, <2>4, <2>5 DEF OutputInv
<1> QED
  BY <1>3, <1>4, <1>5, <1>6

LEMMA OutputInvStep ==
    ASSUME OutputInv, [OutputNext]_outputVars
    PROVE  OutputInv'
<1>1. CASE UNCHANGED outputVars
  BY <1>1 DEF outputVars, OutputInv, BetweenCalls, Acquiring, Releasing, AcquiringEngine, AcquiringVoice,
              ReleasingEngine, ReleasingVoice, OutputIdle, EngineUp, Registered
<1>2. ASSUME Acquire PROVE OutputInv'
  <2>1. BetweenCalls' \/ Acquiring'
    BY <1>2, AcquireFits
  <2>2. /\ channels' = channels /\ report' = report /\ read' = read /\ held \subseteq held' /\ calls.acquire # << >>
        /\ calls' = [calls EXCEPT !.acquire = Tail(@)]
    BY <1>2 DEF Acquire
  <2>3. calls' \in [acquire : Seq(Part), release : Seq(Part)]
    <3>1. calls.acquire \in Seq(Part) /\ Tail(calls.acquire) \in Seq(Part)
      BY <2>2 DEF OutputInv
    <3> QED
      BY <2>2, <3>1 DEF OutputInv
  <2>4. read.at = "rest"
    BY <2>2 DEF OutputInv, OutputIdle, NoCalls
  <2> QED
    BY <2>1, <2>2, <2>3, <2>4 DEF OutputInv, Registered
<1>3. ASSUME AcquireFails PROVE OutputInv'
  <2>1. BetweenCalls' \/ Releasing'
    BY <1>3, AcquireFailsFits
  <2>2. /\ channels' = channels /\ report' = report /\ read' = read /\ held' = held /\ calls.acquire # << >>
        /\ calls' = [acquire |-> << >>, release |-> ReleasedAfter(Head(calls.acquire))]
    BY <1>3 DEF AcquireFails
  <2>3. calls' \in [acquire : Seq(Part), release : Seq(Part)]
    BY <2>2, ReleasedDistinct
  <2>4. read.at = "rest"
    BY <2>2 DEF OutputInv, OutputIdle, NoCalls
  <2> QED
    BY <2>1, <2>2, <2>3, <2>4 DEF OutputInv, Registered
<1>4. ASSUME Release PROVE OutputInv'
  <2>1. (BetweenCalls' \/ Releasing') /\ (report.at = "writing" => Registered')
    BY <1>4, ReleaseFits
  <2>2. /\ channels' = channels /\ report' = report /\ read' = read /\ calls.release # << >>
        /\ calls' = [calls EXCEPT !.release = Tail(@)]
    BY <1>4 DEF Release
  <2>3. calls' \in [acquire : Seq(Part), release : Seq(Part)]
    <3>1. calls.release \in Seq(Part) /\ Tail(calls.release) \in Seq(Part)
      BY <2>2 DEF OutputInv
    <3> QED
      BY <2>2, <3>1 DEF OutputInv
  <2>4. read.at = "rest"
    BY <2>2 DEF OutputInv, OutputIdle, NoCalls
  <2> QED
    BY <2>1, <2>2, <2>3, <2>4 DEF OutputInv
<1>5. ASSUME NEW e \in ErrorCode, OnCriticalError(e) PROVE OutputInv'
  <2>1. /\ UNCHANGED <<held, calls, channels, read>> /\ Registered
        /\ report' = [report EXCEPT !.at = "writing", !.code = e]
    BY <1>5 DEF OnCriticalError, WriteCode
  <2> QED
    BY <2>1 DEF OutputInv, BetweenCalls, Acquiring, Releasing, AcquiringEngine, AcquiringVoice,
                ReleasingEngine, ReleasingVoice, OutputIdle, EngineUp, Registered
<1>6. ASSUME SetFlag PROVE OutputInv'
  <2>1. /\ UNCHANGED <<held, calls, channels, read>> /\ report.at = "writing"
        /\ report' = [report EXCEPT !.at = "rest", !.flag = TRUE]
    BY <1>6 DEF SetFlag
  <2> QED
    BY <2>1 DEF OutputInv, BetweenCalls, Acquiring, Releasing, AcquiringEngine, AcquiringVoice,
                ReleasingEngine, ReleasingVoice, OutputIdle, EngineUp, Registered
<1>7. ASSUME ReadFlag \/ ReadCode \/ ReadDone PROVE OutputInv'
  <2>1. UNCHANGED <<held, calls, channels, report>>
    BY <1>7 DEF ReadFlag, ReadCode, ReadDone
  <2>2. /\ read'.at \in {"rest", "flagged", "done"}
        /\ read'.at = "flagged" => report.flag
        /\ read'.at # "rest" => OutputIdle /\ EngineUp
        /\ read'.at = "done" => read'.seen \in ErrorCode
    BY <1>7 DEF ReadFlag, ReadCode, ReadDone, NoRead, OutputInv
  <2> QED
    BY <2>1, <2>2 DEF OutputInv, BetweenCalls, Acquiring, Releasing, AcquiringEngine, AcquiringVoice,
                ReleasingEngine, ReleasingVoice, OutputIdle, EngineUp, Registered
<1> QED
  BY <1>1, <1>2, <1>3, <1>4, <1>5, <1>6, <1>7, BeginFits DEF OutputNext

LEMMA OutputInvInit == OutputInit => OutputInv
BY DEF OutputInit, OutputInv, BetweenCalls, OutputIdle, NoCalls, NoReport, NoRead, Registered

LEMMA OutputInvImplies ==
    ASSUME OutputInv
    PROVE  OutputIsWhole
<1>1. ToSet(EngineParts) \ Transient = EngineObjects
  <2>1. ToSet(EngineParts) = EngineObjects \cup {"channels", "x3d"}
    BY DEF ToSet, EngineParts, EngineObjects
  <2> QED
    BY <2>1 DEF EngineObjects, Transient
<1>2. ToSet(VoiceParts(channels)) \ Transient = VoiceObjects(channels)
  <2>1. channels \in 1 .. 2
    BY DEF OutputInv
  <2>2. CASE channels = 1
    <3>1. ToSet(VoiceParts(channels)) = {"voice", "matrix", "source", "started"}
      BY <2>2 DEF ToSet, VoiceParts
    <3> QED
      BY <2>2, <3>1 DEF VoiceObjects, Transient
  <2>3. CASE channels = 2
    <3>1. ToSet(VoiceParts(channels)) = {"voice", "matrix", "azimuths", "source", "started"}
      BY <2>3 DEF ToSet, VoiceParts
    <3> QED
      BY <2>3, <3>1 DEF VoiceObjects, Transient
  <2> QED
    BY <2>1, <2>2, <2>3
<1>3. WholeOrNothing
  <2>1. SUFFICES ASSUME OutputIdle PROVE held \in {{}, WholeEngine, WholeVoice(channels)}
    BY <1>1, <1>2 DEF WholeOrNothing, WholeEngine, WholeVoice
  <2> QED
    BY <2>1 DEF OutputInv, BetweenCalls, Acquiring, Releasing, OutputIdle, NoCalls
<1>4. Registered => {"callback", "memory"} \subseteq held
  <2>1. SUFFICES ASSUME Registered PROVE {"callback", "memory"} \subseteq held
    OBVIOUS
  <2>2. CASE BetweenCalls
    BY <2>1, <2>2 DEF BetweenCalls, Registered, WholeEngine, WholeVoice, EngineObjects
  <2>3. CASE AcquiringVoice
    BY <2>3 DEF AcquiringVoice, WholeEngine, EngineObjects
  <2>4. CASE AcquiringEngine
    <3>1. PICK k \in 1 .. 7 : held = EngineHeld[k]
      BY <2>4 DEF AcquiringEngine
    <3>2. k \in {5, 6, 7}
      <4>1. CASE k = 1  BY <2>1, <3>1, <4>1 DEF EngineHeld, Registered
      <4>2. CASE k = 2  BY <2>1, <3>1, <4>2 DEF EngineHeld, Registered
      <4>3. CASE k = 3  BY <2>1, <3>1, <4>3 DEF EngineHeld, Registered
      <4>4. CASE k = 4  BY <2>1, <3>1, <4>4 DEF EngineHeld, Registered
      <4> QED
        BY <4>1, <4>2, <4>3, <4>4
    <3>3. CASE k = 5  BY <3>1, <3>3 DEF EngineHeld
    <3>4. CASE k = 6  BY <3>1, <3>4 DEF EngineHeld, EngineObjects
    <3>5. CASE k = 7  BY <3>1, <3>5 DEF EngineHeld, EngineObjects
    <3> QED
      BY <3>2, <3>3, <3>4, <3>5
  <2>5. CASE Releasing /\ ReleasingVoice(calls.release)
    BY <2>5 DEF ReleasingVoice, WholeEngine, EngineObjects
  <2>6. CASE Releasing /\ ReleasingEngine(calls.release)
    <3>1. calls.release \in {Unregisters, DestroyOrder} /\ held = ToSet(calls.release)
      BY <2>1, <2>6 DEF ReleasingEngine, UnregistersFirst, Registered
    <3>2. ToSet(Unregisters) = {"registration", "engine", "callback", "memory"}
      BY DEF ToSet, Unregisters
    <3> QED
      BY <3>1, <3>2, OrdersAre DEF EngineObjects
  <2> QED
    BY <2>2, <2>3, <2>4, <2>5, <2>6 DEF OutputInv, Acquiring, Releasing
<1>5. ErrorsArriveWhole
  BY <1>4 DEF ErrorsArriveWhole, OutputInv
<1> QED
  BY <1>3, <1>5 DEF OutputIsWhole

\* Whichever part cannot be had and whenever the device reports an error, there is a whole engine or
\* none and a whole voice or none, the device's thread finds what it calls, and an error is read with
\* its own code (sa_xaudio_engine_create, sa_xaudio_voice_create, OnCriticalError).
THEOREM OutputCorrect == OutputSpec => []OutputIsWhole
BY OutputInvInit, OutputInvStep, OutputInvImplies, PTL DEF OutputSpec

-----------------------------------------------------------------------------
(***************************************************************************)
(* The stages of a decoder (decoder.c, filter.c, raw_cache.c, loader.c),    *)
(* for any libraries.                                                       *)
(***************************************************************************)
Opened == {"decoder", "format", "codec", "packet", "frame"}
Filtering == Opened \cup {"description"}
CachedFiltering == Audio \cup {"cached", "description"}

PlainStages == OpenStages(FALSE)
FilteredStages == OpenStages(TRUE)
ResamplerStages == <<Stage({"resampler"}, {}, {}), Stage({}, {}, {"resampler"})>>
CachedStages == <<Stage({"cached"}, {}, {}), Stage({"description"}, {}, {"cached"})>>

\* What the stages of a job have added, before each of them and at the end.
OpenPlain ==
  <<{}, {"decoder"}, {"decoder", "format"}, {"decoder", "format"}, {"decoder", "format", "codec"},
    {"decoder", "format", "codec"}, Opened>>
OpenFiltered ==
  <<{}, {"decoder"}, {"decoder", "description"}, {"decoder", "description", "format"},
    {"decoder", "description", "format"}, {"decoder", "description", "format", "codec"},
    {"decoder", "description", "format", "codec"}, Filtering>>
ResamplerAdds == <<{}, {"resampler"}, {"resampler"}>>
GraphAdds ==
  <<{}, {"text"}, {"text", "state"}, {"text", "state"}, {"text"} \cup Graph, {"text"} \cup Graph,
    {"text"} \cup Endpoints \cup Graph, {"text"} \cup Endpoints \cup Graph, Endpoints \cup Graph, Graph>>
BuildAdds ==
  <<{}, {"decoder"}, {"decoder", "format"}, {"decoder", "format"}, {"decoder", "format", "codec"},
    {"decoder", "format", "codec"}, Opened, Opened \cup {"audio"}, Opened \cup {"audio", "parameters"},
    Opened \cup {"audio", "parameters"}, Opened \cup Audio, Audio>>
CachedAdds == <<{}, {"cached"}, {"cached", "description"}>>

\* A job of these stages is on its way, from what was there before.
Runs(stages, adds, base) ==
  \E k \in 1 .. Len(stages) : job = SubSeq(stages, k, Len(stages)) /\ owned = base \cup adds[k]

\* A stage adds what it should, and its path of failure takes back what was added.
Fit(s, base, before, after) ==
  /\ (base \cup before \cup s.gets) \ s.drops = base \cup after
  /\ \A got \in SUBSET s.gets :
       got # s.gets \/ got = {} => ((base \cup before \cup got) \ s.drops) \ s.undo = base

Fits(stages, adds, base) == \A k \in 1 .. Len(stages) : Fit(stages[k], base, adds[k], adds[k + 1])

Wholes ==
  {{}, Opened, Opened \cup {"resampler"}, Filtering, Filtering \cup Graph,
   Audio, CachedFiltering, CachedFiltering \cup Graph}

Working ==
  \/ Runs(PlainStages, OpenPlain, {})
  \/ Runs(FilteredStages, OpenFiltered, {})
  \/ Runs(ResamplerStages, ResamplerAdds, Opened)
  \/ Runs(GraphStages, GraphAdds, Filtering)
  \/ Runs(GraphStages, GraphAdds, CachedFiltering)
  \/ Runs(BuildStages, BuildAdds, {})
  \/ Runs(CachedStages, CachedAdds, Audio)

PartsInv ==
  /\ IF job = NoJob THEN owned \in Wholes ELSE Working
  /\ job # NoJob \/ owned # {} => loaded.initialized
  /\ loaded.initialized <=> loaded.symbols
  /\ loaded.libraries \subseteq ToSet(Libraries)
  /\ loaded.symbols => loaded.libraries = ToSet(Libraries)

LEMMA PlainStagesAre ==
    /\ Len(PlainStages) = 6
    /\ PlainStages[1] = Stage({"decoder"}, {}, {})
    /\ PlainStages[2] = Stage({"format"}, {}, DecoderObjects)
    /\ PlainStages[3] = Stage({}, {}, DecoderObjects)
    /\ PlainStages[4] = Stage({"codec"}, {}, DecoderObjects)
    /\ PlainStages[5] = Stage({}, {}, DecoderObjects)
    /\ PlainStages[6] = Stage({"packet", "frame"}, {}, DecoderObjects)
BY DEF PlainStages, OpenStages

LEMMA PlainFits == Fits(PlainStages, OpenPlain, {})
<1> SUFFICES ASSUME NEW k \in 1 .. 6
    PROVE  Fit(PlainStages[k], {}, OpenPlain[k], OpenPlain[k + 1])
  BY PlainStagesAre DEF Fits
<1>1. CASE k = 1
  BY <1>1, PlainStagesAre DEF OpenPlain, Fit, Stage, Opened, Filtering, CachedFiltering, Audio, Graph, Endpoints, DecoderObjects
<1>2. CASE k = 2
  BY <1>2, PlainStagesAre DEF OpenPlain, Fit, Stage, Opened, Filtering, CachedFiltering, Audio, Graph, Endpoints, DecoderObjects
<1>3. CASE k = 3
  BY <1>3, PlainStagesAre DEF OpenPlain, Fit, Stage, Opened, Filtering, CachedFiltering, Audio, Graph, Endpoints, DecoderObjects
<1>4. CASE k = 4
  BY <1>4, PlainStagesAre DEF OpenPlain, Fit, Stage, Opened, Filtering, CachedFiltering, Audio, Graph, Endpoints, DecoderObjects
<1>5. CASE k = 5
  BY <1>5, PlainStagesAre DEF OpenPlain, Fit, Stage, Opened, Filtering, CachedFiltering, Audio, Graph, Endpoints, DecoderObjects
<1>6. CASE k = 6
  BY <1>6, PlainStagesAre DEF OpenPlain, Fit, Stage, Opened, Filtering, CachedFiltering, Audio, Graph, Endpoints, DecoderObjects
<1> QED
  BY <1>1, <1>2, <1>3, <1>4, <1>5, <1>6

LEMMA FilteredStagesAre ==
    /\ Len(FilteredStages) = 7
    /\ FilteredStages[1] = Stage({"decoder"}, {}, {})
    /\ FilteredStages[2] = Stage({"description"}, {}, {"decoder"})
    /\ FilteredStages[3] = Stage({"format"}, {}, DecoderObjects)
    /\ FilteredStages[4] = Stage({}, {}, DecoderObjects)
    /\ FilteredStages[5] = Stage({"codec"}, {}, DecoderObjects)
    /\ FilteredStages[6] = Stage({}, {}, DecoderObjects)
    /\ FilteredStages[7] = Stage({"packet", "frame"}, {}, DecoderObjects)
BY DEF FilteredStages, OpenStages

LEMMA FilteredFits == Fits(FilteredStages, OpenFiltered, {})
<1> SUFFICES ASSUME NEW k \in 1 .. 7
    PROVE  Fit(FilteredStages[k], {}, OpenFiltered[k], OpenFiltered[k + 1])
  BY FilteredStagesAre DEF Fits
<1>1. CASE k = 1
  BY <1>1, FilteredStagesAre DEF OpenFiltered, Fit, Stage, Opened, Filtering, CachedFiltering, Audio, Graph, Endpoints, DecoderObjects
<1>2. CASE k = 2
  BY <1>2, FilteredStagesAre DEF OpenFiltered, Fit, Stage, Opened, Filtering, CachedFiltering, Audio, Graph, Endpoints, DecoderObjects
<1>3. CASE k = 3
  BY <1>3, FilteredStagesAre DEF OpenFiltered, Fit, Stage, Opened, Filtering, CachedFiltering, Audio, Graph, Endpoints, DecoderObjects
<1>4. CASE k = 4
  BY <1>4, FilteredStagesAre DEF OpenFiltered, Fit, Stage, Opened, Filtering, CachedFiltering, Audio, Graph, Endpoints, DecoderObjects
<1>5. CASE k = 5
  BY <1>5, FilteredStagesAre DEF OpenFiltered, Fit, Stage, Opened, Filtering, CachedFiltering, Audio, Graph, Endpoints, DecoderObjects
<1>6. CASE k = 6
  BY <1>6, FilteredStagesAre DEF OpenFiltered, Fit, Stage, Opened, Filtering, CachedFiltering, Audio, Graph, Endpoints, DecoderObjects
<1>7. CASE k = 7
  BY <1>7, FilteredStagesAre DEF OpenFiltered, Fit, Stage, Opened, Filtering, CachedFiltering, Audio, Graph, Endpoints, DecoderObjects
<1> QED
  BY <1>1, <1>2, <1>3, <1>4, <1>5, <1>6, <1>7

LEMMA ResamplerStagesAre ==
    /\ Len(ResamplerStages) = 2
    /\ ResamplerStages[1] = Stage({"resampler"}, {}, {})
    /\ ResamplerStages[2] = Stage({}, {}, {"resampler"})
BY DEF ResamplerStages

LEMMA ResamplerFits == Fits(ResamplerStages, ResamplerAdds, Opened)
<1> SUFFICES ASSUME NEW k \in 1 .. 2
    PROVE  Fit(ResamplerStages[k], Opened, ResamplerAdds[k], ResamplerAdds[k + 1])
  BY ResamplerStagesAre DEF Fits
<1>1. CASE k = 1
  BY <1>1, ResamplerStagesAre DEF ResamplerAdds, Fit, Stage, Opened, Filtering, CachedFiltering, Audio, Graph, Endpoints, DecoderObjects
<1>2. CASE k = 2
  BY <1>2, ResamplerStagesAre DEF ResamplerAdds, Fit, Stage, Opened, Filtering, CachedFiltering, Audio, Graph, Endpoints, DecoderObjects
<1> QED
  BY <1>1, <1>2

LEMMA GraphStagesAre ==
    /\ Len(GraphStages) = 9
    /\ GraphStages[1] = Stage({"text"}, {}, {})
    /\ GraphStages[2] = Stage({"state"}, {}, {"text"})
    /\ GraphStages[3] = Stage({}, {}, {"text", "state"})
    /\ GraphStages[4] = Stage({"graph", "graphFrame"}, {}, {"text"} \cup Graph)
    /\ GraphStages[5] = Stage({}, {}, {"text"} \cup Graph)
    /\ GraphStages[6] = Stage(Endpoints, {}, {"text"} \cup Endpoints \cup Graph)
    /\ GraphStages[7] = Stage({}, {}, {"text"} \cup Endpoints \cup Graph)
    /\ GraphStages[8] = Stage({}, {"text"}, Endpoints \cup Graph)
    /\ GraphStages[9] = Stage({}, Endpoints, Graph)
BY DEF GraphStages

LEMMA GraphFits ==
    ASSUME NEW base \in {Filtering, CachedFiltering}
    PROVE  Fits(GraphStages, GraphAdds, base)
<1>0. base \cap ({"text", "state", "graph", "graphFrame"} \cup Endpoints \cup Graph) = {}
  BY DEF Filtering, CachedFiltering, Opened, Audio, Endpoints, Graph
<1> SUFFICES ASSUME NEW k \in 1 .. 9
    PROVE  Fit(GraphStages[k], base, GraphAdds[k], GraphAdds[k + 1])
  BY GraphStagesAre DEF Fits
<1>1. CASE k = 1
  BY <1>0, <1>1, GraphStagesAre DEF GraphAdds, Fit, Stage, Graph, Endpoints
<1>2. CASE k = 2
  BY <1>0, <1>2, GraphStagesAre DEF GraphAdds, Fit, Stage, Graph, Endpoints
<1>3. CASE k = 3
  BY <1>0, <1>3, GraphStagesAre DEF GraphAdds, Fit, Stage, Graph, Endpoints
<1>4. CASE k = 4
  BY <1>0, <1>4, GraphStagesAre DEF GraphAdds, Fit, Stage, Graph, Endpoints
<1>5. CASE k = 5
  BY <1>0, <1>5, GraphStagesAre DEF GraphAdds, Fit, Stage, Graph, Endpoints
<1>6. CASE k = 6
  BY <1>0, <1>6, GraphStagesAre DEF GraphAdds, Fit, Stage, Graph, Endpoints
<1>7. CASE k = 7
  BY <1>0, <1>7, GraphStagesAre DEF GraphAdds, Fit, Stage, Graph, Endpoints
<1>8. CASE k = 8
  BY <1>0, <1>8, GraphStagesAre DEF GraphAdds, Fit, Stage, Graph, Endpoints
<1>9. CASE k = 9
  BY <1>0, <1>9, GraphStagesAre DEF GraphAdds, Fit, Stage, Graph, Endpoints
<1> QED
  BY <1>1, <1>2, <1>3, <1>4, <1>5, <1>6, <1>7, <1>8, <1>9

LEMMA BuildStagesAre ==
    /\ Len(BuildStages) = 11
    /\ BuildStages[1] = Stage({"decoder"}, {}, {})
    /\ BuildStages[2] = Stage({"format"}, {}, DecoderObjects)
    /\ BuildStages[3] = Stage({}, {}, DecoderObjects)
    /\ BuildStages[4] = Stage({"codec"}, {}, DecoderObjects)
    /\ BuildStages[5] = Stage({}, {}, DecoderObjects)
    /\ BuildStages[6] = Stage({"packet", "frame"}, {}, DecoderObjects)
    /\ BuildStages[7] = Stage({"audio"}, {}, DecoderObjects)
    /\ BuildStages[8] = Stage({"parameters"}, {}, DecoderObjects \cup Audio)
    /\ BuildStages[9] = Stage({}, {}, DecoderObjects \cup Audio)
    /\ BuildStages[10] = Stage({"frames"}, {}, DecoderObjects \cup Audio)
    /\ BuildStages[11] = Stage({}, DecoderObjects, Audio)
BY DEF BuildStages, OpenStages

LEMMA BuildFits == Fits(BuildStages, BuildAdds, {})
<1> SUFFICES ASSUME NEW k \in 1 .. 11
    PROVE  Fit(BuildStages[k], {}, BuildAdds[k], BuildAdds[k + 1])
  BY BuildStagesAre DEF Fits
<1>1. CASE k = 1
  BY <1>1, BuildStagesAre DEF BuildAdds, Fit, Stage, Opened, Filtering, CachedFiltering, Audio, Graph, Endpoints, DecoderObjects
<1>2. CASE k = 2
  BY <1>2, BuildStagesAre DEF BuildAdds, Fit, Stage, Opened, Filtering, CachedFiltering, Audio, Graph, Endpoints, DecoderObjects
<1>3. CASE k = 3
  BY <1>3, BuildStagesAre DEF BuildAdds, Fit, Stage, Opened, Filtering, CachedFiltering, Audio, Graph, Endpoints, DecoderObjects
<1>4. CASE k = 4
  BY <1>4, BuildStagesAre DEF BuildAdds, Fit, Stage, Opened, Filtering, CachedFiltering, Audio, Graph, Endpoints, DecoderObjects
<1>5. CASE k = 5
  BY <1>5, BuildStagesAre DEF BuildAdds, Fit, Stage, Opened, Filtering, CachedFiltering, Audio, Graph, Endpoints, DecoderObjects
<1>6. CASE k = 6
  BY <1>6, BuildStagesAre DEF BuildAdds, Fit, Stage, Opened, Filtering, CachedFiltering, Audio, Graph, Endpoints, DecoderObjects
<1>7. CASE k = 7
  BY <1>7, BuildStagesAre DEF BuildAdds, Fit, Stage, Opened, Filtering, CachedFiltering, Audio, Graph, Endpoints, DecoderObjects
<1>8. CASE k = 8
  BY <1>8, BuildStagesAre DEF BuildAdds, Fit, Stage, Opened, Filtering, CachedFiltering, Audio, Graph, Endpoints, DecoderObjects
<1>9. CASE k = 9
  BY <1>9, BuildStagesAre DEF BuildAdds, Fit, Stage, Opened, Filtering, CachedFiltering, Audio, Graph, Endpoints, DecoderObjects
<1>10. CASE k = 10
  BY <1>10, BuildStagesAre DEF BuildAdds, Fit, Stage, Opened, Filtering, CachedFiltering, Audio, Graph, Endpoints, DecoderObjects
<1>11. CASE k = 11
  BY <1>11, BuildStagesAre DEF BuildAdds, Fit, Stage, Opened, Filtering, CachedFiltering, Audio, Graph, Endpoints, DecoderObjects
<1> QED
  BY <1>1, <1>2, <1>3, <1>4, <1>5, <1>6, <1>7, <1>8, <1>9, <1>10, <1>11

LEMMA CachedStagesAre ==
    /\ Len(CachedStages) = 2
    /\ CachedStages[1] = Stage({"cached"}, {}, {})
    /\ CachedStages[2] = Stage({"description"}, {}, {"cached"})
BY DEF CachedStages

LEMMA CachedFits == Fits(CachedStages, CachedAdds, Audio)
<1> SUFFICES ASSUME NEW k \in 1 .. 2
    PROVE  Fit(CachedStages[k], Audio, CachedAdds[k], CachedAdds[k + 1])
  BY CachedStagesAre DEF Fits
<1>1. CASE k = 1
  BY <1>1, CachedStagesAre DEF CachedAdds, Fit, Stage, Opened, Filtering, CachedFiltering, Audio, Graph, Endpoints, DecoderObjects
<1>2. CASE k = 2
  BY <1>2, CachedStagesAre DEF CachedAdds, Fit, Stage, Opened, Filtering, CachedFiltering, Audio, Graph, Endpoints, DecoderObjects
<1> QED
  BY <1>1, <1>2

-----------------------------------------------------------------------------
(***************************************************************************)
(* The stages of every job are a sequence, and a job is a tail of one.      *)
(***************************************************************************)
Object == DecoderObjects \cup Endpoints \cup Audio \cup {"text", "cached"}
StageSet == [gets : SUBSET Object, drops : SUBSET Object, undo : SUBSET Object]

LEMMA StageIsTyped ==
    ASSUME NEW gets \in SUBSET Object, NEW drops \in SUBSET Object, NEW undo \in SUBSET Object
    PROVE  Stage(gets, drops, undo) \in StageSet
BY DEF Stage, StageSet

LEMMA ObjectSets ==
    /\ {"decoder"} \in SUBSET Object
    /\ {} \in SUBSET Object
    /\ {"format"} \in SUBSET Object
    /\ DecoderObjects \in SUBSET Object
    /\ {"codec"} \in SUBSET Object
    /\ {"packet", "frame"} \in SUBSET Object
    /\ {"description"} \in SUBSET Object
    /\ {"resampler"} \in SUBSET Object
    /\ {"text"} \in SUBSET Object
    /\ {"state"} \in SUBSET Object
    /\ {"text", "state"} \in SUBSET Object
    /\ {"graph", "graphFrame"} \in SUBSET Object
    /\ {"text"} \cup Graph \in SUBSET Object
    /\ Endpoints \in SUBSET Object
    /\ {"text"} \cup Endpoints \cup Graph \in SUBSET Object
    /\ Endpoints \cup Graph \in SUBSET Object
    /\ Graph \in SUBSET Object
    /\ {"audio"} \in SUBSET Object
    /\ {"parameters"} \in SUBSET Object
    /\ DecoderObjects \cup Audio \in SUBSET Object
    /\ {"frames"} \in SUBSET Object
    /\ Audio \in SUBSET Object
    /\ {"cached"} \in SUBSET Object
BY DEF Object, Endpoints, Graph, DecoderObjects, Audio

LEMMA StagesInSet ==
    /\ Stage({"decoder"}, {}, {}) \in StageSet
    /\ Stage({"format"}, {}, DecoderObjects) \in StageSet
    /\ Stage({}, {}, DecoderObjects) \in StageSet
    /\ Stage({"codec"}, {}, DecoderObjects) \in StageSet
    /\ Stage({"packet", "frame"}, {}, DecoderObjects) \in StageSet
    /\ Stage({"description"}, {}, {"decoder"}) \in StageSet
    /\ Stage({"resampler"}, {}, {}) \in StageSet
    /\ Stage({}, {}, {"resampler"}) \in StageSet
    /\ Stage({"text"}, {}, {}) \in StageSet
    /\ Stage({"state"}, {}, {"text"}) \in StageSet
    /\ Stage({}, {}, {"text", "state"}) \in StageSet
    /\ Stage({"graph", "graphFrame"}, {}, {"text"} \cup Graph) \in StageSet
    /\ Stage({}, {}, {"text"} \cup Graph) \in StageSet
    /\ Stage(Endpoints, {}, {"text"} \cup Endpoints \cup Graph) \in StageSet
    /\ Stage({}, {}, {"text"} \cup Endpoints \cup Graph) \in StageSet
    /\ Stage({}, {"text"}, Endpoints \cup Graph) \in StageSet
    /\ Stage({}, Endpoints, Graph) \in StageSet
    /\ Stage({"audio"}, {}, DecoderObjects) \in StageSet
    /\ Stage({"parameters"}, {}, DecoderObjects \cup Audio) \in StageSet
    /\ Stage({}, {}, DecoderObjects \cup Audio) \in StageSet
    /\ Stage({"frames"}, {}, DecoderObjects \cup Audio) \in StageSet
    /\ Stage({}, DecoderObjects, Audio) \in StageSet
    /\ Stage({"cached"}, {}, {}) \in StageSet
    /\ Stage({"description"}, {}, {"cached"}) \in StageSet
<1>1. Stage({"decoder"}, {}, {}) \in StageSet
  BY ObjectSets, StageIsTyped
<1>2. Stage({"format"}, {}, DecoderObjects) \in StageSet
  BY ObjectSets, StageIsTyped
<1>3. Stage({}, {}, DecoderObjects) \in StageSet
  BY ObjectSets, StageIsTyped
<1>4. Stage({"codec"}, {}, DecoderObjects) \in StageSet
  BY ObjectSets, StageIsTyped
<1>5. Stage({"packet", "frame"}, {}, DecoderObjects) \in StageSet
  BY ObjectSets, StageIsTyped
<1>6. Stage({"description"}, {}, {"decoder"}) \in StageSet
  BY ObjectSets, StageIsTyped
<1>7. Stage({"resampler"}, {}, {}) \in StageSet
  BY ObjectSets, StageIsTyped
<1>8. Stage({}, {}, {"resampler"}) \in StageSet
  BY ObjectSets, StageIsTyped
<1>9. Stage({"text"}, {}, {}) \in StageSet
  BY ObjectSets, StageIsTyped
<1>10. Stage({"state"}, {}, {"text"}) \in StageSet
  BY ObjectSets, StageIsTyped
<1>11. Stage({}, {}, {"text", "state"}) \in StageSet
  BY ObjectSets, StageIsTyped
<1>12. Stage({"graph", "graphFrame"}, {}, {"text"} \cup Graph) \in StageSet
  BY ObjectSets, StageIsTyped
<1>13. Stage({}, {}, {"text"} \cup Graph) \in StageSet
  BY ObjectSets, StageIsTyped
<1>14. Stage(Endpoints, {}, {"text"} \cup Endpoints \cup Graph) \in StageSet
  BY ObjectSets, StageIsTyped
<1>15. Stage({}, {}, {"text"} \cup Endpoints \cup Graph) \in StageSet
  BY ObjectSets, StageIsTyped
<1>16. Stage({}, {"text"}, Endpoints \cup Graph) \in StageSet
  BY ObjectSets, StageIsTyped
<1>17. Stage({}, Endpoints, Graph) \in StageSet
  BY ObjectSets, StageIsTyped
<1>18. Stage({"audio"}, {}, DecoderObjects) \in StageSet
  BY ObjectSets, StageIsTyped
<1>19. Stage({"parameters"}, {}, DecoderObjects \cup Audio) \in StageSet
  BY ObjectSets, StageIsTyped
<1>20. Stage({}, {}, DecoderObjects \cup Audio) \in StageSet
  BY ObjectSets, StageIsTyped
<1>21. Stage({"frames"}, {}, DecoderObjects \cup Audio) \in StageSet
  BY ObjectSets, StageIsTyped
<1>22. Stage({}, DecoderObjects, Audio) \in StageSet
  BY ObjectSets, StageIsTyped
<1>23. Stage({"cached"}, {}, {}) \in StageSet
  BY ObjectSets, StageIsTyped
<1>24. Stage({"description"}, {}, {"cached"}) \in StageSet
  BY ObjectSets, StageIsTyped
<1> QED
  BY <1>1, <1>2, <1>3, <1>4, <1>5, <1>6, <1>7, <1>8, <1>9, <1>10, <1>11, <1>12, <1>13, <1>14, <1>15, <1>16, <1>17, <1>18, <1>19, <1>20, <1>21, <1>22, <1>23, <1>24

LEMMA OpenStagesTyped == PlainStages \in Seq(StageSet) /\ FilteredStages \in Seq(StageSet)
<1> DEFINE first == Stage({"decoder"}, {}, {})
           filter == Stage({"description"}, {}, {"decoder"})
           rest == <<Stage({"format"}, {}, DecoderObjects), Stage({}, {}, DecoderObjects),
                     Stage({"codec"}, {}, DecoderObjects), Stage({}, {}, DecoderObjects),
                     Stage({"packet", "frame"}, {}, DecoderObjects)>>
<1>1. first \in StageSet /\ filter \in StageSet
  BY StagesInSet
<1>2. rest \in Seq(StageSet)
  BY StagesInSet
<1>3. PlainStages = <<first>> \o << >> \o rest /\ FilteredStages = <<first>> \o <<filter>> \o rest
  BY DEF PlainStages, FilteredStages, OpenStages
<1> HIDE DEF first, filter, rest
<1> QED
  BY <1>1, <1>2, <1>3

LEMMA StagesTyped ==
    /\ ResamplerStages \in Seq(StageSet) /\ GraphStages \in Seq(StageSet) /\ BuildStages \in Seq(StageSet)
    /\ CachedStages \in Seq(StageSet)
<1>1. ResamplerStages \in Seq(StageSet) /\ CachedStages \in Seq(StageSet)
  BY StagesInSet DEF ResamplerStages, CachedStages
<1>2. GraphStages \in Seq(StageSet)
  BY StagesInSet DEF GraphStages
<1> DEFINE rest == <<Stage({"audio"}, {}, DecoderObjects), Stage({"parameters"}, {}, DecoderObjects \cup Audio),
                     Stage({}, {}, DecoderObjects \cup Audio), Stage({"frames"}, {}, DecoderObjects \cup Audio),
                     Stage({}, DecoderObjects, Audio)>>
<1>3. rest \in Seq(StageSet)
  BY StagesInSet
<1>4. BuildStages = PlainStages \o rest
  BY DEF BuildStages, PlainStages
<1> HIDE DEF rest
<1> QED
  BY <1>1, <1>2, <1>3, <1>4, OpenStagesTyped

\* A queue of one.
LEMMA OneEntry == \A S : \A x \in S : <<x>> \in Seq(S) /\ Len(<<x>>) = 1 /\ <<x>>[1] = x
  OBVIOUS

LEMMA JobStep ==
    ASSUME NEW stages \in Seq(StageSet), NEW k \in 1 .. Len(stages)
    PROVE  /\ SubSeq(stages, k, Len(stages)) # << >>
           /\ Head(SubSeq(stages, k, Len(stages))) = stages[k]
           /\ Tail(SubSeq(stages, k, Len(stages))) = SubSeq(stages, k + 1, Len(stages))
           /\ k = Len(stages) => SubSeq(stages, k + 1, Len(stages)) = << >>
<1> DEFINE n == Len(stages)
           t == Tail(SubSeq(stages, k, n))
           u == SubSeq(stages, k + 1, n)
<1>0. n \in Nat
  OBVIOUS
<1>1. /\ SubSeq(stages, k, n) \in Seq(StageSet) /\ Len(SubSeq(stages, k, n)) = n + 1 - k
      /\ \A i \in 1 .. (n + 1 - k) : SubSeq(stages, k, n)[i] = stages[k + i - 1]
  OBVIOUS
<1>2. u \in Seq(StageSet) /\ Len(u) = n - k /\ \A i \in 1 .. (n - k) : u[i] = stages[k + i]
  OBVIOUS
<1>3. t \in Seq(StageSet) /\ Len(t) = n - k /\ \A i \in 1 .. (n - k) : t[i] = stages[k + i]
  <2> DEFINE w == SubSeq(stages, k, n)
             m == n - k
  <2>1. w \in Seq(StageSet) /\ Len(w) = m + 1 /\ (\A i \in 1 .. m + 1 : w[i] = stages[k + i - 1]) /\ m \in Nat
    BY <1>0, <1>1
  <2> HIDE DEF w, m
  <2>2. w # << >>
    BY <2>1, EmptySeq
  <2>3. Tail(w) \in Seq(StageSet) /\ Len(Tail(w)) = Len(w) - 1 /\ \A i \in 1 .. Len(Tail(w)) : Tail(w)[i] = w[i + 1]
    BY <2>1, <2>2, HeadTailProperties
  <2>4. Len(Tail(w)) = m
    BY <2>1, <2>3
  <2>5. ASSUME NEW i \in 1 .. m PROVE Tail(w)[i] = stages[k + i]
    <3>1. i + 1 \in 1 .. m + 1 /\ k + (i + 1) - 1 = k + i
      BY <2>1
    <3>2. w[i + 1] = stages[k + (i + 1) - 1]
      BY <2>1, <3>1
    <3> QED
      BY <2>3, <2>4, <3>1, <3>2
  <2> QED
    BY <2>3, <2>4, <2>5 DEF w, m
<1>4. Len(t) = Len(u) /\ (\A i \in 1 .. Len(t) : t[i] = u[i]) /\ t \in Seq(StageSet) /\ u \in Seq(StageSet)
  BY <1>2, <1>3
<1>5. t = u
  <2> HIDE DEF t, u, n
  <2> QED
    BY <1>4, SeqEqual
<1>6. SubSeq(stages, k, n) # << >> /\ Head(SubSeq(stages, k, n)) = stages[k]
  <2> DEFINE w == SubSeq(stages, k, n)
  <2>1. 1 \in 1 .. (n + 1 - k) /\ k + 1 - 1 = k
    BY <1>0
  <2>2. w[1] = stages[k] /\ w \in Seq(StageSet) /\ Len(w) \in Nat \ {0}
    BY <1>0, <1>1, <2>1
  <2>3. w # << >> /\ Head(w) = w[1]
    <3> HIDE DEF w, n
    <3> QED
      BY <2>2
  <2> QED
    BY <2>2, <2>3
<1>7. k = n => u = << >>
  <2> HIDE DEF u
  <2> QED
    BY <1>0, <1>2, EmptySeq
<1> QED
  BY <1>5, <1>6, <1>7

LEMMA BeginRuns ==
    ASSUME NEW stages \in Seq(StageSet), NEW adds, NEW base, stages # << >>, adds[1] = {},
           owned = base, job' = stages, UNCHANGED owned
    PROVE  Runs(stages, adds, base)' /\ job' # NoJob
<1>1. SubSeq(stages, 1, Len(stages)) = stages /\ 1 \in 1 .. Len(stages)
  OBVIOUS
<1>2. owned' = base \cup adds[1]
  OBVIOUS
<1> QED
  BY <1>1, <1>2 DEF Runs, NoJob

\* A stage that is done brings the job to the next or to its end, one that fails to what was there before.
LEMMA StageRuns ==
    ASSUME NEW stages \in Seq(StageSet), NEW adds, NEW base, Fits(stages, adds, base),
           Runs(stages, adds, base)
    PROVE  /\ StageDone => \/ Runs(stages, adds, base)' /\ job' # NoJob
                           \/ job' = NoJob /\ owned' = base \cup adds[Len(stages) + 1]
           /\ StageFails => job' = NoJob /\ owned' = base
<1>1. PICK k \in 1 .. Len(stages) : job = SubSeq(stages, k, Len(stages)) /\ owned = base \cup adds[k]
  BY DEF Runs
<1>2. /\ job # << >> /\ Head(job) = stages[k] /\ Tail(job) = SubSeq(stages, k + 1, Len(stages))
      /\ k = Len(stages) => SubSeq(stages, k + 1, Len(stages)) = << >>
  BY <1>1, JobStep
<1>3. Fit(stages[k], base, adds[k], adds[k + 1])
  BY DEF Fits
<1>4. ASSUME StageDone
      PROVE  \/ Runs(stages, adds, base)' /\ job' # NoJob
             \/ job' = NoJob /\ owned' = base \cup adds[Len(stages) + 1]
  <2>1. owned' = base \cup adds[k + 1] /\ job' = SubSeq(stages, k + 1, Len(stages))
    BY <1>1, <1>2, <1>3, <1>4 DEF StageDone, Fit
  <2>2. CASE k = Len(stages)
    BY <1>2, <2>1, <2>2 DEF NoJob
  <2>3. CASE k # Len(stages)
    <3>1. k + 1 \in 1 .. Len(stages)
      BY <2>3
    <3>2. SubSeq(stages, k + 1, Len(stages)) # << >>
      BY <3>1, JobStep
    <3> QED
      BY <2>1, <3>1, <3>2 DEF Runs, NoJob
  <2> QED
    BY <2>2, <2>3
<1>5. ASSUME StageFails
      PROVE  job' = NoJob /\ owned' = base
  BY <1>1, <1>2, <1>3, <1>5 DEF StageFails, Fit
<1> QED
  BY <1>4, <1>5

-----------------------------------------------------------------------------
LEMMA WholeContents ==
    /\ {} \cup OpenPlain[Len(PlainStages) + 1] = Opened
    /\ {} \cup OpenFiltered[Len(FilteredStages) + 1] = Filtering
    /\ Opened \cup ResamplerAdds[Len(ResamplerStages) + 1] = Opened \cup {"resampler"}
    /\ \A base : base \cup GraphAdds[Len(GraphStages) + 1] = base \cup Graph
    /\ {} \cup BuildAdds[Len(BuildStages) + 1] = Audio
    /\ Audio \cup CachedAdds[Len(CachedStages) + 1] = CachedFiltering
<1>1. /\ OpenPlain[7] = Opened /\ OpenFiltered[8] = Filtering /\ ResamplerAdds[3] = {"resampler"}
      /\ GraphAdds[10] = Graph /\ BuildAdds[12] = Audio /\ CachedAdds[3] = {"cached", "description"}
  BY DEF OpenPlain, OpenFiltered, ResamplerAdds, GraphAdds, BuildAdds, CachedAdds
<1>2. /\ Len(PlainStages) + 1 = 7 /\ Len(FilteredStages) + 1 = 8 /\ Len(ResamplerStages) + 1 = 3
  BY PlainStagesAre, FilteredStagesAre, ResamplerStagesAre
<1>3. /\ Len(GraphStages) + 1 = 10 /\ Len(BuildStages) + 1 = 12 /\ Len(CachedStages) + 1 = 3
  BY GraphStagesAre, BuildStagesAre, CachedStagesAre
<1>4. /\ {} \cup OpenPlain[Len(PlainStages) + 1] = Opened
      /\ {} \cup OpenFiltered[Len(FilteredStages) + 1] = Filtering
      /\ {} \cup BuildAdds[Len(BuildStages) + 1] = Audio
  BY <1>1, <1>2, <1>3
<1>5. /\ Opened \cup ResamplerAdds[Len(ResamplerStages) + 1] = Opened \cup {"resampler"}
      /\ \A base : base \cup GraphAdds[Len(GraphStages) + 1] = base \cup Graph
  BY <1>1, <1>2, <1>3
<1>6. Audio \cup CachedAdds[Len(CachedStages) + 1] = CachedFiltering
  BY <1>1, <1>3 DEF CachedFiltering
<1> QED
  BY <1>4, <1>5, <1>6

LEMMA NothingAddedAtFirst ==
    /\ OpenPlain[1] = {} /\ OpenFiltered[1] = {} /\ ResamplerAdds[1] = {} /\ GraphAdds[1] = {}
    /\ BuildAdds[1] = {} /\ CachedAdds[1] = {}
    /\ PlainStages # << >> /\ FilteredStages # << >> /\ ResamplerStages # << >> /\ GraphStages # << >>
    /\ BuildStages # << >> /\ CachedStages # << >>
<1>1. OpenPlain[1] = {} /\ OpenFiltered[1] = {} /\ ResamplerAdds[1] = {}
  BY DEF OpenPlain, OpenFiltered, ResamplerAdds
<1>2. GraphAdds[1] = {} /\ BuildAdds[1] = {} /\ CachedAdds[1] = {}
  BY DEF GraphAdds, BuildAdds, CachedAdds
<1>3. Len(PlainStages) # 0 /\ Len(FilteredStages) # 0 /\ Len(ResamplerStages) # 0
  BY PlainStagesAre, FilteredStagesAre, ResamplerStagesAre
<1>4. Len(GraphStages) # 0 /\ Len(BuildStages) # 0 /\ Len(CachedStages) # 0
  BY GraphStagesAre, BuildStagesAre, CachedStagesAre
<1>5. Len(<< >>) = 0
  OBVIOUS
<1>6. PlainStages # << >> /\ FilteredStages # << >> /\ ResamplerStages # << >>
  BY Zenon, <1>3, <1>5
<1>7. GraphStages # << >> /\ BuildStages # << >> /\ CachedStages # << >>
  BY Zenon, <1>4, <1>5
<1> QED
  BY <1>1, <1>2, <1>6, <1>7

\* What is owned between jobs, and while one is on its way.
Owned == IF job = NoJob THEN owned \in Wholes ELSE Working

Loaded ==
  /\ loaded.initialized <=> loaded.symbols
  /\ loaded.libraries \subseteq ToSet(Libraries)
  /\ loaded.symbols => loaded.libraries = ToSet(Libraries)

LEMMA RunKeepsOwned ==
    ASSUME NEW stages \in Seq(StageSet), NEW adds, NEW base \in Wholes, Fits(stages, adds, base),
           Runs(stages, adds, base), Runs(stages, adds, base)' => Working',
           base \cup adds[Len(stages) + 1] \in Wholes
    PROVE  (StageDone => Owned') /\ (StageFails => Owned')
<1>1. /\ StageDone => \/ Runs(stages, adds, base)' /\ job' # NoJob
                      \/ job' = NoJob /\ owned' = base \cup adds[Len(stages) + 1]
      /\ StageFails => job' = NoJob /\ owned' = base
  BY StageRuns
<1>2. Wholes' = Wholes /\ NoJob' = NoJob
  BY DEF Wholes, NoJob
<1> QED
  BY <1>1, <1>2 DEF Owned

LEMMA StagesKeepOwned ==
    ASSUME Working, job # NoJob
    PROVE  (StageDone => Owned') /\ (StageFails => Owned')
<1>2. {} \in Wholes /\ Opened \in Wholes /\ Filtering \in Wholes /\ CachedFiltering \in Wholes /\ Audio \in Wholes
  BY DEF Wholes
<1>3. CASE Runs(PlainStages, OpenPlain, {})
  <2>1. Runs(PlainStages, OpenPlain, {})' => Working'
    BY DEF Working
  <2>2. {} \cup OpenPlain[Len(PlainStages) + 1] \in Wholes
    BY WholeContents DEF Wholes
  <2> QED
    BY <1>2, <1>3, <2>1, <2>2, PlainFits, OpenStagesTyped, RunKeepsOwned
<1>4. CASE Runs(FilteredStages, OpenFiltered, {})
  <2>1. Runs(FilteredStages, OpenFiltered, {})' => Working'
    BY DEF Working
  <2>2. {} \cup OpenFiltered[Len(FilteredStages) + 1] \in Wholes
    BY WholeContents DEF Wholes
  <2> QED
    BY <1>2, <1>4, <2>1, <2>2, FilteredFits, OpenStagesTyped, RunKeepsOwned
<1>5. CASE Runs(ResamplerStages, ResamplerAdds, Opened)
  <2>1. Runs(ResamplerStages, ResamplerAdds, Opened)' => Working'
    BY DEF Working
  <2>2. Opened \cup ResamplerAdds[Len(ResamplerStages) + 1] \in Wholes
    BY WholeContents DEF Wholes
  <2> QED
    BY <1>2, <1>5, <2>1, <2>2, ResamplerFits, StagesTyped, RunKeepsOwned
<1>6. CASE Runs(GraphStages, GraphAdds, Filtering)
  <2>1. Runs(GraphStages, GraphAdds, Filtering)' => Working'
    BY DEF Working
  <2>2. Filtering \cup GraphAdds[Len(GraphStages) + 1] \in Wholes
    BY WholeContents DEF Wholes
  <2>3. Fits(GraphStages, GraphAdds, Filtering)
    BY GraphFits
  <2> QED
    BY <1>2, <1>6, <2>1, <2>2, <2>3, StagesTyped, RunKeepsOwned
<1>7. CASE Runs(GraphStages, GraphAdds, CachedFiltering)
  <2>1. Runs(GraphStages, GraphAdds, CachedFiltering)' => Working'
    BY DEF Working
  <2>2. CachedFiltering \cup GraphAdds[Len(GraphStages) + 1] \in Wholes
    BY WholeContents DEF Wholes
  <2>3. Fits(GraphStages, GraphAdds, CachedFiltering)
    BY GraphFits
  <2> QED
    BY <1>2, <1>7, <2>1, <2>2, <2>3, StagesTyped, RunKeepsOwned
<1>8. CASE Runs(BuildStages, BuildAdds, {})
  <2>1. Runs(BuildStages, BuildAdds, {})' => Working'
    BY DEF Working
  <2>2. {} \cup BuildAdds[Len(BuildStages) + 1] \in Wholes
    BY WholeContents DEF Wholes
  <2> QED
    BY <1>2, <1>8, <2>1, <2>2, BuildFits, StagesTyped, RunKeepsOwned
<1>9. CASE Runs(CachedStages, CachedAdds, Audio)
  <2>1. Runs(CachedStages, CachedAdds, Audio)' => Working'
    BY DEF Working
  <2>2. Audio \cup CachedAdds[Len(CachedStages) + 1] \in Wholes
    BY WholeContents DEF Wholes
  <2> QED
    BY <1>2, <1>9, <2>1, <2>2, CachedFits, StagesTyped, RunKeepsOwned
<1> QED
  BY <1>3, <1>4, <1>5, <1>6, <1>7, <1>8, <1>9 DEF Working

\* Which whole it is follows from an object or two of it.
LEMMA WholesByObjects ==
    ASSUME NEW o \in Wholes
    PROVE  /\ "decoder" \in o /\ o \cap {"description", "resampler", "audio"} = {} => o = Opened
           /\ "description" \in o /\ "graph" \notin o => o \in {Filtering, CachedFiltering}
           /\ Audio \subseteq o /\ "cached" \notin o => o = Audio
           /\ "decoder" \in o => o \ DecoderObjects = {}
           /\ "cached" \in o => o \ CachedObjects = Audio
BY DEF Wholes, Opened, Filtering, CachedFiltering, Audio, Graph, DecoderObjects, CachedObjects

LEMMA BeginKeepsOwned ==
    ASSUME Owned,
           \/ \E filtered \in BOOLEAN : OpenDecoder(filtered)
           \/ MakeResampler \/ MakeGraph \/ BuildRaw \/ OpenCached
    PROVE  Owned'
<1>1. job = NoJob /\ owned \in Wholes /\ UNCHANGED owned
  BY DEF Owned, OpenDecoder, MakeResampler, MakeGraph, BuildRaw, OpenCached, Begin
<1>0. NoJob' = NoJob
  BY DEF NoJob
<1>2. CASE \E filtered \in BOOLEAN : OpenDecoder(filtered)
  <2>1. owned = {} /\ (job' = PlainStages \/ job' = FilteredStages)
    BY <1>2 DEF OpenDecoder, Begin, PlainStages, FilteredStages
  <2>2. CASE job' = PlainStages
    <3>1. Runs(PlainStages, OpenPlain, {})' /\ job' # NoJob
      BY <1>1, <2>1, <2>2, BeginRuns, NothingAddedAtFirst, OpenStagesTyped
    <3> QED
      BY <1>0, <3>1 DEF Owned, Working
  <2>3. CASE job' = FilteredStages
    <3>1. Runs(FilteredStages, OpenFiltered, {})' /\ job' # NoJob
      BY <1>1, <2>1, <2>3, BeginRuns, NothingAddedAtFirst, OpenStagesTyped
    <3> QED
      BY <1>0, <3>1 DEF Owned, Working
  <2> QED
    BY <2>1, <2>2, <2>3
<1>3. CASE MakeResampler
  <2>1. owned = Opened /\ job' = ResamplerStages
    BY <1>1, <1>3, WholesByObjects DEF MakeResampler, Begin, ResamplerStages
  <2>2. Runs(ResamplerStages, ResamplerAdds, Opened)' /\ job' # NoJob
    BY <1>1, <2>1, BeginRuns, NothingAddedAtFirst, StagesTyped
  <2> QED
    BY <1>0, <2>2 DEF Owned, Working
<1>4. CASE MakeGraph
  <2>1. owned \in {Filtering, CachedFiltering} /\ job' = GraphStages
    BY <1>1, <1>4, WholesByObjects DEF MakeGraph, Begin
  <2>2. CASE owned = Filtering
    <3>1. Runs(GraphStages, GraphAdds, Filtering)' /\ job' # NoJob
      BY <1>1, <2>1, <2>2, BeginRuns, NothingAddedAtFirst, StagesTyped
    <3> QED
      BY <1>0, <3>1 DEF Owned, Working
  <2>3. CASE owned = CachedFiltering
    <3>1. Runs(GraphStages, GraphAdds, CachedFiltering)' /\ job' # NoJob
      BY <1>1, <2>1, <2>3, BeginRuns, NothingAddedAtFirst, StagesTyped
    <3> QED
      BY <1>0, <3>1 DEF Owned, Working
  <2> QED
    BY <2>1, <2>2, <2>3
<1>5. CASE BuildRaw
  <2>1. owned = {} /\ job' = BuildStages
    BY <1>5 DEF BuildRaw, Begin
  <2>2. Runs(BuildStages, BuildAdds, {})' /\ job' # NoJob
    BY <1>1, <2>1, BeginRuns, NothingAddedAtFirst, StagesTyped
  <2> QED
    BY <1>0, <2>2 DEF Owned, Working
<1>6. CASE OpenCached
  <2>1. owned = Audio /\ job' = CachedStages
    BY <1>1, <1>6, WholesByObjects DEF OpenCached, Begin, CachedStages
  <2>2. Runs(CachedStages, CachedAdds, Audio)' /\ job' # NoJob
    BY <1>1, <2>1, BeginRuns, NothingAddedAtFirst, StagesTyped
  <2> QED
    BY <1>0, <2>2 DEF Owned, Working
<1> QED
  BY <1>2, <1>3, <1>4, <1>5, <1>6

LEMMA CloseKeepsOwned ==
    ASSUME Owned, CloseDecoder \/ CloseCached \/ CloseRaw
    PROVE  Owned'
<1>1. job = NoJob /\ owned \in Wholes /\ job' = NoJob
  BY DEF Owned, CloseDecoder, CloseCached, CloseRaw
<1>2. owned' = {} \/ owned' = Audio
  <2>1. CASE CloseDecoder
    BY <1>1, <2>1, WholesByObjects DEF CloseDecoder
  <2>2. CASE CloseCached
    BY <1>1, <2>2, WholesByObjects DEF CloseCached
  <2>3. CASE CloseRaw
    BY <1>1, <2>3, WholesByObjects DEF CloseRaw
  <2> QED
    BY <2>1, <2>2, <2>3
<1>3. owned' \in Wholes
  BY <1>2 DEF Wholes
<1> QED
  BY <1>1, <1>3 DEF Owned, NoJob

-----------------------------------------------------------------------------
(***************************************************************************)
(* The libraries (loader.c) and the invariant.                              *)
(***************************************************************************)
LEMMA LibrariesLoad ==
    ASSUME Loaded, LoadLibraries
    PROVE  Loaded'
<1> USE PartsAssumption
<1>1. PICK n \in 0 .. Len(Libraries), symbols \in BOOLEAN :
        /\ symbols => n = Len(Libraries)
        /\ loaded' = [libraries |-> loaded.libraries \cup ToSet(SubSeq(Libraries, 1, n)),
                      symbols |-> loaded.symbols \/ symbols, initialized |-> symbols]
  BY DEF LoadLibraries
<1>2. ~loaded.symbols
  BY DEF Loaded, LoadLibraries
<1>3. ToSet(SubSeq(Libraries, 1, n)) \subseteq ToSet(Libraries)
  <2>1. Len(SubSeq(Libraries, 1, n)) = n /\ \A i \in 1 .. n : SubSeq(Libraries, 1, n)[i] = Libraries[i]
    OBVIOUS
  <2> QED
    BY <2>1 DEF ToSet
<1>4. n = Len(Libraries) => SubSeq(Libraries, 1, n) = Libraries
  OBVIOUS
<1> DEFINE b == (loaded.symbols \/ symbols)
<1>5. b = symbols
  BY <1>2
<1>6. /\ loaded'.libraries = loaded.libraries \cup ToSet(SubSeq(Libraries, 1, n))
      /\ loaded'.symbols = b /\ loaded'.initialized = symbols
  <2> HIDE DEF b
  <2> QED
    BY <1>1 DEF b
<1>7. symbols => loaded'.libraries = ToSet(Libraries)
  BY <1>1, <1>3, <1>4, <1>6 DEF Loaded
<1> QED
  BY <1>3, <1>5, <1>6, <1>7 DEF Loaded

LEMMA LoadedStays == ASSUME Loaded, UNCHANGED loaded PROVE Loaded'
BY DEF Loaded

LEMMA PartsInitial == PartsInit => PartsInv
BY DEF PartsInit, PartsInv, Wholes

LEMMA PartsStep ==
    ASSUME PartsInv, [PartsNext]_partsVars
    PROVE  PartsInv'
<1>1. Owned /\ Loaded /\ (job # NoJob \/ owned # {} => loaded.initialized)
  BY DEF PartsInv, Owned, Loaded
<1> SUFFICES Owned' /\ Loaded' /\ (job' # NoJob \/ owned' # {} => loaded'.initialized)
  BY DEF PartsInv, Owned, Loaded, NoJob
<1>2. CASE LoadLibraries
  <2>1. job = NoJob /\ owned = {} /\ UNCHANGED <<owned, job>>
    BY <1>1, <1>2 DEF LoadLibraries
  <2>2. Owned'
    BY <1>1, <2>1 DEF Owned, Wholes, NoJob
  <2> QED
    BY <1>1, <1>2, <2>1, <2>2, LibrariesLoad
<1>3. CASE (\E filtered \in BOOLEAN : OpenDecoder(filtered)) \/ MakeResampler \/ MakeGraph \/ BuildRaw \/ OpenCached
  <2>1. UNCHANGED loaded /\ loaded.initialized
    BY <1>1, <1>3 DEF OpenDecoder, MakeResampler, MakeGraph, BuildRaw, OpenCached, Audio
  <2> QED
    BY <1>1, <1>3, <2>1, BeginKeepsOwned, LoadedStays
<1>4. CASE CloseDecoder \/ CloseCached \/ CloseRaw
  <2>1. UNCHANGED loaded /\ loaded.initialized
    BY <1>1, <1>4 DEF CloseDecoder, CloseCached, CloseRaw, Audio
  <2> QED
    BY <1>1, <1>4, <2>1, CloseKeepsOwned, LoadedStays
<1>5. CASE StageDone \/ StageFails
  <2>1. UNCHANGED loaded /\ loaded.initialized /\ job # NoJob
    BY <1>1, <1>5 DEF StageDone, StageFails
  <2>2. Working
    BY <1>1, <2>1 DEF Owned
  <2> QED
    BY <1>1, <1>5, <2>1, <2>2, StagesKeepOwned, LoadedStays
<1>6. CASE UNCHANGED partsVars
  BY <1>1, <1>6, LoadedStays DEF partsVars, Owned, Working, Runs, NoJob, Wholes
<1> QED
  BY <1>2, <1>3, <1>4, <1>5, <1>6 DEF PartsNext

LEMMA PartsInvImplies == PartsInv => NothingStaysBehind
<1> SUFFICES ASSUME PartsInv, job = NoJob
             PROVE  /\ owned \in {{}, Opened, Opened \cup {"resampler"}, Filtering, Filtering \cup Graph,
                                  Audio, Audio \cup (CachedObjects \ Graph), Audio \cup CachedObjects}
                    /\ owned # {} => loaded.symbols /\ loaded.libraries = ToSet(Libraries)
  BY DEF NothingStaysBehind, Opened, Filtering
<1>1. CachedObjects \ Graph = {"cached", "description"} /\ CachedObjects = {"cached", "description"} \cup Graph
  BY DEF CachedObjects, Graph
<1>2. CachedFiltering = Audio \cup (CachedObjects \ Graph) /\ CachedFiltering \cup Graph = Audio \cup CachedObjects
  BY <1>1 DEF CachedFiltering
<1> QED
  BY <1>2 DEF PartsInv, Wholes

\* Whatever stage of loader.c, decoder.c, filter.c or raw_cache.c fails, what it leaves is a whole, and
\* nobody decodes before every symbol of every library is there.
THEOREM PartsCorrect == PartsSpec => []NothingStaysBehind
<1>1. PartsInv /\ [PartsNext]_partsVars => PartsInv'
  BY PartsStep
<1> QED
  BY PartsInitial, <1>1, PartsInvImplies, PTL DEF PartsSpec

-----------------------------------------------------------------------------
(***************************************************************************)
(* The playbacks (player.go, worker.go, file_playback.go), for any number   *)
(* of them, any shapes and queues of any length.                            *)
(*                                                                          *)
(* The inductive invariant: what is held and queued of every playback, that *)
(* the marks are the playbacks and the number on its way to or from the     *)
(* worker, and what the worker may rely on at each place.                   *)
(***************************************************************************)
Buffer == Id \X (1 .. MaxTarget + 1)
Entry == [buffer : Buffer \cup {Cached}, plays : Int]
FileSet ==
  [at : {"open"}, shape : Shapes, read : Nat, loops : Int, held : Seq(Buffer), eof : BOOLEAN,
   fade : {"no", "fading", "gone"}, plays : Nat]

Refills == [at : {"refill"}, target : 1 .. MaxTarget, todo : SUBSET Id]
Backs == {Rest("select")} \cup Refills
Recovers == [at : {"recover", "handle"}, then : {"handle", "fade"}, back : Backs]
Fills == [at : {"fill", "restart", "failed"}, id : Id, target : 1 .. MaxTarget, starting : BOOLEAN, back : Backs]
Reclaims == [at : {"reclaim"}, todo : SUBSET Id]
Frees == [at : {"free"}, todo : SUBSET Id, id : Id, queued : Nat]

Calls ==
  {NoCall} \cup [at : {"sent"}, kind : {"play"}, id : Id, shape : Shapes]
           \cup [at : {"sent"}, kind : {"stop"}, ids : SUBSET Id, fade : BOOLEAN]
           \cup [at : {"sent"}, kind : {"position"}, ids : SUBSET Id]
           \cup [at : {"sent"}, kind : {"shutdown"}]
           \cup [at : {"answered"}, refused : Id \cup {0}]

PlayerTypes ==
  /\ nextId \in 1 .. MaxPlays + 1
  /\ marked \subseteq 1 .. nextId - 1
  /\ engine \in {"none", "good", "bad"}
  /\ call \in Calls
  /\ work \in {Rest("stopped"), Rest("fade")} \cup Backs \cup Recovers \cup Fills \cup Reclaims \cup Frees

Fed(p) ==
  IF files[p] = NoFile THEN queues[p] = << >>
  ELSE /\ files[p].held \in Seq({p} \X (1 .. MaxTarget + 1)) /\ Len(files[p].held) <= MaxTarget
       /\ ~files[p].shape.cached =>
            /\ Len(queues[p]) <= Len(files[p].held)
            /\ \A i \in DOMAIN queues[p] :
                 queues[p][i].buffer = files[p].held[Len(files[p].held) - Len(queues[p]) + i]

\* The playbacks, their voices and their memory are in order.
FilesInv ==
  /\ files \in [Id -> {NoFile} \cup FileSet]
  /\ queues \in [Id -> Seq(Entry)]
  /\ heard \in [Id -> Nat]
  /\ \A p \in Id : Fed(p)
  /\ heap = BuffersOf(Playing)

Pending ==
  IF call.at = "sent" THEN IF call.kind = "play" THEN {call.id} ELSE {}
  ELSE IF call.at = "answered" THEN {call.refused} \ {0} ELSE {}
Starting == work.at \in {"fill", "restart"} /\ work.starting

MarksInv ==
  /\ marked = Playing \cup Pending
  /\ Starting => call.at = "sent" /\ call.kind = "play" /\ work.id = call.id
  /\ ~Starting => Pending \cap Playing = {}

WorkInv ==
  /\ work.at \in {"fill", "restart", "failed"} => work.id \in Playing
  /\ work.at = "failed" => ~work.starting
  /\ work.at \in {"reclaim", "free"} => work.todo \subseteq Playing
  /\ work.at = "free" =>
       /\ work.id \in Playing \ work.todo
       /\ Len(queues[work.id]) <= work.queued
       /\ ~files[work.id].shape.cached => work.queued <= Len(files[work.id].held)
  /\ work.at = "handle" => work.then = "handle" /\ call.at = "sent" /\ (call.kind = "play" => engine # "none")
  /\ work.at = "recover" /\ work.then = "handle" => call.at = "sent"

PlInvariant ==
  /\ PlayerTypes
  /\ FilesInv
  /\ engine = "none" => Playing = {}
  /\ MarksInv
  /\ WorkInv

\* Who has been told of.
ToldInv ==
  /\ told \in [Id -> 0 .. 1]
  /\ \A p \in marked \cup {q \in Id : q >= nextId} :
       told[p] = IF work.at = "failed" /\ p = work.id THEN 1 ELSE 0

\* What is queued of a cached file adds up.
AddsUp(q, total) ==
  \E sum \in [0 .. Len(q) -> Int] :
    sum[0] = 0 /\ sum[Len(q)] = total /\ \A i \in 1 .. Len(q) : sum[i] = sum[i - 1] + q[i].plays

\* What was heard of a playback, what is queued and what is left make up what it is to play.
CachedTally(f, q, h) ==
  IF f.shape.loops >= 0
  THEN (\A i \in 1 .. Len(q) : q[i].plays >= 1) /\ AddsUp(q, f.shape.loops + 1 - f.plays - h)
  ELSE f.plays = 0 /\ Len(q) = 1 /\ q[1].plays = -1

DecodedTally(f, q, h) ==
  /\ f.read <= f.shape.reads
  /\ \A i \in 1 .. Len(q) : q[i].plays = 1
  /\ f.eof => f.loops = 0 /\ f.read = f.shape.reads
  /\ f.shape.loops >= 0 =>
       f.loops \in 0 .. f.shape.loops /\ h + Len(q) = (f.shape.loops - f.loops) * f.shape.reads + f.read
  /\ f.shape.loops < 0 => f.loops < 0

Tally(f, q, h) ==
  IF f = NoFile THEN h = 0 ELSE IF f.shape.cached THEN CachedTally(f, q, h) ELSE DecodedTally(f, q, h)

HeardInv ==
  /\ \A p \in Id : Tally(files[p], queues[p], heard[p])
  /\ work.at = "restart" =>
       LET f == files[work.id] IN ~f.shape.cached /\ ~f.eof /\ f.read = f.shape.reads /\ f.loops # 0
  /\ work.at = "free" => LET f == files[work.id] IN f.shape.cached /\ f.shape.loops < 0 => work.queued >= 1

-----------------------------------------------------------------------------
LEMMA PlayerNumbers ==
    /\ MaxPlays \in Nat \ {0} /\ MaxTarget \in Nat \ {0} /\ MaxLoop \in Nat \ {0}
    /\ Shapes \subseteq [cached : BOOLEAN, reads : Nat, late : BOOLEAN, loops : Nat \cup {-1}]
BY PlayerAssumption

\* Where the worker is says what it has with it.
LEMMA WorkAt ==
    ASSUME PlayerTypes
    PROVE  /\ work.at = "stopped" => work = Rest("stopped")
           /\ work.at = "select" => work = Rest("select")
           /\ work.at = "fade" => work = Rest("fade")
           /\ work.at = "refill" => work \in Refills
           /\ work.at \in {"recover", "handle"} => work \in Recovers
           /\ work.at \in {"fill", "restart", "failed"} => work \in Fills
           /\ work.at = "reclaim" => work \in Reclaims
           /\ work.at = "free" => work \in Frees
BY DEF PlayerTypes, Rest, Backs, Refills, Recovers, Fills, Reclaims, Frees

LEMMA BackAt ==
    ASSUME NEW w \in Backs
    PROVE  w.at \in {"select", "refill"}
BY DEF Backs, Refills, Rest

LEMMA CallAt ==
    ASSUME PlayerTypes
    PROVE  /\ call.at \in {"none", "sent", "answered"}
           /\ call.at = "none" <=> call = NoCall
           /\ call.at = "sent" =>
                \/ call \in [at : {"sent"}, kind : {"play"}, id : Id, shape : Shapes]
                \/ call \in [at : {"sent"}, kind : {"stop"}, ids : SUBSET Id, fade : BOOLEAN]
                \/ call \in [at : {"sent"}, kind : {"position"}, ids : SUBSET Id]
                \/ call \in [at : {"sent"}, kind : {"shutdown"}]
           /\ call.at = "answered" => call.refused \in Id \cup {0}
BY DEF PlayerTypes, Calls, NoCall

LEMMA PlayingFiles ==
    ASSUME FilesInv
    PROVE  /\ Playing \subseteq Id
           /\ \A p \in Playing : files[p] \in FileSet
           /\ \A p \in Id \ Playing : files[p] = NoFile
BY DEF FilesInv, Playing

LEMMA FilesAreFiles == ASSUME NEW f \in FileSet PROVE f # NoFile
BY DEF FileSet, NoFile

\* A buffer belongs to the playback it was allocated for.
LEMMA Owners ==
    ASSUME FilesInv, NEW p \in Playing, NEW b \in ToSet(files[p].held)
    PROVE  b[1] = p
<1>1. files[p] # NoFile /\ p \in Id
  BY PlayingFiles DEF Playing
<1>2. files[p].held \in Seq({p} \X (1 .. MaxTarget + 1))
  BY <1>1 DEF Fed, FilesInv
<1> DEFINE h == files[p].held
<1>3. PICK i \in DOMAIN h : b = h[i]
  BY DEF ToSet
<1> HIDE DEF h
<1>4. h[i] \in {p} \X (1 .. MaxTarget + 1)
  BY <1>2, <1>3 DEF h
<1> QED
  BY <1>3, <1>4

LEMMA BuffersAre ==
    ASSUME NEW ids, NEW b
    PROVE  b \in BuffersOf(ids) <=> \E p \in ids : b \in ToSet(files[p].held)
BY DEF BuffersOf

\* There is always memory for a playback that has not its buffers yet.
LEMMA FreeIsFree ==
    ASSUME FilesInv, work.id \in Playing, Len(File.held) <= MaxTarget
    PROVE  Free \in {work.id} \X (1 .. MaxTarget + 1) /\ Free \notin heap
<1> DEFINE id == work.id
           h == files[id].held
           n == Len(h)
<1>1. id \in Id /\ h \in Seq({id} \X (1 .. MaxTarget + 1))
  BY PlayingFiles DEF Fed, FilesInv, Playing
<1>2. n \in Nat /\ n <= MaxTarget
  BY <1>1 DEF File
<1>3. ASSUME \A k \in 1 .. MaxTarget + 1 : <<id, k>> \in heap
      PROVE  FALSE
  <2> DEFINE place == [k \in 1 .. MaxTarget + 1 |-> CHOOSE i \in 1 .. n : h[i] = <<id, k>>]
  <2>1. \A k \in 1 .. MaxTarget + 1 : \E i \in 1 .. n : h[i] = <<id, k>>
    <3> SUFFICES ASSUME NEW k \in 1 .. MaxTarget + 1 PROVE \E i \in 1 .. n : h[i] = <<id, k>>
      OBVIOUS
    <3>1. PICK p \in Playing : <<id, k>> \in ToSet(files[p].held)
      BY <1>3, BuffersAre DEF FilesInv
    <3>2. p = id
      BY <3>1, Owners
    <3>3. PICK i \in DOMAIN h : <<id, k>> = h[i]
      BY <3>1, <3>2 DEF ToSet
    <3>4. DOMAIN h = 1 .. n
      BY <1>1
    <3> QED
      BY <3>3, <3>4
  <2>2. \A k \in 1 .. MaxTarget + 1 : place[k] \in 1 .. n /\ h[place[k]] = <<id, k>>
    BY <2>1
  <2>3. place \in [1 .. MaxTarget + 1 -> 1 .. n]
    BY <2>2
  <2>4. /\ IsFiniteSet(1 .. MaxTarget + 1) /\ Cardinality(1 .. MaxTarget + 1) = MaxTarget + 1
        /\ IsFiniteSet(1 .. n) /\ Cardinality(1 .. n) = n
    <3>1. MaxTarget + 1 \in Int /\ 1 <= MaxTarget + 1 /\ MaxTarget + 1 - 1 + 1 = MaxTarget + 1
      BY PlayerNumbers
    <3>2. n \in Int /\ (1 > n => n = 0) /\ n - 1 + 1 = n
      BY <1>2
    <3> HIDE DEF n
    <3>3. IsFiniteSet(1 .. MaxTarget + 1) /\ Cardinality(1 .. MaxTarget + 1) = MaxTarget + 1
      BY <3>1, FS_Interval, PlayerNumbers
    <3>4. IsFiniteSet(1 .. n) /\ Cardinality(1 .. n) = n
      BY <3>2, FS_Interval
    <3> QED
      BY <3>3, <3>4
  <2>5. \E k, l \in 1 .. MaxTarget + 1 : k # l /\ place[k] = place[l]
    <3> HIDE DEF place, n, h
    <3>1. Cardinality(1 .. n) < Cardinality(1 .. MaxTarget + 1)
      BY <1>2, <2>4, PlayerNumbers
    <3> QED
      BY <2>3, <2>4, <3>1, FS_PigeonHole
  <2>6. \A k, l \in 1 .. MaxTarget + 1 : place[k] = place[l] => <<id, k>> = <<id, l>>
    <3> HIDE DEF place, h
    <3> QED
      BY <2>2
  <2> QED
    BY <2>5, <2>6
<1>4. \E b \in Id \X (1 .. MaxTarget + 1) : b[1] = work.id /\ b \notin heap
  BY <1>1, <1>3
<1>5. Free \in Id \X (1 .. MaxTarget + 1) /\ Free[1] = work.id /\ Free \notin heap
  BY <1>4 DEF Free
<1> QED
  BY <1>5

-----------------------------------------------------------------------------
(***************************************************************************)
(* What the steps do to the playbacks and their buffers.                    *)
(***************************************************************************)
LEMMA FedStays ==
    ASSUME NEW p, Fed(p), files'[p] = files[p], queues'[p] = queues[p]
    PROVE  Fed(p)'
<1>1. CASE files[p] = NoFile
  BY <1>1 DEF Fed, NoFile
<1>2. CASE files[p] # NoFile
  <2> DEFINE f == files[p]
             q == queues[p]
  <2>1. f # NoFile /\ files'[p] = f /\ queues'[p] = q /\ NoFile' = NoFile
    BY <1>2 DEF NoFile
  <2> HIDE DEF f, q
  <2>2. /\ f.held \in Seq({p} \X (1 .. MaxTarget + 1)) /\ Len(f.held) <= MaxTarget
        /\ ~f.shape.cached =>
            /\ Len(q) <= Len(f.held)
            /\ \A i \in DOMAIN q : q[i].buffer = f.held[Len(f.held) - Len(q) + i]
    BY <2>1 DEF Fed, f, q
  <2> QED
    BY <2>1, <2>2 DEF Fed
<1> QED
  BY <1>1, <1>2

LEMMA FilesStay ==
    ASSUME FilesInv, UNCHANGED <<files, queues, heap, heard>>
    PROVE  FilesInv' /\ Playing' = Playing
<1>1. Playing' = Playing
  BY DEF Playing, Id, NoFile
<1>2. \A p \in Id : Fed(p)'
  BY FedStays DEF FilesInv
<1>3. BuffersOf(Playing)' = BuffersOf(Playing)
  BY <1>1 DEF BuffersOf
<1> QED
  BY <1>1, <1>2, <1>3 DEF FilesInv, Id, FileSet, Entry, Buffer, NoFile, Cached

LEMMA PlaybacksClose ==
    ASSUME FilesInv, NEW ids \in SUBSET Playing, Close(ids)
    PROVE  /\ FilesInv' /\ Playing' = Playing \ ids
           /\ \A p \in Playing \ ids : files'[p] = files[p] /\ queues'[p] = queues[p] /\ heard'[p] = heard[p]
<1>1. /\ files' = [p \in Id |-> IF p \in ids THEN NoFile ELSE files[p]]
      /\ queues' = [p \in Id |-> IF p \in ids THEN << >> ELSE queues[p]]
      /\ heap' = heap \ BuffersOf(ids)
      /\ heard' = [p \in Id |-> IF p \in ids THEN 0 ELSE heard[p]]
  BY DEF Close
<1>2. Playing' = Playing \ ids
  BY <1>1 DEF Playing, Id, NoFile
<1>3. \A p \in Id \ ids : files'[p] = files[p] /\ queues'[p] = queues[p] /\ heard'[p] = heard[p]
  BY <1>1
<1>4. /\ files' \in [Id -> {NoFile} \cup FileSet] /\ queues' \in [Id -> Seq(Entry)] /\ heard' \in [Id -> Nat]
  BY <1>1 DEF FilesInv
<1>5. \A p \in Id : Fed(p)'
  <2> SUFFICES ASSUME NEW p \in Id PROVE Fed(p)'
    BY DEF Id
  <2>1. CASE p \in ids
    BY <1>1, <2>1 DEF Fed, NoFile
  <2>2. CASE p \notin ids
    BY <1>3, <2>2, FedStays DEF FilesInv
  <2> QED
    BY <2>1, <2>2
<1>6. heap' = BuffersOf(Playing)'
  <2> SUFFICES ASSUME NEW b PROVE b \in heap' <=> b \in BuffersOf(Playing)'
    OBVIOUS
  <2>1. b \in BuffersOf(Playing)' <=> \E p \in Playing \ ids : b \in ToSet(files[p].held)
    BY <1>2, <1>3, PlayingFiles DEF BuffersOf
  <2>2. b \in heap' <=> (\E p \in Playing : b \in ToSet(files[p].held)) /\ ~\E q \in ids : b \in ToSet(files[q].held)
    BY <1>1, BuffersAre DEF FilesInv
  <2>3. b \in BuffersOf(Playing)' => b \in heap'
    <3> SUFFICES ASSUME NEW p \in Playing \ ids, b \in ToSet(files[p].held), NEW q \in ids, b \in ToSet(files[q].held)
                 PROVE  FALSE
      BY <2>1, <2>2
    <3> QED
      BY Owners DEF FilesInv
  <2> QED
    BY <2>1, <2>2, <2>3
<1> QED
  BY <1>2, <1>3, <1>4, <1>5, <1>6, PlayingFiles DEF FilesInv, Id, FileSet, Entry, Buffer, NoFile, Cached

\* A playback is there, or changes what it holds and what its voice has queued.
LEMMA PlaybackChanges ==
    ASSUME FilesInv, NEW p \in Id, NEW f \in FileSet, NEW q \in Seq(Entry),
           files' = [files EXCEPT ![p] = f], queues' = [queues EXCEPT ![p] = q],
           \A b : b \in heap' <=> b \in ToSet(f.held) \/ (b \in heap /\ (p \in Playing => b \notin ToSet(files[p].held))),
           heard' = heard,
           f.held \in Seq({p} \X (1 .. MaxTarget + 1)), Len(f.held) <= MaxTarget,
           ~f.shape.cached =>
             /\ Len(q) <= Len(f.held)
             /\ \A i \in DOMAIN q : q[i].buffer = f.held[Len(f.held) - Len(q) + i]
    PROVE  FilesInv' /\ Playing' = Playing \cup {p}
<1>1. files'[p] = f /\ queues'[p] = q /\ f # NoFile
  BY FilesAreFiles DEF FilesInv
<1>2. \A r \in Id \ {p} : files'[r] = files[r] /\ queues'[r] = queues[r]
  BY DEF FilesInv
<1>3. Playing' = Playing \cup {p}
  BY <1>1, <1>2 DEF Playing, Id, NoFile
<1>4. files' \in [Id -> {NoFile} \cup FileSet] /\ queues' \in [Id -> Seq(Entry)] /\ heard' \in [Id -> Nat]
  BY DEF FilesInv
<1>5. \A r \in Id : Fed(r)'
  <2> SUFFICES ASSUME NEW r \in Id PROVE Fed(r)'
    BY DEF Id
  <2>1. CASE r = p
    <3>1. files'[p] # NoFile /\ NoFile' = NoFile
      BY <1>1 DEF NoFile
    <3> QED
      BY <1>1, <2>1, <3>1 DEF Fed
  <2>2. CASE r # p
    BY <1>2, <2>2, FedStays DEF FilesInv
  <2> QED
    BY <2>1, <2>2
<1>6. heap' = BuffersOf(Playing)'
  <2> SUFFICES ASSUME NEW b PROVE b \in heap' <=> b \in BuffersOf(Playing)'
    OBVIOUS
  <2>1. b \in BuffersOf(Playing)' <=> b \in ToSet(f.held) \/ \E r \in Playing \ {p} : b \in ToSet(files[r].held)
    BY <1>1, <1>2, <1>3, PlayingFiles DEF BuffersOf
  <2>2. b \in heap <=> \E r \in Playing : b \in ToSet(files[r].held)
    BY BuffersAre DEF FilesInv
  <2>3. ASSUME NEW r \in Playing \ {p}, b \in ToSet(files[r].held), p \in Playing, b \in ToSet(files[p].held)
        PROVE  FALSE
    BY <2>3, Owners DEF FilesInv
  <2>4. b \in heap' <=> b \in ToSet(f.held) \/ (b \in heap /\ (p \in Playing => b \notin ToSet(files[p].held)))
    OBVIOUS
  <2>5. CASE p \in Playing
    <3>1. b \in BuffersOf(Playing)' => b \in heap'
      <4>1. CASE b \in ToSet(f.held)
        BY <2>4, <4>1
      <4>2. ASSUME NEW r \in Playing \ {p}, b \in ToSet(files[r].held)
            PROVE  b \in heap'
        <5>1. b \notin ToSet(files[p].held)
          BY <2>3, <2>5, <4>2
        <5>2. b \in heap
          BY <2>2, <4>2
        <5> QED
          BY <2>4, <5>1, <5>2
      <4> QED
        BY <2>1, <4>1, <4>2
    <3>2. b \in heap /\ b \notin ToSet(files[p].held) => \E r \in Playing \ {p} : b \in ToSet(files[r].held)
      BY <2>2
    <3>3. b \in heap' => b \in BuffersOf(Playing)'
      BY <2>1, <2>4, <2>5, <3>2
    <3> QED
      BY <3>1, <3>3
  <2>6. CASE p \notin Playing
    BY <2>1, <2>2, <2>4, <2>6
  <2> QED
    BY <2>5, <2>6
<1> QED
  BY <1>3, <1>4, <1>5, <1>6 DEF FilesInv, Id, FileSet, Entry, Buffer, NoFile, Cached

-----------------------------------------------------------------------------
(***************************************************************************)
(* What the steps do to the marks and the worker.                           *)
(***************************************************************************)
LEMMA MarksStay ==
    ASSUME MarksInv, UNCHANGED <<marked, call>>, Playing' = Playing, Starting' <=> Starting,
           Starting => work'.id = work.id
    PROVE  MarksInv'
<1>1. Pending' = Pending
  BY DEF Pending
<1> QED
  BY <1>1 DEF MarksInv

LEMMA MarksLose ==
    ASSUME MarksInv, ~Starting, ~Starting', NEW ids \in SUBSET Playing, Playing' = Playing \ ids,
           marked' = marked \ ids, UNCHANGED call
    PROVE  MarksInv'
<1>1. Pending' = Pending
  BY DEF Pending
<1> QED
  BY <1>1 DEF MarksInv

LEMMA AnswerIs ==
    ASSUME NEW ok \in BOOLEAN, Answer(ok)
    PROVE  /\ call'.at = "answered" /\ call'.refused = (IF call.kind = "play" /\ ~ok THEN call.id ELSE 0)
           /\ Pending' = IF call.kind = "play" /\ ~ok THEN {call.id} \ {0} ELSE {}
<1>1. call'.at = "answered" /\ call'.refused = (IF call.kind = "play" /\ ~ok THEN call.id ELSE 0)
  BY DEF Answer
<1> QED
  BY <1>1 DEF Pending

LEMMA PendingIs ==
    ASSUME PlayerTypes
    PROVE  /\ Pending \subseteq Id
           /\ call.at = "sent" => Pending = (IF call.kind = "play" THEN {call.id} ELSE {})
           /\ call.at = "sent" /\ call.kind = "play" => call.id \in Id /\ call.id # 0 /\ call.shape \in Shapes
BY CallAt, PlayerNumbers DEF Pending, Id

LEMMA AnswersAreTyped ==
    ASSUME PlayerTypes, call.at = "sent", NEW ok \in BOOLEAN, Answer(ok)
    PROVE  call' \in Calls
<1>1. call' = [at |-> "answered", refused |-> IF call.kind = "play" /\ ~ok THEN call.id ELSE 0]
  BY DEF Answer
<1>2. call.kind = "play" => call.id \in Id
  BY PendingIs
<1> DEFINE r == IF call.kind = "play" /\ ~ok THEN call.id ELSE 0
<1>3. r \in Id \cup {0}
  BY <1>2
<1> HIDE DEF r
<1> QED
  BY <1>1, <1>3 DEF Calls, r

LEMMA MarksAnswered ==
    ASSUME PlayerTypes, MarksInv, ~Starting, ~Starting', call.at = "sent", NEW ok \in BOOLEAN, Answer(ok),
           call.kind = "play" => ~ok,
           NEW ids \in SUBSET Playing, Playing' = Playing \ ids, marked' = marked \ ids
    PROVE  MarksInv'
<1>1. Pending' = Pending
  BY AnswerIs, PendingIs
<1> QED
  BY <1>1 DEF MarksInv

LEMMA MarksStarted ==
    ASSUME PlayerTypes, MarksInv, Starting, ~Starting', NEW ok \in BOOLEAN, Answer(ok), marked' = marked,
           Playing' = IF ok THEN Playing ELSE Playing \ {work.id}, work.id \in Playing
    PROVE  MarksInv'
<1>1. call.at = "sent" /\ call.kind = "play" /\ work.id = call.id /\ Pending = {call.id}
  BY PendingIs DEF MarksInv
<1>2. Pending' = IF ok THEN {} ELSE {call.id}
  BY <1>1, AnswerIs, PendingIs
<1> QED
  BY <1>1, <1>2 DEF MarksInv

\* Places where the worker has nothing in hand.
AtRest(w) == w \in {Rest("stopped"), Rest("fade")} \cup Backs

LEMMA RestIsFree ==
    ASSUME AtRest(work')
    PROVE  WorkInv' /\ ~Starting'
<1>1. work'.at \in {"stopped", "fade", "select", "refill"}
  BY DEF AtRest, Rest, Backs, Refills
<1> QED
  BY <1>1 DEF WorkInv, Starting

LEMMA HandledRests ==
    ASSUME PlayerTypes, work.at \in {"recover", "handle", "fill", "restart", "failed"}
    PROVE  AtRest(work.back) /\ work.back \in Backs
BY WorkAt DEF AtRest, Recovers, Fills

LEMMA WorkIsTyped ==
    ASSUME PlayerTypes, UNCHANGED <<nextId, engine, call>>, marked' \subseteq marked,
           \/ AtRest(work') \/ work' \in Recovers \/ work' \in Fills \/ work' \in Reclaims \/ work' \in Frees
    PROVE  PlayerTypes'
<1>1. work' \in {Rest("stopped"), Rest("fade")} \cup Backs \cup Recovers \cup Fills \cup Reclaims \cup Frees
  BY DEF AtRest
<1>2. (Calls' = Calls) /\ (Backs' = Backs) /\ Recovers' = Recovers /\ Fills' = Fills /\ Reclaims' = Reclaims /\ Frees' = Frees
  BY DEF Calls, Backs, Recovers, Fills, Reclaims, Frees, Refills, Rest, Id, NoCall
<1>3. call \in Calls /\ engine \in {"none", "good", "bad"} /\ nextId \in 1 .. MaxPlays + 1 /\ marked \subseteq 1 .. nextId - 1
  BY DEF PlayerTypes
<1>4. Rest("stopped")' = Rest("stopped") /\ Rest("fade")' = Rest("fade")
  BY DEF Rest
<1> QED
  BY <1>1, <1>2, <1>3, <1>4 DEF PlayerTypes

-----------------------------------------------------------------------------
(***************************************************************************)
(* The steps.                                                               *)
(***************************************************************************)
Quiet == engine = "none" => Playing = {}

LEMMA InvIs == PlInvariant <=> PlayerTypes /\ FilesInv /\ Quiet /\ MarksInv /\ WorkInv
BY DEF PlInvariant, Quiet

\* The worker goes from one place to another and touches nothing.
WorkerOnly == UNCHANGED <<marked, nextId, fileVars, engine, call>>

LEMMA WorkerOnlyKeeps ==
    ASSUME PlInvariant, WorkerOnly, WorkInv',
           AtRest(work') \/ work' \in Recovers \/ work' \in Fills \/ work' \in Reclaims \/ work' \in Frees,
           ~Starting, ~Starting'
    PROVE  PlInvariant'
<1>1. PlayerTypes'
  BY InvIs, WorkIsTyped DEF WorkerOnly
<1>2. FilesInv' /\ Playing' = Playing
  BY InvIs, FilesStay DEF WorkerOnly, fileVars
<1>3. MarksInv'
  BY <1>2, InvIs, MarksStay DEF WorkerOnly
<1>4. Quiet'
  BY <1>2, InvIs DEF WorkerOnly, Quiet
<1> QED
  BY <1>1, <1>2, <1>3, <1>4 DEF PlInvariant, Quiet

LEMMA TakesKeep ==
    ASSUME PlInvariant, TakeCommand \/ TakeTick
    PROVE  PlInvariant'
<1>1. PICK then \in {"handle", "fade"} :
        /\ work' = [at |-> "recover", then |-> then, back |-> Rest("select")]
        /\ then = "handle" => call.at = "sent"
  BY DEF TakeCommand, TakeTick, CommandsDue
<1>2. work.at = "select" /\ WorkerOnly
  BY DEF TakeCommand, TakeTick, WorkerOnly
<1>3. work' \in Recovers /\ work'.at = "recover" /\ work'.then = then
  BY <1>1 DEF Recovers, Backs
<1>4. ~Starting /\ ~Starting'
  BY <1>2, <1>3 DEF Starting
<1>5. WorkInv'
  BY <1>1, <1>2, <1>3 DEF WorkInv, WorkerOnly
<1> QED
  BY <1>2, <1>3, <1>4, <1>5, WorkerOnlyKeeps

\* What a recovery does to the worker when there is an engine.
LEMMA RecoveredWork ==
    ASSUME PlInvariant, work.at = "recover", Recovered
    PROVE  \/ AtRest(work')
           \/ /\ work' \in Recovers /\ work'.at = "handle" /\ work'.then = "handle" /\ work.then = "handle"
              /\ call.at = "sent" 
<1>1. work \in Recovers
  BY InvIs, WorkAt
<1>2. CASE work.then = "fade"
  BY <1>2 DEF Recovered, AtRest
<1>3. CASE work.then = "handle"
  <2>1. work' = [work EXCEPT !.at = "handle"]
    BY <1>3 DEF Recovered
  <2>2. work' \in Recovers /\ work'.at = "handle" /\ work'.then = "handle"
    BY <1>1, <1>3, <2>1 DEF Recovers
  <2> QED
    BY <1>3, <2>2, InvIs DEF WorkInv
<1> QED
  BY <1>1, <1>2, <1>3 DEF Recovers

LEMMA RecoveredKeeps ==
    ASSUME PlInvariant, work.at = "recover", Recovered, call' = call, call.kind = "play" => engine' # "none"
    PROVE  WorkInv' /\ ~Starting' /\ (AtRest(work') \/ work' \in Recovers)
<1>1. CASE AtRest(work')
  BY <1>1, RestIsFree
<1>2. CASE ~AtRest(work')
  BY <1>2, RecoveredWork DEF WorkInv, Starting
<1> QED
  BY <1>1, <1>2

LEMMA NoRecoveryKeeps ==
    ASSUME PlInvariant, NoRecovery
    PROVE  PlInvariant'
<1>1. work.at = "recover" /\ Recovered /\ WorkerOnly
  BY DEF NoRecovery, WorkerOnly
<1>2. CASE work.then = "handle" /\ call.kind = "play" => engine # "none"
  <2>1. WorkInv' /\ ~Starting' /\ (AtRest(work') \/ work' \in Recovers)
    <3>1. CASE AtRest(work')
      BY <3>1, RestIsFree
    <3>2. CASE ~AtRest(work')
      BY <1>1, <1>2, <3>2, RecoveredWork DEF WorkInv, Starting, WorkerOnly
    <3> QED
      BY <3>1, <3>2
  <2> QED
    BY <1>1, <2>1, WorkerOnlyKeeps DEF Starting
<1> QED
  BY <1>2 DEF NoRecovery, Unneeded

LEMMA RecreateEngineKeeps ==
    ASSUME PlInvariant, RecreateEngine
    PROVE  PlInvariant'
<1>0. /\ work.at = "recover" /\ engine = "none" /\ UNCHANGED <<marked, nextId, files, queues, heap, heard>>
      /\ \/ engine' = "good" /\ Recovered /\ Unanswered
         \/ engine' = "none" /\ Unrecovered /\ IF work.then = "handle" THEN Answer(FALSE) ELSE Unanswered
  BY DEF RecreateEngine, fileVars
<1>1. FilesInv' /\ Playing' = Playing /\ Playing = {} /\ ~Starting
  BY <1>0, InvIs, FilesStay DEF Starting, Quiet
<1>2. CASE engine' = "good" /\ Recovered /\ Unanswered
  <2>1. WorkInv' /\ ~Starting' /\ (AtRest(work') \/ work' \in Recovers) /\ call' = call
    BY <1>0, <1>2, RecoveredKeeps DEF Unanswered
  <2>2. MarksInv'
    BY <1>0, <1>1, <2>1, InvIs, MarksStay
  <2>3. PlayerTypes'
    BY <1>0, <1>2, <2>1, InvIs DEF PlayerTypes, AtRest
  <2> QED
    BY <1>1, <2>1, <2>2, <2>3 DEF PlInvariant
<1>3. CASE engine' = "none" /\ Unrecovered /\ IF work.then = "handle" THEN Answer(FALSE) ELSE Unanswered
  <2>1. AtRest(work') /\ WorkInv' /\ ~Starting'
    BY <1>0, <1>3, InvIs, HandledRests, RestIsFree DEF Unrecovered
  <2>2. CASE work.then = "handle"
    <3>1. call.at = "sent" /\ Answer(FALSE)
      BY <1>0, <1>3, <2>2, InvIs DEF WorkInv
    <3>2. MarksInv'
      BY <1>0, <1>1, <2>1, <3>1, InvIs, MarksAnswered
    <3>3. PlayerTypes'
      BY <1>0, <1>3, <2>1, <3>1, InvIs, AnswersAreTyped DEF PlayerTypes, AtRest
    <3> QED
      BY <1>1, <2>1, <3>2, <3>3 DEF PlInvariant
  <2>3. CASE work.then # "handle"
    <3>1. call' = call
      BY <1>3, <2>3 DEF Unanswered
    <3>2. MarksInv'
      BY <1>0, <1>1, <2>1, <3>1, InvIs, MarksStay
    <3>3. PlayerTypes'
      BY <1>0, <1>3, <2>1, <3>1, InvIs DEF PlayerTypes, AtRest
    <3> QED
      BY <1>1, <2>1, <3>2, <3>3 DEF PlInvariant
  <2> QED
    BY <2>2, <2>3
<1> QED
  BY <1>0, <1>2, <1>3

LEMMA RecoverCriticalErrorKeeps ==
    ASSUME PlInvariant, RecoverCriticalError
    PROVE  PlInvariant'
<1>0. /\ work.at = "recover" /\ Close(Playing) /\ marked' = marked \ Playing /\ nextId' = nextId
      /\ \/ engine' = "good" /\ Recovered /\ Unanswered
         \/ engine' = "none" /\ Unrecovered /\ IF work.then = "handle" THEN Answer(FALSE) ELSE Unanswered
  BY DEF RecoverCriticalError, Casualties
<1>1. FilesInv' /\ Playing' = Playing \ Playing /\ ~Starting
  BY <1>0, InvIs, PlaybacksClose DEF Starting
<1>4. Playing' = {} /\ marked' \subseteq marked
  BY <1>0, <1>1
<1>2. CASE engine' = "good" /\ Recovered /\ Unanswered
  <2>1. WorkInv' /\ ~Starting' /\ (AtRest(work') \/ work' \in Recovers) /\ call' = call
    BY <1>0, <1>2, RecoveredKeeps DEF Unanswered
  <2>2. MarksInv'
    BY <1>0, <1>1, <2>1, InvIs, MarksLose
  <2>3. PlayerTypes'
    BY <1>0, <1>2, <1>4, <2>1, InvIs DEF PlayerTypes, AtRest
  <2> QED
    BY <1>1, <1>4, <2>1, <2>2, <2>3 DEF PlInvariant
<1>3. CASE engine' = "none" /\ Unrecovered /\ IF work.then = "handle" THEN Answer(FALSE) ELSE Unanswered
  <2>1. AtRest(work') /\ WorkInv' /\ ~Starting'
    BY <1>0, <1>3, InvIs, HandledRests, RestIsFree DEF Unrecovered
  <2>2. CASE work.then = "handle"
    <3>1. call.at = "sent" /\ Answer(FALSE)
      BY <1>0, <1>3, <2>2, InvIs DEF WorkInv
    <3>2. MarksInv'
      BY <1>0, <1>1, <2>1, <3>1, InvIs, MarksAnswered
    <3>3. PlayerTypes'
      BY <1>0, <1>3, <1>4, <2>1, <3>1, InvIs, AnswersAreTyped DEF PlayerTypes, AtRest
    <3> QED
      BY <1>1, <1>4, <2>1, <3>2, <3>3 DEF PlInvariant
  <2>3. CASE work.then # "handle"
    <3>1. call' = call
      BY <1>3, <2>3 DEF Unanswered
    <3>2. MarksInv'
      BY <1>0, <1>1, <2>1, <3>1, InvIs, MarksLose
    <3>3. PlayerTypes'
      BY <1>0, <1>3, <1>4, <2>1, <3>1, InvIs DEF PlayerTypes, AtRest
    <3> QED
      BY <1>1, <1>4, <2>1, <3>2, <3>3 DEF PlInvariant
  <2> QED
    BY <2>2, <2>3
<1> QED
  BY <1>0, <1>2, <1>3

\* Handling a command that creates nothing.
LEMMA OpenFailsKeeps ==
    ASSUME PlInvariant, OpenFails \/ PositionPlayback
    PROVE  PlInvariant'
<1>0. /\ work.at = "handle" /\ UNCHANGED <<marked, nextId, files, queues, heap, heard, engine>> /\ work' = work.back
      /\ call.at = "sent"
  BY InvIs DEF OpenFails, PositionPlayback, Handles, Handled, fileVars, WorkInv
<1>1. PICK ok \in BOOLEAN : Answer(ok) /\ (call.kind = "play" => ~ok)
  BY DEF OpenFails, PositionPlayback, Handles
<1>2. FilesInv' /\ Playing' = Playing /\ ~Starting
  BY <1>0, InvIs, FilesStay DEF Starting
<1>3. AtRest(work') /\ WorkInv' /\ ~Starting'
  BY <1>0, InvIs, HandledRests, RestIsFree
<1>4. MarksInv'
  <2>1. {} \in SUBSET Playing /\ Playing' = Playing \ {} /\ marked' = marked \ {}
    BY <1>0, <1>2
  <2> QED
    BY <1>0, <1>1, <1>2, <1>3, <2>1, InvIs, MarksAnswered
<1>5. PlayerTypes'
  BY <1>0, <1>1, <1>3, InvIs, AnswersAreTyped DEF PlayerTypes, AtRest
<1> QED
  BY <1>0, <1>2, <1>3, <1>4, <1>5, InvIs DEF PlInvariant

LEMMA HandleShutdownKeeps ==
    ASSUME PlInvariant, HandleShutdown
    PROVE  PlInvariant'
<1>0. /\ work.at = "handle" /\ call.kind = "shutdown" /\ Close(Playing) /\ marked' = {} /\ engine' = "none"
      /\ Answer(TRUE) /\ work' = Rest("stopped") /\ nextId' = nextId /\ call.at = "sent"
  BY InvIs DEF HandleShutdown, Handles, WorkInv
<1>1. FilesInv' /\ Playing' = Playing \ Playing /\ ~Starting
  BY <1>0, InvIs, PlaybacksClose DEF Starting
<1>2. AtRest(work') /\ WorkInv' /\ ~Starting'
  BY <1>0, RestIsFree DEF AtRest
<1>3. marked' = marked \ Playing
  <2>1. Pending = {}
    BY <1>0, InvIs, PendingIs
  <2> QED
    BY <1>0, <2>1, InvIs DEF MarksInv
<1>4. MarksInv'
  BY <1>0, <1>1, <1>2, <1>3, InvIs, MarksAnswered
<1>5. PlayerTypes'
  BY <1>0, <1>2, InvIs, AnswersAreTyped DEF PlayerTypes, AtRest
<1> QED
  BY <1>1, <1>2, <1>4, <1>5, InvIs DEF PlInvariant

\* Fading changes nothing of what a playback holds.
FadesOf(f) == {[f EXCEPT !.fade = "fading"], [f EXCEPT !.fade = "gone"]}

LEMMA FadedFiles ==
    ASSUME NEW f \in FileSet, NEW g \in FadesOf(f)
    PROVE  /\ g \in FileSet /\ g.held = f.held /\ g.shape = f.shape /\ g.read = f.read /\ g.loops = f.loops
           /\ g.eof = f.eof /\ g.plays = f.plays
BY DEF FadesOf, FileSet

LEMMA OnlyFades ==
    ASSUME FilesInv, UNCHANGED <<queues, heap, heard>>, NEW ids \in SUBSET Playing,
           files' \in [Id -> {NoFile} \cup FileSet],
           \A p \in ids : files'[p] \in FadesOf(files[p]),
           \A p \in Id \ ids : files'[p] = files[p]
    PROVE  /\ FilesInv' /\ Playing' = Playing
           /\ \A p \in Playing : /\ files'[p].held = files[p].held /\ files'[p].shape = files[p].shape
                                 /\ files'[p].read = files[p].read /\ files'[p].loops = files[p].loops
                                 /\ files'[p].eof = files[p].eof /\ files'[p].plays = files[p].plays
<1>1. \A p \in Playing : /\ files'[p].held = files[p].held /\ files'[p].shape = files[p].shape
                         /\ files'[p].read = files[p].read /\ files'[p].loops = files[p].loops
                         /\ files'[p].eof = files[p].eof /\ files'[p].plays = files[p].plays
                         /\ files'[p] # NoFile
  <2> SUFFICES ASSUME NEW p \in Playing
               PROVE  /\ files'[p].held = files[p].held /\ files'[p].shape = files[p].shape
                      /\ files'[p].read = files[p].read /\ files'[p].loops = files[p].loops
                      /\ files'[p].eof = files[p].eof /\ files'[p].plays = files[p].plays
                      /\ files'[p] # NoFile
    OBVIOUS
  <2>1. files[p] \in FileSet /\ p \in Id
    BY PlayingFiles
  <2>2. CASE p \in ids
    BY <2>1, <2>2, FadedFiles, FilesAreFiles
  <2>3. CASE p \notin ids
    BY <2>1, <2>3, FilesAreFiles
  <2> QED
    BY <2>2, <2>3
<1>2. Playing' = Playing
  <2>1. \A p \in Id \ Playing : files'[p] = NoFile
    BY PlayingFiles
  <2> QED
    BY <1>1, <2>1, PlayingFiles DEF Playing, Id, NoFile
<1>3. \A p \in Id : Fed(p)'
  <2> SUFFICES ASSUME NEW p \in Id PROVE Fed(p)'
    BY DEF Id
  <2>1. CASE p \in Playing
    <3>1. /\ files[p].held \in Seq({p} \X (1 .. MaxTarget + 1)) /\ Len(files[p].held) <= MaxTarget
          /\ ~files[p].shape.cached =>
            /\ Len(queues[p]) <= Len(files[p].held)
            /\ \A i \in DOMAIN queues[p] :
                 queues[p][i].buffer = files[p].held[Len(files[p].held) - Len(queues[p]) + i]
      BY <2>1, PlayingFiles, FilesAreFiles DEF FilesInv, Fed
    <3>2. files'[p].held = files[p].held /\ files'[p].shape = files[p].shape /\ files'[p] # NoFile /\ queues' = queues
          /\ NoFile' = NoFile
      BY <1>1, <2>1 DEF NoFile
    <3> QED
      BY <3>1, <3>2 DEF Fed
  <2>2. CASE p \notin Playing
    BY <2>2, FedStays DEF FilesInv
  <2> QED
    BY <2>1, <2>2
<1>4. heap' = BuffersOf(Playing)'
  BY <1>1, <1>2 DEF BuffersOf, FilesInv
<1> QED
  BY <1>1, <1>2, <1>3, <1>4 DEF FilesInv, Id, FileSet, Entry, Buffer, NoFile, Cached

LEMMA WorkStays ==
    ASSUME WorkInv, work' = work, call' = call, Playing \subseteq Playing',
           engine # "none" => engine' # "none",
           work.at = "free" =>
             /\ Len(queues'[work.id]) <= work.queued
             /\ files'[work.id].held = files[work.id].held /\ files'[work.id].shape = files[work.id].shape
    PROVE  WorkInv'
BY DEF WorkInv

LEMMA StopPlaybacksKeeps ==
    ASSUME PlInvariant, StopPlaybacks
    PROVE  PlInvariant'
<1>0. /\ work.at = "handle" /\ call.kind = "stop" /\ UNCHANGED <<nextId, engine>> /\ work' = work.back
      /\ Answer(call.ids \cap Playing # {}) /\ call.at = "sent"
  BY InvIs DEF StopPlaybacks, Handles, Handled, WorkInv
<1>1. AtRest(work') /\ WorkInv' /\ ~Starting' /\ ~Starting
  BY <1>0, InvIs, HandledRests, RestIsFree DEF Starting
<1>2. Pending = {} /\ marked = Playing
  BY <1>0, <1>1, InvIs, PendingIs DEF MarksInv
<1>3. PlayerTypes' <=> marked' \subseteq 1 .. nextId - 1
  <2>1. call' \in Calls
    BY <1>0, InvIs, AnswersAreTyped
  <2> QED
    BY <1>0, <1>1, <2>1, InvIs DEF PlayerTypes, AtRest
<1>4. CASE call.fade
  <2>1. /\ files' = [p \in Id |-> IF p \in call.ids \cap Playing THEN [files[p] EXCEPT !.fade = "fading"] ELSE files[p]]
        /\ UNCHANGED <<marked, queues, heap, heard>>
    BY <1>4 DEF StopPlaybacks
  <2> DEFINE ids == call.ids \cap Playing
  <2>2. ids \subseteq Playing /\ (\A p \in ids : files'[p] \in FadesOf(files[p])) /\ \A p \in Id \ ids : files'[p] = files[p]
    BY <2>1, InvIs, PlayingFiles DEF FadesOf
  <2>3. files' \in [Id -> {NoFile} \cup FileSet]
    <3>1. \A p \in Id : files'[p] \in {NoFile} \cup FileSet
      BY <2>2, InvIs, PlayingFiles, FadedFiles DEF FilesInv
    <3> QED
      BY <2>1, <3>1
  <2>4. FilesInv' /\ Playing' = Playing
    <3> HIDE DEF ids
    <3> QED
      BY <2>1, <2>2, <2>3, InvIs, OnlyFades
  <2>5. MarksInv'
    <3>1. {} \in SUBSET Playing /\ Playing' = Playing \ {} /\ marked' = marked \ {}
      BY <2>1, <2>4
    <3> QED
      BY <1>0, <1>1, <3>1, InvIs, MarksAnswered
  <2> QED
    BY <1>0, <1>1, <1>3, <2>1, <2>4, <2>5, InvIs DEF PlInvariant, PlayerTypes
<1>5. CASE ~call.fade
  <2> DEFINE ids == call.ids \cap Playing
  <2>1. Close(ids) /\ marked' = marked \ call.ids
    BY <1>5 DEF StopPlaybacks
  <2>2. FilesInv' /\ Playing' = Playing \ ids
    <3>1. ids \in SUBSET Playing
      OBVIOUS
    <3> HIDE DEF ids
    <3> QED
      BY <2>1, <3>1, InvIs, PlaybacksClose
  <2>3. marked' = marked \ ids
    BY <1>2, <2>1
  <2>4. MarksInv'
    <3>1. ids \in SUBSET Playing
      OBVIOUS
    <3> HIDE DEF ids
    <3> QED
      BY <1>0, <1>1, <2>2, <2>3, <3>1, InvIs, MarksAnswered
  <2> QED
    BY <1>0, <1>1, <1>3, <2>2, <2>3, <2>4, InvIs DEF PlInvariant, PlayerTypes
<1> QED
  BY <1>4, <1>5

LEMMA NewFiles ==
    ASSUME NEW s \in Shapes
    PROVE  [at |-> "open", shape |-> s, read |-> 0, loops |-> s.loops, held |-> << >>, eof |-> FALSE,
            fade |-> "no", plays |-> IF s.cached /\ s.loops >= 0 THEN s.loops + 1 ELSE 0] \in FileSet
<1>1. s.loops \in Int /\ s.cached \in BOOLEAN /\ (s.loops >= 0 => s.loops + 1 \in Nat)
  BY PlayerNumbers
<1> DEFINE l == s.loops
           n == IF s.cached /\ s.loops >= 0 THEN s.loops + 1 ELSE 0
<1>2. l \in Int /\ n \in Nat
  BY <1>1
<1> HIDE DEF l, n
<1>3. [at |-> "open", shape |-> s, read |-> 0, loops |-> l, held |-> << >>, eof |-> FALSE,
       fade |-> "no", plays |-> n] \in FileSet
  BY <1>2 DEF FileSet
<1> QED
  BY <1>3 DEF l, n

LEMMA OpenPlaybackKeeps ==
    ASSUME PlInvariant, OpenPlayback
    PROVE  PlInvariant'
<1> DEFINE id == call.id
           s == call.shape
           file == [at |-> "open", shape |-> s, read |-> 0, loops |-> s.loops, held |-> << >>, eof |-> FALSE,
                    fade |-> "no", plays |-> IF s.cached /\ s.loops >= 0 THEN s.loops + 1 ELSE 0]
           q == IF s.cached /\ s.loops < 0 THEN <<[buffer |-> Cached, plays |-> -1]>> ELSE << >>
<1>0. /\ work.at = "handle" /\ call.kind = "play" /\ call.at = "sent" /\ engine # "none"
      /\ files' = [files EXCEPT ![id] = file] /\ queues' = [queues EXCEPT ![id] = q]
      /\ work' = [at |-> "fill", id |-> id, target |-> 1, starting |-> TRUE, back |-> work.back]
      /\ UNCHANGED <<marked, nextId, heap, engine, call, heard>>
  BY InvIs DEF OpenPlayback, Handles, WorkInv
<1>1. id \in Id /\ s \in Shapes /\ ~Starting /\ Pending = {id} /\ work.back \in Backs
  BY <1>0, InvIs, PendingIs, HandledRests DEF Starting
<1>2. id \notin Playing /\ marked = Playing \cup {id}
  BY <1>1, InvIs DEF MarksInv
<1>3. FilesInv' /\ Playing' = Playing \cup {id}
  <2>1. file \in FileSet /\ file.held = << >> /\ file.shape = s
    BY <1>1, NewFiles
  <2>2. q \in Seq(Entry) /\ (~s.cached => q = << >>)
    <3> DEFINE e == [buffer |-> Cached, plays |-> -1]
    <3>1. e \in Entry
      BY DEF Entry
    <3>2. q = IF s.cached /\ s.loops < 0 THEN <<e>> ELSE << >>
      OBVIOUS
    <3> HIDE DEF e, q
    <3> QED
      BY <3>1, <3>2
  <2>3. ToSet(file.held) = {} /\ file.held \in Seq({id} \X (1 .. MaxTarget + 1)) /\ Len(file.held) <= MaxTarget
    BY <2>1, PlayerNumbers DEF ToSet
  <2>4. ~file.shape.cached => /\ Len(q) <= Len(file.held)
                              /\ \A i \in DOMAIN q : q[i].buffer = file.held[Len(file.held) - Len(q) + i]
    BY <2>1, <2>2
  <2>5. \A b : b \in heap' <=> b \in ToSet(file.held) \/ (b \in heap /\ (id \in Playing => b \notin ToSet(files[id].held)))
    BY <1>0, <1>2, <2>3
  <2>6. heard' = heard /\ files' = [files EXCEPT ![id] = file] /\ queues' = [queues EXCEPT ![id] = q]
    BY <1>0
  <2>7. file \in FileSet /\ q \in Seq(Entry) /\ id \in Id
    BY <1>1, <2>1, <2>2
  <2> HIDE DEF file, q, id, s
  <2> QED
    BY <2>3, <2>4, <2>5, <2>6, <2>7, InvIs, PlaybackChanges
<1> HIDE DEF file, q, s
<1>4. work' \in Fills /\ work'.at = "fill" /\ work'.id = id /\ work'.starting
  BY <1>0, <1>1, PlayerNumbers DEF Fills
<1>5. PlayerTypes'
  BY <1>0, <1>4, InvIs, WorkIsTyped
<1>6. Starting' /\ Pending' = Pending
  BY <1>0, <1>4 DEF Starting, Pending
<1>7. MarksInv'
  BY <1>0, <1>1, <1>2, <1>3, <1>4, <1>6 DEF MarksInv
<1>8. WorkInv'
  BY <1>3, <1>4 DEF WorkInv
<1> QED
  BY <1>0, <1>3, <1>5, <1>7, <1>8 DEF PlInvariant

\* Where a command that waits is taken before the next playback.
LEMMA Polls ==
    ASSUME PlInvariant, work.at \in {"fill", "failed"}, PollsCommand
    PROVE  /\ AtRest(work') \/ (work' \in Recovers /\ work'.at = "recover" /\ call.at = "sent")
           /\ ~Starting'
<1>1. work.back \in Backs /\ AtRest(work.back)
  BY InvIs, HandledRests
<1>2. CASE call.at = "sent"
  <2>1. work' = [at |-> "recover", then |-> "handle", back |-> work.back]
    BY <1>2 DEF PollsCommand
  <2> QED
    BY <1>1, <1>2, <2>1 DEF Recovers, Starting
<1>3. CASE call.at # "sent"
  BY <1>1, <1>3, RestIsFree DEF PollsCommand
<1> QED
  BY <1>2, <1>3

LEMMA PollsWork ==
    ASSUME PlInvariant, work.at \in {"fill", "failed"}, PollsCommand, call' = call
    PROVE  WorkInv' /\ ~Starting' /\ (AtRest(work') \/ work' \in Recovers)
<1>1. CASE AtRest(work')
  BY <1>1, RestIsFree
<1>2. CASE ~AtRest(work')
  BY <1>2, Polls DEF WorkInv
<1> QED
  BY <1>1, <1>2

LEMMA PlaybackFilledKeeps ==
    ASSUME PlInvariant, PlaybackFilled
    PROVE  PlInvariant'
<1>1. WorkerOnly /\ work.at = "fill" /\ ~Starting /\ PollsCommand /\ call' = call
  BY DEF PlaybackFilled, Filled, Filling, WorkerOnly, Starting
<1> QED
  BY <1>1, PollsWork, WorkerOnlyKeeps

LEMMA CloseFailedKeeps ==
    ASSUME PlInvariant, CloseFailed
    PROVE  PlInvariant'
<1>0. work.at = "failed" /\ Close({work.id}) /\ marked' = marked \ {work.id} /\ PollsCommand
      /\ UNCHANGED <<nextId, engine, call>> /\ work.id \in Playing
  BY InvIs DEF CloseFailed, WorkInv
<1>1. FilesInv' /\ Playing' = Playing \ {work.id} /\ ~Starting
  BY <1>0, InvIs, PlaybacksClose DEF Starting
<1>2. WorkInv' /\ ~Starting' /\ (AtRest(work') \/ work' \in Recovers)
  BY <1>0, PollsWork
<1>3. MarksInv'
  BY <1>0, <1>1, <1>2, InvIs, MarksLose
<1>4. PlayerTypes'
  BY <1>0, <1>2, InvIs, WorkIsTyped
<1> QED
  BY <1>0, <1>1, <1>2, <1>3, <1>4, InvIs DEF PlInvariant, Quiet

\* A playback that could not be filled.
LEMMA StartFails ==
    ASSUME PlInvariant, Starting, Close({work.id}), Answer(FALSE), work' = work.back, UNCHANGED <<marked, nextId, engine>>
    PROVE  PlInvariant'
<1>0. work.at \in {"fill", "restart"} /\ work.id \in Playing /\ call.at = "sent"
  BY InvIs DEF Starting, WorkInv, MarksInv
<1>1. FilesInv' /\ Playing' = Playing \ {work.id}
  BY <1>0, InvIs, PlaybacksClose
<1>2. AtRest(work') /\ WorkInv' /\ ~Starting'
  BY <1>0, InvIs, HandledRests, RestIsFree
<1>3. MarksInv'
  BY <1>0, <1>1, <1>2, InvIs, MarksStarted
<1>4. PlayerTypes'
  BY <1>0, <1>2, InvIs, AnswersAreTyped DEF PlayerTypes, AtRest
<1> QED
  BY <1>1, <1>2, <1>3, <1>4, InvIs DEF PlInvariant, Quiet

LEMMA FillFailsKeeps ==
    ASSUME PlInvariant, FillFails
    PROVE  PlInvariant'
<1>1. CASE work.starting
  <2>1. Starting /\ Close({work.id}) /\ Answer(FALSE) /\ work' = work.back /\ UNCHANGED <<marked, nextId, engine>>
    BY <1>1 DEF FillFails, Starting
  <2> QED
    BY <2>1, StartFails
<1>2. CASE ~work.starting
  <2>1. work.at \in {"fill", "restart"} /\ work' = [work EXCEPT !.at = "failed"] /\ WorkerOnly /\ work \in Fills
    BY <1>2, InvIs, WorkAt DEF FillFails, WorkerOnly, Unanswered
  <2>2. work' \in Fills /\ work'.at = "failed" /\ work'.id = work.id /\ ~work'.starting
    BY <1>2, <2>1 DEF Fills
  <2>3. Playing' = Playing /\ ~Starting /\ ~Starting' /\ work.id \in Playing
    BY <1>2, <2>1, <2>2, InvIs, FilesStay DEF WorkerOnly, fileVars, Starting, WorkInv
  <2>4. WorkInv'
    BY <2>2, <2>3 DEF WorkInv
  <2> QED
    BY <2>1, <2>2, <2>3, <2>4, WorkerOnlyKeeps
<1> QED
  BY <1>1, <1>2

LEMMA PlaybackStartsKeeps ==
    ASSUME PlInvariant, PlaybackStarts
    PROVE  PlInvariant'
<1>0. /\ Starting /\ work' = work.back /\ UNCHANGED <<marked, nextId, engine>>
      /\ work.at = "fill" /\ work.id \in Playing
      /\ (Close({work.id}) /\ Answer(FALSE)) \/ (Answer(TRUE) /\ UNCHANGED <<files, queues, heap, heard>>)
  BY InvIs DEF PlaybackStarts, Filled, Filling, Starting, WorkInv, fileVars
<1>1. CASE Close({work.id}) /\ Answer(FALSE)
  BY <1>0, <1>1, StartFails
<1>2. CASE Answer(TRUE) /\ UNCHANGED <<files, queues, heap, heard>>
  <2>1. FilesInv' /\ Playing' = Playing
    BY <1>2, InvIs, FilesStay
  <2>2. AtRest(work') /\ WorkInv' /\ ~Starting'
    BY <1>0, InvIs, HandledRests, RestIsFree
  <2>3. MarksInv'
    BY <1>0, <1>2, <2>1, <2>2, InvIs, MarksStarted
  <2>4. call.at = "sent"
    BY <1>0, InvIs DEF MarksInv
  <2>5. PlayerTypes'
    BY <1>0, <1>2, <2>2, <2>4, InvIs, AnswersAreTyped DEF PlayerTypes, AtRest
  <2> QED
    BY <1>0, <2>1, <2>2, <2>3, <2>5, InvIs DEF PlInvariant, Quiet
<1> QED
  BY <1>0, <1>1, <1>2

\* The steps of a playback that is being filled leave it to the worker.
LEMMA FillGoesOn ==
    ASSUME PlInvariant, work.at \in {"fill", "restart"}, UNCHANGED <<marked, nextId, engine, call>>,
           FilesInv', Playing' = Playing,
           work' = work \/ work' = [work EXCEPT !.at = "restart"] \/ work' = [work EXCEPT !.at = "fill"]
    PROVE  PlInvariant'
<1>1. work \in Fills /\ work.id \in Playing
  BY InvIs, WorkAt DEF WorkInv
<1>2. work' \in Fills /\ work'.at \in {"fill", "restart"} /\ work'.id = work.id /\ work'.starting = work.starting
  BY <1>1 DEF Fills
<1>3. Starting' <=> Starting
  BY <1>2 DEF Starting
<1>4. MarksInv'
  BY <1>2, <1>3, InvIs, MarksStay
<1>5. WorkInv'
  BY <1>1, <1>2 DEF WorkInv
<1>6. PlayerTypes'
  BY <1>2, InvIs, WorkIsTyped
<1> QED
  BY <1>4, <1>5, <1>6, InvIs DEF PlInvariant, Quiet

LEMMA OverFiles ==
    ASSUME NEW f \in FileSet
    PROVE  Over(f) \in FileSet /\ Over(f).held = f.held /\ Over(f).shape = f.shape /\ Over(f).read = f.read
           /\ Over(f).loops = f.loops /\ Over(f).eof = (f.loops = 0)
<1> DEFINE b == (f.loops = 0)
<1>1. b \in BOOLEAN /\ Over(f) = [f EXCEPT !.eof = b]
  BY DEF Over
<1> HIDE DEF b
<1>2. [f EXCEPT !.eof = b] \in FileSet /\ [f EXCEPT !.eof = b].held = f.held /\ [f EXCEPT !.eof = b].shape = f.shape
      /\ [f EXCEPT !.eof = b].read = f.read /\ [f EXCEPT !.eof = b].loops = f.loops /\ [f EXCEPT !.eof = b].eof = b
  BY <1>1 DEF FileSet
<1> QED
  BY <1>1, <1>2 DEF b

LEMMA FedIs ==
    ASSUME FilesInv, NEW p \in Playing
    PROVE  /\ p \in Id /\ files[p] \in FileSet /\ queues[p] \in Seq(Entry)
           /\ files[p].held \in Seq({p} \X (1 .. MaxTarget + 1)) /\ Len(files[p].held) <= MaxTarget
           /\ ~files[p].shape.cached =>
                /\ Len(queues[p]) <= Len(files[p].held)
                /\ \A i \in DOMAIN queues[p] :
                     queues[p][i].buffer = files[p].held[Len(files[p].held) - Len(queues[p]) + i]
BY PlayingFiles, FilesAreFiles DEF FilesInv, Fed

\* A change of the file that keeps what it holds, with its voice as it is.
LEMMA FileRewritten ==
    ASSUME FilesInv, NEW p \in Playing, NEW f \in FileSet, f.held = files[p].held, f.shape = files[p].shape,
           files' = [files EXCEPT ![p] = f], UNCHANGED <<queues, heap, heard>>
    PROVE  FilesInv' /\ Playing' = Playing
<1>1. /\ p \in Id /\ queues[p] \in Seq(Entry) /\ queues' = [queues EXCEPT ![p] = queues[p]]
      /\ f.held \in Seq({p} \X (1 .. MaxTarget + 1)) /\ Len(f.held) <= MaxTarget
      /\ ~f.shape.cached =>
           /\ Len(queues[p]) <= Len(f.held)
           /\ \A i \in DOMAIN queues[p] : queues[p][i].buffer = f.held[Len(f.held) - Len(queues[p]) + i]
  BY FedIs DEF FilesInv
<1>2. \A b : b \in heap' <=> b \in ToSet(f.held) \/ (b \in heap /\ (p \in Playing => b \notin ToSet(files[p].held)))
  BY BuffersAre DEF FilesInv
<1> DEFINE q == queues[p]
<1>3. /\ q \in Seq(Entry) /\ queues' = [queues EXCEPT ![p] = q] /\ heard' = heard
      /\ ~f.shape.cached => /\ Len(q) <= Len(f.held)
                            /\ \A i \in DOMAIN q : q[i].buffer = f.held[Len(f.held) - Len(q) + i]
  BY <1>1
<1> HIDE DEF q
<1>4. FilesInv' /\ Playing' = Playing \cup {p}
  BY <1>1, <1>2, <1>3, PlaybackChanges
<1> QED
  BY <1>4

LEMMA ReadEndKeeps ==
    ASSUME PlInvariant, ReadEnd
    PROVE  PlInvariant'
<1> DEFINE p == work.id
<1>1. p \in Playing /\ work.at = "fill"
  BY InvIs DEF ReadEnd, Filling, WorkInv
<1>2. files[p] \in FileSet /\ files' = [files EXCEPT ![p] = Over(files[p])] /\ UNCHANGED <<queues, heap, heard>>
  BY <1>1, InvIs, FedIs DEF ReadEnd, File
<1>3. FilesInv' /\ Playing' = Playing
  BY <1>1, <1>2, InvIs, OverFiles, FileRewritten
<1>4. work' = work \/ work' = [work EXCEPT !.at = "restart"]
  BY DEF ReadEnd, Continues
<1> QED
  BY <1>1, <1>3, <1>4, FillGoesOn DEF ReadEnd

LEMMA RestartedFiles ==
    ASSUME NEW f \in FileSet
    PROVE  LET g == [f EXCEPT !.read = 0, !.loops = IF @ > 0 THEN @ - 1 ELSE @] IN
           g \in FileSet /\ g.held = f.held /\ g.shape = f.shape /\ g.read = 0 /\ g.eof = f.eof
           /\ g.loops = IF f.loops > 0 THEN f.loops - 1 ELSE f.loops
<1> DEFINE l == IF f.loops > 0 THEN f.loops - 1 ELSE f.loops
<1>1. f.loops \in Int
  BY DEF FileSet
<1>2. l \in Int
  BY <1>1
<1>3. [f EXCEPT !.read = 0, !.loops = IF @ > 0 THEN @ - 1 ELSE @] = [f EXCEPT !.read = 0, !.loops = l]
  OBVIOUS
<1> HIDE DEF l
<1>4. LET g == [f EXCEPT !.read = 0, !.loops = l] IN
      g \in FileSet /\ g.held = f.held /\ g.shape = f.shape /\ g.read = 0 /\ g.eof = f.eof /\ g.loops = l
  BY <1>2 DEF FileSet
<1> QED
  BY <1>3, <1>4 DEF l

LEMMA RestartKeeps ==
    ASSUME PlInvariant, Restart
    PROVE  PlInvariant'
<1> DEFINE p == work.id
           f == [files[p] EXCEPT !.read = 0, !.loops = IF @ > 0 THEN @ - 1 ELSE @]
<1>1. p \in Playing /\ work.at = "restart" /\ work' = [work EXCEPT !.at = "fill"]
  BY InvIs DEF Restart, WorkInv
<1>2. files[p] \in FileSet /\ files' = [files EXCEPT ![p] = f] /\ UNCHANGED <<queues, heap, heard>>
  <2>1. files[p] \in FileSet
    BY <1>1, InvIs, FedIs
  <2>2. files' = [files EXCEPT ![p] = f]
    BY DEF Restart, File
  <2>3. UNCHANGED <<queues, heap, heard>>
    BY DEF Restart
  <2> QED
    BY <2>1, <2>2, <2>3
<1>3. f \in FileSet /\ f.held = files[p].held /\ f.shape = files[p].shape
  BY <1>2, RestartedFiles
<1> HIDE DEF f
<1>4. FilesInv' /\ Playing' = Playing
  BY <1>1, <1>2, <1>3, InvIs, FileRewritten
<1> QED
  BY <1>1, <1>4, FillGoesOn DEF Restart

LEMMA ReadFramesFiles ==
    ASSUME NEW f \in FileSet, NEW b \in Buffer
    PROVE  LET g == [f EXCEPT !.read = @ + 1, !.held = Append(@, b)] IN
           g \in FileSet /\ g.held = Append(f.held, b) /\ g.shape = f.shape /\ g.read = f.read + 1
           /\ g.eof = f.eof /\ g.loops = f.loops
<1> DEFINE h == Append(f.held, b)
           r == f.read + 1
<1>1. h \in Seq(Buffer) /\ r \in Nat
  BY DEF FileSet
<1>2. [f EXCEPT !.read = @ + 1, !.held = Append(@, b)] = [f EXCEPT !.read = r, !.held = h]
  OBVIOUS
<1> HIDE DEF h, r
<1>3. LET g == [f EXCEPT !.read = r, !.held = h] IN
      g \in FileSet /\ g.held = h /\ g.shape = f.shape /\ g.read = r /\ g.eof = f.eof /\ g.loops = f.loops
  BY <1>1 DEF FileSet
<1> QED
  BY <1>2, <1>3 DEF h, r

LEMMA ReadFramesKeeps ==
    ASSUME PlInvariant, ReadFrames
    PROVE  PlInvariant'
<1> DEFINE p == work.id
           old == files[p]
           b == Free
           e == [buffer |-> b, plays |-> 1]
           after == [old EXCEPT !.read = @ + 1, !.held = Append(@, b)]
           finished == after.read = old.shape.reads /\ ~old.shape.late
           f == IF finished THEN Over(after) ELSE after
           q == Append(queues[p], e)
<1>0. /\ work.at = "fill" /\ p \in Playing /\ ~old.shape.cached /\ Len(old.held) < work.target
      /\ files' = [files EXCEPT ![p] = f] /\ queues' = [queues EXCEPT ![p] = q] /\ heap' = heap \cup {b}
      /\ heard' = heard /\ UNCHANGED <<marked, nextId, engine, call>> /\ Continues(after, finished)
  BY InvIs DEF ReadFrames, Filling, NeedsBuffer, File, WorkInv
<1>1. /\ p \in Id /\ old \in FileSet /\ queues[p] \in Seq(Entry) /\ old.held \in Seq({p} \X (1 .. MaxTarget + 1))
      /\ Len(queues[p]) <= Len(old.held)
      /\ \A i \in DOMAIN queues[p] : queues[p][i].buffer = old.held[Len(old.held) - Len(queues[p]) + i]
  BY <1>0, InvIs, FedIs
<1>2. Len(old.held) + 1 <= MaxTarget
  <2>1. work.target \in 1 .. MaxTarget
    BY <1>0, InvIs, WorkAt DEF Fills
  <2> DEFINE n == Len(old.held)
  <2>2. n \in Nat /\ n < work.target
    BY <1>0, <1>1
  <2> HIDE DEF n
  <2>3. n + 1 <= MaxTarget
    BY <2>1, <2>2, PlayerNumbers
  <2> QED
    BY <2>3 DEF n
<1>3. b \in {p} \X (1 .. MaxTarget + 1) /\ b \notin heap /\ b \in Buffer
  <2>1. Len(old.held) <= MaxTarget
    BY <1>0, InvIs, FedIs
  <2>2. b \in {p} \X (1 .. MaxTarget + 1) /\ b \notin heap
    BY <1>0, <2>1, InvIs, FreeIsFree DEF File
  <2> HIDE DEF b
  <2> QED
    BY <1>1, <2>2 DEF Buffer
<1> HIDE DEF b
<1>4. e \in Entry /\ e.buffer = b
  BY <1>3 DEF Entry
<1>5. after \in FileSet /\ after.held = Append(old.held, b) /\ after.shape = old.shape
  <2> HIDE DEF old
  <2> QED
    BY <1>1, <1>3, ReadFramesFiles
<1>6. f \in FileSet /\ f.held = Append(old.held, b) /\ f.shape = old.shape
  <2> HIDE DEF after, finished
  <2> QED
    BY <1>5, OverFiles
<1>7. /\ f.held \in Seq({p} \X (1 .. MaxTarget + 1)) /\ q \in Seq(Entry)
      /\ Len(f.held) = Len(old.held) + 1 /\ Len(q) = Len(queues[p]) + 1
      /\ \A i \in DOMAIN q : q[i].buffer = f.held[Len(f.held) - Len(q) + i]
      /\ \A c : c \in ToSet(f.held) <=> c = b \/ c \in ToSet(old.held)
  <2> DEFINE h == old.held
             r == queues[p]
             S == {p} \X (1 .. MaxTarget + 1)
  <2>1. /\ h \in Seq(S) /\ r \in Seq(Entry) /\ Len(r) <= Len(h)
        /\ \A i \in DOMAIN r : r[i].buffer = h[Len(h) - Len(r) + i]
        /\ f.held = Append(h, b) /\ q = Append(r, e)
        /\ b \in S /\ e \in Entry /\ e.buffer = b
    BY <1>1, <1>3, <1>4, <1>6
  <2> HIDE DEF h, r, e, f, q, S
  <2> DEFINE g == f.held
  <2>2. g = Append(h, b) /\ q = Append(r, e)
    BY <2>1
  <2> HIDE DEF g
  <2>3. /\ g \in Seq(S) /\ q \in Seq(Entry) /\ Len(g) = Len(h) + 1 /\ Len(q) = Len(r) + 1
        /\ \A i \in DOMAIN q : q[i].buffer = g[Len(g) - Len(q) + i]
        /\ \A c : c \in ToSet(g) <=> c = b \/ c \in ToSet(h)
    <3> DEFINE n == Len(h)
               m == Len(r)
    <3>0. n \in Nat /\ m \in Nat /\ m <= n
      BY <2>1
    <3>1. /\ g \in Seq(S) /\ q \in Seq(Entry) /\ Len(g) = n + 1 /\ Len(q) = m + 1
          /\ g[n + 1] = b /\ q[m + 1] = e
          /\ (\A i \in 1 .. n : g[i] = h[i]) /\ \A i \in 1 .. m : q[i] = r[i]
      BY <2>1, <2>2
    <3>2. DOMAIN h = 1 .. n /\ DOMAIN r = 1 .. m /\ DOMAIN g = 1 .. n + 1 /\ DOMAIN q = 1 .. m + 1
      BY <3>1
    <3>3. \A i \in 1 .. m : r[i].buffer = h[n - m + i]
      BY <2>1, <3>2
    <3> HIDE DEF n, m
    <3>4. \A i \in 1 .. m + 1 : q[i].buffer = g[(n + 1) - (m + 1) + i]
      <4> SUFFICES ASSUME NEW i \in 1 .. m + 1 PROVE q[i].buffer = g[(n + 1) - (m + 1) + i]
        OBVIOUS
      <4>1. CASE i = m + 1
        <5>1. (n + 1) - (m + 1) + i = n + 1
          BY <3>0, <4>1
        <5> QED
          BY <2>1, <3>1, <4>1, <5>1
      <4>2. CASE i \in 1 .. m
        <5>1. (n + 1) - (m + 1) + i = n - m + i /\ n - m + i \in 1 .. n
          BY <3>0, <4>2
        <5> QED
          BY <3>1, <3>3, <4>2, <5>1
      <4>3. i = m + 1 \/ i \in 1 .. m
        BY <3>0
      <4> QED
        BY <4>1, <4>2, <4>3
    <3>5. \A c : c \in ToSet(g) <=> c = b \/ c \in ToSet(h)
      <4> SUFFICES ASSUME NEW c PROVE c \in ToSet(g) <=> c = b \/ c \in ToSet(h)
        OBVIOUS
      <4>1. c \in ToSet(g) <=> \E i \in 1 .. n + 1 : c = g[i]
        BY <3>2 DEF ToSet
      <4>2. c \in ToSet(h) <=> \E i \in 1 .. n : c = h[i]
        BY <3>2 DEF ToSet
      <4>3. n + 1 \in 1 .. n + 1 /\ (\A i \in 1 .. n + 1 : i = n + 1 \/ i \in 1 .. n) /\ 1 .. n \subseteq 1 .. n + 1
        BY <3>0
      <4> QED
        BY <3>1, <4>1, <4>2, <4>3
    <3> QED
      BY <3>1, <3>2, <3>4, <3>5 DEF n, m
  <2> QED
    BY <2>3 DEF h, r, S, g
<1>8. \A c : c \in heap' <=> c \in ToSet(f.held) \/ (c \in heap /\ (p \in Playing => c \notin ToSet(files[p].held)))
  <2>1. \A c : c \in ToSet(old.held) => c \in heap
    BY <1>0, InvIs, BuffersAre DEF FilesInv
  <2>2. \A c : c \in heap' <=> c = b \/ c \in heap
    BY <1>0
  <2>3. \A c : c \in ToSet(f.held) <=> c = b \/ c \in ToSet(old.held)
    BY <1>7
  <2> HIDE DEF f
  <2> QED
    BY <1>0, <2>1, <2>2, <2>3
<1>9. FilesInv' /\ Playing' = Playing
  <2>1. Len(f.held) <= MaxTarget /\ Len(q) <= Len(f.held)
    <3> HIDE DEF f, q, old
    <3> DEFINE h == old.held
               r == queues[p]
    <3>1. h \in Seq({p} \X (1 .. MaxTarget + 1)) /\ r \in Seq(Entry)
      BY <1>1
    <3>2. Len(r) <= Len(h) /\ Len(h) + 1 <= MaxTarget
      BY <1>1, <1>2
    <3>3. Len(f.held) = Len(h) + 1 /\ Len(q) = Len(r) + 1
      BY <1>7
    <3> HIDE DEF h, r
    <3>4. Len(h) \in Nat
      BY <3>1
    <3>5. Len(r) \in Nat
      BY <3>1
    <3>6. PICK n \in Nat, m \in Nat : n = Len(h) /\ m = Len(r)
      BY <3>4, <3>5
    <3>7. m <= n /\ n + 1 <= MaxTarget /\ Len(f.held) = n + 1 /\ Len(q) = m + 1
      BY <3>2, <3>3, <3>6
    <3> QED
      BY <3>7
  <2>2. ~f.shape.cached => /\ Len(q) <= Len(f.held)
                           /\ \A i \in DOMAIN q : q[i].buffer = f.held[Len(f.held) - Len(q) + i]
    BY <1>7, <2>1
  <2>3. files' = [files EXCEPT ![p] = f] /\ queues' = [queues EXCEPT ![p] = q] /\ heard' = heard
    BY <1>0
  <2> HIDE DEF f, q
  <2>4. FilesInv' /\ Playing' = Playing \cup {p}
    BY <1>1, <1>6, <1>7, <1>8, <2>1, <2>2, <2>3, InvIs, PlaybackChanges
  <2> QED
    BY <1>0, <2>4
<1>10. work' = work \/ work' = [work EXCEPT !.at = "restart"]
  BY <1>0 DEF Continues
<1> QED
  BY <1>0, <1>9, <1>10, FillGoesOn

LEMMA SubmitLoopKeeps ==
    ASSUME PlInvariant, SubmitLoop
    PROVE  PlInvariant'
<1> DEFINE p == work.id
           old == files[p]
           plays == IF old.plays > MaxLoop + 1 THEN MaxLoop + 1 ELSE old.plays
           f == [old EXCEPT !.plays = @ - plays]
           e == [buffer |-> Cached, plays |-> LoopCount(plays) + 1]
           q == Append(queues[p], e)
<1>0. /\ work.at = "fill" /\ p \in Playing /\ old.shape.cached /\ old.plays > 0
      /\ files' = [files EXCEPT ![p].plays = @ - plays] /\ queues' = [queues EXCEPT ![p] = q]
      /\ UNCHANGED <<marked, nextId, heap, engine, call, work, heard>>
  BY InvIs DEF SubmitLoop, Filling, NeedsLoop, File, WorkInv
<1>1. /\ p \in Id /\ old \in FileSet /\ queues[p] \in Seq(Entry) /\ old.held \in Seq({p} \X (1 .. MaxTarget + 1))
      /\ Len(old.held) <= MaxTarget
  BY <1>0, InvIs, FedIs
<1>2. old.plays \in Nat /\ plays \in 1 .. old.plays
  <2> DEFINE n == old.plays
  <2>1. n \in Nat /\ n > 0
    BY <1>0, <1>1 DEF FileSet
  <2> HIDE DEF old
  <2> QED
    BY <2>1, PlayerNumbers
<1>3. f \in FileSet /\ f.held = old.held /\ f.shape = old.shape
  <2> DEFINE n == old.plays - plays
  <2>1. n \in Nat /\ f = [old EXCEPT !.plays = n]
    BY <1>2
  <2> HIDE DEF n, f
  <2> QED
    BY <1>1, <2>1 DEF FileSet
<1>4. q \in Seq(Entry)
  <2>1. e \in Entry
    <3> DEFINE n == LoopCount(plays) + 1
    <3>1. n \in Int
      BY <1>2 DEF LoopCount
    <3> HIDE DEF n
    <3> QED
      BY <3>1 DEF Entry, n
  <2> HIDE DEF e
  <2> QED
    BY <1>1, <2>1
<1>5. files' = [files EXCEPT ![p] = f]
  BY <1>0
<1>6. \A b : b \in heap' <=> b \in ToSet(f.held) \/ (b \in heap /\ (p \in Playing => b \notin ToSet(files[p].held)))
  <2>1. \A c : c \in ToSet(old.held) => c \in heap
    BY <1>0, InvIs, BuffersAre DEF FilesInv
  <2> HIDE DEF f
  <2> QED
    BY <1>0, <1>3, <2>1
<1>7. FilesInv' /\ Playing' = Playing
  <2>1. f.held \in Seq({p} \X (1 .. MaxTarget + 1)) /\ Len(f.held) <= MaxTarget /\ f.shape.cached
    BY <1>0, <1>1, <1>3
  <2>2. queues' = [queues EXCEPT ![p] = q] /\ heard' = heard
    BY <1>0
  <2> HIDE DEF f, q
  <2>3. FilesInv' /\ Playing' = Playing \cup {p}
    BY <1>1, <1>3, <1>4, <1>5, <1>6, <2>1, <2>2, InvIs, PlaybackChanges
  <2> QED
    BY <1>0, <2>3
<1> QED
  BY <1>0, <1>7, FillGoesOn

-----------------------------------------------------------------------------
(***************************************************************************)
(* Maintenance.                                                             *)
(***************************************************************************)
LEMMA FadeOutKeeps ==
    ASSUME PlInvariant, NEW p \in Id, FadeOut(p)
    PROVE  PlInvariant'
<1>0. /\ work.at = "fade" /\ p \in Playing /\ Close({p}) /\ marked' = marked \ {p}
      /\ UNCHANGED <<nextId, engine, call, work>>
  BY DEF FadeOut
<1>1. AtRest(work') /\ WorkInv' /\ ~Starting' /\ ~Starting
  <2>1. AtRest(work')
    BY <1>0, InvIs, WorkAt DEF AtRest
  <2> QED
    BY <1>0, <2>1, RestIsFree DEF Starting
<1>2. FilesInv' /\ Playing' = Playing \ {p}
  BY <1>0, InvIs, PlaybacksClose
<1>3. MarksInv'
  BY <1>0, <1>1, <1>2, InvIs, MarksLose
<1>4. PlayerTypes'
  BY <1>0, <1>1, InvIs, WorkIsTyped
<1> QED
  BY <1>0, <1>1, <1>2, <1>3, <1>4, InvIs DEF PlInvariant, Quiet

LEMMA ToRestKeeps ==
    ASSUME PlInvariant, WorkerOnly, AtRest(work'), ~Starting
    PROVE  PlInvariant'
BY RestIsFree, WorkerOnlyKeeps

LEMMA FadedOutKeeps ==
    ASSUME PlInvariant, FadedOut
    PROVE  PlInvariant'
<1>0. work.at = "fade" /\ WorkerOnly /\ ~Starting
  BY DEF FadedOut, WorkerOnly, Starting
<1>1. CASE Playing = {}
  BY <1>0, <1>1, ToRestKeeps DEF FadedOut, AtRest, Backs
<1>2. CASE Playing # {}
  <2>1. work' = [at |-> "reclaim", todo |-> Playing] /\ Playing \subseteq Id
    BY <1>2, InvIs, PlayingFiles DEF FadedOut
  <2>2. work' \in Reclaims /\ work'.at = "reclaim" /\ work'.todo = Playing
    BY <2>1 DEF Reclaims
  <2>3. Playing' = Playing
    BY <1>0, InvIs, FilesStay DEF WorkerOnly, fileVars
  <2>4. WorkInv' /\ ~Starting'
    BY <2>2, <2>3 DEF WorkInv, Starting
  <2> QED
    BY <1>0, <2>2, <2>4, WorkerOnlyKeeps
<1> QED
  BY <1>1, <1>2

LEMMA ReadQueuedKeeps ==
    ASSUME PlInvariant, NEW p \in Id, ReadQueued(p)
    PROVE  PlInvariant'
<1>0. work.at = "reclaim" /\ p \in work.todo /\ WorkerOnly /\ ~Starting /\ work.todo \subseteq Playing /\ work \in Reclaims
      /\ work' = [at |-> "free", todo |-> work.todo \ {p}, id |-> p, queued |-> Len(queues[p])]
  BY InvIs, WorkAt DEF ReadQueued, WorkerOnly, Starting, WorkInv
<1>1. /\ p \in Playing /\ queues[p] \in Seq(Entry) /\ Len(queues[p]) \in Nat
      /\ ~files[p].shape.cached => Len(queues[p]) <= Len(files[p].held)
  <2>1. p \in Playing /\ FilesInv
    BY <1>0, InvIs
  <2>2. queues[p] \in Seq(Entry) /\ (~files[p].shape.cached => Len(queues[p]) <= Len(files[p].held))
    BY <2>1, FedIs
  <2> QED
    BY <2>1, <2>2
<1>2. Playing' = Playing /\ files' = files /\ queues' = queues
  BY <1>0, InvIs, FilesStay DEF WorkerOnly, fileVars
<1> DEFINE n == Len(queues[p])
           t == work.todo \ {p}
<1>3. n \in Nat /\ t \in SUBSET Id /\ work' = [at |-> "free", todo |-> t, id |-> p, queued |-> n]
  BY <1>0, <1>1 DEF Reclaims
<1> HIDE DEF n, t
<1>4. work' \in Frees /\ work'.at = "free" /\ work'.todo = t /\ work'.id = p /\ work'.queued = n
  BY <1>3 DEF Frees
<1>5. WorkInv' /\ ~Starting'
  <2>1. work'.todo \subseteq Playing' /\ p \in Playing' \ t /\ Len(queues'[p]) <= n
        /\ (~files'[p].shape.cached => n <= Len(files'[p].held))
    BY <1>0, <1>1, <1>2, <1>4 DEF t, n
  <2> QED
    BY <1>4, <2>1 DEF WorkInv, Starting
<1> QED
  BY <1>0, <1>4, <1>5, WorkerOnlyKeeps

LEMMA AllReclaimedKeeps ==
    ASSUME PlInvariant, AllReclaimed \/ RefillDone
    PROVE  PlInvariant'
<1>0. work.at \in {"reclaim", "refill"} /\ WorkerOnly /\ ~Starting /\ Playing \subseteq Id
  BY InvIs, PlayingFiles DEF AllReclaimed, RefillDone, WorkerOnly, Starting
<1>1. \A t \in 1 .. MaxTarget : RefillAt(t, Playing) \in Refills
  BY <1>0 DEF RefillAt, Refills
<1>2. AtRest(work')
  <2>1. CASE AllReclaimed
    BY <1>1, <2>1, PlayerNumbers DEF AllReclaimed, AtRest, Backs
  <2>2. CASE RefillDone
    <3>1. work.target \in 1 .. MaxTarget
      BY <2>2, InvIs, WorkAt DEF RefillDone, Refills
    <3>2. work.target # MaxTarget => work.target + 1 \in 1 .. MaxTarget
      BY <3>1, PlayerNumbers
    <3> QED
      BY <1>1, <2>2, <3>2 DEF RefillDone, AtRest, Backs
  <2> QED
    BY <2>1, <2>2
<1> QED
  BY <1>0, <1>2, ToRestKeeps

LEMMA RefillNextKeeps ==
    ASSUME PlInvariant, NEW p \in Id, RefillNext(p)
    PROVE  PlInvariant'
<1>0. work.at = "refill" /\ p \in Playing /\ WorkerOnly /\ ~Starting /\ work \in Refills
      /\ work' = [at |-> "fill", id |-> p, target |-> work.target, starting |-> FALSE,
                  back |-> RefillAt(work.target, work.todo \ {p})]
  BY InvIs, WorkAt DEF RefillNext, WorkerOnly, Starting
<1> DEFINE back == RefillAt(work.target, work.todo \ {p})
<1>1. back \in Backs /\ work.target \in 1 .. MaxTarget
  BY <1>0 DEF RefillAt, Refills, Backs
<1> HIDE DEF back
<1>2. work' = [at |-> "fill", id |-> p, target |-> work.target, starting |-> FALSE, back |-> back]
  BY <1>0 DEF back
<1>3. work' \in Fills /\ work'.at = "fill" /\ work'.id = p /\ ~work'.starting
  BY <1>1, <1>2 DEF Fills
<1>4. Playing' = Playing
  BY <1>0, InvIs, FilesStay DEF WorkerOnly, fileVars
<1>5. WorkInv' /\ ~Starting'
  BY <1>0, <1>3, <1>4 DEF WorkInv, Starting
<1> QED
  BY <1>0, <1>3, <1>5, WorkerOnlyKeeps

\* What is reclaimed is the front of what is held.
LEMMA FrontGoes ==
    ASSUME NEW S, NEW h \in Seq(S), NEW n \in 0 .. Len(h)
    PROVE  LET g == SubSeq(h, Len(h) - n + 1, Len(h)) IN
           /\ g \in Seq(S) /\ Len(g) = n
           /\ \A i \in 1 .. n : g[i] = h[Len(h) - n + i]
           /\ ToSet(g) \subseteq ToSet(h)
<1> DEFINE m == Len(h)
           g == SubSeq(h, m - n + 1, m)
<1>0. m \in Nat /\ n \in Nat /\ n <= m /\ m - n + 1 \in 1 .. m + 1
  OBVIOUS
<1>1. g \in Seq(S) /\ Len(g) = n /\ \A i \in 1 .. n : g[i] = h[m - n + i]
  <2>1. g \in Seq(S)
    BY <1>0
  <2>2. Len(g) = m - (m - n + 1) + 1
    BY <1>0
  <2>3. m - (m - n + 1) + 1 = n
    BY <1>0
  <2>4. \A i \in 1 .. n : g[i] = h[(m - n + 1) + i - 1]
    BY <1>0
  <2>5. \A i \in 1 .. n : (m - n + 1) + i - 1 = m - n + i
    BY <1>0
  <2> HIDE DEF g, m
  <2> QED
    BY <2>1, <2>2, <2>3, <2>4, <2>5
<1>2. ToSet(g) \subseteq ToSet(h)
  <2> SUFFICES ASSUME NEW i \in DOMAIN g PROVE g[i] \in ToSet(h)
    BY DEF ToSet
  <2>1. i \in 1 .. n /\ DOMAIN h = 1 .. m
    BY <1>1
  <2>2. m - n + i \in 1 .. m
    BY <1>0, <2>1
  <2> HIDE DEF g, m
  <2> QED
    BY <1>1, <2>1, <2>2 DEF ToSet
<1> QED
  BY <1>1, <1>2

LEMMA ReclaimKeeps ==
    ASSUME PlInvariant, Reclaim
    PROVE  PlInvariant'
<1> DEFINE p == work.id
           old == files[p]
           n == work.queued
           f == Reclaimed
<1>0. /\ work.at = "free" /\ work \in Frees /\ p \in Playing \ work.todo /\ work.todo \subseteq Playing
      /\ work' = [at |-> "reclaim", todo |-> work.todo] /\ UNCHANGED <<nextId, engine, call>> /\ ~Starting
      /\ n \in Nat /\ Len(queues[p]) <= n /\ (~old.shape.cached => n <= Len(old.held))
  BY InvIs, WorkAt DEF Reclaim, WorkInv, Starting, Frees
<1>1. work' \in Reclaims /\ work'.at = "reclaim" /\ work'.todo = work.todo /\ ~Starting'
  BY <1>0 DEF Frees, Reclaims, Starting
<1>2. CASE f.eof /\ f.held = << >>
  <2>1. Close({p}) /\ marked' = marked \ {p}
    BY <1>2 DEF Reclaim
  <2>2. FilesInv' /\ Playing' = Playing \ {p}
    BY <1>0, <2>1, InvIs, PlaybacksClose
  <2>3. MarksInv'
    BY <1>0, <1>1, <2>1, <2>2, InvIs, MarksLose
  <2>4. PlayerTypes'
    BY <1>0, <1>1, <2>1, InvIs, WorkIsTyped
  <2>5. WorkInv'
    BY <1>0, <1>1, <2>2 DEF WorkInv
  <2> QED
    BY <1>0, <2>2, <2>3, <2>4, <2>5, InvIs DEF PlInvariant, Quiet
<1>3. CASE ~(f.eof /\ f.held = << >>)
  <2>0. /\ files' = [files EXCEPT ![p] = f] /\ heap' = heap \ (ToSet(old.held) \ ToSet(f.held))
        /\ UNCHANGED <<queues, marked, heard>>
    BY <1>3 DEF Reclaim, File
  <2>1. /\ p \in Id /\ old \in FileSet /\ queues[p] \in Seq(Entry)
        /\ old.held \in Seq({p} \X (1 .. MaxTarget + 1)) /\ Len(old.held) <= MaxTarget
        /\ ~old.shape.cached =>
             /\ Len(queues[p]) <= Len(old.held)
             /\ \A i \in DOMAIN queues[p] : queues[p][i].buffer = old.held[Len(old.held) - Len(queues[p]) + i]
    BY <1>0, InvIs, FedIs
  <2>2. /\ f \in FileSet /\ f.held \in Seq({p} \X (1 .. MaxTarget + 1)) /\ Len(f.held) <= MaxTarget
        /\ f.shape = old.shape /\ ToSet(f.held) \subseteq ToSet(old.held)
        /\ ~f.shape.cached =>
             /\ Len(queues[p]) <= Len(f.held)
             /\ \A i \in DOMAIN queues[p] : queues[p][i].buffer = f.held[Len(f.held) - Len(queues[p]) + i]
    <3>1. CASE old.shape.cached
      <4> DEFINE b == (n = 0 /\ old.plays = 0)
      <4>1. f = [old EXCEPT !.eof = b] /\ b \in BOOLEAN
        BY <3>1 DEF Reclaimed, File
      <4> HIDE DEF b, f
      <4>2. f \in FileSet /\ f.held = old.held /\ f.shape = old.shape
        BY <2>1, <4>1 DEF FileSet
      <4> QED
        BY <2>1, <3>1, <4>2
    <3>2. CASE ~old.shape.cached
      <4> DEFINE h == old.held
                 m == Len(h)
                 g == SubSeq(h, m - n + 1, m)
                 r == queues[p]
                 S == {p} \X (1 .. MaxTarget + 1)
      <4>1. f = [old EXCEPT !.held = g]
        BY <3>2 DEF Reclaimed, File, Consumed
      <4>2. h \in Seq(S) /\ n \in 0 .. Len(h) /\ m \in Nat /\ h \in Seq(Buffer)
        <5>1. S \subseteq Buffer
          BY <2>1 DEF Buffer
        <5> QED
          BY <1>0, <2>1, <3>2, <5>1 DEF FileSet
      <4>3. /\ g \in Seq(S) /\ Len(g) = n /\ \A i \in 1 .. n : g[i] = h[m - n + i]
            /\ ToSet(g) \subseteq ToSet(h)
        <5> HIDE DEF h, S
        <5> QED
          BY <4>2, FrontGoes
      <4>4. g \in Seq(Buffer)
        <5> HIDE DEF h
        <5> QED
          BY <4>2, FrontGoes
      <4>5. f \in FileSet /\ f.held = g /\ f.shape = old.shape
        <5> HIDE DEF g, f
        <5> QED
          BY <2>1, <4>1, <4>4 DEF FileSet
      <4>6. Len(g) <= MaxTarget
        BY <2>1, <4>2, <4>3, PlayerNumbers
      <4>7. Len(r) <= Len(g) /\ \A i \in DOMAIN r : r[i].buffer = g[Len(g) - Len(r) + i]
        <5> DEFINE l == Len(r)
        <5>1. l \in Nat /\ l <= n /\ n <= m /\ DOMAIN r = 1 .. l
          BY <1>0, <2>1, <4>2
        <5>2. \A i \in 1 .. l : r[i].buffer = h[m - l + i]
          BY <2>1, <3>2, <5>1
        <5> HIDE DEF l, r, h, m, g
        <5>3. \A i \in 1 .. l : n - l + i \in 1 .. n /\ m - n + (n - l + i) = m - l + i
          <6>1. l \in Nat /\ n \in Nat /\ m \in Nat /\ l <= n
            BY <1>0, <4>2, <5>1
          <6> HIDE DEF n
          <6> QED
            BY <6>1
        <5>4. \A i \in 1 .. l : r[i].buffer = g[n - l + i]
          BY <4>3, <5>2, <5>3
        <5> QED
          BY <4>3, <5>1, <5>4 DEF l
      <4> HIDE DEF f, g, S
      <4> QED
        BY <4>3, <4>5, <4>6, <4>7 DEF S
    <3> QED
      BY <3>1, <3>2
  <2> HIDE DEF f
  <2>3. \A b : b \in heap' <=> b \in ToSet(f.held) \/ (b \in heap /\ (p \in Playing => b \notin ToSet(files[p].held)))
    <3>1. \A b : b \in ToSet(old.held) => b \in heap
      BY <1>0, InvIs, BuffersAre DEF FilesInv
    <3> QED
      BY <1>0, <2>0, <2>2, <3>1
  <2>4. FilesInv' /\ Playing' = Playing
    <3> DEFINE q == queues[p]
    <3>1. /\ q \in Seq(Entry) /\ queues' = [queues EXCEPT ![p] = q] /\ heard' = heard
          /\ ~f.shape.cached => /\ Len(q) <= Len(f.held)
                                /\ \A i \in DOMAIN q : q[i].buffer = f.held[Len(f.held) - Len(q) + i]
      BY <2>0, <2>1, <2>2, InvIs DEF FilesInv
    <3>3. /\ FilesInv /\ p \in Id /\ f \in FileSet /\ files' = [files EXCEPT ![p] = f]
          /\ f.held \in Seq({p} \X (1 .. MaxTarget + 1)) /\ Len(f.held) <= MaxTarget
      BY <2>0, <2>1, <2>2, InvIs
    <3> HIDE DEF q, p
    <3>2. FilesInv' /\ Playing' = Playing \cup {p}
      BY <2>3, <3>1, <3>3, PlaybackChanges
    <3> QED
      BY <1>0, <3>2
  <2>5. MarksInv'
    BY <1>0, <1>1, <2>0, <2>4, InvIs, MarksStay
  <2>6. PlayerTypes'
    BY <1>0, <1>1, <2>0, InvIs, WorkIsTyped
  <2>7. WorkInv'
    BY <1>0, <1>1, <2>4 DEF WorkInv
  <2> QED
    BY <1>0, <2>4, <2>5, <2>6, <2>7, InvIs DEF PlInvariant, Quiet
<1> QED
  BY <1>2, <1>3

-----------------------------------------------------------------------------
(***************************************************************************)
(* The device, the clock and the game's thread.                             *)
(***************************************************************************)
\* The worker is where it was, and playbacks are what they were.
LEMMA OthersKeep ==
    ASSUME PlInvariant, UNCHANGED <<marked, nextId, call, work>>, FilesInv', Playing' = Playing,
           engine' = engine \/ (engine = "good" /\ engine' = "bad"),
           work.at = "free" =>
             /\ Len(queues'[work.id]) <= work.queued
             /\ files'[work.id].held = files[work.id].held /\ files'[work.id].shape = files[work.id].shape
    PROVE  PlInvariant'
<1>1. Starting' <=> Starting
  BY DEF Starting
<1>2. MarksInv'
  BY <1>1, InvIs, MarksStay
<1>3. WorkInv'
  BY InvIs, WorkStays
<1>4. PlayerTypes'
  BY InvIs DEF PlayerTypes
<1> QED
  BY <1>2, <1>3, <1>4, InvIs DEF PlInvariant, Quiet

LEMMA QueuedAtFree ==
    ASSUME PlInvariant, work.at = "free"
    PROVE  Len(queues[work.id]) <= work.queued /\ work.id \in Playing
BY InvIs DEF WorkInv

LEMMA CriticalErrorKeeps ==
    ASSUME PlInvariant, CriticalError \/ Tick \/ UNCHANGED playerVars
    PROVE  PlInvariant'
<1>1. /\ UNCHANGED <<marked, nextId, call, work, files, queues, heap, heard>>
      /\ engine' = engine \/ (engine = "good" /\ engine' = "bad")
  BY DEF CriticalError, Tick, fileVars, playerVars
<1>2. FilesInv' /\ Playing' = Playing
  BY <1>1, InvIs, FilesStay
<1> QED
  BY <1>1, <1>2, QueuedAtFree, OthersKeep

LEMMA FadeElapsesKeeps ==
    ASSUME PlInvariant, NEW p \in Id, FadeElapses(p)
    PROVE  PlInvariant'
<1>0. /\ p \in Playing /\ files' = [files EXCEPT ![p] = [files[p] EXCEPT !.fade = "gone"]]
      /\ UNCHANGED <<marked, nextId, queues, heap, engine, call, work, heard>>
  BY DEF FadeElapses
<1>1. files[p] \in FileSet /\ files'[p] \in FadesOf(files[p])
  BY <1>0, InvIs, PlayingFiles DEF FadesOf, FilesInv
<1>2. files' \in [Id -> {NoFile} \cup FileSet] /\ \A q \in Id \ {p} : files'[q] = files[q]
  BY <1>0, <1>1, FadedFiles, InvIs DEF FilesInv
<1>3. /\ FilesInv' /\ Playing' = Playing
      /\ \A q \in Playing : files'[q].held = files[q].held /\ files'[q].shape = files[q].shape
  <2>1. {p} \in SUBSET Playing /\ \A q \in {p} : files'[q] \in FadesOf(files[q])
    BY <1>0, <1>1
  <2> QED
    BY <1>0, <1>2, <2>1, InvIs, OnlyFades
<1> QED
  BY <1>0, <1>3, QueuedAtFree, OthersKeep

\* A voice that plays leaves of its queue a tail, or all of it with fewer plays of the first.
LEMMA PlayedQueues ==
    ASSUME NEW q \in Seq(Entry), q # << >>, NEW r, r = PlayedOnce(Head(q)) \o Tail(q)
    PROVE  /\ r \in Seq(Entry)
           /\ Head(q).plays = 1 => Len(r) = Len(q) - 1 /\ \A i \in 1 .. Len(r) : r[i] = q[i + 1]
           /\ Head(q).plays # 1 =>
                /\ Len(r) = Len(q) /\ r[1].buffer = q[1].buffer /\ r[1].plays = q[1].plays - 1
                /\ \A i \in 2 .. Len(r) : r[i] = q[i]
<1> DEFINE e == Head(q)
           t == Tail(q)
           n == Len(q)
<1>0. n \in Nat /\ n # 0 /\ e \in Entry /\ e = q[1] /\ t \in Seq(Entry) /\ Len(t) = n - 1 /\ \A i \in 1 .. n - 1 : t[i] = q[i + 1]
  BY EmptySeq
<1>1. CASE e.plays = 1
  <2>1. r = << >> \o t
    BY <1>1 DEF PlayedOnce
  <2> HIDE DEF t
  <2>2. r = t
    BY <1>0, <2>1
  <2> HIDE DEF n
  <2> QED
    BY <1>0, <1>1, <2>2 DEF n
<1>2. CASE e.plays # 1
  <2> DEFINE g == [e EXCEPT !.plays = @ - 1]
  <2>1. g \in Entry /\ g.buffer = e.buffer /\ g.plays = e.plays - 1
    <3> DEFINE k == e.plays - 1
    <3>1. k \in Int
      BY <1>0 DEF Entry
    <3> HIDE DEF e, k
    <3>2. [e EXCEPT !.plays = k] \in Entry /\ [e EXCEPT !.plays = k].buffer = e.buffer /\ [e EXCEPT !.plays = k].plays = k
      BY <1>0, <3>1 DEF Entry
    <3> QED
      BY <3>2 DEF k
  <2>2. r = <<g>> \o t
    BY <1>2 DEF PlayedOnce
  <2> HIDE DEF g, t
  <2>3. r \in Seq(Entry) /\ Len(r) = Len(t) + 1 /\ r[1] = g /\ \A i \in 2 .. Len(t) + 1 : r[i] = t[i - 1]
    <3> DEFINE w == <<g>>
    <3>0. g \in Entry /\ r = w \o t /\ t \in Seq(Entry)
      BY <1>0, <2>1, <2>2
    <3>1. w \in Seq(Entry) /\ Len(w) = 1 /\ w[1] = g /\ r = w \o t /\ t \in Seq(Entry)
      BY <3>0, OneEntry
    <3> HIDE DEF w, n, e
    <3>2. /\ Len(w \o t) = Len(w) + Len(t) /\ w \o t \in Seq(Entry)
          /\ \A i \in 1 .. Len(w) + Len(t) : (w \o t)[i] = IF i <= Len(w) THEN w[i] ELSE t[i - Len(w)]
      BY <3>1, ConcatProperties
    <3>3. /\ Len(r) = Len(w) + Len(t) /\ r \in Seq(Entry)
          /\ \A i \in 1 .. Len(w) + Len(t) : r[i] = IF i <= Len(w) THEN w[i] ELSE t[i - Len(w)]
      BY <3>1, <3>2, Zenon
    <3>4. Len(w) = 1 /\ w[1] = g /\ Len(t) \in Nat
      BY <3>1
    <3> HIDE DEF w
    <3> DEFINE k == Len(t)
               j == Len(w)
    <3>5. k \in Nat /\ j = 1 /\ \A i \in 1 .. j + k : r[i] = IF i <= j THEN w[i] ELSE t[i - j]
      BY <3>3, <3>4
    <3> HIDE DEF k, j
    <3>6. r[1] = w[1]
      <4>1. 1 \in 1 .. j + k /\ 1 <= j
        BY <3>5
      <4> QED
        BY <3>5, <4>1
    <3>7. \A i \in 2 .. k + 1 : r[i] = t[i - 1]
      <4>1. \A i \in 2 .. k + 1 : i \in 1 .. j + k /\ ~(i <= j)
        BY <3>5
      <4> QED
        BY <3>5, <4>1
    <3> QED
      BY <3>3, <3>4, <3>6, <3>7 DEF k
  <2> HIDE DEF n
  <2>4. Len(r) = n
    BY <1>0, <2>3
  <2>5. \A i \in 2 .. n : r[i] = q[i]
    <3> SUFFICES ASSUME NEW i \in 2 .. n PROVE r[i] = q[i]
      OBVIOUS
    <3>1. i - 1 \in 1 .. n - 1 /\ (i - 1) + 1 = i /\ (n - 1) + 1 = n
      BY <1>0
    <3> QED
      BY <1>0, <2>3, <3>1
  <2> QED
    BY <1>0, <1>2, <2>1, <2>3, <2>4, <2>5 DEF n
<1> QED
  BY <1>1, <1>2

LEMMA DevicePlaysKeeps ==
    ASSUME PlInvariant, NEW p \in Id, DevicePlays(p)
    PROVE  PlInvariant'
<1> DEFINE q == queues[p]
           r == PlayedOnce(Head(q)) \o Tail(q)
<1>0. /\ q # << >> /\ queues' = [queues EXCEPT ![p] = r] /\ heard' = [heard EXCEPT ![p] = @ + 1]
      /\ UNCHANGED <<marked, nextId, files, heap, engine, call, work>>
  BY DEF DevicePlays
<1>1. p \in Playing
  <2>1. p \notin Playing => q = << >>
    BY InvIs, PlayingFiles DEF FilesInv, Fed
  <2> QED
    BY <1>0, <2>1
<1>2. /\ q \in Seq(Entry)
      /\ ~files[p].shape.cached =>
           /\ Len(q) <= Len(files[p].held)
           /\ \A i \in DOMAIN q : q[i].buffer = files[p].held[Len(files[p].held) - Len(q) + i]
      /\ files[p].held \in Seq({p} \X (1 .. MaxTarget + 1)) /\ Len(files[p].held) <= MaxTarget
      /\ files[p] # NoFile
  BY <1>1, InvIs, FedIs, FilesAreFiles
<1> HIDE DEF q, r
<1>3. /\ r \in Seq(Entry)
      /\ Head(q).plays = 1 => Len(r) = Len(q) - 1 /\ \A i \in 1 .. Len(r) : r[i] = q[i + 1]
      /\ Head(q).plays # 1 =>
           /\ Len(r) = Len(q) /\ r[1].buffer = q[1].buffer /\ r[1].plays = q[1].plays - 1
           /\ \A i \in 2 .. Len(r) : r[i] = q[i]
  BY <1>0, <1>2, PlayedQueues DEF r
<1> DEFINE n == Len(q)
           m == Len(r)
<1>4. n \in Nat /\ m \in Nat /\ m <= n /\ DOMAIN q = 1 .. n /\ DOMAIN r = 1 .. m
  BY <1>2, <1>3
<1>5. ~files[p].shape.cached =>
        /\ m <= Len(files[p].held)
        /\ \A i \in DOMAIN r : r[i].buffer = files[p].held[Len(files[p].held) - m + i]
  <2> SUFFICES ASSUME ~files[p].shape.cached
               PROVE  /\ m <= Len(files[p].held)
                      /\ \A i \in 1 .. m : r[i].buffer = files[p].held[Len(files[p].held) - m + i]
    BY <1>4
  <2> DEFINE h == files[p].held
             k == Len(h)
  <2>1. k \in Nat /\ n <= k /\ \A i \in 1 .. n : q[i].buffer = h[k - n + i]
    <3>1. k \in Nat
      BY <1>2
    <3>2. n <= k
      BY <1>2
    <3>3. ASSUME NEW i \in 1 .. n PROVE q[i].buffer = h[k - n + i]
      BY <1>2, <1>4, <3>3
    <3> QED
      BY <3>1, <3>2, <3>3
  <2>2. m = n \/ (m = n - 1 /\ Head(q).plays = 1)
    BY <1>3
  <2>3. Head(q).plays = 1 => m = n - 1 /\ \A i \in 1 .. m : r[i] = q[i + 1]
    BY <1>3
  <2>4. Head(q).plays # 1 => m = n /\ \A i \in 1 .. m : r[i].buffer = q[i].buffer
    <3>1. Head(q).plays # 1 => m = n /\ r[1].buffer = q[1].buffer /\ \A i \in 2 .. m : r[i] = q[i]
      BY <1>3
    <3> HIDE DEF n, m
    <3> QED
      BY <1>4, <3>1
  <2> HIDE DEF n, m, h, k
  <2>5. CASE Head(q).plays = 1
    <3>1. \A i \in 1 .. m : i + 1 \in 1 .. n /\ k - n + (i + 1) = k - m + i
      BY <1>4, <2>1, <2>3, <2>5
    <3>2. m <= k
      BY <1>4, <2>1
    <3>3. \A i \in 1 .. m : r[i].buffer = h[k - m + i]
      <4> SUFFICES ASSUME NEW i \in 1 .. m PROVE r[i].buffer = h[k - m + i]
        OBVIOUS
      <4>1. r[i] = q[i + 1] /\ i + 1 \in 1 .. n
        BY <2>3, <2>5, <3>1
      <4>2. q[i + 1].buffer = h[k - n + (i + 1)]
        BY <2>1, <4>1
      <4> QED
        BY <3>1, <4>1, <4>2
    <3> QED
      BY <3>2, <3>3 DEF h, k
  <2>6. CASE Head(q).plays # 1
    <3>1. m <= k /\ \A i \in 1 .. m : r[i].buffer = h[k - m + i]
      BY <1>4, <2>1, <2>4, <2>6
    <3> QED
      BY <3>1 DEF h, k
  <2> QED
    BY <2>5, <2>6
<1>6. queues'[p] = r /\ \A o \in Id \ {p} : queues'[o] = queues[o]
  BY <1>0, InvIs DEF FilesInv
<1>7. FilesInv' /\ Playing' = Playing
  <2>1. Playing' = Playing
    BY <1>0 DEF Playing, Id, NoFile
  <2>2. \A o \in Id : Fed(o)'
    <3> SUFFICES ASSUME NEW o \in Id PROVE Fed(o)'
      BY DEF Id
    <3>1. CASE o = p
      <4>1. files' = files /\ NoFile' = NoFile /\ queues'[p] = r
        BY <1>0, <1>6 DEF NoFile
      <4> QED
        BY <1>2, <1>5, <3>1, <4>1 DEF Fed
    <3>2. CASE o # p
      BY <1>0, <1>6, <3>2, FedStays, InvIs DEF FilesInv
    <3> QED
      BY <3>1, <3>2
  <2>3. BuffersOf(Playing)' = BuffersOf(Playing)
    BY <1>0, <2>1 DEF BuffersOf
  <2>4. queues' \in [Id -> Seq(Entry)] /\ heard' \in [Id -> Nat]
    BY <1>0, <1>3, InvIs DEF FilesInv
  <2> QED
    BY <1>0, <2>1, <2>2, <2>3, <2>4, InvIs DEF FilesInv, Id, FileSet, Entry, Buffer, NoFile, Cached
<1>8. work.at = "free" => Len(queues'[work.id]) <= work.queued
  <2> SUFFICES ASSUME work.at = "free" PROVE Len(queues'[work.id]) <= work.queued
    OBVIOUS
  <2>1. Len(queues[work.id]) <= work.queued /\ work.id \in Id /\ work.queued \in Nat
    BY QueuedAtFree, InvIs, WorkAt DEF Frees
  <2>2. CASE work.id = p
    <3>1. n <= work.queued
      BY <2>1, <2>2 DEF q
    <3> HIDE DEF n, m
    <3>2. m <= work.queued
      BY <1>4, <2>1, <3>1
    <3> QED
      BY <1>6, <2>2, <3>2 DEF m
  <2>3. CASE work.id # p
    BY <1>6, <2>1, <2>3
  <2> QED
    BY <2>2, <2>3
<1> QED
  BY <1>0, <1>7, <1>8, OthersKeep

\* What the game's thread does leaves the worker and its playbacks alone.
LEMMA SendKeeps ==
    ASSUME PlInvariant, UNCHANGED <<files, queues, heap, heard, engine, work>>,
           call = NoCall, call' \in Calls, call'.at = "sent",
           nextId' \in 1 .. MaxPlays + 1, marked' \subseteq 1 .. nextId' - 1,
           marked' = marked \cup Pending', Pending' \cap Playing = {}
    PROVE  PlInvariant'
<1>1. FilesInv' /\ Playing' = Playing
  BY InvIs, FilesStay
<1>2. call.at = "none" /\ Pending = {}
  BY DEF NoCall, Pending
<1>3. ~Starting /\ ~Starting'
  BY <1>2, InvIs DEF MarksInv, Starting
<1>4. MarksInv'
  BY <1>1, <1>2, <1>3, InvIs DEF MarksInv
<1>5. WorkInv'
  <2>1. work.at # "handle" /\ ~(work.at = "recover" /\ work.then = "handle")
    BY <1>2, InvIs DEF WorkInv
  <2> QED
    BY <1>1, <2>1, InvIs DEF WorkInv
<1>6. PlayerTypes'
  BY InvIs DEF PlayerTypes
<1> QED
  BY <1>1, <1>4, <1>5, <1>6, InvIs DEF PlInvariant, Quiet

LEMMA PlayKeeps ==
    ASSUME PlInvariant, NEW s \in Shapes, Play(s)
    PROVE  PlInvariant'
<1>1. /\ nextId <= MaxPlays /\ call = NoCall /\ call' = [at |-> "sent", kind |-> "play", id |-> nextId, shape |-> s]
      /\ marked' = marked \cup {nextId} /\ nextId' = nextId + 1
      /\ UNCHANGED <<files, queues, heap, heard, engine, work>>
  BY DEF Play, Sends, callerOnly
<1>2. nextId \in Id /\ nextId \in Nat /\ nextId' \in 1 .. MaxPlays + 1
  BY <1>1, InvIs, PlayerNumbers DEF PlayerTypes, Id
<1>3. call' \in Calls /\ call'.at = "sent" /\ Pending' = {nextId}
  BY <1>1, <1>2 DEF Calls, Pending
<1>4. nextId \notin Playing
  <2>1. Playing \subseteq 1 .. nextId - 1
    BY InvIs DEF PlayerTypes, MarksInv
  <2> QED
    BY <1>2, <2>1
<1>5. marked' \subseteq 1 .. nextId' - 1
  <2>1. marked \subseteq 1 .. nextId - 1
    BY InvIs DEF PlayerTypes
  <2>2. nextId' - 1 = nextId /\ \A n \in 1 .. nextId - 1 : n \in 1 .. nextId
    BY <1>1, <1>2
  <2>3. nextId \in 1 .. nextId
    BY <1>2 DEF Id
  <2> QED
    BY <1>1, <2>1, <2>2, <2>3
<1> QED
  BY <1>1, <1>2, <1>3, <1>4, <1>5, SendKeeps

LEMMA OtherCallsKeep ==
    ASSUME PlInvariant,
           \/ \E p \in Id : SetPosition(p) \/ \E fade \in BOOLEAN : Stop(p, fade)
           \/ \E fade \in BOOLEAN : StopAll(fade)
           \/ Shutdown
    PROVE  PlInvariant'
<1>1. /\ call = NoCall /\ UNCHANGED <<marked, nextId, files, queues, heap, heard, engine, work>>
      /\ \/ \E p \in Id : call' = [at |-> "sent", kind |-> "position", ids |-> {p}]
         \/ \E p \in Id, fade \in BOOLEAN : call' = [at |-> "sent", kind |-> "stop", ids |-> {p}, fade |-> fade]
         \/ \E fade \in BOOLEAN : call' = [at |-> "sent", kind |-> "stop", ids |-> Id, fade |-> fade]
         \/ call' = [at |-> "sent", kind |-> "shutdown"]
  <2>1. CASE \E p \in Id : SetPosition(p)
    BY <2>1 DEF SetPosition, Sends, callerOnly
  <2>2. CASE \E p \in Id, fade \in BOOLEAN : Stop(p, fade)
    BY <2>2 DEF Stop, Sends, callerOnly
  <2>3. CASE \E fade \in BOOLEAN : StopAll(fade)
    BY <2>3 DEF StopAll, Sends, callerOnly
  <2>4. CASE Shutdown
    BY <2>4 DEF Shutdown, Sends, callerOnly
  <2> QED
    BY <2>1, <2>2, <2>3, <2>4
<1>2. call' \in Calls /\ call'.at = "sent" /\ Pending' = {}
  BY <1>1 DEF Calls, Pending
<1>3. nextId' \in 1 .. MaxPlays + 1 /\ marked' \subseteq 1 .. nextId' - 1 /\ marked' = marked \cup Pending'
  BY <1>1, <1>2, InvIs DEF PlayerTypes
<1> QED
  BY <1>1, <1>2, <1>3, SendKeeps

LEMMA ReturnKeeps ==
    ASSUME PlInvariant, Return
    PROVE  PlInvariant'
<1>1. /\ call.at = "answered" /\ marked' = marked \ {call.refused} /\ call' = NoCall
      /\ UNCHANGED <<nextId, files, queues, heap, heard, engine, work>>
  BY DEF Return, MarksAfterCall, fileVars
<1>2. FilesInv' /\ Playing' = Playing
  BY <1>1, InvIs, FilesStay
<1>3. ~Starting /\ ~Starting' /\ Pending = {call.refused} \ {0} /\ Pending' = {}
  BY <1>1, InvIs DEF MarksInv, Starting, Pending, NoCall
<1>4. call.refused \notin Playing /\ Playing \subseteq Id /\ 0 \notin Id
  BY <1>3, InvIs, PlayingFiles DEF MarksInv, Id
<1>5. MarksInv'
  <2>1. marked' = Playing
    BY <1>1, <1>3, <1>4, InvIs DEF MarksInv
  <2> QED
    BY <1>2, <1>3, <2>1 DEF MarksInv
<1>6. WorkInv'
  BY <1>1, <1>2, InvIs DEF WorkInv
<1>7. PlayerTypes'
  BY <1>1, InvIs DEF PlayerTypes, Calls
<1> QED
  BY <1>1, <1>2, <1>5, <1>6, <1>7, InvIs DEF PlInvariant, Quiet

LEMMA StartKeeps ==
    ASSUME PlInvariant, Start
    PROVE  PlInvariant'
<1>1. /\ work.at = "stopped" /\ engine' = "good" /\ work' = Rest("select")
      /\ UNCHANGED <<marked, nextId, files, queues, heap, heard, call>>
  BY DEF Start
<1>2. FilesInv' /\ Playing' = Playing
  BY <1>1, InvIs, FilesStay
<1>3. AtRest(work') /\ WorkInv' /\ ~Starting' /\ ~Starting
  BY <1>1, RestIsFree DEF AtRest, Backs, Starting
<1>4. MarksInv'
  BY <1>1, <1>2, <1>3, InvIs, MarksStay
<1>5. PlayerTypes'
  BY <1>1, <1>3, InvIs DEF PlayerTypes, AtRest
<1> QED
  BY <1>1, <1>2, <1>3, <1>4, <1>5 DEF PlInvariant

LEMMA PlInitial == PlayerInit => PlInvariant
<1> SUFFICES ASSUME PlayerInit PROVE PlInvariant
  OBVIOUS
<1>1. Playing = {} /\ Pending = {} /\ ~Starting
  BY DEF PlayerInit, Playing, Pending, NoCall, Starting, Rest
<1>2. FilesInv
  BY <1>1 DEF PlayerInit, FilesInv, Fed, BuffersOf
<1>3. PlayerTypes
  BY PlayerNumbers DEF PlayerInit, PlayerTypes, Calls
<1>4. WorkInv
  BY DEF PlayerInit, WorkInv, Rest
<1> QED
  BY <1>1, <1>2, <1>3, <1>4 DEF PlInvariant, MarksInv, PlayerInit

LEMMA PlStep ==
    ASSUME PlInvariant, [PlayerNext]_playerVars
    PROVE  PlInvariant'
<1>1. CASE Caller
  BY <1>1, StartKeeps, PlayKeeps, OtherCallsKeep, ReturnKeeps DEF Caller
<1>2. CASE Worker
  BY <1>2, TakesKeep, NoRecoveryKeeps, RecoverCriticalErrorKeeps, RecreateEngineKeeps, OpenPlaybackKeeps,
     OpenFailsKeeps, StopPlaybacksKeeps, HandleShutdownKeeps, FillFailsKeeps, CloseFailedKeeps, ReadFramesKeeps,
     ReadEndKeeps, RestartKeeps, SubmitLoopKeeps, PlaybackStartsKeeps, PlaybackFilledKeeps, FadeOutKeeps,
     ReadQueuedKeeps, RefillNextKeeps, FadedOutKeeps, ReclaimKeeps, AllReclaimedKeeps DEF Worker
<1>3. CASE \E p \in Id : DevicePlays(p) \/ FadeElapses(p)
  BY <1>3, DevicePlaysKeeps, FadeElapsesKeeps
<1>4. CASE CriticalError \/ Tick \/ UNCHANGED playerVars
  BY <1>4, CriticalErrorKeeps
<1> QED
  BY <1>1, <1>2, <1>3, <1>4 DEF PlayerNext

LEMMA PlImplies == PlInvariant => PlaybacksAreWhole
<1> SUFFICES ASSUME PlInvariant PROVE VoicesReadLiveMemory /\ MarksFollowPlaybacks
  BY DEF PlaybacksAreWhole
<1>1. VoicesReadLiveMemory
  <2>1. ASSUME NEW p \in Id, queues[p] # << >>
        PROVE  /\ p \in Playing
               /\ ~files[p].shape.cached =>
                    LET played == Len(files[p].held) - Len(queues[p])
                    IN played >= 0 /\ \A i \in DOMAIN queues[p] : queues[p][i].buffer = files[p].held[played + i]
    <3>1. p \in Playing
      BY <2>1, InvIs, PlayingFiles DEF FilesInv, Fed
    <3>2. /\ Len(files[p].held) \in Nat /\ Len(queues[p]) \in Nat
          /\ ~files[p].shape.cached =>
               /\ Len(queues[p]) <= Len(files[p].held)
               /\ \A i \in DOMAIN queues[p] :
                    queues[p][i].buffer = files[p].held[Len(files[p].held) - Len(queues[p]) + i]
      <4>1. p \in Playing /\ FilesInv
        BY <3>1, InvIs
      <4>2. /\ files[p].held \in Seq({p} \X (1 .. MaxTarget + 1)) /\ queues[p] \in Seq(Entry)
            /\ ~files[p].shape.cached =>
                 /\ Len(queues[p]) <= Len(files[p].held)
                 /\ \A i \in DOMAIN queues[p] :
                      queues[p][i].buffer = files[p].held[Len(files[p].held) - Len(queues[p]) + i]
        BY <4>1, FedIs
      <4> QED
        BY <4>2
    <3> DEFINE n == Len(files[p].held)
               m == Len(queues[p])
    <3>3. ~files[p].shape.cached => n - m >= 0
      <4>1. n \in Nat /\ m \in Nat /\ (~files[p].shape.cached => m <= n)
        BY <3>2
      <4> HIDE DEF n, m
      <4> QED
        BY <4>1
    <3> QED
      BY <3>1, <3>2, <3>3
  <2> QED
    BY <2>1, InvIs DEF VoicesReadLiveMemory, FilesInv, PlInvariant
<1>2. MarksFollowPlaybacks
  <2> SUFFICES ASSUME work.at \in {"select", "stopped"}, call = NoCall PROVE marked = Playing
    BY DEF MarksFollowPlaybacks
  <2>1. Pending = {}
    BY DEF Pending, NoCall
  <2> QED
    BY <2>1, InvIs DEF MarksInv
<1> QED
  BY <1>1, <1>2

\* The device reads what the playback holds, and the marks are the playbacks (file_playback.go, worker.go).
THEOREM PlaybacksCorrect == PlayerSpec => []PlaybacksAreWhole
<1>1. PlInvariant /\ [PlayerNext]_playerVars => PlInvariant'
  BY PlStep
<1> QED
  BY PlInitial, <1>1, PlImplies, PTL DEF PlayerSpec

-----------------------------------------------------------------------------
(***************************************************************************)
(* Who is told of: the marks, and the numbers not given out yet.            *)
(***************************************************************************)
Watched == marked \cup {q \in Id : q >= nextId}
FailedNow(p) == work.at = "failed" /\ p = work.id

EndIsTold(p) ==
  Ends(p) => \/ told'[p] = 1
             \/ work.at = "handle" /\ call.kind # "position"
             \/ work.at \in {"fill", "restart"} /\ call'.at = "answered" /\ call'.refused = p

LEMMA ToldIs ==
    ToldInv <=> /\ told \in [Id -> 0 .. 1]
                /\ \A p \in Watched : told[p] = IF FailedNow(p) THEN 1 ELSE 0
BY DEF ToldInv, Watched, FailedNow

LEMMA ToldStays ==
    ASSUME ToldInv, told' = told, Watched' \subseteq Watched, \A p \in Watched' : FailedNow(p)' <=> FailedNow(p)
    PROVE  ToldInv'
<1>1. told' \in [Id -> 0 .. 1] /\ \A p \in Watched' : told'[p] = IF FailedNow(p)' THEN 1 ELSE 0
  BY ToldIs
<1> QED
  BY <1>1 DEF ToldInv, Watched, FailedNow, Id

LEMMA NobodyEnds ==
    ASSUME Playing \subseteq Playing'
    PROVE  \A p \in Id : EndIsTold(p)
BY DEF EndIsTold, Ends

\* A step that tells nobody, and ends nobody.
LEMMA QuietTold ==
    ASSUME ToldInv, told' = told, Watched' \subseteq Watched, Playing \subseteq Playing',
           work' = work \/ (work.at # "failed" /\ work'.at # "failed")
    PROVE  ToldInv' /\ \A p \in Id : EndIsTold(p)
<1>1. \A p \in Watched' : FailedNow(p)' <=> FailedNow(p)
  BY DEF FailedNow
<1> QED
  BY <1>1, ToldStays, NobodyEnds

LEMMA WatchedLess ==
    ASSUME marked' \subseteq marked, nextId' = nextId
    PROVE  Watched' \subseteq Watched
BY DEF Watched, Id

LEMMA SameFiles ==
    ASSUME files' = files
    PROVE  Playing' = Playing
BY DEF Playing, Id, NoFile

\* A playback with a new file is a playback.
LEMMA FileStays ==
    ASSUME FilesInv, NEW p \in Id, NEW f, f # NoFile, files' = [files EXCEPT ![p] = f]
    PROVE  Playing \subseteq Playing'
<1>1. files'[p] = f /\ \A q \in Id \ {p} : files'[q] = files[q]
  BY DEF FilesInv
<1> QED
  BY <1>1 DEF Playing, Id, NoFile

LEMMA Unmarked ==
    ASSUME PlInvariant
    PROVE  /\ Playing \subseteq marked /\ Playing \subseteq Watched
           /\ \A p \in Playing : ~(p >= nextId)
<1>1. Playing \subseteq marked /\ marked \subseteq 1 .. nextId - 1 /\ nextId \in Nat
  BY InvIs, PlayerNumbers DEF MarksInv, PlayerTypes
<1> QED
  BY <1>1 DEF Watched

LEMMA BacksAre ==
    ASSUME PlInvariant, work.at \in {"recover", "handle", "fill", "restart", "failed"}
    PROVE  work.back.at \in {"select", "refill"}
BY InvIs, HandledRests, BackAt

\* Playbacks that end in a report.
LEMMA Reports ==
    ASSUME PlInvariant, ToldInv, NEW ids \in SUBSET Playing, Report(ids), Close(ids),
           marked' = marked \ ids, nextId' = nextId, work.at # "failed", work'.at # "failed"
    PROVE  ToldInv' /\ \A p \in Id : EndIsTold(p)
<1>1. told \in [Id -> 0 .. 1] /\ \A p \in Watched : told[p] = 0
  BY ToldIs DEF FailedNow
<1>2. told' = [p \in Id |-> IF p \notin ids THEN told[p] ELSE IF told[p] = 0 THEN 1 ELSE 2]
  BY DEF Report
<1>3. Watched' \subseteq Watched \ ids /\ ids \subseteq Watched
  <2>1. \A p \in ids : p \notin {q \in Id : q >= nextId} /\ p \in Watched
    BY Unmarked
  <2> QED
    BY <2>1 DEF Watched, Id
<1>4. \A p \in ids : told'[p] = 1
  <2>1. ids \subseteq Id
    BY InvIs, PlayingFiles
  <2> QED
    BY <1>1, <1>2, <1>3, <2>1
<1>5. told' \in [Id -> 0 .. 1]
  <2>1. \A p \in Id : told'[p] \in 0 .. 1
    BY <1>1, <1>2, <1>3
  <2> QED
    BY <1>2, <2>1
<1>6. \A p \in Watched' : told'[p] = 0
  <2>1. Watched \subseteq Id
    BY InvIs, PendingIs, PlayingFiles DEF Watched, MarksInv
  <2> QED
    BY <1>1, <1>2, <1>3, <2>1
<1>7. ToldInv'
  BY <1>5, <1>6 DEF ToldInv, Watched, Id
<1>8. Playing' = Playing \ ids
  BY InvIs, PlaybacksClose
<1> QED
  BY <1>4, <1>7, <1>8 DEF EndIsTold, Ends

LEMMA RecoveredAt ==
    ASSUME PlInvariant, work.at = "recover", Recovered \/ Unrecovered
    PROVE  work'.at \in {"select", "refill", "fade", "handle"}
<1>1. CASE Unrecovered
  BY <1>1, BacksAre DEF Unrecovered
<1>2. CASE Recovered
  <2>1. CASE work.then = "fade"
    BY <1>2, <2>1 DEF Recovered, Rest
  <2>2. CASE work.then # "fade"
    <3>1. work' = [work EXCEPT !.at = "handle"] /\ work \in Recovers
      BY <1>2, <2>2, InvIs, WorkAt DEF Recovered
    <3> QED
      BY <3>1 DEF Recovers
  <2> QED
    BY <2>1, <2>2
<1> QED
  BY <1>1, <1>2

LEMMA RecoverTold ==
    ASSUME PlInvariant, ToldInv, RecoverCriticalError
    PROVE  ToldInv' /\ \A p \in Id : EndIsTold(p)
<1>1. /\ work.at = "recover" /\ Close(Playing) /\ marked' = marked \ Playing /\ Report(Playing) /\ nextId' = nextId
      /\ Recovered \/ Unrecovered
  BY DEF RecoverCriticalError, Casualties
<1>2. work'.at # "failed"
  BY <1>1, RecoveredAt
<1> QED
  BY <1>1, <1>2, Reports

LEMMA FadeOutTold ==
    ASSUME PlInvariant, ToldInv, NEW p \in Id, FadeOut(p)
    PROVE  ToldInv' /\ \A q \in Id : EndIsTold(q)
<1>1. work.at = "fade" /\ p \in Playing /\ Report({p}) /\ Close({p}) /\ marked' = marked \ {p} /\ nextId' = nextId /\ work' = work
  BY DEF FadeOut
<1>2. {p} \in SUBSET Playing /\ work'.at # "failed" /\ work.at # "failed"
  BY <1>1
<1> QED
  BY <1>1, <1>2, Reports

LEMMA FillFailsTold ==
    ASSUME PlInvariant, ToldInv, FillFails
    PROVE  ToldInv' /\ \A p \in Id : EndIsTold(p)
<1> DEFINE id == work.id
<1>0. /\ work.at \in {"fill", "restart"} /\ UNCHANGED <<marked, nextId>> /\ work \in Fills /\ id \in Playing
      /\ Watched' = Watched
  BY InvIs, WorkAt DEF FillFails, WorkInv, Watched, Id
<1>1. CASE work.starting
  <2>1. Close({id}) /\ Answer(FALSE) /\ work' = work.back /\ told' = told
    BY <1>1 DEF FillFails, Silent
  <2>2. call'.at = "answered" /\ call'.refused = id
    <3>1. call.kind = "play" /\ id = call.id
      BY <1>0, <1>1, InvIs DEF MarksInv, Starting
    <3> QED
      BY <2>1, <3>1 DEF Answer
  <2>3. Playing' = Playing \ {id}
    BY <1>0, <2>1, InvIs, PlaybacksClose
  <2>4. ToldInv'
    BY <1>0, <2>1, BacksAre, ToldStays DEF FailedNow
  <2> QED
    BY <1>0, <2>2, <2>3, <2>4 DEF EndIsTold, Ends
<1>2. CASE ~work.starting
  <2>1. Report({id}) /\ work' = [work EXCEPT !.at = "failed"] /\ files' = files
    BY <1>2 DEF FillFails, fileVars
  <2>2. work'.at = "failed" /\ work'.id = id
    BY <1>0, <2>1 DEF Fills
  <2>3. told \in [Id -> 0 .. 1] /\ (\A p \in Watched : told[p] = 0) /\ id \in Watched
    BY <1>0, ToldIs, Unmarked DEF FailedNow
  <2>4. told' = [p \in Id |-> IF p \notin {id} THEN told[p] ELSE IF told[p] = 0 THEN 1 ELSE 2]
    BY <2>1 DEF Report
  <2>5. id \in Id /\ Watched \subseteq Id
    BY <1>0, InvIs, PendingIs, PlayingFiles DEF Watched, MarksInv
  <2>6. told' \in [Id -> 0 .. 1] /\ told'[id] = 1 /\ \A p \in Watched \ {id} : told'[p] = 0
    BY <2>3, <2>4, <2>5
  <2>7. ToldInv'
    <3>1. \A p \in Watched' : told'[p] = IF FailedNow(p)' THEN 1 ELSE 0
      BY <1>0, <2>2, <2>6 DEF FailedNow
    <3> QED
      BY <2>6, <3>1 DEF ToldInv, Watched, FailedNow, Id
  <2>8. Playing' = Playing
    BY <2>1, SameFiles
  <2> QED
    BY <2>7, <2>8, NobodyEnds
<1> QED
  BY <1>0, <1>1, <1>2 DEF Fills

LEMMA CloseFailedTold ==
    ASSUME PlInvariant, ToldInv, CloseFailed
    PROVE  ToldInv' /\ \A p \in Id : EndIsTold(p)
<1> DEFINE id == work.id
<1>0. /\ work.at = "failed" /\ Close({id}) /\ marked' = marked \ {id} /\ PollsCommand /\ nextId' = nextId /\ told' = told
      /\ id \in Playing
  BY InvIs DEF CloseFailed, WorkInv
<1>1. work'.at # "failed"
  BY <1>0, BacksAre DEF PollsCommand
<1>2. Watched' \subseteq Watched \ {id} /\ id \in Watched
  <2>1. ~(id >= nextId) /\ id \in Watched
    BY <1>0, Unmarked
  <2> QED
    BY <1>0, <2>1 DEF Watched, Id
<1>3. ToldInv'
  BY <1>0, <1>1, <1>2, ToldStays DEF FailedNow
<1>4. Playing' = Playing \ {id}
  BY <1>0, InvIs, PlaybacksClose
<1>5. told'[id] = 1
  BY <1>0, <1>2, ToldIs DEF FailedNow
<1> QED
  BY <1>3, <1>4, <1>5 DEF EndIsTold, Ends

LEMMA PlaybackStartsTold ==
    ASSUME PlInvariant, ToldInv, PlaybackStarts
    PROVE  ToldInv' /\ \A p \in Id : EndIsTold(p)
<1> DEFINE id == work.id
<1>0. /\ work.at = "fill" /\ work.starting /\ UNCHANGED <<marked, nextId, told>> /\ id \in Playing /\ work' = work.back
      /\ Watched' = Watched /\ work'.at # "failed"
  BY InvIs, BacksAre DEF PlaybackStarts, Filled, Filling, WorkInv, Watched, Id
<1>1. ToldInv'
  BY <1>0, ToldStays DEF FailedNow
<1>2. CASE File.eof /\ File.held = << >>
  <2>1. Close({id}) /\ Answer(FALSE)
    BY <1>2 DEF PlaybackStarts
  <2>2. call'.at = "answered" /\ call'.refused = id
    <3>1. call.kind = "play" /\ id = call.id
      BY <1>0, InvIs DEF MarksInv, Starting
    <3> QED
      BY <2>1, <3>1 DEF Answer
  <2>3. Playing' = Playing \ {id}
    BY <1>0, <2>1, InvIs, PlaybacksClose
  <2> QED
    BY <1>0, <1>1, <2>2, <2>3 DEF EndIsTold, Ends
<1>3. CASE ~(File.eof /\ File.held = << >>)
  <2>1. Playing' = Playing
    BY <1>3, SameFiles DEF PlaybackStarts, fileVars
  <2> QED
    BY <1>1, <2>1, NobodyEnds
<1> QED
  BY <1>2, <1>3

\* What the game ends itself it need not be told.
LEMMA StoppedTold ==
    ASSUME PlInvariant, ToldInv, StopPlaybacks \/ HandleShutdown
    PROVE  ToldInv' /\ \A p \in Id : EndIsTold(p)
<1>1. /\ work.at = "handle" /\ call.kind \in {"stop", "shutdown"} /\ marked' \subseteq marked /\ nextId' = nextId /\ told' = told
      /\ work' = work.back \/ work' = Rest("stopped")
  BY DEF StopPlaybacks, HandleShutdown, Handles, Handled
<1>2. work'.at # "failed"
  BY <1>1, BacksAre DEF Rest
<1>3. ToldInv'
  BY <1>1, <1>2, WatchedLess, ToldStays DEF FailedNow
<1> QED
  BY <1>1, <1>3 DEF EndIsTold

LEMMA ReclaimTold ==
    ASSUME PlInvariant, ToldInv, Reclaim
    PROVE  ToldInv' /\ \A p \in Id : EndIsTold(p)
<1> DEFINE id == work.id
           f == Reclaimed
<1>0. work.at = "free" /\ work'.at # "failed" /\ nextId' = nextId /\ id \in Playing /\ {id} \in SUBSET Playing
  BY InvIs DEF Reclaim, WorkInv
<1>1. CASE f.eof /\ f.held = << >>
  <2>1. Close({id}) /\ marked' = marked \ {id} /\ Report({id})
    BY <1>1 DEF Reclaim
  <2> QED
    BY <1>0, <2>1, Reports
<1>2. CASE ~(f.eof /\ f.held = << >>)
  <2>1. files' = [files EXCEPT ![id] = f] /\ marked' = marked /\ told' = told
    BY <1>2 DEF Reclaim, Silent
  <2>2. f # NoFile
    <3>1. files[id] \in FileSet
      BY <1>0, InvIs, PlayingFiles
    <3>2. f.at = "open"
      BY <3>1 DEF Reclaimed, File, FileSet
    <3> QED
      BY <3>2 DEF NoFile
  <2> HIDE DEF f
  <2>3. Playing \subseteq Playing'
    BY <1>0, <2>1, <2>2, InvIs, PlayingFiles, FileStays
  <2> QED
    BY <1>0, <2>1, <2>3, WatchedLess, QuietTold
<1> QED
  BY <1>1, <1>2

\* Steps that leave the files alone and tell nobody.
LEMMA IdleTold ==
    ASSUME PlInvariant, ToldInv, files' = files, told' = told, Watched' \subseteq Watched,
           work' = work \/ (work.at # "failed" /\ work'.at # "failed")
    PROVE  ToldInv' /\ \A p \in Id : EndIsTold(p)
BY SameFiles, QuietTold

LEMMA CallerTold ==
    ASSUME PlInvariant, ToldInv, Caller
    PROVE  ToldInv' /\ \A p \in Id : EndIsTold(p)
<1>1. CASE Start
  BY <1>1, WatchedLess, IdleTold DEF Start, Rest
<1>2. ASSUME NEW s \in Shapes, Play(s)
      PROVE  ToldInv' /\ \A p \in Id : EndIsTold(p)
  <2>1. nextId <= MaxPlays /\ marked' = marked \cup {nextId} /\ nextId' = nextId + 1 /\ UNCHANGED <<files, told, work>>
    BY <1>2 DEF Play, callerOnly
  <2>2. nextId \in Id /\ nextId \in Nat
    BY <2>1, InvIs, PlayerNumbers DEF PlayerTypes, Id
  <2>3. Watched' \subseteq Watched
    <3>1. \A q \in Id : q >= nextId + 1 => q >= nextId
      BY <2>2 DEF Id
    <3>2. nextId >= nextId
      BY <2>2
    <3>3. {q \in Id : q >= nextId}' = {q \in Id : q >= nextId + 1}
      BY <2>1 DEF Id
    <3> QED
      BY <2>1, <2>2, <3>1, <3>2, <3>3 DEF Watched
  <2> QED
    BY <2>1, <2>3, IdleTold
<1>3. CASE \/ \E p \in Id : SetPosition(p) \/ \E fade \in BOOLEAN : Stop(p, fade)
           \/ \E fade \in BOOLEAN : StopAll(fade)
           \/ Shutdown
  <2>1. UNCHANGED <<marked, nextId, files, told, work>>
    BY <1>3 DEF SetPosition, Stop, StopAll, Shutdown, callerOnly
  <2> QED
    BY <2>1, WatchedLess, IdleTold
<1>4. CASE Return
  <2>1. marked' \subseteq marked /\ UNCHANGED <<nextId, files, told, work>>
    BY <1>4 DEF Return, MarksAfterCall, fileVars
  <2> QED
    BY <2>1, WatchedLess, IdleTold
<1> QED
  BY <1>1, <1>2, <1>3, <1>4 DEF Caller

\* The worker's steps that touch no file.
LEMMA WorkerIdleTold ==
    ASSUME PlInvariant, ToldInv,
           \/ TakeCommand \/ TakeTick \/ NoRecovery \/ RecreateEngine \/ OpenFails \/ PositionPlayback \/ PlaybackFilled
           \/ \E p \in Id : ReadQueued(p) \/ RefillNext(p)
           \/ FadedOut \/ AllReclaimed \/ RefillDone
    PROVE  ToldInv' /\ \A p \in Id : EndIsTold(p)
<1>1. UNCHANGED <<marked, nextId, files, told>>
  BY DEF TakeCommand, TakeTick, NoRecovery, RecreateEngine, OpenFails, PositionPlayback, PlaybackFilled,
         ReadQueued, RefillNext, FadedOut, AllReclaimed, RefillDone, fileVars
<1>2. work.at # "failed" /\ work'.at # "failed"
  <2>1. CASE TakeCommand \/ TakeTick
    BY <2>1 DEF TakeCommand, TakeTick
  <2>2. CASE NoRecovery \/ RecreateEngine
    BY <2>2, RecoveredAt DEF NoRecovery, RecreateEngine
  <2>3. CASE OpenFails \/ PositionPlayback
    BY <2>3, BacksAre DEF OpenFails, PositionPlayback, Handles, Handled
  <2>4. CASE PlaybackFilled
    BY <2>4, BacksAre DEF PlaybackFilled, Filled, Filling, PollsCommand
  <2>5. CASE \E p \in Id : ReadQueued(p) \/ RefillNext(p)
    BY <2>5 DEF ReadQueued, RefillNext
  <2>6. CASE FadedOut \/ AllReclaimed \/ RefillDone
    BY <2>6 DEF FadedOut, AllReclaimed, RefillDone, Rest, RefillAt
  <2> QED
    BY <2>1, <2>2, <2>3, <2>4, <2>5, <2>6
<1> QED
  BY <1>1, <1>2, WatchedLess, IdleTold

\* The worker's steps that rewrite the file of a playback.
LEMMA WorkerFileTold ==
    ASSUME PlInvariant, ToldInv, OpenPlayback \/ ReadFrames \/ ReadEnd \/ Restart \/ SubmitLoop
    PROVE  ToldInv' /\ \A p \in Id : EndIsTold(p)
<1>1. UNCHANGED <<marked, nextId, told>> /\ work.at \in {"handle", "fill", "restart"}
  BY DEF OpenPlayback, Handles, ReadFrames, ReadEnd, Restart, SubmitLoop, Filling
<1>2. work'.at # "failed"
  <2>1. CASE OpenPlayback
    BY <2>1 DEF OpenPlayback
  <2>2. CASE ReadFrames \/ ReadEnd \/ Restart \/ SubmitLoop
    <3>1. work \in Fills
      BY <2>2, InvIs, WorkAt DEF ReadFrames, ReadEnd, Restart, SubmitLoop, Filling
    <3>2. work' = work \/ work' = [work EXCEPT !.at = "restart"] \/ work' = [work EXCEPT !.at = "fill"]
      BY <2>2 DEF ReadFrames, ReadEnd, Restart, SubmitLoop, Continues
    <3> QED
      BY <1>1, <3>1, <3>2 DEF Fills
  <2> QED
    BY <2>1, <2>2
<1>3. Playing \subseteq Playing'
  <2>1. CASE OpenPlayback
    <3> DEFINE s == call.shape
               f == [at |-> "open", shape |-> s, read |-> 0, loops |-> s.loops, held |-> << >>, eof |-> FALSE,
                     fade |-> "no", plays |-> IF s.cached /\ s.loops >= 0 THEN s.loops + 1 ELSE 0]
    <3>1. files' = [files EXCEPT ![call.id] = f] /\ call.id \in Id
      BY <2>1, InvIs, PendingIs DEF OpenPlayback, Handles, WorkInv
    <3>2. f # NoFile
      <4>1. f.at = "open"
        OBVIOUS
      <4> QED
        BY <4>1 DEF NoFile
    <3> HIDE DEF f
    <3> QED
      BY <3>1, <3>2, InvIs, FileStays
  <2>2. CASE ReadFrames \/ ReadEnd \/ Restart \/ SubmitLoop
    <3> DEFINE id == work.id
    <3>1. id \in Playing /\ id \in Id /\ files[id] \in FileSet /\ FilesInv
      BY <2>2, InvIs, PlayingFiles DEF ReadFrames, ReadEnd, Restart, SubmitLoop, Filling, WorkInv
    <3>2. files'[id].at = "open" /\ \A q \in Id \ {id} : files'[q] = files[q]
      <4>1. /\ files' = [files EXCEPT ![id] = files'[id]] /\ files \in [Id -> {NoFile} \cup FileSet]
            /\ files'[id].at = files[id].at
        <5>1. files \in [Id -> {NoFile} \cup FileSet] /\ id \in Id
          BY <3>1 DEF FilesInv
        <5>2. CASE ReadFrames
          <6> DEFINE after == [files[id] EXCEPT !.read = @ + 1, !.held = Append(@, Free)]
          <6>1. files' = [files EXCEPT ![id] = Over(after)] \/ files' = [files EXCEPT ![id] = after]
            BY <5>2 DEF ReadFrames, File
          <6>2. after.at = "open" /\ Over(after).at = "open"
            BY <3>1 DEF FileSet, Over
          <6> HIDE DEF after
          <6> QED
            BY <3>1, <5>1, <6>1, <6>2 DEF FileSet
        <5>3. CASE ReadEnd
          BY <3>1, <5>1, <5>3 DEF ReadEnd, File, Over, FileSet
        <5>4. CASE Restart
          BY <3>1, <5>1, <5>4 DEF Restart, File, FileSet
        <5>5. CASE SubmitLoop
          BY <3>1, <5>1, <5>5 DEF SubmitLoop, File, FileSet
        <5> QED
          BY <2>2, <5>2, <5>3, <5>4, <5>5
      <4> QED
        BY <3>1, <4>1 DEF FileSet
    <3> QED
      BY <3>2 DEF Playing, NoFile, Id
  <2> QED
    BY <2>1, <2>2
<1> QED
  BY <1>1, <1>2, <1>3, WatchedLess, QuietTold

LEMMA OthersStay ==
    ASSUME PlInvariant, (\E p \in Id : DevicePlays(p) \/ FadeElapses(p)) \/ CriticalError \/ Tick \/ UNCHANGED playerVars
    PROVE  Playing \subseteq Playing'
<1>1. CASE files' = files
  BY <1>1, SameFiles
<1>2. ASSUME NEW p \in Id, FadeElapses(p)
      PROVE  Playing \subseteq Playing'
  <2>1. files[p] \in FileSet /\ FilesInv /\ files' = [files EXCEPT ![p] = [files[p] EXCEPT !.fade = "gone"]]
    BY <1>2, InvIs, PlayingFiles DEF FadeElapses
  <2>2. [files[p] EXCEPT !.fade = "gone"] # NoFile
    <3>1. [files[p] EXCEPT !.fade = "gone"].at = "open"
      BY <2>1 DEF FileSet
    <3> QED
      BY <3>1 DEF NoFile
  <2> QED
    BY <2>1, <2>2, FileStays
<1> QED
  BY <1>1, <1>2 DEF DevicePlays, CriticalError, Tick, playerVars, fileVars

LEMMA OthersTold ==
    ASSUME PlInvariant, ToldInv, (\E p \in Id : DevicePlays(p) \/ FadeElapses(p)) \/ CriticalError \/ Tick \/ UNCHANGED playerVars
    PROVE  ToldInv' /\ \A p \in Id : EndIsTold(p)
<1>1. UNCHANGED <<marked, nextId, told, work>>
  BY DEF DevicePlays, FadeElapses, CriticalError, Tick, playerVars
<1> QED
  BY <1>1, OthersStay, WatchedLess, QuietTold

LEMMA ToldStep ==
    ASSUME PlInvariant, ToldInv, [PlayerNext]_playerVars
    PROVE  ToldInv' /\ \A p \in Id : EndIsTold(p)
<1>1. CASE Worker
  BY <1>1, RecoverTold, FadeOutTold, FillFailsTold, CloseFailedTold, PlaybackStartsTold, StoppedTold, ReclaimTold,
     WorkerIdleTold, WorkerFileTold DEF Worker
<1> QED
  BY <1>1, CallerTold, OthersTold DEF PlayerNext

LEMMA ToldInitially == PlayerInit => ToldInv
BY DEF PlayerInit, ToldInv, Rest

-----------------------------------------------------------------------------
(***************************************************************************)
(* What was heard: sums of queues.                                          *)
(***************************************************************************)
LEMMA NothingAdds == AddsUp(<< >>, 0)
<1> DEFINE sum == [i \in 0 .. 0 |-> 0]
<1>1. sum \in [0 .. Len(<< >>) -> Int] /\ sum[0] = 0 /\ sum[Len(<< >>)] = 0
  OBVIOUS
<1>2. \A i \in 1 .. Len(<< >>) : sum[i] = sum[i - 1] + << >>[i].plays
  OBVIOUS
<1> HIDE DEF sum
<1> QED
  BY <1>1, <1>2 DEF AddsUp

LEMMA AddsNothing ==
    ASSUME NEW q, Len(q) = 0, NEW total, AddsUp(q, total)
    PROVE  total = 0
BY DEF AddsUp

LEMMA AddsAppend ==
    ASSUME NEW q \in Seq(Entry), NEW total \in Int, AddsUp(q, total), NEW e \in Entry
    PROVE  AddsUp(Append(q, e), total + e.plays)
<1> DEFINE n == Len(q)
           r == Append(q, e)
<1>1. PICK sum \in [0 .. n -> Int] : sum[0] = 0 /\ sum[n] = total /\ \A i \in 1 .. n : sum[i] = sum[i - 1] + q[i].plays
  BY DEF AddsUp
<1>2. n \in Nat /\ Len(r) = n + 1 /\ r[n + 1] = e /\ (\A i \in 1 .. n : r[i] = q[i]) /\ e.plays \in Int
  BY DEF Entry
<1> DEFINE k == e.plays
           next == [i \in 0 .. n + 1 |-> IF i = n + 1 THEN total + k ELSE sum[i]]
<1> HIDE DEF n, r
<1>3. next \in [0 .. n + 1 -> Int]
  BY <1>1, <1>2
<1>4. next[0] = 0 /\ next[n + 1] = total + k
  BY <1>1, <1>2
<1>5. \A i \in 1 .. n + 1 : next[i] = next[i - 1] + r[i].plays
  <2> SUFFICES ASSUME NEW i \in 1 .. n + 1 PROVE next[i] = next[i - 1] + r[i].plays
    OBVIOUS
  <2>1. CASE i = n + 1
    <3>1. i - 1 = n /\ n \in 0 .. n + 1 /\ n # n + 1 /\ i \in 0 .. n + 1
      BY <1>2, <2>1
    <3>2. next[i] = total + k /\ next[i - 1] = sum[n]
      BY <2>1, <3>1
    <3> QED
      BY <1>1, <1>2, <2>1, <3>2
  <2>2. CASE i # n + 1
    <3>1. i \in 1 .. n /\ i - 1 \in 0 .. n + 1 /\ i - 1 # n + 1 /\ i \in 0 .. n + 1
      BY <1>2, <2>2
    <3>2. next[i] = sum[i] /\ next[i - 1] = sum[i - 1]
      BY <2>2, <3>1
    <3> QED
      BY <1>1, <1>2, <3>1, <3>2
  <2> QED
    BY <2>1, <2>2
<1>6. Len(r) = n + 1
  BY <1>2
<1> HIDE DEF next
<1> QED
  BY <1>3, <1>4, <1>5, <1>6 DEF AddsUp, r

\* One play of the first entry.
LEMMA AddsPlayed ==
    ASSUME NEW q \in Seq(Entry), q # << >>, NEW total \in Int, AddsUp(q, total), NEW r, r = PlayedOnce(Head(q)) \o Tail(q)
    PROVE  AddsUp(r, total - 1)
<1> DEFINE n == Len(q)
           m == Len(r)
<1>0. n \in Nat /\ n # 0 /\ Head(q) = q[1] /\ (\A i \in 1 .. n : q[i].plays \in Int)
  <2>1. n \in Nat /\ n # 0 /\ Head(q) = q[1] /\ \A i \in 1 .. n : q[i] \in Entry
    BY EmptySeq
  <2> QED
    BY <2>1 DEF Entry
<1>1. PICK sum \in [0 .. n -> Int] : sum[0] = 0 /\ sum[n] = total /\ \A i \in 1 .. n : sum[i] = sum[i - 1] + q[i].plays
  BY DEF AddsUp
<1>2. /\ q[1].plays = 1 => m = n - 1 /\ \A i \in 1 .. m : r[i] = q[i + 1]
      /\ q[1].plays # 1 => /\ m = n /\ r[1].plays = q[1].plays - 1
                           /\ \A i \in 2 .. m : r[i] = q[i]
  <2>1. /\ Head(q).plays = 1 => m = n - 1 /\ \A i \in 1 .. m : r[i] = q[i + 1]
        /\ Head(q).plays # 1 =>
             /\ m = n /\ r[1].buffer = q[1].buffer /\ r[1].plays = q[1].plays - 1
             /\ \A i \in 2 .. m : r[i] = q[i]
    BY PlayedQueues
  <2> HIDE DEF n, m
  <2> QED
    BY <1>0, <2>1
<1> HIDE DEF n, m
<1>3. CASE q[1].plays = 1
  <2> DEFINE next == [i \in 0 .. m |-> sum[i + 1] - 1]
  <2>1. m \in Nat /\ n = m + 1 /\ \A i \in 1 .. m : r[i] = q[i + 1]
    <3>1. m = n - 1 /\ \A i \in 1 .. m : r[i] = q[i + 1]
      BY <1>2, <1>3
    <3>2. m \in Nat /\ n = m + 1
      BY <1>0, <3>1
    <3> QED
      BY <3>1, <3>2
  <2>2. \A i \in 0 .. m : i + 1 \in 0 .. n /\ i + 1 \in 1 .. n
    BY <2>1
  <2>3. next \in [0 .. m -> Int] /\ next[m] = total - 1
    BY <1>1, <2>1, <2>2
  <2>4. next[0] = 0
    <3>1. 1 \in 1 .. n /\ 0 \in 0 .. m
      BY <1>0, <2>1
    <3>2. sum[1] = sum[1 - 1] + q[1].plays
      BY <1>1, <3>1
    <3> QED
      BY <1>1, <1>3, <3>1, <3>2
  <2>5. \A i \in 1 .. m : next[i] = next[i - 1] + r[i].plays
    <3> SUFFICES ASSUME NEW i \in 1 .. m PROVE next[i] = next[i - 1] + r[i].plays
      OBVIOUS
    <3>1. i \in 0 .. m /\ i - 1 \in 0 .. m /\ (i - 1) + 1 = i /\ i \in 0 .. n /\ i + 1 \in 1 .. n /\ (i + 1) - 1 = i /\ i + 1 \in 0 .. n
      BY <2>1
    <3>2. sum[i + 1] = sum[i] + q[i + 1].plays
      BY <1>1, <3>1
    <3>3. next[i] = sum[i + 1] - 1 /\ next[i - 1] = sum[i] - 1
      BY <3>1
    <3>4. r[i].plays = q[i + 1].plays /\ q[i + 1].plays \in Int /\ sum[i] \in Int /\ sum[i + 1] \in Int
      BY <1>0, <1>1, <2>1, <3>1
    <3> HIDE DEF next
    <3> DEFINE x == q[i + 1].plays
           a == sum[i + 1]
           b == sum[i]
    <3>5. a = b + x /\ x \in Int /\ a \in Int /\ b \in Int /\ r[i].plays = x /\ next[i] = a - 1 /\ next[i - 1] = b - 1
      BY <3>2, <3>3, <3>4
    <3> HIDE DEF x, a, b
    <3>6. a - 1 = (b - 1) + x
      BY <3>5
    <3> QED
      BY <3>5, <3>6
  <2> HIDE DEF next
  <2> QED
    BY <2>3, <2>4, <2>5 DEF AddsUp, m
<1>4. CASE q[1].plays # 1
  <2> DEFINE next == [i \in 0 .. n |-> IF i = 0 THEN 0 ELSE sum[i] - 1]
  <2>1. m = n /\ r[1].plays = q[1].plays - 1 /\ \A i \in 2 .. n : r[i] = q[i]
    BY <1>2, <1>4
  <2>2. next \in [0 .. n -> Int] /\ next[0] = 0 /\ next[n] = total - 1
    BY <1>0, <1>1
  <2>3. \A i \in 1 .. n : next[i] = next[i - 1] + r[i].plays
    <3> SUFFICES ASSUME NEW i \in 1 .. n PROVE next[i] = next[i - 1] + r[i].plays
      OBVIOUS
    <3>1. i \in 0 .. n /\ i - 1 \in 0 .. n /\ i # 0
      BY <1>0
    <3> DEFINE x == q[i].plays
               a == sum[i]
               b == sum[i - 1]
               y == r[i].plays
               u == next[i]
               v == next[i - 1]
    <3>2. a = b + x /\ x \in Int /\ a \in Int /\ b \in Int
      BY <1>0, <1>1, <3>1
    <3>3. y = IF i = 1 THEN x - 1 ELSE x
      <4>1. i # 1 => i \in 2 .. n
        OBVIOUS
      <4> QED
        BY <2>1, <4>1
    <3>4. u = a - 1 /\ v = IF i = 1 THEN 0 ELSE b - 1
      <4>1. i - 1 = 0 <=> i = 1
        BY <3>1
      <4> QED
        BY <3>1, <4>1
    <3>5. i = 1 => b = 0
      BY <1>1
    <3> HIDE DEF a, b, x, y, u, v
    <3>6. u = v + y
      BY <3>2, <3>3, <3>4, <3>5
    <3> QED
      BY <3>6 DEF u, v, y
  <2> HIDE DEF next
  <2>4. m = n
    BY <2>1
  <2> QED
    BY <2>2, <2>3, <2>4 DEF AddsUp, m
<1> QED
  BY <1>3, <1>4

-----------------------------------------------------------------------------
(***************************************************************************)
(* What one playback is to play, through what happens to it.                *)
(***************************************************************************)
LEMMA TallyIs ==
    ASSUME NEW f \in FileSet, NEW q, NEW h
    PROVE  /\ f.shape \in Shapes /\ f.shape.cached \in BOOLEAN /\ f.shape.reads \in Nat
           /\ f.shape.loops \in Nat \cup {-1} /\ f.read \in Nat /\ f.loops \in Int /\ f.plays \in Nat
           /\ Tally(f, q, h) <=> (IF f.shape.cached THEN CachedTally(f, q, h) ELSE DecodedTally(f, q, h))
BY FilesAreFiles, PlayerNumbers DEF Tally, FileSet

LEMMA OpenTally ==
    ASSUME NEW s \in Shapes, NEW f, NEW q,
           f = [at |-> "open", shape |-> s, read |-> 0, loops |-> s.loops, held |-> << >>, eof |-> FALSE,
                fade |-> "no", plays |-> IF s.cached /\ s.loops >= 0 THEN s.loops + 1 ELSE 0],
           q = IF s.cached /\ s.loops < 0 THEN <<[buffer |-> Cached, plays |-> -1]>> ELSE << >>
    PROVE  Tally(f, q, 0)
<1>1. s.cached \in BOOLEAN /\ s.reads \in Nat /\ s.loops \in Nat \cup {-1}
  BY PlayerNumbers
<1>2. /\ f \in FileSet /\ f.shape = s /\ f.read = 0 /\ f.loops = s.loops /\ f.eof = FALSE
      /\ f.plays = IF s.cached /\ s.loops >= 0 THEN s.loops + 1 ELSE 0
  BY NewFiles
<1>3. CASE s.cached /\ s.loops < 0
  <2> DEFINE e == [buffer |-> Cached, plays |-> -1]
  <2>1. q = <<e>> /\ e.plays = -1
    BY <1>3
  <2> HIDE DEF e
  <2>2. Len(q) = 1 /\ q[1] = e
    <3>1. Len(<<e>>) = 1 /\ <<e>>[1] = e
      <4>1. e \in {e}
        OBVIOUS
      <4> QED
        BY <4>1, OneEntry
    <3> QED
      BY <2>1, <3>1
  <2>3. CachedTally(f, q, 0)
    BY <1>1, <1>2, <1>3, <2>1, <2>2 DEF CachedTally
  <2> QED
    BY <1>2, <1>3, <2>3, TallyIs
<1>4. CASE s.cached /\ ~(s.loops < 0)
  <2>1. q = << >> /\ Len(q) = 0
    BY <1>4
  <2>2. s.loops \in Nat /\ s.loops >= 0 /\ f.plays = s.loops + 1
    BY <1>1, <1>2, <1>4
  <2>3. f.shape.loops + 1 - f.plays - 0 = 0
    <3> DEFINE l == s.loops
    <3>1. f.shape.loops = l /\ f.plays = l + 1 /\ l \in Nat
      BY <1>2, <2>2
    <3> HIDE DEF l
    <3> QED
      BY <3>1
  <2>4. AddsUp(q, f.shape.loops + 1 - f.plays - 0)
    BY <2>1, <2>3, NothingAdds
  <2>5. CachedTally(f, q, 0)
    BY <1>2, <2>1, <2>2, <2>4 DEF CachedTally
  <2> QED
    BY <1>2, <1>4, <2>5, TallyIs
<1>5. CASE ~s.cached
  <2>1. q = << >> /\ Len(q) = 0
    BY <1>5
  <2> DEFINE l == s.loops
             r == s.reads
  <2>2. l \in Nat \cup {-1} /\ r \in Nat
    BY <1>1
  <2> HIDE DEF l, r
  <2>3. l >= 0 => l \in 0 .. l /\ 0 + 0 = (l - l) * r + 0
    BY <2>2
  <2>4. DecodedTally(f, q, 0)
    BY <1>1, <1>2, <2>1, <2>3 DEF DecodedTally, l, r
  <2> QED
    BY <1>2, <1>5, <2>4, TallyIs
<1> QED
  BY <1>3, <1>4, <1>5

\* A file that holds other buffers, or fades, has as much to play.
LEMMA SameTally ==
    ASSUME NEW f \in FileSet, NEW g \in FileSet, NEW q, NEW h, Tally(f, q, h),
           g.shape = f.shape, g.read = f.read, g.loops = f.loops, g.plays = f.plays,
           ~f.shape.cached /\ g.eof => f.eof \/ (g.loops = 0 /\ g.read = g.shape.reads)
    PROVE  Tally(g, q, h)
<1>1. CASE f.shape.cached
  BY <1>1, TallyIs DEF CachedTally
<1>2. CASE ~f.shape.cached
  BY <1>2, TallyIs DEF DecodedTally
<1> QED
  BY <1>1, <1>2

LEMMA ReadTally ==
    ASSUME NEW f \in FileSet, NEW g \in FileSet, NEW q \in Seq(Entry), NEW h \in Nat, Tally(f, q, h),
           NEW e \in Entry, e.plays = 1,
           ~f.shape.cached, f.read < f.shape.reads,
           g.shape = f.shape, g.read = f.read + 1, g.loops = f.loops,
           g.eof => g.loops = 0 /\ g.read = g.shape.reads
    PROVE  Tally(g, Append(q, e), h)
<1> DEFINE r == Append(q, e)
           n == Len(q)
           R == f.shape.reads
           P == (f.shape.loops - f.loops) * R
<1>0. DecodedTally(f, q, h) /\ R \in Nat /\ f.read \in Nat /\ f.loops \in Int /\ f.shape.loops \in Nat \cup {-1}
  BY TallyIs
<1>1. n \in Nat /\ Len(r) = n + 1 /\ r[n + 1] = e /\ (\A i \in 1 .. n : r[i] = q[i]) /\ P \in Int
  <2>1. n \in Nat /\ Len(r) = n + 1 /\ r[n + 1] = e /\ \A i \in 1 .. n : r[i] = q[i]
    BY AppendProperties
  <2>2. P \in Int
    <3>1. PICK a \in Int : a = f.shape.loops
      BY <1>0
    <3>2. PICK b \in Int, d \in Nat : b = f.loops /\ d = R
      BY <1>0
    <3>3. (a - b) * d \in Int
      BY <3>1, <3>2
    <3> QED
      BY <3>1, <3>2, <3>3
  <2> QED
    BY <2>1, <2>2
<1>2. /\ f.read <= R /\ (\A i \in 1 .. n : q[i].plays = 1)
      /\ f.shape.loops >= 0 => f.loops \in 0 .. f.shape.loops /\ h + n = P + f.read
      /\ f.shape.loops < 0 => f.loops < 0
  BY <1>0 DEF DecodedTally
<1> HIDE DEF n, r, P
<1>3. \A i \in 1 .. n + 1 : r[i].plays = 1
  <2>1. \A i \in 1 .. n + 1 : i = n + 1 \/ i \in 1 .. n
    BY <1>1
  <2> QED
    BY <1>1, <1>2, <2>1
<1>4. f.shape.loops >= 0 => h + (n + 1) = P + (f.read + 1)
  <2> DEFINE k == f.read
  <2>1. k \in Nat /\ (f.shape.loops >= 0 => h + n = P + k)
    BY <1>0, <1>2
  <2> HIDE DEF k
  <2>2. f.shape.loops >= 0 => h + (n + 1) = P + (k + 1)
    BY <1>1, <2>1
  <2> QED
    BY <2>2 DEF k
<1>5. g.read <= R
  BY <1>0
<1>6. DecodedTally(g, r, h)
  <2>1. Len(r) = n + 1 /\ (g.shape.loops - g.loops) * g.shape.reads = P
    BY <1>1 DEF P
  <2>2. g.shape.loops >= 0 => h + Len(r) = (g.shape.loops - g.loops) * g.shape.reads + g.read
    BY <1>4, <2>1
  <2>3. \A i \in 1 .. Len(r) : r[i].plays = 1
    BY <1>3, <2>1
  <2> QED
    BY <1>2, <1>5, <2>2, <2>3 DEF DecodedTally
<1> QED
  BY <1>6, TallyIs DEF r

\* A segment that is over, when the file is read again: one loop less is to come.
LEMMA RestartTally ==
    ASSUME NEW f \in FileSet, NEW g \in FileSet, NEW q, NEW h, Tally(f, q, h),
           ~f.shape.cached, ~f.eof, f.read = f.shape.reads, f.loops # 0,
           g.shape = f.shape, g.read = 0, g.eof = f.eof, g.loops = IF f.loops > 0 THEN f.loops - 1 ELSE f.loops
    PROVE  Tally(g, q, h)
<1> DEFINE L == f.shape.loops
           l == f.loops
           R == f.shape.reads
           k == g.loops
<1>0. DecodedTally(f, q, h) /\ R \in Nat /\ l \in Int /\ L \in Nat \cup {-1} /\ k \in Int
  BY TallyIs
<1>1. /\ l # 0 /\ k = IF l > 0 THEN l - 1 ELSE l
      /\ L >= 0 => l \in 0 .. L
      /\ L < 0 => l < 0
  BY <1>0 DEF DecodedTally
<1>2. L >= 0 => h + Len(q) = (L - l) * R + R
  BY <1>0 DEF DecodedTally
<1> HIDE DEF L, l, R, k
<1>3. L >= 0 => k \in 0 .. L /\ k = l - 1
  BY <1>0, <1>1
<1>4. L < 0 => k < 0
  BY <1>0, <1>1
<1>5. (L - l) * R + R = (L - (l - 1)) * R + 0
  BY <1>0
<1>6. L >= 0 => h + Len(q) = (L - k) * R + 0
  BY <1>2, <1>3, <1>5
<1>7. 0 <= R
  BY <1>0
<1>8. DecodedTally(g, q, h)
  BY <1>0, <1>3, <1>4, <1>6, <1>7 DEF DecodedTally, L, R, k
<1> QED
  BY <1>8, TallyIs

LEMMA SubmitTally ==
    ASSUME NEW f \in FileSet, NEW g \in FileSet, NEW q \in Seq(Entry), NEW h \in Nat, Tally(f, q, h),
           f.shape.cached, f.plays > 0, NEW k \in 1 .. f.plays, NEW e \in Entry, e.plays = k,
           g.shape = f.shape, g.plays = f.plays - k
    PROVE  Tally(g, Append(q, e), h)
<1> DEFINE r == Append(q, e)
           n == Len(q)
           L == f.shape.loops
           P == f.plays
<1>0. CachedTally(f, q, h) /\ L \in Nat \cup {-1} /\ P \in Nat /\ k \in 1 .. P /\ P > 0
  BY TallyIs
<1>1. L >= 0 /\ (\A i \in 1 .. n : q[i].plays >= 1) /\ AddsUp(q, L + 1 - P - h)
  BY <1>0 DEF CachedTally
<1>2. n \in Nat /\ Len(r) = n + 1 /\ r[n + 1] = e /\ (\A i \in 1 .. n : r[i] = q[i])
  OBVIOUS
<1>6. g.shape.loops = L /\ g.plays = P - k
  OBVIOUS
<1> HIDE DEF n, L, P
<1>3. \A i \in 1 .. n + 1 : r[i].plays >= 1
  <2>1. \A i \in 1 .. n + 1 : i = n + 1 \/ i \in 1 .. n
    BY <1>2
  <2>2. e.plays >= 1
    BY <1>0
  <2> QED
    BY <1>1, <1>2, <2>1, <2>2
<1>4. AddsUp(r, L + 1 - (P - k) - h)
  <2> DEFINE t == L + 1 - P - h
  <2>1. t \in Int /\ t + k = L + 1 - (P - k) - h
    BY <1>0
  <2> HIDE DEF t
  <2>2. AddsUp(q, t)
    BY <1>1 DEF t
  <2>3. AddsUp(Append(q, e), t + e.plays)
    BY <2>1, <2>2, AddsAppend
  <2> QED
    BY <2>1, <2>3
<1> HIDE DEF r
<1>5. CachedTally(g, r, h)
  BY <1>1, <1>2, <1>3, <1>4, <1>6 DEF CachedTally
<1> QED
  BY <1>5, TallyIs DEF r

\* The device plays the first of the queue once.
LEMMA PlayTally ==
    ASSUME NEW f \in FileSet, NEW q \in Seq(Entry), NEW h \in Nat, Tally(f, q, h), q # << >>, Head(q).plays # -1,
           NEW r, r = PlayedOnce(Head(q)) \o Tail(q)
    PROVE  Tally(f, r, h + 1)
<1> DEFINE n == Len(q)
           m == Len(r)
<1>0. /\ r \in Seq(Entry)
      /\ Head(q).plays = 1 => m = n - 1 /\ \A i \in 1 .. m : r[i] = q[i + 1]
      /\ Head(q).plays # 1 =>
           /\ m = n /\ r[1].buffer = q[1].buffer /\ r[1].plays = q[1].plays - 1
           /\ \A i \in 2 .. m : r[i] = q[i]
  BY PlayedQueues
<1>1. n \in Nat /\ n # 0 /\ Head(q) = q[1] /\ m \in Nat /\ \A i \in 1 .. n : q[i].plays \in Int
  <2>1. n \in Nat /\ n # 0 /\ Head(q) = q[1] /\ m \in Nat /\ \A i \in 1 .. n : q[i] \in Entry
    BY <1>0, EmptySeq
  <2> QED
    BY <2>1 DEF Entry
<1>2. 1 \in 1 .. n
  BY <1>1
<1>3. CASE f.shape.cached
  <2> DEFINE L == f.shape.loops
             P == f.plays
  <2>0. CachedTally(f, q, h) /\ L \in Nat \cup {-1} /\ P \in Nat
    BY <1>3, TallyIs
  <2>1. L >= 0 /\ (\A i \in 1 .. n : q[i].plays >= 1) /\ AddsUp(q, L + 1 - P - h)
    BY <1>1, <2>0 DEF CachedTally
  <2> HIDE DEF L, P
  <2>2. AddsUp(r, L + 1 - P - (h + 1))
    <3> DEFINE t == L + 1 - P - h
    <3>1. t \in Int /\ t - 1 = L + 1 - P - (h + 1)
      BY <2>0
    <3> HIDE DEF t
    <3>2. AddsUp(q, t)
      BY <2>1 DEF t
    <3>3. AddsUp(r, t - 1)
      BY <3>1, <3>2, AddsPlayed
    <3> QED
      BY <3>1, <3>3
  <2>3. \A i \in 1 .. m : r[i].plays >= 1
    <3> HIDE DEF n, m
    <3>1. CASE Head(q).plays = 1
      <4>1. m = n - 1 /\ \A i \in 1 .. m : r[i] = q[i + 1]
        BY <1>0, <3>1
      <4>2. \A i \in 1 .. m : i + 1 \in 1 .. n
        BY <1>1, <4>1
      <4> QED
        BY <2>1, <4>1, <4>2
    <3>2. CASE Head(q).plays # 1
      <4>1. m = n /\ r[1].plays = q[1].plays - 1 /\ q[1].plays # 1 /\ \A i \in 2 .. m : r[i] = q[i]
        BY <1>0, <1>1, <3>2
      <4>2. r[1].plays >= 1
        <5> DEFINE x == q[1].plays
                   y == r[1].plays
        <5>1. x \in Int /\ x >= 1 /\ x # 1 /\ y = x - 1
          BY <1>1, <1>2, <2>1, <4>1
        <5> HIDE DEF x, y
        <5>2. y >= 1
          BY <5>1
        <5> QED
          BY <5>2 DEF y
      <4>3. \A i \in 1 .. m : i = 1 \/ i \in 2 .. m
        OBVIOUS
      <4>4. \A i \in 2 .. m : i \in 1 .. n /\ q[i].plays >= 1
        BY <2>1, <4>1
      <4> QED
        BY <4>1, <4>2, <4>3, <4>4
    <3> QED
      BY <3>1, <3>2
  <2>4. CachedTally(f, r, h + 1)
    BY <2>1, <2>2, <2>3 DEF CachedTally, L, P
  <2> QED
    BY <1>3, <2>4, TallyIs
<1>4. CASE ~f.shape.cached
  <2> DEFINE X == (f.shape.loops - f.loops) * f.shape.reads + f.read
  <2>0. DecodedTally(f, q, h)
    BY <1>4, TallyIs
  <2>1. /\ \A i \in 1 .. n : q[i].plays = 1
        /\ f.read <= f.shape.reads
        /\ f.eof => f.loops = 0 /\ f.read = f.shape.reads
        /\ f.shape.loops >= 0 => f.loops \in 0 .. f.shape.loops /\ h + n = X
        /\ f.shape.loops < 0 => f.loops < 0
    BY <2>0 DEF DecodedTally
  <2>2. m = n - 1 /\ \A i \in 1 .. m : r[i] = q[i + 1]
    BY <1>0, <1>1, <1>2, <2>1
  <2> HIDE DEF n, m, X
  <2>3. \A i \in 1 .. m : r[i].plays = 1
    <3>1. \A i \in 1 .. m : i + 1 \in 1 .. n
      BY <1>1, <2>2
    <3> QED
      BY <2>1, <2>2, <3>1
  <2>4. f.shape.loops >= 0 => h + 1 + m = X
    <3>1. h + 1 + m = h + n
      BY <1>1, <2>2
    <3> QED
      BY <2>1, <3>1
  <2>5. DecodedTally(f, r, h + 1)
    BY <2>1, <2>3, <2>4 DEF DecodedTally, X, m
  <2> QED
    BY <1>4, <2>5, TallyIs
<1> QED
  BY <1>3, <1>4

\* A file that is at its end with nothing queued was heard whole.
LEMMA WholeTally ==
    ASSUME NEW f \in FileSet, NEW q, NEW h \in Nat, Tally(f, q, h), Len(q) = 0,
           IF f.shape.cached THEN f.plays = 0 /\ f.shape.loops >= 0 ELSE f.eof
    PROVE  h = Total(f.shape)
<1> DEFINE L == f.shape.loops
           R == f.shape.reads
<1>0. L \in Nat \cup {-1} /\ R \in Nat
  BY TallyIs
<1>1. CASE f.shape.cached
  <2>1. AddsUp(q, L + 1 - f.plays - h) /\ f.plays = 0 /\ L >= 0
    BY <1>1, TallyIs DEF CachedTally
  <2>2. L + 1 - f.plays - h = 0
    BY <2>1, AddsNothing
  <2> HIDE DEF L, R
  <2>3. h = (L + 1) * 1
    BY <1>0, <2>1, <2>2
  <2> QED
    BY <1>1, <2>3 DEF Total, L
<1>2. CASE ~f.shape.cached
  <2>1. /\ f.eof /\ f.loops = 0 /\ f.read = R
        /\ L >= 0 => h + Len(q) = (L - f.loops) * R + f.read
        /\ L < 0 => f.loops < 0
    BY <1>2, TallyIs DEF DecodedTally
  <2> HIDE DEF L, R
  <2>2. h + 0 = (L - 0) * R + R
    BY <1>0, <2>1
  <2>3. h = (L + 1) * R
    BY <1>0, <2>2
  <2> QED
    BY <1>2, <2>3 DEF Total, L, R
<1> QED
  BY <1>1, <1>2

-----------------------------------------------------------------------------
(***************************************************************************)
(* What was heard, through the steps.                                       *)
(***************************************************************************)
EveryTally == \A p \in Id : Tally(files[p], queues[p], heard[p])
RestartsAtEnd ==
  work.at = "restart" =>
    ~files[work.id].shape.cached /\ ~files[work.id].eof /\ files[work.id].read = files[work.id].shape.reads
      /\ files[work.id].loops # 0
FreeIsQueued ==
  work.at = "free" => (files[work.id].shape.cached /\ files[work.id].shape.loops < 0 => work.queued >= 1)

LEMMA HeardIs == HeardInv <=> EveryTally /\ RestartsAtEnd /\ FreeIsQueued
BY DEF HeardInv, EveryTally, RestartsAtEnd, FreeIsQueued

LEMMA HeardIsNext == HeardInv' <=> EveryTally' /\ RestartsAtEnd' /\ FreeIsQueued'
BY HeardIs, PTL

\* The worker goes somewhere where it has read nothing of a playback.
Elsewhere == work'.at \notin {"restart", "free"}

LEMMA ElsewhereHeard == ASSUME EveryTally', Elsewhere PROVE HeardInv'
BY HeardIsNext DEF Elsewhere, RestartsAtEnd, FreeIsQueued

LEMMA TalliesStay ==
    ASSUME EveryTally, UNCHANGED <<files, queues, heard>>
    PROVE  EveryTally'
BY DEF EveryTally, Id

LEMMA IdleHeard ==
    ASSUME HeardInv, UNCHANGED <<files, queues, heard>>, work' = work \/ Elsewhere
    PROVE  HeardInv'
<1>1. EveryTally'
  BY HeardIs, TalliesStay
<1>2. CASE work' = work
  BY <1>1, <1>2, HeardIs, HeardIsNext DEF RestartsAtEnd, FreeIsQueued
<1> QED
  BY <1>1, <1>2, ElsewhereHeard

LEMMA ClosedHeard ==
    ASSUME HeardInv, NEW ids, Close(ids), Elsewhere
    PROVE  HeardInv'
<1>1. ASSUME NEW p \in Id
      PROVE  Tally(files'[p], queues'[p], heard'[p])
  <2>1. CASE p \in ids
    BY <2>1 DEF Close, Tally
  <2>2. CASE p \notin ids
    BY <2>2, HeardIs DEF Close, EveryTally
  <2> QED
    BY <2>1, <2>2
<1>2. EveryTally'
  BY <1>1 DEF EveryTally, Id
<1> QED
  BY <1>2, ElsewhereHeard

LEMMA OneTally ==
    ASSUME FilesInv, HeardInv, NEW p \in Id, NEW f, NEW q, NEW h, Tally(f, q, h),
           files' = [files EXCEPT ![p] = f], queues' = [queues EXCEPT ![p] = q], heard' = [heard EXCEPT ![p] = h]
    PROVE  EveryTally'
<1>1. ASSUME NEW o \in Id
      PROVE  Tally(files'[o], queues'[o], heard'[o])
  <2>1. CASE o = p
    <3>1. files'[o] = f /\ queues'[o] = q /\ heard'[o] = h
      BY <2>1 DEF FilesInv
    <3> QED
      BY <3>1
  <2>2. CASE o # p
    <3>1. files'[o] = files[o] /\ queues'[o] = queues[o] /\ heard'[o] = heard[o]
      BY <2>2 DEF FilesInv
    <3> QED
      BY <3>1, HeardIs DEF EveryTally
  <2> QED
    BY <2>1, <2>2
<1> QED
  BY <1>1 DEF EveryTally, Id

\* The file of a playback is rewritten, and nothing else.
LEMMA FileTally ==
    ASSUME FilesInv, HeardInv, NEW p \in Id, NEW f, Tally(f, queues[p], heard[p]),
           files' = [files EXCEPT ![p] = f], UNCHANGED <<queues, heard>>
    PROVE  EveryTally'
<1>1. queues' = [queues EXCEPT ![p] = queues[p]] /\ heard' = [heard EXCEPT ![p] = heard[p]]
  BY DEF FilesInv
<1> DEFINE q == queues[p]
           h == heard[p]
<1>2. Tally(f, q, h) /\ queues' = [queues EXCEPT ![p] = q] /\ heard' = [heard EXCEPT ![p] = h]
  BY <1>1
<1> HIDE DEF q, h
<1> QED
  BY <1>2, OneTally

LEMMA WorkedOn ==
    ASSUME PlInvariant, HeardInv, work.at \in {"fill", "restart", "free"}
    PROVE  LET p == work.id IN
           /\ p \in Id /\ p \in Playing /\ files[p] \in FileSet /\ queues[p] \in Seq(Entry) /\ heard[p] \in Nat
           /\ Tally(files[p], queues[p], heard[p])
<1>1. work.id \in Playing /\ FilesInv
  BY InvIs DEF WorkInv
<1> QED
  BY <1>1, FedIs, HeardIs DEF EveryTally, FilesInv

LEMMA OpenHeard ==
    ASSUME PlInvariant, HeardInv, OpenPlayback
    PROVE  HeardInv'
<1> DEFINE s == call.shape
           p == call.id
           f == [at |-> "open", shape |-> s, read |-> 0, loops |-> s.loops, held |-> << >>, eof |-> FALSE,
                 fade |-> "no", plays |-> IF s.cached /\ s.loops >= 0 THEN s.loops + 1 ELSE 0]
           q == IF s.cached /\ s.loops < 0 THEN <<[buffer |-> Cached, plays |-> -1]>> ELSE << >>
<1>1. /\ files' = [files EXCEPT ![p] = f] /\ queues' = [queues EXCEPT ![p] = q] /\ heard' = heard
      /\ work'.at = "fill" /\ work.at = "handle"
  BY DEF OpenPlayback, Handles
<1>2. p \in Id /\ s \in Shapes /\ p \notin Playing
  <2>1. call.at = "sent" /\ call.kind = "play" /\ ~Starting
    BY InvIs DEF OpenPlayback, Handles, WorkInv, Starting
  <2> QED
    BY <2>1, InvIs, PendingIs DEF MarksInv
<1>3. heard[p] = 0
  <2>1. files[p] = NoFile
    BY <1>2 DEF Playing
  <2> QED
    BY <1>2, <2>1, HeardIs DEF EveryTally, Tally
<1>4. Tally(f, q, 0)
  BY <1>2, OpenTally
<1>5. heard' = [heard EXCEPT ![p] = 0]
  BY <1>1, <1>3, InvIs DEF FilesInv
<1> HIDE DEF f, q, p
<1>6. EveryTally'
  BY <1>1, <1>2, <1>4, <1>5, InvIs, OneTally
<1> QED
  BY <1>1, <1>6, ElsewhereHeard DEF Elsewhere

LEMMA ReadEndHeard ==
    ASSUME PlInvariant, HeardInv, ReadEnd
    PROVE  HeardInv'
<1> DEFINE p == work.id
           old == files[p]
           f == Over(old)
<1>1. /\ work.at = "fill" /\ ~old.shape.cached /\ ~old.eof /\ old.read = old.shape.reads
      /\ files' = [files EXCEPT ![p] = f] /\ UNCHANGED <<queues, heard>> /\ Continues(old, TRUE)
  BY DEF ReadEnd, Filling, NeedsBuffer, File
<1>2. p \in Id /\ old \in FileSet /\ Tally(old, queues[p], heard[p]) /\ work \in Fills /\ FilesInv
  BY <1>1, WorkedOn, InvIs, WorkAt
<1>3. /\ f \in FileSet /\ f.shape = old.shape /\ f.read = old.read /\ f.loops = old.loops /\ f.eof = (f.loops = 0)
      /\ f.plays = old.plays
  <2>1. f.plays = old.plays
    BY <1>2 DEF Over, FileSet
  <2> HIDE DEF f, old
  <2>2. f = Over(old)
    BY DEF f
  <2> QED
    BY <1>2, <2>1, <2>2, OverFiles
<1>4. Tally(f, queues[p], heard[p])
  <2> HIDE DEF f, old
  <2>1. old.shape.reads = f.shape.reads /\ f.read = f.shape.reads
    BY <1>1, <1>3
  <2> QED
    BY <1>1, <1>2, <1>3, <2>1, SameTally
<1> HIDE DEF f
<1>5. EveryTally'
  BY <1>1, <1>2, <1>4, FileTally
<1>6. files'[p] = f
  BY <1>1, <1>2 DEF FilesInv
<1>7. CASE old.loops # 0
  <2>1. work' = [work EXCEPT !.at = "restart"]
    BY <1>1, <1>7 DEF Continues
  <2>2. work'.at = "restart" /\ work'.id = p
    BY <1>2, <2>1 DEF Fills
  <2>3. RestartsAtEnd' /\ FreeIsQueued'
    BY <1>1, <1>3, <1>6, <1>7, <2>2 DEF RestartsAtEnd, FreeIsQueued
  <2> QED
    BY <1>5, <2>3, HeardIsNext
<1>8. CASE old.loops = 0
  <2>1. work' = work
    BY <1>1, <1>8 DEF Continues
  <2> QED
    BY <1>1, <1>5, <2>1, ElsewhereHeard DEF Elsewhere
<1> QED
  BY <1>7, <1>8

LEMMA RestartHeard ==
    ASSUME PlInvariant, HeardInv, Restart
    PROVE  HeardInv'
<1> DEFINE p == work.id
           old == files[p]
           f == [old EXCEPT !.read = 0, !.loops = IF @ > 0 THEN @ - 1 ELSE @]
<1>1. /\ work.at = "restart" /\ files' = [files EXCEPT ![p] = f] /\ UNCHANGED <<queues, heard>>
      /\ work' = [work EXCEPT !.at = "fill"]
  BY DEF Restart, File
<1>2. p \in Id /\ old \in FileSet /\ Tally(old, queues[p], heard[p]) /\ work \in Fills /\ FilesInv
  BY <1>1, WorkedOn, InvIs, WorkAt
<1>3. ~old.shape.cached /\ ~old.eof /\ old.read = old.shape.reads /\ old.loops # 0
  BY <1>1, HeardIs DEF RestartsAtEnd
<1>4. /\ f \in FileSet /\ f.shape = old.shape /\ f.read = 0 /\ f.eof = old.eof
      /\ f.loops = IF old.loops > 0 THEN old.loops - 1 ELSE old.loops
  BY <1>2, RestartedFiles
<1> HIDE DEF f, old
<1>5. Tally(f, queues[p], heard[p])
  BY <1>2, <1>3, <1>4, RestartTally
<1>6. EveryTally'
  BY <1>1, <1>2, <1>5, FileTally
<1>7. work'.at = "fill"
  BY <1>1, <1>2 DEF Fills
<1> QED
  BY <1>6, <1>7, ElsewhereHeard DEF Elsewhere

LEMMA ReadHeard ==
    ASSUME PlInvariant, HeardInv, ReadFrames
    PROVE  HeardInv'
<1> DEFINE p == work.id
           old == files[p]
           b == Free
           e == [buffer |-> b, plays |-> 1]
           after == [old EXCEPT !.read = @ + 1, !.held = Append(@, b)]
           finished == after.read = old.shape.reads /\ ~old.shape.late
           f == IF finished THEN Over(after) ELSE after
           q == Append(queues[p], e)
<1>1. /\ work.at = "fill" /\ ~old.shape.cached /\ ~old.eof /\ old.read < old.shape.reads
      /\ files' = [files EXCEPT ![p] = f] /\ queues' = [queues EXCEPT ![p] = q]
      /\ heard' = heard /\ Continues(after, finished)
  BY DEF ReadFrames, Filling, NeedsBuffer, File
<1>2. /\ p \in Id /\ p \in Playing /\ old \in FileSet /\ queues[p] \in Seq(Entry) /\ heard[p] \in Nat
      /\ Tally(old, queues[p], heard[p]) /\ work \in Fills /\ FilesInv
  BY <1>1, WorkedOn, InvIs, WorkAt
<1>3. b \in Buffer
  <2>1. Len(old.held) <= MaxTarget
    BY <1>2, FedIs
  <2>2. b \in {p} \X (1 .. MaxTarget + 1)
    BY <1>2, <2>1, FreeIsFree DEF File
  <2> HIDE DEF b
  <2> QED
    BY <1>2, <2>2 DEF Buffer
<1> HIDE DEF b
<1>4. e \in Entry /\ e.plays = 1
  BY <1>3 DEF Entry
<1>5. after \in FileSet /\ after.shape = old.shape /\ after.read = old.read + 1 /\ after.eof = old.eof /\ after.loops = old.loops
  <2> HIDE DEF old
  <2> QED
    BY <1>2, <1>3, ReadFramesFiles
<1>6. /\ f \in FileSet /\ f.shape = old.shape /\ f.read = old.read + 1 /\ f.loops = old.loops
      /\ f.eof => f.loops = 0 /\ f.read = f.shape.reads
      /\ finished => f.read = f.shape.reads /\ f.eof = (f.loops = 0)
  <2> HIDE DEF after
  <2> USE DEF finished
  <2>1. CASE finished
    <3>1. f = Over(after) /\ after.read = old.shape.reads
      BY <2>1
    <3> HIDE DEF f, old
    <3> QED
      BY ZenonT(60), <1>5, <2>1, <3>1, OverFiles
  <2>2. CASE ~finished
    <3>1. f = after
      BY <2>2
    <3> HIDE DEF f, old
    <3> QED
      BY <1>1, <1>5, <2>2, <3>1
  <2> QED
    BY <2>1, <2>2
<1>7. work'.at # "free"
  BY <1>1, <1>2 DEF Continues, Fills
<1>8. (work'.at = "restart") => (work'.id = p /\ finished /\ after.loops # 0)
  BY <1>1, <1>2 DEF Continues, Fills
<1> HIDE DEF f, e, finished, after
<1>9. Tally(f, q, heard[p])
  <2> DEFINE r == queues[p]
             h == heard[p]
  <2>1. r \in Seq(Entry) /\ h \in Nat /\ Tally(old, r, h) /\ q = Append(r, e)
    BY <1>2
  <2> HIDE DEF r, h, old, q
  <2>2. Tally(f, Append(r, e), h)
    BY <1>1, <1>2, <1>4, <1>6, <2>1, ReadTally
  <2> QED
    BY <2>1, <2>2 DEF h
<1>10. EveryTally'
  <2>1. heard' = [heard EXCEPT ![p] = heard[p]]
    BY <1>1, <1>2 DEF FilesInv
  <2> DEFINE h == heard[p]
  <2>2. Tally(f, q, h) /\ heard' = [heard EXCEPT ![p] = h]
    BY <1>9, <2>1
  <2> HIDE DEF h, q
  <2> QED
    BY <1>1, <1>2, <2>2, OneTally
<1>11. RestartsAtEnd'
  <2>1. files'[p] = f
    BY <1>1, <1>2 DEF FilesInv
  <2>2. work'.at = "restart" =>
          work'.id = p /\ ~f.shape.cached /\ ~f.eof /\ f.read = f.shape.reads /\ f.loops # 0
    <3>1. after.loops = f.loops /\ f.shape = old.shape
      BY <1>5, <1>6
    <3> QED
      BY <1>1, <1>6, <1>8, <3>1
  <2> QED
    BY <2>1, <2>2 DEF RestartsAtEnd
<1> QED
  BY <1>7, <1>10, <1>11, HeardIsNext DEF FreeIsQueued

LEMMA SubmitHeard ==
    ASSUME PlInvariant, HeardInv, SubmitLoop
    PROVE  HeardInv'
<1> DEFINE p == work.id
           old == files[p]
           plays == IF old.plays > MaxLoop + 1 THEN MaxLoop + 1 ELSE old.plays
           f == [old EXCEPT !.plays = @ - plays]
           e == [buffer |-> Cached, plays |-> LoopCount(plays) + 1]
           q == Append(queues[p], e)
<1>1. /\ work.at = "fill" /\ old.shape.cached /\ old.plays > 0
      /\ files' = [files EXCEPT ![p].plays = @ - plays] /\ queues' = [queues EXCEPT ![p] = q]
      /\ UNCHANGED <<work, heard>>
  BY DEF SubmitLoop, Filling, NeedsLoop, File
<1>2. /\ p \in Id /\ old \in FileSet /\ queues[p] \in Seq(Entry) /\ heard[p] \in Nat
      /\ Tally(old, queues[p], heard[p]) /\ FilesInv
  BY <1>1, WorkedOn, InvIs
<1>3. old.plays \in Nat /\ plays \in 1 .. old.plays /\ plays \in Nat
  <2> DEFINE n == old.plays
  <2>1. n \in Nat /\ n > 0
    BY <1>1, <1>2 DEF FileSet
  <2> HIDE DEF old
  <2> QED
    BY <2>1, PlayerNumbers
<1>4. f \in FileSet /\ f.plays = old.plays - plays /\ f.shape = old.shape
  <2> DEFINE n == old.plays - plays
  <2>1. n \in Nat /\ f = [old EXCEPT !.plays = n]
    BY <1>3
  <2> HIDE DEF n, f
  <2>2. f \in FileSet /\ f.plays = n /\ f.shape = old.shape
    BY <1>2, <2>1 DEF FileSet
  <2> QED
    BY <2>2 DEF n
<1>5. e \in Entry /\ e.plays = plays
  <2> DEFINE n == LoopCount(plays) + 1
  <2>1. n \in Int /\ n = plays
    BY <1>3 DEF LoopCount
  <2> HIDE DEF n
  <2>2. e \in Entry /\ e.plays = n
    BY <2>1 DEF Entry, n
  <2> QED
    BY <2>1, <2>2
<1>6. files' = [files EXCEPT ![p] = f]
  BY <1>1
<1> HIDE DEF f, e, plays
<1>7. Tally(f, q, heard[p])
  <2> DEFINE r == queues[p]
             h == heard[p]
  <2>1. r \in Seq(Entry) /\ h \in Nat /\ Tally(old, r, h) /\ q = Append(r, e)
    BY <1>2
  <2> HIDE DEF r, h, old, q
  <2>2. Tally(f, Append(r, e), h)
    BY <1>1, <1>2, <1>3, <1>4, <1>5, <2>1, SubmitTally
  <2> QED
    BY <2>1, <2>2 DEF h
<1>8. EveryTally'
  <2>1. heard' = [heard EXCEPT ![p] = heard[p]]
    BY <1>1, <1>2 DEF FilesInv
  <2> DEFINE h == heard[p]
  <2>2. Tally(f, q, h) /\ heard' = [heard EXCEPT ![p] = h]
    BY <1>7, <2>1
  <2> HIDE DEF h, q
  <2> QED
    BY <1>1, <1>2, <1>6, <2>2, OneTally
<1> QED
  BY <1>1, <1>8, ElsewhereHeard DEF Elsewhere

\* Playbacks that fade are to play what they were to play, and are where they were.
LEMMA FadesHeard ==
    ASSUME PlInvariant, HeardInv, UNCHANGED <<queues, heard>>,
           \A p \in Id : files'[p] = files[p] \/ (p \in Playing /\ files'[p] \in FadesOf(files[p])),
           work' = work \/ Elsewhere
    PROVE  HeardInv'
<1>1. ASSUME NEW p \in Id
      PROVE  /\ Tally(files'[p], queues'[p], heard'[p])
             /\ p \in Playing =>
                  /\ files'[p].shape = files[p].shape /\ files'[p].read = files[p].read
                  /\ files'[p].loops = files[p].loops /\ files'[p].eof = files[p].eof
  <2>0. Tally(files[p], queues[p], heard[p])
    BY HeardIs DEF EveryTally
  <2>1. CASE files'[p] = files[p]
    BY <2>0, <2>1
  <2>2. CASE p \in Playing /\ files'[p] \in FadesOf(files[p])
    <3> DEFINE f == files[p]
               g == files'[p]
               q == queues[p]
               h == heard[p]
    <3>1. f \in FileSet /\ g \in FadesOf(f) /\ Tally(f, q, h)
      BY <2>0, <2>2, InvIs, PlayingFiles
    <3> HIDE DEF f, g, q, h
    <3>2. /\ g \in FileSet /\ g.shape = f.shape /\ g.read = f.read /\ g.loops = f.loops
          /\ g.eof = f.eof /\ g.plays = f.plays
      BY <3>1, FadedFiles
    <3>3. Tally(g, q, h)
      BY <3>1, <3>2, SameTally
    <3> QED
      BY <3>2, <3>3 DEF f, g, q, h
  <2> QED
    BY <2>1, <2>2
<1>2. EveryTally'
  BY <1>1 DEF EveryTally, Id
<1>3. CASE work' = work
  <2>1. work.at \in {"restart", "free"} => work.id \in Id /\ work.id \in Playing
    BY WorkedOn
  <2>2. RestartsAtEnd' /\ FreeIsQueued'
    BY <1>1, <1>3, <2>1, HeardIs DEF RestartsAtEnd, FreeIsQueued
  <2> QED
    BY <1>2, <2>2, HeardIsNext
<1> QED
  BY <1>2, <1>3, ElsewhereHeard

LEMMA StopHeard ==
    ASSUME PlInvariant, HeardInv, StopPlaybacks
    PROVE  HeardInv'
<1>1. Elsewhere
  BY BacksAre DEF StopPlaybacks, Handles, Handled, Elsewhere
<1>2. CASE call.fade
  <2>1. /\ files' = [p \in Id |-> IF p \in call.ids \cap Playing THEN [files[p] EXCEPT !.fade = "fading"] ELSE files[p]]
        /\ UNCHANGED <<queues, heard>>
    BY <1>2 DEF StopPlaybacks
  <2>2. \A p \in Id : files'[p] = files[p] \/ (p \in Playing /\ files'[p] \in FadesOf(files[p]))
    BY <2>1 DEF FadesOf
  <2> QED
    BY <1>1, <2>1, <2>2, FadesHeard
<1>3. CASE ~call.fade
  <2>1. Close(call.ids \cap Playing)
    BY <1>3 DEF StopPlaybacks
  <2> QED
    BY <1>1, <2>1, ClosedHeard
<1> QED
  BY <1>2, <1>3

LEMMA FadeElapsesHeard ==
    ASSUME PlInvariant, HeardInv, NEW p \in Id, FadeElapses(p)
    PROVE  HeardInv'
<1>1. /\ p \in Playing /\ files' = [files EXCEPT ![p] = [files[p] EXCEPT !.fade = "gone"]]
      /\ UNCHANGED <<queues, work, heard>>
  BY DEF FadeElapses
<1>2. \A o \in Id : files'[o] = files[o] \/ (o \in Playing /\ files'[o] \in FadesOf(files[o]))
  BY <1>1, InvIs DEF FadesOf, FilesInv
<1> QED
  BY <1>1, <1>2, FadesHeard

\* The steps that close playbacks, but for their reclaiming.
LEMMA ClosingHeard ==
    ASSUME PlInvariant, HeardInv,
           \/ RecoverCriticalError \/ HandleShutdown \/ FillFails \/ CloseFailed \/ PlaybackStarts
           \/ \E p \in Id : FadeOut(p)
    PROVE  HeardInv'
<1>1. CASE RecoverCriticalError
  <2>1. Close(Playing) /\ Elsewhere
    BY <1>1, RecoveredAt DEF RecoverCriticalError, Casualties, Elsewhere
  <2> QED
    BY <2>1, ClosedHeard
<1>2. CASE HandleShutdown
  <2>1. Close(Playing) /\ Elsewhere
    BY <1>2 DEF HandleShutdown, Elsewhere, Rest
  <2> QED
    BY <2>1, ClosedHeard
<1>3. CASE FillFails
  <2>1. CASE work.starting
    <3>1. Close({work.id}) /\ Elsewhere
      BY <1>3, <2>1, BacksAre DEF FillFails, Elsewhere
    <3> QED
      BY <3>1, ClosedHeard
  <2>2. CASE ~work.starting
    <3>1. UNCHANGED <<files, queues, heard>> /\ work' = [work EXCEPT !.at = "failed"] /\ work \in Fills
      BY <1>3, <2>2, InvIs, WorkAt DEF FillFails, fileVars
    <3>2. Elsewhere
      BY <3>1 DEF Fills, Elsewhere
    <3> QED
      BY <3>1, <3>2, IdleHeard
  <2> QED
    BY <2>1, <2>2
<1>4. CASE CloseFailed
  <2>1. Close({work.id}) /\ Elsewhere
    BY <1>4, BacksAre DEF CloseFailed, PollsCommand, Elsewhere
  <2> QED
    BY <2>1, ClosedHeard
<1>5. CASE PlaybackStarts
  <2>1. Elsewhere /\ (Close({work.id}) \/ UNCHANGED <<files, queues, heard>>)
    BY <1>5, BacksAre DEF PlaybackStarts, Filled, Filling, Elsewhere, fileVars
  <2> QED
    BY <2>1, ClosedHeard, IdleHeard
<1>6. ASSUME NEW p \in Id, FadeOut(p)
      PROVE  HeardInv'
  <2>1. Close({p}) /\ Elsewhere
    BY <1>6 DEF FadeOut, Elsewhere
  <2> QED
    BY <2>1, ClosedHeard
<1> QED
  BY <1>1, <1>2, <1>3, <1>4, <1>5, <1>6

LEMMA ReadQueuedHeard ==
    ASSUME PlInvariant, HeardInv, NEW p \in Id, ReadQueued(p)
    PROVE  HeardInv'
<1>1. /\ UNCHANGED <<files, queues, heard>> /\ work'.at = "free" /\ work'.id = p /\ work'.queued = Len(queues[p])
      /\ p \in Playing
  BY InvIs DEF ReadQueued, fileVars, WorkInv
<1>2. EveryTally'
  BY <1>1, HeardIs, TalliesStay
<1>3. files[p].shape.cached /\ files[p].shape.loops < 0 => Len(queues[p]) >= 1
  <2>1. Tally(files[p], queues[p], heard[p]) /\ files[p] \in FileSet
    BY <1>1, InvIs, PlayingFiles, HeardIs DEF EveryTally
  <2> DEFINE f == files[p]
             q == queues[p]
             h == heard[p]
  <2> HIDE DEF f, q, h
  <2>2. f \in FileSet /\ Tally(f, q, h)
    BY <2>1 DEF f, q, h
  <2>3. f.shape.cached /\ f.shape.loops < 0 => Len(q) = 1
    <3>1. f.shape.loops \in Nat \cup {-1}
      BY <2>2, TallyIs
    <3> QED
      BY <2>2, <3>1, TallyIs DEF CachedTally
  <2>4. f.shape.cached /\ f.shape.loops < 0 => Len(q) >= 1
    <3>1. 1 >= 1
      OBVIOUS
    <3> QED
      BY <2>3, <3>1
  <2> QED
    BY <2>4 DEF f, q
<1>4. RestartsAtEnd' /\ FreeIsQueued'
  BY <1>1, <1>3 DEF RestartsAtEnd, FreeIsQueued
<1> QED
  BY <1>2, <1>4, HeardIsNext

LEMMA DevicePlaysHeard ==
    ASSUME PlInvariant, HeardInv, NEW p \in Id, DevicePlays(p)
    PROVE  HeardInv'
<1> DEFINE f == files[p]
           q == queues[p]
           h == heard[p]
           r == PlayedOnce(Head(q)) \o Tail(q)
<1>1. /\ q # << >> /\ Head(q).plays # -1 /\ queues' = [queues EXCEPT ![p] = r]
      /\ heard' = [heard EXCEPT ![p] = h + 1] /\ UNCHANGED <<files, work>>
  BY DEF DevicePlays
<1>2. p \in Playing
  <2>1. p \notin Playing => q = << >>
    BY InvIs, PlayingFiles DEF FilesInv, Fed
  <2> QED
    BY <1>1, <2>1
<1>3. f \in FileSet /\ q \in Seq(Entry) /\ h \in Nat /\ Tally(f, q, h)
  BY <1>2, InvIs, FedIs, HeardIs DEF EveryTally, FilesInv
<1>4. files' = [files EXCEPT ![p] = f]
  BY <1>1, InvIs DEF FilesInv
<1> HIDE DEF f, q, h
<1>5. Tally(f, r, h + 1)
  BY <1>1, <1>3, PlayTally
<1> HIDE DEF r
<1>6. EveryTally'
  <2> DEFINE k == h + 1
  <2>1. Tally(f, r, k) /\ heard' = [heard EXCEPT ![p] = k]
    BY <1>1, <1>5
  <2> HIDE DEF k
  <2> QED
    BY <1>1, <1>4, <2>1, InvIs, OneTally
<1>7. RestartsAtEnd' /\ FreeIsQueued'
  BY <1>1, HeardIs DEF RestartsAtEnd, FreeIsQueued
<1> QED
  BY <1>6, <1>7, HeardIsNext

\* A playback that is reclaimed at its end was heard whole.
EndIsHeard(p) == Ends(p) /\ work.at = "free" /\ files[p].fade = "no" => heard[p] = Total(files[p].shape)

LEMMA ReclaimHeard ==
    ASSUME PlInvariant, HeardInv, Reclaim
    PROVE  HeardInv' /\ \A p \in Id : EndIsHeard(p)
<1> DEFINE id == work.id
           old == files[id]
           n == work.queued
           f == Reclaimed
           q == queues[id]
           h == heard[id]
<1>0. /\ work.at = "free" /\ id \in Playing /\ id \in Id /\ old \in FileSet /\ q \in Seq(Entry) /\ h \in Nat
      /\ Tally(old, q, h) /\ n \in Nat /\ Len(q) <= n /\ (~old.shape.cached => n <= Len(old.held))
      /\ Elsewhere
  BY InvIs, WorkedOn, WorkAt DEF Reclaim, WorkInv, Frees, Elsewhere
<1>1. CASE f.eof /\ f.held = << >>
  <2>1. Close({id})
    BY <1>1 DEF Reclaim
  <2>2. HeardInv'
    BY <1>0, <2>1, ClosedHeard
  <2>3. Playing' = Playing \ {id}
    BY <1>0, <2>1, InvIs, PlaybacksClose
  <2>4. Len(q) = 0 /\ IF old.shape.cached THEN old.plays = 0 /\ old.shape.loops >= 0 ELSE old.eof
    <3>1. CASE old.shape.cached
      <4> DEFINE b == (n = 0 /\ old.plays = 0)
      <4>1. f = [old EXCEPT !.eof = b]
        BY <3>1 DEF Reclaimed, File
      <4> HIDE DEF b, f
      <4>2. f.eof = b
        BY <1>0, <4>1 DEF FileSet
      <4>3. n = 0 /\ old.plays = 0
        BY <1>1, <4>2 DEF b
      <4>4. ~(old.shape.loops < 0)
        BY <1>0, <3>1, <4>3, HeardIs DEF FreeIsQueued
      <4>5. old.shape.loops \in Nat \cup {-1}
        BY <1>0, TallyIs
      <4>6. Len(q) = 0
        <5> DEFINE m == Len(q)
        <5>1. m \in Nat /\ m <= 0
          BY <1>0, <4>3
        <5> HIDE DEF m
        <5>2. m = 0
          BY <5>1
        <5> QED
          BY <5>2 DEF m
      <4> QED
        BY <3>1, <4>3, <4>4, <4>5, <4>6
    <3>2. CASE ~old.shape.cached
      <4> DEFINE k == old.held
                 g == SubSeq(k, Len(k) - n + 1, Len(k))
      <4>1. f = [old EXCEPT !.held = g]
        BY <3>2 DEF Reclaimed, File, Consumed
      <4>2. k \in Seq(Buffer) /\ n \in 0 .. Len(k)
        BY <1>0, <3>2 DEF FileSet
      <4> HIDE DEF k
      <4>3. Len(g) = n
        BY <4>2, FrontGoes
      <4> HIDE DEF g, f
      <4>4. f.eof = old.eof /\ f.held = g
        BY <1>0, <4>1 DEF FileSet
      <4>5. n = 0 /\ old.eof
        BY <1>1, <4>3, <4>4
      <4>6. Len(q) = 0
        <5> DEFINE m == Len(q)
        <5>1. m \in Nat /\ m <= 0
          BY <1>0, <4>5
        <5> HIDE DEF m
        <5>2. m = 0
          BY <5>1
        <5> QED
          BY <5>2 DEF m
      <4> QED
        BY <3>2, <4>5, <4>6
    <3> QED
      BY <3>1, <3>2
  <2>5. h = Total(old.shape)
    <3> HIDE DEF h, q, old
    <3> QED
      BY <1>0, <2>4, WholeTally
  <2> QED
    BY <2>2, <2>3, <2>5 DEF EndIsHeard, Ends
<1>2. CASE ~(f.eof /\ f.held = << >>)
  <2>1. files' = [files EXCEPT ![id] = f] /\ UNCHANGED <<queues, heard>>
    BY <1>2 DEF Reclaim
  <2>2. /\ f \in FileSet /\ f.shape = old.shape /\ f.read = old.read /\ f.loops = old.loops /\ f.plays = old.plays
        /\ ~old.shape.cached => f.eof = old.eof
    <3>1. CASE old.shape.cached
      <4> DEFINE b == (n = 0 /\ old.plays = 0)
      <4>1. f = [old EXCEPT !.eof = b] /\ b \in BOOLEAN
        BY <3>1 DEF Reclaimed, File
      <4> HIDE DEF b, f
      <4> QED
        BY <1>0, <3>1, <4>1 DEF FileSet
    <3>2. CASE ~old.shape.cached
      <4> DEFINE k == old.held
                 g == SubSeq(k, Len(k) - n + 1, Len(k))
      <4>1. f = [old EXCEPT !.held = g]
        BY <3>2 DEF Reclaimed, File, Consumed
      <4>2. k \in Seq(Buffer) /\ n \in 0 .. Len(k)
        BY <1>0, <3>2 DEF FileSet
      <4> HIDE DEF k
      <4>3. g \in Seq(Buffer)
        BY <4>2, FrontGoes
      <4> HIDE DEF g, f
      <4> QED
        BY <1>0, <4>1, <4>3 DEF FileSet
    <3> QED
      BY <3>1, <3>2
  <2> HIDE DEF f
  <2>3. Tally(f, q, h)
    <3> HIDE DEF old, q, h
    <3> QED
      BY <1>0, <2>2, SameTally
  <2>4. EveryTally'
    BY <1>0, <2>1, <2>3, InvIs, FileTally
  <2>5. Playing \subseteq Playing'
    BY <1>0, <2>1, <2>2, InvIs, FilesAreFiles, FileStays
  <2> QED
    BY <1>0, <2>4, <2>5, ElsewhereHeard DEF EndIsHeard, Ends
<1> QED
  BY <1>1, <1>2

\* The steps that leave files, voices and what was heard alone.
LEMMA IdlesHeard ==
    ASSUME PlInvariant, HeardInv,
           \/ Caller
           \/ TakeCommand \/ TakeTick \/ NoRecovery \/ RecreateEngine \/ OpenFails \/ PositionPlayback \/ PlaybackFilled
           \/ \E p \in Id : RefillNext(p)
           \/ FadedOut \/ AllReclaimed \/ RefillDone \/ CriticalError \/ Tick \/ UNCHANGED playerVars
    PROVE  HeardInv'
<1>1. CASE Caller
  <2>1. CASE Start
    BY <2>1, IdleHeard DEF Start, Rest, Elsewhere
  <2>2. CASE Return
    BY <2>2, IdleHeard DEF Return, fileVars
  <2>3. CASE ~(Start \/ Return)
    <3>1. UNCHANGED callerOnly
      BY <1>1, <2>3 DEF Caller, Play, SetPosition, Stop, StopAll, Shutdown
    <3> QED
      BY <3>1, IdleHeard DEF callerOnly
  <2> QED
    BY <2>1, <2>2, <2>3
<1>2. CASE CriticalError \/ Tick \/ UNCHANGED playerVars
  <2>1. UNCHANGED <<files, queues, heard, work>>
    BY <1>2 DEF CriticalError, Tick, fileVars, playerVars
  <2> QED
    BY <2>1, IdleHeard
<1>3. CASE \/ TakeCommand \/ TakeTick \/ NoRecovery \/ RecreateEngine \/ OpenFails \/ PositionPlayback \/ PlaybackFilled
           \/ \E p \in Id : RefillNext(p)
           \/ FadedOut \/ AllReclaimed \/ RefillDone
  <2>1. UNCHANGED <<files, queues, heard>>
    BY <1>3 DEF TakeCommand, TakeTick, NoRecovery, RecreateEngine, OpenFails, PositionPlayback, PlaybackFilled,
           RefillNext, FadedOut, AllReclaimed, RefillDone, fileVars
  <2>2. Elsewhere
    <3>1. CASE TakeCommand \/ TakeTick
      BY <3>1 DEF TakeCommand, TakeTick, Elsewhere
    <3>2. CASE NoRecovery \/ RecreateEngine
      BY <3>2, RecoveredAt DEF NoRecovery, RecreateEngine, Elsewhere
    <3>3. CASE OpenFails \/ PositionPlayback
      BY <3>3, BacksAre DEF OpenFails, PositionPlayback, Handles, Handled, Elsewhere
    <3>4. CASE PlaybackFilled
      BY <3>4, BacksAre DEF PlaybackFilled, Filled, Filling, PollsCommand, Elsewhere
    <3>5. CASE \E p \in Id : RefillNext(p)
      BY <3>5 DEF RefillNext, Elsewhere
    <3>6. CASE FadedOut \/ AllReclaimed \/ RefillDone
      BY <3>6 DEF FadedOut, AllReclaimed, RefillDone, Rest, RefillAt, Elsewhere
    <3> QED
      BY <1>3, <3>1, <3>2, <3>3, <3>4, <3>5, <3>6
  <2> QED
    BY <2>1, <2>2, IdleHeard
<1> QED
  BY <1>1, <1>2, <1>3

\* While one playback is being reclaimed no other step ends any.
LEMMA OnlyReclaimed ==
    ASSUME PlInvariant, [PlayerNext]_playerVars, work.at = "free", ~Reclaim
    PROVE  Playing \subseteq Playing'
<1>1. CASE Caller
  <2>1. CASE Start \/ Return
    BY <2>1, SameFiles DEF Start, Return, fileVars
  <2>2. CASE ~(Start \/ Return)
    <3>1. UNCHANGED callerOnly
      BY <1>1, <2>2 DEF Caller, Play, SetPosition, Stop, StopAll, Shutdown
    <3> QED
      BY <3>1, SameFiles DEF callerOnly
  <2> QED
    BY <2>1, <2>2
<1>2. CASE Worker
  BY <1>2 DEF Worker, TakeCommand, TakeTick, NoRecovery, RecoverCriticalError, RecreateEngine, OpenPlayback, OpenFails,
     PositionPlayback, StopPlaybacks, HandleShutdown, Handles, FillFails, CloseFailed, ReadFrames, ReadEnd, Restart,
     SubmitLoop, PlaybackStarts, PlaybackFilled, Filled, Filling, FadeOut, ReadQueued, RefillNext, FadedOut,
     AllReclaimed, RefillDone
<1> QED
  BY <1>1, <1>2, OthersStay DEF PlayerNext

LEMMA HeardStep ==
    ASSUME PlInvariant, HeardInv, [PlayerNext]_playerVars
    PROVE  HeardInv' /\ \A p \in Id : EndIsHeard(p)
<1>1. HeardInv'
  <2>1. CASE Worker
    BY <2>1, OpenHeard, ReadEndHeard, RestartHeard, ReadHeard, SubmitHeard, StopHeard, ClosingHeard, ReadQueuedHeard,
       ReclaimHeard, IdlesHeard DEF Worker
  <2> QED
    BY <2>1, DevicePlaysHeard, FadeElapsesHeard, IdlesHeard DEF PlayerNext
<1>2. \A p \in Id : EndIsHeard(p)
  <2>1. CASE Reclaim
    BY <2>1, ReclaimHeard
  <2>2. CASE ~Reclaim
    BY <2>2, OnlyReclaimed DEF EndIsHeard, Ends
  <2> QED
    BY <2>1, <2>2
<1> QED
  BY <1>1, <1>2

LEMMA HeardInitially == PlayerInit => HeardInv
BY DEF PlayerInit, HeardInv, Tally, Rest

\* A playback ends with its report, or as the game asked, and one reclaimed at its end was heard whole
\* (worker.go, reclaimFilePlaybacks; file_playback.go, restartOrMarkEOF).
THEOREM EndsAreToldOnce == PlayerSpec => EndsAreTold
<1> DEFINE Inv == PlInvariant /\ ToldInv /\ HeardInv
<1>1. PlayerInit => Inv
  BY PlInitial, ToldInitially, HeardInitially
<1>2. Inv /\ [PlayerNext]_playerVars => Inv'
  BY PlStep, ToldStep, HeardStep
<1>3. Inv /\ [PlayerNext]_playerVars =>
        [\A p \in Id :
           /\ told'[p] <= 1
           /\ Ends(p) => \/ told'[p] = 1
                         \/ work.at = "handle" /\ call.kind # "position"
                         \/ work.at \in {"fill", "restart"} /\ call'.at = "answered" /\ call'.refused = p
           /\ Ends(p) /\ work.at = "free" /\ files[p].fade = "no" => heard[p] = Total(files[p].shape)]_playerVars
  <2> SUFFICES ASSUME Inv, [PlayerNext]_playerVars, NEW p \in Id
               PROVE  /\ told'[p] <= 1
                      /\ Ends(p) => \/ told'[p] = 1
                                    \/ work.at = "handle" /\ call.kind # "position"
                                    \/ work.at \in {"fill", "restart"} /\ call'.at = "answered" /\ call'.refused = p
                      /\ Ends(p) /\ work.at = "free" /\ files[p].fade = "no" => heard[p] = Total(files[p].shape)
    OBVIOUS
  <2>1. ToldInv' /\ EndIsTold(p)
    BY ToldStep
  <2>2. EndIsHeard(p)
    BY HeardStep
  <2>3. told'[p] <= 1
    <3>1. told' \in [Id -> 0 .. 1]
      BY <2>1 DEF ToldInv, Id
    <3> QED
      BY <3>1
  <2> QED
    BY <2>1, <2>2, <2>3 DEF EndIsTold, EndIsHeard
<1> HIDE DEF Inv
<1> QED
  BY <1>1, <1>2, <1>3, PTL DEF PlayerSpec, EndsAreTold
=============================================================================
