--------------------------- MODULE AudioCacheProofs ----------------------------
(***************************************************************************)
(* The audio cache holds its budget and keeps its word for any set of       *)
(* files, of any sizes, any number of workers and playbacks, and any        *)
(* budget.                                                                  *)
(*                                                                          *)
(* A reservation is only made when it fits, and everything else moves       *)
(* bytes between the three counts or gives them up.  What has to be known   *)
(* besides is local to a worker or a capture: it never holds less than      *)
(* what it is about to commit.                                              *)
(*                                                                          *)
(* For the rest, every step moves at most one block from one holder to      *)
(* another, changes one term of one count, and starts or ends at most one   *)
(* producer; the second half of the module says so of each step.            *)
(***************************************************************************)
EXTENDS AudioCache, FiniteSetTheorems, TLAPS

Bytes == 0 .. MaxBytes

Busy == {"open", "fill", "grow", "schedule", "restart", "reacquire", "reschedule"}

WorkerType ==
    [pc : WorkerPlaces, key : Keys \union {None}, want : Bytes, res : Bytes,
     block : Blocks \union {None}, victim : Blocks \union {None},
     outcome : {"ok", "failed", "budget", "closing", "tooLarge"}]

CaptureType == [block : Blocks \union {None}, bytes : Bytes, cap : Bytes, on : BOOLEAN]

PlaybackType ==
    [key : Keys \union {None}, loop : BOOLEAN, direct : BOOLEAN,
     lease : Blocks \union {None}, capture : CaptureType]

PlayerType ==
    [at : PlayerPlaces, p : Playbacks \union {None}, creating : BOOLEAN,
     minimum : {0, 2}, want : Bytes, trash : Blocks \union {None}]

AssetTypes ==
    /\ size \in [Blocks -> Nat] /\ refs \in [Blocks -> Int]
    /\ entry \in [Keys -> Blocks \union {None}]

UsageType == usage \in [Keys -> [plays : 0 .. 2, fresh : BOOLEAN,
                                 tooLarge : BOOLEAN, backoff : BOOLEAN]]

JobTypes == building \subseteq Keys /\ queue \in Seq(Keys) /\ closing \in BOOLEAN

BookTypes == resident \in Int /\ reserved \in Int /\ reclaiming \in Int

WorkerTypes == worker \in [Workers -> WorkerType]

PlayerTypes == playback \in [Playbacks -> PlaybackType] /\ player \in PlayerType

(* The types of the state, but that a count may be negative.                *)
Shape == AssetTypes /\ UsageType /\ JobTypes /\ BookTypes /\ WorkerTypes /\ PlayerTypes

(* Which locals are set where.                                              *)
WorkerLocals(r) ==
    /\ r.pc \notin {"idle", "exited", "discard"} => r.key \in Keys
    /\ r.pc \in {"reserve", "reclaim", "allocate"} =>
          r.res + r.want <= MaxBytes /\ (r.block = None => r.res = 0)
    /\ r.pc = "open" => r.res = 0
    /\ r.pc = "reclaim" => r.victim \in Blocks
    /\ r.pc \in {"abandon", "discard"} => r.block \in Blocks
    /\ r.pc = "abandon" => r.outcome # "ok"
    /\ r.pc = "finish" /\ r.outcome = "ok" => /\ Size[r.key] <= r.res
                                             /\ r.block \in Blocks
    /\ r.pc = "decode" /\ r.key \in PcmKeys => r.block \in Blocks
    /\ r.pc \in {"open", "reserve", "reclaim", "allocate", "decode"} => r.outcome = "ok"

CaptureLocals(c) ==
    /\ c.bytes <= c.cap
    /\ c.block = None => c.cap = 0

PlayerLocals ==
    /\ player.at \in Busy => player.p \in Playbacks /\ Current.key \in Keys
    /\ player.at = "grow" => /\ Current.capture.cap + player.want <= MaxBytes
                             /\ Current.capture.bytes + 1 <= Current.capture.cap + player.want

Locals ==
    /\ \A w \in Workers : WorkerLocals(worker[w])
    /\ \A p \in Playbacks : CaptureLocals(playback[p].capture)
    /\ PlayerLocals

BudgetInv == Shape /\ Locals /\ BudgetHolds

-----------------------------------------------------------------------------
LEMMA InitBudget == Init => BudgetInv
<1> SUFFICES ASSUME Init PROVE BudgetInv
  OBVIOUS
<1> USE DEF Init
<1>1. AssetTypes /\ UsageType /\ BookTypes
  BY DEF AssetTypes, UsageType, BookTypes, NoUsage
<1>6. JobTypes
  <2>1. <<>> \in Seq(Keys)
    OBVIOUS
  <2> QED
    BY <2>1 DEF JobTypes
<1>2. WorkerTypes
  BY SizeAssumption DEF WorkerTypes, WorkerType, Resting, WorkerPlaces, Bytes
<1>3. PlayerTypes
  BY SizeAssumption DEF PlayerTypes, PlayerType, PlaybackType, CaptureType, Ready,
     NoPlayback, NoCapture, PlayerPlaces, Bytes
<1>4. Locals
  BY DEF Locals, WorkerLocals, CaptureLocals, PlayerLocals, Resting, Ready,
     NoPlayback, NoCapture, Busy
<1>5. BudgetHolds
  BY SizeAssumption DEF BudgetHolds, UsedBytes
<1> QED
  BY <1>1, <1>2, <1>3, <1>4, <1>5, <1>6 DEF BudgetInv, Shape

(* What a step of a worker, or of the player, has to keep.                  *)
LEMMA WorkerKeeps ==
    ASSUME BudgetInv, NEW w \in Workers, NEW r \in WorkerType,
           worker' = [worker EXCEPT ![w] = r], WorkerLocals(r),
           AssetTypes', UsageType', JobTypes', BookTypes', UNCHANGED playerVars,
           UsedBytes' <= UsedBytes \/ UsedBytes' <= MaxBytes
    PROVE  BudgetInv'
<1>1. WorkerTypes' /\ PlayerTypes'
  BY DEF BudgetInv, Shape, WorkerTypes, PlayerTypes, playerVars
<1>2. Locals'
  <2>1. \A v \in Workers : WorkerLocals(worker'[v])
    BY DEF BudgetInv, Locals, Shape, WorkerTypes
  <2>2. (\A p \in Playbacks : CaptureLocals(playback[p].capture))' /\ PlayerLocals'
    BY DEF BudgetInv, Locals, PlayerLocals, CaptureLocals, playerVars, Current
  <2> QED
    BY <2>1, <2>2 DEF Locals
<1>3. BudgetHolds'
  <2>1. MaxBytes \in Int /\ UsedBytes \in Int /\ UsedBytes' \in Int
    BY SizeAssumption DEF BudgetInv, Shape, BookTypes, UsedBytes
  <2>2. player' = player /\ BudgetHolds
    BY DEF playerVars, BudgetInv
  <2> QED
    BY <2>1, <2>2 DEF BudgetHolds
<1> QED
  BY <1>1, <1>2, <1>3 DEF BudgetInv, Shape

LEMMA PlayerKeeps ==
    ASSUME BudgetInv, AssetTypes', UsageType', JobTypes', BookTypes', PlayerTypes',
           UNCHANGED workerVars, PlayerLocals',
           (\A p \in Playbacks : CaptureLocals(playback[p].capture))',
           player'.at = "closed" \/ UsedBytes' <= MaxBytes
    PROVE  BudgetInv'
<1>1. WorkerTypes' /\ (\A w \in Workers : WorkerLocals(worker[w]))'
  BY DEF BudgetInv, Shape, WorkerTypes, Locals, workerVars, WorkerLocals
<1>2. BudgetHolds'
  BY DEF BudgetHolds
<1> QED
  BY <1>1, <1>2 DEF BudgetInv, Shape, Locals
-----------------------------------------------------------------------------
(* The workers.                                                             *)
LEMMA SomeBytes == /\ 0 \in Bytes /\ (MaxBytes # 0 => 1 \in Bytes)
                   /\ \A n \in Nat : n <= MaxBytes <=> n \in Bytes
                   /\ 1 .. MaxBytes \subseteq Bytes
  BY SizeAssumption DEF Bytes

LEMMA RestingType == Resting \in WorkerType /\ WorkerLocals(Resting)
  BY SizeAssumption DEF Resting, WorkerType, WorkerPlaces, Bytes, WorkerLocals

LEMMA TypeOfWorker ==
    ASSUME BudgetInv, NEW w \in Workers
    PROVE  /\ worker[w] \in WorkerType /\ WorkerLocals(worker[w])
           /\ worker[w].res \in Nat /\ worker[w].want \in Nat /\ MaxBytes \in Nat
           /\ worker[w].res <= MaxBytes /\ worker[w].want <= MaxBytes
           /\ AssetTypes /\ UsageType /\ JobTypes /\ BookTypes /\ WorkerTypes
           /\ UsedBytes \in Int
  BY SizeAssumption DEF BudgetInv, Shape, Locals, WorkerTypes, WorkerType, Bytes,
     BookTypes, UsedBytes

LEMMA DoubledBounds ==
    ASSUME NEW n \in Nat, n <= MaxBytes
    PROVE  Doubled(n) \in Nat /\ n <= Doubled(n) /\ Doubled(n) <= MaxBytes
  BY SizeAssumption DEF Doubled

(* GiveUp leaves a worker that frees what it decoded, or has nothing.       *)
LEMMA GiveUpKeeps ==
    ASSUME BudgetInv, NEW w \in Workers, worker[w].key \in Keys,
           NEW o \in {"failed", "budget", "closing", "tooLarge"}, GiveUp(w, o)
    PROVE  \E r \in WorkerType : /\ worker' = [worker EXCEPT ![w] = r]
                                 /\ WorkerLocals(r)
<1> DEFINE r == [worker[w] EXCEPT !.outcome = o, !.want = 0,
                     !.pc = IF worker[w].block = None THEN "finish" ELSE "abandon"]
<1>1. worker' = [worker EXCEPT ![w] = r]
  BY TypeOfWorker DEF GiveUp, WorkerTypes, WorkerType
<1>2. CASE worker[w].block = None
  <2>1. r = [worker[w] EXCEPT !.outcome = o, !.want = 0, !.pc = "finish"]
    BY <1>2
  <2>2. r \in WorkerType
    BY <2>1, TypeOfWorker, SomeBytes DEF WorkerType, WorkerPlaces
  <2>3. WorkerLocals(r)
    BY <2>1, TypeOfWorker DEF WorkerType, WorkerLocals
  <2> QED
    BY <1>1, <2>2, <2>3
<1>3. CASE worker[w].block # None
  <2>1. r = [worker[w] EXCEPT !.outcome = o, !.want = 0, !.pc = "abandon"]
    BY <1>3
  <2>2. r \in WorkerType
    BY <2>1, TypeOfWorker, SomeBytes DEF WorkerType, WorkerPlaces
  <2>3. WorkerLocals(r)
    BY <1>3, <2>1, TypeOfWorker DEF WorkerType, WorkerLocals
  <2> QED
    BY <1>1, <2>2, <2>3
<1> QED
  BY <1>2, <1>3

LEMMA TakeKeeps ==
    ASSUME BudgetInv, NEW w \in Workers, Take(w) PROVE BudgetInv'
<1> DEFINE r == [Resting EXCEPT !.key = Head(queue),
                     !.outcome = IF closing THEN "closing" ELSE "ok",
                     !.pc = IF closing THEN "finish" ELSE "open"]
<1>1. JobTypes' /\ Head(queue) \in Keys
  BY TypeOfWorker DEF Take, JobTypes
<1>2. r \in WorkerType /\ WorkerLocals(r)
  <2>1. CASE closing
    <3>1. r = [Resting EXCEPT !.key = Head(queue), !.outcome = "closing",
                              !.pc = "finish"]
      BY <2>1
    <3>2. r \in WorkerType
      BY <1>1, <3>1, RestingType DEF WorkerType, WorkerPlaces
    <3> QED
      BY <1>1, <3>1, <3>2 DEF Resting, WorkerLocals
  <2>2. CASE ~closing
    <3>1. r = [Resting EXCEPT !.key = Head(queue), !.outcome = "ok", !.pc = "open"]
      BY <2>2
    <3>2. r \in WorkerType
      BY <1>1, <3>1, RestingType DEF WorkerType, WorkerPlaces
    <3> QED
      BY <1>1, <3>1, <3>2 DEF Resting, WorkerLocals
  <2> QED
    BY <2>1, <2>2
<1>3. AssetTypes' /\ UsageType' /\ BookTypes' /\ UsedBytes' <= UsedBytes
  BY TypeOfWorker DEF Take, AssetTypes, UsageType, BookTypes, UsedBytes, assetVars,
     bookVars
<1> QED
  BY <1>1, <1>2, <1>3, WorkerKeeps DEF Take

LEMMA OpenKeeps ==
    ASSUME BudgetInv, NEW w \in Workers, Open(w) PROVE BudgetInv'
<1>1. \E r \in WorkerType : /\ worker' = [worker EXCEPT ![w] = r]
                            /\ WorkerLocals(r)
  <2>0. worker[w].key \in Keys
    BY TypeOfWorker DEF Open, WorkerLocals
  <2>1. CASE GiveUp(w, "failed") \/ GiveUp(w, "closing")
    BY <2>0, <2>1, GiveUpKeeps
  <2>2. ASSUME NEW n \in 1 .. MaxBytes,
               worker' = [worker EXCEPT ![w].want = n, ![w].pc = "reserve"]
        PROVE  \E r \in WorkerType : /\ worker' = [worker EXCEPT ![w] = r]
                                     /\ WorkerLocals(r)
    <3> DEFINE r == [worker[w] EXCEPT !.want = n, !.pc = "reserve"]
    <3>1. worker' = [worker EXCEPT ![w] = r]
      BY <2>2, TypeOfWorker DEF WorkerTypes, WorkerType
    <3>2. r \in WorkerType
      BY TypeOfWorker, SomeBytes DEF WorkerType, WorkerPlaces
    <3>3. worker[w].res = 0 /\ worker[w].pc = "open"
      BY TypeOfWorker DEF Open, WorkerLocals
    <3>4. WorkerLocals(r)
      BY <3>3, TypeOfWorker DEF WorkerType, WorkerLocals
    <3> QED
      BY <3>1, <3>2, <3>4
  <2> QED
    BY <2>1, <2>2 DEF Open
<1>2. AssetTypes' /\ UsageType' /\ JobTypes' /\ BookTypes' /\ UsedBytes' <= UsedBytes
  BY TypeOfWorker DEF Open, AssetTypes, UsageType, JobTypes, BookTypes, UsedBytes,
     assetVars, bookVars, jobVars
<1> QED
  BY <1>1, <1>2, WorkerKeeps DEF Open

LEMMA ReserveKeeps ==
    ASSUME BudgetInv, NEW w \in Workers, Reserve(w) PROVE BudgetInv'
<1>0. /\ worker[w].key \in Keys /\ worker[w].outcome = "ok"
      /\ worker[w].res + worker[w].want <= MaxBytes
      /\ worker[w].block = None => worker[w].res = 0
      /\ worker[w].key \in PcmKeys \/ worker[w].key \in RawKeys
  BY TypeOfWorker DEF Reserve, WorkerLocals, Keys
<1>1. UsageType' /\ JobTypes' /\ UNCHANGED playerVars
  BY TypeOfWorker DEF Reserve, UsageType, JobTypes, jobVars
<1>2. CASE ReserveFails(w)
  <2>1. \E r \in WorkerType : /\ worker' = [worker EXCEPT ![w] = r]
                              /\ WorkerLocals(r)
    BY <1>0, <1>2, GiveUpKeeps DEF ReserveFails
  <2>2. AssetTypes' /\ BookTypes' /\ UsedBytes' <= UsedBytes
    BY <1>2, TypeOfWorker DEF ReserveFails, AssetTypes, BookTypes, UsedBytes,
       assetVars, bookVars
  <2> QED
    BY <1>1, <2>1, <2>2, WorkerKeeps
<1>3. CASE ReserveFits(w)
  <2>1. \E r \in WorkerType : /\ worker' = [worker EXCEPT ![w] = r]
                              /\ WorkerLocals(r)
    <3>1. CASE worker[w].key \in RawKeys
      <4> DEFINE r == [worker[w] EXCEPT !.res = worker[w].want, !.pc = "decode"]
      <4>1. worker' = [worker EXCEPT ![w] = r]
        BY <1>3, <3>1, TypeOfWorker DEF ReserveFits, WorkerTypes, WorkerType
      <4>2. worker[w].key \notin PcmKeys
        BY <3>1, KeyAssumption
      <4>3. r \in WorkerType /\ WorkerLocals(r)
        BY <1>0, <4>2, TypeOfWorker DEF WorkerType, WorkerLocals, WorkerPlaces
      <4> QED
        BY <4>1, <4>3
    <3>2. CASE worker[w].key \notin RawKeys
      <4> DEFINE r == [worker[w] EXCEPT !.pc = "allocate"]
      <4>1. worker' = [worker EXCEPT ![w] = r]
        BY <1>3, <3>2, TypeOfWorker DEF ReserveFits, WorkerTypes, WorkerType
      <4>2. r \in WorkerType /\ WorkerLocals(r)
        BY <1>0, TypeOfWorker DEF WorkerType, WorkerLocals, WorkerPlaces
      <4> QED
        BY <4>1, <4>2
    <3> QED
      BY <3>1, <3>2
  <2>3. AssetTypes' /\ BookTypes' /\ UsedBytes' <= MaxBytes
    BY <1>3, TypeOfWorker DEF ReserveFits, AssetTypes, BookTypes, UsedBytes, Fits,
       assetVars
  <2> QED
    BY <1>1, <2>1, <2>3, WorkerKeeps
<1>4. CASE DetachOne(w)
  <2>1. PICK k \in Keys :
          /\ Evictable(k)
          /\ entry' = [entry EXCEPT ![k] = None]
          /\ resident' = resident - size[entry[k]]
          /\ reclaiming' = reclaiming + size[entry[k]]
          /\ worker' = [worker EXCEPT ![w].victim = entry[k], ![w].pc = "reclaim"]
    BY <1>4 DEF DetachOne
  <2>2. entry[k] \in Blocks /\ size[entry[k]] \in Nat
    BY <2>1, TypeOfWorker DEF AssetTypes, Evictable
  <2> DEFINE r == [worker[w] EXCEPT !.victim = entry[k], !.pc = "reclaim"]
  <2>3. worker' = [worker EXCEPT ![w] = r]
    BY <2>1, TypeOfWorker DEF WorkerTypes, WorkerType
  <2>4. r \in WorkerType /\ WorkerLocals(r)
    BY <1>0, <2>2, TypeOfWorker DEF WorkerType, WorkerLocals, WorkerPlaces
  <2>5. AssetTypes' /\ BookTypes' /\ UsedBytes' <= UsedBytes
    BY <1>4, <2>1, <2>2, TypeOfWorker
       DEF DetachOne, AssetTypes, BookTypes, UsedBytes
  <2> QED
    BY <1>1, <2>3, <2>4, <2>5, WorkerKeeps
<1> QED
  BY <1>2, <1>3, <1>4 DEF Reserve

LEMMA ReclaimKeeps ==
    ASSUME BudgetInv, NEW w \in Workers, Reclaim(w) PROVE BudgetInv'
<1> DEFINE r == [worker[w] EXCEPT !.victim = None, !.pc = "reserve"]
<1>1. worker' = [worker EXCEPT ![w] = r]
  BY TypeOfWorker DEF Reclaim, WorkerTypes, WorkerType
<1>2. r \in WorkerType /\ WorkerLocals(r)
  BY TypeOfWorker DEF Reclaim, WorkerType, WorkerLocals, WorkerPlaces
<1>3. size[worker[w].victim] \in Nat
  BY TypeOfWorker DEF Reclaim, WorkerLocals, AssetTypes
<1>4. AssetTypes' /\ UsageType' /\ JobTypes'
  BY TypeOfWorker DEF Reclaim, AssetTypes, UsageType, JobTypes, jobVars
<1>5. BookTypes' /\ UsedBytes' <= UsedBytes
  BY <1>3, TypeOfWorker DEF Reclaim, BookTypes, UsedBytes
<1> QED
  BY <1>1, <1>2, <1>4, <1>5, WorkerKeeps DEF Reclaim

LEMMA AllocateKeeps ==
    ASSUME BudgetInv, NEW w \in Workers, Allocate(w) PROVE BudgetInv'
<1>0. /\ worker[w].key \in Keys /\ worker[w].outcome = "ok"
      /\ worker[w].res + worker[w].want \in Bytes
  BY TypeOfWorker, SomeBytes DEF Allocate, WorkerLocals
<1>1. UsageType' /\ JobTypes' /\ UNCHANGED playerVars
  BY TypeOfWorker DEF Allocate, UsageType, JobTypes, jobVars
<1>2. CASE AllocationFails(w)
  <2>1. \E r \in WorkerType : /\ worker' = [worker EXCEPT ![w] = r]
                              /\ WorkerLocals(r)
    BY <1>0, <1>2, GiveUpKeeps DEF AllocationFails
  <2>2. AssetTypes' /\ BookTypes' /\ UsedBytes' <= UsedBytes
    BY <1>2, TypeOfWorker DEF Allocate, AllocationFails, AssetTypes, BookTypes, UsedBytes
  <2> QED
    BY <1>1, <2>1, <2>2, WorkerKeeps
<1>3. CASE Allocated(w) /\ worker[w].block = None
  <2>0. worker[w].res = 0
    BY <1>3, TypeOfWorker DEF Allocate, WorkerLocals
  <2>1. PICK b \in Blocks :
          /\ size' = [size EXCEPT ![b] = worker[w].want]
          /\ worker' = [worker EXCEPT ![w].block = b, ![w].want = 0,
                           ![w].res = worker[w].want, ![w].pc = "decode"]
    BY <1>3 DEF Allocated
  <2> DEFINE r == [worker[w] EXCEPT !.block = b, !.want = 0, !.res = worker[w].want,
                                    !.pc = "decode"]
  <2>2. worker' = [worker EXCEPT ![w] = r]
    BY <2>1, TypeOfWorker DEF WorkerTypes, WorkerType
  <2>3. r \in WorkerType /\ WorkerLocals(r)
    BY <1>0, TypeOfWorker, SomeBytes DEF WorkerType, WorkerLocals, WorkerPlaces
  <2>4. AssetTypes'
    BY <2>1, TypeOfWorker DEF Allocate, AssetTypes
  <2>6. reserved' = reserved
    BY <1>3 DEF Allocated
  <2>5. BookTypes' /\ UsedBytes' <= UsedBytes
    BY <2>6, TypeOfWorker DEF Allocate, BookTypes, UsedBytes
  <2> QED
    BY <1>1, <2>2, <2>3, <2>4, <2>5, WorkerKeeps
<1>4. CASE Allocated(w) /\ worker[w].block # None
  <2> DEFINE r == [worker[w] EXCEPT !.want = 0, !.res = worker[w].res + worker[w].want,
                                    !.pc = "decode"]
  <2>1. /\ size' = [size EXCEPT ![worker[w].block] = @ + worker[w].want]
        /\ worker' = [worker EXCEPT ![w].want = 0, ![w].pc = "decode",
                         ![w].res = @ + worker[w].want]
    BY <1>4 DEF Allocated
  <2>2. worker' = [worker EXCEPT ![w] = r]
    BY <2>1, TypeOfWorker DEF WorkerTypes, WorkerType
  <2>0. worker[w].block \in Blocks
    BY <1>4, TypeOfWorker DEF WorkerType
  <2>3. r \in WorkerType /\ WorkerLocals(r)
    BY <1>0, <2>0, TypeOfWorker, SomeBytes DEF WorkerType, WorkerLocals, WorkerPlaces
  <2>4. AssetTypes'
    BY <2>0, <2>1, TypeOfWorker DEF Allocate, AssetTypes
  <2>5. BookTypes' /\ UsedBytes' <= UsedBytes
    BY <1>4, TypeOfWorker DEF Allocate, Allocated, BookTypes, UsedBytes
  <2> QED
    BY <1>1, <2>2, <2>3, <2>4, <2>5, WorkerKeeps
<1> QED
  BY <1>2, <1>3, <1>4 DEF Allocate

(* A decoder gives up, asks for more, or has what it commits.               *)
LEMMA DecodePcmKeeps ==
    ASSUME BudgetInv, NEW w \in Workers, Decode(w), worker[w].key \in PcmKeys,
           DecodePcm(w)
    PROVE  BudgetInv'
<1>0. /\ worker[w].key \in Keys /\ worker[w].outcome = "ok" /\ worker[w].block \in Blocks
      /\ Size[worker[w].key] \in Nat
  BY TypeOfWorker, SizeAssumption DEF Decode, WorkerLocals, Keys
<1>1. /\ UsageType' /\ JobTypes' /\ UNCHANGED playerVars
      /\ BookTypes' /\ UsedBytes' <= UsedBytes
  BY TypeOfWorker DEF Decode, DecodePcm, UsageType, JobTypes, jobVars, BookTypes, UsedBytes
<1>2. AssetTypes'
  BY <1>0, TypeOfWorker DEF Decode, DecodePcm, AssetTypes
<1>3. \E r \in WorkerType : /\ worker' = [worker EXCEPT ![w] = r]
                            /\ WorkerLocals(r)
  <2>1. CASE Size[worker[w].key] <= worker[w].res /\ MoveTo(w, "finish")
    <3> DEFINE r == [worker[w] EXCEPT !.pc = "finish"]
    <3>1. worker' = [worker EXCEPT ![w] = r]
      BY <2>1, TypeOfWorker DEF MoveTo, WorkerTypes, WorkerType
    <3>2. r \in WorkerType /\ WorkerLocals(r)
      BY <1>0, <2>1, TypeOfWorker DEF WorkerType, WorkerLocals, WorkerPlaces
    <3> QED
      BY <3>1, <3>2
  <2>2. CASE worker' = [worker EXCEPT
               ![w].want = Doubled(worker[w].res) - worker[w].res, ![w].pc = "reserve"]
    <3> DEFINE more == Doubled(worker[w].res) - worker[w].res
               r == [worker[w] EXCEPT !.want = more, !.pc = "reserve"]
    <3>1. worker' = [worker EXCEPT ![w] = r]
      BY <2>2, TypeOfWorker DEF WorkerTypes, WorkerType
    <3>2. more \in Bytes /\ worker[w].res + more <= MaxBytes
      BY TypeOfWorker, DoubledBounds DEF Bytes
    <3>3. worker[w].block # None
      BY <1>0, NoneAssumption
    <3>4. r \in WorkerType /\ WorkerLocals(r)
      BY <1>0, <3>2, <3>3, TypeOfWorker DEF WorkerType, WorkerLocals, WorkerPlaces
    <3> QED
      BY <3>1, <3>4
  <2>3. ASSUME NEW o \in {"tooLarge", "failed", "closing"}, GiveUp(w, o)
        PROVE  \E r \in WorkerType : /\ worker' = [worker EXCEPT ![w] = r]
                                     /\ WorkerLocals(r)
    BY <1>0, <2>3, GiveUpKeeps
  <2> QED
    BY <2>1, <2>2, <2>3 DEF DecodePcm
<1> QED
  BY <1>1, <1>2, <1>3, WorkerKeeps

LEMMA DecodeRawKeeps ==
    ASSUME BudgetInv, NEW w \in Workers, Decode(w), worker[w].key \in RawKeys,
           DecodeRaw(w)
    PROVE  BudgetInv'
<1>0. /\ worker[w].key \in Keys /\ worker[w].outcome = "ok"
      /\ Size[worker[w].key] \in Nat
  BY TypeOfWorker, SizeAssumption DEF Decode, WorkerLocals, Keys
<1>1. UsageType' /\ JobTypes' /\ UNCHANGED playerVars
  BY TypeOfWorker DEF Decode, UsageType, JobTypes, jobVars
<1>2. BookTypes' /\ UsedBytes' <= UsedBytes
  BY TypeOfWorker DEF Decode, DecodeRaw, BookTypes, UsedBytes
<1>3. AssetTypes'
  BY <1>0, TypeOfWorker DEF Decode, DecodeRaw, AssetTypes
<1>4. \E r \in WorkerType : /\ worker' = [worker EXCEPT ![w] = r]
                            /\ WorkerLocals(r)
  <2>1. ASSUME NEW b \in Blocks, Size[worker[w].key] <= worker[w].res,
               worker' = [worker EXCEPT ![w].block = b, ![w].pc = "finish"]
        PROVE  \E r \in WorkerType : /\ worker' = [worker EXCEPT ![w] = r]
                                     /\ WorkerLocals(r)
    <3> DEFINE r == [worker[w] EXCEPT !.block = b, !.pc = "finish"]
    <3>1. worker' = [worker EXCEPT ![w] = r]
      BY <2>1, TypeOfWorker DEF WorkerTypes, WorkerType
    <3>2. r \in WorkerType /\ WorkerLocals(r)
      BY <1>0, <2>1, TypeOfWorker DEF WorkerType, WorkerLocals, WorkerPlaces
    <3> QED
      BY <3>1, <3>2
  <2>2. CASE worker' = [worker EXCEPT ![w].want = Doubled(worker[w].res),
                                      ![w].res = 0, ![w].pc = "reserve"]
    <3> DEFINE r == [worker[w] EXCEPT !.want = Doubled(worker[w].res), !.res = 0,
                                      !.pc = "reserve"]
    <3>1. worker' = [worker EXCEPT ![w] = r]
      BY <2>2, TypeOfWorker DEF WorkerTypes, WorkerType
    <3>2. /\ Doubled(worker[w].res) \in Bytes /\ 0 \in Bytes
          /\ 0 + Doubled(worker[w].res) <= MaxBytes
      BY TypeOfWorker, DoubledBounds DEF Bytes
    <3>3. r \in WorkerType /\ WorkerLocals(r)
      BY <1>0, <3>2, TypeOfWorker DEF WorkerType, WorkerLocals, WorkerPlaces
    <3> QED
      BY <3>1, <3>3
  <2>3. ASSUME NEW o \in {"tooLarge", "failed"}, GiveUp(w, o)
        PROVE  \E r \in WorkerType : /\ worker' = [worker EXCEPT ![w] = r]
                                     /\ WorkerLocals(r)
    BY <1>0, <2>3, GiveUpKeeps
  <2> QED
    BY <2>1, <2>2, <2>3 DEF DecodeRaw
<1> QED
  BY <1>1, <1>2, <1>3, <1>4, WorkerKeeps

LEMMA AbandonKeeps ==
    ASSUME BudgetInv, NEW w \in Workers, Abandon(w) PROVE BudgetInv'
<1>0. worker[w].key \in Keys /\ worker[w].block \in Blocks /\ worker[w].outcome # "ok"
  BY TypeOfWorker DEF Abandon, WorkerLocals
<1> DEFINE r == [worker[w] EXCEPT !.block = None, !.res = 0, !.pc = "finish"]
<1>1. worker' = [worker EXCEPT ![w] = r]
  BY TypeOfWorker DEF Abandon, WorkerTypes, WorkerType
<1>2. r \in WorkerType /\ WorkerLocals(r)
  BY <1>0, TypeOfWorker, SomeBytes DEF Abandon, WorkerType, WorkerLocals, WorkerPlaces
<1>3. AssetTypes'
  BY <1>0, TypeOfWorker DEF Abandon, AssetTypes
<1>4. UsageType' /\ JobTypes'
  BY TypeOfWorker DEF Abandon, UsageType, JobTypes, jobVars
<1>5. BookTypes' /\ UsedBytes' <= UsedBytes
  BY TypeOfWorker DEF Abandon, BookTypes, UsedBytes
<1> QED
  BY <1>1, <1>2, <1>3, <1>4, <1>5, WorkerKeeps DEF Abandon

(* What is committed was reserved, so the total does not grow.              *)
LEMMA FinishKeeps ==
    ASSUME BudgetInv, NEW w \in Workers, Finish(w) PROVE BudgetInv'
<1>0. /\ worker[w].key \in Keys /\ Size[worker[w].key] \in Nat
      /\ worker[w].outcome = "ok" => /\ Size[worker[w].key] <= worker[w].res
                                     /\ worker[w].block \in Blocks
  BY TypeOfWorker, SizeAssumption DEF Finish, WorkerLocals
<1> DEFINE admitted == worker[w].outcome = "ok" /\ Admits(worker[w].key)
           r == IF admitted \/ worker[w].block = None THEN Resting
                ELSE [Resting EXCEPT !.pc = "discard", !.block = worker[w].block]
<1>1. worker' = [worker EXCEPT ![w] = r]
  BY DEF Finish
<1>2. r \in WorkerType /\ WorkerLocals(r)
  <2>1. CASE admitted \/ worker[w].block = None
    BY <2>1, RestingType
  <2>2. CASE ~(admitted \/ worker[w].block = None)
    <3>1. r = [Resting EXCEPT !.pc = "discard", !.block = worker[w].block]
      BY <2>2
    <3>2. worker[w].block \in Blocks
      BY <2>2, TypeOfWorker DEF WorkerType
    <3> QED
      BY <3>1, <3>2, RestingType DEF WorkerType, WorkerLocals, WorkerPlaces, Resting
  <2> QED
    BY <2>1, <2>2
<1>3. AssetTypes'
  BY <1>0, TypeOfWorker DEF Finish, AssetTypes
<1>4. UsageType'
  <2>1. PICK a, b \in BOOLEAN : usage' = [usage EXCEPT ![worker[w].key] =
                                    [@ EXCEPT !.tooLarge = a, !.backoff = b]]
    <3> DEFINE k == worker[w].key
               a == usage[k].tooLarge \/ worker[w].outcome = "tooLarge"
               b == usage[k].backoff \/ (/\ worker[w].outcome = "failed" /\ Admits(k)
                                         /\ ~usage[k].tooLarge)
    <3>1. a \in BOOLEAN /\ b \in BOOLEAN
      BY <1>0, TypeOfWorker DEF UsageType
    <3>2. usage' = [usage EXCEPT ![k] = [@ EXCEPT !.tooLarge = a, !.backoff = b]]
      BY <1>0, TypeOfWorker DEF Finish, UsageAfterBuild, UsageType
    <3> QED
      BY <3>1, <3>2
  <2> QED
    BY <1>0, <2>1, TypeOfWorker DEF UsageType
<1>5. JobTypes'
  BY TypeOfWorker DEF Finish, JobTypes
<1>6. BookTypes' /\ UsedBytes' <= UsedBytes
  BY <1>0, TypeOfWorker DEF Finish, BookTypes, UsedBytes
<1> QED
  BY <1>1, <1>2, <1>3, <1>4, <1>5, <1>6, WorkerKeeps DEF Finish

LEMMA DiscardKeeps ==
    ASSUME BudgetInv, NEW w \in Workers, Discard(w) PROVE BudgetInv'
<1>1. worker[w].block \in Blocks
  BY TypeOfWorker DEF Discard, WorkerLocals
<1>2. AssetTypes' /\ UsageType' /\ JobTypes' /\ BookTypes' /\ UsedBytes' <= UsedBytes
  BY <1>1, TypeOfWorker DEF Discard, AssetTypes, UsageType, JobTypes, jobVars,
     BookTypes, UsedBytes, bookVars
<1> QED
  BY <1>2, RestingType, WorkerKeeps DEF Discard

LEMMA ExitKeeps ==
    ASSUME BudgetInv, NEW w \in Workers, Exit(w) PROVE BudgetInv'
<1> DEFINE r == [worker[w] EXCEPT !.pc = "exited"]
<1>1. worker' = [worker EXCEPT ![w] = r]
  BY TypeOfWorker DEF Exit, MoveTo, WorkerTypes, WorkerType
<1>2. r \in WorkerType /\ WorkerLocals(r)
  BY TypeOfWorker DEF WorkerType, WorkerLocals, WorkerPlaces
<1>3. AssetTypes' /\ UsageType' /\ JobTypes' /\ BookTypes' /\ UsedBytes' <= UsedBytes
  BY TypeOfWorker DEF Exit, AssetTypes, UsageType, JobTypes, jobVars, BookTypes,
     UsedBytes, bookVars, assetVars
<1> QED
  BY <1>1, <1>2, <1>3, WorkerKeeps DEF Exit

LEMMA WorkersKeepBudget ==
    ASSUME BudgetInv, NEW w \in Workers, WorkerStep(w) PROVE BudgetInv'
  BY TakeKeeps, OpenKeeps, ReserveKeeps, ReclaimKeeps, AllocateKeeps, DecodePcmKeeps,
     DecodeRawKeeps, AbandonKeeps, FinishKeeps, DiscardKeeps, ExitKeeps
     DEF WorkerStep, Decode

-----------------------------------------------------------------------------
(* The player thread.                                                       *)
LEMMA TypeOfPlayer ==
    ASSUME BudgetInv
    PROVE  /\ AssetTypes /\ UsageType /\ JobTypes /\ BookTypes /\ PlayerTypes
           /\ PlayerLocals /\ \A p \in Playbacks : CaptureLocals(playback[p].capture)
           /\ UsedBytes \in Int /\ MaxBytes \in Nat
           /\ player.at # "closed" => UsedBytes <= MaxBytes
  BY SizeAssumption DEF BudgetInv, Shape, Locals, BookTypes, UsedBytes, BudgetHolds

LEMMA FreshTypes ==
    /\ NoCapture \in CaptureType /\ CaptureLocals(NoCapture)
    /\ NoPlayback \in PlaybackType /\ Ready \in PlayerType
  BY SizeAssumption, SomeBytes DEF NoCapture, CaptureType, CaptureLocals, NoPlayback,
     PlaybackType, Ready, PlayerType, PlayerPlaces

(* One playback changes, and its capture stays within what it reserved.     *)
LEMMA PlaybackChanges ==
    ASSUME BudgetInv, NEW p \in Playbacks, NEW r \in PlaybackType,
           CaptureLocals(r.capture), playback' = [playback EXCEPT ![p] = r]
    PROVE  /\ playback' \in [Playbacks -> PlaybackType]
           /\ (\A q \in Playbacks : CaptureLocals(playback[q].capture))'
           /\ playback'[p] = r
           /\ \A q \in Playbacks \ {p} : playback'[q] = playback[q]
<1>1. /\ playback' \in [Playbacks -> PlaybackType]
      /\ playback'[p] = r
      /\ \A q \in Playbacks \ {p} : playback'[q] = playback[q]
  BY TypeOfPlayer DEF PlayerTypes
<1>2. \A q \in Playbacks : CaptureLocals(playback'[q].capture)
  BY <1>1, TypeOfPlayer
<1> QED
  BY <1>1, <1>2

(* The capture of one playback changes.                                     *)
LEMMA CaptureChanges ==
    ASSUME BudgetInv, NEW p \in Playbacks, NEW c \in CaptureType, CaptureLocals(c),
           playback' = [playback EXCEPT ![p].capture = c]
    PROVE  /\ playback' \in [Playbacks -> PlaybackType]
           /\ (\A q \in Playbacks : CaptureLocals(playback[q].capture))'
           /\ playback'[p].capture = c
           /\ \A q \in Playbacks : playback'[q].key = playback[q].key
<1> DEFINE r == [playback[p] EXCEPT !.capture = c]
<1>1. playback[p] \in PlaybackType
  BY TypeOfPlayer DEF PlayerTypes
<1>2. r \in PlaybackType /\ r.capture = c /\ r.key = playback[p].key
  BY <1>1 DEF PlaybackType
<1>3. playback' = [playback EXCEPT ![p] = r]
  BY TypeOfPlayer DEF PlayerTypes
<1>4. /\ playback' \in [Playbacks -> PlaybackType]
      /\ (\A q \in Playbacks : CaptureLocals(playback[q].capture))'
      /\ playback'[p] = r
      /\ \A q \in Playbacks \ {p} : playback'[q] = playback[q]
  BY <1>2, <1>3, PlaybackChanges
<1> QED
  BY <1>2, <1>4

LEMMA PlaybacksStay ==
    ASSUME BudgetInv, UNCHANGED playback
    PROVE  /\ playback' \in [Playbacks -> PlaybackType]
           /\ (\A q \in Playbacks : CaptureLocals(playback[q].capture))'
           /\ \A q \in Playbacks : playback'[q].key = playback[q].key
  BY TypeOfPlayer DEF PlayerTypes

(* The thread stays with its playback, or is done with it.                  *)
LEMMA ThreadMoves ==
    ASSUME BudgetInv, player'.at # "grow",
           player'.at \in Busy => player.at \in Busy /\ player'.p = player.p,
           \A q \in Playbacks : playback'[q].key = playback[q].key
    PROVE  PlayerLocals'
  BY TypeOfPlayer DEF PlayerLocals, Current

LEMMA CurrentType ==
    ASSUME BudgetInv, player.at \in Busy
    PROVE  /\ player.p \in Playbacks /\ Current.key \in Keys
           /\ playback[player.p] \in PlaybackType
           /\ Current.capture \in CaptureType /\ CaptureLocals(Current.capture)
           /\ Current.capture.cap \in Nat /\ Current.capture.cap <= MaxBytes
           /\ Current.capture.bytes \in Nat /\ Current.capture.bytes <= Current.capture.cap
           /\ player \in PlayerType /\ player.want \in Nat
  BY TypeOfPlayer DEF PlayerTypes, PlayerLocals, Current, PlaybackType, CaptureType,
     CaptureLocals, PlayerType, Bytes

LEMMA ObserveKeeps ==
    ASSUME BudgetInv, NEW p \in Playbacks, NEW k \in Keys, NEW loop \in BOOLEAN,
           Observe(p, k, loop)
    PROVE  BudgetInv'
<1> DEFINE direct == entry[k] # None /\ k \in PcmKeys
           r == [key |-> k, loop |-> loop /\ ~direct, direct |-> direct,
                 lease |-> entry[k], capture |-> NoCapture]
<1>1. r \in PlaybackType /\ CaptureLocals(r.capture)
  BY FreshTypes, TypeOfPlayer DEF PlaybackType, AssetTypes
<1>2. /\ playback' \in [Playbacks -> PlaybackType]
      /\ (\A q \in Playbacks : CaptureLocals(playback[q].capture))'
      /\ playback'[p] = r
  BY <1>1, PlaybackChanges DEF Observe
<1>3. player' \in PlayerType /\ PlayerLocals'
  <2>1. CASE direct
    BY <2>1, FreshTypes DEF Observe, PlayerLocals, Ready, Busy
  <2>2. CASE ~direct
    <3>1. player' = [Ready EXCEPT !.at = "open", !.p = p, !.creating = TRUE,
                                  !.minimum = IF loop THEN 2 ELSE 0]
      BY <2>2 DEF Observe
    <3>2. player' \in PlayerType
      BY <3>1, FreshTypes DEF PlayerType, PlayerPlaces
    <3>3. player'.at = "open" /\ player'.p = p
      BY <3>1 DEF Ready
    <3> QED
      BY <1>2, <3>2, <3>3 DEF PlayerLocals, Current
  <2> QED
    BY <2>1, <2>2
<1>4. AssetTypes'
  BY TypeOfPlayer DEF Observe, AssetTypes
<1>5. UsageType'
  <2> DEFINE U == [plays : 0 .. 2, fresh : BOOLEAN, tooLarge : BOOLEAN, backoff : BOOLEAN]
  <2>1. Pruned \in [Keys -> U] /\ usage \in [Keys -> U]
    BY TypeOfPlayer DEF Pruned, UsageType, NoUsage
  <2>2. ASSUME NEW u \in U PROVE Observed(u) \in U
    <3>1. PICK n \in {1, 2} : Observed(u) = [u EXCEPT !.plays = n, !.fresh = TRUE]
      BY DEF Observed
    <3>2. n \in 0 .. 2
      OBVIOUS
    <3> QED
      BY <3>1, <3>2
  <2> HIDE DEF U
  <2>3. PICK kept \in [Keys -> U] : usage' = [kept EXCEPT ![k] = Observed(@)]
    BY <2>1 DEF Observe
  <2>4. usage' \in [Keys -> U]
    BY <2>2, <2>3
  <2> QED
    BY <2>4 DEF U, UsageType
<1>6. JobTypes' /\ BookTypes' /\ UsedBytes' <= MaxBytes
  BY TypeOfPlayer DEF Observe, At, JobTypes, jobVars, BookTypes, bookVars, UsedBytes
<1> QED
  BY <1>2, <1>3, <1>4, <1>5, <1>6, PlayerKeeps DEF Observe, PlayerTypes

LEMMA BeginCaptureKeeps ==
    ASSUME BudgetInv, BeginCapture PROVE BudgetInv'
<1>0. player.at = "open" /\ player.at \in Busy
  BY DEF BeginCapture, At, Busy
<1>1. /\ playback' \in [Playbacks -> PlaybackType]
      /\ (\A q \in Playbacks : CaptureLocals(playback[q].capture))'
      /\ \A q \in Playbacks : playback'[q].key = playback[q].key
  <2>1. CASE UNCHANGED playback
    BY <2>1, PlaybacksStay
  <2>2. CASE playback' = [playback EXCEPT ![player.p].capture.on = TRUE]
    <3> DEFINE c == [Current.capture EXCEPT !.on = TRUE]
    <3>1. c \in CaptureType /\ CaptureLocals(c)
      BY <1>0, CurrentType DEF CaptureType, CaptureLocals
    <3>2. playback' = [playback EXCEPT ![player.p].capture = c]
      BY <1>0, <2>2, CurrentType, TypeOfPlayer DEF PlayerTypes, Current
    <3> QED
      BY <1>0, <3>1, <3>2, CurrentType, CaptureChanges
  <2> QED
    BY <2>1, <2>2 DEF BeginCapture
<1>2. player' \in PlayerType /\ player'.at = "fill" /\ player'.p = player.p
  BY <1>0, CurrentType DEF BeginCapture, PlayerType, PlayerPlaces
<1>3. AssetTypes' /\ UsageType' /\ JobTypes'
  BY TypeOfPlayer DEF BeginCapture, AssetTypes, assetVars, UsageType, JobTypes, jobVars
<1>4. BookTypes' /\ UsedBytes' <= MaxBytes
  BY <1>0, TypeOfPlayer DEF BeginCapture, BookTypes, bookVars, UsedBytes
<1>5. PlayerLocals'
  BY <1>0, <1>1, <1>2, ThreadMoves
<1> QED
  BY <1>1, <1>2, <1>3, <1>4, <1>5, PlayerKeeps DEF BeginCapture, PlayerTypes

LEMMA FreeTrashKeeps ==
    ASSUME BudgetInv, FreeTrash PROVE BudgetInv'
<1>1. player \in PlayerType /\ player.trash \in Blocks
  BY TypeOfPlayer DEF FreeTrash, PlayerTypes, PlayerType
<1>2. player' \in PlayerType /\ player'.at = player.at /\ player'.p = player.p
      /\ player'.want = player.want
  BY <1>1 DEF FreeTrash, PlayerType
<1>3. AssetTypes' /\ UsageType' /\ JobTypes'
  BY <1>1, TypeOfPlayer DEF FreeTrash, AssetTypes, UsageType, JobTypes, jobVars
<1>4. BookTypes' /\ (player'.at = "closed" \/ UsedBytes' <= MaxBytes)
  BY <1>2, TypeOfPlayer DEF FreeTrash, BookTypes, bookVars, UsedBytes
<1>5. PlayerLocals'
  BY <1>2, TypeOfPlayer DEF FreeTrash, PlayerLocals, Current
<1> QED
  BY <1>2, <1>3, <1>4, <1>5, PlaybacksStay, PlayerKeeps DEF FreeTrash, PlayerTypes

(* An abort gives up what the capture and its growth had reserved.          *)
LEMMA AbortKeeps ==
    ASSUME BudgetInv, player.at \in Busy, AssetTypes',
           NEW error \in {"tooLarge", "failed", "budget"}, NEW unused \in Nat,
           NEW at \in PlayerPlaces, at # "grow",
           Abort(player.p, error, unused, at),
           UNCHANGED <<jobVars, resident, reclaiming, workerVars>>
    PROVE  BudgetInv'
<1>1. /\ playback' \in [Playbacks -> PlaybackType]
      /\ (\A q \in Playbacks : CaptureLocals(playback[q].capture))'
      /\ \A q \in Playbacks : playback'[q].key = playback[q].key
  BY CurrentType, FreshTypes, CaptureChanges DEF Abort
<1>2. player' \in PlayerType /\ player'.at = at /\ player'.p = player.p
  BY CurrentType, SomeBytes DEF Abort, PlayerType, CaptureType, Current
<1>3. UsageType'
  <2> DEFINE k == Current.key
             a == usage[k].tooLarge \/ (error = "tooLarge" /\ Used(k) /\ entry[k] = None)
             b == usage[k].backoff \/ (/\ error = "failed" /\ Used(k) /\ entry[k] = None
                                       /\ k \notin building)
  <2>1. a \in BOOLEAN /\ b \in BOOLEAN /\ k \in Keys
    BY CurrentType, TypeOfPlayer DEF UsageType
  <2>2. usage' = [usage EXCEPT ![k] = [@ EXCEPT !.tooLarge = a, !.backoff = b]]
    BY <2>1, TypeOfPlayer DEF Abort, UsageAfterAbort, UsageType, Current
  <2> HIDE DEF a, b, k
  <2> QED
    BY <2>1, <2>2, TypeOfPlayer DEF UsageType
<1>4. JobTypes'
  BY TypeOfPlayer DEF JobTypes, jobVars
<1>5. BookTypes' /\ UsedBytes' <= MaxBytes
  BY CurrentType, TypeOfPlayer DEF Abort, BookTypes, UsedBytes, Current, Busy
<1>6. PlayerLocals'
  BY <1>1, <1>2, ThreadMoves
<1> QED
  BY <1>1, <1>2, <1>3, <1>4, <1>5, <1>6, PlayerKeeps DEF PlayerTypes

LEMMA AppendKeeps ==
    ASSUME BudgetInv, AppendBuffer PROVE BudgetInv'
<1> DEFINE c == Current.capture
           need == GrownFor(c) - c.cap
<1>0. player.at = "fill" /\ player.at \in Busy
  BY DEF AppendBuffer, At, Busy
<1>1. AssetTypes' /\ JobTypes'
  BY TypeOfPlayer DEF AppendBuffer, AssetTypes, assetVars, JobTypes, jobVars
<1>2. CASE \E error \in {"tooLarge", "budget"} : Abort(player.p, error, 0, "fill")
  BY <1>0, <1>1, <1>2, AbortKeeps DEF AppendBuffer, PlayerPlaces
<1>3. CASE /\ c.bytes + 1 <= c.cap
           /\ playback' = [playback EXCEPT ![player.p].capture.bytes = @ + 1]
           /\ UNCHANGED <<usage, capturing, reserved, player>>
  <2> DEFINE d == [c EXCEPT !.bytes = @ + 1]
  <2>0. c \in CaptureType /\ CaptureLocals(c) /\ c.bytes + 1 \in Bytes /\ c.cap \in Nat
    BY <1>0, <1>3, CurrentType, TypeOfPlayer DEF Bytes
  <2>1. d \in CaptureType /\ CaptureLocals(d)
    BY <1>3, <2>0 DEF CaptureType, CaptureLocals
  <2>2. playback' = [playback EXCEPT ![player.p].capture = d]
    BY <1>0, <1>3, CurrentType, TypeOfPlayer DEF PlayerTypes, Current
  <2>3. /\ playback' \in [Playbacks -> PlaybackType]
        /\ (\A q \in Playbacks : CaptureLocals(playback[q].capture))'
        /\ \A q \in Playbacks : playback'[q].key = playback[q].key
    BY <1>0, <2>1, <2>2, CurrentType, CaptureChanges
  <2>4. PlayerLocals'
    BY <1>0, <1>3, <2>3, ThreadMoves
  <2>5. BookTypes' /\ UsageType' /\ UsedBytes' <= MaxBytes
    BY <1>0, <1>3, TypeOfPlayer DEF AppendBuffer, BookTypes, UsageType, UsedBytes
  <2>6. player' \in PlayerType
    BY <1>3, TypeOfPlayer DEF PlayerTypes
  <2> QED
    BY <1>1, <2>3, <2>4, <2>5, <2>6, PlayerKeeps DEF AppendBuffer, PlayerTypes
<1>4. CASE /\ c.bytes + 1 <= MaxBytes /\ c.bytes + 1 > c.cap /\ Fits(need)
           /\ reserved' = reserved + need
           /\ player' = [player EXCEPT !.at = "grow", !.want = need]
           /\ UNCHANGED <<usage, capturing, playback>>
  <2>1. GrownFor(c) \in Nat /\ GrownFor(c) <= MaxBytes /\ c.bytes + 1 <= GrownFor(c)
    BY <1>0, <1>4, CurrentType, TypeOfPlayer DEF GrownFor, Doubled
  <2>2. need \in Bytes /\ c.cap + need = GrownFor(c)
    BY <1>0, <1>4, <2>1, CurrentType, TypeOfPlayer DEF Bytes
  <2>3. player' \in PlayerType /\ player'.at = "grow" /\ player'.p = player.p
        /\ player'.want = need
    BY <1>0, <1>4, <2>2, CurrentType DEF PlayerType, PlayerPlaces
  <2>4. PlayerLocals'
    BY <1>0, <1>4, <2>1, <2>2, <2>3, CurrentType DEF PlayerLocals, Current
  <2>5. BookTypes' /\ UsageType' /\ UsedBytes' <= MaxBytes
    BY <1>4, <2>2, TypeOfPlayer DEF AppendBuffer, BookTypes, UsageType, UsedBytes, Fits,
       Bytes
  <2> QED
    BY <1>1, <1>4, <2>3, <2>4, <2>5, PlaybacksStay, PlayerKeeps
       DEF AppendBuffer, PlayerTypes
<1> QED
  BY <1>0, <1>2, <1>3, <1>4, CurrentType, TypeOfPlayer DEF AppendBuffer

LEMMA GrowKeeps ==
    ASSUME BudgetInv, Grow PROVE BudgetInv'
<1> DEFINE c == Current.capture
           cap == c.cap + player.want
<1>0. /\ player.at = "grow" /\ player.at \in Busy
      /\ cap <= MaxBytes /\ c.bytes + 1 <= cap
  BY TypeOfPlayer DEF Grow, At, Busy, PlayerLocals
<1>1. cap \in Nat /\ cap \in Bytes /\ c.bytes + 1 \in Bytes
  BY <1>0, CurrentType, TypeOfPlayer DEF Bytes
<1>2. JobTypes'
  BY TypeOfPlayer DEF Grow, JobTypes, jobVars
<1>3. CASE Abort(player.p, "failed", player.want, "fill") /\ UNCHANGED size
  <2>1. AssetTypes'
    BY <1>3, TypeOfPlayer DEF Grow, AssetTypes
  <2> QED
    BY <1>0, <1>3, <2>1, CurrentType, AbortKeeps DEF Grow, PlayerPlaces
<1>4. ASSUME NEW b \in Blocks,
             size' = [size EXCEPT ![b] = cap],
             playback' = [playback EXCEPT ![player.p].capture =
                             [c EXCEPT !.block = b, !.cap = cap, !.bytes = @ + 1]],
             player' = [player EXCEPT !.at = "fill", !.want = 0],
             UNCHANGED <<usage, capturing, reserved>>
      PROVE  BudgetInv'
  <2> DEFINE d == [c EXCEPT !.block = b, !.cap = cap, !.bytes = c.bytes + 1]
  <2>1. d \in CaptureType /\ CaptureLocals(d)
    <3>1. c \in CaptureType /\ b # None
      BY <1>0, CurrentType, NoneAssumption
    <3> HIDE DEF cap
    <3> QED
      BY <1>0, <1>1, <3>1 DEF CaptureType, CaptureLocals
  <2>2. playback' = [playback EXCEPT ![player.p].capture = d]
    <3>1. d = [c EXCEPT !.block = b, !.cap = cap, !.bytes = @ + 1]
      BY <1>0, CurrentType DEF CaptureType
    <3> HIDE DEF d
    <3> QED
      BY <1>4, <3>1
  <2>3. /\ playback' \in [Playbacks -> PlaybackType]
        /\ (\A q \in Playbacks : CaptureLocals(playback[q].capture))'
        /\ \A q \in Playbacks : playback'[q].key = playback[q].key
    BY <1>0, <2>1, <2>2, CurrentType, CaptureChanges
  <2>4. player' \in PlayerType /\ player'.at = "fill" /\ player'.p = player.p
    BY <1>0, <1>4, CurrentType, SomeBytes DEF PlayerType, PlayerPlaces
  <2>5. PlayerLocals'
    BY <1>0, <2>3, <2>4, ThreadMoves
  <2>6. AssetTypes'
    BY <1>1, <1>4, TypeOfPlayer DEF Grow, AssetTypes
  <2>7. UsageType' /\ BookTypes' /\ UsedBytes' <= MaxBytes
    BY <1>0, <1>4, TypeOfPlayer DEF Grow, UsageType, BookTypes, UsedBytes
  <2> QED
    BY <1>2, <2>3, <2>4, <2>5, <2>6, <2>7, PlayerKeeps DEF Grow, PlayerTypes
<1> QED
  BY <1>3, <1>4 DEF Grow

(* Where the thread goes from the end of a file, or of a queue.             *)
LEMMA OnwardsType ==
    ASSUME BudgetInv, player.at \in Busy, NEW next \in {Leaves, Onwards}
    PROVE  /\ next \in PlayerType /\ next.at # "grow" /\ next.at # "closed"
           /\ next.at \in Busy => next.p = player.p
  BY ZenonT(60), CurrentType, FreshTypes DEF Leaves, Onwards, PlayerType, PlayerPlaces, Ready, Busy

LEMMA FilledKeeps ==
    ASSUME BudgetInv, Filled PROVE BudgetInv'
<1>0. player.at = "fill" /\ player.at \in Busy
  BY DEF Filled, At, Busy
<1>1. player' \in PlayerType /\ PlayerLocals'
  BY <1>0, OnwardsType, ThreadMoves DEF Filled
<1>2. AssetTypes' /\ UsageType' /\ JobTypes'
  BY TypeOfPlayer DEF Filled, AssetTypes, assetVars, UsageType, JobTypes, jobVars
<1>3. BookTypes' /\ UsedBytes' <= MaxBytes
  BY <1>0, TypeOfPlayer DEF Filled, BookTypes, bookVars, UsedBytes
<1> QED
  BY <1>1, <1>2, <1>3, PlaybacksStay, PlayerKeeps DEF Filled, PlayerTypes

(* A capture that is committed had reserved at least what it has.           *)
LEMMA CommitKeeps ==
    ASSUME BudgetInv, player.at = "fill", Current.capture.bytes = Size[Current.key],
           Commit, UNCHANGED <<jobVars, reclaiming, workerVars>>
    PROVE  BudgetInv'
<1> DEFINE c == Current.capture
<1>0. player.at \in Busy
  BY DEF Busy
<1>1. c.block \in Blocks /\ c.bytes \in Nat
  BY <1>0, CurrentType, SizeAssumption DEF CaptureType, CaptureLocals
<1>2. /\ playback' \in [Playbacks -> PlaybackType]
      /\ (\A q \in Playbacks : CaptureLocals(playback[q].capture))'
      /\ \A q \in Playbacks : playback'[q].key = playback[q].key
  BY <1>0, CurrentType, FreshTypes, CaptureChanges DEF Commit
<1>3. /\ player' \in PlayerType /\ player'.at # "grow" /\ player'.at # "closed"
      /\ player'.at \in Busy => player'.p = player.p
  <2>1. CASE player' = Onwards
    BY <1>0, <2>1, OnwardsType
  <2>2. CASE player' = [Onwards EXCEPT !.trash = c.block]
    BY <1>0, <1>1, <2>2, OnwardsType DEF PlayerType
  <2> QED
    BY <2>1, <2>2 DEF Commit
<1>4. PlayerLocals'
  BY <1>0, <1>2, <1>3, ThreadMoves
<1>5. AssetTypes'
  BY <1>0, <1>1, CurrentType, TypeOfPlayer DEF Commit, AssetTypes
<1>6. UsageType' /\ JobTypes'
  BY TypeOfPlayer DEF Commit, UsageType, JobTypes, jobVars
<1>7. BookTypes' /\ UsedBytes' <= MaxBytes
  BY <1>0, <1>1, CurrentType, TypeOfPlayer DEF Commit, BookTypes, UsedBytes
<1> QED
  BY <1>2, <1>3, <1>4, <1>5, <1>6, <1>7, PlayerKeeps DEF PlayerTypes

LEMMA SegmentEndsKeeps ==
    ASSUME BudgetInv, SegmentEnds PROVE BudgetInv'
<1>0. player.at = "fill" /\ player.at \in Busy
  BY DEF SegmentEnds, At, Busy
<1>1. CASE Current.capture.bytes = Size[Current.key] /\ Commit
  BY <1>0, <1>1, CommitKeeps DEF SegmentEnds
<1>2. CASE Abort(player.p, "failed", 0, Onwards.at) /\ UNCHANGED <<assetVars, resident>>
  <2>1. AssetTypes'
    BY <1>2, TypeOfPlayer DEF AssetTypes, assetVars
  <2>2. Onwards.at \in PlayerPlaces /\ Onwards.at # "grow"
    BY <1>0, OnwardsType DEF PlayerType
  <2> QED
    BY <1>0, <1>2, <2>1, <2>2, AbortKeeps DEF SegmentEnds
<1>3. CASE /\ player' = Onwards
           /\ UNCHANGED <<assetVars, usage, capturing, resident, reserved, playback>>
  <2>1. player' \in PlayerType /\ PlayerLocals'
    BY <1>0, <1>3, OnwardsType, ThreadMoves
  <2>2. AssetTypes' /\ UsageType' /\ JobTypes'
    BY <1>3, TypeOfPlayer DEF SegmentEnds, AssetTypes, assetVars, UsageType, JobTypes,
       jobVars
  <2>3. BookTypes' /\ UsedBytes' <= MaxBytes
    BY <1>0, <1>3, TypeOfPlayer DEF SegmentEnds, BookTypes, UsedBytes
  <2> QED
    BY <1>3, <2>1, <2>2, <2>3, PlaybacksStay, PlayerKeeps DEF SegmentEnds, PlayerTypes
<1> QED
  BY <1>1, <1>2, <1>3 DEF SegmentEnds

LEMMA ReleaseType ==
    ASSUME BudgetInv, NEW p \in Playbacks, NEW next \in PlayerType, Release(p, next)
    PROVE  /\ player' \in PlayerType /\ player'.at = next.at /\ player'.p = next.p
           /\ refs' \in [Blocks -> Int]
<1>1. playback[p].lease \in Blocks \union {None}
  BY TypeOfPlayer DEF PlayerTypes, PlaybackType
<1>2. refs' \in [Blocks -> Int]
  BY <1>1, TypeOfPlayer DEF Release, AssetTypes
<1>3. PICK b \in Blocks \union {None} : player' = [next EXCEPT !.trash = b]
  BY <1>1 DEF Release
<1> QED
  BY <1>2, <1>3 DEF PlayerType

LEMMA RestartKeeps ==
    ASSUME BudgetInv, Restart PROVE BudgetInv'
<1>0. player.at = "restart" /\ player.at \in Busy
  BY DEF Restart, At, Busy
<1> DEFINE next == [player EXCEPT !.at = "reacquire"]
<1>1. next \in PlayerType /\ next.at = "reacquire" /\ next.p = player.p
  BY <1>0, CurrentType DEF PlayerType, PlayerPlaces
<1>2. /\ player' \in PlayerType /\ player'.at = "reacquire" /\ player'.p = player.p
      /\ refs' \in [Blocks -> Int]
  <2>1. CASE Release(player.p, next)
    BY <1>0, <1>1, <2>1, CurrentType, ReleaseType
  <2>2. CASE refs' = refs /\ player' = next
    BY <1>1, <2>2, TypeOfPlayer DEF AssetTypes
  <2> QED
    BY <2>1, <2>2 DEF Restart
<1>3. PICK again \in BOOLEAN : playback' = [playback EXCEPT ![player.p] =
           [Current EXCEPT !.loop = again,
                           !.lease = IF Current.key \in PcmKeys THEN None ELSE @]]
  BY DEF Restart
<1> DEFINE lease == IF Current.key \in PcmKeys THEN None ELSE Current.lease
           r == [Current EXCEPT !.loop = again, !.lease = lease]
<1>4. lease \in Blocks \union {None} /\ Current \in PlaybackType
  BY <1>0, CurrentType DEF Current, PlaybackType
<1>5. r \in PlaybackType /\ r.capture = Current.capture /\ r.key = Current.key
  <2> HIDE DEF lease
  <2> QED
    BY <1>4 DEF PlaybackType
<1>6. playback' = [playback EXCEPT ![player.p] = r]
  <2>1. [Current EXCEPT !.loop = again,
                        !.lease = IF Current.key \in PcmKeys THEN None ELSE @] = r
    BY <1>4 DEF PlaybackType
  <2> QED
    BY <1>3, <2>1
<1>7. /\ playback' \in [Playbacks -> PlaybackType]
      /\ (\A q \in Playbacks : CaptureLocals(playback[q].capture))'
      /\ playback'[player.p] = r
      /\ \A q \in Playbacks \ {player.p} : playback'[q] = playback[q]
  <2> HIDE DEF r
  <2> QED
    BY <1>0, <1>5, <1>6, CurrentType, PlaybackChanges
<1>8. PlayerLocals'
  BY <1>0, <1>2, <1>5, <1>7, ThreadMoves DEF Current
<1>9. AssetTypes' /\ UsageType' /\ JobTypes'
  BY <1>2, TypeOfPlayer DEF Restart, AssetTypes, UsageType, JobTypes, jobVars
<1>10. BookTypes' /\ UsedBytes' <= MaxBytes
  BY <1>0, TypeOfPlayer DEF Restart, BookTypes, bookVars, UsedBytes
<1> QED
  BY <1>2, <1>7, <1>8, <1>9, <1>10, PlayerKeeps DEF Restart, PlayerTypes

LEMMA ReacquireKeeps ==
    ASSUME BudgetInv, Reacquire PROVE BudgetInv'
<1>0. player.at = "reacquire" /\ player.at \in Busy
  BY DEF Reacquire, At, Busy
<1>1. /\ player' \in PlayerType /\ player'.p = player.p
      /\ player'.at \in {"fill", "reschedule"}
  <2>1. PICK at \in {"fill", "reschedule"} : player' = [player EXCEPT !.at = at]
    BY DEF Reacquire
  <2> QED
    BY <1>0, <2>1, CurrentType DEF PlayerType, PlayerPlaces
<1>2. /\ playback' \in [Playbacks -> PlaybackType]
      /\ (\A q \in Playbacks : CaptureLocals(playback[q].capture))'
      /\ \A q \in Playbacks : playback'[q].key = playback[q].key
  <2>1. CASE UNCHANGED playback
    BY <2>1, PlaybacksStay
  <2>2. CASE LeaseTo(player.p, entry[Current.key])
    <3> DEFINE r == [Current EXCEPT !.lease = entry[Current.key]]
    <3>1. entry[Current.key] \in Blocks \union {None} /\ Current \in PlaybackType
      BY <1>0, CurrentType, TypeOfPlayer DEF AssetTypes, Current
    <3>2. r \in PlaybackType /\ r.capture = Current.capture /\ r.key = Current.key
      BY <3>1 DEF PlaybackType
    <3>3. playback' = [playback EXCEPT ![player.p] = r]
      BY <1>0, <2>2, CurrentType, TypeOfPlayer DEF LeaseTo, PlayerTypes, Current
    <3>4. /\ playback' \in [Playbacks -> PlaybackType]
          /\ (\A q \in Playbacks : CaptureLocals(playback[q].capture))'
          /\ playback'[player.p] = r
          /\ \A q \in Playbacks \ {player.p} : playback'[q] = playback[q]
      <4> HIDE DEF r
      <4> QED
        BY <1>0, <3>2, <3>3, CurrentType, PlaybackChanges
    <3> QED
      BY <3>2, <3>4 DEF Current
  <2> QED
    BY <2>1, <2>2 DEF Reacquire
<1>3. PlayerLocals'
  BY <1>0, <1>1, <1>2, ThreadMoves
<1>4. AssetTypes'
  BY <1>0, CurrentType, TypeOfPlayer DEF Reacquire, AssetTypes
<1>5. UsageType'
  <2> DEFINE k == Current.key
             u == [usage[k] EXCEPT !.fresh = Used(k)]
             U == [plays : 0 .. 2, fresh : BOOLEAN, tooLarge : BOOLEAN, backoff : BOOLEAN]
  <2>1. k \in Keys /\ usage \in [Keys -> U] /\ usage[k] \in U /\ Used(k) \in BOOLEAN
    BY <1>0, CurrentType, TypeOfPlayer DEF UsageType, Used
  <2>2. u \in U
    BY <2>1
  <2>3. UNCHANGED usage \/ usage' = [usage EXCEPT ![k] = u]
    BY <2>1 DEF Reacquire
  <2> QED
    <3> HIDE DEF u, k
    <3> QED
      BY <2>1, <2>2, <2>3 DEF UsageType
<1>6. JobTypes' /\ BookTypes' /\ UsedBytes' <= MaxBytes
  BY <1>0, TypeOfPlayer DEF Reacquire, JobTypes, jobVars, BookTypes, bookVars, UsedBytes
<1> QED
  BY <1>1, <1>2, <1>3, <1>4, <1>5, <1>6, PlayerKeeps DEF Reacquire, PlayerTypes

LEMMA ScheduleKeeps ==
    ASSUME BudgetInv, Schedule PROVE BudgetInv'
<1>0. player.at \in {"schedule", "reschedule"} /\ player.at \in Busy
  BY DEF Schedule, At, Busy
<1>1. /\ player' \in PlayerType /\ player'.at \in {"ready", "fill"}
      /\ player'.at = "fill" => player'.p = player.p
  BY <1>0, CurrentType, FreshTypes DEF Schedule, PlayerType, PlayerPlaces, Ready
<1>2. PlayerLocals'
  BY <1>0, <1>1, ThreadMoves DEF Schedule, Busy
<1>3. UsageType'
  <2> DEFINE U == [plays : 0 .. 2, fresh : BOOLEAN, tooLarge : BOOLEAN, backoff : BOOLEAN]
  <2>1. player.minimum \in {0, 2} /\ Current.key \in Keys /\ usage \in [Keys -> U]
    BY <1>0, CurrentType, TypeOfPlayer DEF PlayerType, UsageType
  <2>2. PICK n \in {0, 2} : usage' = [usage EXCEPT ![Current.key] =
            IF Used(Current.key) /\ usage[Current.key].plays < n
            THEN [usage[Current.key] EXCEPT !.plays = n, !.fresh = TRUE]
            ELSE usage[Current.key]]
    BY <2>1 DEF Schedule
  <2>3. n \in 0 .. 2
    OBVIOUS
  <2> QED
    BY <2>1, <2>2, <2>3 DEF UsageType
<1>4. JobTypes'
  <2>1. CASE UNCHANGED <<building, queue>>
    BY <2>1, TypeOfPlayer DEF Schedule, JobTypes
  <2>2. CASE Enqueue(Current.key)
    <3> DEFINE k == Current.key
    <3>1. k \in Keys /\ queue \in Seq(Keys)
      BY <1>0, CurrentType, TypeOfPlayer DEF JobTypes
    <3>2. queue \o <<k>> \in Seq(Keys)
      <4> HIDE DEF k
      <4> QED
        BY <3>1
    <3>3. building' \in {building, building \union {k}}
          /\ queue' \in {queue, queue \o <<k>>} /\ closing' = closing
      BY <2>2 DEF Enqueue, Schedule
    <3> HIDE DEF k
    <3> QED
      BY <3>1, <3>2, <3>3, TypeOfPlayer DEF JobTypes
  <2> QED
    BY <2>1, <2>2 DEF Schedule
<1>5. AssetTypes' /\ BookTypes' /\ UsedBytes' <= MaxBytes
  BY <1>0, TypeOfPlayer DEF Schedule, AssetTypes, assetVars, BookTypes, bookVars,
     UsedBytes
<1> QED
  BY <1>1, <1>2, <1>3, <1>4, <1>5, PlaybacksStay, PlayerKeeps DEF Schedule, PlayerTypes

LEMMA RefillKeeps ==
    ASSUME BudgetInv, NEW p \in Playbacks, Refill(p) PROVE BudgetInv'
<1>0. player.at = "ready" /\ playback[p].key \in Keys
  BY TypeOfPlayer DEF Refill, At, PlayerTypes, PlaybackType
<1> DEFINE c == playback[p].capture
<1>1. c \in CaptureType /\ c.cap \in Nat
  BY TypeOfPlayer DEF PlayerTypes, PlaybackType, CaptureType, Bytes
<1>2. /\ playback' \in [Playbacks -> PlaybackType]
      /\ (\A q \in Playbacks : CaptureLocals(playback[q].capture))'
      /\ \A q \in Playbacks : playback'[q].key = playback[q].key
  <2>1. CASE UNCHANGED playback
    BY <2>1, PlaybacksStay
  <2>2. CASE playback' = [playback EXCEPT ![p].capture = NoCapture]
    BY <2>2, FreshTypes, CaptureChanges
  <2> QED
    BY <2>1, <2>2 DEF Refill
<1>3. player' \in PlayerType /\ player'.at = "fill" /\ player'.p = p
  BY <1>1, FreshTypes DEF Refill, PlayerType, PlayerPlaces, Ready, CaptureType
<1>4. PlayerLocals'
  BY <1>0, <1>2, <1>3 DEF PlayerLocals, Current
<1>5. AssetTypes' /\ UsageType' /\ JobTypes'
  BY TypeOfPlayer DEF Refill, AssetTypes, assetVars, UsageType, JobTypes, jobVars
<1>6. BookTypes' /\ UsedBytes' <= MaxBytes
  BY <1>0, <1>1, TypeOfPlayer DEF Refill, BookTypes, UsedBytes
<1> QED
  BY <1>2, <1>3, <1>4, <1>5, <1>6, PlayerKeeps DEF Refill, PlayerTypes

LEMMA CloseKeeps ==
    ASSUME BudgetInv, NEW p \in Playbacks, Close(p) PROVE BudgetInv'
<1> DEFINE c == playback[p].capture
           next == IF player.at = "stopping" THEN player ELSE Ready
<1>0. player.at # "closed" /\ c \in CaptureType /\ c.cap \in Nat
  BY TypeOfPlayer DEF Close, MayClose, At, PlayerTypes, PlaybackType, CaptureType, Bytes
<1>1. /\ playback' \in [Playbacks -> PlaybackType]
      /\ (\A q \in Playbacks : CaptureLocals(playback[q].capture))'
  BY FreshTypes, PlaybackChanges DEF Close, NoPlayback
<1>2. next \in PlayerType /\ next.at \in {"ready", "stopping"}
  BY TypeOfPlayer, FreshTypes DEF PlayerTypes, Ready
<1>3. /\ player' \in PlayerType /\ player'.at \in {"ready", "stopping"}
      /\ refs' \in [Blocks -> Int]
  <2>1. CASE player' = [next EXCEPT !.trash = c.block] /\ UNCHANGED refs
    <3> HIDE DEF next
    <3> QED
      BY <1>0, <1>2, <2>1, TypeOfPlayer DEF PlayerType, CaptureType, AssetTypes
  <2>2. CASE Release(p, next)
    <3> HIDE DEF next
    <3> QED
      BY <1>2, <2>2, ReleaseType
  <2> QED
    BY <2>1, <2>2 DEF Close
<1>4. PlayerLocals'
  BY <1>3 DEF PlayerLocals, Busy
<1>5. AssetTypes' /\ UsageType' /\ JobTypes'
  BY <1>3, TypeOfPlayer DEF Close, AssetTypes, UsageType, JobTypes, jobVars
<1>6. BookTypes' /\ UsedBytes' <= MaxBytes
  BY <1>0, TypeOfPlayer DEF Close, BookTypes, UsedBytes
<1> QED
  BY <1>1, <1>3, <1>4, <1>5, <1>6, PlayerKeeps DEF Close, PlayerTypes

LEMMA EndKeeps ==
    ASSUME BudgetInv, Shutdown \/ CloseCache \/ FreeEntries PROVE BudgetInv'
<1>0. player \in PlayerType
  BY TypeOfPlayer DEF PlayerTypes
<1>1. player' \in PlayerType /\ player'.at \in {"stopping", "waiting", "closed"}
  BY <1>0, FreshTypes DEF Shutdown, CloseCache, FreeEntries, PlayerType, PlayerPlaces,
     Ready
<1>2. PlayerLocals'
  BY <1>1 DEF PlayerLocals, Busy
<1>3. AssetTypes'
  <2>1. CASE Shutdown \/ CloseCache
    BY <2>1, TypeOfPlayer DEF Shutdown, CloseCache, AssetTypes, assetVars
  <2>2. CASE FreeEntries
    BY <2>2, TypeOfPlayer DEF FreeEntries, AssetTypes
  <2> QED
    BY <2>1, <2>2
<1>4. UsageType' /\ JobTypes'
  BY TypeOfPlayer DEF Shutdown, CloseCache, FreeEntries, UsageType, JobTypes, jobVars
<1>5. BookTypes' /\ (player'.at = "closed" \/ UsedBytes' <= MaxBytes)
  BY <1>0, TypeOfPlayer DEF Shutdown, CloseCache, FreeEntries, At, BookTypes, bookVars,
     UsedBytes, PlayerType
<1> QED
  BY <1>1, <1>2, <1>3, <1>4, <1>5, PlaybacksStay, PlayerKeeps
     DEF Shutdown, CloseCache, FreeEntries, PlayerTypes

LEMMA TimeKeeps ==
    ASSUME BudgetInv, NEW k \in Keys, TimePasses(k) PROVE BudgetInv'
<1>1. UsageType'
  BY ZenonT(60), TypeOfPlayer DEF TimePasses, UsageType
<1>2. AssetTypes' /\ JobTypes'
  BY TypeOfPlayer DEF TimePasses, AssetTypes, assetVars, JobTypes, jobVars
<1>3. BookTypes' /\ (player'.at = "closed" \/ UsedBytes' <= MaxBytes)
  BY TypeOfPlayer DEF TimePasses, BookTypes, bookVars, UsedBytes, playerVars
<1>4. PlayerLocals' /\ player' \in PlayerType
  BY TypeOfPlayer DEF TimePasses, playerVars, PlayerLocals, Current, PlayerTypes
<1> QED
  BY <1>1, <1>2, <1>3, <1>4, PlaybacksStay, PlayerKeeps
     DEF TimePasses, playerVars, PlayerTypes

LEMMA StutterKeeps ==
    ASSUME BudgetInv, UNCHANGED vars PROVE BudgetInv'
<1>1. AssetTypes' /\ UsageType' /\ JobTypes'
  BY TypeOfPlayer DEF vars, AssetTypes, assetVars, UsageType, JobTypes, jobVars
<1>2. BookTypes' /\ (player'.at = "closed" \/ UsedBytes' <= MaxBytes)
  BY TypeOfPlayer DEF vars, BookTypes, bookVars, UsedBytes, playerVars
<1>3. PlayerLocals' /\ player' \in PlayerType
  BY TypeOfPlayer DEF vars, playerVars, PlayerLocals, Current, PlayerTypes
<1> QED
  BY <1>1, <1>2, <1>3, PlaybacksStay, PlayerKeeps DEF vars, playerVars, PlayerTypes

-----------------------------------------------------------------------------
LEMMA StepKeepsBudget == BudgetInv /\ [Next]_vars => BudgetInv'
<1> SUFFICES ASSUME BudgetInv, [Next]_vars PROVE BudgetInv'
  OBVIOUS
<1>1. CASE \E w \in Workers : WorkerStep(w)
  BY <1>1, WorkersKeepBudget
<1>2. CASE PlayerStep
  BY <1>2, BeginCaptureKeeps, FreeTrashKeeps, AppendKeeps, GrowKeeps, FilledKeeps,
     SegmentEndsKeeps, RestartKeeps, ReacquireKeeps, ScheduleKeeps, EndKeeps
     DEF PlayerStep
<1>3. CASE Shutdown \/ Closed \/ UNCHANGED vars
  BY <1>3, EndKeeps, StutterKeeps DEF Closed
<1>4. CASE \E p \in Playbacks : Refill(p) \/ Close(p)
  BY <1>4, RefillKeeps, CloseKeeps
<1>5. CASE \E p \in Playbacks, k \in Keys, loop \in BOOLEAN : Observe(p, k, loop)
  BY <1>5, ObserveKeeps
<1>6. CASE \E k \in Keys : TimePasses(k)
  BY <1>6, TimeKeeps
<1> QED
  BY <1>1, <1>2, <1>3, <1>4, <1>5, <1>6 DEF Next

(* Whatever is played, built, captured and evicted at the same time, the    *)
(* bytes the cache counts as used stay within its budget until it is closed *)
(* (cache_budget.go:104-150).                                               *)
THEOREM BudgetCorrect == Spec => []BudgetHolds
<1>1. BudgetInv => BudgetHolds
  BY DEF BudgetInv
<1> QED
  BY <1>1, InitBudget, StepKeepsBudget, PTL DEF Spec

-----------------------------------------------------------------------------
(***************************************************************************)
(* Induction over numbers: the library's induction theorems take an         *)
(* operator, which no prover here can instantiate.                          *)
(***************************************************************************)
(* A set of numbers has a least one.  The library's well-founded order of   *)
(* finite sets gives it: the least of the intervals that end in the set.    *)
LEMMA LeastNumber ==
    ASSUME NEW S \in SUBSET Nat, S # {}
    PROVE  \E m \in S : \A k \in S : m <= k
<1> DEFINE R == StrictSubsetOrdering(Nat)
           F == FiniteSubsetsOf(Nat)
           T == {0 .. n : n \in S}
<1>1. IsWellFoundedOn(R, F)
  BY FS_StrictSubsetOrderingWellFounded
<1>2. T \subseteq F
  <2>1. ASSUME NEW n \in S PROVE 0 .. n \in F
    BY FS_Interval DEF FiniteSubsetsOf
  <2> QED
    BY <2>1
<1>3. T # {}
  OBVIOUS
<1>4. PICK U \in T : \A V \in T : <<V, U>> \notin R
  <2> HIDE DEF R, F, T
  <2> QED
    BY <1>1, <1>2, <1>3, WFMin
<1>5. PICK m \in S : U = 0 .. m
  OBVIOUS
<1>6. ASSUME NEW k \in S, k < m PROVE FALSE
  <2>1. 0 .. k \in T
    OBVIOUS
  <2>2. /\ 0 .. k \subseteq 0 .. m /\ 0 .. k # 0 .. m
        /\ 0 .. k \in SUBSET Nat /\ 0 .. m \in SUBSET Nat
    <3>1. m \in 0 .. m /\ m \notin 0 .. k
      BY <1>6
    <3> QED
      BY <1>6, <3>1
  <2>3. <<0 .. k, 0 .. m>> \in R
    BY <2>2 DEF StrictSubsetOrdering
  <2> QED
    BY <1>4, <1>5, <2>1, <2>3
<1> QED
  BY <1>6

(* A set that has 0, and with each number below N the next, has 0 .. N.      *)
LEMMA UpTo ==
    ASSUME NEW N \in Nat, NEW S, 0 \in S,
           \A n \in 0 .. N : n \in S /\ n # N => n + 1 \in S
    PROVE  \A n \in 0 .. N : n \in S
<1> DEFINE Bad == {n \in 0 .. N : n \notin S}
<1> SUFFICES ASSUME Bad # {} PROVE FALSE
  OBVIOUS
<1>1. PICK m \in Bad : \A k \in Bad : m <= k
  <2>1. Bad \in SUBSET Nat
    OBVIOUS
  <2> QED
    BY <2>1, LeastNumber
<1>2. m \in 0 .. N /\ m # 0 /\ m \notin S
  OBVIOUS
<1>3. m - 1 \in 0 .. N /\ m - 1 \notin Bad
  BY <1>1, <1>2
<1> QED
  BY <1>2, <1>3

-----------------------------------------------------------------------------
(***************************************************************************)
(* Sums of functions: what SumFunction of the community modules adds up.    *)
(***************************************************************************)
(* One step of its recursion over the subsets of the domain.                *)
SumStep(f, g, s) ==
    IF s = {} THEN 0 ELSE f[CHOOSE x \in s : TRUE] + g[s \ {CHOOSE x \in s : TRUE}]

(* The partial sums of f over the subsets of S.                             *)
PartialSums(f, g, S) ==
    /\ g \in [SUBSET S -> Int]
    /\ \A s \in SUBSET S : g[s] = SumStep(f, g, s)

LEMMA SmallerByOne ==
    ASSUME NEW S, IsFiniteSet(S), NEW s \in SUBSET S, NEW x \in s
    PROVE  /\ s \ {x} \in SUBSET S /\ IsFiniteSet(s) /\ Cardinality(s) \in Nat \ {0}
           /\ Cardinality(s \ {x}) = Cardinality(s) - 1
<1>1. IsFiniteSet(s)
  BY FS_Subset
<1>2. Cardinality(s) \in Nat /\ s # {}
  BY <1>1, FS_CardinalityType
<1>3. Cardinality(s) # 0
  BY <1>1, <1>2, FS_EmptySet
<1>4. Cardinality(s \ {x}) = Cardinality(s) - 1
  BY <1>1, FS_RemoveElement
<1> QED
  BY <1>1, <1>2, <1>3, <1>4

LEMMA SumsExist ==
    ASSUME NEW S, IsFiniteSet(S), NEW f \in [S -> Int]
    PROVE  \E g : PartialSums(f, g, S)
<1> DEFINE N == Cardinality(S)
           Good(g, n) == \A s \in SUBSET S : Cardinality(s) <= n => g[s] = SumStep(f, g, s)
           R == {n \in 0 .. N : \E g \in [SUBSET S -> Int] : Good(g, n)}
<1>1. N \in Nat /\ \A s \in SUBSET S : Cardinality(s) \in 0 .. N
  BY FS_CardinalityType, FS_Subset
<1>2. ASSUME NEW s \in SUBSET S, s # {}
      PROVE  /\ (CHOOSE x \in s : TRUE) \in s
             /\ Cardinality(s \ {CHOOSE x \in s : TRUE}) = Cardinality(s) - 1
             /\ s \ {CHOOSE x \in s : TRUE} \in SUBSET S
  BY <1>2, SmallerByOne
<1>3. ASSUME NEW g \in [SUBSET S -> Int], NEW s \in SUBSET S
      PROVE  SumStep(f, g, s) \in Int
  <2>1. CASE s = {}
    BY <2>1 DEF SumStep
  <2>2. CASE s # {}
    <3>1. f[CHOOSE x \in s : TRUE] \in Int /\ g[s \ {CHOOSE x \in s : TRUE}] \in Int
      BY <1>2, <2>2
    <3> QED
      BY <2>2, <3>1 DEF SumStep
  <2> QED
    BY <2>1, <2>2
<1>4. 0 \in R
  <2> DEFINE g == [s \in SUBSET S |-> 0]
  <2>1. ASSUME NEW s \in SUBSET S, Cardinality(s) <= 0 PROVE g[s] = SumStep(f, g, s)
    <3>1. s = {}
      BY <1>1, <2>1, FS_Subset, FS_EmptySet
    <3> QED
      BY <3>1 DEF SumStep
  <2>2. g \in [SUBSET S -> Int]
    OBVIOUS
  <2>3. 0 \in 0 .. N
    BY <1>1
  <2> HIDE DEF g
  <2> QED
    BY <2>1, <2>2, <2>3
<1>5. ASSUME NEW n \in 0 .. N, n \in R, n # N PROVE n + 1 \in R
  <2>1. PICK g \in [SUBSET S -> Int] : Good(g, n)
    BY <1>5
  <2> DEFINE h == [s \in SUBSET S |-> IF Cardinality(s) <= n THEN g[s] ELSE SumStep(f, g, s)]
  <2>2. h \in [SUBSET S -> Int]
    BY <1>3
  <2>3. ASSUME NEW s \in SUBSET S, Cardinality(s) <= n + 1 PROVE h[s] = SumStep(f, h, s)
    <3>1. h[s] = SumStep(f, g, s)
      BY <2>1
    <3>2. SumStep(f, h, s) = SumStep(f, g, s)
      <4>1. CASE s = {}
        BY <4>1 DEF SumStep
      <4>2. CASE s # {}
        <5> DEFINE r == s \ {CHOOSE x \in s : TRUE}
        <5>1. r \in SUBSET S /\ Cardinality(r) <= n
          BY <1>1, <1>2, <2>3, <4>2
        <5>2. h[r] = g[r]
          BY <5>1
        <5> HIDE DEF h
        <5> QED
          BY <5>2 DEF SumStep
      <4> QED
        BY <4>1, <4>2
    <3> QED
      BY <3>1, <3>2
  <2>4. n + 1 \in 0 .. N
    BY <1>1, <1>5
  <2> HIDE DEF h
  <2> QED
    BY <2>2, <2>3, <2>4
<1>6. N \in R
  <2> HIDE DEF R
  <2>1. \A n \in 0 .. N : n \in R
    BY <1>1, <1>4, <1>5, UpTo
  <2> QED
    BY <1>1, <2>1
<1>7. PICK g \in [SUBSET S -> Int] : Good(g, N)
  BY <1>6
<1>8. \A s \in SUBSET S : g[s] = SumStep(f, g, s)
  BY <1>1, <1>7
<1> QED
  BY <1>8 DEF PartialSums

(* Induction over the subsets of a finite set, by their number of elements. *)
LEMMA SubsetInduction ==
    ASSUME NEW S, IsFiniteSet(S), NEW P, {} \in P,
           \A s \in SUBSET S : (\A x \in s : s \ {x} \in P) => s \in P
    PROVE  \A s \in SUBSET S : s \in P
<1> DEFINE N == Cardinality(S)
           R == {n \in 0 .. N : \A s \in SUBSET S : Cardinality(s) <= n => s \in P}
<1>1. N \in Nat /\ \A s \in SUBSET S : Cardinality(s) \in 0 .. N
  BY FS_CardinalityType, FS_Subset
<1>2. 0 \in R
  <2>1. ASSUME NEW s \in SUBSET S, Cardinality(s) <= 0 PROVE s \in P
    <3>1. s = {}
      BY <1>1, <2>1, FS_Subset, FS_EmptySet
    <3> QED
      BY <3>1
  <2> QED
    BY <1>1, <2>1
<1>3. ASSUME NEW n \in 0 .. N, n \in R, n # N PROVE n + 1 \in R
  <2>1. ASSUME NEW s \in SUBSET S, Cardinality(s) <= n + 1 PROVE s \in P
    <3>1. ASSUME NEW x \in s PROVE s \ {x} \in P
      <4>1. s \ {x} \in SUBSET S /\ Cardinality(s \ {x}) = Cardinality(s) - 1
        BY SmallerByOne
      <4>2. Cardinality(s \ {x}) <= n
        BY <1>1, <1>3, <2>1, <4>1
      <4> QED
        BY <1>3, <4>1, <4>2
    <3> QED
      BY <3>1
  <2>2. n + 1 \in 0 .. N
    BY <1>1, <1>3
  <2> QED
    BY <2>1, <2>2
<1>4. N \in R
  <2> HIDE DEF R
  <2>1. \A n \in 0 .. N : n \in R
    BY <1>1, <1>2, <1>3, UpTo
  <2> QED
    BY <1>1, <2>1
<1> QED
  BY <1>1, <1>4

LEMMA SumIsPartial ==
    ASSUME NEW S, IsFiniteSet(S), NEW f \in [S -> Int]
    PROVE  \E g : PartialSums(f, g, S) /\ SumFunction(f) = g[S]
<1> DEFINE Iter(i) == [s \in SUBSET S |-> SumStep(f, i, s)]
           g == CHOOSE i : i = Iter(i)
<1>1. PICK h : PartialSums(f, h, S)
  BY SumsExist
<1>2. h = Iter(h)
  BY <1>1 DEF PartialSums
<1>3. g = Iter(g)
  <2> HIDE DEF Iter
  <2> QED
    BY <1>2
<1>4. SumFunction(f) = g[S]
  BY DEF SumFunction, SumFunctionOnSet, FoldFunctionOnSet, MapThenFoldSet, SumStep
<1> HIDE DEF g
<1>5. \A s \in SUBSET S : g[s] = SumStep(f, g, s)
  BY <1>3
<1>6. \A s \in SUBSET S : g[s] = h[s]
  <2> DEFINE P == {s \in SUBSET S : g[s] = h[s]}
  <2>1. {} \in P
    BY <1>1, <1>5 DEF PartialSums, SumStep
  <2>2. ASSUME NEW s \in SUBSET S, \A x \in s : s \ {x} \in P PROVE s \in P
    <3>1. CASE s = {}
      BY <2>1, <3>1
    <3>2. CASE s # {}
      <4> DEFINE c == CHOOSE x \in s : TRUE
      <4>1. c \in s
        BY <3>2
      <4> HIDE DEF c
      <4>2. g[s \ {c}] = h[s \ {c}]
        BY <2>2, <4>1
      <4>3. SumStep(f, g, s) = SumStep(f, h, s)
        BY <4>2 DEF SumStep, c
      <4>4. g[s] = SumStep(f, g, s) /\ h[s] = SumStep(f, h, s)
        BY <1>1, <1>5 DEF PartialSums
      <4> QED
        BY <4>3, <4>4
    <3> QED
      BY <3>1, <3>2
  <2> HIDE DEF P
  <2>3. \A s \in SUBSET S : s \in P
    BY <2>1, <2>2, SubsetInduction
  <2> QED
    BY <2>3 DEF P
<1> QED
  BY <1>1, <1>4, <1>6

(* Whichever element is added last, the sum is the same.                    *)
LastTerms(S, f, g) == \A s \in SUBSET S : \A x \in s : g[s] = f[x] + g[s \ {x}]

LEMMA AnyLast ==
    ASSUME NEW S, IsFiniteSet(S), NEW f \in [S -> Int], NEW g, PartialSums(f, g, S)
    PROVE  LastTerms(S, f, g)
<1> DEFINE P == {s \in SUBSET S : \A x \in s : g[s] = f[x] + g[s \ {x}]}
<1>1. {} \in P
  OBVIOUS
<1>2. ASSUME NEW s \in SUBSET S, \A x \in s : s \ {x} \in P PROVE s \in P
  <2>1. ASSUME NEW x \in s PROVE g[s] = f[x] + g[s \ {x}]
    <3> DEFINE c == CHOOSE y \in s : TRUE
    <3>1. c \in s
      OBVIOUS
    <3>2. g[s] = f[c] + g[s \ {c}]
      BY <3>1 DEF PartialSums, SumStep
    <3> HIDE DEF c
    <3>3. CASE x = c
      BY <3>2, <3>3
    <3>4. CASE x # c
      <4> DEFINE t == (s \ {c}) \ {x}
      <4>1. t = (s \ {x}) \ {c} /\ x \in s \ {c} /\ c \in s \ {x} /\ t \in SUBSET S
        BY <3>1, <3>4
      <4>2. g[s \ {c}] = f[x] + g[t]
        BY <1>2, <3>1, <4>1
      <4>3. g[s \ {x}] = f[c] + g[t]
        BY <1>2, <4>1
      <4>4. f[x] \in Int /\ f[c] \in Int /\ g[t] \in Int
        BY <3>1, <4>1 DEF PartialSums
      <4> HIDE DEF t
      <4> QED
        BY <3>2, <4>2, <4>3, <4>4
    <3> QED
      BY <3>3, <3>4
  <2> QED
    BY <2>1
<1> HIDE DEF P
<1>3. \A s \in SUBSET S : s \in P
  BY <1>1, <1>2, SubsetInduction
<1> QED
  BY <1>3 DEF P, LastTerms

(* Where two functions agree, so do their sums.                             *)
LEMMA SameSums ==
    ASSUME NEW S, IsFiniteSet(S), NEW e \in [S -> Int], NEW f \in [S -> Int],
           NEW g, PartialSums(e, g, S), NEW h, PartialSums(f, h, S),
           NEW T \in SUBSET S, \A x \in T : e[x] = f[x]
    PROVE  g[T] = h[T]
<1> DEFINE P == {s \in SUBSET T : g[s] = h[s]}
<1>1. {} \in P
  BY DEF PartialSums, SumStep
<1>2. ASSUME NEW s \in SUBSET T, \A x \in s : s \ {x} \in P PROVE s \in P
  <2>1. CASE s = {}
    BY <1>1, <2>1
  <2>2. CASE s # {}
    <3>1. PICK x \in s : TRUE
      BY <2>2
    <3>2. LastTerms(S, e, g) /\ LastTerms(S, f, h)
      <4>1. LastTerms(S, e, g)
        BY AnyLast
      <4>2. LastTerms(S, f, h)
        BY AnyLast
      <4> QED
        BY <4>1, <4>2
    <3>3. s \in SUBSET S
      OBVIOUS
    <3>4. g[s] = e[x] + g[s \ {x}]
      BY <3>1, <3>2, <3>3 DEF LastTerms
    <3>5. h[s] = f[x] + h[s \ {x}]
      BY <3>1, <3>2, <3>3 DEF LastTerms
    <3>6. g[s \ {x}] = h[s \ {x}] /\ e[x] = f[x]
      BY <1>2, <3>1
    <3> QED
      BY <3>4, <3>5, <3>6
  <2> QED
    BY <2>1, <2>2
<1>3. IsFiniteSet(T)
  BY FS_Subset
<1> HIDE DEF P
<1>4. \A s \in SUBSET T : s \in P
  BY <1>1, <1>2, <1>3, SubsetInduction
<1> QED
  BY <1>4 DEF P

(* What the proofs need of sums: changing one term changes the sum by the   *)
(* difference, and no terms sum up to nothing.                              *)
LEMMA SumType ==
    ASSUME NEW S, IsFiniteSet(S), NEW f \in [S -> Int]
    PROVE  SumFunction(f) \in Int
<1>1. PICK g : PartialSums(f, g, S) /\ SumFunction(f) = g[S]
  BY SumIsPartial
<1>2. S \in SUBSET S
  OBVIOUS
<1> QED
  BY <1>1, <1>2 DEF PartialSums

LEMMA SumChanges ==
    ASSUME NEW S, IsFiniteSet(S), NEW e \in [S -> Int], NEW f \in [S -> Int],
           NEW x \in S, \A y \in S : y # x => f[y] = e[y]
    PROVE  SumFunction(f) = SumFunction(e) - e[x] + f[x]
<1>1. PICK g : PartialSums(e, g, S) /\ SumFunction(e) = g[S]
  BY SumIsPartial
<1>2. PICK h : PartialSums(f, h, S) /\ SumFunction(f) = h[S]
  BY SumIsPartial
<1>3. g[S] = e[x] + g[S \ {x}] /\ h[S] = f[x] + h[S \ {x}]
  <2>1. PICK s \in SUBSET S : s = S
    OBVIOUS
  <2>2. x \in s
    BY <2>1
  <2>3. PartialSums(e, g, S) /\ PartialSums(f, h, S)
    BY <1>1, <1>2
  <2>a. LastTerms(S, e, g)
    BY <2>3, AnyLast
  <2>b. LastTerms(S, f, h)
    BY <2>3, AnyLast
  <2>4. g[s] = e[x] + g[s \ {x}]
    BY <2>2, <2>a DEF LastTerms
  <2>5. h[s] = f[x] + h[s \ {x}]
    BY <2>2, <2>b DEF LastTerms
  <2> QED
    BY <2>1, <2>4, <2>5
<1> DEFINE T == S \ {x}
<1>4. T \in SUBSET S /\ \A y \in T : e[y] = f[y]
  OBVIOUS
<1>5. g[T] = h[T]
  <2> HIDE DEF T
  <2> QED
    BY <1>1, <1>2, <1>4, SameSums
<1>6. g[T] \in Int /\ e[x] \in Int /\ f[x] \in Int
  BY <1>1, <1>4 DEF PartialSums
<1> QED
  BY <1>1, <1>2, <1>3, <1>5, <1>6

LEMMA SumOfNothing ==
    ASSUME NEW S, IsFiniteSet(S), NEW f \in [S -> Int], \A x \in S : f[x] = 0
    PROVE  SumFunction(f) = 0
<1>1. PICK g : PartialSums(f, g, S) /\ SumFunction(f) = g[S]
  BY SumIsPartial
<1> DEFINE P == {s \in SUBSET S : g[s] = 0}
<1>2. {} \in P
  BY <1>1 DEF PartialSums, SumStep
<1>3. ASSUME NEW s \in SUBSET S, \A x \in s : s \ {x} \in P PROVE s \in P
  <2>1. CASE s = {}
    BY <1>2, <2>1
  <2>2. CASE s # {}
    <3>1. PICK x \in s : TRUE
      BY <2>2
    <3>2. LastTerms(S, f, g)
      BY <1>1, AnyLast
    <3>3. s \in SUBSET S
      OBVIOUS
    <3>4. g[s] = f[x] + g[s \ {x}]
      BY <3>1, <3>2, <3>3 DEF LastTerms
    <3> QED
      BY <1>3, <3>1, <3>4
  <2> QED
    BY <2>1, <2>2
<1> HIDE DEF P
<1>4. \A s \in SUBSET S : s \in P
  BY <1>2, <1>3, SubsetInduction
<1> QED
  BY <1>1, <1>4 DEF P

-----------------------------------------------------------------------------
(***************************************************************************)
(* The caches keep their word, for any set of files, of any sizes, and any  *)
(* number of workers and playbacks.                                        *)
(*                                                                         *)
(* The invariant adds to that of the budget who holds each block, which     *)
(* producer stands behind each key that is being built or captured, what    *)
(* each lease and each count is of, and how the cache ends.                 *)
(***************************************************************************)
(* Which locals of a worker are set where, beyond the budget's.             *)
Keyless == {"idle", "exited", "discard"}
Wanting == {"reserve", "reclaim", "allocate"}

WorkerFits(r) ==
    /\ r.pc \in Keyless <=> r.key = None
    /\ r.pc \in Keyless => r.res = 0 /\ r.want = 0
    /\ r.pc \in {"idle", "exited", "open"} => r.block = None
    /\ r.pc # "reclaim" => r.victim = None
    /\ r.pc \in Wanting => r.want >= 1
    /\ r.pc \in Wanting \union {"decode"} /\ r.key \in RawKeys => r.block = None
    /\ r.pc = "allocate" => r.key \in PcmKeys
    /\ r.pc = "decode" => r.res >= 1
    /\ r.outcome = "tooLarge" => r.key \in Keys /\ Size[r.key] > MaxBytes

(* A playback that is not there has nothing, and one that does not capture  *)
(* has no block for it.                                                     *)
PlaybackFits(x) ==
    /\ x.key = None => x = NoPlayback
    /\ ~x.capture.on => x.capture = NoCapture
    /\ x.capture.on => x.key \in PcmKeys

EveryoneFits ==
    /\ \A w \in Workers : WorkerFits(worker[w])
    /\ \A p \in Playbacks : PlaybackFits(playback[p])
    /\ player.at # "grow" => player.want = 0
    /\ player.at = "grow" => Current.capture.on

(* The cache closes after the last playback, and is closed after the last   *)
(* worker.                                                                  *)
EndFits ==
    /\ closing <=> player.at \in {"waiting", "closed"}
    /\ closing => player.trash = None /\ \A p \in Playbacks : playback[p].key = None
    /\ \A w \in Workers : worker[w].pc = "exited" => closing /\ queue = <<>>
    /\ player.at = "closed" => /\ \A w \in Workers : worker[w].pc = "exited"
                               /\ \A k \in Keys : entry[k] = None

(* Everyone who may hold a block, and the block.                            *)
Holders == ({"entry"} \X Keys) \union ({"block", "victim"} \X Workers)
           \union ({"capture"} \X Playbacks) \union {<<"trash", None>>}

HeldOf(assets, workers, playbacks, trash) ==
    [x \in Holders |->
       CASE x[1] = "entry"   -> assets[x[2]]
         [] x[1] = "block"   -> workers[x[2]].block
         [] x[1] = "victim"  -> workers[x[2]].victim
         [] x[1] = "capture" -> playbacks[x[2]].capture.block
         [] OTHER            -> trash]

Held == HeldOf(entry, worker, playback, player.trash)

(* No block has two holders, and the blocks that have one are allocated.    *)
HeldFits ==
    /\ \A x, y \in Holders : Held[x] = Held[y] /\ Held[x] # None => x = y
    /\ \A b \in Blocks : size[b] > 0 <=> \E x \in Holders : Held[x] = b

(* What is leased is in the cache, and refs counts the leases.              *)
LeasesFit ==
    /\ \A p \in Playbacks : playback[p].lease # None =>
          playback[p].key \in Keys /\ entry[playback[p].key] = playback[p].lease
    /\ \A b \in Blocks : refs[b] = Cardinality(Leases(b))

(* The producers: jobs, workers and captures, one for each key that is      *)
(* being built or captured.                                                 *)
BuildersFit ==
    /\ \A i \in 1 .. Len(queue) : queue[i] \in building
    /\ \A i, j \in 1 .. Len(queue) : queue[i] = queue[j] => i = j
    /\ \A w \in Workers : worker[w].key # None =>
          /\ worker[w].key \in building
          /\ \A i \in 1 .. Len(queue) : queue[i] # worker[w].key
          /\ \A v \in Workers : worker[v].key = worker[w].key => v = w
    /\ \A k \in building :
          \/ \E i \in 1 .. Len(queue) : queue[i] = k
          \/ \E w \in Workers : worker[w].key = k

CapturesFit ==
    /\ capturing \subseteq PcmKeys
    /\ \A p \in Playbacks : Capturing(p) =>
          /\ playback[p].key \in capturing
          /\ \A q \in Playbacks : Capturing(q) /\ playback[q].key = playback[p].key => q = p
    /\ \A k \in capturing : \E p \in Playbacks : Capturing(p) /\ playback[p].key = k

KeysFit ==
    /\ capturing \intersect building = {}
    /\ \A k \in building \union capturing : entry[k] = None

(* A build that ends well has trimmed its block.                            *)
SizesFit ==
    \A w \in Workers : worker[w].pc = "finish" /\ worker[w].outcome = "ok" =>
        size[worker[w].block] = Size[worker[w].key]

SoundInv ==
    /\ BudgetInv /\ EveryoneFits /\ EndFits /\ HeldFits /\ LeasesFit /\ BuildersFit
    /\ CapturesFit /\ KeysFit /\ SizesFit /\ BooksBalance /\ UsageOutlivesBuild
    /\ TooLargeIsTrue

(* What is known of the constants and, from the budget's invariant, of the  *)
(* types.                                                                   *)
LEMMA Numbers ==
    /\ PcmKeys \intersect RawKeys = {} /\ None \notin Keys
    /\ Keys = PcmKeys \union RawKeys
    /\ Size \in [Keys -> Nat \ {0}] /\ MaxBytes \in Nat
    /\ None \notin Workers /\ None \notin Playbacks /\ None \notin Blocks
    /\ IsFiniteSet(Keys) /\ IsFiniteSet(Workers) /\ IsFiniteSet(Playbacks) /\ Workers # {}
BY KeyAssumption, SizeAssumption, NoneAssumption, FiniteAssumption DEF Keys

LEMMA TypesOfAll ==
    ASSUME BudgetInv
    PROVE  /\ size \in [Blocks -> Nat] /\ refs \in [Blocks -> Int]
           /\ entry \in [Keys -> Blocks \union {None}]
           /\ building \subseteq Keys /\ queue \in Seq(Keys) /\ closing \in BOOLEAN
           /\ resident \in Int /\ reserved \in Int /\ reclaiming \in Int
           /\ worker \in [Workers -> WorkerType]
           /\ playback \in [Playbacks -> PlaybackType] /\ player \in PlayerType
BY DEF BudgetInv, Shape, AssetTypes, JobTypes, BookTypes, WorkerTypes, PlayerTypes

LEMMA WorkerFields ==
    ASSUME NEW r \in WorkerType
    PROVE  /\ r.pc \in WorkerPlaces /\ r.key \in Keys \union {None}
           /\ r.want \in Nat /\ r.res \in Nat
           /\ r.block \in Blocks \union {None} /\ r.victim \in Blocks \union {None}
BY SizeAssumption DEF WorkerType, Bytes

LEMMA PlaybackFields ==
    ASSUME NEW x \in PlaybackType
    PROVE  /\ x.key \in Keys \union {None} /\ x.lease \in Blocks \union {None}
           /\ x.capture \in CaptureType /\ x.capture.block \in Blocks \union {None}
           /\ x.capture.bytes \in Nat /\ x.capture.cap \in Nat /\ x.capture.on \in BOOLEAN
           /\ x.loop \in BOOLEAN /\ x.direct \in BOOLEAN
BY SizeAssumption DEF PlaybackType, CaptureType, Bytes

-----------------------------------------------------------------------------
(* Who holds what: the blocks that are held change hands one at a time.     *)
LEMMA HeldBy ==
    ASSUME NEW a, NEW ws, NEW ps, NEW t
    PROVE  /\ \A k \in Keys : /\ <<"entry", k>> \in Holders
                              /\ HeldOf(a, ws, ps, t)[<<"entry", k>>] = a[k]
           /\ \A w \in Workers : /\ <<"block", w>> \in Holders /\ <<"victim", w>> \in Holders
                                 /\ HeldOf(a, ws, ps, t)[<<"block", w>>] = ws[w].block
                                 /\ HeldOf(a, ws, ps, t)[<<"victim", w>>] = ws[w].victim
           /\ \A p \in Playbacks : /\ <<"capture", p>> \in Holders
                                   /\ HeldOf(a, ws, ps, t)[<<"capture", p>>] = ps[p].capture.block
           /\ <<"trash", None>> \in Holders /\ HeldOf(a, ws, ps, t)[<<"trash", None>>] = t
<1>1. ASSUME NEW k \in Keys
      PROVE  <<"entry", k>> \in Holders /\ HeldOf(a, ws, ps, t)[<<"entry", k>>] = a[k]
  BY DEF Holders, HeldOf
<1>2. ASSUME NEW w \in Workers
      PROVE  /\ <<"block", w>> \in Holders /\ <<"victim", w>> \in Holders
             /\ HeldOf(a, ws, ps, t)[<<"block", w>>] = ws[w].block
             /\ HeldOf(a, ws, ps, t)[<<"victim", w>>] = ws[w].victim
  BY DEF Holders, HeldOf
<1>3. ASSUME NEW p \in Playbacks
      PROVE  /\ <<"capture", p>> \in Holders
             /\ HeldOf(a, ws, ps, t)[<<"capture", p>>] = ps[p].capture.block
  BY DEF Holders, HeldOf
<1>4. <<"trash", None>> \in Holders /\ HeldOf(a, ws, ps, t)[<<"trash", None>>] = t
  BY DEF Holders, HeldOf
<1> QED
  BY <1>1, <1>2, <1>3, <1>4

LEMMA HolderKinds ==
    ASSUME NEW x \in Holders
    PROVE  \/ \E k \in Keys : x = <<"entry", k>>
           \/ \E w \in Workers : x \in {<<"block", w>>, <<"victim", w>>}
           \/ \E p \in Playbacks : x = <<"capture", p>>
           \/ x = <<"trash", None>>
BY DEF Holders

(* The functions of a step that are told apart below: nobody, one holder    *)
(* less, one more, or a block that moves from x to y.                       *)
Fitting(h, s) ==
    /\ \A x, y \in Holders : h[x] = h[y] /\ h[x] # None => x = y
    /\ \A b \in Blocks : s[b] > 0 <=> \E x \in Holders : h[x] = b

LEMMA NobodyChanges ==
    ASSUME NEW h, NEW i, NEW s \in [Blocks -> Nat], NEW t \in [Blocks -> Nat], Fitting(h, s),
           \A x \in Holders : i[x] = h[x], \A b \in Blocks : t[b] > 0 <=> s[b] > 0
    PROVE  Fitting(i, t)
BY DEF Fitting

LEMMA OneLess ==
    ASSUME NEW h, NEW i, NEW s \in [Blocks -> Nat], NEW t \in [Blocks -> Nat], Fitting(h, s),
           NEW x \in Holders, h[x] \in Blocks, i[x] = None, t[h[x]] = 0,
           \A y \in Holders : y # x => i[y] = h[y],
           \A b \in Blocks : b # h[x] => (t[b] > 0 <=> s[b] > 0)
    PROVE  Fitting(i, t)
<1>0. None \notin Blocks
  BY Numbers
<1>1. \A y, z \in Holders : i[y] = i[z] /\ i[y] # None => y = z
  BY DEF Fitting
<1>2. ASSUME NEW b \in Blocks PROVE t[b] > 0 <=> \E y \in Holders : i[y] = b
  <2>1. CASE b = h[x]
    BY <1>0, <2>1 DEF Fitting
  <2>2. CASE b # h[x]
    BY <1>0, <2>2 DEF Fitting
  <2> QED
    BY <2>1, <2>2
<1> QED
  BY <1>1, <1>2 DEF Fitting

LEMMA OneMore ==
    ASSUME NEW h, NEW i, NEW s \in [Blocks -> Nat], NEW t \in [Blocks -> Nat], Fitting(h, s),
           NEW x \in Holders, h[x] = None, NEW b \in Blocks, i[x] = b, s[b] = 0, t[b] > 0,
           \A y \in Holders : y # x => i[y] = h[y],
           \A a \in Blocks : a # b => (t[a] > 0 <=> s[a] > 0)
    PROVE  Fitting(i, t)
<1>0. None \notin Blocks
  BY Numbers
<1>1. \A y \in Holders : h[y] # b
  BY DEF Fitting
<1>2. \A y, z \in Holders : i[y] = i[z] /\ i[y] # None => y = z
  BY <1>1 DEF Fitting
<1>3. ASSUME NEW a \in Blocks PROVE t[a] > 0 <=> \E y \in Holders : i[y] = a
  <2>1. CASE a = b
    BY <2>1 DEF Fitting
  <2>2. CASE a # b
    BY <1>0, <2>2 DEF Fitting
  <2> QED
    BY <2>1, <2>2
<1> QED
  BY <1>2, <1>3 DEF Fitting

LEMMA OneMoves ==
    ASSUME NEW h, NEW i, NEW s \in [Blocks -> Nat], NEW t \in [Blocks -> Nat], Fitting(h, s),
           NEW x \in Holders, NEW y \in Holders, x # y, h[x] \in Blocks, h[y] = None,
           i[x] = None, i[y] = h[x],
           \A z \in Holders : z \notin {x, y} => i[z] = h[z],
           \A b \in Blocks : t[b] > 0 <=> s[b] > 0
    PROVE  Fitting(i, t)
<1>0. None \notin Blocks
  BY Numbers
<1>1. \A u, z \in Holders : i[u] = i[z] /\ i[u] # None => u = z
  BY DEF Fitting
<1>2. ASSUME NEW b \in Blocks PROVE t[b] > 0 <=> \E z \in Holders : i[z] = b
  <2>1. CASE b = h[x]
    BY <2>1 DEF Fitting
  <2>2. CASE b # h[x]
    BY <1>0, <2>2 DEF Fitting
  <2> QED
    BY <2>1, <2>2
<1> QED
  BY <1>1, <1>2 DEF Fitting

-----------------------------------------------------------------------------
(* Who holds what, and the books, from one state to the next.               *)
LEMMA HeldNow ==
    /\ \A k \in Keys : <<"entry", k>> \in Holders /\ Held[<<"entry", k>>] = entry[k]
    /\ \A w \in Workers : /\ <<"block", w>> \in Holders /\ Held[<<"block", w>>] = worker[w].block
                          /\ <<"victim", w>> \in Holders /\ Held[<<"victim", w>>] = worker[w].victim
    /\ \A p \in Playbacks : /\ <<"capture", p>> \in Holders
                            /\ Held[<<"capture", p>>] = playback[p].capture.block
    /\ <<"trash", None>> \in Holders /\ Held[<<"trash", None>>] = player.trash
BY HeldBy DEF Held

LEMMA HeldNext ==
    /\ \A k \in Keys : Held'[<<"entry", k>>] = entry'[k]
    /\ \A w \in Workers : /\ Held'[<<"block", w>>] = worker'[w].block
                          /\ Held'[<<"victim", w>>] = worker'[w].victim
    /\ \A p \in Playbacks : Held'[<<"capture", p>>] = playback'[p].capture.block
    /\ Held'[<<"trash", None>>] = player'.trash
BY HeldBy DEF Held

(* Holders outside D hold what they held.                                   *)
HeldOutside(D) ==
    /\ \A k \in Keys : <<"entry", k>> \notin D => entry'[k] = entry[k]
    /\ \A w \in Workers : /\ <<"block", w>> \notin D => worker'[w].block = worker[w].block
                          /\ <<"victim", w>> \notin D => worker'[w].victim = worker[w].victim
    /\ \A p \in Playbacks : <<"capture", p>> \notin D =>
          playback'[p].capture.block = playback[p].capture.block
    /\ <<"trash", None>> \notin D => player'.trash = player.trash

LEMMA OthersHold ==
    ASSUME NEW D, HeldOutside(D)
    PROVE  \A x \in Holders : x \notin D => Held'[x] = Held[x]
<1> SUFFICES ASSUME NEW x \in Holders, x \notin D PROVE Held'[x] = Held[x]
  OBVIOUS
<1>1. CASE \E k \in Keys : x = <<"entry", k>>
  <2>1. PICK k \in Keys : x = <<"entry", k>>
    BY <1>1
  <2> QED
    BY <2>1, HeldNow, HeldNext DEF HeldOutside
<1>2. CASE \E w \in Workers : x \in {<<"block", w>>, <<"victim", w>>}
  <2>1. PICK w \in Workers : x \in {<<"block", w>>, <<"victim", w>>}
    BY <1>2
  <2>2. /\ Held[<<"block", w>>] = worker[w].block /\ Held[<<"victim", w>>] = worker[w].victim
        /\ Held'[<<"block", w>>] = worker'[w].block /\ Held'[<<"victim", w>>] = worker'[w].victim
    BY <2>1, HeldNow, HeldNext
  <2>3. /\ <<"block", w>> \notin D => worker'[w].block = worker[w].block
        /\ <<"victim", w>> \notin D => worker'[w].victim = worker[w].victim
    BY <2>1 DEF HeldOutside
  <2> QED
    BY <2>1, <2>2, <2>3
<1>3. CASE \E p \in Playbacks : x = <<"capture", p>>
  <2>1. PICK p \in Playbacks : x = <<"capture", p>>
    BY <1>3
  <2> QED
    BY <2>1, HeldNow, HeldNext DEF HeldOutside
<1>4. CASE x = <<"trash", None>>
  BY <1>4, HeldNow, HeldNext DEF HeldOutside
<1> QED
  BY <1>1, <1>2, <1>3, <1>4, HolderKinds

LEMMA HeldIsFitting ==
    /\ HeldFits <=> Fitting(Held, size)
    /\ HeldFits' <=> Fitting(Held', size')
BY DEF HeldFits, Fitting

LEMMA SizeTypes ==
    ASSUME BudgetInv, BudgetInv'
    PROVE  size \in [Blocks -> Nat] /\ size' \in [Blocks -> Nat]
BY DEF BudgetInv, Shape, AssetTypes

LEMMA HeldStays ==
    ASSUME BudgetInv, BudgetInv', HeldFits, HeldOutside({}),
           \A b \in Blocks : size'[b] > 0 <=> size[b] > 0
    PROVE  HeldFits'
<1>1. \A x \in Holders : Held'[x] = Held[x]
  BY OthersHold
<1> QED
  BY <1>1, SizeTypes, HeldIsFitting, NobodyChanges

LEMMA HeldLess ==
    ASSUME BudgetInv, BudgetInv', HeldFits, NEW x \in Holders, HeldOutside({x}),
           Held[x] \in Blocks, Held'[x] = None,
           size'[Held[x]] = 0, \A b \in Blocks : b # Held[x] => (size'[b] > 0 <=> size[b] > 0)
    PROVE  HeldFits'
<1>1. \A y \in Holders : y # x => Held'[y] = Held[y]
  BY OthersHold
<1> QED
  BY <1>1, SizeTypes, HeldIsFitting, OneLess

LEMMA HeldMore ==
    ASSUME BudgetInv, BudgetInv', HeldFits, NEW x \in Holders, HeldOutside({x}),
           NEW b \in Blocks, Held[x] = None, Held'[x] = b, size[b] = 0, size'[b] > 0,
           \A a \in Blocks : a # b => (size'[a] > 0 <=> size[a] > 0)
    PROVE  HeldFits'
<1>1. \A y \in Holders : y # x => Held'[y] = Held[y]
  BY OthersHold
<1> QED
  BY <1>1, SizeTypes, HeldIsFitting, OneMore

LEMMA HeldMoves ==
    ASSUME BudgetInv, BudgetInv', HeldFits, NEW x \in Holders, NEW y \in Holders, x # y,
           HeldOutside({x, y}), Held[x] \in Blocks, Held[y] = None,
           Held'[x] = None, Held'[y] = Held[x],
           \A b \in Blocks : size'[b] > 0 <=> size[b] > 0
    PROVE  HeldFits'
<1>1. \A z \in Holders : z \notin {x, y} => Held'[z] = Held[z]
  BY OthersHold
<1> QED
  BY <1>1, SizeTypes, HeldIsFitting, OneMoves

(* A block that one holds is allocated, and nobody else's.                  *)
LEMMA HeldAlone ==
    ASSUME BudgetInv, HeldFits, NEW x \in Holders, NEW b \in Blocks, Held[x] = b
    PROVE  /\ size[b] > 0
           /\ \A k \in Keys : entry[k] = b => x = <<"entry", k>>
           /\ \A w \in Workers : /\ worker[w].block = b => x = <<"block", w>>
                                 /\ worker[w].victim = b => x = <<"victim", w>>
           /\ \A p \in Playbacks : playback[p].capture.block = b => x = <<"capture", p>>
           /\ player.trash = b => x = <<"trash", None>>
<1>0. b # None
  BY Numbers
<1>1. \A y \in Holders : Held[y] = b => x = y
  BY <1>0 DEF HeldFits
<1>2. size[b] > 0
  BY DEF HeldFits
<1> QED
  BY ZenonT(60), <1>1, <1>2, HeldNow

LEMMA FreeIsNobodys ==
    ASSUME BudgetInv, HeldFits, NEW b \in Blocks, size[b] = 0
    PROVE  /\ \A k \in Keys : entry[k] # b
           /\ \A w \in Workers : worker[w].block # b /\ worker[w].victim # b
           /\ \A p \in Playbacks : playback[p].capture.block # b
           /\ player.trash # b
<1>1. \A y \in Holders : Held[y] # b
  BY DEF HeldFits
<1> QED
  BY <1>1, HeldNow

-----------------------------------------------------------------------------
(* The books: sums over the files, the workers and the playbacks.           *)
Assets == SumFunction([k \in Keys |-> SizeOf(entry[k])])
Builds == SumFunction([w \in Workers |-> Reserves(worker[w])])
Captures == SumFunction([p \in Playbacks |-> playback[p].capture.cap])
Victims == SumFunction([w \in Workers |-> SizeOf(worker[w].victim)])

LEMMA BooksAre ==
    /\ BooksBalance <=> /\ resident = Assets
                        /\ reserved = Builds + Captures + player.want
                        /\ reclaiming = Victims
    /\ BooksBalance' <=> /\ resident' = Assets'
                         /\ reserved' = Builds' + Captures' + player'.want
                         /\ reclaiming' = Victims'
BY DEF BooksBalance, Assets, Builds, Captures, Victims

LEMMA TermTypes ==
    ASSUME BudgetInv
    PROVE  /\ \A k \in Keys : SizeOf(entry[k]) \in Int
           /\ \A w \in Workers : Reserves(worker[w]) \in Int /\ SizeOf(worker[w].victim) \in Int
           /\ \A p \in Playbacks : playback[p].capture.cap \in Int
           /\ player.want \in Int
<1>1. \A b \in Blocks \union {None} : SizeOf(b) \in Int
  BY TypesOfAll DEF SizeOf
<1>2. ASSUME NEW w \in Workers
      PROVE  worker[w] \in WorkerType /\ Reserves(worker[w]) \in Int
  <2>1. worker[w] \in WorkerType
    BY TypesOfAll
  <2>2. worker[w].res \in Nat /\ worker[w].want \in Nat
    BY <2>1, WorkerFields
  <2> QED
    BY <2>1, <2>2 DEF Reserves
<1>3. ASSUME NEW p \in Playbacks PROVE playback[p].capture.cap \in Int
  BY TypesOfAll, PlaybackFields
<1>4. player.want \in Int
  BY TypesOfAll, SizeAssumption DEF PlayerType, Bytes
<1> QED
  BY <1>1, <1>2, <1>3, <1>4, TypesOfAll, WorkerFields

LEMMA SumTypes ==
    ASSUME BudgetInv
    PROVE  Assets \in Int /\ Builds \in Int /\ Captures \in Int /\ Victims \in Int
<1>1. /\ [k \in Keys |-> SizeOf(entry[k])] \in [Keys -> Int]
      /\ [w \in Workers |-> Reserves(worker[w])] \in [Workers -> Int]
      /\ [p \in Playbacks |-> playback[p].capture.cap] \in [Playbacks -> Int]
      /\ [w \in Workers |-> SizeOf(worker[w].victim)] \in [Workers -> Int]
  BY TermTypes
<1> QED
  BY <1>1, Numbers, SumType DEF Assets, Builds, Captures, Victims

LEMMA TermTypesNext ==
    ASSUME BudgetInv'
    PROVE  /\ \A k \in Keys : (SizeOf(entry[k]))' \in Int
           /\ \A w \in Workers : (Reserves(worker[w]))' \in Int /\ (SizeOf(worker[w].victim))' \in Int
           /\ \A p \in Playbacks : playback'[p].capture.cap \in Int
           /\ player'.want \in Int
<1>1. /\ size' \in [Blocks -> Nat] /\ entry' \in [Keys -> Blocks \union {None}]
      /\ worker' \in [Workers -> WorkerType]
      /\ playback' \in [Playbacks -> PlaybackType] /\ player' \in PlayerType
  BY DEF BudgetInv, Shape, AssetTypes, WorkerTypes, PlayerTypes
<1>2. \A b \in Blocks \union {None} : (IF b = None THEN 0 ELSE size'[b]) \in Int
  BY <1>1
<1>3. ASSUME NEW w \in Workers
      PROVE  (Reserves(worker[w]))' \in Int /\ (SizeOf(worker[w].victim))' \in Int
  <2>1. worker'[w] \in WorkerType
    BY <1>1
  <2>2. worker'[w].res \in Nat /\ worker'[w].want \in Nat
        /\ worker'[w].victim \in Blocks \union {None}
    BY <2>1, WorkerFields
  <2> QED
    BY <1>2, <2>2 DEF Reserves, SizeOf
<1>4. ASSUME NEW p \in Playbacks PROVE playback'[p].capture.cap \in Int
  BY <1>1, PlaybackFields
<1>5. player'.want \in Int
  BY <1>1, SizeAssumption DEF PlayerType, Bytes
<1>6. ASSUME NEW k \in Keys PROVE (SizeOf(entry[k]))' \in Int
  BY <1>1, <1>2 DEF SizeOf
<1> QED
  BY <1>3, <1>4, <1>5, <1>6

LEMMA AssetsChange ==
    ASSUME BudgetInv, BudgetInv', NEW k \in Keys,
           \A j \in Keys : j # k => (SizeOf(entry[j]))' = SizeOf(entry[j])
    PROVE  Assets' = Assets - SizeOf(entry[k]) + (SizeOf(entry[k]))'
<1> DEFINE e == [j \in Keys |-> SizeOf(entry[j])]
           f == [j \in Keys |-> (SizeOf(entry[j]))']
<1>1. e \in [Keys -> Int] /\ f \in [Keys -> Int]
  <2>1. \A j \in Keys : SizeOf(entry[j]) \in Int
    BY TermTypes
  <2>2. \A j \in Keys : (SizeOf(entry[j]))' \in Int
    BY TermTypesNext
  <2> QED
    BY <2>1, <2>2
<1>2. \A j \in Keys : j # k => f[j] = e[j]
  OBVIOUS
<1>3. Assets = SumFunction(e) /\ Assets' = SumFunction(f)
  BY DEF Assets
<1>4. e[k] = SizeOf(entry[k]) /\ f[k] = (SizeOf(entry[k]))'
  OBVIOUS
<1> HIDE DEF e, f
<1>5. SumFunction(f) = SumFunction(e) - e[k] + f[k]
  BY <1>1, <1>2, Numbers, SumChanges
<1> QED
  BY <1>3, <1>4, <1>5

-----------------------------------------------------------------------------
(* What stays, and the steps of the workers that only move them on.         *)
LEMMA AssetsStay ==
    ASSUME UNCHANGED entry, \A k \in Keys : entry[k] # None => size'[entry[k]] = size[entry[k]]
    PROVE  Assets' = Assets
<1>1. \A k \in Keys : (SizeOf(entry[k]))' = SizeOf(entry[k])
  BY DEF SizeOf
<1> QED
  BY <1>1 DEF Assets

LEMMA BuildsChange ==
    ASSUME BudgetInv, BudgetInv', NEW w \in Workers,
           \A v \in Workers : v # w => worker'[v] = worker[v]
    PROVE  Builds' = Builds - Reserves(worker[w]) + (Reserves(worker[w]))'
<1> DEFINE e == [v \in Workers |-> Reserves(worker[v])]
           f == [v \in Workers |-> (Reserves(worker[v]))']
<1>1. e \in [Workers -> Int] /\ f \in [Workers -> Int]
  <2>1. \A v \in Workers : Reserves(worker[v]) \in Int
    BY TermTypes
  <2>2. \A v \in Workers : (Reserves(worker[v]))' \in Int
    BY TermTypesNext
  <2> QED
    BY <2>1, <2>2
<1>2. \A v \in Workers : v # w => f[v] = e[v]
  BY DEF Reserves
<1>3. Builds = SumFunction(e) /\ Builds' = SumFunction(f)
  BY DEF Builds
<1>4. e[w] = Reserves(worker[w]) /\ f[w] = (Reserves(worker[w]))'
  OBVIOUS
<1> HIDE DEF e, f
<1>5. SumFunction(f) = SumFunction(e) - e[w] + f[w]
  BY <1>1, <1>2, Numbers, SumChanges
<1> QED
  BY <1>3, <1>4, <1>5

LEMMA CapturesChange ==
    ASSUME BudgetInv, BudgetInv', NEW p \in Playbacks,
           \A q \in Playbacks : q # p => playback'[q].capture.cap = playback[q].capture.cap
    PROVE  Captures' = Captures - playback[p].capture.cap + playback'[p].capture.cap
<1> DEFINE e == [q \in Playbacks |-> playback[q].capture.cap]
           f == [q \in Playbacks |-> playback'[q].capture.cap]
<1>1. e \in [Playbacks -> Int] /\ f \in [Playbacks -> Int]
  <2>1. \A q \in Playbacks : playback[q].capture.cap \in Int
    BY TermTypes
  <2>2. \A q \in Playbacks : playback'[q].capture.cap \in Int
    BY TermTypesNext
  <2> QED
    BY <2>1, <2>2
<1>2. \A q \in Playbacks : q # p => f[q] = e[q]
  OBVIOUS
<1>3. Captures = SumFunction(e) /\ Captures' = SumFunction(f)
  BY DEF Captures
<1>4. e[p] = playback[p].capture.cap /\ f[p] = playback'[p].capture.cap
  OBVIOUS
<1> HIDE DEF e, f
<1>5. SumFunction(f) = SumFunction(e) - e[p] + f[p]
  BY <1>1, <1>2, Numbers, SumChanges
<1> QED
  BY <1>3, <1>4, <1>5

LEMMA VictimsChange ==
    ASSUME BudgetInv, BudgetInv', NEW w \in Workers,
           \A v \in Workers : v # w => (SizeOf(worker[v].victim))' = SizeOf(worker[v].victim)
    PROVE  Victims' = Victims - SizeOf(worker[w].victim) + (SizeOf(worker[w].victim))'
<1> DEFINE e == [v \in Workers |-> SizeOf(worker[v].victim)]
           f == [v \in Workers |-> (SizeOf(worker[v].victim))']
<1>1. e \in [Workers -> Int] /\ f \in [Workers -> Int]
  <2>1. \A v \in Workers : SizeOf(worker[v].victim) \in Int
    BY TermTypes
  <2>2. \A v \in Workers : (SizeOf(worker[v].victim))' \in Int
    BY TermTypesNext
  <2> QED
    BY <2>1, <2>2
<1>2. \A v \in Workers : v # w => f[v] = e[v]
  OBVIOUS
<1>3. Victims = SumFunction(e) /\ Victims' = SumFunction(f)
  BY DEF Victims
<1>4. e[w] = SizeOf(worker[w].victim) /\ f[w] = (SizeOf(worker[w].victim))'
  OBVIOUS
<1> HIDE DEF e, f
<1>5. SumFunction(f) = SumFunction(e) - e[w] + f[w]
  BY <1>1, <1>2, Numbers, SumChanges
<1> QED
  BY <1>3, <1>4, <1>5

LEMMA VictimsStay ==
    ASSUME \A w \in Workers : worker'[w].victim = worker[w].victim,
           \A w \in Workers : worker[w].victim # None =>
              size'[worker[w].victim] = size[worker[w].victim]
    PROVE  Victims' = Victims
<1>1. \A w \in Workers : (SizeOf(worker[w].victim))' = SizeOf(worker[w].victim)
  BY DEF SizeOf
<1> QED
  BY <1>1 DEF Victims

LEMMA BuildsStay ==
    ASSUME \A w \in Workers : (Reserves(worker[w]))' = Reserves(worker[w])
    PROVE  Builds' = Builds
BY DEF Builds

LEMMA CapturesStay ==
    ASSUME \A p \in Playbacks : playback'[p].capture.cap = playback[p].capture.cap
    PROVE  Captures' = Captures
BY DEF Captures

-----------------------------------------------------------------------------
(* What a step that leaves the state of a part alone keeps of it.           *)
LEMMA BuildersStay ==
    ASSUME BuildersFit, UNCHANGED <<queue, building>>,
           \A v \in Workers : worker'[v].key = worker[v].key
    PROVE  BuildersFit'
BY DEF BuildersFit

LEMMA CapturesFitStay ==
    ASSUME CapturesFit, UNCHANGED capturing,
           \A p \in Playbacks : /\ playback'[p].capture.on = playback[p].capture.on
                                /\ playback[p].capture.on => playback'[p].key = playback[p].key
    PROVE  CapturesFit'
BY DEF CapturesFit, Capturing

LEMMA KeysStay ==
    ASSUME KeysFit, building' \subseteq building, capturing' \subseteq capturing,
           \A k \in building' \union capturing' : entry'[k] \in {entry[k], None}
    PROVE  KeysFit'
BY DEF KeysFit

LEMMA UsageStays ==
    ASSUME UsageOutlivesBuild, TooLargeIsTrue, UNCHANGED usage,
           building' \subseteq building, capturing' \subseteq capturing
    PROVE  UsageOutlivesBuild' /\ TooLargeIsTrue'
BY DEF UsageOutlivesBuild, TooLargeIsTrue, Used

LEMMA LeasesStay ==
    ASSUME LeasesFit, UNCHANGED refs,
           \A p \in Playbacks : /\ playback'[p].lease = playback[p].lease
                                /\ playback[p].lease # None => playback'[p].key = playback[p].key,
           \A p \in Playbacks : playback[p].lease # None =>
              entry'[playback[p].key] = entry[playback[p].key]
    PROVE  LeasesFit'
<1>1. \A b \in Blocks : (Leases(b))' = Leases(b)
  BY DEF Leases
<1>2. \A b \in Blocks : refs'[b] = Cardinality((Leases(b))')
  BY <1>1 DEF LeasesFit
<1>3. \A p \in Playbacks : playback'[p].lease # None =>
         playback'[p].key \in Keys /\ entry'[playback'[p].key] = playback'[p].lease
  BY DEF LeasesFit
<1> QED
  BY <1>2, <1>3 DEF LeasesFit

-----------------------------------------------------------------------------
(* A step of a worker leaves it in r, and the player thread alone.          *)
WorkerMoves(w, r) ==
    worker' = [worker EXCEPT ![w] = r] /\ UNCHANGED <<playback, player, capturing, closing>>

LEMMA WorkerIs ==
    ASSUME BudgetInv, NEW w \in Workers, NEW r, WorkerMoves(w, r)
    PROVE  /\ worker'[w] = r /\ \A v \in Workers : v # w => worker'[v] = worker[v]
           /\ playback' = playback /\ player' = player /\ capturing' = capturing
           /\ closing' = closing
BY TypesOfAll DEF WorkerMoves

LEMMA WorkerFrame ==
    ASSUME SoundInv, NEW w \in Workers, NEW r, WorkerMoves(w, r), WorkerFits(r),
           worker[w].pc # "exited", r.pc = "exited" => closing /\ queue' = <<>>,
           queue = <<>> => queue' = <<>>
    PROVE  EveryoneFits' /\ EndFits' /\ CapturesFit'
<1> USE DEF SoundInv
<1>1. /\ worker'[w] = r /\ \A v \in Workers : v # w => worker'[v] = worker[v]
      /\ playback' = playback /\ player' = player /\ capturing' = capturing
      /\ closing' = closing
  BY WorkerIs
<1>2. EveryoneFits'
  <2>1. \A v \in Workers : WorkerFits(worker'[v])
    BY <1>1 DEF EveryoneFits
  <2>2. \A p \in Playbacks : PlaybackFits(playback'[p])
    BY <1>1 DEF EveryoneFits
  <2>3. /\ player'.at # "grow" => player'.want = 0
        /\ player'.at = "grow" => (Current.capture.on)'
    BY <1>1 DEF EveryoneFits, Current
  <2> QED
    BY <2>1, <2>2, <2>3 DEF EveryoneFits
<1>3. EndFits'
  <2>1. player.at # "closed"
    BY DEF EndFits
  <2>2. \A v \in Workers : worker'[v].pc = "exited" => closing' /\ queue' = <<>>
    BY <1>1 DEF EndFits
  <2> QED
    BY <1>1, <2>1, <2>2 DEF EndFits
<1>4. CapturesFit'
  BY <1>1, CapturesFitStay
<1> QED
  BY <1>2, <1>3, <1>4

(* One block changes its size: that of x, or one that is nobody's.          *)
LEMMA OneSizeChanges ==
    ASSUME BudgetInv, HeldFits, NEW x \in Holders, NEW b \in Blocks, Held[x] = b \/ size[b] = 0,
           \A a \in Blocks : a # b => size'[a] = size[a]
    PROVE  /\ \A k \in Keys : x # <<"entry", k>> /\ entry[k] # None =>
                 size'[entry[k]] = size[entry[k]]
           /\ \A v \in Workers : x # <<"victim", v>> /\ worker[v].victim # None =>
                 size'[worker[v].victim] = size[worker[v].victim]
           /\ \A v \in Workers : x # <<"block", v>> /\ worker[v].block # None =>
                 size'[worker[v].block] = size[worker[v].block]
<1>1. /\ \A k \in Keys : x # <<"entry", k>> => entry[k] # b
      /\ \A v \in Workers : x # <<"victim", v>> => worker[v].victim # b
      /\ \A v \in Workers : x # <<"block", v>> => worker[v].block # b
  BY HeldAlone, FreeIsNobodys
<1>2. \A k \in Keys : entry[k] \in Blocks \union {None}
  BY TypesOfAll
<1>3. \A v \in Workers : worker[v].victim \in Blocks \union {None}
                         /\ worker[v].block \in Blocks \union {None}
  BY TypesOfAll, WorkerFields
<1> QED
  BY <1>1, <1>2, <1>3

LEMMA WorkerBooks ==
    ASSUME SoundInv, BudgetInv', NEW w \in Workers, NEW r, WorkerMoves(w, r)
    PROVE  /\ Builds' = Builds - Reserves(worker[w]) + Reserves(r)
           /\ Captures' = Captures /\ player'.want = player.want
<1>1. /\ worker'[w] = r /\ \A v \in Workers : v # w => worker'[v] = worker[v]
      /\ playback' = playback /\ player' = player
  BY WorkerIs DEF SoundInv
<1>2. Builds' = Builds - Reserves(worker[w]) + (Reserves(worker[w]))'
  BY <1>1, BuildsChange DEF SoundInv
<1>3. (Reserves(worker[w]))' = Reserves(r)
  BY <1>1 DEF Reserves
<1>4. Captures' = Captures
  BY <1>1, CapturesStay
<1> QED
  BY <1>1, <1>2, <1>3, <1>4

(* A worker that goes on holding what it holds, and reserves or releases.   *)
LEMMA WorkerReserves ==
    ASSUME SoundInv, BudgetInv', NEW w \in Workers, NEW r, WorkerMoves(w, r),
           UNCHANGED <<size, entry, refs, resident, reclaiming>>,
           r.block = worker[w].block, r.victim = worker[w].victim,
           reserved' = reserved - Reserves(worker[w]) + Reserves(r), Reserves(r) \in Int,
           r.pc = "finish" => r.outcome # "ok"
    PROVE  HeldFits' /\ LeasesFit' /\ SizesFit' /\ BooksBalance'
<1> USE DEF SoundInv
<1>1. /\ worker'[w] = r /\ \A v \in Workers : v # w => worker'[v] = worker[v]
      /\ playback' = playback /\ player' = player
  BY WorkerIs
<1>2. \A v \in Workers : worker'[v].block = worker[v].block /\ worker'[v].victim = worker[v].victim
  BY <1>1
<1>3. HeldFits'
  <2>1. HeldOutside({})
    BY <1>1, <1>2 DEF HeldOutside
  <2> QED
    BY <2>1, HeldStays
<1>4. LeasesFit'
  BY <1>1, LeasesStay
<1>5. SizesFit'
  BY <1>1 DEF SizesFit
<1>6. BooksBalance'
  <2>1. Assets' = Assets
    BY AssetsStay
  <2>2. Victims' = Victims
    BY <1>2, VictimsStay
  <2>3. /\ Builds' = Builds - Reserves(worker[w]) + Reserves(r)
        /\ Captures' = Captures /\ player'.want = player.want
    BY WorkerBooks
  <2>4. resident = Assets /\ reserved = Builds + Captures + player.want /\ reclaiming = Victims
    BY BooksAre
  <2>5. Builds \in Int /\ Captures \in Int /\ player.want \in Int /\ Reserves(worker[w]) \in Int
    BY SumTypes, TermTypes
  <2>6. reserved' = Builds' + Captures' + player'.want
    BY <2>3, <2>4, <2>5
  <2> QED
    BY <2>1, <2>2, <2>4, <2>6, BooksAre
<1> QED
  BY <1>3, <1>4, <1>5, <1>6

(* A worker that goes on with its job.                                      *)
LEMMA WorkerGoesOn ==
    ASSUME SoundInv, NEW w \in Workers, NEW r, WorkerMoves(w, r), WorkerFits(r),
           worker[w].pc # "exited", r.pc = "exited" => closing /\ queue = <<>>,
           UNCHANGED <<usage, building, queue>>, r.key = worker[w].key,
           \A k \in Keys : entry'[k] \in {entry[k], None}
    PROVE  /\ EveryoneFits' /\ EndFits' /\ CapturesFit' /\ BuildersFit' /\ KeysFit'
           /\ UsageOutlivesBuild' /\ TooLargeIsTrue'
<1> USE DEF SoundInv
<1>1. /\ worker'[w] = r /\ \A v \in Workers : v # w => worker'[v] = worker[v]
      /\ capturing' = capturing
  BY WorkerIs
<1>2. EveryoneFits' /\ EndFits' /\ CapturesFit'
  BY WorkerFrame
<1>3. BuildersFit'
  <2>1. \A v \in Workers : worker'[v].key = worker[v].key
    BY <1>1
  <2> QED
    BY <2>1, BuildersStay
<1>4. KeysFit'
  <2>1. building \subseteq Keys /\ capturing \subseteq Keys
    BY TypesOfAll, Numbers DEF CapturesFit
  <2> QED
    BY <1>1, <2>1, KeysStay
<1>5. UsageOutlivesBuild' /\ TooLargeIsTrue'
  BY <1>1, UsageStays
<1> QED
  BY <1>2, <1>3, <1>4, <1>5

(* Most steps of a worker are both.                                         *)
LEMMA PlainWorker ==
    ASSUME SoundInv, BudgetInv', NEW w \in Workers, NEW r, WorkerMoves(w, r), WorkerFits(r),
           worker[w].pc # "exited", r.pc = "exited" => closing /\ queue = <<>>,
           UNCHANGED <<size, entry, refs, usage, building, queue, resident, reclaiming>>,
           r.key = worker[w].key, r.block = worker[w].block, r.victim = worker[w].victim,
           reserved' = reserved - Reserves(worker[w]) + Reserves(r), Reserves(r) \in Int,
           r.pc = "finish" => r.outcome # "ok"
    PROVE  SoundInv'
<1>1. \A k \in Keys : entry'[k] \in {entry[k], None}
  OBVIOUS
<1>2. HeldFits' /\ LeasesFit' /\ SizesFit' /\ BooksBalance'
  BY WorkerReserves
<1>3. /\ EveryoneFits' /\ EndFits' /\ CapturesFit' /\ BuildersFit' /\ KeysFit'
      /\ UsageOutlivesBuild' /\ TooLargeIsTrue'
  BY <1>1, WorkerGoesOn
<1> QED
  BY <1>2, <1>3 DEF SoundInv

-----------------------------------------------------------------------------
(* The steps of the workers.                                                *)
LEMMA WorkerKnown ==
    ASSUME SoundInv, NEW w \in Workers
    PROVE  /\ BudgetInv /\ worker \in [Workers -> WorkerType] /\ worker[w] \in WorkerType
           /\ WorkerLocals(worker[w]) /\ WorkerFits(worker[w])
           /\ worker[w].res \in Nat /\ worker[w].want \in Nat /\ MaxBytes \in Nat
           /\ worker[w].block \in Blocks \union {None} /\ worker[w].victim \in Blocks \union {None}
           /\ size \in [Blocks -> Nat] /\ reserved \in Int /\ resident \in Int /\ reclaiming \in Int
BY TypesOfAll, TypeOfWorker, WorkerFields DEF SoundInv, EveryoneFits

LEMMA FinishedHasBlock ==
    ASSUME SoundInv, NEW v \in Workers, worker[v].pc = "finish", worker[v].outcome = "ok"
    PROVE  worker[v].block # None /\ size[worker[v].block] = Size[worker[v].key]
BY WorkerKnown, Numbers DEF WorkerLocals, SizesFit, SoundInv

LEMMA WorkerSizes ==
    ASSUME SoundInv, NEW w \in Workers,
           \A v \in Workers : v # w => worker'[v] = worker[v],
           \A v \in Workers : v # w /\ worker[v].block # None =>
              size'[worker[v].block] = size[worker[v].block],
           worker'[w].pc = "finish" /\ worker'[w].outcome = "ok" =>
              size'[worker'[w].block] = Size[worker'[w].key]
    PROVE  SizesFit'
<1> SUFFICES ASSUME NEW v \in Workers, worker'[v].pc = "finish", worker'[v].outcome = "ok"
             PROVE  size'[worker'[v].block] = Size[worker'[v].key]
  BY DEF SizesFit
<1>1. CASE v = w
  BY <1>1
<1>2. CASE v # w
  <2>1. worker'[v] = worker[v]
    BY <1>2
  <2>2. worker[v].block # None /\ size[worker[v].block] = Size[worker[v].key]
    BY <2>1, FinishedHasBlock
  <2> QED
    BY <1>2, <2>1, <2>2
<1> QED
  BY <1>1, <1>2

(* A worker that gives up keeps its block, and the reservation behind it.   *)
LEMMA GivingUp ==
    ASSUME SoundInv, NEW w \in Workers, worker[w].key \in Keys,
           worker[w].pc \in {"open", "reserve", "allocate", "decode"},
           NEW o \in {"failed", "budget", "closing", "tooLarge"}, GiveUp(w, o),
           o = "tooLarge" => Size[worker[w].key] > MaxBytes,
           UNCHANGED <<playback, player, capturing, closing>>
    PROVE  \E r : /\ WorkerMoves(w, r) /\ WorkerFits(r)
                  /\ r.key = worker[w].key /\ r.block = worker[w].block /\ r.victim = worker[w].victim
                  /\ r.pc \in {"finish", "abandon"} /\ r.outcome # "ok"
                  /\ Reserves(r) = worker[w].res /\ r.res = worker[w].res
<1> DEFINE r == [worker[w] EXCEPT !.outcome = o, !.want = 0,
                     !.pc = IF worker[w].block = None THEN "finish" ELSE "abandon"]
<1>1. worker' = [worker EXCEPT ![w] = r]
  BY WorkerKnown DEF GiveUp, WorkerType
<1>2. /\ r.key = worker[w].key /\ r.block = worker[w].block /\ r.victim = worker[w].victim
      /\ r.pc \in {"finish", "abandon"} /\ r.outcome = o /\ r.res = worker[w].res /\ r.want = 0
  BY WorkerKnown DEF WorkerType
<1>3. worker[w].key # None
  BY Numbers
<1>4. worker[w].victim = None
  BY WorkerKnown DEF WorkerFits
<1> HIDE DEF r
<1>5. WorkerFits(r)
  BY <1>2, <1>3, <1>4 DEF WorkerFits, Keyless, Wanting
<1>6. Reserves(r) = worker[w].res
  BY <1>2, WorkerKnown DEF Reserves
<1> QED
  BY <1>1, <1>2, <1>5, <1>6 DEF WorkerMoves

LEMMA GiveUpSound ==
    ASSUME SoundInv, BudgetInv', NEW w \in Workers, worker[w].key \in Keys,
           worker[w].pc \in {"open", "reserve", "allocate", "decode"},
           NEW o \in {"failed", "budget", "closing", "tooLarge"}, GiveUp(w, o),
           o = "tooLarge" => Size[worker[w].key] > MaxBytes,
           UNCHANGED <<playback, player, capturing, closing>>,
           UNCHANGED <<size, entry, refs, usage, building, queue, resident, reclaiming>>,
           reserved' = reserved - Reserves(worker[w]) + worker[w].res
    PROVE  SoundInv'
<1>1. PICK r : /\ WorkerMoves(w, r) /\ WorkerFits(r)
               /\ r.key = worker[w].key /\ r.block = worker[w].block /\ r.victim = worker[w].victim
               /\ r.pc \in {"finish", "abandon"} /\ r.outcome # "ok"
               /\ Reserves(r) = worker[w].res /\ r.res = worker[w].res
  BY GivingUp
<1>2. Reserves(r) \in Int /\ reserved' = reserved - Reserves(worker[w]) + Reserves(r)
  BY <1>1, WorkerKnown
<1>3. worker[w].pc # "exited" /\ (r.pc = "exited" => closing /\ queue = <<>>)
  BY <1>1
<1>4. r.pc = "finish" => r.outcome # "ok"
  BY <1>1
<1> QED
  BY <1>1, <1>2, <1>3, <1>4, PlainWorker

LEMMA OpenSound ==
    ASSUME SoundInv, BudgetInv', NEW w \in Workers, Open(w) PROVE SoundInv'
<1>1. /\ worker[w].pc = "open" /\ worker[w].key \in Keys /\ worker[w].res = 0
      /\ Reserves(worker[w]) = 0 /\ reserved \in Int /\ worker[w].block = None
  BY WorkerKnown DEF Open, WorkerLocals, Reserves, WorkerFits
<1>2. /\ UNCHANGED <<playback, player, capturing, closing>>
      /\ UNCHANGED <<size, entry, refs, usage, building, queue, resident, reserved, reclaiming>>
  BY DEF Open, assetVars, jobVars, bookVars, playerVars
<1>3. ASSUME NEW n \in 1 .. MaxBytes,
             worker' = [worker EXCEPT ![w].want = n, ![w].pc = "reserve"]
      PROVE  SoundInv'
  <2> DEFINE r == [worker[w] EXCEPT !.want = n, !.pc = "reserve"]
  <2>1. worker' = [worker EXCEPT ![w] = r]
    BY <1>3, WorkerKnown DEF WorkerType
  <2>2. /\ r.key = worker[w].key /\ r.block = worker[w].block /\ r.victim = worker[w].victim
        /\ r.pc = "reserve" /\ r.outcome = worker[w].outcome /\ r.res = worker[w].res /\ r.want = n
    BY WorkerKnown DEF WorkerType
  <2>3. n \in Nat /\ n >= 1
    BY WorkerKnown
  <2> HIDE DEF r
  <2>4. WorkerFits(r)
    BY <1>1, <2>2, <2>3, WorkerKnown DEF WorkerFits, Keyless, Wanting
  <2>5. WorkerMoves(w, r)
    BY <1>2, <2>1 DEF WorkerMoves
  <2>6. Reserves(r) = 0
    BY <1>1, <2>2 DEF Reserves
  <2>7. reserved' = reserved - Reserves(worker[w]) + Reserves(r) /\ Reserves(r) \in Int
    BY <1>1, <1>2, <2>6
  <2>8. worker[w].pc # "exited" /\ (r.pc = "exited" => closing /\ queue = <<>>)
        /\ (r.pc = "finish" => r.outcome # "ok")
    BY <1>1, <2>2
  <2> QED
    BY <1>2, <2>2, <2>4, <2>5, <2>7, <2>8, PlainWorker
<1>4. ASSUME NEW o \in {"failed", "closing"}, GiveUp(w, o) PROVE SoundInv'
  <2>1. reserved' = reserved - Reserves(worker[w]) + worker[w].res
    BY <1>1, <1>2
  <2> QED
    BY <1>1, <1>2, <1>4, <2>1, GiveUpSound
<1> QED
  BY <1>3, <1>4 DEF Open

LEMMA ExitSound ==
    ASSUME SoundInv, BudgetInv', NEW w \in Workers, Exit(w) PROVE SoundInv'
<1>1. /\ worker[w].pc = "idle" /\ closing /\ queue = <<>>
      /\ UNCHANGED <<playback, player, capturing, closing>>
      /\ UNCHANGED <<size, entry, refs, usage, building, queue, resident, reserved, reclaiming>>
  BY DEF Exit, assetVars, jobVars, bookVars, playerVars
<1> DEFINE r == [worker[w] EXCEPT !.pc = "exited"]
<1>2. worker' = [worker EXCEPT ![w] = r]
  BY WorkerKnown DEF Exit, MoveTo, WorkerType
<1>3. /\ r.key = worker[w].key /\ r.block = worker[w].block /\ r.victim = worker[w].victim
      /\ r.pc = "exited" /\ r.outcome = worker[w].outcome /\ r.res = worker[w].res
      /\ r.want = worker[w].want
  BY WorkerKnown DEF WorkerType
<1> HIDE DEF r
<1>4. WorkerFits(r)
  BY <1>1, <1>3, WorkerKnown DEF WorkerFits, Keyless, Wanting
<1>5. WorkerMoves(w, r)
  BY <1>1, <1>2 DEF WorkerMoves
<1>6. Reserves(r) = worker[w].res /\ Reserves(worker[w]) = worker[w].res
  BY <1>1, <1>3, WorkerKnown DEF Reserves
<1>7. reserved' = reserved - Reserves(worker[w]) + Reserves(r) /\ Reserves(r) \in Int
  BY <1>1, <1>6, WorkerKnown
<1> QED
  BY <1>1, <1>3, <1>4, <1>5, <1>7, PlainWorker

(* A job that is taken goes from the queue to the worker.                   *)
LEMMA QueueTakes ==
    ASSUME NEW q \in Seq(Keys), q # <<>>
    PROVE  /\ Head(q) \in Keys /\ Head(q) = q[1] /\ Tail(q) \in Seq(Keys)
           /\ Len(q) \in Nat /\ Len(q) >= 1 /\ Len(Tail(q)) = Len(q) - 1
           /\ \A i \in 1 .. Len(Tail(q)) : i + 1 \in 1 .. Len(q) /\ Tail(q)[i] = q[i + 1]
OBVIOUS

LEMMA TakeSound ==
    ASSUME SoundInv, BudgetInv', NEW w \in Workers, Take(w) PROVE SoundInv'
<1> USE DEF SoundInv
<1>1. /\ worker[w].pc = "idle" /\ queue # <<>> /\ queue' = Tail(queue)
      /\ UNCHANGED <<playback, player, capturing, closing>>
      /\ UNCHANGED <<size, entry, refs, usage, building, resident, reserved, reclaiming>>
  BY DEF Take, assetVars, bookVars, playerVars
<1>2. queue \in Seq(Keys) /\ closing \in BOOLEAN /\ building \subseteq Keys
  BY TypesOfAll
<1>3. /\ Head(queue) \in Keys /\ Head(queue) = queue[1]
      /\ Len(queue) \in Nat /\ Len(queue) >= 1 /\ Len(Tail(queue)) = Len(queue) - 1
      /\ \A i \in 1 .. Len(Tail(queue)) :
            i + 1 \in 1 .. Len(queue) /\ Tail(queue)[i] = queue[i + 1]
  BY <1>1, <1>2, QueueTakes
<1> DEFINE r == [Resting EXCEPT !.key = Head(queue),
                     !.outcome = IF closing THEN "closing" ELSE "ok",
                     !.pc = IF closing THEN "finish" ELSE "open"]
<1>4. worker' = [worker EXCEPT ![w] = r]
  BY DEF Take
<1>5. /\ r.key = queue[1] /\ r.block = None /\ r.victim = None /\ r.res = 0 /\ r.want = 0
      /\ r.pc \in {"finish", "open"} /\ r.outcome \in {"closing", "ok"}
      /\ r.pc = "finish" => r.outcome # "ok"
  BY <1>3 DEF Resting
<1> HIDE DEF r
<1>6. /\ worker[w].key = None /\ worker[w].block = None /\ worker[w].victim = None
      /\ Reserves(worker[w]) = 0
  BY <1>1, WorkerKnown DEF WorkerFits, Reserves, Keyless
<1>7. queue[1] \in Keys /\ queue[1] # None
  BY <1>3, Numbers
<1>8. WorkerFits(r)
  BY <1>5, <1>7 DEF WorkerFits, Keyless, Wanting
<1>9. WorkerMoves(w, r)
  BY <1>1, <1>4 DEF WorkerMoves
<1>10. Reserves(r) = 0 /\ reserved' = reserved - Reserves(worker[w]) + Reserves(r)
  BY <1>1, <1>5, <1>6, WorkerKnown DEF Reserves
<1>11. HeldFits' /\ LeasesFit' /\ SizesFit' /\ BooksBalance'
  BY <1>1, <1>5, <1>6, <1>9, <1>10, WorkerReserves
<1>12. EveryoneFits' /\ EndFits' /\ CapturesFit'
  BY <1>1, <1>5, <1>8, <1>9, WorkerFrame
<1>13. worker'[w] = r /\ \A v \in Workers : v # w => worker'[v] = worker[v]
  BY <1>9, WorkerIs
<1>14. BuildersFit'
  <2>1. \A i \in 1 .. Len(queue') : queue'[i] \in building'
    BY <1>1, <1>3 DEF BuildersFit
  <2>2. ASSUME NEW i \in 1 .. Len(queue'), NEW j \in 1 .. Len(queue'), queue'[i] = queue'[j]
        PROVE  i = j
    <3>1. i + 1 \in 1 .. Len(queue) /\ j + 1 \in 1 .. Len(queue) /\ queue[i + 1] = queue[j + 1]
      BY <1>1, <1>3, <2>2
    <3>2. i + 1 = j + 1
      BY <3>1 DEF BuildersFit
    <3> QED
      BY <3>2
  <2>3. 1 \in 1 .. Len(queue)
    BY <1>3
  <2>4. ASSUME NEW v \in Workers, worker'[v].key # None
        PROVE  /\ worker'[v].key \in building'
               /\ \A i \in 1 .. Len(queue') : queue'[i] # worker'[v].key
               /\ \A u \in Workers : worker'[u].key = worker'[v].key => u = v
    <3>1. CASE v = w
      <4>1. worker'[v].key = queue[1] /\ queue[1] \in building'
        BY <1>1, <1>5, <1>13, <2>3, <3>1 DEF BuildersFit
      <4>2. \A i \in 1 .. Len(queue') : queue'[i] # queue[1]
        <5> SUFFICES ASSUME NEW i \in 1 .. Len(queue') PROVE queue'[i] # queue[1]
          OBVIOUS
        <5>1. i + 1 \in 1 .. Len(queue) /\ queue'[i] = queue[i + 1] /\ i + 1 # 1
          BY <1>1, <1>3
        <5> QED
          BY <2>3, <5>1 DEF BuildersFit
      <4>3. \A u \in Workers : u # w => worker'[u].key # queue[1]
        BY <1>7, <1>13, <2>3 DEF BuildersFit
      <4> QED
        BY <3>1, <4>1, <4>2, <4>3
    <3>2. CASE v # w
      <4>1. worker'[v] = worker[v]
        BY <1>13, <3>2
      <4>2. \A i \in 1 .. Len(queue') : queue'[i] # worker[v].key
        BY <1>1, <1>3, <2>4, <4>1 DEF BuildersFit
      <4>3. worker[v].key # queue[1]
        BY <2>3, <2>4, <4>1 DEF BuildersFit
      <4> QED
        BY <1>1, <1>5, <1>13, <2>4, <4>1, <4>2, <4>3 DEF BuildersFit
    <3> QED
      BY <3>1, <3>2
  <2>5. ASSUME NEW k \in building'
        PROVE  \/ \E i \in 1 .. Len(queue') : queue'[i] = k
               \/ \E v \in Workers : worker'[v].key = k
    <3>1. k \in building
      BY <1>1
    <3>2. CASE \E v \in Workers : worker[v].key = k
      <4>1. k # None
        BY <1>2, <3>1, Numbers
      <4> QED
        BY <1>6, <1>13, <3>2, <4>1
    <3>3. CASE \E i \in 1 .. Len(queue) : queue[i] = k
      <4>1. PICK i \in 1 .. Len(queue) : queue[i] = k
        BY <3>3
      <4>2. CASE i = 1
        BY <1>5, <1>13, <4>1, <4>2
      <4>3. CASE i # 1
        <5>1. i - 1 \in 1 .. Len(queue') /\ (i - 1) + 1 = i
          BY <1>1, <1>3, <4>3
        <5>2. queue'[i - 1] = queue[i]
          BY <1>1, <1>3, <5>1
        <5> QED
          BY <4>1, <5>1, <5>2
      <4> QED
        BY <4>2, <4>3
    <3> QED
      BY <3>1, <3>2, <3>3 DEF BuildersFit
  <2> QED
    BY <2>1, <2>2, <2>4, <2>5 DEF BuildersFit
<1>15. KeysFit' /\ UsageOutlivesBuild' /\ TooLargeIsTrue'
  <2>1. \A k \in building' \union capturing' : entry'[k] \in {entry[k], None}
    BY <1>1
  <2>2. KeysFit'
    BY <1>1, <2>1, KeysStay
  <2> QED
    BY <1>1, <2>2, UsageStays
<1> QED
  BY <1>11, <1>12, <1>14, <1>15

LEMMA ReserveSound ==
    ASSUME SoundInv, BudgetInv', NEW w \in Workers, Reserve(w), ~DetachOne(w) PROVE SoundInv'
<1>1. /\ worker[w].pc = "reserve" /\ worker[w].key \in Keys /\ worker[w].want >= 1
      /\ Reserves(worker[w]) = worker[w].res /\ worker[w].victim = None
      /\ worker[w].outcome = "ok"
      /\ worker[w].block = None => worker[w].res = 0
      /\ worker[w].key \in RawKeys => worker[w].block = None
  BY WorkerKnown DEF Reserve, WorkerLocals, WorkerFits, Reserves, Wanting
<1>2. /\ UNCHANGED <<playback, player, capturing, closing>>
      /\ UNCHANGED <<usage, building, queue>>
  BY DEF Reserve, jobVars, playerVars
<1>3. CASE ReserveFails(w)
  <2>1. /\ UNCHANGED <<size, entry, refs, resident, reclaiming, reserved>> /\ GiveUp(w, "budget")
    BY <1>3 DEF ReserveFails, assetVars, bookVars
  <2>2. reserved' = reserved - Reserves(worker[w]) + worker[w].res
    BY <1>1, <2>1, WorkerKnown
  <2> QED
    BY <1>1, <1>2, <2>1, <2>2, GiveUpSound
<1>4. CASE ReserveFits(w)
  <2>1. /\ UNCHANGED <<size, entry, refs, resident, reclaiming>>
        /\ reserved' = reserved + worker[w].want
    BY <1>4 DEF ReserveFits, assetVars
  <2>2. CASE worker[w].key \in RawKeys
    <3> DEFINE r == [worker[w] EXCEPT !.res = worker[w].want, !.pc = "decode"]
    <3>1. worker' = [worker EXCEPT ![w] = r]
      BY <1>4, <2>2, WorkerKnown DEF ReserveFits, WorkerType
    <3>2. /\ r.key = worker[w].key /\ r.block = worker[w].block /\ r.victim = worker[w].victim
          /\ r.pc = "decode" /\ r.outcome = worker[w].outcome /\ r.res = worker[w].want
      BY WorkerKnown DEF WorkerType
    <3> HIDE DEF r
    <3>3. WorkerFits(r)
      BY <1>1, <2>2, <3>2, WorkerKnown, Numbers DEF WorkerFits, Keyless, Wanting
    <3>4. WorkerMoves(w, r)
      BY <1>2, <3>1 DEF WorkerMoves
    <3>5. Reserves(r) = worker[w].want /\ worker[w].res = 0
      BY <1>1, <2>2, <3>2, WorkerKnown DEF Reserves
    <3>6. reserved' = reserved - Reserves(worker[w]) + Reserves(r) /\ Reserves(r) \in Int
      BY <1>1, <2>1, <3>5, WorkerKnown
    <3>7. worker[w].pc # "exited" /\ (r.pc = "exited" => closing /\ queue = <<>>)
          /\ (r.pc = "finish" => r.outcome # "ok")
      BY <1>1, <3>2
    <3> QED
      BY <1>2, <2>1, <3>2, <3>3, <3>4, <3>6, <3>7, PlainWorker
  <2>3. CASE worker[w].key \notin RawKeys
    <3> DEFINE r == [worker[w] EXCEPT !.pc = "allocate"]
    <3>1. worker' = [worker EXCEPT ![w] = r]
      BY <1>4, <2>3, WorkerKnown DEF ReserveFits, WorkerType
    <3>2. /\ r.key = worker[w].key /\ r.block = worker[w].block /\ r.victim = worker[w].victim
          /\ r.pc = "allocate" /\ r.outcome = worker[w].outcome /\ r.res = worker[w].res
          /\ r.want = worker[w].want
      BY WorkerKnown DEF WorkerType
    <3> HIDE DEF r
    <3>3. WorkerFits(r)
      <4>1. worker[w].key # None /\ worker[w].key \in PcmKeys
        BY <1>1, <2>3, Numbers
      <4> QED
        BY <1>1, <2>3, <3>2, <4>1, WorkerKnown DEF WorkerFits, Keyless, Wanting
    <3>4. WorkerMoves(w, r)
      BY <1>2, <3>1 DEF WorkerMoves
    <3>5. Reserves(r) = worker[w].res + worker[w].want
      BY <1>1, <3>2, WorkerKnown DEF Reserves
    <3>6. reserved' = reserved - Reserves(worker[w]) + Reserves(r) /\ Reserves(r) \in Int
      BY <1>1, <2>1, <3>5, WorkerKnown
    <3>7. worker[w].pc # "exited" /\ (r.pc = "exited" => closing /\ queue = <<>>)
          /\ (r.pc = "finish" => r.outcome # "ok")
      BY <1>1, <3>2
    <3> QED
      BY <1>2, <2>1, <3>2, <3>3, <3>4, <3>6, <3>7, PlainWorker
  <2> QED
    BY <2>2, <2>3
<1> QED
  BY <1>3, <1>4 DEF Reserve

(* The victim of an eviction goes from the cache to the worker.             *)
LEMMA DetachSound ==
    ASSUME SoundInv, BudgetInv', NEW w \in Workers, Reserve(w), DetachOne(w) PROVE SoundInv'
<1> USE DEF SoundInv
<1>1. /\ worker[w].pc = "reserve" /\ worker[w].key \in Keys /\ worker[w].want >= 1
      /\ Reserves(worker[w]) = worker[w].res /\ worker[w].victim = None
      /\ worker[w].key \in RawKeys => worker[w].block = None
  BY WorkerKnown DEF Reserve, WorkerLocals, WorkerFits, Reserves, Wanting
<1>2. /\ UNCHANGED <<playback, player, capturing, closing>>
      /\ UNCHANGED <<usage, building, queue, size, refs, reserved>>
  BY DEF Reserve, DetachOne, jobVars, playerVars
<1>3. PICK k \in Keys : /\ Evictable(k)
                        /\ entry' = [entry EXCEPT ![k] = None]
                        /\ resident' = resident - size[entry[k]]
                        /\ reclaiming' = reclaiming + size[entry[k]]
                        /\ worker' = [worker EXCEPT ![w].victim = entry[k], ![w].pc = "reclaim"]
  BY DEF DetachOne
<1>4. /\ entry[k] \in Blocks /\ entry[k] # None /\ refs[entry[k]] = 0 /\ size[entry[k]] \in Nat
      /\ entry \in [Keys -> Blocks \union {None}]
  BY <1>3, TypesOfAll DEF Evictable
<1> DEFINE r == [worker[w] EXCEPT !.victim = entry[k], !.pc = "reclaim"]
<1>5. worker' = [worker EXCEPT ![w] = r]
  BY <1>3, WorkerKnown DEF WorkerType
<1>6. /\ r.key = worker[w].key /\ r.block = worker[w].block /\ r.victim = entry[k]
      /\ r.pc = "reclaim" /\ r.outcome = worker[w].outcome /\ r.res = worker[w].res
      /\ r.want = worker[w].want
  BY WorkerKnown DEF WorkerType
<1> HIDE DEF r
<1>7. WorkerFits(r)
  <2>1. worker[w].key # None
    BY <1>1, Numbers
  <2> QED
    BY <1>1, <1>6, <2>1, WorkerKnown DEF WorkerFits, Keyless, Wanting
<1>8. WorkerMoves(w, r)
  BY <1>2, <1>5 DEF WorkerMoves
<1>9. /\ worker'[w] = r /\ \A v \in Workers : v # w => worker'[v] = worker[v]
      /\ playback' = playback /\ player' = player
  BY <1>8, WorkerIs
<1>10. /\ EveryoneFits' /\ EndFits' /\ CapturesFit' /\ BuildersFit' /\ KeysFit'
       /\ UsageOutlivesBuild' /\ TooLargeIsTrue'
  <2>1. \A j \in Keys : entry'[j] \in {entry[j], None}
    BY <1>3, <1>4
  <2>2. worker[w].pc # "exited" /\ r.pc # "exited"
    BY <1>1, <1>6
  <2> QED
    BY <1>2, <1>6, <1>7, <1>8, <2>1, <2>2, WorkerGoesOn
<1>11. HeldFits'
  <2> DEFINE x == <<"entry", k>>
             y == <<"victim", w>>
  <2>1. x \in Holders /\ y \in Holders /\ x # y
    BY HeldNow
  <2>2. Held[x] = entry[k] /\ Held[y] = None /\ Held'[x] = None /\ Held'[y] = entry[k]
    BY <1>1, <1>3, <1>4, <1>6, <1>9, HeldNow, HeldNext
  <2>3. HeldOutside({x, y})
    BY <1>3, <1>4, <1>6, <1>9 DEF HeldOutside
  <2>4. \A b \in Blocks : size'[b] > 0 <=> size[b] > 0
    BY <1>2
  <2> HIDE DEF x, y
  <2> QED
    BY <1>4, <2>1, <2>2, <2>3, <2>4, HeldMoves
<1>12. LeasesFit'
  <2>1. \A p \in Playbacks : playback[p].lease # None =>
           entry'[playback[p].key] = entry[playback[p].key]
    <3> SUFFICES ASSUME NEW p \in Playbacks, playback[p].lease # None, playback[p].key = k
                 PROVE  FALSE
      BY <1>3, <1>4 DEF LeasesFit
    <3>1. p \in Leases(entry[k])
      BY DEF LeasesFit, Leases
    <3>2. Leases(entry[k]) \subseteq Playbacks /\ IsFiniteSet(Playbacks)
      BY Numbers DEF Leases
    <3>3. Cardinality(Leases(entry[k])) = 0
      BY <1>4 DEF LeasesFit
    <3>4. Leases(entry[k]) = {}
      BY <3>2, <3>3, FS_Subset, FS_EmptySet
    <3> QED
      BY <3>1, <3>4
  <2> QED
    BY <1>2, <1>9, <2>1, LeasesStay
<1>13. SizesFit'
  BY <1>2, <1>6, <1>9 DEF SizesFit
<1>14. BooksBalance'
  <2>1. Assets' = Assets - SizeOf(entry[k]) + (SizeOf(entry[k]))'
    <3>1. \A j \in Keys : j # k => (SizeOf(entry[j]))' = SizeOf(entry[j])
      BY <1>2, <1>3, <1>4 DEF SizeOf
    <3> QED
      BY <3>1, AssetsChange
  <2>2. SizeOf(entry[k]) = size[entry[k]] /\ (SizeOf(entry[k]))' = 0
    BY <1>3, <1>4 DEF SizeOf
  <2>3. Victims' = Victims - SizeOf(worker[w].victim) + (SizeOf(worker[w].victim))'
    <3>1. \A v \in Workers : v # w => (SizeOf(worker[v].victim))' = SizeOf(worker[v].victim)
      BY <1>2, <1>9 DEF SizeOf
    <3> QED
      BY <3>1, VictimsChange
  <2>4. SizeOf(worker[w].victim) = 0 /\ (SizeOf(worker[w].victim))' = size[entry[k]]
    BY <1>1, <1>2, <1>4, <1>6, <1>9 DEF SizeOf
  <2>5. /\ Builds' = Builds - Reserves(worker[w]) + Reserves(r)
        /\ Captures' = Captures /\ player'.want = player.want
    BY <1>8, WorkerBooks
  <2>6. Reserves(r) = worker[w].res
    BY <1>6, WorkerKnown DEF Reserves
  <2>7. resident = Assets /\ reserved = Builds + Captures + player.want /\ reclaiming = Victims
    BY BooksAre
  <2>8. /\ Assets \in Int /\ Builds \in Int /\ Captures \in Int /\ Victims \in Int
        /\ player.want \in Int /\ worker[w].res \in Int
    BY SumTypes, TermTypes, WorkerKnown
  <2>9. resident' = Assets' /\ reclaiming' = Victims'
    <3>1. resident' = resident - size[entry[k]] /\ reclaiming' = reclaiming + size[entry[k]]
      BY <1>3, <1>4
    <3>2. Assets' = Assets - size[entry[k]] + 0
      BY <2>1, <2>2
    <3>3. Victims' = Victims - 0 + size[entry[k]]
      BY <2>3, <2>4
    <3>4. size[entry[k]] \in Int
      BY <1>4
    <3>5. PICK a \in Int, v \in Int, s \in Int : a = Assets /\ v = Victims /\ s = size[entry[k]]
      BY <2>8, <3>4
    <3>6. resident = a /\ reclaiming = v
      BY <2>7, <3>5
    <3>7. a - s + 0 = a - s /\ v - 0 + s = v + s
      OBVIOUS
    <3>8. Assets' = a - s + 0 /\ resident' = a - s
      BY <3>1, <3>2, <3>5, <3>6
    <3>9. Victims' = v - 0 + s /\ reclaiming' = v + s
      BY <3>1, <3>3, <3>5, <3>6
    <3> QED
      BY <3>7, <3>8, <3>9
  <2>10. reserved' = Builds' + Captures' + player'.want
    <3>1. reserved' = reserved /\ Captures' = Captures /\ player'.want = player.want
      BY <1>2, <1>3, <2>5
    <3>2. PICK b \in Int, x \in Int : b = Builds /\ x = worker[w].res
      BY <2>8
    <3>3. Reserves(worker[w]) = x /\ Reserves(r) = x
      BY <1>1, <2>6, <3>2
    <3>4. Builds' = b - x + x
      BY <2>5, <3>2, <3>3
    <3>5. b - x + x = b
      BY <3>2
    <3>6. Builds' = Builds
      BY <3>2, <3>4, <3>5
    <3> QED
      BY <2>7, <3>1, <3>6
  <2> QED
    BY <2>9, <2>10, BooksAre
<1> QED
  BY <1>10, <1>11, <1>12, <1>13, <1>14

(* The victim is freed.                                                     *)
LEMMA ReclaimSound ==
    ASSUME SoundInv, BudgetInv', NEW w \in Workers, Reclaim(w) PROVE SoundInv'
<1> USE DEF SoundInv
<1> DEFINE b == worker[w].victim
           r == [worker[w] EXCEPT !.victim = None, !.pc = "reserve"]
<1>1. /\ worker[w].pc = "reclaim" /\ worker[w].key \in Keys /\ worker[w].want >= 1
      /\ Reserves(worker[w]) = worker[w].res /\ b \in Blocks
      /\ worker[w].key \in RawKeys => worker[w].block = None
  BY WorkerKnown DEF Reclaim, WorkerLocals, WorkerFits, Reserves, Wanting
<1>2. /\ UNCHANGED <<playback, player, capturing, closing>>
      /\ UNCHANGED <<usage, building, queue, entry, refs, reserved, resident>>
  BY DEF Reclaim, jobVars, playerVars
<1>3. size' = [size EXCEPT ![b] = 0] /\ reclaiming' = reclaiming - size[b]
  BY DEF Reclaim
<1>4. worker' = [worker EXCEPT ![w] = r]
  BY WorkerKnown DEF Reclaim, WorkerType
<1>5. /\ r.key = worker[w].key /\ r.block = worker[w].block /\ r.victim = None
      /\ r.pc = "reserve" /\ r.outcome = worker[w].outcome /\ r.res = worker[w].res
      /\ r.want = worker[w].want
  BY WorkerKnown DEF WorkerType
<1>6. size'[b] = 0 /\ \A a \in Blocks : a # b => size'[a] = size[a]
  BY <1>1, <1>3, WorkerKnown
<1>7. b # None
  BY <1>1, Numbers
<1> HIDE DEF r, b
<1>8. WorkerFits(r)
  <2>1. worker[w].key # None
    BY <1>1, Numbers
  <2> QED
    BY <1>1, <1>5, <2>1, WorkerKnown DEF WorkerFits, Keyless, Wanting
<1>9. WorkerMoves(w, r)
  BY <1>2, <1>4 DEF WorkerMoves
<1>10. /\ worker'[w] = r /\ \A v \in Workers : v # w => worker'[v] = worker[v]
       /\ playback' = playback /\ player' = player
  BY <1>9, WorkerIs
<1>11. /\ EveryoneFits' /\ EndFits' /\ CapturesFit' /\ BuildersFit' /\ KeysFit'
       /\ UsageOutlivesBuild' /\ TooLargeIsTrue'
  <2>1. \A j \in Keys : entry'[j] \in {entry[j], None}
    BY <1>2
  <2>2. worker[w].pc # "exited" /\ r.pc # "exited"
    BY <1>1, <1>5
  <2> QED
    BY <1>2, <1>5, <1>8, <1>9, <2>1, <2>2, WorkerGoesOn
<1> DEFINE x == <<"victim", w>>
<1>12. x \in Holders /\ Held[x] = b /\ Held'[x] = None
  BY <1>5, <1>10, HeldNow, HeldNext DEF b
<1>13. HeldFits'
  <2>1. HeldOutside({x})
    BY <1>2, <1>5, <1>10 DEF HeldOutside
  <2>2. \A a \in Blocks : a # b => (size'[a] > 0 <=> size[a] > 0)
    BY <1>6
  <2> HIDE DEF x
  <2> QED
    BY <1>1, <1>6, <1>12, <2>1, <2>2, HeldLess
<1>14. /\ \A k \in Keys : entry[k] # None => size'[entry[k]] = size[entry[k]]
       /\ \A v \in Workers : v # w /\ worker[v].victim # None =>
             size'[worker[v].victim] = size[worker[v].victim]
       /\ \A v \in Workers : worker[v].block # None =>
             size'[worker[v].block] = size[worker[v].block]
  <2>1. /\ \A k \in Keys : x # <<"entry", k>>
        /\ \A v \in Workers : x # <<"block", v>> /\ (v # w => x # <<"victim", v>>)
    OBVIOUS
  <2> HIDE DEF x
  <2>2. /\ \A k \in Keys : x # <<"entry", k>> /\ entry[k] # None =>
              size'[entry[k]] = size[entry[k]]
        /\ \A v \in Workers : x # <<"victim", v>> /\ worker[v].victim # None =>
              size'[worker[v].victim] = size[worker[v].victim]
        /\ \A v \in Workers : x # <<"block", v>> /\ worker[v].block # None =>
              size'[worker[v].block] = size[worker[v].block]
    BY <1>1, <1>6, <1>12, OneSizeChanges
  <2> QED
    BY <2>1, <2>2
<1>15. LeasesFit'
  BY <1>2, <1>10, LeasesStay
<1>16. SizesFit'
  <2>1. \A v \in Workers : v # w /\ worker[v].block # None =>
           size'[worker[v].block] = size[worker[v].block]
    BY <1>14
  <2>2. worker'[w].pc # "finish"
    BY <1>5, <1>10
  <2> QED
    BY <1>10, <2>1, <2>2, WorkerSizes
<1>17. BooksBalance'
  <2>1. Assets' = Assets
    BY <1>2, <1>14, AssetsStay
  <2>3. Victims' = Victims - SizeOf(worker[w].victim) + (SizeOf(worker[w].victim))'
    <3>1. \A v \in Workers : v # w => (SizeOf(worker[v].victim))' = SizeOf(worker[v].victim)
      BY <1>10, <1>14 DEF SizeOf
    <3> QED
      BY <3>1, VictimsChange
  <2>4. SizeOf(worker[w].victim) = size[b] /\ (SizeOf(worker[w].victim))' = 0
    BY <1>5, <1>7, <1>10 DEF SizeOf, b
  <2>5. /\ Builds' = Builds - Reserves(worker[w]) + Reserves(r)
        /\ Captures' = Captures /\ player'.want = player.want
    BY <1>9, WorkerBooks
  <2>6. Reserves(r) = worker[w].res
    BY <1>5, WorkerKnown DEF Reserves
  <2>7. resident = Assets /\ reserved = Builds + Captures + player.want /\ reclaiming = Victims
    BY BooksAre
  <2>8. /\ Assets \in Int /\ Builds \in Int /\ Captures \in Int /\ Victims \in Int
        /\ player.want \in Int /\ worker[w].res \in Int /\ size[b] \in Int
    BY <1>1, SumTypes, TermTypes, WorkerKnown
  <2>9. resident' = Assets' /\ reclaiming' = Victims'
    BY <1>2, <1>3, <2>1, <2>3, <2>4, <2>7, <2>8
  <2>10. reserved' = Builds' + Captures' + player'.want
    BY <1>1, <1>2, <2>5, <2>6, <2>7, <2>8
  <2> QED
    BY <2>9, <2>10, BooksAre
<1> QED
  BY <1>11, <1>13, <1>15, <1>16, <1>17

(* A worker gets a block, resizes its own or frees it.                      *)
LEMMA WorkerBlock ==
    ASSUME SoundInv, BudgetInv', NEW w \in Workers, NEW r, WorkerMoves(w, r), NEW b \in Blocks,
           UNCHANGED <<entry, refs, resident, reclaiming>>, r.victim = worker[w].victim,
           \A a \in Blocks : a # b => size'[a] = size[a],
           \/ worker[w].block = None /\ size[b] = 0 /\ r.block = b /\ size'[b] > 0
           \/ worker[w].block = b /\ r.block = b /\ size'[b] > 0
           \/ worker[w].block = b /\ r.block = None /\ size'[b] = 0,
           reserved' = reserved - Reserves(worker[w]) + Reserves(r), Reserves(r) \in Int,
           r.pc = "finish" /\ r.outcome = "ok" => size'[r.block] = Size[r.key]
    PROVE  HeldFits' /\ LeasesFit' /\ SizesFit' /\ BooksBalance'
<1> USE DEF SoundInv
<1> DEFINE x == <<"block", w>>
<1>1. /\ worker'[w] = r /\ \A v \in Workers : v # w => worker'[v] = worker[v]
      /\ playback' = playback /\ player' = player
  BY WorkerIs
<1>2. x \in Holders /\ Held[x] = worker[w].block /\ Held'[x] = r.block
  BY <1>1, HeldNow, HeldNext
<1>3. HeldOutside({x})
  BY <1>1 DEF HeldOutside
<1>4. /\ \A k \in Keys : x # <<"entry", k>>
      /\ \A v \in Workers : x # <<"victim", v>> /\ (v # w => x # <<"block", v>>)
  OBVIOUS
<1>5. \A v \in Workers : worker'[v].victim = worker[v].victim
  BY <1>1
<1> HIDE DEF x
<1>6. Held[x] = b \/ size[b] = 0
  BY <1>2
<1>7. /\ \A k \in Keys : x # <<"entry", k>> /\ entry[k] # None =>
            size'[entry[k]] = size[entry[k]]
      /\ \A v \in Workers : x # <<"victim", v>> /\ worker[v].victim # None =>
            size'[worker[v].victim] = size[worker[v].victim]
      /\ \A v \in Workers : x # <<"block", v>> /\ worker[v].block # None =>
            size'[worker[v].block] = size[worker[v].block]
  BY <1>2, <1>6, OneSizeChanges
<1>8. HeldFits'
  <2>0. \A a \in Blocks : a # b => (size'[a] > 0 <=> size[a] > 0)
    OBVIOUS
  <2>1. CASE worker[w].block = None /\ size[b] = 0 /\ r.block = b /\ size'[b] > 0
    BY <1>2, <1>3, <2>0, <2>1, HeldMore
  <2>2. CASE worker[w].block = b /\ r.block = b /\ size'[b] > 0
    <3>1. size[b] > 0
      BY <1>2, <2>2, HeldAlone
    <3>2. \A a \in Blocks : size'[a] > 0 <=> size[a] > 0
      BY <2>0, <2>2, <3>1
    <3>3. HeldOutside({})
      BY <1>1, <2>2 DEF HeldOutside
    <3> QED
      BY <3>2, <3>3, HeldStays
  <2>3. CASE worker[w].block = b /\ r.block = None /\ size'[b] = 0
    BY <1>2, <1>3, <2>0, <2>3, HeldLess
  <2> QED
    BY <2>1, <2>2, <2>3
<1>9. LeasesFit'
  BY <1>1, LeasesStay
<1>10. SizesFit'
  <2>1. \A v \in Workers : v # w /\ worker[v].block # None =>
           size'[worker[v].block] = size[worker[v].block]
    BY <1>4, <1>7
  <2>2. worker'[w].pc = "finish" /\ worker'[w].outcome = "ok" =>
           size'[worker'[w].block] = Size[worker'[w].key]
    BY <1>1
  <2> QED
    BY <1>1, <2>1, <2>2, WorkerSizes
<1>11. BooksBalance'
  <2>1. Assets' = Assets
    BY <1>4, <1>7, AssetsStay
  <2>2. Victims' = Victims
    BY <1>4, <1>5, <1>7, VictimsStay
  <2>3. /\ Builds' = Builds - Reserves(worker[w]) + Reserves(r)
        /\ Captures' = Captures /\ player'.want = player.want
    BY WorkerBooks
  <2>4. resident = Assets /\ reserved = Builds + Captures + player.want /\ reclaiming = Victims
    BY BooksAre
  <2>5. Builds \in Int /\ Captures \in Int /\ player.want \in Int /\ Reserves(worker[w]) \in Int
    BY SumTypes, TermTypes
  <2>6. reserved' = Builds' + Captures' + player'.want
    BY <2>3, <2>4, <2>5
  <2> QED
    BY <2>1, <2>2, <2>4, <2>6, BooksAre
<1> QED
  BY <1>8, <1>9, <1>10, <1>11

LEMMA AllocateSound ==
    ASSUME SoundInv, BudgetInv', NEW w \in Workers, Allocate(w) PROVE SoundInv'
<1>1. /\ worker[w].pc = "allocate" /\ worker[w].key \in Keys /\ worker[w].want >= 1
      /\ Reserves(worker[w]) = worker[w].res + worker[w].want /\ worker[w].victim = None
      /\ worker[w].outcome = "ok" /\ worker[w].key \in PcmKeys /\ worker[w].key \notin RawKeys
      /\ worker[w].block = None => worker[w].res = 0
  BY WorkerKnown, Numbers DEF Allocate, WorkerLocals, WorkerFits, Reserves, Wanting
<1>2. /\ UNCHANGED <<playback, player, capturing, closing>>
      /\ UNCHANGED <<usage, building, queue, entry, refs, resident, reclaiming>>
  BY DEF Allocate, jobVars, playerVars
<1>3. \A j \in Keys : entry'[j] \in {entry[j], None}
  BY <1>2
<1>4. CASE AllocationFails(w)
  <2>1. size' = size /\ reserved' = reserved - worker[w].want /\ GiveUp(w, "failed")
    BY <1>4 DEF AllocationFails
  <2>2. reserved' = reserved - Reserves(worker[w]) + worker[w].res
    BY <1>1, <2>1, WorkerKnown
  <2> QED
    BY <1>1, <1>2, <2>1, <2>2, GiveUpSound
<1>5. CASE Allocated(w) /\ worker[w].block = None
  <2>1. PICK b \in Blocks :
          /\ FreeBlock(b)
          /\ size' = [size EXCEPT ![b] = worker[w].want]
          /\ worker' = [worker EXCEPT ![w].block = b, ![w].want = 0,
                           ![w].res = worker[w].want, ![w].pc = "decode"]
    BY <1>5 DEF Allocated
  <2> DEFINE r == [worker[w] EXCEPT !.block = b, !.want = 0, !.res = worker[w].want,
                                    !.pc = "decode"]
  <2>2. worker' = [worker EXCEPT ![w] = r]
    BY <2>1, WorkerKnown DEF WorkerType
  <2>3. /\ r.key = worker[w].key /\ r.block = b /\ r.victim = worker[w].victim
        /\ r.pc = "decode" /\ r.outcome = worker[w].outcome /\ r.res = worker[w].want
        /\ r.want = 0
    BY WorkerKnown DEF WorkerType
  <2> HIDE DEF r
  <2>4. WorkerFits(r)
    <3>1. worker[w].key # None
      BY <1>1, Numbers
    <3> QED
      BY <1>1, <2>3, <3>1, WorkerKnown DEF WorkerFits, Keyless, Wanting
  <2>5. WorkerMoves(w, r)
    BY <1>2, <2>2 DEF WorkerMoves
  <2>6. /\ size[b] = 0 /\ size'[b] > 0 /\ \A a \in Blocks : a # b => size'[a] = size[a]
    BY <1>1, <2>1, WorkerKnown DEF FreeBlock
  <2>7. Reserves(r) = worker[w].want /\ worker[w].res = 0 /\ reserved' = reserved
    <3>1. Reserves(r) = worker[w].want
      BY <2>3, WorkerKnown DEF Reserves
    <3>2. reserved' = reserved
      BY <1>5 DEF Allocated
    <3> QED
      BY <1>1, <1>5, <3>1, <3>2
  <2>8. reserved' = reserved - Reserves(worker[w]) + Reserves(r) /\ Reserves(r) \in Int
    BY <1>1, <2>7, WorkerKnown
  <2>9. r.pc = "finish" /\ r.outcome = "ok" => size'[r.block] = Size[r.key]
    BY <2>3
  <2>10. HeldFits' /\ LeasesFit' /\ SizesFit' /\ BooksBalance'
    BY <1>2, <1>5, <2>3, <2>5, <2>6, <2>8, <2>9, WorkerBlock
  <2>11. worker[w].pc # "exited" /\ r.pc # "exited"
    BY <1>1, <2>3
  <2>12. /\ EveryoneFits' /\ EndFits' /\ CapturesFit' /\ BuildersFit' /\ KeysFit'
         /\ UsageOutlivesBuild' /\ TooLargeIsTrue'
    BY <1>2, <1>3, <2>3, <2>4, <2>5, <2>11, WorkerGoesOn
  <2> QED
    BY <2>10, <2>12 DEF SoundInv
<1>6. CASE Allocated(w) /\ worker[w].block # None
  <2> DEFINE b == worker[w].block
             r == [worker[w] EXCEPT !.want = 0, !.res = worker[w].res + worker[w].want,
                                    !.pc = "decode"]
  <2>1. /\ size' = [size EXCEPT ![b] = size[b] + worker[w].want]
        /\ worker' = [worker EXCEPT ![w].want = 0, ![w].pc = "decode",
                         ![w].res = worker[w].res + worker[w].want]
        /\ reserved' = reserved /\ b \in Blocks
    BY <1>6, WorkerKnown DEF Allocated
  <2>2. worker' = [worker EXCEPT ![w] = r]
    BY <2>1, WorkerKnown DEF WorkerType
  <2>3. /\ r.key = worker[w].key /\ r.block = b /\ r.victim = worker[w].victim
        /\ r.pc = "decode" /\ r.outcome = worker[w].outcome /\ r.want = 0
        /\ r.res = worker[w].res + worker[w].want
    BY WorkerKnown DEF WorkerType
  <2>6. /\ size'[b] > 0 /\ \A a \in Blocks : a # b => size'[a] = size[a]
    BY <1>1, <2>1, WorkerKnown
  <2>0. worker[w].block = b
    OBVIOUS
  <2> HIDE DEF r, b
  <2>4. WorkerFits(r)
    <3>1. worker[w].key # None
      BY <1>1, Numbers
    <3> QED
      BY <1>1, <2>3, <3>1, WorkerKnown DEF WorkerFits, Keyless, Wanting
  <2>5. WorkerMoves(w, r)
    BY <1>2, <2>2 DEF WorkerMoves
  <2>7. Reserves(r) = worker[w].res + worker[w].want
    BY <2>3, WorkerKnown DEF Reserves
  <2>8. reserved' = reserved - Reserves(worker[w]) + Reserves(r) /\ Reserves(r) \in Int
    BY <1>1, <2>1, <2>7, WorkerKnown
  <2>9. r.pc = "finish" /\ r.outcome = "ok" => size'[r.block] = Size[r.key]
    BY <2>3
  <2>10. HeldFits' /\ LeasesFit' /\ SizesFit' /\ BooksBalance'
    BY <1>2, <2>0, <2>1, <2>3, <2>5, <2>6, <2>8, <2>9, WorkerBlock
  <2>11. worker[w].pc # "exited" /\ r.pc # "exited"
    BY <1>1, <2>3
  <2>12. /\ EveryoneFits' /\ EndFits' /\ CapturesFit' /\ BuildersFit' /\ KeysFit'
         /\ UsageOutlivesBuild' /\ TooLargeIsTrue'
    BY <1>2, <1>3, <2>3, <2>4, <2>5, <2>11, WorkerGoesOn
  <2> QED
    BY <2>10, <2>12 DEF SoundInv
<1> QED
  BY <1>4, <1>5, <1>6 DEF Allocate

LEMMA DecodePcmSound ==
    ASSUME SoundInv, BudgetInv', NEW w \in Workers, Decode(w), worker[w].key \in PcmKeys, DecodePcm(w)
    PROVE  SoundInv'
<1>1. /\ worker[w].pc = "decode" /\ worker[w].key \in Keys /\ worker[w].key \notin RawKeys
      /\ Reserves(worker[w]) = worker[w].res /\ worker[w].victim = None /\ worker[w].res >= 1
      /\ worker[w].outcome = "ok" /\ worker[w].block \in Blocks /\ worker[w].block # None
  BY WorkerKnown, Numbers DEF Decode, WorkerLocals, WorkerFits, Reserves
<1>2. /\ UNCHANGED <<playback, player, capturing, closing>>
      /\ UNCHANGED <<usage, building, queue, entry, refs, resident, reclaiming, reserved>>
  BY DEF Decode, DecodePcm, jobVars, playerVars
<1>3. \A j \in Keys : entry'[j] \in {entry[j], None}
  BY <1>2
<1>0. Size[worker[w].key] \in Nat /\ Size[worker[w].key] > 0
  BY <1>1, Numbers
<1>4. CASE /\ Size[worker[w].key] <= worker[w].res
           /\ size' = [size EXCEPT ![worker[w].block] = Size[worker[w].key]]
           /\ MoveTo(w, "finish")
  <2> DEFINE b == worker[w].block
             r == [worker[w] EXCEPT !.pc = "finish"]
  <2>2. worker' = [worker EXCEPT ![w] = r]
    BY <1>4, WorkerKnown DEF MoveTo, WorkerType
  <2>3. /\ r.key = worker[w].key /\ r.block = b /\ r.victim = worker[w].victim
        /\ r.pc = "finish" /\ r.outcome = worker[w].outcome /\ r.want = worker[w].want
        /\ r.res = worker[w].res
    BY WorkerKnown DEF WorkerType
  <2>6. /\ b \in Blocks /\ worker[w].block = b
        /\ size'[b] = Size[worker[w].key] /\ \A a \in Blocks : a # b => size'[a] = size[a]
    BY <1>1, <1>4, WorkerKnown
  <2> HIDE DEF r, b
  <2>4. WorkerFits(r)
    <3>1. worker[w].key # None
      BY <1>1, Numbers
    <3> QED
      BY <1>1, <2>3, <3>1, WorkerKnown DEF WorkerFits, Keyless, Wanting
  <2>5. WorkerMoves(w, r)
    BY <1>2, <2>2 DEF WorkerMoves
  <2>7. Reserves(r) = worker[w].res
    BY <2>3, WorkerKnown DEF Reserves
  <2>8. reserved' = reserved - Reserves(worker[w]) + Reserves(r) /\ Reserves(r) \in Int
    BY <1>1, <1>2, <2>7, WorkerKnown
  <2>9. size'[b] > 0 /\ (r.pc = "finish" /\ r.outcome = "ok" => size'[r.block] = Size[r.key])
    BY <1>0, <2>3, <2>6
  <2>10. HeldFits' /\ LeasesFit' /\ SizesFit' /\ BooksBalance'
    BY <1>2, <2>3, <2>5, <2>6, <2>8, <2>9, WorkerBlock
  <2>11. worker[w].pc # "exited" /\ r.pc # "exited"
    BY <1>1, <2>3
  <2>12. /\ EveryoneFits' /\ EndFits' /\ CapturesFit' /\ BuildersFit' /\ KeysFit'
         /\ UsageOutlivesBuild' /\ TooLargeIsTrue'
    BY <1>2, <1>3, <2>3, <2>4, <2>5, <2>11, WorkerGoesOn
  <2> QED
    BY <2>10, <2>12 DEF SoundInv
<1>5. CASE /\ worker[w].res < MaxBytes
           /\ worker' = [worker EXCEPT ![w].want = Doubled(worker[w].res) - worker[w].res,
                                       ![w].pc = "reserve"]
           /\ UNCHANGED size
  <2> DEFINE more == Doubled(worker[w].res) - worker[w].res
             r == [worker[w] EXCEPT !.want = more, !.pc = "reserve"]
  <2>1. more \in Nat /\ more >= 1
    BY <1>1, <1>5, WorkerKnown DEF Doubled
  <2>2. worker' = [worker EXCEPT ![w] = r]
    BY <1>5, WorkerKnown DEF WorkerType
  <2>3. /\ r.key = worker[w].key /\ r.block = worker[w].block /\ r.victim = worker[w].victim
        /\ r.pc = "reserve" /\ r.outcome = worker[w].outcome /\ r.want = more
        /\ r.res = worker[w].res
    BY WorkerKnown DEF WorkerType
  <2> HIDE DEF r, more
  <2>4. WorkerFits(r)
    <3>1. worker[w].key # None
      BY <1>1, Numbers
    <3> QED
      BY <1>1, <2>1, <2>3, <3>1, WorkerKnown DEF WorkerFits, Keyless, Wanting
  <2>5. WorkerMoves(w, r)
    BY <1>2, <2>2 DEF WorkerMoves
  <2>7. Reserves(r) = worker[w].res
    BY <2>3, WorkerKnown DEF Reserves
  <2>8. reserved' = reserved - Reserves(worker[w]) + Reserves(r) /\ Reserves(r) \in Int
    BY <1>1, <1>2, <2>7, WorkerKnown
  <2>9. worker[w].pc # "exited" /\ (r.pc = "exited" => closing /\ queue = <<>>)
        /\ (r.pc = "finish" => r.outcome # "ok")
    BY <1>1, <2>3
  <2> QED
    BY <1>2, <1>5, <2>3, <2>4, <2>5, <2>8, <2>9, PlainWorker
<1>6. ASSUME NEW o \in {"tooLarge", "failed", "closing"}, GiveUp(w, o), UNCHANGED size,
             o = "tooLarge" => Size[worker[w].key] > MaxBytes
      PROVE  SoundInv'
  <2>1. reserved' = reserved - Reserves(worker[w]) + worker[w].res
    BY <1>1, <1>2, WorkerKnown
  <2> QED
    BY <1>1, <1>2, <1>6, <2>1, GiveUpSound
<1> QED
  BY <1>4, <1>5, <1>6 DEF DecodePcm

LEMMA DecodeRawSound ==
    ASSUME SoundInv, BudgetInv', NEW w \in Workers, Decode(w), worker[w].key \in RawKeys, DecodeRaw(w)
    PROVE  SoundInv'
<1>1. /\ worker[w].pc = "decode" /\ worker[w].key \in Keys
      /\ Reserves(worker[w]) = worker[w].res /\ worker[w].victim = None /\ worker[w].res >= 1
      /\ worker[w].outcome = "ok" /\ worker[w].block = None
  BY WorkerKnown, Numbers DEF Decode, WorkerLocals, WorkerFits, Reserves
<1>2. /\ UNCHANGED <<playback, player, capturing, closing>>
      /\ UNCHANGED <<usage, building, queue, entry, refs, resident, reclaiming>>
  BY DEF Decode, jobVars, playerVars
<1>3. \A j \in Keys : entry'[j] \in {entry[j], None}
  BY <1>2
<1>0. Size[worker[w].key] \in Nat /\ Size[worker[w].key] > 0
  BY <1>1, Numbers
<1>4. ASSUME NEW b \in Blocks, FreeBlock(b), size' = [size EXCEPT ![b] = Size[worker[w].key]],
             worker' = [worker EXCEPT ![w].block = b, ![w].pc = "finish"], UNCHANGED reserved
      PROVE  SoundInv'
  <2> DEFINE r == [worker[w] EXCEPT !.block = b, !.pc = "finish"]
  <2>2. worker' = [worker EXCEPT ![w] = r]
    BY <1>4, WorkerKnown DEF WorkerType
  <2>3. /\ r.key = worker[w].key /\ r.block = b /\ r.victim = worker[w].victim
        /\ r.pc = "finish" /\ r.outcome = worker[w].outcome /\ r.want = worker[w].want
        /\ r.res = worker[w].res
    BY WorkerKnown DEF WorkerType
  <2>6. /\ size[b] = 0 /\ size'[b] = Size[worker[w].key]
        /\ \A a \in Blocks : a # b => size'[a] = size[a]
    BY <1>4, WorkerKnown DEF FreeBlock
  <2> HIDE DEF r
  <2>4. WorkerFits(r)
    <3>1. worker[w].key # None
      BY <1>1, Numbers
    <3> QED
      BY <1>1, <2>3, <3>1, WorkerKnown DEF WorkerFits, Keyless, Wanting
  <2>5. WorkerMoves(w, r)
    BY <1>2, <2>2 DEF WorkerMoves
  <2>7. Reserves(r) = worker[w].res
    BY <2>3, WorkerKnown DEF Reserves
  <2>8. reserved' = reserved - Reserves(worker[w]) + Reserves(r) /\ Reserves(r) \in Int
    BY <1>1, <1>4, <2>7, WorkerKnown
  <2>9. size'[b] > 0 /\ (r.pc = "finish" /\ r.outcome = "ok" => size'[r.block] = Size[r.key])
    BY <1>0, <2>3, <2>6
  <2>10. HeldFits' /\ LeasesFit' /\ SizesFit' /\ BooksBalance'
    BY <1>1, <1>2, <2>3, <2>5, <2>6, <2>8, <2>9, WorkerBlock
  <2>11. worker[w].pc # "exited" /\ r.pc # "exited"
    BY <1>1, <2>3
  <2>12. /\ EveryoneFits' /\ EndFits' /\ CapturesFit' /\ BuildersFit' /\ KeysFit'
         /\ UsageOutlivesBuild' /\ TooLargeIsTrue'
    BY <1>2, <1>3, <2>3, <2>4, <2>5, <2>11, WorkerGoesOn
  <2> QED
    BY <2>10, <2>12 DEF SoundInv
<1>5. CASE /\ reserved' = reserved - worker[w].res
           /\ worker' = [worker EXCEPT ![w].want = Doubled(worker[w].res), ![w].res = 0,
                                       ![w].pc = "reserve"]
           /\ UNCHANGED size
  <2> DEFINE more == Doubled(worker[w].res)
             r == [worker[w] EXCEPT !.want = more, !.res = 0, !.pc = "reserve"]
  <2>1. more \in Nat /\ more >= 1
    BY <1>1, WorkerKnown, TypeOfWorker DEF Doubled
  <2>2. worker' = [worker EXCEPT ![w] = r]
    BY <1>5, WorkerKnown DEF WorkerType
  <2>3. /\ r.key = worker[w].key /\ r.block = worker[w].block /\ r.victim = worker[w].victim
        /\ r.pc = "reserve" /\ r.outcome = worker[w].outcome /\ r.want = more
        /\ r.res = 0
    BY WorkerKnown DEF WorkerType
  <2> HIDE DEF r, more
  <2>4. WorkerFits(r)
    <3>1. worker[w].key # None
      BY <1>1, Numbers
    <3> QED
      BY <1>1, <2>1, <2>3, <3>1, WorkerKnown DEF WorkerFits, Keyless, Wanting
  <2>5. WorkerMoves(w, r)
    BY <1>2, <2>2 DEF WorkerMoves
  <2>7. Reserves(r) = 0
    BY <2>3, WorkerKnown DEF Reserves
  <2>8. reserved' = reserved - Reserves(worker[w]) + Reserves(r) /\ Reserves(r) \in Int
    BY <1>1, <1>5, <2>7, WorkerKnown
  <2>9. worker[w].pc # "exited" /\ (r.pc = "exited" => closing /\ queue = <<>>)
        /\ (r.pc = "finish" => r.outcome # "ok")
    BY <1>1, <2>3
  <2> QED
    BY <1>2, <1>5, <2>3, <2>4, <2>5, <2>8, <2>9, PlainWorker
<1>6. ASSUME NEW o \in {"tooLarge", "failed"}, GiveUp(w, o), UNCHANGED <<size, reserved>>,
             o = "tooLarge" => Size[worker[w].key] > MaxBytes
      PROVE  SoundInv'
  <2>1. reserved' = reserved - Reserves(worker[w]) + worker[w].res
    BY <1>1, <1>6, WorkerKnown
  <2> QED
    BY <1>1, <1>2, <1>6, <2>1, GiveUpSound
<1> QED
  BY <1>4, <1>5, <1>6 DEF DecodeRaw

LEMMA AbandonSound ==
    ASSUME SoundInv, BudgetInv', NEW w \in Workers, Abandon(w) PROVE SoundInv'
<1> DEFINE b == worker[w].block
           r == [worker[w] EXCEPT !.block = None, !.res = 0, !.pc = "finish"]
<1>1. /\ worker[w].pc = "abandon" /\ worker[w].key \in Keys
      /\ Reserves(worker[w]) = worker[w].res /\ worker[w].victim = None
      /\ worker[w].outcome # "ok" /\ b \in Blocks
  BY WorkerKnown, Numbers DEF Abandon, WorkerLocals, WorkerFits, Reserves
<1>2. /\ UNCHANGED <<playback, player, capturing, closing>>
      /\ UNCHANGED <<usage, building, queue, entry, refs, resident, reclaiming>>
      /\ reserved' = reserved - worker[w].res
  BY DEF Abandon, jobVars, playerVars
<1>3. \A j \in Keys : entry'[j] \in {entry[j], None}
  BY <1>2
<1>4. worker' = [worker EXCEPT ![w] = r]
  BY WorkerKnown DEF Abandon, WorkerType
<1>5. /\ r.key = worker[w].key /\ r.block = None /\ r.victim = worker[w].victim
      /\ r.pc = "finish" /\ r.outcome = worker[w].outcome /\ r.want = worker[w].want
      /\ r.res = 0
  BY WorkerKnown DEF WorkerType
<1>6. /\ size'[b] = 0 /\ \A a \in Blocks : a # b => size'[a] = size[a]
  BY <1>1, WorkerKnown DEF Abandon
<1>7. worker[w].block = b
  OBVIOUS
<1> HIDE DEF r, b
<1>8. WorkerFits(r)
  <2>1. worker[w].key # None
    BY <1>1, Numbers
  <2> QED
    BY <1>1, <1>5, <2>1, WorkerKnown DEF WorkerFits, Keyless, Wanting
<1>9. WorkerMoves(w, r)
  BY <1>2, <1>4 DEF WorkerMoves
<1>10. Reserves(r) = 0
  BY <1>5, WorkerKnown DEF Reserves
<1>11. reserved' = reserved - Reserves(worker[w]) + Reserves(r) /\ Reserves(r) \in Int
  BY <1>1, <1>2, <1>10, WorkerKnown
<1>12. r.pc = "finish" /\ r.outcome = "ok" => size'[r.block] = Size[r.key]
  BY <1>1, <1>5
<1>13. HeldFits' /\ LeasesFit' /\ SizesFit' /\ BooksBalance'
  BY <1>1, <1>2, <1>5, <1>6, <1>7, <1>9, <1>11, <1>12, WorkerBlock
<1>14. worker[w].pc # "exited" /\ r.pc # "exited"
  BY <1>1, <1>5
<1>15. /\ EveryoneFits' /\ EndFits' /\ CapturesFit' /\ BuildersFit' /\ KeysFit'
       /\ UsageOutlivesBuild' /\ TooLargeIsTrue'
  BY <1>2, <1>3, <1>5, <1>8, <1>9, <1>14, WorkerGoesOn
<1> QED
  BY <1>13, <1>15 DEF SoundInv

LEMMA DiscardSound ==
    ASSUME SoundInv, BudgetInv', NEW w \in Workers, Discard(w) PROVE SoundInv'
<1> DEFINE b == worker[w].block
           r == Resting
<1>1. /\ worker[w].pc = "discard" /\ worker[w].key = None
      /\ Reserves(worker[w]) = 0 /\ worker[w].victim = None /\ b \in Blocks
  BY WorkerKnown, Numbers DEF Discard, WorkerLocals, WorkerFits, Reserves, Keyless
<1>2. /\ UNCHANGED <<playback, player, capturing, closing>>
      /\ UNCHANGED <<usage, building, queue, entry, refs, resident, reserved, reclaiming>>
  BY DEF Discard, jobVars, playerVars, bookVars
<1>3. \A j \in Keys : entry'[j] \in {entry[j], None}
  BY <1>2
<1>4. worker' = [worker EXCEPT ![w] = r]
  BY DEF Discard
<1>5. /\ r.key = None /\ r.block = None /\ r.victim = None
      /\ r.pc = "idle" /\ r.outcome = "ok" /\ r.want = 0 /\ r.res = 0
  BY DEF Resting
<1>6. /\ size'[b] = 0 /\ \A a \in Blocks : a # b => size'[a] = size[a]
  BY <1>1, WorkerKnown DEF Discard
<1>7. worker[w].block = b
  OBVIOUS
<1> HIDE DEF r, b
<1>8. WorkerFits(r)
  BY <1>5 DEF WorkerFits, Keyless, Wanting
<1>9. WorkerMoves(w, r)
  BY <1>2, <1>4 DEF WorkerMoves
<1>10. Reserves(r) = 0
  BY <1>5, WorkerKnown DEF Reserves
<1>11. reserved' = reserved - Reserves(worker[w]) + Reserves(r) /\ Reserves(r) \in Int
  BY <1>1, <1>2, <1>10, WorkerKnown
<1>12. r.pc = "finish" /\ r.outcome = "ok" => size'[r.block] = Size[r.key]
  BY <1>5
<1>13. HeldFits' /\ LeasesFit' /\ SizesFit' /\ BooksBalance'
  BY <1>1, <1>2, <1>5, <1>6, <1>7, <1>9, <1>11, <1>12, WorkerBlock
<1>14. worker[w].pc # "exited" /\ r.pc # "exited" /\ r.key = worker[w].key
  BY <1>1, <1>5
<1>15. /\ EveryoneFits' /\ EndFits' /\ CapturesFit' /\ BuildersFit' /\ KeysFit'
       /\ UsageOutlivesBuild' /\ TooLargeIsTrue'
  BY <1>2, <1>3, <1>8, <1>9, <1>14, WorkerGoesOn
<1> QED
  BY <1>13, <1>15 DEF SoundInv

(* A build that ends: its key is free again, whatever became of it.         *)
LEMMA FinishJobs ==
    ASSUME SoundInv, BudgetInv', NEW w \in Workers, Finish(w), NEW r, WorkerMoves(w, r),
           WorkerFits(r), r.pc # "exited", r.key = None
    PROVE  /\ EveryoneFits' /\ EndFits' /\ CapturesFit' /\ BuildersFit' /\ KeysFit'
           /\ UsageOutlivesBuild' /\ TooLargeIsTrue'
<1> USE DEF SoundInv
<1> DEFINE k == worker[w].key
<1>1. /\ worker[w].pc = "finish" /\ k \in Keys /\ k # None
      /\ building' = building \ {k} /\ usage' = UsageAfterBuild(k, worker[w].outcome)
      /\ queue' = queue /\ capturing' = capturing /\ building \subseteq Keys
      /\ worker[w].outcome = "tooLarge" => Size[k] > MaxBytes
      /\ entry' = entry \/ entry' = [entry EXCEPT ![k] = worker[w].block]
  BY WorkerKnown, TypesOfAll, Numbers DEF Finish, WorkerLocals, WorkerFits
<1>2. worker'[w] = r /\ \A v \in Workers : v # w => worker'[v] = worker[v]
  BY WorkerIs
<1>3. k \in building /\ k \notin capturing
  BY <1>1 DEF BuildersFit, KeysFit
<1>4. EveryoneFits' /\ EndFits' /\ CapturesFit'
  BY <1>1, WorkerFrame
<1> HIDE DEF k
<1>5. /\ \A i \in 1 .. Len(queue) : queue[i] # k
      /\ \A v \in Workers : v # w => worker[v].key # k
  BY <1>1 DEF BuildersFit, k
<1>6. BuildersFit'
  <2>1. \A i \in 1 .. Len(queue') : queue'[i] \in building'
    BY <1>1, <1>5 DEF BuildersFit
  <2>2. \A i, j \in 1 .. Len(queue') : queue'[i] = queue'[j] => i = j
    BY <1>1 DEF BuildersFit
  <2>3. ASSUME NEW v \in Workers, worker'[v].key # None
        PROVE  /\ worker'[v].key \in building'
               /\ \A i \in 1 .. Len(queue') : queue'[i] # worker'[v].key
               /\ \A u \in Workers : worker'[u].key = worker'[v].key => u = v
    <3>1. v # w /\ worker'[v] = worker[v]
      BY <1>2, <2>3
    <3>2. worker[v].key \in building /\ worker[v].key # k
      BY <1>5, <2>3, <3>1 DEF BuildersFit
    <3>3. \A i \in 1 .. Len(queue) : queue[i] # worker[v].key
      BY <2>3, <3>1 DEF BuildersFit
    <3>4. \A u \in Workers : worker'[u].key = worker'[v].key => u = v
      BY <1>2, <2>3, <3>1 DEF BuildersFit
    <3> QED
      BY <1>1, <3>1, <3>2, <3>3, <3>4
  <2>4. ASSUME NEW j \in building'
        PROVE  \/ \E i \in 1 .. Len(queue') : queue'[i] = j
               \/ \E v \in Workers : worker'[v].key = j
    <3>1. j \in building /\ j # k
      BY <1>1
    <3>2. CASE \E i \in 1 .. Len(queue) : queue[i] = j
      BY <1>1, <3>2
    <3>3. CASE \E v \in Workers : worker[v].key = j
      BY <1>2, <3>1, <3>3 DEF k
    <3> QED
      BY <3>1, <3>2, <3>3 DEF BuildersFit
  <2> QED
    BY <2>1, <2>2, <2>3, <2>4 DEF BuildersFit
<1>7. KeysFit'
  <2>1. \A j \in building' \union capturing' : j # k /\ j \in building \union capturing /\ j \in Keys
    BY <1>1, <1>3, Numbers DEF CapturesFit
  <2>2. \A j \in building' \union capturing' : entry'[j] = entry[j]
    BY <1>1, <2>1, TypesOfAll
  <2>3. \A j \in building' \union capturing' : entry'[j] \in {entry[j], None}
    BY <2>2
  <2>4. building' \subseteq building /\ capturing' \subseteq capturing
    BY <1>1
  <2> QED
    BY <2>3, <2>4, KeysStay
<1>8. /\ \A j \in Keys : usage'[j].plays = usage[j].plays
      /\ \A j \in Keys : usage'[j].tooLarge => usage[j].tooLarge \/ (j = k /\ worker[w].outcome = "tooLarge")
  <2>1. UsageType
    BY DEF BudgetInv, Shape
  <2> QED
    BY <1>1, <2>1 DEF UsageAfterBuild, UsageType
<1>9. UsageOutlivesBuild'
  <2>1. \A j \in building' \union capturing' : j \in building \union capturing /\ j \in Keys
    BY <1>1, Numbers DEF CapturesFit
  <2> QED
    BY <1>8, <2>1 DEF UsageOutlivesBuild, Used
<1>10. TooLargeIsTrue'
  BY <1>1, <1>8 DEF TooLargeIsTrue
<1> QED
  BY <1>4, <1>6, <1>7, <1>9, <1>10

LEMMA FinishSound ==
    ASSUME SoundInv, BudgetInv', NEW w \in Workers, Finish(w) PROVE SoundInv'
<1> USE DEF SoundInv
<1> DEFINE k == worker[w].key
           b == worker[w].block
           admitted == worker[w].outcome = "ok" /\ Admits(k)
           r == IF admitted \/ b = None THEN Resting
                ELSE [Resting EXCEPT !.pc = "discard", !.block = b]
<1>1. /\ worker[w].pc = "finish" /\ k \in Keys /\ worker[w].victim = None
      /\ Reserves(worker[w]) = worker[w].res
  BY WorkerKnown DEF Finish, WorkerLocals, WorkerFits, Reserves
<1>2. /\ UNCHANGED <<playback, player, capturing, closing, size, reclaiming>>
      /\ reserved' = reserved - worker[w].res
  BY DEF Finish, playerVars
<1>3. worker' = [worker EXCEPT ![w] = r]
  BY DEF Finish
<1>4. /\ r.key = None /\ r.victim = None /\ r.pc \in {"idle", "discard"} /\ r.outcome = "ok"
      /\ r.res = 0 /\ r.want = 0
      /\ r.pc = "idle" => r.block = None
  BY DEF Resting
<1>5. r.block = IF admitted THEN None ELSE b
  BY DEF Resting
<1>6. admitted => /\ worker[w].outcome = "ok" /\ Admits(k)
                  /\ entry' = [entry EXCEPT ![k] = b]
                  /\ refs' = [refs EXCEPT ![b] = 0]
                  /\ resident' = resident + Size[k]
  BY DEF Finish
<1>7. ~admitted => UNCHANGED <<entry, refs, resident>>
  BY DEF Finish
<1>8. b \in Blocks \union {None}
  BY WorkerKnown
<1> HIDE DEF admitted, r
<1>9. WorkerFits(r)
  BY <1>4 DEF WorkerFits, Keyless, Wanting
<1>10. WorkerMoves(w, r)
  BY <1>2, <1>3 DEF WorkerMoves
<1>11. /\ worker'[w] = r /\ \A v \in Workers : v # w => worker'[v] = worker[v]
       /\ playback' = playback /\ player' = player
  BY <1>10, WorkerIs
<1>12. /\ EveryoneFits' /\ EndFits' /\ CapturesFit' /\ BuildersFit' /\ KeysFit'
       /\ UsageOutlivesBuild' /\ TooLargeIsTrue'
  <2>1. r.pc # "exited"
    BY <1>4
  <2> QED
    BY <1>4, <1>9, <1>10, <2>1, FinishJobs
<1>13. Reserves(r) = 0
  BY <1>4 DEF Reserves
<1>14. SizesFit'
  BY <1>2, <1>4, <1>11 DEF SizesFit
<1>15. CASE ~admitted
  <2>1. reserved' = reserved - Reserves(worker[w]) + Reserves(r) /\ Reserves(r) \in Int
    BY <1>1, <1>2, <1>13, WorkerKnown
  <2>2. UNCHANGED <<size, entry, refs, resident, reclaiming>>
    BY <1>2, <1>7, <1>15
  <2>3. r.block = worker[w].block /\ r.victim = worker[w].victim /\ (r.pc = "finish" => r.outcome # "ok")
    BY <1>1, <1>4, <1>5, <1>15
  <2>4. HeldFits' /\ LeasesFit' /\ SizesFit' /\ BooksBalance'
    BY <1>10, <2>1, <2>2, <2>3, WorkerReserves
  <2> QED
    BY <1>12, <2>4
<1>16. CASE admitted
  <2>1. /\ b \in Blocks /\ b # None /\ size[b] = Size[k] /\ entry[k] = None
        /\ Size[k] \in Int
    BY <1>1, <1>6, <1>8, <1>16, FinishedHasBlock, Numbers DEF Admits
  <2>2. /\ entry' = [entry EXCEPT ![k] = b] /\ refs' = [refs EXCEPT ![b] = 0]
        /\ resident' = resident + Size[k] /\ r.block = None
    BY <1>5, <1>6, <1>16
  <2>0. entry \in [Keys -> Blocks \union {None}] /\ refs \in [Blocks -> Int]
    BY TypesOfAll
  <2> DEFINE x == <<"block", w>>
             y == <<"entry", k>>
  <2>3. x \in Holders /\ y \in Holders /\ x # y
    BY <1>1, HeldNow
  <2>4. Held[x] = b /\ Held[y] = None /\ Held'[x] = None /\ Held'[y] = b
    BY <1>1, <1>11, <2>0, <2>1, <2>2, HeldNow, HeldNext
  <2>5. HeldFits'
    <3>1. HeldOutside({x, y})
      BY <1>1, <1>4, <1>11, <2>0, <2>2 DEF HeldOutside
    <3>2. \A a \in Blocks : size'[a] > 0 <=> size[a] > 0
      BY <1>2
    <3> HIDE DEF x, y
    <3> QED
      BY <2>1, <2>3, <2>4, <3>1, <3>2, HeldMoves
  <2>6. LeasesFit'
    <3>1. \A j \in Keys : entry[j] # b
      BY <2>1, <2>3, <2>4, HeldAlone
    <3>2. \A p \in Playbacks : playback[p].lease # None => playback[p].lease # b /\ playback[p].key # k
      BY <2>1, <3>1 DEF LeasesFit
    <3>3. \A a \in Blocks : (Leases(a))' = Leases(a)
      BY <1>11 DEF Leases
    <3>4. Leases(b) = {}
      BY <2>1, <3>2 DEF Leases
    <3>5. \A a \in Blocks : refs'[a] = Cardinality(Leases(a))
      BY <2>0, <2>1, <2>2, <3>4, FS_EmptySet DEF LeasesFit
    <3>6. \A p \in Playbacks : playback'[p].lease # None =>
             playback'[p].key \in Keys /\ entry'[playback'[p].key] = playback'[p].lease
      BY <1>11, <2>0, <2>2, <3>2 DEF LeasesFit
    <3> QED
      BY <3>3, <3>5, <3>6 DEF LeasesFit
  <2>7. BooksBalance'
    <3>0. PICK i \in Keys : i = k
      BY <1>1
    <3>1. Assets' = Assets - SizeOf(entry[i]) + (SizeOf(entry[i]))'
      <4>1. \A j \in Keys : j # i => (SizeOf(entry[j]))' = SizeOf(entry[j])
        BY <1>2, <2>0, <2>2, <3>0 DEF SizeOf
      <4> QED
        BY <4>1, AssetsChange
    <3>2. SizeOf(entry[i]) = 0 /\ (SizeOf(entry[i]))' = Size[k]
      <4>1. entry[i] = None /\ entry'[i] = b /\ size'[b] = Size[k]
        BY <1>2, <2>0, <2>1, <2>2, <3>0
      <4> QED
        BY <2>1, <4>1 DEF SizeOf
    <3>3. Victims' = Victims
      <4>1. \A v \in Workers : worker'[v].victim = worker[v].victim
        BY <1>1, <1>4, <1>11
      <4> QED
        BY <1>2, <4>1, VictimsStay
    <3>5. /\ Builds' = Builds - Reserves(worker[w]) + Reserves(r)
          /\ Captures' = Captures /\ player'.want = player.want
      BY <1>10, WorkerBooks
    <3>7. resident = Assets /\ reserved = Builds + Captures + player.want /\ reclaiming = Victims
      BY BooksAre
    <3>8. /\ Assets \in Int /\ Builds \in Int /\ Captures \in Int /\ Victims \in Int
          /\ player.want \in Int /\ worker[w].res \in Int
      BY SumTypes, TermTypes, WorkerKnown
    <3>9. resident' = Assets' /\ reclaiming' = Victims'
      BY <1>2, <2>1, <2>2, <3>1, <3>2, <3>3, <3>7, <3>8
    <3>10. reserved' = Builds' + Captures' + player'.want
      BY <1>1, <1>2, <1>13, <3>5, <3>7, <3>8
    <3> QED
      BY <3>9, <3>10, BooksAre
  <2> QED
    BY <1>12, <1>14, <2>5, <2>6, <2>7
<1> QED
  BY <1>15, <1>16

LEMMA WorkersKeepSound ==
    ASSUME SoundInv, BudgetInv', NEW w \in Workers, WorkerStep(w) PROVE SoundInv'
<1>1. Reserve(w) => SoundInv'
  BY ReserveSound, DetachSound
<1>2. Decode(w) => SoundInv'
  BY DecodePcmSound, DecodeRawSound DEF Decode
<1> QED
  BY <1>1, <1>2, TakeSound, OpenSound, ReclaimSound, AllocateSound, AbandonSound,
     FinishSound, DiscardSound, ExitSound DEF WorkerStep

-----------------------------------------------------------------------------
(* The steps of the player thread.                                          *)
LEMMA ThreadKnown ==
    ASSUME SoundInv
    PROVE  /\ BudgetInv /\ player \in PlayerType /\ playback \in [Playbacks -> PlaybackType]
           /\ PlayerLocals /\ player.at \in PlayerPlaces /\ player.want \in Nat
           /\ player.at \in Busy => /\ player.p \in Playbacks /\ Current \in PlaybackType
                                    /\ Current.key \in Keys
           /\ player.at # "grow" => player.want = 0
           /\ player.at = "grow" => Current.capture.on
           /\ player.trash \in Blocks \union {None}
           /\ closing <=> player.at \in {"waiting", "closed"}
           /\ player.trash # None => ~closing
<1>1. BudgetInv /\ player \in PlayerType /\ playback \in [Playbacks -> PlaybackType] /\ PlayerLocals
  BY TypesOfAll DEF SoundInv, BudgetInv, Locals
<1>2. player.at \in PlayerPlaces /\ player.trash \in Blocks \union {None} /\ player.want \in Nat
  BY <1>1, Numbers DEF PlayerType, Bytes
<1>3. player.at \in Busy => /\ player.p \in Playbacks /\ Current \in PlaybackType
                            /\ Current.key \in Keys
  BY <1>1 DEF PlayerLocals, Current
<1>4. /\ player.at # "grow" => player.want = 0
      /\ player.at = "grow" => Current.capture.on
  BY DEF SoundInv, EveryoneFits
<1>5. /\ closing <=> player.at \in {"waiting", "closed"}
      /\ player.trash # None => ~closing
  BY DEF SoundInv, EndFits
<1> QED
  BY <1>1, <1>2, <1>3, <1>4, <1>5

LEMMA PlaybackKnown ==
    ASSUME SoundInv, NEW p \in Playbacks
    PROVE  /\ playback[p] \in PlaybackType /\ PlaybackFits(playback[p])
           /\ playback[p].key \in Keys \union {None} /\ playback[p].lease \in Blocks \union {None}
           /\ playback[p].capture.block \in Blocks \union {None}
           /\ playback[p].capture.bytes \in Nat /\ playback[p].capture.cap \in Nat
           /\ playback[p].capture.on \in BOOLEAN
           /\ playback[p].capture.on => /\ playback[p].key \in PcmKeys /\ playback[p].key \in Keys
                                        /\ playback[p].key \in capturing
                                        /\ entry[playback[p].key] = None
                                        /\ playback[p].lease = None
           /\ playback[p].lease # None => /\ playback[p].key \in Keys
                                          /\ entry[playback[p].key] = playback[p].lease
<1>1. playback[p] \in PlaybackType /\ PlaybackFits(playback[p])
  BY TypesOfAll DEF SoundInv, EveryoneFits
<1>2. /\ playback[p].key \in Keys \union {None} /\ playback[p].lease \in Blocks \union {None}
      /\ playback[p].capture.block \in Blocks \union {None}
      /\ playback[p].capture.bytes \in Nat /\ playback[p].capture.cap \in Nat
      /\ playback[p].capture.on \in BOOLEAN
  BY <1>1, PlaybackFields
<1>3. playback[p].lease # None => /\ playback[p].key \in Keys
                                  /\ entry[playback[p].key] = playback[p].lease
  BY DEF SoundInv, LeasesFit
<1>4. playback[p].capture.on => /\ playback[p].key \in PcmKeys /\ playback[p].key \in Keys
                                /\ playback[p].key \in capturing
                                /\ entry[playback[p].key] = None
  BY <1>1, Numbers DEF SoundInv, CapturesFit, Capturing, PlaybackFits, KeysFit
<1> QED
  BY <1>1, <1>2, <1>3, <1>4

(* What every step of the thread but the last two leaves as it was.         *)
LEMMA ThreadFrame ==
    ASSUME SoundInv, UNCHANGED worker, ~closing, UNCHANGED closing,
           \A q \in Playbacks : PlaybackFits(playback'[q]),
           player'.at \notin {"waiting", "closed"},
           player'.at # "grow" => player'.want = 0,
           player'.at = "grow" => (Current.capture.on)'
    PROVE  EveryoneFits' /\ EndFits'
<1>1. EveryoneFits'
  BY DEF SoundInv, EveryoneFits
<1>2. EndFits'
  BY DEF SoundInv, EndFits
<1> QED
  BY <1>1, <1>2

LEMMA WorkersStay ==
    ASSUME SoundInv, UNCHANGED worker,
           \A v \in Workers : worker[v].block # None => size'[worker[v].block] = size[worker[v].block]
    PROVE  SizesFit'
<1> SUFFICES ASSUME NEW v \in Workers, worker[v].pc = "finish", worker[v].outcome = "ok"
             PROVE  size'[worker[v].block] = Size[worker[v].key]
  BY DEF SizesFit
<1>1. worker[v].block # None /\ size[worker[v].block] = Size[worker[v].key]
  BY FinishedHasBlock
<1> QED
  BY <1>1

(* A step that leaves the playbacks and the blocks alone.                   *)
LEMMA ThreadOnly ==
    ASSUME SoundInv, BudgetInv', UNCHANGED <<playback, worker, size, entry, refs>>,
           UNCHANGED <<resident, reclaiming, capturing>>, player'.trash = player.trash,
           reserved' = reserved - player.want + player'.want
    PROVE  HeldFits' /\ LeasesFit' /\ SizesFit' /\ CapturesFit' /\ BooksBalance'
<1> USE DEF SoundInv
<1>1. HeldFits'
  <2>1. HeldOutside({})
    BY DEF HeldOutside
  <2> QED
    BY <2>1, HeldStays
<1>2. LeasesFit'
  BY LeasesStay
<1>3. SizesFit'
  BY WorkersStay
<1>4. CapturesFit'
  BY CapturesFitStay
<1>5. BooksBalance'
  <2>1. Assets' = Assets
    BY AssetsStay
  <2>2. Victims' = Victims
    BY VictimsStay
  <2>3. Builds' = Builds
    <3>1. \A v \in Workers : (Reserves(worker[v]))' = Reserves(worker[v])
      BY DEF Reserves
    <3> QED
      BY <3>1, BuildsStay
  <2>4. Captures' = Captures
    BY CapturesStay
  <2>5. resident = Assets /\ reserved = Builds + Captures + player.want /\ reclaiming = Victims
    BY BooksAre
  <2>6. /\ Builds \in Int /\ Captures \in Int /\ player.want \in Int /\ player'.want \in Int
    BY SumTypes, TermTypes, TermTypesNext
  <2>7. reserved' = Builds' + Captures' + player'.want
    BY <2>3, <2>4, <2>5, <2>6
  <2> QED
    BY <2>1, <2>2, <2>5, <2>7, BooksAre
<1> QED
  BY <1>1, <1>2, <1>3, <1>4, <1>5

(* Nothing is built or captured that was not.                               *)
LEMMA ProducersStay ==
    ASSUME SoundInv, UNCHANGED <<worker, queue, building>>, capturing' \subseteq capturing,
           \A k \in building' \union capturing' : entry'[k] \in {entry[k], None}
    PROVE  BuildersFit' /\ KeysFit'
<1>1. BuildersFit'
  BY BuildersStay DEF SoundInv
<1>2. KeysFit'
  BY KeysStay DEF SoundInv
<1> QED
  BY <1>1, <1>2

LEMMA UsageKeeps ==
    ASSUME SoundInv, building' \subseteq building, capturing' \subseteq capturing,
           \A k \in building \union capturing : usage'[k].plays > 0,
           \A k \in Keys : usage'[k].tooLarge => usage[k].tooLarge \/ Size[k] > MaxBytes
    PROVE  UsageOutlivesBuild' /\ TooLargeIsTrue'
<1>1. UsageOutlivesBuild'
  BY DEF UsageOutlivesBuild, Used
<1>2. TooLargeIsTrue'
  BY DEF TooLargeIsTrue, SoundInv
<1> QED
  BY <1>1, <1>2

LEMMA FilledSound ==
    ASSUME SoundInv, BudgetInv', Filled PROVE SoundInv'
<1>1. /\ player.at = "fill" /\ player.trash = None /\ player' = Leaves
      /\ UNCHANGED <<playback, worker, size, entry, refs>>
      /\ UNCHANGED <<resident, reclaiming, capturing, reserved, usage, queue, building, closing>>
  BY DEF Filled, At, assetVars, jobVars, bookVars, workerVars
<1>2. player.want = 0 /\ ~closing /\ player \in PlayerType
  BY <1>1, ThreadKnown
<1>3. player'.trash = None /\ player'.want = 0 /\ player'.at \in {"schedule", "ready"}
  BY <1>1, <1>2 DEF Leaves, Ready, PlayerType
<1>4. EveryoneFits' /\ EndFits'
  <2>1. \A q \in Playbacks : PlaybackFits(playback'[q])
    BY <1>1 DEF SoundInv, EveryoneFits
  <2> QED
    BY <1>1, <1>2, <1>3, <2>1, ThreadFrame
<1>5. reserved' = reserved - player.want + player'.want /\ player'.trash = player.trash
  BY <1>1, <1>2, <1>3, WorkerKnown, TypesOfAll DEF SoundInv
<1>6. HeldFits' /\ LeasesFit' /\ SizesFit' /\ CapturesFit' /\ BooksBalance'
  BY <1>1, <1>5, ThreadOnly
<1>7. BuildersFit' /\ KeysFit'
  BY <1>1, ProducersStay
<1>8. UsageOutlivesBuild' /\ TooLargeIsTrue'
  BY <1>1, UsageStays DEF SoundInv
<1> QED
  BY <1>4, <1>6, <1>7, <1>8 DEF SoundInv

LEMMA ShutdownSound ==
    ASSUME SoundInv, BudgetInv', Shutdown PROVE SoundInv'
<1>1. /\ player.at = "ready" /\ player.trash = None /\ player' = [Ready EXCEPT !.at = "stopping"]
      /\ UNCHANGED <<playback, worker, size, entry, refs>>
      /\ UNCHANGED <<resident, reclaiming, capturing, reserved, usage, queue, building, closing>>
  BY DEF Shutdown, At, assetVars, jobVars, bookVars, workerVars
<1>2. player.want = 0 /\ ~closing
  BY <1>1, ThreadKnown
<1>3. player'.trash = None /\ player'.want = 0 /\ player'.at = "stopping"
  BY <1>1 DEF Ready
<1>4. EveryoneFits' /\ EndFits'
  <2>1. \A q \in Playbacks : PlaybackFits(playback'[q])
    BY <1>1 DEF SoundInv, EveryoneFits
  <2> QED
    BY <1>1, <1>2, <1>3, <2>1, ThreadFrame
<1>5. reserved' = reserved - player.want + player'.want /\ player'.trash = player.trash
  BY <1>1, <1>2, <1>3, TypesOfAll DEF SoundInv
<1>6. HeldFits' /\ LeasesFit' /\ SizesFit' /\ CapturesFit' /\ BooksBalance'
  BY <1>1, <1>5, ThreadOnly
<1>7. BuildersFit' /\ KeysFit'
  BY <1>1, ProducersStay
<1>8. UsageOutlivesBuild' /\ TooLargeIsTrue'
  BY <1>1, UsageStays DEF SoundInv
<1> QED
  BY <1>4, <1>6, <1>7, <1>8 DEF SoundInv

(* Steps that only change usage records.                                    *)
LEMMA UsageOnly ==
    ASSUME SoundInv, BudgetInv', UNCHANGED <<assetVars, capturing, jobVars, bookVars, workerVars, playerVars>>,
           \A k \in building \union capturing : usage'[k].plays > 0,
           \A k \in Keys : usage'[k].tooLarge => usage[k].tooLarge \/ Size[k] > MaxBytes
    PROVE  SoundInv'
<1>1. /\ UNCHANGED <<playback, player, worker, size, entry, refs>>
      /\ UNCHANGED <<resident, reclaiming, capturing, reserved, queue, building, closing>>
  BY DEF assetVars, jobVars, bookVars, workerVars, playerVars
<1>2. EveryoneFits' /\ EndFits'
  BY <1>1 DEF SoundInv, EveryoneFits, EndFits, Current
<1>3. reserved' = reserved - player.want + player'.want /\ player'.trash = player.trash
  BY <1>1, TypesOfAll, TermTypes DEF SoundInv
<1>4. HeldFits' /\ LeasesFit' /\ SizesFit' /\ CapturesFit' /\ BooksBalance'
  BY <1>1, <1>3, ThreadOnly
<1>5. BuildersFit' /\ KeysFit'
  BY <1>1, ProducersStay
<1>6. UsageOutlivesBuild' /\ TooLargeIsTrue'
  BY <1>1, UsageKeeps
<1> QED
  BY <1>2, <1>4, <1>5, <1>6 DEF SoundInv

LEMMA ProducedKeys ==
    ASSUME SoundInv
    PROVE  /\ building \subseteq Keys /\ capturing \subseteq Keys
           /\ \A k \in building \union capturing : k \in Keys /\ usage[k].plays > 0
           /\ usage \in [Keys -> [plays : 0 .. 2, fresh : BOOLEAN, tooLarge : BOOLEAN,
                                  backoff : BOOLEAN]]
<1>1. building \subseteq Keys /\ capturing \subseteq Keys
  BY TypesOfAll, Numbers DEF SoundInv, CapturesFit
<1>2. \A k \in building \union capturing : usage[k].plays > 0
  BY <1>1 DEF SoundInv, UsageOutlivesBuild, Used
<1> QED
  BY <1>1, <1>2 DEF SoundInv, BudgetInv, Shape, UsageType

LEMMA TimeSound ==
    ASSUME SoundInv, BudgetInv', NEW k \in Keys, TimePasses(k) PROVE SoundInv'
<1>1. \A j \in Keys : usage'[j].plays = usage[j].plays /\ usage'[j].tooLarge = usage[j].tooLarge
  BY ProducedKeys DEF TimePasses
<1>2. \A j \in building \union capturing : usage'[j].plays > 0
  BY <1>1, ProducedKeys
<1>3. \A j \in Keys : usage'[j].tooLarge => usage[j].tooLarge \/ Size[j] > MaxBytes
  BY <1>1
<1> QED
  BY <1>2, <1>3, UsageOnly DEF TimePasses

LEMMA StutterSound ==
    ASSUME SoundInv, BudgetInv', UNCHANGED vars PROVE SoundInv'
<1>1. /\ UNCHANGED <<assetVars, capturing, jobVars, bookVars, workerVars, playerVars>>
      /\ usage' = usage
  BY DEF vars
<1>2. \A j \in building \union capturing : usage'[j].plays > 0
  BY <1>1, ProducedKeys
<1> QED
  BY <1>1, <1>2, UsageOnly

(* A block that left the books is freed.                                    *)
LEMMA FreeTrashSound ==
    ASSUME SoundInv, BudgetInv', FreeTrash PROVE SoundInv'
<1> USE DEF SoundInv
<1>1. /\ player.trash \in Blocks /\ size' = [size EXCEPT ![player.trash] = 0]
      /\ player' = [player EXCEPT !.trash = None] /\ player \in PlayerType /\ ~closing
      /\ UNCHANGED <<playback, worker, entry, refs>>
      /\ UNCHANGED <<resident, reclaiming, capturing, reserved, usage, queue, building, closing>>
      /\ size \in [Blocks -> Nat]
  BY ThreadKnown, TypesOfAll DEF FreeTrash, At, jobVars, bookVars, workerVars
<1>2. /\ player'.trash = None /\ player'.want = player.want /\ player'.at = player.at
      /\ player'.p = player.p
  BY <1>1 DEF PlayerType
<1>3. EveryoneFits' /\ EndFits'
  <2>1. \A q \in Playbacks : PlaybackFits(playback'[q])
    BY <1>1 DEF EveryoneFits
  <2>2. player'.at \notin {"waiting", "closed"}
    BY <1>1, <1>2, ThreadKnown
  <2>3. /\ player'.at # "grow" => player'.want = 0
        /\ player'.at = "grow" => (Current.capture.on)'
    BY <1>1, <1>2, ThreadKnown DEF Current
  <2> QED
    BY <1>1, <2>1, <2>2, <2>3, ThreadFrame
<1> DEFINE b == player.trash
           x == <<"trash", None>>
<1>4. b \in Blocks /\ size'[b] = 0 /\ \A a \in Blocks : a # b => size'[a] = size[a]
  BY <1>1
<1>5. x \in Holders /\ Held[x] = b /\ Held'[x] = None
  BY <1>2, HeldNow, HeldNext
<1>6. HeldOutside({x})
  BY <1>1 DEF HeldOutside
<1>7. /\ \A k \in Keys : x # <<"entry", k>>
      /\ \A v \in Workers : x # <<"block", v>> /\ x # <<"victim", v>>
  OBVIOUS
<1> HIDE DEF x, b
<1>8. HeldFits'
  <2>1. \A a \in Blocks : a # b => (size'[a] > 0 <=> size[a] > 0)
    BY <1>4
  <2> QED
    BY <1>4, <1>5, <1>6, <2>1, HeldLess
<1>9. /\ \A k \in Keys : entry[k] # None => size'[entry[k]] = size[entry[k]]
      /\ \A v \in Workers : worker[v].victim # None => size'[worker[v].victim] = size[worker[v].victim]
      /\ \A v \in Workers : worker[v].block # None => size'[worker[v].block] = size[worker[v].block]
  <2>1. /\ \A k \in Keys : x # <<"entry", k>> /\ entry[k] # None =>
              size'[entry[k]] = size[entry[k]]
        /\ \A v \in Workers : x # <<"victim", v>> /\ worker[v].victim # None =>
              size'[worker[v].victim] = size[worker[v].victim]
        /\ \A v \in Workers : x # <<"block", v>> /\ worker[v].block # None =>
              size'[worker[v].block] = size[worker[v].block]
    BY <1>4, <1>5, OneSizeChanges
  <2> QED
    BY <1>7, <2>1
<1>10. LeasesFit'
  BY <1>1, LeasesStay
<1>11. SizesFit'
  BY <1>1, <1>9, WorkersStay
<1>12. CapturesFit'
  BY <1>1, CapturesFitStay
<1>13. BooksBalance'
  <2>1. Assets' = Assets
    BY <1>1, <1>9, AssetsStay
  <2>2. Victims' = Victims
    BY <1>1, <1>9, VictimsStay
  <2>3. Builds' = Builds
    <3>1. \A v \in Workers : (Reserves(worker[v]))' = Reserves(worker[v])
      BY <1>1 DEF Reserves
    <3> QED
      BY <3>1, BuildsStay
  <2>4. Captures' = Captures
    BY <1>1, CapturesStay
  <2> QED
    BY <1>1, <1>2, <2>1, <2>2, <2>3, <2>4, BooksAre
<1>14. BuildersFit' /\ KeysFit'
  BY <1>1, ProducersStay
<1>15. UsageOutlivesBuild' /\ TooLargeIsTrue'
  BY <1>1, UsageStays
<1> QED
  BY <1>3, <1>8, <1>10, <1>11, <1>12, <1>13, <1>14, <1>15

(* Scheduling: a job goes to the end of the queue, for a key that nothing   *)
(* produces.                                                                *)
LEMMA QueueAdds ==
    ASSUME NEW q \in Seq(Keys), NEW k \in Keys
    PROVE  /\ Len(q \o <<k>>) = Len(q) + 1 /\ Len(q) \in Nat
           /\ \A i \in 1 .. Len(q) + 1 :
                 (q \o <<k>>)[i] = IF i = Len(q) + 1 THEN k ELSE q[i]
           /\ \A i \in 1 .. Len(q) + 1 : i # Len(q) + 1 => i \in 1 .. Len(q)
OBVIOUS

LEMMA EnqueueBuilders ==
    ASSUME SoundInv, NEW k \in Keys, k \notin building, UNCHANGED worker, Enqueue(k)
    PROVE  BuildersFit'
<1> USE DEF SoundInv
<1>1. queue \in Seq(Keys)
  BY TypesOfAll
<1>2. CASE UNCHANGED <<building, queue>>
  BY <1>2, BuildersStay
<1>3. CASE building' = building \union {k} /\ queue' = queue \o <<k>>
  <2> DEFINE n == Len(queue)
  <2>1. /\ Len(queue') = n + 1 /\ n \in Nat
        /\ \A i \in 1 .. n + 1 : queue'[i] = IF i = n + 1 THEN k ELSE queue[i]
        /\ \A i \in 1 .. n + 1 : i # n + 1 => i \in 1 .. n
    BY <1>1, <1>3, QueueAdds
  <2>2. /\ \A i \in 1 .. n : queue[i] \in building /\ queue[i] # k
        /\ \A i, j \in 1 .. n : queue[i] = queue[j] => i = j
    BY DEF BuildersFit
  <2>3. \A v \in Workers : worker[v].key # k
    BY Numbers DEF BuildersFit
  <2> HIDE DEF n
  <2>4. \A i \in 1 .. Len(queue') : queue'[i] \in building'
    BY <1>3, <2>1, <2>2
  <2>5. ASSUME NEW i \in 1 .. Len(queue'), NEW j \in 1 .. Len(queue'), queue'[i] = queue'[j]
        PROVE  i = j
    BY <2>1, <2>2, <2>5
  <2>6. ASSUME NEW v \in Workers, worker'[v].key # None
        PROVE  /\ worker'[v].key \in building'
               /\ \A i \in 1 .. Len(queue') : queue'[i] # worker'[v].key
               /\ \A u \in Workers : worker'[u].key = worker'[v].key => u = v
    <3>1. \A i \in 1 .. n : queue[i] # worker[v].key
      BY <2>6 DEF BuildersFit, n
    <3>2. \A i \in 1 .. Len(queue') : queue'[i] # worker'[v].key
      BY <2>1, <2>3, <3>1
    <3> QED
      BY <1>3, <2>6, <3>2 DEF BuildersFit
  <2>7. ASSUME NEW j \in building'
        PROVE  \/ \E i \in 1 .. Len(queue') : queue'[i] = j
               \/ \E v \in Workers : worker'[v].key = j
    <3>1. CASE j = k
      <4>1. n + 1 \in 1 .. Len(queue') /\ queue'[n + 1] = k
        BY <2>1
      <4> QED
        BY <3>1, <4>1
    <3>2. CASE \E i \in 1 .. n : queue[i] = j
      <4>1. PICK i \in 1 .. n : queue[i] = j
        BY <3>2
      <4>2. i \in 1 .. Len(queue') /\ queue'[i] = j
        BY <2>1, <4>1
      <4> QED
        BY <4>2
    <3>3. CASE \E v \in Workers : worker[v].key = j
      BY <3>3
    <3> QED
      BY <1>3, <2>7, <3>1, <3>2, <3>3 DEF BuildersFit, n
  <2> QED
    BY <2>4, <2>5, <2>6, <2>7 DEF BuildersFit
<1> QED
  BY <1>2, <1>3 DEF Enqueue

LEMMA ScheduleSound ==
    ASSUME SoundInv, BudgetInv', Schedule PROVE SoundInv'
<1> USE DEF SoundInv
<1> DEFINE k == Current.key
           minimum == IF player.at = "schedule" THEN player.minimum ELSE 2
           u == IF Used(k) /\ usage[k].plays < minimum
                THEN [usage[k] EXCEPT !.plays = minimum, !.fresh = TRUE] ELSE usage[k]
<1>1. /\ player.at \in {"schedule", "reschedule"} /\ player.trash = None
      /\ UNCHANGED <<playback, worker, size, entry, refs>>
      /\ UNCHANGED <<resident, reclaiming, capturing, reserved, closing>>
      /\ usage' = [usage EXCEPT ![k] = u]
      /\ IF ShouldBuild(k, u) THEN Enqueue(k) ELSE UNCHANGED <<building, queue>>
      /\ player' = IF player.at = "schedule" THEN Ready ELSE [player EXCEPT !.at = "fill"]
  BY DEF Schedule, At, assetVars, bookVars, workerVars
<1>2. k \in Keys /\ player.want = 0 /\ ~closing /\ player \in PlayerType
  BY <1>1, ThreadKnown DEF Busy
<1>3. player'.trash = None /\ player'.want = 0 /\ player'.at \in {"fill", "ready"}
  BY <1>1, <1>2 DEF Ready, PlayerType
<1>4. /\ usage[k].plays <= u.plays /\ u.plays \in Nat /\ u.tooLarge = usage[k].tooLarge
      /\ usage[k].plays \in Nat
  <2>1. minimum \in Nat
    BY <1>2 DEF PlayerType
  <2> HIDE DEF minimum
  <2> QED
    BY <1>2, <2>1, ProducedKeys
<1>5. ShouldBuild(k, u) => entry[k] = None /\ k \notin capturing /\ k \notin building /\ u.plays = 2
  BY DEF ShouldBuild
<1>6. building' = building \/ (ShouldBuild(k, u) /\ building' = building \union {k})
  BY <1>1 DEF Enqueue
<1> HIDE DEF k, u, minimum
<1>7. EveryoneFits' /\ EndFits'
  <2>1. \A q \in Playbacks : PlaybackFits(playback'[q])
    BY <1>1 DEF EveryoneFits
  <2> QED
    BY <1>1, <1>2, <1>3, <2>1, ThreadFrame
<1>8. reserved' = reserved - player.want + player'.want /\ player'.trash = player.trash
  BY <1>1, <1>2, <1>3, TypesOfAll
<1>9. HeldFits' /\ LeasesFit' /\ SizesFit' /\ CapturesFit' /\ BooksBalance'
  BY <1>1, <1>8, ThreadOnly
<1>10. BuildersFit'
  <2>1. CASE ShouldBuild(k, u)
    BY <1>1, <1>2, <1>5, <2>1, EnqueueBuilders
  <2>2. CASE ~ShouldBuild(k, u)
    BY <1>1, <2>2, BuildersStay
  <2> QED
    BY <2>1, <2>2
<1>11. KeysFit'
  BY <1>1, <1>5, <1>6 DEF KeysFit
<1>12. usage \in [Keys -> [plays : 0 .. 2, fresh : BOOLEAN, tooLarge : BOOLEAN, backoff : BOOLEAN]]
  BY ProducedKeys
<1>13. UsageOutlivesBuild'
  <2>1. ASSUME NEW j \in building' \union capturing' PROVE usage'[j].plays > 0
    <3>1. CASE j = k
      <4>1. usage'[j] = u
        BY <1>1, <1>2, <1>12, <3>1
      <4>2. CASE j \in building \union capturing
        <5>1. usage[k].plays > 0
          BY <3>1, <4>2, ProducedKeys
        <5> QED
          BY <1>4, <4>1, <5>1
      <4>3. CASE j \notin building \union capturing
        BY <1>1, <1>5, <1>6, <4>1, <4>3
      <4> QED
        BY <4>2, <4>3
    <3>2. CASE j # k
      <4>1. j \in building \union capturing
        BY <1>1, <1>6, <3>2
      <4>2. usage'[j] = usage[j]
        BY <1>1, <1>12, <3>2, <4>1, ProducedKeys
      <4> QED
        BY <4>1, <4>2, ProducedKeys
    <3> QED
      BY <3>1, <3>2
  <2> QED
    BY <2>1 DEF UsageOutlivesBuild, Used
<1>14. TooLargeIsTrue'
  <2>1. \A j \in Keys : usage'[j].tooLarge = usage[j].tooLarge
    BY <1>1, <1>2, <1>4, <1>12
  <2> QED
    BY <2>1 DEF TooLargeIsTrue
<1> QED
  BY <1>7, <1>9, <1>10, <1>11, <1>13, <1>14

(* One playback changes, into x.                                            *)
PlaybackIs(p, x) == playback' = [playback EXCEPT ![p] = x]

LEMMA PlaybackNext ==
    ASSUME SoundInv, NEW p \in Playbacks, NEW x, PlaybackIs(p, x)
    PROVE  playback'[p] = x /\ \A q \in Playbacks : q # p => playback'[q] = playback[q]
BY TypesOfAll DEF PlaybackIs, SoundInv

LEMMA AllPlaybacksFit ==
    ASSUME SoundInv, NEW p \in Playbacks, NEW x, PlaybackIs(p, x), PlaybackFits(x)
    PROVE  \A q \in Playbacks : PlaybackFits(playback'[q])
BY PlaybackNext DEF SoundInv, EveryoneFits

LEMMA LeaseTaken ==
    ASSUME SoundInv, NEW p \in Playbacks, NEW x, PlaybackIs(p, x), UNCHANGED entry,
           playback[p].lease = None, NEW b \in Blocks, x.lease = b, x.key \in Keys,
           entry[x.key] = b, refs' = [refs EXCEPT ![b] = @ + 1]
    PROVE  LeasesFit'
<1>1. playback'[p] = x /\ \A q \in Playbacks : q # p => playback'[q] = playback[q]
  BY PlaybackNext
<1>2. b # None /\ IsFiniteSet(Playbacks) /\ refs \in [Blocks -> Int]
  BY Numbers, TypesOfAll DEF SoundInv
<1>3. \A a \in Blocks : a # b => (Leases(a))' = Leases(a)
  BY <1>1, Numbers DEF Leases
<1>4. (Leases(b))' = Leases(b) \union {p} /\ p \notin Leases(b)
  BY <1>1, <1>2 DEF Leases
<1>5. IsFiniteSet(Leases(b))
  BY <1>2, FS_Subset DEF Leases
<1>6. Cardinality(Leases(b) \union {p}) = Cardinality(Leases(b)) + 1
  BY <1>4, <1>5, FS_AddElement
<1>7. \A a \in Blocks : refs'[a] = Cardinality((Leases(a))')
  <2> SUFFICES ASSUME NEW a \in Blocks PROVE refs'[a] = Cardinality((Leases(a))')
    OBVIOUS
  <2>1. refs[a] = Cardinality(Leases(a))
    BY DEF SoundInv, LeasesFit
  <2>2. CASE a = b
    BY <1>2, <1>4, <1>6, <2>1, <2>2
  <2>3. CASE a # b
    BY <1>2, <1>3, <2>1, <2>3
  <2> QED
    BY <2>2, <2>3
<1>8. \A q \in Playbacks : playback'[q].lease # None =>
         playback'[q].key \in Keys /\ entry'[playback'[q].key] = playback'[q].lease
  BY <1>1 DEF SoundInv, LeasesFit
<1> QED
  BY <1>7, <1>8 DEF LeasesFit

LEMMA LeaseReturned ==
    ASSUME SoundInv, NEW p \in Playbacks, NEW x, PlaybackIs(p, x), UNCHANGED entry,
           NEW b \in Blocks, playback[p].lease = b, x.lease = None,
           refs' = [refs EXCEPT ![b] = @ - 1]
    PROVE  LeasesFit'
<1>1. playback'[p] = x /\ \A q \in Playbacks : q # p => playback'[q] = playback[q]
  BY PlaybackNext
<1>2. b # None /\ IsFiniteSet(Playbacks) /\ refs \in [Blocks -> Int]
  BY Numbers, TypesOfAll DEF SoundInv
<1>3. \A a \in Blocks : a # b => (Leases(a))' = Leases(a)
  BY <1>1, Numbers DEF Leases
<1>4. (Leases(b))' = Leases(b) \ {p} /\ p \in Leases(b)
  BY <1>1, <1>2 DEF Leases
<1>5. IsFiniteSet(Leases(b))
  BY <1>2, FS_Subset DEF Leases
<1>6. Cardinality(Leases(b) \ {p}) = Cardinality(Leases(b)) - 1
  BY <1>4, <1>5, FS_RemoveElement
<1>7. \A a \in Blocks : refs'[a] = Cardinality((Leases(a))')
  <2> SUFFICES ASSUME NEW a \in Blocks PROVE refs'[a] = Cardinality((Leases(a))')
    OBVIOUS
  <2>1. refs[a] = Cardinality(Leases(a))
    BY DEF SoundInv, LeasesFit
  <2>2. CASE a = b
    BY <1>2, <1>4, <1>6, <2>1, <2>2
  <2>3. CASE a # b
    BY <1>2, <1>3, <2>1, <2>3
  <2> QED
    BY <2>2, <2>3
<1>8. \A q \in Playbacks : playback'[q].lease # None =>
         playback'[q].key \in Keys /\ entry'[playback'[q].key] = playback'[q].lease
  BY <1>1 DEF SoundInv, LeasesFit
<1> QED
  BY <1>7, <1>8 DEF LeasesFit

LEMMA LeaseKept ==
    ASSUME SoundInv, NEW p \in Playbacks, NEW x, PlaybackIs(p, x), UNCHANGED <<entry, refs>>,
           x.lease = playback[p].lease, x.lease # None => x.key = playback[p].key
    PROVE  LeasesFit'
<1>1. playback'[p] = x /\ \A q \in Playbacks : q # p => playback'[q] = playback[q]
  BY PlaybackNext
<1>2. \A q \in Playbacks : /\ playback'[q].lease = playback[q].lease
                           /\ playback[q].lease # None => playback'[q].key = playback[q].key
  BY <1>1
<1> QED
  BY <1>2, LeasesStay DEF SoundInv

(* A step of the thread that changes a playback, but not the block of its   *)
(* capture.                                                                 *)
LEMMA BlockKept ==
    ASSUME SoundInv, BudgetInv', NEW p \in Playbacks, NEW x, PlaybackIs(p, x),
           x.capture.block = playback[p].capture.block, x.capture.cap = playback[p].capture.cap,
           x.capture.on = playback[p].capture.on, x.capture.on => x.key = playback[p].key,
           UNCHANGED <<worker, size, entry, resident, reclaiming, reserved, capturing>>,
           player'.trash = player.trash, player'.want = player.want
    PROVE  HeldFits' /\ SizesFit' /\ CapturesFit' /\ BooksBalance'
<1> USE DEF SoundInv
<1>0. playback'[p] = x /\ \A q \in Playbacks : q # p => playback'[q] = playback[q]
  BY PlaybackNext
<1>1. HeldFits'
  <2>1. HeldOutside({})
    BY <1>0 DEF HeldOutside
  <2> QED
    BY <2>1, HeldStays
<1>3. SizesFit'
  BY WorkersStay
<1>4. CapturesFit'
  <2>1. \A q \in Playbacks : /\ playback'[q].capture.on = playback[q].capture.on
                             /\ playback[q].capture.on => playback'[q].key = playback[q].key
    BY <1>0
  <2> QED
    BY <2>1, CapturesFitStay
<1>5. BooksBalance'
  <2>1. Assets' = Assets
    BY AssetsStay
  <2>2. Victims' = Victims
    BY VictimsStay
  <2>3. Builds' = Builds
    <3>1. \A v \in Workers : (Reserves(worker[v]))' = Reserves(worker[v])
      BY DEF Reserves
    <3> QED
      BY <3>1, BuildsStay
  <2>4. Captures' = Captures
    <3>1. \A q \in Playbacks : playback'[q].capture.cap = playback[q].capture.cap
      BY <1>0
    <3> QED
      BY <3>1, CapturesStay
  <2> QED
    BY <2>1, <2>2, <2>3, <2>4, BooksAre
<1> QED
  BY <1>1, <1>3, <1>4, <1>5

LEMMA CaptureKept ==
    ASSUME SoundInv, BudgetInv', NEW p \in Playbacks, NEW x, PlaybackIs(p, x),
           x.capture = playback[p].capture, x.capture.on => x.key = playback[p].key,
           UNCHANGED <<worker, size, entry, resident, reclaiming, reserved, capturing>>,
           player'.trash = player.trash, player'.want = player.want
    PROVE  HeldFits' /\ SizesFit' /\ CapturesFit' /\ BooksBalance'
<1>1. /\ x.capture.block = playback[p].capture.block /\ x.capture.cap = playback[p].capture.cap
      /\ x.capture.on = playback[p].capture.on
  OBVIOUS
<1> QED
  BY <1>1, BlockKept

LEMMA ObserveSound ==
    ASSUME SoundInv, BudgetInv', NEW p \in Playbacks, NEW k \in Keys, NEW loop \in BOOLEAN,
           Observe(p, k, loop)
    PROVE  SoundInv'
<1> USE DEF SoundInv
<1> DEFINE hit == entry[k] # None
           direct == hit /\ k \in PcmKeys
           x == [key |-> k, loop |-> loop /\ ~direct, direct |-> direct,
                 lease |-> entry[k], capture |-> NoCapture]
<1>1. /\ player.at = "ready" /\ player.trash = None /\ playback[p].key = None
      /\ PlaybackIs(p, x)
      /\ UNCHANGED <<worker, size, entry, resident, reclaiming, reserved, capturing>>
      /\ UNCHANGED <<queue, building, closing>>
      /\ refs' = IF hit THEN [refs EXCEPT ![entry[k]] = @ + 1] ELSE refs
      /\ player' = IF direct THEN Ready
                   ELSE [Ready EXCEPT !.at = "open", !.p = p, !.creating = TRUE,
                                      !.minimum = IF loop THEN 2 ELSE 0]
  BY DEF Observe, At, PlaybackIs, jobVars, bookVars, workerVars
<1>2. /\ playback[p] = NoPlayback /\ player.want = 0 /\ ~closing
      /\ entry[k] \in Blocks \union {None} /\ k # None
  BY <1>1, PlaybackKnown, ThreadKnown, TypesOfAll, Numbers DEF PlaybackFits
<1>3. player'.trash = None /\ player'.want = 0 /\ player'.at \in {"open", "ready"}
  BY <1>1 DEF Ready
<1>4. /\ x.capture = NoCapture /\ x.key = k /\ x.lease = entry[k]
      /\ playback[p].capture = NoCapture /\ playback[p].lease = None /\ NoCapture.on = FALSE
  BY <1>2 DEF NoPlayback, NoCapture
<1>5. PICK prunes \in BOOLEAN :
          usage' = [IF prunes THEN Pruned ELSE usage EXCEPT ![k] = Observed(@)]
  BY DEF Observe
<1> HIDE DEF x
<1>6. PlaybackFits(x)
  BY <1>2, <1>4 DEF PlaybackFits
<1>7. EveryoneFits' /\ EndFits'
  <2>1. \A q \in Playbacks : PlaybackFits(playback'[q])
    BY <1>1, <1>6, AllPlaybacksFit
  <2> QED
    BY <1>1, <1>2, <1>3, <2>1, ThreadFrame
<1>8. HeldFits' /\ SizesFit' /\ CapturesFit' /\ BooksBalance'
  BY <1>1, <1>2, <1>3, <1>4, CaptureKept
<1>9. LeasesFit'
  <2>1. CASE hit
    BY <1>1, <1>2, <1>4, <2>1, LeaseTaken
  <2>2. CASE ~hit
    BY <1>1, <1>2, <1>4, <2>2, LeaseKept
  <2> QED
    BY <2>1, <2>2
<1>10. BuildersFit' /\ KeysFit'
  BY <1>1, ProducersStay
<1>11. UsageOutlivesBuild' /\ TooLargeIsTrue'
  <2> DEFINE g == IF prunes THEN Pruned ELSE usage
  <2>1. usage \in [Keys -> [plays : 0 .. 2, fresh : BOOLEAN, tooLarge : BOOLEAN, backoff : BOOLEAN]]
    BY ProducedKeys
  <2>2. /\ \A j \in building \union capturing : g[j] = usage[j]
        /\ \A j \in Keys : g[j].tooLarge => usage[j].tooLarge
    BY <2>1, ProducedKeys DEF Pruned, Stale, NoUsage
  <2>3. g \in [Keys -> [plays : 0 .. 2, fresh : BOOLEAN, tooLarge : BOOLEAN, backoff : BOOLEAN]]
    BY <2>1 DEF Pruned, NoUsage
  <2> HIDE DEF g
  <2>4. usage' = [g EXCEPT ![k] = Observed(g[k])]
    BY <1>5, <2>3 DEF g
  <2>5. Observed(g[k]).plays > 0 /\ Observed(g[k]).tooLarge = g[k].tooLarge
    BY <2>3 DEF Observed
  <2>6. \A j \in building \union capturing : usage'[j].plays > 0
    <3> SUFFICES ASSUME NEW j \in building \union capturing PROVE usage'[j].plays > 0
      OBVIOUS
    <3>1. j \in Keys /\ usage[j].plays > 0
      BY ProducedKeys
    <3> QED
      BY <2>2, <2>3, <2>4, <2>5, <3>1
  <2>7. \A j \in Keys : usage'[j].tooLarge => usage[j].tooLarge \/ Size[j] > MaxBytes
    BY <2>2, <2>3, <2>4, <2>5
  <2> QED
    BY <1>1, <2>6, <2>7, UsageKeeps
<1> QED
  BY <1>7, <1>8, <1>9, <1>10, <1>11

LEMMA BeginCaptureSound ==
    ASSUME SoundInv, BudgetInv', BeginCapture PROVE SoundInv'
<1> USE DEF SoundInv
<1>1. /\ player.at = "open" /\ player.trash = None
      /\ UNCHANGED <<worker, size, entry, refs, resident, reclaiming, reserved>>
      /\ UNCHANGED <<usage, queue, building, closing>>
      /\ player' = [player EXCEPT !.at = "fill"]
  BY DEF BeginCapture, At, assetVars, jobVars, bookVars, workerVars
<1>2. /\ player.p \in Playbacks /\ Current.key \in Keys /\ player.want = 0 /\ ~closing
      /\ player \in PlayerType /\ Current = playback[player.p]
  BY <1>1, ThreadKnown DEF Busy, Current
<1>3. player'.trash = None /\ player'.want = 0 /\ player'.at = "fill"
  BY <1>1, <1>2 DEF PlayerType
<1>4. CASE ~MayCapture(Current.key)
  <2>1. UNCHANGED <<capturing, playback>>
    BY <1>4 DEF BeginCapture
  <2>2. \A q \in Playbacks : PlaybackFits(playback'[q])
    BY <2>1 DEF EveryoneFits
  <2>3. EveryoneFits' /\ EndFits'
    BY <1>1, <1>2, <1>3, <2>2, ThreadFrame
  <2>4. reserved' = reserved - player.want + player'.want /\ player'.trash = player.trash
    BY <1>1, <1>2, <1>3, TypesOfAll
  <2>5. HeldFits' /\ LeasesFit' /\ SizesFit' /\ CapturesFit' /\ BooksBalance'
    BY <1>1, <2>1, <2>4, ThreadOnly
  <2>6. BuildersFit' /\ KeysFit'
    BY <1>1, <2>1, ProducersStay
  <2>7. UsageOutlivesBuild' /\ TooLargeIsTrue'
    BY <1>1, <2>1, UsageStays
  <2> QED
    BY <2>3, <2>5, <2>6, <2>7
<1>5. CASE MayCapture(Current.key)
  <2>0. PICK p \in Playbacks : p = player.p
    BY <1>2
  <2> DEFINE k == Current.key
             x == [playback[p] EXCEPT !.capture.on = TRUE]
  <2>1. /\ k \in PcmKeys /\ k \in Keys /\ k # None /\ k = playback[p].key /\ entry[k] = None
        /\ k \notin building /\ k \notin capturing /\ usage[k].plays > 0
    BY <1>2, <1>5, <2>0, Numbers DEF MayCapture, Used
  <2>2. capturing' = capturing \union {k} /\ PlaybackIs(p, x)
    <3>1. capturing' = capturing \union {k}
          /\ playback' = [playback EXCEPT ![p].capture.on = TRUE]
      BY <1>5, <2>0 DEF BeginCapture
    <3> QED
      BY <3>1, TypesOfAll DEF PlaybackIs
  <2>3. playback[p].capture = NoCapture /\ playback[p].capture.on = FALSE
    BY <2>1, PlaybackKnown DEF PlaybackFits
  <2>4. /\ x.key = playback[p].key /\ x.lease = playback[p].lease
        /\ x.capture = [NoCapture EXCEPT !.on = TRUE]
    BY <2>3, PlaybackKnown DEF PlaybackType
  <2>5. /\ x.capture.on = TRUE /\ x.capture.block = playback[p].capture.block
        /\ x.capture.cap = playback[p].capture.cap
    BY <2>3, <2>4 DEF NoCapture
  <2> HIDE DEF x, k
  <2>6. PlaybackFits(x)
    BY <2>1, <2>4, <2>5 DEF PlaybackFits
  <2>7. playback'[p] = x /\ \A q \in Playbacks : q # p => playback'[q] = playback[q]
    BY <2>2, PlaybackNext
  <2>8. EveryoneFits' /\ EndFits'
    <3>1. \A q \in Playbacks : PlaybackFits(playback'[q])
      BY <2>2, <2>6, AllPlaybacksFit
    <3> QED
      BY <1>1, <1>2, <1>3, <3>1, ThreadFrame
  <2>9. HeldFits'
    <3>1. HeldOutside({})
      BY <1>1, <1>3, <2>5, <2>7 DEF HeldOutside
    <3> QED
      BY <1>1, <3>1, HeldStays
  <2>10. LeasesFit'
    BY <1>1, <2>2, <2>4, LeaseKept
  <2>11. SizesFit'
    BY <1>1, WorkersStay
  <2>12. CapturesFit'
    <3>1. capturing' \subseteq PcmKeys
      BY <2>1, <2>2 DEF CapturesFit
    <3>2. ASSUME NEW q \in Playbacks, playback'[q].capture.on
          PROVE  /\ playback'[q].key \in capturing'
                 /\ \A i \in Playbacks : playback'[i].capture.on /\ playback'[i].key = playback'[q].key => i = q
      <4>1. \A i \in Playbacks : i # p /\ playback[i].capture.on => playback[i].key \in capturing
        BY DEF CapturesFit, Capturing
      <4>2. CASE q = p
        BY <2>1, <2>2, <2>4, <2>7, <4>1, <4>2
      <4>3. CASE q # p
        BY <2>1, <2>2, <2>4, <2>7, <3>2, <4>1, <4>3 DEF CapturesFit, Capturing
      <4> QED
        BY <4>2, <4>3
    <3>3. ASSUME NEW j \in capturing'
          PROVE  \E q \in Playbacks : playback'[q].capture.on /\ playback'[q].key = j
      <4>1. CASE j = k
        BY <2>1, <2>4, <2>5, <2>7, <4>1
      <4>2. CASE j # k
        <5>1. PICK q \in Playbacks : playback[q].capture.on /\ playback[q].key = j
          BY <2>2, <4>2 DEF CapturesFit, Capturing
        <5> QED
          BY <2>1, <2>7, <4>2, <5>1
      <4> QED
        BY <4>1, <4>2
    <3> QED
      BY <3>1, <3>2, <3>3 DEF CapturesFit, Capturing
  <2>13. BooksBalance'
    <3>1. Assets' = Assets
      BY <1>1, AssetsStay
    <3>2. Victims' = Victims
      BY <1>1, VictimsStay
    <3>3. Builds' = Builds
      <4>1. \A v \in Workers : (Reserves(worker[v]))' = Reserves(worker[v])
        BY <1>1 DEF Reserves
      <4> QED
        BY <4>1, BuildsStay
    <3>4. Captures' = Captures
      <4>1. \A q \in Playbacks : playback'[q].capture.cap = playback[q].capture.cap
        BY <2>5, <2>7
      <4> QED
        BY <4>1, CapturesStay
    <3> QED
      BY <1>1, <1>2, <1>3, <3>1, <3>2, <3>3, <3>4, BooksAre
  <2>14. BuildersFit'
    BY <1>1, BuildersStay
  <2>15. KeysFit'
    BY <1>1, <2>1, <2>2 DEF KeysFit
  <2>16. UsageOutlivesBuild' /\ TooLargeIsTrue'
    BY <1>1, <2>1, <2>2 DEF UsageOutlivesBuild, TooLargeIsTrue, Used
  <2> QED
    BY <2>8, <2>9, <2>10, <2>11, <2>12, <2>13, <2>14, <2>15, <2>16
<1> QED
  BY <1>4, <1>5

(* A lease that is released is of the asset of its key, so nothing is freed. *)
LEMMA Releasing ==
    ASSUME SoundInv, NEW p \in Playbacks, NEW at, Release(p, at), at \in PlayerType
    PROVE  /\ player' = [at EXCEPT !.trash = None]
           /\ refs' = IF playback[p].lease = None THEN refs
                      ELSE [refs EXCEPT ![playback[p].lease] = @ - 1]
BY PlaybackKnown DEF Release

LEMMA RestartSound ==
    ASSUME SoundInv, BudgetInv', Restart PROVE SoundInv'
<1> USE DEF SoundInv
<1>1. /\ player.at = "restart" /\ player.trash = None
      /\ UNCHANGED <<worker, size, entry, capturing, resident, reclaiming, reserved>>
      /\ UNCHANGED <<usage, queue, building, closing>>
  BY DEF Restart, At, jobVars, bookVars, workerVars
<1>2. /\ player.p \in Playbacks /\ Current.key \in Keys /\ player.want = 0 /\ ~closing
      /\ player \in PlayerType /\ Current = playback[player.p]
  BY <1>1, ThreadKnown DEF Busy, Current
<1>3. PICK p \in Playbacks : p = player.p
  BY <1>2
<1>4. PICK again \in BOOLEAN : PlaybackIs(p,
          [playback[p] EXCEPT !.loop = again,
              !.lease = IF playback[p].key \in PcmKeys THEN None ELSE @])
  BY <1>2, <1>3 DEF Restart, PlaybackIs
<1> DEFINE x == [playback[p] EXCEPT !.loop = again,
                    !.lease = IF playback[p].key \in PcmKeys THEN None ELSE @]
           at == [player EXCEPT !.at = "reacquire"]
<1>5. /\ x.key = playback[p].key /\ x.capture = playback[p].capture
      /\ x.lease = IF playback[p].key \in PcmKeys THEN None ELSE playback[p].lease
  BY PlaybackKnown DEF PlaybackType
<1>6. PlaybackIs(p, x)
  BY <1>4
<1>7. at \in PlayerType /\ at.trash = None /\ at.want = 0 /\ at.at = "reacquire"
  BY <1>1, <1>2 DEF PlayerType, PlayerPlaces
<1> HIDE DEF x, at
<1>8. /\ player'.trash = None /\ player'.want = 0 /\ player'.at = "reacquire"
      /\ IF playback[p].key \in PcmKeys
         THEN refs' = IF playback[p].lease = None THEN refs
                      ELSE [refs EXCEPT ![playback[p].lease] = @ - 1]
         ELSE refs' = refs
  <2>1. CASE playback[p].key \in PcmKeys
    <3>1. Release(p, at)
      BY <1>2, <1>3, <2>1 DEF Restart, at
    <3>2. /\ player' = [at EXCEPT !.trash = None]
          /\ refs' = IF playback[p].lease = None THEN refs
                     ELSE [refs EXCEPT ![playback[p].lease] = @ - 1]
      BY <1>7, <3>1, Releasing
    <3> QED
      BY <1>7, <2>1, <3>2 DEF PlayerType
  <2>2. CASE playback[p].key \notin PcmKeys
    <3>1. refs' = refs /\ player' = at
      BY <1>2, <1>3, <2>2 DEF Restart, at
    <3> QED
      BY <1>7, <2>2, <3>1
  <2> QED
    BY <2>1, <2>2
<1>9. PlaybackFits(x)
  <2>1. PlaybackFits(playback[p]) /\ playback[p].key # None
    BY <1>2, <1>3, PlaybackKnown, Numbers
  <2> QED
    BY <1>5, <2>1 DEF PlaybackFits
<1>10. EveryoneFits' /\ EndFits'
  <2>1. \A q \in Playbacks : PlaybackFits(playback'[q])
    BY <1>6, <1>9, AllPlaybacksFit
  <2> QED
    BY <1>1, <1>2, <1>8, <2>1, ThreadFrame
<1>11. HeldFits' /\ SizesFit' /\ CapturesFit' /\ BooksBalance'
  <2>1. player'.trash = player.trash /\ player'.want = player.want
        /\ (x.capture.on => x.key = playback[p].key)
    BY <1>1, <1>2, <1>5, <1>8
  <2> QED
    BY <1>1, <1>5, <1>6, <2>1, CaptureKept
<1>12. LeasesFit'
  <2>1. playback[p].lease \in Blocks \union {None}
    BY PlaybackKnown
  <2>2. CASE playback[p].key \in PcmKeys /\ playback[p].lease # None
    BY <1>1, <1>5, <1>6, <1>8, <2>1, <2>2, LeaseReturned
  <2>3. CASE ~(playback[p].key \in PcmKeys /\ playback[p].lease # None)
    <3>1. refs' = refs /\ x.lease = playback[p].lease
      BY <1>5, <1>8, <2>3
    <3> QED
      BY <1>1, <1>5, <1>6, <3>1, LeaseKept
  <2> QED
    BY <2>2, <2>3
<1>13. BuildersFit' /\ KeysFit'
  BY <1>1, ProducersStay
<1>14. UsageOutlivesBuild' /\ TooLargeIsTrue'
  BY <1>1, UsageStays
<1> QED
  BY <1>10, <1>11, <1>12, <1>13, <1>14

LEMMA ReacquireSound ==
    ASSUME SoundInv, BudgetInv', Reacquire PROVE SoundInv'
<1> USE DEF SoundInv
<1>1. /\ player.at = "reacquire" /\ player.trash = None
      /\ UNCHANGED <<worker, size, entry, capturing, resident, reclaiming, reserved>>
      /\ UNCHANGED <<queue, building, closing>>
  BY DEF Reacquire, At, jobVars, bookVars, workerVars
<1>2. /\ player.p \in Playbacks /\ Current.key \in Keys /\ player.want = 0 /\ ~closing
      /\ player \in PlayerType /\ Current = playback[player.p]
  BY <1>1, ThreadKnown DEF Busy, Current
<1>3. PICK p \in Playbacks : p = player.p
  BY <1>2
<1> DEFINE k == playback[p].key
           x == [playback[p] EXCEPT !.lease = entry[k]]
<1>4. k \in Keys /\ k # None /\ entry[k] \in Blocks \union {None}
  BY <1>2, <1>3, TypesOfAll, Numbers
<1>5. player'.trash = None /\ player'.want = 0 /\ player'.at \in {"fill", "reschedule"}
  BY <1>1, <1>2 DEF Reacquire, PlayerType
<1>6. CASE playback[p].lease # None
  <2>1. UNCHANGED <<refs, usage, playback>>
    BY <1>2, <1>3, <1>6 DEF Reacquire
  <2>2. \A q \in Playbacks : PlaybackFits(playback'[q])
    BY <2>1 DEF EveryoneFits
  <2>3. EveryoneFits' /\ EndFits'
    BY <1>1, <1>2, <1>5, <2>2, ThreadFrame
  <2>4. reserved' = reserved - player.want + player'.want /\ player'.trash = player.trash
    BY <1>1, <1>2, <1>5, TypesOfAll
  <2>5. HeldFits' /\ LeasesFit' /\ SizesFit' /\ CapturesFit' /\ BooksBalance'
    BY <1>1, <2>1, <2>4, ThreadOnly
  <2>6. BuildersFit' /\ KeysFit'
    BY <1>1, ProducersStay
  <2>7. UsageOutlivesBuild' /\ TooLargeIsTrue'
    BY <1>1, <2>1, UsageStays
  <2> QED
    BY <2>3, <2>5, <2>6, <2>7
<1>7. CASE playback[p].lease = None
  <2>1. /\ usage' = [usage EXCEPT ![k].fresh = Used(k)]
        /\ refs' = IF entry[k] # None THEN [refs EXCEPT ![entry[k]] = @ + 1] ELSE refs
        /\ playback' = [playback EXCEPT ![p].lease = entry[k]]
    BY <1>2, <1>3, <1>7 DEF Reacquire, LeaseTo
  <2>2. PlaybackIs(p, x)
    BY <2>1, TypesOfAll DEF PlaybackIs
  <2>3. x.key = k /\ x.capture = playback[p].capture /\ x.lease = entry[k]
    BY PlaybackKnown DEF PlaybackType
  <2> HIDE DEF x
  <2>4. PlaybackFits(x)
    <3>1. PlaybackFits(playback[p])
      BY PlaybackKnown
    <3> QED
      BY <1>4, <2>3, <3>1 DEF PlaybackFits
  <2>5. EveryoneFits' /\ EndFits'
    <3>1. \A q \in Playbacks : PlaybackFits(playback'[q])
      BY <2>2, <2>4, AllPlaybacksFit
    <3> QED
      BY <1>1, <1>2, <1>5, <3>1, ThreadFrame
  <2>6. HeldFits' /\ SizesFit' /\ CapturesFit' /\ BooksBalance'
    <3>1. player'.trash = player.trash /\ player'.want = player.want
          /\ (x.capture.on => x.key = playback[p].key)
      BY <1>1, <1>2, <1>5, <2>3
    <3> QED
      BY <1>1, <2>2, <2>3, <3>1, CaptureKept
  <2>7. LeasesFit'
    <3>1. CASE entry[k] # None
      BY <1>1, <1>4, <1>7, <2>1, <2>2, <2>3, <3>1, LeaseTaken
    <3>2. CASE entry[k] = None
      BY <1>1, <1>7, <2>1, <2>2, <2>3, <3>2, LeaseKept
    <3> QED
      BY <3>1, <3>2
  <2>8. BuildersFit' /\ KeysFit'
    BY <1>1, ProducersStay
  <2>9. \A j \in Keys : usage'[j].plays = usage[j].plays /\ usage'[j].tooLarge = usage[j].tooLarge
    BY <1>4, <2>1, ProducedKeys
  <2>10. UsageOutlivesBuild' /\ TooLargeIsTrue'
    <3>1. \A j \in building \union capturing : usage'[j].plays > 0
      BY <2>9, ProducedKeys
    <3>2. \A j \in Keys : usage'[j].tooLarge => usage[j].tooLarge \/ Size[j] > MaxBytes
      BY <2>9
    <3> QED
      BY <1>1, <3>1, <3>2, UsageKeeps
  <2> QED
    BY <2>5, <2>6, <2>7, <2>8, <2>10
<1> QED
  BY <1>6, <1>7

(* A capture ends: nothing captures its key any more.                       *)
LEMMA CaptureLeaves ==
    ASSUME SoundInv, NEW p \in Playbacks, NEW x, PlaybackIs(p, x), playback[p].capture.on,
           x.capture = NoCapture, capturing' = capturing \ {playback[p].key}
    PROVE  CapturesFit'
<1> USE DEF SoundInv
<1>1. playback'[p] = x /\ \A q \in Playbacks : q # p => playback'[q] = playback[q]
  BY PlaybackNext
<1>2. ~x.capture.on
  BY DEF NoCapture
<1>3. capturing' \subseteq PcmKeys
  BY DEF CapturesFit
<1>4. ASSUME NEW q \in Playbacks, playback'[q].capture.on
      PROVE  /\ playback'[q].key \in capturing'
             /\ \A i \in Playbacks : playback'[i].capture.on /\ playback'[i].key = playback'[q].key => i = q
  <2>1. q # p /\ playback'[q] = playback[q] /\ playback[q].capture.on
    BY <1>1, <1>2, <1>4
  <2>2. playback[q].key # playback[p].key /\ playback[q].key \in capturing
    BY <2>1 DEF CapturesFit, Capturing
  <2>3. \A i \in Playbacks : playback'[i].capture.on =>
           playback'[i] = playback[i] /\ playback[i].capture.on
    BY <1>1, <1>2
  <2>4. \A i \in Playbacks : playback'[i].capture.on /\ playback'[i].key = playback'[q].key => i = q
    BY <2>1, <2>3 DEF CapturesFit, Capturing
  <2> QED
    BY <2>1, <2>2, <2>4
<1>5. ASSUME NEW j \in capturing'
      PROVE  \E q \in Playbacks : playback'[q].capture.on /\ playback'[q].key = j
  <2>1. PICK q \in Playbacks : playback[q].capture.on /\ playback[q].key = j
    BY <1>5 DEF CapturesFit, Capturing
  <2>2. q # p
    BY <1>5, <2>1
  <2> QED
    BY <1>1, <2>1, <2>2
<1> QED
  BY <1>3, <1>4, <1>5 DEF CapturesFit, Capturing

(* A capture is given up, and its block left to be freed.                   *)
LEMMA CaptureDropped ==
    ASSUME SoundInv, BudgetInv', NEW p \in Playbacks, NEW x, PlaybackIs(p, x),
           playback[p].capture.on, x.capture = NoCapture,
           x.lease = playback[p].lease, x.lease # None => x.key = playback[p].key,
           capturing' = capturing \ {playback[p].key},
           UNCHANGED <<worker, size, entry, refs, resident, reclaiming, queue, building>>,
           player.trash = None, player'.trash = playback[p].capture.block,
           reserved' = reserved - playback[p].capture.cap - player.want + player'.want
    PROVE  /\ HeldFits' /\ LeasesFit' /\ SizesFit' /\ CapturesFit' /\ BooksBalance'
           /\ BuildersFit' /\ KeysFit'
<1> USE DEF SoundInv
<1> DEFINE b == playback[p].capture.block
           c == <<"capture", p>>
           t == <<"trash", None>>
<1>1. playback'[p] = x /\ \A q \in Playbacks : q # p => playback'[q] = playback[q]
  BY PlaybackNext
<1>2. x.capture.block = None /\ x.capture.cap = 0
  BY DEF NoCapture
<1>3. c \in Holders /\ t \in Holders /\ c # t
  BY HeldNow
<1>4. Held[c] = b /\ Held[t] = None /\ Held'[c] = None /\ Held'[t] = b
  BY <1>1, <1>2, HeldNow, HeldNext
<1>5. HeldOutside({c, t})
  BY <1>1 DEF HeldOutside
<1>6. b = None => HeldOutside({})
  BY <1>1, <1>2 DEF HeldOutside
<1>7. b \in Blocks \union {None}
  BY PlaybackKnown
<1> HIDE DEF b, c, t
<1>8. HeldFits'
  <2>1. CASE b = None
    BY <1>6, <2>1, HeldStays
  <2>2. CASE b \in Blocks
    BY <1>3, <1>4, <1>5, <2>2, HeldMoves
  <2> QED
    BY <1>7, <2>1, <2>2
<1>9. LeasesFit'
  BY LeaseKept
<1>10. SizesFit'
  BY WorkersStay
<1>11. CapturesFit'
  BY CaptureLeaves
<1>12. BooksBalance'
  <2>1. Assets' = Assets
    BY AssetsStay
  <2>2. Victims' = Victims
    BY VictimsStay
  <2>3. Builds' = Builds
    <3>1. \A v \in Workers : (Reserves(worker[v]))' = Reserves(worker[v])
      BY DEF Reserves
    <3> QED
      BY <3>1, BuildsStay
  <2>4. Captures' = Captures - playback[p].capture.cap + playback'[p].capture.cap
    BY <1>1, CapturesChange
  <2>5. resident = Assets /\ reserved = Builds + Captures + player.want /\ reclaiming = Victims
    BY BooksAre
  <2>6. /\ Builds \in Int /\ Captures \in Int /\ player.want \in Int /\ player'.want \in Int
        /\ playback[p].capture.cap \in Int
    BY SumTypes, TermTypes, TermTypesNext
  <2>7. reserved' = Builds' + Captures' + player'.want
    BY <1>1, <1>2, <2>3, <2>4, <2>5, <2>6
  <2> QED
    BY <2>1, <2>2, <2>5, <2>7, BooksAre
<1>13. BuildersFit' /\ KeysFit'
  BY ProducersStay
<1> QED
  BY <1>8, <1>9, <1>10, <1>11, <1>12, <1>13

LEMMA AbortSound ==
    ASSUME SoundInv, BudgetInv', player.at \in {"fill", "grow"}, player.trash = None,
           Current.capture.on, NEW error, NEW unused, unused = player.want,
           NEW at \in {"fill", "restart", "schedule", "ready"},
           Abort(player.p, error, unused, at),
           UNCHANGED <<worker, size, entry, refs, resident, reclaiming>>,
           UNCHANGED <<queue, building, closing>>,
           error = "tooLarge" => Size[Current.key] > MaxBytes
    PROVE  SoundInv'
<1> USE DEF SoundInv
<1>1. /\ player.p \in Playbacks /\ Current.key \in Keys /\ ~closing /\ player \in PlayerType
      /\ Current = playback[player.p] /\ player.want \in Int
  BY ThreadKnown, TermTypes DEF Busy, Current
<1>2. PICK p \in Playbacks : p = player.p
  BY <1>1
<1> DEFINE x == [playback[p] EXCEPT !.capture = NoCapture]
<1>3. /\ capturing' = capturing \ {playback[p].key}
      /\ reserved' = reserved - playback[p].capture.cap - unused
      /\ usage' = UsageAfterAbort(playback[p].key, error)
      /\ playback' = [playback EXCEPT ![p].capture = NoCapture]
      /\ player' = [player EXCEPT !.at = at, !.want = 0, !.trash = playback[p].capture.block]
  BY <1>2 DEF Abort
<1>4. PlaybackIs(p, x)
  BY <1>3, TypesOfAll DEF PlaybackIs
<1>5. x.capture = NoCapture /\ x.lease = playback[p].lease /\ x.key = playback[p].key
  BY PlaybackKnown DEF PlaybackType
<1> HIDE DEF x
<1>6. /\ player'.trash = playback[p].capture.block /\ player'.want = 0 /\ player'.at = at
  BY <1>1, <1>3 DEF PlayerType
<1>7. playback[p].capture.on /\ playback[p].key \in Keys /\ playback[p].key # None
  BY <1>1, <1>2, Numbers
<1>8. PlaybackFits(x)
  BY <1>5, <1>7 DEF PlaybackFits, NoCapture
<1>9. EveryoneFits' /\ EndFits'
  <2>1. \A q \in Playbacks : PlaybackFits(playback'[q])
    BY <1>4, <1>8, AllPlaybacksFit
  <2>2. at \notin {"waiting", "closed", "grow"}
    OBVIOUS
  <2> QED
    BY <1>1, <1>6, <2>1, <2>2, ThreadFrame
<1>10. reserved' = reserved - playback[p].capture.cap - player.want + player'.want
  <2>1. reserved \in Int /\ playback[p].capture.cap \in Int
    BY TypesOfAll, TermTypes
  <2> QED
    BY <1>1, <1>3, <1>6, <2>1
<1>11. /\ HeldFits' /\ LeasesFit' /\ SizesFit' /\ CapturesFit' /\ BooksBalance'
       /\ BuildersFit' /\ KeysFit'
  BY <1>3, <1>4, <1>5, <1>6, <1>7, <1>10, CaptureDropped
<1>12. UsageOutlivesBuild' /\ TooLargeIsTrue'
  <2>1. /\ \A j \in Keys : usage'[j].plays = usage[j].plays
        /\ \A j \in Keys : usage'[j].tooLarge =>
              usage[j].tooLarge \/ (j = playback[p].key /\ error = "tooLarge")
    BY <1>3, <1>7, ProducedKeys DEF UsageAfterAbort
  <2>2. \A j \in building \union capturing : usage'[j].plays > 0
    BY <2>1, ProducedKeys
  <2>3. \A j \in Keys : usage'[j].tooLarge => usage[j].tooLarge \/ Size[j] > MaxBytes
    BY <1>1, <1>2, <2>1
  <2>4. building' \subseteq building /\ capturing' \subseteq capturing
    BY <1>3
  <2> QED
    BY <2>2, <2>3, <2>4, UsageKeeps
<1> QED
  BY <1>9, <1>11, <1>12

LEMMA AppendSound ==
    ASSUME SoundInv, BudgetInv', AppendBuffer PROVE SoundInv'
<1> USE DEF SoundInv
<1> DEFINE c == Current.capture
           need == GrownFor(c) - c.cap
<1>1. /\ player.at = "fill" /\ player.trash = None /\ c.on /\ c.bytes < Size[Current.key]
      /\ UNCHANGED <<worker, size, entry, refs, resident, reclaiming>>
      /\ UNCHANGED <<queue, building, closing>>
  BY DEF AppendBuffer, At, assetVars, jobVars, workerVars
<1>2. /\ player.p \in Playbacks /\ Current.key \in Keys /\ player.want = 0 /\ ~closing
      /\ player \in PlayerType /\ Current = playback[player.p]
  BY <1>1, ThreadKnown DEF Busy, Current
<1>3. /\ c.bytes \in Nat /\ c.cap \in Nat /\ MaxBytes \in Nat
      /\ Size[Current.key] \in Nat
  BY <1>2, PlaybackKnown, Numbers
<1>4. CASE Abort(player.p, "tooLarge", 0, "fill") /\ c.bytes + 1 > MaxBytes
  <2>1. Size[Current.key] > MaxBytes
    BY <1>1, <1>3, <1>4
  <2> QED
    BY <1>1, <1>2, <1>4, <2>1, AbortSound
<1>5. CASE Abort(player.p, "budget", 0, "fill")
  BY <1>1, <1>2, <1>5, AbortSound
<1>6. CASE /\ playback' = [playback EXCEPT ![player.p].capture.bytes = @ + 1]
           /\ UNCHANGED <<usage, capturing, reserved, player>>
  <2>1. PICK p \in Playbacks : p = player.p
    BY <1>2
  <2> DEFINE x == [playback[p] EXCEPT !.capture.bytes = playback[p].capture.bytes + 1]
  <2>2. PlaybackIs(p, x)
    BY <1>6, <2>1, TypesOfAll DEF PlaybackIs
  <2>3. /\ x.key = playback[p].key /\ x.lease = playback[p].lease
        /\ x.capture = [playback[p].capture EXCEPT !.bytes = playback[p].capture.bytes + 1]
    BY PlaybackKnown DEF PlaybackType
  <2>4. playback[p].capture \in CaptureType
    BY TypesOfAll, PlaybackFields
  <2>5. /\ x.capture.block = playback[p].capture.block /\ x.capture.cap = playback[p].capture.cap
        /\ x.capture.on = playback[p].capture.on
    BY <2>3, <2>4 DEF CaptureType
  <2> HIDE DEF x
  <2>6. playback[p].capture.on = TRUE /\ playback[p].key \in PcmKeys /\ playback[p].key # None
    BY <1>1, <1>2, <2>1, <2>4, PlaybackKnown, Numbers DEF CaptureType
  <2>7. PlaybackFits(x)
    BY <2>3, <2>5, <2>6 DEF PlaybackFits
  <2>8. playback'[p] = x
    BY <2>2, PlaybackNext
  <2>9. EveryoneFits' /\ EndFits'
    <3>1. \A q \in Playbacks : PlaybackFits(playback'[q])
      BY <2>2, <2>7, AllPlaybacksFit
    <3>2. player'.at = "fill" /\ player'.want = 0
      BY <1>1, <1>2, <1>6
    <3> QED
      BY <1>1, <1>2, <3>1, <3>2, ThreadFrame
  <2>10. HeldFits' /\ SizesFit' /\ CapturesFit' /\ BooksBalance'
    <3>1. player'.trash = player.trash /\ player'.want = player.want
      BY <1>6
    <3> QED
      BY <1>1, <1>6, <2>2, <2>3, <2>5, <3>1, BlockKept
  <2>11. LeasesFit'
    BY <1>1, <2>2, <2>3, LeaseKept
  <2>12. BuildersFit' /\ KeysFit'
    BY <1>1, <1>6, ProducersStay
  <2>13. UsageOutlivesBuild' /\ TooLargeIsTrue'
    BY <1>1, <1>6, UsageStays
  <2> QED
    BY <2>9, <2>10, <2>11, <2>12, <2>13
<1>7. CASE /\ reserved' = reserved + need
           /\ player' = [player EXCEPT !.at = "grow", !.want = need]
           /\ UNCHANGED <<usage, capturing, playback>>
  <2>1. player'.at = "grow" /\ player'.want = need /\ player'.trash = None /\ player'.p = player.p
    BY <1>1, <1>2, <1>7 DEF PlayerType
  <2>2. need \in Int
    BY <1>3 DEF GrownFor, Doubled
  <2> HIDE DEF need
  <2>3. EveryoneFits' /\ EndFits'
    <3>1. \A q \in Playbacks : PlaybackFits(playback'[q])
      BY <1>7 DEF EveryoneFits
    <3>2. (Current.capture.on)'
      BY <1>1, <1>7, <2>1 DEF Current
    <3> QED
      BY <1>1, <1>2, <2>1, <3>1, <3>2, ThreadFrame
  <2>4. reserved' = reserved - player.want + player'.want /\ player'.trash = player.trash
    BY <1>1, <1>2, <1>7, <2>1, <2>2, TypesOfAll
  <2>5. HeldFits' /\ LeasesFit' /\ SizesFit' /\ CapturesFit' /\ BooksBalance'
    BY <1>1, <1>7, <2>4, ThreadOnly
  <2>6. BuildersFit' /\ KeysFit'
    BY <1>1, <1>7, ProducersStay
  <2>7. UsageOutlivesBuild' /\ TooLargeIsTrue'
    BY <1>1, <1>7, UsageStays
  <2> QED
    BY <2>3, <2>5, <2>6, <2>7
<1> QED
  BY <1>4, <1>5, <1>6, <1>7 DEF AppendBuffer

LEMMA RefillSound ==
    ASSUME SoundInv, BudgetInv', NEW p \in Playbacks, Refill(p) PROVE SoundInv'
<1> USE DEF SoundInv
<1>1. /\ player.at = "ready" /\ player.trash = None
      /\ UNCHANGED <<worker, size, entry, refs, resident, reclaiming>>
      /\ UNCHANGED <<usage, queue, building, closing>>
  BY DEF Refill, At, assetVars, jobVars, workerVars
<1>2. player.want = 0 /\ ~closing
  BY <1>1, ThreadKnown
<1>3. playback[p].capture.on => Admits(playback[p].key)
  BY <1>2, PlaybackKnown DEF Admits
<1>4. /\ player' = [Ready EXCEPT !.at = "fill", !.p = p]
      /\ UNCHANGED <<capturing, reserved, playback>>
  BY <1>3 DEF Refill, Capturing
<1>5. player'.trash = None /\ player'.want = 0 /\ player'.at = "fill"
  BY <1>4 DEF Ready
<1>6. EveryoneFits' /\ EndFits'
  <2>1. \A q \in Playbacks : PlaybackFits(playback'[q])
    BY <1>4 DEF EveryoneFits
  <2> QED
    BY <1>1, <1>2, <1>5, <2>1, ThreadFrame
<1>7. reserved' = reserved - player.want + player'.want /\ player'.trash = player.trash
  BY <1>1, <1>2, <1>4, <1>5, TypesOfAll
<1>8. HeldFits' /\ LeasesFit' /\ SizesFit' /\ CapturesFit' /\ BooksBalance'
  BY <1>1, <1>4, <1>7, ThreadOnly
<1>9. BuildersFit' /\ KeysFit'
  BY <1>1, <1>4, ProducersStay
<1>10. UsageOutlivesBuild' /\ TooLargeIsTrue'
  BY <1>1, <1>4, UsageStays
<1> QED
  BY <1>6, <1>8, <1>9, <1>10

LEMMA CloseSound ==
    ASSUME SoundInv, BudgetInv', NEW p \in Playbacks, Close(p) PROVE SoundInv'
<1> USE DEF SoundInv
<1> DEFINE next == IF player.at = "stopping" THEN player ELSE Ready
           x == NoPlayback
<1>1. /\ player.at \in {"ready", "stopping", "open", "fill", "reacquire"} /\ player.trash = None
      /\ UNCHANGED <<worker, size, entry, resident, reclaiming>>
      /\ UNCHANGED <<usage, queue, building, closing>>
      /\ PlaybackIs(p, x)
  BY DEF Close, MayClose, At, jobVars, workerVars, PlaybackIs
<1>2. player.want = 0 /\ ~closing /\ player \in PlayerType
  BY <1>1, ThreadKnown
<1>3. next \in PlayerType /\ next.trash = None /\ next.want = 0 /\ next.at \in {"stopping", "ready"}
  <2>1. Ready \in PlayerType /\ Ready.trash = None /\ Ready.want = 0 /\ Ready.at = "ready"
    BY Numbers DEF Ready, PlayerType, PlayerPlaces, Bytes
  <2> QED
    BY <1>1, <1>2, <2>1
<1>4. x.capture = NoCapture /\ x.lease = None /\ x.key = None /\ NoCapture.on = FALSE
  BY DEF NoPlayback, NoCapture
<1> HIDE DEF next, x
<1>5. PlaybackFits(x)
  BY <1>4, Numbers DEF PlaybackFits, x
<1>6. CASE playback[p].capture.on
  <2>1. /\ capturing' = capturing \ {playback[p].key}
        /\ reserved' = reserved - playback[p].capture.cap
        /\ player' = [next EXCEPT !.trash = playback[p].capture.block]
        /\ UNCHANGED refs
    BY <1>6 DEF Close, next
  <2>2. /\ player'.trash = playback[p].capture.block /\ player'.want = 0
        /\ player'.at \in {"stopping", "ready"}
    BY <1>3, <2>1 DEF PlayerType
  <2>3. EveryoneFits' /\ EndFits'
    <3>1. \A q \in Playbacks : PlaybackFits(playback'[q])
      BY <1>1, <1>5, AllPlaybacksFit
    <3> QED
      BY <1>1, <1>2, <2>2, <3>1, ThreadFrame
  <2>4. reserved' = reserved - playback[p].capture.cap - player.want + player'.want
    <3>1. reserved \in Int /\ playback[p].capture.cap \in Int
      BY TypesOfAll, TermTypes
    <3> QED
      BY <1>2, <2>1, <2>2, <3>1
  <2>5. x.lease = playback[p].lease /\ (x.lease # None => x.key = playback[p].key)
    BY <1>4, <1>6, PlaybackKnown
  <2>6. /\ HeldFits' /\ LeasesFit' /\ SizesFit' /\ CapturesFit' /\ BooksBalance'
        /\ BuildersFit' /\ KeysFit'
    BY <1>1, <1>4, <1>6, <2>1, <2>2, <2>4, <2>5, CaptureDropped
  <2>7. UsageOutlivesBuild' /\ TooLargeIsTrue'
    BY <1>1, <2>1, UsageStays
  <2> QED
    BY <2>3, <2>6, <2>7
<1>7. CASE ~playback[p].capture.on
  <2>1. Release(p, next) /\ UNCHANGED <<capturing, reserved>>
    BY <1>7 DEF Close, next
  <2>2. /\ player' = [next EXCEPT !.trash = None]
        /\ refs' = IF playback[p].lease = None THEN refs
                   ELSE [refs EXCEPT ![playback[p].lease] = @ - 1]
    BY <1>3, <2>1, Releasing
  <2>3. player'.trash = None /\ player'.want = 0 /\ player'.at \in {"stopping", "ready"}
    BY <1>3, <2>2 DEF PlayerType
  <2>4. EveryoneFits' /\ EndFits'
    <3>1. \A q \in Playbacks : PlaybackFits(playback'[q])
      BY <1>1, <1>5, AllPlaybacksFit
    <3> QED
      BY <1>1, <1>2, <2>3, <3>1, ThreadFrame
  <2>5. HeldFits' /\ SizesFit' /\ CapturesFit' /\ BooksBalance'
    <3>1. player'.trash = player.trash /\ player'.want = player.want
      BY <1>1, <1>2, <2>3
    <3>2. x.capture = playback[p].capture /\ (x.capture.on => x.key = playback[p].key)
      BY <1>4, <1>7, PlaybackKnown DEF PlaybackFits
    <3> QED
      BY <1>1, <2>1, <3>1, <3>2, CaptureKept
  <2>6. LeasesFit'
    <3>1. playback[p].lease \in Blocks \union {None}
      BY PlaybackKnown
    <3>2. CASE playback[p].lease = None
      BY <1>1, <1>4, <2>2, <3>2, LeaseKept
    <3>3. CASE playback[p].lease \in Blocks
      <4>1. refs' = [refs EXCEPT ![playback[p].lease] = @ - 1]
        BY <2>2, <3>3, Numbers
      <4> QED
        BY <1>1, <1>4, <3>3, <4>1, LeaseReturned
    <3> QED
      BY <3>1, <3>2, <3>3
  <2>7. BuildersFit' /\ KeysFit'
    BY <1>1, <2>1, ProducersStay
  <2>8. UsageOutlivesBuild' /\ TooLargeIsTrue'
    BY <1>1, <2>1, UsageStays
  <2> QED
    BY <2>4, <2>5, <2>6, <2>7, <2>8
<1> QED
  BY <1>6, <1>7

-----------------------------------------------------------------------------
(* The end of a capture, and of the cache.                                  *)
(* A capture grows: into a block of its own, or its block grows.            *)
LEMMA GrowSound ==
    ASSUME SoundInv, BudgetInv', Grow PROVE SoundInv'
<1> USE DEF SoundInv
<1>1. /\ player.at = "grow" /\ player.trash = None
      /\ UNCHANGED <<worker, entry, refs, resident, reclaiming>>
      /\ UNCHANGED <<queue, building, closing>>
  BY DEF Grow, At, jobVars, workerVars
<1>2. /\ player.p \in Playbacks /\ Current.key \in Keys /\ ~closing
      /\ player \in PlayerType /\ Current = playback[player.p] /\ Current.capture.on
      /\ Current.capture.bytes + 1 <= Current.capture.cap + player.want /\ player.want \in Nat
  BY <1>1, ThreadKnown DEF Busy, Current, PlayerLocals
<1>3. CASE Abort(player.p, "failed", player.want, "fill") /\ UNCHANGED size
  BY <1>1, <1>2, <1>3, AbortSound
<1>4. PICK p \in Playbacks : p = player.p
  BY <1>2
<1> DEFINE c == playback[p].capture
           cap == c.cap + player.want
<1>5. ASSUME NEW b \in Blocks,
             IF c.block = None THEN FreeBlock(b) ELSE b = c.block,
             size' = [size EXCEPT ![b] = cap],
             playback' = [playback EXCEPT ![p].capture =
                            [c EXCEPT !.block = b, !.cap = cap, !.bytes = @ + 1]],
             player' = [player EXCEPT !.at = "fill", !.want = 0],
             UNCHANGED <<usage, capturing, reserved>>
      PROVE  SoundInv'
  <2> DEFINE x == [playback[p] EXCEPT !.capture =
                      [c EXCEPT !.block = b, !.cap = cap, !.bytes = @ + 1]]
  <2>1. PlaybackIs(p, x)
    BY <1>5, TypesOfAll DEF PlaybackIs
  <2>2. c \in CaptureType /\ c.on = TRUE /\ c.cap \in Nat /\ c.bytes \in Nat
        /\ playback[p] \in PlaybackType
    BY <1>2, <1>4, PlaybackFields, TypesOfAll
  <2>3. /\ x.key = playback[p].key /\ x.lease = playback[p].lease
        /\ x.capture = [c EXCEPT !.block = b, !.cap = cap, !.bytes = c.bytes + 1]
    BY <2>2 DEF PlaybackType
  <2>4. x.capture.block = b /\ x.capture.cap = cap /\ x.capture.on = TRUE
    BY <2>2, <2>3 DEF CaptureType
  <2>5. cap \in Nat /\ cap > 0
    BY <1>2, <1>4, <2>2
  <2>6. size'[b] > 0 /\ \A a \in Blocks : a # b => size'[a] = size[a]
    BY <1>5, <2>5, TypesOfAll
  <2>7. player'.at = "fill" /\ player'.want = 0 /\ player'.trash = None
    BY <1>1, <1>2, <1>5 DEF PlayerType
  <2>8. playback[p].key \in PcmKeys /\ playback[p].key # None
    BY <2>2, PlaybackKnown, Numbers
  <2> DEFINE h == <<"capture", p>>
  <2>9. h \in Holders /\ Held[h] = c.block
    BY HeldNow
  <2>10. /\ \A k \in Keys : h # <<"entry", k>>
         /\ \A v \in Workers : h # <<"block", v>> /\ h # <<"victim", v>>
    OBVIOUS
  <2>11. playback'[p] = x /\ \A q \in Playbacks : q # p => playback'[q] = playback[q]
    BY <2>1, PlaybackNext
  <2>12. Held'[h] = b
    BY <2>4, <2>11, HeldNext
  <2>13. HeldOutside({h})
    BY <1>1, <2>7, <2>11 DEF HeldOutside
  <2>14. Held[h] = b \/ size[b] = 0
    BY <1>5, <2>9 DEF FreeBlock
  <2>0. c = playback[p].capture /\ cap = c.cap + player.want
    OBVIOUS
  <2> HIDE DEF x, h, c, cap
  <2>15. PlaybackFits(x)
    BY <2>3, <2>4, <2>8 DEF PlaybackFits
  <2>16. EveryoneFits' /\ EndFits'
    <3>1. \A q \in Playbacks : PlaybackFits(playback'[q])
      BY <2>1, <2>15, AllPlaybacksFit
    <3> QED
      BY <1>1, <1>2, <2>7, <3>1, ThreadFrame
  <2>17. HeldFits'
    <3>1. \A a \in Blocks : a # b => (size'[a] > 0 <=> size[a] > 0)
      BY <2>6
    <3>2. CASE c.block = None
      <4>1. size[b] = 0
        BY <1>5, <3>2 DEF FreeBlock
      <4>2. Held[h] = None
        BY <2>9, <3>2
      <4> QED
        BY <2>6, <2>9, <2>12, <2>13, <3>1, <4>1, <4>2, HeldMore
    <3>3. CASE c.block # None
      <4>1. b = c.block
        BY <1>5, <3>3
      <4>2. size[b] > 0
        BY <2>9, <4>1, HeldAlone
      <4>3. \A a \in Blocks : size'[a] > 0 <=> size[a] > 0
        BY <2>6, <3>1, <4>2
      <4>4. HeldOutside({})
        BY <1>1, <2>0, <2>4, <2>7, <2>11, <4>1 DEF HeldOutside
      <4> QED
        BY <4>3, <4>4, HeldStays
    <3> QED
      BY <3>2, <3>3
  <2>18. /\ \A k \in Keys : entry[k] # None => size'[entry[k]] = size[entry[k]]
         /\ \A v \in Workers : worker[v].victim # None => size'[worker[v].victim] = size[worker[v].victim]
         /\ \A v \in Workers : worker[v].block # None => size'[worker[v].block] = size[worker[v].block]
    <3>1. /\ \A k \in Keys : h # <<"entry", k>> /\ entry[k] # None =>
                size'[entry[k]] = size[entry[k]]
          /\ \A v \in Workers : h # <<"victim", v>> /\ worker[v].victim # None =>
                size'[worker[v].victim] = size[worker[v].victim]
          /\ \A v \in Workers : h # <<"block", v>> /\ worker[v].block # None =>
                size'[worker[v].block] = size[worker[v].block]
      BY <2>6, <2>9, <2>14, OneSizeChanges
    <3> QED
      BY <2>10, <3>1
  <2>19. LeasesFit'
    BY <1>1, <2>1, <2>3, LeaseKept
  <2>20. SizesFit'
    BY <1>1, <2>18, WorkersStay
  <2>21. CapturesFit'
    <3>1. \A q \in Playbacks : /\ playback'[q].capture.on = playback[q].capture.on
                               /\ playback[q].capture.on => playback'[q].key = playback[q].key
      BY <2>0, <2>2, <2>3, <2>4, <2>11
    <3> QED
      BY <1>5, <3>1, CapturesFitStay
  <2>22. BooksBalance'
    <3>1. Assets' = Assets
      BY <1>1, <2>18, AssetsStay
    <3>2. Victims' = Victims
      BY <1>1, <2>18, VictimsStay
    <3>3. Builds' = Builds
      <4>1. \A v \in Workers : (Reserves(worker[v]))' = Reserves(worker[v])
        BY <1>1 DEF Reserves
      <4> QED
        BY <4>1, BuildsStay
    <3>4. Captures' = Captures - playback[p].capture.cap + playback'[p].capture.cap
      BY <2>11, CapturesChange
    <3>5. resident = Assets /\ reserved = Builds + Captures + player.want /\ reclaiming = Victims
      BY BooksAre
    <3>6. Builds \in Int /\ Captures \in Int /\ player.want \in Int /\ c.cap \in Int
      BY <2>2, SumTypes, TermTypes
    <3>7. playback[p].capture.cap = c.cap /\ playback'[p].capture.cap = c.cap + player.want
      BY <2>0, <2>4, <2>11
    <3>8. reserved' = Builds' + Captures' + player'.want
      BY <1>5, <2>7, <3>3, <3>4, <3>5, <3>6, <3>7
    <3> QED
      BY <1>1, <3>1, <3>2, <3>5, <3>8, BooksAre
  <2>23. BuildersFit' /\ KeysFit'
    BY <1>1, <1>5, ProducersStay
  <2>24. UsageOutlivesBuild' /\ TooLargeIsTrue'
    BY <1>1, <1>5, UsageStays
  <2> QED
    BY <2>16, <2>17, <2>19, <2>20, <2>21, <2>22, <2>23, <2>24
<1>6. \/ \E b \in Blocks :
            /\ IF c.block = None THEN FreeBlock(b) ELSE b = c.block
            /\ size' = [size EXCEPT ![b] = cap]
            /\ playback' = [playback EXCEPT ![p].capture =
                              [c EXCEPT !.block = b, !.cap = cap, !.bytes = @ + 1]]
            /\ player' = [player EXCEPT !.at = "fill", !.want = 0]
            /\ UNCHANGED <<usage, capturing, reserved>>
      \/ Abort(player.p, "failed", player.want, "fill") /\ UNCHANGED size
  BY <1>4 DEF Grow, Current
<1> HIDE DEF c, cap
<1> QED
  BY <1>3, <1>5, <1>6

LEMMA OnwardsAre ==
    ASSUME SoundInv, player.at = "fill", player.trash = None
    PROVE  /\ Onwards.at \in {"restart", "schedule", "ready"}
           /\ Onwards.want = 0 /\ Onwards.trash = None
<1>1. player \in PlayerType /\ player.want = 0
  BY ThreadKnown
<1> QED
  BY <1>1 DEF Onwards, Leaves, Ready, PlayerType

(* What was captured to its end goes to the cache.                          *)
LEMMA CommitSound ==
    ASSUME SoundInv, BudgetInv', player.at = "fill", player.trash = None, Capturing(player.p),
           Current.capture.bytes = Size[Current.key], Commit,
           UNCHANGED <<worker, reclaiming, queue, building, closing>>
    PROVE  SoundInv'
<1> USE DEF SoundInv
<1>1. /\ player.p \in Playbacks /\ Current.key \in Keys /\ ~closing /\ player.want = 0
      /\ player \in PlayerType /\ Current = playback[player.p]
  BY ThreadKnown DEF Busy, Current
<1>2. PICK p \in Playbacks : p = player.p
  BY <1>1
<1>3. PICK k \in Keys : k = playback[p].key
  BY <1>1, <1>2
<1> DEFINE c == playback[p].capture
           b == c.block
           x == [playback[p] EXCEPT !.capture = NoCapture]
<1>4. c.on /\ k \in capturing /\ entry[k] = None /\ playback[p].lease = None /\ k \in PcmKeys
      /\ playback[p] \in PlaybackType /\ c.bytes = Size[k] /\ c.cap \in Nat
      /\ Size[k] \in Nat /\ Size[k] > 0
  BY <1>1, <1>2, <1>3, PlaybackKnown, Numbers DEF Capturing
<1>5. b \in Blocks /\ b # None
  <2>1. CaptureLocals(c)
    BY DEF BudgetInv, Locals
  <2>2. b \in Blocks \union {None}
    BY PlaybackKnown
  <2> QED
    BY <1>4, <2>1, <2>2, Numbers DEF CaptureLocals
<1>6. Admits(k)
  BY <1>1, <1>4 DEF Admits
<1>7. /\ capturing' = capturing \ {k} /\ reserved' = reserved - c.cap
      /\ size' = [size EXCEPT ![b] = c.bytes]
      /\ entry' = [entry EXCEPT ![k] = b] /\ refs' = [refs EXCEPT ![b] = 0]
      /\ resident' = resident + c.bytes /\ player' = Onwards
      /\ playback' = [playback EXCEPT ![p].capture = NoCapture]
      /\ usage' = usage
  BY <1>1, <1>2, <1>3, <1>6 DEF Commit
<1>8. PlaybackIs(p, x)
  BY <1>7, TypesOfAll DEF PlaybackIs
<1>9. x.capture = NoCapture /\ x.lease = None /\ x.key = k
  BY <1>3, <1>4 DEF PlaybackType
<1>10. /\ player'.trash = None /\ player'.want = 0
       /\ player'.at \in {"restart", "schedule", "ready"}
  BY <1>7, OnwardsAre
<1>0. /\ size \in [Blocks -> Nat] /\ entry \in [Keys -> Blocks \union {None}]
      /\ refs \in [Blocks -> Int] /\ reserved \in Int /\ resident \in Int
  BY TypesOfAll
<1>11. size'[b] = Size[k] /\ \A a \in Blocks : a # b => size'[a] = size[a]
  BY <1>0, <1>4, <1>5, <1>7
<1>12. playback'[p] = x /\ \A q \in Playbacks : q # p => playback'[q] = playback[q]
  BY <1>8, PlaybackNext
<1> DEFINE h == <<"capture", p>>
           e == <<"entry", k>>
<1>13. /\ h \in Holders /\ e \in Holders /\ h # e /\ Held[h] = b /\ Held[e] = None
       /\ Held'[e] = b
  BY <1>0, <1>4, <1>7, HeldNow, HeldNext
<1>14. Held'[h] = None
  <2>1. x.capture.block = None
    BY <1>9 DEF NoCapture
  <2> QED
    BY <1>12, <2>1, HeldNext
<1>15. /\ \A j \in Keys : h # <<"entry", j>>
       /\ \A v \in Workers : h # <<"block", v>> /\ h # <<"victim", v>>
  OBVIOUS
<1>16. HeldOutside({h, e})
  BY <1>0, <1>7, <1>10, <1>12 DEF HeldOutside
<1>17. b = playback[p].capture.block /\ c.cap = playback[p].capture.cap /\ c = playback[p].capture
  OBVIOUS
<1> HIDE DEF x, h, e, b, c
<1>18. size[b] > 0
  BY <1>5, <1>13, HeldAlone
<1>19. PlaybackFits(x)
  BY <1>3, <1>9, Numbers DEF PlaybackFits, NoCapture
<1>20. EveryoneFits' /\ EndFits'
  <2>1. \A q \in Playbacks : PlaybackFits(playback'[q])
    BY <1>8, <1>19, AllPlaybacksFit
  <2> QED
    BY <1>1, <1>10, <2>1, ThreadFrame
<1>21. HeldFits'
  <2>1. \A a \in Blocks : size'[a] > 0 <=> size[a] > 0
    BY <1>4, <1>11, <1>18
  <2> QED
    BY <1>5, <1>13, <1>14, <1>16, <2>1, HeldMoves
<1>22. /\ \A j \in Keys : entry[j] # None => size'[entry[j]] = size[entry[j]]
       /\ \A v \in Workers : worker[v].victim # None => size'[worker[v].victim] = size[worker[v].victim]
       /\ \A v \in Workers : worker[v].block # None => size'[worker[v].block] = size[worker[v].block]
  <2>1. /\ \A j \in Keys : h # <<"entry", j>> /\ entry[j] # None =>
              size'[entry[j]] = size[entry[j]]
        /\ \A v \in Workers : h # <<"victim", v>> /\ worker[v].victim # None =>
              size'[worker[v].victim] = size[worker[v].victim]
        /\ \A v \in Workers : h # <<"block", v>> /\ worker[v].block # None =>
              size'[worker[v].block] = size[worker[v].block]
    BY <1>5, <1>11, <1>13, OneSizeChanges
  <2> QED
    BY <1>15, <2>1
<1>23. LeasesFit'
  <2>1. \A j \in Keys : entry[j] # b
    BY <1>5, <1>13, <1>15, HeldAlone
  <2>2. \A q \in Playbacks : playback[q].lease # None => playback[q].lease # b /\ playback[q].key # k
    BY <1>4, <2>1 DEF LeasesFit
  <2>3. \A q \in Playbacks : /\ playback'[q].lease = playback[q].lease
                             /\ playback[q].lease # None => playback'[q].key = playback[q].key
    BY <1>4, <1>9, <1>12
  <2>4. \A a \in Blocks : (Leases(a))' = Leases(a)
    BY <2>3 DEF Leases
  <2>5. Leases(b) = {}
    BY <1>5, <2>2 DEF Leases
  <2>6. \A a \in Blocks : refs'[a] = Cardinality(Leases(a))
    BY <1>0, <1>5, <1>7, <2>5, FS_EmptySet DEF LeasesFit
  <2>7. \A q \in Playbacks : playback'[q].lease # None =>
           playback'[q].key \in Keys /\ entry'[playback'[q].key] = playback'[q].lease
    BY <1>0, <1>7, <2>2, <2>3 DEF LeasesFit
  <2> QED
    BY <2>4, <2>6, <2>7 DEF LeasesFit
<1>24. SizesFit'
  BY <1>22, WorkersStay
<1>25. CapturesFit'
  BY <1>3, <1>4, <1>7, <1>8, <1>9, <1>17, CaptureLeaves
<1>26. BooksBalance'
  <2>1. Assets' = Assets - SizeOf(entry[k]) + (SizeOf(entry[k]))'
    <3>1. \A j \in Keys : j # k => (SizeOf(entry[j]))' = SizeOf(entry[j])
      BY <1>0, <1>7, <1>22 DEF SizeOf
    <3> QED
      BY <3>1, AssetsChange
  <2>2. SizeOf(entry[k]) = 0 /\ (SizeOf(entry[k]))' = Size[k]
    <3>1. entry'[k] = b
      BY <1>0, <1>7
    <3> QED
      BY <1>4, <1>5, <1>11, <3>1 DEF SizeOf
  <2>3. Victims' = Victims
    BY <1>22, VictimsStay
  <2>4. Builds' = Builds
    <3>1. \A v \in Workers : (Reserves(worker[v]))' = Reserves(worker[v])
      BY DEF Reserves
    <3> QED
      BY <3>1, BuildsStay
  <2>5. Captures' = Captures - playback[p].capture.cap + playback'[p].capture.cap
    BY <1>12, CapturesChange
  <2>6. playback[p].capture.cap = c.cap /\ playback'[p].capture.cap = 0
    BY <1>9, <1>12, <1>17 DEF NoCapture
  <2>7. resident = Assets /\ reserved = Builds + Captures + player.want /\ reclaiming = Victims
    BY BooksAre
  <2>8. /\ Assets \in Int /\ Builds \in Int /\ Captures \in Int /\ c.cap \in Int /\ Size[k] \in Int
    BY <1>4, SumTypes
  <2>9. resident' = Assets'
    BY <1>4, <1>7, <2>1, <2>2, <2>7, <2>8
  <2>10. reserved' = Builds' + Captures' + player'.want
    BY <1>1, <1>7, <1>10, <2>4, <2>5, <2>6, <2>7, <2>8
  <2> QED
    BY <2>3, <2>7, <2>9, <2>10, BooksAre
<1>27. BuildersFit'
  BY BuildersStay
<1>28. KeysFit'
  <2>1. k \notin building
    BY <1>4 DEF KeysFit
  <2>2. \A j \in building' \union capturing' : j # k /\ j \in Keys /\ entry[j] = None
    BY <1>7, <2>1, ProducedKeys DEF KeysFit
  <2> QED
    BY <1>0, <1>7, <2>2 DEF KeysFit
<1>29. UsageOutlivesBuild' /\ TooLargeIsTrue'
  BY <1>7, UsageStays
<1> QED
  BY <1>20, <1>21, <1>23, <1>24, <1>25, <1>26, <1>27, <1>28, <1>29

LEMMA SegmentEndsSound ==
    ASSUME SoundInv, BudgetInv', SegmentEnds PROVE SoundInv'
<1> USE DEF SoundInv
<1>1. /\ player.at = "fill" /\ player.trash = None
      /\ UNCHANGED <<worker, reclaiming, queue, building, closing>>
  BY DEF SegmentEnds, At, jobVars, workerVars
<1>2. player.want = 0 /\ ~closing
  BY <1>1, ThreadKnown
<1>3. CASE Capturing(player.p)
  <2>1. Current.capture.bytes = Size[Current.key] /\ Current.capture.on
    BY <1>3 DEF SegmentEnds, Capturing, Current
  <2>2. CASE Commit
    BY <1>1, <1>3, <2>1, <2>2, CommitSound
  <2>3. CASE Abort(player.p, "failed", 0, Onwards.at) /\ UNCHANGED <<assetVars, resident>>
    <3>1. Onwards.at \in {"fill", "restart", "schedule", "ready"}
      BY <1>1, OnwardsAre
    <3>2. UNCHANGED <<size, entry, refs>>
      BY <2>3 DEF assetVars
    <3> QED
      BY <1>1, <1>2, <2>1, <2>3, <3>1, <3>2, AbortSound
  <2> QED
    BY <1>3, <2>2, <2>3 DEF SegmentEnds
<1>4. CASE ~Capturing(player.p)
  <2>1. /\ player' = Onwards
        /\ UNCHANGED <<size, entry, refs, usage, capturing, resident, reserved, playback>>
    BY <1>4 DEF SegmentEnds, assetVars
  <2>2. player'.trash = None /\ player'.want = 0 /\ player'.at \in {"restart", "schedule", "ready"}
    BY <1>1, <2>1, OnwardsAre
  <2>3. EveryoneFits' /\ EndFits'
    <3>1. \A q \in Playbacks : PlaybackFits(playback'[q])
      BY <2>1 DEF EveryoneFits
    <3> QED
      BY <1>1, <1>2, <2>2, <3>1, ThreadFrame
  <2>4. reserved' = reserved - player.want + player'.want /\ player'.trash = player.trash
    BY <1>1, <1>2, <2>1, <2>2, TypesOfAll
  <2>5. HeldFits' /\ LeasesFit' /\ SizesFit' /\ CapturesFit' /\ BooksBalance'
    BY <1>1, <2>1, <2>4, ThreadOnly
  <2>6. BuildersFit' /\ KeysFit'
    BY <1>1, <2>1, ProducersStay
  <2>7. UsageOutlivesBuild' /\ TooLargeIsTrue'
    BY <1>1, <2>1, UsageStays
  <2> QED
    BY <2>3, <2>5, <2>6, <2>7
<1> QED
  BY <1>3, <1>4

(* The end: the last playback is gone before the cache closes, the last     *)
(* worker before it is freed.                                               *)
LEMMA CloseCacheSound ==
    ASSUME SoundInv, BudgetInv', CloseCache PROVE SoundInv'
<1> USE DEF SoundInv
<1>1. /\ player.at = "stopping" /\ player.trash = None
      /\ \A p \in Playbacks : playback[p].key = None
      /\ closing' = TRUE /\ player' = [player EXCEPT !.at = "waiting"]
      /\ UNCHANGED <<playback, worker, size, entry, refs>>
      /\ UNCHANGED <<resident, reclaiming, reserved, capturing, usage, queue, building>>
  BY DEF CloseCache, At, assetVars, bookVars, workerVars
<1>2. player.want = 0 /\ ~closing /\ player \in PlayerType
  BY <1>1, ThreadKnown
<1>3. player'.trash = None /\ player'.want = 0 /\ player'.at = "waiting"
  BY <1>1, <1>2 DEF PlayerType
<1>4. EveryoneFits'
  BY <1>1, <1>3 DEF EveryoneFits
<1>5. EndFits'
  BY <1>1, <1>2, <1>3 DEF EndFits
<1>6. reserved' = reserved - player.want + player'.want /\ player'.trash = player.trash
  BY <1>1, <1>2, <1>3, TypesOfAll
<1>7. HeldFits' /\ LeasesFit' /\ SizesFit' /\ CapturesFit' /\ BooksBalance'
  BY <1>1, <1>6, ThreadOnly
<1>8. BuildersFit' /\ KeysFit'
  BY <1>1, ProducersStay
<1>9. UsageOutlivesBuild' /\ TooLargeIsTrue'
  BY <1>1, UsageStays
<1> QED
  BY <1>4, <1>5, <1>7, <1>8, <1>9

(* Once the workers are gone only the cache has blocks, and none is leased. *)
LEMMA OnlyEntries ==
    ASSUME SoundInv, closing, \A w \in Workers : worker[w].pc = "exited"
    PROVE  /\ \A w \in Workers : /\ worker[w].block = None /\ worker[w].victim = None
                                 /\ worker[w].key = None /\ Reserves(worker[w]) = 0
           /\ \A p \in Playbacks : playback[p] = NoPlayback
           /\ player.trash = None /\ queue = <<>>
           /\ \A b \in Blocks : refs[b] = 0
           /\ \A b \in Blocks : size[b] > 0 => \E k \in Keys : entry[k] = b
<1>1. \A w \in Workers : /\ worker[w].block = None /\ worker[w].victim = None
                         /\ worker[w].key = None /\ Reserves(worker[w]) = 0
  BY DEF SoundInv, EveryoneFits, WorkerFits, Keyless, Reserves
<1>2. \A p \in Playbacks : playback[p] = NoPlayback
  BY DEF SoundInv, EndFits, EveryoneFits, PlaybackFits
<1>3. player.trash = None /\ queue = <<>>
  BY Numbers DEF SoundInv, EndFits
<1>4. \A b \in Blocks : refs[b] = 0
  <2> SUFFICES ASSUME NEW b \in Blocks PROVE refs[b] = 0
    OBVIOUS
  <2>1. Leases(b) = {}
    BY <1>2, Numbers DEF Leases, NoPlayback
  <2> QED
    BY <2>1, FS_EmptySet DEF SoundInv, LeasesFit
<1>5. ASSUME NEW b \in Blocks, size[b] > 0 PROVE \E k \in Keys : entry[k] = b
  <2>1. PICK x \in Holders : Held[x] = b
    BY <1>5 DEF SoundInv, HeldFits
  <2>2. b # None
    BY Numbers
  <2>3. CASE \E k \in Keys : x = <<"entry", k>>
    BY <2>1, <2>3, HeldNow
  <2>4. CASE \E w \in Workers : x \in {<<"block", w>>, <<"victim", w>>}
    BY ZenonT(60), <1>1, <2>1, <2>2, <2>4, HeldNow
  <2>5. CASE \E p \in Playbacks : x = <<"capture", p>>
    BY <1>2, <2>1, <2>2, <2>5, HeldNow DEF NoPlayback, NoCapture
  <2>6. CASE x = <<"trash", None>>
    BY <1>3, <2>1, <2>2, <2>6, HeldNow
  <2> QED
    BY <2>3, <2>4, <2>5, <2>6, HolderKinds
<1> QED
  BY <1>1, <1>2, <1>3, <1>4, <1>5

LEMMA FreeEntriesSound ==
    ASSUME SoundInv, BudgetInv', FreeEntries PROVE SoundInv'
<1> USE DEF SoundInv
<1>1. /\ player.at = "waiting" /\ player.trash = None
      /\ \A w \in Workers : worker[w].pc = "exited"
      /\ entry' = [k \in Keys |-> None]
      /\ size' = [b \in Blocks |->
            IF \E k \in Keys : entry[k] = b /\ refs[b] = 0 THEN 0 ELSE size[b]]
      /\ resident' = 0 /\ player' = [player EXCEPT !.at = "closed"]
      /\ UNCHANGED <<playback, worker, refs>>
      /\ UNCHANGED <<reclaiming, reserved, capturing, usage, queue, building, closing>>
  BY DEF FreeEntries, At, jobVars, workerVars
<1>2. player.want = 0 /\ closing /\ player \in PlayerType
  BY <1>1, ThreadKnown
<1>3. player'.trash = None /\ player'.want = 0 /\ player'.at = "closed"
  BY <1>1, <1>2 DEF PlayerType
<1>4. /\ \A w \in Workers : worker[w].block = None /\ worker[w].victim = None
      /\ \A p \in Playbacks : playback[p] = NoPlayback
      /\ \A b \in Blocks : refs[b] = 0
      /\ \A b \in Blocks : size[b] > 0 => \E k \in Keys : entry[k] = b
  BY <1>1, <1>2, OnlyEntries
<1>5. \A b \in Blocks : size'[b] = 0
  <2> SUFFICES ASSUME NEW b \in Blocks PROVE size'[b] = 0
    OBVIOUS
  <2>1. size'[b] = IF \E k \in Keys : entry[k] = b /\ refs[b] = 0 THEN 0 ELSE size[b]
    BY <1>1
  <2>2. size[b] \in Nat
    BY TypesOfAll
  <2>3. size[b] > 0 => \E k \in Keys : entry[k] = b /\ refs[b] = 0
    BY <1>4
  <2> QED
    BY <2>1, <2>2, <2>3
<1>6. EveryoneFits'
  BY <1>1, <1>3 DEF EveryoneFits
<1>7. EndFits'
  BY <1>1, <1>2, <1>3 DEF EndFits
<1>8. HeldFits'
  <2>1. \A x \in Holders : Held'[x] = None
    <3> SUFFICES ASSUME NEW x \in Holders PROVE Held'[x] = None
      OBVIOUS
    <3>1. CASE \E k \in Keys : x = <<"entry", k>>
      BY <1>1, <3>1, HeldNext
    <3>2. CASE \E w \in Workers : x \in {<<"block", w>>, <<"victim", w>>}
      BY <1>1, <1>4, <3>2, HeldNext
    <3>3. CASE \E p \in Playbacks : x = <<"capture", p>>
      BY <1>1, <1>4, <3>3, HeldNext DEF NoPlayback, NoCapture
    <3>4. CASE x = <<"trash", None>>
      BY <1>3, <3>4, HeldNext
    <3> QED
      BY <3>1, <3>2, <3>3, <3>4, HolderKinds
  <2> QED
    BY <1>5, <2>1, Numbers DEF HeldFits
<1>9. LeasesFit'
  <2>1. \A p \in Playbacks : playback[p].lease = None
    BY <1>4 DEF NoPlayback
  <2>2. \A b \in Blocks : (Leases(b))' = Leases(b)
    BY <1>1 DEF Leases
  <2> QED
    BY <1>1, <2>1, <2>2 DEF LeasesFit
<1>10. BuildersFit'
  BY <1>1, BuildersStay
<1>11. CapturesFit'
  BY <1>1, CapturesFitStay
<1>12. KeysFit'
  <2>1. \A k \in building \union capturing : k \in Keys
    BY ProducedKeys
  <2> QED
    BY <1>1, <2>1 DEF KeysFit
<1>13. SizesFit'
  BY <1>1 DEF SizesFit
<1>14. BooksBalance'
  <2>1. Assets' = 0
    <3> DEFINE f == [k \in Keys |-> (SizeOf(entry[k]))']
    <3>1. f \in [Keys -> Int] /\ \A k \in Keys : f[k] = 0
      BY <1>1 DEF SizeOf
    <3>2. Assets' = SumFunction(f)
      BY DEF Assets
    <3> HIDE DEF f
    <3> QED
      BY <3>1, <3>2, Numbers, SumOfNothing
  <2>2. Victims' = Victims
    BY <1>1, <1>4, VictimsStay
  <2>3. Builds' = Builds
    <3>1. \A v \in Workers : (Reserves(worker[v]))' = Reserves(worker[v])
      BY <1>1 DEF Reserves
    <3> QED
      BY <3>1, BuildsStay
  <2>4. Captures' = Captures
    BY <1>1, CapturesStay
  <2> QED
    BY <1>1, <1>2, <1>3, <2>1, <2>2, <2>3, <2>4, BooksAre
<1>15. UsageOutlivesBuild' /\ TooLargeIsTrue'
  BY <1>1, UsageStays
<1> QED
  BY <1>6, <1>7, <1>8, <1>9, <1>10, <1>11, <1>12, <1>13, <1>14, <1>15

-----------------------------------------------------------------------------
(* The invariant and the theorems.                                          *)
LEMMA StepKeepsSound == SoundInv /\ [Next]_vars => SoundInv'
<1> SUFFICES ASSUME SoundInv, [Next]_vars PROVE SoundInv'
  OBVIOUS
<1>0. BudgetInv'
  BY StepKeepsBudget DEF SoundInv
<1>1. CASE \E w \in Workers : WorkerStep(w)
  BY <1>0, <1>1, WorkersKeepSound
<1>2. CASE PlayerStep
  BY <1>0, <1>2, BeginCaptureSound, FreeTrashSound, AppendSound, GrowSound, FilledSound,
     SegmentEndsSound, RestartSound, ReacquireSound, ScheduleSound, CloseCacheSound,
     FreeEntriesSound DEF PlayerStep
<1>3. CASE Shutdown
  BY <1>0, <1>3, ShutdownSound
<1>4. CASE Closed \/ UNCHANGED vars
  BY <1>0, <1>4, StutterSound DEF Closed
<1>5. CASE \E p \in Playbacks : Refill(p) \/ Close(p)
  BY <1>0, <1>5, RefillSound, CloseSound
<1>6. CASE \E p \in Playbacks, k \in Keys, loop \in BOOLEAN : Observe(p, k, loop)
  BY <1>0, <1>6, ObserveSound
<1>7. CASE \E k \in Keys : TimePasses(k)
  BY <1>0, <1>7, TimeSound
<1> QED
  BY <1>1, <1>2, <1>3, <1>4, <1>5, <1>6, <1>7 DEF Next

(* Sums in which nothing is counted.                                        *)
LEMMA NothingCounts ==
    ASSUME BudgetInv
    PROVE  /\ (\A k \in Keys : entry[k] = None) => Assets = 0
           /\ (\A w \in Workers : Reserves(worker[w]) = 0) => Builds = 0
           /\ (\A p \in Playbacks : playback[p].capture.cap = 0) => Captures = 0
           /\ (\A w \in Workers : worker[w].victim = None) => Victims = 0
<1> DEFINE a == [k \in Keys |-> SizeOf(entry[k])]
           b == [w \in Workers |-> Reserves(worker[w])]
           c == [p \in Playbacks |-> playback[p].capture.cap]
           v == [w \in Workers |-> SizeOf(worker[w].victim)]
<1>1. /\ a \in [Keys -> Int] /\ b \in [Workers -> Int] /\ c \in [Playbacks -> Int]
      /\ v \in [Workers -> Int]
  BY TermTypes
<1>2. /\ (\A k \in Keys : entry[k] = None) => \A k \in Keys : a[k] = 0
      /\ (\A w \in Workers : Reserves(worker[w]) = 0) => \A w \in Workers : b[w] = 0
      /\ (\A p \in Playbacks : playback[p].capture.cap = 0) => \A p \in Playbacks : c[p] = 0
      /\ (\A w \in Workers : worker[w].victim = None) => \A w \in Workers : v[w] = 0
  BY DEF SizeOf
<1>3. /\ Assets = SumFunction(a) /\ Builds = SumFunction(b) /\ Captures = SumFunction(c)
      /\ Victims = SumFunction(v)
  BY DEF Assets, Builds, Captures, Victims
<1> HIDE DEF a, b, c, v
<1>4. (\A k \in Keys : a[k] = 0) => SumFunction(a) = 0
  BY <1>1, Numbers, SumOfNothing
<1>5. (\A w \in Workers : b[w] = 0) => SumFunction(b) = 0
  BY <1>1, Numbers, SumOfNothing
<1>6. (\A p \in Playbacks : c[p] = 0) => SumFunction(c) = 0
  BY <1>1, Numbers, SumOfNothing
<1>7. (\A w \in Workers : v[w] = 0) => SumFunction(v) = 0
  BY <1>1, Numbers, SumOfNothing
<1> QED
  BY <1>2, <1>3, <1>4, <1>5, <1>6, <1>7

LEMMA InitSound == Init => SoundInv
<1> SUFFICES ASSUME Init PROVE SoundInv
  OBVIOUS
<1>0. /\ worker = [w \in Workers |-> Resting] /\ playback = [p \in Playbacks |-> NoPlayback]
      /\ player = Ready /\ entry = [k \in Keys |-> None] /\ size = [b \in Blocks |-> 0]
      /\ refs = [b \in Blocks |-> 0] /\ usage = [k \in Keys |-> NoUsage]
      /\ building = {} /\ capturing = {} /\ queue = <<>> /\ closing = FALSE
      /\ resident = 0 /\ reserved = 0 /\ reclaiming = 0
  BY DEF Init
<1>1. BudgetInv
  BY InitBudget
<1>2. EveryoneFits
  BY <1>0, Numbers DEF EveryoneFits, WorkerFits, PlaybackFits, Resting, NoPlayback, NoCapture,
     Ready, Keyless, Wanting
<1>3. EndFits
  BY <1>0 DEF EndFits, Ready, NoPlayback, Resting
<1>4. HeldFits
  <2>1. \A x \in Holders : Held[x] = None
    <3> SUFFICES ASSUME NEW x \in Holders PROVE Held[x] = None
      OBVIOUS
    <3>1. CASE \E k \in Keys : x = <<"entry", k>>
      BY <1>0, <3>1, HeldNow
    <3>2. CASE \E w \in Workers : x \in {<<"block", w>>, <<"victim", w>>}
      BY <1>0, <3>2, HeldNow DEF Resting
    <3>3. CASE \E p \in Playbacks : x = <<"capture", p>>
      BY <1>0, <3>3, HeldNow DEF NoPlayback, NoCapture
    <3>4. CASE x = <<"trash", None>>
      BY <1>0, <3>4, HeldNow DEF Ready
    <3> QED
      BY <3>1, <3>2, <3>3, <3>4, HolderKinds
  <2>2. \A b \in Blocks : size[b] = 0
    BY <1>0
  <2> QED
    BY <2>1, <2>2, Numbers DEF HeldFits
<1>5. LeasesFit
  <2>1. \A p \in Playbacks : playback[p].lease = None
    BY <1>0 DEF NoPlayback
  <2>2. \A b \in Blocks : Leases(b) = {}
    BY <2>1, Numbers DEF Leases
  <2> QED
    BY <1>0, <2>1, <2>2, FS_EmptySet DEF LeasesFit
<1>6. BuildersFit /\ CapturesFit /\ KeysFit /\ SizesFit
  BY <1>0 DEF BuildersFit, CapturesFit, KeysFit, SizesFit, Resting, NoPlayback, NoCapture,
     Capturing
<1>7. BooksBalance
  <2>1. \A k \in Keys : entry[k] = None
    BY <1>0
  <2>2. \A w \in Workers : Reserves(worker[w]) = 0 /\ worker[w].victim = None
    BY <1>0 DEF Resting, Reserves
  <2>3. \A p \in Playbacks : playback[p].capture.cap = 0
    BY <1>0 DEF NoPlayback, NoCapture
  <2>4. player.want = 0
    BY <1>0 DEF Ready
  <2>5. Assets = 0 /\ Builds = 0 /\ Captures = 0 /\ Victims = 0
    BY <1>1, <2>1, <2>2, <2>3, NothingCounts
  <2> QED
    BY <1>0, <2>4, <2>5, BooksAre
<1>8. UsageOutlivesBuild /\ TooLargeIsTrue
  BY <1>0 DEF UsageOutlivesBuild, TooLargeIsTrue, NoUsage
<1> QED
  BY <1>1, <1>2, <1>3, <1>4, <1>5, <1>6, <1>7, <1>8 DEF SoundInv

LEMMA LeasesAreSound == SoundInv => LeasedStaysAllocated
<1> SUFFICES ASSUME SoundInv PROVE LeasedStaysAllocated
  OBVIOUS
<1> USE DEF SoundInv
<1>1. ASSUME NEW p \in Playbacks, playback[p].lease # None
      PROVE  size[playback[p].lease] > 0 /\ entry[playback[p].key] = playback[p].lease
  <2> DEFINE k == playback[p].key
             b == playback[p].lease
  <2>1. k \in Keys /\ entry[k] = b /\ b \in Blocks
    BY <1>1, PlaybackKnown
  <2>2. <<"entry", k>> \in Holders /\ Held[<<"entry", k>>] = b
    BY <2>1, HeldNow
  <2> HIDE DEF k, b
  <2>3. size[b] > 0
    BY <2>1, <2>2, HeldAlone
  <2> QED
    BY <2>1, <2>3 DEF k, b
<1>2. \A b \in Blocks : refs[b] = Cardinality(Leases(b))
  BY DEF LeasesFit
<1> QED
  BY <1>1, <1>2 DEF LeasedStaysAllocated

LEMMA OwnersAreSound == SoundInv => EveryBlockHasAnOwner
<1> SUFFICES ASSUME SoundInv, NEW b \in Blocks
             PROVE  Cardinality(Owners(b)) = IF size[b] = 0 THEN 0 ELSE 1
  BY DEF EveryBlockHasAnOwner
<1> USE DEF SoundInv
<1>0. BudgetInv /\ HeldFits /\ size[b] \in Nat
  BY TypesOfAll
<1>1. CASE size[b] = 0
  <2>1. /\ \A k \in Keys : entry[k] # b
        /\ \A w \in Workers : worker[w].block # b /\ worker[w].victim # b
        /\ \A p \in Playbacks : playback[p].capture.block # b
        /\ player.trash # b
    BY <1>0, <1>1, FreeIsNobodys
  <2>2. Owners(b) = {}
    BY <2>1 DEF Owners
  <2> QED
    BY <1>1, <2>2, FS_EmptySet
<1>2. CASE size[b] # 0
  <2>1. PICK x \in Holders : Held[x] = b
    BY <1>0, <1>2 DEF HeldFits
  <2>2. /\ \A k \in Keys : entry[k] = b => x = <<"entry", k>>
        /\ \A w \in Workers : /\ worker[w].block = b => x = <<"block", w>>
                              /\ worker[w].victim = b => x = <<"victim", w>>
        /\ \A p \in Playbacks : playback[p].capture.block = b => x = <<"capture", p>>
        /\ player.trash = b => x = <<"trash", None>>
    BY <1>0, <2>1, HeldAlone
  <2>3. CASE \E k \in Keys : x = <<"entry", k>>
    <3>1. PICK k \in Keys : x = <<"entry", k>>
      BY <2>3
    <3>2. entry[k] = b
      BY <2>1, <3>1, HeldNow
    <3>3. Owners(b) = {k}
      BY <2>2, <3>1, <3>2 DEF Owners
    <3> QED
      BY <1>2, <3>3, FS_Singleton
  <2>4. CASE \E w \in Workers : x \in {<<"block", w>>, <<"victim", w>>}
    <3>1. PICK w \in Workers : x \in {<<"block", w>>, <<"victim", w>>}
      BY <2>4
    <3>2. worker[w].block = b \/ worker[w].victim = b
      BY <2>1, <3>1, HeldNow
    <3>3. Owners(b) = {w}
      BY <2>2, <3>1, <3>2 DEF Owners
    <3> QED
      BY <1>2, <3>3, FS_Singleton
  <2>5. CASE \E p \in Playbacks : x = <<"capture", p>>
    <3>1. PICK p \in Playbacks : x = <<"capture", p>>
      BY <2>5
    <3>2. playback[p].capture.block = b
      BY <2>1, <3>1, HeldNow
    <3>3. Owners(b) = {p}
      BY <2>2, <3>1, <3>2 DEF Owners
    <3> QED
      BY <1>2, <3>3, FS_Singleton
  <2>6. CASE x = <<"trash", None>>
    <3>1. player.trash = b
      BY <2>1, <2>6, HeldNow
    <3>2. Owners(b) = {"trash"}
      BY <2>2, <2>6, <3>1 DEF Owners
    <3> QED
      BY <1>2, <3>2, FS_Singleton
  <2> QED
    BY <2>3, <2>4, <2>5, <2>6, HolderKinds
<1> QED
  BY <1>1, <1>2

LEMMA ProducersAreSound == SoundInv => OneProducerPerKey
<1> SUFFICES ASSUME SoundInv, NEW k \in Keys
             PROVE  /\ Cardinality(Jobs(k)) + Cardinality(Builders(k))
                           = IF k \in building THEN 1 ELSE 0
                    /\ Cardinality({p \in Playbacks : Capturing(p) /\ playback[p].key = k})
                           = IF k \in capturing THEN 1 ELSE 0
                    /\ k \in capturing => k \notin building
                    /\ k \in building \union capturing => entry[k] = None
  BY DEF OneProducerPerKey
<1> USE DEF SoundInv
<1>0. k # None
  BY Numbers
<1>1. Cardinality(Jobs(k)) + Cardinality(Builders(k)) = IF k \in building THEN 1 ELSE 0
  <2>1. CASE k \notin building
    <3>1. Jobs(k) = {} /\ Builders(k) = {}
      BY <1>0, <2>1 DEF BuildersFit, Jobs, Builders
    <3> QED
      BY <2>1, <3>1, FS_EmptySet
  <2>2. CASE \E i \in 1 .. Len(queue) : queue[i] = k
    <3>1. PICK i \in 1 .. Len(queue) : queue[i] = k
      BY <2>2
    <3>2. k \in building
      BY <3>1 DEF BuildersFit
    <3>3. Jobs(k) = {i}
      BY <3>1 DEF BuildersFit, Jobs
    <3>4. Builders(k) = {}
      BY <1>0, <3>1 DEF BuildersFit, Builders
    <3>5. Cardinality(Jobs(k)) = 1 /\ Cardinality(Builders(k)) = 0
      BY <3>3, <3>4, FS_EmptySet, FS_Singleton
    <3> QED
      BY <3>2, <3>5
  <2>3. CASE \E w \in Workers : worker[w].key = k
    <3>1. PICK w \in Workers : worker[w].key = k
      BY <2>3
    <3>2. k \in building
      BY <1>0, <3>1 DEF BuildersFit
    <3>3. Builders(k) = {w}
      BY <1>0, <3>1 DEF BuildersFit, Builders
    <3>4. Jobs(k) = {}
      BY <1>0, <3>1 DEF BuildersFit, Jobs
    <3>5. Cardinality(Builders(k)) = 1 /\ Cardinality(Jobs(k)) = 0
      BY <3>3, <3>4, FS_EmptySet, FS_Singleton
    <3> QED
      BY <3>2, <3>5
  <2> QED
    BY <2>1, <2>2, <2>3 DEF BuildersFit
<1>2. Cardinality({p \in Playbacks : Capturing(p) /\ playback[p].key = k})
          = IF k \in capturing THEN 1 ELSE 0
  <2> DEFINE captures == {p \in Playbacks : Capturing(p) /\ playback[p].key = k}
  <2>1. CASE k \notin capturing
    <3>1. captures = {}
      BY <2>1 DEF CapturesFit
    <3> QED
      BY <2>1, <3>1, FS_EmptySet
  <2>2. CASE k \in capturing
    <3>1. PICK p \in Playbacks : Capturing(p) /\ playback[p].key = k
      BY <2>2 DEF CapturesFit
    <3>2. captures = {p}
      BY <3>1 DEF CapturesFit
    <3> QED
      BY <2>2, <3>2, FS_Singleton
  <2> QED
    BY <2>1, <2>2
<1> QED
  BY <1>1, <1>2 DEF KeysFit

LEMMA EndIsSound == SoundInv => NothingIsLeft
<1> SUFFICES ASSUME SoundInv, At("closed")
             PROVE  UsedBytes = 0 /\ building = {} /\ \A b \in Blocks : size[b] = 0
  BY DEF NothingIsLeft
<1> USE DEF SoundInv
<1>1. /\ player.at = "closed" /\ closing /\ player.want = 0
      /\ \A w \in Workers : worker[w].pc = "exited"
      /\ \A k \in Keys : entry[k] = None
  <2>1. player.at = "closed"
    BY DEF At
  <2>2. closing /\ player.want = 0
    BY <2>1, ThreadKnown
  <2> QED
    BY <2>1, <2>2 DEF EndFits
<1>2. /\ \A w \in Workers : /\ worker[w].block = None /\ worker[w].victim = None
                            /\ worker[w].key = None /\ Reserves(worker[w]) = 0
      /\ \A p \in Playbacks : playback[p] = NoPlayback
      /\ player.trash = None /\ queue = <<>>
      /\ \A b \in Blocks : refs[b] = 0
      /\ \A b \in Blocks : size[b] > 0 => \E k \in Keys : entry[k] = b
  BY <1>1, OnlyEntries
<1>3. \A b \in Blocks : size[b] = 0
  <2> SUFFICES ASSUME NEW b \in Blocks PROVE size[b] = 0
    OBVIOUS
  <2>1. size[b] \in Nat /\ b # None
    BY TypesOfAll, Numbers
  <2>2. ~(size[b] > 0)
    BY <1>1, <1>2, <2>1
  <2> QED
    BY <2>1, <2>2
<1>4. building = {}
  <2> SUFFICES ASSUME NEW k \in building PROVE FALSE
    OBVIOUS
  <2>1. k \in Keys /\ k # None
    BY TypesOfAll, Numbers
  <2>2. ~\E i \in 1 .. Len(queue) : queue[i] = k
    BY <1>2
  <2>3. ~\E w \in Workers : worker[w].key = k
    BY <1>2, <2>1
  <2> QED
    BY <2>2, <2>3 DEF BuildersFit
<1>5. UsedBytes = 0
  <2>1. \A p \in Playbacks : playback[p].capture.cap = 0
    BY <1>2 DEF NoPlayback, NoCapture
  <2>2. Assets = 0 /\ Builds = 0 /\ Captures = 0 /\ Victims = 0
    BY <1>1, <1>2, <2>1, NothingCounts
  <2> QED
    BY <1>1, <2>2, BooksAre DEF UsedBytes
<1> QED
  BY <1>3, <1>4, <1>5

(* The caches keep their word (pcm_cache.go, raw_cache.go, cache_budget.go, *)
(* capture.go): the byte counts are what is cached, reserved and reclaimed, *)
(* what a playback leases stays allocated and cached, every block has one   *)
(* owner who frees it, a key has at most one producer, which finds the      *)
(* usage record it writes to, and close leaves nothing.                     *)
THEOREM CachesCorrect == Spec => []CachesAreSound
<1>1. SoundInv => CachesAreSound
  BY LeasesAreSound, OwnersAreSound, ProducersAreSound, EndIsSound
     DEF SoundInv, CachesAreSound
<1> QED
  BY <1>1, InitSound, StepKeepsSound, PTL DEF Spec

-----------------------------------------------------------------------------
(* What leaves the cache while it is open was evicted by a worker.          *)
DemandKept ==
    \A k \in Keys : (entry[k] # None /\ entry'[k] = None /\ ~closing) =>
        refs[entry[k]] = 0 /\ ~(usage[k].plays = 2 /\ usage[k].fresh)

LEMMA NothingEvicted ==
    ASSUME entry' = entry PROVE DemandKept
BY DEF DemandKept

LEMMA WorkersKeepDemand ==
    ASSUME SoundInv, NEW w \in Workers, WorkerStep(w) PROVE DemandKept
<1>0. entry \in [Keys -> Blocks \union {None}]
  BY TypesOfAll DEF SoundInv
<1>1. CASE Reserve(w)
  <2>1. CASE ReserveFails(w) \/ ReserveFits(w)
    BY <2>1, NothingEvicted DEF ReserveFails, ReserveFits, assetVars
  <2>2. CASE DetachOne(w)
    <3>1. PICK j \in Keys : Evictable(j) /\ entry' = [entry EXCEPT ![j] = None]
      BY <2>2 DEF DetachOne
    <3> QED
      BY <1>0, <3>1 DEF DemandKept, Evictable
  <2> QED
    BY <1>1, <2>1, <2>2 DEF Reserve
<1>2. CASE Finish(w)
  <2>1. CASE UNCHANGED entry
    BY <2>1, NothingEvicted
  <2>2. CASE /\ Admits(worker[w].key)
             /\ entry' = [entry EXCEPT ![worker[w].key] = worker[w].block]
    <3>1. entry[worker[w].key] = None
      BY <2>2 DEF Admits
    <3> QED
      BY <1>0, <2>2, <3>1 DEF DemandKept
  <2> QED
    BY <1>2, <2>1, <2>2 DEF Finish
<1>3. CASE \/ Take(w) \/ Open(w) \/ Reclaim(w) \/ Allocate(w) \/ Decode(w) \/ Abandon(w)
           \/ Discard(w) \/ Exit(w)
  <2>1. entry' = entry
    BY <1>3 DEF Take, Open, Reclaim, Allocate, Decode, Abandon, Discard, Exit, assetVars
  <2> QED
    BY <2>1, NothingEvicted
<1> QED
  BY <1>1, <1>2, <1>3 DEF WorkerStep

LEMMA PlayerKeepsDemand ==
    ASSUME SoundInv, PlayerStep PROVE DemandKept
<1>0. entry \in [Keys -> Blocks \union {None}]
  BY TypesOfAll DEF SoundInv
<1>1. CASE SegmentEnds
  <2>1. CASE UNCHANGED entry
    BY <2>1, NothingEvicted
  <2>2. CASE /\ Admits(Current.key)
             /\ entry' = [entry EXCEPT ![Current.key] = Current.capture.block]
    <3>1. entry[Current.key] = None
      BY <2>2 DEF Admits
    <3> QED
      BY <1>0, <2>2, <3>1 DEF DemandKept
  <2> QED
    BY <1>1, <2>1, <2>2 DEF SegmentEnds, Commit, assetVars
<1>2. CASE FreeEntries
  <2>1. player.at = "waiting"
    BY <1>2 DEF FreeEntries, At
  <2>2. closing
    BY <2>1, ThreadKnown
  <2> QED
    BY <2>2 DEF DemandKept
<1>3. CASE \/ BeginCapture \/ FreeTrash \/ AppendBuffer \/ Grow \/ Filled \/ Restart
           \/ Reacquire \/ Schedule \/ CloseCache
  <2>1. entry' = entry
    BY <1>3 DEF BeginCapture, FreeTrash, AppendBuffer, Grow, Filled, Restart, Reacquire,
       Schedule, CloseCache, assetVars
  <2> QED
    BY <2>1, NothingEvicted
<1> QED
  BY <1>1, <1>2, <1>3 DEF PlayerStep

(* While the cache is open only an asset that nobody leases and that is not *)
(* in demand is dropped (detachOneLocked and its conditions,                *)
(* cache_budget.go), whatever else is built, committed and played.          *)
THEOREM DemandCorrect == Spec => DemandIsKept
<1>1. ASSUME SoundInv, [Next]_vars PROVE [DemandKept]_vars
  <2>1. CASE \E w \in Workers : WorkerStep(w)
    BY <1>1, <2>1, WorkersKeepDemand
  <2>2. CASE PlayerStep
    BY <1>1, <2>2, PlayerKeepsDemand
  <2>3. CASE UNCHANGED vars
    BY <2>3
  <2>4. CASE \/ Shutdown \/ Closed
             \/ \E p \in Playbacks : Refill(p) \/ Close(p)
             \/ \E p \in Playbacks, k \in Keys, loop \in BOOLEAN : Observe(p, k, loop)
             \/ \E k \in Keys : TimePasses(k)
    <3>1. entry' = entry
      BY <2>4 DEF Shutdown, Closed, Refill, Close, Observe, TimePasses, vars, assetVars
    <3> QED
      BY <3>1, NothingEvicted
  <2> QED
    BY <1>1, <2>1, <2>2, <2>3, <2>4 DEF Next
<1>2. SoundInv /\ [Next]_vars => [DemandKept]_vars
  BY <1>1
<1>3. Spec => [][DemandKept]_vars
  BY <1>2, InitSound, StepKeepsSound, PTL DEF Spec
<1> QED
  BY <1>3 DEF DemandIsKept, DemandKept
=============================================================================
