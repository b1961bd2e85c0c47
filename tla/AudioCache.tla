------------------------------ MODULE AudioCache ------------------------------
(***************************************************************************)
(* The audio cache of the SimpleAudio runtime (internal/player of          *)
(* native/darktide-simple-audio-runtime).                                  *)
(*                                                                         *)
(* One player thread executes the commands: it opens playbacks, refills    *)
(* their voices and closes them.  A playback of a file whose decoded audio *)
(* is cached holds a lease on the asset; one that decodes the file may     *)
(* capture what it decodes and commit it to the cache.  Files that are     *)
(* played often, or in a loop, are decoded by build workers, which reserve *)
(* the memory they need and evict assets nobody leases to get it.          *)
(*                                                                         *)
(* Every critical section of audioCache.mu is one step, and so is every    *)
(* allocation.  Freeing is joined to the critical section before or after  *)
(* it where nobody can tell; a block that leaves the books before it is    *)
(* freed is freed in a step of its own.  Memory is counted in decoder      *)
(* buffers, time as whether cacheRetention has passed since some moment,   *)
(* and the victim of an eviction is any asset that may be evicted.         *)
(***************************************************************************)
EXTENDS Integers, Sequences, FiniteSetsExt

CONSTANTS
    PcmKeys,        \* what may be played from final PCM
    RawKeys,        \* files played through a filter, cached before it
    Size,           \* [PcmKeys \union RawKeys -> Nat \ {0}], when decoded
    MaxBytes,       \* maxBytes
    Workers,        \* the build workers
    Playbacks,      \* the playbacks there may be at once
    QueueCapacity,  \* cacheBuildQueueCapacity
    Blocks,         \* the addresses of the allocator
    None

Keys == PcmKeys \union RawKeys

ASSUME KeyAssumption == PcmKeys \intersect RawKeys = {} /\ None \notin Keys

ASSUME SizeAssumption == Size \in [Keys -> Nat \ {0}] /\ MaxBytes \in Nat

ASSUME NoneAssumption == None \notin Workers \union Playbacks \union Blocks

ASSUME CapacityAssumption == QueueCapacity \in Nat

ASSUME BlockAssumption == Blocks \subseteq Nat

(* The process has at least one build worker, and finitely many files.      *)
ASSUME FiniteAssumption ==
    /\ IsFiniteSet(Keys) /\ IsFiniteSet(Workers) /\ IsFiniteSet(Playbacks)
    /\ Workers # {}

VARIABLES
    size,       \* of each block, 0 when it is not allocated
    entry,      \* entries and rawEntries: the block of each cached key
    refs,       \* refs of the asset in each block
    usage,      \* usage and rawUsage
    building,   \* building and rawBuilding
    capturing,
    queue,      \* buildJobs
    closing,
    resident, reserved, reclaiming,  \* the byte counts of the same names
    evictor,    \* the worker that holds evictionMu
    worker,     \* where each worker is, with its locals
    playback,   \* activeFiles
    player      \* where the player thread is, with its locals

assetVars == <<size, entry, refs>>
bookVars == <<resident, reserved, reclaiming>>
jobVars == <<building, queue, closing>>
workerVars == <<evictor, worker>>
playerVars == <<playback, player>>
vars == <<assetVars, usage, capturing, jobVars, bookVars, workerVars, playerVars>>

-----------------------------------------------------------------------------
(* cacheUsage; only whether plays reaches 2 matters.  fresh: cacheRetention *)
(* has not passed since lastPlay, backoff: retryAfter has not come.         *)
NoUsage == [plays |-> 0, fresh |-> FALSE, tooLarge |-> FALSE, backoff |-> FALSE]

Used(k) == usage[k].plays > 0

Observed(u) ==
    [u EXCEPT !.plays = IF u.fresh /\ u.plays > 0 THEN 2 ELSE 1, !.fresh = TRUE]

Stale(k) == /\ ~usage[k].fresh /\ entry[k] = None
            /\ k \notin building \union capturing

(* pruneUsageLocked, which does something once per cacheRetention.          *)
Pruned == [k \in Keys |-> IF Stale(k) THEN NoUsage ELSE usage[k]]

UsedBytes == resident + reserved + reclaiming

(* Mutant: what others have reserved does not count.                        *)
FitsBeside(n) == resident + reclaiming + n <= MaxBytes

Fits(n) == UsedBytes + n <= MaxBytes

(* Mutant: demand does not protect an asset.                                *)
EvictsPopular(k) == entry[k] # None /\ refs[entry[k]] = 0

Evictable(k) == /\ entry[k] # None /\ refs[entry[k]] = 0
                /\ ~(usage[k].plays = 2 /\ usage[k].fresh)

Doubled(n) == IF 2 * n > MaxBytes THEN MaxBytes ELSE 2 * n

(* Which address the allocator returns makes no difference: the lowest.     *)
FreeBlock(b) == size[b] = 0 /\ \A a \in Blocks : size[a] = 0 => b <= a

-----------------------------------------------------------------------------
(* Build workers.                                                           *)
Resting == [pc |-> "idle", key |-> None, want |-> 0, res |-> 0, block |-> None,
            victim |-> None, outcome |-> "ok"]

MoveTo(w, pc) == worker' = [worker EXCEPT ![w].pc = pc]

(* The build ends with an error; PCM that was decoded is freed first.       *)
GiveUp(w, outcome) ==
    worker' = [worker EXCEPT ![w].outcome = outcome, ![w].want = 0,
        ![w].pc = IF worker[w].block = None THEN "finish" ELSE "abandon"]

(* Mutant: the jobs that are left are not taken once the cache closes.      *)
TakesWhileOpen(w) ==
    /\ worker[w].pc = "idle" /\ queue # <<>> /\ ~closing
    /\ queue' = Tail(queue)
    /\ worker' = [worker EXCEPT ![w] =
           [Resting EXCEPT !.key = Head(queue), !.pc = "open"]]
    /\ UNCHANGED <<assetVars, usage, capturing, building, closing, bookVars,
                   evictor, playerVars>>

(* A worker takes a job and registers its cancel token.                     *)
Take(w) ==
    /\ worker[w].pc = "idle" /\ queue # <<>>
    /\ queue' = Tail(queue)
    /\ worker' = [worker EXCEPT ![w] =
           [Resting EXCEPT !.key = Head(queue),
                           !.outcome = IF closing THEN "closing" ELSE "ok",
                           !.pc = IF closing THEN "finish" ELSE "open"]]
    /\ UNCHANGED <<assetVars, usage, capturing, building, closing, bookVars,
                   evictor, playerVars>>

(* The file is opened and the memory it will need is estimated.             *)
Open(w) ==
    /\ worker[w].pc = "open"
    /\ \/ \E n \in 1 .. MaxBytes :
              worker' = [worker EXCEPT ![w].want = n, ![w].pc = "reserve"]
       \/ GiveUp(w, "failed")
       \/ closing /\ GiveUp(w, "closing")
    /\ UNCHANGED <<assetVars, usage, capturing, jobVars, bookVars, evictor,
                   playerVars>>

(* One round of the loop of reserveWithEviction.  Raw audio is decoded into *)
(* the reservation at once, PCM into a buffer that has to be allocated.     *)
ReserveFails(w) ==
    /\ closing \/ (~Fits(worker[w].want) /\ \A k \in Keys : ~Evictable(k))
    /\ GiveUp(w, "budget")
    /\ evictor' = None
    /\ UNCHANGED <<assetVars, bookVars>>

ReserveFits(w) ==
    /\ ~closing /\ Fits(worker[w].want)
    /\ reserved' = reserved + worker[w].want
    /\ worker' = IF worker[w].key \in RawKeys
                 THEN [worker EXCEPT ![w].res = worker[w].want, ![w].pc = "decode"]
                 ELSE [worker EXCEPT ![w].pc = "allocate"]
    /\ evictor' = None
    /\ UNCHANGED <<assetVars, resident, reclaiming>>

DetachOne(w) ==
    /\ ~closing /\ ~Fits(worker[w].want)
    /\ \E k \in Keys :
          /\ Evictable(k)
          /\ entry' = [entry EXCEPT ![k] = None]
          /\ resident' = resident - size[entry[k]]
          /\ reclaiming' = reclaiming + size[entry[k]]
          /\ worker' = [worker EXCEPT ![w].victim = entry[k], ![w].pc = "reclaim"]
    /\ evictor' = w
    /\ UNCHANGED <<size, refs, reserved>>

Reserve(w) ==
    /\ worker[w].pc = "reserve" /\ evictor \in {None, w}
    /\ ReserveFails(w) \/ ReserveFits(w) \/ DetachOne(w)
    /\ UNCHANGED <<usage, capturing, jobVars, playerVars>>

(* The victim is freed, then no longer counted.                             *)
Reclaim(w) ==
    /\ worker[w].pc = "reclaim"
    /\ size' = [size EXCEPT ![worker[w].victim] = 0]
    /\ reclaiming' = reclaiming - size[worker[w].victim]
    /\ worker' = [worker EXCEPT ![w].victim = None, ![w].pc = "reserve"]
    /\ UNCHANGED <<entry, refs, usage, capturing, jobVars, resident, reserved,
                   evictor, playerVars>>

(* The decode buffer is allocated or grown to what is reserved.             *)
Allocated(w) ==
    /\ IF worker[w].block = None
       THEN \E b \in Blocks :
               /\ FreeBlock(b)
               /\ size' = [size EXCEPT ![b] = worker[w].want]
               /\ worker' = [worker EXCEPT ![w].block = b, ![w].want = 0,
                                ![w].res = worker[w].want, ![w].pc = "decode"]
       ELSE /\ size' = [size EXCEPT ![worker[w].block] = @ + worker[w].want]
            /\ worker' = [worker EXCEPT ![w].want = 0, ![w].pc = "decode",
                             ![w].res = @ + worker[w].want]
    /\ UNCHANGED reserved

AllocationFails(w) ==
    /\ reserved' = reserved - worker[w].want
    /\ GiveUp(w, "failed")
    /\ UNCHANGED size

Allocate(w) ==
    /\ worker[w].pc = "allocate"
    /\ Allocated(w) \/ AllocationFails(w)
    /\ UNCHANGED <<entry, refs, usage, capturing, jobVars, resident, reclaiming,
                   evictor, playerVars>>

(* decodePCMBuffer: the buffer grows while it is full and the file goes on. *)
DecodePcm(w) ==
    LET s == Size[worker[w].key]
        have == worker[w].res
    IN  /\ \/ /\ s <= have
              /\ size' = [size EXCEPT ![worker[w].block] = s]
              /\ MoveTo(w, "finish")
           \/ /\ have <= s /\ have < MaxBytes
              /\ worker' = [worker EXCEPT ![w].want = Doubled(have) - have,
                                          ![w].pc = "reserve"]
              /\ UNCHANGED size
           \/ have = MaxBytes /\ s > have /\ GiveUp(w, "tooLarge") /\ UNCHANGED size
           \/ GiveUp(w, "failed") /\ UNCHANGED size
           \/ closing /\ GiveUp(w, "closing") /\ UNCHANGED size
        /\ UNCHANGED reserved

(* The loop of buildRaw: too small a reservation is released and doubled.   *)
DecodeRaw(w) ==
    LET s == Size[worker[w].key]
        have == worker[w].res
    IN  \/ /\ s <= have
           /\ \E b \in Blocks :
                 /\ FreeBlock(b)
                 /\ size' = [size EXCEPT ![b] = s]
                 /\ worker' = [worker EXCEPT ![w].block = b, ![w].pc = "finish"]
           /\ UNCHANGED reserved
        \/ /\ s > have /\ have < MaxBytes
           /\ reserved' = reserved - have
           /\ worker' = [worker EXCEPT ![w].want = Doubled(have), ![w].res = 0,
                                       ![w].pc = "reserve"]
           /\ UNCHANGED size
        \/ have = MaxBytes /\ s > have /\ GiveUp(w, "tooLarge")
           /\ UNCHANGED <<size, reserved>>
        \/ GiveUp(w, "failed") /\ UNCHANGED <<size, reserved>>

Decode(w) ==
    /\ worker[w].pc = "decode"
    /\ \/ worker[w].key \in PcmKeys /\ DecodePcm(w)
       \/ worker[w].key \in RawKeys /\ DecodeRaw(w)
    /\ UNCHANGED <<entry, refs, usage, capturing, jobVars, resident, reclaiming,
                   evictor, playerVars>>

(* decodePCMAsset failed: its deferred function frees and releases.         *)
Abandon(w) ==
    /\ worker[w].pc = "abandon"
    /\ size' = [size EXCEPT ![worker[w].block] = 0]
    /\ reserved' = reserved - worker[w].res
    /\ worker' = [worker EXCEPT ![w].block = None, ![w].res = 0, ![w].pc = "finish"]
    /\ UNCHANGED <<entry, refs, usage, capturing, jobVars, resident, reclaiming,
                   evictor, playerVars>>

(* An asset is committed unless the cache closes or already has the key.    *)
Admits(k) == ~closing /\ entry[k] = None

UsageAfterBuild(k, outcome) ==
    [usage EXCEPT ![k].tooLarge = @ \/ outcome = "tooLarge",
                  ![k].backoff = @ \/ (/\ outcome = "failed" /\ Admits(k)
                                       /\ ~usage[k].tooLarge)]

(* The end of buildPCM and finishRawBuild; the worker is free for another   *)
(* job unless it has to free an asset that was not admitted.                *)
Finish(w) ==
    LET k == worker[w].key
        admitted == worker[w].outcome = "ok" /\ Admits(k)
    IN  /\ worker[w].pc = "finish"
        /\ building' = building \ {k}
        /\ usage' = UsageAfterBuild(k, worker[w].outcome)
        /\ reserved' = reserved - worker[w].res
        /\ IF admitted
           THEN /\ entry' = [entry EXCEPT ![k] = worker[w].block]
                /\ refs' = [refs EXCEPT ![worker[w].block] = 0]
                /\ resident' = resident + Size[k]
           ELSE UNCHANGED <<entry, refs, resident>>
        /\ worker' = [worker EXCEPT ![w] =
               IF admitted \/ worker[w].block = None THEN Resting
               ELSE [Resting EXCEPT !.pc = "discard", !.block = worker[w].block]]
    /\ UNCHANGED <<size, capturing, queue, closing, reclaiming, evictor, playerVars>>

Discard(w) ==
    /\ worker[w].pc = "discard"
    /\ size' = [size EXCEPT ![worker[w].block] = 0]
    /\ worker' = [worker EXCEPT ![w] = Resting]
    /\ UNCHANGED <<entry, refs, usage, capturing, jobVars, bookVars, evictor,
                   playerVars>>

(* runBuildWorker returns when the channel is closed and drained.           *)
Exit(w) ==
    /\ worker[w].pc = "idle" /\ closing /\ queue = <<>>
    /\ MoveTo(w, "exited")
    /\ UNCHANGED <<assetVars, usage, capturing, jobVars, bookVars, evictor,
                   playerVars>>

WorkerStep(w) == Take(w) \/ Open(w) \/ Reserve(w) \/ Reclaim(w) \/ Allocate(w)
                 \/ Decode(w) \/ Abandon(w) \/ Finish(w) \/ Discard(w) \/ Exit(w)

-----------------------------------------------------------------------------
(* The player thread.                                                       *)
NoCapture == [block |-> None, bytes |-> 0, cap |-> 0, on |-> FALSE]

NoPlayback == [key |-> None, loop |-> FALSE, direct |-> FALSE, lease |-> None,
               capture |-> NoCapture]

Ready == [at |-> "ready", p |-> None, creating |-> FALSE, minimum |-> 0,
          want |-> 0, trash |-> None]

(* Where the thread is; trash is a block it is about to free.               *)
At(place) == player.at = place /\ player.trash = None

Current == playback[player.p]

Capturing(p) == playback[p].capture.on

LeaseTo(p, b) == playback' = [playback EXCEPT ![p].lease = b]

(* newFilePlayback up to the cache: a hit is leased, and a hit of the final *)
(* PCM is played from there.                                                *)
Observe(p, k, loop) ==
    /\ At("ready") /\ playback[p].key = None
    /\ \E prunes \in BOOLEAN :
          usage' = [IF prunes THEN Pruned ELSE usage EXCEPT ![k] = Observed(@)]
    /\ LET hit == entry[k] # None
           direct == hit /\ k \in PcmKeys
       IN  /\ playback' = [playback EXCEPT ![p] =
                  [key |-> k, loop |-> loop /\ ~direct, direct |-> direct,
                   lease |-> entry[k], capture |-> NoCapture]]
           /\ refs' = IF hit THEN [refs EXCEPT ![entry[k]] = @ + 1] ELSE refs
           /\ player' = IF direct THEN Ready
                        ELSE [Ready EXCEPT !.at = "open", !.p = p, !.creating = TRUE,
                                           !.minimum = IF loop THEN 2 ELSE 0]
    /\ UNCHANGED <<size, entry, capturing, jobVars, bookVars, workerVars>>

MayCapture(k) ==
    /\ k \in PcmKeys /\ ~closing /\ MaxBytes > 0
    /\ Used(k) /\ ~usage[k].tooLarge /\ ~usage[k].backoff
    /\ entry[k] = None /\ k \notin building \union capturing

(* The decoder is open; what it decodes may be captured.                    *)
BeginCapture ==
    /\ At("open")
    /\ IF MayCapture(Current.key)
       THEN /\ capturing' = capturing \union {Current.key}
            /\ playback' = [playback EXCEPT ![player.p].capture.on = TRUE]
       ELSE UNCHANGED <<capturing, playback>>
    /\ player' = [player EXCEPT !.at = "fill"]
    /\ UNCHANGED <<assetVars, usage, jobVars, bookVars, workerVars>>

(* abort backs off unless the capture was superseded or the budget was full. *)
UsageAfterAbort(k, error) ==
    [usage EXCEPT
       ![k].tooLarge = @ \/ (error = "tooLarge" /\ Used(k) /\ entry[k] = None),
       ![k].backoff = @ \/ (/\ error = "failed" /\ Used(k) /\ entry[k] = None
                            /\ k \notin building)]

(* Mutant: the block of the capture is not freed.                           *)
AbortLeaks(p, error, unused, at) ==
    LET c == playback[p].capture IN
    /\ capturing' = capturing \ {playback[p].key}
    /\ reserved' = reserved - c.cap - unused
    /\ usage' = UsageAfterAbort(playback[p].key, error)
    /\ playback' = [playback EXCEPT ![p].capture = NoCapture]
    /\ player' = [player EXCEPT !.at = at, !.want = 0]

(* abort of a capture: its block is freed after the lock is released.       *)
Abort(p, error, unused, at) ==
    LET c == playback[p].capture IN
    /\ capturing' = capturing \ {playback[p].key}
    /\ reserved' = reserved - c.cap - unused
    /\ usage' = UsageAfterAbort(playback[p].key, error)
    /\ playback' = [playback EXCEPT ![p].capture = NoCapture]
    /\ player' = [player EXCEPT !.at = at, !.want = 0, !.trash = c.block]

FreeTrash ==
    /\ player.trash # None
    /\ size' = [size EXCEPT ![player.trash] = 0]
    /\ player' = [player EXCEPT !.trash = None]
    /\ UNCHANGED <<entry, refs, usage, capturing, jobVars, bookVars, workerVars,
                   playback>>

(* The growth of append, doubling from one buffer up to the budget.         *)
GrownFor(c) == IF c.cap = 0 THEN 1 ELSE Doubled(c.cap)

(* One more buffer is decoded and appended to the capture.                  *)
AppendBuffer ==
    LET c == Current.capture
        need == GrownFor(c) - c.cap
    IN  /\ At("fill") /\ c.on /\ c.bytes < Size[Current.key]
        /\ IF c.bytes + 1 > MaxBytes
           THEN Abort(player.p, "tooLarge", 0, "fill")
           ELSE IF c.bytes + 1 <= c.cap
           THEN /\ playback' = [playback EXCEPT ![player.p].capture.bytes = @ + 1]
                /\ UNCHANGED <<usage, capturing, reserved, player>>
           ELSE IF closing \/ ~Fits(need)
           THEN Abort(player.p, "budget", 0, "fill")
           ELSE /\ reserved' = reserved + need
                /\ player' = [player EXCEPT !.at = "grow", !.want = need]
                /\ UNCHANGED <<usage, capturing, playback>>
        /\ UNCHANGED <<assetVars, jobVars, resident, reclaiming, workerVars>>

(* The capture's block is reallocated, and the buffer copied, or it fails.  *)
Grow ==
    LET c == Current.capture
        cap == c.cap + player.want
    IN  /\ At("grow")
        /\ \/ \E b \in Blocks :
                 /\ IF c.block = None THEN FreeBlock(b) ELSE b = c.block
                 /\ size' = [size EXCEPT ![b] = cap]
                 /\ playback' = [playback EXCEPT ![player.p].capture =
                        [c EXCEPT !.block = b, !.cap = cap, !.bytes = @ + 1]]
                 /\ player' = [player EXCEPT !.at = "fill", !.want = 0]
                 /\ UNCHANGED <<usage, capturing, reserved>>
           \/ Abort(player.p, "failed", player.want, "fill") /\ UNCHANGED size
        /\ UNCHANGED <<entry, refs, jobVars, resident, reclaiming, workerVars>>

(* Where the thread goes when the queue of the voice is full.               *)
Leaves == IF player.creating THEN [player EXCEPT !.at = "schedule"] ELSE Ready

Filled ==
    /\ At("fill") /\ player' = Leaves
    /\ UNCHANGED <<assetVars, usage, capturing, jobVars, bookVars, workerVars,
                   playback>>

Onwards == IF Current.loop THEN [player EXCEPT !.at = "restart"] ELSE Leaves

(* The file was played to its end: the capture is committed, or it cannot   *)
(* be made to fit and is aborted.                                           *)
Commit ==
    LET c == Current.capture
        k == Current.key
    IN  /\ capturing' = capturing \ {k}
        /\ reserved' = reserved - c.cap
        /\ size' = [size EXCEPT ![c.block] = c.bytes]
        /\ IF Admits(k)
           THEN /\ entry' = [entry EXCEPT ![k] = c.block]
                /\ refs' = [refs EXCEPT ![c.block] = 0]
                /\ resident' = resident + c.bytes
                /\ player' = Onwards
           ELSE /\ UNCHANGED <<entry, refs, resident>>
                /\ player' = [Onwards EXCEPT !.trash = c.block]
        /\ playback' = [playback EXCEPT ![player.p].capture = NoCapture]
        /\ UNCHANGED usage

SegmentEnds ==
    /\ At("fill")
    /\ IF Capturing(player.p)
       THEN /\ Current.capture.bytes = Size[Current.key]
            /\ \/ Commit
               \/ /\ Current.capture.bytes < Current.capture.cap
                  /\ Abort(player.p, "failed", 0, Onwards.at)
                  /\ UNCHANGED <<assetVars, resident>>
       ELSE /\ player' = Onwards
            /\ UNCHANGED <<assetVars, usage, capturing, resident, reserved, playback>>
    /\ UNCHANGED <<jobVars, reclaiming, workerVars>>

(* release of a lease: the asset is freed if the cache has given it up.     *)
Release(p, at) ==
    LET b == playback[p].lease
        frees == b # None /\ refs[b] = 1 /\ entry[playback[p].key] # b
    IN  /\ refs' = IF b = None THEN refs ELSE [refs EXCEPT ![b] = @ - 1]
        /\ player' = [at EXCEPT !.trash = IF frees THEN b ELSE None]

(* restart closes the decoder, which releases the lease of a decoder that   *)
(* reads from memory; the loop being started may be the last.               *)
Restart ==
    /\ At("restart")
    /\ IF Current.key \in PcmKeys
       THEN Release(player.p, [player EXCEPT !.at = "reacquire"])
       ELSE refs' = refs /\ player' = [player EXCEPT !.at = "reacquire"]
    /\ \E again \in BOOLEAN : playback' = [playback EXCEPT ![player.p] =
           [Current EXCEPT !.loop = again,
                           !.lease = IF Current.key \in PcmKeys THEN None ELSE @]]
    /\ UNCHANGED <<size, entry, usage, capturing, jobVars, bookVars, workerVars>>

(* acquirePCM and acquireRaw; a raw lease is kept over the restart.         *)
Reacquire ==
    LET k == Current.key
        hit == entry[k] # None
    IN  /\ At("reacquire")
        /\ IF Current.lease # None
           THEN /\ player' = [player EXCEPT !.at = "fill"]
                /\ UNCHANGED <<refs, usage, playback>>
           ELSE /\ usage' = [usage EXCEPT ![k].fresh = Used(k)]
                /\ refs' = IF hit THEN [refs EXCEPT ![entry[k]] = @ + 1] ELSE refs
                /\ LeaseTo(player.p, entry[k])
                /\ player' = [player EXCEPT !.at = IF hit THEN "fill" ELSE "reschedule"]
    /\ UNCHANGED <<size, entry, capturing, jobVars, bookVars, workerVars>>

(* schedulePCMBuildWithMinimumUsage and scheduleRawBuildWithMinimumUsage.   *)
ShouldBuild(k, u) ==
    /\ entry[k] = None /\ k \notin capturing \union building
    /\ MaxBytes > 0 /\ u.plays = 2 /\ ~u.tooLarge /\ ~u.backoff /\ ~closing

Enqueue(k) ==
    IF Len(queue) < QueueCapacity
    THEN building' = building \union {k} /\ queue' = queue \o <<k>>
    ELSE UNCHANGED <<building, queue>>

Schedule ==
    LET k == Current.key
        minimum == IF player.at = "schedule" THEN player.minimum ELSE 2
        u == IF Used(k) /\ usage[k].plays < minimum
             THEN [usage[k] EXCEPT !.plays = minimum, !.fresh = TRUE] ELSE usage[k]
    IN  /\ At("schedule") \/ At("reschedule")
        /\ usage' = [usage EXCEPT ![k] = u]
        /\ IF ShouldBuild(k, u) THEN Enqueue(k) ELSE UNCHANGED <<building, queue>>
        /\ player' = IF player.at = "schedule" THEN Ready
                     ELSE [player EXCEPT !.at = "fill"]
        /\ UNCHANGED <<assetVars, capturing, closing, bookVars, workerVars, playback>>

(* fillTo of a playback that decodes; a capture of what the cache has got   *)
(* meanwhile is given up.                                                   *)
Refill(p) ==
    /\ At("ready") /\ playback[p].key # None /\ ~playback[p].direct
    /\ IF Capturing(p) /\ ~Admits(playback[p].key)
       THEN /\ capturing' = capturing \ {playback[p].key}
            /\ reserved' = reserved - playback[p].capture.cap
            /\ playback' = [playback EXCEPT ![p].capture = NoCapture]
            /\ player' = [Ready EXCEPT !.at = "fill", !.p = p,
                                       !.trash = playback[p].capture.block]
       ELSE /\ player' = [Ready EXCEPT !.at = "fill", !.p = p]
            /\ UNCHANGED <<capturing, reserved, playback>>
    /\ UNCHANGED <<assetVars, usage, jobVars, resident, reclaiming, workerVars>>

(* close of a playback that was stopped, has ended, or met an error on the  *)
(* way.                                                                     *)
MayClose(p) ==
    /\ playback[p].key # None
    /\ \/ At("ready") \/ At("stopping")
       \/ player.p = p /\ (At("open") \/ At("fill") \/ At("reacquire"))

Close(p) ==
    LET c == playback[p].capture
        next == IF player.at = "stopping" THEN player ELSE Ready
    IN  /\ MayClose(p)
        /\ IF c.on
           THEN /\ capturing' = capturing \ {playback[p].key}
                /\ reserved' = reserved - c.cap
                /\ player' = [next EXCEPT !.trash = c.block]
                /\ UNCHANGED refs
           ELSE Release(p, next) /\ UNCHANGED <<capturing, reserved>>
        /\ playback' = [playback EXCEPT ![p] = NoPlayback]
        /\ UNCHANGED <<size, entry, usage, jobVars, resident, reclaiming, workerVars>>

(* commandShutdown closes the playbacks, and the deferred close the cache.  *)
Shutdown ==
    /\ At("ready")
    /\ player' = [Ready EXCEPT !.at = "stopping"]
    /\ UNCHANGED <<assetVars, usage, capturing, jobVars, bookVars, workerVars,
                   playback>>

CloseCache ==
    /\ At("stopping") /\ \A p \in Playbacks : playback[p].key = None
    /\ closing' = TRUE
    /\ player' = [player EXCEPT !.at = "waiting"]
    /\ UNCHANGED <<assetVars, usage, capturing, building, queue, bookVars,
                   workerVars, playback>>

(* close, when the workers have returned.                                   *)
FreeEntries ==
    /\ At("waiting") /\ \A w \in Workers : worker[w].pc = "exited"
    /\ entry' = [k \in Keys |-> None]
    /\ size' = [b \in Blocks |->
          IF \E k \in Keys : entry[k] = b /\ refs[b] = 0 THEN 0 ELSE size[b]]
    /\ resident' = 0
    /\ player' = [player EXCEPT !.at = "closed"]
    /\ UNCHANGED <<refs, usage, capturing, jobVars, reserved, reclaiming,
                   workerVars, playback>>

PlayerStep == BeginCapture \/ FreeTrash \/ AppendBuffer \/ Grow \/ Filled \/ SegmentEnds
              \/ Restart \/ Reacquire \/ Schedule \/ CloseCache \/ FreeEntries

(* cacheRetention passes.                                                   *)
TimePasses(k) ==
    /\ ~closing
    /\ \/ usage[k].fresh /\ usage' = [usage EXCEPT ![k].fresh = FALSE]
       \/ usage[k].backoff /\ usage' = [usage EXCEPT ![k].backoff = FALSE]
    /\ UNCHANGED <<assetVars, capturing, jobVars, bookVars, workerVars, playerVars>>

(* The thread has returned and the process is about to end.                 *)
Closed == At("closed") /\ UNCHANGED vars

Init ==
    /\ size = [b \in Blocks |-> 0] /\ refs = [b \in Blocks |-> 0]
    /\ entry = [k \in Keys |-> None] /\ usage = [k \in Keys |-> NoUsage]
    /\ building = {} /\ capturing = {} /\ queue = <<>> /\ closing = FALSE
    /\ resident = 0 /\ reserved = 0 /\ reclaiming = 0
    /\ evictor = None /\ worker = [w \in Workers |-> Resting]
    /\ playback = [p \in Playbacks |-> NoPlayback] /\ player = Ready

Next ==
    \/ \E w \in Workers : WorkerStep(w)
    \/ PlayerStep \/ Shutdown \/ Closed
    \/ \E p \in Playbacks : Refill(p) \/ Close(p)
    \/ \E p \in Playbacks, k \in Keys, loop \in BOOLEAN : Observe(p, k, loop)
    \/ \E k \in Keys : TimePasses(k)

Spec == Init /\ [][Next]_vars

(* The scheduler runs every goroutine, and a mutex that is waited for is    *)
(* handed over; the player thread runs too, whatever it is asked to do.     *)
FairSpec ==
    /\ Spec
    /\ \A w \in Workers : WF_vars(WorkerStep(w)) /\ SF_vars(Reserve(w))
    /\ WF_vars(PlayerStep)
    /\ \A p \in Playbacks : WF_vars(player.at = "stopping" /\ Close(p))

-----------------------------------------------------------------------------
WorkerPlaces == {"idle", "open", "reserve", "reclaim", "allocate", "decode",
                 "abandon", "finish", "discard", "exited"}
PlayerPlaces == {"ready", "open", "fill", "grow", "schedule", "restart",
                 "reacquire", "reschedule", "stopping", "waiting", "closed"}

(* The state is well formed; no count is negative, and no lease is          *)
(* released twice.                                                          *)
TypeOK ==
    /\ size \in [Blocks -> 0 .. MaxBytes] /\ refs \in [Blocks -> Nat]
    /\ entry \in [Keys -> Blocks \union {None}]
    /\ usage \in [Keys -> [plays : 0 .. 2, fresh : BOOLEAN, tooLarge : BOOLEAN,
                           backoff : BOOLEAN]]
    /\ building \subseteq Keys /\ capturing \subseteq PcmKeys
    /\ queue \in Seq(Keys) /\ closing \in BOOLEAN
    /\ resident \in Nat /\ reserved \in Nat /\ reclaiming \in Nat
    /\ evictor \in Workers \union {None}
    /\ worker \in [Workers -> [pc : WorkerPlaces, key : Keys \union {None},
           want : 0 .. MaxBytes, res : 0 .. MaxBytes, block : Blocks \union {None},
           victim : Blocks \union {None},
           outcome : {"ok", "failed", "budget", "closing", "tooLarge"}]]
    /\ playback \in [Playbacks -> [key : Keys \union {None}, loop : BOOLEAN,
           direct : BOOLEAN, lease : Blocks \union {None},
           capture : [block : Blocks \union {None}, bytes : 0 .. MaxBytes,
                      cap : 0 .. MaxBytes, on : BOOLEAN]]]
    /\ player \in [at : PlayerPlaces, p : Playbacks \union {None}, creating : BOOLEAN,
           minimum : {0, 2}, want : 0 .. MaxBytes, trash : Blocks \union {None}]

(* The budget: until the cache is closed, what is resident, reserved and    *)
(* being reclaimed together never exceeds maxBytes, whoever reserves, grows *)
(* and evicts at the same time (tryReserve, reserveWithEviction).           *)
BudgetHolds == player.at # "closed" => UsedBytes <= MaxBytes

SizeOf(b) == IF b = None THEN 0 ELSE size[b]

Reserves(r) == r.res + (IF r.pc = "allocate" THEN r.want ELSE 0)

(* The three counts are what they stand for: the assets in the cache, the   *)
(* reservations of builds and captures, the victims being freed.  A path    *)
(* that forgets one of them shrinks the cache until it restarts.            *)
BooksBalance ==
    /\ resident = SumFunction([k \in Keys |-> SizeOf(entry[k])])
    /\ reserved = SumFunction([w \in Workers |-> Reserves(worker[w])])
                  + SumFunction([p \in Playbacks |-> playback[p].capture.cap])
                  + player.want
    /\ reclaiming = SumFunction([w \in Workers |-> SizeOf(worker[w].victim)])

Leases(b) == {p \in Playbacks : playback[p].lease = b}

(* What a playback leases is allocated and is the asset of its key, however *)
(* much is evicted meanwhile, and refs counts the leases of an asset.       *)
LeasedStaysAllocated ==
    /\ \A p \in Playbacks : playback[p].lease # None =>
          /\ size[playback[p].lease] > 0
          /\ entry[playback[p].key] = playback[p].lease
    /\ \A b \in Blocks : refs[b] = Cardinality(Leases(b))

(* Who will free each block.                                                *)
Owners(b) == {k \in Keys : entry[k] = b}
             \union {w \in Workers : b \in {worker[w].block, worker[w].victim}}
             \union {p \in Playbacks : playback[p].capture.block = b}
             \union {x \in {"trash"} : player.trash = b}

(* Every block that is allocated has one owner who will free it, and no     *)
(* block that is free has any: nothing leaks and nothing is freed twice.    *)
EveryBlockHasAnOwner ==
    \A b \in Blocks : Cardinality(Owners(b)) = IF size[b] = 0 THEN 0 ELSE 1

Jobs(k) == {i \in 1 .. Len(queue) : queue[i] = k}
Builders(k) == {w \in Workers : worker[w].key = k}

(* A key that is cached has no producer, and a key that is not has at most  *)
(* one: a capture, a queued job or a worker.                                *)
OneProducerPerKey ==
    \A k \in Keys :
       LET captures == {p \in Playbacks : Capturing(p) /\ playback[p].key = k}
           builds == Cardinality(Jobs(k)) + Cardinality(Builders(k))
       IN  /\ builds = IF k \in building THEN 1 ELSE 0
           /\ Cardinality(captures) = IF k \in capturing THEN 1 ELSE 0
           /\ k \in capturing => k \notin building
           /\ k \in building \union capturing => entry[k] = None

(* The usage record of a key is there while something produces it: a worker *)
(* that has finished writes to it without a check (pcm_cache.go:112).       *)
UsageOutlivesBuild == \A k \in building \union capturing : Used(k)

(* A key is marked too large only if it is: the mark keeps it uncached.     *)
TooLargeIsTrue == \A k \in Keys : usage[k].tooLarge => Size[k] > MaxBytes

(* Closing the cache frees everything and leaves nothing reserved.          *)
NothingIsLeft ==
    At("closed") => UsedBytes = 0 /\ building = {} /\ \A b \in Blocks : size[b] = 0

(* The caches keep their word to every playback and worker, whatever fails, *)
(* grows, is evicted and closed: the books, the leases, the owners of the   *)
(* blocks, the producers of the keys and the usage records are right.       *)
CachesAreSound ==
    /\ BooksBalance /\ LeasedStaysAllocated /\ EveryBlockHasAnOwner
    /\ OneProducerPerKey /\ UsageOutlivesBuild /\ TooLargeIsTrue /\ NothingIsLeft

(* An asset that is in demand and was used within cacheRetention is not     *)
(* evicted, and neither is one that is leased.                              *)
DemandIsKept ==
    [][\A k \in Keys : (entry[k] # None /\ entry'[k] = None /\ ~closing) =>
          refs[entry[k]] = 0 /\ ~(usage[k].plays = 2 /\ usage[k].fresh)]_vars

(* close returns: the workers notice that the cache closes and drain the    *)
(* jobs, so the game does not hang on its way out.                          *)
CloseReturns == At("stopping") ~> At("closed")

(* Every build that is scheduled ends, so its key can be built again, unless *)
(* files are opened for ever: their captures may take what it evicts.       *)
BuildsEnd ==
    \A k \in Keys : []<>(k \notin building) \/ []<>(player.at = "open")

(* What the workers and the end of the process wait for comes.              *)
WorkEnds == BuildsEnd /\ CloseReturns
=============================================================================
