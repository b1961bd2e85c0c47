---------------------------- MODULE NativesProofs ----------------------------
(***************************************************************************)
(* Proofs about native components that stand alone: the hooks and call     *)
(* patches (CodePatches), the loading of external resources                *)
(* (ResourceLoading), the pipe server of dt-cli (PipeServer) and the       *)
(* tables of SimpleAssets with the map they implement (ResourceIndex).     *)
(***************************************************************************)
EXTENDS CodePatches, ResourceLoading, PipeServer, ResourceIndex, TLAPS, SequenceTheorems, FiniteSetTheorems,
        FunctionTheorems, WellFoundedInduction

-----------------------------------------------------------------------------
(***************************************************************************)
(* Hooks and call patches come and go whole, for any number of hooks,       *)
(* batches and relays (CodePatches).                                        *)
(*                                                                          *)
(* What the owner holds is the truth only between two calls.  The invariant *)
(* therefore says which hooks the call that is under way has made and not   *)
(* yet settled, and where the site may lead while a swap is under way.      *)
(***************************************************************************)

Recorded == [target |-> TRUE, trampoline |-> TRUE, active |-> FALSE]
Owned == [target |-> TRUE, trampoline |-> TRUE, active |-> TRUE]

Made(h) == hooks[h] = Recorded /\ minhook[h] # "none"
Settled(h) == \/ hooks[h] = NoHook /\ minhook[h] = "none"
              \/ hooks[h] = Owned /\ minhook[h] # "none"

\* The hooks that the call under way has made or has still to remove.
Unsettled ==
  CASE work.at = "create" -> {work.batch[i] : i \in 1 .. work.index - 1}
    [] work.at \in {"queue", "apply", "disable"} -> InBatch
    [] work.at = "undo" -> {work.batch[i] : i \in work.index .. Len(work.batch)}
    [] OTHER -> {}

HookPlaces == {"create", "queue", "apply", "disable", "undo", "remove"}
SitePlaces == {"swap", "protect", "unprotect", "dead"}

Distinct(b) == \A i, j \in DOMAIN b : b[i] = b[j] => i = j

WorkFits ==
  /\ work \in [at : {"idle"} \cup HookPlaces \cup SitePlaces, batch : Seq(Hook), index : Nat, word : Nat]
  /\ Distinct(work.batch)
  /\ work.at \in HookPlaces => work.index \in 1 .. Len(work.batch)

HooksFit ==
  /\ hooks \in [Hook -> {NoHook, Recorded, Owned}]
  /\ minhook \in [Hook -> {"none", "created", "enabled"}]
  /\ \A h \in Hook : IF h \in Unsettled THEN Made(h) ELSE Settled(h)
  /\ work.at = "create" => \A i \in work.index .. Len(work.batch) : hooks[work.batch[i]] = NoHook
  /\ work.at = "remove" => hooks[work.batch[1]] = Owned /\ Len(work.batch) = 1

RelaysFit ==
  /\ relays \in [count : 0 .. MaxRelays, freed : SUBSET (1 .. MaxRelays)]
  /\ relays.freed \subseteq 1 .. relays.count
  /\ patch \in [active : BOOLEAN, relay : 0 .. MaxRelays, original : Nat]
  /\ patch.active => patch.relay \in (1 .. relays.count) \ relays.freed /\ patch.original = 0

\* The site while a call patch is installed or removed, and otherwise.
SiteFits ==
  /\ site \in 0 .. Foreign
  /\ work.at \in {"swap", "protect"} =>
       relays.count \in (1 .. MaxRelays) \ relays.freed /\ ~patch.active /\ work.word = 0
  /\ work.at = "swap" => site \in {0, Foreign}
  /\ work.at = "protect" => site \in {relays.count, Foreign}
  /\ work.at = "unprotect" => patch.active /\ site \in {0, Foreign}
  /\ work.at = "dead" => site \notin relays.freed
  /\ work.at \notin SitePlaces /\ site \in 1 .. MaxRelays => patch.active /\ patch.relay = site

PatchInv == WorkFits /\ HooksFit /\ RelaysFit /\ SiteFits

USE DEF NoHook, Recorded, Owned, NoPatch, NoWork

\* No hook is requested twice in a batch.
LEMMA BatchesDistinct ==
  ASSUME NEW b \in Batches
  PROVE  b \in Seq(Hook) /\ Len(b) > 0 /\ Distinct(b)
  BY PatchAssumption DEF Distinct

LEMMA ForeignIsNone == Foreign = MaxRelays + 1 /\ MaxRelays \in Nat
  BY PatchAssumption DEF Foreign

-----------------------------------------------------------------------------
LEMMA PatchInvInit == PatchInit => PatchInv
<1> SUFFICES ASSUME PatchInit PROVE PatchInv
  OBVIOUS
<1>1. WorkFits
  BY DEF PatchInit, WorkFits, Distinct, HookPlaces, SitePlaces
<1>2. HooksFit
  BY DEF PatchInit, HooksFit, Unsettled, Settled, Made
<1>3. RelaysFit /\ SiteFits
  BY ForeignIsNone DEF PatchInit, RelaysFit, SiteFits, SitePlaces
<1> QED
  BY <1>1, <1>2, <1>3 DEF PatchInv

\* What no step of a batch of hooks touches.
LEMMA SiteUntouched ==
  ASSUME PatchInv, UNCHANGED siteVars, work.at \notin SitePlaces, work'.at \notin SitePlaces
  PROVE  RelaysFit' /\ SiteFits'
  BY DEF PatchInv, RelaysFit, SiteFits, siteVars, SitePlaces, Foreign

\* What no step of a call patch touches.
LEMMA HooksUntouched ==
  ASSUME PatchInv, UNCHANGED hookVars, work.at \notin HookPlaces, work'.at \notin HookPlaces
  PROVE  HooksFit'
  BY DEF PatchInv, HooksFit, hookVars, HookPlaces, Unsettled, Made, Settled

LEMMA Activated ==
  ASSUME NEW r, NEW s, r = Recorded, s = [r EXCEPT !.active = TRUE]
  PROVE  s = Owned
<1>1. s = [target |-> s.target, trampoline |-> s.trampoline, active |-> s.active]
  OBVIOUS
<1>2. s.target = TRUE /\ s.trampoline = TRUE /\ s.active = TRUE
  OBVIOUS
<1> QED
  BY <1>1, <1>2

\* The two ways in which a call goes on.
LEMMA GoesOn ==
  ASSUME WorkFits, NEW at, NEW index, Goes(at, index)
  PROVE  work' = [at |-> at, batch |-> work.batch, index |-> index, word |-> work.word]
  BY DEF WorkFits, Goes

LEMMA MoveFits ==
  ASSUME WorkFits, NEW at \in {"idle"} \cup HookPlaces \cup SitePlaces, NEW index \in Nat, Goes(at, index),
         at \in HookPlaces => index \in 1 .. Len(work.batch)
  PROVE  WorkFits'
  BY GoesOn DEF WorkFits, Distinct

LEMMA EndFits ==
  ASSUME EndsCall
  PROVE  WorkFits'
  BY DEF EndsCall, WorkFits, Distinct, HookPlaces, SitePlaces

-----------------------------------------------------------------------------
\* dtintutils_hooks_install: what has been created so far is recorded, the rest is as it was.
LEMMA InstallStep ==
  ASSUME PatchInv, NEW b \in Batches, InstallHooks(b)
  PROVE  PatchInv'
<1> USE DEF PatchInv, InstallHooks, WorkIdle
<1>0. b \in Seq(Hook) /\ Len(b) > 0 /\ Distinct(b)
  BY BatchesDistinct
<1>1. work' = [at |-> "create", batch |-> b, index |-> 1, word |-> 0]
  OBVIOUS
<1>2. WorkFits'
  BY <1>0, <1>1 DEF WorkFits, Distinct, HookPlaces, SitePlaces
<1>3. HooksFit'
  BY <1>0, <1>1 DEF HooksFit, WorkFits, Unsettled, Made, Settled
<1>4. RelaysFit' /\ SiteFits'
  BY <1>1, SiteUntouched DEF SitePlaces
<1> QED
  BY <1>2, <1>3, <1>4

LEMMA CreateStep ==
  ASSUME PatchInv, CreateHook
  PROVE  PatchInv'
<1> USE DEF PatchInv, CreateHook, LastOfBatch, Current
<1>1. work.at = "create" /\ work.index \in 1 .. Len(work.batch) /\ work.batch \in Seq(Hook)
  BY DEF WorkFits, HookPlaces
<1>2. \/ /\ work.index = Len(work.batch)
         /\ Goes("queue", 1)
         /\ work' = [at |-> "queue", batch |-> work.batch, index |-> 1, word |-> work.word]
      \/ /\ work.index < Len(work.batch)
         /\ Goes("create", work.index + 1)
         /\ work' = [at |-> "create", batch |-> work.batch, index |-> work.index + 1, word |-> work.word]
  BY <1>1, GoesOn
<1>3. WorkFits'
  BY <1>1, <1>2, MoveFits DEF HookPlaces
<1>4. HooksFit'
  <2>1. hooks' = [hooks EXCEPT ![work.batch[work.index]] = Recorded] /\ work.batch[work.index] \in Hook
    BY <1>1 DEF Record
  <2>2. Unsettled = {work.batch[i] : i \in 1 .. work.index - 1}
    BY <1>1 DEF Unsettled
  <2>3. Unsettled' = {work.batch[i] : i \in 1 .. work.index}
    BY <1>1, <1>2 DEF Unsettled, InBatch
  <2>4. Unsettled' = Unsettled \cup {work.batch[work.index]}
    BY <1>1, <2>2, <2>3
  <2>5. \A h \in Hook : IF h \in Unsettled' THEN Made(h)' ELSE Settled(h)'
    BY <1>1, <2>1, <2>4 DEF HooksFit, Made, Settled
  <2>6. \A i \in work.index + 1 .. Len(work.batch) : work.batch[i] # work.batch[work.index]
    BY <1>1 DEF WorkFits, Distinct
  <2> QED
    BY <1>1, <1>2, <2>1, <2>5, <2>6 DEF HooksFit
<1>5. RelaysFit' /\ SiteFits'
  BY <1>1, <1>2, SiteUntouched DEF SitePlaces
<1> QED
  BY <1>3, <1>4, <1>5

\* The batch shrinks to what was created, all of which is still to be removed.
LEMMA NotCreatedStep ==
  ASSUME PatchInv, HookNotCreated
  PROVE  PatchInv'
<1> USE DEF PatchInv, HookNotCreated
<1>1. work.at = "create" /\ work.index \in 1 .. Len(work.batch) /\ work.batch \in Seq(Hook)
  BY DEF WorkFits, HookPlaces
<1>4. RelaysFit' /\ SiteFits'
  <2>1. work'.at \in {"idle", "undo"}
    <3>1. work.index = 1 => work' = NoWork
      BY DEF EndsCall
    <3>2. work.index # 1 => work'.at = "undo"
      BY <1>1 DEF WorkFits
    <3> QED
      BY <3>1, <3>2
  <2> QED
    BY <1>1, <2>1, SiteUntouched DEF SitePlaces
<1>2. CASE work.index = 1
  <2>1. WorkFits'
    BY <1>2, EndFits
  <2>2. HooksFit'
    BY <1>1, <1>2 DEF HooksFit, Unsettled, Made, Settled, EndsCall
  <2> QED
    BY <2>1, <2>2, <1>4
<1>3. CASE work.index # 1
  <2> DEFINE made == SubSeq(work.batch, 1, work.index - 1)
  <2>1. made \in Seq(Hook) /\ Len(made) = work.index - 1 /\ \A i \in 1 .. work.index - 1 : made[i] = work.batch[i]
    BY <1>1, <1>3
  <2>2. work' = [at |-> "undo", batch |-> made, index |-> 1, word |-> work.word]
    BY <1>1, <1>3 DEF WorkFits
  <2>3. WorkFits'
    BY <1>1, <1>3, <2>1, <2>2 DEF WorkFits, Distinct, HookPlaces, SitePlaces
  <2>4. Unsettled' = Unsettled
    BY <1>1, <1>3, <2>1, <2>2 DEF Unsettled, WorkFits
  <2>5. HooksFit'
    BY <1>1, <2>2, <2>4 DEF HooksFit, Made, Settled, WorkFits
  <2> QED
    BY <2>3, <2>5, <1>4
<1> QED
  BY <1>2, <1>3

\* Queueing moves no hook.
LEMMA QueueStep ==
  ASSUME PatchInv, QueueEnable \/ QueueFails
  PROVE  PatchInv'
<1> USE DEF PatchInv, QueueEnable, QueueFails, LastOfBatch
<1>1. work.at = "queue" /\ work.index \in 1 .. Len(work.batch) /\ work.batch \in Seq(Hook)
  BY DEF WorkFits, HookPlaces
<1>2. \/ Goes("apply", 1) /\ work'.at = "apply"
      \/ Goes("undo", 1) /\ work'.at = "undo" /\ work'.index = 1
      \/ Goes("queue", work.index + 1) /\ work'.at = "queue" /\ work.index < Len(work.batch)
  BY <1>1, GoesOn
<1>3. work'.batch = work.batch
  BY <1>1, <1>2, GoesOn
<1>4. WorkFits'
  BY <1>1, <1>2, MoveFits DEF HookPlaces
<1>5. Unsettled' = Unsettled
  BY <1>1, <1>2, <1>3 DEF Unsettled, InBatch
<1>6. HooksFit'
  BY <1>1, <1>2, <1>5 DEF HooksFit, Made, Settled
<1>7. RelaysFit' /\ SiteFits'
  BY <1>1, <1>2, SiteUntouched DEF SitePlaces
<1> QED
  BY <1>4, <1>6, <1>7

\* Whichever of the batch are enabled or disabled, all of it stays unsettled until the call succeeds.
LEMMA ApplyStep ==
  ASSUME PatchInv, ApplyQueued \/ ApplyFails \/ DisableBatch
  PROVE  PatchInv'
<1> USE DEF PatchInv
<1>1. work.at \in {"apply", "disable"} /\ work.index \in 1 .. Len(work.batch) /\ work.batch \in Seq(Hook)
  BY DEF WorkFits, HookPlaces, ApplyQueued, ApplyFails, DisableBatch
<1>2. Unsettled = InBatch /\ InBatch \subseteq Hook
  BY <1>1 DEF Unsettled, InBatch
<1>3. CASE ApplyQueued
  <2>1. work' = NoWork
    BY <1>3 DEF ApplyQueued, EndsCall
  <2>2. Unsettled' = {}
    BY <2>1 DEF Unsettled
  <2>3. \A h \in InBatch : hooks'[h] = Owned /\ minhook'[h] = "enabled"
    <3>1. \A h \in InBatch : hooks[h] = Recorded
      BY <1>2 DEF HooksFit, Made
    <3>2. \A h \in InBatch : hooks'[h] = [hooks[h] EXCEPT !.active = TRUE] /\ minhook'[h] = "enabled"
      BY <1>2, <1>3 DEF ApplyQueued
    <3> QED
      BY <3>1, <3>2, Activated
  <2>4. \A h \in Hook \ InBatch : hooks'[h] = hooks[h] /\ minhook'[h] = minhook[h]
    BY <1>3 DEF ApplyQueued
  <2>5. HooksFit'
    <3>1. hooks' \in [Hook -> {NoHook, Recorded, Owned}] /\ minhook' \in [Hook -> {"none", "created", "enabled"}]
      BY <1>3, <2>3, <2>4 DEF ApplyQueued, HooksFit
    <3>2. \A h \in Hook : Settled(h)'
      BY <1>2, <2>3, <2>4 DEF HooksFit, Settled
    <3> QED
      BY <2>1, <2>2, <3>1, <3>2 DEF HooksFit
  <2>6. WorkFits'
    BY <1>3, EndFits DEF ApplyQueued
  <2>7. RelaysFit' /\ SiteFits'
    BY <1>1, <1>3, <2>1, SiteUntouched DEF SitePlaces, ApplyQueued
  <2> QED
    BY <2>5, <2>6, <2>7
<1>4. CASE ApplyFails \/ DisableBatch
  <2>1. /\ \/ Goes("disable", 1) /\ work'.at = "disable"
           \/ Goes("undo", 1) /\ work'.at = "undo" /\ work'.index = 1
        /\ work'.batch = work.batch
    <3>1. CASE ApplyFails
      <4>1. Goes("disable", 1)
        BY <3>1 DEF ApplyFails
      <4>2. work' = [at |-> "disable", batch |-> work.batch, index |-> 1, word |-> work.word]
        BY <4>1, GoesOn
      <4>3. work'.at = "disable" /\ work'.batch = work.batch
        BY <4>2
      <4> QED
        BY <4>1, <4>3
    <3>2. CASE DisableBatch
      <4>1. Goes("undo", 1)
        BY <3>2 DEF DisableBatch
      <4>2. work' = [at |-> "undo", batch |-> work.batch, index |-> 1, word |-> work.word]
        BY <4>1, GoesOn
      <4>3. work'.at = "undo" /\ work'.batch = work.batch /\ work'.index = 1
        BY <4>2
      <4> QED
        BY <4>1, <4>3
    <3> QED
      BY <1>4, <3>1, <3>2
  <2>2. WorkFits'
    <3>1. PICK at \in {"disable", "undo"} : Goes(at, 1)
      BY <2>1
    <3>2. at \in {"idle"} \cup HookPlaces \cup SitePlaces
      BY <3>1 DEF HookPlaces
    <3>3. 1 \in Nat /\ 1 \in 1 .. Len(work.batch) /\ WorkFits
      BY <1>1
    <3> QED
      BY <3>1, <3>2, <3>3, MoveFits
  <2>3. Unsettled' = InBatch
    BY <1>1, <2>1 DEF Unsettled, InBatch
  <2>4. PICK done \in SUBSET InBatch, to \in {"enabled", "created"} :
             minhook' = [h \in Hook |-> IF h \in done THEN to ELSE minhook[h]]
    BY <1>4 DEF ApplyFails, DisableBatch
  <2>5. hooks' = hooks
    BY <1>4 DEF ApplyFails, DisableBatch
  <2>6. HooksFit'
    BY <1>2, <2>1, <2>3, <2>4, <2>5 DEF HooksFit, Made, Settled
  <2>7. RelaysFit' /\ SiteFits'
    BY <1>1, <1>4, <2>1, SiteUntouched DEF SitePlaces, ApplyFails, DisableBatch
  <2> QED
    BY <2>2, <2>6, <2>7
<1> QED
  BY <1>3, <1>4

\* One hook less is unsettled: it is gone, or it stays with its owner.
LEMMA UndoStep ==
  ASSUME PatchInv, UndoHook \/ UndoFails
  PROVE  PatchInv'
<1> USE DEF PatchInv
<1>1. work.at = "undo" /\ work.index \in 1 .. Len(work.batch) /\ work.batch \in Seq(Hook) /\ Current \in Hook
  BY DEF WorkFits, HookPlaces, UndoHook, UndoFails, Current
<1>2. \/ EndsCall /\ work.index = Len(work.batch) /\ work' = NoWork
      \/ /\ Goes("undo", work.index + 1) /\ work.index < Len(work.batch)
         /\ work' = [at |-> "undo", batch |-> work.batch, index |-> work.index + 1, word |-> work.word]
  BY <1>1, GoesOn DEF UndoHook, UndoFails, NextUndone, LastOfBatch, EndsCall
<1>3. WorkFits'
  BY <1>1, <1>2, MoveFits, EndFits DEF HookPlaces
<1>4. PICK h \in Hook : h = Current
  BY <1>1
<1>5. Unsettled' = Unsettled \ {h}
  <2>1. Unsettled = {work.batch[i] : i \in work.index .. Len(work.batch)}
    BY <1>1 DEF Unsettled
  <2>2. \A i \in work.index + 1 .. Len(work.batch) : work.batch[i] # h
    BY <1>1, <1>4 DEF WorkFits, Distinct, Current
  <2>3. Unsettled \ {h} = {work.batch[i] : i \in work.index + 1 .. Len(work.batch)}
    BY <1>1, <1>4, <2>1, <2>2 DEF Current
  <2>4. CASE work' = NoWork /\ work.index = Len(work.batch)
    <3>1. Unsettled' = {}
      BY <2>4 DEF Unsettled
    <3>2. work.index + 1 .. Len(work.batch) = {}
      BY <1>1, <2>4
    <3> QED
      BY <2>3, <3>1, <3>2
  <2>5. CASE work' = [at |-> "undo", batch |-> work.batch, index |-> work.index + 1, word |-> work.word]
    BY <2>3, <2>5 DEF Unsettled
  <2> QED
    BY <1>2, <2>4, <2>5
<1>6. hooks[h] = Recorded /\ minhook[h] # "none"
  <2>1. h \in Unsettled
    BY <1>1, <1>4 DEF Unsettled, Current
  <2> QED
    BY <2>1 DEF HooksFit, Made
<1>7. /\ \/ hooks' = [hooks EXCEPT ![h] = NoHook] /\ minhook' = [minhook EXCEPT ![h] = "none"]
         \/ hooks' = [hooks EXCEPT ![h] = Owned] /\ minhook' = minhook
  <2>1. CASE UndoHook
    BY <1>4, <2>1 DEF UndoHook
  <2>2. CASE UndoFails
    BY <1>4, <1>6, <2>2, Activated DEF UndoFails, Retained
  <2> QED
    BY <2>1, <2>2
<1>8. HooksFit'
  <2>1. hooks' \in [Hook -> {NoHook, Recorded, Owned}] /\ minhook' \in [Hook -> {"none", "created", "enabled"}]
    BY <1>7 DEF HooksFit
  <2>2. Settled(h)'
    BY <1>6, <1>7 DEF HooksFit, Settled
  <2>3. \A k \in Hook \ {h} : hooks'[k] = hooks[k] /\ minhook'[k] = minhook[k]
    BY <1>7 DEF HooksFit
  <2>4. \A k \in Hook : IF k \in Unsettled' THEN Made(k)' ELSE Settled(k)'
    BY <1>5, <2>2, <2>3 DEF HooksFit, Made, Settled
  <2> QED
    BY <1>2, <2>1, <2>4 DEF HooksFit
<1>9. RelaysFit' /\ SiteFits'
  BY <1>1, <1>2, SiteUntouched DEF SitePlaces, UndoHook, UndoFails
<1> QED
  BY <1>3, <1>8, <1>9

-----------------------------------------------------------------------------
\* dtintutils_hook_remove: the hook is its owner's until it is removed.
LEMMA DisableStep ==
  ASSUME PatchInv, NEW h \in Hook, DisableHook(h)
  PROVE  PatchInv'
<1> USE DEF PatchInv, DisableHook
<1>1. work.at = "idle" /\ work' = [at |-> "remove", batch |-> <<h>>, index |-> 1, word |-> 0]
  BY DEF WorkIdle
<1>2. WorkFits'
  <2>1. <<h>> \in Seq(Hook) /\ Len(<<h>>) = 1 /\ Distinct(<<h>>)
    BY DEF Distinct
  <2>2. PICK b : b = <<h>>
    OBVIOUS
  <2>3. work' = [at |-> "remove", batch |-> b, index |-> 1, word |-> 0]
    BY <1>1, <2>2
  <2>4. b \in Seq(Hook) /\ Len(b) = 1 /\ Distinct(b)
    BY <2>1, <2>2
  <2>5. work' \in [at : {"idle"} \cup HookPlaces \cup SitePlaces, batch : Seq(Hook), index : Nat, word : Nat]
    BY <2>3, <2>4 DEF HookPlaces
  <2>6. Distinct(work'.batch)
    BY <2>3, <2>4 DEF Distinct
  <2>7. work'.index \in 1 .. Len(work'.batch)
    BY <2>3, <2>4
  <2> QED
    BY <2>5, <2>6, <2>7 DEF WorkFits
<1>3. Unsettled = {} /\ Unsettled' = {}
  BY <1>1 DEF Unsettled
<1>4. hooks[h] = Owned
  BY <1>3 DEF HooksFit, Settled
<1>5. HooksFit'
  BY <1>1, <1>3, <1>4 DEF HooksFit, Settled
<1>6. RelaysFit' /\ SiteFits'
  BY <1>1, SiteUntouched DEF SitePlaces
<1> QED
  BY <1>2, <1>5, <1>6

LEMMA RemoveStep ==
  ASSUME PatchInv, RemoveHook \/ RemoveFails
  PROVE  PatchInv'
<1> USE DEF PatchInv
<1>1. work.at = "remove" /\ EndsCall /\ work' = NoWork
  BY DEF RemoveHook, RemoveFails, EndsCall
<1>2. WorkFits'
  BY <1>1, EndFits
<1>3. Unsettled = {} /\ Unsettled' = {}
  BY <1>1 DEF Unsettled
<1>4. HooksFit'
  <2>1. CASE RemoveHook
    <3>1. PICK h : h = Current
      OBVIOUS
    <3>2. hooks' = [hooks EXCEPT ![h] = NoHook] /\ minhook' = [minhook EXCEPT ![h] = "none"]
      BY <2>1, <3>1 DEF RemoveHook
    <3> QED
      BY <1>1, <1>3, <3>2 DEF HooksFit, Settled
  <2>2. CASE RemoveFails
    BY <1>1, <1>3, <2>2 DEF RemoveFails, HooksFit, Settled
  <2> QED
    BY <2>1, <2>2
<1>5. RelaysFit' /\ SiteFits'
  BY <1>1, SiteUntouched DEF SitePlaces, RemoveHook, RemoveFails
<1> QED
  BY <1>2, <1>4, <1>5

-----------------------------------------------------------------------------
\* dtintutils_call_patch_install and dtintutils_call_patch_remove: the relay is freed only when nothing
\* leads to it.
LEMMA InstallCallStep ==
  ASSUME PatchInv, PrepareCall \/ SwapCall \/ SwapFails \/ CallPatched \/ PatchRolledBack
  PROVE  PatchInv'
<1> USE DEF PatchInv, Foreign
<1>1. work.at \in {"idle", "swap", "protect"} /\ work'.at \in {"idle", "swap", "protect"} /\ WorkFits'
  <2>1. CASE PrepareCall
    <3>1. work.at = "idle" /\ work' = [at |-> "swap", batch |-> << >>, index |-> 0, word |-> 0]
      BY <2>1 DEF PrepareCall, WorkIdle
    <3> QED
      BY <3>1 DEF WorkFits, Distinct, HookPlaces, SitePlaces
  <2>2. CASE SwapCall
    BY <2>2, GoesOn DEF SwapCall, WorkFits, Distinct, HookPlaces, SitePlaces
  <2>3. CASE SwapFails \/ CallPatched \/ PatchRolledBack
    BY <2>3, EndFits DEF SwapFails, CallPatched, PatchRolledBack, EndsCall
  <2> QED
    BY <2>1, <2>2, <2>3
<1>2. HooksFit'
  BY <1>1, HooksUntouched DEF HookPlaces, PrepareCall, SwapCall, SwapFails, CallPatched, PatchRolledBack
<1>3. RelaysFit' /\ SiteFits'
  <2>1. CASE PrepareCall
    <3>1. work' = [at |-> "swap", batch |-> << >>, index |-> 0, word |-> 0]
      BY <2>1 DEF PrepareCall
    <3>2. /\ relays' = [relays EXCEPT !.count = relays.count + 1] /\ relays.count < MaxRelays
          /\ site = 0 /\ site' = site /\ patch' = patch /\ ~patch.active
      BY <2>1 DEF PrepareCall, NewRelay
    <3>3. RelaysFit'
      BY <3>2, ForeignIsNone DEF RelaysFit
    <3>4. SiteFits'
      BY <3>1, <3>2, ForeignIsNone DEF RelaysFit, SiteFits, SitePlaces
    <3> QED
      BY <3>3, <3>4
  <2>2. CASE SwapCall
    <3>1. work.at = "swap" /\ work'.at = "protect" /\ work'.word = work.word
      BY <2>2, GoesOn DEF SwapCall
    <3> QED
      BY <2>2, <3>1, ForeignIsNone DEF SwapCall, RelaysFit, SiteFits, SitePlaces
  <2>3. CASE SwapFails
    BY <2>3, ForeignIsNone DEF SwapFails, Freed, EndsCall, RelaysFit, SiteFits, SitePlaces
  <2>4. CASE CallPatched
    BY <2>4, ForeignIsNone DEF CallPatched, EndsCall, RelaysFit, SiteFits, SitePlaces
  <2>5. CASE PatchRolledBack
    BY <2>5, ForeignIsNone DEF PatchRolledBack, RollBack, Freed, EndsCall, RelaysFit, SiteFits, SitePlaces
  <2> QED
    BY <2>1, <2>2, <2>3, <2>4, <2>5
<1> QED
  BY <1>1, <1>2, <1>3

LEMMA RemoveCallStep ==
  ASSUME PatchInv, FailFast \/ RestoreCall \/ CallRestored \/ RemovalRolledBack
  PROVE  PatchInv'
<1> USE DEF PatchInv, Foreign
<1>1. work.at \in {"idle", "protect", "unprotect"} /\ work'.at \in {"idle", "dead", "unprotect"} /\ WorkFits'
  <2>1. CASE FailFast \/ RestoreCall
    BY <2>1, GoesOn DEF FailFast, RestoreCall, WorkIdle, WorkFits, Distinct, HookPlaces, SitePlaces
  <2>2. CASE CallRestored \/ RemovalRolledBack
    BY <2>2, EndFits DEF CallRestored, RemovalRolledBack, EndsCall
  <2> QED
    BY <2>1, <2>2
<1>2. HooksFit'
  BY <1>1, HooksUntouched DEF HookPlaces, siteVars, FailFast, RestoreCall, CallRestored, RemovalRolledBack
<1>3. RelaysFit' /\ SiteFits'
  <2>1. CASE FailFast
    <3>1. work'.at = "dead" /\ site' = site /\ patch' = patch /\ relays' = relays
      BY <2>1, GoesOn DEF FailFast, siteVars
    <3>2. site \notin relays.freed
      BY <2>1, ForeignIsNone DEF FailFast, SiteFits, RelaysFit
    <3> QED
      BY <3>1, <3>2 DEF RelaysFit, SiteFits, SitePlaces
  <2>2. CASE RestoreCall
    <3>1. work'.at = "unprotect"
      BY <2>2, GoesOn DEF RestoreCall
    <3> QED
      BY <2>2, <3>1, ForeignIsNone DEF RestoreCall, RelaysFit, SiteFits, SitePlaces
  <2>3. CASE CallRestored
    BY <2>3, ForeignIsNone DEF CallRestored, EndsCall, RelaysFit, SiteFits, SitePlaces
  <2>4. CASE RemovalRolledBack
    BY <2>4, ForeignIsNone DEF RemovalRolledBack, EndsCall, RelaysFit, SiteFits, SitePlaces
  <2> QED
    BY <2>1, <2>2, <2>3, <2>4
<1> QED
  BY <1>1, <1>2, <1>3

LEMMA OtherModStep ==
  ASSUME PatchInv, OtherModPatches
  PROVE  PatchInv'
<1> USE DEF PatchInv, OtherModPatches, hookVars
<1>1. WorkFits' /\ RelaysFit'
  BY DEF WorkFits, RelaysFit
<1>2. HooksFit'
  BY DEF HooksFit, Unsettled, InBatch, Made, Settled
<1>3. SiteFits'
  BY ForeignIsNone DEF SiteFits, RelaysFit, SitePlaces
<1> QED
  BY <1>1, <1>2, <1>3

-----------------------------------------------------------------------------
LEMMA PatchInvStep ==
  ASSUME PatchInv, [PatchNext]_patchVars
  PROVE  PatchInv'
<1>1. CASE UNCHANGED patchVars
  BY <1>1 DEF patchVars, PatchInv, WorkFits, HooksFit, RelaysFit, SiteFits, Unsettled, InBatch, Made, Settled
<1>2. CASE PatchNext
  BY <1>2, InstallStep, CreateStep, NotCreatedStep, QueueStep, ApplyStep, UndoStep, DisableStep, RemoveStep,
     InstallCallStep, RemoveCallStep, OtherModStep
  DEF PatchNext
<1> QED
  BY <1>1, <1>2

LEMMA PatchInvImplies == PatchInv => PatchesAreWhole
<1> SUFFICES ASSUME PatchInv PROVE OwnersKnowTheirPatches /\ CodeLeadsSomewhere
  BY DEF PatchesAreWhole
<1>1. OwnersKnowTheirPatches
  BY DEF PatchInv, HooksFit, SiteFits, Unsettled, Settled, OwnersKnowTheirPatches, WorkIdle, SitePlaces
<1>2. CodeLeadsSomewhere
  BY ForeignIsNone DEF PatchInv, HooksFit, RelaysFit, SiteFits, Made, Settled, CodeLeadsSomewhere, SitePlaces
<1> QED
  BY <1>1, <1>2

\* Whichever call into MinHook or the system fails, and whatever other mods do to the call site, hooks and
\* call patches come and go whole (dtintutils_hooks_install, dtintutils_call_patch_install).
THEOREM PatchesCorrect == PatchSpec => []PatchesAreWhole
  BY PatchInvInit, PatchInvStep, PatchInvImplies, PTL DEF PatchSpec

-----------------------------------------------------------------------------
(***************************************************************************)
(* What the SimpleAssets runtime promises of an external resource, for any  *)
(* number of resources and replacements and any interleaving of the game's  *)
(* thread with the engine's (ResourceLoading).                              *)
(*                                                                          *)
(* Two facts make it inductive.  The runtime's own lookup can only be       *)
(* redirected while the game's thread is switching it, so a callback always *)
(* gets the raw resource of the name it asked for.  And a name is requested *)
(* from the engine only after its mapping exists, which never goes away.    *)
(***************************************************************************)

States == {"none", "pending", "finalizing", "ready", "failing", "failed"}
Failures == {"failing", "failed"}
Threads == {"loader", "stream", "game"}
Mapping == [state : States, whole : BOOLEAN, by : Threads \cup {"nobody"}]
OnName == {"load", "begin", "finalize", "mark", "fail"}

LoadingTypes ==
  /\ runtimes \in [resource : {"fresh", "usable", "broken"}, stream : {"fresh", "usable", "broken"},
                   lookup : {"fresh", "hooked", "usable", "broken"}]
  /\ mapping \in [External -> Mapping]
  /\ request \in [External -> {"none", "loading", "original", "refused", "opened", "pushed"}]
  /\ game \in [at : OnName, name : External] \cup [at : {"idle", "switch"}, name : {"none"}]
  /\ callbacks \in [Name -> [Name -> Nat]]

\* The hook redirects the runtime's own lookups only between its activation and the switch of the pointer.
HookedWhileSwitching == runtimes.lookup = "hooked" => game.at = "switch"

\* The game's thread and the engine only deal with names whose mapping exists.
RequestsAreMapped ==
  /\ game.at \in OnName => Mapped(game.name)
  /\ game.at = "finalize" => mapping[game.name].state # "pending"
  /\ \A r \in External : request[r] # "none" => Mapped(r)

\* The callback comes after the one swap that acquires the mapping.
CalledLate ==
  \A r \in External :
    callbacks[r][r] > 0 =>
      /\ mapping[r].state \notin {"none", "pending"}
      /\ ~(game.at = "finalize" /\ game.name = r)

LoadingInv ==
  /\ LoadingTypes
  /\ HookedWhileSwitching
  /\ RequestsAreMapped
  /\ CalledLate
  /\ FinalizedOnceAsItself
  /\ FailuresStick
  /\ UnservedRequestsFail

-----------------------------------------------------------------------------
LEMMA LoadingInvInit == LoadingInit => LoadingInv
  BY DEF LoadingInit, LoadingInv, LoadingTypes, HookedWhileSwitching, RequestsAreMapped, CalledLate,
         FinalizedOnceAsItself, FailuresStick, UnservedRequestsFail, Fresh, Idle, Unmapped, Mapping, States,
         Failures, Threads, OnName, Mapped, Name

\* sa_fail_resource: whichever thread comes first, the mapping has failed, and its text is not touched.
LEMMA FailingByFails ==
  ASSUME LoadingTypes, NEW r \in External, NEW thread \in Threads
  PROVE  /\ FailingBy(r, thread) \in [External -> Mapping]
         /\ \A s \in External : s # r => FailingBy(r, thread)[s] = mapping[s]
         /\ FailingBy(r, thread)[r].state \in Failures
         /\ FailingBy(r, thread)[r].state = "failed" => mapping[r].state = "failed"
         /\ FailingBy(r, thread)[r].whole = mapping[r].whole
<1> USE DEF LoadingTypes, Mapping, States, Failures, Threads
<1>1. CASE mapping[r].state \in Failures
  BY <1>1 DEF FailingBy
<1>2. CASE mapping[r].state \notin Failures
  <2>1. mapping[r] \in Mapping
    OBVIOUS
  <2>2. FailingBy(r, thread) = [mapping EXCEPT ![r] = [state |-> "failing", whole |-> mapping[r].whole, by |-> thread]]
    BY <1>2 DEF FailingBy
  <2> QED
    BY <2>1, <2>2
<1> QED
  BY <1>1, <1>2

\* A step that fails a mapping, whatever it does to the request, keeps the invariant's part on mappings.
LEMMA FailingStep ==
  ASSUME LoadingInv, NEW r \in External, NEW thread \in Threads,
         mapping' = FailingBy(r, thread),
         request' = request \/ (request' = [request EXCEPT ![r] = "refused"] /\ request[r] # "none"),
         game' = game \/ (game' = [at |-> "fail", name |-> r] /\ game.at = "finalize" /\ game.name = r),
         UNCHANGED <<runtimes, raw, replaced, callbacks>>
  PROVE  LoadingInv'
<1> USE DEF LoadingInv
<1>1. /\ mapping' \in [External -> Mapping]
      /\ \A s \in External : s # r => mapping'[s] = mapping[s]
      /\ mapping'[r].state \in Failures
      /\ mapping'[r].state = "failed" => mapping[r].state = "failed"
      /\ mapping'[r].whole = mapping[r].whole
  BY FailingByFails
<1>2. LoadingTypes'
  BY <1>1 DEF LoadingTypes, OnName
<1>3. HookedWhileSwitching'
  BY DEF HookedWhileSwitching, LoadingTypes
<1>4. RequestsAreMapped'
  BY <1>1 DEF RequestsAreMapped, Mapped, LoadingTypes, Failures, OnName
<1>5. CalledLate'
  BY <1>1 DEF CalledLate, LoadingTypes, Failures
<1>6. FinalizedOnceAsItself'
  BY DEF FinalizedOnceAsItself, Name
<1>7. FailuresStick'
  BY <1>1 DEF FailuresStick, LoadingTypes, Failures
<1>8. UnservedRequestsFail'
  BY <1>1 DEF UnservedRequestsFail, LoadingTypes, Failures
<1> QED
  BY <1>2, <1>3, <1>4, <1>5, <1>6, <1>7, <1>8

-----------------------------------------------------------------------------
\* The once-initialized runtimes and the switch of the lookup.
LEMMA RuntimeStep ==
  ASSUME LoadingInv,
         InitializeResource \/ InitializeStream \/ HookLookup \/ LookupFails \/ SwitchLookup
  PROVE  LoadingInv'
<1> USE DEF LoadingInv
<1>1. mapping' = mapping /\ request' = request /\ callbacks' = callbacks
  BY DEF InitializeResource, InitializeStream, HookLookup, LookupFails, SwitchLookup
<1>2. LoadingTypes' /\ HookedWhileSwitching'
  <2> USE DEF LoadingTypes, HookedWhileSwitching
  <2>1. CASE InitializeResource
    BY <2>1 DEF InitializeResource
  <2>2. CASE InitializeStream
    BY <2>2 DEF InitializeStream
  <2>3. CASE HookLookup
    BY <2>3 DEF HookLookup, Calls
  <2>4. CASE LookupFails
    BY <2>4 DEF LookupFails
  <2>5. CASE SwitchLookup
    BY <2>5 DEF SwitchLookup, Returns, Idle
  <2> QED
    BY <2>1, <2>2, <2>3, <2>4, <2>5
<1>3. game'.at \in OnName => game' = game
  BY DEF InitializeResource, InitializeStream, HookLookup, LookupFails, SwitchLookup, Calls, Returns, Idle, OnName
<1>4. RequestsAreMapped' /\ CalledLate'
  BY <1>1, <1>3 DEF RequestsAreMapped, CalledLate, Mapped, OnName
<1>5. FinalizedOnceAsItself' /\ FailuresStick' /\ UnservedRequestsFail'
  BY <1>1 DEF FinalizedOnceAsItself, FailuresStick, UnservedRequestsFail, Name
<1> QED
  BY <1>2, <1>4, <1>5

\* The text of an error and its publication.
LEMMA ErrorStep ==
  ASSUME LoadingInv, NEW r \in External, WriteError(r) \/ PublishFailure(r)
  PROVE  LoadingInv'
<1> USE DEF LoadingInv
<1>1. UNCHANGED <<runtimes, request, raw, replaced, game, callbacks>>
  BY DEF WriteError, PublishFailure
<1>2. /\ mapping' \in [External -> Mapping]
      /\ \A s \in External : s # r => mapping'[s] = mapping[s]
      /\ mapping'[r].state = mapping[r].state \/ (mapping'[r].state = "failed" /\ mapping[r].state = "failing")
      /\ mapping'[r].state = "failed" => mapping'[r].whole
      /\ mapping'[r].by = mapping[r].by
  <2> USE DEF LoadingTypes, Mapping, States, Threads, FailuresStick
  <2>1. CASE WriteError(r)
    <3> DEFINE n == [mapping[r] EXCEPT !.whole = TRUE]
    <3>1. mapping' = [mapping EXCEPT ![r] = n]
      BY <2>1 DEF WriteError
    <3>2. n \in Mapping /\ n.state = mapping[r].state /\ n.whole /\ n.by = mapping[r].by
      OBVIOUS
    <3> HIDE DEF n
    <3> QED
      BY <3>1, <3>2
  <2>2. CASE PublishFailure(r)
    <3> DEFINE n == [mapping[r] EXCEPT !.state = "failed"]
    <3>1. mapping' = [mapping EXCEPT ![r] = n] /\ mapping[r].state = "failing" /\ mapping[r].whole
      BY <2>2 DEF PublishFailure
    <3>2. n \in Mapping /\ n.state = "failed" /\ n.whole = mapping[r].whole /\ n.by = mapping[r].by
      OBVIOUS
    <3> HIDE DEF n
    <3> QED
      BY <3>1, <3>2
  <2> QED
    BY <2>1, <2>2
<1>3. LoadingTypes' /\ HookedWhileSwitching'
  BY <1>1, <1>2 DEF LoadingTypes, HookedWhileSwitching
<1>4. RequestsAreMapped' /\ CalledLate'
  BY <1>1, <1>2 DEF RequestsAreMapped, CalledLate, Mapped, LoadingTypes, OnName
<1>5. FinalizedOnceAsItself'
  BY <1>1 DEF FinalizedOnceAsItself, Name
<1>6. FailuresStick' /\ UnservedRequestsFail'
  BY <1>1, <1>2 DEF FailuresStick, UnservedRequestsFail
<1> QED
  BY <1>3, <1>4, <1>5, <1>6

\* The loader thread's request, as long as nothing goes wrong, and the engine's raw resource.
LEMMA RequestStep ==
  ASSUME LoadingInv, NEW r \in External, OpenCarrier(r) \/ Push(r) \/ Complete(r)
  PROVE  LoadingInv'
<1> USE DEF LoadingInv
<1>1. UNCHANGED <<runtimes, mapping, replaced, game, callbacks>>
  BY DEF OpenCarrier, Push, Complete
<1>2. request' = request \/ (request[r] # "none" /\ \E to \in {"opened", "pushed"} : request' = [request EXCEPT ![r] = to])
  BY DEF OpenCarrier, Push, Complete
<1>3. LoadingTypes' /\ HookedWhileSwitching'
  BY <1>1, <1>2 DEF LoadingTypes, HookedWhileSwitching
<1>4. RequestsAreMapped' /\ CalledLate' /\ UnservedRequestsFail'
  BY <1>1, <1>2 DEF RequestsAreMapped, CalledLate, UnservedRequestsFail, Mapped, LoadingTypes, OnName
<1>5. FinalizedOnceAsItself' /\ FailuresStick'
  BY <1>1 DEF FinalizedOnceAsItself, FailuresStick, Name
<1> QED
  BY <1>3, <1>4, <1>5

\* The mapping exists before the engine is asked, so no request finds its name unmapped.
LEMMA OriginalStep ==
  ASSUME LoadingInv, NEW r \in External, QueueOriginal(r)
  PROVE  FALSE
  BY DEF LoadingInv, RequestsAreMapped, QueueOriginal

LEMMA RefusedStep ==
  ASSUME LoadingInv, NEW r \in External, QueueRefused(r) \/ CarrierFails(r) \/ OpenStreamFails(r)
  PROVE  LoadingInv'
<1>1. PICK thread \in Threads : mapping' = FailingBy(r, thread)
  BY DEF QueueRefused, CarrierFails, OpenStreamFails, Refuse, Threads
<1>2. request' = request \/ (request' = [request EXCEPT ![r] = "refused"] /\ request[r] # "none")
  BY DEF QueueRefused, CarrierFails, OpenStreamFails, Refuse
<1>3. UNCHANGED <<runtimes, raw, replaced, callbacks>> /\ game' = game
  BY DEF QueueRefused, CarrierFails, OpenStreamFails, Refuse
<1> QED
  BY <1>1, <1>2, <1>3, FailingStep

-----------------------------------------------------------------------------
\* Registration and the call of the engine's load.
LEMMA LoadStep ==
  ASSUME LoadingInv, (\E r \in External : Load(r)) \/ CallLoad
  PROVE  LoadingInv'
<1> USE DEF LoadingInv
<1>1. CASE CallLoad
  <2>1. game.name \in External /\ Mapped(game.name)
    BY <1>1 DEF CallLoad, LoadingTypes, RequestsAreMapped, OnName
  <2>2. /\ UNCHANGED <<runtimes, mapping, raw, replaced, callbacks>> /\ game' = Idle
        /\ request' = [request EXCEPT ![game.name] = "loading"]
    BY <1>1 DEF CallLoad, Returns
  <2>3. LoadingTypes' /\ HookedWhileSwitching'
    BY <1>1, <2>1, <2>2 DEF LoadingTypes, HookedWhileSwitching, Idle, CallLoad
  <2>4. RequestsAreMapped' /\ CalledLate' /\ UnservedRequestsFail'
    BY <2>1, <2>2 DEF RequestsAreMapped, CalledLate, UnservedRequestsFail, Mapped, LoadingTypes, Idle, OnName
  <2>5. FinalizedOnceAsItself' /\ FailuresStick'
    BY <2>2 DEF FinalizedOnceAsItself, FailuresStick, Name
  <2> QED
    BY <2>3, <2>4, <2>5
<1>2. ASSUME NEW r \in External, Load(r) PROVE LoadingInv'
  <2>1. /\ UNCHANGED <<runtimes, request, raw, replaced, callbacks>> /\ game' = [at |-> "load", name |-> r]
        /\ mapping[r].state = "none" /\ mapping' = [mapping EXCEPT ![r].state = "pending"] /\ game = Idle
    BY <1>2 DEF Load, Calls, RegisterMapping, Mapped
  <2>2. /\ mapping' \in [External -> Mapping]
        /\ \A s \in External : s # r => mapping'[s] = mapping[s]
        /\ mapping'[r].state = "pending" /\ mapping'[r].by = mapping[r].by
    BY <2>1 DEF LoadingTypes, Mapping, States, Threads
  <2>3. mapping[r].by = "nobody" /\ request[r] = "none" /\ ~(callbacks[r][r] > 0)
    BY <2>1 DEF FailuresStick, RequestsAreMapped, Mapped, CalledLate
  <2>4. LoadingTypes' /\ HookedWhileSwitching'
    BY <2>1, <2>2 DEF LoadingTypes, HookedWhileSwitching, Idle, OnName
  <2>5. RequestsAreMapped' /\ UnservedRequestsFail'
    BY <2>1, <2>2, <2>3 DEF RequestsAreMapped, UnservedRequestsFail, Mapped, LoadingTypes, OnName
  <2>6. CalledLate'
    BY <2>1, <2>2, <2>3 DEF CalledLate
  <2>7. FinalizedOnceAsItself'
    BY <2>1 DEF FinalizedOnceAsItself, Name
  <2>8. FailuresStick'
    BY <2>1, <2>2, <2>3 DEF FailuresStick
  <2> QED
    BY <2>4, <2>5, <2>6, <2>7, <2>8
<1> QED
  BY <1>1, <1>2

\* The question after the state, the swap that acquires, and the end of the finalization.
LEMMA StateStep ==
  ASSUME LoadingInv, (\E r \in External : AskState(r)) \/ Begin \/ Mark \/ FailReturns
  PROVE  LoadingInv'
<1> USE DEF LoadingInv
<1>1. CASE \E r \in External : AskState(r)
  <2>1. PICK r \in External : AskState(r)
    BY <1>1
  <2>2. /\ UNCHANGED <<runtimes, mapping, request, raw, replaced, callbacks>>
        /\ Mapped(r) /\ game = Idle /\ game' \in {Idle, [at |-> "begin", name |-> r]}
    BY <2>1 DEF AskState, Calls, Returns, Mapped
  <2>3. LoadingTypes' /\ HookedWhileSwitching'
    BY <2>2 DEF LoadingTypes, HookedWhileSwitching, Idle, OnName
  <2>4. RequestsAreMapped' /\ CalledLate'
    BY <2>2 DEF RequestsAreMapped, CalledLate, Mapped, Idle, OnName
  <2>5. FinalizedOnceAsItself' /\ FailuresStick' /\ UnservedRequestsFail'
    BY <2>2 DEF FinalizedOnceAsItself, FailuresStick, UnservedRequestsFail, Name
  <2> QED
    BY <2>3, <2>4, <2>5
<1>2. CASE FailReturns
  <2>1. UNCHANGED <<runtimes, mapping, request, raw, replaced, callbacks>> /\ game' = Idle /\ game.at = "fail"
    BY <1>2 DEF FailReturns, Returns
  <2>2. LoadingTypes' /\ HookedWhileSwitching' /\ RequestsAreMapped' /\ CalledLate'
    BY <2>1 DEF LoadingTypes, HookedWhileSwitching, RequestsAreMapped, CalledLate, Mapped, Idle, OnName
  <2>3. FinalizedOnceAsItself' /\ FailuresStick' /\ UnservedRequestsFail'
    BY <2>1 DEF FinalizedOnceAsItself, FailuresStick, UnservedRequestsFail, Name
  <2> QED
    BY <2>2, <2>3
<1>3. CASE Begin \/ Mark
  <2>1. PICK r \in External : r = game.name
    BY <1>3 DEF Begin, Mark, LoadingTypes
  <2>2. /\ UNCHANGED <<runtimes, request, raw, replaced, callbacks>>
        /\ game.at \in {"begin", "mark"} /\ game' \in {Idle, [at |-> "finalize", name |-> r]}
    BY <1>3, <2>1 DEF Begin, Mark, Calls, Returns
  <2>3. /\ mapping' \in [External -> Mapping]
        /\ \A s \in External : s # r => mapping'[s] = mapping[s]
        /\ \/ mapping'[r] = mapping[r] /\ game' = Idle
           \/ mapping[r].state = "pending" /\ mapping'[r].state = "finalizing"
           \/ mapping[r].state = "finalizing" /\ mapping'[r].state = "ready" /\ game' = Idle
        /\ mapping'[r].by = mapping[r].by
    <3>1. PICK m \in Mapping : m = mapping[r]
      BY DEF LoadingTypes
    <3>2. mapping \in [External -> Mapping]
      BY DEF LoadingTypes
    <3>3. CASE mapping' = mapping /\ game' = Idle
      BY <3>2, <3>3
    <3>4. CASE \E s \in States : /\ mapping' = [mapping EXCEPT ![r].state = s]
                                 /\ \/ m.state = "pending" /\ s = "finalizing"
                                    \/ m.state = "finalizing" /\ s = "ready" /\ game' = Idle
      <4>1. PICK s \in States : /\ mapping' = [mapping EXCEPT ![r].state = s]
                                /\ \/ m.state = "pending" /\ s = "finalizing"
                                   \/ m.state = "finalizing" /\ s = "ready" /\ game' = Idle
        BY <3>4
      <4> DEFINE n == [m EXCEPT !.state = s]
      <4>2. n \in Mapping /\ n.state = s /\ n.by = m.by
        BY DEF Mapping
      <4>3. mapping' = [mapping EXCEPT ![r] = n]
        BY <3>1, <4>1
      <4> HIDE DEF n
      <4>4. /\ mapping' \in [External -> Mapping] /\ mapping'[r] = n
            /\ \A x \in External : x # r => mapping'[x] = mapping[x]
        BY <3>2, <4>2, <4>3
      <4> QED
        BY <3>1, <4>1, <4>2, <4>4
    <3>5. \/ mapping' = mapping /\ game' = Idle
          \/ m.state = "pending" /\ mapping' = [mapping EXCEPT ![r].state = "finalizing"]
          \/ m.state = "finalizing" /\ mapping' = [mapping EXCEPT ![r].state = "ready"] /\ game' = Idle
      <4>1. CASE Begin
        BY <2>1, <3>1, <4>1 DEF Begin, Returns
      <4>2. CASE Mark
        BY <2>1, <3>1, <4>2 DEF Mark, MarkReady, Returns
      <4> QED
        BY <1>3, <4>1, <4>2
    <3>6. "finalizing" \in States /\ "ready" \in States
      BY DEF States
    <3> QED
      BY <3>3, <3>4, <3>5, <3>6
  <2>4. LoadingTypes' /\ HookedWhileSwitching'
    BY <2>1, <2>2, <2>3 DEF LoadingTypes, HookedWhileSwitching, Idle, OnName
  <2>5. RequestsAreMapped' /\ UnservedRequestsFail'
    BY <2>1, <2>2, <2>3 DEF RequestsAreMapped, UnservedRequestsFail, Mapped, Idle, OnName
  <2>6. CalledLate'
    BY <2>1, <2>2, <2>3 DEF CalledLate, Idle
  <2>7. FinalizedOnceAsItself'
    BY <2>2 DEF FinalizedOnceAsItself, Name
  <2>8. FailuresStick'
    BY <2>2, <2>3 DEF FailuresStick
  <2> QED
    BY <2>4, <2>5, <2>6, <2>7, <2>8
<1> QED
  BY <1>1, <1>2, <1>3

\* The callback gets the raw resource of its own name, and gets it once.
LEMMA FinalizeStep ==
  ASSUME LoadingInv, Finalize
  PROVE  LoadingInv'
<1> USE DEF LoadingInv
<1>1. PICK r \in External : r = game.name
  BY DEF Finalize, LoadingTypes
<1>2. OwnLookup(r) = r
  BY DEF OwnLookup, Finalize, HookedWhileSwitching
<1>3. callbacks[r][r] = 0
  BY <1>1 DEF CalledLate, Finalize, LoadingTypes, Name
<1>4. PICK called \in {0, 1} : callbacks' = [callbacks EXCEPT ![r][r] = @ + called]
  BY <1>1, <1>2 DEF Finalize
<1>5. UNCHANGED <<runtimes, mapping, request, raw, replaced>> /\ game' = [at |-> "mark", name |-> r] /\ game.at = "finalize"
  BY <1>1 DEF Finalize, Calls
<1>6. /\ callbacks' \in [Name -> [Name -> Nat]]
      /\ callbacks'[r][r] \in {0, 1}
      /\ \A a, b \in Name : <<a, b>> # <<r, r>> => callbacks'[a][b] = callbacks[a][b]
  BY <1>3, <1>4 DEF LoadingTypes, Name
<1>7. LoadingTypes' /\ HookedWhileSwitching'
  BY <1>1, <1>5, <1>6 DEF LoadingTypes, HookedWhileSwitching, OnName
<1>8. mapping[r].state \notin {"none", "pending"}
  BY <1>1 DEF Finalize, RequestsAreMapped, Mapped, OnName
<1>9. RequestsAreMapped' /\ FailuresStick' /\ UnservedRequestsFail'
  BY <1>1, <1>5 DEF RequestsAreMapped, FailuresStick, UnservedRequestsFail, Mapped, OnName
<1>10. CalledLate'
  BY <1>5, <1>6, <1>8 DEF CalledLate, Name
<1>11. FinalizedOnceAsItself'
  BY <1>6 DEF FinalizedOnceAsItself, Name
<1> QED
  BY <1>7, <1>9, <1>10, <1>11

LEMMA FinalizeFailsStep ==
  ASSUME LoadingInv, FinalizeFails
  PROVE  LoadingInv'
<1>1. PICK r \in External : r = game.name
  BY DEF FinalizeFails, LoadingInv, LoadingTypes
<1>2. mapping' = FailingBy(r, "game") /\ game' = [at |-> "fail", name |-> r] /\ game.at = "finalize"
  BY <1>1 DEF FinalizeFails, Calls
<1>3. UNCHANGED <<runtimes, request, raw, replaced, callbacks>>
  BY DEF FinalizeFails
<1> QED
  BY <1>1, <1>2, <1>3, FailingStep DEF Threads

LEMMA ReplaceStep ==
  ASSUME LoadingInv, NEW target, NEW source, Replace(target, source)
  PROVE  LoadingInv'
  BY DEF Replace, LoadingInv, LoadingTypes, HookedWhileSwitching, RequestsAreMapped, CalledLate,
         FinalizedOnceAsItself, FailuresStick, UnservedRequestsFail, Mapped, Name

-----------------------------------------------------------------------------
LEMMA LoadingInvStep ==
  ASSUME LoadingInv, [LoadingNext]_loadingVars
  PROVE  LoadingInv'
<1>1. CASE UNCHANGED loadingVars \/ \E r \in External : LoadAnswers(r)
  <2>1. UNCHANGED <<runtimes, mapping, request, raw, replaced, game, callbacks>>
    BY <1>1 DEF LoadAnswers, loadingVars
  <2>2. LoadingTypes' /\ HookedWhileSwitching' /\ RequestsAreMapped' /\ CalledLate'
    BY <2>1 DEF LoadingInv, LoadingTypes, HookedWhileSwitching, RequestsAreMapped, CalledLate, Mapped
  <2>3. FinalizedOnceAsItself' /\ FailuresStick' /\ UnservedRequestsFail'
    BY <2>1 DEF LoadingInv, FinalizedOnceAsItself, FailuresStick, UnservedRequestsFail, Name
  <2> QED
    BY <2>2, <2>3 DEF LoadingInv
<1>2. CASE LoadingNext /\ ~\E r \in External : LoadAnswers(r)
  BY <1>2, RuntimeStep, ErrorStep, RequestStep, OriginalStep, RefusedStep, LoadStep, StateStep, FinalizeStep,
     FinalizeFailsStep, ReplaceStep DEF LoadingNext
<1> QED
  BY <1>1, <1>2

\* Whichever threads meet over a resource, its callback is run once and with its own raw resource, a failure
\* sticks and its text is whole, and no request is left without an answer (mapping/state.c, hooks/queue.c, api/load.c).
THEOREM ResourcesCorrect == LoadingSpec => []ResourcesAreServed
<1>1. LoadingInv => ResourcesAreServed
  BY DEF LoadingInv, ResourcesAreServed
<1> QED
  BY <1>1, LoadingInvInit, LoadingInvStep, PTL DEF LoadingSpec

-----------------------------------------------------------------------------
(***************************************************************************)
(* Every caller of dt-cli's pipe is answered, for any number of connections,*)
(* starts and a queue of any size (PipeServer).                             *)
(*                                                                          *)
(* A request is in one place at a time: with its handler before it is       *)
(* queued, in the queue, with the game's thread, or done.  An error is only *)
(* replied by a handler that has not given its request away, so what was    *)
(* refused is never executed; and a channel is only closed by Stop, which   *)
(* remembers whom it left without an answer.                                *)
(***************************************************************************)

Places == {"none", "read", "register", "enqueue", "await", "leave", "unread", "refused", "gone"}
BeforeQueue == {"none", "read", "register", "enqueue", "unread", "refused"}

Queued == {requests[i] : i \in DOMAIN requests}
InGame == IF gameThread.at \in {"execute", "respond"} THEN {gameThread.request} ELSE {}

PipeTypes ==
  /\ server \in [running : BOOLEAN, open : BOOLEAN, starts : Nat]
  /\ accepting \in Connection \cup {"gone", "accept"}
  /\ {conns, pending, severed} \subseteq SUBSET Connection
  /\ requests \in Seq(Connection)
  /\ handler \in [Connection -> Places]
  /\ response \in [Connection -> {"none", "open", "filled", "closed"}]
  /\ gameThread \in [at : {"rest", "close", "wait"}] \cup [at : {"execute", "respond"}, request : Connection]
  /\ received \in [Connection -> {"none", "error", "result"}]
  /\ executed \in [done : SUBSET Connection, stopped : SUBSET Connection]

\* What is left of a server that was stopped, and the game's thread in it.
ServerFits ==
  /\ ~server.running => conns = {} /\ pending = {} /\ Running \subseteq executed.stopped
  /\ ~server.running /\ gameThread.at = "rest" => Running = {}
  /\ gameThread.at \in {"execute", "respond"} => server.running
  /\ gameThread.at \in {"close", "wait"} => ~server.running
  /\ accepting \in Connection => handler[accepting] = "none"

\* The tables hold connections whose handlers run, and requests without an answer.
TablesFit ==
  /\ conns \subseteq Running
  /\ severed \subseteq executed.stopped
  /\ \A c \in pending : handler[c] \in {"enqueue", "await"} /\ response[c] \notin {"filled", "closed"}

\* An answer was executed, and a channel closes only under a stopped server.
ResponsesFit ==
  /\ \A c \in Connection :
       /\ response[c] = "filled" => c \in executed.done
       /\ response[c] = "closed" => c \in executed.stopped
  /\ gameThread.at = "respond" => gameThread.request \in executed.done \ pending

\* What its handler still holds was given to nobody.
HandlersFit ==
  \A c \in Connection : handler[c] \in BeforeQueue =>
    c \notin Queued \cup InGame \cup executed.done /\ received[c] = "none"

RepliesFit ==
  \A c \in Connection :
    /\ received[c] = "result" => c \in executed.done
    /\ received[c] = "error" => handler[c] \in {"leave", "gone"} /\ c \notin Queued \cup InGame \cup executed.done
    /\ handler[c] \in {"leave", "gone"} /\ c \notin executed.stopped => received[c] # "none"

PipeInv == PipeTypes /\ ServerFits /\ TablesFit /\ ResponsesFit /\ HandlersFit /\ RepliesFit

-----------------------------------------------------------------------------
LEMMA PipeInvInit == PipeInit => PipeInv
<1> SUFFICES ASSUME PipeInit PROVE PipeInv
  OBVIOUS
<1>1. PipeTypes
  BY DEF PipeInit, PipeTypes, Places, Rests
<1>2. Running = {} /\ Queued = {}
  BY DEF PipeInit, Running, Queued
<1> QED
  BY <1>1, <1>2, PipeAssumption
  DEF PipeInit, PipeInv, ServerFits, TablesFit, ResponsesFit, HandlersFit, RepliesFit, InGame, Rests

LEMMA StartServerStep ==
  ASSUME PipeInv, StartServer
  PROVE  PipeInv'
<1> USE DEF PipeInv, PipeTypes, Places, BeforeQueue, StartServer, Moves, AtRest, Rests
<1>0. Queued' = {} /\ InGame' = InGame
  BY DEF Queued, InGame
<1>1. PipeTypes'
  BY <1>0, PipeAssumption
<1>2. ServerFits'
  BY <1>0, PipeAssumption DEF ServerFits, Running
<1>3. TablesFit'
  BY <1>0, PipeAssumption DEF ServerFits, TablesFit, ResponsesFit, Running
<1>4. ResponsesFit'
  BY <1>0, PipeAssumption DEF ServerFits, TablesFit, ResponsesFit, HandlersFit, InGame, Running
<1>5. HandlersFit'
  BY <1>0, PipeAssumption DEF HandlersFit, ServerFits, InGame
<1>6. RepliesFit'
  BY <1>0, PipeAssumption DEF HandlersFit, ServerFits, TablesFit, ResponsesFit, RepliesFit, InGame, Running
<1> QED
  BY <1>1, <1>2, <1>3, <1>4, <1>5, <1>6

LEMMA PollRequestStep ==
  ASSUME PipeInv, PollRequest
  PROVE  PipeInv'
<1> USE DEF PipeInv, PipeTypes, Places, BeforeQueue, PollRequest, Moves, AtRest, Rests
<1>0. Queued' \cup InGame' \subseteq Queued \cup InGame /\ InGame' \subseteq Connection
  BY DEF Queued, InGame
<1>1. PipeTypes'
  BY <1>0, PipeAssumption
<1>2. ServerFits'
  BY <1>0, PipeAssumption DEF ServerFits, Running
<1>3. TablesFit'
  BY <1>0, PipeAssumption DEF ServerFits, TablesFit, ResponsesFit, Running
<1>4. ResponsesFit'
  BY <1>0, PipeAssumption DEF ServerFits, TablesFit, ResponsesFit, HandlersFit, InGame, Running
<1>5. HandlersFit'
  BY <1>0, PipeAssumption DEF HandlersFit, ServerFits, InGame
<1>6. RepliesFit'
  BY <1>0, PipeAssumption DEF HandlersFit, ServerFits, TablesFit, ResponsesFit, RepliesFit, InGame, Running
<1> QED
  BY <1>1, <1>2, <1>3, <1>4, <1>5, <1>6

LEMMA RespondStep ==
  ASSUME PipeInv, Respond
  PROVE  PipeInv'
<1> USE DEF PipeInv, PipeTypes, Places, BeforeQueue, Respond, Moves, AtRest, Rests
<1>0. Queued' = Queued /\ InGame' \subseteq InGame
  BY DEF Queued, InGame
<1>1. PipeTypes'
  <2>1. gameThread.request \in Connection /\ Rests \in [at : {"rest", "close", "wait"}]
    OBVIOUS
  <2>2. gameThread' \in [at : {"rest", "close", "wait"}] \cup [at : {"execute", "respond"}, request : Connection]
    BY <2>1
  <2>3. executed' \in [done : SUBSET Connection, stopped : SUBSET Connection] /\ pending' \subseteq Connection
    BY <2>1
  <2> QED
    BY <2>2, <2>3
<1>2. ServerFits'
  BY <1>0, PipeAssumption DEF ServerFits, Running
<1>3. TablesFit'
  BY <1>0, PipeAssumption DEF ServerFits, TablesFit, ResponsesFit, Running
<1>4. ResponsesFit'
  BY <1>0, PipeAssumption DEF ServerFits, TablesFit, ResponsesFit, HandlersFit, InGame, Running
<1>5. HandlersFit'
  BY <1>0, PipeAssumption DEF HandlersFit, ServerFits, InGame
<1>6. RepliesFit'
  BY <1>0, PipeAssumption DEF HandlersFit, ServerFits, TablesFit, ResponsesFit, RepliesFit, InGame, Running
<1> QED
  BY <1>1, <1>2, <1>3, <1>4, <1>5, <1>6

LEMMA SendResponseStep ==
  ASSUME PipeInv, SendResponse
  PROVE  PipeInv'
<1> USE DEF PipeInv, PipeTypes, Places, BeforeQueue, SendResponse, Moves, AtRest, Rests
<1>0. Queued' = Queued /\ InGame' \subseteq InGame
  BY DEF Queued, InGame
<1>1. PipeTypes'
  BY <1>0, PipeAssumption
<1>2. ServerFits'
  BY <1>0, PipeAssumption DEF ServerFits, Running
<1>3. TablesFit'
  BY <1>0, PipeAssumption DEF ServerFits, TablesFit, ResponsesFit, Running
<1>4. ResponsesFit'
  BY <1>0, PipeAssumption DEF ServerFits, TablesFit, ResponsesFit, HandlersFit, InGame, Running
<1>5. HandlersFit'
  BY <1>0, PipeAssumption DEF HandlersFit, ServerFits, InGame
<1>6. RepliesFit'
  BY <1>0, PipeAssumption DEF HandlersFit, ServerFits, TablesFit, ResponsesFit, RepliesFit, InGame, Running
<1> QED
  BY <1>1, <1>2, <1>3, <1>4, <1>5, <1>6

LEMMA StopStep ==
  ASSUME PipeInv, Stop
  PROVE  PipeInv'
<1> USE DEF PipeInv, PipeTypes, Places, BeforeQueue, Stop, Moves, AtRest, Rests
<1>0. Queued' = Queued /\ InGame' \subseteq InGame
  BY DEF Queued, InGame
<1>1. PipeTypes'
  BY <1>0, PipeAssumption DEF Running
<1>2. ServerFits'
  BY <1>0, PipeAssumption DEF ServerFits, Running
<1>3. TablesFit'
  BY <1>0, PipeAssumption DEF ServerFits, TablesFit, ResponsesFit, Running
<1>4. ResponsesFit'
  BY <1>0, PipeAssumption DEF ServerFits, TablesFit, ResponsesFit, HandlersFit, InGame, Running
<1>5. HandlersFit'
  BY <1>0, PipeAssumption DEF HandlersFit, ServerFits, InGame
<1>6. RepliesFit'
  BY <1>0, PipeAssumption DEF HandlersFit, ServerFits, TablesFit, ResponsesFit, RepliesFit, InGame, Running
<1> QED
  BY <1>1, <1>2, <1>3, <1>4, <1>5, <1>6

LEMMA CloseListenerStep ==
  ASSUME PipeInv, CloseListener
  PROVE  PipeInv'
<1> USE DEF PipeInv, PipeTypes, Places, BeforeQueue, CloseListener, Moves, AtRest, Rests
<1>0. Queued' = Queued /\ InGame' \subseteq InGame
  BY DEF Queued, InGame
<1>1. PipeTypes'
  BY <1>0, PipeAssumption
<1>2. ServerFits'
  BY <1>0, PipeAssumption DEF ServerFits, Running
<1>3. TablesFit'
  BY <1>0, PipeAssumption DEF ServerFits, TablesFit, ResponsesFit, Running
<1>4. ResponsesFit'
  BY <1>0, PipeAssumption DEF ServerFits, TablesFit, ResponsesFit, HandlersFit, InGame, Running
<1>5. HandlersFit'
  BY <1>0, PipeAssumption DEF HandlersFit, ServerFits, InGame
<1>6. RepliesFit'
  BY <1>0, PipeAssumption DEF HandlersFit, ServerFits, TablesFit, ResponsesFit, RepliesFit, InGame, Running
<1> QED
  BY <1>1, <1>2, <1>3, <1>4, <1>5, <1>6

LEMMA StoppedStep ==
  ASSUME PipeInv, Stopped
  PROVE  PipeInv'
<1> USE DEF PipeInv, PipeTypes, Places, BeforeQueue, Stopped, Moves, AtRest, Rests
<1>0. Queued' = Queued /\ InGame' \subseteq InGame
  BY DEF Queued, InGame
<1>1. PipeTypes'
  BY <1>0, PipeAssumption
<1>2. ServerFits'
  BY <1>0, PipeAssumption DEF ServerFits, Running
<1>3. TablesFit'
  BY <1>0, PipeAssumption DEF ServerFits, TablesFit, ResponsesFit, Running
<1>4. ResponsesFit'
  BY <1>0, PipeAssumption DEF ServerFits, TablesFit, ResponsesFit, HandlersFit, InGame, Running
<1>5. HandlersFit'
  BY <1>0, PipeAssumption DEF HandlersFit, ServerFits, InGame
<1>6. RepliesFit'
  BY <1>0, PipeAssumption DEF HandlersFit, ServerFits, TablesFit, ResponsesFit, RepliesFit, InGame, Running
<1> QED
  BY <1>1, <1>2, <1>3, <1>4, <1>5, <1>6

LEMMA AcceptStep ==
  ASSUME PipeInv, NEW c \in Connection, Accept(c)
  PROVE  PipeInv'
<1> USE DEF PipeInv, PipeTypes, Places, BeforeQueue, Accept, Moves, AtRest, Rests
<1>0. Queued' = Queued /\ InGame' \subseteq InGame
  BY DEF Queued, InGame
<1>1. PipeTypes'
  BY <1>0, PipeAssumption
<1>2. ServerFits'
  BY <1>0, PipeAssumption DEF ServerFits, Running
<1>3. TablesFit'
  BY <1>0, PipeAssumption DEF ServerFits, TablesFit, ResponsesFit, Running
<1>4. ResponsesFit'
  BY <1>0, PipeAssumption DEF ServerFits, TablesFit, ResponsesFit, HandlersFit, InGame, Running
<1>5. HandlersFit'
  BY <1>0, PipeAssumption DEF HandlersFit, ServerFits, InGame
<1>6. RepliesFit'
  BY <1>0, PipeAssumption DEF HandlersFit, ServerFits, TablesFit, ResponsesFit, RepliesFit, InGame, Running
<1> QED
  BY <1>1, <1>2, <1>3, <1>4, <1>5, <1>6

LEMMA AddConnStep ==
  ASSUME PipeInv, AddConn
  PROVE  PipeInv'
<1> USE DEF PipeInv, PipeTypes, Places, BeforeQueue, AddConn, Admits, Moves, AtRest, Rests
<1>0. Queued' = Queued /\ InGame' \subseteq InGame
  BY DEF Queued, InGame
<1>1. PipeTypes'
  BY <1>0, PipeAssumption
<1>2. ServerFits'
  BY <1>0, PipeAssumption DEF ServerFits, Running
<1>3. TablesFit'
  BY <1>0, PipeAssumption DEF ServerFits, TablesFit, ResponsesFit, Running
<1>4. ResponsesFit'
  BY <1>0, PipeAssumption DEF ServerFits, TablesFit, ResponsesFit, HandlersFit, InGame, Running
<1>5. HandlersFit'
  BY <1>0, PipeAssumption DEF HandlersFit, ServerFits, InGame
<1>6. RepliesFit'
  BY <1>0, PipeAssumption DEF HandlersFit, ServerFits, TablesFit, ResponsesFit, RepliesFit, InGame, Running
<1> QED
  BY <1>1, <1>2, <1>3, <1>4, <1>5, <1>6

LEMMA AcceptEndsStep ==
  ASSUME PipeInv, AcceptEnds
  PROVE  PipeInv'
<1> USE DEF PipeInv, PipeTypes, Places, BeforeQueue, AcceptEnds, Moves, AtRest, Rests
<1>0. Queued' = Queued /\ InGame' \subseteq InGame
  BY DEF Queued, InGame
<1>1. PipeTypes'
  BY <1>0, PipeAssumption
<1>2. ServerFits'
  BY <1>0, PipeAssumption DEF ServerFits, Running
<1>3. TablesFit'
  BY <1>0, PipeAssumption DEF ServerFits, TablesFit, ResponsesFit, Running
<1>4. ResponsesFit'
  BY <1>0, PipeAssumption DEF ServerFits, TablesFit, ResponsesFit, HandlersFit, InGame, Running
<1>5. HandlersFit'
  BY <1>0, PipeAssumption DEF HandlersFit, ServerFits, InGame
<1>6. RepliesFit'
  BY <1>0, PipeAssumption DEF HandlersFit, ServerFits, TablesFit, ResponsesFit, RepliesFit, InGame, Running
<1> QED
  BY <1>1, <1>2, <1>3, <1>4, <1>5, <1>6

LEMMA ReadFrameStep ==
  ASSUME PipeInv, NEW c \in Connection, ReadFrame(c)
  PROVE  PipeInv'
<1> USE DEF PipeInv, PipeTypes, Places, BeforeQueue, ReadFrame, Moves, AtRest, Rests
<1>0. Queued' = Queued /\ InGame' \subseteq InGame
  BY DEF Queued, InGame
<1>1. PipeTypes'
  BY <1>0, PipeAssumption
<1>2. ServerFits'
  BY <1>0, PipeAssumption DEF ServerFits, Running
<1>3. TablesFit'
  BY <1>0, PipeAssumption DEF ServerFits, TablesFit, ResponsesFit, Running
<1>4. ResponsesFit'
  BY <1>0, PipeAssumption DEF ServerFits, TablesFit, ResponsesFit, HandlersFit, InGame, Running
<1>5. HandlersFit'
  BY <1>0, PipeAssumption DEF HandlersFit, ServerFits, InGame
<1>6. RepliesFit'
  BY <1>0, PipeAssumption DEF HandlersFit, ServerFits, TablesFit, ResponsesFit, RepliesFit, InGame, Running
<1> QED
  BY <1>1, <1>2, <1>3, <1>4, <1>5, <1>6

LEMMA ReadFailsStep ==
  ASSUME PipeInv, NEW c \in Connection, ReadFails(c)
  PROVE  PipeInv'
<1> USE DEF PipeInv, PipeTypes, Places, BeforeQueue, ReadFails, Moves, AtRest, Rests
<1>0. Queued' = Queued /\ InGame' \subseteq InGame
  BY DEF Queued, InGame
<1>1. PipeTypes'
  BY <1>0, PipeAssumption
<1>2. ServerFits'
  BY <1>0, PipeAssumption DEF ServerFits, Running
<1>3. TablesFit'
  BY <1>0, PipeAssumption DEF ServerFits, TablesFit, ResponsesFit, Running
<1>4. ResponsesFit'
  BY <1>0, PipeAssumption DEF ServerFits, TablesFit, ResponsesFit, HandlersFit, InGame, Running
<1>5. HandlersFit'
  BY <1>0, PipeAssumption DEF HandlersFit, ServerFits, InGame
<1>6. RepliesFit'
  BY <1>0, PipeAssumption DEF HandlersFit, ServerFits, TablesFit, ResponsesFit, RepliesFit, InGame, Running
<1> QED
  BY <1>1, <1>2, <1>3, <1>4, <1>5, <1>6

LEMMA RegisterRequestStep ==
  ASSUME PipeInv, NEW c \in Connection, RegisterRequest(c)
  PROVE  PipeInv'
<1> USE DEF PipeInv, PipeTypes, Places, BeforeQueue, RegisterRequest, Replies, Moves, AtRest, Rests
<1>0. Queued' = Queued /\ InGame' \subseteq InGame
  BY DEF Queued, InGame
<1>1. PipeTypes'
  <2>1. handler' \in [Connection -> Places]
    <3>1. \E place \in {"enqueue", "leave"} : handler' = [handler EXCEPT ![c] = place]
      OBVIOUS
    <3> QED
      BY <3>1
  <2>2. response' \in [Connection -> {"none", "open", "filled", "closed"}] /\ pending' \subseteq Connection
    <3>1. \/ response' = response /\ pending' = pending
          \/ response' = [response EXCEPT ![c] = "open"] /\ pending' = pending \cup {c}
      OBVIOUS
    <3> QED
      BY <3>1
  <2>3. received' \in [Connection -> {"none", "error", "result"}]
    <3>1. \/ received' = received
          \/ \E what \in {received[c], "error"} : received' = [received EXCEPT ![c] = what]
      OBVIOUS
    <3> QED
      BY <3>1
  <2> QED
    BY <2>1, <2>2, <2>3
<1>2. ServerFits'
  BY <1>0, PipeAssumption DEF ServerFits, Running
<1>3. TablesFit'
  BY <1>0, PipeAssumption DEF ServerFits, TablesFit, ResponsesFit, Running
<1>4. ResponsesFit'
  BY <1>0, PipeAssumption DEF ServerFits, TablesFit, ResponsesFit, HandlersFit, InGame, Running
<1>5. HandlersFit'
  BY <1>0, PipeAssumption DEF HandlersFit, ServerFits, InGame
<1>6. RepliesFit'
  BY <1>0, PipeAssumption DEF HandlersFit, ServerFits, TablesFit, ResponsesFit, RepliesFit, InGame, Running
<1> QED
  BY <1>1, <1>2, <1>3, <1>4, <1>5, <1>6

LEMMA EnqueueStep ==
  ASSUME PipeInv, NEW c \in Connection, Enqueue(c)
  PROVE  PipeInv'
<1> USE DEF PipeInv, PipeTypes, Places, BeforeQueue, Enqueue, Moves, AtRest, Rests
<1>0. Queued' \subseteq Queued \cup {c} /\ InGame' = InGame
  BY DEF Queued, InGame
<1>1. PipeTypes'
  BY <1>0, PipeAssumption
<1>2. ServerFits'
  BY <1>0, PipeAssumption DEF ServerFits, Running
<1>3. TablesFit'
  BY <1>0, PipeAssumption DEF ServerFits, TablesFit, ResponsesFit, Running
<1>4. ResponsesFit'
  BY <1>0, PipeAssumption DEF ServerFits, TablesFit, ResponsesFit, HandlersFit, InGame, Running
<1>5. HandlersFit'
  BY <1>0, PipeAssumption DEF HandlersFit, ServerFits, InGame
<1>6. RepliesFit'
  BY <1>0, PipeAssumption DEF HandlersFit, ServerFits, TablesFit, ResponsesFit, RepliesFit, InGame, Running
<1> QED
  BY <1>1, <1>2, <1>3, <1>4, <1>5, <1>6

LEMMA AbandonStep ==
  ASSUME PipeInv, NEW c \in Connection, Abandon(c)
  PROVE  PipeInv'
<1> USE DEF PipeInv, PipeTypes, Places, BeforeQueue, Abandon, Done, Moves, AtRest, Rests
<1>0. Queued' = Queued /\ InGame' \subseteq InGame
  BY DEF Queued, InGame
<1>1. PipeTypes'
  BY <1>0, PipeAssumption
<1>2. ServerFits'
  BY <1>0, PipeAssumption DEF ServerFits, Running
<1>3. TablesFit'
  BY <1>0, PipeAssumption DEF ServerFits, TablesFit, ResponsesFit, Running
<1>4. ResponsesFit'
  BY <1>0, PipeAssumption DEF ServerFits, TablesFit, ResponsesFit, HandlersFit, InGame, Running
<1>5. HandlersFit'
  BY <1>0, PipeAssumption DEF HandlersFit, ServerFits, InGame
<1>6. RepliesFit'
  BY <1>0, PipeAssumption DEF HandlersFit, ServerFits, TablesFit, ResponsesFit, RepliesFit, InGame, Running
<1> QED
  BY <1>1, <1>2, <1>3, <1>4, <1>5, <1>6

LEMMA QueueFullStep ==
  ASSUME PipeInv, NEW c \in Connection, QueueFull(c)
  PROVE  PipeInv'
<1> USE DEF PipeInv, PipeTypes, Places, BeforeQueue, QueueFull, Replies, FullAnswer, Moves, AtRest, Rests
<1>0. Queued' = Queued /\ InGame' \subseteq InGame
  BY DEF Queued, InGame
<1>1. PipeTypes'
  BY <1>0, PipeAssumption
<1>2. ServerFits'
  BY <1>0, PipeAssumption DEF ServerFits, Running
<1>3. TablesFit'
  BY <1>0, PipeAssumption DEF ServerFits, TablesFit, ResponsesFit, Running
<1>4. ResponsesFit'
  BY <1>0, PipeAssumption DEF ServerFits, TablesFit, ResponsesFit, HandlersFit, InGame, Running
<1>5. HandlersFit'
  BY <1>0, PipeAssumption DEF HandlersFit, ServerFits, InGame
<1>6. RepliesFit'
  BY <1>0, PipeAssumption DEF HandlersFit, ServerFits, TablesFit, ResponsesFit, RepliesFit, InGame, Running
<1> QED
  BY <1>1, <1>2, <1>3, <1>4, <1>5, <1>6

LEMMA TakeResponseStep ==
  ASSUME PipeInv, NEW c \in Connection, TakeResponse(c)
  PROVE  PipeInv'
<1> USE DEF PipeInv, PipeTypes, Places, BeforeQueue, TakeResponse, Replies, Moves, AtRest, Rests
<1>0. Queued' = Queued /\ InGame' \subseteq InGame
  BY DEF Queued, InGame
<1>1. PipeTypes'
  BY <1>0, PipeAssumption
<1>2. ServerFits'
  BY <1>0, PipeAssumption DEF ServerFits, Running
<1>3. TablesFit'
  BY <1>0, PipeAssumption DEF ServerFits, TablesFit, ResponsesFit, Running
<1>4. ResponsesFit'
  BY <1>0, PipeAssumption DEF ServerFits, TablesFit, ResponsesFit, HandlersFit, InGame, Running
<1>5. HandlersFit'
  BY <1>0, PipeAssumption DEF HandlersFit, ServerFits, InGame
<1>6. RepliesFit'
  BY <1>0, PipeAssumption DEF HandlersFit, ServerFits, TablesFit, ResponsesFit, RepliesFit, InGame, Running
<1> QED
  BY <1>1, <1>2, <1>3, <1>4, <1>5, <1>6

LEMMA LeaveStep ==
  ASSUME PipeInv, NEW c \in Connection, Leave(c)
  PROVE  PipeInv'
<1> USE DEF PipeInv, PipeTypes, Places, BeforeQueue, Leave, Moves, AtRest, Rests
<1>0. Queued' = Queued /\ InGame' \subseteq InGame
  BY DEF Queued, InGame
<1>1. PipeTypes'
  BY <1>0, PipeAssumption
<1>2. ServerFits'
  BY <1>0, PipeAssumption DEF ServerFits, Running
<1>3. TablesFit'
  BY <1>0, PipeAssumption DEF ServerFits, TablesFit, ResponsesFit, Running
<1>4. ResponsesFit'
  BY <1>0, PipeAssumption DEF ServerFits, TablesFit, ResponsesFit, HandlersFit, InGame, Running
<1>5. HandlersFit'
  BY <1>0, PipeAssumption DEF HandlersFit, ServerFits, InGame
<1>6. RepliesFit'
  BY <1>0, PipeAssumption DEF HandlersFit, ServerFits, TablesFit, ResponsesFit, RepliesFit, InGame, Running
<1> QED
  BY <1>1, <1>2, <1>3, <1>4, <1>5, <1>6

-----------------------------------------------------------------------------
LEMMA PipeInvStep == PipeInv /\ [PipeNext]_pipeVars => PipeInv'
<1> SUFFICES ASSUME PipeInv, [PipeNext]_pipeVars PROVE PipeInv'
  OBVIOUS
<1>1. CASE StartServer
  BY <1>1, StartServerStep
<1>2. CASE PollRequest
  BY <1>2, PollRequestStep
<1>3. CASE Respond
  BY <1>3, RespondStep
<1>4. CASE SendResponse
  BY <1>4, SendResponseStep
<1>5. CASE Stop
  BY <1>5, StopStep
<1>6. CASE CloseListener
  BY <1>6, CloseListenerStep
<1>7. CASE Stopped
  BY <1>7, StoppedStep
<1>8. ASSUME NEW c \in Connection, Accept(c) PROVE PipeInv'
  BY <1>8, AcceptStep
<1>9. CASE AddConn
  BY <1>9, AddConnStep
<1>10. CASE AcceptEnds
  BY <1>10, AcceptEndsStep
<1>11. ASSUME NEW c \in Connection, ReadFrame(c) PROVE PipeInv'
  BY <1>11, ReadFrameStep
<1>12. ASSUME NEW c \in Connection, ReadFails(c) PROVE PipeInv'
  BY <1>12, ReadFailsStep
<1>13. ASSUME NEW c \in Connection, RegisterRequest(c) PROVE PipeInv'
  BY <1>13, RegisterRequestStep
<1>14. ASSUME NEW c \in Connection, Enqueue(c) PROVE PipeInv'
  BY <1>14, EnqueueStep
<1>15. ASSUME NEW c \in Connection, Abandon(c) PROVE PipeInv'
  BY <1>15, AbandonStep
<1>16. ASSUME NEW c \in Connection, QueueFull(c) PROVE PipeInv'
  BY <1>16, QueueFullStep
<1>17. ASSUME NEW c \in Connection, TakeResponse(c) PROVE PipeInv'
  BY <1>17, TakeResponseStep
<1>18. ASSUME NEW c \in Connection, Leave(c) PROVE PipeInv'
  BY <1>18, LeaveStep
<1>19. CASE UNCHANGED pipeVars
  BY <1>19
  DEF pipeVars, PipeInv, PipeTypes, ServerFits, TablesFit, ResponsesFit, HandlersFit, RepliesFit, Running, Queued, InGame
<1> QED
  BY <1>1, <1>2, <1>3, <1>4, <1>5, <1>6, <1>7, <1>8, <1>9, <1>10, <1>11, <1>12, <1>13, <1>14, <1>15, <1>16, <1>17, <1>18, <1>19 DEF PipeNext, GameStep, HandlerRuns

LEMMA PipeInvAnswers == PipeInv => CallersAreAnswered
<1> SUFFICES ASSUME PipeInv PROVE CallersAreAnswered
  OBVIOUS
<1>1. AtRest => gameThread.at = "rest"
  BY DEF AtRest, Rests
<1>2. \A c \in Connection : c \notin Queued => \A i \in DOMAIN requests : requests[i] # c
  BY DEF Queued
<1> QED
  BY <1>1, <1>2 DEF PipeInv, PipeTypes, ServerFits, RepliesFit, CallersAreAnswered

\* Every request that was read is answered before its connection ends, unless the server was stopped
\* under it, and exactly the requests that are executed get their result (server.go: handleConn, Respond,
\* Stop), for any number of connections and starts and a queue of any size.
THEOREM CallersCorrect == PipeInit /\ [][PipeNext]_pipeVars => []CallersAreAnswered
<1>1. PipeInit => PipeInv
  BY PipeInvInit
<1>2. PipeInv /\ [PipeNext]_pipeVars => PipeInv'
  BY PipeInvStep
<1>3. PipeInv => CallersAreAnswered
  BY PipeInvAnswers
<1> QED
  BY <1>1, <1>2, <1>3, PTL

-----------------------------------------------------------------------------
(***************************************************************************)
(* The tables of SimpleAssets can be searched and implement a map, for any  *)
(* resources, keys, hashes and initial capacities (ResourceIndex).          *)
(*                                                                          *)
(* What holds of one array of slots and survives every insertion is that    *)
(* the way of a search to each entry leads over entries only, and that no   *)
(* key has two.  What the tables hold is the same as what was registered,   *)
(* and a quarter of each is free.                                           *)
(***************************************************************************)
Arrays == UNION {[0 .. c - 1 -> Resource \cup {Empty}] : c \in Nat}

Taken(slots) == {i \in DOMAIN slots : slots[i] # Empty}
Contents(slots) == {slots[i] : i \in Taken(slots)}

\* The entries that table t may have: those with something it is searched for.
Enterable(t) == {r \in Resource : t = "path" => Streamed(r)}

\* One entry for each key, and a way of entries to each entry.
Searchable(t, slots, c) ==
  /\ Contents(slots) \subseteq Enterable(t)
  /\ \A i, j \in Taken(slots) : SearchKey(t, slots[i]) = SearchKey(t, slots[j]) => i = j
  /\ \A i \in Taken(slots) : \E n \in 0 .. c - 1 :
       /\ Visited(SearchKey(t, slots[i]), c, n) = i
       /\ \A m \in 0 .. n - 1 : Visited(SearchKey(t, slots[i]), c, m) \in Taken(slots) \ {i}

\* A table is as large as it is, knows its count and has a quarter free.
TableFits(t, table) ==
  LET c == Capacity(table) IN
  /\ table.slots \in [0 .. c - 1 -> Resource \cup {Empty}]
  /\ c = 0 \/ c >= 4
  /\ table.count = Cardinality(Taken(table.slots)) /\ table.count <= c - c \div 4
  /\ Searchable(t, table.slots, c)

-----------------------------------------------------------------------------
LEMMA LeastNumber ==
    ASSUME NEW S \in SUBSET Nat, S # {}
    PROVE  \E m \in S : \A k \in S : m <= k
<1> DEFINE R == StrictSubsetOrdering(Nat)
           F == FiniteSubsetsOf(Nat)
           T == {0 .. n : n \in S}
<1>1. IsWellFoundedOn(R, F)
  BY FS_StrictSubsetOrderingWellFounded
<1>2. T \subseteq F
  <2>1. ASSUME NEW n \in S PROVE 0 .. n \in F
    BY FS_Interval DEF FiniteSubsetsOf
  <2> QED
    BY <2>1
<1>3. T # {}
  OBVIOUS
<1>4. PICK U \in T : \A V \in T : <<V, U>> \notin R
  <2> HIDE DEF R, F, T
  <2> QED
    BY <1>1, <1>2, <1>3, WFMin
<1>5. PICK m \in S : U = 0 .. m
  OBVIOUS
<1>6. ASSUME NEW k \in S, k < m PROVE FALSE
  <2>1. 0 .. k \in T
    OBVIOUS
  <2>2. /\ 0 .. k \subseteq 0 .. m /\ 0 .. k # 0 .. m
        /\ 0 .. k \in SUBSET Nat /\ 0 .. m \in SUBSET Nat
    <3>1. m \in 0 .. m /\ m \notin 0 .. k
      BY <1>6
    <3> QED
      BY <1>6, <3>1
  <2>3. <<0 .. k, 0 .. m>> \in R
    BY <2>2 DEF StrictSubsetOrdering
  <2> QED
    BY <1>4, <1>5, <2>1, <2>3
<1> QED
  BY <1>6

(* A set that has 0, and with each number below N the next, has 0 .. N.      *)
LEMMA UpTo ==
    ASSUME NEW N \in Nat, NEW S, 0 \in S,
           \A n \in 0 .. N : n \in S /\ n # N => n + 1 \in S
    PROVE  \A n \in 0 .. N : n \in S
<1> DEFINE Bad == {n \in 0 .. N : n \notin S}
<1> SUFFICES ASSUME Bad # {} PROVE FALSE
  OBVIOUS
<1>1. PICK m \in Bad : \A k \in Bad : m <= k
  <2>1. Bad \in SUBSET Nat
    OBVIOUS
  <2> QED
    BY <2>1, LeastNumber
<1>2. m \in 0 .. N /\ m # 0 /\ m \notin S
  OBVIOUS
<1>3. m - 1 \in 0 .. N /\ m - 1 \notin Bad
  BY <1>1, <1>2
<1> QED
  BY <1>2, <1>3

-----------------------------------------------------------------------------
\* Where a search goes.

LEMMA Remainder == ASSUME NEW x \in Nat, NEW c \in Nat \ {0} PROVE (x % c) \in 0 .. c - 1
OBVIOUS

LEMMA Unique == ASSUME NEW c \in Nat \ {0}, NEW q \in Nat, NEW i \in 0 .. c - 1 PROVE ((c * q + i) % c) = i
OBVIOUS

LEMMA Division ==
  ASSUME NEW x \in Nat, NEW c \in Nat \ {0}
  PROVE  x = c * (x \div c) + (x % c) /\ x \div c \in Nat
OBVIOUS

\* A search of c steps comes by each of c slots.
LEMMA ComesBy ==
  ASSUME NEW h \in Nat, NEW c \in Nat \ {0}, NEW i \in 0 .. c - 1
  PROVE  \E n \in 0 .. c - 1 : ((h + n) % c) = i
<1> DEFINE r == (h % c)
           q == h \div c
<1>1. r \in 0 .. c - 1 /\ q \in Nat /\ h = c * q + r
  BY Remainder, Division
<1> HIDE DEF r, q
<1>2. CASE i >= r
  <2>1. i - r \in 0 .. c - 1 /\ h + (i - r) = c * q + i
    BY <1>1, <1>2
  <2>2. ((c * q + i) % c) = i
    BY <1>1, Unique
  <2> QED
    BY <2>1, <2>2
<1>3. CASE i < r
  <2>1. i + c - r \in 0 .. c - 1 /\ h + (i + c - r) = c * q + c + i
    BY <1>1, <1>3
  <2>2. ((c * (q + 1) + i) % c) = i
    BY <1>1, Unique
  <2>3. c * (q + 1) = c * q + c /\ q + 1 \in Nat
    BY <1>1
  <2> QED
    BY <2>1, <2>2, <2>3
<1> QED
  BY <1>1, <1>2, <1>3

LEMMA VisitsASlot ==
  ASSUME NEW k, HashOf(k) \in Nat, NEW c \in Nat \ {0}, NEW n \in Nat
  PROVE  Visited(k, c, n) \in 0 .. c - 1
<1>1. HashOf(k) + n \in Nat
  OBVIOUS
<1> QED
  BY <1>1, Remainder DEF Visited

LEMMA VisitsAll ==
  ASSUME NEW k, HashOf(k) \in Nat, NEW c \in Nat \ {0}, NEW i \in 0 .. c - 1
  PROVE  \E n \in 0 .. c - 1 : Visited(k, c, n) = i
BY ComesBy DEF Visited

\* If there is a slot of a kind, a search comes by a first one of it.
LEMMA FirstVisit ==
  ASSUME NEW k, HashOf(k) \in Nat, NEW c \in Nat \ {0}, NEW P, \E i \in 0 .. c - 1 : i \in P
  PROVE  \E n \in 0 .. c - 1 : /\ Visited(k, c, n) \in P
                               /\ \A m \in 0 .. n - 1 : Visited(k, c, m) \notin P
<1> DEFINE S == {n \in 0 .. c - 1 : Visited(k, c, n) \in P}
<1>1. S \in SUBSET Nat /\ S # {}
  <2>1. PICK i \in 0 .. c - 1 : i \in P
    OBVIOUS
  <2>2. PICK n \in 0 .. c - 1 : Visited(k, c, n) = i
    BY VisitsAll
  <2>3. n \in S
    BY <2>1, <2>2
  <2> QED
    BY <2>3
<1>2. PICK n \in S : \A m \in S : n <= m
  <2> HIDE DEF S
  <2> QED
    BY <1>1, LeastNumber
<1>3. n \in 0 .. c - 1 /\ Visited(k, c, n) \in P
  BY <1>2
<1>4. ASSUME NEW m \in 0 .. n - 1 PROVE Visited(k, c, m) \notin P
  <2>1. m \in 0 .. c - 1 /\ ~(n <= m)
    BY <1>3
  <2> QED
    BY <1>2, <2>1
<1> QED
  BY <1>3, <1>4

LEMMA Hashes ==
  ASSUME NEW t \in Table, NEW r \in Enterable(t)
  PROVE  HashOf(SearchKey(t, r)) \in Nat /\ r \in Resource /\ r # Empty
BY IndexAssumption DEF Enterable, SearchKey, Streamed

-----------------------------------------------------------------------------
\* Arrays of slots.

LEMMA Widths == ASSUME NEW c \in Nat PROVE IsFiniteSet(0 .. c - 1) /\ Cardinality(0 .. c - 1) = c
<1>1. 0 \in Int /\ c - 1 \in Int
  OBVIOUS
<1>2. IsFiniteSet(0 .. c - 1) /\ Cardinality(0 .. c - 1) = IF 0 > c - 1 THEN 0 ELSE (c - 1) - 0 + 1
  BY <1>1, FS_Interval
<1> QED
  BY <1>2

\* An array has as many entries as it has taken slots, since no key has two.
LEMMA CountIs ==
  ASSUME NEW t \in Table, NEW c \in Nat, NEW slots \in [0 .. c - 1 -> Resource \cup {Empty}], Searchable(t, slots, c)
  PROVE  /\ IsFiniteSet(Taken(slots)) /\ Cardinality(Taken(slots)) \in 0 .. c
         /\ IsFiniteSet(Contents(slots)) /\ Cardinality(Contents(slots)) = Cardinality(Taken(slots))
<1>1. Taken(slots) \in SUBSET (0 .. c - 1)
  BY DEF Taken
<1>2. IsFiniteSet(Taken(slots)) /\ Cardinality(Taken(slots)) <= c
  BY <1>1, Widths, FS_Subset
<1>3. Cardinality(Taken(slots)) \in Nat
  BY <1>2, FS_CardinalityType
<1> DEFINE f == [i \in Taken(slots) |-> slots[i]]
<1>4. f \in Bijection(Taken(slots), Contents(slots))
  <2>1. f \in [Taken(slots) -> Contents(slots)]
    BY DEF Contents
  <2>2. \A i, j \in Taken(slots) : f[i] = f[j] => i = j
    BY DEF Searchable
  <2>3. \A x \in Contents(slots) : \E i \in Taken(slots) : f[i] = x
    BY DEF Contents
  <2> HIDE DEF f
  <2> QED
    BY <2>1, <2>2, <2>3 DEF Bijection, Injection, Surjection, IsInjective
<1>5. ExistsBijection(Taken(slots), Contents(slots))
  BY <1>4 DEF ExistsBijection
<1>6. IsFiniteSet(Contents(slots)) /\ Cardinality(Contents(slots)) = Cardinality(Taken(slots))
  BY <1>2, <1>5, FS_Bijection
<1> QED
  BY <1>2, <1>3, <1>6

LEMMA HasFree ==
  ASSUME NEW c \in Nat, NEW slots \in [0 .. c - 1 -> Resource \cup {Empty}], Cardinality(Taken(slots)) < c
  PROVE  \E i \in 0 .. c - 1 : slots[i] = Empty
<1> SUFFICES ASSUME \A i \in 0 .. c - 1 : slots[i] # Empty PROVE FALSE
  OBVIOUS
<1>1. Taken(slots) = 0 .. c - 1
  BY DEF Taken
<1>2. Cardinality(Taken(slots)) = c
  BY <1>1, Widths
<1> QED
  BY <1>2

-----------------------------------------------------------------------------
\* Inserting.

\* An insertion lands at a visit: it writes the entry into the first empty slot its key visits.
LandsAt(t, slots, r, c, n) ==
    /\ slots[Visited(SearchKey(t, r), c, n)] = Empty
    /\ \A m \in 0 .. n - 1 : slots[Visited(SearchKey(t, r), c, m)] # Empty
    /\ Inserted(t, slots, r) = [slots EXCEPT ![Visited(SearchKey(t, r), c, n)] = r]

LEMMA InsertedAt ==
  ASSUME NEW t, NEW r, NEW c \in Nat \ {0}, NEW slots \in [0 .. c - 1 -> Resource \cup {Empty}],
         HashOf(SearchKey(t, r)) \in Nat, \E i \in 0 .. c - 1 : slots[i] = Empty
  PROVE  \E n \in 0 .. c - 1 : LandsAt(t, slots, r, c, n)
<1> DEFINE k == SearchKey(t, r)
           cap == Cardinality(DOMAIN slots)
           empty(n) == slots[Visited(k, cap, n)] = Empty
           Good(n) == empty(n) /\ \A m \in 0 .. n - 1 : ~empty(m)
           steps == CHOOSE n \in 0 .. cap - 1 : Good(n)
           P == {i \in 0 .. c - 1 : slots[i] = Empty}
<1>1. cap = c
  BY Widths
<1>2. Inserted(t, slots, r) = [slots EXCEPT ![Visited(k, cap, steps)] = r]
  BY DEF Inserted
<1> HIDE DEF cap, k
<1>3. PICK n \in 0 .. c - 1 : /\ Visited(k, c, n) \in P
                              /\ \A m \in 0 .. n - 1 : Visited(k, c, m) \notin P
  <2>1. HashOf(k) \in Nat /\ \E i \in 0 .. c - 1 : i \in P
    BY DEF k
  <2> HIDE DEF P
  <2> QED
    BY <2>1, FirstVisit
<1>4. ASSUME NEW m \in 0 .. n - 1 PROVE slots[Visited(k, c, m)] # Empty
  <2>1. m \in Nat /\ HashOf(k) \in Nat
    BY DEF k
  <2>2. Visited(k, c, m) \in 0 .. c - 1
    BY <2>1, VisitsASlot
  <2> QED
    BY <1>3, <2>2
<1>5. Good(n)
  BY <1>1, <1>3, <1>4
<1>6. n \in 0 .. cap - 1
  BY <1>1
<1>7. steps \in 0 .. cap - 1 /\ Good(steps)
  <2> HIDE DEF Good
  <2> QED
    BY <1>5, <1>6
<1> HIDE DEF steps
<1>8. /\ steps \in 0 .. c - 1
      /\ slots[Visited(k, c, steps)] = Empty
      /\ \A m \in 0 .. steps - 1 : slots[Visited(k, c, m)] # Empty
  BY <1>1, <1>7
<1>9. Inserted(t, slots, r) = [slots EXCEPT ![Visited(k, c, steps)] = r]
  BY <1>1, <1>2
<1>10. LandsAt(t, slots, r, c, steps)
  BY <1>8, <1>9 DEF k, LandsAt
<1> QED
  BY <1>8, <1>10

\* An insertion takes one slot, and every entry can still be found.
InsertionFits(t, c, slots, r) ==
  /\ Inserted(t, slots, r) \in [0 .. c - 1 -> Resource \cup {Empty}]
  /\ Searchable(t, Inserted(t, slots, r), c)
  /\ Contents(Inserted(t, slots, r)) = Contents(slots) \cup {r}
  /\ \E i \in 0 .. c - 1 : i \notin Taken(slots) /\ Taken(Inserted(t, slots, r)) = Taken(slots) \cup {i}

\* resource_index_internal.h, insert: a new key into a table with a free slot.
LEMMA InsertedKeeps ==
  ASSUME NEW t \in Table, NEW c \in Nat \ {0}, NEW slots \in [0 .. c - 1 -> Resource \cup {Empty}],
         NEW r \in Enterable(t), Searchable(t, slots, c), \E i \in 0 .. c - 1 : slots[i] = Empty,
         \A x \in Contents(slots) : SearchKey(t, x) # SearchKey(t, r)
  PROVE  InsertionFits(t, c, slots, r)
<1> DEFINE k == SearchKey(t, r)
<1>1. HashOf(k) \in Nat /\ r \in Resource /\ r # Empty
  BY Hashes
<1>2. PICK n \in 0 .. c - 1 :
        /\ slots[Visited(k, c, n)] = Empty
        /\ \A m \in 0 .. n - 1 : slots[Visited(k, c, m)] # Empty
        /\ Inserted(t, slots, r) = [slots EXCEPT ![Visited(k, c, n)] = r]
  <2>1. HashOf(SearchKey(t, r)) \in Nat
    BY <1>1
  <2>2. \E n \in 0 .. c - 1 : LandsAt(t, slots, r, c, n)
    BY <2>1, InsertedAt
  <2> QED
    BY <2>2 DEF LandsAt
<1>3. PICK i : i = Visited(k, c, n)
  OBVIOUS
<1>4. i \in 0 .. c - 1 /\ slots[i] = Empty
  BY <1>1, <1>2, <1>3, VisitsASlot
<1>5. PICK s : s = [slots EXCEPT ![i] = r]
  OBVIOUS
<1>6. Inserted(t, slots, r) = s
  BY <1>2, <1>3, <1>5
<1>7. /\ s \in [0 .. c - 1 -> Resource \cup {Empty}]
      /\ \A j \in 0 .. c - 1 : s[j] = IF j = i THEN r ELSE slots[j]
  BY <1>1, <1>4, <1>5
<1>8. Taken(slots) \subseteq 0 .. c - 1 /\ i \notin Taken(slots) /\ Taken(s) = Taken(slots) \cup {i}
  BY <1>1, <1>4, <1>7 DEF Taken
<1>9. s[i] = r /\ \A j \in Taken(slots) : s[j] = slots[j] /\ j # i
  BY <1>4, <1>7, <1>8
<1>10. Contents(s) = Contents(slots) \cup {r}
  BY <1>8, <1>9 DEF Contents
<1>11. Searchable(t, s, c)
  <2>1. Contents(s) \subseteq Enterable(t)
    BY <1>10 DEF Searchable
  <2>2. ASSUME NEW x \in Taken(s), NEW y \in Taken(s), SearchKey(t, s[x]) = SearchKey(t, s[y]) PROVE x = y
    <3>1. \A j \in Taken(slots) : SearchKey(t, slots[j]) # SearchKey(t, r)
      BY DEF Contents
    <3>2. CASE x = i \/ y = i
      BY <1>8, <1>9, <2>2, <3>1, <3>2
    <3>3. CASE x # i /\ y # i
      BY <1>8, <1>9, <2>2, <3>3 DEF Searchable
    <3> QED
      BY <3>2, <3>3
  <2>3. ASSUME NEW x \in Taken(s)
        PROVE  \E q \in 0 .. c - 1 :
                 /\ Visited(SearchKey(t, s[x]), c, q) = x
                 /\ \A m \in 0 .. q - 1 : Visited(SearchKey(t, s[x]), c, m) \in Taken(s) \ {x}
    <3>1. CASE x = i
      <4>1. SearchKey(t, s[x]) = k /\ Visited(k, c, n) = x
        BY <1>3, <1>9, <3>1
      <4>2. ASSUME NEW m \in 0 .. n - 1 PROVE Visited(k, c, m) \in Taken(s) \ {x}
        <5>1. m \in Nat
          OBVIOUS
        <5>2. Visited(k, c, m) \in 0 .. c - 1
          BY <1>1, <5>1, VisitsASlot
        <5>3. Visited(k, c, m) \in Taken(slots)
          BY <1>2, <5>2 DEF Taken
        <5> QED
          BY <1>8, <3>1, <5>3
      <4> QED
        BY <4>1, <4>2
    <3>2. CASE x # i
      <4>1. x \in Taken(slots) /\ s[x] = slots[x]
        BY <1>8, <1>9, <3>2
      <4>2. PICK q \in 0 .. c - 1 :
              /\ Visited(SearchKey(t, slots[x]), c, q) = x
              /\ \A m \in 0 .. q - 1 : Visited(SearchKey(t, slots[x]), c, m) \in Taken(slots) \ {x}
        BY <4>1 DEF Searchable
      <4> QED
        BY <1>8, <4>1, <4>2
    <3> QED
      BY <3>1, <3>2
  <2> QED
    BY <2>1, <2>2, <2>3 DEF Searchable
<1> QED
  BY <1>4, <1>6, <1>7, <1>8, <1>10, <1>11 DEF InsertionFits

-----------------------------------------------------------------------------
\* Rehashing.

\* What the recursion over the slots of the old table has moved after each of them.
MovesOf(t, table, d, moved) ==
    /\ moved[0] = [j \in 0 .. d - 1 |-> Empty]
    /\ \A i \in 1 .. Capacity(table) :
         moved[i] = IF table.slots[i - 1] = Empty THEN moved[i - 1]
                    ELSE Inserted(t, moved[i - 1], table.slots[i - 1])
    /\ Rehashed(t, table, d) = moved[Capacity(table)]

\* The recursion over the slots of the old table has a value: a function on 0 .. m that obeys it can
\* be continued to m + 1.
LEMMA RehashSteps ==
  ASSUME NEW t, NEW table, NEW d, Capacity(table) \in Nat
  PROVE  \E moved : MovesOf(t, table, d, moved)
<1> DEFINE N == Capacity(table)
           Step(g, i) == IF i = 0 THEN [j \in 0 .. d - 1 |-> Empty]
                         ELSE IF table.slots[i - 1] = Empty THEN g[i - 1]
                         ELSE Inserted(t, g[i - 1], table.slots[i - 1])
           S == {m \in 0 .. N : \E g : g = [i \in 0 .. m |-> Step(g, i)]}
<1>1. N \in Nat
  OBVIOUS
<1>2. \A g, h, i : (i = 0 \/ g[i - 1] = h[i - 1]) => Step(g, i) = Step(h, i)
  OBVIOUS
<1>3. \A g : Step(g, 0) = [j \in 0 .. d - 1 |-> Empty]
  OBVIOUS
<1>4. \A g, i : i # 0 => Step(g, i) = IF table.slots[i - 1] = Empty THEN g[i - 1]
                                      ELSE Inserted(t, g[i - 1], table.slots[i - 1])
  OBVIOUS
<1>5. Rehashed(t, table, d) = (CHOOSE g : g = [i \in 0 .. N |-> Step(g, i)])[N]
  BY DEF Rehashed
<1> HIDE DEF N, Step
<1>6. 0 \in S
  <2> DEFINE g == [i \in 0 .. 0 |-> [j \in 0 .. d - 1 |-> Empty]]
  <2>1. g[0] = [j \in 0 .. d - 1 |-> Empty] /\ g = [i \in 0 .. 0 |-> g[i]]
    OBVIOUS
  <2> HIDE DEF g
  <2>2. g = [i \in 0 .. 0 |-> Step(g, i)]
    <3>1. \A i \in 0 .. 0 : g[i] = Step(g, i)
      <4>1. \A i \in 0 .. 0 : i = 0
        OBVIOUS
      <4>2. g[0] = Step(g, 0)
        BY <1>3, <2>1
      <4> QED
        BY <4>1, <4>2
    <3>2. [i \in 0 .. 0 |-> Step(g, i)] = [i \in 0 .. 0 |-> g[i]]
      BY <3>1
    <3> QED
      BY <2>1, <3>2
  <2> QED
    BY <1>1, <2>2
<1>7. ASSUME NEW m \in 0 .. N, m \in S, m # N PROVE m + 1 \in S
  <2>1. PICK g : g = [i \in 0 .. m |-> Step(g, i)]
    BY <1>7
  <2>2. m \in Nat /\ m + 1 \in 0 .. N /\ (m + 1) - 1 = m /\ m + 1 # 0
    BY <1>1, <1>7
  <2> DEFINE last == Step(g, m + 1)
             h == [i \in 0 .. m + 1 |-> IF i = m + 1 THEN last ELSE g[i]]
  <2> HIDE DEF last
  <2>3. \A i \in 0 .. m : h[i] = g[i]
    BY <2>2
  <2>4. h[m + 1] = last
    BY <2>2
  <2>5. h = [i \in 0 .. m + 1 |-> h[i]]
    OBVIOUS
  <2> HIDE DEF h
  <2>6. \A i \in 0 .. m + 1 : h[i] = Step(h, i)
    <3> SUFFICES ASSUME NEW i \in 0 .. m + 1 PROVE h[i] = Step(h, i)
      OBVIOUS
    <3>1. i = 0 \/ g[i - 1] = h[i - 1]
      <4>1. i # 0 => i - 1 \in 0 .. m
        BY <2>2
      <4> QED
        BY <2>3, <4>1
    <3>2. Step(g, i) = Step(h, i)
      BY <1>2, <3>1
    <3>3. CASE i = m + 1
      BY <2>4, <3>2, <3>3 DEF last
    <3>4. CASE i \in 0 .. m
      <4>1. g[i] = Step(g, i)
        BY <2>1, <3>4
      <4> QED
        BY <2>3, <3>2, <3>4, <4>1
    <3> QED
      BY <2>2, <3>3, <3>4
  <2>7. h = [i \in 0 .. m + 1 |-> Step(h, i)]
    <3>1. [i \in 0 .. m + 1 |-> Step(h, i)] = [i \in 0 .. m + 1 |-> h[i]]
      BY <2>6
    <3> QED
      BY <2>5, <3>1
  <2> QED
    BY <2>2, <2>7
<1>8. \A m \in 0 .. N : m \in S /\ m # N => m + 1 \in S
  BY <1>7
<1>9. N \in S
  <2> HIDE DEF S
  <2>1. \A m \in 0 .. N : m \in S
    BY <1>1, <1>6, <1>8, UpTo
  <2> QED
    BY <1>1, <2>1
<1>10. \E g : g = [i \in 0 .. N |-> Step(g, i)]
  BY <1>9
<1> DEFINE moved == CHOOSE g : g = [i \in 0 .. N |-> Step(g, i)]
<1>11. moved = [i \in 0 .. N |-> Step(moved, i)]
  BY <1>10
<1>12. Rehashed(t, table, d) = moved[N]
  BY <1>5
<1> HIDE DEF moved
<1>13. \A i \in 0 .. N : moved[i] = Step(moved, i)
  BY <1>11
<1>14. moved[0] = [j \in 0 .. d - 1 |-> Empty]
  <2>1. 0 \in 0 .. N
    BY <1>1
  <2>2. moved[0] = Step(moved, 0)
    BY <1>13, <2>1
  <2> QED
    BY <1>3, <2>2
<1>15. ASSUME NEW i \in 1 .. N
       PROVE  moved[i] = IF table.slots[i - 1] = Empty THEN moved[i - 1]
                         ELSE Inserted(t, moved[i - 1], table.slots[i - 1])
  <2>1. i \in 0 .. N /\ i # 0
    BY <1>1
  <2> QED
    BY <1>4, <1>13, <2>1
<1>16. \A i \in 1 .. N : moved[i] = IF table.slots[i - 1] = Empty THEN moved[i - 1]
                                    ELSE Inserted(t, moved[i - 1], table.slots[i - 1])
  BY <1>15
<1> QED
  BY <1>12, <1>14, <1>16 DEF N, MovesOf

\* A table that has grown has the entries it had.
LEMMA RehashedKeeps ==
  ASSUME NEW t \in Table, NEW c \in Nat, NEW table, Capacity(table) = c,
         table.slots \in [0 .. c - 1 -> Resource \cup {Empty}], Searchable(t, table.slots, c),
         NEW d \in Nat \ {0}, Cardinality(Taken(table.slots)) < d
  PROVE  /\ Rehashed(t, table, d) \in [0 .. d - 1 -> Resource \cup {Empty}]
         /\ Searchable(t, Rehashed(t, table, d), d)
         /\ Contents(Rehashed(t, table, d)) = Contents(table.slots)
<1> DEFINE old == table.slots
           Before(i) == {old[j] : j \in {x \in Taken(old) : x < i}}
<1>0. PICK moved : MovesOf(t, table, d, moved)
  <2>1. Capacity(table) \in Nat
    OBVIOUS
  <2> QED
    BY <2>1, RehashSteps
<1>1. /\ moved[0] = [j \in 0 .. d - 1 |-> Empty]
      /\ \A i \in 1 .. c : moved[i] = IF old[i - 1] = Empty THEN moved[i - 1]
                                      ELSE Inserted(t, moved[i - 1], old[i - 1])
      /\ Rehashed(t, table, d) = moved[c]
  BY <1>0 DEF MovesOf
<1>2. /\ old \in [0 .. c - 1 -> Resource \cup {Empty}] /\ Searchable(t, old, c)
      /\ Cardinality(Taken(old)) < d
  OBVIOUS
<1> HIDE DEF old
<1> DEFINE U == {i \in 0 .. c : /\ moved[i] \in [0 .. d - 1 -> Resource \cup {Empty}]
                                /\ Searchable(t, moved[i], d)
                                /\ Contents(moved[i]) = Before(i)}
<1>3. Taken(old) \subseteq 0 .. c - 1 /\ \A j \in Taken(old) : old[j] \in Enterable(t)
  BY <1>2 DEF Taken, Contents, Searchable
<1>4. 0 \in U
  <2>1. moved[0] \in [0 .. d - 1 -> Resource \cup {Empty}] /\ Taken(moved[0]) = {}
    BY <1>1 DEF Taken
  <2>2. Contents(moved[0]) = {}
    BY <2>1 DEF Contents
  <2>3. Before(0) = {}
    BY <1>3
  <2>4. Searchable(t, moved[0], d)
    BY <2>1, <2>2 DEF Searchable
  <2> HIDE DEF Before
  <2>5. 0 \in 0 .. c /\ Contents(moved[0]) = Before(0)
    BY <2>2, <2>3
  <2> QED
    BY <2>1, <2>4, <2>5
<1>5. ASSUME NEW i \in 0 .. c, i \in U, i # c PROVE i + 1 \in U
  <2>1. i \in 0 .. c - 1 /\ i + 1 \in 1 .. c /\ i + 1 \in 0 .. c /\ (i + 1) - 1 = i
    BY <1>5
  <2>2. moved[i + 1] = IF old[i] = Empty THEN moved[i] ELSE Inserted(t, moved[i], old[i])
    BY <1>1, <2>1
  <2>3. /\ moved[i] \in [0 .. d - 1 -> Resource \cup {Empty}]
        /\ Searchable(t, moved[i], d)
        /\ Contents(moved[i]) = Before(i)
    BY <1>5
  <2>4. CASE old[i] = Empty
    <3>1. Before(i + 1) = Before(i)
      <4>1. \A x \in Taken(old) : x < i + 1 <=> x < i
        BY <1>3, <2>1, <2>4 DEF Taken
      <4> QED
        BY <4>1
    <3> QED
      BY <2>1, <2>2, <2>3, <2>4, <3>1
  <2>5. CASE old[i] # Empty
    <3>1. i \in Taken(old) /\ old[i] \in Enterable(t)
      BY <1>2, <1>3, <2>1, <2>5 DEF Taken
    <3>2. Before(i + 1) = Before(i) \cup {old[i]}
      <4>1. \A x \in Taken(old) : x < i + 1 <=> (x < i \/ x = i)
        BY <1>3, <2>1
      <4> QED
        BY <3>1, <4>1
    <3>3. \A x \in Contents(moved[i]) : SearchKey(t, x) # SearchKey(t, old[i])
      <4> SUFFICES ASSUME NEW j \in Taken(old), j < i, SearchKey(t, old[j]) = SearchKey(t, old[i]) PROVE FALSE
        BY <2>3
      <4>1. j = i
        BY <1>2, <3>1 DEF Searchable
      <4> QED
        BY <2>1, <4>1
    <3>4. Cardinality(Taken(moved[i])) < d
      <4>1. /\ Cardinality(Taken(moved[i])) = Cardinality(Contents(moved[i]))
            /\ Cardinality(Taken(moved[i])) \in Nat
        <5>1. PICK s : s = moved[i]
          OBVIOUS
        <5>2. /\ d \in Nat /\ s \in [0 .. d - 1 -> Resource \cup {Empty}]
              /\ Searchable(t, s, d)
          BY <2>3, <5>1
        <5>3. Cardinality(Taken(s)) \in 0 .. d /\ Cardinality(Contents(s)) = Cardinality(Taken(s))
          BY <5>2, CountIs
        <5> QED
          BY <5>1, <5>3
      <4>2. /\ IsFiniteSet(Contents(old)) /\ Cardinality(Contents(old)) = Cardinality(Taken(old))
            /\ Cardinality(Taken(old)) \in Nat
        BY <1>2, CountIs
      <4>3. Contents(moved[i]) \in SUBSET Contents(old)
        BY <2>3 DEF Contents
      <4>4. Cardinality(Contents(moved[i])) <= Cardinality(Contents(old))
        BY <4>2, <4>3, FS_Subset
      <4> DEFINE a == Cardinality(Taken(moved[i]))
                 b == Cardinality(Taken(old))
      <4>5. a \in Nat /\ b \in Nat /\ a <= b /\ b < d
        BY <1>2, <4>1, <4>2, <4>4
      <4> HIDE DEF a, b
      <4>6. a < d
        BY <4>5
      <4> QED
        BY <4>6 DEF a
    <3>5. \E j \in 0 .. d - 1 : moved[i][j] = Empty
      <4>1. d \in Nat
        OBVIOUS
      <4> QED
        BY <2>3, <3>4, <4>1, HasFree
    <3>6. /\ Inserted(t, moved[i], old[i]) \in [0 .. d - 1 -> Resource \cup {Empty}]
          /\ Searchable(t, Inserted(t, moved[i], old[i]), d)
          /\ Contents(Inserted(t, moved[i], old[i])) = Contents(moved[i]) \cup {old[i]}
      <4>1. PICK s \in [0 .. d - 1 -> Resource \cup {Empty}] : s = moved[i]
        BY <2>3
      <4>2. PICK r \in Enterable(t) : r = old[i]
        BY <3>1
      <4>3. /\ Searchable(t, s, d) /\ \E j \in 0 .. d - 1 : s[j] = Empty
            /\ \A x \in Contents(s) : SearchKey(t, x) # SearchKey(t, r)
        BY <2>3, <3>3, <3>5, <4>1, <4>2
      <4>4. InsertionFits(t, d, s, r)
        BY <4>3, InsertedKeeps
      <4> QED
        BY <4>1, <4>2, <4>4 DEF InsertionFits
    <3>7. moved[i + 1] = Inserted(t, moved[i], old[i])
      BY <2>2, <2>5
    <3> QED
      BY <2>1, <2>3, <3>2, <3>6, <3>7
  <2> QED
    BY <2>4, <2>5
<1>6. c \in U
  <2>1. \A i \in 0 .. c : i \in U /\ i # c => i + 1 \in U
    BY <1>5
  <2> HIDE DEF U
  <2>2. \A i \in 0 .. c : i \in U
    BY <1>4, <2>1, UpTo
  <2> QED
    BY <2>2
<1>7. Before(c) = Contents(old)
  <2>1. \A x \in Taken(old) : x < c
    BY <1>3
  <2> QED
    BY <2>1 DEF Contents
<1> QED
  BY <1>1, <1>6, <1>7 DEF old

-----------------------------------------------------------------------------
\* Tables.

Tables == [slots : Arrays, count : Nat]

LEMMA TableIs ==
  ASSUME NEW t \in Table, NEW table \in Tables, TableFits(t, table)
  PROVE  /\ Capacity(table) \in Nat /\ DOMAIN table.slots = 0 .. Capacity(table) - 1
         /\ table.slots \in [0 .. Capacity(table) - 1 -> Resource \cup {Empty}]
         /\ Searchable(t, table.slots, Capacity(table))
         /\ table.count = Cardinality(Taken(table.slots)) /\ table.count \in Nat
         /\ table.count <= Capacity(table) - (Capacity(table) \div 4)
         /\ Capacity(table) = 0 \/ Capacity(table) >= 4
<1>1. PICK c \in Nat : table.slots \in [0 .. c - 1 -> Resource \cup {Empty}]
  BY DEF Tables, Arrays
<1>2. Capacity(table) = c
  <2>1. DOMAIN table.slots = 0 .. c - 1
    BY <1>1
  <2> QED
    BY <2>1, Widths DEF Capacity
<1> QED
  BY <1>1, <1>2 DEF TableFits, Tables

\* What a table of c slots with n entries has to satisfy.
PartsFit(t, c, slots, n) ==
  /\ c = 0 \/ c >= 4
  /\ n = Cardinality(Taken(slots)) /\ n <= c - (c \div 4)
  /\ Searchable(t, slots, c)

LEMMA TableMade ==
  ASSUME NEW t \in Table, NEW c \in Nat, NEW slots \in [0 .. c - 1 -> Resource \cup {Empty}], NEW n \in Nat,
         PartsFit(t, c, slots, n), NEW table, table = [slots |-> slots, count |-> n]
  PROVE  Capacity(table) = c /\ table \in Tables /\ TableFits(t, table)
<1> USE DEF PartsFit
<1>1. DOMAIN slots = 0 .. c - 1
  OBVIOUS
<1>2. Capacity(table) = c
  BY <1>1, Widths DEF Capacity
<1>3. slots \in Arrays
  BY DEF Arrays
<1> QED
  BY <1>2, <1>3 DEF Tables, TableFits

\* A table that has grown fits, has what it had and room for another entry.
LEMMA GrownFits ==
  ASSUME NEW t \in Table, NEW table \in Tables, TableFits(t, table)
  PROVE  /\ Grown(t, table) \in Tables /\ TableFits(t, Grown(t, table))
         /\ Contents(Grown(t, table).slots) = Contents(table.slots)
         /\ Grown(t, table).count = table.count
         /\ Capacity(Grown(t, table)) >= 4
         /\ table.count + 1 <= Capacity(Grown(t, table)) - (Capacity(Grown(t, table)) \div 4)
<1> DEFINE c == Capacity(table)
           d == Needs(t, table)
           n == table.count
           s == Rehashed(t, table, d)
<1>1. /\ c \in Nat
      /\ table.slots \in [0 .. c - 1 -> Resource \cup {Empty}]
      /\ Searchable(t, table.slots, c)
      /\ n = Cardinality(Taken(table.slots)) /\ n \in Nat
      /\ n <= c - (c \div 4)
      /\ c = 0 \/ c >= 4
  BY TableIs
<1>2. InitialCapacity(t) \in Nat /\ InitialCapacity(t) >= 4
  BY IndexAssumption DEF InitialCapacity
<1>3. d = IF c = 0 THEN InitialCapacity(t) ELSE IF n + 1 <= c - (c \div 4) THEN c ELSE 2 * c
  BY DEF Needs
<1>4. Grown(t, table) = IF d = c THEN table ELSE [table EXCEPT !.slots = s]
  BY DEF Grown
<1>5. Capacity(table) = c /\ Cardinality(Taken(table.slots)) = n
  BY <1>1
<1> HIDE DEF c, d, n
<1>6. d \in Nat /\ d >= 4 /\ n + 1 <= d - (d \div 4) /\ n < d
  <2>1. CASE c = 0
    <3>1. d \in Nat /\ d >= 4 /\ n = 0
      BY <1>1, <1>2, <1>3, <2>1
    <3> QED
      BY <3>1
  <2>2. CASE c # 0 /\ n + 1 <= c - (c \div 4)
    BY <1>1, <1>3, <2>2
  <2>3. CASE c # 0 /\ ~(n + 1 <= c - (c \div 4))
    <3>1. d = 2 * c /\ c >= 4
      BY <1>1, <1>3, <2>3
    <3> QED
      BY <1>1, <3>1
  <2> QED
    BY <2>1, <2>2, <2>3
<1>7. CASE d = c
  <2>1. Grown(t, table) = table
    BY <1>4, <1>7
  <2> QED
    BY <1>5, <1>6, <1>7, <2>1 DEF n
<1>8. CASE d # c
  <2>1. /\ s \in [0 .. d - 1 -> Resource \cup {Empty}]
        /\ Searchable(t, s, d)
        /\ Contents(s) = Contents(table.slots)
    <3>1. d \in Nat \ {0} /\ Cardinality(Taken(table.slots)) < d
      BY <1>5, <1>6
    <3> QED
      BY <1>1, <1>5, <3>1, RehashedKeeps
  <2> HIDE DEF s
  <2>2. Cardinality(Taken(s)) = n
    <3>1. Cardinality(Contents(s)) = Cardinality(Taken(s))
      BY <1>6, <2>1, CountIs
    <3>2. Cardinality(Contents(table.slots)) = Cardinality(Taken(table.slots))
      BY <1>1, CountIs
    <3> QED
      BY <1>5, <2>1, <3>1, <3>2
  <2>3. Grown(t, table) = [slots |-> s, count |-> n]
    BY <1>4, <1>8 DEF Tables, n
  <2>4. n <= d - (d \div 4)
    BY <1>1, <1>6
  <2>5. /\ Capacity(Grown(t, table)) = d
        /\ Grown(t, table) \in Tables
        /\ TableFits(t, Grown(t, table))
    <3>1. PICK g : g = Grown(t, table)
      OBVIOUS
    <3>2. d \in Nat /\ (d = 0 \/ d >= 4) /\ n \in Nat /\ n = Cardinality(Taken(s)) /\ g = [slots |-> s, count |-> n]
      BY <1>1, <1>6, <2>2, <2>3, <3>1
    <3>3. Capacity(g) = d /\ g \in Tables /\ TableFits(t, g)
      <4>1. PartsFit(t, d, s, n)
        BY <2>1, <2>4, <3>2 DEF PartsFit
      <4> QED
        BY <2>1, <3>2, <4>1, TableMade
    <3> QED
      BY <3>1, <3>3
  <2>6. Grown(t, table).slots = s /\ Grown(t, table).count = n
    BY <2>3
  <2> QED
    BY <1>6, <2>1, <2>5, <2>6 DEF n
<1> QED
  BY <1>7, <1>8

\* An entry with a new key into a table with room for it.
LEMMA EnteredFits ==
  ASSUME NEW t \in Table, NEW table \in Tables, TableFits(t, table), NEW r \in Enterable(t),
         Capacity(table) >= 4, table.count + 1 <= Capacity(table) - (Capacity(table) \div 4),
         \A x \in Contents(table.slots) : SearchKey(t, x) # SearchKey(t, r)
  PROVE  /\ Entered(t, table, r) \in Tables /\ TableFits(t, Entered(t, table, r))
         /\ Contents(Entered(t, table, r).slots) = Contents(table.slots) \cup {r}
<1> DEFINE c == Capacity(table)
           n == table.count
           s == Inserted(t, table.slots, r)
<1>1. /\ c \in Nat /\ c >= 4
      /\ table.slots \in [0 .. c - 1 -> Resource \cup {Empty}]
      /\ Searchable(t, table.slots, c)
      /\ n = Cardinality(Taken(table.slots)) /\ n \in Nat
      /\ n + 1 <= c - (c \div 4)
  BY TableIs
<1>2. Entered(t, table, r) = [slots |-> s, count |-> n + 1]
  BY DEF Entered
<1> HIDE DEF c, n
<1>3. n < c /\ c \in Nat \ {0} /\ n + 1 \in Nat
  BY <1>1
<1>4. \E i \in 0 .. c - 1 : table.slots[i] = Empty
  BY <1>1, <1>3, HasFree
<1>5. /\ s \in [0 .. c - 1 -> Resource \cup {Empty}]
      /\ Searchable(t, s, c)
      /\ Contents(s) = Contents(table.slots) \cup {r}
      /\ \E i \in 0 .. c - 1 : i \notin Taken(table.slots) /\ Taken(s) = Taken(table.slots) \cup {i}
  <2>1. PICK slots \in [0 .. c - 1 -> Resource \cup {Empty}] : slots = table.slots
    BY <1>1
  <2>2. /\ Searchable(t, slots, c) /\ \E i \in 0 .. c - 1 : slots[i] = Empty
        /\ \A x \in Contents(slots) : SearchKey(t, x) # SearchKey(t, r)
    BY <1>1, <1>4, <2>1
  <2>3. InsertionFits(t, c, slots, r)
    BY <1>3, <2>2, InsertedKeeps
  <2> QED
    BY <2>1, <2>3 DEF InsertionFits
<1> HIDE DEF s
<1>6. Cardinality(Taken(s)) = n + 1
  <2>1. IsFiniteSet(Taken(table.slots))
    BY <1>1, CountIs
  <2> QED
    BY <1>1, <1>5, <2>1, FS_AddElement
<1>7. Entered(t, table, r) \in Tables /\ TableFits(t, Entered(t, table, r))
  <2>1. PICK m \in Nat : m = n + 1
    BY <1>3
  <2>2. c \in Nat /\ s \in [0 .. c - 1 -> Resource \cup {Empty}] /\ Entered(t, table, r) = [slots |-> s, count |-> m]
    BY <1>1, <1>2, <1>5, <2>1
  <2>3. PartsFit(t, c, s, m)
    BY <1>1, <1>5, <1>6, <2>1 DEF PartsFit
  <2> QED
    BY <2>2, <2>3, TableMade
<1>8. Entered(t, table, r).slots = s
  BY <1>2
<1> QED
  BY <1>5, <1>7, <1>8

\* A search ends, and finds the entry with the key when there is one.
LEMMA FindIs ==
  ASSUME NEW t \in Table, NEW table \in Tables, TableFits(t, table), NEW k, HashOf(k) \in Nat
  PROVE  /\ Ends(t, table, k)
         /\ \/ Find(t, table, k) = Empty /\ \A x \in Contents(table.slots) : SearchKey(t, x) # k
            \/ /\ Find(t, table, k) \in Contents(table.slots) /\ SearchKey(t, Find(t, table, k)) = k
               /\ \A x \in Contents(table.slots) : SearchKey(t, x) = k => x = Find(t, table, k)
<1> DEFINE slots == table.slots
           c == Capacity(table)
           P == {i \in 0 .. c - 1 : slots[i] = Empty \/ SearchKey(t, slots[i]) = k}
<1>1. /\ c \in Nat
      /\ slots \in [0 .. c - 1 -> Resource \cup {Empty}]
      /\ Searchable(t, slots, c)
      /\ table.count = Cardinality(Taken(slots)) /\ table.count \in Nat
      /\ table.count <= c - (c \div 4)
      /\ c = 0 \/ c >= 4
  BY TableIs
<1>2. CASE c = 0
  <2>1. Ends(t, table, k) /\ Find(t, table, k) = Empty
    BY <1>2 DEF Ends, Find
  <2>2. Contents(slots) = {}
    BY <1>1, <1>2 DEF Contents, Taken
  <2> QED
    BY <2>1, <2>2
<1>3. CASE c # 0
  <2>1. c \in Nat \ {0}
    BY <1>1, <1>3
  <2>2. \E i \in 0 .. c - 1 : i \in P
    <3> DEFINE n == table.count
    <3>1. n \in Nat /\ n <= c - (c \div 4) /\ c >= 4 /\ c \in Nat /\ n = Cardinality(Taken(slots))
      BY <1>1, <1>3
    <3> HIDE DEF n, c
    <3>2. n < c
      BY <3>1
    <3>3. \E i \in 0 .. c - 1 : slots[i] = Empty
      BY <1>1, <3>1, <3>2, HasFree
    <3> QED
      BY <3>3
  <2>3. PICK n \in 0 .. c - 1 : /\ Visited(k, c, n) \in P
                                /\ \A m \in 0 .. n - 1 : Visited(k, c, m) \notin P
    <3> HIDE DEF P, c
    <3> QED
      BY <2>1, <2>2, FirstVisit
  <2>4. \A m \in 0 .. c - 1 : Stops(t, table, k, m) <=> Visited(k, c, m) \in P
    <3>1. \A m \in 0 .. c - 1 : Visited(k, c, m) \in 0 .. c - 1
      BY <2>1, VisitsASlot
    <3> QED
      BY <3>1 DEF Stops
  <2>5. Ends(t, table, k)
    BY <2>3, <2>4 DEF Ends
  <2> DEFINE Good(m) == Stops(t, table, k, m) /\ \A q \in 0 .. m - 1 : ~Stops(t, table, k, q)
             steps == CHOOSE m \in 0 .. c - 1 : Good(m)
  <2>6. Find(t, table, k) = slots[Visited(k, c, steps)]
    BY <1>3 DEF Find
  <2>7. Good(n)
    <3>1. \A m \in 0 .. n - 1 : m \in 0 .. c - 1
      BY <1>1, <2>3
    <3> QED
      BY <2>3, <2>4, <3>1
  <2>8. steps \in 0 .. c - 1 /\ Good(steps)
    <3> HIDE DEF Good
    <3> QED
      BY <2>3, <2>7
  <2> HIDE DEF steps
  <2>9. steps = n
    <3>1. ~(n < steps)
      BY <2>7, <2>8
    <3>2. ~(steps < n)
      BY <2>7, <2>8
    <3> QED
      BY <1>1, <2>3, <2>8, <3>1, <3>2
  <2>10. PICK f : f = Find(t, table, k)
    OBVIOUS
  <2>11. /\ Visited(k, c, n) \in 0 .. c - 1
         /\ f = slots[Visited(k, c, n)] /\ (f = Empty \/ SearchKey(t, f) = k)
    BY <2>3, <2>6, <2>9, <2>10
  <2>12. ASSUME NEW x \in Contents(slots), SearchKey(t, x) = k PROVE f = x
    <3>1. PICK i \in Taken(slots) : x = slots[i]
      BY DEF Contents
    <3>2. PICK q \in 0 .. c - 1 :
            /\ Visited(k, c, q) = i
            /\ \A m \in 0 .. q - 1 : Visited(k, c, m) \in Taken(slots) \ {i}
      BY <1>1, <2>12, <3>1 DEF Searchable
    <3>3. i \in P
      BY <1>1, <2>12, <3>1 DEF Taken
    <3>4. ~(q < n)
      BY <2>3, <3>2, <3>3
    <3>5. ~(n < q)
      <4> SUFFICES ASSUME n < q PROVE FALSE
        OBVIOUS
      <4>1. n \in 0 .. q - 1
        BY <1>1, <2>3, <3>2
      <4>2. Visited(k, c, n) \in Taken(slots) /\ Visited(k, c, n) # i
        BY <3>2, <4>1
      <4>3. SearchKey(t, slots[Visited(k, c, n)]) = SearchKey(t, slots[i])
        BY <2>3, <2>12, <3>1, <4>2 DEF Taken
      <4> QED
        BY <1>1, <3>1, <4>2, <4>3 DEF Searchable
    <3>6. q = n
      BY <1>1, <2>3, <3>2, <3>4, <3>5
    <3> QED
      BY <2>11, <3>1, <3>2, <3>6
  <2>13. f # Empty => f \in Contents(slots)
    BY <1>1, <2>11 DEF Contents, Taken
  <2>14. \A x \in Contents(slots) : x # Empty
    BY DEF Contents, Taken
  <2> HIDE DEF slots, c, P
  <2>15. CASE f = Empty
    BY <2>5, <2>10, <2>12, <2>14, <2>15 DEF slots
  <2>16. CASE f # Empty
    BY <2>5, <2>10, <2>11, <2>12, <2>13, <2>16 DEF slots
  <2> QED
    BY <2>15, <2>16
<1> QED
  BY <1>2, <1>3

-----------------------------------------------------------------------------
\* Steps.

Fit(new) == new \in [Table -> Tables] /\ \A t \in Table : TableFits(t, new[t])

\* What the tables hold is what was registered and replaced.
ContentsFit ==
  /\ DOMAIN dataOf \subseteq Resource /\ DOMAIN sourceOf \subseteq Resource
  /\ Contents(tables["key"].slots) = DOMAIN dataOf
  /\ Contents(tables["identity"].slots) = {r \in DOMAIN dataOf : Streamed(r)}
  /\ Contents(tables["path"].slots) \subseteq DOMAIN dataOf
  /\ \A r \in DOMAIN dataOf : Streamed(r) => \E x \in Contents(tables["path"].slots) : PathOf(x) = PathOf(r)
  /\ Contents(tables["replacement"].slots) = DOMAIN sourceOf

IndexInv == Fit(tables) /\ ContentsFit

LEMMA NothingFits ==
  ASSUME NEW t \in Table
  PROVE  NoTable \in Tables /\ TableFits(t, NoTable) /\ Contents(NoTable.slots) = {}
<1> DEFINE none == << >>
<1>1. none \in [0 .. 0 - 1 -> Resource \cup {Empty}]
  OBVIOUS
<1>2. Taken(none) = {}
  BY <1>1 DEF Taken
<1> HIDE DEF none
<1>3. Contents(none) = {}
  BY <1>2 DEF Contents
<1>4. Searchable(t, none, 0)
  BY <1>2, <1>3 DEF Searchable
<1>5. NoTable = [slots |-> none, count |-> 0]
  BY DEF NoTable, none
<1>6. 0 = Cardinality(Taken(none))
  BY <1>2, FS_EmptySet
<1>7. NoTable \in Tables /\ TableFits(t, NoTable)
  <2>1. PICK c : c = 0
    OBVIOUS
  <2>2. c \in Nat /\ c <= c - (c \div 4)
    BY <2>1
  <2>3. PartsFit(t, c, none, c)
    BY <1>4, <1>6, <2>1, <2>2 DEF PartsFit
  <2>4. none \in [0 .. c - 1 -> Resource \cup {Empty}] /\ NoTable = [slots |-> none, count |-> c]
    BY <1>1, <1>5, <2>1
  <2> QED
    BY <2>2, <2>3, <2>4, TableMade
<1>8. NoTable.slots = none
  BY <1>5
<1> QED
  BY <1>3, <1>7, <1>8

LEMMA IndexInvInit == IndexInit => IndexInv
<1> SUFFICES ASSUME IndexInit PROVE IndexInv
  OBVIOUS
<1>1. \A t \in Table : tables[t] = NoTable
  BY DEF IndexInit
<1>2. Fit(tables)
  <2>1. \A t \in Table : tables[t] \in Tables /\ TableFits(t, tables[t])
    BY <1>1, NothingFits
  <2>2. tables = [t \in Table |-> tables[t]]
    BY DEF IndexInit
  <2> QED
    BY <2>1, <2>2 DEF Fit
<1>3. \A t \in Table : Contents(tables[t].slots) = {}
  BY <1>1, NothingFits
<1>4. DOMAIN dataOf = {} /\ DOMAIN sourceOf = {}
  BY DEF IndexInit
<1>5. ContentsFit
  <2>1. /\ Contents(tables["key"].slots) = {} /\ Contents(tables["identity"].slots) = {}
        /\ Contents(tables["path"].slots) = {} /\ Contents(tables["replacement"].slots) = {}
    BY <1>3 DEF Table
  <2> QED
    BY <1>4, <2>1 DEF ContentsFit
<1> QED
  BY <1>2, <1>5 DEF IndexInv

LEMMA KeyHash == ASSUME NEW r \in Resource PROVE HashOf(KeyOf(r)) \in Nat
BY IndexAssumption

\* Whether a key is registered is what a search for it says.
LEMMA FoundIs ==
  ASSUME IndexInv, NEW r \in Resource
  PROVE  \/ Found(r) = Empty /\ \A x \in DOMAIN dataOf : KeyOf(x) # KeyOf(r)
         \/ /\ Found(r) \in DOMAIN dataOf /\ KeyOf(Found(r)) = KeyOf(r)
            /\ \A x \in DOMAIN dataOf : KeyOf(x) = KeyOf(r) => x = Found(r)
<1>1. "key" \in Table /\ tables["key"] \in Tables /\ TableFits("key", tables["key"])
  BY DEF IndexInv, Fit, Table
<1>2. \A x : SearchKey("key", x) = KeyOf(x)
  BY DEF SearchKey
<1>3. Contents(tables["key"].slots) = DOMAIN dataOf
  BY DEF IndexInv, ContentsFit
<1>4. HashOf(KeyOf(r)) \in Nat
  BY KeyHash
<1>5. \/ Find("key", tables["key"], KeyOf(r)) = Empty /\ \A x \in Contents(tables["key"].slots) : SearchKey("key", x) # KeyOf(r)
      \/ /\ Find("key", tables["key"], KeyOf(r)) \in Contents(tables["key"].slots)
         /\ SearchKey("key", Find("key", tables["key"], KeyOf(r))) = KeyOf(r)
         /\ \A x \in Contents(tables["key"].slots) : SearchKey("key", x) = KeyOf(r) => x = Find("key", tables["key"], KeyOf(r))
  BY <1>1, <1>4, FindIs
<1> QED
  BY <1>2, <1>3, <1>5 DEF Found

LEMMA ReplacementIs ==
  ASSUME IndexInv, NEW r \in Resource
  PROVE  \/ Replacement(KeyOf(r)) = Empty /\ \A x \in DOMAIN sourceOf : KeyOf(x) # KeyOf(r)
         \/ /\ Replacement(KeyOf(r)) \in DOMAIN sourceOf /\ KeyOf(Replacement(KeyOf(r))) = KeyOf(r)
            /\ \A x \in DOMAIN sourceOf : KeyOf(x) = KeyOf(r) => x = Replacement(KeyOf(r))
<1> DEFINE t == "replacement"
           k == KeyOf(r)
<1>1. t \in Table /\ tables[t] \in Tables /\ TableFits(t, tables[t])
  BY DEF IndexInv, Fit, Table
<1>2. \A x : SearchKey(t, x) = KeyOf(x)
  BY DEF SearchKey
<1>3. Contents(tables[t].slots) = DOMAIN sourceOf
  BY DEF IndexInv, ContentsFit
<1>4. HashOf(k) \in Nat
  BY KeyHash
<1>5. Replacement(k) = Find(t, tables[t], k)
  BY DEF Replacement
<1> HIDE DEF t, k
<1>6. \/ Find(t, tables[t], k) = Empty /\ \A x \in Contents(tables[t].slots) : SearchKey(t, x) # k
      \/ /\ Find(t, tables[t], k) \in Contents(tables[t].slots)
         /\ SearchKey(t, Find(t, tables[t], k)) = k
         /\ \A x \in Contents(tables[t].slots) : SearchKey(t, x) = k => x = Find(t, tables[t], k)
  BY <1>1, <1>4, FindIs
<1> QED
  BY <1>2, <1>3, <1>5, <1>6 DEF k

Room(table) == Capacity(table) >= 4 /\ table.count + 1 <= Capacity(table) - (Capacity(table) \div 4)

\* Tables of which some have grown.
LEMMA GrownTables ==
  ASSUME IndexInv, NEW G, NEW new, new = [t \in Table |-> IF t \in G THEN Grown(t, tables[t]) ELSE tables[t]]
  PROVE  /\ Fit(new) /\ \A t \in Table : Contents(new[t].slots) = Contents(tables[t].slots)
         /\ \A t \in Table : t \in G => Room(new[t])
<1>1. ASSUME NEW t \in Table
      PROVE  /\ new[t] \in Tables /\ TableFits(t, new[t])
             /\ Contents(new[t].slots) = Contents(tables[t].slots)
             /\ t \in G => Room(new[t])
  <2>1. tables[t] \in Tables /\ TableFits(t, tables[t])
    BY DEF IndexInv, Fit
  <2>2. CASE t \in G
    <3>1. new[t] = Grown(t, tables[t])
      BY <2>2
    <3>2. Grown(t, tables[t]).count = tables[t].count
      BY <2>1, GrownFits
    <3>3. /\ Grown(t, tables[t]) \in Tables /\ TableFits(t, Grown(t, tables[t]))
          /\ Contents(Grown(t, tables[t]).slots) = Contents(tables[t].slots)
          /\ Room(Grown(t, tables[t]))
      BY <2>1, <3>2, GrownFits DEF Room
    <3> QED
      BY <3>1, <3>3
  <2>3. CASE t \notin G
    BY <2>1, <2>3
  <2> QED
    BY <2>2, <2>3
<1>2. new \in [Table -> Tables]
  BY <1>1
<1> QED
  BY <1>1, <1>2 DEF Fit

\* Growing changes nothing that can be seen.
LEMMA GrowStep ==
  ASSUME IndexInv, NEW G, tables' = [t \in Table |-> IF t \in G THEN Grown(t, tables[t]) ELSE tables[t]],
         UNCHANGED <<dataOf, sourceOf>>
  PROVE  IndexInv'
<1>1. PICK new : new = tables'
  OBVIOUS
<1>2. Fit(new) /\ \A t \in Table : Contents(new[t].slots) = Contents(tables[t].slots)
  BY <1>1, GrownTables
<1>3. /\ Contents(new["key"].slots) = Contents(tables["key"].slots)
      /\ Contents(new["identity"].slots) = Contents(tables["identity"].slots)
      /\ Contents(new["path"].slots) = Contents(tables["path"].slots)
      /\ Contents(new["replacement"].slots) = Contents(tables["replacement"].slots)
  BY <1>2 DEF Table
<1>4. ContentsFit'
  BY <1>1, <1>3 DEF IndexInv, ContentsFit
<1> QED
  BY <1>1, <1>2, <1>4 DEF IndexInv

LEMMA RegisterStep == ASSUME IndexInv, NEW r \in Resource, NEW d \in Data, Register(r, d) PROVE IndexInv'
<1>1. \A x \in DOMAIN dataOf : KeyOf(x) # KeyOf(r)
  BY FoundIs, IndexAssumption DEF Register, IndexInv, ContentsFit
<1>2. PICK reserved : reserved = [t \in Table |-> IF t \in TablesOf(r) THEN Grown(t, tables[t]) ELSE tables[t]]
  OBVIOUS
<1>3. /\ Fit(reserved) /\ \A t \in Table : Contents(reserved[t].slots) = Contents(tables[t].slots)
      /\ \A t \in Table : t \in TablesOf(r) => Room(reserved[t])
  BY <1>2, GrownTables
<1>4. PICK new : new = tables'
  OBVIOUS
<1>5. new = [t \in Table |->
        IF t \notin TablesOf(r) \/ (t = "path" /\ Find(t, reserved[t], PathOf(r)) # Empty) THEN reserved[t]
        ELSE Entered(t, reserved[t], r)]
  BY <1>2, <1>4 DEF Register, Enters
<1> DEFINE Old(t) == Contents(tables[t].slots)
           Kept(t) == t \notin TablesOf(r) \/ (t = "path" /\ Find(t, reserved[t], PathOf(r)) # Empty)
<1>6. ASSUME NEW t \in Table
      PROVE  /\ new[t] \in Tables /\ TableFits(t, new[t])
             /\ Kept(t) => Contents(new[t].slots) = Old(t)
             /\ ~Kept(t) => Contents(new[t].slots) = Old(t) \cup {r}
             /\ t = "path" /\ t \in TablesOf(r) /\ Kept(t) => \E x \in Old(t) : PathOf(x) = PathOf(r)
  <2>1. reserved[t] \in Tables /\ TableFits(t, reserved[t]) /\ Contents(reserved[t].slots) = Old(t)
    BY <1>3 DEF Fit
  <2>2. ASSUME t = "path", t \in TablesOf(r)
        PROVE  IF Find(t, reserved[t], PathOf(r)) = Empty THEN \A x \in Old(t) : PathOf(x) # PathOf(r)
               ELSE \E x \in Old(t) : PathOf(x) = PathOf(r)
    <3> DEFINE k == PathOf(r)
               f == Find(t, reserved[t], k)
    <3>1. HashOf(k) \in Nat
      BY <2>2, IndexAssumption DEF TablesOf, Streamed
    <3>2. \A x : SearchKey(t, x) = PathOf(x)
      BY <2>2 DEF SearchKey
    <3>3. \A x \in Old(t) : x # Empty
      BY DEF Contents, Taken
    <3> HIDE DEF k
    <3>4. \/ f = Empty /\ \A x \in Contents(reserved[t].slots) : SearchKey(t, x) # k
          \/ f \in Contents(reserved[t].slots) /\ SearchKey(t, f) = k
      BY <2>1, <3>1, FindIs
    <3> HIDE DEF f, Old
    <3>5. IF f = Empty THEN \A x \in Old(t) : PathOf(x) # k ELSE \E x \in Old(t) : PathOf(x) = k
      BY <2>1, <3>2, <3>3, <3>4
    <3> QED
      BY <3>5 DEF f, k
  <2>3. CASE Kept(t)
    <3>1. new[t] = reserved[t]
      BY <1>5, <2>3
    <3> QED
      BY <2>1, <2>2, <2>3, <3>1
  <2>4. CASE ~Kept(t)
    <3>1. new[t] = Entered(t, reserved[t], r)
      BY <1>5, <2>4
    <3>2. t \in TablesOf(r) /\ (t = "path" => Find(t, reserved[t], PathOf(r)) = Empty)
      BY <2>4
    <3>3. r \in Enterable(t)
      BY <3>2 DEF Enterable, TablesOf
    <3>4. \A x \in Old(t) : SearchKey(t, x) # SearchKey(t, r)
      <4>1. CASE t = "path"
        BY <2>2, <3>2, <4>1 DEF SearchKey
      <4>2. CASE t # "path"
        <5>1. t \in {"key", "identity"}
          BY <3>2, <4>2 DEF TablesOf
        <5>2. Old(t) \subseteq DOMAIN dataOf
          BY <5>1 DEF IndexInv, ContentsFit
        <5> QED
          BY <1>1, <4>2, <5>2 DEF SearchKey
      <4> QED
        BY <4>1, <4>2
    <3>5. Room(reserved[t])
      BY <1>3, <3>2
    <3> HIDE DEF Old
    <3>6. \A x \in Contents(reserved[t].slots) : SearchKey(t, x) # SearchKey(t, r)
      BY <2>1, <3>4
    <3>7. /\ Entered(t, reserved[t], r) \in Tables /\ TableFits(t, Entered(t, reserved[t], r))
          /\ Contents(Entered(t, reserved[t], r).slots) = Contents(reserved[t].slots) \cup {r}
      <4>1. /\ Capacity(reserved[t]) >= 4
            /\ reserved[t].count + 1 <= Capacity(reserved[t]) - (Capacity(reserved[t]) \div 4)
        BY <3>5 DEF Room
      <4> QED
        BY <2>1, <3>3, <3>6, <4>1, EnteredFits
    <3> QED
      BY <2>1, <2>4, <3>1, <3>7
  <2> QED
    BY <2>3, <2>4
<1>7. Fit(new)
  <2>1. new = [t \in Table |-> new[t]]
    BY <1>5
  <2> QED
    BY <1>6, <2>1 DEF Fit
<1>8. DOMAIN dataOf' = DOMAIN dataOf \cup {r} /\ UNCHANGED sourceOf
  BY DEF Register
<1>9. "key" \in TablesOf(r) /\ "replacement" \notin TablesOf(r)
      /\ ("identity" \in TablesOf(r) <=> Streamed(r)) /\ ("path" \in TablesOf(r) <=> Streamed(r))
  BY DEF TablesOf
<1>10. /\ Contents(new["key"].slots) = Old("key") \cup {r}
       /\ Contents(new["identity"].slots) = Old("identity") \cup (IF Streamed(r) THEN {r} ELSE {})
       /\ Contents(new["replacement"].slots) = Old("replacement")
  <2>1. "key" \in Table /\ "identity" \in Table /\ "replacement" \in Table
    BY DEF Table
  <2> HIDE DEF Old
  <2>2. ~Kept("key") /\ Kept("replacement") /\ (Kept("identity") <=> ~Streamed(r))
    BY <1>9
  <2> HIDE DEF Kept
  <2> QED
    BY <1>6, <2>1, <2>2
<1>11. /\ Contents(new["path"].slots) \in {Old("path"), Old("path") \cup {r}}
       /\ Streamed(r) => \E x \in Contents(new["path"].slots) : PathOf(x) = PathOf(r)
  <2>1. "path" \in Table
    BY DEF Table
  <2> HIDE DEF Old
  <2>2. CASE Kept("path")
    BY <1>6, <1>9, <2>1, <2>2
  <2>3. CASE ~Kept("path")
    BY <1>6, <2>1, <2>3
  <2> QED
    BY <2>2, <2>3
<1>12. ContentsFit'
  <2>1. /\ DOMAIN dataOf \subseteq Resource /\ DOMAIN sourceOf \subseteq Resource
        /\ Old("key") = DOMAIN dataOf
        /\ Old("identity") = {x \in DOMAIN dataOf : Streamed(x)}
        /\ Old("path") \subseteq DOMAIN dataOf
        /\ \A x \in DOMAIN dataOf : Streamed(x) => \E y \in Old("path") : PathOf(y) = PathOf(x)
        /\ Old("replacement") = DOMAIN sourceOf
    BY DEF IndexInv, ContentsFit
  <2> HIDE DEF Old
  <2>2. /\ DOMAIN dataOf' \subseteq Resource /\ DOMAIN sourceOf' \subseteq Resource
        /\ Contents(new["key"].slots) = DOMAIN dataOf'
        /\ Contents(new["path"].slots) \subseteq DOMAIN dataOf'
        /\ Contents(new["replacement"].slots) = DOMAIN sourceOf'
    BY <1>8, <1>10, <1>11, <2>1
  <2>3. Contents(new["identity"].slots) = {x \in DOMAIN dataOf' : Streamed(x)}
    BY <1>8, <1>10, <2>1
  <2>4. \A x \in DOMAIN dataOf' : Streamed(x) => \E y \in Contents(new["path"].slots) : PathOf(y) = PathOf(x)
    BY <1>8, <1>11, <2>1
  <2> QED
    BY <1>4, <2>2, <2>3, <2>4 DEF ContentsFit
<1> QED
  BY <1>4, <1>7, <1>12 DEF IndexInv

LEMMA ReserveFailsStep ==
  ASSUME IndexInv, NEW r \in Resource, NEW failing \in {"key", "identity", "path"}, ReserveFails(r, failing)
  PROVE  IndexInv'
<1> DEFINE G == {t \in TablesOf(r) : Order[t] < Order[failing]}
<1>1. tables' = [t \in Table |-> IF t \in TablesOf(r) /\ Order[t] < Order[failing] THEN Grown(t, tables[t]) ELSE tables[t]]
  BY DEF ReserveFails
<1>2. tables' = [t \in Table |-> IF t \in G THEN Grown(t, tables[t]) ELSE tables[t]]
  BY <1>1
<1>3. UNCHANGED <<dataOf, sourceOf>>
  BY DEF ReserveFails
<1> HIDE DEF G
<1> QED
  BY <1>2, <1>3, GrowStep

LEMMA CreateFailsStep == ASSUME IndexInv, NEW r \in Resource, CreateFails(r) PROVE IndexInv'
BY GrowStep DEF CreateFails

LEMMA ReplaceFailsStep == ASSUME IndexInv, NEW target \in Resource, ReplaceFails(target) PROVE IndexInv'
<1> DEFINE G == {"replacement"}
<1>1. tables = [t \in Table |-> tables[t]] /\ "replacement" \in Table
  BY DEF IndexInv, Fit, Table
<1>2. tables' = [tables EXCEPT !["replacement"] = Grown("replacement", tables["replacement"])]
  BY DEF ReplaceFails
<1>3. tables' = [t \in Table |-> IF t \in G THEN Grown(t, tables[t]) ELSE tables[t]]
  BY <1>1, <1>2
<1>4. UNCHANGED <<dataOf, sourceOf>>
  BY DEF ReplaceFails
<1> HIDE DEF G
<1> QED
  BY <1>3, <1>4, GrowStep

LEMMA ReplaceAgainStep ==
  ASSUME IndexInv, NEW target \in Resource, NEW source \in Resource, ReplaceAgain(target, source)
  PROVE  IndexInv'
<1>1. UNCHANGED <<tables, dataOf>> /\ DOMAIN sourceOf' = DOMAIN sourceOf
  BY DEF ReplaceAgain
<1> QED
  BY <1>1 DEF IndexInv, Fit, ContentsFit

LEMMA ReplaceNewStep ==
  ASSUME IndexInv, NEW target \in Resource, NEW source \in Resource, ReplaceNew(target, source)
  PROVE  IndexInv'
<1>1. PICK t : t = "replacement"
  OBVIOUS
<1>2. t \in Table /\ tables \in [Table -> Tables] /\ tables[t] \in Tables /\ TableFits(t, tables[t])
  BY <1>1 DEF IndexInv, Fit, Table
<1>3. PICK grown : grown = Grown(t, tables[t])
  OBVIOUS
<1>4. /\ grown \in Tables /\ TableFits(t, grown) /\ Contents(grown.slots) = Contents(tables[t].slots)
      /\ Capacity(grown) >= 4 /\ grown.count + 1 <= Capacity(grown) - (Capacity(grown) \div 4)
  <2>1. grown.count = tables[t].count
    BY <1>2, <1>3, GrownFits
  <2> QED
    BY <1>2, <1>3, <2>1, GrownFits
<1>5. PICK new : new = Entered(t, grown, target)
  OBVIOUS
<1>6. tables' = [tables EXCEPT ![t] = new]
  BY <1>1, <1>3, <1>5 DEF ReplaceNew
<1>7. Contents(tables[t].slots) = DOMAIN sourceOf /\ DOMAIN sourceOf \subseteq Resource
  BY <1>1 DEF IndexInv, ContentsFit
<1>8. target \in Enterable(t) /\ \A x \in Contents(grown.slots) : SearchKey(t, x) # SearchKey(t, target)
  <2>1. \A x : SearchKey(t, x) = KeyOf(x)
    BY <1>1 DEF SearchKey
  <2>2. \A x \in DOMAIN sourceOf : KeyOf(x) # KeyOf(target)
    BY <1>7, ReplacementIs, IndexAssumption DEF ReplaceNew
  <2> QED
    BY <1>1, <1>4, <1>7, <2>1, <2>2 DEF Enterable
<1>9. new \in Tables /\ TableFits(t, new) /\ Contents(new.slots) = DOMAIN sourceOf \cup {target}
  BY <1>2, <1>4, <1>5, <1>7, <1>8, EnteredFits
<1>10. DOMAIN sourceOf' = DOMAIN sourceOf \cup {target} /\ UNCHANGED dataOf
  BY DEF ReplaceNew
<1>11. tables' \in [Table -> Tables] /\ tables'[t] = new /\ \A s \in Table : s # t => tables'[s] = tables[s]
  BY <1>2, <1>6, <1>9
<1>12. Fit(tables')
  BY <1>9, <1>11 DEF IndexInv, Fit
<1>13. tables'["key"] = tables["key"] /\ tables'["identity"] = tables["identity"] /\ tables'["path"] = tables["path"]
       /\ tables'["replacement"] = new
  BY <1>1, <1>11 DEF Table
<1>14. ContentsFit'
  BY <1>7, <1>9, <1>10, <1>13 DEF IndexInv, ContentsFit
<1> QED
  BY <1>12, <1>14 DEF IndexInv

LEMMA IndexInvStep == IndexInv /\ [IndexNext]_indexVars => IndexInv'
<1> SUFFICES ASSUME IndexInv, [IndexNext]_indexVars PROVE IndexInv'
  OBVIOUS
<1>1. CASE UNCHANGED indexVars
  BY <1>1 DEF indexVars, IndexInv, Fit, ContentsFit
<1>2. CASE \E r \in Resource, d \in Data : Register(r, d)
  BY <1>2, RegisterStep
<1>3. CASE \E r \in Resource, t \in {"key", "identity", "path"} : ReserveFails(r, t)
  BY <1>3, ReserveFailsStep
<1>4. CASE \E r \in Resource : CreateFails(r)
  BY <1>4, CreateFailsStep
<1>5. CASE \E target, source \in Resource : ReplaceAgain(target, source)
  BY <1>5, ReplaceAgainStep
<1>6. CASE \E target, source \in Resource : ReplaceNew(target, source)
  BY <1>6, ReplaceNewStep
<1>7. CASE \E target \in Resource : ReplaceFails(target)
  BY <1>7, ReplaceFailsStep
<1> QED
  BY <1>1, <1>2, <1>3, <1>4, <1>5, <1>6, <1>7 DEF IndexNext

\* The tables fit and hold what was registered, in every reachable state.
THEOREM TablesInvariant == IndexSpec => []IndexInv
BY IndexInvInit, IndexInvStep, PTL DEF IndexSpec

LEMMA FitIsSearchable == IndexInv => TablesAreSearchable
<1> SUFFICES ASSUME IndexInv PROVE TablesAreSearchable
  OBVIOUS
<1>1. ASSUME NEW t \in Table, NEW r \in Resource, t # "path" \/ Streamed(r) PROVE Ends(t, tables[t], SearchKey(t, r))
  <2>1. r \in Enterable(t)
    BY <1>1 DEF Enterable
  <2>2. HashOf(SearchKey(t, r)) \in Nat
    BY <2>1, Hashes
  <2>3. tables[t] \in Tables /\ TableFits(t, tables[t])
    BY DEF IndexInv, Fit
  <2> QED
    BY <2>2, <2>3, FindIs
<1>2. ASSUME NEW t \in Table, Capacity(tables[t]) > 0
      PROVE  Empty \in {tables[t].slots[i] : i \in DOMAIN tables[t].slots}
  <2>1. tables[t] \in Tables /\ TableFits(t, tables[t])
    BY DEF IndexInv, Fit
  <2> DEFINE c == Capacity(tables[t])
             n == tables[t].count
  <2>2. /\ c \in Nat /\ DOMAIN tables[t].slots = 0 .. c - 1
        /\ tables[t].slots \in [0 .. c - 1 -> Resource \cup {Empty}]
        /\ n = Cardinality(Taken(tables[t].slots)) /\ n \in Nat
        /\ n <= c - (c \div 4)
        /\ c = 0 \/ c >= 4
    BY <2>1, TableIs
  <2>3. c > 0
    BY <1>2
  <2> HIDE DEF c, n
  <2>4. n < c
    BY <2>2, <2>3
  <2>5. \E i \in 0 .. c - 1 : tables[t].slots[i] = Empty
    BY <2>2, <2>4, HasFree
  <2> QED
    BY <2>2, <2>5
<1>3. ASSUME NEW r \in DOMAIN dataOf, NEW t \in TablesOf(r)
      PROVE  LET found == Find(t, tables[t], SearchKey(t, r)) IN
             IF t = "path" THEN found \in DOMAIN dataOf /\ PathOf(found) = PathOf(r) ELSE found = r
  <2>1. t \in Table /\ r \in Resource /\ r \in Enterable(t)
    BY <1>3 DEF Table, TablesOf, Enterable, IndexInv, ContentsFit
  <2>2. tables[t] \in Tables /\ TableFits(t, tables[t])
    BY <2>1 DEF IndexInv, Fit
  <2>3. HashOf(SearchKey(t, r)) \in Nat
    BY <2>1, Hashes
  <2> DEFINE k == SearchKey(t, r)
             held == Contents(tables[t].slots)
             found == Find(t, tables[t], k)
  <2> HIDE DEF k
  <2>4. \/ found = Empty /\ \A x \in held : SearchKey(t, x) # k
        \/ /\ found \in held /\ SearchKey(t, found) = k
           /\ \A x \in held : SearchKey(t, x) = k => x = found
    <3>1. HashOf(k) \in Nat
      BY <2>3 DEF k
    <3> QED
      BY <2>1, <2>2, <3>1, FindIs
  <2> HIDE DEF found, held
  <2>5. CASE t = "path"
    <3>1. \A x : SearchKey(t, x) = PathOf(x)
      BY <2>5 DEF SearchKey
    <3>2. Streamed(r) /\ held \subseteq DOMAIN dataOf
      BY <2>1, <2>5 DEF Enterable, IndexInv, ContentsFit, held
    <3>3. \E x \in held : PathOf(x) = PathOf(r)
      BY <2>5, <3>2 DEF IndexInv, ContentsFit, held
    <3>4. found \in DOMAIN dataOf /\ PathOf(found) = PathOf(r)
      BY <2>4, <3>1, <3>2, <3>3 DEF k
    <3> QED
      BY <2>5, <3>4 DEF found, k
  <2>6. CASE t # "path"
    <3>1. r \in held
      <4>1. t = "key" \/ (t = "identity" /\ Streamed(r))
        BY <1>3, <2>6 DEF TablesOf
      <4> QED
        BY <1>3, <4>1 DEF IndexInv, ContentsFit, held
    <3>2. found = r
      BY <2>4, <3>1 DEF k
    <3> QED
      BY <2>6, <3>2 DEF found, k
  <2> QED
    BY <2>5, <2>6
<1>4. SearchesEnd
  BY <1>1, <1>2 DEF SearchesEnd
<1>5. RegisteredIsFound
  BY <1>3 DEF RegisteredIsFound
<1> QED
  BY <1>4, <1>5 DEF TablesAreSearchable

\* Every search under a lock of the tables ends, and what was registered is found through each of
\* its tables (sa_find_mapping_slot and its kin in mapping/, sa_find_replacement), for any keys that
\* collide and any order of growing, failing and inserting.
THEOREM TablesCorrect == IndexSpec => []TablesAreSearchable
BY TablesInvariant, FitIsSearchable, PTL

-----------------------------------------------------------------------------
(***************************************************************************)
(* The tables implement the map, for any resources: by the invariant, what  *)
(* a search finds is what was registered and replaced.                      *)
(***************************************************************************)
DataOf == [r \in {x \in Resource : Found(x) = x} |-> dataOf[r]]
Replaced == [r \in {x \in Resource : Replacement(KeyOf(x)) = x} |-> sourceOf[r]]
Known(f) == [r \in DOMAIN f |-> f[r]]

FindsKnown == DataOf = Known(dataOf) /\ Replaced = Known(sourceOf)

LEMMA MappedIs == IndexInv => FindsKnown
<1> SUFFICES ASSUME IndexInv PROVE DataOf = Known(dataOf) /\ Replaced = Known(sourceOf)
  BY DEF FindsKnown
<1>1. DOMAIN dataOf \subseteq Resource /\ DOMAIN sourceOf \subseteq Resource /\ Empty \notin Resource
  BY IndexAssumption DEF IndexInv, ContentsFit
<1>2. {x \in Resource : Found(x) = x} = DOMAIN dataOf
  <2>1. ASSUME NEW x \in Resource PROVE Found(x) = x <=> x \in DOMAIN dataOf
    BY <1>1, FoundIs
  <2> QED
    BY <1>1, <2>1
<1>3. {x \in Resource : Replacement(KeyOf(x)) = x} = DOMAIN sourceOf
  <2>1. ASSUME NEW x \in Resource PROVE Replacement(KeyOf(x)) = x <=> x \in DOMAIN sourceOf
    BY <1>1, ReplacementIs
  <2> QED
    BY <1>1, <2>1
<1> QED
  BY <1>2, <1>3 DEF DataOf, Replaced, Known

LEMMA MapInitially == IndexInit => Abstract!MapInit
<1> SUFFICES ASSUME IndexInit PROVE Abstract!MapInit
  OBVIOUS
<1>1. DataOf = Known(dataOf) /\ Replaced = Known(sourceOf)
  BY IndexInvInit, MappedIs DEF FindsKnown
<1>2. Known(dataOf) = << >> /\ Known(sourceOf) = << >>
  BY DEF IndexInit, Known
<1> QED
  BY <1>1, <1>2 DEF Abstract!MapInit, DataOf, Replaced

\* The step of the map for each step of the tables.
LEMMA MapStep ==
  ASSUME IndexInv, [IndexNext]_indexVars, FindsKnown, FindsKnown'
  PROVE  [Abstract!MapNext]_(Abstract!mapVars)
<1>0. /\ DataOf = Known(dataOf) /\ Replaced = Known(sourceOf)
      /\ DataOf' = Known(dataOf') /\ Replaced' = Known(sourceOf')
  BY DEF FindsKnown
<1>1. CASE UNCHANGED <<dataOf, sourceOf>>
  <2>1. DataOf' = DataOf /\ Replaced' = Replaced
    BY <1>0, <1>1
  <2> QED
    BY <2>1 DEF Abstract!mapVars, DataOf, Replaced
<1>2. ASSUME NEW r \in Resource, NEW d \in Data, Register(r, d) PROVE Abstract!MapNext
  <2>1. DOMAIN DataOf = DOMAIN dataOf
    BY <1>0 DEF Known
  <2>2. \A x \in DOMAIN dataOf : KeyOf(x) # KeyOf(r)
    BY <1>2, FoundIs, IndexAssumption DEF Register, IndexInv, ContentsFit
  <2>3. DataOf' = [x \in DOMAIN DataOf \cup {r} |-> IF x = r THEN d ELSE DataOf[x]]
    <3>1. dataOf' = [x \in DOMAIN dataOf \cup {r} |-> IF x = r THEN d ELSE dataOf[x]]
      BY <1>0, <1>2 DEF Register
    <3>2. DataOf' = [x \in DOMAIN dataOf \cup {r} |-> IF x = r THEN d ELSE dataOf[x]]
      BY <1>0, <3>1 DEF Known
    <3>3. \A x \in DOMAIN dataOf : DataOf[x] = dataOf[x]
      BY <1>0 DEF Known
    <3> QED
      BY <2>1, <3>2, <3>3
  <2>4. Replaced' = Replaced
    BY <1>0, <1>2 DEF Register
  <2>5. Abstract!MapRegister(r, d)
    <3>1. \A x \in DOMAIN DataOf : KeyOf(x) # KeyOf(r)
      BY <2>1, <2>2
    <3>2. DataOf' = Abstract!Extended(DataOf, r, d)
      BY <2>3 DEF Abstract!Extended
    <3> QED
      BY <2>4, <3>1, <3>2 DEF Abstract!MapRegister, DataOf, Replaced
  <2> QED
    BY <2>5 DEF Abstract!MapNext
<1>3. ASSUME NEW target \in Resource, NEW source \in Resource,
             ReplaceAgain(target, source) \/ ReplaceNew(target, source)
      PROVE  Abstract!MapNext
  <2>1. DOMAIN Replaced = DOMAIN sourceOf
    BY <1>0 DEF Known
  <2>2. target \in DOMAIN sourceOf \/ ReplaceNew(target, source)
    BY <1>3, ReplacementIs, IndexAssumption DEF ReplaceAgain
  <2>3. \A x \in DOMAIN sourceOf \ {target} : KeyOf(x) # KeyOf(target)
    BY <1>3, ReplacementIs, IndexAssumption DEF ReplaceAgain, ReplaceNew, IndexInv, ContentsFit
  <2>4. sourceOf' = [x \in DOMAIN sourceOf \cup {target} |-> IF x = target THEN KeyOf(source) ELSE sourceOf[x]]
        \/ (target \in DOMAIN sourceOf /\ sourceOf' = [sourceOf EXCEPT ![target] = KeyOf(source)])
    BY <1>3, <2>2 DEF ReplaceAgain, ReplaceNew
  <2>5. Replaced' = [x \in DOMAIN Replaced \cup {target} |-> IF x = target THEN KeyOf(source) ELSE Replaced[x]]
    <3>1. Replaced' = [x \in DOMAIN sourceOf \cup {target} |-> IF x = target THEN KeyOf(source) ELSE sourceOf[x]]
      <4>1. CASE sourceOf' = [x \in DOMAIN sourceOf \cup {target} |-> IF x = target THEN KeyOf(source) ELSE sourceOf[x]]
        BY <1>0, <4>1 DEF Known
      <4>2. CASE target \in DOMAIN sourceOf /\ sourceOf' = [sourceOf EXCEPT ![target] = KeyOf(source)]
        BY <1>0, <4>2 DEF Known
      <4> QED
        BY <2>4, <4>1, <4>2
    <3>2. \A x \in DOMAIN sourceOf : Replaced[x] = sourceOf[x]
      BY <1>0 DEF Known
    <3> QED
      BY <2>1, <3>1, <3>2
  <2>6. DataOf' = DataOf
    BY <1>0, <1>3 DEF ReplaceAgain, ReplaceNew
  <2>7. Abstract!MapReplace(target, source)
    <3>1. \A x \in DOMAIN Replaced \ {target} : KeyOf(x) # KeyOf(target)
      BY <2>1, <2>3
    <3>2. Replaced' = Abstract!Extended(Replaced, target, KeyOf(source))
      BY <2>5 DEF Abstract!Extended
    <3> QED
      BY <2>6, <3>1, <3>2 DEF Abstract!MapReplace, DataOf, Replaced
  <2> QED
    BY <2>7 DEF Abstract!MapNext
<1>4. CASE IndexNext
  <2>1. CASE \E r \in Resource, d \in Data : Register(r, d)
    BY <1>2, <2>1
  <2>2. CASE \E target, source \in Resource : ReplaceAgain(target, source) \/ ReplaceNew(target, source)
    BY <1>3, <2>2
  <2>3. CASE \/ \E r \in Resource, t \in {"key", "identity", "path"} : ReserveFails(r, t)
             \/ \E r \in Resource : CreateFails(r)
             \/ \E target \in Resource : ReplaceFails(target)
    <3>1. UNCHANGED <<dataOf, sourceOf>>
      BY <2>3 DEF ReserveFails, CreateFails, ReplaceFails
    <3> QED
      BY <1>1, <3>1
  <2> QED
    BY <1>4, <2>1, <2>2, <2>3 DEF IndexNext
<1>5. CASE UNCHANGED indexVars
  BY <1>1, <1>5 DEF indexVars
<1> QED
  BY <1>4, <1>5

\* Registering a resource and replacing one are the steps of ResourceMap, and growing, rehashing and
\* allocations that fail are none: what a search finds is a map, whatever keys and hashes collide
\* (mapping/ and engine/replacement.c).
THEOREM ImplementsResourceMap == IndexSpec => ImplementsMap
<1>1. IndexInit => Abstract!MapInit
  BY MapInitially
<1>2. IndexInv => FindsKnown
  BY MappedIs
<1>3. IndexInv' => FindsKnown'
  BY <1>2, PTL
<1>4. IndexInv /\ IndexInv' /\ [IndexNext]_indexVars => [Abstract!MapNext]_(Abstract!mapVars)
  BY <1>2, <1>3, MapStep
<1> QED
  BY <1>1, <1>4, TablesInvariant, PTL DEF IndexSpec, ImplementsMap, Abstract!MapSpec
=============================================================================
