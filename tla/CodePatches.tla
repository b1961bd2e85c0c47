---------------------------- MODULE CodePatches ----------------------------
(***************************************************************************)
(* Inline hooks and call patches (darktide-internal-utils hooks.c): batches *)
(* of MinHook hooks that are installed together or not at all, and the one  *)
(* word of a call instruction that is swapped for a call of a relay.        *)
(*                                                                          *)
(* One thread installs and removes; each call it makes into MinHook or the  *)
(* system may fail, the game runs through the code while it changes, and    *)
(* another mod may patch the same call site.                                *)
(***************************************************************************)
EXTENDS Naturals, Sequences, FiniteSets

CONSTANTS
  Hook,         \* DtIntUtilsHook variables, each with its target
  Batches,      \* the batches requested: sequences of hooks
  MaxRelays     \* bound: relays allocated

ASSUME PatchAssumption ==
  /\ \A b \in Batches : b \in Seq(Hook) /\ Len(b) > 0 /\ \A i, j \in DOMAIN b : b[i] = b[j] => i = j
  /\ MaxRelays \in Nat

VARIABLES
  hooks,     \* hook: the target is set, the trampoline is set, active
  minhook,   \* MinHook: no entry for the target, created, enabled
  work,      \* the call the installing thread is in
  site,      \* the word of the call site: 0 as it was, a relay, or another mod's
  patch,     \* DtIntUtilsCallPatch
  relays     \* relays allocated so far, and those freed

patchVars == <<hooks, minhook, work, site, patch, relays>>

NoHook == [target |-> FALSE, trampoline |-> FALSE, active |-> FALSE]
NoPatch == [active |-> FALSE, relay |-> 0, original |-> 0]
NoWork == [at |-> "idle", batch |-> << >>, index |-> 0, word |-> 0]
Foreign == MaxRelays + 1

PatchInit ==
  /\ hooks = [h \in Hook |-> NoHook]
  /\ minhook = [h \in Hook |-> "none"]
  /\ work = NoWork
  /\ site = 0
  /\ patch = NoPatch
  /\ relays = [count |-> 0, freed |-> {}]

WorkIdle == work.at = "idle"
Goes(at, index) == work' = [work EXCEPT !.at = at, !.index = index]
EndsCall == work' = NoWork
siteVars == <<site, patch, relays>>

(***************************************************************************)
(* dtintutils_hooks_install.                                                *)
(***************************************************************************)
\* A request for a hook that has a target, a trampoline or is active refuses the whole batch.
InstallHooks(b) ==
  /\ WorkIdle
  /\ \A i \in DOMAIN b : hooks[b[i]] = NoHook
  /\ work' = [NoWork EXCEPT !.at = "create", !.batch = b, !.index = 1]
  /\ UNCHANGED <<hooks, minhook, siteVars>>

Record(h) == [hooks EXCEPT ![h] = [target |-> TRUE, trampoline |-> TRUE, active |-> FALSE]]

Current == work.batch[work.index]
LastOfBatch == work.index = Len(work.batch)

CreateHook ==
  /\ work.at = "create"
  /\ minhook' = [minhook EXCEPT ![Current] = "created"]
  /\ hooks' = Record(Current)
  /\ IF LastOfBatch THEN Goes("queue", 1) ELSE Goes("create", work.index + 1)
  /\ UNCHANGED siteVars

\* The hooks created so far are removed again; the batch shrinks to them.
HookNotCreated ==
  /\ work.at = "create"
  /\ IF work.index = 1 THEN EndsCall
     ELSE work' = [work EXCEPT !.at = "undo", !.batch = SubSeq(@, 1, work.index - 1), !.index = 1]
  /\ UNCHANGED <<hooks, minhook, siteVars>>

QueueEnable ==
  /\ work.at = "queue"
  /\ IF LastOfBatch THEN Goes("apply", 1) ELSE Goes("queue", work.index + 1)
  /\ UNCHANGED <<hooks, minhook, siteVars>>

QueueFails ==
  /\ work.at = "queue"
  /\ Goes("undo", 1)
  /\ UNCHANGED <<hooks, minhook, siteVars>>

InBatch == {work.batch[i] : i \in DOMAIN work.batch}

ApplyQueued ==
  /\ work.at = "apply"
  /\ minhook' = [h \in Hook |-> IF h \in InBatch THEN "enabled" ELSE minhook[h]]
  /\ hooks' = [h \in Hook |-> IF h \in InBatch THEN [hooks[h] EXCEPT !.active = TRUE] ELSE hooks[h]]
  /\ EndsCall
  /\ UNCHANGED siteVars

\* MinHook stops at the first hook it cannot enable: others may be enabled by then.
ApplyFails ==
  /\ work.at = "apply"
  /\ \E done \in SUBSET InBatch :
       /\ done # InBatch
       /\ minhook' = [h \in Hook |-> IF h \in done THEN "enabled" ELSE minhook[h]]
  /\ Goes("disable", 1)
  /\ UNCHANGED <<hooks, siteVars>>

(***************************************************************************)
(* dtintutils_hooks_cleanup.                                                *)
(***************************************************************************)
\* MH_QueueDisableHook of each and MH_ApplyQueued: any of them may fail.
DisableBatch ==
  /\ work.at = "disable"
  /\ \E done \in SUBSET InBatch : minhook' = [h \in Hook |-> IF h \in done THEN "created" ELSE minhook[h]]
  /\ Goes("undo", 1)
  /\ UNCHANGED <<hooks, siteVars>>

NextUndone == IF LastOfBatch THEN EndsCall ELSE Goes("undo", work.index + 1)

\* MH_RemoveHook disables the hook if it has to.
UndoHook ==
  /\ work.at = "undo"
  /\ minhook' = [minhook EXCEPT ![Current] = "none"]
  /\ hooks' = [hooks EXCEPT ![Current] = NoHook]
  /\ NextUndone
  /\ UNCHANGED siteVars

\* Mutant: a hook that could not be removed is forgotten.
Forgotten(h) == [hooks EXCEPT ![h] = NoHook]

\* A hook that could not be removed stays with its owner.
Retained(h) == [hooks EXCEPT ![h].active = TRUE]

UndoFails ==
  /\ work.at = "undo"
  /\ hooks' = Retained(Current)
  /\ NextUndone
  /\ UNCHANGED <<minhook, siteVars>>

(***************************************************************************)
(* dtintutils_hook_remove.                                                  *)
(***************************************************************************)
DisableHook(h) ==
  /\ WorkIdle
  /\ hooks[h].active
  /\ minhook' = [minhook EXCEPT ![h] = "created"]
  /\ work' = [NoWork EXCEPT !.at = "remove", !.batch = <<h>>, !.index = 1]
  /\ UNCHANGED <<hooks, siteVars>>

RemoveHook ==
  /\ work.at = "remove"
  /\ minhook' = [minhook EXCEPT ![Current] = "none"]
  /\ hooks' = [hooks EXCEPT ![Current] = NoHook]
  /\ EndsCall
  /\ UNCHANGED siteVars

RemoveFails ==
  /\ work.at = "remove"
  /\ EndsCall
  /\ UNCHANGED <<hooks, minhook, siteVars>>

(***************************************************************************)
(* dtintutils_call_patch_install.                                           *)
(***************************************************************************)
NewRelay == relays.count + 1
hookVars == <<hooks, minhook>>

\* The call must lead to the target every user of the patch passes; a relay is written near it, and
\* the word is read.
PrepareCall ==
  /\ WorkIdle
  /\ ~patch.active
  /\ site = 0
  /\ relays.count < MaxRelays
  /\ relays' = [relays EXCEPT !.count = NewRelay]
  /\ work' = [NoWork EXCEPT !.at = "swap", !.word = site]
  /\ UNCHANGED <<hookVars, site, patch>>

Freed == relays' = [relays EXCEPT !.freed = @ \cup {relays.count}]

\* The compare-and-exchange of dtintutils_atomic_replace_word.
SwapCall ==
  /\ work.at = "swap"
  /\ site = work.word
  /\ site' = relays.count
  /\ Goes("protect", 0)
  /\ UNCHANGED <<hookVars, patch, relays>>

\* The word changed, or its page could not be made writable.
SwapFails ==
  /\ work.at = "swap"
  /\ Freed
  /\ EndsCall
  /\ UNCHANGED <<hookVars, site, patch>>

CallPatched ==
  /\ work.at = "protect"
  /\ patch' = [active |-> TRUE, relay |-> relays.count, original |-> work.word]
  /\ EndsCall
  /\ UNCHANGED <<hookVars, site, relays>>

\* The rollback; a word that changed meanwhile ends the process.
RollBack == site' = work.word

PatchRolledBack ==
  /\ work.at = "protect"
  /\ site = relays.count
  /\ RollBack
  /\ Freed
  /\ EndsCall
  /\ UNCHANGED <<hookVars, patch>>

FailFast ==
  /\ \/ work.at = "protect" /\ site # relays.count
     \/ work.at = "unprotect" /\ site # patch.original
  /\ Goes("dead", 0)
  /\ UNCHANGED <<hookVars, siteVars>>

(***************************************************************************)
(* dtintutils_call_patch_remove.  The relay is never freed.                 *)
(***************************************************************************)
RestoreCall ==
  /\ WorkIdle
  /\ patch.active
  /\ site = patch.relay
  /\ site' = patch.original
  /\ Goes("unprotect", 0)
  /\ UNCHANGED <<hookVars, patch, relays>>

CallRestored ==
  /\ work.at = "unprotect"
  /\ patch' = NoPatch
  /\ EndsCall
  /\ UNCHANGED <<hookVars, site, relays>>

\* The removal is rolled back, and the patch stays active.
RemovalRolledBack ==
  /\ work.at = "unprotect"
  /\ site = patch.original
  /\ site' = patch.relay
  /\ EndsCall
  /\ UNCHANGED <<hookVars, patch, relays>>

(***************************************************************************)
(* Another mod that patches the site for good.                              *)
(***************************************************************************)
OtherModPatches ==
  /\ site # Foreign
  /\ site' = Foreign
  /\ UNCHANGED <<hookVars, work, patch, relays>>

PatchNext ==
  \/ \E b \in Batches : InstallHooks(b)
  \/ CreateHook \/ HookNotCreated \/ QueueEnable \/ QueueFails \/ ApplyQueued \/ ApplyFails
  \/ DisableBatch \/ UndoHook \/ UndoFails
  \/ \E h \in Hook : DisableHook(h)
  \/ RemoveHook \/ RemoveFails
  \/ PrepareCall \/ SwapCall \/ SwapFails \/ CallPatched \/ PatchRolledBack \/ FailFast
  \/ RestoreCall \/ CallRestored \/ RemovalRolledBack
  \/ OtherModPatches

PatchSpec == PatchInit /\ [][PatchNext]_patchVars

(***************************************************************************)
(* Properties.                                                              *)
(***************************************************************************)
\* Whatever failed, what the owner holds is the truth once a call has returned: a hook that is not
\* active has left nothing behind in MinHook, and the call site leads to a relay only for an active patch.
OwnersKnowTheirPatches ==
  WorkIdle =>
    /\ \A h \in Hook : /\ hooks[h].active <=> minhook[h] # "none"
                       /\ ~hooks[h].active => hooks[h] = NoHook
    /\ site \in 1 .. MaxRelays => patch.active /\ patch.relay = site

\* Changed code leads somewhere, through every failure of a batch, of its cleanup and of a swap: a
\* function that jumps to its detour has a trampoline in the hook the detour reads, and the call site
\* never leads to memory that was returned.
CodeLeadsSomewhere ==
  /\ \A h \in Hook : minhook[h] = "enabled" => hooks[h].target /\ hooks[h].trampoline
  /\ site \notin relays.freed
  /\ patch.active => patch.relay \notin relays.freed

\* Patches come and go whole, whichever of their steps fails.
PatchesAreWhole == OwnersKnowTheirPatches /\ CodeLeadsSomewhere
=============================================================================
