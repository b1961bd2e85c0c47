-------------------------- MODULE ResourceLoading --------------------------
(***************************************************************************)
(* Loading external resources in the SimpleAssets runtime.                  *)
(*                                                                          *)
(* The game thread registers a mapping and asks the engine to load its      *)
(* name; a loader thread of the engine queues the request through the hook, *)
(* which substitutes the external data; once the engine has made a raw      *)
(* resource of it, the next question after its state lets the game thread   *)
(* run the type's lookup callback and mark it ready.  Any of the threads    *)
(* may find that the resource has failed while another is half-way through  *)
(* a step, so the state of a mapping changes by compare-and-swap only.      *)
(* The tables are those of ResourceMap: found is found.                     *)
(***************************************************************************)
EXTENDS Naturals, FiniteSets

CONSTANTS
  External,   \* names loaded by the mod; the paths they are made of belong to no engine resource
  Streaming,  \* those with a stream
  Engine      \* names of engine resources, which are loaded already

ASSUME LoadingAssumption == Streaming \subseteq External /\ External \cap Engine = {}

VARIABLES
  runtimes,   \* the runtimes initialized once: the resource, stream and replacement one
  mapping,    \* the mappings: state, whether the error text is whole, and the thread that failed it
  request,    \* engine: the request for a name
  raw,        \* engine: the names with a raw resource
  replaced,   \* the source of each replaced name
  game,       \* the call the game thread is in
  callbacks   \* how often the lookup callback was passed which raw resource: asked for, found

loadingVars == <<runtimes, mapping, request, raw, replaced, game, callbacks>>

Name == External \cup Engine
Idle == [at |-> "idle", name |-> "none"]
Unmapped == [state |-> "none", whole |-> FALSE, by |-> "nobody"]

\* fresh, usable, broken for good; hooked: the lookup hook is active, the pointer not yet switched.
Fresh == [resource |-> "fresh", stream |-> "fresh", lookup |-> "fresh"]

LoadingInit ==
  /\ runtimes = Fresh
  /\ mapping = [r \in External |-> Unmapped]
  /\ request = [r \in External |-> "none"]
  /\ raw = Engine
  /\ replaced = << >>
  /\ game = Idle
  /\ callbacks = [asked \in Name |-> [found \in Name |-> 0]]

Mapped(r) == mapping[r].state # "none"

(***************************************************************************)
(* The state of a mapping (mapping/state.c).                                *)
(***************************************************************************)
\* The compare-and-swap of sa_fail_resource: the first failure of a resource is the one that counts.
FailingBy(r, thread) ==
  IF mapping[r].state \in {"failing", "failed"} THEN mapping
  ELSE [mapping EXCEPT ![r] = [state |-> "failing", whole |-> @.whole, by |-> thread]]

\* The thread whose swap won writes the text, and then publishes it.
WriteError(r) ==
  /\ mapping[r].by # "nobody"
  /\ ~mapping[r].whole
  /\ mapping' = [mapping EXCEPT ![r].whole = TRUE]
  /\ UNCHANGED <<runtimes, request, raw, replaced, game, callbacks>>

PublishFailure(r) ==
  /\ mapping[r].state = "failing"
  /\ mapping[r].whole
  /\ mapping' = [mapping EXCEPT ![r].state = "failed"]
  /\ UNCHANGED <<runtimes, request, raw, replaced, game, callbacks>>

\* A thread inside sa_fail_resource takes no other step.
Writing(thread) == \E r \in External : mapping[r].by = thread /\ ~(mapping[r].whole /\ mapping[r].state = "failed")

(***************************************************************************)
(* The runtimes, each initialized by the first call that needs it; what     *)
(* went wrong then is the answer to every later call.                       *)
(***************************************************************************)
Calls(at, name) == game' = [at |-> at, name |-> name]
Returns == game' = Idle
Ready(kind) == runtimes[kind] = "usable"

InitializeResource ==
  /\ game = Idle
  /\ runtimes.resource = "fresh"
  /\ \E outcome \in {"usable", "broken"} : runtimes' = [runtimes EXCEPT !.resource = outcome]
  /\ UNCHANGED <<mapping, request, raw, replaced, game, callbacks>>

InitializeStream ==
  /\ game = Idle
  /\ runtimes.stream = "fresh"
  /\ runtimes.resource # "fresh"
  /\ \E outcome \in {"usable", "broken"} :
       /\ (outcome = "usable" => Ready("resource"))
       /\ runtimes' = [runtimes EXCEPT !.stream = outcome]
  /\ UNCHANGED <<mapping, request, raw, replaced, game, callbacks>>

\* The lookup hook is active from here on, and the engine's lookups go through the replacements.
HookLookup ==
  /\ game = Idle
  /\ runtimes.lookup = "fresh"
  /\ Ready("resource")
  /\ runtimes' = [runtimes EXCEPT !.lookup = "hooked"]
  /\ Calls("switch", "none")
  /\ UNCHANGED <<mapping, request, raw, replaced, callbacks>>

LookupFails ==
  /\ game = Idle
  /\ runtimes.lookup = "fresh"
  /\ runtimes.resource # "fresh"
  /\ runtimes' = [runtimes EXCEPT !.lookup = "broken"]
  /\ UNCHANGED <<mapping, request, raw, replaced, game, callbacks>>

\* g_engine.get_raw_resource becomes the trampoline: the runtime's own lookups pass the hook by.
SwitchLookup ==
  /\ game.at = "switch"
  /\ runtimes' = [runtimes EXCEPT !.lookup = "usable"]
  /\ Returns
  /\ UNCHANGED <<mapping, request, raw, replaced, callbacks>>

\* sa_get_raw_resource_hook.
EngineLookup(n) == IF n \in DOMAIN replaced THEN replaced[n] ELSE n

\* What get_raw_resource is asked for by the runtime itself.
OwnLookup(n) == IF runtimes.lookup = "hooked" THEN EngineLookup(n) ELSE n

(***************************************************************************)
(* sa_load_external_resource.  Until load no other thread can meet the      *)
(* name, so what precedes the registration is one step with it.             *)
(***************************************************************************)
RegisterMapping(r) == mapping' = [mapping EXCEPT ![r].state = "pending"]

Load(r) ==
  /\ game = Idle
  /\ Ready("resource")
  /\ r \in Streaming => Ready("stream")
  /\ ~Mapped(r)
  /\ OwnLookup(r) \notin raw
  /\ RegisterMapping(r)
  /\ Calls("load", r)
  /\ UNCHANGED <<runtimes, request, raw, replaced, callbacks>>

\* Already registered with the same data, or mapped to other data, or the name has a raw resource.
LoadAnswers(r) ==
  /\ game = Idle
  /\ Ready("resource")
  /\ Mapped(r) \/ OwnLookup(r) \in raw
  /\ UNCHANGED loadingVars

\* The engine's load: its loader will queue the request.
CallLoad ==
  /\ game.at = "load"
  /\ request' = [request EXCEPT ![game.name] = "loading"]
  /\ Returns
  /\ UNCHANGED <<runtimes, mapping, raw, replaced, callbacks>>

(***************************************************************************)
(* sa_queue_request_hook, on a loader thread.                               *)
(***************************************************************************)
\* sa_queue_failure.
Refuse(r) ==
  /\ request' = [request EXCEPT ![r] = "refused"]
  /\ mapping' = FailingBy(r, "loader")

\* A name without a mapping goes to the engine's own function, which has no such file.
QueueOriginal(r) ==
  /\ ~Writing("loader")
  /\ request[r] = "loading"
  /\ ~Mapped(r)
  /\ request' = [request EXCEPT ![r] = "original"]
  /\ UNCHANGED <<runtimes, mapping, raw, replaced, game, callbacks>>

\* The worker, its vtables and functions are validated before anything is called.
QueueRefused(r) ==
  /\ ~Writing("loader")
  /\ request[r] = "loading"
  /\ Mapped(r)
  /\ Refuse(r)
  /\ UNCHANGED <<runtimes, raw, replaced, game, callbacks>>

OpenCarrier(r) ==
  /\ ~Writing("loader")
  /\ request[r] = "loading"
  /\ Mapped(r)
  /\ request' = [request EXCEPT ![r] = "opened"]
  /\ UNCHANGED <<runtimes, mapping, raw, replaced, game, callbacks>>

\* The carrier is empty or the worker cannot allocate the buffer.
CarrierFails(r) ==
  /\ ~Writing("loader")
  /\ request[r] = "opened"
  /\ Refuse(r)
  /\ UNCHANGED <<runtimes, raw, replaced, game, callbacks>>

\* The data, and for a stream the identity and the range, are stored and the request is pushed.
Push(r) ==
  /\ ~Writing("loader")
  /\ request[r] = "opened"
  /\ request' = [request EXCEPT ![r] = "pushed"]
  /\ UNCHANGED <<runtimes, mapping, raw, replaced, game, callbacks>>

\* Engine: the raw resource exists.
Complete(r) ==
  /\ request[r] = "pushed"
  /\ r \notin raw
  /\ raw' = raw \cup {r}
  /\ UNCHANGED <<runtimes, mapping, request, replaced, game, callbacks>>

\* sa_open_stream_hook, on any thread that wants the stream; a failed one leaves an invalid stream.
OpenStreamFails(r) ==
  /\ r \in Streaming
  /\ request[r] = "pushed"
  /\ ~Writing("stream")
  /\ mapping' = FailingBy(r, "stream")
  /\ UNCHANGED <<runtimes, request, raw, replaced, game, callbacks>>

(***************************************************************************)
(* simple_assets_resource_state, asked every frame until it is 1 or -1.     *)
(***************************************************************************)
AskState(r) ==
  /\ game = Idle
  /\ mapping[r].state \in {"pending", "finalizing", "failing"}
  /\ IF OwnLookup(r) \in raw THEN Calls("begin", r) ELSE Returns
  /\ UNCHANGED <<runtimes, mapping, request, raw, replaced, callbacks>>

\* sa_begin_resource_finalization: only the swap from PENDING acquires.
Begin ==
  LET r == game.name IN
  /\ game.at = "begin"
  /\ IF mapping[r].state = "pending"
     THEN mapping' = [mapping EXCEPT ![r].state = "finalizing"] /\ Calls("finalize", r)
     ELSE UNCHANGED mapping /\ Returns
  /\ UNCHANGED <<runtimes, request, raw, replaced, callbacks>>

\* sa_finalize_external_resource: the type's lookup callback, if it has one, gets the raw resource.
Finalize ==
  LET r == game.name IN
  /\ game.at = "finalize"
  /\ \E called \in {0, 1} : callbacks' = [callbacks EXCEPT ![r][OwnLookup(r)] = @ + called]
  /\ Calls("mark", r)
  /\ UNCHANGED <<runtimes, mapping, request, raw, replaced>>

FinalizeFails ==
  /\ game.at = "finalize"
  /\ mapping' = FailingBy(game.name, "game")
  /\ Calls("fail", game.name)
  /\ UNCHANGED <<runtimes, request, raw, replaced, callbacks>>

\* Mutant: ready is stored, not swapped.
StoreReady(r) == mapping' = [mapping EXCEPT ![r].state = "ready"]

\* sa_mark_resource_ready.
MarkReady(r) ==
  mapping' = IF mapping[r].state = "finalizing" THEN [mapping EXCEPT ![r].state = "ready"] ELSE mapping

Mark ==
  /\ game.at = "mark"
  /\ MarkReady(game.name)
  /\ Returns
  /\ UNCHANGED <<runtimes, request, raw, replaced, callbacks>>

FailReturns ==
  /\ game.at = "fail"
  /\ ~Writing("game")
  /\ Returns
  /\ UNCHANGED <<runtimes, mapping, request, raw, replaced, callbacks>>

(***************************************************************************)
(* sa_replace_resource.                                                     *)
(***************************************************************************)
Replace(target, source) ==
  /\ game = Idle
  /\ Ready("lookup")
  /\ OwnLookup(source) \in raw
  /\ replaced' = [n \in DOMAIN replaced \cup {target} |-> IF n = target THEN source ELSE replaced[n]]
  /\ UNCHANGED <<runtimes, mapping, request, raw, game, callbacks>>

LoadingNext ==
  \/ InitializeResource \/ InitializeStream \/ HookLookup \/ LookupFails \/ SwitchLookup
  \/ CallLoad \/ Begin \/ Finalize \/ FinalizeFails \/ Mark \/ FailReturns
  \/ \E r \in External :
       \/ Load(r) \/ LoadAnswers(r) \/ AskState(r)
       \/ WriteError(r) \/ PublishFailure(r)
       \/ QueueOriginal(r) \/ QueueRefused(r) \/ OpenCarrier(r) \/ CarrierFails(r) \/ Push(r)
       \/ Complete(r) \/ OpenStreamFails(r)
  \/ \E target, source \in Name : Replace(target, source)

LoadingSpec == LoadingInit /\ [][LoadingNext]_loadingVars

(***************************************************************************)
(* Properties.                                                              *)
(***************************************************************************)
\* A raw resource is given to its type's lookup callback at most once, and for the name it was made
\* for: a replacement, which answers the engine's lookups, never answers the runtime's own.
FinalizedOnceAsItself ==
  \A asked, found \in Name :
    callbacks[asked][found] > 0 => asked = found /\ found \in External /\ callbacks[asked][found] = 1

\* A failure found by any thread, in the middle of any step of another, is not lost: the mapping never
\* becomes ready again, and whoever sees that it failed finds the whole text.
FailuresStick ==
  \A r \in External :
    /\ mapping[r].by # "nobody" => mapping[r].state \in {"failing", "failed"}
    /\ mapping[r].state = "failed" => mapping[r].whole

\* No request of the mod waits for an answer that will not come: one the engine took without the
\* mapping, or one that was returned, has failed or is about to.
UnservedRequestsFail ==
  \A r \in External :
    request[r] \in {"original", "refused"} => mapping[r].state \in {"failing", "failed"}

\* Every resource is answered once and truly, or fails for good, whichever threads ask for it meanwhile.
ResourcesAreServed == FinalizedOnceAsItself /\ FailuresStick /\ UnservedRequestsFail
=============================================================================
