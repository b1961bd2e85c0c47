----------------------------- MODULE SessionMC -----------------------------
(***************************************************************************)
(* The two protocols of a session's control channels, checked side by side: *)
(* how a mission is prepared, and the network offered to other mods.  An    *)
(* execution belongs to one of them; the other rests.                       *)
(***************************************************************************)
EXTENDS Preparation, TLC

CONSTANTS Early, MaxHellos, MaxCalls

VARIABLES control, opened, hellos, upward, downward, rejected, registered, known, caps, hostCaps, calls, connected, linked

Mods == INSTANCE ModNetwork WITH
  channel <- control, toHost <- upward, toClient <- downward, kicked <- rejected, joins <- connected, link <- linked

modVars == <<control, opened, hellos, upward, downward, rejected, registered, known, caps, hostCaps, calls, connected,
             linked>>

VARIABLE part

SessionInit ==
  /\ part \in {"preparation", "mods"}
  /\ Init
  /\ Mods!Init
  /\ (part = "mods") = (registered # {})

SessionNext ==
  /\ UNCHANGED part
  /\ \/ part = "preparation" /\ Next /\ UNCHANGED modVars
     \/ part = "mods" /\ Mods!Next /\ UNCHANGED vars

SessionSpec == SessionInit /\ [][SessionNext]_<<part, vars, modVars>>

\* No mission bypasses the preparation, so missions may be exchanged as clients may.
Symmetry == Permutations(Clients) \cup Permutations(Missions)

\* A mod hears only of peers it was told of, and when everything has been handled, every client knows
\* the host and the clients the host knows (mod_network.lua).
ModsKnowTheirPeers == Mods!SendersAreKnown /\ Mods!DirectoriesAgree
=============================================================================
