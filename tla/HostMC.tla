------------------------------- MODULE HostMC -------------------------------
(***************************************************************************)
(* A Realms host, checked side by side: how it admits clients, and the      *)
(* transport that carries its peers, whose game and relay threads           *)
(* interleave.  An execution belongs to one of them; the other rests.       *)
(***************************************************************************)
EXTENDS Admission, TLC

\* The host's transport: with two slots and no lobby channels, and with one slot and channels that
\* replace each other.
CONSTANTS Peer, Endpoint, ConnId, None, k1, k2

VARIABLES relaying, worker, table, commands, batch, arriving, session, slots, engine, lobby

Transport == INSTANCE HostTransport WITH
  Slots <- 2, Channel <- {}, MaxCommands <- 1, Tokens <- 3, MaxMembers <- 2, running <- relaying

Lobbies == INSTANCE HostTransport WITH
  Slots <- 1, Channel <- {k1, k2}, MaxCommands <- 1, Tokens <- 4, MaxMembers <- 2, running <- relaying,
  Endpoint <- {CHOOSE x \in Endpoint : TRUE}

transportVars == <<relaying, worker, table, commands, batch, arriving, session, slots, engine, lobby>>

VARIABLE part

HostInit ==
  /\ part \in {"admission", "peers", "lobbies"}
  /\ Init
  /\ part = "admission" \/ (limit = 3 /\ accepting)
  /\ IF part = "lobbies" THEN Lobbies!Init ELSE Transport!Init

HostNext ==
  /\ UNCHANGED part
  /\ \/ part = "admission" /\ Next /\ UNCHANGED transportVars
     \/ part = "peers" /\ Transport!Next /\ UNCHANGED vars
     \/ part = "lobbies" /\ Lobbies!Next /\ UNCHANGED vars

HostSpec == HostInit /\ [][HostNext]_<<part, vars, transportVars>>

Symmetry == Permutations(Clients) \cup Permutations(Peer)

(***************************************************************************)
(* What the transport promises, of the instances above.                     *)
(***************************************************************************)
\* No two slots, entries or addresses serve the same peer, no entry of a peer that has gone stays for
\* the rest of the session (realms_protocol.cpp, realms_relay.cpp), and the engine's listeners are
\* those of the slots, through every channel a peer opens and replaces (realms_protocol.cpp).
PeersAreServed == IF part = "lobbies" THEN Lobbies!PeersAreServed ELSE Transport!PeersAreServed
=============================================================================
