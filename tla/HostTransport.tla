--------------------------- MODULE HostTransport ---------------------------
(***************************************************************************)
(* The host side of the Realms native runtime: the local session            *)
(* (realms_api.cpp), the slots of remote peers and the engine's listeners   *)
(* that serve them (realms_protocol.cpp), composed with the UDP relay.      *)
(*                                                                          *)
(* Everything here runs on the game thread: the engine calls the listeners  *)
(* while it updates the network, Lua calls the exported functions.  The     *)
(* relay thread interleaves with all of it.                                 *)
(***************************************************************************)
EXTENDS UdpRelay

CONSTANTS
  Channel,      \* lobby channel ids, on either side
  Tokens,       \* bound of the model: listener tokens 1 .. Tokens
  MaxMembers    \* kMaximumHostMembers

ASSUME HostAssumption ==
  /\ Tokens \in Nat \ {0}
  /\ MaxMembers \in Nat \ {0}
  /\ None \notin Channel

VARIABLES
  session,      \* token of the host listener, and whether the lobby is bound
  slots,        \* g_host_peer_slots
  engine,       \* the engine's table of listeners, by token
  lobby         \* the engine lobby: its state and its remote members

hostVars == <<session, slots, engine, lobby>>
vars == <<relayVars, hostVars>>

Token == 1 .. Tokens
NoToken == 0
Unclaimed ==
  [peer |-> None, state |-> "pending",
   peerToken |-> NoToken, channelToken |-> NoToken, channel |-> None, remote |-> None]
NoSession == [listener |-> NoToken, active |-> FALSE]
Listener == [kind : {"host", "peer", "channel"}, key : Peer \cup Channel \cup {None}, slot : Index \cup {0}]
HostListener == [kind |-> "host", key |-> None, slot |-> 0]

FreeTokens == Token \ DOMAIN engine
Holding(p) == {s \in Index : slots[s].peer = p}
SlotTokens(s) == {slots[s].peerToken, slots[s].channelToken} \ {NoToken}

\* The engine's listener table with one more listener, or without some.
Registered(token, listener, listeners) ==
  [t \in DOMAIN listeners \cup {token} |-> IF t = token THEN listener ELSE listeners[t]]
Removed(tokens, listeners) == [t \in DOMAIN listeners \ tokens |-> listeners[t]]

HostInit ==
  /\ session = NoSession
  /\ slots = [s \in Index |-> Unclaimed]
  /\ engine = [t \in {} |-> HostListener]
  /\ lobby = [state |-> "none", members |-> {}]

Init == RelayInit /\ HostInit

(***************************************************************************)
(* The local session.                                                       *)
(***************************************************************************)
\* Lua creates the engine's lobby, and leaves it.
OpenLobby ==
  /\ lobby.state = "none"
  /\ lobby' = [state |-> "fresh", members |-> {}]
  /\ UNCHANGED <<relayVars, session, slots, engine>>

LeaveLobby ==
  /\ lobby.state # "none"
  /\ ~session.active
  /\ lobby' = [state |-> "none", members |-> {}]
  /\ UNCHANGED <<relayVars, session, slots, engine>>

SessionGone == session = NoSession

\* initialize_local_session_lobby needs a lobby nobody has joined, and joins it.
NeedsLobby == lobby.state = "fresh"
JoinedLobby == [lobby EXCEPT !.state = "joined"]

\* The host listener was not registered: nothing but the slots has changed.
ListenerRefused ==
  /\ slots' = [s \in Index |-> Unclaimed]
  /\ UNCHANGED <<relayVars, session, engine, lobby>>

\* A later phase failed and fail_start_after_cleanup closed the session again.
CleanedUp ==
  /\ slots' = [s \in Index |-> Unclaimed]
  /\ StopRelay
  /\ UNCHANGED <<session, engine>>

TargetUnavailable == CleanedUp /\ UNCHANGED lobby

LobbyRefused == CleanedUp /\ UNCHANGED lobby

\* The relay is the last phase.  The lobby stays the way its initialization left it.
DecoderRefused == NeedsLobby /\ CleanedUp /\ lobby' = JoinedLobby

RelayRefused == NeedsLobby /\ CleanedUp /\ lobby' = JoinedLobby

StartCompletes(withRelay) ==
  /\ NeedsLobby
  /\ FreeTokens # {}
  /\ LET token == First(FreeTokens) IN
       /\ engine' = Registered(token, HostListener, engine)
       /\ session' = [listener |-> token, active |-> TRUE]
  /\ slots' = [s \in Index |-> Unclaimed]
  /\ lobby' = JoinedLobby
  /\ IF withRelay THEN StartRelay ELSE UNCHANGED relayVars

StartLocalSession ==
  /\ SessionGone
  /\ \/ ListenerRefused
     \/ TargetUnavailable
     \/ LobbyRefused
     \/ DecoderRefused
     \/ RelayRefused
     \/ \E withRelay \in BOOLEAN : StartCompletes(withRelay)

\* RealmsRuntime_CloseLocalSession checks everything before it changes anything.
CloseLocalSession ==
  /\ \A s \in Index : SlotTokens(s) # {} => session.listener # NoToken
  /\ StopRelay
  /\ engine' = Removed({session.listener} \cup UNION {SlotTokens(s) : s \in Index}, engine)
  /\ slots' = [s \in Index |-> Unclaimed]
  /\ session' = NoSession
  /\ UNCHANGED lobby

(***************************************************************************)
(* The engine calls the listeners.                                          *)
(***************************************************************************)
\* claim_host_peer_slot: a peer that has a slot keeps it.
Claimed(p) ==
  IF Holding(p) # {}
  THEN LET s == First(Holding(p)) IN
         [slots EXCEPT ![s].state = IF @ = "released" THEN "pending" ELSE @]
  ELSE LET s == First(Holding(None)) IN
         [slots EXCEPT ![s] = [Unclaimed EXCEPT !.peer = p]]

SlotFor(p) == First(IF Holding(p) # {} THEN Holding(p) ELSE Holding(None))

\* register_host_lobby_peer_listener: the listener is registered once, and the relay
\* told once.  The engine may refuse it.
RegisterPeerListener(p, s, claimed) ==
  \/ /\ claimed[s].peerToken = NoToken
     /\ FreeTokens # {}
     /\ slots' = [claimed EXCEPT ![s].peerToken = First(FreeTokens)]
     /\ engine' = Registered(First(FreeTokens), [kind |-> "peer", key |-> p, slot |-> s], engine)
     /\ Queue("adopt", p)
  \/ slots' = claimed /\ UNCHANGED <<engine, commands>>

\* host_listener_callback: a connect request, forwarded by the relay or, when
\* there is none, sent straight to the engine.
ConnectRequest(p) ==
  /\ session.listener # NoToken
  /\ running => p \in arriving
  /\ arriving' = arriving \ {p}
  /\ Holding(p) \cup Holding(None) # {}
  /\ RegisterPeerListener(p, SlotFor(p), Claimed(p))
  /\ UNCHANGED <<running, worker, table, batch, session, lobby>>

\* No slot is free: the request is refused.
ConnectRefused(p) ==
  /\ session.listener # NoToken
  /\ p \in arriving
  /\ Holding(p) \cup Holding(None) = {}
  /\ arriving' = arriving \ {p}
  /\ UNCHANGED <<running, worker, table, commands, batch, hostVars>>

\* host_lobby_peer_callback with a create-channel message for this lobby.  A
\* channel that is new replaces the one the peer had before.
CreateChannel(s, remote, accepted) ==
  /\ slots[s].peerToken # NoToken
  /\ ~(slots[s].channelToken # NoToken /\ slots[s].remote = remote)
  /\ FreeTokens # {}
  /\ \A t \in DOMAIN engine : engine[t].key # accepted
  /\ LET token == First(FreeTokens) IN
       /\ engine' = Removed({slots[s].channelToken},
                       Registered(token, [kind |-> "channel", key |-> accepted, slot |-> s], engine))
       /\ slots' = [slots EXCEPT ![s].channel = accepted,
                                 ![s].remote = remote, ![s].channelToken = token]
  /\ UNCHANGED <<relayVars, session, lobby>>

\* host_lobby_channel_callback with a join request for this lobby.
JoinRequest(s) ==
  /\ slots[s].channelToken # NoToken
  /\ session.active
  /\ \/ slots[s].peer \in lobby.members /\ UNCHANGED lobby
     \/ /\ slots[s].peer \notin lobby.members
        /\ Cardinality(lobby.members) + 1 < MaxMembers
        /\ lobby' = [lobby EXCEPT !.members = @ \cup {slots[s].peer}]
  /\ UNCHANGED <<relayVars, session, slots, engine>>

\* The engine removes a member whose connection it has lost.
MemberLeaves(p) ==
  /\ p \in lobby.members
  /\ lobby' = [lobby EXCEPT !.members = @ \ {p}]
  /\ UNCHANGED <<relayVars, session, slots, engine>>

(***************************************************************************)
(* Lua's operations on a peer.                                              *)
(***************************************************************************)
AdoptPeerTransportState(p) ==
  /\ \E s \in Holding(p) :
       slots' = [slots EXCEPT ![s].state = "adopted"]
  /\ UNCHANGED <<relayVars, session, engine, lobby>>

\* Leaving a lobby does not end the engine connection.
ReleasePeerTransportState(p) ==
  /\ \E s \in Holding(p) : slots' = [slots EXCEPT ![s].state = "released"]
  /\ UNCHANGED <<relayVars, session, engine, lobby>>

\* A released slot, or one nobody has adopted.  How long ago its last activity was
\* is left open.
Abandoned(s) == slots[s].peer # None /\ slots[s].state # "adopted"

\* The iteration of RealmsRuntime_ReapAbandonedPeerTransportState for a slot whose
\* peer the engine reports as not connected.
\* Mutant: the relay is not told.
ReapSilently(s) ==
  /\ Abandoned(s)
  /\ engine' = Removed(SlotTokens(s), engine)
  /\ slots' = [slots EXCEPT ![s] = Unclaimed]
  /\ UNCHANGED <<relayVars, session, lobby>>

Reap(s) ==
  /\ Abandoned(s)
  /\ engine' = Removed(SlotTokens(s), engine)
  /\ slots' = [slots EXCEPT ![s] = Unclaimed]
  /\ Queue("release", slots[s].peer)
  /\ UNCHANGED <<running, worker, table, batch, arriving, session, lobby>>

SessionNext == OpenLobby \/ LeaveLobby \/ StartLocalSession \/ CloseLocalSession
PeerNext ==
  \/ \E p \in Peer :
       \/ ConnectRequest(p)
       \/ ConnectRefused(p)
       \/ MemberLeaves(p)
       \/ AdoptPeerTransportState(p)
       \/ ReleasePeerTransportState(p)
  \/ \E s \in Index :
       \/ JoinRequest(s)
       \/ Reap(s)
       \/ \E remote, accepted \in Channel : CreateChannel(s, remote, accepted)

Next ==
  \/ SessionNext
  \/ PeerNext
  \/ RelayNext /\ UNCHANGED hostVars

Spec == Init /\ [][Next]_vars

\* The relay thread keeps running, its timers fire, and Lua calls the reaper every
\* second.
Fairness ==
  /\ WF_vars(RelayThread /\ UNCHANGED hostVars)
  /\ \A e \in Index : WF_vars(EntryExpires(e) /\ UNCHANGED hostVars)

FairSpec == Spec /\ Fairness

(***************************************************************************)
(* Properties.                                                              *)
(***************************************************************************)
\* Every variable has its type.
TypeOK ==
  /\ running \in BOOLEAN
  /\ worker \in {"none", "top", "commands", "public", "done"}
  /\ table \in [Index -> [peer : Peer \cup {None}, conn : ConnId \cup {None},
                         ext : Endpoint \cup {None}, adopted : BOOLEAN, expired : BOOLEAN]]
  /\ commands \in Seq(Command)
  /\ batch \in Seq(Command)
  /\ arriving \subseteq Peer
  /\ session \in [listener : Token \cup {NoToken}, active : BOOLEAN]
  /\ slots \in [Index -> [peer : Peer \cup {None}, state : {"pending", "adopted", "released"},
                         peerToken : Token \cup {NoToken},
                         channelToken : Token \cup {NoToken},
                         channel : Channel \cup {None}, remote : Channel \cup {None}]]
  /\ DOMAIN engine \subseteq Token
  /\ \A t \in DOMAIN engine : engine[t] \in Listener
  /\ lobby \in [state : {"none", "fresh", "joined"}, members : SUBSET Peer]

\* The engine holds exactly the listeners the slots know of, and calls each with
\* the slot of the peer it was registered for: "arrived with invalid peer callback
\* state" (realms_protocol.cpp) is never reported, and no listener is left behind
\* with a pointer to a slot that belongs to another peer by now.
ListenersMatchSlots ==
  /\ DOMAIN engine =
       ({session.listener} \ {NoToken}) \cup UNION {SlotTokens(s) : s \in Index}
  /\ \A t \in DOMAIN engine :
       /\ engine[t].kind = "peer" => slots[engine[t].slot].peer = engine[t].key
       /\ engine[t].kind = "channel" =>
            /\ slots[engine[t].slot].peer # None
            /\ slots[engine[t].slot].channelToken = t
            /\ slots[engine[t].slot].channel = engine[t].key

\* A peer has one slot and one entry of the relay at most, and no two entries
\* answer the same address: whatever order datagrams from old and new addresses
\* come in, the peer's traffic is not split.
OneWayToEachPeer ==
  /\ \A e, f \in Index : slots[e].peer # None /\ slots[e].peer = slots[f].peer => e = f
  /\ \A e, f \in Index : Occupied(e) /\ Occupied(f) /\ e # f =>
       table[e].peer # table[f].peer /\ table[e].ext # table[f].ext

Pending(type, p) ==
  [type |-> type, peer |-> p] \in {batch[i] : i \in DOMAIN batch} \cup {commands[i] : i \in DOMAIN commands}

Serving(p) == \E s \in Holding(p) : slots[s].peerToken # NoToken

\* An entry the relay will not reap by itself belongs to a peer the engine still
\* serves, or its release is on the way: no peer that comes and goes leaves an entry
\* and a socket behind for the rest of the session.
AdoptedEntriesHaveAnOwner ==
  \A e \in Index : Occupied(e) /\ table[e].adopted =>
    Serving(table[e].peer) \/ Pending("release", table[e].peer)

\* The relay's table is right: a peer's traffic takes one way, and none stays open for nobody.
RelayServesItsPeers == OneWayToEachPeer /\ AdoptedEntriesHaveAnOwner

\* No two slots, entries or addresses serve the same peer, no entry of a peer that has gone stays for
\* the rest of the session (realms_protocol.cpp, realms_relay.cpp), and the engine's listeners are
\* those of the slots, through every channel a peer opens and replaces (realms_protocol.cpp).
PeersAreServed == ListenersMatchSlots /\ RelayServesItsPeers

\* What realms_protocol.cpp says of the adoption, "The engine peer, not successful
\* game admission, now owns the relay lifetime": once the adoption has reached the
\* relay, it does not time out the entry of a peer whose lobby listener is registered.
ServedPeersKeepTheirEntry ==
  [][\A e \in Index :
       ReapAndPoll /\ Reapable(e) /\ Serving(table[e].peer) => Pending("adopt", table[e].peer)]_vars

\* The entry of a peer the engine does not serve does not stay: it is released or
\* timed out, unless the peer connects after all.
EntriesEnd ==
  \A e \in Index, p \in Peer :
    (table[e].peer = p /\ ~Serving(p)) ~> (table[e].peer # p \/ Serving(p))

=============================================================================
