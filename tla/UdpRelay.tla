------------------------------ MODULE UdpRelay ------------------------------
(***************************************************************************)
(* The UDP relay of the Realms native runtime (realms_relay.cpp): a thread  *)
(* that owns one public socket, gives every remote peer a private socket to *)
(* the engine, and learns from the datagrams which address belongs to which *)
(* peer.  The game thread reaches the table only through a queue of         *)
(* commands, which the relay thread takes over at the top of its loop.      *)
(***************************************************************************)
EXTENDS Naturals, Sequences, FiniteSets

CONSTANTS
  Peer,         \* peer ids
  Endpoint,     \* addresses and ports on the outside
  ConnId,       \* connection ids the engine hands out
  Slots,        \* kMaximumRemotePeers
  None,         \* no peer, no endpoint, connection id zero
  MaxCommands   \* bound of the model: commands waiting for the relay thread

ASSUME RelayAssumption ==
  /\ Slots \in Nat \ {0}
  /\ MaxCommands \in Nat \ {0}
  /\ None \notin Peer \cup Endpoint \cup ConnId

VARIABLES
  running,      \* g_relay_running
  worker,       \* where the relay thread is, "none" when it is not joinable
  table,        \* the thread's table of RelayPeer
  commands,     \* g_relay_peer_commands
  batch,        \* the commands process_peer_commands has taken over
  arriving      \* connect requests forwarded to the engine's socket, not read yet

relayVars == <<running, worker, table, commands, batch, arriving>>

Index == 1 .. Slots

Empty == [peer |-> None, conn |-> None, ext |-> None, adopted |-> FALSE, expired |-> FALSE]
Command == [type : {"adopt", "release"}, peer : Peer]

Occupied(e) == table[e].peer # None
First(S) == CHOOSE e \in S : \A f \in S : e <= f

\* What read_route gets out of a datagram: nothing, the peer of a datagram
\* without a connection, or the connection id of one with a connection.
Unreadable == [peer |-> None, conn |-> None]
Route == [peer : Peer \cup {None}, conn : {None}] \cup [peer : {None}, conn : ConnId]
Connectionless(r) == r.peer # None

Known(x) == {e \in Index : Occupied(e) /\ table[e].ext = x}
Routed(r) ==
  {e \in Index : Occupied(e)
     /\ IF Connectionless(r) THEN table[e].peer = r.peer ELSE table[e].conn = r.conn}
Free == {e \in Index : ~Occupied(e)}

RelayInit ==
  /\ running = FALSE
  /\ worker = "none"
  /\ table = [e \in Index |-> Empty]
  /\ commands = <<>>
  /\ batch = <<>>
  /\ arriving = {}

(***************************************************************************)
(* Operations of the game thread.                                           *)
(***************************************************************************)
RelayIdle == ~running /\ worker = "none"

StartRelay ==
  /\ RelayIdle
  /\ running' = TRUE
  /\ worker' = "top"
  /\ table' = [e \in Index |-> Empty]
  /\ commands' = <<>>
  /\ batch' = <<>>
  /\ UNCHANGED arriving

\* stop_udp_relay waits for the thread, whose exit clears the table.
StopRelay ==
  /\ running' = FALSE
  /\ worker' = "none"
  /\ table' = [e \in Index |-> Empty]
  /\ commands' = <<>>
  /\ batch' = <<>>
  /\ UNCHANGED arriving

\* adopt_udp_relay_peer and release_udp_relay_peer.
Queue(type, p) ==
  IF running
  THEN /\ Len(commands) < MaxCommands
       /\ commands' = Append(commands, [type |-> type, peer |-> p])
  ELSE commands' = commands

(***************************************************************************)
(* The relay thread.                                                        *)
(***************************************************************************)
TakeCommands ==
  /\ worker = "top"
  /\ running
  /\ worker' = "commands"
  /\ batch' = commands
  /\ commands' = <<>>
  /\ UNCHANGED <<running, table, arriving>>

ApplyCommand ==
  /\ worker = "commands"
  /\ batch # <<>>
  /\ table' =
       [e \in Index |->
          IF table[e].peer # Head(batch).peer THEN table[e]
          ELSE IF Head(batch).type = "adopt" THEN [table[e] EXCEPT !.adopted = TRUE]
          ELSE Empty]
  /\ batch' = Tail(batch)
  /\ UNCHANGED <<running, worker, commands, arriving>>

\* Mutant: an entry nobody adopted stays.
NeverReapable(e) == FALSE

Reapable(e) == Occupied(e) /\ ~table[e].adopted /\ table[e].expired

\* reap_unadopted_peers, and the poll that follows.
ReapAndPoll ==
  /\ worker = "commands"
  /\ batch = <<>>
  /\ table' = [e \in Index |-> IF Reapable(e) THEN Empty ELSE table[e]]
  /\ worker' = "public"
  /\ UNCHANGED <<running, commands, batch, arriving>>

\* kUnadoptedPeerTimeoutMs after an entry was created.
EntryExpires(e) ==
  /\ Occupied(e)
  /\ ~table[e].adopted
  /\ ~table[e].expired
  /\ table' = [table EXCEPT ![e].expired = TRUE]
  /\ UNCHANGED <<running, worker, commands, batch, arriving>>

\* A datagram is handed to the engine; the send may fail.
Forward(r) ==
  \/ arriving' = arriving
  \/ Connectionless(r) /\ arriving' = arriving \cup {r.peer}

NewConn(e, r) == IF r.conn = None THEN table[e].conn ELSE r.conn

FromKnown(x, r) ==
  /\ worker = "public"
  /\ \E e \in Known(x) :
       /\ ~(Connectionless(r) /\ table[e].peer # r.peer)
       /\ table' = [table EXCEPT ![e].conn = NewConn(e, r)]
  /\ Forward(r)
  /\ UNCHANGED <<running, worker, commands, batch>>

\* The engine's peer has moved to another address.
Rebind(x, r) ==
  /\ worker = "public"
  /\ r # Unreadable
  /\ Known(x) = {}
  /\ Routed(r) # {}
  /\ LET e == First(Routed(r)) IN
       table' = [table EXCEPT ![e].ext = x, ![e].conn = NewConn(e, r)]
  /\ Forward(r)
  /\ UNCHANGED <<running, worker, commands, batch>>

NewPeer(x, r) ==
  /\ worker = "public"
  /\ Connectionless(r)
  /\ Known(x) = {}
  /\ Routed(r) = {}
  /\ Free # {}
  /\ table' = [table EXCEPT ![First(Free)] = [Empty EXCEPT !.peer = r.peer, !.ext = x]]
  /\ Forward(r)
  /\ UNCHANGED <<running, worker, commands, batch>>

ReceivePublic == \E x \in Endpoint, r \in Route : FromKnown(x, r) \/ Rebind(x, r) \/ NewPeer(x, r)

\* The public socket is drained, or its share of datagrams is used up; then the
\* sockets towards the engine are served.  Those that report an error are closed.
ServeGameSockets ==
  /\ worker = "public"
  /\ \E broken \in SUBSET {e \in Index : Occupied(e)} :
       table' = [e \in Index |-> IF e \in broken THEN Empty ELSE table[e]]
  /\ worker' = "top"
  /\ UNCHANGED <<running, commands, batch, arriving>>

\* Polling fails, or the public socket reports an error: the thread ends.
RelayFails ==
  /\ worker = "public"
  /\ running' = FALSE
  /\ worker' = "done"
  /\ table' = [e \in Index |-> Empty]
  /\ UNCHANGED <<commands, batch, arriving>>

RelayThread == TakeCommands \/ ApplyCommand \/ ReapAndPoll \/ ServeGameSockets
RelayNext ==
  \/ RelayThread
  \/ ReceivePublic
  \/ RelayFails
  \/ \E e \in Index : EntryExpires(e)

=============================================================================
