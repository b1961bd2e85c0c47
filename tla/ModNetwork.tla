------------------------------ MODULE ModNetwork -------------------------------
(***************************************************************************)
(* The network Realms offers to other mods (core/mod_network.lua), over    *)
(* the control channels of core/session_control.lua.                       *)
(*                                                                         *)
(* Every peer announces which calls it has registered in a manifest.  The  *)
(* host answers the manifest of a client with its own and with the peers   *)
(* it knows, and tells the other clients of the new one; it tells them too *)
(* when a client has gone.  Calls go through the host.                     *)
(*                                                                         *)
(* A link may break before the host notices: a send to that client fails   *)
(* (realms_binary.cpp, send_control), and a send to all clients, which     *)
(* goes through the table of channels in any order, ends at the first that *)
(* fails.  Messages of one channel arrive in order.  There is one call,    *)
(* and its arguments are left out.  The client sees the end of its link at *)
(* once: it has nothing to say after it, and its channel is new when it    *)
(* comes back.                                                             *)
(***************************************************************************)
EXTENDS Naturals, Sequences, SequencesExt

CONSTANTS
    Host,       \* the peer that hosts, none of the clients
    Clients,    \* the peers that may join
    Early,      \* the sets of peers whose mods may be loaded at the start
    MaxJoins,   \* connections of one client
    MaxHellos,  \* how often a client sends its hello on one connection
    MaxCalls    \* calls of all mods together

Peers == Clients \union {Host}

Others == "others"  \* a recipient: every peer but the sender

VARIABLES
    link,        \* of each client: out, in, or lost when the host has not noticed
    channel,     \* registered_channels of the host: none, registered or ready
    opened,      \* clients whose own channel is ready
    hellos,      \* sent on the connection of each client
    toHost,      \* messages under way from each client
    toClient,    \* messages under way to each client
    kicked,      \* clients whose channel the host has rejected
    registered,  \* peers that have registered the call
    known,       \* known_peers of each peer
    caps,        \* remote_capabilities of the host, per client
    hostCaps,    \* remote_capabilities of each client, of the host
    joins, calls

channelVars == <<link, channel, opened, hellos, joins>>
queueVars == <<toHost, toClient>>
capVars == <<caps, hostCaps>>
vars == <<channelVars, queueVars, kicked, registered, known, capVars, calls>>

-----------------------------------------------------------------------------
(* Messages.                                                                *)

Hello == [type |-> "hello"]
ChannelReady == [type |-> "ready"]
Manifest(p) == [type |-> "manifest", supported |-> p \in registered]
Joined(p) == [type |-> "joined", peer |-> p]
Left(p) == [type |-> "left", peer |-> p]
Request(r) == [type |-> "request", recipient |-> r]
Delivery(p) == [type |-> "delivery", sender |-> p]
RouteError == [type |-> "error"]

Ready == {c \in Clients : channel[c] = "ready"}

Alive == {c \in Clients : link[c] = "in"}

(* send_to_client, to each of a set.                                        *)
SendTo(S, msg) ==
    toClient' = [c \in Clients |->
                   IF c \in S THEN Append(toClient[c], msg) ELSE toClient[c]]

(* send_to_clients: the clients it reaches, which are all of S unless a     *)
(* send on the way fails.                                                   *)
Reaches(S, R) ==
    IF S \subseteq Alive THEN R = S ELSE R \in SUBSET (S \intersect Alive)

-----------------------------------------------------------------------------
(* Channels.                                                                *)

(* The client has connected (admission); both sides register the channel.   *)
Connects(c) ==
    /\ link[c] = "out" /\ joins[c] < MaxJoins
    /\ link' = [link EXCEPT ![c] = "in"]
    /\ channel' = [channel EXCEPT ![c] = "registered"]
    /\ joins' = [joins EXCEPT ![c] = @ + 1]
    /\ UNCHANGED <<opened, hellos, queueVars, kicked, registered, known, capVars,
                   calls>>

(* The client's frame, again every second until it has an answer.           *)
SendsHello(c) ==
    /\ link[c] = "in" /\ c \notin opened /\ hellos[c] < MaxHellos
    /\ hellos' = [hellos EXCEPT ![c] = @ + 1]
    /\ toHost' = [toHost EXCEPT ![c] = Append(@, Hello)]
    /\ UNCHANGED <<link, channel, opened, joins, toClient, kicked, registered, known,
                   capVars, calls>>

(* The client leaves, is closed after it was rejected, or the network loses *)
(* it: clear_known_peers on its side.                                       *)
LinkBreaks(c) ==
    /\ link[c] = "in"
    /\ link' = [link EXCEPT ![c] = "lost"]
    /\ opened' = opened \ {c}
    /\ hellos' = [hellos EXCEPT ![c] = 0]
    /\ toHost' = [toHost EXCEPT ![c] = <<>>]
    /\ toClient' = [toClient EXCEPT ![c] = <<>>]
    /\ known' = [known EXCEPT ![c] = {}]
    /\ hostCaps' = [hostCaps EXCEPT ![c] = "unknown"]
    /\ UNCHANGED <<channel, joins, kicked, registered, caps, calls>>

(* The disconnect handler on the host.                                      *)
Forget(c, R) ==
    /\ known' = [known EXCEPT ![Host] = @ \ {c}]
    /\ caps' = [caps EXCEPT ![c] = "unknown"]
    /\ IF c \in known[Host]
       THEN Reaches(Ready \ {c}, R) /\ SendTo(R, Left(c))
       ELSE R = {} /\ UNCHANGED toClient

(* unregister_channel, when the host sees that the link is gone.            *)
HostNotices(c) ==
    /\ link[c] = "lost"
    /\ link' = [link EXCEPT ![c] = "out"]
    /\ channel' = [channel EXCEPT ![c] = "none"]
    /\ kicked' = kicked \ {c}
    /\ \E R \in SUBSET Clients : Forget(c, R)
    /\ UNCHANGED <<opened, hellos, joins, toHost, registered, hostCaps, calls>>

-----------------------------------------------------------------------------
(* What the host receives.                                                  *)

(* Answered each time it comes.                                             *)
ReceiveHello(c) ==
    /\ channel' = [channel EXCEPT ![c] = "ready"]
    /\ SendTo({c}, ChannelReady)
    /\ UNCHANGED <<kicked, known, caps>>

(* The answers of send_manifest and send_existing_peers.                    *)
Answer(c) ==
    toClient[c] \o <<Manifest(Host)>>
    \o SetToSeq({Joined(p) : p \in known[Host]})

(* Who is told of a client that has sent its manifest for the first time:   *)
(* a send that fails ends the channel of the new client.                    *)
ReceiveManifest(c, msg) ==
    /\ caps' = [caps EXCEPT ![c] = IF msg.supported THEN "with" ELSE "without"]
    /\ known' = [known EXCEPT ![Host] = @ \union {c}]
    /\ \E R \in SUBSET Clients :
         /\ IF c \in known[Host] THEN R = {} ELSE Reaches(Ready \ {c}, R)
         /\ toClient' = [d \in Clients |->
               CASE d = c  -> Answer(c)
                 [] d \in R -> Append(toClient[d], Joined(c))
                 [] OTHER   -> toClient[d]]
         /\ kicked' = IF c \in known[Host] \/ Ready \ {c} \subseteq Alive
                      THEN kicked ELSE kicked \union {c}
    /\ UNCHANGED channel

Capable == {c \in Ready : caps[c] = "with"}

(* Mutant: a call goes to every ready client, whatever it has registered.   *)
RequestToReady(c, msg) ==
    /\ SendTo((Ready \ {c}) \intersect Alive, Delivery(c))
    /\ UNCHANGED <<channel, kicked, known, caps>>

(* receive_host_request.                                                    *)
ReceiveRequest(c, msg) ==
    /\ \/ /\ msg.recipient = Others
          /\ SendTo((Capable \ {c}) \intersect Alive, Delivery(c))
       \/ /\ msg.recipient = Host
          /\ IF Host \in registered THEN UNCHANGED toClient
                                    ELSE SendTo({c}, RouteError)
       \/ /\ msg.recipient \in Clients
          /\ IF msg.recipient \in Capable \intersect Alive
             THEN SendTo({msg.recipient}, Delivery(c))
             ELSE SendTo({c}, RouteError)
    /\ UNCHANGED <<channel, kicked, known, caps>>

HostReceives(c) ==
    /\ toHost[c] # <<>>
    /\ toHost' = [toHost EXCEPT ![c] = Tail(@)]
    /\ LET msg == Head(toHost[c]) IN
         \/ msg.type = "hello" /\ ReceiveHello(c)
         \/ msg.type = "manifest" /\ ReceiveManifest(c, msg)
         \/ msg.type = "request" /\ ReceiveRequest(c, msg)
    /\ UNCHANGED <<link, opened, hellos, joins, registered, hostCaps, calls>>

-----------------------------------------------------------------------------
(* What a client receives.                                                  *)

(* The ready handler sends the client's manifest, the first time.           *)
ReceiveChannelReady(c) ==
    /\ opened' = opened \union {c}
    /\ toHost' = IF c \in opened THEN toHost
                 ELSE [toHost EXCEPT ![c] = Append(@, Manifest(c))]
    /\ UNCHANGED <<known, hostCaps>>

ReceiveHostManifest(c, msg) ==
    /\ hostCaps' = [hostCaps EXCEPT ![c] =
                      IF msg.supported THEN "with" ELSE "without"]
    /\ known' = [known EXCEPT ![c] = @ \union {Host}]
    /\ UNCHANGED <<opened, toHost>>

(* add_known_peer, remove_known_peer.                                       *)
ReceivePeerEvent(c, msg) ==
    /\ known' = [known EXCEPT ![c] =
         IF msg.type = "joined" THEN @ \union ({msg.peer} \ {c}) ELSE @ \ {msg.peer}]
    /\ UNCHANGED <<opened, toHost, hostCaps>>

ClientReceives(c) ==
    /\ toClient[c] # <<>>
    /\ toClient' = [toClient EXCEPT ![c] = Tail(@)]
    /\ LET msg == Head(toClient[c]) IN
         \/ msg.type = "ready" /\ ReceiveChannelReady(c)
         \/ msg.type = "manifest" /\ ReceiveHostManifest(c, msg)
         \/ msg.type \in {"joined", "left"} /\ ReceivePeerEvent(c, msg)
         \/ /\ msg.type \in {"delivery", "error"}
            /\ UNCHANGED <<opened, toHost, known, hostCaps>>
    /\ UNCHANGED <<link, channel, hellos, joins, kicked, registered, caps, calls>>

-----------------------------------------------------------------------------
(* What mods do.                                                            *)

(* register and publish_manifest.                                           *)
HostRegisters ==
    /\ Host \notin registered
    /\ registered' = registered \union {Host}
    /\ \E R \in SUBSET Clients :
         Reaches(Ready, R) /\ SendTo(R, [type |-> "manifest", supported |-> TRUE])
    /\ UNCHANGED <<channelVars, toHost, kicked, known, capVars, calls>>

ClientRegisters(c) ==
    /\ c \notin registered
    /\ registered' = registered \union {c}
    /\ toHost' = IF c \notin opened THEN toHost
                 ELSE [toHost EXCEPT ![c] =
                         Append(@, [type |-> "manifest", supported |-> TRUE])]
    /\ UNCHANGED <<channelVars, toClient, kicked, known, capVars, calls>>

(* is_available on a client.                                                *)
Available(c) == c \in opened /\ hostCaps[c] # "unknown"

(* A call of a mod; one for all is dispatched locally and sent to others.   *)
ClientSends(c, r) ==
    /\ calls < MaxCalls /\ calls' = calls + 1
    /\ c \in registered /\ Available(c) /\ r # c
    /\ r = Host => hostCaps[c] = "with"
    /\ toHost' = [toHost EXCEPT ![c] = Append(@, Request(r))]
    /\ UNCHANGED <<channelVars, toClient, kicked, registered, known, capVars>>

HostSends(r) ==
    /\ calls < MaxCalls /\ calls' = calls + 1
    /\ Host \in registered
    /\ IF r = Others THEN SendTo(Capable \intersect Alive, Delivery(Host))
       ELSE /\ r \in Capable \intersect Alive
            /\ SendTo({r}, Delivery(Host))
    /\ UNCHANGED <<channelVars, toHost, kicked, registered, known, capVars>>

-----------------------------------------------------------------------------
Init ==
    /\ link = [c \in Clients |-> "out"]
    /\ channel = [c \in Clients |-> "none"]
    /\ opened = {} /\ hellos = [c \in Clients |-> 0]
    /\ toHost = [c \in Clients |-> <<>>] /\ toClient = [c \in Clients |-> <<>>]
    /\ kicked = {} /\ registered \in Early
    /\ known = [p \in Peers |-> {}]
    /\ caps = [c \in Clients |-> "unknown"]
    /\ hostCaps = [c \in Clients |-> "unknown"]
    /\ joins = [c \in Clients |-> 0] /\ calls = 0

(* Everybody has gone, perhaps for good.                                    *)
Alone == (\A c \in Clients : link[c] = "out") /\ UNCHANGED vars

Next ==
    \/ \E c \in Clients :
         \/ Connects(c) \/ SendsHello(c) \/ LinkBreaks(c) \/ HostNotices(c)
         \/ HostReceives(c) \/ ClientReceives(c) \/ ClientRegisters(c)
         \/ \E r \in Peers \union {Others} : ClientSends(c, r)
    \/ HostRegisters
    \/ \E r \in Clients \union {Others} : HostSends(r)
    \/ Alone

Spec == Init /\ [][Next]_vars

-----------------------------------------------------------------------------
(* Properties.                                                              *)

Capability == {"unknown", "without", "with"}

ToHostMsg ==
    [type : {"hello"}] \union [type : {"manifest"}, supported : BOOLEAN]
    \union [type : {"request"}, recipient : Peers \union {Others}]

ToClientMsg ==
    [type : {"ready", "error"}] \union [type : {"manifest"}, supported : BOOLEAN]
    \union [type : {"joined", "left"}, peer : Clients]
    \union [type : {"delivery"}, sender : Peers]

(* The state is well formed.                                                *)
TypeOK ==
    /\ link \in [Clients -> {"out", "in", "lost"}]
    /\ channel \in [Clients -> {"none", "registered", "ready"}]
    /\ opened \subseteq Clients /\ hellos \in [Clients -> 0 .. MaxHellos]
    /\ toHost \in [Clients -> Seq(ToHostMsg)]
    /\ toClient \in [Clients -> Seq(ToClientMsg)]
    /\ kicked \subseteq Clients /\ registered \subseteq Peers
    /\ known \in [Peers -> SUBSET Peers]
    /\ caps \in [Clients -> Capability] /\ hostCaps \in [Clients -> Capability]
    /\ joins \in [Clients -> 0 .. MaxJoins] /\ calls \in 0 .. MaxCalls

(* What a client will know when it handles the i-th message under way.      *)
KnownAt(c, i) ==
    LET step[j \in 0 .. i - 1] ==
          IF j = 0 THEN known[c]
          ELSE LET msg == toClient[c][j] IN
               CASE msg.type = "manifest" -> step[j - 1] \union {Host}
                 [] msg.type = "joined"   -> step[j - 1] \union ({msg.peer} \ {c})
                 [] msg.type = "left"     -> step[j - 1] \ {msg.peer}
                 [] OTHER                 -> step[j - 1]
    IN  step[i - 1]

(* A call is delivered only from a peer that the receiver has been told of  *)
(* and has not been told has left, and never to its own sender: a mod may   *)
(* keep something for every peer from its joining to its leaving            *)
(* (docs/README.md, network_on_peer_joined).                                *)
SendersAreKnown ==
    \A c \in Clients : \A i \in DOMAIN toClient[c] :
      toClient[c][i].type = "delivery" => toClient[c][i].sender \in KnownAt(c, i)

(* Nothing is under way between the host and c, the host has seen the end   *)
(* of every link and has rejected nobody who is still there.                *)
Quiet(c) ==
    /\ kicked = {} /\ c \in opened /\ toHost[c] = <<>> /\ toClient[c] = <<>>
    /\ \A d \in Clients : link[d] # "lost"

(* When everything has been handled, a client knows the host and the        *)
(* clients the host knows, and not itself, and the host knows what it has   *)
(* registered: "Every node observes the host and all other clients, but     *)
(* never itself", and every remaining node learns of a departure            *)
(* (docs/README.md:98 and 106).                                             *)
DirectoriesAgree ==
    \A c \in Clients : Quiet(c) =>
      /\ known[c] = (known[Host] \union {Host}) \ {c}
      /\ c \in known[Host]
      /\ caps[c] = IF c \in registered THEN "with" ELSE "without"
=============================================================================
