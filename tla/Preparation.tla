------------------------------ MODULE Preparation ------------------------------
(***************************************************************************)
(* Mission preparation of a Realms session (core/preparation.lua) with the *)
(* loadout changes it waits for (ProfileUpdates.tla).                      *)
(*                                                                         *)
(* The host keeps a phase, the ready flag of every member and a revision,  *)
(* and sends a snapshot of them to every client whose control channel is   *)
(* ready whenever the revision grows.  A client keeps the last snapshot.   *)
(* When all members are ready a countdown runs; when it ends the host      *)
(* waits for loadout changes (finalizing) and starts the mission.          *)
(*                                                                         *)
(* The RPC handlers run between frames, so each message received and each  *)
(* frame of a peer is one step.  A control channel delivers in order and   *)
(* loses its messages when the connection closes.  The admission of a      *)
(* client and the handshake of its channel are only as detailed as this    *)
(* protocol sees them.  No gameplay session is active here: the phases     *)
(* are those of the menus and of loading, where messages of the            *)
(* gameplay-control protocol cannot be sent.                               *)
(***************************************************************************)
EXTENDS ProfileUpdates, FiniteSets

CONSTANTS
    Missions,         \* missions the host may choose
    BypassMissions,   \* those that start without preparation (hubs, the range)
    NoMission,
    InitialAllow,     \* the host's loadout option when the model begins
    MaxRevision,      \* players join and press ready below this revision
    MaxMissions,      \* and the host changes missions below this one
    MaxSequence,      \* loadout changes of one client per connection
    MaxHostSequence,  \* and of the host per session
    MaxQueue,         \* a client's unread messages when its user acts again
    MaxToggles,       \* changes of the host's loadout option
    MaxJoins          \* admissions of one client

ASSUME MissionAssumption ==
    BypassMissions \subseteq Missions /\ NoMission \notin Missions

ASSUME OptionAssumption == InitialAllow \subseteq BOOLEAN

ASSUME BoundAssumption ==
    /\ MaxRevision \in Nat
    /\ MaxMissions \in Nat
    /\ MaxSequence \in Nat
    /\ MaxHostSequence \in Nat
    /\ MaxQueue \in Nat
    /\ MaxToggles \in Nat
    /\ MaxJoins \in Nat

VARIABLES
    phase,       \* state.phase on the host
    mission,     \* state.mission_name
    revision,    \* state.revision
    members,     \* the keys of state.ready_by_peer
    ready,       \* those whose value is true
    countdown,   \* state.countdown_end_time: off, running, or due (in the past)
    finalizing,  \* state.finalizing
    channel,     \* registered_channels of SessionControl, per client
    kicked,      \* clients whose channel the host has rejected
    toHost,      \* messages under way from each client
    toClient,    \* messages under way to each client
    client,      \* the state of each client
    allow,       \* the host's allow_in_mission_loadout_changes
    toggles,     \* how often the user changed it
    joins        \* how often each client was admitted

hostVars == <<phase, mission, revision, members, ready, countdown, finalizing>>
linkVars == <<channel, kicked, toHost, toClient>>
optionVars == <<allow, toggles>>
clientVars == <<client, joins>>
vars == <<hostVars, linkVars, clientVars, optionVars, profileVars>>

Phases == {"inactive", "host_booting", "waiting", "started", "bypassed"}

Snapshots ==
    [type : {"snapshot"}, revision : Nat, mission : Missions \union {NoMission},
     ready : SUBSET Peers, finalizing : BOOLEAN, started : BOOLEAN,
     allow : BOOLEAN]

HostMessages == Snapshots \union [type : {"channel_ready"}]

ClientMessages ==
    [type : {"entered", "channel_hello", "hello"}]
      \union [type : {"ready"}, value : BOOLEAN]
      \union [type : {"profile_pending", "profile_update", "profile_cancel"},
              seq : Nat]

ClientStates ==
    [conn : {"out", "joining", "in"}, context : {"none", "preparing", "started"},
     phase : {"inactive", "waiting", "started"}, revision : Nat,
     mission : Missions \union {NoMission}, ready : SUBSET Peers,
     finalizing : BOOLEAN, allow : BOOLEAN, available : BOOLEAN,
     hello : BOOLEAN]

NoClient ==
    [conn |-> "out", context |-> "none", phase |-> "inactive", revision |-> 0,
     mission |-> NoMission, ready |-> {}, finalizing |-> FALSE,
     allow |-> FALSE, available |-> FALSE, hello |-> FALSE]

HostTypeOK ==
    /\ phase \in Phases
    /\ mission \in Missions \union {NoMission}
    /\ revision \in Nat
    /\ members \subseteq Peers
    /\ ready \subseteq members
    /\ countdown \in {"off", "running", "due"}
    /\ finalizing \in BOOLEAN

LinkTypeOK ==
    /\ channel \in [Clients -> {"none", "registered", "ready"}]
    /\ kicked \subseteq Clients
    /\ toHost \in [Clients -> Seq(ClientMessages)]
    /\ toClient \in [Clients -> Seq(HostMessages)]

TypeOK ==
    /\ HostTypeOK
    /\ LinkTypeOK
    /\ client \in [Clients -> ClientStates] /\ joins \in [Clients -> Nat]
    /\ allow \in BOOLEAN /\ toggles \in Nat
    /\ ProfileTypeOK

Init ==
    /\ phase = "inactive"
    /\ mission = NoMission
    /\ revision = 0
    /\ members = {}
    /\ ready = {}
    /\ countdown = "off"
    /\ finalizing = FALSE
    /\ channel = [c \in Clients |-> "none"]
    /\ kicked = {}
    /\ toHost = [c \in Clients |-> <<>>]
    /\ toClient = [c \in Clients |-> <<>>]
    /\ client = [c \in Clients |-> NoClient]
    /\ allow \in InitialAllow
    /\ toggles = 0
    /\ joins = [c \in Clients |-> 0]
    /\ ProfileInit

-----------------------------------------------------------------------------
(* Snapshots, countdown and permissions.                                    *)

(* snapshot_data.                                                           *)
Snapshot ==
    [type |-> "snapshot", revision |-> revision, mission |-> mission,
     ready |-> ready, finalizing |-> finalizing,
     started |-> phase \in {"started", "bypassed"}, allow |-> allow]

(* broadcast_snapshot, after the host's state has changed: it reaches the   *)
(* clients whose channel is ready, and no other.                            *)
Announce(queues) ==
    toClient' = [c \in Clients |->
                   IF channel'[c] = "ready" THEN Append(queues[c], Snapshot')
                   ELSE queues[c]]

(* Mutant: one ready player is enough.                                      *)
AnyReady(m, r) == r # {}

AllReady(m, r) == m # {} /\ r = m

(* Mutant: a countdown is started but never stopped.                        *)
CountdownNotStopped(ph, fin, m, r) ==
    IF ph = "waiting" /\ ~fin /\ AllReady(m, r) /\ countdown = "off"
    THEN "running" ELSE countdown

(* update_host_countdown: a countdown that need not change keeps its end.   *)
CountdownFor(ph, fin, m, r) ==
    IF ph = "waiting" /\ ~fin /\ AllReady(m, r)
    THEN IF countdown = "off" THEN "running" ELSE countdown
    ELSE "off"

HostAllowsChanges == (phase = "waiting" /\ ~finalizing) \/ allow

ClientAllowsChanges(c) ==
    \/ client[c].phase = "waiting" /\ ~client[c].finalizing
    \/ client[c].allow

Connected == {c \in Clients : channel[c] # "none"}

(* A preparation message of a client can be sent.                           *)
ClientCanSend(c) == client[c].phase = "waiting" /\ client[c].available

(* A later number, profile or withdrawal waits while nothing can be sent.   *)
PostProfile(c, u) ==
    IF ClientCanSend(c)
    THEN /\ update' = [update EXCEPT ![c] = Flushed(u)]
         /\ toHost' = [toHost EXCEPT ![c] = @ \o Outbox(u)]
    ELSE /\ update' = [update EXCEPT ![c] = u]
         /\ UNCHANGED toHost

-----------------------------------------------------------------------------
(* The host's session: boot, mission changes, settings.                     *)

HostBootStarted ==
    /\ phase = "inactive"
    /\ phase' = "host_booting"
    /\ UNCHANGED <<mission, revision, members, ready, countdown, finalizing,
                   linkVars, clientVars, optionVars, profileVars>>

(* host_mechanism_configured from a reset state: every connected client is  *)
(* a member that is not ready.                                              *)
ConfigureMission(m) ==
    /\ mission' = m
    /\ revision' = revision + 1
    /\ ready' = {}
    /\ countdown' = "off"
    /\ finalizing' = FALSE
    /\ IF m \in BypassMissions
       THEN phase' = "bypassed" /\ members' = {}
       ELSE phase' = "waiting" /\ members' = Connected \union {Host}
    /\ UNCHANGED <<channel, kicked, toHost>>
    /\ Announce(toClient)

HostMechanismConfigured(m) ==
    /\ phase = "host_booting"
    /\ UNCHANGED <<clientVars, optionVars, profileVars>>
    /\ ConfigureMission(m)

(* The next mission of a session that stays connected: host_transition_     *)
(* started and host_mechanism_configured in one change_mechanism call.      *)
HostTransition(m) ==
    /\ phase \in {"waiting", "started", "bypassed"}
    /\ revision < MaxMissions
    /\ UNCHANGED <<clientVars, optionVars, profileVars>>
    /\ ConfigureMission(m)

(* The session ends; its clients have gone before a new one can begin.      *)
HostStops ==
    /\ phase # "inactive"
    /\ \A c \in Clients : client[c].conn = "out"
    /\ phase' = "inactive"
    /\ mission' = NoMission
    /\ revision' = 0
    /\ members' = {}
    /\ ready' = {}
    /\ countdown' = "off"
    /\ finalizing' = FALSE
    /\ pending' = [p \in Peers |-> NoPending]
    /\ latest' = [p \in Peers |-> 0]
    /\ applied' = [p \in Peers |-> 0]
    /\ update' = [update EXCEPT ![Host] = NoUpdate]
    /\ unsynced' = {}
    /\ UNCHANGED <<linkVars, clientVars, optionVars>>

ServerSettingsChanged ==
    /\ toggles < MaxToggles
    /\ toggles' = toggles + 1
    /\ allow' = ~allow
    /\ UNCHANGED <<phase, mission, members, ready, countdown, finalizing,
                   channel, kicked, toHost, clientVars, profileVars>>
    /\ IF phase = "waiting"
       THEN revision' = revision + 1 /\ Announce(toClient)
       ELSE UNCHANGED <<revision, toClient>>

-----------------------------------------------------------------------------
(* Readiness on the host.                                                   *)

(* set_host_ready.                                                          *)
SetHostReady(p, value) ==
    IF finalizing \/ (p \in members /\ (p \in ready) = value)
    THEN UNCHANGED <<hostVars, toClient>>
    ELSE /\ members' = members \union {p}
         /\ ready' = IF value THEN ready \union {p} ELSE ready \ {p}
         /\ countdown' = CountdownFor(phase, finalizing, members', ready')
         /\ revision' = revision + 1
         /\ UNCHANGED <<phase, mission, finalizing>>
         /\ Announce(toClient)

HostPressesReady ==
    /\ phase = "waiting" /\ ~finalizing
    /\ revision < MaxRevision
    /\ UNCHANGED <<channel, kicked, toHost, clientVars, optionVars, profileVars>>
    /\ SetHostReady(Host, Host \notin ready)

CountdownElapses ==
    /\ countdown = "running"
    /\ countdown' = "due"
    /\ UNCHANGED <<phase, mission, revision, members, ready, finalizing,
                   linkVars, clientVars, optionVars, profileVars>>

(* Preparation.update on the host: at most one of these in a frame.         *)
BeginFinalizing ==
    /\ phase = "waiting" /\ countdown = "due"
    /\ finalizing' = TRUE
    /\ countdown' = "off"
    /\ revision' = revision + 1
    /\ UNCHANGED <<phase, mission, members, ready>>
    /\ Announce(toClient)

(* Mutant: the start is not broadcast.                                      *)
StartUnannounced ==
    /\ phase = "waiting" /\ countdown # "due"
    /\ finalizing /\ ReadyToStart
    /\ phase' = "started"
    /\ finalizing' = FALSE
    /\ revision' = revision + 1
    /\ UNCHANGED <<mission, members, ready, countdown, toClient>>

StartMission ==
    /\ phase = "waiting" /\ countdown # "due"
    /\ finalizing /\ ReadyToStart
    /\ phase' = "started"
    /\ finalizing' = FALSE
    /\ revision' = revision + 1
    /\ UNCHANGED <<mission, members, ready, countdown>>
    /\ Announce(toClient)

PreparationIdle ==
    /\ ~(phase = "waiting" /\ countdown = "due")
    /\ ~(phase = "waiting" /\ finalizing /\ ReadyToStart)
    /\ UNCHANGED <<hostVars, toClient>>

(* One frame of the host: Preparation.update, then ProfileUpdates.update.   *)
HostFrame ==
    /\ phase # "inactive"
    /\ UNCHANGED <<channel, kicked, toHost, clientVars, optionVars>>
    /\ BeginFinalizing \/ StartMission \/ PreparationIdle
    /\ UpdateHostProfiles(HostAllowsChanges')

HostUpdatesProfile ==
    /\ \/ /\ phase # "inactive"
          /\ update[Host].seq < MaxHostSequence
          /\ HostChangesLoadout(HostAllowsChanges)
       \/ HostFetchReturns
       \/ HostFetchFails
       \/ \E p \in Peers : SynchronizerDone(p)
    /\ UNCHANGED <<hostVars, linkVars, clientVars, optionVars>>

-----------------------------------------------------------------------------
(* Messages the host receives, one operator per handler.                    *)

Pop(c) == toHost' = [toHost EXCEPT ![c] = Tail(@)]

(* ConnectionHost.remote_connected, which registers the control channel and *)
(* calls Preparation.remote_connected.                                      *)
RemoteConnected(c) ==
    /\ channel' = [channel EXCEPT ![c] = "registered"]
    /\ IF phase = "waiting"
       THEN /\ members' = members \union {c}
            /\ ready' = ready \ {c}
            /\ countdown' = CountdownFor(phase, finalizing, members', ready')
            /\ revision' = revision + 1
            /\ UNCHANGED <<phase, mission, finalizing>>
            /\ Announce(toClient)
       ELSE UNCHANGED <<hostVars, toClient>>
    /\ UNCHANGED <<kicked, profileVars>>

(* The handshake of the channel, and the preparation's ready handler: it    *)
(* sends a snapshot in two of the three phases of a session.                *)
ChannelHello(c) ==
    /\ channel' = [channel EXCEPT ![c] = "ready"]
    /\ toClient' =
         [toClient EXCEPT ![c] =
            (@ \o <<[type |-> "channel_ready"]>>)
            \o (IF phase \in {"waiting", "started"} THEN <<Snapshot>> ELSE <<>>)]
    /\ UNCHANGED <<hostVars, kicked, profileVars>>

(* receive_hello.                                                           *)
ReceiveHello(c) ==
    /\ toClient' = IF phase \in {"waiting", "started"}
                   THEN [toClient EXCEPT ![c] = Append(@, Snapshot)]
                   ELSE toClient
    /\ UNCHANGED <<hostVars, channel, kicked, profileVars>>

(* receive_ready.                                                           *)
ReceiveReady(c, value) ==
    /\ UNCHANGED <<channel, kicked, profileVars>>
    /\ IF phase = "waiting" THEN SetHostReady(c, value)
       ELSE UNCHANGED <<hostVars, toClient>>

(* receive_profile_pending, _update, _cancel: dropped outside waiting.      *)
ReceiveProfile(c, msg) ==
    /\ UNCHANGED <<hostVars, channel, toClient>>
    /\ \/ /\ phase # "waiting"
          /\ UNCHANGED <<kicked, profileVars>>
       \/ /\ phase = "waiting" /\ msg.type = "profile_pending"
          /\ ReceivePending(c, msg.seq, HostAllowsChanges)
          /\ UNCHANGED kicked
       \/ /\ phase = "waiting" /\ msg.type = "profile_update"
          /\ ReceiveUpdate(c, msg.seq, HostAllowsChanges)
          /\ UNCHANGED kicked
       \/ /\ phase = "waiting" /\ msg.type = "profile_cancel"
          /\ ReceiveCancel(c, msg.seq)
          /\ kicked' = IF IsUnannouncedCancel(c, msg.seq)
                       THEN kicked \union {c} ELSE kicked

HostReceives(c) ==
    /\ toHost[c] # <<>>
    /\ UNCHANGED <<clientVars, optionVars>>
    /\ Pop(c)
    /\ LET msg == Head(toHost[c])
       IN  \/ msg.type = "entered" /\ RemoteConnected(c)
           \/ msg.type = "channel_hello" /\ ChannelHello(c)
           \/ msg.type = "hello" /\ ReceiveHello(c)
           \/ msg.type = "ready" /\ ReceiveReady(c, msg.value)
           \/ /\ msg.type \in {"profile_pending", "profile_update",
                               "profile_cancel"}
              /\ ReceiveProfile(c, msg)

-----------------------------------------------------------------------------
(* The life of a client's connection.                                       *)

(* The messages that open a connection and its control channel.             *)
Opening == <<[type |-> "entered"], [type |-> "channel_hello"]>>

(* The host answers the session ticket with its mission and phase.          *)
HostAdmits(c) ==
    /\ client[c].conn = "out"
    /\ revision < MaxRevision
    /\ joins[c] < MaxJoins
    /\ joins' = [joins EXCEPT ![c] = @ + 1]
    /\ phase \in {"waiting", "started", "bypassed"}
    /\ client' = [client EXCEPT ![c] =
                    [NoClient EXCEPT
                       !.conn = "joining",
                       !.context = IF phase = "waiting" THEN "preparing"
                                   ELSE "started",
                       !.mission = mission]]
    /\ UNCHANGED <<hostVars, linkVars, optionVars, profileVars>>

(* client_boot_started and client_context_received, once the connection is  *)
(* complete; the client has told the host so and opens its control channel. *)
ClientActivates(c) ==
    /\ client[c].conn = "joining"
    /\ client' = [client EXCEPT
                    ![c].conn = "in",
                    ![c].phase = IF client[c].context = "preparing"
                                 THEN "waiting" ELSE "started"]
    /\ toHost' = [toHost EXCEPT ![c] = Opening]
    /\ UNCHANGED <<hostVars, channel, kicked, toClient, joins, optionVars,
                   profileVars>>

(* Preparation.remote_disconnected and ProfileUpdates.remote_disconnected,  *)
(* which the host runs in the waiting phase only.                           *)
RemoteDisconnected(c) ==
    /\ ForgetPeer(c)
    /\ IF c \in members
       THEN /\ members' = members \ {c}
            /\ ready' = ready \ {c}
            /\ countdown' = CountdownFor(phase, finalizing, members', ready')
            /\ revision' = revision + 1
            /\ UNCHANGED <<phase, mission, finalizing>>
            /\ Announce([toClient EXCEPT ![c] = <<>>])
       ELSE /\ toClient' = [toClient EXCEPT ![c] = <<>>]
            /\ UNCHANGED hostVars

(* The connection closes, whoever closes it: the client's session is gone   *)
(* and the host destroys its side and removes the player.                   *)
Disconnect(c) ==
    /\ client[c].conn # "out"
    /\ client' = [client EXCEPT ![c] = NoClient]
    /\ channel' = [channel EXCEPT ![c] = "none"]
    /\ kicked' = kicked \ {c}
    /\ toHost' = [toHost EXCEPT ![c] = <<>>]
    /\ update' = [update EXCEPT ![c] = NoUpdate]
    /\ applied' = [applied EXCEPT ![c] = 0]
    /\ unsynced' = unsynced \ {c}
    /\ UNCHANGED <<joins, optionVars>>
    /\ IF phase = "waiting" THEN RemoteDisconnected(c)
       ELSE /\ RemovePlayer(c)
            /\ toClient' = [toClient EXCEPT ![c] = <<>>]
            /\ UNCHANGED hostVars

-----------------------------------------------------------------------------
(* What a client does.                                                      *)

(* apply_snapshot: an older revision is ignored.                            *)
Viewed(cl, s) ==
    [cl EXCEPT
       !.revision = s.revision,
       !.mission = s.mission,
       !.ready = s.ready,
       !.finalizing = s.finalizing /\ ~s.started,
       !.allow = s.allow,
       !.phase = IF s.started THEN "started" ELSE "waiting"]

(* The control channel is ready: a waiting client asks for a snapshot.      *)
ClientChannelReady(c) ==
    LET asks == client[c].phase = "waiting"
    IN  /\ client' = [client EXCEPT ![c].available = TRUE, ![c].hello = asks]
        /\ toHost' = IF asks
                     THEN [toHost EXCEPT ![c] = Append(@, [type |-> "hello"])]
                     ELSE toHost

ClientSnapshot(c, s) ==
    /\ client' = IF s.revision < client[c].revision THEN client
                 ELSE [client EXCEPT ![c] = Viewed(@, s)]
    /\ UNCHANGED toHost

ClientReceives(c) ==
    /\ toClient[c] # <<>>
    /\ toClient' = [toClient EXCEPT ![c] = Tail(@)]
    /\ LET msg == Head(toClient[c])
       IN  \/ msg.type = "channel_ready" /\ ClientChannelReady(c)
           \/ msg.type = "snapshot" /\ ClientSnapshot(c, msg)
    /\ UNCHANGED <<hostVars, channel, kicked, joins, optionVars, profileVars>>

(* One frame of a client: Preparation.update may still have to ask for a    *)
(* snapshot, then ProfileUpdates.update drops or sends what it holds.       *)
ClientFrame(c) ==
    /\ client[c].conn = "in"
    /\ LET asks == ClientCanSend(c) /\ ~client[c].hello
           u == update[c]
           sends == ClientAllowsChanges(c) /\ ClientCanSend(c)
       IN  /\ client' = [client EXCEPT ![c].hello = @ \/ asks]
           /\ toHost' = [toHost EXCEPT ![c] =
                           (IF asks THEN Append(@, [type |-> "hello"]) ELSE @)
                           \o (IF sends THEN Outbox(u) ELSE <<>>)]
           /\ update' = [update EXCEPT ![c] =
                           IF ~ClientAllowsChanges(c) THEN Discarded(u)
                           ELSE IF sends THEN Flushed(u) ELSE u]
    /\ UNCHANGED <<hostVars, channel, kicked, toClient, joins, optionVars,
                   pending, latest, applied, unsynced>>

ClientPressesReady(c) ==
    /\ ClientCanSend(c)
    /\ ~client[c].finalizing
    /\ revision < MaxRevision
    /\ Len(toHost[c]) < MaxQueue
    /\ toHost' = [toHost EXCEPT ![c] =
                    Append(@, [type |-> "ready", value |-> c \notin client[c].ready])]
    /\ UNCHANGED <<hostVars, channel, kicked, toClient, clientVars, optionVars,
                   profileVars>>

ClientChangesLoadout(c) ==
    /\ client[c].conn = "in"
    /\ ClientAllowsChanges(c)
    /\ update[c].seq < MaxSequence
    /\ PostProfile(c, Requested(update[c], FALSE))
    /\ UNCHANGED <<hostVars, channel, kicked, toClient, clientVars, optionVars,
                   pending, latest, applied, unsynced>>

ClientFetchReturns(c) ==
    /\ update[c].fetch # 0
    /\ IF IsStale(update[c])
       THEN update' = [update EXCEPT ![c] = Refetched(@)] /\ UNCHANGED toHost
       ELSE PostProfile(c, Fetched(update[c]))
    /\ UNCHANGED <<hostVars, channel, kicked, toClient, clientVars, optionVars,
                   pending, latest, applied, unsynced>>

ClientFetchFails(c) ==
    /\ update[c].fetch # 0
    /\ IF IsStale(update[c])
       THEN update' = [update EXCEPT ![c] = Refetched(@)] /\ UNCHANGED toHost
       ELSE PostProfile(c, FetchFailed(update[c]))
    /\ UNCHANGED <<hostVars, channel, kicked, toClient, clientVars, optionVars,
                   pending, latest, applied, unsynced>>

-----------------------------------------------------------------------------
HostNext ==
    \/ HostBootStarted
    \/ \E m \in Missions : HostMechanismConfigured(m) \/ HostTransition(m)
    \/ HostStops
    \/ ServerSettingsChanged
    \/ HostPressesReady
    \/ CountdownElapses
    \/ HostFrame
    \/ HostUpdatesProfile

ClientNext(c) ==
    \/ HostReceives(c)
    \/ HostAdmits(c)
    \/ ClientActivates(c)
    \/ Disconnect(c)
    \/ ClientReceives(c)
    \/ ClientFrame(c)
    \/ ClientPressesReady(c)
    \/ ClientChangesLoadout(c)
    \/ ClientFetchReturns(c)
    \/ ClientFetchFails(c)

Next == HostNext \/ \E c \in Clients : ClientNext(c)

Spec == Init /\ [][Next]_vars

(* Every peer keeps running frames and handling what it receives, the       *)
(* countdown ends if nobody interrupts it, a fetch returns or fails, the    *)
(* engine delivers profiles, and a rejected channel is closed.  Nothing is  *)
(* assumed of users, of joining or of leaving.                              *)
Fairness ==
    /\ WF_vars(HostFrame)
    /\ WF_vars(CountdownElapses)
    /\ WF_vars(HostFetchReturns /\ HostUpdatesProfile)
    /\ \A p \in Peers : WF_vars(SynchronizerDone(p) /\ HostUpdatesProfile)
    /\ \A c \in Clients :
         /\ WF_vars(HostReceives(c))
         /\ WF_vars(ClientReceives(c))
         /\ WF_vars(ClientFrame(c))
         /\ WF_vars(ClientFetchReturns(c) \/ ClientFetchFails(c))
         /\ WF_vars(c \in kicked /\ Disconnect(c))

FairSpec == Spec /\ Fairness

-----------------------------------------------------------------------------
(* Properties.                                                              *)

(* A countdown runs exactly while the host waits, has not begun to finalize *)
(* and every member is ready: whoever joins, leaves or changes its mind     *)
(* starts or stops it (update_host_countdown after each of them).           *)
CountdownMeansAllReady ==
    countdown # "off" <=>
      phase = "waiting" /\ ~finalizing /\ AllReady(members, ready)

(* While the host waits, the players whose readiness it asks for are itself *)
(* and the clients that are connected, so nobody who has left can hold the  *)
(* mission and nobody who is there is forgotten.                            *)
MembersAreConnected ==
    phase = "waiting" => members = Connected \union {Host}

HandshakeFirst(c) ==
    /\ client[c].conn # "in" => channel[c] = "none" /\ toHost[c] = <<>>
    /\ channel[c] = "none" => toHost[c] \in {<<>>, Opening}
    /\ channel[c] = "registered" => toHost[c] = Tail(Opening)
    /\ channel[c] = "ready" =>
         \A i \in DOMAIN toHost[c] :
           toHost[c][i].type \notin {"entered", "channel_hello"}
    /\ channel[c] # "ready" => ~client[c].available /\ toClient[c] = <<>>

(* The handshake of a channel comes before anything else on it, in both     *)
(* directions and in every connection of a client: SessionControl closes a  *)
(* channel on which a protocol's message arrives earlier.                   *)
HandshakeComesFirst == \A c \in Clients : HandshakeFirst(c)

SnapshotsTo(c) ==
    {i \in DOMAIN toClient[c] : toClient[c][i].type = "snapshot"}

(* What a snapshot tells of readiness; the loadout option is sent along.    *)
Shows(s) == <<s.revision, s.mission, s.ready, s.finalizing, s.started>>

(* A revision identifies the state it was sent with: a snapshot under way   *)
(* that carries the host's revision shows the host's state, so no handler   *)
(* changes what clients see without a new revision.                         *)
RevisionIdentifiesState ==
    \A c \in Clients : \A i \in SnapshotsTo(c) :
      toClient[c][i].revision = revision => Shows(toClient[c][i]) = Shows(Snapshot)

(* Revisions reach a client in order: none under way is older than the view *)
(* it will replace or newer than the host's, over any number of missions of *)
(* the session.  The client's check of the revision then drops nothing.     *)
RevisionsInOrder ==
    \A c \in Clients : \A i \in SnapshotsTo(c) :
      /\ client[c].revision <= toClient[c][i].revision
      /\ toClient[c][i].revision <= revision
      /\ \A j \in SnapshotsTo(c) :
           i < j => toClient[c][i].revision <= toClient[c][j].revision

(* Nothing is under way between the host and a client whose channel both    *)
(* sides have opened, and the client has no request left to make.           *)
Quiet(c) ==
    /\ client[c].available
    /\ toHost[c] = <<>> /\ toClient[c] = <<>>
    /\ client[c].phase = "waiting" => client[c].hello

Follows(c) ==
    /\ phase # "waiting" => client[c].phase = "started"
    /\ phase = "waiting" => client[c].phase = "waiting"
    /\ client[c].mission = mission

(* When everything sent has been handled, a client is in the host's phase   *)
(* and on the host's mission: whatever the host did while the client was    *)
(* being admitted, no later message is needed to put it right.              *)
QuietClientsFollow == \A c \in Clients : Quiet(c) => Follows(c)

(* What the host waits for and whom it hears: the countdown, the members    *)
(* and the handshakes agree, whoever joins, leaves, presses and sends.      *)
BarrierHolds == CountdownMeansAllReady /\ MembersAreConnected /\ HandshakeComesFirst

(* What the clients see is what the host is: snapshots carry the state of   *)
(* their revision, arrive in order, and leave no client behind.             *)
ClientsSeeTheHost == RevisionIdentifiesState /\ RevisionsInOrder /\ QuietClientsFollow

(* The host does not know a change number that the connected client has not *)
(* used: numbers begin again with every connection.                         *)
HostKnowsOnlyIssuedNumbers ==
    \A c \in Clients : channel[c] # "none" => latest[c] <= update[c].seq

(* The host has been told of c's newest change, and the profile or its      *)
(* withdrawal is still to come.                                             *)
Outstanding(c) ==
    /\ update[c].seq # 0 /\ latest[c] = update[c].seq
    /\ \/ update[c].fetch # 0
       \/ update[c].delivery # 0
       \/ \E i \in DOMAIN toHost[c] :
            toHost[c][i] = [type |-> "profile_update", seq |-> latest[c]]

(* While the host lets loadouts change during missions, a mission does not  *)
(* start before the profile of every change it was told of has arrived or   *)
(* was withdrawn.  (Of a client in its first connection: see                *)
(* HostKnowsOnlyIssuedNumbers for the next ones.)                           *)
AnnouncedChangesHoldTheStart ==
    [][phase = "waiting" /\ phase' = "started" /\ allow /\ toggles = 0 =>
         \A c \in Clients : joins[c] = 1 => ~Outstanding(c)]_vars

(* A host that waits for loadout changes gets on: nobody who leaves, fails  *)
(* to fetch a profile or changes it again holds the mission for ever.  The  *)
(* loadout option must not change meanwhile: a client that has seen an      *)
(* older value drops a change the host then waits for.                      *)
FinalizingEnds ==
    (finalizing /\ toggles = 0) ~> (~finalizing \/ toggles # 0)

(* A started mission reaches every client whose channel is ready.           *)
StartReachesClients ==
    \A c \in Clients :
      (phase = "started" /\ channel[c] = "ready")
        ~> (phase # "started" \/ channel[c] # "ready"
              \/ client[c].phase = "started")

(* No mission is held back for ever, and its start misses no client.        *)
MissionsStart == FinalizingEnds /\ StartReachesClients

-----------------------------------------------------------------------------
(* The host implements the barrier of ReadyBarrier.tla.                     *)

BarrierStage ==
    CASE phase = "waiting" /\ ~finalizing -> "gathering"
      [] phase = "waiting" /\ finalizing  -> "committed"
      [] phase = "started"                -> "started"
      [] OTHER                            -> "idle"

Waiting(S) == IF phase = "waiting" THEN S ELSE {}

Barrier == INSTANCE ReadyBarrier
             WITH stage <- BarrierStage, members <- Waiting(members),
                  ready <- Waiting(ready)

(* A mission is committed to only when all members are ready, and starts    *)
(* only after that, whatever joins, leaves and messages come in between.    *)
IsReadyBarrier == Barrier!Spec
=============================================================================
