------------------------------- MODULE Admission -------------------------------
(***************************************************************************)
(* How a Realms host admits its clients (connection/connection_host.lua    *)
(* and connection/remote_connection.lua).                                  *)
(*                                                                         *)
(* For every channel it approves the host keeps a remote connection, which *)
(* goes through the stages of STAGES: at each the client sends one request *)
(* and waits for the reply.  Capacity is checked at three of the stages, a *)
(* player slot is claimed at one, and at another the profiles of the       *)
(* players who are there are sent to the new client.  When it has          *)
(* connected, the others receive its profile and are then told of it.      *)
(* What happens to a connection is queued as an event for the engine's     *)
(* ConnectionManager, which adds and removes the players.                  *)
(*                                                                         *)
(* Requests are handled between the host's frames, so the handling of each *)
(* is one step, and so is each thing a frame does for one connection.  A   *)
(* client sends its next request only when it has the reply to the last,   *)
(* so a request that was refused is the last one of its connection.        *)
(***************************************************************************)
EXTENDS Naturals, Sequences, FiniteSets

CONSTANTS
    Host,        \* the peer that hosts
    Clients,     \* the peers that may join
    Slots,       \* the player slots of the engine
    NoSlot,
    Limits,      \* the values of max_members, the host included
    MaxJoins,    \* approved channels of one client
    MaxChanges   \* how often the host changes its settings

ASSUME PeerAssumption == Host \notin Clients /\ IsFiniteSet(Clients)

ASSUME SlotAssumption == NoSlot \notin Slots

ASSUME LimitAssumption == Limits \subseteq Nat \ {0}

ASSUME BoundAssumption == MaxJoins \in Nat /\ MaxChanges \in Nat

Peers == Clients \union {Host}

(* STAGES.                                                                  *)
Version == 0
Booted == 1
MasterItems == 2
HostType == 3
Mechanism == 4
ClaimsSlot == 5
LocalPlayers == 6
TickRate == 7
Eac == 8
Profiles == 9
Dlc == 10
SessionData == 11
Stats == 12
MechanismConnected == 13
Entering == 14
Complete == 15

(* Those whose handler only answers.                                        *)
PlainStages == {HostType, TickRate, Eac, Dlc, SessionData, MechanismConnected}

VARIABLES
    remotes,        \* clients with an entry in _remote_connections
    stage,          \* _stage of each
    failed,         \* those whose _failed is set
    bootRequested,  \* those whose _boot_request_pending is set
    slot,           \* _slots[1] of each
    awaited,        \* _profile_sync_pending of each
    closing,        \* _pending_channel_closes
    peerSyncs,      \* _peer_profile_syncs, pairs <<target, source>>
    events,         \* _events
    limit,          \* _max_members
    accepting,      \* _accept_new_connections
    relayFailed,    \* _relay_failed
    installed,      \* _installed
    told,           \* the players each client was told of
    reason,         \* the reason sent to each client with rpc_kicked
    link,           \* the channel of each client
    running,        \* the engine's initial profile syncs, <<target, source>>
    members,        \* the members of ConnectionManager
    claimed,        \* the slots claimed from PlayerManager
    joins, changes  \* how often a client was approved, the settings changed

remoteVars == <<remotes, stage, failed, bootRequested, slot, awaited>>
syncVars == <<peerSyncs, running, told>>
policyVars == <<limit, accepting, relayFailed, installed, changes>>
linkVars == <<link, closing, reason>>
vars == <<remoteVars, syncVars, policyVars, linkVars, events, members, claimed,
          joins>>

Events == [name : {"connected", "disconnected"}, peer : Clients]

Connected == {c \in remotes : stage[c] = Complete}

(* The clients the host has given a place to.                               *)
Party == {c \in remotes : stage[c] > ClaimsSlot}

TypeOK ==
    /\ remotes \subseteq Clients /\ failed \subseteq remotes
    /\ bootRequested \subseteq remotes
    /\ stage \in [Clients -> Version .. Complete]
    /\ slot \in [Clients -> Slots \union {NoSlot}]
    /\ awaited \in [Clients -> SUBSET Peers]
    /\ closing \subseteq Clients
    /\ peerSyncs \subseteq Clients \X Clients
    /\ events \in Seq(Events)
    /\ limit \in Limits
    /\ accepting \in BOOLEAN /\ relayFailed \in BOOLEAN /\ installed \in BOOLEAN
    /\ told \in [Clients -> SUBSET Clients]
    /\ reason \in [Clients -> {"none", "error", "private", "full", "rejected",
                               "timeout", "kicked"}]
    /\ link \in [Clients -> {"open", "closed"}]
    /\ running \subseteq Clients \X Peers
    /\ members \subseteq Clients
    /\ claimed \subseteq Slots
    /\ joins \in [Clients -> Nat] /\ changes \in Nat

Init ==
    /\ remotes = {} /\ failed = {} /\ bootRequested = {}
    /\ stage = [c \in Clients |-> Version]
    /\ slot = [c \in Clients |-> NoSlot]
    /\ awaited = [c \in Clients |-> {}]
    /\ closing = {}
    /\ peerSyncs = {} /\ running = {}
    /\ events = <<>>
    /\ limit \in Limits
    /\ accepting \in BOOLEAN
    /\ relayFailed = FALSE /\ installed = FALSE
    /\ told = [c \in Clients |-> {}]
    /\ reason = [c \in Clients |-> "none"]
    /\ link = [c \in Clients |-> "closed"]
    /\ members = {} /\ claimed = {}
    /\ joins = [c \in Clients |-> 0] /\ changes = 0

-----------------------------------------------------------------------------
(* Failing and advancing.                                                   *)

Queue(name, c) == events' = Append(events, [name |-> name, peer |-> c])

(* _record_failure.                                                         *)
RecordFailure(c) ==
    /\ failed' = failed \union {c}
    /\ Queue("disconnected", c)

(* kick: the reason is sent, the channel is closed two frames later.        *)
Reject(c, why) ==
    /\ closing' = closing \union {c}
    /\ reason' = IF c \in closing THEN reason ELSE [reason EXCEPT ![c] = why]
    /\ UNCHANGED link

(* fail.                                                                    *)
Fail(c, why) == RecordFailure(c) /\ Reject(c, why)

Advance(c, s) == stage' = [stage EXCEPT ![c] = s]

(* c sends the request of stage s, and nothing has failed.                  *)
Asks(c, s) ==
    /\ c \in remotes \ failed
    /\ link[c] = "open"
    /\ stage[c] = s

(* can_accept_peer: why c is refused.  Every connection counts, c's own and *)
(* those that are still being admitted too.                                 *)
Refusal ==
    CASE relayFailed -> "error"
      [] ~relayFailed /\ ~accepting -> "private"
      [] ~relayFailed /\ accepting /\ Cardinality(remotes) > limit - 1 -> "full"
      [] OTHER -> "none"

-----------------------------------------------------------------------------
(* The requests, one operator per handler.                                  *)

(* approve_channel: not while the peer's last connection is still known.  A *)
(* close that is pending is that of the last channel, which has closed.     *)
ApproveChannel(c) ==
    /\ link[c] = "closed" /\ joins[c] < MaxJoins
    /\ c \notin remotes
    /\ remotes' = remotes \union {c}
    /\ link' = [link EXCEPT ![c] = "open"]
    /\ reason' = [reason EXCEPT ![c] = "none"]
    /\ closing' = closing \ {c}
    /\ joins' = [joins EXCEPT ![c] = @ + 1]
    /\ UNCHANGED <<stage, failed, bootRequested, slot, awaited, syncVars,
                   policyVars, events, members, claimed>>

(* Mutant: only connected clients count.                                    *)
CheckConnectedOnly(c) ==
    /\ \E s \in {Version, ClaimsSlot} :
         /\ Asks(c, s)
         /\ IF relayFailed \/ ~accepting \/ Cardinality(Connected) > limit - 1
            THEN Fail(c, "full") /\ UNCHANGED stage
            ELSE /\ Advance(c, s + 1)
                 /\ UNCHANGED <<failed, events, linkVars>>
    /\ UNCHANGED <<remotes, bootRequested, slot, awaited, syncVars, policyVars,
                   members, claimed, joins>>

(* rpc_check_version, rpc_claim_slot.                                       *)
CheckAdmission(c) ==
    /\ \E s \in {Version, ClaimsSlot} :
         /\ Asks(c, s)
         /\ IF Refusal # "none"
            THEN Fail(c, Refusal) /\ UNCHANGED stage
            ELSE /\ Advance(c, s + 1)
                 /\ UNCHANGED <<failed, events, linkVars>>
    /\ UNCHANGED <<remotes, bootRequested, slot, awaited, syncVars, policyVars,
                   members, claimed, joins>>

(* rpc_check_mechanism with the last part of the session ticket.            *)
CheckMechanism(c) ==
    /\ Asks(c, Mechanism)
    /\ \/ /\ Refusal # "none"
          /\ Fail(c, Refusal) /\ UNCHANGED stage
       \/ /\ Refusal = "none"
          /\ \E why \in {"rejected", "error"} : Fail(c, why)
          /\ UNCHANGED stage
       \/ /\ Refusal = "none"
          /\ Advance(c, ClaimsSlot) /\ UNCHANGED <<failed, events, linkVars>>
    /\ UNCHANGED <<remotes, bootRequested, slot, awaited, syncVars, policyVars,
                   members, claimed, joins>>

(* rpc_connection_booted: the reply waits until the host is installed.      *)
ConnectionBooted(c) ==
    /\ Asks(c, Booted) /\ c \notin bootRequested
    /\ IF installed
       THEN Advance(c, MasterItems) /\ UNCHANGED bootRequested
       ELSE bootRequested' = bootRequested \union {c} /\ UNCHANGED stage
    /\ UNCHANGED <<remotes, failed, slot, awaited, syncVars, policyVars, linkVars,
                   events, members, claimed, joins>>

RequestMasterItems(c) ==
    /\ Asks(c, MasterItems)
    /\ \/ Fail(c, "error") /\ UNCHANGED stage
       \/ Advance(c, HostType) /\ UNCHANGED <<failed, events, linkVars>>
    /\ UNCHANGED <<remotes, bootRequested, slot, awaited, syncVars, policyVars,
                   members, claimed, joins>>

PlainRequest(c) ==
    /\ \E s \in PlainStages : Asks(c, s) /\ Advance(c, s + 1)
    /\ UNCHANGED <<remotes, failed, bootRequested, slot, awaited, syncVars,
                   policyVars, linkVars, events, members, claimed, joins>>

(* rpc_sync_local_players: the slot is claimed and sent before the client's *)
(* statistics are installed, which may fail.                                *)
SyncLocalPlayers(c) ==
    /\ Asks(c, LocalPlayers)
    /\ \/ /\ Fail(c, "rejected")
          /\ UNCHANGED <<stage, slot, claimed>>
       \/ /\ claimed # Slots
          /\ slot' = [slot EXCEPT ![c] = CHOOSE s \in Slots \ claimed : TRUE]
          /\ claimed' = claimed \union {slot'[c]}
          /\ \/ Fail(c, "rejected") /\ UNCHANGED stage
             \/ Advance(c, TickRate) /\ UNCHANGED <<failed, events, linkVars>>
    /\ UNCHANGED <<remotes, bootRequested, awaited, syncVars, policyVars, members,
                   joins>>

(* rpc_ready_to_receive_local_profiles: the client receives its own profile,*)
(* the host's and those of the connected clients.                           *)
RequestProfiles(c) ==
    /\ Asks(c, Profiles) /\ awaited[c] = {}
    /\ awaited' = [awaited EXCEPT ![c] = {c, Host} \union Connected]
    /\ running' = running \union {<<c, s>> : s \in awaited'[c]}
    /\ UNCHANGED <<remotes, stage, failed, bootRequested, slot, peerSyncs, told,
                   policyVars, linkVars, events, members, claimed, joins>>

(* rpc_sync_stat_version: the versions match, or the client has to repeat.  *)
SyncStatVersion(c) ==
    /\ Asks(c, Stats)
    /\ Advance(c, MechanismConnected)
    /\ UNCHANGED <<remotes, failed, bootRequested, slot, awaited, syncVars,
                   policyVars, linkVars, events, members, claimed, joins>>

(* Mutant: only the new client hears of the others.                         *)
ConnectedUnannounced(c) ==
    /\ Asks(c, Entering)
    /\ Advance(c, Complete)
    /\ told' = [told EXCEPT ![c] = Connected]
    /\ Queue("connected", c)
    /\ UNCHANGED <<remotes, failed, bootRequested, slot, awaited, peerSyncs,
                   running, policyVars, linkVars, members, claimed, joins>>

(* rpc_client_entered_connected_state and remote_connected: the client is   *)
(* told of the connected ones at once, they when they have its profile.     *)
EnterConnected(c) ==
    /\ Asks(c, Entering)
    /\ Advance(c, Complete)
    /\ told' = [told EXCEPT ![c] = Connected]
    /\ peerSyncs' = peerSyncs \union {<<d, c>> : d \in Connected}
    /\ running' = running \union {<<d, c>> : d \in Connected}
    /\ Queue("connected", c)
    /\ UNCHANGED <<remotes, failed, bootRequested, slot, awaited, policyVars,
                   linkVars, members, claimed, joins>>

-----------------------------------------------------------------------------
(* What a frame of the host does.                                           *)

(* _finish_profile_sync, when the synchronizer has sent s's profile to t.   *)
SyncCompletes(t, s) ==
    /\ <<t, s>> \in running
    /\ running' = running \ {<<t, s>>}
    /\ IF s \in awaited[t]
       THEN /\ awaited' = [awaited EXCEPT ![t] = @ \ {s}]
            /\ stage' = IF awaited'[t] = {} THEN [stage EXCEPT ![t] = Dlc]
                        ELSE stage
            /\ UNCHANGED <<peerSyncs, told>>
       ELSE /\ IF <<t, s>> \in peerSyncs
               THEN /\ told' = [told EXCEPT ![t] = @ \union {s}]
                    /\ peerSyncs' = peerSyncs \ {<<t, s>>}
               ELSE UNCHANGED <<told, peerSyncs>>
            /\ UNCHANGED <<awaited, stage>>
    /\ UNCHANGED <<remotes, failed, bootRequested, slot, policyVars, linkVars,
                   events, members, claimed, joins>>

(* RemoteConnection.update.                                                 *)
NoticesClosedChannel(c) ==
    /\ c \in remotes \ failed /\ link[c] = "closed"
    /\ RecordFailure(c)
    /\ UNCHANGED <<remotes, stage, bootRequested, slot, awaited, syncVars,
                   policyVars, linkVars, members, claimed, joins>>

(* Mutant: a stage without a time limit.                                    *)
TimesOutUnlessClaiming(c) ==
    /\ c \in remotes \ failed /\ link[c] = "open"
    /\ stage[c] < Complete /\ stage[c] # ClaimsSlot
    /\ Fail(c, "timeout")
    /\ UNCHANGED <<remotes, stage, bootRequested, slot, awaited, syncVars,
                   policyVars, members, claimed, joins>>

(* RemoteConnection.update, when the client has kept a stage for too long.  *)
TimesOut(c) ==
    /\ c \in remotes \ failed /\ link[c] = "open"
    /\ stage[c] < Complete
    /\ Fail(c, "timeout")
    /\ UNCHANGED <<remotes, stage, bootRequested, slot, awaited, syncVars,
                   policyVars, members, claimed, joins>>

AnswersBooted(c) ==
    /\ c \in bootRequested \ failed /\ link[c] = "open" /\ installed
    /\ bootRequested' = bootRequested \ {c}
    /\ Advance(c, MasterItems)
    /\ UNCHANGED <<remotes, failed, slot, awaited, syncVars, policyVars, linkVars,
                   events, members, claimed, joins>>

(* _close_pending_channels.                                                 *)
ClosePendingChannel(c) ==
    /\ c \in closing
    /\ closing' = closing \ {c}
    /\ link' = [link EXCEPT ![c] = "closed"]
    /\ UNCHANGED <<remoteVars, syncVars, policyVars, reason, events, members,
                   claimed, joins>>

(* Mutant: the slot of a client that has not connected stays claimed.       *)
ReleaseIfMember(c) == claimed' = IF c \in members THEN claimed \ {slot[c]} ELSE claimed

(* _destroy_remote releases the slot of a connection that was not           *)
(* completed; the players of a completed one are the engine's to remove.    *)
ReleaseSlot(c) ==
    claimed' = IF stage[c] < Complete \/ c \in members THEN claimed \ {slot[c]}
               ELSE claimed

(* _destroy_remote: the connected clients hear that c has left, and nothing *)
(* is sent to c any more.  A profile of c's that is being sent is sent to   *)
(* its end (core/profile_updates.lua:322).                                  *)
ForgetSyncs(c) ==
    /\ told' = [d \in Clients |->
                  IF d = c THEN {}
                  ELSE IF stage[c] = Complete /\ d \in Connected THEN told[d] \ {c}
                  ELSE told[d]]
    /\ peerSyncs' = {p \in peerSyncs : p[1] # c /\ p[2] # c}
    /\ running' = {p \in running : p[1] # c}

(* The ConnectionManager's handling of the host's next event.               *)
PlayerConnects(c) ==
    /\ members' = members \union {c}
    /\ UNCHANGED <<remoteVars, syncVars, claimed>>

PlayerDisconnects(c) ==
    /\ ForgetSyncs(c) /\ ReleaseSlot(c)
    /\ members' = members \ {c}
    /\ remotes' = remotes \ {c} /\ failed' = failed \ {c}
    /\ bootRequested' = bootRequested \ {c}
    /\ stage' = [stage EXCEPT ![c] = Version]
    /\ slot' = [slot EXCEPT ![c] = NoSlot]
    /\ awaited' = [awaited EXCEPT ![c] = {}]

NextEvent ==
    /\ events # <<>>
    /\ events' = Tail(events)
    /\ LET e == Head(events)
       IN  \/ e.name = "connected" /\ PlayerConnects(e.peer)
           \/ e.name = "disconnected" /\ PlayerDisconnects(e.peer)
    /\ UNCHANGED <<policyVars, linkVars, joins>>

(* Nobody is there and nothing is left to do.                               *)
IdleFrame == remotes = {} /\ events = <<>> /\ UNCHANGED vars

-----------------------------------------------------------------------------
(* Users, settings and the network.                                         *)

(* The host kicks a player, or SessionControl rejects what it sent.         *)
Kick(c) ==
    /\ c \in Connected
    /\ Reject(c, "kicked")
    /\ UNCHANGED <<remoteVars, syncVars, policyVars, events, members, claimed,
                   joins>>

(* The client leaves, or the network loses it.                              *)
ChannelCloses(c) ==
    /\ link[c] = "open"
    /\ link' = [link EXCEPT ![c] = "closed"]
    /\ UNCHANGED <<remoteVars, syncVars, policyVars, closing, reason, events,
                   members, claimed, joins>>

(* set_admission_policy.                                                    *)
SetAdmissionPolicy(l, open) ==
    /\ changes < MaxChanges
    /\ changes' = changes + 1
    /\ limit' = l
    /\ accepting' = (open /\ ~relayFailed)
    /\ UNCHANGED <<remoteVars, syncVars, relayFailed, installed, linkVars, events,
                   members, claimed, joins>>

(* _poll_native_events: the relay has failed for good.                      *)
RelayFails ==
    /\ ~relayFailed
    /\ relayFailed' = TRUE /\ accepting' = FALSE
    /\ UNCHANGED <<remoteVars, syncVars, limit, installed, changes, linkVars,
                   events, members, claimed, joins>>

(* register_profile_synchronizer, when the host's own session is set up.    *)
Install ==
    /\ ~installed
    /\ installed' = TRUE
    /\ UNCHANGED <<remoteVars, syncVars, limit, accepting, relayFailed, changes,
                   linkVars, events, members, claimed, joins>>

-----------------------------------------------------------------------------
Requests(c) ==
    \/ CheckAdmission(c)
    \/ ConnectionBooted(c)
    \/ RequestMasterItems(c)
    \/ CheckMechanism(c)
    \/ PlainRequest(c)
    \/ SyncLocalPlayers(c)
    \/ RequestProfiles(c)
    \/ SyncStatVersion(c)
    \/ EnterConnected(c)

Frame(c) ==
    \/ NoticesClosedChannel(c)
    \/ TimesOut(c)
    \/ AnswersBooted(c)
    \/ ClosePendingChannel(c)
    \/ \E s \in Peers : SyncCompletes(c, s)

Next ==
    \/ \E c \in Clients :
         ApproveChannel(c) \/ Requests(c) \/ Frame(c) \/ Kick(c) \/ ChannelCloses(c)
    \/ NextEvent
    \/ IdleFrame
    \/ \E l \in Limits, open \in BOOLEAN : SetAdmissionPolicy(l, open)
    \/ RelayFails
    \/ Install

Spec == Init /\ [][Next]_vars

(* The host keeps running frames, the engine's synchronizer finishes what   *)
(* it sends, and events are handled.  Clients may stop at any stage: then   *)
(* the stage's time limit is all there is.                                  *)
Fairness ==
    /\ WF_vars(NextEvent)
    /\ \A c \in Clients :
         /\ WF_vars(NoticesClosedChannel(c))
         /\ WF_vars(TimesOut(c))
         /\ WF_vars(ClosePendingChannel(c))
         /\ \A s \in Peers : WF_vars(SyncCompletes(c, s))

FairSpec == Spec /\ Fairness

-----------------------------------------------------------------------------
(* Properties.                                                              *)

(* Every claimed slot belongs to exactly one connection the host knows:     *)
(* whichever of two owners must release it when a client goes at whatever   *)
(* stage, none is lost and none is given away twice.                        *)
SlotsAreOwned ==
    /\ claimed = {slot[c] : c \in remotes} \ {NoSlot}
    /\ \A c, d \in remotes : c # d /\ slot[c] # NoSlot => slot[c] # slot[d]

(* Of two connected players each was told of the other or is about to be:   *)
(* the profile it waits for is on its way.  Nobody is told of a player who  *)
(* has gone.  (remote_connected, _finish_profile_sync and _destroy_remote,  *)
(* in whatever order clients connect, leave and come back.)                 *)
Introduced(d, c) ==
    \/ c \in told[d]
    \/ <<d, c>> \in peerSyncs /\ <<d, c>> \in running

PlayersAreIntroduced ==
    /\ \A c, d \in Connected : c # d => Introduced(d, c)
    /\ \A d \in Clients : told[d] \subseteq Connected \ {d}

(* The engine keeps no player whose connection the host has forgotten.      *)
MembersAreConnected == members \subseteq Connected

(* A connection only moves forward: a profile that arrives late never puts  *)
(* it back into an earlier stage (initial_profile_sync_completed advances   *)
(* without looking at the stage).                                           *)
StagesOnlyAdvance ==
    [][\A c \in remotes \intersect remotes' : stage'[c] >= stage[c]]_vars

(* The party, the host included, never grows beyond the limit of the        *)
(* moment, however many clients are being admitted at once and however the  *)
(* limit changes meanwhile.                                                 *)
PartyFitsLimit ==
    [][\A c \in Clients :
         c \in Party' \ Party => Cardinality(Party') + 1 <= limit]_vars

(* A player who has connected goes only when its channel has closed: no     *)
(* change of the limit, no refusal and no time limit disconnects it         *)
(* (Realms_localization.lua:81 and 89).                                     *)
ConnectedPlayersStay ==
    [][\A c \in Connected : c \notin remotes' => link[c] = "closed"]_vars

(* Every admission ends: the client has connected, or the host has          *)
(* forgotten the connection and would accept another.                       *)
AdmissionEnds ==
    \A c \in Clients :
      (c \in remotes) ~> (c \notin remotes \/ stage[c] = Complete)

(* Two players who stay connected get to know each other.                   *)
PlayersMeet ==
    \A c, d \in Clients :
      c # d /\ c \in Connected /\ d \in Connected
        ~> (c \in told[d] \/ c \notin Connected \/ d \notin Connected)

(* Nobody who comes in stays half way, and those who stay are introduced.   *)
JoiningEnds == AdmissionEnds /\ PlayersMeet
=============================================================================
