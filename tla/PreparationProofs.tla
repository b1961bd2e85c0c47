-------------------------- MODULE PreparationProofs --------------------------
(***************************************************************************)
(* Proofs about the preparation of a mission (Preparation), for any set of *)
(* clients and missions and any bounds: its types, that it implements the  *)
(* ready barrier, and what its clients see.                                *)
(***************************************************************************)
EXTENDS Preparation, TLAPS, SequenceTheorems

-----------------------------------------------------------------------------
(***************************************************************************)
(* Type correctness of Preparation, for any set of clients and missions    *)
(* and for any bounds.                                                     *)
(***************************************************************************)

-----------------------------------------------------------------------------
(* Types.                                                                   *)

LEMMA SnapshotType ==
    ASSUME HostTypeOK', allow' \in BOOLEAN
    PROVE  Snapshot' \in HostMessages
  BY DEF HostTypeOK, Snapshot, Snapshots, HostMessages

(* What a broadcast leaves in the queues.                                   *)
LEMMA AnnounceType ==
    ASSUME HostTypeOK', allow' \in BOOLEAN,
           NEW STATE queues, queues \in [Clients -> Seq(HostMessages)],
           Announce(queues)
    PROVE  toClient' \in [Clients -> Seq(HostMessages)]
  BY SnapshotType DEF Announce

LEMMA InitType == Init => TypeOK
<1> SUFFICES ASSUME Init PROVE TypeOK
  OBVIOUS
<1>1. HostTypeOK /\ LinkTypeOK
  <2>1. HostTypeOK
    BY DEF Init, HostTypeOK, Phases
  <2>2. /\ <<>> \in Seq(ClientMessages)
        /\ <<>> \in Seq(HostMessages)
    OBVIOUS
  <2> QED
    BY <2>1, <2>2 DEF Init, LinkTypeOK
<1>2. client \in [Clients -> ClientStates] /\ joins \in [Clients -> Nat]
  BY DEF Init, NoClient, ClientStates
<1>3. allow \in BOOLEAN /\ toggles \in Nat
  BY OptionAssumption DEF Init
<1>4. ProfileTypeOK
  BY DEF Init, ProfileInit, ProfileTypeOK, NoPending, NoUpdate, Number
<1> QED
  BY <1>1, <1>2, <1>3, <1>4 DEF TypeOK

(* The operations on profiles.                                              *)
LEMMA RequestedType ==
    ASSUME NEW u \in Number, NEW b \in BOOLEAN
    PROVE  Requested(u, b) \in Number
  BY DEF Number, Requested

LEMMA OutboxType ==
    ASSUME NEW u \in Number
    PROVE  Outbox(u) \in Seq(ClientMessages)
<1> DEFINE notice == IF u.notice # 0
                     THEN <<[type |-> "profile_pending", seq |-> u.notice]>>
                     ELSE <<>>
           rest == IF u.delivery # 0
                   THEN <<[type |-> "profile_update", seq |-> u.delivery]>>
                   ELSE IF u.cancel # 0
                          THEN <<[type |-> "profile_cancel", seq |-> u.cancel]>>
                          ELSE <<>>
<1>1. /\ [type |-> "profile_pending", seq |-> u.notice] \in ClientMessages
      /\ [type |-> "profile_update", seq |-> u.delivery] \in ClientMessages
      /\ [type |-> "profile_cancel", seq |-> u.cancel] \in ClientMessages
  BY DEF Number, ClientMessages
<1>2. notice \in Seq(ClientMessages)
  BY <1>1
<1>3. rest \in Seq(ClientMessages)
  BY <1>1
<1> HIDE DEF notice, rest
<1>4. notice \o rest \in Seq(ClientMessages)
  BY <1>2, <1>3
<1> QED
  BY <1>4 DEF Outbox, notice, rest

LEMMA NumberType ==
    ASSUME NEW u \in Number
    PROVE  /\ Refetched(u) \in Number
           /\ Fetched(u) \in Number
           /\ FetchFailed(u) \in Number
           /\ Discarded(u) \in Number
           /\ Flushed(u) \in Number
  BY DEF Number, Refetched, Fetched, FetchFailed, Discarded, Flushed, NoUpdate

LEMMA NoPendingType ==
    /\ NoPending \in [seq : Nat, received : BOOLEAN]
    /\ \A n \in Nat, b \in BOOLEAN :
         Awaiting(n, b) \in [seq : Nat, received : BOOLEAN]
  BY DEF NoPending, Awaiting

LEMMA HostProfileType ==
    ASSUME ProfileTypeOK, HostUpdatesProfile
    PROVE  ProfileTypeOK'
<1> USE DEF ProfileTypeOK, Peers
<1>a. /\ update[Host] \in Number /\ update[Host].seq \in Nat
      /\ [update[Host] EXCEPT !.fetch = 0] \in Number
  BY DEF Number
<1>1. CASE HostChangesLoadout(HostAllowsChanges)
  <2>1. Requested(update[Host], TRUE) \in Number
    BY <1>a, RequestedType
  <2>2. Awaiting(update[Host].seq + 1, FALSE) \in [seq : Nat, received : BOOLEAN]
    BY <1>a DEF Awaiting
  <2> QED
    BY <1>1, <2>1, <2>2 DEF HostChangesLoadout
<1>2. CASE HostFetchReturns
  <2>1. update' \in [Peers -> Number]
    BY <1>2, <1>a, NumberType DEF HostFetchReturns
  <2>2. Awaiting(update[Host].seq, TRUE) \in [seq : Nat, received : BOOLEAN]
    BY <1>a DEF Awaiting
  <2>3. CASE IsStale(update[Host])
    BY <1>2, <2>1, <2>3 DEF HostFetchReturns
  <2>4. CASE ~IsStale(update[Host])
    BY <1>2, <1>a, <2>1, <2>2, <2>4 DEF HostFetchReturns, ApplyProfile
  <2> QED
    BY <2>3, <2>4
<1>3. CASE HostFetchFails
  <2>1. update' \in [Peers -> Number]
    BY <1>3, <1>a, NumberType DEF HostFetchFails
  <2>2. pending' \in [Peers -> [seq : Nat, received : BOOLEAN]]
    BY <1>3, NoPendingType DEF HostFetchFails, ClearPending
  <2> QED
    BY <1>3, <2>1, <2>2 DEF HostFetchFails
<1>4. ASSUME NEW p \in Peers, SynchronizerDone(p)
      PROVE  ProfileTypeOK'
  BY <1>4 DEF SynchronizerDone
<1> QED
  BY <1>1, <1>2, <1>3, <1>4 DEF HostUpdatesProfile

LEMMA FrameProfileType ==
    ASSUME ProfileTypeOK, NEW STATE b, UpdateHostProfiles(b)
    PROVE  ProfileTypeOK'
<1> USE DEF ProfileTypeOK, Peers
<1>1. pending' \in [Peers -> [seq : Nat, received : BOOLEAN]]
  BY NoPendingType DEF UpdateHostProfiles
<1>2. Discarded(update[Host]) \in Number
  BY NumberType
<1>3. update' \in [Peers -> Number]
  BY <1>2 DEF UpdateHostProfiles
<1> QED
  BY <1>1, <1>3 DEF UpdateHostProfiles

LEMMA ReceiveProfileType ==
    ASSUME ProfileTypeOK, NEW c \in Clients,
           NEW msg \in ClientMessages,
           msg.type \in {"profile_pending", "profile_update", "profile_cancel"},
           ReceiveProfile(c, msg)
    PROVE  ProfileTypeOK' /\ (kicked \subseteq Clients => kicked' \subseteq Clients)
<1> USE DEF ProfileTypeOK, Peers
<1>1. msg.seq \in Nat
  BY DEF ClientMessages
<1>2. CASE phase # "waiting"
  BY <1>2 DEF ReceiveProfile, profileVars
<1>3. CASE ReceivePending(c, msg.seq, HostAllowsChanges) /\ UNCHANGED kicked
  <2>1. pending' \in [Peers -> [seq : Nat, received : BOOLEAN]]
    BY <1>1, <1>3, NoPendingType DEF ReceivePending, RefuseChange
  <2>2. latest' \in [Peers -> Nat]
    BY <1>1, <1>3 DEF ReceivePending, RefuseChange
  <2> QED
    BY <1>3, <2>1, <2>2 DEF ReceivePending, RefuseChange
<1>4. CASE ReceiveUpdate(c, msg.seq, HostAllowsChanges) /\ UNCHANGED kicked
  <2>1. pending' \in [Peers -> [seq : Nat, received : BOOLEAN]]
    BY ZenonT(60), <1>1, <1>4, NoPendingType DEF ReceiveUpdate, RefuseChange, ApplyProfile
  <2>2. latest' \in [Peers -> Nat] /\ applied' \in [Peers -> Nat]
    BY <1>1, <1>4 DEF ReceiveUpdate, RefuseChange, ApplyProfile
  <2>3. unsynced' \subseteq Peers
    BY <1>4 DEF ReceiveUpdate, RefuseChange, ApplyProfile
  <2> QED
    BY <1>4, <2>1, <2>2, <2>3 DEF ReceiveUpdate
<1>5. CASE /\ ReceiveCancel(c, msg.seq)
           /\ kicked' = IF IsUnannouncedCancel(c, msg.seq)
                        THEN kicked \union {c} ELSE kicked
  <2>1. pending' \in [Peers -> [seq : Nat, received : BOOLEAN]]
    BY <1>5, NoPendingType DEF ReceiveCancel, ClearPending
  <2> QED
    BY <1>5, <2>1 DEF ReceiveCancel
<1> QED
  BY <1>2, <1>3, <1>4, <1>5 DEF ReceiveProfile

LEMMA PostProfileType ==
    ASSUME TypeOK, NEW c \in Clients, NEW u \in Number, PostProfile(c, u)
    PROVE  /\ update' \in [Peers -> Number]
           /\ toHost' \in [Clients -> Seq(ClientMessages)]
<1> USE DEF TypeOK, ProfileTypeOK, LinkTypeOK, Peers
<1>1. Flushed(u) \in Number /\ Outbox(u) \in Seq(ClientMessages)
  BY NumberType, OutboxType
<1>2. update' \in [Peers -> Number]
  BY <1>1 DEF PostProfile
<1>3. toHost[c] \o Outbox(u) \in Seq(ClientMessages)
  BY <1>1
<1> QED
  BY <1>2, <1>3 DEF PostProfile

(* The steps of the host.                                                   *)
LEMMA ConfigureType ==
    ASSUME TypeOK, NEW m \in Missions, ConfigureMission(m), allow' \in BOOLEAN
    PROVE  HostTypeOK' /\ LinkTypeOK'
<1> USE DEF TypeOK
<1>1. HostTypeOK'
  <2>1. phase' \in Phases /\ members' \subseteq Peers
    BY DEF ConfigureMission, Connected, Peers, Phases
  <2>2. finalizing' \in BOOLEAN
    BY Zenon DEF ConfigureMission
  <2> QED
    BY <2>1, <2>2 DEF ConfigureMission, HostTypeOK
<1>2. toClient' \in [Clients -> Seq(HostMessages)]
  BY <1>1, AnnounceType DEF ConfigureMission, LinkTypeOK
<1> QED
  BY <1>1, <1>2 DEF ConfigureMission, LinkTypeOK

LEMMA SetReadyType ==
    ASSUME TypeOK, NEW p \in Peers, NEW STATE value, SetHostReady(p, value),
           allow' \in BOOLEAN
    PROVE  HostTypeOK' /\ toClient' \in [Clients -> Seq(HostMessages)]
<1> USE DEF TypeOK
<1>1. HostTypeOK'
  BY DEF SetHostReady, HostTypeOK, CountdownFor, hostVars
<1> QED
  BY <1>1, AnnounceType DEF SetHostReady, LinkTypeOK

LEMMA HostFrameType ==
    ASSUME TypeOK, HostFrame
    PROVE  TypeOK'
<1> USE DEF TypeOK
<1>1. HostTypeOK' /\ toClient' \in [Clients -> Seq(HostMessages)]
  <2>1. CASE BeginFinalizing
    <3>1. HostTypeOK'
      BY <2>1 DEF BeginFinalizing, HostTypeOK
    <3> QED
      BY <2>1, <3>1, AnnounceType DEF HostFrame, BeginFinalizing, LinkTypeOK, optionVars
  <2>2. CASE StartMission
    <3>1. finalizing' \in BOOLEAN
      BY <2>2, Zenon DEF StartMission
    <3>2. HostTypeOK'
      BY <2>2, <3>1 DEF StartMission, HostTypeOK, Phases
    <3> QED
      BY <2>2, <3>2, AnnounceType DEF HostFrame, StartMission, LinkTypeOK, optionVars
  <2>3. CASE PreparationIdle
    BY <2>3 DEF PreparationIdle, HostTypeOK, LinkTypeOK, hostVars
  <2> QED
    BY <2>1, <2>2, <2>3 DEF HostFrame
<1>2. ProfileTypeOK'
  BY FrameProfileType DEF HostFrame
<1> QED
  BY <1>1, <1>2 DEF HostFrame, LinkTypeOK, clientVars, optionVars

LEMMA HostType ==
    ASSUME TypeOK, HostNext
    PROVE  TypeOK'
<1> USE DEF TypeOK
<1>1. CASE HostBootStarted
  BY <1>1 DEF HostBootStarted, HostTypeOK, LinkTypeOK, ProfileTypeOK, Phases,
              linkVars, clientVars, optionVars, profileVars
<1>2. ASSUME NEW m \in Missions, HostMechanismConfigured(m) \/ HostTransition(m)
      PROVE  TypeOK'
  BY <1>2, ConfigureType
  DEF HostMechanismConfigured, HostTransition, ProfileTypeOK, clientVars,
      optionVars, profileVars
<1>3. CASE HostStops
  <2>1. ProfileTypeOK'
    BY <1>3, NoPendingType
    DEF HostStops, ProfileTypeOK, Peers, NoUpdate, Number
  <2> QED
    BY <1>3, <2>1 DEF HostStops, HostTypeOK, LinkTypeOK, Phases, linkVars,
                      clientVars, optionVars
<1>4. CASE ServerSettingsChanged
  <2>1. HostTypeOK' /\ allow' \in BOOLEAN
    BY <1>4 DEF ServerSettingsChanged, HostTypeOK
  <2>2. toClient' \in [Clients -> Seq(HostMessages)]
    BY <1>4, <2>1, AnnounceType DEF ServerSettingsChanged, LinkTypeOK
  <2> QED
    BY <1>4, <2>1, <2>2 DEF ServerSettingsChanged, LinkTypeOK, ProfileTypeOK,
                            clientVars, profileVars
<1>5. CASE HostPressesReady
  <2>1. HostTypeOK' /\ toClient' \in [Clients -> Seq(HostMessages)]
    BY <1>5, SetReadyType DEF HostPressesReady, optionVars, Peers
  <2> QED
    BY <1>5, <2>1 DEF HostPressesReady, LinkTypeOK, ProfileTypeOK, clientVars,
                      optionVars, profileVars
<1>6. CASE CountdownElapses
  BY <1>6 DEF CountdownElapses, HostTypeOK, LinkTypeOK, ProfileTypeOK, linkVars,
              clientVars, optionVars, profileVars
<1>7. CASE HostFrame
  BY <1>7, HostFrameType
<1>8. CASE HostUpdatesProfile
  BY <1>8, HostProfileType DEF HostUpdatesProfile, HostTypeOK, LinkTypeOK,
                               hostVars, linkVars, clientVars, optionVars
<1> QED
  BY <1>1, <1>2, <1>3, <1>4, <1>5, <1>6, <1>7, <1>8 DEF HostNext

(* The steps of a client, and what the host receives from it.               *)
LEMMA HostReceivesType ==
    ASSUME TypeOK, NEW c \in Clients, HostReceives(c)
    PROVE  TypeOK'
<1> USE DEF TypeOK
<1> DEFINE msg == Head(toHost[c])
<1>1. /\ msg \in ClientMessages
      /\ toHost' \in [Clients -> Seq(ClientMessages)]
      /\ allow' \in BOOLEAN
  BY DEF HostReceives, Pop, LinkTypeOK, optionVars
<1>2. CASE RemoteConnected(c)
  <2>1. HostTypeOK' /\ channel' \in [Clients -> {"none", "registered", "ready"}]
    BY <1>2 DEF RemoteConnected, HostTypeOK, LinkTypeOK, CountdownFor, Peers,
                hostVars
  <2>2. toClient' \in [Clients -> Seq(HostMessages)]
    BY <1>1, <1>2, <2>1, AnnounceType DEF RemoteConnected, LinkTypeOK
  <2>3. ProfileTypeOK'
    BY <1>2 DEF RemoteConnected, ProfileTypeOK, profileVars
  <2> QED
    BY <1>1, <1>2, <2>1, <2>2, <2>3
    DEF HostReceives, RemoteConnected, LinkTypeOK, clientVars, optionVars
<1>3. CASE ChannelHello(c) \/ ReceiveHello(c)
  <2>1. HostTypeOK' /\ ProfileTypeOK'
    BY <1>3 DEF ChannelHello, ReceiveHello, HostTypeOK, ProfileTypeOK, hostVars,
                profileVars
  <2>2. Snapshot \in HostMessages /\ [type |-> "channel_ready"] \in HostMessages
    BY DEF Snapshot, Snapshots, HostMessages, HostTypeOK
  <2>3. toClient' \in [Clients -> Seq(HostMessages)]
    <3>1. /\ <<[type |-> "channel_ready"]>> \in Seq(HostMessages)
          /\ (IF phase \in {"waiting", "started"} THEN <<Snapshot>> ELSE <<>>)
               \in Seq(HostMessages)
          /\ toClient[c] \in Seq(HostMessages)
      BY <2>2 DEF LinkTypeOK
    <3>2. (toClient[c] \o <<[type |-> "channel_ready"]>>)
             \o (IF phase \in {"waiting", "started"} THEN <<Snapshot>> ELSE <<>>)
            \in Seq(HostMessages)
      BY <3>1
    <3>3. CASE ChannelHello(c)
      BY <3>2, <3>3 DEF ChannelHello, LinkTypeOK
    <3>4. CASE ReceiveHello(c)
      BY <2>2, <3>4 DEF ReceiveHello, LinkTypeOK
    <3> QED
      BY <1>3, <3>3, <3>4
  <2> QED
    BY <1>1, <1>3, <2>1, <2>3
    DEF HostReceives, ChannelHello, ReceiveHello, LinkTypeOK, clientVars,
        optionVars
<1>4. CASE ReceiveReady(c, msg.value)
  <2>1. HostTypeOK' /\ toClient' \in [Clients -> Seq(HostMessages)]
    BY <1>1, <1>4, SetReadyType
    DEF ReceiveReady, Peers, HostTypeOK, LinkTypeOK, hostVars
  <2> QED
    BY <1>1, <1>4, <2>1 DEF HostReceives, ReceiveReady, LinkTypeOK, ProfileTypeOK,
                            clientVars, optionVars, profileVars
<1>5. CASE /\ msg.type \in {"profile_pending", "profile_update", "profile_cancel"}
           /\ ReceiveProfile(c, msg)
  <2>1. ProfileTypeOK' /\ kicked' \subseteq Clients
    BY <1>1, <1>5, ReceiveProfileType DEF LinkTypeOK
  <2> QED
    BY <1>1, <1>5, <2>1 DEF HostReceives, ReceiveProfile, HostTypeOK, LinkTypeOK,
                            hostVars, clientVars, optionVars
<1> QED
  BY <1>2, <1>3, <1>4, <1>5 DEF HostReceives

LEMMA DisconnectType ==
    ASSUME TypeOK, NEW c \in Clients, Disconnect(c)
    PROVE  TypeOK'
<1> USE DEF TypeOK
<1>1. /\ client' \in [Clients -> ClientStates]
      /\ channel' \in [Clients -> {"none", "registered", "ready"}]
      /\ kicked' \subseteq Clients
      /\ toHost' \in [Clients -> Seq(ClientMessages)]
      /\ allow' \in BOOLEAN
  <2>1. NoClient \in ClientStates /\ <<>> \in Seq(ClientMessages)
    BY DEF NoClient, ClientStates
  <2> QED
    BY <2>1 DEF Disconnect, LinkTypeOK, optionVars
<1>2. ProfileTypeOK'
  <2>1. NoUpdate \in Number
    BY DEF NoUpdate, Number
  <2>2. CASE ForgetPeer(c)
    BY <2>1, <2>2, NoPendingType DEF Disconnect, ProfileTypeOK, Peers, ForgetPeer
  <2>3. CASE RemovePlayer(c)
    BY <2>1, <2>3, NoPendingType DEF Disconnect, ProfileTypeOK, Peers, RemovePlayer
  <2> QED
    BY <2>2, <2>3 DEF Disconnect, RemoteDisconnected
<1>3. HostTypeOK' /\ toClient' \in [Clients -> Seq(HostMessages)]
  <2>1. [toClient EXCEPT ![c] = <<>>] \in [Clients -> Seq(HostMessages)]
    BY DEF LinkTypeOK
  <2>2. CASE RemoteDisconnected(c) /\ c \in members
    <3>1. HostTypeOK'
      BY <2>2 DEF RemoteDisconnected, HostTypeOK, CountdownFor
    <3> QED
      BY <1>1, <2>1, <2>2, <3>1, AnnounceType DEF RemoteDisconnected
  <2>3. CASE UNCHANGED hostVars /\ toClient' = [toClient EXCEPT ![c] = <<>>]
    BY <2>1, <2>3 DEF HostTypeOK, hostVars
  <2> QED
    BY <2>2, <2>3 DEF Disconnect, RemoteDisconnected
<1> QED
  BY <1>1, <1>2, <1>3 DEF Disconnect, LinkTypeOK, optionVars

(* The records the steps of a client build.                                 *)
LEMMA ClientRecordType ==
    /\ NoClient \in ClientStates
    /\ \A cl \in ClientStates : \A b \in BOOLEAN :
         /\ [cl EXCEPT !.available = TRUE, !.hello = b] \in ClientStates
         /\ [cl EXCEPT !.hello = b] \in ClientStates
    /\ \A cl \in ClientStates : \A ph \in {"waiting", "started"} :
         [cl EXCEPT !.conn = "in", !.phase = ph] \in ClientStates
    /\ \A x \in {"preparing", "started"} : \A m \in Missions \union {NoMission} :
         [NoClient EXCEPT !.conn = "joining", !.context = x, !.mission = m]
            \in ClientStates
    /\ \A cl \in ClientStates : \A s \in Snapshots : Viewed(cl, s) \in ClientStates
<1>1. NoClient \in ClientStates
  BY DEF NoClient, ClientStates
<1>2. \A cl \in ClientStates : \A b \in BOOLEAN :
        /\ [cl EXCEPT !.available = TRUE, !.hello = b] \in ClientStates
        /\ [cl EXCEPT !.hello = b] \in ClientStates
  BY DEF ClientStates
<1>3. \A cl \in ClientStates : \A ph \in {"waiting", "started"} :
        [cl EXCEPT !.conn = "in", !.phase = ph] \in ClientStates
  BY DEF ClientStates
<1>4. \A x \in {"preparing", "started"} : \A m \in Missions \union {NoMission} :
        [NoClient EXCEPT !.conn = "joining", !.context = x, !.mission = m]
           \in ClientStates
  BY <1>1 DEF ClientStates
<1>5. ASSUME NEW cl \in ClientStates, NEW s \in Snapshots
      PROVE  Viewed(cl, s) \in ClientStates
  <2>1. (s.finalizing /\ ~s.started) \in BOOLEAN
    OBVIOUS
  <2>2. (IF s.started THEN "started" ELSE "waiting") \in {"inactive", "waiting", "started"}
    OBVIOUS
  <2>3. /\ s.revision \in Nat /\ s.mission \in Missions \union {NoMission}
        /\ s.ready \in SUBSET Peers /\ s.allow \in BOOLEAN
    BY DEF Snapshots
  <2> QED
    BY <2>1, <2>2, <2>3 DEF Viewed, ClientStates
<1> QED
  BY <1>1, <1>2, <1>3, <1>4, <1>5

LEMMA ClientReceivesType ==
    ASSUME TypeOK, NEW c \in Clients, ClientReceives(c)
    PROVE  TypeOK'
<1> USE DEF TypeOK
<1> DEFINE msg == Head(toClient[c])
<1>1. /\ msg \in HostMessages
      /\ toClient' \in [Clients -> Seq(HostMessages)]
  BY DEF ClientReceives, LinkTypeOK
<1>2. CASE ClientChannelReady(c)
  <2>1. client' \in [Clients -> ClientStates]
    <3>1. (client[c].phase = "waiting") \in BOOLEAN
      OBVIOUS
    <3> QED
      BY <1>2, <3>1, ClientRecordType DEF ClientChannelReady
  <2>2. [type |-> "hello"] \in ClientMessages
    BY DEF ClientMessages
  <2>3. toHost' \in [Clients -> Seq(ClientMessages)]
    BY <1>2, <2>2 DEF ClientChannelReady, LinkTypeOK
  <2> QED
    BY <1>1, <2>1, <2>3 DEF ClientReceives, HostTypeOK, LinkTypeOK, ProfileTypeOK,
                            hostVars, optionVars, profileVars
<1>3. CASE msg.type = "snapshot" /\ ClientSnapshot(c, msg)
  <2>1. msg \in Snapshots
    BY <1>1, <1>3 DEF HostMessages
  <2>2. Viewed(client[c], msg) \in ClientStates
    BY <2>1, ClientRecordType
  <2>3. client' \in [Clients -> ClientStates]
    BY <1>3, <2>2 DEF ClientSnapshot
  <2> QED
    BY <1>1, <1>3, <2>3 DEF ClientReceives, ClientSnapshot, HostTypeOK, LinkTypeOK,
                            ProfileTypeOK, hostVars, optionVars, profileVars
<1> QED
  BY <1>2, <1>3 DEF ClientReceives

LEMMA ClientFrameType ==
    ASSUME TypeOK, NEW c \in Clients, ClientFrame(c)
    PROVE  TypeOK'
<1> USE DEF TypeOK
<1>1. update[c] \in Number
  BY DEF ProfileTypeOK, Peers
<1>2. /\ Outbox(update[c]) \in Seq(ClientMessages)
      /\ Discarded(update[c]) \in Number
      /\ Flushed(update[c]) \in Number
      /\ toHost[c] \in Seq(ClientMessages)
      /\ <<>> \in Seq(ClientMessages)
      /\ [type |-> "hello"] \in ClientMessages
  BY <1>1, OutboxType, NumberType DEF LinkTypeOK, ClientMessages
<1>3. client' \in [Clients -> ClientStates]
  <2>1. (client[c].hello \/ (ClientCanSend(c) /\ ~client[c].hello)) \in BOOLEAN
    OBVIOUS
  <2> QED
    BY <2>1, ClientRecordType DEF ClientFrame
<1>4. update' \in [Peers -> Number]
  BY <1>1, <1>2 DEF ClientFrame, ProfileTypeOK
<1>5. toHost' \in [Clients -> Seq(ClientMessages)]
  <2>1. Append(toHost[c], [type |-> "hello"]) \in Seq(ClientMessages)
    BY <1>2
  <2>2. PICK a \in Seq(ClientMessages), b \in Seq(ClientMessages) :
          toHost' = [toHost EXCEPT ![c] = a \o b]
    BY <1>2, <2>1 DEF ClientFrame
  <2> QED
    BY <2>2 DEF LinkTypeOK
<1> QED
  BY <1>3, <1>4, <1>5 DEF ClientFrame, HostTypeOK, LinkTypeOK, ProfileTypeOK,
                          hostVars, optionVars

LEMMA ClientProfileType ==
    ASSUME TypeOK, NEW c \in Clients,
           ClientChangesLoadout(c) \/ ClientFetchReturns(c) \/ ClientFetchFails(c)
    PROVE  TypeOK'
<1> USE DEF TypeOK
<1>1. update[c] \in Number
  BY DEF ProfileTypeOK, Peers
<1>2. /\ Requested(update[c], FALSE) \in Number
      /\ Refetched(update[c]) \in Number
      /\ Fetched(update[c]) \in Number
      /\ FetchFailed(update[c]) \in Number
  BY <1>1, RequestedType, NumberType
<1>3. /\ update' \in [Peers -> Number]
      /\ toHost' \in [Clients -> Seq(ClientMessages)]
  <2>1. CASE ClientChangesLoadout(c)
    BY <1>2, <2>1, PostProfileType DEF ClientChangesLoadout
  <2>2. CASE ClientFetchReturns(c)
    BY <1>2, <2>2, PostProfileType DEF ClientFetchReturns, ProfileTypeOK, LinkTypeOK
  <2>3. CASE ClientFetchFails(c)
    BY <1>2, <2>3, PostProfileType DEF ClientFetchFails, ProfileTypeOK, LinkTypeOK
  <2> QED
    BY <2>1, <2>2, <2>3
<1> QED
  BY <1>3 DEF ClientChangesLoadout, ClientFetchReturns, ClientFetchFails,
              HostTypeOK, LinkTypeOK, ProfileTypeOK, hostVars, clientVars, optionVars

LEMMA ClientType ==
    ASSUME TypeOK, NEW c \in Clients, ClientNext(c)
    PROVE  TypeOK'
<1> USE DEF TypeOK
<1>1. CASE HostAdmits(c)
  <2>1. client' \in [Clients -> ClientStates] /\ joins' \in [Clients -> Nat]
    <3> DEFINE x == IF phase = "waiting" THEN "preparing" ELSE "started"
    <3>1. x \in {"preparing", "started"} /\ mission \in Missions \union {NoMission}
      BY DEF HostTypeOK
    <3> HIDE DEF x
    <3>2. [NoClient EXCEPT !.conn = "joining", !.context = x, !.mission = mission]
            \in ClientStates
      BY <3>1, ClientRecordType
    <3> QED
      BY <1>1, <3>2 DEF HostAdmits, x
  <2> QED
    BY <1>1, <2>1 DEF HostAdmits, HostTypeOK, LinkTypeOK, ProfileTypeOK, hostVars,
                      linkVars, optionVars, profileVars
<1>2. CASE ClientActivates(c)
  <2>1. client' \in [Clients -> ClientStates]
    BY <1>2, ClientRecordType DEF ClientActivates
  <2>2. Opening \in Seq(ClientMessages)
    BY DEF Opening, ClientMessages
  <2>3. toHost' \in [Clients -> Seq(ClientMessages)]
    BY <1>2, <2>2 DEF ClientActivates, LinkTypeOK
  <2> QED
    BY <1>2, <2>1, <2>3 DEF ClientActivates, HostTypeOK, LinkTypeOK, ProfileTypeOK,
                            hostVars, optionVars, profileVars
<1>3. CASE ClientPressesReady(c)
  <2>1. [type |-> "ready", value |-> c \notin client[c].ready] \in ClientMessages
    BY DEF ClientMessages
  <2>2. toHost' \in [Clients -> Seq(ClientMessages)]
    BY <1>3, <2>1 DEF ClientPressesReady, LinkTypeOK
  <2> QED
    BY <1>3, <2>2 DEF ClientPressesReady, HostTypeOK, LinkTypeOK, ProfileTypeOK,
                      hostVars, clientVars, optionVars, profileVars
<1> QED
  BY <1>1, <1>2, <1>3, HostReceivesType, DisconnectType, ClientReceivesType,
     ClientFrameType, ClientProfileType DEF ClientNext

LEMMA StepType == TypeOK /\ [Next]_vars => TypeOK'
<1> SUFFICES ASSUME TypeOK, [Next]_vars PROVE TypeOK'
  OBVIOUS
<1>1. CASE UNCHANGED vars
  BY <1>1 DEF TypeOK, HostTypeOK, LinkTypeOK, ProfileTypeOK, vars, hostVars,
              linkVars, clientVars, optionVars, profileVars
<1> QED
  BY <1>1, HostType, ClientType DEF Next

(* Every variable keeps its type: readiness is only kept for members, and   *)
(* every message under way is one that its receiver has a handler for.      *)
THEOREM TypeCorrect == Spec => []TypeOK
  BY InitType, StepType, PTL DEF Spec

-----------------------------------------------------------------------------
(***************************************************************************)
(* Preparation implements ReadyBarrier, for any set of clients and         *)
(* missions.  The inductive invariant ties the countdown to the ready      *)
(* flags, the members to the channels, and the channels to the messages    *)
(* on them: a ready message is handled only after the message that made    *)
(* its sender a member.                                                    *)
(***************************************************************************)

BarrierInv ==
    /\ TypeOK
    /\ CountdownMeansAllReady
    /\ MembersAreConnected
    /\ HandshakeComesFirst

LEMMA InitBarrier == Init => BarrierInv
<1> SUFFICES ASSUME Init PROVE BarrierInv
  OBVIOUS
<1>1. TypeOK
  BY InitType
<1>2. CountdownMeansAllReady /\ MembersAreConnected
  BY DEF Init, CountdownMeansAllReady, MembersAreConnected
<1>3. HandshakeComesFirst
  BY DEF Init, HandshakeComesFirst, HandshakeFirst, NoClient
<1> QED
  BY <1>1, <1>2, <1>3 DEF BarrierInv

-----------------------------------------------------------------------------
(* The countdown.                                                           *)

LEMMA CountdownStep ==
    ASSUME TypeOK, CountdownMeansAllReady, Next
    PROVE  CountdownMeansAllReady'
<1> USE DEF TypeOK, HostTypeOK, CountdownMeansAllReady, AllReady
<1>1. CASE UNCHANGED hostVars
  BY <1>1 DEF hostVars
<1>2. CASE HostBootStarted
  BY <1>2 DEF HostBootStarted
<1>3. ASSUME NEW m \in Missions, ConfigureMission(m)
      PROVE  CountdownMeansAllReady'
  <2>1. Host \in Peers
    BY DEF Peers
  <2> QED
    BY <1>3, <2>1 DEF ConfigureMission
<1>4. CASE HostStops
  BY <1>4 DEF HostStops
<1>5. CASE ServerSettingsChanged
  BY <1>5 DEF ServerSettingsChanged
<1>6. ASSUME NEW p \in Peers, NEW STATE value, SetHostReady(p, value)
      PROVE  CountdownMeansAllReady'
  BY <1>6 DEF SetHostReady, CountdownFor, hostVars
<1>7. CASE CountdownElapses
  BY <1>7 DEF CountdownElapses
<1>8. CASE HostFrame
  BY <1>8 DEF HostFrame, BeginFinalizing, StartMission, PreparationIdle, hostVars
<1>9. ASSUME NEW c \in Clients, RemoteConnected(c) \/ RemoteDisconnected(c)
      PROVE  CountdownMeansAllReady'
  BY <1>9 DEF RemoteConnected, RemoteDisconnected, CountdownFor, hostVars
<1>10. ASSUME HostNext PROVE CountdownMeansAllReady'
  BY <1>10, <1>1, <1>2, <1>3, <1>4, <1>5, <1>6, <1>7, <1>8
  DEF HostNext, HostMechanismConfigured, HostTransition, HostPressesReady,
      HostUpdatesProfile, Peers
<1>11. ASSUME NEW c \in Clients, HostReceives(c) PROVE CountdownMeansAllReady'
  BY <1>11, <1>1, <1>6, <1>9
  DEF HostReceives, ChannelHello, ReceiveHello, ReceiveReady, ReceiveProfile, Peers
<1>12. ASSUME NEW c \in Clients, ClientNext(c) PROVE CountdownMeansAllReady'
  BY <1>12, <1>1, <1>9, <1>11
  DEF ClientNext, HostAdmits, ClientActivates, Disconnect, ClientReceives,
      ClientFrame, ClientPressesReady, ClientChangesLoadout, ClientFetchReturns,
      ClientFetchFails
<1> QED
  BY <1>10, <1>12 DEF Next

-----------------------------------------------------------------------------
(* The channels.                                                            *)

(* A broadcast adds nothing to the queue of a channel that is not ready.    *)
LEMMA AnnounceReach ==
    ASSUME NEW STATE queues, Announce(queues), NEW c \in Clients,
           channel'[c] # "ready"
    PROVE  toClient'[c] = queues[c]
  BY DEF Announce

(* Steps of the host that leave the channels alone.                         *)
LEMMA HandshakeKept ==
    ASSUME HandshakeComesFirst, UNCHANGED <<channel, toHost, client>>,
           UNCHANGED toClient \/ Announce(toClient)
    PROVE  HandshakeComesFirst'
  BY AnnounceReach DEF HandshakeComesFirst, HandshakeFirst

LEMMA HandshakeHost ==
    ASSUME HandshakeComesFirst, HostNext
    PROVE  HandshakeComesFirst'
<1>1. UNCHANGED <<channel, toHost, client>>
  BY DEF HostNext, HostBootStarted, HostMechanismConfigured, HostTransition,
         ConfigureMission, HostStops, ServerSettingsChanged, HostPressesReady,
         CountdownElapses, HostFrame, HostUpdatesProfile, linkVars, clientVars
<1>2. UNCHANGED toClient \/ Announce(toClient)
  BY DEF HostNext, HostBootStarted, HostMechanismConfigured, HostTransition,
         ConfigureMission, HostStops, ServerSettingsChanged, HostPressesReady,
         SetHostReady, CountdownElapses, HostFrame, BeginFinalizing, StartMission,
         PreparationIdle, HostUpdatesProfile, linkVars, clientVars
<1> QED
  BY <1>1, <1>2, HandshakeKept

(* A step of one client, or of the host on its channel, leaves the others.  *)
LEMMA HandshakeOfOne ==
    ASSUME HandshakeComesFirst, NEW c \in Clients,
           \A d \in Clients \ {c} :
             /\ channel'[d] = channel[d] /\ toHost'[d] = toHost[d]
             /\ client'[d] = client[d]
             /\ toClient'[d] = toClient[d] \/ channel[d] = "ready",
           HandshakeFirst(c)'
    PROVE  HandshakeComesFirst'
<1> SUFFICES ASSUME NEW d \in Clients PROVE HandshakeFirst(d)'
  BY DEF HandshakeComesFirst
<1>1. CASE d = c
  BY <1>1
<1>2. CASE d # c
  BY <1>2 DEF HandshakeComesFirst, HandshakeFirst
<1> QED
  BY <1>1, <1>2

(* The first message of the host's queue and what remains behind it.        *)
LEMMA TypesAfterPop ==
    ASSUME TypeOK, NEW c \in Clients, toHost[c] # <<>>,
           \A i \in DOMAIN toHost[c] :
             toHost[c][i].type \notin {"entered", "channel_hello"}
    PROVE  /\ Head(toHost[c]).type \notin {"entered", "channel_hello"}
           /\ \A i \in DOMAIN Tail(toHost[c]) :
                Tail(toHost[c])[i].type \notin {"entered", "channel_hello"}
<1>1. toHost[c] \in Seq(ClientMessages)
  BY DEF TypeOK, LinkTypeOK
<1>2. Head(toHost[c]) = toHost[c][1] /\ 1 \in DOMAIN toHost[c]
  BY <1>1
<1>3. ASSUME NEW i \in DOMAIN Tail(toHost[c])
      PROVE  i + 1 \in DOMAIN toHost[c] /\ Tail(toHost[c])[i] = toHost[c][i + 1]
  BY <1>1
<1> QED
  BY <1>2, <1>3

LEMMA TypesAfterAppend ==
    ASSUME NEW s \in Seq(ClientMessages), NEW t \in Seq(ClientMessages),
           \A i \in DOMAIN s : s[i].type \notin {"entered", "channel_hello"},
           \A i \in DOMAIN t : t[i].type \notin {"entered", "channel_hello"}
    PROVE  \A i \in DOMAIN (s \o t) :
             (s \o t)[i].type \notin {"entered", "channel_hello"}
  OBVIOUS

LEMMA OutboxTypes ==
    ASSUME NEW u \in Number
    PROVE  \A i \in DOMAIN Outbox(u) :
             Outbox(u)[i].type \notin {"entered", "channel_hello"}
<1> DEFINE notice == IF u.notice # 0
                     THEN <<[type |-> "profile_pending", seq |-> u.notice]>>
                     ELSE <<>>
           rest == IF u.delivery # 0
                   THEN <<[type |-> "profile_update", seq |-> u.delivery]>>
                   ELSE IF u.cancel # 0
                          THEN <<[type |-> "profile_cancel", seq |-> u.cancel]>>
                          ELSE <<>>
<1>1. /\ notice \in Seq(ClientMessages) /\ rest \in Seq(ClientMessages)
      /\ \A i \in DOMAIN notice : notice[i].type \notin {"entered", "channel_hello"}
      /\ \A i \in DOMAIN rest : rest[i].type \notin {"entered", "channel_hello"}
  <2>1. /\ [type |-> "profile_pending", seq |-> u.notice] \in ClientMessages
        /\ [type |-> "profile_update", seq |-> u.delivery] \in ClientMessages
        /\ [type |-> "profile_cancel", seq |-> u.cancel] \in ClientMessages
    BY DEF Number, ClientMessages
  <2>2. /\ notice \in Seq(ClientMessages)
        /\ \A i \in DOMAIN notice :
             notice[i].type \notin {"entered", "channel_hello"}
    BY <2>1
  <2>3. /\ rest \in Seq(ClientMessages)
        /\ \A i \in DOMAIN rest : rest[i].type \notin {"entered", "channel_hello"}
    <3>1. CASE u.delivery # 0
      BY <2>1, <3>1
    <3>2. CASE u.delivery = 0 /\ u.cancel # 0
      BY <2>1, <3>2
    <3>3. CASE u.delivery = 0 /\ u.cancel = 0
      BY <3>3
    <3> QED
      BY <3>1, <3>2, <3>3
  <2> QED
    BY <2>2, <2>3
<1> HIDE DEF notice, rest
<1>2. \A i \in DOMAIN (notice \o rest) :
         (notice \o rest)[i].type \notin {"entered", "channel_hello"}
  BY <1>1, TypesAfterAppend
<1> QED
  BY <1>2 DEF Outbox, notice, rest

LEMMA HandshakeReceives ==
    ASSUME TypeOK, HandshakeComesFirst, NEW c \in Clients, HostReceives(c)
    PROVE  HandshakeComesFirst'
<1> DEFINE msg == Head(toHost[c])
<1>1. /\ toHost[c] # <<>>
      /\ toHost'[c] = Tail(toHost[c])
      /\ \A d \in Clients \ {c} : toHost'[d] = toHost[d]
      /\ UNCHANGED client
      /\ HandshakeFirst(c)
  BY DEF HostReceives, Pop, TypeOK, LinkTypeOK, clientVars, HandshakeComesFirst
<1>2. client[c].conn = "in" /\ channel[c] \in {"none", "registered", "ready"}
  BY <1>1 DEF HandshakeFirst, TypeOK, LinkTypeOK
<1>3. CASE msg.type = "entered" /\ RemoteConnected(c)
  <2>1. channel[c] = "none" /\ toHost[c] = Opening
    <3>1. channel[c] # "ready"
      BY <1>1, <1>3, TypesAfterPop DEF HandshakeFirst
    <3>2. channel[c] # "registered"
      BY <1>1, <1>3 DEF HandshakeFirst, Opening
    <3> QED
      BY <1>1, <1>2, <3>1, <3>2 DEF HandshakeFirst
  <2>2. /\ channel'[c] = "registered"
        /\ \A d \in Clients \ {c} : channel'[d] = channel[d]
        /\ UNCHANGED toClient \/ Announce(toClient)
    BY <1>3 DEF RemoteConnected, TypeOK, LinkTypeOK
  <2>3. \A d \in Clients : channel'[d] # "ready" => toClient'[d] = toClient[d]
    BY <2>2, AnnounceReach
  <2>4. HandshakeFirst(c)'
    BY <1>1, <1>2, <2>1, <2>2, <2>3 DEF HandshakeFirst
  <2> QED
    BY <1>1, <2>2, <2>3, <2>4, HandshakeOfOne
<1>4. CASE msg.type = "channel_hello" /\ ChannelHello(c)
  <2>1. channel[c] = "registered" /\ toHost[c] = Tail(Opening)
    <3>1. channel[c] # "ready"
      BY <1>1, <1>4, TypesAfterPop DEF HandshakeFirst
    <3>2. channel[c] # "none"
      BY <1>1, <1>4 DEF HandshakeFirst, Opening
    <3> QED
      BY <1>1, <1>2, <3>1, <3>2 DEF HandshakeFirst
  <2>2. toHost'[c] = <<>>
    BY <1>1, <2>1 DEF Opening
  <2>3. /\ channel'[c] = "ready"
        /\ \A d \in Clients \ {c} : channel'[d] = channel[d] /\ toClient'[d] = toClient[d]
    BY <1>4 DEF ChannelHello, TypeOK, LinkTypeOK
  <2>4. HandshakeFirst(c)'
    <3>1. \A i \in DOMAIN toHost'[c] : FALSE
      BY <2>2
    <3> QED
      BY <1>1, <1>2, <2>3, <3>1 DEF HandshakeFirst
  <2> QED
    BY <1>1, <2>3, <2>4, HandshakeOfOne
<1>5. ASSUME msg.type \notin {"entered", "channel_hello"},
             UNCHANGED channel,
             \A d \in Clients : toClient'[d] = toClient[d] \/ channel[d] = "ready" \/ d = c
      PROVE  HandshakeComesFirst'
  <2>1. channel[c] = "ready"
    <3>1. channel[c] # "none"
      BY <1>1, <1>5 DEF HandshakeFirst, Opening
    <3>2. channel[c] # "registered"
      BY <1>1, <1>5 DEF HandshakeFirst, Opening
    <3> QED
      BY <1>2, <3>1, <3>2
  <2>2. HandshakeFirst(c)'
    BY <1>1, <1>2, <1>5, <2>1, TypesAfterPop DEF HandshakeFirst
  <2> QED
    BY <1>1, <1>5, <2>2, HandshakeOfOne
<1>6. CASE msg.type = "hello" /\ ReceiveHello(c)
  <2>1. /\ UNCHANGED channel
        /\ \A d \in Clients : toClient'[d] = toClient[d] \/ d = c
    BY <1>6 DEF ReceiveHello, TypeOK, LinkTypeOK
  <2> QED
    BY <1>5, <1>6, <2>1
<1>7. CASE msg.type = "ready" /\ ReceiveReady(c, msg.value)
  <2>1. UNCHANGED channel /\ (UNCHANGED toClient \/ Announce(toClient))
    BY <1>7 DEF ReceiveReady, SetHostReady
  <2>2. \A d \in Clients : channel[d] # "ready" => toClient'[d] = toClient[d]
    BY <2>1, AnnounceReach
  <2> QED
    BY <1>5, <1>7, <2>1, <2>2
<1>8. CASE /\ msg.type \in {"profile_pending", "profile_update", "profile_cancel"}
           /\ ReceiveProfile(c, msg)
  <2>1. UNCHANGED <<channel, toClient>>
    BY <1>8 DEF ReceiveProfile
  <2> QED
    BY <1>5, <1>8, <2>1
<1> QED
  BY <1>3, <1>4, <1>6, <1>7, <1>8 DEF HostReceives

(* A client whose channel is open adds messages of the protocols.           *)
LEMMA HandshakeSends ==
    ASSUME TypeOK, HandshakeComesFirst, NEW c \in Clients,
           client[c].available, UNCHANGED channel,
           \A d \in Clients : toClient'[d] = toClient[d] \/ d = c,
           client'[c].conn = client[c].conn,
           \A d \in Clients \ {c} : client'[d] = client[d] /\ toHost'[d] = toHost[d],
           NEW m \in Seq(ClientMessages), toHost'[c] = toHost[c] \o m,
           \A i \in DOMAIN m : m[i].type \notin {"entered", "channel_hello"}
    PROVE  HandshakeComesFirst'
<1>1. channel[c] = "ready" /\ client[c].conn = "in"
  BY DEF HandshakeComesFirst, HandshakeFirst, TypeOK, LinkTypeOK
<1>2. toHost[c] \in Seq(ClientMessages)
  BY DEF TypeOK, LinkTypeOK
<1>3. \A i \in DOMAIN toHost[c] :
        toHost[c][i].type \notin {"entered", "channel_hello"}
  BY <1>1 DEF HandshakeComesFirst, HandshakeFirst
<1>4. \A i \in DOMAIN toHost'[c] :
        toHost'[c][i].type \notin {"entered", "channel_hello"}
  BY <1>2, <1>3, TypesAfterAppend
<1>5. HandshakeFirst(c)'
  BY <1>1, <1>4 DEF HandshakeFirst
<1> QED
  BY <1>1, <1>5, HandshakeOfOne

LEMMA HandshakeClient ==
    ASSUME TypeOK, HandshakeComesFirst, NEW c \in Clients, ClientNext(c)
    PROVE  HandshakeComesFirst'
<1>a. /\ HandshakeFirst(c)
      /\ update[c] \in Number
      /\ toHost[c] \in Seq(ClientMessages)
  BY DEF HandshakeComesFirst, TypeOK, LinkTypeOK, ProfileTypeOK, Peers
<1>1. CASE HostReceives(c)
  BY <1>1, HandshakeReceives
<1>2. CASE HostAdmits(c)
  <2>1. /\ UNCHANGED <<channel, toHost, toClient>>
        /\ client[c].conn = "out"
        /\ client'[c].conn = "joining" /\ ~client'[c].available
        /\ \A d \in Clients \ {c} : client'[d] = client[d]
    BY <1>2 DEF HostAdmits, NoClient, linkVars, TypeOK
  <2>2. HandshakeFirst(c)'
    BY <1>a, <2>1 DEF HandshakeFirst
  <2> QED
    BY <2>1, <2>2, HandshakeOfOne
<1>3. CASE ClientActivates(c)
  <2>1. /\ UNCHANGED <<channel, toClient>>
        /\ client[c].conn = "joining" /\ toHost'[c] = Opening
        /\ \A d \in Clients \ {c} : client'[d] = client[d] /\ toHost'[d] = toHost[d]
        /\ client'[c].conn = "in" /\ client'[c].available = client[c].available
    BY <1>3 DEF ClientActivates, TypeOK, LinkTypeOK, ClientStates
  <2>2. HandshakeFirst(c)'
    BY <1>a, <2>1 DEF HandshakeFirst
  <2> QED
    BY <2>1, <2>2, HandshakeOfOne
<1>4. CASE Disconnect(c)
  <2>1. /\ channel'[c] = "none" /\ toHost'[c] = <<>> /\ client'[c] = NoClient
        /\ \A d \in Clients \ {c} :
             /\ channel'[d] = channel[d] /\ toHost'[d] = toHost[d]
             /\ client'[d] = client[d]
    BY <1>4 DEF Disconnect, TypeOK, LinkTypeOK
  <2>2. \/ toClient' = [toClient EXCEPT ![c] = <<>>]
        \/ Announce([toClient EXCEPT ![c] = <<>>])
    BY <1>4 DEF Disconnect, RemoteDisconnected
  <2>3. \A d \in Clients : channel'[d] # "ready" =>
          toClient'[d] = IF d = c THEN <<>> ELSE toClient[d]
    <3> DEFINE rest == [toClient EXCEPT ![c] = <<>>]
    <3>1. \A d \in Clients : rest[d] = IF d = c THEN <<>> ELSE toClient[d]
      BY DEF TypeOK, LinkTypeOK
    <3>2. CASE toClient' = rest
      BY <3>1, <3>2
    <3>3. CASE Announce(rest)
      <4> HIDE DEF rest
      <4>1. \A d \in Clients : channel'[d] # "ready" => toClient'[d] = rest[d]
        BY <3>3, AnnounceReach
      <4> QED
        BY <3>1, <4>1
    <3> QED
      BY <2>2, <3>2, <3>3
  <2>4. \A d \in Clients \ {c} : toClient'[d] = toClient[d] \/ channel[d] = "ready"
    BY <2>1, <2>3
  <2>5. HandshakeFirst(c)'
    BY <2>1, <2>3 DEF HandshakeFirst, NoClient
  <2> QED
    BY <2>1, <2>4, <2>5, HandshakeOfOne
<1>5. CASE ClientReceives(c)
  <2> DEFINE msg == Head(toClient[c])
  <2>1. /\ toClient[c] # <<>> /\ UNCHANGED channel
        /\ \A d \in Clients \ {c} : toClient'[d] = toClient[d]
    BY <1>5 DEF ClientReceives, TypeOK, LinkTypeOK
  <2>2. channel[c] = "ready" /\ client[c].conn = "in"
    BY <1>a, <2>1 DEF HandshakeFirst
  <2>3. /\ client'[c].conn = "in"
        /\ \A d \in Clients \ {c} : client'[d] = client[d] /\ toHost'[d] = toHost[d]
    <3>1. CASE ClientChannelReady(c)
      BY <2>2, <3>1 DEF ClientChannelReady, TypeOK, LinkTypeOK, ClientStates
    <3>2. CASE ClientSnapshot(c, msg)
      BY <2>2, <3>2 DEF ClientSnapshot, Viewed, TypeOK, LinkTypeOK, ClientStates
    <3> QED
      BY <1>5, <3>1, <3>2 DEF ClientReceives
  <2>4. \A i \in DOMAIN toHost'[c] :
          toHost'[c][i].type \notin {"entered", "channel_hello"}
    <3>1. toHost'[c] \in {toHost[c], Append(toHost[c], [type |-> "hello"])}
      BY <1>5 DEF ClientReceives, ClientChannelReady, ClientSnapshot, TypeOK, LinkTypeOK
    <3>2. \A i \in DOMAIN toHost[c] :
            toHost[c][i].type \notin {"entered", "channel_hello"}
      BY <1>a, <2>2 DEF HandshakeFirst
    <3>3. PICK q \in Seq(ClientMessages) : q = toHost[c]
      BY DEF TypeOK, LinkTypeOK
    <3>4. PICK m : m = [type |-> "hello"]
      OBVIOUS
    <3>5. m.type = "hello"
      BY <3>4
    <3> DEFINE a == Append(q, m)
    <3>6. /\ DOMAIN q = 1 .. Len(q) /\ Len(q) \in Nat /\ DOMAIN a = 1 .. Len(q) + 1
          /\ a[Len(q) + 1] = m /\ \A i \in 1 .. Len(q) : a[i] = q[i]
      OBVIOUS
    <3> HIDE DEF a
    <3>7. \A i \in DOMAIN a : a[i].type \notin {"entered", "channel_hello"}
      <4>1. ASSUME NEW i \in DOMAIN a PROVE i \in 1 .. Len(q) \/ i = Len(q) + 1
        BY <3>6
      <4> QED
        BY <3>2, <3>3, <3>5, <3>6, <4>1
    <3>8. toHost'[c] = q \/ toHost'[c] = a
      BY <3>1, <3>3, <3>4 DEF a
    <3> QED
      BY <3>2, <3>3, <3>7, <3>8
  <2>5. HandshakeFirst(c)'
    BY <2>1, <2>2, <2>3, <2>4 DEF HandshakeFirst
  <2> QED
    BY <2>1, <2>3, <2>5, HandshakeOfOne
<1>6. CASE ClientFrame(c)
  <2> DEFINE asks == ClientCanSend(c) /\ ~client[c].hello
             sends == ClientAllowsChanges(c) /\ ClientCanSend(c)
             hello == IF asks THEN <<[type |-> "hello"]>> ELSE <<>>
             out == IF sends THEN Outbox(update[c]) ELSE <<>>
  <2>1. /\ UNCHANGED <<channel, toClient>>
        /\ client'[c].conn = client[c].conn
        /\ client'[c].available = client[c].available
        /\ \A d \in Clients \ {c} : client'[d] = client[d] /\ toHost'[d] = toHost[d]
        /\ toHost'[c] = (IF asks THEN Append(toHost[c], [type |-> "hello"])
                         ELSE toHost[c]) \o out
    BY <1>6 DEF ClientFrame, TypeOK, LinkTypeOK, ClientStates
  <2>2. CASE ~client[c].available
    <3>1. ~asks /\ ~sends
      BY <2>2 DEF ClientCanSend
    <3>2. toHost'[c] = toHost[c]
      BY <1>a, <2>1, <3>1, ConcatEmptySeq
    <3>3. HandshakeFirst(c)'
      BY <1>a, <2>1, <3>2 DEF HandshakeFirst
    <3> QED
      BY <2>1, <3>3, HandshakeOfOne
  <2>3. CASE client[c].available
    <3>1. /\ hello \in Seq(ClientMessages)
          /\ \A i \in DOMAIN hello : hello[i].type \notin {"entered", "channel_hello"}
      <4>1. [type |-> "hello"] \in ClientMessages
        BY DEF ClientMessages
      <4> QED
        BY <4>1
    <3>2. /\ out \in Seq(ClientMessages)
          /\ \A i \in DOMAIN out : out[i].type \notin {"entered", "channel_hello"}
      BY <1>a, OutboxType, OutboxTypes
    <3>3. toHost'[c] = toHost[c] \o (hello \o out)
      <4>1. (IF asks THEN Append(toHost[c], [type |-> "hello"]) ELSE toHost[c])
               = toHost[c] \o hello
        <5>1. CASE asks
          BY <1>a, <5>1
        <5>2. CASE ~asks
          BY <1>a, <5>2, ConcatEmptySeq
        <5> QED
          BY <5>1, <5>2
      <4>2. toHost'[c] = (toHost[c] \o hello) \o out
        BY <2>1, <4>1
      <4>3. /\ toHost[c] \in Seq(ClientMessages)
            /\ hello \in Seq(ClientMessages)
            /\ out \in Seq(ClientMessages)
        BY <1>a, <3>1, <3>2
      <4> HIDE DEF hello, out
      <4>4. (toHost[c] \o hello) \o out = toHost[c] \o (hello \o out)
        <5>1. \A s, t, u \in Seq(ClientMessages) : (s \o t) \o u = s \o (t \o u)
          BY ConcatAssociative
        <5> HIDE DEF asks, sends
        <5> QED
          BY <4>3, <5>1, Zenon
      <4> QED
        BY <4>2, <4>4
    <3> HIDE DEF hello, out
    <3>4. /\ hello \o out \in Seq(ClientMessages)
          /\ \A i \in DOMAIN (hello \o out) :
               (hello \o out)[i].type \notin {"entered", "channel_hello"}
      BY <3>1, <3>2, TypesAfterAppend
    <3> QED
      BY <2>1, <2>3, <3>3, <3>4, HandshakeSends
  <2> QED
    BY <2>2, <2>3
<1>7. CASE ClientPressesReady(c)
  <2> DEFINE m == <<[type |-> "ready", value |-> c \notin client[c].ready]>>
  <2>1. /\ client[c].available /\ UNCHANGED <<channel, toClient, client>>
        /\ \A d \in Clients \ {c} : toHost'[d] = toHost[d]
        /\ toHost'[c] = Append(toHost[c], m[1])
    BY <1>7 DEF ClientPressesReady, ClientCanSend, clientVars, TypeOK, LinkTypeOK
  <2>2. m[1] \in ClientMessages /\ m[1].type = "ready"
    BY DEF ClientMessages
  <2>3. /\ m \in Seq(ClientMessages)
        /\ \A i \in DOMAIN m : m[i].type \notin {"entered", "channel_hello"}
    BY <2>2
  <2>4. toHost'[c] = toHost[c] \o m
    <3>1. PICK x \in ClientMessages : x = m[1]
      BY <2>2
    <3>2. m = <<x>>
      BY <3>1
    <3>3. toHost'[c] = Append(toHost[c], x)
      BY <2>1, <3>1
    <3> HIDE DEF m
    <3>4. Append(toHost[c], x) = toHost[c] \o <<x>>
      BY <1>a, AppendIsConcat
    <3> QED
      BY <3>2, <3>3, <3>4
  <2> HIDE DEF m
  <2> QED
    BY <2>1, <2>3, <2>4, HandshakeSends
<1>8. CASE ClientChangesLoadout(c) \/ ClientFetchReturns(c) \/ ClientFetchFails(c)
  <2>1. UNCHANGED <<channel, toClient, client>>
    BY <1>8 DEF ClientChangesLoadout, ClientFetchReturns, ClientFetchFails, clientVars
  <2>2. CASE UNCHANGED toHost
    BY <2>1, <2>2, HandshakeKept
  <2>3. ASSUME NEW u \in Number, PostProfile(c, u), ~UNCHANGED toHost
        PROVE  HandshakeComesFirst'
    <3>1. client[c].available /\ toHost' = [toHost EXCEPT ![c] = @ \o Outbox(u)]
      BY <2>3 DEF PostProfile, ClientCanSend
    <3>2. /\ toHost'[c] = toHost[c] \o Outbox(u)
          /\ \A d \in Clients \ {c} : toHost'[d] = toHost[d]
      BY <3>1 DEF TypeOK, LinkTypeOK
    <3> QED
      BY <2>1, <3>1, <3>2, OutboxType, OutboxTypes, HandshakeSends
  <2>4. /\ Requested(update[c], FALSE) \in Number
        /\ Fetched(update[c]) \in Number
        /\ FetchFailed(update[c]) \in Number
    BY <1>a, RequestedType, NumberType
  <2> QED
    BY <1>8, <2>2, <2>3, <2>4
    DEF ClientChangesLoadout, ClientFetchReturns, ClientFetchFails
<1> QED
  BY <1>1, <1>2, <1>3, <1>4, <1>5, <1>6, <1>7, <1>8 DEF ClientNext

-----------------------------------------------------------------------------
(* The members.                                                             *)

LEMMA SenderIsConnected ==
    ASSUME TypeOK, HandshakeComesFirst, NEW c \in Clients, toHost[c] # <<>>,
           Head(toHost[c]).type # "entered"
    PROVE  channel[c] # "none"
  BY DEF HandshakeComesFirst, HandshakeFirst, Opening

LEMMA MembersStep ==
    ASSUME TypeOK, MembersAreConnected, HandshakeComesFirst, Next
    PROVE  MembersAreConnected'
<1> USE DEF MembersAreConnected, Connected
<1>1. ASSUME UNCHANGED <<phase, members>>, UNCHANGED channel
      PROVE  MembersAreConnected'
  BY <1>1
<1>2. ASSUME NEW p \in Peers, p = Host \/ channel[p] # "none", NEW STATE value,
             phase = "waiting", SetHostReady(p, value), UNCHANGED channel
      PROVE  MembersAreConnected'
  BY <1>2 DEF SetHostReady, hostVars, Peers
<1>3. ASSUME NEW m \in Missions, ConfigureMission(m)
      PROVE  MembersAreConnected'
  BY <1>3 DEF ConfigureMission
<1>4. ASSUME HostNext PROVE MembersAreConnected'
  <2>1. CASE HostBootStarted \/ HostStops
    BY <2>1 DEF HostBootStarted, HostStops
  <2>2. CASE ServerSettingsChanged \/ CountdownElapses \/ HostUpdatesProfile
    BY <2>2, <1>1 DEF ServerSettingsChanged, CountdownElapses, HostUpdatesProfile,
                      hostVars, linkVars
  <2>3. CASE HostPressesReady
    BY <2>3, <1>2 DEF HostPressesReady, Peers
  <2>4. CASE HostFrame
    BY <2>4, <1>1 DEF HostFrame, BeginFinalizing, StartMission, PreparationIdle,
                      hostVars
  <2> QED
    BY <1>4, <1>3, <2>1, <2>2, <2>3, <2>4
    DEF HostNext, HostMechanismConfigured, HostTransition
<1>5. ASSUME NEW c \in Clients, HostReceives(c) PROVE MembersAreConnected'
  <2>1. CASE RemoteConnected(c)
    BY <2>1 DEF RemoteConnected, hostVars, TypeOK, LinkTypeOK
  <2>2. CASE ChannelHello(c) /\ Head(toHost[c]).type = "channel_hello"
    <3>1. channel[c] # "none"
      BY <1>5, <2>2, SenderIsConnected DEF HostReceives
    <3> QED
      BY <2>2, <3>1 DEF ChannelHello, hostVars, TypeOK, LinkTypeOK
  <2>3. CASE ReceiveReady(c, Head(toHost[c]).value) /\ Head(toHost[c]).type = "ready"
    <3>1. channel[c] # "none"
      BY <1>5, <2>3, SenderIsConnected DEF HostReceives
    <3> QED
      BY <2>3, <3>1, <1>1, <1>2 DEF ReceiveReady, hostVars, Peers
  <2>4. CASE ReceiveHello(c) \/ ReceiveProfile(c, Head(toHost[c]))
    BY <2>4, <1>1 DEF ReceiveHello, ReceiveProfile, hostVars
  <2> QED
    BY <1>5, <2>1, <2>2, <2>3, <2>4 DEF HostReceives
<1>6. ASSUME NEW c \in Clients, Disconnect(c) PROVE MembersAreConnected'
  <2>1. channel' = [channel EXCEPT ![c] = "none"] /\ c # Host
    BY <1>6, HostAssumption DEF Disconnect
  <2>2. CASE phase = "waiting" /\ RemoteDisconnected(c)
    BY <2>1, <2>2 DEF RemoteDisconnected, hostVars, TypeOK, LinkTypeOK
  <2>3. CASE phase # "waiting" /\ UNCHANGED hostVars
    BY <2>3 DEF hostVars
  <2> QED
    BY <1>6, <2>2, <2>3 DEF Disconnect
<1>7. ASSUME NEW c \in Clients, ClientNext(c) PROVE MembersAreConnected'
  BY <1>7, <1>1, <1>5, <1>6
  DEF ClientNext, HostAdmits, ClientActivates, ClientReceives, ClientFrame,
      ClientPressesReady, ClientChangesLoadout, ClientFetchReturns,
      ClientFetchFails, hostVars, linkVars
<1> QED
  BY <1>4, <1>7 DEF Next

-----------------------------------------------------------------------------
LEMMA BarrierStep == BarrierInv /\ [Next]_vars => BarrierInv'
<1> SUFFICES ASSUME BarrierInv, [Next]_vars PROVE BarrierInv'
  OBVIOUS
<1> USE DEF BarrierInv
<1>1. CASE UNCHANGED vars
  <2>1. TypeOK'
    BY StepType
  <2>2. CountdownMeansAllReady' /\ MembersAreConnected' /\ HandshakeComesFirst'
    BY <1>1 DEF CountdownMeansAllReady, MembersAreConnected, Connected,
                HandshakeComesFirst, HandshakeFirst, vars, hostVars, linkVars,
                clientVars
  <2> QED
    BY <2>1, <2>2
<1>2. CASE Next
  <2>1. HandshakeComesFirst'
    BY <1>2, HandshakeHost, HandshakeClient DEF Next
  <2> QED
    BY <1>2, <2>1, StepType, CountdownStep, MembersStep
<1> QED
  BY <1>1, <1>2

(* The countdown, the members and the first message of every connection fit *)
(* together in every reachable state (update_host_countdown, remote_connected, *)
(* channel_opened).                                                         *)
THEOREM BarrierInvariant == Spec => []BarrierInv
  BY InitBarrier, BarrierStep, PTL DEF Spec

(* A countdown runs exactly when everybody is ready, whatever joins, leaves *)
(* and pressed buttons interleave (update_host_countdown).                  *)
THEOREM CountdownCorrect == Spec => []CountdownMeansAllReady
  BY BarrierInvariant, PTL DEF BarrierInv

(* The host waits for exactly the players that are there (remote_connected, *)
(* remote_disconnected and a late ready message).                           *)
THEOREM MembersCorrect == Spec => []MembersAreConnected
  BY BarrierInvariant, PTL DEF BarrierInv

(* No message of a protocol is under way before the channel's handshake, in *)
(* any connection of any client.                                            *)
THEOREM HandshakeCorrect == Spec => []HandshakeComesFirst
  BY BarrierInvariant, PTL DEF BarrierInv

-----------------------------------------------------------------------------
(* The refinement.                                                          *)

LEMMA StageValues ==
    /\ phase = "waiting" /\ ~finalizing => BarrierStage = "gathering"
    /\ phase = "waiting" /\ finalizing => BarrierStage = "committed"
    /\ phase = "started" => BarrierStage = "started"
    /\ phase \notin {"waiting", "started"} => BarrierStage = "idle"
  BY DEF BarrierStage

LEMMA StageValuesNext ==
    /\ phase' = "waiting" /\ ~finalizing' => BarrierStage' = "gathering"
    /\ phase' = "waiting" /\ finalizing' => BarrierStage' = "committed"
    /\ phase' = "started" => BarrierStage' = "started"
    /\ phase' \notin {"waiting", "started"} => BarrierStage' = "idle"
  BY DEF BarrierStage

(* Steps that leave the phase and the readiness of a waiting host alone.    *)
LEMMA BarrierStutter ==
    ASSUME UNCHANGED <<phase, members, ready, finalizing>>
    PROVE  UNCHANGED Barrier!barrierVars
  BY DEF Barrier!barrierVars, BarrierStage, Waiting

LEMMA BarrierConfigures ==
    ASSUME NEW m \in Missions, ConfigureMission(m)
    PROVE  Barrier!Next
<1>1. CASE m \in BypassMissions
  <2>1. phase' = "bypassed"
    BY <1>1 DEF ConfigureMission
  <2>2. Barrier!Cancel
    BY <2>1, StageValuesNext DEF Barrier!Cancel, Waiting
  <2> QED
    BY <2>2 DEF Barrier!Next
<1>2. CASE m \notin BypassMissions
  <2>1. /\ phase' = "waiting" /\ ~finalizing' /\ ready' = {}
        /\ members' \in SUBSET Peers
    BY <1>2 DEF ConfigureMission, Connected, Peers
  <2>2. BarrierStage' = "gathering" /\ Waiting(members)' = members' /\ Waiting(ready)' = {}
    BY <2>1, StageValuesNext DEF Waiting
  <2>3. Barrier!Gather
    BY <2>1, <2>2 DEF Barrier!Gather
  <2> QED
    BY <2>3 DEF Barrier!Next
<1> QED
  BY <1>1, <1>2

LEMMA BarrierSetReady ==
    ASSUME NEW p \in members, TypeOK, NEW STATE value, SetHostReady(p, value),
           phase = "waiting", value \in BOOLEAN
    PROVE  Barrier!Next \/ UNCHANGED Barrier!barrierVars
<1>1. CASE UNCHANGED hostVars
  BY <1>1, BarrierStutter DEF hostVars
<1>2. CASE ~UNCHANGED hostVars
  <2>1. /\ ~finalizing /\ members' = members
        /\ ready' = ready \union {p} \/ ready' = ready \ {p}
        /\ UNCHANGED <<phase, finalizing>>
    BY <1>2 DEF SetHostReady, TypeOK, HostTypeOK
  <2>2. Barrier!ChangeMind(p)
    BY <2>1, StageValues, StageValuesNext DEF Barrier!ChangeMind, Waiting
  <2> QED
    BY <2>2 DEF Barrier!Next, TypeOK, HostTypeOK
<1> QED
  BY <1>1, <1>2

LEMMA BarrierJoinsAndLeaves ==
    ASSUME NEW c \in Clients, phase = "waiting", TypeOK,
           RemoteConnected(c) \/ RemoteDisconnected(c)
    PROVE  Barrier!Next \/ UNCHANGED Barrier!barrierVars
<1>1. BarrierStage \in {"gathering", "committed"}
  BY StageValues DEF TypeOK, HostTypeOK
<1>2. CASE RemoteConnected(c)
  <2>1. /\ members' = members \union {c} /\ ready' = ready \ {c}
        /\ UNCHANGED <<phase, finalizing>>
    BY <1>2 DEF RemoteConnected
  <2>2. Barrier!Join(c)
    BY <1>1, <2>1 DEF Barrier!Join, Waiting, BarrierStage
  <2> QED
    BY <2>2 DEF Barrier!Next, Peers
<1>3. CASE RemoteDisconnected(c) /\ c \in members
  <2>1. /\ members' = members \ {c} /\ ready' = ready \ {c}
        /\ UNCHANGED <<phase, finalizing>>
    BY <1>3 DEF RemoteDisconnected
  <2>2. Barrier!Leave(c)
    BY <1>1, <2>1 DEF Barrier!Leave, Waiting, BarrierStage
  <2> QED
    BY <2>2 DEF Barrier!Next, Peers
<1>4. CASE RemoteDisconnected(c) /\ c \notin members
  BY <1>4, BarrierStutter DEF RemoteDisconnected, hostVars
<1> QED
  BY <1>2, <1>3, <1>4

LEMMA BarrierFrame ==
    ASSUME BarrierInv, HostFrame
    PROVE  Barrier!Next \/ UNCHANGED Barrier!barrierVars
<1>1. CASE BeginFinalizing
  <2>1. /\ phase = "waiting" /\ ~finalizing /\ members # {} /\ ready = members
    BY <1>1 DEF BarrierInv, BeginFinalizing, CountdownMeansAllReady, AllReady
  <2>2. UNCHANGED <<phase, members, ready>> /\ finalizing'
    BY <1>1 DEF BeginFinalizing
  <2>3. Barrier!Commit
    BY <2>1, <2>2, StageValues, StageValuesNext DEF Barrier!Commit, Waiting
  <2> QED
    BY <2>3 DEF Barrier!Next
<1>2. CASE StartMission
  <2>1. phase = "waiting" /\ finalizing /\ phase' = "started"
    BY <1>2 DEF StartMission
  <2>2. Barrier!Start
    BY <2>1, StageValues, StageValuesNext DEF Barrier!Start, Waiting
  <2> QED
    BY <2>2 DEF Barrier!Next
<1>3. CASE PreparationIdle
  BY <1>3, BarrierStutter DEF PreparationIdle, hostVars
<1> QED
  BY <1>1, <1>2, <1>3 DEF HostFrame

LEMMA BarrierHost ==
    ASSUME BarrierInv, HostNext
    PROVE  Barrier!Next \/ UNCHANGED Barrier!barrierVars
<1>1. CASE HostBootStarted
  BY <1>1 DEF HostBootStarted, Barrier!barrierVars, BarrierStage, Waiting
<1>2. CASE HostStops
  <2>1. phase' = "inactive"
    BY <1>2 DEF HostStops
  <2>2. Barrier!Cancel
    BY <2>1, StageValuesNext DEF Barrier!Cancel, Waiting
  <2> QED
    BY <2>2 DEF Barrier!Next
<1>3. CASE ServerSettingsChanged \/ CountdownElapses \/ HostUpdatesProfile
  BY <1>3, BarrierStutter
  DEF ServerSettingsChanged, CountdownElapses, HostUpdatesProfile, hostVars
<1>4. CASE HostPressesReady
  <2>1. Host \in members /\ (Host \notin ready) \in BOOLEAN /\ phase = "waiting"
    BY <1>4 DEF HostPressesReady, BarrierInv, MembersAreConnected
  <2> QED
    BY <1>4, <2>1, BarrierSetReady DEF HostPressesReady, BarrierInv
<1> QED
  BY <1>1, <1>2, <1>3, <1>4, BarrierConfigures, BarrierFrame
  DEF HostNext, HostMechanismConfigured, HostTransition

LEMMA BarrierReceives ==
    ASSUME BarrierInv, NEW c \in Clients, HostReceives(c)
    PROVE  Barrier!Next \/ UNCHANGED Barrier!barrierVars
<1> DEFINE msg == Head(toHost[c])
<1>1. CASE RemoteConnected(c)
  <2>1. CASE phase = "waiting"
    BY <1>1, <2>1, BarrierJoinsAndLeaves DEF BarrierInv
  <2>2. CASE phase # "waiting"
    BY <1>1, <2>2, BarrierStutter DEF RemoteConnected, hostVars
  <2> QED
    BY <2>1, <2>2
<1>2. CASE msg.type = "ready" /\ ReceiveReady(c, msg.value)
  <2>1. CASE phase = "waiting"
    <3>1. c \in members
      BY <1>2, <2>1, SenderIsConnected
      DEF HostReceives, BarrierInv, MembersAreConnected, Connected
    <3>2. msg \in ClientMessages
      BY DEF HostReceives, BarrierInv, TypeOK, LinkTypeOK
    <3>3. msg.value \in BOOLEAN
      BY <1>2, <3>2 DEF ClientMessages
    <3> QED
      BY <1>2, <2>1, <3>1, <3>3, BarrierSetReady DEF ReceiveReady, BarrierInv
  <2>2. CASE phase # "waiting"
    BY <1>2, <2>2, BarrierStutter DEF ReceiveReady, hostVars
  <2> QED
    BY <2>1, <2>2
<1>3. CASE ChannelHello(c) \/ ReceiveHello(c) \/ ReceiveProfile(c, msg)
  BY <1>3, BarrierStutter DEF ChannelHello, ReceiveHello, ReceiveProfile, hostVars
<1> QED
  BY <1>1, <1>2, <1>3 DEF HostReceives

LEMMA BarrierClient ==
    ASSUME BarrierInv, NEW c \in Clients, ClientNext(c)
    PROVE  Barrier!Next \/ UNCHANGED Barrier!barrierVars
<1>1. CASE HostReceives(c)
  BY <1>1, BarrierReceives
<1>2. CASE Disconnect(c)
  <2>1. CASE phase = "waiting"
    BY <1>2, <2>1, BarrierJoinsAndLeaves DEF Disconnect, BarrierInv
  <2>2. CASE phase # "waiting"
    BY <1>2, <2>2, BarrierStutter DEF Disconnect, hostVars
  <2> QED
    BY <2>1, <2>2
<1>3. CASE UNCHANGED hostVars
  BY <1>3, BarrierStutter DEF hostVars
<1> QED
  BY <1>1, <1>2, <1>3
  DEF ClientNext, HostAdmits, ClientActivates, ClientReceives, ClientFrame,
      ClientPressesReady, ClientChangesLoadout, ClientFetchReturns, ClientFetchFails

LEMMA BarrierNext == BarrierInv /\ [Next]_vars => [Barrier!Next]_(Barrier!barrierVars)
<1> SUFFICES ASSUME BarrierInv, [Next]_vars
             PROVE  Barrier!Next \/ UNCHANGED Barrier!barrierVars
  OBVIOUS
<1>1. CASE UNCHANGED vars
  BY <1>1, BarrierStutter DEF vars, hostVars
<1>2. CASE Next
  BY <1>2, BarrierHost, BarrierClient DEF Next
<1> QED
  BY <1>1, <1>2

LEMMA BarrierInit == Init => Barrier!Init
  BY DEF Init, Barrier!Init, BarrierStage, Waiting

(* The host never commits to a mission before all its members are ready and *)
(* never starts one it has not committed to, whatever the network and the   *)
(* users do: Preparation implements ReadyBarrier.                           *)
THEOREM ImplementsReadyBarrier == Spec => IsReadyBarrier
<1>1. Init => Barrier!Init
  BY BarrierInit
<1>2. BarrierInv /\ [Next]_vars => [Barrier!Next]_(Barrier!barrierVars)
  BY BarrierNext
<1> QED
  BY <1>1, <1>2, BarrierInvariant, PTL DEF Spec, IsReadyBarrier, Barrier!Spec

(* What the host waits for and whom it hears, together: the countdown, the  *)
(* members and the handshakes agree in every reachable state.               *)
THEOREM BarrierCorrect == Spec => []BarrierHolds
<1>1. BarrierInv => BarrierHolds
  BY DEF BarrierInv, BarrierHolds
<1> QED
  BY <1>1, BarrierInvariant, PTL

-----------------------------------------------------------------------------
(***************************************************************************)
(* What the clients of Preparation see, for any set of clients and         *)
(* missions.  Every step of the host either broadcasts under a new         *)
(* revision, or leaves what a snapshot shows as it is and at most repeats  *)
(* it; a client takes the snapshots from the front of its queue.  Hence    *)
(* the queue of a client is ordered by revision, what it says of the       *)
(* host's revision is what the host is, and the newest state is in the     *)
(* queue until the client has it.                                          *)
(***************************************************************************)

-----------------------------------------------------------------------------
(* Queues of messages to a client.                                          *)

IsSnapshot(msg) == msg.type = "snapshot"

(* The snapshots in q are ordered, none below low or above high.            *)
Ordered(q, low, high) ==
    \A i \in DOMAIN q : IsSnapshot(q[i]) =>
      /\ low <= q[i].revision /\ q[i].revision <= high
      /\ \A j \in DOMAIN q : IsSnapshot(q[j]) /\ i < j =>
           q[i].revision <= q[j].revision

(* What q says of a revision.                                               *)
Tells(q, rev, shown) ==
    \A i \in DOMAIN q :
      IsSnapshot(q[i]) /\ q[i].revision = rev => Shows(q[i]) = shown

Holds(q, rev) == \E i \in DOMAIN q : IsSnapshot(q[i]) /\ q[i].revision = rev

NoSnapshots(q) == \A i \in DOMAIN q : ~IsSnapshot(q[i])

View(c) ==
    /\ client[c].revision <= revision
    /\ Ordered(toClient[c], client[c].revision, revision)
    /\ Tells(toClient[c], revision, Shows(Snapshot))

(* A client is connected only while the host has a mission.                 *)
Joined(c) ==
    /\ client[c].conn = "out" => client[c].revision = 0
    /\ client[c].conn # "out" => phase \in {"waiting", "started", "bypassed"}

(* A client with an open channel has the newest state, or is being sent it. *)
Informed(c) ==
    channel[c] = "ready" =>
      \/ Holds(toClient[c], revision)
      \/ NoSnapshots(toClient[c]) /\ Follows(c)

SeesInv == BarrierInv /\ \A c \in Clients : View(c) /\ Joined(c)

NoBypass == BypassMissions = {} => phase # "bypassed" /\ \A c \in Clients : Informed(c)

NewestInv == SeesInv /\ NoBypass

-----------------------------------------------------------------------------
(* Lemmas about the queues.                                                 *)

LEMMA OrderedWeaker ==
    ASSUME NEW q \in Seq(HostMessages), NEW low \in Nat, NEW other \in Nat,
           NEW high \in Nat, other <= low, Ordered(q, low, high)
    PROVE  Ordered(q, other, high)
  BY DEF Ordered, IsSnapshot, HostMessages, Snapshots

LEMMA EmptyQueue ==
    ASSUME NEW low, NEW high, NEW shown
    PROVE  /\ Ordered(<<>>, low, high)
           /\ Tells(<<>>, high, shown)
           /\ NoSnapshots(<<>>)
  BY DEF Ordered, Tells, NoSnapshots

(* A queue says nothing of a revision above all of its snapshots.           *)
LEMMA TellsNothing ==
    ASSUME NEW q \in Seq(HostMessages), NEW low \in Nat, NEW high \in Nat,
           Ordered(q, low, high), NEW rev \in Nat, high < rev, NEW shown
    PROVE  Tells(q, rev, shown) /\ Ordered(q, low, rev)
  BY DEF Ordered, Tells, IsSnapshot, HostMessages, Snapshots

LEMMA QueueAppend ==
    ASSUME NEW q \in Seq(HostMessages), NEW low \in Nat, NEW high \in Nat,
           Ordered(q, low, high), low <= high,
           NEW s \in Snapshots, s.revision = high,
           Tells(q, high, Shows(s))
    PROVE  /\ Append(q, s) \in Seq(HostMessages)
           /\ Ordered(Append(q, s), low, high)
           /\ Tells(Append(q, s), high, Shows(s))
           /\ Holds(Append(q, s), high)
<1>1. s \in HostMessages /\ IsSnapshot(s)
  BY DEF HostMessages, Snapshots, IsSnapshot
<1> DEFINE r == Append(q, s)
<1>2. /\ r \in Seq(HostMessages)
      /\ DOMAIN r = 1 .. (Len(q) + 1)
      /\ DOMAIN q = 1 .. Len(q)
      /\ Len(q) \in Nat
      /\ \A i \in 1 .. Len(q) : r[i] = q[i]
      /\ r[Len(q) + 1] = s
  BY <1>1
<1> HIDE DEF r
<1>3. Holds(r, high)
  BY <1>1, <1>2 DEF Holds
<1>4. Tells(r, high, Shows(s))
  BY <1>2 DEF Tells
<1>5. Ordered(r, low, high)
  BY <1>1, <1>2 DEF Ordered
<1> QED
  BY <1>2, <1>3, <1>4, <1>5 DEF r

LEMMA QueueOpens ==
    ASSUME NEW q \in Seq(HostMessages), NEW low \in Nat, NEW high \in Nat,
           Ordered(q, low, high), NEW shown, Tells(q, high, shown)
    PROVE  LET r == Append(q, [type |-> "channel_ready"])
           IN  /\ r \in Seq(HostMessages)
               /\ Ordered(r, low, high)
               /\ Tells(r, high, shown)
               /\ NoSnapshots(q) => NoSnapshots(r)
<1> DEFINE msg == [type |-> "channel_ready"]
           r == Append(q, msg)
<1>1. msg \in HostMessages /\ ~IsSnapshot(msg)
  BY DEF HostMessages, IsSnapshot
<1> HIDE DEF msg
<1>2. /\ r \in Seq(HostMessages)
      /\ DOMAIN r = 1 .. (Len(q) + 1)
      /\ DOMAIN q = 1 .. Len(q)
      /\ Len(q) \in Nat
      /\ \A i \in 1 .. Len(q) : r[i] = q[i]
      /\ r[Len(q) + 1] = msg
  BY <1>1
<1> HIDE DEF r
<1>3. Tells(r, high, shown)
  BY <1>1, <1>2 DEF Tells
<1>4. Ordered(r, low, high)
  BY <1>1, <1>2 DEF Ordered
<1>5. NoSnapshots(q) => NoSnapshots(r)
  BY <1>1, <1>2 DEF NoSnapshots
<1> QED
  BY <1>2, <1>3, <1>4, <1>5 DEF r, msg

LEMMA QueueTail ==
    ASSUME NEW q \in Seq(HostMessages), q # <<>>, NEW low \in Nat,
           NEW high \in Nat, Ordered(q, low, high),
           NEW shown, Tells(q, high, shown)
    PROVE  /\ Tail(q) \in Seq(HostMessages)
           /\ Ordered(Tail(q), low, high)
           /\ Tells(Tail(q), high, shown)
           /\ NoSnapshots(q) => NoSnapshots(Tail(q)) /\ ~IsSnapshot(Head(q))
           /\ IsSnapshot(Head(q)) =>
                /\ low <= Head(q).revision /\ Head(q).revision <= high
                /\ Ordered(Tail(q), Head(q).revision, high)
                /\ Head(q).revision = high => Shows(Head(q)) = shown
           /\ Holds(q, high) =>
                \/ Holds(Tail(q), high)
                \/ /\ IsSnapshot(Head(q)) /\ Head(q).revision = high
                   /\ NoSnapshots(Tail(q))
<1> DEFINE t == Tail(q)
<1>1. /\ t \in Seq(HostMessages)
      /\ Len(q) \in Nat /\ Len(q) > 0
      /\ DOMAIN q = 1 .. Len(q)
      /\ DOMAIN t = 1 .. (Len(q) - 1)
      /\ \A i \in DOMAIN t : t[i] = q[i + 1]
      /\ Head(q) = q[1]
      /\ \A i \in DOMAIN q : q[i] \in HostMessages
  BY DEF HostMessages
<1> HIDE DEF t
<1>0. \A i \in DOMAIN t : i + 1 \in DOMAIN q /\ 1 < i + 1
  BY <1>1
<1>2. Tells(t, high, shown)
  BY <1>0, <1>1 DEF Tells
<1>3. Ordered(t, low, high)
  <2> SUFFICES ASSUME NEW i \in DOMAIN t, IsSnapshot(t[i])
               PROVE  /\ low <= t[i].revision /\ t[i].revision <= high
                      /\ \A j \in DOMAIN t : IsSnapshot(t[j]) /\ i < j => t[i].revision <= t[j].revision
    BY DEF Ordered
  <2>1. PICK k \in DOMAIN q : k = i + 1 /\ t[i] = q[k]
    BY <1>0, <1>1
  <2>2. low <= t[i].revision /\ t[i].revision <= high
    BY <2>1 DEF Ordered
  <2>3. ASSUME NEW j \in DOMAIN t, IsSnapshot(t[j]), i < j PROVE t[i].revision <= t[j].revision
    <3>1. PICK h \in DOMAIN q : h = j + 1 /\ t[j] = q[h]
      BY <1>0, <1>1
    <3>2. k < h
      BY <1>1, <2>1, <2>3, <3>1
    <3> QED
      BY <2>1, <2>3, <3>1, <3>2 DEF Ordered
  <2> QED
    BY <2>2, <2>3
<1>4. NoSnapshots(q) => NoSnapshots(t) /\ ~IsSnapshot(Head(q))
  BY <1>0, <1>1 DEF NoSnapshots
<1>5. ASSUME IsSnapshot(q[1])
      PROVE  /\ low <= q[1].revision /\ q[1].revision <= high
             /\ Ordered(t, q[1].revision, high)
             /\ q[1].revision = high => Shows(q[1]) = shown
  <2>1. 1 \in DOMAIN q
    BY <1>1
  <2>2. low <= q[1].revision /\ q[1].revision <= high
    BY <1>5, <2>1 DEF Ordered
  <2>3. Ordered(t, q[1].revision, high)
    <3> SUFFICES ASSUME NEW i \in DOMAIN t, IsSnapshot(t[i])
                 PROVE  /\ q[1].revision <= t[i].revision /\ t[i].revision <= high
                        /\ \A j \in DOMAIN t : IsSnapshot(t[j]) /\ i < j => t[i].revision <= t[j].revision
      BY DEF Ordered
    <3>1. PICK k \in DOMAIN q : k = i + 1 /\ 1 < k /\ t[i] = q[k]
      BY <1>0, <1>1
    <3>2. q[1].revision <= t[i].revision /\ t[i].revision <= high
      BY <1>5, <2>1, <3>1 DEF Ordered
    <3>3. ASSUME NEW j \in DOMAIN t, IsSnapshot(t[j]), i < j PROVE t[i].revision <= t[j].revision
      <4>1. PICK h \in DOMAIN q : h = j + 1 /\ t[j] = q[h]
        BY <1>0, <1>1
      <4>2. k < h
        BY <1>1, <3>1, <3>3, <4>1
      <4> QED
        BY <3>1, <3>3, <4>1, <4>2 DEF Ordered
    <3> QED
      BY <3>2, <3>3
  <2>4. q[1].revision = high => Shows(q[1]) = shown
    BY <1>5, <2>1 DEF Tells
  <2> QED
    BY <2>2, <2>3, <2>4
<1>6. ASSUME Holds(q, high), ~Holds(t, high)
      PROVE  IsSnapshot(q[1]) /\ q[1].revision = high /\ NoSnapshots(t)
  <2>1. PICK k \in DOMAIN q : IsSnapshot(q[k]) /\ q[k].revision = high
    BY <1>6 DEF Holds
  <2>2. k = 1
    <3>1. ASSUME k # 1 PROVE FALSE
      <4>1. k - 1 \in DOMAIN t /\ t[k - 1] = q[k]
        BY <1>1, <3>1
      <4> QED
        BY <1>6, <2>1, <4>1 DEF Holds
    <3> QED
      BY <3>1
  <2>3. ASSUME NEW i \in DOMAIN t, IsSnapshot(t[i]) PROVE FALSE
    <3>1. IsSnapshot(q[i + 1]) /\ i + 1 \in DOMAIN q /\ 1 < i + 1
      BY <1>0, <1>1, <2>3
    <3>2. high <= q[i + 1].revision /\ q[i + 1].revision <= high
      BY <2>1, <2>2, <3>1 DEF Ordered
    <3>3. q[i + 1].revision \in Nat
      BY <1>1, <3>1 DEF HostMessages, Snapshots, IsSnapshot
    <3>4. t[i].revision = high
      BY <1>1, <3>1, <3>2, <3>3
    <3> QED
      BY <1>6, <2>3, <3>4 DEF Holds
  <2> QED
    BY <2>1, <2>2, <2>3 DEF NoSnapshots
<1> QED
  BY <1>1, <1>2, <1>3, <1>4, <1>5, <1>6 DEF t

-----------------------------------------------------------------------------
(* The two kinds of steps, as one client sees them.                         *)

(* Nothing that a snapshot shows changes, and nothing is sent to d.         *)
Still(d) ==
    /\ UNCHANGED <<revision, mission, ready, finalizing>>
    /\ (phase' = "waiting") = (phase = "waiting")
    /\ (phase' \in {"started", "bypassed"}) = (phase \in {"started", "bypassed"})
    /\ toClient'[d] = toClient[d]
    /\ client'[d].revision = client[d].revision
    /\ channel'[d] = "ready" =>
         /\ channel[d] = "ready"
         /\ client'[d].phase = client[d].phase
         /\ client'[d].mission = client[d].mission

(* A new revision, sent to d if its channel is open.                        *)
Broadcast(d) ==
    /\ revision' = revision + 1
    /\ toClient'[d] = IF channel'[d] = "ready" THEN Append(toClient[d], Snapshot')
                      ELSE toClient[d]
    /\ client'[d].revision = client[d].revision

LEMMA ViewTypes ==
    ASSUME TypeOK, NEW d \in Clients
    PROVE  /\ toClient[d] \in Seq(HostMessages)
           /\ client[d].revision \in Nat /\ revision \in Nat
           /\ Snapshot \in Snapshots /\ Snapshot.revision = revision
<1>1. Snapshot \in Snapshots /\ Snapshot.revision = revision
  BY DEF TypeOK, HostTypeOK, Snapshot, Snapshots
<1>2. client[d].revision \in Nat
  BY DEF TypeOK, ClientStates
<1> QED
  BY <1>1, <1>2 DEF TypeOK, HostTypeOK, LinkTypeOK

LEMMA StillSees ==
    ASSUME TypeOK, NEW d \in Clients, View(d), Still(d)
    PROVE  View(d)' /\ (Informed(d) => Informed(d)')
<1>1. Shows(Snapshot)' = Shows(Snapshot)
  BY DEF Still, Shows, Snapshot
<1>2. View(d)'
  BY <1>1 DEF Still, View
<1>3. Informed(d) => Informed(d)'
  BY DEF Still, Informed, Follows
<1> QED
  BY <1>2, <1>3

LEMMA BroadcastSees ==
    ASSUME TypeOK, TypeOK', NEW d \in Clients, View(d), Broadcast(d)
    PROVE  View(d)' /\ Informed(d)'
<1> DEFINE q == toClient[d]
           low == client[d].revision
           rev == revision'
           s == Snapshot'
<1>1. /\ q \in Seq(HostMessages) /\ low \in Nat /\ revision \in Nat
      /\ rev \in Nat /\ rev = revision + 1
      /\ s \in Snapshots /\ s.revision = rev
      /\ low <= revision /\ Ordered(q, low, revision)
  <2>1. Snapshot' \in Snapshots /\ Snapshot'.revision = revision'
    BY DEF TypeOK, HostTypeOK, Snapshot, Snapshots
  <2> QED
    BY <2>1, ViewTypes DEF Broadcast, View
<1>2. client'[d].revision = low
  BY DEF Broadcast
<1>3. toClient'[d] = IF channel'[d] = "ready" THEN Append(q, s) ELSE q
  BY DEF Broadcast
<1>4. View(d)' <=> /\ client'[d].revision <= rev
                   /\ Ordered(toClient'[d], client'[d].revision, rev)
                   /\ Tells(toClient'[d], rev, Shows(s))
  BY DEF View
<1> HIDE DEF q, low, rev, s
<1>5. Tells(q, rev, Shows(s)) /\ Ordered(q, low, rev) /\ low <= rev
  BY <1>1, TellsNothing
<1>6. /\ Ordered(Append(q, s), low, rev)
      /\ Tells(Append(q, s), rev, Shows(s))
      /\ Holds(Append(q, s), rev)
  BY <1>1, <1>5, QueueAppend
<1>7. View(d)'
  BY <1>2, <1>3, <1>4, <1>5, <1>6
<1>8. Informed(d)'
  <2>1. channel'[d] = "ready" => Holds(toClient'[d], rev)
    BY <1>3, <1>6
  <2> QED
    BY <2>1 DEF Informed, rev
<1> QED
  BY <1>7, <1>8

(* A reply shows d what the host is.                                        *)
LEMMA ReplySees ==
    ASSUME TypeOK, NEW d \in Clients, View(d),
           UNCHANGED <<revision, mission, ready, finalizing, phase, client>>,
           NEW q \in Seq(HostMessages),
           Ordered(q, client[d].revision, revision),
           Tells(q, revision, Shows(Snapshot)),
           toClient'[d] = Append(q, Snapshot)
    PROVE  View(d)' /\ Informed(d)'
<1>1. Shows(Snapshot)' = Shows(Snapshot)
  BY DEF Shows, Snapshot
<1>2. /\ client[d].revision \in Nat /\ revision \in Nat
      /\ Snapshot \in Snapshots /\ Snapshot.revision = revision
      /\ client[d].revision <= revision
  BY ViewTypes DEF View
<1>3. /\ Ordered(toClient'[d], client[d].revision, revision)
      /\ Tells(toClient'[d], revision, Shows(Snapshot))
      /\ Holds(toClient'[d], revision)
  BY <1>2, QueueAppend
<1> QED
  BY <1>1, <1>2, <1>3 DEF View, Informed

(* The connection of d is gone.                                             *)
LEMMA GoneSees ==
    ASSUME NEW d \in Clients, revision' \in Nat, client'[d].revision = 0,
           toClient'[d] = <<>>, channel'[d] # "ready"
    PROVE  View(d)' /\ Informed(d)'
<1>1. Ordered(toClient'[d], client'[d].revision, revision')
  BY EmptyQueue
<1>2. Tells(toClient'[d], revision', Shows(Snapshot'))
  BY EmptyQueue
<1> QED
  BY <1>1, <1>2 DEF View, Informed

LEMMA ReceivesSees ==
    ASSUME BarrierInv, NEW d \in Clients, View(d), Joined(d), ClientReceives(d)
    PROVE  View(d)' /\ (Informed(d) /\ phase # "bypassed" => Informed(d)')
<1> DEFINE q == toClient[d]
           msg == Head(q)
           low == client[d].revision
           shown == Shows(Snapshot)
<1>1. /\ q \in Seq(HostMessages) /\ q # <<>>
      /\ toClient'[d] = Tail(q)
      /\ UNCHANGED <<phase, mission, revision, ready, finalizing, channel>>
      /\ low \in Nat /\ revision \in Nat /\ low <= revision
      /\ Ordered(q, low, revision) /\ Tells(q, revision, shown)
  BY ViewTypes DEF BarrierInv, TypeOK, LinkTypeOK, ClientReceives, hostVars, View
<1>2. shown' = shown
  BY <1>1 DEF Shows, Snapshot
<1>3. /\ Ordered(Tail(q), low, revision)
      /\ Tells(Tail(q), revision, shown)
      /\ NoSnapshots(q) => NoSnapshots(Tail(q)) /\ ~IsSnapshot(msg)
      /\ IsSnapshot(msg) =>
           /\ low <= msg.revision /\ msg.revision <= revision
           /\ Ordered(Tail(q), msg.revision, revision)
           /\ msg.revision = revision => Shows(msg) = shown
      /\ Holds(q, revision) =>
           \/ Holds(Tail(q), revision)
           \/ /\ IsSnapshot(msg) /\ msg.revision = revision
              /\ NoSnapshots(Tail(q))
  <2> HIDE DEF q, low, shown
  <2> QED
    BY <1>1, QueueTail
<1>4. msg \in HostMessages /\ client[d] \in ClientStates
  BY <1>1 DEF BarrierInv, TypeOK
<1>5. View(d)' <=> /\ client'[d].revision <= revision
                   /\ Ordered(Tail(q), client'[d].revision, revision)
                   /\ Tells(Tail(q), revision, shown)
  BY <1>1, <1>2 DEF View
<1>6. Informed(d)' <=> (channel[d] = "ready" =>
                          \/ Holds(Tail(q), revision)
                          \/ NoSnapshots(Tail(q)) /\ Follows(d)')
  BY <1>1 DEF Informed
<1>7. CASE msg.type = "channel_ready"
  <2>1. ~IsSnapshot(msg)
    BY <1>7 DEF IsSnapshot
  <2>2. /\ client'[d].revision = low
        /\ client'[d].phase = client[d].phase
        /\ client'[d].mission = client[d].mission
    <3>1. client' = [client EXCEPT ![d].available = TRUE,
                                   ![d].hello = client[d].phase = "waiting"]
      BY <1>7 DEF ClientReceives, ClientChannelReady
    <3> QED
      BY <1>4, <3>1 DEF BarrierInv, TypeOK, ClientStates
  <2>3. Follows(d) => Follows(d)'
    BY <1>1, <2>2 DEF Follows
  <2> QED
    BY <1>1, <1>3, <1>5, <1>6, <2>1, <2>2, <2>3 DEF Informed
<1>8. CASE msg.type = "snapshot"
  <2>1. IsSnapshot(msg) /\ msg \in Snapshots
    BY <1>4, <1>8 DEF IsSnapshot, HostMessages
  <2>2. client'[d] = Viewed(client[d], msg)
    <3>1. ~(msg.revision < low)
      BY <1>1, <1>3, <2>1 DEF Snapshots
    <3>2. client' = [client EXCEPT ![d] = Viewed(@, msg)]
      BY <1>8, <3>1 DEF ClientReceives, ClientSnapshot
    <3> QED
      BY <3>2 DEF BarrierInv, TypeOK
  <2>3. /\ client'[d].revision = msg.revision
        /\ client'[d].mission = msg.mission
        /\ client'[d].phase = IF msg.started THEN "started" ELSE "waiting"
    BY <1>4, <2>2 DEF Viewed, ClientStates
  <2>4. View(d)'
    BY <1>3, <1>5, <2>1, <2>3
  <2>5. ASSUME msg.revision = revision, phase # "bypassed"
        PROVE  Follows(d)'
    <3>3. phase \in {"waiting", "started"}
      <4>1. client[d].conn = "in"
        BY <1>1 DEF BarrierInv, HandshakeComesFirst, HandshakeFirst
      <4> QED
        BY <2>5, <4>1 DEF Joined
    <3>1. Shows(msg) = shown
      BY <1>3, <2>1, <2>5
    <3>2. msg.mission = mission /\ msg.started = (phase \in {"started", "bypassed"})
      BY <3>1 DEF Shows, Snapshot
    <3> QED
      BY <1>1, <2>3, <3>2, <3>3 DEF Follows
  <2> QED
    BY <1>1, <1>3, <1>6, <2>1, <2>4, <2>5 DEF Informed
<1> QED
  BY <1>7, <1>8 DEF ClientReceives

-----------------------------------------------------------------------------
(* Every step is of one of these kinds for every client.                    *)

LEMMA ConfigureSees ==
    ASSUME NEW m \in Missions, ConfigureMission(m), UNCHANGED clientVars,
           NEW d \in Clients
    PROVE  Broadcast(d)
  BY DEF ConfigureMission, Announce, Broadcast, clientVars

LEMMA SetReadySees ==
    ASSUME NEW p \in Peers, NEW STATE value, SetHostReady(p, value),
           UNCHANGED <<channel, clientVars>>, NEW d \in Clients
    PROVE  Still(d) \/ Broadcast(d)
  BY DEF SetHostReady, Announce, Broadcast, Still, clientVars, hostVars

LEMMA HostSees ==
    ASSUME TypeOK, HostNext, ~HostStops, NEW d \in Clients
    PROVE  Still(d) \/ Broadcast(d)
<1>1. CASE HostBootStarted
  BY <1>1 DEF HostBootStarted, Still, linkVars, clientVars
<1>2. ASSUME NEW m \in Missions, HostMechanismConfigured(m) \/ HostTransition(m)
      PROVE  Broadcast(d)
  BY <1>2, ConfigureSees DEF HostMechanismConfigured, HostTransition
<1>3. CASE ServerSettingsChanged
  <2>1. CASE phase = "waiting"
    BY <1>3, <2>1 DEF ServerSettingsChanged, Announce, Broadcast, clientVars
  <2>2. CASE phase # "waiting"
    BY <1>3, <2>2 DEF ServerSettingsChanged, Still, clientVars
  <2> QED
    BY <2>1, <2>2
<1>4. CASE HostPressesReady
  BY <1>4, SetReadySees DEF HostPressesReady, Peers
<1>5. CASE CountdownElapses
  BY <1>5 DEF CountdownElapses, Still, linkVars, clientVars
<1>6. CASE HostFrame
  <2>1. CASE BeginFinalizing \/ StartMission
    BY <1>6, <2>1 DEF HostFrame, BeginFinalizing, StartMission, Announce,
                      Broadcast, clientVars
  <2>2. CASE PreparationIdle
    BY <1>6, <2>2 DEF HostFrame, PreparationIdle, Still, hostVars, clientVars
  <2> QED
    BY <1>6, <2>1, <2>2 DEF HostFrame
<1>7. CASE HostUpdatesProfile
  BY <1>7 DEF HostUpdatesProfile, Still, hostVars, linkVars, clientVars
<1> QED
  BY <1>1, <1>2, <1>3, <1>4, <1>5, <1>6, <1>7 DEF HostNext

(* What View and Informed become in a step, for one client.                 *)
Sees(d) ==
    View(d)' /\ (phase # "bypassed" /\ phase' # "bypassed" /\ Informed(d) => Informed(d)')

LEMMA KindsSee ==
    ASSUME TypeOK, TypeOK', NEW d \in Clients, View(d), Still(d) \/ Broadcast(d)
    PROVE  Sees(d)
  BY StillSees, BroadcastSees DEF Sees

LEMMA StopSees ==
    ASSUME SeesInv, HostStops, NEW d \in Clients
    PROVE  Sees(d)
<1>1. client[d].conn = "out" /\ client[d].revision = 0
  BY DEF HostStops, SeesInv, Joined
<1>2. channel[d] = "none" /\ toClient[d] = <<>>
  BY <1>1 DEF SeesInv, BarrierInv, HandshakeComesFirst, HandshakeFirst
<1>3. revision' \in Nat /\ UNCHANGED <<client, channel, toClient>>
  BY DEF HostStops, linkVars, clientVars
<1> QED
  BY <1>1, <1>2, <1>3, GoneSees DEF Sees

(* A client that has sent something is connected.                           *)
LEMMA SenderJoined ==
    ASSUME SeesInv, NEW c \in Clients, toHost[c] # <<>>
    PROVE  phase \in {"waiting", "started", "bypassed"}
<1>1. client[c].conn = "in"
  BY DEF SeesInv, BarrierInv, HandshakeComesFirst, HandshakeFirst
<1> QED
  BY <1>1 DEF SeesInv, Joined

LEMMA HostReceivesSees ==
    ASSUME SeesInv, TypeOK', NEW c \in Clients, HostReceives(c), NEW d \in Clients
    PROVE  Sees(d)
<1> DEFINE msg == Head(toHost[c])
<1>a. View(d) /\ Joined(d) /\ TypeOK
  BY DEF SeesInv, BarrierInv
<1>b. UNCHANGED <<client, clientVars>>
  BY DEF HostReceives, clientVars
<1>1. CASE msg.type = "entered" /\ RemoteConnected(c)
  <2>1. channel'[d] = "ready" => channel[d] = "ready"
    BY <1>1, <1>a DEF RemoteConnected, TypeOK, LinkTypeOK
  <2>2. Still(d) \/ Broadcast(d)
    BY <1>1, <1>b, <2>1 DEF RemoteConnected, Announce, Still, Broadcast, hostVars
  <2> QED
    BY <1>a, <2>2, KindsSee
<1>2. ASSUME UNCHANGED hostVars,
             channel'[d] = "ready" => channel[d] = "ready",
             toClient'[d] = toClient[d]
      PROVE  Sees(d)
  <2>1. Still(d)
    BY <1>2, <1>b DEF Still, hostVars
  <2> QED
    BY <1>a, <2>1, KindsSee
<1>3. CASE msg.type = "channel_hello" /\ ChannelHello(c)
  <2>1. CASE d # c
    BY <1>2, <1>3, <1>a, <2>1 DEF ChannelHello, TypeOK, LinkTypeOK
  <2>2. CASE d = c
    <3> DEFINE q == Append(toClient[d], [type |-> "channel_ready"])
    <3>1. /\ q \in Seq(HostMessages)
          /\ Ordered(q, client[d].revision, revision)
          /\ Tells(q, revision, Shows(Snapshot))
      BY <1>a, ViewTypes, QueueOpens DEF View
    <3>2. toClient[d] \in Seq(HostMessages)
      BY <1>a, ViewTypes
    <3>3. CASE phase \in {"waiting", "started"}
      <4>1. toClient'[d] = (toClient[d] \o <<[type |-> "channel_ready"]>>) \o <<Snapshot>>
        BY <1>3, <1>a, <2>2, <3>3 DEF ChannelHello, TypeOK, LinkTypeOK
      <4>2. [type |-> "channel_ready"] \in HostMessages /\ Snapshot \in HostMessages
        BY <1>a, ViewTypes DEF HostMessages
      <4>3. toClient'[d] = Append(q, Snapshot)
        <5>1. toClient[d] \o <<[type |-> "channel_ready"]>> = q
          BY <3>2, <4>2
        <5> HIDE DEF q
        <5>2. q \o <<Snapshot>> = Append(q, Snapshot)
          BY <3>1, <4>2
        <5> QED
          BY <4>1, <5>1, <5>2
      <4> HIDE DEF q
      <4> QED
        BY <1>3, <1>a, <1>b, <3>1, <4>3, ReplySees DEF ChannelHello, hostVars, Sees
    <3>4. CASE phase \notin {"waiting", "started"}
      <4>1. toClient'[d] = (toClient[d] \o <<[type |-> "channel_ready"]>>) \o <<>>
        BY <1>3, <1>a, <2>2, <3>4 DEF ChannelHello, TypeOK, LinkTypeOK
      <4>2. [type |-> "channel_ready"] \in HostMessages
        BY DEF HostMessages
      <4>3. toClient'[d] = q
        <5>1. toClient[d] \o <<[type |-> "channel_ready"]>> = q
          BY <3>2, <4>2
        <5> HIDE DEF q
        <5> QED
          BY <3>1, <4>1, <5>1
      <4>4. Shows(Snapshot)' = Shows(Snapshot) /\ UNCHANGED <<revision, client, phase>>
        BY <1>3, <1>b DEF ChannelHello, hostVars, Shows, Snapshot
      <4>5. client[d].revision <= revision
        BY <1>a DEF View
      <4> HIDE DEF q
      <4>6. View(d)'
        BY <3>1, <4>3, <4>4, <4>5 DEF View
      <4>7. phase \in {"waiting", "started", "bypassed"}
        BY <2>2, SenderJoined DEF HostReceives
      <4> QED
        BY <3>4, <4>6, <4>7 DEF Sees
    <3> QED
      BY <3>3, <3>4
  <2> QED
    BY <2>1, <2>2
<1>4. CASE msg.type = "hello" /\ ReceiveHello(c)
  <2>1. CASE d # c \/ phase \notin {"waiting", "started"}
    BY <1>2, <1>4, <1>a, <2>1 DEF ReceiveHello, TypeOK, LinkTypeOK
  <2>2. CASE d = c /\ phase \in {"waiting", "started"}
    <3>1. toClient'[d] = Append(toClient[d], Snapshot)
      BY <1>4, <1>a, <2>2 DEF ReceiveHello, TypeOK, LinkTypeOK
    <3> QED
      BY <1>4, <1>a, <1>b, <3>1, ViewTypes, ReplySees
      DEF ReceiveHello, hostVars, View, Sees
  <2> QED
    BY <2>1, <2>2
<1>5. CASE msg.type = "ready" /\ ReceiveReady(c, msg.value)
  <2>1. CASE phase = "waiting"
    <3>1. Still(d) \/ Broadcast(d)
      BY <1>5, <1>b, <2>1, SetReadySees DEF ReceiveReady, Peers
    <3> QED
      BY <1>a, <3>1, KindsSee
  <2>2. CASE phase # "waiting"
    BY <1>2, <1>5, <2>2 DEF ReceiveReady
  <2> QED
    BY <2>1, <2>2
<1>6. CASE /\ msg.type \in {"profile_pending", "profile_update", "profile_cancel"}
           /\ ReceiveProfile(c, msg)
  BY <1>2, <1>6 DEF ReceiveProfile
<1> QED
  BY <1>1, <1>3, <1>4, <1>5, <1>6 DEF HostReceives

LEMMA ClientSees ==
    ASSUME SeesInv, TypeOK', NEW c \in Clients, ClientNext(c), NEW d \in Clients
    PROVE  Sees(d)
<1>a. /\ TypeOK /\ HandshakeFirst(c) /\ View(d) /\ Joined(c)
      /\ client[c] \in ClientStates
  BY DEF SeesInv, BarrierInv, HandshakeComesFirst, TypeOK
<1>1. ASSUME UNCHANGED <<hostVars, channel, toClient>>,
             client'[d].revision = client[d].revision,
             channel[d] = "ready" => /\ client'[d].phase = client[d].phase
                                     /\ client'[d].mission = client[d].mission
      PROVE  Sees(d)
  <2>1. Still(d)
    BY <1>1 DEF Still, hostVars
  <2> QED
    BY <1>a, <2>1, KindsSee
<1>2. CASE HostReceives(c)
  BY <1>2, HostReceivesSees
<1>3. CASE HostAdmits(c)
  <2>1. UNCHANGED <<hostVars, channel, toClient>> /\ client[c].conn = "out"
    BY <1>3 DEF HostAdmits, linkVars
  <2>2. client[c].revision = 0 /\ channel[c] # "ready"
    BY <1>a, <2>1 DEF Joined, HandshakeFirst
  <2>3. client'[d].revision = client[d].revision /\ (d # c => client'[d] = client[d])
    BY <1>3, <1>a, <2>2 DEF HostAdmits, NoClient, TypeOK
  <2> QED
    BY <1>1, <2>1, <2>2, <2>3
<1>4. CASE ClientActivates(c)
  <2>1. UNCHANGED <<hostVars, channel, toClient>> /\ client[c].conn = "joining"
    BY <1>4 DEF ClientActivates
  <2>2. channel[c] # "ready"
    BY <1>a, <2>1 DEF HandshakeFirst
  <2>3. client'[d].revision = client[d].revision /\ (d # c => client'[d] = client[d])
    BY <1>4, <1>a DEF ClientActivates, TypeOK, ClientStates
  <2> QED
    BY <1>1, <2>1, <2>2, <2>3
<1>5. CASE Disconnect(c)
  <2>1. CASE d = c
    <3>1. client'[d].revision = 0 /\ channel'[d] # "ready"
      BY <1>5, <1>a, <2>1 DEF Disconnect, NoClient, TypeOK, LinkTypeOK
    <3>2. toClient'[d] = <<>>
      BY <1>5, <1>a, <2>1, <3>1
      DEF Disconnect, RemoteDisconnected, Announce, TypeOK, LinkTypeOK
    <3>3. revision' \in Nat
      BY DEF TypeOK, HostTypeOK
    <3> QED
      BY <3>1, <3>2, <3>3, GoneSees DEF Sees
  <2>2. CASE d # c
    <3>1. client'[d] = client[d] /\ channel'[d] = channel[d]
      BY <1>5, <1>a, <2>2 DEF Disconnect, TypeOK, LinkTypeOK
    <3>2. [toClient EXCEPT ![c] = <<>>][d] = toClient[d]
      BY <1>a, <2>2 DEF TypeOK, LinkTypeOK
    <3>3. Still(d) \/ Broadcast(d)
      <4>1. CASE UNCHANGED hostVars /\ toClient' = [toClient EXCEPT ![c] = <<>>]
        BY <3>1, <3>2, <4>1 DEF Still, hostVars
      <4>2. CASE revision' = revision + 1 /\ Announce([toClient EXCEPT ![c] = <<>>])
        BY <3>1, <3>2, <4>2 DEF Broadcast, Announce
      <4> QED
        BY <1>5, <4>1, <4>2 DEF Disconnect, RemoteDisconnected
    <3> QED
      BY <1>a, <3>3, KindsSee
  <2> QED
    BY <2>1, <2>2
<1>6. CASE ClientReceives(c)
  <2>1. CASE d = c
    BY <1>6, <1>a, <2>1, ReceivesSees DEF SeesInv, Sees
  <2>2. CASE d # c
    <3>1. /\ UNCHANGED <<hostVars, channel>> /\ toClient'[d] = toClient[d]
          /\ client'[d] = client[d]
      BY <1>6, <1>a, <2>2
      DEF ClientReceives, ClientChannelReady, ClientSnapshot, TypeOK, LinkTypeOK
    <3>2. Still(d)
      BY <3>1 DEF Still, hostVars
    <3> QED
      BY <1>a, <3>2, KindsSee
  <2> QED
    BY <2>1, <2>2
<1>7. CASE ClientFrame(c)
  <2>1. /\ UNCHANGED <<hostVars, channel, toClient>>
        /\ client'[d].revision = client[d].revision
        /\ client'[d].phase = client[d].phase
        /\ client'[d].mission = client[d].mission
    BY <1>7, <1>a DEF ClientFrame, TypeOK, ClientStates
  <2> QED
    BY <1>1, <2>1
<1>8. CASE \/ ClientPressesReady(c) \/ ClientChangesLoadout(c)
           \/ ClientFetchReturns(c) \/ ClientFetchFails(c)
  <2>1. UNCHANGED <<hostVars, channel, toClient, client>>
    BY <1>8 DEF ClientPressesReady, ClientChangesLoadout, ClientFetchReturns,
                ClientFetchFails, clientVars
  <2> QED
    BY <1>1, <2>1
<1> QED
  BY <1>2, <1>3, <1>4, <1>5, <1>6, <1>7, <1>8 DEF ClientNext

-----------------------------------------------------------------------------
LEMMA JoinedStep ==
    ASSUME SeesInv, Next, NEW d \in Clients
    PROVE  Joined(d)'
<1>a. Joined(d) /\ TypeOK
  BY DEF SeesInv, BarrierInv
<1> DEFINE session == {"waiting", "started", "bypassed"}
<1>1. ASSUME phase \in session => phase' \in session,
             client'[d].conn = client[d].conn,
             client'[d].revision = client[d].revision
      PROVE  Joined(d)'
  BY <1>1, <1>a DEF Joined
<1>2. CASE HostStops
  <2>1. client[d].conn = "out" /\ UNCHANGED client
    BY <1>2 DEF HostStops, clientVars
  <2> QED
    BY <1>a, <2>1 DEF Joined
<1>3. CASE HostNext /\ ~HostStops
  <2>1. UNCHANGED client /\ (phase \in session => phase' \in session)
    BY <1>3 DEF HostNext, HostBootStarted, HostMechanismConfigured, HostTransition,
                ConfigureMission, ServerSettingsChanged, HostPressesReady,
                SetHostReady, CountdownElapses, HostFrame, BeginFinalizing,
                StartMission, PreparationIdle, HostUpdatesProfile, hostVars,
                clientVars
  <2> QED
    BY <1>1, <2>1
<1>4. ASSUME NEW c \in Clients, ClientNext(c) PROVE Joined(d)'
  <2>1. UNCHANGED phase
    BY <1>4 DEF ClientNext, HostReceives, RemoteConnected, ChannelHello,
                ReceiveHello, ReceiveReady, SetHostReady, ReceiveProfile,
                HostAdmits, ClientActivates, Disconnect, RemoteDisconnected,
                ClientReceives, ClientFrame, ClientPressesReady,
                ClientChangesLoadout, ClientFetchReturns, ClientFetchFails, hostVars
  <2>2. CASE d # c
    <3>1. client'[d] = client[d]
      BY <1>4, <1>a, <2>2
      DEF ClientNext, HostReceives, HostAdmits, ClientActivates, Disconnect,
          ClientReceives, ClientChannelReady, ClientSnapshot, ClientFrame,
          ClientPressesReady, ClientChangesLoadout, ClientFetchReturns,
          ClientFetchFails, clientVars, TypeOK
    <3> QED
      BY <1>1, <2>1, <3>1
  <2>3. CASE d = c
    <3>1. CASE HostAdmits(c)
      BY <1>a, <2>1, <2>3, <3>1 DEF HostAdmits, NoClient, TypeOK, Joined
    <3>2. CASE Disconnect(c)
      BY <1>a, <2>3, <3>2 DEF Disconnect, NoClient, TypeOK, Joined
    <3>3. CASE ClientActivates(c)
      BY <1>a, <2>1, <2>3, <3>3 DEF ClientActivates, TypeOK, ClientStates, Joined
    <3>4. CASE ClientReceives(c)
      <4>1. client[d].conn = "in"
        BY <2>3, <3>4 DEF ClientReceives, SeesInv, BarrierInv, HandshakeComesFirst,
                          HandshakeFirst
      <4>2. client'[d].conn = client[d].conn
        BY <1>a, <2>3, <3>4
        DEF ClientReceives, ClientChannelReady, ClientSnapshot, Viewed, TypeOK,
            ClientStates
      <4> QED
        BY <1>a, <2>1, <4>1, <4>2 DEF Joined
    <3>5. CASE ClientFrame(c)
      <4>1. /\ client'[d].conn = client[d].conn
            /\ client'[d].revision = client[d].revision
        BY <1>a, <2>3, <3>5 DEF ClientFrame, TypeOK, ClientStates
      <4> QED
        BY <1>1, <2>1, <4>1
    <3>6. CASE UNCHANGED client
      BY <1>1, <2>1, <3>6
    <3> QED
      BY <1>4, <3>1, <3>2, <3>3, <3>4, <3>5, <3>6
      DEF ClientNext, HostReceives, ClientPressesReady, ClientChangesLoadout,
          ClientFetchReturns, ClientFetchFails, clientVars
  <2> QED
    BY <2>2, <2>3
<1> QED
  BY <1>2, <1>3, <1>4 DEF Next

LEMMA StepSees ==
    ASSUME SeesInv, TypeOK', Next, NEW d \in Clients
    PROVE  Sees(d)
<1>1. CASE HostStops
  BY <1>1, StopSees
<1>2. CASE HostNext /\ ~HostStops
  BY <1>2, HostSees, KindsSee DEF SeesInv, BarrierInv
<1>3. ASSUME NEW c \in Clients, ClientNext(c) PROVE Sees(d)
  BY <1>3, ClientSees
<1> QED
  BY <1>1, <1>2, <1>3 DEF Next

LEMMA InitSees == Init => NewestInv
<1> SUFFICES ASSUME Init PROVE NewestInv
  OBVIOUS
<1>1. BarrierInv
  BY InitBarrier
<1>2. ASSUME NEW d \in Clients PROVE View(d) /\ Joined(d) /\ Informed(d)
  <2>1. /\ toClient[d] = <<>> /\ channel[d] = "none" /\ revision = 0
        /\ client[d].revision = 0 /\ client[d].conn = "out"
    BY DEF Init, NoClient
  <2>2. Ordered(toClient[d], 0, 0) /\ Tells(toClient[d], 0, Shows(Snapshot))
    BY <2>1, EmptyQueue
  <2> QED
    BY <2>1, <2>2 DEF View, Joined, Informed
<1>3. phase # "bypassed"
  BY DEF Init
<1> QED
  BY <1>1, <1>2, <1>3 DEF NewestInv, SeesInv, NoBypass

LEMMA StutterSees ==
    ASSUME UNCHANGED vars, NEW d \in Clients
    PROVE  /\ View(d) => View(d)'
           /\ Joined(d) => Joined(d)'
           /\ Informed(d) => Informed(d)'
<1>1. UNCHANGED <<hostVars, channel, toClient, client, Snapshot>>
  BY DEF vars, hostVars, linkVars, clientVars, optionVars, Snapshot
<1> QED
  BY <1>1 DEF View, Joined, Informed, Follows, hostVars

(* Without missions that bypass the preparation no phase does.              *)
LEMMA NeverBypassed ==
    ASSUME BypassMissions = {}, phase # "bypassed", Next
    PROVE  phase' # "bypassed"
<1>1. ASSUME NEW m \in Missions, ConfigureMission(m) PROVE phase' = "waiting"
  BY <1>1 DEF ConfigureMission
<1>2. CASE HostNext
  BY <1>1, <1>2 DEF HostNext, HostBootStarted, HostMechanismConfigured,
                HostTransition, HostStops, ServerSettingsChanged, HostPressesReady,
                SetHostReady, CountdownElapses, HostFrame, BeginFinalizing,
                StartMission, PreparationIdle, HostUpdatesProfile, hostVars
<1>3. ASSUME NEW c \in Clients, ClientNext(c) PROVE UNCHANGED phase
  BY <1>3 DEF ClientNext, HostReceives, RemoteConnected, ChannelHello,
              ReceiveHello, ReceiveReady, SetHostReady, ReceiveProfile,
              HostAdmits, ClientActivates, Disconnect, RemoteDisconnected,
              ClientReceives, ClientFrame, ClientPressesReady,
              ClientChangesLoadout, ClientFetchReturns, ClientFetchFails, hostVars
<1> QED
  BY <1>2, <1>3 DEF Next

LEMMA NewestStep == NewestInv /\ [Next]_vars => NewestInv'
<1> SUFFICES ASSUME NewestInv, [Next]_vars PROVE NewestInv'
  OBVIOUS
<1>1. BarrierInv'
  BY BarrierStep DEF NewestInv, SeesInv
<1>2. CASE UNCHANGED vars
  BY <1>1, <1>2, StutterSees DEF NewestInv, SeesInv, NoBypass, vars, hostVars
<1>3. CASE Next
  <2>1. \A d \in Clients : View(d)' /\ Joined(d)'
    BY <1>1, <1>3, StepSees, JoinedStep DEF NewestInv, BarrierInv, Sees
  <2>2. ASSUME BypassMissions = {}
        PROVE  phase' # "bypassed" /\ \A d \in Clients : Informed(d)'
    <3>1. phase # "bypassed" /\ phase' # "bypassed" /\ SeesInv
      BY <1>3, <2>2, NeverBypassed DEF NewestInv, NoBypass
    <3> QED
      BY <1>1, <1>3, <2>2, <3>1, StepSees DEF NewestInv, NoBypass, BarrierInv, Sees
  <2> QED
    BY <1>1, <2>1, <2>2 DEF NewestInv, SeesInv, NoBypass
<1> QED
  BY <1>2, <1>3

(* Every snapshot under way or applied is the host's state as it was at its *)
(* revision, and the last of a client's queue is the newest                 *)
(* (broadcast_snapshot, apply_snapshot).                                    *)
THEOREM NewestInvariant == Spec => []NewestInv
  BY InitSees, NewestStep, PTL DEF Spec

(* Snapshots reach a client in the order of their revisions, none newer     *)
(* than the host, and one that carries the host's revision shows the host's *)
(* state: nothing a client sees changes without a new revision, in sessions *)
(* with bypassed missions too (broadcast_snapshot, apply_snapshot).         *)
THEOREM RevisionsCorrect == Spec => [](RevisionIdentifiesState /\ RevisionsInOrder)
<1>1. NewestInv => RevisionIdentifiesState /\ RevisionsInOrder
  BY DEF NewestInv, SeesInv, View, Ordered, Tells, IsSnapshot, SnapshotsTo,
         RevisionIdentifiesState, RevisionsInOrder
<1> QED
  BY <1>1, NewestInvariant, PTL

(* In a session whose missions are all prepared for, a client that has      *)
(* handled everything is in the host's phase and on its mission.  With a    *)
(* mission that bypasses the preparation this fails: the handshake of a     *)
(* channel then sends no snapshot.                                          *)
THEOREM ClientsCorrect == BypassMissions = {} => (Spec => []ClientsSeeTheHost)
<1> SUFFICES ASSUME BypassMissions = {} PROVE Spec => []ClientsSeeTheHost
  OBVIOUS
<1>1. NewestInv => RevisionIdentifiesState /\ RevisionsInOrder
  BY DEF NewestInv, SeesInv, View, Ordered, Tells, IsSnapshot, SnapshotsTo,
         RevisionIdentifiesState, RevisionsInOrder
<1>2. NewestInv => QuietClientsFollow
  <2> SUFFICES ASSUME NewestInv, NEW d \in Clients, Quiet(d) PROVE Follows(d)
    BY DEF QuietClientsFollow
  <2>1. toClient[d] = <<>> /\ channel[d] = "ready"
    BY DEF Quiet, NewestInv, SeesInv, BarrierInv, HandshakeComesFirst, HandshakeFirst
  <2>2. ~Holds(toClient[d], revision)
    BY <2>1 DEF Holds
  <2> QED
    BY <2>1, <2>2 DEF NewestInv, NoBypass, Informed
<1> QED
  BY <1>1, <1>2, NewestInvariant, PTL DEF ClientsSeeTheHost

=============================================================================
