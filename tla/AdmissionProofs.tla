---------------------------- MODULE AdmissionProofs ----------------------------
(***************************************************************************)
(* Proofs about Admission, for every set of clients and slots and every    *)
(* policy of the host.                                                     *)
(*                                                                         *)
(* The safety properties are not inductive.  What makes them so is what    *)
(* the stage of a connection says about the rest of its record             *)
(* (StagesFit), what the queue of events says about connections and        *)
(* members (EventsFit), and that pending introductions join connected      *)
(* clients (PeersFit).                                                     *)
(***************************************************************************)
EXTENDS Admission, FiniteSetTheorems, TLAPS

(* What the stage of a connection says about the rest of its record, and    *)
(* that a client the host does not know has left nothing behind.            *)
RecordFits(c) ==
    /\ c \notin remotes => stage[c] = Version /\ slot[c] = NoSlot /\ awaited[c] = {}
    /\ c \in bootRequested => stage[c] = Booted
    /\ awaited[c] # {} => stage[c] = Profiles
    /\ slot[c] # NoSlot => stage[c] >= LocalPlayers
    /\ slot[c] # NoSlot /\ stage[c] = LocalPlayers => c \in failed
    /\ c \in failed /\ stage[c] = Complete => link[c] = "closed"

StagesFit == \A c \in Clients : RecordFits(c)

(* What waits in the queue: a client's connection comes before its failure, *)
(* and each at most once.                                                   *)
EventsFit ==
    /\ \A i \in DOMAIN events :
          /\ events[i].name = "disconnected" => events[i].peer \in failed
          /\ events[i].name = "connected" => events[i].peer \in Connected
    /\ \A i, j \in DOMAIN events :
          i < j /\ events[i].peer = events[j].peer =>
             events[i].name = "connected" /\ events[j].name = "disconnected"
    /\ \A c \in Connected :
          \/ c \in members
          \/ \E i \in DOMAIN events : events[i] = [name |-> "connected", peer |-> c]

(* Only connected clients are told of others or are about to be.            *)
PeersFit ==
    /\ \A d \in Clients : d \notin Connected => told[d] = {}
    /\ \A p \in peerSyncs : p[1] \in Connected /\ p[2] \in Connected /\ p[1] # p[2]

AdmissionInv == /\ TypeOK /\ StagesFit /\ EventsFit /\ MembersAreConnected
                /\ SlotsAreOwned /\ PeersFit /\ PlayersAreIntroduced

USE DEF Version, Booted, MasterItems, HostType, Mechanism, ClaimsSlot, LocalPlayers,
        TickRate, Eac, Profiles, Dlc, SessionData, Stats, MechanismConnected,
        Entering, Complete

-----------------------------------------------------------------------------
(* Types.                                                                   *)

(* Queueing an event of a client keeps the queue well formed.               *)
LEMMA QueueType ==
    ASSUME TypeOK, NEW c \in Clients, NEW name \in {"connected", "disconnected"},
           Queue(name, c)
    PROVE  events' \in Seq(Events)
<1>1. [name |-> name, peer |-> c] \in Events
  BY DEF Events
<1> QED
  BY <1>1 DEF Queue, TypeOK

(* Failing a client changes its entry in four records only.                 *)
LEMMA FailType ==
    ASSUME TypeOK, NEW c \in remotes,
           NEW why \in {"error", "private", "full", "rejected", "timeout"}, Fail(c, why)
    PROVE  /\ events' \in Seq(Events) /\ failed' \subseteq remotes
           /\ closing' \subseteq Clients /\ link' = link
           /\ reason' \in [Clients -> {"none", "error", "private", "full", "rejected",
                                       "timeout", "kicked"}]
<1>1. c \in Clients
  BY DEF TypeOK
<1>2. Queue("disconnected", c)
  BY DEF Fail, RecordFailure
<1>3. events' \in Seq(Events)
  BY <1>1, <1>2, QueueType
<1> QED
  BY <1>1, <1>3 DEF Fail, RecordFailure, Reject, TypeOK

(* A connection that moves to another stage is still at one.                *)
LEMMA AdvanceType ==
    ASSUME TypeOK, NEW c \in Clients, NEW s \in Version .. Complete, Advance(c, s)
    PROVE  stage' \in [Clients -> Version .. Complete]
  BY DEF Advance, TypeOK

(* A reason to refuse a client is one that Fail may send.                   *)
LEMMA RefusalType == Refusal # "none" => Refusal \in {"error", "private", "full"}
  BY DEF Refusal

LEMMA RequestsType ==
    ASSUME TypeOK, NEW c \in Clients, Requests(c) PROVE TypeOK'
<1>1. CASE CheckAdmission(c)
  <2>1. PICK s \in {Version, ClaimsSlot} :
           /\ Asks(c, s)
           /\ IF Refusal # "none" THEN Fail(c, Refusal) /\ UNCHANGED stage
              ELSE Advance(c, s + 1) /\ UNCHANGED <<failed, events, linkVars>>
    BY <1>1 DEF CheckAdmission
  <2>2. CASE Refusal # "none"
    BY <1>1, <2>1, <2>2, FailType, RefusalType
    DEF CheckAdmission, Asks, TypeOK, syncVars, policyVars
  <2>3. CASE Refusal = "none"
    <3>1. s + 1 \in Version .. Complete /\ Advance(c, s + 1)
      BY <2>1, <2>3
    <3>2. stage' \in [Clients -> Version .. Complete]
      BY <3>1, AdvanceType
    <3>3. /\ UNCHANGED <<remotes, bootRequested, slot, awaited, syncVars, policyVars,
                        members, claimed, joins>>
          /\ UNCHANGED <<failed, events, linkVars>>
      BY <1>1, <2>1, <2>3 DEF CheckAdmission
    <3> QED
      BY <3>2, <3>3 DEF TypeOK, syncVars, policyVars, linkVars
  <2> QED
    BY <2>2, <2>3
<1>2. CASE ConnectionBooted(c)
  <2>1. CASE Advance(c, MasterItems) /\ UNCHANGED bootRequested
    <3>1. stage' \in [Clients -> Version .. Complete]
      BY <2>1, AdvanceType
    <3>2. UNCHANGED <<remotes, bootRequested, failed, slot, awaited, syncVars, policyVars, linkVars,
                      events, members, claimed, joins>>
      BY <1>2, <2>1 DEF ConnectionBooted
    <3> QED
      BY <3>1, <3>2 DEF TypeOK, syncVars, policyVars, linkVars
  <2>2. CASE bootRequested' = bootRequested \union {c} /\ UNCHANGED stage
    BY <1>2, <2>2 DEF ConnectionBooted, Asks, TypeOK, syncVars, policyVars, linkVars
  <2> QED
    BY <1>2, <2>1, <2>2 DEF ConnectionBooted
<1>3. CASE RequestMasterItems(c)
  <2>1. CASE Fail(c, "error") /\ UNCHANGED stage
    BY <1>3, <2>1, FailType DEF RequestMasterItems, Asks, TypeOK, syncVars, policyVars
  <2>2. CASE Advance(c, HostType) /\ UNCHANGED <<failed, events, linkVars>>
    BY <1>3, <2>2 DEF RequestMasterItems, Advance, TypeOK, syncVars, policyVars, linkVars
  <2> QED
    BY <1>3, <2>1, <2>2 DEF RequestMasterItems
<1>4. CASE CheckMechanism(c)
  <2>1. CASE UNCHANGED stage /\ \E why \in {"rejected", "error", "private", "full"} : Fail(c, why)
    BY <1>4, <2>1, FailType DEF CheckMechanism, Asks, TypeOK, syncVars, policyVars
  <2>2. CASE Advance(c, ClaimsSlot) /\ UNCHANGED <<failed, events, linkVars>>
    BY <1>4, <2>2 DEF CheckMechanism, Advance, TypeOK, syncVars, policyVars, linkVars
  <2> QED
    BY <1>4, <2>1, <2>2, RefusalType DEF CheckMechanism
<1>5. CASE PlainRequest(c)
  BY <1>5 DEF PlainRequest, PlainStages, Asks, Advance, TypeOK, syncVars, policyVars,
     linkVars
<1>6. CASE SyncLocalPlayers(c)
  <2>1. stage' \in [Clients -> Version .. Complete]
    <3>1. CASE UNCHANGED stage
      BY <3>1 DEF TypeOK
    <3>2. CASE Advance(c, TickRate)
      BY <3>2, AdvanceType
    <3> QED
      BY <1>6, <3>1, <3>2 DEF SyncLocalPlayers
  <2>2. slot' \in [Clients -> Slots \union {NoSlot}] /\ claimed' \subseteq Slots
    <3>1. CASE UNCHANGED <<slot, claimed>>
      BY <3>1 DEF TypeOK
    <3>2. ASSUME NEW f \in Slots, slot' = [slot EXCEPT ![c] = f],
                 claimed' = claimed \union {slot'[c]}
          PROVE  slot' \in [Clients -> Slots \union {NoSlot}] /\ claimed' \subseteq Slots
      BY <3>2 DEF TypeOK
    <3>3. CASE ~UNCHANGED <<slot, claimed>>
      <4>1. claimed # Slots /\ claimed \subseteq Slots
        BY <1>6, <3>3 DEF SyncLocalPlayers, TypeOK
      <4>2. (CHOOSE s \in Slots \ claimed : TRUE) \in Slots
        BY <4>1
      <4> QED
        BY <1>6, <3>2, <3>3, <4>2 DEF SyncLocalPlayers
    <3> QED
      BY <3>1, <3>3
  <2>3. CASE Fail(c, "rejected")
    BY <1>6, <2>1, <2>2, <2>3, FailType DEF SyncLocalPlayers, Asks, TypeOK, syncVars, policyVars
  <2>4. CASE UNCHANGED <<failed, events, linkVars>>
    BY <1>6, <2>1, <2>2, <2>4 DEF SyncLocalPlayers, TypeOK, syncVars, policyVars, linkVars
  <2> QED
    BY <1>6, <2>3, <2>4 DEF SyncLocalPlayers
<1>7. CASE RequestProfiles(c)
  <2>1. {c, Host} \union Connected \subseteq Peers
    BY DEF Peers, Connected, TypeOK
  <2>2. /\ awaited' \in [Clients -> SUBSET Peers]
        /\ running' \subseteq Clients \X Peers
    BY <1>7, <2>1 DEF RequestProfiles, TypeOK
  <2> QED
    BY <1>7, <2>2 DEF RequestProfiles, TypeOK, policyVars, linkVars
<1>8. CASE SyncStatVersion(c)
  BY <1>8 DEF SyncStatVersion, Advance, TypeOK, syncVars, policyVars, linkVars
<1>9. CASE EnterConnected(c)
  <2>1. events' \in Seq(Events)
    BY <1>9, QueueType DEF EnterConnected
  <2>2. Connected \subseteq Clients /\ Clients \subseteq Peers
    BY DEF Connected, Peers, TypeOK
  <2> QED
    BY <1>9, <2>1, <2>2 DEF EnterConnected, Advance, TypeOK, policyVars, linkVars
<1> QED
  BY <1>1, <1>2, <1>3, <1>4, <1>5, <1>6, <1>7, <1>8, <1>9 DEF Requests

LEMMA FrameType ==
    ASSUME TypeOK, NEW c \in Clients, Frame(c) PROVE TypeOK'
<1>1. CASE NoticesClosedChannel(c)
  <2>1. events' \in Seq(Events)
    BY <1>1, QueueType DEF NoticesClosedChannel, RecordFailure
  <2> QED
    BY <1>1, <2>1
    DEF NoticesClosedChannel, RecordFailure, TypeOK, syncVars, policyVars, linkVars
<1>2. CASE TimesOut(c)
  BY <1>2, FailType DEF TimesOut, TypeOK, syncVars, policyVars
<1>3. CASE AnswersBooted(c)
  BY <1>3 DEF AnswersBooted, Advance, TypeOK, syncVars, policyVars, linkVars
<1>4. CASE ClosePendingChannel(c)
  BY <1>4 DEF ClosePendingChannel, TypeOK, remoteVars, syncVars, policyVars
<1>5. CASE \E s \in Peers : SyncCompletes(c, s)
  <2>1. PICK s \in Peers : SyncCompletes(c, s)
    BY <1>5
  <2>2. awaited' \in [Clients -> SUBSET Peers]
    <3>1. awaited' = [awaited EXCEPT ![c] = awaited[c] \ {s}] \/ UNCHANGED awaited
      BY <2>1 DEF SyncCompletes
    <3>2. awaited \in [Clients -> SUBSET Peers]
      BY DEF TypeOK
    <3> QED
      BY <3>1, <3>2
  <2>3. stage' \in [Clients -> Version .. Complete]
    <3>1. UNCHANGED stage \/ Advance(c, Dlc)
      BY <2>1 DEF SyncCompletes, Advance
    <3> QED
      BY <3>1, AdvanceType DEF TypeOK
  <2>4. told' \in [Clients -> SUBSET Clients] /\ peerSyncs' \subseteq Clients \X Clients
    <3>1. CASE <<c, s>> \in peerSyncs
      <4>1. s \in Clients
        BY <3>1 DEF TypeOK
      <4>2. told' = [told EXCEPT ![c] = told[c] \union {s}] \/ UNCHANGED told
        BY <2>1 DEF SyncCompletes
      <4>3. peerSyncs' \subseteq peerSyncs
        BY <2>1 DEF SyncCompletes
      <4>4. told' \in [Clients -> SUBSET Clients]
        <5>1. told \in [Clients -> SUBSET Clients]
          BY DEF TypeOK
        <5> QED
          BY <4>1, <4>2, <5>1
      <4> QED
        BY <4>3, <4>4 DEF TypeOK
    <3>2. CASE <<c, s>> \notin peerSyncs
      BY <2>1, <3>2 DEF SyncCompletes, TypeOK
    <3> QED
      BY <3>1, <3>2
  <2> QED
    BY <2>1, <2>2, <2>3, <2>4 DEF SyncCompletes, TypeOK, policyVars, linkVars
<1> QED
  BY <1>1, <1>2, <1>3, <1>4, <1>5 DEF Frame

LEMMA NextEventType ==
    ASSUME TypeOK, NextEvent PROVE TypeOK'
<1>1. /\ events # <<>> /\ events' = Tail(events)
      /\ Head(events) \in Events /\ events' \in Seq(Events)
  BY DEF NextEvent, TypeOK
<1> DEFINE c == Head(events).peer
<1>2. c \in Clients
  BY <1>1 DEF Events
<1>3. CASE PlayerConnects(c)
  BY <1>1, <1>2, <1>3
  DEF NextEvent, PlayerConnects, TypeOK, remoteVars, syncVars, policyVars, linkVars
<1>4. CASE PlayerDisconnects(c)
  <2> HIDE DEF c
  <2>1. told' \in [Clients -> SUBSET Clients]
    BY <1>4 DEF PlayerDisconnects, ForgetSyncs, TypeOK
  <2>2. /\ stage' \in [Clients -> Version .. Complete]
        /\ slot' \in [Clients -> Slots \union {NoSlot}]
        /\ awaited' \in [Clients -> SUBSET Peers]
    <3>1. stage' = [stage EXCEPT ![c] = Version] /\ Version \in Version .. Complete
      BY <1>4 DEF PlayerDisconnects
    <3>2. stage' \in [Clients -> Version .. Complete]
      BY <3>1 DEF TypeOK
    <3> QED
      BY <1>4, <3>2 DEF PlayerDisconnects, TypeOK
  <2> QED
    BY <1>1, <1>4, <2>1, <2>2
    DEF NextEvent, PlayerDisconnects, ForgetSyncs, ReleaseSlot, TypeOK, policyVars, linkVars
<1> QED
  BY <1>3, <1>4 DEF NextEvent

LEMMA InitType == Init => TypeOK
<1> SUFFICES ASSUME Init PROVE TypeOK
  OBVIOUS
<1>1. stage \in [Clients -> Version .. Complete]
  BY DEF Init
<1>2. events \in Seq(Events) /\ limit \in Limits
  BY DEF Init
<1>3. joins \in [Clients -> Nat] /\ changes \in Nat
  BY DEF Init
<1> QED
  BY <1>1, <1>2, <1>3 DEF Init, TypeOK

(* Every step keeps the types.                                              *)
LEMMA TypeStays == TypeOK /\ [Next]_vars => TypeOK'
<1> SUFFICES ASSUME TypeOK, [Next]_vars PROVE TypeOK'
  OBVIOUS
<1>1. CASE UNCHANGED vars
  BY <1>1 DEF TypeOK, vars, remoteVars, syncVars, policyVars, linkVars
<1>2. ASSUME NEW c \in Clients, ApproveChannel(c) PROVE TypeOK'
  BY <1>2 DEF ApproveChannel, TypeOK, syncVars, policyVars
<1>3. ASSUME NEW c \in Clients, Kick(c) PROVE TypeOK'
  BY <1>3 DEF Kick, Reject, TypeOK, remoteVars, syncVars, policyVars
<1>4. ASSUME NEW c \in Clients, ChannelCloses(c) PROVE TypeOK'
  BY <1>4 DEF ChannelCloses, TypeOK, remoteVars, syncVars, policyVars
<1>5. ASSUME NEW l \in Limits, NEW open \in BOOLEAN, SetAdmissionPolicy(l, open)
      PROVE  TypeOK'
  BY <1>5 DEF SetAdmissionPolicy, TypeOK, remoteVars, syncVars, linkVars
<1>6. CASE RelayFails
  BY <1>6 DEF RelayFails, TypeOK, remoteVars, syncVars, linkVars
<1>7. CASE Install
  BY <1>7 DEF Install, TypeOK, remoteVars, syncVars, linkVars
<1> QED
  BY <1>1, <1>2, <1>3, <1>4, <1>5, <1>6, <1>7, RequestsType, FrameType, NextEventType
  DEF Next, IdleFrame

(* Type correctness of the host's records, whatever requests arrive and     *)
(* whatever fails.                                                          *)
THEOREM TypeCorrect == Spec => []TypeOK
  BY InitType, TypeStays, PTL DEF Spec

-----------------------------------------------------------------------------
(* Records.                                                                 *)

(* A step that changes the record of one client only.                       *)
LEMMA OneRecordChanges ==
    ASSUME TypeOK, StagesFit, NEW c \in Clients, RecordFits(c)',
           remotes' \ {c} = remotes \ {c}, failed' \ {c} = failed \ {c},
           bootRequested' \ {c} = bootRequested \ {c},
           \A d \in Clients \ {c} :
              /\ stage'[d] = stage[d] /\ slot'[d] = slot[d]
              /\ awaited'[d] = awaited[d] /\ link'[d] = link[d]
    PROVE  StagesFit'
<1> SUFFICES ASSUME NEW d \in Clients, d # c PROVE RecordFits(d)'
  BY DEF StagesFit
<1> QED
  BY DEF StagesFit, RecordFits

(* A connection that fails before it is complete.                           *)
LEMMA FailingFits ==
    ASSUME TypeOK, StagesFit, NEW c \in remotes, stage[c] # Complete,
           failed' = failed \union {c},
           UNCHANGED <<remotes, stage, bootRequested, slot, awaited, link>>
    PROVE  StagesFit'
<1>1. c \in Clients /\ RecordFits(c)
  BY DEF TypeOK, StagesFit
<1>2. RecordFits(c)'
  BY <1>1 DEF RecordFits
<1> QED
  BY <1>1, <1>2, OneRecordChanges

(* A connection that has not failed and goes on to a later stage.           *)
LEMMA AdvancingFits ==
    ASSUME TypeOK, StagesFit, NEW c \in Clients, c \in remotes \ failed,
           NEW s \in Version .. Complete, s > stage[c], awaited[c] = {}, Advance(c, s),
           bootRequested' = bootRequested \ {c},
           UNCHANGED <<remotes, failed, slot, awaited, link>>
    PROVE  StagesFit'
<1>1. RecordFits(c) /\ stage[c] \in Version .. Complete
  BY DEF StagesFit, TypeOK
<1>2. stage'[c] = s /\ \A d \in Clients \ {c} : stage'[d] = stage[d]
  BY DEF Advance, TypeOK
<1>3. RecordFits(c)'
  BY <1>1, <1>2 DEF RecordFits
<1> QED
  BY <1>2, <1>3, OneRecordChanges

(* What a request says of the connection it arrives on.                     *)
LEMMA AskingFits ==
    ASSUME TypeOK, StagesFit, NEW c \in Clients,
           NEW s \in Version .. Complete, Asks(c, s)
    PROVE  /\ c \in remotes \ failed /\ stage[c] = s
           /\ s # Profiles => awaited[c] = {}
           /\ s # Booted => bootRequested = bootRequested \ {c}
           /\ s <= LocalPlayers => slot[c] = NoSlot
<1>1. RecordFits(c) /\ c \in remotes \ failed /\ stage[c] = s
  BY DEF StagesFit, Asks
<1>2. s # Booted => bootRequested = bootRequested \ {c}
  BY <1>1 DEF RecordFits
<1> QED
  BY <1>1, <1>2 DEF RecordFits

LEMMA RequestsKeepStages ==
    ASSUME TypeOK, StagesFit, NEW c \in Clients, Requests(c) PROVE StagesFit'
<1>1. CASE CheckAdmission(c)
  <2>1. PICK s \in {Version, ClaimsSlot} :
           /\ Asks(c, s)
           /\ IF Refusal # "none" THEN Fail(c, Refusal) /\ UNCHANGED stage
              ELSE Advance(c, s + 1) /\ UNCHANGED <<failed, events, linkVars>>
    BY <1>1 DEF CheckAdmission
  <2>2. CASE Refusal # "none"
    BY <1>1, <2>1, <2>2, AskingFits, FailingFits
    DEF CheckAdmission, Fail, RecordFailure, Reject
  <2>3. CASE Refusal = "none"
    <3>1. s + 1 \in Version .. Complete /\ s + 1 > s
      BY <2>1
    <3> QED
      BY <1>1, <2>1, <2>3, <3>1, AskingFits, AdvancingFits DEF CheckAdmission, linkVars
  <2> QED
    BY <2>2, <2>3
<1>2. CASE ConnectionBooted(c)
  <2>1. CASE Advance(c, MasterItems) /\ UNCHANGED bootRequested
    BY <1>2, <2>1, AskingFits, AdvancingFits DEF ConnectionBooted, linkVars
  <2>2. CASE bootRequested' = bootRequested \union {c} /\ UNCHANGED stage
    <3>1. RecordFits(c)'
      BY <1>2, <2>2 DEF ConnectionBooted, Asks, linkVars, StagesFit, RecordFits
    <3> QED
      BY <1>2, <2>2, <3>1, OneRecordChanges DEF ConnectionBooted, linkVars
  <2> QED
    BY <1>2, <2>1, <2>2 DEF ConnectionBooted
<1>3. CASE RequestMasterItems(c)
  <2>1. CASE Fail(c, "error") /\ UNCHANGED stage
    BY <1>3, <2>1, AskingFits, FailingFits
    DEF RequestMasterItems, Fail, RecordFailure, Reject
  <2>2. CASE Advance(c, HostType) /\ UNCHANGED <<failed, events, linkVars>>
    BY <1>3, <2>2, AskingFits, AdvancingFits DEF RequestMasterItems, linkVars
  <2> QED
    BY <1>3, <2>1, <2>2 DEF RequestMasterItems
<1>4. CASE CheckMechanism(c)
  <2>1. CASE UNCHANGED stage /\ \E why \in {"rejected", "error", Refusal} : Fail(c, why)
    BY <1>4, <2>1, AskingFits, FailingFits DEF CheckMechanism, Fail, RecordFailure, Reject
  <2>2. CASE Advance(c, ClaimsSlot) /\ UNCHANGED <<failed, events, linkVars>>
    BY <1>4, <2>2, AskingFits, AdvancingFits DEF CheckMechanism, linkVars
  <2> QED
    BY <1>4, <2>1, <2>2 DEF CheckMechanism
<1>5. CASE PlainRequest(c)
  <2>1. PICK s \in PlainStages : Asks(c, s) /\ Advance(c, s + 1)
    BY <1>5 DEF PlainRequest
  <2>2. s \in Version .. Complete /\ s + 1 \in Version .. Complete /\ s + 1 > s
        /\ s \notin {Booted, Profiles}
    BY DEF PlainStages
  <2> QED
    BY <1>5, <2>1, <2>2, AskingFits, AdvancingFits DEF PlainRequest, linkVars
<1>6. CASE SyncLocalPlayers(c)
  <2>1. /\ c \in remotes \ failed /\ stage[c] = LocalPlayers /\ awaited[c] = {}
        /\ slot[c] = NoSlot /\ bootRequested = bootRequested \ {c}
    BY <1>6, AskingFits DEF SyncLocalPlayers
  <2>2. \A d \in Clients \ {c} : slot'[d] = slot[d]
    BY <1>6 DEF SyncLocalPlayers, TypeOK
  <2>3. link' = link
    BY <1>6 DEF SyncLocalPlayers, Fail, Reject, linkVars
  <2>4. CASE Fail(c, "rejected") /\ UNCHANGED stage
    <3>1. RecordFits(c)'
      BY <1>6, <2>1, <2>4 DEF SyncLocalPlayers, Fail, RecordFailure, RecordFits
    <3> QED
      BY <1>6, <2>1, <2>2, <2>3, <2>4, <3>1, OneRecordChanges
      DEF SyncLocalPlayers, Fail, RecordFailure
  <2>5. CASE Advance(c, TickRate) /\ UNCHANGED <<failed, events, linkVars>>
    <3>1. stage'[c] = TickRate /\ \A d \in Clients \ {c} : stage'[d] = stage[d]
      BY <2>5 DEF Advance, TypeOK
    <3>2. RecordFits(c)'
      BY <1>6, <2>1, <2>5, <3>1 DEF SyncLocalPlayers, RecordFits
    <3> QED
      BY <1>6, <2>1, <2>2, <2>3, <2>5, <3>1, <3>2, OneRecordChanges DEF SyncLocalPlayers
  <2> QED
    BY <1>6, <2>4, <2>5 DEF SyncLocalPlayers
<1>7. CASE RequestProfiles(c)
  <2>1. RecordFits(c)
    BY DEF StagesFit
  <2> QED
    BY <1>7, <2>1, OneRecordChanges DEF RequestProfiles, Asks, TypeOK, linkVars, RecordFits
<1>8. CASE SyncStatVersion(c)
  BY <1>8, AskingFits, AdvancingFits DEF SyncStatVersion, linkVars
<1>9. CASE EnterConnected(c)
  BY <1>9, AskingFits, AdvancingFits DEF EnterConnected, linkVars
<1> QED
  BY <1>1, <1>2, <1>3, <1>4, <1>5, <1>6, <1>7, <1>8, <1>9 DEF Requests

LEMMA FrameKeepsStages ==
    ASSUME TypeOK, StagesFit, NEW c \in Clients, Frame(c) PROVE StagesFit'
<1>0. RecordFits(c) /\ stage[c] \in Version .. Complete
  BY DEF StagesFit, TypeOK
<1>1. CASE NoticesClosedChannel(c)
  BY <1>0, <1>1, OneRecordChanges
  DEF NoticesClosedChannel, RecordFailure, TypeOK, linkVars, RecordFits
<1>2. CASE TimesOut(c)
  BY <1>0, <1>2, FailingFits DEF TimesOut, Fail, RecordFailure, Reject
<1>3. CASE AnswersBooted(c)
  <2>1. stage[c] = Booted /\ awaited[c] = {} /\ c \in remotes \ failed
    BY <1>0, <1>3 DEF AnswersBooted, RecordFits, TypeOK
  <2> QED
    BY <1>3, <2>1, AdvancingFits DEF AnswersBooted, linkVars
<1>4. CASE ClosePendingChannel(c)
  BY <1>0, <1>4, OneRecordChanges DEF ClosePendingChannel, TypeOK, remoteVars, RecordFits
<1>5. CASE \E s \in Peers : SyncCompletes(c, s)
  <2>1. PICK s \in Peers : SyncCompletes(c, s)
    BY <1>5
  <2>2. UNCHANGED <<remotes, failed, bootRequested, slot, link>>
    BY <2>1 DEF SyncCompletes, linkVars
  <2>3. stage \in [Clients -> Version .. Complete] /\ awaited \in [Clients -> SUBSET Peers]
    BY DEF TypeOK
  <2>4. /\ \/ awaited' = awaited /\ stage' = stage
           \/ /\ s \in awaited[c] /\ awaited' = [awaited EXCEPT ![c] = awaited[c] \ {s}]
              /\ stage' = IF awaited'[c] = {} THEN [stage EXCEPT ![c] = Dlc] ELSE stage
    BY <2>1 DEF SyncCompletes
  <2>5. \A d \in Clients \ {c} : stage'[d] = stage[d] /\ awaited'[d] = awaited[d]
    BY <2>3, <2>4
  <2>6. /\ awaited'[c] # {} => awaited[c] # {} /\ stage'[c] = stage[c]
        /\ stage'[c] = stage[c] \/ (awaited[c] # {} /\ stage'[c] = Dlc)
    BY <2>3, <2>4
  <2>7. c \in remotes \/ (awaited'[c] = awaited[c] /\ stage'[c] = stage[c])
    BY <1>0, <2>4 DEF RecordFits
  <2>8. RecordFits(c)'
    BY <1>0, <2>2, <2>6, <2>7 DEF RecordFits
  <2> QED
    BY <2>2, <2>5, <2>8, OneRecordChanges
<1> QED
  BY <1>1, <1>2, <1>3, <1>4, <1>5 DEF Frame

LEMMA NextEventKeepsStages ==
    ASSUME TypeOK, StagesFit, NextEvent PROVE StagesFit'
<1> DEFINE c == Head(events).peer
<1>1. c \in Clients
  <2>1. events # <<>> /\ events \in Seq(Events)
    BY DEF NextEvent, TypeOK
  <2>2. Head(events) \in Events
    BY <2>1
  <2> QED
    BY <2>2 DEF Events
<1>2. CASE PlayerConnects(c)
  BY <1>2 DEF NextEvent, PlayerConnects, remoteVars, linkVars, StagesFit, RecordFits
<1>3. CASE PlayerDisconnects(c)
  <2> HIDE DEF c
  <2>1. link' = link
    BY DEF NextEvent, linkVars
  <2> QED
    BY <1>1, <1>3, <2>1, OneRecordChanges DEF PlayerDisconnects, TypeOK, RecordFits
<1> QED
  BY <1>2, <1>3 DEF NextEvent

(* Every step keeps the records as they should be.                          *)
LEMMA StagesStayFit ==
    ASSUME TypeOK, StagesFit, [Next]_vars PROVE StagesFit'
<1>1. CASE UNCHANGED vars
  BY <1>1 DEF vars, remoteVars, linkVars, StagesFit, RecordFits
<1>2. ASSUME NEW c \in Clients, ApproveChannel(c) PROVE StagesFit'
  <2>1. RecordFits(c)
    BY DEF StagesFit
  <2> QED
    BY <1>2, <2>1, OneRecordChanges DEF ApproveChannel, TypeOK, RecordFits
<1>3. ASSUME NEW c \in Clients, Kick(c) PROVE StagesFit'
  BY <1>3 DEF Kick, Reject, remoteVars, StagesFit, RecordFits
<1>4. ASSUME NEW c \in Clients, ChannelCloses(c) PROVE StagesFit'
  <2>1. RecordFits(c)
    BY DEF StagesFit
  <2> QED
    BY <1>4, <2>1, OneRecordChanges DEF ChannelCloses, TypeOK, remoteVars, RecordFits
<1>5. CASE UNCHANGED <<remoteVars, link>>
  BY <1>5 DEF remoteVars, StagesFit, RecordFits
<1> QED
  BY <1>1, <1>2, <1>3, <1>4, <1>5, RequestsKeepStages, FrameKeepsStages,
     NextEventKeepsStages
  DEF Next, IdleFrame, SetAdmissionPolicy, RelayFails, Install, linkVars
-----------------------------------------------------------------------------
(* The queue of events.                                                     *)

(* A step that queues nothing and completes nothing.                        *)
Quiet == UNCHANGED <<events, failed, members>> /\ Connected' = Connected

(* A step in which the connection of c fails.                               *)
Fails(c) ==
    /\ c \in remotes \ failed /\ failed' = failed \union {c}
    /\ Queue("disconnected", c)
    /\ UNCHANGED <<remotes, stage, members>>

(* An advance to a stage before the last completes nothing.                 *)
LEMMA AdvanceIsQuiet ==
    ASSUME TypeOK, NEW c \in Clients, NEW s \in Version .. Entering, Advance(c, s),
           stage[c] # Complete, UNCHANGED <<remotes, events, failed, members>>
    PROVE  Quiet
  BY DEF Advance, TypeOK, Quiet, Connected

LEMMA RequestKinds ==
    ASSUME TypeOK, StagesFit, NEW c \in Clients, Requests(c)
    PROVE  Quiet \/ Fails(c) \/ EnterConnected(c)
<1>1. CASE CheckAdmission(c)
  <2>1. PICK s \in {Version, ClaimsSlot} :
           /\ Asks(c, s)
           /\ IF Refusal # "none" THEN Fail(c, Refusal) /\ UNCHANGED stage
              ELSE Advance(c, s + 1) /\ UNCHANGED <<failed, events, linkVars>>
    BY <1>1 DEF CheckAdmission
  <2>2. CASE Refusal # "none"
    BY <1>1, <2>1, <2>2 DEF CheckAdmission, Asks, Fail, RecordFailure, Fails
  <2>3. CASE Refusal = "none"
    <3>1. s + 1 \in Version .. Entering /\ stage[c] # Complete
      BY <2>1 DEF Asks
    <3> QED
      BY <1>1, <2>1, <2>3, <3>1, AdvanceIsQuiet DEF CheckAdmission
  <2> QED
    BY <2>2, <2>3
<1>2. CASE ConnectionBooted(c)
  <2>1. CASE Advance(c, MasterItems)
    BY <1>2, <2>1, AdvanceIsQuiet DEF ConnectionBooted, Asks
  <2>2. CASE UNCHANGED stage
    BY <1>2, <2>2 DEF ConnectionBooted, Quiet, Connected
  <2> QED
    BY <1>2, <2>1, <2>2 DEF ConnectionBooted
<1>3. CASE RequestMasterItems(c)
  <2>1. CASE Fail(c, "error") /\ UNCHANGED stage
    BY <1>3, <2>1 DEF RequestMasterItems, Asks, Fail, RecordFailure, Fails
  <2>2. CASE Advance(c, HostType) /\ UNCHANGED <<failed, events, linkVars>>
    BY <1>3, <2>2, AdvanceIsQuiet DEF RequestMasterItems, Asks
  <2> QED
    BY <1>3, <2>1, <2>2 DEF RequestMasterItems
<1>4. CASE CheckMechanism(c)
  <2>1. CASE UNCHANGED stage /\ \E why \in {"rejected", "error", Refusal} : Fail(c, why)
    BY <1>4, <2>1 DEF CheckMechanism, Asks, Fail, RecordFailure, Fails
  <2>2. CASE Advance(c, ClaimsSlot) /\ UNCHANGED <<failed, events, linkVars>>
    BY <1>4, <2>2, AdvanceIsQuiet DEF CheckMechanism, Asks
  <2> QED
    BY <1>4, <2>1, <2>2 DEF CheckMechanism
<1>5. CASE PlainRequest(c)
  <2>1. PICK s \in PlainStages : Asks(c, s) /\ Advance(c, s + 1)
    BY <1>5 DEF PlainRequest
  <2>2. s + 1 \in Version .. Entering /\ s # Complete
    BY DEF PlainStages
  <2> QED
    BY <1>5, <2>1, <2>2, AdvanceIsQuiet DEF PlainRequest, Asks
<1>6. CASE SyncLocalPlayers(c)
  <2>1. CASE Fail(c, "rejected") /\ UNCHANGED stage
    BY <1>6, <2>1 DEF SyncLocalPlayers, Asks, Fail, RecordFailure, Fails
  <2>2. CASE Advance(c, TickRate) /\ UNCHANGED <<failed, events, linkVars>>
    BY <1>6, <2>2, AdvanceIsQuiet DEF SyncLocalPlayers, Asks
  <2> QED
    BY <1>6, <2>1, <2>2 DEF SyncLocalPlayers
<1>7. CASE RequestProfiles(c)
  BY <1>7 DEF RequestProfiles, Quiet, Connected
<1>8. CASE SyncStatVersion(c)
  BY <1>8, AdvanceIsQuiet DEF SyncStatVersion, Asks
<1> QED
  BY <1>1, <1>2, <1>3, <1>4, <1>5, <1>6, <1>7, <1>8 DEF Requests

LEMMA FrameKinds ==
    ASSUME TypeOK, StagesFit, NEW c \in Clients, Frame(c) PROVE Quiet \/ Fails(c)
<1>1. CASE NoticesClosedChannel(c)
  BY <1>1 DEF NoticesClosedChannel, RecordFailure, Fails
<1>2. CASE TimesOut(c)
  BY <1>2 DEF TimesOut, Fail, RecordFailure, Fails
<1>3. CASE AnswersBooted(c)
  <2>1. stage[c] = Booted
    BY <1>3 DEF AnswersBooted, StagesFit, RecordFits
  <2> QED
    BY <1>3, <2>1, AdvanceIsQuiet DEF AnswersBooted
<1>4. CASE ClosePendingChannel(c)
  BY <1>4 DEF ClosePendingChannel, remoteVars, Quiet, Connected
<1>5. CASE \E s \in Peers : SyncCompletes(c, s)
  <2>1. UNCHANGED stage \/ (Advance(c, Dlc) /\ stage[c] = Profiles)
    BY <1>5 DEF SyncCompletes, Advance, StagesFit, RecordFits
  <2> QED
    BY <1>5, <2>1, AdvanceIsQuiet DEF SyncCompletes, Quiet, Connected
<1> QED
  BY <1>1, <1>2, <1>3, <1>4, <1>5 DEF Frame

(* What a step can do to the queue.                                         *)
LEMMA StepKinds ==
    ASSUME TypeOK, StagesFit, [Next]_vars
    PROVE  Quiet \/ NextEvent \/ \E c \in Clients : Fails(c) \/ EnterConnected(c)
<1>1. CASE UNCHANGED vars
  BY <1>1 DEF vars, remoteVars, Quiet, Connected
<1>2. ASSUME NEW c \in Clients, ApproveChannel(c) PROVE Quiet
  <2>1. stage[c] = Version
    BY <1>2 DEF ApproveChannel, StagesFit, RecordFits
  <2> QED
    BY <1>2, <2>1 DEF ApproveChannel, Quiet, Connected
<1>3. ASSUME NEW c \in Clients, Kick(c) \/ ChannelCloses(c) PROVE Quiet
  BY <1>3 DEF Kick, ChannelCloses, remoteVars, Quiet, Connected
<1>4. CASE RelayFails \/ Install \/ \E l \in Limits, open \in BOOLEAN : SetAdmissionPolicy(l, open)
  BY <1>4 DEF RelayFails, Install, SetAdmissionPolicy, remoteVars, Quiet, Connected
<1> QED
  BY <1>1, <1>2, <1>3, <1>4, RequestKinds, FrameKinds DEF Next, IdleFrame

(* The queue after an event of c was added.                                 *)
LEMMA QueueGrows ==
    ASSUME TypeOK, NEW c \in Clients, NEW name \in {"connected", "disconnected"},
           Queue(name, c)
    PROVE  /\ DOMAIN events' = 1 .. Len(events) + 1
           /\ \A i \in DOMAIN events : i < Len(events) + 1 /\ events'[i] = events[i]
           /\ \A i \in DOMAIN events' : i \in DOMAIN events \/ i = Len(events) + 1
           /\ events'[Len(events) + 1] = [name |-> name, peer |-> c]
           /\ DOMAIN events = 1 .. Len(events) /\ Len(events) \in Nat
<1>1. events \in Seq(Events) /\ events' = Append(events, [name |-> name, peer |-> c])
  BY DEF TypeOK, Queue
<1>2. Len(events) \in Nat /\ DOMAIN events = 1 .. Len(events)
  BY <1>1
<1>3. Len(events') = Len(events) + 1 /\ DOMAIN events' = 1 .. Len(events) + 1
  BY <1>1, <1>2
<1> QED
  BY <1>1, <1>2, <1>3

(* The queue after its first event was taken.                               *)
LEMMA QueueShrinks ==
    ASSUME TypeOK, NextEvent
    PROVE  /\ 1 \in DOMAIN events /\ Head(events) = events[1]
           /\ events[1].peer \in Clients
           /\ \A i \in DOMAIN events' :
                 i + 1 \in DOMAIN events /\ 1 < i + 1 /\ events'[i] = events[i + 1]
           /\ \A i \in DOMAIN events \ {1} :
                 i - 1 \in DOMAIN events' /\ events'[i - 1] = events[i]
           /\ \A i, j \in DOMAIN events' : i < j => i + 1 < j + 1
<1>1. events \in Seq(Events) /\ events # <<>> /\ events' = Tail(events)
  BY DEF TypeOK, NextEvent
<1>2. Len(events) \in Nat \ {0} /\ DOMAIN events = 1 .. Len(events)
  BY <1>1
<1>3. DOMAIN events' = 1 .. Len(events) - 1
  BY <1>1, <1>2
<1>4. 1 \in DOMAIN events /\ Head(events) = events[1] /\ events[1] \in Events
  BY <1>1, <1>2
<1> QED
  BY <1>1, <1>2, <1>3, <1>4 DEF Events

LEMMA FailsKeepsEvents ==
    ASSUME TypeOK, EventsFit, NEW c \in Clients, Fails(c) PROVE EventsFit'
<1> DEFINE n == Len(events) + 1
<1>1. Queue("disconnected", c) /\ c \notin failed /\ failed' = failed \union {c}
      /\ members' = members /\ Connected' = Connected
  BY DEF Fails, Connected
<1>2. /\ DOMAIN events' = 1 .. n /\ n \notin DOMAIN events
      /\ \A i \in DOMAIN events : i < n /\ i \in DOMAIN events' /\ events'[i] = events[i]
      /\ \A i \in DOMAIN events' : i \in DOMAIN events \/ i = n
      /\ events'[n] = [name |-> "disconnected", peer |-> c]
  <2>1. /\ DOMAIN events' = 1 .. n /\ DOMAIN events = 1 .. Len(events) /\ Len(events) \in Nat
        /\ \A i \in DOMAIN events : i < n /\ events'[i] = events[i]
        /\ \A i \in DOMAIN events' : i \in DOMAIN events \/ i = n
        /\ events'[n] = [name |-> "disconnected", peer |-> c]
    BY <1>1, QueueGrows
  <2> QED
    BY <2>1
<1>3. \A i, j \in DOMAIN events' :
         i < j /\ events'[i].peer = events'[j].peer =>
            events'[i].name = "connected" /\ events'[j].name = "disconnected"
  <2> SUFFICES ASSUME NEW i \in DOMAIN events', NEW j \in DOMAIN events',
                      i < j, events'[i].peer = events'[j].peer
               PROVE  events'[i].name = "connected" /\ events'[j].name = "disconnected"
    OBVIOUS
  <2>1. i \in DOMAIN events /\ events[i] \in Events
    BY <1>2, TypeOK DEF TypeOK
  <2>2. CASE j \in DOMAIN events
    BY <1>2, <2>1, <2>2 DEF EventsFit
  <2>3. CASE j = n
    BY <1>1, <1>2, <2>1, <2>3 DEF EventsFit, Events
  <2> QED
    BY <1>2, <2>2, <2>3
<1>4. \A i \in DOMAIN events' :
         /\ events'[i].name = "disconnected" => events'[i].peer \in failed'
         /\ events'[i].name = "connected" => events'[i].peer \in Connected'
  BY <1>1, <1>2 DEF EventsFit
<1>5. \A d \in Connected' : \/ d \in members'
                           \/ \E i \in DOMAIN events' :
                                 events'[i] = [name |-> "connected", peer |-> d]
  BY <1>1, <1>2 DEF EventsFit
<1> QED
  BY <1>3, <1>4, <1>5 DEF EventsFit

LEMMA EnterKeepsEvents ==
    ASSUME TypeOK, StagesFit, EventsFit, NEW c \in Clients, EnterConnected(c)
    PROVE  EventsFit'
<1> DEFINE n == Len(events) + 1
<1>1. /\ Queue("connected", c) /\ c \notin failed /\ c \notin Connected
      /\ failed' = failed /\ members' = members
      /\ Connected' = Connected \union {c}
  BY DEF EnterConnected, Asks, Advance, Connected, TypeOK
<1>2. /\ DOMAIN events' = 1 .. n /\ n \notin DOMAIN events
      /\ \A i \in DOMAIN events : i < n /\ i \in DOMAIN events' /\ events'[i] = events[i]
      /\ \A i \in DOMAIN events' : i \in DOMAIN events \/ i = n
      /\ events'[n] = [name |-> "connected", peer |-> c]
      /\ n \in DOMAIN events'
  <2>1. /\ DOMAIN events' = 1 .. n /\ DOMAIN events = 1 .. Len(events) /\ Len(events) \in Nat
        /\ \A i \in DOMAIN events : i < n /\ events'[i] = events[i]
        /\ \A i \in DOMAIN events' : i \in DOMAIN events \/ i = n
        /\ events'[n] = [name |-> "connected", peer |-> c]
    BY <1>1, QueueGrows
  <2> QED
    BY <2>1
<1>3. \A i \in DOMAIN events : events[i].peer # c
  <2>1. \A i \in DOMAIN events : events[i] \in Events
    BY DEF TypeOK
  <2> QED
    BY <1>1, <2>1 DEF EventsFit, Events
<1>4. \A i, j \in DOMAIN events' :
         i < j /\ events'[i].peer = events'[j].peer =>
            events'[i].name = "connected" /\ events'[j].name = "disconnected"
  BY <1>2, <1>3 DEF EventsFit
<1>5. \A i \in DOMAIN events' :
         /\ events'[i].name = "disconnected" => events'[i].peer \in failed'
         /\ events'[i].name = "connected" => events'[i].peer \in Connected'
  BY <1>1, <1>2 DEF EventsFit
<1>6. \A d \in Connected' : \/ d \in members'
                           \/ \E i \in DOMAIN events' :
                                 events'[i] = [name |-> "connected", peer |-> d]
  BY <1>1, <1>2 DEF EventsFit
<1> QED
  BY <1>4, <1>5, <1>6 DEF EventsFit

(* What taking an event does to the connected clients and the members.      *)
LEMMA EventEffect ==
    ASSUME TypeOK, StagesFit, EventsFit, NextEvent
    PROVE  LET c == events[1].peer IN
           /\ c \in Clients
           /\ \/ /\ PlayerConnects(c) /\ events[1] = [name |-> "connected", peer |-> c]
                 /\ c \in Connected /\ members' = members \union {c}
                 /\ failed' = failed /\ Connected' = Connected
              \/ /\ PlayerDisconnects(c) /\ c \in failed
                 /\ members' = members \ {c} /\ failed' = failed \ {c}
                 /\ Connected' = Connected \ {c}
                 /\ \A i \in DOMAIN events \ {1} : events[i].peer # c
                 /\ stage[c] = Complete => c \in members
<1> DEFINE c == events[1].peer
<1>1. /\ 1 \in DOMAIN events /\ Head(events) = events[1] /\ c \in Clients
      /\ events[1] \in Events
  BY QueueShrinks DEF TypeOK
<1>2. CASE events[1].name = "connected" /\ PlayerConnects(c)
  <2>1. c \in Connected
    BY <1>1, <1>2 DEF EventsFit
  <2>2. events[1] = [name |-> "connected", peer |-> c]
    BY <1>1, <1>2 DEF Events
  <2> QED
    BY <1>1, <1>2, <2>1, <2>2 DEF PlayerConnects, remoteVars, Connected
<1>3. CASE events[1].name = "disconnected" /\ PlayerDisconnects(c)
  <2>1. c \in failed
    BY <1>1, <1>3 DEF EventsFit
  <2>2. \A i \in DOMAIN events \ {1} : events[i].peer # c
    <3> SUFFICES ASSUME NEW i \in DOMAIN events, i # 1 PROVE events[i].peer # c
      OBVIOUS
    <3>1. 1 < i
      BY DEF TypeOK
    <3> QED
      BY <1>1, <1>3, <3>1 DEF EventsFit
  <2>3. stage[c] = Complete => c \in members
    <3> SUFFICES ASSUME stage[c] = Complete, c \notin members PROVE FALSE
      OBVIOUS
    <3>1. c \in Connected
      BY <2>1 DEF Connected, TypeOK
    <3>2. PICK i \in DOMAIN events : events[i] = [name |-> "connected", peer |-> c]
      BY <3>1 DEF EventsFit
    <3> QED
      BY <1>3, <2>2, <3>2
  <2>4. Connected' = Connected \ {c}
    <3> HIDE DEF c
    <3> QED
      BY <1>1, <1>3 DEF PlayerDisconnects, Connected, TypeOK
  <2> QED
    BY <1>1, <1>3, <2>1, <2>2, <2>3, <2>4 DEF PlayerDisconnects
<1> QED
  BY <1>1, <1>2, <1>3 DEF NextEvent

LEMMA NextEventKeepsEvents ==
    ASSUME TypeOK, StagesFit, EventsFit, NextEvent PROVE EventsFit'
<1> DEFINE c == events[1].peer
<1>1. /\ \A i \in DOMAIN events' :
            i + 1 \in DOMAIN events /\ i + 1 # 1 /\ events'[i] = events[i + 1]
      /\ \A i \in DOMAIN events \ {1} :
            i - 1 \in DOMAIN events' /\ events'[i - 1] = events[i]
      /\ \A i, j \in DOMAIN events' : i < j => i + 1 < j + 1
  BY QueueShrinks
<1>2. /\ failed' = failed \/ failed' = failed \ {c}
      /\ Connected' = Connected \/ Connected' = Connected \ {c}
      /\ failed' # failed \/ Connected' # Connected =>
             \A i \in DOMAIN events \ {1} : events[i].peer # c
      /\ \A d \in Connected' : d \in members => d \in members'
      /\ c \in Connected' => c \in members'
  BY EventEffect
<1>3. \A i, j \in DOMAIN events' :
         i < j /\ events'[i].peer = events'[j].peer =>
            events'[i].name = "connected" /\ events'[j].name = "disconnected"
  <2> HIDE DEF c
  <2> QED
    BY <1>1 DEF EventsFit
<1>4. \A i \in DOMAIN events' :
         /\ events'[i].name = "disconnected" => events'[i].peer \in failed'
         /\ events'[i].name = "connected" => events'[i].peer \in Connected'
  <2> HIDE DEF c
  <2> QED
    BY <1>1, <1>2 DEF EventsFit
<1>5. \A d \in Connected' : \/ d \in members'
                           \/ \E i \in DOMAIN events' :
                                 events'[i] = [name |-> "connected", peer |-> d]
  <2> SUFFICES ASSUME NEW d \in Connected', d \notin members'
               PROVE  \E i \in DOMAIN events' : events'[i] = [name |-> "connected", peer |-> d]
    OBVIOUS
  <2>1. d \in Connected /\ d \notin members /\ d # c
    BY <1>2
  <2>2. PICK i \in DOMAIN events : events[i] = [name |-> "connected", peer |-> d]
    BY <2>1 DEF EventsFit
  <2>3. i # 1
    BY <2>1, <2>2
  <2> QED
    BY <1>1, <2>2, <2>3
<1> QED
  BY <1>3, <1>4, <1>5 DEF EventsFit

(* Every step keeps the queue as it should be.                              *)
LEMMA EventsStayFit ==
    ASSUME TypeOK, StagesFit, EventsFit, [Next]_vars PROVE EventsFit'
<1>1. CASE Quiet
  BY <1>1 DEF Quiet, EventsFit
<1> QED
  BY <1>1, StepKinds, FailsKeepsEvents, EnterKeepsEvents, NextEventKeepsEvents

(* Every member is a connected client.                                      *)
LEMMA MembersStayConnected ==
    ASSUME TypeOK, StagesFit, EventsFit, MembersAreConnected, [Next]_vars
    PROVE  MembersAreConnected'
<1>1. CASE Quiet
  BY <1>1 DEF Quiet, MembersAreConnected
<1>2. CASE \E c \in Clients : Fails(c)
  BY <1>2 DEF Fails, Connected, MembersAreConnected
<1>3. ASSUME NEW c \in Clients, EnterConnected(c) PROVE MembersAreConnected'
  BY <1>3 DEF EnterConnected, Asks, Advance, TypeOK, Connected, MembersAreConnected
<1>4. CASE NextEvent
  BY <1>4, EventEffect DEF MembersAreConnected
<1> QED
  BY <1>1, <1>2, <1>3, <1>4, StepKinds
-----------------------------------------------------------------------------
(* Slots.                                                                   *)

(* Which steps touch the slots.                                             *)
LEMMA SlotKinds ==
    ASSUME TypeOK, StagesFit, [Next]_vars
    PROVE  \/ UNCHANGED <<remotes, slot, claimed>>
           \/ NextEvent
           \/ \E c \in Clients : ApproveChannel(c) \/ SyncLocalPlayers(c)
<1>1. ASSUME NEW c \in Clients, Requests(c), ~SyncLocalPlayers(c)
      PROVE  UNCHANGED <<remotes, slot, claimed>>
  BY <1>1 DEF Requests, CheckAdmission, ConnectionBooted, RequestMasterItems,
     CheckMechanism, PlainRequest, RequestProfiles, SyncStatVersion, EnterConnected
<1>2. ASSUME NEW c \in Clients, Frame(c) PROVE UNCHANGED <<remotes, slot, claimed>>
  BY <1>2 DEF Frame, NoticesClosedChannel, TimesOut, AnswersBooted,
     ClosePendingChannel, SyncCompletes, remoteVars
<1>3. ASSUME NEW c \in Clients, Kick(c) \/ ChannelCloses(c)
      PROVE  UNCHANGED <<remotes, slot, claimed>>
  BY <1>3 DEF Kick, ChannelCloses, remoteVars
<1>4. CASE RelayFails \/ Install \/ UNCHANGED vars
           \/ \E l \in Limits, open \in BOOLEAN : SetAdmissionPolicy(l, open)
  BY <1>4 DEF RelayFails, Install, SetAdmissionPolicy, vars, remoteVars
<1> QED
  BY <1>1, <1>2, <1>3, <1>4 DEF Next, IdleFrame

LEMMA SlotsStayOwned ==
    ASSUME TypeOK, StagesFit, EventsFit, SlotsAreOwned, [Next]_vars
    PROVE  SlotsAreOwned'
<1>0. remotes \subseteq Clients /\ slot \in [Clients -> Slots \union {NoSlot}]
  BY DEF TypeOK
<1>1. CASE UNCHANGED <<remotes, slot, claimed>>
  BY <1>1 DEF SlotsAreOwned
<1>2. ASSUME NEW c \in Clients, ApproveChannel(c) PROVE SlotsAreOwned'
  <2>1. /\ slot[c] = NoSlot /\ remotes' = remotes \union {c}
        /\ UNCHANGED <<slot, claimed>>
    BY <1>2 DEF ApproveChannel, StagesFit, RecordFits
  <2> QED
    BY <1>0, <2>1 DEF SlotsAreOwned
<1>3. ASSUME NEW c \in Clients, SyncLocalPlayers(c) PROVE SlotsAreOwned'
  <2>1. c \in remotes /\ slot[c] = NoSlot /\ remotes' = remotes
    BY <1>3, AskingFits DEF SyncLocalPlayers
  <2>2. CASE ~UNCHANGED <<slot, claimed>>
    <3> DEFINE f == CHOOSE s \in Slots \ claimed : TRUE
    <3>1. claimed # Slots /\ claimed \subseteq Slots
      BY <1>3, <2>2 DEF SyncLocalPlayers, TypeOK
    <3>2. f \in Slots \ claimed
      BY <3>1
    <3>3. slot' = [slot EXCEPT ![c] = f] /\ claimed' = claimed \union {slot'[c]}
      BY <1>3, <2>2 DEF SyncLocalPlayers
    <3> HIDE DEF f
    <3>4. /\ slot'[c] = f /\ f # NoSlot /\ claimed' = claimed \union {f}
          /\ \A d \in Clients \ {c} : slot'[d] = slot[d]
      BY <1>0, <3>2, <3>3, SlotAssumption
    <3>5. \A d \in remotes \ {c} : slot[d] # f
      BY <3>2, <3>4 DEF SlotsAreOwned
    <3>6. \A d, e \in remotes' : d # e /\ slot'[d] # NoSlot => slot'[d] # slot'[e]
      BY <1>0, <2>1, <3>4, <3>5 DEF SlotsAreOwned
    <3>7. claimed' = {slot'[d] : d \in remotes'} \ {NoSlot}
      BY <1>0, <2>1, <3>4 DEF SlotsAreOwned
    <3> QED
      BY <3>6, <3>7 DEF SlotsAreOwned
  <2> QED
    BY <1>1, <2>1, <2>2
<1>4. CASE NextEvent
  <2> DEFINE c == events[1].peer
  <2>1. CASE PlayerConnects(c)
    BY <1>1, <2>1 DEF PlayerConnects, remoteVars
  <2>2. CASE PlayerDisconnects(c)
    <3>1. c \in remotes /\ c \in Clients /\ (stage[c] < Complete \/ c \in members)
      <4>1. c \in Clients /\ c \in remotes
        BY <1>4, QueueShrinks, EventsFit, EventEffect
        DEF PlayerDisconnects, PlayerConnects, Connected, TypeOK
      <4>2. stage[c] = Complete => c \in members
        BY <1>4, <2>2, EventEffect DEF PlayerDisconnects, PlayerConnects, remoteVars,
           TypeOK
      <4> HIDE DEF c
      <4>3. stage[c] \in Version .. Complete
        BY <4>1 DEF TypeOK
      <4> QED
        BY <4>1, <4>2, <4>3
    <3> HIDE DEF c
    <3>2. /\ claimed' = claimed \ {slot[c]} /\ remotes' = remotes \ {c}
          /\ \A d \in remotes' : slot'[d] = slot[d]
      BY <1>0, <2>2, <3>1 DEF PlayerDisconnects, ReleaseSlot
    <3> QED
      BY <1>0, <3>1, <3>2 DEF SlotsAreOwned
  <2> QED
    BY <1>4, <2>1, <2>2, EventEffect
<1> QED
  BY <1>1, <1>2, <1>3, <1>4, SlotKinds

-----------------------------------------------------------------------------
(* Introductions.                                                           *)

(* A step that sends more profiles and otherwise introduces nobody.         *)
OnlySends == /\ UNCHANGED <<told, peerSyncs>> /\ running \subseteq running'
            /\ Connected' = Connected

LEMMA SyncKinds ==
    ASSUME TypeOK, StagesFit, [Next]_vars
    PROVE  \/ OnlySends \/ NextEvent \/ \E c \in Clients : EnterConnected(c)
           \/ \E t \in Clients, s \in Peers : SyncCompletes(t, s)
<1>0. Connected' = Connected \/ NextEvent \/ \E c \in Clients : EnterConnected(c)
  BY StepKinds DEF Quiet, Fails, Connected
<1>1. ASSUME NEW c \in Clients, Requests(c), ~EnterConnected(c)
      PROVE  UNCHANGED <<told, peerSyncs>> /\ running \subseteq running'
  <2>1. CASE RequestProfiles(c)
    BY <2>1 DEF RequestProfiles
  <2> QED
    BY <1>1, <2>1 DEF Requests, CheckAdmission, ConnectionBooted, RequestMasterItems,
       CheckMechanism, PlainRequest, SyncLocalPlayers, SyncStatVersion, syncVars
<1>2. ASSUME NEW c \in Clients, Frame(c), ~\E s \in Peers : SyncCompletes(c, s)
      PROVE  UNCHANGED syncVars
  BY <1>2 DEF Frame, NoticesClosedChannel, TimesOut, AnswersBooted, ClosePendingChannel
<1>3. ASSUME NEW c \in Clients, ApproveChannel(c) \/ Kick(c) \/ ChannelCloses(c)
      PROVE  UNCHANGED syncVars
  BY <1>3 DEF ApproveChannel, Kick, ChannelCloses
<1>4. CASE RelayFails \/ Install \/ UNCHANGED vars
           \/ \E l \in Limits, open \in BOOLEAN : SetAdmissionPolicy(l, open)
  BY <1>0, <1>4 DEF RelayFails, Install, SetAdmissionPolicy, vars, OnlySends, syncVars
<1> QED
  BY <1>0, <1>1, <1>2, <1>3, <1>4 DEF Next, IdleFrame, OnlySends, syncVars

Introductions == PeersFit /\ PlayersAreIntroduced

LEMMA SyncKeepsIntroductions ==
    ASSUME TypeOK, StagesFit, Introductions,
           NEW t \in Clients, NEW s \in Peers, SyncCompletes(t, s), Connected' = Connected
    PROVE  Introductions'
<1>0. Connected \subseteq Clients /\ told \in [Clients -> SUBSET Clients]
  BY DEF Connected, TypeOK
<1>1. CASE s \in awaited[t]
  <2>1. t \notin Connected /\ UNCHANGED <<told, peerSyncs>>
    BY <1>1 DEF SyncCompletes, StagesFit, RecordFits, Connected
  <2>2. running' = running \ {<<t, s>>}
    BY DEF SyncCompletes
  <2>3. \A d, c \in Connected : Introduced(d, c) => Introduced(d, c)'
    BY <2>1, <2>2 DEF Introduced
  <2> QED
    BY <2>1, <2>3 DEF Introductions, PeersFit, PlayersAreIntroduced
<1>2. CASE s \notin awaited[t] /\ <<t, s>> \in peerSyncs
  <2>1. /\ told' = [told EXCEPT ![t] = told[t] \union {s}]
        /\ peerSyncs' = peerSyncs \ {<<t, s>>} /\ running' = running \ {<<t, s>>}
    BY <1>2 DEF SyncCompletes
  <2>2. t \in Connected /\ s \in Connected /\ t # s
    BY <1>2 DEF Introductions, PeersFit
  <2>3. told'[t] = told[t] \union {s} /\ \A d \in Clients \ {t} : told'[d] = told[d]
    BY <1>0, <2>1
  <2>4. \A d, c \in Connected : Introduced(d, c) => Introduced(d, c)'
    <3> SUFFICES ASSUME NEW d \in Connected, NEW c \in Connected, Introduced(d, c)
                 PROVE  Introduced(d, c)'
      OBVIOUS
    <3>1. CASE <<d, c>> = <<t, s>>
      BY <2>3, <3>1 DEF Introduced
    <3>2. CASE <<d, c>> # <<t, s>>
      BY <1>0, <2>1, <2>3, <3>2 DEF Introduced
    <3> QED
      BY <3>1, <3>2
  <2>5. PeersFit'
    BY <2>1, <2>2, <2>3 DEF Introductions, PeersFit
  <2>6. \A d \in Clients : told'[d] \subseteq Connected \ {d}
    BY <2>2, <2>3 DEF Introductions, PlayersAreIntroduced
  <2> QED
    BY <2>4, <2>5, <2>6 DEF Introductions, PlayersAreIntroduced
<1>3. CASE s \notin awaited[t] /\ <<t, s>> \notin peerSyncs
  <2>1. UNCHANGED <<told, peerSyncs>> /\ running' = running \ {<<t, s>>}
    BY <1>3 DEF SyncCompletes
  <2>2. \A d, c \in Connected : Introduced(d, c) => Introduced(d, c)'
    BY <1>3, <2>1 DEF Introduced
  <2> QED
    BY <2>1, <2>2 DEF Introductions, PeersFit, PlayersAreIntroduced
<1> QED
  BY <1>1, <1>2, <1>3

LEMMA EnterKeepsIntroductions ==
    ASSUME TypeOK, StagesFit, Introductions, NEW c \in Clients, EnterConnected(c)
    PROVE  Introductions'
<1>0. Connected \subseteq Clients /\ told \in [Clients -> SUBSET Clients]
  BY DEF Connected, TypeOK
<1>1. /\ c \notin Connected /\ Connected' = Connected \union {c}
      /\ told' = [told EXCEPT ![c] = Connected]
      /\ peerSyncs' = peerSyncs \union {<<d, c>> : d \in Connected}
      /\ running' = running \union {<<d, c>> : d \in Connected}
  BY DEF EnterConnected, Asks, Advance, Connected, TypeOK
<1>2. told'[c] = Connected /\ \A d \in Clients \ {c} : told'[d] = told[d]
  BY <1>0, <1>1
<1>3. PeersFit'
  <2>1. \A p \in peerSyncs' : p[1] \in Connected' /\ p[2] \in Connected' /\ p[1] # p[2]
    BY <1>1 DEF Introductions, PeersFit
  <2> QED
    BY <1>1, <1>2, <2>1 DEF Introductions, PeersFit
<1>4. \A d \in Clients : told'[d] \subseteq Connected' \ {d}
  BY <1>1, <1>2 DEF Introductions, PlayersAreIntroduced
<1>5. \A d, e \in Connected' : d # e => Introduced(e, d)'
  <2> SUFFICES ASSUME NEW d \in Connected', NEW e \in Connected', d # e
               PROVE  Introduced(e, d)'
    OBVIOUS
  <2>1. CASE e = c
    BY <1>1, <1>2, <2>1 DEF Introduced
  <2>2. CASE d = c
    <3>1. <<e, c>> \in peerSyncs' /\ <<e, c>> \in running'
      BY <1>1, <2>2
    <3> QED
      BY <2>2, <3>1 DEF Introduced
  <2>3. CASE d # c /\ e # c
    <3>1. Introduced(e, d)
      BY <1>1, <2>3 DEF Introductions, PlayersAreIntroduced
    <3> QED
      BY <1>0, <1>1, <1>2, <2>3, <3>1 DEF Introduced
  <2> QED
    BY <2>1, <2>2, <2>3
<1> QED
  BY <1>3, <1>4, <1>5 DEF Introductions, PlayersAreIntroduced

LEMMA NextEventKeepsIntroductions ==
    ASSUME TypeOK, StagesFit, EventsFit, Introductions, NextEvent PROVE Introductions'
<1> DEFINE c == events[1].peer
<1>1. CASE PlayerConnects(c) /\ Connected' = Connected
  BY <1>1 DEF PlayerConnects, syncVars, Introductions, PeersFit, PlayersAreIntroduced,
     Introduced
<1>2. ASSUME PlayerDisconnects(c), Connected' = Connected \ {c}, c \in Clients, c \in failed
      PROVE  Introductions'
  <2> HIDE DEF c
  <2>0. /\ Connected \subseteq Clients /\ told \in [Clients -> SUBSET Clients]
        /\ c \in remotes /\ stage[c] = Complete <=> c \in Connected
    BY <1>2 DEF Connected, TypeOK
  <2>1. \A d \in Clients : told'[d] = IF d = c THEN {} ELSE told[d] \ {c}
    <3> SUFFICES ASSUME NEW d \in Clients
                 PROVE  told'[d] = IF d = c THEN {} ELSE told[d] \ {c}
      OBVIOUS
    <3>1. told'[d] = IF d = c THEN {}
                     ELSE IF stage[c] = Complete /\ d \in Connected THEN told[d] \ {c}
                     ELSE told[d]
      BY <1>2 DEF PlayerDisconnects, ForgetSyncs
    <3>2. CASE c \in Connected /\ d \in Connected
      BY <1>2, <2>0, <3>1, <3>2 DEF Connected
    <3>3. CASE c \notin Connected \/ d \notin Connected
      <4>1. c \notin told[d]
        BY <3>3 DEF Introductions, PeersFit, PlayersAreIntroduced
      <4> QED
        BY <3>1, <4>1
    <3> QED
      BY <3>2, <3>3
  <2>2. /\ peerSyncs' = {p \in peerSyncs : p[1] # c /\ p[2] # c}
        /\ running' = {p \in running : p[1] # c}
    BY <1>2 DEF PlayerDisconnects, ForgetSyncs
  <2>3. PeersFit'
    BY <1>2, <2>1, <2>2 DEF Introductions, PeersFit
  <2>4. \A d \in Clients : told'[d] \subseteq Connected' \ {d}
    BY <1>2, <2>1 DEF Introductions, PlayersAreIntroduced
  <2>5. \A d, e \in Connected' : d # e => Introduced(e, d)'
    <3> SUFFICES ASSUME NEW d \in Connected', NEW e \in Connected', d # e
                 PROVE  Introduced(e, d)'
      OBVIOUS
    <3>1. Introduced(e, d) /\ d # c /\ e # c /\ e \in Clients
      BY <1>2, <2>0 DEF Introductions, PlayersAreIntroduced
    <3> QED
      BY <2>1, <2>2, <3>1 DEF Introduced
  <2> QED
    BY <2>3, <2>4, <2>5 DEF Introductions, PlayersAreIntroduced
<1> QED
  BY <1>1, <1>2, EventEffect

LEMMA IntroductionsStay ==
    ASSUME TypeOK, StagesFit, EventsFit, Introductions, [Next]_vars PROVE Introductions'
<1>1. CASE OnlySends
  BY <1>1 DEF OnlySends, Introductions, PeersFit, PlayersAreIntroduced, Introduced
<1>2. ASSUME NEW t \in Clients, NEW s \in Peers, SyncCompletes(t, s) PROVE Introductions'
  <2>1. Connected' = Connected
    BY <1>2, FrameKinds DEF Frame, Quiet, Fails, Connected
  <2> QED
    BY <1>2, <2>1, SyncKeepsIntroductions
<1> QED
  BY <1>1, <1>2, SyncKinds, EnterKeepsIntroductions, NextEventKeepsIntroductions
-----------------------------------------------------------------------------
(* Steps.                                                                   *)

(* How the stage of c may move: it stays, it advances on one side of the    *)
(* place where a client is given its slot, or it passes that place.         *)
Passes(c) == CheckAdmission(c) /\ Asks(c, ClaimsSlot) /\ Refusal = "none"

Moves(c) ==
    \/ stage'[c] = stage[c]
    \/ stage'[c] > stage[c] /\ (stage'[c] <= ClaimsSlot \/ stage[c] > ClaimsSlot)
    \/ Passes(c) /\ stage'[c] > stage[c]

(* Stages are numbers, before and after a step.                             *)
LEMMA StageType ==
    ASSUME TypeOK, TypeOK', NEW c \in Clients
    PROVE  /\ stage[c] \in Version .. Complete /\ stage[c] \in Nat
           /\ stage'[c] \in Version .. Complete /\ stage'[c] \in Nat
<1>1. /\ stage \in [Clients -> Version .. Complete]
      /\ stage' \in [Clients -> Version .. Complete]
  BY DEF TypeOK
<1> QED
  BY <1>1

LEMMA AdvanceMoves ==
    ASSUME TypeOK, NEW c \in Clients, NEW d \in Clients,
           NEW s \in Version .. Complete, Advance(d, s),
           s > stage[d], s <= ClaimsSlot \/ stage[d] > ClaimsSlot
    PROVE  Moves(c)
  BY DEF Advance, TypeOK, Moves

LEMMA RequestsMove ==
    ASSUME TypeOK, NEW c \in Clients, NEW d \in Clients, Requests(d) PROVE Moves(c)
<1>1. CASE CheckAdmission(d)
  <2>1. PICK s \in {Version, ClaimsSlot} :
           /\ Asks(d, s)
           /\ IF Refusal # "none" THEN Fail(d, Refusal) /\ UNCHANGED stage
              ELSE Advance(d, s + 1) /\ UNCHANGED <<failed, events, linkVars>>
    BY <1>1 DEF CheckAdmission
  <2>2. CASE Refusal # "none"
    BY <2>1, <2>2 DEF Moves
  <2>3. CASE Refusal = "none" /\ s = Version
    BY <2>1, <2>3, AdvanceMoves DEF Asks
  <2>4. CASE Refusal = "none" /\ s = ClaimsSlot
    <3>1. CASE c = d
      BY <1>1, <2>1, <2>4, <3>1 DEF Asks, Advance, TypeOK, Moves, Passes
    <3>2. CASE c # d
      BY <2>1, <2>4, <3>2 DEF Advance, TypeOK, Moves
    <3> QED
      BY <3>1, <3>2
  <2> QED
    BY <2>1, <2>2, <2>3, <2>4
<1>2. CASE ConnectionBooted(d)
  BY <1>2, AdvanceMoves DEF ConnectionBooted, Asks, Moves
<1>3. CASE RequestMasterItems(d)
  BY <1>3, AdvanceMoves DEF RequestMasterItems, Asks, Moves
<1>4. CASE CheckMechanism(d)
  BY <1>4, AdvanceMoves DEF CheckMechanism, Asks, Moves
<1>5. CASE PlainRequest(d)
  <2>1. PICK s \in PlainStages : Asks(d, s) /\ Advance(d, s + 1)
    BY <1>5 DEF PlainRequest
  <2>2. s + 1 \in Version .. Complete /\ s + 1 > stage[d]
        /\ (s + 1 <= ClaimsSlot \/ stage[d] > ClaimsSlot)
    BY <2>1 DEF PlainStages, Asks
  <2> QED
    BY <2>1, <2>2, AdvanceMoves
<1>6. CASE SyncLocalPlayers(d)
  BY <1>6, AdvanceMoves DEF SyncLocalPlayers, Asks, Moves
<1>7. CASE RequestProfiles(d)
  BY <1>7 DEF RequestProfiles, Moves
<1>8. CASE SyncStatVersion(d)
  BY <1>8, AdvanceMoves DEF SyncStatVersion, Asks
<1>9. CASE EnterConnected(d)
  BY <1>9, AdvanceMoves DEF EnterConnected, Asks
<1> QED
  BY <1>1, <1>2, <1>3, <1>4, <1>5, <1>6, <1>7, <1>8, <1>9 DEF Requests

LEMMA FramesMove ==
    ASSUME TypeOK, StagesFit, NEW c \in Clients, NEW d \in Clients, Frame(d)
    PROVE  Moves(c)
<1>1. CASE AnswersBooted(d)
  <2>1. stage[d] = Booted
    BY <1>1 DEF AnswersBooted, StagesFit, RecordFits
  <2> QED
    BY <1>1, <2>1, AdvanceMoves DEF AnswersBooted
<1>2. CASE \E s \in Peers : SyncCompletes(d, s)
  <2>1. UNCHANGED stage \/ (Advance(d, Dlc) /\ stage[d] = Profiles)
    BY <1>2 DEF SyncCompletes, Advance, StagesFit, RecordFits
  <2> QED
    BY <2>1, AdvanceMoves DEF Moves
<1>3. CASE NoticesClosedChannel(d) \/ TimesOut(d) \/ ClosePendingChannel(d)
  BY <1>3 DEF NoticesClosedChannel, TimesOut, ClosePendingChannel, remoteVars, Moves
<1> QED
  BY <1>1, <1>2, <1>3 DEF Frame

LEMMA StepsMove ==
    ASSUME TypeOK, StagesFit, [Next]_vars, NEW c \in Clients
    PROVE  Moves(c) \/ (c \notin remotes' /\ stage'[c] = Version)
<1>1. CASE NextEvent
  <2>1. Head(events).peer \in Clients
    BY <1>1, QueueShrinks
  <2> QED
    BY <1>1, <2>1 DEF NextEvent, PlayerConnects, PlayerDisconnects, remoteVars, TypeOK, Moves
<1>2. CASE UNCHANGED stage
  BY <1>2 DEF Moves
<1> QED
  BY <1>1, <1>2, RequestsMove, FramesMove
  DEF Next, IdleFrame, ApproveChannel, Kick, ChannelCloses, SetAdmissionPolicy,
      RelayFails, Install, remoteVars, vars

-----------------------------------------------------------------------------
(* The theorems.                                                            *)

LEMMA InvHolds == Spec => []AdmissionInv
<1>1. Init => AdmissionInv
  <2> SUFFICES ASSUME Init PROVE AdmissionInv
    OBVIOUS
  <2>1. Connected = {}
    BY DEF Init, Connected
  <2>2. DOMAIN events = {}
    BY DEF Init
  <2>3. StagesFit
    BY DEF Init, StagesFit, RecordFits
  <2>4. EventsFit
    BY <2>1, <2>2 DEF EventsFit
  <2>5. SlotsAreOwned
    BY DEF Init, SlotsAreOwned
  <2>6. MembersAreConnected /\ PeersFit /\ PlayersAreIntroduced
    BY <2>1 DEF Init, MembersAreConnected, PeersFit, PlayersAreIntroduced
  <2>7. TypeOK
    BY InitType
  <2> QED
    BY <2>3, <2>4, <2>5, <2>6, <2>7 DEF AdmissionInv
<1>2. AdmissionInv /\ [Next]_vars => AdmissionInv'
  BY TypeStays, StagesStayFit, EventsStayFit, MembersStayConnected, SlotsStayOwned,
     IntroductionsStay
  DEF AdmissionInv, Introductions
<1> QED
  BY <1>1, <1>2, PTL DEF Spec

(* Every claimed slot belongs to exactly one connection, whichever of the   *)
(* host and the engine has to release it.                                   *)
THEOREM SlotsCorrect == Spec => []SlotsAreOwned
  BY InvHolds, PTL DEF AdmissionInv

(* The engine keeps no player whose connection the host has forgotten:      *)
(* whatever fails meanwhile, events are handled in an order that fits.      *)
THEOREM PlayersCorrect == Spec => []MembersAreConnected
  BY InvHolds, PTL DEF AdmissionInv

(* Any two connected players were told of each other or are about to be,    *)
(* and nobody is told of a player who has gone.                             *)
THEOREM IntroductionsCorrect == Spec => []PlayersAreIntroduced
  BY InvHolds, PTL DEF AdmissionInv

(* A connection never falls back to an earlier stage, not even when a       *)
(* profile arrives late.                                                    *)
THEOREM StagesCorrect == Spec => StagesOnlyAdvance
<1>1. AdmissionInv /\ [Next]_vars =>
         [\A c \in remotes \intersect remotes' : stage'[c] >= stage[c]]_vars
  <2> SUFFICES ASSUME AdmissionInv, [Next]_vars, NEW c \in remotes \intersect remotes'
               PROVE  stage'[c] >= stage[c]
    OBVIOUS
  <2>1. c \in Clients /\ TypeOK /\ TypeOK' /\ StagesFit
    BY TypeStays DEF AdmissionInv, TypeOK
  <2>2. stage[c] \in Nat /\ stage'[c] \in Nat
    BY <2>1, StageType
  <2> QED
    BY <2>1, <2>2, StepsMove DEF Moves
<1> QED
  BY <1>1, InvHolds, PTL DEF Spec, StagesOnlyAdvance

(* The party never grows beyond the limit of the moment, for any number of  *)
(* clients that are being admitted at once.                                 *)
THEOREM PartyCorrect == Spec => PartyFitsLimit
<1>1. AdmissionInv /\ [Next]_vars =>
         [\A c \in Clients : c \in Party' \ Party => Cardinality(Party') + 1 <= limit]_vars
  <2> SUFFICES ASSUME AdmissionInv, [Next]_vars, NEW c \in Clients, c \in Party' \ Party
               PROVE  Cardinality(Party') + 1 <= limit
    OBVIOUS
  <2>1. TypeOK /\ StagesFit /\ TypeOK'
    BY TypeStays DEF AdmissionInv
  <2>2. Passes(c)
    <3>1. c \in remotes' /\ stage'[c] > ClaimsSlot
      BY DEF Party
    <3>2. CASE c \in remotes
      <4>1. stage[c] \in Nat /\ stage'[c] \in Nat
        BY <2>1, StageType
      <4>2. stage[c] <= ClaimsSlot
        BY <3>2, <4>1 DEF Party
      <4> QED
        BY <2>1, <3>1, <4>1, <4>2, StepsMove DEF Moves
    <3>3. CASE c \notin remotes
      <4>1. stage[c] = Version
        BY <2>1, <3>3 DEF StagesFit, RecordFits
      <4>2. stage'[c] \in Nat /\ c \notin remotes \ failed
        BY <2>1, <3>3, StageType
      <4>3. Moves(c)
        BY <2>1, <3>1, StepsMove
      <4>4. stage'[c] <= ClaimsSlot \/ Passes(c)
        BY <3>1, <4>1, <4>2, <4>3 DEF Moves
      <4> QED
        BY <3>1, <4>2, <4>4 DEF Passes
    <3> QED
      BY <3>2, <3>3
  <2>3. remotes' = remotes /\ IsFiniteSet(remotes) /\ Party' \subseteq remotes
    BY <2>1, <2>2, PeerAssumption, FS_Subset DEF Passes, CheckAdmission, Party, TypeOK
  <2>4. /\ Cardinality(remotes) \in Nat /\ Cardinality(Party') \in Nat
        /\ Cardinality(Party') <= Cardinality(remotes)
    BY <2>3, FS_Subset, FS_CardinalityType
  <2>5. limit \in Nat \ {0}
    BY <2>1, LimitAssumption DEF TypeOK
  <2>6. ~(Cardinality(remotes) > limit - 1)
    BY <2>2 DEF Passes, Refusal
  <2> QED
    BY <2>4, <2>5, <2>6
<1> QED
  BY <1>1, InvHolds, PTL DEF Spec, PartyFitsLimit

(* A player who has connected goes only when its channel has closed.        *)
THEOREM PlayersStay == Spec => ConnectedPlayersStay
<1>1. AdmissionInv /\ [Next]_vars =>
         [\A c \in Connected : c \notin remotes' => link[c] = "closed"]_vars
  <2> SUFFICES ASSUME AdmissionInv, [Next]_vars, NEW c \in Connected, c \notin remotes'
               PROVE  link[c] = "closed"
    OBVIOUS
  <2>1. c \in Clients /\ c \in remotes /\ stage[c] = Complete
    BY DEF AdmissionInv, TypeOK, Connected
  <2>2. NextEvent
    BY <2>1, SlotKinds DEF AdmissionInv, ApproveChannel, SyncLocalPlayers
  <2>3. c \in failed
    BY <2>1, <2>2, EventEffect DEF AdmissionInv, PlayerConnects, PlayerDisconnects,
       remoteVars
  <2> QED
    BY <2>1, <2>3 DEF AdmissionInv, StagesFit, RecordFits
<1> QED
  BY <1>1, InvHolds, PTL DEF Spec, ConnectedPlayersStay
=============================================================================
