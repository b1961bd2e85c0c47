-------------------------- MODULE HostTransportProofs --------------------------
(***************************************************************************)
(* The host's transport, for any number of peers, addresses, slots and      *)
(* channels.  The engine's listeners are those the slots know of, because   *)
(* each token is written to one slot when the engine hands it out; the      *)
(* relay's table gives a peer one entry; and an adoption on its way to the  *)
(* relay thread is followed by a release once its peer is not served.       *)
(***************************************************************************)
EXTENDS HostTransport, FiniteSetTheorems, SequenceTheorems, TLAPS

(* Every listener a slot knows of is one of the engine's, registered for    *)
(* that slot, its peer and its channel.                                     *)
SlotListeners(s) ==
    /\ slots[s].peer = None => SlotTokens(s) = {}
    /\ slots[s].peerToken # NoToken =>
         /\ slots[s].peerToken \in DOMAIN engine
         /\ engine[slots[s].peerToken] = [kind |-> "peer", key |-> slots[s].peer, slot |-> s]
    /\ slots[s].channelToken # NoToken =>
         /\ slots[s].channelToken \in DOMAIN engine
         /\ engine[slots[s].channelToken] =
              [kind |-> "channel", key |-> slots[s].channel, slot |-> s]

SessionListener ==
    /\ session.listener # NoToken =>
         session.listener \in DOMAIN engine /\ engine[session.listener] = HostListener
    /\ session.listener = NoToken => \A s \in Index : SlotTokens(s) = {}

(* The engine has no other listeners.                                       *)
NoStrayListeners ==
    \A t \in DOMAIN engine :
      t = session.listener \/ \E s \in Index : t \in SlotTokens(s)

ListenersInv ==
    (\A s \in Index : SlotListeners(s)) /\ SessionListener /\ NoStrayListeners

OneSlotEach ==
    \A s, t \in Index : slots[s].peer # None /\ slots[s].peer = slots[t].peer => s = t

OneEntryEach ==
    \A e, f \in Index : Occupied(e) /\ Occupied(f) /\ e # f =>
      table[e].peer # table[f].peer /\ table[e].ext # table[f].ext

(* The commands the relay thread has still to apply, in their order.        *)
Waiting == batch \o commands

Released(q, p) == \E i \in DOMAIN q : q[i] = [type |-> "release", peer |-> p]

(* An adoption in q is of a peer that is served, or is undone further on.   *)
AdoptionsEnd(q, served) ==
    \A i \in DOMAIN q : q[i].type = "adopt" /\ q[i].peer \notin served =>
      \E j \in DOMAIN q : i < j /\ q[j] = [type |-> "release", peer |-> q[i].peer]

Served == {p \in Peer : Serving(p)}

RelayState ==
    /\ ~running => \A e \in Index : table[e] = Empty
    /\ ~running => worker \in {"none", "done"}
    /\ worker # "commands" => batch = <<>>

AdoptionsInv ==
    running =>
      /\ \A e \in Index : Occupied(e) /\ table[e].adopted =>
           table[e].peer \in Served \/ Released(Waiting, table[e].peer)
      /\ AdoptionsEnd(Waiting, Served)

TransportInv ==
    /\ TypeOK
    /\ ListenersInv
    /\ OneSlotEach
    /\ OneEntryEach
    /\ RelayState
    /\ AdoptionsInv

-----------------------------------------------------------------------------
(* Numbers and sequences.                                                   *)

(* A set of numbers has a least one.  The library's well-founded order of   *)
(* finite sets gives it: the least of the intervals that end in the set.    *)
LEMMA LeastNumber ==
    ASSUME NEW S \in SUBSET Nat, S # {}
    PROVE  \E m \in S : \A k \in S : m <= k
<1> DEFINE R == StrictSubsetOrdering(Nat)
           F == FiniteSubsetsOf(Nat)
           T == {0 .. n : n \in S}
<1>1. IsWellFoundedOn(R, F)
  BY FS_StrictSubsetOrderingWellFounded
<1>2. T \subseteq F
  <2>1. ASSUME NEW n \in S PROVE 0 .. n \in F
    BY FS_Interval DEF FiniteSubsetsOf
  <2> QED
    BY <2>1
<1>3. T # {}
  OBVIOUS
<1>4. PICK U \in T : \A V \in T : <<V, U>> \notin R
  <2> HIDE DEF R, F, T
  <2> QED
    BY <1>1, <1>2, <1>3, WFMin
<1>5. PICK m \in S : U = 0 .. m
  OBVIOUS
<1>6. ASSUME NEW k \in S, k < m PROVE FALSE
  <2>1. 0 .. k \in T
    OBVIOUS
  <2>2. /\ 0 .. k \subseteq 0 .. m /\ 0 .. k # 0 .. m
        /\ 0 .. k \in SUBSET Nat /\ 0 .. m \in SUBSET Nat
    <3>1. m \in 0 .. m /\ m \notin 0 .. k
      BY <1>6
    <3> QED
      BY <1>6, <3>1
  <2>3. <<0 .. k, 0 .. m>> \in R
    BY <2>2 DEF StrictSubsetOrdering
  <2> QED
    BY <1>4, <1>5, <2>1, <2>3
<1> QED
  BY <1>6

LEMMA FirstIn ==
    ASSUME NEW S \in SUBSET Nat, S # {}
    PROVE  First(S) \in S
  BY LeastNumber DEF First

LEMMA FirstIndex ==
    ASSUME NEW S \in SUBSET Index, S # {}
    PROVE  First(S) \in S /\ First(S) \in Index
<1>1. S \in SUBSET Nat
  BY RelayAssumption DEF Index
<1> QED
  BY <1>1, FirstIn

LEMMA FreeToken ==
    ASSUME FreeTokens # {}
    PROVE  First(FreeTokens) \in Token /\ First(FreeTokens) \notin DOMAIN engine
<1>1. FreeTokens \in SUBSET Nat
  BY HostAssumption DEF FreeTokens, Token
<1>2. First(FreeTokens) \in FreeTokens
  BY <1>1, FirstIn
<1> QED
  BY <1>2 DEF FreeTokens

LEMMA TokenTypes == NoToken \notin Token /\ Index \in SUBSET Nat /\ 0 \notin Index
  BY HostAssumption, RelayAssumption DEF Token, NoToken, Index

LEMMA NoneIsNobody == None \notin Peer /\ None \notin Endpoint /\ None \notin Channel
  BY HostAssumption, RelayAssumption

(* What the commands that wait become when one more does.                   *)
LEMMA QueueGrows ==
    ASSUME NEW q \in Seq(Command), NEW served, AdoptionsEnd(q, served),
           NEW cmd \in Command
    PROVE  /\ Append(q, cmd) \in Seq(Command)
           /\ \A p \in Peer : Released(q, p) => Released(Append(q, cmd), p)
           /\ cmd.type = "release" => /\ Released(Append(q, cmd), cmd.peer)
                                      /\ AdoptionsEnd(Append(q, cmd), served \ {cmd.peer})
           /\ cmd.type = "adopt" => AdoptionsEnd(Append(q, cmd), served \cup {cmd.peer})
<1> DEFINE r == Append(q, cmd)
<1>1. /\ r \in Seq(Command)
      /\ Len(q) \in Nat
      /\ DOMAIN q = 1 .. Len(q)
      /\ DOMAIN r = 1 .. (Len(q) + 1)
      /\ \A i \in 1 .. Len(q) : r[i] = q[i] /\ q[i] \in Command
      /\ r[Len(q) + 1] = cmd
  OBVIOUS
<1> HIDE DEF r
<1>2. \A p \in Peer : Released(q, p) => Released(r, p)
  BY <1>1 DEF Released
<1>3. ASSUME cmd.type = "release"
      PROVE  Released(r, cmd.peer) /\ AdoptionsEnd(r, served \ {cmd.peer})
  <2>1. cmd = [type |-> "release", peer |-> cmd.peer]
    BY <1>3 DEF Command
  <2>2. Released(r, cmd.peer)
    BY <1>1, <2>1 DEF Released
  <2>3. AdoptionsEnd(r, served \ {cmd.peer})
    <3> SUFFICES ASSUME NEW i \in DOMAIN r, r[i].type = "adopt",
                        r[i].peer \notin served \/ r[i].peer = cmd.peer
                 PROVE  \E j \in DOMAIN r : i < j /\ r[j] = [type |-> "release", peer |-> r[i].peer]
      BY DEF AdoptionsEnd
    <3>1. i \in 1 .. Len(q) /\ i < Len(q) + 1
      BY <1>1, <1>3
    <3>2. CASE r[i].peer = cmd.peer
      BY <1>1, <2>1, <3>1, <3>2
    <3>3. CASE r[i].peer \notin served
      BY <1>1, <3>1, <3>3 DEF AdoptionsEnd
    <3> QED
      BY <3>2, <3>3
  <2> QED
    BY <2>2, <2>3
<1>4. ASSUME cmd.type = "adopt"
      PROVE  AdoptionsEnd(r, served \cup {cmd.peer})
  <2> SUFFICES ASSUME NEW i \in DOMAIN r, r[i].type = "adopt",
                      r[i].peer \notin served, r[i].peer # cmd.peer
               PROVE  \E j \in DOMAIN r : i < j /\ r[j] = [type |-> "release", peer |-> r[i].peer]
    BY DEF AdoptionsEnd
  <2>1. i \in 1 .. Len(q)
    BY <1>1
  <2> QED
    BY <1>1, <2>1 DEF AdoptionsEnd
<1> QED
  BY <1>1, <1>2, <1>3, <1>4 DEF r

(* And when the first is applied.                                           *)
LEMMA QueueShrinks ==
    ASSUME NEW q \in Seq(Command), q # <<>>, NEW served, AdoptionsEnd(q, served)
    PROVE  /\ AdoptionsEnd(Tail(q), served)
           /\ \A p \in Peer : Released(q, p) =>
                Released(Tail(q), p) \/ Head(q) = [type |-> "release", peer |-> p]
           /\ Head(q).type = "adopt" =>
                Head(q).peer \in served \/ Released(Tail(q), Head(q).peer)
<1> DEFINE t == Tail(q)
<1>1. /\ Len(q) \in Nat /\ Len(q) > 0
      /\ DOMAIN q = 1 .. Len(q)
      /\ DOMAIN t = 1 .. (Len(q) - 1)
      /\ \A i \in DOMAIN t : t[i] = q[i + 1] /\ i + 1 \in DOMAIN q
      /\ Head(q) = q[1] /\ 1 \in DOMAIN q
  OBVIOUS
<1> HIDE DEF t
<1>2. \A j \in DOMAIN q : j > 1 => j - 1 \in DOMAIN t /\ t[j - 1] = q[j]
  BY <1>1
<1>3. AdoptionsEnd(t, served)
  <2> SUFFICES ASSUME NEW i \in DOMAIN t, t[i].type = "adopt", t[i].peer \notin served
               PROVE  \E j \in DOMAIN t : i < j /\ t[j] = [type |-> "release", peer |-> t[i].peer]
    BY DEF AdoptionsEnd
  <2>1. PICK j \in DOMAIN q : i + 1 < j /\ q[j] = [type |-> "release", peer |-> t[i].peer]
    BY <1>1 DEF AdoptionsEnd
  <2> QED
    BY <1>1, <1>2, <2>1
<1>4. ASSUME NEW p \in Peer, Released(q, p)
      PROVE  Released(t, p) \/ q[1] = [type |-> "release", peer |-> p]
  <2>1. PICK j \in DOMAIN q : q[j] = [type |-> "release", peer |-> p]
    BY <1>4 DEF Released
  <2>2. CASE j = 1
    BY <2>1, <2>2
  <2>3. CASE j > 1
    BY <1>2, <2>1, <2>3 DEF Released
  <2> QED
    BY <1>1, <2>2, <2>3
<1>5. ASSUME q[1].type = "adopt", q[1].peer \notin served
      PROVE  Released(t, q[1].peer)
  <2>1. PICK j \in DOMAIN q : 1 < j /\ q[j] = [type |-> "release", peer |-> q[1].peer]
    BY <1>1, <1>5 DEF AdoptionsEnd
  <2> QED
    BY <1>2, <2>1 DEF Released
<1> QED
  BY <1>1, <1>3, <1>4, <1>5 DEF t

-----------------------------------------------------------------------------
(* Types.                                                                   *)

Entry == [peer : Peer \cup {None}, conn : ConnId \cup {None},
          ext : Endpoint \cup {None}, adopted : BOOLEAN, expired : BOOLEAN]

Slot == [peer : Peer \cup {None}, state : {"pending", "adopted", "released"},
         peerToken : Token \cup {NoToken}, channelToken : Token \cup {NoToken},
         channel : Channel \cup {None}, remote : Channel \cup {None}]

RelayType ==
    /\ running \in BOOLEAN
    /\ worker \in {"none", "top", "commands", "public", "done"}
    /\ table \in [Index -> Entry]
    /\ commands \in Seq(Command)
    /\ batch \in Seq(Command)
    /\ arriving \subseteq Peer

EngineType ==
    DOMAIN engine \subseteq Token /\ \A t \in DOMAIN engine : engine[t] \in Listener

HostType ==
    /\ session \in [listener : Token \cup {NoToken}, active : BOOLEAN]
    /\ slots \in [Index -> Slot]
    /\ EngineType
    /\ lobby \in [state : {"none", "fresh", "joined"}, members : SUBSET Peer]

LEMMA TypeParts == TypeOK <=> RelayType /\ HostType
  BY DEF TypeOK, RelayType, HostType, EngineType, Entry, Slot

LEMMA TypePartsNext == TypeOK' <=> RelayType' /\ HostType'
  BY DEF TypeOK, RelayType, HostType, EngineType, Entry, Slot

LEMMA EmptyTypes == Empty \in Entry /\ Unclaimed \in Slot /\ HostListener \in Listener
  BY DEF Empty, Entry, Unclaimed, Slot, HostListener, Listener

LEMMA NothingQueued == <<>> \in Seq(Command)
  OBVIOUS

LEMMA InitType == Init => TypeOK
<1> SUFFICES ASSUME Init PROVE TypeOK
  OBVIOUS
<1>1. RelayType
  BY EmptyTypes, NothingQueued DEF Init, RelayInit, RelayType
<1>2. HostType
  BY EmptyTypes DEF Init, HostInit, HostType, EngineType, NoSession
<1> QED
  BY <1>1, <1>2, TypeParts

(* The game thread's operations on the relay.                               *)
LEMMA StopType == RelayType /\ StopRelay => RelayType'
  BY EmptyTypes, NothingQueued DEF RelayType, StopRelay

LEMMA QueueType ==
    ASSUME RelayType, NEW p \in Peer, NEW type \in {"adopt", "release"}, Queue(type, p)
    PROVE  commands' \in Seq(Command)
<1> DEFINE cmd == [type |-> type, peer |-> p]
<1>1. cmd \in Command
  BY DEF Command
<1>2. commands' = commands \/ commands' = Append(commands, cmd)
  BY DEF Queue
<1> HIDE DEF cmd
<1> QED
  BY <1>1, <1>2 DEF RelayType

LEMMA RegisteredType ==
    ASSUME EngineType, NEW token \in Token, NEW listener \in Listener
    PROVE  LET more == Registered(token, listener, engine)
           IN  /\ DOMAIN more = DOMAIN engine \cup {token}
               /\ DOMAIN more \subseteq Token
               /\ \A t \in DOMAIN more : more[t] = IF t = token THEN listener ELSE engine[t]
               /\ \A t \in DOMAIN more : more[t] \in Listener
  BY DEF Registered, EngineType

LEMMA RemovedType ==
    ASSUME EngineType, NEW tokens
    PROVE  LET less == Removed(tokens, engine)
           IN  /\ DOMAIN less = DOMAIN engine \ tokens
               /\ DOMAIN less \subseteq Token
               /\ \A t \in DOMAIN less : less[t] = engine[t]
               /\ \A t \in DOMAIN less : less[t] \in Listener
  BY DEF Removed, EngineType

LEMMA RelayStepType ==
    ASSUME RelayType, RelayNext
    PROVE  RelayType'
<1> USE DEF RelayType
<1>1. CASE TakeCommands
  BY <1>1 DEF TakeCommands
<1>2. CASE ApplyCommand
  <2>1. table' \in [Index -> Entry]
    BY <1>2, EmptyTypes DEF ApplyCommand, Entry
  <2>2. batch' \in Seq(Command)
    BY <1>2 DEF ApplyCommand
  <2> QED
    BY <1>2, <2>1, <2>2 DEF ApplyCommand
<1>3. CASE ReapAndPoll
  BY <1>3, EmptyTypes DEF ReapAndPoll
<1>4. CASE ServeGameSockets
  BY <1>4, EmptyTypes DEF ServeGameSockets
<1>5. CASE RelayFails
  BY <1>5, EmptyTypes DEF RelayFails
<1>6. ASSUME NEW e \in Index, EntryExpires(e) PROVE RelayType'
  BY <1>6 DEF EntryExpires, Entry
<1>7. ASSUME NEW x \in Endpoint, NEW r \in Route,
             FromKnown(x, r) \/ Rebind(x, r) \/ NewPeer(x, r)
      PROVE  RelayType'
  <2>a. /\ r.conn \in ConnId \cup {None} /\ r.peer \in Peer \cup {None}
        /\ Connectionless(r) => r.peer \in Peer
    BY <1>7 DEF Route, Connectionless
  <2>1. ASSUME Forward(r) PROVE arriving' \subseteq Peer
    BY <2>1, <2>a DEF Forward
  <2>2. ASSUME NEW e \in Index PROVE NewConn(e, r) \in ConnId \cup {None}
    BY <2>2, <2>a DEF NewConn, Entry
  <2>3. CASE FromKnown(x, r)
    <3>1. PICK e \in Index : table' = [table EXCEPT ![e].conn = NewConn(e, r)]
      BY <2>3 DEF FromKnown, Known
    <3>2. table' \in [Index -> Entry]
      BY <2>2, <3>1 DEF Entry
    <3> QED
      BY <2>1, <2>3, <3>2 DEF FromKnown
  <2>4. CASE Rebind(x, r)
    <3> DEFINE e == First(Routed(r))
    <3>1. e \in Index
      BY <2>4, FirstIndex DEF Rebind, Routed
    <3>2. table' = [table EXCEPT ![e].ext = x, ![e].conn = NewConn(e, r)]
      BY <2>4 DEF Rebind
    <3> HIDE DEF e
    <3>3. table' \in [Index -> Entry]
      BY <2>2, <3>1, <3>2 DEF Entry
    <3> QED
      BY <2>1, <2>4, <3>3 DEF Rebind
  <2>5. CASE NewPeer(x, r)
    <3>1. [Empty EXCEPT !.peer = r.peer, !.ext = x] \in Entry
      BY <2>a DEF Empty, Entry
    <3>2. table' \in [Index -> Entry]
      BY <2>5, <3>1 DEF NewPeer
    <3> QED
      BY <2>1, <2>5, <3>2 DEF NewPeer
  <2> QED
    BY <1>7, <2>3, <2>4, <2>5
<1> QED
  BY <1>1, <1>2, <1>3, <1>4, <1>5, <1>6, <1>7 DEF RelayNext, RelayThread, ReceivePublic

LEMMA SlotChoice ==
    ASSUME NEW p \in Peer, HostType, Holding(p) \cup Holding(None) # {}
    PROVE  /\ SlotFor(p) \in Index
           /\ Claimed(p) \in [Index -> Slot]
           /\ \A s \in Index \ {SlotFor(p)} : Claimed(p)[s] = slots[s]
           /\ Claimed(p)[SlotFor(p)].peer = p
           /\ \/ /\ slots[SlotFor(p)].peer = p
                 /\ Claimed(p)[SlotFor(p)].peerToken = slots[SlotFor(p)].peerToken
                 /\ Claimed(p)[SlotFor(p)].channelToken = slots[SlotFor(p)].channelToken
                 /\ Claimed(p)[SlotFor(p)].channel = slots[SlotFor(p)].channel
              \/ /\ slots[SlotFor(p)].peer = None /\ Holding(p) = {}
                 /\ Claimed(p)[SlotFor(p)].peerToken = NoToken
                 /\ Claimed(p)[SlotFor(p)].channelToken = NoToken
<1> USE DEF HostType
<1>1. CASE Holding(p) # {}
  <2> DEFINE s == First(Holding(p))
  <2>1. s \in Index /\ slots[s].peer = p
    BY <1>1, FirstIndex DEF Holding
  <2>2. SlotFor(p) = s
    BY <1>1 DEF SlotFor
  <2>3. Claimed(p) = [slots EXCEPT ![s].state = IF @ = "released" THEN "pending" ELSE @]
    BY <1>1 DEF Claimed
  <2> HIDE DEF s
  <2>4. /\ Claimed(p) \in [Index -> Slot]
        /\ \A t \in Index \ {s} : Claimed(p)[t] = slots[t]
        /\ Claimed(p)[s].peer = p
        /\ Claimed(p)[s].peerToken = slots[s].peerToken
        /\ Claimed(p)[s].channelToken = slots[s].channelToken
        /\ Claimed(p)[s].channel = slots[s].channel
    BY <2>1, <2>3 DEF Slot
  <2> QED
    BY <2>1, <2>2, <2>4
<1>2. CASE Holding(p) = {}
  <2> DEFINE s == First(Holding(None))
  <2>1. s \in Index /\ slots[s].peer = None
    BY <1>2, FirstIndex DEF Holding
  <2>2. SlotFor(p) = s
    BY <1>2 DEF SlotFor
  <2>3. Claimed(p) = [slots EXCEPT ![s] = [Unclaimed EXCEPT !.peer = p]]
    BY <1>2 DEF Claimed
  <2> HIDE DEF s
  <2>4. [Unclaimed EXCEPT !.peer = p] \in Slot
    BY DEF Unclaimed, Slot
  <2>5. /\ Claimed(p) \in [Index -> Slot]
        /\ \A t \in Index \ {s} : Claimed(p)[t] = slots[t]
        /\ Claimed(p)[s] = [Unclaimed EXCEPT !.peer = p]
    BY <2>1, <2>3, <2>4
  <2> QED
    BY <1>2, <2>1, <2>2, <2>5 DEF Unclaimed
<1> QED
  BY <1>1, <1>2

-----------------------------------------------------------------------------
(* The slots and the engine's listeners.                                    *)

SlotsInv == HostType /\ ListenersInv /\ OneSlotEach

LEMMA Tokens2 ==
    ASSUME NEW s \in Index, slots \in [Index -> Slot]
    PROVE  /\ \A t : t \in SlotTokens(s) <=>
                t # NoToken /\ (t = slots[s].peerToken \/ t = slots[s].channelToken)
           /\ SlotTokens(s) \subseteq Token
  BY DEF SlotTokens, Slot

LEMMA TokenOwner ==
    ASSUME SlotsInv, NEW s \in Index, NEW k \in SlotTokens(s)
    PROVE  k \in DOMAIN engine /\ engine[k].slot = s
<1>1. SlotListeners(s)
  BY DEF SlotsInv, ListenersInv
<1>2. CASE k = slots[s].peerToken
  BY <1>1, <1>2 DEF SlotListeners, SlotTokens
<1>3. CASE k = slots[s].channelToken
  BY <1>1, <1>3 DEF SlotListeners, SlotTokens
<1> QED
  BY <1>2, <1>3 DEF SlotTokens

(* No slot is claimed and no session is open: the engine has no listener.   *)
LEMMA NobodyListens ==
    ASSUME SlotsInv, SessionGone
    PROVE  DOMAIN engine = {} /\ \A s \in Index : SlotTokens(s) = {}
<1>1. session.listener = NoToken
  BY DEF SessionGone, NoSession
<1> QED
  BY <1>1, TokenTypes
  DEF SlotsInv, ListenersInv, SessionListener, NoStrayListeners, HostType, EngineType

(* The slots are reset, and the engine has the listener of the session only. *)
LEMMA ResetSlots ==
    ASSUME SlotsInv, HostType',
           slots' = [s \in Index |-> Unclaimed],
           DOMAIN engine' = {session'.listener} \ {NoToken},
           session'.listener # NoToken => engine'[session'.listener] = HostListener
    PROVE  SlotsInv'
<1>1. \A s \in Index : slots'[s] = Unclaimed /\ SlotTokens(s)' = {}
  BY DEF SlotTokens, Unclaimed
<1>2. ListenersInv'
  BY <1>1 DEF ListenersInv, SlotListeners, SessionListener, NoStrayListeners, Unclaimed
<1>3. OneSlotEach'
  BY <1>1 DEF OneSlotEach, Unclaimed
<1> QED
  BY <1>2, <1>3 DEF SlotsInv

(* Steps that change at most the state of a slot, or the lobby.             *)
LEMMA KeptSlots ==
    ASSUME SlotsInv, HostType', UNCHANGED <<engine, session>>,
           \A s \in Index : /\ slots'[s].peer = slots[s].peer
                            /\ slots'[s].peerToken = slots[s].peerToken
                            /\ slots'[s].channelToken = slots[s].channelToken
                            /\ slots'[s].channel = slots[s].channel
    PROVE  SlotsInv' /\ Served' = Served
<1>1. \A s \in Index : SlotTokens(s)' = SlotTokens(s)
  BY DEF SlotTokens
<1>2. ListenersInv'
  BY <1>1 DEF SlotsInv, ListenersInv, SlotListeners, SessionListener, NoStrayListeners
<1>3. OneSlotEach'
  BY DEF SlotsInv, OneSlotEach
<1>4. Served' = Served
  BY DEF Served, Serving, Holding
<1> QED
  BY <1>2, <1>3, <1>4 DEF SlotsInv

LEMMA StartSlots ==
    ASSUME SlotsInv, StartLocalSession
    PROVE  /\ SlotsInv'
           /\ Served = {} /\ Served' = {}
           /\ \/ UNCHANGED relayVars
              \/ StopRelay
              \/ StartRelay
<1>a. DOMAIN engine = {} /\ \A s \in Index : SlotTokens(s) = {}
  BY NobodyListens DEF StartLocalSession
<1>b. SessionGone /\ session.listener = NoToken
  BY DEF StartLocalSession, SessionGone, NoSession
<1>c. [s \in Index |-> Unclaimed] \in [Index -> Slot]
  BY EmptyTypes
<1>1. Served = {}
  BY <1>a DEF Served, Serving, Holding, SlotTokens
<1>d. slots' = [s \in Index |-> Unclaimed] => Served' = {}
  BY DEF Served, Serving, Holding, Unclaimed
<1>2. CASE \/ ListenerRefused \/ TargetUnavailable \/ LobbyRefused
           \/ DecoderRefused \/ RelayRefused
  <2>1. /\ slots' = [s \in Index |-> Unclaimed]
        /\ UNCHANGED <<engine, session>>
        /\ lobby' = lobby \/ lobby' = JoinedLobby
        /\ UNCHANGED relayVars \/ StopRelay
    BY <1>2 DEF ListenerRefused, TargetUnavailable, LobbyRefused, DecoderRefused,
                RelayRefused, CleanedUp
  <2>2. HostType'
    BY <1>c, <2>1 DEF SlotsInv, HostType, EngineType, JoinedLobby
  <2>3. SlotsInv'
    BY <1>a, <1>b, <2>1, <2>2, ResetSlots
  <2> QED
    BY <1>1, <1>d, <2>1, <2>3
<1>3. ASSUME NEW withRelay \in BOOLEAN, StartCompletes(withRelay)
      PROVE  SlotsInv' /\ Served' = {} /\ (UNCHANGED relayVars \/ StartRelay)
  <2> DEFINE token == First(FreeTokens)
  <2>1. token \in Token
    BY <1>3, FreeToken DEF StartCompletes
  <2>2. /\ engine' = Registered(token, HostListener, engine)
        /\ session' = [listener |-> token, active |-> TRUE]
        /\ slots' = [s \in Index |-> Unclaimed]
        /\ lobby' = JoinedLobby
        /\ UNCHANGED relayVars \/ StartRelay
    BY <1>3 DEF StartCompletes
  <2> HIDE DEF token
  <2>3. DOMAIN engine' = {token} /\ engine'[token] = HostListener /\ EngineType'
    <3>1. EngineType
      BY DEF SlotsInv, HostType
    <3>2. /\ DOMAIN engine' = DOMAIN engine \cup {token}
          /\ DOMAIN engine' \subseteq Token
          /\ \A t \in DOMAIN engine' :
               engine'[t] = IF t = token THEN HostListener ELSE engine[t]
          /\ \A t \in DOMAIN engine' : engine'[t] \in Listener
      BY <2>1, <2>2, <3>1, EmptyTypes, RegisteredType
    <3> QED
      BY <1>a, <3>2 DEF EngineType
  <2>4. HostType'
    BY <1>c, <2>1, <2>2, <2>3 DEF SlotsInv, HostType, JoinedLobby
  <2>5. SlotsInv'
    BY <2>1, <2>2, <2>3, <2>4, TokenTypes, ResetSlots
  <2> QED
    BY <1>d, <2>2, <2>5
<1> QED
  BY <1>1, <1>2, <1>3 DEF StartLocalSession

LEMMA CloseSlots ==
    ASSUME SlotsInv, CloseLocalSession
    PROVE  SlotsInv' /\ StopRelay
<1> DEFINE mine == {session.listener} \cup UNION {SlotTokens(s) : s \in Index}
<1>1. DOMAIN engine' = {} /\ EngineType'
  <2>1. DOMAIN engine \subseteq mine
    BY DEF SlotsInv, ListenersInv, NoStrayListeners
  <2>2. engine' = Removed(mine, engine)
    BY DEF CloseLocalSession
  <2> HIDE DEF mine
  <2>3. EngineType
    BY DEF SlotsInv, HostType
  <2>4. DOMAIN engine' = DOMAIN engine \ mine
    BY <2>2, <2>3, RemovedType
  <2> QED
    BY <2>1, <2>4 DEF EngineType
<1>2. session'.listener = NoToken /\ slots' = [s \in Index |-> Unclaimed]
  BY DEF CloseLocalSession, NoSession
<1>3. HostType'
  BY <1>1, EmptyTypes DEF CloseLocalSession, SlotsInv, HostType, NoSession
<1> QED
  BY <1>1, <1>2, <1>3, ResetSlots DEF CloseLocalSession

LEMMA ReapSlots ==
    ASSUME SlotsInv, NEW s \in Index, Reap(s)
    PROVE  /\ SlotsInv'
           /\ slots[s].peer \in Peer
           /\ Served \ {slots[s].peer} \subseteq Served'
           /\ Served' \subseteq Served
<1> USE DEF SlotsInv, HostType
<1>1. /\ engine' = Removed(SlotTokens(s), engine)
      /\ slots' = [slots EXCEPT ![s] = Unclaimed]
      /\ UNCHANGED <<session, lobby>>
      /\ slots[s].peer # None
  BY DEF Reap, Abandoned
<1>2. /\ slots'[s] = Unclaimed
      /\ \A t \in Index \ {s} : slots'[t] = slots[t]
      /\ slots' \in [Index -> Slot]
  BY <1>1, EmptyTypes
<1>3. slots[s].peer \in Peer
  BY <1>1 DEF Slot
<1>4. /\ DOMAIN engine' = DOMAIN engine \ SlotTokens(s)
      /\ EngineType'
      /\ \A t \in DOMAIN engine' : engine'[t] = engine[t]
  BY <1>1, RemovedType DEF EngineType
<1>5. SlotTokens(s)' = {} /\ \A t \in Index \ {s} : SlotTokens(t)' = SlotTokens(t)
  BY <1>2 DEF SlotTokens, Unclaimed
<1>6. \A t \in Index \ {s} : SlotTokens(t) \cap SlotTokens(s) = {}
  <2> SUFFICES ASSUME NEW t \in Index \ {s}, NEW k, k \in SlotTokens(t), k \in SlotTokens(s)
               PROVE  FALSE
    OBVIOUS
  <2> HIDE DEF SlotsInv, HostType
  <2>1. engine[k].slot = s /\ engine[k].slot = t
    BY TokenOwner
  <2> QED
    BY <2>1
<1>7. session.listener \notin SlotTokens(s)
  <2> SUFFICES ASSUME session.listener \in SlotTokens(s) PROVE FALSE
    OBVIOUS
  <2>1. engine[session.listener].slot = s /\ session.listener # NoToken
    <3> HIDE DEF SlotsInv, HostType
    <3> QED
      BY TokenOwner DEF SlotTokens
  <2>2. engine[session.listener].slot = 0
    BY <2>1 DEF ListenersInv, SessionListener, HostListener
  <2> QED
    BY <2>1, <2>2, TokenTypes
<1>8. \A t \in Index : SlotListeners(t)'
  <2>1. SlotListeners(s)'
    BY <1>2, <1>5 DEF SlotListeners, Unclaimed
  <2>2. ASSUME NEW t \in Index \ {s} PROVE SlotListeners(t)'
    <3>1. \A k \in SlotTokens(t) : k \in DOMAIN engine => k \in DOMAIN engine' /\ engine'[k] = engine[k]
      BY <1>4, <1>6
    <3>2. slots'[t] = slots[t] /\ SlotTokens(t)' = SlotTokens(t) /\ SlotListeners(t)
      BY <1>2, <1>5 DEF ListenersInv
    <3> QED
      BY <3>1, <3>2, Tokens2 DEF SlotListeners
  <2> QED
    BY <2>1, <2>2
<1>9. SessionListener'
  BY <1>1, <1>4, <1>5, <1>7 DEF ListenersInv, SessionListener
<1>10. NoStrayListeners'
  BY <1>1, <1>4, <1>5 DEF ListenersInv, NoStrayListeners
<1>11. OneSlotEach'
  BY <1>2 DEF OneSlotEach, Unclaimed
<1>12. HostType'
  BY <1>1, <1>2, <1>4
<1>13. Served \ {slots[s].peer} \subseteq Served'
  <2> SUFFICES ASSUME NEW p \in Peer, p # slots[s].peer, Serving(p) PROVE Serving(p)'
    BY DEF Served
  <2>1. PICK t \in Index : slots[t].peer = p /\ slots[t].peerToken # NoToken
    BY DEF Serving, Holding
  <2>2. slots'[t] = slots[t]
    BY <1>2, <2>1
  <2> QED
    BY <2>1, <2>2 DEF Serving, Holding
<1>14. Served' \subseteq Served
  <2> SUFFICES ASSUME NEW p \in Peer, Serving(p)' PROVE Serving(p)
    BY DEF Served
  <2>1. PICK t \in Index : slots'[t].peer = p /\ slots'[t].peerToken # NoToken
    BY DEF Serving, Holding
  <2>2. slots'[t] = slots[t]
    BY <1>2, <2>1 DEF Unclaimed
  <2> QED
    BY <2>1, <2>2 DEF Serving, Holding
<1> QED
  BY <1>3, <1>8, <1>9, <1>10, <1>11, <1>12, <1>13, <1>14 DEF ListenersInv

(* One slot gets a new listener, or keeps those it has.                     *)
LEMMA AddListener ==
    ASSUME SlotsInv, NEW s \in Index, slots' \in [Index -> Slot],
           \A t \in Index \ {s} : slots'[t] = slots[t],
           SlotListeners(s)',
           UNCHANGED session, UNCHANGED lobby, session.listener # NoToken,
           NEW old \in SUBSET SlotTokens(s), NEW new \in SUBSET Token,
           new \cap DOMAIN engine = {},
           SlotTokens(s)' = (SlotTokens(s) \ old) \cup new,
           DOMAIN engine' = (DOMAIN engine \ old) \cup new,
           \A t \in DOMAIN engine \ old : engine'[t] = engine[t],
           \A t \in new : engine'[t] \in Listener,
           \A t \in Index : slots'[t].peer # None /\ slots'[t].peer = slots'[s].peer => t = s
    PROVE  SlotsInv'
<1>1. \A t \in Index \ {s} : SlotTokens(t)' = SlotTokens(t)
  BY DEF SlotTokens
<1>2. EngineType'
  BY DEF SlotsInv, HostType, EngineType
<1>3. HostType'
  BY <1>2 DEF SlotsInv, HostType
<1>4. ASSUME NEW t \in Index \ {s} PROVE SlotListeners(t)'
  <2>1. \A k \in SlotTokens(t) : k \in DOMAIN engine \ old
    <3> SUFFICES ASSUME NEW k \in SlotTokens(t), k \in old PROVE FALSE
      BY TokenOwner
    <3> QED
      BY TokenOwner
  <2>2. \A k \in SlotTokens(t) : k \in DOMAIN engine' /\ engine'[k] = engine[k]
    BY <2>1
  <2>3. slots'[t] = slots[t] /\ SlotListeners(t)
    BY DEF SlotsInv, ListenersInv
  <2>4. SlotTokens(t)' = SlotTokens(t)
    BY <1>1
  <2> QED
    BY <2>2, <2>3, <2>4 DEF SlotListeners, SlotTokens
<1>5. SessionListener'
  <2>1. session.listener \in DOMAIN engine /\ engine[session.listener] = HostListener
    BY DEF SlotsInv, ListenersInv, SessionListener
  <2>2. session.listener \notin old
    <3> SUFFICES ASSUME session.listener \in old PROVE FALSE
      OBVIOUS
    <3>1. engine[session.listener].slot = s
      BY TokenOwner
    <3> QED
      BY <2>1, <3>1, TokenTypes DEF HostListener
  <2> QED
    BY <2>1, <2>2 DEF SessionListener
<1>6. NoStrayListeners'
  <2> SUFFICES ASSUME NEW t \in DOMAIN engine'
               PROVE  t = session.listener \/ \E u \in Index : t \in SlotTokens(u)'
    BY DEF NoStrayListeners
  <2>1. CASE t \in new
    BY <2>1
  <2>2. CASE t \in DOMAIN engine \ old
    <3>1. t = session.listener \/ \E u \in Index : t \in SlotTokens(u)
      BY <2>2 DEF SlotsInv, ListenersInv, NoStrayListeners
    <3> QED
      BY <1>1, <2>2, <3>1
  <2> QED
    BY <2>1, <2>2
<1>7. OneSlotEach'
  BY DEF SlotsInv, OneSlotEach
<1>8. \A t \in Index : SlotListeners(t)'
  BY <1>4
<1> QED
  BY <1>3, <1>5, <1>6, <1>7, <1>8 DEF SlotsInv, ListenersInv

(* A connect request of p, which gets or keeps slot s: c are the slots then. *)
LEMMA ClaimedSlots ==
    ASSUME SlotsInv, NEW p \in Peer, NEW s \in Index, NEW c \in [Index -> Slot],
           \A t \in Index \ {s} : c[t] = slots[t],
           c[s].peer = p,
           \/ /\ slots[s].peer = p
              /\ c[s].peerToken = slots[s].peerToken
              /\ c[s].channelToken = slots[s].channelToken
              /\ c[s].channel = slots[s].channel
           \/ /\ slots[s].peer = None /\ Holding(p) = {}
              /\ c[s].peerToken = NoToken /\ c[s].channelToken = NoToken,
           RegisterPeerListener(p, s, c), session.listener # NoToken,
           session' = session, lobby' = lobby
    PROVE  /\ SlotsInv'
           /\ \/ Served' = Served /\ UNCHANGED commands
              \/ Served' = Served \cup {p} /\ Queue("adopt", p)
<1> DEFINE tok == First(FreeTokens)
<1>3. SlotListeners(s) /\ slots \in [Index -> Slot] /\ p # None /\ EngineType
  BY NoneIsNobody DEF SlotsInv, ListenersInv, HostType
<1>4. /\ c[s].peerToken = slots[s].peerToken
      /\ c[s].channelToken = slots[s].channelToken
      /\ c[s].channelToken # NoToken => c[s].channel = slots[s].channel
      /\ c[s].peerToken # NoToken => slots[s].peer = p
  BY <1>3 DEF SlotListeners, SlotTokens
<1>5. \A t \in Index : slots[t].peer = p => t = s
  BY <1>3 DEF SlotsInv, OneSlotEach, Holding
<1>6. \A q \in Peer \ {p} :
        Serving(q) <=> \E t \in Index \ {s} : c[t].peer = q /\ c[t].peerToken # NoToken
  <2> SUFFICES ASSUME NEW q \in Peer \ {p}
               PROVE  Serving(q) <=> \E t \in Index \ {s} : c[t].peer = q /\ c[t].peerToken # NoToken
    OBVIOUS
  <2>1. slots[s].peer # q
    BY NoneIsNobody
  <2> QED
    BY <2>1 DEF Serving, Holding
<1>7. CASE slots' = c /\ UNCHANGED <<engine, commands>>
  <2>1. SlotTokens(s)' = SlotTokens(s)
    BY <1>4, <1>7 DEF SlotTokens
  <2>2. SlotListeners(s)'
    BY <1>3, <1>4, <1>7 DEF SlotListeners, SlotTokens
  <2>3. \A t \in Index : slots'[t].peer # None /\ slots'[t].peer = slots'[s].peer => t = s
    BY <1>5, <1>7
  <2>4. SlotsInv'
    <3>1. /\ {} \in SUBSET SlotTokens(s) /\ {} \in SUBSET Token /\ {} \cap DOMAIN engine = {}
          /\ SlotTokens(s)' = (SlotTokens(s) \ {}) \cup {}
          /\ DOMAIN engine' = (DOMAIN engine \ {}) \cup {}
          /\ \A t \in DOMAIN engine \ {} : engine'[t] = engine[t]
          /\ \A t \in {} : engine'[t] \in Listener
      BY <1>7, <2>1
    <3>2. slots' \in [Index -> Slot] /\ \A t \in Index \ {s} : slots'[t] = slots[t]
      BY <1>7
    <3> QED
      BY <2>2, <2>3, <3>1, <3>2, AddListener
  <2>5. Served' = Served
    <3>1. \A q \in Peer \ {p} : Serving(q)' <=> Serving(q)
      <4> SUFFICES ASSUME NEW q \in Peer \ {p} PROVE Serving(q)' <=> Serving(q)
        OBVIOUS
      <4>1. c[s].peer # q
        OBVIOUS
      <4>2. Serving(q)' <=> \E t \in Index \ {s} : c[t].peer = q /\ c[t].peerToken # NoToken
        BY <1>7, <4>1 DEF Serving, Holding
      <4> QED
        BY <1>6, <4>2
    <3>2. Serving(p)' <=> Serving(p)
      BY <1>3, <1>4, <1>5, <1>7 DEF Serving, Holding
    <3> QED
      BY <3>1, <3>2 DEF Served
  <2> QED
    BY <1>7, <2>4, <2>5
<1>8. CASE /\ c[s].peerToken = NoToken
           /\ FreeTokens # {}
           /\ slots' = [c EXCEPT ![s].peerToken = tok]
           /\ engine' = Registered(tok, [kind |-> "peer", key |-> p, slot |-> s], engine)
           /\ Queue("adopt", p)
  <2>1. tok \in Token /\ tok \notin DOMAIN engine /\ tok # NoToken
    BY <1>8, FreeToken, TokenTypes
  <2> HIDE DEF tok
  <2> DEFINE listener == [kind |-> "peer", key |-> p, slot |-> s]
  <2>2. listener \in Listener /\ engine' = Registered(tok, listener, engine)
    BY <1>8 DEF Listener
  <2> HIDE DEF listener
  <2>3. /\ DOMAIN engine' = DOMAIN engine \cup {tok}
        /\ \A t \in DOMAIN engine' : engine'[t] = IF t = tok THEN listener ELSE engine[t]
    <3>1. EngineType
      BY <1>3
    <3> QED
      BY <2>1, <2>2, <3>1, RegisteredType DEF Registered
  <2>4. /\ slots' \in [Index -> Slot]
        /\ \A t \in Index \ {s} : slots'[t] = slots[t]
        /\ slots'[s].peer = p /\ slots'[s].peerToken = tok
        /\ slots'[s].channelToken = slots[s].channelToken
        /\ slots'[s].channelToken # NoToken => slots'[s].channel = slots[s].channel
    BY <1>4, <1>8, <2>1 DEF Slot
  <2>5. SlotTokens(s)' = SlotTokens(s) \cup {tok}
    BY <1>4, <1>8, <2>1, <2>4 DEF SlotTokens
  <2>6. SlotListeners(s)'
    BY <1>3, <2>1, <2>3, <2>4 DEF SlotListeners, listener
  <2>7. \A t \in Index : slots'[t].peer # None /\ slots'[t].peer = slots'[s].peer => t = s
    BY <1>5, <2>4
  <2>8. SlotsInv'
    <3>1. /\ {} \in SUBSET SlotTokens(s) /\ {tok} \in SUBSET Token /\ {tok} \cap DOMAIN engine = {}
          /\ SlotTokens(s)' = (SlotTokens(s) \ {}) \cup {tok}
          /\ DOMAIN engine' = (DOMAIN engine \ {}) \cup {tok}
          /\ \A t \in DOMAIN engine \ {} : engine'[t] = engine[t]
          /\ \A t \in {tok} : engine'[t] \in Listener
      BY <2>1, <2>2, <2>3, <2>5
    <3> QED
      BY <2>4, <2>6, <2>7, <3>1, AddListener
  <2>9. Served' = Served \cup {p}
    <3>1. \A q \in Peer \ {p} : Serving(q)' <=> Serving(q)
      <4> SUFFICES ASSUME NEW q \in Peer \ {p} PROVE Serving(q)' <=> Serving(q)
        OBVIOUS
      <4>1. slots'[s].peer # q
        BY <2>4
      <4>2. Serving(q)' <=> \E t \in Index \ {s} : slots[t].peer = q /\ slots[t].peerToken # NoToken
        BY <2>4, <4>1 DEF Serving, Holding
      <4>3. Serving(q) <=> \E t \in Index \ {s} : slots[t].peer = q /\ slots[t].peerToken # NoToken
        BY <1>6
      <4> QED
        BY <4>2, <4>3
    <3>2. Serving(p)'
      BY <2>1, <2>4 DEF Serving, Holding
    <3> QED
      BY <3>1, <3>2 DEF Served
  <2> QED
    BY <1>8, <2>8, <2>9
<1> QED
  BY <1>7, <1>8 DEF RegisterPeerListener

LEMMA ConnectSlots ==
    ASSUME SlotsInv, NEW p \in Peer, ConnectRequest(p)
    PROVE  /\ SlotsInv'
           /\ \/ Served' = Served /\ UNCHANGED commands
              \/ Served' = Served \cup {p} /\ Queue("adopt", p)
<1>1. HostType /\ Holding(p) \cup Holding(None) # {}
  BY DEF ConnectRequest, SlotsInv
<1>2. /\ RegisterPeerListener(p, SlotFor(p), Claimed(p)) /\ session.listener # NoToken
      /\ session' = session /\ lobby' = lobby
  BY DEF ConnectRequest
<1>3. /\ SlotFor(p) \in Index /\ Claimed(p) \in [Index -> Slot]
      /\ \A t \in Index \ {SlotFor(p)} : Claimed(p)[t] = slots[t]
      /\ Claimed(p)[SlotFor(p)].peer = p
      /\ \/ /\ slots[SlotFor(p)].peer = p
            /\ Claimed(p)[SlotFor(p)].peerToken = slots[SlotFor(p)].peerToken
            /\ Claimed(p)[SlotFor(p)].channelToken = slots[SlotFor(p)].channelToken
            /\ Claimed(p)[SlotFor(p)].channel = slots[SlotFor(p)].channel
         \/ /\ slots[SlotFor(p)].peer = None /\ Holding(p) = {}
            /\ Claimed(p)[SlotFor(p)].peerToken = NoToken
            /\ Claimed(p)[SlotFor(p)].channelToken = NoToken
  BY <1>1, SlotChoice
<1> QED
  BY <1>2, <1>3, ClaimedSlots

LEMMA ChannelSlots ==
    ASSUME SlotsInv, NEW s \in Index, NEW remote \in Channel, NEW accepted \in Channel,
           CreateChannel(s, remote, accepted)
    PROVE  SlotsInv' /\ Served' = Served /\ UNCHANGED relayVars
<1> DEFINE tok == First(FreeTokens)
           old == {slots[s].channelToken} \ {NoToken}
           listener == [kind |-> "channel", key |-> accepted, slot |-> s]
<1>1. /\ slots[s].peerToken # NoToken
      /\ engine' = Removed({slots[s].channelToken}, Registered(tok, listener, engine))
      /\ slots' = [slots EXCEPT ![s].channel = accepted, ![s].remote = remote,
                                ![s].channelToken = tok]
      /\ session' = session /\ lobby' = lobby /\ UNCHANGED relayVars
  BY DEF CreateChannel
<1>2. tok \in Token /\ tok \notin DOMAIN engine /\ tok # NoToken
  BY FreeToken, TokenTypes DEF CreateChannel
<1>3. listener \in Listener
  BY DEF Listener
<1>4. /\ SlotListeners(s) /\ slots \in [Index -> Slot] /\ EngineType
      /\ DOMAIN engine \subseteq Token
      /\ session.listener # NoToken
  <2>1. SlotTokens(s) # {}
    BY <1>1 DEF SlotTokens
  <2> QED
    BY <2>1 DEF SlotsInv, ListenersInv, SessionListener, HostType, EngineType
<1> HIDE DEF tok
<1>5. /\ DOMAIN engine' = (DOMAIN engine \cup {tok}) \ {slots[s].channelToken}
      /\ \A t \in DOMAIN engine' : engine'[t] = IF t = tok THEN listener ELSE engine[t]
  BY <1>1 DEF Removed, Registered
<1> HIDE DEF listener
<1>6. /\ slots' \in [Index -> Slot]
      /\ \A t \in Index \ {s} : slots'[t] = slots[t]
      /\ slots'[s].peer = slots[s].peer /\ slots'[s].peerToken = slots[s].peerToken
      /\ slots'[s].channelToken = tok /\ slots'[s].channel = accepted
  BY ZenonT(60), <1>1, <1>2, <1>4 DEF Slot
<1>7. slots[s].channelToken # tok /\ slots[s].channelToken # slots[s].peerToken
  BY <1>1, <1>2, <1>4 DEF SlotListeners
<1>8. /\ SlotTokens(s)' = (SlotTokens(s) \ old) \cup {tok}
      /\ DOMAIN engine' = (DOMAIN engine \ old) \cup {tok}
      /\ old \in SUBSET SlotTokens(s) /\ {tok} \in SUBSET Token
      /\ {tok} \cap DOMAIN engine = {}
  BY <1>2, <1>4, <1>5, <1>6, <1>7, TokenTypes DEF SlotTokens
<1>9. /\ \A t \in DOMAIN engine \ old : engine'[t] = engine[t]
      /\ \A t \in {tok} : engine'[t] \in Listener
  BY <1>2, <1>3, <1>5, <1>8
<1>10. SlotListeners(s)'
  <2>1. slots'[s].peer # None
    BY <1>1, <1>4, <1>6 DEF SlotListeners, SlotTokens
  <2>2. /\ slots[s].peerToken \in DOMAIN engine'
        /\ engine'[slots[s].peerToken] = [kind |-> "peer", key |-> slots[s].peer, slot |-> s]
    BY <1>1, <1>2, <1>4, <1>5, <1>7 DEF SlotListeners
  <2>3. tok \in DOMAIN engine' /\ engine'[tok] = [kind |-> "channel", key |-> accepted, slot |-> s]
    BY <1>5, <1>7 DEF listener
  <2> QED
    BY <1>6, <2>1, <2>2, <2>3 DEF SlotListeners
<1>11. \A t \in Index : slots'[t].peer # None /\ slots'[t].peer = slots'[s].peer => t = s
  BY <1>6 DEF SlotsInv, OneSlotEach
<1>12. SlotsInv'
  <2> HIDE DEF old
  <2>1. session' = session /\ lobby' = lobby /\ session.listener # NoToken
    BY <1>1, <1>4
  <2> QED
    BY ZenonT(60), <1>6, <1>8, <1>9, <1>10, <1>11, <2>1, AddListener
<1>13. Served' = Served
  BY <1>6 DEF Served, Serving, Holding
<1> QED
  BY <1>1, <1>12, <1>13

-----------------------------------------------------------------------------
(* What a step of the game thread means to the relay: nothing, its end, its *)
(* start, or one more command, with the change to the peers that are served. *)

NothingForTheRelay ==
    Served' = Served /\ UNCHANGED <<running, worker, table, commands, batch>>

CommandSent ==
    /\ UNCHANGED <<running, worker, table, batch>>
    /\ \E p \in Peer :
         \/ Queue("adopt", p) /\ Served \cup {p} \subseteq Served'
         \/ Queue("release", p) /\ Served \ {p} \subseteq Served'

SeenByRelay ==
    NothingForTheRelay \/ StopRelay \/ StartRelay \/ CommandSent

LEMMA SessionStep ==
    ASSUME SlotsInv, RelayType, SessionNext
    PROVE  SlotsInv' /\ RelayType' /\ SeenByRelay
<1> USE DEF SeenByRelay
<1>a. StartRelay => RelayType'
  BY EmptyTypes, NothingQueued DEF StartRelay, RelayType
<1>b. UNCHANGED relayVars => RelayType' /\ UNCHANGED <<running, worker, table, commands, batch>>
  BY DEF relayVars, RelayType
<1>1. CASE OpenLobby \/ LeaveLobby
  <2>1. /\ UNCHANGED relayVars
        /\ UNCHANGED <<engine, session>> /\ slots' = slots
        /\ lobby' \in [state : {"none", "fresh", "joined"}, members : SUBSET Peer]
    BY <1>1 DEF OpenLobby, LeaveLobby
  <2>2. HostType'
    BY <2>1 DEF SlotsInv, HostType, EngineType
  <2>3. SlotsInv' /\ Served' = Served
    BY <2>1, <2>2, KeptSlots
  <2> QED
    BY <1>b, <2>1, <2>3 DEF NothingForTheRelay
<1>2. CASE StartLocalSession
  BY <1>2, <1>a, <1>b, StartSlots, StopType DEF NothingForTheRelay
<1>3. CASE CloseLocalSession
  BY <1>3, CloseSlots, StopType
<1> QED
  BY <1>1, <1>2, <1>3 DEF SessionNext

LEMMA PeerStep ==
    ASSUME SlotsInv, RelayType, PeerNext
    PROVE  SlotsInv' /\ RelayType' /\ SeenByRelay
<1> USE DEF SeenByRelay
<1>b. UNCHANGED relayVars => RelayType' /\ UNCHANGED <<running, worker, table, commands, batch>>
  BY DEF relayVars, RelayType
<1>1. ASSUME NEW p \in Peer, ConnectRequest(p)
      PROVE  SlotsInv' /\ RelayType' /\ SeenByRelay
  <2>1. /\ UNCHANGED <<running, worker, table, batch>>
        /\ arriving' \subseteq arriving
    BY <1>1 DEF ConnectRequest
  <2>2. /\ SlotsInv'
        /\ \/ Served' = Served /\ UNCHANGED commands
           \/ Served' = Served \cup {p} /\ Queue("adopt", p)
    BY <1>1, ConnectSlots
  <2>3. commands' \in Seq(Command)
    BY <2>2, QueueType DEF RelayType
  <2> QED
    BY <2>1, <2>2, <2>3 DEF RelayType, NothingForTheRelay, CommandSent
<1>2. ASSUME NEW p \in Peer, ConnectRefused(p)
      PROVE  SlotsInv' /\ RelayType' /\ SeenByRelay
  <2>1. /\ UNCHANGED <<running, worker, table, commands, batch>>
        /\ UNCHANGED <<engine, session>> /\ slots' = slots /\ lobby' = lobby
        /\ arriving' \subseteq arriving
    BY <1>2 DEF ConnectRefused, hostVars
  <2>2. HostType'
    BY <2>1 DEF SlotsInv, HostType, EngineType
  <2>3. SlotsInv' /\ Served' = Served
    BY <2>1, <2>2, KeptSlots
  <2> QED
    BY <2>1, <2>3 DEF NothingForTheRelay, RelayType
<1>3. ASSUME NEW p \in Peer, MemberLeaves(p)
      PROVE  SlotsInv' /\ RelayType' /\ SeenByRelay
  <2>1. /\ UNCHANGED relayVars
        /\ UNCHANGED <<engine, session>> /\ slots' = slots
        /\ lobby' = [lobby EXCEPT !.members = @ \ {p}]
    BY <1>3 DEF MemberLeaves
  <2>2. HostType'
    BY <2>1 DEF SlotsInv, HostType, EngineType
  <2>3. SlotsInv' /\ Served' = Served
    BY <2>1, <2>2, KeptSlots
  <2> QED
    BY <1>b, <2>1, <2>3 DEF NothingForTheRelay
<1>4. ASSUME NEW p \in Peer,
             AdoptPeerTransportState(p) \/ ReleasePeerTransportState(p)
      PROVE  SlotsInv' /\ RelayType' /\ SeenByRelay
  <2>1. PICK s \in Index, state \in {"adopted", "released"} :
          slots' = [slots EXCEPT ![s].state = state]
    BY <1>4 DEF AdoptPeerTransportState, ReleasePeerTransportState, Holding
  <2>2. UNCHANGED relayVars /\ UNCHANGED <<engine, session>> /\ lobby' = lobby
    BY <1>4 DEF AdoptPeerTransportState, ReleasePeerTransportState
  <2>3. slots \in [Index -> Slot]
    BY DEF SlotsInv, HostType
  <2>4. /\ slots' \in [Index -> Slot]
        /\ \A t \in Index : /\ slots'[t].peer = slots[t].peer
                            /\ slots'[t].peerToken = slots[t].peerToken
                            /\ slots'[t].channelToken = slots[t].channelToken
                            /\ slots'[t].channel = slots[t].channel
    BY <2>1, <2>3 DEF Slot
  <2>5. HostType'
    BY <2>2, <2>4 DEF SlotsInv, HostType, EngineType
  <2>6. SlotsInv' /\ Served' = Served
    BY <2>2, <2>4, <2>5, KeptSlots
  <2> QED
    BY <1>b, <2>2, <2>6 DEF NothingForTheRelay
<1>5. ASSUME NEW s \in Index, JoinRequest(s)
      PROVE  SlotsInv' /\ RelayType' /\ SeenByRelay
  <2>1. /\ UNCHANGED relayVars
        /\ UNCHANGED <<engine, session>> /\ slots' = slots
        /\ \/ lobby' = lobby
           \/ lobby' = [lobby EXCEPT !.members = @ \cup {slots[s].peer}]
        /\ slots[s].channelToken # NoToken
    BY <1>5 DEF JoinRequest
  <2>2. slots[s].peer \in Peer
    <3>1. SlotTokens(s) # {}
      BY <2>1 DEF SlotTokens
    <3> QED
      BY ZenonT(60), <3>1 DEF SlotsInv, ListenersInv, SlotListeners, HostType, Slot
  <2>3. HostType'
    BY <2>1, <2>2 DEF SlotsInv, HostType, EngineType
  <2>4. SlotsInv' /\ Served' = Served
    BY <2>1, <2>3, KeptSlots
  <2> QED
    BY <1>b, <2>1, <2>4 DEF NothingForTheRelay
<1>6. ASSUME NEW s \in Index, Reap(s)
      PROVE  SlotsInv' /\ RelayType' /\ SeenByRelay
  <2>1. UNCHANGED <<running, worker, table, batch, arriving>> /\ Queue("release", slots[s].peer)
    BY <1>6 DEF Reap
  <2>2. /\ SlotsInv' /\ slots[s].peer \in Peer
        /\ Served \ {slots[s].peer} \subseteq Served'
    BY <1>6, ReapSlots
  <2>3. commands' \in Seq(Command)
    BY <2>1, <2>2, QueueType
  <2>4. RelayType'
    BY <2>1, <2>3 DEF RelayType
  <2>5. CommandSent
    BY <2>1, <2>2 DEF CommandSent
  <2> QED
    BY <2>2, <2>4, <2>5
<1>7. ASSUME NEW s \in Index, NEW remote \in Channel, NEW accepted \in Channel,
             CreateChannel(s, remote, accepted)
      PROVE  SlotsInv' /\ RelayType' /\ SeenByRelay
  BY <1>7, <1>b, ChannelSlots DEF NothingForTheRelay
<1> QED
  BY <1>1, <1>2, <1>3, <1>4, <1>5, <1>6, <1>7 DEF PeerNext

-----------------------------------------------------------------------------
(* The relay's table and its commands.                                      *)

RelayInv == RelayType /\ OneEntryEach /\ RelayState /\ AdoptionsInv

LEMMA ServedGrows ==
    ASSUME NEW q, NEW few, NEW many, few \subseteq many, AdoptionsEnd(q, few)
    PROVE  AdoptionsEnd(q, many)
  BY DEF AdoptionsEnd

LEMMA WaitingType ==
    RelayType => Waiting \in Seq(Command)
  BY DEF RelayType, Waiting

LEMMA GameThreadStep ==
    ASSUME RelayInv, RelayType', SeenByRelay
    PROVE  RelayInv'
<1> USE DEF RelayInv
<1>1. CASE NothingForTheRelay
  <2>1. Waiting' = Waiting
    BY <1>1 DEF NothingForTheRelay, Waiting
  <2>2. OneEntryEach' /\ RelayState'
    BY <1>1 DEF NothingForTheRelay, OneEntryEach, RelayState, Occupied
  <2>3. AdoptionsInv'
    BY <1>1, <2>1 DEF NothingForTheRelay, AdoptionsInv, Occupied
  <2> QED
    BY <2>2, <2>3
<1>2. CASE StopRelay
  <2>1. OneEntryEach' /\ RelayState'
    BY <1>2 DEF StopRelay, OneEntryEach, RelayState, Occupied, Empty
  <2>2. AdoptionsInv'
    BY <1>2 DEF StopRelay, AdoptionsInv
  <2> QED
    BY <2>1, <2>2
<1>3. CASE StartRelay
  <2>1. OneEntryEach' /\ RelayState'
    BY <1>3 DEF StartRelay, OneEntryEach, RelayState, Occupied, Empty
  <2>2. Waiting' = <<>>
    BY <1>3 DEF StartRelay, Waiting
  <2>3. AdoptionsEnd(Waiting', Served')
    BY <2>2 DEF AdoptionsEnd
  <2>4. \A e \in Index : table'[e].peer = None
    BY <1>3 DEF StartRelay, Empty
  <2>5. AdoptionsInv'
    BY <2>3, <2>4 DEF AdoptionsInv, Occupied
  <2> QED
    BY <2>1, <2>5
<1>4. CASE CommandSent
  <2>1. OneEntryEach' /\ RelayState'
    BY <1>4 DEF CommandSent, OneEntryEach, RelayState, Occupied
  <2>2. CASE ~running
    BY <1>4, <2>1, <2>2 DEF CommandSent, AdoptionsInv
  <2>3. CASE running
    <3>a. AdoptionsEnd(Waiting, Served) /\ Waiting \in Seq(Command)
      BY <2>3, WaitingType DEF AdoptionsInv
    <3>b. \A e \in Index : Occupied(e) /\ table[e].adopted =>
             /\ table[e].peer \in Served \/ Released(Waiting, table[e].peer)
             /\ table[e].peer \in Peer
      BY <2>3 DEF AdoptionsInv, Occupied, RelayType, Entry
    <3>c. table' = table
      BY <1>4 DEF CommandSent
    <3>1. ASSUME NEW p \in Peer, NEW type \in {"adopt", "release"}, Queue(type, p)
          PROVE  \E cmd \in Command :
                   cmd.type = type /\ cmd.peer = p /\ Waiting' = Append(Waiting, cmd)
      <4> DEFINE cmd == [type |-> type, peer |-> p]
      <4>1. cmd \in Command /\ cmd.type = type /\ cmd.peer = p
        BY DEF Command
      <4>2. commands' = Append(commands, cmd) /\ batch' = batch
        BY <1>4, <2>3, <3>1 DEF Queue, CommandSent
      <4> HIDE DEF cmd
      <4>3. batch \o Append(commands, cmd) = Append(batch \o commands, cmd)
        BY <4>1 DEF RelayType
      <4> QED
        BY <4>1, <4>2, <4>3 DEF Waiting
    <3>2. ASSUME NEW p \in Peer, Queue("adopt", p), Served \cup {p} \subseteq Served'
          PROVE  AdoptionsInv'
      <4>1. PICK cmd \in Command :
              cmd.type = "adopt" /\ cmd.peer = p /\ Waiting' = Append(Waiting, cmd)
        BY <3>1, <3>2
      <4>2. /\ \A r \in Peer : Released(Waiting, r) => Released(Waiting', r)
            /\ AdoptionsEnd(Waiting', Served \cup {p})
        BY <3>a, <4>1, QueueGrows
      <4>3. AdoptionsEnd(Waiting', Served')
        BY <3>2, <4>2, ServedGrows
      <4> QED
        BY <3>2, <3>b, <3>c, <4>2, <4>3 DEF AdoptionsInv, Occupied
    <3>3. ASSUME NEW p \in Peer, Queue("release", p), Served \ {p} \subseteq Served'
          PROVE  AdoptionsInv'
      <4>1. PICK cmd \in Command :
              cmd.type = "release" /\ cmd.peer = p /\ Waiting' = Append(Waiting, cmd)
        BY <3>1, <3>3
      <4>2. /\ \A r \in Peer : Released(Waiting, r) => Released(Waiting', r)
            /\ Released(Waiting', p)
            /\ AdoptionsEnd(Waiting', Served \ {p})
        BY <3>a, <4>1, QueueGrows
      <4>3. AdoptionsEnd(Waiting', Served')
        BY <3>3, <4>2, ServedGrows
      <4> QED
        BY <3>3, <3>b, <3>c, <4>2, <4>3 DEF AdoptionsInv, Occupied
    <3> QED
      BY <1>4, <2>1, <3>2, <3>3 DEF CommandSent
  <2> QED
    BY <2>2, <2>3
<1> QED
  BY <1>1, <1>2, <1>3, <1>4 DEF SeenByRelay

(* A step of the relay thread that leaves its commands alone, and whose      *)
(* entries are entries it had before, for the same peer and address.        *)
LEMMA TableShrinks ==
    ASSUME RelayInv, running,
           \A e \in Index : table'[e].peer # None =>
             /\ table'[e].peer = table[e].peer
             /\ table'[e].ext = table[e].ext
             /\ table'[e].adopted = table[e].adopted,
           Waiting' = Waiting, Served' = Served
    PROVE  OneEntryEach' /\ AdoptionsInv'
  BY DEF RelayInv, OneEntryEach, AdoptionsInv, Occupied

LEMMA HeadOfCommands ==
    ASSUME NEW q \in Seq(Command), q # <<>>
    PROVE  Head(q) \in Command
  OBVIOUS

LEMMA AppliedCommand ==
    ASSUME RelayInv, ApplyCommand, Served' = Served
    PROVE  OneEntryEach' /\ RelayState' /\ AdoptionsInv'
<1> USE DEF RelayInv
<1> DEFINE first == Head(batch)
<1>1. /\ running /\ worker = "commands" /\ batch # <<>>
      /\ batch \in Seq(Command) /\ commands \in Seq(Command)
      /\ batch' = Tail(batch) /\ UNCHANGED <<running, worker, commands>>
  BY DEF ApplyCommand, RelayState, RelayType
<1>2. \A e \in Index :
        table'[e] = IF table[e].peer # first.peer THEN table[e]
                    ELSE IF first.type = "adopt" THEN [table[e] EXCEPT !.adopted = TRUE]
                    ELSE Empty
  BY DEF ApplyCommand
<1>3. first \in Command /\ first.type \in {"adopt", "release"} /\ first.peer \in Peer
  <2>1. first \in Command
    BY <1>1, HeadOfCommands
  <2> HIDE DEF first
  <2> QED
    BY <2>1 DEF Command
<1>4. Waiting # <<>> /\ Head(Waiting) = first /\ Waiting' = Tail(Waiting)
  BY <1>1 DEF Waiting
<1>5. first = [type |-> first.type, peer |-> first.peer]
  BY <1>3 DEF Command
<1>6. table \in [Index -> Entry]
  BY DEF RelayType
<1> HIDE DEF first
<1>7. \A e \in Index : table'[e].peer # None =>
        /\ table'[e].peer = table[e].peer /\ table'[e].ext = table[e].ext
        /\ table'[e].adopted =>
             \/ table[e].adopted /\ table[e].peer # first.peer
             \/ first.type = "adopt" /\ table[e].peer = first.peer
  <2> SUFFICES ASSUME NEW e \in Index, table'[e].peer # None
               PROVE  /\ table'[e].peer = table[e].peer /\ table'[e].ext = table[e].ext
                      /\ table'[e].adopted =>
                           \/ table[e].adopted /\ table[e].peer # first.peer
                           \/ first.type = "adopt" /\ table[e].peer = first.peer
    OBVIOUS
  <2>1. table[e] \in Entry
    BY <1>6
  <2>2. CASE table[e].peer # first.peer
    BY <1>2, <2>2
  <2>3. CASE table[e].peer = first.peer
    <3>1. first.type = "adopt" /\ table'[e] = [table[e] EXCEPT !.adopted = TRUE]
      BY <1>2, <1>3, <2>3 DEF Empty
    <3> QED
      BY <2>1, <2>3, <3>1 DEF Entry
  <2> QED
    BY <2>2, <2>3
<1>8. OneEntryEach'
  BY <1>7 DEF OneEntryEach, Occupied
<1>9. RelayState'
  BY <1>1 DEF RelayState
<1>10. AdoptionsInv'
  <2>1. Waiting \in Seq(Command) /\ AdoptionsEnd(Waiting, Served)
    BY <1>1, WaitingType DEF AdoptionsInv
  <2>2. /\ AdoptionsEnd(Waiting', Served)
        /\ \A p \in Peer : Released(Waiting, p) =>
             Released(Waiting', p) \/ first = [type |-> "release", peer |-> p]
        /\ first.type = "adopt" => first.peer \in Served \/ Released(Waiting', first.peer)
    BY <1>4, <2>1, QueueShrinks
  <2>3. ASSUME NEW e \in Index, table'[e].peer # None, table'[e].adopted
        PROVE  table'[e].peer \in Served' \/ Released(Waiting', table'[e].peer)
    <3>1. CASE table[e].adopted /\ table[e].peer # first.peer
      <4>1. table[e].peer \in Peer /\ table'[e].peer = table[e].peer
        BY <1>6, <1>7, <2>3 DEF Entry
      <4>2. table[e].peer \in Served \/ Released(Waiting, table[e].peer)
        BY <1>1, <3>1, <4>1, NoneIsNobody DEF AdoptionsInv, Occupied
      <4> QED
        BY <2>2, <3>1, <4>1, <4>2
    <3>2. CASE first.type = "adopt" /\ table[e].peer = first.peer
      BY <1>7, <2>2, <2>3, <3>2
    <3> QED
      BY <1>7, <2>3, <3>1, <3>2
  <2> QED
    BY <2>2, <2>3 DEF AdoptionsInv, Occupied
<1> QED
  BY <1>8, <1>9, <1>10

LEMMA ReceivedDatagram ==
    ASSUME RelayInv, Served' = Served, NEW x \in Endpoint, NEW r \in Route,
           FromKnown(x, r) \/ Rebind(x, r) \/ NewPeer(x, r)
    PROVE  OneEntryEach' /\ RelayState' /\ AdoptionsInv'
<1> USE DEF RelayInv
<1>1. /\ worker = "public" /\ running
      /\ UNCHANGED <<running, worker, commands, batch>>
  BY DEF FromKnown, Rebind, NewPeer, RelayState
<1>2. RelayState' /\ Waiting' = Waiting
  BY <1>1 DEF RelayState, Waiting
<1>3. table \in [Index -> Entry]
  BY DEF RelayType
<1>4. CASE FromKnown(x, r)
  <2>1. PICK e \in Index : table' = [table EXCEPT ![e].conn = NewConn(e, r)]
    BY <1>4 DEF FromKnown, Known
  <2>2. \A f \in Index : /\ table'[f].peer = table[f].peer /\ table'[f].ext = table[f].ext
                         /\ table'[f].adopted = table[f].adopted
    BY <1>3, <2>1 DEF Entry
  <2> QED
    BY <1>1, <1>2, <2>2, TableShrinks
<1>5. CASE Rebind(x, r)
  <2>1. First(Routed(r)) \in Routed(r) /\ Routed(r) \subseteq Index
    BY <1>5, FirstIndex DEF Rebind, Routed
  <2>2. PICK e \in Index :
          /\ table' = [table EXCEPT ![e].ext = x, ![e].conn = NewConn(e, r)]
          /\ Occupied(e)
    BY <1>5, <2>1 DEF Rebind, Routed
  <2>3. /\ \A f \in Index : /\ table'[f].peer = table[f].peer
                            /\ table'[f].adopted = table[f].adopted
                            /\ f # e => table'[f].ext = table[f].ext
        /\ table'[e].ext = x
    BY <1>3, <2>2 DEF Entry
  <2>4. \A f \in Index : Occupied(f) => table[f].ext # x
    BY <1>5 DEF Rebind, Known
  <2>5. OneEntryEach'
    BY <2>3, <2>4 DEF OneEntryEach, Occupied
  <2>6. AdoptionsInv'
    BY <1>1, <1>2, <2>3 DEF AdoptionsInv, Occupied
  <2> QED
    BY <1>2, <2>5, <2>6
<1>6. CASE NewPeer(x, r)
  <2>1. First(Free) \in Index
    BY <1>6, FirstIndex DEF NewPeer, Free
  <2>2. PICK e \in Index : table' = [table EXCEPT ![e] = [Empty EXCEPT !.peer = r.peer, !.ext = x]]
    BY <1>6, <2>1 DEF NewPeer
  <2>3. /\ \A f \in Index \ {e} : table'[f] = table[f]
        /\ table'[e].peer = r.peer /\ table'[e].ext = x /\ ~table'[e].adopted
    BY <1>3, <2>2 DEF Empty
  <2>4. \A f \in Index : Occupied(f) => table[f].ext # x /\ table[f].peer # r.peer
    BY <1>6 DEF NewPeer, Known, Routed
  <2>5. OneEntryEach'
    BY <2>3, <2>4 DEF OneEntryEach, Occupied
  <2>6. AdoptionsInv'
    BY <1>1, <1>2, <2>3 DEF AdoptionsInv, Occupied
  <2> QED
    BY <1>2, <2>5, <2>6
<1> QED
  BY <1>4, <1>5, <1>6

LEMMA RelayThreadStep ==
    ASSUME RelayInv, RelayNext, Served' = Served
    PROVE  RelayInv'
<1> USE DEF RelayInv
<1>a. RelayType'
  BY RelayStepType
<1>b. table \in [Index -> Entry]
  BY DEF RelayType
<1>1. CASE TakeCommands
  <2>1. batch = <<>> /\ running
    BY <1>1 DEF TakeCommands, RelayState
  <2>2. Waiting' = Waiting
    BY <1>1, <2>1 DEF TakeCommands, Waiting, RelayType
  <2>3. table' = table /\ RelayState'
    BY <1>1, <2>1 DEF TakeCommands, RelayState
  <2> QED
    BY <1>a, <2>1, <2>2, <2>3, TableShrinks
<1>2. CASE ApplyCommand
  BY <1>2, <1>a, AppliedCommand
<1>3. CASE ReapAndPoll \/ ServeGameSockets
  <2>1. running /\ Waiting' = Waiting /\ RelayState'
    BY <1>3 DEF ReapAndPoll, ServeGameSockets, RelayState, Waiting
  <2>2. \A e \in Index : table'[e] = table[e] \/ table'[e] = Empty
    BY <1>3 DEF ReapAndPoll, ServeGameSockets
  <2>3. \A e \in Index : table'[e].peer # None =>
          /\ table'[e].peer = table[e].peer
          /\ table'[e].ext = table[e].ext
          /\ table'[e].adopted = table[e].adopted
    BY <2>2 DEF Empty
  <2> QED
    BY <1>a, <2>1, <2>3, TableShrinks
<1>4. CASE RelayFails
  BY <1>4, <1>a DEF RelayFails, RelayState, OneEntryEach, Occupied, Empty, AdoptionsInv
<1>5. ASSUME NEW e \in Index, EntryExpires(e)
      PROVE  RelayInv'
  <2>1. running
    BY <1>5 DEF EntryExpires, Occupied, RelayState, Empty
  <2>2. UNCHANGED <<running, worker, commands, batch>>
    BY <1>5 DEF EntryExpires
  <2>3. RelayState' /\ Waiting' = Waiting
    BY <2>1, <2>2 DEF RelayState, Waiting
  <2>4. \A f \in Index : /\ table'[f].peer = table[f].peer
                         /\ table'[f].ext = table[f].ext
                         /\ table'[f].adopted = table[f].adopted
    BY <1>5, <1>b DEF EntryExpires, Entry
  <2> QED
    BY <1>a, <2>1, <2>3, <2>4, TableShrinks
<1>6. CASE ReceivePublic
  BY <1>6, <1>a, ReceivedDatagram DEF ReceivePublic
<1> QED
  BY <1>1, <1>2, <1>3, <1>4, <1>5, <1>6 DEF RelayNext, RelayThread

-----------------------------------------------------------------------------
(* The composition.                                                         *)

LEMMA TransportParts == TransportInv <=> SlotsInv /\ RelayInv
  BY TypeParts DEF TransportInv, SlotsInv, RelayInv

LEMMA TransportPartsNext == TransportInv' <=> SlotsInv' /\ RelayInv'
  BY TypePartsNext DEF TransportInv, SlotsInv, RelayInv

LEMMA InitTransport == Init => TransportInv
<1> SUFFICES ASSUME Init PROVE TransportInv
  OBVIOUS
<1>1. TypeOK
  BY InitType
<1>2. \A s \in Index : slots[s] = Unclaimed /\ SlotTokens(s) = {}
  BY DEF Init, HostInit, SlotTokens, Unclaimed
<1>3. ListenersInv /\ OneSlotEach
  BY <1>2 DEF Init, HostInit, ListenersInv, SlotListeners, SessionListener, NoStrayListeners,
              OneSlotEach, Unclaimed, NoSession
<1>4. OneEntryEach /\ RelayState /\ AdoptionsInv
  BY DEF Init, RelayInit, OneEntryEach, RelayState, AdoptionsInv, Occupied, Empty
<1> QED
  BY <1>1, <1>3, <1>4 DEF TransportInv

LEMMA NextTransport == TransportInv /\ [Next]_vars => TransportInv'
<1> SUFFICES ASSUME TransportInv, [Next]_vars PROVE TransportInv'
  OBVIOUS
<1>a. SlotsInv /\ RelayInv
  BY TransportParts
<1>1. CASE SessionNext \/ PeerNext
  <2>1. SlotsInv' /\ RelayType' /\ SeenByRelay
    BY <1>1, <1>a, SessionStep, PeerStep DEF RelayInv
  <2> QED
    BY <1>a, <2>1, GameThreadStep, TransportPartsNext
<1>2. CASE (RelayNext /\ UNCHANGED hostVars) \/ UNCHANGED vars
  <2>1. UNCHANGED hostVars
    BY <1>2 DEF vars
  <2>2. UNCHANGED <<engine, session>> /\ slots' = slots /\ lobby' = lobby
    BY <2>1 DEF hostVars
  <2>3. HostType'
    BY <1>a, <2>2 DEF SlotsInv, HostType, EngineType
  <2>4. SlotsInv' /\ Served' = Served
    BY <1>a, <2>2, <2>3, KeptSlots
  <2>5. CASE RelayNext
    BY <1>a, <2>4, <2>5, RelayThreadStep, TransportPartsNext
  <2>6. CASE UNCHANGED vars
    <3>1. UNCHANGED <<running, worker, table, commands, batch, arriving>>
      BY <2>6 DEF vars, relayVars
    <3>2. RelayType' /\ SeenByRelay
      BY <1>a, <2>4, <3>1 DEF RelayInv, RelayType, SeenByRelay, NothingForTheRelay
    <3> QED
      BY <1>a, <2>4, <3>2, GameThreadStep, TransportPartsNext
  <2> QED
    BY <1>2, <2>5, <2>6
<1> QED
  BY <1>1, <1>2 DEF Next

(* In every state of the host, with any number of peers, addresses, slots   *)
(* and channels: the listeners, the slots, the relay's table and its        *)
(* commands are as the invariant says.                                      *)
THEOREM TransportInvariant == Spec => []TransportInv
  BY InitTransport, NextTransport, PTL DEF Spec

(* The session, the slots, the engine's listeners, the lobby and the relay  *)
(* (realms_api.cpp, realms_protocol.cpp, realms_relay.cpp) keep their types. *)
THEOREM TypeCorrect == Spec => []TypeOK
<1>1. TransportInv => TypeOK
  BY DEF TransportInv
<1> QED
  BY <1>1, TransportInvariant, PTL

(* The engine holds exactly the listeners the slots know of, and calls each *)
(* with the slot of the peer it was registered for: realms_protocol.cpp     *)
(* never meets its "invalid peer callback state".                           *)
THEOREM ListenersCorrect == Spec => []ListenersMatchSlots
<1>1. TransportInv => ListenersMatchSlots
  <2> SUFFICES ASSUME TransportInv PROVE ListenersMatchSlots
    OBVIOUS
  <2>a. SlotsInv
    BY TransportParts
  <2>1. DOMAIN engine = ({session.listener} \ {NoToken}) \cup UNION {SlotTokens(s) : s \in Index}
    <3>1. \A s \in Index : SlotTokens(s) \subseteq DOMAIN engine
      BY <2>a, TokenOwner
    <3>2. session.listener # NoToken => session.listener \in DOMAIN engine
      BY <2>a DEF SlotsInv, ListenersInv, SessionListener
    <3>3. \A t \in DOMAIN engine :
            (t = session.listener \/ \E s \in Index : t \in SlotTokens(s)) /\ t # NoToken
      BY <2>a, TokenTypes DEF SlotsInv, ListenersInv, NoStrayListeners, HostType, EngineType
    <3> QED
      BY <3>1, <3>2, <3>3
  <2>2. ASSUME NEW t \in DOMAIN engine
        PROVE  /\ engine[t].kind = "peer" => slots[engine[t].slot].peer = engine[t].key
               /\ engine[t].kind = "channel" =>
                    /\ slots[engine[t].slot].peer # None
                    /\ slots[engine[t].slot].channelToken = t
                    /\ slots[engine[t].slot].channel = engine[t].key
    <3>1. CASE t = session.listener
      <4>1. t # NoToken
        BY <2>a, TokenTypes DEF SlotsInv, HostType, EngineType
      <4>2. engine[t].kind = "host"
        BY <2>a, <3>1, <4>1 DEF SlotsInv, ListenersInv, SessionListener, HostListener
      <4> QED
        BY <4>2
    <3>2. ASSUME NEW s \in Index, t \in SlotTokens(s)
          PROVE  /\ engine[t].kind = "peer" => slots[engine[t].slot].peer = engine[t].key
                 /\ engine[t].kind = "channel" =>
                      /\ slots[engine[t].slot].peer # None
                      /\ slots[engine[t].slot].channelToken = t
                      /\ slots[engine[t].slot].channel = engine[t].key
      <4>1. SlotListeners(s) /\ slots[s].peer # None
        BY <2>a, <3>2 DEF SlotsInv, ListenersInv, SlotListeners
      <4>2. CASE t = slots[s].peerToken /\ t # NoToken
        BY <4>1, <4>2 DEF SlotListeners
      <4>3. CASE t = slots[s].channelToken /\ t # NoToken
        BY <4>1, <4>3 DEF SlotListeners
      <4> QED
        BY <3>2, <4>2, <4>3 DEF SlotTokens
    <3> QED
      BY <2>a, <3>1, <3>2 DEF SlotsInv, ListenersInv, NoStrayListeners
  <2> QED
    BY <2>1, <2>2 DEF ListenersMatchSlots
<1> QED
  BY <1>1, TransportInvariant, PTL

(* The relay gives a peer one entry and an address one entry, the host one  *)
(* slot; and an entry the relay will not time out (realms_relay.cpp,        *)
(* adopted) is of a peer whose listener is registered, or its release is on *)
(* the way: no peer that comes and goes leaves an entry behind.             *)
THEOREM RelayCorrect == Spec => []RelayServesItsPeers
<1>1. TransportInv => RelayServesItsPeers
  <2> SUFFICES ASSUME TransportInv PROVE RelayServesItsPeers
    OBVIOUS
  <2>a. SlotsInv /\ RelayInv
    BY TransportParts
  <2>1. OneWayToEachPeer
    BY <2>a DEF SlotsInv, RelayInv, OneWayToEachPeer, OneSlotEach, OneEntryEach
  <2>2. ASSUME NEW e \in Index, Occupied(e), table[e].adopted
        PROVE  Serving(table[e].peer) \/ Pending("release", table[e].peer)
    <3>1. running
      BY <2>a, <2>2 DEF RelayInv, RelayState, Occupied, Empty
    <3>2. CASE table[e].peer \in Served
      BY <3>2 DEF Served
    <3>3. CASE Released(Waiting, table[e].peer)
      <4> DEFINE cmd == [type |-> "release", peer |-> table[e].peer]
      <4>1. PICK i \in DOMAIN Waiting : Waiting[i] = cmd
        BY <3>3 DEF Released
      <4>2. batch \in Seq(Command) /\ commands \in Seq(Command)
        BY <2>a DEF RelayInv, RelayType
      <4> HIDE DEF cmd
      <4>3. \/ \E j \in DOMAIN batch : batch[j] = cmd
            \/ \E j \in DOMAIN commands : commands[j] = cmd
        <5>1. CASE i \in 1 .. Len(batch)
          BY <4>1, <4>2, <5>1 DEF Waiting
        <5>2. CASE i \notin 1 .. Len(batch)
          <6>1. /\ i \in 1 .. (Len(batch) + Len(commands)) /\ i > Len(batch)
                /\ Waiting[i] = commands[i - Len(batch)]
            BY <4>1, <4>2, <5>2 DEF Waiting
          <6>2. i - Len(batch) \in DOMAIN commands
            BY <4>2, <6>1
          <6> QED
            BY <4>1, <6>1, <6>2
        <5> QED
          BY <5>1, <5>2
      <4>4. cmd \in {batch[j] : j \in DOMAIN batch} \cup {commands[j] : j \in DOMAIN commands}
        BY <4>3
      <4> QED
        BY <4>4 DEF Pending, cmd
    <3> QED
      BY <2>2, <2>a, <3>1, <3>2, <3>3 DEF RelayInv, AdoptionsInv
  <2> QED
    BY <2>1, <2>2 DEF RelayServesItsPeers, AdoptedEntriesHaveAnOwner
<1> QED
  BY <1>1, TransportInvariant, PTL

(* The host serves its peers as both theorems say.                          *)
THEOREM PeersServed == Spec => []PeersAreServed
  BY ListenersCorrect, RelayCorrect, PTL DEF PeersAreServed

=============================================================================
