---------------------------- MODULE BinaryProofs ----------------------------
(***************************************************************************)
(* Proofs about the binary message transport of the Realms native runtime   *)
(* (realms_binary.cpp), for any number of channels, any limits and any      *)
(* sizes of messages.                                                       *)
(***************************************************************************)
EXTENDS BinaryTransport, RuntimeProofs

(***************************************************************************)
(* The inductive invariant.                                                 *)
(***************************************************************************)
Message == [id : Nat, size : Nat, offset : Nat]
Delivered == [channel : ChannelId, kind : Kind, id : Nat, size : Nat]
Assembly == [active : BOOLEAN, id : Nat, total : Nat, got : Nat]
Channel ==
  [context : Nat, failed : BOOLEAN, next : Nat, bytes : Int, messages : Int, preferUnreliable : BOOLEAN,
   outgoing : [OutLane -> Seq(Message)], incoming : [Lane -> Assembly]]
LastSent == [frames : [Kind -> Message], last : Kind]
Peer == [sending : [Lane -> Message], woken : Nat, datagrams : Nat]

ChannelsType == channels \in [ChannelId -> Channel] /\ nextContext \in Nat \ {0}
ReceiveType ==
  /\ received \in [Lane -> Seq(Delivered)]
  /\ receiveMessages \in Int
  /\ queuedBytes \in Int
  /\ receiveBytes \in Int
  /\ pendingReceive \in BOOLEAN
UpdateType == updating \in [channel : 0 .. MaxChannels, work : BOOLEAN] /\ pendingWork \in BOOLEAN
WireType == sent \in [ChannelId -> LastSent] /\ remote \in [ChannelId -> Peer]
BinaryType == ChannelsType /\ ReceiveType /\ UpdateType /\ WireType

\* An erased channel holds nothing, and nothing it received is left.
ErasedInv ==
  /\ \A c \in ChannelId : channels[c].context = 0 => channels[c] = Unattached
  /\ \A l \in Lane : \A i \in 1 .. Len(received[l]) : received[l][i].channel \in Attached

OwnBooks(ch) ==
  /\ ch.bytes = SumBytes(ch.outgoing["datagram"]) + SumBytes(ch.outgoing["bulk"])
  /\ ch.messages = Len(ch.outgoing["datagram"]) + Len(ch.outgoing["bulk"])
QueueBooks ==
  /\ \A c \in ChannelId : OwnBooks(channels[c])
  /\ queuedBytes = SumOf([c \in ChannelId |-> channels[c].bytes])

\* The bytes of a lane of the receive queue: of its messages, and of those being assembled.
Reserved(a) == IF a.active THEN a.total ELSE 0
Part(chs, l, q) == SumBytes(q) + SumOf([c \in ChannelId |-> Reserved(chs[c].incoming[l])])
ReceiveBooks ==
  /\ receiveBytes = Part(channels, "control", received["control"]) + Part(channels, "bulk", received["bulk"])
  /\ receiveMessages = Len(received["control"]) + Len(received["bulk"])
  /\ pendingReceive <=> receiveMessages # 0
  /\ Len(received["bulk"]) <= MaxMessages - ReserveMessages
  /\ Part(channels, "bulk", received["bulk"]) <= MaxBytes - ReserveBytes

\* While UpdateBinary runs, the channels it has passed have not failed, and it knows of their work.
WorkInv ==
  IF updating.channel = 0
  THEN \A c \in Attached : channels[c].failed \/ HasWork(channels[c]) => pendingWork
  ELSE /\ pendingWork
       /\ updating.channel \in Attached
       /\ \A c \in Attached : c < updating.channel => ~channels[c].failed /\ (HasWork(channels[c]) => updating.work)

\* The channel assembles the control message that its peer is sending, and has kept those
\* whose wake-ups are still to come, in their order.
SentWhole(peer) ==
  LET last == peer.sending["control"] IN IF last.offset = last.size THEN last.id ELSE last.id - 1
Awaited(peer) == (peer.woken + 1) .. SentWhole(peer)
Assembles(a, s) ==
  /\ a.active <=> s.offset # s.size
  /\ a.active => a.id = s.id /\ a.total = s.size /\ a.got = s.offset
KeepsControl(q, c, peer) ==
  /\ \A i \in 1 .. Len(q) : q[i].channel = c => q[i].id \in Awaited(peer)
  /\ \A n \in Awaited(peer) : \E i \in 1 .. Len(q) : q[i].channel = c /\ q[i].id = n
  /\ \A i, j \in 1 .. Len(q) : q[i].channel = c /\ q[j].channel = c /\ i < j => q[i].id < q[j].id
ControlInv ==
  \A c \in Attached : ~channels[c].failed =>
    /\ remote[c].woken <= SentWhole(remote[c])
    /\ Assembles(channels[c].incoming["control"], remote[c].sending["control"])
    /\ KeepsControl(received["control"], c, remote[c])

\* What was sent of the bulk messages is all of them up to some message, and the first frames
\* of the one at the head of the queue.
InOrder(q, g, next) ==
  /\ g.id <= next
  /\ \A i \in 1 .. Len(q) : q[i].id <= next /\ (i > 1 => q[i].offset = 0)
  /\ \A i, j \in 1 .. Len(q) : i < j => q[i].id < q[j].id
  /\ IF q # << >> /\ q[1].offset # 0
     THEN q[1].offset < q[1].size /\ g.id = q[1].id /\ g.size = q[1].size /\ g.offset = q[1].offset
     ELSE g.offset = g.size /\ \A i \in 1 .. Len(q) : g.id < q[i].id
WireOf(ch, s) ==
  /\ s.last \in OutLane => ch.preferUnreliable = (s.last # "datagram")
  /\ ~ch.failed => /\ s.frames["control"].offset = s.frames["control"].size
                   /\ s.frames["control"].id <= ch.next
                   /\ InOrder(ch.outgoing["bulk"], s.frames["bulk"], ch.next)
WireInv == \A c \in Attached : WireOf(channels[c], sent[c])

BinaryInv == BinaryType /\ ErasedInv /\ QueueBooks /\ ReceiveBooks /\ WorkInv /\ ControlInv /\ WireInv

(***************************************************************************)
(* What a step does to a channel.                                           *)
(***************************************************************************)
KeepsPlace(a, b) == b \in Channel /\ b.context = a.context
KeepsQueues(a, b) == b.bytes = a.bytes /\ b.messages = a.messages /\ b.outgoing = a.outgoing
KeepsTurn(a, b) == b.next = a.next /\ b.preferUnreliable = a.preferUnreliable

\* It fails.
Broken(a, b) ==
  KeepsPlace(a, b) /\ KeepsQueues(a, b) /\ KeepsTurn(a, b) /\ b.incoming = a.incoming /\ b.failed = TRUE
\* It numbers a control message.
Numbered(a, b) ==
  /\ KeepsPlace(a, b) /\ KeepsQueues(a, b) /\ b.incoming = a.incoming /\ b.failed = a.failed
  /\ b.next = a.next + 1 /\ b.preferUnreliable = a.preferUnreliable
\* It queues a message.
Queued(a, b, lane, size) ==
  /\ KeepsPlace(a, b) /\ b.incoming = a.incoming /\ b.failed = a.failed
  /\ b.next = a.next + 1 /\ b.preferUnreliable = a.preferUnreliable
  /\ b.outgoing[lane] = Append(a.outgoing[lane], [id |-> a.next + 1, size |-> size, offset |-> 0])
  /\ \A l \in OutLane : l # lane => b.outgoing[l] = a.outgoing[l]
  /\ b.bytes = a.bytes + size /\ b.messages = a.messages + 1
\* The first message of a queue leaves it.
Dequeued(a, b, lane) ==
  /\ KeepsPlace(a, b) /\ b.incoming = a.incoming /\ b.failed = a.failed /\ b.next = a.next
  /\ a.outgoing[lane] # << >>
  /\ b.outgoing[lane] = Tail(a.outgoing[lane])
  /\ \A l \in OutLane : l # lane => b.outgoing[l] = a.outgoing[l]
  /\ b.bytes = a.bytes - Head(a.outgoing[lane]).size /\ b.messages = a.messages - 1
\* A frame of the first message of a queue is sent.
Advanced(a, b, lane, offset) ==
  /\ KeepsPlace(a, b) /\ b.incoming = a.incoming /\ b.failed = a.failed /\ b.next = a.next
  /\ a.outgoing[lane] # << >>
  /\ Len(b.outgoing[lane]) = Len(a.outgoing[lane])
  /\ b.outgoing[lane][1] = [a.outgoing[lane][1] EXCEPT !.offset = offset]
  /\ \A i \in 1 .. Len(a.outgoing[lane]) : i # 1 => b.outgoing[lane][i] = a.outgoing[lane][i]
  /\ \A l \in OutLane : l # lane => b.outgoing[l] = a.outgoing[l]
  /\ b.bytes = a.bytes /\ b.messages = a.messages
\* It assembles x on a lane.
Assembling1(a, b, lane, x) ==
  /\ KeepsPlace(a, b) /\ KeepsQueues(a, b) /\ KeepsTurn(a, b)
  /\ b.incoming[lane] = x
  /\ \A l \in Lane : l # lane => b.incoming[l] = a.incoming[l]

Others(c) == channels' \in [ChannelId -> Channel] /\ \A d \in ChannelId : d # c => channels'[d] = channels[d]

(***************************************************************************)
(* Types.                                                                   *)
(***************************************************************************)
LEMMA BlankTypes ==
    /\ Unattached \in Channel /\ NoAssembly \in Assembly /\ NothingSent \in LastSent /\ NewRemote \in Peer
    /\ MaxChannels \in Nat /\ Sizes \subseteq Nat
<1>1. NoAssembly \in Assembly
  BY DEF NoAssembly, Assembly
<1>2. << >> \in Seq(Message)
  OBVIOUS
<1>3. Unattached \in Channel
  BY <1>1, <1>2 DEF Unattached, Channel
<1>4. NothingSent \in LastSent
  BY DEF NothingSent, LastSent, Message, Kind, Lane, OutLane
<1>5. NewRemote \in Peer
  BY DEF NewRemote, Peer, Message
<1> QED
  BY <1>1, <1>3, <1>4, <1>5, BinaryAssumption

LEMMA ChannelTypes ==
    ASSUME NEW a \in Channel
    PROVE  /\ a.context \in Nat /\ a.failed \in BOOLEAN /\ a.next \in Nat /\ a.bytes \in Int /\ a.messages \in Int
           /\ a.preferUnreliable \in BOOLEAN
           /\ a.outgoing \in [OutLane -> Seq(Message)] /\ a.incoming \in [Lane -> Assembly]
           /\ a.outgoing["datagram"] \in Seq(Message) /\ a.outgoing["bulk"] \in Seq(Message)
           /\ a.incoming["control"] \in Assembly /\ a.incoming["bulk"] \in Assembly
<1>1. /\ a.context \in Nat /\ a.failed \in BOOLEAN /\ a.next \in Nat /\ a.bytes \in Int /\ a.messages \in Int
      /\ a.preferUnreliable \in BOOLEAN
      /\ a.outgoing \in [OutLane -> Seq(Message)] /\ a.incoming \in [Lane -> Assembly]
  BY DEF Channel
<1> QED
  BY <1>1 DEF OutLane, Lane

(* What every action does to the channels: one lemma for each, so that the  *)
(* invariants need only look at the effects.                                *)
LEMMA SendBinaryEffect ==
    ASSUME BinaryType, NEW c \in ChannelId, NEW lane \in OutLane, NEW size \in Nat, SendBinary(c, lane, size)
    PROVE  /\ channels' \in [ChannelId -> Channel] /\ Others(c)
           /\ Queued(channels[c], channels'[c], lane, size)
<1>1. channels \in [ChannelId -> Channel]
  BY DEF BinaryType, ChannelsType
<1> DEFINE a == channels[c]
           m == [id |-> a.next + 1, size |-> size, offset |-> 0]
<1>2. a \in Channel
  BY <1>1
<1>3. channels' = [channels EXCEPT
       ![c].outgoing[lane] = Append(@, m),
       ![c].next = @ + 1, ![c].bytes = @ + size, ![c].messages = @ + 1]
  BY DEF SendBinary
<1>4. m \in Message /\ a.outgoing \in [OutLane -> Seq(Message)]
  BY <1>2, ChannelTypes DEF Message
<1> DEFINE b == [a EXCEPT !.outgoing[lane] = Append(@, m), !.next = @ + 1, !.bytes = @ + size, !.messages = @ + 1]
<1>5. channels' = [channels EXCEPT ![c] = b]
  BY <1>1, <1>3
<1>6. b \in Channel
  <2> DEFINE o == [a.outgoing EXCEPT ![lane] = Append(@, m)]
  <2>1. o \in [OutLane -> Seq(Message)]
    BY <1>4
  <2>2. a.next + 1 \in Nat /\ a.bytes + size \in Int /\ a.messages + 1 \in Int
    BY <1>2, ChannelTypes
  <2>3. b = [a EXCEPT !.outgoing = o, !.next = a.next + 1, !.bytes = a.bytes + size, !.messages = a.messages + 1]
    BY <1>2 DEF Channel
  <2> HIDE DEF o, a, b
  <2> QED
    BY <1>2, <2>1, <2>2, <2>3 DEF Channel
<1>7. Queued(a, b, lane, size)
  BY <1>2, <1>4, <1>6, ChannelTypes DEF Queued, KeepsPlace, Channel
<1>8. channels'[c] = b
  BY <1>1, <1>5
<1> HIDE DEF b
<1> QED
  BY <1>1, <1>5, <1>6, <1>7, <1>8 DEF Others

LEMMA FailingEffect ==
    ASSUME BinaryType, NEW c \in ChannelId, channels' = [channels EXCEPT ![c].failed = TRUE]
    PROVE  channels' \in [ChannelId -> Channel] /\ Others(c) /\ Broken(channels[c], channels'[c])
<1>1. channels \in [ChannelId -> Channel]
  BY DEF BinaryType, ChannelsType
<1> DEFINE a == channels[c]
           b == [a EXCEPT !.failed = TRUE]
<1>2. channels' = [channels EXCEPT ![c] = b]
  BY <1>1
<1>3. a \in Channel /\ b \in Channel
  BY <1>1 DEF Channel
<1>4. Broken(a, b)
  BY <1>3 DEF Broken, KeepsPlace, KeepsQueues, KeepsTurn, Channel
<1>5. channels'[c] = b
  BY <1>1, <1>2
<1> HIDE DEF b
<1> QED
  BY <1>1, <1>2, <1>3, <1>4, <1>5 DEF Others

LEMMA SendControlEffect ==
    ASSUME BinaryType, NEW c \in ChannelId, channels' = [channels EXCEPT ![c].next = @ + 1]
    PROVE  channels' \in [ChannelId -> Channel] /\ Others(c) /\ Numbered(channels[c], channels'[c])
<1>1. channels \in [ChannelId -> Channel]
  BY DEF BinaryType, ChannelsType
<1> DEFINE a == channels[c]
           b == [a EXCEPT !.next = a.next + 1]
<1>2. channels' = [channels EXCEPT ![c] = b]
  BY <1>1
<1>3. a \in Channel /\ b \in Channel
  <2>1. a \in Channel /\ a.next + 1 \in Nat
    BY <1>1, ChannelTypes
  <2> QED
    BY <2>1 DEF Channel
<1>4. Numbered(a, b)
  BY <1>3 DEF Numbered, KeepsPlace, KeepsQueues, KeepsTurn, Channel
<1>5. channels'[c] = b
  BY <1>1, <1>2
<1> HIDE DEF b
<1> QED
  BY <1>1, <1>2, <1>3, <1>4, <1>5 DEF Others

LEMMA DequeueEffect ==
    ASSUME BinaryType, NEW c \in ChannelId, NEW lane \in OutLane, NEW turn \in BOOLEAN,
           channels[c].outgoing[lane] # << >>,
           channels' = [channels EXCEPT
               ![c].preferUnreliable = turn, ![c].outgoing[lane] = Tail(@),
               ![c].bytes = @ - Head(channels[c].outgoing[lane]).size, ![c].messages = @ - 1]
    PROVE  /\ channels' \in [ChannelId -> Channel] /\ Others(c)
           /\ Dequeued(channels[c], channels'[c], lane)
           /\ channels'[c].preferUnreliable = turn
<1>1. channels \in [ChannelId -> Channel]
  BY DEF BinaryType, ChannelsType
<1> DEFINE a == channels[c]
           o == [a.outgoing EXCEPT ![lane] = Tail(@)]
           n == Head(a.outgoing[lane]).size
           b == [a EXCEPT !.preferUnreliable = turn, !.outgoing = o, !.bytes = a.bytes - n, !.messages = a.messages - 1]
<1>2. a \in Channel
  BY <1>1
<1>3. a.outgoing \in [OutLane -> Seq(Message)] /\ a.bytes \in Int /\ a.messages \in Int
  BY <1>2, ChannelTypes
<1>4. n \in Nat /\ Tail(a.outgoing[lane]) \in Seq(Message)
  <2>1. Head(a.outgoing[lane]) \in Message
    BY <1>3
  <2> QED
    BY <1>3, <2>1 DEF Message
<1>5. o \in [OutLane -> Seq(Message)] /\ o[lane] = Tail(a.outgoing[lane])
      /\ \A l \in OutLane : l # lane => o[l] = a.outgoing[l]
  BY <1>3, <1>4
<1>6. channels' = [channels EXCEPT ![c] = b]
  BY <1>1
<1> HIDE DEF o, n
<1>7. b \in Channel
  <2>1. a.bytes - n \in Int /\ a.messages - 1 \in Int
    BY <1>3, <1>4
  <2> QED
    BY <1>2, <1>5, <2>1 DEF Channel
<1>8. Dequeued(a, b, lane) /\ b.preferUnreliable = turn
  BY <1>2, <1>5, <1>7 DEF Dequeued, KeepsPlace, Channel, n
<1>9. channels'[c] = b
  BY <1>1, <1>6
<1> HIDE DEF b
<1> QED
  BY <1>1, <1>6, <1>7, <1>8, <1>9 DEF Others

LEMMA ExpireEffect ==
    ASSUME BinaryType, NEW c \in ChannelId,
           channels[c].outgoing["datagram"] # << >>,
           channels' = [channels EXCEPT
               ![c].outgoing["datagram"] = Tail(@),
               ![c].bytes = @ - Head(channels[c].outgoing["datagram"]).size, ![c].messages = @ - 1]
    PROVE  /\ channels' \in [ChannelId -> Channel] /\ Others(c)
           /\ Dequeued(channels[c], channels'[c], "datagram")
           /\ channels'[c].preferUnreliable = channels[c].preferUnreliable
<1>1. channels \in [ChannelId -> Channel]
  BY DEF BinaryType, ChannelsType
<1>2. channels[c] \in Channel /\ channels[c].preferUnreliable \in BOOLEAN
  BY <1>1, ChannelTypes
<1> DEFINE turn == channels[c].preferUnreliable
<1>3. channels' = [channels EXCEPT
               ![c].preferUnreliable = turn, ![c].outgoing["datagram"] = Tail(@),
               ![c].bytes = @ - Head(channels[c].outgoing["datagram"]).size, ![c].messages = @ - 1]
  <2>1. [channels[c] EXCEPT !.preferUnreliable = turn] = channels[c]
    BY <1>2 DEF Channel
  <2>2. [channels EXCEPT ![c].preferUnreliable = turn] = channels
    BY <1>1, <2>1
  <2> QED
    BY <2>2
<1>4. "datagram" \in OutLane
  BY DEF OutLane
<1> HIDE DEF turn
<1>5. turn \in BOOLEAN
  BY <1>2 DEF turn
<1> QED
  BY <1>3, <1>4, <1>5, DequeueEffect DEF turn

LEMMA AdvanceEffect ==
    ASSUME BinaryType, NEW c \in ChannelId, NEW lane \in OutLane, NEW turn \in BOOLEAN, NEW offset \in Nat,
           channels[c].outgoing[lane] # << >>,
           channels' = [channels EXCEPT ![c].preferUnreliable = turn, ![c].outgoing[lane][1].offset = offset]
    PROVE  /\ channels' \in [ChannelId -> Channel] /\ Others(c)
           /\ Advanced(channels[c], channels'[c], lane, offset)
           /\ channels'[c].preferUnreliable = turn
<1>1. channels \in [ChannelId -> Channel]
  BY DEF BinaryType, ChannelsType
<1> DEFINE a == channels[c]
           q == a.outgoing[lane]
           m == [q[1] EXCEPT !.offset = offset]
           r == [q EXCEPT ![1] = m]
           o == [a.outgoing EXCEPT ![lane] = r]
           b == [a EXCEPT !.preferUnreliable = turn, !.outgoing = o]
<1>2. a \in Channel
  BY <1>1
<1>3. a.outgoing \in [OutLane -> Seq(Message)] /\ q \in Seq(Message)
  BY <1>2, ChannelTypes
<1>4. channels' = [channels EXCEPT ![c] = b]
  BY <1>1
<1>5. 1 \in 1 .. Len(q) /\ m \in Message
  <2>1. 1 \in 1 .. Len(q) /\ q[1] \in Message
    BY <1>3
  <2> QED
    BY <2>1 DEF Message
<1> HIDE DEF m
<1>6. r \in Seq(Message) /\ Len(r) = Len(q) /\ r[1] = m /\ \A i \in 1 .. Len(q) : i # 1 => r[i] = q[i]
  BY <1>3, <1>5
<1> HIDE DEF r
<1>7. o \in [OutLane -> Seq(Message)] /\ o[lane] = r /\ \A l \in OutLane : l # lane => o[l] = a.outgoing[l]
  BY <1>3, <1>6
<1> HIDE DEF o
<1>8. b \in Channel
  BY <1>2, <1>7 DEF Channel
<1>9. Advanced(a, b, lane, offset) /\ b.preferUnreliable = turn
  BY <1>2, <1>6, <1>7, <1>8 DEF Advanced, KeepsPlace, Channel, m
<1>10. channels'[c] = b
  BY <1>1, <1>4
<1> HIDE DEF b
<1> QED
  BY <1>1, <1>4, <1>8, <1>9, <1>10 DEF Others

LEMMA AssembleEffect ==
    ASSUME BinaryType, NEW c \in ChannelId, NEW lane \in Lane, NEW x \in Assembly, NEW f \in BOOLEAN,
           \/ channels' = [channels EXCEPT ![c].failed = f, ![c].incoming[lane] = x]
           \/ channels' = [channels EXCEPT ![c].incoming[lane] = x] /\ f = channels[c].failed
    PROVE  /\ channels' \in [ChannelId -> Channel] /\ Others(c)
           /\ Assembling1(channels[c], channels'[c], lane, x)
           /\ channels'[c].failed = f
<1>1. channels \in [ChannelId -> Channel]
  BY DEF BinaryType, ChannelsType
<1> DEFINE a == channels[c]
           i == [a.incoming EXCEPT ![lane] = x]
           b == [a EXCEPT !.failed = f, !.incoming = i]
<1>2. a \in Channel /\ a.incoming \in [Lane -> Assembly]
  BY <1>1, ChannelTypes
<1>3. channels' = [channels EXCEPT ![c] = b]
  <2>1. CASE channels' = [channels EXCEPT ![c].failed = f, ![c].incoming[lane] = x]
    BY <1>1, <2>1
  <2>2. CASE channels' = [channels EXCEPT ![c].incoming[lane] = x] /\ f = channels[c].failed
    <3>1. b = [a EXCEPT !.incoming = i]
      BY <1>2, <2>2 DEF Channel
    <3>2. channels' = [channels EXCEPT ![c] = [a EXCEPT !.incoming = i]]
      BY <1>1, <2>2
    <3> QED
      BY <3>1, <3>2
  <2> QED
    BY <2>1, <2>2
<1>4. i \in [Lane -> Assembly] /\ i[lane] = x /\ \A l \in Lane : l # lane => i[l] = a.incoming[l]
  BY <1>2
<1> HIDE DEF i
<1>5. b \in Channel
  BY <1>2, <1>4 DEF Channel
<1>6. Assembling1(a, b, lane, x) /\ b.failed = f
  BY <1>2, <1>4, <1>5 DEF Assembling1, KeepsPlace, KeepsQueues, KeepsTurn, Channel
<1>7. channels'[c] = b
  BY <1>1, <1>3
<1> HIDE DEF b
<1> QED
  BY <1>1, <1>3, <1>5, <1>6, <1>7 DEF Others

LEMMA ReplaceEffect ==
    ASSUME BinaryType, NEW c \in ChannelId, NEW b \in Channel, channels' = [channels EXCEPT ![c] = b]
    PROVE  channels' \in [ChannelId -> Channel] /\ Others(c) /\ channels'[c] = b
<1>1. channels \in [ChannelId -> Channel]
  BY DEF BinaryType, ChannelsType
<1> QED
  BY <1>1 DEF Others

\* The frame of a peer, and the message that it belongs to.
Frame == [kind : Kind, id : Nat, total : Nat, offset : Nat]
Begun(c, frame) ==
  LET before == channels[c].incoming[frame.kind] IN
  IF before.active THEN before ELSE [active |-> TRUE, id |-> frame.id, total |-> frame.total, got |-> 0]
GotTo(frame) == Min2(frame.offset + 1, frame.total)
Opens(c, frame) == ~channels[c].incoming[frame.kind].active
HeldFor(c, frame) == IF Opens(c, frame) THEN frame.total ELSE 0
Rest4 == <<received, receiveMessages, queuedBytes, pendingReceive>>

\* What a reliable frame does: its channel fails with nothing reserved, or the message is
\* complete, or it is not (or has no place).
Refuses(c) ==
  /\ channels' \in [ChannelId -> Channel] /\ Others(c) /\ Broken(channels[c], channels'[c])
  /\ pendingWork' = TRUE
  /\ UNCHANGED Rest4 /\ receiveBytes' = receiveBytes
Completes(c, frame) ==
  /\ channels' \in [ChannelId -> Channel] /\ Others(c)
  /\ Assembling1(channels[c], channels'[c], frame.kind, NoAssembly)
  /\ channels'[c].failed = channels[c].failed
  /\ GotTo(frame) = frame.total
  /\ HasPlace(frame.kind)
  /\ Complete(c, frame)
  /\ UNCHANGED queuedBytes
Collects(c, frame) ==
  /\ channels' \in [ChannelId -> Channel] /\ Others(c)
  /\ Assembling1(channels[c], channels'[c], frame.kind, [Begun(c, frame) EXCEPT !.got = GotTo(frame)])
  /\ channels'[c].failed = (GotTo(frame) = frame.total)
  /\ UNCHANGED Rest4
Accepts(c, frame) ==
  /\ Opens(c, frame) => CanStart(frame)
  /\ Continues(Begun(c, frame), frame)
  /\ receiveBytes' = receiveBytes + HeldFor(c, frame)
  /\ pendingWork' = TRUE
  /\ Completes(c, frame) \/ Collects(c, frame)

LEMMA BegunType ==
    ASSUME BinaryType, NEW c \in ChannelId, NEW frame \in Frame, frame.kind \in Lane
    PROVE  /\ Begun(c, frame) \in Assembly /\ GotTo(frame) \in Nat /\ HeldFor(c, frame) \in Nat
           /\ [Begun(c, frame) EXCEPT !.got = GotTo(frame)] \in Assembly
           /\ LaneOf(frame.kind) = frame.kind
           /\ channels[c].incoming[frame.kind] \in Assembly
<1>1. channels[c] \in Channel
  BY DEF BinaryType, ChannelsType
<1>2. channels[c].incoming[frame.kind] \in Assembly
  BY <1>1, ChannelTypes
<1>3. frame.id \in Nat /\ frame.total \in Nat /\ frame.offset \in Nat
  BY DEF Frame
<1>4. [active |-> TRUE, id |-> frame.id, total |-> frame.total, got |-> 0] \in Assembly
  BY <1>3 DEF Assembly
<1>5. Begun(c, frame) \in Assembly
  BY <1>2, <1>4 DEF Begun
<1>6. GotTo(frame) \in Nat /\ HeldFor(c, frame) \in Nat
  BY <1>3 DEF GotTo, Min2, HeldFor
<1>7. [Begun(c, frame) EXCEPT !.got = GotTo(frame)] \in Assembly
  BY <1>5, <1>6 DEF Assembly
<1> QED
  BY <1>2, <1>5, <1>6, <1>7 DEF LaneOf, Lane

LEMMA ReliableEffect ==
    ASSUME BinaryType, NEW c \in ChannelId, NEW frame \in Frame, frame.kind \in Lane,
           ~channels[c].failed, ReceiveReliable(c, frame)
    PROVE  Refuses(c) \/ Accepts(c, frame)
<1>1. /\ Begun(c, frame) \in Assembly /\ GotTo(frame) \in Nat
      /\ [Begun(c, frame) EXCEPT !.got = GotTo(frame)] \in Assembly
      /\ LaneOf(frame.kind) = frame.kind
      /\ channels[c].incoming[frame.kind] \in Assembly
  BY BegunType
<1> DEFINE got == GotTo(frame)
           whole == got = frame.total
           held == receiveBytes + HeldFor(c, frame)
           x == [Begun(c, frame) EXCEPT !.got = got]
<1>2. receiveBytes \in Int
  BY DEF BinaryType, ReceiveType
<1>3. IF Opens(c, frame) /\ ~CanStart(frame)
      THEN Failing(c)
      ELSE /\ receiveBytes' = held
           /\ pendingWork' = TRUE
           /\ UNCHANGED queuedBytes
           /\ IF ~Continues(Begun(c, frame), frame)
              THEN /\ channels' = [channels EXCEPT ![c].failed = TRUE]
                   /\ UNCHANGED <<received, receiveMessages, pendingReceive>>
              ELSE IF whole /\ HasPlace(frame.kind)
              THEN /\ channels' = [channels EXCEPT ![c].incoming[frame.kind] = NoAssembly]
                   /\ Complete(c, frame)
              ELSE /\ channels' = [channels EXCEPT ![c].failed = whole, ![c].incoming[frame.kind] = x]
                   /\ UNCHANGED <<received, receiveMessages, pendingReceive>>
  <2>1. held = receiveBytes + (IF Opens(c, frame) THEN frame.total ELSE 0)
    BY DEF HeldFor
  <2>2. Begun(c, frame) = IF Opens(c, frame)
                          THEN [active |-> TRUE, id |-> frame.id, total |-> frame.total, got |-> 0]
                          ELSE channels[c].incoming[frame.kind]
    BY DEF Begun, Opens
  <2>3. got = Min2(frame.offset + 1, frame.total)
    BY DEF GotTo
  <2> HIDE DEF held, got
  <2> QED
    BY <1>1, <2>1, <2>2, <2>3 DEF ReceiveReliable, Opens
<1>4. ASSUME channels' = [channels EXCEPT ![c].failed = TRUE], pendingWork' = TRUE,
             UNCHANGED Rest4, receiveBytes' = receiveBytes
      PROVE  Refuses(c)
  <2>1. channels' \in [ChannelId -> Channel] /\ Others(c) /\ Broken(channels[c], channels'[c])
    BY <1>4, FailingEffect
  <2> QED
    BY <1>4, <2>1 DEF Refuses
<1>5. CASE Opens(c, frame) /\ ~CanStart(frame)
  BY <1>3, <1>4, <1>5 DEF Failing, Rest4
<1>6. CASE ~(Opens(c, frame) /\ ~CanStart(frame)) /\ ~Continues(Begun(c, frame), frame)
  <2>1. ~Opens(c, frame)
    <3>1. ASSUME Opens(c, frame) PROVE FALSE
      <4>1. Begun(c, frame) = [active |-> TRUE, id |-> frame.id, total |-> frame.total, got |-> 0]
        BY <3>1 DEF Begun, Opens
      <4>2. frame.offset = 0
        BY <1>6, <3>1 DEF CanStart
      <4> QED
        BY <1>6, <4>1, <4>2 DEF Continues
    <3> QED
      BY <3>1
  <2>2. receiveBytes' = receiveBytes
    BY <1>2, <1>3, <1>6, <2>1 DEF HeldFor
  <2> HIDE DEF held, x, whole
  <2> QED
    BY <1>3, <1>4, <1>6, <2>2 DEF Rest4
<1>7. CASE ~(Opens(c, frame) /\ ~CanStart(frame)) /\ Continues(Begun(c, frame), frame) /\ whole /\ HasPlace(frame.kind)
  <2>1. /\ channels' = [channels EXCEPT ![c].incoming[frame.kind] = NoAssembly]
        /\ Complete(c, frame) /\ receiveBytes' = held /\ pendingWork' = TRUE /\ UNCHANGED queuedBytes
    BY <1>3, <1>7
  <2>2. channels[c].failed \in BOOLEAN
    BY ChannelTypes DEF BinaryType, ChannelsType
  <2>3. /\ channels' \in [ChannelId -> Channel] /\ Others(c)
        /\ Assembling1(channels[c], channels'[c], frame.kind, NoAssembly)
        /\ channels'[c].failed = channels[c].failed
    BY <2>1, <2>2, AssembleEffect, BlankTypes
  <2>4. Completes(c, frame)
    BY <1>7, <2>1, <2>3 DEF Completes
  <2> QED
    BY <1>7, <2>1, <2>4 DEF Accepts
<1>8. CASE ~(Opens(c, frame) /\ ~CanStart(frame)) /\ Continues(Begun(c, frame), frame) /\ ~(whole /\ HasPlace(frame.kind))
  <2>1. /\ channels' = [channels EXCEPT ![c].failed = whole, ![c].incoming[frame.kind] = x]
        /\ receiveBytes' = held /\ pendingWork' = TRUE /\ UNCHANGED Rest4
    BY <1>3, <1>8 DEF Rest4
  <2>2. whole \in BOOLEAN
    OBVIOUS
  <2>3. /\ channels' \in [ChannelId -> Channel] /\ Others(c)
        /\ Assembling1(channels[c], channels'[c], frame.kind, x)
        /\ channels'[c].failed = whole
    <3> HIDE DEF whole, x
    <3>1. x \in Assembly
      BY <1>1 DEF x
    <3> QED
      BY <2>1, <2>2, <3>1, AssembleEffect
  <2>4. Collects(c, frame)
    BY <2>1, <2>3 DEF Collects
  <2> QED
    BY <1>8, <2>1, <2>4 DEF Accepts
<1> QED
  BY <1>5, <1>6, <1>7, <1>8

(***************************************************************************)
(* The steps, by what they do.                                              *)
(***************************************************************************)
Next1(peer, lane, size) ==
  LET last == peer.sending[lane] IN
  IF last.offset = last.size THEN [id |-> last.id + 1, size |-> size, offset |-> 0] ELSE last
FrameOf(peer, lane, size) ==
  LET message == Next1(peer, lane, size) IN
  [kind |-> lane, id |-> message.id, total |-> message.size, offset |-> message.offset]
\* The peer of a channel has sent a frame.
PeerSent(c, lane, size) ==
  LET message == Next1(remote[c], lane, size) IN
  /\ remote' \in [ChannelId -> Peer]
  /\ \A d \in ChannelId : d # c => remote'[d] = remote[d]
  /\ remote'[c].sending[lane] = [message EXCEPT !.offset = Min2(message.offset + 1, message.size)]
  /\ \A l \in Lane : l # lane => remote'[c].sending[l] = remote[c].sending[l]
  /\ remote'[c].woken = remote[c].woken
SameElsewhere(c) ==
  /\ sent' \in [ChannelId -> LastSent] /\ \A d \in ChannelId : d # c => sent'[d] = sent[d]
  /\ remote' \in [ChannelId -> Peer] /\ \A d \in ChannelId : d # c => remote'[d] = remote[d]

Turns == UpdateNothing \/ UpdateStarts \/ UpdateReports \/ FlushEnds \/ UNCHANGED <<updating, pendingWork>>
Rests ==
  /\ Turns
  /\ UNCHANGED <<channels, received, receiveMessages, queuedBytes, receiveBytes, pendingReceive, sent, remote>>
  /\ nextContext' \in {nextContext, nextContext + 1}
Ignores(c) ==
  /\ channels[c].failed
  /\ SameElsewhere(c)
  /\ UNCHANGED <<channels, received, receiveMessages, queuedBytes, receiveBytes, pendingReceive, sent,
                 updating, pendingWork, nextContext>>
\* Nothing is sent, or a part of a control message.
SendsPart(c) ==
  \/ sent'[c] = sent[c]
  \/ ~channels[c].failed /\ NotInUpdate /\ \E id, offset, size \in Nat :
       id = channels[c].next + 1 /\ Sent(c, "control", id, offset, size)
Fails(c) ==
  /\ Refuses(c)
  /\ SameElsewhere(c)
  /\ NotInUpdate \/ c = updating.channel
  /\ channels[c].context # 0
  /\ SendsPart(c)
  /\ UNCHANGED <<updating, nextContext>>
Sends(c, size) == SendControl(c, size) /\ SameElsewhere(c) /\ Others(c) /\ Numbered(channels[c], channels'[c])
Holds(c, lane, size) ==
  SendBinary(c, lane, size) /\ Others(c) /\ Queued(channels[c], channels'[c], lane, size)
\* The first message of a lane has expired or its last frame has been sent.
Releases(c, lane) ==
  LET message == Head(channels[c].outgoing[lane]) IN
  /\ Others(c) /\ Dequeued(channels[c], channels'[c], lane)
  /\ queuedBytes' = queuedBytes - message.size
  /\ SameElsewhere(c)
  /\ ~NotInUpdate /\ c = updating.channel /\ ~channels[c].failed
  /\ \/ /\ lane = "datagram" /\ sent'[c] = sent[c]
        /\ channels'[c].preferUnreliable = channels[c].preferUnreliable
     \/ /\ lane = NextLane(channels[c])
        /\ Sent(c, lane, message.id, message.size, message.size)
        /\ Min2(message.offset + 1, message.size) = message.size
        /\ channels'[c].preferUnreliable = (lane # "datagram")
  /\ UNCHANGED <<received, receiveMessages, receiveBytes, pendingReceive, nextContext, updating, pendingWork, remote>>
Moves(c, lane) ==
  LET message == Head(channels[c].outgoing[lane])
      offset == Min2(message.offset + 1, message.size) IN
  /\ Others(c) /\ Advanced(channels[c], channels'[c], lane, offset)
  /\ SameElsewhere(c)
  /\ ~NotInUpdate /\ c = updating.channel /\ ~channels[c].failed
  /\ lane = NextLane(channels[c])
  /\ offset # message.size
  /\ Sent(c, lane, message.id, offset, message.size)
  /\ channels'[c].preferUnreliable = (lane # "datagram")
  /\ UNCHANGED <<received, receiveMessages, receiveBytes, queuedBytes, pendingReceive, nextContext, updating,
                 pendingWork, remote>>
\* A datagram has arrived.
Posts(c, frame) ==
  /\ frame \in Frame /\ frame.kind = "datagram"
  /\ NotInUpdate /\ channels[c].context # 0 /\ ~channels[c].failed
  /\ HasPlace("datagram")
  /\ frame.total <= MaxBytes - ReserveBytes - receiveBytes
  /\ Complete(c, frame)
  /\ receiveBytes' = receiveBytes + frame.total
  /\ SameElsewhere(c) /\ remote'[c].sending = remote[c].sending /\ remote'[c].woken = remote[c].woken
  /\ UNCHANGED <<channels, pendingWork, queuedBytes, nextContext, updating, sent>>
Hears(c, lane, size) ==
  /\ FrameOf(remote[c], lane, size) \in Frame
  /\ NotInUpdate /\ channels[c].context # 0 /\ ~channels[c].failed
  /\ Accepts(c, FrameOf(remote[c], lane, size))
  /\ PeerSent(c, lane, size)
  /\ UNCHANGED <<nextContext, updating, sent>>
WakesOne(c) == WakeUp(c) /\ SameElsewhere(c) /\ remote'[c].sending = remote[c].sending /\ remote'[c].woken = remote[c].woken + 1

Does(c) ==
  \/ Ignores(c) \/ Attach(c) \/ Detach(c) \/ Fails(c) \/ WakesOne(c)
  \/ \E size \in Nat :
       \/ Sends(c, size)
       \/ \E lane \in OutLane : Holds(c, lane, size)
       \/ \E lane \in Lane : Hears(c, lane, size)
  \/ \E lane \in OutLane : Releases(c, lane) \/ Moves(c, lane)
  \/ \E frame \in Frame : Posts(c, frame)

(* What a datagram that was sent leaves as the last of its kind.            *)
LEMMA SentEffect ==
    ASSUME BinaryType, NEW c \in ChannelId, NEW kind \in Kind, NEW id \in Nat, NEW offset \in Nat, NEW size \in Nat,
           Sent(c, kind, id, offset, size)
    PROVE  /\ sent' \in [ChannelId -> LastSent] /\ \A d \in ChannelId : d # c => sent'[d] = sent[d]
           /\ sent'[c].last = kind
           /\ sent'[c].frames[kind] = [id |-> id, offset |-> offset, size |-> size]
           /\ \A k \in Kind : k # kind => sent'[c].frames[k] = sent[c].frames[k]
<1>1. sent \in [ChannelId -> LastSent]
  BY DEF BinaryType, WireType
<1> DEFINE a == sent[c]
           m == [id |-> id, offset |-> offset, size |-> size]
           f == [a.frames EXCEPT ![kind] = m]
           b == [a EXCEPT !.frames = f, !.last = kind]
<1>2. a \in LastSent /\ m \in Message
  BY <1>1 DEF Message
<1>3. a.frames \in [Kind -> Message]
  BY <1>2 DEF LastSent
<1>4. sent' = [sent EXCEPT ![c] = b]
  BY <1>1 DEF Sent
<1> HIDE DEF m
<1>5. f \in [Kind -> Message] /\ f[kind] = m /\ \A k \in Kind : k # kind => f[k] = a.frames[k]
  BY <1>2, <1>3
<1> HIDE DEF f
<1>6. b \in LastSent /\ b.last = kind /\ b.frames = f
  BY <1>2, <1>5 DEF LastSent
<1>7. sent'[c] = b
  BY <1>1, <1>4
<1> HIDE DEF b
<1> QED
  BY <1>1, <1>4, <1>5, <1>6, <1>7 DEF m

\* What sending a frame leaves on the wire of its channel.
FrameIsLast(c, kind, id, offset, size) ==
    /\ sent'[c].last = kind
    /\ sent'[c].frames[kind] = [id |-> id, offset |-> offset, size |-> size]
    /\ \A k \in Kind : k # kind => sent'[c].frames[k] = sent[c].frames[k]

\* A frame that was sent is the last one of its kind, and the other kinds keep theirs.
LEMMA SentIsLast ==
    ASSUME BinaryType, NEW c \in ChannelId, NEW kind \in Kind, NEW id \in Nat, NEW offset \in Nat, NEW size \in Nat,
           Sent(c, kind, id, offset, size)
    PROVE  FrameIsLast(c, kind, id, offset, size)
<1>1. sent'[c].last = kind
  BY SentEffect
<1>2. sent'[c].frames[kind] = [id |-> id, offset |-> offset, size |-> size]
  BY SentEffect
<1>3. \A k \in Kind : k # kind => sent'[c].frames[k] = sent[c].frames[k]
  BY SentEffect
<1> QED
  BY <1>1, <1>2, <1>3 DEF FrameIsLast

LEMMA RemoteSendsEffect ==
    ASSUME BinaryType, NEW c \in ChannelId, NEW lane \in Lane, NEW size \in Nat,
           remote' = [remote EXCEPT ![c].sending[lane] =
             [Next1(remote[c], lane, size) EXCEPT !.offset = Min2(@ + 1, Next1(remote[c], lane, size).size)]]
    PROVE  PeerSent(c, lane, size) /\ FrameOf(remote[c], lane, size) \in Frame /\ Next1(remote[c], lane, size) \in Message
<1>1. remote \in [ChannelId -> Peer]
  BY DEF BinaryType, WireType
<1> DEFINE a == remote[c]
           m == Next1(a, lane, size)
           n == [m EXCEPT !.offset = Min2(m.offset + 1, m.size)]
           s == [a.sending EXCEPT ![lane] = n]
           b == [a EXCEPT !.sending = s]
<1>2. a \in Peer
  BY <1>1
<1>3. a.sending \in [Lane -> Message] /\ a.woken \in Nat
  BY <1>2 DEF Peer
<1>4. m \in Message
  <2>1. a.sending[lane] \in Message
    BY <1>3
  <2>2. [id |-> a.sending[lane].id + 1, size |-> size, offset |-> 0] \in Message
    BY <2>1 DEF Message
  <2> QED
    BY <2>1, <2>2 DEF Next1
<1>5. FrameOf(a, lane, size) \in Frame
  <2> HIDE DEF m
  <2>1. FrameOf(a, lane, size) = [kind |-> lane, id |-> m.id, total |-> m.size, offset |-> m.offset]
    BY DEF FrameOf, m
  <2>2. m.id \in Nat /\ m.size \in Nat /\ m.offset \in Nat
    BY <1>4 DEF Message
  <2> QED
    BY <2>1, <2>2 DEF Frame, Kind
<1>6. remote' = [remote EXCEPT ![c] = b]
  <2> HIDE DEF m
  <2>1. remote' = [remote EXCEPT ![c].sending[lane] = [m EXCEPT !.offset = Min2(m.offset + 1, m.size)]]
    BY <1>4 DEF m, Message
  <2> QED
    BY <1>1, <2>1
<1>7. n \in Message
  <2> HIDE DEF m
  <2>1. Min2(m.offset + 1, m.size) \in Nat
    BY <1>4 DEF Message, Min2
  <2> QED
    BY <1>4, <2>1 DEF Message
<1> HIDE DEF n
<1>8. s \in [Lane -> Message] /\ s[lane] = n /\ \A l \in Lane : l # lane => s[l] = a.sending[l]
  BY <1>3, <1>7
<1> HIDE DEF s
<1>9. b \in Peer /\ b.sending = s /\ b.woken = a.woken
  BY <1>2, <1>8 DEF Peer
<1>10. remote'[c] = b /\ remote' \in [ChannelId -> Peer] /\ \A d \in ChannelId : d # c => remote'[d] = remote[d]
  <2> HIDE DEF b
  <2> QED
    BY <1>1, <1>6, <1>9
<1> HIDE DEF b, m
<1>11. PeerSent(c, lane, size)
  BY <1>8, <1>9, <1>10 DEF PeerSent, n, m
<1> QED
  BY <1>4, <1>5, <1>11 DEF m

(* A step of one channel leaves the wire of all others alone.               *)
LEMMA Elsewhere ==
    ASSUME BinaryType, NEW c \in ChannelId
    PROVE  /\ UNCHANGED <<sent, remote>> => SameElsewhere(c)
           /\ UNCHANGED sent /\ remote' \in [ChannelId -> Peer]
                /\ (\A d \in ChannelId : d # c => remote'[d] = remote[d]) => SameElsewhere(c)
           /\ UNCHANGED remote /\ sent' \in [ChannelId -> LastSent]
                /\ (\A d \in ChannelId : d # c => sent'[d] = sent[d]) => SameElsewhere(c)
BY DEF BinaryType, WireType, SameElsewhere

(* Every action is a step of one of the classes above: the datagrams it     *)
(* sends and hears, and nothing else on the wire.                           *)
LEMMA SendControlIs ==
    ASSUME BinaryType, NEW c \in ChannelId, NEW size \in Nat, SendControl(c, size)
    PROVE  Sends(c, size)
<1>1. Sent(c, "control", channels[c].next + 1, size, size) /\ channels' = [channels EXCEPT ![c].next = @ + 1] /\ UNCHANGED remote
  BY DEF SendControl
<1>2. channels[c].next + 1 \in Nat
  BY ChannelTypes DEF BinaryType, ChannelsType
<1>3. sent' \in [ChannelId -> LastSent] /\ \A d \in ChannelId : d # c => sent'[d] = sent[d]
  BY <1>1, <1>2, SentEffect DEF Kind, Lane
<1> QED
  BY <1>1, <1>3, Elsewhere, SendControlEffect DEF Sends

LEMMA FailsIs ==
    ASSUME BinaryType, NEW c \in ChannelId, Failing(c), SameElsewhere(c),
           NotInUpdate \/ c = updating.channel, channels[c].context # 0,
           SendsPart(c), UNCHANGED <<updating, nextContext>>
    PROVE  Fails(c)
<1>1. channels' \in [ChannelId -> Channel] /\ Others(c) /\ Broken(channels[c], channels'[c])
  BY FailingEffect DEF Failing
<1>2. Refuses(c)
  BY <1>1 DEF Failing, Refuses, Rest4
<1> QED
  BY <1>2 DEF Fails

LEMMA SendFrameIs ==
    ASSUME BinaryType, SendFrame
    PROVE  \E c \in ChannelId : \E lane \in OutLane : Releases(c, lane) \/ Moves(c, lane)
<1> DEFINE c == updating.channel
           lane == NextLane(channels[c])
           m == Head(channels[c].outgoing[lane])
           offset == Min2(m.offset + 1, m.size)
           turn == lane # "datagram"
<1>1. c \in ChannelId
  BY SMTT(30) DEF BinaryType, UpdateType, SendFrame, NotInUpdate, ChannelId
<1>2. lane \in OutLane /\ turn \in BOOLEAN
  BY DEF NextLane, OutLane
<1>3. channels[c] \in Channel
  BY <1>1 DEF BinaryType, ChannelsType
<1>4. /\ updating.channel # 0 /\ ~channels[c].failed /\ channels[c].outgoing[lane] # << >>
      /\ Sent(c, lane, m.id, offset, m.size)
      /\ IF offset = m.size
         THEN /\ channels' = [channels EXCEPT
               ![c].preferUnreliable = turn, ![c].outgoing[lane] = Tail(@),
               ![c].bytes = @ - m.size, ![c].messages = @ - 1]
              /\ queuedBytes' = queuedBytes - m.size
         ELSE /\ channels' = [channels EXCEPT
               ![c].preferUnreliable = turn, ![c].outgoing[lane][1].offset = offset]
              /\ UNCHANGED queuedBytes
      /\ UNCHANGED <<received, receiveMessages, receiveBytes, nextContext, pendingWork, pendingReceive, updating, remote>>
  BY DEF SendFrame, Flushing, NotInUpdate
<1>5. m \in Message /\ offset \in Nat
  <2>1. channels[c].outgoing[lane] \in Seq(Message)
    BY <1>2, <1>3, ChannelTypes
  <2>2. m \in Message
    <3> HIDE DEF c, lane
    <3>1. \A q \in Seq(Message) : q # << >> => Head(q) \in Message
      OBVIOUS
    <3> QED
      BY <1>4, <2>1, <3>1
  <2> HIDE DEF m
  <2> QED
    BY <2>2 DEF Message, Min2
<1>6. m.id \in Nat /\ m.size \in Nat
  BY <1>5 DEF Message
<1>7. SameElsewhere(c)
  <2>1. lane \in Kind
    BY <1>2 DEF Kind
  <2> HIDE DEF c, lane, m, offset
  <2>2. sent' \in [ChannelId -> LastSent] /\ \A d \in ChannelId : d # c => sent'[d] = sent[d]
    BY <1>1, <1>4, <1>5, <1>6, <2>1, SentEffect
  <2> QED
    BY <1>1, <1>4, <2>2, Elsewhere
<1>8. CASE offset = m.size
  <2>1. /\ Others(c) /\ Dequeued(channels[c], channels'[c], lane) /\ channels'[c].preferUnreliable = turn
    <3> HIDE DEF c, lane, offset, turn
    <3> QED
      BY <1>1, <1>2, <1>4, <1>8, DequeueEffect
  <2>2. queuedBytes' = queuedBytes - m.size /\ Sent(c, lane, m.id, m.size, m.size)
    BY <1>4, <1>8
  <2>3. Releases(c, lane)
    BY <1>4, <1>7, <1>8, <2>1, <2>2 DEF Releases, NotInUpdate
  <2> QED
    BY <1>1, <1>2, <2>3
<1>9. CASE offset # m.size
  <2>1. /\ Others(c) /\ Advanced(channels[c], channels'[c], lane, offset) /\ channels'[c].preferUnreliable = turn
    <3> HIDE DEF c, lane, offset, turn
    <3> QED
      BY <1>1, <1>2, <1>4, <1>5, <1>9, AdvanceEffect
  <2>2. Moves(c, lane)
    BY <1>4, <1>7, <1>9, <2>1 DEF Moves, NotInUpdate
  <2> QED
    BY <1>1, <1>2, <2>2
<1> QED
  BY <1>8, <1>9

LEMMA RemoteSendsIs ==
    ASSUME BinaryType, NEW c \in ChannelId, NEW lane \in Lane, NEW size \in Nat, RemoteSends(c, lane, size)
    PROVE  Ignores(c) \/ Fails(c) \/ Hears(c, lane, size)
<1> DEFINE frame == FrameOf(remote[c], lane, size)
           x == [channel |-> c, context |-> channels[c].context]
<1>1. /\ NotInUpdate /\ channels[c].context # 0
      /\ ReceiveFrame(x, frame)
      /\ remote' = [remote EXCEPT ![c].sending[lane] =
             [Next1(remote[c], lane, size) EXCEPT !.offset = Min2(@ + 1, Next1(remote[c], lane, size).size)]]
      /\ UNCHANGED <<nextContext, updating, sent>>
  BY DEF RemoteSends, FrameOf, Next1
<1>2. PeerSent(c, lane, size) /\ frame \in Frame
  BY <1>1, RemoteSendsEffect
<1>3. frame.kind = lane
  BY DEF FrameOf
<1>4. SameElsewhere(c)
  BY <1>1, <1>2, Elsewhere DEF PeerSent
<1>5. x.channel = c /\ x.context = channels[c].context
  OBVIOUS
<1> HIDE DEF frame, x
<1>6. CASE channels[c].failed
  <2>1. UNCHANGED <<channels, received, receiveMessages, queuedBytes, receiveBytes, pendingWork, pendingReceive>>
    BY <1>1, <1>5, <1>6 DEF ReceiveFrame, Serves
  <2> QED
    BY <1>1, <1>4, <1>6, <2>1 DEF Ignores
<1>7. CASE ~channels[c].failed
  <2>1. ReceiveReliable(c, frame)
    BY <1>1, <1>3, <1>5, <1>7 DEF ReceiveFrame, Serves, Lane
  <2>2. Refuses(c) \/ Accepts(c, frame)
    BY <1>2, <1>3, <1>7, <2>1, ReliableEffect
  <2>3. CASE Refuses(c)
    <3>1. UNCHANGED <<updating, nextContext>> /\ SendsPart(c)
      BY <1>1 DEF SendsPart
    <3> QED
      BY <1>1, <1>4, <2>3, <3>1 DEF Fails
  <2>4. CASE Accepts(c, frame)
    BY <1>1, <1>2, <1>7, <2>4 DEF Hears, frame
  <2> QED
    BY <2>2, <2>3, <2>4
<1> QED
  BY <1>6, <1>7

LEMMA DatagramIs ==
    ASSUME BinaryType, NEW c \in ChannelId, NEW size \in Nat, RemoteSendsDatagram(c, size)
    PROVE  Ignores(c) \/ Fails(c) \/ \E frame \in Frame : Posts(c, frame)
<1> DEFINE frame == [kind |-> "datagram", id |-> remote[c].datagrams + 1, total |-> size, offset |-> 0]
           x == [channel |-> c, context |-> channels[c].context]
<1>1. /\ NotInUpdate /\ channels[c].context # 0
      /\ ReceiveFrame(x, frame)
      /\ remote' = [remote EXCEPT ![c].datagrams = @ + 1]
      /\ UNCHANGED <<nextContext, updating, sent>>
  BY DEF RemoteSendsDatagram
<1>2. remote[c] \in Peer /\ remote[c].datagrams \in Nat /\ remote \in [ChannelId -> Peer]
  BY DEF BinaryType, WireType, Peer
<1>3. frame \in Frame /\ frame.kind = "datagram" /\ frame.total = size
  BY <1>2 DEF Frame, Kind, OutLane
<1> DEFINE b == [remote[c] EXCEPT !.datagrams = remote[c].datagrams + 1]
<1>4. remote' = [remote EXCEPT ![c] = b]
  BY <1>1, <1>2
<1>5. b \in Peer /\ b.sending = remote[c].sending /\ b.woken = remote[c].woken
  BY <1>2 DEF Peer
<1>6. /\ remote' \in [ChannelId -> Peer] /\ (\A d \in ChannelId : d # c => remote'[d] = remote[d])
      /\ remote'[c] = b
  <2> HIDE DEF b
  <2> QED
    BY <1>2, <1>4, <1>5
<1>7. SameElsewhere(c)
  BY <1>1, <1>6, Elsewhere
<1>8. x.channel = c /\ x.context = channels[c].context
  OBVIOUS
<1> HIDE DEF frame, x, b
<1>9. CASE channels[c].failed
  <2>1. UNCHANGED <<channels, received, receiveMessages, queuedBytes, receiveBytes, pendingWork, pendingReceive>>
    BY <1>1, <1>8, <1>9 DEF ReceiveFrame, Serves
  <2> QED
    BY <1>1, <1>7, <1>9, <2>1 DEF Ignores
<1>10. CASE ~channels[c].failed
  <2>1. ReceiveDatagram(c, frame)
    BY <1>1, <1>3, <1>8, <1>10 DEF ReceiveFrame, Serves
  <2>2. CASE frame.total <= MaxBytes - ReserveBytes - receiveBytes /\ HasPlace("datagram")
    <3>1. /\ Complete(c, frame) /\ receiveBytes' = receiveBytes + frame.total
          /\ UNCHANGED <<channels, pendingWork, queuedBytes>>
      BY <2>1, <2>2 DEF ReceiveDatagram
    <3>2. Posts(c, frame)
      BY <1>1, <1>3, <1>5, <1>6, <1>7, <1>10, <2>2, <3>1 DEF Posts
    <3> QED
      BY <1>3, <3>2
  <2>3. CASE ~(frame.total <= MaxBytes - ReserveBytes - receiveBytes /\ HasPlace("datagram"))
    <3>1. Failing(c)
      BY <2>1, <2>3 DEF ReceiveDatagram
    <3>2. UNCHANGED <<updating, nextContext>> /\ SendsPart(c)
      BY <1>1 DEF SendsPart
    <3> QED
      BY <1>1, <1>7, <3>1, <3>2, FailsIs
  <2> QED
    BY <2>2, <2>3
<1> QED
  BY <1>9, <1>10

LEMMA WakeUpIs ==
    ASSUME BinaryType, NEW c \in ChannelId, WakeUp(c)
    PROVE  WakesOne(c)
<1>1. remote' = [remote EXCEPT ![c].woken = @ + 1] /\ UNCHANGED sent
  BY DEF WakeUp
<1>2. remote[c] \in Peer /\ remote[c].woken \in Nat /\ remote \in [ChannelId -> Peer]
  BY DEF BinaryType, WireType, Peer
<1> DEFINE b == [remote[c] EXCEPT !.woken = remote[c].woken + 1]
<1>3. remote' = [remote EXCEPT ![c] = b]
  BY <1>1, <1>2
<1>4. b \in Peer /\ b.sending = remote[c].sending /\ b.woken = remote[c].woken + 1
  BY <1>2 DEF Peer
<1> HIDE DEF b
<1>5. /\ remote' \in [ChannelId -> Peer] /\ (\A d \in ChannelId : d # c => remote'[d] = remote[d])
      /\ remote'[c] = b
  BY <1>2, <1>3, <1>4
<1> QED
  BY <1>1, <1>4, <1>5, Elsewhere DEF WakesOne

LEMMA BreaksIs ==
    ASSUME BinaryType, NEW c \in ChannelId, NEW size \in Nat, SendControlBreaks(c, size)
    PROVE  Fails(c)
<1>1. Failing(c) /\ UNCHANGED <<nextContext, updating, remote>> /\ NotInUpdate /\ ~channels[c].failed
  BY DEF SendControlBreaks, CanSend
<1>2. channels[c].context # 0
  BY DEF SendControlBreaks, CanSend, Attached
<1>3. PICK done \in 0 .. size :
        IF done = 0 THEN UNCHANGED sent ELSE Sent(c, "control", channels[c].next + 1, done, size)
  BY DEF SendControlBreaks
<1>4. channels[c].next + 1 \in Nat /\ done \in Nat
  BY ChannelTypes DEF BinaryType, ChannelsType
<1>5. CASE done = 0
  <2>1. SameElsewhere(c)
    BY <1>1, <1>3, <1>5, Elsewhere
  <2>2. SendsPart(c)
    BY <1>3, <1>5 DEF SendsPart
  <2> QED
    BY <1>1, <1>2, <2>1, <2>2, FailsIs
<1>6. CASE done # 0
  <2>1. sent' \in [ChannelId -> LastSent] /\ \A d \in ChannelId : d # c => sent'[d] = sent[d]
    BY <1>3, <1>4, <1>6, SentEffect DEF Kind, Lane
  <2>2. SameElsewhere(c)
    BY <1>1, <2>1, Elsewhere
  <2>3. SendsPart(c)
    BY <1>1, <1>3, <1>4, <1>6 DEF SendsPart
  <2> QED
    BY <1>1, <1>2, <2>2, <2>3, FailsIs
<1> QED
  BY <1>5, <1>6

LEMMA ExpiresIs ==
    ASSUME BinaryType, Expires
    PROVE  \E c \in ChannelId : Releases(c, "datagram")
<1> DEFINE c == updating.channel
           m == Head(channels[c].outgoing["datagram"])
<1>1. c \in ChannelId
  BY DEF BinaryType, UpdateType, Expires, NotInUpdate, ChannelId
<1>2. /\ ~NotInUpdate /\ ~channels[c].failed /\ channels[c].outgoing["datagram"] # << >>
      /\ queuedBytes' = queuedBytes - m.size
      /\ channels' = [channels EXCEPT
            ![c].outgoing["datagram"] = Tail(@), ![c].bytes = @ - m.size, ![c].messages = @ - 1]
      /\ UNCHANGED <<received, receiveMessages, receiveBytes, nextContext, pendingWork, pendingReceive, updating, sent, remote>>
  BY DEF Expires, Flushing
<1>3. /\ Others(c) /\ Dequeued(channels[c], channels'[c], "datagram")
      /\ channels'[c].preferUnreliable = channels[c].preferUnreliable
  <2> HIDE DEF c
  <2> QED
    BY <1>1, <1>2, ExpireEffect
<1>4. SameElsewhere(c)
  <2> HIDE DEF c
  <2> QED
    BY <1>1, <1>2, Elsewhere
<1>5. Releases(c, "datagram")
  BY <1>2, <1>3, <1>4 DEF Releases
<1> QED
  BY <1>1, <1>5

LEMMA FlushFailsIs ==
    ASSUME BinaryType, ErasedInv, WorkInv, FlushFails
    PROVE  \E c \in ChannelId : Fails(c)
<1> DEFINE c == updating.channel
<1>1. c \in ChannelId /\ ~NotInUpdate
  BY DEF BinaryType, UpdateType, FlushFails, NotInUpdate, ChannelId
<1>2. Failing(c) /\ UNCHANGED <<nextContext, updating, sent, remote>>
  BY DEF FlushFails
<1>3. channels[c].context # 0
  BY <1>1 DEF WorkInv, NotInUpdate, Attached
<1>4. c = updating.channel
  OBVIOUS
<1> HIDE DEF c
<1>5. SameElsewhere(c) /\ SendsPart(c)
  BY <1>1, <1>2, Elsewhere DEF SendsPart
<1>6. Fails(c)
  BY <1>1, <1>2, <1>3, <1>4, <1>5, FailsIs
<1> QED
  BY <1>1, <1>6

(* Every step is one of these.                                               *)
LEMMA BinarySteps ==
    ASSUME BinaryType, ErasedInv, WorkInv, BinaryNext
    PROVE  Rests \/ PollBulk \/ \E c \in ChannelId : Does(c)
<1>0. Sizes \subseteq Nat
  BY BinaryAssumption
<1>1. ASSUME NEW c \in ChannelId, Attach(c) \/ AttachRefused(c) \/ Detach(c) \/ InvalidFrame(c) \/ WakeUp(c)
      PROVE  Rests \/ Does(c)
  <2>1. CASE Attach(c)
    BY <2>1 DEF Does
  <2>2. CASE AttachRefused(c)
    BY <2>2 DEF AttachRefused, Rests, Turns
  <2>3. CASE Detach(c)
    BY <2>3 DEF Does
  <2>4. CASE InvalidFrame(c)
    <3>1. /\ Failing(c) /\ UNCHANGED <<nextContext, updating, sent, remote>> /\ NotInUpdate
          /\ channels[c].context # 0
      BY <2>4 DEF InvalidFrame, Attached
    <3>2. SameElsewhere(c) /\ SendsPart(c)
      BY <3>1, Elsewhere DEF SendsPart
    <3>3. Fails(c)
      BY <3>1, <3>2, FailsIs
    <3> QED
      BY <3>3 DEF Does
  <2>5. CASE WakeUp(c)
    BY <2>5, WakeUpIs DEF Does
  <2> QED
    BY <1>1, <2>1, <2>2, <2>3, <2>4, <2>5
<1>2. ASSUME NEW c \in ChannelId, NEW size \in Sizes,
             \/ SendControl(c, size) \/ SendControlBreaks(c, size)
             \/ \E lane \in OutLane : SendBinary(c, lane, size)
             \/ \E lane \in Lane : RemoteSends(c, lane, size)
             \/ RemoteSendsDatagram(c, size)
      PROVE  Does(c)
  <2>0. size \in Nat
    BY <1>0
  <2>1. CASE SendControl(c, size)
    BY <2>0, <2>1, SendControlIs DEF Does
  <2>2. CASE SendControlBreaks(c, size)
    BY <2>0, <2>2, BreaksIs DEF Does
  <2>3. ASSUME NEW lane \in OutLane, SendBinary(c, lane, size) PROVE Does(c)
    <3>1. Holds(c, lane, size)
      BY <2>0, <2>3, SendBinaryEffect DEF Holds
    <3> QED
      BY <2>0, <3>1 DEF Does
  <2>4. ASSUME NEW lane \in Lane, RemoteSends(c, lane, size) PROVE Does(c)
    <3>1. Ignores(c) \/ Fails(c) \/ Hears(c, lane, size)
      BY <2>0, <2>4, RemoteSendsIs
    <3> QED
      BY <2>0, <3>1 DEF Does
  <2>5. CASE RemoteSendsDatagram(c, size)
    <3>1. Ignores(c) \/ Fails(c) \/ \E frame \in Frame : Posts(c, frame)
      BY <2>0, <2>5, DatagramIs
    <3> QED
      BY <3>1 DEF Does
  <2> QED
    BY <1>2, <2>1, <2>2, <2>3, <2>4, <2>5
<1>3. ASSUME NEW c \in ChannelId, NEW n \in 1 .. nextContext - 1, NEW lane \in Kind, NEW size \in Sizes,
             LateFrame([channel |-> c, context |-> n], lane, size)
      PROVE  Rests
  <2>1. UNCHANGED <<channels, received, receiveMessages, queuedBytes, receiveBytes, pendingWork, pendingReceive,
                    nextContext, updating, sent, remote>>
    BY <1>3 DEF LateFrame, ReceiveFrame, Serves
  <2> QED
    BY <2>1 DEF Rests, Turns
<1>4. ASSUME Update PROVE Rests \/ \E c \in ChannelId : Does(c)
  <2>1. CASE UpdateNothing
    BY <2>1 DEF UpdateNothing, Rests, Turns
  <2>2. CASE UpdateStarts
    BY <2>2 DEF UpdateStarts, Rests, Turns
  <2>3. CASE UpdateReports
    BY <2>3 DEF UpdateReports, Rests, Turns
  <2>4. CASE FlushFails
    BY <2>4, FlushFailsIs DEF Does
  <2>5. CASE Expires
    <3>1. "datagram" \in OutLane
      BY DEF OutLane
    <3> QED
      BY <2>5, <3>1, ExpiresIs DEF Does
  <2>6. CASE SendFrame
    BY <2>6, SendFrameIs DEF Does
  <2>7. CASE FlushEnds
    BY <2>7 DEF FlushEnds, Rests, Turns
  <2> QED
    BY <1>4, <2>1, <2>2, <2>3, <2>4, <2>5, <2>6, <2>7 DEF Update
<1> QED
  BY <1>1, <1>2, <1>3, <1>4 DEF BinaryNext

(***************************************************************************)
(* Types.                                                                   *)
(***************************************************************************)
Mine(c, q) == Keeping(q, OfChannel(c, q))
NotMine(c, q) == Keeping(q, (DOMAIN q) \ OfChannel(c, q))

(* A queue and what is left of it without the messages of a channel.         *)
LEMMA MineFacts ==
    ASSUME NEW q \in Seq(Delivered), NEW c
    PROVE  /\ Mine(c, q) \in Seq(Delivered) /\ NotMine(c, q) \in Seq(Delivered)
           /\ Len(Mine(c, q)) + Len(NotMine(c, q)) = Len(q)
           /\ SumBytes(Mine(c, q)) + SumBytes(NotMine(c, q)) = SumBytes(q)
           /\ SumBytes(Mine(c, q)) \in Nat /\ SumBytes(NotMine(c, q)) \in Nat
           /\ Thinned(NotMine(c, q), q, (1 .. Len(q)) \ OfChannel(c, q))
<1>1. DOMAIN q = 1 .. Len(q) /\ OfChannel(c, q) \in SUBSET (1 .. Len(q))
  BY DEF OfChannel
<1> DEFINE I == OfChannel(c, q)
           J == (1 .. Len(q)) \ I
<1>2. Mine(c, q) = Keeping(q, I) /\ NotMine(c, q) = Keeping(q, J)
  BY <1>1 DEF Mine, NotMine
<1>3. I \in SUBSET (1 .. Len(q)) /\ J \in SUBSET (1 .. Len(q))
  BY <1>1
<1>4. \A m \in Delivered : m.size \in Nat
  BY DEF Delivered
<1> HIDE DEF I
<1>5. /\ Keeping(q, I) \in Seq(Delivered) /\ Keeping(q, J) \in Seq(Delivered)
      /\ Thinned(Keeping(q, J), q, J)
  BY <1>3, KeepingFacts
<1>6. /\ Len(Keeping(q, I)) + Len(Keeping(q, J)) = Len(q)
      /\ SumBytes(Keeping(q, I)) + SumBytes(Keeping(q, J)) = SumBytes(q)
  BY <1>3, <1>4, KeepingSplits
<1>7. SumBytes(Keeping(q, I)) \in Nat /\ SumBytes(Keeping(q, J)) \in Nat
  BY <1>4, <1>5, BytesType
<1> QED
  BY <1>2, <1>5, <1>6, <1>7 DEF I

LEMMA DetachEffect ==
    ASSUME BinaryType, NEW c \in ChannelId, Detach(c)
    PROVE  /\ channels' \in [ChannelId -> Channel] /\ Others(c) /\ channels'[c] = Unattached
           /\ received' \in [Lane -> Seq(Delivered)]
           /\ \A l \in Lane : received'[l] = NotMine(c, received[l])
           /\ queuedBytes' = queuedBytes - channels[c].bytes
           /\ receiveMessages' = (receiveMessages - Len(Mine(c, received["control"]))) - Len(Mine(c, received["bulk"]))
           /\ receiveBytes' = ((receiveBytes - AssembledBytes(channels[c])) - SumBytes(Mine(c, received["control"])))
                                - SumBytes(Mine(c, received["bulk"]))
           /\ pendingReceive' = (receiveMessages' # 0)
           /\ AssembledBytes(channels[c]) \in Nat
           /\ SameElsewhere(c) /\ sent'[c] = NothingSent /\ remote'[c] = NewRemote
           /\ NotInUpdate /\ UNCHANGED <<nextContext, updating>>
           /\ pendingWork' = (pendingWork /\ Attached # {c})
<1>1. channels' \in [ChannelId -> Channel] /\ Others(c) /\ channels'[c] = Unattached
  BY BlankTypes, ReplaceEffect DEF Detach
<1>2. /\ received' = [l \in Lane |-> NotMine(c, received[l])]
      /\ queuedBytes' = queuedBytes - channels[c].bytes
      /\ receiveMessages' = (receiveMessages - Len(Mine(c, received["control"]))) - Len(Mine(c, received["bulk"]))
      /\ receiveBytes' = ((receiveBytes - AssembledBytes(channels[c])) - SumBytes(Mine(c, received["control"])))
                                - SumBytes(Mine(c, received["bulk"]))
      /\ pendingReceive' = (receiveMessages' # 0)
  BY DEF Detach, Discard, Mine, NotMine
<1>3. \A l \in Lane : received[l] \in Seq(Delivered)
  BY DEF BinaryType, ReceiveType
<1>4. received' \in [Lane -> Seq(Delivered)] /\ \A l \in Lane : received'[l] = NotMine(c, received[l])
  BY <1>2, <1>3, MineFacts
<1>5. AssembledBytes(channels[c]) \in Nat
  <2>1. channels[c] \in Channel
    BY DEF BinaryType, ChannelsType
  <2>2. channels[c].incoming["control"] \in Assembly /\ channels[c].incoming["bulk"] \in Assembly
    BY <2>1, ChannelTypes
  <2> QED
    BY <2>2 DEF AssembledBytes, Assembly
<1>6. SameElsewhere(c) /\ sent'[c] = NothingSent /\ remote'[c] = NewRemote
  <2>1. sent' = [sent EXCEPT ![c] = NothingSent] /\ remote' = [remote EXCEPT ![c] = NewRemote]
    BY DEF Detach
  <2> QED
    BY <2>1, BlankTypes DEF SameElsewhere, BinaryType, WireType
<1>7. /\ NotInUpdate /\ UNCHANGED <<nextContext, updating>>
      /\ pendingWork' = (pendingWork /\ Attached # {c})
  BY DEF Detach
<1> QED
  BY <1>1, <1>2, <1>4, <1>5, <1>6, <1>7

LEMMA AttachEffect ==
    ASSUME BinaryType, NEW c \in ChannelId, Attach(c)
    PROVE  /\ channels' \in [ChannelId -> Channel] /\ Others(c)
           /\ channels'[c] = [Unattached EXCEPT !.context = nextContext]
           /\ channels'[c].context = nextContext /\ nextContext # 0
           /\ KeepsQueues(Unattached, channels'[c]) /\ channels'[c].incoming = Unattached.incoming
           /\ channels'[c].failed = FALSE /\ channels'[c].next = 0 /\ channels'[c].preferUnreliable = TRUE
           /\ SameElsewhere(c) /\ sent'[c] = NothingSent /\ remote'[c] = NewRemote
           /\ nextContext' \in Nat \ {0}
           /\ channels[c].context = 0 /\ NotInUpdate
           /\ UNCHANGED <<received, receiveMessages, queuedBytes, receiveBytes, pendingWork, pendingReceive, updating>>
<1> DEFINE b == [Unattached EXCEPT !.context = nextContext]
<1>1. nextContext \in Nat \ {0}
  BY DEF BinaryType, ChannelsType
<1>2. b \in Channel /\ b.context = nextContext /\ KeepsQueues(Unattached, b) /\ b.incoming = Unattached.incoming
      /\ b.failed = FALSE /\ b.next = 0 /\ b.preferUnreliable = TRUE
  <2>1. Unattached \in Channel /\ Unattached.failed = FALSE /\ Unattached.next = 0 /\ Unattached.preferUnreliable = TRUE
    BY BlankTypes DEF Unattached
  <2> QED
    BY <1>1, <2>1 DEF Channel, KeepsQueues
<1>3. channels' = [channels EXCEPT ![c] = b]
  BY DEF Attach
<1> HIDE DEF b
<1>4. channels' \in [ChannelId -> Channel] /\ Others(c) /\ channels'[c] = b
  BY <1>2, <1>3, ReplaceEffect
<1>5. SameElsewhere(c) /\ sent'[c] = NothingSent /\ remote'[c] = NewRemote
  <2>1. sent' = [sent EXCEPT ![c] = NothingSent] /\ remote' = [remote EXCEPT ![c] = NewRemote]
    BY DEF Attach
  <2> QED
    BY <2>1, BlankTypes DEF SameElsewhere, BinaryType, WireType
<1>6. /\ nextContext' = nextContext + 1 /\ channels[c].context = 0 /\ NotInUpdate
      /\ UNCHANGED <<received, receiveMessages, queuedBytes, receiveBytes, pendingWork, pendingReceive, updating>>
  BY DEF Attach, CanAttach
<1> QED
  BY <1>1, <1>2, <1>4, <1>5, <1>6 DEF b

\* A message is added to a lane of the receive queue, or taken out of it.
LEMMA CompleteEffect ==
    ASSUME BinaryType, NEW c \in ChannelId, NEW frame \in Frame, Complete(c, frame)
    PROVE  \E m \in Delivered : \E lane \in Lane :
             /\ lane = LaneOf(frame.kind)
             /\ m.channel = c /\ m.id = frame.id /\ m.size = frame.total
             /\ received' \in [Lane -> Seq(Delivered)]
             /\ received'[lane] = Append(received[lane], m)
             /\ \A l \in Lane : l # lane => received'[l] = received[l]
             /\ receiveMessages' = receiveMessages + 1 /\ pendingReceive' = TRUE
<1> DEFINE m == [channel |-> c, kind |-> frame.kind, id |-> frame.id, size |-> frame.total]
           lane == LaneOf(frame.kind)
<1>1. m \in Delivered /\ m.channel = c /\ m.id = frame.id /\ m.size = frame.total
  BY DEF Delivered, Frame
<1>2. lane \in Lane
  BY DEF LaneOf, Lane
<1>3. received \in [Lane -> Seq(Delivered)]
  BY DEF BinaryType, ReceiveType
<1>4. received' = [received EXCEPT ![lane] = Append(@, m)] /\ receiveMessages' = receiveMessages + 1 /\ pendingReceive' = TRUE
  BY DEF Complete
<1>5. lane = LaneOf(frame.kind)
  OBVIOUS
<1> HIDE DEF m, lane
<1>6. /\ received' \in [Lane -> Seq(Delivered)]
      /\ received'[lane] = Append(received[lane], m)
      /\ \A l \in Lane : l # lane => received'[l] = received[l]
  BY <1>1, <1>2, <1>3, <1>4
<1> QED
  BY <1>1, <1>2, <1>4, <1>5, <1>6

LEMMA TakenEffect ==
    ASSUME BinaryType, NEW lane \in Lane, NEW i \in 1 .. Len(received[lane]), Taken(lane, i)
    PROVE  /\ received' \in [Lane -> Seq(Delivered)]
           /\ received'[lane] = RemoveAt(received[lane], i)
           /\ Len(received'[lane]) = Len(received[lane]) - 1
           /\ \A j \in 1 .. (Len(received[lane]) - 1) :
                received'[lane][j] = IF j < i THEN received[lane][j] ELSE received[lane][j + 1]
           /\ Thinned(received'[lane], received[lane], (1 .. Len(received[lane])) \ {i})
           /\ \A l \in Lane : l # lane => received'[l] = received[l]
           /\ received[lane][i] \in Delivered /\ received[lane][i].size \in Nat
           /\ receiveBytes' = receiveBytes - received[lane][i].size
           /\ receiveMessages' = receiveMessages - 1
           /\ pendingReceive' = (receiveMessages' # 0)
<1>1. received \in [Lane -> Seq(Delivered)] /\ received[lane] \in Seq(Delivered)
  BY DEF BinaryType, ReceiveType
<1>2. /\ received' = [received EXCEPT ![lane] = RemoveAt(@, i)]
      /\ receiveBytes' = receiveBytes - received[lane][i].size
      /\ receiveMessages' = receiveMessages - 1
      /\ pendingReceive' = (receiveMessages' # 0)
  BY DEF Taken
<1> DEFINE q == received[lane]
           r == RemoveAt(q, i)
<1>3. received' = [received EXCEPT ![lane] = r]
  BY <1>1, <1>2
<1> HIDE DEF q
<1>4. q \in Seq(Delivered) /\ i \in 1 .. Len(q)
  BY <1>1 DEF q
<1>5. /\ r \in Seq(Delivered) /\ Len(r) = Len(q) - 1
      /\ \A j \in 1 .. (Len(q) - 1) : r[j] = IF j < i THEN q[j] ELSE q[j + 1]
      /\ Thinned(r, q, (1 .. Len(q)) \ {i})
  BY <1>4, RemovedAt
<1>6. q[i] \in Delivered
  BY <1>4
<1>7. q[i].size \in Nat
  BY <1>6 DEF Delivered
<1>8. r = RemoveAt(received[lane], i)
  BY DEF q
<1> HIDE DEF r
<1>9. received' \in [Lane -> Seq(Delivered)] /\ received'[lane] = r /\ \A l \in Lane : l # lane => received'[l] = received[l]
  BY <1>1, <1>3, <1>5
<1> QED
  BY <1>2, <1>5, <1>6, <1>7, <1>8, <1>9 DEF q

LEMMA FirstControlIs ==
    ASSUME BinaryType, NEW c \in ChannelId, ControlOf(c) # {}
    PROVE  /\ FirstControl(c) \in 1 .. Len(received["control"])
           /\ received["control"][FirstControl(c)].channel = c
           /\ \A j \in 1 .. Len(received["control"]) : received["control"][j].channel = c => FirstControl(c) <= j
<1>1. received["control"] \in Seq(Delivered)
  BY DEF BinaryType, ReceiveType, Lane
<1>2. ControlOf(c) = {i \in 1 .. Len(received["control"]) : received["control"][i].channel = c}
  BY <1>1 DEF ControlOf, OfChannel
<1>3. ControlOf(c) \in SUBSET Nat
  BY <1>2
<1>4. \E i \in ControlOf(c) : \A j \in ControlOf(c) : i <= j
  BY <1>3, LeastNumber
<1>5. FirstControl(c) \in ControlOf(c) /\ \A j \in ControlOf(c) : FirstControl(c) <= j
  BY <1>4 DEF FirstControl
<1> QED
  BY <1>2, <1>5

LEMMA FirstFromIs ==
    ASSUME BinaryType, NEW c \in Nat, NEW d \in Attached, d >= c
    PROVE  FirstFrom(c) \in Attached /\ FirstFrom(c) >= c /\ \A e \in Attached : e >= c => FirstFrom(c) <= e
<1> DEFINE S == {e \in Attached : e >= c}
<1>1. S \in SUBSET Nat /\ S # {}
  BY BlankTypes DEF Attached, ChannelId
<1>2. PICK m \in S : \A k \in S : m <= k
  BY <1>1, LeastNumber
<1>3. m \in Attached /\ m >= c /\ \A e \in Attached : e >= c => m <= e
  BY <1>2
<1> QED
  BY <1>3 DEF FirstFrom

(* Every step keeps the types.                                               *)
LEMMA BinaryTypeStep ==
    ASSUME BinaryType, ErasedInv, WorkInv, [BinaryNext]_binaryVars
    PROVE  BinaryType'
<1>1. CASE UNCHANGED binaryVars
  BY <1>1 DEF binaryVars, BinaryType, ChannelsType, ReceiveType, UpdateType, WireType
<1>2. CASE Rests
  <2>1. ChannelsType' /\ ReceiveType' /\ WireType'
    BY <1>2 DEF Rests, BinaryType, ChannelsType, ReceiveType, WireType
  <2>2. UpdateType'
    <3>1. NoUpdateRuns \in [channel : 0 .. MaxChannels, work : BOOLEAN]
      BY BlankTypes DEF NoUpdateRuns
    <3>2. CASE UpdateNothing
      BY <3>2 DEF UpdateNothing, BinaryType, UpdateType
    <3>3. CASE UpdateStarts
      <4>1. PICK d \in Attached : TRUE
        BY <3>3 DEF UpdateStarts
      <4>2. d >= 1 /\ 1 \in Nat
        BY <4>1, BlankTypes DEF Attached, ChannelId
      <4>3. FirstFrom(1) \in Attached
        BY <4>1, <4>2, FirstFromIs
      <4>4. FirstFrom(1) \in 0 .. MaxChannels
        BY <4>3, BlankTypes DEF Attached, ChannelId
      <4> QED
        BY <3>3, <4>4 DEF UpdateStarts, BinaryType, UpdateType
    <3>4. CASE UpdateReports
      BY <3>1, <3>4 DEF UpdateReports, BinaryType, UpdateType
    <3>5. CASE FlushEnds
      <4> DEFINE u == updating.channel
                 rest == {d \in Attached : d > u}
                 work == updating.work \/ HasWork(Flushing)
      <4>1. IF rest = {}
            THEN updating' = NoUpdateRuns /\ pendingWork' = work
            ELSE updating' = [channel |-> FirstFrom(u + 1), work |-> work] /\ UNCHANGED pendingWork
        BY <3>5 DEF FlushEnds
      <4>2. work \in BOOLEAN /\ u \in 0 .. MaxChannels
        BY DEF BinaryType, UpdateType
      <4>3. CASE rest = {}
        BY <3>1, <4>1, <4>2, <4>3 DEF UpdateType
      <4>4. CASE rest # {}
        <5>1. PICK d \in Attached : d > u
          BY <4>4
        <5>2. d >= u + 1 /\ u + 1 \in Nat
          BY <4>2, <5>1, BlankTypes DEF Attached, ChannelId
        <5>3. FirstFrom(u + 1) \in Attached
          BY <5>1, <5>2, FirstFromIs
        <5>4. FirstFrom(u + 1) \in 0 .. MaxChannels
          BY <5>3, BlankTypes DEF Attached, ChannelId
        <5>5. updating' = [channel |-> FirstFrom(u + 1), work |-> work] /\ UNCHANGED pendingWork
          BY <4>1, <4>4
        <5> HIDE DEF work
        <5> QED
          BY <4>2, <5>4, <5>5 DEF BinaryType, UpdateType
      <4> QED
        BY <4>3, <4>4
    <3>6. CASE UNCHANGED <<updating, pendingWork>>
      BY <3>6 DEF BinaryType, UpdateType
    <3> QED
      BY <1>2, <3>2, <3>3, <3>4, <3>5, <3>6 DEF Rests, Turns
  <2> QED
    BY <2>1, <2>2 DEF BinaryType
<1>3. CASE PollBulk
  <2>1. "bulk" \in Lane /\ received["bulk"] \in Seq(Delivered) /\ received["bulk"] # << >> /\ Taken("bulk", 1)
    BY <1>3 DEF PollBulk, Lane, BinaryType, ReceiveType
  <2>2. 1 \in 1 .. Len(received["bulk"])
    BY <2>1
  <2>3. ReceiveType'
    <3>1. /\ received' \in [Lane -> Seq(Delivered)]
          /\ received["bulk"][1].size \in Nat
          /\ receiveBytes' = receiveBytes - received["bulk"][1].size
          /\ receiveMessages' = receiveMessages - 1 /\ pendingReceive' = (receiveMessages' # 0)
      BY <2>1, <2>2, TakenEffect
    <3> QED
      BY <1>3, <3>1 DEF PollBulk, BinaryType, ReceiveType
  <2> QED
    BY <1>3, <2>3 DEF PollBulk, BinaryType, ChannelsType, UpdateType, WireType
<1>4. ASSUME NEW c \in ChannelId, Does(c) PROVE BinaryType'
  <2>1. CASE Ignores(c)
    BY <2>1 DEF Ignores, SameElsewhere, BinaryType, ChannelsType, ReceiveType, UpdateType, WireType
  <2>2. CASE Attach(c)
    <3>1. /\ channels' \in [ChannelId -> Channel] /\ nextContext' \in Nat \ {0} /\ SameElsewhere(c)
          /\ UNCHANGED <<received, receiveMessages, queuedBytes, receiveBytes, pendingWork, pendingReceive, updating>>
      BY <2>2, AttachEffect
    <3> QED
      BY <3>1 DEF SameElsewhere, BinaryType, ChannelsType, ReceiveType, UpdateType, WireType
  <2>3. CASE Detach(c)
    <3>1. /\ channels' \in [ChannelId -> Channel] /\ SameElsewhere(c)
          /\ received' \in [Lane -> Seq(Delivered)]
          /\ queuedBytes' = queuedBytes - channels[c].bytes
          /\ receiveMessages' = (receiveMessages - Len(Mine(c, received["control"]))) - Len(Mine(c, received["bulk"]))
          /\ receiveBytes' = ((receiveBytes - AssembledBytes(channels[c])) - SumBytes(Mine(c, received["control"])))
                                - SumBytes(Mine(c, received["bulk"]))
          /\ pendingReceive' = (receiveMessages' # 0)
          /\ AssembledBytes(channels[c]) \in Nat
          /\ UNCHANGED <<nextContext, updating>>
          /\ pendingWork' = (pendingWork /\ Attached # {c})
      BY <2>3, DetachEffect
    <3>2. received["control"] \in Seq(Delivered) /\ received["bulk"] \in Seq(Delivered)
      BY DEF BinaryType, ReceiveType, Lane
    <3>3. /\ SumBytes(Mine(c, received["control"])) \in Nat /\ SumBytes(Mine(c, received["bulk"])) \in Nat
          /\ Mine(c, received["control"]) \in Seq(Delivered) /\ Mine(c, received["bulk"]) \in Seq(Delivered)
      BY <3>2, MineFacts
    <3>4. Len(Mine(c, received["control"])) \in Nat /\ Len(Mine(c, received["bulk"])) \in Nat
      BY <3>3
    <3>5. channels[c].bytes \in Int
      BY ChannelTypes DEF BinaryType, ChannelsType
    <3>6. receiveMessages' \in Int /\ receiveBytes' \in Int /\ queuedBytes' \in Int
      <4>1. receiveMessages \in Int /\ receiveBytes \in Int /\ queuedBytes \in Int
        BY DEF BinaryType, ReceiveType
      <4>2. receiveMessages' \in Int
        BY <3>1, <3>4, <4>1
      <4>3. receiveBytes' \in Int
        BY <3>1, <3>3, <4>1
      <4>4. queuedBytes' \in Int
        BY <3>1, <3>5, <4>1
      <4> QED
        BY <4>2, <4>3, <4>4
    <3>7. ChannelsType' /\ ReceiveType'
      BY <3>1, <3>6 DEF BinaryType, ChannelsType, ReceiveType
    <3> QED
      BY <3>1, <3>7 DEF SameElsewhere, BinaryType, UpdateType, WireType
  <2>4. CASE Fails(c)
    BY <2>4 DEF Fails, Refuses, Rest4, SameElsewhere, BinaryType, ChannelsType, ReceiveType, UpdateType, WireType
  <2>5. CASE WakesOne(c)
    <3>1. /\ PayloadWaits(c, remote[c].woken + 1) /\ Taken("control", FirstControl(c)) /\ SameElsewhere(c)
          /\ UNCHANGED <<channels, queuedBytes, nextContext, pendingWork, updating>>
      BY <2>5 DEF WakesOne, WakeUp
    <3>2. FirstControl(c) \in 1 .. Len(received["control"]) /\ "control" \in Lane
      BY <3>1, FirstControlIs DEF PayloadWaits, Lane
    <3>3. /\ received' \in [Lane -> Seq(Delivered)]
          /\ received["control"][FirstControl(c)].size \in Nat
          /\ receiveBytes' = receiveBytes - received["control"][FirstControl(c)].size
          /\ receiveMessages' = receiveMessages - 1 /\ pendingReceive' = (receiveMessages' # 0)
      BY <3>1, <3>2, TakenEffect
    <3>4. ReceiveType'
      BY <3>1, <3>3 DEF BinaryType, ReceiveType
    <3> QED
      BY <3>1, <3>4 DEF SameElsewhere, BinaryType, ChannelsType, UpdateType, WireType
  <2>6. ASSUME NEW size \in Nat, Sends(c, size) PROVE BinaryType'
    <3>1. channels' \in [ChannelId -> Channel]
      BY <2>6, SendControlEffect DEF Sends, SendControl
    <3> QED
      BY <2>6, <3>1 DEF Sends, SendControl, SameElsewhere, BinaryType, ChannelsType, ReceiveType, UpdateType, WireType
  <2>7. ASSUME NEW size \in Nat, NEW lane \in OutLane, Holds(c, lane, size) PROVE BinaryType'
    <3>1. channels' \in [ChannelId -> Channel]
      BY <2>7, SendBinaryEffect DEF Holds
    <3>2. queuedBytes' = queuedBytes + size /\ queuedBytes' \in Int
      BY <2>7 DEF Holds, SendBinary, BinaryType, ReceiveType
    <3> QED
      BY <2>7, <3>1, <3>2 DEF Holds, SendBinary, BinaryType, ChannelsType, ReceiveType, UpdateType, WireType
  <2>8. ASSUME NEW size \in Nat, NEW lane \in Lane, Hears(c, lane, size) PROVE BinaryType'
    <3> DEFINE frame == FrameOf(remote[c], lane, size)
    <3>1. /\ frame \in Frame /\ Accepts(c, frame) /\ PeerSent(c, lane, size) /\ UNCHANGED <<nextContext, updating, sent>>
          /\ frame.kind = lane
      BY <2>8 DEF Hears, FrameOf
    <3> HIDE DEF frame
    <3>2. HeldFor(c, frame) \in Nat
      BY <3>1, BegunType
    <3>3. channels' \in [ChannelId -> Channel] /\ receiveBytes' \in Int /\ pendingWork' = TRUE
      BY <3>1, <3>2 DEF Accepts, Completes, Collects, BinaryType, ReceiveType
    <3>4. /\ received' \in [Lane -> Seq(Delivered)] /\ receiveMessages' \in Int /\ pendingReceive' \in BOOLEAN
          /\ queuedBytes' \in Int
      <4>1. CASE Completes(c, frame)
        <5>1. received' \in [Lane -> Seq(Delivered)] /\ receiveMessages' = receiveMessages + 1 /\ pendingReceive' = TRUE
          BY <3>1, <4>1, CompleteEffect DEF Completes
        <5> QED
          BY <4>1, <5>1 DEF Completes, BinaryType, ReceiveType
      <4>2. CASE Collects(c, frame)
        BY <4>2 DEF Collects, Rest4, BinaryType, ReceiveType
      <4> QED
        BY <3>1, <4>1, <4>2 DEF Accepts
    <3> QED
      BY <3>1, <3>3, <3>4 DEF PeerSent, BinaryType, ChannelsType, ReceiveType, UpdateType, WireType
  <2>9. ASSUME NEW lane \in OutLane, Releases(c, lane) PROVE BinaryType'
    <3>1. Head(channels[c].outgoing[lane]).size \in Nat
      <4>1. channels[c].outgoing[lane] \in Seq(Message) /\ channels[c].outgoing[lane] # << >>
        BY <2>9, ChannelTypes DEF Releases, Dequeued, BinaryType, ChannelsType
      <4>2. Head(channels[c].outgoing[lane]) \in Message
        BY <4>1
      <4> QED
        BY <4>2 DEF Message
    <3>2. channels' \in [ChannelId -> Channel]
      BY <2>9 DEF Releases, Others
    <3>3. queuedBytes' \in Int
      BY <2>9, <3>1 DEF Releases, BinaryType, ReceiveType
    <3> QED
      BY <2>9, <3>2, <3>3 DEF Releases, SameElsewhere, BinaryType, ChannelsType, ReceiveType, UpdateType, WireType
  <2>10. ASSUME NEW lane \in OutLane, Moves(c, lane) PROVE BinaryType'
    <3>1. channels' \in [ChannelId -> Channel]
      BY <2>10 DEF Moves, Others
    <3> QED
      BY <2>10, <3>1 DEF Moves, SameElsewhere, BinaryType, ChannelsType, ReceiveType, UpdateType, WireType
  <2>11. ASSUME NEW frame \in Frame, Posts(c, frame) PROVE BinaryType'
    <3>1. received' \in [Lane -> Seq(Delivered)] /\ receiveMessages' = receiveMessages + 1 /\ pendingReceive' = TRUE
      BY <2>11, CompleteEffect DEF Posts
    <3>2. receiveBytes' \in Int /\ receiveMessages' \in Int
      BY <2>11, <3>1 DEF Posts, Frame, BinaryType, ReceiveType
    <3> QED
      BY <2>11, <3>1, <3>2 DEF Posts, SameElsewhere, BinaryType, ChannelsType, ReceiveType, UpdateType, WireType
  <2> QED
    BY <1>4, <2>1, <2>2, <2>3, <2>4, <2>5, <2>6, <2>7, <2>8, <2>9, <2>10, <2>11 DEF Does
<1> QED
  BY <1>1, <1>2, <1>3, <1>4, BinarySteps

(***************************************************************************)
(* Erased channels.                                                         *)
(***************************************************************************)
LEMMA AttachedStays ==
    ASSUME NEW c \in ChannelId, Others(c), channels[c].context # 0, channels'[c].context = channels[c].context, ErasedInv,
           \A l \in Lane : \A i \in 1 .. Len(received'[l]) : received'[l][i].channel \in Attached
    PROVE  Attached' = Attached /\ ErasedInv'
<1>1. Attached' = Attached
  BY DEF Attached, Others
<1>2. \A d \in ChannelId : channels'[d].context = 0 => channels'[d] = Unattached
  BY DEF Others, ErasedInv
<1> QED
  BY <1>1, <1>2 DEF ErasedInv

LEMMA SentFrom ==
    ASSUME NEW c \in ChannelId, NEW lane \in Lane, NEW m \in Delivered, m.channel = c, c \in Attached, BinaryType, ErasedInv,
           received'[lane] = Append(received[lane], m),
           \A l \in Lane : l # lane => received'[l] = received[l]
    PROVE  \A l \in Lane : \A i \in 1 .. Len(received'[l]) : received'[l][i].channel \in Attached
<1>1. ASSUME NEW i \in 1 .. Len(received'[lane]) PROVE received'[lane][i].channel \in Attached
  <2> DEFINE q == received[lane]
  <2>1. q \in Seq(Delivered)
    BY DEF BinaryType, ReceiveType
  <2>2. \A j \in 1 .. Len(q) : q[j].channel \in Attached
    BY DEF ErasedInv
  <2> HIDE DEF q
  <2>3. received'[lane] = Append(q, m)
    BY DEF q
  <2>4. i \in 1 .. Len(q) \/ i = Len(q) + 1
    BY <1>1, <2>1, <2>3
  <2>5. CASE i \in 1 .. Len(q)
    <3>1. received'[lane][i] = q[i]
      BY <2>1, <2>3, <2>5
    <3> QED
      BY <2>2, <2>5, <3>1
  <2>6. CASE i = Len(q) + 1
    <3>1. received'[lane][i] = m
      BY <2>1, <2>3, <2>6
    <3> QED
      BY <3>1
  <2> QED
    BY <2>4, <2>5, <2>6
<1> QED
  BY <1>1 DEF ErasedInv

LEMMA ThinnedFrom ==
    ASSUME NEW q \in Seq(Delivered), NEW w, NEW I \in SUBSET (1 .. Len(q)), Thinned(w, q, I), NEW A,
           \A i \in I : q[i].channel \in A
    PROVE  \A i \in 1 .. Len(w) : w[i].channel \in A
<1>1. PICK m \in [1 .. Len(w) -> I] : \A i \in 1 .. Len(w) : w[i] = q[m[i]]
  BY DEF Thinned
<1> QED
  BY <1>1

LEMMA TakenFrom ==
    ASSUME NEW lane \in Lane, NEW i \in 1 .. Len(received[lane]), Taken(lane, i), BinaryType, ErasedInv
    PROVE  \A l \in Lane : \A j \in 1 .. Len(received'[l]) : received'[l][j].channel \in Attached
<1>1. /\ Thinned(received'[lane], received[lane], (1 .. Len(received[lane])) \ {i})
      /\ \A l \in Lane : l # lane => received'[l] = received[l]
  BY TakenEffect
<1>2. received[lane] \in Seq(Delivered)
  BY DEF BinaryType, ReceiveType
<1>3. \A j \in (1 .. Len(received[lane])) \ {i} : received[lane][j].channel \in Attached
  BY DEF ErasedInv
<1>4. \A j \in 1 .. Len(received'[lane]) : received'[lane][j].channel \in Attached
  <2> DEFINE q == received[lane]
             w == received'[lane]
             I == (1 .. Len(q)) \ {i}
             A == Attached
  <2>1. q \in Seq(Delivered) /\ I \in SUBSET (1 .. Len(q)) /\ Thinned(w, q, I) /\ \A j \in I : q[j].channel \in A
    BY <1>1, <1>2, <1>3
  <2> HIDE DEF q, w, I, A
  <2>2. \A j \in 1 .. Len(w) : w[j].channel \in A
    BY <2>1, ThinnedFrom
  <2> QED
    BY <2>2 DEF w, A
<1> QED
  BY <1>1, <1>4 DEF ErasedInv

(* Every step leaves nothing with an erased channel, and nothing of it.      *)
LEMMA ErasedStep ==
    ASSUME BinaryType, ErasedInv, WorkInv, [BinaryNext]_binaryVars
    PROVE  ErasedInv'
<1>1. CASE UNCHANGED binaryVars
  BY <1>1 DEF binaryVars, ErasedInv, Attached
<1>2. CASE Rests
  BY <1>2 DEF Rests, ErasedInv, Attached
<1>3. CASE PollBulk
  <2>1. "bulk" \in Lane /\ received["bulk"] \in Seq(Delivered) /\ received["bulk"] # << >> /\ Taken("bulk", 1)
    BY <1>3 DEF PollBulk, Lane, BinaryType, ReceiveType
  <2>2. 1 \in 1 .. Len(received["bulk"])
    BY <2>1
  <2>3. \A l \in Lane : \A j \in 1 .. Len(received'[l]) : received'[l][j].channel \in Attached
    BY <2>1, <2>2, TakenFrom
  <2>4. UNCHANGED channels
    BY <1>3 DEF PollBulk
  <2> QED
    BY <2>3, <2>4 DEF ErasedInv, Attached
<1>4. ASSUME NEW c \in ChannelId, Does(c) PROVE ErasedInv'
  <2>0. ASSUME UNCHANGED received PROVE \A l \in Lane : \A i \in 1 .. Len(received'[l]) : received'[l][i].channel \in Attached
    BY <2>0 DEF ErasedInv
  <2>1. CASE Ignores(c)
    BY <2>1 DEF Ignores, ErasedInv, Attached
  <2>2. CASE Attach(c)
    <3>1. /\ Others(c) /\ channels'[c].context # 0 /\ UNCHANGED received
      BY <2>2, AttachEffect
    <3>2. Attached \subseteq Attached'
      BY <3>1 DEF Others, Attached
    <3> QED
      BY <3>1, <3>2 DEF ErasedInv, Others
  <2>3. CASE Detach(c)
    <3>1. Others(c) /\ channels'[c] = Unattached /\ \A l \in Lane : received'[l] = NotMine(c, received[l])
      BY <2>3, DetachEffect
    <3>2. \A d \in ChannelId : channels'[d].context = 0 => channels'[d] = Unattached
      BY <3>1 DEF Others, ErasedInv
    <3>3. Attached \ {c} \subseteq Attached'
      BY <3>1 DEF Others, Attached
    <3>4. ASSUME NEW l \in Lane PROVE \A i \in 1 .. Len(received'[l]) : received'[l][i].channel \in Attached \ {c}
      <4> DEFINE q == received[l]
                 w == NotMine(c, q)
                 I == (1 .. Len(q)) \ OfChannel(c, q)
                 A == Attached \ {c}
      <4>1. q \in Seq(Delivered)
        BY DEF BinaryType, ReceiveType
      <4>2. Thinned(w, q, I)
        BY <4>1, MineFacts
      <4>3. \A i \in I : q[i].channel \in A
        BY <4>1 DEF ErasedInv, OfChannel
      <4>4. I \in SUBSET (1 .. Len(q))
        OBVIOUS
      <4>5. received'[l] = w
        BY <3>1
      <4> HIDE DEF q, w, I, A
      <4>6. \A i \in 1 .. Len(w) : w[i].channel \in A
        BY <4>1, <4>2, <4>3, <4>4, ThinnedFrom
      <4> QED
        BY <4>5, <4>6 DEF A
    <3> QED
      BY <3>2, <3>3, <3>4 DEF ErasedInv
  <2>4. CASE Fails(c)
    <3>1. Others(c) /\ channels[c].context # 0 /\ channels'[c].context = channels[c].context /\ UNCHANGED received
      BY <2>4 DEF Fails, Refuses, Broken, KeepsPlace, Rest4
    <3> QED
      BY <2>0, <3>1, AttachedStays
  <2>5. CASE WakesOne(c)
    <3>1. /\ PayloadWaits(c, remote[c].woken + 1) /\ Taken("control", FirstControl(c)) /\ UNCHANGED channels
      BY <2>5 DEF WakesOne, WakeUp
    <3>2. FirstControl(c) \in 1 .. Len(received["control"]) /\ "control" \in Lane
      BY <3>1, FirstControlIs DEF PayloadWaits, Lane
    <3>3. \A l \in Lane : \A j \in 1 .. Len(received'[l]) : received'[l][j].channel \in Attached
      BY <3>1, <3>2, TakenFrom
    <3> QED
      BY <3>1, <3>3 DEF ErasedInv, Attached
  <2>6. ASSUME NEW size \in Nat, Sends(c, size) PROVE ErasedInv'
    <3>1. Others(c) /\ channels[c].context # 0 /\ channels'[c].context = channels[c].context /\ UNCHANGED received
      BY <2>6 DEF Sends, SendControl, CanSend, Attached, Numbered, KeepsPlace
    <3> QED
      BY <2>0, <3>1, AttachedStays
  <2>7. ASSUME NEW size \in Nat, NEW lane \in OutLane, Holds(c, lane, size) PROVE ErasedInv'
    <3>1. Others(c) /\ channels[c].context # 0 /\ channels'[c].context = channels[c].context /\ UNCHANGED received
      BY <2>7 DEF Holds, SendBinary, CanSend, Attached, Queued, KeepsPlace
    <3> QED
      BY <2>0, <3>1, AttachedStays
  <2>8. ASSUME NEW size \in Nat, NEW lane \in Lane, Hears(c, lane, size) PROVE ErasedInv'
    <3> DEFINE frame == FrameOf(remote[c], lane, size)
    <3>1. frame \in Frame /\ Accepts(c, frame) /\ channels[c].context # 0
      BY <2>8 DEF Hears
    <3> HIDE DEF frame
    <3>2. CASE Completes(c, frame)
      <4>1. Others(c) /\ channels'[c].context = channels[c].context /\ Complete(c, frame)
        BY <3>2 DEF Completes, Assembling1, KeepsPlace
      <4>2. PICK m \in Delivered : \E l \in Lane :
              m.channel = c /\ received'[l] = Append(received[l], m) /\ \A k \in Lane : k # l => received'[k] = received[k]
        BY ZenonT(60), <3>1, <4>1, CompleteEffect
      <4>3. PICK l \in Lane :
              m.channel = c /\ received'[l] = Append(received[l], m) /\ \A k \in Lane : k # l => received'[k] = received[k]
        BY <4>2
      <4>4. c \in Attached
        BY <3>1 DEF Attached
      <4>5. \A k \in Lane : \A i \in 1 .. Len(received'[k]) : received'[k][i].channel \in Attached
        BY <4>3, <4>4, SentFrom
      <4> QED
        BY <3>1, <4>1, <4>5, AttachedStays
    <3>3. CASE Collects(c, frame)
      <4>1. Others(c) /\ channels'[c].context = channels[c].context /\ UNCHANGED received
        BY <3>3 DEF Collects, Assembling1, KeepsPlace, Rest4
      <4> QED
        BY <2>0, <3>1, <4>1, AttachedStays
    <3> QED
      BY <3>1, <3>2, <3>3 DEF Accepts
  <2>9. ASSUME NEW lane \in OutLane, Releases(c, lane) PROVE ErasedInv'
    <3>1. Others(c) /\ channels[c].context # 0 /\ channels'[c].context = channels[c].context /\ UNCHANGED received
      BY <2>9 DEF Releases, Dequeued, KeepsPlace, WorkInv, Attached, NotInUpdate
    <3> QED
      BY <2>0, <3>1, AttachedStays
  <2>10. ASSUME NEW lane \in OutLane, Moves(c, lane) PROVE ErasedInv'
    <3>1. Others(c) /\ channels[c].context # 0 /\ channels'[c].context = channels[c].context /\ UNCHANGED received
      BY <2>10 DEF Moves, Advanced, KeepsPlace, WorkInv, Attached, NotInUpdate
    <3> QED
      BY <2>0, <3>1, AttachedStays
  <2>11. ASSUME NEW frame \in Frame, Posts(c, frame) PROVE ErasedInv'
    <3>1. Complete(c, frame) /\ UNCHANGED channels /\ channels[c].context # 0
      BY <2>11 DEF Posts
    <3>2. PICK m \in Delivered : \E l \in Lane :
            m.channel = c /\ received'[l] = Append(received[l], m) /\ \A k \in Lane : k # l => received'[k] = received[k]
      BY ZenonT(60), <3>1, CompleteEffect
    <3>3. PICK l \in Lane :
            m.channel = c /\ received'[l] = Append(received[l], m) /\ \A k \in Lane : k # l => received'[k] = received[k]
      BY <3>2
    <3>4. c \in Attached
      BY <3>1 DEF Attached
    <3>5. \A k \in Lane : \A i \in 1 .. Len(received'[k]) : received'[k][i].channel \in Attached
      BY <3>3, <3>4, SentFrom
    <3> QED
      BY <3>1, <3>5 DEF ErasedInv, Attached
  <2> QED
    BY <1>4, <2>1, <2>2, <2>3, <2>4, <2>5, <2>6, <2>7, <2>8, <2>9, <2>10, <2>11 DEF Does
<1> QED
  BY <1>1, <1>2, <1>3, <1>4, BinarySteps

(***************************************************************************)
(* The books of the send queues.                                            *)
(***************************************************************************)
LEMMA MessageSizes ==
    /\ \A m \in Message : m.size \in Nat
    /\ \A m \in Delivered : m.size \in Nat
BY DEF Message, Delivered

LEMMA OwnType ==
    ASSUME NEW a \in Channel, OwnBooks(a)
    PROVE  /\ a.bytes \in Nat /\ a.messages \in Nat
           /\ SumBytes(a.outgoing["datagram"]) \in Nat /\ SumBytes(a.outgoing["bulk"]) \in Nat
           /\ Len(a.outgoing["datagram"]) \in Nat /\ Len(a.outgoing["bulk"]) \in Nat
           /\ (a.messages = 0 => a.outgoing["datagram"] = << >> /\ a.outgoing["bulk"] = << >>)
<1>1. a.outgoing["datagram"] \in Seq(Message) /\ a.outgoing["bulk"] \in Seq(Message)
  BY ChannelTypes
<1>2. SumBytes(a.outgoing["datagram"]) \in Nat /\ SumBytes(a.outgoing["bulk"]) \in Nat
  BY <1>1, MessageSizes, BytesType
<1>3. /\ Len(a.outgoing["datagram"]) \in Nat /\ Len(a.outgoing["bulk"]) \in Nat
      /\ (Len(a.outgoing["datagram"]) = 0 => a.outgoing["datagram"] = << >>)
      /\ (Len(a.outgoing["bulk"]) = 0 => a.outgoing["bulk"] = << >>)
  BY <1>1
<1>4. /\ a.bytes = SumBytes(a.outgoing["datagram"]) + SumBytes(a.outgoing["bulk"])
      /\ a.messages = Len(a.outgoing["datagram"]) + Len(a.outgoing["bulk"])
  BY DEF OwnBooks
<1>5. ASSUME NEW x \in Nat, NEW y \in Nat PROVE x + y \in Nat /\ (x + y = 0 => x = 0 /\ y = 0)
  OBVIOUS
<1>6. a.bytes \in Nat
  BY <1>2, <1>4, <1>5
<1>7. a.messages \in Nat /\ (a.messages = 0 => Len(a.outgoing["datagram"]) = 0 /\ Len(a.outgoing["bulk"]) = 0)
  BY <1>3, <1>4, <1>5
<1> QED
  BY <1>2, <1>3, <1>6, <1>7

(* The books of one channel whose queue of a lane changes.                   *)
LEMMA OwnStep ==
    ASSUME NEW a \in Channel, NEW b \in Channel, NEW lane \in OutLane, NEW k \in Int, NEW n \in Int, OwnBooks(a),
           SumBytes(b.outgoing[lane]) = SumBytes(a.outgoing[lane]) + k,
           Len(b.outgoing[lane]) = Len(a.outgoing[lane]) + n,
           \A l \in OutLane : l # lane => b.outgoing[l] = a.outgoing[l],
           b.bytes = a.bytes + k, b.messages = a.messages + n
    PROVE  OwnBooks(b)
<1>1. /\ SumBytes(a.outgoing["datagram"]) \in Nat /\ SumBytes(a.outgoing["bulk"]) \in Nat
      /\ Len(a.outgoing["datagram"]) \in Nat /\ Len(a.outgoing["bulk"]) \in Nat
  BY OwnType
<1>2. /\ a.bytes = SumBytes(a.outgoing["datagram"]) + SumBytes(a.outgoing["bulk"])
      /\ a.messages = Len(a.outgoing["datagram"]) + Len(a.outgoing["bulk"])
  BY DEF OwnBooks
<1>3. ASSUME NEW x \in Nat, NEW y \in Nat, NEW z \in Int
      PROVE  (x + y) + z = (x + z) + y /\ (x + y) + z = x + (y + z)
  OBVIOUS
<1>4. CASE lane = "datagram"
  <2>1. b.outgoing["bulk"] = a.outgoing["bulk"]
    BY <1>4 DEF OutLane
  <2>2. b.bytes = SumBytes(b.outgoing["datagram"]) + SumBytes(b.outgoing["bulk"])
    BY <1>1, <1>2, <1>3, <1>4, <2>1
  <2>3. b.messages = Len(b.outgoing["datagram"]) + Len(b.outgoing["bulk"])
    <3>1. Len(b.outgoing["datagram"]) = Len(a.outgoing["datagram"]) + n /\ Len(b.outgoing["bulk"]) = Len(a.outgoing["bulk"])
      BY <1>4, <2>1
    <3> DEFINE x == Len(a.outgoing["datagram"])
               y == Len(a.outgoing["bulk"])
    <3>2. x \in Nat /\ y \in Nat /\ b.messages = (x + y) + n
      BY <1>1, <1>2
    <3> HIDE DEF x, y
    <3>3. b.messages = (x + n) + y /\ b.messages = x + (y + n)
      BY <3>2
    <3> QED
      BY <3>1, <3>3 DEF x, y
  <2> QED
    BY <2>2, <2>3 DEF OwnBooks
<1>5. CASE lane = "bulk"
  <2>1. b.outgoing["datagram"] = a.outgoing["datagram"]
    BY <1>5 DEF OutLane
  <2>2. b.bytes = SumBytes(b.outgoing["datagram"]) + SumBytes(b.outgoing["bulk"])
    BY <1>1, <1>2, <1>3, <1>5, <2>1
  <2>3. b.messages = Len(b.outgoing["datagram"]) + Len(b.outgoing["bulk"])
    <3>1. Len(b.outgoing["bulk"]) = Len(a.outgoing["bulk"]) + n /\ Len(b.outgoing["datagram"]) = Len(a.outgoing["datagram"])
      BY <1>5, <2>1
    <3> DEFINE x == Len(a.outgoing["datagram"])
               y == Len(a.outgoing["bulk"])
    <3>2. x \in Nat /\ y \in Nat /\ b.messages = (x + y) + n
      BY <1>1, <1>2
    <3> HIDE DEF x, y
    <3>3. b.messages = (x + n) + y /\ b.messages = x + (y + n)
      BY <3>2
    <3> QED
      BY <3>1, <3>3 DEF x, y
  <2> QED
    BY <2>2, <2>3 DEF OwnBooks
<1> QED
  BY <1>4, <1>5 DEF OutLane

LEMMA QueueBooksStep1 ==
    ASSUME BinaryType, NEW c \in ChannelId, Others(c), QueueBooks, OwnBooks(channels'[c]),
           queuedBytes' = (queuedBytes - channels[c].bytes) + channels'[c].bytes
    PROVE  QueueBooks'
<1>1. \A d \in ChannelId : OwnBooks(channels'[d])
  BY DEF Others, QueueBooks
<1>2. \A d \in ChannelId : channels[d] \in Channel /\ channels'[d] \in Channel
  BY DEF BinaryType, ChannelsType, Others
<1>3. \A d \in ChannelId : channels[d].bytes \in Nat /\ channels'[d].bytes \in Nat
  BY <1>1, <1>2, OwnType DEF QueueBooks
<1> DEFINE f == [d \in ChannelId |-> channels[d].bytes]
           g == [d \in ChannelId |-> channels'[d].bytes]
<1>4. \A d \in 1 .. MaxChannels : f[d] \in Nat /\ g[d] \in Nat /\ (d # c => g[d] = f[d])
  BY <1>3 DEF ChannelId, Others
<1>5. f[c] = channels[c].bytes /\ g[c] = channels'[c].bytes /\ c \in 1 .. MaxChannels /\ MaxChannels \in Nat
  BY BlankTypes DEF ChannelId
<1>6. f \in [1 .. MaxChannels -> Nat] /\ g \in [1 .. MaxChannels -> Nat]
  BY <1>3 DEF ChannelId
<1>7. SumOf(f) = queuedBytes
  BY DEF QueueBooks
<1> HIDE DEF f, g
<1>8. \A d \in 1 .. MaxChannels : d # c => g[d] = f[d]
  BY <1>4
<1>9. SumOf(g) = (SumOf(f) - f[c]) + g[c]
  BY <1>5, <1>6, <1>8, SumOneChanges
<1>10. SumOf(g) = queuedBytes'
  BY <1>5, <1>7, <1>9
<1> QED
  BY <1>1, <1>10 DEF QueueBooks, g

LEMMA QueueBooksKept ==
    ASSUME BinaryType, NEW c \in ChannelId, Others(c), QueueBooks, KeepsQueues(channels[c], channels'[c]),
           queuedBytes' = queuedBytes
    PROVE  QueueBooks'
<1>1. OwnBooks(channels'[c])
  BY DEF QueueBooks, KeepsQueues, OwnBooks
<1>2. channels[c].bytes \in Int /\ queuedBytes \in Int
  BY ChannelTypes DEF BinaryType, ChannelsType, ReceiveType
<1>3. channels'[c].bytes = channels[c].bytes
  BY DEF KeepsQueues
<1> DEFINE x == queuedBytes
           y == channels[c].bytes
<1>4. x \in Int /\ y \in Int
  BY <1>2
<1> HIDE DEF x, y
<1>5. x = (x - y) + y
  BY <1>4
<1>6. queuedBytes' = (queuedBytes - channels[c].bytes) + channels'[c].bytes
  BY <1>3, <1>5 DEF x, y
<1> QED
  BY <1>1, <1>6, QueueBooksStep1

LEMMA EmptyBooks ==
    OwnBooks(Unattached) /\ Unattached.bytes = 0
<1>1. /\ Unattached.bytes = 0 /\ Unattached.messages = 0
      /\ Unattached.outgoing["datagram"] = << >> /\ Unattached.outgoing["bulk"] = << >>
  BY DEF Unattached, OutLane
<1>2. << >> \in Seq(Message) /\ Len(<< >>) = 0
  OBVIOUS
<1>3. SumBytes(<< >>) = 0
  BY <1>2, MessageSizes, BytesType
<1> QED
  BY <1>1, <1>2, <1>3 DEF OwnBooks

(* Every step keeps the books of the send queues.                            *)
LEMMA QueueBooksStep ==
    ASSUME BinaryType, ErasedInv, WorkInv, QueueBooks, [BinaryNext]_binaryVars
    PROVE  QueueBooks'
<1>0. ASSUME UNCHANGED <<channels, queuedBytes>> PROVE QueueBooks'
  BY <1>0 DEF QueueBooks
<1>1. CASE UNCHANGED binaryVars
  BY <1>0, <1>1 DEF binaryVars
<1>2. CASE Rests
  BY <1>0, <1>2 DEF Rests
<1>3. CASE PollBulk
  BY <1>0, <1>3 DEF PollBulk
<1>4. ASSUME NEW c \in ChannelId, Does(c) PROVE QueueBooks'
  <2> DEFINE a == channels[c]
             b == channels'[c]
  <2>a. a \in Channel /\ queuedBytes \in Int /\ a.bytes \in Int /\ OwnBooks(a)
    BY ChannelTypes DEF BinaryType, ChannelsType, ReceiveType, QueueBooks
  <2>1. CASE Ignores(c)
    BY <1>0, <2>1 DEF Ignores
  <2>2. CASE Attach(c)
    <3>1. /\ Others(c) /\ KeepsQueues(Unattached, b) /\ channels[c].context = 0 /\ queuedBytes' = queuedBytes
      BY <2>2, AttachEffect
    <3>2. channels[c] = Unattached
      BY <3>1 DEF ErasedInv
    <3> QED
      BY <3>1, <3>2, QueueBooksKept
  <2>3. CASE Detach(c)
    <3>1. Others(c) /\ b = Unattached /\ queuedBytes' = queuedBytes - a.bytes
      BY <2>3, DetachEffect
    <3> DEFINE x == queuedBytes - a.bytes
    <3>2. x \in Int
      BY <2>a
    <3> HIDE DEF x
    <3>3. x = x + 0
      BY <3>2
    <3>4. queuedBytes' = (queuedBytes - channels[c].bytes) + channels'[c].bytes
      BY <3>1, <3>3, EmptyBooks DEF x
    <3> QED
      BY <3>1, <3>4, EmptyBooks, QueueBooksStep1
  <2>4. CASE Fails(c)
    <3>1. Others(c) /\ KeepsQueues(a, b) /\ queuedBytes' = queuedBytes
      BY <2>4 DEF Fails, Refuses, Broken, Rest4
    <3> QED
      BY <3>1, QueueBooksKept
  <2>5. CASE WakesOne(c)
    BY <1>0, <2>5 DEF WakesOne, WakeUp
  <2>6. ASSUME NEW size \in Nat, Sends(c, size) PROVE QueueBooks'
    <3>1. Others(c) /\ KeepsQueues(a, b) /\ queuedBytes' = queuedBytes
      BY <2>6 DEF Sends, SendControl, Numbered
    <3> QED
      BY <3>1, QueueBooksKept
  <2>7. ASSUME NEW size \in Nat, NEW lane \in OutLane, Holds(c, lane, size) PROVE QueueBooks'
    <3>1. Others(c) /\ queuedBytes' = queuedBytes + size /\ Queued(a, b, lane, size)
      BY <2>7 DEF Holds, SendBinary
    <3> DEFINE m == [id |-> a.next + 1, size |-> size, offset |-> 0]
               q == a.outgoing[lane]
    <3>2. m \in Message /\ q \in Seq(Message) /\ m.size = size
      BY <2>a, ChannelTypes DEF Message
    <3>3. b.outgoing[lane] = Append(q, m)
      BY <3>1 DEF Queued
    <3> HIDE DEF m, q
    <3>4. SumBytes(b.outgoing[lane]) = SumBytes(q) + size
      BY <3>2, <3>3, MessageSizes, BytesAppend
    <3>5. Len(b.outgoing[lane]) = Len(q) + 1
      BY <3>2, <3>3
    <3>6. /\ b \in Channel /\ b.bytes = a.bytes + size /\ b.messages = a.messages + 1
          /\ \A l \in OutLane : l # lane => b.outgoing[l] = a.outgoing[l]
      BY <3>1 DEF Queued, KeepsPlace
    <3>7. OwnBooks(b)
      <4>1. SumBytes(b.outgoing[lane]) = SumBytes(a.outgoing[lane]) + size /\ Len(b.outgoing[lane]) = Len(a.outgoing[lane]) + 1
        BY <3>4, <3>5 DEF q
      <4>2. size \in Int /\ 1 \in Int
        OBVIOUS
      <4> HIDE DEF a, b
      <4> QED
        BY <2>a, <3>6, <4>1, <4>2, OwnStep
    <3>8. queuedBytes' = (queuedBytes - channels[c].bytes) + channels'[c].bytes
      <4> DEFINE x == queuedBytes
                 y == channels[c].bytes
      <4>1. x \in Int /\ y \in Int
        BY <2>a
      <4> HIDE DEF x, y
      <4>2. x + size = (x - y) + (y + size)
        BY <4>1
      <4> QED
        BY <3>1, <3>6, <4>2 DEF x, y
    <3> QED
      BY <3>1, <3>7, <3>8, QueueBooksStep1
  <2>8. ASSUME NEW size \in Nat, NEW lane \in Lane, Hears(c, lane, size) PROVE QueueBooks'
    <3>1. Others(c) /\ KeepsQueues(a, b) /\ queuedBytes' = queuedBytes
      BY <2>8 DEF Hears, Accepts, Completes, Collects, Assembling1, Rest4
    <3> QED
      BY <3>1, QueueBooksKept
  <2>9. ASSUME NEW lane \in OutLane, Releases(c, lane) PROVE QueueBooks'
    <3> DEFINE q == a.outgoing[lane]
               n == Head(q).size
    <3>1. Others(c) /\ queuedBytes' = queuedBytes - n /\ Dequeued(a, b, lane)
      BY <2>9 DEF Releases
    <3>2. q \in Seq(Message) /\ q # << >> /\ b.outgoing[lane] = Tail(q)
      BY <2>a, <3>1, ChannelTypes DEF Dequeued
    <3> HIDE DEF q
    <3>3. SumBytes(Tail(q)) = SumBytes(q) - n /\ n \in Nat /\ Len(Tail(q)) = Len(q) - 1
      BY <3>2, MessageSizes, BytesTail
    <3> HIDE DEF n
    <3>4. /\ b \in Channel /\ b.bytes = a.bytes - n /\ b.messages = a.messages - 1
          /\ \A l \in OutLane : l # lane => b.outgoing[l] = a.outgoing[l]
      BY <3>1 DEF Dequeued, KeepsPlace, n, q
    <3>5. SumBytes(q) \in Nat /\ Len(q) \in Nat /\ a.bytes \in Int /\ a.messages \in Int
      BY <2>a, <3>2, MessageSizes, BytesType, ChannelTypes
    <3>6. ASSUME NEW x \in Int, NEW y \in Int PROVE x - y = x + (0 - y)
      OBVIOUS
    <3>7. OwnBooks(b)
      <4>1. /\ SumBytes(b.outgoing[lane]) = SumBytes(a.outgoing[lane]) + (0 - n)
            /\ Len(b.outgoing[lane]) = Len(a.outgoing[lane]) + (0 - 1)
        <5>1. SumBytes(q) - n = SumBytes(q) + (0 - n) /\ Len(q) - 1 = Len(q) + (0 - 1)
          BY <3>3, <3>5, <3>6
        <5> QED
          BY <3>2, <3>3, <5>1 DEF q
      <4>2. b.bytes = a.bytes + (0 - n) /\ b.messages = a.messages + (0 - 1)
        <5>1. a.bytes - n = a.bytes + (0 - n) /\ a.messages - 1 = a.messages + (0 - 1)
          BY <3>3, <3>5, <3>6
        <5> QED
          BY <3>4, <5>1
      <4>3. 0 - n \in Int /\ 0 - 1 \in Int
        BY <3>3
      <4> DEFINE k == 0 - n
                 j == 0 - 1
      <4>4. /\ SumBytes(b.outgoing[lane]) = SumBytes(a.outgoing[lane]) + k /\ k \in Int
            /\ Len(b.outgoing[lane]) = Len(a.outgoing[lane]) + j /\ j \in Int
            /\ b.bytes = a.bytes + k /\ b.messages = a.messages + j
        BY <4>1, <4>2, <4>3
      <4> HIDE DEF a, b, k, j
      <4> QED
        BY <2>a, <3>4, <4>4, OwnStep
    <3>8. queuedBytes' = (queuedBytes - channels[c].bytes) + channels'[c].bytes
      <4> DEFINE x == queuedBytes
                 y == channels[c].bytes
      <4>1. x \in Int /\ y \in Int
        BY <2>a
      <4> HIDE DEF x, y
      <4>2. x - n = (x - y) + (y - n)
        BY <3>3, <4>1
      <4> QED
        BY <3>1, <3>4, <4>2 DEF x, y
    <3> QED
      BY <3>1, <3>7, <3>8, QueueBooksStep1
  <2>10. ASSUME NEW lane \in OutLane, Moves(c, lane) PROVE QueueBooks'
    <3> DEFINE q == a.outgoing[lane]
               r == b.outgoing[lane]
               offset == Min2(Head(q).offset + 1, Head(q).size)
    <3>1. Others(c) /\ queuedBytes' = queuedBytes /\ Advanced(a, b, lane, offset)
      BY <2>10 DEF Moves
    <3>2. b \in Channel
      BY <3>1 DEF Advanced, KeepsPlace
    <3>3. q \in Seq(Message) /\ r \in Seq(Message) /\ Len(r) = Len(q) /\ q # << >>
      BY <2>a, <3>1, <3>2, ChannelTypes DEF Advanced
    <3>4. \A i \in 1 .. Len(q) : r[i].size = q[i].size
      <4>1. r[1] = [q[1] EXCEPT !.offset = offset] /\ \A i \in 1 .. Len(q) : i # 1 => r[i] = q[i]
        BY <3>1 DEF Advanced
      <4> HIDE DEF q, r, offset
      <4>2. q[1] \in Message
        BY <3>3
      <4>3. r[1].size = q[1].size
        BY <4>1, <4>2 DEF Message
      <4> QED
        BY <4>1, <4>3
    <3> HIDE DEF q, r
    <3>5. SumBytes(r) = SumBytes(q)
      BY <3>3, <3>4, MessageSizes, BytesSame
    <3>6. OwnBooks(b)
      <4>1. \A l \in OutLane : SumBytes(b.outgoing[l]) = SumBytes(a.outgoing[l]) /\ Len(b.outgoing[l]) = Len(a.outgoing[l])
        BY <3>1, <3>3, <3>5 DEF Advanced, q, r
      <4>2. b.bytes = a.bytes /\ b.messages = a.messages
        BY <3>1 DEF Advanced
      <4> QED
        BY <2>a, <4>1, <4>2 DEF OwnBooks, OutLane
    <3>7. queuedBytes' = (queuedBytes - channels[c].bytes) + channels'[c].bytes
      <4>1. channels'[c].bytes = channels[c].bytes
        BY <3>1 DEF Advanced
      <4> DEFINE x == queuedBytes
                 y == channels[c].bytes
      <4>2. x \in Int /\ y \in Int
        BY <2>a
      <4> HIDE DEF x, y
      <4>3. x = (x - y) + y
        BY <4>2
      <4> QED
        BY <3>1, <4>1, <4>3 DEF x, y
    <3> QED
      BY <3>1, <3>6, <3>7, QueueBooksStep1
  <2>11. ASSUME NEW frame \in Frame, Posts(c, frame) PROVE QueueBooks'
    BY <1>0, <2>11 DEF Posts
  <2> QED
    BY <1>4, <2>1, <2>2, <2>3, <2>4, <2>5, <2>6, <2>7, <2>8, <2>9, <2>10, <2>11 DEF Does
<1> QED
  BY <1>1, <1>2, <1>3, <1>4, BinarySteps

(***************************************************************************)
(* The books of the receive queue.                                          *)
(***************************************************************************)
AssembledOn(chs, l) == SumOf([c \in ChannelId |-> Reserved(chs[c].incoming[l])])

LEMMA ReservedType ==
    ASSUME NEW x \in Assembly
    PROVE  Reserved(x) \in Nat
BY DEF Reserved, Assembly

LEMMA PartIs ==
    ASSUME NEW chs \in [ChannelId -> Channel], NEW l \in Lane, NEW q \in Seq(Delivered)
    PROVE  /\ Part(chs, l, q) = SumBytes(q) + AssembledOn(chs, l)
           /\ SumBytes(q) \in Nat /\ AssembledOn(chs, l) \in Nat /\ Part(chs, l, q) \in Nat
<1>1. SumBytes(q) \in Nat
  BY MessageSizes, BytesType
<1>2. \A c \in ChannelId : chs[c].incoming[l] \in Assembly
  BY ChannelTypes
<1> DEFINE f == [c \in ChannelId |-> Reserved(chs[c].incoming[l])]
<1>3. f \in [1 .. MaxChannels -> Nat] /\ MaxChannels \in Nat
  BY <1>2, ReservedType, BlankTypes DEF ChannelId
<1>4. AssembledOn(chs, l) = SumOf(f) /\ Part(chs, l, q) = SumBytes(q) + SumOf(f)
  BY DEF AssembledOn, Part
<1> HIDE DEF f
<1>5. f \in Seq(Nat)
  BY <1>3
<1>6. SumOf(f) \in Nat
  BY <1>5, SumType
<1> QED
  BY <1>1, <1>4, <1>6

(* The bytes reserved on a lane follow the channel that changes.             *)
LEMMA AssembledStep ==
    ASSUME NEW chs \in [ChannelId -> Channel], NEW chs2 \in [ChannelId -> Channel], NEW l \in Lane, NEW c \in ChannelId,
           \A d \in ChannelId : d # c => Reserved(chs2[d].incoming[l]) = Reserved(chs[d].incoming[l])
    PROVE  /\ AssembledOn(chs2, l) = (AssembledOn(chs, l) - Reserved(chs[c].incoming[l])) + Reserved(chs2[c].incoming[l])
           /\ Reserved(chs[c].incoming[l]) <= AssembledOn(chs, l)
           /\ Reserved(chs[c].incoming[l]) \in Nat /\ Reserved(chs2[c].incoming[l]) \in Nat
<1>1. \A d \in ChannelId : chs[d].incoming[l] \in Assembly /\ chs2[d].incoming[l] \in Assembly
  BY ChannelTypes
<1> DEFINE f == [d \in ChannelId |-> Reserved(chs[d].incoming[l])]
           g == [d \in ChannelId |-> Reserved(chs2[d].incoming[l])]
<1>2. f \in [1 .. MaxChannels -> Nat] /\ g \in [1 .. MaxChannels -> Nat] /\ MaxChannels \in Nat /\ c \in 1 .. MaxChannels
  BY <1>1, ReservedType, BlankTypes DEF ChannelId
<1>3. \A d \in 1 .. MaxChannels : d # c => g[d] = f[d]
  BY DEF ChannelId
<1>4. /\ AssembledOn(chs, l) = SumOf(f) /\ AssembledOn(chs2, l) = SumOf(g)
      /\ f[c] = Reserved(chs[c].incoming[l]) /\ g[c] = Reserved(chs2[c].incoming[l])
  BY DEF AssembledOn
<1> HIDE DEF f, g
<1>5. SumOf(g) = (SumOf(f) - f[c]) + g[c] /\ f[c] <= SumOf(f)
  BY <1>2, <1>3, SumOneChanges
<1>6. f[c] \in Nat /\ g[c] \in Nat
  BY <1>2
<1> QED
  BY <1>4, <1>5, <1>6

LEMMA ReceiveBooksType ==
    ASSUME BinaryType, ReceiveBooks
    PROVE  /\ Part(channels, "control", received["control"]) \in Nat /\ Part(channels, "bulk", received["bulk"]) \in Nat
           /\ received["control"] \in Seq(Delivered) /\ received["bulk"] \in Seq(Delivered)
           /\ Len(received["control"]) \in Nat /\ Len(received["bulk"]) \in Nat
           /\ receiveBytes \in Nat /\ receiveMessages \in Nat
           /\ {MaxBytes, ReserveBytes, MaxMessages, ReserveMessages} \subseteq Nat
<1>1. received["control"] \in Seq(Delivered) /\ received["bulk"] \in Seq(Delivered) /\ channels \in [ChannelId -> Channel]
  BY DEF BinaryType, ReceiveType, ChannelsType, Lane
<1>2. Part(channels, "control", received["control"]) \in Nat /\ Part(channels, "bulk", received["bulk"]) \in Nat
  BY <1>1, PartIs DEF Lane
<1>3. Len(received["control"]) \in Nat /\ Len(received["bulk"]) \in Nat
  BY <1>1
<1>4. ASSUME NEW x \in Nat, NEW y \in Nat PROVE x + y \in Nat
  OBVIOUS
<1>5. receiveBytes \in Nat /\ receiveMessages \in Nat
  BY <1>2, <1>3, <1>4 DEF ReceiveBooks
<1> QED
  BY <1>1, <1>2, <1>3, <1>5, BinaryAssumption

LEMMA ReceiveBooksKept ==
    ASSUME BinaryType, BinaryType', ReceiveBooks,
           \A d \in ChannelId : \A l \in Lane : channels'[d].incoming[l] = channels[d].incoming[l],
           UNCHANGED <<received, receiveMessages, receiveBytes, pendingReceive>>
    PROVE  ReceiveBooks'
<1>1. ASSUME NEW l \in Lane PROVE Part(channels', l, received'[l]) = Part(channels, l, received[l])
  <2>1. [c \in ChannelId |-> Reserved(channels'[c].incoming[l])] = [c \in ChannelId |-> Reserved(channels[c].incoming[l])]
    OBVIOUS
  <2> QED
    BY <2>1 DEF Part
<1> QED
  BY <1>1 DEF ReceiveBooks, Lane

\* The books when the bytes of a lane change by h and its messages by n.
LaneChanges(lane, h, n) ==
  /\ Part(channels', lane, received'[lane]) = Part(channels, lane, received[lane]) + h
  /\ Len(received'[lane]) = Len(received[lane]) + n
  /\ \A l \in Lane : l # lane => /\ Part(channels', l, received'[l]) = Part(channels, l, received[l])
                                 /\ Len(received'[l]) = Len(received[l])

LEMMA ReceiveBooksStep1 ==
    ASSUME BinaryType, ReceiveBooks, NEW lane \in Lane, NEW h \in Int, NEW n \in Int,
           LaneChanges(lane, h, n),
           receiveBytes' = receiveBytes + h, receiveMessages' = receiveMessages + n,
           pendingReceive' <=> receiveMessages' # 0,
           lane = "bulk" => \/ h <= 0
                            \/ receiveBytes + h <= MaxBytes - ReserveBytes,
           lane = "bulk" => \/ n <= 0
                            \/ receiveMessages + n <= MaxMessages - ReserveMessages
    PROVE  ReceiveBooks'
<1> DEFINE pc == Part(channels, "control", received["control"])
           pb == Part(channels, "bulk", received["bulk"])
           lc == Len(received["control"])
           lb == Len(received["bulk"])
           pc2 == Part(channels', "control", received'["control"])
           pb2 == Part(channels', "bulk", received'["bulk"])
           lc2 == Len(received'["control"])
           lb2 == Len(received'["bulk"])
<1>1. pc \in Nat /\ pb \in Nat /\ lc \in Nat /\ lb \in Nat /\ receiveBytes \in Nat /\ receiveMessages \in Nat
      /\ {MaxBytes, ReserveBytes, MaxMessages, ReserveMessages} \subseteq Nat
  BY ReceiveBooksType
<1>2. receiveBytes = pc + pb /\ receiveMessages = lc + lb /\ lb <= MaxMessages - ReserveMessages /\ pb <= MaxBytes - ReserveBytes
  BY DEF ReceiveBooks
<1>3. lane = "control" => pc2 = pc + h /\ lc2 = lc + n /\ pb2 = pb /\ lb2 = lb
  BY DEF LaneChanges, Lane
<1>4. lane = "bulk" => pb2 = pb + h /\ lb2 = lb + n /\ pc2 = pc /\ lc2 = lc
  BY DEF LaneChanges, Lane
<1>5. lane = "control" \/ lane = "bulk"
  BY DEF Lane
<1> HIDE DEF pc, pb, lc, lb, pc2, pb2, lc2, lb2
<1>6. receiveBytes' = pc2 + pb2 /\ receiveMessages' = lc2 + lb2
  BY <1>1, <1>2, <1>3, <1>4, <1>5
<1>7. lb2 <= MaxMessages - ReserveMessages
  BY <1>1, <1>2, <1>3, <1>4, <1>5
<1>8. pb2 <= MaxBytes - ReserveBytes
  BY <1>1, <1>2, <1>3, <1>4, <1>5
<1> QED
  BY <1>6, <1>7, <1>8 DEF ReceiveBooks, pc2, pb2, lc2, lb2

\* A lane whose queue alone changes.
LEMMA QueueChanges ==
    ASSUME BinaryType, BinaryType', NEW lane \in Lane, NEW h \in Int, NEW n \in Int,
           \A d \in ChannelId : \A l \in Lane : channels'[d].incoming[l] = channels[d].incoming[l],
           SumBytes(received'[lane]) = SumBytes(received[lane]) + h,
           Len(received'[lane]) = Len(received[lane]) + n,
           \A l \in Lane : l # lane => received'[l] = received[l]
    PROVE  LaneChanges(lane, h, n)
<1>1. \A l \in Lane : AssembledOn(channels', l) = AssembledOn(channels, l)
  <2>1. ASSUME NEW l \in Lane PROVE [c \in ChannelId |-> Reserved(channels'[c].incoming[l])] = [c \in ChannelId |-> Reserved(channels[c].incoming[l])]
    OBVIOUS
  <2> QED
    BY <2>1 DEF AssembledOn
<1>2. channels \in [ChannelId -> Channel] /\ channels' \in [ChannelId -> Channel]
      /\ received \in [Lane -> Seq(Delivered)] /\ received' \in [Lane -> Seq(Delivered)]
  BY DEF BinaryType, ChannelsType, ReceiveType
<1>3. \A l \in Lane : /\ Part(channels, l, received[l]) = SumBytes(received[l]) + AssembledOn(channels, l)
                      /\ SumBytes(received[l]) \in Nat /\ AssembledOn(channels, l) \in Nat
  BY <1>2, PartIs
<1>4. \A l \in Lane : Part(channels', l, received'[l]) = SumBytes(received'[l]) + AssembledOn(channels', l)
  BY <1>2, PartIs
<1>5. \A l \in Lane : l # lane => /\ Part(channels', l, received'[l]) = Part(channels, l, received[l])
                                  /\ Len(received'[l]) = Len(received[l])
  BY <1>1, <1>3, <1>4
<1> DEFINE x == SumBytes(received[lane])
           y == AssembledOn(channels, lane)
<1>6. x \in Nat /\ y \in Nat /\ Part(channels, lane, received[lane]) = x + y
      /\ Part(channels', lane, received'[lane]) = (x + h) + y
  BY <1>1, <1>3, <1>4
<1> HIDE DEF x, y
<1>7. Part(channels', lane, received'[lane]) = Part(channels, lane, received[lane]) + h
  BY <1>6
<1> QED
  BY <1>5, <1>7 DEF LaneChanges

LEMMA DetachLane ==
    ASSUME BinaryType, BinaryType', NEW c \in ChannelId, Detach(c), NEW l \in Lane
    PROVE  LET gone == SumBytes(Mine(c, received[l])) + Reserved(channels[c].incoming[l]) IN
           /\ Part(channels', l, received'[l]) = Part(channels, l, received[l]) - gone
           /\ gone \in Nat /\ Part(channels', l, received'[l]) \in Nat
           /\ Len(received'[l]) = Len(received[l]) - Len(Mine(c, received[l]))
           /\ Len(received'[l]) \in Nat /\ Len(Mine(c, received[l])) \in Nat
<1>1. Others(c) /\ channels'[c] = Unattached /\ received'[l] = NotMine(c, received[l])
  BY DetachEffect
<1>2. channels \in [ChannelId -> Channel] /\ channels' \in [ChannelId -> Channel]
      /\ received[l] \in Seq(Delivered) /\ received'[l] \in Seq(Delivered)
  BY DEF BinaryType, ChannelsType, ReceiveType
<1> DEFINE q == received[l]
           ri == Reserved(channels[c].incoming[l])
<1>3. /\ Mine(c, q) \in Seq(Delivered)
      /\ Len(Mine(c, q)) + Len(received'[l]) = Len(q)
      /\ SumBytes(Mine(c, q)) + SumBytes(received'[l]) = SumBytes(q)
      /\ SumBytes(Mine(c, q)) \in Nat
  BY <1>1, <1>2, MineFacts
<1>4. Reserved(channels'[c].incoming[l]) = 0
  <2>1. Unattached.incoming[l] = NoAssembly
    BY DEF Unattached
  <2> QED
    BY <1>1, <2>1 DEF Reserved, NoAssembly
<1>5. \A d \in ChannelId : d # c => Reserved(channels'[d].incoming[l]) = Reserved(channels[d].incoming[l])
  BY <1>1 DEF Others
<1>6. /\ AssembledOn(channels', l) = (AssembledOn(channels, l) - ri) + Reserved(channels'[c].incoming[l])
      /\ ri \in Nat
  BY <1>2, <1>5, AssembledStep
<1>7. /\ Part(channels, l, q) = SumBytes(q) + AssembledOn(channels, l)
      /\ SumBytes(q) \in Nat /\ AssembledOn(channels, l) \in Nat
  BY <1>2, PartIs
<1>8. /\ Part(channels', l, received'[l]) = SumBytes(received'[l]) + AssembledOn(channels', l)
      /\ SumBytes(received'[l]) \in Nat /\ Part(channels', l, received'[l]) \in Nat
  BY <1>2, PartIs
<1>9. Len(q) \in Nat /\ Len(received'[l]) \in Nat /\ Len(Mine(c, q)) \in Nat
  BY <1>2, <1>3
<1> DEFINE m == SumBytes(Mine(c, q))
           k == SumBytes(received'[l])
           t == AssembledOn(channels, l)
<1>10. m \in Nat /\ k \in Nat /\ t \in Nat /\ ri \in Nat
       /\ Part(channels, l, q) = (m + k) + t /\ Part(channels', l, received'[l]) = k + ((t - ri) + 0)
  BY <1>3, <1>4, <1>6, <1>7, <1>8
<1> DEFINE x == Len(Mine(c, q))
           y == Len(received'[l])
<1>11. x \in Nat /\ y \in Nat /\ Len(q) = x + y
  BY <1>3, <1>9
<1> HIDE DEF m, k, t, ri, x, y
<1>12. Part(channels', l, received'[l]) = Part(channels, l, q) - (m + ri) /\ m + ri \in Nat
  BY <1>10
<1>13. y = Len(q) - x
  BY <1>11
<1> QED
  BY <1>8, <1>11, <1>12, <1>13 DEF m, ri, x, y

LEMMA DetachBooks ==
    ASSUME BinaryType, BinaryType', ReceiveBooks, NEW c \in ChannelId, Detach(c)
    PROVE  ReceiveBooks'
<1> DEFINE pc == Part(channels, "control", received["control"])
           pb == Part(channels, "bulk", received["bulk"])
           lc == Len(received["control"])
           lb == Len(received["bulk"])
           pc2 == Part(channels', "control", received'["control"])
           pb2 == Part(channels', "bulk", received'["bulk"])
           lc2 == Len(received'["control"])
           lb2 == Len(received'["bulk"])
           mc == SumBytes(Mine(c, received["control"]))
           mb == SumBytes(Mine(c, received["bulk"]))
           rc == Reserved(channels[c].incoming["control"])
           rb == Reserved(channels[c].incoming["bulk"])
           nc == Len(Mine(c, received["control"]))
           nb == Len(Mine(c, received["bulk"]))
<1>1. "control" \in Lane /\ "bulk" \in Lane
  BY DEF Lane
<1>2. pc2 = pc - (mc + rc) /\ mc + rc \in Nat /\ lc2 = lc - nc /\ pc2 \in Nat /\ lc2 \in Nat /\ nc \in Nat
  BY <1>1, DetachLane
<1>3. pb2 = pb - (mb + rb) /\ mb + rb \in Nat /\ lb2 = lb - nb /\ pb2 \in Nat /\ lb2 \in Nat /\ nb \in Nat
  BY <1>1, DetachLane
<1>4. pc \in Nat /\ pb \in Nat /\ lc \in Nat /\ lb \in Nat /\ receiveBytes \in Nat /\ receiveMessages \in Nat
      /\ {MaxBytes, ReserveBytes, MaxMessages, ReserveMessages} \subseteq Nat
      /\ received["control"] \in Seq(Delivered) /\ received["bulk"] \in Seq(Delivered)
  BY ReceiveBooksType
<1>5. receiveBytes = pc + pb /\ receiveMessages = lc + lb /\ lb <= MaxMessages - ReserveMessages /\ pb <= MaxBytes - ReserveBytes
  BY DEF ReceiveBooks
<1>6. /\ receiveMessages' = (receiveMessages - nc) - nb
      /\ receiveBytes' = ((receiveBytes - (rc + rb)) - mc) - mb
      /\ pendingReceive' = (receiveMessages' # 0)
  <2>1. AssembledBytes(channels[c]) = rc + rb
    BY DEF AssembledBytes, Reserved
  <2> QED
    BY <2>1, DetachEffect
<1>7. mc \in Nat /\ mb \in Nat
  BY <1>4, MineFacts
<1>8. rc \in Nat /\ rb \in Nat
  BY ChannelTypes, ReservedType DEF BinaryType, ChannelsType
<1> HIDE DEF pc, pb, lc, lb, pc2, pb2, lc2, lb2, mc, mb, rc, rb, nc, nb
<1>9. receiveBytes' = pc2 + pb2
  BY <1>2, <1>3, <1>4, <1>5, <1>6, <1>7, <1>8
<1>10. receiveMessages' = lc2 + lb2
  BY <1>2, <1>3, <1>4, <1>5, <1>6
<1>11. lb2 <= MaxMessages - ReserveMessages
  <2>1. PICK a \in Nat, n \in Nat, m \in Nat, k \in Nat : a = lb /\ n = nb /\ m = MaxMessages /\ k = ReserveMessages
    BY <1>3, <1>4
  <2>2. lb2 = a - n /\ a <= m - k
    BY <1>3, <1>5, <2>1
  <2>3. a - n <= m - k
    BY <2>2
  <2> QED
    BY <2>1, <2>2, <2>3
<1>12. pb2 <= MaxBytes - ReserveBytes
  <2>1. PICK a \in Nat, n \in Nat, m \in Nat, k \in Nat : a = pb /\ n = mb + rb /\ m = MaxBytes /\ k = ReserveBytes
    BY <1>3, <1>4
  <2>2. pb2 = a - n /\ a <= m - k
    BY <1>3, <1>5, <2>1
  <2>3. a - n <= m - k
    BY <2>2
  <2> QED
    BY <2>1, <2>2, <2>3
<1> QED
  BY <1>6, <1>9, <1>10, <1>11, <1>12 DEF ReceiveBooks, pc2, pb2, lc2, lb2

LEMMA TakenBooks ==
    ASSUME BinaryType, BinaryType', ReceiveBooks, NEW lane \in Lane, NEW i \in 1 .. Len(received[lane]), Taken(lane, i),
           UNCHANGED channels
    PROVE  ReceiveBooks'
<1> DEFINE n == received[lane][i].size
<1>1. /\ received' \in [Lane -> Seq(Delivered)]
      /\ Len(received'[lane]) = Len(received[lane]) - 1
      /\ \A j \in 1 .. (Len(received[lane]) - 1) :
           received'[lane][j] = IF j < i THEN received[lane][j] ELSE received[lane][j + 1]
      /\ \A l \in Lane : l # lane => received'[l] = received[l]
      /\ n \in Nat
      /\ receiveBytes' = receiveBytes - n
      /\ receiveMessages' = receiveMessages - 1
      /\ pendingReceive' = (receiveMessages' # 0)
  BY TakenEffect
<1>2. received[lane] \in Seq(Delivered) /\ received'[lane] \in Seq(Delivered)
  BY <1>1 DEF BinaryType, ReceiveType
<1>3. SumBytes(received'[lane]) = SumBytes(received[lane]) - n
  BY <1>1, <1>2, MessageSizes, BytesRemove
<1>4. receiveBytes \in Nat /\ receiveMessages \in Nat
  BY ReceiveBooksType
<1>5. SumBytes(received[lane]) \in Nat /\ Len(received[lane]) \in Nat
  BY <1>2, MessageSizes, BytesType
<1> HIDE DEF n
<1> DEFINE h == 0 - n
           k == 0 - 1
<1>6. /\ h \in Int /\ k \in Int /\ h <= 0 /\ k <= 0
      /\ SumBytes(received'[lane]) = SumBytes(received[lane]) + h
      /\ Len(received'[lane]) = Len(received[lane]) + k
      /\ receiveBytes' = receiveBytes + h /\ receiveMessages' = receiveMessages + k
  <2>1. ASSUME NEW x \in Nat, NEW y \in Nat PROVE x - y = x + (0 - y)
    OBVIOUS
  <2>2. h \in Int /\ k \in Int /\ h <= 0 /\ k <= 0
    BY <1>1
  <2> QED
    BY <1>1, <1>3, <1>4, <1>5, <2>1, <2>2
<1> HIDE DEF h, k
<1>7. LaneChanges(lane, h, k)
  BY <1>1, <1>6, QueueChanges
<1>8. pendingReceive' <=> receiveMessages' # 0
  BY <1>1
<1> QED
  BY <1>6, <1>7, <1>8, ReceiveBooksStep1

LEMMA PostsBooks ==
    ASSUME BinaryType, BinaryType', ReceiveBooks, NEW c \in ChannelId, NEW frame \in Frame, Posts(c, frame)
    PROVE  ReceiveBooks'
<1>1. /\ Complete(c, frame) /\ UNCHANGED channels /\ frame.kind = "datagram" /\ HasPlace("datagram")
      /\ frame.total <= MaxBytes - ReserveBytes - receiveBytes /\ receiveBytes' = receiveBytes + frame.total
  BY DEF Posts
<1>2. PICK m \in Delivered : \E lane \in Lane :
        /\ lane = LaneOf(frame.kind) /\ m.size = frame.total
        /\ received'[lane] = Append(received[lane], m)
        /\ \A l \in Lane : l # lane => received'[l] = received[l]
        /\ receiveMessages' = receiveMessages + 1 /\ pendingReceive' = TRUE
  BY ZenonT(60), <1>1, CompleteEffect
<1>3. /\ "bulk" \in Lane /\ m.size = frame.total
      /\ received'["bulk"] = Append(received["bulk"], m)
      /\ \A l \in Lane : l # "bulk" => received'[l] = received[l]
      /\ receiveMessages' = receiveMessages + 1 /\ pendingReceive' = TRUE
  BY <1>1, <1>2 DEF LaneOf
<1>4. /\ received["bulk"] \in Seq(Delivered) /\ receiveMessages \in Nat /\ receiveBytes \in Nat
      /\ {MaxBytes, ReserveBytes, MaxMessages, ReserveMessages} \subseteq Nat
  BY ReceiveBooksType
<1>5. SumBytes(received'["bulk"]) = SumBytes(received["bulk"]) + frame.total
  BY <1>3, <1>4, MessageSizes, BytesAppend
<1>6. Len(received'["bulk"]) = Len(received["bulk"]) + 1
  BY <1>3, <1>4
<1>7. frame.total \in Nat
  BY DEF Frame
<1> DEFINE h == frame.total
<1>8. h \in Int /\ 1 \in Int /\ receiveBytes + h <= MaxBytes - ReserveBytes /\ receiveMessages + 1 <= MaxMessages - ReserveMessages
  BY <1>1, <1>4, <1>7 DEF HasPlace
<1>9. pendingReceive' <=> receiveMessages' # 0
  BY <1>3, <1>4
<1>10. receiveBytes' = receiveBytes + h /\ SumBytes(received'["bulk"]) = SumBytes(received["bulk"]) + h
  BY <1>1, <1>5
<1> HIDE DEF h
<1>11. \A d \in ChannelId : \A l \in Lane : channels'[d].incoming[l] = channels[d].incoming[l]
  BY <1>1
<1>12. LaneChanges("bulk", h, 1)
  BY <1>3, <1>6, <1>8, <1>10, <1>11, QueueChanges
<1> QED
  BY <1>3, <1>8, <1>9, <1>10, <1>12, ReceiveBooksStep1

LEMMA HearsBooks ==
    ASSUME BinaryType, BinaryType', ReceiveBooks, NEW c \in ChannelId, NEW frame \in Frame, frame.kind \in Lane,
           Accepts(c, frame)
    PROVE  ReceiveBooks'
<1> DEFINE lane == frame.kind
           before == channels[c].incoming[lane]
           h == HeldFor(c, frame)
<1>0. lane \in Lane /\ LaneOf(lane) = lane
  BY BegunType
<1>1. h \in Nat /\ before \in Assembly /\ Begun(c, frame) \in Assembly /\ receiveBytes' = receiveBytes + h
  BY BegunType DEF Accepts
<1>2. Continues(Begun(c, frame), frame) /\ (Opens(c, frame) => CanStart(frame))
  BY DEF Accepts
<1>3. Begun(c, frame).total = frame.total /\ Begun(c, frame).active = TRUE
  BY <1>1, <1>2 DEF Continues, Begun, Opens, Assembly
<1>4. Reserved(before) + h = frame.total /\ frame.total \in Nat /\ Reserved(before) \in Nat
  <2>1. CASE Opens(c, frame)
    BY <2>1 DEF Opens, HeldFor, Reserved, Frame
  <2>2. CASE ~Opens(c, frame)
    <3>1. Begun(c, frame) = before /\ before.active
      BY <2>2 DEF Begun, Opens
    <3>2. Reserved(before) = frame.total /\ h = 0
      BY <1>3, <2>2, <3>1 DEF Reserved, HeldFor
    <3> QED
      BY <3>2 DEF Frame
  <2> QED
    BY <2>1, <2>2
<1>5. Others(c)
  BY DEF Accepts, Completes, Collects
<1>6. channels \in [ChannelId -> Channel] /\ channels' \in [ChannelId -> Channel]
      /\ received \in [Lane -> Seq(Delivered)] /\ received' \in [Lane -> Seq(Delivered)]
  BY DEF BinaryType, ChannelsType, ReceiveType
<1>7. \A l \in Lane : \A d \in ChannelId : d # c => Reserved(channels'[d].incoming[l]) = Reserved(channels[d].incoming[l])
  BY <1>5 DEF Others
<1>8. \A l \in Lane : l # lane => channels'[c].incoming[l] = channels[c].incoming[l]
  BY DEF Accepts, Completes, Collects, Assembling1
<1>9. \A l \in Lane :
        /\ AssembledOn(channels', l) = (AssembledOn(channels, l) - Reserved(channels[c].incoming[l])) + Reserved(channels'[c].incoming[l])
        /\ Reserved(channels[c].incoming[l]) \in Nat /\ Reserved(channels'[c].incoming[l]) \in Nat
  BY <1>6, <1>7, AssembledStep
<1>10. \A l \in Lane : /\ Part(channels, l, received[l]) = SumBytes(received[l]) + AssembledOn(channels, l)
                       /\ SumBytes(received[l]) \in Nat /\ AssembledOn(channels, l) \in Nat
  BY <1>6, PartIs
<1>11. \A l \in Lane : Part(channels', l, received'[l]) = SumBytes(received'[l]) + AssembledOn(channels', l)
  BY <1>6, PartIs
<1>12. \A l \in Lane : l # lane => AssembledOn(channels', l) = AssembledOn(channels, l)
  <2> SUFFICES ASSUME NEW l \in Lane, l # lane PROVE AssembledOn(channels', l) = AssembledOn(channels, l)
    OBVIOUS
  <2> DEFINE x == AssembledOn(channels, l)
             y == Reserved(channels[c].incoming[l])
  <2>1. x \in Nat /\ y \in Nat /\ AssembledOn(channels', l) = (x - y) + y
    BY <1>8, <1>9, <1>10
  <2> HIDE DEF x, y
  <2>2. (x - y) + y = x
    BY <2>1
  <2> QED
    BY <2>1, <2>2 DEF x
<1>13. ASSUME \A l \in Lane : l # lane => received'[l] = received[l]
       PROVE  \A l \in Lane : l # lane => /\ Part(channels', l, received'[l]) = Part(channels, l, received[l])
                                          /\ Len(received'[l]) = Len(received[l])
  BY <1>10, <1>11, <1>12, <1>13
<1>14. /\ receiveMessages \in Nat /\ receiveBytes \in Nat
       /\ {MaxBytes, ReserveBytes, MaxMessages, ReserveMessages} \subseteq Nat
  BY ReceiveBooksType
<1>15. lane = "bulk" => h <= 0 \/ receiveBytes + h <= MaxBytes - ReserveBytes
  <2>1. CASE Opens(c, frame)
    <3>1. h = frame.total /\ (lane = "bulk" => frame.total <= (MaxBytes - ReserveBytes) - receiveBytes)
      BY <1>2, <2>1 DEF HeldFor, CanStart, ReceiveLimit
    <3> HIDE DEF h
    <3> QED
      BY <1>4, <1>14, <3>1
  <2>2. CASE ~Opens(c, frame)
    BY <2>2 DEF HeldFor
  <2> QED
    BY <2>1, <2>2
<1> DEFINE s == SumBytes(received[lane])
           t == AssembledOn(channels, lane)
           r == Reserved(before)
           s2 == SumBytes(received'[lane])
           t2 == AssembledOn(channels', lane)
<1>16. s \in Nat /\ t \in Nat /\ r \in Nat /\ r + h = frame.total
       /\ t2 = (t - r) + Reserved(channels'[c].incoming[lane])
       /\ Part(channels, lane, received[lane]) = s + t /\ Part(channels', lane, received'[lane]) = s2 + t2
  BY <1>0, <1>4, <1>9, <1>10, <1>11
<1>17. CASE Completes(c, frame)
  <2>1. /\ Complete(c, frame) /\ HasPlace(lane) /\ channels'[c].incoming[lane] = NoAssembly
    BY <1>17 DEF Completes, Assembling1
  <2>2. PICK m \in Delivered : \E k \in Lane :
          /\ k = LaneOf(lane) /\ m.size = frame.total
          /\ received'[k] = Append(received[k], m)
          /\ \A l \in Lane : l # k => received'[l] = received[l]
          /\ receiveMessages' = receiveMessages + 1 /\ pendingReceive' = TRUE
    BY ZenonT(60), <2>1, CompleteEffect
  <2>3. /\ m.size = frame.total
        /\ received'[lane] = Append(received[lane], m)
        /\ \A l \in Lane : l # lane => received'[l] = received[l]
        /\ receiveMessages' = receiveMessages + 1 /\ pendingReceive' = TRUE
    BY <1>0, <2>2
  <2>4. received[lane] \in Seq(Delivered)
    BY <1>0, <1>6
  <2>5. s2 = s + frame.total
    BY <2>3, <2>4, MessageSizes, BytesAppend
  <2>6. Len(received'[lane]) = Len(received[lane]) + 1
    BY <2>3, <2>4
  <2>7. t2 = (t - r) + 0
    BY <1>16, <2>1 DEF Reserved, NoAssembly
  <2>8. Part(channels', lane, received'[lane]) = Part(channels, lane, received[lane]) + h
    <3> HIDE DEF s, t, r, s2, t2, h
    <3>1. h \in Nat
      BY <1>1 DEF h
    <3> QED
      BY <1>16, <2>5, <2>7, <3>1
  <2>9. LaneChanges(lane, h, 1)
    BY <1>13, <2>3, <2>6, <2>8 DEF LaneChanges
  <2>10. lane = "bulk" => receiveMessages + 1 <= MaxMessages - ReserveMessages
    BY <1>14, <2>1 DEF HasPlace
  <2>11. pendingReceive' <=> receiveMessages' # 0
    BY <1>14, <2>3
  <2>12. h \in Int /\ 1 \in Int
    BY <1>1
  <2> HIDE DEF h, lane
  <2> QED
    BY <1>0, <1>1, <1>15, <2>3, <2>9, <2>10, <2>11, <2>12, ReceiveBooksStep1
<1>18. CASE Collects(c, frame)
  <2>1. /\ channels'[c].incoming[lane] = [Begun(c, frame) EXCEPT !.got = GotTo(frame)]
        /\ received' = received /\ receiveMessages' = receiveMessages /\ pendingReceive' = pendingReceive
    BY <1>18 DEF Collects, Assembling1, Rest4
  <2>2. Reserved(channels'[c].incoming[lane]) = frame.total
    <3> DEFINE g == Begun(c, frame)
    <3>1. g \in Assembly /\ g.total = frame.total /\ g.active = TRUE
      BY <1>1, <1>3
    <3> HIDE DEF g
    <3>2. [g EXCEPT !.got = GotTo(frame)].active = TRUE /\ [g EXCEPT !.got = GotTo(frame)].total = frame.total
      BY <3>1 DEF Assembly
    <3> QED
      BY <2>1, <3>2 DEF Reserved, g
  <2>3. Part(channels', lane, received'[lane]) = Part(channels, lane, received[lane]) + h
    <3>1. t2 = (t - r) + frame.total /\ s2 = s /\ h \in Nat
      BY <1>1, <1>16, <2>1, <2>2
    <3> HIDE DEF s, t, r, s2, t2, h
    <3> QED
      BY <1>16, <3>1
  <2>4. Len(received'[lane]) = Len(received[lane]) + 0
    <3>1. Len(received[lane]) \in Nat
      BY <1>0, <1>6
    <3> QED
      BY <2>1, <3>1
  <2>5. LaneChanges(lane, h, 0)
    BY <1>13, <2>1, <2>3, <2>4 DEF LaneChanges
  <2>6. pendingReceive' <=> receiveMessages' # 0
    BY <2>1 DEF ReceiveBooks
  <2>7. h \in Int /\ 0 \in Int /\ receiveMessages' = receiveMessages + 0
    BY <1>1, <1>14, <2>1
  <2> HIDE DEF h, lane
  <2> QED
    BY <1>0, <1>1, <1>15, <2>5, <2>6, <2>7, ReceiveBooksStep1
<1> QED
  BY <1>17, <1>18 DEF Accepts

(* Every step keeps the books of the receive queue.                          *)
LEMMA ReceiveBooksStep ==
    ASSUME BinaryType, BinaryType', ErasedInv, WorkInv, ReceiveBooks, [BinaryNext]_binaryVars
    PROVE  ReceiveBooks'
<1>0. ASSUME UNCHANGED channels PROVE \A d \in ChannelId : \A l \in Lane : channels'[d].incoming[l] = channels[d].incoming[l]
  BY <1>0
<1>1. CASE UNCHANGED binaryVars
  BY <1>0, <1>1, ReceiveBooksKept DEF binaryVars
<1>2. CASE Rests
  BY <1>0, <1>2, ReceiveBooksKept DEF Rests
<1>3. CASE PollBulk
  <2>1. "bulk" \in Lane /\ received["bulk"] \in Seq(Delivered) /\ received["bulk"] # << >> /\ Taken("bulk", 1)
        /\ UNCHANGED channels
    BY <1>3 DEF PollBulk, Lane, BinaryType, ReceiveType
  <2>2. 1 \in 1 .. Len(received["bulk"])
    BY <2>1
  <2> QED
    BY <2>1, <2>2, TakenBooks
<1>4. ASSUME NEW c \in ChannelId, Does(c) PROVE ReceiveBooks'
  <2>0. ASSUME Others(c), channels'[c].incoming = channels[c].incoming
        PROVE  \A d \in ChannelId : \A l \in Lane : channels'[d].incoming[l] = channels[d].incoming[l]
    BY <2>0 DEF Others
  <2>1. CASE Ignores(c)
    BY <1>0, <2>1, ReceiveBooksKept DEF Ignores
  <2>2. CASE Attach(c)
    <3>1. /\ Others(c) /\ channels'[c].incoming = Unattached.incoming /\ channels[c].context = 0
          /\ UNCHANGED <<received, receiveMessages, receiveBytes, pendingReceive>>
      BY <2>2, AttachEffect
    <3>2. channels[c] = Unattached
      BY <3>1 DEF ErasedInv
    <3> QED
      BY <2>0, <3>1, <3>2, ReceiveBooksKept
  <2>3. CASE Detach(c)
    BY <2>3, DetachBooks
  <2>4. CASE Fails(c)
    <3>1. /\ Others(c) /\ channels'[c].incoming = channels[c].incoming
          /\ UNCHANGED <<received, receiveMessages, receiveBytes, pendingReceive>>
      BY <2>4 DEF Fails, Refuses, Broken, Rest4
    <3> QED
      BY <2>0, <3>1, ReceiveBooksKept
  <2>5. CASE WakesOne(c)
    <3>1. /\ PayloadWaits(c, remote[c].woken + 1) /\ Taken("control", FirstControl(c)) /\ UNCHANGED channels
      BY <2>5 DEF WakesOne, WakeUp
    <3>2. FirstControl(c) \in 1 .. Len(received["control"]) /\ "control" \in Lane
      BY <3>1, FirstControlIs DEF PayloadWaits, Lane
    <3> QED
      BY <3>1, <3>2, TakenBooks
  <2>6. ASSUME NEW size \in Nat, Sends(c, size) PROVE ReceiveBooks'
    <3>1. /\ Others(c) /\ channels'[c].incoming = channels[c].incoming
          /\ UNCHANGED <<received, receiveMessages, receiveBytes, pendingReceive>>
      BY <2>6 DEF Sends, SendControl, Numbered
    <3> QED
      BY <2>0, <3>1, ReceiveBooksKept
  <2>7. ASSUME NEW size \in Nat, NEW lane \in OutLane, Holds(c, lane, size) PROVE ReceiveBooks'
    <3>1. /\ Others(c) /\ channels'[c].incoming = channels[c].incoming
          /\ UNCHANGED <<received, receiveMessages, receiveBytes, pendingReceive>>
      BY <2>7 DEF Holds, SendBinary, Queued
    <3> QED
      BY <2>0, <3>1, ReceiveBooksKept
  <2>8. ASSUME NEW size \in Nat, NEW lane \in Lane, Hears(c, lane, size) PROVE ReceiveBooks'
    <3> DEFINE frame == FrameOf(remote[c], lane, size)
    <3>1. frame \in Frame /\ Accepts(c, frame) /\ frame.kind \in Lane
      BY <2>8 DEF Hears, FrameOf
    <3> HIDE DEF frame
    <3> QED
      BY <3>1, HearsBooks
  <2>9. ASSUME NEW lane \in OutLane, Releases(c, lane) PROVE ReceiveBooks'
    <3>1. /\ Others(c) /\ channels'[c].incoming = channels[c].incoming
          /\ UNCHANGED <<received, receiveMessages, receiveBytes, pendingReceive>>
      BY <2>9 DEF Releases, Dequeued
    <3> QED
      BY <2>0, <3>1, ReceiveBooksKept
  <2>10. ASSUME NEW lane \in OutLane, Moves(c, lane) PROVE ReceiveBooks'
    <3>1. /\ Others(c) /\ channels'[c].incoming = channels[c].incoming
          /\ UNCHANGED <<received, receiveMessages, receiveBytes, pendingReceive>>
      BY <2>10 DEF Moves, Advanced
    <3> QED
      BY <2>0, <3>1, ReceiveBooksKept
  <2>11. ASSUME NEW frame \in Frame, Posts(c, frame) PROVE ReceiveBooks'
    BY <2>11, PostsBooks
  <2> QED
    BY <1>4, <2>1, <2>2, <2>3, <2>4, <2>5, <2>6, <2>7, <2>8, <2>9, <2>10, <2>11 DEF Does
<1> QED
  BY <1>1, <1>2, <1>3, <1>4, BinarySteps

\* Whether a channel has work depends on its counter and on what it assembles.
LEMMA SameWork ==
    ASSUME NEW a, NEW b, b.messages = a.messages, b.incoming = a.incoming
    PROVE  HasWork(b) <=> HasWork(a)
BY DEF HasWork, Assembling

\* Between the updates, a step that leaves the flag set misses no work.
LEMMA FlagSet ==
    ASSUME NotInUpdate, UNCHANGED updating, pendingWork' = TRUE
    PROVE  WorkInv'
BY DEF NotInUpdate, WorkInv

\* Between the updates, work and failures come with the flag: a step that adds neither keeps that.
LEMMA NoNewWork ==
    ASSUME NotInUpdate, UNCHANGED <<updating, pendingWork>>, WorkInv,
           \A c \in ChannelId :
             channels'[c].context # 0 /\ (channels'[c].failed \/ HasWork(channels'[c])) =>
             channels[c].context # 0 /\ (channels[c].failed \/ HasWork(channels[c]))
    PROVE  WorkInv'
BY DEF NotInUpdate, WorkInv, Attached

\* An update changes only the channel that it flushes.
LEMMA UpdateGoesOn ==
    ASSUME ~NotInUpdate, UNCHANGED updating, pendingWork' = TRUE \/ UNCHANGED pendingWork, WorkInv, BinaryType,
           Others(updating.channel), channels'[updating.channel].context = channels[updating.channel].context
    PROVE  WorkInv'
<1> DEFINE u == updating.channel
<1>1. u # 0 /\ pendingWork' /\ u \in Attached
      /\ \A c \in Attached : c < u => ~channels[c].failed /\ (HasWork(channels[c]) => updating.work)
  <2>1. /\ pendingWork /\ u # 0 /\ u \in Attached
        /\ \A c \in Attached : c < u => ~channels[c].failed /\ (HasWork(channels[c]) => updating.work)
    BY DEF NotInUpdate, WorkInv
  <2>2. pendingWork'
    BY <2>1
  <2> QED
    BY <2>1, <2>2
<1>2. u \in Attached'
  BY <1>1 DEF Attached
<1>3. ASSUME NEW c \in Attached', c < u PROVE ~channels'[c].failed /\ (HasWork(channels'[c]) => updating.work)
  <2>1. c # u /\ c \in ChannelId /\ u \in ChannelId
    BY <1>1, <1>3, BlankTypes DEF Attached, ChannelId
  <2>2. channels'[c] = channels[c]
    BY <2>1 DEF Others
  <2>3. c \in Attached
    BY <2>1, <2>2 DEF Attached
  <2> QED
    BY <1>1, <1>3, <2>2, <2>3
<1>4. updating'.channel = u /\ updating'.work = updating.work
  OBVIOUS
<1> HIDE DEF u
<1> QED
  BY <1>1, <1>2, <1>3, <1>4 DEF WorkInv

\* The update starts with the first channel, and goes on with the next one.
LEMMA UpdateTurns ==
    ASSUME BinaryType, WorkInv, Rests
    PROVE  WorkInv'
<1>0. UNCHANGED channels /\ Attached' = Attached
  BY DEF Rests, Attached
<1>1. CASE UpdateNothing
  BY <1>0, <1>1 DEF UpdateNothing, NotInUpdate, WorkInv
<1>2. CASE UpdateStarts
  <2>1. PICK d \in Attached : TRUE
    BY <1>2 DEF UpdateStarts
  <2>2. d >= 1 /\ 1 \in Nat /\ Attached \subseteq 1 .. MaxChannels
    BY <2>1, BlankTypes DEF Attached, ChannelId
  <2>3. FirstFrom(1) \in Attached /\ \A e \in Attached : e >= 1 => FirstFrom(1) <= e
    BY <2>1, <2>2, FirstFromIs
  <2> DEFINE f == FirstFrom(1)
  <2>4. updating'.channel = f /\ pendingWork'
    BY <1>2 DEF UpdateStarts
  <2> HIDE DEF f
  <2>5. f \in 1 .. MaxChannels /\ MaxChannels \in Nat /\ \A e \in Attached : f <= e
    <3>1. \A e \in Attached : e >= 1
      BY <2>2, BlankTypes
    <3>2. \A e \in Attached : f <= e
      BY <2>3, <3>1 DEF f
    <3> QED
      BY <2>2, <2>3, <3>2, BlankTypes DEF f
  <2>6. \A e \in Attached : ~(e < f)
    BY <2>2, <2>5
  <2>7. f \in Attached'
    BY <1>0, <2>3 DEF f
  <2>8. f # 0
    BY <2>5
  <2> QED
    BY <1>0, <2>4, <2>6, <2>7, <2>8 DEF WorkInv
<1>3. CASE UpdateReports
  <2>1. pendingWork' = pendingWork /\ updating'.channel = 0 /\ pendingWork
    BY <1>3 DEF UpdateReports, NoUpdateRuns, NotInUpdate, WorkInv
  <2> QED
    BY <2>1 DEF WorkInv
<1>4. CASE FlushEnds
  <2> DEFINE u == updating.channel
             rest == {d \in Attached : d > u}
             work == updating.work \/ HasWork(channels[u])
  <2>1. IF rest = {}
        THEN updating' = NoUpdateRuns /\ pendingWork' = work
        ELSE updating' = [channel |-> FirstFrom(u + 1), work |-> work] /\ UNCHANGED pendingWork
    BY <1>4 DEF FlushEnds, Flushing
  <2>2. /\ pendingWork /\ u \in Attached /\ ~channels[u].failed
        /\ \A c \in Attached : c < u => ~channels[c].failed /\ (HasWork(channels[c]) => updating.work)
    BY <1>4 DEF FlushEnds, Flushing, NotInUpdate, WorkInv
  <2>3. u \in Nat /\ Attached \subseteq Nat
    BY <2>2, BlankTypes DEF Attached, ChannelId
  <2>4. \A c \in Attached : c < u + 1 => ~channels[c].failed /\ (HasWork(channels[c]) => work)
    <3> TAKE c \in Attached
    <3>1. c < u + 1 => c < u \/ c = u
      BY <2>3
    <3> QED
      BY <2>2, <3>1
  <2>5. CASE rest = {}
    <3>1. \A c \in Attached : c < u + 1
      BY <2>3, <2>5
    <3>2. updating'.channel = 0 /\ pendingWork' = work
      BY <2>1, <2>5 DEF NoUpdateRuns
    <3> HIDE DEF work
    <3>3. \A c \in Attached : channels[c].failed \/ HasWork(channels[c]) => pendingWork'
      BY <2>4, <3>1, <3>2
    <3> QED
      BY <1>0, <3>2, <3>3 DEF WorkInv
  <2>6. CASE rest # {}
    <3>1. PICK d \in Attached : d > u
      BY <2>6
    <3>2. d >= u + 1 /\ u + 1 \in Nat
      BY <2>3, <3>1
    <3> DEFINE f == FirstFrom(u + 1)
    <3>3. f \in Attached /\ f >= u + 1 /\ \A e \in Attached : e >= u + 1 => f <= e
      BY <3>1, <3>2, FirstFromIs
    <3> HIDE DEF work, f, rest
    <3>4. updating'.channel = f /\ updating'.work = work /\ pendingWork'
      <4>1. updating' = [channel |-> f, work |-> work] /\ UNCHANGED pendingWork
        BY <2>1, <2>6 DEF f
      <4> QED
        BY <2>2, <4>1
    <3>5. f \in Nat /\ f # 0
      BY <2>3, <3>2, <3>3
    <3>6. \A c \in Attached : c < f => c < u + 1
      BY <2>3, <3>2, <3>3, <3>5
    <3>7. \A c \in Attached : c < f => ~channels[c].failed /\ (HasWork(channels[c]) => updating'.work)
      BY <2>4, <3>4, <3>6
    <3> QED
      BY <1>0, <3>3, <3>4, <3>5, <3>7 DEF WorkInv
  <2> QED
    BY <2>5, <2>6
<1>5. CASE UNCHANGED <<updating, pendingWork>>
  BY <1>0, <1>5 DEF WorkInv
<1> QED
  BY <1>1, <1>2, <1>3, <1>4, <1>5 DEF Rests, Turns

(* No step makes UpdateBinary miss work.                                     *)
LEMMA WorkStep ==
    ASSUME BinaryType, ErasedInv, WorkInv, [BinaryNext]_binaryVars
    PROVE  WorkInv'
<1>0. ASSUME UNCHANGED <<channels, updating, pendingWork>> PROVE WorkInv'
  BY <1>0 DEF WorkInv, Attached
<1>1. CASE UNCHANGED binaryVars
  BY <1>0, <1>1 DEF binaryVars
<1>2. CASE Rests
  BY <1>2, UpdateTurns
<1>3. CASE PollBulk
  BY <1>0, <1>3 DEF PollBulk
<1>4. ASSUME NEW c \in ChannelId, Does(c) PROVE WorkInv'
  <2>1. CASE Ignores(c)
    BY <1>0, <2>1 DEF Ignores
  <2>2. CASE Attach(c)
    <3>1. /\ Others(c) /\ KeepsQueues(Unattached, channels'[c]) /\ channels'[c].incoming = Unattached.incoming
          /\ channels'[c].failed = FALSE /\ NotInUpdate /\ UNCHANGED <<updating, pendingWork>>
      BY <2>2, AttachEffect
    <3>2. ~HasWork(Unattached)
      BY DEF HasWork, Assembling, Unattached, NoAssembly
    <3>3. ~HasWork(channels'[c])
      BY <3>1, <3>2, SameWork DEF KeepsQueues
    <3> QED
      BY <3>1, <3>3, NoNewWork DEF Others
  <2>3. CASE Detach(c)
    <3>1. /\ Others(c) /\ channels'[c] = Unattached /\ NotInUpdate /\ UNCHANGED updating
          /\ pendingWork' = (pendingWork /\ Attached # {c})
      BY <2>3, DetachEffect
    <3>2. ASSUME NEW d \in Attached', channels'[d].failed \/ HasWork(channels'[d]) PROVE pendingWork'
      <4>1. d \in ChannelId /\ d # c
        BY <3>1, <3>2 DEF Attached, Unattached
      <4>2. channels'[d] = channels[d] /\ d \in Attached
        BY <3>1, <4>1, <3>2 DEF Others, Attached
      <4> QED
        BY <3>1, <3>2, <4>1, <4>2 DEF WorkInv, NotInUpdate
    <3> QED
      BY <3>1, <3>2 DEF WorkInv, NotInUpdate
  <2>4. CASE Fails(c)
    <3>1. /\ Others(c) /\ channels'[c].context = channels[c].context /\ pendingWork' = TRUE /\ UNCHANGED updating
          /\ NotInUpdate \/ c = updating.channel
      BY <2>4 DEF Fails, Refuses, Broken, KeepsPlace
    <3> QED
      BY <3>1, FlagSet, UpdateGoesOn
  <2>5. CASE WakesOne(c)
    BY <1>0, <2>5 DEF WakesOne, WakeUp
  <2>6. ASSUME NEW size \in Nat, Sends(c, size) PROVE WorkInv'
    <3>1. /\ Others(c) /\ NotInUpdate /\ UNCHANGED <<updating, pendingWork>>
          /\ channels'[c].context = channels[c].context /\ channels'[c].failed = channels[c].failed
          /\ channels'[c].messages = channels[c].messages /\ channels'[c].incoming = channels[c].incoming
      BY <2>6 DEF Sends, SendControl, CanSend, Numbered, KeepsPlace, KeepsQueues
    <3>2. HasWork(channels'[c]) <=> HasWork(channels[c])
      BY <3>1, SameWork
    <3> QED
      BY <3>1, <3>2, NoNewWork DEF Others
  <2>7. ASSUME NEW size \in Nat, NEW lane \in OutLane, Holds(c, lane, size) PROVE WorkInv'
    BY <2>7, FlagSet DEF Holds, SendBinary, CanSend
  <2>8. ASSUME NEW size \in Nat, NEW lane \in Lane, Hears(c, lane, size) PROVE WorkInv'
    BY <2>8, FlagSet DEF Hears, Accepts
  <2>9. ASSUME NEW lane \in OutLane, Releases(c, lane) PROVE WorkInv'
    BY <2>9, UpdateGoesOn DEF Releases, Dequeued, KeepsPlace
  <2>10. ASSUME NEW lane \in OutLane, Moves(c, lane) PROVE WorkInv'
    BY <2>10, UpdateGoesOn DEF Moves, Advanced, KeepsPlace
  <2>11. ASSUME NEW frame \in Frame, Posts(c, frame) PROVE WorkInv'
    BY <1>0, <2>11 DEF Posts
  <2> QED
    BY <1>4, <2>1, <2>2, <2>3, <2>4, <2>5, <2>6, <2>7, <2>8, <2>9, <2>10, <2>11 DEF Does
<1> QED
  BY <1>1, <1>2, <1>3, <1>4, BinarySteps

(* What is left of the control queue still holds the messages of a channel   *)
(* whose wake-ups are to come, when exactly the others have gone.            *)
LEMMA KeepsThinned ==
    ASSUME NEW q \in Seq(Delivered), NEW c, NEW p, NEW p2, NEW w, NEW I \in SUBSET (1 .. Len(q)),
           Thinned(w, q, I), KeepsControl(q, c, p),
           Awaited(p2) \subseteq Awaited(p),
           \A i \in I : q[i].channel = c => q[i].id \in Awaited(p2),
           \A i \in 1 .. Len(q) : i \notin I /\ q[i].channel = c => q[i].id \notin Awaited(p2)
    PROVE  KeepsControl(w, c, p2)
<1>1. PICK m \in [1 .. Len(w) -> I] :
        /\ \A i \in 1 .. Len(w) : w[i] = q[m[i]]
        /\ \A i, j \in 1 .. Len(w) : i < j => m[i] < m[j]
        /\ \A k \in I : \E i \in 1 .. Len(w) : m[i] = k
  BY DEF Thinned
<1>2. \A i \in 1 .. Len(w) : w[i].channel = c => w[i].id \in Awaited(p2)
  <2> TAKE i \in 1 .. Len(w)
  <2>1. m[i] \in I /\ w[i] = q[m[i]]
    BY <1>1
  <2> HIDE <1>1
  <2> QED
    BY <2>1
<1>3. ASSUME NEW n \in Awaited(p2) PROVE \E i \in 1 .. Len(w) : w[i].channel = c /\ w[i].id = n
  <2>1. PICK k \in 1 .. Len(q) : q[k].channel = c /\ q[k].id = n
    BY <1>3 DEF KeepsControl
  <2>2. k \in I
    BY <1>3, <2>1
  <2> QED
    BY <1>1, <2>1, <2>2
<1>4. \A i, j \in 1 .. Len(w) : w[i].channel = c /\ w[j].channel = c /\ i < j => w[i].id < w[j].id
  <2> SUFFICES ASSUME NEW i \in 1 .. Len(w), NEW j \in 1 .. Len(w), w[i].channel = c, w[j].channel = c, i < j
               PROVE  w[i].id < w[j].id
    OBVIOUS
  <2>1. m[i] \in 1 .. Len(q) /\ m[j] \in 1 .. Len(q) /\ m[i] < m[j] /\ w[i] = q[m[i]] /\ w[j] = q[m[j]]
    BY <1>1
  <2> QED
    BY <2>1 DEF KeepsControl
<1> QED
  BY <1>2, <1>3, <1>4 DEF KeepsControl

(* A message of another channel makes no difference.                         *)
LEMMA KeepsOthers ==
    ASSUME NEW q \in Seq(Delivered), NEW c, NEW p, NEW x \in Delivered, x.channel # c, KeepsControl(q, c, p)
    PROVE  KeepsControl(Append(q, x), c, p)
<1> DEFINE w == Append(q, x)
<1>1. Len(w) = Len(q) + 1 /\ w[Len(q) + 1] = x /\ \A i \in 1 .. Len(q) : w[i] = q[i]
  OBVIOUS
<1>2. \A i \in 1 .. Len(w) : w[i].channel = c => i \in 1 .. Len(q)
  BY <1>1
<1>3. Len(q) \in Nat
  OBVIOUS
<1> HIDE DEF w
<1>4. \A i \in 1 .. Len(w) : w[i].channel = c => w[i].id \in Awaited(p)
  BY <1>1, <1>2 DEF KeepsControl
<1>5. \A n \in Awaited(p) : \E i \in 1 .. Len(w) : w[i].channel = c /\ w[i].id = n
  <2> TAKE n \in Awaited(p)
  <2>1. PICK i \in 1 .. Len(q) : q[i].channel = c /\ q[i].id = n
    BY DEF KeepsControl
  <2>2. i \in 1 .. Len(w)
    BY <1>1, <1>3
  <2> QED
    BY <1>1, <2>1, <2>2
<1>6. \A i, j \in 1 .. Len(w) : w[i].channel = c /\ w[j].channel = c /\ i < j => w[i].id < w[j].id
  BY <1>1, <1>2 DEF KeepsControl
<1> QED
  BY <1>4, <1>5, <1>6 DEF KeepsControl, w

(* The next control message of a channel goes behind those kept so far.      *)
LEMMA KeepsNext ==
    ASSUME NEW q \in Seq(Delivered), NEW c, NEW p, NEW p2, NEW a \in Nat, NEW n \in Nat,
           NEW x \in Delivered, x.channel = c, x.id = n + 1, a <= n + 1,
           Awaited(p) = a .. n, Awaited(p2) = a .. (n + 1), KeepsControl(q, c, p)
    PROVE  KeepsControl(Append(q, x), c, p2)
<1> DEFINE w == Append(q, x)
<1>1. Len(w) = Len(q) + 1 /\ w[Len(q) + 1] = x /\ \A i \in 1 .. Len(q) : w[i] = q[i]
  OBVIOUS
<1>2. Len(q) \in Nat
  OBVIOUS
<1>3. \A i \in 1 .. Len(w) : i \in 1 .. Len(q) \/ i = Len(q) + 1
  BY <1>1, <1>2
<1> HIDE DEF w
<1>4. \A i \in 1 .. Len(w) : w[i].channel = c => w[i].id \in a .. (n + 1)
  <2> TAKE i \in 1 .. Len(w)
  <2>1. CASE i \in 1 .. Len(q)
    BY <1>1, <2>1 DEF KeepsControl
  <2>2. CASE i = Len(q) + 1
    BY <1>1, <2>2
  <2> QED
    BY <1>3, <2>1, <2>2
<1>5. ASSUME NEW k \in a .. (n + 1) PROVE \E i \in 1 .. Len(w) : w[i].channel = c /\ w[i].id = k
  <2>1. CASE k = n + 1
    <3>1. Len(q) + 1 \in 1 .. Len(w)
      BY <1>1, <1>2
    <3> QED
      BY <1>1, <2>1, <3>1
  <2>2. CASE k # n + 1
    <3>1. k \in Awaited(p)
      BY <2>2
    <3>2. PICK i \in 1 .. Len(q) : q[i].channel = c /\ q[i].id = k
      BY <3>1 DEF KeepsControl
    <3>3. i \in 1 .. Len(w)
      BY <1>1, <1>2
    <3> QED
      BY <1>1, <3>2, <3>3
  <2> QED
    BY <2>1, <2>2
<1>6. ASSUME NEW i \in 1 .. Len(w), NEW j \in 1 .. Len(w), w[i].channel = c, w[j].channel = c, i < j
      PROVE  w[i].id < w[j].id
  <2>1. i \in 1 .. Len(q)
    BY <1>1, <1>2, <1>6
  <2>2. q[i].id \in a .. n /\ w[i].id = q[i].id
    BY <1>1, <1>6, <2>1 DEF KeepsControl
  <2>3. CASE j \in 1 .. Len(q)
    BY <1>1, <1>6, <2>1, <2>3 DEF KeepsControl
  <2>4. CASE j = Len(q) + 1
    <3>1. w[j].id = n + 1
      BY <1>1, <2>4
    <3> QED
      BY <2>2, <3>1
  <2> QED
    BY <1>3, <2>3, <2>4
<1> QED
  BY <1>4, <1>5, <1>6 DEF KeepsControl, w

\* The control lane of a channel.
ControlOn(chs, q, p, c) ==
  /\ p[c].woken <= SentWhole(p[c])
  /\ Assembles(chs[c].incoming["control"], p[c].sending["control"])
  /\ KeepsControl(q, c, p[c])

\* The control lane depends on what is assembled, what is kept, and the peer.
LEMMA ControlKept ==
    ASSUME NEW chs, NEW q, NEW p, NEW chs2, NEW q2, NEW p2, NEW c, ControlOn(chs, q, p, c),
           chs2[c].incoming["control"] = chs[c].incoming["control"],
           p2[c].sending["control"] = p[c].sending["control"], p2[c].woken = p[c].woken,
           KeepsControl(q, c, p[c]) => KeepsControl(q2, c, p[c])
    PROVE  ControlOn(chs2, q2, p2, c)
<1>1. SentWhole(p2[c]) = SentWhole(p[c]) /\ Awaited(p2[c]) = Awaited(p[c])
  BY DEF SentWhole, Awaited
<1>2. KeepsControl(q2, c, p2[c]) <=> KeepsControl(q2, c, p[c])
  BY <1>1 DEF KeepsControl
<1> QED
  BY <1>1, <1>2 DEF ControlOn

\* The types of a peer.
LEMMA PeerTypes ==
    ASSUME NEW p \in Peer
    PROVE  /\ p.woken \in Nat /\ p.datagrams \in Nat /\ p.sending["control"] \in Message /\ p.sending["bulk"] \in Message
           /\ p.sending["control"].id \in Nat /\ p.sending["control"].size \in Nat
           /\ p.sending["control"].offset \in Nat
           /\ SentWhole(p) \in Int /\ Awaited(p) = (p.woken + 1) .. SentWhole(p)
<1>1. p.woken \in Nat /\ p.datagrams \in Nat /\ p.sending["control"] \in Message /\ p.sending["bulk"] \in Message
  BY DEF Peer, Lane
<1> QED
  BY <1>1 DEF Message, SentWhole, Awaited

(* A control frame that the channel accepts.                                 *)
LEMMA ControlHeard ==
    ASSUME BinaryType, NEW c \in ChannelId, NEW size \in Nat,
           Hears(c, "control", size), ~channels'[c].failed, ControlOn(channels, received["control"], remote, c)
    PROVE  ControlOn(channels', received'["control"], remote', c)
<1> DEFINE frame == FrameOf(remote[c], "control", size)
           m == Next1(remote[c], "control", size)
           last == remote[c].sending["control"]
           before == channels[c].incoming["control"]
           w == remote[c].woken
           q == received["control"]
<1>1. /\ frame \in Frame /\ frame.kind = "control" /\ frame.id = m.id /\ frame.total = m.size /\ frame.offset = m.offset
      /\ Accepts(c, frame) /\ PeerSent(c, "control", size)
  BY DEF Hears, FrameOf
<1>2. "control" \in Lane /\ LaneOf("control") = "control"
  BY DEF Lane, LaneOf
<1>3. remote[c] \in Peer /\ remote'[c].woken = w
      /\ remote'[c].sending["control"] = [m EXCEPT !.offset = Min2(m.offset + 1, m.size)]
  BY <1>1 DEF PeerSent, BinaryType, WireType
<1>4. m = (IF last.offset = last.size THEN [id |-> last.id + 1, size |-> size, offset |-> 0] ELSE last)
  BY DEF Next1
<1>5. last \in Message /\ w \in Nat /\ last.id \in Nat /\ last.size \in Nat /\ last.offset \in Nat
  BY <1>3, PeerTypes
<1> DEFINE got == Min2(m.offset + 1, m.size)
           n == [m EXCEPT !.offset = got]
<1>6. m \in Message /\ m.id \in Nat /\ m.size \in Nat /\ m.offset \in Nat
  <2>1. m.id \in Nat /\ m.size \in Nat /\ m.offset \in Nat
    BY <1>4, <1>5
  <2>2. [id |-> last.id + 1, size |-> size, offset |-> 0] \in Message
    BY <1>5 DEF Message
  <2> QED
    BY <1>4, <1>5, <2>1, <2>2
<1> HIDE DEF m
<1>7. n.id = m.id /\ n.size = m.size /\ n.offset = got /\ GotTo(frame) = got /\ got \in Nat
  BY <1>1, <1>6 DEF Message, GotTo, Min2
<1> HIDE DEF n
<1>8. remote'[c].sending["control"] = n
  BY <1>3 DEF n
<1> DEFINE s1 == SentWhole(remote[c])
           s2 == SentWhole(remote'[c])
<1>9. s1 = (IF last.offset = last.size THEN last.id ELSE last.id - 1) /\ s2 = (IF got = m.size THEN m.id ELSE m.id - 1)
  BY <1>7, <1>8 DEF SentWhole
<1>10. m.id = s1 + 1 /\ s1 \in Int
  <2>1. CASE last.offset = last.size
    BY <1>4, <1>5, <1>9, <2>1
  <2>2. CASE last.offset # last.size
    BY <1>4, <1>5, <1>9, <2>2
  <2> QED
    BY <2>1, <2>2
<1>11. w <= s1 /\ Assembles(before, last) /\ KeepsControl(q, c, remote[c])
  BY DEF ControlOn
<1>12. Awaited(remote[c]) = (w + 1) .. s1 /\ Awaited(remote'[c]) = (w + 1) .. s2
  BY <1>3 DEF Awaited
<1> HIDE DEF s1, s2, w, last, frame, got, q, before
<1>13. CASE Completes(c, frame)
  <2>1. /\ channels'[c].incoming["control"] = NoAssembly /\ got = m.size /\ Complete(c, frame)
    BY <1>1, <1>7, <1>13 DEF Completes, Assembling1
  <2>2. s2 = s1 + 1
    BY <1>9, <1>10, <2>1
  <2>3. Assembles(channels'[c].incoming["control"], n)
    BY <1>7, <2>1 DEF Assembles, NoAssembly
  <2>4. PICK x \in Delivered : \E k \in Lane :
          /\ k = LaneOf(frame.kind) /\ x.channel = c /\ x.id = frame.id
          /\ received'[k] = Append(received[k], x)
    BY <1>1, <2>1, CompleteEffect
  <2>5. x.channel = c /\ x.id = s1 + 1 /\ received'["control"] = Append(q, x)
    BY <1>1, <1>2, <1>10, <2>4 DEF q
  <2>6. q \in Seq(Delivered)
    BY <1>2 DEF q, BinaryType, ReceiveType
  <2>7. w + 1 \in Nat /\ s1 \in Nat /\ w + 1 <= s1 + 1
    BY <1>5, <1>10, <1>11
  <2>8. Awaited(remote'[c]) = (w + 1) .. (s1 + 1)
    BY <1>12, <2>2
  <2>9. KeepsControl(Append(q, x), c, remote'[c])
    BY <1>11, <1>12, <2>5, <2>6, <2>7, <2>8, KeepsNext
  <2>10. remote'[c].woken <= s2
    BY <1>3, <1>5, <1>10, <1>11, <2>2 DEF w
  <2> QED
    BY <1>8, <2>3, <2>5, <2>9, <2>10 DEF ControlOn, s2
<1>14. CASE Collects(c, frame)
  <2> DEFINE g == Begun(c, frame)
             x == [g EXCEPT !.got = got]
  <2>1. /\ channels'[c].incoming["control"] = x /\ got # m.size /\ received' = received
    BY <1>1, <1>7, <1>14 DEF Collects, Assembling1, Rest4
  <2>2. s2 = s1
    BY <1>6, <1>9, <1>10, <2>1
  <2>3. g \in Assembly /\ g.active = TRUE /\ g.id = m.id /\ g.total = m.size
    <3>1. Continues(g, frame) /\ g \in Assembly
      BY <1>1, <1>2, BegunType DEF Accepts
    <3>2. g.active = TRUE
      <4>1. channels[c].incoming["control"] \in Assembly
        BY <1>1, <1>2, BegunType
      <4> QED
        BY <1>1, <4>1 DEF Begun, Assembly
    <3> QED
      BY <1>1, <3>1, <3>2 DEF Continues
  <2> HIDE DEF g
  <2>4. x.active = TRUE /\ x.id = m.id /\ x.total = m.size /\ x.got = got
    BY <2>3 DEF Assembly
  <2> HIDE DEF x
  <2>5. Assembles(x, n)
    BY <1>7, <2>1, <2>4 DEF Assembles
  <2>6. Awaited(remote'[c]) = Awaited(remote[c])
    BY <1>12, <2>2
  <2>7. KeepsControl(received'["control"], c, remote'[c])
    BY <1>11, <2>1, <2>6 DEF KeepsControl, q
  <2>8. remote'[c].woken <= s2
    BY <1>3, <1>11, <2>2 DEF w
  <2> QED
    BY <1>8, <2>1, <2>5, <2>7, <2>8 DEF ControlOn, s2
<1> QED
  BY <1>1, <1>13, <1>14 DEF Accepts

\* Of the channels but c, a step keeps the control lanes.
OthersKept(c) ==
  \A d \in ChannelId : d # c /\ KeepsControl(received["control"], d, remote[d]) =>
                         KeepsControl(received'["control"], d, remote[d])

(* A step of one channel, which keeps or cleans up its own control lane.     *)
LEMMA ControlOfOne ==
    ASSUME NEW c \in ChannelId, ControlInv, Others(c), SameElsewhere(c), OthersKept(c),
           channels'[c].context # 0 /\ ~channels'[c].failed => ControlOn(channels', received'["control"], remote', c)
    PROVE  ControlInv'
<1>1. ASSUME NEW d \in Attached', ~channels'[d].failed PROVE ControlOn(channels', received'["control"], remote', d)
  <2>1. CASE d = c
    BY <1>1, <2>1 DEF Attached
  <2>2. CASE d # c
    <3>1. d \in ChannelId /\ channels'[d] = channels[d] /\ remote'[d] = remote[d]
      BY <1>1, <2>2 DEF Attached, Others, SameElsewhere
    <3>2. d \in Attached /\ ~channels[d].failed
      BY <1>1, <3>1 DEF Attached
    <3>3. ControlOn(channels, received["control"], remote, d)
      BY <3>2 DEF ControlInv, ControlOn
    <3>4. KeepsControl(received["control"], d, remote[d]) => KeepsControl(received'["control"], d, remote[d])
      BY <2>2, <3>1 DEF OthersKept
    <3>5. /\ channels'[d].incoming["control"] = channels[d].incoming["control"]
          /\ remote'[d].sending["control"] = remote[d].sending["control"] /\ remote'[d].woken = remote[d].woken
      BY <3>1
    <3> HIDE DEF KeepsControl
    <3> QED
      BY <3>3, <3>4, <3>5, ControlKept
  <2> QED
    BY <2>1, <2>2
<1> QED
  BY <1>1 DEF ControlInv, ControlOn

\* A step that leaves the control queue and the channel's control lane alone.
LEMMA ControlAlone ==
    ASSUME NEW c \in ChannelId, ControlInv, Others(c), SameElsewhere(c),
           received'["control"] = received["control"],
           channels'[c].context # 0 /\ ~channels'[c].failed => channels[c].context # 0 /\ ~channels[c].failed,
           channels'[c].incoming["control"] = channels[c].incoming["control"],
           remote'[c].sending["control"] = remote[c].sending["control"], remote'[c].woken = remote[c].woken
    PROVE  ControlInv'
<1>1. OthersKept(c)
  BY DEF OthersKept
<1>2. ASSUME channels'[c].context # 0 /\ ~channels'[c].failed PROVE ControlOn(channels', received'["control"], remote', c)
  <2>1. c \in Attached /\ ~channels[c].failed
    BY <1>2 DEF Attached
  <2>2. ControlOn(channels, received["control"], remote, c)
    BY <2>1 DEF ControlInv, ControlOn
  <2>3. KeepsControl(received["control"], c, remote[c]) => KeepsControl(received'["control"], c, remote[c])
    OBVIOUS
  <2> QED
    BY <2>2, <2>3, ControlKept
<1> QED
  BY <1>1, <1>2, ControlOfOne

\* A channel that is attached finds nothing of an earlier one.
LEMMA ControlAttached ==
    ASSUME BinaryType, ErasedInv, ControlInv, NEW c \in ChannelId, Attach(c)
    PROVE  ControlInv'
<1>1. /\ Others(c) /\ SameElsewhere(c) /\ channels'[c].incoming = Unattached.incoming /\ remote'[c] = NewRemote
      /\ channels[c].context = 0 /\ received' = received
  BY AttachEffect
<1>2. \A i \in 1 .. Len(received["control"]) : received["control"][i].channel # c
  BY <1>1 DEF ErasedInv, Attached, Lane
<1>3. Awaited(NewRemote) = {} /\ NewRemote.woken <= SentWhole(NewRemote)
  BY DEF Awaited, SentWhole, NewRemote, Lane
<1>4. Assembles(Unattached.incoming["control"], NewRemote.sending["control"])
  BY DEF Assembles, Unattached, NoAssembly, NewRemote, Lane
<1>5. KeepsControl(received["control"], c, NewRemote)
  BY <1>2, <1>3 DEF KeepsControl
<1>6. ControlOn(channels', received'["control"], remote', c)
  BY <1>1, <1>3, <1>4, <1>5 DEF ControlOn
<1>7. OthersKept(c)
  BY <1>1 DEF OthersKept
<1> QED
  BY <1>1, <1>6, <1>7, ControlOfOne

\* A channel that is detached takes its own messages with it.
LEMMA ControlDetached ==
    ASSUME BinaryType, ControlInv, NEW c \in ChannelId, Detach(c)
    PROVE  ControlInv'
<1>1. /\ Others(c) /\ SameElsewhere(c) /\ channels'[c] = Unattached
      /\ \A l \in Lane : received'[l] = NotMine(c, received[l])
  BY DetachEffect
<1> DEFINE q == received["control"]
           I == (1 .. Len(q)) \ OfChannel(c, q)
<1>2. q \in Seq(Delivered) /\ received'["control"] = NotMine(c, q)
  BY <1>1 DEF BinaryType, ReceiveType, Lane
<1>3. Thinned(NotMine(c, q), q, I) /\ I \in SUBSET (1 .. Len(q))
  BY <1>2, MineFacts
<1>4. \A i \in 1 .. Len(q) : i \notin I => q[i].channel = c
  BY <1>2 DEF OfChannel
<1>5. received["control"] = q
  OBVIOUS
<1> HIDE DEF q, I
<1>6. ASSUME NEW d \in ChannelId, d # c, KeepsControl(q, d, remote[d]) PROVE KeepsControl(NotMine(c, q), d, remote[d])
  <2>1. \A i \in I : q[i].channel = d => q[i].id \in Awaited(remote[d])
    BY <1>3, <1>6 DEF KeepsControl
  <2>2. \A i \in 1 .. Len(q) : i \notin I /\ q[i].channel = d => q[i].id \notin Awaited(remote[d])
    BY <1>4, <1>6
  <2> QED
    BY <1>2, <1>3, <1>6, <2>1, <2>2, KeepsThinned
<1>7. OthersKept(c)
  BY <1>2, <1>5, <1>6 DEF OthersKept
<1>8. channels'[c].context = 0
  BY <1>1 DEF Unattached
<1> QED
  BY <1>1, <1>7, <1>8, ControlOfOne

\* A wake-up takes the first control message of its channel.
LEMMA ControlWakes ==
    ASSUME BinaryType, ControlInv, NEW c \in ChannelId, WakesOne(c)
    PROVE  ControlInv'
<1> DEFINE q == received["control"]
           f == FirstControl(c)
           w == remote[c].woken
           I == (1 .. Len(q)) \ {f}
<1>1. /\ SameElsewhere(c) /\ UNCHANGED channels
      /\ remote'[c].sending = remote[c].sending /\ remote'[c].woken = w + 1
      /\ w < SentWhole(remote[c]) /\ ControlOf(c) # {} /\ q[f].id = w + 1 /\ Taken("control", f)
  BY DEF WakesOne, WakeUp, PayloadWaits, Announced, SentWhole
<1>2. /\ f \in 1 .. Len(q) /\ q[f].channel = c
      /\ \A j \in 1 .. Len(q) : q[j].channel = c => f <= j
  BY <1>1, FirstControlIs
<1>3. "control" \in Lane /\ q \in Seq(Delivered)
  BY DEF BinaryType, ReceiveType, Lane
<1>4. Thinned(received'["control"], q, I) /\ I \in SUBSET (1 .. Len(q))
  BY <1>1, <1>2, <1>3, TakenEffect
<1>5. received["control"] = q /\ Others(c)
  BY <1>1 DEF Others, BinaryType, ChannelsType
<1>6. \A i \in 1 .. Len(q) : i \notin I => i = f
  OBVIOUS
<1>7. remote[c] \in Peer /\ remote'[c] \in Peer
  BY <1>1 DEF SameElsewhere, BinaryType, WireType
<1> HIDE DEF q, f, I
<1>8. OthersKept(c)
  <2> SUFFICES ASSUME NEW d \in ChannelId, d # c, KeepsControl(q, d, remote[d])
               PROVE  KeepsControl(received'["control"], d, remote[d])
    BY <1>5 DEF OthersKept
  <2>1. \A i \in I : q[i].channel = d => q[i].id \in Awaited(remote[d])
    BY <1>4 DEF KeepsControl
  <2>2. \A i \in 1 .. Len(q) : i \notin I /\ q[i].channel = d => q[i].id \notin Awaited(remote[d])
    BY <1>2, <1>6
  <2> QED
    BY <1>3, <1>4, <2>1, <2>2, KeepsThinned
<1>9. ASSUME channels'[c].context # 0 /\ ~channels'[c].failed PROVE ControlOn(channels', received'["control"], remote', c)
  <2>1. c \in Attached /\ ~channels[c].failed
    BY <1>1, <1>9 DEF Attached
  <2>2. /\ Assembles(channels[c].incoming["control"], remote[c].sending["control"])
        /\ KeepsControl(q, c, remote[c])
    BY <2>1, <1>5 DEF ControlInv
  <2> DEFINE s == SentWhole(remote[c])
  <2>3. s \in Int /\ w \in Nat /\ Awaited(remote[c]) = (w + 1) .. s /\ w < s
    BY <1>1, <1>7, PeerTypes
  <2>4. SentWhole(remote'[c]) = s
    BY <1>1 DEF SentWhole
  <2>5. Awaited(remote'[c]) = (w + 2) .. s
    <3>1. Awaited(remote'[c]) = (remote'[c].woken + 1) .. SentWhole(remote'[c])
      BY DEF Awaited
    <3>2. (w + 1) + 1 = w + 2
      BY <2>3
    <3> QED
      BY <1>1, <2>4, <3>1, <3>2
  <2> HIDE DEF s, w
  <2>6. Awaited(remote'[c]) \subseteq Awaited(remote[c])
    BY <2>3, <2>5
  <2>7. \A i \in I : q[i].channel = c => q[i].id \in Awaited(remote'[c])
    <3> SUFFICES ASSUME NEW i \in I, q[i].channel = c PROVE q[i].id \in (w + 2) .. s
      BY <2>5
    <3>1. i \in 1 .. Len(q) /\ i # f /\ f <= i
      BY <1>2, <1>4 DEF I
    <3>2. f < i
      BY <1>2, <3>1
    <3>3. q[f].id < q[i].id /\ q[i].id \in (w + 1) .. s
      BY <1>2, <2>2, <2>3, <3>1, <3>2 DEF KeepsControl
    <3> QED
      BY <1>1, <2>3, <3>3
  <2>8. \A i \in 1 .. Len(q) : i \notin I /\ q[i].channel = c => q[i].id \notin Awaited(remote'[c])
    BY <1>1, <1>6, <2>3, <2>5
  <2>9. KeepsControl(received'["control"], c, remote'[c])
    BY <1>3, <1>4, <2>2, <2>6, <2>7, <2>8, KeepsThinned
  <2>10. remote'[c].woken <= SentWhole(remote'[c])
    BY <1>1, <2>3, <2>4
  <2> QED
    BY <1>1, <2>2, <2>9, <2>10 DEF ControlOn
<1> QED
  BY <1>1, <1>5, <1>8, <1>9, ControlOfOne

\* A complete message goes to the end of its lane.
LEMMA CompleteOn ==
    ASSUME BinaryType, NEW c \in ChannelId, NEW frame \in Frame, Complete(c, frame)
    PROVE  /\ \E m \in Delivered : m.channel = c /\ received'[LaneOf(frame.kind)] = Append(received[LaneOf(frame.kind)], m)
           /\ \A l \in Lane : l # LaneOf(frame.kind) => received'[l] = received[l]
<1>1. PICK m \in Delivered : \E lane \in Lane :
             /\ lane = LaneOf(frame.kind)
             /\ m.channel = c /\ m.id = frame.id /\ m.size = frame.total
             /\ received' \in [Lane -> Seq(Delivered)]
             /\ received'[lane] = Append(received[lane], m)
             /\ \A l \in Lane : l # lane => received'[l] = received[l]
             /\ receiveMessages' = receiveMessages + 1 /\ pendingReceive' = TRUE
  BY CompleteEffect
<1> QED
  BY <1>1

\* A frame of the bulk lane leaves the control lane alone, one of the control lane extends it.
LEMMA ControlHears ==
    ASSUME BinaryType, ControlInv, NEW c \in ChannelId, NEW lane \in Lane, NEW size \in Nat, Hears(c, lane, size)
    PROVE  ControlInv'
<1> DEFINE frame == FrameOf(remote[c], lane, size)
<1>1. /\ frame \in Frame /\ frame.kind = lane /\ Accepts(c, frame) /\ PeerSent(c, lane, size)
      /\ channels[c].context # 0 /\ ~channels[c].failed /\ UNCHANGED sent
  BY DEF Hears, FrameOf
<1>2. Others(c) /\ SameElsewhere(c)
  BY <1>1 DEF Accepts, Completes, Collects, PeerSent, SameElsewhere, BinaryType, WireType
<1>3. LaneOf(lane) = lane
  BY DEF LaneOf, Lane
<1> HIDE DEF frame
<1>4. CASE lane = "control"
  <2>1. ControlOn(channels, received["control"], remote, c)
    BY <1>1 DEF ControlInv, ControlOn, Attached
  <2>2. ~channels'[c].failed => ControlOn(channels', received'["control"], remote', c)
    BY <1>4, <2>1, ControlHeard
  <2>3. OthersKept(c)
    <3>1. CASE Completes(c, frame)
      <4>0. Complete(c, frame)
        BY <3>1 DEF Completes
      <4>1. LaneOf(frame.kind) = "control"
        BY <1>1, <1>3, <1>4
      <4>2. PICK x \in Delivered : x.channel = c /\ received'["control"] = Append(received["control"], x)
        BY <1>1, <4>0, <4>1, CompleteOn
      <4>3. received["control"] \in Seq(Delivered)
        BY DEF BinaryType, ReceiveType, Lane
      <4> QED
        BY <4>2, <4>3, KeepsOthers DEF OthersKept
    <3>2. CASE Collects(c, frame)
      BY <3>2 DEF Collects, Rest4, OthersKept
    <3> QED
      BY <1>1, <3>1, <3>2 DEF Accepts
  <2> QED
    BY <1>2, <2>2, <2>3, ControlOfOne
<1>5. CASE lane # "control"
  <2>1. received'["control"] = received["control"]
    <3>1. CASE Completes(c, frame)
      <4>1. Complete(c, frame)
        BY <3>1 DEF Completes
      <4>2. LaneOf(frame.kind) # "control" /\ "control" \in Lane
        BY <1>1, <1>3, <1>5 DEF Lane
      <4> QED
        BY <1>1, <4>1, <4>2, CompleteOn
    <3>2. CASE Collects(c, frame)
      BY <3>2 DEF Collects, Rest4
    <3> QED
      BY <1>1, <3>1, <3>2 DEF Accepts
  <2>2. channels'[c].incoming["control"] = channels[c].incoming["control"]
    BY <1>1, <1>5 DEF Accepts, Completes, Collects, Assembling1, Lane
  <2>3. remote'[c].sending["control"] = remote[c].sending["control"] /\ remote'[c].woken = remote[c].woken
    BY <1>1, <1>5 DEF PeerSent, Lane
  <2> QED
    BY <1>1, <1>2, <2>1, <2>2, <2>3, ControlAlone
<1> QED
  BY <1>4, <1>5

(* Every step keeps the payload of each wake-up that is still to come.       *)
LEMMA ControlStep ==
    ASSUME BinaryType, ErasedInv, WorkInv, ControlInv, [BinaryNext]_binaryVars
    PROVE  ControlInv'
<1>0. ASSUME UNCHANGED <<channels, remote>>, received'["control"] = received["control"] PROVE ControlInv'
  BY <1>0 DEF ControlInv, Attached
<1>1. CASE UNCHANGED binaryVars
  BY <1>0, <1>1 DEF binaryVars
<1>2. CASE Rests
  BY <1>0, <1>2 DEF Rests
<1>3. CASE PollBulk
  <2>1. /\ "bulk" \in Lane /\ "control" \in Lane /\ received["bulk"] \in Seq(Delivered) /\ received["bulk"] # << >>
        /\ Taken("bulk", 1) /\ UNCHANGED <<channels, remote>>
    BY <1>3 DEF PollBulk, Lane, BinaryType, ReceiveType
  <2>2. 1 \in 1 .. Len(received["bulk"])
    BY <2>1
  <2>3. \A l \in Lane : l # "bulk" => received'[l] = received[l]
    BY <2>1, <2>2, TakenEffect
  <2> QED
    BY <1>0, <2>1, <2>3
<1>4. ASSUME NEW c \in ChannelId, Does(c) PROVE ControlInv'
  <2>1. CASE Ignores(c)
    <3>1. UNCHANGED <<channels, received>> /\ SameElsewhere(c) /\ channels[c].failed
      BY <2>1 DEF Ignores
    <3>2. Others(c) /\ OthersKept(c)
      BY <3>1 DEF Others, OthersKept, BinaryType, ChannelsType
    <3> QED
      BY <3>1, <3>2, ControlOfOne
  <2>2. CASE Attach(c)
    BY <2>2, ControlAttached
  <2>3. CASE Detach(c)
    BY <2>3, ControlDetached
  <2>4. CASE Fails(c)
    <3>1. UNCHANGED received /\ Others(c) /\ SameElsewhere(c) /\ channels'[c].failed
      BY <2>4 DEF Fails, Refuses, Rest4, Broken
    <3>2. OthersKept(c)
      BY <3>1 DEF OthersKept
    <3> QED
      BY <3>1, <3>2, ControlOfOne
  <2>5. CASE WakesOne(c)
    BY <2>5, ControlWakes
  <2>6. ASSUME NEW size \in Nat, Sends(c, size) PROVE ControlInv'
    <3>1. /\ Others(c) /\ SameElsewhere(c) /\ UNCHANGED <<received, remote>>
          /\ channels'[c].context = channels[c].context /\ channels'[c].failed = channels[c].failed
          /\ channels'[c].incoming = channels[c].incoming
      BY <2>6 DEF Sends, SendControl, Numbered, KeepsPlace
    <3> QED
      BY <3>1, ControlAlone
  <2>7. ASSUME NEW size \in Nat, NEW lane \in OutLane, Holds(c, lane, size) PROVE ControlInv'
    <3>1. /\ Others(c) /\ UNCHANGED <<received, remote, sent>>
          /\ channels'[c].context = channels[c].context /\ channels'[c].failed = channels[c].failed
          /\ channels'[c].incoming = channels[c].incoming
      BY <2>7 DEF Holds, SendBinary, Queued, KeepsPlace
    <3>2. SameElsewhere(c)
      BY <3>1 DEF SameElsewhere, BinaryType, WireType
    <3> QED
      BY <3>1, <3>2, ControlAlone
  <2>8. ASSUME NEW size \in Nat, NEW lane \in Lane, Hears(c, lane, size) PROVE ControlInv'
    BY <2>8, ControlHears
  <2>9. ASSUME NEW lane \in OutLane, Releases(c, lane) PROVE ControlInv'
    <3>1. /\ Others(c) /\ SameElsewhere(c) /\ UNCHANGED <<received, remote>>
          /\ channels'[c].context = channels[c].context /\ channels'[c].failed = channels[c].failed
          /\ channels'[c].incoming = channels[c].incoming
      BY <2>9 DEF Releases, Dequeued, KeepsPlace
    <3> QED
      BY <3>1, ControlAlone
  <2>10. ASSUME NEW lane \in OutLane, Moves(c, lane) PROVE ControlInv'
    <3>1. /\ Others(c) /\ SameElsewhere(c) /\ UNCHANGED <<received, remote>>
          /\ channels'[c].context = channels[c].context /\ channels'[c].failed = channels[c].failed
          /\ channels'[c].incoming = channels[c].incoming
      BY <2>10 DEF Moves, Advanced, KeepsPlace
    <3> QED
      BY <3>1, ControlAlone
  <2>11. ASSUME NEW frame \in Frame, Posts(c, frame) PROVE ControlInv'
    <3>1. /\ UNCHANGED channels /\ SameElsewhere(c) /\ Complete(c, frame) /\ LaneOf(frame.kind) = "bulk"
          /\ remote'[c].sending = remote[c].sending /\ remote'[c].woken = remote[c].woken
      BY <2>11 DEF Posts, LaneOf
    <3>2. "control" \in Lane /\ "control" # "bulk"
      BY DEF Lane
    <3>3. received'["control"] = received["control"]
      BY <3>1, <3>2, CompleteOn
    <3>4. Others(c)
      BY <3>1 DEF Others, BinaryType, ChannelsType
    <3> QED
      BY <3>1, <3>3, <3>4, ControlAlone
  <2> QED
    BY <1>4, <2>1, <2>2, <2>3, <2>4, <2>5, <2>6, <2>7, <2>8, <2>9, <2>10, <2>11 DEF Does
<1> QED
  BY <1>1, <1>2, <1>3, <1>4, BinarySteps

\* Numbering more messages keeps the order of those that wait.
LEMMA OrderKept ==
    ASSUME NEW q \in Seq(Message), NEW g \in Message, NEW n \in Nat, InOrder(q, g, n)
    PROVE  InOrder(q, g, n + 1)
<1>1. g.id \in Nat /\ \A i \in 1 .. Len(q) : q[i].id \in Nat
  <2>1. \A i \in 1 .. Len(q) : q[i] \in Message
    OBVIOUS
  <2>2. \A x \in Message : x.id \in Nat
    BY DEF Message
  <2> QED
    BY <2>1, <2>2
<1>2. g.id <= n + 1 /\ \A i \in 1 .. Len(q) : q[i].id <= n + 1
  BY <1>1 DEF InOrder
<1> QED
  BY <1>2 DEF InOrder

(* A message that joins the queue comes after all others.                    *)
LEMMA OrderAppended ==
    ASSUME NEW q \in Seq(Message), NEW g \in Message, NEW n \in Nat, InOrder(q, g, n),
           NEW m \in Message, m.id = n + 1, m.offset = 0
    PROVE  InOrder(Append(q, m), g, n + 1)
<1> DEFINE w == Append(q, m)
<1>1. Len(w) = Len(q) + 1 /\ w[Len(q) + 1] = m /\ \A i \in 1 .. Len(q) : w[i] = q[i]
  OBVIOUS
<1>2. Len(q) \in Nat /\ w # << >> /\ (q # << >> => 1 \in 1 .. Len(q)) /\ (q = << >> => Len(q) = 0)
  <2>1. Len(q) \in Nat
    OBVIOUS
  <2>2. w \in Seq(Message) /\ w # << >>
    BY AppendProperties
  <2>3. q # << >> => Len(q) \in Nat \ {0}
    BY EmptySeq
  <2>4. q = << >> => Len(q) = 0
    BY EmptySeq
  <2> HIDE DEF w
  <2>5. PICK l \in Nat : l = Len(q)
    BY <2>1
  <2>6. q # << >> => 1 \in 1 .. l
    BY <2>3, <2>5
  <2> QED
    BY <2>1, <2>2, <2>4, <2>5, <2>6
<1>3. g.id \in Nat /\ \A i \in 1 .. Len(q) : q[i].id \in Nat
  <2>1. \A i \in 1 .. Len(q) : q[i] \in Message
    OBVIOUS
  <2>2. \A x \in Message : x.id \in Nat
    BY DEF Message
  <2> QED
    BY <2>1, <2>2
<1>4. \A i \in 1 .. Len(w) : i \in 1 .. Len(q) \/ i = Len(q) + 1
  BY <1>1, <1>2
<1> HIDE DEF w
<1>5. g.id <= n + 1 /\ g.id < n + 1 /\ \A i \in 1 .. Len(q) : q[i].id < n + 1
  BY <1>3 DEF InOrder
<1>6. \A i \in 1 .. Len(w) : w[i].id <= n + 1 /\ (i > 1 => w[i].offset = 0)
  <2> TAKE i \in 1 .. Len(w)
  <2>1. CASE i \in 1 .. Len(q)
    BY <1>1, <1>3, <1>5, <2>1 DEF InOrder
  <2>2. CASE i = Len(q) + 1
    BY <1>1, <2>2
  <2> QED
    BY <1>4, <2>1, <2>2
<1>7. \A i, j \in 1 .. Len(w) : i < j => w[i].id < w[j].id
  <2> SUFFICES ASSUME NEW i \in 1 .. Len(w), NEW j \in 1 .. Len(w), i < j PROVE w[i].id < w[j].id
    OBVIOUS
  <2>1. i \in 1 .. Len(q)
    BY <1>1, <1>2
  <2>2. CASE j \in 1 .. Len(q)
    BY <1>1, <2>1, <2>2 DEF InOrder
  <2>3. CASE j = Len(q) + 1
    BY <1>1, <1>5, <2>1, <2>3
  <2> QED
    BY <1>4, <2>2, <2>3
<1>8. IF w[1].offset # 0
      THEN w[1].offset < w[1].size /\ g.id = w[1].id /\ g.size = w[1].size /\ g.offset = w[1].offset
      ELSE g.offset = g.size /\ \A i \in 1 .. Len(w) : g.id < w[i].id
  <2>1. CASE q = << >>
    <3>1. w[1] = m /\ g.offset = g.size
      BY <1>1, <1>2, <2>1 DEF InOrder
    <3>2. \A i \in 1 .. Len(w) : w[i] = m
      BY <1>1, <1>2, <1>4, <2>1
    <3> QED
      BY <1>5, <3>1, <3>2
  <2>2. CASE q # << >>
    <3>1. w[1] = q[1]
      BY <1>1, <1>2, <2>2
    <3>2. CASE q[1].offset # 0
      BY <2>2, <3>1, <3>2 DEF InOrder
    <3>3. CASE q[1].offset = 0
      <4>1. g.offset = g.size /\ \A i \in 1 .. Len(q) : g.id < q[i].id
        BY <3>3 DEF InOrder
      <4>2. \A i \in 1 .. Len(w) : g.id < w[i].id
        BY <1>1, <1>4, <1>5, <4>1
      <4> QED
        BY <3>1, <3>3, <4>1, <4>2
    <3> QED
      BY <3>2, <3>3
  <2> QED
    BY <2>1, <2>2
<1> QED
  BY <1>2, <1>5, <1>6, <1>7, <1>8 DEF InOrder, w

(* The message at the head leaves with its last frame.                       *)
LEMMA OrderTail ==
    ASSUME NEW q \in Seq(Message), NEW g, NEW n \in Nat, InOrder(q, g, n), q # << >>,
           NEW h \in Message, h.id = Head(q).id, h.offset = h.size
    PROVE  InOrder(Tail(q), h, n)
<1> DEFINE w == Tail(q)
<1>1. Len(w) = Len(q) - 1 /\ Len(q) \in Nat /\ 1 \in 1 .. Len(q) /\ Head(q) = q[1]
  OBVIOUS
<1>2. \A i \in 1 .. Len(w) : w[i] = q[i + 1] /\ i + 1 \in 1 .. Len(q) /\ i + 1 > 1
  OBVIOUS
<1>3. w # << >> => 1 \in 1 .. Len(w)
  OBVIOUS
<1> HIDE DEF w
<1>4. h.id <= n /\ \A i \in 1 .. Len(w) : w[i].id <= n /\ w[i].offset = 0 /\ h.id < w[i].id
  BY <1>1, <1>2 DEF InOrder
<1>5. \A i, j \in 1 .. Len(w) : i < j => w[i].id < w[j].id
  <2> SUFFICES ASSUME NEW i \in 1 .. Len(w), NEW j \in 1 .. Len(w), i < j PROVE w[i].id < w[j].id
    OBVIOUS
  <2>1. i + 1 < j + 1
    OBVIOUS
  <2> QED
    BY <1>2, <2>1 DEF InOrder
<1> QED
  BY <1>3, <1>4, <1>5 DEF InOrder, w

(* A frame of the message at the head, which is not its last.                *)
LEMMA OrderMoved ==
    ASSUME NEW q \in Seq(Message), NEW g, NEW n \in Nat, InOrder(q, g, n), q # << >>,
           NEW w \in Seq(Message), Len(w) = Len(q), \A i \in 1 .. Len(q) : i # 1 => w[i] = q[i],
           NEW o \in Nat, o # 0, o < q[1].size, w[1] = [q[1] EXCEPT !.offset = o],
           NEW h \in Message, h.id = q[1].id, h.size = q[1].size, h.offset = o
    PROVE  InOrder(w, h, n)
<1>1. Len(q) \in Nat /\ 1 \in 1 .. Len(q) /\ w # << >>
  OBVIOUS
<1>2. w[1].id = q[1].id /\ w[1].size = q[1].size /\ w[1].offset = o
  BY <1>1 DEF Message
<1>3. \A i \in 1 .. Len(w) : w[i].id = q[i].id /\ (i > 1 => w[i].offset = q[i].offset)
  <2> TAKE i \in 1 .. Len(w)
  <2>1. CASE i = 1
    <3>1. w[i].id = q[i].id
      BY <1>2, <2>1
    <3>2. ~(i > 1)
      BY <2>1
    <3> QED
      BY <3>1, <3>2
  <2>2. CASE i # 1
    BY <2>2
  <2> QED
    BY <2>1, <2>2
<1>4. h.id <= n /\ \A i \in 1 .. Len(w) : w[i].id <= n /\ (i > 1 => w[i].offset = 0)
  BY <1>1, <1>3 DEF InOrder
<1>5. \A i, j \in 1 .. Len(w) : i < j => w[i].id < w[j].id
  BY <1>3 DEF InOrder
<1> QED
  BY <1>1, <1>2, <1>4, <1>5 DEF InOrder

\* The types of what was sent.
LEMMA SentTypes ==
    ASSUME BinaryType, NEW c \in ChannelId
    PROVE  /\ sent[c].frames \in [Kind -> Message] /\ sent[c].last \in Kind
           /\ sent[c].frames["control"] \in Message /\ sent[c].frames["bulk"] \in Message
           /\ channels[c] \in Channel /\ channels[c].next \in Nat /\ channels[c].outgoing["bulk"] \in Seq(Message)
           /\ \A l \in OutLane : channels[c].outgoing[l] \in Seq(Message)
           /\ "bulk" \in OutLane /\ "control" \notin OutLane /\ "bulk" \in Kind /\ "control" \in Kind
<1>1. sent[c] \in LastSent /\ channels[c] \in Channel
  BY DEF BinaryType, WireType, ChannelsType
<1>2. "bulk" \in OutLane /\ "control" \notin OutLane /\ "bulk" \in Kind /\ "control" \in Kind
  BY DEF OutLane, Kind, Lane
<1>3. sent[c].frames \in [Kind -> Message] /\ sent[c].last \in Kind
  BY <1>1 DEF LastSent
<1> QED
  BY <1>1, <1>2, <1>3, ChannelTypes

\* What a step of one channel has to keep of the wire.
LEMMA WireOfOne ==
    ASSUME NEW c \in ChannelId, WireInv, Others(c), SameElsewhere(c),
           channels'[c].context # 0 => WireOf(channels'[c], sent'[c])
    PROVE  WireInv'
<1>1. ASSUME NEW d \in Attached' PROVE WireOf(channels'[d], sent'[d])
  <2>1. CASE d = c
    BY <2>1 DEF Attached
  <2>2. CASE d # c
    <3>1. d \in ChannelId /\ channels'[d] = channels[d] /\ sent'[d] = sent[d]
      BY <2>2 DEF Attached, Others, SameElsewhere
    <3>2. d \in Attached
      BY <3>1 DEF Attached
    <3>3. WireOf(channels[d], sent[d])
      BY <3>2 DEF WireInv
    <3> QED
      BY <3>1, <3>3
  <2> QED
    BY <2>1, <2>2
<1> QED
  BY <1>1 DEF WireInv

\* A step that sends nothing, and leaves the lanes of the channel alone.
LEMMA WireAlone ==
    ASSUME NEW a, NEW b, NEW s, WireOf(a, s), a.failed => b.failed,
           b.next = a.next, b.preferUnreliable = a.preferUnreliable, b.outgoing["bulk"] = a.outgoing["bulk"]
    PROVE  WireOf(b, s)
BY DEF WireOf

\* A channel fails: whatever was sent of a control message, its turn is kept.
LEMMA WireFails ==
    ASSUME BinaryType, WorkInv, WireInv, NEW c \in ChannelId, Fails(c)
    PROVE  WireInv'
<1>1. /\ Others(c) /\ SameElsewhere(c) /\ channels'[c].failed = TRUE /\ channels[c].context # 0
      /\ channels'[c].preferUnreliable = channels[c].preferUnreliable /\ SendsPart(c)
  BY DEF Fails, Refuses, Broken, KeepsTurn
<1>2. WireOf(channels[c], sent[c])
  BY <1>1 DEF WireInv, Attached
<1>3. sent'[c] = sent[c] \/ sent'[c].last = "control"
  <2>1. CASE sent'[c] = sent[c]
    BY <2>1
  <2>2. CASE sent'[c] # sent[c]
    <3>1. PICK id, offset, size \in Nat : Sent(c, "control", id, offset, size)
      BY <1>1, <2>2 DEF SendsPart
    <3> QED
      BY <3>1, SentEffect, SentTypes
  <2> QED
    BY <2>1, <2>2
<1>4. WireOf(channels'[c], sent'[c])
  BY <1>1, <1>2, <1>3, SentTypes DEF WireOf
<1> QED
  BY <1>1, <1>4, WireOfOne

\* A control message is sent whole.
LEMMA WireSends ==
    ASSUME BinaryType, WireInv, NEW c \in ChannelId, NEW size \in Nat, Sends(c, size)
    PROVE  WireInv'
<1>1. /\ Others(c) /\ SameElsewhere(c) /\ channels[c].context # 0 /\ ~channels[c].failed
      /\ Sent(c, "control", channels[c].next + 1, size, size)
      /\ channels'[c].next = channels[c].next + 1 /\ channels'[c].outgoing = channels[c].outgoing
  BY DEF Sends, SendControl, CanSend, Attached, Numbered, KeepsQueues
<1>2. WireOf(channels[c], sent[c])
  BY <1>1 DEF WireInv, Attached
<1> DEFINE n == channels[c].next
<1>3. n \in Nat /\ n + 1 \in Nat
  BY SentTypes
<1>4. /\ sent'[c].last = "control"
      /\ sent'[c].frames["control"] = [id |-> n + 1, size |-> size, offset |-> size]
      /\ sent'[c].frames["bulk"] = sent[c].frames["bulk"]
  BY <1>1, <1>3, SentEffect, SentTypes
<1>5. InOrder(channels[c].outgoing["bulk"], sent[c].frames["bulk"], n)
  BY <1>1, <1>2 DEF WireOf
<1>6. InOrder(channels[c].outgoing["bulk"], sent[c].frames["bulk"], n + 1)
  BY <1>3, <1>5, OrderKept, SentTypes
<1> HIDE DEF n
<1>7. channels'[c].next = n + 1
  BY <1>1 DEF n
<1>8. WireOf(channels'[c], sent'[c])
  BY <1>1, <1>3, <1>4, <1>6, <1>7, SentTypes DEF WireOf
<1> QED
  BY <1>1, <1>8, WireOfOne

\* A message waits for its turn.
LEMMA WireHolds ==
    ASSUME BinaryType, WireInv, NEW c \in ChannelId, NEW lane \in OutLane, NEW size \in Nat, Holds(c, lane, size)
    PROVE  WireInv'
<1> DEFINE a == channels[c]
           b == channels'[c]
           n == a.next
           m == [id |-> n + 1, size |-> size, offset |-> 0]
<1>1. /\ Others(c) /\ Queued(a, b, lane, size) /\ UNCHANGED <<sent, remote>> /\ a.context # 0 /\ ~a.failed
  BY DEF Holds, SendBinary, CanSend, Attached
<1>2. SameElsewhere(c)
  BY <1>1 DEF SameElsewhere, BinaryType, WireType
<1>3. WireOf(a, sent[c])
  BY <1>1 DEF WireInv, Attached
<1>4. n \in Nat /\ m \in Message /\ m.id = n + 1 /\ m.offset = 0 /\ sent[c].frames["bulk"] \in Message
      /\ a.outgoing["bulk"] \in Seq(Message) /\ sent[c].frames["control"].id \in Nat
  <2>1. n \in Nat
    BY SentTypes
  <2> QED
    BY <2>1, SentTypes DEF Message
<1>5. InOrder(a.outgoing["bulk"], sent[c].frames["bulk"], n)
  BY <1>1, <1>3 DEF WireOf
<1>6. b.next = n + 1 /\ b.preferUnreliable = a.preferUnreliable /\ b.failed = a.failed
      /\ b.outgoing[lane] = Append(a.outgoing[lane], m) /\ \A l \in OutLane : l # lane => b.outgoing[l] = a.outgoing[l]
  BY <1>1 DEF Queued
<1>7. sent'[c] = sent[c]
  BY <1>1
<1> HIDE DEF a, b, m, n
<1>8. InOrder(b.outgoing["bulk"], sent[c].frames["bulk"], n + 1)
  <2>1. CASE lane = "bulk"
    BY <1>4, <1>5, <1>6, <2>1, OrderAppended
  <2>2. CASE lane # "bulk"
    <3>1. b.outgoing["bulk"] = a.outgoing["bulk"]
      BY <1>6, <2>2, SentTypes
    <3> QED
      BY <1>4, <1>5, <3>1, OrderKept
  <2> QED
    BY <2>1, <2>2
<1>9. WireOf(b, sent[c])
  <2>1. ~b.failed => sent[c].frames["control"].offset = sent[c].frames["control"].size /\ sent[c].frames["control"].id <= n + 1
    BY <1>3, <1>4, <1>6 DEF WireOf, n
  <2> QED
    BY <1>3, <1>6, <1>8, <2>1 DEF WireOf
<1> QED
  BY <1>1, <1>2, <1>7, <1>9, WireOfOne DEF b


\* The last frame of a message is sent, or its datagram expires.
LEMMA WireReleases ==
    ASSUME BinaryType, WorkInv, WireInv, NEW c \in ChannelId, NEW lane \in OutLane, Releases(c, lane)
    PROVE  WireInv'
<1> DEFINE a == channels[c]
           b == channels'[c]
           m == Head(a.outgoing[lane])
           s == sent[c]
           t == sent'[c]
<1>1. /\ Others(c) /\ Dequeued(a, b, lane) /\ SameElsewhere(c) /\ ~NotInUpdate /\ c = updating.channel /\ ~a.failed
      /\ \/ lane = "datagram" /\ t = s /\ b.preferUnreliable = a.preferUnreliable
         \/ /\ Sent(c, lane, m.id, m.size, m.size)
            /\ b.preferUnreliable = (lane # "datagram")
  BY DEF Releases
<1>2. a.context # 0
  BY <1>1 DEF WorkInv, NotInUpdate, Attached
<1>3. WireOf(a, s)
  BY <1>2 DEF WireInv, Attached
<1>4. /\ b.next = a.next /\ b.failed = a.failed /\ a.outgoing[lane] # << >>
      /\ b.outgoing[lane] = Tail(a.outgoing[lane]) /\ \A l \in OutLane : l # lane => b.outgoing[l] = a.outgoing[l]
  BY <1>1 DEF Dequeued
<1>5. a.next \in Nat /\ a.outgoing[lane] \in Seq(Message) /\ "bulk" \in OutLane /\ "control" \notin OutLane
      /\ lane \in Kind /\ "bulk" \in Kind /\ "control" \in Kind
  BY SentTypes DEF Kind
<1>6. m \in Message /\ m.id \in Nat /\ m.size \in Nat
  <2>1. m \in Message
    BY <1>4, <1>5
  <2> QED
    BY <2>1 DEF Message
<1> HIDE DEF a, b, m, s, t
<1>7. CASE lane = "datagram" /\ t = s /\ b.preferUnreliable = a.preferUnreliable
  <2>1. b.outgoing["bulk"] = a.outgoing["bulk"]
    BY <1>4, <1>5, <1>7
  <2>2. WireOf(b, s)
    BY <1>3, <1>4, <1>7, <2>1, WireAlone
  <2> QED
    BY <1>1, <1>7, <2>2, WireOfOne DEF b, t
<1>8. CASE Sent(c, lane, m.id, m.size, m.size) /\ b.preferUnreliable = (lane # "datagram")
  <2>1. /\ t.last = lane /\ t.frames[lane] = [id |-> m.id, offset |-> m.size, size |-> m.size]
        /\ \A k \in Kind : k # lane => t.frames[k] = s.frames[k]
    BY <1>5, <1>6, <1>8, SentEffect DEF s, t
  <2>2. t.frames["control"] = s.frames["control"]
    BY <1>5, <2>1
  <2>3. InOrder(a.outgoing["bulk"], s.frames["bulk"], a.next)
    BY <1>1, <1>3 DEF WireOf
  <2>4. InOrder(b.outgoing["bulk"], t.frames["bulk"], a.next)
    <3>1. CASE lane = "bulk"
      <4> DEFINE h == t.frames["bulk"]
      <4>1. h = [id |-> m.id, offset |-> m.size, size |-> m.size]
        BY <2>1, <3>1
      <4>2. h \in Message /\ h.id = m.id /\ h.offset = h.size
        BY <1>6, <4>1 DEF Message
      <4> HIDE DEF h
      <4>3. a.outgoing["bulk"] \in Seq(Message) /\ a.outgoing["bulk"] # << >> /\ h.id = Head(a.outgoing["bulk"]).id
        BY <1>4, <1>5, <3>1, <4>2 DEF m
      <4>4. InOrder(Tail(a.outgoing["bulk"]), h, a.next)
        BY <1>5, <2>3, <4>2, <4>3, OrderTail
      <4> QED
        BY <1>4, <3>1, <4>4 DEF h
    <3>2. CASE lane # "bulk"
      <4>1. b.outgoing["bulk"] = a.outgoing["bulk"] /\ t.frames["bulk"] = s.frames["bulk"]
        BY <1>4, <1>5, <2>1, <3>2
      <4> QED
        BY <2>3, <4>1
    <3> QED
      BY <3>1, <3>2
  <2>5. WireOf(b, t)
    BY <1>1, <1>3, <1>4, <1>8, <2>1, <2>2, <2>4 DEF WireOf
  <2> QED
    BY <1>1, <2>5, WireOfOne DEF b, t
<1> QED
  BY <1>1, <1>7, <1>8

\* Another frame of a message is sent.
LEMMA WireMoves ==
    ASSUME BinaryType, WorkInv, WireInv, NEW c \in ChannelId, NEW lane \in OutLane, Moves(c, lane)
    PROVE  WireInv'
<1> DEFINE a == channels[c]
           b == channels'[c]
           m == Head(a.outgoing[lane])
           o == Min2(m.offset + 1, m.size)
           s == sent[c]
           t == sent'[c]
<1>1. /\ Others(c) /\ Advanced(a, b, lane, o) /\ SameElsewhere(c) /\ ~NotInUpdate /\ c = updating.channel /\ ~a.failed
      /\ o # m.size
      /\ Sent(c, lane, m.id, o, m.size)
      /\ b.preferUnreliable = (lane # "datagram")
  BY DEF Moves
<1>2. a.context # 0
  BY <1>1 DEF WorkInv, NotInUpdate, Attached
<1>3. WireOf(a, s)
  BY <1>2 DEF WireInv, Attached
<1>4. /\ b.next = a.next /\ b.failed = a.failed /\ a.outgoing[lane] # << >>
      /\ Len(b.outgoing[lane]) = Len(a.outgoing[lane])
      /\ b.outgoing[lane][1] = [a.outgoing[lane][1] EXCEPT !.offset = o]
      /\ \A i \in 1 .. Len(a.outgoing[lane]) : i # 1 => b.outgoing[lane][i] = a.outgoing[lane][i]
      /\ \A l \in OutLane : l # lane => b.outgoing[l] = a.outgoing[l]
  BY <1>1 DEF Advanced
<1>5. a.next \in Nat /\ a.outgoing[lane] \in Seq(Message) /\ "bulk" \in OutLane /\ "control" \notin OutLane
      /\ lane \in Kind /\ "bulk" \in Kind /\ "control" \in Kind
  BY SentTypes DEF Kind
<1>6. b.outgoing[lane] \in Seq(Message)
  <2>1. b \in Channel
    BY <1>1 DEF Others
  <2> QED
    BY <2>1, ChannelTypes
<1>7. m \in Message /\ m.id \in Nat /\ m.size \in Nat /\ m.offset \in Nat /\ m = a.outgoing[lane][1]
  <2>1. m \in Message /\ m = a.outgoing[lane][1]
    BY <1>4, <1>5
  <2> QED
    BY <2>1 DEF Message
<1> HIDE DEF m
<1>8. o \in Nat /\ o # 0 /\ o < m.size
  <2>1. ASSUME NEW x \in Nat, NEW y \in Nat, Min2(x + 1, y) # y
        PROVE  Min2(x + 1, y) \in Nat /\ Min2(x + 1, y) # 0 /\ Min2(x + 1, y) < y
    BY <2>1 DEF Min2
  <2>2. o # m.size
    BY <1>1
  <2> QED
    BY <1>7, <2>1, <2>2
<1> HIDE DEF a, b, s, t, o
<1>9. /\ t.last = lane /\ t.frames[lane] = [id |-> m.id, offset |-> o, size |-> m.size]
      /\ \A k \in Kind : k # lane => t.frames[k] = s.frames[k]
  <2>1. PICK id \in Nat, size \in Nat : id = m.id /\ size = m.size
    BY <1>7
  <2>2. FrameIsLast(c, lane, id, o, size)
    BY <1>1, <1>5, <1>8, <2>1, SentIsLast
  <2> QED
    BY <2>1, <2>2 DEF FrameIsLast, s, t
<1>10. t.frames["control"] = s.frames["control"]
  BY <1>5, <1>9
<1>11. InOrder(a.outgoing["bulk"], s.frames["bulk"], a.next)
  BY <1>1, <1>3 DEF WireOf
<1>12. InOrder(b.outgoing["bulk"], t.frames["bulk"], a.next)
  <2>1. CASE lane = "bulk"
    <3> DEFINE h == t.frames["bulk"]
               q == a.outgoing["bulk"]
               w == b.outgoing["bulk"]
    <3>1. h = [id |-> m.id, offset |-> o, size |-> m.size]
      BY <1>9, <2>1
    <3>2. h \in Message /\ h.id = m.id /\ h.offset = o /\ h.size = m.size
      BY <1>7, <1>8, <3>1 DEF Message
    <3>3. q \in Seq(Message) /\ q # << >> /\ m = q[1] /\ w \in Seq(Message) /\ Len(w) = Len(q)
          /\ w[1] = [q[1] EXCEPT !.offset = o] /\ \A i \in 1 .. Len(q) : i # 1 => w[i] = q[i]
      BY <1>4, <1>5, <1>6, <1>7, <2>1
    <3>4. InOrder(q, s.frames["bulk"], a.next)
      BY <1>11
    <3> HIDE DEF h, q, w
    <3>5. InOrder(w, h, a.next)
      BY <1>5, <1>8, <3>2, <3>3, <3>4, OrderMoved
    <3> QED
      BY <3>5 DEF h, w
  <2>2. CASE lane # "bulk"
    <3>1. b.outgoing["bulk"] = a.outgoing["bulk"] /\ t.frames["bulk"] = s.frames["bulk"]
      BY <1>4, <1>5, <1>9, <2>2
    <3> QED
      BY <1>11, <3>1
  <2> QED
    BY <2>1, <2>2
<1>13. WireOf(b, t)
  BY <1>1, <1>3, <1>4, <1>9, <1>10, <1>12 DEF WireOf
<1> QED
  BY <1>1, <1>13, WireOfOne DEF b, t

(* Every step keeps the order of the wire.                                   *)
LEMMA WireStep ==
    ASSUME BinaryType, ErasedInv, WorkInv, WireInv, [BinaryNext]_binaryVars
    PROVE  WireInv'
<1>0. ASSUME UNCHANGED <<channels, sent>> PROVE WireInv'
  BY <1>0 DEF WireInv, Attached
<1>1. CASE UNCHANGED binaryVars
  BY <1>0, <1>1 DEF binaryVars
<1>2. CASE Rests
  BY <1>0, <1>2 DEF Rests
<1>3. CASE PollBulk
  BY <1>0, <1>3 DEF PollBulk
<1>4. ASSUME NEW c \in ChannelId, Does(c) PROVE WireInv'
  <2>1. CASE Ignores(c)
    BY <1>0, <2>1 DEF Ignores
  <2>2. CASE Attach(c)
    <3>1. /\ Others(c) /\ SameElsewhere(c) /\ sent'[c] = NothingSent /\ channels'[c].failed = FALSE /\ channels'[c].next = 0
          /\ channels'[c].outgoing = Unattached.outgoing
      BY <2>2, AttachEffect DEF KeepsQueues
    <3>2. /\ NothingSent.last \notin OutLane
          /\ \A k \in {"control", "bulk"} : NothingSent.frames[k] = [id |-> 0, offset |-> 0, size |-> 0]
      BY DEF NothingSent, OutLane, Kind, Lane
    <3>3. Unattached.outgoing["bulk"] = << >>
      BY DEF Unattached, OutLane
    <3>4. InOrder(<< >>, NothingSent.frames["bulk"], 0)
      BY <3>2 DEF InOrder
    <3>5. WireOf(channels'[c], NothingSent)
      BY <3>1, <3>2, <3>3, <3>4 DEF WireOf
    <3> QED
      BY <3>1, <3>5, WireOfOne
  <2>3. CASE Detach(c)
    <3>1. Others(c) /\ SameElsewhere(c) /\ channels'[c].context = 0
      BY <2>3, DetachEffect DEF Unattached
    <3> QED
      BY <3>1, WireOfOne
  <2>4. CASE Fails(c)
    BY <2>4, WireFails
  <2>5. CASE WakesOne(c)
    BY <1>0, <2>5 DEF WakesOne, WakeUp
  <2>6. ASSUME NEW size \in Nat, Sends(c, size) PROVE WireInv'
    BY <2>6, WireSends
  <2>7. ASSUME NEW size \in Nat, NEW lane \in OutLane, Holds(c, lane, size) PROVE WireInv'
    BY <2>7, WireHolds
  <2>8. ASSUME NEW size \in Nat, NEW lane \in Lane, Hears(c, lane, size) PROVE WireInv'
    <3>1. /\ Others(c) /\ UNCHANGED sent /\ channels[c].context # 0 /\ ~channels[c].failed /\ remote' \in [ChannelId -> Peer]
          /\ \A d \in ChannelId : d # c => remote'[d] = remote[d]
          /\ channels'[c].next = channels[c].next /\ channels'[c].preferUnreliable = channels[c].preferUnreliable
          /\ channels'[c].outgoing = channels[c].outgoing
      BY <2>8 DEF Hears, Accepts, Completes, Collects, Assembling1, KeepsTurn, KeepsQueues, PeerSent
    <3>2. SameElsewhere(c) /\ sent'[c] = sent[c]
      BY <3>1 DEF SameElsewhere, BinaryType, WireType
    <3>3. WireOf(channels[c], sent[c])
      BY <3>1 DEF WireInv, Attached
    <3>4. WireOf(channels'[c], sent[c])
      BY <3>1, <3>3, WireAlone
    <3> QED
      BY <3>1, <3>2, <3>4, WireOfOne
  <2>9. ASSUME NEW lane \in OutLane, Releases(c, lane) PROVE WireInv'
    BY <2>9, WireReleases
  <2>10. ASSUME NEW lane \in OutLane, Moves(c, lane) PROVE WireInv'
    BY <2>10, WireMoves
  <2>11. ASSUME NEW frame \in Frame, Posts(c, frame) PROVE WireInv'
    BY <1>0, <2>11 DEF Posts
  <2> QED
    BY <1>4, <2>1, <2>2, <2>3, <2>4, <2>5, <2>6, <2>7, <2>8, <2>9, <2>10, <2>11 DEF Does
<1> QED
  BY <1>1, <1>2, <1>3, <1>4, BinarySteps

(***************************************************************************)
(* The theorems.                                                            *)
(***************************************************************************)
\* What the runtime starts with.
LEMMA BinaryStarts ==
    ASSUME BinaryInit
    PROVE  BinaryInv
<1>1. \A c \in ChannelId : channels[c] = Unattached
  BY DEF BinaryInit
<1>2. BinaryType
  <2>1. 1 \in Nat \ {0} /\ << >> \in Seq(Delivered)
    OBVIOUS
  <2>2. NoUpdateRuns \in [channel : 0 .. MaxChannels, work : BOOLEAN]
    BY BlankTypes DEF NoUpdateRuns
  <2>3. ChannelsType /\ ReceiveType
    <3>1. ChannelsType
      BY <2>1, BlankTypes DEF BinaryInit, ChannelsType
    <3>2. received \in [Lane -> Seq(Delivered)]
      BY <2>1 DEF BinaryInit
    <3>3. pendingReceive \in BOOLEAN /\ receiveMessages = 0 /\ queuedBytes = 0 /\ receiveBytes = 0
      BY DEF BinaryInit
    <3>4. ReceiveType
      BY <3>2, <3>3 DEF ReceiveType
    <3> QED
      BY <3>1, <3>4
  <2>4. UpdateType /\ WireType
    BY <2>2, BlankTypes DEF BinaryInit, UpdateType, WireType
  <2> QED
    BY <2>3, <2>4 DEF BinaryType
<1>3. received["control"] = << >> /\ received["bulk"] = << >> /\ \A l \in Lane : received[l] = << >>
  BY DEF BinaryInit, Lane
<1>4. Attached = {}
  BY <1>1 DEF Attached, Unattached
<1>5. ErasedInv
  BY <1>1, <1>3 DEF ErasedInv
<1>6. \A m \in Delivered : m.size \in Nat
  BY DEF Delivered
<1>7. \A m \in Message : m.size \in Nat
  BY DEF Message
<1>8. SumBytes(<< >>) = 0
  <2>1. << >> \in Seq(Message)
    OBVIOUS
  <2> QED
    BY <1>7, <2>1, BytesType
<1>9. QueueBooks
  <2>1. Unattached.bytes = 0 /\ Unattached.messages = 0 /\ Unattached.outgoing["datagram"] = << >>
        /\ Unattached.outgoing["bulk"] = << >>
    BY DEF Unattached, OutLane
  <2>2. OwnBooks(Unattached)
    BY <1>8, <2>1 DEF OwnBooks
  <2> DEFINE z == [c \in ChannelId |-> channels[c].bytes]
  <2>3. z \in Seq(Nat) /\ \A i \in 1 .. Len(z) : z[i] = 0
    <3>1. DOMAIN z = 1 .. MaxChannels /\ \A i \in 1 .. MaxChannels : z[i] = 0
      BY <1>1, <2>1 DEF ChannelId
    <3>2. z \in [1 .. MaxChannels -> Nat]
      BY <3>1 DEF ChannelId
    <3>3. z \in Seq(Nat) /\ Len(z) = MaxChannels
      BY <3>2, BlankTypes
    <3> QED
      BY <3>1, <3>3
  <2> HIDE DEF z
  <2>4. SumOf(z) = 0
    BY <2>3, SumZero
  <2>5. queuedBytes = SumOf([c \in ChannelId |-> channels[c].bytes])
    BY <2>4 DEF z, BinaryInit
  <2> QED
    BY <1>1, <2>2, <2>5 DEF QueueBooks
<1>10. ASSUME NEW l \in Lane PROVE Part(channels, l, received[l]) = 0
  <2> DEFINE z == [c \in ChannelId |-> Reserved(channels[c].incoming[l])]
  <2>1. \A c \in ChannelId : Reserved(channels[c].incoming[l]) = 0
    BY <1>1 DEF Reserved, Unattached, NoAssembly
  <2>2. z \in Seq(Nat) /\ \A i \in 1 .. Len(z) : z[i] = 0
    <3>1. DOMAIN z = 1 .. MaxChannels /\ \A i \in 1 .. MaxChannels : z[i] = 0
      BY <2>1 DEF ChannelId
    <3>2. z \in [1 .. MaxChannels -> Nat]
      BY <3>1 DEF ChannelId
    <3>3. z \in Seq(Nat) /\ Len(z) = MaxChannels
      BY <3>2, BlankTypes
    <3> QED
      BY <3>1, <3>3
  <2> HIDE DEF z
  <2>3. SumOf(z) = 0
    BY <2>2, SumZero
  <2>4. SumBytes(received[l]) = 0
    BY <1>3, <1>8
  <2> QED
    BY <2>3, <2>4 DEF Part, z
<1>11. ReceiveBooks
  <2>1. Part(channels, "control", received["control"]) = 0 /\ Part(channels, "bulk", received["bulk"]) = 0
    BY <1>10 DEF Lane
  <2>2. receiveBytes = 0 /\ receiveMessages = 0 /\ pendingReceive = FALSE
    BY DEF BinaryInit
  <2>3. 0 <= MaxMessages - ReserveMessages /\ 0 <= MaxBytes - ReserveBytes
    BY BinaryAssumption
  <2>4. Len(received["control"]) = 0 /\ Len(received["bulk"]) = 0
    BY <1>3
  <2> QED
    BY <2>1, <2>2, <2>3, <2>4 DEF ReceiveBooks
<1>12. WorkInv /\ ControlInv /\ WireInv
  BY <1>4 DEF WorkInv, ControlInv, WireInv, BinaryInit, NoUpdateRuns
<1> QED
  BY <1>2, <1>5, <1>9, <1>11, <1>12 DEF BinaryInv

LEMMA BinaryInvStep ==
    ASSUME BinaryInv, [BinaryNext]_binaryVars
    PROVE  BinaryInv'
<1>1. BinaryType /\ ErasedInv /\ QueueBooks /\ ReceiveBooks /\ WorkInv /\ ControlInv /\ WireInv
  BY DEF BinaryInv
<1>2. BinaryType' /\ ErasedInv'
  BY <1>1, BinaryTypeStep, ErasedStep
<1>3. QueueBooks'
  BY <1>1, QueueBooksStep
<1>4. ReceiveBooks'
  BY <1>1, <1>2, ReceiveBooksStep
<1>5. WorkInv'
  BY <1>1, WorkStep
<1>6. ControlInv'
  BY <1>1, ControlStep
<1>7. WireInv'
  BY <1>1, WireStep
<1> QED
  BY <1>2, <1>3, <1>4, <1>5, <1>6, <1>7 DEF BinaryInv

(* The binary transport keeps its types, its books, the order of its lanes   *)
(* and the payloads of wake-ups to come.                                     *)
THEOREM BinaryInvariant == BinarySpec => []BinaryInv
<1>1. BinaryInit => BinaryInv
  BY BinaryStarts
<1>2. BinaryInv /\ [BinaryNext]_binaryVars => BinaryInv'
  BY BinaryInvStep
<1> QED
  BY <1>1, <1>2, PTL DEF BinarySpec

\* The bytes of the assemblies of both lanes, lane by lane and channel by channel.
LEMMA AssembledSum ==
    ASSUME BinaryType
    PROVE  SumOf([c \in ChannelId |-> AssembledBytes(channels[c])]) =
             SumOf([c \in ChannelId |-> Reserved(channels[c].incoming["control"])])
               + SumOf([c \in ChannelId |-> Reserved(channels[c].incoming["bulk"])])
<1> DEFINE q == [c \in ChannelId |-> Reserved(channels[c].incoming["control"])]
           r == [c \in ChannelId |-> Reserved(channels[c].incoming["bulk"])]
           t == [c \in ChannelId |-> AssembledBytes(channels[c])]
<1>1. \A c \in ChannelId : /\ Reserved(channels[c].incoming["control"]) \in Nat
                           /\ Reserved(channels[c].incoming["bulk"]) \in Nat
  <2> TAKE c \in ChannelId
  <2>1. channels[c] \in Channel
    BY DEF BinaryType, ChannelsType
  <2>2. channels[c].incoming["control"] \in Assembly /\ channels[c].incoming["bulk"] \in Assembly
    BY <2>1, ChannelTypes
  <2> QED
    BY <2>2 DEF Reserved, Assembly
<1>2. \A c \in ChannelId : AssembledBytes(channels[c]) =
        Reserved(channels[c].incoming["control"]) + Reserved(channels[c].incoming["bulk"])
  BY DEF AssembledBytes, Reserved
<1>3. \A c \in ChannelId : q[c] \in Nat /\ r[c] \in Nat /\ t[c] = q[c] + r[c]
  BY <1>1, <1>2
<1>4. q \in [1 .. MaxChannels -> Nat] /\ r \in [1 .. MaxChannels -> Nat]
  BY <1>1 DEF ChannelId
<1>5. t \in [1 .. MaxChannels -> Nat]
  <2>1. \A c \in ChannelId : AssembledBytes(channels[c]) \in Nat
    BY <1>1, <1>2
  <2> QED
    BY <2>1 DEF ChannelId
<1> HIDE DEF q, r, t
<1>6. q \in Seq(Nat) /\ r \in Seq(Nat) /\ t \in Seq(Nat) /\ Len(q) = MaxChannels /\ Len(r) = MaxChannels /\ Len(t) = MaxChannels
  BY <1>4, <1>5, BlankTypes
<1>7. \A i \in 1 .. Len(q) : t[i] = q[i] + r[i]
  BY <1>3, <1>6 DEF ChannelId
<1>8. SumOf(t) = SumOf(q) + SumOf(r)
  <2>1. Len(r) = Len(q) /\ Len(t) = Len(q)
    BY <1>6
  <2> QED
    BY <1>6, <1>7, <2>1, SumAdd
<1> QED
  BY <1>8 DEF q, r, t

(* Whatever is queued is accounted for, UpdateBinary and PollBinary never    *)
(* miss work, and bulk messages leave the reserve of the control messages,   *)
(* for any number of channels and any limits (realms_binary.cpp).            *)
THEOREM TransportCorrect == BinarySpec => []TransportKeepsItsBooks
<1>1. BinaryInv => TransportKeepsItsBooks
  <2> SUFFICES ASSUME BinaryInv PROVE TransportKeepsItsBooks
    OBVIOUS
  <2>1. BinaryType /\ QueueBooks /\ ReceiveBooks /\ WorkInv
    BY DEF BinaryInv
  <2> DEFINE cs == SumOf([c \in ChannelId |-> Reserved(channels[c].incoming["control"])])
             bs == SumOf([c \in ChannelId |-> Reserved(channels[c].incoming["bulk"])])
             cq == SumBytes(received["control"])
             bq == SumBytes(received["bulk"])
             as == SumOf([c \in ChannelId |-> AssembledBytes(channels[c])])
  <2>2. /\ Part(channels, "control", received["control"]) = cq + cs
        /\ Part(channels, "bulk", received["bulk"]) = bq + bs
    BY DEF Part
  <2>3. as = cs + bs
    BY <2>1, AssembledSum
  <2>4. received["control"] \in Seq(Delivered) /\ received["bulk"] \in Seq(Delivered)
    BY <2>1 DEF BinaryType, ReceiveType, Lane
  <2>5. cq \in Nat /\ bq \in Nat
    <3>1. \A m \in Delivered : m.size \in Nat
      BY DEF Delivered
    <3> QED
      BY <2>4, <3>1, BytesType
  <2>6. cs \in Nat /\ bs \in Nat
    <3>1. ASSUME NEW l \in Lane PROVE SumOf([c \in ChannelId |-> Reserved(channels[c].incoming[l])]) \in Nat
      <4> DEFINE z == [c \in ChannelId |-> Reserved(channels[c].incoming[l])]
      <4>1. \A c \in ChannelId : Reserved(channels[c].incoming[l]) \in Nat
        <5> TAKE c \in ChannelId
        <5>1. channels[c].incoming \in [Lane -> Assembly]
          BY <2>1, ChannelTypes DEF BinaryType, ChannelsType
        <5>2. channels[c].incoming[l] \in Assembly
          BY <5>1
        <5> QED
          BY <5>2 DEF Reserved, Assembly
      <4>2. z \in [1 .. MaxChannels -> Nat]
        BY <4>1 DEF ChannelId
      <4> HIDE DEF z
      <4>3. z \in Seq(Nat)
        BY <4>2, BlankTypes
      <4>4. SumOf(z) \in Nat
        BY <4>3, SumType
      <4> QED
        BY <4>4 DEF z
    <3> QED
      BY <3>1 DEF Lane
  <2>7. receiveBytes = (cq + bq) + as
    <3>1. receiveBytes = (cq + cs) + (bq + bs)
      BY <2>1, <2>2 DEF ReceiveBooks
    <3> HIDE DEF cq, bq, cs, bs, as
    <3> QED
      BY <2>3, <2>5, <2>6, <3>1
  <2>8. TransportBooksBalance
    BY <2>1, <2>7 DEF TransportBooksBalance, QueueBooks, OwnBooks, ReceiveBooks
  <2>9. NoWorkIsMissed
    <3>1. \A c \in Attached : NotInUpdate /\ (channels[c].failed \/ HasWork(channels[c])) => pendingWork
      BY <2>1 DEF WorkInv, NotInUpdate
    <3>2. receiveMessages = Len(received["control"]) + Len(received["bulk"]) /\ (pendingReceive <=> receiveMessages # 0)
      BY <2>1 DEF ReceiveBooks
    <3>3. Len(received["control"]) \in Nat /\ Len(received["bulk"]) \in Nat
          /\ (received["control"] = << >> <=> Len(received["control"]) = 0)
          /\ (received["bulk"] = << >> <=> Len(received["bulk"]) = 0)
      BY <2>4
    <3>4. pendingReceive <=> received["control"] # << >> \/ received["bulk"] # << >>
      <4> DEFINE x == Len(received["control"])
                 y == Len(received["bulk"])
      <4>1. receiveMessages = x + y /\ x \in Nat /\ y \in Nat
        BY <3>2, <3>3
      <4> HIDE DEF x, y
      <4>2. receiveMessages # 0 <=> x # 0 \/ y # 0
        BY <4>1
      <4> QED
        BY <3>2, <3>3, <4>2 DEF x, y
    <3>5. (\E l \in Lane : received[l] # << >>) <=> received["control"] # << >> \/ received["bulk"] # << >>
      BY DEF Lane
    <3> QED
      BY <3>1, <3>4, <3>5 DEF NoWorkIsMissed
  <2>10. BulkLeavesReserve
    <3>1. bs = SumOf([c \in ChannelId |->
            IF channels[c].incoming["bulk"].active THEN channels[c].incoming["bulk"].total ELSE 0])
      BY DEF Reserved
    <3>2. Len(received["bulk"]) <= MaxMessages - ReserveMessages /\ bq + bs <= MaxBytes - ReserveBytes
      BY <2>1, <2>2 DEF ReceiveBooks
    <3> QED
      BY <3>1, <3>2 DEF BulkLeavesReserve
  <2> QED
    BY <2>8, <2>9, <2>10 DEF TransportKeepsItsBooks
<1> QED
  BY <1>1, BinaryInvariant, PTL

(* A wake-up of a channel that has not failed finds its payload first in     *)
(* line, whatever was attached, detached, polled or refused before           *)
(* (realms_binary.cpp, PollBinary).                                          *)
THEOREM WakeUpsCorrect == BinarySpec => []WakeUpsFindTheirPayload
<1>1. BinaryInv => WakeUpsFindTheirPayload
  <2> SUFFICES ASSUME BinaryInv, NEW c \in Attached, ~channels[c].failed, remote[c].woken < Announced(c)
               PROVE  PayloadWaits(c, remote[c].woken + 1)
    BY DEF WakeUpsFindTheirPayload
  <2> DEFINE q == received["control"]
             n == remote[c].woken + 1
             s == SentWhole(remote[c])
  <2>1. BinaryType /\ ReceiveBooks /\ ControlInv /\ c \in ChannelId
    BY DEF BinaryInv, Attached
  <2>2. remote[c] \in Peer
    BY <2>1 DEF BinaryType, WireType
  <2>3. n \in Nat /\ s \in Int /\ n <= s /\ Awaited(remote[c]) = n .. s
    <3>1. s = Announced(c)
      BY DEF SentWhole, Announced
    <3>2. remote[c].woken \in Nat /\ s \in Int /\ Awaited(remote[c]) = n .. s
      BY <2>2, PeerTypes
    <3> QED
      BY <3>1, <3>2
  <2>4. KeepsControl(q, c, remote[c])
    BY <2>1 DEF ControlInv
  <2>5. q \in Seq(Delivered)
    BY <2>1 DEF BinaryType, ReceiveType, Lane
  <2> HIDE DEF q, n, s
  <2>6. n \in Awaited(remote[c])
    BY <2>3
  <2>7. PICK i \in 1 .. Len(q) : q[i].channel = c /\ q[i].id = n
    BY <2>4, <2>6 DEF KeepsControl
  <2>8. ControlOf(c) # {}
    BY <2>5, <2>7 DEF ControlOf, OfChannel, q
  <2> DEFINE f == FirstControl(c)
  <2>9. f \in 1 .. Len(q) /\ q[f].channel = c /\ f <= i
    BY <2>1, <2>7, <2>8, FirstControlIs DEF q
  <2> HIDE DEF f
  <2>10. q[f].id = n
    <3>1. CASE f = i
      BY <2>7, <3>1
    <3>2. CASE f # i
      <4>1. f < i
        BY <2>9, <3>2
      <4>2. q[f].id < n /\ q[f].id \in n .. s
        BY <2>3, <2>4, <2>7, <2>9, <4>1 DEF KeepsControl
      <4> QED
        BY <2>3, <4>2
    <3> QED
      BY <3>1, <3>2
  <2>11. pendingReceive
    <3>1. Len(q) # 0 /\ Len(q) \in Nat
      BY <2>5, <2>7
    <3>2. receiveMessages = Len(q) + Len(received["bulk"]) /\ (pendingReceive <=> receiveMessages # 0)
          /\ Len(received["bulk"]) \in Nat
      BY <2>1, ReceiveBooksType DEF ReceiveBooks, q
    <3> QED
      BY <3>1, <3>2
  <2> QED
    BY <2>8, <2>10, <2>11 DEF PayloadWaits, q, n, f
<1> QED
  BY <1>1, BinaryInvariant, PTL

\* What a frame is to the one before it on its lane.
Follows(before, after, k) ==
  \/ /\ after.id = before.id
     /\ after.size = before.size
     /\ after.offset = before.offset + 1
  \/ /\ after.id > before.id
     /\ before.offset = before.size
     /\ k = "bulk" => after.offset <= 1
\* The wire of a channel in a step.
OrderlyOn(c) ==
  /\ \A k \in {"control", "bulk"} :
       sent'[c].frames[k] # sent[c].frames[k] /\ channels'[c].context = channels[c].context =>
         Follows(sent[c].frames[k], sent'[c].frames[k], k)
  /\ ~NotInUpdate /\ updating.channel = c /\ sent'[c] # sent[c] /\ sent[c].last = sent'[c].last /\ sent[c].last \in OutLane =>
       \E l \in OutLane \ {sent[c].last} : channels[c].outgoing[l] = << >>
Orderly == \A c \in ChannelId : OrderlyOn(c)

\* A channel on which nothing is sent.
LEMMA Silent ==
    ASSUME NEW c, sent'[c] = sent[c]
    PROVE  OrderlyOn(c)
BY DEF OrderlyOn

\* A control message, or what a failure lets out of it, comes after those before it.
LEMMA ControlFollows ==
    ASSUME BinaryType, WireInv, NEW c \in ChannelId, channels[c].context # 0, ~channels[c].failed, NotInUpdate,
           NEW id \in Nat, NEW offset \in Nat, NEW size \in Nat, id = channels[c].next + 1,
           Sent(c, "control", id, offset, size)
    PROVE  OrderlyOn(c)
<1>1. /\ sent[c].frames["control"].offset = sent[c].frames["control"].size
      /\ sent[c].frames["control"].id <= channels[c].next
  BY DEF WireInv, WireOf, Attached
<1>2. /\ sent'[c].frames["control"] = [id |-> id, offset |-> offset, size |-> size]
      /\ sent'[c].frames["bulk"] = sent[c].frames["bulk"]
  <2>1. "control" \in Kind /\ "bulk" \in Kind
    BY SentTypes
  <2>2. /\ sent'[c].frames["control"] = [id |-> id, offset |-> offset, size |-> size]
        /\ \A k \in Kind : k # "control" => sent'[c].frames[k] = sent[c].frames[k]
    BY <2>1, SentEffect
  <2> QED
    BY <2>1, <2>2
<1>3. sent[c].frames["control"].id \in Nat /\ channels[c].next \in Nat
  BY SentTypes DEF Message
<1>4. sent'[c].frames["control"].id > sent[c].frames["control"].id
  BY <1>1, <1>2, <1>3
<1> QED
  BY <1>1, <1>2, <1>4 DEF OrderlyOn, Follows

\* The frame of a bulk message that is first in line follows the last one.
LEMMA BulkFollows ==
    ASSUME NEW q \in Seq(Message), q # << >>, NEW g \in Message, NEW n, InOrder(q, g, n),
           NEW offset, offset = Min2(q[1].offset + 1, q[1].size),
           NEW h, h = [id |-> q[1].id, offset |-> offset, size |-> q[1].size]
    PROVE  Follows(g, h, "bulk")
<1>1. 1 \in 1 .. Len(q)
  <2>1. Len(q) \in Nat \ {0}
    BY EmptySeq
  <2>2. PICK l \in Nat \ {0} : l = Len(q)
    BY <2>1
  <2> QED
    BY <2>2
<1>2. q[1] \in Message
  BY <1>1
<1>3. PICK m \in Message : m = q[1]
  BY <1>2
<1>4. h.id = m.id /\ h.offset = offset /\ h.size = m.size
  BY <1>3
<1>5. m.id \in Nat /\ m.offset \in Nat /\ m.size \in Nat /\ g.id \in Nat
  BY DEF Message
<1>6. PICK o \in Nat, s \in Nat : o = m.offset /\ s = m.size
  BY <1>5
<1>7. offset = IF o + 1 <= s THEN o + 1 ELSE s
  BY <1>3, <1>6 DEF Min2
<1>8. CASE o # 0
  <2>1. o < s /\ g.id = m.id /\ g.size = s /\ g.offset = o
    BY <1>3, <1>6, <1>8 DEF InOrder
  <2>2. offset = o + 1
    BY <1>7, <2>1
  <2> QED
    BY <1>4, <1>6, <2>1, <2>2 DEF Follows
<1>9. CASE o = 0
  <2>1. g.offset = g.size /\ g.id < m.id
    BY <1>1, <1>3, <1>6, <1>9 DEF InOrder
  <2>2. offset <= 1
    BY <1>7, <1>9
  <2>3. m.id > g.id
    BY <1>5, <2>1
  <2> QED
    BY <1>4, <2>1, <2>2, <2>3 DEF Follows
<1> QED
  BY <1>8, <1>9

\* A frame of message m leaves by the lane whose turn it is.
LaneSends(c, lane, m, offset) ==
    /\ channels[c].context # 0 /\ ~channels[c].failed
    /\ channels[c].outgoing[lane] # << >> /\ lane = NextLane(channels[c])
    /\ m = Head(channels[c].outgoing[lane]) /\ offset = Min2(m.offset + 1, m.size)
    /\ Sent(c, lane, m.id, offset, m.size)

\* A frame of a lane follows the last one of its message, and the lanes take turns.
LEMMA LaneFollows ==
    ASSUME BinaryType, WireInv, NEW c \in ChannelId, NEW lane \in OutLane, NEW m, NEW offset,
           LaneSends(c, lane, m, offset)
    PROVE  OrderlyOn(c)
<1>1. WireOf(channels[c], sent[c]) /\ ~channels[c].failed
  BY DEF WireInv, Attached, LaneSends
<1>2. PICK q \in Seq(Message) : q = channels[c].outgoing[lane]
  BY SentTypes
<1>3. q # << >> /\ m = Head(q) /\ lane = NextLane(channels[c])
  BY <1>2 DEF LaneSends
<1>4. m \in Message /\ m = q[1]
  <2>1. Head(q) \in Message
    BY <1>3, HeadTailProperties
  <2>2. Head(q) = q[1]
    BY <1>3
  <2> QED
    BY <1>3, <2>1, <2>2
<1>5. PICK id \in Nat, size \in Nat : id = m.id /\ size = m.size
  BY <1>4 DEF Message
<1>6. offset \in Nat /\ offset = Min2(m.offset + 1, m.size)
  <2>1. PICK o \in Nat : o = m.offset
    BY <1>4 DEF Message
  <2>2. offset = Min2(o + 1, size)
    BY <1>5, <2>1 DEF LaneSends
  <2> QED
    BY <1>5, <2>1, <2>2 DEF Min2
<1>7. lane \in Kind /\ "control" \in Kind /\ "bulk" \in Kind /\ lane # "control"
  <2>1. lane \in Kind
    BY DEF Kind
  <2>2. "control" \in Kind /\ "bulk" \in Kind
    BY DEF Kind, Lane
  <2>3. lane # "control"
    BY DEF OutLane
  <2> QED
    BY <2>1, <2>2, <2>3
<1>8. FrameIsLast(c, lane, id, offset, size)
  <2>1. Sent(c, lane, id, offset, size)
    BY <1>5 DEF LaneSends
  <2> QED
    BY <1>6, <1>7, <2>1, SentIsLast
<1>9. sent'[c].last = lane /\ sent'[c].frames["control"] = sent[c].frames["control"]
  BY <1>7, <1>8 DEF FrameIsLast
<1>10. sent'[c].frames["bulk"] # sent[c].frames["bulk"] => Follows(sent[c].frames["bulk"], sent'[c].frames["bulk"], "bulk")
  <2> SUFFICES ASSUME sent'[c].frames["bulk"] # sent[c].frames["bulk"]
               PROVE  Follows(sent[c].frames["bulk"], sent'[c].frames["bulk"], "bulk")
    OBVIOUS
  <2>1. lane = "bulk"
    BY <1>7, <1>8 DEF FrameIsLast
  <2>2. sent'[c].frames["bulk"] = [id |-> q[1].id, offset |-> offset, size |-> q[1].size]
    BY <1>4, <1>5, <1>8, <2>1 DEF FrameIsLast
  <2>3. PICK g \in Message : g = sent[c].frames["bulk"]
    BY SentTypes
  <2>4. InOrder(q, g, channels[c].next)
    BY <1>1, <1>2, <2>1, <2>3 DEF WireOf
  <2>5. offset = Min2(q[1].offset + 1, q[1].size)
    BY <1>4, <1>6
  <2>6. Follows(g, sent'[c].frames["bulk"], "bulk")
    BY <1>3, <2>2, <2>4, <2>5, BulkFollows
  <2> QED
    BY <2>3, <2>6
<1>11. sent[c].last = lane => \E l \in OutLane \ {lane} : channels[c].outgoing[l] = << >>
  <2> SUFFICES ASSUME sent[c].last = lane PROVE \E l \in OutLane \ {lane} : channels[c].outgoing[l] = << >>
    OBVIOUS
  <2>1. channels[c].preferUnreliable = (lane # "datagram")
    BY <1>1 DEF WireOf
  <2>2. CASE lane = "datagram"
    <3>1. channels[c].outgoing["bulk"] = << >>
      BY <1>3, <2>1, <2>2 DEF NextLane, PrefersDatagram
    <3> QED
      BY <2>2, <3>1 DEF OutLane
  <2>3. CASE lane = "bulk"
    <3>1. channels[c].outgoing["datagram"] = << >>
      BY <1>3, <2>1, <2>3 DEF NextLane, PrefersDatagram
    <3> QED
      BY <2>3, <3>1 DEF OutLane
  <2> QED
    BY <2>2, <2>3 DEF OutLane
<1> QED
  BY <1>9, <1>10, <1>11 DEF OrderlyOn

\* What every step does on the wire.
LEMMA OrderlyStep ==
    ASSUME BinaryInv, [BinaryNext]_binaryVars
    PROVE  Orderly
<1>0. BinaryType /\ ErasedInv /\ WorkInv /\ WireInv
  BY DEF BinaryInv
<1>1. CASE UNCHANGED sent
  BY <1>1, Silent DEF Orderly
<1>2. ASSUME NEW c \in ChannelId, Does(c), ~UNCHANGED sent PROVE Orderly
  <2>1. ASSUME SameElsewhere(c), OrderlyOn(c) PROVE Orderly
    <3> SUFFICES ASSUME NEW d \in ChannelId, d # c PROVE OrderlyOn(d)
      BY <2>1 DEF Orderly
    <3>1. sent'[d] = sent[d]
      BY <2>1 DEF SameElsewhere
    <3> QED
      BY <3>1, Silent
  <2>2. CASE Ignores(c)
    BY <1>2, <2>2 DEF Ignores
  <2>3. CASE Attach(c)
    <3>1. channels'[c].context # channels[c].context /\ NotInUpdate /\ SameElsewhere(c)
      BY <1>0, <2>3, AttachEffect
    <3> QED
      BY <2>1, <3>1 DEF OrderlyOn
  <2>4. CASE Detach(c)
    <3>1. channels'[c] = Unattached /\ NotInUpdate /\ SameElsewhere(c)
      BY <1>0, <2>4, DetachEffect
    <3>2. channels[c].context # 0
      BY <2>4 DEF Detach, Attached
    <3>3. channels'[c].context # channels[c].context
      BY <3>1, <3>2 DEF Unattached
    <3> QED
      BY <2>1, <3>1, <3>3 DEF OrderlyOn
  <2>5. CASE Fails(c)
    <3>1. SameElsewhere(c) /\ SendsPart(c) /\ channels[c].context # 0
      BY <2>5 DEF Fails
    <3>2. OrderlyOn(c)
      <4>1. CASE sent'[c] = sent[c]
        BY <4>1, Silent
      <4>2. CASE sent'[c] # sent[c]
        <5>1. ~channels[c].failed /\ NotInUpdate
          BY <3>1, <4>2 DEF SendsPart
        <5>2. PICK id, offset, size \in Nat : id = channels[c].next + 1 /\ Sent(c, "control", id, offset, size)
          BY <3>1, <4>2 DEF SendsPart
        <5> QED
          BY <1>0, <3>1, <5>1, <5>2, ControlFollows
      <4> QED
        BY <4>1, <4>2
    <3> QED
      BY <2>1, <3>1, <3>2
  <2>6. CASE WakesOne(c)
    BY <1>2, <2>6 DEF WakesOne, WakeUp
  <2>7. ASSUME NEW size \in Nat, Sends(c, size) PROVE Orderly
    <3>1. /\ SameElsewhere(c) /\ channels[c].context # 0 /\ ~channels[c].failed /\ NotInUpdate
          /\ Sent(c, "control", channels[c].next + 1, size, size)
      BY <2>7 DEF Sends, SendControl, CanSend, Attached
    <3>2. channels[c].next + 1 \in Nat
      BY <1>0, SentTypes
    <3>3. OrderlyOn(c)
      BY <1>0, <3>1, <3>2, ControlFollows
    <3> QED
      BY <2>1, <3>1, <3>3
  <2>8. ASSUME NEW size \in Nat, NEW lane \in OutLane, Holds(c, lane, size) PROVE Orderly
    BY <1>2, <2>8 DEF Holds, SendBinary
  <2>9. ASSUME NEW size \in Nat, NEW lane \in Lane, Hears(c, lane, size) PROVE Orderly
    BY <1>2, <2>9 DEF Hears
  <2>10. ASSUME NEW lane \in OutLane, Releases(c, lane) PROVE Orderly
    <3> DEFINE m == Head(channels[c].outgoing[lane])
    <3>1. /\ SameElsewhere(c) /\ ~channels[c].failed /\ channels[c].context # 0 /\ channels[c].outgoing[lane] # << >>
      BY <1>0, <2>10 DEF Releases, WorkInv, NotInUpdate, Attached, Dequeued
    <3>2. CASE sent'[c] = sent[c]
      BY <2>1, <3>1, <3>2, Silent
    <3>3. CASE sent'[c] # sent[c]
      <4>1. lane = NextLane(channels[c]) /\ Sent(c, lane, m.id, m.size, m.size) /\ Min2(m.offset + 1, m.size) = m.size
        BY <2>10, <3>3 DEF Releases
      <4> HIDE DEF m
      <4>2. m = Head(channels[c].outgoing[lane])
        BY DEF m
      <4>3. LaneSends(c, lane, m, m.size)
        BY <3>1, <4>1, <4>2 DEF LaneSends
      <4>4. OrderlyOn(c)
        BY <1>0, <4>3, LaneFollows
      <4> QED
        BY <2>1, <3>1, <4>4
    <3> QED
      BY <3>2, <3>3
  <2>11. ASSUME NEW lane \in OutLane, Moves(c, lane) PROVE Orderly
    <3> DEFINE m == Head(channels[c].outgoing[lane])
               o == Min2(m.offset + 1, m.size)
    <3>1. /\ SameElsewhere(c) /\ ~channels[c].failed /\ channels[c].context # 0 /\ channels[c].outgoing[lane] # << >>
          /\ lane = NextLane(channels[c]) /\ Sent(c, lane, m.id, o, m.size)
      BY <1>0, <2>11 DEF Moves, WorkInv, NotInUpdate, Attached, Advanced
    <3>2. m = Head(channels[c].outgoing[lane])
      OBVIOUS
    <3> HIDE DEF m
    <3>3. o = Min2(m.offset + 1, m.size)
      OBVIOUS
    <3> HIDE DEF o
    <3>4. LaneSends(c, lane, m, o)
      BY <3>1, <3>2, <3>3 DEF LaneSends
    <3>5. OrderlyOn(c)
      BY <1>0, <3>4, LaneFollows
    <3> QED
      BY <2>1, <3>1, <3>5
  <2>12. ASSUME NEW frame \in Frame, Posts(c, frame) PROVE Orderly
    BY <1>2, <2>12 DEF Posts
  <2> QED
    BY <1>2, <2>2, <2>3, <2>4, <2>5, <2>6, <2>7, <2>8, <2>9, <2>10, <2>11, <2>12 DEF Does
<1>3. CASE Rests \/ PollBulk \/ UNCHANGED binaryVars
  BY <1>1, <1>3 DEF Rests, PollBulk, binaryVars
<1> QED
  BY <1>0, <1>1, <1>2, <1>3, BinarySteps

(* No message is torn, overtaken within its lane, or starved by the other    *)
(* lane: the frames of each lane leave in order and the lanes take turns     *)
(* (realms_binary.cpp, flush_channel).                                       *)
THEOREM WireCorrect == BinarySpec => LanesShareTheWire
<1>1. BinaryInv /\ [BinaryNext]_binaryVars =>
        [\A c \in ChannelId, k \in {"control", "bulk"} :
           LET before == sent[c].frames[k]
               after == sent'[c].frames[k] IN
           after # before /\ channels'[c].context = channels[c].context =>
             \/ /\ after.id = before.id
                /\ after.size = before.size
                /\ after.offset = before.offset + 1
             \/ /\ after.id > before.id
                /\ before.offset = before.size
                /\ k = "bulk" => after.offset <= 1]_binaryVars
  BY OrderlyStep DEF Orderly, OrderlyOn, Follows
<1>2. BinaryInv /\ [BinaryNext]_binaryVars =>
        [\A c \in ChannelId :
           ~NotInUpdate /\ updating.channel = c /\ sent'[c] # sent[c] /\ sent[c].last = sent'[c].last /\ sent[c].last \in OutLane =>
             \E l \in OutLane \ {sent[c].last} : channels[c].outgoing[l] = << >>]_binaryVars
  BY OrderlyStep DEF Orderly, OrderlyOn
<1>3. BinarySpec => FramesInOrder
  BY <1>1, BinaryInvariant, PTL DEF BinarySpec, FramesInOrder
<1>4. BinarySpec => LanesAlternate
  BY <1>2, BinaryInvariant, PTL DEF BinarySpec, LanesAlternate
<1> QED
  BY <1>3, <1>4 DEF LanesShareTheWire
=============================================================================
