-------------------------- MODULE BinaryTransport --------------------------
(***************************************************************************)
(* The binary message transport of the Realms native runtime                *)
(* (realms_binary.cpp), one runtime with a channel to each remote peer.     *)
(*                                                                          *)
(* Everything runs on the game thread under data_mutex.  UpdateBinary is    *)
(* spread over steps, one per frame, for the sake of the model: while       *)
(* `updating' names a channel no other operation takes place.  The peers    *)
(* run this same code, so the frames of a lane arrive in order, a wake-up   *)
(* follows its control message, and datagrams may be lost.                  *)
(***************************************************************************)
EXTENDS Integers, Sequences, FiniteSets, SequencesExt, Queues

CONSTANTS
  MaxChannels,      \* kMaximumRemotePeers; channel ids are 1 .. MaxChannels
  Sizes,            \* payload sizes, in frames (kFrameSize - kHeaderSize)
  MaxBytes,         \* kMaximumQueuedBytes
  MaxChannelBytes,  \* kMaximumChannelBytes
  ReserveBytes,     \* kGlobalControlReserveBytes
  MaxMessages,      \* kMaximumQueuedMessages, of the receive queue
  MaxQueued,        \* kMaximumChannelMessages
  ReserveMessages,  \* kControlReserveMessages * kMaximumRemotePeers
  MaxContext,       \* bound of the model: attachments of the runtime
  MaxTraffic        \* bound of the model: messages of the attached channels, both ways

ASSUME BinaryAssumption ==
  /\ MaxChannels \in Nat \ {0}
  /\ Sizes \subseteq Nat
  /\ {MaxBytes, MaxChannelBytes, ReserveBytes, MaxMessages, MaxQueued, ReserveMessages} \subseteq Nat
  /\ ReserveBytes <= MaxBytes
  /\ ReserveMessages <= MaxMessages
  /\ MaxContext \in Nat \ {0}
  /\ MaxTraffic \in Nat

VARIABLES
  channels,         \* the channels, by id
  received,         \* the received messages of the control and the bulk lane
  receiveMessages,  \* receive_messages
  queuedBytes,      \* queued_bytes
  receiveBytes,     \* receive_bytes
  nextContext,      \* next_context
  pendingWork,      \* pending_work
  pendingReceive,   \* pending_receive
  updating,         \* UpdateBinary: the channel it has reached, 0 outside of it, and what it found
  sent,             \* engine: the last frame sent on each lane of a channel
  remote            \* the peer at the other end of a channel

binaryVars ==
  <<channels, received, receiveMessages, queuedBytes, receiveBytes, nextContext,
    pendingWork, pendingReceive, updating, sent, remote>>

ChannelId == 1 .. MaxChannels
Lane == {"control", "bulk"}          \* the lanes of received and incoming
OutLane == {"datagram", "bulk"}      \* the lanes of outgoing
Kind == Lane \cup OutLane
LaneOf(kind) == IF kind = "control" THEN "control" ELSE "bulk"

NoAssembly == [active |-> FALSE, id |-> 0, total |-> 0, got |-> 0]
Unattached ==
  [context |-> 0, failed |-> FALSE, next |-> 0, bytes |-> 0, messages |-> 0, preferUnreliable |-> TRUE,
   outgoing |-> [l \in OutLane |-> << >>], incoming |-> [l \in Lane |-> NoAssembly]]

Traffic(c) ==
  channels[c].next + remote[c].sending["control"].id + remote[c].sending["bulk"].id + remote[c].datagrams
BelowBound == SumOf([c \in ChannelId |-> Traffic(c)]) < MaxTraffic

Attached == {c \in ChannelId : channels[c].context # 0}
NotInUpdate == updating.channel = 0
NoUpdateRuns == [channel |-> 0, work |-> FALSE]

\* The last frame sent on each lane: message, end of the frame, size of the message.
NothingSent == [frames |-> [k \in Kind |-> [id |-> 0, offset |-> 0, size |-> 0]], last |-> "control"]
\* A peer: the message it is sending on each lane, and the control messages it has announced.
NewRemote == [sending |-> [l \in Lane |-> [id |-> 0, size |-> 0, offset |-> 0]], woken |-> 0, datagrams |-> 0]

BinaryInit ==
  /\ channels = [c \in ChannelId |-> Unattached]
  /\ received = [l \in Lane |-> << >>]
  /\ receiveMessages = 0
  /\ queuedBytes = 0
  /\ receiveBytes = 0
  /\ nextContext = 1
  /\ pendingWork = FALSE
  /\ pendingReceive = FALSE
  /\ updating = NoUpdateRuns
  /\ sent = [c \in ChannelId |-> NothingSent]
  /\ remote = [c \in ChannelId |-> NewRemote]

Min2(a, b) == IF a <= b THEN a ELSE b

\* fail: the first failure of a channel stays, and is reported by the next update.
Failing(c) ==
  /\ channels' = [channels EXCEPT ![c].failed = TRUE]
  /\ pendingWork' = TRUE
  /\ UNCHANGED <<received, receiveMessages, queuedBytes, receiveBytes, pendingReceive>>

(***************************************************************************)
(* Attaching and detaching.                                                 *)
(***************************************************************************)
CanAttach(c) ==
  /\ NotInUpdate
  /\ channels[c].context = 0
  /\ Cardinality(Attached) < MaxChannels
  /\ nextContext <= MaxContext

Attach(c) ==
  /\ CanAttach(c)
  /\ channels' = [channels EXCEPT ![c] = [Unattached EXCEPT !.context = nextContext]]
  /\ nextContext' = nextContext + 1
  /\ sent' = [sent EXCEPT ![c] = NothingSent]
  /\ remote' = [remote EXCEPT ![c] = NewRemote]
  /\ UNCHANGED <<received, receiveMessages, queuedBytes, receiveBytes, pendingWork, pendingReceive, updating>>

\* The engine refuses the listener: the channel is erased, its context is used up.
AttachRefused(c) ==
  /\ CanAttach(c)
  /\ nextContext' = nextContext + 1
  /\ UNCHANGED <<channels, received, receiveMessages, queuedBytes, receiveBytes,
                 pendingWork, pendingReceive, updating, sent, remote>>

\* The messages of the channel in a queue, and all but them.
OfChannel(c, q) == {i \in DOMAIN q : q[i].channel = c}
AssembledBytes(ch) ==
  LET bytes(l) == IF ch.incoming[l].active THEN ch.incoming[l].total ELSE 0 IN
  bytes("control") + bytes("bulk")

\* Mutant: the bytes reserved for unfinished messages are not given back.
DiscardKeepsAssemblies(c) ==
  LET mine(l) == Keeping(received[l], OfChannel(c, received[l]))
      others(l) == Keeping(received[l], (DOMAIN received[l]) \ OfChannel(c, received[l])) IN
  /\ queuedBytes' = queuedBytes - channels[c].bytes
  /\ receiveBytes' = receiveBytes - SumBytes(mine("control")) - SumBytes(mine("bulk"))
  /\ received' = [l \in Lane |-> others(l)]
  /\ receiveMessages' = receiveMessages - Len(mine("control")) - Len(mine("bulk"))
  /\ pendingReceive' = (receiveMessages' # 0)

\* discard_channel gives back what the channel queued, assembles and has received.
Discard(c) ==
  LET mine(l) == Keeping(received[l], OfChannel(c, received[l]))
      others(l) == Keeping(received[l], (DOMAIN received[l]) \ OfChannel(c, received[l])) IN
  /\ queuedBytes' = queuedBytes - channels[c].bytes
  /\ receiveBytes' = receiveBytes - AssembledBytes(channels[c])
                       - SumBytes(mine("control")) - SumBytes(mine("bulk"))
  /\ received' = [l \in Lane |-> others(l)]
  /\ receiveMessages' = receiveMessages - Len(mine("control")) - Len(mine("bulk"))
  /\ pendingReceive' = (receiveMessages' # 0)

Detach(c) ==
  /\ NotInUpdate
  /\ c \in Attached
  /\ Discard(c)
  /\ channels' = [channels EXCEPT ![c] = Unattached]
  /\ pendingWork' = (pendingWork /\ Attached # {c})
  /\ sent' = [sent EXCEPT ![c] = NothingSent]
  /\ remote' = [remote EXCEPT ![c] = NewRemote]
  /\ UNCHANGED <<nextContext, updating>>

(***************************************************************************)
(* Sending.  Control messages go to the engine at once, the others wait     *)
(* in the lanes of their channel for UpdateBinary.                          *)
(***************************************************************************)
\* Mutant: a failed channel goes on sending.
CanSendFailed(c) == /\ NotInUpdate
                    /\ c \in Attached
                    /\ BelowBound

CanSend(c) == /\ NotInUpdate
              /\ c \in Attached
              /\ ~channels[c].failed
              /\ BelowBound

Sent(c, kind, id, offset, size) ==
  sent' = [sent EXCEPT ![c].frames[kind] = [id |-> id, offset |-> offset, size |-> size], ![c].last = kind]

\* send_control checks the space for all frames first, so nothing or all of the message goes
\* out, unless the engine rejects one of the frames.
SendControl(c, size) ==
  /\ CanSend(c)
  /\ channels' = [channels EXCEPT ![c].next = @ + 1]
  /\ Sent(c, "control", channels[c].next + 1, size, size)
  /\ UNCHANGED <<received, receiveMessages, queuedBytes, receiveBytes, nextContext,
                 pendingWork, pendingReceive, updating, remote>>

SendControlBreaks(c, size) ==
  /\ CanSend(c)
  /\ \E done \in 0 .. size :
       /\ done < size \/ size = 0
       /\ IF done = 0 THEN UNCHANGED sent ELSE Sent(c, "control", channels[c].next + 1, done, size)
  /\ Failing(c)
  /\ UNCHANGED <<nextContext, updating, remote>>

QueueHasRoom(c, size) ==
  /\ size <= MaxChannelBytes - channels[c].bytes
  /\ size <= MaxBytes - queuedBytes
  /\ channels[c].messages < MaxQueued

SendBinary(c, lane, size) ==
  /\ CanSend(c)
  /\ lane = "datagram" => size <= 1
  /\ QueueHasRoom(c, size)
  /\ channels' = [channels EXCEPT
       ![c].outgoing[lane] = Append(@, [id |-> channels[c].next + 1, size |-> size, offset |-> 0]),
       ![c].next = @ + 1, ![c].bytes = @ + size, ![c].messages = @ + 1]
  /\ queuedBytes' = queuedBytes + size
  /\ pendingWork' = TRUE
  /\ UNCHANGED <<received, receiveMessages, receiveBytes, nextContext,
                 pendingReceive, updating, sent, remote>>

(***************************************************************************)
(* UpdateBinary flushes the channels in the order of their ids.             *)
(***************************************************************************)
UpdateNothing ==
  /\ NotInUpdate
  /\ pendingWork
  /\ Attached = {}
  /\ pendingWork' = FALSE
  /\ UNCHANGED <<channels, received, receiveMessages, queuedBytes, receiveBytes, nextContext,
                 pendingReceive, updating, sent, remote>>

FirstFrom(c) == CHOOSE d \in Attached : d >= c /\ \A e \in Attached : e >= c => d <= e

UpdateStarts ==
  /\ NotInUpdate
  /\ pendingWork
  /\ Attached # {}
  /\ updating' = [channel |-> FirstFrom(1), work |-> FALSE]
  /\ UNCHANGED <<channels, received, receiveMessages, queuedBytes, receiveBytes, nextContext,
                 pendingWork, pendingReceive, sent, remote>>

Flushing == channels[updating.channel]
Assembling(ch) == \E l \in Lane : ch.incoming[l].active

\* A failed channel ends the update.
UpdateReports ==
  /\ ~NotInUpdate
  /\ Flushing.failed
  /\ updating' = NoUpdateRuns
  /\ UNCHANGED <<channels, received, receiveMessages, queuedBytes, receiveBytes, nextContext,
                 pendingWork, pendingReceive, sent, remote>>

\* The reassembly timed out, the peer is gone, its frames became too small, or a send failed.
FlushFails ==
  /\ ~NotInUpdate
  /\ ~Flushing.failed
  /\ Assembling(Flushing) \/ Flushing.messages # 0
  /\ Failing(updating.channel)
  /\ UNCHANGED <<nextContext, updating, sent, remote>>

Expires ==
  /\ ~NotInUpdate
  /\ ~Flushing.failed
  /\ Flushing.outgoing["datagram"] # << >>
  /\ LET size == Head(Flushing.outgoing["datagram"]).size IN
       /\ queuedBytes' = queuedBytes - size
       /\ channels' = [channels EXCEPT
            ![updating.channel].outgoing["datagram"] = Tail(@),
            ![updating.channel].bytes = @ - size,
            ![updating.channel].messages = @ - 1]
  /\ UNCHANGED <<received, receiveMessages, receiveBytes, nextContext,
                 pendingWork, pendingReceive, updating, sent, remote>>

PrefersDatagram(ch) ==
  /\ ch.outgoing["datagram"] # << >>
  /\ ch.preferUnreliable \/ ch.outgoing["bulk"] = << >>
NextLane(ch) == IF PrefersDatagram(ch) THEN "datagram" ELSE "bulk"

\* One frame of the chosen lane, whose message leaves the queue with its last frame.
SendFrame ==
  LET c == updating.channel
      lane == NextLane(Flushing)
      message == Head(Flushing.outgoing[lane])
      offset == Min2(message.offset + 1, message.size) IN
  /\ ~NotInUpdate
  /\ ~Flushing.failed
  /\ Flushing.outgoing[lane] # << >>
  /\ Sent(c, lane, message.id, offset, message.size)
  /\ IF offset = message.size
     THEN /\ channels' = [channels EXCEPT
               ![c].preferUnreliable = lane # "datagram", ![c].outgoing[lane] = Tail(@),
               ![c].bytes = @ - message.size, ![c].messages = @ - 1]
          /\ queuedBytes' = queuedBytes - message.size
     ELSE /\ channels' = [channels EXCEPT
               ![c].preferUnreliable = lane # "datagram", ![c].outgoing[lane][1].offset = offset]
          /\ UNCHANGED queuedBytes
  /\ UNCHANGED <<received, receiveMessages, receiveBytes, nextContext,
                 pendingWork, pendingReceive, updating, remote>>

\* Nothing is queued, or the rate or the engine's buffers stop the channel for now.
HasWork(ch) == ch.messages # 0 \/ Assembling(ch)

FlushEnds ==
  LET rest == {d \in Attached : d > updating.channel}
      work == updating.work \/ HasWork(Flushing) IN
  /\ ~NotInUpdate
  /\ ~Flushing.failed
  /\ IF rest = {}
     THEN updating' = NoUpdateRuns /\ pendingWork' = work
     ELSE updating' = [channel |-> FirstFrom(updating.channel + 1), work |-> work] /\ UNCHANGED pendingWork
  /\ UNCHANGED <<channels, received, receiveMessages, queuedBytes, receiveBytes, nextContext,
                 pendingReceive, sent, remote>>

Update == UpdateNothing \/ UpdateStarts \/ UpdateReports \/ FlushFails \/ Expires \/ SendFrame \/ FlushEnds

(***************************************************************************)
(* Receiving: the engine calls receive_callback with the context of the     *)
(* listener.  A frame is [kind, id, total, offset].                         *)
(***************************************************************************)
\* complete
HasPlace(kind) ==
  receiveMessages < MaxMessages - (IF kind = "control" THEN 0 ELSE ReserveMessages)

Complete(c, frame) ==
  /\ received' = [received EXCEPT ![LaneOf(frame.kind)] =
                    Append(@, [channel |-> c, kind |-> frame.kind, id |-> frame.id, size |-> frame.total])]
  /\ receiveMessages' = receiveMessages + 1
  /\ pendingReceive' = TRUE

ReceiveDatagram(c, frame) ==
  IF frame.total <= MaxBytes - ReserveBytes - receiveBytes /\ HasPlace("datagram")
  THEN /\ Complete(c, frame)
       /\ receiveBytes' = receiveBytes + frame.total
       /\ UNCHANGED <<channels, pendingWork, queuedBytes>>
  ELSE Failing(c)

ReceiveLimit(kind) == MaxBytes - (IF kind = "control" THEN 0 ELSE ReserveBytes)
CanStart(frame) ==
  /\ frame.offset = 0
  /\ frame.total <= ReceiveLimit(frame.kind) - receiveBytes
Continues(assembly, frame) ==
  /\ assembly.id = frame.id
  /\ assembly.total = frame.total
  /\ assembly.got = frame.offset

\* The first fragment reserves the bytes of the whole message.  They stay reserved when the
\* queue has no place for the complete one.
ReceiveReliable(c, frame) ==
  LET lane == LaneOf(frame.kind)
      before == channels[c].incoming[lane]
      started == ~before.active
      assembly == IF started THEN [active |-> TRUE, id |-> frame.id, total |-> frame.total, got |-> 0] ELSE before
      got == Min2(frame.offset + 1, frame.total)
      held == receiveBytes + (IF started THEN frame.total ELSE 0)
      whole == got = frame.total IN
  IF started /\ ~CanStart(frame)
  THEN Failing(c)
  ELSE /\ receiveBytes' = held
       /\ pendingWork' = TRUE
       /\ UNCHANGED queuedBytes
       /\ IF ~Continues(assembly, frame)
          THEN /\ channels' = [channels EXCEPT ![c].failed = TRUE]
               /\ UNCHANGED <<received, receiveMessages, pendingReceive>>
          ELSE IF whole /\ HasPlace(frame.kind)
          THEN /\ channels' = [channels EXCEPT ![c].incoming[lane] = NoAssembly]
               /\ Complete(c, frame)
          ELSE /\ channels' = [channels EXCEPT ![c].failed = whole,
                                               ![c].incoming[lane] = [assembly EXCEPT !.got = got]]
               /\ UNCHANGED <<received, receiveMessages, pendingReceive>>

\* The listener of an earlier attachment, or of a failed channel, changes nothing.
Serves(x) == channels[x.channel].context = x.context /\ ~channels[x.channel].failed

ReceiveFrame(x, frame) ==
  IF Serves(x)
  THEN IF frame.kind = "datagram" THEN ReceiveDatagram(x.channel, frame) ELSE ReceiveReliable(x.channel, frame)
  ELSE UNCHANGED <<channels, received, receiveMessages, queuedBytes, receiveBytes, pendingWork, pendingReceive>>

\* The next reliable frame of a peer: control messages are sent whole, bulk ones between them.
RemoteSends(c, lane, size) ==
  LET last == remote[c].sending[lane]
      done == last.offset = last.size
      message == IF done THEN [id |-> last.id + 1, size |-> size, offset |-> 0] ELSE last
      frame == [kind |-> lane, id |-> message.id, total |-> message.size, offset |-> message.offset] IN
  /\ NotInUpdate
  /\ channels[c].context # 0
  /\ done => BelowBound
  /\ lane = "bulk" => remote[c].sending["control"].offset = remote[c].sending["control"].size
  /\ remote' = [remote EXCEPT ![c].sending[lane] = [message EXCEPT !.offset = Min2(@ + 1, message.size)]]
  /\ ReceiveFrame([channel |-> c, context |-> channels[c].context], frame)
  /\ UNCHANGED <<nextContext, updating, sent>>

RemoteSendsDatagram(c, size) ==
  /\ NotInUpdate
  /\ channels[c].context # 0
  /\ size <= 1
  /\ BelowBound
  /\ remote' = [remote EXCEPT ![c].datagrams = @ + 1]
  /\ ReceiveFrame([channel |-> c, context |-> channels[c].context],
                  [kind |-> "datagram", id |-> remote[c].datagrams + 1, total |-> size, offset |-> 0])
  /\ UNCHANGED <<nextContext, updating, sent>>

\* remove_listener may be deferred: a frame can still reach the listener of an earlier attachment.
LateFrame(x, lane, size) ==
  /\ NotInUpdate
  /\ channels[x.channel].context # x.context
  /\ ReceiveFrame(x, [kind |-> lane, id |-> 1, total |-> size, offset |-> 0])
  /\ UNCHANGED <<nextContext, updating, sent, remote>>

\* A header that does not decode, or a peer that is not the channel's.
InvalidFrame(c) ==
  /\ NotInUpdate
  /\ c \in Attached
  /\ ~channels[c].failed
  /\ Failing(c)
  /\ UNCHANGED <<nextContext, updating, sent, remote>>

(***************************************************************************)
(* PollBinary takes the oldest bulk message, or the oldest control message  *)
(* of a channel, which must be the one that its wake-up announces.          *)
(***************************************************************************)
Taken(lane, i) ==
  /\ receiveBytes' = receiveBytes - received[lane][i].size
  /\ received' = [received EXCEPT ![lane] = RemoveAt(@, i)]
  /\ receiveMessages' = receiveMessages - 1
  /\ pendingReceive' = (receiveMessages' # 0)

PollBulk ==
  /\ NotInUpdate
  /\ pendingReceive
  /\ received["bulk"] # << >>
  /\ Taken("bulk", 1)
  /\ UNCHANGED <<channels, queuedBytes, nextContext, pendingWork, updating, sent, remote>>

ControlOf(c) == OfChannel(c, received["control"])
\* Mutant: the oldest control message of any channel.
FirstControlOfAll(c) == 1
FirstControl(c) == CHOOSE i \in ControlOf(c) : \A j \in ControlOf(c) : i <= j
\* The control messages that the peer has sent to the end.
Announced(c) ==
  LET last == remote[c].sending["control"] IN IF last.offset = last.size THEN last.id ELSE last.id - 1
PayloadWaits(c, id) ==
  /\ pendingReceive
  /\ ControlOf(c) # {}
  /\ received["control"][FirstControl(c)].id = id

WakeUp(c) ==
  /\ NotInUpdate
  /\ c \in Attached
  /\ remote[c].woken < Announced(c)
  /\ PayloadWaits(c, remote[c].woken + 1)
  /\ Taken("control", FirstControl(c))
  /\ remote' = [remote EXCEPT ![c].woken = @ + 1]
  /\ UNCHANGED <<channels, queuedBytes, nextContext, pendingWork, updating, sent>>

\* Lua rejects the channel of a wake-up that finds no payload, as of any failed one: Detach.

BinaryNext ==
  \/ \E c \in ChannelId : Attach(c) \/ AttachRefused(c) \/ Detach(c) \/ InvalidFrame(c) \/ WakeUp(c)
  \/ \E c \in ChannelId, size \in Sizes :
       \/ SendControl(c, size) \/ SendControlBreaks(c, size)
       \/ \E lane \in OutLane : SendBinary(c, lane, size)
       \/ \E lane \in Lane : RemoteSends(c, lane, size)
       \/ RemoteSendsDatagram(c, size)
  \/ \E c \in ChannelId, n \in 1 .. nextContext - 1, lane \in Kind, size \in Sizes :
       LateFrame([channel |-> c, context |-> n], lane, size)
  \/ Update
  \/ PollBulk

BinarySpec == BinaryInit /\ [][BinaryNext]_binaryVars

(***************************************************************************)
(* Properties.                                                              *)
(***************************************************************************)
\* Every byte and message that the counters hold belongs to something that still exists, and
\* the other way round: nothing leaks when channels fail, time out, detach or refuse a message.
TransportBooksBalance ==
  /\ \A c \in ChannelId :
       /\ channels[c].bytes = SumBytes(channels[c].outgoing["datagram"]) + SumBytes(channels[c].outgoing["bulk"])
       /\ channels[c].messages = Len(channels[c].outgoing["datagram"]) + Len(channels[c].outgoing["bulk"])
  /\ queuedBytes = SumOf([c \in ChannelId |-> channels[c].bytes])
  /\ receiveBytes = SumBytes(received["control"]) + SumBytes(received["bulk"])
                      + SumOf([c \in ChannelId |-> AssembledBytes(channels[c])])
  /\ receiveMessages = Len(received["control"]) + Len(received["bulk"])

\* UpdateBinary and PollBinary return at once without their flag, which is therefore set
\* whenever something waits for them: queued messages, a reassembly that may time out, a
\* failure to report, a message to take.
NoWorkIsMissed ==
  /\ \A c \in Attached : NotInUpdate /\ (channels[c].failed \/ HasWork(channels[c])) => pendingWork
  /\ pendingReceive <=> \E l \in Lane : received[l] # << >>

\* The limits of the receive queue keep a reserve that bulk messages and datagrams never use:
\* whatever they do, the control messages of a peer find their place.
BulkLeavesReserve ==
  /\ Len(received["bulk"]) <= MaxMessages - ReserveMessages
  /\ SumBytes(received["bulk"]) + SumOf([c \in ChannelId |->
       IF channels[c].incoming["bulk"].active THEN channels[c].incoming["bulk"].total ELSE 0]) <= MaxBytes - ReserveBytes

\* Whatever is queued is accounted for, worked on, and never takes the place of control messages.
TransportKeepsItsBooks == TransportBooksBalance /\ NoWorkIsMissed /\ BulkLeavesReserve

\* A wake-up arrives by another path than its payload.  On a channel that has not failed it
\* finds it first in line: no honest peer is rejected, whatever was attached, detached, polled
\* or refused before.
WakeUpsFindTheirPayload ==
  \A c \in Attached : NotInUpdate /\ ~channels[c].failed /\ remote[c].woken < Announced(c) =>
                        PayloadWaits(c, remote[c].woken + 1)

\* The frames of a message leave in order and without a frame of another message of the lane
\* between them, and messages leave in the order of their ids: the peer can reassemble them.
FramesInOrder ==
  [][\A c \in ChannelId, k \in {"control", "bulk"} :
       LET before == sent[c].frames[k]
           after == sent'[c].frames[k] IN
       after # before /\ channels'[c].context = channels[c].context =>
         \/ /\ after.id = before.id
            /\ after.size = before.size
            /\ after.offset = before.offset + 1
         \/ /\ after.id > before.id
            /\ before.offset = before.size
            /\ k = "bulk" => after.offset <= 1]_binaryVars

\* A channel with datagrams and bulk messages sends them in turn: neither starves the other.
LanesAlternate ==
  [][\A c \in ChannelId :
       ~NotInUpdate /\ updating.channel = c /\ sent'[c] # sent[c] /\ sent[c].last = sent'[c].last /\ sent[c].last \in OutLane =>
         \E l \in OutLane \ {sent[c].last} : channels[c].outgoing[l] = << >>]_binaryVars

\* The lanes share the wire: no message is torn, overtaken within its lane, or starved by the other lane.
LanesShareTheWire == FramesInOrder /\ LanesAlternate
=============================================================================
