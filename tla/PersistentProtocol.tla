------------------------- MODULE PersistentProtocol -------------------------
(***************************************************************************)
(* The two ends of a PersistentProtocol connection                         *)
(* (src/vs/base/parts/ipc/common/ipc.net.ts) and the sockets between them. *)
(*                                                                         *)
(* An end numbers the Regular messages it sends, keeps them until they are *)
(* acknowledged, and writes them again when it is moved to a new socket.   *)
(* A socket is a pair of FIFO wires that may close at any moment and lose  *)
(* the tail of what is in flight.  The client moves to a fresh socket when *)
(* it hears of a close or of a timeout; the server is moved to a socket of *)
(* the client, in any order and possibly late.  Time is abstract: a timer  *)
(* that is set may fire at any moment.                                     *)
(***************************************************************************)
EXTENDS Naturals, Sequences

CONSTANTS Payload,      \* the contents of Regular messages
          NoPayload,    \* the empty buffer of every other message
          MaxId,        \* MaxId[p]: bound on the ids of end p, below the 2^32 of the wire
          MaxSocket,    \* bound on the sockets the client opens
          MaxWire,      \* bound on a wire before an end volunteers a signal
          Volunteered,  \* Volunteered[p]: what the owner and the keep-alive interval of p do
          Lossy         \* TRUE: a socket may also drop a message in the middle

ASSUME PayloadAssumption == NoPayload \notin Payload
ASSUME BoundsAssumption ==
    /\ MaxId \in [{"client", "server"} -> Nat]
    /\ MaxSocket \in Nat \ {0}
    /\ MaxWire \in Nat
    /\ Volunteered \in [{"client", "server"} -> SUBSET {"Control", "Pause", "Resume",
                          "PauseWriting", "Disconnect", "Dispose", "KeepAlive"}]
    /\ Lossy \in BOOLEAN

VARIABLES
    isReconnecting,     \* between beginAcceptReconnection and endAcceptReconnection
    outgoingMsgId,      \* id of the last Regular message sent
    outgoingAckId,      \* id of the last one the peer acknowledged
    outgoingUnackMsg,   \* queue of the messages sent and not acknowledged
    outgoingAckTimeout, \* TRUE: the timer of _recvAckCheck is set
    incomingMsgId,      \* id of the last Regular message delivered
    incomingAckId,      \* the last id acknowledged to the peer
    incomingAckTimeout, \* TRUE: the timer of _sendAckCheck is set
    replayRequested,    \* TRUE: a ReplayRequest was sent in the last 10 seconds
    didSendDisconnect,
    disposed,           \* dispose() was called
    socket,             \* the socket an end is attached to
    used,               \* the sockets it was ever attached to
    socketEvent,        \* what its owner was told of that socket
    didDispose,         \* onDidDispose fired: the peer disconnected
    paused,             \* ProtocolWriter._isPaused
    held,               \* what the paused writer keeps
    open,               \* open[k]: socket k accepts data
    wire,               \* wire[k][p]: in flight on socket k towards end p
    sent, rcvd,         \* history: payloads given to send(), fired by onMessage
    farewell            \* history: how many were sent before a Disconnect

outgoingVars == <<outgoingMsgId, outgoingAckId, outgoingUnackMsg, sent>>
incomingVars == <<incomingMsgId, rcvd, replayRequested>>
timerVars    == <<outgoingAckTimeout, incomingAckTimeout>>
ownerVars    == <<isReconnecting, disposed, socket, used>>
eventVars    == <<socketEvent, didDispose>>
writerVars   == <<held, wire>>
closingVars  == <<didSendDisconnect, farewell>>
vars == <<outgoingVars, incomingVars, timerVars, ownerVars, eventVars,
          writerVars, closingVars, incomingAckId, paused, open>>

End == {"client", "server"}
Other(p) == IF p = "client" THEN "server" ELSE "client"
Socket == 1 .. MaxSocket

MessageType == {"Regular", "Control", "Ack", "Disconnect", "ReplayRequest",
                "Pause", "Resume", "KeepAlive"}
Message == [type : MessageType, id : Nat, ack : Nat, data : Payload \cup {NoPayload}]

\* Mutant: the acknowledgement is one short.
RegularAcksPrevious(id, ack, d) ==
    [type |-> "Regular", id |-> id, ack |-> ack - 1, data |-> d]
\* Mutant: the acknowledgement names the message that is expected next.
RegularAcksNext(id, ack, d) ==
    [type |-> "Regular", id |-> id, ack |-> ack + 1, data |-> d]

Regular(id, ack, d) == [type |-> "Regular", id |-> id, ack |-> ack, data |-> d]
Signal(type, ack) == [type |-> type, id |-> 0, ack |-> ack, data |-> NoPayload]

-----------------------------------------------------------------------------
(* The writer: a disposed one ignores the write, a paused one keeps it, a   *)
(* closed socket swallows it.                                               *)

\* Mutant: a paused writer swallows what it is given.
KeptNothing(p, ms) == << >>

Kept(p, ms) == IF paused[p] /\ ~disposed[p] THEN ms ELSE << >>
Written(p, ms) == IF paused[p] \/ disposed[p] \/ ~open[socket[p]] THEN << >> ELSE ms

Write(p, ms) ==
    /\ held' = [held EXCEPT ![p] = @ \o Kept(p, ms)]
    /\ wire' = [wire EXCEPT ![socket[p]][Other(p)] = @ \o Written(p, ms)]

\* The reader takes the first message in flight and the handler writes ms.
ReadAndWrite(p, ms) ==
    /\ held' = [held EXCEPT ![p] = @ \o Kept(p, ms)]
    /\ wire' = [wire EXCEPT ![socket[p]] = [q \in End |->
                    IF q = p THEN Tail(@[p]) ELSE @[q] \o Written(p, ms)]]

\* An end volunteers a message only while few are in flight (a model bound).
Quiet(p) == Len(wire[socket[p]][Other(p)]) < MaxWire /\ Len(held[p]) < MaxWire

(* _recvAckCheck, given the ids and the reconnecting flag it reads: with    *)
(* messages outstanding and no timer set, either the socket is reported as  *)
(* timed out or the timer is set.                                           *)
RecvAckCheck(p, msgId, ackId, reconnecting) ==
    IF msgId <= ackId \/ outgoingAckTimeout[p] \/ reconnecting
    THEN UNCHANGED <<outgoingAckTimeout, socketEvent>>
    ELSE \/ /\ socketEvent' = [socketEvent EXCEPT ![p] = @ \cup {"timeout"}]
            /\ UNCHANGED outgoingAckTimeout
         \/ /\ outgoingAckTimeout' = [outgoingAckTimeout EXCEPT ![p] = TRUE]
            /\ UNCHANGED socketEvent

(* The loop at the head of _receiveMessage pops the queue while its first   *)
(* message has an id of at most ack.                                        *)
\* Mutant: the acknowledged message itself stays in the queue.
DropBelow(queue, ack) == SelectSeq(queue, LAMBDA m : m.id >= ack)

DropAcked(queue, ack) ==
    LET n == CHOOSE n \in 0 .. Len(queue) :
                /\ \A i \in 1 .. n : queue[i].id <= ack
                /\ n < Len(queue) => queue[n + 1].id > ack
    IN SubSeq(queue, n + 1, Len(queue))

\* Mutant: the loop over the queue starts at the second message.
ReplayAfterFirst(p) == SubSeq(outgoingUnackMsg[p], 2, Len(outgoingUnackMsg[p]))

\* What is written again on a new socket, or on request: all that waits.
Replay(p) == outgoingUnackMsg[p]

-----------------------------------------------------------------------------
Init ==
    /\ isReconnecting = [p \in End |-> FALSE]
    /\ outgoingMsgId = [p \in End |-> 0]
    /\ outgoingAckId = [p \in End |-> 0]
    /\ outgoingUnackMsg = [p \in End |-> << >>]
    /\ outgoingAckTimeout = [p \in End |-> FALSE]
    /\ incomingMsgId = [p \in End |-> 0]
    /\ incomingAckId = [p \in End |-> 0]
    /\ incomingAckTimeout = [p \in End |-> FALSE]
    /\ replayRequested = [p \in End |-> FALSE]
    /\ didSendDisconnect = [p \in End |-> FALSE]
    /\ disposed = [p \in End |-> FALSE]
    /\ socket = [p \in End |-> 1]
    /\ used = [p \in End |-> {1}]
    /\ socketEvent = [p \in End |-> {}]
    /\ didDispose = [p \in End |-> FALSE]
    /\ paused = [p \in End |-> FALSE]
    /\ held = [p \in End |-> << >>]
    /\ open = [k \in Socket |-> TRUE]
    /\ wire = [k \in Socket |-> [p \in End |-> << >>]]
    /\ sent = [p \in End |-> << >>]
    /\ rcvd = [p \in End |-> << >>]
    /\ farewell = [p \in End |-> 0]

-----------------------------------------------------------------------------
(* Operations of the owner of an end.                                       *)

Send(p, d) ==
    LET myId == outgoingMsgId[p] + 1
        msg  == Regular(myId, incomingMsgId[p], d)
    IN /\ myId <= MaxId[p]
       /\ outgoingMsgId' = [outgoingMsgId EXCEPT ![p] = myId]
       /\ incomingAckId' = [incomingAckId EXCEPT ![p] = incomingMsgId[p]]
       /\ outgoingUnackMsg' = [outgoingUnackMsg EXCEPT ![p] = Append(@, msg)]
       /\ sent' = [sent EXCEPT ![p] = Append(@, d)]
       /\ IF isReconnecting[p] THEN UNCHANGED writerVars ELSE Write(p, <<msg>>)
       /\ RecvAckCheck(p, myId, outgoingAckId[p], isReconnecting[p])
       /\ UNCHANGED <<incomingVars, incomingAckTimeout, ownerVars, didDispose,
                      closingVars, outgoingAckId, paused, open>>

\* sendControl, sendPause, sendResume: a message outside the numbering.
SendSignal(p, type) ==
    /\ type \in {"Control", "Pause", "Resume"} \cap Volunteered[p]
    /\ Quiet(p)
    /\ Write(p, <<Signal(type, 0)>>)
    /\ UNCHANGED <<outgoingVars, incomingVars, timerVars, ownerVars, eventVars,
                   closingVars, incomingAckId, paused, open>>

PauseSocketWriting(p) ==
    /\ "PauseWriting" \in Volunteered[p]
    /\ paused' = [paused EXCEPT ![p] = TRUE]
    /\ UNCHANGED <<outgoingVars, incomingVars, timerVars, ownerVars, eventVars,
                   writerVars, closingVars, incomingAckId, open>>

SendDisconnect(p) ==
    /\ "Disconnect" \in Volunteered[p]
    /\ ~didSendDisconnect[p]
    /\ didSendDisconnect' = [didSendDisconnect EXCEPT ![p] = TRUE]
    /\ Write(p, <<Signal("Disconnect", 0)>>)
    /\ farewell' = [farewell EXCEPT ![p] = IF isReconnecting[p] THEN 0 ELSE outgoingMsgId[p]]
    /\ UNCHANGED <<outgoingVars, incomingVars, timerVars, ownerVars, eventVars,
                   incomingAckId, paused, open>>

\* The timers are cleared, the writer and the reader disposed.
Dispose(p) ==
    /\ "Dispose" \in Volunteered[p]
    /\ ~disposed[p]
    /\ disposed' = [disposed EXCEPT ![p] = TRUE]
    /\ outgoingAckTimeout' = [outgoingAckTimeout EXCEPT ![p] = FALSE]
    /\ incomingAckTimeout' = [incomingAckTimeout EXCEPT ![p] = FALSE]
    /\ UNCHANGED <<outgoingVars, incomingVars, eventVars, writerVars, closingVars,
                   isReconnecting, socket, used, incomingAckId, paused, open>>

-----------------------------------------------------------------------------
(* Timers.                                                                  *)

\* Mutant: the timer of _sendAckCheck gives up while the end is reconnecting.
AckTimerGivesUp(p) ==
    /\ incomingAckTimeout[p]
    /\ incomingAckTimeout' = [incomingAckTimeout EXCEPT ![p] = FALSE]
    /\ IF incomingMsgId[p] <= incomingAckId[p] \/ isReconnecting[p]
       THEN UNCHANGED <<writerVars, incomingAckId>>
       ELSE /\ incomingAckId' = [incomingAckId EXCEPT ![p] = incomingMsgId[p]]
            /\ Write(p, <<Signal("Ack", incomingMsgId[p])>>)
    /\ UNCHANGED <<outgoingVars, incomingVars, outgoingAckTimeout, ownerVars,
                   eventVars, closingVars, paused, open>>

\* The timer of _sendAckCheck: acknowledge, unless another message did.
AckTimerFires(p) ==
    /\ incomingAckTimeout[p]
    /\ incomingAckTimeout' = [incomingAckTimeout EXCEPT ![p] = FALSE]
    /\ IF incomingMsgId[p] <= incomingAckId[p]
       THEN UNCHANGED <<writerVars, incomingAckId>>
       ELSE /\ incomingAckId' = [incomingAckId EXCEPT ![p] = incomingMsgId[p]]
            /\ Write(p, <<Signal("Ack", incomingMsgId[p])>>)
    /\ UNCHANGED <<outgoingVars, incomingVars, outgoingAckTimeout, ownerVars,
                   eventVars, closingVars, paused, open>>

\* The timer of _recvAckCheck: nothing left to watch, a timeout, or set again.
RecvAckTimerFires(p) ==
    /\ outgoingAckTimeout[p]
    /\ \/ /\ outgoingMsgId[p] <= outgoingAckId[p] \/ isReconnecting[p]
          /\ UNCHANGED socketEvent
       \/ /\ outgoingMsgId[p] > outgoingAckId[p] /\ ~isReconnecting[p]
          /\ socketEvent' = [socketEvent EXCEPT ![p] = @ \cup {"timeout"}]
    /\ outgoingAckTimeout' = [outgoingAckTimeout EXCEPT ![p] = FALSE]
    /\ UNCHANGED <<outgoingVars, incomingVars, incomingAckTimeout, ownerVars,
                   didDispose, writerVars, closingVars, incomingAckId, paused, open>>

\* The keep-alive interval, which may also find the socket silent for too long.
SendKeepAlive(p) ==
    /\ "KeepAlive" \in Volunteered[p]
    /\ ~disposed[p]
    /\ Quiet(p)
    /\ incomingAckId' = [incomingAckId EXCEPT ![p] = incomingMsgId[p]]
    /\ Write(p, <<Signal("KeepAlive", incomingMsgId[p])>>)
    /\ \/ UNCHANGED socketEvent
       \/ /\ ~isReconnecting[p]
          /\ socketEvent' = [socketEvent EXCEPT ![p] = @ \cup {"timeout"}]
    /\ UNCHANGED <<outgoingVars, incomingVars, timerVars, ownerVars, didDispose,
                   closingVars, paused, open>>

\* Ten seconds after a ReplayRequest another one may be sent.
ReplayWindowElapses(p) ==
    /\ replayRequested[p]
    /\ replayRequested' = [replayRequested EXCEPT ![p] = FALSE]
    /\ UNCHANGED <<outgoingVars, incomingMsgId, rcvd, timerVars, ownerVars, eventVars,
                   writerVars, closingVars, incomingAckId, paused, open>>

-----------------------------------------------------------------------------
(* _receiveMessage: the acknowledgement first, then one action per type.    *)

Arriving(p, type) ==
    /\ ~disposed[p]
    /\ wire[socket[p]][p] # << >>
    /\ Head(wire[socket[p]][p]).type = type

Incoming(p) == Head(wire[socket[p]][p])

AcceptAck(p, ack) ==
    IF ack > outgoingAckId[p]
    THEN /\ outgoingAckId' = [outgoingAckId EXCEPT ![p] = ack]
         /\ outgoingUnackMsg' = [outgoingUnackMsg EXCEPT ![p] = DropAcked(@, ack)]
    ELSE UNCHANGED <<outgoingAckId, outgoingUnackMsg>>

\* Mutant: any newer message is taken for the next one.
ReceiveNewer(p) ==
    LET m == Incoming(p) IN
      /\ Arriving(p, "Regular")
      /\ m.id > incomingMsgId[p]
      /\ AcceptAck(p, m.ack)
      /\ incomingMsgId' = [incomingMsgId EXCEPT ![p] = m.id]
      /\ rcvd' = [rcvd EXCEPT ![p] = Append(@, m.data)]
      /\ incomingAckTimeout' = [incomingAckTimeout EXCEPT ![p] = TRUE]
      /\ ReadAndWrite(p, << >>)
      /\ UNCHANGED <<outgoingMsgId, sent, outgoingAckTimeout, replayRequested, ownerVars,
                     eventVars, closingVars, incomingAckId, paused, open>>

\* The next message in order is delivered and its acknowledgement scheduled.
ReceiveInOrder(p) ==
    LET m == Incoming(p) IN
      /\ Arriving(p, "Regular")
      /\ m.id = incomingMsgId[p] + 1
      /\ AcceptAck(p, m.ack)
      /\ incomingMsgId' = [incomingMsgId EXCEPT ![p] = m.id]
      /\ rcvd' = [rcvd EXCEPT ![p] = Append(@, m.data)]
      /\ incomingAckTimeout' = [incomingAckTimeout EXCEPT
                                  ![p] = @ \/ m.id > incomingAckId[p]]
      /\ ReadAndWrite(p, << >>)
      /\ UNCHANGED <<outgoingMsgId, sent, outgoingAckTimeout, replayRequested, ownerVars,
                     eventVars, closingVars, incomingAckId, paused, open>>

\* Mutant: a message seen before is delivered again.
ReceiveDuplicateDelivers(p) ==
    LET m == Incoming(p) IN
      /\ Arriving(p, "Regular")
      /\ m.id <= incomingMsgId[p]
      /\ AcceptAck(p, m.ack)
      /\ rcvd' = [rcvd EXCEPT ![p] = Append(@, m.data)]
      /\ ReadAndWrite(p, << >>)
      /\ UNCHANGED <<outgoingMsgId, sent, incomingMsgId, replayRequested, timerVars,
                     ownerVars, eventVars, closingVars, incomingAckId, paused, open>>

\* A message seen before is only good for its acknowledgement.
ReceiveDuplicate(p) ==
    LET m == Incoming(p) IN
      /\ Arriving(p, "Regular")
      /\ m.id <= incomingMsgId[p]
      /\ AcceptAck(p, m.ack)
      /\ ReadAndWrite(p, << >>)
      /\ UNCHANGED <<outgoingMsgId, sent, incomingVars, timerVars, ownerVars, eventVars,
                     closingVars, incomingAckId, paused, open>>

\* A gap: the message is dropped and the peer asked to write all again.
ReceiveBeyondGap(p) ==
    LET m == Incoming(p) IN
      /\ Arriving(p, "Regular")
      /\ m.id > incomingMsgId[p] + 1
      /\ AcceptAck(p, m.ack)
      /\ replayRequested' = [replayRequested EXCEPT ![p] = TRUE]
      /\ ReadAndWrite(p, IF replayRequested[p] THEN << >> ELSE <<Signal("ReplayRequest", 0)>>)
      /\ UNCHANGED <<outgoingMsgId, sent, incomingMsgId, rcvd, timerVars, ownerVars,
                     eventVars, closingVars, incomingAckId, paused, open>>

\* Ack and KeepAlive carry an acknowledgement, Control an event for the owner.
ReceiveSignal(p) ==
    /\ \E type \in {"Ack", "KeepAlive", "Control"} : Arriving(p, type)
    /\ AcceptAck(p, Incoming(p).ack)
    /\ ReadAndWrite(p, << >>)
    /\ UNCHANGED <<outgoingMsgId, sent, incomingVars, timerVars, ownerVars, eventVars,
                   closingVars, incomingAckId, paused, open>>

ReceiveDisconnect(p) ==
    /\ Arriving(p, "Disconnect")
    /\ didDispose' = [didDispose EXCEPT ![p] = TRUE]
    /\ ReadAndWrite(p, << >>)
    /\ UNCHANGED <<outgoingVars, incomingVars, timerVars, ownerVars, socketEvent,
                   closingVars, incomingAckId, paused, open>>

\* Written again even while reconnecting.
ReceiveReplayRequest(p) ==
    /\ Arriving(p, "ReplayRequest")
    /\ ReadAndWrite(p, Replay(p))
    /\ RecvAckCheck(p, outgoingMsgId[p], outgoingAckId[p], isReconnecting[p])
    /\ UNCHANGED <<outgoingVars, incomingVars, incomingAckTimeout, ownerVars, didDispose,
                   closingVars, incomingAckId, paused, open>>

ReceivePause(p) ==
    /\ Arriving(p, "Pause")
    /\ paused' = [paused EXCEPT ![p] = TRUE]
    /\ ReadAndWrite(p, << >>)
    /\ UNCHANGED <<outgoingVars, incomingVars, timerVars, ownerVars, eventVars,
                   closingVars, incomingAckId, open>>

\* What the writer kept goes out in the order it was written.
ReceiveResume(p) ==
    LET k == socket[p] IN
      /\ Arriving(p, "Resume")
      /\ paused' = [paused EXCEPT ![p] = FALSE]
      /\ wire' = [wire EXCEPT ![k] = [q \in End |->
                    IF q = p THEN Tail(@[p])
                             ELSE @[q] \o IF open[k] THEN held[p] ELSE << >>]]
      /\ held' = [held EXCEPT ![p] = << >>]
      /\ UNCHANGED <<outgoingVars, incomingVars, timerVars, ownerVars, eventVars,
                     closingVars, incomingAckId, open>>

Receive(p) == \/ ReceiveInOrder(p) \/ ReceiveDuplicate(p) \/ ReceiveBeyondGap(p)
              \/ ReceiveSignal(p) \/ ReceiveDisconnect(p) \/ ReceiveReplayRequest(p)
              \/ ReceivePause(p) \/ ReceiveResume(p)

-----------------------------------------------------------------------------
(* Reconnection.                                                            *)

\* The client opens the next socket after an event or a failed attempt; the
\* server is handed a socket of the client that it was never attached to.
MayMoveTo(p, k) ==
    /\ ~disposed[p]
    /\ k \in Socket
    /\ IF p = "client"
       THEN k = socket[p] + 1 /\ (socketEvent[p] # {} \/ isReconnecting[p])
       ELSE k <= socket["client"] /\ k \notin used[p]

BeginAcceptReconnection(p, k) ==
    /\ MayMoveTo(p, k)
    /\ isReconnecting' = [isReconnecting EXCEPT ![p] = TRUE]
    /\ open' = [open EXCEPT ![socket[p]] = FALSE]
    /\ socket' = [socket EXCEPT ![p] = k]
    /\ used' = [used EXCEPT ![p] = @ \cup {k}]
    /\ socketEvent' = [socketEvent EXCEPT ![p] = {}]
    /\ replayRequested' = [replayRequested EXCEPT ![p] = FALSE]
    /\ paused' = [paused EXCEPT ![p] = FALSE]
    /\ held' = [held EXCEPT ![p] = << >>]
    /\ wire' = [wire EXCEPT ![socket[p]][p] = << >>]
    /\ UNCHANGED <<outgoingVars, incomingMsgId, rcvd, timerVars, disposed, didDispose,
                   closingVars, incomingAckId>>

\* Mutant: the reconnected end does not look at what it has outstanding.
EndWithoutCheck(p) ==
    /\ isReconnecting[p]
    /\ ~disposed[p]
    /\ isReconnecting' = [isReconnecting EXCEPT ![p] = FALSE]
    /\ incomingAckId' = [incomingAckId EXCEPT ![p] = incomingMsgId[p]]
    /\ Write(p, <<Signal("Ack", incomingMsgId[p])>> \o Replay(p))
    /\ UNCHANGED <<outgoingVars, incomingVars, timerVars, disposed, socket, used,
                   eventVars, closingVars, paused, open>>

\* Acknowledge again, then write every unacknowledged message again.
EndAcceptReconnection(p) ==
    /\ isReconnecting[p]
    /\ ~disposed[p]
    /\ isReconnecting' = [isReconnecting EXCEPT ![p] = FALSE]
    /\ incomingAckId' = [incomingAckId EXCEPT ![p] = incomingMsgId[p]]
    /\ Write(p, <<Signal("Ack", incomingMsgId[p])>> \o Replay(p))
    /\ RecvAckCheck(p, outgoingMsgId[p], outgoingAckId[p], FALSE)
    /\ UNCHANGED <<outgoingVars, incomingVars, incomingAckTimeout, disposed, socket, used,
                   didDispose, closingVars, paused, open>>

-----------------------------------------------------------------------------
(* Sockets.  The last socket does not break: a model bound, used only by    *)
(* the liveness runs.                                                       *)

Break(k) ==
    /\ open[k]
    /\ k < MaxSocket
    /\ open' = [open EXCEPT ![k] = FALSE]
    /\ UNCHANGED <<outgoingVars, incomingVars, timerVars, ownerVars, eventVars,
                   writerVars, closingVars, incomingAckId, paused>>

\* A closed socket loses the tail of what is in flight.
LoseTail(k, p) ==
    /\ ~open[k]
    /\ \E n \in 1 .. Len(wire[k][p]) :
          wire' = [wire EXCEPT ![k][p] = SubSeq(@, 1, n - 1)]
    /\ UNCHANGED <<outgoingVars, incomingVars, timerVars, ownerVars, eventVars,
                   held, closingVars, incomingAckId, paused, open>>

\* A lossy socket drops a message and delivers those behind it.
LoseMessage(k, p) ==
    /\ Lossy
    /\ wire[k][p] # << >>
    /\ wire' = [wire EXCEPT ![k][p] = Tail(@)]
    /\ UNCHANGED <<outgoingVars, incomingVars, timerVars, ownerVars, eventVars,
                   held, closingVars, incomingAckId, paused, open>>

\* onSocketClose: the reader of a closed socket was told.
SocketCloses(p) ==
    /\ ~open[socket[p]]
    /\ ~disposed[p]
    /\ socketEvent' = [socketEvent EXCEPT ![p] = @ \cup {"close"}]
    /\ UNCHANGED <<outgoingVars, incomingVars, timerVars, ownerVars, didDispose,
                   writerVars, closingVars, incomingAckId, paused, open>>

-----------------------------------------------------------------------------
Owner(p) == \/ \E d \in Payload : Send(p, d)
            \/ \E type \in MessageType : SendSignal(p, type)
            \/ PauseSocketWriting(p)
            \/ SendDisconnect(p)
            \/ Dispose(p)

Timer(p) == \/ AckTimerFires(p)
            \/ RecvAckTimerFires(p)
            \/ SendKeepAlive(p)
            \/ ReplayWindowElapses(p)

Reconnection(p) == \/ \E k \in Socket : BeginAcceptReconnection(p, k)
                   \/ EndAcceptReconnection(p)

Network == \/ \E k \in Socket : Break(k)
           \/ \E k \in Socket, p \in End : LoseTail(k, p) \/ LoseMessage(k, p)
           \/ \E p \in End : SocketCloses(p)

Next == \/ \E p \in End : Owner(p) \/ Timer(p) \/ Receive(p) \/ Reconnection(p)
        \/ Network

Spec == Init /\ [][Next]_vars

-----------------------------------------------------------------------------
(* Properties.                                                              *)

TypeOK ==
    /\ isReconnecting \in [End -> BOOLEAN]
    /\ outgoingMsgId \in [End -> Nat]
    /\ outgoingAckId \in [End -> Nat]
    /\ outgoingUnackMsg \in [End -> Seq(Message)]
    /\ outgoingAckTimeout \in [End -> BOOLEAN]
    /\ incomingMsgId \in [End -> Nat]
    /\ incomingAckId \in [End -> Nat]
    /\ incomingAckTimeout \in [End -> BOOLEAN]
    /\ replayRequested \in [End -> BOOLEAN]
    /\ didSendDisconnect \in [End -> BOOLEAN]
    /\ disposed \in [End -> BOOLEAN]
    /\ socket \in [End -> Socket]
    /\ used \in [End -> SUBSET Socket]
    /\ socketEvent \in [End -> SUBSET {"close", "timeout"}]
    /\ didDispose \in [End -> BOOLEAN]
    /\ paused \in [End -> BOOLEAN]
    /\ held \in [End -> Seq(Message)]
    /\ open \in [Socket -> BOOLEAN]
    /\ wire \in [Socket -> [End -> Seq(Message)]]
    /\ sent \in [End -> Seq(Payload)]
    /\ rcvd \in [End -> Seq(Payload)]
    /\ farewell \in [End -> Nat]

\* The queue holds exactly the messages after the last acknowledged one, in
\* order: peek()! in _recvAckCheck finds a message whenever the counters say
\* that one is outstanding, and a replay repeats neither more nor less.
QueueMatchesCounters ==
    \A p \in End :
       /\ outgoingAckId[p] + Len(outgoingUnackMsg[p]) = outgoingMsgId[p]
       /\ \A i \in 1 .. Len(outgoingUnackMsg[p]) :
             /\ outgoingUnackMsg[p][i].id = outgoingAckId[p] + i
             /\ outgoingUnackMsg[p][i].data = sent[p][outgoingAckId[p] + i]

\* A message leaves the queue of its sender only after its delivery, and what
\* is delivered was sent: no acknowledgement, however old, lost or repeated,
\* runs ahead of the receiver.
AckedWasDelivered ==
    \A p \in End : /\ outgoingAckId[p] <= incomingMsgId[Other(p)]
                   /\ incomingMsgId[Other(p)] <= outgoingMsgId[p]
                   /\ incomingAckId[p] <= incomingMsgId[p]

\* On sockets that only ever lose a tail, no reader sees a gap in the ids: the
\* replay of endAcceptReconnection closes every gap before it can be seen.
NoGap ==
    \A p \in End :
       LET w == wire[socket[p]][p] IN
         (~disposed[p] /\ w # << >> /\ w[1].type = "Regular")
            => w[1].id <= incomingMsgId[p] + 1

\* An outstanding message is always watched: a timer will look at it again, or
\* the owner was told of a timeout on this socket, or a reconnection is running
\* (whose end looks again).
OutstandingIsWatched ==
    \A p \in End :
       (outgoingMsgId[p] > outgoingAckId[p] /\ ~isReconnecting[p] /\ ~disposed[p])
          => outgoingAckTimeout[p] \/ "timeout" \in socketEvent[p]

\* A delivered message that was not acknowledged has the acknowledgement timer
\* set, across reconnections too.
DeliveredWillBeAcked ==
    \A p \in End :
       (incomingMsgId[p] > incomingAckId[p] /\ ~disposed[p]) => incomingAckTimeout[p]

\* A Disconnect never overtakes data: who hears that the peer disconnected has
\* been delivered all that the peer had sent, unless it was still reconnecting.
DisconnectComesLast ==
    \A p \in End : didDispose[p] => incomingMsgId[p] >= farewell[Other(p)]

\* The connection is the channel of ReliableChannel: every message once, in
\* order, across any number of sockets.
Channel == INSTANCE ReliableChannel WITH
    Payload <- Payload, sent <- sent, rcvd <- rcvd
ImplementsChannel == Channel!Spec

-----------------------------------------------------------------------------
(* Liveness: readers read, and timers fire.  Nothing is assumed of the      *)
(* network: the promise is for a connection that stays up.                  *)

Fairness == \A p \in End : WF_vars(Receive(p)) /\ WF_vars(AckTimerFires(p))

LiveSpec == Spec /\ Fairness

Connected ==
    /\ socket["client"] = socket["server"]
    /\ open[socket["client"]]
    /\ \A p \in End : ~isReconnecting[p] /\ ~paused[p] /\ ~disposed[p]

\* On a connection that stays up, all that was sent is delivered and
\* acknowledged, also what was sent before or during a reconnection.
AllAcknowledged ==
    (<>[]Connected) => <>[](\A p \in End : outgoingUnackMsg[p] = << >>)
=============================================================================
