---------------------- MODULE PersistentProtocolProofs ----------------------
(***************************************************************************)
(* Proofs about PersistentProtocol for all payloads, any number of         *)
(* messages and any number of sockets, lossy or not.                       *)
(***************************************************************************)
EXTENDS PersistentProtocol, SequenceTheorems, TLAPS

LEMMA OtherEnd ==
    \A p \in End : /\ Other(p) \in End
                   /\ Other(p) # p
                   /\ Other(Other(p)) = p
                   /\ \A q \in End : q = p \/ q = Other(p)
  BY DEF End, Other

-----------------------------------------------------------------------------
(* Where messages are: M[p] is a set of messages, and every message that    *)
(* the writer of p keeps, or that a wire carries away from p, is in M[p].   *)

Carries(h, w, M) ==
    /\ h \in [End -> Seq(Message)]
    /\ w \in [Socket -> [End -> Seq(Message)]]
    /\ \A q \in End : h[q] \in Seq(M[q])
    /\ \A k \in Socket, q \in End : w[k][q] \in Seq(M[Other(q)])

\* A write puts messages of M[p] nowhere else than on the way from p.
LEMMA WriteCarries ==
    ASSUME NEW M, \A q \in End : M[q] \subseteq Message,
           Carries(held, wire, M), socket \in [End -> Socket],
           NEW p \in End, NEW ms \in Seq(M[p]), Write(p, ms)
    PROVE  Carries(held', wire', M)
  <1>1. Kept(p, ms) \in Seq(M[p]) /\ Written(p, ms) \in Seq(M[p])
    BY EmptySeq DEF Kept, Written
  <1>2. Kept(p, ms) \in Seq(Message) /\ Written(p, ms) \in Seq(Message)
    BY <1>1, SeqMonotonic
  <1>3. /\ held[p] \o Kept(p, ms) \in Seq(M[p])
        /\ held[p] \o Kept(p, ms) \in Seq(Message)
    BY <1>1, <1>2, ConcatProperties DEF Carries
  <1>4. /\ held' \in [End -> Seq(Message)]
        /\ \A q \in End : held'[q] \in Seq(M[q])
    BY <1>3 DEF Carries, Write
  <1> DEFINE k == socket[p]
             r == Other(p)
  <1>5. k \in Socket /\ r \in End /\ Other(r) = p
    BY OtherEnd
  <1>6. /\ wire[k][r] \o Written(p, ms) \in Seq(M[p])
        /\ wire[k][r] \o Written(p, ms) \in Seq(Message)
    <2>1. wire[k][r] \in Seq(M[p]) /\ wire[k][r] \in Seq(Message)
      BY <1>5 DEF Carries
    <2>2. QED
      BY <1>1, <1>2, <2>1, ConcatProperties
  <1>7. wire' = [wire EXCEPT ![k] = [wire[k] EXCEPT ![r] = wire[k][r] \o Written(p, ms)]]
    BY DEF Write
  <1>8. wire' \in [Socket -> [End -> Seq(Message)]]
    BY <1>5, <1>6, <1>7 DEF Carries
  <1>9. \A j \in Socket, q \in End : wire'[j][q] \in Seq(M[Other(q)])
    BY <1>5, <1>6, <1>7 DEF Carries
  <1>10. QED
    BY <1>4, <1>8, <1>9 DEF Carries

\* So does a handler that takes the first message from a wire and writes.
LEMMA ReadAndWriteCarries ==
    ASSUME NEW M, \A q \in End : M[q] \subseteq Message,
           Carries(held, wire, M), socket \in [End -> Socket],
           NEW p \in End, NEW ms \in Seq(M[p]), ReadAndWrite(p, ms),
           wire[socket[p]][p] # << >>
    PROVE  Carries(held', wire', M)
  <1>1. Kept(p, ms) \in Seq(M[p]) /\ Written(p, ms) \in Seq(M[p])
    BY EmptySeq DEF Kept, Written
  <1>2. Kept(p, ms) \in Seq(Message) /\ Written(p, ms) \in Seq(Message)
    BY <1>1, SeqMonotonic
  <1>3. /\ held[p] \o Kept(p, ms) \in Seq(M[p])
        /\ held[p] \o Kept(p, ms) \in Seq(Message)
    BY <1>1, <1>2, ConcatProperties DEF Carries
  <1>4. /\ held' \in [End -> Seq(Message)]
        /\ \A q \in End : held'[q] \in Seq(M[q])
    BY <1>3 DEF Carries, ReadAndWrite
  <1> DEFINE k == socket[p]
             r == Other(p)
  <1>5. k \in Socket /\ r \in End /\ Other(r) = p /\ r # p
    BY OtherEnd
  <1>6. /\ wire[k][r] \o Written(p, ms) \in Seq(M[p])
        /\ wire[k][r] \o Written(p, ms) \in Seq(Message)
    <2>1. wire[k][r] \in Seq(M[p]) /\ wire[k][r] \in Seq(Message)
      BY <1>5 DEF Carries
    <2>2. QED
      BY <1>1, <1>2, <2>1, ConcatProperties
  <1>7. /\ Tail(wire[k][p]) \in Seq(M[r])
        /\ Tail(wire[k][p]) \in Seq(Message)
    <2>1. wire[k][p] \in Seq(M[r]) /\ wire[k][p] \in Seq(Message)
      BY <1>5 DEF Carries
    <2>2. QED
      BY <2>1, HeadTailProperties
  <1> DEFINE row == [q \in End |-> IF q = p THEN Tail(wire[k][p])
                                             ELSE wire[k][q] \o Written(p, ms)]
  <1>8. row \in [End -> Seq(Message)] /\ row[p] = Tail(wire[k][p])
        /\ row[r] = wire[k][r] \o Written(p, ms)
    BY <1>5, <1>6, <1>7, OtherEnd
  <1>9. wire' = [wire EXCEPT ![k] = row]
    BY DEF ReadAndWrite
  <1> HIDE DEF row
  <1>10. wire' \in [Socket -> [End -> Seq(Message)]]
    BY <1>5, <1>8, <1>9 DEF Carries
  <1>11. \A j \in Socket, q \in End : wire'[j][q] \in Seq(M[Other(q)])
    <2> SUFFICES ASSUME NEW j \in Socket, NEW q \in End
                 PROVE  wire'[j][q] \in Seq(M[Other(q)])
      OBVIOUS
    <2>1. CASE j # k
      BY <2>1, <1>9 DEF Carries
    <2>2. CASE j = k /\ q = p
      BY <2>2, <1>5, <1>7, <1>8, <1>9 DEF Carries
    <2>3. CASE j = k /\ q = r
      BY <2>3, <1>5, <1>6, <1>8, <1>9 DEF Carries
    <2>4. QED
      BY <2>1, <2>2, <2>3, OtherEnd
  <1>12. QED
    BY <1>4, <1>10, <1>11 DEF Carries

\* And the handler of Resume, which moves what was kept to the wire.
LEMMA ResumeCarries ==
    ASSUME NEW M, \A q \in End : M[q] \subseteq Message,
           Carries(held, wire, M), socket \in [End -> Socket],
           NEW p \in End, ReceiveResume(p)
    PROVE  Carries(held', wire', M)
  <1> DEFINE k == socket[p]
             r == Other(p)
             tail == IF open[k] THEN held[p] ELSE << >>
             row == [q \in End |-> IF q = p THEN Tail(wire[k][p]) ELSE wire[k][q] \o tail]
  <1>1. k \in Socket /\ r \in End /\ Other(r) = p /\ r # p
    BY OtherEnd
  <1>2. /\ held[p] \in Seq(M[p]) /\ held[p] \in Seq(Message)
        /\ wire[k][r] \in Seq(M[p]) /\ wire[k][r] \in Seq(Message)
        /\ wire[k][p] \in Seq(M[r]) /\ wire[k][p] \in Seq(Message)
    BY <1>1 DEF Carries
  <1>3. tail \in Seq(M[p]) /\ tail \in Seq(Message)
    BY <1>2, EmptySeq
  <1>4. wire[k][r] \o tail \in Seq(M[p]) /\ wire[k][r] \o tail \in Seq(Message)
    BY <1>2, <1>3, ConcatProperties
  <1>5. Tail(wire[k][p]) \in Seq(M[r]) /\ Tail(wire[k][p]) \in Seq(Message)
    <2>1. wire[k][p] # << >>
      BY DEF ReceiveResume, Arriving
    <2>2. QED
      BY <1>2, <2>1, HeadTailProperties
  <1>6. row \in [End -> Seq(Message)] /\ row[p] = Tail(wire[k][p])
        /\ row[r] = wire[k][r] \o tail
    BY <1>1, <1>4, <1>5, OtherEnd
  <1>7. wire' = [wire EXCEPT ![k] = row] /\ held' = [held EXCEPT ![p] = << >>]
    BY DEF ReceiveResume
  <1> HIDE DEF row, tail
  <1>8. wire' \in [Socket -> [End -> Seq(Message)]]
    BY <1>1, <1>6, <1>7 DEF Carries
  <1>9. \A j \in Socket, q \in End : wire'[j][q] \in Seq(M[Other(q)])
    <2> SUFFICES ASSUME NEW j \in Socket, NEW q \in End
                 PROVE  wire'[j][q] \in Seq(M[Other(q)])
      OBVIOUS
    <2>1. CASE j # k
      BY <2>1, <1>7 DEF Carries
    <2>2. CASE j = k /\ q = p
      BY <2>2, <1>1, <1>5, <1>6, <1>7 DEF Carries
    <2>3. CASE j = k /\ q = r
      BY <2>3, <1>1, <1>4, <1>6, <1>7 DEF Carries
    <2>4. QED
      BY <2>1, <2>2, <2>3, OtherEnd
  <1>10. held' \in [End -> Seq(Message)] /\ \A q \in End : held'[q] \in Seq(M[q])
    BY <1>7, EmptySeq DEF Carries
  <1>11. QED
    BY <1>8, <1>9, <1>10 DEF Carries

\* A wire that loses messages still carries what it carried.
LEMMA LossCarries ==
    ASSUME NEW M, \A q \in End : M[q] \subseteq Message,
           Carries(held, wire, M), NEW k \in Socket, NEW p \in End,
           LoseTail(k, p) \/ LoseMessage(k, p)
    PROVE  Carries(held', wire', M)
  <1>1. wire[k][p] \in Seq(M[Other(p)]) /\ wire[k][p] \in Seq(Message)
    BY DEF Carries
  <1>2. \E w \in Seq(M[Other(p)]) : wire' = [wire EXCEPT ![k][p] = w]
    <2>1. CASE LoseTail(k, p)
      <3>1. PICK n \in 1 .. Len(wire[k][p]) :
                    wire' = [wire EXCEPT ![k][p] = SubSeq(wire[k][p], 1, n - 1)]
        BY <2>1 DEF LoseTail
      <3>2. \A i \in 1 .. n - 1 : wire[k][p][i] \in M[Other(p)]
        BY <1>1, ElementOfSeq, LenProperties
      <3>3. 1 \in Int /\ n - 1 \in Int
        BY <1>1, LenProperties
      <3> DEFINE last == n - 1
      <3>4. SubSeq(wire[k][p], 1, last) \in Seq(M[Other(p)])
        <4> HIDE DEF last
        <4>1. QED
          BY <3>2, <3>3, SubSeqProperties DEF last
      <3>5. QED
        BY <3>1, <3>4
    <2>2. CASE LoseMessage(k, p)
      BY <2>2, <1>1, HeadTailProperties DEF LoseMessage
    <2>3. QED
      BY <2>1, <2>2
  <1>3. PICK w \in Seq(M[Other(p)]) : wire' = [wire EXCEPT ![k][p] = w]
    BY <1>2
  <1>4. w \in Seq(Message)
    BY SeqMonotonic, OtherEnd
  <1>5. held' = held
    BY DEF LoseTail, LoseMessage
  <1>6. QED
    BY <1>3, <1>4, <1>5 DEF Carries

-----------------------------------------------------------------------------
(* The inductive invariant.                                                 *)

\* The messages that p may have written: an acknowledgement of what it was
\* delivered, and as Regular messages only what was sent, under its id.
Msgs(p) ==
    {m \in Message :
        /\ m.ack <= incomingMsgId[p]
        /\ m.type = "Regular" => /\ m.id \in 1 .. outgoingMsgId[p]
                                 /\ m.data = sent[p][m.id]}

MsgsOf == [p \in End |-> Msgs(p)]

\* The counters count the messages, and what is delivered is what was sent.
HistoryMatchesCounters ==
    \A p \in End :
       /\ Len(sent[p]) = outgoingMsgId[p]
       /\ Len(rcvd[p]) = incomingMsgId[p]
       /\ \A i \in 1 .. incomingMsgId[p] : rcvd[p][i] = sent[Other(p)][i]

QueueMayBeWritten == \A p \in End : outgoingUnackMsg[p] \in Seq(Msgs(p))

IInv == /\ TypeOK
        /\ Carries(held, wire, MsgsOf)
        /\ QueueMayBeWritten
        /\ QueueMatchesCounters
        /\ HistoryMatchesCounters
        /\ AckedWasDelivered

LEMMA MsgsAreMessages == \A q \in End : MsgsOf[q] = Msgs(q) /\ MsgsOf[q] \subseteq Message
  BY DEF MsgsOf, Msgs

LEMMA SignalIsMessage ==
    ASSUME NEW type \in MessageType \ {"Regular"}, NEW p \in End, TypeOK,
           NEW ack \in Nat, ack <= incomingMsgId[p]
    PROVE  Signal(type, ack) \in Msgs(p)
  BY DEF Signal, Msgs, Message, MessageType

\* The queue holds consecutive ids, so popping up to an acknowledged one leaves
\* those behind it.
LEMMA DropAckedIsSuffix ==
    ASSUME NEW S, NEW queue \in Seq(S), NEW a \in Nat,
           \A i \in 1 .. Len(queue) : queue[i].id = a + i,
           NEW n \in 0 .. Len(queue)
    PROVE  DropAcked(queue, a + n) = SubSeq(queue, n + 1, Len(queue))
  <1> DEFINE Popped(j) == /\ \A i \in 1 .. j : queue[i].id <= a + n
                          /\ j < Len(queue) => queue[j + 1].id > a + n
             j0 == CHOOSE j \in 0 .. Len(queue) : Popped(j)
  <1>1. Len(queue) \in Nat
    BY LenProperties
  <1>2. Popped(n)
    <2>1. \A i \in 1 .. n : queue[i].id = a + i /\ a + i <= a + n
      BY <1>1
    <2>2. n < Len(queue) => queue[n + 1].id = a + (n + 1) /\ a + (n + 1) > a + n
      BY <1>1
    <2>3. QED
      BY <2>1, <2>2
  <1>3. \A j \in 0 .. Len(queue) : Popped(j) => j = n
    <2> SUFFICES ASSUME NEW j \in 0 .. Len(queue), Popped(j), j # n
                 PROVE  FALSE
      OBVIOUS
    <2>1. CASE j < n
      <3>1. j + 1 \in 1 .. Len(queue) /\ queue[j + 1].id = a + (j + 1)
        BY <1>1, <2>1
      <3>2. QED
        BY <1>1, <2>1, <3>1
    <2>2. CASE j > n
      <3>1. n + 1 \in 1 .. j /\ queue[n + 1].id = a + (n + 1)
        BY <1>1, <2>2
      <3>2. QED
        BY <1>1, <2>2, <3>1
    <2>3. QED
      BY <1>1, <2>1, <2>2
  <1> HIDE DEF Popped
  <1>4. j0 = n
    BY <1>2, <1>3
  <1>5. DropAcked(queue, a + n) = SubSeq(queue, j0 + 1, Len(queue))
    BY DEF DropAcked, Popped
  <1>6. QED
    BY <1>4, <1>5

\* Taking an acknowledgement keeps the queue and its counter in step.
LEMMA AcceptAckKeepsQueue ==
    ASSUME IInv, NEW p \in End, NEW ack \in Nat, ack <= incomingMsgId[Other(p)],
           AcceptAck(p, ack)
    PROVE  /\ outgoingAckId' \in [End -> Nat]
           /\ outgoingUnackMsg' \in [End -> Seq(Message)]
           /\ \A q \in End : /\ outgoingUnackMsg'[q] \in Seq(Msgs(q))
                             /\ outgoingAckId'[q] <= incomingMsgId[Other(q)]
                             /\ outgoingAckId'[q] + Len(outgoingUnackMsg'[q]) = outgoingMsgId[q]
                             /\ \A i \in 1 .. Len(outgoingUnackMsg'[q]) :
                                   /\ outgoingUnackMsg'[q][i].id = outgoingAckId'[q] + i
                                   /\ outgoingUnackMsg'[q][i].data = sent[q][outgoingAckId'[q] + i]
  <1>1. CASE ack <= outgoingAckId[p]
    <2>1. UNCHANGED <<outgoingAckId, outgoingUnackMsg>>
      <3>1. ~(ack > outgoingAckId[p])
        <4>1. outgoingAckId[p] \in Nat
          BY DEF IInv, TypeOK
        <4>2. QED
          BY <1>1, <4>1
      <3>2. QED
        BY <3>1 DEF AcceptAck
    <2>2. /\ outgoingAckId \in [End -> Nat]
          /\ outgoingUnackMsg \in [End -> Seq(Message)]
      BY DEF IInv, TypeOK
    <2>3. QED
      BY <2>1, <2>2 DEF IInv, QueueMayBeWritten, QueueMatchesCounters, AckedWasDelivered
  <1>2. CASE ack > outgoingAckId[p]
    <2> DEFINE queue == outgoingUnackMsg[p]
               a == outgoingAckId[p]
               n == ack - a
               rest == SubSeq(queue, n + 1, Len(queue))
    <2>1. /\ outgoingAckId' = [outgoingAckId EXCEPT ![p] = ack]
          /\ outgoingUnackMsg' = [outgoingUnackMsg EXCEPT ![p] = DropAcked(queue, ack)]
      BY <1>2 DEF AcceptAck, IInv, TypeOK
    <2>2. /\ a \in Nat /\ n \in Nat /\ a + n = ack
          /\ queue \in Seq(Msgs(p)) /\ queue \in Seq(Message)
          /\ Len(queue) \in Nat /\ a + Len(queue) = outgoingMsgId[p]
      <3>1. a \in Nat /\ n \in Nat /\ a + n = ack
        <4>1. outgoingAckId[p] \in Nat
          BY DEF IInv, TypeOK
        <4>2. QED
          BY <1>2, <4>1
      <3>2. queue \in Seq(Msgs(p)) /\ queue \in Seq(Message)
        BY DEF IInv, TypeOK, QueueMayBeWritten
      <3>3. Len(queue) \in Nat
        BY <3>2, LenProperties
      <3>4. a + Len(queue) = outgoingMsgId[p]
        BY DEF IInv, QueueMatchesCounters
      <3>5. QED
        BY <3>1, <3>2, <3>3, <3>4
    <2>3. n \in 0 .. Len(queue)
      <3>1. ack <= outgoingMsgId[p]
        <4>1. Other(p) \in End /\ Other(Other(p)) = p
          BY OtherEnd
        <4>2. incomingMsgId[Other(p)] <= outgoingMsgId[p]
          BY DEF IInv, AckedWasDelivered
        <4>3. incomingMsgId[Other(p)] \in Nat /\ outgoingMsgId[p] \in Nat
          BY <4>1 DEF IInv, TypeOK
        <4>4. QED
          BY <4>2, <4>3
      <3> HIDE DEF n, a, queue
      <3>2. QED
        BY <2>2, <3>1
    <2>4. DropAcked(queue, ack) = rest
      <3>1. \A i \in 1 .. Len(queue) : queue[i].id = a + i
        BY DEF IInv, QueueMatchesCounters
      <3> HIDE DEF queue, n, a, rest
      <3>2. DropAcked(queue, a + n) = SubSeq(queue, n + 1, Len(queue))
        BY <2>2, <2>3, <3>1, DropAckedIsSuffix
      <3>3. QED
        BY <2>2, <3>2 DEF rest
    <2>5. /\ rest \in Seq(Msgs(p))
          /\ rest \in Seq(Message)
          /\ Len(rest) = Len(queue) - n
          /\ \A i \in 1 .. Len(rest) : rest[i] = queue[i + n]
      <3>1. \A i \in n + 1 .. Len(queue) : queue[i] \in Msgs(p)
        <4>1. \A i \in n + 1 .. Len(queue) : i \in 1 .. Len(queue)
          BY <2>2, <2>3
        <4>2. queue \in Seq(Msgs(p))
          BY <2>2
        <4>3. QED
          BY <4>1, <4>2, ElementOfSeq
      <3>2. Msgs(p) \subseteq Message
        BY DEF Msgs
      <3> DEFINE first == n + 1
                 last == Len(queue)
      <3>3. first \in Int /\ last \in Int
        BY <2>2
      <3>4. /\ SubSeq(queue, first, last) \in Seq(Msgs(p))
            /\ Len(SubSeq(queue, first, last)) = IF first <= last THEN last - first + 1 ELSE 0
            /\ \A i \in 1 .. last - first + 1 :
                  SubSeq(queue, first, last)[i] = queue[first + i - 1]
        <4> HIDE DEF first, last, queue
        <4>1. \A i \in first .. last : queue[i] \in Msgs(p)
          BY <3>1 DEF first, last
        <4>2. QED
          BY <3>3, <4>1, SubSeqProperties
      <3>5. Len(rest) = Len(queue) - n
        BY <2>2, <2>3, <3>4
      <3>6. \A i \in 1 .. Len(rest) : rest[i] = queue[i + n]
        <4> SUFFICES ASSUME NEW i \in 1 .. Len(rest)
                     PROVE  rest[i] = queue[i + n]
          OBVIOUS
        <4>1. i \in 1 .. last - first + 1 /\ first + i - 1 = i + n
          <5> HIDE DEF queue, n, rest
          <5>1. QED
            BY <2>2, <2>3, <3>5 DEF first, last
        <4>2. SubSeq(queue, first, last)[i] = queue[first + i - 1]
          BY <3>4, <4>1
        <4>3. QED
          BY <4>1, <4>2
      <3>7. QED
        BY <3>2, <3>4, <3>5, <3>6, SeqMonotonic
    <2>6. \A i \in 1 .. Len(rest) : /\ rest[i].id = ack + i
                                    /\ rest[i].data = sent[p][ack + i]
      <3> SUFFICES ASSUME NEW i \in 1 .. Len(rest)
                   PROVE  rest[i].id = ack + i /\ rest[i].data = sent[p][ack + i]
        OBVIOUS
      <3>1. i + n \in 1 .. Len(queue) /\ a + (i + n) = ack + i
        <4>1. Len(rest) = Len(queue) - n
          BY <2>5
        <4>2. /\ a \in Nat /\ n \in Nat /\ a + n = ack /\ Len(queue) \in Nat
              /\ n <= Len(queue)
          BY <2>2, <2>3
        <4> HIDE DEF queue, n, a, rest
        <4>3. i \in Nat /\ 1 <= i /\ i <= Len(queue) - n
          BY <4>1, <4>2
        <4>4. QED
          BY <4>2, <4>3
      <3>2. queue[i + n].id = a + (i + n) /\ queue[i + n].data = sent[p][a + (i + n)]
        BY <3>1 DEF IInv, QueueMatchesCounters
      <3>3. QED
        BY <2>5, <3>1, <3>2
    <2> HIDE DEF queue, a, n, rest
    <2>7. /\ outgoingAckId'[p] = ack /\ outgoingUnackMsg'[p] = rest
          /\ ack + Len(rest) = outgoingMsgId[p]
      <3>1. ack + Len(rest) = outgoingMsgId[p]
        <4>1. Len(rest) = Len(queue) - n
          BY <2>5
        <4>2. QED
          BY <2>2, <4>1
      <3>2. QED
        BY <2>1, <2>4, <3>1 DEF IInv, TypeOK
    <2>8. \A q \in End \ {p} : /\ outgoingAckId'[q] = outgoingAckId[q]
                               /\ outgoingUnackMsg'[q] = outgoingUnackMsg[q]
      BY <2>1 DEF IInv, TypeOK
    <2>9. /\ outgoingAckId' \in [End -> Nat]
          /\ outgoingUnackMsg' \in [End -> Seq(Message)]
      BY <2>1, <2>4, <2>5 DEF IInv, TypeOK
    <2> DEFINE InStep(q) ==
          /\ outgoingUnackMsg'[q] \in Seq(Msgs(q))
          /\ outgoingAckId'[q] <= incomingMsgId[Other(q)]
          /\ outgoingAckId'[q] + Len(outgoingUnackMsg'[q]) = outgoingMsgId[q]
          /\ \A i \in 1 .. Len(outgoingUnackMsg'[q]) :
                /\ outgoingUnackMsg'[q][i].id = outgoingAckId'[q] + i
                /\ outgoingUnackMsg'[q][i].data = sent[q][outgoingAckId'[q] + i]
    <2>10. InStep(p)
      BY <2>5, <2>6, <2>7
    <2>11. \A q \in End \ {p} : InStep(q)
      BY <2>8 DEF IInv, QueueMayBeWritten, QueueMatchesCounters, AckedWasDelivered
    <2>12. \A q \in End : InStep(q)
      BY <2>10, <2>11
    <2>13. QED
      BY <2>9, <2>12
  <1>3. ack <= outgoingAckId[p] \/ ack > outgoingAckId[p]
    <2>1. outgoingAckId[p] \in Nat
      BY DEF IInv, TypeOK
    <2>2. QED
      BY <2>1
  <1>4. QED
    BY <1>1, <1>2, <1>3

\* What arrives was written by the other end.
LEMMA IncomingIsKnown ==
    ASSUME IInv, NEW p \in End, NEW type \in MessageType, Arriving(p, type)
    PROVE  /\ Incoming(p) \in Msgs(Other(p))
           /\ Incoming(p) \in Message
           /\ Incoming(p).ack \in Nat
           /\ Incoming(p).ack <= incomingMsgId[Other(p)]
  <1>1. wire[socket[p]][p] \in Seq(Msgs(Other(p))) /\ wire[socket[p]][p] # << >>
    BY OtherEnd, MsgsAreMessages DEF IInv, TypeOK, Carries, Arriving
  <1>2. Incoming(p) \in Msgs(Other(p))
    BY <1>1, HeadTailProperties DEF Incoming
  <1>3. QED
    BY <1>2 DEF Msgs, Message

\* A step that moves no counter keeps the invariant if its messages may be
\* written; the same holds when it takes an acknowledgement.
LEMMA CountersStand ==
    ASSUME IInv, TypeOK', Carries(held', wire', MsgsOf),
           UNCHANGED <<outgoingMsgId, sent, incomingMsgId, rcvd>>,
           \A q \in End : incomingAckId'[q] <= incomingMsgId[q],
           \/ UNCHANGED <<outgoingAckId, outgoingUnackMsg>>
           \/ \E p \in End, ack \in Nat : /\ ack <= incomingMsgId[Other(p)]
                                          /\ AcceptAck(p, ack)
    PROVE  IInv'
  <1>1. MsgsOf' = MsgsOf /\ \A q \in End : Msgs(q)' = Msgs(q)
    BY DEF MsgsOf, Msgs
  <1>2. Carries(held, wire, MsgsOf)'
    BY <1>1 DEF Carries
  <1>3. HistoryMatchesCounters'
    BY DEF IInv, HistoryMatchesCounters
  <1>4. QueueMayBeWritten' /\ QueueMatchesCounters' /\ AckedWasDelivered'
    <2>1. CASE UNCHANGED <<outgoingAckId, outgoingUnackMsg>>
      BY <2>1, <1>1
         DEF IInv, QueueMayBeWritten, QueueMatchesCounters, AckedWasDelivered
    <2>2. ASSUME NEW p \in End, NEW ack \in Nat, ack <= incomingMsgId[Other(p)],
                 AcceptAck(p, ack)
          PROVE  QueueMayBeWritten' /\ QueueMatchesCounters' /\ AckedWasDelivered'
      <3>1. \A q \in End :
               /\ outgoingUnackMsg'[q] \in Seq(Msgs(q))
               /\ outgoingAckId'[q] <= incomingMsgId[Other(q)]
               /\ outgoingAckId'[q] + Len(outgoingUnackMsg'[q]) = outgoingMsgId[q]
               /\ \A i \in 1 .. Len(outgoingUnackMsg'[q]) :
                     /\ outgoingUnackMsg'[q][i].id = outgoingAckId'[q] + i
                     /\ outgoingUnackMsg'[q][i].data = sent[q][outgoingAckId'[q] + i]
        BY <2>2, AcceptAckKeepsQueue
      <3>2. \A q \in End : incomingMsgId[Other(q)] <= outgoingMsgId[q]
        BY DEF IInv, AckedWasDelivered
      <3>3. QED
        BY <1>1, <3>1, <3>2 DEF QueueMayBeWritten, QueueMatchesCounters, AckedWasDelivered
    <2>3. QED
      BY <2>1, <2>2
  <1>5. QED
    BY <1>2, <1>3, <1>4 DEF IInv

-----------------------------------------------------------------------------
(* The initial state and each step.                                         *)

LEMMA InitIInv == Init => IInv
  <1> SUFFICES ASSUME Init PROVE IInv
    OBVIOUS
  <1>1. << >> \in Seq(Message) /\ << >> \in Seq(Payload) /\ Len(<< >>) = 0
        /\ \A q \in End : << >> \in Seq(Msgs(q))
    BY EmptySeq
  <1>2. 1 \in Socket
    BY BoundsAssumption DEF Socket
  <1>3. TypeOK
    BY <1>1, <1>2 DEF Init, TypeOK
  <1>4. Carries(held, wire, MsgsOf)
    BY <1>1, OtherEnd, MsgsAreMessages DEF Init, Carries
  <1>5. QueueMayBeWritten
    BY <1>1 DEF Init, QueueMayBeWritten
  <1>6. QueueMatchesCounters /\ HistoryMatchesCounters /\ AckedWasDelivered
    BY <1>1, OtherEnd
       DEF Init, QueueMatchesCounters, HistoryMatchesCounters, AckedWasDelivered
  <1>7. QED
    BY <1>3, <1>4, <1>5, <1>6 DEF IInv

\* A write of messages of Msgs(p), by an end that moves no counter.
LEMMA WriteStep ==
    ASSUME IInv, NEW p \in End, NEW ms \in Seq(Msgs(p)), Write(p, ms)
    PROVE  Carries(held', wire', MsgsOf)
  BY WriteCarries, MsgsAreMessages DEF IInv, TypeOK

LEMMA ReadAndWriteStep ==
    ASSUME IInv, NEW p \in End, NEW type \in MessageType, Arriving(p, type),
           NEW ms \in Seq(Msgs(p)), ReadAndWrite(p, ms)
    PROVE  Carries(held', wire', MsgsOf)
  BY ReadAndWriteCarries, MsgsAreMessages DEF IInv, TypeOK, Arriving

LEMMA RecvAckCheckType ==
    ASSUME TypeOK, NEW p \in End, NEW msgId, NEW ackId, NEW reconnecting,
           RecvAckCheck(p, msgId, ackId, reconnecting)
    PROVE  /\ outgoingAckTimeout' \in [End -> BOOLEAN]
           /\ socketEvent' \in [End -> SUBSET {"close", "timeout"}]
  <1>1. /\ outgoingAckTimeout \in [End -> BOOLEAN]
        /\ socketEvent \in [End -> SUBSET {"close", "timeout"}]
    BY DEF TypeOK
  <1>2. \/ UNCHANGED <<outgoingAckTimeout, socketEvent>>
        \/ /\ socketEvent' = [socketEvent EXCEPT ![p] = socketEvent[p] \cup {"timeout"}]
           /\ UNCHANGED outgoingAckTimeout
        \/ /\ outgoingAckTimeout' = [outgoingAckTimeout EXCEPT ![p] = TRUE]
           /\ UNCHANGED socketEvent
    BY Zenon DEF RecvAckCheck
  <1>3. socketEvent[p] \cup {"timeout"} \in SUBSET {"close", "timeout"}
    BY <1>1
  <1>4. QED
    BY <1>1, <1>2, <1>3

\* The steps that only write.
LEMMA SignalSteps ==
    ASSUME IInv, NEW p \in End, NEW type \in MessageType,
           \/ SendSignal(p, type) \/ SendDisconnect(p) \/ AckTimerFires(p)
           \/ SendKeepAlive(p)
    PROVE  IInv'
  <1> USE DEF outgoingVars, incomingVars, timerVars, ownerVars, eventVars, writerVars,
              closingVars
  <1>1. incomingMsgId[p] \in Nat /\ 0 \in Nat /\ 0 <= incomingMsgId[p]
    BY DEF IInv, TypeOK
  <1>2. ASSUME NEW t \in MessageType \ {"Regular"}, NEW ack \in {0, incomingMsgId[p]}
        PROVE  <<Signal(t, ack)>> \in Seq(Msgs(p))
    <2>1. Signal(t, ack) \in Msgs(p)
      BY <1>1, SignalIsMessage DEF IInv
    <2>2. QED
      BY <2>1
  <1>3. CASE SendSignal(p, type)
    <2>1. Carries(held', wire', MsgsOf)
      BY <1>3, <1>2, WriteStep DEF SendSignal, MessageType
    <2>2. TypeOK'
      BY <1>3, <2>1 DEF SendSignal, IInv, TypeOK, Carries
    <2>3. QED
      BY <1>3, <2>1, <2>2, CountersStand DEF SendSignal, IInv, AckedWasDelivered
  <1>4. CASE SendDisconnect(p)
    <2>1. Carries(held', wire', MsgsOf)
      BY <1>4, <1>2, WriteStep DEF SendDisconnect, MessageType
    <2>2. TypeOK'
      BY <1>4, <2>1 DEF SendDisconnect, IInv, TypeOK, Carries
    <2>3. QED
      BY <1>4, <2>1, <2>2, CountersStand DEF SendDisconnect, IInv, AckedWasDelivered
  <1>5. CASE AckTimerFires(p)
    <2>1. Carries(held', wire', MsgsOf)
      <3>1. CASE incomingMsgId[p] <= incomingAckId[p]
        BY <1>5, <3>1 DEF AckTimerFires, IInv, Carries
      <3>2. CASE ~(incomingMsgId[p] <= incomingAckId[p])
        BY <1>5, <3>2, <1>2, WriteStep DEF AckTimerFires, MessageType
      <3>3. QED
        BY <3>1, <3>2
    <2>2. /\ incomingAckId' \in [End -> Nat]
          /\ \A q \in End : incomingAckId'[q] <= incomingMsgId[q]
      <3>1. /\ incomingAckId \in [End -> Nat]
            /\ \A q \in End : incomingMsgId[q] \in Nat /\ incomingAckId[q] <= incomingMsgId[q]
        BY DEF IInv, TypeOK, AckedWasDelivered
      <3>2. \/ incomingAckId' = incomingAckId
            \/ incomingAckId' = [incomingAckId EXCEPT ![p] = incomingMsgId[p]]
        BY <1>5 DEF AckTimerFires
      <3>3. QED
        BY <3>1, <3>2
    <2>3. TypeOK'
      BY <1>5, <2>1, <2>2 DEF AckTimerFires, IInv, TypeOK, Carries
    <2>4. QED
      BY <1>5, <2>1, <2>2, <2>3, CountersStand DEF AckTimerFires
  <1>6. CASE SendKeepAlive(p)
    <2>1. Carries(held', wire', MsgsOf)
      BY <1>6, <1>2, WriteStep DEF SendKeepAlive, MessageType
    <2>2. /\ incomingAckId' \in [End -> Nat]
          /\ \A q \in End : incomingAckId'[q] <= incomingMsgId[q]
      BY <1>6 DEF SendKeepAlive, IInv, TypeOK, AckedWasDelivered
    <2>3. TypeOK'
      <3>1. socketEvent' \in [End -> SUBSET {"close", "timeout"}]
        <4>1. socketEvent \in [End -> SUBSET {"close", "timeout"}]
          BY DEF IInv, TypeOK
        <4>2. \/ socketEvent' = socketEvent
              \/ socketEvent' = [socketEvent EXCEPT ![p] = socketEvent[p] \cup {"timeout"}]
          BY <1>6 DEF SendKeepAlive
        <4>3. QED
          BY <4>1, <4>2
      <3>2. UNCHANGED <<outgoingVars, incomingVars, timerVars, ownerVars, didDispose,
                        closingVars, paused, open>>
        BY <1>6 DEF SendKeepAlive
      <3>3. QED
        BY <2>1, <2>2, <3>1, <3>2 DEF IInv, TypeOK, Carries
    <2>4. QED
      BY <1>6, <2>1, <2>2, <2>3, CountersStand DEF SendKeepAlive
  <1>7. QED
    BY <1>3, <1>4, <1>5, <1>6

\* The steps that neither write nor read.
LEMMA LocalSteps ==
    ASSUME IInv, NEW p \in End,
           \/ PauseSocketWriting(p) \/ Dispose(p) \/ RecvAckTimerFires(p)
           \/ ReplayWindowElapses(p) \/ SocketCloses(p)
           \/ \E k \in Socket : Break(k)
    PROVE  IInv'
  <1> USE DEF outgoingVars, incomingVars, timerVars, ownerVars, eventVars, writerVars,
              closingVars
  <1>1. TypeOK'
    <2>1. CASE PauseSocketWriting(p)
      BY <2>1 DEF PauseSocketWriting, IInv, TypeOK
    <2>2. CASE Dispose(p)
      BY <2>2 DEF Dispose, IInv, TypeOK
    <2>3. CASE RecvAckTimerFires(p)
      <3>1. /\ outgoingAckTimeout \in [End -> BOOLEAN]
            /\ socketEvent \in [End -> SUBSET {"close", "timeout"}]
        BY DEF IInv, TypeOK
      <3>2. /\ outgoingAckTimeout' = [outgoingAckTimeout EXCEPT ![p] = FALSE]
            /\ \/ socketEvent' = socketEvent
               \/ socketEvent' = [socketEvent EXCEPT ![p] = socketEvent[p] \cup {"timeout"}]
        BY <2>3 DEF RecvAckTimerFires
      <3>3. /\ outgoingAckTimeout' \in [End -> BOOLEAN]
            /\ socketEvent' \in [End -> SUBSET {"close", "timeout"}]
        BY <3>1, <3>2
      <3>4. QED
        BY <2>3, <3>3 DEF RecvAckTimerFires, IInv, TypeOK
    <2>4. CASE ReplayWindowElapses(p)
      BY <2>4 DEF ReplayWindowElapses, IInv, TypeOK
    <2>5. CASE SocketCloses(p)
      <3>1. /\ socketEvent \in [End -> SUBSET {"close", "timeout"}]
            /\ socketEvent' = [socketEvent EXCEPT ![p] = socketEvent[p] \cup {"close"}]
        BY <2>5 DEF SocketCloses, IInv, TypeOK
      <3>2. socketEvent' \in [End -> SUBSET {"close", "timeout"}]
        BY <3>1
      <3>3. QED
        BY <2>5, <3>2 DEF SocketCloses, IInv, TypeOK
    <2>6. CASE \E k \in Socket : Break(k)
      <3>1. PICK k \in Socket : Break(k)
        BY <2>6
      <3>2. open' \in [Socket -> BOOLEAN]
        BY <3>1 DEF Break, IInv, TypeOK
      <3>3. UNCHANGED <<outgoingVars, incomingVars, timerVars, ownerVars, eventVars,
                        writerVars, closingVars, incomingAckId, paused>>
        BY <3>1 DEF Break
      <3>4. QED
        BY <3>2, <3>3 DEF IInv, TypeOK
    <2>7. QED
      BY <2>1, <2>2, <2>3, <2>4, <2>5, <2>6
  <1>2. UNCHANGED <<held, wire, outgoingVars, incomingMsgId, rcvd, incomingAckId>>
    BY DEF PauseSocketWriting, Dispose, RecvAckTimerFires, ReplayWindowElapses,
           SocketCloses, Break
  <1>3. QED
    BY <1>1, <1>2, CountersStand DEF IInv, Carries, AckedWasDelivered

\* The reads that deliver nothing.
LEMMA ReadSteps ==
    ASSUME IInv, NEW p \in End,
           \/ ReceiveDuplicate(p) \/ ReceiveBeyondGap(p) \/ ReceiveSignal(p)
           \/ ReceiveDisconnect(p) \/ ReceiveReplayRequest(p) \/ ReceivePause(p)
           \/ ReceiveResume(p)
    PROVE  IInv'
  <1> USE DEF outgoingVars, incomingVars, timerVars, ownerVars, eventVars, writerVars,
              closingVars
  <1>1. << >> \in Seq(Msgs(p))
    BY EmptySeq
  <1>2. \A q \in End : incomingAckId[q] <= incomingMsgId[q]
    BY DEF IInv, AckedWasDelivered
  <1>3. CASE ReceiveDuplicate(p)
    <2>1. Carries(held', wire', MsgsOf)
      BY <1>1, <1>3, ReadAndWriteStep DEF ReceiveDuplicate, MessageType
    <2>2. /\ Incoming(p).ack \in Nat /\ Incoming(p).ack <= incomingMsgId[Other(p)]
          /\ AcceptAck(p, Incoming(p).ack)
      BY <1>3, IncomingIsKnown DEF ReceiveDuplicate, MessageType
    <2>3. TypeOK'
      BY <1>3, <2>1, <2>2, AcceptAckKeepsQueue DEF ReceiveDuplicate, IInv, TypeOK, Carries
    <2>4. QED
      BY <1>2, <1>3, <2>1, <2>2, <2>3, CountersStand DEF ReceiveDuplicate
  <1>4. CASE ReceiveBeyondGap(p)
    <2>1. Carries(held', wire', MsgsOf)
      <3>1. <<Signal("ReplayRequest", 0)>> \in Seq(Msgs(p))
        <4>1. 0 \in Nat /\ 0 <= incomingMsgId[p]
          BY DEF IInv, TypeOK
        <4>2. "ReplayRequest" \in MessageType \ {"Regular"} /\ TypeOK
          BY DEF IInv, MessageType
        <4>3. Signal("ReplayRequest", 0) \in Msgs(p)
          BY <4>1, <4>2, SignalIsMessage
        <4>4. QED
          BY <4>3
      <3>2. QED
        BY <1>1, <1>4, <3>1, ReadAndWriteStep DEF ReceiveBeyondGap, MessageType
    <2>2. /\ Incoming(p).ack \in Nat /\ Incoming(p).ack <= incomingMsgId[Other(p)]
          /\ AcceptAck(p, Incoming(p).ack)
      BY <1>4, IncomingIsKnown DEF ReceiveBeyondGap, MessageType
    <2>3. TypeOK'
      BY <1>4, <2>1, <2>2, AcceptAckKeepsQueue DEF ReceiveBeyondGap, IInv, TypeOK, Carries
    <2>4. QED
      BY <1>2, <1>4, <2>1, <2>2, <2>3, CountersStand DEF ReceiveBeyondGap
  <1>5. CASE ReceiveSignal(p)
    <2> PICK type \in {"Ack", "KeepAlive", "Control"} : Arriving(p, type)
      BY <1>5 DEF ReceiveSignal
    <2>1. Carries(held', wire', MsgsOf)
      BY <1>1, <1>5, ReadAndWriteStep DEF ReceiveSignal, MessageType
    <2>2. /\ Incoming(p).ack \in Nat /\ Incoming(p).ack <= incomingMsgId[Other(p)]
          /\ AcceptAck(p, Incoming(p).ack)
      BY <1>5, IncomingIsKnown DEF ReceiveSignal, MessageType
    <2>3. TypeOK'
      BY <1>5, <2>1, <2>2, AcceptAckKeepsQueue DEF ReceiveSignal, IInv, TypeOK, Carries
    <2>4. QED
      BY <1>2, <1>5, <2>1, <2>2, <2>3, CountersStand DEF ReceiveSignal
  <1>6. CASE ReceiveDisconnect(p)
    <2>1. Carries(held', wire', MsgsOf)
      BY <1>1, <1>6, ReadAndWriteStep DEF ReceiveDisconnect, MessageType
    <2>2. TypeOK'
      BY <1>6, <2>1 DEF ReceiveDisconnect, IInv, TypeOK, Carries
    <2>3. QED
      BY <1>2, <1>6, <2>1, <2>2, CountersStand DEF ReceiveDisconnect
  <1>7. CASE ReceiveReplayRequest(p)
    <2>1. Carries(held', wire', MsgsOf)
      BY <1>7, ReadAndWriteStep
         DEF ReceiveReplayRequest, Replay, MessageType, IInv, QueueMayBeWritten
    <2>2. TypeOK'
      BY <1>7, <2>1, RecvAckCheckType DEF ReceiveReplayRequest, IInv, TypeOK, Carries
    <2>3. QED
      BY <1>2, <1>7, <2>1, <2>2, CountersStand DEF ReceiveReplayRequest
  <1>8. CASE ReceivePause(p)
    <2>1. Carries(held', wire', MsgsOf)
      BY <1>1, <1>8, ReadAndWriteStep DEF ReceivePause, MessageType
    <2>2. TypeOK'
      BY <1>8, <2>1 DEF ReceivePause, IInv, TypeOK, Carries
    <2>3. QED
      BY <1>2, <1>8, <2>1, <2>2, CountersStand DEF ReceivePause
  <1>9. CASE ReceiveResume(p)
    <2>1. Carries(held', wire', MsgsOf)
      BY <1>9, ResumeCarries, MsgsAreMessages DEF IInv, TypeOK
    <2>2. TypeOK'
      BY <1>9, <2>1 DEF ReceiveResume, IInv, TypeOK, Carries
    <2>3. QED
      BY <1>2, <1>9, <2>1, <2>2, CountersStand DEF ReceiveResume
  <1>10. QED
    BY <1>3, <1>4, <1>5, <1>6, <1>7, <1>8, <1>9
\* What an end may write only grows.
LEMMA MsgsGrow ==
    ASSUME IInv,
           \A q \in End : /\ incomingMsgId'[q] \in Nat /\ outgoingMsgId'[q] \in Nat
                         /\ incomingMsgId[q] <= incomingMsgId'[q]
                         /\ outgoingMsgId[q] <= outgoingMsgId'[q]
                         /\ \A i \in 1 .. outgoingMsgId[q] : sent'[q][i] = sent[q][i]
    PROVE  /\ \A q \in End : Msgs(q) \subseteq Msgs(q)' /\ Msgs(q)' \subseteq Message
           /\ MsgsOf' = [q \in End |-> Msgs(q)']
  <1>1. ASSUME NEW q \in End, NEW m \in Msgs(q)
        PROVE  m \in Msgs(q)'
    <2>1. /\ m \in Message /\ m.ack <= incomingMsgId[q] /\ m.ack \in Nat /\ m.id \in Nat
          /\ m.type = "Regular" => m.id \in 1 .. outgoingMsgId[q] /\ m.data = sent[q][m.id]
      BY DEF Msgs, Message
    <2>2. incomingMsgId[q] \in Nat /\ outgoingMsgId[q] \in Nat
      BY DEF IInv, TypeOK
    <2>3. m.ack <= incomingMsgId'[q]
      BY <2>1, <2>2
    <2>4. m.type = "Regular" => m.id \in 1 .. outgoingMsgId'[q] /\ m.data = sent'[q][m.id]
      BY <2>1, <2>2
    <2>5. QED
      BY <2>1, <2>3, <2>4 DEF Msgs
  <1>2. QED
    BY <1>1 DEF Msgs, MsgsOf

\* And where messages may be only grows with it.
LEMMA CarriesMore ==
    ASSUME NEW M, NEW N, NEW h, NEW w, Carries(h, w, M),
           \A q \in End : M[q] \subseteq N[q]
    PROVE  Carries(h, w, N)
  <1>1. \A q \in End : h[q] \in Seq(N[q])
    BY SeqMonotonic DEF Carries
  <1>2. \A k \in Socket, q \in End : w[k][q] \in Seq(N[Other(q)])
    BY SeqMonotonic, OtherEnd DEF Carries
  <1>3. QED
    BY <1>1, <1>2 DEF Carries

\* A message of p joins the history and the queue, and goes out unless p is
\* reconnecting.
LEMMA SendStep ==
    ASSUME IInv, NEW p \in End, NEW d \in Payload, Send(p, d)
    PROVE  IInv'
  <1> USE DEF outgoingVars, incomingVars, timerVars, ownerVars, eventVars, writerVars,
              closingVars
  <1> DEFINE myId == outgoingMsgId[p] + 1
             msg == Regular(myId, incomingMsgId[p], d)
             queue == outgoingUnackMsg[p]
  <1>1. /\ outgoingMsgId \in [End -> Nat] /\ incomingMsgId \in [End -> Nat]
        /\ outgoingAckId \in [End -> Nat] /\ incomingAckId \in [End -> Nat]
        /\ sent \in [End -> Seq(Payload)] /\ outgoingUnackMsg \in [End -> Seq(Message)]
    BY DEF IInv, TypeOK
  <1>2. msg \in Message /\ msg.id = myId /\ msg.data = d /\ msg.ack = incomingMsgId[p]
        /\ msg.type = "Regular"
    BY <1>1 DEF Regular, Message, MessageType
  <1>3. /\ outgoingMsgId' = [outgoingMsgId EXCEPT ![p] = myId]
        /\ incomingAckId' = [incomingAckId EXCEPT ![p] = incomingMsgId[p]]
        /\ outgoingUnackMsg' = [outgoingUnackMsg EXCEPT ![p] = Append(queue, msg)]
        /\ sent' = [sent EXCEPT ![p] = Append(sent[p], d)]
        /\ UNCHANGED <<incomingMsgId, rcvd, outgoingAckId>>
    BY DEF Send
  <1>4. /\ Len(sent[p]) = outgoingMsgId[p]
        /\ Append(sent[p], d) \in Seq(Payload)
        /\ Len(Append(sent[p], d)) = myId
        /\ \A i \in 1 .. outgoingMsgId[p] : Append(sent[p], d)[i] = sent[p][i]
        /\ Append(sent[p], d)[myId] = d
    <2>1. Len(sent[p]) = outgoingMsgId[p]
      BY DEF IInv, HistoryMatchesCounters
    <2>2. QED
      BY <2>1, <1>1, AppendProperties
  <1>5. /\ outgoingMsgId' \in [End -> Nat] /\ sent' \in [End -> Seq(Payload)]
        /\ outgoingMsgId'[p] = myId /\ sent'[p] = Append(sent[p], d)
        /\ \A q \in End : /\ outgoingMsgId[q] <= outgoingMsgId'[q]
                          /\ \A i \in 1 .. outgoingMsgId[q] : sent'[q][i] = sent[q][i]
    <2>1. myId \in Nat /\ outgoingMsgId[p] <= myId
      BY <1>1
    <2>2. outgoingMsgId' \in [End -> Nat] /\ sent' \in [End -> Seq(Payload)]
          /\ outgoingMsgId'[p] = myId /\ sent'[p] = Append(sent[p], d)
      BY <1>1, <1>3, <1>4, <2>1
    <2>3. \A q \in End \ {p} : outgoingMsgId'[q] = outgoingMsgId[q] /\ sent'[q] = sent[q]
      BY <1>1, <1>3
    <2>4. \A q \in End \ {p} : outgoingMsgId[q] <= outgoingMsgId'[q]
      BY <1>1, <2>3
    <2>5. QED
      BY <1>4, <2>1, <2>2, <2>3, <2>4
  <1>6. /\ \A q \in End : Msgs(q) \subseteq Msgs(q)' /\ Msgs(q)' \subseteq Message
        /\ MsgsOf' = [q \in End |-> Msgs(q)']
    <2>1. \A q \in End : incomingMsgId'[q] \in Nat /\ incomingMsgId[q] <= incomingMsgId'[q]
      BY <1>1, <1>3
    <2>2. QED
      BY <1>5, <2>1, MsgsGrow
  <1>7. msg \in Msgs(p)'
    <2>1. myId \in 1 .. outgoingMsgId'[p] /\ d = sent'[p][myId]
      BY <1>1, <1>4, <1>5
    <2>2. incomingMsgId'[p] = incomingMsgId[p] /\ incomingMsgId[p] <= incomingMsgId[p]
      BY <1>1, <1>3
    <2> HIDE DEF msg
    <2>3. QED
      BY <1>2, <2>1, <2>2 DEF Msgs
  <1>8. Carries(held, wire, MsgsOf')
    BY <1>6, CarriesMore, MsgsAreMessages DEF IInv
  <1>9. Carries(held, wire, MsgsOf)'
    <2>1. CASE isReconnecting[p]
      BY <1>8, <2>1 DEF Send, Carries
    <2>2. CASE ~isReconnecting[p]
      <3>1. Write(p, <<msg>>)
        BY <2>2 DEF Send
      <3>2. <<msg>> \in Seq(MsgsOf'[p])
        BY <1>6, <1>7
      <3>3. \A q \in End : MsgsOf'[q] \subseteq Message
        BY <1>6
      <3> HIDE DEF msg
      <3>4. Carries(held', wire', MsgsOf')
        BY <1>8, <3>1, <3>2, <3>3, WriteCarries DEF IInv, TypeOK
      <3>5. QED
        BY <3>4 DEF Carries
    <2>3. QED
      BY <2>1, <2>2
  <1>10. /\ Len(queue) \in Nat
         /\ Append(queue, msg) \in Seq(Message)
         /\ Len(Append(queue, msg)) = Len(queue) + 1
         /\ \A i \in 1 .. Len(queue) : Append(queue, msg)[i] = queue[i]
         /\ Append(queue, msg)[Len(queue) + 1] = msg
    <2> HIDE DEF msg
    <2>1. QED
      BY <1>1, <1>2, AppendProperties, LenProperties
  <1>11. TypeOK'
    <2>1. RecvAckCheck(p, myId, outgoingAckId[p], isReconnecting[p])
      BY DEF Send
    <2>2. /\ outgoingAckTimeout' \in [End -> BOOLEAN]
          /\ socketEvent' \in [End -> SUBSET {"close", "timeout"}]
      BY <2>1, RecvAckCheckType DEF IInv
    <2>3. incomingAckId' \in [End -> Nat] /\ outgoingUnackMsg' \in [End -> Seq(Message)]
      BY <1>1, <1>3, <1>10
    <2>4. UNCHANGED <<incomingVars, incomingAckTimeout, ownerVars, didDispose,
                      closingVars, outgoingAckId, paused, open>>
      BY DEF Send
    <2>5. QED
      BY <1>5, <1>9, <2>2, <2>3, <2>4 DEF IInv, TypeOK, Carries
  <1>12. QueueMayBeWritten'
    <2>1. queue \in Seq(Msgs(p)')
      BY <1>6, SeqMonotonic DEF IInv, QueueMayBeWritten
    <2> HIDE DEF msg
    <2>2. Append(queue, msg) \in Seq(Msgs(p)')
      BY <1>7, <2>1, AppendProperties
    <2>3. \A q \in End \ {p} : outgoingUnackMsg'[q] \in Seq(Msgs(q)')
      BY <1>1, <1>3, <1>6, SeqMonotonic DEF IInv, QueueMayBeWritten
    <2>4. QED
      BY <1>1, <1>3, <2>2, <2>3 DEF QueueMayBeWritten
  <1>13. QueueMatchesCounters'
    <2>1. /\ outgoingAckId[p] + Len(queue) = outgoingMsgId[p]
          /\ \A i \in 1 .. Len(queue) : /\ queue[i].id = outgoingAckId[p] + i
                                        /\ queue[i].data = sent[p][outgoingAckId[p] + i]
      BY DEF IInv, QueueMatchesCounters
    <2> DEFINE InStep(q) ==
          /\ outgoingAckId'[q] + Len(outgoingUnackMsg'[q]) = outgoingMsgId'[q]
          /\ \A i \in 1 .. Len(outgoingUnackMsg'[q]) :
                /\ outgoingUnackMsg'[q][i].id = outgoingAckId'[q] + i
                /\ outgoingUnackMsg'[q][i].data = sent'[q][outgoingAckId'[q] + i]
    <2>2. \A q \in End \ {p} : InStep(q)
      <3>1. \A q \in End \ {p} : /\ outgoingUnackMsg'[q] = outgoingUnackMsg[q]
                                 /\ outgoingMsgId'[q] = outgoingMsgId[q]
                                 /\ outgoingAckId'[q] = outgoingAckId[q]
                                 /\ sent'[q] = sent[q]
        BY <1>1, <1>3
      <3>2. QED
        BY <3>1 DEF IInv, QueueMatchesCounters
    <2>3. InStep(p)
      <3>1. /\ outgoingUnackMsg'[p] = Append(queue, msg)
            /\ outgoingAckId'[p] = outgoingAckId[p]
            /\ outgoingAckId[p] \in Nat
        BY <1>1, <1>3
      <3>2. outgoingAckId[p] + (Len(queue) + 1) = myId
        BY <1>1, <1>10, <2>1
      <3>3. ASSUME NEW i \in 1 .. Len(queue) + 1
            PROVE  /\ Append(queue, msg)[i].id = outgoingAckId[p] + i
                   /\ Append(queue, msg)[i].data = sent'[p][outgoingAckId[p] + i]
        <4>1. CASE i = Len(queue) + 1
          BY <4>1, <1>2, <1>4, <1>5, <1>10, <3>2
        <4>2. CASE i # Len(queue) + 1
          <5>1. i \in 1 .. Len(queue)
            BY <1>10, <4>2
          <5>2. outgoingAckId[p] + i \in 1 .. outgoingMsgId[p]
            BY <1>1, <1>10, <2>1, <3>1, <5>1
          <5>3. sent'[p][outgoingAckId[p] + i] = sent[p][outgoingAckId[p] + i]
            BY <1>5, <5>2
          <5>4. Append(queue, msg)[i] = queue[i]
            BY <1>10, <5>1
          <5>5. QED
            BY <2>1, <5>1, <5>3, <5>4
        <4>3. QED
          BY <4>1, <4>2
      <3> HIDE DEF msg, queue
      <3>4. QED
        BY <1>5, <1>10, <3>1, <3>2, <3>3
    <2>4. QED
      BY <2>2, <2>3 DEF QueueMatchesCounters
  <1>14. HistoryMatchesCounters'
    <2>1. \A q \in End : /\ Len(sent[q]) = outgoingMsgId[q]
                        /\ Len(rcvd[q]) = incomingMsgId[q]
                        /\ incomingMsgId[q] <= outgoingMsgId[Other(q)]
                        /\ \A i \in 1 .. incomingMsgId[q] : rcvd[q][i] = sent[Other(q)][i]
      BY OtherEnd DEF IInv, HistoryMatchesCounters, AckedWasDelivered
    <2>2. \A q \in End : Len(sent'[q]) = outgoingMsgId'[q]
      BY <1>1, <1>3, <1>4, <2>1
    <2>3. ASSUME NEW q \in End, NEW i \in 1 .. incomingMsgId[q]
          PROVE  rcvd[q][i] = sent'[Other(q)][i]
      <3>1. Other(q) \in End /\ i \in 1 .. outgoingMsgId[Other(q)]
        <4>1. /\ Other(q) \in End /\ incomingMsgId[q] <= outgoingMsgId[Other(q)]
              /\ incomingMsgId[q] \in Nat /\ outgoingMsgId[Other(q)] \in Nat
          BY <1>1, <2>1, OtherEnd
        <4>2. QED
          BY <4>1
      <3>2. QED
        BY <1>5, <2>1, <3>1
    <2>4. QED
      BY <1>3, <2>1, <2>2, <2>3 DEF HistoryMatchesCounters
  <1>15. AckedWasDelivered'
    <2>1. \A q \in End : /\ outgoingAckId[q] <= incomingMsgId[Other(q)]
                        /\ incomingMsgId[Other(q)] <= outgoingMsgId[q]
                        /\ incomingAckId[q] <= incomingMsgId[q]
      BY DEF IInv, AckedWasDelivered
    <2>2. ASSUME NEW q \in End
          PROVE  /\ incomingMsgId[Other(q)] <= outgoingMsgId'[q]
                 /\ incomingAckId'[q] <= incomingMsgId[q]
      <3>1. outgoingMsgId[q] <= outgoingMsgId'[q] /\ outgoingMsgId'[q] \in Nat
            /\ incomingMsgId[Other(q)] \in Nat
        BY <1>1, <1>5, OtherEnd
      <3>2. incomingMsgId[Other(q)] <= outgoingMsgId'[q]
        <4>1. incomingMsgId[Other(q)] <= outgoingMsgId[q] /\ outgoingMsgId[q] \in Nat
          BY <1>1, <2>1
        <4>2. QED
          BY <3>1, <4>1
      <3>3. incomingAckId'[q] <= incomingMsgId[q]
        BY <1>1, <1>3, <2>1
      <3>4. QED
        BY <3>2, <3>3
    <2>3. QED
      BY <1>3, <2>1, <2>2 DEF AckedWasDelivered
  <1>16. QED
    BY <1>9, <1>11, <1>12, <1>13, <1>14, <1>15 DEF IInv

\* The next message joins what is delivered, and so what may be acknowledged.
LEMMA DeliverStep ==
    ASSUME IInv, NEW p \in End, ReceiveInOrder(p)
    PROVE  IInv'
  <1> USE DEF outgoingVars, incomingVars, timerVars, ownerVars, eventVars, writerVars,
              closingVars
  <1> DEFINE m == Incoming(p)
             o == Other(p)
  <1>1. /\ outgoingMsgId \in [End -> Nat] /\ incomingMsgId \in [End -> Nat]
        /\ outgoingAckId \in [End -> Nat] /\ incomingAckId \in [End -> Nat]
        /\ rcvd \in [End -> Seq(Payload)] /\ sent \in [End -> Seq(Payload)]
        /\ o \in End /\ Other(o) = p /\ o # p
    BY OtherEnd DEF IInv, TypeOK
  <1>2. /\ Arriving(p, "Regular")
        /\ m.id = incomingMsgId[p] + 1
        /\ AcceptAck(p, m.ack)
        /\ incomingMsgId' = [incomingMsgId EXCEPT ![p] = m.id]
        /\ rcvd' = [rcvd EXCEPT ![p] = Append(rcvd[p], m.data)]
        /\ ReadAndWrite(p, << >>)
        /\ UNCHANGED <<outgoingMsgId, sent, outgoingAckTimeout, replayRequested, ownerVars,
                       eventVars, closingVars, incomingAckId, paused, open>>
    BY DEF ReceiveInOrder
  <1>3. /\ m \in Msgs(o) /\ m \in Message /\ m.ack \in Nat /\ m.ack <= incomingMsgId[o]
        /\ m.type = "Regular"
    <2>1. m \in Msgs(o) /\ m \in Message /\ m.ack \in Nat /\ m.ack <= incomingMsgId[o]
      BY <1>2, IncomingIsKnown DEF MessageType
    <2>2. m.type = "Regular"
      BY <1>2 DEF Arriving, Incoming
    <2>3. QED
      BY <2>1, <2>2
  <1>4. m.id \in 1 .. outgoingMsgId[o] /\ m.data = sent[o][m.id]
    BY <1>3 DEF Msgs
  <1>5. /\ Len(rcvd[p]) = incomingMsgId[p]
        /\ Len(sent[o]) = outgoingMsgId[o]
        /\ \A i \in 1 .. incomingMsgId[p] : rcvd[p][i] = sent[o][i]
    BY <1>1 DEF IInv, HistoryMatchesCounters
  <1>6. m.data \in Payload
    BY <1>1, <1>4, <1>5, ElementOfSeq
  <1> HIDE DEF m
  <1>7. /\ Append(rcvd[p], m.data) \in Seq(Payload)
        /\ Len(Append(rcvd[p], m.data)) = incomingMsgId[p] + 1
        /\ \A i \in 1 .. incomingMsgId[p] : Append(rcvd[p], m.data)[i] = rcvd[p][i]
        /\ Append(rcvd[p], m.data)[incomingMsgId[p] + 1] = m.data
    BY <1>1, <1>5, <1>6, AppendProperties
  <1>8. /\ incomingMsgId' \in [End -> Nat] /\ rcvd' \in [End -> Seq(Payload)]
        /\ incomingMsgId'[p] = m.id /\ rcvd'[p] = Append(rcvd[p], m.data)
        /\ \A q \in End \ {p} : incomingMsgId'[q] = incomingMsgId[q] /\ rcvd'[q] = rcvd[q]
    <2>1. m.id \in Nat
      <3>1. incomingMsgId[p] \in Nat
        BY <1>1
      <3>2. QED
        BY <1>2, <3>1
    <2>2. QED
      BY <1>1, <1>2, <1>7, <2>1
  <1>9. \A q \in End : incomingMsgId[q] <= incomingMsgId'[q]
    <2>1. incomingMsgId[p] <= incomingMsgId'[p]
      BY <1>1, <1>2, <1>8
    <2>2. \A q \in End \ {p} : incomingMsgId[q] <= incomingMsgId'[q]
      BY <1>1, <1>8
    <2>3. QED
      BY <2>1, <2>2
  <1>10. /\ \A q \in End : Msgs(q) \subseteq Msgs(q)' /\ Msgs(q)' \subseteq Message
         /\ MsgsOf' = [q \in End |-> Msgs(q)']
    <2>1. \A q \in End : /\ outgoingMsgId'[q] \in Nat /\ outgoingMsgId[q] <= outgoingMsgId'[q]
                        /\ \A i \in 1 .. outgoingMsgId[q] : sent'[q][i] = sent[q][i]
      BY <1>1, <1>2
    <2>2. QED
      BY <1>8, <1>9, <2>1, MsgsGrow
  <1>11. Carries(held, wire, MsgsOf)'
    <2>1. Carries(held', wire', MsgsOf)
      BY <1>2, EmptySeq, ReadAndWriteStep DEF MessageType
    <2>2. \A q \in End : MsgsOf[q] \subseteq MsgsOf'[q]
      BY <1>10, MsgsAreMessages
    <2>3. Carries(held', wire', MsgsOf')
      BY <2>1, <2>2, CarriesMore
    <2>4. QED
      BY <2>3 DEF Carries
  <1>12. /\ outgoingAckId' \in [End -> Nat]
         /\ outgoingUnackMsg' \in [End -> Seq(Message)]
         /\ \A q \in End : /\ outgoingUnackMsg'[q] \in Seq(Msgs(q))
                           /\ outgoingAckId'[q] <= incomingMsgId[Other(q)]
                           /\ outgoingAckId'[q] + Len(outgoingUnackMsg'[q]) = outgoingMsgId[q]
                           /\ \A i \in 1 .. Len(outgoingUnackMsg'[q]) :
                                 /\ outgoingUnackMsg'[q][i].id = outgoingAckId'[q] + i
                                 /\ outgoingUnackMsg'[q][i].data = sent[q][outgoingAckId'[q] + i]
    BY <1>2, <1>3, AcceptAckKeepsQueue
  <1>13. TypeOK'
    <2>1. incomingAckTimeout' \in [End -> BOOLEAN]
      <3>1. incomingAckTimeout \in [End -> BOOLEAN]
        BY DEF IInv, TypeOK
      <3>2. PICK b \in BOOLEAN : incomingAckTimeout' = [incomingAckTimeout EXCEPT ![p] = b]
        BY <3>1 DEF ReceiveInOrder
      <3>3. QED
        BY <3>1, <3>2
    <2>2. QED
      BY <1>2, <1>8, <1>11, <1>12, <2>1 DEF IInv, TypeOK, Carries
  <1>14. QueueMayBeWritten'
    BY <1>10, <1>12, SeqMonotonic DEF QueueMayBeWritten
  <1>15. QueueMatchesCounters'
    BY <1>2, <1>12 DEF QueueMatchesCounters
  <1>16. HistoryMatchesCounters'
    <2>1. \A q \in End : Len(sent'[q]) = outgoingMsgId'[q]
      BY <1>2 DEF IInv, HistoryMatchesCounters
    <2>2. Len(rcvd'[p]) = incomingMsgId'[p]
      BY <1>2, <1>7, <1>8
    <2>3. ASSUME NEW i \in 1 .. incomingMsgId'[p]
          PROVE  rcvd'[p][i] = sent'[o][i]
      <3>1. i \in 1 .. incomingMsgId[p] + 1 /\ incomingMsgId[p] \in Nat
        BY <1>1, <1>2, <1>8
      <3>2. CASE i = incomingMsgId[p] + 1
        BY <1>2, <1>4, <1>7, <1>8, <3>2
      <3>3. CASE i # incomingMsgId[p] + 1
        <4>1. i \in 1 .. incomingMsgId[p]
          BY <3>1, <3>3
        <4>2. QED
          BY <1>2, <1>5, <1>7, <1>8, <4>1
      <3>4. QED
        BY <3>2, <3>3
    <2>4. \A q \in End \ {p} : /\ Len(rcvd'[q]) = incomingMsgId'[q]
                             /\ \A i \in 1 .. incomingMsgId'[q] : rcvd'[q][i] = sent'[Other(q)][i]
      BY <1>2, <1>8 DEF IInv, HistoryMatchesCounters
    <2>5. QED
      BY <2>1, <2>2, <2>3, <2>4 DEF HistoryMatchesCounters
  <1>17. AckedWasDelivered'
    <2>1. \A q \in End : /\ incomingMsgId[Other(q)] <= outgoingMsgId[q]
                        /\ incomingAckId[q] <= incomingMsgId[q]
      BY DEF IInv, AckedWasDelivered
    <2>2. ASSUME NEW q \in End
          PROVE  /\ outgoingAckId'[q] <= incomingMsgId'[Other(q)]
                 /\ incomingMsgId'[Other(q)] <= outgoingMsgId'[q]
                 /\ incomingAckId'[q] <= incomingMsgId'[q]
      <3>1. Other(q) \in End
        BY OtherEnd
      <3>2. /\ outgoingAckId'[q] <= incomingMsgId[Other(q)]
            /\ incomingMsgId[Other(q)] <= incomingMsgId'[Other(q)]
            /\ incomingAckId[q] <= incomingMsgId[q] /\ incomingMsgId[q] <= incomingMsgId'[q]
            /\ incomingMsgId[q] \in Nat /\ incomingMsgId'[q] \in Nat
            /\ incomingMsgId[Other(q)] \in Nat /\ incomingMsgId'[Other(q)] \in Nat
            /\ outgoingAckId'[q] \in Nat /\ incomingAckId[q] \in Nat
        BY <1>1, <1>8, <1>9, <1>12, <2>1, <3>1
      <3>3. incomingMsgId'[Other(q)] <= outgoingMsgId'[q]
        <4>1. CASE q = o
          BY <1>1, <1>2, <1>4, <1>8, <4>1
        <4>2. CASE q # o
          <5>1. Other(q) \in End \ {p}
            BY <1>1, <4>2, OtherEnd
          <5>2. QED
            BY <1>2, <1>8, <2>1, <5>1
        <4>3. QED
          BY <4>1, <4>2
      <3>4. outgoingAckId'[q] <= incomingMsgId'[Other(q)]
        BY <3>2
      <3>5. incomingAckId[q] <= incomingMsgId'[q]
        BY <3>2
      <3>6. QED
        BY <1>2, <3>3, <3>4, <3>5
    <2>3. QED
      BY <2>2 DEF AckedWasDelivered
  <1>18. QED
    BY <1>11, <1>13, <1>14, <1>15, <1>16, <1>17 DEF IInv

\* A reconnection writes only what may be written; a broken socket, less.
LEMMA ReconnectionSteps ==
    ASSUME IInv, NEW p \in End,
           \/ \E k \in Socket : BeginAcceptReconnection(p, k)
           \/ EndAcceptReconnection(p)
           \/ \E k \in Socket : LoseTail(k, p) \/ LoseMessage(k, p)
    PROVE  IInv'
  <1> USE DEF outgoingVars, incomingVars, timerVars, ownerVars, eventVars, writerVars,
              closingVars
  <1>1. \A q \in End : incomingAckId[q] <= incomingMsgId[q]
    BY DEF IInv, AckedWasDelivered
  <1>2. ASSUME NEW k \in Socket, BeginAcceptReconnection(p, k)
        PROVE  IInv'
    <2>1. /\ held \in [End -> Seq(Message)] /\ wire \in [Socket -> [End -> Seq(Message)]]
          /\ socket \in [End -> Socket]
      BY DEF IInv, TypeOK
    <2>2. /\ held' = [held EXCEPT ![p] = << >>]
          /\ wire' = [wire EXCEPT ![socket[p]][p] = << >>]
      BY <1>2 DEF BeginAcceptReconnection
    <2>3. Carries(held', wire', MsgsOf)
      BY <2>1, <2>2, EmptySeq DEF IInv, Carries
    <2>4. TypeOK'
      <3>1. /\ isReconnecting' \in [End -> BOOLEAN] /\ replayRequested' \in [End -> BOOLEAN]
            /\ paused' \in [End -> BOOLEAN] /\ open' \in [Socket -> BOOLEAN]
            /\ socket' \in [End -> Socket]
        BY <1>2 DEF BeginAcceptReconnection, IInv, TypeOK
      <3>2. /\ used' \in [End -> SUBSET Socket]
            /\ socketEvent' \in [End -> SUBSET {"close", "timeout"}]
        BY <1>2 DEF BeginAcceptReconnection, IInv, TypeOK
      <3>3. UNCHANGED <<outgoingVars, incomingMsgId, rcvd, timerVars, disposed, didDispose,
                        closingVars, incomingAckId>>
        BY <1>2 DEF BeginAcceptReconnection
      <3>4. QED
        BY <2>3, <3>1, <3>2, <3>3 DEF IInv, TypeOK, Carries
    <2>5. QED
      BY <1>1, <1>2, <2>3, <2>4, CountersStand DEF BeginAcceptReconnection
  <1>3. CASE EndAcceptReconnection(p)
    <2>1. /\ incomingMsgId \in [End -> Nat] /\ incomingAckId \in [End -> Nat]
          /\ incomingMsgId[p] \in Nat /\ incomingMsgId[p] <= incomingMsgId[p]
      <3>1. incomingMsgId \in [End -> Nat] /\ incomingAckId \in [End -> Nat]
        BY DEF IInv, TypeOK
      <3>2. incomingMsgId[p] \in Nat
        BY <3>1
      <3>3. QED
        BY <3>1, <3>2
    <2> DEFINE ms == <<Signal("Ack", incomingMsgId[p])>> \o Replay(p)
    <2>2. ms \in Seq(Msgs(p))
      <3>1. "Ack" \in MessageType \ {"Regular"} /\ TypeOK
        BY DEF IInv, MessageType
      <3>2. Signal("Ack", incomingMsgId[p]) \in Msgs(p)
        BY <2>1, <3>1, SignalIsMessage
      <3>3. /\ <<Signal("Ack", incomingMsgId[p])>> \in Seq(Msgs(p))
            /\ Replay(p) \in Seq(Msgs(p))
        BY <3>2 DEF IInv, QueueMayBeWritten, Replay
      <3>4. QED
        BY <3>3, ConcatProperties
    <2>3. Carries(held', wire', MsgsOf)
      <3>1. Write(p, ms)
        BY <1>3 DEF EndAcceptReconnection
      <3> HIDE DEF ms
      <3>2. QED
        BY <2>2, <3>1, WriteStep
    <2>4. /\ incomingAckId' \in [End -> Nat]
          /\ \A q \in End : incomingAckId'[q] <= incomingMsgId[q]
      BY <1>1, <1>3, <2>1 DEF EndAcceptReconnection
    <2>5. TypeOK'
      <3>1. /\ outgoingAckTimeout' \in [End -> BOOLEAN]
            /\ socketEvent' \in [End -> SUBSET {"close", "timeout"}]
        BY <1>3, RecvAckCheckType DEF EndAcceptReconnection, IInv
      <3>2. isReconnecting' \in [End -> BOOLEAN]
        BY <1>3 DEF EndAcceptReconnection, IInv, TypeOK
      <3>3. UNCHANGED <<outgoingVars, incomingVars, incomingAckTimeout, disposed, socket,
                        used, didDispose, closingVars, paused, open>>
        BY <1>3 DEF EndAcceptReconnection
      <3>4. QED
        BY <2>3, <2>4, <3>1, <3>2, <3>3 DEF IInv, TypeOK, Carries
    <2>6. QED
      BY <1>3, <2>3, <2>4, <2>5, CountersStand DEF EndAcceptReconnection
  <1>4. ASSUME NEW k \in Socket, LoseTail(k, p) \/ LoseMessage(k, p)
        PROVE  IInv'
    <2>1. Carries(held', wire', MsgsOf)
      BY <1>4, LossCarries, MsgsAreMessages DEF IInv
    <2>2. UNCHANGED <<outgoingVars, incomingVars, timerVars, ownerVars, eventVars,
                      held, closingVars, incomingAckId, paused, open>>
      BY <1>4 DEF LoseTail, LoseMessage
    <2>3. TypeOK'
      BY <2>1, <2>2 DEF IInv, TypeOK, Carries
    <2>4. QED
      BY <1>1, <2>1, <2>2, <2>3, CountersStand
  <1>5. QED
    BY <1>2, <1>3, <1>4

LEMMA NextIInv == IInv /\ [Next]_vars => IInv'
  <1> SUFFICES ASSUME IInv, [Next]_vars PROVE IInv'
    OBVIOUS
  <1>1. ASSUME NEW p \in End, Owner(p) PROVE IInv'
    <2>1. CASE \E d \in Payload : Send(p, d)
      BY <2>1, SendStep
    <2>2. CASE \E type \in MessageType : SendSignal(p, type)
      BY <2>2, SignalSteps
    <2>3. CASE SendDisconnect(p)
      BY <2>3, SignalSteps DEF MessageType
    <2>4. CASE PauseSocketWriting(p) \/ Dispose(p)
      BY <2>4, LocalSteps
    <2>5. QED
      BY <1>1, <2>1, <2>2, <2>3, <2>4 DEF Owner
  <1>2. ASSUME NEW p \in End, Timer(p) PROVE IInv'
    <2>1. CASE AckTimerFires(p) \/ SendKeepAlive(p)
      BY <2>1, SignalSteps DEF MessageType
    <2>2. CASE RecvAckTimerFires(p) \/ ReplayWindowElapses(p)
      BY <2>2, LocalSteps
    <2>3. QED
      BY <1>2, <2>1, <2>2 DEF Timer
  <1>3. ASSUME NEW p \in End, Receive(p) PROVE IInv'
    BY <1>3, DeliverStep, ReadSteps DEF Receive
  <1>4. ASSUME NEW p \in End, Reconnection(p) PROVE IInv'
    BY <1>4, ReconnectionSteps DEF Reconnection
  <1>5. CASE Network
    <2>1. CASE \E k \in Socket : Break(k)
      <3>1. "client" \in End
        BY DEF End
      <3>2. QED
        BY <2>1, <3>1, LocalSteps
    <2>2. CASE \E k \in Socket, p \in End : LoseTail(k, p) \/ LoseMessage(k, p)
      BY <2>2, ReconnectionSteps
    <2>3. CASE \E p \in End : SocketCloses(p)
      BY <2>3, LocalSteps
    <2>4. QED
      BY <1>5, <2>1, <2>2, <2>3 DEF Network
  <1>6. CASE UNCHANGED vars
    <2> USE DEF vars, outgoingVars, incomingVars, timerVars, ownerVars, eventVars,
                writerVars, closingVars
    <2>1. TypeOK' /\ Carries(held', wire', MsgsOf)
      BY <1>6 DEF IInv, TypeOK, Carries
    <2>2. QED
      BY <1>6, <2>1, CountersStand DEF IInv, AckedWasDelivered
  <1>7. QED
    BY <1>1, <1>2, <1>3, <1>4, <1>5, <1>6 DEF Next

-----------------------------------------------------------------------------
(* The theorems.                                                            *)

LEMMA AlwaysIInv == Spec => []IInv
  <1>1. QED
    BY InitIInv, NextIInv, PTL DEF Spec

\* Every field of both ends, their writers and the sockets keeps its type.
THEOREM TypeCorrect == Spec => []TypeOK
  <1>1. IInv => TypeOK
    BY DEF IInv
  <1>2. QED
    BY <1>1, AlwaysIInv, PTL

\* The queue of unacknowledged messages is what the counters say, in every
\* interleaving of sends, acknowledgements, losses and reconnections.
THEOREM QueueCorrect == Spec => []QueueMatchesCounters
  <1>1. IInv => QueueMatchesCounters
    BY DEF IInv
  <1>2. QED
    BY <1>1, AlwaysIInv, PTL

\* No message is forgotten by its sender before it is delivered.
THEOREM AckedCorrect == Spec => []AckedWasDelivered
  <1>1. IInv => AckedWasDelivered
    BY DEF IInv
  <1>2. QED
    BY <1>1, AlwaysIInv, PTL

\* Reliable delivery: whatever the sockets lose, and however often the ends
\* reconnect, each message is fired once and in the order it was sent.
THEOREM Implementation == Spec => ImplementsChannel
  <1> USE DEF Channel!vars, Channel!End, Channel!Other
  <1>1. Init => Channel!Init
    BY DEF Init, Channel!Init, End
  <1>2. IInv /\ [Next]_vars => [Channel!Next]_Channel!vars
    <2> SUFFICES ASSUME IInv, [Next]_vars PROVE [Channel!Next]_<<sent, rcvd>>
      OBVIOUS
    <2> USE DEF outgoingVars, incomingVars, timerVars, ownerVars, eventVars, writerVars,
                closingVars
    <2>1. ASSUME NEW p \in End, NEW d \in Payload, Send(p, d)
          PROVE  Channel!Next
      BY <2>1 DEF Send, Channel!Next, Channel!Send, End
    <2>2. ASSUME NEW p \in End, ReceiveInOrder(p)
          PROVE  Channel!Next
      <3> DEFINE o == Other(p)
      <3>1. /\ Arriving(p, "Regular") /\ Incoming(p).id = incomingMsgId[p] + 1
            /\ rcvd' = [rcvd EXCEPT ![p] = Append(rcvd[p], Incoming(p).data)]
            /\ UNCHANGED sent
        BY <2>2 DEF ReceiveInOrder
      <3>2. /\ Incoming(p) \in Msgs(o) /\ Incoming(p).type = "Regular"
        <4>1. Incoming(p) \in Msgs(o)
          BY <3>1, IncomingIsKnown DEF MessageType
        <4>2. QED
          BY <3>1, <4>1 DEF Arriving, Incoming
      <3>3. /\ Incoming(p).id \in 1 .. outgoingMsgId[o]
            /\ Incoming(p).data = sent[o][Incoming(p).id]
        BY <3>2 DEF Msgs
      <3>4. Len(rcvd[p]) = incomingMsgId[p] /\ Len(sent[o]) = outgoingMsgId[o]
        BY OtherEnd DEF IInv, HistoryMatchesCounters
      <3>5. outgoingMsgId[o] \in Nat
        BY OtherEnd DEF IInv, TypeOK
      <3>6. Len(rcvd[p]) + 1 <= Len(sent[o])
        BY <3>1, <3>3, <3>4, <3>5
      <3>7. Channel!Deliver(p)
        BY <3>1, <3>3, <3>4, <3>6 DEF Channel!Deliver, Other
      <3>8. QED
        BY <3>7 DEF Channel!Next, End
    <2>3. ASSUME NEW p \in End, Owner(p)
          PROVE  Channel!Next \/ UNCHANGED <<sent, rcvd>>
      BY <2>1, <2>3 DEF Owner, SendSignal, PauseSocketWriting, SendDisconnect, Dispose
    <2>4. ASSUME NEW p \in End, Timer(p)
          PROVE  UNCHANGED <<sent, rcvd>>
      BY <2>4 DEF Timer, AckTimerFires, RecvAckTimerFires, SendKeepAlive, ReplayWindowElapses
    <2>5. ASSUME NEW p \in End, Receive(p)
          PROVE  Channel!Next \/ UNCHANGED <<sent, rcvd>>
      BY <2>2, <2>5 DEF Receive, ReceiveDuplicate, ReceiveBeyondGap, ReceiveSignal,
            ReceiveDisconnect, ReceiveReplayRequest, ReceivePause, ReceiveResume
    <2>6. ASSUME NEW p \in End, Reconnection(p)
          PROVE  UNCHANGED <<sent, rcvd>>
      BY <2>6 DEF Reconnection, BeginAcceptReconnection, EndAcceptReconnection
    <2>7. ASSUME Network
          PROVE  UNCHANGED <<sent, rcvd>>
      BY <2>7 DEF Network, Break, LoseTail, LoseMessage, SocketCloses
    <2>8. CASE UNCHANGED vars
      BY <2>8 DEF vars
    <2>9. QED
      BY <2>3, <2>4, <2>5, <2>6, <2>7, <2>8 DEF Next
  <1>3. QED
    BY <1>1, <1>2, AlwaysIInv, PTL DEF Spec, ImplementsChannel, Channel!Spec

-----------------------------------------------------------------------------
(* No timer is forgotten: what was delivered will be acknowledged, and what is*)
(* outstanding is watched, on sockets that may lose anything.               *)

\* _recvAckCheck leaves the end watched or with nothing to watch.
LEMMA CheckedIsWatched ==
    ASSUME TypeOK, NEW p \in End, NEW msgId \in Nat, NEW ackId \in Nat,
           RecvAckCheck(p, msgId, ackId, isReconnecting[p])
    PROVE  /\ (msgId > ackId /\ ~isReconnecting[p])
                => outgoingAckTimeout'[p] \/ "timeout" \in socketEvent'[p]
           /\ \A q \in End : q # p =>
                /\ outgoingAckTimeout'[q] = outgoingAckTimeout[q]
                /\ socketEvent'[q] = socketEvent[q]
  <1>1. outgoingAckTimeout \in [End -> BOOLEAN] /\ socketEvent \in [End -> SUBSET {"close", "timeout"}]
    BY DEF TypeOK
  <1>2. CASE msgId <= ackId \/ outgoingAckTimeout[p] \/ isReconnecting[p]
    BY <1>1, <1>2 DEF RecvAckCheck
  <1>3. CASE ~(msgId <= ackId \/ outgoingAckTimeout[p] \/ isReconnecting[p])
    BY <1>1, <1>3 DEF RecvAckCheck
  <1>4. QED
    BY <1>2, <1>3

\* The same at the end of a reconnection.
LEMMA ReconnectedIsWatched ==
    ASSUME TypeOK, NEW p \in End, NEW msgId \in Nat, NEW ackId \in Nat,
           RecvAckCheck(p, msgId, ackId, FALSE)
    PROVE  /\ msgId > ackId => outgoingAckTimeout'[p] \/ "timeout" \in socketEvent'[p]
           /\ \A q \in End : q # p =>
                /\ outgoingAckTimeout'[q] = outgoingAckTimeout[q]
                /\ socketEvent'[q] = socketEvent[q]
  <1>1. outgoingAckTimeout \in [End -> BOOLEAN] /\ socketEvent \in [End -> SUBSET {"close", "timeout"}]
    BY DEF TypeOK
  <1>2. CASE msgId <= ackId \/ outgoingAckTimeout[p]
    BY <1>1, <1>2 DEF RecvAckCheck
  <1>3. CASE ~(msgId <= ackId \/ outgoingAckTimeout[p])
    BY <1>1, <1>3 DEF RecvAckCheck
  <1>4. QED
    BY <1>2, <1>3

-----------------------------------------------------------------------------
(* Acknowledging what was delivered.                                        *)

LEMMA InitAcked == Init => DeliveredWillBeAcked
  BY DEF Init, DeliveredWillBeAcked

\* A step that touches none of the ids and timers of acknowledging.
LEMMA AckStands ==
    ASSUME DeliveredWillBeAcked,
           UNCHANGED <<incomingMsgId, incomingAckId, incomingAckTimeout, disposed>>
    PROVE  DeliveredWillBeAcked'
  BY DEF DeliveredWillBeAcked

LEMMA NextAcked == TypeOK /\ TypeOK' /\ DeliveredWillBeAcked /\ [Next]_vars => DeliveredWillBeAcked'
  <1> SUFFICES ASSUME TypeOK, TypeOK', DeliveredWillBeAcked, [Next]_vars
               PROVE  DeliveredWillBeAcked'
    OBVIOUS
  <1> USE DEF outgoingVars, incomingVars, timerVars, ownerVars, eventVars, writerVars,
              closingVars
  <1>1. ASSUME NEW p \in End, Owner(p) PROVE DeliveredWillBeAcked'
    <2>1. CASE \E d \in Payload : Send(p, d)
      BY <2>1 DEF Send, TypeOK, DeliveredWillBeAcked
    <2>2. CASE (\E type \in MessageType : SendSignal(p, type)) \/ PauseSocketWriting(p)
                  \/ SendDisconnect(p)
      BY <2>2, AckStands DEF SendSignal, PauseSocketWriting, SendDisconnect
    <2>3. CASE Dispose(p)
      BY <2>3 DEF Dispose, TypeOK, DeliveredWillBeAcked
    <2>4. QED
      BY <1>1, <2>1, <2>2, <2>3 DEF Owner
  <1>2. ASSUME NEW p \in End, Timer(p) PROVE DeliveredWillBeAcked'
    <2>1. CASE AckTimerFires(p)
      <3>1. /\ incomingMsgId'[p] <= incomingAckId'[p]
            /\ incomingMsgId' \in [End -> Nat] /\ incomingAckId' \in [End -> Nat]
        BY <2>1 DEF AckTimerFires, TypeOK
      <3>2. \A q \in End : q # p => incomingAckTimeout'[q] = incomingAckTimeout[q]
        BY <2>1 DEF AckTimerFires, TypeOK
      <3>3. /\ \A q \in End : q # p => incomingAckId'[q] = incomingAckId[q]
            /\ UNCHANGED <<incomingMsgId, disposed>>
        BY <2>1 DEF AckTimerFires, TypeOK
      <3>4. ~(incomingMsgId'[p] > incomingAckId'[p])
        BY <3>1
      <3>5. QED
        BY <3>2, <3>3, <3>4 DEF DeliveredWillBeAcked
    <2>2. CASE SendKeepAlive(p)
      BY <2>2 DEF SendKeepAlive, TypeOK, DeliveredWillBeAcked
    <2>3. CASE RecvAckTimerFires(p) \/ ReplayWindowElapses(p)
      BY <2>3, AckStands DEF RecvAckTimerFires, ReplayWindowElapses
    <2>4. QED
      BY <1>2, <2>1, <2>2, <2>3 DEF Timer
  <1>3. ASSUME NEW p \in End, Receive(p) PROVE DeliveredWillBeAcked'
    <2>1. CASE ReceiveInOrder(p)
      BY <2>1 DEF ReceiveInOrder, TypeOK, DeliveredWillBeAcked
    <2>2. CASE ~ReceiveInOrder(p)
      BY <1>3, <2>2, AckStands DEF Receive, ReceiveDuplicate, ReceiveBeyondGap, ReceiveSignal,
            ReceiveDisconnect, ReceiveReplayRequest, ReceivePause, ReceiveResume
    <2>3. QED
      BY <2>1, <2>2
  <1>4. ASSUME NEW p \in End, Reconnection(p) PROVE DeliveredWillBeAcked'
    <2>1. CASE \E k \in Socket : BeginAcceptReconnection(p, k)
      BY <2>1, AckStands DEF BeginAcceptReconnection
    <2>2. CASE EndAcceptReconnection(p)
      BY <2>2 DEF EndAcceptReconnection, TypeOK, DeliveredWillBeAcked
    <2>3. QED
      BY <1>4, <2>1, <2>2 DEF Reconnection
  <1>5. CASE Network
    BY <1>5, AckStands DEF Network, Break, LoseTail, LoseMessage, SocketCloses
  <1>6. CASE UNCHANGED vars
    BY <1>6, AckStands DEF vars
  <1>7. QED
    BY <1>1, <1>2, <1>3, <1>4, <1>5, <1>6 DEF Next

\* What was delivered and not acknowledged has its timer set, whatever is lost,
\* replayed or reconnected.
THEOREM AckScheduled == Spec => []DeliveredWillBeAcked
  <1>1. QED
    BY TypeCorrect, InitAcked, NextAcked, PTL DEF Spec

-----------------------------------------------------------------------------
(* Watching what is outstanding.                                            *)

LEMMA InitWatched == Init => OutstandingIsWatched
  BY DEF Init, OutstandingIsWatched

\* A step that touches none of the ids, flags and timers of watching.
LEMMA WatchStands ==
    ASSUME OutstandingIsWatched,
           UNCHANGED <<outgoingMsgId, outgoingAckId, isReconnecting, disposed,
                       outgoingAckTimeout, socketEvent>>
    PROVE  OutstandingIsWatched'
  BY DEF OutstandingIsWatched

\* A message that is read may only acknowledge more.
LEMMA ReadIsWatched ==
    ASSUME TypeOK, TypeOK', OutstandingIsWatched, NEW p \in End, AcceptAck(p, Incoming(p).ack),
           UNCHANGED <<outgoingMsgId, isReconnecting, disposed, outgoingAckTimeout, socketEvent>>
    PROVE  OutstandingIsWatched'
  <1>1. /\ outgoingMsgId \in [End -> Nat]
        /\ outgoingAckId \in [End -> Nat] /\ outgoingAckId' \in [End -> Nat]
    BY DEF TypeOK
  <1>2. \A q \in End : outgoingAckId'[q] >= outgoingAckId[q]
    <2>1. CASE Incoming(p).ack > outgoingAckId[p]
      <3>1. outgoingAckId' = [outgoingAckId EXCEPT ![p] = Incoming(p).ack]
        BY <2>1 DEF AcceptAck
      <3>2. outgoingAckId'[p] > outgoingAckId[p]
        BY <2>1, <3>1, <1>1
      <3>3. QED
        BY <3>1, <3>2, <1>1
    <2>2. CASE ~(Incoming(p).ack > outgoingAckId[p])
      BY <2>2, <1>1 DEF AcceptAck
    <2>3. QED
      BY <2>1, <2>2
  <1>3. \A q \in End : outgoingMsgId[q] > outgoingAckId'[q] => outgoingMsgId[q] > outgoingAckId[q]
    BY <1>1, <1>2
  <1>4. QED
    BY <1>3 DEF OutstandingIsWatched

\* What an owner was told of a socket stays told.
LEMMA TimeoutStays ==
    ASSUME TypeOK, NEW p \in End,
           \/ UNCHANGED socketEvent
           \/ socketEvent' = [socketEvent EXCEPT ![p] = socketEvent[p] \cup {"timeout"}]
    PROVE  \A q \in End : "timeout" \in socketEvent[q] => "timeout" \in socketEvent'[q]
  <1>1. DOMAIN socketEvent = End
    BY DEF TypeOK
  <1>2. CASE UNCHANGED socketEvent
    BY <1>2
  <1>3. CASE socketEvent' = [socketEvent EXCEPT ![p] = socketEvent[p] \cup {"timeout"}]
    <2> TAKE q \in End
    <2>1. socketEvent'[q] = IF q = p THEN socketEvent[p] \cup {"timeout"} ELSE socketEvent[q]
      BY <1>1, <1>3
    <2>2. QED
      BY <2>1
  <1>4. QED
    BY <1>2, <1>3

LEMMA NextWatched == TypeOK /\ TypeOK' /\ OutstandingIsWatched /\ [Next]_vars => OutstandingIsWatched'
  <1> SUFFICES ASSUME TypeOK, TypeOK', OutstandingIsWatched, [Next]_vars
               PROVE  OutstandingIsWatched'
    OBVIOUS
  <1> USE DEF outgoingVars, incomingVars, timerVars, ownerVars, eventVars, writerVars,
              closingVars
  <1>0. /\ outgoingMsgId \in [End -> Nat] /\ outgoingAckId \in [End -> Nat]
        /\ outgoingMsgId' \in [End -> Nat]
    BY DEF TypeOK
  <1>1. ASSUME NEW p \in End, Owner(p) PROVE OutstandingIsWatched'
    <2>1. ASSUME NEW d \in Payload, Send(p, d) PROVE OutstandingIsWatched'
      <3>1. /\ outgoingMsgId[p] + 1 \in Nat /\ outgoingAckId[p] \in Nat
            /\ outgoingMsgId' = [outgoingMsgId EXCEPT ![p] = outgoingMsgId[p] + 1]
            /\ RecvAckCheck(p, outgoingMsgId[p] + 1, outgoingAckId[p], isReconnecting[p])
            /\ UNCHANGED <<outgoingAckId, isReconnecting, disposed>>
        BY <2>1, <1>0 DEF Send
      <3>2. /\ (outgoingMsgId'[p] > outgoingAckId[p] /\ ~isReconnecting[p])
                 => outgoingAckTimeout'[p] \/ "timeout" \in socketEvent'[p]
            /\ \A q \in End : q # p => /\ outgoingMsgId'[q] = outgoingMsgId[q]
                                       /\ outgoingAckTimeout'[q] = outgoingAckTimeout[q]
                                       /\ socketEvent'[q] = socketEvent[q]
        BY <3>1, <1>0, CheckedIsWatched
      <3>3. QED
        BY <3>1, <3>2 DEF OutstandingIsWatched
    <2>2. CASE (\E type \in MessageType : SendSignal(p, type)) \/ PauseSocketWriting(p)
                  \/ SendDisconnect(p)
      BY <2>2, WatchStands DEF SendSignal, PauseSocketWriting, SendDisconnect
    <2>3. CASE Dispose(p)
      BY <2>3 DEF Dispose, TypeOK, OutstandingIsWatched
    <2>4. QED
      BY <1>1, <2>1, <2>2, <2>3 DEF Owner
  <1>2. ASSUME NEW p \in End, Timer(p) PROVE OutstandingIsWatched'
    <2>1. CASE RecvAckTimerFires(p)
      <3>1. /\ \A q \in End : q # p => outgoingAckTimeout'[q] = outgoingAckTimeout[q]
            /\ UNCHANGED <<outgoingMsgId, outgoingAckId, isReconnecting, disposed>>
        BY <2>1 DEF RecvAckTimerFires, TypeOK
      <3>2. \/ outgoingMsgId[p] <= outgoingAckId[p] \/ isReconnecting[p]
            \/ "timeout" \in socketEvent'[p]
        BY <2>1 DEF RecvAckTimerFires, TypeOK
      <3>3. outgoingMsgId[p] <= outgoingAckId[p] => ~(outgoingMsgId[p] > outgoingAckId[p])
        BY <1>0
      <3>4. \A q \in End : "timeout" \in socketEvent[q] => "timeout" \in socketEvent'[q]
        <4>1. \/ UNCHANGED socketEvent
              \/ socketEvent' = [socketEvent EXCEPT ![p] = socketEvent[p] \cup {"timeout"}]
          BY <2>1 DEF RecvAckTimerFires
        <4>2. QED
          BY <4>1, TimeoutStays
      <3>5. QED
        BY <3>1, <3>2, <3>3, <3>4 DEF OutstandingIsWatched
    <2>2. CASE SendKeepAlive(p)
      <3>1. \A q \in End : "timeout" \in socketEvent[q] => "timeout" \in socketEvent'[q]
        <4>1. \/ UNCHANGED socketEvent
              \/ socketEvent' = [socketEvent EXCEPT ![p] = socketEvent[p] \cup {"timeout"}]
          BY <2>2 DEF SendKeepAlive
        <4>2. QED
          BY <4>1, TimeoutStays
      <3>2. UNCHANGED <<outgoingMsgId, outgoingAckId, isReconnecting, disposed,
                        outgoingAckTimeout>>
        BY <2>2 DEF SendKeepAlive
      <3>3. QED
        BY <3>1, <3>2 DEF OutstandingIsWatched
    <2>3. CASE AckTimerFires(p) \/ ReplayWindowElapses(p)
      BY <2>3, WatchStands DEF AckTimerFires, ReplayWindowElapses
    <2>4. QED
      BY <1>2, <2>1, <2>2, <2>3 DEF Timer
  <1>3. ASSUME NEW p \in End, Receive(p) PROVE OutstandingIsWatched'
    <2>1. CASE ReceiveInOrder(p) \/ ReceiveDuplicate(p) \/ ReceiveBeyondGap(p)
                 \/ ReceiveSignal(p)
      BY <2>1, ReadIsWatched DEF ReceiveInOrder, ReceiveDuplicate, ReceiveBeyondGap, ReceiveSignal
    <2>2. CASE ReceiveReplayRequest(p)
      <3>1. /\ RecvAckCheck(p, outgoingMsgId[p], outgoingAckId[p], isReconnecting[p])
            /\ UNCHANGED <<outgoingMsgId, outgoingAckId, isReconnecting, disposed>>
        BY <2>2 DEF ReceiveReplayRequest
      <3>2. /\ (outgoingMsgId[p] > outgoingAckId[p] /\ ~isReconnecting[p])
                 => outgoingAckTimeout'[p] \/ "timeout" \in socketEvent'[p]
            /\ \A q \in End : q # p => /\ outgoingAckTimeout'[q] = outgoingAckTimeout[q]
                                       /\ socketEvent'[q] = socketEvent[q]
        BY <3>1, <1>0, CheckedIsWatched
      <3>3. QED
        BY <3>1, <3>2 DEF OutstandingIsWatched
    <2>3. CASE ReceiveDisconnect(p) \/ ReceivePause(p) \/ ReceiveResume(p)
      BY <2>3, WatchStands DEF ReceiveDisconnect, ReceivePause, ReceiveResume
    <2>4. QED
      BY <1>3, <2>1, <2>2, <2>3 DEF Receive
  <1>4. ASSUME NEW p \in End, Reconnection(p) PROVE OutstandingIsWatched'
    <2>1. CASE \E k \in Socket : BeginAcceptReconnection(p, k)
      BY <2>1 DEF BeginAcceptReconnection, TypeOK, OutstandingIsWatched
    <2>2. CASE EndAcceptReconnection(p)
      <3>1. /\ RecvAckCheck(p, outgoingMsgId[p], outgoingAckId[p], FALSE)
            /\ isReconnecting' = [isReconnecting EXCEPT ![p] = FALSE]
            /\ UNCHANGED <<outgoingMsgId, outgoingAckId, disposed>>
        BY <2>2 DEF EndAcceptReconnection
      <3>2. /\ outgoingMsgId[p] > outgoingAckId[p]
                 => outgoingAckTimeout'[p] \/ "timeout" \in socketEvent'[p]
            /\ \A q \in End : q # p => /\ outgoingAckTimeout'[q] = outgoingAckTimeout[q]
                                       /\ socketEvent'[q] = socketEvent[q]
        BY <3>1, <1>0, ReconnectedIsWatched
      <3>3. \A q \in End : q # p => isReconnecting'[q] = isReconnecting[q]
        BY <3>1 DEF TypeOK
      <3>4. QED
        BY <3>1, <3>2, <3>3 DEF OutstandingIsWatched
    <2>3. QED
      BY <1>4, <2>1, <2>2 DEF Reconnection
  <1>5. CASE Network
    <2>1. CASE \E p \in End : SocketCloses(p)
      BY <2>1 DEF SocketCloses, TypeOK, OutstandingIsWatched
    <2>2. CASE ~\E p \in End : SocketCloses(p)
      BY <1>5, <2>2, WatchStands DEF Network, Break, LoseTail, LoseMessage
    <2>3. QED
      BY <2>1, <2>2
  <1>6. CASE UNCHANGED vars
    BY <1>6, WatchStands DEF vars
  <1>7. QED
    BY <1>1, <1>2, <1>3, <1>4, <1>5, <1>6 DEF Next

\* No outstanding message is forgotten: a timer looks at it again, the owner was
\* told, or a reconnection will look.
THEOREM Watched == Spec => []OutstandingIsWatched
  <1>1. QED
    BY TypeCorrect, InitWatched, NextWatched, PTL DEF Spec

-----------------------------------------------------------------------------
(***************************************************************************)
(* The order in which PersistentProtocol delivers on sockets that only     *)
(* ever lose a tail: no reader meets a gap in the ids, and a Disconnect    *)
(* comes after all that was sent before it.                                *)
(***************************************************************************)

(* A reader that was delivered base messages has been delivered n of them   *)
(* when it has read the first i messages of S.                              *)
Reaches(S, i, base, n) ==
    n <= base \/ \E j \in 1 .. i : S[j].type = "Regular" /\ n <= S[j].id

(* What is read in S is never ahead: before a Regular message its           *)
(* predecessor, before a Disconnect the last of the messages it must follow. *)
InOrder(S, base, last) ==
    \A i \in 1 .. Len(S) :
       /\ S[i].type = "Regular" => Reaches(S, i - 1, base, S[i].id - 1)
       /\ S[i].type = "Disconnect" => Reaches(S, i - 1, base, last)

-----------------------------------------------------------------------------
(* Sequences of messages.                                                   *)

LEMMA ConcatAt ==
    ASSUME NEW S \in Seq(Message), NEW T \in Seq(Message)
    PROVE  /\ S \o T \in Seq(Message)
           /\ Len(S) \in Nat /\ Len(T) \in Nat /\ Len(S \o T) = Len(S) + Len(T)
           /\ \A i \in 1 .. Len(S) : (S \o T)[i] = S[i]
           /\ \A i \in 1 .. Len(T) : (S \o T)[Len(S) + i] = T[i]
           /\ \A i \in 1 .. Len(S \o T) : i \in 1 .. Len(S)
                 \/ \E j \in 1 .. Len(T) : i = Len(S) + j
  <1>1. /\ S \o T \in Seq(Message) /\ Len(S \o T) = Len(S) + Len(T)
        /\ Len(S) \in Nat /\ Len(T) \in Nat
    BY ConcatProperties, LenProperties
  <1>2. \A i \in 1 .. Len(S) + Len(T) :
           (S \o T)[i] = IF i <= Len(S) THEN S[i] ELSE T[i - Len(S)]
    BY ConcatProperties
  <1>3. \A i \in 1 .. Len(S) : (S \o T)[i] = S[i]
    BY <1>1, <1>2
  <1>4. ASSUME NEW i \in 1 .. Len(T)
        PROVE  (S \o T)[Len(S) + i] = T[i]
    <2>1. Len(S) + i \in 1 .. Len(S) + Len(T) /\ ~(Len(S) + i <= Len(S))
          /\ (Len(S) + i) - Len(S) = i
      BY <1>1
    <2>2. QED
      BY <1>2, <2>1
  <1>5. ASSUME NEW i \in 1 .. Len(S \o T), i \notin 1 .. Len(S)
        PROVE  \E j \in 1 .. Len(T) : i = Len(S) + j
    <2>1. i - Len(S) \in 1 .. Len(T) /\ i = Len(S) + (i - Len(S))
      BY <1>1, <1>5
    <2>2. QED
      BY <2>1
  <1>6. QED
    BY <1>1, <1>3, <1>4, <1>5

LEMMA IdAt ==
    ASSUME NEW S \in Seq(Message), NEW i \in 1 .. Len(S)
    PROVE  S[i].id \in Nat /\ S[i].id \in Int /\ S[i].id - 1 \in Int
  <1>1. S[i] \in Message
    BY ElementOfSeq
  <1>2. S[i].id \in Nat
    BY <1>1 DEF Message
  <1>3. QED
    BY <1>2

\* What was reached stays reached: behind more messages, before more messages,
\* and with more delivered.
LEMMA ReachesInFront ==
    ASSUME NEW S \in Seq(Message), NEW T \in Seq(Message), NEW base \in Int, NEW n \in Int,
           NEW i \in 0 .. Len(S), Reaches(S, i, base, n),
           NEW j \in Nat, i <= j
    PROVE  Reaches(S \o T, j, base, n)
  <1>1. CASE n <= base
    BY <1>1 DEF Reaches
  <1>2. ASSUME NEW a \in 1 .. i, S[a].type = "Regular", n <= S[a].id
        PROVE  Reaches(S \o T, j, base, n)
    <2>1. a \in 1 .. Len(S) /\ a \in 1 .. j
      BY LenProperties
    <2>2. (S \o T)[a] = S[a]
      BY <2>1, ConcatAt
    <2>3. QED
      BY <1>2, <2>1, <2>2 DEF Reaches
  <1>3. QED
    BY <1>1, <1>2 DEF Reaches

LEMMA ReachesBehind ==
    ASSUME NEW S \in Seq(Message), NEW T \in Seq(Message), NEW base \in Int, NEW n \in Int,
           NEW i \in 0 .. Len(T), Reaches(T, i, base, n)
    PROVE  Reaches(S \o T, Len(S) + i, base, n)
  <1>1. CASE n <= base
    BY <1>1 DEF Reaches
  <1>2. ASSUME NEW a \in 1 .. i, T[a].type = "Regular", n <= T[a].id
        PROVE  Reaches(S \o T, Len(S) + i, base, n)
    <2>1. Len(S) \in Nat /\ Len(T) \in Nat
      BY LenProperties
    <2>2. a \in 1 .. Len(T) /\ Len(S) + a \in 1 .. Len(S) + i
      BY <2>1
    <2>3. (S \o T)[Len(S) + a] = T[a]
      BY <2>2, ConcatAt
    <2>4. QED
      BY <1>2, <2>2, <2>3 DEF Reaches
  <1>3. QED
    BY <1>1, <1>2 DEF Reaches

\* Two sequences in order are in order one after the other, and so is one with
\* a message whose predecessors it reaches.
LEMMA InOrderConcat ==
    ASSUME NEW S \in Seq(Message), NEW T \in Seq(Message), NEW base \in Int, NEW last \in Int,
           InOrder(S, base, last),
           \A i \in 1 .. Len(T) :
              /\ T[i].type = "Regular" => \/ Reaches(T, i - 1, base, T[i].id - 1)
                                          \/ Reaches(S, Len(S), base, T[i].id - 1)
              /\ T[i].type = "Disconnect" => \/ Reaches(T, i - 1, base, last)
                                             \/ Reaches(S, Len(S), base, last)
    PROVE  InOrder(S \o T, base, last)
  <1>1. Len(S) \in Nat /\ Len(T) \in Nat /\ Len(S \o T) = Len(S) + Len(T)
    BY ConcatAt
  <1>2. ASSUME NEW i \in 1 .. Len(S)
        PROVE  /\ S[i].type = "Regular" => Reaches(S \o T, i - 1, base, S[i].id - 1)
               /\ S[i].type = "Disconnect" => Reaches(S \o T, i - 1, base, last)
    <2>1. i - 1 \in 0 .. Len(S) /\ i - 1 \in Nat /\ i - 1 <= i - 1
      BY <1>1
    <2>2. S[i].id - 1 \in Int
      BY IdAt
    <2>3. QED
      BY <2>1, <2>2, ReachesInFront DEF InOrder
  <1>3. ASSUME NEW i \in 1 .. Len(T)
        PROVE  /\ T[i].type = "Regular" => Reaches(S \o T, Len(S) + i - 1, base, T[i].id - 1)
               /\ T[i].type = "Disconnect" => Reaches(S \o T, Len(S) + i - 1, base, last)
    <2>1. i - 1 \in 0 .. Len(T) /\ Len(S) + (i - 1) = Len(S) + i - 1
          /\ Len(S) \in 0 .. Len(S) /\ Len(S) + i - 1 \in Nat /\ Len(S) <= Len(S) + i - 1
      BY <1>1
    <2>2. T[i].id - 1 \in Int
      BY IdAt
    <2>3. ASSUME NEW n \in Int, Reaches(T, i - 1, base, n) \/ Reaches(S, Len(S), base, n)
          PROVE  Reaches(S \o T, Len(S) + i - 1, base, n)
      <3>1. CASE Reaches(T, i - 1, base, n)
        <4>1. Reaches(S \o T, Len(S) + (i - 1), base, n)
          BY <2>1, <3>1, ReachesBehind
        <4>2. QED
          BY <2>1, <4>1
      <3>2. CASE Reaches(S, Len(S), base, n)
        BY <2>1, <3>2, ReachesInFront
      <3>3. QED
        BY <2>3, <3>1, <3>2
    <2>4. QED
      BY <2>2, <2>3
  <1>4. ASSUME NEW i \in 1 .. Len(S \o T)
        PROVE  /\ (S \o T)[i].type = "Regular"
                      => Reaches(S \o T, i - 1, base, (S \o T)[i].id - 1)
               /\ (S \o T)[i].type = "Disconnect" => Reaches(S \o T, i - 1, base, last)
    <2>1. CASE i \in 1 .. Len(S)
      <3>1. (S \o T)[i] = S[i]
        BY <2>1, ConcatAt
      <3>2. QED
        BY <1>2, <2>1, <3>1
    <2>2. ASSUME NEW j \in 1 .. Len(T), i = Len(S) + j
          PROVE  /\ (S \o T)[i].type = "Regular"
                        => Reaches(S \o T, i - 1, base, (S \o T)[i].id - 1)
                 /\ (S \o T)[i].type = "Disconnect" => Reaches(S \o T, i - 1, base, last)
      <3>1. (S \o T)[i] = T[j]
        BY <2>2, ConcatAt
      <3>2. QED
        BY <1>3, <2>2, <3>1
    <2>3. QED
      BY <2>1, <2>2, ConcatAt, ZenonT(40)
  <1>5. QED
    BY <1>4 DEF InOrder

\* Reading the first message.
LEMMA InOrderTail ==
    ASSUME NEW S \in Seq(Message), S # << >>, NEW base \in Int, NEW last \in Int,
           NEW more \in Int, base <= more, S[1].type = "Regular" => S[1].id <= more
    PROVE  /\ InOrder(S, base, last) => InOrder(Tail(S), more, last)
           /\ \A n \in Int : Reaches(S, Len(S), base, n)
                                => Reaches(Tail(S), Len(Tail(S)), more, n)
  <1>1. /\ Tail(S) \in Seq(Message) /\ Len(S) \in Nat /\ Len(Tail(S)) = Len(S) - 1
        /\ \A i \in 1 .. Len(S) - 1 : Tail(S)[i] = S[i + 1]
    BY HeadTailProperties, LenProperties
  <1>2. ASSUME NEW i \in 1 .. Len(S), NEW n \in Int, Reaches(S, i, base, n)
        PROVE  Reaches(Tail(S), i - 1, more, n)
    <2>1. CASE n <= base
      BY <2>1 DEF Reaches
    <2>2. ASSUME NEW j \in 1 .. i, S[j].type = "Regular", n <= S[j].id
          PROVE  Reaches(Tail(S), i - 1, more, n)
      <3>1. S[j].id \in Int
        BY IdAt
      <3>2. CASE j = 1
        BY <2>2, <3>1, <3>2 DEF Reaches
      <3>3. CASE j # 1
        <4>1. j - 1 \in 1 .. i - 1 /\ j - 1 \in 1 .. Len(S) - 1 /\ (j - 1) + 1 = j
          BY <1>1, <3>3
        <4>2. Tail(S)[j - 1] = S[j]
          BY <1>1, <4>1
        <4>3. QED
          BY <2>2, <4>1, <4>2 DEF Reaches
      <3>4. QED
        BY <3>2, <3>3
    <2>3. QED
      BY <1>2, <2>1, <2>2 DEF Reaches
  <1>3. ASSUME InOrder(S, base, last)
        PROVE  InOrder(Tail(S), more, last)
    <2> SUFFICES ASSUME NEW i \in 1 .. Len(Tail(S))
                 PROVE  /\ Tail(S)[i].type = "Regular"
                              => Reaches(Tail(S), i - 1, more, Tail(S)[i].id - 1)
                        /\ Tail(S)[i].type = "Disconnect" => Reaches(Tail(S), i - 1, more, last)
      BY DEF InOrder
    <2>1. i \in 1 .. Len(S) /\ i + 1 \in 1 .. Len(S) /\ (i + 1) - 1 = i /\ Tail(S)[i] = S[i + 1]
      BY <1>1
    <2>2. S[i + 1].id - 1 \in Int
      BY <2>1, IdAt
    <2>3. /\ S[i + 1].type = "Regular" => Reaches(S, i, base, S[i + 1].id - 1)
          /\ S[i + 1].type = "Disconnect" => Reaches(S, i, base, last)
      BY <1>3, <2>1 DEF InOrder
    <2>4. QED
      BY <1>2, <2>1, <2>2, <2>3
  <1>4. ASSUME NEW n \in Int, Reaches(S, Len(S), base, n)
        PROVE  Reaches(Tail(S), Len(Tail(S)), more, n)
    <2>1. Len(S) \in 1 .. Len(S)
      <3>1. Len(S) # 0
        BY EmptySeq
      <3>2. QED
        BY <1>1, <3>1
    <2>2. QED
      BY <1>1, <1>2, <1>4, <2>1
  <1>5. QED
    BY <1>3, <1>4

\* Losing a tail.
LEMMA InOrderPrefix ==
    ASSUME NEW S \in Seq(Message), NEW T \in Seq(Message), NEW base, NEW last,
           Len(T) <= Len(S), \A i \in 1 .. Len(T) : T[i] = S[i],
           InOrder(S, base, last)
    PROVE  InOrder(T, base, last)
  <1>1. Len(S) \in Nat /\ Len(T) \in Nat
    BY LenProperties
  <1>2. ASSUME NEW i \in 1 .. Len(T), NEW n, Reaches(S, i - 1, base, n)
        PROVE  Reaches(T, i - 1, base, n)
    <2>1. \A j \in 1 .. i - 1 : T[j] = S[j]
      BY <1>1
    <2>2. QED
      BY <1>2, <2>1 DEF Reaches
  <1>3. QED
    BY <1>1, <1>2 DEF InOrder

-----------------------------------------------------------------------------
(* The inductive invariant.                                                 *)

\* The sockets that p reads, or may still be moved to.
AheadOf(p) == {k \in Socket : k = socket[p] \/ k \notin used[p]}

\* What p can still read on socket k: what is in flight, and what a paused
\* writer keeps as long as the socket takes it.
Stream(k, p) == IF k = socket[Other(p)] /\ open[k]
                THEN wire[k][p] \o held[Other(p)]
                ELSE wire[k][p]

\* What the peer of p sends reaches a socket that p reads or will read.
Streaming(p) == /\ ~disposed[Other(p)] /\ ~isReconnecting[Other(p)]
                /\ open[socket[Other(p)]]
                /\ socket[Other(p)] \in AheadOf(p)

Ordered(p) ==
    \A k \in AheadOf(p) : InOrder(Stream(k, p), incomingMsgId[p], farewell[Other(p)])

Complete(p) ==
    LET S == Stream(socket[Other(p)], p)
    IN Streaming(p) => Reaches(S, Len(S), incomingMsgId[p], outgoingMsgId[Other(p)])

SocketsInTurn == /\ \A p \in End : socket[p] \in used[p]
                 /\ \A k \in used["client"] : k <= socket["client"]

\* Nothing waits in a writer that is not paused, or on a socket never used.
NothingLeftBehind ==
    \A p \in End : /\ paused[p] \/ held[p] = << >>
                   /\ \A k \in Socket : k \notin used[p] => wire[k][Other(p)] = << >>

QueueIsRegular ==
    \A p \in End : \A i \in 1 .. Len(outgoingUnackMsg[p]) :
       outgoingUnackMsg[p][i].type = "Regular"

\* No Disconnect is on its way before it is sent.
MayDisconnect ==
    [p \in End |-> {m \in Message : m.type = "Disconnect" => didSendDisconnect[p]}]

FarewellHeard ==
    \A p \in End : didDispose[p] => /\ didSendDisconnect[Other(p)]
                                    /\ farewell[Other(p)] <= incomingMsgId[p]

OrderInv == /\ SocketsInTurn
            /\ NothingLeftBehind
            /\ QueueIsRegular
            /\ Carries(held, wire, MayDisconnect)
            /\ FarewellHeard
            /\ \A p \in End : Ordered(p) /\ Complete(p)

-----------------------------------------------------------------------------
(* How a step changes the streams.                                          *)

\* The writer of p adds ms to what its peer can read.
Extended(p, ms) ==
    \A k \in Socket :
       Stream(k, Other(p))' = IF k = socket[p] /\ open[k] /\ ~disposed[p]
                              THEN Stream(k, Other(p)) \o ms
                              ELSE Stream(k, Other(p))

\* The reader of p takes the first message.
Taken(p) ==
    \A k \in Socket :
       Stream(k, p)' = IF k = socket[p] THEN Tail(Stream(k, p)) ELSE Stream(k, p)

Untouched(p) == \A k \in Socket : Stream(k, p)' = Stream(k, p)

LEMMA StreamType ==
    ASSUME TypeOK, NEW p \in End, NEW k \in Socket
    PROVE  /\ Stream(k, p) \in Seq(Message)
           /\ wire[k][p] \in Seq(Message) /\ held[p] \in Seq(Message)
           /\ held[Other(p)] \in Seq(Message)
  <1>1. /\ wire[k][p] \in Seq(Message) /\ held[p] \in Seq(Message)
        /\ held[Other(p)] \in Seq(Message)
    BY OtherEnd DEF TypeOK
  <1>2. wire[k][p] \o held[Other(p)] \in Seq(Message)
    BY <1>1, ConcatAt
  <1>3. QED
    BY <1>1, <1>2 DEF Stream

LEMMA EmptyConcat ==
    ASSUME NEW S \in Seq(Message)
    PROVE  S \o << >> = S
  BY ConcatEmptySeq

LEMMA ConcatThree ==
    ASSUME NEW S \in Seq(Message), NEW T \in Seq(Message), NEW U \in Seq(Message)
    PROVE  (S \o T) \o U = S \o (T \o U)
  BY ConcatAssociative

\* What a write adds to a stream: to the wire, or to what the writer keeps.
LEMMA WrittenOrKept ==
    ASSUME TypeOK, NothingLeftBehind, NEW p \in End, NEW ms \in Seq(Message),
           NEW w \in Seq(Message), open[socket[p]]
    PROVE  (w \o Written(p, ms)) \o (held[p] \o Kept(p, ms))
              = IF disposed[p] THEN w \o held[p] ELSE (w \o held[p]) \o ms
  <1>1. held[p] \in Seq(Message) /\ << >> \in Seq(Message)
    BY EmptySeq DEF TypeOK
  <1>2. CASE disposed[p]
    <2>1. Written(p, ms) = << >> /\ Kept(p, ms) = << >>
      BY <1>2 DEF Written, Kept
    <2>2. QED
      BY <1>1, <1>2, <2>1, EmptyConcat
  <1>3. CASE ~disposed[p] /\ paused[p]
    <2>1. Written(p, ms) = << >> /\ Kept(p, ms) = ms
      BY <1>3 DEF Written, Kept
    <2>2. w \o << >> = w /\ (w \o held[p]) \o ms = w \o (held[p] \o ms)
      BY <1>1, EmptyConcat, ConcatThree
    <2>3. QED
      BY <1>3, <2>1, <2>2
  <1>4. CASE ~disposed[p] /\ ~paused[p]
    <2>1. Written(p, ms) = ms /\ Kept(p, ms) = << >> /\ held[p] = << >>
      BY <1>4 DEF Written, Kept, NothingLeftBehind
    <2>2. w \o ms \in Seq(Message) /\ w \o << >> = w /\ << >> \o << >> = << >>
      BY <1>1, ConcatAt, EmptyConcat
    <2>3. (w \o ms) \o << >> = w \o ms
      BY <2>2, EmptyConcat
    <2>4. QED
      BY <1>4, <2>1, <2>2, <2>3
  <1>5. QED
    BY <1>2, <1>3, <1>4

LEMMA WriteStreams ==
    ASSUME TypeOK, NothingLeftBehind, NEW p \in End, NEW ms \in Seq(Message),
           Write(p, ms), UNCHANGED <<socket, open>>
    PROVE  Untouched(p) /\ Extended(p, ms)
  <1> DEFINE r == Other(p)
             j == socket[p]
  <1>1. r \in End /\ r # p /\ Other(r) = p /\ j \in Socket
    BY OtherEnd DEF TypeOK
  <1>2. /\ held[p] \in Seq(Message) /\ wire[j][r] \in Seq(Message)
    BY <1>1 DEF TypeOK
  <1>3. /\ held' = [held EXCEPT ![p] = held[p] \o Kept(p, ms)]
        /\ wire' = [wire EXCEPT ![j] = [wire[j] EXCEPT ![r] = wire[j][r] \o Written(p, ms)]]
    BY DEF Write
  <1>4. /\ held'[p] = held[p] \o Kept(p, ms) /\ held'[r] = held[r]
        /\ wire'[j][r] = wire[j][r] \o Written(p, ms)
        /\ \A k \in Socket : wire'[k][p] = wire[k][p]
        /\ \A k \in Socket : k # j => wire'[k][r] = wire[k][r]
    BY <1>1, <1>3 DEF TypeOK
  <1> HIDE DEF r, j
  <1>5. Untouched(p)
    BY <1>4 DEF Untouched, Stream, r
  <1>6. ASSUME NEW k \in Socket
        PROVE  Stream(k, r)' = IF k = j /\ open[k] /\ ~disposed[p]
                               THEN Stream(k, r) \o ms ELSE Stream(k, r)
    <2>1. CASE k # j
      BY <1>1, <1>4, <2>1 DEF Stream, j
    <2>2. CASE k = j /\ ~open[k]
      <3>1. Written(p, ms) = << >>
        BY <2>2 DEF Written, j
      <3>2. wire'[k][r] = wire[k][r]
        BY <1>2, <1>4, <2>2, <3>1, EmptyConcat
      <3>3. QED
        BY <2>2, <3>2 DEF Stream
    <2>3. CASE k = j /\ open[k]
      <3>1. Stream(k, r)' = (wire[k][r] \o Written(p, ms)) \o (held[p] \o Kept(p, ms))
        BY <1>1, <1>4, <2>3 DEF Stream, j
      <3>2. Stream(k, r) = wire[k][r] \o held[p]
        BY <1>1, <2>3 DEF Stream, j
      <3>3. open[socket[p]] /\ wire[k][r] \in Seq(Message)
        BY <1>2, <2>3 DEF j
      <3>4. (wire[k][r] \o Written(p, ms)) \o (held[p] \o Kept(p, ms))
               = IF disposed[p] THEN wire[k][r] \o held[p] ELSE (wire[k][r] \o held[p]) \o ms
        BY <3>3, WrittenOrKept
      <3>5. QED
        BY <2>3, <3>1, <3>2, <3>4, SMTT(30)
    <2>4. QED
      BY <2>1, <2>2, <2>3
  <1>7. QED
    BY <1>5, <1>6 DEF Extended, r, j

\* The first message of a stream is the first one of the wire.
LEMMA TailOfStream ==
    ASSUME NEW w \in Seq(Message), NEW h \in Seq(Message), w # << >>
    PROVE  /\ w \o h # << >> /\ (w \o h)[1] = Head(w)
           /\ Tail(w \o h) = Tail(w) \o h /\ Tail(w) \in Seq(Message)
  <1>1. Len(w) # 0 /\ Len(w) \in Nat /\ Len(h) \in Nat
    BY EmptySeq, LenProperties
  <1>2. 1 \in 1 .. Len(w) /\ Len(w \o h) # 0 /\ Head(w) = w[1]
    BY <1>1, ConcatAt, HeadTailProperties
  <1>3. w \o h # << >> /\ (w \o h)[1] = Head(w)
    BY <1>2, ConcatAt, EmptySeq
  <1>4. Tail(w) \in Seq(Message)
    BY HeadTailProperties
  <1>5. Tail(w \o h) = Tail(w) \o h
    <2>1. /\ w \o h \in Seq(Message) /\ Tail(w \o h) \in Seq(Message)
          /\ Tail(w) \o h \in Seq(Message)
          /\ Len(Tail(w)) = Len(w) - 1 /\ Len(Tail(w)) \in Nat
          /\ Len(Tail(w \o h)) = Len(w) + Len(h) - 1
          /\ Len(Tail(w) \o h) = Len(w) - 1 + Len(h)
      BY <1>1, <1>3, <1>4, ConcatAt, HeadTailProperties
    <2>2. ASSUME NEW i \in 1 .. Len(w) + Len(h) - 1
          PROVE  Tail(w \o h)[i] = (Tail(w) \o h)[i]
      <3>1. /\ i + 1 \in 1 .. Len(w \o h) /\ i \in 1 .. Len(Tail(w \o h))
            /\ i \in 1 .. Len(Tail(w) \o h)
        BY <1>1, <2>1, ConcatAt
      <3>2. Tail(w \o h)[i] = (w \o h)[i + 1]
        BY <1>3, <2>1, <3>1, HeadTailProperties
      <3>3. CASE i \in 1 .. Len(w) - 1
        <4>1. i + 1 \in 1 .. Len(w) /\ i \in 1 .. Len(Tail(w))
          BY <1>1, <2>1, <3>3
        <4>2. (w \o h)[i + 1] = w[i + 1] /\ (Tail(w) \o h)[i] = Tail(w)[i]
          BY <1>4, <4>1, ConcatAt
        <4>3. Tail(w)[i] = w[i + 1]
          BY <4>1, HeadTailProperties
        <4>4. QED
          BY <3>2, <4>2, <4>3
      <3>4. CASE i \notin 1 .. Len(w) - 1
        <4> DEFINE j == i + 1 - Len(w)
        <4>1. j \in 1 .. Len(h) /\ Len(w) + j = i + 1 /\ Len(Tail(w)) + j = i
          BY <1>1, <2>1, <3>4
        <4> HIDE DEF j
        <4>2. (w \o h)[Len(w) + j] = h[j] /\ (Tail(w) \o h)[Len(Tail(w)) + j] = h[j]
          BY <1>4, <4>1, ConcatAt
        <4>3. QED
          BY <3>2, <4>1, <4>2
      <3>5. QED
        BY <3>3, <3>4
    <2>3. Len(Tail(w \o h)) = Len(Tail(w) \o h)
      BY <1>1, <2>1
    <2>4. QED
      BY <1>1, <2>1, <2>2, <2>3, SeqEqual
  <1>6. QED
    BY <1>3, <1>4, <1>5

LEMMA ReadStreams ==
    ASSUME TypeOK, NothingLeftBehind, NEW p \in End, NEW ms \in Seq(Message),
           ReadAndWrite(p, ms), wire[socket[p]][p] # << >>, UNCHANGED <<socket, open>>
    PROVE  Taken(p) /\ Extended(p, ms)
  <1> DEFINE r == Other(p)
             j == socket[p]
             row == [q \in End |-> IF q = p THEN Tail(wire[j][p])
                                            ELSE wire[j][q] \o Written(p, ms)]
  <1>1. r \in End /\ r # p /\ Other(r) = p /\ j \in Socket
    BY OtherEnd DEF TypeOK
  <1>2. /\ held[p] \in Seq(Message) /\ held[r] \in Seq(Message)
        /\ wire[j][r] \in Seq(Message) /\ wire[j][p] \in Seq(Message)
    BY <1>1 DEF TypeOK
  <1>3. row[p] = Tail(wire[j][p]) /\ row[r] = wire[j][r] \o Written(p, ms)
    BY <1>1
  <1>4. /\ held' = [held EXCEPT ![p] = held[p] \o Kept(p, ms)]
        /\ wire' = [wire EXCEPT ![j] = row]
    BY DEF ReadAndWrite
  <1> HIDE DEF row
  <1>5. /\ held'[p] = held[p] \o Kept(p, ms) /\ held'[r] = held[r]
        /\ wire'[j][p] = Tail(wire[j][p])
        /\ wire'[j][r] = wire[j][r] \o Written(p, ms)
        /\ \A k \in Socket : k # j => wire'[k] = wire[k]
    BY <1>1, <1>3, <1>4 DEF TypeOK
  <1> HIDE DEF r, j
  <1>6. ASSUME NEW k \in Socket
        PROVE  Stream(k, p)' = IF k = j THEN Tail(Stream(k, p)) ELSE Stream(k, p)
    <2>1. CASE k # j
      BY <1>5, <2>1 DEF Stream, r
    <2>2. CASE k = j
      <3>1. Tail(wire[k][p] \o held[r]) = Tail(wire[k][p]) \o held[r]
        BY <1>2, <2>2, TailOfStream DEF j
      <3>2. QED
        BY <1>5, <2>2, <3>1 DEF Stream, r
    <2>3. QED
      BY <2>1, <2>2
  <1>7. ASSUME NEW k \in Socket
        PROVE  Stream(k, r)' = IF k = j /\ open[k] /\ ~disposed[p]
                               THEN Stream(k, r) \o ms ELSE Stream(k, r)
    <2>1. CASE k # j
      BY <1>1, <1>5, <2>1 DEF Stream, j
    <2>2. CASE k = j /\ ~open[k]
      <3>1. Written(p, ms) = << >>
        BY <2>2 DEF Written, j
      <3>2. wire'[k][r] = wire[k][r]
        BY <1>2, <1>5, <2>2, <3>1, EmptyConcat
      <3>3. QED
        BY <2>2, <3>2 DEF Stream
    <2>3. CASE k = j /\ open[k]
      <3>1. Stream(k, r)' = (wire[k][r] \o Written(p, ms)) \o (held[p] \o Kept(p, ms))
        BY <1>1, <1>5, <2>3 DEF Stream, j
      <3>2. Stream(k, r) = wire[k][r] \o held[p]
        BY <1>1, <2>3 DEF Stream, j
      <3>3. open[socket[p]] /\ wire[k][r] \in Seq(Message)
        BY <1>2, <2>3 DEF j
      <3>4. (wire[k][r] \o Written(p, ms)) \o (held[p] \o Kept(p, ms))
               = IF disposed[p] THEN wire[k][r] \o held[p] ELSE (wire[k][r] \o held[p]) \o ms
        BY <3>3, WrittenOrKept
      <3>5. QED
        BY <2>3, <3>1, <3>2, <3>4, SMTT(30)
    <2>4. QED
      BY <2>1, <2>2, <2>3
  <1>8. QED
    BY <1>6, <1>7 DEF Taken, Extended, r, j

\* A resumed writer moves what it kept to the wire: its peer reads the same.
LEMMA ResumeStreams ==
    ASSUME TypeOK, NEW p \in End, ReceiveResume(p)
    PROVE  Taken(p) /\ Untouched(Other(p))
  <1> DEFINE r == Other(p)
             j == socket[p]
             moved == IF open[j] THEN held[p] ELSE << >>
             row == [q \in End |-> IF q = p THEN Tail(wire[j][p]) ELSE wire[j][q] \o moved]
  <1>1. r \in End /\ r # p /\ Other(r) = p /\ j \in Socket
    BY OtherEnd DEF TypeOK
  <1>2. /\ held[p] \in Seq(Message) /\ held[r] \in Seq(Message)
        /\ wire[j][r] \in Seq(Message) /\ wire[j][p] \in Seq(Message)
    BY <1>1 DEF TypeOK
  <1>3. /\ row[p] = Tail(wire[j][p])
        /\ row[r] = wire[j][r] \o moved
    BY <1>1
  <1>4. /\ held' = [held EXCEPT ![p] = << >>]
        /\ wire' = [wire EXCEPT ![j] = row]
        /\ wire[j][p] # << >>
        /\ UNCHANGED <<socket, open>>
    BY DEF ReceiveResume, Arriving, ownerVars
  <1> HIDE DEF row
  <1>5. /\ held'[p] = << >> /\ held'[r] = held[r]
        /\ wire'[j][p] = Tail(wire[j][p])
        /\ wire'[j][r] = wire[j][r] \o moved
        /\ \A k \in Socket : k # j => wire'[k] = wire[k]
    BY <1>1, <1>3, <1>4 DEF TypeOK
  <1> HIDE DEF r, j
  <1>6. ASSUME NEW k \in Socket
        PROVE  Stream(k, p)' = IF k = j THEN Tail(Stream(k, p)) ELSE Stream(k, p)
    <2>1. CASE k # j
      BY <1>4, <1>5, <2>1 DEF Stream, r
    <2>2. CASE k = j
      <3>1. Tail(wire[k][p] \o held[r]) = Tail(wire[k][p]) \o held[r]
        BY <1>2, <1>4, <2>2, TailOfStream DEF j
      <3>2. QED
        BY <1>4, <1>5, <2>2, <3>1 DEF Stream, r
    <2>3. QED
      BY <2>1, <2>2
  <1>7. ASSUME NEW k \in Socket
        PROVE  Stream(k, r)' = Stream(k, r)
    <2>1. CASE k # j
      BY <1>1, <1>4, <1>5, <2>1 DEF Stream, j
    <2>2. CASE k = j /\ ~open[k]
      <3>1. wire'[k][r] = wire[k][r]
        BY <1>2, <1>5, <2>2, EmptyConcat
      <3>2. QED
        BY <1>4, <2>2, <3>1 DEF Stream
    <2>3. CASE k = j /\ open[k]
      <3>1. wire'[k][r] = wire[k][r] \o held[p]
        BY <1>5, <2>3
      <3>2. (wire[k][r] \o held[p]) \o << >> = wire[k][r] \o held[p]
        <4>1. wire[k][r] \o held[p] \in Seq(Message)
          BY <1>2, <2>3, ConcatAt
        <4>2. QED
          BY <4>1, EmptyConcat
      <3>3. QED
        BY <1>1, <1>4, <1>5, <2>3, <3>1, <3>2 DEF Stream, j
    <2>4. QED
      BY <2>1, <2>2, <2>3
  <1>8. QED
    BY <1>6, <1>7 DEF Taken, Untouched, r, j

-----------------------------------------------------------------------------
(* What the streams bring after such a step.                                *)

\* For a reader whose streams are not touched.
LEMMA UntouchedInOrder ==
    ASSUME TypeOK, OrderInv, NEW p \in End, Untouched(p),
           UNCHANGED <<socket, used, open>>,
           incomingMsgId'[p] = incomingMsgId[p], farewell'[Other(p)] = farewell[Other(p)],
           Streaming(p)' => Streaming(p) /\ outgoingMsgId'[Other(p)] = outgoingMsgId[Other(p)]
    PROVE  Ordered(p)' /\ Complete(p)'
  <1>1. AheadOf(p)' = AheadOf(p)
    BY DEF AheadOf
  <1>2. Ordered(p)'
    BY <1>1 DEF OrderInv, Ordered, Untouched, AheadOf
  <1>3. socket[Other(p)] \in Socket
    BY OtherEnd DEF TypeOK
  <1>4. Complete(p)'
    BY <1>3 DEF OrderInv, Complete, Untouched
  <1>5. QED
    BY <1>2, <1>4

\* For the peer of an end that writes.
LEMMA ExtendedInOrder ==
    ASSUME TypeOK, OrderInv, NEW p \in End, NEW r \in End, r = Other(p),
           NEW ms \in Seq(Message), Extended(p, ms),
           UNCHANGED <<socket, used, open, disposed>>,
           incomingMsgId'[r] = incomingMsgId[r], farewell'[p] = farewell[p],
           outgoingMsgId'[p] = outgoingMsgId[p],
           InOrder(ms, incomingMsgId[r], farewell[p]),
           \/ isReconnecting'[p] = isReconnecting[p]
           \/ Reaches(ms, Len(ms), incomingMsgId[r], outgoingMsgId[p])
    PROVE  Ordered(r)' /\ Complete(r)'
  <1>1. AheadOf(r)' = AheadOf(r) /\ Other(r) = p
    BY OtherEnd DEF AheadOf
  <1>2. /\ incomingMsgId[r] \in Int /\ farewell[p] \in Int /\ outgoingMsgId[p] \in Int
        /\ socket[p] \in Socket
    BY DEF TypeOK
  <1>3. ASSUME NEW k \in Socket
        PROVE  /\ Stream(k, r) \in Seq(Message) /\ Len(Stream(k, r)) \in Nat
               /\ InOrder(Stream(k, r), incomingMsgId[r], farewell[p])
                     => InOrder(Stream(k, r) \o ms, incomingMsgId[r], farewell[p])
    <2>1. Stream(k, r) \in Seq(Message) /\ Len(Stream(k, r)) \in Nat
      BY StreamType, LenProperties
    <2> DEFINE S == Stream(k, r)
    <2>2. S \in Seq(Message)
      BY <2>1
    <2> HIDE DEF S
    <2>3. InOrder(S, incomingMsgId[r], farewell[p])
             => InOrder(S \o ms, incomingMsgId[r], farewell[p])
      <3>1. \A i \in 1 .. Len(ms) :
              /\ ms[i].type = "Regular"
                    => Reaches(ms, i - 1, incomingMsgId[r], ms[i].id - 1)
              /\ ms[i].type = "Disconnect" => Reaches(ms, i - 1, incomingMsgId[r], farewell[p])
        BY DEF InOrder
      <3>2. QED
        BY <1>2, <2>2, <3>1, InOrderConcat
    <2>4. QED
      BY <2>1, <2>3 DEF S
  <1>4. Ordered(r)'
    <2> SUFFICES ASSUME NEW k \in AheadOf(r)
                 PROVE  InOrder(Stream(k, r)', incomingMsgId'[r], farewell'[p])
      BY <1>1 DEF Ordered
    <2>1. k \in Socket /\ InOrder(Stream(k, r), incomingMsgId[r], farewell[p])
      BY <1>1 DEF OrderInv, Ordered, AheadOf
    <2>2. Stream(k, r)' = Stream(k, r) \/ Stream(k, r)' = Stream(k, r) \o ms
      BY <2>1 DEF Extended
    <2>3. QED
      BY <1>3, <2>1, <2>2
  <1>5. Complete(r)'
    <2> DEFINE S == Stream(socket[p], r)
    <2> SUFFICES ASSUME Streaming(r)'
                 PROVE  Reaches(Stream(socket[p], r)', Len(Stream(socket[p], r)'),
                                incomingMsgId[r], outgoingMsgId[p])
      BY <1>1 DEF Complete
    <2>1. ~disposed[p] /\ ~isReconnecting'[p] /\ open[socket[p]] /\ socket[p] \in AheadOf(r)
      BY <1>1 DEF Streaming
    <2>2. Stream(socket[p], r)' = S \o ms
      BY <1>2, <2>1 DEF Extended
    <2>3. S \in Seq(Message) /\ Len(S) \in Nat /\ Len(ms) \in Nat /\ Len(S) \in 0 .. Len(S)
          /\ Len(S \o ms) = Len(S) + Len(ms) /\ Len(S) <= Len(S) + Len(ms)
          /\ Len(ms) \in 0 .. Len(ms) /\ Len(S) + Len(ms) \in Nat
      <3>1. S \in Seq(Message) /\ Len(S) \in Nat /\ Len(ms) \in Nat
        BY <1>2, <1>3, LenProperties
      <3>2. Len(S \o ms) = Len(S) + Len(ms)
        BY <3>1, ConcatAt
      <3>3. QED
        BY <3>1, <3>2
    <2>4. CASE isReconnecting'[p] = isReconnecting[p]
      <3>1. Reaches(S, Len(S), incomingMsgId[r], outgoingMsgId[p])
        BY <1>1, <2>1, <2>4 DEF OrderInv, Complete, Streaming
      <3> HIDE DEF S
      <3>2. Reaches(S \o ms, Len(S) + Len(ms), incomingMsgId[r], outgoingMsgId[p])
        BY <1>2, <2>3, <3>1, ReachesInFront
      <3>3. QED
        BY <2>2, <2>3, <3>2 DEF S
    <2>5. CASE Reaches(ms, Len(ms), incomingMsgId[r], outgoingMsgId[p])
      <3> HIDE DEF S
      <3>2. Reaches(S \o ms, Len(S) + Len(ms), incomingMsgId[r], outgoingMsgId[p])
        BY <1>2, <2>3, <2>5, ReachesBehind
      <3>3. QED
        BY <2>2, <2>3, <3>2 DEF S
    <2>6. QED
      BY <2>4, <2>5
  <1>6. QED
    BY <1>4, <1>5

\* For an end that reads what is in order.
LEMMA TakenInOrder ==
    ASSUME TypeOK, TypeOK', OrderInv, NEW p \in End, Taken(p), wire[socket[p]][p] # << >>,
           UNCHANGED <<socket, used, open, disposed, isReconnecting, outgoingMsgId, farewell>>,
           incomingMsgId[p] <= incomingMsgId'[p],
           Incoming(p).type = "Regular" => Incoming(p).id <= incomingMsgId'[p]
    PROVE  Ordered(p)' /\ Complete(p)'
  <1> PICK j \in Socket : j = socket[p]
    BY DEF TypeOK
  <1> DEFINE r == Other(p)
             S == Stream(j, p)
  <1>1. r \in End /\ socket'[p] = j /\ AheadOf(p)' = AheadOf(p) /\ j \in AheadOf(p)
    BY OtherEnd DEF AheadOf, TypeOK
  <1>2. /\ incomingMsgId[p] \in Int /\ incomingMsgId'[p] \in Int /\ farewell[r] \in Int
        /\ outgoingMsgId[r] \in Int
    BY <1>1 DEF TypeOK
  <1>3. /\ S \in Seq(Message) /\ S # << >> /\ S[1] = Incoming(p)
    <2>1. wire[j][p] \in Seq(Message) /\ held[r] \in Seq(Message) /\ S \in Seq(Message)
      BY <1>1, StreamType
    <2>2. wire[j][p] \o held[r] # << >> /\ (wire[j][p] \o held[r])[1] = Incoming(p)
      BY <2>1, TailOfStream DEF Incoming
    <2>3. wire[j][p][1] = Incoming(p)
      BY <2>1, HeadTailProperties DEF Incoming
    <2>4. QED
      BY <2>1, <2>2, <2>3 DEF Stream
  <1>4. /\ Stream(j, p)' = Tail(S)
        /\ \A k \in Socket : k # j => Stream(k, p)' = Stream(k, p)
    BY <1>1 DEF Taken
  <1>5. /\ InOrder(S, incomingMsgId[p], farewell[r]) => InOrder(Tail(S), incomingMsgId'[p], farewell[r])
        /\ \A n \in Int : Reaches(S, Len(S), incomingMsgId[p], n)
                             => Reaches(Tail(S), Len(Tail(S)), incomingMsgId'[p], n)
    <2> HIDE DEF S
    <2>1. S[1].type = "Regular" => S[1].id <= incomingMsgId'[p]
      BY <1>3
    <2>2. QED
      BY <1>2, <1>3, <2>1, InOrderTail
  <1>6. ASSUME NEW k \in Socket, NEW n \in Int
        PROVE  /\ InOrder(Stream(k, p), incomingMsgId[p], n) => InOrder(Stream(k, p), incomingMsgId'[p], n)
               /\ Reaches(Stream(k, p), Len(Stream(k, p)), incomingMsgId[p], n)
                     => Reaches(Stream(k, p), Len(Stream(k, p)), incomingMsgId'[p], n)
    <2> DEFINE T == Stream(k, p)
    <2>1. T \in Seq(Message) /\ Len(T) \in Nat
      BY StreamType, LenProperties
    <2> HIDE DEF T
    <2>2. ASSUME NEW i \in Nat, NEW m \in Int, Reaches(T, i, incomingMsgId[p], m)
          PROVE  Reaches(T, i, incomingMsgId'[p], m)
      BY <1>2, <2>2 DEF Reaches
    <2>3. ASSUME InOrder(T, incomingMsgId[p], n)
          PROVE  InOrder(T, incomingMsgId'[p], n)
      <3> SUFFICES ASSUME NEW i \in 1 .. Len(T)
                   PROVE  /\ T[i].type = "Regular" => Reaches(T, i - 1, incomingMsgId'[p], T[i].id - 1)
                          /\ T[i].type = "Disconnect" => Reaches(T, i - 1, incomingMsgId'[p], n)
        BY DEF InOrder
      <3>1. i - 1 \in Nat /\ T[i].id - 1 \in Int
        BY <2>1, IdAt
      <3>2. QED
        BY <2>2, <2>3, <3>1 DEF InOrder
    <2>4. QED
      BY <2>1, <2>2, <2>3 DEF T
  <1> HIDE DEF S, r
  <1>7. Ordered(p)'
    <2> SUFFICES ASSUME NEW k \in AheadOf(p)
                 PROVE  InOrder(Stream(k, p)', incomingMsgId'[p], farewell[r])
      BY <1>1 DEF Ordered, r
    <2>1. k \in Socket /\ InOrder(Stream(k, p), incomingMsgId[p], farewell[r])
      BY DEF OrderInv, Ordered, AheadOf, r
    <2>2. CASE k = j
      BY <1>4, <1>5, <2>1, <2>2 DEF S
    <2>3. CASE k # j
      BY <1>2, <1>4, <1>6, <2>1, <2>3
    <2>4. QED
      BY <2>2, <2>3
  <1>8. Complete(p)'
    <2> PICK l \in Socket : l = socket[r] /\ l = socket'[r]
      BY <1>1 DEF TypeOK
    <2> SUFFICES ASSUME Streaming(p)'
                 PROVE  Reaches(Stream(l, p)', Len(Stream(l, p)'), incomingMsgId'[p], outgoingMsgId[r])
      BY <1>1 DEF Complete, r
    <2>1. Streaming(p)
      BY <1>1 DEF Streaming, AheadOf, r
    <2>2. Reaches(Stream(l, p), Len(Stream(l, p)), incomingMsgId[p], outgoingMsgId[r])
      BY <2>1 DEF OrderInv, Complete, r
    <2>3. CASE l = j
      BY <1>2, <1>4, <1>5, <2>2, <2>3 DEF S
    <2>4. CASE l # j
      BY <1>2, <1>4, <1>6, <2>1, <2>2, <2>4
    <2>5. QED
      BY <2>3, <2>4
  <1>9. QED
    BY <1>7, <1>8

\* For a reader whose streams lose their tails.
LEMMA ShortenedInOrder ==
    ASSUME TypeOK, OrderInv, NEW p \in End, NEW r \in End, p = Other(r),
           AheadOf(r)' \subseteq AheadOf(r),
           \A k \in AheadOf(r)' :
              /\ Stream(k, r)' \in Seq(Message)
              /\ Len(Stream(k, r)') <= Len(Stream(k, r))
              /\ \A i \in 1 .. Len(Stream(k, r)') : Stream(k, r)'[i] = Stream(k, r)[i],
           Streaming(r)' => /\ Streaming(r) /\ socket'[p] = socket[p]
                            /\ Stream(socket[p], r)' = Stream(socket[p], r),
           UNCHANGED <<incomingMsgId, outgoingMsgId, farewell>>
    PROVE  Ordered(r)' /\ Complete(r)'
  <1>1. Ordered(r)'
    <2> SUFFICES ASSUME NEW k \in AheadOf(r)'
                 PROVE  InOrder(Stream(k, r)', incomingMsgId[r], farewell[p])
      BY DEF Ordered
    <2>1. k \in AheadOf(r) /\ k \in Socket
      BY DEF AheadOf
    <2>2. Stream(k, r) \in Seq(Message)
      BY <2>1, StreamType
    <2>3. InOrder(Stream(k, r), incomingMsgId[r], farewell[p])
      BY <2>1 DEF OrderInv, Ordered
    <2>4. PICK T \in Seq(Message) : T = Stream(k, r)'
      OBVIOUS
    <2>5. Len(T) <= Len(Stream(k, r)) /\ \A i \in 1 .. Len(T) : T[i] = Stream(k, r)[i]
      BY <2>4
    <2>6. InOrder(T, incomingMsgId[r], farewell[p])
      BY <2>2, <2>3, <2>5, InOrderPrefix
    <2>7. QED
      BY <2>4, <2>6
  <1>2. Complete(r)'
    <2> SUFFICES ASSUME Streaming(r)'
                 PROVE  Reaches(Stream(socket[p], r)', Len(Stream(socket[p], r)'),
                                incomingMsgId[r], outgoingMsgId[p])
      BY DEF Complete
    <2>1. QED
      BY DEF OrderInv, Complete
  <1>3. QED
    BY <1>1, <1>2

-----------------------------------------------------------------------------
(* The other parts of the invariant.                                        *)

LEMMA WriteLeavesNothing ==
    ASSUME TypeOK, SocketsInTurn, NothingLeftBehind, NEW p \in End, NEW ms \in Seq(Message),
           Write(p, ms) \/ (ReadAndWrite(p, ms) /\ wire[socket[p]][p] # << >>),
           used' = used, \A q \in End : paused[q] => paused'[q]
    PROVE  NothingLeftBehind'
  <1> PICK j \in Socket : j = socket[p]
    BY DEF TypeOK
  <1> DEFINE r == Other(p)
  <1>1. r \in End /\ r # p /\ Other(r) = p /\ \A q \in End : q = p \/ q = r
    BY OtherEnd
  <1>2. held' = [held EXCEPT ![p] = held[p] \o Kept(p, ms)]
    BY DEF Write, ReadAndWrite
  <1>3. ASSUME NEW q \in End
        PROVE  paused'[q] \/ held'[q] = << >>
    <2>1. CASE paused[q]
      BY <2>1
    <2>2. CASE ~paused[q]
      <3>1. held[q] = << >>
        BY <2>2 DEF NothingLeftBehind
      <3>2. CASE q = p
        <4>1. Kept(p, ms) = << >>
          BY <2>2, <3>2 DEF Kept
        <4>2. << >> \in Seq(Message)
          BY EmptySeq
        <4>3. held[p] \o Kept(p, ms) = << >>
          BY <3>1, <3>2, <4>1, <4>2, EmptyConcat
        <4>4. QED
          BY <1>2, <3>2, <4>3 DEF TypeOK
      <3>3. CASE q # p
        BY <1>2, <3>1, <3>3 DEF TypeOK
      <3>4. QED
        BY <3>2, <3>3
    <2>3. QED
      BY <2>1, <2>2
  <1>4. ASSUME NEW q \in End, NEW k \in Socket, k \notin used[q]
        PROVE  wire'[k][Other(q)] = << >>
    <2>1. wire[k][Other(q)] = << >>
      BY <1>4 DEF NothingLeftBehind
    <2>2. CASE k # j
      <3>1. wire'[k] = wire[k]
        BY <2>2 DEF Write, ReadAndWrite, TypeOK
      <3>2. QED
        BY <2>1, <3>1
    <2>3. CASE k = j
      <3>1. q = r /\ Other(q) = p
        BY <1>1, <1>4, <2>3 DEF SocketsInTurn
      <3>2. Write(p, ms)
        BY <2>1, <2>3, <3>1
      <3>3. wire' = [wire EXCEPT ![j] = [wire[j] EXCEPT ![r] = wire[j][r] \o Written(p, ms)]]
        BY <3>2 DEF Write
      <3>4. wire'[j][p] = wire[j][p]
        BY <1>1, <3>3 DEF TypeOK
      <3>5. QED
        BY <2>1, <2>3, <3>1, <3>4
    <2>4. QED
      BY <2>2, <2>3
  <1>5. QED
    BY <1>3, <1>4 DEF NothingLeftBehind

LEMMA MayDisconnectType ==
    /\ \A q \in End : MayDisconnect[q] \subseteq Message
    /\ \A q \in End, m \in Message : m.type # "Disconnect" => m \in MayDisconnect[q]
  BY DEF MayDisconnect

LEMMA OneMessage ==
    ASSUME NEW M, NEW m \in M
    PROVE  <<m>> \in Seq(M) /\ Len(<<m>>) = 1 /\ <<m>>[1] = m
  OBVIOUS

LEMMA PlainSignal ==
    ASSUME NEW type \in MessageType \ {"Regular", "Disconnect"}, NEW p \in End,
           NEW ack \in Nat, NEW base, NEW last
    PROVE  /\ <<Signal(type, ack)>> \in Seq(MayDisconnect[p])
           /\ <<Signal(type, ack)>> \in Seq(Message)
           /\ InOrder(<<Signal(type, ack)>>, base, last)
  <1> DEFINE m == Signal(type, ack)
  <1>1. m \in Message /\ m.type = type /\ type # "Regular" /\ type # "Disconnect"
    BY DEF Signal, Message, MessageType
  <1> HIDE DEF m
  <1>2. m \in MayDisconnect[p]
    BY <1>1, MayDisconnectType
  <1>3. <<m>> \in Seq(MayDisconnect[p]) /\ <<m>> \in Seq(Message)
    BY <1>1, <1>2, OneMessage
  <1>4. Len(<<m>>) = 1 /\ <<m>>[1] = m
    OBVIOUS
  <1>5. InOrder(<<m>>, base, last)
    BY <1>1, <1>4 DEF InOrder
  <1>6. QED
    BY <1>3, <1>5 DEF m

LEMMA NothingInOrder ==
    /\ \A q \in End : << >> \in Seq(MayDisconnect[q])
    /\ << >> \in Seq(Message)
    /\ \A base, last : InOrder(<< >>, base, last)
  BY EmptySeq DEF InOrder

\* A replay is in order and brings all that was sent.
LEMMA ReplayInOrder ==
    ASSUME IInv, OrderInv, NEW p \in End, NEW r \in End, r = Other(p)
    PROVE  /\ Replay(p) \in Seq(MayDisconnect[p]) /\ Replay(p) \in Seq(Message)
           /\ InOrder(Replay(p), incomingMsgId[r], farewell[p])
           /\ Reaches(Replay(p), Len(Replay(p)), incomingMsgId[r], outgoingMsgId[p])
  <1> DEFINE Q == Replay(p)
             a == outgoingAckId[p]
             b == incomingMsgId[r]
  <1>1. /\ Q \in Seq(Message) /\ Len(Q) \in Nat /\ a \in Nat /\ b \in Nat /\ a <= b
        /\ a + Len(Q) = outgoingMsgId[p]
        /\ \A i \in 1 .. Len(Q) : Q[i].id = a + i /\ Q[i].type = "Regular"
    <2>1. Q \in Seq(Message) /\ a \in Nat /\ b \in Nat
      BY DEF IInv, TypeOK, Replay
    <2>2. Len(Q) \in Nat
      BY <2>1, LenProperties
    <2>3. a <= b
      BY DEF IInv, AckedWasDelivered
    <2>4. a + Len(Q) = outgoingMsgId[p] /\ \A i \in 1 .. Len(Q) : Q[i].id = a + i
      BY DEF IInv, QueueMatchesCounters, Replay
    <2>5. \A i \in 1 .. Len(Q) : Q[i].type = "Regular"
      BY DEF OrderInv, QueueIsRegular, Replay
    <2>6. QED
      BY <2>1, <2>2, <2>3, <2>4, <2>5
  <1> HIDE DEF Q, a, b
  <1>2. Q \in Seq(MayDisconnect[p])
    <2>1. \A i \in 1 .. Len(Q) : Q[i] \in MayDisconnect[p]
      <3> SUFFICES ASSUME NEW i \in 1 .. Len(Q)
                   PROVE  Q[i] \in MayDisconnect[p]
        OBVIOUS
      <3>1. Q[i] \in Message
        BY <1>1, ElementOfSeq
      <3>2. Q[i].type # "Disconnect"
        BY <1>1
      <3>3. QED
        BY <3>1, <3>2, MayDisconnectType
    <2>2. Q = [i \in 1 .. Len(Q) |-> Q[i]]
      BY <1>1
    <2>3. QED
      BY <1>1, <2>1, <2>2
  <1>3. InOrder(Q, b, farewell[p])
    <2> SUFFICES ASSUME NEW i \in 1 .. Len(Q)
                 PROVE  Reaches(Q, i - 1, b, Q[i].id - 1) /\ Q[i].type = "Regular"
      BY DEF InOrder
    <2>1. Q[i].id = a + i /\ Q[i].type = "Regular"
      BY <1>1
    <2>2. CASE i = 1
      BY <1>1, <2>1, <2>2 DEF Reaches
    <2>3. CASE i # 1
      <3>1. i - 1 \in 1 .. i - 1 /\ i - 1 \in 1 .. Len(Q)
        BY <1>1, <2>3
      <3>2. Q[i - 1].id = a + (i - 1) /\ Q[i - 1].type = "Regular"
        BY <1>1, <3>1
      <3>3. Q[i].id - 1 <= Q[i - 1].id
        BY <1>1, <2>1, <3>2
      <3>4. QED
        BY <2>1, <3>1, <3>2, <3>3 DEF Reaches
    <2>4. QED
      BY <2>2, <2>3
  <1>4. Reaches(Q, Len(Q), b, outgoingMsgId[p])
    <2>1. CASE Len(Q) = 0
      BY <1>1, <2>1 DEF Reaches
    <2>2. CASE Len(Q) # 0
      <3>1. Len(Q) \in 1 .. Len(Q)
        BY <1>1, <2>2
      <3>2. Q[Len(Q)].id = outgoingMsgId[p] /\ Q[Len(Q)].type = "Regular"
            /\ outgoingMsgId[p] <= Q[Len(Q)].id
        BY <1>1, <3>1
      <3>3. QED
        BY <3>1, <3>2 DEF Reaches
    <2>3. QED
      BY <2>1, <2>2
  <1>5. QED
    BY <1>1, <1>2, <1>3, <1>4 DEF Q, b

\* Taking an acknowledgement leaves nothing else in the queue.
LEMMA AcceptAckIsRegular ==
    ASSUME IInv, QueueIsRegular, NEW p \in End, NEW ack \in Nat,
           ack <= incomingMsgId[Other(p)], AcceptAck(p, ack)
    PROVE  QueueIsRegular'
  <1>1. outgoingAckId[p] \in Nat /\ outgoingUnackMsg \in [End -> Seq(Message)]
    BY DEF IInv, TypeOK
  <1>2. CASE ~(ack > outgoingAckId[p])
    BY <1>2 DEF AcceptAck, QueueIsRegular
  <1>3. CASE ack > outgoingAckId[p]
    <2> DEFINE queue == outgoingUnackMsg[p]
               a == outgoingAckId[p]
               n == ack - a
               rest == SubSeq(queue, n + 1, Len(queue))
    <2>1. queue \in Seq(Message) /\ Len(queue) \in Nat /\ a + Len(queue) = outgoingMsgId[p]
          /\ \A i \in 1 .. Len(queue) : queue[i].id = a + i /\ queue[i].type = "Regular"
      <3>1. queue \in Seq(Message)
        BY <1>1
      <3>2. Len(queue) \in Nat
        BY <3>1, LenProperties
      <3>3. QED
        BY <3>1, <3>2 DEF IInv, QueueMatchesCounters, QueueIsRegular
    <2>2. incomingMsgId[Other(p)] <= outgoingMsgId[p] /\ incomingMsgId[Other(p)] \in Nat
          /\ outgoingMsgId[p] \in Nat
      BY OtherEnd DEF IInv, TypeOK, AckedWasDelivered
    <2>3. n \in 0 .. Len(queue) /\ a + n = ack
      BY <1>1, <1>3, <2>1, <2>2
    <2>4. DropAcked(queue, ack) = rest
      <3> HIDE DEF queue, a, n
      <3>1. DropAcked(queue, a + n) = SubSeq(queue, n + 1, Len(queue))
        BY <1>1, <2>1, <2>3, DropAckedIsSuffix DEF a
      <3>2. QED
        BY <2>3, <3>1
    <2>5. outgoingUnackMsg' = [outgoingUnackMsg EXCEPT ![p] = rest]
      BY <1>3, <2>4 DEF AcceptAck
    <2> HIDE DEF queue, a, n
    <2>6. /\ Len(rest) = Len(queue) - n
          /\ \A i \in 1 .. Len(rest) : rest[i] = queue[n + i]
      BY <2>1, <2>3
    <2>7. \A i \in 1 .. Len(rest) : rest[i].type = "Regular"
      <3> SUFFICES ASSUME NEW i \in 1 .. Len(rest)
                   PROVE  rest[i].type = "Regular"
        OBVIOUS
      <3>1. n + i \in 1 .. Len(queue) /\ rest[i] = queue[n + i]
        BY <2>1, <2>3, <2>6
      <3>2. QED
        BY <2>1, <3>1
    <2> HIDE DEF rest
    <2>8. QED
      BY <1>1, <2>5, <2>7 DEF QueueIsRegular
  <1>4. QED
    BY <1>2, <1>3

-----------------------------------------------------------------------------
(* The steps.                                                               *)

LEMMA InitOrder == Init => OrderInv
  <1> SUFFICES ASSUME Init PROVE OrderInv
    OBVIOUS
  <1>1. /\ << >> \in Seq(Message) /\ << >> \o << >> = << >> /\ Len(<< >>) = 0
        /\ \A q \in End : << >> \in Seq(MayDisconnect[q])
    BY NothingInOrder, EmptyConcat, EmptySeq
  <1>2. 1 \in Socket
    BY BoundsAssumption DEF Socket
  <1>3. SocketsInTurn /\ NothingLeftBehind /\ QueueIsRegular /\ FarewellHeard
    <2>1. "client" \in End /\ \A p \in End : Other(p) \in End
      BY OtherEnd DEF End
    <2>2. QED
      BY <1>1, <2>1 DEF Init, SocketsInTurn, NothingLeftBehind, QueueIsRegular, FarewellHeard
  <1>4. Carries(held, wire, MayDisconnect)
    BY <1>1, OtherEnd DEF Init, Carries
  <1>5. ASSUME NEW p \in End
        PROVE  Ordered(p) /\ Complete(p)
    <2>1. \A k \in Socket : Stream(k, p) = << >>
      BY <1>1, OtherEnd DEF Init, Stream
    <2>2. Ordered(p)
      BY <2>1, NothingInOrder DEF Ordered, AheadOf
    <2>3. outgoingMsgId[Other(p)] <= incomingMsgId[p]
      BY OtherEnd DEF Init
    <2>4. Complete(p)
      BY <2>3 DEF Complete, Reaches
    <2>5. QED
      BY <2>2, <2>4
  <1>6. QED
    BY <1>3, <1>4, <1>5 DEF OrderInv

\* A step that neither reads nor writes nor moves an end.
LEMMA StayKeepsOrder ==
    ASSUME IInv, OrderInv, QueueIsRegular',
           UNCHANGED <<held, wire, socket, used, open, incomingMsgId, farewell,
                       didSendDisconnect, didDispose, isReconnecting>>,
           \A q \in End : /\ paused[q] => paused'[q]
                          /\ disposed[q] => disposed'[q]
                          /\ \/ outgoingMsgId'[q] = outgoingMsgId[q]
                             \/ isReconnecting[q]
    PROVE  OrderInv'
  <1>1. SocketsInTurn' /\ NothingLeftBehind' /\ FarewellHeard'
    BY DEF OrderInv, SocketsInTurn, NothingLeftBehind, FarewellHeard
  <1>2. Carries(held, wire, MayDisconnect)'
    BY DEF OrderInv, Carries, MayDisconnect
  <1>3. ASSUME NEW p \in End
        PROVE  Ordered(p)' /\ Complete(p)'
    <2>1. Untouched(p)
      BY DEF Untouched, Stream
    <2>2. Streaming(p)' => Streaming(p) /\ outgoingMsgId'[Other(p)] = outgoingMsgId[Other(p)]
      BY OtherEnd DEF Streaming, AheadOf
    <2>3. QED
      BY <2>1, <2>2, UntouchedInOrder DEF IInv
  <1>4. QED
    BY <1>1, <1>2, <1>3 DEF OrderInv

\* A step that writes what is in order by itself.
LEMMA WriteKeepsOrder ==
    ASSUME IInv, OrderInv, NEW p \in End, NEW r \in End, r = Other(p),
           NEW ms \in Seq(MayDisconnect[p]), Write(p, ms),
           UNCHANGED <<socket, used, open, disposed, paused, outgoingMsgId, outgoingUnackMsg,
                       incomingMsgId, didSendDisconnect, farewell, didDispose>>,
           InOrder(ms, incomingMsgId[r], farewell[p]),
           isReconnecting'[r] = isReconnecting[r],
           \/ isReconnecting'[p] = isReconnecting[p]
           \/ Reaches(ms, Len(ms), incomingMsgId[r], outgoingMsgId[p])
    PROVE  OrderInv'
  <1>1. ms \in Seq(Message)
    BY MayDisconnectType, SeqMonotonic
  <1>2. SocketsInTurn' /\ QueueIsRegular' /\ FarewellHeard'
    BY DEF OrderInv, SocketsInTurn, QueueIsRegular, FarewellHeard
  <1>3. NothingLeftBehind'
    BY <1>1, WriteLeavesNothing DEF IInv, OrderInv
  <1>4. Carries(held, wire, MayDisconnect)'
    <2>1. Carries(held', wire', MayDisconnect)
      BY WriteCarries, MayDisconnectType DEF IInv, TypeOK, OrderInv
    <2>2. MayDisconnect' = MayDisconnect
      BY DEF MayDisconnect
    <2>3. QED
      BY <2>1, <2>2 DEF Carries
  <1>5. Untouched(p) /\ Extended(p, ms)
    BY <1>1, WriteStreams DEF IInv, OrderInv
  <1>6. Ordered(r)' /\ Complete(r)'
    BY <1>1, <1>5, ExtendedInOrder DEF IInv
  <1>7. Ordered(p)' /\ Complete(p)'
    <2>1. Streaming(p)' => Streaming(p) /\ outgoingMsgId'[Other(p)] = outgoingMsgId[Other(p)]
      BY DEF Streaming, AheadOf
    <2>2. QED
      BY <1>5, <2>1, UntouchedInOrder DEF IInv
  <1>8. QED
    BY <1>2, <1>3, <1>4, <1>6, <1>7, OtherEnd DEF OrderInv

\* What arrives was written before its peer's farewell, or it is the farewell.
LEMMA ArrivingInOrder ==
    ASSUME IInv, OrderInv, NEW p \in End, NEW type \in MessageType, Arriving(p, type)
    PROVE  /\ wire[socket[p]][p] # << >>
           /\ type = "Regular" => Incoming(p).id <= incomingMsgId[p] + 1
           /\ type = "Disconnect" => /\ didSendDisconnect[Other(p)]
                                     /\ farewell[Other(p)] <= incomingMsgId[p]
  <1> PICK j \in Socket : j = socket[p]
    BY DEF IInv, TypeOK
  <1> DEFINE r == Other(p)
             w == wire[j][p]
             S == Stream(j, p)
  <1>1. w \in Seq(Message) /\ held[r] \in Seq(Message) /\ S \in Seq(Message) /\ w # << >>
        /\ Incoming(p) = Head(w) /\ Incoming(p).type = type
    BY StreamType DEF IInv, Arriving, Incoming
  <1>2. S # << >> /\ S[1] = Incoming(p)
    <2> HIDE DEF w, r
    <2>1. w \o held[r] # << >> /\ (w \o held[r])[1] = Head(w)
      BY <1>1, TailOfStream
    <2>2. w[1] = Head(w)
      BY <1>1
    <2>3. QED
      BY <1>1, <2>1, <2>2 DEF Stream, w, r
  <1>3. InOrder(S, incomingMsgId[p], farewell[r])
    BY DEF OrderInv, Ordered, AheadOf
  <1>4. /\ type = "Regular" => Reaches(S, 0, incomingMsgId[p], Incoming(p).id - 1)
        /\ type = "Disconnect" => Reaches(S, 0, incomingMsgId[p], farewell[r])
    <2> HIDE DEF S
    <2>1. Len(S) \in Nat /\ Len(S) # 0
      BY <1>1, <1>2, EmptySeq
    <2>2. 1 \in 1 .. Len(S) /\ 1 - 1 = 0
      BY <2>1
    <2>3. QED
      BY <1>1, <1>2, <1>3, <2>2 DEF InOrder
  <1>5. \A n : Reaches(S, 0, incomingMsgId[p], n) => n <= incomingMsgId[p]
    BY DEF Reaches
  <1>6. incomingMsgId[p] \in Nat /\ Incoming(p).id \in Nat
    BY <1>1, IncomingIsKnown DEF IInv, TypeOK, Message
  <1>7. type = "Disconnect" => didSendDisconnect[r]
    <2>1. w \in Seq(MayDisconnect[r])
      BY OtherEnd DEF OrderInv, Carries
    <2>2. Incoming(p) \in MayDisconnect[r]
      BY <1>1, <2>1, HeadTailProperties
    <2>3. QED
      BY <1>1, <2>2, OtherEnd DEF MayDisconnect
  <1>8. type = "Regular" => Incoming(p).id <= incomingMsgId[p] + 1
    <2>1. type = "Regular" => Incoming(p).id - 1 <= incomingMsgId[p]
      BY <1>4, <1>5
    <2>2. QED
      BY <1>6, <2>1
  <1>9. type = "Disconnect" => farewell[r] <= incomingMsgId[p]
    BY <1>4, <1>5
  <1>10. QED
    BY <1>1, <1>7, <1>8, <1>9

\* A step that reads.
LEMMA ReadKeepsOrder ==
    ASSUME IInv, IInv', OrderInv, NEW p \in End, NEW r \in End, r = Other(p),
           NEW type \in MessageType, Arriving(p, type),
           NEW ms \in Seq(MayDisconnect[p]), ReadAndWrite(p, ms),
           UNCHANGED <<socket, used, open, disposed, isReconnecting, outgoingMsgId,
                       didSendDisconnect, farewell>>,
           QueueIsRegular',
           \A q \in End : paused[q] => paused'[q],
           incomingMsgId'[r] = incomingMsgId[r], incomingMsgId[p] <= incomingMsgId'[p],
           type = "Regular" => Incoming(p).id <= incomingMsgId'[p],
           \/ didDispose' = didDispose
           \/ type = "Disconnect" /\ didDispose' = [didDispose EXCEPT ![p] = TRUE],
           InOrder(ms, incomingMsgId[r], farewell[p])
    PROVE  OrderInv'
  <1>1. ms \in Seq(Message)
    BY MayDisconnectType, SeqMonotonic
  <1>2. wire[socket[p]][p] # << >> /\ Incoming(p).type = type
    BY DEF Arriving, Incoming
  <1>3. SocketsInTurn'
    BY DEF OrderInv, SocketsInTurn
  <1>4. NothingLeftBehind'
    BY <1>1, <1>2, WriteLeavesNothing DEF IInv, OrderInv
  <1>5. Carries(held, wire, MayDisconnect)'
    <2>1. Carries(held', wire', MayDisconnect)
      BY <1>2, ReadAndWriteCarries, MayDisconnectType DEF IInv, TypeOK, OrderInv
    <2>2. MayDisconnect' = MayDisconnect
      BY DEF MayDisconnect
    <2>3. QED
      BY <2>1, <2>2 DEF Carries
  <1>6. FarewellHeard'
    <2> SUFFICES ASSUME NEW q \in End, didDispose'[q]
                 PROVE  didSendDisconnect[Other(q)] /\ farewell[Other(q)] <= incomingMsgId'[q]
      BY DEF FarewellHeard
    <2>1. incomingMsgId[q] <= incomingMsgId'[q] /\ incomingMsgId[q] \in Int
          /\ incomingMsgId'[q] \in Int /\ farewell[Other(q)] \in Int
      <3>1. incomingMsgId[q] \in Int /\ incomingMsgId'[q] \in Int /\ farewell[Other(q)] \in Int
        BY OtherEnd DEF IInv, TypeOK
      <3>2. q = p \/ incomingMsgId'[q] = incomingMsgId[q]
        BY OtherEnd
      <3>3. QED
        BY <3>1, <3>2
    <2>2. didSendDisconnect[Other(q)] /\ farewell[Other(q)] <= incomingMsgId[q]
      <3>1. CASE didDispose[q]
        BY <3>1 DEF OrderInv, FarewellHeard
      <3>2. CASE ~didDispose[q]
        <4>1. q = p /\ type = "Disconnect"
          BY <3>2 DEF IInv, TypeOK
        <4>2. QED
          BY <4>1, ArrivingInOrder
      <3>3. QED
        BY <3>1, <3>2
    <2>3. QED
      BY <2>1, <2>2
  <1>7. Taken(p) /\ Extended(p, ms)
    BY <1>1, <1>2, ReadStreams DEF IInv, OrderInv
  <1>8. Ordered(r)' /\ Complete(r)'
    BY <1>1, <1>7, ExtendedInOrder DEF IInv
  <1>9. Ordered(p)' /\ Complete(p)'
    BY <1>2, <1>7, TakenInOrder DEF IInv
  <1>10. QED
    BY <1>3, <1>4, <1>5, <1>6, <1>8, <1>9, OtherEnd DEF OrderInv

\* One more message that what is on its way already reaches.
LEMMA OneMoreInOrder ==
    ASSUME TypeOK, OrderInv, NEW p \in End, NEW r \in End, r = Other(p),
           NEW m \in Message, Extended(p, <<m>>),
           UNCHANGED <<socket, used, open, disposed, isReconnecting>>,
           incomingMsgId'[r] = incomingMsgId[r], farewell'[p] \in Int,
           \A k \in AheadOf(r) : InOrder(Stream(k, r), incomingMsgId[r], farewell'[p]),
           LET S == Stream(socket[p], r)
           IN open[socket[p]] /\ ~disposed[p] /\ socket[p] \in AheadOf(r) =>
                 /\ m.type = "Regular" => Reaches(S, Len(S), incomingMsgId[r], m.id - 1)
                 /\ m.type = "Disconnect" => Reaches(S, Len(S), incomingMsgId[r], farewell'[p]),
           \/ outgoingMsgId'[p] = outgoingMsgId[p]
           \/ m.type = "Regular" /\ outgoingMsgId'[p] = m.id
    PROVE  Ordered(r)' /\ Complete(r)'
  <1> PICK j \in Socket : j = socket[p] /\ j = socket'[p]
    BY DEF TypeOK
  <1> DEFINE S == Stream(j, r)
             M == <<m>>
             b == incomingMsgId[r]
  <1>1. AheadOf(r)' = AheadOf(r) /\ Other(r) = p
    BY OtherEnd DEF AheadOf
  <1>2. /\ b \in Int /\ outgoingMsgId[p] \in Int /\ m.id \in Nat
        /\ S \in Seq(Message) /\ Len(S) \in Nat
        /\ M \in Seq(Message) /\ Len(M) = 1 /\ M[1] = m
    <2>1. S \in Seq(Message)
      BY StreamType
    <2>2. Len(S) \in Nat
      <3> HIDE DEF S
      <3>1. QED
        BY <2>1, LenProperties
    <2>3. b \in Int /\ outgoingMsgId[p] \in Int
      BY DEF TypeOK
    <2>4. m.id \in Nat
      BY DEF Message
    <2>5. M \in Seq(Message) /\ Len(M) = 1 /\ M[1] = m
      BY OneMessage
    <2>6. QED
      BY <2>1, <2>2, <2>3, <2>4, <2>5
  <1>3. ASSUME open[j], ~disposed[p]
        PROVE  Stream(j, r)' = S \o M
    BY <1>3 DEF Extended
  <1>4. \A k \in Socket : ~(k = j /\ open[j] /\ ~disposed[p]) => Stream(k, r)' = Stream(k, r)
    BY DEF Extended
  <1> HIDE DEF S, M, b
  <1>5. ASSUME open[j], ~disposed[p], j \in AheadOf(r)
        PROVE  InOrder(S \o M, b, farewell'[p])
    <2>1. InOrder(S, b, farewell'[p])
      BY <1>5 DEF S, b
    <2>2. \A i \in 1 .. Len(M) :
             /\ M[i].type = "Regular" => Reaches(S, Len(S), b, M[i].id - 1)
             /\ M[i].type = "Disconnect" => Reaches(S, Len(S), b, farewell'[p])
      BY <1>2, <1>5 DEF S, b
    <2>3. QED
      BY <1>2, <2>1, <2>2, InOrderConcat
  <1>6. Ordered(r)'
    <2> SUFFICES ASSUME NEW k \in AheadOf(r)
                 PROVE  InOrder(Stream(k, r)', b, farewell'[p])
      BY <1>1 DEF Ordered, b
    <2>1. k \in Socket /\ InOrder(Stream(k, r), b, farewell'[p])
      BY DEF AheadOf, b
    <2>2. CASE k = j /\ open[j] /\ ~disposed[p]
      BY <1>3, <1>5, <2>2
    <2>3. CASE ~(k = j /\ open[j] /\ ~disposed[p])
      BY <1>4, <2>1, <2>3
    <2>4. QED
      BY <2>2, <2>3
  <1>7. Complete(r)'
    <2> SUFFICES ASSUME Streaming(r)'
                 PROVE  Reaches(Stream(j, r)', Len(Stream(j, r)'), b, outgoingMsgId'[p])
      BY <1>1 DEF Complete, b
    <2>1. ~disposed[p] /\ open[j] /\ j \in AheadOf(r) /\ Streaming(r)
      BY <1>1 DEF Streaming
    <2>2. Len(S \o M) = Len(S) + 1 /\ Len(S) + 1 \in Nat /\ Len(S) <= Len(S) + 1
          /\ Len(S) \in 0 .. Len(S) /\ 1 \in 0 .. Len(M)
      <3>1. Len(S \o M) = Len(S) + Len(M)
        BY <1>2, ConcatAt
      <3>2. QED
        BY <1>2, <3>1
    <2>3. CASE outgoingMsgId'[p] = outgoingMsgId[p]
      <3>1. Reaches(S, Len(S), b, outgoingMsgId[p])
        BY <1>1, <2>1 DEF OrderInv, Complete, S, b
      <3>2. Reaches(S \o M, Len(S) + 1, b, outgoingMsgId[p])
        BY <1>2, <2>2, <3>1, ReachesInFront
      <3>3. QED
        BY <1>3, <2>1, <2>2, <2>3, <3>2
    <2>4. CASE m.type = "Regular" /\ outgoingMsgId'[p] = m.id
      <3>1. Reaches(M, 1, b, m.id)
        BY <1>2, <2>4 DEF Reaches
      <3>2. Reaches(S \o M, Len(S) + 1, b, m.id)
        BY <1>2, <2>2, <3>1, ReachesBehind
      <3>3. QED
        BY <1>3, <2>1, <2>2, <2>4, <3>2
    <2>5. QED
      BY <2>3, <2>4
  <1>8. QED
    BY <1>6, <1>7

\* A message of p follows the last one it sent.
LEMMA SendKeepsOrder ==
    ASSUME IInv, OrderInv, NEW p \in End, NEW d \in Payload, Send(p, d)
    PROVE  OrderInv'
  <1> USE DEF outgoingVars, incomingVars, timerVars, ownerVars, eventVars, writerVars,
              closingVars
  <1> DEFINE r == Other(p)
             m == Regular(outgoingMsgId[p] + 1, incomingMsgId[p], d)
             queue == outgoingUnackMsg[p]
  <1>1. r \in End /\ r # p /\ Other(r) = p /\ \A q \in End : q = p \/ q = r
    BY OtherEnd
  <1>2. /\ outgoingMsgId[p] \in Nat /\ m \in Message /\ m.type = "Regular"
        /\ m.id = outgoingMsgId[p] + 1 /\ m.id - 1 = outgoingMsgId[p]
    <2>1. outgoingMsgId[p] \in Nat /\ incomingMsgId[p] \in Nat
      BY DEF IInv, TypeOK
    <2>2. m \in Message /\ m.type = "Regular" /\ m.id = outgoingMsgId[p] + 1
      BY <2>1 DEF Regular, Message, MessageType
    <2>3. QED
      BY <2>1, <2>2
  <1>3. /\ outgoingMsgId' = [outgoingMsgId EXCEPT ![p] = m.id]
        /\ outgoingUnackMsg' = [outgoingUnackMsg EXCEPT ![p] = Append(queue, m)]
        /\ UNCHANGED <<socket, used, open, disposed, paused, isReconnecting, incomingMsgId,
                       didSendDisconnect, farewell, didDispose>>
        /\ IF isReconnecting[p] THEN UNCHANGED <<held, wire>> ELSE Write(p, <<m>>)
    BY <1>2 DEF Send
  <1> HIDE DEF m
  <1>4. QueueIsRegular'
    <2>1. queue \in Seq(Message) /\ outgoingUnackMsg \in [End -> Seq(Message)]
      BY DEF IInv, TypeOK
    <2>2. Len(Append(queue, m)) = Len(queue) + 1 /\ Len(queue) \in Nat
          /\ Append(queue, m)[Len(queue) + 1] = m
          /\ \A i \in 1 .. Len(queue) : Append(queue, m)[i] = queue[i]
      BY <1>2, <2>1, AppendProperties, LenProperties
    <2>3. \A i \in 1 .. Len(queue) : queue[i].type = "Regular"
      BY DEF OrderInv, QueueIsRegular
    <2>4. \A i \in 1 .. Len(Append(queue, m)) : Append(queue, m)[i].type = "Regular"
      BY <1>2, <2>2, <2>3
    <2>5. QED
      BY <1>3, <2>1, <2>4 DEF OrderInv, QueueIsRegular
  <1>5. CASE isReconnecting[p]
    BY <1>1, <1>3, <1>4, <1>5, StayKeepsOrder DEF IInv, TypeOK
  <1>6. CASE ~isReconnecting[p]
    <2>1. Write(p, <<m>>) /\ <<m>> \in Seq(Message) /\ <<m>> \in Seq(MayDisconnect[p])
      <3>1. m \in MayDisconnect[p]
        BY <1>2, MayDisconnectType
      <3>2. QED
        BY <1>2, <1>3, <1>6, <3>1, OneMessage
    <2>2. Untouched(p) /\ Extended(p, <<m>>)
      BY <1>3, <2>1, WriteStreams DEF IInv, OrderInv
    <2>3. outgoingMsgId'[r] = outgoingMsgId[r] /\ outgoingMsgId'[p] = m.id
      BY <1>1, <1>3 DEF IInv, TypeOK
    <2>4. Ordered(p)' /\ Complete(p)'
      <3>1. Streaming(p)' => Streaming(p) /\ outgoingMsgId'[Other(p)] = outgoingMsgId[Other(p)]
        BY <1>3, <2>3 DEF Streaming, AheadOf
      <3>2. QED
        BY <1>3, <2>2, <3>1, UntouchedInOrder DEF IInv
    <2>5. Ordered(r)' /\ Complete(r)'
      <3>1. \A k \in AheadOf(r) : InOrder(Stream(k, r), incomingMsgId[r], farewell'[p])
        BY <1>1, <1>3 DEF OrderInv, Ordered
      <3>2. open[socket[p]] /\ ~disposed[p] /\ socket[p] \in AheadOf(r) =>
               Reaches(Stream(socket[p], r), Len(Stream(socket[p], r)), incomingMsgId[r], m.id - 1)
        BY <1>1, <1>2, <1>6 DEF OrderInv, Complete, Streaming
      <3>3. incomingMsgId'[r] = incomingMsgId[r] /\ farewell'[p] \in Int
        BY <1>3 DEF IInv, TypeOK
      <3>4. TypeOK /\ m.type # "Disconnect"
        BY <1>2 DEF IInv
      <3> HIDE DEF r
      <3>5. QED
        BY <1>1, <1>2, <1>3, <2>2, <2>3, <3>1, <3>2, <3>3, <3>4, OneMoreInOrder DEF r
    <2>6. NothingLeftBehind'
      BY <1>3, <2>1, WriteLeavesNothing DEF IInv, OrderInv
    <2>7. Carries(held, wire, MayDisconnect)'
      <3>1. Carries(held', wire', MayDisconnect)
        BY <2>1, WriteCarries, MayDisconnectType DEF IInv, TypeOK, OrderInv
      <3>2. MayDisconnect' = MayDisconnect
        BY <1>3 DEF MayDisconnect
      <3>3. QED
        BY <3>1, <3>2 DEF Carries
    <2>8. SocketsInTurn' /\ FarewellHeard'
      BY <1>3 DEF OrderInv, SocketsInTurn, FarewellHeard
    <2>9. QED
      BY <1>1, <1>4, <2>4, <2>5, <2>6, <2>7, <2>8 DEF OrderInv
  <1>7. QED
    BY <1>5, <1>6

\* A Disconnect follows all that p sent, if it is not reconnecting.
LEMMA SendDisconnectKeepsOrder ==
    ASSUME IInv, OrderInv, NEW p \in End, SendDisconnect(p)
    PROVE  OrderInv'
  <1> USE DEF outgoingVars, incomingVars, timerVars, ownerVars, eventVars, writerVars,
              closingVars
  <1> DEFINE r == Other(p)
             m == Signal("Disconnect", 0)
  <1>1. r \in End /\ r # p /\ Other(r) = p /\ \A q \in End : q = p \/ q = r
    BY OtherEnd
  <1>2. m \in Message /\ m.type = "Disconnect"
    BY DEF Signal, Message, MessageType
  <1>3. /\ ~didSendDisconnect[p]
        /\ didSendDisconnect' = [didSendDisconnect EXCEPT ![p] = TRUE]
        /\ Write(p, <<m>>)
        /\ farewell' = [farewell EXCEPT ![p] = IF isReconnecting[p] THEN 0 ELSE outgoingMsgId[p]]
        /\ UNCHANGED <<socket, used, open, disposed, paused, isReconnecting, incomingMsgId,
                       outgoingMsgId, outgoingUnackMsg, didDispose>>
    BY DEF SendDisconnect
  <1> HIDE DEF m
  <1>4. /\ farewell'[p] = IF isReconnecting[p] THEN 0 ELSE outgoingMsgId[p]
        /\ farewell'[r] = farewell[r]
        /\ didSendDisconnect'[p] = TRUE
        /\ didSendDisconnect'[r] = didSendDisconnect[r]
        /\ farewell'[p] \in Int /\ incomingMsgId[r] \in Nat
    <2>1. outgoingMsgId[p] \in Nat /\ incomingMsgId[r] \in Nat
      BY <1>1 DEF IInv, TypeOK
    <2>2. QED
      BY <1>1, <1>3, <2>1 DEF IInv, TypeOK
  <1>5. SocketsInTurn' /\ QueueIsRegular'
    BY <1>3 DEF OrderInv, SocketsInTurn, QueueIsRegular
  <1>6. NothingLeftBehind'
    <2>1. <<m>> \in Seq(Message)
      BY <1>2, OneMessage
    <2>2. QED
      BY <1>3, <2>1, WriteLeavesNothing DEF IInv, OrderInv
  <1>7. Carries(held, wire, MayDisconnect)'
    <2>1. \A q \in End : /\ MayDisconnect[q] \subseteq MayDisconnect'[q]
                         /\ MayDisconnect'[q] \subseteq Message
      BY <1>1, <1>4 DEF MayDisconnect
    <2>2. Carries(held, wire, MayDisconnect')
      BY <2>1, CarriesMore DEF OrderInv
    <2>3. <<m>> \in Seq(MayDisconnect'[p])
      <3>1. m \in MayDisconnect'[p]
        BY <1>2, <1>4 DEF MayDisconnect
      <3>2. QED
        BY <3>1, OneMessage
    <2>4. Carries(held', wire', MayDisconnect')
      BY <1>3, <2>1, <2>2, <2>3, WriteCarries DEF IInv, TypeOK
    <2>5. QED
      BY <2>4 DEF Carries
  <1>8. FarewellHeard'
    <2>1. ~didDispose[r]
      BY <1>1, <1>3 DEF OrderInv, FarewellHeard
    <2>2. QED
      BY <1>1, <1>3, <1>4, <2>1 DEF OrderInv, FarewellHeard
  <1>9. Untouched(p) /\ Extended(p, <<m>>) /\ <<m>> \in Seq(Message)
    <2>1. <<m>> \in Seq(Message)
      BY <1>2, OneMessage
    <2>2. QED
      BY <1>3, <2>1, WriteStreams DEF IInv, OrderInv
  <1>10. Ordered(p)' /\ Complete(p)'
    <2>1. Streaming(p)' => Streaming(p) /\ outgoingMsgId'[Other(p)] = outgoingMsgId[Other(p)]
      BY <1>3 DEF Streaming, AheadOf
    <2>2. QED
      BY <1>3, <1>4, <1>9, <2>1, UntouchedInOrder DEF IInv
  <1>11. Ordered(r)' /\ Complete(r)'
    <2>1. ASSUME NEW k \in AheadOf(r)
          PROVE  InOrder(Stream(k, r), incomingMsgId[r], farewell'[p])
      <3> DEFINE S == Stream(k, r)
      <3>1. k \in Socket /\ InOrder(S, incomingMsgId[r], farewell[p])
        BY <1>1 DEF OrderInv, Ordered, AheadOf
      <3>2. /\ wire[k][r] \in Seq(MayDisconnect[p]) /\ held[p] \in Seq(MayDisconnect[p])
        BY <1>1, <3>1 DEF OrderInv, Carries
      <3>3. wire[k][r] \o held[p] \in Seq(MayDisconnect[p])
        BY <3>2, ConcatProperties
      <3>4. S \in Seq(MayDisconnect[p])
        BY <1>1, <3>2, <3>3 DEF Stream
      <3> HIDE DEF S
      <3>5. \A i \in 1 .. Len(S) : S[i].type # "Disconnect"
        <4> SUFFICES ASSUME NEW i \in 1 .. Len(S)
                     PROVE  S[i].type # "Disconnect"
          OBVIOUS
        <4>1. S[i] \in MayDisconnect[p]
          BY <3>4, ElementOfSeq
        <4>2. QED
          BY <1>3, <4>1 DEF MayDisconnect
      <3>6. InOrder(S, incomingMsgId[r], farewell'[p])
        BY <3>1, <3>5 DEF InOrder
      <3>7. QED
        BY <3>6 DEF S
    <2>2. ASSUME open[socket[p]], ~disposed[p], socket[p] \in AheadOf(r)
          PROVE  Reaches(Stream(socket[p], r), Len(Stream(socket[p], r)), incomingMsgId[r],
                         farewell'[p])
      <3>1. CASE isReconnecting[p]
        BY <1>4, <3>1 DEF Reaches
      <3>2. CASE ~isReconnecting[p]
        BY <1>1, <1>4, <2>2, <3>2 DEF OrderInv, Complete, Streaming
      <3>3. QED
        BY <3>1, <3>2
    <2>3. TypeOK /\ m.type # "Regular" /\ incomingMsgId'[r] = incomingMsgId[r]
          /\ outgoingMsgId'[p] = outgoingMsgId[p]
      BY <1>2, <1>3 DEF IInv
    <2> HIDE DEF r
    <2>4. QED
      BY <1>1, <1>2, <1>3, <1>4, <1>9, <2>1, <2>2, <2>3, OneMoreInOrder DEF r
  <1>12. QED
    BY <1>1, <1>5, <1>6, <1>7, <1>8, <1>10, <1>11 DEF OrderInv

\* The other writes: a signal, or a replay behind an acknowledgement.
LEMMA SignalsKeepOrder ==
    ASSUME IInv, OrderInv, NEW p \in End, NEW type \in MessageType,
           SendSignal(p, type) \/ AckTimerFires(p) \/ SendKeepAlive(p)
    PROVE  OrderInv'
  <1> USE DEF outgoingVars, incomingVars, timerVars, ownerVars, eventVars, writerVars,
              closingVars
  <1>1. Other(p) \in End /\ incomingMsgId[p] \in Nat /\ 0 \in Nat
    BY OtherEnd DEF IInv, TypeOK
  <1>2. ASSUME NEW t \in {"Control", "Pause", "Resume", "Ack", "KeepAlive"}, NEW ack \in Nat,
               Write(p, <<Signal(t, ack)>>),
               UNCHANGED <<socket, used, open, disposed, paused, outgoingMsgId, outgoingUnackMsg,
                           incomingMsgId, didSendDisconnect, farewell, didDispose,
                           isReconnecting>>
        PROVE  OrderInv'
    <2> DEFINE ms == <<Signal(t, ack)>>
    <2>1. t \in MessageType \ {"Regular", "Disconnect"}
      BY DEF MessageType
    <2>2. /\ ms \in Seq(MayDisconnect[p])
          /\ InOrder(ms, incomingMsgId[Other(p)], farewell[p])
      BY <2>1, PlainSignal
    <2>3. Write(p, ms)
      BY <1>2
    <2> HIDE DEF ms
    <2>4. QED
      BY <1>1, <1>2, <2>2, <2>3, WriteKeepsOrder
  <1>3. CASE SendSignal(p, type)
    BY <1>1, <1>2, <1>3 DEF SendSignal
  <1>4. CASE AckTimerFires(p)
    <2>1. CASE incomingMsgId[p] <= incomingAckId[p]
      <3>1. QueueIsRegular'
        BY <1>4 DEF AckTimerFires, OrderInv, QueueIsRegular
      <3>2. QED
        BY <1>4, <2>1, <3>1, StayKeepsOrder DEF AckTimerFires
    <2>2. CASE ~(incomingMsgId[p] <= incomingAckId[p])
      BY <1>1, <1>2, <1>4, <2>2 DEF AckTimerFires
    <2>3. QED
      BY <2>1, <2>2
  <1>5. CASE SendKeepAlive(p)
    BY <1>1, <1>2, <1>5 DEF SendKeepAlive
  <1>6. QED
    BY <1>3, <1>4, <1>5

LEMMA EndKeepsOrder ==
    ASSUME IInv, OrderInv, NEW p \in End, EndAcceptReconnection(p)
    PROVE  OrderInv'
  <1> USE DEF outgoingVars, incomingVars, timerVars, ownerVars, eventVars, writerVars,
              closingVars
  <1> DEFINE r == Other(p)
             ack == <<Signal("Ack", incomingMsgId[p])>>
             Q == Replay(p)
             b == incomingMsgId[r]
  <1>1. r \in End /\ r # p /\ incomingMsgId[p] \in Nat /\ b \in Int /\ farewell[p] \in Int
        /\ outgoingMsgId[p] \in Int
    BY OtherEnd DEF IInv, TypeOK
  <1>2. ack \in Seq(MayDisconnect[p]) /\ ack \in Seq(Message) /\ InOrder(ack, b, farewell[p])
    <2>1. "Ack" \in MessageType \ {"Regular", "Disconnect"}
      BY DEF MessageType
    <2>2. QED
      BY <1>1, <2>1, PlainSignal
  <1>3. /\ Q \in Seq(MayDisconnect[p]) /\ Q \in Seq(Message)
        /\ InOrder(Q, b, farewell[p]) /\ Reaches(Q, Len(Q), b, outgoingMsgId[p])
    BY <1>1, ReplayInOrder
  <1>4. /\ Write(p, ack \o Q)
        /\ UNCHANGED <<socket, used, open, disposed, paused, outgoingMsgId, outgoingUnackMsg,
                       incomingMsgId, didSendDisconnect, farewell, didDispose>>
        /\ isReconnecting'[r] = isReconnecting[r]
    BY <1>1 DEF EndAcceptReconnection, IInv, TypeOK
  <1> HIDE DEF ack, Q, b
  <1>5. ack \o Q \in Seq(MayDisconnect[p])
    BY <1>2, <1>3, ConcatProperties
  <1>6. InOrder(ack \o Q, b, farewell[p])
    <2>1. \A i \in 1 .. Len(Q) :
             /\ Q[i].type = "Regular" => Reaches(Q, i - 1, b, Q[i].id - 1)
             /\ Q[i].type = "Disconnect" => Reaches(Q, i - 1, b, farewell[p])
      BY <1>3 DEF InOrder
    <2>2. QED
      BY <1>1, <1>2, <1>3, <2>1, InOrderConcat
  <1>7. Reaches(ack \o Q, Len(ack \o Q), b, outgoingMsgId[p])
    <2>1. Len(Q) \in 0 .. Len(Q) /\ Len(ack \o Q) = Len(ack) + Len(Q)
      BY <1>2, <1>3, ConcatAt
    <2>2. QED
      BY <1>1, <1>2, <1>3, <2>1, ReachesBehind
  <1>8. QED
    BY <1>1, <1>4, <1>5, <1>6, <1>7, WriteKeepsOrder DEF b

\* The reads, of which there is none beyond a gap.
LEMMA ReadsKeepOrder ==
    ASSUME IInv, IInv', OrderInv, NEW p \in End, Receive(p), ~ReceiveResume(p)
    PROVE  OrderInv'
  <1> USE DEF outgoingVars, incomingVars, timerVars, ownerVars, eventVars, writerVars,
              closingVars
  <1> DEFINE r == Other(p)
             ack == Incoming(p).ack
  <1>1. r \in End /\ r # p
    BY OtherEnd
  <1>2. << >> \in Seq(MayDisconnect[p]) /\ InOrder(<< >>, incomingMsgId[r], farewell[p])
    BY NothingInOrder
  <1>3. /\ incomingMsgId[p] \in Nat /\ incomingMsgId[p] <= incomingMsgId[p]
        /\ incomingMsgId[p] <= incomingMsgId[p] + 1
        /\ \A t \in {"Regular", "Ack", "KeepAlive", "Control", "Disconnect", "ReplayRequest",
                     "Pause"} : t \in MessageType
    <2>1. incomingMsgId[p] \in Nat
      BY DEF IInv, TypeOK
    <2>2. QED
      BY <2>1 DEF MessageType
  <1>4. ASSUME NEW t \in MessageType, Arriving(p, t)
        PROVE  ack \in Nat /\ ack <= incomingMsgId[r]
    BY <1>4, IncomingIsKnown
  <1>5. QueueIsRegular
    BY DEF OrderInv
  <1>6. CASE ReceiveInOrder(p)
    <2>1. Arriving(p, "Regular") /\ Incoming(p).id = incomingMsgId[p] + 1 /\ AcceptAck(p, ack)
          /\ incomingMsgId' = [incomingMsgId EXCEPT ![p] = incomingMsgId[p] + 1]
          /\ ReadAndWrite(p, << >>)
      BY <1>6 DEF ReceiveInOrder
    <2>2. QueueIsRegular'
      BY <1>3, <1>4, <1>5, <2>1, AcceptAckIsRegular
    <2>3. /\ incomingMsgId'[r] = incomingMsgId[r] /\ incomingMsgId[p] <= incomingMsgId'[p]
          /\ Incoming(p).id <= incomingMsgId'[p]
      BY <1>1, <1>3, <2>1 DEF IInv, TypeOK
    <2>4. UNCHANGED <<socket, used, open, disposed, isReconnecting, outgoingMsgId,
                      didSendDisconnect, farewell, paused, didDispose>>
      BY <1>6 DEF ReceiveInOrder
    <2> HIDE DEF r
    <2>5. QED
      BY <1>1, <1>2, <1>3, <2>1, <2>2, <2>3, <2>4, ReadKeepsOrder DEF r
  <1>7. CASE ReceiveDuplicate(p)
    <2>1. Arriving(p, "Regular") /\ Incoming(p).id <= incomingMsgId[p] /\ AcceptAck(p, ack)
          /\ ReadAndWrite(p, << >>)
      BY <1>7 DEF ReceiveDuplicate
    <2>2. QueueIsRegular'
      BY <1>3, <1>4, <1>5, <2>1, AcceptAckIsRegular
    <2>3. UNCHANGED <<socket, used, open, disposed, isReconnecting, outgoingMsgId,
                      didSendDisconnect, farewell, paused, didDispose, incomingMsgId>>
      BY <1>7 DEF ReceiveDuplicate
    <2> HIDE DEF r
    <2>4. QED
      BY <1>1, <1>2, <1>3, <2>1, <2>2, <2>3, ReadKeepsOrder DEF r
  <1>8. ~ReceiveBeyondGap(p)
    <2> SUFFICES ASSUME ReceiveBeyondGap(p)
                 PROVE  FALSE
      OBVIOUS
    <2>1. Arriving(p, "Regular") /\ Incoming(p).id > incomingMsgId[p] + 1
      BY DEF ReceiveBeyondGap
    <2>2. Incoming(p).id <= incomingMsgId[p] + 1 /\ Incoming(p).id \in Nat
      BY <1>3, <2>1, ArrivingInOrder, IncomingIsKnown DEF Message
    <2>3. QED
      BY <1>3, <2>1, <2>2
  <1>9. CASE ReceiveSignal(p)
    <2>1. PICK t \in {"Ack", "KeepAlive", "Control"} : Arriving(p, t)
      BY <1>9 DEF ReceiveSignal
    <2>2. AcceptAck(p, ack) /\ ReadAndWrite(p, << >>)
      BY <1>9 DEF ReceiveSignal
    <2>3. t \in MessageType /\ t # "Regular"
      BY <1>3
    <2>4. QueueIsRegular'
      BY <1>4, <1>5, <2>1, <2>2, <2>3, AcceptAckIsRegular
    <2>5. UNCHANGED <<socket, used, open, disposed, isReconnecting, outgoingMsgId,
                      didSendDisconnect, farewell, paused, didDispose, incomingMsgId>>
      BY <1>9 DEF ReceiveSignal
    <2> HIDE DEF r
    <2>6. QED
      BY <1>1, <1>2, <1>3, <2>1, <2>2, <2>3, <2>4, <2>5, ReadKeepsOrder DEF r
  <1>10. CASE ReceiveDisconnect(p)
    <2>1. Arriving(p, "Disconnect") /\ ReadAndWrite(p, << >>)
          /\ didDispose' = [didDispose EXCEPT ![p] = TRUE]
      BY <1>10 DEF ReceiveDisconnect
    <2>2. UNCHANGED <<socket, used, open, disposed, isReconnecting, outgoingMsgId,
                      outgoingUnackMsg, didSendDisconnect, farewell, paused, incomingMsgId>>
      BY <1>10 DEF ReceiveDisconnect
    <2>3. QueueIsRegular'
      BY <1>5, <2>2 DEF QueueIsRegular
    <2> HIDE DEF r
    <2>4. QED
      BY <1>1, <1>2, <1>3, <2>1, <2>2, <2>3, ReadKeepsOrder DEF r
  <1>11. CASE ReceiveReplayRequest(p)
    <2> DEFINE ms == Replay(p)
    <2>1. Arriving(p, "ReplayRequest") /\ ReadAndWrite(p, ms)
      BY <1>11 DEF ReceiveReplayRequest
    <2>2. UNCHANGED <<socket, used, open, disposed, isReconnecting, outgoingMsgId,
                      outgoingUnackMsg, didSendDisconnect, farewell, paused, incomingMsgId,
                      didDispose>>
      BY <1>11 DEF ReceiveReplayRequest
    <2>3. QueueIsRegular'
      BY <1>5, <2>2 DEF QueueIsRegular
    <2>4. ms \in Seq(MayDisconnect[p]) /\ InOrder(ms, incomingMsgId[r], farewell[p])
      BY <1>1, ReplayInOrder
    <2> HIDE DEF r, ms
    <2>5. QED
      BY <1>1, <1>3, <2>1, <2>2, <2>3, <2>4, ReadKeepsOrder DEF r
  <1>12. CASE ReceivePause(p)
    <2>1. Arriving(p, "Pause") /\ ReadAndWrite(p, << >>)
          /\ paused' = [paused EXCEPT ![p] = TRUE]
      BY <1>12 DEF ReceivePause
    <2>2. UNCHANGED <<socket, used, open, disposed, isReconnecting, outgoingMsgId,
                      outgoingUnackMsg, didSendDisconnect, farewell, didDispose, incomingMsgId>>
      BY <1>12 DEF ReceivePause
    <2>3. QueueIsRegular' /\ \A q \in End : paused[q] => paused'[q]
      BY <1>5, <2>1, <2>2 DEF QueueIsRegular, IInv, TypeOK
    <2> HIDE DEF r
    <2>4. QED
      BY <1>1, <1>2, <1>3, <2>1, <2>2, <2>3, ReadKeepsOrder DEF r
  <1>13. QED
    BY <1>6, <1>7, <1>8, <1>9, <1>10, <1>11, <1>12 DEF Receive

LEMMA ResumeKeepsOrder ==
    ASSUME IInv, IInv', OrderInv, NEW p \in End, ReceiveResume(p)
    PROVE  OrderInv'
  <1> USE DEF outgoingVars, incomingVars, timerVars, ownerVars, eventVars, writerVars,
              closingVars
  <1> DEFINE r == Other(p)
             j == socket[p]
  <1>1. r \in End /\ r # p /\ Other(r) = p /\ \A q \in End : q = p \/ q = r
    BY OtherEnd
  <1>2. /\ Arriving(p, "Resume") /\ wire[j][p] # << >> /\ Incoming(p).type = "Resume"
        /\ paused' = [paused EXCEPT ![p] = FALSE]
        /\ held' = [held EXCEPT ![p] = << >>]
        /\ wire' = [wire EXCEPT ![j] = [q \in End |->
                       IF q = p THEN Tail(wire[j][p])
                                ELSE wire[j][q] \o IF open[j] THEN held[p] ELSE << >>]]
        /\ UNCHANGED <<socket, used, open, disposed, isReconnecting, outgoingMsgId, incomingMsgId,
                       outgoingUnackMsg, didSendDisconnect, farewell, didDispose>>
    BY DEF ReceiveResume, Arriving, Incoming
  <1>3. SocketsInTurn' /\ QueueIsRegular' /\ FarewellHeard'
    BY <1>2 DEF OrderInv, SocketsInTurn, QueueIsRegular, FarewellHeard
  <1>4. NothingLeftBehind'
    <2>1. ASSUME NEW q \in End
          PROVE  paused'[q] \/ held'[q] = << >>
      BY <1>2 DEF OrderInv, NothingLeftBehind, IInv, TypeOK
    <2>2. ASSUME NEW q \in End, NEW k \in Socket, k \notin used[q]
          PROVE  wire'[k][Other(q)] = << >>
      <3>1. wire[k][Other(q)] = << >>
        BY <2>2 DEF OrderInv, NothingLeftBehind
      <3>2. k # j
        BY <1>1, <1>2, <2>2, <3>1 DEF OrderInv, SocketsInTurn
      <3>3. wire'[k] = wire[k]
        BY <1>2, <3>2 DEF IInv, TypeOK
      <3>4. QED
        BY <3>1, <3>3
    <2>3. QED
      BY <1>2, <2>1, <2>2 DEF NothingLeftBehind
  <1>5. Carries(held, wire, MayDisconnect)'
    <2>1. Carries(held', wire', MayDisconnect)
      BY ResumeCarries, MayDisconnectType DEF IInv, TypeOK, OrderInv
    <2>2. MayDisconnect' = MayDisconnect
      BY <1>2 DEF MayDisconnect
    <2>3. QED
      BY <2>1, <2>2 DEF Carries
  <1>6. Taken(p) /\ Untouched(r)
    BY ResumeStreams DEF IInv
  <1>7. Ordered(p)' /\ Complete(p)'
    <2>1. incomingMsgId[p] <= incomingMsgId'[p] /\ Incoming(p).type # "Regular"
      BY <1>2 DEF IInv, TypeOK
    <2>2. QED
      BY <1>2, <1>6, <2>1, TakenInOrder DEF IInv
  <1>8. Ordered(r)' /\ Complete(r)'
    <2>1. Streaming(r)' => Streaming(r) /\ outgoingMsgId'[Other(r)] = outgoingMsgId[Other(r)]
      BY <1>2 DEF Streaming, AheadOf
    <2>2. QED
      BY <1>1, <1>2, <1>6, <2>1, UntouchedInOrder DEF IInv
  <1>9. QED
    BY <1>1, <1>3, <1>4, <1>5, <1>7, <1>8 DEF OrderInv

\* A stream is the wire and what is behind it.
LEMMA WireLeadsStream ==
    ASSUME TypeOK, NEW p \in End, NEW k \in Socket
    PROVE  /\ wire[k][p] \in Seq(Message) /\ Len(wire[k][p]) \in Nat
           /\ Len(wire[k][p]) <= Len(Stream(k, p))
           /\ \A i \in 1 .. Len(wire[k][p]) : wire[k][p][i] = Stream(k, p)[i]
  <1> DEFINE w == wire[k][p]
             h == held[Other(p)]
  <1>1. w \in Seq(Message) /\ h \in Seq(Message)
    BY StreamType
  <1> HIDE DEF w, h
  <1>2. Len(w) \in Nat /\ Len(h) \in Nat /\ Len(w \o h) = Len(w) + Len(h)
        /\ \A i \in 1 .. Len(w) : (w \o h)[i] = w[i]
    BY <1>1, ConcatAt
  <1>3. Stream(k, p) = w \/ Stream(k, p) = w \o h
    BY DEF Stream, w, h
  <1>4. Len(w) <= Len(Stream(k, p)) /\ \A i \in 1 .. Len(w) : w[i] = Stream(k, p)[i]
    <2>1. CASE Stream(k, p) = w
      BY <1>2, <2>1
    <2>2. CASE Stream(k, p) = w \o h
      BY <1>2, <2>2
    <2>3. QED
      BY <1>3, <2>1, <2>2
  <1>5. QED
    BY <1>1, <1>2, <1>4 DEF w

\* A socket that breaks keeps what is in flight, and may lose the tail of it.
LEMMA BreakKeepsOrder ==
    ASSUME IInv, OrderInv, NEW j \in Socket, Break(j)
    PROVE  OrderInv'
  <1> USE DEF outgoingVars, incomingVars, timerVars, ownerVars, eventVars, writerVars,
              closingVars
  <1>1. /\ open' = [open EXCEPT ![j] = FALSE]
        /\ UNCHANGED <<socket, used, disposed, isReconnecting, outgoingMsgId, incomingMsgId,
                       outgoingUnackMsg, didSendDisconnect, farewell, didDispose, paused,
                       held, wire>>
    BY DEF Break
  <1>2. SocketsInTurn' /\ QueueIsRegular' /\ FarewellHeard' /\ NothingLeftBehind'
        /\ Carries(held, wire, MayDisconnect)'
    BY <1>1 DEF OrderInv, SocketsInTurn, QueueIsRegular, FarewellHeard, NothingLeftBehind,
                Carries, MayDisconnect
  <1>3. ASSUME NEW r \in End
        PROVE  Ordered(r)' /\ Complete(r)'
    <2> DEFINE p == Other(r)
    <2>1. p \in End /\ TypeOK /\ AheadOf(r)' = AheadOf(r)
      BY <1>1, OtherEnd DEF IInv, AheadOf
    <2>2. ASSUME NEW k \in Socket
          PROVE  /\ Stream(k, r)' \in Seq(Message)
                 /\ Len(Stream(k, r)') <= Len(Stream(k, r))
                 /\ \A i \in 1 .. Len(Stream(k, r)') : Stream(k, r)'[i] = Stream(k, r)[i]
                 /\ open'[k] => Stream(k, r)' = Stream(k, r) /\ open[k]
      <3>1. open'[k] => k # j
        BY <1>1 DEF IInv, TypeOK
      <3>2. CASE k # j
        <4>1. Stream(k, r)' = Stream(k, r) /\ open'[k] = open[k]
          BY <1>1, <3>2 DEF Stream, IInv, TypeOK
        <4>2. Stream(k, r) \in Seq(Message) /\ Len(Stream(k, r)) \in Nat
          BY StreamType, LenProperties DEF IInv
        <4>3. QED
          BY <4>1, <4>2
      <3>3. CASE k = j
        <4>1. Stream(k, r)' = wire[k][r]
          BY <1>1, <3>3 DEF Stream, IInv, TypeOK
        <4>2. QED
          BY <2>1, <3>1, <3>3, <4>1, WireLeadsStream
      <3>4. QED
        BY <3>2, <3>3
    <2>3. Streaming(r)' => /\ Streaming(r) /\ socket'[p] = socket[p]
                           /\ Stream(socket[p], r)' = Stream(socket[p], r)
      <3> SUFFICES ASSUME Streaming(r)'
                   PROVE  Streaming(r) /\ Stream(socket[p], r)' = Stream(socket[p], r)
        BY <1>1
      <3>1. PICK k \in Socket : k = socket[p] /\ k = socket'[p]
        BY <1>1, <2>1 DEF TypeOK
      <3>2. open'[k]
        BY <3>1 DEF Streaming
      <3>3. Stream(k, r)' = Stream(k, r) /\ open[k]
        BY <2>2, <3>2
      <3>4. QED
        BY <1>1, <2>1, <3>1, <3>3 DEF Streaming
    <2>4. /\ AheadOf(r)' \subseteq AheadOf(r)
          /\ \A k \in AheadOf(r)' :
                /\ Stream(k, r)' \in Seq(Message)
                /\ Len(Stream(k, r)') <= Len(Stream(k, r))
                /\ \A i \in 1 .. Len(Stream(k, r)') : Stream(k, r)'[i] = Stream(k, r)[i]
      BY <2>1, <2>2 DEF AheadOf
    <2> HIDE DEF p
    <2>5. QED
      BY <1>1, <2>1, <2>3, <2>4, ShortenedInOrder DEF p
  <1>4. QED
    BY <1>2, <1>3 DEF OrderInv

LEMMA LossKeepsOrder ==
    ASSUME IInv, IInv', OrderInv, NEW j \in Socket, NEW p \in End, LoseTail(j, p)
    PROVE  OrderInv'
  <1> USE DEF outgoingVars, incomingVars, timerVars, ownerVars, eventVars, writerVars,
              closingVars
  <1>1. /\ ~open[j]
        /\ UNCHANGED <<socket, used, disposed, isReconnecting, outgoingMsgId, incomingMsgId,
                       outgoingUnackMsg, didSendDisconnect, farewell, didDispose, paused,
                       held, open>>
    BY DEF LoseTail
  <1>2. PICK n \in 1 .. Len(wire[j][p]) :
                wire' = [wire EXCEPT ![j] = [wire[j] EXCEPT ![p] = SubSeq(wire[j][p], 1, n - 1)]]
    BY DEF LoseTail
  <1>3. /\ wire[j][p] \in Seq(Message) /\ Len(wire[j][p]) \in Nat
        /\ wire'[j][p] = SubSeq(wire[j][p], 1, n - 1)
        /\ \A k \in Socket, q \in End : k # j \/ q # p => wire'[k][q] = wire[k][q]
        /\ wire'[j][p] \in Seq(Message)
    <2>1. wire[j][p] \in Seq(Message) /\ wire'[j][p] \in Seq(Message)
      BY DEF IInv, TypeOK
    <2>2. Len(wire[j][p]) \in Nat
      BY <2>1, LenProperties
    <2>3. /\ wire'[j][p] = SubSeq(wire[j][p], 1, n - 1)
          /\ \A k \in Socket, q \in End : k # j \/ q # p => wire'[k][q] = wire[k][q]
      BY <1>2 DEF IInv, TypeOK
    <2>4. QED
      BY <2>1, <2>2, <2>3
  <1>4. Len(wire'[j][p]) = n - 1 /\ \A i \in 1 .. n - 1 : wire'[j][p][i] = wire[j][p][i]
    BY <1>3
  <1>5. SocketsInTurn' /\ QueueIsRegular' /\ FarewellHeard'
    BY <1>1 DEF OrderInv, SocketsInTurn, QueueIsRegular, FarewellHeard
  <1>6. NothingLeftBehind'
    <2>1. ASSUME NEW q \in End, NEW k \in Socket, k \notin used[q]
          PROVE  wire'[k][Other(q)] = << >>
      <3>1. wire[k][Other(q)] = << >> /\ Other(q) \in End
        BY <2>1, OtherEnd DEF OrderInv, NothingLeftBehind
      <3>2. k # j \/ Other(q) # p
        <4>1. wire[j][p] # << >>
          BY <1>3, EmptySeq
        <4>2. QED
          BY <3>1, <4>1
      <3>3. QED
        BY <1>3, <3>1, <3>2
    <2>2. QED
      BY <1>1, <2>1 DEF OrderInv, NothingLeftBehind
  <1>7. Carries(held, wire, MayDisconnect)'
    <2>1. Carries(held', wire', MayDisconnect)
      BY LossCarries, MayDisconnectType DEF IInv, OrderInv
    <2>2. MayDisconnect' = MayDisconnect
      BY <1>1 DEF MayDisconnect
    <2>3. QED
      BY <2>1, <2>2 DEF Carries
  <1>8. ASSUME NEW r \in End
        PROVE  Ordered(r)' /\ Complete(r)'
    <2> DEFINE o == Other(r)
    <2>1. o \in End /\ TypeOK /\ AheadOf(r)' = AheadOf(r)
      BY <1>1, OtherEnd DEF IInv, AheadOf
    <2>2. ASSUME NEW k \in Socket
          PROVE  /\ Stream(k, r)' \in Seq(Message)
                 /\ Len(Stream(k, r)') <= Len(Stream(k, r))
                 /\ \A i \in 1 .. Len(Stream(k, r)') : Stream(k, r)'[i] = Stream(k, r)[i]
                 /\ open[k] => Stream(k, r)' = Stream(k, r)
      <3>1. CASE k # j \/ r # p
        <4>1. Stream(k, r)' = Stream(k, r)
          BY <1>1, <1>3, <3>1 DEF Stream
        <4>2. Stream(k, r) \in Seq(Message) /\ Len(Stream(k, r)) \in Nat
          BY StreamType, LenProperties DEF IInv
        <4>3. QED
          BY <4>1, <4>2
      <3>2. CASE k = j /\ r = p
        <4>1. Stream(k, r)' = wire'[k][r] /\ Stream(k, r) = wire[k][r]
          BY <1>1, <3>2 DEF Stream
        <4>2. QED
          BY <1>1, <1>3, <1>4, <3>2, <4>1
      <3>3. QED
        BY <3>1, <3>2
    <2>3. Streaming(r)' => /\ Streaming(r) /\ socket'[o] = socket[o]
                           /\ Stream(socket[o], r)' = Stream(socket[o], r)
      <3> SUFFICES ASSUME Streaming(r)'
                   PROVE  Streaming(r) /\ Stream(socket[o], r)' = Stream(socket[o], r)
        BY <1>1
      <3>1. PICK k \in Socket : k = socket[o] /\ k = socket'[o]
        BY <1>1, <2>1 DEF TypeOK
      <3>2. open[k]
        BY <1>1, <3>1 DEF Streaming
      <3>3. Stream(k, r)' = Stream(k, r)
        BY <2>2, <3>2
      <3>4. QED
        BY <1>1, <2>1, <3>1, <3>3 DEF Streaming
    <2>4. /\ AheadOf(r)' \subseteq AheadOf(r)
          /\ \A k \in AheadOf(r)' :
                /\ Stream(k, r)' \in Seq(Message)
                /\ Len(Stream(k, r)') <= Len(Stream(k, r))
                /\ \A i \in 1 .. Len(Stream(k, r)') : Stream(k, r)'[i] = Stream(k, r)[i]
      BY <2>1, <2>2 DEF AheadOf
    <2> HIDE DEF o
    <2>5. QED
      BY <1>1, <2>1, <2>3, <2>4, ShortenedInOrder DEF o
  <1>9. QED
    BY <1>5, <1>6, <1>7, <1>8 DEF OrderInv

\* An end that moves leaves a closed socket behind and finds one whose other
\* direction nobody wrote to yet.
LEMMA BeginKeepsOrder ==
    ASSUME IInv, IInv', OrderInv, NEW p \in End, NEW k \in Socket,
           BeginAcceptReconnection(p, k)
    PROVE  OrderInv'
  <1> USE DEF outgoingVars, incomingVars, timerVars, ownerVars, eventVars, writerVars,
              closingVars
  <1> DEFINE r == Other(p)
  <1> PICK j \in Socket : j = socket[p]
    BY DEF IInv, TypeOK
  <1>1. r \in End /\ r # p /\ Other(r) = p /\ \A q \in End : q = p \/ q = r
    BY OtherEnd
  <1>2. /\ isReconnecting' = [isReconnecting EXCEPT ![p] = TRUE]
        /\ open' = [open EXCEPT ![j] = FALSE]
        /\ socket' = [socket EXCEPT ![p] = k]
        /\ used' = [used EXCEPT ![p] = used[p] \cup {k}]
        /\ paused' = [paused EXCEPT ![p] = FALSE]
        /\ held' = [held EXCEPT ![p] = << >>]
        /\ wire' = [wire EXCEPT ![j] = [wire[j] EXCEPT ![p] = << >>]]
        /\ UNCHANGED <<disposed, outgoingMsgId, incomingMsgId, outgoingUnackMsg,
                       didSendDisconnect, farewell, didDispose>>
    BY DEF BeginAcceptReconnection
  <1>3. k \notin used[p] /\ k # j
    <2>1. /\ socket \in [End -> Socket] /\ used \in [End -> SUBSET Socket]
          /\ socket[p] \in used[p] /\ \A i \in used["client"] : i <= socket["client"]
      BY DEF IInv, TypeOK, OrderInv, SocketsInTurn
    <2>2. CASE p = "client"
      <3>1. k = socket[p] + 1 /\ socket[p] \in Nat
        BY <2>1, <2>2 DEF BeginAcceptReconnection, MayMoveTo, Socket
      <3>2. ~(k <= socket["client"])
        BY <2>2, <3>1
      <3>3. QED
        BY <2>1, <2>2, <3>2
    <2>3. CASE p # "client"
      BY <2>1, <2>3 DEF BeginAcceptReconnection, MayMoveTo
    <2>4. QED
      BY <2>2, <2>3
  <1>4. /\ isReconnecting'[p] = TRUE /\ isReconnecting'[r] = isReconnecting[r]
        /\ socket'[p] = k /\ socket'[r] = socket[r]
        /\ used'[p] = used[p] \cup {k} /\ used'[r] = used[r]
        /\ held'[p] = << >> /\ held'[r] = held[r]
        /\ paused'[r] = paused[r]
        /\ \A i \in Socket : i # j => open'[i] = open[i] /\ wire'[i] = wire[i]
        /\ wire'[j][p] = << >> /\ wire'[j][r] = wire[j][r] /\ open'[j] = FALSE
    BY <1>1, <1>2 DEF IInv, TypeOK
  <1>5. SocketsInTurn'
    <2>1. socket \in [End -> Socket] /\ socket["client"] \in Nat /\ k \in Nat
      <3>1. socket \in [End -> Socket] /\ "client" \in End
        BY DEF IInv, TypeOK, End
      <3>2. QED
        BY <3>1 DEF Socket
    <2>2. p = "client" => k = socket["client"] + 1
      BY DEF BeginAcceptReconnection, MayMoveTo
    <2>3. \A i \in used'["client"] : i <= socket'["client"]
      <3>1. CASE p = "client"
        <4>1. \A i \in used["client"] : i \in Nat /\ i <= socket["client"]
          BY DEF OrderInv, SocketsInTurn, IInv, TypeOK, Socket, End
        <4>2. used'["client"] = used["client"] \cup {k} /\ socket'["client"] = k
          BY <1>4, <3>1
        <4>3. QED
          BY <2>1, <2>2, <3>1, <4>1, <4>2
      <3>2. CASE p # "client"
        <4>1. r = "client"
          BY <3>2 DEF Other
        <4>2. QED
          BY <1>4, <4>1 DEF OrderInv, SocketsInTurn
      <3>3. QED
        BY <3>1, <3>2
    <2>4. \A q \in End : socket'[q] \in used'[q]
      BY <1>1, <1>4 DEF OrderInv, SocketsInTurn
    <2>5. QED
      BY <2>3, <2>4 DEF SocketsInTurn
  <1>6. QueueIsRegular' /\ FarewellHeard'
    BY <1>2 DEF OrderInv, QueueIsRegular, FarewellHeard
  <1>7. NothingLeftBehind'
    <2>1. \A q \in End : paused'[q] \/ held'[q] = << >>
      BY <1>1, <1>4 DEF OrderInv, NothingLeftBehind
    <2>2. ASSUME NEW q \in End, NEW i \in Socket, i \notin used'[q]
          PROVE  wire'[i][Other(q)] = << >>
      <3>1. i \notin used[q]
        BY <1>1, <1>4, <2>2
      <3>2. wire[i][Other(q)] = << >>
        BY <3>1 DEF OrderInv, NothingLeftBehind
      <3>3. CASE i # j
        BY <1>4, <3>2, <3>3
      <3>4. CASE i = j
        BY <1>1, <1>4, <3>2, <3>4, OtherEnd
      <3>5. QED
        BY <3>3, <3>4
    <2>3. QED
      BY <2>1, <2>2 DEF NothingLeftBehind
  <1>8. Carries(held, wire, MayDisconnect)'
    <2>1. MayDisconnect' = MayDisconnect /\ \A q \in End : << >> \in Seq(MayDisconnect[q])
      BY <1>2, NothingInOrder DEF MayDisconnect
    <2>2. held' \in [End -> Seq(Message)] /\ wire' \in [Socket -> [End -> Seq(Message)]]
      BY DEF IInv, TypeOK
    <2>3. \A q \in End : held'[q] \in Seq(MayDisconnect[q])
      BY <1>1, <1>4, <2>1, ZenonT(40) DEF OrderInv, Carries
    <2>4. \A i \in Socket, q \in End : wire'[i][q] \in Seq(MayDisconnect[Other(q)])
      <3> SUFFICES ASSUME NEW i \in Socket, NEW q \in End
                   PROVE  wire'[i][q] \in Seq(MayDisconnect[Other(q)])
        OBVIOUS
      <3>1. wire'[i][q] = << >> \/ wire'[i][q] = wire[i][q]
        BY <1>1, <1>4
      <3>2. wire[i][q] \in Seq(MayDisconnect[Other(q)])
        BY DEF OrderInv, Carries
      <3>3. Other(q) \in End
        BY OtherEnd
      <3> HIDE DEF r
      <3>4. QED
        BY <2>1, <3>1, <3>2, <3>3
    <2>5. QED
      BY <2>1, <2>2, <2>3, <2>4 DEF Carries
  <1>9. Ordered(r)' /\ Complete(r)'
    <2>1. AheadOf(r)' = AheadOf(r) /\ ~Streaming(r)'
      BY <1>1, <1>4 DEF AheadOf, Streaming
    <2>2. ASSUME NEW i \in Socket
          PROVE  /\ Stream(i, r)' \in Seq(Message)
                 /\ Len(Stream(i, r)') <= Len(Stream(i, r))
                 /\ \A n \in 1 .. Len(Stream(i, r)') : Stream(i, r)'[n] = Stream(i, r)[n]
      <3>1. wire'[i][r] = wire[i][r] /\ wire[i][r] \in Seq(Message)
        <4>1. wire[i][r] \in Seq(Message)
          BY <1>1 DEF IInv, TypeOK
        <4>2. CASE i = j
          BY <1>4, <4>1, <4>2
        <4>3. CASE i # j
          BY <1>4, <4>1, <4>3
        <4>4. QED
          BY <4>2, <4>3
      <3>2. Stream(i, r)' = wire[i][r]
        <4>1. wire[i][r] \o << >> = wire[i][r]
          BY <3>1, EmptyConcat
        <4>2. QED
          BY <1>1, <1>4, <3>1, <4>1 DEF Stream
      <3>3. QED
        BY <1>1, <3>2, WireLeadsStream DEF IInv
    <2>3. /\ AheadOf(r)' \subseteq AheadOf(r)
          /\ \A i \in AheadOf(r)' :
                /\ Stream(i, r)' \in Seq(Message)
                /\ Len(Stream(i, r)') <= Len(Stream(i, r))
                /\ \A n \in 1 .. Len(Stream(i, r)') : Stream(i, r)'[n] = Stream(i, r)[n]
      BY <2>1, <2>2 DEF AheadOf
    <2> HIDE DEF r
    <2>4. QED
      BY <1>1, <1>2, <2>1, <2>3, ShortenedInOrder DEF IInv
  <1>10. Ordered(p)' /\ Complete(p)'
    <2>1. \A i \in AheadOf(p)' : i # j /\ i \in AheadOf(p) /\ i \in Socket
      BY <1>3, <1>4 DEF AheadOf, OrderInv, SocketsInTurn
    <2>2. \A i \in Socket : i # j => Stream(i, p)' = Stream(i, p)
      BY <1>1, <1>4 DEF Stream
    <2>3. \A i \in Socket : Stream(i, p) \in Seq(Message) /\ Len(Stream(i, p)) \in Nat
      BY StreamType, LenProperties DEF IInv
    <2>4. Streaming(p)' => /\ Streaming(p) /\ socket'[r] = socket[r]
                           /\ Stream(socket[r], p)' = Stream(socket[r], p)
      <3> SUFFICES ASSUME Streaming(p)'
                   PROVE  Streaming(p) /\ Stream(socket[r], p)' = Stream(socket[r], p)
        BY <1>4
      <3>1. PICK i \in Socket : i = socket[r] /\ i = socket'[r]
        BY <1>1, <1>4 DEF IInv, TypeOK
      <3>2. open'[i] /\ i \in AheadOf(p)' /\ ~disposed[r] /\ ~isReconnecting[r]
        BY <1>2, <1>4, <3>1 DEF Streaming
      <3>3. i # j /\ i \in AheadOf(p) /\ open[i]
        BY <1>4, <2>1, <3>2
      <3>4. QED
        BY <2>2, <3>1, <3>2, <3>3 DEF Streaming
    <2>5. /\ AheadOf(p)' \subseteq AheadOf(p)
          /\ \A i \in AheadOf(p)' :
                /\ Stream(i, p)' \in Seq(Message)
                /\ Len(Stream(i, p)') <= Len(Stream(i, p))
                /\ \A n \in 1 .. Len(Stream(i, p)') : Stream(i, p)'[n] = Stream(i, p)[n]
      BY <2>1, <2>2, <2>3
    <2> HIDE DEF r
    <2>6. QED
      BY <1>1, <1>2, <2>4, <2>5, ShortenedInOrder DEF IInv, r
  <1>11. QED
    BY <1>1, <1>5, <1>6, <1>7, <1>8, <1>9, <1>10 DEF OrderInv

LEMMA NextOrder ==
    ASSUME ~Lossy, IInv, IInv', OrderInv, [Next]_vars
    PROVE  OrderInv'
  <1> USE DEF outgoingVars, incomingVars, timerVars, ownerVars, eventVars, writerVars,
              closingVars
  <1>1. ASSUME NEW p \in End, Owner(p) PROVE OrderInv'
    <2>1. CASE \E d \in Payload : Send(p, d)
      BY <2>1, SendKeepsOrder
    <2>2. CASE \E type \in MessageType : SendSignal(p, type)
      BY <2>2, SignalsKeepOrder
    <2>3. CASE SendDisconnect(p)
      BY <2>3, SendDisconnectKeepsOrder
    <2>4. CASE PauseSocketWriting(p)
      <3>1. QueueIsRegular' /\ \A q \in End : paused[q] => paused'[q]
        BY <2>4 DEF PauseSocketWriting, OrderInv, QueueIsRegular, IInv, TypeOK
      <3>2. QED
        BY <2>4, <3>1, StayKeepsOrder DEF PauseSocketWriting
    <2>5. CASE Dispose(p)
      <3>1. QueueIsRegular' /\ \A q \in End : disposed[q] => disposed'[q]
        BY <2>5 DEF Dispose, OrderInv, QueueIsRegular, IInv, TypeOK
      <3>2. QED
        BY <2>5, <3>1, StayKeepsOrder DEF Dispose
    <2>6. QED
      BY <1>1, <2>1, <2>2, <2>3, <2>4, <2>5 DEF Owner
  <1>2. ASSUME NEW p \in End, Timer(p) PROVE OrderInv'
    <2>1. CASE AckTimerFires(p) \/ SendKeepAlive(p)
      BY <2>1, SignalsKeepOrder DEF MessageType
    <2>2. CASE RecvAckTimerFires(p) \/ ReplayWindowElapses(p)
      <3>1. QueueIsRegular'
        BY <2>2 DEF RecvAckTimerFires, ReplayWindowElapses, OrderInv, QueueIsRegular
      <3>2. QED
        BY <2>2, <3>1, StayKeepsOrder DEF RecvAckTimerFires, ReplayWindowElapses
    <2>3. QED
      BY <1>2, <2>1, <2>2 DEF Timer
  <1>3. ASSUME NEW p \in End, Receive(p) PROVE OrderInv'
    BY <1>3, ResumeKeepsOrder, ReadsKeepOrder
  <1>4. ASSUME NEW p \in End, Reconnection(p) PROVE OrderInv'
    BY <1>4, BeginKeepsOrder, EndKeepsOrder DEF Reconnection
  <1>5. CASE Network
    <2>1. CASE \E k \in Socket : Break(k)
      BY <2>1, BreakKeepsOrder
    <2>2. CASE \E k \in Socket, p \in End : LoseTail(k, p) \/ LoseMessage(k, p)
      BY <2>2, LossKeepsOrder DEF LoseMessage
    <2>3. CASE \E p \in End : SocketCloses(p)
      <3>1. QueueIsRegular'
        BY <2>3 DEF SocketCloses, OrderInv, QueueIsRegular
      <3>2. QED
        BY <2>3, <3>1, StayKeepsOrder DEF SocketCloses
    <2>4. QED
      BY <1>5, <2>1, <2>2, <2>3 DEF Network
  <1>6. CASE UNCHANGED vars
    <2>1. QueueIsRegular'
      BY <1>6 DEF vars, OrderInv, QueueIsRegular
    <2>2. QED
      BY <1>6, <2>1, StayKeepsOrder DEF vars
  <1>7. QED
    BY <1>1, <1>2, <1>3, <1>4, <1>5, <1>6 DEF Next

-----------------------------------------------------------------------------
(* The theorems.                                                            *)

LEMMA AlwaysInOrder ==
    ASSUME ~Lossy
    PROVE  Spec => []OrderInv
  <1>1. IInv /\ IInv' /\ OrderInv /\ [Next]_vars => OrderInv'
    BY NextOrder
  <1>2. QED
    BY <1>1, InitOrder, AlwaysIInv, PTL DEF Spec

\* On sockets that lose no more than a tail, the next message that a reader
\* takes is one it has seen or the one it expects, whatever breaks and however
\* often the ends reconnect: no replay is ever requested.
THEOREM NoGapSeen ==
    ASSUME ~Lossy
    PROVE  Spec => []NoGap
  <1>1. ASSUME IInv, OrderInv
        PROVE  NoGap
    <2> SUFFICES ASSUME NEW p \in End, ~disposed[p], wire[socket[p]][p] # << >>,
                        wire[socket[p]][p][1].type = "Regular"
                 PROVE  wire[socket[p]][p][1].id <= incomingMsgId[p] + 1
      BY DEF NoGap
    <2>1. wire[socket[p]][p][1] = Incoming(p)
      BY DEF Incoming
    <2>2. Arriving(p, "Regular") /\ "Regular" \in MessageType
      BY <2>1 DEF Arriving, Incoming, MessageType
    <2>3. QED
      BY <1>1, <2>1, <2>2, ArrivingInOrder
  <1>2. QED
    BY <1>1, AlwaysIInv, AlwaysInOrder, PTL

\* On such sockets, an end that hears a Disconnect was delivered all that its
\* peer had sent when it said so, unless the peer was reconnecting.
THEOREM DisconnectIsLast ==
    ASSUME ~Lossy
    PROVE  Spec => []DisconnectComesLast
  <1>1. ASSUME IInv, OrderInv
        PROVE  DisconnectComesLast
    <2> SUFFICES ASSUME NEW p \in End, didDispose[p]
                 PROVE  incomingMsgId[p] >= farewell[Other(p)]
      BY DEF DisconnectComesLast
    <2>1. farewell[Other(p)] <= incomingMsgId[p]
      BY <1>1 DEF OrderInv, FarewellHeard
    <2>2. farewell[Other(p)] \in Nat /\ incomingMsgId[p] \in Nat
      BY <1>1, OtherEnd DEF IInv, TypeOK
    <2>3. QED
      BY <2>1, <2>2
  <1>2. QED
    BY <1>1, AlwaysIInv, AlwaysInOrder, PTL

=============================================================================
