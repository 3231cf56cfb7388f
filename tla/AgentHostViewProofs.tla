------------------------- MODULE AgentHostViewProofs -------------------------
(****************************************************************************)
(* Proof that the user of AgentHostSync sees each action once (ShownOnce),  *)
(* for any channels, sessions, bounds and buffer, if the sessions are in    *)
(* memory (Evicted = {}).  ShownInv, the inductive invariant, says where    *)
(* the one place of an action is when it is not in view:                    *)
(*  - OnceIfKnown is the property itself, for a channel with a state;       *)
(*  - OnceIfAnswered says it of the state an answer on its way will give,   *)
(*    with the actions that wait for it (AnswersInOrder: none is newer);    *)
(*  - BehindRequest says why an answer does not contain what is pending     *)
(*    when it is taken: the host reads the request before the actions;      *)
(*  - NoneLeftOut says that a snapshot contains what is not pending;        *)
(*  - Unasked, GatedFresh and OwnChannels say that nothing is asked while   *)
(*    the client is not connected, that a request behind the gate has no    *)
(*    action before it, unless the channel is crossed, and that an action   *)
(*    stays with its channel.                                               *)
(* Stages says what a transport carries before, while and after the client  *)
(* is brought up to date on it: the answer to a reconnection comes first,   *)
(* once, and on the newest transport only.  Before it are lemmas on wires,  *)
(* after it one on each operation, or on each kind of change several make.  *)
(****************************************************************************)
EXTENDS AgentHostSyncProofs

(* A transport that was not opened yet is untouched, the last stays open.   *)
Ahead ==
    /\ open[MaxTransport]
    /\ \A t \in Transport :
          t > transport => /\ t \notin Elements(connections)
                           /\ up[t] = <<>> /\ down[t] = <<>>

(* No message is of one of the types.                                       *)
Quiet(msgs, types) == \A m \in Elements(msgs) : m.type \notin types

(* What brings the client up to date comes first on a transport, and not to *)
(* a client that is.                                                        *)
UpToDate == {"replay", "snapshot"}
Reconnected ==
    phase = "connected" =>
       /\ Quiet(up[transport], {"reconnect"})
       /\ Quiet(down[transport], UpToDate)
       /\ \A r \in restoring : r.transport # transport
Reconnecting ==
    phase = "reconnecting" =>
       /\ up[transport] # <<>> =>
             /\ Len(up[transport]) = 1
             /\ down[transport] = <<>>
             /\ transport \notin Elements(connections)
       /\ \A r \in restoring : r.transport = transport => down[transport] = <<>>
       /\ down[transport] # <<>> => Quiet(Tail(down[transport]), UpToDate)
       /\ (down[transport] # <<>> /\ Arrived.type = "snapshot") =>
             \A c \in DOMAIN Arrived.snapshots : serverSeq <= Arrived.snapshots[c]

(* Nothing is applied while snapshots are taken.                            *)
SnapshotsTaken == \A r \in restoring : \A c \in DOMAIN r.snapshots : r.snapshots[c] = Len(log)

-----------------------------------------------------------------------------
(* Wires.                                                                   *)
LEMMA OneLess ==
    ASSUME NEW M, NEW s \in Seq(M), s # <<>>
    PROVE  /\ Head(s) = s[1] /\ 1 \in 1 .. Len(s) /\ Len(Tail(s)) = Len(s) - 1
           /\ Len(s) \in Nat
           /\ \A i \in 1 .. Len(Tail(s)) : i + 1 \in 1 .. Len(s) /\ Tail(s)[i] = s[i + 1]
           /\ Elements(s) = {Head(s)} \cup Elements(Tail(s))
  <1>1. /\ Head(s) = s[1] /\ Len(Tail(s)) = Len(s) - 1 /\ Len(s) \in Nat \ {0}
        /\ \A i \in 1 .. Len(Tail(s)) : Tail(s)[i] = s[i + 1]
    BY HeadTailProperties, EmptySeq
  <1>2. 1 \in 1 .. Len(s) /\ \A i \in 1 .. Len(Tail(s)) : i + 1 \in 1 .. Len(s)
    BY <1>1
  <1>3. QED
    BY <1>1, <1>2, ElementsTail

LEMMA OneMore ==
    ASSUME NEW M, NEW s \in Seq(M), NEW m \in M
    PROVE  /\ Len(s \o <<m>>) = Len(s) + 1 /\ Len(s) \in Nat
           /\ (s \o <<m>>)[Len(s) + 1] = m
           /\ \A i \in 1 .. Len(s) : (s \o <<m>>)[i] = s[i]
           /\ Elements(s \o <<m>>) = Elements(s) \cup {m}
           /\ s \o <<m>> # <<>>
  <1>1. s \o <<m>> = Append(s, m)
    BY AppendIsConcat
  <1>2. /\ Len(Append(s, m)) = Len(s) + 1 /\ Len(s) \in Nat
        /\ Append(s, m)[Len(s) + 1] = m
        /\ \A i \in 1 .. Len(s) : Append(s, m)[i] = s[i]
    BY AppendProperties, LenProperties
  <1>3. Append(s, m) # <<>>
    BY <1>2, EmptySeq
  <1>4. Elements(Append(s, m)) = Elements(s) \cup {m}
    BY ElementsAppend
  <1>5. QED
    BY <1>1, <1>2, <1>3, <1>4

LEMMA Cut ==
    ASSUME NEW M, NEW s \in Seq(M), NEW i \in 0 .. Len(s)
    PROVE  /\ SubSeq(s, 1, i) \in Seq(M) /\ Len(SubSeq(s, 1, i)) = i
           /\ \A j \in 1 .. i : SubSeq(s, 1, i)[j] = s[j]
           /\ Elements(SubSeq(s, 1, i)) \subseteq Elements(s)
  <1>1. Len(s) \in Nat /\ \A j \in 1 .. i : s[j] \in M
    BY LenProperties, ElementOfSeq
  <1>2. /\ SubSeq(s, 1, i) \in Seq(M) /\ Len(SubSeq(s, 1, i)) = i
        /\ \A j \in 1 .. i : SubSeq(s, 1, i)[j] = s[j]
    BY <1>1, SubSeqProperties
  <1>3. Elements(SubSeq(s, 1, i)) \subseteq Elements(s)
    BY <1>1, <1>2 DEF Elements
  <1>4. QED
    BY <1>2, <1>3

LEMMA SentTo ==
    ASSUME NEW M, NEW wires \in [Transport -> Seq(M)], NEW t, NEW msgs
    PROVE  /\ \A u \in Transport : u # t \/ ~open[t] => Sent(wires, t, msgs)[u] = wires[u]
           /\ t \in Transport /\ open[t] => Sent(wires, t, msgs)[t] = wires[t] \o msgs
  BY DEF Sent

LEMMA BroadcastTo ==
    ASSUME TypeInv, NEW c, NEW n, NEW u \in Transport
    PROVE  \/ Broadcast(c, n)[u] = down[u]
           \/ /\ u \in Elements(connections) /\ open[u] /\ u = Last(connections)
              /\ c \in subscriptions[u]
              /\ Broadcast(c, n)[u] = down[u] \o <<[type |-> "action", seq |-> n]>>
  <1> DEFINE t == Last(connections)
             msgs == <<[type |-> "action", seq |-> n]>>
  <1>1. down \in [Transport -> Seq(DownMessage)] /\ connections \in Seq(Transport)
    BY DEF TypeInv
  <1> HIDE DEF t, msgs
  <1>2. /\ u # t \/ ~open[t] => Sent(down, t, msgs)[u] = down[u]
        /\ u = t /\ open[t] => Sent(down, t, msgs)[u] = down[u] \o msgs
    <2>1. /\ \A v \in Transport : v # t \/ ~open[t] => Sent(down, t, msgs)[v] = down[v]
          /\ t \in Transport /\ open[t] => Sent(down, t, msgs)[t] = down[t] \o msgs
      BY <1>1, SentTo
    <2>2. QED
      BY <2>1
  <1>3. connections # <<>> => t \in Elements(connections)
    BY <1>1, EmptySeq DEF Last, Elements, t
  <1>4. QED
    BY <1>2, <1>3 DEF Broadcast, msgs, t

LEMMA EndsOf ==
    ASSUME NEW M, NEW s \in Seq(M), NEW m \in M
    PROVE  /\ s = <<>> => Head(s \o <<m>>) = m /\ Elements(Tail(s \o <<m>>)) = {}
           /\ s # <<>> => /\ Head(s \o <<m>>) = Head(s)
                          /\ Elements(Tail(s \o <<m>>)) = Elements(Tail(s)) \cup {m}
  <1> DEFINE new == s \o <<m>>
  <1>1. /\ Len(new) = Len(s) + 1 /\ Len(s) \in Nat /\ new[Len(s) + 1] = m
        /\ \A i \in 1 .. Len(s) : new[i] = s[i]
        /\ new # <<>> /\ new \in Seq(M)
    BY OneMore, ConcatProperties
  <1> HIDE DEF new
  <1>2. /\ Head(new) = new[1] /\ Len(Tail(new)) = Len(s)
        /\ \A i \in 1 .. Len(Tail(new)) : Tail(new)[i] = new[i + 1]
    BY <1>1, OneLess
  <1>3. CASE s = <<>>
    <2>1. Len(s) = 0
      BY <1>3, EmptySeq
    <2>2. Elements(Tail(new)) = {}
      BY <1>2, <2>1 DEF Elements
    <2>3. QED
      BY <1>1, <1>2, <1>3, <2>1, <2>2 DEF new
  <1>4. CASE s # <<>>
    <2>1. /\ Head(s) = s[1] /\ 1 \in 1 .. Len(s) /\ Len(Tail(s)) = Len(s) - 1
          /\ \A i \in 1 .. Len(Tail(s)) : i + 1 \in 1 .. Len(s) /\ Tail(s)[i] = s[i + 1]
      BY <1>4, OneLess
    <2>2. /\ Tail(new)[Len(s)] = m /\ Len(s) \in 1 .. Len(s)
          /\ \A i \in 1 .. Len(Tail(s)) : Tail(new)[i] = Tail(s)[i] /\ i \in 1 .. Len(s)
      BY <1>1, <1>2, <2>1
    <2>3. \A i \in 1 .. Len(s) : i = Len(s) \/ i \in 1 .. Len(Tail(s))
      BY <1>1, <2>1
    <2>4. Elements(Tail(new)) = Elements(Tail(s)) \cup {m}
      <3>1. \A x : x \in Elements(Tail(new)) <=> \E i \in 1 .. Len(s) : x = Tail(new)[i]
        BY <1>2 DEF Elements
      <3>2. \A x : x \in Elements(Tail(s)) <=> \E i \in 1 .. Len(Tail(s)) : x = Tail(s)[i]
        BY DEF Elements
      <3>3. ASSUME NEW i \in 1 .. Len(s)
            PROVE  Tail(new)[i] \in Elements(Tail(s)) \cup {m}
        BY <2>2, <2>3, <3>2
      <3>4. Elements(Tail(s)) \subseteq Elements(Tail(new))
        <4>1. \A i \in 1 .. Len(Tail(s)) : Tail(s)[i] = Tail(new)[i] /\ i \in 1 .. Len(s)
          BY <2>2
        <4>2. QED
          BY <3>1, <3>2, <4>1
      <3>5. m \in Elements(Tail(new))
        BY <2>2, <3>1
      <3>6. QED
        BY <3>1, <3>3, <3>4, <3>5
    <2>5. QED
      BY <1>1, <1>2, <1>4, <2>1, <2>4 DEF new
  <1>5. QED
    BY <1>3, <1>4

LEMMA EndsOfCut ==
    ASSUME NEW M, NEW s \in Seq(M), NEW i \in 0 .. Len(s), SubSeq(s, 1, i) # <<>>
    PROVE  /\ s # <<>> /\ Head(SubSeq(s, 1, i)) = Head(s)
           /\ Elements(Tail(SubSeq(s, 1, i))) \subseteq Elements(Tail(s))
  <1> DEFINE cut == SubSeq(s, 1, i)
  <1>1. /\ cut \in Seq(M) /\ Len(cut) = i /\ \A j \in 1 .. i : cut[j] = s[j]
        /\ Len(s) \in Nat /\ cut # <<>>
    BY Cut, LenProperties
  <1> HIDE DEF cut
  <1>2. /\ Head(cut) = cut[1] /\ 1 \in 1 .. i /\ Len(Tail(cut)) = i - 1
        /\ \A j \in 1 .. Len(Tail(cut)) : Tail(cut)[j] = cut[j + 1]
    BY <1>1, OneLess
  <1>3. s # <<>>
    BY <1>2, EmptySeq
  <1>4. /\ Head(s) = s[1] /\ Len(Tail(s)) = Len(s) - 1
        /\ \A j \in 1 .. Len(Tail(s)) : Tail(s)[j] = s[j + 1]
    BY <1>3, OneLess
  <1>5. ASSUME NEW j \in 1 .. Len(Tail(cut))
        PROVE  j \in 1 .. Len(Tail(s)) /\ Tail(cut)[j] = Tail(s)[j]
    <2>1. j \in 1 .. Len(Tail(s)) /\ j + 1 \in 1 .. i
      BY <1>1, <1>2, <1>4
    <2>2. QED
      BY <1>1, <1>2, <1>4, <2>1
  <1>6. QED
    BY <1>1, <1>2, <1>3, <1>4, <1>5 DEF Elements, cut

-----------------------------------------------------------------------------
(* The stages of a transport.                                               *)
Stages == Ahead /\ Reconnected /\ Reconnecting /\ SnapshotsTaken

LEMMA InitStages == Init => Stages
  <1> SUFFICES ASSUME Init PROVE Stages
    OBVIOUS
  <1>1. Elements(<<1>>) = {1} /\ MaxTransport \in Transport /\ 1 \in Transport
    BY BoundsAssumption DEF Elements, Transport
  <1>2. Ahead
    BY <1>1 DEF Init, Ahead, Transport
  <1>3. Reconnected
    BY <1>1, ElementsEmpty DEF Init, Reconnected, Quiet
  <1>4. Reconnecting /\ SnapshotsTaken
    BY DEF Init, Reconnecting, SnapshotsTaken
  <1>5. QED
    BY <1>2, <1>3, <1>4 DEF Stages

(* What the stages are about.                                               *)
stageVars == <<connections, restoring, open, up, down, phase, transport, serverSeq>>

LEMMA StagesSame ==
    ASSUME Stages, UNCHANGED <<stageVars, log>>
    PROVE  Stages'
  BY DEF Stages, Ahead, Reconnected, Reconnecting, SnapshotsTaken, stageVars, Quiet, Arrived

(* The client says something, which is not that it comes back.              *)
LEMMA StagesSent ==
    ASSUME TypeInv, Stages, UNCHANGED <<hostVars, open, down, phase, transport, serverSeq>>,
           NEW M, UpMessage \subseteq M, NEW msgs \in Seq(M), Quiet(msgs, {"reconnect"}),
           up' = IF phase = "connected" THEN Sent(up, transport, msgs) ELSE up
    PROVE  Stages'
  <1>1. UNCHANGED <<log, connections, restoring>> /\ transport \in Transport
    BY DEF hostVars, TypeInv
  <1>2. CASE phase # "connected"
    BY <1>1, <1>2, StagesSame DEF stageVars
  <1>3. CASE phase = "connected"
    <2>1. up \in [Transport -> Seq(M)]
      <3>1. \A t \in Transport : up[t] \in Seq(M)
        BY SeqMonotonic DEF TypeInv
      <3>2. QED
        BY <3>1 DEF TypeInv
    <2>2. /\ \A u \in Transport : u # transport => up'[u] = up[u]
          /\ up'[transport] = up[transport] \/ up'[transport] = up[transport] \o msgs
      <3>1. up' = Sent(up, transport, msgs)
        BY <1>3
      <3>2. /\ \A u \in Transport : u # transport \/ ~open[transport] => up'[u] = up[u]
            /\ transport \in Transport /\ open[transport]
                  => up'[transport] = up[transport] \o msgs
        BY <2>1, <3>1 DEF Sent
      <3>3. QED
        BY <1>1, <3>2
    <2>3. Ahead'
      BY <1>1, <2>2 DEF Stages, Ahead, TypeInv, Transport
    <2>4. Quiet(up'[transport], {"reconnect"})
      <3>1. Quiet(up[transport], {"reconnect"}) /\ up[transport] \in Seq(M)
        BY <1>1, <1>3, <2>1 DEF Stages, Reconnected
      <3>2. Elements(up[transport] \o msgs) = Elements(up[transport]) \cup Elements(msgs)
        BY <3>1, ElementsConcat
      <3>3. QED
        BY <2>2, <3>1, <3>2 DEF Quiet
    <2>5. Reconnected' /\ Reconnecting' /\ SnapshotsTaken'
      BY <1>1, <1>3, <2>4 DEF Stages, Reconnected, Reconnecting, SnapshotsTaken
    <2>6. QED
      BY <2>3, <2>5 DEF Stages
  <1>4. QED
    BY <1>2, <1>3

(* The client takes what does not bring it up to date.                      *)
LEMMA StagesTaken ==
    ASSUME TypeInv, Stages, NEW type, ClientTakes(type),
           UNCHANGED <<hostVars, open, up, phase, transport>>,
           type = "action" \/ serverSeq' = serverSeq
    PROVE  Stages'
  <1>1. UNCHANGED <<log, connections, restoring>> /\ transport \in Transport
    BY DEF hostVars, TypeInv
  <1>2. /\ down[transport] \in Seq(DownMessage) /\ down[transport] # <<>>
        /\ down'[transport] = Tail(down[transport])
        /\ \A t \in Transport : t # transport => down'[t] = down[t]
    BY <1>1 DEF ClientTakes, TypeInv
  <1>3. /\ Elements(down[transport]) = {Arrived} \cup Elements(Tail(down[transport]))
        /\ Tail(down[transport]) \in Seq(DownMessage)
    BY <1>2, ElementsTail, HeadTailProperties DEF Arrived
  <1>4. Ahead'
    BY <1>1, <1>2 DEF Stages, Ahead, TypeInv, Transport
  <1>5. Reconnected'
    BY <1>1, <1>2, <1>3 DEF Stages, Reconnected, Quiet
  <1>6. Reconnecting'
    <2>1. SUFFICES ASSUME phase = "reconnecting"
                   PROVE  /\ up[transport] = <<>>
                          /\ \A r \in restoring : r.transport # transport
                          /\ down'[transport] # <<>> =>
                                /\ Quiet(Tail(down'[transport]), UpToDate)
                                /\ Head(down'[transport]).type # "snapshot"
      BY <1>1 DEF Reconnecting, Arrived
    <2>2. /\ up[transport] = <<>> /\ \A r \in restoring : r.transport # transport
          /\ Quiet(Tail(down[transport]), UpToDate)
      BY <1>2, <2>1 DEF Stages, Reconnecting
    <2>3. ASSUME down'[transport] # <<>>
          PROVE  /\ Quiet(Tail(down'[transport]), UpToDate)
                 /\ Head(down'[transport]).type # "snapshot"
      <3>1. Elements(down'[transport])
               = {Head(down'[transport])} \cup Elements(Tail(down'[transport]))
        BY <1>2, <1>3, <2>3, ElementsTail
      <3>2. QED
        BY <1>2, <2>2, <3>1 DEF Quiet, UpToDate
    <2>4. QED
      BY <2>2, <2>3
  <1>7. SnapshotsTaken'
    BY <1>1 DEF Stages, SnapshotsTaken
  <1>8. QED
    BY <1>4, <1>5, <1>6, <1>7 DEF Stages

(* The client is brought up to date, which is no step of a client that is.  *)
LEMMA UpToDateArrives ==
    ASSUME TypeInv, Stages, NEW type \in UpToDate, ClientTakes(type)
    PROVE  /\ phase = "reconnecting" /\ transport \in Transport
           /\ down[transport] \in Seq(DownMessage) /\ down[transport] # <<>>
           /\ up[transport] = <<>> /\ Quiet(Tail(down[transport]), UpToDate)
           /\ \A r \in restoring : r.transport # transport
           /\ down'[transport] = Tail(down[transport])
           /\ \A t \in Transport : t # transport => down'[t] = down[t]
  <1>1. /\ phase # "waiting" /\ transport \in Transport /\ Arrived.type = type
        /\ down[transport] \in Seq(DownMessage) /\ down[transport] # <<>>
        /\ down'[transport] = Tail(down[transport])
        /\ \A t \in Transport : t # transport => down'[t] = down[t]
    BY DEF TypeInv, ClientTakes
  <1>2. Arrived \in Elements(down[transport])
    BY <1>1, ElementsTail DEF Arrived
  <1>3. phase # "connected"
    BY <1>1, <1>2 DEF Stages, Reconnected, Quiet
  <1>4. phase = "reconnecting"
    BY <1>1, <1>3 DEF TypeInv
  <1>5. QED
    BY <1>1, <1>4 DEF Stages, Reconnecting

LEMMA StagesDrained ==
    ASSUME TypeInv, Stages, NEW type \in UpToDate, ClientTakes(type), NEW subs,
           DrainAfterReconnect(subs), UNCHANGED <<hostVars, open, transport>>
    PROVE  Stages'
  <1>1. /\ UNCHANGED <<log, connections, restoring, open, transport>>
        /\ phase = "reconnecting" /\ transport \in Transport
        /\ up[transport] = <<>> /\ Quiet(Tail(down[transport]), UpToDate)
        /\ \A r \in restoring : r.transport # transport
        /\ down'[transport] = Tail(down[transport])
        /\ \A t \in Transport : t # transport => down'[t] = down[t]
    BY UpToDateArrives DEF hostVars
  <1> DEFINE M == Notification \cup SubscribeRequest
             msgs == Replays(subs) \o outbox \o gated
  <1>2. msgs \in Seq(M) /\ \A m \in M : m.type # "reconnect"
    <2>1. /\ Replays(subs) \in Seq(Notification) /\ outbox \in Seq(Notification)
          /\ gated \in Seq(SubscribeRequest)
      BY ReplaysType, Lengths DEF TypeInv
    <2>2. Replays(subs) \in Seq(M) /\ outbox \in Seq(M) /\ gated \in Seq(M)
      BY <2>1, SeqMonotonic
    <2>3. \A m \in M : m.type # "reconnect"
      BY DEF Notification, SubscribeRequest
    <2> HIDE DEF M
    <2>4. QED
      BY <2>2, <2>3, ConcatProperties
  <1>3. up' = Sent(up, transport, msgs) /\ phase' = "connected"
    BY DEF DrainAfterReconnect
  <1> HIDE DEF msgs, M
  <1>4. Elements(msgs) \subseteq M
    BY <1>2, ElementsType
  <1>5. /\ \A u \in Transport : u # transport => up'[u] = up[u]
        /\ up'[transport] = <<>> \/ up'[transport] = <<>> \o msgs
    <2>1. up \in [Transport -> Seq(UpMessage)]
      BY DEF TypeInv
    <2>2. /\ \A u \in Transport : u # transport => up'[u] = up[u]
          /\ up'[transport] = up[transport] \/ up'[transport] = up[transport] \o msgs
      <3>1. /\ \A u \in Transport : u # transport \/ ~open[transport]
                                       => Sent(up, transport, msgs)[u] = up[u]
            /\ transport \in Transport /\ open[transport]
                 => Sent(up, transport, msgs)[transport] = up[transport] \o msgs
        BY <2>1 DEF Sent
      <3>2. QED
        BY <1>1, <1>3, <3>1
    <2>3. QED
      BY <1>1, <2>2
  <1>6. <<>> \o msgs = msgs
    BY <1>2, ConcatEmptySeq
  <1>7. Quiet(up'[transport], {"reconnect"})
    BY <1>2, <1>4, <1>5, <1>6, ElementsEmpty DEF Quiet
  <1>8. Ahead'
    <2>1. \A u \in Transport : u > transport => u # transport
      BY <1>1 DEF Transport
    <2>2. QED
      BY <1>1, <1>5, <2>1 DEF Stages, Ahead
  <1>9. Reconnected' /\ Reconnecting' /\ SnapshotsTaken'
    BY <1>1, <1>3, <1>7 DEF Stages, Reconnected, Reconnecting, SnapshotsTaken
  <1>10. QED
    BY <1>8, <1>9 DEF Stages

LEMMA StagesClosed ==
    ASSUME Stages, ClientSeesClose
    PROVE  Stages'
  <1>1. UNCHANGED <<log, connections, restoring, open, up, down, transport>>
        /\ phase' = "waiting"
    BY DEF ClientSeesClose, hostVars, wireVars
  <1>2. QED
    BY <1>1 DEF Stages, Ahead, Reconnected, Reconnecting, SnapshotsTaken

LEMMA StagesReturned ==
    ASSUME TypeInv, IInv, Stages, AttemptReconnect
    PROVE  Stages'
  <1> DEFINE t == transport + 1
             m == [type |-> "reconnect", lastSeen |-> serverSeq,
                   channels |-> {Root} \cup {c \in Channel : sub[c].entry # 0}]
  <1>1. /\ UNCHANGED <<log, connections, restoring, open, down>>
        /\ phase' = "reconnecting" /\ transport' = t /\ t \in Transport /\ t > transport
        /\ \A u \in Transport : u > t => u > transport
    BY BoundsAssumption DEF AttemptReconnect, hostVars, TypeInv, Transport
  <1>2. up' = Sent(up, t, <<m>>)
    BY DEF AttemptReconnect
  <1> HIDE DEF m, t
  <1>3. /\ t \notin Elements(connections) /\ up[t] = <<>> /\ down[t] = <<>>
    BY <1>1 DEF Stages, Ahead
  <1>4. /\ \A u \in Transport : u # t => up'[u] = up[u]
        /\ up'[t] = <<>> \/ up'[t] = <<>> \o <<m>>
    <2>1. up \in [Transport -> Seq(UpMessage)]
      BY DEF TypeInv
    <2>2. /\ \A u \in Transport : u # t => up'[u] = up[u]
          /\ up'[t] = up[t] \/ up'[t] = up[t] \o <<m>>
      <3>1. /\ \A u \in Transport : u # t \/ ~open[t] => Sent(up, t, <<m>>)[u] = up[u]
            /\ t \in Transport /\ open[t] => Sent(up, t, <<m>>)[t] = up[t] \o <<m>>
        BY <2>1 DEF Sent
      <3>2. QED
        BY <1>1, <1>2, <3>1
    <2>3. QED
      BY <1>3, <2>2
  <1>5. <<>> \o <<m>> = <<m>> /\ Len(<<m>>) = 1
    OBVIOUS
  <1>6. Ahead'
    <2>1. open[MaxTransport] /\ \A u \in Transport : u > transport =>
             u \notin Elements(connections) /\ up[u] = <<>> /\ down[u] = <<>>
      BY DEF Stages, Ahead
    <2>2. ASSUME NEW u \in Transport, u > t
          PROVE  u \notin Elements(connections) /\ up'[u] = <<>> /\ down[u] = <<>>
      <3>1. u # t /\ u > transport
        BY <1>1, <2>2 DEF Transport
      <3>2. QED
        BY <1>4, <2>1, <3>1
    <2>3. transport' = t /\ UNCHANGED <<open, connections, down>>
      BY <1>1
    <2>4. QED
      BY <2>1, <2>2, <2>3 DEF Ahead
  <1>7. \A r \in restoring : r.transport # t
    BY <1>3 DEF IInv, OneAtATime
  <1>8. Reconnecting'
    <2>1. /\ up'[t] # <<>> => Len(up'[t]) = 1
          /\ down'[t] = <<>> /\ t \notin Elements(connections')
          /\ \A r \in restoring' : r.transport # t
      BY <1>1, <1>3, <1>4, <1>5, <1>7
    <2>2. QED
      BY <1>1, <2>1 DEF Reconnecting
  <1>9. Reconnected' /\ SnapshotsTaken'
    BY <1>1 DEF Stages, Reconnected, SnapshotsTaken
  <1>10. QED
    BY <1>6, <1>8, <1>9 DEF Stages

LEMMA StagesBroken ==
    ASSUME TypeInv, Stages, Break
    PROVE  Stages'
  <1>1. /\ UNCHANGED <<log, connections, restoring, phase, transport, serverSeq>>
        /\ transport \in Transport /\ transport # MaxTransport
        /\ up[transport] \in Seq(UpMessage) /\ down[transport] \in Seq(DownMessage)
        /\ open' = [open EXCEPT ![transport] = FALSE]
    BY BoundsAssumption DEF Break, hostVars, clientVars, TypeInv, Transport
  <1>2. PICK i \in 0 .. Len(up[transport]), j \in 0 .. Len(down[transport]) :
           /\ up' = [up EXCEPT ![transport] = SubSeq(@, 1, i)]
           /\ down' = [down EXCEPT ![transport] = SubSeq(@, 1, j)]
    BY DEF Break
  <1>3. /\ up'[transport] = SubSeq(up[transport], 1, i)
        /\ down'[transport] = SubSeq(down[transport], 1, j)
        /\ \A t \in Transport : t # transport => up'[t] = up[t] /\ down'[t] = down[t]
    BY <1>1, <1>2 DEF TypeInv
  <1>4. Ahead'
    <2>1. open'[MaxTransport]
      BY <1>1, BoundsAssumption DEF Stages, Ahead, TypeInv, Transport
    <2>2. \A t \in Transport : t > transport => t # transport
      BY <1>1 DEF Transport
    <2>3. \A t \in Transport : t > transport => /\ t \notin Elements(connections')
                                                /\ up'[t] = <<>> /\ down'[t] = <<>>
      BY <1>1, <1>3, <2>2 DEF Stages, Ahead
    <2>4. QED
      BY <1>1, <2>1, <2>3 DEF Ahead
  <1>5. /\ Elements(up'[transport]) \subseteq Elements(up[transport])
        /\ Elements(down'[transport]) \subseteq Elements(down[transport])
    BY <1>1, <1>3, Cut
  <1>6. Reconnected'
    BY <1>1, <1>5 DEF Stages, Reconnected, Quiet
  <1>7. Reconnecting'
    <2>1. SUFFICES ASSUME phase = "reconnecting"
                   PROVE  /\ up'[transport] # <<>> =>
                                /\ Len(up'[transport]) = 1
                                /\ down'[transport] = <<>>
                                /\ transport \notin Elements(connections)
                          /\ \A r \in restoring :
                                r.transport = transport => down'[transport] = <<>>
                          /\ down'[transport] # <<>> =>
                                /\ Quiet(Tail(down'[transport]), UpToDate)
                                /\ Head(down'[transport]) = Arrived /\ down[transport] # <<>>
      BY <1>1 DEF Reconnecting, Arrived, Stages
    <2>2. down[transport] = <<>> => down'[transport] = <<>>
      BY <1>1, <1>3, EndsOfCut
    <2>3. ASSUME up'[transport] # <<>>
          PROVE  up[transport] # <<>> /\ Len(up'[transport]) = 1
      <3>1. up[transport] # <<>>
        BY <1>1, <1>3, <2>3, EndsOfCut
      <3>2. Len(up[transport]) = 1
        BY <2>1, <3>1 DEF Stages, Reconnecting
      <3>3. Len(up'[transport]) = i /\ up'[transport] \in Seq(UpMessage)
        BY <1>1, <1>3, Cut
      <3>4. i # 0
        BY <2>3, <3>3, EmptySeq
      <3>5. QED
        BY <3>1, <3>2, <3>3, <3>4
    <2>4. ASSUME down'[transport] # <<>>
          PROVE  /\ Head(down'[transport]) = Arrived /\ down[transport] # <<>>
                 /\ Elements(Tail(down'[transport])) \subseteq Elements(Tail(down[transport]))
      BY <1>1, <1>3, <2>4, EndsOfCut DEF Arrived
    <2>5. QED
      BY <2>1, <2>2, <2>3, <2>4 DEF Stages, Reconnecting, Quiet
  <1>8. SnapshotsTaken'
    BY <1>1 DEF Stages, SnapshotsTaken
  <1>9. QED
    BY <1>4, <1>6, <1>7, <1>8 DEF Stages

-----------------------------------------------------------------------------
(* The host.  What it says to a client that does not come back.             *)
Says(t) ==
    \/ down'[t] = down[t]
    \/ /\ t \in Elements(connections) /\ (t = transport => restoring' = {})
       /\ \E m \in DownMessage' : m.type \notin UpToDate /\ down'[t] = down[t] \o <<m>>
Reads(t) ==
    \/ up'[t] = up[t]
    \/ t \in Elements(connections) /\ up[t] # <<>> /\ up'[t] = Tail(up[t])

LEMMA StagesHost ==
    ASSUME TypeInv, TypeInv', Stages, UNCHANGED <<open, phase, transport, serverSeq>>,
           Elements(connections') \subseteq Elements(connections),
           \A r \in restoring' : \E q \in restoring : q.transport = r.transport,
           \A t \in Transport : Reads(t) /\ Says(t)
    PROVE  Ahead' /\ Reconnected' /\ Reconnecting'
  <1>1. /\ transport \in Transport /\ \A t \in Transport : Reads(t) /\ Says(t)
        /\ \A t \in Transport : up[t] \in Seq(UpMessage)
        /\ \A t \in Transport : down[t] \in Seq(DownMessage) /\ down'[t] \in Seq(DownMessage')
    BY DEF TypeInv
  <1>2. Ahead'
    BY <1>1 DEF Stages, Ahead, Reads, Says
  <1>3. Elements(up'[transport]) \subseteq Elements(up[transport])
    <2>1. up[transport] # <<>> => Elements(Tail(up[transport])) \subseteq Elements(up[transport])
      BY <1>1, ElementsTail
    <2>2. QED
      BY <1>1, <2>1 DEF Reads
  <1>4. CASE down'[transport] = down[transport]
    <2>1. Reconnected'
      BY <1>3, <1>4 DEF Stages, Reconnected, Quiet
    <2>2. ASSUME phase = "reconnecting", up'[transport] # <<>>
          PROVE  up'[transport] = up[transport]
      BY <1>1, <2>2 DEF Stages, Reconnecting, Reads
    <2>3. Reconnecting'
      BY <1>4, <2>2 DEF Stages, Reconnecting, Arrived
    <2>4. QED
      BY <1>2, <2>1, <2>3
  <1>5. CASE down'[transport] # down[transport]
    <2>1. PICK m \in DownMessage' :
             /\ transport \in Elements(connections) /\ restoring' = {}
             /\ m.type \notin UpToDate /\ down'[transport] = down[transport] \o <<m>>
      BY <1>1, <1>5 DEF Says
    <2>2. down[transport] \in Seq(DownMessage \cup {m}) /\ m \in DownMessage \cup {m}
      BY <1>1, SeqMonotonic
    <2>3. Elements(down'[transport]) = Elements(down[transport]) \cup {m}
      BY <2>1, <2>2, OneMore
    <2>4. Reconnected'
      BY <1>3, <2>1, <2>3 DEF Stages, Reconnected, Quiet
    <2>5. phase = "reconnecting" => up[transport] = <<>> /\ up'[transport] = <<>>
      BY <1>1, <2>1 DEF Stages, Reconnecting, Reads
    <2>6. CASE down[transport] = <<>>
      <3>1. Head(down'[transport]) = m /\ Elements(Tail(down'[transport])) = {}
        <4>1. down[transport] = <<>> =>
                 /\ Head(down[transport] \o <<m>>) = m
                 /\ Elements(Tail(down[transport] \o <<m>>)) = {}
          BY <2>2, EndsOf
        <4>2. QED
          BY <2>1, <2>6, <4>1
      <3>2. QED
        BY <1>2, <2>1, <2>4, <2>5, <3>1 DEF Reconnecting, Arrived, Quiet, UpToDate
    <2>7. CASE down[transport] # <<>>
      <3>1. /\ Head(down'[transport]) = Head(down[transport])
            /\ Elements(Tail(down'[transport])) = Elements(Tail(down[transport])) \cup {m}
        BY <2>1, <2>2, <2>7, EndsOf
      <3>2. phase = "reconnecting" => Quiet(Tail(down'[transport]), UpToDate)
        BY <2>1, <2>7, <3>1 DEF Stages, Reconnecting, Quiet
      <3>3. Reconnecting'
        BY <2>1, <2>5, <2>7, <3>1, <3>2 DEF Stages, Reconnecting, Arrived
      <3>4. QED
        BY <1>2, <2>4, <3>3
    <2>8. QED
      BY <2>6, <2>7
  <1>6. QED
    BY <1>4, <1>5

LEMMA StagesApplied ==
    ASSUME TypeInv, TypeInv', Stages, Evicted = {}, MayInterleave,
           NEW c, NEW own, ApplyAndEmit(c, own) \/ UNCHANGED <<log, down>>,
           UNCHANGED <<connections, restoring, open, phase, transport, serverSeq>>,
           \A t \in Transport : Reads(t)
    PROVE  Stages'
  <1>1. restoring = {}
    BY AtRestThen DEF AtRest
  <1>2. ASSUME NEW t \in Transport PROVE Says(t)
    <2>1. CASE down' = down
      BY <2>1 DEF Says
    <2>2. CASE ApplyAndEmit(c, own)
      <3>1. /\ down' = Broadcast(c, Len(log')) /\ Len(log') = Len(log) + 1 /\ Len(log) \in Nat
        BY <2>2, AppendProperties, LenProperties DEF ApplyAndEmit, TypeInv
      <3>2. [type |-> "action", seq |-> Len(log')] \in DownMessage'
        BY <3>1 DEF DownMessage
      <3>3. \/ down'[t] = down[t]
            \/ /\ t \in Elements(connections)
               /\ down'[t] = down[t] \o <<[type |-> "action", seq |-> Len(log')]>>
        BY <3>1, BroadcastTo
      <3>4. QED
        BY <1>1, <3>2, <3>3 DEF Says, UpToDate
    <2>3. QED
      BY <2>1, <2>2
  <1>3. Ahead' /\ Reconnected' /\ Reconnecting'
    BY <1>1, <1>2, StagesHost
  <1>4. SnapshotsTaken'
    BY <1>1 DEF SnapshotsTaken
  <1>5. QED
    BY <1>3, <1>4 DEF Stages

LEMMA HostTakesReads ==
    ASSUME TypeInv, NEW t \in Transport, NEW type, HostTakes(t, type), type # "reconnect"
    PROVE  \A u \in Transport : Reads(u)
  BY DEF HostTakes, TypeInv, Reads

LEMMA StagesActs ==
    ASSUME TypeInv, TypeInv', Stages, Evicted = {}, NEW c, NEW t \in Transport,
           Act(c) \/ HandleDispatch(t) \/ RunDispatchQueue
    PROVE  Stages'
  <1>1. CASE Act(c)
    BY <1>1, StagesApplied DEF Act, clientVars, Reads
  <1>2. CASE RunDispatchQueue
    BY <1>2, StagesApplied DEF RunDispatchQueue, clientVars, Reads
  <1>3. CASE HandleDispatch(t)
    <2>1. \A u \in Transport : Reads(u)
      BY <1>3, HostTakesReads DEF HandleDispatch
    <2>2. QED
      BY <1>3, <2>1, StagesApplied DEF HandleDispatch, HostTakes, clientVars
  <1>4. QED
    BY <1>1, <1>2, <1>3

LEMMA StagesReconnect ==
    ASSUME TypeInv, TypeInv', Stages, Evicted = {}, NEW t \in Transport, HandleReconnect(t)
    PROVE  Stages'
  <1>1. /\ restoring = {} /\ t \notin Elements(connections)
        /\ up[t] # <<>> /\ Head(up[t]).type = "reconnect"
        /\ up' = [up EXCEPT ![t] = Tail(@)]
        /\ connections' = Append(connections, t)
        /\ UNCHANGED <<log, open, down, phase, transport, serverSeq>>
    BY AtRestThen DEF HandleReconnect, HostTakes, AtRest, clientVars
  <1>2. \A r \in restoring' : /\ r.transport = t
                              /\ \A c \in DOMAIN r.snapshots : r.snapshots[c] = Len(log)
    BY <1>1 DEF HandleReconnect
  <1>3. /\ up[t] \in Seq(UpMessage) /\ up'[t] = Tail(up[t])
        /\ \A u \in Transport : u # t => up'[u] = up[u]
        /\ transport \in Transport
    BY <1>1 DEF TypeInv
  <1>4. Elements(connections') = Elements(connections) \cup {t}
    BY <1>1, ElementsAppend DEF TypeInv
  <1>5. Head(up[t]) \in Elements(up[t])
    BY <1>1, <1>3, ElementsTail
  <1>6. Ahead'
    BY <1>1, <1>3, <1>4 DEF Stages, Ahead
  <1>7. Reconnected'
    BY <1>1, <1>2, <1>3, <1>5 DEF Stages, Reconnected, Quiet
  <1>8. Reconnecting'
    <2>1. SUFFICES ASSUME phase = "reconnecting" PROVE Reconnecting'
      BY <1>1 DEF Reconnecting
    <2>2. CASE t = transport
      <3>1. Len(up[t]) = 1 /\ down[transport] = <<>>
        BY <1>1, <2>1, <2>2 DEF Stages, Reconnecting
      <3>2. Tail(up[t]) \in Seq(UpMessage) /\ Len(Tail(up[t])) = 0
        BY <1>1, <1>3, <3>1, HeadTailProperties
      <3>3. up'[transport] = <<>>
        BY <1>3, <2>2, <3>2, EmptySeq
      <3>4. QED
        BY <1>1, <3>1, <3>3 DEF Reconnecting
    <2>3. CASE t # transport
      <3>1. up'[transport] = up[transport] /\ \A r \in restoring' : r.transport # transport
        BY <1>2, <1>3, <2>3
      <3>2. QED
        BY <1>1, <1>4, <2>1, <2>3, <3>1 DEF Stages, Reconnecting, Arrived
    <2>4. QED
      BY <2>2, <2>3
  <1>9. SnapshotsTaken'
    BY <1>1, <1>2 DEF SnapshotsTaken
  <1>10. QED
    BY <1>6, <1>7, <1>8, <1>9 DEF Stages

LEMMA StagesRestore ==
    ASSUME TypeInv, TypeInv', IInv, Stages, NEW r \in restoring, NEW c,
           Restore(r, c) \/ RestoreFails(r, c)
    PROVE  Stages'
  <1>1. /\ UNCHANGED <<log, connections, wireVars, phase, transport, serverSeq>>
        /\ r \in Restoring /\ restoring = {r}
    BY DEF Restore, RestoreFails, clientVars, TypeInv, IInv, OneAtATime
  <1>2. \A q \in restoring' : /\ q.transport = r.transport
                              /\ \A d \in DOMAIN q.snapshots : q.snapshots[d] = Len(log)
    <2>1. \A d \in DOMAIN r.snapshots : r.snapshots[d] = Len(log)
      BY DEF Stages, SnapshotsTaken
    <2>2. CASE RestoreFails(r, c)
      BY <1>1, <2>1, <2>2 DEF RestoreFails, Restoring
    <2>3. CASE Restore(r, c)
      <3> DEFINE f == [d \in DOMAIN r.snapshots \cup {c} |-> IF d = c THEN Len(log) ELSE r.snapshots[d]]
                 q == [r EXCEPT !.left = @ \ {c}, !.snapshots = f]
      <3>1. restoring' = {q}
        BY <1>1, <2>3 DEF Restore, Restoring
      <3>2. q.transport = r.transport /\ q.snapshots = f
        BY <1>1 DEF Restoring
      <3>3. \A d \in DOMAIN f : f[d] = Len(log)
        BY <2>1
      <3> HIDE DEF f, q
      <3>4. QED
        BY <3>1, <3>2, <3>3
    <2>4. QED
      BY <2>2, <2>3
  <1>3. Ahead' /\ Reconnected' /\ Reconnecting'
    <2>1. \A t \in Transport : Reads(t) /\ Says(t)
      BY <1>1 DEF wireVars, Reads, Says
    <2>2. QED
      BY <1>1, <1>2, <2>1, StagesHost DEF wireVars
  <1>4. SnapshotsTaken'
    BY <1>1, <1>2 DEF SnapshotsTaken
  <1>5. QED
    BY <1>3, <1>4 DEF Stages

LEMMA StagesRespond ==
    ASSUME TypeInv, TypeInv', IInv, Stages, NEW r \in restoring, Respond(r)
    PROVE  Stages'
  <1> DEFINE u == r.transport
  <1>1. PICK m :
           /\ m.type \in UpToDate /\ down' = Sent(down, u, <<m>>)
           /\ m.type = "snapshot" => m.snapshots = r.snapshots
    BY DEF Respond, UpToDate
  <1>2. /\ UNCHANGED <<log, connections, up, open, phase, transport, serverSeq>>
        /\ restoring' = {} /\ u \in Elements(connections) /\ u \in Transport
        /\ transport \in Transport /\ down[transport] \in Seq(DownMessage)
        /\ down \in [Transport -> Seq(DownMessage)]
        /\ \A c \in DOMAIN r.snapshots : r.snapshots[c] = Len(log)
        /\ serverSeq <= Len(log)
    BY Lengths DEF Respond, clientVars, TypeInv, Restoring, IInv, OneAtATime, Stages, SnapshotsTaken
  <1> HIDE DEF u
  <1>3. /\ \A t \in Transport : t # u => down'[t] = down[t]
        /\ down'[u] = down[u] \/ down'[u] = down[u] \o <<m>>
    BY <1>1, <1>2 DEF Sent
  <1>4. Ahead'
    BY <1>2, <1>3 DEF Stages, Ahead
  <1>5. CASE u # transport
    <2>1. down'[transport] = down[transport]
      BY <1>2, <1>3, <1>5
    <2>2. Reconnected' /\ Reconnecting'
      BY <1>2, <2>1 DEF Stages, Reconnected, Reconnecting, Arrived
    <2>3. QED
      BY <1>2, <1>4, <2>2 DEF Stages, SnapshotsTaken
  <1>6. CASE u = transport
    <2>1. phase # "connected"
      BY <1>6 DEF Stages, Reconnected, u
    <2>2. ASSUME phase = "reconnecting" PROVE Reconnecting'
      <3>1. down[transport] = <<>> /\ up[transport] = <<>>
        BY <1>2, <1>6, <2>2 DEF Stages, Reconnecting, u
      <3>2. down'[transport] = <<>> \/ down'[transport] = <<m>>
        <4>1. <<>> \o <<m>> = <<m>>
          OBVIOUS
        <4>2. QED
          BY <1>3, <1>6, <3>1, <4>1
      <3>3. Head(<<m>>) = m /\ Elements(Tail(<<m>>)) = {}
        <4>1. Head(<<m>>) = m /\ Tail(<<m>>) = <<>>
          OBVIOUS
        <4>2. QED
          BY <4>1, ElementsEmpty
      <3>4. \A c \in DOMAIN r.snapshots : serverSeq <= r.snapshots[c]
        BY <1>2
      <3>5. down'[transport] = <<m>> =>
               /\ Quiet(Tail(down'[transport]), UpToDate)
               /\ Head(down'[transport]) = m
        BY <3>3 DEF Quiet
      <3>6. QED
        BY <1>1, <1>2, <3>1, <3>2, <3>4, <3>5 DEF Reconnecting, Arrived
    <2>3. QED
      BY <1>2, <1>4, <2>1, <2>2 DEF Stages, Reconnected, Reconnecting, SnapshotsTaken
  <1>7. QED
    BY <1>5, <1>6

LEMMA StagesAnswered ==
    ASSUME TypeInv, TypeInv', IInv, Stages, NEW r \in subscribing, HostAnswers(r)
    PROVE  Stages'
  <1>1. /\ UNCHANGED <<log, connections, restoring, open, up, phase, transport, serverSeq>>
        /\ restoring = {} /\ r.transport \in Elements(connections)
        /\ r.transport \in Transport /\ r.id \in 1 .. entries /\ Len(log) \in Nat
    BY Lengths DEF HostAnswers, Subscribed, SubscribeFails, clientVars, IInv, OneAtATime, TypeInv
  <1>2. PICK m \in DownMessage' :
           m.type \notin UpToDate /\ down' = Sent(down, r.transport, <<m>>)
    <2> DEFINE yes == [type |-> "subscribed", id |-> r.id, fromSeq |-> Len(log)]
               no  == [type |-> "refused", id |-> r.id]
    <2>1. /\ yes \in DownMessage /\ no \in DownMessage
          /\ yes.type \notin UpToDate /\ no.type \notin UpToDate
      BY <1>1 DEF DownMessage, UpToDate
    <2>2. DownMessage' = DownMessage
      BY <1>1, Same DEF HostAnswers, Subscribed, SubscribeFails, clientVars
    <2>3. down' = Sent(down, r.transport, <<yes>>) \/ down' = Sent(down, r.transport, <<no>>)
      BY DEF HostAnswers, Subscribed, SubscribeFails
    <2> HIDE DEF yes, no
    <2>4. QED
      BY <2>1, <2>2, <2>3
  <1>3. \A t \in Transport : Reads(t) /\ Says(t)
    <2>1. down \in [Transport -> Seq(DownMessage)]
      BY DEF TypeInv
    <2> DEFINE u == r.transport
    <2>2. down' = Sent(down, u, <<m>>) /\ u \in Transport /\ u \in Elements(connections)
      BY <1>1, <1>2
    <2> HIDE DEF u
    <2>3. /\ \A t \in Transport : t # u => down'[t] = down[t]
          /\ down'[u] = down[u] \/ down'[u] = down[u] \o <<m>>
      BY <2>1, <2>2 DEF Sent
    <2>4. QED
      BY <1>1, <1>2, <2>2, <2>3 DEF Reads, Says
  <1>4. Ahead' /\ Reconnected' /\ Reconnecting'
    BY <1>1, <1>3, StagesHost
  <1>5. SnapshotsTaken'
    BY <1>1 DEF SnapshotsTaken
  <1>6. QED
    BY <1>4, <1>5 DEF Stages

LEMMA StagesReads ==
    ASSUME TypeInv, TypeInv', IInv, Stages, NEW t \in Transport,
           HandleSubscribe(t) \/ HandleUnsubscribe(t) \/ HostSeesClose(t)
    PROVE  Stages'
  <1>1. UNCHANGED <<log, restoring, open, down, phase, transport, serverSeq>>
    BY DEF HandleSubscribe, HandleUnsubscribe, HostSeesClose, wireVars, clientVars
  <1>2. \A u \in Transport : Reads(u)
    <2>1. CASE HandleSubscribe(t)
      BY <2>1, HostTakesReads DEF HandleSubscribe
    <2>2. CASE HandleUnsubscribe(t)
      BY <2>2, HostTakesReads DEF HandleUnsubscribe
    <2>3. CASE HostSeesClose(t)
      BY <2>3 DEF HostSeesClose, wireVars, Reads
    <2>4. QED
      BY <2>1, <2>2, <2>3
  <1>3. Elements(connections') \subseteq Elements(connections)
    <2>1. CASE HostSeesClose(t)
      <3>1. PICK i \in 1 .. Len(connections) : connections' = RemoveAt(connections, i)
        BY <2>1 DEF HostSeesClose
      <3>2. QED
        BY <3>1, RemovedOnce DEF IInv, Connected
    <2>2. CASE HandleSubscribe(t) \/ HandleUnsubscribe(t)
      BY <2>2 DEF HandleSubscribe, HandleUnsubscribe
    <2>3. QED
      BY <2>1, <2>2
  <1>4. Ahead' /\ Reconnected' /\ Reconnecting'
    BY <1>1, <1>2, <1>3, StagesHost DEF Says
  <1>5. SnapshotsTaken'
    BY <1>1 DEF Stages, SnapshotsTaken
  <1>6. QED
    BY <1>4, <1>5 DEF Stages

LEMMA StagesStep ==
    ASSUME TypeInv, TypeInv', IInv, Stages, Evicted = {}, [Next]_vars
    PROVE  Stages'
  <1>1. ASSUME NEW c \in Channel, Dispatch(c) \/ Release(c)
        PROVE  Stages'
    <2>1. PICK m \in Notification' : Notify(m)
      <3>1. Unsubscribe(c) \in Notification'
        BY DEF Unsubscribe, Notification
      <3>2. Dispatch(c) => DispatchAction(Len(dispatched')) \in Notification'
        <4>1. Dispatch(c) => Len(dispatched') \in OwnId'
          BY AppendProperties, LenProperties DEF Dispatch, TypeInv, OwnId
        <4>2. QED
          BY <4>1 DEF DispatchAction, Notification
      <3>3. QED
        BY <1>1, <3>1, <3>2 DEF Dispatch, Release
    <2> DEFINE M == UpMessage \cup {m}
    <2>2. /\ UNCHANGED <<hostVars, open, down, phase, transport, serverSeq>>
          /\ up' = IF phase = "connected" THEN Sent(up, transport, <<m>>) ELSE up
      BY <1>1, <2>1 DEF Dispatch, Release, Notify
    <2>3. /\ <<m>> \in Seq(M) /\ Elements(<<m>>) = {m} /\ m.type # "reconnect"
          /\ UpMessage \subseteq M
      BY DEF Elements, Notification
    <2> HIDE DEF M
    <2>4. QED
      BY <2>2, <2>3, StagesSent DEF Quiet
  <1>2. ASSUME NEW c \in Channel, Subscribe(c)
        PROVE  Stages'
    <2> DEFINE left    == IF sub[c].entry = 0 THEN <<>> ELSE <<Unsubscribe(c)>>
               request == [type |-> "subscribe", channel |-> c, id |-> entries + 1]
               msgs == left \o <<request>>
               M == UpMessage \cup {Unsubscribe(c), request}
    <2>1. /\ UNCHANGED <<hostVars, open, down, phase, transport, serverSeq>>
          /\ up' = IF phase = "connected" THEN Sent(up, transport, msgs) ELSE up
      BY <1>2 DEF Subscribe
    <2>2. UpMessage \subseteq M /\ left \in Seq(M) /\ <<request>> \in Seq(M)
      <3>1. <<>> \in Seq(M) /\ Unsubscribe(c) \in M /\ request \in M /\ UpMessage \subseteq M
        BY EmptySeq
      <3> HIDE DEF M, request
      <3>2. <<Unsubscribe(c)>> \in Seq(M) /\ <<request>> \in Seq(M)
        BY <3>1
      <3>3. QED
        BY <3>1, <3>2
    <2>3. /\ Elements(left) \subseteq {Unsubscribe(c)} /\ Elements(<<request>>) = {request}
          /\ Unsubscribe(c).type # "reconnect" /\ request.type # "reconnect"
      BY ElementsEmpty DEF Elements, Unsubscribe
    <2> HIDE DEF M, left, request
    <2>4. msgs \in Seq(M) /\ Elements(msgs) = Elements(left) \cup Elements(<<request>>)
      BY <2>2, ConcatProperties, ElementsConcat
    <2> HIDE DEF msgs
    <2>5. Quiet(msgs, {"reconnect"})
      BY <2>3, <2>4 DEF Quiet
    <2>6. QED
      BY <2>1, <2>2, <2>4, <2>5, StagesSent
  <1>3. CASE ReceiveAction \/ ReceiveSubscribed \/ ReceiveRefusal
    <2>1. PICK type : /\ ClientTakes(type)
                      /\ UNCHANGED <<hostVars, open, up, phase, transport>>
                      /\ type = "action" \/ serverSeq' = serverSeq
      BY <1>3 DEF ReceiveAction, ReceiveSubscribed, ReceiveRefusal
    <2>2. QED
      BY <2>1, StagesTaken
  <1>4. CASE ReceiveReplay \/ ReceiveSnapshots
    <2>1. PICK type \in UpToDate : /\ ClientTakes(type) /\ DrainAfterReconnect(sub')
                                   /\ UNCHANGED <<hostVars, open, transport>>
      BY <1>4 DEF ReceiveReplay, ReceiveSnapshots, UpToDate
    <2>2. QED
      BY <2>1, StagesDrained
  <1>5. CASE ClientSeesClose \/ AttemptReconnect
    BY <1>5, StagesClosed, StagesReturned
  <1>6. ASSUME NEW c, NEW t \in Transport, Act(c) \/ HandleDispatch(t) \/ RunDispatchQueue
        PROVE  Stages'
    BY <1>6, StagesActs
  <1>7. ASSUME NEW t \in Transport,
               \/ HandleReconnect(t) \/ HandleSubscribe(t) \/ HandleUnsubscribe(t)
               \/ HostSeesClose(t)
        PROVE  Stages'
    BY <1>7, StagesReconnect, StagesReads
  <1>8. ASSUME NEW r \in restoring, HostRestores(r)
        PROVE  Stages'
    BY <1>8, StagesRestore, StagesRespond DEF HostRestores
  <1>9. ASSUME NEW r \in subscribing, HostAnswers(r)
        PROVE  Stages'
    BY <1>9, StagesAnswered
  <1>10. CASE Break
    BY <1>10, StagesBroken
  <1>11. CASE UNCHANGED vars
    BY <1>11, StagesSame DEF vars, hostVars, wireVars, clientVars, stageVars
  <1>12. 1 \in Transport
    BY BoundsAssumption DEF Transport
  <1>13. CASE RunDispatchQueue
    BY <1>6, <1>12, <1>13
  <1>14. ASSUME NEW t \in Transport, HostReads(t)
         PROVE  Stages'
    BY <1>6, <1>7, <1>14 DEF HostReads
  <1>15. ASSUME NEW c \in Channel, Dispatch(c) \/ Subscribe(c) \/ Release(c) \/ Act(c)
         PROVE  Stages'
    BY <1>1, <1>2, <1>6, <1>12, <1>15
  <1>16. CASE ClientRuns
    BY <1>3, <1>4, <1>5, <1>16 DEF ClientRuns
  <1>17. QED
    BY <1>8, <1>9, <1>10, <1>11, <1>13, <1>14, <1>15, <1>16 DEF Next

-----------------------------------------------------------------------------
(* The invariant.  Crossed are the channels hit by the race that breaks it. *)
Crossed == raced["crossed"]

(* The requests asked on a wire, and those the client waits for.            *)
Requests(msgs) == {m.id : m \in {n \in Elements(msgs) : n.type = "subscribe"}}
Answering == {r \in subscribing : r.transport = transport}
Asked == Requests(up[transport]) \cup {r.id : r \in Answering}

(* A client that is not connected waits for no answer.                      *)
Unasked ==
    /\ phase = "waiting" => ~open[transport] /\ down[transport] = <<>>
    /\ phase = "reconnecting" => Asked = {} /\ Quiet(down[transport], {"subscribed"})

(* A channel is acted on when its request is sent.                          *)
GatedFresh ==
    \A m \in Elements(gated) : \A c \in Channel :
       sub[c].entry = m.id => m.channel = c /\ (c \notin Crossed => Pending(c) = {})

OwnChannels ==
    /\ \A n \in 1 .. Len(log) : log[n].own # 0 => log[n].channel = dispatched[log[n].own]
    /\ \A c \in Channel : \A id \in Pending(c) : dispatched[id] = c

(* The actions of the user that count on a channel, each once: among those  *)
(* in P or those in C.                                                      *)
Mine(c) == {id \in OwnId : dispatched[id] = c /\ id \notin cleared}
Once(ids, P, C) == \A id \in ids : (id \in P) # (id \in C)

OnceIfKnown ==
    \A c \in Channel \ Crossed :
       sub[c].entry # 0 /\ sub[c].known => Once(Mine(c), Pending(c), Own(sub[c].confirmed))

(* While the state of a channel is asked for, the actions on it come after  *)
(* the request.                                                             *)
NotTakenYet(id) == id \notin Elements(dispatchQueue) \cup Applied
Arrives(msgs, e, id) ==
    \A i \in 1 .. Len(msgs) :
       msgs[i].type = "subscribe" /\ msgs[i].id = e => \A j \in 1 .. i : msgs[j] # DispatchAction(id)

BehindRequest ==
    phase = "connected" =>
       \A c \in Channel \ Crossed : sub[c].entry \in Asked =>
          \A id \in Pending(c) :
             /\ NotTakenYet(id)
             /\ \A t \in Transport \ {transport} : DispatchAction(id) \notin Elements(up[t])
             /\ Arrives(up[transport], sub[c].entry, id)

(* No action that came before an answer is newer than it, and it contains   *)
(* what was applied of the user's actions and is not pending.               *)
AppliedBy(n) == {log[m].own : m \in 1 .. n}
InOrderWith(msgs) ==
    \A i \in 1 .. Len(msgs) : \A j \in 1 .. i :
       msgs[i].type = "subscribed" /\ msgs[j].type = "action" => msgs[j].seq <= msgs[i].fromSeq
AnswersInOrder == \A t \in Transport : InOrderWith(down[t])

OnceIfAnswered ==
    \A c \in Channel \ Crossed : \A m \in Elements(down[transport]) :
       m.type = "subscribed" /\ m.id = sub[c].entry =>
          /\ Elements(sub[c].buffered) \subseteq 1 .. m.fromSeq
          /\ Once(Mine(c), Pending(c), AppliedBy(m.fromSeq))

(* A snapshot contains what is not pending.                                 *)
NoneLeftOut ==
    phase = "reconnecting" =>
       \A m \in Elements(down[transport]) : m.type = "snapshot" =>
          \A c \in DOMAIN m.snapshots : Mine(c) \subseteq Pending(c) \cup AppliedBy(m.snapshots[c])

ShownInv ==
    /\ Unasked /\ GatedFresh /\ OwnChannels /\ OnceIfKnown /\ BehindRequest
    /\ AnswersInOrder /\ OnceIfAnswered /\ NoneLeftOut

-----------------------------------------------------------------------------
(* Requests and answers on a wire.                                          *)
LEMMA RequestsOf ==
    ASSUME NEW s, NEW t, Elements(s) \subseteq Elements(t)
    PROVE  Requests(s) \subseteq Requests(t)
  BY DEF Requests

LEMMA ArrivesTail ==
    ASSUME NEW M, NEW s \in Seq(M), s # <<>>, NEW e, NEW id, Arrives(s, e, id)
    PROVE  /\ Arrives(Tail(s), e, id)
           /\ e \in Requests(s) => Head(s) # DispatchAction(id)
  <1>1. /\ Head(s) = s[1] /\ 1 \in 1 .. Len(s)
        /\ \A i \in 1 .. Len(Tail(s)) : i + 1 \in 1 .. Len(s) /\ Tail(s)[i] = s[i + 1]
    BY OneLess
  <1>2. ASSUME NEW i \in 1 .. Len(Tail(s)), Tail(s)[i].type = "subscribe", Tail(s)[i].id = e,
               NEW j \in 1 .. i
        PROVE  Tail(s)[j] # DispatchAction(id)
    <2>1. i + 1 \in 1 .. Len(s) /\ s[i + 1].type = "subscribe" /\ s[i + 1].id = e
      BY <1>1, <1>2
    <2>2. j + 1 \in 1 .. i + 1 /\ j \in 1 .. Len(Tail(s))
      BY <1>2, <2>1
    <2>3. s[j + 1] # DispatchAction(id)
      BY <2>1, <2>2 DEF Arrives
    <2>4. QED
      BY <1>1, <2>2, <2>3
  <1>3. ASSUME e \in Requests(s)
        PROVE  Head(s) # DispatchAction(id)
    <2>1. PICK i \in 1 .. Len(s) : s[i].type = "subscribe" /\ s[i].id = e
      BY <1>3 DEF Requests, Elements
    <2>2. 1 \in 1 .. i
      BY <2>1
    <2>3. QED
      BY <1>1, <2>1, <2>2 DEF Arrives
  <1>4. QED
    BY <1>2, <1>3 DEF Arrives

LEMMA ArrivesConcat ==
    ASSUME NEW M, NEW s \in Seq(M), NEW msgs \in Seq(M), NEW e, NEW id,
           \A m \in Elements(msgs) : m.type # "subscribe" \/ m.id # e, Arrives(s, e, id)
    PROVE  Arrives(s \o msgs, e, id)
  <1> DEFINE t == s \o msgs
             l == Len(s)
  <1>1. /\ Len(t) = l + Len(msgs) /\ l \in Nat /\ Len(msgs) \in Nat
        /\ \A i \in 1 .. l + Len(msgs) : t[i] = IF i <= l THEN s[i] ELSE msgs[i - l]
    BY ConcatProperties, LenProperties
  <1> HIDE DEF t
  <1>2. ASSUME NEW i \in 1 .. Len(t), t[i].type = "subscribe", t[i].id = e, NEW j \in 1 .. i
        PROVE  t[j] # DispatchAction(id)
    <2>1. CASE i <= l
      <3>1. i \in 1 .. l /\ j \in 1 .. l /\ t[i] = s[i] /\ t[j] = s[j]
        BY <1>1, <1>2, <2>1
      <3>2. QED
        BY <1>2, <3>1 DEF Arrives
    <2>2. CASE ~(i <= l)
      <3>1. i - l \in 1 .. Len(msgs) /\ t[i] = msgs[i - l]
        BY <1>1, <1>2, <2>2
      <3>2. QED
        BY <1>2, <3>1 DEF Elements
    <2>3. QED
      BY <2>1, <2>2
  <1>3. QED
    BY <1>2 DEF Arrives, t

LEMMA ArrivesIfAbsent ==
    ASSUME NEW M, NEW s \in Seq(M), NEW e, NEW id, DispatchAction(id) \notin Elements(s)
    PROVE  Arrives(s, e, id)
  <1>1. \A i \in 1 .. Len(s) : \A j \in 1 .. i : j \in 1 .. Len(s)
    BY LenProperties
  <1>2. QED
    BY <1>1 DEF Arrives, Elements

LEMMA PrefixOf ==
    ASSUME NEW M, NEW s \in Seq(M), NEW k \in 0 .. Len(s)
    PROVE  /\ \A e, id : Arrives(s, e, id) => Arrives(SubSeq(s, 1, k), e, id)
           /\ InOrderWith(s) => InOrderWith(SubSeq(s, 1, k))
  <1>1. /\ Len(SubSeq(s, 1, k)) = k
        /\ \A i \in 1 .. k : i \in 1 .. Len(s) /\ SubSeq(s, 1, k)[i] = s[i]
        /\ \A i \in 1 .. k : \A j \in 1 .. i : j \in 1 .. k
    BY LenProperties, SubSeqProperties
  <1> HIDE DEF SubSeq
  <1>2. \A e, id : Arrives(s, e, id) => Arrives(SubSeq(s, 1, k), e, id)
    BY <1>1 DEF Arrives
  <1>3. InOrderWith(s) => InOrderWith(SubSeq(s, 1, k))
    BY <1>1 DEF InOrderWith
  <1>4. QED
    BY <1>2, <1>3

LEMMA InOrderTail ==
    ASSUME NEW M, NEW s \in Seq(M), s # <<>>, InOrderWith(s)
    PROVE  /\ InOrderWith(Tail(s))
           /\ Head(s).type = "action" =>
                 \A m \in Elements(Tail(s)) : m.type = "subscribed" => Head(s).seq <= m.fromSeq
  <1>1. /\ Head(s) = s[1] /\ 1 \in 1 .. Len(s)
        /\ \A i \in 1 .. Len(Tail(s)) : i + 1 \in 1 .. Len(s) /\ Tail(s)[i] = s[i + 1]
    BY OneLess
  <1>2. ASSUME NEW i \in 1 .. Len(Tail(s)), NEW j \in 1 .. i,
               Tail(s)[i].type = "subscribed", Tail(s)[j].type = "action"
        PROVE  Tail(s)[j].seq <= Tail(s)[i].fromSeq
    <2>1. /\ j \in 1 .. Len(Tail(s)) /\ j + 1 \in 1 .. i + 1 /\ i + 1 \in 1 .. Len(s)
      BY <1>1, <1>2
    <2>2. s[i + 1].type = "subscribed" /\ s[j + 1].type = "action"
      BY <1>1, <1>2, <2>1
    <2>3. s[j + 1].seq <= s[i + 1].fromSeq
      BY <2>1, <2>2 DEF InOrderWith
    <2>4. QED
      BY <1>1, <2>1, <2>3
  <1>3. ASSUME Head(s).type = "action", NEW i \in 1 .. Len(Tail(s)), Tail(s)[i].type = "subscribed"
        PROVE  Head(s).seq <= Tail(s)[i].fromSeq
    <2>1. i + 1 \in 1 .. Len(s) /\ 1 \in 1 .. i + 1 /\ s[1].type = "action"
          /\ s[i + 1].type = "subscribed"
      BY <1>1, <1>3
    <2>2. s[1].seq <= s[i + 1].fromSeq
      BY <2>1 DEF InOrderWith
    <2>3. QED
      BY <1>1, <2>2
  <1>4. QED
    BY <1>2, <1>3 DEF InOrderWith, Elements

LEMMA InOrderMore ==
    ASSUME NEW M, NEW s \in Seq(M), NEW m \in M, InOrderWith(s),
           m.type = "subscribed" => \A k \in Elements(s) : k.type = "action" => k.seq <= m.fromSeq
    PROVE  InOrderWith(s \o <<m>>)
  <1> DEFINE t == s \o <<m>>
             n == Len(s) + 1
  <1>1. /\ Len(t) = n /\ t[n] = m /\ \A i \in 1 .. Len(s) : t[i] = s[i]
        /\ Len(s) \in Nat
    BY OneMore
  <1> HIDE DEF t
  <1>2. ASSUME NEW i \in 1 .. Len(t), NEW j \in 1 .. i,
               t[i].type = "subscribed", t[j].type = "action"
        PROVE  t[j].seq <= t[i].fromSeq
    <2>1. CASE i = n
      <3>1. m.type = "subscribed" /\ j # n
        BY <1>1, <1>2, <2>1
      <3>2. j \in 1 .. Len(s) /\ t[j] = s[j] /\ s[j] \in Elements(s)
        BY <1>1, <1>2, <2>1, <3>1 DEF Elements
      <3>3. QED
        BY <1>1, <1>2, <2>1, <3>1, <3>2
    <2>2. CASE i \in 1 .. Len(s)
      <3>1. j \in 1 .. Len(s) /\ t[j] = s[j] /\ t[i] = s[i]
        BY <1>1, <1>2, <2>2
      <3>2. QED
        BY <1>2, <2>2, <3>1 DEF InOrderWith
    <2>3. QED
      BY <1>1, <1>2, <2>1, <2>2
  <1>3. QED
    BY <1>2 DEF InOrderWith, t

-----------------------------------------------------------------------------
(* What a step makes of a subscription.                                     *)
LEMMA OwnConcat ==
    ASSUME NEW s \in ServerSeqs, NEW t \in ServerSeqs
    PROVE  Own(s \o t) = Own(s) \cup Own(t)
  BY ElementsConcat DEF Own, ServerSeqs

LEMMA OwnNone == Own(<<>>) = {}
  BY ElementsEmpty DEF Own

LEMMA ReconcileFields ==
    ASSUME NEW s \in Subscription, NEW ns \in ServerSeqs
    PROVE  /\ Reconcile(s, ns).entry = s.entry /\ Reconcile(s, ns).known = s.known
           /\ Reconcile(s, ns).failed = s.failed /\ Reconcile(s, ns).buffered = s.buffered
           /\ Reconcile(s, ns).confirmed = s.confirmed \o ns
           /\ Elements(Reconcile(s, ns).pending) = Elements(s.pending) \ Own(ns)
  <1>1. Elements(Without(s.pending, Own(ns))) = Elements(s.pending) \ Own(ns)
    BY WithoutType DEF Subscription
  <1>2. QED
    BY <1>1 DEF Reconcile, Subscription

LEMMA ReceiveFields ==
    ASSUME NEW s \in Subscription, NEW ns \in ServerSeqs
    PROVE  /\ ReceiveEnvelope(s, ns).entry = s.entry /\ ReceiveEnvelope(s, ns).known = s.known
           /\ ReceiveEnvelope(s, ns).failed = s.failed
           /\ s.entry = 0 => ReceiveEnvelope(s, ns) = s
           /\ s.entry # 0 /\ s.known =>
                 /\ ReceiveEnvelope(s, ns).buffered = s.buffered
                 /\ ReceiveEnvelope(s, ns).confirmed = s.confirmed \o ns
                 /\ Elements(ReceiveEnvelope(s, ns).pending) = Elements(s.pending) \ Own(ns)
           /\ s.entry # 0 /\ ~s.known =>
                 /\ ReceiveEnvelope(s, ns).buffered = s.buffered \o ns
                 /\ ReceiveEnvelope(s, ns).confirmed = s.confirmed
                 /\ ReceiveEnvelope(s, ns).pending = s.pending
  <1>1. CASE s.entry # 0 /\ s.known
    BY <1>1, ReconcileFields DEF ReceiveEnvelope
  <1>2. CASE s.entry = 0
    BY <1>2 DEF ReceiveEnvelope
  <1>3. CASE s.entry # 0 /\ ~s.known
    BY <1>3 DEF ReceiveEnvelope, Subscription
  <1>4. QED
    BY <1>1, <1>2, <1>3

LEMMA ChangedFields ==
    ASSUME NEW s \in Subscription
    PROVE  /\ ClearPending(s) = [s EXCEPT !.pending = <<>>] /\ ClearPending(s).pending = <<>>
           /\ ClearPending(s).entry = s.entry /\ ClearPending(s).known = s.known
           /\ ClearPending(s).confirmed = s.confirmed /\ ClearPending(s).buffered = s.buffered
           /\ SetError(s).entry = s.entry /\ SetError(s).known = s.known
           /\ SetError(s).confirmed = s.confirmed /\ SetError(s).buffered = s.buffered
           /\ SetError(s).pending = s.pending
  BY DEF ClearPending, SetError, Subscription

LEMMA SnapshotFields ==
    ASSUME TypeInv, NEW s \in Subscription, NEW c, NEW n \in 0 .. Len(log)
    PROVE  /\ HandleSnapshot(s, c, n).entry = s.entry
           /\ Elements(HandleSnapshot(s, c, n).pending) \subseteq Elements(s.pending)
           /\ HandleSnapshot(s, c, n).buffered = <<>>
           /\ Own(StateAt(c, n)) \subseteq Own(HandleSnapshot(s, c, n).confirmed)
           /\ Elements(s.buffered) \subseteq 1 .. n =>
                 /\ HandleSnapshot(s, c, n).confirmed = StateAt(c, n)
                 /\ Elements(HandleSnapshot(s, c, n).pending) = Elements(s.pending)
  <1> DEFINE new == [s EXCEPT !.known = TRUE, !.failed = FALSE, !.confirmed = StateAt(c, n),
                              !.buffered = <<>>]
             S == {m \in Elements(s.buffered) : m > n}
             ns == Where(s.buffered, S)
  <1>1. /\ new \in Subscription /\ new.pending = s.pending /\ new.entry = s.entry
        /\ new.buffered = <<>> /\ new.confirmed = StateAt(c, n)
    <2>1. StateAt(c, n) \in ServerSeqs /\ <<>> \in ServerSeqs
      BY StateType, EmptySeq DEF ServerSeqs
    <2>2. QED
      BY <2>1 DEF Subscription
  <1>2. s.buffered \in Seq(1 .. Len(log))
    BY DEF Subscription, ServerSeqs
  <1>3. Elements(s.buffered) \subseteq 1 .. n => ns = <<>>
    <2>1. Elements(s.buffered) \subseteq 1 .. n => Elements(s.buffered) \cap S = {}
      BY Lengths
    <2> HIDE DEF S
    <2>2. QED
      BY <1>2, <2>1, WhereNone
  <1>4. ns \in ServerSeqs
    <2> HIDE DEF S
    <2>1. QED
      BY <1>2, WhereType DEF ServerSeqs
  <1>5. HandleSnapshot(s, c, n) = Reconcile(new, ns)
    BY DEF HandleSnapshot
  <1> HIDE DEF new, ns
  <1>6. /\ Reconcile(new, ns).entry = new.entry
        /\ Reconcile(new, ns).buffered = new.buffered
        /\ Reconcile(new, ns).confirmed = new.confirmed \o ns
        /\ Elements(Reconcile(new, ns).pending) = Elements(new.pending) \ Own(ns)
    BY <1>1, <1>4, ReconcileFields
  <1>7. StateAt(c, n) \o <<>> = StateAt(c, n)
    BY StateType, ConcatEmptySeq DEF ServerSeqs
  <1>8. Own(StateAt(c, n) \o ns) = Own(StateAt(c, n)) \cup Own(ns)
    BY <1>4, StateType, OwnConcat
  <1>9. QED
    BY <1>1, <1>3, <1>5, <1>6, <1>7, <1>8, OwnNone

LEMMA ReplayFields ==
    ASSUME TypeInv, NEW c \in Channel, NEW missed \in ServerSeqs
    PROVE  /\ AllReplayed(c, missed).entry = sub[c].entry
           /\ AllReplayed(c, missed).known = sub[c].known
           /\ Elements(AllReplayed(c, missed).pending) \subseteq Pending(c)
           /\ sub[c].entry # 0 /\ sub[c].known =>
                 /\ Own(AllReplayed(c, missed).confirmed)
                       = Own(sub[c].confirmed) \cup Own(Where(missed, On(c)))
                 /\ Elements(AllReplayed(c, missed).pending)
                       = Pending(c) \ Own(Where(missed, On(c)))
  <1> DEFINE mine == Where(missed, On(c))
             s == [sub[c] EXCEPT !.pending = Without(@, Own(mine))]
  <1>1. mine \in ServerSeqs /\ sub[c] \in Subscription /\ sub[c].confirmed \in ServerSeqs
    BY WhereType DEF TypeInv, ServerSeqs, Subscription
  <1> HIDE DEF mine
  <1>2. /\ Without(sub[c].pending, Own(mine)) \in Seq(OwnId)
        /\ Elements(Without(sub[c].pending, Own(mine))) = Pending(c) \ Own(mine)
    BY <1>1, WithoutType DEF Subscription, Pending
  <1>3. /\ s \in Subscription /\ s.entry = sub[c].entry /\ s.known = sub[c].known
        /\ s.confirmed = sub[c].confirmed
        /\ s.pending = Without(sub[c].pending, Own(mine))
    BY <1>1, <1>2 DEF Subscription
  <1>4. AllReplayed(c, missed) = ReceiveEnvelope(s, mine)
    BY DEF AllReplayed, mine
  <1> HIDE DEF s
  <1>5. /\ ReceiveEnvelope(s, mine).entry = s.entry /\ ReceiveEnvelope(s, mine).known = s.known
        /\ s.entry = 0 => ReceiveEnvelope(s, mine) = s
        /\ s.entry # 0 /\ s.known =>
              /\ ReceiveEnvelope(s, mine).confirmed = s.confirmed \o mine
              /\ Elements(ReceiveEnvelope(s, mine).pending) = Elements(s.pending) \ Own(mine)
        /\ s.entry # 0 /\ ~s.known => ReceiveEnvelope(s, mine).pending = s.pending
    BY <1>1, <1>3, ReceiveFields
  <1>6. Own(sub[c].confirmed \o mine) = Own(sub[c].confirmed) \cup Own(mine)
    BY <1>1, OwnConcat
  <1>7. QED
    BY <1>2, <1>3, <1>4, <1>5, <1>6 DEF mine

(* What is confirmed is no longer pending.                                  *)
LEMMA OnceMoved ==
    ASSUME NEW ids, NEW P, NEW C, NEW X, Once(ids, P, C)
    PROVE  /\ Once(ids, P \ X, C \cup X)
           /\ X \subseteq C => Once(ids, P \ X, C)
  BY DEF Once

LEMMA StateHas ==
    ASSUME TypeInv, OwnChannels, NEW c, NEW n \in 0 .. Len(log)
    PROVE  \A id \in Mine(c) : id \in Own(StateAt(c, n)) <=> id \in AppliedBy(n)
  <1>1. Elements(StateAt(c, n)) = (1 .. n) \cap On(c)
    <2>1. UpTo(n) \in Seq(1 .. Len(log)) /\ Elements(UpTo(n)) = 1 .. n
      BY Lengths, UpToType
    <2>2. QED
      BY <2>1, WhereType DEF StateAt
  <1>2. \A m \in 1 .. n : m \in 1 .. Len(log)
    BY Lengths
  <1>3. ASSUME NEW id \in Mine(c)
        PROVE  id \in Own(StateAt(c, n)) <=> id \in AppliedBy(n)
    <2>1. id # 0 /\ dispatched[id] = c
      BY <1>3 DEF OwnId, Mine
    <2>2. \A m \in 1 .. n : log[m].own = id => m \in On(c)
      BY <1>2, <2>1 DEF OwnChannels, On
    <2>3. QED
      BY <1>1, <2>2 DEF Own, AppliedBy
  <1>4. QED
    BY <1>3

(* What was applied of the actions of the user and what is pending is all   *)
(* there is.                                                                *)
LEMMA AllApplied ==
    ASSUME TypeInv, OrderInv, OwnChannels, NEW c \in Channel
    PROVE  /\ Elements(sub[c].buffered) \subseteq 1 .. Len(log)
           /\ AppliedBy(Len(log)) = Applied
           /\ Mine(c) \subseteq Pending(c) \cup Applied
  <1>1. AppliedBy(Len(log)) = Applied
    <2>1. Len(Owns) = Len(log) /\ \A n \in 1 .. Len(log) : Owns[n] = log[n].own
      BY InTurnTypes
    <2>2. QED
      BY <2>1 DEF AppliedBy, Applied, Elements
  <1>2. ASSUME NEW id \in Mine(c)
        PROVE  id \in Pending(c) \cup Applied
    <2>1. id \in OwnId /\ dispatched[id] = c /\ id \notin cleared
      BY <1>2 DEF Mine
    <2>2. id \in Applied \/ \E d \in Channel : id \in Pending(d)
      BY <2>1 DEF OrderInv, NoneForgotten, Standing
    <2>3. \A d \in Channel : id \in Pending(d) => d = c
      BY <2>1 DEF OwnChannels
    <2>4. QED
      BY <2>2, <2>3
  <1>3. Elements(sub[c].buffered) \subseteq 1 .. Len(log)
    BY ElementsType DEF TypeInv, Subscription, ServerSeqs
  <1>4. QED
    BY <1>1, <1>2, <1>3

LEMMA InitShown == Init => ShownInv
  <1> SUFFICES ASSUME Init PROVE ShownInv
    OBVIOUS
  <1>1. /\ transport \in Transport /\ Len(<<>>) = 0 /\ Elements(<<>>) = {}
        /\ \A t \in Transport : up[t] = <<>> /\ down[t] = <<>>
        /\ phase = "connected" /\ gated = <<>> /\ log = <<>> /\ dispatched = <<>>
        /\ subscribing = {}
    BY BoundsAssumption, ElementsEmpty, EmptySeq DEF Init, Transport
  <1>2. \A c \in Channel : Pending(c) = {}
    BY <1>1 DEF Init, NoSubscription, Pending
  <1>3. Asked = {}
    BY <1>1 DEF Asked, Requests, Answering
  <1>4. \A c : Mine(c) = {}
    BY <1>1 DEF Mine, OwnId
  <1>5. Unasked /\ GatedFresh /\ OwnChannels /\ NoneLeftOut
    BY <1>1, <1>2 DEF Unasked, GatedFresh, OwnChannels, NoneLeftOut
  <1>6. OnceIfKnown /\ BehindRequest /\ OnceIfAnswered
    BY <1>1, <1>3, <1>4 DEF OnceIfKnown, BehindRequest, OnceIfAnswered, Once
  <1>7. AnswersInOrder
    BY <1>1 DEF AnswersInOrder, InOrderWith
  <1>8. QED
    BY <1>5, <1>6, <1>7 DEF ShownInv

-----------------------------------------------------------------------------
(* The host.  It takes what is first on a wire, while nothing is asked for, *)
(* and what it says of a channel is what there is.                          *)
LogGrows == Len(log) <= Len(log') /\ \A n \in 1 .. Len(log) : log'[n] = log[n]
TakesOne(t) ==
    \/ up'[t] = up[t]
    \/ subscribing = {} /\ up[t] # <<>> /\ up'[t] = Tail(up[t])
Takes(id) ==
    \E t \in Transport : /\ up'[t] # up[t]
                         /\ Head(up[t]) = DispatchAction(id)
Current(t, m) ==
    /\ m.type = "subscribed" => /\ m.fromSeq = Len(log)
                                /\ t = transport => m.id \in Asked
    /\ m.type = "snapshot" => \A c \in DOMAIN m.snapshots :
                                 c \in Channel /\ m.snapshots[c] = Len(log)
Tells(t) ==
    \/ down'[t] = down[t]
    \/ open[t] /\ \E m \in DownMessage' : Current(t, m) /\ down'[t] = down[t] \o <<m>>

LEMMA TakesLess ==
    ASSUME TypeInv, NEW t \in Transport, TakesOne(t)
    PROVE  /\ Elements(up'[t]) \subseteq Elements(up[t])
           /\ Requests(up'[t]) \subseteq Requests(up[t])
           /\ \A e, id : Arrives(up[t], e, id) => Arrives(up'[t], e, id)
  <1>1. up[t] \in Seq(UpMessage)
    BY DEF TypeInv
  <1>2. CASE up'[t] = up[t]
    BY <1>2
  <1>3. CASE up[t] # <<>> /\ up'[t] = Tail(up[t])
    <2>1. Elements(Tail(up[t])) \subseteq Elements(up[t])
      BY <1>1, <1>3, ElementsTail
    <2>2. \A e, id : Arrives(up[t], e, id) => Arrives(Tail(up[t]), e, id)
      BY <1>1, <1>3, ArrivesTail
    <2>3. QED
      BY <1>3, <2>1, <2>2, RequestsOf
  <1>4. QED
    BY <1>2, <1>3 DEF TakesOne

(* What the client has is not touched.                                      *)
LEMMA HostKnown ==
    ASSUME TypeInv, ShownInv, UNCHANGED clientVars, Crossed \subseteq Crossed', LogGrows,
           \A n \in 1 .. Len(log') :
              log'[n].own # 0 => log'[n].channel = dispatched[log'[n].own]
    PROVE  /\ GatedFresh' /\ OwnChannels' /\ OnceIfKnown'
           /\ \A n \in 0 .. Len(log) : AppliedBy(n)' = AppliedBy(n)
           /\ \A c : Mine(c)' = Mine(c) /\ Pending(c)' = Pending(c)
  <1>1. UNCHANGED <<gated, sub, dispatched, cleared>>
    BY DEF clientVars
  <1>2. \A c : Mine(c)' = Mine(c) /\ Pending(c)' = Pending(c)
    BY <1>1 DEF Mine, OwnId, Pending
  <1>3. GatedFresh' /\ OwnChannels'
    BY <1>1, <1>2 DEF ShownInv, GatedFresh, OwnChannels
  <1>4. OnceIfKnown'
    <2>1. ASSUME NEW c \in Channel
          PROVE  Own(sub[c].confirmed)' = Own(sub[c].confirmed)
      <3>1. Elements(sub[c].confirmed) \subseteq 1 .. Len(log)
        BY ElementsType DEF TypeInv, Subscription, ServerSeqs
      <3>2. QED
        BY <1>1, <3>1 DEF LogGrows, Own
    <2>2. QED
      BY <1>1, <1>2, <2>1 DEF ShownInv, OnceIfKnown
  <1>5. \A n \in 0 .. Len(log) : AppliedBy(n)' = AppliedBy(n)
    <2>1. \A n \in 0 .. Len(log) : \A m \in 1 .. n : m \in 1 .. Len(log)
      BY Lengths
    <2>2. QED
      BY <2>1 DEF LogGrows, AppliedBy
  <1>6. QED
    BY <1>2, <1>3, <1>4, <1>5

LEMMA HostBehind ==
    ASSUME TypeInv, ShownInv, UNCHANGED clientVars, Crossed \subseteq Crossed',
           \A t \in Transport : TakesOne(t), Asked' \subseteq Asked,
           \A id \in OwnId : NotTakenYet(id) => NotTakenYet(id)' \/ Takes(id)
    PROVE  BehindRequest'
  <1>1. /\ UNCHANGED <<sub, phase, transport>> /\ \A c \in Channel : Pending(c) \subseteq OwnId
        /\ transport \in Transport
    BY PendingType DEF clientVars, TypeInv
  <1>2. ASSUME phase = "connected", NEW c \in Channel \ Crossed, sub[c].entry \in Asked',
               NEW id \in Pending(c)
        PROVE  /\ NotTakenYet(id)'
               /\ \A t \in Transport \ {transport} : DispatchAction(id) \notin Elements(up'[t])
               /\ Arrives(up'[transport], sub[c].entry, id)
    <2>1. /\ NotTakenYet(id)
          /\ \A t \in Transport \ {transport} : DispatchAction(id) \notin Elements(up[t])
          /\ Arrives(up[transport], sub[c].entry, id)
      BY <1>2 DEF ShownInv, BehindRequest
    <2>2. \A t \in Transport \ {transport} : DispatchAction(id) \notin Elements(up'[t])
      BY <2>1, TakesLess
    <2>3. Arrives(up'[transport], sub[c].entry, id)
      BY <1>1, <2>1, TakesLess
    <2>4. ASSUME Takes(id)
          PROVE  FALSE
      <3>1. PICK t \in Transport : up'[t] # up[t] /\ Head(up[t]) = DispatchAction(id)
        BY <2>4 DEF Takes
      <3>2. subscribing = {} /\ up[t] # <<>> /\ up[t] \in Seq(UpMessage)
        BY <3>1 DEF TakesOne, TypeInv
      <3>3. sub[c].entry \in Requests(up[transport])
        BY <1>2, <3>2 DEF Asked, Answering
      <3>4. CASE t = transport
        <4>1. Head(up[t]) # DispatchAction(id)
          BY <2>1, <3>2, <3>3, <3>4, ArrivesTail
        <4>2. QED
          BY <3>1, <4>1
      <3>5. CASE t # transport
        <4>1. Head(up[t]) \in Elements(up[t])
          BY <3>2, ElementsTail
        <4>2. QED
          BY <2>1, <3>1, <3>5, <4>1
      <3>6. QED
        BY <3>4, <3>5
    <2>5. id \in OwnId
      BY <1>1, <1>2
    <2>6. QED
      BY <2>1, <2>2, <2>3, <2>4, <2>5
  <1>3. QED
    BY <1>1, <1>2 DEF BehindRequest, Pending

LEMMA HostTells ==
    ASSUME TypeInv, OrderInv, ShownInv, UNCHANGED clientVars, UNCHANGED open,
           Crossed \subseteq Crossed',
           \A n \in 0 .. Len(log) : AppliedBy(n)' = AppliedBy(n),
           \A c : Mine(c)' = Mine(c) /\ Pending(c)' = Pending(c),
           Asked' \subseteq Asked, \A t \in Transport : Tells(t)
    PROVE  Unasked' /\ AnswersInOrder' /\ OnceIfAnswered' /\ NoneLeftOut'
  <1>1. /\ UNCHANGED <<sub, phase, transport>> /\ transport \in Transport
        /\ \A t \in Transport : down[t] \in Seq(DownMessage)
        /\ Len(log) \in Nat /\ phase \in {"connected", "waiting", "reconnecting"}
    BY Lengths DEF clientVars, TypeInv
  <1>2. ASSUME NEW t \in Transport, NEW m \in DownMessage', Current(t, m), open[t],
               down'[t] = down[t] \o <<m>>
        PROVE  /\ Elements(down'[t]) = Elements(down[t]) \cup {m}
               /\ InOrderWith(down'[t])
    <2>1. down[t] \in Seq(DownMessage \cup {m}) /\ m \in DownMessage \cup {m}
      BY <1>1, SeqMonotonic
    <2>2. Elements(down'[t]) = Elements(down[t]) \cup {m}
      BY <1>2, <2>1, OneMore
    <2>3. \A k \in Elements(down[t]) : k.type = "action" => k.seq <= Len(log)
      <3>1. \A k \in Elements(down[t]) : k \in DownMessage
        BY <1>1, ElementsType
      <3>2. \A k \in DownMessage : k.type = "action" => k.seq <= Len(log)
        BY <1>1 DEF DownMessage
      <3>3. QED
        BY <3>1, <3>2
    <2>4. InOrderWith(down[t])
      BY DEF ShownInv, AnswersInOrder
    <2>5. m.type = "subscribed" => \A k \in Elements(down[t]) : k.type = "action" => k.seq <= m.fromSeq
      BY <1>2, <2>3 DEF Current
    <2>6. InOrderWith(down[t] \o <<m>>)
      BY <2>1, <2>4, <2>5, InOrderMore
    <2>7. QED
      BY <1>2, <2>2, <2>6
  <1>3. AnswersInOrder'
    <2>1. ASSUME NEW t \in Transport PROVE InOrderWith(down'[t])
      BY <1>2 DEF Tells, ShownInv, AnswersInOrder
    <2>2. QED
      BY <2>1 DEF AnswersInOrder
  <1>4. \/ down'[transport] = down[transport]
        \/ /\ open[transport]
           /\ \E m : /\ Current(transport, m)
                     /\ Elements(down'[transport]) = Elements(down[transport]) \cup {m}
    BY <1>1, <1>2 DEF Tells
  <1>5. Unasked'
    <2>1. phase = "waiting" => ~open[transport] /\ down'[transport] = <<>>
      BY <1>4 DEF ShownInv, Unasked
    <2>2. ASSUME phase = "reconnecting"
          PROVE  Asked' = {} /\ Quiet(down'[transport], {"subscribed"})
      <3>1. Asked = {} /\ Quiet(down[transport], {"subscribed"})
        BY <2>2 DEF ShownInv, Unasked
      <3>2. QED
        BY <1>4, <3>1 DEF Quiet, Current
    <2>3. QED
      BY <1>1, <2>1, <2>2 DEF Unasked
  <1>6. \A m \in Elements(down[transport]) :
           /\ m.type = "subscribed" => m.fromSeq \in 0 .. Len(log)
           /\ m.type = "snapshot" => \A c \in DOMAIN m.snapshots :
                                        c \in Channel /\ m.snapshots[c] \in 0 .. Len(log)
    <2>1. \A m \in Elements(down[transport]) : m \in DownMessage
      BY <1>1, ElementsType
    <2>2. \A m \in DownMessage : m.type = "subscribed" => m.fromSeq \in 0 .. Len(log)
      BY DEF DownMessage
    <2>3. \A m \in DownMessage : m.type = "snapshot" => m.snapshots \in Snapshots
      BY DEF DownMessage
    <2>4. \A s \in Snapshots : \A c \in DOMAIN s : c \in Channel /\ s[c] \in 0 .. Len(log)
      BY DEF Snapshots
    <2>5. QED
      BY <2>1, <2>2, <2>3, <2>4
  <1>7. Len(log) \in 0 .. Len(log)
    BY <1>1
  <1>8. OnceIfAnswered'
    <2>1. ASSUME NEW c \in Channel \ Crossed, NEW m \in Elements(down'[transport]),
                 m.type = "subscribed", m.id = sub[c].entry
          PROVE  /\ Elements(sub[c].buffered) \subseteq 1 .. m.fromSeq
                 /\ Once(Mine(c), Pending(c), AppliedBy(m.fromSeq))
                 /\ m.fromSeq \in 0 .. Len(log)
      <3>1. CASE m \in Elements(down[transport])
        BY <1>6, <2>1, <3>1 DEF ShownInv, OnceIfAnswered
      <3>2. CASE m \notin Elements(down[transport])
        <4>1. open[transport] /\ Current(transport, m)
          BY <1>4, <2>1, <3>2
        <4>2. m.fromSeq = Len(log) /\ sub[c].entry \in Asked
          BY <2>1, <4>1 DEF Current
        <4>3. phase = "connected"
          BY <1>1, <4>1, <4>2 DEF ShownInv, Unasked
        <4>4. \A id \in Pending(c) : NotTakenYet(id)
          BY <4>2, <4>3 DEF ShownInv, BehindRequest
        <4>5. /\ Elements(sub[c].buffered) \subseteq 1 .. Len(log)
              /\ AppliedBy(Len(log)) = Applied
              /\ Mine(c) \subseteq Pending(c) \cup Applied
          BY AllApplied DEF ShownInv
        <4>6. QED
          BY <1>7, <4>2, <4>4, <4>5 DEF Once, NotTakenYet
      <3>3. QED
        BY <3>1, <3>2
    <2>2. QED
      BY <1>1, <2>1 DEF OnceIfAnswered
  <1>9. NoneLeftOut'
    <2>1. ASSUME phase = "reconnecting", NEW m \in Elements(down'[transport]),
                 m.type = "snapshot", NEW c \in DOMAIN m.snapshots
          PROVE  /\ Mine(c) \subseteq Pending(c) \cup AppliedBy(m.snapshots[c])
                 /\ m.snapshots[c] \in 0 .. Len(log)
      <3>1. CASE m \in Elements(down[transport])
        BY <1>6, <2>1, <3>1 DEF ShownInv, NoneLeftOut
      <3>2. CASE m \notin Elements(down[transport])
        <4>1. Current(transport, m)
          BY <1>4, <2>1, <3>2
        <4>2. c \in Channel /\ m.snapshots[c] = Len(log)
          BY <2>1, <4>1 DEF Current
        <4>3. /\ AppliedBy(Len(log)) = Applied
              /\ Mine(c) \subseteq Pending(c) \cup Applied
          BY <4>2, AllApplied DEF ShownInv
        <4>4. QED
          BY <1>7, <4>2, <4>3
      <3>3. QED
        BY <3>1, <3>2
    <2>2. QED
      BY <1>1, <2>1 DEF NoneLeftOut
  <1>10. QED
    BY <1>3, <1>5, <1>8, <1>9

LEMMA HostShown ==
    ASSUME TypeInv, OrderInv, ShownInv, UNCHANGED clientVars, UNCHANGED open,
           Crossed \subseteq Crossed', LogGrows,
           \A n \in 1 .. Len(log') :
              log'[n].own # 0 => log'[n].channel = dispatched[log'[n].own],
           Asked' \subseteq Asked, \A t \in Transport : TakesOne(t) /\ Tells(t),
           \A id \in OwnId : NotTakenYet(id) => NotTakenYet(id)' \/ Takes(id)
    PROVE  ShownInv'
  <1>1. /\ GatedFresh' /\ OwnChannels' /\ OnceIfKnown'
        /\ \A n \in 0 .. Len(log) : AppliedBy(n)' = AppliedBy(n)
        /\ \A c : Mine(c)' = Mine(c) /\ Pending(c)' = Pending(c)
    BY HostKnown
  <1>2. BehindRequest'
    BY HostBehind
  <1>3. Unasked' /\ AnswersInOrder' /\ OnceIfAnswered' /\ NoneLeftOut'
    BY <1>1, HostTells
  <1>4. QED
    BY <1>1, <1>2, <1>3 DEF ShownInv

(* What a race makes of the crossed channels.                               *)
LEMMA RaceKeeps ==
    ASSUME RacedType, NEW race \in Races, NEW S, Race(race, S)
    PROVE  /\ Crossed \subseteq Crossed'
           /\ race = "crossed" => Crossed' = Crossed \cup S
  BY DEF RacedType, Race, Crossed, Races

LEMMA OneTaken ==
    ASSUME TypeInv, Evicted = {}, NEW t \in Transport, NEW type, HostTakes(t, type)
    PROVE  /\ \A u \in Transport : TakesOne(u)
           /\ up[t] # <<>> /\ Head(up[t]) \in UpMessage /\ Head(up[t]).type = type
           /\ up'[t] = Tail(up[t]) /\ up'[t] # up[t] /\ subscribing = {}
           /\ \A u \in Transport : u # t => up'[u] = up[u]
  <1>1. /\ up[t] # <<>> /\ Head(up[t]).type = type /\ up[t] \in Seq(UpMessage)
        /\ up'[t] = Tail(up[t]) /\ \A u \in Transport : u # t => up'[u] = up[u]
        /\ subscribing = {}
    BY AtRestThen DEF HostTakes, TypeInv, AtRest
  <1>2. Len(Tail(up[t])) = Len(up[t]) - 1 /\ Len(up[t]) \in Nat
    BY <1>1, OneLess
  <1>3. up'[t] # up[t]
    <2>1. Len(Tail(up[t])) # Len(up[t])
      BY <1>2
    <2>2. Tail(up[t]) # up[t]
      BY <2>1
    <2>3. QED
      BY <1>1, <2>2
  <1>4. Head(up[t]) \in UpMessage
    BY <1>1, HeadTailProperties
  <1>5. QED
    BY <1>1, <1>3, <1>4 DEF TakesOne

LEMMA SameApplied ==
    ASSUME UNCHANGED <<log, dispatchQueue>>
    PROVE  \A id \in OwnId : NotTakenYet(id) => NotTakenYet(id)'
  BY DEF NotTakenYet, Applied, Owns

(* Nothing more is asked for when the host takes something.                 *)
LEMMA AskedLess ==
    ASSUME TypeInv, UNCHANGED <<subscribing, clientVars>>, \A t \in Transport : TakesOne(t)
    PROVE  Asked' \subseteq Asked
  <1>1. transport' = transport /\ transport \in Transport
    BY DEF clientVars, TypeInv
  <1>2. Requests(up'[transport]) \subseteq Requests(up[transport])
    BY <1>1, TakesLess
  <1>3. QED
    BY <1>1, <1>2 DEF Asked, Answering, Requests

LEMMA AppliesShown ==
    ASSUME TypeInv, OrderInv, ShownInv, RacedType, NEW c, NEW own \in Nat, ApplyAndEmit(c, own),
           own # 0 => own \in OwnId /\ c = dispatched[own],
           UNCHANGED <<subscribing, open, clientVars>>,
           \A t \in Transport : TakesOne(t),
           \A id \in OwnId : id \in Elements(dispatchQueue') \/ id = own =>
                                id \in Elements(dispatchQueue) \/ Takes(id)
    PROVE  ShownInv'
  <1>1. /\ Len(log) \in Nat /\ Len(log') = Len(log) + 1
        /\ log'[Len(log) + 1] = [channel |-> c, own |-> own]
        /\ \A n \in 1 .. Len(log) : log'[n] = log[n]
    BY AppendProperties, LenProperties DEF ApplyAndEmit, TypeInv
  <1>2. LogGrows
    BY <1>1 DEF LogGrows
  <1>3. \A n \in 1 .. Len(log') : log'[n].own # 0 => log'[n].channel = dispatched[log'[n].own]
    <2>1. \A n \in 1 .. Len(log') : n = Len(log) + 1 \/ n \in 1 .. Len(log)
      BY <1>1
    <2>2. \A n \in 1 .. Len(log) : log[n].own # 0 => log[n].channel = dispatched[log[n].own]
      BY DEF ShownInv, OwnChannels
    <2>3. QED
      BY <1>1, <2>1, <2>2
  <1>4. ASSUME NEW t \in Transport
        PROVE  Tells(t)
    <2> DEFINE m == [type |-> "action", seq |-> Len(log')]
    <2>1. m \in DownMessage' /\ Current(t, m)
      BY <1>1 DEF DownMessage, Current
    <2>2. down'[t] = down[t] \/ (open[t] /\ down'[t] = down[t] \o <<m>>)
      BY <1>1, BroadcastTo DEF ApplyAndEmit
    <2> HIDE DEF m
    <2>3. QED
      BY <2>1, <2>2 DEF Tells
  <1>5. \A id \in OwnId : NotTakenYet(id) => NotTakenYet(id)' \/ Takes(id)
    <2>1. Applied' = Applied \cup {own}
      BY OneMoreApplied
    <2>2. QED
      BY <2>1 DEF NotTakenYet
  <1>6. Crossed \subseteq Crossed'
    BY RaceKeeps DEF ApplyAndEmit, Races
  <1>7. Asked' \subseteq Asked
    BY AskedLess
  <1>8. QED
    BY <1>2, <1>3, <1>4, <1>5, <1>6, <1>7, HostShown

(* The host handles something without applying or saying anything.          *)
LEMMA QuietShown ==
    ASSUME TypeInv, OrderInv, ShownInv, UNCHANGED <<log, open, clientVars, raced>>,
           \A t \in Transport : TakesOne(t) /\ Tells(t), Asked' \subseteq Asked,
           \A id \in OwnId : NotTakenYet(id) => NotTakenYet(id)' \/ Takes(id)
    PROVE  ShownInv'
  <1>1. LogGrows /\ Crossed \subseteq Crossed'
    BY Lengths DEF LogGrows, Crossed
  <1>2. \A n \in 1 .. Len(log') : log'[n].own # 0 => log'[n].channel = dispatched[log'[n].own]
    BY DEF ShownInv, OwnChannels
  <1>3. QED
    BY <1>1, <1>2, HostShown

LEMMA ActsShown ==
    ASSUME TypeInv, OrderInv, ShownInv, RacedType, Evicted = {},
           NEW c \in Channel, NEW t \in Transport,
           Act(c) \/ HandleDispatch(t) \/ RunDispatchQueue
    PROVE  ShownInv'
  <1>1. CASE Act(c)
    <2>1. 0 \notin OwnId
      BY DEF OwnId
    <2>2. QED
      BY <1>1, <2>1, AppliesShown DEF Act, TakesOne
  <1>2. CASE RunDispatchQueue
    <2> DEFINE id == Head(dispatchQueue)
    <2>1. /\ ApplyAndEmit(dispatched[id], id) /\ dispatchQueue' = Tail(dispatchQueue)
          /\ dispatchQueue # <<>> /\ UNCHANGED <<subscribing, open, up, clientVars>>
      BY <1>2 DEF RunDispatchQueue
    <2>2. Elements(dispatchQueue) = {id} \cup Elements(Tail(dispatchQueue)) /\ id \in OwnId
      BY <2>1, OneLess, HeadTailProperties DEF TypeInv
    <2>3. id \in Nat
      BY <2>2, Lengths DEF OwnId
    <2> HIDE DEF id
    <2>4. QED
      BY <2>1, <2>2, <2>3, AppliesShown DEF TakesOne
  <1>3. CASE HandleDispatch(t)
    <2> DEFINE id == Head(up[t]).id
    <2>1. /\ HostTakes(t, "dispatchAction") /\ UNCHANGED <<subscribing, open, clientVars>>
          /\ \/ ApplyAndEmit(dispatched[id], id) /\ UNCHANGED dispatchQueue
             \/ dispatchQueue' = Append(dispatchQueue, id) /\ UNCHANGED <<log, down, raced>>
      BY <1>3 DEF HandleDispatch
    <2>2. /\ \A u \in Transport : TakesOne(u)
          /\ Head(up[t]) \in UpMessage /\ Head(up[t]).type = "dispatchAction" /\ up'[t] # up[t]
      BY <2>1, OneTaken
    <2>3. Head(up[t]) = DispatchAction(id) /\ id \in OwnId
      BY <2>2 DEF UpMessage, Notification, SubscribeRequest, DispatchAction
    <2>4. Takes(id) /\ id \in Nat
      BY <2>2, <2>3, Lengths DEF Takes, OwnId
    <2> HIDE DEF id
    <2>5. CASE ApplyAndEmit(dispatched[id], id) /\ UNCHANGED dispatchQueue
      BY <2>1, <2>2, <2>3, <2>4, <2>5, AppliesShown
    <2>6. CASE dispatchQueue' = Append(dispatchQueue, id) /\ UNCHANGED <<log, down, raced>>
      <3>1. Elements(dispatchQueue') = Elements(dispatchQueue) \cup {id}
        BY <2>3, <2>6, ElementsAppend DEF TypeInv
      <3>2. Applied' = Applied
        BY <2>6 DEF Applied, Owns
      <3>3. \A i \in OwnId : NotTakenYet(i) => NotTakenYet(i)' \/ Takes(i)
        BY <2>4, <3>1, <3>2 DEF NotTakenYet
      <3>4. \A u \in Transport : Tells(u)
        BY <2>6 DEF Tells
      <3>5. Asked' \subseteq Asked
        BY <2>1, <2>2, AskedLess
      <3>6. QED
        BY <2>1, <2>2, <2>6, <3>3, <3>4, <3>5, QuietShown
    <2>7. QED
      BY <2>1, <2>5, <2>6
  <1>4. QED
    BY <1>1, <1>2, <1>3

LEMMA HandledShown ==
    ASSUME TypeInv, OrderInv, ShownInv, Evicted = {}, NEW t \in Transport,
           HandleReconnect(t) \/ HandleUnsubscribe(t) \/ HostSeesClose(t)
    PROVE  ShownInv'
  <1>1. /\ UNCHANGED <<log, dispatchQueue, subscribing, open, down, clientVars, raced>>
        /\ (\E type : HostTakes(t, type)) \/ up' = up
    BY DEF HandleReconnect, HandleUnsubscribe, HostSeesClose, wireVars
  <1>2. \A u \in Transport : TakesOne(u)
    BY <1>1, OneTaken DEF TakesOne
  <1>3. \A u \in Transport : Tells(u)
    BY <1>1 DEF Tells
  <1>4. Asked' \subseteq Asked
    BY <1>1, <1>2, AskedLess
  <1>5. \A id \in OwnId : NotTakenYet(id) => NotTakenYet(id)'
    BY <1>1, SameApplied
  <1>6. QED
    BY <1>1, <1>2, <1>3, <1>4, <1>5, QuietShown

(* A subscribe request moves from the wire to what is being answered.       *)
LEMMA HandleSubscribeShown ==
    ASSUME TypeInv, OrderInv, ShownInv, Evicted = {}, NEW t \in Transport, HandleSubscribe(t)
    PROVE  ShownInv'
  <1> DEFINE request == Head(up[t])
  <1>1. /\ UNCHANGED <<log, dispatchQueue, open, down, clientVars, raced>>
        /\ HostTakes(t, "subscribe")
        /\ subscribing' = subscribing \cup
              {[transport |-> t, channel |-> request.channel, id |-> request.id]}
    BY DEF HandleSubscribe
  <1>2. /\ \A u \in Transport : TakesOne(u)
        /\ up[t] # <<>> /\ request.type = "subscribe" /\ subscribing = {}
    BY <1>1, OneTaken
  <1> HIDE DEF request
  <1>3. request \in Elements(up[t])
    BY <1>2, OneLess DEF request, TypeInv
  <1>4. Asked' \subseteq Asked
    <2>1. transport' = transport /\ transport \in Transport
      BY <1>1 DEF clientVars, TypeInv
    <2>2. Requests(up'[transport]) \subseteq Requests(up[transport])
      BY <1>2, <2>1, TakesLess
    <2>3. t = transport => request.id \in Requests(up[transport])
      BY <1>2, <1>3 DEF Requests
    <2>4. subscribing' = {[transport |-> t, channel |-> request.channel, id |-> request.id]}
      BY <1>1, <1>2
    <2>5. \A r \in Answering' : r.id \in Requests(up[transport])
      BY <2>1, <2>3, <2>4 DEF Answering
    <2>6. Requests(up[transport])' = Requests(up'[transport])
      BY <2>1 DEF Requests
    <2>7. QED
      BY <2>2, <2>5, <2>6 DEF Asked
  <1>5. \A u \in Transport : Tells(u)
    BY <1>1 DEF Tells
  <1>6. \A id \in OwnId : NotTakenYet(id) => NotTakenYet(id)'
    BY <1>1, SameApplied
  <1>7. QED
    BY <1>1, <1>2, <1>4, <1>5, <1>6, QuietShown

(* The host restores, and answers.                                          *)
LEMMA RestoresShown ==
    ASSUME TypeInv, OrderInv, Stages, ShownInv, RacedType, NEW r \in restoring, HostRestores(r)
    PROVE  ShownInv'
  <1>1. /\ UNCHANGED <<log, dispatchQueue, subscribing, open, up, clientVars>>
    BY DEF HostRestores, Restore, RestoreFails, Respond, wireVars
  <1>2. Crossed \subseteq Crossed'
    <2>1. CASE Respond(r)
      BY <2>1, RaceKeeps DEF Respond, Races
    <2>2. CASE UNCHANGED raced
      BY <2>2 DEF Crossed
    <2>3. QED
      BY <2>1, <2>2 DEF HostRestores, Restore, RestoreFails
  <1>3. \A t \in Transport : TakesOne(t)
    BY <1>1 DEF TakesOne
  <1>4. \A t \in Transport : Tells(t)
    <2>1. CASE Respond(r)
      <3> DEFINE u == r.transport
                 m == IF r.canReplay
                      THEN [type |-> "replay", actions |-> Missed(r), missing |-> r.missing]
                      ELSE [type |-> "snapshot", snapshots |-> r.snapshots]
      <3>1. /\ r \in Restoring /\ u \in Transport /\ r.snapshots \in Snapshots
            /\ r.missing \in SUBSET Channel
        BY DEF TypeInv, Restoring
      <3>2. m \in DownMessage'
        <4>1. Missed(r) \in ServerSeqs
          BY MissedType
        <4>2. m \in DownMessage
          BY <3>1, <4>1 DEF DownMessage
        <4>3. DownMessage' = DownMessage
          BY <1>1, Same DEF clientVars
        <4>4. QED
          BY <4>2, <4>3
      <3>3. \A t : Current(t, m)
        <4>1. \A c \in DOMAIN r.snapshots : c \in Channel /\ r.snapshots[c] = Len(log)
          BY <3>1 DEF Stages, SnapshotsTaken, Snapshots
        <4>2. QED
          BY <4>1 DEF Current
      <3>4. down' = Sent(down, u, <<m>>) /\ down \in [Transport -> Seq(DownMessage)]
        BY <2>1 DEF Respond, TypeInv
      <3> HIDE DEF u, m
      <3>5. /\ \A t \in Transport : t # u \/ ~open[u] => down'[t] = down[t]
            /\ open[u] => down'[u] = down[u] \o <<m>>
        BY <3>1, <3>4, SentTo DEF Sent
      <3>6. QED
        BY <3>2, <3>3, <3>5 DEF Tells
    <2>2. CASE down' = down
      BY <2>2 DEF Tells
    <2>3. QED
      BY <2>1, <2>2 DEF HostRestores, Restore, RestoreFails, wireVars
  <1>5. Asked' \subseteq Asked
    BY <1>1, <1>3, AskedLess
  <1>6. \A id \in OwnId : NotTakenYet(id) => NotTakenYet(id)'
    BY <1>1, SameApplied
  <1>7. LogGrows
    BY <1>1, Lengths DEF LogGrows
  <1>8. \A n \in 1 .. Len(log') : log'[n].own # 0 => log'[n].channel = dispatched[log'[n].own]
    BY <1>1 DEF ShownInv, OwnChannels
  <1>9. QED
    BY <1>1, <1>2, <1>3, <1>4, <1>5, <1>6, <1>7, <1>8, HostShown

LEMMA AnswersShown ==
    ASSUME TypeInv, OrderInv, ShownInv, NEW r \in subscribing, HostAnswers(r)
    PROVE  ShownInv'
  <1>1. /\ UNCHANGED <<log, dispatchQueue, open, up, clientVars, raced>>
        /\ subscribing' \subseteq subscribing
        /\ r.transport \in Transport /\ r.id \in 1 .. entries /\ Len(log) \in Nat
    BY Lengths DEF HostAnswers, Subscribed, SubscribeFails, TypeInv
  <1>2. PICK m \in DownMessage' :
           (\A t \in {r.transport} : Current(t, m)) /\ down' = Sent(down, r.transport, <<m>>)
    <2> DEFINE yes == [type |-> "subscribed", id |-> r.id, fromSeq |-> Len(log)]
               no  == [type |-> "refused", id |-> r.id]
    <2>1. yes \in DownMessage /\ no \in DownMessage
      BY <1>1 DEF DownMessage
    <2>2. Current(r.transport, yes) /\ Current(r.transport, no)
      BY DEF Current, Asked, Answering
    <2>3. DownMessage' = DownMessage
      BY <1>1, Same DEF clientVars
    <2>4. down' = Sent(down, r.transport, <<yes>>) \/ down' = Sent(down, r.transport, <<no>>)
      BY DEF HostAnswers, Subscribed, SubscribeFails
    <2> HIDE DEF yes, no
    <2>5. QED
      BY <2>1, <2>2, <2>3, <2>4
  <1>3. \A t \in Transport : TakesOne(t) /\ Tells(t)
    <2> DEFINE u == r.transport
    <2>1. /\ down' = Sent(down, u, <<m>>) /\ down \in [Transport -> Seq(DownMessage)]
          /\ u \in Transport /\ Current(u, m)
      BY <1>1, <1>2 DEF TypeInv
    <2> HIDE DEF u
    <2>2. /\ \A t \in Transport : t # u \/ ~open[u] => down'[t] = down[t]
          /\ open[u] => down'[u] = down[u] \o <<m>>
      BY <2>1 DEF Sent
    <2>3. QED
      BY <1>1, <2>1, <2>2 DEF Tells, TakesOne
  <1>4. Asked' \subseteq Asked
    BY <1>1 DEF Asked, Answering, Requests, clientVars
  <1>5. \A id \in OwnId : NotTakenYet(id) => NotTakenYet(id)'
    BY <1>1, SameApplied
  <1>6. QED
    BY <1>1, <1>3, <1>4, <1>5, QuietShown

-----------------------------------------------------------------------------
(* The client takes a message which is no answer to a reconnection.         *)
LEMMA TakenShown ==
    ASSUME TypeInv, Stages, ShownInv, NEW type, type \notin UpToDate, ClientTakes(type),
           UNCHANGED <<hostVars, open, up, phase, transport, gated, dispatched, cleared, raced>>,
           \A c \in Channel : /\ sub'[c].entry = sub[c].entry
                              /\ Elements(sub'[c].pending) \subseteq Pending(c),
           \A c \in Channel \ Crossed :
              sub[c].entry # 0 /\ sub'[c].known =>
                 Once(Mine(c), Elements(sub'[c].pending), Own(sub'[c].confirmed)),
           \A c \in Channel \ Crossed : \A m \in Elements(Tail(down[transport])) :
              m.type = "subscribed" /\ m.id = sub[c].entry =>
                 /\ Elements(sub'[c].buffered) \subseteq 1 .. m.fromSeq
                 /\ Once(Mine(c), Elements(sub'[c].pending), AppliedBy(m.fromSeq))
    PROVE  ShownInv'
  <1>1. /\ UNCHANGED <<log, subscribing, dispatchQueue>> /\ phase # "waiting"
        /\ transport \in Transport /\ down[transport] \in Seq(DownMessage)
        /\ down[transport] # <<>> /\ down'[transport] = Tail(down[transport])
        /\ \A t \in Transport : t # transport => down'[t] = down[t]
    BY DEF hostVars, ClientTakes, TypeInv
  <1>2. /\ Crossed' = Crossed /\ Asked' = Asked /\ Applied' = Applied
        /\ \A c : Mine(c)' = Mine(c) /\ Pending(c)' = Elements(sub'[c].pending)
        /\ \A ns : Own(ns)' = Own(ns)
        /\ \A n : AppliedBy(n)' = AppliedBy(n)
    BY <1>1 DEF Crossed, Asked, Requests, Answering, Applied, Owns, Mine, OwnId, Pending, Own,
       AppliedBy
  <1>3. Elements(down'[transport]) \subseteq Elements(down[transport])
    BY <1>1, OneLess
  <1>4. Unasked'
    <2>1. ASSUME phase = "reconnecting"
          PROVE  Asked = {} /\ Quiet(down'[transport], {"subscribed"})
      BY <1>3, <2>1 DEF ShownInv, Unasked, Quiet
    <2>2. QED
      BY <1>1, <1>2, <2>1 DEF Unasked
  <1>5. GatedFresh' /\ OwnChannels'
    <2>1. GatedFresh'
      BY <1>2 DEF ShownInv, GatedFresh
    <2>2. OwnChannels'
      BY <1>1, <1>2 DEF ShownInv, OwnChannels
    <2>3. QED
      BY <2>1, <2>2
  <1>6. OnceIfKnown'
    BY <1>2 DEF OnceIfKnown
  <1>7. BehindRequest'
    <2>1. \A id : NotTakenYet(id)' <=> NotTakenYet(id)
      BY <1>1, <1>2 DEF NotTakenYet
    <2>2. QED
      BY <1>2, <2>1 DEF ShownInv, BehindRequest
  <1>8. AnswersInOrder'
    <2>1. \A t \in Transport : InOrderWith(down[t])
      BY DEF ShownInv, AnswersInOrder
    <2>2. InOrderWith(Tail(down[transport]))
      BY <1>1, <2>1, InOrderTail
    <2>3. ASSUME NEW t \in Transport PROVE InOrderWith(down'[t])
      BY <1>1, <2>1, <2>2
    <2>4. QED
      BY <2>3 DEF AnswersInOrder
  <1>9. OnceIfAnswered'
    BY <1>1, <1>2 DEF OnceIfAnswered
  <1>10. NoneLeftOut'
    <2>1. phase = "reconnecting" => Quiet(Tail(down[transport]), UpToDate)
      BY <1>1 DEF Stages, Reconnecting
    <2>2. QED
      BY <1>1, <2>1 DEF NoneLeftOut, Quiet, UpToDate
  <1>11. QED
    BY <1>4, <1>5, <1>6, <1>7, <1>8, <1>9, <1>10 DEF ShownInv

LEMMA ReceiveActionShown ==
    ASSUME TypeInv, Stages, ShownInv, ReceiveAction
    PROVE  ShownInv'
  <1> DEFINE ns(c) == Where(<<Arrived.seq>>, On(c))
  <1>1. /\ ClientTakes("action") /\ "action" \notin UpToDate
        /\ UNCHANGED <<hostVars, open, up, phase, transport, gated, dispatched, cleared, raced>>
        /\ \A c \in Channel : sub'[c] = ReceiveEnvelope(sub[c], ns(c))
    BY DEF ReceiveAction, UpToDate
  <1>2. /\ transport \in Transport /\ down[transport] \in Seq(DownMessage)
        /\ down[transport] # <<>> /\ Arrived \in DownMessage /\ Arrived.type = "action"
    BY <1>1, HeadTailProperties DEF ClientTakes, TypeInv, Arrived
  <1>3. Arrived.seq \in 1 .. Len(log) /\ Len(log) \in Nat
    BY <1>2, Lengths DEF DownMessage
  <1>4. ASSUME NEW c \in Channel
        PROVE  ns(c) \in ServerSeqs /\ Elements(ns(c)) \subseteq {Arrived.seq}
    <2>1. <<Arrived.seq>> \in Seq(1 .. Len(log)) /\ Elements(<<Arrived.seq>>) = {Arrived.seq}
      BY <1>3 DEF Elements
    <2>2. QED
      BY <2>1, WhereType DEF ServerSeqs
  <1> HIDE DEF ns
  <1>5. ASSUME NEW c \in Channel
        PROVE  /\ sub[c] \in Subscription /\ sub[c].confirmed \in ServerSeqs
               /\ sub[c].buffered \in Seq(1 .. Len(log))
               /\ sub'[c].entry = sub[c].entry /\ sub'[c].known = sub[c].known
               /\ Elements(sub'[c].pending) \subseteq Pending(c)
               /\ sub[c].entry # 0 /\ sub[c].known =>
                     /\ sub'[c].buffered = sub[c].buffered
                     /\ sub'[c].confirmed = sub[c].confirmed \o ns(c)
                     /\ Elements(sub'[c].pending) = Pending(c) \ Own(ns(c))
               /\ sub[c].entry # 0 /\ ~sub[c].known =>
                     /\ sub'[c].buffered = sub[c].buffered \o ns(c)
                     /\ Elements(sub'[c].pending) = Pending(c)
    <2>1. /\ sub[c] \in Subscription /\ sub[c].confirmed \in ServerSeqs
          /\ sub[c].buffered \in Seq(1 .. Len(log))
      BY DEF TypeInv, Subscription, ServerSeqs
    <2>2. sub'[c] = ReceiveEnvelope(sub[c], ns(c)) /\ ns(c) \in ServerSeqs
      BY <1>1, <1>4
    <2>3. sub[c].known \in BOOLEAN
      BY <2>1 DEF Subscription
    <2> DEFINE new == ReceiveEnvelope(sub[c], ns(c))
    <2>4. /\ new.entry = sub[c].entry /\ new.known = sub[c].known
          /\ sub[c].entry = 0 => new = sub[c]
          /\ sub[c].entry # 0 /\ sub[c].known =>
                /\ new.buffered = sub[c].buffered
                /\ new.confirmed = sub[c].confirmed \o ns(c)
                /\ Elements(new.pending) = Elements(sub[c].pending) \ Own(ns(c))
          /\ sub[c].entry # 0 /\ ~sub[c].known =>
                /\ new.buffered = sub[c].buffered \o ns(c)
                /\ new.pending = sub[c].pending
      BY <2>1, <2>2, ReceiveFields
    <2>5. sub'[c] = new /\ Pending(c) = Elements(sub[c].pending)
      BY <2>2 DEF Pending
    <2> HIDE DEF new
    <2>6. QED
      BY <2>1, <2>3, <2>4, <2>5
  <1>6. ASSUME NEW c \in Channel \ Crossed, sub[c].entry # 0, sub'[c].known
        PROVE  Once(Mine(c), Elements(sub'[c].pending), Own(sub'[c].confirmed))
    <2>1. /\ c \in Channel /\ sub[c].known /\ sub[c].confirmed \in ServerSeqs
          /\ sub'[c].confirmed = sub[c].confirmed \o ns(c)
          /\ Elements(sub'[c].pending) = Pending(c) \ Own(ns(c))
      BY <1>5, <1>6
    <2>2. Once(Mine(c), Pending(c), Own(sub[c].confirmed))
      BY <1>6, <2>1 DEF ShownInv, OnceIfKnown
    <2>3. Own(sub[c].confirmed \o ns(c)) = Own(sub[c].confirmed) \cup Own(ns(c))
      BY <1>4, <2>1, OwnConcat
    <2>4. Once(Mine(c), Pending(c) \ Own(ns(c)), Own(sub[c].confirmed) \cup Own(ns(c)))
      BY <2>2, OnceMoved
    <2>5. QED
      BY <2>1, <2>3, <2>4
  <1>7. ASSUME NEW c \in Channel \ Crossed, NEW m \in Elements(Tail(down[transport])),
               m.type = "subscribed", m.id = sub[c].entry
        PROVE  /\ Elements(sub'[c].buffered) \subseteq 1 .. m.fromSeq
               /\ Once(Mine(c), Elements(sub'[c].pending), AppliedBy(m.fromSeq))
    <2>1. m \in Elements(down[transport]) /\ m \in DownMessage
      BY <1>2, <1>7, OneLess, ElementsType
    <2>2. m.id \in 1 .. entries /\ m.fromSeq \in 0 .. Len(log)
      BY <1>7, <2>1 DEF DownMessage
    <2>3. /\ Elements(sub[c].buffered) \subseteq 1 .. m.fromSeq
          /\ Once(Mine(c), Pending(c), AppliedBy(m.fromSeq))
      BY <1>7, <2>1 DEF ShownInv, OnceIfAnswered
    <2>4. Arrived.seq \in 1 .. m.fromSeq
      <3>1. InOrderWith(down[transport])
        BY <1>2 DEF ShownInv, AnswersInOrder
      <3>2. Arrived.seq <= m.fromSeq
        BY <1>2, <1>7, <3>1, InOrderTail DEF Arrived
      <3>3. QED
        BY <1>3, <2>2, <3>2
    <2>5. Own(ns(c)) \subseteq AppliedBy(m.fromSeq)
      BY <1>4, <2>4 DEF Own, AppliedBy
    <2> DEFINE e == sub[c].entry
    <2>6. CASE sub[c].known
      <3>1. e # 0 /\ c \in Channel
        BY <1>7, <2>2
      <3>2. /\ sub'[c].buffered = sub[c].buffered
            /\ Elements(sub'[c].pending) = Pending(c) \ Own(ns(c))
        BY <1>5, <2>6, <3>1
      <3>3. Once(Mine(c), Pending(c) \ Own(ns(c)), AppliedBy(m.fromSeq))
        BY <2>3, <2>5, OnceMoved
      <3>4. QED
        BY <2>3, <3>2, <3>3
    <2>7. CASE ~sub[c].known
      <3>1. Elements(sub[c].buffered \o ns(c)) = Elements(sub[c].buffered) \cup Elements(ns(c))
        BY <1>4, <1>5, ElementsConcat DEF ServerSeqs
      <3>2. e # 0 /\ c \in Channel
        BY <1>7, <2>2
      <3>3. /\ sub'[c].buffered = sub[c].buffered \o ns(c)
            /\ Elements(sub'[c].pending) = Pending(c)
        BY <1>5, <2>7, <3>2
      <3>4. Elements(ns(c)) \subseteq {Arrived.seq}
        BY <1>4, <3>2
      <3>5. QED
        BY <2>3, <2>4, <3>1, <3>3, <3>4
    <2>8. QED
      BY <2>6, <2>7
  <1>8. \A c \in Channel : /\ sub'[c].entry = sub[c].entry
                           /\ Elements(sub'[c].pending) \subseteq Pending(c)
    BY <1>5
  <1>9. QED
    BY <1>1, <1>6, <1>7, <1>8, TakenShown

LEMMA ReceiveSubscribedShown ==
    ASSUME TypeInv, Stages, ShownInv, ReceiveSubscribed
    PROVE  ShownInv'
  <1> DEFINE n == Arrived.fromSeq
  <1>1. /\ ClientTakes("subscribed") /\ "subscribed" \notin UpToDate
        /\ UNCHANGED <<hostVars, open, up, phase, transport, gated, dispatched, cleared, raced>>
        /\ \A c \in Channel :
              sub'[c] = IF sub[c].entry = Arrived.id THEN HandleSnapshot(sub[c], c, n) ELSE sub[c]
    BY DEF ReceiveSubscribed, UpToDate
  <1>2. /\ transport \in Transport /\ down[transport] \in Seq(DownMessage)
        /\ down[transport] # <<>> /\ Arrived \in DownMessage /\ Arrived.type = "subscribed"
        /\ Arrived \in Elements(down[transport])
        /\ Elements(Tail(down[transport])) \subseteq Elements(down[transport])
    BY <1>1, HeadTailProperties, OneLess DEF ClientTakes, TypeInv, Arrived
  <1>3. n \in 0 .. Len(log)
    BY <1>2 DEF DownMessage
  <1> HIDE DEF n
  <1>4. ASSUME NEW c \in Channel
        PROVE  /\ sub'[c].entry = sub[c].entry
               /\ Elements(sub'[c].pending) \subseteq Pending(c)
    <2>1. CASE sub[c].entry = Arrived.id
      <3> DEFINE new == HandleSnapshot(sub[c], c, n)
      <3>1. sub[c] \in Subscription /\ sub'[c] = new
        BY <1>1, <2>1 DEF TypeInv
      <3>2. new.entry = sub[c].entry /\ Elements(new.pending) \subseteq Elements(sub[c].pending)
        BY <1>3, <3>1, SnapshotFields
      <3> HIDE DEF new
      <3>3. QED
        BY <3>1, <3>2 DEF Pending
    <2>2. CASE sub[c].entry # Arrived.id
      BY <1>1, <2>2 DEF Pending
    <2>3. QED
      BY <2>1, <2>2
  <1>5. ASSUME NEW c \in Channel \ Crossed, sub[c].entry = Arrived.id
        PROVE  /\ sub'[c].confirmed = StateAt(c, n) /\ sub'[c].buffered = <<>>
               /\ Elements(sub'[c].pending) = Pending(c)
               /\ Once(Mine(c), Pending(c), AppliedBy(n))
    <2>1. /\ Elements(sub[c].buffered) \subseteq 1 .. n
          /\ Once(Mine(c), Pending(c), AppliedBy(n))
      BY <1>2, <1>5 DEF ShownInv, OnceIfAnswered, n
    <2>2. sub[c] \in Subscription /\ sub'[c] = HandleSnapshot(sub[c], c, n)
      BY <1>1, <1>5 DEF TypeInv
    <2>3. QED
      BY <1>3, <2>1, <2>2, SnapshotFields DEF Pending
  <1>6. ASSUME NEW c \in Channel \ Crossed, sub[c].entry # 0, sub'[c].known
        PROVE  Once(Mine(c), Elements(sub'[c].pending), Own(sub'[c].confirmed))
    <2>1. CASE sub[c].entry = Arrived.id
      <3>1. \A id \in Mine(c) : id \in Own(StateAt(c, n)) <=> id \in AppliedBy(n)
        BY <1>3, StateHas DEF ShownInv
      <3>2. QED
        BY <1>5, <2>1, <3>1 DEF Once
    <2>2. CASE sub[c].entry # Arrived.id
      BY <1>1, <1>6, <2>2 DEF ShownInv, OnceIfKnown, Pending
    <2>3. QED
      BY <2>1, <2>2
  <1>7. ASSUME NEW c \in Channel \ Crossed, NEW m \in Elements(Tail(down[transport])),
               m.type = "subscribed", m.id = sub[c].entry
        PROVE  /\ Elements(sub'[c].buffered) \subseteq 1 .. m.fromSeq
               /\ Once(Mine(c), Elements(sub'[c].pending), AppliedBy(m.fromSeq))
    <2>1. /\ Elements(sub[c].buffered) \subseteq 1 .. m.fromSeq
          /\ Once(Mine(c), Pending(c), AppliedBy(m.fromSeq))
      BY <1>2, <1>7 DEF ShownInv, OnceIfAnswered
    <2>2. CASE sub[c].entry = Arrived.id
      BY <1>5, <2>1, <2>2, ElementsEmpty
    <2>3. CASE sub[c].entry # Arrived.id
      BY <1>1, <2>1, <2>3 DEF Pending
    <2>4. QED
      BY <2>2, <2>3
  <1>8. QED
    BY <1>1, <1>4, <1>6, <1>7, TakenShown

LEMMA ReceiveRefusalShown ==
    ASSUME TypeInv, Stages, ShownInv, ReceiveRefusal
    PROVE  ShownInv'
  <1>1. /\ ClientTakes("refused") /\ "refused" \notin UpToDate
        /\ UNCHANGED <<hostVars, open, up, phase, transport, gated, dispatched, cleared, raced>>
        /\ \A c \in Channel :
              sub'[c] = IF sub[c].entry = Arrived.id THEN SetError(sub[c]) ELSE sub[c]
    BY DEF ReceiveRefusal, UpToDate
  <1>2. \A c \in Channel : /\ sub'[c].entry = sub[c].entry /\ sub'[c].known = sub[c].known
                           /\ sub'[c].confirmed = sub[c].confirmed
                           /\ sub'[c].buffered = sub[c].buffered
                           /\ Elements(sub'[c].pending) = Pending(c)
    BY <1>1, ChangedFields DEF TypeInv, Pending
  <1>3. Elements(Tail(down[transport])) \subseteq Elements(down[transport])
    BY <1>1, OneLess DEF ClientTakes, TypeInv
  <1>4. \A c \in Channel \ Crossed :
           sub[c].entry # 0 /\ sub'[c].known =>
              Once(Mine(c), Elements(sub'[c].pending), Own(sub'[c].confirmed))
    BY <1>2 DEF ShownInv, OnceIfKnown
  <1>5. \A c \in Channel \ Crossed : \A m \in Elements(Tail(down[transport])) :
           m.type = "subscribed" /\ m.id = sub[c].entry =>
              /\ Elements(sub'[c].buffered) \subseteq 1 .. m.fromSeq
              /\ Once(Mine(c), Elements(sub'[c].pending), AppliedBy(m.fromSeq))
    BY <1>2, <1>3 DEF ShownInv, OnceIfAnswered
  <1>6. QED
    BY <1>1, <1>2, <1>4, <1>5, TakenShown

-----------------------------------------------------------------------------
(* The client is brought up to date, and sends what waited.                 *)
LEMMA DrainedRequests ==
    ASSUME TypeInv, Stages, ShownInv, NEW type \in UpToDate, ClientTakes(type), NEW subs,
           DrainAfterReconnect(subs), UNCHANGED <<hostVars, transport>>
    PROVE  Asked' \subseteq {m.id : m \in Elements(gated)}
  <1>1. /\ phase = "reconnecting" /\ transport \in Transport /\ up[transport] = <<>>
        /\ UNCHANGED <<subscribing, transport>>
    BY UpToDateArrives DEF hostVars
  <1> DEFINE M == Notification \cup SubscribeRequest
             msgs == Replays(subs) \o outbox \o gated
  <1>2. /\ Elements(msgs) = Elements(Replays(subs) \o outbox) \cup Elements(gated)
        /\ Elements(Replays(subs) \o outbox) = Elements(Replays(subs)) \cup Elements(outbox)
        /\ Elements(Replays(subs)) \subseteq Notification /\ Elements(outbox) \subseteq Notification
        /\ msgs \in Seq(M)
    <2>1. /\ Replays(subs) \in Seq(Notification) /\ outbox \in Seq(Notification)
          /\ gated \in Seq(SubscribeRequest)
      BY ReplaysType, Lengths DEF TypeInv
    <2>2. Replays(subs) \in Seq(M) /\ outbox \in Seq(M) /\ gated \in Seq(M)
      BY <2>1, SeqMonotonic
    <2> HIDE DEF M
    <2>3. Replays(subs) \o outbox \in Seq(M) /\ msgs \in Seq(M)
      BY <2>2, ConcatProperties
    <2>4. /\ Elements((Replays(subs) \o outbox) \o gated)
                = Elements(Replays(subs) \o outbox) \cup Elements(gated)
          /\ Elements(Replays(subs) \o outbox) = Elements(Replays(subs)) \cup Elements(outbox)
      BY <2>2, <2>3, ElementsConcat
    <2>5. Elements(Replays(subs)) \subseteq Notification /\ Elements(outbox) \subseteq Notification
      BY <2>1, ElementsType
    <2>6. QED
      BY <2>3, <2>4, <2>5
  <1>3. \A m \in Notification : m.type # "subscribe"
    BY DEF Notification
  <1>4. Requests(msgs) \subseteq {m.id : m \in Elements(gated)}
    BY <1>2, <1>3 DEF Requests
  <1>5. up'[transport] = <<>> \/ up'[transport] = msgs
    <2>1. up \in [Transport -> Seq(UpMessage)] /\ up' = Sent(up, transport, msgs)
      BY DEF TypeInv, DrainAfterReconnect
    <2>2. <<>> \o msgs = msgs
      BY <1>2, ConcatEmptySeq
    <2> HIDE DEF msgs
    <2>3. up'[transport] = up[transport] \/ up'[transport] = up[transport] \o msgs
      BY <1>1, <2>1 DEF Sent
    <2>4. QED
      BY <1>1, <2>2, <2>3
  <1>6. Requests(<<>>) = {}
    BY ElementsEmpty DEF Requests
  <1>7. {r.id : r \in Answering} = {} /\ Answering' = Answering
    BY <1>1 DEF ShownInv, Unasked, Asked, Answering
  <1>8. Requests(up[transport])' = Requests(up'[transport])
    BY <1>1 DEF Requests
  <1> HIDE DEF msgs
  <1>9. QED
    BY <1>4, <1>5, <1>6, <1>7, <1>8 DEF Asked

LEMMA DrainedShown ==
    ASSUME TypeInv, Stages, ShownInv, NEW type \in UpToDate, ClientTakes(type),
           DrainAfterReconnect(sub'), UNCHANGED <<hostVars, open, transport, dispatched, raced>>,
           \A c \in Channel : /\ sub'[c].entry = sub[c].entry
                              /\ Elements(sub'[c].pending) \subseteq Pending(c),
           \A c \in Channel \ Crossed :
              sub[c].entry # 0 /\ sub'[c].known =>
                 Once(Mine(c)', Elements(sub'[c].pending), Own(sub'[c].confirmed))
    PROVE  ShownInv'
  <1>1. /\ UNCHANGED <<log, subscribing, dispatchQueue, transport>> /\ phase = "reconnecting"
        /\ transport \in Transport /\ down[transport] \in Seq(DownMessage)
        /\ down[transport] # <<>> /\ down'[transport] = Tail(down[transport])
        /\ \A t \in Transport : t # transport => down'[t] = down[t]
        /\ phase' = "connected" /\ gated' = <<>>
    BY UpToDateArrives DEF hostVars, DrainAfterReconnect
  <1>2. /\ Crossed' = Crossed
        /\ \A c : Pending(c)' = Elements(sub'[c].pending)
        /\ \A ns : Own(ns)' = Own(ns)
    BY <1>1 DEF Crossed, Pending, Own
  <1>3. Unasked' /\ NoneLeftOut' /\ GatedFresh'
    BY <1>1, ElementsEmpty DEF Unasked, NoneLeftOut, GatedFresh
  <1>4. OwnChannels'
    BY <1>1, <1>2 DEF ShownInv, OwnChannels
  <1>5. OnceIfKnown'
    BY <1>2 DEF OnceIfKnown
  <1>6. BehindRequest'
    <2>1. Asked' \subseteq {m.id : m \in Elements(gated)}
      BY DrainedRequests
    <2>2. ASSUME NEW c \in Channel \ Crossed, sub[c].entry \in Asked'
          PROVE  Pending(c) = {}
      <3>1. PICK m \in Elements(gated) : sub[c].entry = m.id
        BY <2>1, <2>2
      <3>2. QED
        BY <3>1 DEF ShownInv, GatedFresh
    <2>3. QED
      BY <1>2, <2>2 DEF BehindRequest
  <1>7. AnswersInOrder'
    <2>1. \A t \in Transport : InOrderWith(down[t])
      BY DEF ShownInv, AnswersInOrder
    <2>2. InOrderWith(Tail(down[transport]))
      BY <1>1, <2>1, InOrderTail
    <2>3. ASSUME NEW t \in Transport PROVE InOrderWith(down'[t])
      BY <1>1, <2>1, <2>2
    <2>4. QED
      BY <2>3 DEF AnswersInOrder
  <1>8. OnceIfAnswered'
    <2>1. \A m \in Elements(down'[transport]) : m.type # "subscribed"
      BY <1>1, OneLess DEF ShownInv, Unasked, Quiet
    <2>2. QED
      BY <1>1, <2>1 DEF OnceIfAnswered
  <1>9. QED
    BY <1>3, <1>4, <1>5, <1>6, <1>7, <1>8 DEF ShownInv

LEMMA ReceiveReplayShown ==
    ASSUME TypeInv, Stages, ShownInv, ReceiveReplay
    PROVE  ShownInv'
  <1> DEFINE missed == Arrived.actions
             all(c) == AllReplayed(c, missed)
             X(c) == Own(Where(missed, On(c)))
             gone(c) == c \in Arrived.missing /\ sub[c].entry # 0
  <1>1. /\ ClientTakes("replay") /\ "replay" \in UpToDate /\ DrainAfterReconnect(sub')
        /\ UNCHANGED <<hostVars, open, transport, dispatched, raced>>
        /\ cleared' = cleared \cup UNION {Pending(c) : c \in Arrived.missing}
        /\ \A c \in Channel :
              sub'[c] = IF gone(c) THEN SetError(ClearPending(all(c))) ELSE all(c)
    BY DEF ReceiveReplay, UpToDate
  <1>2. missed \in ServerSeqs
    BY <1>1, ArrivedType DEF DownMessage
  <1>3. ASSUME NEW c \in Channel
        PROVE  /\ all(c) \in Subscription
               /\ all(c).entry = sub[c].entry /\ all(c).known = sub[c].known
               /\ Elements(all(c).pending) \subseteq Pending(c)
               /\ sub[c].entry # 0 /\ sub[c].known =>
                     /\ Own(all(c).confirmed) = Own(sub[c].confirmed) \cup X(c)
                     /\ Elements(all(c).pending) = Pending(c) \ X(c)
    <2>1. all(c) \in Subscription
      BY <1>2, AllReplayedType
    <2>2. QED
      BY <1>2, <2>1, ReplayFields
  <1> HIDE DEF all, X, missed
  <1>4. ASSUME NEW c \in Channel, gone(c)
        PROVE  /\ sub'[c].entry = all(c).entry /\ sub'[c].known = all(c).known
               /\ sub'[c].confirmed = all(c).confirmed /\ sub'[c].pending = <<>>
               /\ c \in Arrived.missing
    <2> DEFINE s == ClearPending(all(c))
    <2>1. /\ s \in Subscription /\ s.entry = all(c).entry /\ s.known = all(c).known
          /\ s.confirmed = all(c).confirmed /\ s.pending = <<>>
      BY <1>3, ChangedFields, ChangedType
    <2>2. sub'[c] = SetError(s) /\ c \in Arrived.missing
      BY <1>1, <1>4
    <2> HIDE DEF s
    <2>3. QED
      BY <2>1, <2>2, ChangedFields
  <1>5. ASSUME NEW c \in Channel, ~gone(c) PROVE sub'[c] = all(c)
    BY <1>1, <1>5
  <1> HIDE DEF gone
  <1>6. ASSUME NEW c \in Channel
        PROVE  /\ sub'[c].entry = sub[c].entry /\ sub'[c].known = sub[c].known
               /\ Elements(sub'[c].pending) \subseteq Pending(c)
    BY <1>3, <1>4, <1>5, ElementsEmpty
  <1>7. \A c : Mine(c)' \subseteq Mine(c)
    BY <1>1 DEF Mine, OwnId
  <1>8. ASSUME NEW c \in Channel \ Crossed, sub[c].entry # 0, sub'[c].known
        PROVE  Once(Mine(c)', Elements(sub'[c].pending), Own(sub'[c].confirmed))
    <2>1. c \in Channel /\ sub[c].known
      BY <1>6, <1>8
    <2>2. Once(Mine(c), Pending(c), Own(sub[c].confirmed))
      BY <1>8, <2>1 DEF ShownInv, OnceIfKnown
    <2>3. /\ Own(all(c).confirmed) = Own(sub[c].confirmed) \cup X(c)
          /\ Elements(all(c).pending) = Pending(c) \ X(c)
      BY <1>3, <1>8, <2>1
    <2>4. CASE gone(c)
      <3>1. sub'[c].confirmed = all(c).confirmed /\ Elements(sub'[c].pending) = {}
        BY <1>4, <2>1, <2>4, ElementsEmpty
      <3>2. \A id \in Mine(c)' : id \notin Pending(c)
        BY <1>1, <1>4, <2>1, <2>4 DEF Mine
      <3>3. QED
        BY <1>7, <2>2, <2>3, <3>1, <3>2 DEF Once
    <2>5. CASE ~gone(c)
      <3>1. Once(Mine(c), Pending(c) \ X(c), Own(sub[c].confirmed) \cup X(c))
        BY <2>2, OnceMoved
      <3>2. QED
        BY <1>5, <1>7, <2>1, <2>3, <2>5, <3>1 DEF Once
    <2>6. QED
      BY <2>4, <2>5
  <1>9. QED
    BY <1>1, <1>6, <1>8, DrainedShown

LEMMA ReceiveSnapshotsShown ==
    ASSUME TypeInv, Stages, ShownInv, ReceiveSnapshots
    PROVE  ShownInv'
  <1> DEFINE snapshots == Arrived.snapshots
             reseated == {c \in DOMAIN snapshots : sub[c].entry # 0}
             new(c) == HandleSnapshot(ClearPending(sub[c]), c, snapshots[c])
  <1>1. /\ ClientTakes("snapshot") /\ "snapshot" \in UpToDate /\ DrainAfterReconnect(sub')
        /\ UNCHANGED <<hostVars, open, transport, dispatched, raced>>
        /\ cleared' = cleared \cup UNION {Pending(c) : c \in reseated}
        /\ \A c \in Channel : sub'[c] = IF c \in reseated THEN new(c) ELSE sub[c]
    BY DEF ReceiveSnapshots, UpToDate
  <1>2. /\ phase = "reconnecting" /\ down[transport] \in Seq(DownMessage)
        /\ down[transport] # <<>> /\ Arrived \in DownMessage /\ Arrived.type = "snapshot"
    BY <1>1, UpToDateArrives, ArrivedType
  <1>3. Arrived \in Elements(down[transport])
    BY <1>2, OneLess DEF Arrived
  <1>4. \A c \in reseated : /\ c \in Channel /\ c \in DOMAIN snapshots
                            /\ snapshots[c] \in 0 .. Len(log)
    <2>1. snapshots \in Snapshots
      BY <1>2 DEF DownMessage
    <2>2. QED
      BY <2>1 DEF Snapshots
  <1>5. \A c \in reseated : Mine(c) \subseteq Pending(c) \cup AppliedBy(snapshots[c])
    BY <1>2, <1>3, <1>4 DEF ShownInv, NoneLeftOut
  <1> HIDE DEF snapshots, reseated
  <1>6. ASSUME NEW c \in reseated
        PROVE  /\ new(c).entry = sub[c].entry /\ Elements(new(c).pending) = {}
               /\ Own(StateAt(c, snapshots[c])) \subseteq Own(new(c).confirmed)
    <2> DEFINE s == ClearPending(sub[c])
    <2>1. s \in Subscription /\ s.entry = sub[c].entry /\ s.pending = <<>>
      BY <1>4, ChangedFields, ChangedType DEF TypeInv
    <2>2. new(c) = HandleSnapshot(s, c, snapshots[c])
      OBVIOUS
    <2> DEFINE n == snapshots[c]
    <2>3. n \in 0 .. Len(log)
      BY <1>4
    <2> HIDE DEF s, n
    <2>4. /\ HandleSnapshot(s, c, n).entry = s.entry
          /\ Elements(HandleSnapshot(s, c, n).pending) \subseteq Elements(s.pending)
          /\ Own(StateAt(c, n)) \subseteq Own(HandleSnapshot(s, c, n).confirmed)
      BY <2>1, <2>3, SnapshotFields
    <2> HIDE DEF new
    <2>5. QED
      BY <2>1, <2>2, <2>4, ElementsEmpty DEF n
  <1> HIDE DEF new
  <1>7. ASSUME NEW c \in Channel
        PROVE  /\ sub'[c].entry = sub[c].entry
               /\ Elements(sub'[c].pending) \subseteq Pending(c)
    <2>1. CASE c \in reseated
      BY <1>1, <1>6, <2>1
    <2>2. CASE c \notin reseated
      BY <1>1, <2>2 DEF Pending
    <2>3. QED
      BY <2>1, <2>2
  <1>8. \A c : Mine(c)' \subseteq Mine(c)
    BY <1>1 DEF Mine, OwnId
  <1>9. ASSUME NEW c \in Channel \ Crossed, sub[c].entry # 0, sub'[c].known
        PROVE  Once(Mine(c)', Elements(sub'[c].pending), Own(sub'[c].confirmed))
    <2>1. CASE c \in reseated
      <3>1. /\ Elements(sub'[c].pending) = {}
            /\ Own(StateAt(c, snapshots[c])) \subseteq Own(sub'[c].confirmed)
        BY <1>1, <1>6, <2>1
      <3>2. \A id \in Mine(c)' : id \notin Pending(c)
        BY <1>1, <2>1 DEF Mine
      <3>3. \A id \in Mine(c) : id \in Own(StateAt(c, snapshots[c]))
                                   <=> id \in AppliedBy(snapshots[c])
        BY <1>4, <2>1, StateHas DEF ShownInv
      <3>4. QED
        BY <1>5, <1>8, <2>1, <3>1, <3>2, <3>3 DEF Once
    <2>2. CASE c \notin reseated
      <3>1. sub'[c] = sub[c]
        BY <1>1, <2>2
      <3>2. Once(Mine(c), Pending(c), Own(sub[c].confirmed))
        BY <1>9, <3>1 DEF ShownInv, OnceIfKnown
      <3>3. QED
        BY <1>8, <3>1, <3>2 DEF Once, Pending
    <2>3. QED
      BY <2>1, <2>2
  <1>10. QED
    BY <1>1, <1>7, <1>9, DrainedShown

-----------------------------------------------------------------------------
(* The transport of the client closes, and it opens another.                *)
LEMMA ClosedShown ==
    ASSUME TypeInv, ShownInv, ClientSeesClose
    PROVE  ShownInv'
  <1>1. /\ UNCHANGED <<log, subscribing, dispatchQueue, open, up, down, transport, gated,
                       dispatched, cleared, raced>>
        /\ phase' = "waiting" /\ ~open[transport] /\ down[transport] = <<>>
        /\ \A c \in Channel : sub'[c] = IF sub[c].entry \in requests THEN SetError(sub[c])
                                                                     ELSE sub[c]
    BY DEF ClientSeesClose, hostVars, wireVars
  <1>2. \A c \in Channel : /\ sub'[c].entry = sub[c].entry /\ sub'[c].known = sub[c].known
                           /\ sub'[c].confirmed = sub[c].confirmed
                           /\ Pending(c)' = Pending(c)
    BY <1>1, ChangedFields DEF TypeInv, Pending
  <1>3. /\ Crossed' = Crossed /\ \A c : Mine(c)' = Mine(c)
        /\ \A ns : Own(ns)' = Own(ns)
    BY <1>1 DEF Crossed, Mine, OwnId, Own
  <1>4. Unasked' /\ BehindRequest' /\ NoneLeftOut'
    BY <1>1 DEF Unasked, BehindRequest, NoneLeftOut
  <1>5. GatedFresh'
    BY <1>1, <1>2, <1>3 DEF ShownInv, GatedFresh
  <1>6. OwnChannels'
    BY <1>1, <1>2 DEF ShownInv, OwnChannels
  <1>7. OnceIfKnown'
    BY <1>2, <1>3 DEF ShownInv, OnceIfKnown
  <1>8. AnswersInOrder'
    BY <1>1 DEF ShownInv, AnswersInOrder
  <1>9. OnceIfAnswered'
    BY <1>1, ElementsEmpty DEF OnceIfAnswered
  <1>10. QED
    BY <1>4, <1>5, <1>6, <1>7, <1>8, <1>9 DEF ShownInv

LEMMA ReturnedShown ==
    ASSUME TypeInv, RacedType, IInv, Stages, ShownInv, AttemptReconnect
    PROVE  ShownInv'
  <1> DEFINE t == transport + 1
             m == [type |-> "reconnect", lastSeen |-> serverSeq,
                   channels |-> {Root} \cup {c \in Channel : sub[c].entry # 0}]
  <1>1. /\ UNCHANGED <<log, subscribing, dispatchQueue, open, down, sub, gated, dispatched, cleared>>
        /\ phase' = "reconnecting" /\ transport' = t /\ t \in Transport /\ t > transport
        /\ up' = Sent(up, t, <<m>>) /\ Race("ahead", AheadOfSeen)
    BY BoundsAssumption DEF AttemptReconnect, hostVars, TypeInv, Transport
  <1>2. m.type = "reconnect"
    OBVIOUS
  <1> HIDE DEF m, t
  <1>3. /\ t \notin Elements(connections) /\ up[t] = <<>> /\ down'[t] = <<>>
    BY <1>1 DEF Stages, Ahead
  <1>4. up'[t] = <<>> \/ up'[t] = <<m>>
    <2>1. up \in [Transport -> Seq(UpMessage)] /\ <<>> \o <<m>> = <<m>>
      BY DEF TypeInv
    <2>2. up'[t] = up[t] \/ up'[t] = up[t] \o <<m>>
      BY <1>1, <2>1 DEF Sent
    <2>3. QED
      BY <1>3, <2>1, <2>2
  <1>5. Asked' = {} /\ Quiet(down[transport], {"subscribed"})'
    <2>1. Elements(<<m>>) = {m}
      BY DEF Elements
    <2>2. Requests(up'[t]) = {}
      BY <1>2, <1>4, <2>1, ElementsEmpty DEF Requests
    <2>3. \A r \in subscribing : r.transport # t
      BY <1>3 DEF IInv, OneAtATime
    <2>4. QED
      BY <1>1, <1>3, <2>2, <2>3, ElementsEmpty DEF Asked, Requests, Answering, Quiet
  <1>6. /\ Crossed \subseteq Crossed'
        /\ \A c : Mine(c)' = Mine(c) /\ Pending(c)' = Pending(c)
        /\ \A ns : Own(ns)' = Own(ns)
    <2>1. Crossed \subseteq Crossed'
      BY <1>1, RaceKeeps DEF Races
    <2>2. QED
      BY <1>1, <2>1 DEF Mine, OwnId, Own, Pending
  <1>7. Unasked' /\ BehindRequest'
    BY <1>1, <1>5 DEF Unasked, BehindRequest
  <1>8. GatedFresh'
    BY <1>1, <1>6 DEF ShownInv, GatedFresh
  <1>9. OwnChannels'
    BY <1>1, <1>6 DEF ShownInv, OwnChannels
  <1>10. OnceIfKnown'
    BY <1>1, <1>6 DEF ShownInv, OnceIfKnown
  <1>11. AnswersInOrder'
    BY <1>1 DEF ShownInv, AnswersInOrder
  <1>12. OnceIfAnswered' /\ NoneLeftOut'
    BY <1>1, <1>3, ElementsEmpty DEF OnceIfAnswered, NoneLeftOut
  <1>13. QED
    BY <1>7, <1>8, <1>9, <1>10, <1>11, <1>12 DEF ShownInv

LEMMA BrokenShown ==
    ASSUME TypeInv, ShownInv, Break
    PROVE  ShownInv'
  <1>1. /\ UNCHANGED <<log, subscribing, dispatchQueue, phase, transport, sub, gated, dispatched,
                       cleared, raced>>
        /\ transport \in Transport /\ phase # "waiting"
        /\ up[transport] \in Seq(UpMessage) /\ down[transport] \in Seq(DownMessage)
    BY DEF Break, hostVars, clientVars, TypeInv, ShownInv, Unasked
  <1>2. PICK i \in 0 .. Len(up[transport]), j \in 0 .. Len(down[transport]) :
           /\ up' = [up EXCEPT ![transport] = SubSeq(@, 1, i)]
           /\ down' = [down EXCEPT ![transport] = SubSeq(@, 1, j)]
    BY DEF Break
  <1>3. /\ up'[transport] = SubSeq(up[transport], 1, i)
        /\ down'[transport] = SubSeq(down[transport], 1, j)
        /\ \A t \in Transport : t # transport => up'[t] = up[t] /\ down'[t] = down[t]
    BY <1>1, <1>2 DEF TypeInv
  <1>4. /\ Elements(up'[transport]) \subseteq Elements(up[transport])
        /\ Elements(down'[transport]) \subseteq Elements(down[transport])
    BY <1>1, <1>3, Cut
  <1>5. /\ \A e, id : Arrives(up[transport], e, id) => Arrives(up'[transport], e, id)
        /\ InOrderWith(down[transport]) => InOrderWith(down'[transport])
    BY <1>1, <1>3, PrefixOf
  <1>6. /\ Crossed' = Crossed /\ Applied' = Applied
        /\ \A c : Mine(c)' = Mine(c) /\ Pending(c)' = Pending(c)
        /\ \A ns : Own(ns)' = Own(ns)
        /\ \A n : AppliedBy(n)' = AppliedBy(n)
    BY <1>1 DEF Crossed, Mine, OwnId, Own, Pending, Applied, Owns, AppliedBy
  <1>7. Asked' \subseteq Asked
    <2>1. Requests(up'[transport]) \subseteq Requests(up[transport])
      BY <1>4, RequestsOf
    <2>2. QED
      BY <1>1, <2>1 DEF Asked, Requests, Answering
  <1>8. Unasked'
    <2>1. phase = "reconnecting" => Quiet(down'[transport], {"subscribed"}) /\ Asked = {}
      BY <1>4 DEF ShownInv, Unasked, Quiet
    <2>2. QED
      BY <1>1, <1>7, <2>1 DEF Unasked
  <1>9. GatedFresh' /\ OwnChannels' /\ OnceIfKnown'
    <2>1. GatedFresh'
      BY <1>1, <1>6 DEF ShownInv, GatedFresh
    <2>2. OwnChannels'
      BY <1>1, <1>6 DEF ShownInv, OwnChannels
    <2>3. OnceIfKnown'
      BY <1>1, <1>6 DEF ShownInv, OnceIfKnown
    <2>4. QED
      BY <2>1, <2>2, <2>3
  <1>10. BehindRequest'
    <2>1. \A id : NotTakenYet(id)' <=> NotTakenYet(id)
      BY <1>1, <1>6 DEF NotTakenYet
    <2>2. QED
      BY <1>1, <1>3, <1>5, <1>6, <1>7, <2>1 DEF ShownInv, BehindRequest
  <1>11. AnswersInOrder'
    <2>1. ASSUME NEW t \in Transport PROVE InOrderWith(down'[t])
      BY <1>3, <1>5 DEF ShownInv, AnswersInOrder
    <2>2. QED
      BY <2>1 DEF AnswersInOrder
  <1>12. OnceIfAnswered' /\ NoneLeftOut'
    BY <1>1, <1>4, <1>6 DEF ShownInv, OnceIfAnswered, NoneLeftOut
  <1>13. QED
    BY <1>8, <1>9, <1>10, <1>11, <1>12 DEF ShownInv

-----------------------------------------------------------------------------
(* The client says something: it subscribes, leaves or acts.                *)
LEMMA SaysShown ==
    ASSUME TypeInv, NEW M, UpMessage \subseteq M, NEW msgs \in Seq(M), NEW E,
           \A m \in Elements(msgs) : m.type = "subscribe" => m.id \in E,
           UNCHANGED <<subscribing, transport>>,
           up' = IF phase = "connected" THEN Sent(up, transport, msgs) ELSE up
    PROVE  /\ \A t \in Transport : t # transport => up'[t] = up[t]
           /\ up'[transport] = up[transport] \/ up'[transport] = up[transport] \o msgs
           /\ up[transport] \in Seq(M)
           /\ phase # "connected" => Asked' = Asked
           /\ Asked' \subseteq Asked \cup E
           /\ \A e, id : e \notin E /\ Arrives(up[transport], e, id)
                            => Arrives(up'[transport], e, id)
  <1>1. /\ up \in [Transport -> Seq(UpMessage)] /\ transport \in Transport
        /\ up[transport] \in Seq(M)
    BY SeqMonotonic DEF TypeInv
  <1>2. /\ \A t \in Transport : t # transport => up'[t] = up[t]
        /\ up'[transport] = up[transport] \/ up'[transport] = up[transport] \o msgs
    BY <1>1 DEF Sent
  <1>3. Elements(up[transport] \o msgs) = Elements(up[transport]) \cup Elements(msgs)
    BY <1>1, ElementsConcat
  <1>4. Requests(up'[transport]) \subseteq Requests(up[transport]) \cup E
    BY <1>2, <1>3 DEF Requests
  <1>5. phase # "connected" => up' = up
    OBVIOUS
  <1>6. Answering' = Answering /\ Requests(up[transport])' = Requests(up'[transport])
    BY DEF Answering, Requests
  <1>7. Asked' \subseteq Asked \cup E /\ (phase # "connected" => Asked' = Asked)
    BY <1>4, <1>5, <1>6 DEF Asked
  <1>8. ASSUME NEW e, NEW id, e \notin E, Arrives(up[transport], e, id)
        PROVE  Arrives(up'[transport], e, id)
    <2>1. \A m \in Elements(msgs) : m.type # "subscribe" \/ m.id # e
      BY <1>8
    <2>2. Arrives(up[transport] \o msgs, e, id)
      BY <1>1, <1>8, <2>1, ArrivesConcat
    <2>3. QED
      BY <1>2, <1>8, <2>2
  <1>9. QED
    BY <1>1, <1>2, <1>7, <1>8

(* A subscription goes, and perhaps another comes: what was pending is      *)
(* forgotten.                                                               *)
LEMMA ReplacedShown ==
    ASSUME TypeInv, ShownInv, NEW c \in Channel,
           UNCHANGED <<hostVars, open, down, phase, transport, dispatched>>,
           Crossed \subseteq Crossed', GatedFresh', cleared' = cleared \cup Pending(c),
           sub'[c].entry \notin 1 .. entries, ~sub'[c].known, sub'[c].pending = <<>>,
           \A d \in Channel : d # c => sub'[d] = sub[d],
           \A t \in Transport : t # transport => up'[t] = up[t],
           phase # "connected" => Asked' = Asked,
           Asked' \subseteq Asked \cup {entries + 1},
           \A e, id : e # entries + 1 /\ Arrives(up[transport], e, id)
                         => Arrives(up'[transport], e, id)
    PROVE  ShownInv'
  <1>1. /\ UNCHANGED <<log, subscribing, dispatchQueue>> /\ transport \in Transport
        /\ entries \in Nat /\ \A d \in Channel : sub[d].entry \in 0 .. entries
    BY Lengths DEF hostVars, TypeInv, Subscription
  <1>2. /\ Applied' = Applied
        /\ \A ns : Own(ns)' = Own(ns)
        /\ \A n : AppliedBy(n)' = AppliedBy(n)
        /\ Pending(c)' = {} /\ \A d \in Channel : d # c => Pending(d)' = Pending(d)
        /\ \A d : Mine(d)' \subseteq Mine(d)
        /\ \A id \in Mine(c)' : id \notin Pending(c)
    BY <1>1, ElementsEmpty DEF Mine, OwnId, Own, Pending, Applied, Owns, AppliedBy
  <1>3. Unasked'
    BY <1>1 DEF ShownInv, Unasked
  <1>4. OwnChannels'
    BY <1>1, <1>2 DEF ShownInv, OwnChannels
  <1>5. OnceIfKnown'
    <2>1. ASSUME NEW d \in Channel \ Crossed', sub'[d].entry # 0 /\ sub'[d].known
          PROVE  Once(Mine(d)', Pending(d)', Own(sub'[d].confirmed))
      <3>1. d # c /\ sub'[d] = sub[d] /\ d \in Channel \ Crossed
        BY <2>1
      <3>2. Once(Mine(d), Pending(d), Own(sub[d].confirmed))
        BY <2>1, <3>1 DEF ShownInv, OnceIfKnown
      <3>3. QED
        BY <1>2, <3>1, <3>2 DEF Once
    <2>2. QED
      BY <1>2, <2>1 DEF OnceIfKnown
  <1>6. BehindRequest'
    <2>1. ASSUME phase = "connected", NEW d \in Channel \ Crossed', sub'[d].entry \in Asked',
                 NEW id \in Pending(d)'
          PROVE  /\ NotTakenYet(id)'
                 /\ \A t \in Transport \ {transport} : DispatchAction(id) \notin Elements(up'[t])
                 /\ Arrives(up'[transport], sub'[d].entry, id)
      <3>1. d # c /\ sub'[d] = sub[d] /\ d \in Channel \ Crossed /\ id \in Pending(d)
        BY <1>2, <2>1
      <3>2. sub[d].entry \in Asked /\ sub[d].entry # entries + 1
        BY <1>1, <2>1, <3>1
      <3>3. /\ NotTakenYet(id)
            /\ \A t \in Transport \ {transport} : DispatchAction(id) \notin Elements(up[t])
            /\ Arrives(up[transport], sub[d].entry, id)
        BY <2>1, <3>1, <3>2 DEF ShownInv, BehindRequest
      <3>4. NotTakenYet(id)'
        BY <1>1, <1>2, <3>3 DEF NotTakenYet
      <3>5. QED
        BY <3>1, <3>2, <3>3, <3>4
    <2>2. QED
      BY <2>1 DEF BehindRequest
  <1>7. AnswersInOrder'
    BY <1>1 DEF ShownInv, AnswersInOrder
  <1>8. OnceIfAnswered'
    <2>1. \A m \in Elements(down[transport]) : m.type = "subscribed" => m.id \in 1 .. entries
      <3>1. \A m \in Elements(down[transport]) : m \in DownMessage
        BY <1>1, ElementsType DEF TypeInv
      <3>2. \A m \in DownMessage : m.type = "subscribed" => m.id \in 1 .. entries
        BY DEF DownMessage
      <3>3. QED
        BY <3>1, <3>2
    <2>2. ASSUME NEW d \in Channel \ Crossed', NEW m \in Elements(down[transport]),
                 m.type = "subscribed", m.id = sub'[d].entry
          PROVE  /\ Elements(sub'[d].buffered) \subseteq 1 .. m.fromSeq
                 /\ Once(Mine(d)', Pending(d)', AppliedBy(m.fromSeq))
      <3>1. d # c /\ sub'[d] = sub[d] /\ d \in Channel \ Crossed
        BY <2>1, <2>2
      <3>2. /\ Elements(sub[d].buffered) \subseteq 1 .. m.fromSeq
            /\ Once(Mine(d), Pending(d), AppliedBy(m.fromSeq))
        BY <2>2, <3>1 DEF ShownInv, OnceIfAnswered
      <3>3. QED
        BY <1>2, <3>1, <3>2 DEF Once
    <2>3. QED
      BY <1>1, <1>2, <2>2 DEF OnceIfAnswered
  <1>9. NoneLeftOut'
    <2>1. ASSUME phase = "reconnecting", NEW m \in Elements(down[transport]),
                 m.type = "snapshot", NEW d \in DOMAIN m.snapshots, d \in Channel
          PROVE  Mine(d)' \subseteq Pending(d)' \cup AppliedBy(m.snapshots[d])
      <3>1. Mine(d) \subseteq Pending(d) \cup AppliedBy(m.snapshots[d])
        BY <2>1 DEF ShownInv, NoneLeftOut
      <3>2. QED
        BY <1>2, <2>1, <3>1
    <2>2. \A m \in Elements(down[transport]) : m.type = "snapshot" => DOMAIN m.snapshots \subseteq Channel
      <3>1. \A m \in Elements(down[transport]) : m \in DownMessage
        BY <1>1, ElementsType DEF TypeInv
      <3>2. \A m \in DownMessage : m.type = "snapshot" => m.snapshots \in Snapshots
        BY DEF DownMessage
      <3>3. \A s \in Snapshots : DOMAIN s \subseteq Channel
        BY DEF Snapshots
      <3>4. QED
        BY <3>1, <3>2, <3>3
    <2>3. QED
      BY <1>1, <1>2, <2>1, <2>2 DEF NoneLeftOut
  <1>10. QED
    BY <1>3, <1>4, <1>5, <1>6, <1>7, <1>8, <1>9 DEF ShownInv

LEMMA SubscribeShown ==
    ASSUME TypeInv, ShownInv, NEW c \in Channel, Subscribe(c)
    PROVE  ShownInv'
  <1> DEFINE left    == IF sub[c].entry = 0 THEN <<>> ELSE <<Unsubscribe(c)>>
             request == [type |-> "subscribe", channel |-> c, id |-> entries + 1]
             msgs    == left \o <<request>>
             M       == UpMessage \cup {Unsubscribe(c), request}
  <1>1. /\ UNCHANGED <<hostVars, open, down, phase, transport, dispatched, raced>>
        /\ sub' = [sub EXCEPT ![c] = [NoSubscription EXCEPT !.entry = entries + 1]]
        /\ cleared' = cleared \cup Pending(c)
        /\ up' = IF phase = "connected" THEN Sent(up, transport, msgs) ELSE up
        /\ gated' = gated \/ gated' = Append(gated, request)
    BY DEF Subscribe
  <1>2. UpMessage \subseteq M /\ left \in Seq(M) /\ <<request>> \in Seq(M)
    <2>1. <<>> \in Seq(M) /\ Unsubscribe(c) \in M /\ request \in M /\ UpMessage \subseteq M
      BY EmptySeq
    <2> HIDE DEF M, request
    <2>2. <<Unsubscribe(c)>> \in Seq(M) /\ <<request>> \in Seq(M)
      BY <2>1
    <2>3. QED
      BY <2>1, <2>2
  <1>3. /\ Elements(left) \subseteq {Unsubscribe(c)} /\ Elements(<<request>>) = {request}
        /\ Unsubscribe(c).type # "subscribe"
        /\ request.id = entries + 1 /\ request.channel = c
    BY ElementsEmpty DEF Elements, Unsubscribe
  <1>4. /\ entries \in Nat /\ \A d \in Channel : sub[d].entry \in 0 .. entries
        /\ gated \in Seq(SubscribeRequest)
    BY DEF TypeInv, Subscription
  <1>5. /\ sub'[c].entry = entries + 1 /\ ~sub'[c].known /\ sub'[c].pending = <<>>
        /\ \A d \in Channel : d # c => sub'[d] = sub[d]
    BY <1>1 DEF NoSubscription, TypeInv
  <1> HIDE DEF M, left, request
  <1>6. msgs \in Seq(M) /\ Elements(msgs) = Elements(left) \cup Elements(<<request>>)
    BY <1>2, ConcatProperties, ElementsConcat
  <1>7. \A m \in Elements(msgs) : m.type = "subscribe" => m.id \in {entries + 1}
    BY <1>3, <1>6
  <1> HIDE DEF msgs
  <1>8. /\ \A t \in Transport : t # transport => up'[t] = up[t]
        /\ phase # "connected" => Asked' = Asked
        /\ Asked' \subseteq Asked \cup {entries + 1}
        /\ \A e, id : e \notin {entries + 1} /\ Arrives(up[transport], e, id)
                         => Arrives(up'[transport], e, id)
    <2>1. UNCHANGED <<subscribing, transport>>
      BY <1>1 DEF hostVars
    <2>2. QED
      BY <1>1, <1>2, <1>6, <1>7, <2>1, SaysShown
  <1>9. Crossed' = Crossed
    BY <1>1 DEF Crossed
  <1>10. GatedFresh'
    <2>1. Elements(gated') \subseteq Elements(gated) \cup {request}
      <3>1. gated \in Seq(SubscribeRequest \cup {request})
        BY <1>4, SeqMonotonic
      <3>2. Elements(Append(gated, request)) = Elements(gated) \cup {request}
        BY <3>1, ElementsAppend
      <3>3. QED
        BY <1>1, <3>2
    <2>2. \A m \in Elements(gated) : m.id \in 1 .. entries
      BY <1>4, ElementsType DEF SubscribeRequest
    <2>3. ASSUME NEW m \in Elements(gated'), NEW d \in Channel, sub'[d].entry = m.id
          PROVE  m.channel = d /\ (d \notin Crossed => Elements(sub'[d].pending) = {})
      <3>1. CASE m = request
        <4>1. d = c
          BY <1>3, <1>4, <1>5, <2>3, <3>1
        <4>2. QED
          BY <1>3, <1>5, <3>1, <4>1, ElementsEmpty
      <3>2. CASE m \in Elements(gated)
        <4>1. d # c
          BY <1>4, <1>5, <2>2, <2>3, <3>2
        <4>2. sub'[d] = sub[d]
          BY <1>5, <4>1
        <4>3. QED
          BY <2>3, <3>2, <4>2 DEF ShownInv, GatedFresh, Pending
      <3>3. QED
        BY <2>1, <3>1, <3>2
    <2>4. QED
      BY <1>9, <2>3 DEF GatedFresh, Pending
  <1>11. sub'[c].entry \notin 1 .. entries
    BY <1>4, <1>5
  <1>12. QED
    BY <1>1, <1>5, <1>8, <1>9, <1>10, <1>11, ReplacedShown

LEMMA ReleaseShown ==
    ASSUME TypeInv, RacedType, ShownInv, NEW c \in Channel, Release(c)
    PROVE  ShownInv'
  <1> DEFINE m == Unsubscribe(c)
             M == UpMessage \cup {m}
  <1>1. /\ UNCHANGED <<hostVars, open, down, phase, transport, dispatched, gated>>
        /\ sub' = [sub EXCEPT ![c] = NoSubscription]
        /\ cleared' = cleared \cup Pending(c)
        /\ up' = IF phase = "connected" THEN Sent(up, transport, <<m>>) ELSE up
        /\ Race("crossed", {c} \cap Gated)
    BY DEF Release, Notify
  <1>2. /\ m.type # "subscribe" /\ UpMessage \subseteq M /\ m \in M
    BY DEF Unsubscribe
  <1> HIDE DEF M, m
  <1>3. <<m>> \in Seq(M) /\ Elements(<<m>>) = {m}
    BY <1>2 DEF Elements
  <1>4. /\ sub'[c].entry = 0 /\ ~sub'[c].known /\ sub'[c].pending = <<>>
        /\ \A d \in Channel : d # c => sub'[d] = sub[d]
    BY <1>1 DEF NoSubscription, TypeInv
  <1>5. /\ \A t \in Transport : t # transport => up'[t] = up[t]
        /\ phase # "connected" => Asked' = Asked
        /\ Asked' \subseteq Asked \cup {entries + 1}
        /\ \A e, id : e \notin {entries + 1} /\ Arrives(up[transport], e, id)
                         => Arrives(up'[transport], e, id)
    <2>1. UNCHANGED <<subscribing, transport>>
      BY <1>1 DEF hostVars
    <2>2. \A k \in Elements(<<m>>) : k.type = "subscribe" => k.id \in {entries + 1}
      BY <1>2, <1>3
    <2>3. QED
      BY <1>1, <1>2, <1>3, <2>1, <2>2, SaysShown
  <1>6. Crossed \subseteq Crossed'
    BY <1>1, RaceKeeps DEF Races
  <1>7. GatedFresh'
    <2>1. \A k \in Elements(gated) : k.id \in 1 .. entries
      <3>1. Elements(gated) \subseteq SubscribeRequest
        BY ElementsType DEF TypeInv
      <3>2. QED
        BY <3>1 DEF SubscribeRequest
    <2>2. ASSUME NEW k \in Elements(gated), NEW d \in Channel, sub'[d].entry = k.id
          PROVE  k.channel = d /\ (d \notin Crossed' => Elements(sub'[d].pending) = {})
      <3>1. d # c
        BY <1>4, <2>1, <2>2
      <3>2. sub'[d] = sub[d]
        BY <1>4, <3>1
      <3>3. QED
        BY <1>6, <2>2, <3>2 DEF ShownInv, GatedFresh, Pending
    <2>3. QED
      BY <1>1, <2>2 DEF GatedFresh, Pending
  <1>8. sub'[c].entry \notin 1 .. entries
    BY <1>4
  <1>9. QED
    BY <1>1, <1>4, <1>5, <1>6, <1>7, <1>8, ReplacedShown

(* What was dispatched is pending, and was seen nowhere else.               *)
LEMMA DispatchShown ==
    ASSUME TypeInv, RacedType, ShownInv, NEW c \in Channel, Dispatch(c)
    PROVE  ShownInv'
  <1> DEFINE new == Len(dispatched) + 1
             m   == DispatchAction(new)
             M   == UpMessage \cup {m}
  <1>1. /\ UNCHANGED <<hostVars, open, down, phase, transport, gated, cleared>>
        /\ UNCHANGED <<log, subscribing, dispatchQueue>>
        /\ dispatched' = Append(dispatched, c) /\ sub[c].entry # 0
        /\ sub' = [sub EXCEPT ![c].pending = Append(@, Len(dispatched'))]
        /\ Notify(DispatchAction(Len(dispatched')))
        /\ Race("crossed", {c} \cap Gated)
    BY DEF Dispatch, Following, Follows, hostVars
  <1>2. /\ new \in Nat /\ new # 0 /\ Len(dispatched') = new
        /\ OwnId' = OwnId \cup {new} /\ new \notin OwnId /\ new \notin 0 .. Len(dispatched)
        /\ dispatched'[new] = c /\ \A id \in OwnId : dispatched'[id] = dispatched[id]
    <2>1. /\ Len(dispatched) \in Nat /\ Len(dispatched') = new /\ dispatched'[new] = c
          /\ \A id \in 1 .. Len(dispatched) : dispatched'[id] = dispatched[id]
      BY <1>1, AppendProperties, LenProperties DEF TypeInv
    <2>2. OwnId' = 1 .. new /\ OwnId = 1 .. Len(dispatched)
      BY <2>1 DEF OwnId
    <2>3. QED
      BY <2>1, <2>2
  <1>3. up' = IF phase = "connected" THEN Sent(up, transport, <<m>>) ELSE up
    BY <1>1, <1>2 DEF Notify
  <1>4. m.type = "dispatchAction" /\ UpMessage \subseteq M /\ m \in M
    BY DEF DispatchAction
  <1> HIDE DEF M, m
  <1>5. <<m>> \in Seq(M) /\ Elements(<<m>>) = {m}
    BY <1>4 DEF Elements
  <1>6. /\ \A t \in Transport : t # transport => up'[t] = up[t]
        /\ up'[transport] = up[transport] \/ up'[transport] = up[transport] \o <<m>>
        /\ up[transport] \in Seq(M)
        /\ phase # "connected" => Asked' = Asked
        /\ Asked' \subseteq Asked
        /\ \A e, id : Arrives(up[transport], e, id) => Arrives(up'[transport], e, id)
    <2> DEFINE none == {}
    <2>1. \A k \in Elements(<<m>>) : k.type = "subscribe" => k.id \in none
      BY <1>4, <1>5
    <2>2. UNCHANGED <<subscribing, transport>>
      BY <1>1
    <2> HIDE DEF none
    <2>3. /\ \A t \in Transport : t # transport => up'[t] = up[t]
          /\ up'[transport] = up[transport] \/ up'[transport] = up[transport] \o <<m>>
          /\ up[transport] \in Seq(M)
          /\ phase # "connected" => Asked' = Asked
          /\ Asked' \subseteq Asked \cup none
          /\ \A e, id : e \notin none /\ Arrives(up[transport], e, id)
                           => Arrives(up'[transport], e, id)
      BY <1>3, <1>4, <1>5, <2>1, <2>2, SaysShown
    <2>4. QED
      BY <2>3 DEF none
  <1>7. /\ \A d \in Channel : /\ sub'[d].entry = sub[d].entry /\ sub'[d].known = sub[d].known
                              /\ sub'[d].confirmed = sub[d].confirmed
                              /\ sub'[d].buffered = sub[d].buffered
        /\ \A d \in Channel : d # c => sub'[d].pending = sub[d].pending
        /\ Elements(sub'[c].pending) = Pending(c) \cup {new}
    <2>1. \A d \in Channel : d # c => sub'[d] = sub[d]
      BY <1>1 DEF TypeInv
    <2>2. sub[c] \in Subscription /\ sub'[c] = [sub[c] EXCEPT !.pending = Append(@, new)]
      BY <1>1, <1>2 DEF TypeInv
    <2>3. sub[c].pending \in Seq(OwnId \cup {new})
      BY <2>2, SeqMonotonic DEF Subscription
    <2>4. Elements(Append(sub[c].pending, new)) = Elements(sub[c].pending) \cup {new}
      BY <2>3, ElementsAppend
    <2> HIDE DEF new
    <2>5. /\ sub'[c].entry = sub[c].entry /\ sub'[c].known = sub[c].known
          /\ sub'[c].confirmed = sub[c].confirmed /\ sub'[c].buffered = sub[c].buffered
          /\ sub'[c].pending = Append(sub[c].pending, new)
      BY <2>2 DEF Subscription
    <2>6. QED
      BY <2>1, <2>4, <2>5 DEF Pending
  <1>8. /\ Pending(c)' = Pending(c) \cup {new}
        /\ \A d \in Channel : d # c => Pending(d)' = Pending(d)
    BY <1>7 DEF Pending
  <1>9. /\ Mine(c)' = Mine(c) \cup {new}
        /\ \A d : d # c => Mine(d)' = Mine(d)
    <2>1. new \notin cleared
      BY <1>2 DEF TypeInv
    <2>2. QED
      BY <1>1, <1>2, <2>1 DEF Mine
  <1>10. Crossed' = Crossed \cup ({c} \cap Gated)
    BY <1>1, RaceKeeps DEF Races
  <1>11. /\ Applied' = Applied
         /\ \A ns : Own(ns)' = Own(ns)
         /\ \A n : AppliedBy(n)' = AppliedBy(n)
    BY <1>1 DEF Own, Applied, Owns, AppliedBy
  <1>12. /\ \A d \in Channel : new \notin Own(sub[d].confirmed)
         /\ \A n \in 0 .. Len(log) : new \notin AppliedBy(n)
         /\ new \notin Applied /\ new \notin Elements(dispatchQueue)
         /\ \A t \in Transport : m \notin Elements(up[t])
    <2>1. \A n \in 1 .. Len(log) : log[n].own # new
      BY <1>2, LogEntries
    <2>2. \A n \in 0 .. Len(log) : new \notin AppliedBy(n)
      <3>1. \A n \in 0 .. Len(log) : \A k \in 1 .. n : k \in 1 .. Len(log)
        BY Lengths
      <3>2. QED
        BY <2>1, <3>1 DEF AppliedBy
    <2>3. \A d \in Channel : new \notin Own(sub[d].confirmed)
      BY <1>2, OwnType DEF TypeInv, Subscription
    <2>4. new \notin Applied
      <3>1. Len(Owns) = Len(log) /\ \A n \in 1 .. Len(log) : Owns[n] = log[n].own
        BY InTurnTypes
      <3>2. QED
        BY <2>1, <3>1 DEF Applied, Elements
    <2>5. new \notin Elements(dispatchQueue)
      BY <1>2, ElementsType DEF TypeInv
    <2>6. ASSUME NEW t \in Transport PROVE m \notin Elements(up[t])
      <3>1. Elements(up[t]) \subseteq UpMessage
        BY ElementsType DEF TypeInv
      <3>2. \A k \in UpMessage : k.type = "dispatchAction" => k.id \in OwnId
        BY DEF UpMessage, Notification, SubscribeRequest
      <3>3. m.id = new
        BY DEF m, DispatchAction
      <3>4. QED
        BY <1>2, <1>4, <3>1, <3>2, <3>3
    <2>7. QED
      BY <2>2, <2>3, <2>4, <2>5, <2>6
  <1> HIDE DEF new
  <1>13. Unasked'
    BY <1>1, <1>6 DEF ShownInv, Unasked
  <1>14. GatedFresh'
    <2>1. ASSUME NEW k \in Elements(gated), NEW d \in Channel, sub'[d].entry = k.id
          PROVE  k.channel = d /\ (d \notin Crossed' => Pending(d)' = {})
      <3>1. k.channel = d /\ (d \notin Crossed => Pending(d) = {})
        BY <1>7, <2>1 DEF ShownInv, GatedFresh
      <3>2. d = c => d \in Crossed'
        BY <1>10, <3>1 DEF Gated
      <3>3. QED
        BY <1>8, <1>10, <3>1, <3>2
    <2>2. QED
      BY <1>1, <2>1 DEF GatedFresh
  <1>15. OwnChannels'
    <2>1. ASSUME NEW n \in 1 .. Len(log), log[n].own # 0
          PROVE  log[n].channel = dispatched'[log[n].own]
      <3>1. log[n].own \in OwnId
        BY <2>1, LogEntries DEF OwnId
      <3>2. QED
        BY <1>2, <2>1, <3>1 DEF ShownInv, OwnChannels
    <2>2. ASSUME NEW d \in Channel, NEW id \in Pending(d)'
          PROVE  dispatched'[id] = d
      <3>1. CASE id \in Pending(d)
        <4>1. id \in OwnId
          BY <3>1, PendingType
        <4>2. QED
          BY <1>2, <3>1, <4>1 DEF ShownInv, OwnChannels
      <3>2. CASE id = new /\ d = c
        BY <1>2, <3>2
      <3>3. QED
        BY <1>8, <2>2, <3>1, <3>2
    <2>3. QED
      BY <1>1, <2>1, <2>2 DEF OwnChannels
  <1>16. OnceIfKnown'
    <2>1. ASSUME NEW d \in Channel \ Crossed', sub'[d].entry # 0 /\ sub'[d].known
          PROVE  Once(Mine(d)', Pending(d)', Own(sub[d].confirmed))
      <3>1. Once(Mine(d), Pending(d), Own(sub[d].confirmed)) /\ d \in Channel
        BY <1>7, <1>10, <2>1 DEF ShownInv, OnceIfKnown
      <3>2. QED
        BY <1>8, <1>9, <1>12, <3>1 DEF Once
    <2>2. QED
      BY <1>7, <1>11, <2>1 DEF OnceIfKnown
  <1>17. BehindRequest'
    <2>1. ASSUME phase = "connected", NEW d \in Channel \ Crossed', sub[d].entry \in Asked',
                 NEW id \in Pending(d)'
          PROVE  /\ NotTakenYet(id)
                 /\ \A t \in Transport \ {transport} : DispatchAction(id) \notin Elements(up'[t])
                 /\ Arrives(up'[transport], sub[d].entry, id)
      <3>1. CASE id \in Pending(d)
        <4>1. /\ NotTakenYet(id)
              /\ \A t \in Transport \ {transport} : DispatchAction(id) \notin Elements(up[t])
              /\ Arrives(up[transport], sub[d].entry, id)
          BY <1>6, <1>10, <2>1, <3>1 DEF ShownInv, BehindRequest
        <4>2. QED
          BY <1>6, <4>1
      <3>2. CASE id = new
        <4>1. transport \in Transport /\ m = DispatchAction(id)
          BY <3>2 DEF TypeInv, m
        <4>2. Arrives(up[transport], sub[d].entry, id)
          BY <1>6, <1>12, <4>1, ArrivesIfAbsent
        <4>3. QED
          BY <1>6, <1>12, <3>2, <4>1, <4>2 DEF NotTakenYet
      <3>3. QED
        BY <1>8, <2>1, <3>1, <3>2
    <2>2. \A id : NotTakenYet(id)' <=> NotTakenYet(id)
      BY <1>1, <1>11 DEF NotTakenYet
    <2>3. QED
      BY <1>1, <1>7, <2>1, <2>2 DEF BehindRequest
  <1>18. AnswersInOrder'
    BY <1>1 DEF ShownInv, AnswersInOrder
  <1>19. \A k \in Elements(down[transport]) :
            /\ k.type = "subscribed" => k.fromSeq \in 0 .. Len(log)
            /\ k.type = "snapshot" => DOMAIN k.snapshots \subseteq Channel
    <2>1. \A k \in Elements(down[transport]) : k \in DownMessage
      BY ElementsType DEF TypeInv
    <2>2. \A k \in DownMessage : k.type = "subscribed" => k.fromSeq \in 0 .. Len(log)
      BY DEF DownMessage
    <2>3. \A k \in DownMessage : k.type = "snapshot" => k.snapshots \in Snapshots
      BY DEF DownMessage
    <2>4. \A s \in Snapshots : DOMAIN s \subseteq Channel
      BY DEF Snapshots
    <2>5. QED
      BY <2>1, <2>2, <2>3, <2>4
  <1>20. OnceIfAnswered'
    <2>1. ASSUME NEW d \in Channel \ Crossed', NEW k \in Elements(down[transport]),
                 k.type = "subscribed", k.id = sub[d].entry
          PROVE  /\ Elements(sub[d].buffered) \subseteq 1 .. k.fromSeq
                 /\ Once(Mine(d)', Pending(d)', AppliedBy(k.fromSeq))
      <3>1. /\ Elements(sub[d].buffered) \subseteq 1 .. k.fromSeq
            /\ Once(Mine(d), Pending(d), AppliedBy(k.fromSeq)) /\ d \in Channel
        BY <1>10, <2>1 DEF ShownInv, OnceIfAnswered
      <3>2. new \notin AppliedBy(k.fromSeq)
        BY <1>12, <1>19, <2>1
      <3>3. QED
        BY <1>8, <1>9, <3>1, <3>2 DEF Once
    <2>2. QED
      BY <1>1, <1>7, <1>11, <2>1 DEF OnceIfAnswered
  <1>21. NoneLeftOut'
    <2>1. ASSUME phase = "reconnecting", NEW k \in Elements(down[transport]),
                 k.type = "snapshot", NEW d \in DOMAIN k.snapshots
          PROVE  Mine(d)' \subseteq Pending(d)' \cup AppliedBy(k.snapshots[d])
      <3>1. Mine(d) \subseteq Pending(d) \cup AppliedBy(k.snapshots[d]) /\ d \in Channel
        BY <1>19, <2>1 DEF ShownInv, NoneLeftOut
      <3>2. QED
        BY <1>8, <1>9, <3>1
    <2>2. QED
      BY <1>1, <1>11, <2>1 DEF NoneLeftOut
  <1>22. QED
    BY <1>13, <1>14, <1>15, <1>16, <1>17, <1>18, <1>20, <1>21 DEF ShownInv

-----------------------------------------------------------------------------
LEMMA ShownStep ==
    ASSUME TypeInv, RacedType, IInv, OrderInv, Stages, ShownInv, Evicted = {}, [Next]_vars
    PROVE  ShownInv'
  <1>1. 1 \in Transport
    BY BoundsAssumption DEF Transport
  <1>2. ASSUME NEW c \in Channel, Dispatch(c) \/ Subscribe(c) \/ Release(c) \/ Act(c)
        PROVE  ShownInv'
    BY <1>1, <1>2, DispatchShown, SubscribeShown, ReleaseShown, ActsShown
  <1>3. CASE ClientRuns
    BY <1>3, ReceiveActionShown, ReceiveReplayShown, ReceiveSnapshotsShown,
       ReceiveSubscribedShown, ReceiveRefusalShown, ClosedShown, ReturnedShown DEF ClientRuns
  <1>4. ASSUME NEW t \in Transport, HostReads(t)
        PROVE  ShownInv'
    BY <1>4, ChannelAssumption, ActsShown, HandledShown, HandleSubscribeShown DEF HostReads
  <1>5. ASSUME NEW r \in restoring, HostRestores(r)
        PROVE  ShownInv'
    BY <1>5, RestoresShown
  <1>6. ASSUME NEW r \in subscribing, HostAnswers(r)
        PROVE  ShownInv'
    BY <1>6, AnswersShown
  <1>7. CASE RunDispatchQueue
    BY <1>1, <1>7, ChannelAssumption, ActsShown
  <1>8. CASE Break
    BY <1>8, BrokenShown
  <1>9. CASE UNCHANGED vars
    <2>1. UNCHANGED <<log, dispatchQueue, subscribing, open, up, down, clientVars, raced>>
      BY <1>9 DEF vars, hostVars, wireVars
    <2>2. \A t \in Transport : TakesOne(t) /\ Tells(t)
      BY <2>1 DEF TakesOne, Tells
    <2>3. Asked' \subseteq Asked /\ \A id \in OwnId : NotTakenYet(id) => NotTakenYet(id)'
      BY <2>1, <2>2, AskedLess, SameApplied
    <2>4. QED
      BY <2>1, <2>2, <2>3, QuietShown
  <1>10. QED
    BY <1>2, <1>3, <1>4, <1>5, <1>6, <1>7, <1>8, <1>9 DEF Next

LEMMA ShownFollows == ShownInv => ShownOnce
  <1> SUFFICES ASSUME ShownInv, NEW id \in 1 .. Len(dispatched), NEW c, c = dispatched[id],
                      c \in Following \ Hit({"crossed"}), sub[c].known, id \notin cleared
               PROVE  (id \in Pending(c)) # (id \in Confirmed(c))
    BY DEF ShownOnce
  <1>1. c \in Channel \ Crossed /\ sub[c].entry # 0
    BY DEF Following, Follows, Hit, Crossed
  <1>2. Once(Mine(c), Pending(c), Own(sub[c].confirmed))
    BY <1>1 DEF ShownInv, OnceIfKnown
  <1>3. id \in Mine(c) /\ id # 0
    BY DEF Mine, OwnId
  <1>4. QED
    BY <1>2, <1>3 DEF Once, Own, Confirmed

\* While the sessions are in memory, no action of a user is lost from view and
\* none is shown twice: it is pending or confirmed in the client's state of its
\* channel, through losses of the transport, replays, snapshots, subscriptions
\* on the way and answers that come late. The exceptions are the actions that
\* were forgotten on purpose, and the channels that were acted on while their
\* subscribe request waited for a reconnection.
THEOREM OnceShown ==
    ASSUME Evicted = {}
    PROVE  Spec => []ShownOnce
  <1>1. Spec => []IInv
    BY AlwaysIInv
  <1>2. Init => OrderInv /\ Stages /\ ShownInv
    BY InitInTurn, InitStages, InitShown
  <1>3. ASSUME TypeInv, TypeInv', RacedType, IInv, OrderInv, Stages, ShownInv, [Next]_vars
        PROVE  OrderInv' /\ Stages' /\ ShownInv'
    BY <1>3, InTurnStep, StagesStep, ShownStep
  <1>4. QED
    BY <1>1, <1>2, <1>3, AlwaysTypeInv, AlwaysRacedType, ShownFollows, PTL DEF Spec

==============================================================================
