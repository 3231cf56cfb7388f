---------------------------- MODULE AgentHostSync ----------------------------
(***************************************************************************)
(* The agent host protocol between a client and the host                   *)
(* (src/vs/platform/agentHost): RemoteAgentHostProtocolClient with its     *)
(* AgentSubscriptionManager on one side, ProtocolServerHandler with the    *)
(* AgentService and the AgentHostStateManager on the other.                *)
(*                                                                         *)
(* The host numbers the actions it applies (serverSeq), broadcasts them to *)
(* the connections subscribed to their channel and keeps the last ones in  *)
(* a replay buffer.  The client mirrors the channels it is subscribed to,  *)
(* shows its own actions before they are confirmed, and when its transport *)
(* is lost opens another and asks to be brought up to date.                *)
(*                                                                         *)
(* A transport is a pair of FIFO wires that may close at any moment and    *)
(* lose the tail of what is in flight; the host may go on reading a        *)
(* transport the client has left.  A state is the sequence of the          *)
(* serverSeqs applied to it: reducers are not modelled.  A session that    *)
(* was evicted comes back as it was.                                       *)
(***************************************************************************)
EXTENDS Naturals, Sequences, FiniteSets, SequencesExt, Subsequences

CONSTANTS
    Channel,        \* what a client subscribes to
    Root,           \* the channel every client is subscribed to, always
    Initially,      \* the channels the client is subscribed to at the start
    Unrestorable,   \* the channels whose state the host may fail to restore
    Rewritten,      \* the actions of the client with attachments to rewrite
    Capacity,       \* REPLAY_BUFFER_CAPACITY
    Evicted,        \* the channels whose state the host may have to load first
    MaxAction,      \* bound on the actions of the client, other clients and the host
    MaxTransport,   \* bound on the transports the client opens
    MaxEntry        \* bound on the subscriptions the client creates

ASSUME ChannelAssumption ==
    /\ Root \in Channel
    /\ Initially \subseteq Channel \ {Root}
    /\ Unrestorable \subseteq Channel \ {Root}
    /\ Rewritten \subseteq Nat
    /\ Evicted \subseteq Channel
ASSUME BoundsAssumption ==
    /\ Capacity \in Nat \ {0}
    /\ {MaxAction, MaxEntry} \subseteq Nat
    /\ MaxTransport \in Nat \ {0}

VARIABLES
  \* the host
    log,            \* the actions applied so far; its length is _serverSeq
    connections,    \* the connections of the client's record, oldest first
    subscriptions,  \* subscriptions[t]: those of connection t
    restoring,      \* the reconnect requests being answered
    subscribing,    \* the subscribe requests being answered
    dispatchQueue,  \* _clientDispatchQueues: actions behind an async rewrite
    subscribers,    \* the channels the agent service has the client registered for
  \* the transports
    open,           \* open[t]: transport t accepts data
    up, down,       \* up[t], down[t]: in flight to the host, to the client
  \* the client
    phase,          \* "connected", "waiting" to reconnect, or "reconnecting"
    transport,      \* the transport installed last
    serverSeq,      \* _serverSeq: the last one seen
    sub,            \* sub[c]: the subscription to c
    gated,          \* subscribe requests waiting for the reconnection
    requests,       \* ids of the subscribe requests sent and not answered
    outbox,         \* notifications waiting for the reconnection
    entries,        \* how many subscriptions were created
    dispatched,     \* the channels of the actions dispatched; index = clientSeq
    cleared,        \* history: own actions forgotten before they were confirmed
    raced           \* history: raced[r]: the channels that race r has hit

hostVars   == <<log, connections, subscriptions, restoring, subscribing,
                dispatchQueue, subscribers>>
wireVars   == <<open, up, down>>
clientVars == <<phase, transport, serverSeq, sub, gated, requests, outbox,
                entries, dispatched, cleared>>
vars == <<hostVars, wireVars, clientVars, raced>>

Transport == 1 .. MaxTransport

Without(s, S) == Where(s, Elements(s) \ S)

\* The actions on a channel, and its state after the first n actions.
On(c) == {n \in 1 .. Len(log) : log[n].channel = c}
StateAt(c, n) == Where(UpTo(n), On(c))

\* The replay buffer holds the last Capacity actions.
ReplayBuffer == {n \in 1 .. Len(log) : n + Capacity > Len(log)}

OldestBuffered == IF ReplayBuffer = {} THEN Len(log) ELSE Min(ReplayBuffer)

\* A transport that was closed swallows what is sent on it.
Sent(wires, t, msgs) ==
    IF open[t] THEN [wires EXCEPT ![t] = @ \o msgs] ELSE wires

\* Races that the code does not guard against, each two steps in an order which
\* takes a channel of the client out of step with the host's. Where they happen
\* is said below; every property names those that can break it.
Races == {"crossed", "ahead", "astray", "forgotten"}

Race(race, channels) == raced' = [raced EXCEPT ![race] = @ \cup channels]

\* The channels hit by one of the races.
Hit(races) == UNION {raced[race] : race \in races}

-----------------------------------------------------------------------------
(* A subscription of the client.                                            *)

NoSubscription ==
    [entry     |-> 0,       \* identifies the entry, 0: there is none
     known     |-> FALSE,   \* _confirmedState is not undefined
     failed    |-> FALSE,   \* _error is set
     confirmed |-> <<>>,    \* _confirmedState
     buffered  |-> <<>>,    \* _bufferedEnvelopes
     pending   |-> <<>>]    \* _pendingActions

\* The own ones among the actions ns.
Own(ns) == {log[n].own : n \in Elements(ns)}

\* Mutant: an own action that is confirmed stays pending.
ReconcileKeeping(s, ns) == [s EXCEPT !.confirmed = @ \o ns]

\* _reconcile, of one action after the other: each is applied, and no longer
\* pending when it is an own one.
Reconcile(s, ns) == [s EXCEPT !.confirmed = @ \o ns, !.pending = Without(@, Own(ns))]

\* The actions with serverSeqs ns, all to its channel, reach the subscription s.
ReceiveEnvelope(s, ns) ==
    IF s.entry = 0 THEN s
    ELSE IF s.known THEN Reconcile(s, ns)
    ELSE [s EXCEPT !.buffered = @ \o ns]

\* A snapshot taken after the first n actions; of the buffered ones the newer
\* are applied.
HandleSnapshot(s, c, n) ==
    Reconcile([s EXCEPT !.known = TRUE, !.failed = FALSE, !.confirmed = StateAt(c, n),
                        !.buffered = <<>>],
              Where(s.buffered, {m \in Elements(s.buffered) : m > n}))

ClearPending(s) == [s EXCEPT !.pending = <<>>]

SetError(s) == [s EXCEPT !.failed = TRUE]

\* How many actions there were; an action that is sent again is counted once.
Actions == Len(dispatched) + Cardinality({n \in 1 .. Len(log) : log[n].own = 0})

\* The channels the client follows.
Follows(c) == sub[c].entry # 0 /\ ~sub[c].failed
Following == {c \in Channel : Follows(c)}

Pending(c) == Elements(sub[c].pending)

-----------------------------------------------------------------------------
Init ==
    /\ log = <<>>
    /\ connections = <<1>>
    /\ subscriptions = [t \in Transport |-> IF t = 1 THEN Initially \cup {Root} ELSE {}]
    /\ restoring = {}
    /\ subscribing = {}
    /\ dispatchQueue = <<>>
    /\ subscribers = Initially \cup {Root}
    /\ open = [t \in Transport |-> TRUE]
    /\ up = [t \in Transport |-> <<>>]
    /\ down = [t \in Transport |-> <<>>]
    /\ phase = "connected"
    /\ transport = 1
    /\ serverSeq = 0
    /\ sub = [c \in Channel |->
                IF c \in Initially \cup {Root}
                THEN [NoSubscription EXCEPT !.entry = 1, !.known = TRUE]
                ELSE NoSubscription]
    /\ gated = <<>>
    /\ requests = {}
    /\ outbox = <<>>
    /\ entries = 1
    /\ dispatched = <<>>
    /\ cleared = {}
    /\ raced = [r \in Races |-> {}]

-----------------------------------------------------------------------------
(* The client.                                                              *)

\* Mutant: what is said during a reconnection is lost.
NotifyIfConnected(m) ==
    /\ up' = IF phase = "connected" THEN Sent(up, transport, <<m>>) ELSE up
    /\ UNCHANGED outbox

\* _sendNotification
Notify(m) ==
    IF phase = "connected"
    THEN up' = Sent(up, transport, <<m>>) /\ UNCHANGED outbox
    ELSE outbox' = Append(outbox, m) /\ UNCHANGED up

DispatchAction(id) == [type |-> "dispatchAction", id |-> id]
Unsubscribe(c) == [type |-> "unsubscribe", channel |-> c]

\* The first race: a subscribe request waits for the end of the reconnection, and
\* what is said of its channel meanwhile goes out before it.
Gated == {m.channel : m \in Elements(gated)}

\* The client acts on a channel it follows.
Dispatch(c) ==
    /\ c \in Following \ {Root}
    /\ Actions < MaxAction
    /\ dispatched' = Append(dispatched, c)
    /\ sub' = [sub EXCEPT ![c].pending = Append(@, Len(dispatched'))]
    /\ Notify(DispatchAction(Len(dispatched')))
    /\ Race("crossed", {c} \cap Gated)
    /\ UNCHANGED <<hostVars, open, down, phase, transport, serverSeq, gated,
                   requests, entries, cleared>>

\* getSubscription without an entry, or with one that failed, which is replaced.
Subscribe(c) ==
    LET left    == IF sub[c].entry = 0 THEN <<>> ELSE <<Unsubscribe(c)>>
        request == [type |-> "subscribe", channel |-> c, id |-> entries + 1]
    IN
    /\ c \notin Following
    /\ entries < MaxEntry
    /\ entries' = entries + 1
    /\ sub' = [sub EXCEPT ![c] = [NoSubscription EXCEPT !.entry = entries']]
    /\ cleared' = cleared \cup Pending(c)
    /\ IF phase = "connected"
       THEN /\ up' = Sent(up, transport, left \o <<request>>)
            /\ requests' = requests \cup {entries'}
            /\ UNCHANGED <<gated, outbox>>
       ELSE /\ outbox' = outbox \o left
            /\ gated' = Append(gated, request)
            /\ UNCHANGED <<up, requests>>
    /\ UNCHANGED <<hostVars, open, down, phase, transport, serverSeq, dispatched, raced>>

\* _releaseSubscription: the last reference is disposed.
Release(c) ==
    /\ c # Root /\ sub[c].entry # 0
    /\ sub' = [sub EXCEPT ![c] = NoSubscription]
    /\ cleared' = cleared \cup Pending(c)
    /\ Notify(Unsubscribe(c))
    /\ Race("crossed", {c} \cap Gated)
    /\ UNCHANGED <<hostVars, open, down, phase, transport, serverSeq, gated,
                   requests, entries, dispatched>>

\* The transport is closed, or a request of the client on it: _handleTransportClose
\* rejects the requests sent, and the next attempt is scheduled.
ClientSeesClose ==
    /\ phase # "waiting"
    /\ ~open[transport] /\ down[transport] = <<>>
    /\ phase' = "waiting"
    /\ sub' = [c \in Channel |-> IF sub[c].entry \in requests THEN SetError(sub[c])
                                                              ELSE sub[c]]
    /\ requests' = {}
    /\ UNCHANGED <<hostVars, wireVars, transport, serverSeq, gated, outbox, entries,
                   dispatched, cleared, raced>>

\* The second race: a snapshot or what came behind it has taken a channel to
\* another state than that of the sequence number the client reconnects with.
AheadOfSeen ==
    {c \in Following : sub[c].known /\ sub[c].confirmed # StateAt(c, serverSeq)}

\* _attemptReconnect
AttemptReconnect ==
    /\ phase = "waiting"
    /\ transport < MaxTransport
    /\ transport' = transport + 1
    /\ phase' = "reconnecting"
    /\ up' = Sent(up, transport',
                  <<[type |-> "reconnect", lastSeen |-> serverSeq,
                     channels |-> {Root} \cup {c \in Channel : sub[c].entry # 0}]>>)
    /\ Race("ahead", AheadOfSeen)
    /\ UNCHANGED <<hostVars, open, down, serverSeq, sub, gated, requests, outbox,
                   entries, dispatched, cleared>>

\* The client handles a message of its transport.
Arrived == Head(down[transport])

ClientTakes(type) ==
    /\ phase # "waiting"
    /\ down[transport] # <<>>
    /\ Arrived.type = type
    /\ down' = [down EXCEPT ![transport] = Tail(@)]

\* Mutant: the client remembers which action it expects next.
ReceiveActionExpectingNext ==
    /\ ClientTakes("action")
    /\ serverSeq' = Max({serverSeq, Arrived.seq + 1})
    /\ sub' = [c \in Channel |-> ReceiveEnvelope(sub[c], Where(<<Arrived.seq>>, On(c)))]
    /\ UNCHANGED <<hostVars, open, up, phase, transport, gated, requests, outbox,
                   entries, dispatched, cleared, raced>>

ReceiveAction ==
    /\ ClientTakes("action")
    /\ serverSeq' = Max({serverSeq, Arrived.seq})
    /\ sub' = [c \in Channel |-> ReceiveEnvelope(sub[c], Where(<<Arrived.seq>>, On(c)))]
    /\ UNCHANGED <<hostVars, open, up, phase, transport, gated, requests, outbox,
                   entries, dispatched, cleared, raced>>

\* Mutant: only what waited for the reconnection is sent.
NoReplays(subs) == <<>>

\* The dispatches of what is still pending, but for those in the outbox, in order.
Replays(subs) ==
    LET queued  == {id \in 1 .. Len(dispatched) : DispatchAction(id) \in Elements(outbox)}
        pending == {id \in 1 .. Len(dispatched) :
                        \E c \in Channel : id \in Elements(subs[c].pending)}
        again   == Where(UpTo(Len(dispatched)), pending \ queued)
    IN  [i \in 1 .. Len(again) |-> DispatchAction(again[i])]

\* _drainAfterReconnect: what is pending is sent again, then what waited.
DrainAfterReconnect(subs) ==
    /\ up' = Sent(up, transport, Replays(subs) \o outbox \o gated)
    /\ requests' = requests \cup {m.id : m \in Elements(gated)}
    /\ outbox' = <<>>
    /\ gated' = <<>>
    /\ phase' = "connected"

\* _applyReconnectResult: the missed actions are taken off the pending ones, then
\* received like any other.
AllReplayed(c, missed) ==
    LET mine == Where(missed, On(c))
    IN  ReceiveEnvelope([sub[c] EXCEPT !.pending = Without(@, Own(mine))], mine)

ReceiveReplay ==
    /\ ClientTakes("replay")
    /\ serverSeq' = Max({serverSeq} \cup Elements(Arrived.actions))
    /\ sub' = [c \in Channel |->
                  IF c \in Arrived.missing /\ sub[c].entry # 0
                  THEN SetError(ClearPending(AllReplayed(c, Arrived.actions)))
                  ELSE AllReplayed(c, Arrived.actions)]
    /\ cleared' = cleared \cup UNION {Pending(c) : c \in Arrived.missing}
    /\ DrainAfterReconnect(sub')
    /\ UNCHANGED <<hostVars, open, transport, entries, dispatched, raced>>

ReceiveSnapshots ==
    LET snapshots == Arrived.snapshots
        reseated  == {c \in DOMAIN snapshots : sub[c].entry # 0}
    IN
    /\ ClientTakes("snapshot")
    /\ serverSeq' = Max({serverSeq} \cup {snapshots[c] : c \in DOMAIN snapshots})
    /\ sub' = [c \in Channel |->
                  IF c \in reseated
                  THEN HandleSnapshot(ClearPending(sub[c]), c, snapshots[c])
                  ELSE sub[c]]
    /\ cleared' = cleared \cup UNION {Pending(c) : c \in reseated}
    /\ DrainAfterReconnect(sub')
    /\ UNCHANGED <<hostVars, open, transport, entries, dispatched, raced>>

\* The answer to a subscribe request counts for the entry that asked.
ReceiveSubscribed ==
    /\ ClientTakes("subscribed")
    /\ requests' = requests \ {Arrived.id}
    /\ sub' = [c \in Channel |->
                  IF sub[c].entry = Arrived.id
                  THEN HandleSnapshot(sub[c], c, Arrived.fromSeq) ELSE sub[c]]
    /\ UNCHANGED <<hostVars, open, up, phase, transport, serverSeq, gated, outbox,
                   entries, dispatched, cleared, raced>>

ReceiveRefusal ==
    /\ ClientTakes("refused")
    /\ requests' = requests \ {Arrived.id}
    /\ sub' = [c \in Channel |->
                  IF sub[c].entry = Arrived.id THEN SetError(sub[c]) ELSE sub[c]]
    /\ UNCHANGED <<hostVars, open, up, phase, transport, serverSeq, gated, outbox,
                   entries, dispatched, cleared, raced>>

-----------------------------------------------------------------------------
(* The host.                                                                *)

Awaiting == restoring # {} \/ subscribing # {}

\* The host does something else while a request is answered only when it has to
\* wait for a channel to be loaded: the rest are promises that are there.
MayInterleave ==
    /\ \A r \in restoring : r.left # {} /\ r.left \subseteq Evicted
    /\ \A r \in subscribing : r.channel \in Evicted

\* Mutant: the connection the client came back from is still taken for its own.
BroadcastToFirst(c, n) ==
    IF connections # <<>> /\ c \in subscriptions[Head(connections)]
    THEN Sent(down, Head(connections), <<[type |-> "action", seq |-> n]>>)
    ELSE down

\* _broadcastAction: only the connection attached last is sent the action.
Broadcast(c, n) ==
    IF connections # <<>> /\ c \in subscriptions[Last(connections)]
    THEN Sent(down, Last(connections), <<[type |-> "action", seq |-> n]>>)
    ELSE down

\* The third race: the reconnect request of a transport that the client has left
\* is read last, and a newer connection is not sent what happens.
Astray(c) ==
    \E t \in Elements(connections) : t > Last(connections) /\ c \in subscriptions[t]

\* _applyAndEmit: an action of the client (its clientSeq) or of anybody else (0).
ApplyAndEmit(c, own) ==
    /\ log' = Append(log, [channel |-> c, own |-> own])
    /\ down' = Broadcast(c, Len(log'))
    /\ Race("astray", {d \in {c} : Astray(d)})

\* The host itself or another client acts on a channel.
Act(c) ==
    /\ MayInterleave
    /\ Actions < MaxAction
    /\ ApplyAndEmit(c, 0)
    /\ UNCHANGED <<connections, subscriptions, restoring, subscribing, dispatchQueue,
                   subscribers, open, up, clientVars>>

\* A message on a transport: a client is taken from a reconnect request only, and
\* nothing else counts before it.
HostTakes(t, type) ==
    /\ MayInterleave
    /\ (type = "reconnect") # (t \in Elements(connections))
    /\ up[t] # <<>>
    /\ Head(up[t]).type = type
    /\ up' = [up EXCEPT ![t] = Tail(@)]

\* Mutant: an action that needs no rewriting does not wait for those that do.
HandleDispatchAtOnce(t) ==
    LET id == Head(up[t]).id IN
    /\ HostTakes(t, "dispatchAction")
    /\ IF id \notin Rewritten
       THEN ApplyAndEmit(dispatched[id], id) /\ UNCHANGED dispatchQueue
       ELSE dispatchQueue' = Append(dispatchQueue, id) /\ UNCHANGED <<log, down, raced>>
    /\ UNCHANGED <<connections, subscriptions, restoring, subscribing, subscribers,
                   open, clientVars>>

\* The client has a queue from its first action with attachments on. It is never
\* removed: the promise it is compared with is not the one that was stored.
HasDispatchQueue ==
    \E id \in Rewritten :
       id \in Elements(dispatchQueue) \/ \E n \in 1 .. Len(log) : log[n].own = id

\* dispatchAction: applied at once, unless it has attachments to rewrite first or
\* there is a queue.
HandleDispatch(t) ==
    LET id == Head(up[t]).id IN
    /\ HostTakes(t, "dispatchAction")
    /\ IF id \notin Rewritten /\ ~HasDispatchQueue
       THEN ApplyAndEmit(dispatched[id], id) /\ UNCHANGED dispatchQueue
       ELSE dispatchQueue' = Append(dispatchQueue, id) /\ UNCHANGED <<log, down, raced>>
    /\ UNCHANGED <<connections, subscriptions, restoring, subscribing, subscribers,
                   open, clientVars>>

RunDispatchQueue ==
    /\ MayInterleave
    /\ dispatchQueue # <<>>
    /\ ApplyAndEmit(dispatched[Head(dispatchQueue)], Head(dispatchQueue))
    /\ dispatchQueue' = Tail(dispatchQueue)
    /\ UNCHANGED <<connections, subscriptions, restoring, subscribing, subscribers,
                   open, up, clientVars>>

\* _handleReconnect: the connection is attached, the client registered for every
\* channel, and whether the buffer reaches back far enough is decided.  The root
\* is subscribed to at once, a session when it was restored.
HandleReconnect(t) ==
    LET request == Head(up[t]) IN
    /\ HostTakes(t, "reconnect")
    /\ connections' = Append(connections, t)
    /\ subscriptions' = [subscriptions EXCEPT ![t] = {Root} \cap request.channels]
    /\ subscribers' = subscribers \cup request.channels
    /\ restoring' = restoring \cup
          {[transport |-> t,
            lastSeen  |-> request.lastSeen,
            canReplay |-> request.lastSeen >= OldestBuffered,
            left      |-> request.channels \ {Root},
            missing   |-> {},
            snapshots |-> [c \in {Root} \cap request.channels |-> Len(log)]]}
    /\ UNCHANGED <<log, subscribing, dispatchQueue, open, down, clientVars, raced>>

\* _restoreReconnectSubscriptions: a session is there, or was restored.
Restore(r, c) ==
    /\ c \in r.left
    /\ restoring' = (restoring \ {r}) \cup
          {[r EXCEPT !.left = @ \ {c},
                     !.snapshots = [d \in DOMAIN @ \cup {c} |->
                                      IF d = c THEN Len(log) ELSE @[d]]]}
    /\ subscriptions' = [subscriptions EXCEPT ![r.transport] = @ \cup {c}]
    /\ UNCHANGED <<log, connections, subscribing, dispatchQueue, subscribers,
                   wireVars, clientVars, raced>>

\* What a connection is subscribed to is in memory: only other channels may fail.
MayFail(c) ==
    c \in Unrestorable /\ \A t \in Elements(connections) : c \notin subscriptions[t]

RestoreFails(r, c) ==
    /\ c \in r.left /\ MayFail(c)
    /\ restoring' = (restoring \ {r}) \cup
                    {[r EXCEPT !.left = @ \ {c}, !.missing = @ \cup {c}]}
    /\ subscribers' = subscribers \ {c}
    /\ UNCHANGED <<log, connections, subscriptions, subscribing, dispatchQueue,
                   wireVars, clientVars, raced>>

\* Mutant: the action the client saw last is replayed too.
MissedSinceLastSeen(r) ==
    Where(UpTo(Len(log)), {n \in ReplayBuffer :
             n >= r.lastSeen /\ log[n].channel \in subscriptions[r.transport]})

\* The buffered actions the client has not seen, of the channels restored.
Missed(r) ==
    Where(UpTo(Len(log)), {n \in ReplayBuffer :
             n > r.lastSeen /\ log[n].channel \in subscriptions[r.transport]})

\* Every channel is settled: the missed actions are looked up now, the snapshots
\* are those taken on the way. The fourth race: among snapshots, nothing tells
\* the client of a channel that could not be restored.
Respond(r) ==
    /\ r.left = {}
    /\ restoring' = restoring \ {r}
    /\ down' = Sent(down, r.transport,
                    <<IF r.canReplay
                      THEN [type    |-> "replay",
                            actions |-> Missed(r),
                            missing |-> r.missing]
                      ELSE [type |-> "snapshot", snapshots |-> r.snapshots]>>)
    /\ Race("forgotten", IF r.canReplay THEN {} ELSE r.missing)
    /\ UNCHANGED <<log, connections, subscriptions, subscribing, dispatchQueue,
                   subscribers, open, up, clientVars>>

\* The subscribe request: the client is registered first, the connection has the
\* subscription when the state is there.
HandleSubscribe(t) ==
    LET request == Head(up[t]) IN
    /\ HostTakes(t, "subscribe")
    /\ subscribers' = subscribers \cup {request.channel}
    /\ subscribing' = subscribing \cup
          {[transport |-> t, channel |-> request.channel, id |-> request.id]}
    /\ UNCHANGED <<log, connections, subscriptions, restoring, dispatchQueue,
                   open, down, clientVars, raced>>

Subscribed(r) ==
    /\ subscribing' = subscribing \ {r}
    /\ subscriptions' = [subscriptions EXCEPT ![r.transport] = @ \cup {r.channel}]
    /\ down' = Sent(down, r.transport,
                    <<[type |-> "subscribed", id |-> r.id, fromSeq |-> Len(log)]>>)
    /\ UNCHANGED <<log, connections, restoring, dispatchQueue, subscribers, open, up,
                   clientVars, raced>>

SubscribeFails(r) ==
    /\ MayFail(r.channel)
    /\ subscribing' = subscribing \ {r}
    /\ subscribers' = subscribers \ {r.channel}
    /\ down' = Sent(down, r.transport, <<[type |-> "refused", id |-> r.id]>>)
    /\ UNCHANGED <<log, connections, subscriptions, restoring, dispatchQueue, open, up,
                   clientVars, raced>>

\* Mutant: the other connections of the client are not looked at.
AllOn(t, cs) == cs

\* Of the channels cs of connection t, those no other connection of the client
\* is subscribed to.
OnlyOn(t, cs) ==
    cs \ UNION {subscriptions[u] : u \in Elements(connections) \ {t}}

\* _removeSubscription
HandleUnsubscribe(t) ==
    LET mine == {Head(up[t]).channel} \cap subscriptions[t] IN
    /\ HostTakes(t, "unsubscribe")
    /\ subscriptions' = [subscriptions EXCEPT ![t] = @ \ mine]
    /\ subscribers' = subscribers \ OnlyOn(t, mine)
    /\ UNCHANGED <<log, connections, restoring, subscribing, dispatchQueue, open, down,
                   clientVars, raced>>

\* The transport's onClose, after all that arrived on it: _releaseClientSubscriptions.
HostSeesClose(t) ==
    /\ MayInterleave
    /\ ~open[t] /\ up[t] = <<>>
    /\ \E i \in 1 .. Len(connections) :
          connections[i] = t /\ connections' = RemoveAt(connections, i)
    /\ subscribers' = subscribers \ OnlyOn(t, subscriptions[t])
    /\ subscriptions' = [subscriptions EXCEPT ![t] = {}]
    /\ UNCHANGED <<log, restoring, subscribing, dispatchQueue, wireVars, clientVars,
                   raced>>

-----------------------------------------------------------------------------
\* A transport closes and loses the tail of what is in flight on it.
Break ==
    /\ transport < MaxTransport
    /\ open[transport]
    /\ open' = [open EXCEPT ![transport] = FALSE]
    /\ \E i \in 0 .. Len(up[transport]), j \in 0 .. Len(down[transport]) :
          /\ up' = [up EXCEPT ![transport] = SubSeq(@, 1, i)]
          /\ down' = [down EXCEPT ![transport] = SubSeq(@, 1, j)]
    /\ UNCHANGED <<hostVars, clientVars, raced>>

\* What each end does by itself.
ClientRuns == \/ ReceiveAction \/ ReceiveReplay \/ ReceiveSnapshots
              \/ ReceiveSubscribed \/ ReceiveRefusal
              \/ ClientSeesClose \/ AttemptReconnect

HostReads(t) == \/ HandleDispatch(t) \/ HandleReconnect(t)
                \/ HandleSubscribe(t) \/ HandleUnsubscribe(t)
                \/ HostSeesClose(t)

HostRestores(r) == (\E c \in Channel : Restore(r, c) \/ RestoreFails(r, c)) \/ Respond(r)

HostAnswers(r) == Subscribed(r) \/ SubscribeFails(r)

Next ==
    \/ \E c \in Channel : Dispatch(c) \/ Subscribe(c) \/ Release(c) \/ Act(c)
    \/ ClientRuns
    \/ \E t \in Transport : HostReads(t)
    \/ \E r \in restoring : HostRestores(r)
    \/ \E r \in subscribing : HostAnswers(r)
    \/ RunDispatchQueue
    \/ Break

Spec == Init /\ [][Next]_vars

\* Messages that arrived are handled, timers fire and what is awaited ends.
\* Nothing is assumed of the users, of other clients or of the network; the
\* transport that is opened last stays open.
Fairness ==
    /\ WF_vars(ClientRuns)
    /\ \A t \in Transport : WF_vars(HostReads(t))
    /\ WF_vars(\E r \in restoring : HostRestores(r))
    /\ WF_vars(\E r \in subscribing : HostAnswers(r))
    /\ WF_vars(RunDispatchQueue)

LiveSpec == Spec /\ Fairness

-----------------------------------------------------------------------------
(* Properties.                                                              *)

ServerSeqs == Seq(1 .. Len(log))

TypeOK ==
    /\ log \in Seq([channel : Channel, own : 0 .. Len(dispatched)])
    /\ connections \in Seq(Transport)
    /\ subscriptions \in [Transport -> SUBSET Channel]
    /\ \A r \in restoring :
          /\ r.transport \in Transport
          /\ r.lastSeen \in 0 .. Len(log)
          /\ r.canReplay \in BOOLEAN
          /\ r.left \cup r.missing \subseteq Channel
          /\ \A c \in DOMAIN r.snapshots : r.snapshots[c] \in 0 .. Len(log)
    /\ subscribing \subseteq [transport : Transport, channel : Channel, id : 1 .. entries]
    /\ dispatchQueue \in Seq(1 .. Len(dispatched))
    /\ subscribers \subseteq Channel
    /\ open \in [Transport -> BOOLEAN]
    /\ phase \in {"connected", "waiting", "reconnecting"}
    /\ transport \in Transport
    /\ serverSeq \in 0 .. Len(log)
    /\ sub \in [Channel -> [entry : 0 .. entries, known : BOOLEAN, failed : BOOLEAN,
                            confirmed : ServerSeqs, buffered : ServerSeqs,
                            pending : Seq(1 .. Len(dispatched))]]
    /\ requests \subseteq 1 .. entries
    /\ entries \in Nat
    /\ dispatched \in Seq(Channel)
    /\ cleared \subseteq 1 .. Len(dispatched)
    /\ raced \in [Races -> SUBSET Channel]

\* The own actions in the state the client has of a channel.
Confirmed(c) == {log[n].own : n \in Elements(sub[c].confirmed)} \ {0}

\* An action of the user never disappears from the channel and never shows
\* twice on the way: it is pending or confirmed, not both and not neither,
\* unless a snapshot or an unsubscription made the client forget it, or the
\* channel was acted on before its subscribe request was sent.
ShownOnce ==
    \A id \in 1 .. Len(dispatched) :
       LET c == dispatched[id] IN
          (c \in Following \ Hit({"crossed"}) /\ sub[c].known /\ id \notin cleared)
             => (id \in Pending(c)) # (id \in Confirmed(c))

\* The host applies the actions of the client in the order they were dispatched,
\* across the queue, the replays and the messages of transports left behind:
\* whoever is applied for the first time comes after all that the client
\* dispatched before it and still stands for.
AppliedInOrder ==
    \A i, j \in 1 .. Len(dispatched) :
       (i < j /\ dispatched[i] = dispatched[j] /\ {i, j} \cap cleared = {})
          => \A n \in 1 .. Len(log) :
                log[n].own = j => \E m \in 1 .. n : log[m].own = i

\* While nothing is being restored, the agent service has the client registered
\* exactly for what its connections are subscribed to: no session is evicted
\* under a subscriber, and none is pinned by a connection that is gone.
RegisteredIffSubscribed ==
    ~Awaiting => subscribers = UNION {subscriptions[t] : t \in Elements(connections)}

\* Once all messages are handled, the connection is subscribed to what the client
\* follows, and to nothing the client has left, but for channels that were left
\* before their subscribe request was sent or that the host does not report missing.
SubscriptionsAgree ==
    (/\ phase = "connected" /\ open[transport]
     /\ up[transport] = <<>> /\ down[transport] = <<>>
     /\ ~Awaiting)
       => /\ transport \in Elements(connections)
          /\ Following \ Hit({"forgotten"}) \subseteq subscriptions[transport]
          /\ \A c \in subscriptions[transport] \ Hit({"crossed"}) : sub[c].entry # 0

\* The protocol promises SharedState: what the client has of a channel it
\* follows is a state the host went through, and it only moves forward, as long
\* as the client does not reconnect with a sequence number its state is not that
\* of, and the host sends what happens to the transport the client listens to.
Shared == INSTANCE SharedState WITH
    state     <- [c \in Channel |-> StateAt(c, Len(log))],
    following <- Following,
    view      <- [c \in Channel |-> IF Follows(c) THEN sub[c].confirmed ELSE <<>>],
    broken    <- Hit({"ahead", "astray"})

ImplementsSharedState == Shared!Spec

\* Whatever was lost on the way, the client gets to the last state of every
\* channel it follows, and what its user did is decided: a reconnection leaves
\* no action out, and none stays pending, but for channels that a race hit.
CatchesUp ==
    \A c \in Channel :
       /\ []<>(c \in Hit({"ahead", "astray", "forgotten"}) \/ ~Shared!IsBehind(c))
       /\ <>[](c \in Following \ Hit({"crossed", "astray", "forgotten"})
                  => sub[c].pending = <<>>)

\* "The client should process subsequent envelopes with serverSeq > fromSeq"
\* (agentHostStateManager.ts): no action that a snapshot already contains is
\* applied on top of it, and none twice.
EachActionOnce ==
    \A c \in Channel :
       \A i, j \in 1 .. Len(sub[c].confirmed) :
          i < j => sub[c].confirmed[i] < sub[c].confirmed[j]
=============================================================================
