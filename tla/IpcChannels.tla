------------------------------ MODULE IpcChannels ------------------------------
(***************************************************************************)
(* Calls and events over an IPC connection (base/parts/ipc/common/ipc.ts): *)
(* a ChannelClient at one end, a ChannelServer at the other, and between   *)
(* them two wires that keep the order of what is sent.                     *)
(*                                                                         *)
(* The client sends nothing before the server's Initialize has arrived:    *)
(* until then a request waits on a promise. A request may reach the server *)
(* before its channel is registered: it is collected, with a timer that    *)
(* answers a call with an error, and is handed over by a flush which       *)
(* registerChannel leaves to a later task. A service may throw when it is  *)
(* listened to, and what it answers may resist serialisation. What a       *)
(* message carries, and the events fired by a subscription, are left out.  *)
(***************************************************************************)
EXTENDS Integers, Sequences, FiniteSets, SequencesExt

CONSTANTS
    Channel,     \* the names of channels
    MaxRequest,  \* bound on the requests (calls and events) of the client
    MaxListen,   \* bound on how often the client adds a first listener
    MaxThrow     \* bound on how often listening to an event throws at its service

ASSUME BoundsAssumption == MaxRequest \in Nat /\ MaxListen \in Nat /\ MaxThrow \in Nat

VARIABLES
    \* the client
    state,            \* "Uninitialized" or "Idle"
    isDisposed,       \* the client is disposed of
    request,          \* of every id handed out: "call" or "event", and the channel
    outcome,          \* what the promise of a call has become
    waiting,          \* requests that wait for the Initialize, in order
    handlers,         \* ids for which a response has a handler
    clientRequests,   \* activeRequests of the client: what dispose() takes back
    listening,        \* events of the client that have a listener
    ended,            \* events whose emitter is disposed of: nobody can listen
    listens,          \* how often a first listener was added
    \* the server
    channels,         \* the registered channels
    flushes,          \* channels whose flush is in the timers' queue
    pendingRequests,  \* of a channel: the requests collected for it, in order
    timers,           \* calls collected whose timer runs
    activeRequests,   \* ids of the server's running calls and subscriptions
    running,          \* calls of which a service has not finished
    cancelled,        \* calls of which a cancellation token is cancelled
    subscriptions,    \* of an event: how many listeners it has at the service
    throws,           \* of an event: how often its service threw when listened to
    result,           \* of a call: how often it was handed over, and it ended, and how
    collected,        \* every id that was ever collected
    isConnected,      \* the server listens to the connection
    \* the wires
    toServer, toClient

client == <<state, isDisposed, request, outcome, waiting, handlers, clientRequests,
            listening, ended, listens>>
server == <<channels, flushes, pendingRequests, timers, activeRequests, running,
            cancelled, subscriptions, throws, result, collected, isConnected>>
vars == <<client, server, toServer, toClient>>

Ids == 1 .. MaxRequest

Calls == {id \in DOMAIN request : request[id].kind = "call"}
Events == {id \in DOMAIN request : request[id].kind = "event"}

Requests == [kind : {"call", "event"}, channel : Channel]
ToServer == [type : {"Promise", "PromiseCancel", "EventListen", "EventDispose"}, id : Ids]
ToClient == [type : {"Initialize"}] \cup
            [type : {"PromiseSuccess", "PromiseError", "Unknown channel"}, id : Ids]
Outcomes == {"none", "pending", "PromiseSuccess", "PromiseError", "Unknown channel",
             "not sent", "CancellationError"}
Results == [calls : Nat, ended : Nat,
            ends : SUBSET {"PromiseSuccess", "PromiseError", "unsent"}]

Init ==
    /\ state = "Uninitialized" /\ isDisposed = FALSE
    /\ request = <<>> /\ outcome = [id \in Ids |-> "none"]
    /\ waiting = <<>> /\ handlers = {} /\ clientRequests = {}
    /\ listening = {} /\ ended = {} /\ listens = 0
    /\ channels = {} /\ flushes = {} /\ pendingRequests = [c \in Channel |-> <<>>]
    /\ timers = {} /\ activeRequests = {} /\ running = {} /\ cancelled = {}
    /\ subscriptions = [id \in Ids |-> 0] /\ throws = [id \in Ids |-> 0]
    /\ result = [id \in Ids |-> [calls |-> 0, ended |-> 0, ends |-> {}]]
    /\ collected = {} /\ isConnected = TRUE
    /\ toServer = <<>> /\ toClient = <<[type |-> "Initialize"]>>

-----------------------------------------------------------------------------
(* The client *)

Message(type, id) == [type |-> type, id |-> id]

SendRequest(type, id) == toServer' = Append(toServer, Message(type, id))

(* doRequest of a call: the handler is in place when the request goes out,  *)
(* and is taken back when the request cannot be written.                    *)
DoCall(id) ==
    \/ /\ SendRequest("Promise", id)
       /\ handlers' = handlers \cup {id}
       /\ outcome' = [outcome EXCEPT ![id] = "pending"]
       /\ clientRequests' = clientRequests \cup {id}
    \/ /\ outcome' = [outcome EXCEPT ![id] = "not sent"]
       /\ clientRequests' = clientRequests \ {id}
       /\ UNCHANGED <<handlers, toServer>>

(* doRequest of an event *)
DoListen(id) ==
    /\ SendRequest("EventListen", id)
    /\ clientRequests' = clientRequests \cup {id}

(* requestPromise: at once, or when the server has said hello *)
RequestPromise(c) ==
    LET id == Len(request) + 1
    IN  /\ ~isDisposed
        /\ id <= MaxRequest
        /\ request' = Append(request, [kind |-> "call", channel |-> c])
        /\ IF state = "Idle"
           THEN DoCall(id) /\ UNCHANGED waiting
           ELSE /\ waiting' = Append(waiting, id)
                /\ outcome' = [outcome EXCEPT ![id] = "pending"]
                /\ clientRequests' = clientRequests \cup {id}
                /\ UNCHANGED <<handlers, toServer>>
        /\ UNCHANGED <<state, isDisposed, listening, ended, listens, server, toClient>>

(* cancel: a request that still waits for the Initialize will not go out,   *)
(* one that is out is followed by a PromiseCancel; the caller has its error *)
(* in either case.                                                          *)
Cancel(id) ==
    /\ outcome[id] = "pending"
    /\ IF id \in ToSet(waiting)
       THEN UNCHANGED toServer
       ELSE SendRequest("PromiseCancel", id)
    /\ outcome' = [outcome EXCEPT ![id] = "CancellationError"]
    /\ clientRequests' = clientRequests \ {id}
    /\ UNCHANGED <<state, isDisposed, request, waiting, handlers, listening, ended,
                   listens, server, toClient>>

(* requestEvent: an event nobody listens to yet *)
RequestEvent(c) ==
    LET id == Len(request) + 1
    IN  /\ ~isDisposed
        /\ id <= MaxRequest
        /\ request' = Append(request, [kind |-> "event", channel |-> c])
        /\ handlers' = handlers \cup {id}
        /\ UNCHANGED <<state, isDisposed, outcome, waiting, clientRequests, listening,
                       ended, listens, server, toServer, toClient>>

(* onWillAddFirstListener; listening again is possible at any time, with a  *)
(* disposed client too, but for the events that it disposed of              *)
AddFirstListener(id) ==
    /\ id \notin listening /\ id \notin ended
    /\ listens < MaxListen
    /\ listens' = listens + 1
    /\ listening' = listening \cup {id}
    /\ IF state = "Idle"
       THEN DoListen(id) /\ UNCHANGED waiting
       ELSE waiting' = Append(waiting, id) /\ UNCHANGED <<clientRequests, toServer>>
    /\ UNCHANGED <<state, isDisposed, request, outcome, handlers, ended, server, toClient>>

(* Mutant: asks whether the server has said hello, and not whether this     *)
(* event still waits to be listened to.                                     *)
RemoveLastListenerWhenIdle(id) ==
    /\ id \in listening
    /\ listening' = listening \ {id}
    /\ IF state # "Idle"
       THEN /\ \E i \in DOMAIN waiting :
                  waiting[i] = id /\ waiting' = RemoveAt(waiting, i)
            /\ UNCHANGED <<clientRequests, toServer>>
       ELSE /\ SendRequest("EventDispose", id)
            /\ clientRequests' = clientRequests \ {id}
            /\ UNCHANGED waiting
    /\ handlers' = handlers \ {id}
    /\ UNCHANGED <<state, isDisposed, request, outcome, ended, listens, server, toClient>>

(* onDidRemoveLastListener: the promise that an event waits for is          *)
(* cancelled and forgotten, as listening again makes a new one.             *)
RemoveLastListener(id) ==
    /\ id \in listening
    /\ listening' = listening \ {id}
    /\ IF id \in ToSet(waiting)
       THEN /\ \E i \in DOMAIN waiting :
                  waiting[i] = id /\ waiting' = RemoveAt(waiting, i)
            /\ UNCHANGED <<clientRequests, toServer>>
       ELSE /\ SendRequest("EventDispose", id)
            /\ clientRequests' = clientRequests \ {id}
            /\ UNCHANGED waiting
    /\ handlers' = handlers \ {id}
    /\ UNCHANGED <<state, isDisposed, request, outcome, ended, listens, server, toClient>>

(* The reaction of the first promise that waits for the Initialize; that of *)
(* a call which was cancelled does not run. Other code may run, and make    *)
(* requests, between two of them.                                           *)
WhenInitialized ==
    /\ state = "Idle"
    /\ waiting # <<>>
    /\ waiting' = Tail(waiting)
    /\ LET id == Head(waiting)
       IN  \/ id \in Calls /\ outcome[id] = "pending" /\ DoCall(id)
           \/ /\ id \in Calls /\ outcome[id] # "pending"
              /\ UNCHANGED <<handlers, outcome, clientRequests, toServer>>
           \/ id \notin Calls /\ DoListen(id) /\ UNCHANGED <<handlers, outcome>>
    /\ UNCHANGED <<state, isDisposed, request, listening, ended, listens, server, toClient>>

(* Mutant: the handler of a call that was cancelled stays.                  *)
OnResponseOfPending ==
    /\ toClient # <<>>
    /\ ~isDisposed
    /\ toClient' = Tail(toClient)
    /\ LET response == Head(toClient)
       IN  IF response.type = "Initialize"
           THEN state' = "Idle" /\ UNCHANGED <<outcome, handlers, clientRequests>>
           ELSE /\ IF response.id \in handlers /\ outcome[response.id] = "pending"
                   THEN /\ outcome' = [outcome EXCEPT ![response.id] = response.type]
                        /\ clientRequests' = clientRequests \ {response.id}
                        /\ handlers' = handlers \ {response.id}
                   ELSE UNCHANGED <<outcome, handlers, clientRequests>>
                /\ UNCHANGED state
    /\ UNCHANGED <<isDisposed, request, waiting, listening, ended, listens, server,
                   toServer>>

(* onResponse: the first response of a call settles its promise, unless it  *)
(* was cancelled, and takes its handler away.                               *)
OnResponse ==
    /\ toClient # <<>>
    /\ ~isDisposed
    /\ toClient' = Tail(toClient)
    /\ LET response == Head(toClient)
       IN  IF response.type = "Initialize"
           THEN state' = "Idle" /\ UNCHANGED <<outcome, handlers, clientRequests>>
           ELSE /\ handlers' = handlers \ {response.id}
                /\ IF response.id \in handlers /\ outcome[response.id] = "pending"
                   THEN /\ outcome' = [outcome EXCEPT ![response.id] = response.type]
                        /\ clientRequests' = clientRequests \ {response.id}
                   ELSE UNCHANGED <<outcome, clientRequests>>
                /\ UNCHANGED state
    /\ UNCHANGED <<isDisposed, request, waiting, listening, ended, listens, server,
                   toServer>>

(* Mutant: rejects the callers and tells the server nothing.                *)
DisposeClientSilently ==
    /\ ~isDisposed
    /\ isDisposed' = TRUE
    /\ outcome' = [id \in Ids |-> IF id \in clientRequests \cap Calls
                                  THEN "CancellationError" ELSE outcome[id]]
    /\ clientRequests' = {}
    /\ UNCHANGED <<state, request, waiting, handlers, listening, ended, listens, server,
                   toServer, toClient>>

TakeBack(id) == Message(IF id \in Calls THEN "PromiseCancel" ELSE "EventDispose", id)

(* dispose: cancels what is active, in some order, and stops to listen; the *)
(* emitters of active events are disposed of. An event that still waits for *)
(* the Initialize is not active yet.                                        *)
DisposeClient ==
    LET sent == clientRequests \ ToSet(waiting)
    IN  /\ ~isDisposed
        /\ isDisposed' = TRUE
        /\ \E order \in [1 .. Cardinality(sent) -> sent] :
              /\ ToSet(order) = sent
              /\ toServer' = toServer \o [i \in 1 .. Cardinality(sent) |-> TakeBack(order[i])]
        /\ outcome' = [id \in Ids |-> IF id \in clientRequests \cap Calls
                                      THEN "CancellationError" ELSE outcome[id]]
        /\ handlers' = handlers \ (clientRequests \cap Events)
        /\ listening' = listening \ clientRequests
        /\ ended' = clientRequests \cap Events
        /\ clientRequests' = {}
        /\ UNCHANGED <<state, request, waiting, listens, server, toClient>>

-----------------------------------------------------------------------------
(* The server *)

Occurrences(id, ids) == Cardinality({i \in DOMAIN ids : ids[i] = id})

(* onPromise and onEventListen, for requests whose channel is registered:   *)
(* the service is called, or listened to, and the request is active. What a *)
(* service throws when it is called is its answer.                          *)
HandOver(ids) ==
    /\ running' = running \cup (ToSet(ids) \cap Calls)
    /\ result' = [id \in Ids |-> IF id \in Calls
                    THEN [result[id] EXCEPT !.calls = @ + Occurrences(id, ids)]
                    ELSE result[id]]
    /\ subscriptions' = [id \in Ids |-> IF id \in Events
                           THEN subscriptions[id] + Occurrences(id, ids)
                           ELSE subscriptions[id]]
    /\ activeRequests' = activeRequests \cup ToSet(ids)

(* Mutant: no timer.                                                        *)
CollectForEver(id) ==
    /\ pendingRequests' = [pendingRequests EXCEPT ![request[id].channel] = Append(@, id)]
    /\ collected' = collected \cup {id}
    /\ UNCHANGED timers

(* collectPendingRequest: the timer of an event does nothing but log.       *)
CollectPendingRequest(id) ==
    /\ pendingRequests' = [pendingRequests EXCEPT ![request[id].channel] = Append(@, id)]
    /\ timers' = timers \cup ({id} \cap Calls)
    /\ collected' = collected \cup {id}

(* Mutant: what was disposed of stays active, and is disposed of again.     *)
DisposeKeeping(id) ==
    /\ cancelled' = cancelled \cup ({id} \cap activeRequests \cap Calls)
    /\ subscriptions' = IF id \in activeRequests \cap Events
                        THEN [subscriptions EXCEPT ![id] = @ - 1] ELSE subscriptions
    /\ UNCHANGED activeRequests

(* disposeActiveRequest: cancels the token of a call, or takes the listener *)
(* of an event away. A request which is only collected is not found.        *)
DisposeActiveRequest(id) ==
    /\ cancelled' = cancelled \cup ({id} \cap activeRequests \cap Calls)
    /\ subscriptions' = IF id \in activeRequests \cap Events
                        THEN [subscriptions EXCEPT ![id] = @ - 1] ELSE subscriptions
    /\ activeRequests' = activeRequests \ {id}

(* channel.listen throws: nobody is subscribed, and nobody is told.         *)
Throws(id) ==
    /\ id \in Events
    /\ throws[id] < MaxThrow
    /\ throws' = [throws EXCEPT ![id] = @ + 1]

(* onRawMessage *)
OnRequest ==
    /\ toServer # <<>>
    /\ isConnected
    /\ toServer' = Tail(toServer)
    /\ LET message == Head(toServer)
           id == message.id
       IN  \/ /\ message.type \in {"Promise", "EventListen"}
              /\ request[id].channel \in channels
              /\ HandOver(<<id>>)
              /\ UNCHANGED <<pendingRequests, timers, cancelled, throws, collected>>
           \/ /\ message.type = "EventListen"
              /\ request[id].channel \in channels
              /\ Throws(id)
              /\ UNCHANGED <<pendingRequests, timers, activeRequests, running, cancelled,
                             subscriptions, result, collected>>
           \/ /\ message.type \in {"Promise", "EventListen"}
              /\ request[id].channel \notin channels
              /\ CollectPendingRequest(id)
              /\ UNCHANGED <<activeRequests, running, cancelled, subscriptions, throws,
                             result>>
           \/ /\ message.type \in {"PromiseCancel", "EventDispose"}
              /\ DisposeActiveRequest(id)
              /\ UNCHANGED <<pendingRequests, timers, running, throws, result, collected>>
    /\ UNCHANGED <<client, channels, flushes, isConnected, toClient>>

SendResponse(type, id) == toClient' = Append(toClient, Message(type, id))

EndsAs(id, end) == result' = [result EXCEPT ![id].ended = @ + 1, ![id].ends = @ \cup {end}]

(* The promise of the service settles: the answer goes out, unless it       *)
(* cannot be serialised, and the request is not active any more.            *)
ServiceEnds(id) ==
    /\ id \in running
    /\ running' = IF result[id].ended + 1 = result[id].calls THEN running \ {id} ELSE running
    /\ \/ \E end \in {"PromiseSuccess", "PromiseError"} :
             EndsAs(id, end) /\ SendResponse(end, id)
       \/ EndsAs(id, "unsent") /\ UNCHANGED toClient
    /\ activeRequests' = activeRequests \ {id}
    /\ UNCHANGED <<client, channels, flushes, pendingRequests, timers, cancelled,
                   subscriptions, throws, collected, isConnected, toServer>>

(* The timer of a collected call: the call is answered and stays collected. *)
TimesOut(id) ==
    /\ id \in timers
    /\ SendResponse("Unknown channel", id)
    /\ timers' = timers \ {id}
    /\ UNCHANGED <<client, channels, flushes, pendingRequests, activeRequests, running,
                   cancelled, subscriptions, throws, result, collected, isConnected,
                   toServer>>

(* A channel may be registered again: there is one more flush.              *)
RegisterChannel(c) ==
    /\ isConnected
    /\ channels' = channels \cup {c}
    /\ flushes' = flushes \cup {c}
    /\ UNCHANGED <<client, pendingRequests, timers, activeRequests, running, cancelled,
                   subscriptions, throws, result, collected, isConnected, toServer,
                   toClient>>

(* Mutant: what was flushed stays collected.                                *)
FlushKeeping(c) ==
    /\ c \in flushes
    /\ flushes' = flushes \ {c}
    /\ HandOver(pendingRequests[c])
    /\ timers' = timers \ ToSet(pendingRequests[c])
    /\ UNCHANGED <<client, channels, pendingRequests, cancelled, throws, collected,
                   isConnected, toServer, toClient>>

(* flushPendingRequests, which dispose() does not take back. A service that *)
(* throws ends the loop: what came before is handed over, and everything    *)
(* stays collected, for a flush to come.                                    *)
FlushPendingRequests(c) ==
    LET requests == pendingRequests[c]
    IN  /\ c \in flushes
        /\ flushes' = flushes \ {c}
        /\ \/ /\ HandOver(requests)
              /\ timers' = timers \ ToSet(requests)
              /\ pendingRequests' = [pendingRequests EXCEPT ![c] = <<>>]
              /\ UNCHANGED throws
           \/ \E i \in DOMAIN requests :
                 /\ Throws(requests[i])
                 /\ HandOver(SubSeq(requests, 1, i - 1))
                 /\ timers' = timers \ ToSet(SubSeq(requests, 1, i))
                 /\ UNCHANGED pendingRequests
        /\ UNCHANGED <<client, channels, cancelled, collected, isConnected, toServer,
                       toClient>>

(* dispose, when the client has gone                                        *)
DisposeServer ==
    /\ isDisposed
    /\ isConnected
    /\ isConnected' = FALSE
    /\ cancelled' = cancelled \cup (activeRequests \cap Calls)
    /\ subscriptions' = [id \in Ids |-> IF id \in activeRequests \cap Events
                                        THEN subscriptions[id] - 1 ELSE subscriptions[id]]
    /\ activeRequests' = {}
    /\ UNCHANGED <<client, channels, flushes, pendingRequests, timers, running, throws,
                   result, collected, toServer, toClient>>

-----------------------------------------------------------------------------

Next ==
    \/ \E c \in Channel : RequestPromise(c) \/ RequestEvent(c)
    \/ \E id \in Calls : Cancel(id)
    \/ \E id \in Events : AddFirstListener(id) \/ RemoveLastListener(id)
    \/ WhenInitialized
    \/ OnResponse
    \/ DisposeClient
    \/ OnRequest
    \/ \E id \in Ids : ServiceEnds(id) \/ TimesOut(id)
    \/ \E c \in Channel : RegisterChannel(c) \/ FlushPendingRequests(c)
    \/ DisposeServer

Spec == Init /\ [][Next]_vars

(* Both ends read, timers and promises run, and a service that was called   *)
(* ends. Nobody has to register a channel, to cancel or to dispose.         *)
LiveSpec ==
    /\ Spec
    /\ WF_vars(WhenInitialized) /\ WF_vars(OnResponse) /\ WF_vars(OnRequest)
    /\ \A id \in Ids : WF_vars(ServiceEnds(id)) /\ WF_vars(TimesOut(id))

-----------------------------------------------------------------------------
(* Properties *)

TypeOK ==
    /\ state \in {"Uninitialized", "Idle"} /\ isDisposed \in BOOLEAN
    /\ request \in Seq(Requests) /\ Len(request) <= MaxRequest
    /\ outcome \in [Ids -> Outcomes]
    /\ waiting \in Seq(Ids) /\ handlers \subseteq Ids /\ clientRequests \subseteq Ids
    /\ listening \subseteq Ids /\ ended \subseteq Ids /\ listens \in 0 .. MaxListen
    /\ channels \subseteq Channel /\ flushes \subseteq channels
    /\ pendingRequests \in [Channel -> Seq(Ids)] /\ timers \subseteq Ids
    /\ activeRequests \subseteq Ids /\ running \subseteq Ids /\ cancelled \subseteq Ids
    /\ subscriptions \in [Ids -> Nat] /\ throws \in [Ids -> 0 .. MaxThrow]
    /\ result \in [Ids -> Results]
    /\ collected \subseteq Ids /\ isConnected \in BOOLEAN
    /\ toServer \in Seq(ToServer) /\ toClient \in Seq(ToClient)

OnItsWay(type, id) == Message(type, id) \in ToSet(toServer)
Answered(id) == \E i \in DOMAIN toClient :
                  toClient[i].type # "Initialize" /\ toClient[i].id = id

(* No handler of a call is left behind: whenever one waits, also that of a  *)
(* call which was cancelled, the request is on its way, a timer or a        *)
(* service will answer it, or the answer is on its way. The one exception   *)
(* is an answer that could not be serialised (ipc.ts:435-449).              *)
HandlersAreAnswered ==
    ~isDisposed => \A id \in handlers \cap Calls :
        \/ OnItsWay("Promise", id) \/ id \in timers \/ id \in running \/ Answered(id)
        \/ "unsent" \in result[id].ends

(* A call that was collected on a channel where listening threw may be      *)
(* handed over again by every flush to come.                                *)
Stranded(id) ==
    /\ id \in collected
    /\ \E e \in collected \cap Events :
          throws[e] > 0 /\ request[e].channel = request[id].channel

(* A promise tells the truth: a call is handed to its service at most once, *)
(* unless it is stranded, and a caller who has an answer of the service has *)
(* one that it gave; a caller whose request could not be written is right   *)
(* that nobody saw it.                                                      *)
AnswersAreTrue ==
    \A id \in Calls :
        /\ ~Stranded(id) =>
              result[id].calls <= 1 /\ \A end, other \in result[id].ends : end = other
        /\ outcome[id] \in {"PromiseSuccess", "PromiseError"} =>
              result[id].calls >= 1 /\ outcome[id] \in result[id].ends
        /\ outcome[id] \in {"not sent", "none"} => result[id].calls = 0

(* Who works for nobody is told: when the caller has given up a call that   *)
(* is on its way or runs, its token is cancelled or the PromiseCancel will  *)
(* do it; what was given up before it was sent is not sent. A call that was *)
(* collected is the exception: its PromiseCancel may have come when there   *)
(* was nothing to cancel.                                                   *)
CancelIsDelivered ==
    \A id \in Calls :
        /\ outcome[id] = "CancellationError"
        /\ OnItsWay("Promise", id) \/ id \in running \ collected
        => id \in cancelled \/ OnItsWay("PromiseCancel", id)

(* What the server would have of an event once it has read all there is.    *)
Projected(id) ==
    subscriptions[id]
      + Cardinality({i \in DOMAIN toServer : toServer[i] = Message("EventListen", id)})
      - Cardinality({i \in DOMAIN toServer : toServer[i] = Message("EventDispose", id)})

(* Events whose channel was registered in time, at a service that did not   *)
(* throw when it was listened to.                                           *)
Subscribable == {id \in Events \ collected : throws[id] = 0}

(* The server's subscriptions follow the client's listeners: a subscribable *)
(* event has one subscription while the client listens to it and none       *)
(* otherwise, whatever the two have still to say, and none when the         *)
(* connection is gone.                                                      *)
SubscriptionsFollow ==
    \A id \in Subscribable :
        IF isConnected
        THEN Projected(id) = IF id \in listening /\ id \notin ToSet(waiting) THEN 1 ELSE 0
        ELSE subscriptions[id] = 0

(* Every call is settled in the end, on a channel nobody registers too,     *)
(* unless its service's answer could not be serialised.                     *)
CallsSettle ==
    \A id \in Ids :
        outcome[id] = "pending" ~> outcome[id] # "pending" \/ "unsent" \in result[id].ends

=============================================================================
