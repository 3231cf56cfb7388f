--------------------------- MODULE IpcChannelsProofs ---------------------------
(***************************************************************************)
(* Proofs about IpcChannels for all channels and any number of requests:   *)
(* the types, that no handler is left without an answer to come, and that  *)
(* a call is handed over once and answered truthfully. The argument is     *)
(* where a request is: waiting for the Initialize, on the wire, collected, *)
(* or handed over, and at one of these places at a time.                   *)
(*                                                                         *)
(* Then that the server hears of every running call which was given up,    *)
(* and that its subscriptions follow the client's listeners: on the wire a *)
(* cancellation comes behind its call, and what is said of an event is to  *)
(* listen and to dispose in turn.                                          *)
(***************************************************************************)
EXTENDS IpcChannels, SequenceTheorems, FiniteSetTheorems, TLAPS

(* Requests and messages name requests which were made, of their kind.      *)
Known ==
    /\ \A i \in DOMAIN waiting : waiting[i] \in DOMAIN request
    /\ handlers \subseteq DOMAIN request /\ clientRequests \subseteq DOMAIN request
    /\ \A i \in DOMAIN toServer :
          /\ toServer[i].id \in DOMAIN request
          /\ toServer[i].type = "Promise" => toServer[i].id \in Calls
          /\ toServer[i].type = "EventListen" => toServer[i].id \in Events
    /\ \A c \in Channel : \A i \in DOMAIN pendingRequests[c] :
          /\ pendingRequests[c][i] \in DOMAIN request
          /\ request[pendingRequests[c][i]].channel = c
    /\ \A id \in Ids \ DOMAIN request :
          /\ outcome[id] = "none"
          /\ result[id].calls = 0
          /\ id \notin running /\ id \notin activeRequests
    /\ \A id \in Calls : outcome[id] # "none"

Waits(id) == \E i \in DOMAIN waiting : waiting[i] = id
Asked(id) == \E i \in DOMAIN toServer : toServer[i].type = "Promise" /\ toServer[i].id = id
Pending(id) == \E c \in Channel : \E i \in DOMAIN pendingRequests[c] :
                  pendingRequests[c][i] = id

(* No call is twice where requests stand in line.                           *)
NoTwins ==
    /\ \A i, j \in DOMAIN waiting :
          waiting[i] = waiting[j] /\ waiting[i] \in Calls => i = j
    /\ \A i, j \in DOMAIN toServer :
          /\ toServer[i].type = "Promise" /\ toServer[j].type = "Promise"
          /\ toServer[i].id = toServer[j].id
          => i = j
    /\ \A c \in Channel : \A i, j \in DOMAIN pendingRequests[c] :
          /\ pendingRequests[c][i] = pendingRequests[c][j]
          /\ pendingRequests[c][i] \in Calls
          => i = j

(* A call is at one place at a time.                                        *)
OnePlace ==
    \A id \in Calls :
        /\ Waits(id) \/ outcome[id] = "not sent" =>
              ~Asked(id) /\ ~Pending(id) /\ result[id].calls = 0
        /\ Waits(id) => outcome[id] \in {"pending", "CancellationError"} /\ id \notin handlers
        /\ Asked(id) => ~Pending(id) /\ result[id].calls = 0

(* What runs was handed over and has not ended, and answers tell how one    *)
(* run of it ended.                                                         *)
Truthful ==
    /\ \A id \in Ids :
          /\ result[id].ended <= result[id].calls
          /\ id \in running => result[id].ended < result[id].calls
          /\ result[id].ended = 0 => result[id].ends = {}
          /\ outcome[id] \in {"PromiseSuccess", "PromiseError"} =>
                outcome[id] \in result[id].ends
    /\ \A i \in DOMAIN toClient :
          toClient[i].type \in {"PromiseSuccess", "PromiseError"} =>
              toClient[i].type \in result[toClient[i].id].ends

(* An active event has a subscription to dispose of.                        *)
ActiveIsSubscribed == \A id \in activeRequests \cap Events : subscriptions[id] >= 1

IInv ==
    /\ TypeOK
    /\ Known
    /\ NoTwins
    /\ OnePlace
    /\ Truthful
    /\ ActiveIsSubscribed
    /\ HandlersAreAnswered

-----------------------------------------------------------------------------
(* Sequences *)

LEMMA Appending ==
    ASSUME NEW S, NEW s \in Seq(S), NEW e \in S
    PROVE  /\ Append(s, e) \in Seq(S)
           /\ DOMAIN s \subseteq DOMAIN Append(s, e)
           /\ Len(s) + 1 \in DOMAIN Append(s, e) /\ Append(s, e)[Len(s) + 1] = e
           /\ \A i \in DOMAIN Append(s, e) :
                 \/ i \in DOMAIN s /\ Append(s, e)[i] = s[i]
                 \/ i = Len(s) + 1 /\ i \notin DOMAIN s /\ Append(s, e)[i] = e
  OBVIOUS

LEMMA Taking ==
    ASSUME NEW S, NEW s \in Seq(S), s # <<>>
    PROVE  /\ Tail(s) \in Seq(S)
           /\ 1 \in DOMAIN s /\ Head(s) = s[1] /\ Head(s) \in S
           /\ \A i \in DOMAIN Tail(s) :
                 i \in Nat /\ i + 1 \in DOMAIN s /\ i + 1 # 1 /\ Tail(s)[i] = s[i + 1]
           /\ \A i \in DOMAIN s :
                 \/ i = 1
                 \/ i - 1 \in DOMAIN Tail(s) /\ Tail(s)[i - 1] = s[i]
           /\ \A i, j \in DOMAIN Tail(s) : i + 1 = j + 1 => i = j
  <1>1. /\ Head(s) \in S /\ Tail(s) \in Seq(S) /\ Len(Tail(s)) = Len(s) - 1
        /\ \A i \in 1 .. Len(Tail(s)) : Tail(s)[i] = s[i + 1]
    BY HeadTailProperties
  <1>2. /\ Len(s) \in Nat /\ Len(s) >= 1 /\ DOMAIN s = 1 .. Len(s) /\ Head(s) = s[1]
        /\ DOMAIN Tail(s) = 1 .. Len(Tail(s))
    BY <1>1
  <1>3. DOMAIN Tail(s) = 1 .. (Len(s) - 1)
    BY <1>1, <1>2
  <1>4. ASSUME NEW i \in DOMAIN s
        PROVE  i = 1 \/ (i - 1 \in DOMAIN Tail(s) /\ Tail(s)[i - 1] = s[i])
    <2>1. CASE i = 1
      BY <2>1
    <2>2. CASE i # 1
      <3>1. i - 1 \in 1 .. (Len(s) - 1) /\ (i - 1) + 1 = i
        BY <1>2, <2>2
      <3>2. Tail(s)[i - 1] = s[(i - 1) + 1]
        BY <1>1, <1>3, <3>1
      <3>3. QED
        BY <1>3, <3>1, <3>2
    <2>3. QED
      BY <2>1, <2>2
  <1>5. ASSUME NEW i \in DOMAIN Tail(s)
        PROVE  i \in Nat /\ i + 1 \in DOMAIN s /\ i + 1 # 1 /\ Tail(s)[i] = s[i + 1]
    <2>1. i \in 1 .. (Len(s) - 1)
      BY <1>3
    <2>2. Tail(s)[i] = s[i + 1]
      BY <1>1, <1>2
    <2>3. QED
      BY <1>2, <2>1, <2>2
  <1>6. \A i, j \in DOMAIN Tail(s) : i + 1 = j + 1 => i = j
    BY <1>3
  <1>7. 1 \in DOMAIN s
    BY <1>2
  <1>8. QED
    BY <1>1, <1>2, <1>4, <1>5, <1>6, <1>7

LEMMA Shifted ==
    ASSUME NEW n \in Nat, NEW k \in 1 .. n, NEW i \in 1 .. (n - 1), ~(i <= k - 1)
    PROVE  /\ i - (k - 1) \in 1 .. n - (k + 1) + 1
           /\ (k + 1) + (i - (k - 1)) - 1 = i + 1
           /\ i + 1 \in 1 .. n /\ i >= k
  OBVIOUS

LEMMA Removing ==
    ASSUME NEW S, NEW s \in Seq(S), NEW k \in DOMAIN s
    PROVE  /\ RemoveAt(s, k) \in Seq(S)
           /\ \A i \in DOMAIN RemoveAt(s, k) :
                 \/ i < k /\ i \in DOMAIN s /\ RemoveAt(s, k)[i] = s[i]
                 \/ i >= k /\ i + 1 \in DOMAIN s /\ RemoveAt(s, k)[i] = s[i + 1]
           /\ DOMAIN RemoveAt(s, k) \subseteq Nat /\ k \in Nat
  <1> DEFINE a == SubSeq(s, 1, k - 1)
             b == SubSeq(s, k + 1, Len(s))
  <1>1. k \in 1 .. Len(s) /\ Len(s) \in Nat /\ DOMAIN s = 1 .. Len(s)
    OBVIOUS
  <1>2. /\ 1 \in Int /\ k - 1 \in Int /\ k + 1 \in Int /\ Len(s) \in Int
        /\ \A i \in 1 .. (k - 1) : s[i] \in S
        /\ \A i \in (k + 1) .. Len(s) : s[i] \in S
    BY <1>1
  <1>3. /\ a \in Seq(S) /\ Len(a) = (IF 1 <= k - 1 THEN (k - 1) - 1 + 1 ELSE 0)
        /\ \A i \in 1 .. (k - 1) - 1 + 1 : a[i] = s[1 + i - 1]
    BY <1>2, SubSeqProperties
  <1>4. /\ b \in Seq(S) /\ Len(b) = (IF k + 1 <= Len(s) THEN Len(s) - (k + 1) + 1 ELSE 0)
        /\ \A i \in 1 .. Len(s) - (k + 1) + 1 : b[i] = s[(k + 1) + i - 1]
    BY <1>2, SubSeqProperties
  <1>5. Len(a) = k - 1 /\ Len(b) = Len(s) - k
    BY <1>1, <1>3, <1>4
  <1>6. /\ a \o b \in Seq(S) /\ Len(a \o b) = Len(a) + Len(b)
        /\ \A i \in 1 .. Len(a) + Len(b) :
              (a \o b)[i] = IF i <= Len(a) THEN a[i] ELSE b[i - Len(a)]
    BY <1>3, <1>4, ConcatProperties
  <1>7. Len(a) + Len(b) = Len(s) - 1 /\ DOMAIN (a \o b) = 1 .. (Len(s) - 1)
    BY <1>1, <1>5, <1>6
  <1>8. RemoveAt(s, k) = a \o b
    BY DEF RemoveAt
  <1>9. ASSUME NEW i \in DOMAIN (a \o b)
        PROVE  \/ i < k /\ i \in DOMAIN s /\ (a \o b)[i] = s[i]
               \/ i >= k /\ i + 1 \in DOMAIN s /\ (a \o b)[i] = s[i + 1]
    <2>1. i \in 1 .. (Len(s) - 1) /\ i \in 1 .. Len(a) + Len(b)
      BY <1>7
    <2>2. CASE i <= k - 1
      <3>1. i \in 1 .. (k - 1) - 1 + 1 /\ 1 + i - 1 = i /\ i \in DOMAIN s /\ i < k
        BY <1>1, <2>1, <2>2
      <3>2. a[i] = s[i]
        BY <1>3, <3>1
      <3>3. QED
        BY <1>5, <1>6, <2>1, <2>2, <3>1, <3>2
    <2>3. CASE ~(i <= k - 1)
      <3>1. /\ i - (k - 1) \in 1 .. Len(s) - (k + 1) + 1
            /\ (k + 1) + (i - (k - 1)) - 1 = i + 1
            /\ i + 1 \in 1 .. Len(s) /\ i >= k
        <4> HIDE DEF a, b
        <4>1. Len(s) \in Nat /\ k \in 1 .. Len(s) /\ i \in 1 .. (Len(s) - 1) /\ ~(i <= k - 1)
          BY <1>1, <2>1, <2>3
        <4>2. QED
          BY <4>1, Shifted
      <3>2. b[i - (k - 1)] = s[(k + 1) + (i - (k - 1)) - 1]
        BY <1>4, <3>1
      <3>3. (a \o b)[i] = b[i - (k - 1)]
        BY <1>5, <1>6, <2>1, <2>3
      <3>4. QED
        BY <1>1, <3>1, <3>2, <3>3
    <2>4. QED
      BY <2>2, <2>3
  <1>10. DOMAIN (a \o b) \subseteq Nat /\ k \in Nat
    BY <1>1, <1>7
  <1>11. QED
    BY <1>6, <1>8, <1>9, <1>10

\* What comes before a place in a sequence.
LEMMA Beginning ==
    ASSUME NEW S, NEW s \in Seq(S), NEW i \in DOMAIN s
    PROVE  /\ SubSeq(s, 1, i - 1) \in Seq(S)
           /\ \A k \in DOMAIN SubSeq(s, 1, i - 1) :
                 k \in DOMAIN s /\ SubSeq(s, 1, i - 1)[k] = s[k]
           /\ ToSet(SubSeq(s, 1, i)) \subseteq ToSet(SubSeq(s, 1, i - 1)) \cup {s[i]}
  <1>1. Len(s) \in Nat /\ DOMAIN s = 1 .. Len(s) /\ i \in 1 .. Len(s)
    OBVIOUS
  <1>2. ASSUME NEW k \in 0 .. Len(s)
        PROVE  /\ SubSeq(s, 1, k) \in Seq(S)
               /\ DOMAIN SubSeq(s, 1, k) = 1 .. k
               /\ \A j \in 1 .. k : SubSeq(s, 1, k)[j] = s[j]
    <2>1. /\ 1 \in Int /\ k \in Int /\ k \in Nat
          /\ \A j \in 1 .. k : s[j] \in S
      BY <1>1
    <2>2. /\ SubSeq(s, 1, k) \in Seq(S)
          /\ Len(SubSeq(s, 1, k)) = (IF 1 <= k THEN k - 1 + 1 ELSE 0)
          /\ \A j \in 1 .. k - 1 + 1 : SubSeq(s, 1, k)[j] = s[1 + j - 1]
      BY <2>1, SubSeqProperties
    <2>3. Len(SubSeq(s, 1, k)) = k /\ k - 1 + 1 = k
      BY <2>1, <2>2
    <2>4. DOMAIN SubSeq(s, 1, k) = 1 .. k
      BY <2>2, <2>3
    <2>5. \A j \in 1 .. k : 1 + j - 1 = j
      OBVIOUS
    <2>6. QED
      BY <2>2, <2>3, <2>4, <2>5
  <1>3. i - 1 \in 0 .. Len(s) /\ i \in 0 .. Len(s) /\ 1 .. i = (1 .. (i - 1)) \cup {i}
    BY <1>1
  <1>4. ToSet(SubSeq(s, 1, i)) \subseteq ToSet(SubSeq(s, 1, i - 1)) \cup {s[i]}
    <2>1. /\ \A j \in 1 .. i : SubSeq(s, 1, i)[j] = s[j]
          /\ \A j \in 1 .. (i - 1) : SubSeq(s, 1, i - 1)[j] = s[j]
          /\ DOMAIN SubSeq(s, 1, i) = 1 .. i /\ DOMAIN SubSeq(s, 1, i - 1) = 1 .. (i - 1)
      BY <1>2, <1>3
    <2>2. QED
      BY <1>3, <2>1 DEF ToSet
  <1>5. \A k \in 1 .. (i - 1) : k \in DOMAIN s
    BY <1>1
  <1>6. QED
    BY <1>2, <1>3, <1>4, <1>5

LEMMA Listing ==
    ASSUME NEW S, NEW n \in Nat, NEW f \in [1 .. n -> S]
    PROVE  f \in Seq(S) /\ Len(f) = n
  OBVIOUS

LEMMA Counting ==
    ASSUME NEW S, NEW s \in Seq(S), NEW e
    PROVE  /\ Occurrences(e, s) \in Nat
           /\ e \in ToSet(s) <=> Occurrences(e, s) >= 1
           /\ (\A i, j \in DOMAIN s : s[i] = e /\ s[j] = e => i = j)
                 => Occurrences(e, s) <= 1
  <1> DEFINE at == {i \in DOMAIN s : s[i] = e}
  <1>1. IsFiniteSet(at)
    <2>1. at \subseteq 1 .. Len(s)
      OBVIOUS
    <2>2. IsFiniteSet(1 .. Len(s))
      BY FS_Interval
    <2>3. QED
      BY <2>1, <2>2, FS_Subset
  <1>2. Cardinality(at) \in Nat /\ (Cardinality(at) = 0 <=> at = {})
    BY <1>1, FS_CardinalityType, FS_EmptySet
  <1>3. ASSUME \A i, j \in DOMAIN s : s[i] = e /\ s[j] = e => i = j
        PROVE  Cardinality(at) <= 1
    <2>1. CASE at = {}
      BY <1>2, <2>1
    <2>2. CASE at # {}
      <3>1. PICK k \in at : TRUE
        BY <2>2
      <3>2. at = {k}
        BY <1>3, <3>1
      <3>3. Cardinality({k}) = 1
        BY FS_Singleton
      <3>4. Cardinality(at) = 1
        BY <3>2, <3>3, Zenon
      <3>5. QED
        BY <3>4
    <2>3. QED
      BY <2>1, <2>2
  <1>4. e \in ToSet(s) <=> at # {}
    BY DEF ToSet
  <1>5. QED
    BY <1>2, <1>3, <1>4 DEF Occurrences

LEMMA Handed ==
    ASSUME TypeOK
    PROVE  /\ DOMAIN request = 1 .. Len(request) /\ Len(request) \in Nat
           /\ DOMAIN request \subseteq Ids
           /\ Calls \subseteq DOMAIN request /\ Events \subseteq DOMAIN request
           /\ Calls \cap Events = {} /\ Calls \cup Events = DOMAIN request
           /\ \A id \in DOMAIN request : request[id].channel \in Channel
  <1>1. /\ request \in Seq(Requests) /\ Len(request) <= MaxRequest
        /\ Len(request) \in Nat /\ MaxRequest \in Nat
    BY BoundsAssumption DEF TypeOK
  <1>2. DOMAIN request = 1 .. Len(request) /\ DOMAIN request \subseteq Ids
    BY <1>1 DEF Ids
  <1>3. \A id \in DOMAIN request : request[id] \in Requests
    BY <1>1
  <1>4. QED
    BY <1>1, <1>2, <1>3 DEF Calls, Events, Requests

LEMMA Growing ==
    ASSUME TypeOK, NEW r \in Requests, request' = Append(request, r), Len(request) + 1 <= MaxRequest
    PROVE  /\ Len(request) + 1 \in Ids /\ Len(request) + 1 \notin DOMAIN request
           /\ DOMAIN request' = DOMAIN request \cup {Len(request) + 1}
           /\ Calls' = Calls \cup (IF r.kind = "call" THEN {Len(request) + 1} ELSE {})
           /\ Events' = Events \cup (IF r.kind = "event" THEN {Len(request) + 1} ELSE {})
  <1>1. request \in Seq(Requests) /\ DOMAIN request = 1 .. Len(request) /\ Len(request) \in Nat
    BY Handed DEF TypeOK
  <1>2. Len(request) + 1 \in Ids /\ Len(request) + 1 \notin DOMAIN request
    BY <1>1, BoundsAssumption DEF Ids
  <1>3. /\ DOMAIN request' = DOMAIN request \cup {Len(request) + 1}
        /\ \A i \in DOMAIN request : request'[i] = request[i]
        /\ request'[Len(request) + 1] = r
    BY <1>1
  <1>4. QED
    BY <1>2, <1>3 DEF Calls, Events

-----------------------------------------------------------------------------
(* Steps of the client after which every call stands where it stood *)

\* u is s, followed by messages of M.
Continues(s, u, M) ==
    /\ u \in Seq(ToServer)
    /\ DOMAIN s \subseteq DOMAIN u
    /\ \A i \in DOMAIN s : u[i] = s[i]
    /\ \A i \in DOMAIN u \ DOMAIN s : u[i] \in M

\* Messages that hand nothing over that is a call.
Asides == {m \in ToServer : /\ m.type # "Promise"
                            /\ m.id \in DOMAIN request
                            /\ m.type = "EventListen" => m.id \in Events}

LEMMA OneMore ==
    ASSUME NEW s \in Seq(ToServer), NEW M, NEW m \in M, m \in ToServer
    PROVE  Continues(s, Append(s, m), M) /\ Continues(s, s, M)
  BY Appending DEF Continues

LEMMA QuietStep ==
    ASSUME IInv, UNCHANGED <<request, server, toClient>>,
           Continues(toServer, toServer', Asides),
           isDisposed => isDisposed',
           \A i \in DOMAIN waiting' : /\ waiting'[i] \in DOMAIN request
                                      /\ waiting'[i] \in Calls => Waits(waiting'[i]),
           \A i, j \in DOMAIN waiting' :
               waiting'[i] = waiting'[j] /\ waiting'[i] \in Calls => i = j,
           \A id \in Ids : \/ outcome'[id] = outcome[id]
                           \/ id \in Calls /\ outcome'[id] = "CancellationError",
           handlers' \subseteq DOMAIN request, handlers' \cap Calls \subseteq handlers,
           clientRequests' \subseteq DOMAIN request
    PROVE  /\ Known' /\ NoTwins' /\ OnePlace' /\ Truthful' /\ ActiveIsSubscribed'
           /\ HandlersAreAnswered'
  <1>1. /\ Calls' = Calls /\ Events' = Events /\ Calls \subseteq Ids
        /\ UNCHANGED <<request, pendingRequests, timers, activeRequests, running,
                       subscriptions, result, toClient>>
    BY Handed DEF Calls, Events, server, IInv
  <1>2. \A i \in DOMAIN toServer' :
            \/ i \in DOMAIN toServer /\ toServer'[i] = toServer[i]
            \/ /\ toServer'[i].type # "Promise" /\ toServer'[i].id \in DOMAIN request
               /\ toServer'[i].type = "EventListen" => toServer'[i].id \in Events
    BY DEF Continues, Asides
  <1>3. Known'
    BY <1>1, <1>2 DEF IInv, Known
  <1>4. NoTwins'
    BY <1>1, <1>2 DEF IInv, NoTwins
  <1>5. ASSUME NEW id \in Calls
        PROVE  /\ Waits(id)' => Waits(id)
               /\ Asked(id)' => Asked(id)
               /\ Pending(id)' = Pending(id)
    BY <1>1, <1>2 DEF Waits, Asked, Pending
  <1>6. OnePlace'
    BY <1>1, <1>5 DEF IInv, OnePlace
  <1>7. Truthful'
    BY <1>1 DEF IInv, Truthful
  <1>8. ASSUME NEW id, OnItsWay("Promise", id)
        PROVE  OnItsWay("Promise", id)'
    <2>1. PICK i \in DOMAIN toServer : toServer[i] = Message("Promise", id)
      BY <1>8 DEF OnItsWay, ToSet
    <2>2. i \in DOMAIN toServer' /\ toServer'[i] = Message("Promise", id)
      BY <2>1 DEF Continues
    <2>3. QED
      BY <2>2 DEF OnItsWay, ToSet, Message
  <1>9. HandlersAreAnswered'
    BY <1>1, <1>8 DEF IInv, HandlersAreAnswered, Answered
  <1>10. ActiveIsSubscribed'
    BY <1>1 DEF IInv, ActiveIsSubscribed
  <1>11. QED
    BY <1>3, <1>4, <1>6, <1>7, <1>9, <1>10

LEMMA CancelStep ==
    ASSUME IInv, NEW id \in Calls, Cancel(id)
    PROVE  IInv'
  <1>1. TypeOK /\ id \in Ids /\ id \in DOMAIN request /\ DOMAIN request \subseteq Ids
    BY Handed DEF IInv
  <1>2. Message("PromiseCancel", id) \in Asides /\ Message("PromiseCancel", id) \in ToServer
    BY <1>1 DEF Asides, Message, ToServer
  <1>3. Continues(toServer, toServer', Asides)
    BY <1>1, <1>2, OneMore DEF Cancel, SendRequest, TypeOK
  <1>4. /\ UNCHANGED <<state, isDisposed, request, waiting, handlers, listening, ended, listens,
                       server, toClient>>
        /\ outcome' = [outcome EXCEPT ![id] = "CancellationError"]
        /\ clientRequests' \subseteq clientRequests
    BY DEF Cancel
  <1>5. TypeOK'
    BY <1>1, <1>3, <1>4 DEF TypeOK, Outcomes, Continues, server
  <1>6. \A i \in DOMAIN waiting : waiting[i] \in Calls => Waits(waiting[i])
    BY DEF Waits
  <1>7. Known' /\ NoTwins' /\ OnePlace' /\ Truthful' /\ ActiveIsSubscribed' /\ HandlersAreAnswered'
    BY <1>1, <1>3, <1>4, <1>6, QuietStep, SMTT(30) DEF IInv, Known, NoTwins, TypeOK
  <1>8. QED
    BY <1>5, <1>7 DEF IInv

LEMMA AddFirstListenerStep ==
    ASSUME IInv, NEW id \in Events, AddFirstListener(id)
    PROVE  IInv'
  <1>1. /\ TypeOK /\ id \in Ids /\ id \in DOMAIN request /\ id \notin Calls
        /\ DOMAIN request \subseteq Ids
    BY Handed DEF IInv
  <1>2. Message("EventListen", id) \in Asides /\ Message("EventListen", id) \in ToServer
    BY <1>1 DEF Asides, Message, ToServer
  <1>3. Continues(toServer, toServer', Asides)
    <2>1. toServer' = toServer \/ toServer' = Append(toServer, Message("EventListen", id))
      BY DEF AddFirstListener, DoListen, SendRequest
    <2>2. toServer \in Seq(ToServer)
      BY <1>1 DEF TypeOK
    <2>3. QED
      BY <1>2, <2>1, <2>2, OneMore
  <1>4. /\ UNCHANGED <<state, isDisposed, request, outcome, handlers, ended, server, toClient>>
        /\ clientRequests' \subseteq clientRequests \cup {id}
        /\ listening' = listening \cup {id}
        /\ waiting' = waiting \/ waiting' = Append(waiting, id)
    BY DEF AddFirstListener, DoListen
  <1>5. listens' \in 0 .. MaxListen
    <2>1. listens \in 0 .. MaxListen /\ listens < MaxListen /\ listens' = listens + 1
      BY <1>1 DEF AddFirstListener, TypeOK
    <2>2. QED
      BY <2>1, BoundsAssumption
  <1>6. /\ waiting' \in Seq(Ids)
        /\ \A i \in DOMAIN waiting' :
              waiting'[i] = id \/ (i \in DOMAIN waiting /\ waiting'[i] = waiting[i])
    <2>1. waiting \in Seq(Ids)
      BY <1>1 DEF TypeOK
    <2>2. CASE waiting' = waiting
      BY <2>1, <2>2
    <2>3. CASE waiting' = Append(waiting, id)
      BY <1>1, <2>1, <2>3, Appending
    <2>4. QED
      BY <1>4, <2>2, <2>3
  <1>7. TypeOK'
    BY <1>1, <1>3, <1>4, <1>5, <1>6 DEF TypeOK, Continues, server
  <1>8. \A i \in DOMAIN waiting' : /\ waiting'[i] \in DOMAIN request
                                   /\ waiting'[i] \in Calls => Waits(waiting'[i])
    BY <1>1, <1>6 DEF IInv, Known, Waits
  <1>9. \A i, j \in DOMAIN waiting' :
            waiting'[i] = waiting'[j] /\ waiting'[i] \in Calls => i = j
    BY <1>1, <1>6 DEF IInv, NoTwins
  <1>10. Known' /\ NoTwins' /\ OnePlace' /\ Truthful' /\ ActiveIsSubscribed' /\ HandlersAreAnswered'
    BY <1>1, <1>3, <1>4, <1>8, <1>9, QuietStep DEF IInv, Known
  <1>11. QED
    BY <1>7, <1>10 DEF IInv

LEMMA RemoveLastListenerStep ==
    ASSUME IInv, NEW id \in Events, RemoveLastListener(id)
    PROVE  IInv'
  <1>1. /\ TypeOK /\ id \in Ids /\ id \in DOMAIN request /\ id \notin Calls
        /\ DOMAIN request \subseteq Ids
    BY Handed DEF IInv
  <1>2. Message("EventDispose", id) \in Asides /\ Message("EventDispose", id) \in ToServer
    BY <1>1 DEF Asides, Message, ToServer
  <1>3. Continues(toServer, toServer', Asides)
    <2>1. toServer \in Seq(ToServer)
      BY <1>1 DEF TypeOK
    <2>2. \/ UNCHANGED toServer
          \/ toServer' = Append(toServer, Message("EventDispose", id))
      BY DEF RemoveLastListener, SendRequest
    <2>3. QED
      BY <1>2, <2>1, <2>2, OneMore
  <1>4. /\ UNCHANGED <<state, isDisposed, request, outcome, ended, listens, server, toClient>>
        /\ clientRequests' \subseteq clientRequests
        /\ listening' = listening \ {id} /\ handlers' = handlers \ {id}
        /\ \/ waiting' = waiting
           \/ \E k \in DOMAIN waiting : waiting' = RemoveAt(waiting, k)
    BY DEF RemoveLastListener
  <1>5. /\ waiting' \in Seq(Ids)
        /\ \A i \in DOMAIN waiting' : /\ waiting'[i] \in DOMAIN request
                                      /\ waiting'[i] \in Calls => Waits(waiting'[i])
        /\ \A i, j \in DOMAIN waiting' :
              waiting'[i] = waiting'[j] /\ waiting'[i] \in Calls => i = j
    <2>1. CASE waiting' = waiting
      BY <1>1, <2>1 DEF TypeOK, IInv, Known, NoTwins, Waits
    <2>2. CASE \E k \in DOMAIN waiting : waiting' = RemoveAt(waiting, k)
      <3>1. PICK k \in DOMAIN waiting : waiting' = RemoveAt(waiting, k)
        BY <2>2
      <3>2. /\ waiting' \in Seq(Ids)
            /\ \A i \in DOMAIN waiting' :
                  \/ i < k /\ i \in DOMAIN waiting /\ waiting'[i] = waiting[i]
                  \/ i >= k /\ i + 1 \in DOMAIN waiting /\ waiting'[i] = waiting[i + 1]
            /\ DOMAIN waiting' \subseteq Nat /\ k \in Nat
        <4>1. waiting \in Seq(Ids)
          BY <1>1 DEF TypeOK
        <4>2. QED
          BY <3>1, <4>1, Removing
      <3>3. \A i \in DOMAIN waiting' : /\ waiting'[i] \in DOMAIN request
                                       /\ waiting'[i] \in Calls => Waits(waiting'[i])
        BY <3>2 DEF IInv, Known, Waits
      <3>4. ASSUME NEW i \in DOMAIN waiting', NEW j \in DOMAIN waiting',
                   waiting'[i] = waiting'[j], waiting'[i] \in Calls
            PROVE  i = j
        <4>1. PICK m \in DOMAIN waiting, n \in DOMAIN waiting :
                 /\ (m = i /\ i < k) \/ (m = i + 1 /\ i >= k)
                 /\ (n = j /\ j < k) \/ (n = j + 1 /\ j >= k)
                 /\ waiting'[i] = waiting[m] /\ waiting'[j] = waiting[n]
          BY <3>2
        <4>2. m = n
          BY <3>4, <4>1 DEF IInv, NoTwins
        <4>3. i \in Nat /\ j \in Nat /\ k \in Nat
          BY <3>2
        <4>4. QED
          BY <4>1, <4>2, <4>3
      <3>5. QED
        BY <3>2, <3>3, <3>4
    <2>3. QED
      BY <1>4, <2>1, <2>2
  <1>6. TypeOK'
    BY <1>1, <1>3, <1>4, <1>5 DEF TypeOK, Continues, server
  <1>7. Known' /\ NoTwins' /\ OnePlace' /\ Truthful' /\ ActiveIsSubscribed' /\ HandlersAreAnswered'
    BY <1>1, <1>3, <1>4, <1>5, QuietStep DEF IInv, Known
  <1>8. QED
    BY <1>6, <1>7 DEF IInv

LEMMA DisposeClientStep ==
    ASSUME IInv, DisposeClient
    PROVE  IInv'
  <1> DEFINE sent == clientRequests \ ToSet(waiting)
  <1>1. /\ TypeOK /\ DOMAIN request \subseteq Ids /\ clientRequests \subseteq DOMAIN request
        /\ Calls \subseteq Ids /\ Calls \cap Events = {}
    BY Handed DEF IInv, Known
  <1>2. Cardinality(sent) \in Nat
    <2>1. IsFiniteSet(Ids)
      BY BoundsAssumption, FS_Interval DEF Ids
    <2>2. IsFiniteSet(sent)
      BY <1>1, <2>1, FS_Subset DEF TypeOK
    <2>3. QED
      BY <2>2, FS_CardinalityType
  <1>3. PICK order \in [1 .. Cardinality(sent) -> sent] :
           toServer' = toServer \o [i \in 1 .. Cardinality(sent) |-> TakeBack(order[i])]
    BY DEF DisposeClient
  <1> DEFINE told == [i \in 1 .. Cardinality(sent) |-> TakeBack(order[i])]
  <1>4. \A i \in 1 .. Cardinality(sent) : TakeBack(order[i]) \in Asides
    <2>1. \A i \in 1 .. Cardinality(sent) : order[i] \in DOMAIN request
      BY <1>1
    <2>2. QED
      BY <1>1, <2>1 DEF Asides, TakeBack, Message, ToServer
  <1>5. told \in Seq(Asides) /\ told \in Seq(ToServer) /\ Len(told) = Cardinality(sent)
    <2>1. Asides \subseteq ToServer
      BY DEF Asides
    <2>2. /\ told \in [1 .. Cardinality(sent) -> Asides]
          /\ told \in [1 .. Cardinality(sent) -> ToServer]
      BY <1>4, <2>1
    <2> HIDE DEF told, sent
    <2>3. QED
      BY <1>2, <2>2, Listing
  <1>6. Continues(toServer, toServer', Asides)
    <2>1. toServer \in Seq(ToServer) /\ Len(toServer) \in Nat
      BY <1>1 DEF TypeOK
    <2> HIDE DEF told
    <2>2. /\ toServer' \in Seq(ToServer) /\ Len(toServer') = Len(toServer) + Len(told)
          /\ \A i \in 1 .. Len(toServer) + Len(told) :
                toServer'[i] = IF i <= Len(toServer) THEN toServer[i] ELSE told[i - Len(toServer)]
      BY <1>3, <1>5, <2>1, ConcatProperties DEF told
    <2>3. /\ DOMAIN toServer = 1 .. Len(toServer)
          /\ DOMAIN toServer' = 1 .. Len(toServer) + Len(told)
          /\ Len(told) \in Nat /\ DOMAIN told = 1 .. Len(told)
      BY <1>5, <2>1, <2>2
    <2>4. /\ DOMAIN toServer \subseteq DOMAIN toServer'
          /\ \A i \in DOMAIN toServer : toServer'[i] = toServer[i]
      BY <2>1, <2>2, <2>3
    <2>5. ASSUME NEW i \in DOMAIN toServer' \ DOMAIN toServer
          PROVE  toServer'[i] \in Asides
      <3>1. i - Len(toServer) \in 1 .. Len(told) /\ ~(i <= Len(toServer))
            /\ i \in 1 .. Len(toServer) + Len(told)
        BY <2>1, <2>3
      <3>2. toServer'[i] = told[i - Len(toServer)]
        BY <2>2, <3>1
      <3>3. told[i - Len(toServer)] \in Asides
        BY <1>5, <2>3, <3>1
      <3>4. QED
        BY <3>2, <3>3
    <2>6. QED
      BY <2>2, <2>4, <2>5 DEF Continues
  <1>7. /\ UNCHANGED <<state, request, waiting, listens, server, toClient>>
        /\ isDisposed' = TRUE /\ clientRequests' = {}
        /\ outcome' = [id \in Ids |-> IF id \in clientRequests \cap Calls
                                      THEN "CancellationError" ELSE outcome[id]]
        /\ handlers' \subseteq handlers /\ listening' \subseteq listening
        /\ ended' \subseteq Events
    BY DEF DisposeClient
  <1>8. TypeOK'
    <2>1. ended' \subseteq Ids
      BY <1>1, <1>7 DEF Events
    <2>2. QED
      BY <1>1, <1>6, <1>7, <2>1 DEF TypeOK, Outcomes, Continues, server
  <1>9. Known' /\ NoTwins' /\ OnePlace' /\ Truthful' /\ ActiveIsSubscribed' /\ HandlersAreAnswered'
    <2>1. \A i \in DOMAIN waiting : waiting[i] \in Calls => Waits(waiting[i])
      BY DEF Waits
    <2>2. QED
      BY <1>1, <1>6, <1>7, <2>1, QuietStep DEF IInv, Known, NoTwins
  <1>10. QED
    BY <1>8, <1>9 DEF IInv

LEMMA RequestEventStep ==
    ASSUME IInv, NEW c \in Channel, RequestEvent(c)
    PROVE  IInv'
  <1> DEFINE new == Len(request) + 1
  <1>1. /\ TypeOK /\ DOMAIN request = 1 .. Len(request) /\ Len(request) \in Nat
        /\ DOMAIN request \subseteq Ids /\ Calls \subseteq DOMAIN request
        /\ Events \subseteq DOMAIN request
    BY Handed DEF IInv
  <1>2. /\ new \in Ids /\ new \notin DOMAIN request /\ new <= MaxRequest
    BY <1>1 DEF RequestEvent, Ids
  <1>3. /\ request' \in Seq(Requests) /\ Len(request') = new
        /\ DOMAIN request' = DOMAIN request \cup {new}
        /\ \A id \in DOMAIN request : request'[id] = request[id]
        /\ request'[new].kind = "event"
    <2>1. [kind |-> "event", channel |-> c] \in Requests /\ request \in Seq(Requests)
      BY <1>1 DEF Requests, TypeOK
    <2>2. request' = Append(request, [kind |-> "event", channel |-> c])
      BY DEF RequestEvent
    <2>3. /\ request' \in Seq(Requests) /\ Len(request') = new
          /\ \A i \in 1 .. Len(request) : request'[i] = request[i]
          /\ request'[new] = [kind |-> "event", channel |-> c]
      BY <2>1, <2>2, AppendProperties
    <2>4. DOMAIN request' = 1 .. new
      BY <2>3
    <2>5. QED
      BY <1>1, <2>3, <2>4
  <1>4. /\ UNCHANGED <<state, isDisposed, outcome, waiting, clientRequests, listening,
                       ended, listens, server, toServer, toClient>>
        /\ handlers' = handlers \cup {new}
    BY DEF RequestEvent
  <1>5. Calls' = Calls /\ Events' = Events \cup {new} /\ new \notin Calls
    BY <1>1, <1>2, <1>3 DEF Calls, Events
  <1>6. TypeOK'
    BY <1>1, <1>2, <1>3, <1>4 DEF TypeOK, server
  <1>7. Known'
    BY <1>1, <1>3, <1>4, <1>5 DEF IInv, Known, server
  <1>8. NoTwins' /\ OnePlace' /\ Truthful'
    <2>1. UNCHANGED <<outcome, waiting, pendingRequests, running, result, toServer, toClient>>
      BY <1>4 DEF server
    <2>2. NoTwins'
      BY <1>5, <2>1 DEF IInv, NoTwins
    <2>3. OnePlace'
      <3>1. ASSUME NEW id \in Calls
            PROVE  Waits(id)' = Waits(id) /\ Asked(id)' = Asked(id) /\ Pending(id)' = Pending(id)
        BY <2>1 DEF Waits, Asked, Pending
      <3>2. \A id \in Calls : id \in handlers' => id \in handlers
        BY <1>4, <1>5
      <3>3. QED
        BY <1>5, <2>1, <3>1, <3>2 DEF IInv, OnePlace
    <2>4. Truthful'
      BY <2>1 DEF IInv, Truthful
    <2>5. QED
      BY <2>2, <2>3, <2>4
  <1>9. ActiveIsSubscribed'
    BY <1>2, <1>4, <1>5 DEF IInv, ActiveIsSubscribed, Known, server
  <1>10. HandlersAreAnswered'
    BY <1>4, <1>5 DEF IInv, HandlersAreAnswered, OnItsWay, Answered, server
  <1>11. QED
    BY <1>6, <1>7, <1>8, <1>9, <1>10 DEF IInv

-----------------------------------------------------------------------------
(* The request of a call is made and goes out *)

\* A call that stands nowhere yet goes out, or fails to be written.
LEMMA DoCallStep ==
    ASSUME IInv, NEW id \in Calls', DoCall(id),
           UNCHANGED <<isDisposed, server, toClient>>,
           DOMAIN request \subseteq DOMAIN request', DOMAIN request' \subseteq Ids,
           Events' = Events, Calls \subseteq Calls', Calls' \subseteq Calls \cup {id},
           \A i \in DOMAIN request : request'[i] = request[i],
           \A i \in DOMAIN waiting' :
               /\ waiting'[i] \in DOMAIN request
               /\ waiting'[i] \in Calls => Waits(waiting'[i]) /\ waiting'[i] # id,
           \A i, j \in DOMAIN waiting' :
               waiting'[i] = waiting'[j] /\ waiting'[i] \in Calls => i = j,
           ~Asked(id), ~Pending(id), result[id].calls = 0
    PROVE  /\ Known' /\ NoTwins' /\ OnePlace' /\ Truthful' /\ ActiveIsSubscribed'
           /\ HandlersAreAnswered'
           /\ toServer' \in Seq(ToServer) /\ outcome' \in [Ids -> Outcomes]
           /\ handlers' \subseteq DOMAIN request' /\ clientRequests' \subseteq DOMAIN request'
  <1>1. /\ TypeOK /\ id \in DOMAIN request' /\ id \in Ids
        /\ UNCHANGED <<pendingRequests, timers, activeRequests, running, subscriptions,
                       result, toClient>>
    BY DEF IInv, Calls, server
  <1>2. toServer \in Seq(ToServer) /\ Message("Promise", id) \in ToServer
        /\ Message("Promise", id).type = "Promise" /\ Message("Promise", id).id = id
    BY <1>1 DEF TypeOK, ToServer, Message
  <1>3. /\ toServer' \in Seq(ToServer)
        /\ DOMAIN toServer \subseteq DOMAIN toServer'
        /\ \A i \in DOMAIN toServer : toServer'[i] = toServer[i]
        /\ \A i \in DOMAIN toServer' :
              \/ i \in DOMAIN toServer /\ toServer'[i] = toServer[i]
              \/ i = Len(toServer) + 1 /\ toServer'[i] = Message("Promise", id)
        /\ outcome'[id] = "not sent" => UNCHANGED toServer
    <2>1. CASE UNCHANGED toServer
      BY <1>2, <2>1
    <2>2. CASE SendRequest("Promise", id) /\ outcome' = [outcome EXCEPT ![id] = "pending"]
      <3>1. toServer' = Append(toServer, Message("Promise", id))
        BY <2>2 DEF SendRequest
      <3>2. outcome'[id] = "pending"
        BY <1>1, <2>2 DEF TypeOK
      <3>3. QED
        BY <1>2, <3>1, <3>2, Appending
    <2>3. QED
      BY <2>1, <2>2 DEF DoCall
  <1>4. /\ outcome' \in [Ids -> Outcomes] /\ outcome'[id] \in {"pending", "not sent"}
        /\ \A i \in Ids : i # id => outcome'[i] = outcome[i]
    <2>1. PICK new \in {"pending", "not sent"} : outcome' = [outcome EXCEPT ![id] = new]
      BY DEF DoCall
    <2>2. outcome \in [Ids -> Outcomes] /\ id \in Ids /\ new \in Outcomes
      BY <1>1 DEF TypeOK, Outcomes
    <2>3. QED
      BY <2>1, <2>2
  <1>5. handlers' \subseteq DOMAIN request' /\ clientRequests' \subseteq DOMAIN request'
    BY <1>1 DEF DoCall, IInv, Known
  <1>6. \A i \in DOMAIN toServer' :
            toServer'[i].id = id /\ toServer'[i].type = "Promise" => i = Len(toServer) + 1
    BY <1>3 DEF Asked
  <1>7. Known'
    <2>1. \A i \in DOMAIN toServer' :
            /\ toServer'[i].id \in DOMAIN request'
            /\ toServer'[i].type = "Promise" => toServer'[i].id \in Calls'
            /\ toServer'[i].type = "EventListen" => toServer'[i].id \in Events'
      <3>1. TAKE i \in DOMAIN toServer'
      <3>2. CASE i \in DOMAIN toServer /\ toServer'[i] = toServer[i]
        <4>1. /\ toServer[i].id \in DOMAIN request
              /\ toServer[i].type = "Promise" => toServer[i].id \in Calls
              /\ toServer[i].type = "EventListen" => toServer[i].id \in Events
          BY <3>2 DEF IInv, Known
        <4>2. QED
          BY <3>2, <4>1
      <3>3. CASE toServer'[i] = Message("Promise", id)
        BY <1>1, <1>2, <3>3
      <3>4. QED
        BY <1>3, <3>2, <3>3
    <2>2. /\ \A i \in DOMAIN waiting' : waiting'[i] \in DOMAIN request'
          /\ \A c \in Channel : \A i \in DOMAIN pendingRequests'[c] :
                /\ pendingRequests'[c][i] \in DOMAIN request'
                /\ request'[pendingRequests'[c][i]].channel = c
      BY <1>1 DEF IInv, Known
    <2>3. /\ \A i \in Ids \ DOMAIN request' : /\ outcome'[i] = "none"
                                              /\ result'[i].calls = 0
                                              /\ i \notin running' /\ i \notin activeRequests'
          /\ \A i \in Calls' : outcome'[i] # "none"
      <3>1. Calls' \subseteq Calls \cup {id} /\ Calls \subseteq Ids
        BY <1>1, Handed
      <3>2. \A i \in Calls' : outcome'[i] # "none"
        <4>1. \A i \in Calls : outcome[i] # "none"
          BY DEF IInv, Known
        <4>2. QED
          BY <1>1, <1>4, <3>1, <4>1
      <3>3. \A i \in Ids \ DOMAIN request' : i # id /\ i \in Ids \ DOMAIN request
        BY <1>1
      <3>4. \A i \in Ids \ DOMAIN request : /\ outcome[i] = "none"
                                           /\ result[i].calls = 0
                                           /\ i \notin running /\ i \notin activeRequests
        BY DEF IInv, Known
      <3>5. QED
        BY <1>1, <1>4, <3>2, <3>3, <3>4
    <2>4. QED
      BY <1>5, <2>1, <2>2, <2>3 DEF Known
  <1>8. NoTwins'
    <2>1. \A i, j \in DOMAIN toServer' :
            /\ toServer'[i].type = "Promise" /\ toServer'[j].type = "Promise"
            /\ toServer'[i].id = toServer'[j].id
            => i = j
      <3>1. TAKE i, j \in DOMAIN toServer'
      <3>2. CASE i \in DOMAIN toServer /\ j \in DOMAIN toServer
        BY <1>3, <3>2 DEF IInv, NoTwins
      <3>3. CASE i \notin DOMAIN toServer \/ j \notin DOMAIN toServer
        BY <1>2, <1>3, <1>6, <3>3
      <3>4. QED
        BY <3>2, <3>3
    <2>2. /\ \A i \in DOMAIN waiting' : waiting'[i] \in Calls' => waiting'[i] \in Calls
          /\ \A c \in Channel : \A i \in DOMAIN pendingRequests[c] :
                pendingRequests[c][i] \in Calls' => pendingRequests[c][i] \in Calls
      <3>1. \A i \in DOMAIN request : i \in Calls' => i \in Calls
        BY DEF Calls
      <3>2. QED
        BY <3>1 DEF IInv, Known
    <2>3. QED
      BY <1>1, <2>1, <2>2 DEF IInv, NoTwins
  <1>9. OnePlace'
    <2>1. ASSUME NEW i \in Calls, i # id
          PROVE  /\ Waits(i)' => Waits(i)
                 /\ Asked(i)' => Asked(i)
                 /\ Pending(i)' = Pending(i)
                 /\ outcome'[i] = outcome[i]
                 /\ i \in handlers' => i \in handlers
      <3>1. Waits(i)' => Waits(i)
        BY DEF Waits
      <3>2. Asked(i)' => Asked(i)
        BY <1>2, <1>3, <2>1 DEF Asked
      <3>3. Pending(i)' = Pending(i)
        BY <1>1 DEF Pending
      <3>4. outcome'[i] = outcome[i]
        BY <1>1, <1>4, <2>1, Handed
      <3>5. i \in handlers' => i \in handlers
        BY <2>1 DEF DoCall
      <3>6. QED
        BY <3>1, <3>2, <3>3, <3>4, <3>5
    <2>2. ~Waits(id)' /\ ~Pending(id)' /\ (outcome'[id] = "not sent" => ~Asked(id)')
      <3>1. ~Pending(id)'
        BY <1>1 DEF Pending
      <3>2. outcome'[id] = "not sent" => ~Asked(id)'
        BY <1>3 DEF Asked
      <3>3. ~Waits(id)'
        BY DEF Waits, Calls
      <3>4. QED
        BY <3>1, <3>2, <3>3
    <2>3. QED
      BY <1>1, <2>1, <2>2 DEF IInv, OnePlace
  <1>10. Truthful' /\ ActiveIsSubscribed'
    BY <1>1, <1>4 DEF IInv, Truthful, ActiveIsSubscribed
  <1>11. HandlersAreAnswered'
    <2>1. ASSUME NEW i, OnItsWay("Promise", i)
          PROVE  OnItsWay("Promise", i)'
      <3>1. PICK k \in DOMAIN toServer : toServer[k] = Message("Promise", i)
        BY <2>1 DEF OnItsWay, ToSet
      <3>2. k \in DOMAIN toServer' /\ toServer'[k] = Message("Promise", i)
        BY <1>3, <3>1
      <3>3. QED
        BY <3>2 DEF OnItsWay, ToSet, Message
    <2>2. SendRequest("Promise", id) => OnItsWay("Promise", id)'
      <3>1. HAVE SendRequest("Promise", id)
      <3>2. /\ Len(toServer) + 1 \in DOMAIN toServer'
            /\ toServer'[Len(toServer) + 1] = Message("Promise", id)
        BY <1>2, <3>1, Appending DEF SendRequest
      <3>3. QED
        BY <3>2 DEF OnItsWay, ToSet, Message
    <2>3. ASSUME NEW i \in handlers' \cap Calls'
          PROVE  i \in handlers \cap Calls \/ OnItsWay("Promise", i)'
      <3>1. CASE i \in handlers
        BY <3>1 DEF IInv, Known, Calls
      <3>2. CASE i \notin handlers
        BY <2>2, <3>2 DEF DoCall
      <3>3. QED
        BY <3>1, <3>2
    <2>4. ASSUME NEW i \in handlers \cap Calls, ~isDisposed
          PROVE  (\/ OnItsWay("Promise", i) \/ i \in timers \/ i \in running \/ Answered(i)
                  \/ "unsent" \in result[i].ends)'
      BY <1>1, <2>1, <2>4 DEF IInv, HandlersAreAnswered, Answered
    <2>5. QED
      BY <2>3, <2>4 DEF HandlersAreAnswered
  <1>12. QED
    BY <1>3, <1>4, <1>5, <1>7, <1>8, <1>9, <1>10, <1>11

LEMMA RequestPromiseStep ==
    ASSUME IInv, NEW c \in Channel, RequestPromise(c)
    PROVE  IInv'
  <1>0. PICK new : new = Len(request) + 1
    OBVIOUS
  <1>1. /\ TypeOK /\ DOMAIN request = 1 .. Len(request) /\ Len(request) \in Nat
        /\ DOMAIN request \subseteq Ids /\ Calls \subseteq DOMAIN request
        /\ Events \subseteq DOMAIN request
    BY Handed DEF IInv
  <1>2. /\ new \in Ids /\ new \notin DOMAIN request /\ new <= MaxRequest
    BY <1>0, <1>1 DEF RequestPromise, Ids
  <1>3. /\ request' \in Seq(Requests) /\ Len(request') = new
        /\ DOMAIN request' = DOMAIN request \cup {new}
        /\ \A id \in DOMAIN request : request'[id] = request[id]
        /\ request'[new].kind = "call"
    <2>1. [kind |-> "call", channel |-> c] \in Requests /\ request \in Seq(Requests)
      BY <1>1 DEF Requests, TypeOK
    <2>2. request' = Append(request, [kind |-> "call", channel |-> c])
      BY DEF RequestPromise
    <2>3. /\ request' \in Seq(Requests) /\ Len(request') = new
          /\ \A i \in 1 .. Len(request) : request'[i] = request[i]
          /\ request'[new] = [kind |-> "call", channel |-> c]
      BY <1>0, <2>1, <2>2, AppendProperties
    <2>4. DOMAIN request' = 1 .. new
      BY <2>3
    <2>5. QED
      BY <1>0, <1>1, <2>3, <2>4
  <1>4. UNCHANGED <<state, isDisposed, listening, ended, listens, server, toClient>>
    BY DEF RequestPromise
  <1>5. /\ Calls' = Calls \cup {new} /\ Events' = Events
        /\ new \notin Calls /\ new \notin Events
    BY <1>1, <1>2, <1>3 DEF Calls, Events
  <1>6. /\ ~Waits(new) /\ ~Asked(new) /\ ~Pending(new) /\ result[new].calls = 0
        /\ new \notin running /\ new \notin activeRequests /\ new \notin handlers
        /\ result[new].ends = {}
    <2>1. /\ ~Waits(new) /\ ~Asked(new) /\ ~Pending(new) /\ result[new].calls = 0
          /\ new \notin running /\ new \notin activeRequests /\ new \notin handlers
      BY <1>2 DEF IInv, Known, Waits, Asked, Pending
    <2>2. result[new].ended \in Nat
      BY <1>1, <1>2 DEF TypeOK, Results
    <2>3. result[new].ends = {}
      BY <1>2, <2>1, <2>2 DEF IInv, Truthful
    <2>4. QED
      BY <2>1, <2>3
  <1>7. CASE state = "Idle"
    <2>1. DoCall(new) /\ UNCHANGED waiting
      BY <1>0, <1>7 DEF RequestPromise
    <2>2. /\ \A i \in DOMAIN waiting' :
                /\ waiting'[i] \in DOMAIN request
                /\ waiting'[i] \in Calls => Waits(waiting'[i]) /\ waiting'[i] # new
          /\ \A i, j \in DOMAIN waiting' :
                waiting'[i] = waiting'[j] /\ waiting'[i] \in Calls => i = j
      BY <1>2, <2>1 DEF IInv, Known, NoTwins, Waits
    <2>3. /\ Known' /\ NoTwins' /\ OnePlace' /\ Truthful' /\ ActiveIsSubscribed'
          /\ HandlersAreAnswered'
          /\ toServer' \in Seq(ToServer) /\ outcome' \in [Ids -> Outcomes]
          /\ handlers' \subseteq DOMAIN request' /\ clientRequests' \subseteq DOMAIN request'
      <3>1. new \in Calls' /\ DOMAIN request' \subseteq Ids
        BY <1>1, <1>2, <1>3, <1>5
      <3>2. UNCHANGED <<isDisposed, server, toClient>>
        BY <1>4
      <3>3. DOMAIN request \subseteq DOMAIN request'
        BY <1>3
      <3>4. Events' = Events /\ Calls \subseteq Calls' /\ Calls' \subseteq Calls \cup {new}
        BY <1>5
      <3>5. QED
        BY <1>3, <1>6, <2>1, <2>2, <3>1, <3>2, <3>3, <3>4, DoCallStep
    <2>4. TypeOK'
      BY <1>1, <1>2, <1>3, <1>4, <2>1, <2>3 DEF TypeOK, server
    <2>5. QED
      BY <2>3, <2>4 DEF IInv
  <1>8. CASE state # "Idle"
    <2>1. /\ waiting' = Append(waiting, new)
          /\ outcome' = [outcome EXCEPT ![new] = "pending"]
          /\ clientRequests' = clientRequests \cup {new}
          /\ UNCHANGED <<handlers, toServer, channels, flushes, pendingRequests, timers,
                         activeRequests, running, cancelled, subscriptions, throws, result,
                         collected, isConnected>>
      BY <1>0, <1>4, <1>8 DEF RequestPromise, server
    <2>2. /\ waiting' \in Seq(Ids)
          /\ \A i \in DOMAIN waiting' :
                \/ i \in DOMAIN waiting /\ waiting'[i] = waiting[i]
                \/ i = Len(waiting) + 1 /\ i \notin DOMAIN waiting /\ waiting'[i] = new
      BY <1>1, <1>2, <2>1, Appending DEF TypeOK
    <2>3. /\ outcome' \in [Ids -> Outcomes] /\ outcome'[new] = "pending"
          /\ \A i \in Ids : i # new => outcome'[i] = outcome[i]
      BY <1>1, <1>2, <2>1 DEF TypeOK, Outcomes
    <2>4. TypeOK'
      BY <1>1, <1>2, <1>3, <1>4, <2>1, <2>2, <2>3 DEF TypeOK
    <2>5. Known'
      <3>1. /\ \A i \in DOMAIN waiting' : waiting'[i] \in DOMAIN request'
            /\ handlers' \subseteq DOMAIN request' /\ clientRequests' \subseteq DOMAIN request'
        BY <1>3, <2>1, <2>2 DEF IInv, Known
      <3>2. \A i \in DOMAIN toServer :
              /\ toServer[i].id \in DOMAIN request'
              /\ toServer[i].type = "Promise" => toServer[i].id \in Calls'
              /\ toServer[i].type = "EventListen" => toServer[i].id \in Events'
        BY <1>3, <1>5 DEF IInv, Known
      <3>3. \A d \in Channel : \A i \in DOMAIN pendingRequests[d] :
              /\ pendingRequests[d][i] \in DOMAIN request'
              /\ request'[pendingRequests[d][i]].channel = d
        BY <1>3 DEF IInv, Known
      <3>4. /\ \A i \in Ids \ DOMAIN request' : /\ outcome'[i] = "none"
                                                /\ result[i].calls = 0
                                                /\ i \notin running /\ i \notin activeRequests
            /\ \A i \in Calls' : outcome'[i] # "none"
        BY <1>1, <1>3, <1>5, <2>3 DEF IInv, Known
      <3>5. QED
        BY <2>1, <3>1, <3>2, <3>3, <3>4 DEF Known
    <2>6. NoTwins'
      <3>1. ASSUME NEW i \in DOMAIN waiting', NEW j \in DOMAIN waiting',
                   waiting'[i] = waiting'[j], waiting'[i] \in Calls'
            PROVE  i = j
        <4>1. \A k \in DOMAIN waiting : waiting[k] # new
          BY <1>6 DEF Waits
        <4>2. CASE i \in DOMAIN waiting /\ j \in DOMAIN waiting
          BY <1>5, <2>2, <3>1, <4>1, <4>2 DEF IInv, NoTwins
        <4>3. CASE i \notin DOMAIN waiting \/ j \notin DOMAIN waiting
          BY <2>2, <3>1, <4>1, <4>3
        <4>4. QED
          BY <4>2, <4>3
      <3>2. \A d \in Channel : \A i \in DOMAIN pendingRequests[d] : pendingRequests[d][i] # new
        BY <1>6 DEF Pending
      <3>3. QED
        BY <1>5, <2>1, <3>1, <3>2 DEF IInv, NoTwins
    <2>7. OnePlace'
      <3>1. ASSUME NEW i \in Calls
            PROVE  /\ Waits(i)' => Waits(i)
                   /\ Asked(i)' = Asked(i) /\ Pending(i)' = Pending(i)
                   /\ outcome'[i] = outcome[i]
        <4>1. i # new /\ i \in Ids
          BY <1>1, <1>5
        <4>2. Waits(i)' => Waits(i)
          BY <2>2, <4>1 DEF Waits
        <4>3. Asked(i)' = Asked(i) /\ Pending(i)' = Pending(i)
          BY <2>1 DEF Asked, Pending
        <4>4. QED
          BY <2>3, <4>1, <4>2, <4>3
      <3>2. Asked(new)' = Asked(new) /\ Pending(new)' = Pending(new)
        BY <2>1 DEF Asked, Pending
      <3>3. QED
        BY <1>5, <1>6, <2>1, <2>3, <3>1, <3>2 DEF IInv, OnePlace
    <2>8. Truthful'
      BY <1>4, <1>6, <2>1, <2>3 DEF IInv, Truthful
    <2>9. ActiveIsSubscribed' /\ HandlersAreAnswered'
      BY <1>4, <1>5, <1>6, <2>1 DEF IInv, ActiveIsSubscribed, HandlersAreAnswered,
                                    OnItsWay, Answered
    <2>10. QED
      BY <2>4, <2>5, <2>6, <2>7, <2>8, <2>9 DEF IInv
  <1>9. QED
    BY <1>7, <1>8

LEMMA WhenInitializedStep ==
    ASSUME IInv, WhenInitialized
    PROVE  IInv'
  <1> DEFINE id == Head(waiting)
  <1>1. /\ TypeOK /\ DOMAIN request \subseteq Ids /\ Calls \subseteq DOMAIN request
        /\ Calls \cup Events = DOMAIN request
    BY Handed DEF IInv
  <1>2. /\ UNCHANGED <<state, isDisposed, request, listening, ended, listens, server, toClient>>
        /\ waiting # <<>> /\ waiting' = Tail(waiting)
        /\ waiting \in Seq(Ids)
    BY <1>1 DEF WhenInitialized, TypeOK
  <1>3. /\ waiting' \in Seq(Ids)
        /\ 1 \in DOMAIN waiting /\ id = waiting[1] /\ id \in Ids /\ id \in DOMAIN request
        /\ \A i \in DOMAIN waiting' :
              i \in Nat /\ i + 1 \in DOMAIN waiting /\ i + 1 # 1 /\ waiting'[i] = waiting[i + 1]
        /\ \A i, j \in DOMAIN waiting' : i + 1 = j + 1 => i = j
    BY <1>2, Taking DEF IInv, Known
  <1> HIDE DEF id
  <1>4. /\ \A i \in DOMAIN waiting' :
              /\ waiting'[i] \in DOMAIN request
              /\ waiting'[i] \in Calls => Waits(waiting'[i]) /\ waiting'[i] # id
        /\ \A i, j \in DOMAIN waiting' :
              waiting'[i] = waiting'[j] /\ waiting'[i] \in Calls => i = j
    BY <1>3 DEF IInv, Known, NoTwins, Waits
  <1>5. Calls' = Calls /\ Events' = Events
    BY <1>2 DEF Calls, Events
  <1>6. CASE id \in Calls /\ DoCall(id)
    <2>1. ~Asked(id) /\ ~Pending(id) /\ result[id].calls = 0
      <3>1. Waits(id)
        BY <1>3 DEF Waits
      <3>2. QED
        BY <1>6, <3>1 DEF IInv, OnePlace
    <2>2. /\ id \in Calls' /\ UNCHANGED <<isDisposed, server, toClient>>
          /\ DOMAIN request \subseteq DOMAIN request' /\ DOMAIN request' \subseteq Ids
          /\ Calls \subseteq Calls' /\ Calls' \subseteq Calls \cup {id}
          /\ \A i \in DOMAIN request : request'[i] = request[i]
      BY <1>1, <1>2, <1>5, <1>6
    <2>3. /\ Known' /\ NoTwins' /\ OnePlace' /\ Truthful' /\ ActiveIsSubscribed'
          /\ HandlersAreAnswered'
          /\ toServer' \in Seq(ToServer) /\ outcome' \in [Ids -> Outcomes]
          /\ handlers' \subseteq DOMAIN request' /\ clientRequests' \subseteq DOMAIN request'
      BY <1>4, <1>5, <1>6, <2>1, <2>2, DoCallStep
    <2>4. TypeOK'
      BY <1>1, <1>2, <1>3, <2>3 DEF TypeOK, server
    <2>5. QED
      BY <2>3, <2>4 DEF IInv
  <1>7. CASE /\ UNCHANGED <<handlers, outcome>>
             /\ \/ UNCHANGED <<clientRequests, toServer>>
                \/ id \notin Calls /\ DoListen(id)
    <2>1. Continues(toServer, toServer', Asides) /\ clientRequests' \subseteq DOMAIN request
      <3>1. toServer \in Seq(ToServer) /\ clientRequests \subseteq DOMAIN request
        BY <1>1 DEF TypeOK, IInv, Known
      <3>2. CASE UNCHANGED <<clientRequests, toServer>>
        BY <3>1, <3>2 DEF Continues
      <3>3. CASE id \notin Calls /\ DoListen(id)
        <4>1. /\ Message("EventListen", id) \in Asides
              /\ Message("EventListen", id) \in ToServer
          <5>1. id \in Events /\ id \in DOMAIN request /\ id \in Ids
            BY <1>1, <1>3, <3>3
          <5>2. QED
            BY <5>1 DEF Asides, Message, ToServer
        <4>2. /\ toServer' = Append(toServer, Message("EventListen", id))
              /\ clientRequests' = clientRequests \cup {id}
          BY <3>3 DEF DoListen, SendRequest
        <4>3. QED
          <5>1. Continues(toServer, toServer', Asides)
            BY <3>1, <4>1, <4>2, OneMore
          <5>2. QED
            BY <1>3, <3>1, <4>2, <5>1
      <3>4. QED
        BY <1>7, <3>2, <3>3
    <2>2. TypeOK'
      BY <1>1, <1>2, <1>3, <1>7, <2>1 DEF TypeOK, Continues, server
    <2>3. handlers \subseteq DOMAIN request /\ UNCHANGED <<request, server, toClient>>
      BY <1>2 DEF IInv, Known
    <2>4. Known' /\ NoTwins' /\ OnePlace' /\ Truthful' /\ ActiveIsSubscribed' /\ HandlersAreAnswered'
      BY <1>2, <1>4, <1>7, <2>1, <2>3, QuietStep
    <2>5. QED
      BY <2>2, <2>4 DEF IInv
  <1>8. QED
    BY <1>6, <1>7 DEF WhenInitialized, id

-----------------------------------------------------------------------------
(* Answers *)

LEMMA OnResponseStep ==
    ASSUME IInv, OnResponse
    PROVE  IInv'
  <1>1. PICK response : response = Head(toClient)
    OBVIOUS
  <1>2. TypeOK /\ Calls \subseteq Ids /\ toClient \in Seq(ToClient) /\ toClient # <<>>
    BY Handed DEF IInv, TypeOK, OnResponse
  <1>3. /\ UNCHANGED <<isDisposed, request, waiting, listening, ended, listens, channels, flushes,
                       pendingRequests, timers, activeRequests, running, cancelled,
                       subscriptions, throws, result, collected, isConnected, toServer>>
        /\ ~isDisposed /\ toClient' = Tail(toClient)
    BY DEF OnResponse, server
  <1>4. /\ toClient' \in Seq(ToClient)
        /\ 1 \in DOMAIN toClient /\ response = toClient[1] /\ response \in ToClient
        /\ \A i \in DOMAIN toClient' : i + 1 \in DOMAIN toClient /\ toClient'[i] = toClient[i + 1]
        /\ \A i \in DOMAIN toClient :
              i = 1 \/ (i - 1 \in DOMAIN toClient' /\ toClient'[i - 1] = toClient[i])
    BY <1>1, <1>2, <1>3, Taking
  <1>5. \/ /\ response.type = "Initialize" /\ state' = "Idle"
           /\ UNCHANGED <<outcome, handlers, clientRequests>>
        \/ /\ response.type # "Initialize" /\ UNCHANGED state
           /\ handlers' = handlers \ {response.id}
           /\ \/ /\ outcome' = [outcome EXCEPT ![response.id] = response.type]
                 /\ clientRequests' = clientRequests \ {response.id}
                 /\ outcome[response.id] = "pending"
                 /\ response.id \in handlers
              \/ UNCHANGED <<outcome, clientRequests>>
    BY <1>1 DEF OnResponse
  <1>6. response.type # "Initialize" =>
            /\ response.id \in Ids
            /\ response.type \in {"PromiseSuccess", "PromiseError", "Unknown channel"}
    BY <1>4 DEF ToClient
  <1>7. /\ outcome' \in [Ids -> Outcomes]
        /\ \A i \in Ids : \/ outcome'[i] = outcome[i]
                           \/ /\ i = response.id /\ i \in handlers /\ outcome[i] = "pending"
                              /\ outcome'[i] = response.type /\ response.type # "Initialize"
    BY <1>2, <1>5, <1>6 DEF TypeOK, Outcomes
  <1>8. TypeOK'
    BY <1>2, <1>3, <1>4, <1>5, <1>7 DEF TypeOK
  <1>9. Calls' = Calls /\ Events' = Events
    BY <1>3 DEF Calls, Events
  <1>10. Known'
    <2>1. handlers' \subseteq DOMAIN request /\ clientRequests' \subseteq DOMAIN request
      BY <1>5 DEF IInv, Known
    <2>2. /\ \A i \in Ids \ DOMAIN request : outcome'[i] = "none"
          /\ \A i \in Calls : outcome'[i] # "none"
      <3>1. /\ \A i \in Ids \ DOMAIN request : outcome[i] = "none"
            /\ \A i \in Calls : outcome[i] # "none"
        BY DEF IInv, Known
      <3>2. QED
        BY <1>2, <1>6, <1>7, <3>1
    <2>3. QED
      BY <1>3, <1>9, <2>1, <2>2 DEF IInv, Known
  <1>11. NoTwins'
    BY <1>3, <1>9 DEF IInv, NoTwins
  <1>12. OnePlace'
    <2>1. ASSUME NEW i \in Calls
          PROVE  Waits(i)' = Waits(i) /\ Asked(i)' = Asked(i) /\ Pending(i)' = Pending(i)
      BY <1>3 DEF Waits, Asked, Pending
    <2>2. ASSUME NEW i \in Calls, Waits(i)
          PROVE  outcome'[i] = outcome[i] /\ i \notin handlers'
      BY <1>2, <1>5, <1>7, <2>2 DEF IInv, OnePlace
    <2>3. QED
      BY <1>2, <1>3, <1>6, <1>7, <1>9, <2>1, <2>2 DEF IInv, OnePlace
  <1>13. Truthful'
    <2>1. \A i \in DOMAIN toClient' :
            toClient'[i].type \in {"PromiseSuccess", "PromiseError"} =>
              toClient'[i].type \in result[toClient'[i].id].ends
      BY <1>4 DEF IInv, Truthful
    <2>2. \A i \in Ids : outcome'[i] \in {"PromiseSuccess", "PromiseError"} =>
                             outcome'[i] \in result[i].ends
      BY <1>4, <1>7 DEF IInv, Truthful
    <2>3. QED
      BY <1>3, <2>1, <2>2 DEF IInv, Truthful
  <1>14. ActiveIsSubscribed'
    BY <1>3, <1>9 DEF IInv, ActiveIsSubscribed
  <1>15. HandlersAreAnswered'
    <2>1. ASSUME NEW i \in handlers', i \in Calls, Answered(i)
          PROVE  Answered(i)'
      <3>1. PICK k \in DOMAIN toClient : toClient[k].type # "Initialize" /\ toClient[k].id = i
        BY <2>1 DEF Answered
      <3>2. k # 1
        BY <1>4, <1>5, <2>1, <3>1
      <3>3. k - 1 \in DOMAIN toClient' /\ toClient'[k - 1] = toClient[k]
        BY <1>4, <3>2
      <3>4. QED
        BY <3>1, <3>3 DEF Answered
    <2>2. handlers' \subseteq handlers
      BY <1>5
    <2>3. QED
      BY <1>3, <1>9, <2>1, <2>2 DEF IInv, HandlersAreAnswered, OnItsWay
  <1>16. QED
    BY <1>8, <1>10, <1>11, <1>12, <1>13, <1>14, <1>15 DEF IInv

-----------------------------------------------------------------------------
(* The server *)

LEMMA HandOverFacts ==
    ASSUME IInv, NEW ids \in Seq(Ids), HandOver(ids), UNCHANGED <<request, outcome, toClient>>,
           \A i \in DOMAIN ids : ids[i] \in DOMAIN request
    PROVE  /\ running' \subseteq Ids /\ activeRequests' \subseteq Ids
           /\ subscriptions' \in [Ids -> Nat] /\ result' \in [Ids -> Results]
           /\ \A id \in Calls : id \notin ToSet(ids) => result'[id] = result[id]
           /\ \A id \in Ids : result'[id].ends = result[id].ends
           /\ \A id \in Ids \ DOMAIN request : /\ result'[id] = result[id]
                                             /\ id \notin running' /\ id \notin activeRequests'
           /\ running \subseteq running' /\ ToSet(ids) \cap Calls \subseteq running'
           /\ Truthful' /\ ActiveIsSubscribed'
  <1>1. /\ TypeOK /\ Calls \subseteq Ids /\ Calls \cap Events = {} /\ Calls \subseteq DOMAIN request
        /\ DOMAIN request \subseteq Ids /\ Events \subseteq DOMAIN request
    BY Handed DEF IInv
  <1>2. \A id \in Ids : /\ Occurrences(id, ids) \in Nat
                        /\ id \in ToSet(ids) <=> Occurrences(id, ids) >= 1
    BY Counting
  <1>3. ToSet(ids) \subseteq DOMAIN request
    BY DEF ToSet
  <1>4. /\ running' = running \cup (ToSet(ids) \cap Calls)
        /\ activeRequests' = activeRequests \cup ToSet(ids)
    BY DEF HandOver
  <1>5. /\ subscriptions' \in [Ids -> Nat]
        /\ \A id \in Ids : subscriptions[id] \in Nat /\ subscriptions'[id] >= subscriptions[id]
        /\ \A id \in Events \cap ToSet(ids) : subscriptions'[id] >= 1
    <2>1. subscriptions \in [Ids -> Nat]
      BY <1>1 DEF TypeOK
    <2>2. subscriptions' = [id \in Ids |-> IF id \in Events
                             THEN subscriptions[id] + Occurrences(id, ids) ELSE subscriptions[id]]
      BY DEF HandOver
    <2>3. ASSUME NEW id \in Ids
          PROVE  /\ subscriptions'[id] \in Nat /\ subscriptions[id] \in Nat
                 /\ subscriptions'[id] >= subscriptions[id]
                 /\ id \in Events \cap ToSet(ids) => subscriptions'[id] >= 1
      <3>1. subscriptions[id] \in Nat /\ Occurrences(id, ids) \in Nat
        BY <1>2, <2>1
      <3>2. CASE id \in Events
        <4>1. subscriptions'[id] = subscriptions[id] + Occurrences(id, ids)
          BY <2>2, <3>2
        <4>2. id \in ToSet(ids) => Occurrences(id, ids) >= 1
          BY <1>2
        <4>3. QED
          BY <3>1, <4>1, <4>2
      <3>3. CASE id \notin Events
        BY <2>2, <3>1, <3>3
      <3>4. QED
        BY <3>2, <3>3
    <2>4. QED
      BY <1>1, <2>2, <2>3
  <1>6. /\ result' \in [Ids -> Results]
        /\ \A id \in Ids : /\ result'[id].ended = result[id].ended
                            /\ result'[id].ends = result[id].ends
                            /\ result'[id].calls >= result[id].calls
        /\ \A id \in Calls : id \notin ToSet(ids) => result'[id] = result[id]
        /\ \A id \in Calls \cap ToSet(ids) : result'[id].calls > result[id].calls
        /\ \A id \in Ids : id \notin Calls => result'[id] = result[id]
    <2>1. result \in [Ids -> Results]
      BY <1>1 DEF TypeOK
    <2>2. result' = [id \in Ids |-> IF id \in Calls
                      THEN [result[id] EXCEPT !.calls = @ + Occurrences(id, ids)]
                      ELSE result[id]]
      BY DEF HandOver
    <2>3. ASSUME NEW id \in Ids
          PROVE  /\ result'[id] \in Results
                 /\ result'[id].ended = result[id].ended /\ result'[id].ends = result[id].ends
                 /\ result'[id].calls >= result[id].calls
                 /\ id \in Calls /\ id \notin ToSet(ids) => result'[id] = result[id]
                 /\ id \in Calls /\ id \in ToSet(ids) => result'[id].calls > result[id].calls
                 /\ id \notin Calls => result'[id] = result[id]
      <3>1. /\ result[id] \in Results /\ result[id].calls \in Nat /\ Occurrences(id, ids) \in Nat
            /\ result[id] = [calls |-> result[id].calls, ended |-> result[id].ended,
                             ends |-> result[id].ends]
        BY <1>2, <2>1 DEF Results
      <3>2. CASE id \in Calls
        <4>1. result'[id] = [calls |-> result[id].calls + Occurrences(id, ids),
                             ended |-> result[id].ended, ends |-> result[id].ends]
          BY <2>2, <3>1, <3>2
        <4>2. /\ result'[id] \in Results /\ result'[id].ended = result[id].ended
              /\ result'[id].ends = result[id].ends
              /\ result'[id].calls >= result[id].calls
          BY <3>1, <4>1 DEF Results
        <4>3. CASE id \notin ToSet(ids)
          <5>1. Occurrences(id, ids) = 0
            BY <1>2, <3>1, <4>3
          <5>2. result[id].calls + Occurrences(id, ids) = result[id].calls
            BY <3>1, <5>1
          <5>3. QED
            BY <3>1, <3>2, <4>1, <4>2, <4>3, <5>2
        <4>4. CASE id \in ToSet(ids)
          <5>1. Occurrences(id, ids) >= 1
            BY <1>2, <4>4
          <5>2. result'[id].calls > result[id].calls
            BY <3>1, <4>1, <5>1
          <5>3. QED
            BY <3>2, <4>2, <4>4, <5>2
        <4>5. QED
          BY <4>3, <4>4
      <3>3. CASE id \notin Calls
        BY <2>2, <3>1, <3>3
      <3>4. QED
        BY <3>2, <3>3
    <2>4. QED
      BY <1>1, <2>2, <2>3
  <1>7. Truthful'
    <2>1. ASSUME NEW id \in Ids
          PROVE  /\ result'[id].ended <= result'[id].calls
                 /\ id \in running' => result'[id].ended < result'[id].calls
      <3>1. /\ result[id].ended <= result[id].calls
            /\ id \in running => result[id].ended < result[id].calls
            /\ result[id].ended \in Nat /\ result[id].calls \in Nat /\ result'[id].calls \in Nat
        BY <1>1, <1>6 DEF IInv, Truthful, TypeOK, Results
      <3>2. /\ result'[id].ended = result[id].ended /\ result'[id].calls >= result[id].calls
            /\ id \in running' \ running => result'[id].calls > result[id].calls
        BY <1>4, <1>6
      <3>3. QED
        BY <3>1, <3>2
    <2>2. \A i \in DOMAIN toClient : toClient[i].type \in {"PromiseSuccess", "PromiseError"} =>
            toClient[i].id \in Ids
      <3>1. TAKE i \in DOMAIN toClient
      <3>2. HAVE toClient[i].type \in {"PromiseSuccess", "PromiseError"}
      <3>3. toClient[i] \in ToClient
        BY <1>1 DEF TypeOK
      <3>4. QED
        BY <3>2, <3>3 DEF ToClient
    <2>3. QED
      BY <1>6, <2>1, <2>2 DEF IInv, Truthful
  <1>8. ActiveIsSubscribed'
    <2>1. Events' = Events
      BY DEF Events
    <2>2. ASSUME NEW id \in activeRequests' \cap Events
          PROVE  subscriptions'[id] >= 1
      <3>1. CASE id \in ToSet(ids)
        BY <1>5, <3>1
      <3>2. CASE id \in activeRequests
        <4>1. subscriptions[id] >= 1 /\ subscriptions[id] \in Nat
              /\ subscriptions'[id] >= subscriptions[id] /\ subscriptions'[id] \in Nat
          BY <1>1, <1>5, <3>2 DEF IInv, ActiveIsSubscribed
        <4>2. QED
          BY <4>1
      <3>3. QED
        BY <1>4, <3>1, <3>2
    <2>3. QED
      BY <2>1, <2>2 DEF ActiveIsSubscribed
  <1>9. running' \subseteq Ids /\ activeRequests' \subseteq Ids
    BY <1>1, <1>3, <1>4 DEF TypeOK
  <1>10. \A id \in Ids \ DOMAIN request : /\ result'[id] = result[id]
                                         /\ id \notin running' /\ id \notin activeRequests'
    BY <1>1, <1>3, <1>4, <1>6 DEF IInv, Known
  <1>11. QED
    BY <1>4, <1>5, <1>6, <1>7, <1>8, <1>9, <1>10

\* What is read leaves the wire, and nothing else does.
LEMMA Reading ==
    ASSUME IInv, toServer # <<>>, toServer' = Tail(toServer), UNCHANGED request,
           NEW message, message = Head(toServer)
    PROVE  /\ toServer' \in Seq(ToServer)
           /\ message \in ToServer /\ message.id \in DOMAIN request /\ message.id \in Ids
           /\ message.type = "Promise" => message.id \in Calls /\ Asked(message.id)
           /\ message.type = "EventListen" => message.id \in Events
           /\ \A i \in DOMAIN toServer' :
                 /\ toServer'[i].id \in DOMAIN request
                 /\ toServer'[i].type = "Promise" => toServer'[i].id \in Calls
                 /\ toServer'[i].type = "EventListen" => toServer'[i].id \in Events
           /\ \A i, j \in DOMAIN toServer' :
                 /\ toServer'[i].type = "Promise" /\ toServer'[j].type = "Promise"
                 /\ toServer'[i].id = toServer'[j].id
                 => i = j
           /\ \A id \in Ids : Asked(id)' => Asked(id)
           /\ message.type = "Promise" => ~ \E i \in DOMAIN toServer' :
                 toServer'[i].type = "Promise" /\ toServer'[i].id = message.id
           /\ \A id \in Ids : OnItsWay("Promise", id) =>
                 OnItsWay("Promise", id)' \/ (message.type = "Promise" /\ message.id = id)
  <1>1. TypeOK /\ toServer \in Seq(ToServer) /\ DOMAIN request \subseteq Ids
    BY Handed DEF IInv, TypeOK
  <1>2. /\ toServer' \in Seq(ToServer)
        /\ 1 \in DOMAIN toServer /\ message = toServer[1] /\ message \in ToServer
        /\ \A i \in DOMAIN toServer' :
              i \in Nat /\ i + 1 \in DOMAIN toServer /\ i + 1 # 1 /\ toServer'[i] = toServer[i + 1]
        /\ \A i \in DOMAIN toServer :
              i = 1 \/ (i - 1 \in DOMAIN toServer' /\ toServer'[i - 1] = toServer[i])
        /\ \A i, j \in DOMAIN toServer' : i + 1 = j + 1 => i = j
    BY <1>1, Taking
  <1>3. /\ message.id \in DOMAIN request /\ message.id \in Ids
        /\ message.type = "Promise" => message.id \in Calls /\ Asked(message.id)
        /\ message.type = "EventListen" => message.id \in Events
        /\ \A i \in DOMAIN toServer' :
              /\ toServer'[i].id \in DOMAIN request
              /\ toServer'[i].type = "Promise" => toServer'[i].id \in Calls
              /\ toServer'[i].type = "EventListen" => toServer'[i].id \in Events
    BY <1>1, <1>2 DEF IInv, Known, Asked
  <1>4. \A i, j \in DOMAIN toServer' :
            /\ toServer'[i].type = "Promise" /\ toServer'[j].type = "Promise"
            /\ toServer'[i].id = toServer'[j].id
            => i = j
    BY <1>2 DEF IInv, NoTwins
  <1>5. \A id \in Ids : Asked(id)' => Asked(id)
    BY <1>2 DEF Asked
  <1>6. message.type = "Promise" => ~ \E i \in DOMAIN toServer' :
            toServer'[i].type = "Promise" /\ toServer'[i].id = message.id
    BY <1>2 DEF IInv, NoTwins
  <1>7. ASSUME NEW id \in Ids, OnItsWay("Promise", id)
        PROVE  OnItsWay("Promise", id)' \/ (message.type = "Promise" /\ message.id = id)
    <2>1. PICK k \in DOMAIN toServer : toServer[k] = Message("Promise", id)
      BY <1>7 DEF OnItsWay, ToSet
    <2>2. CASE k = 1
      BY <1>2, <2>1, <2>2 DEF Message
    <2>3. CASE k # 1
      <3>1. k - 1 \in DOMAIN toServer' /\ toServer'[k - 1] = Message("Promise", id)
        BY <1>2, <2>1, <2>3
      <3>2. QED
        BY <3>1 DEF OnItsWay, ToSet, Message
    <2>4. QED
      BY <2>2, <2>3
  <1>8. QED
    BY <1>2, <1>3, <1>4, <1>5, <1>6, <1>7

\* What throws is counted.
LEMMA Throwing ==
    ASSUME TypeOK, NEW e, Throws(e)
    PROVE  /\ throws' \in [Ids -> 0 .. MaxThrow] /\ e \in Events /\ throws'[e] > 0
           /\ \A i \in Ids : throws[i] > 0 => throws'[i] > 0
           /\ \A i \in Ids : i # e => throws'[i] = throws[i]
  <1>1. /\ e \in Ids /\ e \in Events /\ throws \in [Ids -> 0 .. MaxThrow] /\ MaxThrow \in Nat
        /\ throws[e] < MaxThrow /\ throws' = [throws EXCEPT ![e] = throws[e] + 1]
    BY Handed, BoundsAssumption DEF Throws, TypeOK
  <1>2. throws[e] + 1 \in 0 .. MaxThrow /\ throws[e] + 1 > 0
    BY <1>1
  <1>3. QED
    BY <1>1, <1>2

LEMMA OnRequestStep ==
    ASSUME IInv, OnRequest
    PROVE  IInv'
  <1>1. PICK message : message = Head(toServer)
    OBVIOUS
  <1>2. PICK id : id = message.id
    OBVIOUS
  <1>3. /\ toServer # <<>> /\ toServer' = Tail(toServer)
        /\ UNCHANGED <<state, isDisposed, request, outcome, waiting, handlers, clientRequests,
                       listening, ended, listens, channels, flushes, isConnected, toClient>>
    BY DEF OnRequest, client
  <1>4. /\ toServer' \in Seq(ToServer)
        /\ id \in DOMAIN request /\ id \in Ids /\ message.type \in
              {"Promise", "PromiseCancel", "EventListen", "EventDispose"}
        /\ message.type = "Promise" => id \in Calls /\ Asked(id)
        /\ message.type = "EventListen" => id \in Events
        /\ \A i \in DOMAIN toServer' :
              /\ toServer'[i].id \in DOMAIN request
              /\ toServer'[i].type = "Promise" => toServer'[i].id \in Calls
              /\ toServer'[i].type = "EventListen" => toServer'[i].id \in Events
        /\ \A i, j \in DOMAIN toServer' :
              /\ toServer'[i].type = "Promise" /\ toServer'[j].type = "Promise"
              /\ toServer'[i].id = toServer'[j].id
              => i = j
        /\ \A i \in Ids : Asked(i)' => Asked(i)
        /\ message.type = "Promise" => ~Asked(id)'
        /\ \A i \in Ids : OnItsWay("Promise", i) =>
              OnItsWay("Promise", i)' \/ (message.type = "Promise" /\ i = id)
    BY <1>1, <1>2, <1>3, Reading, ZenonT(40) DEF ToServer, Asked
  <1>5. /\ TypeOK /\ Calls' = Calls /\ Events' = Events /\ Calls \subseteq Ids
        /\ Calls \cap Events = {} /\ DOMAIN request \subseteq Ids
        /\ \A i \in DOMAIN request : request[i].channel \in Channel
    BY <1>3, Handed DEF IInv, Calls, Events
  <1>6. CASE /\ message.type \in {"Promise", "EventListen"}
             /\ HandOver(<<id>>)
             /\ UNCHANGED <<pendingRequests, timers, cancelled, throws, collected>>
    <2>1. PICK ids : ids = <<id>>
      OBVIOUS
    <2>2. /\ ids \in Seq(Ids) /\ DOMAIN ids = {1} /\ ids[1] = id /\ ToSet(ids) = {id}
          /\ HandOver(ids)
      BY <1>4, <1>6, <2>1 DEF ToSet
    <2>3. id \in Calls => result[id].calls = 0 /\ message.type = "Promise" /\ ~Pending(id)
      BY <1>4, <1>5, <1>6 DEF IInv, OnePlace
    <2>4. /\ running' \subseteq Ids /\ activeRequests' \subseteq Ids
          /\ subscriptions' \in [Ids -> Nat] /\ result' \in [Ids -> Results]
          /\ \A i \in Calls : i # id => result'[i] = result[i]
          /\ \A i \in Ids : result'[i].ends = result[i].ends
          /\ \A i \in Ids \ DOMAIN request : /\ result'[i] = result[i]
                                           /\ i \notin running' /\ i \notin activeRequests'
          /\ running \subseteq running' /\ {id} \cap Calls \subseteq running'
          /\ Truthful' /\ ActiveIsSubscribed'
      <3>1. \A i \in DOMAIN ids : ids[i] \in DOMAIN request
        BY <1>4, <2>2
      <3>2. UNCHANGED <<request, outcome, toClient>>
        BY <1>3
      <3>3. QED
        BY <2>2, <3>1, <3>2, HandOverFacts
    <2>5. TypeOK'
      BY <1>3, <1>4, <1>5, <1>6, <2>4 DEF TypeOK
    <2>6. Known'
      <3>1. \A i \in Ids \ DOMAIN request :
              result'[i] = result[i] /\ i \notin running' /\ i \notin activeRequests'
        BY <2>4
      <3>2. QED
        BY <1>3, <1>4, <1>5, <1>6, <3>1 DEF IInv, Known
    <2>7. NoTwins'
      BY <1>3, <1>4, <1>5, <1>6 DEF IInv, NoTwins
    <2>8. OnePlace'
      <3>1. ASSUME NEW i \in Calls
            PROVE  Waits(i)' = Waits(i) /\ Pending(i)' = Pending(i)
        BY <1>3, <1>6 DEF Waits, Pending
      <3>2. id \in Calls => ~Asked(id)' /\ ~Pending(id)' /\ ~Waits(id)' /\ outcome[id] # "not sent"
        BY <1>4, <2>3, <3>1 DEF IInv, OnePlace
      <3>3. QED
        BY <1>3, <1>4, <1>5, <2>4, <3>1, <3>2, ZenonT(30) DEF IInv, OnePlace
    <2>9. HandlersAreAnswered'
      BY <1>3, <1>4, <1>5, <1>6, <2>4 DEF IInv, HandlersAreAnswered, Answered
    <2>10. QED
      BY <2>4, <2>5, <2>6, <2>7, <2>8, <2>9 DEF IInv
  <1>7. CASE /\ message.type \in {"Promise", "EventListen"}
             /\ CollectPendingRequest(id)
             /\ UNCHANGED <<activeRequests, running, cancelled, subscriptions, throws, result>>
    <2>1. PICK d : d = request[id].channel
      OBVIOUS
    <2>2. d \in Channel
      BY <1>4, <1>5, <2>1
    <2>3. /\ pendingRequests' = [pendingRequests EXCEPT ![d] = Append(@, id)]
          /\ timers' = timers \cup ({id} \cap Calls)
          /\ collected' = collected \cup {id}
      BY <1>7, <2>1 DEF CollectPendingRequest
    <2>4. /\ pendingRequests' \in [Channel -> Seq(Ids)]
          /\ \A c \in Channel : c # d => pendingRequests'[c] = pendingRequests[c]
          /\ \A i \in DOMAIN pendingRequests'[d] :
                \/ i \in DOMAIN pendingRequests[d] /\ pendingRequests'[d][i] = pendingRequests[d][i]
                \/ /\ i = Len(pendingRequests[d]) + 1 /\ i \notin DOMAIN pendingRequests[d]
                   /\ pendingRequests'[d][i] = id
      <3>1. pendingRequests \in [Channel -> Seq(Ids)] /\ pendingRequests[d] \in Seq(Ids)
        BY <1>5, <2>2 DEF TypeOK
      <3>2. pendingRequests'[d] = Append(pendingRequests[d], id)
        BY <2>2, <2>3, <3>1
      <3>3. /\ Append(pendingRequests[d], id) \in Seq(Ids)
            /\ \A i \in DOMAIN Append(pendingRequests[d], id) :
                  \/ /\ i \in DOMAIN pendingRequests[d]
                     /\ Append(pendingRequests[d], id)[i] = pendingRequests[d][i]
                  \/ /\ i = Len(pendingRequests[d]) + 1 /\ i \notin DOMAIN pendingRequests[d]
                     /\ Append(pendingRequests[d], id)[i] = id
        BY <1>4, <3>1, Appending
      <3>4. QED
        BY <2>2, <2>3, <3>1, <3>2, <3>3
    <2>5. TypeOK'
      BY <1>3, <1>4, <1>5, <1>7, <2>3, <2>4, SMTT(30) DEF TypeOK
    <2>6. Known'
      <3>1. \A c \in Channel : \A i \in DOMAIN pendingRequests'[c] :
              /\ pendingRequests'[c][i] \in DOMAIN request
              /\ request[pendingRequests'[c][i]].channel = c
        BY <1>4, <2>1, <2>4 DEF IInv, Known
      <3>2. QED
        BY <1>3, <1>4, <1>5, <1>7, <3>1 DEF IInv, Known
    <2>7. id \in Calls => /\ ~Pending(id) /\ message.type = "Promise"
                          /\ result[id].calls = 0 /\ ~Waits(id) /\ outcome[id] # "not sent"
      BY <1>4, <1>5, <1>7 DEF IInv, OnePlace
    <2>8. NoTwins'
      <3>1. ASSUME NEW c \in Channel, NEW i \in DOMAIN pendingRequests'[c],
                   NEW j \in DOMAIN pendingRequests'[c],
                   pendingRequests'[c][i] = pendingRequests'[c][j],
                   pendingRequests'[c][i] \in Calls
            PROVE  i = j
        <4>1. CASE c # d
          BY <2>4, <3>1, <4>1 DEF IInv, NoTwins
        <4>2. CASE c = d
          <5>1. id \in Calls => \A k \in DOMAIN pendingRequests[d] : pendingRequests[d][k] # id
            BY <2>2, <2>7 DEF Pending
          <5>2. CASE i \in DOMAIN pendingRequests[d] /\ j \in DOMAIN pendingRequests[d]
            BY <2>2, <2>4, <3>1, <4>2, <5>2 DEF IInv, NoTwins
          <5>3. CASE i \notin DOMAIN pendingRequests[d] \/ j \notin DOMAIN pendingRequests[d]
            BY <2>4, <3>1, <4>2, <5>1, <5>3
          <5>4. QED
            BY <5>2, <5>3
        <4>3. QED
          BY <4>1, <4>2
      <3>2. QED
        BY <1>3, <1>4, <1>5, <3>1 DEF IInv, NoTwins
    <2>9. OnePlace'
      <3>1. ASSUME NEW i \in Calls
            PROVE  Waits(i)' = Waits(i) /\ (Pending(i)' => Pending(i) \/ i = id)
        <4>1. Waits(i)' = Waits(i)
          BY <1>3 DEF Waits
        <4>2. Pending(i)' => Pending(i) \/ i = id
          BY <2>2, <2>4 DEF Pending
        <4>3. QED
          BY <4>1, <4>2
      <3>2. QED
        BY <1>3, <1>4, <1>5, <1>7, <2>7, <3>1 DEF IInv, OnePlace
    <2>10. Truthful' /\ ActiveIsSubscribed'
      BY <1>3, <1>5, <1>7 DEF IInv, Truthful, ActiveIsSubscribed
    <2>11. HandlersAreAnswered'
      BY <1>3, <1>4, <1>5, <1>7, <2>3 DEF IInv, HandlersAreAnswered, Answered
    <2>12. QED
      BY <2>5, <2>6, <2>8, <2>9, <2>10, <2>11 DEF IInv
  <1>8. CASE /\ message.type \in {"PromiseCancel", "EventDispose"}
             /\ DisposeActiveRequest(id)
             /\ UNCHANGED <<pendingRequests, timers, running, throws, result, collected>>
    <2>1. /\ cancelled' = cancelled \cup ({id} \cap activeRequests \cap Calls)
          /\ activeRequests' = activeRequests \ {id}
      BY <1>8 DEF DisposeActiveRequest
    <2>2. /\ subscriptions' \in [Ids -> Nat]
          /\ \A i \in Ids : i # id => subscriptions'[i] = subscriptions[i]
      <3>1. subscriptions \in [Ids -> Nat]
        BY <1>5 DEF TypeOK
      <3>2. CASE id \in activeRequests \cap Events
        <4>1. subscriptions' = [subscriptions EXCEPT ![id] = subscriptions[id] - 1]
          BY <1>8, <3>2 DEF DisposeActiveRequest
        <4>2. subscriptions[id] \in Nat /\ subscriptions[id] >= 1
          BY <1>4, <3>1, <3>2 DEF IInv, ActiveIsSubscribed
        <4>3. subscriptions[id] - 1 \in Nat
          BY <4>2
        <4>4. QED
          BY <3>1, <4>1, <4>3
      <3>3. CASE id \notin activeRequests \cap Events
        BY <1>8, <3>1, <3>3 DEF DisposeActiveRequest
      <3>4. QED
        BY <3>2, <3>3
    <2>3. TypeOK'
      BY <1>3, <1>4, <1>5, <1>8, <2>1, <2>2 DEF TypeOK
    <2>4. Known'
      BY <1>3, <1>4, <1>5, <1>8, <2>1 DEF IInv, Known
    <2>5. NoTwins' /\ Truthful'
      BY <1>3, <1>4, <1>5, <1>8 DEF IInv, NoTwins, Truthful
    <2>6. OnePlace'
      <3>1. ASSUME NEW i \in Calls
            PROVE  Waits(i)' = Waits(i) /\ Pending(i)' = Pending(i)
        BY <1>3, <1>8 DEF Waits, Pending
      <3>2. QED
        BY <1>3, <1>4, <1>5, <1>8, <3>1 DEF IInv, OnePlace
    <2>7. ActiveIsSubscribed'
      BY <1>5, <2>1, <2>2 DEF IInv, ActiveIsSubscribed, TypeOK
    <2>8. HandlersAreAnswered'
      BY <1>3, <1>4, <1>5, <1>8 DEF IInv, HandlersAreAnswered, Answered
    <2>9. QED
      BY <2>3, <2>4, <2>5, <2>6, <2>7, <2>8 DEF IInv
  <1>9. CASE /\ Throws(id)
             /\ UNCHANGED <<pendingRequests, timers, activeRequests, running, cancelled,
                            subscriptions, result, collected>>
             /\ message.type = "EventListen"
    <2>1. TypeOK'
      BY <1>3, <1>4, <1>5, <1>9, Throwing DEF TypeOK
    <2>2. Known'
      BY <1>3, <1>4, <1>5, <1>9 DEF IInv, Known
    <2>3. NoTwins' /\ Truthful' /\ ActiveIsSubscribed'
      BY <1>3, <1>4, <1>5, <1>9 DEF IInv, NoTwins, Truthful, ActiveIsSubscribed
    <2>4. OnePlace'
      <3>1. ASSUME NEW i \in Calls
            PROVE  Waits(i)' = Waits(i) /\ Pending(i)' = Pending(i)
        BY <1>3, <1>9 DEF Waits, Pending
      <3>2. QED
        BY <1>3, <1>4, <1>5, <1>9, <3>1 DEF IInv, OnePlace
    <2>5. HandlersAreAnswered'
      BY <1>3, <1>4, <1>5, <1>9 DEF IInv, HandlersAreAnswered, Answered
    <2>6. QED
      BY <2>1, <2>2, <2>3, <2>4, <2>5 DEF IInv
  <1>10. QED
    BY <1>1, <1>2, <1>6, <1>7, <1>8, <1>9 DEF OnRequest

\* An answer of the server, and what the answers say then.
LEMMA Answering ==
    ASSUME IInv, NEW id \in Ids, NEW type \in {"PromiseSuccess", "PromiseError", "Unknown channel"},
           SendResponse(type, id)
    PROVE  /\ toClient' \in Seq(ToClient)
           /\ \A i \in DOMAIN toClient' :
                 \/ i \in DOMAIN toClient /\ toClient'[i] = toClient[i]
                 \/ toClient'[i].type = type /\ toClient'[i].id = id
           /\ \A i \in Ids : Answered(i) => Answered(i)'
           /\ Answered(id)'
  <1>0. PICK answer : answer = Message(type, id)
    OBVIOUS
  <1>1. /\ toClient \in Seq(ToClient)
        /\ answer \in ToClient /\ answer.type = type /\ answer.id = id
    <2>1. toClient \in Seq(ToClient)
      BY DEF IInv, TypeOK
    <2>2. answer \in
            [type : {"PromiseSuccess", "PromiseError", "Unknown channel"}, id : Ids]
      BY <1>0 DEF Message
    <2>3. QED
      BY <1>0, <2>1, <2>2 DEF ToClient, Message
  <1>2. toClient' = Append(toClient, answer)
    BY <1>0 DEF SendResponse
  <1>3. /\ toClient' \in Seq(ToClient)
        /\ DOMAIN toClient \subseteq DOMAIN toClient'
        /\ Len(toClient) + 1 \in DOMAIN toClient'
        /\ toClient'[Len(toClient) + 1] = answer
        /\ \A i \in DOMAIN toClient' :
              \/ i \in DOMAIN toClient /\ toClient'[i] = toClient[i]
              \/ /\ i = Len(toClient) + 1 /\ i \notin DOMAIN toClient
                 /\ toClient'[i] = answer
    <2>1. toClient \in Seq(ToClient) /\ answer \in ToClient
      BY <1>1
    <2>2. PICK u : u = Append(toClient, answer)
      OBVIOUS
    <2>3. /\ u \in Seq(ToClient) /\ DOMAIN toClient \subseteq DOMAIN u
          /\ Len(toClient) + 1 \in DOMAIN u /\ u[Len(toClient) + 1] = answer
      BY <2>1, <2>2, Appending
    <2>4. \A i \in DOMAIN u :
              \/ i \in DOMAIN toClient /\ u[i] = toClient[i]
              \/ i = Len(toClient) + 1 /\ i \notin DOMAIN toClient /\ u[i] = answer
      <3>1. \A i \in DOMAIN Append(toClient, answer) :
                \/ i \in DOMAIN toClient /\ Append(toClient, answer)[i] = toClient[i]
                \/ /\ i = Len(toClient) + 1 /\ i \notin DOMAIN toClient
                   /\ Append(toClient, answer)[i] = answer
        BY <2>1, Appending, Zenon
      <3>2. QED
        BY <2>2, <3>1, Zenon
    <2>5. QED
      BY <1>2, <2>2, <2>3, <2>4
  <1>4. \A i \in DOMAIN toClient : toClient'[i] = toClient[i]
    BY <1>3
  <1>5. \A i \in Ids : Answered(i) => Answered(i)'
    BY <1>3, <1>4 DEF Answered
  <1>6. Answered(id)'
    BY <1>1, <1>3 DEF Answered
  <1>7. QED
    BY <1>1, <1>3, <1>5, <1>6

\* One more end of a call's service.
LEMMA EndingOf ==
    ASSUME TypeOK, NEW id \in Ids, NEW end \in {"PromiseSuccess", "PromiseError", "unsent"},
           result' = [result EXCEPT ![id].ended = @ + 1, ![id].ends = @ \cup {end}]
    PROVE  /\ result' \in [Ids -> Results]
           /\ result'[id].ends = result[id].ends \cup {end}
           /\ result'[id].ended = result[id].ended + 1
           /\ \A i \in Ids : result'[i].calls = result[i].calls
           /\ \A i \in Ids : i # id => result'[i] = result[i]
           /\ \A i \in Ids : result[i].ends \subseteq result'[i].ends
  <1>0. result \in [Ids -> Results] /\ result[id] \in Results
    BY DEF TypeOK
  <1>1. result[id] = [calls |-> result[id].calls, ended |-> result[id].ended,
                        ends |-> result[id].ends]
    BY <1>0 DEF Results
  <1>2. /\ DOMAIN result' = Ids
        /\ \A i \in Ids : i # id => result'[i] = result[i]
    BY <1>0
  <1>3. result'[id] = [result[id] EXCEPT !.ended = @ + 1, !.ends = @ \cup {end}]
    BY <1>0
  <1>4. result'[id] = [calls |-> result[id].calls, ended |-> result[id].ended + 1,
                       ends |-> result[id].ends \cup {end}]
    BY <1>1, <1>3
  <1>5. result'[id] \in Results
    BY <1>0, <1>4 DEF Results
  <1>6. result' \in [Ids -> Results]
    BY <1>0, <1>2, <1>5
  <1>7. QED
    BY <1>0, <1>2, <1>4, <1>6

LEMMA ServiceEndsStep ==
    ASSUME IInv, NEW id \in Ids, ServiceEnds(id)
    PROVE  IInv'
  <1>1. /\ UNCHANGED <<state, isDisposed, request, outcome, waiting, handlers, clientRequests,
                       listening, ended, listens, channels, flushes, pendingRequests, timers,
                       cancelled, subscriptions, throws, collected, isConnected, toServer>>
        /\ id \in running
        /\ running' = IF result[id].ended + 1 = result[id].calls
                      THEN running \ {id} ELSE running
        /\ activeRequests' = activeRequests \ {id}
    BY DEF ServiceEnds, client
  <1>2. PICK end \in {"PromiseSuccess", "PromiseError", "unsent"} :
           /\ result' = [result EXCEPT ![id].ended = @ + 1, ![id].ends = @ \cup {end}]
           /\ \/ end # "unsent" /\ SendResponse(end, id)
              \/ end = "unsent" /\ UNCHANGED toClient
    <2>1. CASE \E e \in {"PromiseSuccess", "PromiseError"} : EndsAs(id, e) /\ SendResponse(e, id)
      <3>1. PICK e \in {"PromiseSuccess", "PromiseError"} : EndsAs(id, e) /\ SendResponse(e, id)
        BY <2>1
      <3>2. QED
        BY <3>1 DEF EndsAs
    <2>2. CASE EndsAs(id, "unsent") /\ UNCHANGED toClient
      BY <2>2 DEF EndsAs
    <2>3. QED
      BY <2>1, <2>2 DEF ServiceEnds
  <1>3. TypeOK /\ Calls' = Calls /\ Events' = Events /\ Calls \subseteq Ids
    BY <1>1, Handed DEF IInv, Calls, Events
  <1>4. /\ result' \in [Ids -> Results]
        /\ result'[id].ends = result[id].ends \cup {end}
        /\ result'[id].ended = result[id].ended + 1
        /\ \A i \in Ids : result'[i].calls = result[i].calls
        /\ \A i \in Ids : i # id => result'[i] = result[i]
        /\ \A i \in Ids : result[i].ends \subseteq result'[i].ends
    BY <1>2, <1>3, EndingOf
  <1>5. /\ toClient' \in Seq(ToClient)
        /\ \A i \in DOMAIN toClient' :
              \/ i \in DOMAIN toClient /\ toClient'[i] = toClient[i]
              \/ toClient'[i].type = end /\ toClient'[i].id = id
        /\ \A i \in Ids : Answered(i) => Answered(i)'
        /\ Answered(id)' \/ end = "unsent"
    <2>1. CASE end # "unsent" /\ SendResponse(end, id)
      <3>1. end \in {"PromiseSuccess", "PromiseError", "Unknown channel"}
        BY <2>1
      <3>2. QED
        BY <2>1, <3>1, Answering, ZenonT(40)
    <2>2. CASE end = "unsent" /\ UNCHANGED toClient
      BY <1>3, <2>2 DEF TypeOK, Answered
    <2>3. QED
      BY <1>2, <2>1, <2>2
  <1>6. TypeOK'
    BY <1>1, <1>3, <1>4, <1>5 DEF TypeOK
  <1>7. Known'
    BY <1>1, <1>3, <1>4 DEF IInv, Known
  <1>8. NoTwins' /\ ActiveIsSubscribed'
    BY <1>1, <1>3 DEF IInv, NoTwins, ActiveIsSubscribed
  <1>9. OnePlace'
    <2>1. ASSUME NEW i \in Calls
          PROVE  Waits(i)' = Waits(i) /\ Asked(i)' = Asked(i) /\ Pending(i)' = Pending(i)
      BY <1>1 DEF Waits, Asked, Pending
    <2>2. QED
      BY <1>1, <1>3, <1>4, <2>1 DEF IInv, OnePlace
  <1>10. Truthful'
    <2>1. ASSUME NEW i \in Ids
          PROVE  /\ result'[i].ended <= result'[i].calls
                 /\ i \in running' => result'[i].ended < result'[i].calls
                 /\ result'[i].ended = 0 => result'[i].ends = {}
      <3>1. /\ result[i].ended <= result[i].calls
            /\ i \in running => result[i].ended < result[i].calls
            /\ result[i].ended = 0 => result[i].ends = {}
            /\ result[i].ended \in Nat /\ result[i].calls \in Nat
        BY <1>3 DEF IInv, Truthful, TypeOK, Results
      <3>2. CASE i = id
        <4>1. /\ result'[i].ended = result[i].ended + 1 /\ result'[i].calls = result[i].calls
              /\ result[i].ended < result[i].calls
          BY <1>1, <1>4, <3>1, <3>2
        <4>2. i \in running' => result[i].ended + 1 # result[i].calls
          BY <1>1, <3>2
        <4>3. QED
          BY <3>1, <4>1, <4>2
      <3>3. CASE i # id
        BY <1>1, <1>4, <3>1, <3>3
      <3>4. QED
        BY <3>2, <3>3
    <2>2. \A i \in Ids : outcome'[i] \in {"PromiseSuccess", "PromiseError"} =>
                             outcome'[i] \in result'[i].ends
      BY <1>1, <1>4 DEF IInv, Truthful
    <2>3. ASSUME NEW i \in DOMAIN toClient',
                 toClient'[i].type \in {"PromiseSuccess", "PromiseError"}
          PROVE  toClient'[i].type \in result'[toClient'[i].id].ends
      <3>1. CASE i \in DOMAIN toClient /\ toClient'[i] = toClient[i]
        <4>1. toClient[i] \in ToClient /\ toClient[i].type \in {"PromiseSuccess", "PromiseError"}
          BY <1>3, <2>3, <3>1 DEF TypeOK
        <4>2. toClient[i].id \in Ids
          BY <4>1 DEF ToClient
        <4>3. toClient[i].type \in result[toClient[i].id].ends
          BY <3>1, <4>1 DEF IInv, Truthful
        <4>4. QED
          BY <1>4, <3>1, <4>2, <4>3
      <3>2. CASE toClient'[i].type = end /\ toClient'[i].id = id
        BY <1>4, <3>2
      <3>3. QED
        BY <1>5, <3>1, <3>2
    <2>4. QED
      BY <2>1, <2>2, <2>3 DEF Truthful
  <1>11. HandlersAreAnswered'
    <2>1. \A i \in running : i \in running' \/ i = id
      BY <1>1
    <2>2. Answered(id)' \/ "unsent" \in result'[id].ends
      BY <1>4, <1>5
    <2>3. QED
      BY <1>1, <1>3, <1>4, <1>5, <2>1, <2>2 DEF IInv, HandlersAreAnswered, OnItsWay
  <1>12. QED
    BY <1>6, <1>7, <1>8, <1>9, <1>10, <1>11 DEF IInv

LEMMA TimesOutStep ==
    ASSUME IInv, NEW id \in Ids, TimesOut(id)
    PROVE  IInv'
  <1>1. /\ UNCHANGED <<state, isDisposed, request, outcome, waiting, handlers, clientRequests,
                       listening, ended, listens, channels, flushes, pendingRequests, activeRequests,
                       running, cancelled, subscriptions, throws, result, collected, isConnected,
                       toServer>>
        /\ timers' = timers \ {id}
        /\ SendResponse("Unknown channel", id)
    BY DEF TimesOut, client
  <1>2. TypeOK /\ Calls' = Calls /\ Events' = Events /\ Calls \subseteq Ids
    BY <1>1, Handed DEF IInv, Calls, Events
  <1>3. /\ toClient' \in Seq(ToClient)
        /\ \A i \in DOMAIN toClient' :
              \/ i \in DOMAIN toClient /\ toClient'[i] = toClient[i]
              \/ toClient'[i].type = "Unknown channel" /\ toClient'[i].id = id
        /\ \A i \in Ids : Answered(i) => Answered(i)'
        /\ Answered(id)'
    BY <1>1, Answering
  <1>4. TypeOK'
    BY <1>1, <1>2, <1>3 DEF TypeOK
  <1>5. Known' /\ NoTwins' /\ ActiveIsSubscribed'
    BY <1>1, <1>2 DEF IInv, Known, NoTwins, ActiveIsSubscribed
  <1>6. OnePlace'
    <2>1. ASSUME NEW i \in Calls
          PROVE  Waits(i)' = Waits(i) /\ Asked(i)' = Asked(i) /\ Pending(i)' = Pending(i)
      BY <1>1 DEF Waits, Asked, Pending
    <2>2. QED
      BY <1>1, <1>2, <2>1 DEF IInv, OnePlace
  <1>7. Truthful'
    BY <1>1, <1>3 DEF IInv, Truthful
  <1>8. HandlersAreAnswered'
    BY <1>1, <1>2, <1>3 DEF IInv, HandlersAreAnswered, OnItsWay
  <1>9. QED
    BY <1>4, <1>5, <1>6, <1>7, <1>8 DEF IInv

LEMMA FlushAllStep ==
    ASSUME IInv, NEW c \in Channel, FlushPendingRequests(c), UNCHANGED throws
    PROVE  IInv'
  <1>1. PICK ids : ids = pendingRequests[c]
    OBVIOUS
  <1>2. /\ UNCHANGED <<state, isDisposed, request, outcome, waiting, handlers, clientRequests,
                       listening, ended, listens, channels, cancelled, throws, collected,
                       isConnected, toServer, toClient>>
        /\ flushes' = flushes \ {c} /\ HandOver(ids)
        /\ timers' = timers \ ToSet(ids)
        /\ pendingRequests' = [pendingRequests EXCEPT ![c] = <<>>]
    <2>1. ASSUME NEW i, Throws(i)
          PROVE  FALSE
      BY <2>1, Throwing DEF IInv, TypeOK, Throws
    <2>2. QED
      BY <1>1, <2>1 DEF FlushPendingRequests, client
  <1>3. /\ TypeOK /\ Calls' = Calls /\ Events' = Events /\ Calls \subseteq Ids
        /\ ids \in Seq(Ids)
    BY <1>1, <1>2, Handed DEF IInv, Calls, Events, TypeOK
  <1>4. \A i \in Calls : i \in ToSet(ids) => Pending(i)
    BY <1>1 DEF ToSet, Pending
  <1>5. /\ running' \subseteq Ids /\ activeRequests' \subseteq Ids
        /\ subscriptions' \in [Ids -> Nat] /\ result' \in [Ids -> Results]
        /\ \A i \in Calls : i \notin ToSet(ids) => result'[i] = result[i]
        /\ \A i \in Ids : result'[i].ends = result[i].ends
        /\ \A i \in Ids \ DOMAIN request : /\ result'[i] = result[i]
                                         /\ i \notin running' /\ i \notin activeRequests'
        /\ running \subseteq running' /\ ToSet(ids) \cap Calls \subseteq running'
        /\ Truthful' /\ ActiveIsSubscribed'
    <2>1. \A i \in DOMAIN ids : ids[i] \in DOMAIN request
      BY <1>1 DEF IInv, Known
    <2>2. QED
      BY <1>2, <1>3, <2>1, HandOverFacts
  <1>6. /\ pendingRequests' \in [Channel -> Seq(Ids)]
        /\ pendingRequests'[c] = <<>>
        /\ \A d \in Channel : d # c => pendingRequests'[d] = pendingRequests[d]
    <2>1. pendingRequests \in [Channel -> Seq(Ids)] /\ <<>> \in Seq(Ids)
      BY <1>3 DEF TypeOK
    <2>2. QED
      BY <1>2, <2>1
  <1>7. TypeOK'
    BY <1>2, <1>3, <1>5, <1>6 DEF TypeOK
  <1>8. \A d \in Channel : \A i \in DOMAIN pendingRequests'[d] :
            d # c /\ i \in DOMAIN pendingRequests[d] /\ pendingRequests'[d][i] = pendingRequests[d][i]
    BY <1>6
  <1>9. Known'
    BY <1>2, <1>3, <1>5, <1>8 DEF IInv, Known
  <1>10. NoTwins'
    BY <1>2, <1>3, <1>8 DEF IInv, NoTwins
  <1>11. OnePlace'
    <2>1. ASSUME NEW i \in Calls
          PROVE  /\ Waits(i)' = Waits(i) /\ Asked(i)' = Asked(i)
                 /\ Pending(i)' => Pending(i) /\ i \notin ToSet(ids)
      <3>1. Waits(i)' = Waits(i) /\ Asked(i)' = Asked(i)
        BY <1>2 DEF Waits, Asked
      <3>2. ASSUME Pending(i)'
            PROVE  Pending(i) /\ i \notin ToSet(ids)
        <4>1. PICK d \in Channel : \E k \in DOMAIN pendingRequests[d] :
                 d # c /\ pendingRequests[d][k] = i
          BY <1>8, <3>2 DEF Pending
        <4>2. request[i].channel = d
          BY <4>1 DEF IInv, Known
        <4>3. \A j \in DOMAIN ids : request[ids[j]].channel = c
          BY <1>1 DEF IInv, Known
        <4>4. QED
          BY <4>1, <4>2, <4>3 DEF ToSet, Pending
      <3>3. QED
        BY <3>1, <3>2
    <2>2. QED
      BY <1>2, <1>3, <1>4, <1>5, <2>1 DEF IInv, OnePlace
  <1>12. HandlersAreAnswered'
    BY <1>2, <1>3, <1>5 DEF IInv, HandlersAreAnswered, OnItsWay, Answered
  <1>13. QED
    BY <1>5, <1>7, <1>9, <1>10, <1>11, <1>12 DEF IInv

\* A flush that a service breaks off.
LEMMA FlushPartStep ==
    ASSUME IInv, NEW c \in Channel, FlushPendingRequests(c), throws' # throws
    PROVE  IInv'
  <1>1. PICK i \in DOMAIN pendingRequests[c] :
           /\ Throws(pendingRequests[c][i])
           /\ HandOver(SubSeq(pendingRequests[c], 1, i - 1))
           /\ timers' = timers \ ToSet(SubSeq(pendingRequests[c], 1, i))
           /\ UNCHANGED pendingRequests
    BY DEF FlushPendingRequests
  <1>2. /\ UNCHANGED <<state, isDisposed, request, outcome, waiting, handlers, clientRequests,
                       listening, ended, listens, channels, cancelled, collected, isConnected,
                       toServer, toClient>>
        /\ flushes' = flushes \ {c}
    BY DEF FlushPendingRequests, client
  <1>3. /\ TypeOK /\ Calls' = Calls /\ Events' = Events /\ Calls \subseteq Ids
        /\ Calls \cap Events = {} /\ pendingRequests[c] \in Seq(Ids)
    BY <1>2, Handed DEF IInv, Calls, Events, TypeOK
  <1>4. PICK ids : ids = SubSeq(pendingRequests[c], 1, i - 1)
    OBVIOUS
  <1>5. /\ ids \in Seq(Ids)
        /\ \A k \in DOMAIN ids : k \in DOMAIN pendingRequests[c] /\ ids[k] = pendingRequests[c][k]
        /\ ToSet(SubSeq(pendingRequests[c], 1, i)) \subseteq ToSet(ids) \cup {pendingRequests[c][i]}
    BY <1>3, <1>4, Beginning
  <1>6. \A k \in Calls : k \in ToSet(ids) => Pending(k)
    BY <1>5 DEF ToSet, Pending
  <1>7. /\ running' \subseteq Ids /\ activeRequests' \subseteq Ids
        /\ subscriptions' \in [Ids -> Nat] /\ result' \in [Ids -> Results]
        /\ \A k \in Calls : k \notin ToSet(ids) => result'[k] = result[k]
        /\ \A k \in Ids : result'[k].ends = result[k].ends
        /\ \A k \in Ids \ DOMAIN request : /\ result'[k] = result[k]
                                         /\ k \notin running' /\ k \notin activeRequests'
        /\ running \subseteq running' /\ ToSet(ids) \cap Calls \subseteq running'
        /\ Truthful' /\ ActiveIsSubscribed'
    <2>1. \A k \in DOMAIN ids : ids[k] \in DOMAIN request
      BY <1>5 DEF IInv, Known
    <2>2. QED
      BY <1>1, <1>2, <1>4, <1>5, <2>1, HandOverFacts
  <1>8. throws' \in [Ids -> 0 .. MaxThrow] /\ pendingRequests[c][i] \in Events
    BY <1>1, <1>3, Throwing
  <1>9. TypeOK'
    BY <1>1, <1>2, <1>3, <1>7, <1>8 DEF TypeOK
  <1>10. Known' /\ NoTwins'
    BY <1>1, <1>2, <1>3, <1>7 DEF IInv, Known, NoTwins
  <1>11. OnePlace'
    <2>1. ASSUME NEW k \in Calls
          PROVE  Waits(k)' = Waits(k) /\ Asked(k)' = Asked(k) /\ Pending(k)' = Pending(k)
      BY <1>1, <1>2 DEF Waits, Asked, Pending
    <2>2. QED
      BY <1>2, <1>3, <1>6, <1>7, <2>1 DEF IInv, OnePlace
  <1>12. \A k \in timers \cap Calls : k \in timers' \/ k \in running'
    BY <1>1, <1>3, <1>5, <1>7, <1>8
  <1>13. HandlersAreAnswered'
    BY <1>2, <1>3, <1>7, <1>12 DEF IInv, HandlersAreAnswered, OnItsWay, Answered
  <1>14. QED
    BY <1>7, <1>9, <1>10, <1>11, <1>13 DEF IInv

LEMMA FlushStep ==
    ASSUME IInv, NEW c \in Channel, FlushPendingRequests(c)
    PROVE  IInv'
  BY FlushAllStep, FlushPartStep

\* Whether a flush is broken off or not, it hands over what was collected.
LEMMA FlushedPart ==
    ASSUME IInv, NEW c \in Channel, FlushPendingRequests(c)
    PROVE  \E ids \in Seq(Ids) : HandOver(ids) /\ ToSet(ids) \subseteq ToSet(pendingRequests[c])
  <1>1. pendingRequests[c] \in Seq(Ids)
    BY DEF IInv, TypeOK
  <1>2. CASE HandOver(pendingRequests[c])
    BY <1>1, <1>2
  <1>3. ASSUME NEW i \in DOMAIN pendingRequests[c], HandOver(SubSeq(pendingRequests[c], 1, i - 1))
        PROVE  \E ids \in Seq(Ids) :
                  HandOver(ids) /\ ToSet(ids) \subseteq ToSet(pendingRequests[c])
    <2>1. PICK ids : ids = SubSeq(pendingRequests[c], 1, i - 1)
      OBVIOUS
    <2>2. /\ ids \in Seq(Ids) /\ HandOver(ids)
          /\ \A k \in DOMAIN ids : k \in DOMAIN pendingRequests[c] /\ ids[k] = pendingRequests[c][k]
      BY <1>1, <1>3, <2>1, Beginning
    <2>3. ToSet(ids) \subseteq ToSet(pendingRequests[c])
      BY <2>2 DEF ToSet
    <2>4. QED
      BY <2>2, <2>3
  <1>4. QED
    BY <1>2, <1>3 DEF FlushPendingRequests

\* Nothing that concerns a call.
LEMMA OtherStep ==
    ASSUME IInv, DisposeServer \/ (\E c \in Channel : RegisterChannel(c)) \/ UNCHANGED vars
    PROVE  IInv'
  <1>1. /\ UNCHANGED <<state, isDisposed, request, outcome, waiting, handlers, clientRequests,
                       listening, ended, listens, pendingRequests, timers, running, throws, result,
                       collected, toServer, toClient>>
        /\ activeRequests' \subseteq activeRequests
        /\ isConnected' \in BOOLEAN
    BY DEF IInv, TypeOK, DisposeServer, RegisterChannel, vars, client, server
  <1>2. TypeOK /\ Calls' = Calls /\ Events' = Events /\ Calls \subseteq Ids
    BY <1>1, Handed DEF IInv, Calls, Events
  <1>3. /\ subscriptions' \in [Ids -> Nat]
        /\ activeRequests' # {} => UNCHANGED subscriptions
    <2>1. CASE DisposeServer
      <3>1. subscriptions' = [id \in Ids |-> IF id \in activeRequests \cap Events
                                THEN subscriptions[id] - 1 ELSE subscriptions[id]]
            /\ activeRequests' = {}
        BY <2>1 DEF DisposeServer
      <3>2. ASSUME NEW id \in activeRequests \cap Events
            PROVE  subscriptions[id] - 1 \in Nat
        <4>1. subscriptions[id] \in Nat /\ subscriptions[id] >= 1
          BY <1>2 DEF IInv, ActiveIsSubscribed, TypeOK
        <4>2. QED
          BY <4>1
      <3>3. QED
        BY <1>2, <3>1, <3>2 DEF TypeOK
    <2>2. CASE (\E c \in Channel : RegisterChannel(c)) \/ UNCHANGED vars
      BY <1>2, <2>2 DEF RegisterChannel, vars, server, TypeOK
    <2>3. QED
      BY <2>1, <2>2
  <1>4. /\ channels' \subseteq Channel /\ flushes' \subseteq channels' /\ cancelled' \subseteq Ids
    BY <1>2 DEF DisposeServer, RegisterChannel, vars, server, TypeOK
  <1>5. TypeOK'
    BY <1>1, <1>2, <1>3, <1>4 DEF TypeOK
  <1>6. Known' /\ NoTwins' /\ Truthful'
    BY <1>1, <1>2 DEF IInv, Known, NoTwins, Truthful
  <1>7. OnePlace'
    <2>1. ASSUME NEW i \in Calls
          PROVE  Waits(i)' = Waits(i) /\ Asked(i)' = Asked(i) /\ Pending(i)' = Pending(i)
      BY <1>1 DEF Waits, Asked, Pending
    <2>2. QED
      BY <1>1, <1>2, <2>1 DEF IInv, OnePlace
  <1>8. ActiveIsSubscribed'
    BY <1>1, <1>2, <1>3 DEF IInv, ActiveIsSubscribed
  <1>9. HandlersAreAnswered'
    BY <1>1, <1>2 DEF IInv, HandlersAreAnswered, OnItsWay, Answered
  <1>10. QED
    BY <1>5, <1>6, <1>7, <1>8, <1>9 DEF IInv

-----------------------------------------------------------------------------
(* The theorems *)

LEMMA InitIInv == Init => IInv
  <1> SUFFICES ASSUME Init PROVE IInv
    OBVIOUS
  <1>1. Calls = {} /\ Events = {} /\ DOMAIN request = {} /\ Len(request) = 0
    BY DEF Init, Calls, Events
  <1>2. TypeOK
    <2>1. /\ request \in Seq(Requests) /\ Len(request) <= MaxRequest /\ listens \in 0 .. MaxListen
          /\ waiting \in Seq(Ids) /\ toServer \in Seq(ToServer)
      BY <1>1, BoundsAssumption DEF Init
    <2>2. toClient \in Seq(ToClient)
      <3>1. [type |-> "Initialize"] \in ToClient
        BY DEF ToClient
      <3>2. QED
        BY <3>1 DEF Init
    <2>3. result \in [Ids -> Results]
      BY DEF Init, Results
    <2>4. /\ outcome \in [Ids -> Outcomes] /\ pendingRequests \in [Channel -> Seq(Ids)]
          /\ subscriptions \in [Ids -> Nat] /\ throws \in [Ids -> 0 .. MaxThrow]
      BY BoundsAssumption DEF Init, Outcomes
    <2>5. QED
      BY <2>1, <2>2, <2>3, <2>4 DEF Init, TypeOK
  <1>3. Known /\ NoTwins /\ OnePlace /\ ActiveIsSubscribed /\ HandlersAreAnswered
    BY <1>1 DEF Init, Known, NoTwins, OnePlace, ActiveIsSubscribed, HandlersAreAnswered
  <1>4. Truthful
    BY DEF Init, Truthful
  <1>5. QED
    BY <1>2, <1>3, <1>4 DEF IInv

LEMMA AlwaysIInv == Spec => []IInv
  <1>1. ASSUME IInv, [Next]_vars
        PROVE  IInv'
    BY <1>1, CancelStep, AddFirstListenerStep, RemoveLastListenerStep, DisposeClientStep,
       RequestEventStep, RequestPromiseStep, WhenInitializedStep, OnResponseStep, OnRequestStep,
       ServiceEndsStep, TimesOutStep, FlushStep, OtherStep DEF Next
  <1>2. QED
    BY <1>1, InitIInv, PTL DEF Spec

\* The variables keep their types; a service never loses a listener it does
\* not have.
THEOREM TypeCorrect == Spec => []TypeOK
  <1>1. IInv => TypeOK
    BY DEF IInv
  <1>2. QED
    BY <1>1, AlwaysIInv, PTL

\* Whatever is cancelled, times out or is registered late: a handler that
\* the client keeps for a call has an answer to come.
THEOREM NoHandlerLeft == Spec => []HandlersAreAnswered
  <1>1. IInv => HandlersAreAnswered
    BY DEF IInv
  <1>2. QED
    BY <1>1, AlwaysIInv, PTL

-----------------------------------------------------------------------------
(* A call which no broken flush has touched is handed over once             *)

\* What is collected is remembered to be.
OnceCollected ==
    \A c \in Channel : \A i \in DOMAIN pendingRequests[c] : pendingRequests[c][i] \in collected

\* What is collected was not handed over, and what was ended in one way.
OnceEach ==
    \A id \in Calls :
        ~Stranded(id) => /\ result[id].calls <= 1
                         /\ Pending(id) => result[id].calls = 0
                         /\ \A end, other \in result[id].ends : end = other

OnceInv == OnceCollected /\ OnceEach

\* A stranded call stays so.
LEMMA StaysStranded ==
    ASSUME TypeOK, \A id \in DOMAIN request : id \in DOMAIN request' /\ request'[id] = request[id],
           collected \subseteq collected', \A id \in Events : throws[id] > 0 => throws'[id] > 0,
           NEW id \in Calls, Stranded(id)
    PROVE  Stranded(id)'
  <1>1. Events \subseteq DOMAIN request /\ id \in DOMAIN request
    BY Handed
  <1>2. PICK e \in collected \cap Events :
            throws[e] > 0 /\ request[e].channel = request[id].channel
    BY DEF Stranded
  <1>3. e \in Events' /\ e \in collected'
    BY <1>1, <1>2 DEF Events
  <1>4. QED
    BY <1>1, <1>2, <1>3 DEF Stranded

(* A step that hands nothing over, collects nothing and ends nothing.       *)
LEMMA OnceKept ==
    ASSUME IInv, OnceInv, UNCHANGED <<pendingRequests, collected, throws, result>>,
           \A id \in DOMAIN request : id \in DOMAIN request' /\ request'[id] = request[id],
           DOMAIN request' \subseteq Ids
    PROVE  OnceInv'
  <1>1. /\ TypeOK /\ Calls \subseteq DOMAIN request /\ Calls \subseteq Ids
        /\ Calls' \subseteq DOMAIN request'
    BY Handed DEF IInv, Calls
  <1>2. OnceCollected'
    BY DEF OnceInv, OnceCollected
  <1>3. ASSUME NEW id \in Calls', ~Stranded(id)'
        PROVE  /\ result[id].calls <= 1
               /\ Pending(id)' => result[id].calls = 0
               /\ \A end, other \in result[id].ends : end = other
    <2>1. id \in Ids /\ Pending(id)' = Pending(id)
      BY <1>1 DEF Pending
    <2>2. CASE id \in Calls
      <3>1. ~Stranded(id)
        BY <1>1, <1>3, <2>2, StaysStranded
      <3>2. QED
        BY <2>1, <2>2, <3>1 DEF OnceInv, OnceEach
    <2>3. CASE id \notin Calls
      <3>1. id \notin DOMAIN request
        BY <1>3, <2>3 DEF Calls
      <3>2. result[id].calls = 0 /\ result[id].ended \in Nat
        BY <1>1, <2>1, <3>1 DEF IInv, Known, TypeOK, Results
      <3>3. result[id].ends = {}
        BY <2>1, <3>2 DEF IInv, Truthful
      <3>4. QED
        BY <3>2, <3>3
    <2>4. QED
      BY <2>2, <2>3
  <1>4. QED
    BY <1>2, <1>3 DEF OnceInv, OnceEach

LEMMA ClientOnce ==
    ASSUME IInv, OnceInv,
           \/ \E c \in Channel : RequestPromise(c) \/ RequestEvent(c)
           \/ \E id \in Calls : Cancel(id)
           \/ \E id \in Events : AddFirstListener(id) \/ RemoveLastListener(id)
           \/ WhenInitialized \/ OnResponse \/ DisposeClient
    PROVE  OnceInv'
  <1>1. UNCHANGED <<pendingRequests, collected, throws, result>>
    BY DEF RequestPromise, RequestEvent, Cancel, AddFirstListener, RemoveLastListener,
           WhenInitialized, OnResponse, DisposeClient, server
  <1>2. TypeOK /\ DOMAIN request \subseteq Ids
    BY Handed DEF IInv
  <1>3. /\ \A id \in DOMAIN request : id \in DOMAIN request' /\ request'[id] = request[id]
        /\ DOMAIN request' \subseteq Ids
    <2>1. CASE \E c \in Channel : RequestPromise(c) \/ RequestEvent(c)
      <3>1. PICK r \in Requests : request' = Append(request, r) /\ Len(request) + 1 <= MaxRequest
        BY <2>1 DEF RequestPromise, RequestEvent, Requests
      <3>2. /\ request \in Seq(Requests) /\ Len(request) + 1 \in Ids
            /\ DOMAIN request' = DOMAIN request \cup {Len(request) + 1}
        BY <1>2, <3>1, Growing DEF TypeOK
      <3>3. \A id \in DOMAIN request : request'[id] = request[id]
        BY <3>1, <3>2
      <3>4. QED
        BY <1>2, <3>2, <3>3
    <2>2. CASE UNCHANGED request
      BY <1>2, <2>2
    <2>3. QED
      BY <2>1, <2>2 DEF Cancel, AddFirstListener, RemoveLastListener, WhenInitialized, OnResponse,
                        DisposeClient
  <1>4. QED
    BY <1>1, <1>3, OnceKept

LEMMA QuietOnce ==
    ASSUME IInv, OnceInv,
           \/ \E id \in Ids : TimesOut(id)
           \/ \E c \in Channel : RegisterChannel(c)
           \/ DisposeServer
           \/ UNCHANGED vars
    PROVE  OnceInv'
  <1>1. UNCHANGED <<request, pendingRequests, collected, throws, result>>
    BY DEF TimesOut, RegisterChannel, DisposeServer, vars, client, server
  <1>2. DOMAIN request \subseteq Ids
    BY Handed DEF IInv
  <1>3. QED
    BY <1>1, <1>2, OnceKept

LEMMA ServiceOnce ==
    ASSUME IInv, OnceInv, NEW id \in Ids, ServiceEnds(id)
    PROVE  OnceInv'
  <1>1. /\ UNCHANGED <<request, pendingRequests, collected, throws>> /\ id \in running
        /\ TypeOK /\ Calls' = Calls /\ Calls \subseteq Ids
    BY Handed DEF ServiceEnds, client, IInv, Calls
  <1>2. PICK end \in {"PromiseSuccess", "PromiseError", "unsent"} : EndsAs(id, end)
    BY DEF ServiceEnds
  <1>3. /\ result'[id].ends = result[id].ends \cup {end}
        /\ \A i \in Ids : result'[i].calls = result[i].calls
        /\ \A i \in Ids : i # id => result'[i] = result[i]
    BY <1>1, <1>2, EndingOf DEF EndsAs
  <1>4. OnceCollected'
    BY <1>1 DEF OnceInv, OnceCollected
  <1>5. ASSUME NEW i \in Calls, ~Stranded(i)
        PROVE  /\ result'[i].calls <= 1
               /\ Pending(i)' => result'[i].calls = 0
               /\ \A e, other \in result'[i].ends : e = other
    <2>1. /\ result[i].calls <= 1 /\ (Pending(i) => result[i].calls = 0)
          /\ \A e, other \in result[i].ends : e = other
      BY <1>5 DEF OnceInv, OnceEach
    <2>2. Pending(i)' = Pending(i)
      BY <1>1 DEF Pending
    <2>3. i = id => result[i].ends = {}
      <3>1. HAVE i = id
      <3>2. /\ result[id].ended < result[id].calls /\ result[id].ended \in Nat
            /\ result[id].calls \in Nat
        BY <1>1 DEF IInv, Truthful, TypeOK, Results
      <3>3. result[id].ended = 0
        BY <2>1, <3>1, <3>2
      <3>4. QED
        BY <3>1, <3>3 DEF IInv, Truthful
    <2>4. QED
      BY <1>1, <1>3, <2>1, <2>2, <2>3
  <1>6. \A i : Stranded(i)' = Stranded(i)
    BY <1>1 DEF Stranded, Events
  <1>7. OnceEach'
    BY <1>1, <1>5, <1>6 DEF OnceEach
  <1>8. QED
    BY <1>4, <1>7 DEF OnceInv

\* What a hand-over does to a call that was handed over never, if it is in
\* the list once.
LEMMA HandedOnce ==
    ASSUME TypeOK, NEW ids \in Seq(Ids), HandOver(ids), NEW id \in Calls,
           \A i, j \in DOMAIN ids : ids[i] = id /\ ids[j] = id => i = j,
           result[id].calls = 0
    PROVE  result'[id].calls <= 1
  <1>1. /\ id \in Ids /\ result[id] \in Results /\ Occurrences(id, ids) \in Nat
        /\ Occurrences(id, ids) <= 1
    BY Handed, Counting DEF TypeOK
  <1>2. result'[id] = [result[id] EXCEPT !.calls = @ + Occurrences(id, ids)]
    BY <1>1 DEF HandOver
  <1>3. result'[id].calls = result[id].calls + Occurrences(id, ids)
    BY <1>1, <1>2 DEF Results
  <1>4. QED
    BY <1>1, <1>3

LEMMA RequestReadOnce ==
    ASSUME IInv, OnceInv, OnRequest
    PROVE  OnceInv'
  <1>1. PICK message : message = Head(toServer)
    OBVIOUS
  <1>2. PICK id : id = message.id
    OBVIOUS
  <1>3. toServer # <<>> /\ toServer' = Tail(toServer) /\ UNCHANGED request
    BY DEF OnRequest, client
  <1>4. /\ id \in DOMAIN request /\ id \in Ids
        /\ message.type = "Promise" => id \in Calls /\ Asked(id)
        /\ message.type = "EventListen" => id \in Events
    BY <1>1, <1>2, <1>3, Reading
  <1>5. /\ TypeOK /\ Calls' = Calls /\ Events' = Events /\ Calls \subseteq Ids
        /\ Calls \cap Events = {} /\ DOMAIN request \subseteq Ids
        /\ \A i \in DOMAIN request : request[i].channel \in Channel
    BY <1>3, Handed DEF IInv, Calls, Events
  <1>6. message.type \in {"Promise", "EventListen"} /\ id \in Calls =>
            result[id].calls = 0 /\ ~Pending(id)
    BY <1>4, <1>5 DEF IInv, OnePlace
  <1>7. CASE /\ message.type \in {"Promise", "EventListen"} /\ HandOver(<<id>>)
             /\ UNCHANGED <<pendingRequests, throws, collected>>
    <2>1. PICK ids : ids = <<id>>
      OBVIOUS
    <2>2. /\ ids \in Seq(Ids) /\ DOMAIN ids = {1} /\ ids[1] = id /\ ToSet(ids) = {id}
          /\ HandOver(ids) /\ \A i \in DOMAIN ids : ids[i] \in DOMAIN request
      BY <1>4, <1>7, <2>1 DEF ToSet
    <2>3. UNCHANGED <<outcome, toClient>>
      BY DEF OnRequest, client
    <2>4. /\ \A i \in Calls : i # id => result'[i] = result[i]
          /\ \A i \in Ids : result'[i].ends = result[i].ends
      BY <1>3, <2>2, <2>3, HandOverFacts
    <2>5. id \in Calls => result'[id].calls <= 1
      BY <1>5, <1>6, <1>7, <2>2, HandedOnce
    <2>6. \A i : Pending(i)' = Pending(i) /\ Stranded(i)' = Stranded(i)
      BY <1>3, <1>5, <1>7 DEF Pending, Stranded
    <2>7. OnceEach'
      BY <1>5, <1>6, <1>7, <2>4, <2>5, <2>6 DEF OnceInv, OnceEach
    <2>8. QED
      BY <1>7, <2>7 DEF OnceInv, OnceCollected
  <1>8. CASE /\ message.type \in {"Promise", "EventListen"} /\ CollectPendingRequest(id)
             /\ UNCHANGED <<throws, result>>
    <2>1. /\ pendingRequests' = [pendingRequests EXCEPT ![request[id].channel] = Append(@, id)]
          /\ collected' = collected \cup {id}
      BY <1>8 DEF CollectPendingRequest
    <2>2. ASSUME NEW c \in Channel, NEW i \in DOMAIN pendingRequests'[c]
          PROVE  \/ i \in DOMAIN pendingRequests[c] /\ pendingRequests'[c][i] = pendingRequests[c][i]
                 \/ pendingRequests'[c][i] = id
      <3>1. pendingRequests \in [Channel -> Seq(Ids)] /\ pendingRequests[c] \in Seq(Ids)
        BY <1>5 DEF TypeOK
      <3>2. CASE c = request[id].channel
        <4>1. pendingRequests'[c] = Append(pendingRequests[c], id)
          BY <2>1, <3>1, <3>2
        <4>2. QED
          BY <1>4, <2>2, <3>1, <4>1, Appending
      <3>3. CASE c # request[id].channel
        <4>1. pendingRequests'[c] = pendingRequests[c]
          BY <2>1, <3>1, <3>3
        <4>2. QED
          BY <2>2, <4>1
      <3>4. QED
        BY <3>2, <3>3
    <2>3. OnceCollected'
      BY <2>1, <2>2 DEF OnceInv, OnceCollected
    <2>4. ASSUME NEW i \in Calls, ~Stranded(i)'
          PROVE  /\ result'[i].calls <= 1
                 /\ Pending(i)' => result'[i].calls = 0
                 /\ \A e, other \in result'[i].ends : e = other
      <3>1. ~Stranded(i)
        BY <1>3, <1>5, <1>8, <2>1, <2>4, StaysStranded
      <3>2. Pending(i)' => Pending(i) \/ i = id
        BY <2>2 DEF Pending
      <3>3. QED
        BY <1>6, <1>8, <3>1, <3>2 DEF OnceInv, OnceEach
    <2>5. QED
      BY <1>5, <2>3, <2>4 DEF OnceInv, OnceEach
  <1>9. CASE Throws(id) /\ UNCHANGED <<pendingRequests, result, collected>>
    <2>1. \A e \in Ids : throws[e] > 0 => throws'[e] > 0
      BY <1>5, <1>9, Throwing
    <2>2. \A i \in Calls : Stranded(i) => Stranded(i)'
      <3>1. Events \subseteq Ids
        BY <1>5, Handed
      <3>2. QED
        BY <1>3, <1>5, <1>9, <2>1, <3>1, StaysStranded
    <2>3. \A i : Pending(i)' = Pending(i)
      BY <1>9 DEF Pending
    <2>4. OnceEach'
      BY <1>5, <1>9, <2>2, <2>3 DEF OnceInv, OnceEach
    <2>5. QED
      BY <1>9, <2>4 DEF OnceInv, OnceCollected
  <1>10. CASE UNCHANGED <<pendingRequests, throws, result, collected>>
    BY <1>3, <1>5, <1>10, OnceKept
  <1>11. QED
    BY <1>1, <1>2, <1>7, <1>8, <1>9, <1>10 DEF OnRequest

LEMMA FlushOnce ==
    ASSUME IInv, OnceInv, NEW c \in Channel, FlushPendingRequests(c)
    PROVE  OnceInv'
  <1>1. UNCHANGED <<request, outcome, collected, toClient>>
    BY DEF FlushPendingRequests, client
  <1>2. /\ TypeOK /\ Calls' = Calls /\ Events' = Events /\ Calls \subseteq Ids /\ Events \subseteq Ids
        /\ pendingRequests[c] \in Seq(Ids)
    BY <1>1, Handed DEF IInv, Calls, Events, TypeOK
  <1>3. /\ \A k \in DOMAIN pendingRequests[c] :
              /\ pendingRequests[c][k] \in DOMAIN request
              /\ request[pendingRequests[c][k]].channel = c
              /\ pendingRequests[c][k] \in collected
        /\ \A k \in Calls : k \in ToSet(pendingRequests[c]) => Pending(k)
    BY DEF IInv, Known, OnceInv, OnceCollected, ToSet, Pending
  <1>4. CASE /\ HandOver(pendingRequests[c])
             /\ pendingRequests' = [pendingRequests EXCEPT ![c] = <<>>]
             /\ UNCHANGED throws
    <2>1. /\ \A k \in Calls : k \notin ToSet(pendingRequests[c]) => result'[k] = result[k]
          /\ \A k \in Ids : result'[k].ends = result[k].ends
      BY <1>1, <1>2, <1>3, <1>4, HandOverFacts
    <2>2. pendingRequests \in [Channel -> Seq(Ids)]
      BY <1>2 DEF TypeOK
    <2>3. /\ pendingRequests'[c] = <<>>
          /\ \A d \in Channel : d # c => pendingRequests'[d] = pendingRequests[d]
      BY <1>4, <2>2
    <2>4. OnceCollected'
      BY <1>1, <2>3 DEF OnceInv, OnceCollected
    <2>5. ASSUME NEW i \in Calls, ~Stranded(i)
          PROVE  /\ result'[i].calls <= 1
                 /\ Pending(i)' => result'[i].calls = 0
                 /\ \A e, other \in result'[i].ends : e = other
      <3>1. /\ result[i].calls <= 1 /\ (Pending(i) => result[i].calls = 0)
            /\ \A e, other \in result[i].ends : e = other
        BY <2>5 DEF OnceInv, OnceEach
      <3>2. CASE i \in ToSet(pendingRequests[c])
        <4>1. result[i].calls = 0
          BY <1>3, <3>1, <3>2
        <4>2. \A k, j \in DOMAIN pendingRequests[c] :
                 pendingRequests[c][k] = i /\ pendingRequests[c][j] = i => k = j
          BY DEF IInv, NoTwins
        <4>3. result'[i].calls <= 1
          BY <1>2, <1>4, <4>1, <4>2, HandedOnce
        <4>4. ~Pending(i)'
          <5>1. request[i].channel = c
            BY <1>3, <3>2 DEF ToSet
          <5>2. \A d \in Channel : \A k \in DOMAIN pendingRequests[d] :
                   pendingRequests[d][k] = i => d = c
            BY <5>1 DEF IInv, Known
          <5>3. QED
            BY <2>3, <5>2 DEF Pending
        <4>5. QED
          BY <1>2, <2>1, <3>1, <4>3, <4>4
      <3>3. CASE i \notin ToSet(pendingRequests[c])
        <4>1. Pending(i)' => Pending(i)
          BY <2>3 DEF Pending
        <4>2. QED
          BY <2>1, <3>1, <3>3, <4>1
      <3>4. QED
        BY <3>2, <3>3
    <2>6. \A i : Stranded(i)' = Stranded(i)
      BY <1>1, <1>2, <1>4 DEF Stranded
    <2>7. QED
      BY <1>2, <2>4, <2>5, <2>6 DEF OnceInv, OnceEach
  <1>5. ASSUME NEW i \in DOMAIN pendingRequests[c],
               Throws(pendingRequests[c][i]),
               HandOver(SubSeq(pendingRequests[c], 1, i - 1)), UNCHANGED pendingRequests
        PROVE  OnceInv'
    <2>1. PICK ids : ids = SubSeq(pendingRequests[c], 1, i - 1)
      OBVIOUS
    <2>2. /\ ids \in Seq(Ids) /\ HandOver(ids)
          /\ \A k \in DOMAIN ids : k \in DOMAIN pendingRequests[c] /\ ids[k] = pendingRequests[c][k]
      BY <1>2, <1>5, <2>1, Beginning
    <2>3. /\ \A k \in Calls : k \notin ToSet(ids) => result'[k] = result[k]
      BY <1>1, <1>2, <1>3, <2>2, HandOverFacts
    <2>4. PICK e : e = pendingRequests[c][i]
      OBVIOUS
    <2>5. /\ e \in Events /\ throws'[e] > 0 /\ e \in collected /\ request[e].channel = c
          /\ \A k \in Ids : throws[k] > 0 => throws'[k] > 0
      BY <1>2, <1>3, <1>5, <2>4, Throwing
    <2>6. \A k \in Calls : k \in ToSet(ids) => Stranded(k)'
      <3>1. TAKE k \in Calls
      <3>2. HAVE k \in ToSet(ids)
      <3>3. k \in collected /\ request[k].channel = c
        BY <1>3, <2>2, <3>2 DEF ToSet
      <3>4. QED
        BY <1>1, <1>2, <2>5, <3>3 DEF Stranded
    <2>7. \A k \in Calls : Stranded(k) => Stranded(k)'
      BY <1>1, <1>2, <2>5, StaysStranded
    <2>8. \A k : Pending(k)' = Pending(k)
      BY <1>5 DEF Pending
    <2>9. OnceEach'
      BY <1>2, <2>3, <2>6, <2>7, <2>8 DEF OnceInv, OnceEach
    <2>10. QED
      BY <1>1, <1>5, <2>9 DEF OnceInv, OnceCollected
  <1>6. QED
    BY <1>4, <1>5 DEF FlushPendingRequests

LEMMA InitOnceInv == Init => OnceInv
  BY DEF Init, OnceInv, OnceCollected, OnceEach, Calls

LEMMA AlwaysOnceInv == Spec => []OnceInv
  <1>1. ASSUME IInv, OnceInv, [Next]_vars
        PROVE  OnceInv'
    BY <1>1, ClientOnce, QuietOnce, ServiceOnce, RequestReadOnce, FlushOnce DEF Next
  <1>2. QED
    BY <1>1, InitOnceInv, AlwaysIInv, PTL DEF Spec

\* A call is handed to its service at most once, unless it is stranded, and
\* who has an answer of the service has an answer that it gave.
THEOREM CallsAreTruthful == Spec => []AnswersAreTrue
  <1>1. ASSUME IInv, OnceInv
        PROVE  AnswersAreTrue
    <2> SUFFICES ASSUME NEW id \in Calls
                 PROVE  /\ outcome[id] \in {"PromiseSuccess", "PromiseError"} =>
                              result[id].calls >= 1 /\ outcome[id] \in result[id].ends
                        /\ outcome[id] \in {"not sent", "none"} => result[id].calls = 0
      BY <1>1 DEF AnswersAreTrue, OnceInv, OnceEach
    <2>1. /\ id \in Ids /\ result[id].calls \in Nat /\ result[id].ended \in Nat
          /\ result[id].ended <= result[id].calls
          /\ result[id].ended = 0 => result[id].ends = {}
          /\ outcome[id] \in {"PromiseSuccess", "PromiseError"} => outcome[id] \in result[id].ends
      BY <1>1, Handed DEF IInv, TypeOK, Results, Truthful
    <2>2. outcome[id] # "none" /\ (outcome[id] = "not sent" => result[id].calls = 0)
      <3>1. outcome[id] # "none"
        BY <1>1 DEF IInv, Known
      <3>2. outcome[id] = "not sent" => result[id].calls = 0
        BY <1>1 DEF IInv, OnePlace
      <3>3. QED
        BY <3>1, <3>2
    <2>3. outcome[id] \in {"PromiseSuccess", "PromiseError"} => result[id].calls >= 1
      BY <2>1
    <2>4. QED
      BY <2>1, <2>2, <2>3
  <1>2. QED
    BY <1>1, AlwaysIInv, AlwaysOnceInv, PTL

-----------------------------------------------------------------------------
(* Cancellation: what the server runs can be cancelled, and follows it      *)

\* A running call can be cancelled, or was.
Cancellable ==
    running \subseteq Calls /\ running \ collected \subseteq activeRequests \cup cancelled

\* The server reads that a call is cancelled after it has read the call.
CancelFollows ==
    \A i \in DOMAIN toServer :
        /\ toServer[i].type = "Promise"
        /\ outcome[toServer[i].id] = "CancellationError"
        => \E k \in DOMAIN toServer :
              i < k /\ toServer[k] = Message("PromiseCancel", toServer[i].id)

\* Who runs is told that it was given up, if it was not collected.
RunningAreTold ==
    \A id \in running \ collected :
        outcome[id] = "CancellationError" =>
            id \in cancelled \/ OnItsWay("PromiseCancel", id)

CancelInv == Cancellable /\ CancelFollows /\ RunningAreTold

(* A step of the client: who gives a call up says so behind it.             *)
LEMMA GivingUp ==
    ASSUME IInv, CancelInv, UNCHANGED server, Calls \subseteq Calls',
           NEW M, Continues(toServer, toServer', M),
           \A i \in DOMAIN toServer' \ DOMAIN toServer :
               /\ \A j \in DOMAIN toServer : j < i
               /\ toServer'[i].type = "Promise" => outcome'[toServer'[i].id] # "CancellationError",
           \A id \in Ids :
               outcome'[id] = "CancellationError" =>
                  \/ outcome[id] = "CancellationError"
                  \/ ~Asked(id) /\ id \notin running
                  \/ \E k \in DOMAIN toServer' \ DOMAIN toServer :
                        toServer'[k] = Message("PromiseCancel", id)
    PROVE  CancelInv'
  <1>1. UNCHANGED <<pendingRequests, activeRequests, running, cancelled, collected>>
    BY DEF server
  <1>2. Cancellable'
    BY <1>1 DEF CancelInv, Cancellable
  <1>3. \A i \in DOMAIN toServer : i \in DOMAIN toServer' /\ toServer'[i] = toServer[i]
    BY DEF Continues
  <1>4. TypeOK /\ running \subseteq Ids /\ \A i \in DOMAIN toServer : toServer[i].id \in Ids
    <2>1. TypeOK /\ toServer \in Seq(ToServer) /\ running \subseteq Ids
      BY DEF IInv, TypeOK
    <2>2. \A i \in DOMAIN toServer : toServer[i] \in ToServer
      BY <2>1
    <2>3. QED
      BY <2>1, <2>2 DEF ToServer
  <1>5. CancelFollows'
    <2> SUFFICES ASSUME NEW i \in DOMAIN toServer', toServer'[i].type = "Promise",
                        outcome'[toServer'[i].id] = "CancellationError"
                 PROVE  \E k \in DOMAIN toServer' :
                           i < k /\ toServer'[k] = Message("PromiseCancel", toServer'[i].id)
      BY DEF CancelFollows, Message
    <2>1. i \in DOMAIN toServer /\ toServer'[i] = toServer[i]
      BY <1>3
    <2>2. CASE outcome[toServer[i].id] = "CancellationError"
      <3>1. PICK k \in DOMAIN toServer :
               i < k /\ toServer[k] = Message("PromiseCancel", toServer[i].id)
        BY <2>1, <2>2 DEF CancelInv, CancelFollows
      <3>2. QED
        BY <1>3, <2>1, <3>1
    <2>3. CASE outcome[toServer[i].id] # "CancellationError"
      <3>1. Asked(toServer[i].id)
        BY <2>1 DEF Asked
      <3>2. PICK k \in DOMAIN toServer' \ DOMAIN toServer :
               toServer'[k] = Message("PromiseCancel", toServer[i].id)
        BY <1>4, <2>1, <2>3, <3>1
      <3>3. i < k
        BY <2>1, <3>2
      <3>4. QED
        BY <2>1, <3>2, <3>3
    <2>4. QED
      BY <2>2, <2>3
  <1>6. RunningAreTold'
    <2> SUFFICES ASSUME NEW id \in running \ collected, outcome'[id] = "CancellationError"
                 PROVE  id \in cancelled \/ \E k \in DOMAIN toServer' :
                           toServer'[k] = Message("PromiseCancel", id)
      BY <1>1 DEF RunningAreTold, OnItsWay, ToSet, Message
    <2>1. CASE outcome[id] = "CancellationError"
      <3>1. id \in cancelled \/ \E k \in DOMAIN toServer : toServer[k] = Message("PromiseCancel", id)
        BY <2>1 DEF CancelInv, RunningAreTold, OnItsWay, ToSet
      <3>2. QED
        BY <1>3, <3>1
    <2>2. CASE outcome[id] # "CancellationError"
      BY <1>4, <2>2
    <2>3. QED
      BY <2>1, <2>2
  <1>7. QED
    BY <1>2, <1>5, <1>6 DEF CancelInv

LEMMA OneBehind ==
    ASSUME NEW s \in Seq(ToServer), NEW m \in ToServer
    PROVE  /\ DOMAIN Append(s, m) \ DOMAIN s = {Len(s) + 1}
           /\ \A j \in DOMAIN s : j < Len(s) + 1
           /\ Append(s, m)[Len(s) + 1] = m
  OBVIOUS

LEMMA WaitingIsNotAsked ==
    ASSUME IInv, NEW id \in Calls, Waits(id)
    PROVE  ~Asked(id) /\ id \notin running
  <1>1. ~Asked(id) /\ result[id].calls = 0
    BY DEF IInv, OnePlace
  <1>2. id \in Ids
    BY Handed DEF IInv
  <1>3. result[id] \in Results
    BY <1>2 DEF IInv, TypeOK
  <1>4. ~(result[id].ended < result[id].calls)
    BY <1>1, <1>3 DEF Results
  <1>5. QED
    BY <1>1, <1>2, <1>4 DEF IInv, Truthful

LEMMA NothingSaid ==
    ASSUME IInv, CancelInv, UNCHANGED <<server, toServer>>, Calls \subseteq Calls',
           \A id \in Ids :
               outcome'[id] = "CancellationError" =>
                  outcome[id] = "CancellationError" \/ (~Asked(id) /\ id \notin running)
    PROVE  CancelInv'
  <1>1. Continues(toServer, toServer', {}) /\ DOMAIN toServer' \ DOMAIN toServer = {}
    BY DEF Continues, IInv, TypeOK
  <1>2. QED
    BY <1>1, GivingUp

LEMMA OneSaid ==
    ASSUME IInv, CancelInv, UNCHANGED server, Calls \subseteq Calls',
           NEW m \in ToServer, toServer' = Append(toServer, m),
           m.type = "Promise" => outcome'[m.id] # "CancellationError",
           \A id \in Ids :
               outcome'[id] = "CancellationError" =>
                  \/ outcome[id] = "CancellationError"
                  \/ ~Asked(id) /\ id \notin running
                  \/ m = Message("PromiseCancel", id)
    PROVE  CancelInv'
  <1>1. toServer \in Seq(ToServer)
    BY DEF IInv, TypeOK
  <1>2. Continues(toServer, toServer', {m})
    BY <1>1, OneMore
  <1>3. /\ DOMAIN toServer' \ DOMAIN toServer = {Len(toServer) + 1}
        /\ \A j \in DOMAIN toServer : j < Len(toServer) + 1
        /\ toServer'[Len(toServer) + 1] = m
    BY <1>1, OneBehind
  <1>4. QED
    BY <1>2, <1>3, GivingUp

LEMMA RequestCancels ==
    ASSUME IInv, CancelInv, NEW c \in Channel, RequestPromise(c) \/ RequestEvent(c)
    PROVE  CancelInv'
  <1>0. PICK new : new = Len(request) + 1
    OBVIOUS
  <1>1. PICK r \in Requests : request' = Append(request, r)
    <2>1. [kind |-> "call", channel |-> c] \in Requests /\ [kind |-> "event", channel |-> c] \in Requests
      BY DEF Requests
    <2>2. QED
      BY <2>1 DEF RequestPromise, RequestEvent
  <1>2. UNCHANGED server /\ Len(request) + 1 <= MaxRequest
    BY DEF RequestPromise, RequestEvent
  <1>3. TypeOK /\ new \in Ids /\ Calls \subseteq Calls' /\ outcome \in [Ids -> Outcomes]
    BY <1>0, <1>1, <1>2, Growing DEF IInv, TypeOK
  <1>4. CASE RequestEvent(c)
    BY <1>2, <1>3, <1>4, NothingSaid DEF RequestEvent
  <1>5. CASE RequestPromise(c) /\ UNCHANGED toServer
    <2>1. \/ outcome' = [outcome EXCEPT ![new] = "not sent"]
          \/ outcome' = [outcome EXCEPT ![new] = "pending"]
      BY <1>0, <1>5 DEF RequestPromise, DoCall
    <2>2. outcome'[new] # "CancellationError" /\ \A i \in Ids \ {new} : outcome'[i] = outcome[i]
      BY <1>3, <2>1
    <2>3. QED
      BY <1>2, <1>3, <1>5, <2>2, NothingSaid
  <1>6. CASE RequestPromise(c) /\ ~UNCHANGED toServer
    <2>1. /\ toServer' = Append(toServer, Message("Promise", new))
          /\ outcome' = [outcome EXCEPT ![new] = "pending"]
      BY <1>0, <1>6 DEF RequestPromise, DoCall, SendRequest
    <2>2. outcome'[new] # "CancellationError" /\ \A i \in Ids \ {new} : outcome'[i] = outcome[i]
      BY <1>3, <2>1
    <2>3. Message("Promise", new) \in ToServer /\ Message("Promise", new).id = new
      BY <1>3 DEF Message, ToServer
    <2>4. QED
      BY <1>2, <1>3, <2>1, <2>2, <2>3, OneSaid
  <1>7. QED
    BY <1>4, <1>5, <1>6

LEMMA CancelCancels ==
    ASSUME IInv, CancelInv, NEW id \in Calls, Cancel(id)
    PROVE  CancelInv'
  <1>1. /\ TypeOK /\ id \in Ids /\ outcome \in [Ids -> Outcomes] /\ Calls' = Calls
        /\ UNCHANGED server
        /\ outcome' = [outcome EXCEPT ![id] = "CancellationError"]
    BY Handed DEF IInv, TypeOK, Cancel, Calls
  <1>2. \A i \in Ids \ {id} : outcome'[i] = outcome[i]
    BY <1>1
  <1>3. CASE id \in ToSet(waiting)
    <2>1. Waits(id)
      BY <1>3 DEF ToSet, Waits
    <2>2. ~Asked(id) /\ id \notin running /\ UNCHANGED toServer
      BY <1>3, <2>1, WaitingIsNotAsked DEF Cancel
    <2>3. QED
      BY <1>1, <1>2, <2>2, NothingSaid
  <1>4. CASE id \notin ToSet(waiting)
    <2>1. toServer' = Append(toServer, Message("PromiseCancel", id))
      BY <1>4 DEF Cancel, SendRequest
    <2>2. /\ Message("PromiseCancel", id) \in ToServer
          /\ Message("PromiseCancel", id).type # "Promise"
      BY <1>1 DEF Message, ToServer
    <2>3. QED
      BY <1>1, <1>2, <2>1, <2>2, OneSaid
  <1>5. QED
    BY <1>3, <1>4

LEMMA ListenerCancels ==
    ASSUME IInv, CancelInv, NEW id \in Events, AddFirstListener(id) \/ RemoveLastListener(id)
    PROVE  CancelInv'
  <1>1. id \in Ids /\ Calls' = Calls /\ UNCHANGED <<server, outcome>>
    BY Handed DEF IInv, AddFirstListener, RemoveLastListener, Calls
  <1>2. CASE UNCHANGED toServer
    BY <1>1, <1>2, NothingSaid
  <1>3. CASE ~UNCHANGED toServer
    <2>1. \E type \in {"EventListen", "EventDispose"} :
             toServer' = Append(toServer, Message(type, id))
      BY <1>3 DEF AddFirstListener, DoListen, RemoveLastListener, SendRequest
    <2>2. PICK type \in {"EventListen", "EventDispose"} :
             toServer' = Append(toServer, Message(type, id))
      BY <2>1
    <2>3. Message(type, id) \in ToServer /\ Message(type, id).type # "Promise"
      BY <1>1 DEF Message, ToServer
    <2>4. QED
      BY <1>1, <2>2, <2>3, OneSaid
  <1>4. QED
    BY <1>2, <1>3

LEMMA WhenInitializedCancels ==
    ASSUME IInv, CancelInv, WhenInitialized
    PROVE  CancelInv'
  <1>0. PICK id : id = Head(waiting)
    OBVIOUS
  <1>1. /\ Calls' = Calls /\ UNCHANGED server /\ waiting # <<>>
        /\ \/ id \in Calls /\ DoCall(id)
           \/ UNCHANGED <<outcome, toServer>>
           \/ DoListen(id) /\ UNCHANGED outcome
    BY <1>0 DEF WhenInitialized, Calls
  <1>2. id \in Ids /\ outcome \in [Ids -> Outcomes]
    <2>1. waiting \in Seq(Ids) /\ outcome \in [Ids -> Outcomes]
      BY DEF IInv, TypeOK
    <2>2. QED
      BY <1>0, <1>1, <2>1, Taking
  <1>3. CASE UNCHANGED <<outcome, toServer>>
    BY <1>1, <1>3, NothingSaid
  <1>4. CASE DoListen(id) /\ UNCHANGED outcome
    <2>1. /\ Message("EventListen", id) \in ToServer /\ Message("EventListen", id).type # "Promise"
          /\ toServer' = Append(toServer, Message("EventListen", id))
      BY <1>2, <1>4 DEF DoListen, SendRequest, Message, ToServer
    <2>2. QED
      BY <1>1, <1>4, <2>1, OneSaid
  <1>5. CASE DoCall(id)
    <2>1. \/ outcome' = [outcome EXCEPT ![id] = "not sent"] /\ UNCHANGED toServer
          \/ /\ outcome' = [outcome EXCEPT ![id] = "pending"]
             /\ toServer' = Append(toServer, Message("Promise", id))
      BY <1>5 DEF DoCall, SendRequest
    <2>2. outcome'[id] # "CancellationError" /\ \A i \in Ids \ {id} : outcome'[i] = outcome[i]
      BY <1>2, <2>1
    <2>3. Message("Promise", id) \in ToServer /\ Message("Promise", id).id = id
      BY <1>2 DEF Message, ToServer
    <2>4. CASE UNCHANGED toServer
      BY <1>1, <2>2, <2>4, NothingSaid
    <2>5. CASE toServer' = Append(toServer, Message("Promise", id))
      BY <1>1, <2>2, <2>3, <2>5, OneSaid
    <2>6. QED
      BY <2>1, <2>4, <2>5
  <1>6. QED
    BY <1>1, <1>3, <1>4, <1>5

LEMMA OnResponseCancels ==
    ASSUME IInv, CancelInv, OnResponse
    PROVE  CancelInv'
  <1>0. PICK response : response = Head(toClient)
    OBVIOUS
  <1>1. /\ Calls' = Calls /\ UNCHANGED <<server, toServer>> /\ toClient # <<>>
        /\ \/ UNCHANGED outcome
           \/ /\ response.type # "Initialize"
              /\ outcome' = [outcome EXCEPT ![response.id] = response.type]
    BY <1>0 DEF OnResponse, Calls
  <1>2. response \in ToClient /\ outcome \in [Ids -> Outcomes]
    <2>1. toClient \in Seq(ToClient) /\ outcome \in [Ids -> Outcomes]
      BY DEF IInv, TypeOK
    <2>2. QED
      BY <1>0, <1>1, <2>1, Taking
  <1>3. response.type # "CancellationError"
    BY <1>2 DEF ToClient
  <1>4. \A i \in Ids : outcome'[i] = "CancellationError" => outcome[i] = "CancellationError"
    BY <1>1, <1>2, <1>3
  <1>5. QED
    BY <1>1, <1>4, NothingSaid

(* What dispose() of the client sends: each active request that was sent is *)
(* taken back, once, behind all that is on the wire.                        *)
LEMMA TakingBack ==
    ASSUME IInv, DisposeClient, NEW sent, sent = clientRequests \ ToSet(waiting),
           NEW told, told = DOMAIN toServer' \ DOMAIN toServer
    PROVE  /\ Continues(toServer, toServer', ToServer)
           /\ \A i \in told, j \in DOMAIN toServer : j < i
           /\ \A i \in told : \E id \in sent : toServer'[i] = TakeBack(id)
           /\ \A id \in sent : \E i \in told : toServer'[i] = TakeBack(id)
           /\ \A i, j \in told : toServer'[i] = toServer'[j] => i = j
  <1>1. TypeOK /\ clientRequests \subseteq Ids /\ toServer \in Seq(ToServer)
    BY DEF IInv, TypeOK
  <1>2. IsFiniteSet(sent)
    <2>1. IsFiniteSet(Ids)
      BY BoundsAssumption, FS_Interval DEF Ids
    <2>2. QED
      BY <1>1, <2>1, FS_Subset
  <1>3. PICK n \in Nat : n = Cardinality(sent)
    BY <1>2, FS_CardinalityType
  <1>4. PICK order \in [1 .. n -> sent] :
           /\ ToSet(order) = sent
           /\ toServer' = toServer \o [i \in 1 .. n |-> TakeBack(order[i])]
    BY <1>3 DEF DisposeClient
  <1>5. \A i, j \in 1 .. n : order[i] = order[j] => i = j
    <2>1. order \in Surjection(1 .. n, sent)
      <3>1. \A id \in sent : \E i \in 1 .. n : order[i] = id
        BY <1>4 DEF ToSet
      <3>2. QED
        BY <1>4, <3>1 DEF Surjection
    <2>2. IsFiniteSet(1 .. n) /\ Cardinality(1 .. n) = n
      <3>1. IsFiniteSet(1 .. n) /\ Cardinality(1 .. n) = IF 1 > n THEN 0 ELSE n - 1 + 1
        BY FS_Interval
      <3>2. (IF 1 > n THEN 0 ELSE n - 1 + 1) = n
        OBVIOUS
      <3>3. QED
        BY <3>1, <3>2
    <2>3. order \in Injection(1 .. n, sent)
      BY <1>3, <2>1, <2>2, FS_SurjSameCardinalityImpliesInj
    <2>4. QED
      BY <2>3 DEF Injection, IsInjective
  <1>6. PICK messages : messages = [i \in 1 .. n |-> TakeBack(order[i])]
    OBVIOUS
  <1>7. \A i \in 1 .. n : messages[i] = TakeBack(order[i]) /\ messages[i] \in ToServer
    <2>1. \A i \in 1 .. n : order[i] \in Ids
      BY <1>1, <1>4
    <2>2. QED
      BY <1>6, <2>1 DEF TakeBack, Message, ToServer
  <1>8. messages \in Seq(ToServer) /\ Len(messages) = n
    <2>1. messages \in [1 .. n -> ToServer]
      BY <1>6, <1>7
    <2>2. QED
      BY <2>1, Listing
  <1>9. PICK len \in Nat : len = Len(toServer) /\ DOMAIN toServer = 1 .. len
    BY <1>1
  <1>10. /\ toServer' \in Seq(ToServer) /\ DOMAIN toServer' = 1 .. len + n
         /\ \A i \in 1 .. len + n :
               toServer'[i] = IF i <= len THEN toServer[i] ELSE messages[i - len]
    <2>1. /\ toServer' \in Seq(ToServer) /\ Len(toServer') = Len(toServer) + Len(messages)
          /\ \A i \in 1 .. Len(toServer) + Len(messages) :
                toServer'[i] = IF i <= Len(toServer) THEN toServer[i]
                               ELSE messages[i - Len(toServer)]
      BY <1>1, <1>4, <1>6, <1>8, ConcatProperties
    <2>2. Len(toServer) = len /\ Len(messages) = n
      BY <1>8, <1>9
    <2>3. /\ toServer' \in Seq(ToServer) /\ Len(toServer') = len + n
          /\ \A i \in 1 .. len + n :
                toServer'[i] = IF i <= len THEN toServer[i] ELSE messages[i - len]
      BY <2>1, <2>2
    <2>4. DOMAIN toServer' = 1 .. len + n
      BY <2>3
    <2>5. QED
      BY <2>3, <2>4
  <1>11. \A i \in 1 .. n : i + len \in told /\ toServer'[i + len] = TakeBack(order[i])
    <2>1. ASSUME NEW i \in 1 .. n
          PROVE  i + len \in told /\ toServer'[i + len] = messages[i]
      <3>1. /\ i + len \in 1 .. len + n /\ i + len \notin 1 .. len /\ ~(i + len <= len)
            /\ (i + len) - len = i
        OBVIOUS
      <3>2. QED
        BY <1>9, <1>10, <3>1
    <2>2. QED
      BY <1>7, <2>1
  <1>12. \A i \in told : i - len \in 1 .. n /\ (i - len) + len = i
    BY <1>9, <1>10
  <1>13. \A i \in told, j \in DOMAIN toServer : j < i
    BY <1>9, <1>10
  <1>14. Continues(toServer, toServer', ToServer)
    <2>1. DOMAIN toServer \subseteq DOMAIN toServer' /\ \A i \in DOMAIN toServer : toServer'[i] = toServer[i]
      BY <1>9, <1>10
    <2>2. \A i \in DOMAIN toServer' : toServer'[i] \in ToServer
      BY <1>10
    <2>3. QED
      BY <1>10, <2>1, <2>2 DEF Continues
  <1>15. ASSUME NEW i \in told
         PROVE  order[i - len] \in sent /\ toServer'[i] = TakeBack(order[i - len])
    <2>1. i - len \in 1 .. n /\ toServer'[(i - len) + len] = TakeBack(order[i - len])
      BY <1>11, <1>12
    <2>2. QED
      BY <1>4, <1>12, <2>1
  <1>16. \A id \in sent : \E i \in told : toServer'[i] = TakeBack(id)
    <2>1. TAKE id \in sent
    <2>2. PICK i \in 1 .. n : order[i] = id
      BY <1>4 DEF ToSet
    <2>3. QED
      BY <1>11, <2>2
  <1>17. ASSUME NEW i \in told, NEW j \in told, toServer'[i] = toServer'[j]
         PROVE  i = j
    <2>1. order[i - len] = order[j - len]
      BY <1>15, <1>17 DEF TakeBack, Message
    <2>2. i - len = j - len
      BY <1>5, <1>12, <2>1
    <2>3. QED
      BY <1>12, <2>2
  <1>18. QED
    BY <1>13, <1>14, <1>15, <1>16, <1>17

LEMMA DisposeClientCancels ==
    ASSUME IInv, CancelInv, DisposeClient
    PROVE  CancelInv'
  <1>1. PICK sent : sent = clientRequests \ ToSet(waiting)
    OBVIOUS
  <1>2. PICK told : told = DOMAIN toServer' \ DOMAIN toServer
    OBVIOUS
  <1>3. /\ Calls' = Calls /\ UNCHANGED server
        /\ \A id \in Ids : id \notin clientRequests \cap Calls => outcome'[id] = outcome[id]
    BY DEF DisposeClient, Calls
  <1>4. /\ Continues(toServer, toServer', ToServer)
        /\ \A i \in told, j \in DOMAIN toServer : j < i
        /\ \A i \in told : \E id \in sent : toServer'[i] = TakeBack(id)
        /\ \A id \in sent : \E i \in told : toServer'[i] = TakeBack(id)
    BY <1>1, <1>2, TakingBack
  <1>5. \A i \in told : toServer'[i].type # "Promise"
    <2>1. \A id : TakeBack(id).type # "Promise"
      BY DEF TakeBack, Message
    <2>2. QED
      BY <1>4, <2>1
  <1>6. ASSUME NEW id \in clientRequests \cap Calls
        PROVE  \/ ~Asked(id) /\ id \notin running
               \/ \E k \in told : toServer'[k] = Message("PromiseCancel", id)
    <2>1. CASE id \in ToSet(waiting)
      <3>1. Waits(id)
        BY <2>1 DEF ToSet, Waits
      <3>2. QED
        BY <3>1, WaitingIsNotAsked
    <2>2. CASE id \notin ToSet(waiting)
      <3>1. TakeBack(id) = Message("PromiseCancel", id)
        BY DEF TakeBack
      <3>2. PICK k \in told : toServer'[k] = TakeBack(id)
        BY <1>1, <1>4, <2>2
      <3>3. QED
        BY <3>1, <3>2
    <2>3. QED
      BY <2>1, <2>2
  <1>7. QED
    BY <1>2, <1>3, <1>4, <1>5, <1>6, GivingUp

LEMMA RequestReadCancels ==
    ASSUME IInv, CancelInv, OnRequest
    PROVE  CancelInv'
  <1>1. PICK message : message = Head(toServer)
    OBVIOUS
  <1>2. PICK id : id = message.id
    OBVIOUS
  <1>3. /\ toServer # <<>> /\ toServer' = Tail(toServer)
        /\ UNCHANGED <<request, outcome, waiting>>
    BY DEF OnRequest, client
  <1>4. /\ toServer' \in Seq(ToServer) /\ message \in ToServer
        /\ id \in DOMAIN request /\ id \in Ids
        /\ message.type = "Promise" => id \in Calls
    BY <1>1, <1>2, <1>3, Reading
  <1>5. /\ message = toServer[1] /\ 1 \in DOMAIN toServer
        /\ \A i \in DOMAIN toServer' :
              i \in Nat /\ i + 1 \in DOMAIN toServer /\ toServer'[i] = toServer[i + 1]
        /\ \A i \in DOMAIN toServer :
              i = 1 \/ (i - 1 \in DOMAIN toServer' /\ toServer'[i - 1] = toServer[i])
        /\ DOMAIN toServer \subseteq Nat
    <2>1. toServer \in Seq(ToServer)
      BY DEF IInv, TypeOK
    <2>2. QED
      BY <1>1, <1>3, <2>1, Taking
  <1>6. /\ TypeOK /\ Calls' = Calls /\ Events' = Events /\ Calls \subseteq Ids
        /\ Calls \cap Events = {}
        /\ \A i \in DOMAIN request : request[i].channel \in Channel
    BY <1>3, Handed DEF IInv, Calls, Events
  <1>7. CancelFollows'
    <2> SUFFICES ASSUME NEW i \in DOMAIN toServer', toServer'[i].type = "Promise",
                        outcome'[toServer'[i].id] = "CancellationError"
                 PROVE  \E k \in DOMAIN toServer' :
                           i < k /\ toServer'[k] = Message("PromiseCancel", toServer'[i].id)
      BY DEF CancelFollows, Message
    <2>1. PICK k \in DOMAIN toServer :
             i + 1 < k /\ toServer[k] = Message("PromiseCancel", toServer'[i].id)
      BY <1>3, <1>5 DEF CancelInv, CancelFollows
    <2>2. k # 1 /\ i < k - 1
      BY <1>5, <2>1
    <2>3. k - 1 \in DOMAIN toServer' /\ toServer'[k - 1] = toServer[k]
      BY <1>5, <2>2
    <2>4. QED
      BY <2>1, <2>2, <2>3
  <1>8. \A i : OnItsWay("PromiseCancel", i) =>
            OnItsWay("PromiseCancel", i)' \/ message = Message("PromiseCancel", i)
    <2> SUFFICES ASSUME NEW i, OnItsWay("PromiseCancel", i), message # Message("PromiseCancel", i)
                 PROVE  OnItsWay("PromiseCancel", i)'
      OBVIOUS
    <2>1. PICK k \in DOMAIN toServer : toServer[k] = Message("PromiseCancel", i)
      BY DEF OnItsWay, ToSet
    <2>2. k - 1 \in DOMAIN toServer' /\ toServer'[k - 1] = Message("PromiseCancel", i)
      BY <1>5, <2>1
    <2>3. QED
      BY <2>2 DEF OnItsWay, ToSet, Message
  <1>9. CASE message.type \in {"Promise", "EventListen"} /\ HandOver(<<id>>)
             /\ UNCHANGED <<cancelled, collected>>
    <2>1. ToSet(<<id>>) = {id}
      BY DEF ToSet
    <2>2. running' = running \cup ({id} \cap Calls) /\ activeRequests' = activeRequests \cup {id}
      BY <1>9, <2>1 DEF HandOver
    <2>3. Cancellable'
      BY <1>6, <1>9, <2>2 DEF CancelInv, Cancellable
    <2>4. ASSUME NEW i \in Ids, i \in running' \ collected, outcome[i] = "CancellationError",
                 i \notin cancelled
          PROVE  OnItsWay("PromiseCancel", i)'
      <3>1. CASE i \in running
        <4>1. OnItsWay("PromiseCancel", i)
          BY <2>4, <3>1 DEF CancelInv, RunningAreTold
        <4>2. message # Message("PromiseCancel", i)
          BY <1>9 DEF Message
        <4>3. QED
          BY <1>8, <4>1, <4>2
      <3>2. CASE i \notin running
        <4>1. i = id /\ id \in Calls
          BY <2>2, <2>4, <3>2
        <4>2. message.type = "Promise"
          BY <1>2, <1>5, <1>6, <1>9, <4>1 DEF IInv, Known
        <4>3. PICK k \in DOMAIN toServer : 1 < k /\ toServer[k] = Message("PromiseCancel", id)
          BY <1>2, <1>5, <2>4, <4>1, <4>2 DEF CancelInv, CancelFollows
        <4>4. k - 1 \in DOMAIN toServer' /\ toServer'[k - 1] = Message("PromiseCancel", id)
          BY <1>5, <4>3
        <4>5. QED
          BY <4>1, <4>4 DEF OnItsWay, ToSet, Message
      <3>3. QED
        BY <3>1, <3>2
    <2>5. running' \subseteq Ids
      BY <1>6, <2>2 DEF TypeOK
    <2>6. RunningAreTold'
      BY <1>3, <1>9, <2>4, <2>5 DEF RunningAreTold
    <2>7. QED
      BY <1>7, <2>3, <2>6 DEF CancelInv
  <1>10. CASE message.type \in {"Promise", "EventListen"} /\ CollectPendingRequest(id)
              /\ UNCHANGED <<activeRequests, running, cancelled>>
    <2>1. /\ pendingRequests' = [pendingRequests EXCEPT ![request[id].channel] = Append(@, id)]
          /\ collected' = collected \cup {id}
      BY <1>10 DEF CollectPendingRequest
    <2>3. Cancellable'
      BY <1>6, <1>10, <2>1 DEF CancelInv, Cancellable
    <2>4. \A i : message # Message("PromiseCancel", i)
      BY <1>10 DEF Message
    <2>5. RunningAreTold'
      BY <1>3, <1>8, <1>10, <2>1, <2>4 DEF CancelInv, RunningAreTold
    <2>6. QED
      BY <1>7, <2>3, <2>5 DEF CancelInv
  <1>11. CASE DisposeActiveRequest(id) /\ UNCHANGED <<running, collected>>
    <2>1. /\ cancelled' = cancelled \cup ({id} \cap activeRequests \cap Calls)
          /\ activeRequests' = activeRequests \ {id}
      BY <1>11 DEF DisposeActiveRequest
    <2>2. Cancellable'
      BY <1>6, <1>11, <2>1 DEF CancelInv, Cancellable
    <2>3. \A i \in running \ collected : message = Message("PromiseCancel", i) => i \in cancelled'
      BY <1>2, <2>1 DEF Message, CancelInv, Cancellable
    <2>4. RunningAreTold'
      BY <1>3, <1>8, <1>11, <2>1, <2>3 DEF CancelInv, RunningAreTold
    <2>5. QED
      BY <1>7, <2>2, <2>4 DEF CancelInv
  <1>12. CASE UNCHANGED <<activeRequests, running, cancelled, collected>>
              /\ message.type = "EventListen"
    <2>1. Cancellable'
      BY <1>6, <1>12 DEF CancelInv, Cancellable
    <2>2. \A i : message # Message("PromiseCancel", i)
      BY <1>12 DEF Message
    <2>3. RunningAreTold'
      BY <1>3, <1>8, <1>12, <2>2 DEF CancelInv, RunningAreTold
    <2>4. QED
      BY <1>7, <2>1, <2>3 DEF CancelInv
  <1>13. QED
    BY <1>1, <1>2, <1>9, <1>10, <1>11, <1>12 DEF OnRequest

LEMMA ServiceCancels ==
    ASSUME IInv, OnceInv, CancelInv, NEW id \in Ids, ServiceEnds(id) \/ TimesOut(id)
    PROVE  CancelInv'
  <1>1. /\ UNCHANGED <<request, outcome, cancelled, collected, toServer>>
        /\ running' \subseteq running /\ Calls' = Calls
    BY DEF ServiceEnds, TimesOut, client, Calls
  <1>2. (running' \ collected) \cap activeRequests \subseteq activeRequests'
    <2>1. CASE TimesOut(id)
      BY <1>1, <2>1 DEF TimesOut
    <2>2. CASE ServiceEnds(id)
      <3>1. id \in running /\ id \in Calls /\ activeRequests' = activeRequests \ {id}
        BY <2>2 DEF ServiceEnds, CancelInv, Cancellable
      <3>2. id \notin collected => result[id].ended + 1 = result[id].calls
        <4>1. /\ result[id].ended < result[id].calls /\ result[id].ended \in Nat
              /\ result[id].calls \in Nat
          BY <3>1 DEF IInv, Truthful, TypeOK, Results
        <4>2. id \notin collected => result[id].calls <= 1
          BY <3>1 DEF OnceInv, OnceEach, Stranded
        <4>3. QED
          BY <4>1, <4>2
      <3>3. id \notin collected => id \notin running'
        BY <2>2, <3>2 DEF ServiceEnds
      <3>4. QED
        BY <1>1, <3>1, <3>3
    <2>3. QED
      BY <2>1, <2>2
  <1>3. Cancellable' /\ CancelFollows'
    BY <1>1, <1>2 DEF CancelInv, Cancellable, CancelFollows, Message
  <1>4. RunningAreTold'
    BY <1>1 DEF CancelInv, RunningAreTold, OnItsWay, Message
  <1>5. QED
    BY <1>3, <1>4 DEF CancelInv

LEMMA FlushCancels ==
    ASSUME IInv, OnceInv, CancelInv, NEW c \in Channel, FlushPendingRequests(c)
    PROVE  CancelInv'
  <1>1. UNCHANGED <<request, outcome, cancelled, collected, toServer>> /\ Calls' = Calls
    BY DEF FlushPendingRequests, client, Calls
  <1>2. PICK ids : HandOver(ids) /\ ToSet(ids) \subseteq ToSet(pendingRequests[c])
    BY FlushedPart
  <1>3. /\ running' = running \cup (ToSet(ids) \cap Calls)
        /\ activeRequests' = activeRequests \cup ToSet(ids)
    BY <1>2 DEF HandOver
  <1>4. ToSet(ids) \subseteq collected
    BY <1>2 DEF OnceInv, OnceCollected, ToSet
  <1>5. Cancellable' /\ CancelFollows'
    BY <1>1, <1>3, <1>4 DEF CancelInv, Cancellable, CancelFollows, Message
  <1>6. RunningAreTold'
    BY <1>1, <1>3, <1>4 DEF CancelInv, RunningAreTold, OnItsWay, Message
  <1>7. QED
    BY <1>5, <1>6 DEF CancelInv

LEMMA OtherCancels ==
    ASSUME IInv, CancelInv,
           DisposeServer \/ (\E c \in Channel : RegisterChannel(c)) \/ UNCHANGED vars
    PROVE  CancelInv'
  <1>1. /\ UNCHANGED <<request, outcome, running, collected, toServer>>
        /\ Calls' = Calls
        /\ cancelled \subseteq cancelled'
        /\ activeRequests \cap Calls \subseteq activeRequests' \cup cancelled'
    BY DEF DisposeServer, RegisterChannel, vars, client, server, Calls
  <1>2. Cancellable' /\ CancelFollows'
    BY <1>1 DEF CancelInv, Cancellable, CancelFollows, Message
  <1>3. RunningAreTold'
    BY <1>1 DEF CancelInv, RunningAreTold, OnItsWay, Message
  <1>4. QED
    BY <1>2, <1>3 DEF CancelInv

LEMMA InitCancelInv == Init => CancelInv
  BY DEF Init, CancelInv, Cancellable, CancelFollows, RunningAreTold

LEMMA AlwaysCancelInv == Spec => []CancelInv
  <1>1. ASSUME IInv, OnceInv, CancelInv, [Next]_vars
        PROVE  CancelInv'
    BY <1>1, RequestCancels, CancelCancels, ListenerCancels, WhenInitializedCancels,
       OnResponseCancels, DisposeClientCancels, RequestReadCancels, ServiceCancels, FlushCancels,
       OtherCancels DEF Next
  <1>2. QED
    BY <1>1, InitCancelInv, AlwaysIInv, AlwaysOnceInv, PTL DEF Spec

\* Whatever order calls, cancellations and registrations come in: the server
\* is told of every call that was given up while it is on its way or runs,
\* unless the call was collected.
THEOREM CancellationsArrive == Spec => []CancelIsDelivered
  <1>1. ASSUME CancelInv
        PROVE  CancelIsDelivered
    <2> SUFFICES ASSUME NEW id \in Calls, outcome[id] = "CancellationError",
                        OnItsWay("Promise", id)
                 PROVE  OnItsWay("PromiseCancel", id)
      BY <1>1 DEF CancelInv, RunningAreTold, CancelIsDelivered
    <2>1. PICK i \in DOMAIN toServer : toServer[i] = Message("Promise", id)
      BY DEF OnItsWay, ToSet
    <2>2. toServer[i].type = "Promise" /\ toServer[i].id = id
      BY <2>1 DEF Message
    <2>3. QED
      BY <1>1, <2>2 DEF CancelInv, CancelFollows, OnItsWay, ToSet
  <1>2. QED
    BY <1>1, AlwaysCancelInv, PTL

-----------------------------------------------------------------------------
(* Subscriptions                                                            *)

\* How often e is among the first n of s.
Seen(s, e, n) == Cardinality({i \in 1 .. n : s[i] = e})

LEMMA SeenFacts ==
    ASSUME NEW s, NEW e, NEW n \in Nat
    PROVE  /\ IsFiniteSet({i \in 1 .. n : s[i] = e})
           /\ Seen(s, e, n) \in Nat
           /\ Seen(s, e, 0) = 0
           /\ (\A i \in 1 .. n : s[i] # e) => Seen(s, e, n) = 0
  <1>1. IsFiniteSet({i \in 1 .. n : s[i] = e})
    <2>1. IsFiniteSet(1 .. n)
      BY FS_Interval
    <2>2. {i \in 1 .. n : s[i] = e} \subseteq 1 .. n
      OBVIOUS
    <2>3. QED
      BY <2>1, <2>2, FS_Subset
  <1>2. Cardinality({i \in 1 .. n : s[i] = e}) \in Nat
    BY <1>1, FS_CardinalityType
  <1>3. Cardinality({}) = 0
    BY FS_EmptySet
  <1>4. {i \in 1 .. 0 : s[i] = e} = {}
    OBVIOUS
  <1>5. (\A i \in 1 .. n : s[i] # e) => {i \in 1 .. n : s[i] = e} = {}
    OBVIOUS
  <1>6. QED
    BY <1>1, <1>2, <1>3, <1>4, <1>5 DEF Seen

LEMMA SeenAlike ==
    ASSUME NEW s, NEW u, NEW e, NEW k \in Nat, NEW n \in Nat, k <= n,
           \A i \in 1 .. k : u[i] = s[i],
           \A i \in (k + 1) .. n : u[i] # e
    PROVE  Seen(u, e, n) = Seen(s, e, k)
  <1>1. {i \in 1 .. n : u[i] = e} = {i \in 1 .. k : s[i] = e}
    <2>1. \A i \in 1 .. n : i \in 1 .. k \/ i \in (k + 1) .. n
      OBVIOUS
    <2>2. 1 .. k \subseteq 1 .. n
      OBVIOUS
    <2>3. QED
      BY <2>1, <2>2
  <1>2. QED
    BY <1>1 DEF Seen

LEMMA SeenOnceMore ==
    ASSUME NEW s, NEW u, NEW e, NEW k \in Nat, NEW n \in Nat, NEW p \in (k + 1) .. n,
           \A i \in 1 .. k : u[i] = s[i],
           u[p] = e, \A i \in (k + 1) .. n : u[i] = e => i = p
    PROVE  Seen(u, e, n) = Seen(s, e, k) + 1
  <1> DEFINE at == {i \in 1 .. k : s[i] = e}
  <1>1. {i \in 1 .. n : u[i] = e} = at \cup {p}
    <2>1. \A i \in 1 .. n : i \in 1 .. k \/ i \in (k + 1) .. n
      OBVIOUS
    <2>2. 1 .. k \subseteq 1 .. n /\ (k + 1) .. n \subseteq 1 .. n
      OBVIOUS
    <2>3. QED
      BY <2>1, <2>2
  <1>2. p \notin at
    OBVIOUS
  <1>3. IsFiniteSet(at)
    <2>1. IsFiniteSet(1 .. k) /\ at \subseteq 1 .. k
      BY FS_Interval
    <2>2. QED
      BY <2>1, FS_Subset
  <1> HIDE DEF at
  <1>4. Cardinality(at \cup {p}) = Cardinality(at) + 1
    BY <1>2, <1>3, FS_AddElement
  <1>5. QED
    BY <1>1, <1>4 DEF Seen, at

LEMMA SeenBehind ==
    ASSUME NEW s, NEW t, NEW e, NEW n \in Nat,
           \A i \in 1 .. n : t[i] = s[i + 1]
    PROVE  Seen(s, e, n + 1) = Seen(t, e, n) + (IF s[1] = e THEN 1 ELSE 0)
  <1> DEFINE at == {i \in 1 .. n : t[i] = e}
             later == {i \in 2 .. (n + 1) : s[i] = e}
             move == [i \in at |-> i + 1]
  <1>1. IsFiniteSet(at)
    BY SeenFacts
  <1>2. IsFiniteSet(later) /\ Cardinality(later) = Cardinality(at)
    <2>1. \A i \in at : i + 1 \in later
      OBVIOUS
    <2>2. \A i, j \in at : i + 1 = j + 1 => i = j
      OBVIOUS
    <2>3. \A j \in later : j - 1 \in at /\ (j - 1) + 1 = j
      <3> TAKE j \in later
      <3>1. j - 1 \in 1 .. n /\ (j - 1) + 1 = j
        OBVIOUS
      <3>2. t[j - 1] = s[(j - 1) + 1]
        BY <3>1
      <3>3. QED
        BY <3>1, <3>2
    <2> HIDE DEF at, later
    <2>4. move \in [at -> later] /\ \A i, j \in at : move[i] = move[j] => i = j
      BY <2>1, <2>2
    <2>5. \A j \in later : \E i \in at : move[i] = j
      BY <2>3
    <2>6. move \in Bijection(at, later)
      BY <2>4, <2>5 DEF Bijection, Injection, IsInjective, Surjection
    <2>7. ExistsBijection(at, later)
      BY <2>6 DEF ExistsBijection
    <2>8. QED
      BY <1>1, <2>7, FS_Bijection
  <1>3. CASE s[1] = e
    <2>1. {i \in 1 .. (n + 1) : s[i] = e} = later \cup {1}
      BY <1>3
    <2>2. 1 \notin later
      OBVIOUS
    <2> HIDE DEF later, at
    <2>3. Cardinality(later \cup {1}) = Cardinality(later) + 1
      BY <1>2, <2>2, FS_AddElement
    <2>4. QED
      BY <1>2, <1>3, <2>1, <2>3 DEF Seen, at
  <1>4. CASE s[1] # e
    <2>1. {i \in 1 .. (n + 1) : s[i] = e} = later
      BY <1>4
    <2>2. Cardinality(at) \in Nat
      BY <1>1, FS_CardinalityType
    <2> HIDE DEF later, at
    <2>3. QED
      BY <1>2, <1>4, <2>1, <2>2 DEF Seen, at
  <1>5. QED
    BY <1>3, <1>4

\* The client wants the event from the server, and has said so.
Wanted(id) == id \in listening /\ ~Waits(id)

\* Who listens: an event that waits for the Initialize waits once.
Listened ==
    /\ listening \subseteq Events
    /\ \A i, j \in DOMAIN waiting : waiting[i] = waiting[j] /\ waiting[i] \in Events => i = j
    /\ \A id \in Events : /\ outcome[id] = "none"
                          /\ Waits(id) => id \in listening
                          /\ id \in clientRequests <=> Wanted(id)

\* What the server has of an event when it has read n more messages.
Level(id, n) ==
    subscriptions[id] + Seen(toServer, Message("EventListen", id), n)
                      - Seen(toServer, Message("EventDispose", id), n)

\* Listening and disposing take turns, and end at what the client wants.
TakesTurns(id) ==
    /\ \A n \in 0 .. Len(toServer) : Level(id, n) \in {0, 1}
    /\ Level(id, Len(toServer)) = IF Wanted(id) THEN 1 ELSE 0

Even ==
    /\ \A id \in Ids \ DOMAIN request : subscriptions[id] = 0
    /\ \A i \in DOMAIN toServer :
          IF toServer[i].type \in {"EventListen", "EventDispose"}
          THEN toServer[i].id \in Events ELSE toServer[i].id \in Calls
    /\ \A id \in Subscribable :
          /\ isConnected => /\ id \in activeRequests <=> subscriptions[id] = 1
                            /\ TakesTurns(id)
          /\ ~isConnected => subscriptions[id] = 0

SubInv == Listened /\ Even

LEMMA OnWire ==
    ASSUME IInv, NEW M, Continues(toServer, toServer', M)
    PROVE  \E len, more \in Nat :
              /\ len = Len(toServer) /\ more = Len(toServer') /\ len <= more
              /\ DOMAIN toServer = 1 .. len /\ DOMAIN toServer' = 1 .. more
              /\ DOMAIN toServer' \ DOMAIN toServer = (len + 1) .. more
              /\ \A i \in 1 .. len : toServer'[i] = toServer[i]
  <1>1. toServer \in Seq(ToServer) /\ toServer' \in Seq(ToServer)
    BY DEF IInv, TypeOK, Continues
  <1>2. PICK len \in Nat : len = Len(toServer) /\ DOMAIN toServer = 1 .. len
    BY <1>1
  <1>3. PICK more \in Nat : more = Len(toServer') /\ DOMAIN toServer' = 1 .. more
    BY <1>1
  <1>4. 1 .. len \subseteq 1 .. more /\ \A i \in 1 .. len : toServer'[i] = toServer[i]
    BY <1>2, <1>3 DEF Continues
  <1>5. len <= more
    BY <1>4
  <1>6. (1 .. more) \ (1 .. len) = (len + 1) .. more
    BY <1>5
  <1>7. QED
    BY <1>2, <1>3, <1>4, <1>5, <1>6

LEMMA LevelNext ==
    ASSUME NEW id, NEW n
    PROVE  Level(id, n)' = subscriptions'[id] + Seen(toServer', Message("EventListen", id), n)
                                              - Seen(toServer', Message("EventDispose", id), n)
  BY DEF Level, Seen, Message

LEMMA LevelParts ==
    ASSUME IInv, NEW id \in Events, NEW n \in Nat
    PROVE  /\ subscriptions[id] \in Nat
           /\ Seen(toServer, Message("EventListen", id), n) \in Nat
           /\ Seen(toServer, Message("EventDispose", id), n) \in Nat
           /\ Level(id, n) \in Int
           /\ Level(id, 0) = subscriptions[id]
  <1>1. subscriptions[id] \in Nat
    BY Handed DEF IInv, TypeOK
  <1>2. /\ Seen(toServer, Message("EventListen", id), n) \in Nat
        /\ Seen(toServer, Message("EventDispose", id), n) \in Nat
        /\ Seen(toServer, Message("EventListen", id), 0) = 0
        /\ Seen(toServer, Message("EventDispose", id), 0) = 0
    BY SeenFacts
  <1>3. QED
    BY <1>1, <1>2 DEF Level

(* The client says nothing of the event, begins to listen, or stops to.     *)
LEMMA TurnKept ==
    ASSUME IInv, NEW id \in Events, TakesTurns(id), subscriptions'[id] = subscriptions[id],
           NEW M, Continues(toServer, toServer', M), Wanted(id)' = Wanted(id),
           \A i \in DOMAIN toServer' \ DOMAIN toServer :
               /\ toServer'[i] # Message("EventListen", id)
               /\ toServer'[i] # Message("EventDispose", id)
    PROVE  TakesTurns(id)'
  <1>1. PICK len \in Nat, more \in Nat :
           /\ len = Len(toServer) /\ more = Len(toServer') /\ len <= more
           /\ DOMAIN toServer' \ DOMAIN toServer = (len + 1) .. more
           /\ \A i \in 1 .. len : toServer'[i] = toServer[i]
    BY OnWire
  <1>2. ASSUME NEW n \in 0 .. more
        PROVE  \E m \in 0 .. len : Level(id, n)' = Level(id, m) /\ (n = more => m = len)
    <2>1. PICK m \in 0 .. len : m = IF n <= len THEN n ELSE len
      BY <1>1
    <2>2. /\ m \in Nat /\ n \in Nat /\ m <= n
          /\ \A i \in 1 .. m : toServer'[i] = toServer[i]
          /\ (m + 1) .. n \subseteq (len + 1) .. more
      BY <1>1, <2>1
    <2>3. \A i \in (m + 1) .. n : /\ toServer'[i] # Message("EventListen", id)
                                  /\ toServer'[i] # Message("EventDispose", id)
      BY <1>1, <2>2
    <2>4. /\ Seen(toServer', Message("EventListen", id), n)
               = Seen(toServer, Message("EventListen", id), m)
          /\ Seen(toServer', Message("EventDispose", id), n)
               = Seen(toServer, Message("EventDispose", id), m)
      BY <2>2, <2>3, SeenAlike
    <2>5. Level(id, n)' = Level(id, m)
      BY <2>4, LevelNext DEF Level
    <2>6. QED
      BY <1>1, <2>1, <2>5
  <1>3. more \in 0 .. more
    OBVIOUS
  <1>4. \A n \in 0 .. more : Level(id, n)' \in {0, 1}
    BY <1>1, <1>2 DEF TakesTurns
  <1>5. Level(id, more)' = IF Wanted(id) THEN 1 ELSE 0
    BY <1>1, <1>2, <1>3 DEF TakesTurns
  <1>6. QED
    BY <1>1, <1>4, <1>5 DEF TakesTurns

(* One message of the event, behind the others, turns it.                   *)
LEMMA TurnTaken ==
    ASSUME IInv, NEW id \in Events, TakesTurns(id), subscriptions'[id] = subscriptions[id],
           NEW M, Continues(toServer, toServer', M), Wanted(id)' # Wanted(id),
           NEW p \in DOMAIN toServer' \ DOMAIN toServer,
           toServer'[p] = Message(IF Wanted(id) THEN "EventDispose" ELSE "EventListen", id),
           \A i \in DOMAIN toServer' \ DOMAIN toServer :
               /\ toServer'[i] = Message("EventListen", id) => i = p
               /\ toServer'[i] = Message("EventDispose", id) => i = p
    PROVE  TakesTurns(id)'
  <1>1. PICK len \in Nat, more \in Nat :
           /\ len = Len(toServer) /\ more = Len(toServer') /\ len <= more
           /\ DOMAIN toServer' \ DOMAIN toServer = (len + 1) .. more
           /\ \A i \in 1 .. len : toServer'[i] = toServer[i]
    BY OnWire
  <1>2. p \in (len + 1) .. more
    BY <1>1
  <1>3. PICK turn, other \in {"EventListen", "EventDispose"} :
           /\ turn # other
           /\ turn = IF Wanted(id) THEN "EventDispose" ELSE "EventListen"
    OBVIOUS
  <1>4. Message(turn, id) # Message(other, id)
    BY <1>3 DEF Message
  <1>5. ASSUME NEW n \in 0 .. more, n < p
        PROVE  \E m \in 0 .. len : Level(id, n)' = Level(id, m)
    <2>1. PICK m \in 0 .. len : m = IF n <= len THEN n ELSE len
      BY <1>1
    <2>2. /\ m \in Nat /\ n \in Nat /\ m <= n
          /\ \A i \in 1 .. m : toServer'[i] = toServer[i]
          /\ (m + 1) .. n \subseteq (len + 1) .. more
          /\ \A i \in (m + 1) .. n : i # p
      BY <1>1, <1>2, <1>5, <2>1
    <2>3. \A i \in (m + 1) .. n : /\ toServer'[i] # Message("EventListen", id)
                                  /\ toServer'[i] # Message("EventDispose", id)
      BY <1>1, <2>2
    <2>4. /\ Seen(toServer', Message("EventListen", id), n)
               = Seen(toServer, Message("EventListen", id), m)
          /\ Seen(toServer', Message("EventDispose", id), n)
               = Seen(toServer, Message("EventDispose", id), m)
      BY <2>2, <2>3, SeenAlike
    <2>5. Level(id, n)' = Level(id, m)
      BY <2>4, LevelNext DEF Level
    <2>6. QED
      BY <2>5
  <1>6. ASSUME NEW n \in 0 .. more, ~(n < p)
        PROVE  Level(id, n)' = IF Wanted(id)' THEN 1 ELSE 0
    <2>1. /\ n \in Nat /\ p \in (len + 1) .. n /\ len <= n
          /\ (len + 1) .. n \subseteq (len + 1) .. more
      BY <1>1, <1>2, <1>6
    <2>2. /\ toServer'[p] = Message(turn, id)
          /\ \A i \in (len + 1) .. n : toServer'[i] = Message(turn, id) => i = p
          /\ \A i \in (len + 1) .. n : toServer'[i] # Message(other, id)
      BY <1>1, <1>3, <1>4, <2>1
    <2>3. Seen(toServer', Message(turn, id), n) = Seen(toServer, Message(turn, id), len) + 1
      <3>1. PICK s, u, e : s = toServer /\ u = toServer' /\ e = Message(turn, id)
        OBVIOUS
      <3>2. /\ \A i \in 1 .. len : u[i] = s[i]
            /\ u[p] = e /\ \A i \in (len + 1) .. n : u[i] = e => i = p
        BY <1>1, <2>2, <3>1
      <3>3. Seen(u, e, n) = Seen(s, e, len) + 1
        BY <2>1, <3>2, SeenOnceMore, SMTT(30)
      <3>4. QED
        BY <3>1, <3>3
    <2>4. Seen(toServer', Message(other, id), n) = Seen(toServer, Message(other, id), len)
      <3>1. PICK s, u, e : s = toServer /\ u = toServer' /\ e = Message(other, id)
        OBVIOUS
      <3>2. (\A i \in 1 .. len : u[i] = s[i]) /\ \A i \in (len + 1) .. n : u[i] # e
        BY <1>1, <2>2, <3>1
      <3>3. Seen(u, e, n) = Seen(s, e, len)
        BY <2>1, <3>2, SeenAlike
      <3>4. QED
        BY <3>1, <3>3
    <2>5. Level(id, len) = IF Wanted(id) THEN 1 ELSE 0
      BY <1>1 DEF TakesTurns
    <2>6. /\ Seen(toServer, Message("EventListen", id), len) \in Nat
          /\ Seen(toServer, Message("EventDispose", id), len) \in Nat
          /\ subscriptions[id] \in Nat
      BY LevelParts
    <2>7. CASE Wanted(id)
      <3>1. turn = "EventDispose" /\ other = "EventListen" /\ ~Wanted(id)'
        BY <1>3, <2>7
      <3>2. Level(id, n)' = Level(id, len) - 1
        BY <2>3, <2>4, <2>6, <3>1, LevelNext DEF Level
      <3>3. QED
        BY <2>5, <2>7, <3>1, <3>2
    <2>8. CASE ~Wanted(id)
      <3>1. turn = "EventListen" /\ other = "EventDispose" /\ Wanted(id)'
        BY <1>3, <2>8 DEF Wanted
      <3>2. Level(id, n)' = Level(id, len) + 1
        BY <2>3, <2>4, <2>6, <3>1, LevelNext DEF Level
      <3>3. QED
        BY <2>5, <2>8, <3>1, <3>2
    <2>9. QED
      BY <2>7, <2>8
  <1>7. \A n \in 0 .. more : Level(id, n)' \in {0, 1}
    <2> TAKE n \in 0 .. more
    <2>1. CASE n < p
      BY <1>1, <1>5, <2>1 DEF TakesTurns
    <2>2. CASE ~(n < p)
      BY <1>6, <2>2
    <2>3. QED
      BY <2>1, <2>2
  <1>8. Level(id, more)' = IF Wanted(id)' THEN 1 ELSE 0
    <2>1. more \in 0 .. more /\ ~(more < p)
      BY <1>2
    <2>2. QED
      BY <1>6, <2>1
  <1>9. QED
    BY <1>1, <1>7, <1>8 DEF TakesTurns

(* The server reads a message: it has then what one more message leaves.    *)
LEMMA LevelOne ==
    ASSUME IInv, NEW id \in Events, toServer # <<>>
    PROVE  Level(id, 1) = subscriptions[id]
              + (IF toServer[1] = Message("EventListen", id) THEN 1 ELSE 0)
              - (IF toServer[1] = Message("EventDispose", id) THEN 1 ELSE 0)
  <1>1. \A e : Seen(toServer, e, 1) = IF toServer[1] = e THEN 1 ELSE 0
    <2> TAKE e
    <2>1. \A i \in 1 .. 0 : Tail(toServer)[i] = toServer[i + 1]
      OBVIOUS
    <2>2. Seen(toServer, e, 0 + 1) = Seen(Tail(toServer), e, 0) + (IF toServer[1] = e THEN 1 ELSE 0)
      BY <2>1, SeenBehind
    <2>3. Seen(Tail(toServer), e, 0) = 0
      BY SeenFacts
    <2>4. QED
      BY <2>2, <2>3
  <1>2. subscriptions[id] \in Nat
    BY LevelParts
  <1>3. QED
    BY <1>1, <1>2 DEF Level

LEMMA TurnRead ==
    ASSUME IInv, NEW id \in Events, TakesTurns(id), toServer # <<>>, toServer' = Tail(toServer),
           UNCHANGED <<listening, waiting>>, subscriptions'[id] = Level(id, 1)
    PROVE  TakesTurns(id)' /\ subscriptions'[id] \in {0, 1}
  <1>1. toServer \in Seq(ToServer)
    BY DEF IInv, TypeOK
  <1>2. PICK len \in Nat : len + 1 = Len(toServer) /\ len = Len(toServer')
    <2>1. Len(toServer) \in Nat /\ Len(toServer) # 0 /\ Len(Tail(toServer)) = Len(toServer) - 1
      BY <1>1, HeadTailProperties
    <2>2. \A l \in Nat : l # 0 => \E m \in Nat : m = l - 1 /\ m + 1 = l
      <3> TAKE l \in Nat
      <3>1. HAVE l # 0
      <3>2. l - 1 \in Nat /\ (l - 1) + 1 = l
        BY <3>1, SMTT(30)
      <3>3. QED
        BY <3>2
    <2>3. PICK len \in Nat : len = Len(toServer) - 1 /\ len + 1 = Len(toServer)
      BY <2>1, <2>2, Zenon
    <2>4. len + 1 = Len(toServer) /\ len = Len(toServer')
      BY <2>1, <2>3
    <2>5. QED
      BY <2>4, Zenon
  <1>3. \A i \in 1 .. len : toServer'[i] = toServer[i + 1]
    BY <1>1, <1>2, HeadTailProperties
  <1>4. subscriptions'[id] = subscriptions[id]
              + (IF toServer[1] = Message("EventListen", id) THEN 1 ELSE 0)
              - (IF toServer[1] = Message("EventDispose", id) THEN 1 ELSE 0)
    BY LevelOne
  <1>5. ASSUME NEW n \in 0 .. len
        PROVE  Level(id, n)' = Level(id, n + 1)
    <2>1. \A e : Seen(toServer, e, n + 1)
                    = Seen(toServer', e, n) + (IF toServer[1] = e THEN 1 ELSE 0)
      <3> TAKE e
      <3>1. PICK s, t : s = toServer /\ t = toServer'
        OBVIOUS
      <3>2. n \in Nat /\ \A i \in 1 .. n : t[i] = s[i + 1]
        <4>1. n \in Nat /\ 1 .. n \subseteq 1 .. len
          OBVIOUS
        <4>2. QED
          BY <1>3, <3>1, <4>1
      <3>3. Seen(s, e, n + 1) = Seen(t, e, n) + (IF s[1] = e THEN 1 ELSE 0)
        BY <3>2, SeenBehind
      <3>4. QED
        BY <3>1, <3>3
    <2>2. /\ Seen(toServer', Message("EventListen", id), n) \in Nat
          /\ Seen(toServer', Message("EventDispose", id), n) \in Nat
          /\ subscriptions[id] \in Nat
      <3>1. n \in Nat
        OBVIOUS
      <3>2. QED
        BY <3>1, SeenFacts, LevelParts
    <2>3. /\ Level(id, n)' = subscriptions'[id] + Seen(toServer', Message("EventListen", id), n)
                                               - Seen(toServer', Message("EventDispose", id), n)
          /\ Level(id, n + 1) = subscriptions[id] + Seen(toServer, Message("EventListen", id), n + 1)
                                                 - Seen(toServer, Message("EventDispose", id), n + 1)
      BY LevelNext DEF Level
    <2>4. PICK s, l, d \in Nat, x, y \in {0, 1} :
             /\ s = subscriptions[id]
             /\ l = Seen(toServer', Message("EventListen", id), n)
             /\ d = Seen(toServer', Message("EventDispose", id), n)
             /\ x = IF toServer[1] = Message("EventListen", id) THEN 1 ELSE 0
             /\ y = IF toServer[1] = Message("EventDispose", id) THEN 1 ELSE 0
      BY <2>2
    <2>5. /\ Level(id, n)' = (s + x - y) + l - d
          /\ Level(id, n + 1) = s + (l + x) - (d + y)
      BY <1>4, <2>1, <2>3, <2>4
    <2>6. (s + x - y) + l - d = s + (l + x) - (d + y)
      <3>1. s \in Int /\ l \in Int /\ d \in Int /\ x \in Int /\ y \in Int
        OBVIOUS
      <3>2. \A i, j, k, m, n1 \in Int : (i + m - n1) + j - k = i + (j + m) - (k + n1)
        OBVIOUS
      <3>3. QED
        BY <3>1, <3>2
    <2>7. QED
      BY <2>5, <2>6
  <1>6. \A n \in 0 .. len : n + 1 \in 0 .. (len + 1)
    OBVIOUS
  <1>7. Wanted(id)' = Wanted(id)
    BY DEF Wanted, Waits
  <1>8. TakesTurns(id)'
    BY <1>2, <1>5, <1>6, <1>7 DEF TakesTurns
  <1>9. subscriptions'[id] \in {0, 1}
    <2>1. 1 \in 0 .. Len(toServer)
      BY <1>2
    <2>2. QED
      BY <2>1 DEF TakesTurns
  <1>10. QED
    BY <1>8, <1>9

LEMMA SubscribableEvents ==
    Subscribable \subseteq Events /\ \A id \in Subscribable : id \notin collected
  BY DEF Subscribable

LEMMA SubscribableShrinks ==
    ASSUME Events' = Events, collected \subseteq collected',
           \A id \in Events : throws'[id] = 0 => throws[id] = 0
    PROVE  Subscribable' \subseteq Subscribable
  BY DEF Subscribable

(* A step of the client which leaves every event in its turn.               *)
LEMMA ClientEven ==
    ASSUME IInv, Even, UNCHANGED server, NEW M, Continues(toServer, toServer', M),
           DOMAIN request \subseteq DOMAIN request', Events \subseteq Events', Calls \subseteq Calls',
           \A i \in DOMAIN toServer' \ DOMAIN toServer :
               IF toServer'[i].type \in {"EventListen", "EventDispose"}
               THEN toServer'[i].id \in Events' ELSE toServer'[i].id \in Calls',
           \A id \in Events : TakesTurns(id) => TakesTurns(id)',
           \A id \in Events' \ Events : id \in Ids \ DOMAIN request /\ TakesTurns(id)'
    PROVE  Even'
  <1>1. UNCHANGED <<activeRequests, subscriptions, throws, collected, isConnected>>
    BY DEF server
  <1>2. \A id \in Ids \ DOMAIN request' : subscriptions'[id] = 0
    BY <1>1 DEF Even
  <1>3. \A i \in DOMAIN toServer' :
            IF toServer'[i].type \in {"EventListen", "EventDispose"}
            THEN toServer'[i].id \in Events' ELSE toServer'[i].id \in Calls'
    BY DEF Even, Continues
  <1>4. \A id \in Events' \ Events : subscriptions[id] = 0 /\ id \notin activeRequests
    BY DEF Even, IInv, Known
  <1>5. ASSUME NEW id \in Subscribable'
        PROVE  /\ isConnected => /\ id \in activeRequests <=> subscriptions[id] = 1
                                 /\ TakesTurns(id)'
               /\ ~isConnected => subscriptions[id] = 0
    <2>1. id \in Events' /\ (id \in Events => id \in Subscribable)
      BY <1>1, <1>5 DEF Subscribable
    <2>2. CASE id \in Events
      BY <2>1, <2>2, SubscribableEvents DEF Even
    <2>3. CASE id \notin Events
      BY <1>4, <2>1, <2>3
    <2>4. QED
      BY <2>2, <2>3
  <1>6. QED
    BY <1>1, <1>2, <1>3, <1>5 DEF Even

(* A step of the client about a call.                                       *)
LEMMA CallStep ==
    ASSUME IInv, SubInv, UNCHANGED <<server, listening>>, Events' = Events,
           DOMAIN request \subseteq DOMAIN request', Calls \subseteq Calls',
           NEW M, Continues(toServer, toServer', M),
           \A i \in DOMAIN toServer' \ DOMAIN toServer :
               /\ toServer'[i].type \notin {"EventListen", "EventDispose"}
               /\ toServer'[i].id \in Calls',
           \A id \in Events : /\ outcome'[id] = outcome[id]
                              /\ Waits(id)' = Waits(id)
                              /\ id \in clientRequests' <=> id \in clientRequests,
           \A i, j \in DOMAIN waiting' :
               waiting'[i] = waiting'[j] /\ waiting'[i] \in Events => i = j
    PROVE  SubInv'
  <1>1. \A id \in Events : Wanted(id)' = Wanted(id)
    BY DEF Wanted
  <1>2. Listened'
    BY <1>1 DEF SubInv, Listened
  <1>3. ASSUME NEW id \in Events, TakesTurns(id)
        PROVE  TakesTurns(id)'
    <2>1. \A i \in DOMAIN toServer' \ DOMAIN toServer :
              /\ toServer'[i] # Message("EventListen", id)
              /\ toServer'[i] # Message("EventDispose", id)
      BY DEF Message
    <2>2. subscriptions'[id] = subscriptions[id]
      BY DEF server
    <2>3. QED
      BY <1>1, <1>3, <2>1, <2>2, TurnKept
  <1>4. Even'
    BY <1>3, ClientEven DEF SubInv
  <1>5. QED
    BY <1>2, <1>4 DEF SubInv

LEMMA RequestPromiseTurns ==
    ASSUME IInv, SubInv, NEW c \in Channel, RequestPromise(c)
    PROVE  SubInv'
  <1>0. PICK new : new = Len(request) + 1
    OBVIOUS
  <1>1. PICK r \in Requests : r.kind = "call" /\ request' = Append(request, r)
    <2>1. [kind |-> "call", channel |-> c] \in Requests
      BY DEF Requests
    <2>2. QED
      BY <2>1 DEF RequestPromise
  <1>2. UNCHANGED <<server, listening>> /\ Len(request) + 1 <= MaxRequest
    BY DEF RequestPromise
  <1>3. /\ TypeOK /\ new \in Ids /\ new \notin Events /\ Events' = Events
        /\ Calls' = Calls \cup {new} /\ Calls' \cap Events = {}
        /\ DOMAIN request \subseteq DOMAIN request'
    <2>1. TypeOK /\ Events \subseteq DOMAIN request /\ Calls \cap Events = {}
      BY Handed DEF IInv
    <2>2. /\ new \in Ids /\ new \notin DOMAIN request
          /\ DOMAIN request' = DOMAIN request \cup {new}
          /\ Calls' = Calls \cup {new} /\ Events' = Events
      BY <1>0, <1>1, <1>2, <2>1, Growing
    <2>3. QED
      BY <2>1, <2>2
  <1>4. \/ UNCHANGED toServer
        \/ toServer' = Append(toServer, Message("Promise", new))
    BY <1>0 DEF RequestPromise, DoCall, SendRequest
  <1>5. \/ outcome' = [outcome EXCEPT ![new] = "not sent"]
        \/ outcome' = [outcome EXCEPT ![new] = "pending"]
    BY <1>0 DEF RequestPromise, DoCall
  <1>6. \/ clientRequests' = clientRequests \cup {new}
        \/ clientRequests' = clientRequests \ {new}
    BY <1>0 DEF RequestPromise, DoCall
  <1>7. UNCHANGED waiting \/ waiting' = Append(waiting, new)
    BY <1>0 DEF RequestPromise
  <1>8. /\ Continues(toServer, toServer', {Message("Promise", new)})
        /\ \A i \in DOMAIN toServer' \ DOMAIN toServer : toServer'[i] = Message("Promise", new)
    <2>1. toServer \in Seq(ToServer) /\ Message("Promise", new) \in ToServer
      BY <1>3 DEF TypeOK, Message, ToServer
    <2>2. Continues(toServer, toServer', {Message("Promise", new)})
      BY <1>4, <2>1, OneMore
    <2>3. QED
      BY <2>2 DEF Continues
  <1>9. \A i \in DOMAIN toServer' \ DOMAIN toServer :
            toServer'[i].type \notin {"EventListen", "EventDispose"} /\ toServer'[i].id \in Calls'
    BY <1>3, <1>8 DEF Message
  <1>10. \A id \in Events : outcome'[id] = outcome[id] /\ (id \in clientRequests' <=> id \in clientRequests)
    <2>1. outcome \in [Ids -> Outcomes] /\ Events \subseteq Ids
      BY <1>3, Handed DEF TypeOK
    <2>2. QED
      BY <1>3, <1>5, <1>6, <2>1
  <1>11. /\ \A id \in Events : Waits(id)' = Waits(id)
         /\ \A i, j \in DOMAIN waiting' :
                waiting'[i] = waiting'[j] /\ waiting'[i] \in Events => i = j
    <2>1. CASE UNCHANGED waiting
      BY <2>1 DEF Waits, SubInv, Listened
    <2>2. CASE waiting' = Append(waiting, new)
      <3>1. /\ DOMAIN waiting \subseteq DOMAIN waiting'
            /\ \A i \in DOMAIN waiting' :
                  \/ i \in DOMAIN waiting /\ waiting'[i] = waiting[i]
                  \/ waiting'[i] = new
            /\ \A i \in DOMAIN waiting : waiting'[i] = waiting[i]
        <4>1. waiting \in Seq(Ids)
          BY <1>3 DEF TypeOK
        <4>2. QED
          BY <1>3, <2>2, <4>1
      <3>2. \A i \in DOMAIN waiting' : waiting'[i] \in Events =>
                i \in DOMAIN waiting /\ waiting'[i] = waiting[i]
        BY <1>3, <3>1
      <3>3. QED
        BY <3>1, <3>2 DEF Waits, SubInv, Listened
    <2>3. QED
      BY <1>7, <2>1, <2>2
  <1>12. QED
    BY <1>2, <1>3, <1>8, <1>9, <1>10, <1>11, CallStep

LEMMA CancelTurns ==
    ASSUME IInv, SubInv, NEW id \in Calls, Cancel(id)
    PROVE  SubInv'
  <1>1. /\ TypeOK /\ id \in Ids /\ id \notin Events /\ Events' = Events /\ Calls' = Calls
        /\ UNCHANGED <<server, request, listening, waiting>>
        /\ outcome' = [outcome EXCEPT ![id] = "CancellationError"]
        /\ clientRequests' = clientRequests \ {id}
    BY Handed DEF IInv, Cancel, Events, Calls
  <1>2. UNCHANGED toServer \/ toServer' = Append(toServer, Message("PromiseCancel", id))
    BY DEF Cancel, SendRequest
  <1>3. /\ Continues(toServer, toServer', {Message("PromiseCancel", id)})
        /\ \A i \in DOMAIN toServer' \ DOMAIN toServer : toServer'[i] = Message("PromiseCancel", id)
    <2>1. toServer \in Seq(ToServer) /\ Message("PromiseCancel", id) \in ToServer
      BY <1>1 DEF TypeOK, Message, ToServer
    <2>2. Continues(toServer, toServer', {Message("PromiseCancel", id)})
      BY <1>2, <2>1, OneMore
    <2>3. QED
      BY <2>2 DEF Continues
  <1>4. \A i \in DOMAIN toServer' \ DOMAIN toServer :
            toServer'[i].type \notin {"EventListen", "EventDispose"} /\ toServer'[i].id \in Calls'
    BY <1>1, <1>3 DEF Message
  <1>5. \A e \in Events : outcome'[e] = outcome[e] /\ (e \in clientRequests' <=> e \in clientRequests)
    <2>1. outcome \in [Ids -> Outcomes] /\ Events \subseteq Ids
      BY <1>1, Handed DEF TypeOK
    <2>2. QED
      BY <1>1, <2>1
  <1>6. /\ \A e \in Events : Waits(e)' = Waits(e)
        /\ \A i, j \in DOMAIN waiting' :
                waiting'[i] = waiting'[j] /\ waiting'[i] \in Events => i = j
    BY <1>1 DEF Waits, SubInv, Listened
  <1>7. QED
    BY <1>1, <1>3, <1>4, <1>5, <1>6, CallStep

LEMMA OnResponseTurns ==
    ASSUME IInv, SubInv, OnResponse
    PROVE  SubInv'
  <1>0. PICK response : response = Head(toClient)
    OBVIOUS
  <1>1. /\ TypeOK /\ Events' = Events /\ Events \subseteq Ids /\ Calls' = Calls
        /\ UNCHANGED <<server, request, listening, waiting, toServer>>
    BY Handed DEF IInv, OnResponse, Events, Calls
  <1>2. \/ UNCHANGED <<outcome, clientRequests>>
        \/ /\ outcome[response.id] = "pending"
           /\ outcome' = [outcome EXCEPT ![response.id] = response.type]
           /\ clientRequests' = clientRequests \ {response.id}
    BY <1>0 DEF OnResponse
  <1>3. \A id \in Events : outcome'[id] = outcome[id] /\ (id \in clientRequests' <=> id \in clientRequests)
    <2>1. outcome \in [Ids -> Outcomes]
      BY <1>1 DEF TypeOK
    <2>2. \A id \in Events : outcome[id] = "none"
      BY DEF SubInv, Listened
    <2>3. QED
      BY <1>1, <1>2, <2>1, <2>2
  <1>4. Continues(toServer, toServer', {}) /\ DOMAIN toServer' \ DOMAIN toServer = {}
    BY <1>1 DEF Continues, TypeOK
  <1>5. /\ \A e \in Events : Waits(e)' = Waits(e)
        /\ \A i, j \in DOMAIN waiting' :
                waiting'[i] = waiting'[j] /\ waiting'[i] \in Events => i = j
    BY <1>1 DEF Waits, SubInv, Listened
  <1>6. QED
    BY <1>1, <1>3, <1>4, <1>5, CallStep

LEMMA RequestEventTurns ==
    ASSUME IInv, SubInv, NEW c \in Channel, RequestEvent(c)
    PROVE  SubInv'
  <1>0. PICK new : new = Len(request) + 1
    OBVIOUS
  <1>1. PICK r \in Requests : r.kind = "event" /\ request' = Append(request, r)
    <2>1. [kind |-> "event", channel |-> c] \in Requests
      BY DEF Requests
    <2>2. QED
      BY <2>1 DEF RequestEvent
  <1>2. /\ UNCHANGED <<server, listening, waiting, outcome, clientRequests, toServer>>
        /\ Len(request) + 1 <= MaxRequest
    BY DEF RequestEvent
  <1>3. /\ TypeOK /\ new \in Ids /\ new \notin DOMAIN request /\ Events' = Events \cup {new}
        /\ DOMAIN request' = DOMAIN request \cup {new} /\ Events \subseteq DOMAIN request
        /\ Calls' = Calls
    <2>1. TypeOK /\ Events \subseteq DOMAIN request
      BY Handed DEF IInv
    <2>2. QED
      BY <1>0, <1>1, <1>2, <2>1, Growing
  <1>4. /\ \A i \in DOMAIN waiting : waiting[i] # new
        /\ new \notin clientRequests /\ outcome[new] = "none" /\ new \notin listening
        /\ \A i \in DOMAIN toServer : toServer[i].id # new
    BY <1>3 DEF IInv, Known, SubInv, Listened
  <1>5. ~Wanted(new) /\ ~Wanted(new)' /\ ~Waits(new)' /\ \A id : Waits(id)' = Waits(id) /\ Wanted(id)' = Wanted(id)
    BY <1>2, <1>4 DEF Wanted, Waits
  <1>6. Listened'
    <2>1. \A i, j \in DOMAIN waiting :
              waiting[i] = waiting[j] /\ waiting[i] \in Events' => i = j
      BY <1>3, <1>4 DEF SubInv, Listened
    <2>2. QED
      BY <1>2, <1>3, <1>4, <1>5, <2>1 DEF SubInv, Listened
  <1>7. TakesTurns(new)'
    <2>1. PICK len \in Nat : len = Len(toServer) /\ DOMAIN toServer = 1 .. len
      BY <1>3 DEF TypeOK
    <2>2. subscriptions[new] = 0
      BY <1>3 DEF SubInv, Even
    <2>3. \A i \in 1 .. len : /\ toServer[i] # Message("EventListen", new)
                             /\ toServer[i] # Message("EventDispose", new)
      BY <1>4, <2>1 DEF Message
    <2>4. ASSUME NEW n \in 0 .. len
          PROVE  Level(new, n)' = 0
      <3>1. n \in Nat /\ 1 .. n \subseteq 1 .. len
        OBVIOUS
      <3>2. /\ Seen(toServer, Message("EventListen", new), n) = 0
            /\ Seen(toServer, Message("EventDispose", new), n) = 0
        BY <2>3, <3>1, SeenFacts
      <3>3. subscriptions' = subscriptions /\ toServer' = toServer
        BY <1>2 DEF server
      <3>4. QED
        BY <2>2, <3>2, <3>3, LevelNext
    <2>5. len \in 0 .. len
      OBVIOUS
    <2>6. QED
      BY <1>2, <1>5, <2>1, <2>4, <2>5 DEF TakesTurns
  <1>8. \A id \in Events : TakesTurns(id) => TakesTurns(id)'
    <2> SUFFICES ASSUME NEW id \in Events, TakesTurns(id)
                 PROVE  TakesTurns(id)'
      OBVIOUS
    <2>1. Continues(toServer, toServer', {}) /\ DOMAIN toServer' \ DOMAIN toServer = {}
      BY <1>2, <1>3 DEF Continues, TypeOK
    <2>2. subscriptions'[id] = subscriptions[id]
      BY <1>2 DEF server
    <2>3. QED
      BY <1>5, <2>1, <2>2, TurnKept
  <1>9. Continues(toServer, toServer', {}) /\ DOMAIN toServer' \ DOMAIN toServer = {}
    BY <1>2, <1>3 DEF Continues, TypeOK
  <1>10. Even'
    BY <1>2, <1>3, <1>7, <1>8, <1>9, ClientEven DEF SubInv
  <1>11. QED
    BY <1>6, <1>10 DEF SubInv

(* The client sends one message about an event, which it turns; the others  *)
(* stay in their turn.                                                      *)
LEMMA OneTurns ==
    ASSUME IInv, SubInv, UNCHANGED <<server, request>>, NEW id \in Events,
           Wanted(id)' # Wanted(id),
           toServer' = Append(toServer,
                          Message(IF Wanted(id) THEN "EventDispose" ELSE "EventListen", id)),
           \A e \in Events \ {id} : Wanted(e)' = Wanted(e)
    PROVE  Even'
  <1>1. PICK m : m = Message(IF Wanted(id) THEN "EventDispose" ELSE "EventListen", id)
    OBVIOUS
  <1>2. /\ id \in Ids /\ toServer \in Seq(ToServer) /\ m \in ToServer /\ m.id = id
        /\ m.type \in {"EventListen", "EventDispose"} /\ Events' = Events /\ Calls' = Calls
    BY <1>1, Handed DEF IInv, TypeOK, Message, ToServer, Events, Calls
  <1>3. /\ Continues(toServer, toServer', {m})
        /\ DOMAIN toServer' \ DOMAIN toServer = {Len(toServer) + 1}
        /\ toServer'[Len(toServer) + 1] = m
    BY <1>1, <1>2, OneMore, OneBehind
  <1>4. UNCHANGED subscriptions
    BY DEF server
  <1>5. ASSUME NEW e \in Events, TakesTurns(e)
        PROVE  TakesTurns(e)'
    <2>1. subscriptions'[e] = subscriptions[e]
      BY <1>4
    <2>2. CASE e = id
      <3>1. Len(toServer) + 1 \in DOMAIN toServer' \ DOMAIN toServer
        BY <1>3
      <3>2. /\ TakesTurns(id) /\ subscriptions'[id] = subscriptions[id]
            /\ toServer'[Len(toServer) + 1]
                  = Message(IF Wanted(id) THEN "EventDispose" ELSE "EventListen", id)
            /\ \A i \in DOMAIN toServer' \ DOMAIN toServer : i = Len(toServer) + 1
        BY <1>1, <1>3, <1>5, <2>1, <2>2
      <3>3. TakesTurns(id)'
        BY <1>3, <3>1, <3>2, TurnTaken
      <3>4. QED
        BY <2>2, <3>3
    <2>3. CASE e # id
      <3>1. \A i \in DOMAIN toServer' \ DOMAIN toServer :
                /\ toServer'[i] # Message("EventListen", e)
                /\ toServer'[i] # Message("EventDispose", e)
        BY <1>2, <1>3, <2>3 DEF Message
      <3>2. Wanted(e)' = Wanted(e)
        BY <2>3
      <3>3. QED
        BY <1>3, <1>5, <2>1, <3>1, <3>2, TurnKept
    <2>4. QED
      BY <2>2, <2>3
  <1>6. \A i \in DOMAIN toServer' \ DOMAIN toServer :
            toServer'[i].type \in {"EventListen", "EventDispose"} /\ toServer'[i].id \in Events'
    BY <1>2, <1>3
  <1>7. QED
    BY <1>2, <1>3, <1>5, <1>6, ClientEven DEF SubInv

(* The client says nothing, and wants what it wanted.                       *)
LEMMA NoneTurns ==
    ASSUME IInv, SubInv, UNCHANGED <<server, request, toServer>>,
           \A e \in Events : Wanted(e)' = Wanted(e)
    PROVE  Even'
  <1>1. Continues(toServer, toServer', {}) /\ DOMAIN toServer' \ DOMAIN toServer = {}
    BY DEF Continues, IInv, TypeOK
  <1>2. UNCHANGED subscriptions /\ Events' = Events /\ Calls' = Calls
    BY DEF server, Events, Calls
  <1>3. ASSUME NEW e \in Events, TakesTurns(e)
        PROVE  TakesTurns(e)'
    <2>1. subscriptions'[e] = subscriptions[e] /\ Wanted(e)' = Wanted(e)
      BY <1>2
    <2>2. QED
      BY <1>1, <1>3, <2>1, TurnKept
  <1>4. QED
    BY <1>1, <1>2, <1>3, ClientEven DEF SubInv

LEMMA AddFirstListenerTurns ==
    ASSUME IInv, SubInv, NEW id \in Events, AddFirstListener(id)
    PROVE  SubInv'
  <1>1. /\ UNCHANGED <<server, request, outcome>> /\ Events' = Events
        /\ id \notin listening /\ listening' = listening \cup {id}
    BY DEF AddFirstListener, Events
  <1>2. ~Waits(id) /\ ~Wanted(id) /\ id \in Ids
    BY <1>1, Handed DEF SubInv, Listened, Wanted, IInv
  <1>3. CASE state = "Idle"
    <2>1. /\ UNCHANGED waiting /\ clientRequests' = clientRequests \cup {id}
          /\ toServer' = Append(toServer, Message("EventListen", id))
      BY <1>3 DEF AddFirstListener, DoListen, SendRequest
    <2>2. Wanted(id)' /\ \A e \in Events \ {id} : Wanted(e)' = Wanted(e) /\ Waits(e)' = Waits(e)
      BY <1>1, <1>2, <2>1 DEF Wanted, Waits
    <2>3. Listened'
      BY <1>1, <2>1, <2>2 DEF SubInv, Listened, Wanted
    <2>4. toServer' = Append(toServer,
                         Message(IF Wanted(id) THEN "EventDispose" ELSE "EventListen", id))
      BY <1>2, <2>1
    <2>5. Even'
      BY <1>1, <1>2, <2>2, <2>4, OneTurns
    <2>6. QED
      BY <2>3, <2>5 DEF SubInv
  <1>4. CASE state # "Idle"
    <2>1. /\ waiting' = Append(waiting, id)
          /\ UNCHANGED <<clientRequests, toServer>>
      BY <1>4 DEF AddFirstListener
    <2>2. /\ DOMAIN waiting \subseteq DOMAIN waiting'
          /\ \A i \in DOMAIN waiting : waiting'[i] = waiting[i]
          /\ Len(waiting) + 1 \in DOMAIN waiting' /\ waiting'[Len(waiting) + 1] = id
          /\ \A i \in DOMAIN waiting' : i \in DOMAIN waiting \/ i = Len(waiting) + 1
      <3>1. waiting \in Seq(Ids)
        BY DEF IInv, TypeOK
      <3>2. QED
        BY <1>2, <2>1, <3>1
    <2>3. Waits(id)' /\ \A e \in Events \ {id} : Waits(e)' = Waits(e)
      BY <2>2 DEF Waits
    <2>4. \A e \in Events : Wanted(e)' = Wanted(e)
      BY <1>1, <1>2, <2>3 DEF Wanted
    <2>5. \A i, j \in DOMAIN waiting' : waiting'[i] = waiting'[j] /\ waiting'[i] \in Events => i = j
      <3>1. \A i \in DOMAIN waiting : waiting[i] # id
        BY <1>2 DEF Waits
      <3>2. QED
        BY <2>2, <3>1 DEF SubInv, Listened
    <2>6. Listened'
      BY <1>1, <2>1, <2>3, <2>4, <2>5 DEF SubInv, Listened
    <2>7. Even'
      BY <1>1, <2>1, <2>4, NoneTurns
    <2>8. QED
      BY <2>6, <2>7 DEF SubInv
  <1>5. QED
    BY <1>3, <1>4

LEMMA RemovingKeeps ==
    ASSUME NEW S, NEW s \in Seq(S), NEW k \in DOMAIN s, NEW i \in DOMAIN s, i # k
    PROVE  \E j \in DOMAIN RemoveAt(s, k) : RemoveAt(s, k)[j] = s[i]
  <1>1. PICK len \in Nat : len = Len(s) /\ DOMAIN s = 1 .. len
    OBVIOUS
  <1>2. k \in 1 .. len /\ i \in 1 .. len
    BY <1>1
  <1> DEFINE a == SubSeq(s, 1, k - 1)
             b == SubSeq(s, k + 1, len)
  <1>3. /\ 1 \in Int /\ k - 1 \in Int /\ k + 1 \in Int /\ len \in Int
        /\ \A j \in 1 .. (k - 1) : s[j] \in S
        /\ \A j \in (k + 1) .. len : s[j] \in S
    BY <1>1, <1>2
  <1>4. /\ a \in Seq(S) /\ Len(a) = (IF 1 <= k - 1 THEN (k - 1) - 1 + 1 ELSE 0)
        /\ \A j \in 1 .. (k - 1) - 1 + 1 : a[j] = s[1 + j - 1]
    BY <1>3, SubSeqProperties
  <1>5. /\ b \in Seq(S) /\ Len(b) = (IF k + 1 <= len THEN len - (k + 1) + 1 ELSE 0)
        /\ \A j \in 1 .. len - (k + 1) + 1 : b[j] = s[(k + 1) + j - 1]
    BY <1>3, SubSeqProperties
  <1>6. Len(a) = k - 1 /\ Len(b) = len - k
    BY <1>2, <1>4, <1>5
  <1>7. RemoveAt(s, k) = a \o b
    BY <1>1 DEF RemoveAt
  <1> HIDE DEF a, b
  <1>8. /\ a \o b \in Seq(S) /\ Len(a \o b) = Len(a) + Len(b)
        /\ \A j \in 1 .. Len(a) + Len(b) :
              (a \o b)[j] = IF j <= Len(a) THEN a[j] ELSE b[j - Len(a)]
    BY <1>4, <1>5, ConcatProperties
  <1>9. DOMAIN (a \o b) = 1 .. (len - 1) /\ Len(a) + Len(b) = len - 1
    <2>1. DOMAIN (a \o b) = 1 .. Len(a \o b)
      BY <1>8
    <2>2. (k - 1) + (len - k) = len - 1
      BY <1>2
    <2>3. QED
      BY <1>6, <1>8, <2>1, <2>2
  <1>10. CASE i < k
    <2>1. /\ i \in 1 .. (len - 1) /\ i \in 1 .. (k - 1) - 1 + 1 /\ i <= k - 1 /\ 1 + i - 1 = i
      BY <1>2, <1>10
    <2>2. a[i] = s[i]
      BY <1>4, <2>1
    <2>3. (a \o b)[i] = a[i]
      BY <1>6, <1>8, <1>9, <2>1
    <2>4. QED
      BY <1>7, <1>9, <2>1, <2>2, <2>3
  <1>11. CASE ~(i < k)
    <2>1. PICK j \in 1 .. (len - 1) : j = i - 1 /\ ~(j <= k - 1)
      BY <1>2, <1>11
    <2>2. j - (k - 1) \in 1 .. len - (k + 1) + 1 /\ (k + 1) + (j - (k - 1)) - 1 = i
      BY <1>2, <1>11, <2>1, SMTT(30)
    <2>3. b[j - (k - 1)] = s[i]
      BY <1>5, <2>2
    <2>4. (a \o b)[j] = b[j - (k - 1)]
      BY <1>6, <1>8, <1>9, <2>1
    <2>5. QED
      BY <1>7, <1>9, <2>1, <2>3, <2>4
  <1>12. QED
    BY <1>10, <1>11

LEMMA RemoveLastListenerTurns ==
    ASSUME IInv, SubInv, NEW id \in Events, RemoveLastListener(id)
    PROVE  SubInv'
  <1>1. /\ UNCHANGED <<server, request, outcome>> /\ Events' = Events
        /\ id \in listening /\ listening' = listening \ {id} /\ id \in Ids
    BY Handed DEF RemoveLastListener, Events, IInv
  <1>2. CASE id \in ToSet(waiting)
    <2>1. PICK k \in DOMAIN waiting : waiting[k] = id /\ waiting' = RemoveAt(waiting, k)
      BY <1>2 DEF RemoveLastListener
    <2>2. UNCHANGED <<clientRequests, toServer>>
      BY <1>2 DEF RemoveLastListener
    <2>3. waiting \in Seq(Ids) /\ k \in Nat /\ DOMAIN waiting' \subseteq Nat
      BY <2>1, Removing DEF IInv, TypeOK
    <2>4. \A i \in DOMAIN waiting' :
              \/ i < k /\ i \in DOMAIN waiting /\ waiting'[i] = waiting[i]
              \/ i >= k /\ i + 1 \in DOMAIN waiting /\ waiting'[i] = waiting[i + 1]
      BY <2>1, <2>3, Removing
    <2>5. \A i \in DOMAIN waiting : waiting[i] = id => i = k
      BY <2>1 DEF SubInv, Listened
    <2>6. \A i \in DOMAIN waiting : i # k =>
              \E j \in DOMAIN waiting' : waiting'[j] = waiting[i]
      BY <2>1, <2>3, RemovingKeeps
    <2>7. \A i \in DOMAIN waiting' : waiting'[i] # id
      <3> TAKE i \in DOMAIN waiting'
      <3>1. i \in Nat /\ k \in Nat
        BY <2>3
      <3>2. \E j \in DOMAIN waiting : j # k /\ waiting'[i] = waiting[j]
        BY <2>4, <3>1
      <3>3. QED
        BY <2>5, <3>2
    <2>8. Waits(id) /\ ~Waits(id)' /\ \A e \in Events \ {id} : Waits(e)' = Waits(e)
      <3>1. Waits(id) /\ ~Waits(id)'
        BY <2>1, <2>7 DEF Waits
      <3>2. ASSUME NEW e \in Events \ {id}
            PROVE  Waits(e)' = Waits(e)
        <4>1. Waits(e)' => Waits(e)
          BY <2>4 DEF Waits
        <4>2. Waits(e) => Waits(e)'
          BY <2>1, <2>6 DEF Waits
        <4>3. QED
          BY <4>1, <4>2 DEF Waits
      <3>3. QED
        BY <3>1, <3>2
    <2>9. \A e \in Events : Wanted(e)' = Wanted(e)
      BY <1>1, <2>8 DEF Wanted
    <2>10. ASSUME NEW i \in DOMAIN waiting', NEW j \in DOMAIN waiting',
                  waiting'[i] = waiting'[j], waiting'[i] \in Events
           PROVE  i = j
      <3>1. PICK m \in DOMAIN waiting : /\ (m = i /\ i < k) \/ (m = i + 1 /\ i >= k)
                                        /\ waiting'[i] = waiting[m]
        BY <2>4
      <3>2. PICK n \in DOMAIN waiting : /\ (n = j /\ j < k) \/ (n = j + 1 /\ j >= k)
                                        /\ waiting'[j] = waiting[n]
        BY <2>4
      <3>3. m = n
        BY <2>10, <3>1, <3>2 DEF SubInv, Listened
      <3>4. i \in Nat /\ j \in Nat /\ k \in Nat
        BY <2>3
      <3>5. QED
        BY <3>1, <3>2, <3>3, <3>4
    <2>11. Listened'
      BY <1>1, <2>2, <2>8, <2>9, <2>10 DEF SubInv, Listened
    <2>12. Even'
      BY <1>1, <2>2, <2>9, NoneTurns
    <2>13. QED
      BY <2>11, <2>12 DEF SubInv
  <1>3. CASE id \notin ToSet(waiting)
    <2>1. /\ UNCHANGED waiting /\ clientRequests' = clientRequests \ {id}
          /\ toServer' = Append(toServer, Message("EventDispose", id))
      BY <1>3 DEF RemoveLastListener, SendRequest
    <2>2. Wanted(id) /\ ~Wanted(id)'
      BY <1>1, <1>3 DEF Wanted, Waits, ToSet
    <2>3. \A e \in Events \ {id} : Wanted(e)' = Wanted(e) /\ Waits(e)' = Waits(e)
      BY <1>1, <2>1 DEF Wanted, Waits
    <2>4. ~Waits(id)' /\ ~Waits(id)
      BY <2>1, <2>2 DEF Wanted, Waits
    <2>5. Listened'
      BY <1>1, <2>1, <2>2, <2>3, <2>4 DEF SubInv, Listened
    <2>6. toServer' = Append(toServer,
                         Message(IF Wanted(id) THEN "EventDispose" ELSE "EventListen", id))
      BY <2>1, <2>2
    <2>7. Even'
      BY <1>1, <2>2, <2>3, <2>6, OneTurns
    <2>8. QED
      BY <2>5, <2>7 DEF SubInv
  <1>4. QED
    BY <1>2, <1>3

LEMMA WhenInitializedTurns ==
    ASSUME IInv, SubInv, WhenInitialized
    PROVE  SubInv'
  <1>0. PICK id : id = Head(waiting)
    OBVIOUS
  <1>1. /\ TypeOK /\ Events' = Events /\ Events \subseteq Ids /\ Calls' = Calls
        /\ UNCHANGED <<server, request, listening>>
        /\ waiting # <<>> /\ waiting' = Tail(waiting)
    BY Handed DEF IInv, WhenInitialized, Events, Calls
  <1>2. /\ 1 \in DOMAIN waiting /\ id = waiting[1] /\ id \in Ids
        /\ \A i \in DOMAIN waiting' :
              /\ i \in Nat /\ i + 1 \in DOMAIN waiting /\ i + 1 # 1
              /\ waiting'[i] = waiting[i + 1]
        /\ \A i \in DOMAIN waiting :
              i = 1 \/ (i - 1 \in DOMAIN waiting' /\ waiting'[i - 1] = waiting[i])
        /\ \A i, j \in DOMAIN waiting' : i + 1 = j + 1 => i = j
    <2>1. waiting \in Seq(Ids)
      BY <1>1 DEF TypeOK
    <2>2. QED
      BY <1>0, <1>1, <2>1, Taking
  <1>3. id \in Calls \/ id \in Events
    <2>1. id \in DOMAIN request
      BY <1>2 DEF IInv, Known
    <2>2. QED
      BY <1>1, <2>1, Handed
  <1>4. \A i, j \in DOMAIN waiting' : waiting'[i] = waiting'[j] /\ waiting'[i] \in Events => i = j
    BY <1>2 DEF SubInv, Listened
  <1>5. \A e \in Events \ {id} : Waits(e)' = Waits(e)
    <2> SUFFICES ASSUME NEW e \in Events \ {id}
                 PROVE  Waits(e)' = Waits(e)
      OBVIOUS
    <2>1. Waits(e)' => Waits(e)
      BY <1>2 DEF Waits
    <2>2. Waits(e) => Waits(e)'
      BY <1>2 DEF Waits
    <2>3. QED
      BY <2>1, <2>2 DEF Waits
  <1>6. CASE id \in Calls
    <2>1. id \notin Events
      BY <1>1, <1>6, Handed
    <2>2. DoCall(id) \/ UNCHANGED <<outcome, clientRequests, toServer>>
      BY <1>0, <1>6 DEF WhenInitialized
    <2>3. UNCHANGED toServer \/ toServer' = Append(toServer, Message("Promise", id))
      BY <2>2 DEF DoCall, SendRequest
    <2>4. /\ Continues(toServer, toServer', {Message("Promise", id)})
          /\ \A i \in DOMAIN toServer' \ DOMAIN toServer : toServer'[i] = Message("Promise", id)
      <3>1. toServer \in Seq(ToServer) /\ Message("Promise", id) \in ToServer
        BY <1>1, <1>2 DEF TypeOK, Message, ToServer
      <3>2. Continues(toServer, toServer', {Message("Promise", id)})
        BY <2>3, <3>1, OneMore
      <3>3. QED
        BY <3>2 DEF Continues
    <2>5. \A i \in DOMAIN toServer' \ DOMAIN toServer :
              /\ toServer'[i].type \notin {"EventListen", "EventDispose"}
              /\ toServer'[i].id \in Calls'
      BY <1>1, <1>6, <2>4 DEF Message
    <2>6. \A e \in Events : outcome'[e] = outcome[e] /\ (e \in clientRequests' <=> e \in clientRequests)
      <3>1. outcome \in [Ids -> Outcomes]
        BY <1>1 DEF TypeOK
      <3>2. CASE DoCall(id)
        <4>1. /\ \/ outcome' = [outcome EXCEPT ![id] = "not sent"]
                 \/ outcome' = [outcome EXCEPT ![id] = "pending"]
              /\ \/ clientRequests' = clientRequests \cup {id}
                 \/ clientRequests' = clientRequests \ {id}
          BY <3>2 DEF DoCall
        <4>2. QED
          BY <1>1, <2>1, <3>1, <4>1
      <3>3. CASE UNCHANGED <<outcome, clientRequests, toServer>>
        BY <3>3
      <3>4. QED
        BY <2>2, <3>2, <3>3
    <2>7. \A e \in Events : Waits(e)' = Waits(e)
      BY <1>5, <2>1
    <2>8. QED
      BY <1>1, <1>4, <2>4, <2>5, <2>6, <2>7, CallStep
  <1>7. CASE id \in Events
    <2>1. id \notin Calls
      BY <1>1, <1>7, Handed
    <2>2. /\ UNCHANGED outcome /\ clientRequests' = clientRequests \cup {id}
          /\ toServer' = Append(toServer, Message("EventListen", id))
      BY <1>0, <2>1 DEF WhenInitialized, DoListen, SendRequest
    <2>3. Waits(id) /\ ~Waits(id)'
      <3>1. Waits(id)
        BY <1>2 DEF Waits
      <3>2. \A i \in DOMAIN waiting' : waiting'[i] # id
        BY <1>2, <1>7 DEF SubInv, Listened
      <3>3. QED
        BY <3>1, <3>2 DEF Waits
    <2>4. id \in listening
      BY <1>7, <2>3 DEF SubInv, Listened
    <2>5. ~Wanted(id) /\ Wanted(id)' /\ \A e \in Events \ {id} : Wanted(e)' = Wanted(e)
      BY <1>1, <1>5, <2>3, <2>4 DEF Wanted
    <2>6. Listened'
      BY <1>1, <1>4, <1>5, <2>2, <2>3, <2>5 DEF SubInv, Listened
    <2>7. toServer' = Append(toServer,
                         Message(IF Wanted(id) THEN "EventDispose" ELSE "EventListen", id))
      BY <2>2, <2>5
    <2>8. Wanted(id)' # Wanted(id)
      BY <2>5
    <2>9. Even'
      BY <1>1, <1>7, <2>5, <2>7, <2>8, OneTurns
    <2>10. QED
      BY <2>6, <2>9 DEF SubInv
  <1>8. QED
    BY <1>3, <1>6, <1>7

LEMMA DisposeClientTurns ==
    ASSUME IInv, SubInv, DisposeClient
    PROVE  SubInv'
  <1>1. PICK sent : sent = clientRequests \ ToSet(waiting)
    OBVIOUS
  <1>2. PICK told : told = DOMAIN toServer' \ DOMAIN toServer
    OBVIOUS
  <1>3. /\ Continues(toServer, toServer', ToServer)
        /\ \A i \in told : \E id \in sent : toServer'[i] = TakeBack(id)
        /\ \A id \in sent : \E i \in told : toServer'[i] = TakeBack(id)
        /\ \A i, j \in told : toServer'[i] = toServer'[j] => i = j
    BY <1>1, <1>2, TakingBack
  <1>4. /\ TypeOK /\ Events' = Events /\ Events \subseteq Ids /\ Calls' = Calls
        /\ Calls \cap Events = {}
        /\ clientRequests \subseteq Calls \cup Events
        /\ UNCHANGED <<server, request, waiting>>
        /\ outcome' = [id \in Ids |-> IF id \in clientRequests \cap Calls
                                      THEN "CancellationError" ELSE outcome[id]]
        /\ listening' = listening \ clientRequests /\ clientRequests' = {}
    BY Handed DEF IInv, Known, DisposeClient, Events, Calls
  <1>5. \A id \in Events : /\ Waits(id)' = Waits(id) /\ ~Wanted(id)'
                           /\ Wanted(id) <=> id \in sent
                           /\ Waits(id) => id \in listening'
                           /\ outcome'[id] = outcome[id]
    <2>1. \A id : id \in ToSet(waiting) <=> Waits(id)
      BY DEF ToSet, Waits
    <2>2. \A id : Waits(id)' = Waits(id)
      BY <1>4 DEF Waits
    <2>3. \A id \in Events : /\ Waits(id) => id \in listening
                             /\ id \in clientRequests <=> id \in listening /\ ~Waits(id)
      BY DEF SubInv, Listened, Wanted
    <2>4. QED
      BY <1>1, <1>4, <2>1, <2>2, <2>3 DEF Wanted
  <1>6. Listened'
    <2>1. \A i, j \in DOMAIN waiting' : waiting'[i] = waiting'[j] /\ waiting'[i] \in Events => i = j
      BY <1>4 DEF SubInv, Listened
    <2>2. listening' \subseteq Events
      BY <1>4 DEF SubInv, Listened
    <2>3. \A id \in Events : outcome[id] = "none"
      BY DEF SubInv, Listened
    <2>4. QED
      BY <1>4, <1>5, <2>1, <2>2, <2>3 DEF Listened
  <1>7. ASSUME NEW i \in told, NEW id \in Events
        PROVE  /\ toServer'[i] # Message("EventListen", id)
               /\ toServer'[i] = Message("EventDispose", id) => id \in sent
    <2>1. PICK e \in sent : toServer'[i] = TakeBack(e)
      BY <1>3
    <2>2. QED
      BY <2>1 DEF TakeBack, Message
  <1>8. ASSUME NEW id \in Events, TakesTurns(id)
        PROVE  TakesTurns(id)'
    <2>1. subscriptions'[id] = subscriptions[id]
      BY <1>4 DEF server
    <2>2. CASE id \in sent
      <3>1. Wanted(id) /\ Wanted(id)' # Wanted(id) /\ TakeBack(id) = Message("EventDispose", id)
        <4>1. id \notin Calls
          BY <1>4
        <4>2. QED
          BY <1>5, <2>2, <4>1 DEF TakeBack
      <3>2. PICK p \in told : toServer'[p] = Message("EventDispose", id)
        BY <1>3, <2>2, <3>1
      <3>3. \A i \in told : /\ toServer'[i] = Message("EventListen", id) => i = p
                            /\ toServer'[i] = Message("EventDispose", id) => i = p
        BY <1>3, <1>7, <3>2
      <3>4. toServer'[p] = Message(IF Wanted(id) THEN "EventDispose" ELSE "EventListen", id)
        BY <3>1, <3>2
      <3>5. QED
        BY <1>2, <1>3, <1>8, <2>1, <3>1, <3>3, <3>4, TurnTaken
    <2>3. CASE id \notin sent
      <3>1. Wanted(id)' = Wanted(id)
        BY <1>5, <2>3 DEF Wanted
      <3>2. \A i \in told : /\ toServer'[i] # Message("EventListen", id)
                            /\ toServer'[i] # Message("EventDispose", id)
        BY <1>7, <2>3
      <3>3. QED
        BY <1>2, <1>3, <1>8, <2>1, <3>1, <3>2, TurnKept
    <2>4. QED
      BY <2>2, <2>3
  <1>9. ASSUME NEW i \in told
        PROVE  IF toServer'[i].type \in {"EventListen", "EventDispose"}
               THEN toServer'[i].id \in Events ELSE toServer'[i].id \in Calls
    <2>1. PICK e \in sent : toServer'[i] = TakeBack(e)
      BY <1>3
    <2>2. e \in Calls \/ e \in Events
      BY <1>1, <1>4
    <2>3. QED
      BY <1>4, <2>1, <2>2 DEF TakeBack, Message
  <1>10. Even'
    BY <1>2, <1>3, <1>4, <1>8, <1>9, ClientEven DEF SubInv
  <1>11. QED
    BY <1>6, <1>10 DEF SubInv

LEMMA ListenedStays ==
    ASSUME Listened, UNCHANGED client
    PROVE  Listened' /\ Calls' = Calls /\ Events' = Events
           /\ \A id : Wanted(id)' = Wanted(id)
  <1>1. UNCHANGED <<request, listening, waiting, outcome, clientRequests>>
    BY DEF client
  <1>2. Calls' = Calls /\ Events' = Events
    BY <1>1 DEF Calls, Events
  <1>3. \A id : Waits(id)' = Waits(id) /\ Wanted(id)' = Wanted(id)
    BY <1>1 DEF Waits, Wanted
  <1>4. QED
    BY <1>1, <1>2, <1>3 DEF Listened

LEMMA TurnStays ==
    ASSUME NEW id \in Events, UNCHANGED <<client, toServer>>, subscriptions'[id] = subscriptions[id],
           TakesTurns(id)
    PROVE  TakesTurns(id)'
  <1>1. Wanted(id)' = Wanted(id)
    BY DEF client, Wanted, Waits
  <1>2. toServer' = toServer
    OBVIOUS
  <1>3. \A n : Level(id, n)' = Level(id, n)
    BY <1>2, LevelNext DEF Level
  <1>4. QED
    BY <1>1, <1>2, <1>3 DEF TakesTurns

LEMMA RequestReadTurns ==
    ASSUME IInv, SubInv, OnRequest
    PROVE  SubInv'
  <1>1. PICK message : message = Head(toServer)
    OBVIOUS
  <1>2. PICK id : id = message.id
    OBVIOUS
  <1>3. /\ toServer # <<>> /\ toServer' = Tail(toServer) /\ isConnected
        /\ UNCHANGED <<client, request, listening, waiting, isConnected>>
    BY DEF OnRequest, client
  <1>4. /\ toServer' \in Seq(ToServer) /\ message \in ToServer
        /\ id \in DOMAIN request /\ id \in Ids
        /\ message.type = "Promise" => id \in Calls
        /\ message.type = "EventListen" => id \in Events
    BY <1>1, <1>2, <1>3, Reading
  <1>5. /\ message = toServer[1] /\ 1 \in DOMAIN toServer
        /\ \A i \in DOMAIN toServer' : i + 1 \in DOMAIN toServer /\ toServer'[i] = toServer[i + 1]
    <2>1. toServer \in Seq(ToServer)
      BY DEF IInv, TypeOK
    <2>2. QED
      BY <1>1, <1>3, <2>1, Taking
  <1>6. /\ TypeOK /\ Listened' /\ Calls' = Calls /\ Events' = Events /\ Calls \cap Events = {}
        /\ Events \subseteq Ids /\ Calls \subseteq Ids /\ Events \subseteq DOMAIN request
    BY <1>3, Handed, ListenedStays DEF IInv, SubInv
  <1>7. \A i \in DOMAIN toServer' :
            IF toServer'[i].type \in {"EventListen", "EventDispose"}
            THEN toServer'[i].id \in Events ELSE toServer'[i].id \in Calls
    BY <1>5 DEF SubInv, Even
  <1>8. IF message.type \in {"EventListen", "EventDispose"} THEN id \in Events ELSE id \in Calls
    BY <1>2, <1>5 DEF SubInv, Even
  <1>9. message = Message(message.type, id)
    BY <1>2, <1>4 DEF ToServer, Message
  <1>10. \A e \in Events : Level(e, 1) = subscriptions[e]
              + (IF message = Message("EventListen", e) THEN 1 ELSE 0)
              - (IF message = Message("EventDispose", e) THEN 1 ELSE 0)
    BY <1>3, <1>5, LevelOne
  <1>11. \A e \in Events : e # id => Level(e, 1) = subscriptions[e]
    <2>1. \A e \in Events : e # id => /\ message # Message("EventListen", e)
                                     /\ message # Message("EventDispose", e)
      BY <1>2 DEF Message
    <2>2. \A e \in Events : subscriptions[e] \in Nat
      BY <1>6 DEF TypeOK
    <2>3. QED
      BY <1>10, <2>1, <2>2
  <1>12. ASSUME \A e \in Ids \ Events : subscriptions'[e] = subscriptions[e],
                collected \subseteq collected', \A e \in Events : throws'[e] = 0 => throws[e] = 0,
                \A e \in Subscribable' :
                    /\ subscriptions'[e] = Level(e, 1)
                    /\ subscriptions'[e] \in {0, 1} /\ (e \in activeRequests <=> subscriptions[e] = 1)
                          => (e \in activeRequests' <=> subscriptions'[e] = 1)
         PROVE  SubInv'
    <2>1. \A e \in Ids \ DOMAIN request' : subscriptions'[e] = 0
      BY <1>3, <1>6, <1>12 DEF SubInv, Even
    <2>2. ASSUME NEW e \in Subscribable'
          PROVE  (e \in activeRequests' <=> subscriptions'[e] = 1) /\ TakesTurns(e)'
      <3>0. e \in Subscribable /\ e \in Events
        BY <1>6, <1>12, <2>2, SubscribableEvents, SubscribableShrinks
      <3>1. TakesTurns(e) /\ (e \in activeRequests <=> subscriptions[e] = 1)
        BY <1>3, <3>0 DEF SubInv, Even
      <3>2. TakesTurns(e)' /\ subscriptions'[e] \in {0, 1}
        BY <1>3, <1>12, <2>2, <3>0, <3>1, TurnRead
      <3>3. QED
        BY <1>12, <3>1, <3>2
    <2>3. Even'
      BY <1>3, <1>6, <1>7, <2>1, <2>2 DEF Even
    <2>4. QED
      BY <1>6, <2>3 DEF SubInv
  <1>13. CASE message.type \in {"Promise", "EventListen"} /\ HandOver(<<id>>)
              /\ UNCHANGED <<throws, collected>>
    <2>1. /\ Occurrences(id, <<id>>) = 1
          /\ \A e : e # id => Occurrences(e, <<id>>) = 0
      <3>1. <<id>> \in Seq(Ids) /\ ToSet(<<id>>) = {id} /\ \A i, j \in DOMAIN <<id>> : i = j
        BY <1>4 DEF ToSet
      <3>2. \A e : /\ Occurrences(e, <<id>>) \in Nat
                   /\ e \in ToSet(<<id>>) <=> Occurrences(e, <<id>>) >= 1
                   /\ Occurrences(e, <<id>>) <= 1
        BY <3>1, Counting
      <3>3. QED
        BY <3>1, <3>2
    <2>2. /\ subscriptions' = [e \in Ids |-> IF e \in Events
                                 THEN subscriptions[e] + Occurrences(e, <<id>>)
                                 ELSE subscriptions[e]]
          /\ activeRequests' = activeRequests \cup {id}
      BY <1>13 DEF HandOver, ToSet
    <2>3. \A e \in Ids \ Events : subscriptions'[e] = subscriptions[e]
      BY <2>2
    <2>4. ASSUME NEW e \in Events
          PROVE  /\ subscriptions'[e] = Level(e, 1)
                 /\ subscriptions'[e] \in {0, 1} /\ (e \in activeRequests <=> subscriptions[e] = 1)
                        => (e \in activeRequests' <=> subscriptions'[e] = 1)
      <3>1. subscriptions[e] \in Nat /\ e \in Ids
        BY <1>6 DEF TypeOK
      <3>2. CASE e # id
        <4>1. subscriptions'[e] = subscriptions[e]
          BY <2>1, <2>2, <3>1, <3>2
        <4>2. QED
          BY <1>11, <2>2, <3>2, <4>1
      <3>3. CASE e = id
        <4>1. message = Message("EventListen", e) /\ message # Message("EventDispose", e)
          BY <1>6, <1>8, <1>9, <1>13, <3>3 DEF Message
        <4>2. Level(e, 1) = subscriptions[e] + 1
          BY <1>10, <3>1, <4>1
        <4>3. subscriptions'[e] = subscriptions[e] + 1
          BY <2>1, <2>2, <3>1, <3>3
        <4>4. QED
          BY <2>2, <3>1, <3>3, <4>2, <4>3
      <3>4. QED
        BY <3>2, <3>3
    <2>5. Subscribable' \subseteq Events
      BY <1>6, <1>13, SubscribableEvents, SubscribableShrinks
    <2>6. collected \subseteq collected' /\ \A e \in Events : throws'[e] = 0 => throws[e] = 0
      BY <1>13
    <2>7. QED
      BY <1>12, <2>3, <2>4, <2>5, <2>6
  <1>14. CASE message.type \in {"Promise", "EventListen"} /\ CollectPendingRequest(id)
              /\ UNCHANGED <<activeRequests, subscriptions, throws>>
    <2>1. collected' = collected \cup {id}
      BY <1>14 DEF CollectPendingRequest
    <2>2. \A e \in Subscribable' : e \in Events /\ e # id
      BY <1>6, <2>1 DEF Subscribable
    <2>3. collected \subseteq collected' /\ \A e \in Events : throws'[e] = 0 => throws[e] = 0
      BY <1>14, <2>1
    <2>4. QED
      BY <1>11, <1>12, <1>14, <2>2, <2>3
  <1>17. CASE Throws(id) /\ UNCHANGED <<activeRequests, subscriptions, collected>>
    <2>1. /\ throws \in [Ids -> 0 .. MaxThrow]
          /\ throws' = [throws EXCEPT ![id] = @ + 1]
      BY <1>6, <1>17 DEF TypeOK, Throws
    <2>2. throws'[id] # 0 /\ \A e \in Ids : e # id => throws'[e] = throws[e]
      BY <1>4, <2>1, BoundsAssumption
    <2>3. \A e \in Subscribable' : e \in Events /\ e # id
      BY <1>6, <2>2 DEF Subscribable
    <2>4. collected \subseteq collected' /\ \A e \in Events : throws'[e] = 0 => throws[e] = 0
      BY <1>6, <1>17, <2>2
    <2>5. QED
      BY <1>11, <1>12, <1>17, <2>3, <2>4
  <1>15. CASE message.type \in {"PromiseCancel", "EventDispose"} /\ DisposeActiveRequest(id)
              /\ UNCHANGED <<throws, collected>>
    <2>1. /\ subscriptions' = IF id \in activeRequests \cap Events
                              THEN [subscriptions EXCEPT ![id] = @ - 1] ELSE subscriptions
          /\ activeRequests' = activeRequests \ {id}
      BY <1>15 DEF DisposeActiveRequest
    <2>2. subscriptions \in [Ids -> Nat]
      BY <1>6 DEF TypeOK
    <2>3. \A e \in Ids \ Events : subscriptions'[e] = subscriptions[e]
      BY <1>4, <2>1, <2>2
    <2>4. ASSUME NEW e \in Subscribable
          PROVE  /\ subscriptions'[e] = Level(e, 1)
                 /\ subscriptions'[e] \in {0, 1} /\ (e \in activeRequests <=> subscriptions[e] = 1)
                        => (e \in activeRequests' <=> subscriptions'[e] = 1)
      <3>1. subscriptions[e] \in Nat /\ e \in Ids /\ e \in Events
        BY <1>6, SubscribableEvents DEF TypeOK
      <3>2. CASE e # id
        <4>1. subscriptions'[e] = subscriptions[e]
          BY <2>1, <2>2, <3>1, <3>2
        <4>2. QED
          BY <1>11, <2>1, <3>1, <3>2, <4>1
      <3>3. CASE e = id
        <4>1. message = Message("EventDispose", e) /\ message # Message("EventListen", e)
          BY <1>6, <1>8, <1>9, <1>15, <3>1, <3>3 DEF Message
        <4>2. Level(e, 1) = subscriptions[e] - 1
          BY <1>10, <3>1, <4>1
        <4>3. /\ e \in activeRequests <=> subscriptions[e] = 1
              /\ \A n \in 0 .. Len(toServer) : Level(e, n) \in {0, 1}
          BY <1>3 DEF SubInv, Even, TakesTurns
        <4>4. Level(e, 0) = subscriptions[e] /\ 0 \in 0 .. Len(toServer) /\ 1 \in 0 .. Len(toServer)
          <5>1. Level(e, 0) = subscriptions[e]
            BY <3>1, LevelParts
          <5>2. toServer \in Seq(ToServer)
            BY <1>6 DEF TypeOK
          <5>3. QED
            BY <1>3, <5>1, <5>2
        <4>5. subscriptions[e] \in {0, 1} /\ subscriptions[e] - 1 \in {0, 1}
          BY <4>2, <4>3, <4>4
        <4>6. subscriptions[e] = 1 /\ e \in activeRequests
          BY <4>3, <4>5
        <4>7. subscriptions'[e] = subscriptions[e] - 1
          BY <2>1, <2>2, <3>1, <3>3, <4>6
        <4>8. QED
          BY <2>1, <3>3, <4>2, <4>6, <4>7
      <3>4. QED
        BY <3>2, <3>3
    <2>5. Subscribable' \subseteq Subscribable
      BY <1>6, <1>15, SubscribableShrinks
    <2>6. collected \subseteq collected' /\ \A e \in Events : throws'[e] = 0 => throws[e] = 0
      BY <1>15
    <2>7. QED
      BY <1>12, <2>3, <2>4, <2>5, <2>6
  <1>16. QED
    BY <1>1, <1>2, <1>13, <1>14, <1>15, <1>17 DEF OnRequest

(* A step of the server that reads nothing: what it does to the events that *)
(* were never collected.                                                    *)
LEMMA ServerTurns ==
    ASSUME IInv, SubInv, UNCHANGED <<client, isConnected, collected, toServer>>,
           \A e \in Events : throws'[e] = 0 => throws[e] = 0,
           \A e \in Ids \ Events : subscriptions'[e] = subscriptions[e],
           \A e \in Subscribable' :
               /\ subscriptions'[e] = subscriptions[e]
               /\ e \in activeRequests' <=> e \in activeRequests
    PROVE  SubInv'
  <1>1. Listened' /\ Events' = Events /\ Calls' = Calls /\ request' = request
    BY ListenedStays DEF SubInv, client
  <1>2. \A e \in Ids \ DOMAIN request : subscriptions'[e] = 0
    <2>1. Events \subseteq DOMAIN request
      BY Handed DEF IInv
    <2>2. QED
      BY <2>1 DEF SubInv, Even
  <1>3. Subscribable' \subseteq Subscribable /\ Subscribable \subseteq Events
    BY <1>1, SubscribableEvents, SubscribableShrinks
  <1>4. \A e \in Subscribable' : TakesTurns(e) => TakesTurns(e)'
    BY <1>3, TurnStays
  <1>6. Even'
    BY <1>1, <1>2, <1>3, <1>4 DEF SubInv, Even
  <1>5. QED
    BY <1>1, <1>6 DEF SubInv

LEMMA ServiceTurns ==
    ASSUME IInv, SubInv, CancelInv, NEW id \in Ids, ServiceEnds(id) \/ TimesOut(id)
    PROVE  SubInv'
  <1>1. UNCHANGED <<client, isConnected, collected, toServer, subscriptions, throws>>
    BY DEF ServiceEnds, TimesOut
  <1>2. \A e \in Events : e \in activeRequests' <=> e \in activeRequests
    <2>1. UNCHANGED activeRequests \/ (id \in running /\ activeRequests' = activeRequests \ {id})
      BY DEF ServiceEnds, TimesOut
    <2>2. Calls \cap Events = {} /\ running \subseteq Calls
      BY Handed DEF IInv, CancelInv, Cancellable
    <2>3. QED
      BY <2>1, <2>2
  <1>3. Subscribable' \subseteq Events
    BY <1>1, ListenedStays, SubscribableEvents, SubscribableShrinks DEF SubInv
  <1>4. QED
    BY <1>1, <1>2, <1>3, ServerTurns

LEMMA FlushTurns ==
    ASSUME IInv, SubInv, OnceInv, NEW c \in Channel, FlushPendingRequests(c)
    PROVE  SubInv'
  <1>1. PICK ids \in Seq(Ids) : HandOver(ids) /\ ToSet(ids) \subseteq ToSet(pendingRequests[c])
    BY FlushedPart
  <1>2. /\ UNCHANGED <<client, isConnected, collected, toServer>>
        /\ TypeOK /\ Events \subseteq Ids
    BY Handed DEF FlushPendingRequests, IInv
  <1>3. /\ ToSet(pendingRequests[c]) \subseteq collected /\ ToSet(ids) \subseteq collected
        /\ \A i \in DOMAIN pendingRequests[c] : pendingRequests[c][i] \in Ids
    BY <1>1, <1>2 DEF OnceInv, OnceCollected, ToSet, TypeOK
  <1>4. /\ subscriptions' = [e \in Ids |-> IF e \in Events
                               THEN subscriptions[e] + Occurrences(e, ids) ELSE subscriptions[e]]
        /\ activeRequests' = activeRequests \cup ToSet(ids)
    BY <1>1 DEF HandOver
  <1>8. \A e \in Subscribable' : e \in Events /\ e \notin collected
    BY <1>2 DEF Subscribable, client, Events
  <1>5. \A e \in Subscribable' :
            subscriptions'[e] = subscriptions[e] /\ (e \in activeRequests' <=> e \in activeRequests)
    <2> TAKE e \in Subscribable'
    <2>0. e \in Events /\ e \notin collected
      BY <1>8
    <2>1. Occurrences(e, ids) = 0
      <3>1. Occurrences(e, ids) \in Nat /\ ~(Occurrences(e, ids) >= 1)
        BY <1>1, <1>3, <2>0, Counting
      <3>2. QED
        BY <3>1
    <2>2. subscriptions[e] \in Nat /\ e \in Ids
      BY <1>2, <2>0 DEF TypeOK
    <2>3. QED
      BY <1>3, <1>4, <2>0, <2>1, <2>2
  <1>6. \A e \in Ids \ Events : subscriptions'[e] = subscriptions[e]
    BY <1>4
  <1>7. \A e \in Events : throws'[e] = 0 => throws[e] = 0
    <2>1. throws \in [Ids -> 0 .. MaxThrow]
      BY <1>2 DEF TypeOK
    <2>2. ASSUME NEW i \in Ids, Throws(i)
          PROVE  \A e \in Ids : throws'[e] = 0 => throws[e] = 0
      BY <2>1, <2>2, BoundsAssumption DEF Throws
    <2>3. UNCHANGED throws \/ \E i \in Ids : Throws(i)
      BY <1>3 DEF FlushPendingRequests
    <2>4. QED
      BY <1>2, <2>2, <2>3
  <1>9. QED
    BY <1>2, <1>5, <1>6, <1>7, ServerTurns

LEMMA DisposeServerTurns ==
    ASSUME IInv, SubInv, DisposeServer
    PROVE  SubInv'
  <1>1. /\ UNCHANGED <<client, collected, toServer, throws>> /\ isConnected
        /\ isConnected' = FALSE
        /\ subscriptions' = [e \in Ids |-> IF e \in activeRequests \cap Events
                                           THEN subscriptions[e] - 1 ELSE subscriptions[e]]
    BY DEF DisposeServer
  <1>2. /\ Listened' /\ Events' = Events /\ Calls' = Calls /\ request' = request
        /\ Events \subseteq Ids /\ Events \subseteq DOMAIN request
    BY <1>1, Handed, ListenedStays DEF SubInv, client, IInv
  <1>3. \A e \in Ids \ DOMAIN request : subscriptions'[e] = 0
    BY <1>1, <1>2 DEF SubInv, Even
  <1>4. ASSUME NEW e \in Subscribable
        PROVE  subscriptions'[e] = 0
    <2>1. e \in activeRequests <=> subscriptions[e] = 1
      BY <1>1 DEF SubInv, Even
    <2>2. subscriptions[e] \in {0, 1} /\ e \in Events
      <3>0. e \in Events
        BY SubscribableEvents
      <3>1. \A n \in 0 .. Len(toServer) : Level(e, n) \in {0, 1}
        BY <1>1 DEF SubInv, Even, TakesTurns
      <3>2. Level(e, 0) = subscriptions[e] /\ 0 \in 0 .. Len(toServer)
        <4>1. Level(e, 0) = subscriptions[e]
          BY <3>0, LevelParts
        <4>2. Len(toServer) \in Nat
          BY DEF IInv, TypeOK
        <4>3. QED
          BY <4>1, <4>2
      <3>3. QED
        BY <3>0, <3>1, <3>2
    <2>3. subscriptions'[e] = IF e \in activeRequests THEN subscriptions[e] - 1 ELSE subscriptions[e]
      BY <1>1, <1>2, <2>2
    <2>4. QED
      BY <2>1, <2>2, <2>3
  <1>5. Subscribable' \subseteq Subscribable
    BY <1>1, <1>2, SubscribableShrinks
  <1>6. Even'
    BY <1>1, <1>2, <1>3, <1>4, <1>5 DEF SubInv, Even
  <1>7. QED
    BY <1>2, <1>6 DEF SubInv

LEMMA OtherTurns ==
    ASSUME IInv, SubInv, (\E c \in Channel : RegisterChannel(c)) \/ UNCHANGED vars
    PROVE  SubInv'
  <1>1. UNCHANGED <<client, isConnected, collected, toServer, subscriptions, activeRequests,
                  throws>>
    BY DEF RegisterChannel, vars, server
  <1>2. Subscribable' \subseteq Events
    BY <1>1, ListenedStays, SubscribableEvents, SubscribableShrinks DEF SubInv
  <1>3. QED
    BY <1>1, <1>2, ServerTurns

LEMMA InitSubInv == Init => SubInv
  <1> SUFFICES ASSUME Init PROVE SubInv
    OBVIOUS
  <1>1. Events = {} /\ DOMAIN request = {}
    BY DEF Init, Events
  <1>2. Listened
    BY <1>1 DEF Init, Listened
  <1>3. Even
    BY <1>1, SubscribableEvents DEF Init, Even
  <1>4. QED
    BY <1>2, <1>3 DEF SubInv

LEMMA AlwaysSubInv == Spec => []SubInv
  <1>1. ASSUME IInv, CancelInv, OnceInv, SubInv, [Next]_vars
        PROVE  SubInv'
    BY <1>1, RequestPromiseTurns, RequestEventTurns, CancelTurns, AddFirstListenerTurns,
       RemoveLastListenerTurns, WhenInitializedTurns, OnResponseTurns, DisposeClientTurns,
       RequestReadTurns, ServiceTurns, FlushTurns, DisposeServerTurns, OtherTurns DEF Next
  <1>2. QED
    BY <1>1, InitSubInv, AlwaysIInv, AlwaysCancelInv, AlwaysOnceInv, PTL DEF Spec

\* Whoever listens, stops and listens again before, while and after the
\* server says hello: once all that is under way is read the service has one
\* listener exactly for the events the client listens to, and after the end
\* of the connection none is left, unless the event was collected.
THEOREM SubscriptionsKept == Spec => []SubscriptionsFollow
  <1>1. ASSUME IInv, SubInv
        PROVE  SubscriptionsFollow
    <2> SUFFICES ASSUME NEW id \in Subscribable
                 PROVE  IF isConnected
                        THEN Projected(id) = IF id \in listening /\ id \notin ToSet(waiting)
                                             THEN 1 ELSE 0
                        ELSE subscriptions[id] = 0
      BY DEF SubscriptionsFollow
    <2>1. DOMAIN toServer = 1 .. Len(toServer)
      BY <1>1 DEF IInv, TypeOK
    <2>2. Projected(id) = Level(id, Len(toServer))
      BY <2>1 DEF Projected, Level, Seen
    <2>3. Wanted(id) <=> id \in listening /\ id \notin ToSet(waiting)
      BY DEF Wanted, Waits, ToSet
    <2>4. QED
      BY <1>1, <2>2, <2>3 DEF SubInv, Even, TakesTurns
  <1>2. QED
    BY <1>1, AlwaysIInv, AlwaysSubInv, PTL

=============================================================================
