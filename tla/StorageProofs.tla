--------------------------- MODULE StorageProofs ---------------------------
(***************************************************************************)
(* Proofs about Storage for any windows, keys, values and faults: no       *)
(* window is left with an old value, nothing that was set is forgotten,    *)
(* and a file that was closed has everything.  The argument is about two   *)
(* things: what can still reach a window about a key, and where a process  *)
(* is in its flush when it closes.                                         *)
(***************************************************************************)
EXTENDS Storage, SequenceTheorems, TLAPS

Resting(p) == ~HasPending(p) /\ ~Active(p) /\ ~timer[p] /\ ~queued[p]

(* Where a process is in its flush, and what a doClose waits for.           *)
Phase(p) ==
    /\ queued[p] => Active(p)
    /\ HasPending(p) => timer[p] \/ queued[p]
    /\ closing[p] = "no" <=> state[p] # "Closed"
    /\ state[p] \in {"None", "Opening"} => Resting(p)
    /\ closing[p] = "timer" => timer[p]
    /\ closing[p] \in {"update", "queued update"} =>
          ~HasPending(p) /\ ~timer[p] /\ ~queued[p]
    /\ closing[p] = "queue" => queued[p] /\ ~timer[p]
    /\ closing[p] \in {"settled", "done"} => Resting(p)

Phases ==
    /\ \A p \in Process : Phase(p)
    /\ state[Main] \in {"Initialized", "Closed"}
    /\ dbState # "open" => closing[Main] = "done"

(* A window has one request out at a time, and one answer.                  *)
Wire(w) ==
    /\ asked[w] = "update" =>
          Active(w) /\ \A i \in DOMAIN toWindow[w] : toWindow[w][i].type # "done"
    /\ asked[w] = "items" =>
          /\ state[w] = "Opening"
          /\ \A i \in DOMAIN toWindow[w] : toWindow[w][i].type # "items"
    /\ \A i \in DOMAIN toWindow[w] :
          /\ toWindow[w][i].type = "done" =>
                Active(w) /\ toWindow[w][i].data = Nothing
          /\ toWindow[w][i].type = "items" =>
                state[w] = "Opening" /\ toWindow[w][i].data \in Items
    /\ \A i, j \in DOMAIN toWindow[w] :
          toWindow[w][i].type = toWindow[w][j].type /\ toWindow[w][i].type # "changed"
             => i = j
    /\ closing[w] = "done" \/ state[w] = "None" =>
          asked[w] = "nothing" /\ toWindow[w] = << >>

Wires == \A w \in Window : Wire(w)

(* The last message of s about k says v; no message of s is about k.        *)
LastSays(s, k, v) ==
    \A i \in DOMAIN s :
       /\ s[i].data[k] # Untouched
       /\ \A j \in DOMAIN s : s[j].data[k] # Untouched => j <= i
       => s[i].data[k] = v
Silent(s, k) == \A i \in DOMAIN s : s[i].data[k] = Untouched

LastIsCurrent ==
    \A w \in Window, k \in Key \ changed : LastSays(toWindow[w], k, cache[Main][k])

(* A window that will hear nothing of a key has main's value or its own.    *)
MainOrOwnAt(w, k) ==
    /\ state[w] = "Initialized"
    /\ state[Main] = "Initialized"
    /\ Silent(toWindow[w], k)
    => cache[w][k] = cache[Main][k] \/ Own(w, k) = cache[w][k]

MainOrOwn == \A w \in Window, k \in Key \ changed : MainOrOwnAt(w, k)

IInv ==
    /\ TypeOK
    /\ Phases
    /\ Wires
    /\ LastIsCurrent
    /\ MainOrOwn
    /\ DatabaseFollows
    /\ ClosedHasAll

-----------------------------------------------------------------------------
(* Sequences and requests *)

LEMMA Appending ==
    ASSUME NEW S, NEW s \in Seq(S), NEW e \in S
    PROVE  /\ Append(s, e) \in Seq(S)
           /\ DOMAIN s \subseteq DOMAIN Append(s, e)
           /\ Len(s) + 1 \in DOMAIN Append(s, e) /\ Append(s, e)[Len(s) + 1] = e
           /\ \A i \in DOMAIN s : i \in Nat /\ ~(Len(s) + 1 <= i)
           /\ \A i \in DOMAIN Append(s, e) :
                 \/ i \in DOMAIN s /\ Append(s, e)[i] = s[i]
                 \/ i = Len(s) + 1 /\ i \notin DOMAIN s /\ Append(s, e)[i] = e
  OBVIOUS

LEMMA Taking ==
    ASSUME NEW S, NEW s \in Seq(S), s # << >>
    PROVE  /\ Tail(s) \in Seq(S)
           /\ 1 \in DOMAIN s /\ Head(s) = s[1] /\ Head(s) \in S
           /\ \A i \in DOMAIN Tail(s) :
                 i \in Nat /\ i + 1 \in DOMAIN s /\ i + 1 # 1 /\ Tail(s)[i] = s[i + 1]
           /\ \A i \in DOMAIN s :
                 \/ i = 1
                 \/ i - 1 \in DOMAIN Tail(s) /\ Tail(s)[i - 1] = s[i] /\ (i - 1) + 1 = i
           /\ \A i, j \in DOMAIN Tail(s) :
                 (i + 1 = j + 1 => i = j) /\ (i <= j => i + 1 <= j + 1)
           /\ \A j \in DOMAIN s : 1 <= j
           /\ \A i \in DOMAIN s, j \in DOMAIN Tail(s) : i - 1 <= j => i <= j + 1
  <1>1. /\ Head(s) \in S /\ Tail(s) \in Seq(S) /\ Len(Tail(s)) = Len(s) - 1
        /\ \A i \in 1 .. Len(Tail(s)) : Tail(s)[i] = s[i + 1]
    BY HeadTailProperties
  <1>2. /\ Len(s) \in Nat /\ Len(s) >= 1 /\ DOMAIN s = 1 .. Len(s) /\ Head(s) = s[1]
        /\ DOMAIN Tail(s) = 1 .. Len(Tail(s))
    BY <1>1
  <1>3. DOMAIN Tail(s) = 1 .. (Len(s) - 1)
    BY <1>1, <1>2
  <1>4. ASSUME NEW i \in DOMAIN s, i # 1
        PROVE  i - 1 \in DOMAIN Tail(s) /\ Tail(s)[i - 1] = s[i] /\ (i - 1) + 1 = i
    <2>1. i - 1 \in 1 .. (Len(s) - 1) /\ (i - 1) + 1 = i
      BY <1>2, <1>4
    <2>2. Tail(s)[i - 1] = s[(i - 1) + 1]
      BY <1>1, <1>3, <2>1
    <2>3. QED
      BY <1>3, <2>1, <2>2
  <1>5. ASSUME NEW i \in DOMAIN Tail(s)
        PROVE  i \in Nat /\ i + 1 \in DOMAIN s /\ i + 1 # 1 /\ Tail(s)[i] = s[i + 1]
    <2>1. i \in 1 .. (Len(s) - 1)
      BY <1>3
    <2>2. Tail(s)[i] = s[i + 1]
      BY <1>1, <1>2
    <2>3. QED
      BY <1>2, <2>1, <2>2
  <1>6. \A i, j \in DOMAIN Tail(s) : (i + 1 = j + 1 => i = j) /\ (i <= j => i + 1 <= j + 1)
    BY <1>3
  <1>7. 1 \in DOMAIN s /\ \A j \in DOMAIN s : 1 <= j
    BY <1>2
  <1>8. \A i \in DOMAIN s, j \in DOMAIN Tail(s) : i - 1 <= j => i <= j + 1
    BY <1>2, <1>3
  <1>9. QED
    BY <1>1, <1>2, <1>4, <1>5, <1>6, <1>7, <1>8

\* A message about k is the last one when it comes; one that says nothing of k
\* changes nothing.
LEMMA LastAppended ==
    ASSUME NEW S, NEW s \in Seq(S), NEW m \in S, NEW k, NEW v,
           \/ m.data[k] = v /\ v # Untouched
           \/ m.data[k] = Untouched /\ LastSays(s, k, v)
    PROVE  LastSays(Append(s, m), k, v)
  <1> DEFINE t == Append(s, m)
  <1>1. /\ DOMAIN s \subseteq DOMAIN t
        /\ Len(s) + 1 \in DOMAIN t /\ t[Len(s) + 1] = m
        /\ \A i \in DOMAIN s : i \in Nat /\ ~(Len(s) + 1 <= i)
        /\ \A i \in DOMAIN t :
              \/ i \in DOMAIN s /\ t[i] = s[i]
              \/ i = Len(s) + 1 /\ i \notin DOMAIN s /\ t[i] = m
    BY Appending
  <1>2. SUFFICES ASSUME NEW i \in DOMAIN t, t[i].data[k] # Untouched,
                        \A j \in DOMAIN t : t[j].data[k] # Untouched => j <= i
                 PROVE  t[i].data[k] = v
    BY DEF LastSays
  <1>3. \A j \in DOMAIN s : t[j] = s[j]
    BY <1>1
  <1> HIDE DEF t
  <1>4. CASE m.data[k] = v /\ v # Untouched
    BY <1>1, <1>2, <1>4
  <1>5. CASE m.data[k] = Untouched /\ LastSays(s, k, v)
    <2>1. i \in DOMAIN s /\ t[i] = s[i]
      BY <1>1, <1>2, <1>5
    <2>2. \A j \in DOMAIN s : s[j].data[k] # Untouched => j <= i
      BY <1>1, <1>2, <1>3
    <2>3. QED
      BY <1>2, <1>5, <2>1, <2>2 DEF LastSays
  <1>6. QED
    BY <1>4, <1>5

LEMMA LastTaken ==
    ASSUME NEW S, NEW s \in Seq(S), s # << >>, NEW k, NEW v, LastSays(s, k, v)
    PROVE  /\ LastSays(Tail(s), k, v)
           /\ Silent(Tail(s), k) /\ Head(s).data[k] # Untouched => Head(s).data[k] = v
           /\ Silent(Tail(s), k) /\ Head(s).data[k] = Untouched => Silent(s, k)
  <1> DEFINE t == Tail(s)
  <1>1. /\ 1 \in DOMAIN s /\ Head(s) = s[1]
        /\ \A i \in DOMAIN t : i \in Nat /\ i + 1 \in DOMAIN s /\ t[i] = s[i + 1]
        /\ \A i \in DOMAIN s :
              i = 1 \/ (i - 1 \in DOMAIN t /\ t[i - 1] = s[i] /\ (i - 1) + 1 = i)
        /\ \A j \in DOMAIN s : 1 <= j
        /\ \A i \in DOMAIN s, j \in DOMAIN t : i - 1 <= j => i <= j + 1
        /\ \A j \in DOMAIN t : 1 <= j + 1
    <2>1. \A j \in DOMAIN s : 1 <= j
      BY Taking
    <2>2. \A j \in DOMAIN t : j + 1 \in DOMAIN s
      BY Taking
    <2>3. QED
      BY Taking, <2>1, <2>2
  <1> HIDE DEF t
  <1>2. ASSUME NEW i \in DOMAIN t, t[i].data[k] # Untouched,
               \A j \in DOMAIN t : t[j].data[k] # Untouched => j <= i
        PROVE  t[i].data[k] = v
    <2>1. i + 1 \in DOMAIN s /\ s[i + 1] = t[i]
      BY <1>1
    <2>2. ASSUME NEW j \in DOMAIN s, s[j].data[k] # Untouched
          PROVE  j <= i + 1
      <3>1. CASE j = 1
        BY <1>1, <3>1
      <3>2. CASE j # 1
        <4>1. j - 1 \in DOMAIN t /\ t[j - 1] = s[j]
          BY <1>1, <3>2
        <4>2. j - 1 <= i
          BY <1>2, <2>2, <4>1
        <4>3. QED
          BY <1>1, <4>2
      <3>3. QED
        BY <3>1, <3>2
    <2>3. QED
      BY <1>2, <2>1, <2>2 DEF LastSays
  <1>3. ASSUME Silent(t, k), Head(s).data[k] # Untouched
        PROVE  Head(s).data[k] = v
    <2>1. \A j \in DOMAIN s : s[j].data[k] # Untouched => j <= 1
      <3>1. SUFFICES ASSUME NEW j \in DOMAIN s, s[j].data[k] # Untouched PROVE j = 1
        OBVIOUS
      <3>2. QED
        BY <1>1, <1>3, <3>1 DEF Silent
    <2>2. QED
      BY <1>1, <1>3, <2>1 DEF LastSays
  <1>4. ASSUME Silent(t, k), Head(s).data[k] = Untouched
        PROVE  Silent(s, k)
    BY <1>1, <1>4 DEF Silent
  <1>5. QED
    BY <1>2, <1>3, <1>4 DEF LastSays, t

LEMMA SilentAppended ==
    ASSUME NEW S, NEW s \in Seq(S), NEW m \in S, NEW k, Silent(Append(s, m), k)
    PROVE  Silent(s, k) /\ m.data[k] = Untouched
  <1>1. /\ DOMAIN s \subseteq DOMAIN Append(s, m)
        /\ Len(s) + 1 \in DOMAIN Append(s, m) /\ Append(s, m)[Len(s) + 1] = m
        /\ \A i \in DOMAIN s : Append(s, m)[i] = s[i]
    BY Appending
  <1>2. QED
    BY <1>1 DEF Silent

LEMMA AppliedType ==
    ASSUME NEW request \in Request
    PROVE  /\ \A items \in Items : Applied(items, request) \in Items
           /\ \A items \in Request : Applied(items, request) \in Request
  BY DEF Applied, Items, Request, Data

LEMMA Constants ==
    /\ Nothing \in Request /\ Empty \in Items
    /\ Items \subseteq Request
    /\ \A r \in Request : r = Nothing <=> \A k \in Key : r[k] = Untouched
    /\ \A r \in Items, k \in Key : r[k] # Untouched
    /\ Untouched \notin Data
    /\ Main \notin Window /\ Main \in Process /\ Window \subseteq Process
  <1>1. /\ Nothing \in Request /\ Empty \in Items /\ Items \subseteq Request
        /\ Untouched \notin Data
        /\ Main \notin Window /\ Main \in Process /\ Window \subseteq Process
    BY StorageAssumption DEF Nothing, Empty, Items, Request, Data, Process
  <1>2. ASSUME NEW r \in Request
        PROVE  r = Nothing <=> \A k \in Key : r[k] = Untouched
    BY DEF Nothing, Request
  <1>3. \A r \in Items, k \in Key : r[k] # Untouched
    BY <1>1 DEF Items
  <1>4. QED
    BY <1>1, <1>2, <1>3
-----------------------------------------------------------------------------
(* Types *)

LEMMA ChangeType ==
    ASSUME TypeOK, NEW p \in Process, NEW request \in Request, Change(p, request)
    PROVE  /\ cache' \in [Process -> Items] /\ pending' \in [Process -> Request]
           /\ timer' \in [Process -> BOOLEAN] /\ changed' \in SUBSET Key
  <1> DEFINE new == [k \in Key |-> IF request[k] = cache[p][k] THEN Untouched ELSE request[k]]
  <1>1. new \in Request
    BY DEF Request
  <1>2. /\ cache' = [cache EXCEPT ![p] = Applied(@, new)]
        /\ pending' = [pending EXCEPT ![p] = Applied(@, new)]
        /\ timer' = [timer EXCEPT ![p] = @ \/ new # Nothing]
        /\ changed' = IF p = Main THEN changed \cup {k \in Key : new[k] # Untouched}
                                  ELSE changed
    BY DEF Change
  <1> HIDE DEF new
  <1>3. Applied(cache[p], new) \in Items /\ Applied(pending[p], new) \in Request
    BY <1>1, AppliedType DEF TypeOK
  <1>4. cache' \in [Process -> Items] /\ pending' \in [Process -> Request]
    BY <1>2, <1>3 DEF TypeOK
  <1>5. timer' \in [Process -> BOOLEAN]
    BY <1>2 DEF TypeOK
  <1>6. changed' \in SUBSET Key
    BY <1>2 DEF TypeOK
  <1>7. QED
    BY <1>4, <1>5, <1>6

LEMMA FlushType ==
    ASSUME TypeOK, NEW p \in Process, NEW waited,
           NEW waits \in {"update", "queued update"}, FlushPending(p, waited, waits)
    PROVE  /\ pending' \in [Process -> Request] /\ updating' \in [Process -> Request]
           /\ closing' \in [Process -> {"no", "timer", "update", "queue",
                                        "queued update", "settled", "done"}]
           /\ asked' \in [Window -> {"nothing", "items", "update"}]
  BY Constants DEF FlushPending, TypeOK

LEMMA SettleType ==
    ASSUME TypeOK, NEW p \in Process, NEW succeeds, UpdateSettles(p, succeeds)
    PROVE  /\ pending' \in [Process -> Request] /\ updating' \in [Process -> Request]
           /\ queued' \in [Process -> BOOLEAN]
           /\ closing' \in [Process -> {"no", "timer", "update", "queue",
                                        "queued update", "settled", "done"}]
           /\ asked' \in [Window -> {"nothing", "items", "update"}]
  <1>1. CASE queued[p]
    BY <1>1, FlushType DEF UpdateSettles, TypeOK
  <1>2. CASE ~queued[p]
    BY <1>2, Constants DEF UpdateSettles, TypeOK
  <1>3. QED
    BY <1>1, <1>2

LEMMA SendType ==
    ASSUME TypeOK, NEW w \in Window, NEW type \in {"items", "done", "changed"},
           NEW data \in Request, Send(w, type, data)
    PROVE  toWindow' \in [Window -> Seq(Message)]
  <1> DEFINE m == [type |-> type, data |-> data]
  <1>1. m \in Message
    BY DEF Message
  <1>2. toWindow' = [toWindow EXCEPT ![w] = Append(@, m)]
    BY DEF Send
  <1> HIDE DEF m
  <1>3. toWindow[w] \in Seq(Message)
    BY DEF TypeOK
  <1>4. Append(toWindow[w], m) \in Seq(Message)
    BY <1>1, <1>3
  <1>5. QED
    BY <1>2, <1>4 DEF TypeOK

LEMMA ReadType ==
    ASSUME TypeOK, NEW w \in Window, NEW type, Read(w, type)
    PROVE  /\ toWindow' \in [Window -> Seq(Message)]
           /\ toWindow[w] \in Seq(Message) /\ toWindow[w] # << >>
           /\ Head(toWindow[w]) \in Message /\ Head(toWindow[w]).data \in Request
  <1>1. toWindow[w] \in Seq(Message) /\ toWindow[w] # << >>
    BY DEF Read, TypeOK
  <1>2. Tail(toWindow[w]) \in Seq(Message) /\ Head(toWindow[w]) \in Message
    BY <1>1, Taking
  <1>3. Head(toWindow[w]).data \in Request
    BY <1>2 DEF Message
  <1>4. toWindow' \in [Window -> Seq(Message)]
    BY <1>2 DEF Read, TypeOK
  <1>5. QED
    BY <1>1, <1>2, <1>3, <1>4

LEMMA TypeStep ==
    ASSUME TypeOK, Wires, [Next]_vars
    PROVE  TypeOK'
  <1>1. ASSUME NEW p \in Process, NEW k \in Key, NEW v \in Data, Set(p, k, v)
        PROVE  TypeOK'
    <2>1. [Nothing EXCEPT ![k] = v] \in Request
      BY Constants DEF Request
    <2>2. changes' \in 0 .. MaxChange
      <3>1. changes \in 0 .. MaxChange /\ changes < MaxChange /\ changes' = changes + 1
        BY <1>1 DEF Set, TypeOK
      <3>2. QED
        BY <3>1, StorageAssumption
    <2>3. Change(p, [Nothing EXCEPT ![k] = v])
      BY <1>1 DEF Set
    <2>4. QED
      BY <1>1, <2>1, <2>2, <2>3, ChangeType DEF Set, TypeOK, dbVars
  <1>2. ASSUME NEW p \in Process, TimerFires(p)
        PROVE  TypeOK'
    <2>1. CASE Active(p)
      BY <1>2, <2>1 DEF TimerFires, TypeOK, dbVars
    <2>2. CASE ~Active(p)
      BY <1>2, <2>2, FlushType DEF TimerFires, TypeOK, dbVars
    <2>3. QED
      BY <2>1, <2>2
  <1>3. ASSUME NEW p \in Process, Close(p)
        PROVE  TypeOK'
    BY <1>3 DEF Close, TypeOK, dbVars, wireVars
  <1>4. ASSUME NEW w \in Window, Open(w)
        PROVE  TypeOK'
    BY <1>4, Constants DEF Open, TypeOK, dbVars, storageVars
  <1>5. ASSUME NEW w \in Window, AnswerItems(w)
        PROVE  TypeOK'
    <2>1. cache[Main] \in Request
      BY Constants DEF TypeOK
    <2>2. QED
      BY <1>5, <2>1, SendType DEF AnswerItems, TypeOK, dbVars, storageVars
  <1>6. ASSUME NEW w \in Window, AnswerUpdate(w)
        PROVE  TypeOK'
    <2>1. toWindow' \in [Window -> Seq(Message)]
      BY <1>6, Constants, SendType DEF AnswerUpdate
    <2>2. /\ cache' \in [Process -> Items] /\ pending' \in [Process -> Request]
          /\ timer' \in [Process -> BOOLEAN] /\ changed' \in SUBSET Key
      <3>1. CASE state[Main] = "Closed"
        BY <1>6, <3>1 DEF AnswerUpdate, TypeOK
      <3>2. CASE state[Main] # "Closed"
        <4>1. updating[w] \in Request
          BY Constants DEF TypeOK
        <4>2. QED
          BY <1>6, <3>2, <4>1, ChangeType, Constants DEF AnswerUpdate
      <3>3. QED
        BY <3>1, <3>2
    <2>3. QED
      BY <1>6, <2>1, <2>2 DEF AnswerUpdate, TypeOK, dbVars
  <1>7. ASSUME NEW w \in Window, ReadItems(w)
        PROVE  TypeOK'
    <2>1. toWindow[w] # << >> /\ Head(toWindow[w]).type = "items"
      BY <1>7 DEF ReadItems, Read
    <2>2. Head(toWindow[w]).data \in Items
      <3>1. 1 \in DOMAIN toWindow[w] /\ Head(toWindow[w]) = toWindow[w][1]
        <4>1. toWindow[w] \in Seq(Message)
          BY DEF TypeOK
        <4>2. QED
          BY <2>1, <4>1, Taking
      <3>2. QED
        BY <2>1, <3>1 DEF Wires, Wire
    <2>3. toWindow' \in [Window -> Seq(Message)]
      BY <1>7, ReadType DEF ReadItems
    <2>4. QED
      BY <1>7, <2>2, <2>3 DEF ReadItems, TypeOK, dbVars
  <1>8. ASSUME NEW w \in Window, ReadChanges(w)
        PROVE  TypeOK'
    <2>1. /\ toWindow' \in [Window -> Seq(Message)]
          /\ Head(toWindow[w]).data \in Request
      BY <1>8, ReadType DEF ReadChanges
    <2>2. cache' \in [Process -> Items]
      <3>1. Applied(cache[w], Head(toWindow[w]).data) \in Items
        BY <2>1, AppliedType, Constants DEF TypeOK
      <3>2. QED
        BY <1>8, <3>1 DEF ReadChanges, TypeOK
    <2>3. QED
      BY <1>8, <2>1, <2>2 DEF ReadChanges, TypeOK, dbVars
  <1>9. ASSUME NEW w \in Window, ReadDone(w)
        PROVE  TypeOK'
    <2>1. toWindow' \in [Window -> Seq(Message)]
      BY <1>9, ReadType DEF ReadDone
    <2>2. w \in Process /\ UpdateSettles(w, TRUE)
      BY <1>9, Constants DEF ReadDone
    <2>3. QED
      BY <1>9, <2>1, <2>2, SettleType DEF ReadDone, TypeOK, dbVars
  <1>10. ASSUME NEW w \in Window, CloseClient(w)
         PROVE  TypeOK'
    <2>1. << >> \in Seq(Message)
      OBVIOUS
    <2>2. toWindow' \in [Window -> Seq(Message)]
      BY <1>10, <2>1 DEF CloseClient, TypeOK
    <2>3. closing' \in [Process -> {"no", "timer", "update", "queue",
                                   "queued update", "settled", "done"}]
      BY <1>10 DEF CloseClient, TypeOK
    <2>4. QED
      BY <1>10, <2>2, <2>3 DEF CloseClient, TypeOK, dbVars, storageVars
  <1>11. ASSUME SendChanges
         PROVE  TypeOK'
    <2> DEFINE m == [type |-> "changed",
                     data |-> [k \in Key |-> IF k \in changed THEN cache[Main][k]
                                                              ELSE Untouched]]
    <2>1. m \in Message
      <3>1. cache[Main] \in Items
        BY Constants DEF TypeOK
      <3>2. [k \in Key |-> IF k \in changed THEN cache[Main][k] ELSE Untouched] \in Request
        BY <3>1 DEF Items, Request
      <3>3. QED
        BY <3>2 DEF Message
    <2>2. toWindow' = [w \in Window |-> IF Listening(w) THEN Append(toWindow[w], m)
                                                         ELSE toWindow[w]]
      BY <1>11 DEF SendChanges
    <2> HIDE DEF m
    <2>3. \A w \in Window : Append(toWindow[w], m) \in Seq(Message)
      BY <2>1, Appending DEF TypeOK
    <2>4. toWindow' \in [Window -> Seq(Message)]
      BY <2>2, <2>3 DEF TypeOK
    <2>5. QED
      BY <1>11, <2>4 DEF SendChanges, TypeOK, dbVars, storageVars
  <1>12. ASSUME NEW lost, TransactionCommits(lost)
         PROVE  TypeOK'
    <2>1. UpdateSettles(Main, TRUE) /\ Main \in Process
      BY <1>12, Constants DEF TransactionCommits
    <2>2. db' \in Items
      <3>1. Applied(db, updating[Main]) \in Items
        BY AppliedType, Constants DEF TypeOK
      <3>2. QED
        BY <1>12, <3>1 DEF TransactionCommits, TypeOK, Items
    <2>3. erroneous' \in BOOLEAN
      BY <1>12 DEF TransactionCommits
    <2>4. QED
      BY <1>12, <2>1, <2>2, <2>3, SettleType DEF TransactionCommits, TypeOK
  <1>13. ASSUME TransactionFails
         PROVE  TypeOK'
    <2>1. UpdateSettles(Main, FALSE) /\ Main \in Process
      BY <1>13, Constants DEF TransactionFails
    <2>2. QED
      BY <1>13, <2>1, SettleType DEF TransactionFails, TypeOK
  <1>14. ASSUME NEW recovers \in BOOLEAN, CloseDatabase(recovers)
         PROVE  TypeOK'
    BY <1>14, Constants DEF CloseDatabase, TypeOK, storageVars, wireVars
  <1>15. CASE UNCHANGED vars
    BY <1>15 DEF vars, TypeOK
  <1>16. QED
    BY <1>1, <1>2, <1>3, <1>4, <1>5, <1>6, <1>7, <1>8, <1>9, <1>10, <1>11, <1>12,
       <1>13, <1>14, <1>15 DEF Next
-----------------------------------------------------------------------------
(* Where a process is in its flush *)

LEMMA ChangePhase ==
    ASSUME TypeOK, Phases, NEW p \in Process, NEW request \in Request,
           Change(p, request), state[p] = "Initialized",
           UNCHANGED <<state, updating, queued, closing, dbState>>
    PROVE  Phases'
  <1> DEFINE new == [k \in Key |-> IF request[k] = cache[p][k] THEN Untouched ELSE request[k]]
  <1>1. /\ pending' = [pending EXCEPT ![p] = Applied(@, new)]
        /\ timer' = [timer EXCEPT ![p] = @ \/ new # Nothing]
    BY DEF Change
  <1>2. new \in Request
    BY DEF Request
  <1> HIDE DEF new
  <1>3. ASSUME NEW q \in Process
        PROVE  Phase(q)'
    <2>1. Phase(q)
      BY DEF Phases
    <2>2. CASE q # p
      <3>1. pending'[q] = pending[q] /\ timer'[q] = timer[q]
        BY <1>1, <2>2 DEF TypeOK
      <3>2. QED
        BY <2>1, <3>1 DEF Phase, Resting, HasPending, Active
    <2>3. CASE q = p
      <3>1. closing[p] = "no" /\ closing'[p] = "no" /\ state'[p] = "Initialized"
        BY <2>1, <2>3 DEF Phase
      <3>2. queued'[p] => Active(p)'
        BY <2>1, <2>3 DEF Phase, Active
      <3>3. HasPending(p)' => timer'[p] \/ queued'[p]
        <4>1. CASE new = Nothing
          <5>1. pending'[p] = pending[p]
            <6>1. pending'[p] = Applied(pending[p], Nothing)
              BY <1>1, <4>1 DEF TypeOK
            <6>2. \A r \in Request : Applied(r, Nothing) = r
              BY DEF Applied, Request, Nothing
            <6>3. QED
              BY <6>1, <6>2 DEF TypeOK
          <5>2. timer'[p] <=> timer[p]
            BY <1>1, <4>1 DEF TypeOK
          <5>3. QED
            BY <2>1, <2>3, <5>1, <5>2 DEF Phase, HasPending
        <4>2. CASE new # Nothing
          <5>1. timer'[p]
            BY <1>1, <4>2 DEF TypeOK
          <5>2. QED
            BY <5>1
        <4>3. QED
          BY <4>1, <4>2
      <3>4. QED
        BY <2>3, <3>1, <3>2, <3>3 DEF Phase
    <2>4. QED
      BY <2>2, <2>3
  <1>4. QED
    BY <1>3 DEF Phases

\* A flush that p starts while no update of it runs, or as one is over.
LEMMA FlushPhase ==
    ASSUME TypeOK, Phases, NEW p \in Process,
           NEW waited \in {"timer", "queue"}, NEW waits \in {"update", "queued update"},
           FlushPending(p, waited, waits),
           UNCHANGED <<state, dbState>>,
           queued' = [queued EXCEPT ![p] = FALSE],
           timer' = IF waited = "timer" THEN [timer EXCEPT ![p] = FALSE] ELSE timer,
           waited = "timer" => timer[p] /\ ~queued[p],
           waited = "queue" => queued[p]
    PROVE  Phases'
  <1>1. /\ pending' = [pending EXCEPT ![p] = Nothing]
        /\ updating' = [updating EXCEPT ![p] = pending[p]]
        /\ closing' = [closing EXCEPT ![p] = IF @ # waited THEN @
                                             ELSE IF HasPending(p) THEN waits
                                             ELSE "settled"]
    BY DEF FlushPending
  <1>2. ASSUME NEW q \in Process, q # p
        PROVE  Phase(q)'
    <2>1. /\ pending'[q] = pending[q] /\ updating'[q] = updating[q]
          /\ closing'[q] = closing[q] /\ queued'[q] = queued[q] /\ timer'[q] = timer[q]
      BY <1>1, <1>2 DEF TypeOK
    <2>2. QED
      BY <2>1 DEF Phases, Phase, Resting, HasPending, Active
  <1>3. Phase(p)'
    <2>1. Phase(p)
      BY DEF Phases
    <2>2. /\ ~HasPending(p)' /\ queued'[p] = FALSE
          /\ Active(p)' <=> HasPending(p)
          /\ waited = "timer" => timer'[p] = FALSE
          /\ waited = "queue" => timer'[p] = timer[p]
      BY <1>1 DEF TypeOK, HasPending, Active
    <2>3. closing'[p] = IF closing[p] # waited THEN closing[p]
                        ELSE IF HasPending(p) THEN waits ELSE "settled"
      BY <1>1 DEF TypeOK
    <2>4. state'[p] = state[p]
      OBVIOUS
    <2>5. state[p] \notin {"None", "Opening"} /\ closing[p] \notin {"settled", "done"}
      BY <2>1 DEF Phase, Resting
    <2>6. CASE closing[p] = waited
      <3>1. state[p] = "Closed"
        BY <2>1, <2>6 DEF Phase, TypeOK
      <3>2. ~(timer'[p])
        BY <2>1, <2>2, <2>6 DEF Phase
      <3>3. CASE HasPending(p)
        BY <2>2, <2>3, <2>4, <2>6, <3>1, <3>2, <3>3 DEF Phase
      <3>4. CASE ~HasPending(p)
        BY <2>2, <2>3, <2>4, <2>6, <3>1, <3>2, <3>4 DEF Phase, Resting
      <3>5. QED
        BY <3>3, <3>4
    <2>7. CASE closing[p] # waited
      <3>1. closing'[p] = closing[p]
        BY <2>3, <2>7
      <3>2. closing[p] \in {"no", "timer", "update", "queue", "queued update"}
        BY <2>5 DEF TypeOK
      <3>3. closing[p] \notin {"update", "queued update"}
        BY <2>1 DEF Phase
      <3>4. closing[p] # "queue"
        BY <2>1, <2>7 DEF Phase
      <3>5. closing[p] = "timer" => timer'[p]
        BY <2>1, <2>2, <2>7 DEF Phase
      <3>6. QED
        BY <2>1, <2>2, <2>4, <2>5, <3>1, <3>2, <3>3, <3>4, <3>5 DEF Phase
    <2>8. QED
      BY <2>6, <2>7
  <1>4. closing[Main] = "done" => closing'[Main] = "done"
    BY <1>1, Constants DEF TypeOK
  <1>5. QED
    BY <1>2, <1>3, <1>4 DEF Phases

LEMMA SettlePhase ==
    ASSUME TypeOK, Phases, NEW p \in Process, NEW succeeds, UpdateSettles(p, succeeds),
           UNCHANGED <<state, timer, dbState>>
    PROVE  Phases'
  <1>1. CASE queued[p]
    <2>1. /\ queued' = [queued EXCEPT ![p] = FALSE]
          /\ FlushPending(p, "queue", "queued update")
      BY <1>1 DEF UpdateSettles
    <2>2. QED
      BY <1>1, <2>1, FlushPhase
  <1>2. CASE ~queued[p]
    <2>1. /\ updating' = [updating EXCEPT ![p] = Nothing]
          /\ closing' = [closing EXCEPT ![p] =
                IF @ = "update" \/ (@ = "queued update" /\ succeeds) THEN "settled" ELSE @]
          /\ UNCHANGED <<pending, queued, asked>>
      BY <1>2 DEF UpdateSettles
    <2>2. ASSUME NEW q \in Process, q # p
          PROVE  Phase(q)'
      <3>1. updating'[q] = updating[q] /\ closing'[q] = closing[q]
        BY <2>1, <2>2 DEF TypeOK
      <3>2. QED
        BY <2>1, <3>1 DEF Phases, Phase, Resting, HasPending, Active
    <2>3. Phase(p)'
      <3>1. Phase(p) /\ ~(queued'[p])
        BY <1>2, <2>1 DEF Phases
      <3>2. updating'[p] = Nothing /\ ~Active(p)'
        BY <2>1 DEF TypeOK, Active
      <3>3. CASE closing'[p] = closing[p]
        BY <2>1, <3>1, <3>2, <3>3 DEF Phase, Resting, HasPending
      <3>4. CASE closing'[p] # closing[p]
        <4>1. closing'[p] = "settled" /\ closing[p] \in {"update", "queued update"}
          BY <2>1, <3>4 DEF TypeOK
        <4>2. QED
          BY <2>1, <3>1, <3>2, <4>1 DEF Phase, Resting, HasPending
      <3>5. QED
        BY <3>3, <3>4
    <2>4. closing[Main] = "done" => closing'[Main] = "done"
      BY <2>1, Constants DEF TypeOK
    <2>5. QED
      BY <2>2, <2>3, <2>4 DEF Phases
  <1>3. QED
    BY <1>1, <1>2
LEMMA PhaseStep ==
    ASSUME TypeOK, Phases, Wires, [Next]_vars
    PROVE  Phases'
  <1>1. ASSUME NEW p \in Process, NEW k \in Key, NEW v \in Data, Set(p, k, v)
        PROVE  Phases'
    <2>1. [Nothing EXCEPT ![k] = v] \in Request
      BY Constants DEF Request
    <2>2. /\ Change(p, [Nothing EXCEPT ![k] = v]) /\ state[p] = "Initialized"
          /\ UNCHANGED <<state, updating, queued, closing, dbState>>
      BY <1>1 DEF Set, dbVars
    <2>3. QED
      BY <2>1, <2>2, ChangePhase
  <1>2. ASSUME NEW p \in Process, TimerFires(p)
        PROVE  Phases'
    <2>1. timer[p] /\ timer' = [timer EXCEPT ![p] = FALSE] /\ UNCHANGED <<state, dbState>>
      BY <1>2 DEF TimerFires, dbVars
    <2>2. CASE Active(p)
      <3>1. /\ queued' = [queued EXCEPT ![p] = TRUE]
            /\ closing' = [closing EXCEPT ![p] = IF @ = "timer" THEN "queue" ELSE @]
            /\ UNCHANGED <<pending, updating>>
        BY <1>2, <2>2 DEF TimerFires
      <3>2. ASSUME NEW q \in Process, q # p
            PROVE  Phase(q)'
        <4>1. timer'[q] = timer[q] /\ queued'[q] = queued[q] /\ closing'[q] = closing[q]
          BY <2>1, <3>1, <3>2 DEF TypeOK
        <4>2. QED
          BY <2>1, <3>1, <4>1 DEF Phases, Phase, Resting, HasPending, Active
      <3>3. Phase(p)'
        <4>1. Phase(p)
          BY DEF Phases
        <4>2. queued'[p] = TRUE /\ timer'[p] = FALSE /\ (Active(p)' <=> Active(p))
          BY <2>1, <3>1 DEF TypeOK, Active
        <4>3. closing'[p] = IF closing[p] = "timer" THEN "queue" ELSE closing[p]
          BY <3>1 DEF TypeOK
        <4>4. /\ state[p] \notin {"None", "Opening"}
              /\ closing[p] \notin {"update", "queued update", "queue", "settled", "done"}
          BY <2>1, <4>1 DEF Phase, Resting
        <4>5. QED
          BY <2>1, <2>2, <4>1, <4>2, <4>3, <4>4 DEF Phase
      <3>4. closing[Main] = "done" => closing'[Main] = "done"
        BY <3>1, Constants DEF TypeOK
      <3>5. QED
        BY <2>1, <3>2, <3>3, <3>4 DEF Phases
    <2>3. CASE ~Active(p)
      <3>1. FlushPending(p, "timer", "update") /\ UNCHANGED queued
        BY <1>2, <2>3 DEF TimerFires
      <3>2. queued[p] = FALSE
        BY <2>3 DEF Phases, Phase, TypeOK
      <3>3. queued' = [queued EXCEPT ![p] = FALSE]
        BY <3>1, <3>2 DEF TypeOK
      <3>4. QED
        BY <2>1, <3>1, <3>2, <3>3, FlushPhase
    <2>4. QED
      BY <2>2, <2>3
  <1>3. ASSUME NEW p \in Process, Close(p)
        PROVE  Phases'
    <2>1. /\ state[p] = "Initialized"
          /\ state' = [state EXCEPT ![p] = "Closed"]
          /\ timer' = [timer EXCEPT ![p] = TRUE]
          /\ closing' = [closing EXCEPT ![p] = "timer"]
          /\ UNCHANGED <<pending, updating, queued, dbState>>
      BY <1>3 DEF Close, dbVars
    <2>2. ASSUME NEW q \in Process, q # p
          PROVE  Phase(q)'
      <3>1. state'[q] = state[q] /\ timer'[q] = timer[q] /\ closing'[q] = closing[q]
        BY <2>1, <2>2 DEF TypeOK
      <3>2. QED
        BY <2>1, <3>1 DEF Phases, Phase, Resting, HasPending, Active
    <2>3. Phase(p)'
      <3>1. Phase(p)
        BY DEF Phases
      <3>2. state'[p] = "Closed" /\ timer'[p] = TRUE /\ closing'[p] = "timer"
        BY <2>1 DEF TypeOK
      <3>3. QED
        BY <2>1, <3>1, <3>2 DEF Phase, Active
    <2>4. closing[p] = "no"
      BY <2>1 DEF Phases, Phase
    <2>5. (closing[Main] = "done" => closing'[Main] = "done")
          /\ state'[Main] \in {"Initialized", "Closed"}
      BY <2>1, <2>4, Constants DEF TypeOK, Phases
    <2>6. QED
      BY <2>1, <2>2, <2>3, <2>5 DEF Phases
  <1>4. ASSUME NEW w \in Window, Open(w)
        PROVE  Phases'
    <2>1. /\ state[w] = "None" /\ state' = [state EXCEPT ![w] = "Opening"]
          /\ UNCHANGED <<pending, timer, updating, queued, closing, dbState>>
          /\ w # Main
      BY <1>4, Constants DEF Open, storageVars, dbVars
    <2>2. ASSUME NEW q \in Process
          PROVE  Phase(q)'
      <3>1. state'[q] = state[q] \/ (q = w /\ state'[q] = "Opening" /\ state[q] = "None")
        BY <2>1 DEF TypeOK
      <3>2. QED
        BY <2>1, <3>1 DEF Phases, Phase, Resting, HasPending, Active
    <2>3. state'[Main] = state[Main]
      BY <2>1, Constants DEF TypeOK
    <2>4. QED
      BY <2>1, <2>2, <2>3 DEF Phases
  <1>5. ASSUME NEW w \in Window, ReadItems(w)
        PROVE  Phases'
    <2>1. /\ state' = [state EXCEPT ![w] = "Initialized"] /\ w # Main
          /\ UNCHANGED <<pending, timer, updating, queued, closing, dbState>>
      BY <1>5, Constants DEF ReadItems, dbVars
    <2>2. state[w] = "Opening"
      <3>1. toWindow[w] # << >> /\ Head(toWindow[w]).type = "items"
        BY <1>5 DEF ReadItems, Read
      <3>2. toWindow[w] \in Seq(Message)
        BY DEF TypeOK
      <3>3. 1 \in DOMAIN toWindow[w] /\ Head(toWindow[w]) = toWindow[w][1]
        BY <3>1, <3>2, Taking
      <3>4. QED
        BY <3>1, <3>3 DEF Wires, Wire
    <2>3. ASSUME NEW q \in Process
          PROVE  Phase(q)'
      <3>1. state'[q] = state[q] \/ (state'[q] = "Initialized" /\ state[q] = "Opening")
        BY <2>1, <2>2 DEF TypeOK
      <3>2. QED
        BY <2>1, <3>1 DEF Phases, Phase, Resting, HasPending, Active
    <2>4. state'[Main] = state[Main]
      BY <2>1, Constants DEF TypeOK
    <2>5. QED
      BY <2>1, <2>3, <2>4 DEF Phases
  <1>6. ASSUME NEW w \in Window, AnswerUpdate(w)
        PROVE  Phases'
    <2>1. UNCHANGED <<state, updating, queued, closing, dbState>>
      BY <1>6 DEF AnswerUpdate, dbVars
    <2>2. CASE state[Main] = "Closed"
      <3>1. UNCHANGED <<pending, timer>>
        BY <1>6, <2>2 DEF AnswerUpdate
      <3>2. QED
        BY <2>1, <3>1 DEF Phases, Phase, Resting, HasPending, Active
    <2>3. CASE state[Main] # "Closed"
      <3>1. Change(Main, updating[w]) /\ state[Main] = "Initialized"
        BY <1>6, <2>3 DEF AnswerUpdate, Phases
      <3>2. updating[w] \in Request
        BY Constants DEF TypeOK
      <3>3. QED
        BY <2>1, <3>1, <3>2, Constants, ChangePhase
    <2>4. QED
      BY <2>2, <2>3
  <1>7. ASSUME NEW w \in Window, ReadDone(w)
        PROVE  Phases'
    <2>1. w \in Process /\ UpdateSettles(w, TRUE) /\ UNCHANGED <<state, timer, dbState>>
      BY <1>7, Constants DEF ReadDone, dbVars
    <2>2. QED
      BY <2>1, SettlePhase
  <1>8. ASSUME NEW w \in Window, CloseClient(w)
        PROVE  Phases'
    <2>1. /\ closing[w] = "settled" /\ closing' = [closing EXCEPT ![w] = "done"]
          /\ UNCHANGED <<state, pending, timer, updating, queued, dbState>>
          /\ w # Main
      BY <1>8, Constants DEF CloseClient, storageVars, dbVars
    <2>2. ASSUME NEW q \in Process
          PROVE  Phase(q)'
      <3>1. closing'[q] = closing[q] \/ (closing'[q] = "done" /\ closing[q] = "settled")
        BY <2>1 DEF TypeOK
      <3>2. QED
        BY <2>1, <3>1 DEF Phases, Phase, Resting, HasPending, Active
    <2>3. closing'[Main] = closing[Main]
      BY <2>1, Constants DEF TypeOK
    <2>4. QED
      BY <2>1, <2>2, <2>3 DEF Phases
  <1>9. ASSUME NEW recovers \in BOOLEAN, CloseDatabase(recovers)
        PROVE  Phases'
    <2>1. /\ closing[Main] = "settled" /\ closing' = [closing EXCEPT ![Main] = "done"]
          /\ UNCHANGED <<state, pending, timer, updating, queued>>
      BY <1>9 DEF CloseDatabase, storageVars
    <2>2. ASSUME NEW q \in Process
          PROVE  Phase(q)'
      <3>1. closing'[q] = closing[q] \/ (closing'[q] = "done" /\ closing[q] = "settled")
        BY <2>1 DEF TypeOK
      <3>2. QED
        BY <2>1, <3>1 DEF Phases, Phase, Resting, HasPending, Active
    <2>3. closing'[Main] = "done"
      BY <2>1, Constants DEF TypeOK
    <2>4. QED
      BY <2>1, <2>2, <2>3 DEF Phases
  <1>10. ASSUME NEW lost, TransactionCommits(lost)
         PROVE  Phases'
    <2>1. UpdateSettles(Main, TRUE) /\ UNCHANGED <<state, timer, dbState>>
      BY <1>10 DEF TransactionCommits
    <2>2. QED
      BY <2>1, Constants, SettlePhase
  <1>11. ASSUME TransactionFails
         PROVE  Phases'
    <2>1. UpdateSettles(Main, FALSE) /\ UNCHANGED <<state, timer, dbState>>
      BY <1>11 DEF TransactionFails
    <2>2. QED
      BY <2>1, Constants, SettlePhase
  <1>12. ASSUME UNCHANGED <<state, pending, timer, updating, queued, closing, dbState>>
         PROVE  Phases'
    BY <1>12 DEF Phases, Phase, Resting, HasPending, Active
  <1>13. ASSUME NEW w \in Window, AnswerItems(w) \/ ReadChanges(w)
         PROVE  Phases'
    BY <1>12, <1>13 DEF AnswerItems, ReadChanges, storageVars, dbVars
  <1>14. CASE SendChanges \/ UNCHANGED vars
    BY <1>12, <1>14 DEF SendChanges, vars, storageVars, dbVars
  <1>15. QED
    BY <1>1, <1>2, <1>3, <1>4, <1>5, <1>6, <1>7, <1>8, <1>9, <1>10, <1>11, <1>13,
       <1>14 DEF Next
-----------------------------------------------------------------------------
(* Requests and answers *)

LEMMA WireSame ==
    ASSUME NEW w \in Window, Wire(w),
           asked'[w] = asked[w], toWindow'[w] = toWindow[w],
           state'[w] = state[w], updating'[w] = updating[w],
           closing'[w] = "done" <=> closing[w] = "done"
    PROVE  Wire(w)'
  BY DEF Wire, Active

\* Main sends one more message, an answer only to the request it has read.
LEMMA WireSent ==
    ASSUME TypeOK, NEW w \in Window, Wire(w), NEW m \in Message,
           toWindow'[w] = Append(toWindow[w], m),
           UNCHANGED <<state, updating, closing>>,
           closing[w] # "done", state[w] # "None",
           \/ m.type = "changed" /\ asked'[w] = asked[w]
           \/ /\ m.type = "items" /\ asked[w] = "items" /\ asked'[w] = "nothing"
              /\ m.data \in Items
           \/ /\ m.type = "done" /\ asked[w] = "update" /\ asked'[w] = "nothing"
              /\ m.data = Nothing
    PROVE  Wire(w)'
  <1> DEFINE s == toWindow[w]
             t == toWindow'[w]
  <1>1. s \in Seq(Message)
    BY DEF TypeOK
  <1>2. \A i \in DOMAIN t : \/ i \in DOMAIN s /\ t[i] = s[i]
                            \/ i = Len(s) + 1 /\ i \notin DOMAIN s /\ t[i] = m
    BY <1>1, Appending
  <1>3. /\ asked[w] = "update" =>
              Active(w) /\ \A i \in DOMAIN s : s[i].type # "done"
        /\ asked[w] = "items" =>
              state[w] = "Opening" /\ \A i \in DOMAIN s : s[i].type # "items"
        /\ \A i \in DOMAIN s :
              /\ s[i].type = "done" => Active(w) /\ s[i].data = Nothing
              /\ s[i].type = "items" => state[w] = "Opening" /\ s[i].data \in Items
        /\ \A i, j \in DOMAIN s : s[i].type = s[j].type /\ s[i].type # "changed" => i = j
    BY DEF Wire
  <1>4. Active(w)' <=> Active(w)
    BY DEF Active
  <1> HIDE DEF s, t
  <1>5. asked'[w] = "update" =>
            Active(w)' /\ \A i \in DOMAIN t : t[i].type # "done"
    BY <1>2, <1>3, <1>4
  <1>6. asked'[w] = "items" =>
            state'[w] = "Opening" /\ \A i \in DOMAIN t : t[i].type # "items"
    BY <1>2, <1>3
  <1>7. ASSUME NEW i \in DOMAIN t
        PROVE  /\ t[i].type = "done" => Active(w)' /\ t[i].data = Nothing
               /\ t[i].type = "items" => state'[w] = "Opening" /\ t[i].data \in Items
    BY <1>2, <1>3, <1>4
  <1>8. ASSUME NEW i \in DOMAIN t, NEW j \in DOMAIN t,
               t[i].type = t[j].type, t[i].type # "changed"
        PROVE  i = j
    <2>1. m.type # "changed" => \A n \in DOMAIN s : s[n].type # m.type
      BY <1>3
    <2>2. QED
      BY <1>2, <1>3, <1>8, <2>1
  <1>9. QED
    BY <1>5, <1>6, <1>7, <1>8 DEF Wire, t

\* What is left on the wire once the first message was read.
LEMMA WireRead ==
    ASSUME TypeOK, NEW w \in Window, Wire(w), NEW type, Read(w, type)
    PROVE  /\ asked[w] # "update" \/ type # "done"
           /\ asked[w] # "items" \/ type # "items"
           /\ type = "done" => Active(w) /\ Head(toWindow[w]).data = Nothing
           /\ type = "items" => state[w] = "Opening" /\ Head(toWindow[w]).data \in Items
           /\ closing[w] # "done" /\ state[w] # "None"
           /\ \A i \in DOMAIN toWindow'[w] : \E n \in DOMAIN toWindow[w] :
                 /\ toWindow'[w][i] = toWindow[w][n]
                 /\ type # "changed" => toWindow'[w][i].type # type
           /\ \A i, j \in DOMAIN toWindow'[w] :
                 /\ toWindow'[w][i].type = toWindow'[w][j].type
                 /\ toWindow'[w][i].type # "changed"
                 => i = j
  <1> DEFINE s == toWindow[w]
             t == toWindow'[w]
  <1>1. s \in Seq(Message) /\ s # << >> /\ Head(s).type = type /\ t = Tail(s)
    BY DEF Read, TypeOK
  <1>2. 1 \in DOMAIN s /\ Head(s) = s[1] /\ s[1].type = type
    BY <1>1, Taking
  <1>3. \A i \in DOMAIN t : i + 1 \in DOMAIN s /\ i + 1 # 1 /\ t[i] = s[i + 1]
    BY <1>1, Taking
  <1>4. \A i, j \in DOMAIN t : i + 1 = j + 1 => i = j
    BY <1>1, Taking
  <1>5. \A i, j \in DOMAIN s : s[i].type = s[j].type /\ s[i].type # "changed" => i = j
    BY DEF Wire
  <1>6. \A i, j \in DOMAIN t : t[i].type = t[j].type /\ t[i].type # "changed" => i = j
    BY <1>3, <1>4, <1>5
  <1>7. \A i \in DOMAIN t : \E n \in DOMAIN s :
            t[i] = s[n] /\ (type # "changed" => t[i].type # type)
    BY <1>2, <1>3, <1>5
  <1>8. QED
    BY <1>1, <1>2, <1>6, <1>7 DEF Wire

\* p starts a flush while none of its updates is asked for or answered.
LEMMA WireFlush ==
    ASSUME TypeOK, Phases, NEW p \in Process, NEW waited, NEW waits \in {"update", "queued update"},
           FlushPending(p, waited, waits), UNCHANGED state,
           waited # "done", closing[p] \notin {"settled", "done"},
           state[p] \notin {"None", "Opening"},
           NEW w \in Window,
           w # p => Wire(w) /\ toWindow'[w] = toWindow[w],
           w = p =>
              /\ asked[w] = "nothing"
              /\ \A i \in DOMAIN toWindow'[w] : toWindow'[w][i].type = "changed"
    PROVE  Wire(w)'
  <1>1. /\ updating' = [updating EXCEPT ![p] = pending[p]]
        /\ closing' = [closing EXCEPT ![p] = IF @ # waited THEN @
                                             ELSE IF HasPending(p) THEN waits
                                             ELSE "settled"]
        /\ asked' = IF p \in Window /\ HasPending(p)
                    THEN [asked EXCEPT ![p] = "update"] ELSE asked
    BY DEF FlushPending
  <1>2. CASE w # p
    <2>1. updating'[w] = updating[w] /\ closing'[w] = closing[w] /\ asked'[w] = asked[w]
      BY <1>1, <1>2, Constants DEF TypeOK
    <2>2. QED
      BY <1>2, <2>1, WireSame
  <1>3. CASE w = p
    <2>1. closing'[w] # "done" /\ state'[w] \notin {"None", "Opening"}
      BY <1>1, <1>3 DEF TypeOK
    <2>2. asked'[w] # "items" /\ (asked'[w] = "update" => Active(w)')
      BY <1>1, <1>3 DEF TypeOK, Active, HasPending
    <2>3. \A i \in DOMAIN toWindow'[w] : toWindow'[w][i].type = "changed"
      BY <1>3
    <2>4. QED
      BY <2>1, <2>2, <2>3 DEF Wire
  <1>4. QED
    BY <1>2, <1>3
LEMMA WireStep ==
    ASSUME TypeOK, Phases, Wires, [Next]_vars
    PROVE  Wires'
  <1> SUFFICES ASSUME NEW w \in Window
               PROVE  Wire(w)'
    BY DEF Wires
  <1> USE Constants
  <1>a. Wire(w) /\ Phase(w) /\ w \in Process /\ w # Main
    BY DEF Wires, Phases
  <1>b. toWindow[w] \in Seq(Message)
    BY DEF TypeOK
  <1>c. \A i \in DOMAIN toWindow[w] : toWindow[w][i].type \in {"items", "done", "changed"}
    <2>1. \A i \in DOMAIN toWindow[w] : toWindow[w][i] \in Message
      BY <1>b
    <2>2. QED
      BY <2>1 DEF Message
  <1>1. ASSUME NEW p \in Process, NEW k \in Key, NEW v \in Data, Set(p, k, v)
        PROVE  Wire(w)'
    BY <1>1, <1>a, WireSame DEF Set
  <1>2. ASSUME NEW p \in Process, TimerFires(p)
        PROVE  Wire(w)'
    <2>1. timer[p] /\ UNCHANGED <<state, toWindow>>
      BY <1>2 DEF TimerFires
    <2>2. CASE Active(p)
      <3>1. closing'[w] = "done" <=> closing[w] = "done"
        <4>1. closing' = [closing EXCEPT ![p] = IF @ = "timer" THEN "queue" ELSE @]
          BY <1>2, <2>2 DEF TimerFires
        <4>2. closing'[w] = closing[w] \/ (closing'[w] = "queue" /\ closing[w] = "timer")
          BY <1>a, <4>1 DEF TypeOK
        <4>3. QED
          BY <4>2
      <3>2. UNCHANGED <<updating, asked>>
        BY <1>2, <2>2 DEF TimerFires
      <3>3. QED
        BY <1>a, <2>1, <3>1, <3>2, WireSame
    <2>3. CASE ~Active(p)
      <3>1. FlushPending(p, "timer", "update")
        BY <1>2, <2>3 DEF TimerFires
      <3>2. closing[p] \notin {"settled", "done"} /\ state[p] \notin {"None", "Opening"}
        BY <2>1 DEF Phases, Phase, Resting
      <3>3. ASSUME w = p
            PROVE  /\ asked[w] = "nothing"
                   /\ \A i \in DOMAIN toWindow[w] : toWindow[w][i].type = "changed"
        <4>1. asked[w] # "update" /\ asked[w] # "items"
          BY <1>a, <2>3, <3>2, <3>3 DEF Wire
        <4>2. \A i \in DOMAIN toWindow[w] :
                 toWindow[w][i].type # "done" /\ toWindow[w][i].type # "items"
          BY <1>a, <2>3, <3>2, <3>3 DEF Wire
        <4>3. QED
          BY <1>a, <1>c, <4>1, <4>2 DEF TypeOK
      <3>4. QED
        BY <1>a, <2>1, <3>1, <3>2, <3>3, WireFlush
    <2>4. QED
      BY <2>2, <2>3
  <1>3. ASSUME NEW p \in Process, Close(p)
        PROVE  Wire(w)'
    <2>1. /\ state[p] = "Initialized" /\ state' = [state EXCEPT ![p] = "Closed"]
          /\ closing' = [closing EXCEPT ![p] = "timer"]
          /\ UNCHANGED <<updating, asked, toWindow>>
      BY <1>3 DEF Close, wireVars
    <2>2. closing[p] = "no"
      BY <2>1 DEF Phases, Phase
    <2>3. CASE w # p
      <3>1. state'[w] = state[w] /\ closing'[w] = closing[w]
        BY <1>a, <2>1, <2>3 DEF TypeOK
      <3>2. QED
        BY <1>a, <2>1, <3>1, WireSame
    <2>4. CASE w = p
      <3>1. state'[w] = "Closed" /\ closing'[w] = "timer"
        BY <1>a, <2>1, <2>4 DEF TypeOK
      <3>2. QED
        BY <1>a, <2>1, <2>4, <3>1 DEF Wire, Active
    <2>5. QED
      BY <2>3, <2>4
  <1>4. ASSUME NEW x \in Window, Open(x)
        PROVE  Wire(w)'
    <2>1. /\ state[x] = "None" /\ state' = [state EXCEPT ![x] = "Opening"]
          /\ asked' = [asked EXCEPT ![x] = "items"]
          /\ UNCHANGED <<updating, closing, toWindow>>
      BY <1>4 DEF Open, storageVars
    <2>2. CASE w # x
      <3>1. state'[w] = state[w] /\ asked'[w] = asked[w]
        BY <1>a, <2>1, <2>2 DEF TypeOK
      <3>2. QED
        BY <1>a, <2>1, <3>1, WireSame
    <2>3. CASE w = x
      <3>1. /\ state'[w] = "Opening" /\ asked'[w] = "items" /\ toWindow'[w] = << >>
            /\ closing'[w] = "no"
        BY <1>a, <2>1, <2>3 DEF TypeOK, Wire, Phase
      <3>2. DOMAIN toWindow'[w] = {}
        BY <3>1
      <3>3. QED
        BY <3>1, <3>2 DEF Wire
    <2>4. QED
      BY <2>2, <2>3
  <1>5. ASSUME NEW x \in Window, AnswerItems(x) \/ AnswerUpdate(x)
        PROVE  Wire(w)'
    <2>1. /\ asked' = [asked EXCEPT ![x] = "nothing"]
          /\ UNCHANGED <<state, updating, closing>>
          /\ \/ asked[x] = "items" /\ Send(x, "items", cache[Main])
             \/ asked[x] = "update" /\ Send(x, "done", Nothing)
      BY <1>5 DEF AnswerItems, AnswerUpdate, storageVars
    <2>2. CASE w # x
      <3>1. asked'[w] = asked[w] /\ toWindow'[w] = toWindow[w]
        BY <1>a, <2>1, <2>2 DEF TypeOK, Send
      <3>2. QED
        BY <1>a, <2>1, <3>1, WireSame
    <2>3. CASE w = x
      <3>1. asked'[w] = "nothing" /\ closing[w] # "done" /\ state[w] # "None"
        BY <1>a, <2>1, <2>3 DEF TypeOK, Wire
      <3>2. PICK m \in Message :
               /\ toWindow'[w] = Append(toWindow[w], m)
               /\ \/ m.type = "items" /\ asked[w] = "items" /\ m.data = cache[Main]
                  \/ m.type = "done" /\ asked[w] = "update" /\ m.data = Nothing
        <4>1. CASE asked[w] = "items"
          <5>1. Send(w, "items", cache[Main]) /\ cache[Main] \in Request
            BY <2>1, <2>3, <4>1 DEF TypeOK
          <5>2. toWindow'[w] = Append(toWindow[w], [type |-> "items", data |-> cache[Main]])
            BY <5>1 DEF Send, TypeOK
          <5>3. [type |-> "items", data |-> cache[Main]] \in Message
            BY <5>1 DEF Message
          <5>4. QED
            BY <4>1, <5>2, <5>3
        <4>2. CASE asked[w] = "update"
          <5>1. Send(w, "done", Nothing)
            BY <2>1, <2>3, <4>2
          <5>2. toWindow'[w] = Append(toWindow[w], [type |-> "done", data |-> Nothing])
            BY <5>1 DEF Send, TypeOK
          <5>3. [type |-> "done", data |-> Nothing] \in Message
            BY DEF Message
          <5>4. QED
            BY <4>2, <5>2, <5>3
        <4>3. QED
          BY <2>1, <2>3, <4>1, <4>2
      <3>3. cache[Main] \in Items
        BY DEF TypeOK
      <3>4. QED
        BY <1>a, <2>1, <3>1, <3>2, <3>3, WireSent
    <2>4. QED
      BY <2>2, <2>3
  <1>6. CASE SendChanges
    <2>1. UNCHANGED <<state, updating, closing, asked>>
      BY <1>6 DEF SendChanges, storageVars
    <2>2. CASE Listening(w)
      <3> DEFINE m == [type |-> "changed",
                       data |-> [k \in Key |-> IF k \in changed THEN cache[Main][k]
                                                                ELSE Untouched]]
      <3>1. toWindow'[w] = Append(toWindow[w], m) /\ m.type = "changed"
        BY <1>6, <2>2 DEF SendChanges
      <3>2. m \in Message
        <4>1. cache[Main] \in Items
          BY DEF TypeOK
        <4>2. QED
          BY <4>1 DEF Message, Items, Request
      <3> HIDE DEF m
      <3>3. QED
        BY <1>a, <2>1, <2>2, <3>1, <3>2, WireSent DEF Listening
    <2>3. CASE ~Listening(w)
      <3>1. toWindow'[w] = toWindow[w]
        BY <1>6, <2>3 DEF SendChanges
      <3>2. QED
        BY <1>a, <2>1, <3>1, WireSame
    <2>4. QED
      BY <2>2, <2>3
  <1>7. ASSUME NEW x \in Window, ReadItems(x)
        PROVE  Wire(w)'
    <2>1. /\ Read(x, "items") /\ state' = [state EXCEPT ![x] = "Initialized"]
          /\ UNCHANGED <<updating, closing, asked>>
      BY <1>7 DEF ReadItems
    <2>2. CASE w # x
      <3>1. state'[w] = state[w] /\ toWindow'[w] = toWindow[w]
        BY <1>a, <2>1, <2>2 DEF TypeOK, Read
      <3>2. QED
        BY <1>a, <2>1, <3>1, WireSame
    <2>3. CASE w = x
      <3>1. /\ asked[w] # "items" /\ state[w] = "Opening" /\ closing[w] # "done"
            /\ \A i \in DOMAIN toWindow'[w] :
                  /\ \E n \in DOMAIN toWindow[w] : toWindow'[w][i] = toWindow[w][n]
                  /\ toWindow'[w][i].type # "items"
            /\ \A i, j \in DOMAIN toWindow'[w] :
                  /\ toWindow'[w][i].type = toWindow'[w][j].type
                  /\ toWindow'[w][i].type # "changed"
                  => i = j
        BY <1>a, <2>1, <2>3, WireRead
      <3>2. state'[w] = "Initialized"
        BY <1>a, <2>1, <2>3 DEF TypeOK
      <3>3. ~Active(w)
        BY <1>a, <3>1 DEF Phase, Resting
      <3>4. asked[w] = "nothing" /\ \A n \in DOMAIN toWindow[w] : toWindow[w][n].type # "done"
        BY <1>a, <3>1, <3>3 DEF Wire, TypeOK
      <3>5. \A i \in DOMAIN toWindow'[w] : toWindow'[w][i].type # "done"
        BY <3>1, <3>4
      <3>6. QED
        BY <2>1, <3>1, <3>2, <3>4, <3>5 DEF Wire
    <2>4. QED
      BY <2>2, <2>3
  <1>8. ASSUME NEW x \in Window, ReadChanges(x)
        PROVE  Wire(w)'
    <2>1. Read(x, "changed") /\ UNCHANGED <<state, updating, closing, asked>>
      BY <1>8 DEF ReadChanges
    <2>2. CASE w # x
      <3>1. toWindow'[w] = toWindow[w]
        BY <1>a, <2>1, <2>2 DEF TypeOK, Read
      <3>2. QED
        BY <1>a, <2>1, <3>1, WireSame
    <2>3. CASE w = x
      <3>1. /\ closing[w] # "done" /\ state[w] # "None"
            /\ \A i \in DOMAIN toWindow'[w] :
                  \E n \in DOMAIN toWindow[w] : toWindow'[w][i] = toWindow[w][n]
            /\ \A i, j \in DOMAIN toWindow'[w] :
                  /\ toWindow'[w][i].type = toWindow'[w][j].type
                  /\ toWindow'[w][i].type # "changed"
                  => i = j
        BY <1>a, <2>1, <2>3, WireRead
      <3>2. asked[w] = "update" =>
              Active(w) /\ \A i \in DOMAIN toWindow'[w] : toWindow'[w][i].type # "done"
        BY <1>a, <3>1 DEF Wire
      <3>3. asked[w] = "items" =>
              /\ state[w] = "Opening"
              /\ \A i \in DOMAIN toWindow'[w] : toWindow'[w][i].type # "items"
        BY <1>a, <3>1 DEF Wire
      <3>4. \A i \in DOMAIN toWindow'[w] :
              /\ toWindow'[w][i].type = "done" =>
                    Active(w) /\ toWindow'[w][i].data = Nothing
              /\ toWindow'[w][i].type = "items" =>
                    state[w] = "Opening" /\ toWindow'[w][i].data \in Items
        BY <1>a, <3>1 DEF Wire
      <3>5. QED
        BY <2>1, <3>1, <3>2, <3>3, <3>4 DEF Wire, Active
    <2>4. QED
      BY <2>2, <2>3
  <1>9. ASSUME NEW x \in Window, ReadDone(x)
        PROVE  Wire(w)'
    <2>1. Read(x, "done") /\ UpdateSettles(x, TRUE) /\ UNCHANGED <<state, timer>>
      BY <1>9 DEF ReadDone
    <2>2. CASE w # x
      <3>1. /\ toWindow'[w] = toWindow[w] /\ updating'[w] = updating[w]
            /\ asked'[w] = asked[w] /\ closing'[w] = closing[w]
        <4>1. toWindow'[w] = toWindow[w]
          BY <1>a, <2>1, <2>2 DEF TypeOK, Read
        <4>2. CASE queued[x]
          BY <1>a, <2>1, <2>2, <4>1, <4>2 DEF TypeOK, UpdateSettles, FlushPending
        <4>3. CASE ~queued[x]
          BY <1>a, <2>1, <2>2, <4>1, <4>3 DEF TypeOK, UpdateSettles
        <4>4. QED
          BY <4>2, <4>3
      <3>2. QED
        BY <1>a, <2>1, <3>1, WireSame
    <2>3. CASE w = x
      <3>1. /\ asked[w] # "update" /\ Active(w) /\ closing[w] # "done" /\ state[w] # "None"
            /\ \A i \in DOMAIN toWindow'[w] :
                  /\ \E n \in DOMAIN toWindow[w] : toWindow'[w][i] = toWindow[w][n]
                  /\ toWindow'[w][i].type # "done"
        BY <1>a, <2>1, <2>3, WireRead
      <3>2. state[w] # "Opening" /\ closing[w] # "settled"
        BY <1>a, <3>1 DEF Phase, Resting
      <3>3. asked[w] = "nothing"
        BY <1>a, <3>1, <3>2 DEF Wire, TypeOK
      <3>4. \A i \in DOMAIN toWindow'[w] : toWindow'[w][i].type = "changed"
        <4>1. \A n \in DOMAIN toWindow[w] : toWindow[w][n].type # "items"
          BY <1>a, <3>2 DEF Wire
        <4>2. QED
          BY <1>c, <3>1, <4>1
      <3>5. CASE queued[w]
        <4>1. FlushPending(w, "queue", "queued update")
          BY <2>1, <2>3, <3>5 DEF UpdateSettles
        <4>2. QED
          BY <1>a, <2>1, <3>1, <3>2, <3>3, <3>4, <4>1, WireFlush
      <3>6. CASE ~queued[w]
        <4>1. asked'[w] = "nothing" /\ closing'[w] # "done"
          BY <1>a, <2>1, <2>3, <3>1, <3>3, <3>6 DEF UpdateSettles, TypeOK
        <4>2. QED
          BY <2>1, <3>1, <3>4, <4>1 DEF Wire
      <3>7. QED
        BY <3>5, <3>6
    <2>4. QED
      BY <2>2, <2>3
  <1>10. ASSUME NEW x \in Window, CloseClient(x)
         PROVE  Wire(w)'
    <2>1. /\ closing[x] = "settled" /\ closing' = [closing EXCEPT ![x] = "done"]
          /\ toWindow' = [toWindow EXCEPT ![x] = << >>]
          /\ UNCHANGED <<updating, state, asked>>
      BY <1>10 DEF CloseClient, storageVars
    <2>2. CASE w # x
      <3>1. toWindow'[w] = toWindow[w] /\ closing'[w] = closing[w]
        BY <1>a, <2>1, <2>2 DEF TypeOK
      <3>2. QED
        BY <1>a, <2>1, <3>1, WireSame
    <2>3. CASE w = x
      <3>1. toWindow'[w] = << >>
        BY <2>1, <2>3 DEF TypeOK
      <3>a. DOMAIN toWindow'[w] = {}
        BY <3>1
      <3>2. ~Active(w) /\ state[w] = "Closed"
        BY <1>a, <2>1, <2>3 DEF Phase, Resting
      <3>3. asked[w] = "nothing"
        BY <1>a, <3>2 DEF Wire, TypeOK
      <3>4. QED
        BY <2>1, <3>1, <3>a, <3>2, <3>3 DEF Wire
    <2>4. QED
      BY <2>2, <2>3
  <1>11. ASSUME NEW succeeds, UpdateSettles(Main, succeeds), UNCHANGED <<state, toWindow>>
         PROVE  Wire(w)'
    <2>1. updating'[w] = updating[w] /\ asked'[w] = asked[w] /\ closing'[w] = closing[w]
      BY <1>a, <1>11 DEF TypeOK, UpdateSettles, FlushPending
    <2>2. QED
      BY <1>a, <1>11, <2>1, WireSame
  <1>12. ASSUME NEW lost, TransactionCommits(lost)
         PROVE  Wire(w)'
    BY <1>11, <1>12 DEF TransactionCommits
  <1>13. CASE TransactionFails
    BY <1>11, <1>13 DEF TransactionFails
  <1>14. ASSUME NEW recovers \in BOOLEAN, CloseDatabase(recovers)
         PROVE  Wire(w)'
    <2>1. closing'[w] = closing[w] /\ UNCHANGED <<updating, state, asked, toWindow>>
      BY <1>a, <1>14 DEF CloseDatabase, TypeOK, storageVars, wireVars
    <2>2. QED
      BY <1>a, <2>1, WireSame
  <1>15. CASE UNCHANGED vars
    BY <1>a, <1>15, WireSame DEF vars
  <1>16. QED
    BY <1>1, <1>2, <1>3, <1>4, <1>5, <1>6, <1>7, <1>8, <1>9, <1>10, <1>12,
       <1>13, <1>14, <1>15 DEF Next
-----------------------------------------------------------------------------
(* What the windows hear of a key *)

\* A change of main that says nothing new of k, or one of another process.
LEMMA ChangeElsewhere ==
    ASSUME TypeOK, NEW p \in Process, NEW request \in Request, Change(p, request),
           NEW k \in Key, k \notin changed'
    PROVE  /\ k \notin changed
           /\ cache'[Main][k] = cache[Main][k]
           /\ p = Main => request[k] = Untouched \/ request[k] = cache[Main][k]
           /\ \A q \in Process : q # p => cache'[q] = cache[q] /\ pending'[q] = pending[q]
  <1> DEFINE new == [j \in Key |-> IF request[j] = cache[p][j] THEN Untouched ELSE request[j]]
  <1>1. /\ cache' = [cache EXCEPT ![p] = Applied(@, new)]
        /\ pending' = [pending EXCEPT ![p] = Applied(@, new)]
        /\ changed' = IF p = Main THEN changed \cup {j \in Key : new[j] # Untouched}
                                  ELSE changed
    BY DEF Change
  <1>2. new[k] = IF request[k] = cache[p][k] THEN Untouched ELSE request[k]
    OBVIOUS
  <1> HIDE DEF new
  <1>3. \A q \in Process : q # p => cache'[q] = cache[q] /\ pending'[q] = pending[q]
    BY <1>1 DEF TypeOK
  <1>4. CASE p # Main
    BY <1>1, <1>3, <1>4, Constants
  <1>5. CASE p = Main
    <2>1. k \notin changed /\ new[k] = Untouched
      BY <1>1, <1>5
    <2>2. cache'[Main] = Applied(cache[Main], new)
      BY <1>1, <1>5, Constants DEF TypeOK
    <2>3. cache'[Main][k] = cache[Main][k]
      BY <2>1, <2>2 DEF Applied
    <2>4. QED
      BY <1>2, <1>3, <1>5, <2>1, <2>3
  <1>6. QED
    BY <1>4, <1>5

LEMMA LastStep ==
    ASSUME TypeOK, Phases, Wires, LastIsCurrent, [Next]_vars
    PROVE  LastIsCurrent'
  <1> SUFFICES ASSUME NEW w \in Window, NEW k \in Key, k \notin changed'
               PROVE  LastSays(toWindow'[w], k, cache'[Main][k])
    BY DEF LastIsCurrent
  <1> USE Constants
  <1>a. toWindow[w] \in Seq(Message) /\ w # Main /\ w \in Process
    BY DEF TypeOK
  <1>b. cache[Main] \in Items /\ cache[Main][k] # Untouched
    BY DEF TypeOK
  <1>c. k \notin changed => LastSays(toWindow[w], k, cache[Main][k])
    BY DEF LastIsCurrent
  <1>d. LastSays(<< >>, k, cache'[Main][k])
    BY DEF LastSays
  <1>1. ASSUME NEW p \in Process, NEW j \in Key, NEW v \in Data, Set(p, j, v)
        PROVE  LastSays(toWindow'[w], k, cache'[Main][k])
    <2>1. /\ [Nothing EXCEPT ![j] = v] \in Request
          /\ Change(p, [Nothing EXCEPT ![j] = v]) /\ UNCHANGED toWindow
      BY <1>1 DEF Set, Request
    <2>2. QED
      BY <1>c, <2>1, ChangeElsewhere
  <1>2. ASSUME UNCHANGED <<toWindow, changed, cache>>
        PROVE  LastSays(toWindow'[w], k, cache'[Main][k])
    BY <1>2, <1>c
  <1>3. ASSUME NEW p \in Process, TimerFires(p) \/ Close(p)
        PROVE  LastSays(toWindow'[w], k, cache'[Main][k])
    BY <1>2, <1>3 DEF TimerFires, Close, wireVars
  <1>4. ASSUME NEW x \in Window, Open(x)
        PROVE  LastSays(toWindow'[w], k, cache'[Main][k])
    BY <1>2, <1>4 DEF Open, storageVars
  <1>5. ASSUME NEW x \in Window, AnswerItems(x)
        PROVE  LastSays(toWindow'[w], k, cache'[Main][k])
    <2> DEFINE m == [type |-> "items", data |-> cache[Main]]
    <2>1. /\ toWindow' = [toWindow EXCEPT ![x] = Append(@, m)]
          /\ UNCHANGED <<changed, cache>>
      BY <1>5 DEF AnswerItems, Send, storageVars
    <2>2. m \in Message /\ m.data[k] = cache[Main][k]
      BY <1>b DEF Message
    <2> HIDE DEF m
    <2>3. CASE w # x
      BY <1>c, <2>1, <2>3 DEF TypeOK
    <2>4. CASE w = x
      <3>1. toWindow'[w] = Append(toWindow[w], m)
        BY <2>1, <2>4 DEF TypeOK
      <3>2. QED
        BY <1>a, <1>b, <2>1, <2>2, <3>1, LastAppended
    <2>5. QED
      BY <2>3, <2>4
  <1>6. ASSUME NEW x \in Window, AnswerUpdate(x)
        PROVE  LastSays(toWindow'[w], k, cache'[Main][k])
    <2> DEFINE m == [type |-> "done", data |-> Nothing]
    <2>1. toWindow' = [toWindow EXCEPT ![x] = Append(@, m)]
      BY <1>6 DEF AnswerUpdate, Send
    <2>2. m \in Message /\ m.data[k] = Untouched
      BY DEF Message, Nothing
    <2> HIDE DEF m
    <2>3. k \notin changed /\ cache'[Main][k] = cache[Main][k]
      <3>1. CASE state[Main] = "Closed"
        BY <1>6, <3>1 DEF AnswerUpdate
      <3>2. CASE state[Main] # "Closed"
        <4>1. Change(Main, updating[x]) /\ updating[x] \in Request
          BY <1>6, <3>2 DEF AnswerUpdate, TypeOK
        <4>2. QED
          BY <4>1, ChangeElsewhere
      <3>3. QED
        BY <3>1, <3>2
    <2>4. CASE w # x
      BY <1>c, <2>1, <2>3, <2>4 DEF TypeOK
    <2>5. CASE w = x
      <3>1. toWindow'[w] = Append(toWindow[w], m)
        BY <2>1, <2>5 DEF TypeOK
      <3>2. QED
        BY <1>a, <1>c, <2>2, <2>3, <3>1, LastAppended
    <2>6. QED
      BY <2>4, <2>5
  <1>7. CASE SendChanges
    <2> DEFINE m == [type |-> "changed",
                     data |-> [j \in Key |-> IF j \in changed THEN cache[Main][j]
                                                              ELSE Untouched]]
    <2>1. /\ toWindow'[w] = IF Listening(w) THEN Append(toWindow[w], m) ELSE toWindow[w]
          /\ UNCHANGED cache
      BY <1>7 DEF SendChanges, storageVars
    <2>2. m \in Message
      BY <1>b DEF Message, Items, Request
    <2>3. m.data[k] = IF k \in changed THEN cache[Main][k] ELSE Untouched
      OBVIOUS
    <2> HIDE DEF m
    <2>4. CASE Listening(w)
      BY <1>a, <1>b, <1>c, <2>1, <2>2, <2>3, <2>4, LastAppended
    <2>5. CASE ~Listening(w)
      <3>1. toWindow[w] = << >>
        BY <2>5 DEF Wires, Wire, Listening
      <3>2. QED
        BY <1>d, <2>1, <2>5, <3>1
    <2>6. QED
      BY <2>4, <2>5
  <1>8. ASSUME NEW x \in Window, NEW type, Read(x, type), UNCHANGED changed,
               cache'[Main] = cache[Main]
        PROVE  LastSays(toWindow'[w], k, cache'[Main][k])
    <2>1. CASE w # x
      BY <1>c, <1>8, <2>1 DEF TypeOK, Read
    <2>2. CASE w = x
      <3>1. toWindow'[w] = Tail(toWindow[w]) /\ toWindow[w] # << >>
        BY <1>8, <2>2 DEF TypeOK, Read
      <3>2. QED
        BY <1>a, <1>c, <1>8, <3>1, LastTaken
    <2>3. QED
      BY <2>1, <2>2
  <1>9. ASSUME NEW x \in Window, ReadItems(x) \/ ReadChanges(x) \/ ReadDone(x)
        PROVE  LastSays(toWindow'[w], k, cache'[Main][k])
    <2>1. UNCHANGED changed /\ \E type : Read(x, type)
      BY <1>9 DEF ReadItems, ReadChanges, ReadDone
    <2>2. cache'[Main] = cache[Main]
      BY <1>9 DEF ReadItems, ReadChanges, ReadDone, TypeOK
    <2>3. QED
      BY <1>8, <2>1, <2>2
  <1>10. ASSUME NEW x \in Window, CloseClient(x)
         PROVE  LastSays(toWindow'[w], k, cache'[Main][k])
    <2>1. /\ toWindow' = [toWindow EXCEPT ![x] = << >>] /\ UNCHANGED <<changed, cache>>
      BY <1>10 DEF CloseClient, storageVars
    <2>2. toWindow'[w] = << >> \/ toWindow'[w] = toWindow[w]
      BY <2>1 DEF TypeOK
    <2>3. QED
      BY <1>c, <1>d, <2>1, <2>2
  <1>11. ASSUME NEW lost, TransactionCommits(lost)
         PROVE  LastSays(toWindow'[w], k, cache'[Main][k])
    BY <1>2, <1>11 DEF TransactionCommits
  <1>12. CASE TransactionFails
    BY <1>2, <1>12 DEF TransactionFails
  <1>13. ASSUME NEW recovers \in BOOLEAN, CloseDatabase(recovers)
         PROVE  LastSays(toWindow'[w], k, cache'[Main][k])
    BY <1>2, <1>13 DEF CloseDatabase, storageVars, wireVars
  <1>14. CASE UNCHANGED vars
    BY <1>2, <1>14 DEF vars
  <1>15. QED
    BY <1>1, <1>3, <1>4, <1>5, <1>6, <1>7, <1>9, <1>10, <1>11, <1>12, <1>13, <1>14
       DEF Next
\* An update of p that settles is nothing to w.
LEMMA SettledElsewhere ==
    ASSUME TypeOK, NEW p \in Process, NEW succeeds, UpdateSettles(p, succeeds),
           NEW w \in Window, w # p
    PROVE  pending'[w] = pending[w] /\ updating'[w] = updating[w] /\ asked'[w] = asked[w]
  <1>1. CASE queued[p]
    <2>1. /\ pending' = [pending EXCEPT ![p] = Nothing]
          /\ updating' = [updating EXCEPT ![p] = pending[p]]
          /\ asked' = IF p \in Window /\ HasPending(p)
                      THEN [asked EXCEPT ![p] = "update"] ELSE asked
      BY <1>1 DEF UpdateSettles, FlushPending
    <2>2. QED
      BY <2>1, Constants DEF TypeOK
  <1>2. CASE ~queued[p]
    <2>1. updating' = [updating EXCEPT ![p] = Nothing] /\ UNCHANGED <<pending, asked>>
      BY <1>2 DEF UpdateSettles
    <2>2. QED
      BY <2>1, Constants DEF TypeOK
  <1>3. QED
    BY <1>1, <1>2

LEMMA MainOrOwnSame ==
    ASSUME NEW w \in Window, NEW k \in Key,
           k \notin changed => MainOrOwnAt(w, k), k \notin changed,
           UNCHANGED state, toWindow'[w] = toWindow[w],
           cache'[w] = cache[w], cache'[Main][k] = cache[Main][k],
           pending'[w] = pending[w], updating'[w] = updating[w], asked'[w] = asked[w]
    PROVE  MainOrOwnAt(w, k)'
  BY DEF MainOrOwnAt, Own

LEMMA MainOrOwnStep ==
    ASSUME TypeOK, Phases, Wires, LastIsCurrent, MainOrOwn, [Next]_vars
    PROVE  MainOrOwn'
  <1> SUFFICES ASSUME NEW w \in Window, NEW k \in Key, k \notin changed'
               PROVE  MainOrOwnAt(w, k)'
    BY DEF MainOrOwn
  <1> USE Constants
  <1>a. toWindow[w] \in Seq(Message) /\ w # Main /\ w \in Process
    BY DEF TypeOK
  <1>b. /\ cache[Main] \in Items /\ cache[Main][k] # Untouched
        /\ cache[w] \in Items /\ cache[w][k] # Untouched
    BY <1>a DEF TypeOK
  <1>c. k \notin changed => MainOrOwnAt(w, k) /\ LastSays(toWindow[w], k, cache[Main][k])
    BY DEF MainOrOwn, LastIsCurrent
  <1>d. Phase(w) /\ Wire(w)
    BY <1>a DEF Phases, Wires
  <1>1. ASSUME NEW p \in Process, NEW j \in Key, NEW v \in Data, Set(p, j, v)
        PROVE  MainOrOwnAt(w, k)'
    <2> DEFINE request == [Nothing EXCEPT ![j] = v]
    <2>1. /\ request \in Request
          /\ Change(p, request)
          /\ UNCHANGED <<toWindow, state, updating, asked>>
      BY <1>1 DEF Set, Request
    <2>2. request[k] = IF k = j THEN v ELSE Untouched
      BY DEF Nothing
    <2> HIDE DEF request
    <2>3. /\ k \notin changed /\ cache'[Main][k] = cache[Main][k]
          /\ p # w => cache'[w] = cache[w] /\ pending'[w] = pending[w]
      BY <1>a, <2>1, ChangeElsewhere
    <2>4. CASE p # w
      BY <1>c, <2>1, <2>3, <2>4, MainOrOwnSame
    <2>5. CASE p = w
      <3> DEFINE new == [i \in Key |-> IF request[i] = cache[p][i] THEN Untouched ELSE request[i]]
      <3>1. /\ cache' = [cache EXCEPT ![p] = Applied(@, new)]
            /\ pending' = [pending EXCEPT ![p] = Applied(@, new)]
        BY <2>1 DEF Change
      <3> HIDE DEF new
      <3>2. cache'[w] = Applied(cache[w], new) /\ pending'[w] = Applied(pending[w], new)
        BY <1>a, <2>5, <3>1 DEF TypeOK
      <3>3. CASE new[k] = Untouched
        <4>1. cache'[w][k] = cache[w][k] /\ pending'[w][k] = pending[w][k]
          BY <3>2, <3>3 DEF Applied
        <4>2. QED
          BY <1>c, <2>1, <2>3, <4>1 DEF MainOrOwnAt, Own
      <3>4. CASE new[k] # Untouched
        <4>1. cache'[w][k] = new[k] /\ pending'[w][k] = new[k]
          BY <3>2, <3>4 DEF Applied
        <4>2. QED
          BY <3>4, <4>1 DEF MainOrOwnAt, Own
      <3>5. QED
        BY <3>3, <3>4
    <2>6. QED
      BY <2>4, <2>5
  <1>2. ASSUME NEW p \in Process, TimerFires(p)
        PROVE  MainOrOwnAt(w, k)'
    <2>1. UNCHANGED <<cache, state, toWindow, changed>>
      BY <1>2 DEF TimerFires
    <2>2. CASE Active(p)
      <3>1. UNCHANGED <<pending, updating, asked>>
        BY <1>2, <2>2 DEF TimerFires
      <3>2. QED
        BY <1>c, <2>1, <3>1, MainOrOwnSame
    <2>3. CASE ~Active(p)
      <3>1. /\ pending' = [pending EXCEPT ![p] = Nothing]
            /\ updating' = [updating EXCEPT ![p] = pending[p]]
            /\ asked' = IF p \in Window /\ HasPending(p)
                        THEN [asked EXCEPT ![p] = "update"] ELSE asked
        BY <1>2, <2>3 DEF TimerFires, FlushPending
      <3>2. CASE p # w
        <4>1. pending'[w] = pending[w] /\ updating'[w] = updating[w] /\ asked'[w] = asked[w]
          BY <1>a, <3>1, <3>2 DEF TypeOK
        <4>2. QED
          BY <1>c, <2>1, <4>1, MainOrOwnSame
      <3>3. CASE p = w
        <4>1. asked[w] # "update"
          BY <1>d, <2>3, <3>3 DEF Wire
        <4>2. /\ pending'[w] = Nothing /\ updating'[w] = pending[w]
              /\ HasPending(w) => asked'[w] = "update"
          BY <1>a, <3>1, <3>3 DEF TypeOK
        <4>3. pending'[w][k] = Untouched
          BY <4>2 DEF Nothing
        <4>4. pending[w][k] # Untouched => asked'[w] = "update"
          BY <1>a, <4>2 DEF HasPending, TypeOK
        <4>5. Own(w, k) = pending[w][k]
          BY <4>1 DEF Own
        <4>6. pending[w][k] # Untouched => Own(w, k)' = Own(w, k)
          BY <4>2, <4>3, <4>4, <4>5 DEF Own
        <4>7. QED
          BY <1>b, <1>c, <2>1, <4>5, <4>6 DEF MainOrOwnAt
      <3>4. QED
        BY <3>2, <3>3
    <2>4. QED
      BY <2>2, <2>3
  <1>3. ASSUME NEW p \in Process, Close(p)
        PROVE  MainOrOwnAt(w, k)'
    <2>1. /\ state' = [state EXCEPT ![p] = "Closed"]
          /\ UNCHANGED <<cache, pending, updating, toWindow, asked, changed>>
      BY <1>3 DEF Close, wireVars
    <2>2. \A q \in {w, Main} : state'[q] = "Initialized" => state[q] = "Initialized"
      BY <1>a, <2>1 DEF TypeOK
    <2>3. QED
      BY <1>c, <2>1, <2>2 DEF MainOrOwnAt, Own
  <1>4. ASSUME NEW x \in Window, Open(x)
        PROVE  MainOrOwnAt(w, k)'
    <2>1. /\ state' = [state EXCEPT ![x] = "Opening"]
          /\ asked' = [asked EXCEPT ![x] = "items"]
          /\ UNCHANGED <<cache, pending, updating, toWindow, changed>>
      BY <1>4 DEF Open, storageVars
    <2>2. CASE x = w
      <3>1. state'[w] = "Opening"
        BY <1>a, <2>1, <2>2 DEF TypeOK
      <3>2. QED
        BY <3>1 DEF MainOrOwnAt
    <2>3. CASE x # w
      <3>1. state'[w] = state[w] /\ state'[Main] = state[Main] /\ asked'[w] = asked[w]
        BY <1>a, <2>1, <2>3 DEF TypeOK
      <3>2. QED
        BY <1>c, <2>1, <3>1 DEF MainOrOwnAt, Own
    <2>4. QED
      BY <2>2, <2>3
  <1>5. ASSUME NEW x \in Window, AnswerItems(x)
        PROVE  MainOrOwnAt(w, k)'
    <2> DEFINE m == [type |-> "items", data |-> cache[Main]]
    <2>1. /\ toWindow' = [toWindow EXCEPT ![x] = Append(@, m)]
          /\ asked' = [asked EXCEPT ![x] = "nothing"]
          /\ UNCHANGED <<changed, cache, pending, updating, state>>
      BY <1>5 DEF AnswerItems, Send, storageVars
    <2>2. m \in Message /\ m.data[k] = cache[Main][k]
      BY <1>b DEF Message
    <2> HIDE DEF m
    <2>3. CASE w # x
      <3>1. toWindow'[w] = toWindow[w] /\ asked'[w] = asked[w]
        BY <2>1, <2>3 DEF TypeOK
      <3>2. QED
        BY <1>c, <2>1, <3>1, MainOrOwnSame
    <2>4. CASE w = x
      <3>1. toWindow'[w] = Append(toWindow[w], m)
        BY <2>1, <2>4 DEF TypeOK
      <3>2. ~Silent(toWindow'[w], k)
        BY <1>a, <1>b, <2>2, <3>1, SilentAppended
      <3>3. QED
        BY <3>2 DEF MainOrOwnAt
    <2>5. QED
      BY <2>3, <2>4
  <1>6. ASSUME NEW x \in Window, AnswerUpdate(x)
        PROVE  MainOrOwnAt(w, k)'
    <2> DEFINE m == [type |-> "done", data |-> Nothing]
    <2>1. /\ toWindow' = [toWindow EXCEPT ![x] = Append(@, m)]
          /\ asked' = [asked EXCEPT ![x] = "nothing"]
          /\ UNCHANGED <<state, updating>>
      BY <1>6 DEF AnswerUpdate, Send
    <2>2. m \in Message
      BY DEF Message
    <2> HIDE DEF m
    <2>3. SUFFICES ASSUME state[Main] = "Initialized"
                   PROVE  MainOrOwnAt(w, k)'
      BY <2>1 DEF MainOrOwnAt
    <2>4. Change(Main, updating[x]) /\ updating[x] \in Request
      BY <1>6, <2>3 DEF AnswerUpdate, TypeOK
    <2>5. /\ k \notin changed /\ cache'[Main][k] = cache[Main][k]
          /\ updating[x][k] = Untouched \/ updating[x][k] = cache[Main][k]
          /\ cache'[w] = cache[w] /\ pending'[w] = pending[w]
      BY <1>a, <2>4, ChangeElsewhere
    <2>6. CASE w # x
      <3>1. toWindow'[w] = toWindow[w] /\ asked'[w] = asked[w]
        BY <2>1, <2>6 DEF TypeOK
      <3>2. QED
        BY <1>c, <2>1, <2>5, <3>1, MainOrOwnSame
    <2>7. CASE w = x
      <3>1. toWindow'[w] = Append(toWindow[w], m)
        BY <2>1, <2>7 DEF TypeOK
      <3>2. SUFFICES ASSUME Silent(toWindow'[w], k), state[w] = "Initialized"
                     PROVE  cache[w][k] = cache[Main][k] \/ Own(w, k)' = cache[w][k]
        BY <2>1, <2>5 DEF MainOrOwnAt
      <3>3. Silent(toWindow[w], k)
        BY <1>a, <2>2, <3>1, <3>2, SilentAppended
      <3>4. cache[w][k] = cache[Main][k] \/ Own(w, k) = cache[w][k]
        BY <1>c, <2>3, <2>5, <3>2, <3>3 DEF MainOrOwnAt
      <3>5. CASE pending[w][k] # Untouched
        BY <2>5, <3>4, <3>5 DEF Own
      <3>6. CASE pending[w][k] = Untouched
        BY <1>b, <2>5, <2>7, <3>4, <3>6 DEF Own
      <3>7. QED
        BY <3>5, <3>6
    <2>8. QED
      BY <2>6, <2>7
  <1>7. CASE SendChanges
    <2> DEFINE m == [type |-> "changed",
                     data |-> [j \in Key |-> IF j \in changed THEN cache[Main][j]
                                                              ELSE Untouched]]
    <2>1. /\ toWindow'[w] = IF Listening(w) THEN Append(toWindow[w], m) ELSE toWindow[w]
          /\ UNCHANGED <<cache, pending, updating, asked, state>>
      BY <1>7 DEF SendChanges, storageVars
    <2>2. m \in Message
      BY <1>b DEF Message, Items, Request
    <2>3. m.data[k] = IF k \in changed THEN cache[Main][k] ELSE Untouched
      OBVIOUS
    <2> HIDE DEF m
    <2>4. SUFFICES ASSUME Silent(toWindow'[w], k), state[w] = "Initialized"
                   PROVE  MainOrOwnAt(w, k)'
      BY <2>1 DEF MainOrOwnAt
    <2>5. Listening(w)
      BY <1>d, <2>4 DEF Phase, Listening
    <2>6. Silent(toWindow[w], k) /\ m.data[k] = Untouched
      BY <1>a, <2>1, <2>2, <2>4, <2>5, SilentAppended
    <2>7. k \notin changed
      BY <1>b, <2>3, <2>6
    <2>8. QED
      BY <1>c, <2>1, <2>6, <2>7 DEF MainOrOwnAt, Own
  <1>8. ASSUME NEW x \in Window, ReadItems(x) \/ ReadChanges(x) \/ ReadDone(x), x # w
        PROVE  MainOrOwnAt(w, k)'
    <2>1. /\ UNCHANGED changed /\ toWindow'[w] = toWindow[w] /\ asked'[w] = asked[w]
          /\ cache'[w] = cache[w] /\ cache'[Main] = cache[Main]
          /\ state'[w] = state[w] /\ state'[Main] = state[Main]
          /\ pending'[w] = pending[w] /\ updating'[w] = updating[w]
      <3>1. CASE ReadItems(x)
        BY <1>a, <1>8, <3>1 DEF ReadItems, Read, TypeOK
      <3>2. CASE ReadChanges(x)
        BY <1>a, <1>8, <3>2 DEF ReadChanges, Read, TypeOK
      <3>3. CASE ReadDone(x)
        <4>1. UNCHANGED <<changed, cache, state>> /\ toWindow'[w] = toWindow[w]
          BY <1>a, <1>8, <3>3 DEF ReadDone, Read, TypeOK
        <4>2. pending'[w] = pending[w] /\ updating'[w] = updating[w] /\ asked'[w] = asked[w]
          <5>1. UpdateSettles(x, TRUE) /\ x \in Process
            BY <3>3 DEF ReadDone
          <5>2. QED
            BY <1>8, <5>1, SettledElsewhere
        <4>3. QED
          BY <4>1, <4>2
      <3>4. QED
        BY <1>8, <3>1, <3>2, <3>3
    <2>2. QED
      BY <1>c, <2>1 DEF MainOrOwnAt, Own
  <1>9. ASSUME ReadItems(w)
        PROVE  MainOrOwnAt(w, k)'
    <2>1. /\ Read(w, "items") /\ cache' = [cache EXCEPT ![w] = Head(toWindow[w]).data]
          /\ UNCHANGED changed
      BY <1>9 DEF ReadItems
    <2>2. Head(toWindow[w]).data \in Items
      BY <1>d, <2>1, WireRead
    <2>3. /\ cache'[w][k] = Head(toWindow[w]).data[k] /\ cache'[Main] = cache[Main]
          /\ toWindow'[w] = Tail(toWindow[w]) /\ toWindow[w] # << >>
      BY <1>a, <2>1 DEF TypeOK, Read
    <2>4. Silent(toWindow'[w], k) => cache'[w][k] = cache'[Main][k]
      BY <1>a, <1>c, <2>1, <2>2, <2>3, LastTaken
    <2>5. QED
      BY <2>4 DEF MainOrOwnAt
  <1>10. ASSUME ReadChanges(w)
         PROVE  MainOrOwnAt(w, k)'
    <2>1. /\ Read(w, "changed") /\ UNCHANGED <<changed, state, pending, updating, asked>>
          /\ cache' = IF state[w] = "Closed" THEN cache
                      ELSE [cache EXCEPT ![w] = Applied(@, Head(toWindow[w]).data)]
      BY <1>10 DEF ReadChanges
    <2>2. SUFFICES ASSUME state[w] = "Initialized", state[Main] = "Initialized",
                          Silent(toWindow'[w], k)
                   PROVE  cache'[w][k] = cache'[Main][k] \/ Own(w, k)' = cache'[w][k]
      BY <2>1 DEF MainOrOwnAt
    <2>3. /\ cache'[w] = Applied(cache[w], Head(toWindow[w]).data)
          /\ cache'[Main] = cache[Main]
          /\ toWindow'[w] = Tail(toWindow[w]) /\ toWindow[w] # << >>
      BY <1>a, <2>1, <2>2 DEF TypeOK, Read
    <2>4. CASE Head(toWindow[w]).data[k] # Untouched
      <3>1. cache'[w][k] = Head(toWindow[w]).data[k]
        BY <2>3, <2>4 DEF Applied
      <3>2. QED
        BY <1>a, <1>c, <2>1, <2>2, <2>3, <2>4, <3>1, LastTaken
    <2>5. CASE Head(toWindow[w]).data[k] = Untouched
      <3>1. cache'[w][k] = cache[w][k]
        BY <2>3, <2>5 DEF Applied
      <3>2. Silent(toWindow[w], k)
        BY <1>a, <1>c, <2>1, <2>2, <2>3, <2>5, LastTaken
      <3>3. QED
        BY <1>c, <2>1, <2>2, <2>3, <3>1, <3>2 DEF MainOrOwnAt, Own
    <2>6. QED
      BY <2>4, <2>5
  <1>11. ASSUME ReadDone(w)
         PROVE  MainOrOwnAt(w, k)'
    <2>1. /\ Read(w, "done") /\ UpdateSettles(w, TRUE) /\ UNCHANGED <<cache, state, changed>>
      BY <1>11 DEF ReadDone
    <2>2. asked[w] # "update" /\ Head(toWindow[w]).data = Nothing
      BY <1>d, <2>1, WireRead
    <2>3. toWindow'[w] = Tail(toWindow[w]) /\ toWindow[w] # << >>
      BY <2>1 DEF TypeOK, Read
    <2>4. Silent(toWindow'[w], k) => Silent(toWindow[w], k)
      BY <1>a, <1>c, <2>1, <2>2, <2>3, LastTaken DEF Nothing
    <2>5. pending[w][k] # Untouched => Own(w, k)' = pending[w][k]
      <3>1. CASE queued[w]
        <4>1. /\ pending' = [pending EXCEPT ![w] = Nothing]
              /\ updating' = [updating EXCEPT ![w] = pending[w]]
              /\ HasPending(w) => asked' = [asked EXCEPT ![w] = "update"]
          BY <2>1, <3>1 DEF UpdateSettles, FlushPending
        <4>2. /\ pending'[w] = Nothing /\ updating'[w] = pending[w]
              /\ HasPending(w) => asked'[w] = "update"
          BY <1>a, <4>1 DEF TypeOK
        <4>3. pending'[w][k] = Untouched
          BY <4>2 DEF Nothing
        <4>4. pending[w][k] # Untouched => asked'[w] = "update"
          BY <1>a, <4>2 DEF HasPending, TypeOK
        <4>5. QED
          BY <4>2, <4>3, <4>4 DEF Own
      <3>2. CASE ~queued[w]
        BY <2>1, <3>2 DEF UpdateSettles, Own
      <3>3. QED
        BY <3>1, <3>2
    <2>6. Own(w, k) = pending[w][k]
      BY <2>2 DEF Own
    <2>7. QED
      BY <1>b, <1>c, <2>1, <2>4, <2>5, <2>6 DEF MainOrOwnAt
  <1>12. ASSUME NEW x \in Window, CloseClient(x)
         PROVE  MainOrOwnAt(w, k)'
    <2>1. /\ closing[x] = "settled" /\ toWindow' = [toWindow EXCEPT ![x] = << >>]
          /\ UNCHANGED <<changed, cache, pending, updating, asked, state>>
      BY <1>12 DEF CloseClient, storageVars
    <2>2. CASE w # x
      <3>1. toWindow'[w] = toWindow[w]
        BY <2>1, <2>2 DEF TypeOK
      <3>2. QED
        BY <1>c, <2>1, <3>1, MainOrOwnSame
    <2>3. CASE w = x
      <3>1. state'[w] = "Closed"
        BY <1>d, <2>1, <2>3 DEF Phase
      <3>2. QED
        BY <3>1 DEF MainOrOwnAt
    <2>4. QED
      BY <2>2, <2>3
  <1>13. ASSUME NEW succeeds, UpdateSettles(Main, succeeds),
                UNCHANGED <<cache, state, toWindow, changed>>
         PROVE  MainOrOwnAt(w, k)'
    <2>1. pending'[w] = pending[w] /\ updating'[w] = updating[w] /\ asked'[w] = asked[w]
      BY <1>a, <1>13, SettledElsewhere
    <2>2. QED
      BY <1>c, <1>13, <2>1, MainOrOwnSame
  <1>14. ASSUME NEW lost, TransactionCommits(lost)
         PROVE  MainOrOwnAt(w, k)'
    BY <1>13, <1>14 DEF TransactionCommits
  <1>15. CASE TransactionFails
    BY <1>13, <1>15 DEF TransactionFails
  <1>16. ASSUME NEW recovers \in BOOLEAN, CloseDatabase(recovers)
         PROVE  MainOrOwnAt(w, k)'
    BY <1>c, <1>16, MainOrOwnSame DEF CloseDatabase, storageVars, wireVars
  <1>17. CASE UNCHANGED vars
    BY <1>c, <1>17, MainOrOwnSame DEF vars
  <1>18. QED
    BY <1>1, <1>2, <1>3, <1>4, <1>5, <1>6, <1>7, <1>8, <1>9, <1>10, <1>11, <1>12,
       <1>14, <1>15, <1>16, <1>17 DEF Next
-----------------------------------------------------------------------------
(* The database *)

LEMMA AppliedTwice ==
    ASSUME NEW a \in Items, NEW b \in Request, NEW c \in Request
    PROVE  /\ Applied(a, Applied(b, c)) = Applied(Applied(a, b), c)
           /\ Applied(a, Nothing) = a
           /\ Applied(b, Nothing) = b
  <1>1. \A k \in Key : Applied(a, Applied(b, c))[k] = Applied(Applied(a, b), c)[k]
    BY DEF Applied, Request
  <1>2. Applied(a, Nothing) = a /\ Applied(b, Nothing) = b
    BY DEF Applied, Nothing, Items, Request
  <1>3. Applied(a, Applied(b, c)) = Applied(Applied(a, b), c)
    BY <1>1 DEF Applied
  <1>4. QED
    BY <1>2, <1>3

LEMMA FollowsStep ==
    ASSUME TypeOK, Phases, Wires, DatabaseFollows, [Next]_vars
    PROVE  DatabaseFollows'
  <1> USE Constants
  <1>a. /\ cache[Main] \in Items /\ db \in Items
        /\ updating[Main] \in Request /\ pending[Main] \in Request
        /\ Applied(db, updating[Main]) \in Items
    BY AppliedType DEF TypeOK
  <1>b. erroneous \/ cache[Main] = Applied(Applied(db, updating[Main]), pending[Main])
    BY DEF DatabaseFollows
  <1>1. ASSUME NEW p \in Process, NEW request \in Request, Change(p, request),
               UNCHANGED <<updating, dbVars>>
        PROVE  DatabaseFollows'
    <2> DEFINE new == [k \in Key |-> IF request[k] = cache[p][k] THEN Untouched ELSE request[k]]
    <2>1. /\ cache' = [cache EXCEPT ![p] = Applied(@, new)]
          /\ pending' = [pending EXCEPT ![p] = Applied(@, new)]
          /\ UNCHANGED <<updating, db, erroneous>>
      BY <1>1 DEF Change, dbVars
    <2>2. new \in Request
      BY DEF Request
    <2> HIDE DEF new
    <2>3. CASE p # Main
      <3>1. cache'[Main] = cache[Main] /\ pending'[Main] = pending[Main]
        BY <2>1, <2>3 DEF TypeOK
      <3>2. QED
        BY <1>b, <2>1, <3>1 DEF DatabaseFollows
    <2>4. CASE p = Main
      <3>1. /\ cache'[Main] = Applied(cache[Main], new)
            /\ pending'[Main] = Applied(pending[Main], new)
        BY <2>1, <2>4 DEF TypeOK
      <3>2. Applied(Applied(db, updating[Main]), Applied(pending[Main], new))
               = Applied(Applied(Applied(db, updating[Main]), pending[Main]), new)
        BY <1>a, <2>2, AppliedTwice
      <3>3. QED
        BY <1>b, <2>1, <3>1, <3>2 DEF DatabaseFollows
    <2>5. QED
      BY <2>3, <2>4
  <1>2. ASSUME NEW p \in Process, NEW k \in Key, NEW v \in Data, Set(p, k, v)
        PROVE  DatabaseFollows'
    <2>1. /\ Change(p, [Nothing EXCEPT ![k] = v]) /\ [Nothing EXCEPT ![k] = v] \in Request
          /\ UNCHANGED <<updating, dbVars>>
      BY <1>2 DEF Set, Request
    <2>2. QED
      BY <1>1, <2>1
  <1>3. ASSUME NEW w \in Window, AnswerUpdate(w)
        PROVE  DatabaseFollows'
    <2>1. CASE state[Main] = "Closed"
      BY <1>b, <1>3, <2>1 DEF AnswerUpdate, DatabaseFollows, dbVars
    <2>2. CASE state[Main] # "Closed"
      <3>1. Change(Main, updating[w]) /\ UNCHANGED <<updating, dbVars>>
            /\ updating[w] \in Request
        BY <1>3, <2>2 DEF AnswerUpdate, TypeOK
      <3>2. QED
        BY <1>1, <3>1
    <2>3. QED
      BY <2>1, <2>2
  <1>4. ASSUME NEW p \in Process, TimerFires(p)
        PROVE  DatabaseFollows'
    <2>1. UNCHANGED <<cache, db, erroneous>>
      BY <1>4 DEF TimerFires, dbVars
    <2>2. CASE Active(p)
      BY <1>b, <1>4, <2>1, <2>2 DEF TimerFires, DatabaseFollows
    <2>3. CASE ~Active(p)
      <3>1. /\ pending' = [pending EXCEPT ![p] = Nothing]
            /\ updating' = [updating EXCEPT ![p] = pending[p]]
        BY <1>4, <2>3 DEF TimerFires, FlushPending
      <3>2. CASE p # Main
        <4>1. pending'[Main] = pending[Main] /\ updating'[Main] = updating[Main]
          BY <3>1, <3>2 DEF TypeOK
        <4>2. QED
          BY <1>b, <2>1, <4>1 DEF DatabaseFollows
      <3>3. CASE p = Main
        <4>1. pending'[Main] = Nothing /\ updating'[Main] = pending[Main]
          BY <3>1, <3>3 DEF TypeOK
        <4>2. updating[Main] = Nothing
          BY <2>3, <3>3 DEF Active
        <4>3. Applied(db, Nothing) = db
              /\ Applied(Applied(db, pending[Main]), Nothing) = Applied(db, pending[Main])
          BY <1>a, AppliedTwice, AppliedType
        <4>4. QED
          BY <1>b, <2>1, <4>1, <4>2, <4>3 DEF DatabaseFollows
      <3>4. QED
        BY <3>2, <3>3
    <2>4. QED
      BY <2>2, <2>3
  <1>5. ASSUME UNCHANGED <<pending, updating, db, erroneous>>, cache'[Main] = cache[Main]
        PROVE  DatabaseFollows'
    BY <1>b, <1>5 DEF DatabaseFollows
  <1>6. ASSUME NEW w \in Window, ReadDone(w)
        PROVE  DatabaseFollows'
    <2>1. UpdateSettles(w, TRUE) /\ UNCHANGED <<cache, db, erroneous>>
      BY <1>6 DEF ReadDone, dbVars
    <2>2. pending'[Main] = pending[Main] /\ updating'[Main] = updating[Main]
      <3>1. CASE queued[w]
        <4>1. /\ pending' = [pending EXCEPT ![w] = Nothing]
              /\ updating' = [updating EXCEPT ![w] = pending[w]]
          BY <2>1, <3>1 DEF UpdateSettles, FlushPending
        <4>2. QED
          BY <4>1 DEF TypeOK
      <3>2. CASE ~queued[w]
        <4>1. updating' = [updating EXCEPT ![w] = Nothing] /\ UNCHANGED pending
          BY <2>1, <3>2 DEF UpdateSettles
        <4>2. QED
          BY <4>1 DEF TypeOK
      <3>3. QED
        BY <3>1, <3>2
    <2>3. QED
      BY <1>b, <2>1, <2>2 DEF DatabaseFollows
  <1>7. ASSUME NEW w \in Window, ReadItems(w) \/ ReadChanges(w)
        PROVE  DatabaseFollows'
    <2>1. cache'[Main] = cache[Main]
      BY <1>7 DEF ReadItems, ReadChanges, TypeOK
    <2>2. QED
      BY <1>5, <1>7, <2>1 DEF ReadItems, ReadChanges, dbVars
  <1>8. ASSUME NEW p \in Process, Close(p)
        PROVE  DatabaseFollows'
    BY <1>5, <1>8 DEF Close, dbVars
  <1>9. ASSUME NEW w \in Window, Open(w) \/ AnswerItems(w) \/ CloseClient(w)
        PROVE  DatabaseFollows'
    BY <1>5, <1>9 DEF Open, AnswerItems, CloseClient, storageVars, dbVars
  <1>10. CASE SendChanges \/ UNCHANGED vars
    BY <1>5, <1>10 DEF SendChanges, vars, storageVars, dbVars
  <1>11. ASSUME NEW lost, TransactionCommits(lost)
         PROVE  DatabaseFollows'
    <2>1. SUFFICES ASSUME ~erroneous'
                   PROVE  DatabaseFollows'
      BY DEF DatabaseFollows
    <2>2. /\ ~erroneous /\ lost = {}
          /\ UpdateSettles(Main, TRUE) /\ UNCHANGED cache
          /\ db' = [k \in Key |-> IF k \in lost THEN db[k]
                                  ELSE Applied(db, updating[Main])[k]]
      BY <1>11, <2>1 DEF TransactionCommits
    <2>3. db' = Applied(db, updating[Main])
      BY <2>2 DEF Applied
    <2>4. CASE queued[Main]
      <3>1. /\ pending' = [pending EXCEPT ![Main] = Nothing]
            /\ updating' = [updating EXCEPT ![Main] = pending[Main]]
        BY <2>2, <2>4 DEF UpdateSettles, FlushPending
      <3>2. pending'[Main] = Nothing /\ updating'[Main] = pending[Main]
        BY <3>1 DEF TypeOK
      <3>3. Applied(Applied(db', pending[Main]), Nothing) = Applied(db', pending[Main])
        BY <1>a, <2>3, AppliedTwice, AppliedType
      <3>4. QED
        BY <1>b, <2>2, <2>3, <3>2, <3>3 DEF DatabaseFollows
    <2>5. CASE ~queued[Main]
      <3>1. updating' = [updating EXCEPT ![Main] = Nothing] /\ UNCHANGED pending
        BY <2>2, <2>5 DEF UpdateSettles
      <3>2. updating'[Main] = Nothing
        BY <3>1 DEF TypeOK
      <3>3. Applied(db', Nothing) = db'
        BY <1>a, <2>3, AppliedTwice
      <3>4. QED
        BY <1>b, <2>2, <2>3, <3>1, <3>2, <3>3 DEF DatabaseFollows
    <2>6. QED
      BY <2>4, <2>5
  <1>12. CASE TransactionFails
    BY <1>12 DEF TransactionFails, DatabaseFollows
  <1>13. ASSUME NEW recovers \in BOOLEAN, CloseDatabase(recovers)
         PROVE  DatabaseFollows'
    <2>1. CASE erroneous
      BY <1>13, <2>1 DEF CloseDatabase, DatabaseFollows
    <2>2. CASE ~erroneous
      BY <1>5, <1>13, <2>2 DEF CloseDatabase, storageVars
    <2>3. QED
      BY <2>1, <2>2
  <1>14. QED
    BY <1>2, <1>3, <1>4, <1>6, <1>7, <1>8, <1>9, <1>10, <1>11, <1>12, <1>13 DEF Next

\* Once the file is closed, main is at rest for good.
LEMMA ClosedStep ==
    ASSUME TypeOK, Phases, Wires, DatabaseFollows, ClosedHasAll, [Next]_vars
    PROVE  ClosedHasAll'
  <1> USE Constants
  <1>1. SUFFICES ASSUME dbState' = "closed"
                 PROVE  db' = cache'[Main]
    BY DEF ClosedHasAll
  <1>2. ASSUME NEW recovers \in BOOLEAN, CloseDatabase(recovers)
        PROVE  db' = cache'[Main]
    <2>1. /\ recovers /\ closing[Main] = "settled" /\ UNCHANGED cache
          /\ db' = IF erroneous THEN cache[Main] ELSE db
      BY <1>1, <1>2 DEF CloseDatabase, storageVars
    <2>2. pending[Main] = Nothing /\ updating[Main] = Nothing
      BY <2>1 DEF Phases, Phase, Resting, HasPending, Active
    <2>3. ~erroneous => cache[Main] = db
      BY <2>2, AppliedTwice DEF DatabaseFollows, TypeOK
    <2>4. QED
      BY <2>1, <2>3
  <1>3. ASSUME UNCHANGED dbState
        PROVE  /\ db = cache[Main] /\ state[Main] = "Closed" /\ ~Active(Main)
               /\ closing[Main] = "done"
    BY <1>1, <1>3 DEF ClosedHasAll, Phases, Phase, Resting
  <1>4. ASSUME UNCHANGED <<db, dbState>>, cache'[Main] = cache[Main]
        PROVE  db' = cache'[Main]
    BY <1>3, <1>4
  <1>5. ASSUME NEW p \in Process, NEW k \in Key, NEW v \in Data, Set(p, k, v)
        PROVE  db' = cache'[Main]
    <2>1. /\ state[p] = "Initialized" /\ UNCHANGED <<db, dbState>>
          /\ \E e : cache' = [cache EXCEPT ![p] = e]
      BY <1>5 DEF Set, Change, dbVars
    <2>2. p # Main
      BY <1>3, <2>1
    <2>3. QED
      BY <1>4, <2>1, <2>2 DEF TypeOK
  <1>6. ASSUME NEW p \in Process, TimerFires(p) \/ Close(p)
        PROVE  db' = cache'[Main]
    BY <1>4, <1>6 DEF TimerFires, Close, dbVars
  <1>7. ASSUME NEW w \in Window, Open(w) \/ AnswerItems(w) \/ CloseClient(w)
        PROVE  db' = cache'[Main]
    BY <1>4, <1>7 DEF Open, AnswerItems, CloseClient, storageVars, dbVars
  <1>8. ASSUME NEW w \in Window, AnswerUpdate(w)
        PROVE  db' = cache'[Main]
    <2>1. UNCHANGED <<db, dbState>>
      BY <1>8 DEF AnswerUpdate, dbVars
    <2>2. UNCHANGED cache
      BY <1>3, <1>8, <2>1 DEF AnswerUpdate
    <2>3. QED
      BY <1>4, <2>1, <2>2
  <1>9. ASSUME NEW w \in Window, ReadItems(w) \/ ReadChanges(w) \/ ReadDone(w)
        PROVE  db' = cache'[Main]
    <2>1. UNCHANGED <<db, dbState>> /\ cache'[Main] = cache[Main]
      BY <1>9 DEF ReadItems, ReadChanges, ReadDone, TypeOK, dbVars
    <2>2. QED
      BY <1>4, <2>1
  <1>10. ASSUME Active(Main), UNCHANGED dbState
         PROVE  db' = cache'[Main]
    BY <1>3, <1>10
  <1>11. ASSUME NEW lost, TransactionCommits(lost)
         PROVE  db' = cache'[Main]
    BY <1>10, <1>11 DEF TransactionCommits
  <1>12. CASE TransactionFails
    BY <1>10, <1>12 DEF TransactionFails
  <1>13. CASE SendChanges \/ UNCHANGED vars
    BY <1>4, <1>13 DEF SendChanges, vars, storageVars, dbVars
  <1>14. QED
    BY <1>2, <1>5, <1>6, <1>7, <1>8, <1>9, <1>11, <1>12, <1>13 DEF Next
-----------------------------------------------------------------------------
(* Theorems *)

LEMMA InitIInv == Init => IInv
  <1> SUFFICES ASSUME Init PROVE IInv
    OBVIOUS
  <1> USE Constants
  <1>1. TypeOK
    <2>1. 0 \in 0 .. MaxChange
      BY StorageAssumption
    <2>2. [w \in Window |-> << >>] \in [Window -> Seq(Message)]
      OBVIOUS
    <2>3. QED
      BY <2>1, <2>2 DEF Init, TypeOK
  <1>2. Phases
    BY DEF Init, Phases, Phase, Resting, HasPending, Active
  <1>3. Wires /\ LastIsCurrent
    <2>1. \A w \in Window : toWindow[w] = << >> /\ DOMAIN toWindow[w] = {}
      BY DEF Init
    <2>2. QED
      BY <2>1 DEF Init, Wires, Wire, LastIsCurrent, LastSays
  <1>4. MainOrOwn
    BY DEF Init, MainOrOwn, MainOrOwnAt
  <1>5. DatabaseFollows
    <2>1. Applied(Applied(Empty, Nothing), Nothing) = Empty
      BY AppliedTwice
    <2>2. QED
      BY <2>1 DEF Init, DatabaseFollows
  <1>6. ClosedHasAll
    BY DEF Init, ClosedHasAll
  <1>7. QED
    BY <1>1, <1>2, <1>3, <1>4, <1>5, <1>6 DEF IInv

LEMMA IInvStep == IInv /\ [Next]_vars => IInv'
  BY TypeStep, PhaseStep, WireStep, LastStep, MainOrOwnStep, FollowsStep, ClosedStep DEF IInv

LEMMA Invariance == Spec => []IInv
  BY InitIInv, IInvStep, PTL DEF Spec

\* Every reachable state is of the expected shape; above all, the items a
\* window reads are whole, and a window that closes has had its answers.
THEOREM TypeCorrect == Spec => []TypeOK
  <1>1. IInv => TypeOK
    BY DEF IInv
  <1>2. QED
    BY <1>1, Invariance, PTL

\* However many windows change however many keys, and in whatever order their
\* updates, the debounced events and the items are read: the last message to
\* a window about a key has main's value of it, and a window that has another
\* value will hear of the key or has a value of its own to tell.
THEOREM KeptCurrent == Spec => []WindowsAreKeptCurrent
  <1>1. LastIsCurrent => LastMessageIsCurrent
    BY DEF LastIsCurrent, LastSays, LastMessageIsCurrent, About
  <1>2. MainOrOwn => DifferenceIsOnItsWay
    <2>1. \A w \in Window, k \in Key : About(w, k) = {} => Silent(toWindow[w], k)
      BY DEF About, Silent
    <2>2. QED
      BY <2>1 DEF MainOrOwn, MainOrOwnAt, DifferenceIsOnItsWay
  <1>3. IInv => WindowsAreKeptCurrent
    BY <1>1, <1>2 DEF IInv, WindowsAreKeptCurrent
  <1>4. QED
    BY <1>3, Invariance, PTL

\* What was set and is not in the file yet is in the transaction or pending,
\* and what is pending has a timer or a running update after which the
\* throttler flushes again: neither a doClose nor a queued flush loses it.
THEOREM NothingForgotten == Spec => []NothingIsForgotten
  <1>1. Phases => PendingWillBeFlushed
    BY DEF Phases, Phase, PendingWillBeFlushed
  <1>2. IInv => NothingIsForgotten
    BY <1>1 DEF IInv, NothingIsForgotten
  <1>3. QED
    BY <1>2, Invariance, PTL

\* A database that was closed has what the main process had: nothing was
\* pending or in a transaction any more, and errors were made up for.
THEOREM ClosedComplete == Spec => []ClosedHasAll
  <1>1. IInv => ClosedHasAll
    BY DEF IInv
  <1>2. QED
    BY <1>1, Invariance, PTL
=============================================================================
