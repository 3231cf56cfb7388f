------------------------------ MODULE Storage ------------------------------
(***************************************************************************)
(* Key-value storage shared by the windows and the main process            *)
(* (base/parts/storage, platform/storage).  Every process holds a Storage: *)
(* a cache in front of a database, with the changes not yet written to it. *)
(* A delayed and throttled flush hands those changes over.  A window's     *)
(* database is the main process, reached over IPC: an update is applied    *)
(* there like the main process's own changes, and all windows are told of  *)
(* it, the author too.  The main process's database is an SQLite file      *)
(* whose transactions can fail.                                            *)
(***************************************************************************)
EXTENDS Integers, Sequences, SequencesExt

CONSTANTS
    Window,      \* windows, each with its storage client
    Main,        \* the main process
    Key, Value,  \* what is stored
    Absent,      \* "no value under this key"
    Untouched,   \* "this request says nothing of this key"
    Writer,      \* bound: whose callers change something
    MaxChange,   \* bound: how many changes are made in all
    Faults       \* what can happen: "sqlite", SQLite reports errors; "kill",
                 \* the main process closes while windows are open

ASSUME StorageAssumption ==
    /\ Main \notin Window
    /\ Absent \notin Value
    /\ Untouched \notin Value \cup {Absent}
    /\ Writer \subseteq Window \cup {Main}
    /\ MaxChange \in Nat
    /\ Faults \subseteq {"sqlite", "kill"}

VARIABLES
    cache,      \* cache[p]: what process p reads
    pending,    \* pending[p]: pendingInserts and pendingDeletes
    state,      \* state[p]: "None", "Opening", "Initialized" or "Closed"
    timer,      \* timer[p]: the delayer will call flushPending
    updating,   \* updating[p]: the update that database.updateItems works on
    queued,     \* queued[p]: the throttler flushes again when that one is over
    closing,    \* closing[p]: what doClose waits for
    asked,      \* asked[w]: the request of window w that main has not read
    toWindow,   \* toWindow[w]: what main has sent to window w
    changed,    \* keys whose change main has not yet told the windows
    db,         \* the rows of the SQLite file
    erroneous,  \* isErroneous of its connection
    dbState,    \* "open", "closed" or "failed"
    changes     \* changes made so far

storageVars == <<cache, pending, timer, queued, updating>>
dbVars == <<db, erroneous, dbState>>
wireVars == <<asked, toWindow, changed>>
vars == <<cache, pending, state, timer, updating, queued, closing, asked,
          toWindow, changed, db, erroneous, dbState, changes>>

Process == Window \cup {Main}
Data == Value \cup {Absent}
Items == [Key -> Data]
Request == [Key -> Data \cup {Untouched}]

Nothing == [k \in Key |-> Untouched]
Empty == [k \in Key |-> Absent]
\* Mutant: a request stands for all the items.
AppliedReplaces(items, request) == request
Applied(items, request) ==
    [k \in Key |-> IF request[k] = Untouched THEN items[k] ELSE request[k]]

HasPending(p) == pending[p] # Nothing
Active(p) == updating[p] # Nothing
Listening(w) == state[w] # "None" /\ closing[w] # "done"

Message == [type : {"items", "done", "changed"}, data : Request]

TypeOK ==
    /\ cache \in [Process -> Items]
    /\ pending \in [Process -> Request]
    /\ state \in [Process -> {"None", "Opening", "Initialized", "Closed"}]
    /\ timer \in [Process -> BOOLEAN]
    /\ updating \in [Process -> Request]
    /\ queued \in [Process -> BOOLEAN]
    /\ closing \in [Process -> {"no", "timer", "update", "queue", "queued update",
                                "settled", "done"}]
    /\ asked \in [Window -> {"nothing", "items", "update"}]
    /\ toWindow \in [Window -> Seq(Message)]
    /\ changed \in SUBSET Key
    /\ db \in Items
    /\ erroneous \in BOOLEAN
    /\ dbState \in {"open", "closed", "failed"}
    /\ changes \in 0 .. MaxChange

Init ==
    /\ cache = [p \in Process |-> Empty]
    /\ pending = [p \in Process |-> Nothing]
    /\ state = [p \in Process |-> IF p = Main THEN "Initialized" ELSE "None"]
    /\ timer = [p \in Process |-> FALSE]
    /\ updating = [p \in Process |-> Nothing]
    /\ queued = [p \in Process |-> FALSE]
    /\ closing = [p \in Process |-> "no"]
    /\ asked = [w \in Window |-> "nothing"]
    /\ toWindow = [w \in Window |-> << >>]
    /\ changed = {}
    /\ db = Empty
    /\ erroneous = FALSE
    /\ dbState = "open"
    /\ changes = 0

-----------------------------------------------------------------------------
(* Changes and flushes of one process *)

\* Mutant: the windows are not told.
ChangeQuietly(p, request) ==
    LET new == [k \in Key |-> IF request[k] = cache[p][k] THEN Untouched ELSE request[k]]
    IN  /\ cache' = [cache EXCEPT ![p] = Applied(@, new)]
        /\ pending' = [pending EXCEPT ![p] = Applied(@, new)]
        /\ timer' = [timer EXCEPT ![p] = @ \/ new # Nothing]
        /\ UNCHANGED changed

\* set and delete: p takes over what the request changes.  A value that is
\* there already is not written.
Change(p, request) ==
    LET new == [k \in Key |-> IF request[k] = cache[p][k] THEN Untouched ELSE request[k]]
    IN  /\ cache' = [cache EXCEPT ![p] = Applied(@, new)]
        /\ pending' = [pending EXCEPT ![p] = Applied(@, new)]
        /\ timer' = [timer EXCEPT ![p] = @ \/ new # Nothing]
        /\ changed' = IF p = Main THEN changed \cup {k \in Key : new[k] # Untouched}
                                  ELSE changed

\* A caller sets or, with Absent, deletes.
Set(p, k, v) ==
    /\ p \in Writer
    /\ state[p] = "Initialized"
    /\ v # cache[p][k]
    /\ changes < MaxChange
    /\ changes' = changes + 1
    /\ Change(p, [Nothing EXCEPT ![k] = v])
    /\ UNCHANGED <<state, updating, queued, closing, asked, toWindow, dbVars>>

\* flushPending as the throttler calls it.  A doClose that waited for this
\* flush to start waits for its update now, if there is one.
FlushPending(p, waited, waits) ==
    /\ pending' = [pending EXCEPT ![p] = Nothing]
    /\ updating' = [updating EXCEPT ![p] = pending[p]]
    /\ closing' = [closing EXCEPT ![p] = IF @ # waited THEN @
                                         ELSE IF HasPending(p) THEN waits
                                         ELSE "settled"]
    /\ asked' = IF p \in Window /\ HasPending(p)
                THEN [asked EXCEPT ![p] = "update"] ELSE asked

\* Mutant: a flush during an update is dropped.
TimerFiresInVain(p) ==
    /\ timer[p]
    /\ timer' = [timer EXCEPT ![p] = FALSE]
    /\ IF Active(p)
       THEN UNCHANGED <<pending, updating, closing, asked>>
       ELSE FlushPending(p, "timer", "update")
    /\ UNCHANGED <<cache, state, queued, toWindow, changed, dbVars, changes>>

\* The delayer's timer: the throttler flushes, or once the current update is over.
TimerFires(p) ==
    /\ timer[p]
    /\ timer' = [timer EXCEPT ![p] = FALSE]
    /\ IF Active(p)
       THEN /\ queued' = [queued EXCEPT ![p] = TRUE]
            /\ closing' = [closing EXCEPT ![p] = IF @ = "timer" THEN "queue" ELSE @]
            /\ UNCHANGED <<pending, updating, asked>>
       ELSE /\ FlushPending(p, "timer", "update")
            /\ UNCHANGED queued
    /\ UNCHANGED <<cache, state, toWindow, changed, dbVars, changes>>

\* Mutant: what is pending is reset once the update is over.
UpdateSettlesAll(p, succeeds) ==
    /\ updating' = [updating EXCEPT ![p] = Nothing]
    /\ pending' = [pending EXCEPT ![p] = Nothing]
    /\ queued' = [queued EXCEPT ![p] = FALSE]
    /\ closing' = [closing EXCEPT ![p] = IF @ \in {"update", "queue"} THEN "settled" ELSE @]
    /\ UNCHANGED asked

\* The update of p settles.  The throttler's promise settles with the first
\* flush either way; its queued promise is resolved only if the queued flush
\* succeeds, and settles in no other way.
UpdateSettles(p, succeeds) ==
    IF queued[p]
    THEN /\ queued' = [queued EXCEPT ![p] = FALSE]
         /\ FlushPending(p, "queue", "queued update")
    ELSE /\ updating' = [updating EXCEPT ![p] = Nothing]
         /\ closing' = [closing EXCEPT ![p] =
                          IF @ = "update" \/ (@ = "queued update" /\ succeeds)
                          THEN "settled" ELSE @]
         /\ UNCHANGED <<pending, queued, asked>>

-----------------------------------------------------------------------------
(* Windows and the main process *)

\* A window creates its storage: it listens and asks for the items.
Open(w) ==
    /\ state[w] = "None"
    /\ state[Main] = "Initialized"
    /\ state' = [state EXCEPT ![w] = "Opening"]
    /\ asked' = [asked EXCEPT ![w] = "items"]
    /\ UNCHANGED <<storageVars, closing, toWindow, changed, dbVars, changes>>

Send(w, type, data) ==
    toWindow' = [toWindow EXCEPT ![w] = Append(@, [type |-> type, data |-> data])]

\* Main answers getItems.
AnswerItems(w) ==
    /\ asked[w] = "items"
    /\ asked' = [asked EXCEPT ![w] = "nothing"]
    /\ Send(w, "items", cache[Main])
    /\ UNCHANGED <<storageVars, state, closing, changed, dbVars, changes>>

\* Main answers updateItems at once: its own storage takes the changes over,
\* unless it is closed.
AnswerUpdate(w) ==
    /\ asked[w] = "update"
    /\ asked' = [asked EXCEPT ![w] = "nothing"]
    /\ Send(w, "done", Nothing)
    /\ IF state[Main] = "Closed"
       THEN UNCHANGED <<cache, pending, timer, changed>>
       ELSE Change(Main, updating[w])
    /\ UNCHANGED <<state, updating, queued, closing, dbVars, changes>>

\* Mutant: the event is made from what the file has.
SendStored ==
    /\ changed # {}
    /\ changed' = {}
    /\ toWindow' = [w \in Window |->
          IF Listening(w)
          THEN Append(toWindow[w],
                 [type |-> "changed",
                  data |-> [k \in Key |-> IF k \in changed THEN db[k] ELSE Untouched]])
          ELSE toWindow[w]]
    /\ UNCHANGED <<storageVars, state, closing, asked, dbVars, changes>>

\* The debounced event: every window learns the present value of each key
\* that changed.
SendChanges ==
    /\ changed # {}
    /\ changed' = {}
    /\ toWindow' = [w \in Window |->
          IF Listening(w)
          THEN Append(toWindow[w],
                 [type |-> "changed",
                  data |-> [k \in Key |-> IF k \in changed THEN cache[Main][k]
                                                           ELSE Untouched]])
          ELSE toWindow[w]]
    /\ UNCHANGED <<storageVars, state, closing, asked, dbVars, changes>>

Read(w, type) ==
    /\ toWindow[w] # << >>
    /\ Head(toWindow[w]).type = type
    /\ toWindow' = [toWindow EXCEPT ![w] = Tail(@)]

\* The items arrive and replace the cache.
ReadItems(w) ==
    /\ Read(w, "items")
    /\ cache' = [cache EXCEPT ![w] = Head(toWindow[w]).data]
    /\ state' = [state EXCEPT ![w] = "Initialized"]
    /\ UNCHANGED <<pending, timer, updating, queued, closing, asked, changed,
                   dbVars, changes>>

\* acceptExternal, for every key of the event.
ReadChanges(w) ==
    /\ Read(w, "changed")
    /\ cache' = IF state[w] = "Closed" THEN cache
                ELSE [cache EXCEPT ![w] = Applied(@, Head(toWindow[w]).data)]
    /\ UNCHANGED <<pending, state, timer, updating, queued, closing, asked, changed,
                   dbVars, changes>>

ReadDone(w) ==
    /\ Read(w, "done")
    /\ UpdateSettles(w, TRUE)
    /\ UNCHANGED <<cache, state, timer, changed, dbVars, changes>>

-----------------------------------------------------------------------------
(* The main process and its database *)

\* The transaction of an update commits; statements of it that failed are
\* reported, but left out of it without failing it.
TransactionCommits(lost) ==
    /\ Active(Main)
    /\ lost # {} => "sqlite" \in Faults
    /\ db' = [k \in Key |-> IF k \in lost THEN db[k] ELSE Applied(db, updating[Main])[k]]
    /\ erroneous' = (erroneous \/ lost # {})
    /\ UpdateSettles(Main, TRUE)
    /\ UNCHANGED <<cache, state, timer, toWindow, changed, dbState, changes>>

TransactionFails ==
    /\ Active(Main)
    /\ "sqlite" \in Faults
    /\ erroneous' = TRUE
    /\ UpdateSettles(Main, FALSE)
    /\ UNCHANGED <<cache, state, timer, toWindow, changed, db, dbState, changes>>

\* close: a last flush as soon as possible.  The main process closes when the
\* windows are gone, unless it is killed.
Close(p) ==
    /\ state[p] = "Initialized"
    /\ p = Main /\ "kill" \notin Faults => \A w \in Window : ~Listening(w)
    /\ state' = [state EXCEPT ![p] = "Closed"]
    /\ timer' = [timer EXCEPT ![p] = TRUE]
    /\ closing' = [closing EXCEPT ![p] = "timer"]
    /\ UNCHANGED <<cache, pending, updating, queued, wireVars, dbVars, changes>>

\* A window only stops listening.
CloseClient(w) ==
    /\ closing[w] = "settled"
    /\ closing' = [closing EXCEPT ![w] = "done"]
    /\ toWindow' = [toWindow EXCEPT ![w] = << >>]
    /\ UNCHANGED <<storageVars, state, asked, changed, dbVars, changes>>

\* Mutant: errors are forgotten.
CloseAnyway(recovers) ==
    /\ closing[Main] = "settled"
    /\ recovers
    /\ closing' = [closing EXCEPT ![Main] = "done"]
    /\ dbState' = "closed"
    /\ UNCHANGED <<storageVars, state, wireVars, db, erroneous, changes>>

\* The SQLite file is closed; if there were errors, it is written anew from
\* the cache, which can fail as well.
CloseDatabase(recovers) ==
    /\ closing[Main] = "settled"
    /\ recovers \/ (erroneous /\ "sqlite" \in Faults)
    /\ closing' = [closing EXCEPT ![Main] = "done"]
    /\ dbState' = IF recovers THEN "closed" ELSE "failed"
    /\ db' = IF erroneous /\ recovers THEN cache[Main] ELSE db
    /\ UNCHANGED <<storageVars, state, wireVars, erroneous, changes>>

-----------------------------------------------------------------------------
Next ==
    \/ \E p \in Process, k \in Key, v \in Data : Set(p, k, v)
    \/ \E p \in Process : TimerFires(p) \/ Close(p)
    \/ \E w \in Window :
          \/ Open(w) \/ AnswerItems(w) \/ AnswerUpdate(w)
          \/ ReadItems(w) \/ ReadChanges(w) \/ ReadDone(w)
          \/ CloseClient(w)
    \/ SendChanges
    \/ \E lost \in SUBSET {k \in Key : updating[Main][k] # Untouched} :
          TransactionCommits(lost)
    \/ TransactionFails
    \/ \E recovers \in BOOLEAN : CloseDatabase(recovers)

Spec == Init /\ [][Next]_vars

\* Timers fire, messages are read, transactions end.  Nobody has to change or
\* close anything, and nothing has to fail or to succeed.
Fairness ==
    /\ \A p \in Process : WF_vars(TimerFires(p))
    /\ \A w \in Window :
          /\ WF_vars(AnswerItems(w) \/ AnswerUpdate(w))
          /\ WF_vars(ReadItems(w) \/ ReadChanges(w) \/ ReadDone(w))
          /\ WF_vars(CloseClient(w))
    /\ WF_vars(SendChanges)
    /\ WF_vars(TransactionFails \/ \E lost \in SUBSET Key : TransactionCommits(lost))
    /\ WF_vars(\E recovers \in BOOLEAN : CloseDatabase(recovers))

LiveSpec == Spec /\ Fairness

-----------------------------------------------------------------------------
(* Properties *)

\* The messages to w that say something of k.
About(w, k) == {i \in DOMAIN toWindow[w] : toWindow[w][i].data[k] # Untouched}
\* The value that w itself has given k and main does not know of yet.
Own(w, k) == IF pending[w][k] # Untouched THEN pending[w][k]
             ELSE IF asked[w] = "update" THEN updating[w][k] ELSE Untouched

\* The last message about a key has main's value of it, unless another is due.
LastMessageIsCurrent ==
    \A w \in Window, k \in Key \ changed : \A i \in About(w, k) :
       (\A j \in About(w, k) : j <= i) => toWindow[w][i].data[k] = cache[Main][k]

\* Caches differ only while something is on its way.
DifferenceIsOnItsWay ==
    \A w \in Window, k \in Key :
       /\ state[w] = "Initialized"
       /\ state[Main] = "Initialized"
       /\ cache[w][k] # cache[Main][k]
       => k \in changed \/ About(w, k) # {} \/ Own(w, k) = cache[w][k]

\* No window is left with an old value: one that disagrees with the main process
\* about a key will hear of it, or has changed the key itself and still has to
\* tell; and however many changes a debounced event stands for, what a window
\* hears last about a key is what the main process has.
WindowsAreKeptCurrent == LastMessageIsCurrent /\ DifferenceIsOnItsWay

\* What is pending has a flush to come.
PendingWillBeFlushed ==
    \A p \in Process : HasPending(p) => timer[p] \/ (queued[p] /\ Active(p))

\* The file lags behind the cache by what is pending and in the transaction.
DatabaseFollows ==
    erroneous \/ cache[Main] = Applied(Applied(db, updating[Main]), pending[Main])

\* Nothing that was set is forgotten: it is in the file, in the transaction, or
\* pending with a flush to come, as long as SQLite has reported no error.
NothingIsForgotten == PendingWillBeFlushed /\ DatabaseFollows

\* A file that was closed has everything, whatever failed before.
ClosedHasAll == dbState = "closed" => db = cache[Main]

\* When nobody changes anything any more, all windows come to read what the
\* main process has, as long as that is open.
Agree == \A w \in Window : state[w] = "Initialized" => cache[w] = cache[Main]
Converges == <>[](state[Main] = "Initialized" => Agree)

\* What storage.ts says of close: the database is closed even if there is an
\* error flushing.  It is not: a queued flush that fails settles no promise.
CloseEnds == [](state[Main] = "Closed" => <>(dbState # "open"))
=============================================================================
