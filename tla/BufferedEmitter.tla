--------------------------- MODULE BufferedEmitter ---------------------------
(***************************************************************************)
(* BufferedEmitter (src/vs/base/parts/ipc/common/ipc.net.ts): an emitter   *)
(* that keeps what is fired while nobody listens and hands it over in a    *)
(* microtask once somebody does.                                           *)
(*                                                                         *)
(* A listener may fire, listen, stop listening or flush while it is being  *)
(* called: any step may fall between two deliveries of _deliverMessages.   *)
(* A microtask starts when no delivery is running.                         *)
(***************************************************************************)
EXTENDS Naturals, Sequences

CONSTANTS MaxEvent,     \* bound on the events fired, named 1, 2, ... as they are
          MaxChange     \* bound on the times a first listener arrives

ASSUME EmitterAssumption == MaxEvent \in Nat /\ MaxChange \in Nat

VARIABLES
    hasListeners,       \* _hasListeners
    isDelivering,       \* _isDeliveringMessages
    buffered,           \* _bufferedMessages
    microtasks,         \* how many calls of _deliverMessages are queued
    fired,              \* how many events were fired
    delivered,          \* history: the events handed to listeners
    flushed,            \* history: the events dropped by flushBuffer
    arrivals            \* how often a first listener arrived

vars == <<hasListeners, isDelivering, buffered, microtasks, fired, delivered,
          flushed, arrivals>>

Elements(s) == {s[i] : i \in 1 .. Len(s)}

Init ==
    /\ hasListeners = FALSE
    /\ isDelivering = FALSE
    /\ buffered = << >>
    /\ microtasks = 0
    /\ fired = 0
    /\ delivered = << >>
    /\ flushed = {}
    /\ arrivals = 0

\* Mutant: only the very first listener queues the microtask.
AddFirstListenerOnce ==
    /\ ~hasListeners
    /\ arrivals < MaxChange
    /\ hasListeners' = TRUE
    /\ microtasks' = IF arrivals = 0 THEN microtasks + 1 ELSE microtasks
    /\ arrivals' = arrivals + 1
    /\ UNCHANGED <<isDelivering, buffered, fired, delivered, flushed>>

\* onWillAddFirstListener
AddFirstListener ==
    /\ ~hasListeners
    /\ arrivals < MaxChange
    /\ hasListeners' = TRUE
    /\ microtasks' = microtasks + 1
    /\ arrivals' = arrivals + 1
    /\ UNCHANGED <<isDelivering, buffered, fired, delivered, flushed>>

\* onDidRemoveLastListener
RemoveLastListener ==
    /\ hasListeners
    /\ hasListeners' = FALSE
    /\ UNCHANGED <<isDelivering, buffered, microtasks, fired, delivered, flushed, arrivals>>

\* Mutant: who listens is called at once, whatever still waits in the buffer.
FireAtOnce ==
    /\ fired < MaxEvent
    /\ fired' = fired + 1
    /\ IF hasListeners
       THEN delivered' = Append(delivered, fired') /\ UNCHANGED buffered
       ELSE buffered' = Append(buffered, fired') /\ UNCHANGED delivered
    /\ UNCHANGED <<hasListeners, isDelivering, microtasks, flushed, arrivals>>

\* An event joins the buffer while nobody listens or others wait in it.
Fire ==
    /\ fired < MaxEvent
    /\ fired' = fired + 1
    /\ IF hasListeners /\ buffered = << >>
       THEN delivered' = Append(delivered, fired') /\ UNCHANGED buffered
       ELSE buffered' = Append(buffered, fired') /\ UNCHANGED delivered
    /\ UNCHANGED <<hasListeners, isDelivering, microtasks, flushed, arrivals>>

FlushBuffer ==
    /\ flushed' = flushed \cup Elements(buffered)
    /\ buffered' = << >>
    /\ UNCHANGED <<hasListeners, isDelivering, microtasks, fired, delivered, arrivals>>
-----------------------------------------------------------------------------
(* _deliverMessages: it starts, hands over one event after the other, and   *)
(* ends when nobody listens any more or nothing is left.                    *)

\* Mutant: it also runs without having been queued.
StartDeliveringUnasked ==
    /\ ~isDelivering
    /\ microtasks' = microtasks - 1
    /\ isDelivering' = TRUE
    /\ UNCHANGED <<hasListeners, buffered, fired, delivered, flushed, arrivals>>

StartDelivering ==
    /\ microtasks > 0
    /\ ~isDelivering
    /\ microtasks' = microtasks - 1
    /\ isDelivering' = TRUE
    /\ UNCHANGED <<hasListeners, buffered, fired, delivered, flushed, arrivals>>

DeliverNext ==
    /\ isDelivering
    /\ hasListeners /\ buffered # << >>
    /\ delivered' = Append(delivered, Head(buffered))
    /\ buffered' = Tail(buffered)
    /\ UNCHANGED <<hasListeners, isDelivering, microtasks, fired, flushed, arrivals>>

StopDelivering ==
    /\ isDelivering
    /\ ~(hasListeners /\ buffered # << >>)
    /\ isDelivering' = FALSE
    /\ UNCHANGED <<hasListeners, buffered, microtasks, fired, delivered, flushed, arrivals>>

DeliverMessages == StartDelivering \/ DeliverNext \/ StopDelivering

Next == \/ AddFirstListener \/ RemoveLastListener
        \/ Fire \/ FlushBuffer
        \/ DeliverMessages

Spec == Init /\ [][Next]_vars

\* Queued microtasks and running loops go on.
LiveSpec == Spec /\ WF_vars(DeliverMessages)

-----------------------------------------------------------------------------
(* Properties.                                                              *)

TypeOK ==
    /\ hasListeners \in BOOLEAN
    /\ isDelivering \in BOOLEAN
    /\ buffered \in Seq(1 .. fired)
    /\ microtasks \in Nat
    /\ fired \in Nat
    /\ delivered \in Seq(1 .. fired)
    /\ flushed \subseteq 1 .. fired
    /\ arrivals \in Nat

\* Every event that was not flushed is delivered or still waits, once, and the
\* deliveries and the buffer behind them are in the order of fire(), however
\* listeners come and go and whatever they do while they are called.
EachOnceInOrder ==
    LET all == delivered \o buffered IN
      /\ \A i, j \in 1 .. Len(all) : i < j => all[i] < all[j]
      /\ Elements(all) \cup flushed = 1 .. fired

\* What waits while somebody listens is not forgotten: a loop is running or
\* will.
SomebodyWillDeliver ==
    hasListeners /\ buffered # << >> => isDelivering \/ microtasks > 0

\* Who goes on listening gets all that was fired.
AllDelivered == (<>[]hasListeners) => <>[](buffered = << >>)
=============================================================================
