-------------------------- MODULE ReliableChannel --------------------------
(***************************************************************************)
(* What PersistentProtocol (src/vs/base/parts/ipc/common/ipc.net.ts)       *)
(* promises to the code above it: a two-way channel that hands every       *)
(* message given to send() to onMessage on the other end, once and in the  *)
(* order of the calls, whatever happens to the sockets underneath.         *)
(***************************************************************************)
EXTENDS Naturals, Sequences

CONSTANT Payload        \* the contents of the messages

VARIABLES sent,         \* sent[p]: the payloads given to send() at end p
          rcvd          \* rcvd[p]: the payloads fired by onMessage at end p

vars == <<sent, rcvd>>

End == {"client", "server"}
Other(p) == IF p = "client" THEN "server" ELSE "client"

TypeOK == /\ sent \in [End -> Seq(Payload)]
          /\ rcvd \in [End -> Seq(Payload)]

Init == /\ sent = [p \in End |-> << >>]
        /\ rcvd = [p \in End |-> << >>]

Send(p, d) == /\ sent' = [sent EXCEPT ![p] = Append(@, d)]
              /\ UNCHANGED rcvd

\* The next message of the other end, the one after those already delivered.
Deliver(p) ==
    LET next == Len(rcvd[p]) + 1 IN
      /\ next <= Len(sent[Other(p)])
      /\ rcvd' = [rcvd EXCEPT ![p] = Append(@, sent[Other(p)][next])]
      /\ UNCHANGED sent

Next == \E p \in End : Deliver(p) \/ \E d \in Payload : Send(p, d)

Spec == Init /\ [][Next]_vars
=============================================================================
