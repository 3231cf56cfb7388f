------------------------- MODULE RemoteConnection --------------------------
(***************************************************************************)
(* The management connection between a window and a remote server: the     *)
(* reconnection loop of the window (PersistentConnection,                  *)
(* src/vs/platform/remote/common/remoteAgentConnection.ts), the handshake  *)
(* and the reconnection tokens of the server                               *)
(* (remoteExtensionHostAgentServer.ts), and the grace timers of the        *)
(* server's end (ManagementConnection, remoteExtensionManagement.ts).      *)
(*                                                                         *)
(* The window replaces a lost socket by a new one and presents its         *)
(* reconnection token on it; the server moves its end to that socket, or   *)
(* refuses when it no longer knows the token.  Only control messages and   *)
(* Disconnect are here: what the application sends, and its replay, is     *)
(* module PersistentProtocol.  Time is abstract: what may time out may do  *)
(* so at any moment, at the price of one fault.                            *)
(***************************************************************************)
EXTENDS Naturals, Sequences

CONSTANTS MaxSocket,  \* bound on the sockets the window opens
          MaxFaults,  \* bound on broken sockets, timeouts and server restarts
          GivesUp,    \* TRUE: the window may run out of grace, or of a resolver
          Interrupts  \* what may happen to the window while it reconnects

ASSUME BoundsAssumption ==
    /\ MaxSocket \in Nat \ {0}
    /\ MaxFaults \in Nat
    /\ GivesUp \in BOOLEAN
    /\ Interrupts \subseteq {"end", "othersFail"}

VARIABLES
    loop,              \* where the reconnection loop is
    clientSocket,      \* the socket the window's protocol is attached to
    clientClosed,      \* its close event was fired in the window
    control,           \* control messages fired while nobody listened
    permanentFailure,  \* PersistentConnection._permanentFailure (static)
    gaveUp,            \* history: triggerPermanentFailure was not due to this server
    isDisposed,
    didSendDisconnect,
    registered,        \* the server knows the reconnection token
    serverSocket,      \* the socket the server's protocol is attached to
    serverClosed,      \* its close event was fired in the server
    runner1,           \* the timer of the reconnection grace time is set
    runner2,           \* the timer of the short grace time is set
    state,             \* state[k]: the server's handshake on socket k
    accepted,          \* history: the sockets acceptReconnection was given
    open,              \* open[k]: neither end closed k, and k did not break
    toServer,          \* toServer[k]: in flight on k towards the server
    toClient,          \* toClient[k]: in flight on k towards the window
    faults             \* how many faults were used

loopVars   == <<loop, permanentFailure, gaveUp, isDisposed, didSendDisconnect>>
clientVars == <<clientSocket, clientClosed, control>>
graceVars  == <<registered, serverSocket, serverClosed, runner1, runner2>>
serverVars == <<graceVars, state, accepted>>
wireVars   == <<open, toServer, toClient>>
vars == <<loopVars, clientVars, serverVars, wireVars, faults>>

Socket == 1 .. MaxSocket
Attempting == {"resolving", "auth", "type"}

TypeOK ==
    /\ loop \in {"idle", "sleeping"} \cup Attempting
    /\ clientSocket \in Socket /\ serverSocket \in Socket
    /\ control \in Seq({"sign", "ok", "error"})
    /\ clientClosed \in BOOLEAN /\ serverClosed \in BOOLEAN
    /\ permanentFailure \in BOOLEAN /\ gaveUp \in BOOLEAN /\ isDisposed \in BOOLEAN
    /\ didSendDisconnect \in BOOLEAN /\ registered \in BOOLEAN
    /\ runner1 \in BOOLEAN /\ runner2 \in BOOLEAN
    /\ state \in [Socket -> {"WaitingForAuth", "WaitingForConnectionType", "Done", "Error"}]
    /\ accepted \subseteq Socket
    /\ open \in [Socket -> BOOLEAN]
    /\ toServer \in [Socket -> Seq({"auth", "connectionType", "Disconnect"})]
    /\ toClient \in [Socket -> Seq({"sign", "ok", "error"})]
    /\ faults \in 0 .. MaxFaults

\* The window is connected on socket 1, and both protocols are attached to it.
Init ==
    /\ loop = "idle"
    /\ clientSocket = 1 /\ clientClosed = FALSE /\ control = << >>
    /\ permanentFailure = FALSE /\ gaveUp = FALSE
    /\ isDisposed = FALSE /\ didSendDisconnect = FALSE
    /\ registered = TRUE
    /\ serverSocket = 1 /\ serverClosed = FALSE
    /\ runner1 = FALSE /\ runner2 = FALSE
    /\ state = [k \in Socket |-> IF k = 1 THEN "Done" ELSE "WaitingForAuth"]
    /\ accepted = {1}
    /\ open = [k \in Socket |-> k = 1]
    /\ toServer = [k \in Socket |-> << >>]
    /\ toClient = [k \in Socket |-> << >>]
    /\ faults = 0

---------------------------------------------------------------------------
(* The window.                                                             *)

\* What arrives on wire w of socket k when m is written to it.
Written(w, k, m) == [w EXCEPT ![k] = IF open[k] THEN Append(@, m) ELSE @]

\* Client.dispose and the end of PersistentConnection: say so, close the socket.
DisposeConnection ==
    /\ isDisposed' = TRUE
    /\ didSendDisconnect' = TRUE
    /\ toServer' = IF didSendDisconnect THEN toServer
                   ELSE Written(toServer, clientSocket, "Disconnect")
    /\ toClient' = [toClient EXCEPT ![clientSocket] = << >>]
    /\ open' = [open EXCEPT ![clientSocket] = FALSE]

\* triggerPermanentFailure: every connection that is not disposed yet is.
PermanentFailure ==
    /\ permanentFailure' = TRUE /\ gaveUp' = TRUE
    /\ IF isDisposed THEN UNCHANGED <<isDisposed, didSendDisconnect, wireVars>>
                     ELSE DisposeConnection

\* The loop ends: a permanent error, a refusing resolver or no grace is left.
GoesOnFailing == loop' = "idle" /\ PermanentFailure

\* _beginReconnecting, called by a close or a timeout event: the first attempt
\* does not wait.  The events of a disposed connection have no listener.
BeginReconnecting ==
    /\ ~permanentFailure /\ ~isDisposed
    /\ IF loop = "idle"
       THEN \/ /\ loop' = "resolving"
               /\ UNCHANGED <<permanentFailure, gaveUp, isDisposed, didSendDisconnect, wireVars>>
            \/ GivesUp /\ GoesOnFailing
       ELSE UNCHANGED <<loopVars, wireVars>>

\* A socket closes for its reader once it has read everything.
ClientHearsClose ==
    /\ ~clientClosed /\ ~open[clientSocket] /\ toClient[clientSocket] = << >>
    /\ clientClosed' = TRUE
    /\ BeginReconnecting
    /\ UNCHANGED <<clientSocket, control, serverVars, faults>>

ClientTimesOut ==
    /\ loop = "idle" /\ faults < MaxFaults
    /\ faults' = faults + 1
    /\ BeginReconnecting
    /\ UNCHANGED <<clientVars, serverVars>>

\* The wait is over: only a permanent failure is looked at here.
SleepEnds ==
    /\ loop = "sleeping"
    /\ loop' = IF permanentFailure THEN "idle" ELSE "resolving"
    /\ UNCHANGED <<permanentFailure, gaveUp, isDisposed, didSendDisconnect, clientVars,
                   serverVars, wireVars, faults>>

\* The resolver and the socket factory answered: the protocol moves to the new
\* socket, forgets what it buffered of the old one, and the handshake begins.
BeginAttemptOn(kept) ==
    LET k == clientSocket + 1 IN
    /\ loop = "resolving" /\ clientSocket < MaxSocket
    /\ loop' = "auth"
    /\ clientSocket' = k /\ clientClosed' = FALSE /\ control' = kept
    /\ open' = [open EXCEPT ![clientSocket] = FALSE, ![k] = TRUE]
    /\ toClient' = [toClient EXCEPT ![clientSocket] = << >>]
    /\ toServer' = [toServer EXCEPT ![k] = <<"auth">>]
    /\ UNCHANGED <<permanentFailure, gaveUp, isDisposed, didSendDisconnect, serverVars, faults>>

\* Mutant: the control messages of the old socket stay buffered.
BeginAttemptKeeping == BeginAttemptOn(control)

BeginAttempt == BeginAttemptOn(<< >>)

\* Nothing more will be read on the socket of this attempt.
Hopeless == loop # "resolving" /\ ~open[clientSocket] /\ toClient[clientSocket] = << >>

AttemptEnds(next) ==
    /\ loop \in Attempting
    /\ \/ Hopeless /\ UNCHANGED faults
       \/ ~Hopeless /\ faults < MaxFaults /\ faults' = faults + 1
    /\ \/ /\ loop' = next
          /\ UNCHANGED <<permanentFailure, gaveUp, isDisposed, didSendDisconnect, wireVars>>
       \/ GivesUp /\ GoesOnFailing
    /\ UNCHANGED <<clientVars, serverVars>>

\* Mutant: a timeout leaves the loop.
AttemptFailsOnce == AttemptEnds("idle")

\* An attempt fails or times out; the next one waits first.
AttemptFails == AttemptEnds(IF permanentFailure \/ isDisposed THEN "idle" ELSE "sleeping")

\* A control message nobody waits for is buffered by the protocol's emitter.
ClientBuffers ==
    /\ loop \notin {"auth", "type"} /\ ~isDisposed
    /\ toClient[clientSocket] # << >>
    /\ control' = Append(control, Head(toClient[clientSocket]))
    /\ toClient' = [toClient EXCEPT ![clientSocket] = Tail(@)]
    /\ UNCHANGED <<loopVars, clientSocket, clientClosed, serverVars, open, toServer, faults>>

\* The handshake reads one control message: of the emitter's buffer first.
NextControl == Head(control \o toClient[clientSocket])
TakeControl ==
    /\ control' = IF control = << >> THEN << >> ELSE Tail(control)
    /\ toClient' = IF control = << >> THEN [toClient EXCEPT ![clientSocket] = Tail(@)]
                                      ELSE toClient

ClientReadsSign ==
    /\ loop = "auth" /\ control \o toClient[clientSocket] # << >>
    /\ NextControl = "sign"
    /\ TakeControl
    /\ loop' = "type"
    /\ toServer' = Written(toServer, clientSocket, "connectionType")
    /\ UNCHANGED <<permanentFailure, gaveUp, isDisposed, didSendDisconnect, clientSocket,
                   clientClosed, serverVars, open, faults>>

\* endAcceptReconnection, ConnectionGainEvent, and the loop ends.
ClientReadsOk ==
    /\ loop = "type" /\ control \o toClient[clientSocket] # << >>
    /\ NextControl # "error"
    /\ TakeControl
    /\ loop' = "idle"
    /\ UNCHANGED <<permanentFailure, gaveUp, isDisposed, didSendDisconnect, clientSocket,
                   clientClosed, serverVars, open, toServer, faults>>

\* An error, or a message out of place: VSCODE_CONNECTION_ERROR is permanent.
ClientIsRefused ==
    /\ loop \in {"auth", "type"} /\ control \o toClient[clientSocket] # << >>
    /\ NextControl \in (IF loop = "auth" THEN {"ok", "error"} ELSE {"error"})
    /\ loop' = "idle" /\ permanentFailure' = TRUE /\ UNCHANGED gaveUp
    /\ IF isDisposed
       THEN TakeControl /\ UNCHANGED <<isDisposed, didSendDisconnect, open, toServer>>
       ELSE DisposeConnection /\ control' = << >>
    /\ UNCHANGED <<clientSocket, clientClosed, serverVars, faults>>

\* Another connection of the window failed for good while this one reconnects.
OthersFail ==
    /\ "othersFail" \in Interrupts /\ ~permanentFailure
    /\ PermanentFailure
    /\ UNCHANGED <<loop, clientVars, serverVars, faults>>

\* The window shuts down: it says so, and disposes the connection thereafter.
EndConnection ==
    /\ "end" \in Interrupts /\ ~didSendDisconnect
    /\ didSendDisconnect' = TRUE
    /\ toServer' = Written(toServer, clientSocket, "Disconnect")
    /\ UNCHANGED <<loop, permanentFailure, gaveUp, isDisposed, clientVars, serverVars,
                   open, toClient, faults>>

EndDisposes ==
    /\ "end" \in Interrupts /\ didSendDisconnect /\ ~isDisposed
    /\ DisposeConnection
    /\ UNCHANGED <<loop, permanentFailure, gaveUp, clientVars, serverVars, faults>>

---------------------------------------------------------------------------
(* The server.                                                             *)

\* The server reads "auth" on k and asks for a signature.
ServerReadsAuth(k) ==
    /\ toServer[k] # << >> /\ Head(toServer[k]) = "auth"
    /\ state[k] = "WaitingForAuth"
    /\ state' = [state EXCEPT ![k] = "WaitingForConnectionType"]
    /\ toServer' = [toServer EXCEPT ![k] = Tail(@)]
    /\ toClient' = Written(toClient, k, "sign")
    /\ UNCHANGED <<loopVars, clientVars, graceVars, accepted, open, faults>>

AsksForType(k) ==
    /\ toServer[k] # << >> /\ Head(toServer[k]) = "connectionType"
    /\ state[k] = "WaitingForConnectionType"

\* The protocol of the server's end moves to k, and disposes the socket it had.
MoveTo(k) ==
    /\ state' = [state EXCEPT ![k] = "Done"] /\ accepted' = accepted \cup {k}
    /\ serverSocket' = k /\ serverClosed' = FALSE
    /\ toClient' = Written(toClient, k, "ok")
    /\ toServer' = [toServer EXCEPT ![serverSocket] = << >>, ![k] = Tail(@)]
    /\ UNCHANGED <<loopVars, clientVars, registered, faults>>

\* Mutant: acceptReconnection cancels the long timer only.
AcceptCancellingOne(k) ==
    /\ AsksForType(k) /\ registered
    /\ MoveTo(k)
    /\ open' = [open EXCEPT ![serverSocket] = FALSE]
    /\ runner1' = FALSE /\ UNCHANGED runner2

\* Mutant: the protocol of the handshake takes k along when it is disposed.
AcceptDisposingSocket(k) ==
    /\ AsksForType(k) /\ registered
    /\ MoveTo(k)
    /\ open' = [open EXCEPT ![serverSocket] = FALSE, ![k] = FALSE]
    /\ runner1' = FALSE /\ runner2' = FALSE

\* A known token: the timers are cancelled and the server's end moves to k.
AcceptReconnection(k) ==
    /\ AsksForType(k) /\ registered
    /\ MoveTo(k)
    /\ open' = [open EXCEPT ![serverSocket] = FALSE]
    /\ runner1' = FALSE /\ runner2' = FALSE

Refuse(k, with) ==
    /\ AsksForType(k) /\ ~registered
    /\ state' = [state EXCEPT ![k] = "Error"]
    /\ toClient' = Written(toClient, k, with)
    /\ open' = [open EXCEPT ![k] = FALSE]
    /\ toServer' = [toServer EXCEPT ![k] = << >>]
    /\ UNCHANGED <<loopVars, clientVars, graceVars, accepted, faults>>

\* Mutant: the server says goodbye instead of what is wrong.
RejectByDisconnect(k) == Refuse(k, "Disconnect")

\* An unknown token: an error is written and drained, and the socket disposed.
RejectConnection(k) == Refuse(k, "error")

\* The handshake does not listen to a Disconnect.
HandshakeIgnores(k) ==
    /\ toServer[k] # << >> /\ Head(toServer[k]) = "Disconnect"
    /\ state[k] \in {"WaitingForAuth", "WaitingForConnectionType"}
    /\ toServer' = [toServer EXCEPT ![k] = Tail(@)]
    /\ UNCHANGED <<loopVars, clientVars, serverVars, open, toClient, faults>>

\* _cleanResources: the timers go, the socket is ended, the token forgotten.
\* The Disconnect it writes answers the window's own or meets a closed socket.
CleanResources ==
    /\ registered /\ registered' = FALSE
    /\ runner1' = FALSE /\ runner2' = FALSE
    /\ open' = [open EXCEPT ![serverSocket] = FALSE]
    /\ toServer' = [toServer EXCEPT ![serverSocket] = << >>]
    /\ UNCHANGED <<loopVars, clientVars, serverSocket, serverClosed, state, accepted,
                   toClient>>

ServerReadsDisconnect ==
    /\ toServer[serverSocket] # << >> /\ Head(toServer[serverSocket]) = "Disconnect"
    /\ state[serverSocket] = "Done"
    /\ CleanResources
    /\ UNCHANGED faults

ServerHearsCloseOf(heard) ==
    /\ registered /\ ~serverClosed /\ serverSocket \in heard
    /\ ~open[serverSocket] /\ toServer[serverSocket] = << >>
    /\ serverClosed' = TRUE /\ runner1' = TRUE
    /\ UNCHANGED <<loopVars, clientVars, registered, serverSocket, runner2, state,
                   accepted, wireVars, faults>>

\* Mutant: the listener is on the first socket and not on the protocol.
ServerHearsFirstClose == ServerHearsCloseOf({1})

\* The close event of the socket starts the grace time.
ServerHearsClose == ServerHearsCloseOf(Socket)

\* shortenReconnectionGraceTimeIfNecessary, as another client connects: the server
\* calls it for every connection it has.
AnotherClientConnects ==
    /\ registered /\ runner1 /\ ~runner2
    /\ runner2' = TRUE
    /\ UNCHANGED <<loopVars, clientVars, registered, serverSocket, serverClosed, runner1,
                   state, accepted, wireVars, faults>>

RunnerFires ==
    /\ runner1 \/ runner2
    /\ CleanResources
    /\ UNCHANGED faults

---------------------------------------------------------------------------
(* The network and the server's process.                                   *)

\* The socket is cut; the window reads a part of what it was sent.
Break(k) ==
    /\ open[k] \/ toClient[k] # << >>
    /\ faults < MaxFaults /\ faults' = faults + 1
    /\ open' = [open EXCEPT ![k] = FALSE]
    /\ \E read \in 0 .. Len(toClient[k]) :
          toClient' = [toClient EXCEPT ![k] = SubSeq(@, 1, read)]
    /\ UNCHANGED <<loopVars, clientVars, serverVars, toServer>>

\* A closed socket need not deliver what the window wrote last.
LoseTail(k) ==
    /\ ~open[k] /\ toServer[k] # << >>
    /\ toServer' = [toServer EXCEPT ![k] = SubSeq(@, 1, Len(@) - 1)]
    /\ UNCHANGED <<loopVars, clientVars, serverVars, open, toClient, faults>>

\* A new server knows no token, and no socket of the old one.
ServerRestarts ==
    /\ registered /\ faults < MaxFaults
    /\ faults' = faults + 1
    /\ registered' = FALSE /\ runner1' = FALSE /\ runner2' = FALSE
    /\ open' = [k \in Socket |-> FALSE]
    /\ toServer' = [k \in Socket |-> << >>]
    /\ UNCHANGED <<loopVars, clientVars, serverSocket, serverClosed, state, accepted, toClient>>

---------------------------------------------------------------------------
ClientLoop == ClientHearsClose \/ SleepEnds \/ BeginAttempt \/ AttemptFails
ClientReads == ClientBuffers \/ ClientReadsSign \/ ClientReadsOk \/ ClientIsRefused
ServerReads(k) ==
    ServerReadsAuth(k) \/ AcceptReconnection(k) \/ RejectConnection(k) \/ HandshakeIgnores(k)

Next ==
    \/ ClientLoop \/ ClientReads \/ ClientTimesOut
    \/ OthersFail \/ EndConnection \/ EndDisposes
    \/ \E k \in Socket : ServerReads(k) \/ Break(k) \/ LoseTail(k)
    \/ ServerReadsDisconnect \/ ServerHearsClose \/ AnotherClientConnects \/ RunnerFires
    \/ ServerRestarts

\* The event loops of both processes run on, the timers of the loop and of the
\* grace time fire; nothing fails, and no other window comes, because it must.
Fairness ==
    /\ WF_vars(ClientHearsClose) /\ WF_vars(SleepEnds) /\ WF_vars(BeginAttempt)
    /\ WF_vars(Hopeless /\ AttemptFails) /\ WF_vars(ClientReads) /\ WF_vars(EndDisposes)
    /\ \A k \in Socket : WF_vars(ServerReads(k))
    /\ WF_vars(ServerReadsDisconnect) /\ WF_vars(ServerHearsClose) /\ WF_vars(RunnerFires)

Spec == Init /\ [][Next]_vars
FairSpec == Spec /\ Fairness

---------------------------------------------------------------------------
(* Properties.                                                             *)

\* The server may drop a window only when that window's socket is gone: no grace
\* timer of an earlier socket runs on after a reconnection, however the close
\* event, another window's arrival and the reconnection are ordered
\* (ManagementConnection.acceptReconnection).
GraceOnlyWhileClosed == runner1 \/ runner2 => serverClosed /\ ~open[serverSocket]

\* A window that believes it is connected was accepted on the very socket it uses:
\* no message of an earlier attempt completes a later handshake
\* (connectToRemoteExtensionHostAgentAndReadOneMessage).
ConnectedIsAccepted == loop = "idle" /\ ~isDisposed => clientSocket \in accepted

\* Unless time ran out or another connection failed, a window fails for good only
\* when the server has forgotten it: no interleaving of late answers makes a loop that could
\* still succeed give up (the VSCODE_CONNECTION_ERROR of _runReconnectingLoop).
OnlyForgottenWindowsFail == permanentFailure => ~registered \/ gaveUp

\* Reconnecting does not feed on itself.  A late handshake of an abandoned socket
\* may take the server away from the new one, once: every fault costs at most the
\* attempt it causes and the one its late handshake causes, and saying goodbye at
\* most one more.
EachFaultCostsTwo == clientSocket <= 2 * faults + (IF didSendDisconnect THEN 2 ELSE 1)

Connected ==
    /\ loop = "idle" /\ ~isDisposed /\ open[clientSocket]
    /\ registered /\ serverSocket = clientSocket

\* Once the faults are over both ends agree on one socket for good, or the window
\* has failed or ended: no close event is lost while the loop looks elsewhere
\* (PersistentConnection._beginReconnecting drops the events of a running loop).
Settles == <>[](Connected \/ (loop = "idle" /\ isDisposed))

\* The server forgets a window that gave up or ended and closed its last socket,
\* even when a handshake of that window reaches it afterwards (ManagementConnection's
\* timers).  A window that opens one more socket is the matter of NoMoreAttempts.
Gone == isDisposed /\ loop \notin {"sleeping", "resolving"} /\ ~open[clientSocket]
NoOrphan == Gone ~> ~registered

\* "no more attempts!" (remoteAgentConnection.ts:643): a connection that failed for
\* good or was disposed opens no further socket.
NoMoreAttempts == [][permanentFailure \/ isDisposed => clientSocket' = clientSocket]_vars
=============================================================================
