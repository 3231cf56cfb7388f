----------------------- MODULE RemoteConnectionProofs -----------------------
(***************************************************************************)
(* Proofs about RemoteConnection for any number of sockets and of faults.  *)
(***************************************************************************)
EXTENDS RemoteConnection, FiniteSetTheorems, SequenceTheorems, TLAPS

FromWindow == {"auth", "connectionType", "Disconnect"}
FromServer == {"sign", "ok", "error"}

\* What the wires of a set of messages may become, and stay wires of that set.
LEMMA Wires ==
    ASSUME NEW S, NEW s \in Seq(S)
    PROVE  /\ << >> \in Seq(S)
           /\ \A m \in S : Append(s, m) \in Seq(S) /\ Append(s, m) # << >>
           /\ s # << >> => Head(s) \in S /\ Tail(s) \in Seq(S)
           /\ \A n \in 0 .. Len(s) : SubSeq(s, 1, n) \in Seq(S)
           /\ Len(s) \in Nat
           /\ s # << >> => Len(s) - 1 \in 0 .. Len(s)
  <1>1. << >> \in Seq(S) /\ Len(s) \in Nat
    BY EmptySeq, LenProperties
  <1>2. \A m \in S : Append(s, m) \in Seq(S) /\ Append(s, m) # << >>
    BY AppendProperties
  <1>3. s # << >> => Head(s) \in S /\ Tail(s) \in Seq(S)
    BY HeadTailProperties
  <1>4. \A n \in 0 .. Len(s) : SubSeq(s, 1, n) \in Seq(S)
    BY <1>1, SubSeqProperties
  <1>5. s # << >> => Len(s) - 1 \in 0 .. Len(s)
    BY <1>1, EmptySeq
  <1>6. QED
    BY <1>1, <1>2, <1>3, <1>4, <1>5

LEMMA WrittenType ==
    ASSUME NEW S, NEW w \in [Socket -> Seq(S)], NEW k \in Socket, NEW m \in S
    PROVE  Written(w, k, m) \in [Socket -> Seq(S)]
  BY AppendProperties DEF Written

LEMMA DisposeType ==
    TypeOK /\ DisposeConnection =>
      /\ isDisposed' \in BOOLEAN /\ didSendDisconnect' \in BOOLEAN
      /\ open' \in [Socket -> BOOLEAN]
      /\ toServer' \in [Socket -> Seq(FromWindow)]
      /\ toClient' \in [Socket -> Seq(FromServer)]
  <1> SUFFICES ASSUME TypeOK, DisposeConnection
               PROVE  /\ toServer' \in [Socket -> Seq(FromWindow)]
                      /\ toClient' \in [Socket -> Seq(FromServer)]
    BY DEF TypeOK, DisposeConnection
  <1>1. toServer \in [Socket -> Seq(FromWindow)] /\ clientSocket \in Socket
    BY DEF TypeOK, FromWindow
  <1>2. toClient \in [Socket -> Seq(FromServer)]
    BY DEF TypeOK, FromServer
  <1>3. Written(toServer, clientSocket, "Disconnect") \in [Socket -> Seq(FromWindow)]
    BY <1>1, WrittenType DEF FromWindow
  <1>4. << >> \in Seq(FromServer)
    BY EmptySeq
  <1>5. QED
    BY <1>1, <1>2, <1>3, <1>4 DEF DisposeConnection

LEMMA FailType ==
    TypeOK /\ PermanentFailure =>
      /\ permanentFailure' \in BOOLEAN /\ gaveUp' \in BOOLEAN
      /\ isDisposed' \in BOOLEAN /\ didSendDisconnect' \in BOOLEAN
      /\ open' \in [Socket -> BOOLEAN]
      /\ toServer' \in [Socket -> Seq(FromWindow)]
      /\ toClient' \in [Socket -> Seq(FromServer)]
  BY DisposeType DEF TypeOK, PermanentFailure, wireVars, FromWindow, FromServer

LEMMA TakeType ==
    TypeOK /\ TakeControl /\ control \o toClient[clientSocket] # << >> =>
      /\ control' \in Seq(FromServer)
      /\ toClient' \in [Socket -> Seq(FromServer)]
      /\ NextControl \in FromServer
  <1> SUFFICES ASSUME TypeOK, TakeControl, control \o toClient[clientSocket] # << >>
               PROVE  /\ control' \in Seq(FromServer)
                      /\ toClient' \in [Socket -> Seq(FromServer)]
                      /\ NextControl \in FromServer
    OBVIOUS
  <1>1. control \in Seq(FromServer) /\ toClient[clientSocket] \in Seq(FromServer)
    BY DEF TypeOK, FromServer
  <1>2. control \o toClient[clientSocket] \in Seq(FromServer)
    BY <1>1, ConcatProperties
  <1>3. NextControl \in FromServer
    BY <1>2, HeadTailProperties DEF NextControl
  <1>4. control = << >> => toClient[clientSocket] # << >>
    BY <1>1, ConcatEmptySeq
  <1>5. QED
    BY <1>1, <1>3, <1>4, HeadTailProperties, EmptySeq DEF TypeOK, TakeControl, FromServer

LEMMA OneMoreFault ==
    \A n \in 0 .. MaxFaults : n < MaxFaults => n + 1 \in 0 .. MaxFaults
  BY BoundsAssumption

LEMMA TypeInit == Init => TypeOK
  <1> SUFFICES ASSUME Init PROVE TypeOK
    OBVIOUS
  <1>1. 1 \in Socket /\ 0 \in 0 .. MaxFaults
    BY BoundsAssumption DEF Socket
  <1>2. << >> \in Seq({"sign", "ok", "error"})
    BY EmptySeq
  <1>3. toServer \in [Socket -> Seq({"auth", "connectionType", "Disconnect"})]
    BY EmptySeq DEF Init
  <1>4. toClient \in [Socket -> Seq({"sign", "ok", "error"})]
    BY EmptySeq DEF Init
  <1>5. QED
    BY <1>1, <1>2, <1>3, <1>4 DEF Init, TypeOK, Attempting

LEMMA TypeStep == TypeOK /\ [Next]_vars => TypeOK'
  <1> SUFFICES ASSUME TypeOK, [Next]_vars PROVE TypeOK'
    OBVIOUS
  <1> USE DEF Attempting, FromWindow, FromServer
  <1>1. CASE ClientHearsClose
    <2>1. CASE GoesOnFailing
      BY <1>1, <2>1, FailType DEF TypeOK, ClientHearsClose, GoesOnFailing, serverVars, graceVars
    <2>2. CASE ~GoesOnFailing
      BY <1>1, <2>2 DEF TypeOK, ClientHearsClose, BeginReconnecting, loopVars, serverVars, graceVars, wireVars
    <2>3. QED
      BY <2>1, <2>2
  <1>2. CASE SleepEnds
    <2>1. loop' \in {"idle", "resolving"}
      BY <1>2 DEF SleepEnds
    <2>2. QED
      BY <1>2, <2>1 DEF TypeOK, SleepEnds, clientVars, serverVars, graceVars, wireVars
  <1>3. CASE BeginAttempt
    <2>1. clientSocket + 1 \in Socket
      BY <1>3, BoundsAssumption DEF TypeOK, BeginAttempt, BeginAttemptOn, Socket
    <2>2. << >> \in Seq(FromServer) /\ <<"auth">> \in Seq(FromWindow)
      BY EmptySeq
    <2>3. /\ toServer' \in [Socket -> Seq(FromWindow)]
          /\ toClient' \in [Socket -> Seq(FromServer)]
          /\ open' \in [Socket -> BOOLEAN]
          /\ clientSocket' \in Socket /\ control' \in Seq(FromServer)
      BY <1>3, <2>1, <2>2 DEF TypeOK, BeginAttempt, BeginAttemptOn
    <2>4. QED
      BY <1>3, <2>3 DEF TypeOK, BeginAttempt, BeginAttemptOn, serverVars, graceVars
  <1>4. CASE AttemptFails
    <2>1. faults' \in 0 .. MaxFaults
      BY <1>4, OneMoreFault DEF TypeOK, AttemptFails, AttemptEnds
    <2>2. CASE GoesOnFailing
      BY <1>4, <2>1, <2>2, FailType DEF TypeOK, AttemptFails, AttemptEnds, GoesOnFailing, clientVars, serverVars, graceVars
    <2>3. CASE ~GoesOnFailing
      <3>1. loop' \in {"idle", "sleeping"}
        BY <1>4, <2>3 DEF AttemptFails, AttemptEnds
      <3>2. QED
        BY <1>4, <2>1, <2>3, <3>1 DEF TypeOK, AttemptFails, AttemptEnds, clientVars, serverVars, graceVars, wireVars
    <2>4. QED
      BY <2>2, <2>3
  <1>5. CASE ClientBuffers
    BY <1>5, Wires DEF TypeOK, ClientBuffers, loopVars, serverVars, graceVars
  <1>6. CASE ClientReadsSign
    BY <1>6, TakeType, WrittenType, ZenonT(40) DEF TypeOK, ClientReadsSign, serverVars, graceVars
  <1>7. CASE ClientReadsOk
    BY <1>7, TakeType DEF TypeOK, ClientReadsOk, serverVars, graceVars
  <1>8. CASE ClientIsRefused
    <2>1. CASE isDisposed
      BY <1>8, <2>1, TakeType DEF TypeOK, ClientIsRefused, serverVars, graceVars
    <2>2. CASE ~isDisposed
      <3>1. control' \in Seq(FromServer)
        BY <1>8, <2>2, EmptySeq DEF ClientIsRefused
      <3>2. QED
        BY <1>8, <2>2, <3>1, DisposeType DEF TypeOK, ClientIsRefused, serverVars, graceVars
    <2>3. QED
      BY <2>1, <2>2
  <1>9. CASE ClientTimesOut
    <2>1. faults' \in 0 .. MaxFaults
      BY <1>9, OneMoreFault DEF TypeOK, ClientTimesOut
    <2>2. CASE GoesOnFailing
      BY <1>9, <2>1, <2>2, FailType DEF TypeOK, ClientTimesOut, GoesOnFailing, clientVars, serverVars, graceVars
    <2>3. CASE ~GoesOnFailing
      BY <1>9, <2>1, <2>3 DEF TypeOK, ClientTimesOut, BeginReconnecting, loopVars, clientVars, serverVars, graceVars, wireVars
    <2>4. QED
      BY <2>2, <2>3
  <1>10. CASE OthersFail
    BY <1>10, FailType DEF TypeOK, OthersFail, clientVars, serverVars, graceVars
  <1>11. CASE EndConnection
    BY <1>11, WrittenType, ZenonT(40) DEF TypeOK, EndConnection, clientVars, serverVars, graceVars
  <1>12. CASE EndDisposes
    BY <1>12, DisposeType DEF TypeOK, EndDisposes, clientVars, serverVars, graceVars
  <1>13. ASSUME NEW k \in Socket, ServerReadsAuth(k) PROVE TypeOK'
    BY <1>13, WrittenType, Wires, ZenonT(40) DEF TypeOK, ServerReadsAuth, loopVars, clientVars, graceVars
  <1>14. ASSUME NEW k \in Socket, AcceptReconnection(k) PROVE TypeOK'
    BY <1>14, WrittenType, Wires DEF TypeOK, AcceptReconnection, MoveTo, AsksForType, loopVars, clientVars
  <1>15. ASSUME NEW k \in Socket, RejectConnection(k) PROVE TypeOK'
    BY <1>15, WrittenType, Wires, ZenonT(40) DEF TypeOK, RejectConnection, Refuse, AsksForType, loopVars, clientVars, graceVars
  <1>16. ASSUME NEW k \in Socket, HandshakeIgnores(k) PROVE TypeOK'
    BY <1>16, Wires DEF TypeOK, HandshakeIgnores, loopVars, clientVars, serverVars, graceVars
  <1>17. ASSUME NEW k \in Socket, Break(k) PROVE TypeOK'
    <2>1. toClient' \in [Socket -> Seq(FromServer)]
      BY <1>17, Wires DEF TypeOK, Break
    <2>2. open' \in [Socket -> BOOLEAN] /\ faults' \in 0 .. MaxFaults
      BY <1>17, OneMoreFault DEF TypeOK, Break
    <2>3. QED
      BY <1>17, <2>1, <2>2 DEF TypeOK, Break, loopVars, clientVars, serverVars, graceVars
  <1>18. ASSUME NEW k \in Socket, LoseTail(k) PROVE TypeOK'
    BY <1>18, Wires DEF TypeOK, LoseTail, loopVars, clientVars, serverVars, graceVars
  <1>19. CASE ServerReadsDisconnect
    BY <1>19, EmptySeq DEF TypeOK, ServerReadsDisconnect, CleanResources, loopVars, clientVars
  <1>20. CASE ServerHearsClose
    BY <1>20 DEF TypeOK, ServerHearsClose, ServerHearsCloseOf, loopVars, clientVars, wireVars
  <1>21. CASE AnotherClientConnects
    BY <1>21 DEF TypeOK, AnotherClientConnects, loopVars, clientVars, wireVars
  <1>22. CASE RunnerFires
    BY <1>22, EmptySeq DEF TypeOK, RunnerFires, CleanResources, loopVars, clientVars
  <1>23. CASE ServerRestarts
    <2>1. toServer' \in [Socket -> Seq(FromWindow)]
      BY <1>23, EmptySeq DEF ServerRestarts
    <2>2. open' \in [Socket -> BOOLEAN] /\ faults' \in 0 .. MaxFaults
      BY <1>23, OneMoreFault DEF TypeOK, ServerRestarts
    <2>3. QED
      BY <1>23, <2>1, <2>2 DEF TypeOK, ServerRestarts, loopVars, clientVars
  <1>24. CASE UNCHANGED vars
    BY <1>24 DEF TypeOK, vars, loopVars, clientVars, serverVars, graceVars, wireVars
  <1>25. QED
    BY <1>1, <1>2, <1>3, <1>4, <1>5, <1>6, <1>7, <1>8, <1>9, <1>10, <1>11, <1>12,
       <1>13, <1>14, <1>15, <1>16, <1>17, <1>18, <1>19, <1>20, <1>21, <1>22, <1>23, <1>24
       DEF Next, ClientLoop, ClientReads, ServerReads

\* The state of the window, the server and the wires is always well-formed.
THEOREM TypeCorrect == Spec => []TypeOK
  <1>1. QED
    BY TypeInit, TypeStep, PTL DEF Spec

---------------------------------------------------------------------------
(* The grace timers.  The server is never ahead of the window: what it is   *)
(* attached to, and whatever is on a wire, belongs to a socket the window   *)
(* has opened, so a new socket is not the one whose close set a timer.      *)

Fresh ==
    /\ serverSocket <= clientSocket
    /\ \A k \in Socket : k > clientSocket =>
         toServer[k] = << >> /\ toClient[k] = << >> /\ state[k] = "WaitingForAuth"

GraceInv == Fresh /\ GraceOnlyWhileClosed

\* The steps of the window that write at most on its own socket, and only close it.
LEMMA DisposeStays ==
    TypeOK /\ DisposeConnection =>
      /\ \A k \in Socket : open'[k] => open[k]
      /\ \A k \in Socket : k # clientSocket =>
            toServer'[k] = toServer[k] /\ toClient'[k] = toClient[k]
      /\ toClient'[clientSocket] = << >>
  BY DEF TypeOK, DisposeConnection, Written

LEMMA FailStays ==
    TypeOK /\ PermanentFailure =>
      /\ \A k \in Socket : open'[k] => open[k]
      /\ \A k \in Socket : k # clientSocket =>
            toServer'[k] = toServer[k] /\ toClient'[k] = toClient[k]
      /\ toClient'[clientSocket] \in {<< >>, toClient[clientSocket]}
  BY DisposeStays DEF PermanentFailure, wireVars

\* What every step of the window but BeginAttempt leaves alone.
ClientStays ==
    /\ UNCHANGED <<clientSocket, serverVars>>
    /\ \A k \in Socket : open'[k] => open[k]
    /\ \A k \in Socket : k # clientSocket =>
         toServer'[k] = toServer[k] /\ toClient'[k] = toClient[k]

ClientStep ==
    \/ ClientHearsClose \/ SleepEnds \/ AttemptFails \/ ClientReads \/ ClientTimesOut
    \/ OthersFail \/ EndConnection \/ EndDisposes

LEMMA ClientStepStays == TypeOK /\ ClientStep => ClientStays
  <1> SUFFICES ASSUME TypeOK, ClientStep PROVE ClientStays
    OBVIOUS
  <1> USE DEF ClientStays
  <1>1. CASE ClientHearsClose
    BY <1>1, FailStays DEF ClientHearsClose, BeginReconnecting, GoesOnFailing, wireVars
  <1>2. CASE SleepEnds
    BY <1>2 DEF SleepEnds, clientVars, wireVars
  <1>3. CASE AttemptFails
    BY <1>3, FailStays DEF AttemptFails, AttemptEnds, GoesOnFailing, clientVars, wireVars
  <1>4. CASE ClientBuffers
    BY <1>4 DEF ClientBuffers, TypeOK
  <1>5. CASE ClientReadsSign
    BY <1>5 DEF ClientReadsSign, TakeControl, Written, TypeOK
  <1>6. CASE ClientReadsOk
    BY <1>6 DEF ClientReadsOk, TakeControl, TypeOK
  <1>7. CASE ClientIsRefused
    BY <1>7, DisposeStays DEF ClientIsRefused, TakeControl, TypeOK
  <1>8. CASE ClientTimesOut
    BY <1>8, FailStays DEF ClientTimesOut, BeginReconnecting, GoesOnFailing, clientVars, wireVars
  <1>9. CASE OthersFail
    BY <1>9, FailStays DEF OthersFail, clientVars
  <1>10. CASE EndConnection
    BY <1>10 DEF EndConnection, clientVars, Written, TypeOK
  <1>11. CASE EndDisposes
    BY <1>11, DisposeStays DEF EndDisposes, clientVars
  <1>12. QED
    BY <1>1, <1>2, <1>3, <1>4, <1>5, <1>6, <1>7, <1>8, <1>9, <1>10, <1>11
       DEF ClientStep, ClientReads

LEMMA GraceStep == TypeOK /\ GraceInv /\ [Next]_vars => GraceInv'
  <1> SUFFICES ASSUME TypeOK, GraceInv, [Next]_vars PROVE GraceInv'
    OBVIOUS
  <1> USE DEF GraceInv, Fresh, GraceOnlyWhileClosed, Socket
  <1>0. clientSocket \in Nat /\ serverSocket \in Nat
    BY BoundsAssumption DEF TypeOK
  <1>1. CASE ClientStep
    <2>1. ClientStays
      BY <1>1, ClientStepStays
    <2>2. /\ UNCHANGED <<clientSocket, serverSocket, serverClosed, runner1, runner2, state>>
          /\ \A k \in Socket : open'[k] => open[k]
          /\ \A k \in Socket : k # clientSocket =>
               toServer'[k] = toServer[k] /\ toClient'[k] = toClient[k]
      BY <2>1 DEF ClientStays, serverVars, graceVars
    <2>3. serverSocket \in Socket /\ serverSocket' = serverSocket
      BY <2>2 DEF TypeOK
    <2>4. Fresh'
      BY <1>0, <2>2
    <2>5. GraceOnlyWhileClosed'
      BY <2>2, <2>3
    <2>6. QED
      BY <2>4, <2>5
  <1>2. CASE BeginAttempt
    BY <1>0, <1>2 DEF TypeOK, BeginAttempt, BeginAttemptOn, serverVars, graceVars
  <1>3. ASSUME NEW k \in Socket, ServerReadsAuth(k) PROVE GraceInv'
    <2>1. k <= clientSocket
      BY <1>0, <1>3 DEF ServerReadsAuth
    <2>2. QED
      BY <1>0, <1>3, <2>1 DEF TypeOK, ServerReadsAuth, Written, clientVars, graceVars
  <1>4. ASSUME NEW k \in Socket, AcceptReconnection(k) PROVE GraceInv'
    <2>1. k <= clientSocket
      BY <1>0, <1>4 DEF AcceptReconnection, AsksForType
    <2>2. QED
      BY <1>0, <1>4, <2>1 DEF TypeOK, AcceptReconnection, MoveTo, Written, clientVars
  <1>5. ASSUME NEW k \in Socket, RejectConnection(k) PROVE GraceInv'
    <2>1. k <= clientSocket
      BY <1>0, <1>5 DEF RejectConnection, Refuse, AsksForType
    <2>2. QED
      BY <1>0, <1>5, <2>1 DEF TypeOK, RejectConnection, Refuse, Written, clientVars, graceVars
  <1>6. ASSUME NEW k \in Socket, HandshakeIgnores(k) PROVE GraceInv'
    <2>1. k <= clientSocket
      BY <1>0, <1>6 DEF HandshakeIgnores
    <2>2. QED
      BY <1>0, <1>6, <2>1 DEF TypeOK, HandshakeIgnores, clientVars, serverVars, graceVars
  <1>7. ASSUME NEW k \in Socket, Break(k) PROVE GraceInv'
    <2>1. \A j \in Socket : toClient[j] = << >> => toClient'[j] = << >>
      BY <1>7 DEF TypeOK, Break
    <2>2. QED
      BY <1>0, <1>7, <2>1 DEF TypeOK, Break, clientVars, serverVars, graceVars
  <1>8. ASSUME NEW k \in Socket, LoseTail(k) PROVE GraceInv'
    <2>1. k <= clientSocket
      BY <1>0, <1>8 DEF LoseTail
    <2>2. QED
      BY <1>0, <1>8, <2>1 DEF TypeOK, LoseTail, clientVars, serverVars, graceVars
  <1>9. CASE ServerReadsDisconnect \/ RunnerFires
    BY <1>0, <1>9 DEF TypeOK, ServerReadsDisconnect, RunnerFires, CleanResources, clientVars
  <1>10. CASE ServerHearsClose \/ AnotherClientConnects
    BY <1>0, <1>10 DEF TypeOK, ServerHearsClose, ServerHearsCloseOf, AnotherClientConnects, clientVars, wireVars
  <1>11. CASE ServerRestarts
    BY <1>0, <1>11 DEF TypeOK, ServerRestarts, clientVars
  <1>12. CASE UNCHANGED vars
    BY <1>12 DEF vars, clientVars, serverVars, graceVars, wireVars
  <1>13. QED
    BY <1>1, <1>2, <1>3, <1>4, <1>5, <1>6, <1>7, <1>8, <1>9, <1>10, <1>11, <1>12
       DEF Next, ClientLoop, ClientStep, ServerReads

\* The server drops a window only while the socket it last accepted is closed: the
\* timers of an earlier disconnection never outlive acceptReconnection.
THEOREM GraceCorrect == Spec => []GraceOnlyWhileClosed
  <1>1. Init => GraceInv
    BY BoundsAssumption DEF Init, GraceInv, Fresh, GraceOnlyWhileClosed, Socket
  <1>2. Spec => []GraceInv
    BY <1>1, TypeInit, TypeStep, GraceStep, PTL DEF Spec
  <1>3. GraceInv => GraceOnlyWhileClosed
    BY DEF GraceInv
  <1>4. QED
    BY <1>2, <1>3, PTL

---------------------------------------------------------------------------
(* The handshake.  What is on a wire of an attempt is what that attempt     *)
(* caused: an "ok" was written by acceptReconnection of that socket, an     *)
(* error by a server that has forgotten the window, and an attempt finds    *)
(* no control message of an earlier one.                                    *)

MayAnswer(k) ==
    {"sign"} \cup (IF k \in accepted THEN {"ok"} ELSE {})
             \cup (IF registered THEN {} ELSE {"error"})

Answers == \A k \in Socket : toClient[k] \in Seq(MayAnswer(k))

InAuth ==
    /\ control = << >>
    /\ toServer[clientSocket] \in Seq({"auth", "Disconnect"})
    /\ toClient[clientSocket] \in Seq({"sign"})
    /\ Len(toClient[clientSocket]) <= 1
    /\ state[clientSocket] = "WaitingForAuth" => toClient[clientSocket] = << >>

InType ==
    /\ control = << >>
    /\ toClient[clientSocket] \in Seq({"ok", "error"})
    /\ state[clientSocket] # "WaitingForAuth"

HandshakeInv ==
    /\ Answers
    /\ loop = "auth" => InAuth
    /\ loop = "type" => InType
    /\ ConnectedIsAccepted
    /\ permanentFailure => isDisposed
    /\ OnlyForgottenWindowsFail

\* A server that forgets or accepts more may answer more.
LEMMA AnswersGrow ==
    ASSUME Answers, accepted \subseteq accepted', registered' => registered,
           \A k \in Socket : \/ toClient'[k] = toClient[k]
                             \/ toClient'[k] \in Seq(MayAnswer(k))
                             \/ toClient'[k] \in Seq(MayAnswer(k)')
    PROVE  Answers'
  <1>1. \A k : MayAnswer(k) \subseteq MayAnswer(k)'
    BY DEF MayAnswer
  <1>2. \A k : Seq(MayAnswer(k)) \subseteq Seq(MayAnswer(k)')
    BY <1>1, SeqMonotonic
  <1>3. QED
    BY <1>2 DEF Answers

\* A wire without its head, its tail or all of it is a wire of the same set.
LEMMA Shorter ==
    ASSUME NEW S, NEW s \in Seq(S), NEW t,
           \/ t = s \/ t = << >> \/ (s # << >> /\ t = Tail(s))
           \/ \E n \in 0 .. Len(s) : t = SubSeq(s, 1, n)
    PROVE  t \in Seq(S) /\ Len(t) <= Len(s)
  <1>1. CASE t = s
    BY <1>1, LenProperties
  <1>2. CASE t = << >>
    BY <1>2, EmptySeq, LenProperties
  <1>3. CASE s # << >> /\ t = Tail(s)
    BY <1>3, HeadTailProperties, LenProperties
  <1>4. CASE \E n \in 0 .. Len(s) : t = SubSeq(s, 1, n)
    BY <1>4, SubSeqProperties, LenProperties
  <1>5. QED
    BY <1>1, <1>2, <1>3, <1>4

LEMMA FailDisposes == TypeOK /\ PermanentFailure => isDisposed' /\ gaveUp'
  BY DEF TypeOK, PermanentFailure, DisposeConnection

\* A step that leaves the loop out of a handshake, or an idle loop disposed, or idle
\* as it was, keeps the invariant if it keeps what the wires say.
LEMMA Unattached ==
    ASSUME HandshakeInv, loop' \notin {"auth", "type"}, Answers',
           UNCHANGED <<clientSocket, accepted>>,
           loop' = "idle" => isDisposed' \/ (loop = "idle" /\ isDisposed' = isDisposed),
           permanentFailure' => isDisposed',
           permanentFailure' /\ ~gaveUp' =>
               (permanentFailure /\ ~gaveUp) \/ ~registered',
           registered' => registered
    PROVE  HandshakeInv'
  BY DEF HandshakeInv, ConnectedIsAccepted, OnlyForgottenWindowsFail

LEMMA WindowGivesUpStep ==
    ASSUME TypeOK, HandshakeInv, ClientHearsClose \/ ClientTimesOut \/ AttemptFails
    PROVE  HandshakeInv'
  <1>1. UNCHANGED <<clientSocket, control, serverVars>>
    BY DEF ClientHearsClose, ClientTimesOut, AttemptFails, AttemptEnds, clientVars
  <1>2. UNCHANGED <<accepted, registered, state>>
    BY <1>1 DEF serverVars, graceVars
  <1>3. \/ GivesUp /\ GoesOnFailing
        \/ UNCHANGED <<permanentFailure, gaveUp, isDisposed, wireVars>>
           /\ \/ loop' \in {"resolving", "sleeping"}
              \/ loop' = loop /\ loop # "idle"
              \/ loop' = "idle" /\ loop # "idle" /\ (isDisposed \/ permanentFailure)
    BY DEF ClientHearsClose, ClientTimesOut, AttemptFails, AttemptEnds, BeginReconnecting,
           loopVars, Attempting, TypeOK
  <1>4. PermanentFailure \/ UNCHANGED wireVars
    BY <1>3 DEF GoesOnFailing
  <1>5. \A k \in Socket : toClient'[k] \in {toClient[k], << >>}
    BY <1>4, FailStays DEF wireVars
  <1>6. Answers'
    BY <1>2, <1>5, EmptySeq, AnswersGrow DEF HandshakeInv
  <1>7. CASE GivesUp /\ GoesOnFailing
    BY <1>1, <1>2, <1>6, <1>7, FailDisposes, Unattached DEF GoesOnFailing
  <1>8. CASE ~(GivesUp /\ GoesOnFailing)
    <2>1. UNCHANGED <<permanentFailure, gaveUp, isDisposed, open, toServer, toClient>>
      BY <1>3, <1>8 DEF wireVars
    <2>2. CASE loop' = loop
      BY <1>1, <1>2, <1>6, <2>1, <2>2
         DEF HandshakeInv, InAuth, InType, ConnectedIsAccepted, OnlyForgottenWindowsFail
    <2>3. CASE loop' \in {"resolving", "sleeping"}
      BY <1>1, <1>2, <1>6, <2>1, <2>3, Unattached DEF HandshakeInv
    <2>4. CASE loop' = "idle" /\ (isDisposed \/ permanentFailure)
      BY <1>1, <1>2, <1>6, <2>1, <2>4, Unattached DEF HandshakeInv
    <2>5. QED
      BY <1>3, <1>8, <2>2, <2>3, <2>4
  <1>9. QED
    BY <1>7, <1>8

LEMMA WindowReadsStep ==
    ASSUME TypeOK, HandshakeInv, ClientReads \/ SleepEnds
    PROVE  HandshakeInv'
  <1>1. clientSocket \in Socket /\ control \in Seq(FromServer)
        /\ toClient[clientSocket] \in Seq(FromServer)
    BY DEF TypeOK, FromServer
  <1>2. CASE ClientBuffers
    <2>1. Answers'
      BY <1>2, Shorter, AnswersGrow
         DEF ClientBuffers, HandshakeInv, Answers, TypeOK, serverVars, graceVars
    <2>2. QED
      BY <1>2, <2>1, Unattached
         DEF ClientBuffers, HandshakeInv, loopVars, serverVars, graceVars
  <1>3. CASE SleepEnds
    <2>1. Answers'
      BY <1>3, AnswersGrow DEF SleepEnds, HandshakeInv, serverVars, graceVars, wireVars
    <2>2. QED
      BY <1>3, <2>1, Unattached
         DEF SleepEnds, HandshakeInv, clientVars, serverVars, graceVars
  <1>4. ASSUME ClientReadsSign \/ ClientReadsOk \/ ClientIsRefused
        PROVE  /\ control = << >> /\ toClient[clientSocket] # << >>
               /\ NextControl = Head(toClient[clientSocket])
               /\ \/ toClient' = [toClient EXCEPT ![clientSocket] = Tail(@)]
                  \/ toClient' = [toClient EXCEPT ![clientSocket] = << >>]
               /\ UNCHANGED <<clientSocket, accepted, registered, state>> /\ control' = << >>
    <2>1. control = << >> /\ control \o toClient[clientSocket] # << >>
      BY <1>4 DEF HandshakeInv, InAuth, InType, ClientReadsSign, ClientReadsOk, ClientIsRefused
    <2>2. control \o toClient[clientSocket] = toClient[clientSocket]
      BY <1>1, <2>1, ConcatEmptySeq
    <2>3. QED
      BY <1>4, <2>1, <2>2 DEF ClientReadsSign, ClientReadsOk, ClientIsRefused, TakeControl,
         DisposeConnection, NextControl, serverVars, graceVars
  <1>5. ASSUME ClientReadsSign \/ ClientReadsOk \/ ClientIsRefused PROVE Answers'
    <2>1. \A k \in Socket : \/ toClient'[k] = toClient[k]
                            \/ k = clientSocket /\ toClient'[k] \in {<< >>, Tail(toClient[k])}
      BY <1>4, <1>5 DEF TypeOK
    <2>2. toClient[clientSocket] \in Seq(MayAnswer(clientSocket))
      BY <1>1 DEF HandshakeInv, Answers
    <2>3. /\ << >> \in Seq(MayAnswer(clientSocket))
          /\ Tail(toClient[clientSocket]) \in Seq(MayAnswer(clientSocket))
      BY <1>4, <1>5, <2>2, HeadTailProperties, EmptySeq
    <2>4. QED
      <3>1. \A k \in Socket : toClient'[k] = toClient[k] \/ toClient'[k] \in Seq(MayAnswer(k))
        BY <2>1, <2>3
      <3>2. Answers /\ accepted \subseteq accepted' /\ (registered' => registered)
        BY <1>4, <1>5 DEF HandshakeInv
      <3>3. QED
        BY <3>1, <3>2, AnswersGrow
  <1>6. CASE ClientReadsSign
    <2> DEFINE s == toClient[clientSocket]
    <2>0. /\ s \in Seq({"sign"}) /\ Len(s) <= 1 /\ s # << >>
          /\ state[clientSocket] # "WaitingForAuth"
      BY <1>4, <1>6 DEF ClientReadsSign, HandshakeInv, InAuth
    <2> HIDE DEF s
    <2>1. Len(s) = 1
      <3>1. Len(s) \in Nat \ {0}
        BY <2>0, EmptySeq
      <3>2. \A n \in Nat \ {0} : n <= 1 => n = 1
        OBVIOUS
      <3>3. Len(s) <= 1
        BY <2>0
      <3>4. QED
        BY <3>1, <3>2, <3>3, Zenon
    <2>2. Tail(s) = << >>
      <3>1. Tail(s) \in Seq({"sign"}) /\ Len(Tail(s)) = 0
        BY <2>0, <2>1, HeadTailProperties
      <3>2. QED
        BY <3>1, EmptySeq
    <2>3. toClient'[clientSocket] = << >>
      BY <1>1, <1>4, <1>6, <2>2 DEF TypeOK, s
    <2>4. InType'
      BY <1>4, <1>6, <2>0, <2>3, EmptySeq DEF InType
    <2>5. QED
      BY <1>4, <1>5, <1>6, <2>4 DEF ClientReadsSign, HandshakeInv, ConnectedIsAccepted,
         OnlyForgottenWindowsFail
  <1>7. CASE ClientReadsOk
    <2>1. Head(toClient[clientSocket]) = "ok"
      <3>1. Head(toClient[clientSocket]) \in {"ok", "error"}
        BY <1>4, <1>7, HeadTailProperties DEF ClientReadsOk, HandshakeInv, InType
      <3>2. QED
        BY <1>4, <1>7, <3>1 DEF ClientReadsOk
    <2>2. Head(toClient[clientSocket]) \in MayAnswer(clientSocket)
      BY <1>1, <1>4, <1>7, HeadTailProperties DEF HandshakeInv, Answers
    <2>3. clientSocket \in accepted
      BY <2>1, <2>2 DEF MayAnswer
    <2>4. QED
      BY <1>4, <1>5, <1>7, <2>3 DEF ClientReadsOk, HandshakeInv, ConnectedIsAccepted,
         OnlyForgottenWindowsFail
  <1>8. CASE ClientIsRefused
    <2>1. Head(toClient[clientSocket]) = "error"
      <3>1. CASE loop = "auth"
        BY <1>4, <1>8, <3>1, HeadTailProperties DEF ClientIsRefused, HandshakeInv, InAuth
      <3>2. CASE loop = "type"
        BY <1>4, <1>8, <3>2 DEF ClientIsRefused
      <3>3. QED
        BY <1>8, <3>1, <3>2 DEF ClientIsRefused
    <2>2. Head(toClient[clientSocket]) \in MayAnswer(clientSocket)
      BY <1>1, <1>4, <1>8, HeadTailProperties DEF HandshakeInv, Answers
    <2>3. ~registered
      BY <2>1, <2>2 DEF MayAnswer
    <2>4. isDisposed'
      BY <1>8 DEF ClientIsRefused, DisposeConnection
    <2>5. loop' = "idle" /\ Answers' /\ registered' = registered
          /\ UNCHANGED <<clientSocket, accepted>>
      BY <1>4, <1>5, <1>8 DEF ClientIsRefused
    <2>6. QED
      BY <2>3, <2>4, <2>5, Unattached
  <1>9. QED
    BY <1>2, <1>3, <1>6, <1>7, <1>8 DEF ClientReads

\* The window is disposed, or says goodbye, wherever its loop is.
LEMMA WindowEndsStep ==
    ASSUME TypeOK, HandshakeInv, OthersFail \/ EndConnection \/ EndDisposes
    PROVE  HandshakeInv'
  <1>1. /\ UNCHANGED <<loop, clientSocket, control, state, accepted, registered>>
        /\ isDisposed => isDisposed'
    BY DEF OthersFail, EndConnection, EndDisposes, PermanentFailure, DisposeConnection,
           clientVars, serverVars, graceVars
  <1>2. \A k \in Socket : toClient'[k] \in {toClient[k], << >>}
    BY FailStays, DisposeStays DEF OthersFail, EndConnection, EndDisposes
  <1>3. Answers'
    BY <1>1, <1>2, EmptySeq, AnswersGrow DEF HandshakeInv
  <1>4. permanentFailure' => isDisposed'
    BY <1>1, FailDisposes DEF OthersFail, EndConnection, EndDisposes, HandshakeInv
  <1>5. OnlyForgottenWindowsFail'
    <2>1. gaveUp' \/ UNCHANGED <<permanentFailure, gaveUp, registered>>
      BY <1>1, FailDisposes DEF OthersFail, EndConnection, EndDisposes
    <2>2. QED
      BY <2>1 DEF HandshakeInv, OnlyForgottenWindowsFail
  <1>6. ASSUME loop = "auth" PROVE InAuth'
    <2> DEFINE S == {"auth", "Disconnect"}
    <2>1. toServer[clientSocket] \in Seq(S) /\ "Disconnect" \in S /\ clientSocket \in Socket
      BY <1>6 DEF HandshakeInv, InAuth, TypeOK
    <2>2. Append(toServer[clientSocket], "Disconnect") \in Seq(S)
      BY <2>1, AppendProperties
    <2>3. toServer'[clientSocket]
            \in {toServer[clientSocket], Append(toServer[clientSocket], "Disconnect")}
      BY DEF TypeOK, OthersFail, EndConnection, EndDisposes, PermanentFailure,
             DisposeConnection, Written, wireVars
    <2>4. toClient'[clientSocket] \in {toClient[clientSocket], << >>}
      BY <1>2, <2>1
    <2>5. /\ toClient[clientSocket] \in Seq({"sign"})
          /\ Len(toClient[clientSocket]) <= 1
      BY <1>6 DEF HandshakeInv, InAuth
    <2>6. << >> \in Seq({"sign"}) /\ Len(<< >>) <= 1
      BY EmptySeq
    <2>7. /\ toClient'[clientSocket] \in Seq({"sign"})
          /\ Len(toClient'[clientSocket]) <= 1
      BY <2>4, <2>5, <2>6
    <2>8. QED
      BY <1>1, <1>6, <2>1, <2>2, <2>3, <2>4, <2>7 DEF HandshakeInv, InAuth
  <1>7. ASSUME loop = "type" PROVE InType'
    <2>1. toClient'[clientSocket] \in {toClient[clientSocket], << >>}
      BY <1>2 DEF TypeOK
    <2>2. QED
      BY <1>1, <1>7, <2>1, EmptySeq DEF HandshakeInv, InType
  <1>8. QED
    BY <1>1, <1>3, <1>4, <1>5, <1>6, <1>7 DEF HandshakeInv, ConnectedIsAccepted

LEMMA BeginAttemptStep ==
    ASSUME TypeOK, GraceInv, HandshakeInv, BeginAttempt
    PROVE  HandshakeInv'
  <1> DEFINE k == clientSocket + 1
  <1>1. clientSocket \in Nat /\ k \in Socket /\ k > clientSocket /\ clientSocket \in Socket
    BY BoundsAssumption DEF TypeOK, BeginAttempt, BeginAttemptOn, Socket
  <1>2. toClient[k] = << >> /\ state[k] = "WaitingForAuth"
    BY <1>1 DEF GraceInv, Fresh
  <1>3. /\ UNCHANGED <<permanentFailure, gaveUp, isDisposed, state, accepted, registered>>
        /\ loop' = "auth" /\ clientSocket' = k /\ control' = << >>
        /\ toServer'[k] = <<"auth">> /\ toClient'[k] = << >>
        /\ \A j \in Socket : toClient'[j] \in {toClient[j], << >>}
    BY <1>1, <1>2 DEF BeginAttempt, BeginAttemptOn, serverVars, graceVars, TypeOK
  <1>4. Answers'
    BY <1>3, EmptySeq, AnswersGrow DEF HandshakeInv
  <1>5. << >> \in Seq({"sign"}) /\ Len(<< >>) <= 1
    BY EmptySeq
  <1>6. InAuth'
    BY <1>2, <1>3, <1>5 DEF InAuth
  <1>7. QED
    BY <1>3, <1>4, <1>6 DEF HandshakeInv, ConnectedIsAccepted, OnlyForgottenWindowsFail

\* What a step of the server or of the network keeps, if the attempt's wires allow.
LEMMA Served ==
    ASSUME HandshakeInv, UNCHANGED <<loop, clientSocket, control, permanentFailure, gaveUp, isDisposed>>,
           accepted \subseteq accepted', registered' => registered, Answers',
           loop = "auth" => InAuth', loop = "type" => InType'
    PROVE  HandshakeInv'
  BY DEF HandshakeInv, ConnectedIsAccepted, OnlyForgottenWindowsFail

LEMMA WrittenAnswers ==
    ASSUME TypeOK, Answers, NEW k \in Socket, NEW m \in MayAnswer(k)',
           accepted \subseteq accepted', registered' => registered,
           toClient' = Written(toClient, k, m)
    PROVE  Answers'
  <1>1. \A j \in Socket : j # k => toClient'[j] = toClient[j]
    BY DEF Written, TypeOK
  <1>2. toClient'[k] \in {toClient[k], Append(toClient[k], m)}
    BY DEF Written, TypeOK
  <1>3. MayAnswer(k) \subseteq MayAnswer(k)'
    BY DEF MayAnswer
  <1>4. toClient[k] \in Seq(MayAnswer(k)')
    BY <1>3, SeqMonotonic DEF Answers
  <1>5. Append(toClient[k], m) \in Seq(MayAnswer(k)')
    BY <1>4, AppendProperties
  <1>6. \A j \in Socket : toClient'[j] = toClient[j] \/ toClient'[j] \in Seq(MayAnswer(j)')
    BY <1>1, <1>2, <1>4, <1>5
  <1>7. QED
    BY <1>6, AnswersGrow

LEMMA ServerAuthStep ==
    ASSUME TypeOK, HandshakeInv, NEW k \in Socket, ServerReadsAuth(k)
    PROVE  HandshakeInv'
  <1>1. /\ UNCHANGED <<loop, clientSocket, control, permanentFailure, gaveUp, isDisposed, accepted, registered>>
        /\ clientSocket \in Socket
        /\ state' = [state EXCEPT ![k] = "WaitingForConnectionType"]
        /\ toServer' = [toServer EXCEPT ![k] = Tail(@)] /\ toServer[k] # << >>
        /\ toClient' = Written(toClient, k, "sign") /\ state[k] = "WaitingForAuth"
    BY DEF ServerReadsAuth, loopVars, clientVars, graceVars, TypeOK
  <1>2. Answers'
    <2>1. "sign" \in MayAnswer(k)'
      BY DEF MayAnswer
    <2>2. QED
      BY <1>1, <2>1, WrittenAnswers DEF HandshakeInv
  <1>3. ASSUME clientSocket # k
        PROVE  /\ toServer'[clientSocket] = toServer[clientSocket]
               /\ toClient'[clientSocket] = toClient[clientSocket]
               /\ state'[clientSocket] = state[clientSocket]
    BY <1>1, <1>3 DEF Written, TypeOK
  <1>4. ASSUME loop = "auth" PROVE InAuth'
    <2>1. CASE clientSocket # k
      BY <1>1, <1>3, <1>4, <2>1 DEF HandshakeInv, InAuth
    <2>2. CASE clientSocket = k
      <3>1. toServer[k] \in Seq({"auth", "Disconnect"}) /\ toClient[k] = << >>
        BY <1>1, <1>4, <2>2 DEF HandshakeInv, InAuth
      <3>2. toServer'[k] \in Seq({"auth", "Disconnect"})
        BY <1>1, <3>1, HeadTailProperties DEF TypeOK
      <3>3. toClient'[k] \in {<< >>, <<"sign">>}
        BY <1>1, <3>1 DEF Written, TypeOK
      <3>4. /\ << >> \in Seq({"sign"}) /\ Len(<< >>) <= 1
            /\ <<"sign">> \in Seq({"sign"}) /\ Len(<<"sign">>) <= 1
        BY EmptySeq
      <3>5. state'[k] # "WaitingForAuth"
        BY <1>1 DEF TypeOK
      <3>6. QED
        BY <1>1, <1>4, <2>2, <3>2, <3>3, <3>4, <3>5 DEF HandshakeInv, InAuth
    <2>3. QED
      BY <2>1, <2>2
  <1>5. ASSUME loop = "type" PROVE InType'
    <2>1. clientSocket # k
      BY <1>1, <1>5 DEF HandshakeInv, InType
    <2>2. QED
      BY <1>1, <1>3, <1>5, <2>1 DEF HandshakeInv, InType
  <1>6. QED
    BY <1>1, <1>2, <1>4, <1>5, Served

LEMMA ServerTypeStep ==
    ASSUME TypeOK, HandshakeInv, NEW k \in Socket,
           AcceptReconnection(k) \/ RejectConnection(k)
    PROVE  HandshakeInv'
  <1>1. /\ UNCHANGED <<loop, clientSocket, control, permanentFailure, gaveUp, isDisposed, registered>>
        /\ clientSocket \in Socket /\ serverSocket \in Socket
        /\ accepted \subseteq accepted' /\ AsksForType(k)
        /\ state' \in {[state EXCEPT ![k] = "Done"], [state EXCEPT ![k] = "Error"]}
    BY DEF AcceptReconnection, RejectConnection, MoveTo, Refuse, loopVars, clientVars,
           graceVars, TypeOK
  <1>2. \E m \in {"ok", "error"} :
          m \in MayAnswer(k)' /\ toClient' = Written(toClient, k, m)
    <2>1. CASE AcceptReconnection(k)
      <3>1. "ok" \in MayAnswer(k)'
        BY <2>1 DEF MayAnswer, AcceptReconnection, MoveTo
      <3>2. QED
        BY <2>1, <3>1 DEF AcceptReconnection, MoveTo
    <2>2. CASE RejectConnection(k)
      <3>1. "error" \in MayAnswer(k)'
        BY <2>2 DEF MayAnswer, RejectConnection, Refuse, graceVars
      <3>2. QED
        BY <2>2, <3>1 DEF RejectConnection, Refuse
    <2>3. QED
      BY <2>1, <2>2
  <1>3. Answers'
    BY <1>1, <1>2, WrittenAnswers DEF HandshakeInv
  <1>4. \A j \in Socket : j # k =>
          /\ toServer'[j] \in {toServer[j], << >>}
          /\ toClient'[j] = toClient[j] /\ state'[j] = state[j]
    BY <1>1, <1>2 DEF AcceptReconnection, RejectConnection, MoveTo, Refuse, Written, TypeOK
  <1>5. ASSUME loop = "auth" PROVE InAuth'
    <2>1. toServer[clientSocket] \in Seq({"auth", "Disconnect"})
      BY <1>5 DEF HandshakeInv, InAuth
    <2>2. clientSocket # k
      BY <1>1, <2>1, HeadTailProperties DEF AsksForType
    <2>3. QED
      BY <1>1, <1>4, <1>5, <2>1, <2>2, EmptySeq DEF HandshakeInv, InAuth
  <1>6. ASSUME loop = "type" PROVE InType'
    <2>1. CASE clientSocket # k
      BY <1>1, <1>4, <1>6, <2>1 DEF HandshakeInv, InType
    <2>2. CASE clientSocket = k
      <3>1. toClient[k] \in Seq({"ok", "error"})
        BY <1>6, <2>2 DEF HandshakeInv, InType
      <3>2. PICK m \in {"ok", "error"} : toClient' = Written(toClient, k, m)
        BY <1>2
      <3>3. toClient'[k] = IF open[k] THEN Append(toClient[k], m) ELSE toClient[k]
        BY <3>2, SMTT(30) DEF Written, TypeOK
      <3>4. toClient'[k] \in Seq({"ok", "error"})
        BY <3>1, <3>3, AppendProperties
      <3>5. state'[k] # "WaitingForAuth"
        BY <1>1 DEF TypeOK
      <3>6. QED
        BY <1>1, <1>6, <2>2, <3>4, <3>5 DEF HandshakeInv, InType
    <2>3. QED
      BY <2>1, <2>2
  <1>7. QED
    BY <1>1, <1>3, <1>5, <1>6, Served

\* What is left of the wire s when messages were taken from either end of it.
PartsOf(s) ==
    {s, << >>} \cup (IF s = << >> THEN {} ELSE {Tail(s)})
               \cup {SubSeq(s, 1, n) : n \in 0 .. Len(s)}

LEMMA Parts ==
    ASSUME NEW S, NEW s \in Seq(S)
    PROVE  /\ s \in PartsOf(s) /\ << >> \in PartsOf(s)
           /\ s # << >> => Tail(s) \in PartsOf(s)
           /\ \A n \in 0 .. Len(s) : SubSeq(s, 1, n) \in PartsOf(s)
  BY DEF PartsOf

LEMMA PartsShorter ==
    ASSUME NEW S, NEW s \in Seq(S), NEW t \in PartsOf(s)
    PROVE  t \in Seq(S) /\ Len(t) <= Len(s)
  <1>1. t \in {s, << >>} \/ (s # << >> /\ t \in {Tail(s)})
        \/ t \in {SubSeq(s, 1, n) : n \in 0 .. Len(s)}
    BY Zenon DEF PartsOf
  <1>2. CASE t \in {SubSeq(s, 1, n) : n \in 0 .. Len(s)}
    <2>1. \E n \in 0 .. Len(s) : t = SubSeq(s, 1, n)
      BY <1>2, Zenon
    <2>2. QED
      BY <2>1, Shorter
  <1>3. CASE t \in {s, << >>}
    <2>1. CASE t = s
      BY <2>1, LenProperties
    <2>2. CASE t = << >>
      BY <2>2, EmptySeq, LenProperties
    <2>3. QED
      BY <1>3, <2>1, <2>2
  <1>4. CASE s # << >> /\ t \in {Tail(s)}
    BY <1>4, Shorter
  <1>5. QED
    BY <1>1, <1>2, <1>3, <1>4

LEMMA SamePart == \A s : s \in PartsOf(s) /\ << >> \in PartsOf(s)
  BY DEF PartsOf

\* A step that only takes messages from the wires, and makes the server forget.
LEMMA TakingStep ==
    ASSUME TypeOK, HandshakeInv, registered' => registered,
           UNCHANGED <<loop, clientSocket, control, permanentFailure, gaveUp, isDisposed, state, accepted>>,
           \A j \in Socket : toServer'[j] \in PartsOf(toServer[j]),
           \A j \in Socket : toClient'[j] \in PartsOf(toClient[j])
    PROVE  HandshakeInv'
  <1>1. clientSocket \in Socket /\ Len(toClient[clientSocket]) \in Nat
    BY LenProperties DEF TypeOK
  <1>2. \A j \in Socket : toClient'[j] \in Seq(MayAnswer(j))
    BY PartsShorter DEF HandshakeInv, Answers
  <1>3. Answers'
    BY <1>2, AnswersGrow DEF HandshakeInv
  <1>4. ASSUME loop = "auth" PROVE InAuth'
    <2> DEFINE s == toClient[clientSocket]
               t == toClient'[clientSocket]
    <2>1. /\ s \in Seq({"sign"}) /\ Len(s) <= 1 /\ t \in PartsOf(s)
          /\ toServer[clientSocket] \in Seq({"auth", "Disconnect"})
      BY <1>1, <1>4 DEF HandshakeInv, InAuth
    <2>2. toServer'[clientSocket] \in Seq({"auth", "Disconnect"})
      BY <1>1, <2>1, PartsShorter
    <2> HIDE DEF s, t
    <2>3. t \in Seq({"sign"}) /\ Len(t) <= Len(s)
      BY <2>1, PartsShorter
    <2>4. Len(t) <= 1
      <3>1. Len(s) \in Nat /\ Len(t) \in Nat
        BY <2>1, <2>3, LenProperties
      <3>2. \A a, b \in Nat : a <= b /\ b <= 1 => a <= 1
        OBVIOUS
      <3>3. QED
        BY <2>1, <2>3, <3>1, <3>2, Zenon
    <2>5. s = << >> => t = << >>
      <3>1. ASSUME s = << >>, t # << >> PROVE FALSE
        <4>1. Len(t) \in Nat \ {0} /\ Len(s) = 0
          BY <2>3, <3>1, EmptySeq
        <4>2. \A a \in Nat \ {0} : ~(a <= 0)
          OBVIOUS
        <4>3. QED
          BY <2>3, <4>1, <4>2, Zenon
      <3>2. QED
        BY <3>1
    <2>6. state'[clientSocket] = "WaitingForAuth" => t = << >>
      BY <1>4, <2>5 DEF HandshakeInv, InAuth, s
    <2>7. QED
      BY <1>4, <2>2, <2>3, <2>4, <2>6 DEF HandshakeInv, InAuth, t
  <1>5. ASSUME loop = "type" PROVE InType'
    <2>1. toClient[clientSocket] \in Seq({"ok", "error"})
      BY <1>5 DEF HandshakeInv, InType
    <2>2. toClient'[clientSocket] \in Seq({"ok", "error"})
      BY <1>1, <2>1, PartsShorter
    <2>3. QED
      BY <1>5, <2>2 DEF HandshakeInv, InType
  <1>6. QED
    BY <1>3, <1>4, <1>5, Served

LEMMA OtherStep ==
    ASSUME TypeOK, HandshakeInv,
           \/ \E k \in Socket : HandshakeIgnores(k) \/ Break(k) \/ LoseTail(k)
           \/ ServerReadsDisconnect \/ RunnerFires \/ ServerRestarts
           \/ ServerHearsClose \/ AnotherClientConnects \/ UNCHANGED vars
    PROVE  HandshakeInv'
  <1>1. ASSUME NEW k \in Socket, HandshakeIgnores(k) PROVE HandshakeInv'
    <2>1. UNCHANGED <<loop, clientSocket, control, permanentFailure, gaveUp, isDisposed, state, accepted>>
          /\ (registered' => registered)
      BY <1>1 DEF HandshakeIgnores, loopVars, clientVars, serverVars, graceVars, vars
    <2>2. \A j \in Socket : toServer'[j] \in PartsOf(toServer[j])
      BY <1>1, Parts DEF HandshakeIgnores, TypeOK
    <2>3. \A j \in Socket : toClient'[j] \in PartsOf(toClient[j])
      BY <1>1, SamePart DEF HandshakeIgnores
    <2>4. QED
      BY <2>1, <2>2, <2>3, TakingStep
  <1>2. ASSUME NEW k \in Socket, Break(k) PROVE HandshakeInv'
    <2>1. UNCHANGED <<loop, clientSocket, control, permanentFailure, gaveUp, isDisposed, state, accepted>>
          /\ (registered' => registered)
      BY <1>2 DEF Break, loopVars, clientVars, serverVars, graceVars, vars
    <2>2. \A j \in Socket : toServer'[j] \in PartsOf(toServer[j])
      BY <1>2, SamePart DEF Break
    <2>3. \A j \in Socket : toClient'[j] \in PartsOf(toClient[j])
      BY <1>2, Parts DEF Break, TypeOK
    <2>4. QED
      BY <2>1, <2>2, <2>3, TakingStep
  <1>3. ASSUME NEW k \in Socket, LoseTail(k) PROVE HandshakeInv'
    <2>1. UNCHANGED <<loop, clientSocket, control, permanentFailure, gaveUp, isDisposed, state, accepted>>
          /\ (registered' => registered)
      BY <1>3 DEF LoseTail, loopVars, clientVars, serverVars, graceVars, vars
    <2>2. \A j \in Socket : toServer'[j] \in PartsOf(toServer[j])
      <3>1. Len(toServer[k]) - 1 \in 0 .. Len(toServer[k])
        BY <1>3, Wires DEF LoseTail, TypeOK
      <3>2. QED
        BY <1>3, <3>1, Parts DEF LoseTail, TypeOK
    <2>3. \A j \in Socket : toClient'[j] \in PartsOf(toClient[j])
      BY <1>3, SamePart DEF LoseTail
    <2>4. QED
      BY <2>1, <2>2, <2>3, TakingStep
  <1>4. CASE ServerReadsDisconnect \/ RunnerFires
    <2>1. UNCHANGED <<loop, clientSocket, control, permanentFailure, gaveUp, isDisposed, state, accepted>>
          /\ (registered' => registered)
      BY <1>4 DEF ServerReadsDisconnect, RunnerFires, CleanResources, loopVars, clientVars, serverVars, graceVars, vars
    <2>2. \A j \in Socket : toServer'[j] \in PartsOf(toServer[j])
      BY <1>4, Parts DEF ServerReadsDisconnect, RunnerFires, CleanResources, TypeOK
    <2>3. \A j \in Socket : toClient'[j] \in PartsOf(toClient[j])
      BY <1>4, SamePart DEF ServerReadsDisconnect, RunnerFires, CleanResources
    <2>4. QED
      BY <2>1, <2>2, <2>3, TakingStep
  <1>5. CASE ServerRestarts
    <2>1. UNCHANGED <<loop, clientSocket, control, permanentFailure, gaveUp, isDisposed, state, accepted>>
          /\ (registered' => registered)
      BY <1>5 DEF ServerRestarts, loopVars, clientVars, serverVars, graceVars, vars
    <2>2. \A j \in Socket : toServer'[j] \in PartsOf(toServer[j])
      BY <1>5, SamePart DEF ServerRestarts
    <2>3. \A j \in Socket : toClient'[j] \in PartsOf(toClient[j])
      BY <1>5, SamePart DEF ServerRestarts
    <2>4. QED
      BY <2>1, <2>2, <2>3, TakingStep
  <1>6. CASE ServerHearsClose \/ AnotherClientConnects
    <2>1. UNCHANGED <<loop, clientSocket, control, permanentFailure, gaveUp, isDisposed, state, accepted>>
          /\ (registered' => registered)
      BY <1>6 DEF ServerHearsClose, ServerHearsCloseOf, AnotherClientConnects, loopVars, clientVars, serverVars, graceVars, vars
    <2>2. \A j \in Socket : toServer'[j] \in PartsOf(toServer[j])
      BY <1>6, SamePart DEF ServerHearsClose, ServerHearsCloseOf, AnotherClientConnects, wireVars
    <2>3. \A j \in Socket : toClient'[j] \in PartsOf(toClient[j])
      BY <1>6, SamePart DEF ServerHearsClose, ServerHearsCloseOf, AnotherClientConnects, wireVars
    <2>4. QED
      BY <2>1, <2>2, <2>3, TakingStep
  <1>7. CASE UNCHANGED vars
    <2>1. UNCHANGED <<loop, clientSocket, control, permanentFailure, gaveUp, isDisposed, state, accepted>>
          /\ (registered' => registered)
      BY <1>7 DEF vars, loopVars, clientVars, serverVars, graceVars
    <2>2. \A j \in Socket : toServer'[j] \in PartsOf(toServer[j])
      BY <1>7, SamePart DEF vars, wireVars
    <2>3. \A j \in Socket : toClient'[j] \in PartsOf(toClient[j])
      BY <1>7, SamePart DEF vars, wireVars
    <2>4. QED
      BY <2>1, <2>2, <2>3, TakingStep
  <1>8. QED
    BY <1>1, <1>2, <1>3, <1>4, <1>5, <1>6, <1>7

LEMMA HandshakeInit == Init => HandshakeInv
  <1> SUFFICES ASSUME Init PROVE HandshakeInv
    OBVIOUS
  <1>1. Answers
    BY EmptySeq DEF Init, Answers
  <1>2. QED
    BY <1>1 DEF Init, HandshakeInv, ConnectedIsAccepted, OnlyForgottenWindowsFail

LEMMA HandshakeStep ==
    TypeOK /\ GraceInv /\ HandshakeInv /\ [Next]_vars => HandshakeInv'
  BY WindowGivesUpStep, WindowReadsStep, WindowEndsStep, BeginAttemptStep, ServerAuthStep,
     ServerTypeStep, OtherStep DEF Next, ClientLoop, ServerReads

LEMMA HandshakeCorrect == Spec => []HandshakeInv
  <1>1. Init => GraceInv
    BY BoundsAssumption DEF Init, GraceInv, Fresh, GraceOnlyWhileClosed, Socket
  <1>2. QED
    BY <1>1, TypeInit, TypeStep, GraceStep, HandshakeInit, HandshakeStep, PTL DEF Spec

\* A window that believes it is connected was accepted by the server on the socket it
\* uses, whatever late answers earlier attempts still receive.
THEOREM ConnectedCorrect == Spec => []ConnectedIsAccepted
  <1>1. HandshakeInv => ConnectedIsAccepted
    BY DEF HandshakeInv
  <1>2. QED
    BY <1>1, HandshakeCorrect, PTL

\* A window fails for good only when the server has forgotten it, unless its time ran
\* out or another connection of it failed.
THEOREM FailureCorrect == Spec => []OnlyForgottenWindowsFail
  <1>1. HandshakeInv => OnlyForgottenWindowsFail
    BY DEF HandshakeInv
  <1>2. QED
    BY <1>1, HandshakeCorrect, PTL

---------------------------------------------------------------------------
(* What a fault costs.  A socket was paid for by the fault that made the    *)
(* window look for it, or by the fault that left behind the handshake which *)
(* takes the server away from it.  The invariant counts the sockets that    *)
(* are still to come: one if the loop will make another attempt, and one    *)
(* for every abandoned socket whose request may reach the server late.      *)

\* A wire that carries m, and one that carries it once at most.
Holds(s, m) == \E n \in 1 .. Len(s) : s[n] = m
Once(s, m) == \A i, n \in 1 .. Len(s) : s[i] = m /\ s[n] = m => i = n

\* A request travels once on a socket, and comes before what the server answers
\* to it; a server that is done with a socket was asked, and is asked no more.
Exchange ==
    /\ serverSocket \in accepted
    /\ \A k \in accepted : state[k] = "Done"
    /\ \A k \in Socket : Once(toServer[k], "connectionType")
    /\ \A k \in Socket : Holds(toServer[k], "connectionType") => state[k] \notin {"Done", "Error"}
    /\ \A k \in Socket : Holds(toServer[k], "Disconnect") => didSendDisconnect
    /\ loop = "auth" => state[clientSocket] \notin {"Done", "Error"}
    /\ loop = "type" => toClient[clientSocket] \in {<< >>, <<"ok">>, <<"error">>}
    /\ loop = "type" /\ Holds(toServer[clientSocket], "connectionType") => toClient[clientSocket] = << >>

\* The loop will make another attempt: it waits for it, or its socket was lost to
\* anything but the refusal that it will read.
Between == loop \in {"sleeping", "resolving"}
Lost == ~open[clientSocket] /\ ~(loop = "type" /\ toClient[clientSocket] = <<"error">>)
WillRetry == Between \/ (~isDisposed /\ Lost)
ToCome == IF WillRetry THEN 1 ELSE 0

\* The sockets whose handshake may still take the server away from a later one.
Astray(k) == k # clientSocket \/ ~open[k] \/ Between
Late == {k \in Socket : ~isDisposed /\ Astray(k) /\ Holds(toServer[k], "connectionType")}

Paid == 2 * faults + (IF didSendDisconnect /\ ~registered THEN 2 ELSE 1)
CostInv == clientSocket + ToCome + Cardinality(Late) <= Paid

LEMMA HoldsAppend ==
    ASSUME NEW S, NEW s \in Seq(S), NEW x \in S, NEW m
    PROVE  /\ Holds(Append(s, x), m) => Holds(s, m) \/ x = m
           /\ Once(s, m) /\ (x # m \/ ~Holds(s, m)) => Once(Append(s, x), m)
  <1> DEFINE t == Append(s, x)
  <1>1. /\ Len(s) \in Nat /\ Len(t) = Len(s) + 1 /\ t[Len(s) + 1] = x
        /\ \A n \in 1 .. Len(s) : t[n] = s[n]
    BY AppendProperties, LenProperties
  <1> HIDE DEF t
  <1>2. \A n \in 1 .. Len(t) : n \in 1 .. Len(s) \/ n = Len(s) + 1
    BY <1>1
  <1>3. Holds(t, m) => Holds(s, m) \/ x = m
    BY <1>1, <1>2 DEF Holds
  <1>4. ASSUME Once(s, m), x # m \/ ~Holds(s, m) PROVE Once(t, m)
    <2> SUFFICES ASSUME NEW i \in 1 .. Len(t), NEW n \in 1 .. Len(t), t[i] = m, t[n] = m
                 PROVE  i = n
      BY DEF Once
    <2>1. CASE i \in 1 .. Len(s) /\ n \in 1 .. Len(s)
      BY <1>1, <1>4, <2>1 DEF Once
    <2>2. CASE i = Len(s) + 1 /\ n = Len(s) + 1
      BY <2>2
    <2>3. CASE i = Len(s) + 1 /\ n \in 1 .. Len(s)
      BY <1>1, <1>4, <2>3 DEF Holds
    <2>4. CASE n = Len(s) + 1 /\ i \in 1 .. Len(s)
      BY <1>1, <1>4, <2>4 DEF Holds
    <2>5. QED
      BY <1>2, <2>1, <2>2, <2>3, <2>4
  <1>5. QED
    BY <1>3, <1>4 DEF t

LEMMA HoldsTail ==
    ASSUME NEW S, NEW s \in Seq(S), s # << >>, NEW m
    PROVE  /\ Holds(Tail(s), m) => Holds(s, m)
           /\ Once(s, m) => Once(Tail(s), m)
           /\ Head(s) = m => Holds(s, m) /\ (Once(s, m) => ~Holds(Tail(s), m))
  <1> DEFINE t == Tail(s)
  <1>1. /\ Len(s) \in Nat \ {0} /\ Len(t) = Len(s) - 1 /\ Head(s) = s[1]
        /\ \A n \in 1 .. Len(t) : t[n] = s[n + 1] /\ n + 1 \in 1 .. Len(s)
    BY HeadTailProperties, LenProperties, EmptySeq
  <1> HIDE DEF t
  <1>2. Holds(t, m) => Holds(s, m)
    BY <1>1 DEF Holds
  <1>3. Once(s, m) => Once(t, m)
    BY <1>1 DEF Once
  <1>4. ASSUME Head(s) = m, Once(s, m) PROVE ~Holds(t, m)
    <2> SUFFICES ASSUME NEW n \in 1 .. Len(t), t[n] = m PROVE FALSE
      BY DEF Holds
    <2>1. s[n + 1] = m /\ s[1] = m /\ 1 \in 1 .. Len(s) /\ n + 1 \in 1 .. Len(s)
      BY <1>1, <1>4
    <2>2. n + 1 = 1
      BY <1>4, <2>1 DEF Once
    <2>3. QED
      BY <1>1, <2>2
  <1>5. Head(s) = m => Holds(s, m)
    BY <1>1 DEF Holds
  <1>6. QED
    BY <1>2, <1>3, <1>4, <1>5 DEF t

LEMMA HoldsNothing == \A m : ~Holds(<< >>, m) /\ Once(<< >>, m)
  BY DEF Holds, Once

LEMMA HoldsPart ==
    ASSUME NEW S, NEW s \in Seq(S), NEW t \in PartsOf(s), NEW m
    PROVE  /\ Holds(t, m) => Holds(s, m)
           /\ Once(s, m) => Once(t, m)
  <1>1. \/ t = s \/ t = << >> \/ (s # << >> /\ t = Tail(s))
        \/ \E n \in 0 .. Len(s) : t = SubSeq(s, 1, n)
    BY Zenon DEF PartsOf
  <1>2. CASE \E n \in 0 .. Len(s) : t = SubSeq(s, 1, n)
    <2>1. PICK n \in 0 .. Len(s) : t = SubSeq(s, 1, n)
      BY <1>2
    <2>2. Len(s) \in Nat /\ Len(t) = n /\ \A i \in 1 .. n : t[i] = s[i]
      BY <2>1, SubSeqProperties, LenProperties
    <2>3. Len(t) <= Len(s) /\ \A i \in 1 .. Len(t) : t[i] = s[i] /\ i \in 1 .. Len(s)
      BY <2>2
    <2>4. QED
      BY <2>3 DEF Holds, Once
  <1>3. QED
    BY <1>1, <1>2, HoldsTail, HoldsNothing

\* The wires to the server: but for the window's next request, a step takes from
\* a wire, begins one, or appends the goodbye that the window then has said.
Wired(j) == \/ toServer'[j] \in PartsOf(toServer[j])
            \/ toServer'[j] = <<"auth">>
            \/ toServer'[j] = Append(toServer[j], "Disconnect") /\ didSendDisconnect'

LEMMA DisposeWires ==
    ASSUME TypeOK, DisposeConnection
    PROVE  \A j \in Socket : Wired(j)
  <1> SUFFICES ASSUME NEW j \in Socket PROVE Wired(j)
    OBVIOUS
  <1>1. \/ toServer'[j] = toServer[j]
        \/ toServer'[j] = Append(toServer[j], "Disconnect")
    BY DEF TypeOK, DisposeConnection, Written
  <1>2. didSendDisconnect'
    BY DEF DisposeConnection
  <1>3. QED
    BY <1>1, <1>2, SamePart DEF Wired

LEMMA FailWires ==
    ASSUME TypeOK, PermanentFailure
    PROVE  \A j \in Socket : Wired(j)
  <1>1. CASE isDisposed
    BY <1>1, SamePart DEF PermanentFailure, wireVars, Wired
  <1>2. CASE ~isDisposed
    BY <1>2, DisposeWires DEF PermanentFailure
  <1>3. QED
    BY <1>1, <1>2

LEMMA WiresStep ==
    ASSUME TypeOK, Exchange, [Next]_vars, ~ClientReadsSign
    PROVE  \A j \in Socket : Wired(j)
  <1>1. CASE UNCHANGED toServer
    BY <1>1, SamePart DEF Wired
  <1>2. CASE ClientHearsClose \/ ClientTimesOut \/ AttemptFails
    <2>1. PermanentFailure \/ UNCHANGED toServer
      BY <1>2 DEF ClientHearsClose, ClientTimesOut, AttemptFails, AttemptEnds,
                  BeginReconnecting, GoesOnFailing, wireVars
    <2>2. QED
      BY <1>1, <2>1, FailWires
  <1>3. CASE OthersFail
    BY <1>3, FailWires DEF OthersFail
  <1>4. CASE EndDisposes
    BY <1>4, DisposeWires DEF EndDisposes
  <1>5. CASE EndConnection
    <2> SUFFICES ASSUME NEW j \in Socket PROVE Wired(j)
      OBVIOUS
    <2>1. \/ toServer'[j] = toServer[j]
          \/ toServer'[j] = Append(toServer[j], "Disconnect")
      BY <1>5 DEF EndConnection, TypeOK, Written
    <2>2. QED
      BY <1>5, <2>1, SamePart DEF EndConnection, Wired
  <1>6. CASE ClientIsRefused
    BY <1>1, <1>6, DisposeWires DEF ClientIsRefused
  <1>7. CASE BeginAttempt
    <2> SUFFICES ASSUME NEW j \in Socket PROVE Wired(j)
      OBVIOUS
    <2>1. toServer'[j] = toServer[j] \/ toServer'[j] = <<"auth">>
      BY <1>7 DEF BeginAttempt, BeginAttemptOn, TypeOK
    <2>2. QED
      BY <2>1, SamePart DEF Wired
  <1>8. CASE SleepEnds \/ ClientBuffers \/ ClientReadsOk \/ ServerHearsClose
             \/ AnotherClientConnects \/ UNCHANGED vars \/ (\E k \in Socket : Break(k))
    BY <1>1, <1>8 DEF SleepEnds, ClientBuffers, ClientReadsOk, ServerHearsClose,
          ServerHearsCloseOf, AnotherClientConnects, Break, vars, wireVars
  <1>9. ASSUME NEW k \in Socket, ServerReadsAuth(k) \/ HandshakeIgnores(k) \/ RejectConnection(k)
        PROVE  \A j \in Socket : Wired(j)
    <2> SUFFICES ASSUME NEW j \in Socket PROVE Wired(j)
      OBVIOUS
    <2>1. toServer[k] # << >> /\ toServer[k] \in Seq(FromWindow)
      BY <1>9 DEF ServerReadsAuth, HandshakeIgnores, RejectConnection, Refuse, AsksForType,
                  TypeOK, FromWindow
    <2>2. \/ toServer' = [toServer EXCEPT ![k] = Tail(toServer[k])]
          \/ toServer' = [toServer EXCEPT ![k] = << >>]
      BY <1>9 DEF ServerReadsAuth, HandshakeIgnores, RejectConnection, Refuse
    <2>3. toServer \in [Socket -> Seq(FromWindow)]
      BY DEF TypeOK, FromWindow
    <2>4. toServer'[j] = toServer[j] \/ (j = k /\ toServer'[j] \in {Tail(toServer[k]), << >>})
      BY <2>2, <2>3
    <2>5. QED
      BY <2>1, <2>4, Parts, SamePart DEF Wired
  <1>10. ASSUME NEW k \in Socket, AcceptReconnection(k)
         PROVE  \A j \in Socket : Wired(j)
    <2> SUFFICES ASSUME NEW j \in Socket PROVE Wired(j)
      OBVIOUS
    <2>1. toServer[k] # << >> /\ toServer[k] \in Seq(FromWindow)
      BY <1>10 DEF AcceptReconnection, AsksForType, TypeOK, FromWindow
    <2>2. k # serverSocket /\ serverSocket \in Socket
      BY <1>10 DEF AcceptReconnection, AsksForType, TypeOK, Exchange
    <2>3. toServer' = [toServer EXCEPT ![serverSocket] = << >>, ![k] = Tail(toServer[k])]
      BY <1>10, <2>2 DEF AcceptReconnection, MoveTo, TypeOK
    <2>4. toServer \in [Socket -> Seq(FromWindow)]
      BY DEF TypeOK, FromWindow
    <2>5. toServer'[j] \in {toServer[j], << >>} \/ (j = k /\ toServer'[j] = Tail(toServer[k]))
      BY <2>2, <2>3, <2>4
    <2>6. QED
      BY <2>1, <2>5, Parts, SamePart DEF Wired
  <1>11. ASSUME NEW k \in Socket, LoseTail(k)
         PROVE  \A j \in Socket : Wired(j)
    <2> SUFFICES ASSUME NEW j \in Socket PROVE Wired(j)
      OBVIOUS
    <2>1. toServer[k] # << >> /\ toServer[k] \in Seq(FromWindow)
      BY <1>11 DEF LoseTail, TypeOK, FromWindow
    <2>2. Len(toServer[k]) - 1 \in 0 .. Len(toServer[k])
      BY <2>1, Wires
    <2>3. toServer'[j] = toServer[j]
             \/ (j = k /\ toServer'[j] = SubSeq(toServer[k], 1, Len(toServer[k]) - 1))
      <3>1. toServer' = [toServer EXCEPT ![k] = SubSeq(toServer[k], 1, Len(toServer[k]) - 1)]
        BY <1>11 DEF LoseTail
      <3>2. toServer \in [Socket -> Seq(FromWindow)]
        BY DEF TypeOK, FromWindow
      <3>3. QED
        BY <3>1, <3>2
    <2>4. QED
      BY <2>1, <2>2, <2>3, Parts, SamePart DEF Wired
  <1>12. CASE ServerReadsDisconnect \/ RunnerFires \/ ServerRestarts
    <2> SUFFICES ASSUME NEW j \in Socket PROVE Wired(j)
      OBVIOUS
    <2>1. toServer'[j] \in {toServer[j], << >>}
      BY <1>12 DEF ServerReadsDisconnect, RunnerFires, ServerRestarts, CleanResources, TypeOK
    <2>2. QED
      BY <2>1, SamePart DEF Wired
  <1>13. QED
    BY <1>2, <1>3, <1>4, <1>5, <1>6, <1>7, <1>8, <1>9, <1>10, <1>11, <1>12
       DEF Next, ClientLoop, ClientReads, ServerReads

\* So no wire but the one of the reader of "sign" comes to carry a request.
LEMMA AskedBefore ==
    ASSUME TypeOK, Exchange, [Next]_vars, NEW j \in Socket, ~ClientReadsSign
    PROVE  /\ Holds(toServer'[j], "connectionType") => Holds(toServer[j], "connectionType")
           /\ Once(toServer'[j], "connectionType")
           /\ Holds(toServer'[j], "Disconnect") =>
                Holds(toServer[j], "Disconnect") \/ didSendDisconnect'
  <1>1. Wired(j) /\ Once(toServer[j], "connectionType") /\ toServer[j] \in Seq(FromWindow)
    BY WiresStep DEF Exchange, TypeOK, FromWindow
  <1>2. CASE toServer'[j] \in PartsOf(toServer[j])
    BY <1>1, <1>2, HoldsPart
  <1>3. CASE toServer'[j] = <<"auth">>
    BY <1>3 DEF Holds, Once
  <1>4. CASE toServer'[j] = Append(toServer[j], "Disconnect") /\ didSendDisconnect'
    <2>1. "Disconnect" \in FromWindow /\ "Disconnect" # "connectionType"
      BY DEF FromWindow
    <2>2. QED
      BY <1>1, <1>4, <2>1, HoldsAppend
  <1>5. QED
    BY <1>1, <1>2, <1>3, <1>4 DEF Wired

\* A step that leaves the server's handshakes as they are, and the window's unless
\* it ends.
LEMMA ExchangeKept ==
    ASSUME TypeOK, Exchange, [Next]_vars, ~ClientReadsSign,
           UNCHANGED <<clientSocket, state, accepted, serverSocket>>,
           didSendDisconnect => didSendDisconnect',
           loop' \in {"auth", "type"} => loop' = loop,
           loop' = "type" => toClient'[clientSocket] \in {toClient[clientSocket], << >>}
    PROVE  Exchange'
  <1>1. clientSocket \in Socket
    BY DEF TypeOK
  <1>2. \A j \in Socket :
          /\ Once(toServer'[j], "connectionType")
          /\ Holds(toServer'[j], "connectionType") => state'[j] \notin {"Done", "Error"}
          /\ Holds(toServer'[j], "Disconnect") => didSendDisconnect'
    BY AskedBefore DEF Exchange
  <1>3. loop' = "type" =>
          /\ toClient'[clientSocket] \in {<< >>, <<"ok">>, <<"error">>}
          /\ Holds(toServer'[clientSocket], "connectionType") => toClient'[clientSocket] = << >>
    BY <1>1, AskedBefore DEF Exchange
  <1>4. QED
    BY <1>2, <1>3 DEF Exchange

LEMMA WindowExchanges ==
    ASSUME TypeOK, HandshakeInv, Exchange, ClientStep, ~ClientReadsSign
    PROVE  Exchange'
  <1>1. [Next]_vars
    BY DEF ClientStep, Next, ClientLoop
  <1>2. UNCHANGED <<clientSocket, state, accepted, serverSocket>>
    BY ClientStepStays DEF ClientStays, serverVars, graceVars
  <1>3. /\ didSendDisconnect => didSendDisconnect'
        /\ loop' \in {"auth", "type"} => loop' = loop
        /\ loop' = "type" => toClient'[clientSocket] \in {toClient[clientSocket], << >>}
    <2>1. CASE ClientHearsClose \/ ClientTimesOut \/ AttemptFails
      <3>1. GoesOnFailing \/ (UNCHANGED <<didSendDisconnect, wireVars>>
                              /\ (loop' \in {"resolving", "sleeping", "idle"} \/ loop' = loop))
        BY <2>1 DEF ClientHearsClose, ClientTimesOut, AttemptFails, AttemptEnds,
                    BeginReconnecting, loopVars
      <3>2. QED
        BY <3>1 DEF GoesOnFailing, PermanentFailure, DisposeConnection, wireVars
    <2>2. CASE SleepEnds \/ ClientBuffers \/ ClientReadsOk \/ ClientIsRefused
      BY <2>2 DEF SleepEnds, ClientBuffers, ClientReadsOk, ClientIsRefused, loopVars, DisposeConnection
    <2>3. CASE OthersFail \/ EndConnection \/ EndDisposes
      <3>1. loop' = loop /\ (didSendDisconnect => didSendDisconnect')
        BY <2>3 DEF OthersFail, EndConnection, EndDisposes, PermanentFailure, DisposeConnection
      <3>2. toClient'[clientSocket] \in {toClient[clientSocket], << >>}
        BY <2>3, FailStays, DisposeStays DEF OthersFail, EndConnection, EndDisposes
      <3>3. QED
        BY <3>1, <3>2
    <2>4. QED
      BY <2>1, <2>2, <2>3 DEF ClientStep, ClientReads
  <1>4. QED
    BY <1>1, <1>2, <1>3, ExchangeKept

LEMMA SignExchanged ==
    ASSUME TypeOK, TypeOK', HandshakeInv, HandshakeInv', Exchange, ClientReadsSign
    PROVE  Exchange'
  <1> DEFINE c == clientSocket
             s == toServer[c]
  <1>1. /\ UNCHANGED <<clientSocket, state, accepted, serverSocket, didSendDisconnect>>
        /\ toServer' = Written(toServer, c, "connectionType")
        /\ loop = "auth" /\ loop' = "type"
        /\ c \in Socket /\ s \in Seq({"auth", "Disconnect"})
    BY DEF ClientReadsSign, serverVars, graceVars, TypeOK, HandshakeInv, InAuth
  <1>2. s \in Seq(FromWindow) /\ "connectionType" \in FromWindow
    BY <1>1 DEF TypeOK, FromWindow
  <1>3. ~Holds(s, "connectionType")
    <2>1. \A n \in 1 .. Len(s) : s[n] \in {"auth", "Disconnect"}
      BY <1>1, ElementOfSeq
    <2>2. QED
      BY <2>1 DEF Holds
  <1>4. \A j \in Socket : j # c => toServer'[j] = toServer[j]
    BY <1>1 DEF Written, TypeOK
  <1>5. toServer'[c] \in {s, Append(s, "connectionType")}
    BY <1>1 DEF Written, TypeOK
  <1>6. state[c] \notin {"Done", "Error"} /\ Once(s, "connectionType")
    BY <1>1 DEF Exchange
  <1> HIDE DEF s
  <1>7. /\ Once(toServer'[c], "connectionType")
        /\ Holds(toServer'[c], "Disconnect") => Holds(s, "Disconnect")
    <2>1. CASE toServer'[c] = s
      BY <1>6, <2>1
    <2>2. CASE toServer'[c] = Append(s, "connectionType")
      <3>1. Once(toServer'[c], "connectionType")
        BY <1>2, <1>3, <1>6, <2>2, HoldsAppend
      <3>2. Holds(toServer'[c], "Disconnect") => Holds(s, "Disconnect") \/ "connectionType" = "Disconnect"
        BY <1>2, <2>2, HoldsAppend
      <3>3. QED
        BY <3>1, <3>2
    <2>3. QED
      BY <1>5, <2>1, <2>2
  <1>8. toClient'[c] = << >>
    <2>1. control = << >> /\ toClient[c] \in Seq({"sign"}) /\ Len(toClient[c]) <= 1
      BY <1>1 DEF HandshakeInv, InAuth
    <2>2. control \o toClient[c] = toClient[c]
      BY <2>1, ConcatEmptySeq
    <2>3. toClient[c] # << >> /\ toClient'[c] = Tail(toClient[c])
      BY <1>1, <2>1, <2>2 DEF ClientReadsSign, TakeControl, TypeOK
    <2>4. Len(toClient[c]) \in Nat \ {0}
      BY <2>1, <2>3, EmptySeq, LenProperties
    <2>5. Len(toClient[c]) = 1
      <3>1. \A n \in Nat \ {0} : n <= 1 => n = 1
        OBVIOUS
      <3>2. QED
        BY <2>1, <2>4, <3>1, Zenon
    <2>6. Tail(toClient[c]) \in Seq({"sign"}) /\ Len(Tail(toClient[c])) = 0
      BY <2>1, <2>3, <2>5, HeadTailProperties
    <2>7. QED
      BY <2>3, <2>6, EmptySeq
  <1>9. \A j \in Socket :
          /\ Once(toServer'[j], "connectionType")
          /\ Holds(toServer'[j], "connectionType") => state'[j] \notin {"Done", "Error"}
          /\ Holds(toServer'[j], "Disconnect") => didSendDisconnect'
    BY <1>1, <1>4, <1>6, <1>7 DEF Exchange, s
  <1>10. QED
    BY <1>1, <1>8, <1>9 DEF Exchange

LEMMA AttemptExchanges ==
    ASSUME TypeOK, GraceInv, Exchange, BeginAttempt
    PROVE  Exchange'
  <1> DEFINE k == clientSocket + 1
  <1>1. clientSocket \in Nat /\ k \in Socket /\ k > clientSocket
    BY BoundsAssumption DEF TypeOK, BeginAttempt, BeginAttemptOn, Socket
  <1>2. state[k] = "WaitingForAuth"
    BY <1>1 DEF GraceInv, Fresh
  <1>3. /\ UNCHANGED <<state, accepted, serverSocket, didSendDisconnect>>
        /\ loop' = "auth" /\ clientSocket' = k /\ ~ClientReadsSign /\ [Next]_vars
    BY DEF BeginAttempt, BeginAttemptOn, serverVars, graceVars, ClientReadsSign, Next, ClientLoop
  <1>4. \A j \in Socket :
          /\ Once(toServer'[j], "connectionType")
          /\ Holds(toServer'[j], "connectionType") => state'[j] \notin {"Done", "Error"}
          /\ Holds(toServer'[j], "Disconnect") => didSendDisconnect'
    BY <1>3, AskedBefore DEF Exchange
  <1>5. QED
    BY <1>2, <1>3, <1>4 DEF Exchange

LEMMA AuthExchanged ==
    ASSUME TypeOK, HandshakeInv, Exchange, NEW k \in Socket, ServerReadsAuth(k)
    PROVE  Exchange'
  <1>1. /\ UNCHANGED <<loop, clientSocket, accepted, serverSocket, didSendDisconnect>>
        /\ state' = [state EXCEPT ![k] = "WaitingForConnectionType"]
        /\ state[k] = "WaitingForAuth" /\ clientSocket \in Socket
        /\ toClient' = Written(toClient, k, "sign")
        /\ ~ClientReadsSign /\ [Next]_vars
    <2>1. ~ClientReadsSign
      BY DEF ServerReadsAuth, ClientReadsSign, serverVars, TypeOK
    <2>2. QED
      BY <2>1 DEF ServerReadsAuth, loopVars, clientVars, graceVars, Next, ServerReads, TypeOK
  <1>2. \A j \in Socket : state'[j] = state[j] \/ (j = k /\ state'[j] = "WaitingForConnectionType")
    BY <1>1 DEF TypeOK
  <1>3. \A j \in Socket :
          /\ Once(toServer'[j], "connectionType")
          /\ Holds(toServer'[j], "connectionType") => state'[j] \notin {"Done", "Error"}
          /\ Holds(toServer'[j], "Disconnect") => didSendDisconnect'
    BY <1>1, <1>2, AskedBefore DEF Exchange
  <1>4. \A j \in accepted : state'[j] = "Done"
    BY <1>1 DEF Exchange, TypeOK
  <1>5. ASSUME loop = "type"
        PROVE  /\ toClient'[clientSocket] = toClient[clientSocket]
               /\ Holds(toServer'[clientSocket], "connectionType")
                    => Holds(toServer[clientSocket], "connectionType")
    <2>1. clientSocket # k
      BY <1>1, <1>5 DEF HandshakeInv, InType
    <2>2. QED
      BY <1>1, <2>1, AskedBefore DEF Written, TypeOK
  <1>6. QED
    BY <1>1, <1>2, <1>3, <1>4, <1>5 DEF Exchange

\* The server reads the request of socket k, and is done with it.
LEMMA AnswerExchanged ==
    ASSUME TypeOK, HandshakeInv, Exchange, NEW k \in Socket,
           AcceptReconnection(k) \/ RejectConnection(k)
    PROVE  /\ Exchange'
           /\ Holds(toServer[k], "connectionType")
           /\ ~Holds(toServer'[k], "connectionType")
           /\ k # serverSocket
  <1>1. /\ UNCHANGED <<loop, clientSocket, didSendDisconnect>>
        /\ clientSocket \in Socket /\ toServer[k] \in Seq(FromWindow)
        /\ toServer[k] # << >> /\ Head(toServer[k]) = "connectionType"
        /\ state[k] = "WaitingForConnectionType"
        /\ [Next]_vars
    BY DEF AcceptReconnection, RejectConnection, MoveTo, Refuse, AsksForType, loopVars,
           clientVars, TypeOK, FromWindow, Next, ServerReads
  <1>2. ~ClientReadsSign
    <2>1. state' # state
      BY <1>1 DEF AcceptReconnection, RejectConnection, MoveTo, Refuse, TypeOK
    <2>2. QED
      BY <2>1 DEF ClientReadsSign, serverVars
  <1>3. k # serverSocket /\ serverSocket \in Socket
    BY <1>1 DEF Exchange, TypeOK
  <1>4. toServer'[k] \in {Tail(toServer[k]), << >>}
    <2>1. \/ toServer' = [toServer EXCEPT ![serverSocket] = << >>, ![k] = Tail(toServer[k])]
          \/ toServer' = [toServer EXCEPT ![k] = << >>]
      BY <1>3 DEF AcceptReconnection, RejectConnection, MoveTo, Refuse, TypeOK
    <2>2. QED
      BY <1>3, <2>1 DEF TypeOK
  <1>5. Holds(toServer[k], "connectionType") /\ ~Holds(toServer'[k], "connectionType")
    BY <1>1, <1>4, HoldsTail, HoldsNothing, ZenonT(40) DEF Exchange
  <1>6. \A j \in Socket : j # k => state'[j] = state[j]
    BY DEF AcceptReconnection, RejectConnection, MoveTo, Refuse, TypeOK
  <1>7. serverSocket' \in accepted' /\ \A j \in accepted' : state'[j] = "Done"
    <2>1. CASE AcceptReconnection(k)
      BY <1>6, <2>1 DEF AcceptReconnection, MoveTo, Exchange, TypeOK
    <2>2. CASE RejectConnection(k)
      BY <1>1, <1>6, <2>2 DEF RejectConnection, Refuse, graceVars, Exchange, TypeOK
    <2>3. QED
      BY <2>1, <2>2
  <1>8. \A j \in Socket :
          /\ Once(toServer'[j], "connectionType")
          /\ Holds(toServer'[j], "connectionType") => state'[j] \notin {"Done", "Error"}
          /\ Holds(toServer'[j], "Disconnect") => didSendDisconnect'
    BY <1>1, <1>2, <1>5, <1>6, AskedBefore DEF Exchange
  <1>9. ASSUME loop = "auth" PROVE state'[clientSocket] \notin {"Done", "Error"}
    <2>1. toServer[clientSocket] \in Seq({"auth", "Disconnect"})
      BY <1>9 DEF HandshakeInv, InAuth
    <2>2. clientSocket # k
      BY <1>1, <2>1, HeadTailProperties
    <2>3. QED
      BY <1>1, <1>6, <1>9, <2>2 DEF Exchange
  <1>10. ASSUME loop = "type"
         PROVE  /\ toClient'[clientSocket] \in {<< >>, <<"ok">>, <<"error">>}
                /\ Holds(toServer'[clientSocket], "connectionType") => toClient'[clientSocket] = << >>
    <2>1. \E m \in {"ok", "error"} : toClient' = Written(toClient, k, m)
      BY DEF AcceptReconnection, RejectConnection, MoveTo, Refuse
    <2>2. CASE clientSocket # k
      <3>1. toClient'[clientSocket] = toClient[clientSocket]
        BY <2>1, <2>2 DEF Written, TypeOK
      <3>2. QED
        BY <1>1, <1>2, <1>10, <3>1, AskedBefore DEF Exchange
    <2>3. CASE clientSocket = k
      <3>1. toClient[k] = << >>
        BY <1>5, <1>10, <2>3 DEF Exchange
      <3>2. PICK m \in {"ok", "error"} : toClient' = Written(toClient, k, m)
        BY <2>1
      <3>3. toClient'[k] \in {toClient[k], Append(toClient[k], m)}
        BY <3>2 DEF Written, TypeOK
      <3>4. Append(<< >>, m) = <<m>>
        OBVIOUS
      <3>5. toClient'[k] \in {<< >>, <<m>>}
        BY <3>1, <3>3, <3>4
      <3>6. QED
        BY <1>5, <2>3, <3>5
    <2>4. QED
      BY <2>2, <2>3
  <1>11. QED
    BY <1>1, <1>3, <1>5, <1>7, <1>8, <1>9, <1>10 DEF Exchange

\* A part of one message at most is that message, or nothing.
LEMMA PartOfOne ==
    ASSUME NEW s \in {<< >>, <<"ok">>, <<"error">>}, NEW n \in 0 .. Len(s)
    PROVE  SubSeq(s, 1, n) \in {s, << >>}
  <1>1. s \in Seq(FromServer) /\ (Len(s) = 0 \/ Len(s) = 1)
    <2>1. CASE s = << >>
      BY <2>1, EmptySeq
    <2>2. CASE s = <<"ok">>
      <3>1. <<"ok">> \in Seq(FromServer) /\ Len(<<"ok">>) = 1
        BY DEF FromServer
      <3>2. QED
        BY <2>2, <3>1
    <2>3. CASE s = <<"error">>
      <3>1. <<"error">> \in Seq(FromServer) /\ Len(<<"error">>) = 1
        BY DEF FromServer
      <3>2. QED
        BY <2>3, <3>1
    <2>4. QED
      BY <2>1, <2>2, <2>3
  <1>2. CASE n = 0
    <2>1. SubSeq(s, 1, n) \in Seq(FromServer) /\ Len(SubSeq(s, 1, n)) = 0
      BY <1>1, <1>2, SubSeqProperties
    <2>2. QED
      BY <2>1, EmptySeq
  <1>3. CASE n # 0
    <2>1. n = Len(s)
      <3>1. \A m \in Nat : m = 0 \/ m = 1 => \A i \in 0 .. m : i # 0 => i = m
        OBVIOUS
      <3>2. Len(s) \in Nat
        BY <1>1, LenProperties
      <3>3. QED
        BY <1>1, <1>3, <3>1, <3>2, Zenon
    <2>2. SubSeq(s, 1, Len(s)) = s
      BY <1>1, SubSeqFull
    <2>3. QED
      BY <2>1, <2>2
  <1>4. QED
    BY <1>2, <1>3

LEMMA OthersExchange ==
    ASSUME TypeOK, HandshakeInv, Exchange, [Next]_vars, ~ClientReadsSign,
           \/ \E k \in Socket : HandshakeIgnores(k) \/ Break(k) \/ LoseTail(k)
           \/ ServerReadsDisconnect \/ RunnerFires \/ ServerRestarts
           \/ ServerHearsClose \/ AnotherClientConnects \/ UNCHANGED vars
    PROVE  Exchange'
  <1>1. UNCHANGED <<loop, clientSocket, state, accepted, serverSocket, didSendDisconnect>>
    BY DEF HandshakeIgnores, Break, LoseTail, ServerReadsDisconnect, RunnerFires, CleanResources,
           ServerRestarts, ServerHearsClose, ServerHearsCloseOf, AnotherClientConnects, vars,
           loopVars, clientVars, serverVars, graceVars
  <1>2. ASSUME loop = "type"
        PROVE  toClient'[clientSocket] \in {toClient[clientSocket], << >>}
    <2>1. CASE \E k \in Socket : Break(k)
      <3>0. PICK k \in Socket : Break(k)
        BY <2>1
      <3>1. PICK n \in 0 .. Len(toClient[k]) :
                   toClient' = [toClient EXCEPT ![k] = SubSeq(toClient[k], 1, n)]
        BY <3>0 DEF Break
      <3>2. CASE k = clientSocket
        <4>1. toClient[k] \in {<< >>, <<"ok">>, <<"error">>}
          BY <1>2, <3>2 DEF Exchange
        <4>2. SubSeq(toClient[k], 1, n) \in {toClient[k], << >>}
          BY <4>1, PartOfOne
        <4>3. QED
          BY <3>1, <3>2, <4>2 DEF TypeOK
      <3>3. CASE k # clientSocket
        BY <3>1, <3>3 DEF TypeOK
      <3>4. QED
        BY <3>2, <3>3
    <2>2. CASE toClient' = toClient
      BY <2>2
    <2>3. QED
      BY <2>1, <2>2
         DEF HandshakeIgnores, LoseTail, ServerReadsDisconnect, RunnerFires, CleanResources,
             ServerRestarts, ServerHearsClose, ServerHearsCloseOf, AnotherClientConnects, vars, wireVars
  <1>3. QED
    BY <1>1, <1>2, ExchangeKept

LEMMA ExchangeInit == Init => Exchange
  <1> SUFFICES ASSUME Init PROVE Exchange
    OBVIOUS
  <1>1. 1 \in Socket
    BY BoundsAssumption DEF Socket
  <1>2. \A k \in Socket : toServer[k] = << >>
    BY DEF Init
  <1>3. serverSocket \in accepted /\ (\A k \in accepted : state[k] = "Done") /\ loop = "idle"
    BY <1>1 DEF Init
  <1>4. QED
    BY <1>2, <1>3, HoldsNothing DEF Exchange

LEMMA ExchangeStep ==
    ASSUME TypeOK, TypeOK', GraceInv, HandshakeInv, HandshakeInv', Exchange, [Next]_vars
    PROVE  Exchange'
  <1>1. CASE ClientReadsSign
    BY <1>1, SignExchanged
  <1>2. CASE ~ClientReadsSign
    <2>1. CASE ClientStep
      BY <1>2, <2>1, WindowExchanges
    <2>2. CASE BeginAttempt
      BY <2>2, AttemptExchanges
    <2>3. ASSUME NEW k \in Socket, ServerReads(k) \/ Break(k) \/ LoseTail(k)
          PROVE  Exchange'
      BY <1>2, <2>3, AuthExchanged, AnswerExchanged, OthersExchange DEF ServerReads
    <2>4. CASE \/ ServerReadsDisconnect \/ RunnerFires \/ ServerRestarts
               \/ ServerHearsClose \/ AnotherClientConnects \/ UNCHANGED vars
      BY <1>2, <2>4, OthersExchange
    <2>5. QED
      BY <2>1, <2>2, <2>3, <2>4 DEF Next, ClientLoop, ClientStep
  <1>3. QED
    BY <1>1, <1>2

---------------------------------------------------------------------------
(* The account.                                                             *)

LEMMA LateIsFinite ==
    ASSUME NEW S \in SUBSET Socket
    PROVE  IsFiniteSet(S) /\ Cardinality(S) \in Nat
  <1>1. IsFiniteSet(Socket)
    <2>1. 1 \in Int /\ MaxSocket \in Int
      BY BoundsAssumption
    <2>2. QED
      BY <2>1, FS_Interval DEF Socket
  <1>2. IsFiniteSet(S)
    BY <1>1, FS_Subset
  <1>3. QED
    BY <1>2, FS_CardinalityType

\* What is paid never shrinks: a fault pays for two, a goodbye that is heard for one.
LEMMA PaidGrows ==
    ASSUME TypeOK, TypeOK', registered' => registered, didSendDisconnect => didSendDisconnect'
    PROVE  /\ Paid \in Nat /\ Paid' \in Nat
           /\ faults' = faults => Paid' >= Paid
           /\ faults' = faults + 1 => Paid' >= Paid + 2
           /\ faults' = faults /\ registered /\ ~registered' /\ didSendDisconnect => Paid' = Paid + 1
  <1>1. faults \in Nat /\ faults' \in Nat
    BY BoundsAssumption DEF TypeOK
  <1>2. PICK f \in Nat : f = faults
    BY <1>1
  <1>3. PICK g \in Nat : g = faults'
    BY <1>1
  <1> DEFINE a == 2 * f
             b == 2 * g
  <1>4. a \in Nat /\ b \in Nat /\ (g = f => b = a) /\ (g = f + 1 => b = a + 2)
    OBVIOUS
  <1>5. PICK p \in {1, 2}, q \in {1, 2} : Paid = a + p /\ Paid' = b + q /\ q >= p
    BY <1>2, <1>3 DEF Paid
  <1>6. registered /\ ~registered' /\ didSendDisconnect => Paid = a + 1 /\ Paid' = b + 2
    BY <1>2, <1>3 DEF Paid
  <1> HIDE DEF a, b
  <1>7. Paid \in Nat /\ Paid' \in Nat /\ (b = a => Paid' >= Paid)
        /\ (b = a + 2 => Paid' >= Paid + 2)
    BY <1>4, <1>5
  <1>8. b = a /\ Paid = a + 1 /\ Paid' = b + 2 => Paid' = Paid + 1
    BY <1>4
  <1>9. QED
    BY <1>2, <1>3, <1>4, <1>6, <1>7, <1>8

LEMMA CostKept ==
    ASSUME TypeOK, TypeOK', CostInv, registered' => registered,
           didSendDisconnect => didSendDisconnect',
           \/ /\ UNCHANGED <<clientSocket, faults>> /\ (WillRetry' => WillRetry)
              /\ Late' \subseteq Late
           \/ /\ UNCHANGED clientSocket /\ faults' = faults + 1
              /\ Late' \subseteq Late \cup {clientSocket}
           \/ /\ clientSocket' = clientSocket + 1 /\ UNCHANGED faults
              /\ WillRetry /\ ~WillRetry' /\ Late' \subseteq Late
           \/ /\ UNCHANGED <<clientSocket, faults>>
              /\ \E k \in Late : Late' \subseteq Late \ {k}
           \/ /\ UNCHANGED <<clientSocket, faults>> /\ Late' \subseteq Late
              /\ registered /\ ~registered' /\ didSendDisconnect
    PROVE  CostInv'
  <1> DEFINE n == Cardinality(Late)
             m == Cardinality(Late)'
  <1>1. /\ IsFiniteSet(Late) /\ n \in Nat /\ IsFiniteSet(Late') /\ m \in Nat
        /\ Late \in SUBSET Socket /\ Late' \in SUBSET Socket
    <2>1. Late \in SUBSET Socket /\ Late' \in SUBSET Socket
      BY DEF Late
    <2>2. QED
      BY <2>1, LateIsFinite
  <1>2. clientSocket \in Nat /\ clientSocket' \in Nat /\ clientSocket \in Socket
    BY BoundsAssumption DEF TypeOK, Socket
  <1>3. ToCome \in {0, 1} /\ ToCome' \in {0, 1} /\ (WillRetry => ToCome = 1)
        /\ (~WillRetry' => ToCome' = 0) /\ ((WillRetry' => WillRetry) => ToCome' <= ToCome)
    BY DEF ToCome
  <1>4. Late' \subseteq Late => m <= n
    BY <1>1, FS_Subset
  <1>5. Late' \subseteq Late \cup {clientSocket} => m <= n + 1
    <2>1. /\ IsFiniteSet(Late \cup {clientSocket})
          /\ Cardinality(Late \cup {clientSocket}) \in {n, n + 1}
      BY <1>1, FS_AddElement
    <2>2. Late' \subseteq Late \cup {clientSocket} => m <= Cardinality(Late \cup {clientSocket})
      BY <2>1, FS_Subset
    <2>3. QED
      BY <1>1, <2>1, <2>2
  <1>6. ASSUME NEW k \in Late, Late' \subseteq Late \ {k} PROVE m <= n - 1
    <2>1. IsFiniteSet(Late \ {k}) /\ Cardinality(Late \ {k}) = n - 1
      BY <1>1, FS_RemoveElement
    <2>2. QED
      BY <1>6, <2>1, FS_Subset
  <1>7. clientSocket + ToCome + n <= Paid
    BY DEF CostInv
  <1> HIDE DEF n, m
  <1>8. clientSocket' + ToCome' + m <= Paid'
    BY <1>1, <1>2, <1>3, <1>4, <1>5, <1>6, <1>7, PaidGrows
  <1>9. QED
    BY <1>8 DEF CostInv, m

LEMMA Monotone ==
    ASSUME [Next]_vars
    PROVE  (registered' => registered) /\ (didSendDisconnect => didSendDisconnect')
  <1>1. CASE ClientHearsClose \/ ClientTimesOut \/ AttemptFails \/ OthersFail \/ EndDisposes
    <2>1. registered' = registered
      BY <1>1 DEF ClientHearsClose, ClientTimesOut, AttemptFails, AttemptEnds, OthersFail,
                  EndDisposes, serverVars, graceVars
    <2>2. DisposeConnection \/ UNCHANGED didSendDisconnect
      BY <1>1 DEF ClientHearsClose, ClientTimesOut, AttemptFails, AttemptEnds, OthersFail,
                  EndDisposes, BeginReconnecting, GoesOnFailing, PermanentFailure, loopVars
    <2>3. QED
      BY <2>1, <2>2 DEF DisposeConnection
  <1>2. CASE SleepEnds \/ BeginAttempt \/ ClientReads \/ EndConnection
    BY <1>2 DEF SleepEnds, BeginAttempt, BeginAttemptOn, ClientReads, ClientBuffers, ClientReadsSign,
           ClientReadsOk, ClientIsRefused, DisposeConnection, EndConnection, loopVars, serverVars, graceVars
  <1>3. ASSUME NEW k \in Socket, ServerReads(k) \/ Break(k) \/ LoseTail(k)
        PROVE  (registered' => registered) /\ (didSendDisconnect => didSendDisconnect')
    BY <1>3 DEF ServerReads, ServerReadsAuth, AcceptReconnection, MoveTo, RejectConnection, Refuse,
           HandshakeIgnores, Break, LoseTail, loopVars, serverVars, graceVars
  <1>4. CASE \/ ServerReadsDisconnect \/ RunnerFires \/ ServerRestarts
             \/ ServerHearsClose \/ AnotherClientConnects \/ UNCHANGED vars
    BY <1>4 DEF ServerReadsDisconnect, RunnerFires, CleanResources, ServerRestarts, ServerHearsClose,
           ServerHearsCloseOf, AnotherClientConnects, vars, loopVars, serverVars, graceVars
  <1>5. QED
    BY <1>1, <1>2, <1>3, <1>4 DEF Next, ClientLoop

\* A window at rest was answered, and nothing it asked is under way on its socket.
LEMMA AtRest ==
    ASSUME HandshakeInv, Exchange, TypeOK, loop = "idle", ~isDisposed
    PROVE  /\ ~Holds(toServer[clientSocket], "connectionType")
           /\ state[clientSocket] = "Done"
  BY DEF HandshakeInv, ConnectedIsAccepted, Exchange, TypeOK

\* No socket becomes late but by being left, or closed.
LEMMA LateBefore ==
    ASSUME TypeOK, Exchange, [Next]_vars, ~ClientReadsSign,
           ~isDisposed' => ~isDisposed,
           NEW X, \A j \in Socket \ X : ~isDisposed' /\ Astray(j)'
                     /\ Holds(toServer[j], "connectionType") => Astray(j)
    PROVE  Late' \subseteq Late \cup X
  <1> SUFFICES ASSUME NEW j \in Late', j \notin X PROVE j \in Late
    OBVIOUS
  <1>1. j \in Socket /\ ~isDisposed' /\ Astray(j)' /\ Holds(toServer'[j], "connectionType")
    BY DEF Late
  <1>2. Holds(toServer[j], "connectionType")
    BY <1>1, AskedBefore
  <1>3. QED
    BY <1>1, <1>2 DEF Late

\* The window is disposed: nothing more will come, but of an attempt that waits.
LEMMA DisposedCost ==
    ASSUME TypeOK, TypeOK', CostInv, [Next]_vars, UNCHANGED <<clientSocket, faults>>,
           isDisposed', Between' => Between
    PROVE  CostInv'
  <1>1. Late' = {} /\ (WillRetry' => WillRetry)
    BY DEF Late, WillRetry
  <1>2. QED
    BY <1>1, Monotone, CostKept

\* A fault pays for the attempt and for the handshake it leaves behind.
LEMMA FaultCost ==
    ASSUME TypeOK, TypeOK', Exchange, CostInv, [Next]_vars, ~ClientReadsSign,
           UNCHANGED clientSocket, faults' = faults + 1, ~isDisposed' => ~isDisposed
    PROVE  CostInv'
  <1>1. Late' \subseteq Late \cup {clientSocket}
    <2>1. \A j \in Socket \ {clientSocket} : Astray(j)
      BY DEF Astray
    <2>2. QED
      BY <2>1, LateBefore
  <1>2. QED
    BY <1>1, Monotone, CostKept

\* Steps that close no socket, leave no attempt, and take the refusal of none.
LEMMA QuietCost ==
    ASSUME TypeOK, TypeOK', Exchange, CostInv, [Next]_vars, ~ClientReadsSign,
           UNCHANGED <<clientSocket, faults>>, ~isDisposed' => ~isDisposed,
           ~isDisposed' => \A j \in Socket : open[j] => open'[j],
           Between' => WillRetry /\ (isDisposed' \/ Between \/ ~open[clientSocket]),
           ~isDisposed' /\ Lost' => WillRetry
    PROVE  CostInv'
  <1>1. WillRetry' => WillRetry
    BY DEF WillRetry
  <1>2. Late' \subseteq Late
    <2>1. clientSocket \in Socket
      BY DEF TypeOK
    <2>2. \A j \in Socket \ {} : ~isDisposed' /\ Astray(j)' => Astray(j)
      BY <2>1 DEF Astray
    <2>3. QED
      BY <2>2, LateBefore
  <1>3. QED
    BY <1>1, <1>2, Monotone, CostKept

LEMMA WindowCost ==
    ASSUME TypeOK, TypeOK', HandshakeInv, HandshakeInv', Exchange, CostInv, ClientStep
    PROVE  CostInv'
  <1>0. [Next]_vars /\ UNCHANGED clientSocket
    BY ClientStepStays DEF ClientStep, Next, ClientLoop, ClientStays
  <1>1. CASE ClientReadsSign
    <2>1. /\ UNCHANGED <<isDisposed, open, faults>> /\ loop = "auth" /\ loop' = "type"
          /\ toServer' = Written(toServer, clientSocket, "connectionType")
          /\ clientSocket \in Socket
      BY <1>1 DEF ClientReadsSign, TypeOK
    <2>2. WillRetry' => WillRetry
      BY <1>0, <2>1 DEF WillRetry, Between, Lost
    <2>3. Late' \subseteq Late
      <3> SUFFICES ASSUME NEW j \in Late' PROVE j \in Late
        OBVIOUS
      <3>1. j \in Socket /\ ~isDisposed /\ Holds(toServer'[j], "connectionType")
            /\ (j # clientSocket \/ ~open[j])
        BY <1>0, <2>1 DEF Late, Astray, Between
      <3>2. toServer'[j] = toServer[j]
        BY <2>1, <3>1 DEF Written, TypeOK
      <3>3. QED
        BY <3>1, <3>2 DEF Late, Astray
    <2>4. QED
      BY <1>0, <2>1, <2>2, <2>3, Monotone, CostKept
  <1>2. CASE ClientHearsClose
    <2>1. CASE GoesOnFailing
      <3>1. isDisposed' /\ ~Between' /\ faults' = faults
        BY <1>2, <2>1, FailDisposes DEF GoesOnFailing, Between, ClientHearsClose
      <3>2. QED
        BY <1>0, <3>1, DisposedCost
    <2>2. CASE ~GoesOnFailing
      <3>1. /\ UNCHANGED <<isDisposed, open, toServer, toClient, faults>> /\ ~isDisposed
            /\ ~open[clientSocket] /\ toClient[clientSocket] = << >>
            /\ ~ClientReadsSign
        BY <1>2, <2>2 DEF ClientHearsClose, BeginReconnecting, loopVars, wireVars, ClientReadsSign
      <3>2. WillRetry
        BY <3>1 DEF WillRetry, Lost
      <3>3. QED
        BY <1>0, <3>1, <3>2, QuietCost
    <2>3. QED
      BY <2>1, <2>2
  <1>3. CASE ClientTimesOut
    <2>1. /\ faults' = faults + 1 /\ ~isDisposed /\ ~ClientReadsSign
      BY <1>3 DEF ClientTimesOut, BeginReconnecting, ClientReadsSign
    <2>2. QED
      BY <1>0, <2>1, FaultCost
  <1>4. CASE AttemptFails
    <2>1. CASE GoesOnFailing /\ faults' = faults
      <3>1. isDisposed' /\ ~Between'
        BY <2>1, FailDisposes DEF GoesOnFailing, Between
      <3>2. QED
        BY <1>0, <2>1, <3>1, DisposedCost
    <2>2. CASE faults' = faults + 1
      <3>1. ~isDisposed' => ~isDisposed
        BY <1>4, FailDisposes DEF AttemptFails, AttemptEnds, GoesOnFailing
      <3>2. ~ClientReadsSign
        BY <1>4 DEF AttemptFails, AttemptEnds, clientVars, serverVars, ClientReadsSign,
                    GoesOnFailing, Attempting, TypeOK
      <3>3. QED
        BY <1>0, <2>2, <3>1, <3>2, FaultCost
    <2>3. CASE ~GoesOnFailing /\ faults' # faults + 1
      <3>1. /\ Hopeless /\ faults' = faults /\ UNCHANGED <<isDisposed, open, toServer, toClient>>
            /\ loop' = IF permanentFailure \/ isDisposed THEN "idle" ELSE "sleeping"
        BY <1>4, <2>3 DEF AttemptFails, AttemptEnds, wireVars
      <3>2. ~ClientReadsSign
        BY <3>1 DEF ClientReadsSign
      <3>3. ~isDisposed => WillRetry
        BY <3>1 DEF Hopeless, WillRetry, Lost
      <3>4. (Between' => ~isDisposed) /\ ~open[clientSocket]
        BY <3>1 DEF Hopeless, Between
      <3>5. QED
        BY <1>0, <3>1, <3>2, <3>3, <3>4, QuietCost
    <2>4. QED
      <3>1. faults' = faults + 1 \/ faults' = faults
        BY <1>4 DEF AttemptFails, AttemptEnds
      <3>2. faults # faults + 1
        BY BoundsAssumption DEF TypeOK
      <3>3. QED
        BY <2>1, <2>2, <2>3, <3>1, <3>2
  <1>5. CASE SleepEnds
    <2>1. CASE permanentFailure
      BY <1>0, <1>5, <2>1, DisposedCost DEF SleepEnds, HandshakeInv, Between
    <2>2. CASE ~permanentFailure
      <3>1. /\ UNCHANGED <<isDisposed, open, faults>> /\ Between /\ ~ClientReadsSign
        BY <1>5, <2>2 DEF SleepEnds, wireVars, Between, ClientReadsSign
      <3>2. QED
        BY <1>0, <3>1, QuietCost DEF WillRetry
    <2>3. QED
      BY <2>1, <2>2
  <1>6. CASE ClientBuffers
    <2>1. /\ UNCHANGED <<loop, isDisposed, open, faults>> /\ loop \notin {"auth", "type"}
          /\ ~ClientReadsSign
      BY <1>6 DEF ClientBuffers, loopVars, ClientReadsSign
    <2>2. (Between' => Between) /\ (Lost' => Lost) /\ (Between => WillRetry)
      BY <1>0, <2>1 DEF Between, Lost, WillRetry
    <2>3. QED
      BY <1>0, <2>1, <2>2, QuietCost DEF WillRetry
  <1>7. CASE ClientReadsOk
    <2>1. /\ UNCHANGED <<isDisposed, open, faults>> /\ loop = "type" /\ loop' = "idle"
          /\ ~ClientReadsSign
      BY <1>7 DEF ClientReadsOk, ClientReadsSign
    <2>2. toClient[clientSocket] # <<"error">>
      <3>1. control = << >> /\ toClient[clientSocket] \in Seq(FromServer)
        BY <2>1 DEF HandshakeInv, InType, TypeOK, FromServer
      <3>2. control \o toClient[clientSocket] = toClient[clientSocket]
        BY <3>1, ConcatEmptySeq
      <3>3. Head(toClient[clientSocket]) # "error"
        BY <1>7, <3>2 DEF ClientReadsOk, NextControl
      <3>4. QED
        BY <3>3
    <2>3. ~Between' /\ (Lost' => Lost)
      BY <1>0, <2>1, <2>2 DEF Between, Lost
    <2>4. QED
      BY <1>0, <2>1, <2>3, QuietCost DEF WillRetry
  <1>8. CASE ClientIsRefused
    <2>1. isDisposed' /\ ~Between' /\ faults' = faults
      BY <1>8 DEF ClientIsRefused, DisposeConnection, Between
    <2>2. QED
      BY <1>0, <2>1, DisposedCost
  <1>9. CASE OthersFail \/ EndDisposes
    <2>1. isDisposed' /\ UNCHANGED <<loop, faults>>
      BY <1>9, FailDisposes DEF OthersFail, EndDisposes, DisposeConnection
    <2>2. QED
      BY <1>0, <2>1, DisposedCost DEF Between
  <1>10. CASE EndConnection
    <2>1. UNCHANGED <<loop, isDisposed, open, toClient, faults>>
      BY <1>10 DEF EndConnection
    <2>2. ~ClientReadsSign
      BY <2>1 DEF ClientReadsSign
    <2>3. (Between' => Between) /\ (Lost' => Lost) /\ (Between => WillRetry)
      BY <1>0, <2>1 DEF Between, Lost, WillRetry
    <2>4. QED
      BY <1>0, <2>1, <2>2, <2>3, QuietCost DEF WillRetry
  <1>11. QED
    BY <1>1, <1>2, <1>3, <1>4, <1>5, <1>6, <1>7, <1>8, <1>9, <1>10 DEF ClientStep, ClientReads

LEMMA AttemptCost ==
    ASSUME TypeOK, TypeOK', Exchange, CostInv, BeginAttempt
    PROVE  CostInv'
  <1>1. /\ loop = "resolving" /\ loop' = "auth" /\ clientSocket' = clientSocket + 1
        /\ UNCHANGED <<isDisposed, faults>> /\ ~ClientReadsSign /\ [Next]_vars
    BY DEF BeginAttempt, BeginAttemptOn, ClientReadsSign, Next, ClientLoop
  <1>2. clientSocket \in Nat /\ clientSocket' \in Socket /\ clientSocket \in Socket
    BY BoundsAssumption DEF TypeOK, Socket
  <1>3. open' = [open EXCEPT ![clientSocket] = FALSE, ![clientSocket'] = TRUE]
    BY <1>1 DEF BeginAttempt, BeginAttemptOn
  <1>4. open'[clientSocket']
    BY <1>2, <1>3 DEF TypeOK
  <1>5. WillRetry /\ ~WillRetry'
    BY <1>1, <1>4 DEF WillRetry, Between, Lost
  <1>6. Late' \subseteq Late
    <2>1. \A j \in Socket \ {} : Astray(j)
      BY <1>1 DEF Astray, Between
    <2>2. QED
      BY <1>1, <2>1, LateBefore
  <1>7. QED
    BY <1>1, <1>5, <1>6, Monotone, CostKept

LEMMA AuthCost ==
    ASSUME TypeOK, TypeOK', HandshakeInv, Exchange, CostInv,
           NEW k \in Socket, ServerReadsAuth(k)
    PROVE  CostInv'
  <1>1. /\ UNCHANGED <<loop, clientSocket, isDisposed, open, faults>> /\ [Next]_vars
        /\ toClient' = Written(toClient, k, "sign") /\ state[k] = "WaitingForAuth"
        /\ clientSocket \in Socket
    BY DEF ServerReadsAuth, loopVars, clientVars, Next, ServerReads, TypeOK
  <1>2. ~ClientReadsSign
    BY DEF ServerReadsAuth, ClientReadsSign, serverVars, TypeOK
  <1>3. (Between' => Between) /\ (Between => WillRetry)
    BY <1>1 DEF Between, WillRetry
  <1>4. Lost' => Lost
    <2>1. CASE loop = "type"
      <3>1. clientSocket # k
        BY <1>1, <2>1 DEF HandshakeInv, InType
      <3>2. toClient'[clientSocket] = toClient[clientSocket]
        BY <1>1, <3>1 DEF Written, TypeOK
      <3>3. QED
        BY <1>1, <3>2 DEF Lost
    <2>2. CASE loop # "type"
      BY <1>1, <2>2 DEF Lost
    <2>3. QED
      BY <2>1, <2>2
  <1>5. QED
    BY <1>1, <1>2, <1>3, <1>4, QuietCost DEF WillRetry

LEMMA AcceptCost ==
    ASSUME TypeOK, TypeOK', HandshakeInv, Exchange, CostInv,
           NEW k \in Socket, AcceptReconnection(k)
    PROVE  CostInv'
  <1>1. /\ UNCHANGED <<loop, clientSocket, isDisposed, faults>> /\ [Next]_vars
        /\ open' = [open EXCEPT ![serverSocket] = FALSE]
        /\ clientSocket \in Socket /\ serverSocket \in Socket
    BY DEF AcceptReconnection, MoveTo, loopVars, clientVars, Next, ServerReads, TypeOK
  <1>2. /\ Holds(toServer[k], "connectionType") /\ ~Holds(toServer'[k], "connectionType")
        /\ k # serverSocket
    BY AnswerExchanged
  <1>3. ~ClientReadsSign
    <2>1. state' # state
      BY DEF AcceptReconnection, MoveTo, AsksForType, TypeOK
    <2>2. QED
      BY <2>1 DEF ClientReadsSign, serverVars
  <1>4. CASE isDisposed
    BY <1>1, <1>4, DisposedCost DEF Between
  <1>5. ~Holds(toServer[serverSocket], "connectionType")
    BY DEF Exchange, TypeOK
  <1>6. \A j \in Socket : j # serverSocket => open'[j] = open[j]
    BY <1>1 DEF TypeOK
  <1>7. Late' \subseteq Late \ {k}
    <2>1. Late' \subseteq Late \cup {}
      <3>1. \A j \in Socket \ {} : Astray(j)' /\ Holds(toServer[j], "connectionType") => Astray(j)
        BY <1>1, <1>5, <1>6 DEF Astray, Between
      <3>2. QED
        BY <1>1, <1>3, <3>1, LateBefore
    <2>2. k \notin Late'
      BY <1>2 DEF Late
    <2>3. QED
      BY <2>1, <2>2
  <1>8. CASE ~isDisposed /\ Astray(k)
    <2>1. k \in Late
      BY <1>2, <1>8 DEF Late
    <2>2. QED
      BY <1>1, <1>7, <2>1, Monotone, CostKept
  <1>9. CASE ~isDisposed /\ ~Astray(k)
    <2>1. k = clientSocket /\ open[k] /\ ~Between
      BY <1>9 DEF Astray
    <2>2. open'[clientSocket]
      BY <1>2, <1>6, <2>1
    <2>3. ~WillRetry'
      BY <1>1, <2>1, <2>2 DEF WillRetry, Between, Lost
    <2>4. QED
      BY <1>1, <1>7, <2>3, Monotone, CostKept
  <1>10. QED
    BY <1>4, <1>8, <1>9

LEMMA RejectCost ==
    ASSUME TypeOK, TypeOK', HandshakeInv, Exchange, CostInv,
           NEW k \in Socket, RejectConnection(k)
    PROVE  CostInv'
  <1>1. /\ UNCHANGED <<loop, clientSocket, isDisposed, faults>> /\ [Next]_vars
        /\ open' = [open EXCEPT ![k] = FALSE] /\ clientSocket \in Socket
        /\ toClient' = Written(toClient, k, "error")
        /\ toServer[k] # << >> /\ Head(toServer[k]) = "connectionType"
        /\ state[k] = "WaitingForConnectionType"
    BY DEF RejectConnection, Refuse, AsksForType, loopVars, clientVars, Next, ServerReads, TypeOK
  <1>2. /\ Holds(toServer[k], "connectionType") /\ ~Holds(toServer'[k], "connectionType")
    BY AnswerExchanged
  <1>3. ~ClientReadsSign
    <2>1. state' # state
      BY DEF RejectConnection, Refuse, AsksForType, TypeOK
    <2>2. QED
      BY <2>1 DEF ClientReadsSign, serverVars
  <1>4. \A j \in Socket : j # k => open'[j] = open[j] /\ toClient'[j] = toClient[j]
    BY <1>1 DEF Written, TypeOK
  <1>5. Late' \subseteq Late
    <2>1. Late' \subseteq Late \cup {k}
      <3>1. \A j \in Socket \ {k} : Astray(j)' => Astray(j)
        BY <1>1, <1>4 DEF Astray, Between
      <3>2. QED
        BY <1>1, <1>3, <3>1, LateBefore
    <2>2. k \notin Late'
      BY <1>2 DEF Late
    <2>3. QED
      BY <2>1, <2>2
  <1>6. WillRetry' => WillRetry
    <2>1. CASE isDisposed \/ Between
      BY <1>1, <2>1 DEF WillRetry, Between
    <2>2. CASE ~isDisposed /\ ~Between /\ k # clientSocket
      BY <1>1, <1>4, <2>2 DEF WillRetry, Between, Lost
    <2>3. CASE ~isDisposed /\ ~Between /\ k = clientSocket
      <3>1. loop # "idle"
        BY <1>1, <2>3, AtRest
      <3>2. loop # "auth"
        <4>1. ASSUME loop = "auth" PROVE FALSE
          <5>1. toServer[k] \in Seq({"auth", "Disconnect"})
            BY <2>3, <4>1 DEF HandshakeInv, InAuth
          <5>2. QED
            BY <1>1, <5>1, HeadTailProperties
        <4>2. QED
          BY <4>1
      <3>3. loop = "type"
        BY <2>3, <3>1, <3>2 DEF TypeOK, Attempting, Between
      <3>4. toClient[k] = << >>
        BY <1>2, <2>3, <3>3 DEF Exchange
      <3>5. CASE open[k]
        <4>1. toClient'[k] = Append(toClient[k], "error")
          BY <1>1, <3>5 DEF Written, TypeOK
        <4>2. Append(<< >>, "error") = <<"error">>
          OBVIOUS
        <4>3. toClient'[clientSocket] = <<"error">>
          BY <2>3, <3>4, <4>1, <4>2
        <4>4. QED
          BY <1>1, <2>3, <3>3, <4>3 DEF WillRetry, Between, Lost
      <3>6. CASE ~open[k]
        BY <2>3, <3>4, <3>6 DEF WillRetry, Lost
      <3>7. QED
        BY <3>5, <3>6
    <2>4. QED
      BY <2>1, <2>2, <2>3
  <1>7. QED
    BY <1>1, <1>5, <1>6, Monotone, CostKept

LEMMA NetworkCost ==
    ASSUME TypeOK, TypeOK', Exchange, CostInv,
           NEW k \in Socket, HandshakeIgnores(k) \/ Break(k) \/ LoseTail(k)
    PROVE  CostInv'
  <1>1. [Next]_vars /\ UNCHANGED <<loop, clientSocket, isDisposed>> /\ ~ClientReadsSign
    <2>1. UNCHANGED loopVars /\ UNCHANGED clientVars
      BY DEF HandshakeIgnores, Break, LoseTail
    <2>2. loop' = loop
      BY <2>1 DEF loopVars
    <2>3. ~ClientReadsSign
      BY <2>2 DEF ClientReadsSign
    <2>4. QED
      BY <2>1, <2>3 DEF loopVars, clientVars, Next, ServerReads
  <1>2. CASE Break(k)
    BY <1>1, <1>2, FaultCost DEF Break
  <1>3. CASE HandshakeIgnores(k) \/ LoseTail(k)
    <2>1. UNCHANGED <<open, toClient, faults>>
      BY <1>3 DEF HandshakeIgnores, LoseTail
    <2>2. (Between' => Between) /\ (Lost' => Lost) /\ (Between => WillRetry)
      BY <1>1, <2>1 DEF Between, Lost, WillRetry
    <2>3. QED
      BY <1>1, <2>1, <2>2, QuietCost DEF WillRetry
  <1>4. QED
    BY <1>2, <1>3

LEMMA ServerCost ==
    ASSUME TypeOK, TypeOK', GraceInv, Exchange, CostInv,
           \/ ServerReadsDisconnect \/ RunnerFires \/ ServerRestarts
           \/ ServerHearsClose \/ AnotherClientConnects \/ UNCHANGED vars
    PROVE  CostInv'
  <1>1. [Next]_vars /\ UNCHANGED <<loop, clientSocket, isDisposed, didSendDisconnect, toClient>>
    BY DEF ServerReadsDisconnect, RunnerFires, CleanResources, ServerRestarts, ServerHearsClose,
           ServerHearsCloseOf, AnotherClientConnects, vars, loopVars, clientVars, wireVars, Next
  <1>2. ~ClientReadsSign
    BY <1>1 DEF ClientReadsSign
  <1>3. (Between' => Between) /\ (Between => WillRetry)
    BY <1>1 DEF Between, WillRetry
  <1>4. CASE ServerReadsDisconnect
    <2>1. /\ registered /\ ~registered' /\ faults' = faults
          /\ open' = [open EXCEPT ![serverSocket] = FALSE] /\ serverSocket \in Socket
          /\ toServer[serverSocket] \in Seq(FromWindow) /\ toServer[serverSocket] # << >>
          /\ Head(toServer[serverSocket]) = "Disconnect"
      BY <1>4 DEF ServerReadsDisconnect, CleanResources, TypeOK, FromWindow
    <2>2. didSendDisconnect
      <3>1. Holds(toServer[serverSocket], "Disconnect")
        BY <2>1, HoldsTail
      <3>2. QED
        BY <2>1, <3>1 DEF Exchange
    <2>3. ~Holds(toServer[serverSocket], "connectionType")
      BY DEF Exchange, TypeOK
    <2>4. \A j \in Socket : j # serverSocket => open'[j] = open[j]
      BY <2>1 DEF TypeOK
    <2>5. Late' \subseteq Late \cup {}
      <3>1. \A j \in Socket \ {} : Astray(j)' /\ Holds(toServer[j], "connectionType") => Astray(j)
        BY <1>1, <2>3, <2>4 DEF Astray, Between
      <3>2. QED
        BY <1>1, <1>2, <3>1, LateBefore
    <2>6. QED
      BY <1>1, <2>1, <2>2, <2>5, Monotone, CostKept
  <1>5. CASE ServerRestarts
    BY <1>1, <1>2, <1>5, FaultCost DEF ServerRestarts
  <1>6. CASE RunnerFires \/ ServerHearsClose \/ AnotherClientConnects \/ UNCHANGED vars
    <2>1. UNCHANGED <<open, faults>>
      <3>1. CASE RunnerFires
        <4>1. ~open[serverSocket] /\ open' = [open EXCEPT ![serverSocket] = FALSE] /\ faults' = faults
          BY <3>1 DEF RunnerFires, CleanResources, GraceInv, GraceOnlyWhileClosed
        <4>2. \A j \in Socket : open'[j] = open[j]
          BY <4>1 DEF TypeOK
        <4>3. open \in [Socket -> BOOLEAN] /\ open' \in [Socket -> BOOLEAN]
          BY DEF TypeOK
        <4>4. QED
          BY <4>1, <4>2, <4>3
      <3>2. CASE ServerHearsClose \/ AnotherClientConnects \/ UNCHANGED vars
        BY <3>2 DEF ServerHearsClose, ServerHearsCloseOf, AnotherClientConnects, vars, wireVars
      <3>3. QED
        BY <1>6, <3>1, <3>2
    <2>2. Lost' => Lost
      BY <1>1, <2>1 DEF Lost
    <2>3. QED
      BY <1>1, <1>2, <1>3, <2>1, <2>2, QuietCost DEF WillRetry
  <1>7. QED
    BY <1>4, <1>5, <1>6

LEMMA CostInit == Init => CostInv
  <1> SUFFICES ASSUME Init PROVE CostInv
    OBVIOUS
  <1>1. 1 \in Socket /\ clientSocket = 1 /\ open[1]
    <2>1. 1 \in Socket
      BY BoundsAssumption DEF Socket
    <2>2. QED
      BY <2>1 DEF Init
  <1>2. Late = {}
    BY HoldsNothing DEF Init, Late
  <1>3. ToCome = 0
    BY <1>1 DEF Init, ToCome, WillRetry, Between, Lost
  <1>4. Paid = 1
    BY DEF Init, Paid
  <1>5. QED
    BY <1>1, <1>2, <1>3, <1>4, FS_EmptySet DEF CostInv

LEMMA CostStep ==
    ASSUME TypeOK, TypeOK', GraceInv, HandshakeInv, HandshakeInv', Exchange, CostInv, [Next]_vars
    PROVE  CostInv'
  BY WindowCost, AttemptCost, AuthCost, AcceptCost, RejectCost, NetworkCost, ServerCost
     DEF Next, ClientLoop, ClientStep, ServerReads

\* However many sockets and faults there are, reconnecting does not feed on itself:
\* a fault costs the attempt it causes and the one its late handshake causes, and
\* saying goodbye one more.
THEOREM CostCorrect == Spec => []EachFaultCostsTwo
  <1>1. Init => GraceInv
    BY BoundsAssumption DEF Init, GraceInv, Fresh, GraceOnlyWhileClosed, Socket
  <1>2. Spec => [](TypeOK /\ GraceInv /\ HandshakeInv)
    BY <1>1, TypeInit, TypeStep, GraceStep, HandshakeInit, HandshakeStep, PTL DEF Spec
  <1>3. TypeOK /\ TypeOK' /\ GraceInv /\ HandshakeInv /\ HandshakeInv' /\ Exchange /\ [Next]_vars
          => Exchange'
    BY ExchangeStep
  <1>4. TypeOK /\ TypeOK' /\ GraceInv /\ HandshakeInv /\ HandshakeInv' /\ Exchange /\ CostInv /\ [Next]_vars
          => CostInv'
    BY CostStep
  <1>5. TypeOK /\ CostInv => EachFaultCostsTwo
    <2> SUFFICES ASSUME TypeOK, CostInv PROVE EachFaultCostsTwo
      OBVIOUS
    <2>1. faults \in Nat /\ clientSocket \in Nat
      BY BoundsAssumption DEF TypeOK, Socket
    <2>2. Late \in SUBSET Socket
      BY DEF Late
    <2>3. Cardinality(Late) \in Nat /\ ToCome \in {0, 1}
      BY <2>2, LateIsFinite DEF ToCome
    <2>4. Paid <= 2 * faults + (IF didSendDisconnect THEN 2 ELSE 1) /\ Paid \in Nat
      BY <2>1 DEF Paid
    <2>5. (2 * faults + (IF didSendDisconnect THEN 2 ELSE 1)) \in Nat
      BY <2>1
    <2>6. \A a, b, c, p, q \in Nat : a + b + c <= p /\ p <= q => a <= q
      OBVIOUS
    <2>7. clientSocket + ToCome + Cardinality(Late) <= Paid
      BY DEF CostInv
    <2>8. ToCome \in Nat
      BY <2>3
    <2>9. QED
      BY <2>1, <2>3, <2>4, <2>5, <2>6, <2>7, <2>8, Zenon DEF EachFaultCostsTwo
  <1>6. QED
    BY <1>2, <1>3, <1>4, <1>5, ExchangeInit, CostInit, PTL DEF Spec

=============================================================================
