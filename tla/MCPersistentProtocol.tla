------------------------ MODULE MCPersistentProtocol ------------------------
(* Small instances of PersistentProtocol for TLC. *)
EXTENDS PersistentProtocol, TLC

TwoAndOne == [p \in End |-> IF p = "client" THEN 2 ELSE 1]
TwoFromClient == [p \in End |-> IF p = "client" THEN 2 ELSE 0]

KeepAliveFromClient == [p \in End |-> IF p = "client" THEN {"KeepAlive"} ELSE {}]
\* The window pauses its own writer, the server tells it to pause and to resume,
\* and either ends the connection.
PausesAndGoodbye ==
    [p \in End |-> IF p = "client" THEN {"PauseWriting", "Disconnect", "Dispose"}
                                   ELSE {"Pause", "Resume", "Disconnect", "Dispose"}]

\* No payload is treated differently from another.
Payloads == Permutations(Payload)
=============================================================================
