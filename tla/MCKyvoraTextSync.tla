-------------------------- MODULE MCKyvoraTextSync --------------------------
(* Small instances of KyvoraTextSync for TLC. *)
EXTENDS KyvoraTextSync

ByItself == [w \in Window |-> w]
OneEditor == [w \in Window |-> 1]
=============================================================================
