---------------------------- MODULE Subsequences ----------------------------
(***************************************************************************)
(* Choosing elements of a sequence.  Where(s, S) is what SelectSeq returns *)
(* for membership in S, written as a recursive function so that it can be  *)
(* reasoned about: see AgentHostSyncProofs.                                *)
(***************************************************************************)
EXTENDS Naturals, Sequences

Elements(s) == {s[i] : i \in 1 .. Len(s)}

\* 1, 2, up to n.
UpTo(n) == [i \in 1 .. n |-> i]

\* The elements of s that are in S, in their order.
Where(s, S) ==
    LET kept[n \in 0 .. Len(s)] ==
          IF n = 0 THEN <<>>
          ELSE IF s[n] \in S THEN Append(kept[n - 1], s[n]) ELSE kept[n - 1]
    IN  kept[Len(s)]
=============================================================================
