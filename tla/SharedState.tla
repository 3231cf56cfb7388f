---------------------------- MODULE SharedState ----------------------------
(***************************************************************************)
(* What the agent host protocol (src/vs/platform/agentHost) promises to    *)
(* one client.                                                             *)
(*                                                                         *)
(* The host keeps, for every channel (a session, a chat, the root), a      *)
(* state that actions change one after the other.  A client that follows a *)
(* channel sees states it went through: never one the host did not have,   *)
(* never an older one after a newer one, and in the end the last.  A state *)
(* is named by the actions that led to it, so that two states are equal    *)
(* only if the same actions were applied in the same order, whatever the   *)
(* reducers do.                                                            *)
(*                                                                         *)
(* For a channel that is broken nothing is promised any more; whoever      *)
(* implements this says when a channel breaks.                             *)
(***************************************************************************)
EXTENDS Naturals, Sequences

CONSTANT Channel    \* what a client can subscribe to

VARIABLES
    state,      \* state[c]: the actions applied to c by the host
    following,  \* the channels the client follows
    view,       \* view[c]: the actions in the state the client holds for c
    broken      \* the channels for which nothing is promised any more

vars == <<state, following, view, broken>>

Prefixes(s) == {SubSeq(s, 1, n) : n \in 0 .. Len(s)}

Init ==
    /\ state = [c \in Channel |-> <<>>]
    /\ following \subseteq Channel
    /\ view = [c \in Channel |-> <<>>]
    /\ broken = {}

\* The host applies one more action.
Act(c) ==
    /\ state' = [state EXCEPT ![c] = state'[c]]
    /\ Len(state'[c]) = Len(state[c]) + 1
    /\ state[c] \in Prefixes(state'[c])

\* What a step of the client can do to a channel: nothing, show a later state,
\* begin to follow it, leave it.
Stays(c) ==
    /\ c \in following' <=> c \in following
    /\ view'[c] = view[c]

Advances(c) ==
    /\ c \in following /\ c \in following'
    /\ Len(view[c]) < Len(view'[c])
    /\ view'[c] \in Prefixes(state[c])

Joins(c) ==
    /\ c \notin following /\ c \in following'
    /\ view'[c] \in Prefixes(state[c])

Leaves(c) ==
    /\ c \in following /\ c \notin following'
    /\ view'[c] = <<>>

\* A step of the client: what it catches up with after a reconnection are
\* several channels at once.
Follow ==
    /\ UNCHANGED state
    /\ \A c \in Channel \ broken' : Stays(c) \/ Advances(c) \/ Joins(c) \/ Leaves(c)

Next ==
    /\ broken \subseteq broken'
    /\ \/ Follow
       \/ (\E c \in Channel : Act(c)) /\ \A c \in Channel \ broken' : Stays(c)

Spec == Init /\ [][Next]_vars

\* What the client should not stay for ever.
IsBehind(c) == c \in following /\ view[c] # state[c]
=============================================================================
