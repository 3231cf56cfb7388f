--------------------------- MODULE KyvoraTextSync ---------------------------
(***************************************************************************)
(* Shared text in a Kyvora collaboration session: what a window sends when *)
(* its editors change, and what it does with the changes of others         *)
(* (KyvoraCollaborationService, src/vs/workbench/contrib/                  *)
(* kyvoraCollaboration/common/kyvoraCollaborationService.ts).              *)
(*                                                                         *)
(* Every window of the session has the same file open, in one editor or in *)
(* several.  A change goes over the window's WebSocket to a relay, which   *)
(* passes it to every window of the session, its sender included.  Text is *)
(* a sequence of the numbers of the edits that wrote it.                   *)
(***************************************************************************)
EXTENDS Naturals, Sequences

CONSTANTS Window,    \* the windows of one session
          User,      \* the names their users have
          Username,  \* Username[w]: the name window w is logged in with
          Editors,   \* Editors[w]: how many editors of window w show the file
          Elsewhere, \* the windows whose users also type into other editors
          MaxEdits   \* bound on the changes that users make

ASSUME SessionAssumption ==
    /\ Username \in [Window -> User]
    /\ Editors \in [Window -> Nat \ {0}]
    /\ Elsewhere \subseteq Window
    /\ MaxEdits \in Nat

VARIABLES
    model,      \* model[w]: the text in window w
    socketOpen, \* socketOpen[w]: the WebSocket of w is OPEN
    toServer,   \* toServer[w]: sent by w, not yet relayed
    toClient,   \* toClient[w]: relayed, not yet handled by w
    edits,      \* how many changes were made
    disturbed   \* history: a change was made before all earlier ones had arrived,
                \* or was sent for the wrong file

vars == <<model, socketOpen, toServer, toClient, edits, disturbed>>

Text == Seq(1 .. MaxEdits)
Change == [from : Nat, to : Nat, text : Text]

TypeOK ==
    /\ model \in [Window -> Text]
    /\ socketOpen \in [Window -> BOOLEAN]
    /\ toServer \in [Window -> Seq(Change)]
    /\ toClient \in [Window -> Seq([username : User, change : Change])]
    /\ edits \in 0 .. MaxEdits
    /\ disturbed \in BOOLEAN

\* Everyone has the same text, all sockets are open.
Init ==
    /\ model = [w \in Window |-> << >>]
    /\ socketOpen = [w \in Window |-> TRUE]
    /\ toServer = [w \in Window |-> << >>]
    /\ toClient = [w \in Window |-> << >>]
    /\ edits = 0 /\ disturbed = FALSE

---------------------------------------------------------------------------
Smaller(i, j) == IF i < j THEN i ELSE j

\* pushEditOperations: a range beyond the end is moved to the end.
Edited(text, c) ==
    SubSeq(text, 1, Smaller(c.from, Len(text))) \o c.text
        \o SubSeq(text, Smaller(c.to, Len(text)) + 1, Len(text))

\* The same, n times over.
EditedTimes(text, c, n) ==
    LET after[i \in 0 .. n] == IF i = 0 THEN text ELSE Edited(after[i - 1], c)
    IN  after[n]

\* Mutant: the columns are made 0-based although they are.
SentShifted(w, c, n) ==
    toServer' = [toServer EXCEPT ![w] =
                    @ \o [i \in 1 .. n |-> [c EXCEPT !.from = @ - 1, !.to = @ - 1]]]

\* sendTextEdit, called by n editors: only an open socket sends.
Sent(w, c, n) ==
    toServer' = [toServer EXCEPT ![w] = IF socketOpen[w] THEN @ \o [i \in 1 .. n |-> c] ELSE @]

\* Not everything that others changed before has arrived at w.
Behind(w) ==
    \/ \E v \in Window \ {w} : toServer[v] # << >>
    \/ \E i \in 1 .. Len(toClient[w]) : toClient[w][i].username # Username[w]

\* The changes that replace at most one character of a text by at most one.
Changes(text, new) ==
    {c \in [from : 0 .. Len(text), to : 0 .. Len(text), text : {<< >>, <<new>>}] :
        /\ c.to \in {c.from, c.from + 1}
        /\ c.from # c.to \/ c.text # << >>}

\* The user of w changes the file.  All editors that show it notice and send it:
\* the active editor, whose path is sent, is one of them.
Edit(w) ==
    /\ edits < MaxEdits
    /\ edits' = edits + 1
    /\ \E c \in Changes(model[w], edits') :
          /\ model' = [model EXCEPT ![w] = Edited(@, c)]
          /\ Sent(w, c, Editors[w])
    /\ disturbed' = (disturbed \/ Behind(w))
    /\ UNCHANGED <<socketOpen, toClient>>

\* The user of w types at the beginning of another code editor, an input box for
\* instance.  Its listener sends the path of the active editor with the change.
EditElsewhere(w) ==
    /\ w \in Elsewhere
    /\ edits < MaxEdits
    /\ edits' = edits + 1
    /\ Sent(w, [from |-> 0, to |-> 0, text |-> <<edits'>>], 1)
    /\ disturbed' = TRUE
    /\ UNCHANGED <<model, socketOpen, toClient>>

\* handleWebSocketEvent, TEXT_EDIT: what comes from this user is dropped, the rest
\* is applied by every editor that shows the file, and is not sent on.
Handle(w, dropped) ==
    /\ toClient[w] # << >>
    /\ toClient' = [toClient EXCEPT ![w] = Tail(@)]
    /\ LET event == Head(toClient[w]) IN
       model' = [model EXCEPT ![w] =
                    IF event.username \in dropped THEN @ ELSE EditedTimes(@, event.change, Editors[w])]
    /\ UNCHANGED <<socketOpen, toServer, edits, disturbed>>

\* Mutant: nobody looks at whose change it is.
HandleEchoes(w) == Handle(w, {})

HandleTextEdit(w) == Handle(w, {Username[w]})

\* The relay passes the next change of w to everyone it is connected to.
Relay(w) ==
    /\ toServer[w] # << >>
    /\ toServer' = [toServer EXCEPT ![w] = Tail(@)]
    /\ toClient' = [v \in Window |->
          IF socketOpen[v]
          THEN Append(toClient[v], [username |-> Username[w], change |-> Head(toServer[w])])
          ELSE toClient[v]]
    /\ UNCHANGED <<model, socketOpen, edits, disturbed>>

\* A socket closes: onclose only logs, and nothing but joining anew opens another.
\* What is in flight may be lost.
SocketCloses(w) ==
    /\ socketOpen[w]
    /\ socketOpen' = [socketOpen EXCEPT ![w] = FALSE]
    /\ \E n \in 0 .. Len(toServer[w]) : toServer' = [toServer EXCEPT ![w] = SubSeq(@, 1, n)]
    /\ toClient' = [toClient EXCEPT ![w] = << >>]
    /\ UNCHANGED <<model, edits, disturbed>>

Next ==
    \E w \in Window :
        Edit(w) \/ EditElsewhere(w) \/ HandleTextEdit(w) \/ Relay(w) \/ SocketCloses(w)

Spec == Init /\ [][Next]_vars

---------------------------------------------------------------------------
(* Properties.                                                             *)

Quiet == \A w \in Window : toServer[w] = << >> /\ toClient[w] = << >>
SameText == \A v, w \in Window : socketOpen[v] /\ socketOpen[w] => model[v] = model[w]

\* Windows whose users take turns have the same text whenever nothing is under
\* way: no change is applied twice, to its author, or to one window and not to
\* another, whoever else loses the connection (handleWebSocketEvent, applyRemoteEdit).
SyncedInTurns == Quiet /\ ~disturbed => SameText

\* "delta buffer syncing" (README.md:19): the windows that are connected have the
\* same text whenever nothing is under way.
Synced == Quiet => SameText
=============================================================================
