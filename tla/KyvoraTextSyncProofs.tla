------------------------ MODULE KyvoraTextSyncProofs ------------------------
(***************************************************************************)
(* Proofs about KyvoraTextSync for any windows, users, editors and number  *)
(* of changes: types, and that users who take turns have the same text.    *)
(***************************************************************************)
EXTENDS KyvoraTextSync, SequenceTheorems, WellFoundedInduction, TLAPS

(* Induction over sets instead of predicates: that a set of numbers has a   *)
(* least one is a fact without parameters.                                  *)

LEMMA LeastOne ==
    ASSUME NEW T, T \subseteq Nat, T # {}
    PROVE  \E x \in T : \A y \in T : x <= y
  <1>1. PICK x \in T : \A y \in T : <<y, x>> \notin OpToRel(<, Nat)
    BY NatLessThanWellFounded, WFMin
  <1>2. ASSUME NEW y \in T PROVE x <= y
    <2>1. x \in Nat /\ y \in Nat
      OBVIOUS
    <2>2. CASE y < x
      <3>1. <<y, x>> \in OpToRel(<, Nat)
        BY <2>1, <2>2 DEF OpToRel
      <3>2. QED
        BY <1>1, <3>1, Zenon
    <2>3. QED
      BY <2>1, <2>2
  <1>3. QED
    BY <1>2

LEMMA NumberInduction ==
    ASSUME NEW T, 0 \in T, \A n \in Nat : n \in T => n + 1 \in T
    PROVE  \A n \in Nat : n \in T
  <1> SUFFICES ASSUME Nat \ T # {} PROVE FALSE
    OBVIOUS
  <1>1. PICK x \in Nat \ T : \A y \in Nat \ T : x <= y
    BY LeastOne
  <1>2. x # 0 /\ x - 1 \in Nat /\ ~(x <= x - 1) /\ x = (x - 1) + 1
    BY <1>1
  <1>3. QED
    BY <1>1, <1>2

-----------------------------------------------------------------------------
(* What the events say.                                                     *)
Event == [username : User, change : Change]

LEMMA EditedType ==
    ASSUME NEW text \in Text, NEW c \in Change
    PROVE  Edited(text, c) \in Text
  <1> DEFINE before == SubSeq(text, 1, Smaller(c.from, Len(text)))
             after  == SubSeq(text, Smaller(c.to, Len(text)) + 1, Len(text))
  <1>1. /\ text \in Seq(1 .. MaxEdits) /\ c.text \in Seq(1 .. MaxEdits)
        /\ c.from \in Nat /\ c.to \in Nat /\ Len(text) \in Nat
    BY LenProperties DEF Text, Change
  <1>2. \A i \in 1 .. Len(text) : text[i] \in 1 .. MaxEdits
    BY <1>1, ElementOfSeq
  <1>3. before \in Seq(1 .. MaxEdits)
    <2>1. PICK n : n = Smaller(c.from, Len(text))
      OBVIOUS
    <2>2. n \in Int /\ n <= Len(text)
      BY <1>1, <2>1 DEF Smaller
    <2>3. \A i \in 1 .. n : text[i] \in 1 .. MaxEdits
      BY <1>1, <1>2, <2>2
    <2>4. SubSeq(text, 1, n) \in Seq(1 .. MaxEdits)
      BY <2>2, <2>3, SubSeqProperties
    <2>5. QED
      BY <2>1, <2>4
  <1>4. after \in Seq(1 .. MaxEdits)
    <2>1. PICK m : m = Smaller(c.to, Len(text)) + 1
      OBVIOUS
    <2>2. m \in Int /\ m >= 1
      BY <1>1, <2>1 DEF Smaller
    <2>3. \A i \in m .. Len(text) : text[i] \in 1 .. MaxEdits
      BY <1>1, <1>2, <2>2
    <2>4. SubSeq(text, m, Len(text)) \in Seq(1 .. MaxEdits)
      BY <1>1, <2>2, <2>3, SubSeqProperties
    <2>5. QED
      BY <2>1, <2>4
  <1> HIDE DEF before, after
  <1>5. before \o c.text \o after \in Seq(1 .. MaxEdits)
    BY <1>1, <1>3, <1>4, ConcatProperties
  <1>6. QED
    BY <1>5 DEF Edited, before, after, Text

(* What EditedTimes computes on the way, for n rounds.                      *)
Rounds(f, text, c, n) ==
    f = [i \in 0 .. n |-> IF i = 0 THEN text ELSE Edited(f[i - 1], c)]

LEMMA RoundsExist ==
    ASSUME NEW text \in Text, NEW c \in Change
    PROVE  \A n \in Nat : \E f \in [0 .. n -> Text] : Rounds(f, text, c, n)
  <1> DEFINE N == {n \in Nat : \E f \in [0 .. n -> Text] : Rounds(f, text, c, n)}
  <1>1. 0 \in N
    <2> DEFINE f == [i \in 0 .. 0 |-> text]
    <2>1. f \in [0 .. 0 -> Text] /\ Rounds(f, text, c, 0)
      BY DEF Rounds
    <2> HIDE DEF f
    <2>2. QED
      BY <2>1
  <1>2. ASSUME NEW n \in Nat, n \in N PROVE n + 1 \in N
    <2>1. PICK f \in [0 .. n -> Text] : Rounds(f, text, c, n)
      BY <1>2
    <2> DEFINE g == [i \in 0 .. n + 1 |-> IF i = n + 1 THEN Edited(f[n], c) ELSE f[i]]
    <2>2. Edited(f[n], c) \in Text
      BY EditedType
    <2>3. g \in [0 .. n + 1 -> Text]
      BY <2>2
    <2>4. /\ DOMAIN g = 0 .. n + 1 /\ g[n + 1] = Edited(f[n], c)
          /\ \A i \in 0 .. n : g[i] = f[i]
      OBVIOUS
    <2> HIDE DEF g
    <2>5. \A i \in 0 .. n + 1 : g[i] = IF i = 0 THEN text ELSE Edited(g[i - 1], c)
      <3>1. \A i \in 0 .. n : f[i] = IF i = 0 THEN text ELSE Edited(f[i - 1], c)
        BY <2>1 DEF Rounds
      <3>2. \A i \in 1 .. n : i - 1 \in 0 .. n
        OBVIOUS
      <3>3. ASSUME NEW i \in 0 .. n + 1
            PROVE  g[i] = IF i = 0 THEN text ELSE Edited(g[i - 1], c)
        <4>1. CASE i = n + 1
          BY <2>4, <4>1
        <4>2. CASE i \in 1 .. n
          BY <2>4, <3>1, <3>2, <4>2
        <4>3. CASE i = 0
          BY <2>4, <3>1, <4>3
        <4>4. QED
          BY <4>1, <4>2, <4>3
      <3>4. QED
        BY <3>3
    <2>6. Rounds(g, text, c, n + 1)
      BY <2>3, <2>5 DEF Rounds
    <2>7. QED
      BY <2>3, <2>6
  <1> HIDE DEF N
  <1>3. \A n \in Nat : n \in N
    BY <1>1, <1>2, NumberInduction
  <1>4. QED
    BY <1>3 DEF N

LEMMA RoundsUnique ==
    ASSUME NEW n \in Nat, NEW text, NEW c, NEW f, NEW g,
           Rounds(f, text, c, n), Rounds(g, text, c, n)
    PROVE  f = g
  <1> DEFINE N == {i \in Nat : i \in 0 .. n => f[i] = g[i]}
  <1>1. /\ \A i \in 0 .. n : f[i] = IF i = 0 THEN text ELSE Edited(f[i - 1], c)
        /\ \A i \in 0 .. n : g[i] = IF i = 0 THEN text ELSE Edited(g[i - 1], c)
    BY DEF Rounds
  <1>2. 0 \in N
    BY <1>1
  <1>3. ASSUME NEW i \in Nat, i \in N PROVE i + 1 \in N
    <2> SUFFICES ASSUME i + 1 \in 0 .. n PROVE f[i + 1] = g[i + 1]
      OBVIOUS
    <2>1. i \in 0 .. n /\ i + 1 # 0 /\ (i + 1) - 1 = i
      OBVIOUS
    <2>2. f[i] = g[i]
      BY <1>3, <2>1
    <2>3. f[i + 1] = Edited(f[i], c) /\ g[i + 1] = Edited(g[i], c)
      BY <1>1, <2>1
    <2>4. QED
      BY <2>2, <2>3
  <1> HIDE DEF N
  <1>4. \A i \in Nat : i \in N
    BY <1>2, <1>3, NumberInduction
  <1>5. \A i \in 0 .. n : f[i] = g[i]
    BY <1>4 DEF N
  <1>6. QED
    <2>1. f = [i \in 0 .. n |-> f[i]] /\ g = [i \in 0 .. n |-> g[i]]
      BY DEF Rounds
    <2>2. QED
      BY <1>5, <2>1

LEMMA EditedTimesIs ==
    ASSUME NEW text \in Text, NEW c \in Change, NEW n \in Nat
    PROVE  \E f \in [0 .. n -> Text] : Rounds(f, text, c, n) /\ EditedTimes(text, c, n) = f[n]
  <1> DEFINE after[i \in 0 .. n] == IF i = 0 THEN text ELSE Edited(after[i - 1], c)
  <1>1. PICK f \in [0 .. n -> Text] : Rounds(f, text, c, n)
    BY RoundsExist
  <1>2. EditedTimes(text, c, n) = after[n]
    BY DEF EditedTimes
  <1>3. after = CHOOSE g : g = [i \in 0 .. n |-> IF i = 0 THEN text ELSE Edited(g[i - 1], c)]
    OBVIOUS
  <1>4. Rounds(after, text, c, n)
    BY <1>1, <1>3 DEF Rounds
  <1>5. QED
    BY <1>1, <1>2, <1>4, RoundsUnique

LEMMA EditedTimesType ==
    ASSUME NEW text \in Text, NEW c \in Change, NEW n \in Nat
    PROVE  EditedTimes(text, c, n) \in Text
  <1>1. PICK f \in [0 .. n -> Text] : EditedTimes(text, c, n) = f[n]
    BY EditedTimesIs
  <1>2. QED
    BY <1>1

LEMMA EditedOnce ==
    ASSUME NEW text \in Text, NEW c \in Change
    PROVE  EditedTimes(text, c, 1) = Edited(text, c)
  <1>1. PICK f \in [0 .. 1 -> Text] : Rounds(f, text, c, 1) /\ EditedTimes(text, c, 1) = f[1]
    BY EditedTimesIs
  <1>2. f[0] = text /\ f[1] = Edited(f[0], c)
    BY <1>1 DEF Rounds
  <1>3. QED
    BY <1>1, <1>2

----------------------------------------------------------------------------
(* Types.                                                                   *)

LEMMA ChangesType ==
    ASSUME NEW text \in Text, NEW new \in 1 .. MaxEdits
    PROVE  Changes(text, new) \subseteq Change
  <1>1. Len(text) \in Nat
    BY LenProperties DEF Text
  <1>2. << >> \in Text /\ <<new>> \in Text
    BY EmptySeq DEF Text
  <1>3. QED
    BY <1>1, <1>2 DEF Changes, Change

LEMMA SentType ==
    ASSUME NEW w \in Window, NEW c \in Change, NEW n \in Nat,
           toServer \in [Window -> Seq(Change)], Sent(w, c, n)
    PROVE  toServer' \in [Window -> Seq(Change)]
  <1> DEFINE copies == [i \in 1 .. n |-> c]
  <1>1. copies \in Seq(Change)
    BY IsASeq
  <1> HIDE DEF copies
  <1>2. toServer[w] \o copies \in Seq(Change)
    BY <1>1, ConcatProperties
  <1>3. toServer' = [toServer EXCEPT ![w] = IF socketOpen[w] THEN @ \o copies ELSE @]
    BY DEF Sent, copies
  <1>4. QED
    BY <1>2, <1>3

LEMMA InitType == Init => TypeOK
  <1> SUFFICES ASSUME Init PROVE TypeOK
    OBVIOUS
  <1>1. << >> \in Text /\ << >> \in Seq(Change) /\ << >> \in Seq(Event)
    BY EmptySeq DEF Text
  <1>2. 0 \in 0 .. MaxEdits
    BY SessionAssumption
  <1>3. QED
    BY <1>1, <1>2 DEF Init, TypeOK, Event

LEMMA EditType ==
    ASSUME TypeOK, NEW w \in Window, Edit(w)
    PROVE  TypeOK'
  <1> USE DEF TypeOK
  <1>1. edits' \in 1 .. MaxEdits /\ edits' \in 0 .. MaxEdits
    BY SessionAssumption DEF Edit
  <1>2. PICK c \in Changes(model[w], edits') :
           /\ model' = [model EXCEPT ![w] = Edited(@, c)]
           /\ Sent(w, c, Editors[w])
    BY DEF Edit
  <1>3. c \in Change
    BY <1>1, <1>2, ChangesType
  <1>4. Edited(model[w], c) \in Text
    BY <1>3, EditedType
  <1>5. model' \in [Window -> Text]
    BY <1>2, <1>4
  <1>6. Editors[w] \in Nat
    BY SessionAssumption
  <1>7. toServer' \in [Window -> Seq(Change)]
    BY <1>2, <1>3, <1>6, SentType
  <1>8. disturbed' \in BOOLEAN
    BY DEF Edit, Behind
  <1>9. QED
    BY <1>1, <1>5, <1>7, <1>8 DEF Edit

LEMMA EditElsewhereType ==
    ASSUME TypeOK, NEW w \in Window, EditElsewhere(w)
    PROVE  TypeOK'
  <1> USE DEF TypeOK
  <1> DEFINE c == [from |-> 0, to |-> 0, text |-> <<edits'>>]
  <1>1. edits' \in 1 .. MaxEdits /\ edits' \in 0 .. MaxEdits
    BY SessionAssumption DEF EditElsewhere
  <1>2. c \in Change
    BY <1>1 DEF Change, Text
  <1>3. Sent(w, c, 1)
    BY DEF EditElsewhere
  <1> HIDE DEF c
  <1>4. toServer' \in [Window -> Seq(Change)]
    BY <1>2, <1>3, SentType
  <1>5. QED
    BY <1>1, <1>4 DEF EditElsewhere

LEMMA HandleType ==
    ASSUME TypeOK, NEW w \in Window, HandleTextEdit(w)
    PROVE  TypeOK'
  <1> USE DEF TypeOK
  <1>1. toClient[w] \in Seq(Event) /\ toClient[w] # << >>
    BY DEF HandleTextEdit, Handle, Event
  <1>2. Head(toClient[w]) \in Event /\ Tail(toClient[w]) \in Seq(Event)
    BY <1>1, HeadTailProperties
  <1>3. toClient' \in [Window -> Seq(Event)]
    BY <1>2 DEF HandleTextEdit, Handle, Event
  <1>4. Head(toClient[w]).change \in Change /\ Editors[w] \in Nat
    BY <1>2, SessionAssumption DEF Event
  <1>5. EditedTimes(model[w], Head(toClient[w]).change, Editors[w]) \in Text
    BY <1>4, EditedTimesType
  <1>6. model' \in [Window -> Text]
    BY <1>5 DEF HandleTextEdit, Handle
  <1>7. QED
    BY <1>3, <1>6 DEF HandleTextEdit, Handle, Event

LEMMA RelayType ==
    ASSUME TypeOK, NEW w \in Window, Relay(w)
    PROVE  TypeOK'
  <1> USE DEF TypeOK
  <1> DEFINE e == [username |-> Username[w], change |-> Head(toServer[w])]
  <1>1. toServer[w] \in Seq(Change) /\ toServer[w] # << >>
    BY DEF Relay
  <1>2. Head(toServer[w]) \in Change /\ Tail(toServer[w]) \in Seq(Change)
    BY <1>1, HeadTailProperties
  <1>3. e \in Event
    BY <1>2, SessionAssumption DEF Event
  <1>4. toClient' = [v \in Window |-> IF socketOpen[v] THEN Append(toClient[v], e) ELSE toClient[v]]
    BY DEF Relay
  <1> HIDE DEF e
  <1>5. \A v \in Window : toClient[v] \in Seq(Event) /\ Append(toClient[v], e) \in Seq(Event)
    BY <1>3, AppendProperties DEF Event
  <1>6. toClient' \in [Window -> Seq(Event)]
    BY <1>4, <1>5
  <1>7. toServer' \in [Window -> Seq(Change)]
    BY <1>2 DEF Relay
  <1>8. QED
    BY <1>6, <1>7 DEF Relay, Event

LEMMA SocketClosesType ==
    ASSUME TypeOK, NEW w \in Window, SocketCloses(w)
    PROVE  TypeOK'
  <1> USE DEF TypeOK
  <1>1. PICK n \in 0 .. Len(toServer[w]) :
            toServer' = [toServer EXCEPT ![w] = SubSeq(@, 1, n)]
    BY DEF SocketCloses
  <1>2. toServer[w] \in Seq(Change) /\ Len(toServer[w]) \in Nat
    BY LenProperties
  <1>3. \A i \in 1 .. n : toServer[w][i] \in Change
    BY <1>2, ElementOfSeq
  <1>4. SubSeq(toServer[w], 1, n) \in Seq(Change)
    BY <1>2, <1>3, SubSeqProperties
  <1>5. toServer' \in [Window -> Seq(Change)]
    BY <1>1, <1>4
  <1>6. << >> \in Seq(Event)
    BY EmptySeq
  <1>7. toClient' \in [Window -> Seq(Event)]
    BY <1>6 DEF SocketCloses, Event
  <1>8. QED
    BY <1>5, <1>7 DEF SocketCloses, Event

LEMMA NextType == TypeOK /\ [Next]_vars => TypeOK'
  <1> SUFFICES ASSUME TypeOK, [Next]_vars PROVE TypeOK'
    OBVIOUS
  <1>1. CASE UNCHANGED vars
    BY <1>1 DEF TypeOK, vars
  <1>2. CASE Next
    <2>1. PICK w \in Window : Edit(w) \/ EditElsewhere(w) \/ HandleTextEdit(w)
                              \/ Relay(w) \/ SocketCloses(w)
      BY <1>2 DEF Next
    <2>2. QED
      BY <2>1, EditType, EditElsewhereType, HandleType, RelayType, SocketClosesType
  <1>3. QED
    BY <1>1, <1>2

\* Whatever windows, users and editors there are, texts, changes and messages keep
\* their types: an edit beyond the end of a text that has become shorter leaves a
\* text (applyRemoteEdit).
THEOREM TypeCorrect == Spec => []TypeOK
  <1>1. Init => TypeOK
    BY InitType
  <1>2. TypeOK /\ [Next]_vars => TypeOK'
    BY NextType
  <1>3. QED
    BY <1>1, <1>2, PTL DEF Spec

----------------------------------------------------------------------------
(* Taking turns.  Reads(f, text, es, own): text is what a window has, es are *)
(* the events that it is still to handle, those of the users in own without *)
(* effect; f[n] is its text after n of them.                                *)

After(text, e, own) == IF e.username \in own THEN text ELSE Edited(text, e.change)

Reads(f, text, es, own) ==
    /\ f \in [0 .. Len(es) -> Text]
    /\ f[0] = text
    /\ \A i \in 1 .. Len(es) : f[i] = After(f[i - 1], es[i], own)

Becomes(text, es, own, last) ==
    \E f : Reads(f, text, es, own) /\ f[Len(es)] = last

LEMMA AfterType ==
    ASSUME NEW text \in Text, NEW e \in Event, NEW own
    PROVE  After(text, e, own) \in Text
  BY EditedType DEF After, Event

LEMMA BecomesType ==
    ASSUME NEW text, NEW es \in Seq(Event), NEW own, NEW last, Becomes(text, es, own, last)
    PROVE  text \in Text /\ last \in Text
  <1>1. Len(es) \in Nat
    BY LenProperties
  <1>2. QED
    BY <1>1 DEF Becomes, Reads

\* With nothing to handle, the text stays what it is.
LEMMA NothingToRead ==
    ASSUME NEW text \in Text, NEW own, NEW last
    PROVE  Becomes(text, << >>, own, last) <=> last = text
  <1>1. Len(<< >>) = 0
    BY EmptySeq
  <1>2. ASSUME last = text PROVE Becomes(text, << >>, own, last)
    <2> DEFINE f == [i \in 0 .. 0 |-> text]
    <2>1. f \in [0 .. 0 -> Text] /\ f[0] = text
      OBVIOUS
    <2> HIDE DEF f
    <2>2. Reads(f, text, << >>, own)
      BY <1>1, <2>1 DEF Reads
    <2>3. QED
      BY <1>1, <1>2, <2>1, <2>2 DEF Becomes
  <1>3. ASSUME Becomes(text, << >>, own, last) PROVE last = text
    BY <1>1, <1>3 DEF Becomes, Reads
  <1>4. QED
    BY <1>2, <1>3

\* One more event at the end.
LEMMA OneMoreToRead ==
    ASSUME NEW text, NEW es \in Seq(Event), NEW own, NEW last, NEW e \in Event,
           Becomes(text, es, own, last)
    PROVE  Becomes(text, Append(es, e), own, After(last, e, own))
  <1> DEFINE more == Append(es, e)
             n == Len(es)
             next == After(last, e, own)
  <1>1. PICK f : Reads(f, text, es, own) /\ f[n] = last
    BY DEF Becomes
  <1>2. /\ n \in Nat /\ Len(more) = n + 1 /\ more[n + 1] = e
        /\ \A i \in 1 .. n : more[i] = es[i]
    BY AppendProperties, LenProperties
  <1>3. next \in Text
    BY BecomesType, AfterType
  <1> HIDE DEF more, n, next
  <1> DEFINE g == [i \in 0 .. n + 1 |-> IF i = n + 1 THEN next ELSE f[i]]
  <1>4. f \in [0 .. n -> Text] /\ f[0] = text
        /\ \A i \in 1 .. n : f[i] = After(f[i - 1], es[i], own)
    BY <1>1 DEF Reads, n
  <1>5. g \in [0 .. n + 1 -> Text]
    BY <1>2, <1>3, <1>4
  <1>6. g[n + 1] = next /\ \A i \in 0 .. n : g[i] = f[i]
    BY <1>2
  <1> HIDE DEF g
  <1>7. ASSUME NEW i \in 1 .. n + 1 PROVE g[i] = After(g[i - 1], more[i], own)
    <2>1. CASE i = n + 1
      <3>1. i - 1 = n /\ n \in 0 .. n
        BY <1>2, <2>1
      <3>2. g[i - 1] = last
        BY <1>1, <1>6, <3>1
      <3>3. QED
        BY <1>2, <1>6, <2>1, <3>2 DEF next
    <2>2. CASE i \in 1 .. n
      <3>1. i \in 0 .. n /\ i - 1 \in 0 .. n
        BY <1>2, <2>2
      <3>2. QED
        BY <1>2, <1>4, <1>6, <2>2, <3>1
    <2>3. QED
      BY <1>2, <2>1, <2>2
  <1>8. g[0] = text
    BY <1>2, <1>4, <1>6
  <1>9. Reads(g, text, more, own)
    BY <1>2, <1>5, <1>7, <1>8 DEF Reads
  <1>10. g[Len(more)] = next
    BY <1>2, <1>6
  <1>11. QED
    BY <1>9, <1>10 DEF Becomes, more, next

\* One event is handled.
LEMMA OneRead ==
    ASSUME NEW text, NEW es \in Seq(Event), NEW own, NEW last, es # << >>,
           Becomes(text, es, own, last)
    PROVE  Becomes(After(text, Head(es), own), Tail(es), own, last)
  <1> DEFINE rest == Tail(es)
             n == Len(es)
             first == After(text, Head(es), own)
  <1>1. PICK f : Reads(f, text, es, own) /\ f[n] = last
    BY DEF Becomes
  <1>2. /\ n \in Nat /\ n # 0 /\ Len(rest) = n - 1 /\ Head(es) = es[1]
        /\ \A i \in 1 .. n - 1 : rest[i] = es[i + 1]
    BY HeadTailProperties, LenProperties, EmptySeq
  <1> HIDE DEF rest, n
  <1> DEFINE g == [i \in 0 .. n - 1 |-> f[i + 1]]
  <1>3. f \in [0 .. n -> Text] /\ f[0] = text
        /\ \A i \in 1 .. n : f[i] = After(f[i - 1], es[i], own)
    BY <1>1 DEF Reads, n
  <1>4. g \in [0 .. n - 1 -> Text]
    BY <1>2, <1>3
  <1>5. \A i \in 0 .. n - 1 : g[i] = f[i + 1]
    OBVIOUS
  <1> HIDE DEF g
  <1>6. g[0] = first
    <2>1. 0 \in 0 .. n - 1 /\ 1 \in 1 .. n /\ 0 + 1 = 1 /\ 1 - 1 = 0
      BY <1>2
    <2>2. QED
      BY <1>2, <1>3, <1>5, <2>1
  <1>7. ASSUME NEW i \in 1 .. n - 1 PROVE g[i] = After(g[i - 1], rest[i], own)
    <2>1. i \in 0 .. n - 1 /\ i - 1 \in 0 .. n - 1 /\ i + 1 \in 1 .. n
          /\ (i + 1) - 1 = i /\ (i - 1) + 1 = i
      BY <1>2
    <2>2. f[i + 1] = After(f[i], es[i + 1], own)
      BY <1>3, <2>1
    <2>3. g[i] = f[i + 1] /\ g[i - 1] = f[i]
      BY <1>5, <2>1
    <2>4. QED
      BY <1>2, <2>2, <2>3
  <1> HIDE DEF first
  <1>8. Reads(g, first, rest, own)
    BY <1>2, <1>4, <1>6, <1>7 DEF Reads
  <1>9. g[Len(rest)] = last
    <2>1. n - 1 \in 0 .. n - 1 /\ (n - 1) + 1 = n
      BY <1>2
    <2>2. QED
      BY <1>1, <1>2, <1>5, <2>1
  <1>10. QED
    BY <1>8, <1>9 DEF Becomes, rest, first

\* Events of the window's own user leave the text as it is.
LEMMA OwnWithoutEffect ==
    ASSUME NEW text \in Text, NEW es \in Seq(Event), NEW own, NEW last,
           \A i \in 1 .. Len(es) : es[i].username \in own
    PROVE  Becomes(text, es, own, last) <=> last = text
  <1> DEFINE n == Len(es)
  <1>1. n \in Nat
    BY LenProperties
  <1>2. \A i \in 1 .. n : \A t : After(t, es[i], own) = t
    BY DEF After
  <1> HIDE DEF n
  <1>3. ASSUME last = text PROVE Becomes(text, es, own, last)
    <2> DEFINE f == [i \in 0 .. n |-> text]
    <2>1. f \in [0 .. n -> Text] /\ \A i \in 0 .. n : f[i] = text
      OBVIOUS
    <2> HIDE DEF f
    <2>2. 0 \in 0 .. n /\ n \in 0 .. n /\ \A i \in 1 .. n : i \in 0 .. n /\ i - 1 \in 0 .. n
      BY <1>1
    <2>3. Reads(f, text, es, own)
      BY <1>2, <2>1, <2>2 DEF Reads, n
    <2>4. QED
      BY <1>3, <2>1, <2>2, <2>3 DEF Becomes, n
  <1>4. ASSUME Becomes(text, es, own, last) PROVE last = text
    <2>1. PICK f : Reads(f, text, es, own) /\ f[n] = last
      BY <1>4 DEF Becomes, n
    <2>2. f[0] = text /\ \A i \in 1 .. n : f[i] = After(f[i - 1], es[i], own)
      BY <2>1 DEF Reads, n
    <2> DEFINE N == {i \in Nat : i <= n => f[i] = text}
    <2>3. 0 \in N
      BY <2>2
    <2>4. ASSUME NEW i \in Nat, i \in N PROVE i + 1 \in N
      <3> SUFFICES ASSUME i + 1 <= n PROVE f[i + 1] = text
        OBVIOUS
      <3>1. i + 1 \in 1 .. n /\ (i + 1) - 1 = i /\ i <= n
        BY <1>1
      <3>2. f[i] = text
        BY <2>4, <3>1
      <3>3. f[i + 1] = After(f[i], es[i + 1], own)
        BY <2>2, <3>1
      <3>4. QED
        BY <1>2, <3>1, <3>2, <3>3
    <2> HIDE DEF N
    <2>5. \A i \in Nat : i \in N
      BY <2>3, <2>4, NumberInduction
    <2>6. QED
      BY <1>1, <2>1, <2>5 DEF N
  <1>5. QED
    BY <1>3, <1>4

\* The changes cs of the user u, as the events that the relay makes of them.
Events(cs, u) == [i \in 1 .. Len(cs) |-> [username |-> u, change |-> cs[i]]]

LEMMA EventsType ==
    ASSUME NEW cs \in Seq(Change), NEW u \in User
    PROVE  Events(cs, u) \in Seq(Event) /\ Len(Events(cs, u)) = Len(cs)
  <1>1. Len(cs) \in Nat /\ \A i \in 1 .. Len(cs) : cs[i] \in Change
    BY LenProperties, ElementOfSeq
  <1>2. QED
    BY <1>1 DEF Events, Event

LEMMA EventsEmpty ==
    ASSUME NEW u \in User
    PROVE  Events(<< >>, u) = << >>
  <1>1. << >> \in Seq(Change) /\ Len(<< >>) = 0
    BY EmptySeq
  <1>2. QED
    BY <1>1, EventsType, EmptySeq

LEMMA EventsAppend ==
    ASSUME NEW cs \in Seq(Change), NEW u \in User, NEW c \in Change
    PROVE  Events(Append(cs, c), u) = Append(Events(cs, u), [username |-> u, change |-> c])
  <1> DEFINE more == Append(cs, c)
             e == [username |-> u, change |-> c]
             es == Events(cs, u)
             n == Len(cs)
  <1>1. /\ n \in Nat /\ more \in Seq(Change) /\ Len(more) = n + 1 /\ more[n + 1] = c
        /\ \A i \in 1 .. n : more[i] = cs[i]
    BY AppendProperties, LenProperties
  <1>2. e \in Event /\ es \in Seq(Event) /\ Len(es) = n
    BY EventsType DEF Event
  <1>3. \A i \in 1 .. n : es[i] = [username |-> u, change |-> cs[i]]
    BY DEF Events
  <1>4. \A i \in 1 .. Len(more) : Events(more, u)[i] = [username |-> u, change |-> more[i]]
    BY DEF Events
  <1>5. Events(more, u) \in Seq(Event) /\ Len(Events(more, u)) = n + 1
    BY <1>1, EventsType
  <1>6. /\ Append(es, e) \in Seq(Event) /\ Len(Append(es, e)) = n + 1
        /\ Append(es, e)[n + 1] = e /\ \A i \in 1 .. n : Append(es, e)[i] = es[i]
    <2> HIDE DEF e, es, n
    <2>1. QED
      BY <1>2, AppendProperties
  <1>7. e = [username |-> u, change |-> c]
    OBVIOUS
  <1> HIDE DEF more, e, es, n
  <1> DEFINE left == Events(more, u)
             right == Append(es, e)
  <1>8. /\ left \in Seq(Event) /\ Len(left) = n + 1
        /\ right \in Seq(Event) /\ Len(right) = n + 1
        /\ left[n + 1] = e /\ right[n + 1] = e
        /\ \A i \in 1 .. n : left[i] = [username |-> u, change |-> cs[i]]
        /\ \A i \in 1 .. n : right[i] = [username |-> u, change |-> cs[i]]
    <2>1. \A i \in 1 .. n : i \in 1 .. Len(more) /\ Len(more) \in 1 .. Len(more)
      BY <1>1
    <2>2. n + 1 \in 1 .. Len(more)
      BY <1>1
    <2>3. left[n + 1] = e
      BY <1>1, <1>4, <1>7, <2>2
    <2>4. \A i \in 1 .. n : left[i] = [username |-> u, change |-> cs[i]]
      BY <1>1, <1>4, <2>1
    <2>5. QED
      BY <1>3, <1>5, <1>6, <2>3, <2>4
  <1> HIDE DEF left, right
  <1>9. \A i \in 1 .. n + 1 : left[i] = right[i]
    <2>1. n \in Nat
      BY <1>1
    <2>2. \A i \in 1 .. n + 1 : i = n + 1 \/ i \in 1 .. n
      BY <2>1
    <2>3. \A i \in 1 .. n : left[i] = right[i]
      BY <1>8
    <2>4. left[n + 1] = right[n + 1]
      BY <1>8
    <2>5. QED
      BY <2>2, <2>3, <2>4
  <1>10. left = right
    BY <1>8, <1>9, SeqEqual
  <1>11. QED
    BY <1>10 DEF left, right, more, e, es

LEMMA EventsTail ==
    ASSUME NEW cs \in Seq(Change), NEW u \in User, cs # << >>
    PROVE  /\ Events(cs, u) # << >>
           /\ Head(Events(cs, u)) = [username |-> u, change |-> Head(cs)]
           /\ Tail(Events(cs, u)) = Events(Tail(cs), u)
  <1> DEFINE es == Events(cs, u)
             n == Len(cs)
  <1>1. /\ n \in Nat /\ n # 0 /\ Tail(cs) \in Seq(Change) /\ Len(Tail(cs)) = n - 1
        /\ Head(cs) = cs[1] /\ \A i \in 1 .. n - 1 : Tail(cs)[i] = cs[i + 1]
    BY HeadTailProperties, LenProperties, EmptySeq
  <1>2. es \in Seq(Event) /\ Len(es) = n
    BY EventsType
  <1>3. \A i \in 1 .. n : es[i] = [username |-> u, change |-> cs[i]]
    BY DEF Events
  <1>4. /\ Events(Tail(cs), u) \in Seq(Event) /\ Len(Events(Tail(cs), u)) = n - 1
    BY <1>1, EventsType
  <1>5. \A i \in 1 .. n - 1 : Events(Tail(cs), u)[i] = [username |-> u, change |-> Tail(cs)[i]]
    BY <1>1 DEF Events
  <1> HIDE DEF es, n
  <1>6. es # << >>
    BY <1>1, <1>2, EmptySeq
  <1>7. /\ Tail(es) \in Seq(Event) /\ Len(Tail(es)) = n - 1 /\ Head(es) = es[1]
        /\ \A i \in 1 .. n - 1 : Tail(es)[i] = es[i + 1]
    BY <1>2, <1>6, HeadTailProperties
  <1>8. \A i \in 1 .. n - 1 : Tail(es)[i] = Events(Tail(cs), u)[i]
    <2> TAKE i \in 1 .. n - 1
    <2>1. i + 1 \in 1 .. n
      BY <1>1
    <2>2. QED
      BY <1>1, <1>3, <1>5, <1>7, <2>1
  <1>9. Tail(es) = Events(Tail(cs), u)
    BY <1>4, <1>7, <1>8, SeqEqual
  <1>10. Head(es) = [username |-> u, change |-> Head(cs)]
    BY <1>1, <1>3, <1>7
  <1>11. QED
    BY <1>6, <1>9, <1>10 DEF es

----------------------------------------------------------------------------
(* While users take turns, there is one whose changes are under way to the  *)
(* relay, and a text that everyone else will have before them: the author   *)
(* has, or will have, what the changes make of it.                          *)

Together(a, text) ==
    /\ \A u \in Window \ {a} : toServer[u] = << >>
    /\ \A w \in Window \ {a} :
          socketOpen[w] => Becomes(model[w], toClient[w], {Username[w]}, text)
    /\ socketOpen[a] =>
          \E last : /\ Becomes(model[a], toClient[a], {Username[a]}, last)
                    /\ Becomes(text, Events(toServer[a], Username[a]), {}, last)

TurnsInv == disturbed \/ Window = {} \/ \E a \in Window, text \in Text : Together(a, text)

OneWindowEach == \A v, w \in Window : Username[v] = Username[w] => v = w
OneEditorEach == \A w \in Window : Editors[w] = 1

LEMMA NamesType == \A w \in Window : Username[w] \in User
  BY SessionAssumption

\* When nothing is under way to the relay, it is anybody's turn.
LEMMA AnybodysTurn ==
    ASSUME TypeOK, NEW a \in Window, NEW text \in Text, Together(a, text), toServer[a] = << >>,
           NEW w \in Window
    PROVE  Together(w, text)
  <1>1. \A u \in Window : toServer[u] = << >>
    BY DEF Together
  <1>2. \A u \in Window : \A last : Becomes(text, Events(toServer[u], Username[u]), {}, last) <=> last = text
    BY <1>1, NamesType, EventsEmpty, NothingToRead
  <1>3. \A v \in Window : socketOpen[v] => Becomes(model[v], toClient[v], {Username[v]}, text)
    BY <1>2 DEF Together
  <1>4. QED
    BY <1>1, <1>2, <1>3 DEF Together

LEMMA InitTurns == Init => TurnsInv
  <1> SUFFICES ASSUME Init, NEW a \in Window PROVE \E text \in Text : Together(a, text)
    BY DEF TurnsInv
  <1>1. << >> \in Text
    BY EmptySeq DEF Text
  <1>2. \A w \in Window : model[w] = << >> /\ toClient[w] = << >> /\ toServer[w] = << >>
    BY DEF Init
  <1>3. \A w \in Window : Becomes(model[w], toClient[w], {Username[w]}, << >>)
    BY <1>1, <1>2, NothingToRead
  <1>4. Becomes(<< >>, Events(toServer[a], Username[a]), {}, << >>)
    BY <1>1, <1>2, NamesType, EventsEmpty, NothingToRead
  <1>5. Together(a, << >>)
    BY <1>2, <1>3, <1>4 DEF Together
  <1>6. QED
    BY <1>1, <1>5

LEMMA EditTurns ==
    ASSUME OneEditorEach, TypeOK, TurnsInv, NEW w \in Window, Edit(w)
    PROVE  TurnsInv'
  <1> SUFFICES ASSUME ~disturbed' PROVE \E text \in Text : Together(w, text)'
    BY DEF TurnsInv
  <1>1. ~disturbed /\ ~Behind(w)
    BY DEF Edit
  <1>2. PICK a \in Window, text \in Text : Together(a, text)
    BY <1>1 DEF TurnsInv
  <1>3. Together(w, text)
    <2>1. CASE a = w
      BY <1>2, <2>1
    <2>2. CASE a # w
      <3>1. toServer[a] = << >>
        BY <1>1, <2>2 DEF Behind
      <3>2. QED
        BY <1>2, <3>1, AnybodysTurn
    <2>3. QED
      BY <2>1, <2>2
  <1>4. PICK c \in Changes(model[w], edits') :
           /\ model' = [model EXCEPT ![w] = Edited(@, c)]
           /\ Sent(w, c, Editors[w])
    BY DEF Edit
  <1>5. edits' \in 1 .. MaxEdits
    BY SessionAssumption DEF Edit, TypeOK
  <1>6. /\ model[w] \in Text /\ toClient[w] \in Seq(Event) /\ toServer[w] \in Seq(Change)
        /\ Username[w] \in User
    BY NamesType DEF TypeOK, Event
  <1>7. c \in Change
    BY <1>4, <1>5, <1>6, ChangesType
  <1>8. Edited(model[w], c) \in Text
    BY <1>6, <1>7, EditedType
  <1>9. model'[w] = Edited(model[w], c) /\ \A v \in Window \ {w} : model'[v] = model[v]
    BY <1>4 DEF TypeOK
  <1>10. /\ \A v \in Window \ {w} : toServer'[v] = toServer[v]
         /\ socketOpen[w] => toServer'[w] = Append(toServer[w], c)
    <2> DEFINE once == [i \in 1 .. 1 |-> c]
    <2>1. once = <<c>>
      OBVIOUS
    <2>2. toServer' = [toServer EXCEPT ![w] = IF socketOpen[w] THEN @ \o once ELSE @]
      BY <1>4 DEF OneEditorEach, Sent
    <2> HIDE DEF once
    <2>3. toServer[w] \o <<c>> = Append(toServer[w], c)
      BY <1>6, <1>7, AppendIsConcat
    <2>4. QED
      BY <2>1, <2>2, <2>3 DEF TypeOK
  <1>11. toClient' = toClient /\ socketOpen' = socketOpen
    BY DEF Edit
  <1>12. \A i \in 1 .. Len(toClient[w]) : toClient[w][i].username \in {Username[w]}
    BY <1>1 DEF Behind
  <1>13. ASSUME socketOpen[w]
         PROVE  /\ Becomes(model'[w], toClient[w], {Username[w]}, model'[w])
                /\ Becomes(text, Events(toServer'[w], Username[w]), {}, model'[w])
    <2> DEFINE e == [username |-> Username[w], change |-> c]
               es == Events(toServer[w], Username[w])
    <2>1. Becomes(model'[w], toClient[w], {Username[w]}, model'[w])
      BY <1>6, <1>8, <1>9, <1>12, OwnWithoutEffect
    <2>2. PICK last : /\ Becomes(model[w], toClient[w], {Username[w]}, last)
                      /\ Becomes(text, es, {}, last)
      BY <1>3, <1>13 DEF Together
    <2>3. last = model[w]
      BY <1>6, <1>12, <2>2, OwnWithoutEffect
    <2>4. e \in Event /\ es \in Seq(Event)
      BY <1>6, <1>7, EventsType DEF Event
    <2>5. Events(toServer'[w], Username[w]) = Append(es, e)
      BY <1>6, <1>7, <1>10, <1>13, EventsAppend
    <2>6. After(last, e, {}) = model'[w]
      BY <1>9, <2>3 DEF After
    <2> HIDE DEF e, es
    <2>7. Becomes(text, Append(es, e), {}, After(last, e, {}))
      BY <2>2, <2>4, OneMoreToRead
    <2>8. QED
      BY <2>1, <2>5, <2>6, <2>7
  <1>14. Together(w, text)'
    BY <1>3, <1>9, <1>10, <1>11, <1>13 DEF Together
  <1>15. QED
    BY <1>14

LEMMA EditElsewhereTurns ==
    ASSUME NEW w \in Window, EditElsewhere(w)
    PROVE  TurnsInv'
  BY DEF EditElsewhere, TurnsInv

LEMMA HandleTurns ==
    ASSUME OneEditorEach, TypeOK, TurnsInv, NEW w \in Window, HandleTextEdit(w)
    PROVE  TurnsInv'
  <1>1. UNCHANGED <<socketOpen, toServer, edits, disturbed>>
    BY DEF HandleTextEdit, Handle
  <1> SUFFICES ASSUME ~disturbed
               PROVE  \E a \in Window, text \in Text : Together(a, text)'
    BY <1>1 DEF TurnsInv
  <1>2. PICK a \in Window, text \in Text : Together(a, text)
    BY DEF TurnsInv
  <1> DEFINE event == Head(toClient[w])
  <1>3. /\ toClient[w] \in Seq(Event) /\ toClient[w] # << >> /\ model[w] \in Text
    BY DEF HandleTextEdit, Handle, TypeOK, Event
  <1>4. event \in Event
    BY <1>3, HeadTailProperties
  <1>5. EditedTimes(model[w], event.change, Editors[w]) = Edited(model[w], event.change)
    BY <1>3, <1>4, EditedOnce DEF OneEditorEach, Event
  <1>6. /\ toClient'[w] = Tail(toClient[w])
        /\ \A v \in Window \ {w} : toClient'[v] = toClient[v] /\ model'[v] = model[v]
        /\ model'[w] = IF event.username \in {Username[w]} THEN model[w]
                       ELSE EditedTimes(model[w], event.change, Editors[w])
    BY DEF HandleTextEdit, Handle, TypeOK
  <1>7. model'[w] = After(model[w], event, {Username[w]})
    BY <1>5, <1>6 DEF After
  <1>8. \A last : Becomes(model[w], toClient[w], {Username[w]}, last)
                    => Becomes(model'[w], toClient'[w], {Username[w]}, last)
    BY <1>3, <1>6, <1>7, OneRead
  <1>9. \A v \in Window : \A last :
           Becomes(model[v], toClient[v], {Username[v]}, last)
             => Becomes(model'[v], toClient'[v], {Username[v]}, last)
    BY <1>6, <1>8
  <1>10. Together(a, text)'
    BY <1>1, <1>2, <1>9 DEF Together
  <1>11. QED
    BY <1>10

LEMMA RelayTurns ==
    ASSUME OneWindowEach, TypeOK, TurnsInv, NEW w \in Window, Relay(w)
    PROVE  TurnsInv'
  <1>1. UNCHANGED <<model, socketOpen, edits, disturbed>> /\ toServer[w] # << >>
    BY DEF Relay
  <1> SUFFICES ASSUME ~disturbed
               PROVE  \E text \in Text : Together(w, text)'
    BY <1>1 DEF TurnsInv
  <1>2. PICK text \in Text : Together(w, text)
    BY <1>1 DEF TurnsInv, Together
  <1> DEFINE c == Head(toServer[w])
             e == [username |-> Username[w], change |-> c]
  <1>3. /\ toServer[w] \in Seq(Change) /\ Username[w] \in User
        /\ \A v \in Window : toClient[v] \in Seq(Event)
    BY NamesType DEF TypeOK, Event
  <1>4. c \in Change
    BY <1>1, <1>3, HeadTailProperties
  <1>5. e \in Event /\ Edited(text, c) \in Text
    BY <1>3, <1>4, EditedType DEF Event
  <1> PICK next \in Text : next = Edited(text, c)
    BY <1>5
  <1>6. /\ toServer'[w] = Tail(toServer[w])
        /\ \A v \in Window \ {w} : toServer'[v] = toServer[v]
        /\ \A v \in Window : socketOpen[v] => toClient'[v] = Append(toClient[v], e)
    BY DEF Relay, TypeOK
  <1>7. After(text, e, {}) = next /\ e.username = Username[w]
    BY DEF After
  <1> HIDE DEF c, e
  <1>8. \A v \in Window \ {w} : After(text, e, {Username[v]}) = next
    <2>1. \A v \in Window \ {w} : e.username \notin {Username[v]}
      BY <1>7 DEF OneWindowEach
    <2>2. QED
      BY <1>7, <2>1 DEF After
  <1>9. \A v \in Window \ {w} :
           socketOpen[v] => Becomes(model[v], toClient'[v], {Username[v]}, next)
    <2> SUFFICES ASSUME NEW v \in Window \ {w}, socketOpen[v]
                 PROVE  Becomes(model[v], toClient'[v], {Username[v]}, next)
      OBVIOUS
    <2>1. Becomes(model[v], toClient[v], {Username[v]}, text)
      BY <1>2 DEF Together
    <2>2. Becomes(model[v], Append(toClient[v], e), {Username[v]}, After(text, e, {Username[v]}))
      BY <1>3, <1>5, <2>1, OneMoreToRead
    <2>3. QED
      BY <1>6, <1>8, <2>2
  <1>10. ASSUME socketOpen[w]
         PROVE  \E last : /\ Becomes(model[w], toClient'[w], {Username[w]}, last)
                          /\ Becomes(next, Events(toServer'[w], Username[w]), {}, last)
    <2> DEFINE es == Events(toServer[w], Username[w])
    <2>1. PICK last : /\ Becomes(model[w], toClient[w], {Username[w]}, last)
                      /\ Becomes(text, es, {}, last)
      BY <1>2, <1>10 DEF Together
    <2>2. After(last, e, {Username[w]}) = last
      BY <1>7 DEF After
    <2>3. Becomes(model[w], Append(toClient[w], e), {Username[w]}, After(last, e, {Username[w]}))
      BY <1>3, <1>5, <2>1, OneMoreToRead
    <2>4. /\ es \in Seq(Event) /\ es # << >> /\ Head(es) = e
          /\ Tail(es) = Events(toServer'[w], Username[w])
      BY <1>1, <1>3, <1>6, EventsType, EventsTail DEF e, c
    <2> HIDE DEF es
    <2>5. Becomes(After(text, Head(es), {}), Tail(es), {}, last)
      BY <2>1, <2>4, OneRead
    <2>6. QED
      BY <1>6, <1>7, <1>10, <2>2, <2>3, <2>4, <2>5
  <1>11. Together(w, next)'
    BY <1>1, <1>2, <1>6, <1>9, <1>10 DEF Together
  <1>12. QED
    BY <1>11

LEMMA SocketClosesTurns ==
    ASSUME TypeOK, TurnsInv, NEW w \in Window, SocketCloses(w)
    PROVE  TurnsInv'
  <1>1. UNCHANGED <<model, edits, disturbed>>
    BY DEF SocketCloses
  <1> SUFFICES ASSUME ~disturbed
               PROVE  \E a \in Window, text \in Text : Together(a, text)'
    BY <1>1 DEF TurnsInv
  <1>2. PICK a \in Window, text \in Text : Together(a, text)
    BY DEF TurnsInv
  <1>3. PICK n \in 0 .. Len(toServer[w]) :
            toServer' = [toServer EXCEPT ![w] = SubSeq(@, 1, n)]
    BY DEF SocketCloses
  <1>4. /\ ~socketOpen'[w]
        /\ \A v \in Window \ {w} : /\ socketOpen'[v] = socketOpen[v]
                                   /\ toClient'[v] = toClient[v]
                                   /\ toServer'[v] = toServer[v]
    BY <1>3 DEF SocketCloses, TypeOK
  <1>5. toServer[w] = << >> => toServer'[w] = << >>
    <2> SUFFICES ASSUME toServer[w] = << >> PROVE toServer'[w] = << >>
      OBVIOUS
    <2>1. n = 0
      BY EmptySeq
    <2>2. SubSeq(toServer[w], 1, 0) = << >>
      BY SubSeqEmpty
    <2>3. QED
      BY <1>3, <2>1, <2>2 DEF TypeOK
  <1>6. Together(a, text)'
    BY <1>1, <1>2, <1>4, <1>5 DEF Together
  <1>7. QED
    BY <1>6

LEMMA NextTurns ==
    ASSUME OneWindowEach, OneEditorEach, TypeOK, TurnsInv, [Next]_vars
    PROVE  TurnsInv'
  <1>1. CASE UNCHANGED vars
    BY <1>1 DEF TurnsInv, Together, vars
  <1>2. CASE Next
    <2>1. PICK w \in Window : Edit(w) \/ EditElsewhere(w) \/ HandleTextEdit(w)
                              \/ Relay(w) \/ SocketCloses(w)
      BY <1>2 DEF Next
    <2>2. QED
      BY <2>1, EditTurns, EditElsewhereTurns, HandleTurns, RelayTurns, SocketClosesTurns
  <1>3. QED
    BY <1>1, <1>2

LEMMA TurnsSync ==
    ASSUME TypeOK, TurnsInv
    PROVE  SyncedInTurns
  <1> SUFFICES ASSUME Quiet, ~disturbed, NEW v \in Window, NEW w \in Window,
                      socketOpen[v], socketOpen[w]
               PROVE  model[v] = model[w]
    BY DEF SyncedInTurns, SameText
  <1>1. PICK a \in Window, text \in Text : Together(a, text)
    BY DEF TurnsInv
  <1>2. Together(v, text)
    BY <1>1, AnybodysTurn DEF Quiet
  <1>3. Together(w, text)
    BY <1>1, AnybodysTurn DEF Quiet
  <1>4. \A u \in Window : model[u] \in Text /\ toClient[u] = << >>
    BY DEF Quiet, TypeOK
  <1>5. \A u \in Window : \A last : Becomes(model[u], toClient[u], {Username[u]}, last) <=> last = model[u]
    BY <1>4, NothingToRead
  <1>6. CASE v = w
    BY <1>6
  <1>7. CASE v # w
    <2>1. model[w] = text
      BY <1>2, <1>5, <1>7 DEF Together
    <2>2. model[v] = text
      BY <1>3, <1>5, <1>7 DEF Together
    <2>3. QED
      BY <2>1, <2>2
  <1>8. QED
    BY <1>6, <1>7

\* Where every user has one window, and every window one editor of the file, users
\* who take turns have the same text whenever nothing is under way, whatever they
\* change, however far the relay is behind and whoever loses the connection in
\* the middle of it (sendTextEdit, handleWebSocketEvent, applyRemoteEdit).
THEOREM InTurns ==
    ASSUME OneWindowEach, OneEditorEach
    PROVE  Spec => []SyncedInTurns
  <1>1. Init => TypeOK /\ TurnsInv
    BY InitType, InitTurns
  <1>2. TypeOK /\ TurnsInv /\ [Next]_vars => (TypeOK /\ TurnsInv)'
    BY NextType, NextTurns
  <1>3. TypeOK /\ TurnsInv => SyncedInTurns
    BY TurnsSync
  <1>4. QED
    BY <1>1, <1>2, <1>3, PTL DEF Spec
=============================================================================
