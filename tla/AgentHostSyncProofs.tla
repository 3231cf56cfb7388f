------------------------- MODULE AgentHostSyncProofs -------------------------
(***************************************************************************)
(* Proofs about AgentHostSync for any channels, sessions, bounds and       *)
(* buffer, in four parts:                                                   *)
(*  - what Where returns, for sequences of any length.  Induction is over  *)
(*    sets of numbers and of sequences instead of predicates: that a set   *)
(*    of numbers has a least element gives NumberInduction, this gives     *)
(*    SequenceInduction, and each lemma about Where applies it to the set  *)
(*    of sequences for which it holds;                                     *)
(*  - the types of the state and of the messages in flight;                *)
(*  - the channels the agent service has the client registered for are     *)
(*    those its connections are subscribed to, when the host is at rest.   *)
(*    The argument is what the difference is while a request is being      *)
(*    answered: what a reconnection has left to restore, or the channel    *)
(*    being subscribed to;                                                 *)
(*  - the host applies the actions of the client in the order they were    *)
(*    dispatched.  The argument is that the log, the queue behind it, each *)
(*    wire and the outbox are in turn: whatever comes before an action was *)
(*    taken, was forgotten, or is ahead of it at the same place.           *)
(***************************************************************************)
EXTENDS AgentHostSync, SequenceTheorems, WellFoundedInduction, TLAPS

(* Induction over sets instead of predicates: that a set of numbers has a   *)
(* least one is a fact without parameters.                                  *)

LEMMA LeastOne ==
    ASSUME NEW T, T \subseteq Nat, T # {}
    PROVE  \E x \in T : \A y \in T : x <= y
  <1>1. PICK x \in T : \A y \in T : <<y, x>> \notin OpToRel(<, Nat)
    BY NatLessThanWellFounded, WFMin
  <1>2. ASSUME NEW y \in T PROVE x <= y
    <2>1. x \in Nat /\ y \in Nat
      OBVIOUS
    <2>2. CASE y < x
      <3>1. <<y, x>> \in OpToRel(<, Nat)
        BY <2>1, <2>2 DEF OpToRel
      <3>2. QED
        BY <1>1, <3>1, Zenon
    <2>3. QED
      BY <2>1, <2>2
  <1>3. QED
    BY <1>2

LEMMA NumberInduction ==
    ASSUME NEW T, 0 \in T, \A n \in Nat : n \in T => n + 1 \in T
    PROVE  \A n \in Nat : n \in T
  <1> SUFFICES ASSUME Nat \ T # {} PROVE FALSE
    OBVIOUS
  <1>1. PICK x \in Nat \ T : \A y \in Nat \ T : x <= y
    BY LeastOne
  <1>2. x # 0 /\ x - 1 \in Nat /\ ~(x <= x - 1) /\ x = (x - 1) + 1
    BY <1>1
  <1>3. QED
    BY <1>1, <1>2

LEMMA SequenceInduction ==
    ASSUME NEW T, NEW A, <<>> \in A,
           \A s \in Seq(T), x \in T : s \in A => Append(s, x) \in A
    PROVE  \A s \in Seq(T) : s \in A
  <1> DEFINE N == {n \in Nat : \A s \in Seq(T) : Len(s) = n => s \in A}
  <1>1. 0 \in N
    <2>1. \A s \in Seq(T) : Len(s) = 0 => s = <<>>
      BY EmptySeq
    <2>2. QED
      BY <2>1
  <1>2. ASSUME NEW n \in Nat, n \in N PROVE n + 1 \in N
    <2>1. ASSUME NEW s \in Seq(T), Len(s) = n + 1 PROVE s \in A
      <3> DEFINE front == SubSeq(s, 1, n)
      <3>1. /\ front \in Seq(T) /\ Len(front) = n
            /\ \A i \in 1 .. n : front[i] = s[i]
            /\ s[n + 1] \in T
        BY <2>1, SubSeqProperties, ElementOfSeq
      <3>2. s = Append(front, s[n + 1])
        <4>1. /\ Append(front, s[n + 1]) \in Seq(T)
              /\ Len(Append(front, s[n + 1])) = n + 1
              /\ \A i \in 1 .. n : Append(front, s[n + 1])[i] = front[i]
              /\ Append(front, s[n + 1])[n + 1] = s[n + 1]
          BY <3>1, AppendProperties
        <4>2. \A i \in 1 .. n + 1 : i \in 1 .. n \/ i = n + 1
          OBVIOUS
        <4> HIDE DEF front
        <4>3. QED
          BY <2>1, <3>1, <4>1, <4>2, SeqEqual
      <3>3. front \in A
        BY <1>2, <3>1
      <3>4. QED
        BY <3>1, <3>2, <3>3
    <2>2. QED
      BY <2>1
  <1> HIDE DEF N
  <1>3. \A n \in Nat : n \in N
    BY <1>1, <1>2, NumberInduction
  <1>4. QED
    BY <1>3, LenProperties DEF N

-----------------------------------------------------------------------------
(* The recursion of Where has one solution.                                 *)

Keeps(f, s, S) ==
    f = [n \in 0 .. Len(s) |->
           IF n = 0 THEN <<>>
           ELSE IF s[n] \in S THEN Append(f[n - 1], s[n]) ELSE f[n - 1]]

LEMMA KeepsOneWay ==
    ASSUME NEW T, NEW s \in Seq(T), NEW S, NEW f, NEW g, Keeps(f, s, S), Keeps(g, s, S)
    PROVE  f = g
  <1> DEFINE N == {n \in Nat : n <= Len(s) => f[n] = g[n]}
  <1>1. Len(s) \in Nat
    BY LenProperties
  <1>2. 0 \in N
    BY <1>1 DEF Keeps
  <1>3. ASSUME NEW n \in Nat, n \in N PROVE n + 1 \in N
    <2> SUFFICES ASSUME n + 1 <= Len(s) PROVE f[n + 1] = g[n + 1]
      OBVIOUS
    <2>1. /\ n \in 0 .. Len(s) /\ n + 1 \in 0 .. Len(s) /\ n + 1 # 0 /\ (n + 1) - 1 = n
          /\ f[n] = g[n]
      BY <1>1, <1>3
    <2>2. f[n + 1] = IF s[n + 1] \in S THEN Append(f[n], s[n + 1]) ELSE f[n]
      BY <2>1 DEF Keeps
    <2>3. g[n + 1] = IF s[n + 1] \in S THEN Append(g[n], s[n + 1]) ELSE g[n]
      BY <2>1 DEF Keeps
    <2>4. QED
      BY <2>1, <2>2, <2>3
  <1> HIDE DEF N
  <1>4. \A n \in Nat : n \in N
    BY <1>2, <1>3, NumberInduction
  <1>5. \A n \in 0 .. Len(s) : f[n] = g[n]
    BY <1>1, <1>4 DEF N
  <1>6. QED
    BY <1>5 DEF Keeps

LEMMA WhereIs ==
    ASSUME NEW T, NEW s \in Seq(T), NEW S, NEW f, Keeps(f, s, S)
    PROVE  Where(s, S) = f[Len(s)]
  <1>1. \A g : Keeps(g, s, S) => g = f
    BY KeepsOneWay
  <1>2. QED
    BY <1>1 DEF Where, Keeps

LEMMA KeepsOneMore ==
    ASSUME NEW T, NEW s \in Seq(T), NEW x \in T, NEW S, NEW f, Keeps(f, s, S)
    PROVE  \E g : /\ Keeps(g, Append(s, x), S)
                  /\ g[Len(s) + 1] = IF x \in S THEN Append(f[Len(s)], x) ELSE f[Len(s)]
  <1> DEFINE t == Append(s, x)
             last == IF x \in S THEN Append(f[Len(s)], x) ELSE f[Len(s)]
             g == [n \in 0 .. Len(t) |-> IF n = Len(t) THEN last ELSE f[n]]
  <1>1. /\ Len(s) \in Nat /\ Len(t) = Len(s) + 1 /\ t[Len(s) + 1] = x
        /\ \A n \in 1 .. Len(s) : t[n] = s[n]
    BY AppendProperties, LenProperties
  <1> HIDE DEF t
  <1>2. \A n \in 0 .. Len(s) : f[n] = IF n = 0 THEN <<>>
           ELSE IF s[n] \in S THEN Append(f[n - 1], s[n]) ELSE f[n - 1]
    BY DEF Keeps
  <1>3. g[Len(t)] = last /\ \A n \in 0 .. Len(s) : g[n] = f[n]
    BY <1>1
  <1>4. ASSUME NEW n \in 0 .. Len(t)
        PROVE  g[n] = IF n = 0 THEN <<>>
                      ELSE IF t[n] \in S THEN Append(g[n - 1], t[n]) ELSE g[n - 1]
    <2> HIDE DEF g
    <2>1. CASE n = Len(t)
      BY <1>1, <1>3, <2>1
    <2>2. CASE n \in 0 .. Len(s)
      <3>1. CASE n = 0
        BY <1>2, <1>3, <2>2, <3>1
      <3>2. CASE n # 0
        <4>1. n \in 1 .. Len(s) /\ n - 1 \in 0 .. Len(s)
          BY <1>1, <2>2, <3>2
        <4>2. QED
          BY <1>1, <1>2, <1>3, <3>2, <4>1
      <3>3. QED
        BY <3>1, <3>2
    <2>3. QED
      BY <1>1, <2>1, <2>2
  <1>5. Keeps(g, t, S)
    <2>1. g = [n \in 0 .. Len(t) |-> g[n]]
      OBVIOUS
    <2> HIDE DEF g
    <2>2. QED
      BY <1>4, <2>1 DEF Keeps
  <1>6. QED
    BY <1>1, <1>3, <1>5 DEF t

LEMMA KeepsSomeWay ==
    ASSUME NEW T, NEW S
    PROVE  \A s \in Seq(T) : \E f : Keeps(f, s, S)
  <1> DEFINE A == {s \in Seq(T) : \E f : Keeps(f, s, S)}
  <1>1. <<>> \in A
    <2>1. Keeps([n \in {0} |-> <<>>], <<>>, S)
      BY EmptySeq DEF Keeps
    <2>2. QED
      BY <2>1, EmptySeq
  <1>2. ASSUME NEW s \in Seq(T), NEW x \in T, s \in A PROVE Append(s, x) \in A
    BY <1>2, KeepsOneMore, AppendProperties
  <1> HIDE DEF A
  <1>3. \A s \in Seq(T) : s \in A
    BY <1>1, <1>2, SequenceInduction
  <1>4. QED
    BY <1>3 DEF A

LEMMA WhereEmpty ==
    ASSUME NEW S
    PROVE  Where(<<>>, S) = <<>>
  <1>1. <<>> \in Seq({}) /\ Len(<<>>) = 0
    BY EmptySeq
  <1>2. PICK f : Keeps(f, <<>>, S)
    BY <1>1, KeepsSomeWay
  <1>3. f[0] = <<>>
    BY <1>1, <1>2 DEF Keeps
  <1>4. QED
    BY <1>1, <1>2, <1>3, WhereIs

LEMMA WhereAppend ==
    ASSUME NEW T, NEW s \in Seq(T), NEW x \in T, NEW S
    PROVE  Where(Append(s, x), S) = IF x \in S THEN Append(Where(s, S), x) ELSE Where(s, S)
  <1>1. PICK f : Keeps(f, s, S)
    BY KeepsSomeWay
  <1>2. PICK g : /\ Keeps(g, Append(s, x), S)
                 /\ g[Len(s) + 1] = IF x \in S THEN Append(f[Len(s)], x) ELSE f[Len(s)]
    BY <1>1, KeepsOneMore
  <1>3. Append(s, x) \in Seq(T) /\ Len(Append(s, x)) = Len(s) + 1
    BY AppendProperties
  <1>4. Where(s, S) = f[Len(s)]
    BY <1>1, WhereIs
  <1>5. Where(Append(s, x), S) = g[Len(Append(s, x))]
    BY <1>2, <1>3, WhereIs
  <1>6. QED
    BY <1>2, <1>3, <1>4, <1>5

-----------------------------------------------------------------------------
(* What Where computes.                                                     *)

LEMMA ElementsAppend ==
    ASSUME NEW T, NEW s \in Seq(T), NEW x \in T
    PROVE  Elements(Append(s, x)) = Elements(s) \cup {x}
  <1> DEFINE t == Append(s, x)
  <1>1. /\ Len(s) \in Nat /\ Len(t) = Len(s) + 1 /\ t[Len(s) + 1] = x
        /\ \A n \in 1 .. Len(s) : t[n] = s[n]
    BY AppendProperties, LenProperties
  <1> HIDE DEF t
  <1>2. \A n : n \in 1 .. Len(t) <=> n \in 1 .. Len(s) \/ n = Len(s) + 1
    BY <1>1
  <1>3. Elements(t) = Elements(s) \cup {x}
    BY <1>1, <1>2 DEF Elements
  <1>4. QED
    BY <1>3 DEF t

LEMMA ElementsEmpty == Elements(<<>>) = {}
  BY EmptySeq DEF Elements

LEMMA ElementsType ==
    ASSUME NEW T, NEW s \in Seq(T)
    PROVE  Elements(s) \subseteq T
  BY ElementOfSeq DEF Elements

LEMMA ElementsConcat ==
    ASSUME NEW T, NEW s \in Seq(T), NEW t \in Seq(T)
    PROVE  Elements(s \o t) = Elements(s) \cup Elements(t)
  <1> DEFINE u == s \o t
  <1>1. /\ Len(s) \in Nat /\ Len(t) \in Nat /\ Len(u) = Len(s) + Len(t)
        /\ \A i \in 1 .. Len(s) + Len(t) :
              u[i] = IF i <= Len(s) THEN s[i] ELSE t[i - Len(s)]
    BY ConcatProperties, LenProperties
  <1> HIDE DEF u
  <1>2. \A i \in 1 .. Len(s) : i \in 1 .. Len(u) /\ u[i] = s[i]
    BY <1>1
  <1>3. ASSUME NEW i \in 1 .. Len(t)
        PROVE  Len(s) + i \in 1 .. Len(u) /\ u[Len(s) + i] = t[i]
    <2>1. /\ Len(s) + i \in 1 .. Len(s) + Len(t) /\ ~(Len(s) + i <= Len(s))
          /\ (Len(s) + i) - Len(s) = i
      BY <1>1
    <2>2. QED
      BY <1>1, <2>1
  <1>4. \A i \in 1 .. Len(u) : \/ i \in 1 .. Len(s) /\ u[i] = s[i]
                               \/ i - Len(s) \in 1 .. Len(t) /\ u[i] = t[i - Len(s)]
    BY <1>1
  <1>5. Elements(u) = Elements(s) \cup Elements(t)
    <2>1. Elements(s) \subseteq Elements(u)
      BY <1>2 DEF Elements
    <2>2. Elements(t) \subseteq Elements(u)
      BY <1>3 DEF Elements
    <2>3. ASSUME NEW i \in 1 .. Len(u) PROVE u[i] \in Elements(s) \cup Elements(t)
      BY <1>4 DEF Elements
    <2>4. QED
      BY <2>1, <2>2, <2>3 DEF Elements
  <1>6. QED
    BY <1>5 DEF u

LEMMA WhereType ==
    ASSUME NEW T, NEW S
    PROVE  \A s \in Seq(T) : /\ Where(s, S) \in Seq(T)
                             /\ Where(s, S) \in Seq(S)
                             /\ Elements(Where(s, S)) = Elements(s) \cap S
  <1> DEFINE A == {s \in Seq(T) : /\ Where(s, S) \in Seq(T \cap S)
                                  /\ Elements(Where(s, S)) = Elements(s) \cap S}
  <1>1. <<>> \in A
    BY WhereEmpty, EmptySeq, ElementsEmpty
  <1>2. ASSUME NEW s \in Seq(T), NEW x \in T, s \in A PROVE Append(s, x) \in A
    <2>1. /\ Append(s, x) \in Seq(T)
          /\ Where(s, S) \in Seq(T \cap S) /\ Elements(Where(s, S)) = Elements(s) \cap S
          /\ Elements(Append(s, x)) = Elements(s) \cup {x}
      BY <1>2, ElementsAppend, AppendProperties
    <2>2. CASE x \in S
      <3>1. Where(Append(s, x), S) = Append(Where(s, S), x)
        BY <2>2, WhereAppend
      <3>2. /\ Append(Where(s, S), x) \in Seq(T \cap S)
            /\ Elements(Append(Where(s, S), x)) = Elements(Where(s, S)) \cup {x}
        BY <2>1, <2>2, ElementsAppend, AppendProperties
      <3>3. QED
        BY <2>1, <2>2, <3>1, <3>2
    <2>3. CASE x \notin S
      BY <2>1, <2>3, WhereAppend
    <2>4. QED
      BY <2>2, <2>3
  <1> HIDE DEF A
  <1>3. \A s \in Seq(T) : s \in A
    BY <1>1, <1>2, SequenceInduction
  <1>4. T \cap S \subseteq T /\ T \cap S \subseteq S
    OBVIOUS
  <1>5. QED
    BY <1>3, <1>4, SeqMonotonic DEF A

LEMMA WhereAlike ==
    ASSUME NEW T, NEW R, NEW S
    PROVE  \A s \in Seq(T) : Elements(s) \cap R = Elements(s) \cap S
                               => Where(s, R) = Where(s, S)
  <1> DEFINE A == {s \in Seq(T) : Elements(s) \cap R = Elements(s) \cap S
                               => Where(s, R) = Where(s, S)}
  <1>1. <<>> \in A
    BY WhereEmpty, EmptySeq
  <1>2. ASSUME NEW s \in Seq(T), NEW x \in T, s \in A PROVE Append(s, x) \in A
    <2>1. Append(s, x) \in Seq(T) /\ Elements(Append(s, x)) = Elements(s) \cup {x}
      BY ElementsAppend, AppendProperties
    <2> SUFFICES ASSUME Elements(Append(s, x)) \cap R = Elements(Append(s, x)) \cap S
                 PROVE  Where(Append(s, x), R) = Where(Append(s, x), S)
      BY <2>1
    <2>2. Elements(s) \cap R = Elements(s) \cap S /\ (x \in R <=> x \in S)
      BY <2>1
    <2>3. Where(s, R) = Where(s, S)
      BY <1>2, <2>2
    <2>4. CASE x \in R
      <3>1. Where(Append(s, x), R) = Append(Where(s, R), x)
        BY <2>4, WhereAppend
      <3>2. Where(Append(s, x), S) = Append(Where(s, S), x)
        BY <2>2, <2>4, WhereAppend
      <3>3. QED
        BY <2>3, <3>1, <3>2
    <2>5. CASE x \notin R
      <3>1. Where(Append(s, x), R) = Where(s, R)
        BY <2>5, WhereAppend
      <3>2. Where(Append(s, x), S) = Where(s, S)
        BY <2>2, <2>5, WhereAppend
      <3>3. QED
        BY <2>3, <3>1, <3>2
    <2>6. QED
      BY <2>4, <2>5
  <1> HIDE DEF A
  <1>3. \A s \in Seq(T) : s \in A
    BY <1>1, <1>2, SequenceInduction
  <1>4. QED
    BY <1>3 DEF A

LEMMA WhereAll ==
    ASSUME NEW T, NEW S
    PROVE  \A s \in Seq(T) : Elements(s) \subseteq S => Where(s, S) = s
  <1> DEFINE A == {s \in Seq(T) : Elements(s) \subseteq S => Where(s, S) = s}
  <1>1. <<>> \in A
    BY WhereEmpty, EmptySeq
  <1>2. ASSUME NEW s \in Seq(T), NEW x \in T, s \in A PROVE Append(s, x) \in A
    <2>1. Append(s, x) \in Seq(T) /\ Elements(Append(s, x)) = Elements(s) \cup {x}
      BY ElementsAppend, AppendProperties
    <2>2. QED
      BY <1>2, <2>1, WhereAppend
  <1> HIDE DEF A
  <1>3. \A s \in Seq(T) : s \in A
    BY <1>1, <1>2, SequenceInduction
  <1>4. QED
    BY <1>3 DEF A

LEMMA WhereNone ==
    ASSUME NEW T, NEW S, NEW s \in Seq(T), Elements(s) \cap S = {}
    PROVE  Where(s, S) = <<>>
  <1>1. Elements(Where(s, S)) = {} /\ Where(s, S) \in Seq(T)
    BY WhereType
  <1> DEFINE w == Where(s, S)
  <1> HIDE DEF w
  <1>2. Elements(w) = {} /\ w \in Seq(T)
    BY <1>1 DEF w
  <1>3. 1 \notin 1 .. Len(w) /\ Len(w) \in Nat
    BY <1>2, LenProperties DEF Elements
  <1>4. w = <<>>
    BY <1>2, <1>3, EmptySeq
  <1>5. QED
    BY <1>4 DEF w

LEMMA WhereTwice ==
    ASSUME NEW T, NEW R, NEW S
    PROVE  \A s \in Seq(T) : Where(Where(s, R), S) = Where(s, R \cap S)
  <1> DEFINE A == {s \in Seq(T) : Where(Where(s, R), S) = Where(s, R \cap S)}
  <1>1. <<>> \in A
    BY WhereEmpty, EmptySeq
  <1>2. ASSUME NEW s \in Seq(T), NEW x \in T, s \in A PROVE Append(s, x) \in A
    <2>1. Append(s, x) \in Seq(T) /\ Where(s, R) \in Seq(T)
      BY WhereType, AppendProperties
    <2>2. CASE x \in R
      <3>1. Where(Append(Where(s, R), x), S) =
               IF x \in S THEN Append(Where(Where(s, R), S), x) ELSE Where(Where(s, R), S)
        BY <2>1, WhereAppend
      <3>2. /\ Where(Append(s, x), R) = Append(Where(s, R), x)
            /\ Where(Append(s, x), R \cap S) =
                  IF x \in S THEN Append(Where(s, R \cap S), x) ELSE Where(s, R \cap S)
        BY <2>2, WhereAppend
      <3>3. Where(Where(s, R), S) = Where(s, R \cap S)
        BY <1>2
      <3>4. Where(Where(Append(s, x), R), S) = Where(Append(s, x), R \cap S)
        <4>1. CASE x \in S
          BY <3>1, <3>2, <3>3, <4>1, Zenon
        <4>2. CASE x \notin S
          BY <3>1, <3>2, <3>3, <4>2, Zenon
        <4>3. QED
          BY <4>1, <4>2
      <3>5. QED
        BY <2>1, <3>4
    <2>3. CASE x \notin R
      BY <1>2, <2>1, <2>3, WhereAppend
    <2>4. QED
      BY <2>2, <2>3
  <1> HIDE DEF A
  <1>3. \A s \in Seq(T) : s \in A
    BY <1>1, <1>2, SequenceInduction
  <1>4. QED
    BY <1>3 DEF A

LEMMA AppendConcat ==
    ASSUME NEW T, NEW s \in Seq(T), NEW t \in Seq(T), NEW x \in T
    PROVE  s \o Append(t, x) = Append(s \o t, x)
  <1>1. Append(t, x) = t \o <<x>> /\ s \o t \in Seq(T) /\ <<x>> \in Seq(T)
    BY AppendIsConcat, ConcatProperties
  <1>2. Append(s \o t, x) = (s \o t) \o <<x>>
    BY <1>1, AppendIsConcat
  <1>3. QED
    BY <1>1, <1>2, ConcatAssociative

LEMMA WhereConcat ==
    ASSUME NEW T, NEW S, NEW s \in Seq(T)
    PROVE  \A t \in Seq(T) : Where(s \o t, S) = Where(s, S) \o Where(t, S)
  <1> DEFINE A == {t \in Seq(T) : Where(s \o t, S) = Where(s, S) \o Where(t, S)}
  <1>1. <<>> \in A
    BY WhereEmpty, WhereType, EmptySeq, ConcatEmptySeq
  <1>2. ASSUME NEW t \in Seq(T), NEW x \in T, t \in A PROVE Append(t, x) \in A
    <2>1. /\ Append(t, x) \in Seq(T) /\ s \o t \in Seq(T)
          /\ Where(s, S) \in Seq(T) /\ Where(t, S) \in Seq(T)
      BY WhereType, AppendProperties, ConcatProperties
    <2>2. s \o Append(t, x) = Append(s \o t, x)
      BY AppendConcat
    <2>3. Where(s, S) \o Append(Where(t, S), x) = Append(Where(s, S) \o Where(t, S), x)
      BY <2>1, AppendConcat
    <2>4. /\ Where(Append(s \o t, x), S) = IF x \in S THEN Append(Where(s \o t, S), x) ELSE Where(s \o t, S)
          /\ Where(Append(t, x), S) = IF x \in S THEN Append(Where(t, S), x) ELSE Where(t, S)
      BY <2>1, WhereAppend
    <2>5. QED
      BY <1>2, <2>1, <2>2, <2>3, <2>4
  <1> HIDE DEF A
  <1>3. \A t \in Seq(T) : t \in A
    BY <1>1, <1>2, SequenceInduction
  <1>4. QED
    BY <1>3 DEF A

-----------------------------------------------------------------------------
(* The types.                                                              *)

(* The messages of either direction, and what is kept between two steps.    *)
OwnId == 1 .. Len(dispatched)
Snapshots == UNION {[D -> 0 .. Len(log)] : D \in SUBSET Channel}

SubscribeRequest == [type : {"subscribe"}, channel : Channel, id : 1 .. entries]
Notification == [type : {"dispatchAction"}, id : OwnId]
                   \cup [type : {"unsubscribe"}, channel : Channel]
UpMessage == Notification \cup SubscribeRequest
                \cup [type : {"reconnect"}, lastSeen : 0 .. Len(log), channels : SUBSET Channel]
DownMessage == [type : {"action"}, seq : 1 .. Len(log)]
                  \cup [type : {"replay"}, actions : ServerSeqs, missing : SUBSET Channel]
                  \cup [type : {"snapshot"}, snapshots : Snapshots]
                  \cup [type : {"subscribed"}, id : 1 .. entries, fromSeq : 0 .. Len(log)]
                  \cup [type : {"refused"}, id : 1 .. entries]
Restoring == [transport : Transport, lastSeen : 0 .. Len(log), canReplay : BOOLEAN,
              left : SUBSET Channel, missing : SUBSET Channel, snapshots : Snapshots]
Subscription == [entry : 0 .. entries, known : BOOLEAN, failed : BOOLEAN,
                 confirmed : ServerSeqs, buffered : ServerSeqs, pending : Seq(OwnId)]

(* TypeOK and the types of the messages, for each variable.                 *)
TypeInv ==
    /\ log \in Seq([channel : Channel, own : 0 .. Len(dispatched)])
    /\ connections \in Seq(Transport)
    /\ subscriptions \in [Transport -> SUBSET Channel]
    /\ restoring \subseteq Restoring
    /\ subscribing \subseteq [transport : Transport, channel : Channel, id : 1 .. entries]
    /\ dispatchQueue \in Seq(OwnId)
    /\ subscribers \subseteq Channel
    /\ open \in [Transport -> BOOLEAN]
    /\ up \in [Transport -> Seq(UpMessage)]
    /\ down \in [Transport -> Seq(DownMessage)]
    /\ phase \in {"connected", "waiting", "reconnecting"}
    /\ transport \in Transport
    /\ serverSeq \in 0 .. Len(log)
    /\ sub \in [Channel -> Subscription]
    /\ gated \in Seq(SubscribeRequest)
    /\ requests \subseteq 1 .. entries
    /\ outbox \in Seq(Notification)
    /\ entries \in Nat
    /\ dispatched \in Seq(Channel)
    /\ cleared \subseteq OwnId

-----------------------------------------------------------------------------
LEMMA Lengths ==
    ASSUME TypeInv
    PROVE  Len(log) \in Nat /\ Len(dispatched) \in Nat /\ entries \in Nat
  BY LenProperties DEF TypeInv

LEMMA LogEntries ==
    ASSUME TypeInv, NEW n \in 1 .. Len(log)
    PROVE  log[n].channel \in Channel /\ log[n].own \in 0 .. Len(dispatched)
  <1>1. log[n] \in [channel : Channel, own : 0 .. Len(dispatched)]
    BY ElementOfSeq DEF TypeInv
  <1>2. QED
    BY <1>1

LEMMA UpToType ==
    ASSUME NEW n \in Nat, NEW m \in Nat, n <= m
    PROVE  UpTo(n) \in Seq(1 .. m) /\ Len(UpTo(n)) = n /\ Elements(UpTo(n)) = 1 .. n
  <1>1. UpTo(n) \in Seq(1 .. m) /\ Len(UpTo(n)) = n
    BY DEF UpTo
  <1>2. Elements(UpTo(n)) = 1 .. n
    BY <1>1 DEF UpTo, Elements
  <1>3. QED
    BY <1>1, <1>2

LEMMA StateType ==
    ASSUME TypeInv, NEW c, NEW n \in 0 .. Len(log)
    PROVE  StateAt(c, n) \in ServerSeqs
  BY Lengths, UpToType, WhereType DEF StateAt, ServerSeqs

LEMMA WithoutType ==
    ASSUME NEW T, NEW s \in Seq(T), NEW S
    PROVE  /\ Without(s, S) \in Seq(T)
           /\ Elements(Without(s, S)) = Elements(s) \ S
  <1>1. /\ Without(s, S) \in Seq(T)
        /\ Elements(Without(s, S)) = Elements(s) \cap (Elements(s) \ S)
    BY WhereType DEF Without
  <1>2. QED
    BY <1>1

(* What a step adds makes the sets of what may be kept and sent larger.     *)
LEMMA Growth ==
    ASSUME TypeInv, Len(log') \in Nat, Len(dispatched') \in Nat, entries' \in Nat,
           Len(log) <= Len(log'), Len(dispatched) <= Len(dispatched'), entries <= entries'
    PROVE  /\ ServerSeqs \subseteq ServerSeqs'
           /\ SubscribeRequest \subseteq SubscribeRequest'
           /\ Notification \subseteq Notification'
           /\ UpMessage \subseteq UpMessage'
           /\ DownMessage \subseteq DownMessage'
           /\ Restoring \subseteq Restoring'
           /\ Subscription \subseteq Subscription'
  <1>1. /\ 1 .. Len(log) \subseteq 1 .. Len(log') /\ 0 .. Len(log) \subseteq 0 .. Len(log')
        /\ OwnId \subseteq OwnId' /\ 1 .. entries \subseteq 1 .. entries'
        /\ 0 .. entries \subseteq 0 .. entries'
    BY Lengths DEF OwnId
  <1>2. ServerSeqs \subseteq ServerSeqs' /\ Seq(OwnId) \subseteq Seq(OwnId')
    BY <1>1, SeqMonotonic DEF ServerSeqs
  <1>3. Snapshots \subseteq Snapshots'
    <2>1. ASSUME NEW D \in SUBSET Channel, NEW f \in [D -> 0 .. Len(log)]
          PROVE  f \in [D -> 0 .. Len(log')]
      BY <1>1
    <2>2. QED
      BY <2>1 DEF Snapshots
  <1>4. SubscribeRequest \subseteq SubscribeRequest' /\ Notification \subseteq Notification'
    BY <1>1 DEF SubscribeRequest, Notification
  <1>5. UpMessage \subseteq UpMessage'
    BY <1>1, <1>4 DEF UpMessage
  <1>6. DownMessage \subseteq DownMessage'
    BY <1>1, <1>2, <1>3 DEF DownMessage
  <1>7. Restoring \subseteq Restoring'
    BY <1>1, <1>3 DEF Restoring
  <1>8. Subscription \subseteq Subscription'
    BY <1>1, <1>2 DEF Subscription
  <1>9. QED
    BY <1>2, <1>4, <1>5, <1>6, <1>7, <1>8

LEMMA SentType ==
    ASSUME NEW M, NEW wires \in [Transport -> Seq(M)], NEW t \in Transport, NEW msgs \in Seq(M)
    PROVE  Sent(wires, t, msgs) \in [Transport -> Seq(M)]
  <1>1. wires[t] \o msgs \in Seq(M)
    BY ConcatProperties
  <1>2. QED
    BY <1>1 DEF Sent

LEMMA OwnType ==
    ASSUME TypeInv, NEW ns \in ServerSeqs
    PROVE  Own(ns) \subseteq 0 .. Len(dispatched)
  BY LogEntries, ElementsType DEF Own, ServerSeqs

LEMMA ReconcileType ==
    ASSUME NEW s \in Subscription, NEW ns \in ServerSeqs
    PROVE  Reconcile(s, ns) \in Subscription
  <1>1. s.confirmed \o ns \in ServerSeqs /\ Without(s.pending, Own(ns)) \in Seq(OwnId)
    BY ConcatProperties, WithoutType DEF Subscription, ServerSeqs
  <1>2. QED
    BY <1>1 DEF Reconcile, Subscription

LEMMA ReceiveType ==
    ASSUME NEW s \in Subscription, NEW ns \in ServerSeqs
    PROVE  ReceiveEnvelope(s, ns) \in Subscription
  <1>1. [s EXCEPT !.buffered = @ \o ns] \in Subscription
    BY ConcatProperties DEF Subscription, ServerSeqs
  <1>2. QED
    BY <1>1, ReconcileType DEF ReceiveEnvelope

LEMMA HandleSnapshotType ==
    ASSUME TypeInv, NEW s \in Subscription, NEW c, NEW n \in 0 .. Len(log)
    PROVE  HandleSnapshot(s, c, n) \in Subscription
  <1>1. Where(s.buffered, {m \in Elements(s.buffered) : m > n}) \in ServerSeqs
    BY WhereType DEF Subscription, ServerSeqs
  <1>2. [s EXCEPT !.known = TRUE, !.failed = FALSE, !.confirmed = StateAt(c, n),
                  !.buffered = <<>>] \in Subscription
    <2>1. StateAt(c, n) \in ServerSeqs /\ <<>> \in ServerSeqs
      BY StateType, EmptySeq DEF ServerSeqs
    <2>2. QED
      BY <2>1 DEF Subscription
  <1>3. QED
    BY <1>1, <1>2, ReconcileType DEF HandleSnapshot

LEMMA ChangedType ==
    ASSUME NEW s \in Subscription
    PROVE  ClearPending(s) \in Subscription /\ SetError(s) \in Subscription
  BY EmptySeq DEF ClearPending, SetError, Subscription

LEMMA Same ==
    ASSUME UNCHANGED <<log, dispatched, entries>>
    PROVE  /\ ServerSeqs' = ServerSeqs /\ OwnId' = OwnId
           /\ SubscribeRequest' = SubscribeRequest /\ Notification' = Notification
           /\ UpMessage' = UpMessage /\ DownMessage' = DownMessage
           /\ Restoring' = Restoring /\ Subscription' = Subscription
  BY DEF ServerSeqs, OwnId, SubscribeRequest, Notification, UpMessage, DownMessage,
         Restoring, Subscription, Snapshots

(* The races hit channels.                                                   *)
RacedType == raced \in [Races -> SUBSET Channel]

LEMMA TypeInvTypes == TypeInv /\ RacedType => TypeOK
  <1>1. restoring \subseteq Restoring =>
          \A r \in restoring :
             /\ r.transport \in Transport
             /\ r.lastSeen \in 0 .. Len(log)
             /\ r.canReplay \in BOOLEAN
             /\ r.left \cup r.missing \subseteq Channel
             /\ \A c \in DOMAIN r.snapshots : r.snapshots[c] \in 0 .. Len(log)
    BY DEF Restoring, Snapshots
  <1>2. QED
    BY <1>1 DEF RacedType, TypeInv, TypeOK, OwnId, Subscription

LEMMA RaceType ==
    ASSUME RacedType, NEW race, NEW channels \in SUBSET Channel, Race(race, channels)
    PROVE  RacedType'
  BY DEF RacedType, Race

LEMMA InitType == Init => TypeInv
  <1> SUFFICES ASSUME Init PROVE TypeInv
    OBVIOUS
  <1>1. /\ 1 \in Transport /\ Initially \cup {Root} \subseteq Channel
    BY BoundsAssumption, ChannelAssumption DEF Transport
  <1>2. sub \in [Channel -> Subscription]
    <2>1. <<>> \in ServerSeqs /\ <<>> \in Seq(OwnId) /\ 0 \in 0 .. entries /\ 1 \in 0 .. entries
      BY EmptySeq DEF ServerSeqs, Init
    <2>2. NoSubscription \in Subscription
          /\ [NoSubscription EXCEPT !.entry = 1, !.known = TRUE] \in Subscription
      BY <2>1 DEF NoSubscription, Subscription
    <2>3. QED
      BY <2>2 DEF Init
  <1>3. /\ log \in Seq([channel : Channel, own : 0 .. Len(dispatched)])
        /\ connections \in Seq(Transport)
        /\ dispatchQueue \in Seq(OwnId) /\ dispatched \in Seq(Channel)
        /\ gated \in Seq(SubscribeRequest) /\ outbox \in Seq(Notification)
        /\ Len(log) = 0
    BY <1>1, EmptySeq DEF Init
  <1>4. /\ up \in [Transport -> Seq(UpMessage)] /\ down \in [Transport -> Seq(DownMessage)]
    BY EmptySeq DEF Init
  <1>5. /\ subscriptions \in [Transport -> SUBSET Channel] /\ restoring \subseteq Restoring
        /\ subscribers \subseteq Channel /\ open \in [Transport -> BOOLEAN]
        /\ transport \in Transport
        /\ subscribing \subseteq [transport : Transport, channel : Channel, id : 1 .. entries]
    BY <1>1 DEF Init
  <1>6. /\ phase \in {"connected", "waiting", "reconnecting"} /\ serverSeq \in 0 .. Len(log)
        /\ requests \subseteq 1 .. entries /\ entries \in Nat /\ cleared \subseteq OwnId
    BY <1>3 DEF Init
  <1>7. QED
    BY <1>2, <1>3, <1>4, <1>5, <1>6 DEF TypeInv

LEMMA NotifyType ==
    ASSUME TypeInv, NEW m, m \in Notification', UpMessage \subseteq UpMessage',
           Notification \subseteq Notification', Notify(m)
    PROVE  up' \in [Transport -> Seq(UpMessage')] /\ outbox' \in Seq(Notification')
  <1>1. /\ up \in [Transport -> Seq(UpMessage)] /\ outbox \in Seq(Notification)
        /\ transport \in Transport
    BY DEF TypeInv
  <1>2. up \in [Transport -> Seq(UpMessage')] /\ outbox \in Seq(Notification')
    <2>1. \A t \in Transport : up[t] \in Seq(UpMessage')
      BY <1>1, SeqMonotonic
    <2>2. QED
      BY <1>1, <2>1, SeqMonotonic
  <1>3. m \in UpMessage' /\ <<m>> \in Seq(UpMessage')
    BY DEF UpMessage
  <1>4. Sent(up, transport, <<m>>) \in [Transport -> Seq(UpMessage')]
    BY <1>1, <1>2, <1>3, SentType
  <1>5. Append(outbox, m) \in Seq(Notification')
    BY <1>2, AppendProperties
  <1>6. QED
    BY <1>2, <1>4, <1>5 DEF Notify

LEMMA DispatchType ==
    ASSUME TypeInv, NEW c \in Channel, Dispatch(c)
    PROVE  TypeInv'
  <1> DEFINE id == Len(dispatched')
  <1>1. /\ dispatched' \in Seq(Channel) /\ Len(dispatched') = Len(dispatched) + 1
        /\ Len(dispatched) \in Nat /\ Len(log) \in Nat /\ entries \in Nat
        /\ log' = log /\ entries' = entries
    BY AppendProperties, LenProperties DEF TypeInv, Dispatch, hostVars
  <1>2. /\ SubscribeRequest \subseteq SubscribeRequest'
        /\ Notification \subseteq Notification' /\ UpMessage \subseteq UpMessage'
        /\ DownMessage \subseteq DownMessage' /\ Restoring \subseteq Restoring'
        /\ Subscription \subseteq Subscription' /\ OwnId \subseteq OwnId'
    BY <1>1, Growth DEF OwnId
  <1>3. DispatchAction(id) \in Notification' /\ id \in OwnId'
    BY <1>1 DEF DispatchAction, Notification, OwnId
  <1>4. up' \in [Transport -> Seq(UpMessage')] /\ outbox' \in Seq(Notification')
    BY <1>2, <1>3, NotifyType DEF Dispatch
  <1>5. sub' \in [Channel -> Subscription']
    <2>1. sub \in [Channel -> Subscription] /\ sub[c] \in Subscription'
      BY <1>2 DEF TypeInv
    <2>2. Append(sub[c].pending, id) \in Seq(OwnId')
      BY <1>3, <2>1, AppendProperties DEF Subscription
    <2>3. [sub[c] EXCEPT !.pending = Append(@, id)] \in Subscription'
      BY <2>1, <2>2 DEF Subscription
    <2>4. sub' = [sub EXCEPT ![c] = [sub[c] EXCEPT !.pending = Append(@, id)]]
      BY <2>1 DEF Dispatch, Subscription
    <2>5. QED
      BY <1>2, <2>1, <2>3, <2>4
  <1>6. /\ log' \in Seq([channel : Channel, own : 0 .. Len(dispatched')])
        /\ down' \in [Transport -> Seq(DownMessage')]
        /\ gated' \in Seq(SubscribeRequest')
        /\ dispatchQueue' \in Seq(OwnId')
    <2>1. /\ log \in Seq([channel : Channel, own : 0 .. Len(dispatched)])
          /\ down \in [Transport -> Seq(DownMessage)] /\ gated \in Seq(SubscribeRequest)
          /\ dispatchQueue \in Seq(OwnId)
      BY DEF TypeInv
    <2>2. [channel : Channel, own : 0 .. Len(dispatched)]
             \subseteq [channel : Channel, own : 0 .. Len(dispatched')]
      BY <1>1
    <2>3. \A t \in Transport : down[t] \in Seq(DownMessage')
      BY <1>2, <2>1, SeqMonotonic
    <2>4. /\ log \in Seq([channel : Channel, own : 0 .. Len(dispatched')])
          /\ gated \in Seq(SubscribeRequest') /\ dispatchQueue \in Seq(OwnId')
      BY <1>2, <2>1, <2>2, SeqMonotonic
    <2>5. QED
      BY <2>1, <2>3, <2>4 DEF Dispatch, hostVars
  <1>7. UNCHANGED <<connections, subscriptions, restoring, subscribing, subscribers, open,
                    phase, transport, serverSeq, requests, entries, log, cleared>>
    BY DEF Dispatch, hostVars
  <1>8. QED
    BY <1>1, <1>2, <1>4, <1>5, <1>6, <1>7 DEF TypeInv

(* Where nothing is applied, dispatched or created, the sets stay.          *)
LEMMA SubscribeType ==
    ASSUME TypeInv, NEW c \in Channel, Subscribe(c)
    PROVE  TypeInv'
  <1> DEFINE left    == IF sub[c].entry = 0 THEN <<>> ELSE <<Unsubscribe(c)>>
             request == [type |-> "subscribe", channel |-> c, id |-> entries + 1]
  <1>1. /\ entries' = entries + 1 /\ log' = log /\ dispatched' = dispatched
        /\ Len(log) \in Nat /\ Len(dispatched) \in Nat /\ entries \in Nat
        /\ transport \in Transport
    BY LenProperties DEF TypeInv, Subscribe, hostVars
  <1>2. /\ SubscribeRequest \subseteq SubscribeRequest'
        /\ Notification \subseteq Notification' /\ UpMessage \subseteq UpMessage'
        /\ DownMessage \subseteq DownMessage' /\ Restoring \subseteq Restoring'
        /\ Subscription \subseteq Subscription' /\ OwnId' = OwnId
    BY <1>1, Growth DEF OwnId
  <1>3. /\ left \in Seq(Notification') /\ left \in Seq(UpMessage')
        /\ request \in SubscribeRequest' /\ request \in UpMessage'
    <2>1. Unsubscribe(c) \in Notification'
      BY DEF Unsubscribe, Notification
    <2>2. request \in SubscribeRequest'
      BY <1>1 DEF SubscribeRequest
    <2>3. Notification' \subseteq UpMessage' /\ SubscribeRequest' \subseteq UpMessage'
      BY DEF UpMessage
    <2>4. QED
      BY <2>1, <2>2, <2>3, EmptySeq
  <1>4. /\ up \in [Transport -> Seq(UpMessage')] /\ down \in [Transport -> Seq(DownMessage')]
        /\ outbox \in Seq(Notification') /\ gated \in Seq(SubscribeRequest')
    <2>1. /\ up \in [Transport -> Seq(UpMessage)] /\ down \in [Transport -> Seq(DownMessage)]
          /\ outbox \in Seq(Notification) /\ gated \in Seq(SubscribeRequest)
      BY DEF TypeInv
    <2>2. \A t \in Transport : up[t] \in Seq(UpMessage') /\ down[t] \in Seq(DownMessage')
      BY <1>2, <2>1, SeqMonotonic
    <2>3. outbox \in Seq(Notification') /\ gated \in Seq(SubscribeRequest')
      BY <1>2, <2>1, SeqMonotonic
    <2>4. QED
      BY <2>1, <2>2, <2>3
  <1>5. /\ up' \in [Transport -> Seq(UpMessage')] /\ outbox' \in Seq(Notification')
        /\ gated' \in Seq(SubscribeRequest')
    <2>1. CASE phase = "connected"
      <3>1. left \o <<request>> \in Seq(UpMessage')
        BY <1>3, ConcatProperties
      <3>2. Sent(up, transport, left \o <<request>>) \in [Transport -> Seq(UpMessage')]
        BY <1>1, <1>4, <3>1, SentType
      <3>3. /\ up' = Sent(up, transport, left \o <<request>>)
            /\ outbox' = outbox /\ gated' = gated
        BY <1>1, <2>1 DEF Subscribe
      <3>4. QED
        BY <1>4, <3>2, <3>3
    <2>2. CASE phase # "connected"
      <3>1. outbox \o left \in Seq(Notification') /\ Append(gated, request) \in Seq(SubscribeRequest')
        BY <1>3, <1>4, ConcatProperties, AppendProperties
      <3>2. up' = up /\ outbox' = outbox \o left /\ gated' = Append(gated, request)
        BY <1>1, <2>2 DEF Subscribe
      <3>3. QED
        BY <1>4, <3>1, <3>2
    <2>3. QED
      BY <2>1, <2>2
  <1>6. requests' \subseteq 1 .. entries'
    <2>1. requests \subseteq 1 .. entries'
      BY <1>1 DEF TypeInv
    <2>2. requests' = requests \cup {entries'} \/ requests' = requests
      <3>1. CASE phase = "connected"
        BY <3>1 DEF Subscribe
      <3>2. CASE phase # "connected"
        BY <3>2 DEF Subscribe
      <3>3. QED
        BY <3>1, <3>2
    <2>3. entries' \in 1 .. entries'
      BY <1>1
    <2>4. QED
      BY <2>1, <2>2, <2>3
  <1>7. sub' \in [Channel -> Subscription']
    <2>1. [NoSubscription EXCEPT !.entry = entries'] \in Subscription'
      <3>1. <<>> \in ServerSeqs' /\ <<>> \in Seq(OwnId') /\ entries' \in 0 .. entries'
        BY <1>1, EmptySeq DEF ServerSeqs
      <3>2. QED
        BY <3>1 DEF NoSubscription, Subscription
    <2>2. sub \in [Channel -> Subscription']
      BY <1>2 DEF TypeInv
    <2>3. sub' = [sub EXCEPT ![c] = [NoSubscription EXCEPT !.entry = entries']]
      BY DEF Subscribe
    <2>4. QED
      BY <2>1, <2>2, <2>3
  <1>8. cleared' \subseteq OwnId'
    <2>1. Pending(c) \subseteq OwnId
      BY ElementsType DEF TypeInv, Pending, Subscription
    <2>2. QED
      BY <1>2, <2>1 DEF TypeInv, Subscribe
  <1>9. /\ subscribing' \subseteq [transport : Transport, channel : Channel, id : 1 .. entries']
        /\ dispatchQueue' \in Seq(OwnId')
    BY <1>1, <1>2 DEF TypeInv, Subscribe, hostVars
  <1>10. UNCHANGED <<log, connections, subscriptions, restoring, subscribers, open, down,
                     phase, transport, serverSeq, dispatched>>
    BY DEF Subscribe, hostVars
  <1>11. /\ log' \in Seq([channel : Channel, own : 0 .. Len(dispatched')])
         /\ restoring' \subseteq Restoring' /\ down' \in [Transport -> Seq(DownMessage')]
         /\ serverSeq' \in 0 .. Len(log') /\ entries' \in Nat
    BY <1>1, <1>2, <1>4, <1>10 DEF TypeInv
  <1>12. QED
    BY <1>5, <1>6, <1>7, <1>8, <1>9, <1>10, <1>11 DEF TypeInv

LEMMA ReleaseType ==
    ASSUME TypeInv, NEW c \in Channel, Release(c)
    PROVE  TypeInv'
  <1>1. UNCHANGED <<log, dispatched, entries, hostVars, open, down, phase, transport,
                    serverSeq, gated, requests>>
    BY DEF Release, hostVars
  <1>2. Unsubscribe(c) \in Notification'
    BY DEF Unsubscribe, Notification
  <1>3. up' \in [Transport -> Seq(UpMessage')] /\ outbox' \in Seq(Notification')
    BY <1>1, <1>2, Same, NotifyType DEF Release
  <1>4. Pending(c) \subseteq OwnId
    BY ElementsType DEF TypeInv, Pending, Subscription
  <1>5. sub' \in [Channel -> Subscription]
    <2>1. NoSubscription \in Subscription
      <3>1. <<>> \in ServerSeqs /\ <<>> \in Seq(OwnId) /\ 0 \in 0 .. entries
        BY EmptySeq DEF ServerSeqs, TypeInv
      <3>2. QED
        BY <3>1 DEF NoSubscription, Subscription
    <2>2. QED
      BY <2>1 DEF TypeInv, Release
  <1>6. cleared' \subseteq OwnId
    BY <1>4 DEF TypeInv, Release
  <1>7. QED
    BY <1>1, <1>3, <1>5, <1>6, Same DEF TypeInv, hostVars

LEMMA ClientSeesCloseType ==
    ASSUME TypeInv, ClientSeesClose
    PROVE  TypeInv'
  <1>1. UNCHANGED <<log, dispatched, entries, hostVars, wireVars, transport, serverSeq,
                    gated, outbox, cleared>>
    BY DEF ClientSeesClose, hostVars
  <1>2. sub' \in [Channel -> Subscription]
    <2>1. \A c \in Channel : sub[c] \in Subscription
      BY DEF TypeInv
    <2>2. \A c \in Channel : SetError(sub[c]) \in Subscription
      BY <2>1, ChangedType
    <2>3. QED
      BY <2>1, <2>2 DEF ClientSeesClose
  <1>3. phase' = "waiting" /\ requests' = {}
    BY DEF ClientSeesClose
  <1>4. QED
    BY <1>1, <1>2, <1>3, Same DEF TypeInv, hostVars, wireVars

LEMMA AttemptReconnectType ==
    ASSUME TypeInv, AttemptReconnect
    PROVE  TypeInv'
  <1>1. UNCHANGED <<log, dispatched, entries, hostVars, open, down, serverSeq, sub,
                    gated, requests, outbox, cleared>>
    BY DEF AttemptReconnect, hostVars
  <1>2. transport' \in Transport
    BY BoundsAssumption DEF TypeInv, Transport, AttemptReconnect
  <1>3. up' \in [Transport -> Seq(UpMessage)]
    <2> DEFINE m == [type |-> "reconnect", lastSeen |-> serverSeq,
                     channels |-> {Root} \cup {c \in Channel : sub[c].entry # 0}]
    <2>1. m \in UpMessage
      BY ChannelAssumption DEF TypeInv, UpMessage
    <2>2. up' = Sent(up, transport', <<m>>)
      BY DEF AttemptReconnect
    <2> HIDE DEF m
    <2>3. <<m>> \in Seq(UpMessage)
      BY <2>1
    <2>4. up \in [Transport -> Seq(UpMessage)]
      BY DEF TypeInv
    <2>5. QED
      BY <1>2, <2>2, <2>3, <2>4, SentType
  <1>4. phase' = "reconnecting"
    BY DEF AttemptReconnect
  <1>5. QED
    BY <1>1, <1>2, <1>3, <1>4, Same DEF TypeInv, hostVars

LEMMA ReplaysType ==
    ASSUME Len(dispatched) \in Nat, NEW subs
    PROVE  Replays(subs) \in Seq(Notification)
  <1> DEFINE queued  == {id \in 1 .. Len(dispatched) : DispatchAction(id) \in Elements(outbox)}
             pending == {id \in 1 .. Len(dispatched) :
                            \E c \in Channel : id \in Elements(subs[c].pending)}
             again   == Where(UpTo(Len(dispatched)), pending \ queued)
  <1>1. again \in Seq(OwnId)
    BY UpToType, WhereType DEF OwnId
  <1>2. Len(again) \in Nat /\ \A i \in 1 .. Len(again) : again[i] \in OwnId
    BY <1>1, LenProperties, ElementOfSeq
  <1> HIDE DEF again
  <1>3. \A i \in 1 .. Len(again) : DispatchAction(again[i]) \in Notification
    BY <1>2 DEF DispatchAction, Notification
  <1>4. [i \in 1 .. Len(again) |-> DispatchAction(again[i])] \in Seq(Notification)
    BY <1>2, <1>3
  <1>5. QED
    BY <1>4 DEF Replays, again

LEMMA DrainType ==
    ASSUME TypeInv, UNCHANGED <<log, dispatched, entries, transport>>, NEW subs,
           DrainAfterReconnect(subs)
    PROVE  /\ up' \in [Transport -> Seq(UpMessage)]
           /\ requests' \subseteq 1 .. entries
           /\ outbox' = <<>> /\ gated' = <<>> /\ phase' = "connected"
  <1>1. /\ Len(dispatched) \in Nat /\ outbox \in Seq(Notification)
        /\ gated \in Seq(SubscribeRequest) /\ transport \in Transport
        /\ up \in [Transport -> Seq(UpMessage)]
    BY LenProperties DEF TypeInv
  <1>2. Notification \subseteq UpMessage /\ SubscribeRequest \subseteq UpMessage
    BY DEF UpMessage
  <1>3. /\ outbox \in Seq(UpMessage) /\ gated \in Seq(UpMessage)
        /\ Replays(subs) \in Seq(UpMessage)
    BY <1>1, <1>2, ReplaysType, SeqMonotonic
  <1>4. Replays(subs) \o outbox \o gated \in Seq(UpMessage)
    BY <1>3, ConcatProperties
  <1>5. up' \in [Transport -> Seq(UpMessage)]
    BY <1>1, <1>4, SentType DEF DrainAfterReconnect
  <1>6. {m.id : m \in Elements(gated)} \subseteq 1 .. entries
    <2>1. Elements(gated) \subseteq SubscribeRequest
      BY <1>1, ElementsType
    <2>2. QED
      BY <2>1 DEF SubscribeRequest
  <1>7. QED
    BY <1>5, <1>6 DEF DrainAfterReconnect, TypeInv

(* The head of a wire is a message, the rest of it stays.                   *)
LEMMA TakenType ==
    ASSUME NEW M, NEW wires \in [Transport -> Seq(M)], NEW t \in Transport, wires[t] # <<>>
    PROVE  /\ Head(wires[t]) \in M
           /\ [wires EXCEPT ![t] = Tail(@)] \in [Transport -> Seq(M)]
  BY HeadTailProperties

LEMMA ArrivedType ==
    ASSUME TypeInv, NEW type, ClientTakes(type)
    PROVE  /\ Arrived \in DownMessage /\ Arrived.type = type
           /\ down' \in [Transport -> Seq(DownMessage)]
  <1>1. /\ down \in [Transport -> Seq(DownMessage)] /\ transport \in Transport
        /\ down[transport] # <<>>
    BY DEF TypeInv, ClientTakes
  <1>2. Head(down[transport]) \in DownMessage
        /\ [down EXCEPT ![transport] = Tail(@)] \in [Transport -> Seq(DownMessage)]
    BY <1>1, TakenType
  <1>3. QED
    BY <1>2 DEF ClientTakes, Arrived

LEMMA GreatestOfTwo ==
    ASSUME NEW a \in Nat, NEW b \in Nat
    PROVE  /\ Max({a, b}) \in {a, b} /\ a <= Max({a, b}) /\ b <= Max({a, b})
  <1>1. \E x \in {a, b} : \A y \in {a, b} : x >= y
    BY DEF Max
  <1>2. QED
    BY <1>1 DEF Max

LEMMA GreatestOne ==
    ASSUME NEW S, NEW n \in Nat, S \subseteq 0 .. n, S # {}
    PROVE  Max(S) \in S /\ \A x \in S : x <= Max(S)
  <1> DEFINE T == {n - x : x \in S}
  <1>1. T \subseteq Nat /\ T # {}
    OBVIOUS
  <1>2. PICK y \in T : \A z \in T : y <= z
    BY <1>1, LeastOne
  <1>3. PICK x \in S : y = n - x
    BY <1>2
  <1>4. \A z \in S : z <= x
    <2>1. \A z \in S : n - z \in T
      OBVIOUS
    <2>2. \A z \in S : n - x <= n - z
      BY <1>2, <1>3, <2>1
    <2>3. QED
      BY <2>2
  <1>5. \E u \in S : \A z \in S : u >= z
    BY <1>4
  <1>6. QED
    BY <1>5 DEF Max

LEMMA ReceiveActionType ==
    ASSUME TypeInv, ReceiveAction
    PROVE  TypeInv'
  <1>1. UNCHANGED <<log, dispatched, entries, hostVars, open, up, phase, transport, gated,
                    requests, outbox, cleared>>
    BY DEF ReceiveAction, hostVars
  <1>2. Arrived.seq \in 1 .. Len(log) /\ down' \in [Transport -> Seq(DownMessage)]
    BY ArrivedType DEF ReceiveAction, DownMessage
  <1>3. serverSeq' \in 0 .. Len(log)
    <2>1. serverSeq \in 0 .. Len(log) /\ Len(log) \in Nat
      BY LenProperties DEF TypeInv
    <2>2. serverSeq' = Max({serverSeq, Arrived.seq})
      BY DEF ReceiveAction
    <2>3. Max({serverSeq, Arrived.seq}) \in {serverSeq, Arrived.seq}
      BY <1>2, <2>1, GreatestOfTwo
    <2>4. QED
      BY <1>2, <2>1, <2>2, <2>3
  <1>4. sub' \in [Channel -> Subscription]
    <2>1. <<Arrived.seq>> \in ServerSeqs
      BY <1>2 DEF ServerSeqs
    <2>2. \A c \in Channel : Where(<<Arrived.seq>>, On(c)) \in ServerSeqs
      BY <2>1, WhereType DEF ServerSeqs
    <2>3. \A c \in Channel : sub[c] \in Subscription
      BY DEF TypeInv
    <2>4. \A c \in Channel : ReceiveEnvelope(sub[c], Where(<<Arrived.seq>>, On(c))) \in Subscription
      BY <2>2, <2>3, ReceiveType
    <2>5. QED
      BY <2>4 DEF ReceiveAction
  <1>5. QED
    BY <1>1, <1>2, <1>3, <1>4, Same DEF TypeInv, hostVars

LEMMA AllReplayedType ==
    ASSUME TypeInv, NEW c \in Channel, NEW missed \in ServerSeqs
    PROVE  AllReplayed(c, missed) \in Subscription
  <1> DEFINE mine == Where(missed, On(c))
  <1>1. mine \in ServerSeqs /\ sub[c] \in Subscription
    BY WhereType DEF TypeInv, ServerSeqs
  <1> HIDE DEF mine
  <1>2. Without(sub[c].pending, Own(mine)) \in Seq(OwnId)
    BY <1>1, WithoutType DEF Subscription
  <1>3. [sub[c] EXCEPT !.pending = Without(@, Own(mine))] \in Subscription
    BY <1>1, <1>2 DEF Subscription
  <1>4. QED
    BY <1>1, <1>3, ReceiveType DEF AllReplayed, mine

LEMMA PendingType ==
    ASSUME TypeInv
    PROVE  \A c \in Channel : Pending(c) \subseteq OwnId
  BY ElementsType DEF TypeInv, Pending, Subscription

LEMMA ReceiveReplayType ==
    ASSUME TypeInv, ReceiveReplay
    PROVE  TypeInv'
  <1>1. UNCHANGED <<log, dispatched, entries, hostVars, open, transport>>
    BY DEF ReceiveReplay, hostVars
  <1>2. /\ Arrived.actions \in ServerSeqs /\ Arrived.missing \subseteq Channel
        /\ down' \in [Transport -> Seq(DownMessage)]
    BY ArrivedType DEF ReceiveReplay, DownMessage
  <1>3. serverSeq' \in 0 .. Len(log)
    <2>1. serverSeq \in 0 .. Len(log) /\ Len(log) \in Nat
      BY LenProperties DEF TypeInv
    <2>2. Elements(Arrived.actions) \subseteq 1 .. Len(log)
      BY <1>2, ElementsType DEF ServerSeqs
    <2>3. {serverSeq} \cup Elements(Arrived.actions) \subseteq 0 .. Len(log)
      BY <2>1, <2>2
    <2>4. serverSeq' \in {serverSeq} \cup Elements(Arrived.actions)
      BY <2>1, <2>3, GreatestOne DEF ReceiveReplay
    <2>5. QED
      BY <2>3, <2>4
  <1>4. sub' \in [Channel -> Subscription]
    <2>1. \A c \in Channel : AllReplayed(c, Arrived.actions) \in Subscription
      BY <1>2, AllReplayedType
    <2>2. \A c \in Channel :
             SetError(ClearPending(AllReplayed(c, Arrived.actions))) \in Subscription
      BY <2>1, ChangedType
    <2>3. QED
      BY <2>1, <2>2 DEF ReceiveReplay
  <1>5. cleared' \subseteq OwnId
    BY <1>2, PendingType DEF ReceiveReplay, TypeInv
  <1>6. /\ up' \in [Transport -> Seq(UpMessage)] /\ requests' \subseteq 1 .. entries
        /\ outbox' = <<>> /\ gated' = <<>> /\ phase' = "connected"
    BY <1>1, DrainType DEF ReceiveReplay
  <1>7. QED
    BY <1>1, <1>2, <1>3, <1>4, <1>5, <1>6, Same, EmptySeq DEF TypeInv, hostVars

LEMMA ReceiveSnapshotsType ==
    ASSUME TypeInv, ReceiveSnapshots
    PROVE  TypeInv'
  <1> DEFINE snapshots == Arrived.snapshots
             reseated == {c \in DOMAIN snapshots : sub[c].entry # 0}
  <1>1. UNCHANGED <<log, dispatched, entries, hostVars, open, transport>>
    BY DEF ReceiveSnapshots, hostVars
  <1>2. /\ DOMAIN snapshots \subseteq Channel
        /\ \A c \in DOMAIN snapshots : snapshots[c] \in 0 .. Len(log)
        /\ down' \in [Transport -> Seq(DownMessage)]
    BY ArrivedType DEF ReceiveSnapshots, DownMessage, Snapshots
  <1>3. serverSeq' \in 0 .. Len(log)
    <2>1. serverSeq \in 0 .. Len(log) /\ Len(log) \in Nat
      BY LenProperties DEF TypeInv
    <2>2. {serverSeq} \cup {snapshots[c] : c \in DOMAIN snapshots} \subseteq 0 .. Len(log)
      BY <1>2, <2>1
    <2>3. serverSeq' \in {serverSeq} \cup {snapshots[c] : c \in DOMAIN snapshots}
      BY <2>1, <2>2, GreatestOne DEF ReceiveSnapshots
    <2>4. QED
      BY <2>2, <2>3
  <1>4. sub' \in [Channel -> Subscription]
    <2>1. \A c \in Channel : sub[c] \in Subscription /\ ClearPending(sub[c]) \in Subscription
      BY ChangedType DEF TypeInv
    <2>2. \A c \in reseated : HandleSnapshot(ClearPending(sub[c]), c, snapshots[c]) \in Subscription
      BY <1>2, <2>1, HandleSnapshotType
    <2>3. QED
      BY <2>1, <2>2 DEF ReceiveSnapshots
  <1>5. cleared' \subseteq OwnId
    BY <1>2, PendingType DEF ReceiveSnapshots, TypeInv
  <1>6. /\ up' \in [Transport -> Seq(UpMessage)] /\ requests' \subseteq 1 .. entries
        /\ outbox' = <<>> /\ gated' = <<>> /\ phase' = "connected"
    BY <1>1, DrainType DEF ReceiveSnapshots
  <1>7. QED
    BY <1>1, <1>2, <1>3, <1>4, <1>5, <1>6, Same, EmptySeq DEF TypeInv, hostVars

LEMMA AnswerType ==
    ASSUME TypeInv, ReceiveSubscribed \/ ReceiveRefusal
    PROVE  TypeInv'
  <1>1. UNCHANGED <<log, dispatched, entries, hostVars, open, up, phase, transport,
                    serverSeq, gated, outbox, cleared>>
    BY DEF ReceiveSubscribed, ReceiveRefusal, hostVars
  <1>2. down' \in [Transport -> Seq(DownMessage)]
    BY ArrivedType DEF ReceiveSubscribed, ReceiveRefusal
  <1>3. \A c \in Channel : sub[c] \in Subscription /\ SetError(sub[c]) \in Subscription
    BY ChangedType DEF TypeInv
  <1>4. sub' \in [Channel -> Subscription]
    <2>1. CASE ReceiveSubscribed
      <3>1. Arrived.fromSeq \in 0 .. Len(log)
        BY <2>1, ArrivedType DEF ReceiveSubscribed, DownMessage
      <3>2. \A c \in Channel : HandleSnapshot(sub[c], c, Arrived.fromSeq) \in Subscription
        BY <1>3, <3>1, HandleSnapshotType
      <3>3. QED
        BY <1>3, <2>1, <3>2 DEF ReceiveSubscribed
    <2>2. CASE ReceiveRefusal
      BY <1>3, <2>2 DEF ReceiveRefusal
    <2>3. QED
      BY <2>1, <2>2
  <1>5. requests' \subseteq 1 .. entries
    BY DEF ReceiveSubscribed, ReceiveRefusal, TypeInv
  <1>6. QED
    BY <1>1, <1>2, <1>4, <1>5, Same DEF TypeInv, hostVars

LEMMA BroadcastType ==
    ASSUME TypeInv, NEW c, NEW n, n \in 1 .. Len(log'), DownMessage \subseteq DownMessage'
    PROVE  Broadcast(c, n) \in [Transport -> Seq(DownMessage')]
  <1>1. down \in [Transport -> Seq(DownMessage)] /\ connections \in Seq(Transport)
    BY DEF TypeInv
  <1>2. down \in [Transport -> Seq(DownMessage')]
    <2>1. \A t \in Transport : down[t] \in Seq(DownMessage')
      BY <1>1, SeqMonotonic
    <2>2. QED
      BY <1>1, <2>1
  <1>3. [type |-> "action", seq |-> n] \in DownMessage'
    BY DEF DownMessage
  <1>4. connections # <<>> => Last(connections) \in Transport
    BY <1>1, EmptySeq, ElementOfSeq DEF Last
  <1>5. <<[type |-> "action", seq |-> n]>> \in Seq(DownMessage')
    BY <1>3
  <1>6. connections # <<>> =>
          Sent(down, Last(connections), <<[type |-> "action", seq |-> n]>>)
             \in [Transport -> Seq(DownMessage')]
    BY <1>2, <1>4, <1>5, SentType
  <1>7. QED
    BY <1>2, <1>6 DEF Broadcast

(* What an action that is applied leaves alone keeps its type.              *)
LEMMA AppliedType ==
    ASSUME TypeInv, NEW c \in Channel, NEW own \in 0 .. Len(dispatched),
           ApplyAndEmit(c, own), UNCHANGED <<dispatched, entries>>
    PROVE  /\ log' \in Seq([channel : Channel, own : 0 .. Len(dispatched)])
           /\ down' \in [Transport -> Seq(DownMessage')]
           /\ Len(log') = Len(log) + 1 /\ Len(log) \in Nat /\ Len(dispatched) \in Nat
           /\ SubscribeRequest \subseteq SubscribeRequest'
           /\ Notification \subseteq Notification'
           /\ UpMessage \subseteq UpMessage'
           /\ Restoring \subseteq Restoring'
           /\ Subscription \subseteq Subscription'
           /\ OwnId' = OwnId
  <1>1. /\ log' \in Seq([channel : Channel, own : 0 .. Len(dispatched)])
        /\ Len(log') = Len(log) + 1 /\ Len(log) \in Nat /\ Len(dispatched) \in Nat
    <2>1. [channel |-> c, own |-> own] \in [channel : Channel, own : 0 .. Len(dispatched)]
      OBVIOUS
    <2>2. QED
      BY <2>1, AppendProperties, LenProperties DEF TypeInv, ApplyAndEmit
  <1>2. /\ SubscribeRequest \subseteq SubscribeRequest'
        /\ Notification \subseteq Notification'
        /\ UpMessage \subseteq UpMessage'
        /\ DownMessage \subseteq DownMessage'
        /\ Restoring \subseteq Restoring'
        /\ Subscription \subseteq Subscription'
        /\ OwnId' = OwnId
    BY <1>1, Growth DEF OwnId, TypeInv
  <1>3. Len(log') \in 1 .. Len(log')
    BY <1>1
  <1>4. down' \in [Transport -> Seq(DownMessage')]
    BY <1>2, <1>3, BroadcastType DEF ApplyAndEmit
  <1>5. QED
    BY <1>1, <1>2, <1>4

(* The rest of TypeInv after an action was applied.                         *)
LEMMA AfterApplied ==
    ASSUME TypeInv, NEW c \in Channel, NEW own \in 0 .. Len(dispatched),
           ApplyAndEmit(c, own),
           UNCHANGED <<connections, subscriptions, restoring, subscribing, subscribers,
                       open, clientVars>>,
           up' \in [Transport -> Seq(UpMessage)], dispatchQueue' \in Seq(OwnId)
    PROVE  TypeInv'
  <1>1. UNCHANGED <<dispatched, entries>>
    BY DEF clientVars
  <1>2. /\ log' \in Seq([channel : Channel, own : 0 .. Len(dispatched)])
        /\ down' \in [Transport -> Seq(DownMessage')]
        /\ Len(log') = Len(log) + 1 /\ Len(log) \in Nat
        /\ SubscribeRequest \subseteq SubscribeRequest'
        /\ Notification \subseteq Notification'
        /\ UpMessage \subseteq UpMessage'
        /\ Restoring \subseteq Restoring'
        /\ Subscription \subseteq Subscription'
        /\ OwnId' = OwnId
    BY <1>1, AppliedType
  <1>3. /\ up' \in [Transport -> Seq(UpMessage')]
        /\ gated' \in Seq(SubscribeRequest') /\ outbox' \in Seq(Notification')
    <2>1. \A t \in Transport : up'[t] \in Seq(UpMessage')
      BY <1>2, SeqMonotonic
    <2>2. gated \in Seq(SubscribeRequest') /\ outbox \in Seq(Notification')
      BY <1>2, SeqMonotonic DEF TypeInv
    <2>3. QED
      BY <2>1, <2>2 DEF clientVars
  <1>4. /\ sub' \in [Channel -> Subscription'] /\ restoring' \subseteq Restoring'
        /\ serverSeq' \in 0 .. Len(log')
    BY <1>2 DEF TypeInv, clientVars
  <1>5. UNCHANGED <<phase, transport, requests, entries, dispatched, cleared>>
    BY DEF clientVars
  <1>6. QED
    BY <1>2, <1>3, <1>4, <1>5 DEF TypeInv

LEMMA ActType ==
    ASSUME TypeInv, NEW c \in Channel, Act(c)
    PROVE  TypeInv'
  <1>1. 0 \in 0 .. Len(dispatched)
    BY LenProperties DEF TypeInv
  <1>2. /\ ApplyAndEmit(c, 0)
        /\ UNCHANGED <<connections, subscriptions, restoring, subscribing, dispatchQueue,
                       subscribers, open, up, clientVars>>
    BY DEF Act
  <1>3. up' \in [Transport -> Seq(UpMessage)] /\ dispatchQueue' \in Seq(OwnId)
    BY <1>2 DEF TypeInv
  <1>4. QED
    BY <1>1, <1>2, <1>3, AfterApplied

LEMMA HostTakesType ==
    ASSUME TypeInv, NEW t \in Transport, NEW type, HostTakes(t, type)
    PROVE  /\ Head(up[t]) \in UpMessage /\ Head(up[t]).type = type
           /\ up' \in [Transport -> Seq(UpMessage)]
  BY TakenType DEF TypeInv, HostTakes

LEMMA DispatchedChannel ==
    ASSUME TypeInv, NEW id \in OwnId
    PROVE  dispatched[id] \in Channel /\ id \in 0 .. Len(dispatched)
  BY ElementOfSeq DEF TypeInv, OwnId

(* Nothing is applied, dispatched or created, and the client is not concerned. *)
LEMMA HostOnly ==
    ASSUME TypeInv, UNCHANGED <<log, open, clientVars>>,
           connections' \in Seq(Transport), subscriptions' \in [Transport -> SUBSET Channel],
           restoring' \subseteq Restoring, subscribers' \subseteq Channel,
           subscribing' \subseteq [transport : Transport, channel : Channel, id : 1 .. entries],
           dispatchQueue' \in Seq(OwnId), up' \in [Transport -> Seq(UpMessage)],
           down' \in [Transport -> Seq(DownMessage)]
    PROVE  TypeInv'
  <1>1. UNCHANGED <<log, dispatched, entries, phase, transport, serverSeq, sub, gated,
                    requests, outbox, cleared>>
    BY DEF clientVars
  <1>2. QED
    BY <1>1, Same DEF TypeInv

LEMMA HandleDispatchType ==
    ASSUME TypeInv, NEW t \in Transport, HandleDispatch(t)
    PROVE  TypeInv'
  <1> DEFINE id == Head(up[t]).id
  <1>1. id \in OwnId /\ up' \in [Transport -> Seq(UpMessage)]
    BY HostTakesType DEF HandleDispatch, UpMessage, Notification, SubscribeRequest
  <1>2. dispatched[id] \in Channel /\ id \in 0 .. Len(dispatched)
    BY <1>1, DispatchedChannel
  <1>3. /\ UNCHANGED <<connections, subscriptions, restoring, subscribing, subscribers,
                       open, clientVars>>
        /\ \/ ApplyAndEmit(dispatched[id], id) /\ dispatchQueue' = dispatchQueue
           \/ dispatchQueue' = Append(dispatchQueue, id) /\ log' = log /\ down' = down
    BY DEF HandleDispatch
  <1> HIDE DEF id
  <1>4. CASE ApplyAndEmit(dispatched[id], id) /\ dispatchQueue' = dispatchQueue
    <2>1. dispatchQueue' \in Seq(OwnId)
      BY <1>4 DEF TypeInv
    <2>2. QED
      BY <1>1, <1>2, <1>3, <1>4, <2>1, AfterApplied
  <1>5. CASE dispatchQueue' = Append(dispatchQueue, id) /\ log' = log /\ down' = down
    <2>1. dispatchQueue' \in Seq(OwnId)
      BY <1>1, <1>5, AppendProperties DEF TypeInv
    <2>2. QED
      BY <1>1, <1>3, <1>5, <2>1, HostOnly DEF TypeInv
  <1>6. QED
    BY <1>3, <1>4, <1>5

LEMMA RunDispatchQueueType ==
    ASSUME TypeInv, RunDispatchQueue
    PROVE  TypeInv'
  <1>1. /\ Head(dispatchQueue) \in OwnId /\ dispatchQueue' \in Seq(OwnId)
    BY HeadTailProperties DEF RunDispatchQueue, TypeInv
  <1>2. /\ dispatched[Head(dispatchQueue)] \in Channel
        /\ Head(dispatchQueue) \in 0 .. Len(dispatched)
    BY <1>1, DispatchedChannel
  <1>3. /\ ApplyAndEmit(dispatched[Head(dispatchQueue)], Head(dispatchQueue))
        /\ UNCHANGED <<connections, subscriptions, restoring, subscribing, subscribers,
                       open, up, clientVars>>
    BY DEF RunDispatchQueue
  <1>4. up' \in [Transport -> Seq(UpMessage)]
    BY <1>3 DEF TypeInv
  <1>5. QED
    BY <1>1, <1>2, <1>3, <1>4, AfterApplied

LEMMA HandleReconnectType ==
    ASSUME TypeInv, NEW t \in Transport, HandleReconnect(t)
    PROVE  TypeInv'
  <1> DEFINE request == Head(up[t])
             new == [transport |-> t, lastSeen  |-> request.lastSeen,
                     canReplay |-> request.lastSeen >= OldestBuffered,
                     left      |-> request.channels \ {Root}, missing   |-> {},
                     snapshots |-> [c \in {Root} \cap request.channels |-> Len(log)]]
  <1>1. /\ request.lastSeen \in 0 .. Len(log) /\ request.channels \subseteq Channel
        /\ up' \in [Transport -> Seq(UpMessage)]
    BY HostTakesType DEF HandleReconnect, UpMessage, Notification, SubscribeRequest
  <1>2. new \in Restoring
    <2>1. Len(log) \in 0 .. Len(log)
      BY LenProperties DEF TypeInv
    <2>2. [c \in {Root} \cap request.channels |-> Len(log)] \in Snapshots
      <3>1. PICK D : D = {Root} \cap request.channels
        OBVIOUS
      <3>2. D \in SUBSET Channel
        BY <1>1, <3>1
      <3>3. [c \in D |-> Len(log)] \in [D -> 0 .. Len(log)]
        BY <2>1
      <3>4. QED
        BY <3>1, <3>2, <3>3 DEF Snapshots
    <2>3. (request.lastSeen >= OldestBuffered) \in BOOLEAN
      OBVIOUS
    <2>4. QED
      BY <1>1, <2>2, <2>3 DEF Restoring
  <1>3. /\ UNCHANGED <<log, subscribing, dispatchQueue, open, down, clientVars>>
        /\ connections' = Append(connections, t)
        /\ subscriptions' = [subscriptions EXCEPT ![t] = {Root} \cap request.channels]
        /\ subscribers' = subscribers \cup request.channels
        /\ restoring' = restoring \cup {new}
    BY DEF HandleReconnect
  <1> HIDE DEF new, request
  <1>4. /\ connections' \in Seq(Transport) /\ subscriptions' \in [Transport -> SUBSET Channel]
        /\ restoring' \subseteq Restoring /\ subscribers' \subseteq Channel
    BY <1>1, <1>2, <1>3, AppendProperties DEF TypeInv
  <1>5. /\ subscribing' \subseteq [transport : Transport, channel : Channel, id : 1 .. entries]
        /\ dispatchQueue' \in Seq(OwnId) /\ down' \in [Transport -> Seq(DownMessage)]
    BY <1>3 DEF TypeInv
  <1>6. QED
    BY <1>1, <1>3, <1>4, <1>5, HostOnly

LEMMA RestoreType ==
    ASSUME TypeInv, NEW r \in restoring, NEW c \in Channel, Restore(r, c) \/ RestoreFails(r, c)
    PROVE  TypeInv'
  <1>1. r \in Restoring /\ r.transport \in Transport
    BY DEF TypeInv, Restoring
  <1>2. restoring' \subseteq Restoring
    <2>1. CASE Restore(r, c)
      <3> DEFINE snapshots == [d \in DOMAIN r.snapshots \cup {c} |->
                                 IF d = c THEN Len(log) ELSE r.snapshots[d]]
                 new == [r EXCEPT !.left = @ \ {c}, !.snapshots = snapshots]
      <3>1. snapshots \in Snapshots
        <4>1. /\ DOMAIN r.snapshots \in SUBSET Channel
              /\ \A d \in DOMAIN r.snapshots : r.snapshots[d] \in 0 .. Len(log)
          BY <1>1 DEF Restoring, Snapshots
        <4>2. Len(log) \in 0 .. Len(log)
          BY LenProperties DEF TypeInv
        <4>3. DOMAIN r.snapshots \cup {c} \in SUBSET Channel
          BY <4>1
        <4>4. snapshots \in [DOMAIN r.snapshots \cup {c} -> 0 .. Len(log)]
          BY <4>1, <4>2
        <4>5. QED
          BY <4>3, <4>4 DEF Snapshots
      <3>2. restoring' = (restoring \ {r}) \cup {new}
        BY <1>1, <2>1 DEF Restore, Restoring
      <3> HIDE DEF snapshots
      <3>3. new \in Restoring
        BY <1>1, <3>1 DEF Restoring
      <3>4. QED
        BY <3>2, <3>3 DEF TypeInv
    <2>2. CASE RestoreFails(r, c)
      <3>1. [r EXCEPT !.left = @ \ {c}, !.missing = @ \cup {c}] \in Restoring
        BY <1>1 DEF Restoring
      <3>2. QED
        BY <2>2, <3>1 DEF TypeInv, RestoreFails
    <2>3. QED
      BY <2>1, <2>2
  <1>3. /\ UNCHANGED <<log, connections, subscribing, dispatchQueue, wireVars, clientVars>>
        /\ subscriptions' \in [Transport -> SUBSET Channel] /\ subscribers' \subseteq Channel
    <2>1. CASE Restore(r, c)
      <3>1. subscriptions' = [subscriptions EXCEPT ![r.transport] = @ \cup {c}]
        BY <2>1 DEF Restore
      <3>2. subscriptions' \in [Transport -> SUBSET Channel]
        BY <1>1, <3>1 DEF TypeInv
      <3>3. QED
        BY <2>1, <3>2 DEF Restore, TypeInv
    <2>2. CASE RestoreFails(r, c)
      BY <2>2 DEF RestoreFails, TypeInv
    <2>3. QED
      BY <2>1, <2>2
  <1>4. QED
    BY <1>2, <1>3, HostOnly DEF TypeInv, wireVars

LEMMA MissedType ==
    ASSUME TypeInv, NEW r
    PROVE  Missed(r) \in ServerSeqs
  BY Lengths, UpToType, WhereType DEF Missed, ServerSeqs

LEMMA RespondType ==
    ASSUME TypeInv, NEW r \in restoring, Respond(r)
    PROVE  TypeInv'
  <1>1. r \in Restoring /\ r.transport \in Transport
    BY DEF TypeInv, Restoring
  <1>2. PICK m \in DownMessage : down' = Sent(down, r.transport, <<m>>)
    <2>1. [type |-> "replay", actions |-> Missed(r), missing |-> r.missing] \in DownMessage
      BY <1>1, MissedType DEF Restoring, DownMessage
    <2>2. [type |-> "snapshot", snapshots |-> r.snapshots] \in DownMessage
      BY <1>1 DEF Restoring, DownMessage
    <2>3. QED
      BY <2>1, <2>2 DEF Respond
  <1>3. down' \in [Transport -> Seq(DownMessage)]
    <2>1. <<m>> \in Seq(DownMessage) /\ down \in [Transport -> Seq(DownMessage)]
      BY <1>2 DEF TypeInv
    <2>2. QED
      BY <1>1, <1>2, <2>1, SentType
  <1>4. /\ UNCHANGED <<log, connections, subscriptions, subscribing, dispatchQueue,
                       subscribers, open, up, clientVars>>
        /\ restoring' \subseteq Restoring
    BY DEF Respond, TypeInv
  <1>5. QED
    BY <1>3, <1>4, HostOnly DEF TypeInv

LEMMA HandleSubscribeType ==
    ASSUME TypeInv, NEW t \in Transport, HandleSubscribe(t)
    PROVE  TypeInv'
  <1> DEFINE request == Head(up[t])
  <1>1. /\ request.channel \in Channel /\ request.id \in 1 .. entries
        /\ up' \in [Transport -> Seq(UpMessage)]
    BY HostTakesType DEF HandleSubscribe, UpMessage, Notification, SubscribeRequest
  <1>2. /\ UNCHANGED <<log, connections, subscriptions, restoring, dispatchQueue, open, down,
                       clientVars>>
        /\ subscribers' = subscribers \cup {request.channel}
        /\ subscribing' = subscribing \cup
             {[transport |-> t, channel |-> request.channel, id |-> request.id]}
    BY DEF HandleSubscribe
  <1> HIDE DEF request
  <1>3. /\ subscribers' \subseteq Channel
        /\ subscribing' \subseteq [transport : Transport, channel : Channel, id : 1 .. entries]
    BY <1>1, <1>2 DEF TypeInv
  <1>4. QED
    BY <1>1, <1>2, <1>3, HostOnly DEF TypeInv

LEMMA HostAnswersType ==
    ASSUME TypeInv, NEW r \in subscribing, Subscribed(r) \/ SubscribeFails(r)
    PROVE  TypeInv'
  <1>1. r.transport \in Transport /\ r.channel \in Channel /\ r.id \in 1 .. entries
    BY DEF TypeInv
  <1>2. PICK m \in DownMessage : down' = Sent(down, r.transport, <<m>>)
    <2>1. Len(log) \in 0 .. Len(log)
      BY LenProperties DEF TypeInv
    <2>2. /\ [type |-> "subscribed", id |-> r.id, fromSeq |-> Len(log)] \in DownMessage
          /\ [type |-> "refused", id |-> r.id] \in DownMessage
      BY <1>1, <2>1 DEF DownMessage
    <2>3. QED
      BY <2>2 DEF Subscribed, SubscribeFails
  <1>3. down' \in [Transport -> Seq(DownMessage)]
    <2>1. <<m>> \in Seq(DownMessage) /\ down \in [Transport -> Seq(DownMessage)]
      BY <1>2 DEF TypeInv
    <2>2. QED
      BY <1>1, <1>2, <2>1, SentType
  <1>4. /\ UNCHANGED <<log, connections, restoring, dispatchQueue, open, up, clientVars>>
        /\ subscribing' \subseteq [transport : Transport, channel : Channel, id : 1 .. entries]
        /\ subscriptions' \in [Transport -> SUBSET Channel] /\ subscribers' \subseteq Channel
    <2>1. CASE Subscribed(r)
      <3>1. subscriptions' = [subscriptions EXCEPT ![r.transport] = @ \cup {r.channel}]
        BY <2>1 DEF Subscribed
      <3>2. subscriptions' \in [Transport -> SUBSET Channel]
        BY <1>1, <3>1 DEF TypeInv
      <3>3. QED
        BY <2>1, <3>2 DEF Subscribed, TypeInv
    <2>2. CASE SubscribeFails(r)
      BY <2>2 DEF SubscribeFails, TypeInv
    <2>3. QED
      BY <2>1, <2>2
  <1>5. QED
    BY <1>3, <1>4, HostOnly DEF TypeInv

LEMMA HandleUnsubscribeType ==
    ASSUME TypeInv, NEW t \in Transport, HandleUnsubscribe(t)
    PROVE  TypeInv'
  <1>1. up' \in [Transport -> Seq(UpMessage)]
    BY HostTakesType DEF HandleUnsubscribe
  <1>2. /\ UNCHANGED <<log, connections, restoring, subscribing, dispatchQueue, open, down,
                       clientVars>>
        /\ subscriptions' \in [Transport -> SUBSET Channel] /\ subscribers' \subseteq Channel
    BY DEF HandleUnsubscribe, TypeInv
  <1>3. QED
    BY <1>1, <1>2, HostOnly DEF TypeInv

LEMMA HostSeesCloseType ==
    ASSUME TypeInv, NEW t \in Transport, HostSeesClose(t)
    PROVE  TypeInv'
  <1>1. connections' \in Seq(Transport)
    <2>1. PICK i \in 1 .. Len(connections) : connections' = RemoveAt(connections, i)
      BY DEF HostSeesClose
    <2>2. connections \in Seq(Transport) /\ Len(connections) \in Nat
      BY LenProperties DEF TypeInv
    <2>3. /\ SubSeq(connections, 1, i - 1) \in Seq(Transport)
          /\ SubSeq(connections, i + 1, Len(connections)) \in Seq(Transport)
      BY <2>2, SubSeqProperties, ElementOfSeq
    <2>4. QED
      BY <2>1, <2>3, ConcatProperties DEF RemoveAt
  <1>2. /\ UNCHANGED <<log, restoring, subscribing, dispatchQueue, wireVars, clientVars>>
        /\ subscriptions' \in [Transport -> SUBSET Channel] /\ subscribers' \subseteq Channel
    BY DEF HostSeesClose, TypeInv
  <1>3. QED
    BY <1>1, <1>2, HostOnly DEF TypeInv, wireVars

LEMMA BreakType ==
    ASSUME TypeInv, Break
    PROVE  TypeInv'
  <1>1. /\ UNCHANGED <<hostVars, clientVars, log, dispatched, entries>>
        /\ open' \in [Transport -> BOOLEAN]
    BY DEF Break, hostVars, clientVars, TypeInv
  <1>2. PICK i \in 0 .. Len(up[transport]), j \in 0 .. Len(down[transport]) :
           /\ up' = [up EXCEPT ![transport] = SubSeq(@, 1, i)]
           /\ down' = [down EXCEPT ![transport] = SubSeq(@, 1, j)]
    BY DEF Break
  <1>3. /\ up[transport] \in Seq(UpMessage) /\ down[transport] \in Seq(DownMessage)
        /\ Len(up[transport]) \in Nat /\ Len(down[transport]) \in Nat
    BY LenProperties DEF TypeInv
  <1>4. /\ SubSeq(up[transport], 1, i) \in Seq(UpMessage)
        /\ SubSeq(down[transport], 1, j) \in Seq(DownMessage)
    <2>1. /\ \A k \in 1 .. i : up[transport][k] \in UpMessage
          /\ \A k \in 1 .. j : down[transport][k] \in DownMessage
      BY <1>3, ElementOfSeq
    <2>2. 1 \in Int /\ i \in Int /\ j \in Int
      OBVIOUS
    <2>3. QED
      BY <2>1, <2>2, SubSeqProperties
  <1>5. /\ up' \in [Transport -> Seq(UpMessage)] /\ down' \in [Transport -> Seq(DownMessage)]
    BY <1>2, <1>4 DEF TypeInv
  <1>6. QED
    BY <1>1, <1>5, Same DEF TypeInv, hostVars, clientVars

LEMMA StepType ==
    ASSUME TypeInv, [Next]_vars
    PROVE  TypeInv'
  <1>1. CASE \E c \in Channel : Dispatch(c) \/ Subscribe(c) \/ Release(c) \/ Act(c)
    BY <1>1, DispatchType, SubscribeType, ReleaseType, ActType
  <1>2. CASE ClientRuns
    BY <1>2, ReceiveActionType, ReceiveReplayType, ReceiveSnapshotsType, AnswerType,
       ClientSeesCloseType, AttemptReconnectType DEF ClientRuns
  <1>3. CASE \E t \in Transport : HostReads(t)
    BY <1>3, HandleDispatchType, HandleReconnectType, HandleSubscribeType,
       HandleUnsubscribeType, HostSeesCloseType DEF HostReads
  <1>4. CASE \E r \in restoring : HostRestores(r)
    BY <1>4, RestoreType, RespondType DEF HostRestores
  <1>5. CASE \E r \in subscribing : HostAnswers(r)
    BY <1>5, HostAnswersType DEF HostAnswers
  <1>6. CASE RunDispatchQueue \/ Break
    BY <1>6, RunDispatchQueueType, BreakType
  <1>7. CASE UNCHANGED vars
    <2>1. UNCHANGED <<log, dispatched, entries, hostVars, wireVars, clientVars>>
      BY <1>7 DEF vars, hostVars, clientVars
    <2>2. QED
      BY <2>1, Same DEF TypeInv, hostVars, wireVars, clientVars
  <1>8. QED
    BY <1>1, <1>2, <1>3, <1>4, <1>5, <1>6, <1>7 DEF Next

LEMMA AlwaysTypeInv == Spec => []TypeInv
  BY InitType, StepType, PTL DEF Spec

LEMMA AppliedRaces ==
    ASSUME RacedType, NEW c \in Channel, NEW own, ApplyAndEmit(c, own)
    PROVE  RacedType'
  <1>1. {d \in {c} : Astray(d)} \in SUBSET Channel
    OBVIOUS
  <1>2. Race("astray", {d \in {c} : Astray(d)})
    BY DEF ApplyAndEmit
  <1>3. QED
    BY <1>1, <1>2, RaceType

LEMMA StepRaces ==
    ASSUME TypeInv, RacedType, [Next]_vars
    PROVE  RacedType'
  <1>1. ASSUME UNCHANGED raced PROVE RacedType'
    BY <1>1 DEF RacedType
  <1>2. ASSUME NEW c \in Channel, Dispatch(c) \/ Release(c)
        PROVE  RacedType'
    <2>1. {c} \cap Gated \in SUBSET Channel /\ Race("crossed", {c} \cap Gated)
      BY <1>2 DEF Dispatch, Release
    <2>2. QED
      BY <2>1, RaceType
  <1>3. CASE AttemptReconnect
    <2>1. AheadOfSeen \in SUBSET Channel /\ Race("ahead", AheadOfSeen)
      BY <1>3 DEF AttemptReconnect, AheadOfSeen, Following
    <2>2. QED
      BY <2>1, RaceType
  <1>4. ASSUME NEW c \in Channel, Act(c) PROVE RacedType'
    BY <1>4, AppliedRaces DEF Act
  <1>5. ASSUME NEW t \in Transport, HandleDispatch(t) PROVE RacedType'
    <2>1. Head(up[t]).id \in OwnId
      BY <1>5, HostTakesType DEF HandleDispatch, UpMessage, Notification, SubscribeRequest
    <2>2. dispatched[Head(up[t]).id] \in Channel
      BY <2>1, DispatchedChannel
    <2>3. \/ ApplyAndEmit(dispatched[Head(up[t]).id], Head(up[t]).id)
          \/ UNCHANGED raced
      BY <1>5 DEF HandleDispatch
    <2>4. QED
      BY <2>2, <2>3, <1>1, AppliedRaces
  <1>6. CASE RunDispatchQueue
    <2>1. dispatched[Head(dispatchQueue)] \in Channel
      BY <1>6, HeadTailProperties, DispatchedChannel DEF RunDispatchQueue, TypeInv
    <2>2. QED
      BY <1>6, <2>1, AppliedRaces DEF RunDispatchQueue
  <1>7. ASSUME NEW r \in restoring, Respond(r) PROVE RacedType'
    <2>1. r.missing \in SUBSET Channel
      BY <1>7 DEF TypeInv, Restoring
    <2>2. (IF r.canReplay THEN {} ELSE r.missing) \in SUBSET Channel
          /\ Race("forgotten", IF r.canReplay THEN {} ELSE r.missing)
      BY <1>7, <2>1 DEF Respond
    <2>3. QED
      BY <2>2, RaceType
  <1>8. ASSUME NEW c \in Channel, Subscribe(c) PROVE RacedType'
    BY <1>1, <1>8 DEF Subscribe
  <1>9. CASE \/ ReceiveAction \/ ReceiveReplay \/ ReceiveSnapshots
             \/ ReceiveSubscribed \/ ReceiveRefusal \/ ClientSeesClose \/ Break
    BY <1>1, <1>9 DEF ReceiveAction, ReceiveReplay, ReceiveSnapshots, ReceiveSubscribed,
       ReceiveRefusal, ClientSeesClose, Break
  <1>10. ASSUME NEW t \in Transport,
                HandleReconnect(t) \/ HandleSubscribe(t) \/ HandleUnsubscribe(t)
                   \/ HostSeesClose(t)
         PROVE  RacedType'
    BY <1>1, <1>10 DEF HandleReconnect, HandleSubscribe, HandleUnsubscribe, HostSeesClose
  <1>11. ASSUME NEW r, NEW c, Restore(r, c) \/ RestoreFails(r, c)
         PROVE  RacedType'
    BY <1>1, <1>11 DEF Restore, RestoreFails
  <1>12. ASSUME NEW r, Subscribed(r) \/ SubscribeFails(r) PROVE RacedType'
    BY <1>1, <1>12 DEF Subscribed, SubscribeFails
  <1>13. CASE UNCHANGED vars
    BY <1>1, <1>13 DEF vars
  <1>14. QED
    BY <1>2, <1>3, <1>4, <1>5, <1>6, <1>7, <1>8, <1>9, <1>10, <1>11, <1>12, <1>13
       DEF Next, ClientRuns, HostReads, HostRestores, HostAnswers

LEMMA AlwaysRacedType == Spec => []RacedType
  <1>1. Init => RacedType
    BY DEF Init, RacedType
  <1>2. QED
    BY <1>1, AlwaysTypeInv, StepRaces, PTL DEF Spec

\* Every variable has its type; no message in flight speaks of an action, a
\* subscription or a channel that does not exist.
THEOREM TypeCorrect == Spec => []TypeOK
  BY AlwaysTypeInv, AlwaysRacedType, TypeInvTypes, PTL

-----------------------------------------------------------------------------
(* The registrations.                                                       *)

Holds(t, c) == t \in Elements(connections) /\ c \in subscriptions[t]
Held(c) == \E t \in Transport : Holds(t, c)

(* A connection is in the client's record once, and what is subscribed to   *)
(* is subscribed to on a connection.                                        *)
Connected ==
    /\ connections \in Seq(Transport)
    /\ \A i, j \in 1 .. Len(connections) : connections[i] = connections[j] => i = j
    /\ subscriptions = [t \in Transport |-> subscriptions[t]]

Fields == {"transport", "lastSeen", "canReplay", "left", "missing", "snapshots"}
RestoreRequest(r) == r = [f \in Fields |-> r[f]]

(* One request is answered at a time, and its connection stays meanwhile.   *)
OneAtATime ==
    /\ \A r \in restoring :
          /\ restoring = {r} /\ subscribing = {}
          /\ r.transport \in Elements(connections)
          /\ RestoreRequest(r)
    /\ \A r \in subscribing :
          /\ subscribing = {r} /\ restoring = {}
          /\ r.transport \in Elements(connections)

(* The client is registered for what is held and what is about to be.       *)
Coming(c) ==
    \/ \E r \in restoring : c \in r.left
    \/ \E r \in subscribing : c = r.channel

RegisteredOrComing == \A c : c \in subscribers <=> Held(c) \/ Coming(c)

IInv == Connected /\ OneAtATime /\ RegisteredOrComing

AtRest == restoring = {} /\ subscribing = {}

registrationVars == <<connections, subscriptions, restoring, subscribing, subscribers>>

-----------------------------------------------------------------------------
LEMMA ConnectedTransports ==
    ASSUME Connected
    PROVE  /\ Elements(connections) \subseteq Transport
           /\ Len(connections) \in Nat
           /\ \A i \in 1 .. Len(connections) : connections[i] \in Transport
  BY ElementOfSeq, LenProperties DEF Connected, Elements

(* A host that waits for no channel to be loaded answers before it goes on.  *)
LEMMA AtRestThen ==
    ASSUME Evicted = {}, MayInterleave
    PROVE  AtRest
  BY DEF MayInterleave, AtRest

LEMMA InitIInv == Init => IInv
  <1> SUFFICES ASSUME Init PROVE IInv
    OBVIOUS
  <1>1. 1 \in Transport /\ Elements(<<1>>) = {1}
    BY BoundsAssumption DEF Transport, Elements
  <1>2. Connected
    BY <1>1 DEF Init, Connected
  <1>3. OneAtATime
    BY DEF Init, OneAtATime
  <1>4. RegisteredOrComing
    BY <1>1 DEF Init, RegisteredOrComing, Held, Holds, Coming
  <1>5. QED
    BY <1>2, <1>3, <1>4 DEF IInv

LEMMA NothingRegistered ==
    ASSUME IInv, UNCHANGED registrationVars
    PROVE  IInv'
  BY DEF IInv, Connected, OneAtATime, RestoreRequest, RegisteredOrComing, Held, Holds,
         Coming, Elements, registrationVars

LEMMA ClientStep ==
    ASSUME NEW c \in Channel,
           Dispatch(c) \/ Subscribe(c) \/ Release(c) \/ ClientRuns \/ Break
    PROVE  UNCHANGED registrationVars
  <1>1. UNCHANGED hostVars
    <2>1. CASE Dispatch(c) \/ Subscribe(c) \/ Release(c) \/ Break
      BY <2>1 DEF Dispatch, Subscribe, Release, Break
    <2>2. CASE ReceiveAction \/ ReceiveReplay \/ ReceiveSnapshots
      BY <2>2 DEF ReceiveAction, ReceiveReplay, ReceiveSnapshots
    <2>3. CASE ReceiveSubscribed \/ ReceiveRefusal \/ ClientSeesClose \/ AttemptReconnect
      BY <2>3 DEF ReceiveSubscribed, ReceiveRefusal, ClientSeesClose, AttemptReconnect
    <2>4. QED
      BY <2>1, <2>2, <2>3 DEF ClientRuns
  <1>2. QED
    BY <1>1 DEF hostVars, registrationVars

LEMMA ActionStep ==
    ASSUME NEW c \in Channel, NEW t \in Transport,
           Act(c) \/ HandleDispatch(t) \/ RunDispatchQueue
    PROVE  UNCHANGED registrationVars
  BY DEF Act, HandleDispatch, RunDispatchQueue, registrationVars

LEMMA ReconnectStep ==
    ASSUME IInv, Evicted = {}, NEW t \in Transport, HandleReconnect(t)
    PROVE  IInv'
  <1> DEFINE request == Head(up[t])
  <1>1. PICK channels, lastSeen, canReplay, snapshots :
          /\ AtRest /\ t \notin Elements(connections)
          /\ connections' = Append(connections, t)
          /\ subscriptions' = [subscriptions EXCEPT ![t] = {Root} \cap channels]
          /\ subscribers' = subscribers \cup channels
          /\ restoring' = restoring \cup
                {[transport |-> t, lastSeen |-> lastSeen, canReplay |-> canReplay,
                  left |-> channels \ {Root}, missing |-> {}, snapshots |-> snapshots]}
          /\ subscribing' = subscribing
    BY AtRestThen DEF HandleReconnect, HostTakes
  <1>2. /\ Elements(connections') = Elements(connections) \cup {t}
        /\ Connected'
    <2>1. /\ connections \in Seq(Transport)
          /\ Len(connections') = Len(connections) + 1
          /\ connections' \in Seq(Transport)
          /\ connections'[Len(connections) + 1] = t
          /\ \A i \in 1 .. Len(connections) : connections'[i] = connections[i]
      BY <1>1, AppendProperties DEF IInv, Connected
    <2>2. Len(connections) \in Nat
      BY ConnectedTransports DEF IInv
    <2>3. \A i : i \in 1 .. Len(connections') <=>
                    i \in 1 .. Len(connections) \/ i = Len(connections) + 1
      BY <2>1, <2>2
    <2>4. Elements(connections') = Elements(connections) \cup {t}
      BY <2>1, <2>3 DEF Elements
    <2>5. \A i \in 1 .. Len(connections) : connections[i] # t
      BY <1>1 DEF Elements
    <2>6. \A i, j \in 1 .. Len(connections') : connections'[i] = connections'[j] => i = j
      BY <2>1, <2>3, <2>5 DEF IInv, Connected
    <2>7. subscriptions' = [u \in Transport |-> subscriptions'[u]]
      BY <1>1 DEF IInv, Connected
    <2>8. QED
      BY <2>1, <2>4, <2>6, <2>7 DEF Connected
  <1>3. PICK r : restoring' = {r} /\ subscribing' = {} /\ r.transport = t
                 /\ r.left = channels \ {Root} /\ RestoreRequest(r)
    <2> DEFINE new == [transport |-> t, lastSeen |-> lastSeen, canReplay |-> canReplay,
                       left |-> channels \ {Root}, missing |-> {}, snapshots |-> snapshots]
    <2>1. restoring' = {new} /\ subscribing' = {}
      BY <1>1 DEF AtRest
    <2>2. new.transport = t /\ new.left = channels \ {Root} /\ RestoreRequest(new)
      BY DEF RestoreRequest, Fields
    <2> HIDE DEF new
    <2>3. QED
      BY <2>1, <2>2
  <1>4. OneAtATime'
    BY <1>2, <1>3 DEF OneAtATime, RestoreRequest
  <1>5. \A c : Held(c)' <=> Held(c) \/ c \in {Root} \cap channels
    <2>1. \A u \in Transport : subscriptions'[u] = IF u = t THEN {Root} \cap channels
                                                            ELSE subscriptions[u]
      BY <1>1 DEF IInv, Connected
    <2>2. QED
      BY <1>1, <1>2, <2>1 DEF Held, Holds
  <1>6. \A c : Coming(c)' <=> c \in channels \ {Root}
    BY <1>3 DEF Coming
  <1>7. \A c : c \in subscribers <=> Held(c)
    BY <1>1 DEF IInv, RegisteredOrComing, Coming, AtRest
  <1>8. RegisteredOrComing'
    BY <1>1, <1>5, <1>6, <1>7 DEF RegisteredOrComing
  <1>9. QED
    BY <1>2, <1>4, <1>8 DEF IInv

LEMMA RestoreStep ==
    ASSUME IInv, NEW r \in restoring, NEW c \in Channel, Restore(r, c)
    PROVE  IInv'
  <1>1. /\ restoring = {r} /\ subscribing = {} /\ r.transport \in Elements(connections)
        /\ RestoreRequest(r) /\ r.transport \in Transport
    BY ConnectedTransports DEF IInv, OneAtATime
  <1>2. /\ c \in r.left
        /\ subscriptions' = [subscriptions EXCEPT ![r.transport] = @ \cup {c}]
        /\ UNCHANGED <<connections, subscribing, subscribers>>
    BY DEF Restore
  <1>3. PICK q : /\ restoring' = {q} /\ RestoreRequest(q)
                 /\ q.transport = r.transport /\ q.left = r.left \ {c}
    <2>1. PICK snapshots : restoring' = (restoring \ {r}) \cup
                {[r EXCEPT !.left = @ \ {c}, !.snapshots = snapshots]}
      BY DEF Restore
    <2> DEFINE new == [r EXCEPT !.left = @ \ {c}, !.snapshots = snapshots]
    <2>2. restoring' = {new}
      BY <1>1, <2>1
    <2>3. new.transport = r.transport /\ new.left = r.left \ {c} /\ RestoreRequest(new)
      BY <1>1, Zenon DEF RestoreRequest, Fields
    <2> HIDE DEF new
    <2>4. QED
      BY <2>2, <2>3
  <1>4. Connected'
    BY <1>2 DEF IInv, Connected
  <1>5. OneAtATime'
    BY <1>1, <1>2, <1>3 DEF OneAtATime, Elements, RestoreRequest
  <1>6. \A d : Held(d)' <=> Held(d) \/ d = c
    <2>1. \A u \in Transport : subscriptions'[u] =
             IF u = r.transport THEN subscriptions[u] \cup {c} ELSE subscriptions[u]
      BY <1>2 DEF IInv, Connected
    <2>2. Elements(connections)' = Elements(connections)
      BY <1>2 DEF Elements
    <2>3. \A d : Held(d)' => Held(d) \/ d = c
      BY <2>1, <2>2 DEF Held, Holds
    <2>4. \A d : Held(d) => Held(d)'
      BY <2>1, <2>2 DEF Held, Holds
    <2>5. Held(c)'
      BY <1>1, <2>1, <2>2 DEF Held, Holds
    <2>6. QED
      BY <2>3, <2>4, <2>5
  <1>7. \A d : (Coming(d) <=> d \in r.left) /\ (Coming(d)' <=> d \in r.left \ {c})
    BY <1>1, <1>2, <1>3 DEF Coming
  <1>8. RegisteredOrComing'
    BY <1>2, <1>6, <1>7 DEF IInv, RegisteredOrComing
  <1>9. QED
    BY <1>4, <1>5, <1>8 DEF IInv

LEMMA RestoreFailsStep ==
    ASSUME IInv, NEW r \in restoring, NEW c \in Channel, RestoreFails(r, c)
    PROVE  IInv'
  <1>1. /\ restoring = {r} /\ subscribing = {} /\ r.transport \in Elements(connections)
        /\ RestoreRequest(r)
    BY DEF IInv, OneAtATime
  <1>2. /\ c \in r.left /\ ~Held(c)
        /\ subscribers' = subscribers \ {c}
        /\ UNCHANGED <<connections, subscriptions, subscribing>>
    BY DEF RestoreFails, MayFail, Held, Holds
  <1>3. PICK q : /\ restoring' = {q} /\ RestoreRequest(q)
                 /\ q.transport = r.transport /\ q.left = r.left \ {c}
    <2> DEFINE new == [r EXCEPT !.left = @ \ {c}, !.missing = @ \cup {c}]
    <2>1. restoring' = {new}
      BY <1>1 DEF RestoreFails
    <2>2. new.transport = r.transport /\ new.left = r.left \ {c} /\ RestoreRequest(new)
      BY <1>1, Zenon DEF RestoreRequest, Fields
    <2> HIDE DEF new
    <2>3. QED
      BY <2>1, <2>2
  <1>4. Connected'
    BY <1>2 DEF IInv, Connected
  <1>5. OneAtATime'
    BY <1>1, <1>2, <1>3 DEF OneAtATime, Elements, RestoreRequest
  <1>6. \A d : Held(d)' <=> Held(d)
    BY <1>2 DEF Held, Holds, Elements
  <1>7. \A d : (Coming(d) <=> d \in r.left) /\ (Coming(d)' <=> d \in r.left \ {c})
    BY <1>1, <1>2, <1>3 DEF Coming
  <1>8. RegisteredOrComing'
    BY <1>2, <1>6, <1>7 DEF IInv, RegisteredOrComing
  <1>9. QED
    BY <1>4, <1>5, <1>8 DEF IInv

LEMMA RespondStep ==
    ASSUME IInv, NEW r \in restoring, Respond(r)
    PROVE  IInv'
  <1>1. /\ restoring = {r} /\ subscribing = {} /\ r.left = {} /\ restoring' = {}
        /\ UNCHANGED <<connections, subscriptions, subscribing, subscribers>>
    BY DEF IInv, OneAtATime, Respond
  <1>2. Connected' /\ OneAtATime'
    BY <1>1 DEF IInv, Connected, OneAtATime
  <1>3. \A d : (Held(d)' <=> Held(d)) /\ ~Coming(d) /\ ~Coming(d)'
    BY <1>1 DEF Held, Holds, Elements, Coming
  <1>4. RegisteredOrComing'
    BY <1>1, <1>3 DEF IInv, RegisteredOrComing
  <1>5. QED
    BY <1>2, <1>4 DEF IInv

LEMMA SubscribeStep ==
    ASSUME IInv, Evicted = {}, NEW t \in Transport, HandleSubscribe(t)
    PROVE  IInv'
  <1>1. PICK r : /\ AtRest /\ t \in Elements(connections) /\ r.transport = t
                 /\ subscribers' = subscribers \cup {r.channel}
                 /\ subscribing' = {r}
                 /\ UNCHANGED <<connections, subscriptions, restoring>>
    <2> DEFINE new == [transport |-> t, channel |-> Head(up[t]).channel, id |-> Head(up[t]).id]
    <2>1. AtRest /\ t \in Elements(connections)
      BY AtRestThen DEF HandleSubscribe, HostTakes
    <2>2. /\ subscribers' = subscribers \cup {new.channel}
          /\ subscribing' = {new}
          /\ UNCHANGED <<connections, subscriptions, restoring>>
      BY <2>1 DEF HandleSubscribe, AtRest
    <2>3. new.transport = t
      OBVIOUS
    <2> HIDE DEF new
    <2>4. QED
      BY <2>1, <2>2, <2>3
  <1>2. Connected' /\ OneAtATime'
    BY <1>1 DEF IInv, Connected, OneAtATime, Elements, AtRest
  <1>3. \A c : /\ Held(c)' <=> Held(c)
               /\ Coming(c)' <=> c = r.channel
               /\ ~Coming(c)
    BY <1>1 DEF Held, Holds, Elements, Coming, AtRest
  <1>4. RegisteredOrComing'
    BY <1>1, <1>3 DEF IInv, RegisteredOrComing
  <1>5. QED
    BY <1>2, <1>4 DEF IInv

LEMMA SubscribedStep ==
    ASSUME IInv, NEW r \in subscribing, Subscribed(r)
    PROVE  IInv'
  <1>1. /\ subscribing = {r} /\ restoring = {} /\ r.transport \in Elements(connections)
        /\ r.transport \in Transport
    BY ConnectedTransports DEF IInv, OneAtATime
  <1>2. /\ subscribing' = {}
        /\ subscriptions' = [subscriptions EXCEPT ![r.transport] = @ \cup {r.channel}]
        /\ UNCHANGED <<connections, restoring, subscribers>>
    BY <1>1 DEF Subscribed
  <1>3. Connected' /\ OneAtATime'
    BY <1>1, <1>2 DEF IInv, Connected, OneAtATime
  <1>4. \A d : Held(d)' <=> Held(d) \/ d = r.channel
    <2>1. \A u \in Transport : subscriptions'[u] =
             IF u = r.transport THEN subscriptions[u] \cup {r.channel} ELSE subscriptions[u]
      BY <1>2 DEF IInv, Connected
    <2>2. Elements(connections)' = Elements(connections)
      BY <1>2 DEF Elements
    <2>3. \A d : Held(d)' => Held(d) \/ d = r.channel
      BY <2>1, <2>2 DEF Held, Holds
    <2>4. \A d : Held(d) => Held(d)'
      BY <2>1, <2>2 DEF Held, Holds
    <2>5. \A d : d = r.channel => Held(d)'
      BY <1>1, <2>1, <2>2 DEF Held, Holds
    <2>6. QED
      BY <2>3, <2>4, <2>5
  <1>5. \A d : (Coming(d) <=> d = r.channel) /\ ~Coming(d)'
    BY <1>1, <1>2 DEF Coming
  <1>6. RegisteredOrComing'
    BY <1>2, <1>4, <1>5 DEF IInv, RegisteredOrComing
  <1>7. QED
    BY <1>3, <1>6 DEF IInv

LEMMA SubscribeFailsStep ==
    ASSUME IInv, NEW r \in subscribing, SubscribeFails(r)
    PROVE  IInv'
  <1>1. subscribing = {r} /\ restoring = {}
    BY DEF IInv, OneAtATime
  <1>2. /\ ~Held(r.channel) /\ subscribing' = {}
        /\ subscribers' = subscribers \ {r.channel}
        /\ UNCHANGED <<connections, subscriptions, restoring>>
    BY <1>1 DEF SubscribeFails, MayFail, Held, Holds
  <1>3. Connected' /\ OneAtATime'
    BY <1>1, <1>2 DEF IInv, Connected, OneAtATime
  <1>4. \A d : /\ Held(d)' <=> Held(d)
               /\ Coming(d) <=> d = r.channel
               /\ ~Coming(d)'
    BY <1>1, <1>2 DEF Held, Holds, Elements, Coming
  <1>5. RegisteredOrComing'
    BY <1>2, <1>4 DEF IInv, RegisteredOrComing
  <1>6. QED
    BY <1>3, <1>5 DEF IInv

LEMMA UnsubscribeStep ==
    ASSUME IInv, Evicted = {}, NEW t \in Transport, HandleUnsubscribe(t)
    PROVE  IInv'
  <1>1. PICK mine : /\ AtRest /\ t \in Elements(connections) /\ mine \subseteq subscriptions[t]
                    /\ subscriptions' = [subscriptions EXCEPT ![t] = @ \ mine]
                    /\ subscribers' = subscribers \ OnlyOn(t, mine)
                    /\ UNCHANGED <<connections, restoring, subscribing>>
    <2> DEFINE channels == {Head(up[t]).channel} \cap subscriptions[t]
    <2>1. AtRest /\ t \in Elements(connections)
      BY AtRestThen DEF HandleUnsubscribe, HostTakes
    <2>2. /\ channels \subseteq subscriptions[t]
          /\ subscriptions' = [subscriptions EXCEPT ![t] = @ \ channels]
          /\ subscribers' = subscribers \ OnlyOn(t, channels)
          /\ UNCHANGED <<connections, restoring, subscribing>>
      BY DEF HandleUnsubscribe
    <2> HIDE DEF channels
    <2>3. QED
      BY <2>1, <2>2
  <1>2. Connected' /\ OneAtATime'
    BY <1>1 DEF IInv, Connected, OneAtATime, AtRest
  <1>3. \A u \in Transport : subscriptions'[u] =
           IF u = t THEN subscriptions[u] \ mine ELSE subscriptions[u]
    BY <1>1 DEF IInv, Connected
  <1>4. Elements(connections)' = Elements(connections)
    BY <1>1 DEF Elements
  <1>5. \A c : c \in OnlyOn(t, mine) <=>
                  c \in mine /\ \A u \in Elements(connections) \ {t} : c \notin subscriptions[u]
    BY DEF OnlyOn
  <1>6. \A c : Held(c)' <=> Held(c) /\ c \notin OnlyOn(t, mine)
    <2>1. \A c : Held(c)' => Held(c)
      BY <1>3, <1>4 DEF Held, Holds
    <2>2. \A c : Held(c)' => c \notin OnlyOn(t, mine)
      BY <1>3, <1>4, <1>5 DEF Held, Holds
    <2>3. \A c : Held(c) /\ c \notin OnlyOn(t, mine) => Held(c)'
      <3> SUFFICES ASSUME NEW c, Held(c), c \notin OnlyOn(t, mine) PROVE Held(c)'
        OBVIOUS
      <3>1. CASE c \in mine
        <4>1. PICK u \in Elements(connections) \ {t} : c \in subscriptions[u]
          BY <1>5, <3>1
        <4>2. QED
          BY <1>3, <1>4, <4>1, ConnectedTransports DEF IInv, Held, Holds
      <3>2. CASE c \notin mine
        BY <1>3, <1>4, <3>2 DEF Held, Holds
      <3>3. QED
        BY <3>1, <3>2
    <2>4. QED
      BY <2>1, <2>2, <2>3
  <1>7. \A c : ~Coming(c) /\ ~Coming(c)'
    BY <1>1 DEF Coming, AtRest
  <1>8. RegisteredOrComing'
    BY <1>1, <1>6, <1>7 DEF IInv, RegisteredOrComing
  <1>9. QED
    BY <1>2, <1>8 DEF IInv

(* What is left of a sequence without repetitions when one element is       *)
(* removed.                                                                 *)
LEMMA RemovedOnce ==
    ASSUME NEW S, NEW s \in Seq(S), NEW k \in 1 .. Len(s),
           \A i, j \in 1 .. Len(s) : s[i] = s[j] => i = j
    PROVE  /\ RemoveAt(s, k) \in Seq(S)
           /\ \A i, j \in 1 .. Len(RemoveAt(s, k)) :
                 RemoveAt(s, k)[i] = RemoveAt(s, k)[j] => i = j
           /\ Elements(RemoveAt(s, k)) = Elements(s) \ {s[k]}
           /\ \A i, j \in 1 .. Len(RemoveAt(s, k)) : i < j =>
                 \E x, y \in 1 .. Len(s) :
                    x < y /\ RemoveAt(s, k)[i] = s[x] /\ RemoveAt(s, k)[j] = s[y]
  <1> DEFINE a == SubSeq(s, 1, k - 1)
             b == SubSeq(s, k + 1, Len(s))
             r == RemoveAt(s, k)
             n == Len(s)
             from(i) == IF i < k THEN i ELSE i + 1
  <1>1. k \in Int /\ n \in Nat /\ 1 <= k /\ k <= n
    OBVIOUS
  <1>2. a \in Seq(S) /\ Len(a) = k - 1 /\ \A i \in 1 .. k - 1 : a[i] = s[i]
    <2>1. /\ 1 \in Int /\ k - 1 \in Int /\ \A i \in 1 .. (k - 1) : s[i] \in S
          /\ (IF 1 <= k - 1 THEN (k - 1) - 1 + 1 ELSE 0) = k - 1
          /\ \A i \in 1 .. k - 1 : i \in 1 .. (k - 1) - 1 + 1 /\ 1 + i - 1 = i
      BY <1>1
    <2>2. /\ a \in Seq(S) /\ Len(a) = (IF 1 <= k - 1 THEN (k - 1) - 1 + 1 ELSE 0)
          /\ \A i \in 1 .. (k - 1) - 1 + 1 : a[i] = s[1 + i - 1]
      BY <2>1, SubSeqProperties
    <2>3. QED
      BY <2>1, <2>2
  <1>3. b \in Seq(S) /\ Len(b) = n - k /\ \A i \in 1 .. n - k : b[i] = s[k + i]
    <2>1. /\ k + 1 \in Int /\ n \in Int /\ \A i \in (k + 1) .. n : s[i] \in S
          /\ (IF k + 1 <= n THEN n - (k + 1) + 1 ELSE 0) = n - k
          /\ \A i \in 1 .. n - k : i \in 1 .. n - (k + 1) + 1 /\ (k + 1) + i - 1 = k + i
      BY <1>1
    <2>2. /\ b \in Seq(S) /\ Len(b) = (IF k + 1 <= n THEN n - (k + 1) + 1 ELSE 0)
          /\ \A i \in 1 .. n - (k + 1) + 1 : b[i] = s[(k + 1) + i - 1]
      BY <2>1, SubSeqProperties
    <2>3. QED
      BY <2>1, <2>2
  <1>4. /\ r \in Seq(S) /\ Len(r) = Len(a) + Len(b)
        /\ \A i \in 1 .. Len(a) + Len(b) :
              r[i] = IF i <= Len(a) THEN a[i] ELSE b[i - Len(a)]
    BY <1>2, <1>3, ConcatProperties DEF RemoveAt
  <1> HIDE DEF a, b, r, n
  <1>5. Len(r) = n - 1
    BY <1>1, <1>2, <1>3, <1>4
  <1>6. \A i \in 1 .. n - 1 : r[i] = s[from(i)] /\ from(i) \in 1 .. n /\ from(i) # k
    <2> SUFFICES ASSUME NEW i \in 1 .. n - 1
                 PROVE  r[i] = s[from(i)] /\ from(i) \in 1 .. n /\ from(i) # k
      OBVIOUS
    <2>1. r[i] = IF i <= k - 1 THEN a[i] ELSE b[i - (k - 1)]
      BY <1>1, <1>2, <1>3, <1>4
    <2>2. CASE i < k
      <3>1. i \in 1 .. k - 1 /\ i <= k - 1 /\ from(i) = i
        BY <1>1, <2>2
      <3>2. QED
        BY <1>1, <1>2, <2>1, <3>1
    <2>3. CASE ~(i < k)
      <3>1. /\ i - (k - 1) \in 1 .. n - k /\ k + (i - (k - 1)) = i + 1
            /\ ~(i <= k - 1) /\ from(i) = i + 1
        BY <1>1, <2>3
      <3>2. QED
        BY <1>1, <1>3, <2>1, <3>1
    <2>4. QED
      BY <2>2, <2>3
  <1>7. \A j \in 1 .. n : j # k => \E i \in 1 .. n - 1 : from(i) = j
    <2> SUFFICES ASSUME NEW j \in 1 .. n, j # k
                 PROVE  \E i \in 1 .. n - 1 : from(i) = j
      OBVIOUS
    <2>1. CASE j < k
      <3>1. j \in 1 .. n - 1 /\ from(j) = j
        BY <1>1, <2>1
      <3>2. QED
        BY <3>1
    <2>2. CASE ~(j < k)
      <3>1. j - 1 \in 1 .. n - 1 /\ from(j - 1) = j
        BY <1>1, <2>2
      <3>2. QED
        BY <3>1
    <2>3. QED
      BY <2>1, <2>2
  <1>8. \A i, j \in 1 .. n - 1 : from(i) = from(j) => i = j
    BY <1>1
  <1> HIDE DEF from
  <1>9. \A i, j \in 1 .. n : s[i] = s[j] => i = j
    BY DEF n
  <1>10. \A i, j \in 1 .. n - 1 : r[i] = r[j] => i = j
    BY <1>6, <1>8, <1>9
  <1>11. Elements(s) = {s[i] : i \in 1 .. n} /\ Elements(r) = {r[i] : i \in 1 .. n - 1}
    BY <1>5 DEF Elements, n
  <1>12. Elements(r) = Elements(s) \ {s[k]}
    <2>1. k \in 1 .. n
      BY DEF n
    <2>2. \A x \in Elements(r) : x \in Elements(s) \ {s[k]}
      BY <1>6, <1>9, <1>11, <2>1
    <2>3. \A x \in Elements(s) \ {s[k]} : x \in Elements(r)
      <3> SUFFICES ASSUME NEW j \in 1 .. n, s[j] # s[k] PROVE s[j] \in Elements(r)
        BY <1>11
      <3>1. PICK i \in 1 .. n - 1 : from(i) = j
        BY <1>7
      <3>2. QED
        BY <1>6, <1>11, <3>1
    <2>4. QED
      BY <2>2, <2>3
  <1>13. \A i, j \in 1 .. n - 1 : i < j => from(i) < from(j)
    BY <1>1 DEF from
  <1>14. \A i, j \in 1 .. n - 1 : i < j =>
            \E x, y \in 1 .. n : x < y /\ r[i] = s[x] /\ r[j] = s[y]
    BY <1>6, <1>13
  <1>15. \A i, j \in 1 .. Len(r) : i < j =>
            \E x, y \in 1 .. Len(s) : x < y /\ r[i] = s[x] /\ r[j] = s[y]
    BY <1>5, <1>14 DEF n
  <1>16. QED
    BY <1>4, <1>5, <1>10, <1>12, <1>15 DEF r

LEMMA CloseStep ==
    ASSUME IInv, Evicted = {}, NEW t \in Transport, HostSeesClose(t)
    PROVE  IInv'
  <1>1. /\ AtRest
        /\ subscribers' = subscribers \ OnlyOn(t, subscriptions[t])
        /\ subscriptions' = [subscriptions EXCEPT ![t] = {}]
        /\ UNCHANGED <<restoring, subscribing>>
    BY AtRestThen DEF HostSeesClose
  <1>2. /\ connections' \in Seq(Transport)
        /\ \A i, j \in 1 .. Len(connections') : connections'[i] = connections'[j] => i = j
        /\ Elements(connections') = Elements(connections) \ {t}
    <2>1. PICK i \in 1 .. Len(connections) :
             connections[i] = t /\ connections' = RemoveAt(connections, i)
      BY DEF HostSeesClose
    <2>2. QED
      BY <2>1, RemovedOnce DEF IInv, Connected
  <1>3. t \in Elements(connections)
    BY DEF HostSeesClose, Elements
  <1>4. \A u \in Transport : subscriptions'[u] = IF u = t THEN {} ELSE subscriptions[u]
    BY <1>1 DEF IInv, Connected
  <1>5. Connected'
    BY <1>1, <1>2 DEF IInv, Connected
  <1>6. OneAtATime'
    BY <1>1 DEF OneAtATime, AtRest
  <1>7. \A c : c \in OnlyOn(t, subscriptions[t]) <=>
                  /\ c \in subscriptions[t]
                  /\ \A u \in Elements(connections) \ {t} : c \notin subscriptions[u]
    BY DEF OnlyOn
  <1>8. \A c : Held(c)' <=> Held(c) /\ c \notin OnlyOn(t, subscriptions[t])
    <2>1. \A c : Held(c)' => Held(c)
      BY <1>2, <1>4 DEF Held, Holds
    <2>2. \A c : Held(c)' => c \notin OnlyOn(t, subscriptions[t])
      BY <1>2, <1>4, <1>7 DEF Held, Holds
    <2>3. \A c : Held(c) /\ c \notin OnlyOn(t, subscriptions[t]) => Held(c)'
      <3> SUFFICES ASSUME NEW c, Held(c), c \notin OnlyOn(t, subscriptions[t])
                   PROVE  Held(c)'
        OBVIOUS
      <3>1. PICK u \in Elements(connections) \ {t} : c \in subscriptions[u]
        BY <1>7 DEF Held, Holds
      <3>2. QED
        BY <1>2, <1>4, <3>1, ConnectedTransports DEF IInv, Held, Holds
    <2>4. QED
      BY <2>1, <2>2, <2>3
  <1>9. \A c : ~Coming(c) /\ ~Coming(c)'
    BY <1>1 DEF Coming, AtRest
  <1>10. RegisteredOrComing'
    BY <1>1, <1>8, <1>9 DEF IInv, RegisteredOrComing
  <1>11. QED
    BY <1>5, <1>6, <1>10 DEF IInv

LEMMA AlwaysIInv ==
    ASSUME Evicted = {}
    PROVE  Spec => []IInv
  <1>1. IInv /\ [Next]_vars => IInv'
    <2> SUFFICES ASSUME IInv, [Next]_vars PROVE IInv'
      OBVIOUS
    <2>1. CASE UNCHANGED vars
      <3>1. UNCHANGED registrationVars
        BY <2>1 DEF vars, hostVars, registrationVars
      <3>2. QED
        BY <3>1, NothingRegistered
    <2>2. ASSUME NEW c \in Channel, Dispatch(c) \/ Subscribe(c) \/ Release(c) \/ Act(c)
          PROVE  IInv'
      <3>1. 1 \in Transport
        BY BoundsAssumption DEF Transport
      <3>2. QED
        BY <2>2, <3>1, ClientStep, ActionStep, NothingRegistered
    <2>3. CASE ClientRuns \/ Break
      BY <2>3, ChannelAssumption, ClientStep, NothingRegistered
    <2>4. ASSUME NEW t \in Transport, HostReads(t)
          PROVE  IInv'
      BY <2>4, ChannelAssumption, ActionStep, NothingRegistered, ReconnectStep,
         SubscribeStep, UnsubscribeStep, CloseStep DEF HostReads
    <2>5. ASSUME NEW r \in restoring, HostRestores(r)
          PROVE  IInv'
      BY <2>5, RestoreStep, RestoreFailsStep, RespondStep DEF HostRestores
    <2>6. ASSUME NEW r \in subscribing, HostAnswers(r)
          PROVE  IInv'
      BY <2>6, SubscribedStep, SubscribeFailsStep DEF HostAnswers
    <2>7. CASE RunDispatchQueue
      <3>1. 1 \in Transport
        BY BoundsAssumption DEF Transport
      <3>2. QED
        BY <2>7, <3>1, ChannelAssumption, ActionStep, NothingRegistered
    <2>8. QED
      BY <2>1, <2>2, <2>3, <2>4, <2>5, <2>6, <2>7 DEF Next
  <1>2. QED
    BY <1>1, InitIInv, PTL DEF Spec

\* While the sessions are in memory, so that the host answers one request at a
\* time, the agent service has the client
\* registered for what its connections are subscribed to and nothing else,
\* whatever breaks, returns, is restored, refused or left.
THEOREM Registered ==
    ASSUME Evicted = {}
    PROVE  Spec => []RegisteredIffSubscribed
  <1>1. IInv => RegisteredIffSubscribed
    <2> SUFFICES ASSUME IInv, ~Awaiting
                 PROVE  subscribers = UNION {subscriptions[t] : t \in Elements(connections)}
      BY DEF RegisteredIffSubscribed
    <2>1. \A c : c \in subscribers <=> Held(c)
      BY DEF IInv, RegisteredOrComing, Coming, Awaiting
    <2>2. \A c : Held(c) <=> \E t \in Elements(connections) : c \in subscriptions[t]
      BY ConnectedTransports DEF IInv, Held, Holds
    <2>3. QED
      BY <2>1, <2>2
  <1>2. QED
    BY <1>1, AlwaysIInv, PTL

-----------------------------------------------------------------------------
(* The order of the actions.                                                *)

(* The order of the ids of actions: whatever is before an id is done        *)
(* already or comes before it.                                              *)
InTurn(ids, done) ==
    \A k \in 1 .. Len(ids) : \A i \in 1 .. (ids[k] - 1) :
       i \in done \/ \E l \in 1 .. (k - 1) : ids[l] = i

(* The ids of the actions in a sequence of messages, 0 for other messages.  *)
Id(m) == IF m.type = "dispatchAction" THEN m.id ELSE 0
Ids(msgs) == [k \in 1 .. Len(msgs) |-> Id(msgs[k])]

-----------------------------------------------------------------------------
LEMMA InTurnWeaker ==
    ASSUME NEW ids, NEW D, NEW E, InTurn(ids, D), D \subseteq E
    PROVE  InTurn(ids, E)
  BY DEF InTurn

LEMMA InTurnEmpty ==
    ASSUME NEW D
    PROVE  InTurn(<<>>, D)
  BY EmptySeq DEF InTurn

LEMMA InTurnFirst ==
    ASSUME NEW ids \in Seq(Nat), ids # <<>>, NEW D, InTurn(ids, D)
    PROVE  1 .. (Head(ids) - 1) \subseteq D
  <1>1. 1 \in 1 .. Len(ids) /\ Head(ids) = ids[1]
    BY EmptySeq, LenProperties
  <1>2. QED
    BY <1>1 DEF InTurn

LEMMA InTurnAppend ==
    ASSUME NEW ids \in Seq(Nat), NEW j \in Nat, NEW D, InTurn(ids, D),
           1 .. (j - 1) \subseteq D \cup Elements(ids)
    PROVE  InTurn(Append(ids, j), D)
  <1> DEFINE new == Append(ids, j)
  <1>1. /\ Len(ids) \in Nat /\ Len(new) = Len(ids) + 1 /\ new[Len(ids) + 1] = j
        /\ \A k \in 1 .. Len(ids) : new[k] = ids[k]
    BY AppendProperties, LenProperties
  <1> HIDE DEF new
  <1>2. ASSUME NEW k \in 1 .. Len(new), NEW i \in 1 .. (new[k] - 1)
        PROVE  i \in D \/ \E l \in 1 .. (k - 1) : new[l] = i
    <2>1. CASE k \in 1 .. Len(ids)
      <3>1. i \in 1 .. (ids[k] - 1) /\ 1 .. (k - 1) \subseteq 1 .. Len(ids)
        BY <1>1, <2>1
      <3>2. i \in D \/ \E l \in 1 .. (k - 1) : ids[l] = i
        BY <2>1, <3>1 DEF InTurn
      <3>3. QED
        BY <1>1, <3>1, <3>2
    <2>2. CASE k = Len(ids) + 1
      <3>1. i \in D \/ \E l \in 1 .. Len(ids) : ids[l] = i
        BY <1>1, <2>2 DEF Elements
      <3>2. 1 .. (k - 1) = 1 .. Len(ids)
        BY <1>1, <2>2
      <3>3. QED
        BY <1>1, <3>1, <3>2
    <2>3. QED
      BY <1>1, <2>1, <2>2
  <1>3. QED
    BY <1>2 DEF InTurn, new

LEMMA InTurnTail ==
    ASSUME NEW ids \in Seq(Nat), ids # <<>>, NEW D, InTurn(ids, D),
           NEW E, D \subseteq E, Head(ids) \in E \cup {0}
    PROVE  InTurn(Tail(ids), E)
  <1>1. /\ Len(ids) \in Nat /\ Len(Tail(ids)) = Len(ids) - 1 /\ Head(ids) = ids[1]
        /\ \A k \in 1 .. Len(Tail(ids)) : Tail(ids)[k] = ids[k + 1]
        /\ Len(ids) >= 1
    BY EmptySeq, HeadTailProperties, LenProperties
  <1>2. ASSUME NEW k \in 1 .. Len(Tail(ids)), NEW i \in 1 .. (Tail(ids)[k] - 1)
        PROVE  i \in E \/ \E l \in 1 .. (k - 1) : Tail(ids)[l] = i
    <2>1. k + 1 \in 1 .. Len(ids) /\ i \in 1 .. (ids[k + 1] - 1) /\ i # 0 /\ k \in Nat
      BY <1>1
    <2>2. i \in D \/ \E l \in 1 .. k : ids[l] = i
      BY <2>1 DEF InTurn
    <2>3. ASSUME NEW l \in 1 .. k, ids[l] = i
          PROVE  i \in E \/ \E n \in 1 .. (k - 1) : Tail(ids)[n] = i
      <3>1. CASE l = 1
        BY <1>1, <2>1, <2>3, <3>1
      <3>2. CASE l # 1
        <4>1. l - 1 \in 1 .. (k - 1) /\ l - 1 \in 1 .. Len(Tail(ids)) /\ (l - 1) + 1 = l
          BY <1>1, <2>1, <3>2
        <4>2. Tail(ids)[l - 1] = i
          BY <1>1, <2>3, <4>1
        <4>3. QED
          BY <4>1, <4>2
      <3>3. QED
        BY <3>1, <3>2
    <2>4. QED
      BY <2>2, <2>3
  <1>3. QED
    BY <1>2 DEF InTurn

LEMMA InTurnPrefix ==
    ASSUME NEW ids \in Seq(Nat), NEW n \in 0 .. Len(ids), NEW D, InTurn(ids, D)
    PROVE  InTurn(SubSeq(ids, 1, n), D)
  <1>1. /\ Len(SubSeq(ids, 1, n)) = n
        /\ \A k \in 1 .. n : SubSeq(ids, 1, n)[k] = ids[k]
        /\ Len(ids) \in Nat
    BY SubSeqProperties, LenProperties
  <1>2. ASSUME NEW k \in 1 .. n, NEW i \in 1 .. (ids[k] - 1)
        PROVE  i \in D \/ \E l \in 1 .. (k - 1) : SubSeq(ids, 1, n)[l] = i
    <2>1. k \in 1 .. Len(ids) /\ 1 .. (k - 1) \subseteq 1 .. n
      BY <1>1
    <2>2. i \in D \/ \E l \in 1 .. (k - 1) : ids[l] = i
      BY <2>1 DEF InTurn
    <2>3. QED
      BY <1>1, <2>1, <2>2
  <1>3. QED
    BY <1>1, <1>2 DEF InTurn

(* A sequence behind another.                                               *)
LEMMA InTurnConcat ==
    ASSUME NEW a \in Seq(Nat), NEW D, InTurn(a, D)
    PROVE  \A b \in Seq(Nat) : InTurn(b, D \cup Elements(a)) => InTurn(a \o b, D)
  <1> DEFINE A == {b \in Seq(Nat) : InTurn(b, D \cup Elements(a)) => InTurn(a \o b, D)}
  <1>1. <<>> \in A
    BY EmptySeq, ConcatEmptySeq
  <1>2. ASSUME NEW b \in Seq(Nat), NEW x \in Nat, b \in A
        PROVE  Append(b, x) \in A
    <2> SUFFICES ASSUME InTurn(Append(b, x), D \cup Elements(a))
                 PROVE  InTurn(a \o Append(b, x), D)
      BY AppendProperties
    <2>1. /\ Len(b) \in Nat /\ Len(Append(b, x)) = Len(b) + 1 /\ Append(b, x)[Len(b) + 1] = x
          /\ \A k \in 1 .. Len(b) : Append(b, x)[k] = b[k]
      BY AppendProperties, LenProperties
    <2>2. InTurn(b, D \cup Elements(a))
      BY <2>1 DEF InTurn
    <2>3. 1 .. (x - 1) \subseteq (D \cup Elements(a)) \cup Elements(b)
      <3>1. SUFFICES ASSUME NEW i \in 1 .. (x - 1), i \notin D \cup Elements(a)
                     PROVE  i \in Elements(b)
        OBVIOUS
      <3>2. Len(b) + 1 \in 1 .. Len(Append(b, x)) /\ (Len(b) + 1) - 1 = Len(b)
        BY <2>1
      <3>3. \E l \in 1 .. Len(b) : Append(b, x)[l] = i
        BY <2>1, <3>1, <3>2 DEF InTurn
      <3>4. QED
        BY <2>1, <3>3 DEF Elements
    <2>4. InTurn(a \o b, D) /\ a \o b \in Seq(Nat)
      BY <1>2, <2>2, ConcatProperties
    <2>5. 1 .. (x - 1) \subseteq D \cup Elements(a \o b)
      BY <2>3, ElementsConcat
    <2>6. InTurn(Append(a \o b, x), D)
      BY <2>4, <2>5, InTurnAppend
    <2>7. a \o Append(b, x) = Append(a \o b, x)
      BY AppendConcat
    <2>8. QED
      BY <2>6, <2>7
  <1> HIDE DEF A
  <1>3. \A b \in Seq(Nat) : b \in A
    BY <1>1, <1>2, SequenceInduction
  <1>4. QED
    BY <1>3 DEF A

(* A subsequence of ids in turn is in turn but for what it leaves out.      *)
LEMMA InTurnWhere ==
    ASSUME NEW S, NEW D
    PROVE  \A s \in Seq(Nat) : InTurn(s, D) => InTurn(Where(s, S), D \cup (Elements(s) \ S))
  <1> DEFINE A == {s \in Seq(Nat) :
                      InTurn(s, D) => InTurn(Where(s, S), D \cup (Elements(s) \ S))}
  <1>1. <<>> \in A
    BY WhereEmpty, InTurnEmpty, EmptySeq
  <1>2. ASSUME NEW s \in Seq(Nat), NEW x \in Nat, s \in A
        PROVE  Append(s, x) \in A
    <2> SUFFICES ASSUME InTurn(Append(s, x), D)
                 PROVE  InTurn(Where(Append(s, x), S), D \cup (Elements(Append(s, x)) \ S))
      BY AppendProperties
    <2> DEFINE E == D \cup (Elements(Append(s, x)) \ S)
    <2>1. /\ Len(s) \in Nat /\ Len(Append(s, x)) = Len(s) + 1 /\ Append(s, x)[Len(s) + 1] = x
          /\ \A k \in 1 .. Len(s) : Append(s, x)[k] = s[k]
      BY AppendProperties, LenProperties
    <2>2. InTurn(s, D)
      BY <2>1 DEF InTurn
    <2>3. D \cup (Elements(s) \ S) \subseteq E
      BY ElementsAppend
    <2>4. InTurn(Where(s, S), E)
      BY <1>2, <2>2, <2>3, InTurnWeaker
    <2>5. 1 .. (x - 1) \subseteq D \cup Elements(s)
      <3>1. SUFFICES ASSUME NEW i \in 1 .. (x - 1), i \notin D PROVE i \in Elements(s)
        OBVIOUS
      <3>2. \E l \in 1 .. Len(s) : Append(s, x)[l] = i
        BY <2>1, <3>1 DEF InTurn
      <3>3. QED
        BY <2>1, <3>2 DEF Elements
    <2>6. Where(s, S) \in Seq(Nat) /\ Elements(Where(s, S)) = Elements(s) \cap S
      BY WhereType
    <2>7. 1 .. (x - 1) \subseteq E \cup Elements(Where(s, S))
      BY <2>3, <2>5, <2>6
    <2> HIDE DEF E
    <2>8. InTurn(Append(Where(s, S), x), E)
      BY <2>4, <2>6, <2>7, InTurnAppend
    <2>9. QED
      BY <2>4, <2>8, WhereAppend DEF E
  <1> HIDE DEF A
  <1>3. \A s \in Seq(Nat) : s \in A
    BY <1>1, <1>2, SequenceInduction
  <1>4. QED
    BY <1>3 DEF A

LEMMA InTurnChosen ==
    ASSUME NEW n \in Nat, NEW S
    PROVE  InTurn(Where(UpTo(n), S), 1 .. n \ S)
  <1>1. InTurn(UpTo(n), {})
    BY DEF InTurn, UpTo
  <1>2. UpTo(n) \in Seq(1 .. n) /\ Elements(UpTo(n)) = 1 .. n
    BY UpToType
  <1>3. UpTo(n) \in Seq(Nat)
    BY <1>2, SeqMonotonic
  <1>4. QED
    BY <1>1, <1>2, <1>3, InTurnWhere

LEMMA InTurnNone ==
    ASSUME NEW ids, NEW D, \A k \in 1 .. Len(ids) : ids[k] = 0
    PROVE  InTurn(ids, D)
  BY DEF InTurn

LEMMA IdsType ==
    ASSUME NEW M, \A m \in M : Id(m) \in Nat, NEW s \in Seq(M)
    PROVE  /\ Ids(s) \in Seq(Nat) /\ Len(Ids(s)) = Len(s) /\ Len(s) \in Nat
           /\ \A k \in 1 .. Len(s) : Ids(s)[k] = Id(s[k])
  <1>1. Len(s) \in Nat /\ \A k \in 1 .. Len(s) : Id(s[k]) \in Nat
    BY LenProperties, ElementOfSeq
  <1>2. QED
    BY <1>1 DEF Ids

LEMMA IdsEmpty == Ids(<<>>) = <<>>
  BY EmptySeq DEF Ids

LEMMA IdsConcat ==
    ASSUME NEW M, \A m \in M : Id(m) \in Nat, NEW s \in Seq(M), NEW t \in Seq(M)
    PROVE  Ids(s \o t) = Ids(s) \o Ids(t)
  <1>1. /\ Ids(s) \in Seq(Nat) /\ Len(Ids(s)) = Len(s) /\ Len(s) \in Nat
        /\ \A k \in 1 .. Len(s) : Ids(s)[k] = Id(s[k])
        /\ Ids(t) \in Seq(Nat) /\ Len(Ids(t)) = Len(t) /\ Len(t) \in Nat
        /\ \A k \in 1 .. Len(t) : Ids(t)[k] = Id(t[k])
    BY IdsType
  <1>2. /\ s \o t \in Seq(M) /\ Len(s \o t) = Len(s) + Len(t)
        /\ \A i \in 1 .. Len(s) + Len(t) :
              (s \o t)[i] = IF i <= Len(s) THEN s[i] ELSE t[i - Len(s)]
    BY <1>1, ConcatProperties
  <1>3. /\ Ids(s) \o Ids(t) \in Seq(Nat) /\ Len(Ids(s) \o Ids(t)) = Len(s) + Len(t)
        /\ \A i \in 1 .. Len(s) + Len(t) :
              (Ids(s) \o Ids(t))[i] = IF i <= Len(s) THEN Ids(s)[i] ELSE Ids(t)[i - Len(s)]
    BY <1>1, ConcatProperties
  <1>4. /\ Ids(s \o t) \in Seq(Nat) /\ Len(Ids(s \o t)) = Len(s) + Len(t)
        /\ \A i \in 1 .. Len(s) + Len(t) : Ids(s \o t)[i] = Id((s \o t)[i])
    BY <1>2, IdsType
  <1>5. ASSUME NEW i \in 1 .. Len(s) + Len(t)
        PROVE  Ids(s \o t)[i] = (Ids(s) \o Ids(t))[i]
    <2>1. CASE i <= Len(s)
      BY <1>1, <1>2, <1>3, <1>4, <2>1
    <2>2. CASE ~(i <= Len(s))
      <3>1. i - Len(s) \in 1 .. Len(t)
        BY <1>1, <2>2
      <3>2. QED
        BY <1>1, <1>2, <1>3, <1>4, <2>2, <3>1
    <2>3. QED
      BY <2>1, <2>2
  <1>6. QED
    BY <1>3, <1>4, <1>5, SeqEqual

LEMMA IdsOne ==
    ASSUME NEW m, Id(m) \in Nat
    PROVE  Ids(<<m>>) = <<Id(m)>>
  BY DEF Ids

LEMMA IdsAppend ==
    ASSUME NEW M, \A m \in M : Id(m) \in Nat, NEW s \in Seq(M), NEW m \in M
    PROVE  Ids(Append(s, m)) = Append(Ids(s), Id(m))
  <1>1. <<m>> \in Seq(M) /\ Ids(<<m>>) = <<Id(m)>> /\ Ids(s) \in Seq(Nat) /\ Id(m) \in Nat
    BY IdsOne, IdsType
  <1>2. Append(s, m) = s \o <<m>> /\ Append(Ids(s), Id(m)) = Ids(s) \o <<Id(m)>>
    BY <1>1, AppendIsConcat
  <1>3. QED
    BY <1>1, <1>2, IdsConcat

LEMMA IdsTail ==
    ASSUME NEW M, \A m \in M : Id(m) \in Nat, NEW s \in Seq(M), s # <<>>
    PROVE  /\ Ids(Tail(s)) = Tail(Ids(s)) /\ Head(Ids(s)) = Id(Head(s)) /\ Ids(s) # <<>>
           /\ Tail(s) \in Seq(M) /\ Ids(s) \in Seq(Nat)
  <1>1. /\ Ids(s) \in Seq(Nat) /\ Len(Ids(s)) = Len(s) /\ Len(s) \in Nat
        /\ \A k \in 1 .. Len(s) : Ids(s)[k] = Id(s[k])
    BY IdsType
  <1>2. /\ Len(s) >= 1 /\ Head(s) = s[1] /\ Tail(s) \in Seq(M) /\ Len(Tail(s)) = Len(s) - 1
        /\ \A k \in 1 .. Len(Tail(s)) : Tail(s)[k] = s[k + 1]
    BY <1>1, EmptySeq, HeadTailProperties
  <1>3. Ids(s) # <<>> /\ Head(Ids(s)) = Ids(s)[1]
    BY <1>1, <1>2, EmptySeq
  <1>4. /\ Tail(Ids(s)) \in Seq(Nat) /\ Len(Tail(Ids(s))) = Len(s) - 1
        /\ \A k \in 1 .. Len(s) - 1 : Tail(Ids(s))[k] = Ids(s)[k + 1]
    BY <1>1, <1>3, HeadTailProperties
  <1>5. /\ Ids(Tail(s)) \in Seq(Nat) /\ Len(Ids(Tail(s))) = Len(s) - 1
        /\ \A k \in 1 .. Len(s) - 1 : Ids(Tail(s))[k] = Id(Tail(s)[k])
    BY <1>2, IdsType
  <1>6. ASSUME NEW k \in 1 .. Len(s) - 1
        PROVE  Ids(Tail(s))[k] = Tail(Ids(s))[k]
    <2>1. k + 1 \in 1 .. Len(s)
      BY <1>1
    <2>2. QED
      BY <1>1, <1>2, <1>4, <1>5, <2>1
  <1>7. Ids(Tail(s)) = Tail(Ids(s))
    BY <1>4, <1>5, <1>6, SeqEqual
  <1>8. QED
    BY <1>1, <1>2, <1>3, <1>7

LEMMA IdsPrefix ==
    ASSUME NEW M, \A m \in M : Id(m) \in Nat, NEW s \in Seq(M), NEW n \in 0 .. Len(s)
    PROVE  Ids(SubSeq(s, 1, n)) = SubSeq(Ids(s), 1, n)
  <1>1. /\ Ids(s) \in Seq(Nat) /\ Len(Ids(s)) = Len(s) /\ Len(s) \in Nat
        /\ \A k \in 1 .. Len(s) : Ids(s)[k] = Id(s[k])
    BY IdsType
  <1>2. /\ SubSeq(s, 1, n) \in Seq(M) /\ Len(SubSeq(s, 1, n)) = n
        /\ \A k \in 1 .. n : SubSeq(s, 1, n)[k] = s[k]
    BY <1>1, SubSeqProperties
  <1>3. /\ SubSeq(Ids(s), 1, n) \in Seq(Nat) /\ Len(SubSeq(Ids(s), 1, n)) = n
        /\ \A k \in 1 .. n : SubSeq(Ids(s), 1, n)[k] = Ids(s)[k]
    BY <1>1, SubSeqProperties
  <1>4. /\ Ids(SubSeq(s, 1, n)) \in Seq(Nat) /\ Len(Ids(SubSeq(s, 1, n))) = n
        /\ \A k \in 1 .. n : Ids(SubSeq(s, 1, n))[k] = Id(SubSeq(s, 1, n)[k])
    BY <1>2, IdsType
  <1>5. \A k \in 1 .. n : Ids(SubSeq(s, 1, n))[k] = SubSeq(Ids(s), 1, n)[k]
    BY <1>1, <1>2, <1>3, <1>4
  <1>6. QED
    BY <1>3, <1>4, <1>5, SeqEqual

-----------------------------------------------------------------------------
(* A sequence of messages sent on a wire.                                   *)
LEMMA InTurnSent ==
    ASSUME NEW M, \A m \in M : Id(m) \in Nat, NEW s \in Seq(M), NEW t \in Seq(M), NEW D,
           InTurn(Ids(s), D), InTurn(Ids(t), D \cup Elements(Ids(s)))
    PROVE  /\ InTurn(Ids(s \o t), D)
           /\ Elements(Ids(s \o t)) = Elements(Ids(s)) \cup Elements(Ids(t))
  <1>1. Ids(s) \in Seq(Nat) /\ Ids(t) \in Seq(Nat) /\ Ids(s \o t) = Ids(s) \o Ids(t)
    BY IdsType, IdsConcat
  <1>2. QED
    BY <1>1, InTurnConcat, ElementsConcat

(* The ids of the actions applied, those on a channel the client remembers  *)
(* and those the host has or will never be asked for again.                 *)
Owns == [n \in 1 .. Len(log) |-> log[n].own]
Applied == Elements(Owns)
Standing == UNION {Pending(c) : c \in Channel}
Taken == cleared \cup Applied \cup Elements(dispatchQueue)

LogInTurn == InTurn(Owns, cleared)
QueueInTurn == InTurn(dispatchQueue, cleared \cup Applied)
WiresInTurn == \A t \in Transport : InTurn(Ids(up[t]), Taken)

(* The outbox holds the actions dispatched last, in their order.            *)
OutboxInTurn ==
    \E f \in 0 .. Len(dispatched) :
       /\ Elements(Ids(outbox)) \ {0} = (f + 1) .. Len(dispatched)
       /\ InTurn(Ids(outbox), 1 .. f)
OutboxDrained == phase = "connected" => outbox = <<>>

(* What is not settled is pending, and on its way while all is well.        *)
NoneForgotten == OwnId \subseteq cleared \cup Applied \cup Standing
NoneMissing ==
    (phase = "connected" /\ open[transport])
       => OwnId \subseteq Taken \cup Elements(Ids(up[transport]))

QueueKept == dispatchQueue # <<>> => HasDispatchQueue

HostInTurn == LogInTurn /\ QueueInTurn /\ QueueKept
OrderInv ==
    /\ HostInTurn /\ WiresInTurn
    /\ OutboxInTurn /\ OutboxDrained
    /\ NoneForgotten /\ NoneMissing

-----------------------------------------------------------------------------
LEMMA InTurnTypes ==
    ASSUME TypeInv
    PROVE  /\ \A m \in UpMessage : Id(m) \in Nat
           /\ Notification \subseteq UpMessage /\ SubscribeRequest \subseteq UpMessage
           /\ \A t \in Transport : Ids(up[t]) \in Seq(Nat)
           /\ Ids(outbox) \in Seq(Nat)
           /\ dispatchQueue \in Seq(Nat)
           /\ Owns \in Seq(Nat) /\ Len(Owns) = Len(log)
           /\ \A n \in 1 .. Len(log) : Owns[n] = log[n].own
  <1>1. /\ \A m \in UpMessage : Id(m) \in Nat
        /\ Notification \subseteq UpMessage /\ SubscribeRequest \subseteq UpMessage
    BY Lengths DEF UpMessage, Notification, SubscribeRequest, Id, OwnId
  <1>2. \A t \in Transport : Ids(up[t]) \in Seq(Nat)
    BY <1>1, IdsType DEF TypeInv
  <1>3. Ids(outbox) \in Seq(Nat)
    BY <1>1, IdsType DEF TypeInv
  <1>4. dispatchQueue \in Seq(Nat)
    <2>1. OwnId \subseteq Nat
      BY Lengths DEF OwnId
    <2>2. QED
      BY <2>1, SeqMonotonic DEF TypeInv
  <1>5. /\ Owns \in Seq(Nat) /\ Len(Owns) = Len(log)
        /\ \A n \in 1 .. Len(log) : Owns[n] = log[n].own
    <2>1. \A n \in 1 .. Len(log) : log[n].own \in Nat
      BY LogEntries, Lengths
    <2>2. QED
      BY <2>1, Lengths DEF Owns
  <1>6. QED
    BY <1>1, <1>2, <1>3, <1>4, <1>5

LEMMA InitInTurn == Init => OrderInv
  <1> SUFFICES ASSUME Init PROVE OrderInv
    OBVIOUS
  <1>1. OwnId = {} /\ Len(log) = 0 /\ Len(dispatched) = 0
    BY EmptySeq DEF Init, OwnId
  <1>2. LogInTurn
    BY <1>1 DEF LogInTurn, InTurn, Owns
  <1>3. QueueInTurn /\ QueueKept
    BY InTurnEmpty DEF Init, QueueInTurn, QueueKept
  <1>4. WiresInTurn
    <2>1. \A t \in Transport : Ids(up[t]) = <<>>
      BY IdsEmpty DEF Init
    <2>2. QED
      BY <2>1, InTurnEmpty DEF WiresInTurn
  <1>5. OutboxInTurn /\ OutboxDrained
    <2>1. Ids(outbox) = <<>> /\ Elements(Ids(outbox)) = {}
      BY IdsEmpty, ElementsEmpty DEF Init
    <2>2. Elements(Ids(outbox)) \ {0} = (0 + 1) .. Len(dispatched) /\ 0 \in 0 .. Len(dispatched)
      BY <1>1, <2>1
    <2>3. InTurn(Ids(outbox), 1 .. 0)
      BY <2>1, InTurnEmpty
    <2>4. QED
      BY <2>2, <2>3 DEF OutboxInTurn, OutboxDrained, Init
  <1>6. NoneForgotten /\ NoneMissing
    BY <1>1 DEF NoneForgotten, NoneMissing
  <1>7. QED
    BY <1>2, <1>3, <1>4, <1>5, <1>6 DEF OrderInv, HostInTurn

-----------------------------------------------------------------------------
(* The client.                                                              *)

(* What the client forgets is settled.                                      *)
LEMMA ClientSettles ==
    ASSUME OrderInv, UNCHANGED <<log, dispatchQueue, dispatched>>, cleared \subseteq cleared',
           Standing \subseteq Standing' \cup cleared' \cup Applied
    PROVE  /\ HostInTurn' /\ NoneForgotten'
           /\ Applied' = Applied /\ Taken \subseteq Taken' /\ OwnId' = OwnId
  <1>1. Owns' = Owns /\ Applied' = Applied /\ Taken \subseteq Taken' /\ OwnId' = OwnId
    BY DEF Owns, Applied, Taken, OwnId
  <1>2. LogInTurn'
    BY <1>1, InTurnWeaker DEF OrderInv, HostInTurn, LogInTurn
  <1>3. QueueInTurn'
    <2>1. cleared \cup Applied \subseteq cleared' \cup Applied'
      BY <1>1
    <2>2. QED
      BY <2>1, InTurnWeaker DEF OrderInv, HostInTurn, QueueInTurn
  <1>4. QueueKept'
    BY DEF OrderInv, HostInTurn, QueueKept, HasDispatchQueue
  <1>5. NoneForgotten'
    BY <1>1 DEF OrderInv, NoneForgotten
  <1>6. QED
    BY <1>1, <1>2, <1>3, <1>4, <1>5 DEF HostInTurn

LEMMA WiresSame ==
    ASSUME OrderInv, Taken \subseteq Taken', up' = up
    PROVE  WiresInTurn'
  BY InTurnWeaker DEF OrderInv, WiresInTurn

LEMMA WiresSent ==
    ASSUME TypeInv, OrderInv, Taken \subseteq Taken', NEW t \in Transport,
           NEW M, UpMessage \subseteq M, \A m \in M : Id(m) \in Nat,
           NEW msgs \in Seq(M), up' = Sent(up, t, msgs),
           open[t] => InTurn(Ids(msgs), Taken' \cup Elements(Ids(up[t])))
    PROVE  /\ WiresInTurn'
           /\ open[t] => Elements(Ids(up'[t])) = Elements(Ids(up[t])) \cup Elements(Ids(msgs))
           /\ \A u \in Transport : Elements(Ids(up[u])) \subseteq Elements(Ids(up'[u]))
  <1>1. CASE ~open[t]
    <2>1. up' = up
      BY <1>1 DEF Sent
    <2>2. QED
      BY <1>1, <2>1, WiresSame
  <1>2. CASE open[t]
    <2>1. up' = [up EXCEPT ![t] = up[t] \o msgs] /\ up \in [Transport -> Seq(UpMessage)]
      BY <1>2 DEF Sent, TypeInv
    <2>2. up'[t] = up[t] \o msgs /\ \A u \in Transport \ {t} : up'[u] = up[u]
      BY <2>1
    <2>3. up[t] \in Seq(M)
      BY <2>1, SeqMonotonic
    <2>4. \A u \in Transport : InTurn(Ids(up[u]), Taken')
      BY InTurnWeaker DEF OrderInv, WiresInTurn
    <2>5. /\ InTurn(Ids(up'[t]), Taken')
          /\ Elements(Ids(up'[t])) = Elements(Ids(up[t])) \cup Elements(Ids(msgs))
      BY <1>2, <2>2, <2>3, <2>4, InTurnSent
    <2>6. QED
      BY <2>2, <2>4, <2>5 DEF WiresInTurn
  <1>3. QED
    BY <1>1, <1>2

(* A message that is no action.                                             *)
LEMMA QuietInTurn ==
    ASSUME NEW M, \A m \in M : Id(m) \in Nat, NEW msgs \in Seq(M),
           \A k \in 1 .. Len(msgs) : Id(msgs[k]) = 0, NEW D
    PROVE  InTurn(Ids(msgs), D) /\ Elements(Ids(msgs)) \subseteq {0}
  <1>1. Len(Ids(msgs)) = Len(msgs) /\ \A k \in 1 .. Len(msgs) : Ids(msgs)[k] = 0
    BY IdsType
  <1>2. QED
    BY <1>1, InTurnNone DEF Elements

LEMMA OutboxSame ==
    ASSUME OrderInv, UNCHANGED <<dispatched, outbox>>
    PROVE  OutboxInTurn'
  BY DEF OrderInv, OutboxInTurn

(* What waits is followed by messages that are no actions.                  *)
LEMMA OutboxQuiet ==
    ASSUME TypeInv, OrderInv, UNCHANGED dispatched,
           NEW msgs \in Seq(Notification), \A k \in 1 .. Len(msgs) : Id(msgs[k]) = 0,
           outbox' = outbox \o msgs
    PROVE  OutboxInTurn'
  <1>1. PICK f \in 0 .. Len(dispatched) :
           /\ Elements(Ids(outbox)) \ {0} = (f + 1) .. Len(dispatched)
           /\ InTurn(Ids(outbox), 1 .. f)
    BY DEF OrderInv, OutboxInTurn
  <1>2. \A m \in Notification : Id(m) \in Nat
    BY InTurnTypes
  <1>3. InTurn(Ids(msgs), 1 .. f \cup Elements(Ids(outbox))) /\ Elements(Ids(msgs)) \subseteq {0}
    BY <1>2, QuietInTurn
  <1>4. outbox \in Seq(Notification)
    BY DEF TypeInv
  <1>5. /\ InTurn(Ids(outbox \o msgs), 1 .. f)
        /\ Elements(Ids(outbox \o msgs)) = Elements(Ids(outbox)) \cup Elements(Ids(msgs))
    <2> DEFINE D == 1 .. f
    <2>1. InTurn(Ids(outbox), D) /\ InTurn(Ids(msgs), D \cup Elements(Ids(outbox)))
      BY <1>1, <1>3
    <2> HIDE DEF D
    <2>2. /\ InTurn(Ids(outbox \o msgs), D)
          /\ Elements(Ids(outbox \o msgs)) = Elements(Ids(outbox)) \cup Elements(Ids(msgs))
      BY <1>2, <1>4, <2>1, InTurnSent
    <2>3. QED
      BY <2>2 DEF D
  <1>6. /\ Elements(Ids(outbox')) \ {0} = (f + 1) .. Len(dispatched')
        /\ InTurn(Ids(outbox'), 1 .. f)
    BY <1>1, <1>3, <1>5
  <1>7. QED
    BY <1>6 DEF OutboxInTurn

LEMMA DispatchInTurn ==
    ASSUME TypeInv, OrderInv, NEW c \in Channel, Dispatch(c)
    PROVE  OrderInv'
  <1> DEFINE id == Len(dispatched')
             m  == DispatchAction(id)
             M  == UpMessage \cup {m}
  <1>1. /\ id = Len(dispatched) + 1 /\ Len(dispatched) \in Nat /\ id \in Nat
        /\ OwnId' = OwnId \cup {id} /\ OwnId = 1 .. (id - 1) /\ id \notin OwnId
    <2>1. id = Len(dispatched) + 1 /\ Len(dispatched) \in Nat
      BY AppendProperties, LenProperties DEF TypeInv, Dispatch
    <2>2. OwnId' = 1 .. id /\ OwnId = 1 .. Len(dispatched)
      BY DEF OwnId
    <2> HIDE DEF id
    <2>3. QED
      BY <2>1, <2>2
  <1>2. UNCHANGED <<log, dispatchQueue, cleared, open, phase, transport>>
    BY DEF Dispatch, hostVars
  <1>3. /\ Owns' = Owns /\ Applied' = Applied /\ Taken' = Taken
    BY <1>2 DEF Owns, Applied, Taken
  <1>4. HostInTurn'
    BY <1>2, <1>3 DEF OrderInv, HostInTurn, LogInTurn, QueueInTurn, QueueKept, HasDispatchQueue
  <1>5. Standing' = Standing \cup {id}
    <2>1. sub \in [Channel -> Subscription] /\ sub[c].pending \in Seq(OwnId)
      BY DEF TypeInv, Subscription
    <2>2. sub' = [sub EXCEPT ![c] = [sub[c] EXCEPT !.pending = Append(@, id)]]
      BY <2>1 DEF Dispatch, Subscription
    <2>3. sub'[c].pending = Append(sub[c].pending, id) /\ \A d \in Channel \ {c} : sub'[d] = sub[d]
      BY <2>1, <2>2 DEF Subscription
    <2>4. sub[c].pending \in Seq(Nat)
      <3>1. OwnId \subseteq Nat
        BY <1>1
      <3>2. QED
        BY <2>1, <3>1, SeqMonotonic
    <2> HIDE DEF id
    <2>5. Pending(c)' = Pending(c) \cup {id} /\ \A d \in Channel \ {c} : Pending(d)' = Pending(d)
      BY <1>1, <2>3, <2>4, ElementsAppend DEF Pending
    <2>6. QED
      BY <2>5 DEF Standing
  <1>6. NoneForgotten'
    BY <1>1, <1>2, <1>3, <1>5 DEF OrderInv, NoneForgotten
  <1>7. Id(m) = id
    BY DEF Id, DispatchAction
  <1>8. /\ \A n \in M : Id(n) \in Nat
        /\ m \in M /\ UpMessage \subseteq M /\ <<m>> \in Seq(M) /\ Ids(<<m>>) = <<id>>
        /\ transport \in Transport
    <2>1. \A n \in UpMessage : Id(n) \in Nat
      BY InTurnTypes
    <2>2. Ids(<<m>>) = <<Id(m)>>
      BY <1>1, <1>7, IdsOne
    <2>3. transport \in Transport
      BY DEF TypeInv
    <2> HIDE DEF id, m
    <2>4. QED
      BY <1>1, <1>7, <2>1, <2>2, <2>3
  <1>9. Notify(m)
    BY DEF Dispatch
  <1> HIDE DEF id, m, M
  <1>10. InTurn(<<id>>, 1 .. (id - 1)) /\ Elements(<<id>>) = {id}
    <2>1. \A k \in 1 .. Len(<<id>>) : <<id>>[k] = id
      OBVIOUS
    <2>2. QED
      BY <2>1 DEF InTurn, Elements
  <1>11. CASE phase = "connected"
    <2>1. up' = Sent(up, transport, <<m>>) /\ outbox' = outbox /\ outbox = <<>>
      BY <1>9, <1>11 DEF Notify, OrderInv, OutboxDrained
    <2>2. open[transport] => 1 .. (id - 1) \subseteq Taken' \cup Elements(Ids(up[transport]))
      BY <1>1, <1>3, <1>11 DEF OrderInv, NoneMissing
    <2>3. open[transport] => InTurn(Ids(<<m>>), Taken' \cup Elements(Ids(up[transport])))
      <3>1. InTurn(Ids(<<m>>), 1 .. (id - 1))
        BY <1>8, <1>10
      <3>2. QED
        BY <2>2, <3>1, InTurnWeaker
    <2>4. /\ WiresInTurn'
          /\ open[transport] => Elements(Ids(up'[transport]))
                                  = Elements(Ids(up[transport])) \cup Elements(Ids(<<m>>))
      BY <1>3, <1>8, <2>1, <2>3, WiresSent
    <2>5. NoneMissing'
      BY <1>1, <1>2, <1>3, <1>8, <1>10, <2>2, <2>4 DEF NoneMissing
    <2>6. OutboxInTurn' /\ OutboxDrained'
      <3>1. Ids(outbox') = <<>> /\ Elements(Ids(outbox')) = {}
        BY <2>1, IdsEmpty, ElementsEmpty
      <3>2. Elements(Ids(outbox')) \ {0} = (id + 1) .. id /\ id \in 0 .. id
        BY <1>1, <3>1
      <3>3. InTurn(Ids(outbox'), 1 .. id)
        BY <3>1, InTurnEmpty
      <3>4. QED
        BY <2>1, <3>2, <3>3 DEF OutboxInTurn, OutboxDrained, id
    <2>7. QED
      BY <1>4, <1>6, <2>4, <2>5, <2>6 DEF OrderInv
  <1>12. CASE phase # "connected"
    <2>1. up' = up /\ outbox' = Append(outbox, m)
      BY <1>9, <1>12 DEF Notify
    <2>2. WiresInTurn'
      BY <1>3, <2>1, WiresSame
    <2>3. NoneMissing' /\ OutboxDrained'
      BY <1>2, <1>12 DEF NoneMissing, OutboxDrained
    <2>4. PICK f \in 0 .. Len(dispatched) :
             /\ Elements(Ids(outbox)) \ {0} = (f + 1) .. Len(dispatched)
             /\ InTurn(Ids(outbox), 1 .. f)
      BY DEF OrderInv, OutboxInTurn
    <2>5. outbox \in Seq(M) /\ Ids(outbox) \in Seq(Nat)
      <3>1. Notification \subseteq M
        BY InTurnTypes DEF M
      <3>2. QED
        BY <3>1, InTurnTypes, SeqMonotonic DEF TypeInv
    <2>6. Ids(outbox') = Append(Ids(outbox), id)
      BY <1>7, <1>8, <2>1, <2>5, IdsAppend
    <2>7. Elements(Ids(outbox')) = Elements(Ids(outbox)) \cup {id}
      BY <1>1, <2>5, <2>6, ElementsAppend
    <2>8. Elements(Ids(outbox')) \ {0} = (f + 1) .. id /\ f \in 0 .. id
      BY <1>1, <2>4, <2>7
    <2>9. 1 .. (id - 1) \subseteq 1 .. f \cup Elements(Ids(outbox))
      BY <1>1, <2>4
    <2>10. InTurn(Ids(outbox'), 1 .. f)
      BY <1>1, <2>4, <2>5, <2>6, <2>9, InTurnAppend
    <2>11. OutboxInTurn'
      BY <2>8, <2>10 DEF OutboxInTurn, id
    <2>12. QED
      BY <1>4, <1>6, <2>2, <2>3, <2>11 DEF OrderInv
  <1>13. QED
    BY <1>11, <1>12

(* What is no longer pending was applied.                                   *)
LEMMA OwnApplied ==
    ASSUME TypeInv, NEW ns \in ServerSeqs
    PROVE  Own(ns) \subseteq Applied
  <1>1. Elements(ns) \subseteq 1 .. Len(log)
    BY ElementsType DEF ServerSeqs
  <1>2. Len(Owns) = Len(log) /\ \A n \in 1 .. Len(log) : Owns[n] = log[n].own
    BY InTurnTypes
  <1>3. QED
    BY <1>1, <1>2 DEF Own, Applied, Elements

LEMMA ReconciledPending ==
    ASSUME TypeInv, NEW s \in Subscription, NEW ns \in ServerSeqs
    PROVE  Elements(s.pending) \subseteq Elements(Reconcile(s, ns).pending) \cup Applied
  <1>1. Reconcile(s, ns).pending = Without(s.pending, Own(ns))
    BY DEF Reconcile, Subscription
  <1>2. Elements(Without(s.pending, Own(ns))) = Elements(s.pending) \ Own(ns)
    BY WithoutType DEF Subscription
  <1>3. QED
    BY <1>1, <1>2, OwnApplied

LEMMA ReceivedPending ==
    ASSUME TypeInv, NEW s \in Subscription, NEW ns \in ServerSeqs
    PROVE  Elements(s.pending) \subseteq Elements(ReceiveEnvelope(s, ns).pending) \cup Applied
  <1>1. [s EXCEPT !.buffered = @ \o ns].pending = s.pending
    BY DEF Subscription
  <1>2. QED
    BY <1>1, ReconciledPending DEF ReceiveEnvelope

LEMMA SnapshotPending ==
    ASSUME TypeInv, NEW s \in Subscription, NEW c, NEW n \in 0 .. Len(log)
    PROVE  Elements(s.pending) \subseteq Elements(HandleSnapshot(s, c, n).pending) \cup Applied
  <1> DEFINE new == [s EXCEPT !.known = TRUE, !.failed = FALSE, !.confirmed = StateAt(c, n),
                              !.buffered = <<>>]
             ns == Where(s.buffered, {m \in Elements(s.buffered) : m > n})
  <1>1. new \in Subscription /\ new.pending = s.pending
    <2>1. StateAt(c, n) \in ServerSeqs /\ <<>> \in ServerSeqs
      BY StateType, EmptySeq DEF ServerSeqs
    <2>2. QED
      BY <2>1 DEF Subscription
  <1>2. ns \in ServerSeqs
    BY WhereType DEF Subscription, ServerSeqs
  <1>3. HandleSnapshot(s, c, n) = Reconcile(new, ns)
    BY DEF HandleSnapshot
  <1> HIDE DEF new, ns
  <1>4. QED
    BY <1>1, <1>2, <1>3, ReconciledPending

LEMMA ReplayedPending ==
    ASSUME TypeInv, NEW c \in Channel, NEW missed \in ServerSeqs
    PROVE  Pending(c) \subseteq Elements(AllReplayed(c, missed).pending) \cup Applied
  <1> DEFINE mine == Where(missed, On(c))
             s == [sub[c] EXCEPT !.pending = Without(@, Own(mine))]
  <1>1. mine \in ServerSeqs /\ sub[c] \in Subscription
    BY WhereType DEF TypeInv, ServerSeqs
  <1> HIDE DEF mine
  <1>2. /\ Without(sub[c].pending, Own(mine)) \in Seq(OwnId)
        /\ Elements(Without(sub[c].pending, Own(mine))) = Pending(c) \ Own(mine)
    BY <1>1, WithoutType DEF Subscription, Pending
  <1>3. s \in Subscription /\ s.pending = Without(sub[c].pending, Own(mine))
    BY <1>1, <1>2 DEF Subscription
  <1>4. AllReplayed(c, missed) = ReceiveEnvelope(s, mine)
    BY DEF AllReplayed, mine
  <1> HIDE DEF s
  <1>5. QED
    BY <1>1, <1>2, <1>3, <1>4, ReceivedPending, OwnApplied

-----------------------------------------------------------------------------
(* A step of the client that sends nothing.                                 *)
LEMMA SilentInTurn ==
    ASSUME OrderInv, UNCHANGED <<log, dispatchQueue, dispatched, open, up, outbox, transport>>,
           phase' = phase \/ phase' # "connected",
           cleared \subseteq cleared',
           Standing \subseteq Standing' \cup cleared' \cup Applied
    PROVE  OrderInv'
  <1>1. HostInTurn' /\ NoneForgotten' /\ Taken \subseteq Taken' /\ OwnId' = OwnId
    BY ClientSettles
  <1>2. WiresInTurn' /\ OutboxInTurn'
    BY <1>1, WiresSame, OutboxSame
  <1>3. OutboxDrained' /\ NoneMissing'
    BY <1>1 DEF OrderInv, OutboxDrained, NoneMissing
  <1>4. QED
    BY <1>1, <1>2, <1>3 DEF OrderInv

(* One that sends what is no action, or leaves it in the outbox.            *)
LEMMA QuietlyInTurn ==
    ASSUME TypeInv, OrderInv, UNCHANGED <<log, dispatchQueue, dispatched, open, phase, transport>>,
           cleared \subseteq cleared',
           Standing \subseteq Standing' \cup cleared' \cup Applied,
           NEW M, UpMessage \subseteq M, \A m \in M : Id(m) \in Nat,
           NEW msgs \in Seq(M), \A k \in 1 .. Len(msgs) : Id(msgs[k]) = 0,
           NEW left \in Seq(Notification), \A k \in 1 .. Len(left) : Id(left[k]) = 0,
           IF phase = "connected" THEN up' = Sent(up, transport, msgs) /\ outbox' = outbox
                                  ELSE up' = up /\ outbox' = outbox \o left
    PROVE  OrderInv'
  <1>1. HostInTurn' /\ NoneForgotten' /\ Taken \subseteq Taken' /\ OwnId' = OwnId
    BY ClientSettles
  <1>2. CASE phase = "connected"
    <2>1. up' = Sent(up, transport, msgs) /\ outbox' = outbox /\ transport \in Transport
      BY <1>2 DEF TypeInv
    <2>2. \A D : InTurn(Ids(msgs), D)
      BY QuietInTurn
    <2>3. /\ WiresInTurn'
          /\ \A u \in Transport : Elements(Ids(up[u])) \subseteq Elements(Ids(up'[u]))
      BY <1>1, <2>1, <2>2, WiresSent
    <2>4. OutboxInTurn' /\ OutboxDrained'
      BY <2>1, OutboxSame DEF OrderInv, OutboxDrained
    <2>5. NoneMissing'
      BY <1>1, <2>1, <2>3 DEF OrderInv, NoneMissing
    <2>6. QED
      BY <1>1, <2>3, <2>4, <2>5 DEF OrderInv
  <1>3. CASE phase # "connected"
    <2>1. up' = up /\ outbox' = outbox \o left
      BY <1>3
    <2>2. WiresInTurn'
      BY <1>1, <2>1, WiresSame
    <2>3. OutboxInTurn'
      BY <2>1, OutboxQuiet
    <2>4. OutboxDrained' /\ NoneMissing'
      BY <1>3 DEF OutboxDrained, NoneMissing
    <2>5. QED
      BY <1>1, <2>2, <2>3, <2>4 DEF OrderInv
  <1>4. QED
    BY <1>2, <1>3

LEMMA SubscribeInTurn ==
    ASSUME TypeInv, OrderInv, NEW c \in Channel, Subscribe(c)
    PROVE  OrderInv'
  <1> DEFINE left    == IF sub[c].entry = 0 THEN <<>> ELSE <<Unsubscribe(c)>>
             request == [type |-> "subscribe", channel |-> c, id |-> entries + 1]
             M       == UpMessage \cup {request}
  <1>1. /\ UNCHANGED <<log, dispatchQueue, dispatched, open, phase, transport>>
        /\ cleared' = cleared \cup Pending(c)
    BY DEF Subscribe, hostVars
  <1>2. Standing \subseteq Standing' \cup cleared'
    <2>1. \A d \in Channel \ {c} : Pending(d)' = Pending(d)
      BY DEF Subscribe, TypeInv, Pending
    <2>2. QED
      BY <1>1, <2>1 DEF Standing
  <1>3. /\ Unsubscribe(c) \in Notification /\ Notification \subseteq UpMessage
        /\ Id(Unsubscribe(c)) = 0 /\ Id(request) = 0 /\ \A m \in UpMessage : Id(m) \in Nat
    BY InTurnTypes DEF Unsubscribe, Notification, Id
  <1>4. IF phase = "connected"
        THEN up' = Sent(up, transport, left \o <<request>>) /\ outbox' = outbox
        ELSE up' = up /\ outbox' = outbox \o left
    <2>1. entries' = entries + 1
      BY DEF Subscribe
    <2>2. QED
      BY <2>1 DEF Subscribe
  <1> HIDE DEF request
  <1>5. /\ UpMessage \subseteq M /\ \A m \in M : Id(m) \in Nat
        /\ left \in Seq(Notification) /\ \A k \in 1 .. Len(left) : Id(left[k]) = 0
    BY <1>3, EmptySeq
  <1>6. left \o <<request>> \in Seq(M)
    <2>1. request \in M /\ Unsubscribe(c) \in M
      BY <1>3
    <2> HIDE DEF M
    <2>2. <<>> \in Seq(M) /\ <<Unsubscribe(c)>> \in Seq(M) /\ <<request>> \in Seq(M)
      BY <2>1, EmptySeq
    <2>3. QED
      BY <2>2, ConcatProperties
  <1>7. \A k \in 1 .. Len(left \o <<request>>) : Id((left \o <<request>>)[k]) = 0
    <2>1. CASE sub[c].entry = 0
      BY <1>3, <2>1
    <2>2. CASE sub[c].entry # 0
      BY <1>3, <2>2
    <2>3. QED
      BY <2>1, <2>2
  <1> HIDE DEF left, M
  <1>8. QED
    BY <1>1, <1>2, <1>4, <1>5, <1>6, <1>7, QuietlyInTurn

LEMMA ReleaseInTurn ==
    ASSUME TypeInv, OrderInv, NEW c \in Channel, Release(c)
    PROVE  OrderInv'
  <1> DEFINE left == <<Unsubscribe(c)>>
  <1>1. /\ UNCHANGED <<log, dispatchQueue, dispatched, open, phase, transport>>
        /\ cleared' = cleared \cup Pending(c) /\ Notify(Unsubscribe(c))
    BY DEF Release, hostVars
  <1>2. Standing \subseteq Standing' \cup cleared'
    <2>1. \A d \in Channel \ {c} : Pending(d)' = Pending(d)
      BY DEF Release, TypeInv, Pending
    <2>2. QED
      BY <1>1, <2>1 DEF Standing
  <1>3. /\ Unsubscribe(c) \in Notification /\ Notification \subseteq UpMessage
        /\ Id(Unsubscribe(c)) = 0 /\ \A m \in UpMessage : Id(m) \in Nat
    BY InTurnTypes DEF Unsubscribe, Notification, Id
  <1>4. Append(outbox, Unsubscribe(c)) = outbox \o left
    BY <1>3, AppendIsConcat DEF TypeInv
  <1>5. IF phase = "connected"
        THEN up' = Sent(up, transport, left) /\ outbox' = outbox
        ELSE up' = up /\ outbox' = outbox \o left
    BY <1>1, <1>4 DEF Notify
  <1>6. /\ left \in Seq(Notification) /\ left \in Seq(UpMessage)
        /\ \A k \in 1 .. Len(left) : Id(left[k]) = 0
    BY <1>3
  <1> HIDE DEF left
  <1>7. QED
    BY <1>1, <1>2, <1>3, <1>5, <1>6, QuietlyInTurn

LEMMA ClientSeesCloseInTurn ==
    ASSUME TypeInv, OrderInv, ClientSeesClose
    PROVE  OrderInv'
  <1>1. /\ UNCHANGED <<log, dispatchQueue, dispatched, open, up, outbox, transport, cleared>>
        /\ phase' = "waiting"
    BY DEF ClientSeesClose, hostVars, wireVars
  <1>2. \A c \in Channel : Pending(c)' = Pending(c)
    <2>1. \A c \in Channel : sub[c] \in Subscription
      BY DEF TypeInv
    <2>2. \A c \in Channel : SetError(sub[c]).pending = sub[c].pending
      BY <2>1 DEF SetError, Subscription
    <2>3. QED
      BY <2>2 DEF ClientSeesClose, Pending
  <1>3. Standing' = Standing
    BY <1>2 DEF Standing
  <1>4. QED
    BY <1>1, <1>3, SilentInTurn

LEMMA AttemptReconnectInTurn ==
    ASSUME TypeInv, OrderInv, AttemptReconnect
    PROVE  OrderInv'
  <1> DEFINE request == [type |-> "reconnect", lastSeen |-> serverSeq,
                         channels |-> {Root} \cup {c \in Channel : sub[c].entry # 0}]
  <1>1. /\ UNCHANGED <<log, dispatchQueue, dispatched, open, outbox, cleared, sub>>
        /\ phase' = "reconnecting" /\ up' = Sent(up, transport', <<request>>)
    BY DEF AttemptReconnect, hostVars
  <1>2. HostInTurn' /\ NoneForgotten' /\ Taken \subseteq Taken' /\ OwnId' = OwnId
    <2>1. Standing' = Standing
      BY <1>1 DEF Standing, Pending
    <2>2. QED
      BY <1>1, <2>1, ClientSettles
  <1>3. OutboxInTurn' /\ OutboxDrained' /\ NoneMissing'
    BY <1>1, OutboxSame DEF OutboxDrained, NoneMissing
  <1>4. WiresInTurn'
    <2>1. transport' \in Transport
      BY BoundsAssumption DEF AttemptReconnect, Transport, TypeInv
    <2>2. Id(request) = 0
      BY DEF Id
    <2> DEFINE M == UpMessage \cup {request}
    <2> HIDE DEF request
    <2>3. /\ UpMessage \subseteq M /\ <<request>> \in Seq(M) /\ \A m \in M : Id(m) \in Nat
          /\ \A k \in 1 .. Len(<<request>>) : Id(<<request>>[k]) = 0
      BY <2>2, InTurnTypes
    <2> HIDE DEF M
    <2>4. InTurn(Ids(<<request>>), Taken' \cup Elements(Ids(up[transport'])))
      BY <2>3, QuietInTurn
    <2>5. QED
      BY <1>1, <1>2, <2>1, <2>3, <2>4, WiresSent
  <1>5. QED
    BY <1>2, <1>3, <1>4 DEF OrderInv

LEMMA ReceiveActionInTurn ==
    ASSUME TypeInv, OrderInv, ReceiveAction
    PROVE  OrderInv'
  <1>1. UNCHANGED <<log, dispatchQueue, dispatched, open, up, outbox, transport, cleared, phase>>
    BY DEF ReceiveAction, hostVars
  <1>2. \A c \in Channel : Pending(c) \subseteq Pending(c)' \cup Applied
    <2>1. <<Arrived.seq>> \in ServerSeqs
      BY ArrivedType DEF ReceiveAction, DownMessage, ServerSeqs
    <2>2. \A c \in Channel : Where(<<Arrived.seq>>, On(c)) \in ServerSeqs /\ sub[c] \in Subscription
      BY <2>1, WhereType DEF ServerSeqs, TypeInv
    <2>3. \A c \in Channel :
             Elements(sub[c].pending)
               \subseteq Elements(ReceiveEnvelope(sub[c], Where(<<Arrived.seq>>, On(c))).pending)
                           \cup Applied
      BY <2>2, ReceivedPending
    <2>4. QED
      BY <2>3 DEF ReceiveAction, Pending
  <1>3. Standing \subseteq Standing' \cup Applied
    BY <1>2 DEF Standing
  <1>4. QED
    BY <1>1, <1>3, SilentInTurn

LEMMA AnswerInTurn ==
    ASSUME TypeInv, OrderInv, ReceiveSubscribed \/ ReceiveRefusal
    PROVE  OrderInv'
  <1>1. UNCHANGED <<log, dispatchQueue, dispatched, open, up, outbox, transport, cleared, phase>>
    BY DEF ReceiveSubscribed, ReceiveRefusal, hostVars
  <1>2. \A c \in Channel : Pending(c) \subseteq Pending(c)' \cup Applied
    <2>1. \A c \in Channel : sub[c] \in Subscription
      BY DEF TypeInv
    <2>2. CASE ReceiveSubscribed
      <3>1. Arrived.fromSeq \in 0 .. Len(log)
        BY <2>2, ArrivedType DEF ReceiveSubscribed, DownMessage
      <3>2. \A c \in Channel :
               Elements(sub[c].pending)
                 \subseteq Elements(HandleSnapshot(sub[c], c, Arrived.fromSeq).pending) \cup Applied
        BY <2>1, <3>1, SnapshotPending
      <3>3. QED
        BY <2>2, <3>2 DEF ReceiveSubscribed, Pending
    <2>3. CASE ReceiveRefusal
      <3>1. \A c \in Channel : SetError(sub[c]).pending = sub[c].pending
        BY <2>1 DEF SetError, Subscription
      <3>2. QED
        BY <2>3, <3>1 DEF ReceiveRefusal, Pending
    <2>4. QED
      BY <2>2, <2>3
  <1>3. Standing \subseteq Standing' \cup Applied
    BY <1>2 DEF Standing
  <1>4. QED
    BY <1>1, <1>3, SilentInTurn

LEMMA Waiting ==
    ASSUME TypeInv
    PROVE  \A id \in OwnId : DispatchAction(id) \in Elements(outbox) <=> id \in Elements(Ids(outbox))
  <1>1. /\ outbox \in Seq(Notification) /\ Len(outbox) \in Nat /\ Len(Ids(outbox)) = Len(outbox)
        /\ \A k \in 1 .. Len(outbox) : Ids(outbox)[k] = Id(outbox[k])
    BY InTurnTypes, IdsType, LenProperties DEF TypeInv
  <1>2. \A k \in 1 .. Len(outbox) : outbox[k] \in Notification
    BY <1>1, ElementOfSeq
  <1>3. ASSUME NEW m \in Notification, NEW id \in OwnId
        PROVE  m = DispatchAction(id) <=> Id(m) = id
    <2>1. id # 0
      BY Lengths DEF OwnId
    <2>2. CASE m \in [type : {"dispatchAction"}, id : OwnId]
      <3>1. m.type = "dispatchAction" /\ m = [type |-> "dispatchAction", id |-> m.id]
        BY <2>2
      <3>2. QED
        BY <3>1 DEF DispatchAction, Id
    <2>3. CASE m \in [type : {"unsubscribe"}, channel : Channel]
      <3>1. m.type = "unsubscribe"
        BY <2>3
      <3>2. Id(m) = 0
        BY <3>1 DEF Id
      <3>3. m # DispatchAction(id)
        BY <3>1 DEF DispatchAction
      <3>4. QED
        BY <2>1, <3>2, <3>3
    <2>4. QED
      BY <2>2, <2>3 DEF Notification
  <1>4. QED
    BY <1>1, <1>2, <1>3 DEF Elements

(* What is pending is sent again, then what waited: nothing is missing.     *)
LEMMA DrainInTurn ==
    ASSUME TypeInv, OrderInv, DrainAfterReconnect(sub'),
           UNCHANGED <<log, dispatchQueue, dispatched, open, transport>>,
           cleared \subseteq cleared',
           Standing \subseteq Standing' \cup cleared' \cup Applied
    PROVE  OrderInv'
  <1> DEFINE queued  == {id \in 1 .. Len(dispatched) : DispatchAction(id) \in Elements(outbox)}
             pending == {id \in 1 .. Len(dispatched) :
                            \E c \in Channel : id \in Elements(sub'[c].pending)}
             again   == Where(UpTo(Len(dispatched)), pending \ queued)
             msgs    == Replays(sub') \o outbox \o gated
  <1>1. /\ HostInTurn' /\ NoneForgotten' /\ Taken \subseteq Taken' /\ OwnId' = OwnId
        /\ Applied' = Applied
    BY ClientSettles
  <1>2. /\ outbox' = <<>> /\ phase' = "connected" /\ up' = Sent(up, transport, msgs)
        /\ transport \in Transport
    BY DEF DrainAfterReconnect, TypeInv
  <1>3. /\ Replays(sub') \in Seq(UpMessage) /\ outbox \in Seq(UpMessage) /\ gated \in Seq(UpMessage)
        /\ Len(dispatched) \in Nat /\ \A m \in UpMessage : Id(m) \in Nat
    <2>1. Len(dispatched) \in Nat /\ outbox \in Seq(Notification) /\ gated \in Seq(SubscribeRequest)
      BY LenProperties DEF TypeInv
    <2>2. Replays(sub') \in Seq(Notification)
      BY <2>1, ReplaysType
    <2>3. QED
      BY <2>1, <2>2, InTurnTypes, SeqMonotonic
  <1>4. queued = OwnId \cap Elements(Ids(outbox))
    BY Waiting DEF OwnId
  <1>5. OwnId \cap Standing' = pending
    BY DEF OwnId, Standing, Pending
  <1>6. /\ Ids(Replays(sub')) = again
        /\ InTurn(again, OwnId \ (pending \ queued))
        /\ Elements(again) = pending \ queued
    <2>1. /\ UpTo(Len(dispatched)) \in Seq(OwnId) /\ Elements(UpTo(Len(dispatched))) = OwnId
      BY <1>3, UpToType DEF OwnId
    <2>2. again \in Seq(OwnId) /\ Elements(again) = OwnId \cap (pending \ queued)
      BY <2>1, WhereType
    <2>3. InTurn(again, OwnId \ (pending \ queued))
      BY <1>3, InTurnChosen DEF OwnId
    <2>4. Replays(sub') = [i \in 1 .. Len(again) |-> DispatchAction(again[i])]
      BY DEF Replays
    <2>5. Len(again) \in Nat /\ \A i \in 1 .. Len(again) : again[i] \in OwnId
      BY <2>2, LenProperties, ElementOfSeq
    <2> HIDE DEF again
    <2>6. again = [i \in 1 .. Len(again) |-> again[i]]
      BY <2>2, <2>5
    <2>7. Ids(Replays(sub')) = again
      <3>1. Len(Replays(sub')) = Len(again)
        BY <2>4, <2>5
      <3>2. \A i \in 1 .. Len(again) : Id(Replays(sub')[i]) = again[i]
        BY <2>4 DEF DispatchAction, Id
      <3>3. QED
        BY <2>6, <3>1, <3>2 DEF Ids
    <2>8. pending \ queued \subseteq OwnId
      BY DEF OwnId
    <2>9. QED
      BY <2>2, <2>3, <2>7, <2>8
  <1> HIDE DEF again, pending, queued
  <1>7. PICK f \in 0 .. Len(dispatched) :
           /\ Elements(Ids(outbox)) \ {0} = (f + 1) .. Len(dispatched)
           /\ InTurn(Ids(outbox), 1 .. f)
    BY DEF OrderInv, OutboxInTurn
  <1>8. queued = (f + 1) .. Len(dispatched) /\ OwnId \ queued = 1 .. f
    <2>1. OwnId = 1 .. Len(dispatched) /\ f \in Nat
      BY <1>3, <1>7 DEF OwnId
    <2>2. queued = OwnId \cap (Elements(Ids(outbox)) \ {0})
      BY <1>4, <2>1
    <2>3. queued = (1 .. Len(dispatched)) \cap ((f + 1) .. Len(dispatched))
      BY <1>7, <2>1, <2>2
    <2>4. QED
      BY <1>3, <1>7, <2>1, <2>3
  <1>9. OwnId \subseteq Taken' \cup pending
    BY <1>1, <1>5 DEF NoneForgotten, Taken
  (* the pending ones that do not wait *)
  <1>10. InTurn(again, Taken')
    <2>1. ASSUME NEW k \in 1 .. Len(again), NEW i \in 1 .. (again[k] - 1)
          PROVE  i \in Taken' \/ \E l \in 1 .. (k - 1) : again[l] = i
      <3>1. again[k] \in pending \ queued
        BY <1>6 DEF Elements
      <3>2. again[k] \in 1 .. f
        BY <1>8, <3>1 DEF pending, OwnId
      <3>3. i \in 1 .. f
        BY <1>7, <3>2
      <3>4. i \in OwnId \ queued
        BY <1>8, <3>3
      <3>5. CASE i \in pending
        <4>1. i \notin OwnId \ (pending \ queued)
          BY <3>4, <3>5
        <4>2. QED
          BY <1>6, <4>1 DEF InTurn
      <3>6. CASE i \notin pending
        BY <1>9, <3>4, <3>6
      <3>7. QED
        BY <3>5, <3>6
    <2>2. QED
      BY <2>1 DEF InTurn
  (* what waited *)
  <1>11. InTurn(Ids(outbox), Taken' \cup Elements(again))
    <2>1. 1 .. f \subseteq Taken' \cup Elements(again)
      BY <1>6, <1>8, <1>9
    <2>2. QED
      BY <1>7, <2>1, InTurnWeaker
  <1>12. InTurn(Ids(gated), Taken' \cup (Elements(again) \cup Elements(Ids(outbox))))
         /\ Elements(Ids(gated)) \subseteq {0}
    <2>1. gated \in Seq(SubscribeRequest)
      BY DEF TypeInv
    <2>2. Len(gated) \in Nat /\ \A k \in 1 .. Len(gated) : gated[k] \in SubscribeRequest
      BY <2>1, LenProperties, ElementOfSeq
    <2>3. \A k \in 1 .. Len(gated) : Id(gated[k]) = 0
      BY <2>2 DEF SubscribeRequest, Id
    <2>4. QED
      BY <1>3, <2>3, QuietInTurn
  <1>13. /\ msgs \in Seq(UpMessage) /\ InTurn(Ids(msgs), Taken')
         /\ Elements(Ids(msgs)) = Elements(again) \cup Elements(Ids(outbox)) \cup Elements(Ids(gated))
    <2> DEFINE front == Replays(sub') \o outbox
    <2>1. /\ front \in Seq(UpMessage) /\ InTurn(Ids(front), Taken')
          /\ Elements(Ids(front)) = Elements(again) \cup Elements(Ids(outbox))
      BY <1>3, <1>6, <1>10, <1>11, InTurnSent, ConcatProperties
    <2>2. msgs = front \o gated
      OBVIOUS
    <2> HIDE DEF front, msgs
    <2>3. InTurn(Ids(gated), Taken' \cup Elements(Ids(front)))
      BY <1>12, <2>1
    <2>4. front \o gated \in Seq(UpMessage)
      BY <1>3, <2>1, ConcatProperties
    <2>5. /\ InTurn(Ids(front \o gated), Taken')
          /\ Elements(Ids(front \o gated)) = Elements(Ids(front)) \cup Elements(Ids(gated))
      BY <1>3, <2>1, <2>3, InTurnSent
    <2>6. QED
      BY <2>1, <2>2, <2>4, <2>5
  <1> HIDE DEF msgs
  <1>14. /\ WiresInTurn'
         /\ open[transport] => Elements(Ids(up'[transport]))
                                  = Elements(Ids(up[transport])) \cup Elements(Ids(msgs))
    <2>1. Taken' \subseteq Taken' \cup Elements(Ids(up[transport]))
      OBVIOUS
    <2>2. InTurn(Ids(msgs), Taken' \cup Elements(Ids(up[transport])))
      BY <1>13, <2>1, InTurnWeaker
    <2>3. QED
      BY <1>1, <1>2, <1>3, <1>13, <2>2, WiresSent
  <1>15. NoneMissing'
    <2>1. OwnId \subseteq Taken' \cup Elements(again) \cup Elements(Ids(outbox))
      BY <1>4, <1>6, <1>9
    <2>2. QED
      BY <1>1, <1>13, <1>14, <2>1 DEF NoneMissing
  <1>16. OutboxInTurn' /\ OutboxDrained'
    <2>1. Ids(outbox') = <<>> /\ Elements(Ids(outbox')) = {}
      BY <1>2, IdsEmpty, ElementsEmpty
    <2>2. /\ Elements(Ids(outbox')) \ {0} = (Len(dispatched) + 1) .. Len(dispatched)
          /\ Len(dispatched) \in 0 .. Len(dispatched)
      BY <1>3, <2>1
    <2>3. InTurn(Ids(outbox'), 1 .. Len(dispatched))
      BY <2>1, InTurnEmpty
    <2>4. QED
      BY <1>2, <2>2, <2>3 DEF OutboxInTurn, OutboxDrained
  <1>17. QED
    BY <1>1, <1>14, <1>15, <1>16 DEF OrderInv

LEMMA ReceiveReplayInTurn ==
    ASSUME TypeInv, OrderInv, ReceiveReplay
    PROVE  OrderInv'
  <1>1. /\ UNCHANGED <<log, dispatchQueue, dispatched, open, transport>>
        /\ cleared' = cleared \cup UNION {Pending(c) : c \in Arrived.missing}
        /\ DrainAfterReconnect(sub')
    BY DEF ReceiveReplay, hostVars
  <1>2. Arrived.actions \in ServerSeqs
    BY ArrivedType DEF ReceiveReplay, DownMessage
  <1>3. \A c \in Channel : Pending(c) \subseteq Pending(c)' \cup cleared' \cup Applied
    <2>1. \A c \in Channel : Pending(c) \subseteq
             Elements(AllReplayed(c, Arrived.actions).pending) \cup Applied
      BY <1>2, ReplayedPending
    <2>2. ASSUME NEW c \in Channel PROVE Pending(c) \subseteq Pending(c)' \cup cleared' \cup Applied
      <3>1. CASE c \in Arrived.missing
        BY <1>1, <3>1
      <3>2. CASE c \notin Arrived.missing
        <4>1. sub'[c] = AllReplayed(c, Arrived.actions)
          BY <3>2 DEF ReceiveReplay
        <4>2. QED
          BY <2>1, <4>1 DEF Pending
      <3>3. QED
        BY <3>1, <3>2
    <2>3. QED
      BY <2>2
  <1>4. Standing \subseteq Standing' \cup cleared' \cup Applied
    BY <1>3 DEF Standing
  <1>5. QED
    BY <1>1, <1>4, DrainInTurn

LEMMA ReceiveSnapshotsInTurn ==
    ASSUME TypeInv, OrderInv, ReceiveSnapshots
    PROVE  OrderInv'
  <1> DEFINE reseated == {c \in DOMAIN Arrived.snapshots : sub[c].entry # 0}
  <1>1. /\ UNCHANGED <<log, dispatchQueue, dispatched, open, transport>>
        /\ cleared' = cleared \cup UNION {Pending(c) : c \in reseated}
        /\ DrainAfterReconnect(sub')
    BY DEF ReceiveSnapshots, hostVars
  <1>2. \A c \in Channel \ reseated : sub'[c] = sub[c]
    BY DEF ReceiveSnapshots
  <1> HIDE DEF reseated
  <1>3. \A c \in Channel : Pending(c) \subseteq Pending(c)' \cup cleared'
    BY <1>1, <1>2 DEF Pending
  <1>4. Standing \subseteq Standing' \cup cleared'
    BY <1>3 DEF Standing
  <1>5. QED
    BY <1>1, <1>4, DrainInTurn

LEMMA ElementsTail ==
    ASSUME NEW T, NEW s \in Seq(T), s # <<>>
    PROVE  Elements(s) = {Head(s)} \cup Elements(Tail(s))
  <1>1. /\ Len(s) \in Nat /\ Len(s) >= 1 /\ Head(s) = s[1] /\ Len(Tail(s)) = Len(s) - 1
        /\ \A k \in 1 .. Len(Tail(s)) : Tail(s)[k] = s[k + 1]
    BY EmptySeq, HeadTailProperties, LenProperties
  <1>2. ASSUME NEW k \in 1 .. Len(s) PROVE s[k] \in {Head(s)} \cup Elements(Tail(s))
    <2>1. CASE k = 1
      BY <1>1, <2>1
    <2>2. CASE k # 1
      <3>1. k - 1 \in 1 .. Len(Tail(s)) /\ (k - 1) + 1 = k
        BY <1>1, <2>2
      <3>2. Tail(s)[k - 1] = s[k]
        BY <1>1, <3>1
      <3>3. QED
        BY <3>1, <3>2 DEF Elements
    <2>3. QED
      BY <2>1, <2>2
  <1>3. ASSUME NEW k \in 1 .. Len(Tail(s)) PROVE Tail(s)[k] \in Elements(s)
    <2>1. k + 1 \in 1 .. Len(s)
      BY <1>1
    <2>2. QED
      BY <1>1, <2>1 DEF Elements
  <1>4. Head(s) \in Elements(s)
    BY <1>1 DEF Elements
  <1>5. QED
    BY <1>2, <1>3, <1>4 DEF Elements

(* The host takes a message off a wire: an action is settled then.          *)
LEMMA TakesInTurn ==
    ASSUME TypeInv, OrderInv, NEW t \in Transport, NEW type, HostTakes(t, type),
           UNCHANGED <<open, phase, transport, dispatched>>, Taken \subseteq Taken',
           Id(Head(up[t])) \in Taken' \cup {0}
    PROVE  WiresInTurn' /\ NoneMissing'
  <1>1. /\ up \in [Transport -> Seq(UpMessage)] /\ up[t] # <<>>
        /\ up'[t] = Tail(up[t]) /\ \A u \in Transport \ {t} : up'[u] = up[u]
        /\ \A m \in UpMessage : Id(m) \in Nat
    BY InTurnTypes DEF TypeInv, HostTakes
  <1>2. /\ Ids(up'[t]) = Tail(Ids(up[t])) /\ Head(Ids(up[t])) = Id(Head(up[t]))
        /\ Ids(up[t]) \in Seq(Nat) /\ Ids(up[t]) # <<>>
    BY <1>1, IdsTail
  <1>3. InTurn(Ids(up'[t]), Taken')
    <2>1. InTurn(Ids(up[t]), Taken)
      BY DEF OrderInv, WiresInTurn
    <2>2. QED
      BY <1>2, <2>1, InTurnTail
  <1>4. \A u \in Transport \ {t} : InTurn(Ids(up'[u]), Taken')
    BY <1>1, InTurnWeaker DEF OrderInv, WiresInTurn
  <1>5. Elements(Ids(up[t])) \subseteq Elements(Ids(up'[t])) \cup Taken' \cup {0}
    BY <1>2, ElementsTail
  <1>6. NoneMissing'
    <2>1. OwnId' = OwnId /\ 0 \notin OwnId /\ transport \in Transport
      BY Lengths DEF OwnId, TypeInv
    <2>2. SUFFICES ASSUME phase = "connected", open[transport]
                   PROVE  OwnId \subseteq Taken' \cup Elements(Ids(up'[transport]))
      BY <2>1 DEF NoneMissing
    <2>3. OwnId \subseteq Taken' \cup Elements(Ids(up[transport]))
      BY <2>2 DEF OrderInv, NoneMissing
    <2>4. CASE transport = t
      BY <1>5, <2>1, <2>3, <2>4
    <2>5. CASE transport # t
      BY <1>1, <2>1, <2>3, <2>5
    <2>6. QED
      BY <2>4, <2>5
  <1>7. QED
    BY <1>3, <1>4, <1>6 DEF WiresInTurn

(* What the host does without applying or queueing an action.               *)
LEMMA HostSame ==
    ASSUME OrderInv, UNCHANGED <<log, dispatchQueue, clientVars>>
    PROVE  /\ HostInTurn' /\ OutboxInTurn' /\ OutboxDrained' /\ NoneForgotten'
           /\ Taken' = Taken /\ OwnId' = OwnId
  <1>1. UNCHANGED <<log, dispatchQueue, dispatched, cleared, outbox, phase, transport, sub>>
    BY DEF clientVars
  <1>2. Standing' = Standing
    BY <1>1 DEF Standing, Pending
  <1>3. HostInTurn' /\ NoneForgotten' /\ OwnId' = OwnId
    BY <1>1, <1>2, ClientSettles
  <1>4. Taken' = Taken
    BY <1>1 DEF Taken, Applied, Owns
  <1>5. OutboxInTurn' /\ OutboxDrained'
    BY <1>1, OutboxSame DEF OrderInv, OutboxDrained
  <1>6. QED
    BY <1>3, <1>4, <1>5

LEMMA HostQuiet ==
    ASSUME OrderInv, UNCHANGED <<log, dispatchQueue, up, open, clientVars>>
    PROVE  OrderInv'
  <1>1. /\ HostInTurn' /\ OutboxInTurn' /\ OutboxDrained' /\ NoneForgotten'
        /\ Taken' = Taken /\ OwnId' = OwnId
    BY HostSame
  <1>2. WiresInTurn' /\ NoneMissing'
    BY <1>1, WiresSame DEF OrderInv, NoneMissing, clientVars
  <1>3. QED
    BY <1>1, <1>2 DEF OrderInv

LEMMA HostTakesQuiet ==
    ASSUME TypeInv, OrderInv, NEW t \in Transport, NEW type, HostTakes(t, type),
           type # "dispatchAction", UNCHANGED <<log, dispatchQueue, open, clientVars>>
    PROVE  OrderInv'
  <1>1. /\ HostInTurn' /\ OutboxInTurn' /\ OutboxDrained' /\ NoneForgotten' /\ Taken' = Taken
    BY HostSame
  <1>2. Id(Head(up[t])) = 0
    BY DEF HostTakes, Id
  <1>3. WiresInTurn' /\ NoneMissing'
    BY <1>1, <1>2, TakesInTurn DEF clientVars
  <1>4. QED
    BY <1>1, <1>3 DEF OrderInv

(* An action is applied.                                                    *)
LEMMA OneMoreApplied ==
    ASSUME TypeInv, NEW c, NEW own \in Nat, ApplyAndEmit(c, own)
    PROVE  /\ Owns' = Append(Owns, own) /\ Applied' = Applied \cup {own}
           /\ HasDispatchQueue /\ Elements(dispatchQueue) \subseteq Elements(dispatchQueue') \cup {own}
                => HasDispatchQueue'
  <1>1. /\ Len(log) \in Nat /\ Len(log') = Len(log) + 1 /\ log'[Len(log) + 1].own = own
        /\ \A n \in 1 .. Len(log) : log'[n] = log[n]
    BY AppendProperties, LenProperties DEF ApplyAndEmit, TypeInv
  <1>2. /\ Owns \in Seq(Nat) /\ Len(Owns) = Len(log)
        /\ \A n \in 1 .. Len(log) : Owns[n] = log[n].own
    BY InTurnTypes
  <1>3. Owns' = Append(Owns, own)
    <2>1. /\ Append(Owns, own) \in Seq(Nat) /\ Len(Append(Owns, own)) = Len(log) + 1
          /\ Append(Owns, own)[Len(log) + 1] = own
          /\ \A n \in 1 .. Len(log) : Append(Owns, own)[n] = log[n].own
      BY <1>1, <1>2, AppendProperties
    <2>2. Owns' = [n \in 1 .. Len(log) + 1 |-> log'[n].own]
      BY <1>1 DEF Owns
    <2>3. \A n \in 1 .. Len(log) + 1 : log'[n].own = Append(Owns, own)[n]
      <3>1. \A n \in 1 .. Len(log) + 1 : n = Len(log) + 1 \/ n \in 1 .. Len(log)
        BY <1>1
      <3>2. QED
        BY <1>1, <2>1, <3>1
    <2>4. Append(Owns, own) = [n \in 1 .. Len(log) + 1 |-> Append(Owns, own)[n]]
      <3> DEFINE new == Append(Owns, own)
      <3>1. new \in Seq(Nat) /\ Len(new) = Len(log) + 1
        BY <2>1
      <3> HIDE DEF new
      <3>2. new = [n \in 1 .. Len(log) + 1 |-> new[n]]
        BY <3>1
      <3>3. QED
        BY <3>2 DEF new
    <2>5. QED
      BY <2>2, <2>3, <2>4
  <1>4. Applied' = Applied \cup {own}
    BY <1>2, <1>3, ElementsAppend DEF Applied
  <1>5. ASSUME HasDispatchQueue, Elements(dispatchQueue) \subseteq Elements(dispatchQueue') \cup {own}
        PROVE  HasDispatchQueue'
    <2>1. PICK id \in Rewritten :
             id \in Elements(dispatchQueue) \/ \E n \in 1 .. Len(log) : log[n].own = id
      BY <1>5 DEF HasDispatchQueue
    <2>2. CASE id \in Elements(dispatchQueue')
      BY <2>2 DEF HasDispatchQueue
    <2>3. CASE id = own
      <3>1. Len(log) + 1 \in 1 .. Len(log')
        BY <1>1
      <3>2. QED
        BY <1>1, <2>3, <3>1 DEF HasDispatchQueue
    <2>4. CASE \E n \in 1 .. Len(log) : log[n].own = id
      <3>1. PICK n \in 1 .. Len(log) : log[n].own = id
        BY <2>4
      <3>2. n \in 1 .. Len(log') /\ log'[n].own = id
        BY <1>1, <3>1
      <3>3. QED
        BY <3>2 DEF HasDispatchQueue
    <2>5. QED
      BY <1>5, <2>1, <2>2, <2>3, <2>4
  <1>6. QED
    BY <1>3, <1>4, <1>5

LEMMA ClientSame ==
    ASSUME OrderInv, UNCHANGED clientVars, Applied \subseteq Applied'
    PROVE  OutboxInTurn' /\ OutboxDrained' /\ NoneForgotten'
  <1>1. UNCHANGED <<dispatched, cleared, outbox, phase, sub>>
    BY DEF clientVars
  <1>2. Standing' = Standing /\ OwnId' = OwnId
    BY <1>1 DEF Standing, Pending, OwnId
  <1>3. QED
    BY <1>1, <1>2, OutboxSame DEF OrderInv, OutboxDrained, NoneForgotten

LEMMA ActInTurn ==
    ASSUME TypeInv, OrderInv, NEW c \in Channel, Act(c)
    PROVE  OrderInv'
  <1>1. ApplyAndEmit(c, 0) /\ UNCHANGED <<dispatchQueue, open, up, clientVars>>
    BY DEF Act
  <1>2. /\ Owns' = Append(Owns, 0) /\ Applied' = Applied \cup {0}
        /\ HasDispatchQueue => HasDispatchQueue'
    BY <1>1, OneMoreApplied
  <1>3. Owns \in Seq(Nat)
    BY InTurnTypes
  <1>4. LogInTurn'
    <2>1. 1 .. (0 - 1) \subseteq cleared \cup Elements(Owns)
      OBVIOUS
    <2>2. InTurn(Append(Owns, 0), cleared)
      BY <1>3, <2>1, InTurnAppend DEF OrderInv, HostInTurn, LogInTurn
    <2>3. QED
      BY <1>1, <1>2, <2>2 DEF LogInTurn, clientVars
  <1>5. QueueInTurn' /\ QueueKept'
    <2>1. cleared \cup Applied \subseteq cleared' \cup Applied'
      BY <1>1, <1>2 DEF clientVars
    <2>2. QED
      BY <1>1, <1>2, <2>1, InTurnWeaker DEF OrderInv, HostInTurn, QueueInTurn, QueueKept
  <1>6. Taken \subseteq Taken' /\ OwnId' = OwnId
    BY <1>1, <1>2 DEF Taken, OwnId, clientVars
  <1>7. WiresInTurn'
    BY <1>1, <1>6, WiresSame
  <1>8. NoneMissing'
    BY <1>1, <1>6 DEF OrderInv, NoneMissing, clientVars
  <1>9. OutboxInTurn' /\ OutboxDrained' /\ NoneForgotten'
    BY <1>1, <1>2, ClientSame
  <1>10. QED
    BY <1>4, <1>5, <1>7, <1>8, <1>9 DEF OrderInv, HostInTurn

LEMMA HandleDispatchInTurn ==
    ASSUME TypeInv, OrderInv, NEW t \in Transport, HandleDispatch(t)
    PROVE  OrderInv'
  <1> DEFINE id == Head(up[t]).id
  <1>1. /\ HostTakes(t, "dispatchAction") /\ UNCHANGED <<open, clientVars>>
        /\ IF id \notin Rewritten /\ ~HasDispatchQueue
           THEN ApplyAndEmit(dispatched[id], id) /\ UNCHANGED dispatchQueue
           ELSE dispatchQueue' = Append(dispatchQueue, id) /\ UNCHANGED <<log, down>>
    BY DEF HandleDispatch
  <1>2. /\ up[t] # <<>> /\ Head(up[t]).type = "dispatchAction"
        /\ Head(up[t]) \in UpMessage /\ up[t] \in Seq(UpMessage)
    BY <1>1, HeadTailProperties DEF HostTakes, TypeInv
  <1>3. Id(Head(up[t])) = id /\ id \in OwnId /\ id \in Nat
    BY <1>2, Lengths DEF Id, UpMessage, Notification, SubscribeRequest, OwnId
  <1>4. 1 .. (id - 1) \subseteq Taken
    <2>1. \A m \in UpMessage : Id(m) \in Nat
      BY InTurnTypes
    <2>2. Ids(up[t]) \in Seq(Nat) /\ Ids(up[t]) # <<>> /\ Head(Ids(up[t])) = id
      BY <1>2, <1>3, <2>1, IdsTail
    <2>3. InTurn(Ids(up[t]), Taken)
      BY DEF OrderInv, WiresInTurn
    <2> HIDE DEF id
    <2>4. QED
      BY <2>2, <2>3, InTurnFirst
  <1>5. Owns \in Seq(Nat) /\ dispatchQueue \in Seq(Nat)
    BY InTurnTypes
  <1> HIDE DEF id
  <1>6. CASE id \notin Rewritten /\ ~HasDispatchQueue
    <2>1. ApplyAndEmit(dispatched[id], id) /\ dispatchQueue' = dispatchQueue
      BY <1>1, <1>6
    <2>2. dispatchQueue = <<>> /\ Elements(dispatchQueue) = {}
      BY <1>6, ElementsEmpty DEF OrderInv, HostInTurn, QueueKept
    <2>3. Owns' = Append(Owns, id) /\ Applied' = Applied \cup {id}
      BY <1>3, <2>1, OneMoreApplied
    <2>4. LogInTurn'
      <3>1. 1 .. (id - 1) \subseteq cleared \cup Elements(Owns)
        BY <1>4, <2>2 DEF Taken, Applied
      <3>2. InTurn(Append(Owns, id), cleared)
        BY <1>3, <1>5, <3>1, InTurnAppend DEF OrderInv, HostInTurn, LogInTurn
      <3>3. QED
        BY <1>1, <2>3, <3>2 DEF LogInTurn, clientVars
    <2>5. QueueInTurn' /\ QueueKept'
      BY <2>1, <2>2, InTurnEmpty DEF QueueInTurn, QueueKept
    <2>6. Taken \subseteq Taken' /\ id \in Taken'
      BY <1>1, <2>1, <2>3 DEF Taken, clientVars
    <2>7. WiresInTurn' /\ NoneMissing'
      BY <1>1, <1>3, <2>6, TakesInTurn DEF clientVars
    <2>8. OutboxInTurn' /\ OutboxDrained' /\ NoneForgotten'
      BY <1>1, <2>3, ClientSame
    <2>9. QED
      BY <2>4, <2>5, <2>7, <2>8 DEF OrderInv, HostInTurn
  <1>7. CASE ~(id \notin Rewritten /\ ~HasDispatchQueue)
    <2>1. dispatchQueue' = Append(dispatchQueue, id) /\ log' = log
      BY <1>1, <1>7
    <2>2. Owns' = Owns /\ Applied' = Applied
      BY <2>1 DEF Owns, Applied
    <2>3. Elements(dispatchQueue') = Elements(dispatchQueue) \cup {id}
      BY <1>3, <1>5, <2>1, ElementsAppend
    <2>4. LogInTurn'
      BY <1>1, <2>2 DEF OrderInv, HostInTurn, LogInTurn, clientVars
    <2>5. QueueInTurn'
      <3>1. 1 .. (id - 1) \subseteq (cleared \cup Applied) \cup Elements(dispatchQueue)
        BY <1>4 DEF Taken
      <3>2. InTurn(Append(dispatchQueue, id), cleared \cup Applied)
        BY <1>3, <1>5, <3>1, InTurnAppend DEF OrderInv, HostInTurn, QueueInTurn
      <3>3. QED
        BY <1>1, <2>1, <2>2, <3>2 DEF QueueInTurn, clientVars
    <2>6. QueueKept'
      <3>1. HasDispatchQueue'
        <4>1. CASE id \in Rewritten
          BY <2>3, <4>1 DEF HasDispatchQueue
        <4>2. CASE HasDispatchQueue
          BY <2>1, <2>3, <4>2 DEF HasDispatchQueue
        <4>3. QED
          BY <1>7, <4>1, <4>2
      <3>2. QED
        BY <3>1 DEF QueueKept
    <2>7. Taken \subseteq Taken' /\ id \in Taken'
      BY <1>1, <2>2, <2>3 DEF Taken, clientVars
    <2>8. WiresInTurn' /\ NoneMissing'
      BY <1>1, <1>3, <2>7, TakesInTurn DEF clientVars
    <2>9. OutboxInTurn' /\ OutboxDrained' /\ NoneForgotten'
      BY <1>1, <2>2, ClientSame
    <2>10. QED
      BY <2>4, <2>5, <2>6, <2>8, <2>9 DEF OrderInv, HostInTurn
  <1>8. QED
    BY <1>6, <1>7

LEMMA RunDispatchQueueInTurn ==
    ASSUME TypeInv, OrderInv, RunDispatchQueue
    PROVE  OrderInv'
  <1> DEFINE id == Head(dispatchQueue)
  <1>1. /\ ApplyAndEmit(dispatched[id], id) /\ dispatchQueue' = Tail(dispatchQueue)
        /\ dispatchQueue # <<>> /\ UNCHANGED <<open, up, clientVars>>
    BY DEF RunDispatchQueue
  <1>2. Owns \in Seq(Nat) /\ dispatchQueue \in Seq(Nat)
    BY InTurnTypes
  <1>3. id \in Nat
    BY <1>1, <1>2, HeadTailProperties
  <1>4. Elements(dispatchQueue) = Elements(dispatchQueue') \cup {id}
    BY <1>1, <1>2, ElementsTail
  <1>5. 1 .. (id - 1) \subseteq cleared \cup Applied
    BY <1>1, <1>2, InTurnFirst DEF OrderInv, HostInTurn, QueueInTurn
  <1>6. /\ Owns' = Append(Owns, id) /\ Applied' = Applied \cup {id}
        /\ HasDispatchQueue => HasDispatchQueue'
    BY <1>1, <1>3, <1>4, OneMoreApplied
  <1>7. LogInTurn'
    <2>1. InTurn(Append(Owns, id), cleared)
      BY <1>2, <1>3, <1>5, InTurnAppend DEF OrderInv, HostInTurn, LogInTurn, Applied
    <2>2. QED
      BY <1>1, <1>6, <2>1 DEF LogInTurn, clientVars
  <1>8. QueueInTurn'
    <2>1. cleared \cup Applied \subseteq cleared' \cup Applied' /\ id \in cleared' \cup Applied'
      BY <1>1, <1>6 DEF clientVars
    <2>2. InTurn(Tail(dispatchQueue), cleared' \cup Applied')
      BY <1>1, <1>2, <2>1, InTurnTail DEF OrderInv, HostInTurn, QueueInTurn
    <2>3. QED
      BY <1>1, <2>2 DEF QueueInTurn
  <1>9. QueueKept'
    BY <1>1, <1>6 DEF OrderInv, HostInTurn, QueueKept
  <1>10. Taken \subseteq Taken' /\ OwnId' = OwnId
    BY <1>1, <1>4, <1>6 DEF Taken, OwnId, clientVars
  <1>11. WiresInTurn'
    BY <1>1, <1>10, WiresSame
  <1>12. NoneMissing'
    BY <1>1, <1>10 DEF OrderInv, NoneMissing, clientVars
  <1>13. OutboxInTurn' /\ OutboxDrained' /\ NoneForgotten'
    BY <1>1, <1>6, ClientSame
  <1>14. QED
    BY <1>7, <1>8, <1>9, <1>11, <1>12, <1>13 DEF OrderInv, HostInTurn

LEMMA BreakInTurn ==
    ASSUME TypeInv, OrderInv, Break
    PROVE  OrderInv'
  <1>1. /\ UNCHANGED <<log, dispatchQueue, clientVars>> /\ transport \in Transport
        /\ open' = [open EXCEPT ![transport] = FALSE]
    BY DEF Break, hostVars, TypeInv
  <1>2. PICK i \in 0 .. Len(up[transport]) :
           up' = [up EXCEPT ![transport] = SubSeq(@, 1, i)]
    BY DEF Break
  <1>3. /\ HostInTurn' /\ OutboxInTurn' /\ OutboxDrained' /\ NoneForgotten' /\ Taken' = Taken
    BY <1>1, HostSame
  <1>4. NoneMissing'
    <2>1. ~open'[transport'] 
      BY <1>1 DEF TypeInv, clientVars
    <2>2. QED
      BY <2>1 DEF NoneMissing
  <1>5. WiresInTurn'
    <2>1. /\ up \in [Transport -> Seq(UpMessage)]
          /\ up'[transport] = SubSeq(up[transport], 1, i)
          /\ \A u \in Transport \ {transport} : up'[u] = up[u]
          /\ \A m \in UpMessage : Id(m) \in Nat
      BY <1>1, <1>2, InTurnTypes DEF TypeInv
    <2>2. /\ Ids(up'[transport]) = SubSeq(Ids(up[transport]), 1, i)
          /\ Ids(up[transport]) \in Seq(Nat) /\ Len(Ids(up[transport])) = Len(up[transport])
      BY <1>1, <2>1, IdsPrefix, IdsType
    <2>3. InTurn(Ids(up'[transport]), Taken)
      BY <1>1, <2>2, InTurnPrefix DEF OrderInv, WiresInTurn
    <2>4. QED
      BY <1>3, <2>1, <2>3 DEF OrderInv, WiresInTurn
  <1>6. QED
    BY <1>3, <1>4, <1>5 DEF OrderInv

LEMMA HostInTurnStep ==
    ASSUME TypeInv, OrderInv
    PROVE  /\ \A t \in Transport : HostReads(t) => OrderInv'
           /\ \A r \in restoring : HostRestores(r) => OrderInv'
           /\ \A r \in subscribing : HostAnswers(r) => OrderInv'
  <1>1. ASSUME NEW t \in Transport, HostReads(t) PROVE OrderInv'
    <2>1. CASE HandleDispatch(t)
      BY <2>1, HandleDispatchInTurn
    <2>2. CASE HandleReconnect(t)
      <3>1. HostTakes(t, "reconnect") /\ UNCHANGED <<log, dispatchQueue, open, clientVars>>
        BY <2>2 DEF HandleReconnect
      <3>2. QED
        BY <3>1, HostTakesQuiet
    <2>3. CASE HandleSubscribe(t)
      <3>1. HostTakes(t, "subscribe") /\ UNCHANGED <<log, dispatchQueue, open, clientVars>>
        BY <2>3 DEF HandleSubscribe
      <3>2. QED
        BY <3>1, HostTakesQuiet
    <2>4. CASE HandleUnsubscribe(t)
      <3>1. HostTakes(t, "unsubscribe") /\ UNCHANGED <<log, dispatchQueue, open, clientVars>>
        BY <2>4 DEF HandleUnsubscribe
      <3>2. QED
        BY <3>1, HostTakesQuiet
    <2>5. CASE HostSeesClose(t)
      <3>1. UNCHANGED <<log, dispatchQueue, up, open, clientVars>>
        BY <2>5 DEF HostSeesClose, wireVars
      <3>2. QED
        BY <3>1, HostQuiet
    <2>6. QED
      BY <1>1, <2>1, <2>2, <2>3, <2>4, <2>5 DEF HostReads
  <1>2. ASSUME NEW r \in restoring, HostRestores(r) PROVE OrderInv'
    <2>1. UNCHANGED <<log, dispatchQueue, up, open, clientVars>>
      BY <1>2 DEF HostRestores, Restore, RestoreFails, Respond, wireVars
    <2>2. QED
      BY <2>1, HostQuiet
  <1>3. ASSUME NEW r \in subscribing, HostAnswers(r) PROVE OrderInv'
    <2>1. UNCHANGED <<log, dispatchQueue, up, open, clientVars>>
      BY <1>3 DEF HostAnswers, Subscribed, SubscribeFails
    <2>2. QED
      BY <2>1, HostQuiet
  <1>4. QED
    BY <1>1, <1>2, <1>3

LEMMA InTurnStep ==
    ASSUME TypeInv, OrderInv, [Next]_vars
    PROVE  OrderInv'
  <1>1. CASE \E c \in Channel : Dispatch(c) \/ Subscribe(c) \/ Release(c) \/ Act(c)
    BY <1>1, DispatchInTurn, SubscribeInTurn, ReleaseInTurn, ActInTurn
  <1>2. CASE ClientRuns
    BY <1>2, ReceiveActionInTurn, ReceiveReplayInTurn, ReceiveSnapshotsInTurn, AnswerInTurn,
       ClientSeesCloseInTurn, AttemptReconnectInTurn DEF ClientRuns
  <1>3. CASE \/ \E t \in Transport : HostReads(t)
             \/ \E r \in restoring : HostRestores(r)
             \/ \E r \in subscribing : HostAnswers(r)
    BY <1>3, HostInTurnStep
  <1>4. CASE RunDispatchQueue \/ Break
    BY <1>4, RunDispatchQueueInTurn, BreakInTurn
  <1>5. CASE UNCHANGED vars
    <2>1. UNCHANGED <<log, dispatchQueue, up, open, clientVars>>
      BY <1>5 DEF vars, hostVars, wireVars
    <2>2. QED
      BY <2>1, HostQuiet
  <1>6. QED
    BY <1>1, <1>2, <1>3, <1>4, <1>5 DEF Next

LEMMA OrderFollows == TypeInv /\ OrderInv => AppliedInOrder
  <1> SUFFICES ASSUME TypeInv, OrderInv,
                      NEW i \in 1 .. Len(dispatched), NEW j \in 1 .. Len(dispatched),
                      i < j, {i, j} \cap cleared = {}, NEW n \in 1 .. Len(log), log[n].own = j
               PROVE  \E m \in 1 .. n : log[m].own = i
    BY DEF AppliedInOrder
  <1>1. /\ Len(Owns) = Len(log) /\ Len(log) \in Nat /\ Len(dispatched) \in Nat
        /\ \A m \in 1 .. Len(log) : Owns[m] = log[m].own
    BY InTurnTypes, Lengths
  <1>2. n \in 1 .. Len(Owns) /\ i \in 1 .. (Owns[n] - 1) /\ i \notin cleared
    BY <1>1
  <1>3. PICK l \in 1 .. (n - 1) : Owns[l] = i
    BY <1>2 DEF OrderInv, HostInTurn, LogInTurn, InTurn
  <1>4. l \in 1 .. n /\ l \in 1 .. Len(log)
    BY <1>1
  <1>5. QED
    BY <1>1, <1>3, <1>4

\* The host applies the actions of a user in the order they were dispatched:
\* across the queue, the outbox, the replays and the transports left behind.
THEOREM InOrder == Spec => []AppliedInOrder
  <1>1. TypeInv /\ OrderInv /\ [Next]_vars => OrderInv'
    BY InTurnStep
  <1>2. QED
    BY InitInTurn, AlwaysTypeInv, <1>1, OrderFollows, PTL DEF Spec

=============================================================================
