------------------------ MODULE BufferedEmitterProofs ------------------------
(***************************************************************************)
(* Proofs about BufferedEmitter, for any number of events and listeners.   *)
(***************************************************************************)
EXTENDS BufferedEmitter, SequenceTheorems, TLAPS

All == delivered \o buffered

IInv == TypeOK /\ EachOnceInOrder /\ SomebodyWillDeliver

\* Typed sequences and how they join.
LEMMA AllIsTyped ==
    ASSUME TypeOK
    PROVE  /\ delivered \in Seq(Nat) /\ buffered \in Seq(Nat) /\ All \in Seq(Nat)
           /\ Len(delivered) \in Nat /\ Len(buffered) \in Nat
           /\ Len(All) = Len(delivered) + Len(buffered)
           /\ \A i \in 1 .. Len(delivered) : All[i] = delivered[i]
           /\ \A i \in 1 .. Len(buffered) : All[Len(delivered) + i] = buffered[i]
  <1>1. 1 .. fired \subseteq Nat
    BY DEF TypeOK
  <1>2. delivered \in Seq(Nat) /\ buffered \in Seq(Nat)
    BY <1>1, SeqMonotonic DEF TypeOK
  <1>3. Len(delivered) \in Nat /\ Len(buffered) \in Nat
    BY <1>2, LenProperties
  <1>4. /\ All \in Seq(Nat)
        /\ Len(All) = Len(delivered) + Len(buffered)
        /\ \A i \in 1 .. Len(delivered) + Len(buffered) :
              All[i] = IF i <= Len(delivered) THEN delivered[i] ELSE buffered[i - Len(delivered)]
    BY <1>2, ConcatProperties DEF All
  <1>5. \A i \in 1 .. Len(delivered) : All[i] = delivered[i]
    <2>1. \A i \in 1 .. Len(delivered) : /\ i \in 1 .. Len(delivered) + Len(buffered)
                                        /\ i <= Len(delivered)
      BY <1>3
    <2>2. QED
      BY <1>4, <2>1
  <1>6. ASSUME NEW i \in 1 .. Len(buffered)
        PROVE  All[Len(delivered) + i] = buffered[i]
    <2>1. /\ Len(delivered) + i \in 1 .. Len(delivered) + Len(buffered)
          /\ ~(Len(delivered) + i <= Len(delivered))
          /\ (Len(delivered) + i) - Len(delivered) = i
      BY <1>3
    <2>2. QED
      BY <1>4, <2>1
  <1>7. QED
    BY <1>2, <1>3, <1>4, <1>5, <1>6

\* One more event at the end of a sequence in order.
LEMMA OneMore ==
    ASSUME NEW s \in Seq(Nat), NEW n \in Nat, NEW gone,
           \A i, j \in 1 .. Len(s) : i < j => s[i] < s[j],
           Elements(s) \cup gone = 1 .. n
    PROVE  LET t == Append(s, n + 1) IN
             /\ \A i, j \in 1 .. Len(t) : i < j => t[i] < t[j]
             /\ Elements(t) \cup gone = 1 .. n + 1
  <1> DEFINE t == Append(s, n + 1)
  <1>1. /\ Len(s) \in Nat /\ Len(t) = Len(s) + 1
        /\ \A i \in 1 .. Len(s) : t[i] = s[i] /\ s[i] \in Nat
        /\ t[Len(s) + 1] = n + 1
    BY AppendProperties, LenProperties, ElementOfSeq
  <1>2. \A i \in 1 .. Len(s) : s[i] <= n
    <2>1. \A i \in 1 .. Len(s) : s[i] \in 1 .. n
      BY DEF Elements
    <2>2. QED
      BY <2>1
  <1> HIDE DEF t
  <1>3. ASSUME NEW i \in 1 .. Len(t), NEW j \in 1 .. Len(t), i < j
        PROVE  t[i] < t[j]
    <2>1. i \in 1 .. Len(s)
      BY <1>1, <1>3
    <2>2. CASE j = Len(s) + 1
      <3>1. t[i] = s[i] /\ s[i] \in Nat /\ s[i] <= n /\ t[j] = n + 1
        BY <1>1, <1>2, <2>1, <2>2
      <3>2. QED
        BY <3>1
    <2>3. CASE j # Len(s) + 1
      <3>1. j \in 1 .. Len(s)
        BY <1>1, <2>3
      <3>2. QED
        BY <1>1, <1>3, <2>1, <3>1
    <2>4. QED
      BY <2>2, <2>3
  <1>4. Elements(t) = Elements(s) \cup {n + 1}
    <2>1. ASSUME NEW x \in Elements(t)
          PROVE  x \in Elements(s) \cup {n + 1}
      <3>1. PICK i \in 1 .. Len(t) : x = t[i]
        BY DEF Elements
      <3>2. i \in 1 .. Len(s) \/ i = Len(s) + 1
        BY <1>1
      <3>3. QED
        BY <1>1, <3>1, <3>2 DEF Elements
    <2>2. ASSUME NEW i \in 1 .. Len(s)
          PROVE  s[i] \in Elements(t)
      <3>1. i \in 1 .. Len(t) /\ t[i] = s[i]
        BY <1>1
      <3>2. QED
        BY <3>1 DEF Elements
    <2>3. n + 1 \in Elements(t)
      <3>1. Len(s) + 1 \in 1 .. Len(t)
        BY <1>1
      <3>2. QED
        BY <1>1, <3>1 DEF Elements
    <2>4. QED
      BY <2>1, <2>2, <2>3 DEF Elements
  <1>5. Elements(t) \cup gone = 1 .. n + 1
    <2>1. (1 .. n) \cup {n + 1} = 1 .. n + 1
      OBVIOUS
    <2>2. QED
      BY <1>4, <2>1
  <1>6. QED
    BY <1>3, <1>5 DEF t

\* The initial state.
LEMMA InitIInv == Init => IInv
  <1> SUFFICES ASSUME Init PROVE IInv
    OBVIOUS
  <1>1. << >> \in Seq(1 .. fired) /\ Len(<< >>) = 0
    BY EmptySeq
  <1>2. delivered \o buffered = << >>
    BY ConcatEmptySeq, EmptySeq DEF Init
  <1>3. TypeOK /\ SomebodyWillDeliver
    BY <1>1 DEF Init, TypeOK, SomebodyWillDeliver
  <1>4. EachOnceInOrder
    BY <1>1, <1>2 DEF Init, EachOnceInOrder, Elements
  <1>5. QED
    BY <1>3, <1>4 DEF IInv
\* fire() adds the event at the end of all there is.
LEMMA FireStep ==
    ASSUME IInv, Fire
    PROVE  IInv'
  <1>1. /\ TypeOK /\ SomebodyWillDeliver /\ fired \in Nat
        /\ fired' = fired + 1 /\ fired' \in 1 .. fired'
        /\ UNCHANGED <<hasListeners, isDelivering, microtasks, flushed, arrivals>>
    <2>1. fired \in Nat
      BY DEF IInv, TypeOK
    <2>2. QED
      BY <2>1 DEF IInv, Fire
  <1>2. /\ delivered \in Seq(1 .. fired') /\ buffered \in Seq(1 .. fired')
        /\ flushed \subseteq 1 .. fired'
    <2>1. 1 .. fired \subseteq 1 .. fired'
      BY <1>1
    <2>2. QED
      BY <1>1, <2>1, SeqMonotonic DEF TypeOK
  <1>3. delivered' \in Seq(1 .. fired') /\ buffered' \in Seq(1 .. fired')
    <2>1. CASE hasListeners /\ buffered = << >>
      <3>1. delivered' = Append(delivered, fired') /\ buffered' = buffered
        BY <2>1 DEF Fire
      <3>2. Append(delivered, fired') \in Seq(1 .. fired')
        BY <1>1, <1>2, AppendProperties
      <3>3. QED
        BY <1>2, <3>1, <3>2
    <2>2. CASE ~(hasListeners /\ buffered = << >>)
      <3>1. delivered' = delivered /\ buffered' = Append(buffered, fired')
        BY <2>2 DEF Fire
      <3>2. Append(buffered, fired') \in Seq(1 .. fired')
        BY <1>1, <1>2, AppendProperties
      <3>3. QED
        BY <1>2, <3>1, <3>2
    <2>3. QED
      BY <2>1, <2>2
  <1>4. TypeOK'
    BY <1>1, <1>2, <1>3 DEF TypeOK
  <1>5. SomebodyWillDeliver'
    BY <1>1 DEF Fire, SomebodyWillDeliver
  <1>6. delivered' \o buffered' = Append(All, fired + 1)
    <2>1. /\ delivered \in Seq(Nat) /\ buffered \in Seq(Nat) /\ All \in Seq(Nat)
          /\ <<fired + 1>> \in Seq(Nat)
      BY <1>1, AllIsTyped
    <2>2. CASE hasListeners /\ buffered = << >>
      <3>1. delivered' = Append(delivered, fired + 1) /\ buffered' = << >>
        BY <1>1, <2>2 DEF Fire
      <3>2. delivered' \in Seq(Nat)
        BY <1>1, <2>1, <3>1, AppendProperties
      <3>3. delivered' \o buffered' = delivered' /\ All = delivered
        BY <2>1, <2>2, <3>1, <3>2, ConcatEmptySeq DEF All
      <3>4. QED
        BY <3>1, <3>3
    <2>3. CASE ~(hasListeners /\ buffered = << >>)
      <3>1. delivered' = delivered /\ buffered' = Append(buffered, fired + 1)
        BY <1>1, <2>3 DEF Fire
      <3>2. Append(buffered, fired + 1) = buffered \o <<fired + 1>>
        BY <1>1, <2>1, AppendIsConcat
      <3>3. Append(All, fired + 1) = All \o <<fired + 1>>
        BY <1>1, <2>1, AppendIsConcat
      <3>4. delivered \o (buffered \o <<fired + 1>>) = (delivered \o buffered) \o <<fired + 1>>
        BY <2>1, ConcatAssociative
      <3>5. QED
        BY <3>1, <3>2, <3>3, <3>4 DEF All
    <2>4. QED
      BY <2>2, <2>3
  <1>7. EachOnceInOrder'
    <2>1. /\ \A i, j \in 1 .. Len(All) : i < j => All[i] < All[j]
          /\ Elements(All) \cup flushed = 1 .. fired
          /\ All \in Seq(Nat)
      BY AllIsTyped DEF IInv, EachOnceInOrder, All
    <2> DEFINE t == Append(All, fired + 1)
    <2>2. /\ \A i, j \in 1 .. Len(t) : i < j => t[i] < t[j]
          /\ Elements(t) \cup flushed = 1 .. fired + 1
      BY <1>1, <2>1, OneMore
    <2> HIDE DEF t
    <2>3. delivered' \o buffered' = t
      BY <1>6 DEF t
    <2>4. Elements(delivered \o buffered)' = Elements(t)
      BY <2>3 DEF Elements
    <2>5. QED
      BY <1>1, <2>2, <2>3, <2>4 DEF EachOnceInOrder
  <1>8. QED
    BY <1>4, <1>5, <1>7 DEF IInv

LEMMA HeadThenTail ==
    ASSUME NEW S, NEW s \in Seq(S), s # << >>
    PROVE  s = <<Head(s)>> \o Tail(s)
  <1> DEFINE h == <<Head(s)>>
             r == Tail(s)
             t == h \o r
  <1>1. /\ h \in Seq(S) /\ Len(h) = 1 /\ h[1] = s[1]
        /\ r \in Seq(S) /\ Len(r) = Len(s) - 1
        /\ \A i \in 1 .. Len(r) : r[i] = s[i + 1]
    <2>1. Head(s) \in S /\ Head(s) = s[1]
      BY HeadTailProperties
    <2>2. QED
      BY <2>1, HeadTailProperties
  <1>2. Len(s) \in Nat /\ Len(s) > 0
    BY LenProperties, EmptySeq
  <1> HIDE DEF h, r
  <1>3. /\ t \in Seq(S)
        /\ Len(t) = Len(h) + Len(r)
        /\ \A i \in 1 .. Len(h) + Len(r) :
              t[i] = IF i <= Len(h) THEN h[i] ELSE r[i - Len(h)]
    <2>1. h \in Seq(S) /\ r \in Seq(S)
      BY <1>1
    <2>2. QED
      BY <2>1, ConcatProperties
  <1> HIDE DEF t
  <1>4. Len(t) = Len(s)
    BY <1>1, <1>2, <1>3
  <1>5. ASSUME NEW i \in 1 .. Len(s)
        PROVE  s[i] = t[i]
    <2>1. CASE i = 1
      BY <1>1, <1>2, <1>3, <2>1
    <2>2. CASE i # 1
      <3> DEFINE n == Len(s)
      <3>1. n \in Nat /\ Len(r) = n - 1 /\ Len(h) = 1 /\ i \in 1 .. n
        BY <1>1, <1>2
      <3> HIDE DEF n
      <3>2. i - 1 \in 1 .. n - 1 /\ (i - 1) + 1 = i /\ ~(i <= 1) /\ i \in 1 .. 1 + (n - 1)
        BY <2>2, <3>1
      <3>3. t[i] = r[i - 1]
        BY <1>3, <3>1, <3>2
      <3>4. QED
        BY <1>1, <3>1, <3>2, <3>3
    <2>3. QED
      BY <2>1, <2>2
  <1>6. s = t
    BY <1>3, <1>4, <1>5, SeqEqual
  <1>7. QED
    BY <1>6 DEF t, h, r

\* A delivery moves the border between the delivered and the buffered.
LEMMA DeliverStep ==
    ASSUME IInv, DeliverNext
    PROVE  IInv'
  <1>1. /\ TypeOK /\ buffered # << >>
        /\ delivered' = Append(delivered, Head(buffered)) /\ buffered' = Tail(buffered)
        /\ UNCHANGED <<hasListeners, isDelivering, microtasks, fired, flushed, arrivals>>
    BY DEF IInv, DeliverNext
  <1>2. /\ delivered \in Seq(1 .. fired) /\ buffered \in Seq(1 .. fired)
    BY <1>1 DEF TypeOK
  <1>3. /\ Head(buffered) \in 1 .. fired
        /\ Tail(buffered) \in Seq(1 .. fired)
        /\ buffered = <<Head(buffered)>> \o Tail(buffered)
    BY <1>1, <1>2, HeadThenTail, HeadTailProperties
  <1>4. delivered' \in Seq(1 .. fired) /\ buffered' \in Seq(1 .. fired)
    BY <1>1, <1>2, <1>3, AppendProperties
  <1>5. TypeOK'
    BY <1>1, <1>4 DEF TypeOK
  <1>6. delivered' \o buffered' = delivered \o buffered
    <2>1. Append(delivered, Head(buffered)) = delivered \o <<Head(buffered)>>
      BY <1>2, <1>3, AppendIsConcat
    <2>2. <<Head(buffered)>> \in Seq(1 .. fired)
      BY <1>3
    <2>3. (delivered \o <<Head(buffered)>>) \o Tail(buffered)
             = delivered \o (<<Head(buffered)>> \o Tail(buffered))
      BY <1>2, <1>3, <2>2, ConcatAssociative
    <2>4. QED
      BY <1>1, <1>3, <2>1, <2>3
  <1>7. EachOnceInOrder'
    BY <1>1, <1>6 DEF IInv, EachOnceInOrder, Elements
  <1>8. SomebodyWillDeliver'
    BY <1>1 DEF DeliverNext, SomebodyWillDeliver
  <1>9. QED
    BY <1>5, <1>7, <1>8 DEF IInv

\* What is flushed leaves the end of all there is.
LEMMA FlushStep ==
    ASSUME IInv, FlushBuffer
    PROVE  IInv'
  <1>1. /\ TypeOK /\ buffered' = << >> /\ flushed' = flushed \cup Elements(buffered)
        /\ UNCHANGED <<hasListeners, isDelivering, microtasks, fired, delivered, arrivals>>
    BY DEF IInv, FlushBuffer
  <1>2. /\ delivered \in Seq(Nat) /\ buffered \in Seq(Nat) /\ All \in Seq(Nat)
        /\ Len(delivered) \in Nat /\ Len(buffered) \in Nat
        /\ Len(All) = Len(delivered) + Len(buffered)
        /\ \A i \in 1 .. Len(delivered) : All[i] = delivered[i]
        /\ \A i \in 1 .. Len(buffered) : All[Len(delivered) + i] = buffered[i]
    BY <1>1, AllIsTyped
  <1>3. TypeOK'
    <2>1. Elements(buffered) \subseteq 1 .. fired
      BY <1>1, ElementOfSeq DEF TypeOK, Elements
    <2>2. QED
      BY <1>1, <2>1, EmptySeq DEF TypeOK
  <1>4. SomebodyWillDeliver'
    BY <1>1 DEF SomebodyWillDeliver
  <1>5. delivered' \o buffered' = delivered
    BY <1>1, <1>2, ConcatEmptySeq
  <1>6. Elements(All) = Elements(delivered) \cup Elements(buffered)
    <2>1. ASSUME NEW i \in 1 .. Len(All)
          PROVE  All[i] \in Elements(delivered) \cup Elements(buffered)
      <3>1. CASE i <= Len(delivered)
        <4>1. i \in 1 .. Len(delivered)
          BY <1>2, <3>1
        <4>2. QED
          BY <1>2, <4>1 DEF Elements
      <3>2. CASE ~(i <= Len(delivered))
        <4> DEFINE k == i - Len(delivered)
        <4>1. k \in 1 .. Len(buffered) /\ Len(delivered) + k = i
          BY <1>2, <3>2
        <4>2. All[i] = buffered[k]
          BY <1>2, <4>1
        <4>3. QED
          BY <4>1, <4>2 DEF Elements
      <3>3. QED
        BY <3>1, <3>2
    <2>2. \A i \in 1 .. Len(delivered) : i \in 1 .. Len(All)
      BY <1>2
    <2>3. \A i \in 1 .. Len(buffered) : Len(delivered) + i \in 1 .. Len(All)
      BY <1>2
    <2>4. Elements(All) \subseteq Elements(delivered) \cup Elements(buffered)
      BY <2>1 DEF Elements
    <2>5. Elements(delivered) \subseteq Elements(All)
      BY <1>2, <2>2 DEF Elements
    <2>6. Elements(buffered) \subseteq Elements(All)
      <3>1. ASSUME NEW i \in 1 .. Len(buffered)
            PROVE  buffered[i] \in Elements(All)
        BY <1>2, <2>3 DEF Elements
      <3>2. QED
        BY <3>1 DEF Elements
    <2>7. QED
      BY <2>4, <2>5, <2>6
  <1>7. EachOnceInOrder'
    <2>1. /\ \A i, j \in 1 .. Len(All) : i < j => All[i] < All[j]
          /\ Elements(All) \cup flushed = 1 .. fired
      BY DEF IInv, EachOnceInOrder, All
    <2>2. Elements(delivered) \cup flushed' = 1 .. fired
      BY <1>1, <1>6, <2>1
    <2>3. \A i, j \in 1 .. Len(delivered) : i < j => delivered[i] < delivered[j]
      <3>1. \A i \in 1 .. Len(delivered) : i \in 1 .. Len(All)
        BY <1>2
      <3>2. QED
        BY <1>2, <2>1, <3>1
    <2>4. Elements(delivered \o buffered)' = Elements(delivered)
      BY <1>5 DEF Elements
    <2>5. QED
      BY <1>1, <1>5, <2>2, <2>3, <2>4 DEF EachOnceInOrder
  <1>8. QED
    BY <1>3, <1>4, <1>7 DEF IInv

\* The other steps leave the events where they are.
LEMMA ListenerStep ==
    ASSUME IInv,
           \/ AddFirstListener \/ RemoveLastListener \/ StartDelivering
           \/ StopDelivering \/ UNCHANGED vars
    PROVE  IInv'
  <1>1. UNCHANGED <<buffered, delivered, fired, flushed>>
    BY DEF AddFirstListener, RemoveLastListener, StartDelivering, StopDelivering, vars
  <1>2. EachOnceInOrder'
    BY <1>1 DEF IInv, EachOnceInOrder, Elements
  <1>3. TypeOK'
    <2>1. /\ microtasks \in Nat /\ arrivals \in Nat
          /\ microtasks + 1 \in Nat /\ arrivals + 1 \in Nat
          /\ microtasks > 0 => microtasks - 1 \in Nat
      <3>1. microtasks \in Nat /\ arrivals \in Nat
        BY DEF IInv, TypeOK
      <3>2. QED
        BY <3>1
    <2>2. /\ hasListeners' \in BOOLEAN /\ isDelivering' \in BOOLEAN
          /\ microtasks' \in Nat /\ arrivals' \in Nat
      BY <2>1 DEF IInv, TypeOK, AddFirstListener, RemoveLastListener, StartDelivering,
                  StopDelivering, vars
    <2>3. QED
      BY <1>1, <2>2 DEF IInv, TypeOK
  <1>4. SomebodyWillDeliver'
    <2>1. CASE AddFirstListener
      <3>1. microtasks' > 0
        <4>1. microtasks \in Nat /\ microtasks' = microtasks + 1
          BY <2>1 DEF IInv, TypeOK, AddFirstListener
        <4>2. QED
          BY <4>1
      <3>2. QED
        BY <3>1 DEF SomebodyWillDeliver
    <2>2. CASE RemoveLastListener \/ StartDelivering \/ StopDelivering
      BY <1>1, <2>2 DEF SomebodyWillDeliver, RemoveLastListener, StartDelivering,
                        StopDelivering
    <2>3. CASE UNCHANGED vars
      BY <2>3 DEF IInv, SomebodyWillDeliver, vars
    <2>4. QED
      BY <2>1, <2>2, <2>3
  <1>5. QED
    BY <1>2, <1>3, <1>4 DEF IInv

LEMMA AlwaysIInv == Spec => []IInv
  <1>1. IInv /\ [Next]_vars => IInv'
    BY FireStep, DeliverStep, FlushStep, ListenerStep DEF Next, DeliverMessages
  <1>2. QED
    BY <1>1, InitIInv, PTL DEF Spec

\* The state keeps its types: events are numbered as they are fired, and no more
\* deliveries run or wait than were asked for.
THEOREM TypeCorrect == Spec => []TypeOK
  <1>1. IInv => TypeOK
    BY DEF IInv
  <1>2. QED
    BY <1>1, AlwaysIInv, PTL

\* Nothing that is fired is lost, repeated or overtaken, whoever listens when.
THEOREM Ordered == Spec => []EachOnceInOrder
  <1>1. IInv => EachOnceInOrder
    BY DEF IInv
  <1>2. QED
    BY <1>1, AlwaysIInv, PTL

\* No event is left in the buffer of a listener without a delivery to come.
THEOREM NothingForgotten == Spec => []SomebodyWillDeliver
  <1>1. IInv => SomebodyWillDeliver
    BY DEF IInv
  <1>2. QED
    BY <1>1, AlwaysIInv, PTL
=============================================================================
