------------------------- MODULE EventBrokerProofs -------------------------
(***************************************************************************)
(* What holds of EventBroker for every number of publishers and clients,   *)
(* every history and channel length and any number of events.              *)
(***************************************************************************)
EXTENDS EventBroker, SequenceTheorems, TLAPS

\* What a client got and will get from its channel, in that order.
Received(c) == live[c] \o chan[c]

\* A publisher that is between the two halves of Publish appended the event
\* itself, and has sent nothing newer before.
SendsInOrder ==
  /\ \A p \in Publishers : sending[p] # 0 => by[sending[p]] = p
  /\ \A c \in Clients : \A i \in DOMAIN Received(c) :
       LET n == Received(c)[i] IN sending[by[n]] # 0 => n < sending[by[n]]

\* The inductive invariant.
IInv ==
  /\ TypeOK /\ HistoryIsNewest /\ NoGap /\ SendsInOrder /\ PublisherOrder

-----------------------------------------------------------------------------
(* Sequences.                                                              *)

\* The elements of a sequence with one more at its end.
LEMMA ElemsAppend ==
  ASSUME NEW S, NEW s \in Seq(S), NEW e \in S
  PROVE  Elems(Append(s, e)) = Elems(s) \cup {e}
<1> DEFINE a == Append(s, e)
<1>1. /\ a \in Seq(S) /\ Len(a) = Len(s) + 1 /\ Len(s) \in Nat
      /\ \A i \in 1..Len(s) : a[i] = s[i]
      /\ a[Len(s) + 1] = e
  BY AppendProperties, LenProperties
<1>2. DOMAIN a = 1..(Len(s) + 1) /\ DOMAIN s = 1..Len(s)
  BY <1>1, LenProperties
<1> HIDE DEF a
<1>3. Elems(a) = Elems(s) \cup {e}
  BY <1>1, <1>2 DEF Elems
<1> QED BY <1>3 DEF a

\* The elements of a sequence are its head and those of its tail.
LEMMA ElemsHeadTail ==
  ASSUME NEW S, NEW s \in Seq(S), s # <<>>
  PROVE  Elems(s) = {Head(s)} \cup Elems(Tail(s)) /\ Head(s) \in S /\ Tail(s) \in Seq(S)
<1>1. /\ Head(s) \in S /\ Tail(s) \in Seq(S) /\ Len(s) \in Nat \ {0}
      /\ Len(Tail(s)) = Len(s) - 1 /\ Head(s) = s[1]
      /\ \A i \in 1..(Len(s) - 1) : Tail(s)[i] = s[i + 1]
  BY HeadTailProperties, EmptySeq
<1>2. DOMAIN s = 1..Len(s) /\ DOMAIN Tail(s) = 1..(Len(s) - 1)
  BY <1>1, LenProperties
<1>3. ASSUME NEW i \in DOMAIN s PROVE s[i] \in {Head(s)} \cup Elems(Tail(s))
  <2>1. i = 1 \/ (i - 1 \in DOMAIN Tail(s) /\ Tail(s)[i - 1] = s[i])
    BY <1>1, <1>2
  <2> QED BY <1>1, <2>1 DEF Elems
<1>4. ASSUME NEW i \in DOMAIN Tail(s) PROVE Tail(s)[i] \in Elems(s)
  <2>1. i + 1 \in DOMAIN s /\ Tail(s)[i] = s[i + 1]
    BY <1>1, <1>2
  <2> QED BY <2>1 DEF Elems
<1>5. Head(s) \in Elems(s)
  BY <1>1, <1>2 DEF Elems
<1> QED BY <1>1, <1>3, <1>4, <1>5 DEF Elems

\* Forwarding moves an event from the channel to the connection.
LEMMA ForwardKeeps ==
  ASSUME NEW S, NEW s \in Seq(S), NEW t \in Seq(S), t # <<>>
  PROVE  Append(s, Head(t)) \o Tail(t) = s \o t
<1>1. /\ Head(t) \in S /\ Tail(t) \in Seq(S) /\ Len(t) \in Nat \ {0}
      /\ Len(Tail(t)) = Len(t) - 1 /\ Head(t) = t[1]
      /\ \A i \in 1..(Len(t) - 1) : Tail(t)[i] = t[i + 1]
  BY HeadTailProperties, EmptySeq
<1> DEFINE u == Append(s, Head(t))
<1>2. /\ u \in Seq(S) /\ Len(u) = Len(s) + 1 /\ Len(s) \in Nat
      /\ \A i \in 1..Len(s) : u[i] = s[i]
      /\ u[Len(s) + 1] = Head(t)
  BY <1>1, AppendProperties, LenProperties
<1>3. /\ u \o Tail(t) \in Seq(S) /\ Len(u \o Tail(t)) = Len(s) + Len(t)
      /\ \A i \in 1..(Len(s) + Len(t)) :
           (u \o Tail(t))[i] = IF i <= Len(s) + 1 THEN u[i] ELSE Tail(t)[i - (Len(s) + 1)]
  <2> HIDE DEF u
  <2> DEFINE v == Tail(t)
  <2>1. u \in Seq(S) /\ v \in Seq(S)
    BY <1>1, <1>2
  <2>2. /\ u \o v \in Seq(S) /\ Len(u \o v) = Len(u) + Len(v)
        /\ \A i \in 1..(Len(u) + Len(v)) :
             (u \o v)[i] = IF i <= Len(u) THEN u[i] ELSE v[i - Len(u)]
    <3> HIDE DEF v
    <3> QED BY <2>1, ConcatProperties, Zenon
  <2>3. Len(u) = Len(s) + 1 /\ Len(u) + Len(v) = Len(s) + Len(t)
    BY <1>1, <1>2
  <2> HIDE DEF v
  <2>4. /\ u \o v \in Seq(S) /\ Len(u \o v) = Len(s) + Len(t)
        /\ \A i \in 1..(Len(s) + Len(t)) :
             (u \o v)[i] = IF i <= Len(s) + 1 THEN u[i] ELSE v[i - (Len(s) + 1)]
    BY <2>2, <2>3, Zenon
  <2> QED BY <2>4, Zenon DEF v
<1>4. /\ s \o t \in Seq(S) /\ Len(s \o t) = Len(s) + Len(t)
      /\ \A i \in 1..(Len(s) + Len(t)) :
           (s \o t)[i] = IF i <= Len(s) THEN s[i] ELSE t[i - Len(s)]
  BY ConcatProperties
<1>5. \A i \in 1..(Len(s) + Len(t)) : (u \o Tail(t))[i] = (s \o t)[i]
  <2> HIDE DEF u
  <2> QED BY <1>1, <1>2, <1>3, <1>4
<1> HIDE DEF u
<1>6. u \o Tail(t) = s \o t
  BY <1>3, <1>4, <1>5, SeqEqual
<1> QED BY <1>6 DEF u

\* What Publish keeps of a history that is the newest events, with one more.
LEMMA TrimmedIsNewest ==
  ASSUME TypeOK, HistoryIsNewest
  PROVE  LET h == Trimmed(Append(history, last + 1)) IN
         /\ h \in Seq(1..(last + 1))
         /\ Len(h) = IF last + 1 < MaxHist THEN last + 1 ELSE MaxHist
         /\ \A i \in DOMAIN h : h[i] = last + 1 - Len(h) + i
<1> DEFINE a == Append(history, last + 1)
<1>1. last \in Nat /\ history \in Seq(1..(last + 1)) /\ last + 1 \in 1..(last + 1)
  <2>1. last \in Nat /\ Event \subseteq 1..(last + 1)
    BY BrokerAssumption DEF TypeOK, Event
  <2>2. history \in Seq(Event)
    BY DEF TypeOK
  <2>3. history \in Seq(1..(last + 1))
    BY <2>1, <2>2, SeqMonotonic, Zenon
  <2> QED BY <2>1, <2>3
<1>2. /\ a \in Seq(1..(last + 1)) /\ Len(a) = Len(history) + 1 /\ Len(history) \in Nat
      /\ \A i \in 1..Len(history) : a[i] = history[i]
      /\ a[Len(history) + 1] = last + 1
  BY <1>1, AppendProperties, LenProperties
<1>3. \A i \in 1..Len(a) : a[i] = last + 1 - Len(a) + i
  <2>1. \A i \in 1..Len(history) : history[i] = last - Len(history) + i
    <3>1. DOMAIN history = 1..Len(history)
      BY <1>1, LenProperties
    <3> QED BY <3>1 DEF HistoryIsNewest
  <2> HIDE DEF a
  <2>2. \A i \in 1..Len(a) : i \in 1..Len(history) \/ i = Len(history) + 1
    BY <1>2
  <2>3. \A i \in 1..Len(history) : a[i] = last + 1 - Len(a) + i
    BY <1>1, <1>2, <2>1
  <2>4. a[Len(history) + 1] = last + 1 - Len(a) + (Len(history) + 1)
    BY <1>1, <1>2
  <2> QED BY <2>2, <2>3, <2>4
<1>4. Len(a) = IF last < MaxHist THEN last + 1 ELSE MaxHist + 1
  BY <1>1, <1>2, BrokerAssumption DEF HistoryIsNewest
<1> HIDE DEF a
<1>5. CASE Len(a) > MaxHist
  <2> DEFINE h == SubSeq(a, Len(a) - MaxHist + 1, Len(a))
  <2>1. Len(a) = MaxHist + 1
    BY <1>1, <1>4, <1>5, BrokerAssumption
  <2>2. \A i \in 2..(MaxHist + 1) : a[i] \in 1..(last + 1)
    <3>1. a \in [1..Len(a) -> 1..(last + 1)]
      BY <1>2, LenProperties
    <3> QED BY <2>1, <3>1, BrokerAssumption
  <2>3. /\ h \in Seq(1..(last + 1)) /\ Len(h) = MaxHist
        /\ \A i \in 1..MaxHist : h[i] = a[i + 1]
    <3>1. h = SubSeq(a, 2, MaxHist + 1)
      BY <2>1, BrokerAssumption
    <3>2. /\ SubSeq(a, 2, MaxHist + 1) \in Seq(1..(last + 1))
          /\ Len(SubSeq(a, 2, MaxHist + 1)) = MaxHist
          /\ \A i \in 1..MaxHist : SubSeq(a, 2, MaxHist + 1)[i] = a[i + 1]
      BY <2>2, BrokerAssumption, SubSeqProperties
    <3> QED BY <3>1, <3>2
  <2>4. DOMAIN h = 1..MaxHist
    BY <2>3, LenProperties
  <2>5. \A i \in DOMAIN h : h[i] = last + 1 - Len(h) + i
    BY <1>1, <1>3, <2>1, <2>3, <2>4, BrokerAssumption, SMTT(60)
  <2>6. last >= MaxHist
    BY <1>1, <1>4, <1>5, BrokerAssumption
  <2>7. Trimmed(a) = h
    BY <1>5 DEF Trimmed
  <2> HIDE DEF h
  <2>8. Len(h) = IF last + 1 < MaxHist THEN last + 1 ELSE MaxHist
    BY <1>1, <2>3, <2>6, BrokerAssumption
  <2> QED BY <2>3, <2>5, <2>7, <2>8 DEF a
<1>6. CASE ~(Len(a) > MaxHist)
  <2>1. Trimmed(a) = a
    BY <1>6 DEF Trimmed
  <2>2. Len(a) = IF last + 1 < MaxHist THEN last + 1 ELSE MaxHist
    BY <1>1, <1>4, <1>6, BrokerAssumption
  <2>3. DOMAIN a = 1..Len(a)
    BY <1>2, LenProperties
  <2> QED BY <1>2, <1>3, <2>1, <2>2, <2>3 DEF a
<1> QED BY <1>5, <1>6

-----------------------------------------------------------------------------
(* Types.                                                                  *)

\* A broker without clients and events satisfies the invariant.
LEMMA InitIInv == Init => IInv
<1> SUFFICES ASSUME Init PROVE IInv
  OBVIOUS
<1> USE BrokerAssumption DEF Init
<1>1. \A S : <<>> \in Seq(S) /\ Len(<<>>) = 0 /\ DOMAIN <<>> = {}
  BY EmptySeq
<1>2. TypeOK
  <2>1. by \in [Event -> Publishers]
    BY DEF Event
  <2> QED BY <1>1, <2>1 DEF TypeOK
<1>3. HistoryIsNewest
  BY <1>1 DEF HistoryIsNewest
<1>4. NoGap
  BY DEF NoGap
<1>5. \A c \in Clients : Received(c) = <<>> /\ DOMAIN Received(c) = {}
  BY <1>1, ConcatEmptySeq DEF Received
<1>6. SendsInOrder /\ PublisherOrder
  BY <1>5 DEF SendsInOrder, PublisherOrder, Received
<1> QED BY <1>2, <1>3, <1>4, <1>6 DEF IInv

\* The first half of Publish keeps the types.
LEMMA RecordType == ASSUME TypeOK, HistoryIsNewest, NEW p \in Publishers, Record(p)
                    PROVE  TypeOK'
<1> USE BrokerAssumption DEF Record, Event
<1>1. last \in Nat /\ last' = last + 1 /\ last' \in 0..MaxEvents
  BY DEF TypeOK
<1>2. Event \subseteq Event' /\ Event' = 1..(last + 1)
  BY <1>1
<1>3. Seq(Event) \subseteq Seq(Event')
  BY <1>2, SeqMonotonic
<1>4. history' \in Seq(Event') /\ Len(history') <= MaxHist
  <2> DEFINE h == Trimmed(Append(history, last + 1))
  <2>1. h \in Seq(1..(last + 1)) /\ Len(h) = IF last + 1 < MaxHist THEN last + 1 ELSE MaxHist
    BY TrimmedIsNewest
  <2>2. history' = h
    OBVIOUS
  <2> HIDE DEF h
  <2> QED BY <1>1, <1>2, <2>1, <2>2
<1>5. by' \in [Event' -> Publishers]
  BY <1>1, <1>2 DEF TypeOK
<1>6. sending' \in [Publishers -> 0..last']
  BY <1>1 DEF TypeOK
<1>7. UNCHANGED <<open, chan, pc, replay, first, replayed, live, lost, server>>
  BY DEF conn
<1>8. /\ chan' \in [Clients -> Seq(Event')] /\ replay' \in [Clients -> Seq(Event')]
      /\ replayed' \in [Clients -> Seq(Event')] /\ live' \in [Clients -> Seq(Event')]
  <2> HIDE DEF Record, Event
  <2> QED BY <1>3, <1>7 DEF TypeOK
<1>9. lost' \in [Clients -> SUBSET Event']
  <2> HIDE DEF Record, Event
  <2> QED BY <1>2, <1>7 DEF TypeOK
<1> HIDE DEF Record, Event
<1> QED BY <1>1, <1>4, <1>5, <1>6, <1>7, <1>8, <1>9 DEF TypeOK

\* The second half of Publish keeps the types.
LEMMA SendType == ASSUME TypeOK, NEW p \in Publishers, Send(p) PROVE TypeOK'
<1> USE BrokerAssumption
<1>1. UNCHANGED <<last, by, history, open, pc, replay, first, replayed, live, server>>
  BY DEF Send, conn
<1>2. sending[p] \in Event /\ Event' = Event
  BY <1>1 DEF TypeOK, Event, Send
<1>3. sending' \in [Publishers -> 0..last]
  BY DEF TypeOK, Send, SentOnce
<1>4. ASSUME NEW c \in Clients
      PROVE  /\ Append(chan[c], sending[p]) \in Seq(Event)
             /\ ~Full(c) => Len(Append(chan[c], sending[p])) <= Buffer
             /\ Len(chan[c]) <= Buffer
  BY <1>2, AppendProperties, LenProperties DEF TypeOK, Full
<1>5. chan' \in [Clients -> Seq(Event)] /\ \A c \in Clients : Len(chan'[c]) <= Buffer
  BY <1>4 DEF TypeOK, Send
<1>6. lost' \in [Clients -> SUBSET Event]
  BY <1>2 DEF TypeOK, Send
<1> QED BY <1>1, <1>2, <1>3, <1>5, <1>6 DEF TypeOK, Event

\* Every step of a stream keeps the types.
LEMMA ClientType ==
  ASSUME TypeOK, NEW c \in Clients,
         \/ Connect(c) \/ Subscribe(c) \/ CopyHistory(c) \/ Replay(c) \/ ReplayEnds(c)
         \/ Forward(c) \/ Leaves(c)
  PROVE  TypeOK'
<1> USE BrokerAssumption
<1>0. <<>> \in Seq(Event) /\ Len(<<>>) = 0
  BY EmptySeq
<1>1. CASE Connect(c)
  BY <1>1 DEF TypeOK, Connect, Event
<1>2. CASE Subscribe(c)
  <2>1. /\ chan' \in [Clients -> Seq(Event)] /\ replayed' \in [Clients -> Seq(Event)]
        /\ live' \in [Clients -> Seq(Event)] /\ lost' \in [Clients -> SUBSET Event]
        /\ \A b \in Clients : Len(chan'[b]) <= Buffer
    BY <1>0, <1>2 DEF TypeOK, Subscribe
  <2>2. UNCHANGED <<last, by, history, sending, replay, first, server>> /\ Event' = Event
    BY <1>2 DEF Subscribe, Event
  <2>3. /\ open' \subseteq Clients
        /\ pc' \in [Clients -> {"off", "connected", "subscribed", "replay", "stream"}]
    BY <1>2 DEF TypeOK, Subscribe
  <2> QED BY <2>1, <2>2, <2>3 DEF TypeOK
<1>3. CASE CopyHistory(c)
  <2>1. first' \in [Clients -> Nat \ {0}]
    <3>1. history # <<>> => Head(history) \in Event
      BY HeadTailProperties DEF TypeOK
    <3>2. last + 1 \in Nat \ {0} /\ Event \subseteq Nat \ {0}
      BY DEF TypeOK, Event
    <3> QED BY <1>3, <3>1, <3>2 DEF TypeOK, CopyHistory
  <2>2. replay' \in [Clients -> Seq(Event)]
    BY <1>3 DEF TypeOK, CopyHistory
  <2> QED BY <1>3, <2>1, <2>2 DEF TypeOK, CopyHistory, Event
<1>4. CASE Replay(c)
  <2>1. Head(replay[c]) \in Event /\ Tail(replay[c]) \in Seq(Event)
    BY <1>4, HeadTailProperties DEF TypeOK, Replay
  <2>2. Append(replayed[c], Head(replay[c])) \in Seq(Event)
    BY <2>1, AppendProperties DEF TypeOK
  <2>3. replay' \in [Clients -> Seq(Event)] /\ replayed' \in [Clients -> Seq(Event)]
    BY <1>4, <2>1, <2>2 DEF TypeOK, Replay
  <2> QED BY <1>4, <2>3 DEF TypeOK, Replay, Event
<1>5. CASE ReplayEnds(c)
  BY <1>5 DEF TypeOK, ReplayEnds, Event
<1>6. CASE Forward(c)
  <2>1. /\ Head(chan[c]) \in Event /\ Tail(chan[c]) \in Seq(Event)
        /\ Len(Tail(chan[c])) = Len(chan[c]) - 1 /\ Len(chan[c]) \in Nat
    BY <1>6, HeadTailProperties, LenProperties DEF TypeOK, Forward
  <2>2. Append(live[c], Head(chan[c])) \in Seq(Event)
    BY <2>1, AppendProperties DEF TypeOK
  <2>3. /\ chan' \in [Clients -> Seq(Event)] /\ live' \in [Clients -> Seq(Event)]
        /\ \A b \in Clients : Len(chan'[b]) <= Buffer
    BY <1>6, <2>1, <2>2, SMTT(60) DEF TypeOK, Forward
  <2> QED BY <1>6, <2>3 DEF TypeOK, Forward, Event
<1>7. CASE Leaves(c)
  <2>1. /\ chan' \in [Clients -> Seq(Event)] /\ replay' \in [Clients -> Seq(Event)]
        /\ \A b \in Clients : Len(chan'[b]) <= Buffer
    BY <1>0, <1>7 DEF TypeOK, Leaves
  <2> QED BY <1>7, <2>1 DEF TypeOK, Leaves, Event
<1> QED BY <1>1, <1>2, <1>3, <1>4, <1>5, <1>6, <1>7

\* The steps of one client; what ends its handler is Leaves.
ClientStep(c) ==
  \/ Connect(c) \/ Subscribe(c) \/ CopyHistory(c) \/ Replay(c) \/ ReplayEnds(c)
  \/ Forward(c) \/ Leaves(c)

\* The steps of the shutdown, and those that change nothing.
ShutdownStep == Close \/ Drain \/ ShutdownReturns \/ DeadlinePasses \/ UNCHANGED vars

\* Whose step a step is.
LEMMA NextSplits ==
  [Next]_vars => \/ \E p \in Publishers : Record(p) \/ Send(p)
                 \/ \E c \in Clients : ClientStep(c)
                 \/ ShutdownStep
BY DEF Next, Leave, StreamEnds, ClientStep, ShutdownStep

\* Every step keeps the types.
LEMMA TypeStep == TypeOK /\ HistoryIsNewest /\ [Next]_vars => TypeOK'
<1> SUFFICES ASSUME TypeOK, HistoryIsNewest, [Next]_vars PROVE TypeOK'
  OBVIOUS
<1>1. CASE ShutdownStep
  BY <1>1, BrokerAssumption
     DEF ShutdownStep, TypeOK, Close, Drain, ShutdownReturns, DeadlinePasses, ClosedAll, conn, vars, Event
<1> QED BY <1>1, NextSplits, RecordType, SendType, ClientType DEF ClientStep

-----------------------------------------------------------------------------
(* The history, and what a client has of the events.                       *)

\* Every step keeps the history the newest events, in order.
LEMMA HistoryStep == TypeOK /\ HistoryIsNewest /\ [Next]_vars => HistoryIsNewest'
<1> SUFFICES ASSUME TypeOK, HistoryIsNewest, [Next]_vars PROVE HistoryIsNewest'
  OBVIOUS
<1>1. ASSUME NEW p \in Publishers, Record(p) PROVE HistoryIsNewest'
  <2> DEFINE h == Trimmed(Append(history, last + 1))
  <2>1. /\ h \in Seq(1..(last + 1))
        /\ Len(h) = IF last + 1 < MaxHist THEN last + 1 ELSE MaxHist
        /\ \A i \in DOMAIN h : h[i] = last + 1 - Len(h) + i
    BY TrimmedIsNewest
  <2>2. history' = h /\ last' = last + 1
    BY <1>1 DEF Record
  <2> HIDE DEF h
  <2>3. Len(history') = IF last' < MaxHist THEN last' ELSE MaxHist
    BY <2>1, <2>2
  <2>4. \A i \in DOMAIN history' : history'[i] = last' - Len(history') + i
    <3> TAKE i \in DOMAIN history'
    <3>1. h[i] = last + 1 - Len(h) + i
      BY <2>1, <2>2
    <3>2. DOMAIN h = 1..Len(h) /\ Len(h) \in Nat
      BY <2>1, LenProperties
    <3>3. last \in Nat
      BY DEF TypeOK
    <3> QED BY <2>2, <3>1, <3>2, <3>3
  <2> QED BY <2>3, <2>4 DEF HistoryIsNewest
<1>2. ASSUME UNCHANGED <<last, history>> PROVE HistoryIsNewest'
  BY <1>2 DEF HistoryIsNewest
<1>3. ASSUME NEW p \in Publishers, Send(p) PROVE UNCHANGED <<last, history>>
  BY <1>3 DEF Send
<1>4. ASSUME NEW c \in Clients, ClientStep(c) PROVE UNCHANGED <<last, history>>
  BY <1>4 DEF ClientStep, Connect, Subscribe, CopyHistory, Replay, ReplayEnds, Forward, Leaves
<1>5. CASE ShutdownStep
  BY <1>2, <1>5 DEF ShutdownStep, Close, Drain, ShutdownReturns, DeadlinePasses, vars
<1> QED BY <1>1, <1>2, <1>3, <1>4, <1>5, NextSplits

\* Where an event of a client's stream can be.
Reaches(c, n) ==
  \/ n \in Elems(replayed[c]) \cup Elems(replay[c])
  \/ n \in Elems(live[c]) \cup Elems(chan[c]) \cup lost[c]
  \/ \E p \in Publishers : sending[p] = n

\* Every step keeps the events of a client's stream without a gap, its losses excepted.
LEMMA GapStep == TypeOK /\ HistoryIsNewest /\ NoGap /\ [Next]_vars => NoGap'
<1> SUFFICES ASSUME TypeOK, HistoryIsNewest, NoGap, [Next]_vars PROVE NoGap'
  OBVIOUS
<1> SUFFICES ASSUME NEW b \in Clients, b \in open', pc'[b] \in {"replay", "stream"},
                    NEW n \in first'[b]..last'
             PROVE  Reaches(b, n)'
  <2>1. TypeOK'
    BY TypeStep
  <2> QED BY <2>1 DEF NoGap, Reaches, TypeOK
<1> DEFINE Before == b \in open /\ pc[b] \in {"replay", "stream"} /\ n \in first[b]..last
<1>0. Before => Reaches(b, n)
  BY DEF NoGap, Reaches
<1>n. n \in Nat \ {0} /\ last \in Nat /\ first[b] \in Nat \ {0}
  <2>1. TypeOK'
    BY TypeStep
  <2>2. first'[b] \in Nat \ {0} /\ last' \in Nat
    BY <2>1, BrokerAssumption DEF TypeOK
  <2> QED BY <2>2 DEF TypeOK
<1>1. ASSUME NEW p \in Publishers, Record(p) PROVE Reaches(b, n)'
  <2>1. open' = open /\ pc' = pc /\ first' = first /\ last' = last + 1
    BY <1>1 DEF Record, conn
  <2>2. Before \/ n = last + 1
    BY <1>n, <2>1
  <2>3. CASE n = last + 1
    BY <1>1, <2>3 DEF Record, Reaches, TypeOK
  <2>4. CASE Reaches(b, n)
    <3>1. UNCHANGED <<replay, replayed, live, chan, lost>>
      BY <1>1 DEF Record, conn
    <3>2. \A q \in Publishers : sending[q] = n => sending'[q] = n
      BY <1>1, <1>n DEF Record, TypeOK
    <3> QED BY <2>4, <3>1, <3>2 DEF Reaches
  <2> QED BY <1>0, <2>2, <2>3, <2>4
<1>2. ASSUME NEW p \in Publishers, Send(p) PROVE Reaches(b, n)'
  <2>1. Before /\ UNCHANGED <<replayed, replay, live>>
    BY <1>2 DEF Send, conn
  <2>2. sending[p] \in Event /\ chan[b] \in Seq(Event)
    BY <1>2 DEF Send, TypeOK, Event
  <2>3. Elems(Append(chan[b], sending[p])) = Elems(chan[b]) \cup {sending[p]}
    BY <2>2, ElemsAppend
  <2>4. /\ Elems(chan[b]) \cup lost[b] \subseteq Elems(chan'[b]) \cup lost'[b]
        /\ sending[p] \in Elems(chan'[b]) \cup lost'[b]
    <3>1. CASE Full(b)
      BY <1>2, <2>1, <3>1 DEF Send, Listens
    <3>2. CASE ~Full(b)
      <4>1. chan'[b] = Append(chan[b], sending[p]) /\ lost'[b] = lost[b]
        BY <1>2, <2>1, <3>2 DEF Send, Listens
      <4> QED BY <2>3, <4>1
    <3> QED BY <3>1, <3>2
  <2>5. \A q \in Publishers \ {p} : sending'[q] = sending[q]
    BY <1>2 DEF Send, SentOnce, TypeOK
  <2>6. CASE n = sending[p]
    BY <2>4, <2>6 DEF Reaches
  <2>7. CASE n # sending[p]
    <3>1. \A q \in Publishers : sending[q] = n => sending'[q] = n
      BY <2>5, <2>7
    <3> QED BY <1>0, <2>1, <2>4, <3>1 DEF Reaches
  <2> QED BY <2>6, <2>7
\* Whatever moves events between the places of one client keeps them.
<1>3. ASSUME Before, sending' = sending, lost'[b] = lost[b],
             Elems(replayed[b]) \cup Elems(replay[b])
               \subseteq Elems(replayed'[b]) \cup Elems(replay'[b]),
             Elems(live[b]) \cup Elems(chan[b]) \subseteq Elems(live'[b]) \cup Elems(chan'[b])
      PROVE  Reaches(b, n)'
  BY <1>0, <1>3 DEF Reaches
<1>4. ASSUME NEW c \in Clients, ClientStep(c), c # b PROVE Reaches(b, n)'
  <2>1. /\ UNCHANGED <<last, sending>> /\ (b \in open' <=> b \in open)
        /\ pc'[b] = pc[b] /\ first'[b] = first[b]
        /\ replayed'[b] = replayed[b] /\ replay'[b] = replay[b]
        /\ live'[b] = live[b] /\ chan'[b] = chan[b] /\ lost'[b] = lost[b]
    BY <1>4, SMTT(60) DEF ClientStep, Connect, Subscribe, CopyHistory, Replay, ReplayEnds,
                Forward, Leaves, TypeOK
  <2> QED BY <1>3, <2>1
<1>5. ASSUME Connect(b) \/ Subscribe(b) \/ Leaves(b) PROVE FALSE
  BY <1>5 DEF Connect, Subscribe, Leaves, TypeOK
<1>6. CASE CopyHistory(b)
  <2>1. /\ replay'[b] = history /\ last' = last
        /\ first'[b] = IF history = <<>> THEN last + 1 ELSE Head(history)
    BY <1>6 DEF CopyHistory, TypeOK
  <2>2. DOMAIN history = 1..Len(history) /\ Len(history) \in Nat
    BY LenProperties DEF TypeOK
  <2>3. history # <<>>
    BY <1>n, <2>1
  <2>4. Head(history) = last - Len(history) + 1 /\ Len(history) >= 1
    <3>1. Len(history) >= 1 /\ Head(history) = history[1]
      BY <2>2, <2>3, EmptySeq, HeadTailProperties DEF TypeOK
    <3> QED BY <2>2, <3>1 DEF HistoryIsNewest
  <2>5. n - (last - Len(history)) \in DOMAIN history
    BY <1>n, <2>1, <2>2, <2>3, <2>4
  <2>6. history[n - (last - Len(history))] = n
    BY <1>n, <2>2, <2>5 DEF HistoryIsNewest
  <2>7. n \in Elems(replay'[b])
    BY <2>1, <2>5, <2>6 DEF Elems
  <2> QED BY <2>7 DEF Reaches
<1>7. CASE Replay(b)
  <2>1. /\ replay[b] # <<>> /\ replay[b] \in Seq(Event) /\ replayed[b] \in Seq(Event)
        /\ replayed'[b] = Append(replayed[b], Head(replay[b]))
        /\ replay'[b] = Tail(replay[b])
    BY <1>7 DEF Replay, TypeOK
  <2>2. /\ Elems(replay[b]) = {Head(replay[b])} \cup Elems(Tail(replay[b]))
        /\ Head(replay[b]) \in Event
    BY <2>1, ElemsHeadTail
  <2>3. Elems(Append(replayed[b], Head(replay[b])))
          = Elems(replayed[b]) \cup {Head(replay[b])}
    BY <2>1, <2>2, ElemsAppend
  <2>4. Before /\ sending' = sending /\ lost' = lost /\ live' = live /\ chan' = chan
    BY <1>7 DEF Replay
  <2> QED BY <1>3, <2>1, <2>2, <2>3, <2>4
<1>8. CASE ReplayEnds(b)
  <2>1. /\ Before /\ UNCHANGED <<sending, lost, live, chan, replay, replayed>>
    BY <1>8 DEF ReplayEnds, TypeOK
  <2> QED BY <1>3, <2>1
<1>9. CASE Forward(b)
  <2>1. /\ chan[b] # <<>> /\ chan[b] \in Seq(Event) /\ live[b] \in Seq(Event)
        /\ live'[b] = Append(live[b], Head(chan[b]))
        /\ chan'[b] = Tail(chan[b])
    BY <1>9 DEF Forward, TypeOK
  <2>2. /\ Elems(chan[b]) = {Head(chan[b])} \cup Elems(Tail(chan[b]))
        /\ Head(chan[b]) \in Event
    BY <2>1, ElemsHeadTail
  <2>3. Elems(Append(live[b], Head(chan[b]))) = Elems(live[b]) \cup {Head(chan[b])}
    BY <2>1, <2>2, ElemsAppend
  <2>4. Before /\ sending' = sending /\ lost' = lost /\ replay' = replay /\ replayed' = replayed
    BY <1>9 DEF Forward
  <2> QED BY <1>3, <2>1, <2>2, <2>3, <2>4
<1>10. CASE ShutdownStep
  <2>1. Before /\ UNCHANGED <<sending, lost, live, chan, replay, replayed>>
    BY <1>10 DEF ShutdownStep, Close, Drain, ShutdownReturns, DeadlinePasses, ClosedAll, conn, vars
  <2> QED BY <1>3, <2>1
<1> QED BY <1>1, <1>2, <1>4, <1>5, <1>6, <1>7, <1>8, <1>9, <1>10, NextSplits DEF ClientStep

-----------------------------------------------------------------------------
(* The order of one publisher's events.                                    *)

\* The stream of a client is a sequence of events, each with its publisher.
LEMMA ReceivedType ==
  ASSUME TypeOK, NEW c \in Clients
  PROVE  /\ Received(c) \in Seq(Event)
         /\ DOMAIN Received(c) = 1..(Len(live[c]) + Len(chan[c]))
         /\ \A i \in DOMAIN Received(c) : Received(c)[i] \in Event /\ by[Received(c)[i]] \in Publishers
<1>1. live[c] \in Seq(Event) /\ chan[c] \in Seq(Event)
  BY DEF TypeOK
<1>2. Received(c) \in Seq(Event) /\ Len(Received(c)) = Len(live[c]) + Len(chan[c])
  BY <1>1, ConcatProperties DEF Received
<1>3. DOMAIN Received(c) = 1..Len(Received(c))
  BY <1>2, LenProperties
<1>4. \A i \in DOMAIN Received(c) : Received(c)[i] \in Event
  BY <1>2, <1>3, ElementOfSeq
<1> QED BY <1>2, <1>3, <1>4 DEF TypeOK

\* What a step can do to the stream of a client: nothing, one event more, a part
\* of it only.
Extended(c, e) ==
  /\ DOMAIN Received(c)' = 1..(Len(Received(c)) + 1)
  /\ \A i \in DOMAIN Received(c) : Received(c)'[i] = Received(c)[i]
  /\ Received(c)'[Len(Received(c)) + 1] = e

Shortened(c) ==
  /\ DOMAIN Received(c)' \subseteq DOMAIN Received(c)
  /\ \A i \in DOMAIN Received(c)' : Received(c)'[i] = Received(c)[i]

\* The second half of Publish adds its event to a stream, or nothing.
LEMMA SendExtends ==
  ASSUME TypeOK, NEW p \in Publishers, Send(p), NEW c \in Clients
  PROVE  Received(c)' = Received(c) \/ Extended(c, sending[p])
<1>1. live' = live
  BY DEF Send, conn
<1>2. CASE chan'[c] = chan[c]
  BY <1>1, <1>2 DEF Received
<1>3. CASE chan'[c] = Append(chan[c], sending[p])
  <2>1. sending[p] \in Event /\ live[c] \in Seq(Event) /\ chan[c] \in Seq(Event)
    BY DEF Send, TypeOK, Event
  <2> DEFINE a == Append(chan[c], sending[p])
             m == Len(live[c])
             k == Len(chan[c])
  <2>2. /\ a \in Seq(Event) /\ Len(a) = k + 1
        /\ \A i \in 1..k : a[i] = chan[c][i]
        /\ a[k + 1] = sending[p]
        /\ m \in Nat /\ k \in Nat
    BY <2>1, AppendProperties, LenProperties
  <2> HIDE DEF a
  <2>3. /\ live[c] \o a \in Seq(Event)
        /\ Len(live[c] \o a) = m + (k + 1)
        /\ \A i \in 1..(m + (k + 1)) :
             (live[c] \o a)[i] = IF i <= m THEN live[c][i] ELSE a[i - m]
    <3>1. /\ live[c] \o a \in Seq(Event)
          /\ Len(live[c] \o a) = m + Len(a)
          /\ \A i \in 1..(m + Len(a)) :
               (live[c] \o a)[i] = IF i <= m THEN live[c][i] ELSE a[i - m]
      BY <2>1, <2>2, ConcatProperties, ZenonT(60)
    <3>2. Len(a) = k + 1
      BY <2>2
    <3> QED BY <3>1, <3>2, Zenon
  <2>4. /\ live[c] \o chan[c] \in Seq(Event)
        /\ Len(live[c] \o chan[c]) = m + k
        /\ \A i \in 1..(m + k) :
             (live[c] \o chan[c])[i] = IF i <= m THEN live[c][i] ELSE chan[c][i - m]
    BY <2>1, ConcatProperties, Zenon
  <2> HIDE DEF m, k
  <2>5. DOMAIN (live[c] \o a) = 1..(m + k + 1) /\ DOMAIN (live[c] \o chan[c]) = 1..(m + k)
    <3>1. DOMAIN (live[c] \o a) = 1..(m + (k + 1)) /\ DOMAIN (live[c] \o chan[c]) = 1..(m + k)
      BY <2>3, <2>4, LenProperties, Zenon
    <3> QED BY <2>2, <3>1
  <2>6. \A i \in 1..(m + k) : (live[c] \o a)[i] = (live[c] \o chan[c])[i]
    <3> TAKE i \in 1..(m + k)
    <3>1. i \in 1..(m + (k + 1)) /\ (i <= m \/ i - m \in 1..k)
      BY <2>2
    <3> QED BY <2>2, <2>3, <2>4, <3>1
  <2>7. (live[c] \o a)[m + k + 1] = sending[p]
    <3>1. m + (k + 1) \in 1..(m + (k + 1)) /\ m + (k + 1) - m = k + 1
          /\ m + k + 1 = m + (k + 1) /\ ~(m + (k + 1) <= m)
      BY <2>2
    <3> DEFINE j == m + (k + 1)
    <3>2. j \in 1..j /\ ~(j <= m) /\ j - m = k + 1
      BY <2>2
    <3>3. \A i \in 1..j : (live[c] \o a)[i] = IF i <= m THEN live[c][i] ELSE a[i - m]
      BY <2>3
    <3> HIDE DEF j
    <3>4. (live[c] \o a)[j] = a[j - m]
      BY <3>2, <3>3
    <3> QED BY <2>2, <3>1, <3>2, <3>4 DEF j
  <2>8. Received(c)' = live[c] \o a
    BY <1>1, <1>3 DEF Received, a
  <2>9. Received(c) = live[c] \o chan[c]
    BY DEF Received
  <2> QED BY <2>2, <2>4, <2>5, <2>6, <2>7, <2>8, <2>9 DEF Extended
<1> QED BY <1>2, <1>3 DEF Send

\* A step of a client takes from its own stream at most.
LEMMA ClientShortens ==
  ASSUME TypeOK, NEW c \in Clients, ClientStep(c), NEW b \in Clients
  PROVE  Received(b)' = Received(b) \/ Shortened(b)
<1>1. live[b] \in Seq(Event) /\ chan[b] \in Seq(Event)
  BY DEF TypeOK
<1>2. CASE live'[b] = live[b] /\ chan'[b] = chan[b]
  BY <1>2 DEF Received
<1>3. CASE c = b /\ Forward(c)
  <2>1. /\ chan[b] # <<>> /\ live'[b] = Append(live[b], Head(chan[b]))
        /\ chan'[b] = Tail(chan[b])
    BY <1>3 DEF Forward, TypeOK
  <2>2. Append(live[b], Head(chan[b])) \o Tail(chan[b]) = live[b] \o chan[b]
    BY <1>1, <2>1, ForwardKeeps
  <2> QED BY <2>1, <2>2 DEF Received
<1>4. CASE c = b /\ Subscribe(c)
  <2>1. live'[b] = <<>> /\ chan'[b] = <<>>
    BY <1>4 DEF Subscribe, TypeOK
  <2>2. Received(b)' = <<>>
    BY <2>1, EmptySeq, ConcatEmptySeq DEF Received
  <2> QED BY <2>2 DEF Shortened
<1>5. CASE c = b /\ Leaves(c)
  <2>1. live'[b] = live[b] /\ chan'[b] = <<>>
    BY <1>5 DEF Leaves, TypeOK
  <2>2. Received(b)' = live[b]
    BY <1>1, <2>1, ConcatEmptySeq DEF Received
  <2>3. /\ DOMAIN live[b] = 1..Len(live[b]) /\ Len(live[b]) \in Nat /\ Len(chan[b]) \in Nat
        /\ DOMAIN Received(b) = 1..(Len(live[b]) + Len(chan[b]))
    BY <1>1, LenProperties, ReceivedType
  <2>4. \A i \in 1..(Len(live[b]) + Len(chan[b])) :
          (live[b] \o chan[b])[i] = IF i <= Len(live[b]) THEN live[b][i]
                                                          ELSE chan[b][i - Len(live[b])]
    BY <1>1, ConcatProperties
  <2>5. \A m, k \in Nat : \A i \in 1..m : i \in 1..(m + k) /\ i <= m
    OBVIOUS
  <2>6. Len(live[b]) \in Nat /\ Len(chan[b]) \in Nat
    BY <1>1, LenProperties, Zenon
  <2>7. \A i \in 1..Len(live[b]) : Received(b)[i] = live[b][i]
    <3> TAKE i \in 1..Len(live[b])
    <3>1. i \in 1..(Len(live[b]) + Len(chan[b])) /\ i <= Len(live[b])
      BY <2>5, <2>6, Zenon
    <3>2. (live[b] \o chan[b])[i] = live[b][i]
      BY <2>4, <3>1
    <3> QED BY <3>2 DEF Received
  <2>8. DOMAIN live[b] \subseteq DOMAIN Received(b)
    BY <2>3, <2>5, <2>6, Zenon
  <2> QED BY <2>2, <2>3, <2>7, <2>8 DEF Shortened
<1>6. c # b \/ Connect(c) \/ CopyHistory(c) \/ Replay(c) \/ ReplayEnds(c)
        => live'[b] = live[b] /\ chan'[b] = chan[b]
  BY DEF ClientStep, Connect, Subscribe, CopyHistory, Replay, ReplayEnds, Forward,
         Leaves, TypeOK
<1> QED BY <1>2, <1>3, <1>4, <1>5, <1>6 DEF ClientStep

\* No event more, and nothing newly between the halves of Publish but the newest
\* event: the order stays.
LEMMA OrderKept ==
  ASSUME TypeOK, SendsInOrder, PublisherOrder,
         \A c \in Clients : Received(c)' = Received(c) \/ Shortened(c),
         \A n \in Event : by'[n] = by[n],
         \A p \in Publishers : sending'[p] = sending[p]
                               \/ (sending'[p] = last + 1 /\ by'[last + 1] = p)
  PROVE  SendsInOrder' /\ PublisherOrder'
<1>1. last \in Nat /\ \A p \in Publishers : sending[p] \in 0..last
  BY DEF TypeOK
<1>2. ASSUME NEW p \in Publishers, sending'[p] # 0 PROVE by'[sending'[p]] = p
  <2>1. CASE sending'[p] = sending[p]
    <3>1. sending[p] \in Event
      BY <1>1, <1>2, <2>1 DEF Event
    <3> QED BY <1>2, <2>1, <3>1 DEF SendsInOrder
  <2> QED BY <2>1
<1>3. ASSUME NEW c \in Clients, NEW i \in DOMAIN Received(c)'
      PROVE  /\ i \in DOMAIN Received(c) /\ Received(c)'[i] = Received(c)[i]
             /\ Received(c)[i] \in Event /\ by'[Received(c)[i]] = by[Received(c)[i]]
             /\ by[Received(c)[i]] \in Publishers
  <2>1. i \in DOMAIN Received(c) /\ Received(c)'[i] = Received(c)[i]
    BY <1>3 DEF Shortened
  <2> QED BY <2>1, ReceivedType
<1>4. ASSUME NEW c \in Clients, NEW i \in DOMAIN Received(c)',
             sending'[by'[Received(c)'[i]]] # 0
      PROVE  Received(c)'[i] < sending'[by'[Received(c)'[i]]]
  <2> DEFINE n == Received(c)[i]
  <2>1. /\ i \in DOMAIN Received(c) /\ Received(c)'[i] = n /\ n \in Event
        /\ by'[n] = by[n] /\ by[n] \in Publishers
    BY <1>3
  <2>2. sending[by[n]] # 0 => n < sending[by[n]]
    BY <2>1 DEF SendsInOrder
  <2> HIDE DEF n
  <2>3. sending'[by[n]] = sending[by[n]] \/ sending'[by[n]] = last + 1
    BY <2>1
  <2>4. n < last + 1
    BY <1>1, <2>1 DEF Event
  <2> QED BY <1>4, <2>1, <2>2, <2>3, <2>4
<1>5. SendsInOrder'
  BY <1>2, <1>4 DEF SendsInOrder
<1>6. ASSUME NEW c \in Clients,
             NEW i \in DOMAIN Received(c)', NEW j \in DOMAIN Received(c)', i < j,
             by'[Received(c)'[i]] = by'[Received(c)'[j]]
      PROVE  Received(c)'[i] < Received(c)'[j]
  <2>1. /\ i \in DOMAIN Received(c) /\ Received(c)'[i] = Received(c)[i]
        /\ j \in DOMAIN Received(c) /\ Received(c)'[j] = Received(c)[j]
    BY <1>3
  <2>2. by[Received(c)[i]] = by[Received(c)[j]]
    BY <1>3, <1>6, <2>1
  <2> QED BY <1>6, <2>1, <2>2, ZenonT(60) DEF PublisherOrder, Received
<1>7. PublisherOrder'
  BY <1>6, ZenonT(60) DEF PublisherOrder, Received
<1> QED BY <1>5, <1>7

\* The second half of Publish: whoever gets the event has got only older ones of
\* that publisher.
LEMMA OrderOfSend ==
  ASSUME TypeOK, SendsInOrder, PublisherOrder, NEW p \in Publishers, Send(p)
  PROVE  SendsInOrder' /\ PublisherOrder'
<1> DEFINE e == sending[p]
<1>1. /\ e \in Event /\ by[e] = p /\ by' = by /\ sending'[p] = 0
      /\ \A q \in Publishers : q # p => sending'[q] = sending[q]
  BY DEF Send, SentOnce, SendsInOrder, TypeOK, Event
<1> HIDE DEF e
<1>2. \A c \in Clients : Received(c)' = Received(c) \/ Extended(c, e)
  BY SendExtends DEF e
<1>3. ASSUME NEW q \in Publishers, sending'[q] # 0 PROVE by'[sending'[q]] = q
  BY <1>1, <1>3 DEF SendsInOrder
<1>4. ASSUME NEW c \in Clients
      PROVE  /\ \A i \in DOMAIN Received(c)' :
                   \/ i \in DOMAIN Received(c) /\ Received(c)'[i] = Received(c)[i]
                   \/ /\ i = Len(Received(c)) + 1 /\ Received(c)'[i] = e
             /\ \A i \in DOMAIN Received(c) :
                   i <= Len(Received(c)) /\ Received(c)[i] \in Event
                   /\ (by[Received(c)[i]] = p => Received(c)[i] < e)
             /\ Len(Received(c)) \in Nat /\ DOMAIN Received(c) \subseteq Nat
             /\ DOMAIN Received(c)' \subseteq Nat
  <2>1. /\ Received(c) \in Seq(Event)
        /\ \A i \in DOMAIN Received(c) : Received(c)[i] \in Event
    BY ReceivedType
  <2>2. DOMAIN Received(c) = 1..Len(Received(c)) /\ Len(Received(c)) \in Nat
    BY <2>1, LenProperties
  <2>3. \A i \in DOMAIN Received(c)' :
          \/ i \in DOMAIN Received(c) /\ Received(c)'[i] = Received(c)[i]
          \/ i = Len(Received(c)) + 1 /\ Received(c)'[i] = e
    <3>1. CASE Received(c)' = Received(c)
      BY <3>1
    <3>2. CASE Extended(c, e)
      <4>1. \A i \in 1..(Len(Received(c)) + 1) :
              i \in 1..Len(Received(c)) \/ i = Len(Received(c)) + 1
        BY <2>2
      <4> QED BY <2>2, <3>2, <4>1 DEF Extended
    <3> QED BY <1>2, <3>1, <3>2
  <2>4. \A i \in DOMAIN Received(c) : by[Received(c)[i]] = p => Received(c)[i] < e
    BY <1>1 DEF SendsInOrder, e, Event
  <2> QED BY <2>1, <2>2, <2>3, <2>4
<1>5. ASSUME NEW c \in Clients, NEW i \in DOMAIN Received(c)',
             sending'[by'[Received(c)'[i]]] # 0
      PROVE  Received(c)'[i] < sending'[by'[Received(c)'[i]]]
  <2>1. CASE Received(c)'[i] = e
    BY <1>1, <1>5, <2>1
  <2>2. CASE i \in DOMAIN Received(c) /\ Received(c)'[i] = Received(c)[i]
    <3>1. by[Received(c)[i]] \in Publishers
      BY <2>2, ReceivedType
    <3>2. by[Received(c)[i]] # p
      BY <1>1, <1>5, <2>2
    <3>3. sending'[by'[Received(c)'[i]]] = sending[by[Received(c)[i]]]
      BY <1>1, <2>2, <3>1, <3>2
    <3> QED BY <1>5, <2>2, <3>3 DEF SendsInOrder
  <2> QED BY <1>4, <2>1, <2>2
<1>6. SendsInOrder'
  BY <1>3, <1>5 DEF SendsInOrder
<1>7. ASSUME NEW c \in Clients,
             NEW i \in DOMAIN Received(c)', NEW j \in DOMAIN Received(c)', i < j,
             by'[Received(c)'[i]] = by'[Received(c)'[j]]
      PROVE  Received(c)'[i] < Received(c)'[j]
  <2>1. i \in DOMAIN Received(c) /\ Received(c)'[i] = Received(c)[i]
    BY <1>4, <1>7
  <2>2. CASE j \in DOMAIN Received(c) /\ Received(c)'[j] = Received(c)[j]
    <3>1. by[Received(c)[i]] = by[Received(c)[j]]
      BY <1>1, <1>7, <2>1, <2>2
    <3> QED BY <1>7, <2>1, <2>2, <3>1 DEF PublisherOrder, Received
  <2>3. CASE Received(c)'[j] = e
    BY <1>1, <1>4, <1>7, <2>1, <2>3
  <2> QED BY <1>4, <2>2, <2>3
<1>8. PublisherOrder'
  BY <1>7, ZenonT(60) DEF PublisherOrder, Received
<1> QED BY <1>6, <1>8

\* Every step keeps the order of the events of one publisher.
LEMMA OrderStep ==
  TypeOK /\ SendsInOrder /\ PublisherOrder /\ [Next]_vars => SendsInOrder' /\ PublisherOrder'
<1> SUFFICES ASSUME TypeOK, SendsInOrder, PublisherOrder, [Next]_vars
             PROVE  SendsInOrder' /\ PublisherOrder'
  OBVIOUS
<1>1. ASSUME NEW p \in Publishers, Record(p) PROVE SendsInOrder' /\ PublisherOrder'
  <2>1. \A c \in Clients : Received(c)' = Received(c)
    BY <1>1 DEF Record, conn, Received
  <2>2. last \in Nat /\ last + 1 \notin Event
    BY DEF TypeOK, Event
  <2>3. (\A n \in Event : by'[n] = by[n]) /\ by'[last + 1] = p
    <3>1. by' = [n \in 1..(last + 1) |-> IF n = last + 1 THEN p ELSE by[n]]
      BY <1>1 DEF Record
    <3>2. \A n \in Event : n \in 1..(last + 1) /\ n # last + 1
      BY <2>2 DEF Event
    <3>3. last + 1 \in 1..(last + 1)
      BY <2>2
    <3> QED BY <3>1, <3>2, <3>3
  <2>4. \A q \in Publishers : sending'[q] = sending[q]
                              \/ (sending'[q] = last + 1 /\ by'[last + 1] = q)
    BY <1>1, <2>3 DEF Record, TypeOK
  <2> QED BY <2>1, <2>3, <2>4, OrderKept
<1>2. ASSUME NEW c \in Clients, ClientStep(c) PROVE SendsInOrder' /\ PublisherOrder'
  <2>1. by' = by /\ sending' = sending
    BY <1>2 DEF ClientStep, Connect, Subscribe, CopyHistory, Replay, ReplayEnds,
                Forward, Leaves
  <2> QED BY <1>2, <2>1, ClientShortens, OrderKept
<1>3. CASE ShutdownStep
  <2>1. UNCHANGED <<by, sending, live, chan>>
    BY <1>3 DEF ShutdownStep, Close, Drain, ShutdownReturns, DeadlinePasses, conn, vars
  <2>2. \A c \in Clients : Received(c)' = Received(c)
    BY <2>1 DEF Received
  <2> QED BY <2>1, <2>2, OrderKept
<1> QED BY <1>1, <1>2, <1>3, OrderOfSend, NextSplits

-----------------------------------------------------------------------------
(* The end of the process.                                                 *)

\* Every step leaves a handler whose channel is closed what it has to send.
LEMMA RestStep ==
  ASSUME TypeOK, [Next]_vars, NEW c \in Clients,
         c \notin open, pc[c] \in {"replay", "stream"}, pc'[c] # "off"
  PROVE  /\ c \notin open'
         /\ replayed'[c] \o replay'[c] = replayed[c] \o replay[c]
         /\ live'[c] \o chan'[c] = live[c] \o chan[c]
<1> DEFINE Kept == /\ c \notin open'
                   /\ replayed'[c] \o replay'[c] = replayed[c] \o replay[c]
                   /\ live'[c] \o chan'[c] = live[c] \o chan[c]
<1> SUFFICES Kept
  OBVIOUS
<1>1. ASSUME c \notin open', replayed'[c] = replayed[c], replay'[c] = replay[c],
             live'[c] = live[c], chan'[c] = chan[c]
      PROVE  Kept
  BY <1>1
<1> HIDE DEF Kept
<1>2. ASSUME NEW p \in Publishers, Record(p) \/ Send(p) PROVE Kept
  <2>1. UNCHANGED <<open, conn>> /\ chan'[c] = chan[c]
    BY <1>2 DEF Record, Send, Listens, TypeOK
  <2> QED BY <1>1, <2>1 DEF conn
<1>3. ASSUME NEW b \in Clients, b # c, ClientStep(b) PROVE Kept
  <2>1. c \notin open' /\ chan'[c] = chan[c]
    BY <1>3 DEF ClientStep, Connect, Subscribe, CopyHistory, Replay, ReplayEnds, Forward,
                Leaves, TypeOK
  <2>2. replayed'[c] = replayed[c] /\ replay'[c] = replay[c] /\ live'[c] = live[c]
    BY <1>3 DEF ClientStep, Connect, Subscribe, CopyHistory, Replay, ReplayEnds, Forward,
                Leaves, TypeOK
  <2> QED BY <1>1, <2>1, <2>2
<1>4. CASE Replay(c)
  <2>1. /\ replayed[c] \in Seq(Event) /\ replay[c] \in Seq(Event) /\ replay[c] # <<>>
        /\ replayed'[c] = Append(replayed[c], Head(replay[c]))
        /\ replay'[c] = Tail(replay[c])
    BY <1>4 DEF Replay, TypeOK
  <2>2. replayed'[c] \o replay'[c] = replayed[c] \o replay[c]
    BY <2>1, ForwardKeeps
  <2>3. UNCHANGED <<open, live, chan>>
    BY <1>4 DEF Replay
  <2> QED BY <2>2, <2>3 DEF Kept
<1>5. CASE Forward(c)
  <2>1. /\ live[c] \in Seq(Event) /\ chan[c] \in Seq(Event) /\ chan[c] # <<>>
        /\ live'[c] = Append(live[c], Head(chan[c]))
        /\ chan'[c] = Tail(chan[c])
    BY <1>5 DEF Forward, TypeOK
  <2>2. live'[c] \o chan'[c] = live[c] \o chan[c]
    BY <2>1, ForwardKeeps
  <2>3. UNCHANGED <<open, replay, replayed>>
    BY <1>5 DEF Forward
  <2> QED BY <2>2, <2>3 DEF Kept
<1>6. CASE ReplayEnds(c)
  <2>1. UNCHANGED <<open, chan, replay, replayed, live>>
    BY <1>6 DEF ReplayEnds
  <2> QED BY <1>1, <2>1
<1>7. ~Connect(c) /\ ~Subscribe(c) /\ ~CopyHistory(c) /\ ~Leaves(c)
  BY DEF Connect, Subscribe, CopyHistory, Leaves, TypeOK
<1>8. CASE ShutdownStep
  <2>1. c \notin open' /\ UNCHANGED <<chan, conn>>
    BY <1>8 DEF ShutdownStep, Close, Drain, ShutdownReturns, DeadlinePasses, ClosedAll, vars
  <2> QED BY <1>1, <2>1 DEF conn
<1> QED BY <1>2, <1>3, <1>4, <1>5, <1>6, <1>7, <1>8, NextSplits DEF ClientStep

-----------------------------------------------------------------------------
\* The history is the newest events, what is buffered fits its channel, and each
\* client's stream is covered and in order (internal/sse/broker.go).
THEOREM Inductive == Spec => []IInv
<1>1. IInv /\ [Next]_vars => IInv'
  BY TypeStep, HistoryStep, GapStep, OrderStep DEF IInv
<1> QED BY InitIInv, <1>1, PTL DEF Spec

\* Publish and streamEvents (broker.go:68, handler/sse.go:42): a client that has
\* subscribed before it copied the history misses no event from the first of the
\* copy on, unless its channel was full, however many publish at the same time.
THEOREM NothingMissed == Spec => []NoGap
<1>1. IInv => NoGap
  BY DEF IInv
<1> QED BY Inductive, <1>1, PTL

\* Publish (broker.go:68): the history is the newest events, with no gap, in the
\* order of their numbers.
THEOREM NewestKept == Spec => []HistoryIsNewest
<1>1. IInv => HistoryIsNewest
  BY DEF IInv
<1> QED BY Inductive, <1>1, PTL

\* Publish (broker.go:68) sends outside the lock it appends under: the events of
\* one publisher still come to every client in order, and each once.
THEOREM OrderOfOnePublisher == Spec => []PublisherOrder
<1>1. IInv => PublisherOrder
  BY DEF IInv
<1> QED BY Inductive, <1>1, PTL

\* Close and streamEvents (broker.go:106, handler/sse.go:42): what a handler has
\* buffered when its channel is closed is what it sends, neither less nor more,
\* however many publish while it drains.
THEOREM RestIsSent == Spec => ClosedSendsRest
<1>1. TypeOK /\ [Next]_vars =>
        [\A c \in Clients :
           c \notin open /\ pc[c] \in {"replay", "stream"} /\ pc'[c] # "off" =>
             /\ c \notin open'
             /\ replayed'[c] \o replay'[c] = replayed[c] \o replay[c]
             /\ live'[c] \o chan'[c] = live[c] \o chan[c]]_vars
  BY RestStep
<1>2. IInv => TypeOK
  BY DEF IInv
<1> QED BY Inductive, <1>1, <1>2, PTL DEF Spec, ClosedSendsRest
=============================================================================
