---------------------------- MODULE EventBroker -----------------------------
(***************************************************************************)
(* The event stream of one VPS or network: the broker's history and the    *)
(* buffered channels of its subscribers (internal/sse/broker.go), and the  *)
(* HTTP handlers that replay the history and then forward the channel      *)
(* (streamEvents of internal/handler/sse.go).  Publishers are the worker   *)
(* and the goroutines that start, restart, reset or destroy.               *)
(*                                                                         *)
(* An event is the number of its append to the history, so that 1..last    *)
(* are the events so far and by[n] is the publisher of event n.            *)
(* The end of the process is modelled too: Shutdown of                     *)
(* internal/server/server.go closes the broker and then waits, ten seconds *)
(* at most, for the handlers of all requests to end.                       *)
(* A definition marked "mutant" is a wrong variant of the one after it,    *)
(* which Spec does not use.                                                *)
(***************************************************************************)
EXTENDS Naturals, Sequences

CONSTANTS
  Publishers,
  Clients,     \* HTTP connections
  MaxHist,     \* events the history keeps (50 in the code)
  Buffer,      \* capacity of a subscriber's channel (64 in the code)
  MaxEvents    \* bound: events ever published

ASSUME BrokerAssumption ==
  /\ MaxHist \in Nat \ {0}
  /\ Buffer \in Nat \ {0}
  /\ MaxEvents \in Nat

VARIABLES
  last,      \* events appended so far
  by,        \* their publishers
  history,   \* b.history[instanceID]
  sending,   \* of each publisher: the event it has appended and is to send, or 0
  open,      \* the clients whose channel is in b.clients[instanceID]
  chan,      \* what is in the channel of each client
  pc,        \* of each client: "off", "connected", "subscribed", "replay", "stream"
  replay,    \* the copy of the history a client is still to be sent
  first,     \* the oldest event that copy had, or the next one if it was empty
  replayed,  \* what a client was sent of the history,
  live,      \* and of its channel
  lost,      \* events that did not fit into the channel
  server     \* "serving", "closed" (the broker), "draining", "stopped", "expired"

conn == <<pc, replay, first, replayed, live>>
vars == <<last, by, history, sending, open, chan, conn, lost, server>>

Event == 1..last

Elems(s) == {s[i] : i \in DOMAIN s}

TypeOK ==
  /\ last \in 0..MaxEvents
  /\ by \in [Event -> Publishers]
  /\ history \in Seq(Event) /\ Len(history) <= MaxHist
  /\ sending \in [Publishers -> 0..last]
  /\ open \subseteq Clients
  /\ chan \in [Clients -> Seq(Event)]
  /\ \A c \in Clients : Len(chan[c]) <= Buffer
  /\ pc \in [Clients -> {"off", "connected", "subscribed", "replay", "stream"}]
  /\ replay \in [Clients -> Seq(Event)]
  /\ first \in [Clients -> Nat \ {0}]
  /\ replayed \in [Clients -> Seq(Event)]
  /\ live \in [Clients -> Seq(Event)]
  /\ lost \in [Clients -> SUBSET Event]
  /\ server \in {"serving", "closed", "draining", "stopped", "expired"}

Init ==
  /\ last = 0
  /\ by = <<>>
  /\ history = <<>>
  /\ sending = [p \in Publishers |-> 0]
  /\ open = {}
  /\ chan = [c \in Clients |-> <<>>]
  /\ pc = [c \in Clients |-> "off"]
  /\ replay = [c \in Clients |-> <<>>]
  /\ first = [c \in Clients |-> 1]
  /\ replayed = [c \in Clients |-> <<>>]
  /\ live = [c \in Clients |-> <<>>]
  /\ lost = [c \in Clients |-> {}]
  /\ server = "serving"

\* main has not exited.
Up == server # "expired"

-----------------------------------------------------------------------------
(* Publish.                                                                *)

\* The history keeps its newest MaxHist events.
Trimmed(s) ==
  IF Len(s) > MaxHist THEN SubSeq(s, Len(s) - MaxHist + 1, Len(s)) ELSE s

\* The first half, under the write lock: the event joins the history.
Record(p) ==
  /\ Up
  /\ last < MaxEvents
  /\ sending[p] = 0
  /\ last' = last + 1
  /\ by' = [n \in 1..(last + 1) |-> IF n = last + 1 THEN p ELSE by[n]]
  /\ history' = Trimmed(Append(history, last + 1))
  /\ sending' = [sending EXCEPT ![p] = last + 1]
  /\ UNCHANGED <<open, chan, conn, lost, server>>

Full(c) == Len(chan[c]) >= Buffer

SentOnce(p) == sending' = [sending EXCEPT ![p] = 0]

\* mutant: a handler that subscribes after it has replayed the history
ListensLate(c) == c \in open /\ pc[c] = "stream"

\* mutant: a channel without a buffer, which only a waiting handler takes from
ListensIfIdle(c) == c \in open /\ pc[c] = "stream" /\ chan[c] = <<>>

Listens(c) == c \in open

\* The second half, under the read lock: the event goes to every channel that
\* has room.  Other publishers may have come in between.
Send(p) ==
  /\ Up
  /\ sending[p] # 0
  /\ chan' = [c \in Clients |->
                IF Listens(c) /\ ~Full(c) THEN Append(chan[c], sending[p])
                                          ELSE chan[c]]
  /\ lost' = [c \in Clients |->
                IF Listens(c) /\ Full(c) THEN lost[c] \cup {sending[p]}
                                         ELSE lost[c]]
  /\ SentOnce(p)
  /\ UNCHANGED <<last, by, history, open, conn, server>>

-----------------------------------------------------------------------------
(* streamEvents.                                                           *)

\* A request is accepted until httpServer.Shutdown closes the listener.
Connect(c) ==
  /\ pc[c] = "off"
  /\ server \in {"serving", "closed"}
  /\ pc' = [pc EXCEPT ![c] = "connected"]
  /\ UNCHANGED <<last, by, history, sending, open, chan, replay, first,
                 replayed, live, lost, server>>

\* Subscribe: a new, empty channel, also when the broker was closed.
Subscribe(c) ==
  /\ Up
  /\ pc[c] = "connected"
  /\ pc' = [pc EXCEPT ![c] = "subscribed"]
  /\ open' = open \cup {c}
  /\ chan' = [chan EXCEPT ![c] = <<>>]
  /\ replayed' = [replayed EXCEPT ![c] = <<>>]
  /\ live' = [live EXCEPT ![c] = <<>>]
  /\ lost' = [lost EXCEPT ![c] = {}]
  /\ UNCHANGED <<last, by, history, sending, replay, first, server>>

\* History: a copy of what is kept.
CopyHistory(c) ==
  /\ Up
  /\ pc[c] = "subscribed"
  /\ pc' = [pc EXCEPT ![c] = "replay"]
  /\ replay' = [replay EXCEPT ![c] = history]
  /\ first' = [first EXCEPT ![c] = IF history = <<>> THEN last + 1 ELSE Head(history)]
  /\ UNCHANGED <<last, by, history, sending, open, chan, replayed, live, lost, server>>

\* The copy is written to the client, event by event.
Replay(c) ==
  /\ Up
  /\ pc[c] = "replay"
  /\ replay[c] # <<>>
  /\ replayed' = [replayed EXCEPT ![c] = Append(@, Head(replay[c]))]
  /\ replay' = [replay EXCEPT ![c] = Tail(@)]
  /\ UNCHANGED <<last, by, history, sending, open, chan, pc, first, live, lost, server>>

\* Then the loop that forwards the channel is entered.
ReplayEnds(c) ==
  /\ Up
  /\ pc[c] = "replay"
  /\ replay[c] = <<>>
  /\ pc' = [pc EXCEPT ![c] = "stream"]
  /\ UNCHANGED <<last, by, history, sending, open, chan, replay, first,
                 replayed, live, lost, server>>

Forward(c) ==
  /\ Up
  /\ pc[c] = "stream"
  /\ chan[c] # <<>>
  /\ live' = [live EXCEPT ![c] = Append(@, Head(chan[c]))]
  /\ chan' = [chan EXCEPT ![c] = Tail(@)]
  /\ UNCHANGED <<last, by, history, sending, open, pc, replay, first,
                 replayed, lost, server>>

\* Unsubscribe, and the end of the handler.
Leaves(c) ==
  /\ Up
  /\ pc' = [pc EXCEPT ![c] = "off"]
  /\ open' = open \ {c}
  /\ chan' = [chan EXCEPT ![c] = <<>>]
  /\ replay' = [replay EXCEPT ![c] = <<>>]
  /\ UNCHANGED <<last, by, history, sending, first, replayed, live, lost, server>>

\* The client has gone.
Leave(c) == pc[c] # "off" /\ Leaves(c)

\* mutant: the loop waits for the client only
NeverDrained(c) == FALSE

\* The channel was closed, and what it held is sent.
Drained(c) == pc[c] = "stream" /\ c \notin open /\ chan[c] = <<>>

StreamEnds(c) == Drained(c) /\ Leaves(c)

\* Every channel there is: what is buffered can still be read.
ClosedAll == {}

\* Shutdown begins: Close.
Close ==
  /\ server = "serving"
  /\ server' = "closed"
  /\ open' = ClosedAll
  /\ UNCHANGED <<last, by, history, sending, chan, conn, lost>>

\* httpServer.Shutdown: no more connections.
Drain ==
  /\ server = "closed"
  /\ server' = "draining"
  /\ UNCHANGED <<last, by, history, sending, open, chan, conn, lost>>

Connected == {c \in Clients : pc[c] # "off"}

\* It returns when every handler has ended, and main stops the queue.
ShutdownReturns ==
  /\ server = "draining"
  /\ Connected = {}
  /\ server' = "stopped"
  /\ UNCHANGED <<last, by, history, sending, open, chan, conn, lost>>

\* Ten seconds are over before: a stream that subscribed when the broker was
\* closed, a client that does not read, or any other request that takes longer
\* holds it.  main exits at once, without jobQueue.Stop.
DeadlinePasses ==
  /\ server = "draining"
  /\ server' = "expired"
  /\ UNCHANGED <<last, by, history, sending, open, chan, conn, lost>>

Next ==
  \/ \E p \in Publishers : Record(p) \/ Send(p)
  \/ \E c \in Clients :
       \/ Connect(c) \/ Subscribe(c) \/ CopyHistory(c) \/ Replay(c) \/ ReplayEnds(c)
       \/ Forward(c) \/ Leave(c) \/ StreamEnds(c)
  \/ Close \/ Drain \/ ShutdownReturns \/ DeadlinePasses

Spec == Init /\ [][Next]_vars

\* Publishers and handlers run on; clients read what they are sent.  Nothing is
\* asked of the shutdown.
FairSpec ==
  /\ Spec
  /\ \A p \in Publishers : WF_vars(Send(p))
  /\ \A c \in Clients :
       /\ WF_vars(Subscribe(c))
       /\ WF_vars(CopyHistory(c))
       /\ WF_vars(Replay(c))
       /\ WF_vars(ReplayEnds(c))
       /\ WF_vars(Forward(c))
       /\ WF_vars(StreamEnds(c))

-----------------------------------------------------------------------------
(* What should hold.                                                       *)

\* A client whose channel is open and that has its copy of the history misses
\* nothing from the first event of the copy on: every event was sent to it, is
\* in its copy or its channel, is about to be sent by its publisher, or did not
\* fit into the channel.  This is why streamEvents subscribes before it reads
\* the history, and why Publish appends before it sends.
NoGap ==
  \A c \in open :
    pc[c] \in {"replay", "stream"} =>
      \A n \in first[c]..last :
        \/ n \in Elems(replayed[c]) \cup Elems(replay[c])
        \/ n \in Elems(live[c]) \cup Elems(chan[c]) \cup lost[c]
        \/ \E p \in Publishers : sending[p] = n

\* The history is the newest events, without a gap and in order.
HistoryIsNewest ==
  /\ Len(history) = IF last < MaxHist THEN last ELSE MaxHist
  /\ \A i \in DOMAIN history : history[i] = last - Len(history) + i

\* From its channel a client gets the events of one publisher in the order they
\* were published and each of them once: the steps of one provisioning are not
\* shuffled.  Those of two publishers may be, and an event may come twice, from
\* the history and from the channel.
PublisherOrder ==
  \A c \in Clients :
    LET s == live[c] \o chan[c] IN
    \A i, j \in DOMAIN s : i < j /\ by[s[i]] = by[s[j]] => s[i] < s[j]

\* What is published while a client is connected reaches it, unless its channel
\* is full or closed first or the process ends.
EventsArrive ==
  \A c \in Clients : \A n \in 1..MaxEvents :
    (pc[c] = "stream" /\ c \in open /\ n = last /\ \E p \in Publishers : sending[p] = n)
      ~> \/ n \in Elems(live[c]) \cup Elems(replayed[c]) \cup lost[c]
         \/ c \notin open
         \/ ~Up

\* Shutdown closes the broker first so that the streams, which nothing else would
\* end, do not hold it: each that there was ends by itself once it has sent what it
\* was still to send, wherever Close met it, unless the ten seconds pass first.  A
\* connection that subscribes only after Close is the exception: its channel is open.
StreamsEnd ==
  \A c \in Clients :
    server # "serving" /\ pc[c] # "off" /\ c \notin open ~>
      \/ pc[c] = "off"
      \/ c \in open
      \/ ~Up

\* Close cuts nothing short and nothing is added after it: as long as a handler
\* whose channel is closed runs, what it has sent and is still to send, of the
\* history and of its channel, stays the same, whoever publishes meanwhile.
ClosedSendsRest ==
  [][\A c \in Clients :
       c \notin open /\ pc[c] \in {"replay", "stream"} /\ pc'[c] # "off" =>
         /\ c \notin open'
         /\ replayed'[c] \o replay'[c] = replayed[c] \o replay[c]
         /\ live'[c] \o chan'[c] = live[c] \o chan[c]]_vars

\* "Replay buffered history so reconnecting clients see the full log"
\* (streamEvents): the copy a client is sent begins with the first event.
FullLog ==
  \A c \in Clients : pc[c] \in {"replay", "stream"} => first[c] = 1
=============================================================================
