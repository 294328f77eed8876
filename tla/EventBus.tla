------------------------------ MODULE EventBus ------------------------------
(***************************************************************************)
(* Pushes of a daemon: the EventBus (state.rs), the two threads of a       *)
(* connection (server.rs handle_connection) and the client that subscribes *)
(* on a connection of its own (client.rs).  Responses and pushes go        *)
(* through one channel per connection; the bus holds a sender of it for    *)
(* every registration, so a channel outlives the read loop that made it.   *)
(*                                                                         *)
(* sent[c] is every line ever put into the channel of c; what the writer   *)
(* wrote and what the client read are prefixes of it, given by a length.   *)
(***************************************************************************)
EXTENDS Naturals, Sequences

CONSTANTS
  Topics,
  Connections, \* each is opened once
  SocketCap,   \* lines the socket keeps
  MaxEvents    \* bound: events of a topic

ASSUME EventAssumption == MaxEvents \in Nat

VARIABLES
  bus,        \* BusInner: the registrations
  published,  \* [Topics -> events broadcast so far]
  readerOf,   \* [Connections -> the read loop's thread]
  sent,       \* [Connections -> lines]
  writerOf,   \* [Connections -> the writer thread]
  client      \* [Connections -> the peer]

busVars == <<bus, published, readerOf, sent, writerOf, client>>

Events == Topics \X (1..MaxEvents)
Reply == <<"reply", 0>>
Error == <<"error", 0>>
Lines == {Reply, Error} \cup Events

Readers == [at : {"none", "read", "dispatch", "answer", "remove", "drop", "join", "done"},
            topic : Topics, line : {Reply, Error}, asked : BOOLEAN]
Writers == [at : {"none", "runs", "gone"}, wrote : Nat]
Peers == [at : {"none", "subscribe", "events", "gone"}, read : Nat]

BusTypeOK ==
  /\ bus \subseteq [topic : Topics, conn : Connections, from : 0..MaxEvents]
  /\ published \in [Topics -> 0..MaxEvents]
  /\ readerOf \in [Connections -> Readers]
  /\ sent \in [Connections -> Seq(Lines)]
  /\ writerOf \in [Connections -> Writers]
  /\ client \in [Connections -> Peers]

BusInit ==
  /\ bus = {} /\ published = [t \in Topics |-> 0]
  /\ readerOf \in [Connections -> {[at |-> "none", topic |-> t, line |-> Error, asked |-> FALSE] : t \in Topics}]
  /\ sent = [c \in Connections |-> <<>>]
  /\ writerOf = [c \in Connections |-> [at |-> "none", wrote |-> 0]]
  /\ client = [c \in Connections |-> [at |-> "none", read |-> 0]]

Own(c) == {r \in bus : r.conn = c}
Send(c, line) == sent' = [sent EXCEPT ![c] = Append(@, line)]

-----------------------------------------------------------------------------
(* The read loop of a connection.                                          *)

Reads(c) == readerOf[c].at = "read"
Goes(c, from, to) == readerOf[c].at = from /\ readerOf' = [readerOf EXCEPT ![c].at = to]

ReadRequest(c) ==
  /\ Reads(c) /\ ~readerOf[c].asked
  /\ readerOf' = [readerOf EXCEPT ![c].at = "dispatch", ![c].asked = TRUE]
  /\ UNCHANGED <<bus, published, sent, writerOf, client>>

ReadEof(c) ==
  /\ Reads(c) /\ readerOf[c].asked /\ client[c].at = "gone"
  /\ Goes(c, "read", "remove") /\ UNCHANGED <<bus, published, sent, writerOf, client>>

\* dispatch, EventSubscribe: pushes may come from here on.
Subscribe(c) ==
  /\ readerOf[c].at = "dispatch"
  /\ bus' = bus \cup {[topic |-> readerOf[c].topic, conn |-> c, from |-> published[readerOf[c].topic]]}
  /\ readerOf' = [readerOf EXCEPT ![c].at = "answer", ![c].line = Reply]
  /\ UNCHANGED <<published, sent, writerOf, client>>

\* ensure_event_pump fails.
SubscribeFails(c) ==
  /\ readerOf[c].at = "dispatch"
  /\ readerOf' = [readerOf EXCEPT ![c].at = "answer", ![c].line = Error]
  /\ UNCHANGED <<bus, published, sent, writerOf, client>>

\* A channel whose writer is gone ends the loop.
Respond(c) ==
  /\ readerOf[c].at = "answer"
  /\ IF writerOf[c].at = "gone"
     THEN Goes(c, "answer", "remove") /\ UNCHANGED sent
     ELSE Goes(c, "answer", "read") /\ Send(c, readerOf[c].line)
  /\ UNCHANGED <<bus, published, writerOf, client>>

\* Mutant: the registrations are left to the next broadcast that fails.
RemoveConnLater(c) ==
  /\ Goes(c, "remove", "drop")
  /\ UNCHANGED <<bus, published, sent, writerOf, client>>

\* remove_conn
RemoveConn(c) ==
  /\ Goes(c, "remove", "drop")
  /\ bus' = bus \ Own(c)
  /\ UNCHANGED <<published, sent, writerOf, client>>

DropOut(c) == Goes(c, "drop", "join") /\ UNCHANGED <<bus, published, sent, writerOf, client>>

Join(c) ==
  /\ writerOf[c].at = "gone"
  /\ Goes(c, "join", "done") /\ UNCHANGED <<bus, published, sent, writerOf, client>>

ReadLoop(c) ==
  \/ ReadRequest(c) \/ ReadEof(c) \/ Subscribe(c) \/ SubscribeFails(c)
  \/ Respond(c) \/ RemoveConn(c) \/ DropOut(c) \/ Join(c)

-----------------------------------------------------------------------------
(* The writer thread.                                                      *)

Queued(c) == Len(sent[c]) > writerOf[c].wrote
HasSender(c) == readerOf[c].at \notin {"join", "done"} \/ Own(c) # {}

\* The next line goes to the socket when there is room, or shows that the peer is
\* gone.
WriterWrites(c) ==
  /\ writerOf[c].at = "runs" /\ Queued(c)
  /\ \/ client[c].at = "gone" /\ writerOf' = [writerOf EXCEPT ![c].at = "gone"]
     \/ /\ client[c].at # "gone" /\ writerOf[c].wrote - client[c].read < SocketCap
        /\ writerOf' = [writerOf EXCEPT ![c].wrote = @ + 1]

\* The channel is empty and nobody can put anything into it any more.
WriterEnds(c) ==
  /\ writerOf[c].at = "runs" /\ ~Queued(c) /\ ~HasSender(c)
  /\ writerOf' = [writerOf EXCEPT ![c].at = "gone"]

WriterThread(c) ==
  /\ WriterWrites(c) \/ WriterEnds(c)
  /\ UNCHANGED <<bus, published, readerOf, sent, client>>

-----------------------------------------------------------------------------
(* The bus, called by pumps and by any connection.                         *)

On(t) == {r \in bus : r.topic = t}
Dead(r) == writerOf[r.conn].at = "gone"

\* Mutant: a dead registration ends the round.
ServedUpToDead(t) == IF \E r \in On(t) : Dead(r) THEN {} ELSE On(t)

\* The registrations a broadcast reaches.
Served(t) == {r \in On(t) : ~Dead(r)}

\* One line to every registration of the topic; those that fail are dropped.
Broadcast(t) ==
  /\ published[t] < MaxEvents
  /\ published' = [published EXCEPT ![t] = @ + 1]
  /\ sent' = [c \in Connections |->
       IF \E r \in Served(t) : r.conn = c THEN Append(sent[c], <<t, published[t] + 1>>) ELSE sent[c]]
  /\ bus' = {r \in bus : r.topic = t => ~Dead(r)}
  /\ UNCHANGED <<readerOf, writerOf, client>>

\* unsubscribe knows ids, not owners.
Unsubscribe(r) == bus' = bus \ {r} /\ UNCHANGED <<published, readerOf, sent, writerOf, client>>

-----------------------------------------------------------------------------
(* The client.                                                             *)

Connect(c) ==
  /\ client[c].at = "none"
  /\ client' = [client EXCEPT ![c].at = "subscribe"]
  /\ readerOf' = [readerOf EXCEPT ![c].at = "read"]
  /\ writerOf' = [writerOf EXCEPT ![c].at = "runs"]
  /\ UNCHANGED <<bus, published, sent>>

\* subscribe takes the first line for its reply.
Read(c) ==
  /\ client[c].at \in {"subscribe", "events"} /\ client[c].read < writerOf[c].wrote
  /\ client' = [client EXCEPT ![c] =
       [at |-> IF @.at = "events" \/ sent[c][@.read + 1] = Reply THEN "events" ELSE "gone",
        read |-> @.read + 1]]

Close(c) == client[c].at = "events" /\ client' = [client EXCEPT ![c].at = "gone"]

Client(c) ==
  /\ Read(c) \/ Close(c)
  /\ UNCHANGED <<bus, published, readerOf, sent, writerOf>>

-----------------------------------------------------------------------------
BusNext ==
  \/ \E c \in Connections : ReadLoop(c) \/ WriterThread(c) \/ Connect(c) \/ Client(c)
  \/ \E t \in Topics : Broadcast(t)
  \/ \E r \in bus : Unsubscribe(r)

\* The two threads of a connection run; nothing is asked of pumps and clients.
BusFairness == \A c \in Connections : WF_busVars(ReadLoop(c)) /\ WF_busVars(WriterThread(c))

BusSpec == BusInit /\ [][BusNext]_busVars /\ BusFairness

-----------------------------------------------------------------------------
(* Properties.                                                             *)

\* Where the events of a topic are in what a connection was sent.
EventPlaces(c, t) == {i \in DOMAIN sent[c] : sent[c][i] \in {t} \X (1..MaxEvents)}

InOrder(c, t) == \A i, j \in EventPlaces(c, t) : i < j => sent[c][i][2] < sent[c][j][2]

SentSince(r) ==
  \A n \in (r.from + 1)..published[r.topic] : \E i \in DOMAIN sent[r.conn] :
    sent[r.conn][i] = <<r.topic, n>>

\* A registration that lives is sent every event of its topic from then on, and
\* every connection what it is sent once and in order, whatever happens to other
\* subscribers.
PushesComplete ==
  /\ \A r \in bus : ~Dead(r) => SentSince(r)
  /\ \A c \in Connections, t \in Topics : InOrder(c, t)

\* The threads of a connection end when its peer is gone, although the bus holds
\* senders of the channel that the writer waits on.
ConnectionEnds == \A c \in Connections : (client[c].at = "gone") ~> (readerOf[c].at = "done")
=============================================================================
