----------------------------- MODULE WireProofs -----------------------------
(***************************************************************************)
(* What travels between processes: the pushes of the event bus reach every *)
(* live registration whole and in order, for any number of topics and      *)
(* connections, and a call of an MCP server ends with its own reply or     *)
(* with a reason that is true, for any number of callers.  At the far end  *)
(* the terminal client's view names the messages of the session it shows,  *)
(* through all retries, edits, rewinds and switches, and the web page      *)
(* keeps replies in their session and archived sessions out.               *)
(***************************************************************************)
EXTENDS EventBus, McpClient, TuiClient, WebClient, FiniteSetTheorems, TLAPS

(***************************************************************************)
(* The event bus.                                                          *)
(***************************************************************************)

\* A line that is appended leaves the others where they are.
LEMMA Appended ==
  ASSUME NEW S, NEW s \in Seq(S), NEW x \in S
  PROVE  /\ Append(s, x) \in Seq(S) /\ Len(s) \in Nat
         /\ \A i \in DOMAIN s : i \in DOMAIN Append(s, x) /\ Append(s, x)[i] = s[i]
         /\ \A i \in DOMAIN Append(s, x) :
              i \in DOMAIN s \/ (i = Len(s) + 1 /\ Append(s, x)[i] = x)
         /\ \E i \in DOMAIN Append(s, x) : Append(s, x)[i] = x
         /\ DOMAIN s = 1..Len(s)
<1>1. Append(s, x) \in Seq(S) /\ Len(s) \in Nat /\ DOMAIN s = 1..Len(s)
  OBVIOUS
<1>2. /\ \A i \in DOMAIN s : i \in DOMAIN Append(s, x) /\ Append(s, x)[i] = s[i]
      /\ \A i \in DOMAIN Append(s, x) :
              i \in DOMAIN s \/ (i = Len(s) + 1 /\ Append(s, x)[i] = x)
  OBVIOUS
<1>3. Len(s) + 1 \in DOMAIN Append(s, x) /\ Append(s, x)[Len(s) + 1] = x
  OBVIOUS
<1> QED
  BY <1>1, <1>2, <1>3

\* What a connection was sent carries numbers that were published; whoever
\* was not connected yet has no writer, so a dead channel stays dead.
BusInv ==
  /\ BusTypeOK
  /\ PushesComplete
  /\ \A c \in Connections, t \in Topics : \A i \in EventPlaces(c, t) : sent[c][i][2] <= published[t]
  /\ \A c \in Connections : client[c].at = "none" => writerOf[c].at = "none"

\* The invariant holds of an empty bus.
LEMMA BusInitInv == BusInit => BusInv
<1> SUFFICES ASSUME BusInit PROVE BusInv
  OBVIOUS
<1>1. BusTypeOK
  <2>1. readerOf \in [Connections -> Readers]
    <3>1. \A t \in Topics : [at |-> "none", topic |-> t, line |-> Error, asked |-> FALSE] \in Readers
      BY DEF Readers
    <3> QED
      BY <3>1 DEF BusInit
  <2>2. writerOf \in [Connections -> Writers] /\ client \in [Connections -> Peers]
    BY DEF BusInit, Writers, Peers
  <2>3. published \in [Topics -> 0..MaxEvents] /\ sent \in [Connections -> Seq(Lines)] /\ bus = {}
    BY EventAssumption DEF BusInit
  <2> QED
    BY <2>1, <2>2, <2>3 DEF BusTypeOK
<1>2. \A c \in Connections : sent[c] = <<>> /\ client[c].at = "none" /\ writerOf[c].at = "none"
  BY DEF BusInit
<1>3. \A c \in Connections, t \in Topics : EventPlaces(c, t) = {}
  BY <1>2 DEF EventPlaces
<1>4. PushesComplete
  BY <1>3 DEF BusInit, PushesComplete, InOrder
<1> QED
  BY <1>1, <1>2, <1>3, <1>4 DEF BusInv

\* A step that sends nothing, publishes nothing, adds no registration and
\* revives no writer keeps the invariant.
LEMMA QuietKeeps ==
  ASSUME BusInv, BusTypeOK', UNCHANGED <<sent, published>>, bus' \subseteq bus,
         \A c \in Connections : writerOf[c].at = "gone" => writerOf'[c].at = "gone",
         \A c \in Connections : client'[c].at = "none" => writerOf'[c].at = "none"
  PROVE  BusInv'
<1>1. \A r \in bus' : ~Dead(r)' => SentSince(r)'
  <2> SUFFICES ASSUME NEW r \in bus', ~Dead(r)' PROVE SentSince(r)'
    OBVIOUS
  <2>1. r \in bus /\ r.conn \in Connections
    BY DEF BusInv, BusTypeOK
  <2>2. ~Dead(r)
    BY <2>1 DEF Dead
  <2> QED
    BY <2>1, <2>2 DEF BusInv, PushesComplete, SentSince
<1> QED
  BY <1>1 DEF BusInv, PushesComplete, InOrder, EventPlaces

\* Every step of a publisher, a subscriber and a socket keeps it.
LEMMA BusStep == BusInv /\ [BusNext]_busVars => BusInv'
<1> SUFFICES ASSUME BusInv, [BusNext]_busVars PROVE BusInv'
  OBVIOUS
<1> USE EventAssumption
<1>0. BusTypeOK
  BY DEF BusInv
<1>r. readerOf \in [Connections -> Readers]
  BY <1>0 DEF BusTypeOK
<1>w. writerOf \in [Connections -> Writers]
  BY <1>0 DEF BusTypeOK
<1>p. client \in [Connections -> Peers]
  BY <1>0 DEF BusTypeOK
<1>1. ASSUME NEW c \in Connections,
             ReadRequest(c) \/ ReadEof(c) \/ SubscribeFails(c) \/ RemoveConn(c) \/ DropOut(c) \/ Join(c)
      PROVE  BusInv'
  <2>0. readerOf' \in [Connections -> Readers]
    <3>1. CASE ReadRequest(c) \/ SubscribeFails(c)
      BY <1>r, <3>1 DEF ReadRequest, SubscribeFails, Readers
    <3>2. CASE ReadEof(c) \/ RemoveConn(c) \/ DropOut(c) \/ Join(c)
      <4>1. \E at \in {"remove", "drop", "join", "done"} : readerOf' = [readerOf EXCEPT ![c].at = at]
        BY <3>2 DEF ReadEof, RemoveConn, DropOut, Join, Goes
      <4> QED
        BY <1>r, <4>1 DEF Readers
    <3> QED
      BY <1>1, <3>1, <3>2
  <2>2. UNCHANGED <<sent, published, writerOf, client>> /\ bus' \subseteq bus
    BY <1>1 DEF ReadRequest, ReadEof, SubscribeFails, RemoveConn, DropOut, Join, Goes, Own
  <2>1. BusTypeOK'
    BY <1>0, <2>0, <2>2 DEF BusTypeOK
  <2> QED
    BY <2>1, <2>2, QuietKeeps DEF BusInv
<1>2. ASSUME NEW c \in Connections, Subscribe(c) PROVE BusInv'
  <2>r. PICK r : r = [topic |-> readerOf[c].topic, conn |-> c, from |-> published[readerOf[c].topic]]
    OBVIOUS
  <2>0. /\ readerOf[c].topic \in Topics /\ published[readerOf[c].topic] \in 0..MaxEvents
        /\ readerOf' = [readerOf EXCEPT ![c].at = "answer", ![c].line = Reply]
        /\ bus' = bus \cup {r}
    BY <1>r, <1>0, <1>2, <2>r DEF BusTypeOK, Subscribe, Readers
  <2>1. BusTypeOK'
    <3>1. readerOf' \in [Connections -> Readers]
      BY <1>r, <2>0 DEF Readers
    <3> QED
      BY <1>0, <1>2, <2>0, <2>r, <3>1 DEF BusTypeOK, Subscribe
  <2>2. SentSince(r)'
    <3>1. r.from = published'[r.topic] /\ r.from \in Nat
      BY <1>2, <2>0, <2>r DEF Subscribe
    <3>2. (r.from + 1)..published'[r.topic] = {}
      BY <3>1
    <3> QED
      BY <3>2 DEF SentSince
  <2>3. \A x \in bus' : ~Dead(x)' => SentSince(x)'
    <3> TAKE x \in bus'
    <3> HAVE ~Dead(x)'
    <3>0. CASE x \in bus
      <4>1. ~Dead(x)
        BY <1>2 DEF Dead, Subscribe
      <4>2. SentSince(x)
        BY <3>0, <4>1 DEF BusInv, PushesComplete
      <4> QED
        BY <1>2, <4>2 DEF Subscribe, SentSince
    <3> QED
      BY <2>0, <2>2, <3>0
  <2> QED
    BY <1>2, <2>1, <2>3 DEF Subscribe, BusInv, PushesComplete, InOrder, EventPlaces
<1>3. ASSUME NEW c \in Connections, Respond(c) PROVE BusInv'
  <2>1. CASE writerOf[c].at = "gone"
    <3>1. readerOf' \in [Connections -> Readers]
      BY <1>r, <1>3 DEF Respond, Goes, Readers
    <3>2. BusTypeOK'
      BY <1>0, <1>3, <2>1, <3>1 DEF BusTypeOK, Respond
    <3> QED
      BY <1>3, <2>1, <3>2, QuietKeeps DEF Respond, BusInv
  <2>2. CASE writerOf[c].at # "gone"
    <3> DEFINE line == readerOf[c].line
    <3>1. line \in {Reply, Error} /\ line \in Lines
      BY <1>0 DEF BusTypeOK, Readers, Lines
    <3>2. sent' = [sent EXCEPT ![c] = Append(@, line)]
      BY <1>3, <2>2 DEF Respond, Send
    <3>3. /\ sent' \in [Connections -> Seq(Lines)]
          /\ \A d \in Connections : \A i \in DOMAIN sent[d] :
               i \in DOMAIN sent'[d] /\ sent'[d][i] = sent[d][i]
          /\ \A d \in Connections : \A i \in DOMAIN sent'[d] :
               i \in DOMAIN sent[d] \/ sent'[d][i] = line
      <4>1. sent[c] \in Seq(Lines)
        BY <1>0 DEF BusTypeOK
      <4>2. Append(sent[c], line) \in Seq(Lines)
        BY <4>1, <3>1
      <4>3. sent' \in [Connections -> Seq(Lines)]
        BY <1>0, <3>2, <4>2 DEF BusTypeOK
      <4>4. sent'[c] = Append(sent[c], line) /\ \A d \in Connections \ {c} : sent'[d] = sent[d]
        BY <1>0, <3>2 DEF BusTypeOK
      <4> HIDE DEF line
      <4>5. \A d \in Connections : \A i \in DOMAIN sent[d] :
              i \in DOMAIN sent'[d] /\ sent'[d][i] = sent[d][i]
        BY <4>1, <4>4
      <4>6. \A d \in Connections : \A i \in DOMAIN sent'[d] :
              i \in DOMAIN sent[d] \/ sent'[d][i] = line
        BY <4>1, <4>4
      <4> QED
        BY <4>3, <4>5, <4>6
    <3>4. BusTypeOK'
      <4>1. readerOf' \in [Connections -> Readers]
        BY <1>r, <1>3 DEF Respond, Goes, Readers
      <4> QED
        BY <1>0, <1>3, <3>3, <4>1 DEF BusTypeOK, Respond
    <3>5. \A t \in Topics : line \notin {t} \X (1..MaxEvents)
      BY <3>1 DEF Reply, Error
    <3>6. \A d \in Connections, t \in Topics : EventPlaces(d, t)' = EventPlaces(d, t)
      BY <3>3, <3>5 DEF EventPlaces
    <3>7. \A r \in bus' : ~Dead(r)' => SentSince(r)'
      <4> SUFFICES ASSUME NEW r \in bus, ~Dead(r) PROVE SentSince(r)'
        BY <1>3 DEF Respond, Dead
      <4>1. r.conn \in Connections /\ SentSince(r)
        BY <1>0 DEF BusTypeOK, BusInv, PushesComplete
      <4> QED
        BY <1>3, <3>3, <4>1 DEF Respond, SentSince
    <3>8. \A d \in Connections, t \in Topics : InOrder(d, t)'
      BY <3>3, <3>6 DEF BusInv, PushesComplete, InOrder, EventPlaces
    <3>9. \A d \in Connections, t \in Topics : \A i \in EventPlaces(d, t)' :
            sent'[d][i][2] <= published'[t]
      BY <1>3, <3>3, <3>6 DEF BusInv, Respond, EventPlaces
    <3> QED
      BY <1>3, <3>4, <3>7, <3>8, <3>9 DEF BusInv, PushesComplete, Respond
  <2> QED
    BY <2>1, <2>2
<1>4. ASSUME NEW c \in Connections, WriterThread(c) PROVE BusInv'
  <2>0. writerOf' \in [Connections -> Writers]
    BY <1>w, <1>4 DEF WriterThread, WriterWrites, WriterEnds, Writers
  <2>1. BusTypeOK'
    BY <1>0, <1>4, <2>0 DEF BusTypeOK, WriterThread
  <2>2. /\ \A d \in Connections : writerOf[d].at = "gone" => writerOf'[d].at = "gone"
        /\ \A d \in Connections : writerOf[d].at = "none" => writerOf'[d].at = "none"
    BY <1>w, <1>4 DEF WriterThread, WriterWrites, WriterEnds, Writers
  <2> QED
    BY <1>4, <2>1, <2>2, QuietKeeps DEF WriterThread, BusInv
<1>5. ASSUME NEW c \in Connections, Connect(c) PROVE BusInv'
  <2>0. /\ readerOf' \in [Connections -> Readers] /\ writerOf' \in [Connections -> Writers]
        /\ client' \in [Connections -> Peers]
    <3>1. readerOf' \in [Connections -> Readers]
      BY <1>r, <1>5 DEF Connect, Readers
    <3>2. writerOf' \in [Connections -> Writers]
      BY <1>w, <1>5 DEF Connect, Writers
    <3>3. client' \in [Connections -> Peers]
      BY <1>p, <1>5 DEF Connect, Peers
    <3> QED
      BY <3>1, <3>2, <3>3
  <2>1. BusTypeOK'
    BY <1>0, <1>5, <2>0 DEF BusTypeOK, Connect
  <2>2. writerOf[c].at = "none"
    BY <1>5 DEF Connect, BusInv
  <2> QED
    <3>1. \A d \in Connections : writerOf[d].at = "gone" => writerOf'[d].at = "gone"
      BY <1>w, <1>5, <2>2 DEF Connect, Writers
    <3>2. \A d \in Connections : client'[d].at = "none" => d # c /\ client[d].at = "none"
      BY <1>p, <1>5 DEF Connect, Peers
    <3>3. \A d \in Connections \ {c} : writerOf'[d] = writerOf[d]
      BY <1>w, <1>5 DEF Connect
    <3>4. \A d \in Connections : client'[d].at = "none" => writerOf'[d].at = "none"
      BY <3>2, <3>3 DEF BusInv
    <3> QED
      BY <1>5, <2>1, <3>1, <3>4, QuietKeeps DEF Connect
<1>6. ASSUME NEW c \in Connections, Client(c) PROVE BusInv'
  <2>0. client' \in [Connections -> Peers]
    BY <1>p, <1>6 DEF Client, Read, Close, Peers
  <2>1. BusTypeOK'
    BY <1>0, <1>6, <2>0 DEF BusTypeOK, Client
  <2>2. \A d \in Connections : client'[d].at = "none" => client[d].at = "none"
    BY <1>p, <1>6 DEF Client, Read, Close, Peers
  <2> QED
    BY <1>6, <2>1, <2>2, QuietKeeps DEF Client, BusInv
<1>7. ASSUME NEW t \in Topics, Broadcast(t) PROVE BusInv'
  <2> DEFINE n == published[t] + 1
             line == <<t, n>>
             Reached(c) == \E r \in Served(t) : r.conn = c
  <2>1. /\ n \in 1..MaxEvents /\ published[t] \in Nat /\ published'[t] = n
        /\ \A u \in Topics \ {t} : published'[u] = published[u]
        /\ published' \in [Topics -> 0..MaxEvents]
    BY <1>0, <1>7 DEF Broadcast, BusTypeOK
  <2>2. line \in Lines /\ \A u \in Topics : line \in {u} \X (1..MaxEvents) => u = t
    BY <2>1 DEF Lines, Events
  <2>3. /\ sent' \in [Connections -> Seq(Lines)]
        /\ \A c \in Connections : \A i \in DOMAIN sent[c] :
             i \in DOMAIN sent'[c] /\ sent'[c][i] = sent[c][i]
        /\ \A c \in Connections : \A i \in DOMAIN sent'[c] :
             i \in DOMAIN sent[c] \/ (sent'[c][i] = line /\ i = Len(sent[c]) + 1)
        /\ \A c \in Connections : Reached(c) => \E i \in DOMAIN sent'[c] : sent'[c][i] = line
        /\ \A c \in Connections : Len(sent[c]) \in Nat /\ DOMAIN sent[c] = 1..Len(sent[c])
        /\ \A c \in Connections : DOMAIN sent'[c] \subseteq Nat
    <3>1. \A c \in Connections : sent[c] \in Seq(Lines)
      BY <1>0 DEF BusTypeOK
    <3>2. \A c \in Connections : sent'[c] = IF Reached(c) THEN Append(sent[c], line) ELSE sent[c]
      BY <1>7 DEF Broadcast
    <3>0. line \in Lines
      BY <2>2
    <3> HIDE DEF line, Reached
    <3>3. ASSUME NEW c \in Connections
          PROVE  /\ sent'[c] \in Seq(Lines)
                 /\ \A i \in DOMAIN sent[c] : i \in DOMAIN sent'[c] /\ sent'[c][i] = sent[c][i]
                 /\ \A i \in DOMAIN sent'[c] :
                      i \in DOMAIN sent[c] \/ (sent'[c][i] = line /\ i = Len(sent[c]) + 1)
                 /\ Reached(c) => \E i \in DOMAIN sent'[c] : sent'[c][i] = line
                 /\ Len(sent[c]) \in Nat /\ DOMAIN sent[c] = 1..Len(sent[c])
                 /\ DOMAIN sent'[c] \subseteq Nat
      <4>1. sent[c] \in Seq(Lines) /\ Len(sent[c]) \in Nat /\ DOMAIN sent[c] = 1..Len(sent[c])
        BY <3>1
      <4>2. CASE Reached(c)
        <5>1. sent'[c] = Append(sent[c], line)
          BY <3>2, <4>2
        <5>2. sent'[c] \in Seq(Lines)
          BY <3>0, <4>1, <5>1, Appended
        <5>3. DOMAIN sent'[c] \subseteq Nat
          BY <5>2
        <5> QED
          BY <3>0, <4>1, <5>1, <5>2, <5>3, Appended
      <4>3. CASE ~Reached(c)
        BY <3>2, <4>1, <4>3
      <4> QED
        BY <4>2, <4>3
    <3>4. sent' \in [Connections -> Seq(Lines)]
      BY <1>7, <3>3 DEF Broadcast
    <3> QED
      BY <3>3, <3>4
  <2>4. BusTypeOK'
    BY <1>0, <1>7, <2>1, <2>3 DEF BusTypeOK, Broadcast
  <2>5. \A c \in Connections, u \in Topics : \A i \in EventPlaces(c, u)' :
          i \in EventPlaces(c, u) \/ (u = t /\ sent'[c][i] = line /\ i = Len(sent[c]) + 1)
    BY <2>2, <2>3 DEF EventPlaces
  <2>6. \A c \in Connections, u \in Topics : \A i \in EventPlaces(c, u)' :
          sent'[c][i][2] <= published'[u]
    <3> TAKE c \in Connections, u \in Topics
    <3> TAKE i \in EventPlaces(c, u)'
    <3>1. CASE i \in EventPlaces(c, u)
      <4>1. sent'[c][i] = sent[c][i] /\ sent[c][i][2] <= published[u] /\ sent[c][i][2] \in Nat
        BY <2>3, <3>1 DEF EventPlaces, BusInv
      <4>2. published[u] \in Nat /\ published[u] <= published'[u] /\ published'[u] \in Nat
        <5>1. published[u] \in Nat /\ published'[u] \in Nat
          BY <1>0, <2>1 DEF BusTypeOK
        <5> QED
          BY <2>1, <5>1
      <4> QED
        BY <4>1, <4>2
    <3>2. CASE u = t /\ sent'[c][i] = line
      BY <2>1, <3>2
    <3> QED
      BY <2>5, <3>1, <3>2
  <2>7. \A c \in Connections, u \in Topics : InOrder(c, u)'
    <3> SUFFICES ASSUME NEW c \in Connections, NEW u \in Topics,
                        NEW i \in EventPlaces(c, u)', NEW j \in EventPlaces(c, u)', i < j
                 PROVE  sent'[c][i][2] < sent'[c][j][2]
      BY DEF InOrder
    <3>0. i \in Nat /\ j \in Nat
      BY <2>3 DEF EventPlaces
    <3>1. CASE j \in EventPlaces(c, u)
      <4>1. i \in EventPlaces(c, u)
        BY <2>5, <3>0, <3>1, <2>3 DEF EventPlaces
      <4> QED
        BY <3>1, <4>1, <2>3 DEF BusInv, PushesComplete, InOrder, EventPlaces
    <3>2. CASE j \notin EventPlaces(c, u)
      <4>1. u = t /\ sent'[c][j] = line /\ j \notin DOMAIN sent[c] /\ j = Len(sent[c]) + 1
        BY <2>5, <2>3, <3>2 DEF EventPlaces
      <4>2. i \in EventPlaces(c, u)
        BY <2>5, <3>0, <4>1, <2>3 DEF EventPlaces
      <4>3. sent'[c][i] = sent[c][i] /\ sent[c][i][2] <= published[t] /\ sent[c][i][2] \in Nat
        BY <2>3, <4>1, <4>2 DEF EventPlaces, BusInv
      <4> QED
        BY <4>1, <4>3, <2>1
    <3> QED
      BY <3>1, <3>2
  <2>8. \A r \in bus' : ~Dead(r)' => SentSince(r)'
    <3> SUFFICES ASSUME NEW r \in bus', ~Dead(r)', NEW k \in ((r.from + 1)..published[r.topic])'
                 PROVE  \E i \in DOMAIN sent'[r.conn] : sent'[r.conn][i] = <<r.topic, k>>
      BY DEF SentSince
    <3>1. r \in bus /\ ~Dead(r) /\ r.conn \in Connections /\ r.topic \in Topics /\ r.from \in Nat
      BY <1>0, <1>7 DEF Broadcast, Dead, BusTypeOK
    <3>2. CASE k \in (r.from + 1)..published[r.topic]
      <4>1. \E i \in DOMAIN sent[r.conn] : sent[r.conn][i] = <<r.topic, k>>
        BY <3>1, <3>2 DEF BusInv, PushesComplete, SentSince
      <4> QED
        BY <2>3, <3>1, <4>1
    <3>3. CASE k \notin (r.from + 1)..published[r.topic]
      <4>1. r.topic = t /\ k = n
        BY <1>0, <2>1, <3>1, <3>3 DEF BusTypeOK
      <4>2. Reached(r.conn)
        BY <3>1, <4>1 DEF Served, On
      <4> QED
        BY <2>3, <3>1, <4>1, <4>2
    <3> QED
      BY <3>2, <3>3
  <2> QED
    BY <1>7, <2>4, <2>6, <2>7, <2>8 DEF BusInv, PushesComplete, Broadcast
<1>8. ASSUME NEW r \in bus, Unsubscribe(r) PROVE BusInv'
  <2>1. BusTypeOK'
    BY <1>0, <1>8 DEF BusTypeOK, Unsubscribe
  <2> QED
    BY <1>8, <2>1, QuietKeeps DEF Unsubscribe, BusInv
<1>9. CASE UNCHANGED busVars
  <2>1. BusTypeOK'
    BY <1>0, <1>9 DEF BusTypeOK, busVars
  <2> QED
    BY <1>9, <2>1, QuietKeeps DEF busVars, BusInv
<1> QED
  BY <1>1, <1>2, <1>3, <1>4, <1>5, <1>6, <1>7, <1>8, <1>9 DEF BusNext, ReadLoop

\* Every variable of the bus and its connections keeps its type.
THEOREM BusTyped == BusSpec => []BusTypeOK
<1>1. BusInv => BusTypeOK
  BY DEF BusInv
<1>2. BusSpec => []BusInv
  BY BusInitInv, BusStep, PTL DEF BusSpec
<1> QED
  BY <1>1, <1>2, PTL

\* Whatever other subscribers do, a registration that lives is sent every
\* event of its topic once and in order (state.rs EventBus::broadcast).
THEOREM NoPushLost == BusSpec => []PushesComplete
<1>1. BusInv => PushesComplete
  BY DEF BusInv
<1>2. BusSpec => []BusInv
  BY BusInitInv, BusStep, PTL DEF BusSpec
<1> QED
  BY <1>1, <1>2, PTL

(***************************************************************************)
(* The MCP client.                                                         *)
(***************************************************************************)

InSection == {"wants", "writing", "polling", "receiving"}
OnHttp == {"trying", "posting", "backoff"}

\* A call that is under way has an id of its own; every reply in the channel is
\* the server's answer to the request it names; only HTTP calls take the retry
\* wrapper's way.
McpInv ==
  /\ McpTypeOK
  /\ ReplyOrReason
  /\ \A t \in Threads : call[t].at # "idle" => call[t].id \in Ids
  /\ \A t \in Threads : call[t].at \in OnHttp => kind = "http"
  /\ \A t \in Threads : call[t].at \in {"trying", "backoff"} => call[t].tries < MaxAttempts
  /\ \A i \in DOMAIN replies : replies[i] # 0 => replies[i] \in answered
  /\ stage \in {"start", "ack", "pages"} => pages < MaxPages

\* The invariant holds before the first call.
LEMMA McpInitInv == McpInit => McpInv
<1> SUFFICES ASSUME McpInit PROVE McpInv
  OBVIOUS
<1>1. Idle \in Calls
  BY PolicyAssumption, McpBounds DEF Idle, Calls, Places, Outcomes
<1>2. McpTypeOK
  BY <1>1, PolicyAssumption, McpBounds DEF McpInit, McpTypeOK
<1>3. \A t \in Threads : call[t].at = "idle" /\ call[t].out = "none"
  BY DEF McpInit, Idle
<1>4. ReplyOrReason
  BY <1>3 DEF ReplyOrReason
<1> QED
  BY <1>2, <1>3, <1>4, PolicyAssumption DEF McpInit, McpInv, OnHttp

\* What a call that is over may say.
Reason(t) ==
  CASE call[t].out \in {"reply", "server"} -> call[t].id \in answered \/ kind = "http"
    [] call[t].out = "aborted" -> signal[t]
    [] call[t].out = "timeout" -> call[t].expired
    [] call[t].out = "transport" -> kind = "http" \/ ~alive
    [] call[t].out = "protocol" -> kind = "http"
    [] OTHER -> TRUE

\* A step of one call: the others, and what they rest on, stay.
LEMMA CallKeeps ==
  ASSUME McpInv, NEW t \in Threads,
         call' \in [Threads -> Calls], \A u \in Threads \ {t} : call'[u] = call[u],
         io' \in Threads \cup {NoOne}, inbox' \in Seq(0..MaxIds),
         UNCHANGED <<kind, stage, pages, nextId, signal, working, noise, alive>>,
         answered \subseteq answered', answered' \subseteq Ids,
         replies' \in Seq(0..MaxIds),
         \A i \in DOMAIN replies' : replies'[i] # 0 => replies'[i] \in answered',
         call'[t].at # "idle" => call'[t].id \in Ids,
         call'[t].at \in OnHttp => kind = "http",
         call'[t].at \in {"trying", "backoff"} => call'[t].tries < MaxAttempts,
         call'[t].at = "idle" => Reason(t)'
  PROVE  McpInv'
<1>1. McpTypeOK'
  BY DEF McpInv, McpTypeOK
<1>2. \A u \in Threads \ {t} : call[u].at = "idle" => Reason(u)'
  <2> SUFFICES ASSUME NEW u \in Threads \ {t}, call[u].at = "idle" PROVE Reason(u)'
    OBVIOUS
  <2>1. Reason(u)
    BY DEF McpInv, ReplyOrReason, Reason
  <2> QED
    BY <2>1 DEF Reason
<1>3. ReplyOrReason'
  <2>1. \A u \in Threads : call'[u].at = "idle" => Reason(u)'
    BY <1>2
  <2> QED
    BY <2>1 DEF ReplyOrReason, Reason
<1>4. /\ \A u \in Threads : call'[u].at # "idle" => call'[u].id \in Ids
      /\ \A u \in Threads : call'[u].at \in OnHttp => kind' = "http"
      /\ \A u \in Threads : call'[u].at \in {"trying", "backoff"} => call'[u].tries < MaxAttempts
  BY DEF McpInv
<1> QED
  BY <1>1, <1>3, <1>4 DEF McpInv

\* A call that moves on, or that returns, keeps the rest of its record.
LEMMA Moved ==
  ASSUME call \in [Threads -> Calls], NEW t \in Threads, NEW at \in Places, Moves(t, at)
  PROVE  /\ call' \in [Threads -> Calls] /\ \A u \in Threads \ {t} : call'[u] = call[u]
         /\ call'[t].at = at /\ call'[t].id = call[t].id /\ call'[t].tries = call[t].tries
BY DEF Moves, Calls

\* A call that returns leaves its entry.
LEMMA Returned ==
  ASSUME call \in [Threads -> Calls], NEW t \in Threads, NEW out \in Outcomes, Returns(t, out)
  PROVE  /\ call' \in [Threads -> Calls] /\ \A u \in Threads \ {t} : call'[u] = call[u]
         /\ call'[t].at = "idle" /\ call'[t].out = out
         /\ call'[t].id = call[t].id /\ call'[t].expired = call[t].expired
BY DEF Returns, Calls, Places

\* Every step of a caller, the reader and the server keeps it.
LEMMA McpStep == McpInv /\ [McpNext]_mcpVars => McpInv'
<1> SUFFICES ASSUME McpInv, [McpNext]_mcpVars PROVE McpInv'
  OBVIOUS
<1> USE PolicyAssumption, McpBounds, ThreadAssumption
<1>0. /\ McpTypeOK
      /\ call \in [Threads -> Calls] /\ inbox \in Seq(0..MaxIds) /\ replies \in Seq(0..MaxIds)
      /\ answered \subseteq Ids /\ io \in Threads \cup {NoOne}
      /\ \A t \in Threads : call[t] \in Calls
  BY DEF McpInv, McpTypeOK
<1>r. /\ \A i \in DOMAIN replies : replies[i] # 0 => replies[i] \in answered
      /\ \A t \in Threads : call[t].at # "idle" => call[t].id \in Ids
      /\ \A t \in Threads : call[t].at \in OnHttp => kind = "http"
  BY DEF McpInv
<1>1. ASSUME NEW t \in Threads, Request(t) PROVE McpInv'
  <2> DEFINE at == IF kind = "stdio" THEN "wants" ELSE "trying"
             asking == [Idle EXCEPT !.id = nextId, !.at = at]
  <2>1. /\ nextId \in Ids /\ call' = [call EXCEPT ![t] = asking]
        /\ signal' = [signal EXCEPT ![t] = FALSE] /\ nextId' = nextId + 1
        /\ UNCHANGED <<kind, stage, pages, io, inbox, working, replies, answered, noise, alive>>
    BY <1>1 DEF Request, upVars, serverVars
  <2>2. /\ asking \in Calls /\ asking.at = at /\ asking.id = nextId /\ asking.tries = 0
    <3>1. at \in Places /\ nextId \in 0..MaxIds
      BY <2>1 DEF Places, Ids
    <3> HIDE DEF at
    <3>2. Idle \in Calls /\ Idle.tries = 0
      BY DEF Idle, Calls, Places, Outcomes
    <3> QED
      BY <3>1, <3>2 DEF Calls
  <2>3. call' \in [Threads -> Calls] /\ call'[t] = asking /\ \A u \in Threads \ {t} : call'[u] = call[u]
    BY <1>0, <2>1, <2>2
  <2>4. McpTypeOK'
    <3>1. nextId' \in 1..(MaxIds + 1)
      BY <2>1 DEF Ids
    <3>2. signal' \in [Threads -> BOOLEAN]
      BY <1>0, <2>1 DEF McpTypeOK
    <3> QED
      BY <1>0, <2>1, <2>3, <3>1, <3>2 DEF McpTypeOK
  <2>5. at # "idle" /\ (at \in OnHttp => kind = "http")
    BY <1>0 DEF McpTypeOK, OnHttp
  <2>6. \A u \in Threads \ {t} : signal'[u] = signal[u]
    BY <1>0, <2>1 DEF McpTypeOK
  <2>7. ReplyOrReason'
    BY <2>1, <2>2, <2>3, <2>5, <2>6 DEF McpInv, ReplyOrReason
  <2> QED
    BY <2>1, <2>2, <2>3, <2>4, <2>5, <2>7 DEF McpInv
<1>2. ASSUME NEW t \in Threads, AbortCall(t) PROVE McpInv'
  <2>1. /\ call[t].at # "idle" /\ signal' = [signal EXCEPT ![t] = TRUE]
        /\ UNCHANGED <<kind, stage, pages, nextId, call, io, inbox, working, replies, answered,
                       noise, alive>>
    BY <1>2 DEF AbortCall, upVars, serverVars
  <2>2. signal' \in [Threads -> BOOLEAN] /\ \A u \in Threads \ {t} : signal'[u] = signal[u]
    BY <1>0, <2>1 DEF McpTypeOK
  <2>3. McpTypeOK'
    BY <1>0, <2>1, <2>2 DEF McpTypeOK
  <2>4. ReplyOrReason'
    BY <2>1, <2>2 DEF McpInv, ReplyOrReason
  <2> QED
    BY <2>1, <2>3, <2>4 DEF McpInv
<1>3. ASSUME NEW t \in Threads, Acquire(t) \/ Write(t) \/ Poll(t) \/ ReceiveNothing(t) \/ Backoff(t)
      PROVE  McpInv'
  <2>1. UNCHANGED <<kind, stage, pages, nextId, signal, working, replies, answered, noise, alive>>
    BY <1>3 DEF Acquire, Write, Poll, ReceiveNothing, Backoff, upVars, serverVars
  <2>2. call[t].at # "idle" /\ call[t] \in Calls
    BY <1>0, <1>3 DEF Acquire, Write, Poll, ReceiveNothing, Backoff
  <2>3. io' \in Threads \cup {NoOne}
    BY <1>0, <1>3 DEF Acquire, Write, Poll, ReceiveNothing, Backoff, Leaves
  <2>4. inbox' \in Seq(0..MaxIds)
    <3>1. call[t].id \in 0..MaxIds
      BY <2>2 DEF Calls
    <3>2. Append(inbox, call[t].id) \in Seq(0..MaxIds)
      BY <1>0, <3>1
    <3> QED
      BY <1>0, <1>3, <3>2 DEF Acquire, Write, Poll, ReceiveNothing, Backoff
  <2>5. \/ \E at \in InSection : Moves(t, at)
        \/ Backoff(t) /\ Moves(t, "trying")
        \/ Returns(t, "aborted") /\ signal[t]
        \/ Returns(t, "timeout") /\ call[t].expired
        \/ Returns(t, "transport") /\ ~alive
    BY <1>3 DEF Acquire, Write, Poll, ReceiveNothing, Backoff, InSection, Leaves
  <2>6. ASSUME NEW at \in InSection, Moves(t, at) PROVE McpInv'
    <3>1. at \in Places /\ at \notin OnHttp /\ at # "idle" /\ at \notin {"trying", "backoff"}
      BY DEF InSection, Places, OnHttp
    <3>2. /\ call' \in [Threads -> Calls] /\ \A u \in Threads \ {t} : call'[u] = call[u]
          /\ call'[t].at = at /\ call'[t].id = call[t].id
      BY <1>0, <2>6, <3>1, Moved
    <3>3. call'[t].id \in Ids
      BY <1>r, <2>2, <3>2
    <3>4. \A i \in DOMAIN replies' : replies'[i] # 0 => replies'[i] \in answered'
      BY <1>r, <2>1
    <3> QED
      BY <1>0, <2>1, <2>3, <2>4, <3>1, <3>2, <3>3, <3>4, CallKeeps
  <2>7. ASSUME Backoff(t), Moves(t, "trying") PROVE McpInv'
    <3>1. "trying" \in Places /\ kind = "http" /\ call[t].tries < MaxAttempts
      BY <2>7 DEF Places, OnHttp, Backoff, McpInv
    <3>2. /\ call' \in [Threads -> Calls] /\ \A u \in Threads \ {t} : call'[u] = call[u]
          /\ call'[t].at = "trying" /\ call'[t].id = call[t].id /\ call'[t].tries = call[t].tries
      BY <1>0, <2>7, <3>1, Moved
    <3>3. call'[t].id \in Ids
      BY <1>r, <2>2, <3>2
    <3>4. \A i \in DOMAIN replies' : replies'[i] # 0 => replies'[i] \in answered'
      BY <1>r, <2>1
    <3> QED
      BY <1>0, <2>1, <2>3, <2>4, <3>1, <3>2, <3>3, <3>4, CallKeeps
  <2>8. ASSUME NEW out \in {"aborted", "timeout", "transport"}, Returns(t, out),
               out = "aborted" => signal[t], out = "timeout" => call[t].expired,
               out = "transport" => ~alive
        PROVE  McpInv'
    <3>1. out \in Outcomes
      BY DEF Outcomes
    <3>2. /\ call' \in [Threads -> Calls] /\ \A u \in Threads \ {t} : call'[u] = call[u]
          /\ call'[t].at = "idle" /\ call'[t].out = out /\ call'[t].expired = call[t].expired
      BY <1>0, <2>8, <3>1, Returned
    <3>3. Reason(t)'
      BY <2>1, <2>8, <3>2 DEF Reason
    <3>4. "idle" \notin OnHttp
      BY DEF OnHttp
    <3> QED
      BY <1>0, <1>r, <2>1, <2>3, <2>4, <3>2, <3>3, <3>4, CallKeeps
  <2> QED
    BY <2>5, <2>6, <2>7, <2>8
<1>4. ASSUME NEW t \in Threads, Expire(t) PROVE McpInv'
  <2>1. /\ call[t].at \in {"polling", "receiving"} /\ call' = [call EXCEPT ![t].expired = TRUE]
        /\ UNCHANGED <<kind, stage, pages, nextId, signal, io, inbox, working, replies, answered,
                       noise, alive>>
    BY <1>4 DEF Expire, upVars, serverVars
  <2>2. /\ call' \in [Threads -> Calls] /\ \A u \in Threads \ {t} : call'[u] = call[u]
        /\ call'[t].at = call[t].at /\ call'[t].id = call[t].id
    BY <1>0, <2>1 DEF Calls
  <2>3. call[t].at \notin OnHttp /\ call[t].at # "idle" /\ call[t].at \notin {"trying", "backoff"}
    BY <2>1 DEF OnHttp
  <2> QED
    BY <1>0, <1>r, <2>1, <2>2, <2>3, CallKeeps
<1>5. ASSUME NEW t \in Threads, Receive(t) PROVE McpInv'
  <2>1. /\ call[t].at = "receiving" /\ replies # <<>> /\ replies' = Tail(replies)
        /\ UNCHANGED <<kind, stage, pages, nextId, signal, inbox, working, answered, noise, alive>>
    BY <1>5 DEF Receive, upVars
  <2>2. /\ replies' \in Seq(0..MaxIds)
        /\ \A i \in DOMAIN replies' : i + 1 \in DOMAIN replies /\ replies'[i] = replies[i + 1]
        /\ 1 \in DOMAIN replies /\ Head(replies) = replies[1]
    BY <1>0, <2>1
  <2>3. \A i \in DOMAIN replies' : replies'[i] # 0 => replies'[i] \in answered'
    BY <1>r, <2>1, <2>2
  <2>4. CASE Head(replies) = call[t].id
    <3>1. PICK out \in {"reply", "server"} : Leaves(t, out)
      BY <1>5, <2>4 DEF Receive
    <3>2. out \in Outcomes /\ "idle" \notin OnHttp
      BY DEF Outcomes, OnHttp
    <3>3. /\ call' \in [Threads -> Calls] /\ \A u \in Threads \ {t} : call'[u] = call[u]
          /\ call'[t].at = "idle" /\ call'[t].out = out /\ call'[t].id = call[t].id
      BY <1>0, <3>1, <3>2, Returned DEF Leaves
    <3>4. call[t].id \in Ids /\ call[t].id # 0
      BY <1>r, <2>1 DEF Ids
    <3>5. call[t].id \in answered
      BY <1>r, <2>2, <2>4, <3>4
    <3>6. Reason(t)'
      BY <2>1, <3>3, <3>5 DEF Reason
    <3>7. io' \in Threads \cup {NoOne}
      BY <3>1 DEF Leaves
    <3> QED
      BY <1>0, <1>r, <2>1, <2>2, <2>3, <3>2, <3>3, <3>6, <3>7, CallKeeps
  <2>5. CASE Head(replies) # call[t].id
    <3>1. Moves(t, "polling") /\ UNCHANGED io
      BY <1>5, <2>5 DEF Receive
    <3>2. "polling" \in Places /\ "polling" \notin OnHttp
      BY DEF Places, OnHttp
    <3> QED
      BY <1>0, <1>r, <2>1, <2>2, <2>3, <3>1, <3>2, Moved, CallKeeps
  <2> QED
    BY <2>4, <2>5
<1>6. ASSUME NEW t \in Threads, Try(t) PROVE McpInv'
  <2>1. /\ call[t].at = "trying" /\ kind = "http" /\ call[t].tries < MaxAttempts
        /\ UNCHANGED <<kind, stage, pages, nextId, signal, io, inbox, working, replies, answered,
                       noise, alive>>
    BY <1>6 DEF Try, upVars, serverVars, OnHttp, McpInv
  <2>2. CASE signal[t]
    <3>1. Returns(t, "aborted")
      BY <1>6, <2>2 DEF Try
    <3>2. "aborted" \in Outcomes /\ "idle" \notin OnHttp
      BY DEF Outcomes, OnHttp
    <3>3. /\ call' \in [Threads -> Calls] /\ \A u \in Threads \ {t} : call'[u] = call[u]
          /\ call'[t].at = "idle" /\ call'[t].out = "aborted"
      BY <1>0, <3>1, <3>2, Returned
    <3>4. Reason(t)'
      BY <2>1, <2>2, <3>3 DEF Reason
    <3> QED
      BY <1>0, <1>r, <2>1, <3>2, <3>3, <3>4, CallKeeps
  <2>3. CASE ~signal[t]
    <3>1. call' = [call EXCEPT ![t].at = "posting", ![t].tries = @ + 1]
      BY <1>6, <2>3 DEF Try
    <3>2. call[t].tries + 1 \in 0..MaxAttempts
      BY <1>0, <2>1 DEF Calls
    <3>3. /\ call' \in [Threads -> Calls] /\ \A u \in Threads \ {t} : call'[u] = call[u]
          /\ call'[t].at = "posting" /\ call'[t].id = call[t].id
      BY <1>0, <3>1, <3>2 DEF Calls, Places
    <3> QED
      BY <1>0, <1>r, <2>1, <3>3, CallKeeps
  <2> QED
    BY <2>2, <2>3
<1>7. ASSUME NEW t \in Threads, NEW what \in {"reply", "server", "protocol", "transport"},
             Posted(t, what)
      PROVE  McpInv'
  <2>1. /\ call[t].at = "posting" /\ call[t].id \in Ids /\ kind = "http"
        /\ UNCHANGED <<kind, stage, pages, nextId, signal, io, inbox, working, replies, noise, alive>>
    BY <1>7, <1>r DEF Posted, upVars, OnHttp
  <2>2. answered \subseteq answered' /\ answered' \subseteq Ids
    BY <1>0, <1>7, <2>1 DEF Posted
  <2>3. \A i \in DOMAIN replies' : replies'[i] # 0 => replies'[i] \in answered'
    BY <1>r, <2>1, <2>2
  <2>4. \/ \E out \in {"reply", "server", "protocol", "transport"} : Returns(t, out)
        \/ Returns(t, "aborted") /\ signal[t]
        \/ Moves(t, "backoff") /\ call[t].tries < MaxAttempts
    BY <1>7 DEF Posted
  <2>5. ASSUME NEW out \in Outcomes, Returns(t, out), out # "timeout", out = "aborted" => signal[t]
        PROVE  McpInv'
    <3>1. /\ call' \in [Threads -> Calls] /\ \A u \in Threads \ {t} : call'[u] = call[u]
          /\ call'[t].at = "idle" /\ call'[t].out = out
      BY <1>0, <2>5, Returned
    <3>2. Reason(t)'
      BY <2>1, <2>5, <3>1 DEF Reason
    <3>3. "idle" \notin OnHttp
      BY DEF OnHttp
    <3> QED
      BY <1>0, <1>r, <2>1, <2>2, <2>3, <3>1, <3>2, <3>3, CallKeeps
  <2>6. ASSUME Moves(t, "backoff"), call[t].tries < MaxAttempts PROVE McpInv'
    <3>1. "backoff" \in Places
      BY DEF Places
    <3> QED
      BY <1>0, <1>r, <2>1, <2>2, <2>3, <2>6, <3>1, Moved, CallKeeps
  <2> QED
    BY <2>4, <2>5, <2>6 DEF Outcomes
<1>8. CASE Start
  <2>1. UNCHANGED <<kind, nextId, signal, io, working, replies, answered, noise>>
    BY <1>8 DEF Start
  <2>2. /\ stage \in {"start", "ack", "pages"} /\ call[Starter].at = "idle" /\ Starter \in Threads
        /\ pages < MaxPages
    BY <1>8 DEF Start, McpInv, Threads
  <2>3. /\ call' \in [Threads -> Calls] /\ \A u \in Threads \ {Starter} : call'[u] = call[u]
        /\ call'[Starter].at = "idle"
        /\ \/ call'[Starter].out = "none"
           \/ call'[Starter] = call[Starter]
    <3>1. PICK out \in {"none", call[Starter].out} : call' = [call EXCEPT ![Starter].out = out]
      BY <1>8 DEF Start
    <3>2. call[Starter] \in Calls
      BY <1>0, <2>2
    <3> QED
      BY <1>0, <2>2, <3>1, <3>2 DEF Calls, Outcomes
  <2>4. /\ stage' \in {"start", "ack", "pages", "up", "skipped", "failed"}
        /\ pages' \in 0..MaxPages /\ inbox' \in Seq(0..MaxIds) /\ alive' \in BOOLEAN
        /\ stage' \in {"start", "ack", "pages"} => pages' < MaxPages
        /\ ~alive => ~alive'
    <3>1. pages \in 0..MaxPages /\ alive \in BOOLEAN
      BY <1>0 DEF McpTypeOK
    <3>2. Append(inbox, 0) \in Seq(0..MaxIds)
      BY <1>0
    <3>3. CASE NoTools
      BY <1>0, <3>1, <3>3 DEF NoTools
    <3>4. CASE Page
      BY <1>0, <2>2, <3>1, <3>4 DEF Page
    <3>5. CASE Acknowledge
      BY <1>0, <2>2, <3>1, <3>2, <3>3, <3>5 DEF Acknowledge
    <3>6. CASE stage' = "ack" /\ UNCHANGED <<pages, inbox, alive>>
      BY <1>0, <2>2, <3>1, <3>6
    <3> QED
      BY <1>8, <3>3, <3>4, <3>5, <3>6 DEF Start
  <2>5. McpTypeOK'
    BY <1>0, <2>1, <2>3, <2>4 DEF McpTypeOK
  <2>6. ReplyOrReason'
    <3>1. \A u \in Threads : Reason(u) /\ call[u].at = "idle" /\ call'[u] = call[u] => Reason(u)'
      BY <2>1, <2>4 DEF Reason
    <3>2. \A u \in Threads : call'[u].out = "none" => Reason(u)'
      BY DEF Reason
    <3>3. \A u \in Threads : call[u].at = "idle" => Reason(u)
      BY DEF McpInv, ReplyOrReason, Reason
    <3>4. \A u \in Threads : call'[u].at = "idle" => Reason(u)'
      BY <2>2, <2>3, <3>1, <3>2, <3>3
    <3> QED
      BY <3>4 DEF ReplyOrReason, Reason
  <2>7. \A u \in Threads : call'[u].at # "idle" => call'[u] = call[u]
    BY <2>3
  <2>8. "idle" \notin OnHttp
    BY DEF OnHttp
  <2> QED
    BY <1>r, <2>1, <2>2, <2>3, <2>4, <2>5, <2>6, <2>7, <2>8 DEF McpInv
<1>9. CASE Server
  <2>1. UNCHANGED <<kind, stage, pages, nextId, call, signal, io>>
    BY <1>9 DEF Server, ServerReads, ServerAnswers, ServerSays, ServerDies, upVars
  <2>2. /\ inbox' \in Seq(0..MaxIds) /\ working' \subseteq Ids /\ answered \subseteq answered'
        /\ answered' \subseteq Ids /\ replies' \in Seq(0..MaxIds) /\ noise' \in 0..MaxNoise
        /\ alive' \in BOOLEAN /\ (~alive => ~alive')
        /\ \A i \in DOMAIN replies' : replies'[i] # 0 => replies'[i] \in answered'
    <3>1. working \subseteq Ids /\ noise \in 0..MaxNoise /\ alive \in BOOLEAN
      BY <1>0 DEF McpTypeOK
    <3>2. CASE ServerReads
      <4>1. Tail(inbox) \in Seq(0..MaxIds) /\ Head(inbox) \in 0..MaxIds
        BY <1>0, <3>2 DEF ServerReads
      <4>2. working' \subseteq Ids
        <5>1. \A x \in 0..MaxIds : x # 0 => x \in Ids
          BY DEF Ids
        <5> QED
          BY <3>1, <3>2, <4>1, <5>1 DEF ServerReads
      <4> QED
        BY <1>0, <1>r, <3>1, <3>2, <4>1, <4>2 DEF ServerReads
    <3>3. ASSUME NEW x \in 0..MaxIds, replies' = Append(replies, x), answered \subseteq answered',
                 x # 0 => x \in answered'
          PROVE  /\ replies' \in Seq(0..MaxIds)
                 /\ \A i \in DOMAIN replies' : replies'[i] # 0 => replies'[i] \in answered'
      <4>1. replies' \in Seq(0..MaxIds)
        BY <1>0, <3>3
      <4>2. \A i \in DOMAIN replies' : replies'[i] = x \/ (i \in DOMAIN replies /\ replies'[i] = replies[i])
        BY <1>0, <3>3
      <4> QED
        BY <1>r, <3>3, <4>1, <4>2
    <3>4. ASSUME NEW id \in Ids, ServerAnswers(id)
          PROVE  /\ replies' \in Seq(0..MaxIds) /\ answered' = answered \cup {id}
                 /\ \A i \in DOMAIN replies' : replies'[i] # 0 => replies'[i] \in answered'
                 /\ UNCHANGED <<inbox, noise, alive>> /\ working' \subseteq working
      BY <3>3, <3>4 DEF ServerAnswers, Ids
    <3>5. CASE ServerSays
      <4>1. replies' = Append(replies, 0) /\ UNCHANGED <<inbox, working, answered, alive>>
            /\ noise' \in 0..MaxNoise
        BY <3>1, <3>5 DEF ServerSays
      <4>2. 0 \in 0..MaxIds
        OBVIOUS
      <4> QED
        BY <1>0, <3>1, <3>3, <4>1, <4>2
    <3>6. CASE ServerDies
      BY <1>0, <1>r, <3>1, <3>6 DEF ServerDies
    <3>7. CASE \E id \in Ids : ServerAnswers(id)
      BY <1>0, <3>1, <3>4, <3>7
    <3> QED
      BY <1>9, <3>2, <3>5, <3>6, <3>7 DEF Server
  <2>3. McpTypeOK'
    BY <1>0, <2>1, <2>2 DEF McpTypeOK
  <2>4. ReplyOrReason'
    BY <2>1, <2>2 DEF McpInv, ReplyOrReason
  <2> QED
    BY <2>1, <2>2, <2>3, <2>4 DEF McpInv
<1>10. CASE UNCHANGED mcpVars
  BY <1>10 DEF mcpVars, McpInv, McpTypeOK, ReplyOrReason
<1> QED
  BY <1>1, <1>2, <1>3, <1>4, <1>5, <1>6, <1>7, <1>8, <1>9, <1>10 DEF McpNext, Stdio, Http

\* Every variable of the client and of what it sees of the server keeps its
\* type: the attempts of a call and the pages of a bring-up stay within their
\* limits.
THEOREM McpTyped == McpSpec => []McpTypeOK
<1>1. McpInv => McpTypeOK
  BY DEF McpInv
<1>2. McpSpec => []McpInv
  BY McpInitInv, McpStep, PTL DEF McpSpec
<1> QED
  BY <1>1, <1>2, PTL

\* A call that is over has the answer to its own request or a failure that
\* happened to it, for any number of callers that abort, expire and leave
\* replies behind (lib.rs StdioTransport::roundtrip, reconnect.rs).
THEOREM CallsHonest == McpSpec => []ReplyOrReason
<1>1. McpInv => ReplyOrReason
  BY DEF McpInv
<1>2. McpSpec => []McpInv
  BY McpInitInv, McpStep, PTL DEF McpSpec
<1> QED
  BY <1>1, <1>2, PTL

(***************************************************************************)
(* The full-screen client.                                                 *)
(***************************************************************************)

\* A queue that holds something, a history that loads again after a rewind, and
\* no turns of other clients: MAX_QUEUE_ITEMS, and the environment of the runs.
TuiSizes ==
  /\ MaxQueue \in Nat \ {0} /\ MaxSubmits \in Nat /\ MaxRewrites \in Nat
  /\ Home \in TuiSessions /\ NoneShown \notin TuiSessions
  /\ Reloads = TRUE /\ Foreign = 0

\* Messages that name a place in the session name later ones further down.
Rising == \A i, j \in 1..Len(view) :
  i < j /\ view[i].seq > 0 /\ view[j].seq > 0 => view[i].seq < view[j].seq

\* What waits for its turn points into the history, and nobody writes to the
\* history meanwhile.
PendingFits ==
  /\ planned.edit # 0 =>
       /\ AtRest /\ planned.edit <= Len(ledger[session])
       /\ planned.keep + 1 \in 1..Len(view) /\ view[planned.keep + 1].seq = planned.edit
  /\ planned.confirm # 0 => AtRest /\ planned.confirm <= Len(ledger[session])
  /\ planned.rewind # 0 =>
       AtRest /\ planned.rewind <= Len(ledger[session]) /\ phase \notin {"send", "key"}
  /\ planned.truncate # 0 =>
       /\ phase # "key" /\ current = 0 /\ outgoing # <<>>
       /\ planned.truncate <= Len(ledger[session])
       /\ \A i \in 1..Len(view) : view[i].seq < planned.truncate

Quiet == \A s \in TuiSessions : turn[s] = <<>>
Working(p) == turn = [s \in TuiSessions |-> IF s = session THEN <<p>> ELSE <<>>]

\* The one turn under way is of the last prompt of the session that is shown, and
\* its end is told once, by the stream that the loop reads.
OneTurn ==
  /\ ~scoped => runStream = NoStream
  /\ current = 0 => Quiet /\ runStream = NoStream /\ (~scoped => stream = <<>>)
  /\ current # 0 =>
       /\ ledger[session] # <<>> /\ ledger[session][Len(ledger[session])] = Typed(current)
       /\ IF scoped
          THEN runStream.run = current /\ (IF runStream.ended THEN Quiet ELSE Working(current))
          ELSE \/ stream = <<>> /\ Working(current)
               \/ stream = <<current>> /\ Quiet

\* The inductive invariant: the two properties need the order of the view's
\* places, what waits for its turn, and the one turn under way.
TuiInv == TuiTypeOK /\ ViewIsLedger /\ Rising /\ PendingFits /\ OneTurn

\* What the view names of a history, and replies that follow their prompts.
Names(shown, msgs) ==
  \A i \in 1..Len(shown) : shown[i].seq > 0 =>
    /\ shown[i].seq <= Len(msgs)
    /\ msgs[shown[i].seq] = [role |-> shown[i].role, of |-> shown[i].of]

Follows(msgs) ==
  \A i \in 1..Len(msgs) : msgs[i].role = "reply" => i > 1 /\ msgs[i - 1] = Typed(msgs[i].of)

Climbs(shown) == \A i, j \in 1..Len(shown) :
  i < j /\ shown[i].seq > 0 /\ shown[j].seq > 0 => shown[i].seq < shown[j].seq

-----------------------------------------------------------------------------
\* What is left of a history that is cut: all that came before, at its
\* places.
LEMMA BeforeIs ==
  ASSUME NEW S, NEW msgs \in Seq(S), NEW n \in 1..Len(msgs) + 1
  PROVE  /\ Before(msgs, n) \in Seq(S)
         /\ Len(Before(msgs, n)) = n - 1
         /\ \A i \in 1..n - 1 : i \in 1..Len(msgs) /\ Before(msgs, n)[i] = msgs[i]
BY DEF Before

\* Cutting leaves every reply behind its prompt.
LEMMA FollowsBefore ==
  ASSUME NEW msgs \in Seq(Message), NEW n \in 1..Len(msgs) + 1, Follows(msgs)
  PROVE  Follows(Before(msgs, n))
<1> DEFINE b == Before(msgs, n)
<1>1. /\ Len(b) = n - 1
      /\ \A i \in 1..n - 1 : i \in 1..Len(msgs) /\ b[i] = msgs[i]
  BY BeforeIs
<1> HIDE DEF b
<1>2. ASSUME NEW i \in 1..Len(b), b[i].role = "reply" PROVE i > 1 /\ b[i - 1] = Typed(b[i].of)
  <2>1. i \in 1..n - 1 /\ i \in 1..Len(msgs) /\ b[i] = msgs[i] BY <1>1
  <2>2. i > 1 /\ msgs[i - 1] = Typed(msgs[i].of) BY <2>1, <1>2 DEF Follows
  <2>3. i - 1 \in 1..n - 1 BY <2>1, <2>2
  <2>. QED BY <1>1, <2>1, <2>2, <2>3
<1>. QED BY <1>2 DEF Follows, b

\* A prompt may follow anything, a reply only its own prompt.
LEMMA FollowsAppended ==
  ASSUME NEW msgs \in Seq(Message), NEW m \in Message, Follows(msgs),
         m.role = "reply" => msgs # <<>> /\ msgs[Len(msgs)] = Typed(m.of)
  PROVE  Follows(Append(msgs, m))
<1> DEFINE b == Append(msgs, m)
<1>1. /\ Len(b) = Len(msgs) + 1 /\ Len(msgs) \in Nat
      /\ \A i \in 1..Len(msgs) : b[i] = msgs[i]
      /\ b[Len(msgs) + 1] = m
      /\ msgs # <<>> => Len(msgs) > 0
  OBVIOUS
<1> HIDE DEF b
<1>2. ASSUME NEW i \in 1..Len(b), b[i].role = "reply" PROVE i > 1 /\ b[i - 1] = Typed(b[i].of)
  <2>1. CASE i \in 1..Len(msgs)
    <3>1. i > 1 /\ msgs[i - 1] = Typed(msgs[i].of) BY <2>1, <1>1, <1>2 DEF Follows
    <3>2. i - 1 \in 1..Len(msgs) BY <2>1, <3>1, <1>1
    <3>. QED BY <1>1, <2>1, <3>1, <3>2
  <2>2. CASE i = Len(msgs) + 1
    <3>1. msgs # <<>> /\ msgs[Len(msgs)] = Typed(m.of) BY <2>2, <1>1, <1>2
    <3>2. Len(msgs) \in 1..Len(msgs) /\ i - 1 = Len(msgs) BY <3>1, <1>1, <2>2
    <3>. QED BY <1>1, <2>2, <3>1, <3>2
  <2>. QED BY <1>1, <2>1, <2>2
<1>. QED BY <1>2 DEF Follows, b

\* A history that grows is still named by the places in it.
LEMMA NamesAppended ==
  ASSUME NEW shown \in Seq(Shown), NEW msgs \in Seq(Message), NEW m \in Message, Names(shown, msgs)
  PROVE  Names(shown, Append(msgs, m))
<1>1. /\ Len(Append(msgs, m)) = Len(msgs) + 1 /\ Len(msgs) \in Nat
      /\ \A i \in 1..Len(msgs) : Append(msgs, m)[i] = msgs[i]
  OBVIOUS
<1> SUFFICES ASSUME NEW i \in 1..Len(shown), shown[i].seq > 0
             PROVE  /\ shown[i].seq <= Len(Append(msgs, m))
                    /\ Append(msgs, m)[shown[i].seq] = [role |-> shown[i].role, of |-> shown[i].of]
  BY DEF Names
<1>2. shown[i] \in Shown OBVIOUS
<1>3. shown[i].seq \in Nat BY <1>2 DEF Shown
<1>4. shown[i].seq <= Len(msgs) /\ msgs[shown[i].seq] = [role |-> shown[i].role, of |-> shown[i].of]
  BY DEF Names
<1>5. shown[i].seq \in 1..Len(msgs) BY <1>1, <1>3, <1>4
<1>. QED BY <1>1, <1>3, <1>4, <1>5

\* A view that was loaded names the history it came from, in order.
LEMMA LoadedIs ==
  ASSUME NEW msgs \in Seq(Message)
  PROVE  /\ Loaded(msgs) \in Seq(Shown) /\ Len(Loaded(msgs)) = Len(msgs)
         /\ Names(Loaded(msgs), msgs) /\ Climbs(Loaded(msgs))
<1> DEFINE e(i) == [role |-> msgs[i].role, of |-> msgs[i].of, seq |-> i]
           v == Loaded(msgs)
<1>1. Len(msgs) \in Nat /\ \A i \in 1..Len(msgs) : msgs[i] \in Message OBVIOUS
<1>2. ASSUME NEW i \in 1..Len(msgs)
      PROVE  /\ e(i) \in Shown /\ e(i).seq = i
             /\ [role |-> e(i).role, of |-> e(i).of] = msgs[i]
  <2>1. msgs[i] \in Message BY <1>1
  <2>. QED BY <2>1 DEF Shown, Message
<1>3. DOMAIN v = 1..Len(msgs) /\ \A i \in 1..Len(msgs) : v[i] = e(i) BY DEF Loaded
<1>a. v = [i \in 1..Len(msgs) |-> v[i]] BY DEF Loaded
<1> HIDE DEF e, v
<1>b. \A i \in 1..Len(msgs) : v[i] \in Shown BY <1>2, <1>3
<1>c. v \in [1..Len(msgs) -> Shown] BY <1>a, <1>b
<1>d. v \in Seq(Shown) /\ Len(v) = Len(msgs) BY <1>1, <1>c
<1>4. v \in Seq(Shown) /\ Len(v) = Len(msgs) /\ \A i \in 1..Len(msgs) : v[i] = e(i)
  BY <1>3, <1>d
<1>5. Names(v, msgs)
  <2> SUFFICES ASSUME NEW i \in 1..Len(msgs)
               PROVE  /\ v[i].seq <= Len(msgs)
                      /\ msgs[v[i].seq] = [role |-> v[i].role, of |-> v[i].of]
    BY <1>4 DEF Names
  <2>. QED BY <1>1, <1>2, <1>4
<1>6. Climbs(v)
  <2> SUFFICES ASSUME NEW i \in 1..Len(msgs), NEW j \in 1..Len(msgs), i < j
               PROVE  v[i].seq < v[j].seq
    BY <1>4 DEF Climbs
  <2>. QED BY <1>2, <1>4
<1>. QED BY <1>4, <1>5, <1>6 DEF v

\* A prefix of a sequence.
LEMMA Shortened ==
  ASSUME NEW S, NEW s \in Seq(S), NEW k \in 0..Len(s)
  PROVE  SubSeq(s, 1, k) \in Seq(S) /\ Len(SubSeq(s, 1, k)) = k
OBVIOUS

\* A shorter view names what it names.
LEMMA ShownBefore ==
  ASSUME NEW shown \in Seq(Shown), NEW k \in 0..Len(shown)
  PROVE  /\ SubSeq(shown, 1, k) \in Seq(Shown) /\ Len(SubSeq(shown, 1, k)) = k
         /\ \A i \in 1..k : i \in 1..Len(shown) /\ SubSeq(shown, 1, k)[i] = shown[i]
         /\ Climbs(shown) => Climbs(SubSeq(shown, 1, k))
         /\ \A msgs : Names(shown, msgs) => Names(SubSeq(shown, 1, k), msgs)
<1> DEFINE b == SubSeq(shown, 1, k)
<1>1. /\ b \in Seq(Shown) /\ Len(b) = k
      /\ \A i \in 1..k : i \in 1..Len(shown) /\ b[i] = shown[i]
  OBVIOUS
<1> HIDE DEF b
<1>2. Climbs(shown) => Climbs(b) BY <1>1 DEF Climbs
<1>3. \A msgs : Names(shown, msgs) => Names(b, msgs) BY <1>1 DEF Names
<1>. QED BY <1>1, <1>2, <1>3 DEF b

\* What the types say of the records, field by field.
LEMMA TuiFacts ==
  ASSUME TuiSizes, TuiTypeOK
  PROVE  /\ ledger[session] \in Seq(Message) /\ Len(ledger[session]) \in Nat
         /\ view \in Seq(Shown) /\ Len(view) \in Nat
         /\ \A i \in 1..Len(view) : view[i] \in Shown /\ view[i].seq \in Nat
         /\ planned \in [truncate : Nat, edit : Nat, keep : Nat, confirm : Nat, rewind : Nat]
         /\ planned.truncate \in Nat /\ planned.edit \in Nat /\ planned.keep \in Nat
         /\ planned.confirm \in Nat /\ planned.rewind \in Nat
         /\ count \in [submits : 0..MaxSubmits, rewrites : 0..MaxRewrites, foreign : 0..Foreign]
         /\ count.submits \in 0..MaxSubmits /\ count.rewrites \in 0..MaxRewrites
         /\ count.foreign = 0
<1>1. ledger[session] \in Seq(Message) BY DEF TuiTypeOK
<1>2. view \in Seq(Shown) /\ \A i \in 1..Len(view) : view[i] \in Shown BY DEF TuiTypeOK
<1>3. \A i \in 1..Len(view) : view[i].seq \in Nat BY <1>2 DEF Shown
<1>4. planned \in [truncate : Nat, edit : Nat, keep : Nat, confirm : Nat, rewind : Nat]
  BY DEF TuiTypeOK
<1>5. count \in [submits : 0..MaxSubmits, rewrites : 0..MaxRewrites, foreign : 0..Foreign]
  BY DEF TuiTypeOK
<1>6. count.foreign = 0 BY <1>5 DEF TuiSizes
<1>. QED BY <1>1, <1>2, <1>3, <1>4, <1>5, <1>6

\* The two properties, said of one view and one history.
LEMMA Reworded ==
  /\ ViewNamesLedger <=> Names(view, ledger[session])
  /\ RepliesFollow <=> \A s \in TuiSessions : Follows(ledger[s])
  /\ Rising <=> Climbs(view)
BY DEF ViewNamesLedger, RepliesFollow, Rising, Names, Follows, Climbs

-----------------------------------------------------------------------------
\* The steps.

\* An empty view of empty sessions.
LEMMA TuiStarts ==
  ASSUME TuiSizes, TuiInit
  PROVE  TuiInv
<1> USE DEF TuiInit, Fresh
<1>1. planned = NothingPending /\ NothingPending \in [truncate : Nat, edit : Nat, keep : Nat, confirm : Nat, rewind : Nat]
  BY DEF NothingPending
<1>2. /\ abort \in [meant : TuiSessions \cup {NoneShown}, hit : TuiSessions \cup {NoneShown}]
      /\ count \in [submits : 0..MaxSubmits, rewrites : 0..MaxRewrites, foreign : 0..Foreign]
      /\ runStream \in [run : 0..MaxSubmits, ended : BOOLEAN]
  BY DEF TuiSizes, NoStream
<1>3. /\ ledger \in [TuiSessions -> Seq(Message)] /\ turn \in [TuiSessions -> Seq(Submits)]
      /\ \A s \in TuiSessions : ledger[s] = <<>> /\ turn[s] = <<>>
  OBVIOUS
<1>a. /\ outgoing \in Seq(Submits) /\ Len(outgoing) <= MaxQueue /\ view \in Seq(Shown)
      /\ stream \in Seq(0..MaxSubmits) /\ current \in 0..MaxSubmits
  BY DEF TuiSizes
<1>4. TuiTypeOK BY <1>1, <1>2, <1>3, <1>a DEF TuiSizes, TuiTypeOK
<1>5. ViewIsLedger /\ Rising BY <1>3 DEF ViewIsLedger, ViewNamesLedger, RepliesFollow, Rising
<1>6. PendingFits BY <1>1 DEF PendingFits, NothingPending
<1>7. OneTurn BY <1>3 DEF OneTurn, Quiet
<1>. QED BY <1>4, <1>5, <1>6, <1>7 DEF TuiInv

\* What is pending when nothing is.
LEMMA NothingFits ==
  ASSUME planned' = NothingPending
  PROVE  PendingFits' /\ planned' \in [truncate : Nat, edit : Nat, keep : Nat, confirm : Nat, rewind : Nat]
BY DEF PendingFits, NothingPending

\* A step that moves the loop on and does nothing else.
LEMMA MovesOn ==
  ASSUME TuiSizes, TuiInv, Nothing \/ NoKey \/ Drained
  PROVE  TuiInv'
<1>1. UNCHANGED <<session, scoped, current, outgoing, planned, view, stream, runStream, ledger, turn, abort, count>>
  BY DEF Nothing, NoKey, Drained, appVars, streamVars, daemonVars
<1>2. /\ phase' \in {"key", "stream", "runStream"}
      /\ phase' = "key" => phase = "send" /\ Unsent
  BY DEF Nothing, NoKey, Drained, GoTo, Key
<1>3. TuiTypeOK' BY <1>1, <1>2 DEF TuiInv, TuiTypeOK
<1>4. (ViewIsLedger /\ Rising)' BY <1>1 DEF TuiInv, ViewIsLedger, ViewNamesLedger, RepliesFollow, Rising
<1>5. PendingFits' BY <1>1, <1>2 DEF TuiInv, PendingFits, AtRest, Unsent
<1>6. OneTurn' BY <1>1 DEF TuiInv, OneTurn, Quiet, Working
<1>. QED BY <1>3, <1>4, <1>5, <1>6 DEF TuiInv

\* A step that touches only what is pending, the queue and the bounds.
LEMMA Points ==
  ASSUME TuiSizes, TuiInv,
         UNCHANGED <<session, scoped, current, view, stream, runStream, ledger, turn>>,
         phase' = "stream", TuiTypeOK', PendingFits'
  PROVE  TuiInv'
<1>1. (ViewIsLedger /\ Rising)' BY DEF TuiInv, ViewIsLedger, ViewNamesLedger, RepliesFollow, Rising
<1>2. OneTurn' BY DEF TuiInv, OneTurn, Quiet, Working
<1>. QED BY <1>1, <1>2 DEF TuiInv

\* A prompt is taken back from the queue (app.rs recall_latest): nothing can
\* point anywhere while one was queued and no turn ran.
LEMMA RecallSteps ==
  ASSUME TuiSizes, TuiInv, Recall
  PROVE  TuiInv'
<1>1. /\ phase = "key" /\ phase' = "stream" /\ outgoing # <<>> /\ outgoing' = Front(outgoing)
      /\ UNCHANGED <<session, scoped, current, planned, view, stream, runStream, ledger, turn, abort, count>>
  BY DEF Recall, Key, GoTo, streamVars, daemonVars
<1>2. outgoing' \in Seq(Submits) /\ Len(outgoing') <= MaxQueue
  <2>1. outgoing \in Seq(Submits) /\ Len(outgoing) <= MaxQueue /\ Len(outgoing) \in Nat \ {0}
    BY <1>1 DEF TuiInv, TuiTypeOK
  <2>2. Front(outgoing) \in Seq(Submits) /\ Len(Front(outgoing)) = Len(outgoing) - 1
    <3>1. Len(outgoing) - 1 \in 0..Len(outgoing) /\ Front(outgoing) = SubSeq(outgoing, 1, Len(outgoing) - 1)
      BY <2>1 DEF Front
    <3>. QED BY <2>1, <3>1, Shortened
  <2>. QED BY <1>1, <2>1, <2>2 DEF TuiSizes
<1>3. TuiTypeOK' BY <1>1, <1>2 DEF TuiInv, TuiTypeOK
<1>4. planned.edit = 0 /\ planned.confirm = 0 /\ planned.rewind = 0 /\ planned.truncate = 0
  BY <1>1, TuiFacts DEF TuiInv, PendingFits, AtRest
<1>5. PendingFits' BY <1>1, <1>4 DEF PendingFits
<1>. QED BY <1>1, <1>3, <1>5, Points

\* An edit is given up (app.rs retire_stale_edit).
LEMMA DiscardSteps ==
  ASSUME TuiSizes, TuiInv, Discard
  PROVE  TuiInv'
<1>1. /\ phase = "key" /\ phase' = "stream"
      /\ planned' = [planned EXCEPT !.edit = 0, !.keep = 0]
      /\ UNCHANGED <<session, scoped, current, outgoing, view, stream, runStream, ledger, turn, abort, count>>
  BY DEF Discard, Key, GoTo, streamVars, daemonVars
<1>2. /\ planned' \in [truncate : Nat, edit : Nat, keep : Nat, confirm : Nat, rewind : Nat]
      /\ planned'.edit = 0 /\ planned'.confirm = planned.confirm /\ planned'.rewind = planned.rewind
      /\ planned'.truncate = planned.truncate
  BY <1>1, TuiFacts DEF TuiInv
<1>3. TuiTypeOK' BY <1>1, <1>2 DEF TuiInv, TuiTypeOK
<1>4. PendingFits' BY <1>1, <1>2 DEF TuiInv, PendingFits, AtRest
<1>. QED BY <1>1, <1>3, <1>4, Points

\* A rewind is confirmed or not (app.rs rewind_confirm_key): what it points
\* at was true when asked.
LEMMA DecideSteps ==
  ASSUME TuiSizes, TuiInv, Decide
  PROVE  TuiInv'
<1>0. /\ phase = "key" /\ phase' = "stream" /\ planned.confirm # 0
      /\ UNCHANGED <<session, scoped, current, outgoing, view, stream, runStream, ledger, turn, abort, count>>
  BY DEF Decide, Key, GoTo, Unasked, streamVars, daemonVars
<1>1. PICK n \in {planned.confirm, 0} : planned' = [planned EXCEPT !.rewind = n, !.confirm = 0]
  BY DEF Decide
<1>2. /\ planned' \in [truncate : Nat, edit : Nat, keep : Nat, confirm : Nat, rewind : Nat]
      /\ planned'.edit = planned.edit /\ planned'.confirm = 0 /\ planned'.rewind = n
      /\ planned'.truncate = planned.truncate /\ planned'.keep = planned.keep
  <2>1. /\ planned \in [truncate : Nat, edit : Nat, keep : Nat, confirm : Nat, rewind : Nat]
        /\ n \in Nat
    BY TuiFacts DEF TuiInv
  <2>. QED BY <1>1, <2>1
<1>3. TuiTypeOK' BY <1>0, <1>2 DEF TuiInv, TuiTypeOK
<1>4. PendingFits' BY <1>0, <1>1, <1>2 DEF TuiInv, PendingFits, AtRest
<1>. QED BY <1>0, <1>3, <1>4, Points

\* An edit or a rewind is asked for (app.rs edit_focused, start_rewind): it
\* points at a message the view names.
LEMMA EditSteps ==
  ASSUME TuiSizes, TuiInv, NEW i \in 1..Len(view), Edit(i) \/ AskRewind(i)
  PROVE  TuiInv'
<1>0. /\ phase = "key" /\ phase' = "stream" /\ planned.confirm = 0 /\ AtRest
      /\ view[i].role = "user" /\ view[i].seq > 0
      /\ count.rewrites < MaxRewrites /\ count' = [count EXCEPT !.rewrites = @ + 1]
      /\ UNCHANGED <<session, scoped, current, outgoing, view, stream, runStream, ledger, turn, abort>>
  BY DEF Edit, AskRewind, Rewrite, Key, GoTo, Unasked, Target, streamVars, daemonVars
<1>1. /\ \A j \in 1..Len(view) : view[j].seq \in Nat
      /\ planned \in [truncate : Nat, edit : Nat, keep : Nat, confirm : Nat, rewind : Nat]
      /\ count.rewrites \in 0..MaxRewrites /\ Len(view) \in Nat
      /\ count \in [submits : 0..MaxSubmits, rewrites : 0..MaxRewrites, foreign : 0..Foreign]
  BY TuiFacts DEF TuiInv
<1>2. view[i].seq <= Len(ledger[session])
  BY <1>0 DEF TuiInv, ViewIsLedger, ViewNamesLedger
<1>3. count' \in [submits : 0..MaxSubmits, rewrites : 0..MaxRewrites, foreign : 0..Foreign]
  <2>1. count.rewrites + 1 \in 0..MaxRewrites
    <3>1. MaxRewrites \in Nat BY DEF TuiSizes
    <3>. QED BY <1>0, <1>1, <3>1
  <2>. QED BY <1>0, <1>1, <2>1
<1>4. CASE Edit(i)
  <2>1. /\ planned' \in [truncate : Nat, edit : Nat, keep : Nat, confirm : Nat, rewind : Nat]
        /\ planned'.edit = view[i].seq /\ planned'.keep = i - 1
        /\ planned'.confirm = planned.confirm /\ planned'.rewind = planned.rewind
        /\ planned'.truncate = planned.truncate
    <3>1. view[i].seq \in Nat /\ i - 1 \in Nat BY <1>1
    <3>. QED BY <1>1, <1>4, <3>1 DEF Edit
  <2>2. planned'.keep + 1 = i BY <2>1
  <2>3. TuiTypeOK' BY <1>0, <1>3, <2>1 DEF TuiInv, TuiTypeOK
  <2>4. PendingFits' BY <1>0, <1>1, <1>2, <2>1, <2>2 DEF TuiInv, PendingFits, AtRest
  <2>. QED BY <1>0, <2>3, <2>4, Points
<1>5. CASE AskRewind(i)
  <2>1. /\ planned' \in [truncate : Nat, edit : Nat, keep : Nat, confirm : Nat, rewind : Nat]
        /\ planned'.edit = 0 /\ planned'.confirm = view[i].seq /\ planned'.rewind = planned.rewind
        /\ planned'.truncate = planned.truncate
    BY <1>1, <1>5 DEF AskRewind
  <2>3. TuiTypeOK' BY <1>0, <1>3, <2>1 DEF TuiInv, TuiTypeOK
  <2>4. PendingFits' BY <1>0, <1>1, <1>2, <2>1 DEF TuiInv, PendingFits, AtRest
  <2>. QED BY <1>0, <2>3, <2>4, Points
<1>. QED BY <1>4, <1>5

\* An abort changes neither view nor history.
LEMMA AbortSteps ==
  ASSUME TuiSizes, TuiInv, Abort
  PROVE  TuiInv'
<1>0. /\ phase = "key" /\ phase' = "stream"
      /\ UNCHANGED <<session, scoped, current, outgoing, planned, view, stream, runStream, ledger, turn, count>>
      /\ abort' = [meant |-> session, hit |-> Home]
  BY DEF Abort, Key, GoTo, appVars, streamVars, daemonVars
<1>1. TuiTypeOK' BY <1>0 DEF TuiInv, TuiTypeOK, TuiSizes
<1>2. PendingFits' BY <1>0 DEF TuiInv, PendingFits, AtRest
<1>. QED BY <1>0, <1>1, <1>2, Points

\* A prompt is queued (app.rs submit_line); what it edits goes from the view
\* with all that follows.
LEMMA SubmitSteps ==
  ASSUME TuiSizes, TuiInv, SubmitLine
  PROVE  TuiInv'
<1>0. /\ phase = "key" /\ phase' = "stream" /\ planned.confirm = 0
      /\ count.submits < MaxSubmits /\ count' = [count EXCEPT !.submits = @ + 1]
      /\ UNCHANGED <<session, scoped, current, stream, runStream, ledger, turn, abort>>
  BY DEF SubmitLine, Key, GoTo, Unasked, streamVars, daemonVars
<1>1. /\ \A j \in 1..Len(view) : view[j].seq \in Nat
      /\ planned \in [truncate : Nat, edit : Nat, keep : Nat, confirm : Nat, rewind : Nat]
      /\ planned.edit \in Nat /\ planned.keep \in Nat
      /\ count.submits \in 0..MaxSubmits /\ Len(view) \in Nat /\ view \in Seq(Shown)
      /\ count \in [submits : 0..MaxSubmits, rewrites : 0..MaxRewrites, foreign : 0..Foreign]
      /\ ledger[session] \in Seq(Message) /\ Len(ledger[session]) \in Nat
  BY TuiFacts DEF TuiInv
<1>2. count' \in [submits : 0..MaxSubmits, rewrites : 0..MaxRewrites, foreign : 0..Foreign]
  BY <1>0, <1>1 DEF TuiSizes
<1>3. CASE ~(Len(outgoing) < MaxQueue)
  <2>1. UNCHANGED <<outgoing, planned, view>> BY <1>3 DEF SubmitLine
  <2>2. TuiTypeOK' BY <1>0, <1>2, <2>1 DEF TuiInv, TuiTypeOK
  <2>3. PendingFits' BY <1>0, <2>1 DEF TuiInv, PendingFits, AtRest
  <2>. QED BY <1>0, <2>1, <2>2, <2>3, Points
<1>4. CASE Len(outgoing) < MaxQueue
  <2>1. outgoing' = Append(outgoing, count.submits + 1) BY <1>4 DEF SubmitLine
  <2>2. count.submits + 1 \in Submits BY <1>0, <1>1 DEF Submits, TuiSizes
  <2>3. outgoing' \in Seq(Submits) /\ Len(outgoing') <= MaxQueue /\ outgoing' # <<>>
    <3>1. outgoing \in Seq(Submits) /\ Len(outgoing) \in Nat BY DEF TuiInv, TuiTypeOK
    <3>2. Len(outgoing') = Len(outgoing) + 1 /\ outgoing' \in Seq(Submits) BY <2>1, <2>2, <3>1
    <3>. QED BY <1>4, <3>1, <3>2 DEF TuiSizes
  <2>4. CASE planned.edit = 0
    <3>1. UNCHANGED <<planned, view>> BY <1>4, <2>4 DEF SubmitLine
    <3>2. TuiTypeOK' BY <1>0, <1>2, <2>3, <3>1 DEF TuiInv, TuiTypeOK
    <3>3. planned.rewind = 0 /\ planned.truncate = 0 BY <1>0 DEF TuiInv, PendingFits
    <3>4. PendingFits' BY <1>0, <2>4, <3>1, <3>3 DEF PendingFits
    <3>. QED BY <1>0, <3>1, <3>2, <3>4, Points
  <2>5. CASE planned.edit # 0
    <3> DEFINE k == planned.keep
    <3>1. /\ planned' = [planned EXCEPT !.truncate = planned.edit, !.edit = 0, !.keep = 0]
          /\ view' = SubSeq(view, 1, k)
      BY <1>4, <2>5 DEF SubmitLine
    <3>2. /\ AtRest /\ planned.edit <= Len(ledger[session])
          /\ k + 1 \in 1..Len(view) /\ view[k + 1].seq = planned.edit
          /\ planned.rewind = 0
      BY <1>0, <2>5 DEF TuiInv, PendingFits
    <3>3. k \in 0..Len(view) BY <1>1, <3>2
    <3>4. /\ view' \in Seq(Shown) /\ Len(view') = k
          /\ \A i \in 1..k : i \in 1..Len(view) /\ view'[i] = view[i]
          /\ Climbs(view) => Climbs(view')
          /\ Names(view, ledger[session]) => Names(view', ledger[session])
      BY <1>1, <3>1, <3>3, ShownBefore
    <3>5. /\ planned' \in [truncate : Nat, edit : Nat, keep : Nat, confirm : Nat, rewind : Nat]
          /\ planned'.truncate = planned.edit /\ planned'.edit = 0
          /\ planned'.confirm = 0 /\ planned'.rewind = 0
      BY <1>0, <1>1, <3>1, <3>2
    <3>6. \A i \in 1..k : view[i].seq < planned.edit
      <4> TAKE i \in 1..k
      <4>1. i \in 1..Len(view) /\ i < k + 1 BY <1>1, <3>3
      <4>2. view[i].seq \in Nat /\ planned.edit > 0 BY <1>1, <2>5, <4>1
      <4>3. view[i].seq > 0 => view[i].seq < planned.edit
        BY <2>5, <3>2, <4>1, <4>2 DEF TuiInv, Rising
      <4>. QED BY <4>2, <4>3
    <3>7. TuiTypeOK' BY <1>0, <1>2, <2>3, <3>4, <3>5 DEF TuiInv, TuiTypeOK
    <3>8. PendingFits' BY <1>0, <2>3, <3>2, <3>4, <3>5, <3>6 DEF PendingFits, AtRest
    <3>9. (ViewIsLedger /\ Rising)'
      <4>1. Names(view, ledger[session]) /\ Climbs(view) /\ RepliesFollow
        BY Reworded DEF TuiInv, ViewIsLedger
      <4>2. Names(view', ledger'[session']) /\ Climbs(view') BY <1>0, <3>4, <4>1
      <4>3. RepliesFollow' BY <1>0, <4>1 DEF RepliesFollow
      <4>. QED BY <4>2, <4>3 DEF ViewIsLedger, ViewNamesLedger, Rising, Names, Climbs
    <3>10. OneTurn' BY <1>0 DEF TuiInv, OneTurn, Quiet, Working
    <3>. QED BY <3>7, <3>8, <3>9, <3>10 DEF TuiInv
  <2>. QED BY <2>4, <2>5
<1>. QED BY <1>3, <1>4

\* A prompt is queued again (app.rs retry_focused), with its place as the
\* place to cut.
LEMMA RetrySteps ==
  ASSUME TuiSizes, TuiInv, NEW i \in 1..Len(view), Retry(i)
  PROVE  TuiInv'
<1>0. /\ phase = "key" /\ phase' = "stream" /\ planned.confirm = 0 /\ AtRest /\ planned.edit = 0
      /\ view[i].seq > 0
      /\ count.rewrites < MaxRewrites /\ count.submits < MaxSubmits
      /\ count' = [count EXCEPT !.rewrites = @ + 1, !.submits = @ + 1]
      /\ outgoing' = Append(outgoing, count.submits + 1)
      /\ planned' = [planned EXCEPT !.truncate = view[i].seq]
      /\ view' = SubSeq(view, 1, i - 1)
      /\ UNCHANGED <<session, scoped, current, stream, runStream, ledger, turn, abort>>
  BY DEF Retry, Key, GoTo, Unasked, Target, streamVars, daemonVars
<1>1. /\ \A j \in 1..Len(view) : view[j].seq \in Nat
      /\ planned \in [truncate : Nat, edit : Nat, keep : Nat, confirm : Nat, rewind : Nat]
      /\ count.submits \in 0..MaxSubmits /\ count.rewrites \in 0..MaxRewrites
      /\ Len(view) \in Nat /\ view \in Seq(Shown)
      /\ count \in [submits : 0..MaxSubmits, rewrites : 0..MaxRewrites, foreign : 0..Foreign]
  BY TuiFacts DEF TuiInv
<1>2. count' \in [submits : 0..MaxSubmits, rewrites : 0..MaxRewrites, foreign : 0..Foreign]
  <2>0. MaxSubmits \in Nat /\ MaxRewrites \in Nat BY DEF TuiSizes
  <2>1. count.submits + 1 \in 0..MaxSubmits BY <1>0, <1>1, <2>0
  <2>2. count.rewrites + 1 \in 0..MaxRewrites BY <1>0, <1>1, <2>0
  <2>. QED BY <1>0, <1>1, <2>1, <2>2
<1>3. outgoing' \in Seq(Submits) /\ Len(outgoing') <= MaxQueue /\ outgoing' # <<>>
  <2>0. MaxSubmits \in Nat BY DEF TuiSizes
  <2>1. count.submits + 1 \in Submits BY <1>0, <1>1, <2>0 DEF Submits
  <2>2. outgoing' = <<count.submits + 1>> BY <1>0 DEF AtRest
  <2>. QED BY <2>1, <2>2 DEF TuiSizes
<1>4. i - 1 \in 0..Len(view) BY <1>1
<1>5. /\ view' \in Seq(Shown) /\ Len(view') = i - 1
      /\ \A j \in 1..i - 1 : j \in 1..Len(view) /\ view'[j] = view[j]
      /\ Climbs(view) => Climbs(view')
      /\ Names(view, ledger[session]) => Names(view', ledger[session])
  BY <1>0, <1>1, <1>4, ShownBefore
<1>6. /\ planned' \in [truncate : Nat, edit : Nat, keep : Nat, confirm : Nat, rewind : Nat]
      /\ planned'.truncate = view[i].seq /\ planned'.edit = 0 /\ planned'.confirm = 0
      /\ planned'.rewind = planned.rewind /\ planned.rewind = 0
  <2>1. planned.rewind = 0 BY <1>0 DEF TuiInv, PendingFits
  <2>. QED BY <1>0, <1>1, <2>1
<1>7. \A j \in 1..i - 1 : view[j].seq < view[i].seq
  <2> TAKE j \in 1..i - 1
  <2>1. j \in 1..Len(view) /\ j < i /\ view[j].seq \in Nat /\ view[i].seq \in Nat BY <1>1
  <2>2. view[j].seq > 0 => view[j].seq < view[i].seq BY <1>0, <2>1 DEF TuiInv, Rising
  <2>. QED BY <1>0, <2>1, <2>2
<1>8. Names(view, ledger[session]) /\ Climbs(view) /\ RepliesFollow
  BY Reworded DEF TuiInv, ViewIsLedger
<1>9. view[i].seq <= Len(ledger[session]) BY <1>0, <1>8 DEF Names
<1>10. TuiTypeOK' BY <1>0, <1>2, <1>3, <1>5, <1>6 DEF TuiInv, TuiTypeOK
<1>11. PendingFits' BY <1>0, <1>3, <1>5, <1>6, <1>7, <1>9 DEF PendingFits, AtRest
<1>12. (ViewIsLedger /\ Rising)'
  <2>2. Names(view', ledger'[session']) /\ Climbs(view') BY <1>0, <1>5, <1>8
  <2>3. RepliesFollow' BY <1>0, <1>8 DEF RepliesFollow
  <2>. QED BY <2>2, <2>3 DEF ViewIsLedger, ViewNamesLedger, Rising, Names, Climbs
<1>13. OneTurn' BY <1>0 DEF TuiInv, OneTurn, Quiet, Working
<1>. QED BY <1>10, <1>11, <1>12, <1>13 DEF TuiInv

\* A view that names nothing (app.rs clear_view).
LEMMA ClearSteps ==
  ASSUME TuiSizes, TuiInv, Clear
  PROVE  TuiInv'
<1>0. /\ phase = "key" /\ phase' = "stream" /\ view' = <<>> /\ planned' = NothingPending
      /\ UNCHANGED <<session, scoped, current, outgoing, stream, runStream, ledger, turn, abort, count>>
  BY DEF Clear, Key, GoTo, streamVars, daemonVars
<1>1. /\ PendingFits'
      /\ planned' \in [truncate : Nat, edit : Nat, keep : Nat, confirm : Nat, rewind : Nat]
  BY <1>0, NothingFits
<1>2. view' \in Seq(Shown) BY <1>0
<1>3. TuiTypeOK' BY <1>0, <1>1, <1>2 DEF TuiInv, TuiTypeOK
<1>4. (ViewIsLedger /\ Rising)'
  BY <1>0 DEF TuiInv, ViewIsLedger, ViewNamesLedger, RepliesFollow, Rising
<1>5. OneTurn' BY <1>0 DEF TuiInv, OneTurn, Quiet, Working
<1>. QED BY <1>1, <1>3, <1>4, <1>5 DEF TuiInv

\* While no turn runs a history may be loaded: nothing of what was shown
\* before comes after it.
LEMMA Adopts ==
  ASSUME TuiSizes, TuiInv, current = 0, NEW s \in TuiSessions,
         ledger' \in [TuiSessions -> Seq(Message)], RepliesFollow',
         session' = s, view' = Loaded(ledger'[s]), outgoing' = <<>>, current' = 0,
         planned' = NothingPending, scoped' = TRUE, runStream' = NoStream,
         phase' \in {"send", "stream"},
         count' \in [submits : 0..MaxSubmits, rewrites : 0..MaxRewrites, foreign : 0..Foreign],
         UNCHANGED <<stream, turn, abort>>
  PROVE  TuiInv'
<1>1. /\ PendingFits'
      /\ planned' \in [truncate : Nat, edit : Nat, keep : Nat, confirm : Nat, rewind : Nat]
  BY NothingFits
<1>2. ledger'[s] \in Seq(Message) OBVIOUS
<1>3. view' \in Seq(Shown) /\ Names(view', ledger'[s]) /\ Climbs(view') BY <1>2, LoadedIs
<1>4. runStream' \in [run : 0..MaxSubmits, ended : BOOLEAN] BY DEF NoStream, TuiSizes
<1>9. outgoing' \in Seq(Submits) /\ Len(outgoing') <= MaxQueue /\ current' \in 0..MaxSubmits
  BY DEF TuiSizes
<1>10. session' \in TuiSessions /\ scoped' \in BOOLEAN
       /\ phase' \in {"rewind", "send", "key", "stream", "runStream"}
  OBVIOUS
<1>5. TuiTypeOK' BY <1>1, <1>3, <1>4, <1>9, <1>10 DEF TuiInv, TuiTypeOK
<1>6. (ViewIsLedger /\ Rising)'
  BY <1>3 DEF ViewIsLedger, ViewNamesLedger, Rising, Names, Climbs
<1>7. Quiet BY DEF TuiInv, OneTurn
<1>8. OneTurn' BY <1>7 DEF OneTurn, Quiet
<1>. QED BY <1>1, <1>5, <1>6, <1>8 DEF TuiInv

\* A switch loads the history of the other session.
LEMMA SwitchSteps ==
  ASSUME TuiSizes, TuiInv, NEW s \in TuiSessions, Switch(s)
  PROVE  TuiInv'
<1>1. /\ current = 0 /\ phase' = "stream" /\ scoped' = TRUE /\ runStream' = NoStream
      /\ session' = s /\ view' = Loaded(ledger'[s]) /\ outgoing' = <<>> /\ current' = 0
      /\ planned' = NothingPending
      /\ UNCHANGED <<stream, turn, abort, ledger>>
      /\ count.rewrites < MaxRewrites /\ count' = [count EXCEPT !.rewrites = @ + 1]
  BY DEF Switch, Key, GoTo, Adopt, daemonVars
<1>2. /\ count.rewrites \in 0..MaxRewrites
      /\ count \in [submits : 0..MaxSubmits, rewrites : 0..MaxRewrites, foreign : 0..Foreign]
  BY TuiFacts DEF TuiInv
<1>3. count' \in [submits : 0..MaxSubmits, rewrites : 0..MaxRewrites, foreign : 0..Foreign]
  <2>1. count.rewrites + 1 \in 0..MaxRewrites
    <3>1. MaxRewrites \in Nat BY DEF TuiSizes
    <3>. QED BY <1>1, <1>2, <3>1
  <2>. QED BY <1>1, <1>2, <2>1
<1>4. ledger' \in [TuiSessions -> Seq(Message)] /\ RepliesFollow'
  <2>1. ledger' = ledger BY <1>1
  <2>2. ledger \in [TuiSessions -> Seq(Message)] /\ RepliesFollow
    BY DEF TuiInv, TuiTypeOK, ViewIsLedger
  <2>. QED BY <2>1, <2>2 DEF RepliesFollow
<1>5. phase' \in {"send", "stream"} BY <1>1
<1>. QED BY <1>1, <1>3, <1>4, <1>5, Adopts

\* A rewind cuts the history and loads it again, or is refused and changes
\* nothing.
LEMMA RewindSteps ==
  ASSUME TuiSizes, TuiInv, TakeRewind
  PROVE  TuiInv'
<1> DEFINE L == ledger[session]
<1>0. /\ phase = "rewind" /\ phase' = "send"
      /\ UNCHANGED <<stream, runStream, turn, abort, count>>
  BY DEF TakeRewind, GoTo, streamVars
<1>1. /\ L \in Seq(Message) /\ Len(L) \in Nat /\ planned.rewind \in Nat
      /\ planned \in [truncate : Nat, edit : Nat, keep : Nat, confirm : Nat, rewind : Nat]
      /\ count \in [submits : 0..MaxSubmits, rewrites : 0..MaxRewrites, foreign : 0..Foreign]
  BY TuiFacts DEF TuiInv
<1>2. CASE planned.rewind = 0
  <2>1. UNCHANGED <<session, scoped, current, outgoing, planned, view, ledger>>
    BY <1>2 DEF TakeRewind, appVars
  <2>2. TuiTypeOK' BY <1>0, <2>1 DEF TuiInv, TuiTypeOK
  <2>3. (ViewIsLedger /\ Rising)'
    BY <2>1 DEF TuiInv, ViewIsLedger, ViewNamesLedger, RepliesFollow, Rising
  <2>4. PendingFits' BY <1>0, <1>2, <2>1 DEF TuiInv, PendingFits, AtRest
  <2>5. OneTurn' BY <1>0, <2>1 DEF TuiInv, OneTurn, Quiet, Working
  <2>. QED BY <2>2, <2>3, <2>4, <2>5 DEF TuiInv
<1>3. CASE /\ planned.rewind # 0
           /\ ledger' = [ledger EXCEPT ![session] = Before(@, planned.rewind)]
           /\ Adopt(session, ledger'[session]) /\ scoped' = TRUE
  <2>1. current = 0 /\ planned.rewind \in 1..Len(L) + 1
    BY <1>1, <1>3 DEF TuiInv, PendingFits, AtRest
  <2>2. session \in TuiSessions /\ ledger \in [TuiSessions -> Seq(Message)] BY DEF TuiInv, TuiTypeOK
  <2>3. Before(L, planned.rewind) \in Seq(Message) BY <1>1, <2>1, BeforeIs
  <2>4. ledger' \in [TuiSessions -> Seq(Message)]
        /\ \A s \in TuiSessions : ledger'[s] = IF s = session THEN Before(L, planned.rewind) ELSE ledger[s]
    BY <1>3, <2>2, <2>3
  <2>5. RepliesFollow'
    <3>1. \A s \in TuiSessions : Follows(ledger[s]) BY Reworded DEF TuiInv, ViewIsLedger
    <3>2. Follows(Before(L, planned.rewind)) BY <1>1, <2>1, <2>2, <3>1, FollowsBefore
    <3>3. \A s \in TuiSessions : Follows(ledger'[s]) BY <2>4, <3>1, <3>2
    <3>. QED BY <3>3 DEF RepliesFollow, Follows
  <2>6. runStream' = NoStream BY <1>0, <2>1 DEF TuiInv, OneTurn
  <2>7. /\ session' = session /\ view' = Loaded(ledger'[session]) /\ outgoing' = <<>> /\ current' = 0
        /\ planned' = NothingPending
    BY <1>3 DEF Adopt
  <2>. QED BY <1>0, <1>1, <1>3, <2>1, <2>2, <2>4, <2>5, <2>6, <2>7, Adopts
<1>4. CASE /\ planned.rewind # 0
           /\ planned' = [planned EXCEPT !.rewind = 0]
           /\ UNCHANGED <<ledger, session, scoped, current, outgoing, view>>
  <2>1. /\ planned' \in [truncate : Nat, edit : Nat, keep : Nat, confirm : Nat, rewind : Nat]
        /\ planned'.rewind = 0 /\ planned'.edit = planned.edit /\ planned'.keep = planned.keep
        /\ planned'.confirm = planned.confirm /\ planned'.truncate = planned.truncate
    BY <1>1, <1>4
  <2>2. TuiTypeOK' BY <1>0, <1>4, <2>1 DEF TuiInv, TuiTypeOK
  <2>3. (ViewIsLedger /\ Rising)'
    BY <1>4 DEF TuiInv, ViewIsLedger, ViewNamesLedger, RepliesFollow, Rising
  <2>4. PendingFits' BY <1>0, <1>4, <2>1 DEF TuiInv, PendingFits, AtRest
  <2>5. OneTurn' BY <1>0, <1>4 DEF TuiInv, OneTurn, Quiet, Working
  <2>. QED BY <2>2, <2>3, <2>4, <2>5 DEF TuiInv
<1>. QED BY <1>2, <1>3, <1>4 DEF TakeRewind, TuiSizes

\* A prompt goes out (app.rs take_prompt, event_loop): what it replaces is
\* cut first, and its place in the history is the one the view gives it.
LEMMA DeliverSteps ==
  ASSUME TuiSizes, TuiInv, Deliver
  PROVE  TuiInv'
<1> DEFINE L == ledger[session]
           R == Rewritten(session)
           p == Head(outgoing)
           t == planned.truncate
<1>0. /\ phase = "send" /\ phase' = "key" /\ current = 0 /\ outgoing # <<>>
      /\ ledger' = [ledger EXCEPT ![session] = Append(R, Typed(p))]
      /\ view' = Append(view, User(p, Len(R) + 1))
      /\ current' = p /\ outgoing' = Tail(outgoing)
      /\ runStream' = (IF scoped THEN [run |-> p, ended |-> FALSE] ELSE runStream)
      /\ turn' = [turn EXCEPT ![session] = Append(@, p)]
      /\ planned' = [planned EXCEPT !.truncate = 0, !.confirm = 0]
      /\ UNCHANGED <<stream, session, scoped, abort, count>>
  BY DEF Deliver, GoTo, Unsent, Stored, StartTurn
<1>1. /\ L \in Seq(Message) /\ Len(L) \in Nat /\ view \in Seq(Shown) /\ Len(view) \in Nat
      /\ \A i \in 1..Len(view) : view[i] \in Shown /\ view[i].seq \in Nat
      /\ planned \in [truncate : Nat, edit : Nat, keep : Nat, confirm : Nat, rewind : Nat]
      /\ t \in Nat
  BY TuiFacts DEF TuiInv
<1>2. session \in TuiSessions /\ ledger \in [TuiSessions -> Seq(Message)]
      /\ turn \in [TuiSessions -> Seq(Submits)]
  BY DEF TuiInv, TuiTypeOK
<1>3. p \in Submits /\ p # 0 /\ p \in 0..MaxSubmits /\ outgoing' \in Seq(Submits) /\ Len(outgoing') <= MaxQueue
  <2>1. outgoing \in Seq(Submits) /\ Len(outgoing) <= MaxQueue BY DEF TuiInv, TuiTypeOK
  <2>2. p \in Submits /\ outgoing' \in Seq(Submits) /\ Len(outgoing') = Len(outgoing) - 1 /\ Len(outgoing) \in Nat
    BY <1>0, <2>1
  <2>. QED BY <2>1, <2>2 DEF Submits, TuiSizes
<1>4. Names(view, L) /\ Climbs(view) /\ \A s \in TuiSessions : Follows(ledger[s])
  BY Reworded DEF TuiInv, ViewIsLedger
\* What the prompt is stored behind, and what the view names of it.
<1>5. /\ R \in Seq(Message) /\ Len(R) \in Nat /\ Follows(R) /\ Names(view, R)
      /\ \A i \in 1..Len(view) : view[i].seq <= Len(R)
  <2>1. CASE t = 0
    <3>1. R = L BY <2>1 DEF Rewritten
    <3>2. \A i \in 1..Len(view) : view[i].seq <= Len(L)
      <4> TAKE i \in 1..Len(view)
      <4>1. view[i].seq > 0 => view[i].seq <= Len(L) BY <1>4 DEF Names
      <4>. QED BY <1>1, <4>1
    <3>. QED BY <1>1, <1>2, <1>4, <3>1, <3>2
  <2>2. CASE t # 0
    <3>1. t <= Len(L) /\ \A i \in 1..Len(view) : view[i].seq < t
      BY <2>2 DEF TuiInv, PendingFits
    <3>2. R = Before(L, t) /\ t \in 1..Len(L) + 1 BY <1>1, <2>2, <3>1 DEF Rewritten
    <3>3. /\ R \in Seq(Message) /\ Len(R) = t - 1
          /\ \A i \in 1..t - 1 : i \in 1..Len(L) /\ R[i] = L[i]
      <4>1. /\ Before(L, t) \in Seq(Message) /\ Len(Before(L, t)) = t - 1
            /\ \A i \in 1..t - 1 : i \in 1..Len(L) /\ Before(L, t)[i] = L[i]
        BY <1>1, <3>2, BeforeIs
      <4>. QED BY <3>2, <4>1
    <3>4. Follows(R) BY <1>1, <1>2, <1>4, <3>2, FollowsBefore
    <3>5. \A i \in 1..Len(view) : view[i].seq <= Len(R) BY <1>1, <3>1, <3>2, <3>3
    <3>6. Names(view, R)
      <4> SUFFICES ASSUME NEW i \in 1..Len(view), view[i].seq > 0
                   PROVE  /\ view[i].seq <= Len(R)
                          /\ R[view[i].seq] = [role |-> view[i].role, of |-> view[i].of]
        BY DEF Names
      <4>1. view[i].seq \in 1..t - 1 BY <1>1, <3>1, <3>2
      <4>2. L[view[i].seq] = [role |-> view[i].role, of |-> view[i].of] BY <1>4 DEF Names
      <4>. QED BY <3>3, <3>5, <4>1, <4>2
    <3>. QED BY <1>1, <3>2, <3>3, <3>4, <3>5, <3>6
  <2>. QED BY <2>1, <2>2
<1> DEFINE m == Typed(p)
           B == Append(R, m)
           e == User(p, Len(R) + 1)
<1>6. m \in Message /\ m.role = "user" /\ m.role # "reply" BY <1>3 DEF Typed, Message
<1>7. /\ e \in Shown /\ e.seq = Len(R) + 1 /\ [role |-> e.role, of |-> e.of] = m
  BY <1>3, <1>5 DEF Shown, User, Typed
<1> HIDE DEF R, p, t, m, e
<1>8. /\ B \in Seq(Message) /\ Len(B) = Len(R) + 1 /\ B[Len(R) + 1] = m /\ B # <<>>
  BY <1>5, <1>6
<1>9. /\ ledger' \in [TuiSessions -> Seq(Message)] /\ ledger'[session] = B
      /\ \A s \in TuiSessions : s # session => ledger'[s] = ledger[s]
  BY <1>0, <1>2, <1>8 DEF m
<1>10. Follows(B) /\ Names(view, B) BY <1>5, <1>6, <1>1, FollowsAppended, NamesAppended
<1>11. /\ view' \in Seq(Shown) /\ Len(view') = Len(view) + 1 /\ view'[Len(view) + 1] = e
       /\ \A i \in 1..Len(view) : view'[i] = view[i]
  BY <1>0, <1>1, <1>7 DEF e
<1>12. Names(view', B)
  <2> SUFFICES ASSUME NEW i \in 1..Len(view'), view'[i].seq > 0
               PROVE  /\ view'[i].seq <= Len(B)
                      /\ B[view'[i].seq] = [role |-> view'[i].role, of |-> view'[i].of]
    BY DEF Names
  <2>0. i \in 1..Len(view) \/ i = Len(view) + 1 BY <1>1, <1>11
  <2>1. CASE i \in 1..Len(view) BY <1>10, <1>11, <2>1 DEF Names
  <2>2. CASE i = Len(view) + 1 BY <1>5, <1>7, <1>8, <1>11, <2>2
  <2>. QED BY <2>0, <2>1, <2>2
<1>13. Climbs(view')
  <2> SUFFICES ASSUME NEW i \in 1..Len(view'), NEW j \in 1..Len(view'),
                      i < j, view'[i].seq > 0, view'[j].seq > 0
               PROVE  view'[i].seq < view'[j].seq
    BY DEF Climbs
  <2>0. i \in 1..Len(view) BY <1>1, <1>11
  <2>1. CASE j \in 1..Len(view) BY <1>4, <1>11, <2>0, <2>1 DEF Climbs
  <2>2. CASE j = Len(view) + 1
    <3>1. view'[i].seq <= Len(R) /\ view'[i].seq \in Nat BY <1>1, <1>5, <1>11, <2>0
    <3>. QED BY <1>5, <1>7, <1>11, <2>2, <3>1
  <2>. QED BY <1>1, <1>11, <2>1, <2>2
<1>14. (ViewIsLedger /\ Rising)'
  <2>1. Names(view', ledger'[session']) BY <1>0, <1>9, <1>12
  <2>2. \A s \in TuiSessions : Follows(ledger'[s]) BY <1>4, <1>9, <1>10
  <2>. QED BY <1>13, <2>1, <2>2 DEF ViewIsLedger, ViewNamesLedger, RepliesFollow, Rising, Names, Climbs, Follows
<1>15. /\ planned' \in [truncate : Nat, edit : Nat, keep : Nat, confirm : Nat, rewind : Nat]
       /\ planned'.truncate = 0 /\ planned'.confirm = 0
       /\ planned'.edit = planned.edit /\ planned'.rewind = planned.rewind
  BY <1>0, <1>1
<1>16. planned.edit = 0 /\ planned.rewind = 0 BY <1>0 DEF TuiInv, PendingFits, AtRest
<1>17. PendingFits' BY <1>15, <1>16 DEF PendingFits
<1>18. Quiet /\ runStream = NoStream /\ (~scoped => stream = <<>>)
  BY <1>0 DEF TuiInv, OneTurn
<1>19. /\ turn' \in [TuiSessions -> Seq(Submits)]
       /\ turn' = [s \in TuiSessions |-> IF s = session THEN <<p>> ELSE <<>>]
  <2>1. \A s \in TuiSessions : turn[s] = <<>> BY <1>18 DEF Quiet
  <2>a. Append(<<>>, p) = <<p>> OBVIOUS
  <2>2. Append(turn[session], p) = <<p>>
    <3>1. turn[session] = <<>> BY <1>2, <2>1
    <3>. QED BY <3>1, <2>a, Zenon
  <2>3. turn' = [s \in TuiSessions |-> IF s = session THEN <<p>> ELSE <<>>]
    BY <1>0, <1>2, <2>1, <2>2
  <2>4. <<p>> \in Seq(Submits) BY <1>3
  <2>. QED BY <2>3, <2>4
<1>20. runStream' \in [run : 0..MaxSubmits, ended : BOOLEAN]
       /\ (scoped => runStream'.run = p /\ runStream'.ended = FALSE)
       /\ (~scoped => runStream' = NoStream)
  BY <1>0, <1>3, <1>18 DEF NoStream, TuiSizes
<1>21. OneTurn'
  <2>1. current' = p /\ p # 0 /\ scoped' = scoped /\ stream' = stream /\ session' = session
    BY <1>0, <1>3
  <2>2. ledger'[session'] # <<>> /\ ledger'[session'][Len(ledger'[session'])] = Typed(current')
    BY <1>8, <1>9, <2>1 DEF m
  <2>3. Working(current)' BY <1>0, <1>19, <2>1 DEF Working
  <2>. QED BY <1>18, <1>20, <2>1, <2>2, <2>3 DEF OneTurn
<1>22. TuiTypeOK'
  <2>1. current' \in 0..MaxSubmits BY <1>0, <1>3
  <2>. QED BY <1>0, <1>3, <1>9, <1>11, <1>15, <1>19, <1>20, <2>1 DEF TuiInv, TuiTypeOK
<1>. QED BY <1>14, <1>17, <1>21, <1>22 DEF TuiInv

\* The turn under way ends: its reply comes right after its prompt.
LEMMA Finishes ==
  ASSUME TuiSizes, TuiInv, current # 0, Finish(current), Quiet,
         UNCHANGED <<session, scoped, outgoing, planned, turn, abort, count>>,
         phase' = phase \/ phase' = "rewind",
         runStream' = NoStream, stream' \in Seq(0..MaxSubmits), ~scoped => stream' = <<>>
  PROVE  TuiInv'
<1> DEFINE L == ledger[session]
           e == Shows(current, 0)
           m == ReplyTo(current)
<1>1. /\ L \in Seq(Message) /\ Len(L) \in Nat /\ view \in Seq(Shown) /\ Len(view) \in Nat
  BY TuiFacts DEF TuiInv
<1>2. session \in TuiSessions /\ ledger \in [TuiSessions -> Seq(Message)] /\ current \in 0..MaxSubmits
      /\ phase \in {"rewind", "send", "key", "stream", "runStream"}
  BY DEF TuiInv, TuiTypeOK
<1>3. m \in Message /\ e \in Shown /\ e.seq = 0 /\ m.of = current
  BY <1>2 DEF ReplyTo, Shows, Message, Shown
<1>4. L # <<>> /\ L[Len(L)] = Typed(current) BY DEF TuiInv, OneTurn
<1>5. Names(view, L) /\ Climbs(view) /\ \A s \in TuiSessions : Follows(ledger[s])
  BY Reworded DEF TuiInv, ViewIsLedger
<1>6. Follows(Append(L, m)) /\ Names(view, Append(L, m)) /\ Append(L, m) \in Seq(Message)
  <2>1. Follows(L) BY <1>2, <1>5
  <2>. QED BY <1>1, <1>3, <1>4, <1>5, <2>1, FollowsAppended, NamesAppended
<1>7. /\ ledger' \in [TuiSessions -> Seq(Message)]
      /\ ledger'[session] \in {L, Append(L, m)}
      /\ \A s \in TuiSessions : s # session => ledger'[s] = ledger[s]
  BY <1>2, <1>6 DEF Finish
<1>8. view' = Append(view, e) /\ current' = 0 BY DEF Finish
<1> HIDE DEF e, m
<1>9. /\ view' \in Seq(Shown) /\ Len(view') = Len(view) + 1 /\ view'[Len(view) + 1].seq = 0
      /\ \A i \in 1..Len(view) : view'[i] = view[i]
  BY <1>1, <1>3, <1>8
<1>10. \A i \in 1..Len(view') : view'[i].seq > 0 => i \in 1..Len(view) /\ view'[i] = view[i]
  <2> TAKE i \in 1..Len(view')
  <2>1. i \in 1..Len(view) \/ i = Len(view) + 1 BY <1>1, <1>9
  <2>. QED BY <1>9, <2>1
<1>11. Names(view', ledger'[session])
  <2>1. Names(view, ledger'[session]) BY <1>5, <1>6, <1>7
  <2>. QED BY <1>10, <2>1 DEF Names
<1>12. Climbs(view') BY <1>5, <1>10 DEF Climbs
<1>13. \A s \in TuiSessions : Follows(ledger'[s]) BY <1>2, <1>5, <1>6, <1>7
<1>14. (ViewIsLedger /\ Rising)'
  BY <1>11, <1>12, <1>13 DEF ViewIsLedger, ViewNamesLedger, RepliesFollow, Rising, Names, Climbs, Follows
<1>15. planned.edit = 0 /\ planned.confirm = 0 /\ planned.rewind = 0 /\ planned.truncate = 0
  BY TuiFacts DEF TuiInv, PendingFits, AtRest
<1>16. PendingFits' BY <1>15 DEF PendingFits
<1>17. OneTurn' BY <1>8 DEF OneTurn, Quiet
<1>18. runStream' \in [run : 0..MaxSubmits, ended : BOOLEAN] /\ current' \in 0..MaxSubmits
       /\ phase' \in {"rewind", "send", "key", "stream", "runStream"}
  BY <1>2, <1>8 DEF NoStream, TuiSizes
<1>19. TuiTypeOK' BY <1>7, <1>9, <1>18 DEF TuiInv, TuiTypeOK
<1>. QED BY <1>14, <1>16, <1>17, <1>19 DEF TuiInv

\* Before the first switch the stream of all sessions tells the end of the
\* one turn.
LEMMA AbsorbSteps ==
  ASSUME TuiSizes, TuiInv, Absorb
  PROVE  TuiInv'
<1>0. /\ phase = "stream" /\ stream # <<>> /\ stream' = Tail(stream)
      /\ UNCHANGED <<phase, session, scoped, outgoing, planned, runStream, turn, abort, count>>
  BY DEF Absorb
<1>1. stream' \in Seq(0..MaxSubmits) BY <1>0 DEF TuiInv, TuiTypeOK
<1>2. CASE scoped
  <2>1. UNCHANGED <<current, view, ledger>> BY <1>2 DEF Absorb
  <2>2. TuiTypeOK' BY <1>0, <1>1, <2>1 DEF TuiInv, TuiTypeOK
  <2>3. (ViewIsLedger /\ Rising)'
    BY <1>0, <2>1 DEF TuiInv, ViewIsLedger, ViewNamesLedger, RepliesFollow, Rising
  <2>4. PendingFits' BY <1>0, <2>1 DEF TuiInv, PendingFits, AtRest
  <2>5. OneTurn' BY <1>0, <1>2, <2>1 DEF TuiInv, OneTurn, Quiet, Working
  <2>. QED BY <2>2, <2>3, <2>4, <2>5 DEF TuiInv
<1>3. CASE ~scoped
  <2>1. current # 0 /\ stream = <<current>> /\ Quiet /\ runStream = NoStream
    BY <1>0, <1>3 DEF TuiInv, OneTurn
  <2>2. Head(stream) = current /\ stream' = <<>> BY <1>0, <2>1
  <2>3. Finish(current) BY <1>3, <2>2 DEF Absorb
  <2>4. runStream' = NoStream BY <1>0, <2>1
  <2>. QED BY <1>0, <1>1, <2>1, <2>2, <2>3, <2>4, Finishes
<1>. QED BY <1>2, <1>3

\* After it the run's own stream does.
LEMMA AbsorbRunSteps ==
  ASSUME TuiSizes, TuiInv, AbsorbRun
  PROVE  TuiInv'
<1>0. /\ phase = "runStream" /\ phase' = "rewind"
      /\ UNCHANGED <<session, scoped, outgoing, planned, stream, turn, abort, count>>
  BY DEF AbsorbRun, GoTo
<1>1. CASE ~runStream.ended
  <2>1. UNCHANGED <<current, view, ledger, runStream>> BY <1>1 DEF AbsorbRun
  <2>2. TuiTypeOK' BY <1>0, <2>1 DEF TuiInv, TuiTypeOK
  <2>3. (ViewIsLedger /\ Rising)'
    BY <1>0, <2>1 DEF TuiInv, ViewIsLedger, ViewNamesLedger, RepliesFollow, Rising
  <2>4. PendingFits' BY <1>0, <2>1 DEF TuiInv, PendingFits, AtRest
  <2>5. OneTurn' BY <1>0, <2>1 DEF TuiInv, OneTurn, Quiet, Working
  <2>. QED BY <2>2, <2>3, <2>4, <2>5 DEF TuiInv
<1>2. CASE runStream.ended
  <2>1. Finish(runStream.run) /\ runStream' = NoStream BY <1>2 DEF AbsorbRun
  <2>2. runStream # NoStream BY <1>2 DEF NoStream
  <2>3. current # 0 /\ scoped /\ runStream.run = current /\ Quiet
    BY <1>2, <2>2 DEF TuiInv, OneTurn
  <2>4. Finish(current) BY <2>1, <2>3
  <2>5. stream' \in Seq(0..MaxSubmits) BY <1>0 DEF TuiInv, TuiTypeOK
  <2>. QED BY <1>0, <2>1, <2>3, <2>4, <2>5, Finishes
<1>. QED BY <1>1, <1>2

\* The daemon ends the one turn there is.
LEMMA TurnEndSteps ==
  ASSUME TuiSizes, TuiInv, NEW s \in TuiSessions, TurnEnds(s)
  PROVE  TuiInv'
<1>0. /\ turn[s] # <<>>
      /\ turn' = [turn EXCEPT ![s] = Tail(@)]
      /\ stream' = Append(stream, Head(turn[s]))
      /\ runStream' = [runStream EXCEPT !.ended = @ \/ runStream.run = Head(turn[s])]
      /\ UNCHANGED <<phase, session, scoped, current, outgoing, planned, view, ledger, abort, count>>
  BY DEF TurnEnds, appVars
<1>1. current # 0 /\ Working(current) /\ (scoped => runStream.run = current /\ ~runStream.ended)
      /\ (~scoped => stream = <<>> /\ runStream = NoStream)
  BY <1>0 DEF TuiInv, OneTurn, Quiet
<1>2. s = session /\ turn[s] = <<current>> BY <1>0, <1>1 DEF Working
<1>3. current \in 0..MaxSubmits /\ runStream \in [run : 0..MaxSubmits, ended : BOOLEAN]
      /\ stream \in Seq(0..MaxSubmits)
  BY DEF TuiInv, TuiTypeOK
<1>4. Head(turn[s]) = current /\ Tail(turn[s]) = <<>> BY <1>2
<1>5. turn' = [t \in TuiSessions |-> <<>>] BY <1>0, <1>1, <1>2, <1>4 DEF Working
<1>6. turn' \in [TuiSessions -> Seq(Submits)] /\ Quiet' BY <1>5 DEF Quiet
<1>7. stream' \in Seq(0..MaxSubmits) /\ (~scoped => stream' = <<current>>)
  <2>1. stream' \in Seq(0..MaxSubmits) BY <1>0, <1>3, <1>4
  <2>2. Append(<<>>, current) = <<current>> OBVIOUS
  <2>. QED BY <1>0, <1>1, <1>4, <2>1, <2>2
<1>8. /\ runStream' \in [run : 0..MaxSubmits, ended : BOOLEAN]
      /\ scoped => runStream'.run = current /\ runStream'.ended
      /\ ~scoped => runStream' = NoStream
  <2> DEFINE b == runStream.ended \/ runStream.run = current
  <2>1. runStream' = [runStream EXCEPT !.ended = b] BY <1>0, <1>4
  <2>2. b \in BOOLEAN BY <1>3
  <2>3. scoped => b BY <1>1
  <2>4. ~scoped => b = FALSE BY <1>1 DEF NoStream
  <2> HIDE DEF b
  <2>5. /\ runStream' \in [run : 0..MaxSubmits, ended : BOOLEAN]
        /\ runStream'.run = runStream.run /\ runStream'.ended = b
    BY <1>3, <2>1, <2>2
  <2>6. ~scoped => runStream' = NoStream
    <3>1. ~scoped => runStream = [run |-> 0, ended |-> FALSE] BY <1>1 DEF NoStream
    <3>2. ~scoped => runStream' = [runStream EXCEPT !.ended = FALSE] BY <2>1, <2>4
    <3>. QED BY <3>1, <3>2 DEF NoStream
  <2>. QED BY <1>1, <2>3, <2>5, <2>6
<1>9. TuiTypeOK' BY <1>0, <1>6, <1>7, <1>8 DEF TuiInv, TuiTypeOK
<1>10. (ViewIsLedger /\ Rising)'
  BY <1>0 DEF TuiInv, ViewIsLedger, ViewNamesLedger, RepliesFollow, Rising
<1>11. PendingFits' BY <1>0 DEF TuiInv, PendingFits, AtRest
<1>12. OneTurn' BY <1>0, <1>1, <1>6, <1>7, <1>8 DEF TuiInv, OneTurn
<1>. QED BY <1>9, <1>10, <1>11, <1>12 DEF TuiInv

\* Every step of the loop, the keys and the daemon keeps it.
LEMMA TuiSteps ==
  ASSUME TuiSizes, TuiInv, [TuiNext]_tuiVars
  PROVE  TuiInv'
<1>1. CASE TuiNext
  <2>1. CASE Loop
    <3>1. CASE Keys BY <3>1, MovesOn, SubmitSteps, RecallSteps, DiscardSteps, DecideSteps, ClearSteps,
                       AbortSteps, RetrySteps, EditSteps, SwitchSteps DEF Keys
    <3>. QED BY <2>1, <3>1, MovesOn, RewindSteps, DeliverSteps, AbsorbSteps, AbsorbRunSteps DEF Loop
  <2>2. CASE Turns BY <2>2, TurnEndSteps DEF Turns
  <2>3. CASE ForeignTurn BY <2>3, TuiFacts DEF ForeignTurn, TuiInv, TuiSizes
  <2>. QED BY <1>1, <2>1, <2>2, <2>3 DEF TuiNext
<1>2. CASE UNCHANGED tuiVars
  <2>1. UNCHANGED <<phase, session, scoped, current, outgoing, planned, view, stream, runStream, ledger, turn, abort, count>>
    BY <1>2 DEF tuiVars, appVars, streamVars, daemonVars
  <2>2. TuiTypeOK' BY <2>1 DEF TuiInv, TuiTypeOK
  <2>3. (ViewIsLedger /\ Rising)'
    BY <2>1 DEF TuiInv, ViewIsLedger, ViewNamesLedger, RepliesFollow, Rising
  <2>4. PendingFits' BY <2>1 DEF TuiInv, PendingFits, AtRest
  <2>5. OneTurn' BY <2>1 DEF TuiInv, OneTurn, Quiet, Working
  <2>. QED BY <2>2, <2>3, <2>4, <2>5 DEF TuiInv
<1>. QED BY <1>1, <1>2

\* The loop, what is pending, the view, the queues and the histories keep
\* their types (app.rs event_loop).
THEOREM TuiTyped == ASSUME TuiSizes PROVE TuiSpec => []TuiTypeOK
<1>1. TuiInit => TuiInv BY TuiStarts
<1>2. TuiInv /\ [TuiNext]_tuiVars => TuiInv' BY TuiSteps
<1>3. TuiInv => TuiTypeOK BY DEF TuiInv
<1>. QED BY <1>1, <1>2, <1>3, PTL DEF TuiSpec

\* Whatever was retried, edited, rewound, switched and answered, a message
\* of the view that knows its place is the message at that place of the
\* session, and every reply in every session is right behind its own prompt:
\* what a rewrite cuts is what was pointed at (app.rs event_loop,
\* rewrite_target; MCEdge's ViewIsLedger).
THEOREM ViewFollowsLedger == ASSUME TuiSizes PROVE TuiSpec => []ViewIsLedger
<1>1. TuiInit => TuiInv BY TuiStarts
<1>2. TuiInv /\ [TuiNext]_tuiVars => TuiInv' BY TuiSteps
<1>3. TuiInv => ViewIsLedger BY DEF TuiInv
<1>. QED BY <1>1, <1>2, <1>3, PTL DEF TuiSpec

(***************************************************************************)
(* The page of the web client.                                             *)
(***************************************************************************)

\* A page that has no daemon has sent nothing.
OfflineInv ==
  backend = "disconnected" =>
    /\ stored = {Old} /\ rpc = {} /\ live = NoSend
    /\ Old \notin Listed \cup past.archived
    /\ \A r \in Sends : sender[r].at \in {"idle", "over"}

\* What was archived is nowhere on the page, and only that is asked to be
\* archived.
OutInv ==
  /\ \A i, j \in DOMAIN listed : listed[i] = listed[j] => i = j
  /\ ArchivedStaysOut
  /\ \A q \in rpc : q.op = "archive" => q.sid \in past.archived
  /\ ready => link

\* How far a send is, its run, its session and the events of it go together.
Sending == {"gate", "store", "prompt", "sent"}
SendInv ==
  \A r \in Sends :
    /\ runs[r] # "none" => sender[r].at = "sent"
    /\ r \in past.spoke => runs[r] = "ended"
    /\ \A i \in DOMAIN rx : rx[i].of = r => runs[r] \in {"begun", "ended"}
    /\ sender[r].at = "idle" => sender[r].sid = NoSid
    /\ sender[r].at # "idle" => /\ sender[r].sid \in Sids
                                /\ \A q \in 1..(r - 1) : sender[q].at # "idle"
                                /\ sender[r].sid \in past.archived \cup DOMAIN messages
    /\ sender[r].at \in Sending => sender[r].sid \in past.archived \cup Listed
    /\ sender[r].at \in Sending \ {"gate"} /\ runs[r] # "ended" => r \in past.cut \/ link
    /\ live = r => sender[r].at # "idle" /\ \A q \in Sends : q > r => sender[q].at = "idle"

\* The events of a run end with its text, if any, and its end.
EventsInOrder(r) ==
  \A i \in DOMAIN rx :
    /\ rx[i].kind = "end" <=> runs[r] = "ended" /\ i = Len(rx)
    /\ rx[i].kind = "text" <=> r \in past.spoke /\ i = Len(rx) - 1

\* As long as no send overlaps another, the one under way is the last, the events
\* go to its session, and what comes last there is its prompt or its reply.
OneInv ==
  ~past.overlap =>
    \A r \in Sends : Unfinished(r) =>
      /\ \A q \in Sends : q > r => sender[q].at = "idle"
      /\ target = sender[r].sid
      /\ sender[r].sid \notin past.archived =>
           messages[sender[r].sid] # <<>> /\ Last(messages[sender[r].sid]).of \subseteq {r}
      /\ r \notin past.cut => EventsInOrder(r)

\* The places of a text in a list, and the stores of it that are on their way.
At(list, r) == {i \in 1..Len(list) : list[i].who = "reply" /\ r \in list[i].of}
Under(s, r) == {q \in rpc : q.op = "reply" /\ q.sid = s /\ r \in q.of}

\* The text was put on the page.
ReadOut(r) == r \in past.spoke /\ \A i \in DOMAIN rx : ~(rx[i].of = r /\ rx[i].kind = "text")

Once(r, s) ==
  /\ s \in DOMAIN messages
  /\ \E i \in At(messages[s], r) : At(messages[s], r) = {i}
  /\ IF Ended(r)
     THEN \/ Under(s, r) = {} /\ \E i \in At(rows[s], r) : At(rows[s], r) = {i}
          \/ At(rows[s], r) = {} /\ \E q \in Under(s, r) : Under(s, r) = {q}
     ELSE Len(messages[s]) \in At(messages[s], r) /\ At(rows[s], r) = {} /\ Under(s, r) = {}
Nowhere(r, s) ==
  /\ s \in DOMAIN messages => At(messages[s], r) = {}
  /\ At(rows[s], r) = {} /\ Under(s, r) = {}

\* A text that was read is once in the session of its send, any other is nowhere.
TextInv ==
  ~past.overlap =>
    \A r \in Sends, s \in Sids :
      r \notin past.cut /\ sender[r].sid \notin past.archived =>
        IF ReadOut(r) /\ s = sender[r].sid THEN Once(r, s) ELSE Nowhere(r, s)

PageInv == WebTypeOK /\ OfflineInv /\ OutInv /\ SendInv /\ OneInv /\ TextInv

\* The places of a text in a list that grows by a bubble.
LEMMA AtAppend ==
  ASSUME NEW list \in Seq(Bubble), NEW b \in Bubble
  PROVE  /\ Append(list, b) \in Seq(Bubble)
         /\ Append(list, b) # <<>> /\ Last(Append(list, b)) = b
         /\ \A r \in Sends :
              /\ b.who = "user" \/ r \notin b.of => At(Append(list, b), r) = At(list, r)
              /\ b.who = "reply" /\ r \in b.of =>
                   At(Append(list, b), r) = At(list, r) \cup {Len(list) + 1}
<1>1. /\ Append(list, b) \in Seq(Bubble) /\ Len(Append(list, b)) = Len(list) + 1
      /\ Len(list) \in Nat
      /\ Append(list, b)[Len(list) + 1] = b
      /\ \A i \in 1..Len(list) : Append(list, b)[i] = list[i]
  OBVIOUS
<1> HIDE DEF Bubble
<1> QED
  BY <1>1 DEF At, Last

\* The reply at the end of a list, which is there or made.
LEMMA AtReply ==
  ASSUME NEW list \in Seq(Bubble), NEW of \in SUBSET Sends,
         list # <<>> => Last(list).of \subseteq of
  PROVE  /\ WithReply(list) \in Seq(Bubble) /\ WithReply(list) # <<>>
         /\ Last(WithReply(list)).who = "reply" /\ Last(WithReply(list)).of \subseteq of
         /\ \A r \in Sends : At(WithReply(list), r) = At(list, r)
         /\ \A r \in Sends : r \in Last(WithReply(list)).of
              => Len(list) \in At(list, r) /\ Len(WithReply(list)) = Len(list)
         /\ \A r \in Sends : Len(list) \in At(list, r) => r \in Last(WithReply(list)).of
<1> DEFINE b == [who |-> "reply", of |-> {}]
<1>1. b \in Bubble /\ b.who = "reply" /\ b.of = {}
  BY DEF Bubble
<1>2. CASE list # <<>> /\ Last(list).who = "reply"
  <2>1. WithReply(list) = list
    BY <1>2 DEF WithReply
  <2>2. Len(list) \in 1..Len(list) /\ Last(list) = list[Len(list)]
    BY <1>2 DEF Last
  <2> QED
    BY <1>2, <2>1, <2>2 DEF At
<1>3. CASE ~(list # <<>> /\ Last(list).who = "reply")
  <2>1. WithReply(list) = Append(list, b)
    BY <1>3 DEF WithReply
  <2>2. \A r \in Sends : Len(list) \notin At(list, r)
    BY <1>3 DEF At, Last
  <2> HIDE DEF b
  <2>3. /\ Append(list, b) \in Seq(Bubble) /\ Append(list, b) # <<>>
        /\ Last(Append(list, b)) = b
    BY <1>1, AtAppend
  <2>4. \A r \in Sends : At(Append(list, b), r) = At(list, r)
    BY <1>1, AtAppend
  <2> QED
    BY <1>1, <2>1, <2>2, <2>3, <2>4
<1> QED
  BY <1>2, <1>3

\* A text that is put into the reply at the end.
LEMMA AtSpoken ==
  ASSUME NEW list \in Seq(Bubble), list # <<>>, Last(list).who = "reply", NEW r \in Sends
  PROVE  /\ Spoken(list, r) \in Seq(Bubble) /\ Spoken(list, r) # <<>>
         /\ Last(Spoken(list, r)).of = Last(list).of \cup {r}
         /\ At(Spoken(list, r), r) = At(list, r) \cup {Len(list)}
         /\ Len(Spoken(list, r)) = Len(list) /\ Len(list) \in Nat /\ Len(list) > 0
         /\ \A q \in Sends : q # r => At(Spoken(list, r), q) = At(list, q)
<1>1. Len(list) \in Nat /\ Len(list) > 0 /\ Len(list) \in 1..Len(list) /\ Last(list) = list[Len(list)]
  BY DEF Last
<1>2. list[Len(list)] \in Bubble
  BY <1>1
<1>3. [list[Len(list)] EXCEPT !.of = @ \cup {r}] \in Bubble
  BY <1>2 DEF Bubble
<1>4. /\ Spoken(list, r) \in Seq(Bubble) /\ Len(Spoken(list, r)) = Len(list)
      /\ Spoken(list, r)[Len(list)] = [list[Len(list)] EXCEPT !.of = @ \cup {r}]
      /\ \A i \in 1..Len(list) : i # Len(list) => Spoken(list, r)[i] = list[i]
  <2> DEFINE b == [list[Len(list)] EXCEPT !.of = @ \cup {r}]
  <2>1. Spoken(list, r) = [list EXCEPT ![Len(list)] = b]
    BY DEF Spoken
  <2>2. b \in Bubble
    BY <1>3
  <2> HIDE DEF b, Bubble
  <2>3. /\ [list EXCEPT ![Len(list)] = b] \in Seq(Bubble)
        /\ Len([list EXCEPT ![Len(list)] = b]) = Len(list)
        /\ [list EXCEPT ![Len(list)] = b][Len(list)] = b
        /\ \A i \in 1..Len(list) : i # Len(list) => [list EXCEPT ![Len(list)] = b][i] = list[i]
    BY <1>1, <2>2
  <2> QED
    BY <2>1, <2>3 DEF b
<1>5. /\ Spoken(list, r)[Len(list)].of = list[Len(list)].of \cup {r}
      /\ Spoken(list, r)[Len(list)].who = "reply"
  BY <1>1, <1>2, <1>4 DEF Bubble
<1>6. At(Spoken(list, r), r) = At(list, r) \cup {Len(list)}
  BY <1>1, <1>4, <1>5 DEF At
<1>7. ASSUME NEW q \in Sends, q # r PROVE At(Spoken(list, r), q) = At(list, q)
  BY <1>1, <1>4, <1>5, <1>7 DEF At
<1> QED
  BY <1>1, <1>4, <1>5, <1>6, <1>7 DEF Last

-----------------------------------------------------------------------------
\* At first nothing was sent.
LEMMA PageInit == WebInit => PageInv
<1> SUFFICES ASSUME WebInit PROVE PageInv
  OBVIOUS
<1> USE DEF WebInit
<1>1. WebTypeOK
  <2>1. DOMAIN messages = {}
    OBVIOUS
  <2>2. past.archived = {} /\ past.cut = {} /\ past.spoke = {} /\ past.overlap = FALSE
        /\ past.moves \in 0..MaxMoves /\ live \in 0..MaxSends
    BY PageAssumption DEF NoSend
  <2>3. past \in [archived : SUBSET Sids, cut : SUBSET Sends, spoke : SUBSET Sends,
                  overlap : BOOLEAN, moves : 0..MaxMoves]
    BY <2>2
  <2>4. /\ sender \in [Sends -> [at : {"idle", "gate", "store", "prompt", "sent", "failed", "over"},
                                 sid : Sids \cup {NoSid}]]
        /\ runs \in [Sends -> {"none", "queued", "begun", "ended"}]
        /\ rows \in [Sids -> Seq(Bubble)] /\ rx \in Seq(PageEvents) /\ listed \in Seq(Sids)
    OBVIOUS
  <2> QED
    BY <2>1, <2>2, <2>3, <2>4, PageAssumption DEF WebTypeOK
<1>2. Listed = {}
  BY DEF Listed, Range
<1>3. OfflineInv /\ OutInv
  BY <1>2, PageAssumption DEF OfflineInv, OutInv, ArchivedStaysOut
<1>4. SendInv /\ OneInv
  BY DEF SendInv, OneInv, Unfinished, NoSend, Sending, Sends
<1>5. TextInv
  BY DEF TextInv, ReadOut, Nowhere, At, Under
<1> QED
  BY <1>1, <1>3, <1>4, <1>5 DEF PageInv

\* An event that waits is of a send under way, and without overlaps there is one.
LEMMA EventWaits ==
  ASSUME PageInv, NEW i \in DOMAIN rx
  PROVE  rx[i].of \in Sends /\ Unfinished(rx[i].of) /\ rx[i].kind \in {"start", "text", "end"}
<1>1. rx[i] \in PageEvents /\ i \in 1..Len(rx)
  BY DEF PageInv, WebTypeOK
<1>2. rx[i].of \in Sends /\ rx[i].kind \in {"start", "text", "end"}
  BY <1>1 DEF PageEvents
<1>3. sender[rx[i].of].at = "sent"
  BY <1>2 DEF PageInv, SendInv
<1> QED
  BY <1>1, <1>2, <1>3 DEF Unfinished, Ended

\* Without overlaps there is one send under way.
LEMMA OneUnderWay ==
  ASSUME PageInv, ~past.overlap, NEW q \in Sends, NEW r \in Sends, Unfinished(q), Unfinished(r)
  PROVE  q = r
BY DEF PageInv, OneInv, Unfinished, Sends

\* The fields of the records, one by one.
LEMMA PageFields ==
  ASSUME PageInv
  PROVE  /\ past.archived \subseteq Sids /\ past.cut \subseteq Sends /\ past.spoke \subseteq Sends
         /\ past.overlap \in BOOLEAN /\ past.moves \in 0..MaxMoves
         /\ \A r \in Sends : /\ sender[r].at \in {"idle", "gate", "store", "prompt", "sent", "failed", "over"}
                             /\ sender[r].sid \in Sids \cup {NoSid}
                             /\ sender[r] = [at |-> sender[r].at, sid |-> sender[r].sid]
         /\ Listed \subseteq Sids /\ DOMAIN messages \subseteq Sids
         /\ \A s \in Sids : rows[s] \in Seq(Bubble)
         /\ \A r \in Sends : runs[r] \in {"none", "queued", "begun", "ended"} /\ r \in Int /\ r > 0
<1> USE DEF PageInv, WebTypeOK
<1>1. /\ past.archived \subseteq Sids /\ past.cut \subseteq Sends /\ past.spoke \subseteq Sends
      /\ past.overlap \in BOOLEAN /\ past.moves \in 0..MaxMoves
  OBVIOUS
<1>2. \A r \in Sends : /\ sender[r].at \in {"idle", "gate", "store", "prompt", "sent", "failed", "over"}
                       /\ sender[r].sid \in Sids \cup {NoSid}
                       /\ sender[r] = [at |-> sender[r].at, sid |-> sender[r].sid]
  OBVIOUS
<1>3. Listed \subseteq Sids
  BY DEF Listed, Range
<1>4. \A r \in Sends : r \in Int /\ r > 0
  BY PageAssumption DEF Sends
<1> QED
  BY <1>1, <1>2, <1>3, <1>4

\* A thread that moves on, on its own.
LEMMA SenderMoves ==
  ASSUME PageInv, NEW r \in Sends, NEW from, NEW to, ThreadMoves(r, from, to),
         to \in {"idle", "gate", "store", "prompt", "sent", "failed", "over"}
  PROVE  /\ sender' \in [Sends -> [at : {"idle", "gate", "store", "prompt", "sent", "failed", "over"},
                                   sid : Sids \cup {NoSid}]]
         /\ sender[r].at = from /\ sender'[r].at = to
         /\ \A q \in Sends : sender'[q].sid = sender[q].sid
         /\ \A q \in Sends : q # r => sender'[q].at = sender[q].at
<1>1. /\ sender \in [Sends -> [at : {"idle", "gate", "store", "prompt", "sent", "failed", "over"},
                               sid : Sids \cup {NoSid}]]
      /\ sender' = [sender EXCEPT ![r] = [sender[r] EXCEPT !.at = to]] /\ sender[r].at = from
  BY DEF PageInv, WebTypeOK, ThreadMoves
<1>2. [sender[r] EXCEPT !.at = to]
        \in [at : {"idle", "gate", "store", "prompt", "sent", "failed", "over"}, sid : Sids \cup {NoSid}]
      /\ [sender[r] EXCEPT !.at = to].at = to /\ [sender[r] EXCEPT !.at = to].sid = sender[r].sid
  BY <1>1
<1>3. sender'[r] = [sender[r] EXCEPT !.at = to] /\ \A q \in Sends : q # r => sender'[q] = sender[q]
  BY <1>1
<1> QED
  BY <1>1, <1>2, <1>3

\* The thread of a send moves on: it was under way and nothing of it is on the page.
LEMMA ThreadTypes ==
  ASSUME PageInv, NEW r \in Sends, SendStep(r)
  PROVE  WebTypeOK'
<1> USE DEF ThreadOnly, pageVars, hostVars
<1>0. WebTypeOK
  BY DEF PageInv
<1>1. CASE Pass(r) \/ GiveUp(r)
  <2>1. UNCHANGED <<backend, listed, activeSid, running, messages, target, live, ready, link, rpc,
                    stored, rows, runs, rx, past>>
    BY <1>1 DEF Pass, GiveUp
  <2>2. sender' \in [Sends -> [at : {"idle", "gate", "store", "prompt", "sent", "failed", "over"},
                               sid : Sids \cup {NoSid}]]
    BY <1>1, SenderMoves DEF Pass, GiveUp
  <2> QED
    BY <1>0, <2>1, <2>2 DEF WebTypeOK
<1>2. CASE EnsureAndAppend(r)
  <2>1. sender[r].sid \in Sids
    BY <1>2 DEF EnsureAndAppend, ThreadMoves, PageInv, SendInv
  <2>2. UserBubble(r) \in Bubble
    BY DEF UserBubble, Bubble
  <2>3. Append(rows[sender[r].sid], UserBubble(r)) \in Seq(Bubble)
    BY <1>0, <2>1, <2>2, AtAppend DEF WebTypeOK
  <2>4. stored' \subseteq Sids /\ rows' \in [Sids -> Seq(Bubble)]
    BY <1>0, <1>2, <2>1, <2>3 DEF EnsureAndAppend, AddRow, WebTypeOK
  <2>5. UNCHANGED <<backend, listed, activeSid, running, messages, target, live, ready, link, rpc,
                    runs, rx, past>>
    BY <1>2 DEF EnsureAndAppend
  <2>6. sender' \in [Sends -> [at : {"idle", "gate", "store", "prompt", "sent", "failed", "over"},
                               sid : Sids \cup {NoSid}]]
    BY <1>2, SenderMoves DEF EnsureAndAppend
  <2> QED
    BY <1>0, <2>4, <2>5, <2>6 DEF WebTypeOK
<1>3. CASE PromptRun(r)
  <2>1. UNCHANGED <<backend, listed, activeSid, running, messages, target, live, ready, link, rpc,
                    stored, rows, rx, past>>
    BY <1>3 DEF PromptRun
  <2>2. sender' \in [Sends -> [at : {"idle", "gate", "store", "prompt", "sent", "failed", "over"},
                               sid : Sids \cup {NoSid}]]
    BY <1>3, SenderMoves DEF PromptRun
  <2>3. runs' \in [Sends -> {"none", "queued", "begun", "ended"}]
    BY <1>0, <1>3 DEF PromptRun, WebTypeOK
  <2> QED
    BY <1>0, <2>1, <2>2, <2>3 DEF WebTypeOK
<1>4. CASE FailSeen(r)
  <2>1. UNCHANGED <<backend, listed, activeSid, messages, ready, link, rpc, stored, rows, runs, rx, past>>
    BY <1>4 DEF FailSeen
  <2>2. sender' \in [Sends -> [at : {"idle", "gate", "store", "prompt", "sent", "failed", "over"},
                               sid : Sids \cup {NoSid}]]
    BY <1>4, SenderMoves DEF FailSeen
  <2>3. running' \subseteq Sids /\ target' \in Sids \cup {NoSid} /\ live' \in 0..MaxSends
    BY <1>0, <1>4, PageAssumption DEF FailSeen, WebTypeOK, NoSend
  <2> QED
    BY <1>0, <2>1, <2>2, <2>3 DEF WebTypeOK
<1> QED
  BY <1>1, <1>2, <1>3, <1>4 DEF SendStep

\* What a step of a thread does to the rest of what it touches.
LEMMA ThreadMove ==
  ASSUME PageInv, NEW r \in Sends, SendStep(r)
  PROVE  /\ UNCHANGED <<backend, listed, activeSid, messages, ready, link, rpc, rx, past>>
         /\ backend = "daemon"
         /\ \A q \in Sends : sender'[q].sid = sender[q].sid
         /\ \A q \in Sends : q # r => sender'[q].at = sender[q].at /\ runs'[q] = runs[q]
         /\ sender[r].at # "idle" /\ sender'[r].at # "idle"
         /\ sender'[r].at \in Sending => sender[r].at \in Sending
         /\ sender[r].at = "failed" => sender'[r].at = "over"
         /\ runs[r] = "none" /\ runs'[r] \in {"none", "queued"}
         /\ runs'[r] = "queued" => sender'[r].at = "sent"
         /\ sender'[r].at \in Sending \ {"gate"} => sender[r].at \in Sending \ {"gate"} \/ ready
         /\ running' \subseteq running
         /\ live' = live \/ live' = NoSend
         /\ (target' = target /\ live' = live) \/ (live = r /\ sender[r].at = "failed")
         /\ \A s \in Sids, q \in Sends : At(rows'[s], q) = At(rows[s], q)
<1> USE DEF ThreadOnly, pageVars, hostVars
<1>1. sender[r].at \in {"gate", "store", "prompt", "failed"} => backend = "daemon" /\ runs[r] = "none"
  BY DEF PageInv, OfflineInv, SendInv, WebTypeOK
<1>2. runs \in [Sends -> {"none", "queued", "begun", "ended"}]
  BY DEF PageInv, WebTypeOK
<1>3. CASE Pass(r)
  <2>1. ready /\ ThreadMoves(r, "gate", "store")
        /\ UNCHANGED <<backend, listed, activeSid, running, messages, target, live, ready, link, rpc, rx, past,
                       stored, rows, runs>>
    BY <1>3 DEF Pass
  <2>2. /\ sender[r].at = "gate" /\ sender'[r].at = "store"
        /\ \A q \in Sends : sender'[q].sid = sender[q].sid
        /\ \A q \in Sends : q # r => sender'[q].at = sender[q].at
    BY <2>1, SenderMoves
  <2>3. backend = "daemon" /\ runs[r] = "none"
    BY <1>1, <2>2
  <2>4. /\ sender[r].at # "idle" /\ sender'[r].at # "idle"
        /\ sender'[r].at \in Sending => sender[r].at \in Sending
        /\ sender[r].at = "failed" => sender'[r].at = "over"
        /\ sender'[r].at \in Sending \ {"gate"} => sender[r].at \in Sending \ {"gate"} \/ ready
    BY <2>1, <2>2 DEF Sending
  <2> QED
    BY <2>1, <2>2, <2>3, <2>4
<1>4. CASE GiveUp(r)
  <2>1. ThreadMoves(r, "gate", "failed")
        /\ UNCHANGED <<backend, listed, activeSid, running, messages, target, live, ready, link, rpc, rx, past,
                       stored, rows, runs>>
    BY <1>4 DEF GiveUp
  <2>2. /\ sender[r].at = "gate" /\ sender'[r].at = "failed"
        /\ \A q \in Sends : sender'[q].sid = sender[q].sid
        /\ \A q \in Sends : q # r => sender'[q].at = sender[q].at
    BY <2>1, SenderMoves
  <2>3. backend = "daemon" /\ runs[r] = "none"
    BY <1>1, <2>2
  <2>4. /\ sender[r].at # "idle" /\ sender'[r].at # "idle"
        /\ sender'[r].at \in Sending => sender[r].at \in Sending
        /\ sender[r].at = "failed" => sender'[r].at = "over"
        /\ sender'[r].at \in Sending \ {"gate"} => sender[r].at \in Sending \ {"gate"} \/ ready
    BY <2>1, <2>2 DEF Sending
  <2> QED
    BY <2>1, <2>2, <2>3, <2>4
<1>5. CASE EnsureAndAppend(r)
  <2>1. /\ ThreadMoves(r, "store", "prompt")
        /\ rows' = [rows EXCEPT ![sender[r].sid] = Append(@, UserBubble(r))]
        /\ UNCHANGED <<backend, listed, activeSid, running, messages, target, live, ready, link, rpc, rx, past, runs>>
    BY <1>5 DEF EnsureAndAppend, AddRow
  <2>2. /\ sender[r].at = "store" /\ sender'[r].at = "prompt"
        /\ \A q \in Sends : sender'[q].sid = sender[q].sid
        /\ \A q \in Sends : q # r => sender'[q].at = sender[q].at
    BY <2>1, SenderMoves
  <2>3. sender[r].sid \in Sids
    BY <2>2 DEF PageInv, SendInv
  <2>4. UserBubble(r) \in Bubble /\ UserBubble(r).who = "user"
    BY DEF UserBubble, Bubble
  <2>5. \A s \in Sids, q \in Sends : At(rows'[s], q) = At(rows[s], q)
    BY <2>1, <2>3, <2>4, AtAppend DEF PageInv, WebTypeOK
  <2>6. backend = "daemon" /\ runs[r] = "none"
    BY <1>1, <2>2
  <2>7. /\ sender[r].at # "idle" /\ sender'[r].at # "idle"
        /\ sender'[r].at \in Sending => sender[r].at \in Sending
        /\ sender[r].at = "failed" => sender'[r].at = "over"
        /\ sender'[r].at \in Sending \ {"gate"} => sender[r].at \in Sending \ {"gate"} \/ ready
    BY <2>1, <2>2 DEF Sending
  <2> QED
    BY <2>1, <2>2, <2>5, <2>6, <2>7
<1>6. CASE PromptRun(r)
  <2>1. /\ UNCHANGED <<backend, listed, activeSid, running, messages, target, live, ready, link, rpc, rx, past,
                       stored, rows>>
        /\ \/ ThreadMoves(r, "prompt", "sent") /\ runs' = [runs EXCEPT ![r] = "queued"]
           \/ ThreadMoves(r, "prompt", "failed") /\ UNCHANGED runs
    BY <1>6 DEF PromptRun
  <2>2. /\ sender[r].at = "prompt" /\ sender'[r].at \in {"sent", "failed"}
        /\ sender'[r].at = "failed" => runs' = runs
        /\ \/ runs' = runs
           \/ runs' = [runs EXCEPT ![r] = "queued"] /\ sender'[r].at = "sent"
        /\ \A q \in Sends : sender'[q].sid = sender[q].sid
        /\ \A q \in Sends : q # r => sender'[q].at = sender[q].at
    BY <2>1, SenderMoves
  <2>3. backend = "daemon" /\ runs[r] = "none"
    BY <1>1, <2>2
  <2>4. /\ runs'[r] \in {"none", "queued"} /\ (runs'[r] = "queued" => sender'[r].at = "sent")
        /\ \A q \in Sends : q # r => runs'[q] = runs[q]
    BY <1>2, <2>2, <2>3
  <2>5. /\ sender[r].at # "idle" /\ sender'[r].at # "idle"
        /\ sender'[r].at \in Sending => sender[r].at \in Sending
        /\ sender[r].at = "failed" => sender'[r].at = "over"
        /\ sender'[r].at \in Sending \ {"gate"} => sender[r].at \in Sending \ {"gate"} \/ ready
    BY <2>1, <2>2 DEF Sending
  <2> QED
    BY <2>1, <2>2, <2>3, <2>4, <2>5
<1>7. CASE FailSeen(r)
  <2>1. /\ ThreadMoves(r, "failed", "over")
        /\ running' = running \ {sender[r].sid}
        /\ IF live = r THEN live' = NoSend /\ target' = NoSid ELSE UNCHANGED <<live, target>>
        /\ UNCHANGED <<backend, listed, activeSid, messages, ready, link, rpc, rx, past, stored, rows, runs>>
    BY <1>7 DEF FailSeen
  <2>2. /\ sender[r].at = "failed" /\ sender'[r].at = "over"
        /\ \A q \in Sends : sender'[q].sid = sender[q].sid
        /\ \A q \in Sends : q # r => sender'[q].at = sender[q].at
    BY <2>1, SenderMoves
  <2>3. backend = "daemon" /\ runs[r] = "none"
    BY <1>1, <2>2
  <2>4. /\ sender[r].at # "idle" /\ sender'[r].at # "idle"
        /\ sender'[r].at \in Sending => sender[r].at \in Sending
        /\ sender[r].at = "failed" => sender'[r].at = "over"
        /\ sender'[r].at \in Sending \ {"gate"} => sender[r].at \in Sending \ {"gate"} \/ ready
    BY <2>1, <2>2 DEF Sending
  <2> QED
    BY <2>1, <2>2, <2>3, <2>4
<1> QED
  BY <1>3, <1>4, <1>5, <1>6, <1>7 DEF SendStep

LEMMA ThreadKeeps == ASSUME PageInv, NEW r \in Sends, SendStep(r) PROVE PageInv'
<1>1. WebTypeOK'
  BY ThreadTypes
<1>2. /\ UNCHANGED <<backend, listed, activeSid, messages, ready, link, rpc, rx, past>>
      /\ backend = "daemon"
      /\ \A q \in Sends : sender'[q].sid = sender[q].sid
      /\ \A q \in Sends : q # r => sender'[q].at = sender[q].at /\ runs'[q] = runs[q]
      /\ sender[r].at # "idle" /\ sender'[r].at # "idle"
      /\ sender'[r].at \in Sending => sender[r].at \in Sending
      /\ sender[r].at = "failed" => sender'[r].at = "over"
      /\ runs[r] = "none" /\ runs'[r] \in {"none", "queued"}
      /\ runs'[r] = "queued" => sender'[r].at = "sent"
      /\ sender'[r].at \in Sending \ {"gate"} => sender[r].at \in Sending \ {"gate"} \/ ready
      /\ running' \subseteq running
      /\ live' = live \/ live' = NoSend
      /\ (target' = target /\ live' = live) \/ (live = r /\ sender[r].at = "failed")
      /\ \A s \in Sids, q \in Sends : At(rows'[s], q) = At(rows[s], q)
  BY ThreadMove
<1>3. Listed' = Listed
  BY <1>2 DEF Listed
<1>4. OfflineInv' /\ OutInv'
  BY <1>2, <1>3 DEF PageInv, OfflineInv, OutInv, ArchivedStaysOut
<1>5. SendInv'
  <2> SUFFICES ASSUME NEW q \in Sends
               PROVE  /\ runs'[q] # "none" => sender'[q].at = "sent"
                      /\ q \in past'.spoke => runs'[q] = "ended"
                      /\ \A i \in DOMAIN rx' : rx'[i].of = q => runs'[q] \in {"begun", "ended"}
                      /\ sender'[q].at = "idle" => sender'[q].sid = NoSid
                      /\ sender'[q].at # "idle" =>
                           /\ sender'[q].sid \in Sids
                           /\ \A p \in 1..(q - 1) : sender'[p].at # "idle"
                           /\ sender'[q].sid \in past'.archived \cup DOMAIN messages'
                      /\ sender'[q].at \in Sending => sender'[q].sid \in past'.archived \cup Listed'
                      /\ sender'[q].at \in Sending \ {"gate"} /\ runs'[q] # "ended" =>
                           q \in past'.cut \/ link'
                      /\ live' = q => /\ sender'[q].at # "idle"
                                      /\ \A p \in Sends : p > q => sender'[p].at = "idle"
    BY DEF SendInv
  <2>1. runs'[q] # "none" => sender'[q].at = "sent"
    BY <1>2 DEF PageInv, SendInv
  <2>2. q \in past'.spoke => runs'[q] = "ended"
    BY <1>2 DEF PageInv, SendInv
  <2>3. \A i \in DOMAIN rx' : rx'[i].of = q => runs'[q] \in {"begun", "ended"}
    BY <1>2 DEF PageInv, SendInv
  <2>8. sender'[q].at = "idle" => sender'[q].sid = NoSid
    BY <1>2 DEF PageInv, SendInv
  <2>4. sender'[q].at # "idle" =>
          /\ sender'[q].sid \in Sids
          /\ \A p \in 1..(q - 1) : sender'[p].at # "idle"
          /\ sender'[q].sid \in past'.archived \cup DOMAIN messages'
    <3>1. \A p \in 1..(q - 1) : p \in Sends
      BY PageAssumption DEF Sends
    <3> QED
      BY <1>2, <3>1 DEF PageInv, SendInv
  <2>5. sender'[q].at \in Sending => sender'[q].sid \in past'.archived \cup Listed'
    BY <1>2, <1>3 DEF PageInv, SendInv
  <2>6. sender'[q].at \in Sending \ {"gate"} /\ runs'[q] # "ended" => q \in past'.cut \/ link'
    <3>1. ready => link
      BY DEF PageInv, OutInv
    <3> QED
      BY <1>2, <3>1 DEF PageInv, SendInv
  <2>7. live' = q => sender'[q].at # "idle" /\ \A p \in Sends : p > q => sender'[p].at = "idle"
    <3>1. q # NoSend
      BY PageFields DEF NoSend
    <3>2. \A p \in Sends : sender[p].at = "idle" => sender'[p].at = "idle"
      BY <1>2
    <3> QED
      BY <1>2, <3>1, <3>2 DEF PageInv, SendInv
  <2> QED
    BY <2>1, <2>2, <2>3, <2>4, <2>5, <2>6, <2>7, <2>8
<1>6. \A q \in Sends : (Ended(q))' <=> Ended(q)
  BY <1>2 DEF Ended
<1>7. \A q \in Sends : (Unfinished(q))' => Unfinished(q)
  <2>1. \A q \in Sends : sender'[q].at \in {"idle", "gate", "store", "prompt", "sent", "failed", "over"}
    BY <1>1 DEF WebTypeOK
  <2>2. (Unfinished(r))' => Unfinished(r)
    BY <1>2, <1>6, <2>1 DEF Unfinished, Sending
  <2> QED
    BY <1>2, <1>6, <2>2 DEF Unfinished
<1>8. OneInv'
  <2> SUFFICES ASSUME ~past.overlap, NEW q \in Sends, (Unfinished(q))'
               PROVE  /\ \A p \in Sends : p > q => sender'[p].at = "idle"
                      /\ target' = sender'[q].sid
                      /\ sender'[q].sid \notin past'.archived =>
                           /\ messages'[sender'[q].sid] # <<>>
                           /\ Last(messages'[sender'[q].sid]).of \subseteq {q}
                      /\ q \notin past'.cut => (EventsInOrder(q))'
    BY <1>2 DEF OneInv
  <2>1. Unfinished(q)
    BY <1>7
  <2>2. \A p \in Sends : p > q => sender[p].at = "idle"
    BY <2>1 DEF PageInv, OneInv
  <2>3. \A p \in Sends : p > q => sender'[p].at = "idle"
    BY <1>2, <2>2
  <2>4. target' = target
    <3> SUFFICES ASSUME live = r, sender[r].at = "failed" PROVE FALSE
      BY <1>2
    <3>1. r # q
      BY <2>1 DEF Unfinished
    <3>2. \A p \in Sends : p > r => sender[p].at = "idle"
      BY DEF PageInv, SendInv
    <3>3. sender[q].at # "idle"
      BY <2>1 DEF Unfinished
    <3> QED
      BY <2>2, <3>1, <3>2, <3>3, PageFields
  <2>5. q \notin past.cut => (EventsInOrder(q))'
    <3>1. q \notin past.cut => EventsInOrder(q)
      BY <2>1 DEF PageInv, OneInv
    <3>2. runs'[q] = "ended" <=> runs[q] = "ended"
      BY <1>2
    <3> QED
      BY <1>2, <3>1, <3>2 DEF EventsInOrder
  <2> QED
    BY <1>2, <2>1, <2>3, <2>4, <2>5 DEF PageInv, OneInv
<1>9. TextInv'
  <2>1. \A q \in Sends : (ReadOut(q))' <=> ReadOut(q)
    BY <1>2 DEF ReadOut
  <2>2. \A q \in Sends, s \in Sids : (Under(s, q))' = Under(s, q)
    BY <1>2 DEF Under
  <2>3. \A q \in Sends, s \in Sids : Nowhere(q, s) => (Nowhere(q, s))'
    BY <1>2, <2>2 DEF Nowhere
  <2>4. \A q \in Sends, s \in Sids : Once(q, s) => (Once(q, s))'
    BY <1>2, <1>6, <2>2 DEF Once
  <2> QED
    BY <1>2, <2>1, <2>3, <2>4 DEF PageInv, TextInv
<1> QED
  BY <1>1, <1>4, <1>5, <1>8, <1>9 DEF PageInv

-----------------------------------------------------------------------------
\* What a step of the page keeps that touches no send and no event.
LEMMA PageQuiet ==
  ASSUME PageInv, UNCHANGED <<sender, runs, rx, rows, target>>,
         live' = live \/ live' = NoSend,
         past'.spoke = past.spoke, past'.overlap = past.overlap,
         past.cut \subseteq past'.cut, past.archived \subseteq past'.archived,
         DOMAIN messages \subseteq past'.archived \cup DOMAIN messages',
         \A r \in Sends : sender[r].at \in Sending /\ sender[r].sid \in Listed
           => sender[r].sid \in past'.archived \cup Listed',
         \A r \in Sends : sender[r].at \in Sending \ {"gate"} /\ runs[r] # "ended"
           => r \in past'.cut \/ link',
         \A s \in DOMAIN messages \cap DOMAIN messages' : messages'[s] = messages[s],
         \A s \in DOMAIN messages' \ DOMAIN messages : messages'[s] = <<>> \/ (s \in Sids /\ messages'[s] = rows[s]),
         \A s \in Sids, r \in Sends : (Under(s, r))' = Under(s, r)
  PROVE  SendInv' /\ OneInv' /\ TextInv'
<1>1. SendInv'
  <2> SUFFICES ASSUME NEW q \in Sends
               PROVE  /\ runs'[q] # "none" => sender'[q].at = "sent"
                      /\ q \in past'.spoke => runs'[q] = "ended"
                      /\ \A i \in DOMAIN rx' : rx'[i].of = q => runs'[q] \in {"begun", "ended"}
                      /\ sender'[q].at = "idle" => sender'[q].sid = NoSid
                      /\ sender'[q].at # "idle" =>
                           /\ sender'[q].sid \in Sids
                           /\ \A p \in 1..(q - 1) : sender'[p].at # "idle"
                           /\ sender'[q].sid \in past'.archived \cup DOMAIN messages'
                      /\ sender'[q].at \in Sending => sender'[q].sid \in past'.archived \cup Listed'
                      /\ sender'[q].at \in Sending \ {"gate"} /\ runs'[q] # "ended" =>
                           q \in past'.cut \/ link'
                      /\ live' = q => /\ sender'[q].at # "idle"
                                      /\ \A p \in Sends : p > q => sender'[p].at = "idle"
    BY DEF SendInv
  <2>1. /\ runs[q] # "none" => sender[q].at = "sent"
        /\ q \in past.spoke => runs[q] = "ended"
        /\ \A i \in DOMAIN rx : rx[i].of = q => runs[q] \in {"begun", "ended"}
        /\ sender[q].at = "idle" => sender[q].sid = NoSid
        /\ sender[q].at # "idle" =>
             /\ sender[q].sid \in Sids
             /\ \A p \in 1..(q - 1) : sender[p].at # "idle"
             /\ sender[q].sid \in past.archived \cup DOMAIN messages
        /\ sender[q].at \in Sending => sender[q].sid \in past.archived \cup Listed
        /\ live = q => sender[q].at # "idle" /\ \A p \in Sends : p > q => sender[p].at = "idle"
    BY DEF PageInv, SendInv
  <2>2. q # NoSend
    BY PageFields DEF NoSend
  <2>3. live' = q => live = q
    BY <2>2
  <2> QED
    BY <2>1, <2>3
<1>2. \A r \in Sends : (Ended(r))' <=> Ended(r)
  BY DEF Ended
<1>3. \A r \in Sends : (Unfinished(r))' <=> Unfinished(r)
  BY <1>2 DEF Unfinished
<1>4. OneInv'
  <2> SUFFICES ASSUME ~past.overlap, NEW q \in Sends, Unfinished(q)
               PROVE  /\ \A p \in Sends : p > q => sender'[p].at = "idle"
                      /\ target' = sender'[q].sid
                      /\ sender'[q].sid \notin past'.archived =>
                           /\ messages'[sender'[q].sid] # <<>>
                           /\ Last(messages'[sender'[q].sid]).of \subseteq {q}
                      /\ q \notin past'.cut => (EventsInOrder(q))'
    BY <1>3 DEF OneInv
  <2>1. /\ \A p \in Sends : p > q => sender[p].at = "idle"
        /\ target = sender[q].sid
        /\ sender[q].sid \notin past.archived =>
             messages[sender[q].sid] # <<>> /\ Last(messages[sender[q].sid]).of \subseteq {q}
        /\ q \notin past.cut => EventsInOrder(q)
    BY DEF PageInv, OneInv
  <2>2. sender[q].sid \in past.archived \cup DOMAIN messages
    BY DEF PageInv, SendInv, Unfinished
  <2>3. EventsInOrder(q) => (EventsInOrder(q))'
    BY DEF EventsInOrder
  <2> QED
    BY <2>1, <2>2, <2>3
<1>5. TextInv'
  <2> SUFFICES ASSUME ~past.overlap, NEW r \in Sends, NEW s \in Sids,
                      r \notin past'.cut, sender[r].sid \notin past'.archived
               PROVE  IF (ReadOut(r))' /\ s = sender[r].sid THEN (Once(r, s))' ELSE (Nowhere(r, s))'
    BY DEF TextInv
  <2>1. IF ReadOut(r) /\ s = sender[r].sid THEN Once(r, s) ELSE Nowhere(r, s)
    BY DEF PageInv, TextInv
  <2>2. (ReadOut(r))' <=> ReadOut(r)
    BY DEF ReadOut
  <2>3. CASE ReadOut(r) /\ s = sender[r].sid
    <3>1. s \in DOMAIN messages /\ s \in DOMAIN messages' /\ messages'[s] = messages[s]
      BY <2>1, <2>3 DEF Once
    <3>2. Once(r, s) /\ (Under(s, r))' = Under(s, r) /\ rows'[s] = rows[s]
      BY <2>1, <2>3
    <3>3. (Ended(r))' <=> Ended(r)
      BY <1>2
    <3>6. (Once(r, s))'
      BY <3>1, <3>2, <3>3 DEF Once
    <3> QED
      BY <2>2, <2>3, <3>6
  <2>4. CASE ~(ReadOut(r) /\ s = sender[r].sid)
    <3>1. Nowhere(r, s)
      BY <2>1, <2>4
    <3>2. At(<<>>, r) = {}
      BY DEF At
    <3>3. s \in DOMAIN messages' => At(messages'[s], r) = {}
      BY <3>1, <3>2 DEF Nowhere
    <3> QED
      BY <2>2, <2>4, <3>1, <3>3 DEF Nowhere
  <2> QED
    BY <2>3, <2>4
<1> QED
  BY <1>1, <1>4, <1>5

\* A session is loaded once, and others stay.
LEMMA PageShows ==
  ASSUME NEW s \in Sids \cup {NoSid}, NEW cache, DOMAIN cache \subseteq Sids,
         \A x \in DOMAIN cache : cache[x] \in Seq(Bubble),
         rows \in [Sids -> Seq(Bubble)], Show(s, cache)
  PROVE  /\ activeSid' = s
         /\ DOMAIN cache \subseteq DOMAIN messages' /\ DOMAIN messages' \subseteq DOMAIN cache \cup {s}
         /\ \A x \in DOMAIN cache : messages'[x] = cache[x]
         /\ \A x \in DOMAIN messages' \ DOMAIN cache : x \in Sids /\ messages'[x] = rows[x]
         /\ \A x \in DOMAIN messages' : x \in Sids /\ messages'[x] \in Seq(Bubble)
<1>1. CASE s = NoSid \/ s \in DOMAIN cache \/ backend' = "disconnected"
  <2>1. activeSid' = s /\ messages' = cache
    BY <1>1 DEF Show
  <2> QED
    BY <2>1
<1>2. CASE ~(s = NoSid \/ s \in DOMAIN cache \/ backend' = "disconnected")
  <2>1. /\ activeSid' = s /\ s \in Sids /\ s \notin DOMAIN cache
        /\ messages' = [x \in DOMAIN cache \cup {s} |-> IF x = s THEN rows[s] ELSE cache[x]]
    BY <1>2 DEF Show
  <2>2. DOMAIN messages' = DOMAIN cache \cup {s}
        /\ messages'[s] = rows[s] /\ \A x \in DOMAIN cache : messages'[x] = cache[x]
    BY <2>1
  <2> QED
    BY <2>1, <2>2
<1> QED
  BY <1>1, <1>2

\* A session comes first in the list.
LEMMA PageListed ==
  ASSUME NEW list \in Seq(Sids), NEW s \in Sids, s \notin Range(list),
         \A i, j \in DOMAIN list : list[i] = list[j] => i = j
  PROVE  /\ <<s>> \o list \in Seq(Sids) /\ Range(<<s>> \o list) = {s} \cup Range(list)
         /\ \A i, j \in DOMAIN (<<s>> \o list) : (<<s>> \o list)[i] = (<<s>> \o list)[j] => i = j
<1> DEFINE more == <<s>> \o list
<1>1. more \in Seq(Sids) /\ DOMAIN more = 1..(Len(list) + 1) /\ Len(list) \in Nat
      /\ DOMAIN list = 1..Len(list)
  OBVIOUS
<1>2. \A i \in DOMAIN more : IF i = 1 THEN more[i] = s ELSE i - 1 \in DOMAIN list /\ more[i] = list[i - 1]
  BY <1>1
<1>3. \A i \in DOMAIN list : i + 1 \in DOMAIN more /\ more[i + 1] = list[i]
  BY <1>1
<1>4. 1 \in DOMAIN more /\ more[1] = s
  BY <1>1, <1>2
<1> HIDE DEF more
<1>5. Range(more) = {s} \cup Range(list)
  BY <1>2, <1>3, <1>4 DEF Range
<1>6. \A i \in DOMAIN more : i # 1 => more[i] # s
  BY <1>2 DEF Range
<1>7. \A i, j \in DOMAIN more : more[i] = more[j] => i = j
  <2> SUFFICES ASSUME NEW i \in DOMAIN more, NEW j \in DOMAIN more, more[i] = more[j] PROVE i = j
    OBVIOUS
  <2>1. CASE i = 1 \/ j = 1
    BY <1>4, <1>6, <2>1
  <2>2. CASE i # 1 /\ j # 1
    BY <1>1, <1>2, <2>2
  <2> QED
    BY <2>1, <2>2
<1> QED
  BY <1>1, <1>5, <1>7 DEF more

\* Two sequences put behind each other.
LEMMA Joined ==
  ASSUME NEW S, NEW a \in Seq(S), NEW b \in Seq(S)
  PROVE  /\ a \o b \in Seq(S) /\ Len(a \o b) = Len(a) + Len(b)
         /\ \A i \in 1..Len(a) : (a \o b)[i] = a[i]
         /\ \A i \in 1..Len(b) : (a \o b)[Len(a) + i] = b[i]
OBVIOUS

\* A session that is listed once leaves the list.
LEMMA PageUnlisted ==
  ASSUME NEW list \in Seq(Sids), NEW k \in DOMAIN list,
         \A i, j \in DOMAIN list : list[i] = list[j] => i = j
  PROVE  /\ RemoveAt(list, k) \in Seq(Sids) /\ Range(RemoveAt(list, k)) = Range(list) \ {list[k]}
         /\ \A i, j \in DOMAIN RemoveAt(list, k) :
              RemoveAt(list, k)[i] = RemoveAt(list, k)[j] => i = j
<1> DEFINE front == SubSeq(list, 1, k - 1)
           back == SubSeq(list, k + 1, Len(list))
           less == RemoveAt(list, k)
           Was(i) == IF i < k THEN i ELSE i + 1
<1>1. Len(list) \in Nat /\ k \in 1..Len(list) /\ DOMAIN list = 1..Len(list)
  OBVIOUS
<1>f. front \in Seq(Sids) /\ Len(front) = k - 1 /\ \A i \in 1..(k - 1) : front[i] = list[i]
  BY <1>1
<1>b. /\ back \in Seq(Sids) /\ Len(back) = Len(list) - k
      /\ \A i \in 1..(Len(list) - k) : back[i] = list[i + k]
  BY <1>1
<1>2. less = front \o back
  BY DEF RemoveAt
<1> HIDE DEF front, back, less
<1>j. /\ less \in Seq(Sids) /\ Len(less) = Len(front) + Len(back)
      /\ \A i \in 1..Len(front) : less[i] = front[i]
      /\ \A i \in 1..Len(back) : less[Len(front) + i] = back[i]
  <2>1. front \in Seq(Sids) /\ back \in Seq(Sids)
    BY <1>f, <1>b
  <2>2. /\ front \o back \in Seq(Sids) /\ Len(front \o back) = Len(front) + Len(back)
        /\ \A i \in 1..Len(front) : (front \o back)[i] = front[i]
        /\ \A i \in 1..Len(back) : (front \o back)[Len(front) + i] = back[i]
    BY <2>1, Joined
  <2> QED
    BY <1>2, <2>2
<1>3. less \in Seq(Sids) /\ DOMAIN less = 1..(Len(list) - 1)
  <2>1. Len(less) = Len(list) - 1
    BY <1>1, <1>f, <1>b, <1>j
  <2> QED
    BY <1>j, <2>1
<1>4. ASSUME NEW i \in DOMAIN less PROVE Was(i) \in DOMAIN list /\ Was(i) # k /\ less[i] = list[Was(i)]
  <2>1. i \in 1..(Len(list) - 1) /\ Was(i) \in DOMAIN list /\ Was(i) # k
    BY <1>1, <1>3
  <2>2. CASE i < k
    <3>1. i \in 1..(k - 1) /\ i \in 1..Len(front)
      BY <1>1, <1>f, <2>1, <2>2
    <3> QED
      BY <1>f, <1>j, <2>1, <2>2, <3>1
  <2>3. CASE ~(i < k)
    <3> DEFINE at == i - (k - 1)
    <3>1. at \in 1..(Len(list) - k) /\ at \in 1..Len(back) /\ Len(front) + at = i /\ at + k = i + 1
      BY <1>1, <1>f, <1>b, <2>1, <2>3
    <3> HIDE DEF at
    <3>2. less[i] = back[at] /\ back[at] = list[at + k]
      BY <1>b, <1>j, <3>1
    <3> QED
      BY <2>1, <2>3, <3>1, <3>2
  <2> QED
    BY <2>2, <2>3
<1>5. \A i \in DOMAIN list : i # k => \E j \in DOMAIN less : Was(j) = i
  <2> SUFFICES ASSUME NEW i \in DOMAIN list, i # k PROVE \E j \in DOMAIN less : Was(j) = i
    OBVIOUS
  <2>1. CASE i < k
    BY <1>1, <1>3, <2>1
  <2>2. CASE i > k
    <3>1. i - 1 \in DOMAIN less /\ Was(i - 1) = i
      BY <1>1, <1>3, <2>2
    <3> QED
      BY <3>1
  <2> QED
    BY <1>1, <2>1, <2>2
<1>6. \A i, j \in DOMAIN less : Was(i) = Was(j) => i = j
  BY <1>1, <1>3
<1> HIDE DEF Was
<1>7. Range(less) = Range(list) \ {list[k]}
  BY <1>4, <1>5 DEF Range
<1>8. \A i, j \in DOMAIN less : less[i] = less[j] => i = j
  BY <1>4, <1>6
<1> QED
  BY <1>3, <1>7, <1>8 DEF less

\* What counts a move leaves the rest of the past as it was.
LEMMA PageMoves ==
  ASSUME PageInv, UserMoves
  PROVE  /\ past' \in [archived : SUBSET Sids, cut : SUBSET Sends, spoke : SUBSET Sends,
                       overlap : BOOLEAN, moves : 0..MaxMoves]
         /\ past'.archived = past.archived /\ past'.cut = past.cut
         /\ past'.spoke = past.spoke /\ past'.overlap = past.overlap
<1>1. past \in [archived : SUBSET Sids, cut : SUBSET Sends, spoke : SUBSET Sends,
                overlap : BOOLEAN, moves : 0..MaxMoves]
      /\ past' = [past EXCEPT !.moves = past.moves + 1] /\ past.moves < MaxMoves
  BY DEF PageInv, WebTypeOK, UserMoves
<1>2. past.moves + 1 \in 0..MaxMoves
  BY <1>1, PageAssumption
<1> QED
  BY <1>1, <1>2

\* A send under way that is not at the gate keeps its connection.
LEMMA PageLinked ==
  ASSUME PageInv, past.cut \subseteq past'.cut, link' = link
  PROVE  \A r \in Sends : sender[r].at \in Sending \ {"gate"} /\ runs[r] # "ended"
           => r \in past'.cut \/ link'
BY DEF PageInv, SendInv

\* A probe that goes through: nothing was sent before.
LEMMA ReprobeKeeps == ASSUME PageInv, Reprobe PROVE PageInv'
<1>1. PICK list \in SetToSeqs(stored) :
        /\ backend = "disconnected" /\ backend' = "daemon" /\ listed' = list
        /\ Show(FirstOf(list), messages) /\ running' = running \cap Range(list)
        /\ UNCHANGED <<target, live, ready, link, sender, rpc, stored, rows, runs, rx, past>>
  BY DEF Reprobe, hostVars
<1>2. stored = {Old} /\ Old \notin past.archived /\ \A r \in Sends : sender[r].at \in {"idle", "over"}
  BY <1>1 DEF PageInv, OfflineInv
<1>3. DOMAIN list = 1..1 /\ list = [i \in 1..1 |-> Old] /\ list # <<>> /\ Head(list) = Old
  <2>1. Cardinality({Old}) = 1
    BY FS_Singleton
  <2>2. list \in [1..1 -> {Old}]
    BY <1>1, <1>2, <2>1 DEF SetToSeqs
  <2> QED
    BY <2>2
<1>4. list \in Seq(Sids) /\ Range(list) = {Old} /\ FirstOf(list) = Old
  BY <1>3, PageAssumption DEF Range, FirstOf
<1>5. /\ activeSid' = Old
      /\ DOMAIN messages \subseteq DOMAIN messages' /\ DOMAIN messages' \subseteq DOMAIN messages \cup {Old}
      /\ \A x \in DOMAIN messages : messages'[x] = messages[x]
      /\ \A x \in DOMAIN messages' \ DOMAIN messages : x \in Sids /\ messages'[x] = rows[x]
      /\ \A x \in DOMAIN messages' : x \in Sids /\ messages'[x] \in Seq(Bubble)
  <2>1. DOMAIN messages \subseteq Sids /\ \A x \in DOMAIN messages : messages[x] \in Seq(Bubble)
    BY DEF PageInv, WebTypeOK
  <2>2. rows \in [Sids -> Seq(Bubble)] /\ Old \in Sids \cup {NoSid} /\ Show(Old, messages)
    BY <1>1, <1>4, PageAssumption DEF PageInv, WebTypeOK
  <2> QED
    BY <2>1, <2>2, PageShows
<1>6. WebTypeOK'
  BY <1>1, <1>4, <1>5, PageAssumption DEF PageInv, WebTypeOK
<1>7. OfflineInv'
  BY <1>1 DEF OfflineInv
<1>8. OutInv'
  BY <1>1, <1>2, <1>3, <1>4, <1>5 DEF PageInv, OutInv, ArchivedStaysOut, Listed
<1>9. \A s \in Sids, r \in Sends : (Under(s, r))' = Under(s, r)
  BY <1>1 DEF Under
<1>10. \A r \in Sends : sender[r].at \in Sending /\ sender[r].sid \in Listed
         => sender[r].sid \in past'.archived \cup Listed'
  BY <1>2 DEF Sending
<1>11. SendInv' /\ OneInv' /\ TextInv'
  <2>1. \A r \in Sends : sender[r].at \in Sending \ {"gate"} /\ runs[r] # "ended" => r \in past'.cut \/ link'
    BY <1>1, PageLinked
  <2> QED
    BY <1>1, <1>5, <1>9, <1>10, <2>1, PageQuiet
<1> QED
  BY <1>6, <1>7, <1>8, <1>11 DEF PageInv

LEMMA CreateKeeps == ASSUME PageInv, NEW s \in Sids, Create(s) PROVE PageInv'
<1>1. /\ UserMoves /\ NewId(s)
      /\ listed' = <<s>> \o listed /\ activeSid' = s
      /\ messages' = [x \in DOMAIN messages \cup {s} |-> IF x = s THEN <<>> ELSE messages[x]]
      /\ rpc' = IF backend = "daemon" THEN rpc \cup {[op |-> "create", sid |-> s, of |-> {}]} ELSE rpc
      /\ UNCHANGED <<backend, running, target, live, ready, link, sender, stored, rows, runs, rx>>
  BY DEF Create, hostVars
<1>2. /\ past' \in [archived : SUBSET Sids, cut : SUBSET Sends, spoke : SUBSET Sends,
                    overlap : BOOLEAN, moves : 0..MaxMoves]
      /\ past'.archived = past.archived /\ past'.cut = past.cut
      /\ past'.spoke = past.spoke /\ past'.overlap = past.overlap
  BY <1>1, PageMoves
<1>3. s \notin Listed /\ s \notin DOMAIN messages /\ s \notin past.archived /\ s \notin stored
  BY <1>1 DEF NewId
<1>4. listed' \in Seq(Sids) /\ Listed' = {s} \cup Listed
      /\ \A i, j \in DOMAIN listed' : listed'[i] = listed'[j] => i = j
  BY <1>1, <1>3, PageListed DEF PageInv, WebTypeOK, OutInv, Listed
<1>5. /\ DOMAIN messages' = DOMAIN messages \cup {s} /\ messages'[s] = <<>>
      /\ \A x \in DOMAIN messages : messages'[x] = messages[x]
  BY <1>1, <1>3
<1>6. WebTypeOK'
  <2>1. rpc' \subseteq [op : {"create", "archive", "reply"}, sid : Sids, of : SUBSET Sends]
    BY <1>1 DEF PageInv, WebTypeOK
  <2>2. \A x \in DOMAIN messages' : x \in Sids /\ messages'[x] \in Seq(Bubble)
    <3>1. \A x \in DOMAIN messages : x \in Sids /\ messages[x] \in Seq(Bubble)
      BY DEF PageInv, WebTypeOK
    <3>2. <<>> \in Seq(Bubble)
      OBVIOUS
    <3> QED
      BY <1>5, <3>1, <3>2
  <2> QED
    BY <1>1, <1>2, <1>4, <2>1, <2>2 DEF PageInv, WebTypeOK
<1>7. OfflineInv'
  BY <1>1, <1>2, <1>3, <1>4 DEF PageInv, OfflineInv
<1>8. OutInv'
  <2>1. \A q \in rpc' : q.op = "archive" => q.sid \in past'.archived
    BY <1>1, <1>2 DEF PageInv, OutInv
  <2> QED
    BY <1>1, <1>2, <1>3, <1>4, <1>5, <2>1 DEF PageInv, OutInv, ArchivedStaysOut
<1>9. ASSUME NEW x \in Sids, NEW r \in Sends PROVE (Under(x, r))' = Under(x, r)
  BY <1>1 DEF Under
<1>10. \A r \in Sends : sender[r].at \in Sending \ {"gate"} /\ runs[r] # "ended" => r \in past'.cut \/ link'
  BY <1>1, <1>2, PageLinked
<1>11. SendInv' /\ OneInv' /\ TextInv'
  BY <1>1, <1>2, <1>4, <1>5, <1>9, <1>10, PageQuiet
<1> QED
  BY <1>6, <1>7, <1>8, <1>11 DEF PageInv

LEMMA SelectKeeps == ASSUME PageInv, NEW s \in Sids, Select(s) PROVE PageInv'
<1>1. /\ s \in Listed /\ Show(s, messages)
      /\ UNCHANGED <<backend, listed, running, target, live, ready, link, sender, rpc,
                     stored, rows, runs, rx, past>>
  BY DEF Select, hostVars
<1>2. /\ activeSid' = s
      /\ DOMAIN messages \subseteq DOMAIN messages' /\ DOMAIN messages' \subseteq DOMAIN messages \cup {s}
      /\ \A x \in DOMAIN messages : messages'[x] = messages[x]
      /\ \A x \in DOMAIN messages' \ DOMAIN messages : x \in Sids /\ messages'[x] = rows[x]
      /\ \A x \in DOMAIN messages' : x \in Sids /\ messages'[x] \in Seq(Bubble)
  <2>1. DOMAIN messages \subseteq Sids /\ \A x \in DOMAIN messages : messages[x] \in Seq(Bubble)
    BY DEF PageInv, WebTypeOK
  <2>2. rows \in [Sids -> Seq(Bubble)] /\ s \in Sids \cup {NoSid}
    BY DEF PageInv, WebTypeOK
  <2> QED
    BY <1>1, <2>1, <2>2, PageShows
<1>3. Listed' = Listed
  BY <1>1 DEF Listed
<1>4. WebTypeOK' /\ OfflineInv'
  BY <1>1, <1>2, <1>3 DEF PageInv, WebTypeOK, OfflineInv
<1>5. OutInv'
  BY <1>1, <1>2, <1>3 DEF PageInv, OutInv, ArchivedStaysOut
<1>6. ASSUME NEW x \in Sids, NEW r \in Sends PROVE (Under(x, r))' = Under(x, r)
  BY <1>1 DEF Under
<1>7. \A r \in Sends : sender[r].at \in Sending \ {"gate"} /\ runs[r] # "ended" => r \in past'.cut \/ link'
  BY <1>1, PageLinked
<1>8. SendInv' /\ OneInv' /\ TextInv'
  BY <1>1, <1>2, <1>3, <1>6, <1>7, PageQuiet
<1> QED
  BY <1>4, <1>5, <1>8 DEF PageInv

LEMMA ArchiveKeeps == ASSUME PageInv, NEW s \in Sids, Archive(s) PROVE PageInv'
<1> DEFINE cache == [x \in DOMAIN messages \ {s} |-> messages[x]]
<1>1. /\ past.moves < MaxMoves
      /\ IF activeSid = s THEN Show(FirstOf(listed'), cache) ELSE messages' = cache /\ UNCHANGED activeSid
      /\ running' = running \ {s}
      /\ rpc' = IF backend = "daemon" THEN rpc \cup {[op |-> "archive", sid |-> s, of |-> {}]} ELSE rpc
      /\ past' = [past EXCEPT !.archived = @ \cup {s}, !.moves = @ + 1]
      /\ UNCHANGED <<backend, target, live, ready, link, sender, stored, rows, runs, rx>>
  BY DEF Archive, hostVars
<1>2. PICK k \in DOMAIN listed : listed[k] = s /\ listed' = RemoveAt(listed, k)
  BY DEF Archive
<1>3. /\ past' \in [archived : SUBSET Sids, cut : SUBSET Sends, spoke : SUBSET Sends,
                    overlap : BOOLEAN, moves : 0..MaxMoves]
      /\ past'.archived = past.archived \cup {s} /\ past'.cut = past.cut
      /\ past'.spoke = past.spoke /\ past'.overlap = past.overlap
  <2>1. past.moves + 1 \in 0..MaxMoves
    BY <1>1, PageAssumption DEF PageInv, WebTypeOK
  <2> QED
    BY <1>1, <2>1 DEF PageInv, WebTypeOK
<1>4. listed' \in Seq(Sids) /\ Listed' = Listed \ {s}
      /\ \A i, j \in DOMAIN listed' : listed'[i] = listed'[j] => i = j
  BY <1>2, PageUnlisted DEF PageInv, WebTypeOK, OutInv, Listed
<1>5. FirstOf(listed') \in Listed' \cup {NoSid} /\ s # NoSid /\ s \notin Listed' /\ Listed' \subseteq Sids
  <2>1. listed' # <<>> => Head(listed') \in Listed'
    BY <1>4 DEF Listed, Range
  <2> QED
    BY <1>4, <2>1, PageFields, PageAssumption DEF FirstOf
<1>6. /\ DOMAIN cache = DOMAIN messages \ {s} /\ DOMAIN cache \subseteq Sids
      /\ \A x \in DOMAIN cache : cache[x] = messages[x] /\ cache[x] \in Seq(Bubble)
  BY DEF PageInv, WebTypeOK
<1> HIDE DEF cache
<1>7. /\ activeSid' \in Sids \cup {NoSid}
      /\ DOMAIN cache \subseteq DOMAIN messages' /\ DOMAIN messages' \subseteq DOMAIN cache \cup Listed'
      /\ \A x \in DOMAIN cache : messages'[x] = cache[x]
      /\ \A x \in DOMAIN messages' \ DOMAIN cache : x \in Sids /\ messages'[x] = rows[x]
      /\ \A x \in DOMAIN messages' : x \in Sids /\ messages'[x] \in Seq(Bubble)
  <2>1. CASE activeSid # s
    <3>1. messages' = cache /\ activeSid' = activeSid
      BY <1>1, <2>1
    <3> QED
      BY <1>6, <3>1 DEF PageInv, WebTypeOK
  <2>2. CASE activeSid = s
    <3> DEFINE f == FirstOf(listed')
    <3>1. f \in Sids \cup {NoSid} /\ f \in Listed' \cup {NoSid} /\ Show(f, cache)
          /\ rows \in [Sids -> Seq(Bubble)]
      BY <1>1, <1>5, <2>2 DEF PageInv, WebTypeOK
    <3> HIDE DEF f
    <3>2. /\ activeSid' = f
          /\ DOMAIN cache \subseteq DOMAIN messages' /\ DOMAIN messages' \subseteq DOMAIN cache \cup {f}
          /\ \A x \in DOMAIN cache : messages'[x] = cache[x]
          /\ \A x \in DOMAIN messages' \ DOMAIN cache : x \in Sids /\ messages'[x] = rows[x]
          /\ \A x \in DOMAIN messages' : x \in Sids /\ messages'[x] \in Seq(Bubble)
      BY <1>6, <3>1, PageShows
    <3> QED
      BY <3>1, <3>2, PageAssumption
  <2> QED
    BY <2>1, <2>2
<1>8. WebTypeOK'
  <2>1. rpc' \subseteq [op : {"create", "archive", "reply"}, sid : Sids, of : SUBSET Sends]
    BY <1>1 DEF PageInv, WebTypeOK
  <2> QED
    BY <1>1, <1>3, <1>4, <1>7, <2>1 DEF PageInv, WebTypeOK
<1>9. OfflineInv'
  <2>1. s \in Listed
    BY <1>2 DEF Listed, Range
  <2> QED
    BY <1>1, <1>3, <1>4, <2>1 DEF PageInv, OfflineInv
<1>10. OutInv'
  <2>1. \A q \in rpc' : q.op = "archive" => q.sid \in past'.archived
    BY <1>1, <1>3 DEF PageInv, OutInv
  <2>2. past.archived \cap (DOMAIN messages \cup running \cup Listed) = {}
    BY DEF PageInv, OutInv, ArchivedStaysOut
  <2>3. past'.archived \cap (DOMAIN messages' \cup running' \cup Listed') = {}
    BY <1>1, <1>3, <1>4, <1>5, <1>6, <1>7, <2>2
  <2> QED
    BY <1>1, <1>4, <2>1, <2>3 DEF PageInv, OutInv, ArchivedStaysOut
<1>11. ASSUME NEW x \in Sids, NEW r \in Sends PROVE (Under(x, r))' = Under(x, r)
  BY <1>1 DEF Under
<1>12. \A r \in Sends : sender[r].at \in Sending \ {"gate"} /\ runs[r] # "ended" => r \in past'.cut \/ link'
  BY <1>1, <1>3, PageLinked
<1>13. /\ DOMAIN messages \subseteq past'.archived \cup DOMAIN messages'
       /\ \A x \in DOMAIN messages \cap DOMAIN messages' : messages'[x] = messages[x]
       /\ \A x \in DOMAIN messages' \ DOMAIN messages : x \in Sids /\ messages'[x] = rows[x]
       /\ Listed \subseteq past'.archived \cup Listed'
  BY <1>3, <1>4, <1>5, <1>6, <1>7
<1>14. SendInv' /\ OneInv' /\ TextInv'
  BY <1>1, <1>3, <1>11, <1>12, <1>13, PageQuiet
<1> QED
  BY <1>8, <1>9, <1>10, <1>14 DEF PageInv

LEMMA AbortKeeps == ASSUME PageInv, AbortRun PROVE PageInv'
<1>1. /\ UserMoves /\ live' = NoSend /\ running' = running \ {activeSid}
      /\ UNCHANGED <<backend, listed, activeSid, messages, target, ready, link, sender, rpc,
                     stored, rows, runs, rx>>
  BY DEF AbortRun, hostVars
<1>2. /\ past' \in [archived : SUBSET Sids, cut : SUBSET Sends, spoke : SUBSET Sends,
                    overlap : BOOLEAN, moves : 0..MaxMoves]
      /\ past'.archived = past.archived /\ past'.cut = past.cut
      /\ past'.spoke = past.spoke /\ past'.overlap = past.overlap
  BY <1>1, PageMoves
<1>3. Listed' = Listed
  BY <1>1 DEF Listed
<1>4. WebTypeOK'
  BY <1>1, <1>2, PageAssumption DEF PageInv, WebTypeOK, NoSend
<1>5. OfflineInv' /\ OutInv'
  BY <1>1, <1>2, <1>3 DEF PageInv, OfflineInv, OutInv, ArchivedStaysOut
<1>6. ASSUME NEW x \in Sids, NEW r \in Sends PROVE (Under(x, r))' = Under(x, r)
  BY <1>1 DEF Under
<1>7. \A r \in Sends : sender[r].at \in Sending \ {"gate"} /\ runs[r] # "ended" => r \in past'.cut \/ link'
  BY <1>1, <1>2, PageLinked
<1>8. SendInv' /\ OneInv' /\ TextInv'
  BY <1>1, <1>2, <1>3, <1>6, <1>7, PageQuiet
<1> QED
  BY <1>4, <1>5, <1>8 DEF PageInv

\* The subscription comes, is ready, and breaks.
LEMMA LinkKeeps == ASSUME PageInv, SubscribeEvents \/ MarkReady \/ Drop PROVE PageInv'
<1>1. UNCHANGED <<backend, listed, activeSid, running, messages, target, live, sender, rpc,
                  stored, rows, runs, rx>>
  BY DEF SubscribeEvents, MarkReady, Drop, pageVars, hostVars
<1>2. /\ past' \in [archived : SUBSET Sids, cut : SUBSET Sends, spoke : SUBSET Sends,
                    overlap : BOOLEAN, moves : 0..MaxMoves]
      /\ past'.archived = past.archived /\ past.cut \subseteq past'.cut
      /\ past'.spoke = past.spoke /\ past'.overlap = past.overlap
      /\ \A r \in Sends : sender[r].at \in Sending \ {"gate"} /\ runs[r] # "ended" => r \in past'.cut \/ link'
      /\ link' \in BOOLEAN /\ ready' \in BOOLEAN /\ (ready' => link')
  <2>1. CASE SubscribeEvents \/ MarkReady
    <3>1. past' = past
      BY <2>1 DEF SubscribeEvents, MarkReady
    <3>2. link' = TRUE /\ ready' \in BOOLEAN
      BY <2>1 DEF SubscribeEvents, MarkReady, PageInv, WebTypeOK
    <3> QED
      BY <3>1, <3>2 DEF PageInv, WebTypeOK
  <2>2. CASE Drop
    <3> DEFINE lost == {r \in Sends : sender[r].at \in {"store", "prompt", "sent"} /\ runs[r] # "ended"}
    <3>1. /\ past.moves < MaxMoves /\ link' = FALSE /\ ready' = FALSE
          /\ past' = [past EXCEPT !.moves = past.moves + 1, !.cut = past.cut \cup lost]
      BY <2>2 DEF Drop
    <3>2. past.moves + 1 \in 0..MaxMoves /\ lost \subseteq Sends
      BY <3>1, PageAssumption DEF PageInv, WebTypeOK
    <3>3. \A r \in Sends : sender[r].at \in Sending \ {"gate"} /\ runs[r] # "ended" => r \in lost
      BY DEF Sending
    <3> HIDE DEF lost
    <3> QED
      BY <3>1, <3>2, <3>3 DEF PageInv, WebTypeOK
  <2> QED
    BY <2>1, <2>2
<1>3. Listed' = Listed
  BY <1>1 DEF Listed
<1>4. WebTypeOK'
  BY <1>1, <1>2 DEF PageInv, WebTypeOK
<1>5. OfflineInv' /\ OutInv'
  BY <1>1, <1>2, <1>3 DEF PageInv, OfflineInv, OutInv, ArchivedStaysOut
<1>6. ASSUME NEW x \in Sids, NEW r \in Sends PROVE (Under(x, r))' = Under(x, r)
  BY <1>1 DEF Under
<1>7. SendInv' /\ OneInv' /\ TextInv'
  BY <1>1, <1>2, <1>3, <1>6, PageQuiet
<1> QED
  BY <1>4, <1>5, <1>7 DEF PageInv

\* What the daemon stores late is stored once, or of a session that is out.
LEMMA RpcKeeps == ASSUME PageInv, NEW q \in rpc, RpcStep(q) PROVE PageInv'
<1>1. /\ rpc' = rpc \ {q}
      /\ CASE q.op = "create" -> stored' = stored \cup {q.sid} /\ UNCHANGED rows
           [] q.op = "archive" -> stored' = stored \ {q.sid} /\ rows' = [rows EXCEPT ![q.sid] = <<>>]
           [] q.op = "reply" -> AddRow(q.sid, [who |-> "reply", of |-> q.of])
      /\ UNCHANGED <<backend, listed, activeSid, running, messages, target, live, ready, link, sender, runs, rx, past>>
  BY DEF RpcStep, pageVars
<1>2. /\ q.op \in {"create", "archive", "reply"} /\ q.sid \in Sids /\ q.of \in SUBSET Sends
      /\ q = [op |-> q.op, sid |-> q.sid, of |-> q.of]
  BY DEF PageInv, WebTypeOK
<1> DEFINE b == [who |-> "reply", of |-> q.of]
<1>3. b \in Bubble /\ b.who = "reply" /\ b.of = q.of
  BY <1>2 DEF Bubble
<1> HIDE DEF b
<1>4. /\ q.op = "create" => stored' = stored \cup {q.sid} /\ rows' = rows
      /\ q.op = "archive" => stored' = stored \ {q.sid} /\ rows' = [rows EXCEPT ![q.sid] = <<>>]
      /\ q.op = "reply" => stored' = stored \cup {q.sid} /\ rows' = [rows EXCEPT ![q.sid] = Append(rows[q.sid], b)]
  BY <1>1, <1>2 DEF AddRow, b
<1>5. rows \in [Sids -> Seq(Bubble)] /\ stored \subseteq Sids
  BY DEF PageInv, WebTypeOK
<1>6. rows' \in [Sids -> Seq(Bubble)] /\ stored' \subseteq Sids
  <2>1. CASE q.op = "create"
    BY <1>2, <1>4, <1>5, <2>1
  <2>2. CASE q.op = "archive"
    <3>1. <<>> \in Seq(Bubble)
      OBVIOUS
    <3> QED
      BY <1>2, <1>4, <1>5, <2>2, <3>1
  <2>3. CASE q.op = "reply"
    <3>1. Append(rows[q.sid], b) \in Seq(Bubble)
      BY <1>2, <1>3, <1>5, AtAppend
    <3> QED
      BY <1>2, <1>4, <1>5, <2>3, <3>1
  <2> QED
    BY <1>2, <2>1, <2>2, <2>3
<1>7. WebTypeOK'
  BY <1>1, <1>6 DEF PageInv, WebTypeOK
<1>8. Listed' = Listed /\ backend = "daemon"
  BY <1>1 DEF Listed, PageInv, OfflineInv, WebTypeOK
<1>9. OfflineInv' /\ OutInv'
  BY <1>1, <1>8 DEF PageInv, OfflineInv, OutInv, ArchivedStaysOut
<1>10. SendInv'
  BY <1>1, <1>8 DEF PageInv, SendInv
<1>11. \A r \in Sends : ((Ended(r))' <=> Ended(r)) /\ ((Unfinished(r))' <=> Unfinished(r))
                        /\ ((ReadOut(r))' <=> ReadOut(r)) /\ ((EventsInOrder(r))' <=> EventsInOrder(r))
  BY <1>1 DEF Ended, Unfinished, ReadOut, EventsInOrder
<1>12. OneInv'
  BY <1>1, <1>11 DEF PageInv, OneInv
<1>13. TextInv'
  <2> SUFFICES ASSUME ~past.overlap, NEW r \in Sends, NEW s \in Sids,
                      r \notin past.cut, sender[r].sid \notin past.archived
               PROVE  IF (ReadOut(r))' /\ s = sender[r].sid THEN (Once(r, s))' ELSE (Nowhere(r, s))'
    BY <1>1 DEF TextInv
  <2>1. IF ReadOut(r) /\ s = sender[r].sid THEN Once(r, s) ELSE Nowhere(r, s)
    BY DEF PageInv, TextInv
  <2>2. messages' = messages /\ ((Ended(r))' <=> Ended(r)) /\ ((ReadOut(r))' <=> ReadOut(r))
    BY <1>1, <1>11
  <2>3. CASE ~(q.op = "reply" /\ q.sid = s /\ r \in q.of)
    <3>1. (Under(s, r))' = Under(s, r)
      BY <1>1, <2>3 DEF Under
    <3>2. At(rows'[s], r) = At(rows[s], r) \/ (q.op = "archive" /\ q.sid = s /\ At(rows'[s], r) = {})
      <4>1. CASE q.op = "create"
        BY <1>4, <4>1
      <4>2. CASE q.op = "archive"
        <5>1. At(<<>>, r) = {}
          BY DEF At
        <5> QED
          BY <1>2, <1>4, <1>5, <4>2, <5>1
      <4>3. CASE q.op = "reply"
        <5>1. s # q.sid => rows'[s] = rows[s]
          BY <1>2, <1>4, <1>5, <4>3
        <5>2. s = q.sid => rows'[s] = Append(rows[s], b) /\ r \notin b.of
          BY <1>2, <1>3, <1>4, <1>5, <2>3, <4>3
        <5>3. s = q.sid => At(Append(rows[s], b), r) = At(rows[s], r)
          BY <1>3, <1>5, <5>2, AtAppend
        <5> QED
          BY <5>1, <5>2, <5>3
      <4> QED
        BY <1>2, <4>1, <4>2, <4>3
    <3>3. q.op = "archive" => q.sid # sender[r].sid
      BY DEF PageInv, OutInv
    <3>4. CASE ReadOut(r) /\ s = sender[r].sid
      <4>1. At(rows'[s], r) = At(rows[s], r) /\ Once(r, s)
        BY <2>1, <3>2, <3>3, <3>4
      <4>2. (Once(r, s))'
        BY <2>2, <3>1, <4>1 DEF Once
      <4> QED
        BY <1>1, <2>2, <3>4, <4>2
    <3>5. CASE ~(ReadOut(r) /\ s = sender[r].sid)
      <4>1. (Nowhere(r, s))'
        BY <2>1, <2>2, <3>1, <3>2, <3>5 DEF Nowhere
      <4> QED
        BY <1>1, <2>2, <3>5, <4>1
    <3> QED
      BY <3>4, <3>5
  <2>4. CASE q.op = "reply" /\ q.sid = s /\ r \in q.of
    <3>1. q \in Under(s, r)
      BY <2>4 DEF Under
    <3>2. ReadOut(r) /\ s = sender[r].sid /\ Once(r, s)
      BY <2>1, <3>1 DEF Nowhere
    <3>3. Ended(r) /\ At(rows[s], r) = {} /\ Under(s, r) = {q}
      BY <3>1, <3>2 DEF Once
    <3>4. (Under(s, r))' = {}
      BY <1>1, <3>3 DEF Under
    <3>5. At(rows'[s], r) = {Len(rows[s]) + 1}
      <4>1. rows'[s] = Append(rows[s], b) /\ rows[s] \in Seq(Bubble)
        BY <1>2, <1>4, <1>5, <2>4
      <4> QED
        BY <1>3, <2>4, <3>3, <4>1, AtAppend
    <3>6. (Once(r, s))'
      BY <2>2, <3>2, <3>3, <3>4, <3>5 DEF Once
    <3> QED
      BY <1>1, <2>2, <3>2, <3>6
  <2> QED
    BY <2>3, <2>4
<1> QED
  BY <1>7, <1>9, <1>10, <1>12, <1>13 DEF PageInv

-----------------------------------------------------------------------------
\* A send: what it writes is at its place, and without an overlap nothing is
\* under way and no event waits.
LEMMA SendWrites ==
  ASSUME PageInv, NEW r \in Sends, NEW s \in Sids, SendMessage(r, s)
  PROVE  /\ sender[r].at = "idle" /\ \A q \in 1..(r - 1) : sender[q].at # "idle"
         /\ listed' \in Seq(Sids) /\ Listed' = Listed \cup {s}
         /\ \A i, j \in DOMAIN listed' : listed'[i] = listed'[j] => i = j
         /\ s \notin past.archived
         /\ backend = "disconnected" => s # Old
         /\ DOMAIN messages' = DOMAIN messages \cup {s}
         /\ \A x \in DOMAIN messages \ {s} : messages'[x] = messages[x]
         /\ Cached(s) \in Seq(Bubble) /\ messages'[s] = Append(Cached(s), UserBubble(r))
         /\ UserBubble(r) \in Bubble /\ UserBubble(r).who = "user" /\ UserBubble(r).of = {r}
<1>1. /\ sender[r].at = "idle" /\ \A q \in 1..(r - 1) : sender[q].at # "idle"
      /\ IF activeSid \in Listed THEN s = activeSid ELSE NewId(s)
      /\ listed' = IF s \in Listed THEN listed ELSE <<s>> \o listed
      /\ messages' = [x \in DOMAIN messages \cup {s} |-> IF x = s THEN Append(Cached(s), UserBubble(r)) ELSE messages[x]]
  BY DEF SendMessage, Written
<1>2. s \in Listed \/ (s \notin Listed \cup past.archived \cup stored)
  BY <1>1 DEF NewId
<1>3. /\ listed' \in Seq(Sids) /\ Listed' = Listed \cup {s}
      /\ \A i, j \in DOMAIN listed' : listed'[i] = listed'[j] => i = j
  <2>1. CASE s \in Listed
    BY <1>1, <2>1 DEF PageInv, WebTypeOK, OutInv, Listed
  <2>2. CASE s \notin Listed
    <3>1. listed \in Seq(Sids) /\ \A i, j \in DOMAIN listed : listed[i] = listed[j] => i = j
      BY DEF PageInv, WebTypeOK, OutInv
    <3>2. listed' = <<s>> \o listed /\ s \notin Range(listed)
      BY <1>1, <2>2 DEF Listed
    <3>3. /\ <<s>> \o listed \in Seq(Sids) /\ Range(<<s>> \o listed) = {s} \cup Range(listed)
          /\ \A i, j \in DOMAIN (<<s>> \o listed) : (<<s>> \o listed)[i] = (<<s>> \o listed)[j] => i = j
      BY <3>1, <3>2, PageListed
    <3> QED
      BY <3>2, <3>3 DEF Listed
  <2> QED
    BY <2>1, <2>2
<1>4. s \notin past.archived /\ (backend = "disconnected" => s # Old)
  BY <1>2 DEF PageInv, OutInv, ArchivedStaysOut, OfflineInv
<1>5. Cached(s) \in Seq(Bubble)
  <2>1. <<>> \in Seq(Bubble)
    OBVIOUS
  <2> QED
    BY <2>1 DEF Cached, PageInv, WebTypeOK
<1>6. UserBubble(r) \in Bubble /\ UserBubble(r).who = "user" /\ UserBubble(r).of = {r}
  BY DEF UserBubble, Bubble
<1>7. /\ DOMAIN messages' = DOMAIN messages \cup {s}
      /\ \A x \in DOMAIN messages \ {s} : messages'[x] = messages[x]
      /\ messages'[s] = Append(Cached(s), UserBubble(r))
  BY <1>1
<1> QED
  BY <1>1, <1>3, <1>4, <1>5, <1>6, <1>7

LEMMA SendKeeps == ASSUME PageInv, NEW r \in Sends, NEW s \in Sids, SendMessage(r, s) PROVE PageInv'
<1>1. /\ sender' = [sender EXCEPT ![r] = [at |-> IF backend = "daemon" THEN "gate" ELSE "over", sid |-> s]]
      /\ activeSid' = s
      /\ IF backend = "daemon"
         THEN target' = s /\ live' = r /\ running' = running \cup {s}
         ELSE UNCHANGED <<target, live, running>>
      /\ past' = [past EXCEPT !.overlap = past.overlap \/ \E q \in Sends : Unfinished(q)]
      /\ UNCHANGED <<backend, ready, link, rpc, stored, rows, runs, rx>>
  BY DEF SendMessage, hostVars
<1>2. /\ sender[r].at = "idle" /\ \A q \in 1..(r - 1) : sender[q].at # "idle"
      /\ listed' \in Seq(Sids) /\ Listed' = Listed \cup {s}
      /\ \A i, j \in DOMAIN listed' : listed'[i] = listed'[j] => i = j
      /\ s \notin past.archived
      /\ backend = "disconnected" => s # Old
      /\ DOMAIN messages' = DOMAIN messages \cup {s}
      /\ \A x \in DOMAIN messages \ {s} : messages'[x] = messages[x]
      /\ Cached(s) \in Seq(Bubble) /\ messages'[s] = Append(Cached(s), UserBubble(r))
      /\ UserBubble(r) \in Bubble /\ UserBubble(r).who = "user" /\ UserBubble(r).of = {r}
  BY SendWrites
<1>3. /\ past' \in [archived : SUBSET Sids, cut : SUBSET Sends, spoke : SUBSET Sends,
                    overlap : BOOLEAN, moves : 0..MaxMoves]
      /\ past'.archived = past.archived /\ past'.cut = past.cut /\ past'.spoke = past.spoke
      /\ ~past'.overlap => ~past.overlap /\ \A q \in Sends : ~Unfinished(q)
  <2> DEFINE over == past.overlap \/ \E q \in Sends : Unfinished(q)
  <2>1. over \in BOOLEAN
    BY DEF PageInv, WebTypeOK
  <2>2. past' = [past EXCEPT !.overlap = over]
    BY <1>1
  <2>3. ~over => ~past.overlap /\ \A q \in Sends : ~Unfinished(q)
    OBVIOUS
  <2> HIDE DEF over
  <2> QED
    BY <2>1, <2>2, <2>3 DEF PageInv, WebTypeOK
<1>4. /\ sender' \in [Sends -> [at : {"idle", "gate", "store", "prompt", "sent", "failed", "over"},
                                sid : Sids \cup {NoSid}]]
      /\ sender'[r].sid = s /\ sender'[r].at \in {"gate", "over"}
      /\ sender'[r].at = "gate" <=> backend = "daemon"
      /\ \A q \in Sends : q # r => sender'[q] = sender[q]
  <2> DEFINE new == [at |-> IF backend = "daemon" THEN "gate" ELSE "over", sid |-> s]
  <2>1. /\ new \in [at : {"idle", "gate", "store", "prompt", "sent", "failed", "over"}, sid : Sids \cup {NoSid}]
        /\ new.sid = s /\ new.at \in {"gate", "over"}
        /\ new.at = "gate" <=> backend = "daemon"
    OBVIOUS
  <2>2. sender' = [sender EXCEPT ![r] = new]
    BY <1>1
  <2> HIDE DEF new
  <2> QED
    BY <2>1, <2>2 DEF PageInv, WebTypeOK
<1>5. runs[r] = "none" /\ r \notin past.spoke /\ sender[r].sid = NoSid
  BY <1>2 DEF PageInv, SendInv, WebTypeOK
<1>6. WebTypeOK'
  <2>1. \A x \in DOMAIN messages' : x \in Sids /\ messages'[x] \in Seq(Bubble)
    <3>1. \A x \in DOMAIN messages : x \in Sids /\ messages[x] \in Seq(Bubble)
      BY DEF PageInv, WebTypeOK
    <3>2. Append(Cached(s), UserBubble(r)) \in Seq(Bubble)
      BY <1>2, AtAppend
    <3> QED
      BY <1>2, <3>1, <3>2
  <2>2. running' \subseteq Sids /\ target' \in Sids \cup {NoSid} /\ live' \in 0..MaxSends /\ activeSid' \in Sids
    <3>1. r \in 0..MaxSends
      BY PageAssumption DEF Sends
    <3> QED
      BY <1>1, <3>1 DEF PageInv, WebTypeOK
  <2> QED
    BY <1>1, <1>2, <1>3, <1>4, <2>1, <2>2 DEF PageInv, WebTypeOK
<1>7. OfflineInv'
  <2> SUFFICES ASSUME backend = "disconnected"
               PROVE  /\ stored' = {Old} /\ rpc' = {} /\ live' = NoSend
                      /\ Old \notin Listed' \cup past'.archived
                      /\ \A q \in Sends : sender'[q].at \in {"idle", "over"}
    BY <1>1 DEF OfflineInv
  <2>1. /\ stored = {Old} /\ rpc = {} /\ live = NoSend
        /\ Old \notin Listed \cup past.archived
        /\ \A q \in Sends : sender[q].at \in {"idle", "over"}
    BY DEF PageInv, OfflineInv
  <2>2. sender'[r].at = "over"
    BY <1>4
  <2>3. live' = live
    BY <1>1
  <2> QED
    BY <1>1, <1>2, <1>3, <1>4, <2>1, <2>2, <2>3
<1>8. OutInv'
  <2>1. past'.archived \cap (DOMAIN messages' \cup running' \cup Listed') = {}
    <3>1. past.archived \cap (DOMAIN messages \cup running \cup Listed) = {}
      BY DEF PageInv, OutInv, ArchivedStaysOut
    <3>2. running' \subseteq running \cup {s}
      BY <1>1
    <3> QED
      BY <1>2, <1>3, <3>1, <3>2
  <2> QED
    BY <1>1, <1>2, <1>3, <2>1 DEF PageInv, OutInv, ArchivedStaysOut
<1>9. SendInv'
  <2> SUFFICES ASSUME NEW q \in Sends
               PROVE  /\ runs'[q] # "none" => sender'[q].at = "sent"
                      /\ q \in past'.spoke => runs'[q] = "ended"
                      /\ \A i \in DOMAIN rx' : rx'[i].of = q => runs'[q] \in {"begun", "ended"}
                      /\ sender'[q].at = "idle" => sender'[q].sid = NoSid
                      /\ sender'[q].at # "idle" =>
                           /\ sender'[q].sid \in Sids
                           /\ \A p \in 1..(q - 1) : sender'[p].at # "idle"
                           /\ sender'[q].sid \in past'.archived \cup DOMAIN messages'
                      /\ sender'[q].at \in Sending => sender'[q].sid \in past'.archived \cup Listed'
                      /\ sender'[q].at \in Sending \ {"gate"} /\ runs'[q] # "ended" =>
                           q \in past'.cut \/ link'
                      /\ live' = q => /\ sender'[q].at # "idle"
                                      /\ \A p \in Sends : p > q => sender'[p].at = "idle"
    BY DEF SendInv
  <2>1. /\ runs[q] # "none" => sender[q].at = "sent"
        /\ q \in past.spoke => runs[q] = "ended"
        /\ \A i \in DOMAIN rx : rx[i].of = q => runs[q] \in {"begun", "ended"}
        /\ sender[q].at = "idle" => sender[q].sid = NoSid
        /\ sender[q].at # "idle" =>
             /\ sender[q].sid \in Sids
             /\ \A p \in 1..(q - 1) : sender[p].at # "idle"
             /\ sender[q].sid \in past.archived \cup DOMAIN messages
        /\ sender[q].at \in Sending => sender[q].sid \in past.archived \cup Listed
        /\ sender[q].at \in Sending \ {"gate"} /\ runs[q] # "ended" => q \in past.cut \/ link
        /\ live = q => sender[q].at # "idle" /\ \A p \in Sends : p > q => sender[p].at = "idle"
    BY DEF PageInv, SendInv
  <2>2. \A p \in Sends : sender[p].at # "idle" => p < r
    <3> SUFFICES ASSUME NEW p \in Sends, sender[p].at # "idle" PROVE p < r
      OBVIOUS
    <3>1. \A o \in 1..(p - 1) : sender[o].at # "idle"
      BY DEF PageInv, SendInv
    <3>2. r \notin 1..(p - 1) /\ p # r
      BY <1>2, <3>1
    <3> QED
      BY <3>2, PageAssumption DEF Sends
  <2>3. \A p \in 1..(q - 1) : p \in Sends
    BY PageAssumption DEF Sends
  <2>4. CASE q = r
    <3>1. \A p \in 1..(q - 1) : sender'[p].at # "idle"
      BY <1>2, <1>4, <2>3, <2>4
    <3>2. \A p \in Sends : p > q => sender'[p].at = "idle"
      <4>1. \A p \in Sends : p > r => p # r /\ ~(p < r)
        BY PageAssumption DEF Sends
      <4> QED
        BY <1>4, <2>2, <2>4, <4>1
    <3>3. sender'[q].sid = s /\ sender'[q].at \in {"gate", "over"}
      BY <1>4, <2>4
    <3>4. runs[q] = "none" /\ q \notin past.spoke
      BY <1>5, <2>4
    <3> QED
      BY <1>1, <1>2, <1>3, <2>1, <3>1, <3>2, <3>3, <3>4 DEF Sending
  <2>5. CASE q # r
    <3>1. sender'[q] = sender[q]
      BY <1>4, <2>5
    <3>2. \A p \in Sends : sender[p].at # "idle" => sender'[p].at # "idle"
      BY <1>4
    <3>3. live' = q => live = q /\ backend # "daemon"
      BY <1>1, <2>5
    <3>4. live' # q
      <4>1. backend # "daemon" => live = NoSend
        BY DEF PageInv, WebTypeOK, OfflineInv
      <4> QED
        BY <3>3, <4>1, PageFields DEF NoSend
    <3> QED
      BY <1>1, <1>2, <1>3, <2>1, <2>3, <3>1, <3>2, <3>4
  <2> QED
    BY <2>4, <2>5
<1>10. \A q \in Sends : (Ended(q))' <=> Ended(q)
  BY <1>1 DEF Ended
<1>11. ASSUME ~past'.overlap PROVE rx = <<>>
  <2> SUFFICES ASSUME rx # <<>> PROVE FALSE
    OBVIOUS
  <2>1. 1 \in DOMAIN rx
    BY DEF PageInv, WebTypeOK
  <2>2. rx[1].of \in Sends /\ Unfinished(rx[1].of)
    BY <2>1, EventWaits
  <2> QED
    BY <1>3, <1>11, <2>2
<1>12. OneInv'
  <2> SUFFICES ASSUME ~past'.overlap, NEW q \in Sends, (Unfinished(q))'
               PROVE  /\ \A p \in Sends : p > q => sender'[p].at = "idle"
                      /\ target' = sender'[q].sid
                      /\ sender'[q].sid \notin past'.archived =>
                           /\ messages'[sender'[q].sid] # <<>>
                           /\ Last(messages'[sender'[q].sid]).of \subseteq {q}
                      /\ q \notin past'.cut => (EventsInOrder(q))'
    BY DEF OneInv
  <2>1. q = r
    <3> SUFFICES ASSUME q # r PROVE FALSE
      OBVIOUS
    <3>1. Unfinished(q)
      BY <1>4, <1>10 DEF Unfinished
    <3> QED
      BY <1>3, <3>1
  <2>2. backend = "daemon"
    BY <1>4, <2>1 DEF Unfinished
  <2>3. live' = r /\ target' = s /\ sender'[r].sid = s
    BY <1>1, <1>4, <2>2
  <2>4. \A p \in Sends : p > q => sender'[p].at = "idle"
    BY <1>9, <2>1, <2>3 DEF SendInv
  <2>5. messages'[s] # <<>> /\ Last(messages'[s]).of = {r}
    BY <1>2, AtAppend
  <2>6. (EventsInOrder(q))'
    <3>1. rx' = <<>>
      BY <1>1, <1>11
    <3> QED
      BY <3>1 DEF EventsInOrder
  <2> QED
    BY <2>1, <2>3, <2>4, <2>5, <2>6
<1>13. TextInv'
  <2> SUFFICES ASSUME ~past'.overlap, NEW q \in Sends, NEW x \in Sids,
                      q \notin past'.cut, sender'[q].sid \notin past'.archived
               PROVE  IF (ReadOut(q))' /\ x = sender'[q].sid THEN (Once(q, x))' ELSE (Nowhere(q, x))'
    BY DEF TextInv
  <2>1. sender[q].sid \notin past.archived
    BY <1>3, <1>4, <1>5, PageFields, PageAssumption
  <2>2. IF ReadOut(q) /\ x = sender[q].sid THEN Once(q, x) ELSE Nowhere(q, x)
    BY <1>3, <2>1 DEF PageInv, TextInv
  <2>3. (ReadOut(q))' <=> ReadOut(q)
    BY <1>1, <1>3 DEF ReadOut
  <2>4. ReadOut(q) => q # r /\ Ended(q)
    <3> SUFFICES ASSUME ReadOut(q) PROVE q # r /\ Ended(q)
      OBVIOUS
    <3>1. q \in past.spoke /\ q # r
      BY <1>5 DEF ReadOut
    <3>2. sender[q].at = "sent"
      BY <3>1 DEF PageInv, SendInv
    <3>3. ~Unfinished(q)
      BY <1>3
    <3> QED
      BY <3>1, <3>2, <3>3 DEF Unfinished
  <2>5. /\ x \in DOMAIN messages => x \in DOMAIN messages' /\ At(messages'[x], q) = At(messages[x], q)
        /\ x \in DOMAIN messages' \ DOMAIN messages => At(messages'[x], q) = {}
    <3>1. \A p \in Sends : At(Append(Cached(s), UserBubble(r)), p) = At(Cached(s), p)
      BY <1>2, AtAppend
    <3>2. At(<<>>, q) = {}
      BY DEF At
    <3>3. Cached(s) = IF s \in DOMAIN messages THEN messages[s] ELSE <<>>
      BY DEF Cached
    <3> QED
      BY <1>2, <3>1, <3>2, <3>3
  <2>6. (Under(x, q))' = Under(x, q) /\ rows'[x] = rows[x]
    BY <1>1 DEF Under
  <2>7. ((Ended(q))' <=> Ended(q)) /\ (q # r => sender'[q].sid = sender[q].sid)
    BY <1>4, <1>10
  <2>8. CASE ReadOut(q) /\ x = sender[q].sid
    <3>1. Once(q, x) /\ Ended(q) /\ q # r
      BY <2>2, <2>4, <2>8
    <3>2. x \in DOMAIN messages' /\ At(messages'[x], q) = At(messages[x], q)
      BY <2>5, <3>1 DEF Once
    <3>3. (Once(q, x))'
      BY <2>6, <2>7, <3>1, <3>2 DEF Once
    <3> QED
      BY <2>3, <2>7, <2>8, <3>1, <3>3
  <2>9. CASE ~(ReadOut(q) /\ x = sender[q].sid)
    <3>1. Nowhere(q, x)
      BY <2>2, <2>9
    <3>2. (Nowhere(q, x))'
      BY <2>5, <2>6, <3>1 DEF Nowhere
    <3>3. ~((ReadOut(q))' /\ x = sender'[q].sid)
      BY <2>3, <2>4, <2>7, <2>9
    <3> QED
      BY <3>2, <3>3
  <2> QED
    BY <2>8, <2>9
<1> QED
  BY <1>6, <1>7, <1>8, <1>9, <1>12, <1>13 DEF PageInv

-----------------------------------------------------------------------------
\* The daemon's turn tells: its events come last.
LEMMA SaysLast ==
  ASSUME PageInv, NEW r \in Sends, NEW from, NEW to \in {"begun", "ended"},
         NEW kinds \in Seq({"start", "text", "end"}), Says(r, from, to, kinds)
  PROVE  /\ UNCHANGED <<backend, listed, activeSid, running, messages, target, live, ready, link, sender, rpc,
                        stored, rows>>
         /\ runs[r] = from /\ runs' \in [Sends -> {"none", "queued", "begun", "ended"}]
         /\ runs'[r] = to /\ \A q \in Sends : q # r => runs'[q] = runs[q]
         /\ ~link => rx' = rx
         /\ link => /\ DOMAIN rx' = 1..(Len(rx) + Len(kinds)) /\ Len(rx') = Len(rx) + Len(kinds)
                    /\ \A i \in DOMAIN rx : i \in DOMAIN rx' /\ rx'[i] = rx[i]
                    /\ \A i \in DOMAIN rx' : i \notin DOMAIN rx =>
                         i - Len(rx) \in 1..Len(kinds) /\ rx'[i].kind = kinds[i - Len(rx)] /\ rx'[i].of = r
         /\ rx' \in Seq(PageEvents) /\ DOMAIN rx = 1..Len(rx) /\ Len(rx) \in Nat
<1> DEFINE more == [i \in 1..Len(kinds) |-> [kind |-> kinds[i], of |-> r]]
<1>1. rx \in Seq(PageEvents) /\ runs \in [Sends -> {"none", "queued", "begun", "ended"}]
  BY DEF PageInv, WebTypeOK
<1>2. /\ runs[r] = from /\ runs' = [runs EXCEPT ![r] = to]
      /\ rx' = IF link THEN rx \o more ELSE rx
      /\ UNCHANGED <<backend, listed, activeSid, running, messages, target, live, ready, link, sender, rpc,
                     stored, rows>>
  BY DEF Says, pageVars
<1>3. \A i \in 1..Len(kinds) : kinds[i] \in {"start", "text", "end"}
  OBVIOUS
<1>4. \A i \in 1..Len(kinds) : [kind |-> kinds[i], of |-> r] \in PageEvents
  BY <1>3 DEF PageEvents
<1>5. /\ more \in Seq(PageEvents) /\ Len(more) = Len(kinds)
      /\ \A i \in 1..Len(kinds) : more[i].kind = kinds[i] /\ more[i].of = r
  BY <1>4
<1> HIDE DEF more
<1>6. /\ rx \o more \in Seq(PageEvents) /\ Len(rx \o more) = Len(rx) + Len(kinds)
      /\ DOMAIN (rx \o more) = 1..(Len(rx) + Len(kinds))
      /\ \A i \in DOMAIN rx : i \in DOMAIN (rx \o more) /\ (rx \o more)[i] = rx[i]
      /\ \A i \in DOMAIN (rx \o more) : i \notin DOMAIN rx =>
           i - Len(rx) \in 1..Len(kinds) /\ (rx \o more)[i] = more[i - Len(rx)]
      /\ DOMAIN rx = 1..Len(rx) /\ Len(rx) \in Nat
  <2>1. /\ rx \o more \in Seq(PageEvents) /\ Len(rx \o more) = Len(rx) + Len(kinds)
        /\ Len(rx) \in Nat /\ DOMAIN rx = 1..Len(rx) /\ Len(kinds) \in Nat
    <3>1. Len(kinds) \in Nat
      OBVIOUS
    <3>2. Len(rx) \in Nat /\ DOMAIN rx = 1..Len(rx)
      BY <1>1
    <3>3. rx \o more \in Seq(PageEvents)
      BY <1>1, <1>5
    <3>4. Len(rx \o more) = Len(rx) + Len(kinds)
      BY <1>1, <1>5
    <3> QED
      BY <3>1, <3>2, <3>3, <3>4
  <2>2. DOMAIN (rx \o more) = 1..(Len(rx) + Len(kinds))
    BY <2>1
  <2>3. \A i \in DOMAIN rx : i \in DOMAIN (rx \o more) /\ (rx \o more)[i] = rx[i]
    BY <1>1, <1>5, <2>1, <2>2
  <2>4. ASSUME NEW i \in DOMAIN (rx \o more), i \notin DOMAIN rx
        PROVE  i - Len(rx) \in 1..Len(kinds) /\ (rx \o more)[i] = more[i - Len(rx)]
    <3>1. i - Len(rx) \in 1..Len(kinds) /\ i \in 1..(Len(rx) + Len(more)) /\ i > Len(rx)
      BY <1>5, <2>1, <2>2, <2>4
    <3> QED
      BY <1>1, <1>5, <3>1
  <2> QED
    BY <2>1, <2>2, <2>3, <2>4
<1>7. runs' \in [Sends -> {"none", "queued", "begun", "ended"}] /\ runs'[r] = to
      /\ \A q \in Sends : q # r => runs'[q] = runs[q]
  BY <1>1, <1>2
<1>8. link => /\ DOMAIN rx' = 1..(Len(rx) + Len(kinds)) /\ Len(rx') = Len(rx) + Len(kinds)
              /\ \A i \in DOMAIN rx : i \in DOMAIN rx' /\ rx'[i] = rx[i]
              /\ \A i \in DOMAIN rx' : i \notin DOMAIN rx =>
                   i - Len(rx) \in 1..Len(kinds) /\ rx'[i].kind = kinds[i - Len(rx)] /\ rx'[i].of = r
  BY <1>2, <1>5, <1>6
<1>9. rx' \in Seq(PageEvents) /\ (~link => rx' = rx)
  BY <1>1, <1>2, <1>6
<1> QED
  BY <1>2, <1>6, <1>7, <1>8, <1>9

\* What a turn's step does not touch.
LEMMA RunsQuiet ==
  ASSUME PageInv, NEW r \in Sends, NEW to \in {"begun", "ended"},
         UNCHANGED <<backend, listed, activeSid, running, messages, target, live, ready, link, sender, rpc,
                     stored, rows>>,
         runs[r] \in {"queued", "begun"}, runs' \in [Sends -> {"none", "queued", "begun", "ended"}],
         runs'[r] = to, \A q \in Sends : q # r => runs'[q] = runs[q],
         rx' \in Seq(PageEvents),
         \A i \in DOMAIN rx' : rx'[i].of = r \/ (i \in DOMAIN rx /\ rx'[i] = rx[i]),
         past' \in [archived : SUBSET Sids, cut : SUBSET Sends, spoke : SUBSET Sends,
                    overlap : BOOLEAN, moves : 0..MaxMoves],
         past'.archived = past.archived, past'.cut = past.cut, past'.overlap = past.overlap,
         past'.spoke = past.spoke \/ (past'.spoke = past.spoke \cup {r} /\ to = "ended")
  PROVE  WebTypeOK' /\ OfflineInv' /\ OutInv' /\ SendInv'
<1>1. Listed' = Listed
  BY DEF Listed
<1>2. WebTypeOK'
  BY DEF PageInv, WebTypeOK
<1>3. OfflineInv' /\ OutInv'
  BY <1>1 DEF PageInv, OfflineInv, OutInv, ArchivedStaysOut
<1>4. SendInv'
  <2> SUFFICES ASSUME NEW q \in Sends
               PROVE  /\ runs'[q] # "none" => sender'[q].at = "sent"
                      /\ q \in past'.spoke => runs'[q] = "ended"
                      /\ \A i \in DOMAIN rx' : rx'[i].of = q => runs'[q] \in {"begun", "ended"}
                      /\ sender'[q].at = "idle" => sender'[q].sid = NoSid
                      /\ sender'[q].at # "idle" =>
                           /\ sender'[q].sid \in Sids
                           /\ \A p \in 1..(q - 1) : sender'[p].at # "idle"
                           /\ sender'[q].sid \in past'.archived \cup DOMAIN messages'
                      /\ sender'[q].at \in Sending => sender'[q].sid \in past'.archived \cup Listed'
                      /\ sender'[q].at \in Sending \ {"gate"} /\ runs'[q] # "ended" =>
                           q \in past'.cut \/ link'
                      /\ live' = q => /\ sender'[q].at # "idle"
                                      /\ \A p \in Sends : p > q => sender'[p].at = "idle"
    BY DEF SendInv
  <2>1. /\ runs[q] # "none" => sender[q].at = "sent"
        /\ q \in past.spoke => runs[q] = "ended"
        /\ \A i \in DOMAIN rx : rx[i].of = q => runs[q] \in {"begun", "ended"}
        /\ sender[q].at = "idle" => sender[q].sid = NoSid
        /\ sender[q].at # "idle" =>
             /\ sender[q].sid \in Sids
             /\ \A p \in 1..(q - 1) : sender[p].at # "idle"
             /\ sender[q].sid \in past.archived \cup DOMAIN messages
        /\ sender[q].at \in Sending => sender[q].sid \in past.archived \cup Listed
        /\ sender[q].at \in Sending \ {"gate"} /\ runs[q] # "ended" => q \in past.cut \/ link
        /\ live = q => sender[q].at # "idle" /\ \A p \in Sends : p > q => sender[p].at = "idle"
    BY DEF PageInv, SendInv
  <2>2. CASE q = r
    <3>1. \A i \in DOMAIN rx' : rx'[i].of = q => runs'[q] \in {"begun", "ended"}
      BY <2>2
    <3>2. q \in past'.spoke => runs'[q] = "ended"
      BY <2>1, <2>2
    <3> QED
      BY <1>1, <2>1, <2>2, <3>1, <3>2
  <2>3. CASE q # r
    <3>1. \A i \in DOMAIN rx' : rx'[i].of = q => runs'[q] \in {"begun", "ended"}
      BY <2>1, <2>3
    <3>2. q \in past'.spoke => runs'[q] = "ended"
      BY <2>1, <2>3
    <3> QED
      BY <1>1, <2>1, <2>3, <3>1, <3>2
  <2> QED
    BY <2>2, <2>3
<1> QED
  BY <1>2, <1>3, <1>4

LEMMA BeginKeeps == ASSUME PageInv, NEW r \in Sends, RunBegins(r) PROVE PageInv'
<1>1. Says(r, "queued", "begun", <<"start">>) /\ past' = past
  BY DEF RunBegins
<1>2. /\ UNCHANGED <<backend, listed, activeSid, running, messages, target, live, ready, link, sender, rpc,
                     stored, rows>>
      /\ runs[r] = "queued" /\ runs' \in [Sends -> {"none", "queued", "begun", "ended"}]
      /\ runs'[r] = "begun" /\ \A q \in Sends : q # r => runs'[q] = runs[q]
      /\ ~link => rx' = rx
      /\ link => /\ DOMAIN rx' = 1..(Len(rx) + 1) /\ Len(rx') = Len(rx) + 1
                 /\ \A i \in DOMAIN rx : i \in DOMAIN rx' /\ rx'[i] = rx[i]
                 /\ \A i \in DOMAIN rx' : i \notin DOMAIN rx => rx'[i].kind = "start" /\ rx'[i].of = r
      /\ rx' \in Seq(PageEvents) /\ DOMAIN rx = 1..Len(rx) /\ Len(rx) \in Nat
  <2> DEFINE k == <<"start">>
  <2>1. k \in Seq({"start", "text", "end"}) /\ Len(k) = 1 /\ \A i \in 1..1 : k[i] = "start"
    OBVIOUS
  <2>2. Says(r, "queued", "begun", k)
    BY <1>1
  <2> HIDE DEF k
  <2>3. /\ UNCHANGED <<backend, listed, activeSid, running, messages, target, live, ready, link, sender, rpc,
                       stored, rows>>
        /\ runs[r] = "queued" /\ runs' \in [Sends -> {"none", "queued", "begun", "ended"}]
        /\ runs'[r] = "begun" /\ \A q \in Sends : q # r => runs'[q] = runs[q]
        /\ ~link => rx' = rx
        /\ link => /\ DOMAIN rx' = 1..(Len(rx) + Len(k)) /\ Len(rx') = Len(rx) + Len(k)
                   /\ \A i \in DOMAIN rx : i \in DOMAIN rx' /\ rx'[i] = rx[i]
                   /\ \A i \in DOMAIN rx' : i \notin DOMAIN rx =>
                        i - Len(rx) \in 1..Len(k) /\ rx'[i].kind = k[i - Len(rx)] /\ rx'[i].of = r
        /\ rx' \in Seq(PageEvents) /\ DOMAIN rx = 1..Len(rx) /\ Len(rx) \in Nat
    BY <2>1, <2>2, SaysLast
  <2> QED
    BY <2>1, <2>3
<1>3. \A i \in DOMAIN rx' : (i \in DOMAIN rx /\ rx'[i] = rx[i])
                            \/ (i \notin DOMAIN rx /\ rx'[i].kind = "start" /\ rx'[i].of = r)
  BY <1>2
<1>4. WebTypeOK' /\ OfflineInv' /\ OutInv' /\ SendInv'
  <2>1. past' \in [archived : SUBSET Sids, cut : SUBSET Sends, spoke : SUBSET Sends,
                   overlap : BOOLEAN, moves : 0..MaxMoves]
    BY <1>1 DEF PageInv, WebTypeOK
  <2> QED
    BY <1>1, <1>2, <1>3, <2>1, RunsQuiet
<1>5. sender[r].at = "sent" /\ r \notin past.spoke /\ Unfinished(r)
  BY <1>2 DEF PageInv, SendInv, Unfinished, Ended
<1>6. \A q \in Sends : (Ended(q))' <=> Ended(q)
  <2> SUFFICES ASSUME NEW q \in Sends PROVE (Ended(q))' <=> Ended(q)
    OBVIOUS
  <2>1. CASE q = r
    BY <1>2, <2>1 DEF Ended
  <2>2. CASE q # r
    <3>1. \A i \in DOMAIN rx : i \in DOMAIN rx' /\ rx'[i] = rx[i]
      BY <1>2
    <3>2. DOMAIN rx' = 1..Len(rx')
      BY <1>2
    <3> QED
      BY <1>2, <1>3, <2>2, <3>1, <3>2 DEF Ended
  <2> QED
    BY <2>1, <2>2
<1>7. \A q \in Sends : (Unfinished(q))' <=> Unfinished(q)
  BY <1>2, <1>6 DEF Unfinished
<1>8. OneInv'
  <2> SUFFICES ASSUME ~past.overlap, NEW q \in Sends, Unfinished(q)
               PROVE  /\ \A p \in Sends : p > q => sender'[p].at = "idle"
                      /\ target' = sender'[q].sid
                      /\ sender'[q].sid \notin past'.archived =>
                           /\ messages'[sender'[q].sid] # <<>>
                           /\ Last(messages'[sender'[q].sid]).of \subseteq {q}
                      /\ q \notin past'.cut => (EventsInOrder(q))'
    BY <1>1, <1>7 DEF OneInv
  <2>1. q = r
    BY <1>5, OneUnderWay
  <2>2. q \notin past.cut => (EventsInOrder(q))'
    <3> SUFFICES ASSUME q \notin past.cut PROVE (EventsInOrder(q))'
      OBVIOUS
    <3>1. rx = <<>>
      <4> SUFFICES ASSUME rx # <<>> PROVE FALSE
        OBVIOUS
      <4>1. 1 \in DOMAIN rx
        BY <1>2 DEF PageInv, WebTypeOK
      <4>2. rx[1].of \in Sends /\ Unfinished(rx[1].of)
        BY <4>1, EventWaits
      <4>3. rx[1].of = r
        BY <1>5, <4>2, OneUnderWay
      <4>4. runs[r] \in {"begun", "ended"}
        BY <4>1, <4>3 DEF PageInv, SendInv
      <4> QED
        BY <1>2, <4>4
    <3>2. \A i \in DOMAIN rx' : rx'[i].kind = "start"
      BY <1>3, <3>1
    <3> QED
      BY <1>1, <1>2, <1>5, <2>1, <3>2 DEF EventsInOrder
  <2> QED
    BY <1>1, <1>2, <2>2 DEF PageInv, OneInv
<1>9. TextInv'
  <2> SUFFICES ASSUME ~past.overlap, NEW q \in Sends, NEW s \in Sids,
                      q \notin past.cut, sender[q].sid \notin past.archived
               PROVE  IF (ReadOut(q))' /\ s = sender[q].sid THEN (Once(q, s))' ELSE (Nowhere(q, s))'
    BY <1>1, <1>2 DEF TextInv
  <2>1. IF ReadOut(q) /\ s = sender[q].sid THEN Once(q, s) ELSE Nowhere(q, s)
    BY DEF PageInv, TextInv
  <2>2. (ReadOut(q))' <=> ReadOut(q)
    <3>1. \A i \in DOMAIN rx : i \in DOMAIN rx' /\ rx'[i] = rx[i]
      BY <1>2
    <3> QED
      BY <1>1, <1>3, <3>1 DEF ReadOut
  <2>3. (Under(s, q))' = Under(s, q) /\ messages' = messages /\ rows' = rows /\ ((Ended(q))' <=> Ended(q))
    BY <1>2, <1>6 DEF Under
  <2>4. Once(q, s) => (Once(q, s))'
    BY <2>3 DEF Once
  <2>5. Nowhere(q, s) => (Nowhere(q, s))'
    BY <2>3 DEF Nowhere
  <2> QED
    BY <2>1, <2>2, <2>4, <2>5
<1> QED
  BY <1>4, <1>8, <1>9 DEF PageInv

\* The events of a turn that ends.
LEMMA EndTells ==
  ASSUME PageInv, NEW r \in Sends, RunEnds(r)
  PROVE  /\ UNCHANGED <<backend, listed, activeSid, running, messages, target, live, ready, link, sender, rpc,
                        stored, rows>>
         /\ runs[r] = "begun" /\ runs' \in [Sends -> {"none", "queued", "begun", "ended"}]
         /\ runs'[r] = "ended" /\ \A q \in Sends : q # r => runs'[q] = runs[q]
         /\ ~link => rx' = rx
         /\ link => /\ DOMAIN rx' = 1..Len(rx') /\ Len(rx') \in Nat /\ Len(rx') > Len(rx)
                    /\ r \in past'.spoke => Len(rx') - 1 \notin DOMAIN rx /\ Len(rx') - 1 \in DOMAIN rx'
                    /\ \A i \in DOMAIN rx : i \in DOMAIN rx' /\ rx'[i] = rx[i]
                    /\ \A i \in DOMAIN rx' : i \notin DOMAIN rx =>
                         /\ rx'[i].of = r
                         /\ rx'[i].kind = "end" <=> i = Len(rx')
                         /\ rx'[i].kind = "text" <=> r \in past'.spoke /\ i = Len(rx') - 1
         /\ rx' \in Seq(PageEvents) /\ DOMAIN rx = 1..Len(rx) /\ Len(rx) \in Nat
         /\ past' \in [archived : SUBSET Sids, cut : SUBSET Sends, spoke : SUBSET Sends,
                       overlap : BOOLEAN, moves : 0..MaxMoves]
         /\ past'.archived = past.archived /\ past'.cut = past.cut /\ past'.overlap = past.overlap
         /\ past'.spoke = past.spoke \/ past'.spoke = past.spoke \cup {r}
<1>1. r \in past.spoke => runs[r] = "ended"
  BY DEF PageInv, SendInv
<1>2. CASE Says(r, "begun", "ended", <<"end">>) /\ UNCHANGED past
  <2> DEFINE k == <<"end">>
  <2>1. k \in Seq({"start", "text", "end"}) /\ Len(k) = 1 /\ \A i \in 1..1 : k[i] = "end"
    OBVIOUS
  <2>2. Says(r, "begun", "ended", k)
    BY <1>2
  <2> HIDE DEF k
  <2>3. /\ UNCHANGED <<backend, listed, activeSid, running, messages, target, live, ready, link, sender, rpc,
                       stored, rows>>
        /\ runs[r] = "begun" /\ runs' \in [Sends -> {"none", "queued", "begun", "ended"}]
        /\ runs'[r] = "ended" /\ \A q \in Sends : q # r => runs'[q] = runs[q]
        /\ ~link => rx' = rx
        /\ link => /\ DOMAIN rx' = 1..(Len(rx) + Len(k)) /\ Len(rx') = Len(rx) + Len(k)
                   /\ \A i \in DOMAIN rx : i \in DOMAIN rx' /\ rx'[i] = rx[i]
                   /\ \A i \in DOMAIN rx' : i \notin DOMAIN rx =>
                        i - Len(rx) \in 1..Len(k) /\ rx'[i].kind = k[i - Len(rx)] /\ rx'[i].of = r
        /\ rx' \in Seq(PageEvents) /\ DOMAIN rx = 1..Len(rx) /\ Len(rx) \in Nat
    BY <2>1, <2>2, SaysLast
  <2>4. past' = past /\ r \notin past.spoke
    BY <1>1, <1>2, <2>3
  <2>5. past \in [archived : SUBSET Sids, cut : SUBSET Sends, spoke : SUBSET Sends,
                  overlap : BOOLEAN, moves : 0..MaxMoves]
    BY DEF PageInv, WebTypeOK
  <2>6. ASSUME link, NEW i \in DOMAIN rx', i \notin DOMAIN rx
        PROVE  rx'[i].of = r /\ rx'[i].kind = "end" /\ i = Len(rx')
    BY <2>1, <2>3, <2>6
  <2>7. link => DOMAIN rx' = 1..Len(rx') /\ Len(rx') \in Nat /\ Len(rx') > Len(rx)
    BY <2>1, <2>3
  <2> QED
    BY <2>3, <2>4, <2>5, <2>6, <2>7
<1>3. CASE Says(r, "begun", "ended", <<"text", "end">>) /\ past' = [past EXCEPT !.spoke = @ \cup {r}]
  <2> DEFINE k == <<"text", "end">>
  <2>1. k \in Seq({"start", "text", "end"}) /\ Len(k) = 2 /\ k[1] = "text" /\ k[2] = "end"
    OBVIOUS
  <2>2. Says(r, "begun", "ended", k)
    BY <1>3
  <2> HIDE DEF k
  <2>3. /\ UNCHANGED <<backend, listed, activeSid, running, messages, target, live, ready, link, sender, rpc,
                       stored, rows>>
        /\ runs[r] = "begun" /\ runs' \in [Sends -> {"none", "queued", "begun", "ended"}]
        /\ runs'[r] = "ended" /\ \A q \in Sends : q # r => runs'[q] = runs[q]
        /\ ~link => rx' = rx
        /\ link => /\ DOMAIN rx' = 1..(Len(rx) + Len(k)) /\ Len(rx') = Len(rx) + Len(k)
                   /\ \A i \in DOMAIN rx : i \in DOMAIN rx' /\ rx'[i] = rx[i]
                   /\ \A i \in DOMAIN rx' : i \notin DOMAIN rx =>
                        i - Len(rx) \in 1..Len(k) /\ rx'[i].kind = k[i - Len(rx)] /\ rx'[i].of = r
        /\ rx' \in Seq(PageEvents) /\ DOMAIN rx = 1..Len(rx) /\ Len(rx) \in Nat
    BY <2>1, <2>2, SaysLast
  <2>4. /\ past' \in [archived : SUBSET Sids, cut : SUBSET Sends, spoke : SUBSET Sends,
                      overlap : BOOLEAN, moves : 0..MaxMoves]
        /\ past'.archived = past.archived /\ past'.cut = past.cut /\ past'.overlap = past.overlap
        /\ past'.spoke = past.spoke \cup {r}
    BY <1>3 DEF PageInv, WebTypeOK
  <2>5. ASSUME link
        PROVE  /\ DOMAIN rx' = 1..Len(rx') /\ Len(rx') \in Nat /\ Len(rx') = Len(rx) + 2
               /\ Len(rx') - 1 \notin DOMAIN rx /\ Len(rx') - 1 \in DOMAIN rx'
    BY <2>1, <2>3, <2>5
  <2>6. ASSUME link, NEW i \in DOMAIN rx', i \notin DOMAIN rx
        PROVE  /\ rx'[i].of = r
               /\ rx'[i].kind = "end" <=> i = Len(rx')
               /\ rx'[i].kind = "text" <=> i = Len(rx') - 1
    <3>1. /\ i - Len(rx) \in 1..2 /\ rx'[i].kind = k[i - Len(rx)] /\ rx'[i].of = r
          /\ i \in Int /\ Len(rx') = Len(rx) + 2
      BY <2>1, <2>3, <2>5, <2>6
    <3>2. CASE i - Len(rx) = 1
      <4>1. rx'[i].kind = "text" /\ i = Len(rx') - 1 /\ i # Len(rx')
        BY <2>1, <2>3, <3>1, <3>2
      <4> QED
        BY <3>1, <4>1
    <3>3. CASE i - Len(rx) = 2
      <4>1. rx'[i].kind = "end" /\ i = Len(rx') /\ i # Len(rx') - 1
        BY <2>1, <2>3, <3>1, <3>3
      <4> QED
        BY <3>1, <4>1
    <3> QED
      BY <3>1, <3>2, <3>3
  <2>7. r \in past'.spoke
    BY <2>4
  <2>8. link => Len(rx') > Len(rx)
    BY <2>3, <2>5
  <2> QED
    BY <2>3, <2>4, <2>5, <2>6, <2>7, <2>8
<1> QED
  BY <1>2, <1>3 DEF RunEnds

LEMMA EndKeeps == ASSUME PageInv, NEW r \in Sends, RunEnds(r) PROVE PageInv'
<1>1. /\ UNCHANGED <<backend, listed, activeSid, running, messages, target, live, ready, link, sender, rpc,
                     stored, rows>>
      /\ runs[r] = "begun" /\ runs' \in [Sends -> {"none", "queued", "begun", "ended"}]
      /\ runs'[r] = "ended" /\ \A q \in Sends : q # r => runs'[q] = runs[q]
      /\ ~link => rx' = rx
      /\ link => /\ DOMAIN rx' = 1..Len(rx') /\ Len(rx') \in Nat /\ Len(rx') > Len(rx)
                 /\ r \in past'.spoke => Len(rx') - 1 \notin DOMAIN rx /\ Len(rx') - 1 \in DOMAIN rx'
                 /\ \A i \in DOMAIN rx : i \in DOMAIN rx' /\ rx'[i] = rx[i]
                 /\ \A i \in DOMAIN rx' : i \notin DOMAIN rx =>
                      /\ rx'[i].of = r
                      /\ rx'[i].kind = "end" <=> i = Len(rx')
                      /\ rx'[i].kind = "text" <=> r \in past'.spoke /\ i = Len(rx') - 1
      /\ rx' \in Seq(PageEvents) /\ DOMAIN rx = 1..Len(rx) /\ Len(rx) \in Nat
      /\ past' \in [archived : SUBSET Sids, cut : SUBSET Sends, spoke : SUBSET Sends,
                    overlap : BOOLEAN, moves : 0..MaxMoves]
      /\ past'.archived = past.archived /\ past'.cut = past.cut /\ past'.overlap = past.overlap
      /\ past'.spoke = past.spoke \/ past'.spoke = past.spoke \cup {r}
  BY EndTells
<1>2. /\ \A i \in DOMAIN rx : i \in DOMAIN rx' /\ rx'[i] = rx[i]
      /\ \A i \in DOMAIN rx' : rx'[i].of = r \/ (i \in DOMAIN rx /\ rx'[i] = rx[i])
      /\ DOMAIN rx' = 1..Len(rx')
  BY <1>1
<1>3. WebTypeOK' /\ OfflineInv' /\ OutInv' /\ SendInv'
  BY <1>1, <1>2, RunsQuiet
<1>4. sender[r].at = "sent" /\ r \notin past.spoke /\ Unfinished(r)
  BY <1>1 DEF PageInv, SendInv, Unfinished, Ended
<1>5. r \notin past.cut => link
  BY <1>1, <1>4 DEF PageInv, SendInv, Sending
<1>6. \A q \in Sends : q # r => ((Ended(q))' <=> Ended(q))
  BY <1>1, <1>2 DEF Ended
<1>7. \A q \in Sends : (Unfinished(q))' => Unfinished(q)
  BY <1>1, <1>4, <1>6 DEF Unfinished
<1>8. OneInv'
  <2> SUFFICES ASSUME ~past.overlap, NEW q \in Sends, Unfinished(q)
               PROVE  /\ \A p \in Sends : p > q => sender'[p].at = "idle"
                      /\ target' = sender'[q].sid
                      /\ sender'[q].sid \notin past'.archived =>
                           /\ messages'[sender'[q].sid] # <<>>
                           /\ Last(messages'[sender'[q].sid]).of \subseteq {q}
                      /\ q \notin past'.cut => (EventsInOrder(q))'
    BY <1>1, <1>7 DEF OneInv
  <2>1. q = r
    BY <1>4, OneUnderWay
  <2>2. q \notin past.cut => (EventsInOrder(q))'
    <3> SUFFICES ASSUME q \notin past.cut PROVE (EventsInOrder(q))'
      OBVIOUS
    <3>1. link /\ EventsInOrder(r)
      BY <1>4, <1>5, <2>1 DEF PageInv, OneInv
    <3>2. \A i \in DOMAIN rx : rx[i].kind # "end" /\ rx[i].kind # "text"
      BY <1>1, <1>4, <3>1 DEF EventsInOrder
    <3> SUFFICES ASSUME NEW i \in DOMAIN rx'
                 PROVE  /\ rx'[i].kind = "end" <=> i = Len(rx')
                        /\ rx'[i].kind = "text" <=> r \in past'.spoke /\ i = Len(rx') - 1
      BY <1>1, <2>1 DEF EventsInOrder
    <3>3. CASE i \in DOMAIN rx
      <4>1. rx'[i].kind # "end" /\ rx'[i].kind # "text"
        BY <1>2, <3>2, <3>3
      <4>2. i # Len(rx') /\ (r \in past'.spoke => i # Len(rx') - 1)
        BY <1>1, <3>1, <3>3
      <4> QED
        BY <4>1, <4>2
    <3>4. CASE i \notin DOMAIN rx
      BY <1>1, <3>1, <3>4
    <3> QED
      BY <3>3, <3>4
  <2> QED
    BY <1>1, <2>2 DEF PageInv, OneInv
<1>9. TextInv'
  <2> SUFFICES ASSUME ~past.overlap, NEW q \in Sends, NEW s \in Sids,
                      q \notin past.cut, sender[q].sid \notin past.archived
               PROVE  IF (ReadOut(q))' /\ s = sender[q].sid THEN (Once(q, s))' ELSE (Nowhere(q, s))'
    BY <1>1 DEF TextInv
  <2>1. IF ReadOut(q) /\ s = sender[q].sid THEN Once(q, s) ELSE Nowhere(q, s)
    BY DEF PageInv, TextInv
  <2>2. (ReadOut(q))' <=> ReadOut(q)
    <3>1. CASE q # r
      BY <1>1, <1>2, <3>1 DEF ReadOut
    <3>2. CASE q = r
      <4>1. ~ReadOut(q)
        BY <1>4, <3>2 DEF ReadOut
      <4>2. link
        BY <1>5, <3>2
      <4>3. r \in past'.spoke => \E i \in DOMAIN rx' : rx'[i].of = r /\ rx'[i].kind = "text"
        BY <1>1, <4>2
      <4>4. ~(ReadOut(q))'
        BY <3>2, <4>3 DEF ReadOut
      <4> QED
        BY <4>1, <4>4
    <3> QED
      BY <3>1, <3>2
  <2>3. (Under(s, q))' = Under(s, q) /\ messages' = messages /\ rows' = rows
    BY <1>1 DEF Under
  <2>4. ReadOut(q) => ((Ended(q))' <=> Ended(q))
    BY <1>4, <1>6 DEF ReadOut
  <2>5. ReadOut(q) /\ Once(q, s) => (Once(q, s))'
    BY <2>3, <2>4 DEF Once
  <2>6. Nowhere(q, s) => (Nowhere(q, s))'
    BY <2>3 DEF Nowhere
  <2> QED
    BY <2>1, <2>2, <2>5, <2>6
<1> QED
  BY <1>3, <1>8, <1>9 DEF PageInv

-----------------------------------------------------------------------------
\* The event that is read, and the session it is written to if that is listed.
LEMMA ConsumeReads ==
  ASSUME PageInv, Consume
  PROVE  /\ 1 \in DOMAIN rx /\ rx[1].of \in Sends /\ Unfinished(rx[1].of)
         /\ rx[1].kind \in {"start", "text", "end"}
         /\ rx \in Seq(PageEvents) /\ Len(rx) \in Nat /\ DOMAIN rx = 1..Len(rx)
         /\ rx' \in Seq(PageEvents) /\ Len(rx') = Len(rx) - 1 /\ DOMAIN rx' = 1..(Len(rx) - 1)
         /\ \A i \in DOMAIN rx' : i + 1 \in DOMAIN rx /\ rx'[i] = rx[i + 1]
         /\ UNCHANGED <<backend, listed, activeSid, target, ready, link, sender, stored, rows, runs, past>>
         /\ backend = "daemon"
         /\ live' = live \/ live' = NoSend
         /\ target \notin Listed => UNCHANGED <<running, messages, rpc>>
         /\ target \in Listed /\ rx[1].kind = "start"
              => running' = running \cup {target} /\ UNCHANGED <<messages, rpc>>
         /\ target \in Listed /\ rx[1].kind = "text"
              => /\ messages' = [x \in DOMAIN messages \cup {target} |->
                               IF x = target THEN Spoken(WithReply(Cached(target)), rx[1].of) ELSE messages[x]]
                 /\ UNCHANGED <<running, rpc>>
         /\ target \in Listed /\ rx[1].kind = "end"
              => /\ messages' = [x \in DOMAIN messages \cup {target} |->
                               IF x = target THEN WithReply(Cached(target)) ELSE messages[x]]
                 /\ running' = running \ {target}
                 /\ rpc' = rpc \cup {[op |-> "reply", sid |-> target, of |-> Last(WithReply(Cached(target))).of]}
<1>1. /\ rx # <<>> /\ rx' = Tail(rx)
      /\ IF target = NoSid THEN UNCHANGED <<running, messages, live, rpc>>
         ELSE CASE Head(rx).kind = "start" -> ConsumeStart(target)
                [] Head(rx).kind = "text" -> ConsumeText(target, Head(rx).of)
                [] Head(rx).kind = "end" -> ConsumeEnd(target)
      /\ UNCHANGED <<backend, listed, activeSid, target, ready, link, sender, stored, rows, runs, past>>
  BY DEF Consume, hostVars
<1>2. rx \in Seq(PageEvents)
  BY DEF PageInv, WebTypeOK
<1>3. /\ 1 \in DOMAIN rx /\ Head(rx) = rx[1] /\ Len(rx) \in Nat /\ DOMAIN rx = 1..Len(rx)
      /\ rx' \in Seq(PageEvents) /\ Len(rx') = Len(rx) - 1 /\ DOMAIN rx' = 1..(Len(rx) - 1)
      /\ \A i \in DOMAIN rx' : i + 1 \in DOMAIN rx /\ rx'[i] = rx[i + 1]
  BY <1>1, <1>2
<1>4. rx[1].of \in Sends /\ Unfinished(rx[1].of) /\ rx[1].kind \in {"start", "text", "end"}
  BY <1>3, EventWaits
<1>5. backend = "daemon"
  BY <1>4 DEF Unfinished, PageInv, OfflineInv, WebTypeOK
<1>6. CASE target = NoSid
  <2>1. target \notin Listed
    BY <1>6, PageFields, PageAssumption
  <2> QED
    BY <1>1, <1>2, <1>3, <1>4, <1>5, <1>6, <2>1
<1>7. CASE target # NoSid /\ rx[1].kind = "start"
  <2>1. ConsumeStart(target)
    BY <1>1, <1>3, <1>7
  <2> QED
    BY <1>1, <1>2, <1>3, <1>4, <1>5, <1>7, <2>1 DEF ConsumeStart, Alive
<1>8. CASE target # NoSid /\ rx[1].kind = "text"
  <2>1. ConsumeText(target, rx[1].of)
    BY <1>1, <1>3, <1>8
  <2> QED
    BY <1>1, <1>2, <1>3, <1>4, <1>5, <1>8, <2>1 DEF ConsumeText, Alive, Written
<1>9. CASE target # NoSid /\ rx[1].kind = "end"
  <2>1. ConsumeEnd(target)
    BY <1>1, <1>3, <1>9
  <2> QED
    BY <1>1, <1>2, <1>3, <1>4, <1>5, <1>9, <2>1 DEF ConsumeEnd, Alive, Written
<1> QED
  BY <1>4, <1>6, <1>7, <1>8, <1>9

\* What is written, it is written to a session that is listed, at its end.
LEMMA ConsumeWrites ==
  ASSUME PageInv, Consume
  PROVE  /\ running' \subseteq running \cup (Listed \cap {target})
         /\ DOMAIN messages \subseteq DOMAIN messages' /\ DOMAIN messages' \subseteq DOMAIN messages \cup (Listed \cap {target})
         /\ \A x \in DOMAIN messages' : x \in Sids /\ messages'[x] \in Seq(Bubble)
         /\ \A x \in DOMAIN messages \ {target} : messages'[x] = messages[x]
         /\ rpc \subseteq rpc' /\ \A q \in rpc' \ rpc : q.op = "reply" /\ q.sid = target
         /\ rpc' \subseteq [op : {"create", "archive", "reply"}, sid : Sids, of : SUBSET Sends]
<1> DEFINE list == WithReply(Cached(target))
<1>1. /\ rx[1].of \in Sends /\ rx[1].kind \in {"start", "text", "end"}
      /\ target \notin Listed => UNCHANGED <<running, messages, rpc>>
      /\ target \in Listed /\ rx[1].kind = "start"
           => running' = running \cup {target} /\ UNCHANGED <<messages, rpc>>
      /\ target \in Listed /\ rx[1].kind = "text"
           => /\ messages' = [x \in DOMAIN messages \cup {target} |->
                            IF x = target THEN Spoken(list, rx[1].of) ELSE messages[x]]
              /\ UNCHANGED <<running, rpc>>
      /\ target \in Listed /\ rx[1].kind = "end"
           => /\ messages' = [x \in DOMAIN messages \cup {target} |-> IF x = target THEN list ELSE messages[x]]
              /\ running' = running \ {target}
              /\ rpc' = rpc \cup {[op |-> "reply", sid |-> target, of |-> Last(list).of]}
  BY ConsumeReads
<1>2. Cached(target) \in Seq(Bubble)
  <2>1. <<>> \in Seq(Bubble)
    OBVIOUS
  <2> QED
    BY <2>1 DEF Cached, PageInv, WebTypeOK
<1>3. Cached(target) # <<>> => Last(Cached(target)).of \subseteq Sends
  <2>1. Cached(target) # <<>> => Cached(target)[Len(Cached(target))] \in Bubble
    BY <1>2
  <2> QED
    BY <2>1 DEF Last, Bubble
<1>4. list \in Seq(Bubble) /\ list # <<>> /\ Last(list).who = "reply" /\ Last(list).of \subseteq Sends
  <2>1. Sends \in SUBSET Sends
    OBVIOUS
  <2> QED
    BY <1>2, <1>3, <2>1, AtReply
<1> HIDE DEF list
<1>5. Spoken(list, rx[1].of) \in Seq(Bubble)
  BY <1>1, <1>4, AtSpoken
<1>6. /\ running \subseteq Sids /\ \A x \in DOMAIN messages : x \in Sids /\ messages[x] \in Seq(Bubble)
      /\ rpc \subseteq [op : {"create", "archive", "reply"}, sid : Sids, of : SUBSET Sends]
      /\ Listed \subseteq Sids
  BY PageFields DEF PageInv, WebTypeOK
<1>7. CASE target \notin Listed
  BY <1>1, <1>6, <1>7
<1>8. CASE target \in Listed /\ rx[1].kind = "start"
  BY <1>1, <1>6, <1>8
<1>9. CASE target \in Listed /\ rx[1].kind = "text"
  <2>1. /\ DOMAIN messages' = DOMAIN messages \cup {target} /\ messages'[target] = Spoken(list, rx[1].of)
        /\ \A x \in DOMAIN messages \ {target} : messages'[x] = messages[x]
        /\ running' = running /\ rpc' = rpc
    BY <1>1, <1>9
  <2> QED
    BY <1>5, <1>6, <1>9, <2>1
<1>10. CASE target \in Listed /\ rx[1].kind = "end"
  <2> DEFINE new == [op |-> "reply", sid |-> target, of |-> Last(list).of]
  <2>1. /\ DOMAIN messages' = DOMAIN messages \cup {target} /\ messages'[target] = list
        /\ \A x \in DOMAIN messages \ {target} : messages'[x] = messages[x]
        /\ running' \subseteq running /\ rpc' = rpc \cup {new}
    BY <1>1, <1>10
  <2>2. /\ new \in [op : {"create", "archive", "reply"}, sid : Sids, of : SUBSET Sends]
        /\ new.op = "reply" /\ new.sid = target
    BY <1>4, <1>6, <1>10
  <2> HIDE DEF new
  <2> QED
    BY <1>4, <1>6, <1>10, <2>1, <2>2
<1> QED
  BY <1>1, <1>7, <1>8, <1>9, <1>10

\* What is written to the session of the one send under way.
LEMMA ConsumeHome ==
  ASSUME PageInv, Consume, ~past.overlap, NEW r \in Sends, r = rx[1].of,
         sender[r].sid \notin past.archived
  PROVE  /\ target = sender[r].sid /\ target \in Sids /\ target \in DOMAIN messages /\ target \in DOMAIN messages'
         /\ \A x \in DOMAIN messages' : x \in DOMAIN messages
         /\ messages'[target] # <<>> /\ Last(messages'[target]).of \subseteq {r}
         /\ Len(messages[target]) \in Nat /\ Len(messages[target]) > 0
         /\ \A q \in Sends : q # r => At(messages'[target], q) = At(messages[target], q)
         /\ rx[1].kind = "start" => messages'[target] = messages[target] /\ rpc' = rpc
         /\ rx[1].kind = "text" =>
              /\ rpc' = rpc
              /\ At(messages[target], r) = {} =>
                   At(messages'[target], r) = {Len(messages'[target])}
         /\ rx[1].kind = "end" =>
              /\ At(messages'[target], r) = At(messages[target], r)
              /\ \E new : /\ rpc' = rpc \cup {new} /\ new.op = "reply" /\ new.sid = target
                          /\ new.of \subseteq {r}
                          /\ r \in new.of <=> Len(messages[target]) \in At(messages[target], r)
<1> DEFINE list == WithReply(messages[target])
<1>1. Unfinished(r)
  BY ConsumeReads
<1>2. /\ target = sender[r].sid
      /\ messages[target] # <<>> /\ Last(messages[target]).of \subseteq {r}
  BY <1>1 DEF PageInv, OneInv
<1>3. target \in Sids /\ target \in DOMAIN messages /\ target \in Listed
  <2>1. sender[r].at \in Sending /\ sender[r].at # "idle"
    BY <1>1 DEF Unfinished, Sending, PageInv, WebTypeOK
  <2> QED
    BY <1>2, <2>1 DEF PageInv, SendInv
<1>4. Cached(target) = messages[target] /\ messages[target] \in Seq(Bubble)
      /\ DOMAIN messages \cup {target} = DOMAIN messages
  BY <1>3 DEF Cached, PageInv, WebTypeOK
<1>5. Len(messages[target]) \in Nat /\ Len(messages[target]) > 0
  BY <1>2, <1>4
<1>6. /\ list \in Seq(Bubble) /\ list # <<>>
      /\ Last(list).who = "reply" /\ Last(list).of \subseteq {r}
      /\ \A q \in Sends : At(list, q) = At(messages[target], q)
      /\ \A q \in Sends : q \in Last(list).of
           => Len(messages[target]) \in At(messages[target], q) /\ Len(list) = Len(messages[target])
      /\ \A q \in Sends : Len(messages[target]) \in At(messages[target], q) => q \in Last(list).of
  <2>1. {r} \in SUBSET Sends
    OBVIOUS
  <2> QED
    BY <1>2, <1>4, <2>1, AtReply
<1> HIDE DEF list
<1>7. /\ rx[1].kind \in {"start", "text", "end"}
      /\ rx[1].kind = "start" => messages' = messages /\ rpc' = rpc
      /\ rx[1].kind = "text"
           => messages' = [x \in DOMAIN messages |-> IF x = target THEN Spoken(list, r) ELSE messages[x]] /\ rpc' = rpc
      /\ rx[1].kind = "end"
           => /\ messages' = [x \in DOMAIN messages |-> IF x = target THEN list ELSE messages[x]]
              /\ rpc' = rpc \cup {[op |-> "reply", sid |-> target, of |-> Last(list).of]}
  BY <1>3, <1>4, ConsumeReads DEF list
<1>8. CASE rx[1].kind = "start"
  BY <1>2, <1>3, <1>5, <1>7, <1>8
<1>9. CASE rx[1].kind = "text"
  <2>1. /\ Spoken(list, r) \in Seq(Bubble) /\ Spoken(list, r) # <<>>
        /\ Last(Spoken(list, r)).of = Last(list).of \cup {r}
        /\ At(Spoken(list, r), r) = At(list, r) \cup {Len(list)}
        /\ Len(Spoken(list, r)) = Len(list)
        /\ \A q \in Sends : q # r => At(Spoken(list, r), q) = At(list, q)
    BY <1>6, AtSpoken
  <2>2. DOMAIN messages' = DOMAIN messages /\ messages'[target] = Spoken(list, r) /\ rpc' = rpc
    BY <1>3, <1>7, <1>9
  <2>3. At(messages[target], r) = {} => At(messages'[target], r) = {Len(messages'[target])}
    BY <1>6, <2>1, <2>2
  <2>4. Last(messages'[target]).of \subseteq {r} /\ messages'[target] # <<>>
    BY <1>6, <2>1, <2>2
  <2>5. \A q \in Sends : q # r => At(messages'[target], q) = At(messages[target], q)
    BY <1>6, <2>1, <2>2
  <2> QED
    BY <1>2, <1>3, <1>5, <1>9, <2>2, <2>3, <2>4, <2>5
<1>10. CASE rx[1].kind = "end"
  <2> DEFINE new == [op |-> "reply", sid |-> target, of |-> Last(list).of]
  <2>1. DOMAIN messages' = DOMAIN messages /\ messages'[target] = list /\ rpc' = rpc \cup {new}
    BY <1>3, <1>7, <1>10
  <2>2. /\ new.op = "reply" /\ new.sid = target /\ new.of \subseteq {r}
        /\ r \in new.of <=> Len(messages[target]) \in At(messages[target], r)
    BY <1>6
  <2> HIDE DEF new
  <2>3. \E n : /\ rpc' = rpc \cup {n} /\ n.op = "reply" /\ n.sid = target
               /\ n.of \subseteq {r}
               /\ r \in n.of <=> Len(messages[target]) \in At(messages[target], r)
    BY <2>1, <2>2
  <2> QED
    BY <1>2, <1>3, <1>5, <1>6, <1>10, <2>1, <2>3
<1> QED
  BY <1>7, <1>8, <1>9, <1>10

LEMMA ConsumeKeeps == ASSUME PageInv, Consume PROVE PageInv'
<1>0. PICK r \in Sends : r = rx[1].of
  BY ConsumeReads
<1>1. /\ 1 \in DOMAIN rx /\ r \in Sends /\ Unfinished(r)
      /\ rx[1].kind \in {"start", "text", "end"}
      /\ rx \in Seq(PageEvents) /\ Len(rx) \in Nat /\ DOMAIN rx = 1..Len(rx)
      /\ rx' \in Seq(PageEvents) /\ Len(rx') = Len(rx) - 1 /\ DOMAIN rx' = 1..(Len(rx) - 1)
      /\ \A i \in DOMAIN rx' : i + 1 \in DOMAIN rx /\ rx'[i] = rx[i + 1]
      /\ UNCHANGED <<backend, listed, activeSid, target, ready, link, sender, stored, rows, runs, past>>
      /\ backend = "daemon"
      /\ live' = live \/ live' = NoSend
      /\ target \notin Listed => UNCHANGED <<running, messages, rpc>>
  BY <1>0, ConsumeReads
<1>2. /\ running' \subseteq running \cup (Listed \cap {target})
      /\ DOMAIN messages \subseteq DOMAIN messages' /\ DOMAIN messages' \subseteq DOMAIN messages \cup (Listed \cap {target})
      /\ \A x \in DOMAIN messages' : x \in Sids /\ messages'[x] \in Seq(Bubble)
      /\ \A x \in DOMAIN messages \ {target} : messages'[x] = messages[x]
      /\ rpc \subseteq rpc' /\ \A q \in rpc' \ rpc : q.op = "reply" /\ q.sid = target
      /\ rpc' \subseteq [op : {"create", "archive", "reply"}, sid : Sids, of : SUBSET Sends]
  BY ConsumeWrites
<1>3. ~past.overlap /\ sender[r].sid \notin past.archived =>
         /\ target = sender[r].sid /\ target \in Sids /\ target \in DOMAIN messages /\ target \in DOMAIN messages'
         /\ \A x \in DOMAIN messages' : x \in DOMAIN messages
         /\ messages'[target] # <<>> /\ Last(messages'[target]).of \subseteq {r}
         /\ Len(messages[target]) \in Nat /\ Len(messages[target]) > 0
         /\ \A q \in Sends : q # r => At(messages'[target], q) = At(messages[target], q)
         /\ rx[1].kind = "start" => messages'[target] = messages[target] /\ rpc' = rpc
         /\ rx[1].kind = "text" =>
              /\ rpc' = rpc
              /\ At(messages[target], r) = {} =>
                   At(messages'[target], r) = {Len(messages'[target])}
         /\ rx[1].kind = "end" =>
              /\ At(messages'[target], r) = At(messages[target], r)
              /\ \E new : /\ rpc' = rpc \cup {new} /\ new.op = "reply" /\ new.sid = target
                          /\ new.of \subseteq {r}
                          /\ r \in new.of <=> Len(messages[target]) \in At(messages[target], r)
  BY <1>0, ConsumeHome
<1>4. Listed' = Listed
  BY <1>1 DEF Listed
<1>5. WebTypeOK'
  <2>1. running' \subseteq Sids /\ live' \in 0..MaxSends
    BY <1>1, <1>2, PageFields, PageAssumption DEF PageInv, WebTypeOK, NoSend
  <2> QED
    BY <1>1, <1>2, <2>1 DEF PageInv, WebTypeOK
<1>6. OfflineInv'
  BY <1>1 DEF OfflineInv
<1>7. OutInv'
  <2>1. past.archived \cap (DOMAIN messages' \cup running' \cup Listed) = {}
    BY <1>2 DEF PageInv, OutInv, ArchivedStaysOut
  <2>2. \A q \in rpc' : q.op = "archive" => q.sid \in past.archived
    BY <1>2 DEF PageInv, OutInv
  <2> QED
    BY <1>1, <1>4, <2>1, <2>2 DEF PageInv, OutInv, ArchivedStaysOut
<1>8. SendInv'
  <2> SUFFICES ASSUME NEW q \in Sends
               PROVE  /\ runs'[q] # "none" => sender'[q].at = "sent"
                      /\ q \in past'.spoke => runs'[q] = "ended"
                      /\ \A i \in DOMAIN rx' : rx'[i].of = q => runs'[q] \in {"begun", "ended"}
                      /\ sender'[q].at = "idle" => sender'[q].sid = NoSid
                      /\ sender'[q].at # "idle" =>
                           /\ sender'[q].sid \in Sids
                           /\ \A p \in 1..(q - 1) : sender'[p].at # "idle"
                           /\ sender'[q].sid \in past'.archived \cup DOMAIN messages'
                      /\ sender'[q].at \in Sending => sender'[q].sid \in past'.archived \cup Listed'
                      /\ sender'[q].at \in Sending \ {"gate"} /\ runs'[q] # "ended" =>
                           q \in past'.cut \/ link'
                      /\ live' = q => /\ sender'[q].at # "idle"
                                      /\ \A p \in Sends : p > q => sender'[p].at = "idle"
    BY DEF SendInv
  <2>1. /\ runs[q] # "none" => sender[q].at = "sent"
        /\ q \in past.spoke => runs[q] = "ended"
        /\ \A i \in DOMAIN rx : rx[i].of = q => runs[q] \in {"begun", "ended"}
        /\ sender[q].at = "idle" => sender[q].sid = NoSid
        /\ sender[q].at # "idle" =>
             /\ sender[q].sid \in Sids
             /\ \A p \in 1..(q - 1) : sender[p].at # "idle"
             /\ sender[q].sid \in past.archived \cup DOMAIN messages
        /\ sender[q].at \in Sending => sender[q].sid \in past.archived \cup Listed
        /\ sender[q].at \in Sending \ {"gate"} /\ runs[q] # "ended" => q \in past.cut \/ link
        /\ live = q => sender[q].at # "idle" /\ \A p \in Sends : p > q => sender[p].at = "idle"
    BY DEF PageInv, SendInv
  <2>2. \A i \in DOMAIN rx' : rx'[i].of = q => runs'[q] \in {"begun", "ended"}
    BY <1>1, <2>1
  <2>3. live' = q => live = q
    BY <1>1, PageFields DEF NoSend
  <2> QED
    BY <1>1, <1>2, <1>4, <2>1, <2>2, <2>3
<1>9. \A q \in Sends : Ended(q) => (Ended(q))'
  <2>1. DOMAIN rx' = 1..Len(rx')
    BY <1>1
  <2> QED
    BY <1>1, <2>1 DEF Ended
<1>10. \A q \in Sends : (Unfinished(q))' => Unfinished(q)
  BY <1>1, <1>9 DEF Unfinished
<1>11. ~past.overlap => \A i \in DOMAIN rx : rx[i].of = r
  BY <1>1, EventWaits, OneUnderWay
<1>12. OneInv'
  <2> SUFFICES ASSUME ~past.overlap, NEW q \in Sends, Unfinished(q)
               PROVE  /\ \A p \in Sends : p > q => sender'[p].at = "idle"
                      /\ target' = sender'[q].sid
                      /\ sender'[q].sid \notin past'.archived =>
                           /\ messages'[sender'[q].sid] # <<>>
                           /\ Last(messages'[sender'[q].sid]).of \subseteq {q}
                      /\ q \notin past'.cut => (EventsInOrder(q))'
    BY <1>1, <1>10 DEF OneInv
  <2>1. q = r
    BY <1>1, OneUnderWay
  <2>2. sender[q].sid \notin past.archived =>
          messages'[sender[q].sid] # <<>> /\ Last(messages'[sender[q].sid]).of \subseteq {q}
    BY <1>3, <2>1
  <2>3. q \notin past.cut => (EventsInOrder(q))'
    <3> SUFFICES ASSUME q \notin past.cut, NEW i \in DOMAIN rx'
                 PROVE  /\ rx'[i].kind = "end" <=> runs[q] = "ended" /\ i = Len(rx')
                        /\ rx'[i].kind = "text" <=> q \in past.spoke /\ i = Len(rx') - 1
      BY <1>1 DEF EventsInOrder
    <3>1. EventsInOrder(q)
      BY DEF PageInv, OneInv
    <3>2. i + 1 \in DOMAIN rx /\ rx'[i] = rx[i + 1]
      BY <1>1
    <3>3. /\ rx[i + 1].kind = "end" <=> runs[q] = "ended" /\ i + 1 = Len(rx)
          /\ rx[i + 1].kind = "text" <=> q \in past.spoke /\ i + 1 = Len(rx) - 1
      BY <3>1, <3>2 DEF EventsInOrder
    <3>4. (i + 1 = Len(rx) <=> i = Len(rx')) /\ (i + 1 = Len(rx) - 1 <=> i = Len(rx') - 1)
      BY <1>1
    <3> QED
      BY <3>2, <3>3, <3>4
  <2> QED
    BY <1>1, <2>2, <2>3 DEF PageInv, OneInv
<1>13. TextInv'
  <2> SUFFICES ASSUME ~past.overlap, NEW q \in Sends, NEW s \in Sids,
                      q \notin past.cut, sender[q].sid \notin past.archived
               PROVE  IF (ReadOut(q))' /\ s = sender[q].sid THEN (Once(q, s))' ELSE (Nowhere(q, s))'
    BY <1>1 DEF TextInv
  <2>1. IF ReadOut(q) /\ s = sender[q].sid THEN Once(q, s) ELSE Nowhere(q, s)
    BY DEF PageInv, TextInv
  <2>2. rows' = rows
    BY <1>1
  <2>3. CASE q # r
    <3>1. (ReadOut(q))' <=> ReadOut(q)
      BY <1>1, <1>11, <2>3 DEF ReadOut
    <3>2. ReadOut(q) => Ended(q) /\ (Ended(q))'
      <4>1. ReadOut(q) => q \in past.spoke
        BY DEF ReadOut
      <4>2. q \in past.spoke => sender[q].at = "sent"
        BY DEF PageInv, SendInv
      <4>3. ~Unfinished(q)
        BY <1>1, <2>3, OneUnderWay
      <4> QED
        BY <1>9, <4>1, <4>2, <4>3 DEF Unfinished
    <3>3. /\ s \in DOMAIN messages => s \in DOMAIN messages' /\ At(messages'[s], q) = At(messages[s], q)
          /\ s \in DOMAIN messages' => s \in DOMAIN messages
          /\ (Under(s, q))' = Under(s, q)
      <4>1. CASE sender[r].sid \in past.archived
        <5>1. target \notin Listed
          BY <1>1, <4>1 DEF PageInv, OneInv, OutInv, ArchivedStaysOut
        <5>2. messages' = messages /\ rpc' = rpc
          BY <1>1, <5>1
        <5> QED
          BY <5>2 DEF Under
      <4>2. CASE sender[r].sid \notin past.archived
        <5>1. s \in DOMAIN messages => s \in DOMAIN messages' /\ At(messages'[s], q) = At(messages[s], q)
          BY <1>2, <1>3, <2>3, <4>2
        <5>2. s \in DOMAIN messages' => s \in DOMAIN messages
          BY <1>3, <4>2
        <5>3. rx[1].kind = "end" => (Under(s, q))' = Under(s, q)
          BY <1>3, <2>3, <4>2 DEF Under
        <5>4. rx[1].kind # "end" => (Under(s, q))' = Under(s, q)
          BY <1>1, <1>3, <4>2 DEF Under
        <5> QED
          BY <5>1, <5>2, <5>3, <5>4
      <4> QED
        BY <4>1, <4>2
    <3>4. ReadOut(q) /\ Once(q, s) => (Once(q, s))'
      BY <2>2, <3>2, <3>3 DEF Once
    <3>5. Nowhere(q, s) => (Nowhere(q, s))'
      BY <2>2, <3>3 DEF Nowhere
    <3> QED
      BY <1>1, <2>1, <3>1, <3>4, <3>5
  <2>4. CASE q = r
    <3>1. EventsInOrder(r) /\ ~Ended(r) /\ target = sender[r].sid
      BY <1>1, <2>4 DEF PageInv, OneInv, Unfinished
    <3>2. /\ \A i \in DOMAIN rx : rx[i].kind = "end" <=> runs[r] = "ended" /\ i = Len(rx)
          /\ \A i \in DOMAIN rx : rx[i].kind = "text" <=> r \in past.spoke /\ i = Len(rx) - 1
          /\ \A i \in DOMAIN rx : rx[i].of = r
      BY <1>11, <3>1 DEF EventsInOrder
    <3>3. /\ target = sender[r].sid /\ target \in Sids /\ target \in DOMAIN messages /\ target \in DOMAIN messages'
          /\ \A x \in DOMAIN messages' : x \in DOMAIN messages
          /\ rx[1].kind = "start" => messages'[target] = messages[target] /\ rpc' = rpc
          /\ rx[1].kind = "text" =>
               /\ rpc' = rpc
               /\ At(messages[target], r) = {} => At(messages'[target], r) = {Len(messages'[target])}
          /\ rx[1].kind = "end" =>
               /\ At(messages'[target], r) = At(messages[target], r)
               /\ \E new : /\ rpc' = rpc \cup {new} /\ new.op = "reply" /\ new.sid = target
                           /\ new.of \subseteq {r}
                           /\ r \in new.of <=> Len(messages[target]) \in At(messages[target], r)
      BY <1>3, <2>4
    <3>4. s # target => /\ s \in DOMAIN messages' => s \in DOMAIN messages /\ messages'[s] = messages[s]
                        /\ (Under(s, r))' = Under(s, r)
      <4>1. rx[1].kind = "end" /\ s # target => (Under(s, r))' = Under(s, r)
        BY <3>3 DEF Under
      <4>2. rx[1].kind # "end" => (Under(s, r))' = Under(s, r)
        BY <1>1, <3>3 DEF Under
      <4> QED
        BY <1>2, <3>3, <4>1, <4>2
    <3>5. s # target => Nowhere(r, s) /\ (Nowhere(r, s))'
      BY <2>1, <2>2, <2>4, <3>1, <3>4 DEF Nowhere
    <3>6. CASE s # target
      BY <1>1, <2>4, <3>1, <3>5, <3>6
    <3>7. CASE s = target /\ rx[1].kind = "start"
      <4>1. (ReadOut(r))' <=> ReadOut(r)
        <5>1. \A i \in DOMAIN rx : i # 1 => i - 1 \in DOMAIN rx' /\ rx'[i - 1] = rx[i]
          <6> SUFFICES ASSUME NEW i \in DOMAIN rx, i # 1 PROVE i - 1 \in DOMAIN rx' /\ rx'[i - 1] = rx[i]
            OBVIOUS
          <6>1. i - 1 \in DOMAIN rx' /\ (i - 1) + 1 = i
            BY <1>1
          <6> QED
            BY <1>1, <6>1
        <5> QED
          BY <1>1, <3>7, <5>1 DEF ReadOut
      <4>2. ~(Ended(r))'
        <5>1. CASE runs[r] # "ended"
          BY <1>1, <5>1 DEF Ended
        <5>2. CASE runs[r] = "ended"
          <6>1. 1 # Len(rx)
            BY <1>1, <3>2, <3>7, <5>2
          <6>2. 1 \in DOMAIN rx' /\ 1 + 1 \in DOMAIN rx /\ rx'[1] = rx[1 + 1] /\ 1 \in 1..Len(rx')
            BY <1>1, <6>1
          <6>3. rx'[1].of = r
            BY <3>2, <6>2
          <6> QED
            BY <6>2, <6>3 DEF Ended
        <5> QED
          BY <5>1, <5>2
      <4>3. messages'[s] = messages[s] /\ s \in DOMAIN messages' /\ s \in DOMAIN messages /\ (Under(s, r))' = Under(s, r)
        BY <3>3, <3>7 DEF Under
      <4>4. Once(r, s) => (Once(r, s))'
        BY <2>2, <3>1, <4>2, <4>3 DEF Once
      <4>5. Nowhere(r, s) => (Nowhere(r, s))'
        BY <2>2, <4>3 DEF Nowhere
      <4> QED
        BY <1>1, <2>1, <2>4, <4>1, <4>4, <4>5
    <3>8. CASE s = target /\ rx[1].kind = "text"
      <4>1. r \in past.spoke /\ Len(rx) = 2
        BY <1>1, <3>2, <3>8
      <4>2. ~ReadOut(r)
        BY <1>1, <3>2, <3>8 DEF ReadOut
      <4>3. Nowhere(r, s)
        BY <2>1, <2>4, <4>2
      <4>4. DOMAIN rx' = 1..1 /\ rx'[1] = rx[1 + 1] /\ 1 + 1 = 2 /\ 2 \in DOMAIN rx
            /\ 1 \in DOMAIN rx' /\ 1 \in 1..Len(rx')
        BY <1>1, <4>1
      <4>5. rx'[1].of = r /\ rx'[1].kind # "text"
        BY <3>2, <4>1, <4>4
      <4>6. (ReadOut(r))'
        BY <1>1, <4>1, <4>4, <4>5 DEF ReadOut
      <4>7. ~(Ended(r))'
        BY <4>4, <4>5 DEF Ended
      <4>8. At(messages[s], r) = {} /\ At(rows[s], r) = {} /\ Under(s, r) = {}
        BY <3>3, <3>8, <4>3 DEF Nowhere
      <4>9. At(messages'[s], r) = {Len(messages'[s])} /\ s \in DOMAIN messages' /\ (Under(s, r))' = Under(s, r)
        BY <3>3, <3>8, <4>8 DEF Under
      <4>10. (Once(r, s))'
        BY <2>2, <4>7, <4>8, <4>9 DEF Once
      <4> QED
        BY <1>1, <2>4, <3>1, <3>8, <4>6, <4>10
    <3>9. CASE s = target /\ rx[1].kind = "end"
      <4>1. runs[r] = "ended" /\ Len(rx) = 1
        BY <1>1, <3>2, <3>9
      <4>2. DOMAIN rx' = {} /\ Len(rx') = 0 /\ \A i \in DOMAIN rx : i = 1
        BY <1>1, <4>1
      <4>3. (Ended(r))'
        BY <1>1, <4>1, <4>2 DEF Ended
      <4>4. ((ReadOut(r))' <=> r \in past.spoke) /\ (ReadOut(r) <=> r \in past.spoke)
        BY <1>1, <3>9, <4>2 DEF ReadOut
      <4>5. PICK new : /\ rpc' = rpc \cup {new} /\ new.op = "reply" /\ new.sid = target
                       /\ new.of \subseteq {r}
                       /\ r \in new.of <=> Len(messages[target]) \in At(messages[target], r)
        BY <3>3, <3>9
      <4>6. At(messages'[s], r) = At(messages[s], r) /\ s \in DOMAIN messages /\ s \in DOMAIN messages'
        BY <3>3, <3>9
      <4>7. CASE ReadOut(r)
        <5>1. Once(r, s)
          BY <2>1, <2>4, <3>1, <3>9, <4>7
        <5>2. Len(messages[s]) \in At(messages[s], r) /\ At(rows[s], r) = {} /\ Under(s, r) = {}
              /\ \E i \in At(messages[s], r) : At(messages[s], r) = {i}
          BY <3>1, <5>1 DEF Once
        <5>3. (Under(s, r))' = {new}
          BY <3>9, <4>5, <5>2 DEF Under
        <5>4. (Once(r, s))'
          BY <2>2, <4>3, <4>6, <5>2, <5>3 DEF Once
        <5> QED
          BY <1>1, <2>4, <3>1, <3>9, <4>4, <4>7, <5>4
      <4>8. CASE ~ReadOut(r)
        <5>1. Nowhere(r, s)
          BY <2>1, <2>4, <4>8
        <5>2. At(messages[s], r) = {} /\ At(rows[s], r) = {} /\ Under(s, r) = {}
          BY <4>6, <5>1 DEF Nowhere
        <5>3. (Under(s, r))' = {}
          BY <3>9, <4>5, <5>2 DEF Under
        <5>4. (Nowhere(r, s))'
          BY <2>2, <4>6, <5>2, <5>3 DEF Nowhere
        <5> QED
          BY <1>1, <2>4, <4>4, <4>8, <5>4
      <4> QED
        BY <4>7, <4>8
    <3> QED
      BY <1>1, <3>6, <3>7, <3>8, <3>9
  <2> QED
    BY <2>3, <2>4
<1> QED
  BY <1>5, <1>6, <1>7, <1>8, <1>12, <1>13 DEF PageInv

-----------------------------------------------------------------------------
\* Whatever the page, its threads, the connection and the daemon do.
LEMMA PageSteps == PageInv /\ [WebNext]_webVars => PageInv'
<1> SUFFICES ASSUME PageInv, [WebNext]_webVars PROVE PageInv'
  OBVIOUS
<1>1. CASE PageUser
  BY <1>1, CreateKeeps, SelectKeeps, ArchiveKeeps, SendKeeps, AbortKeeps DEF PageUser
<1>2. CASE Reprobe
  BY <1>2, ReprobeKeeps
<1>3. CASE \E r \in Sends : SendStep(r)
  BY <1>3, ThreadKeeps
<1>4. CASE \E q \in rpc : RpcStep(q)
  BY <1>4, RpcKeeps
<1>5. CASE SubscribeEvents \/ MarkReady \/ Drop
  BY <1>5, LinkKeeps
<1>6. CASE HostRuns
  BY <1>6, BeginKeeps, EndKeeps DEF HostRuns
<1>7. CASE Consume
  BY <1>7, ConsumeKeeps
<1>8. CASE UNCHANGED webVars
  <2>1. UNCHANGED <<backend, listed, activeSid, running, messages, target, live, ready, link, sender, rpc,
                    stored, rows, runs, rx, past>>
    BY <1>8 DEF webVars, pageVars, hostVars
  <2>2. Listed' = Listed
    BY <2>1 DEF Listed
  <2>3. WebTypeOK' /\ OfflineInv' /\ OutInv'
    BY <2>1, <2>2 DEF PageInv, WebTypeOK, OfflineInv, OutInv, ArchivedStaysOut
  <2>4. SendInv' /\ OneInv' /\ TextInv'
    <3>1. ASSUME NEW x \in Sids, NEW r \in Sends PROVE (Under(x, r))' = Under(x, r)
      BY <2>1 DEF Under
    <3>2. \A r \in Sends : sender[r].at \in Sending \ {"gate"} /\ runs[r] # "ended" => r \in past'.cut \/ link'
      BY <2>1, PageLinked
    <3> QED
      BY <2>1, <2>2, <3>1, <3>2, PageQuiet
  <2> QED
    BY <2>3, <2>4 DEF PageInv
<1> QED
  BY <1>1, <1>2, <1>3, <1>4, <1>5, <1>6, <1>7, <1>8 DEF WebNext

\* A text that is once where it belongs is counted once.
LEMMA PageCounts == PageInv => PageTrue
<1> SUFFICES ASSUME PageInv PROVE PageTrue
  OBVIOUS
<1>1. ArchivedStaysOut
  BY DEF PageInv, OutInv
<1>2. ASSUME NEW r \in past.spoke, Ended(r), ~Astray(r), NEW s \in Sids
      PROVE  LET here == IF s = sender[r].sid THEN 1 ELSE 0
             IN /\ s \in DOMAIN messages => Copies(messages[s], r) = here
                /\ Copies(rows[s], r)
                     + Cardinality({q \in rpc : q.op = "reply" /\ q.sid = s /\ r \in q.of}) = here
  <2>1. r \in Sends /\ ~past.overlap /\ r \notin past.cut /\ sender[r].sid \notin past.archived
    BY <1>2, PageFields DEF Astray
  <2>2. ReadOut(r)
    <3>1. DOMAIN rx = 1..Len(rx)
      BY DEF PageInv, WebTypeOK
    <3> QED
      BY <1>2, <3>1 DEF ReadOut, Ended
  <2>3. IF s = sender[r].sid THEN Once(r, s) ELSE Nowhere(r, s)
    BY <2>1, <2>2 DEF PageInv, TextInv
  <2>4. /\ s \in DOMAIN messages => Copies(messages[s], r) = Cardinality(At(messages[s], r))
        /\ Copies(rows[s], r) = Cardinality(At(rows[s], r))
        /\ {q \in rpc : q.op = "reply" /\ q.sid = s /\ r \in q.of} = Under(s, r)
    BY DEF Copies, At, Under
  <2>5. Cardinality({}) = 0 /\ \A x : Cardinality({x}) = 1
    BY FS_EmptySet, FS_Singleton
  <2>6. CASE s = sender[r].sid
    <3>1. /\ \E i \in At(messages[s], r) : At(messages[s], r) = {i}
          /\ \/ Under(s, r) = {} /\ \E i \in At(rows[s], r) : At(rows[s], r) = {i}
             \/ At(rows[s], r) = {} /\ \E q \in Under(s, r) : Under(s, r) = {q}
      BY <1>2, <2>3, <2>6 DEF Once
    <3>2. Cardinality(At(messages[s], r)) = 1
      BY <2>5, <3>1
    <3>3. \/ Cardinality(Under(s, r)) = 0 /\ Cardinality(At(rows[s], r)) = 1
          \/ Cardinality(Under(s, r)) = 1 /\ Cardinality(At(rows[s], r)) = 0
      BY <2>5, <3>1
    <3>4. Cardinality(At(rows[s], r)) + Cardinality(Under(s, r)) = 1
      BY <3>3
    <3> QED
      BY <2>4, <2>6, <3>2, <3>4
  <2>7. CASE s # sender[r].sid
    <3>1. /\ s \in DOMAIN messages => Cardinality(At(messages[s], r)) = 0
          /\ Cardinality(At(rows[s], r)) = 0 /\ Cardinality(Under(s, r)) = 0
      BY <2>3, <2>5, <2>7 DEF Nowhere
    <3>2. Cardinality(At(rows[s], r)) + Cardinality(Under(s, r)) = 0
      BY <3>1
    <3> QED
      BY <2>4, <2>7, <3>1, <3>2
  <2> QED
    BY <2>6, <2>7
<1>3. ReplyAtHome
  BY <1>2 DEF ReplyAtHome
<1> QED
  BY <1>1, <1>3 DEF PageTrue

THEOREM WebTyped == WebSpec => []WebTypeOK
<1>1. PageInv => WebTypeOK
  BY DEF PageInv
<1> QED
  BY <1>1, PageInit, PageSteps, PTL DEF WebSpec

THEOREM PageIsTrue == WebSpec => []PageTrue
BY PageInit, PageSteps, PageCounts, PTL DEF WebSpec
=============================================================================
