--------------------------- MODULE ModelStreamProofs ---------------------------
(***************************************************************************)
(* For any number of providers, attempts, calls and lines: the consumer of *)
(* a model call is handed one reply, and an abort stops the requests.      *)
(***************************************************************************)
EXTENDS ModelStream, FiniteSetTheorems, TLAPS

\* Only a call with an attempt left waits for it.
Waits == at = "backoff" => attempt < MaxAttempts

\* Text comes from the request that is under way, calls come with the end, and
\* nothing follows a terminal event: what OneReply needs of a call in progress.
Said ==
  /\ emitted => leaked /\ at \in {"reading", "ended"}
  /\ \A i \in 1..Len(out) :
       /\ Terminal(out[i]) => i = Len(out) /\ at = "ended"
       /\ out[i].kind = "text" =>
            emitted /\ at \in {"reading", "ended"} /\ out[i].from = <<provider, attempt>>
       /\ out[i].kind = "call" => at = "ended" /\ out[i].from = <<provider, attempt>>
  /\ at = "ended" => out # <<>> /\ Terminal(out[Len(out)])

\* The thread that sent a request after an abort does not come to send another.
Stopped == late = 0 \/ (late = 1 /\ signal /\ at # "send")

\* What a sequence holds after others were put at its end.
LEMMA Joined ==
  ASSUME NEW S, NEW s \in Seq(S), NEW t \in Seq(S)
  PROVE  /\ s \o t \in Seq(S)
         /\ Len(s \o t) = Len(s) + Len(t)
         /\ \A i \in 1..Len(s \o t) :
              \/ i \in 1..Len(s) /\ (s \o t)[i] = s[i]
              \/ i - Len(s) \in 1..Len(t) /\ (s \o t)[i] = t[i - Len(s)]
         /\ t # <<>> => s \o t # <<>> /\ (s \o t)[Len(s \o t)] = t[Len(t)]
OBVIOUS

\* Every event of the model is one.
LEMMA EventTyping ==
  ASSUME provider \in 1..LastProvider, attempt \in 0..MaxAttempts,
         NEW kind \in Deltas \cup StopReasons \cup {"error"}
  PROVE  /\ Event(kind) \in Events
         /\ Event(kind).kind = kind /\ Event(kind).from = <<provider, attempt>>
BY DEF Event, Events

\* The end of a stream: some calls, then one terminal event.
LEMMA FlushedTyping ==
  ASSUME StreamTypeOK, NEW reason \in StopReasons
  PROVE  /\ Flushed(reason) \in Seq(Events) /\ Flushed(reason) # <<>>
         /\ Flushed(reason)[Len(Flushed(reason))] = Event(reason)
         /\ \A i \in 1..Len(Flushed(reason)) :
              \/ i = Len(Flushed(reason)) /\ Flushed(reason)[i] = Event(reason)
              \/ Flushed(reason)[i] = Event("call")
<1> DEFINE n == Cardinality(Gathered)
           calls == [i \in 1..n |-> Event("call")]
<1>1. n \in Nat
  <2>1. Gathered \subseteq Indexes BY DEF Gathered
  <2>. QED BY <2>1, StreamAssumption, FS_Subset, FS_CardinalityType
<1>2. Event("call") \in Events /\ Event(reason) \in Events
  BY EventTyping DEF StreamTypeOK, Deltas, StopReasons
<1> HIDE DEF n
<1>3. calls \in Seq(Events) /\ Len(calls) = n
  BY <1>1, <1>2
<1>4. Flushed(reason) = calls \o <<Event(reason)>> BY DEF Flushed, n
<1>5. \A i \in 1..n : calls[i] = Event("call") OBVIOUS
<1> HIDE DEF calls
<1>. QED BY <1>1, <1>2, <1>3, <1>4, <1>5

-----------------------------------------------------------------------------
\* Handing out some events and ending keeps the types.
LEMMA FinishTyping ==
  ASSUME StreamTypeOK, NEW events \in Seq(Events), Finish(events)
  PROVE  out' \in Seq(Events) /\ at' \in Places /\ provider' \in 1..LastProvider
         /\ attempt' \in 0..MaxAttempts
BY Joined DEF Finish, Emit, StreamTypeOK, Places

\* The types after an attempt that fails.
LEMMA FailsTyping ==
  ASSUME StreamTypeOK, Fails
  PROVE  StreamTypeOK' /\ Waits'
<1>1. <<Event("error")>> \in Seq(Events)
  BY EventTyping DEF StreamTypeOK
<1>2. CASE Finish(<<Event("error")>>)
  BY <1>1, <1>2, FinishTyping DEF Fails, StreamTypeOK, Waits, Finish
<1>3. CASE ~leaked /\ provider < LastProvider /\ provider' = provider + 1 /\ attempt' = 0
           /\ at' = "call" /\ UNCHANGED out
  BY <1>3, StreamAssumption DEF Fails, StreamTypeOK, Places, Waits
<1>. QED BY <1>2, <1>3 DEF Fails

\* The types after the last attempt failed.
LEMMA FailedTyping ==
  ASSUME StreamTypeOK, NEW retryable \in BOOLEAN, Failed(retryable)
  PROVE  StreamTypeOK' /\ Waits'
BY FailsTyping DEF Failed, StreamTypeOK, Places, Waits

\* The call's state keeps its types.
THEOREM Typing == StreamSpec => [](StreamTypeOK /\ Waits)
<1>0. NoCalls \in [Indexes -> {"none", "part", "whole"}]
  BY DEF NoCalls
<1>1. StreamInit => StreamTypeOK /\ Waits
  <2>1. <<>> \in Seq(Events) OBVIOUS
  <2>2. 1 \in 1..LastProvider /\ 0 \in 0..MaxAttempts /\ 0 \in 0..MaxLines
    BY StreamAssumption
  <2>3. 0 \in Nat OBVIOUS
  <2>. QED BY <1>0, <2>1, <2>2, <2>3, Zenon DEF StreamInit, StreamTypeOK, Places, StopReasons, Waits
<1>2. StreamTypeOK /\ Waits /\ [StreamNext]_streamVars => StreamTypeOK' /\ Waits'
  <2> SUFFICES ASSUME StreamTypeOK, Waits, [StreamNext]_streamVars PROVE StreamTypeOK' /\ Waits'
    OBVIOUS
  <2>1. <<Event("aborted")>> \in Seq(Events)
    BY EventTyping DEF StreamTypeOK, StopReasons
  <2>2. CASE StartProvider
    <3>1. CASE Finish(<<Event("aborted")>>)
      BY <2>1, <2>2, <3>1, FinishTyping DEF StartProvider, StreamTypeOK, Waits, Finish
    <3>2. CASE ~Finish(<<Event("aborted")>>)
      BY <2>2, <3>2, StreamAssumption DEF StartProvider, StreamTypeOK, Places, Waits
    <3>. QED BY <3>1, <3>2
  <2>3. CASE Send
    <3>1. 0 \in 0..MaxLines /\ late' \in Nat
      BY <2>3, StreamAssumption DEF Send, StreamTypeOK
    <3>. QED BY <1>0, <2>3, <3>1 DEF Send, StreamTypeOK, Places, StopReasons, Waits
  <2>4. CASE Accepted
    BY <2>4 DEF Accepted, StreamTypeOK, Places, Waits
  <2>5. ASSUME NEW retryable \in BOOLEAN, StatusFails(retryable) PROVE StreamTypeOK' /\ Waits'
    BY <2>5, FailedTyping DEF StatusFails
  <2>6. ASSUME NEW retryable \in BOOLEAN, TransportFails(retryable) PROVE StreamTypeOK' /\ Waits'
    <3>1. CASE signal
      BY <2>1, <2>6, <3>1, FinishTyping DEF TransportFails, StreamTypeOK, Waits, Finish
    <3>2. CASE ~signal
      BY <2>6, <3>2, FailedTyping DEF TransportFails
    <3>. QED BY <3>1, <3>2
  <2>7. ASSUME NEW reason \in StopReasons, Ends(reason) PROVE StreamTypeOK' /\ Waits'
    <3>1. Flushed(reason) \in Seq(Events) BY FlushedTyping
    <3>. QED BY <2>7, <3>1, FinishTyping DEF Ends, StreamTypeOK, Waits, Finish
  <2>8. CASE EndOfStream
    BY <2>7, <2>8 DEF EndOfStream, StreamTypeOK
  <2>9. CASE AbortSeen
    BY <2>7, <2>9 DEF AbortSeen, StopReasons
  <2>10. CASE Line
    <3>1. lines' \in 0..MaxLines /\ UNCHANGED <<flow, signal, late>>
      BY <2>10, StreamAssumption DEF Line, StreamTypeOK
    <3>2. ASSUME NEW kind \in {"text", "reasoning"}, Delta(kind) PROVE StreamTypeOK' /\ Waits'
      <4>1. <<Event(kind)>> \in Seq(Events) BY EventTyping DEF StreamTypeOK, Deltas
      <4>2. out \o <<Event(kind)>> \in Seq(Events) BY <4>1, Joined DEF StreamTypeOK
      <4>. QED BY <3>1, <3>2, <4>2 DEF Delta, Emit, StreamTypeOK, flow, Waits
    <3>3. ASSUME NEW c \in Indexes, CallPiece(c) PROVE StreamTypeOK' /\ Waits'
      BY <3>1, <3>3 DEF CallPiece, StreamTypeOK, flow, Waits
    <3>4. ASSUME NEW reason \in {"tool_use", "max_tokens"}, FinishReason(reason) PROVE StreamTypeOK' /\ Waits'
      BY <3>1, <3>4 DEF FinishReason, StreamTypeOK, flow, Waits, StopReasons
    <3>5. CASE UNCHANGED <<out, leaked, emitted, parser, stop>>
      BY <3>1, <3>5 DEF StreamTypeOK, flow, Waits
    <3>. QED BY <2>10, <3>2, <3>3, <3>4, <3>5 DEF Line
  <2>11. CASE ReadFails
    BY <2>11, FailedTyping DEF ReadFails
  <2>12. CASE Retry
    <3>1. CASE Finish(<<Event("aborted")>>)
      BY <2>1, <2>12, <3>1, FinishTyping DEF Retry, StreamTypeOK, Waits, Finish
    <3>2. CASE ~Finish(<<Event("aborted")>>)
      BY <2>12, <3>2, StreamAssumption DEF Retry, StreamTypeOK, Places, Waits
    <3>. QED BY <3>1, <3>2
  <2>13. CASE Abort
    BY <2>13 DEF Abort, StreamTypeOK, flow, Waits
  <2>14. CASE UNCHANGED streamVars
    BY <2>14 DEF StreamTypeOK, streamVars, flow, Waits
  <2>. QED BY <2>2, <2>3, <2>4, <2>5, <2>6, <2>8, <2>9, <2>10, <2>11, <2>12, <2>13, <2>14
       DEF StreamNext, Thread, Answered, Reads
<1>. QED BY <1>1, <1>2, PTL DEF StreamSpec

-----------------------------------------------------------------------------
\* Ending with some events after which there is one terminal event keeps Said,
\* if nothing terminal was handed out before and what is new is of this request.
LEMMA FinishSaid ==
  ASSUME StreamTypeOK, Said, at # "ended",
         NEW events \in Seq(Events), events # <<>>, Finish(events),
         \A i \in 1..Len(events) :
           \/ i = Len(events) /\ Terminal(events[i])
           \/ events[i].kind = "call" /\ events[i].from = <<provider, attempt>>,
         Terminal(events[Len(events)]),
         emitted' => emitted, emitted => emitted', leaked => leaked'
  PROVE  Said'
<1>1. /\ Len(out') = Len(out) + Len(events)
      /\ \A i \in 1..Len(out') :
           \/ i \in 1..Len(out) /\ out'[i] = out[i]
           \/ i - Len(out) \in 1..Len(events) /\ out'[i] = events[i - Len(out)]
      /\ out' # <<>> /\ out'[Len(out')] = events[Len(events)]
  BY Joined DEF Finish, Emit, StreamTypeOK
<1>2. at' = "ended" /\ provider' = provider /\ attempt' = attempt
  BY DEF Finish
<1>3. Len(out) \in Nat /\ Len(events) \in Nat /\ Len(events) > 0
  BY DEF StreamTypeOK
<1>4. Terminal(out'[Len(out')])
  BY <1>1
<1>5. ASSUME NEW i \in 1..Len(out')
      PROVE  /\ Terminal(out[i])' => i = Len(out')
             /\ out'[i].kind = "text" => emitted /\ out'[i].from = <<provider, attempt>>
             /\ out'[i].kind = "call" => out'[i].from = <<provider, attempt>>
  <2>1. CASE i \in 1..Len(out) /\ out'[i] = out[i]
    BY <2>1 DEF Said, Terminal, Deltas
  <2>2. CASE i - Len(out) \in 1..Len(events) /\ out'[i] = events[i - Len(out)]
    <3>1. PICK k \in 1..Len(events) : k = i - Len(out) /\ out'[i] = events[k]
      BY <2>2
    <3>2. i = Len(out) + k
      BY <1>3, <3>1
    <3>3. CASE k = Len(events) /\ Terminal(events[k])
      BY <1>1, <3>1, <3>2, <3>3 DEF Terminal, Deltas
    <3>4. CASE events[k].kind = "call" /\ events[k].from = <<provider, attempt>>
      BY <3>1, <3>4 DEF Terminal, Deltas
    <3>. QED BY <3>3, <3>4
  <2>. QED BY <1>1, <2>1, <2>2
<1>6. emitted' => leaked'
  BY DEF Said
<1>. QED BY <1>1, <1>2, <1>4, <1>5, <1>6 DEF Said, Terminal, Deltas

\* The same for one terminal event alone.
LEMMA FinishAlone ==
  ASSUME StreamTypeOK, Said, at # "ended", NEW kind \in StopReasons \cup {"error"},
         Finish(<<Event(kind)>>), UNCHANGED <<emitted, leaked>>
  PROVE  Said'
<1>1. Event(kind) \in Events /\ Event(kind).kind = kind
  BY EventTyping DEF StreamTypeOK
<1>2. Terminal(Event(kind))
  BY <1>1 DEF Terminal, Deltas, StopReasons
<1> DEFINE events == <<Event(kind)>>
<1>3. /\ events \in Seq(Events) /\ events # <<>> /\ Len(events) = 1
      /\ events[1] = Event(kind)
  BY <1>1
<1> HIDE DEF events
<1>4. Finish(events)
  BY DEF events
<1>. QED BY <1>2, <1>3, <1>4, FinishSaid

\* The thread moves on and hands nothing out, from a place where nothing was said.
LEMMA QuietSaid ==
  ASSUME StreamTypeOK, Said, at # "ended", at' # "ended", UNCHANGED out,
         ~emitted, ~emitted'
  PROVE  Said'
BY DEF Said, Terminal

\* What was said stays what was said when an attempt fails.
LEMMA FailsSaid ==
  ASSUME StreamTypeOK, Said, at # "ended", Fails
  PROVE  Said'
<1>1. CASE Finish(<<Event("error")>>)
  BY <1>1, FinishAlone DEF Fails
<1>2. CASE ~leaked /\ at' = "call" /\ UNCHANGED out
  BY <1>2, QuietSaid DEF Fails, Said
<1>. QED BY <1>1, <1>2 DEF Fails

\* The same of the last attempt.
LEMMA FailedSaid ==
  ASSUME StreamTypeOK, Said, at # "ended", NEW retryable \in BOOLEAN, Failed(retryable)
  PROVE  Said'
BY FailsSaid, QuietSaid DEF Failed

\* What a call says is one reply (the comment at OneReply).
THEOREM SpeaksOnce == StreamSpec => []OneReply
<1>1. StreamInit => Said
  BY DEF StreamInit, Said
<1>2. StreamTypeOK /\ Said /\ [StreamNext]_streamVars => Said'
  <2> SUFFICES ASSUME StreamTypeOK, Said, [StreamNext]_streamVars PROVE Said'
    OBVIOUS
  <2>1. CASE StartProvider
    <3>1. CASE Finish(<<Event("aborted")>>)
      BY <2>1, <3>1, FinishAlone DEF StartProvider, StopReasons
    <3>2. CASE ~Finish(<<Event("aborted")>>)
      BY <2>1, <3>2, QuietSaid DEF StartProvider, Said
    <3>. QED BY <3>1, <3>2
  <2>2. CASE Send
    BY <2>2, QuietSaid DEF Send, Said
  <2>3. CASE Accepted
    BY <2>3, QuietSaid DEF Accepted, Said
  <2>4. ASSUME NEW retryable \in BOOLEAN, StatusFails(retryable) PROVE Said'
    BY <2>4, FailedSaid DEF StatusFails
  <2>5. ASSUME NEW retryable \in BOOLEAN, TransportFails(retryable) PROVE Said'
    <3>1. CASE signal
      BY <2>5, <3>1, FinishAlone DEF TransportFails, StopReasons
    <3>2. CASE ~signal
      BY <2>5, <3>2, FailedSaid DEF TransportFails
    <3>. QED BY <3>1, <3>2
  <2>6. ASSUME at = "reading", NEW reason \in StopReasons, Ends(reason) PROVE Said'
    <3>1. Event(reason).kind = reason /\ Terminal(Event(reason))
      BY EventTyping DEF StreamTypeOK, Terminal, Deltas, StopReasons
    <3>2. Event("call").kind = "call" /\ Event("call").from = <<provider, attempt>>
      BY EventTyping DEF StreamTypeOK, Deltas
    <3> DEFINE events == Flushed(reason)
    <3>3. /\ events \in Seq(Events) /\ events # <<>>
          /\ Terminal(events[Len(events)])
          /\ \A i \in 1..Len(events) :
               \/ i = Len(events) /\ Terminal(events[i])
               \/ events[i].kind = "call" /\ events[i].from = <<provider, attempt>>
      BY <3>1, <3>2, FlushedTyping
    <3>4. Finish(events) /\ (leaked => leaked') /\ UNCHANGED emitted
      BY <2>6 DEF Ends
    <3> HIDE DEF events
    <3>. QED BY <2>6, <3>3, <3>4, FinishSaid
  <2>7. CASE EndOfStream
    BY <2>6, <2>7 DEF EndOfStream, StreamTypeOK
  <2>8. CASE AbortSeen
    BY <2>6, <2>8 DEF AbortSeen, StopReasons
  <2>9. CASE Line
    <3>1. at = "reading" /\ UNCHANGED flow
      BY <2>9 DEF Line
    <3>2. ASSUME NEW kind \in {"text", "reasoning"}, Delta(kind) PROVE Said'
      <4>1. /\ Event(kind) \in Events /\ Event(kind).kind = kind
            /\ Event(kind).from = <<provider, attempt>> /\ ~Terminal(Event(kind))
        BY EventTyping DEF StreamTypeOK, Deltas, Terminal
      <4>2. /\ Len(out') = Len(out) + 1
            /\ \A i \in 1..Len(out') :
                 (i \in 1..Len(out) /\ out'[i] = out[i]) \/ out'[i] = Event(kind)
        BY <3>2, <4>1 DEF Delta, Emit, StreamTypeOK
      <4>3. \A i \in 1..Len(out) : ~Terminal(out[i]) /\ out[i].kind # "call"
        BY <3>1 DEF Said
      <4>. QED BY <3>1, <3>2, <4>1, <4>2, <4>3 DEF Delta, Said, Terminal, Deltas, flow
    <3>3. CASE UNCHANGED <<out, leaked, emitted>>
      BY <3>1, <3>3 DEF Said, Terminal, flow
    <3>. QED BY <2>9, <3>2, <3>3 DEF Line, CallPiece, FinishReason
  <2>10. CASE ReadFails
    BY <2>10, FailedSaid DEF ReadFails
  <2>11. CASE Retry
    <3>1. CASE Finish(<<Event("aborted")>>)
      BY <2>11, <3>1, FinishAlone DEF Retry, StopReasons
    <3>2. CASE ~Finish(<<Event("aborted")>>)
      BY <2>11, <3>2, QuietSaid DEF Retry, Said
    <3>. QED BY <3>1, <3>2
  <2>12. CASE Abort
    BY <2>12 DEF Abort, Said, Terminal, flow
  <2>13. CASE UNCHANGED streamVars
    BY <2>13 DEF Said, Terminal, streamVars, flow
  <2>. QED BY <2>1, <2>2, <2>3, <2>4, <2>5, <2>7, <2>8, <2>9, <2>10, <2>11, <2>12, <2>13
       DEF StreamNext, Thread, Answered, Reads
<1>3. Said => OneReply
  BY DEF Said, OneReply, Terminal
<1>. QED BY <1>1, <1>2, <1>3, Typing, PTL DEF StreamSpec

\* An abort lets at most one more request out (the comment at AbortStops).
THEOREM AbortIsSeen == StreamSpec => []AbortStops
<1>1. StreamInit => Stopped
  BY DEF StreamInit, Stopped
<1>2. Stopped /\ [StreamNext]_streamVars => Stopped'
  <2> SUFFICES ASSUME Stopped, [StreamNext]_streamVars PROVE Stopped'
    OBVIOUS
  <2>1. CASE Send
    BY <2>1 DEF Send, Stopped
  <2>2. CASE Abort
    BY <2>2 DEF Abort, Stopped, flow
  <2>3. CASE StartProvider \/ Retry
    BY <2>3 DEF StartProvider, Retry, Finish, Stopped
  <2>4. CASE Answered \/ Reads
    <3>1. UNCHANGED <<signal, late>> /\ at' # "send"
      BY <2>4 DEF Answered, Reads, Accepted, StatusFails, TransportFails, EndOfStream,
         AbortSeen, Ends, Line, ReadFails, Failed, Fails, Finish, Delta, CallPiece,
         FinishReason, flow
    <3>. QED BY <3>1 DEF Stopped
  <2>5. CASE UNCHANGED streamVars
    BY <2>5 DEF Stopped, streamVars, flow
  <2>. QED BY <2>1, <2>2, <2>3, <2>4, <2>5 DEF StreamNext, Thread
<1>3. Stopped => AbortStops
  BY DEF Stopped, AbortStops
<1>. QED BY <1>1, <1>2, <1>3, PTL DEF StreamSpec
=============================================================================
