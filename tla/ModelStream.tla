------------------------------ MODULE ModelStream ------------------------------
(***************************************************************************)
(* One call of the agent loop to its model: the waterfall over providers   *)
(* (agent-loop, fallback.rs), the retries of one provider (llm, openai.rs) *)
(* and the parser of the streamed lines (llm, sse.rs).  A server answers a *)
(* request with a status or a stream; the stream is a series of lines, any *)
(* of which may be the last, or break off.  Another thread may raise the   *)
(* abort signal at any time; it is read at the places the code reads it.   *)
(* Of a delta we keep what it is and the request it came in.               *)
(***************************************************************************)
EXTENDS Naturals, Sequences, FiniteSets

CONSTANTS
  LastProvider,  \* providers are 1..LastProvider: the primary, then its fallbacks
  MaxAttempts,   \* RetryPolicy::max_attempts
  Indexes,       \* indexes of tool calls in a reply
  MaxLines       \* bound: lines of a stream

ASSUME StreamAssumption ==
  /\ LastProvider \in Nat \ {0} /\ MaxAttempts \in Nat \ {0} /\ MaxLines \in Nat
  /\ IsFiniteSet(Indexes)

VARIABLES
  at,        \* what the calling thread does
  provider,  \* the provider that is tried
  attempt,   \* stream_cb_with_policy: the attempt that is made
  emitted,   \* stream_cb_with_policy: emitted_text
  leaked,    \* attempt_provider: leaked_content
  parser,    \* SseParser::tool_calls: how much of each call has arrived
  stop,      \* stream_round_trip: stop_reason
  signal,    \* the abort signal
  lines,     \* lines read of this stream
  out,       \* what the consumer was handed
  late       \* requests sent since the signal was raised

flow == <<at, provider, attempt>>
streamVars == <<flow, emitted, leaked, parser, stop, signal, lines, out, late>>

Places == {"call", "send", "sent", "reading", "backoff", "ended"}
Deltas == {"text", "reasoning", "call"}
StopReasons == {"end_turn", "tool_use", "max_tokens", "aborted"}
Events == [kind : Deltas \cup StopReasons \cup {"error"},
           from : (1..LastProvider) \X (0..MaxAttempts)]

StreamTypeOK ==
  /\ at \in Places /\ provider \in 1..LastProvider /\ attempt \in 0..MaxAttempts
  /\ emitted \in BOOLEAN /\ leaked \in BOOLEAN /\ signal \in BOOLEAN
  /\ parser \in [Indexes -> {"none", "part", "whole"}]
  /\ stop \in StopReasons /\ lines \in 0..MaxLines
  /\ out \in Seq(Events) /\ late \in Nat

NoCalls == [c \in Indexes |-> "none"]

StreamInit ==
  /\ at = "call" /\ provider = 1 /\ attempt = 0
  /\ emitted = FALSE /\ leaked = FALSE /\ parser = NoCalls /\ stop = "end_turn"
  /\ signal = FALSE /\ lines = 0 /\ out = <<>> /\ late = 0

-----------------------------------------------------------------------------
(* What one request hands out.                                             *)

Event(kind) == [kind |-> kind, from |-> <<provider, attempt>>]
Emit(events) == out' = out \o events

\* The caller of the provider returns from it with a Done.
Finish(events) ==
  /\ Emit(events)
  /\ at' = "ended"
  /\ UNCHANGED <<provider, attempt>>

\* The provider's Error.  It is passed on if content leaked, withheld if the
\* next provider can take over, and reported when there is none left.
Fails ==
  /\ \/ /\ leaked \/ provider = LastProvider
        /\ Finish(<<Event("error")>>)
     \/ /\ ~leaked /\ provider < LastProvider
        /\ provider' = provider + 1 /\ attempt' = 0 /\ at' = "call"
        /\ UNCHANGED out
  /\ UNCHANGED <<emitted, leaked, parser, stop, signal, lines, late>>

\* A failed round trip: wait for another one, or give the provider up.
Failed(retryable) ==
  IF retryable /\ ~emitted /\ attempt < MaxAttempts
  THEN /\ at' = "backoff"
       /\ UNCHANGED <<provider, attempt, emitted, leaked, parser, stop, signal, lines, out, late>>
  ELSE Fails

-----------------------------------------------------------------------------
(* The calling thread.                                                     *)

\* stream_cb_with_policy: the signal, and the first attempt.
StartProvider ==
  /\ at = "call"
  /\ \/ signal /\ Finish(<<Event("aborted")>>)
     \/ ~signal /\ at' = "send" /\ attempt' = 1 /\ UNCHANGED <<provider, out>>
  /\ UNCHANGED <<emitted, leaked, parser, stop, signal, lines, late>>

\* Each attempt has its own flag, parser and stop reason.
Send ==
  /\ at = "send"
  /\ at' = "sent" /\ emitted' = FALSE /\ parser' = NoCalls /\ stop' = "end_turn" /\ lines' = 0
  /\ late' = IF signal THEN late + 1 ELSE late
  /\ UNCHANGED <<provider, attempt, leaked, signal, out>>

Accepted ==
  /\ at = "sent" /\ at' = "reading"
  /\ UNCHANGED <<provider, attempt, emitted, leaked, parser, stop, signal, lines, out, late>>

\* 429 and 5xx can be retried, other statuses cannot.
StatusFails(retryable) == at = "sent" /\ Failed(retryable)

\* The transport fails, which an abort takes for its own doing.
TransportFails(retryable) ==
  /\ at = "sent"
  /\ \/ /\ signal /\ Finish(<<Event("aborted")>>)
        /\ UNCHANGED <<emitted, leaked, parser, stop, signal, lines, late>>
     \/ ~signal /\ Failed(retryable)

\* The end of the stream, with or without its [DONE]: the calls gathered so
\* far and Done.
Gathered == {c \in Indexes : parser[c] # "none"}
Flushed(reason) ==
  [i \in 1..Cardinality(Gathered) |-> Event("call")] \o <<Event(reason)>>

Ends(reason) ==
  /\ Finish(Flushed(reason))
  /\ leaked' = (leaked \/ parser # NoCalls)
  /\ stop' = reason
  /\ UNCHANGED <<emitted, parser, signal, lines, late>>

EndOfStream == at = "reading" /\ Ends(stop)

\* The signal is read when a line, or the failure to read one, has arrived.
AbortSeen == at = "reading" /\ signal /\ Ends("aborted")

\* A line with content, reasoning, a piece of a call, a reason to stop, or
\* none of them ([DONE], a comment, a chunk that does not parse).
Delta(kind) ==
  /\ Emit(<<Event(kind)>>) /\ leaked' = TRUE
  /\ emitted' = (emitted \/ kind = "text")
  /\ UNCHANGED <<parser, stop>>

CallPiece(c) ==
  /\ parser' = [parser EXCEPT ![c] = IF @ = "none" THEN "part" ELSE "whole"]
  /\ UNCHANGED <<out, leaked, emitted, stop>>

FinishReason(reason) ==
  stop' = reason /\ UNCHANGED <<out, leaked, emitted, parser>>

Line ==
  /\ at = "reading" /\ ~signal /\ lines < MaxLines
  /\ lines' = lines + 1
  /\ \/ \E kind \in {"text", "reasoning"} : Delta(kind)
     \/ \E c \in Indexes : CallPiece(c)
     \/ \E reason \in {"tool_use", "max_tokens"} : FinishReason(reason)
     \/ UNCHANGED <<out, leaked, emitted, parser, stop>>
  /\ UNCHANGED <<flow, signal, late>>

\* Mutant: what was said before the stream broke off is said again.
ReadFailsReplays ==
  /\ at = "reading" /\ ~signal
  /\ IF attempt < MaxAttempts
     THEN /\ at' = "backoff"
          /\ UNCHANGED <<provider, attempt, emitted, leaked, parser, stop, signal, lines, out, late>>
     ELSE Fails

\* The socket dies, or is silent for the read timeout: text that was emitted
\* makes it final, and its Error is passed on.
ReadFails ==
  /\ at = "reading" /\ ~signal
  /\ Failed(TRUE)

\* Mutant: the wait does not look at the signal.
RetryUnaware ==
  /\ at = "backoff"
  /\ at' = "send" /\ attempt' = attempt + 1
  /\ UNCHANGED <<provider, emitted, leaked, parser, stop, signal, lines, out, late>>

\* sleep_abortable
Retry ==
  /\ at = "backoff"
  /\ \/ signal /\ Finish(<<Event("aborted")>>)
     \/ ~signal /\ at' = "send" /\ attempt' = attempt + 1 /\ UNCHANGED <<provider, out>>
  /\ UNCHANGED <<emitted, leaked, parser, stop, signal, lines, late>>

Abort ==
  /\ at # "ended" /\ ~signal /\ signal' = TRUE
  /\ UNCHANGED <<flow, emitted, leaked, parser, stop, lines, out, late>>

Answered == Accepted \/ \E retryable \in BOOLEAN : StatusFails(retryable) \/ TransportFails(retryable)
Reads == EndOfStream \/ AbortSeen \/ Line \/ ReadFails
Thread == StartProvider \/ Send \/ Answered \/ Reads \/ Retry

StreamNext == Thread \/ Abort

StreamSpec == StreamInit /\ [][StreamNext]_streamVars

-----------------------------------------------------------------------------
Terminal(e) == e.kind \notin Deltas

\* What the consumer is handed is one reply: what it says and the calls it
\* makes come from one request of one provider, though attempts and providers
\* were tried before it, and it ends with one Done or Error (fallback.rs
\* "exactly one terminal event", "a partially-emitted turn is never replayed").
OneReply ==
  /\ \A i, j \in 1..Len(out) :
       {out[i].kind, out[j].kind} \subseteq {"text", "call"} => out[i].from = out[j].from
  /\ \A i \in 1..Len(out) : Terminal(out[i]) => i = Len(out)
  /\ at = "ended" => out # <<>> /\ Terminal(out[Len(out)])

\* After an abort at most one more request goes out, the one whose attempt had
\* passed its look at the signal.
AbortStops == late <= 1

\* Nothing a consumer has seen is replayed ("Retrying is only safe when the
\* consumer has seen nothing - otherwise a replay would duplicate emitted
\* deltas", openai.rs:430): reasoning, too, comes from one request.
NothingReplayed ==
  \A i, j \in 1..Len(out) :
    {out[i].kind, out[j].kind} \subseteq Deltas => out[i].from = out[j].from
=============================================================================
