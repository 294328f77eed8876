------------------------------ MODULE McpClient ------------------------------
(***************************************************************************)
(* The client of one MCP server: bring-up by one thread (initialize, the   *)
(* acknowledgement, the pages of tools/list), then calls of its tools from *)
(* any thread.  A stdio server is a child process: requests go down a pipe *)
(* under one lock, a reader thread puts its lines into a channel, and a    *)
(* caller drops what is not the reply to its request.  An HTTP server gets *)
(* one POST for each attempt of the retry wrapper.  The server is          *)
(* external: it reads, works on several requests at once, answers in any   *)
(* order, late or never, says other things, and dies.                      *)
(***************************************************************************)
EXTENDS Naturals, Sequences

CONSTANTS
  Callers,      \* threads that run tools
  Starter,      \* the thread that brings the server up
  NoOne,
  MaxAttempts,  \* ReconnectPolicy::max_attempts
  MaxPages,     \* MAX_TOOL_LIST_PAGES
  PipeSize,     \* lines the pipe to the server holds
  MaxIds,       \* bound: requests made
  MaxNoise      \* bound: lines of the server that answer nothing

\* A policy that allows no attempt makes every call fail: not a client.
ASSUME ThreadAssumption == Starter \notin Callers /\ NoOne \notin Callers \cup {Starter}
ASSUME PolicyAssumption == MaxAttempts \in Nat \ {0} /\ MaxPages \in Nat \ {0}
ASSUME McpBounds == MaxIds \in Nat /\ MaxNoise \in Nat

VARIABLES
  kind,     \* the transport: "stdio" or "http"
  stage,    \* external_tools_from_mcp: how far the bring-up is
  pages,    \* list_tools: attempts
  nextId,   \* the transport's next id
  call,     \* what each thread's call does, and how its last one came out
  signal,   \* the abort flag of each thread's call
  io,       \* the thread that holds StdioTransport::io
  inbox,    \* the pipe to the server
  working,  \* requests the server has read and not answered
  replies,  \* the channel of the reader thread
  answered, \* the requests the server answered
  noise,    \* lines that answered nothing
  alive     \* the child process lives

mcpVars == <<kind, stage, pages, nextId, call, signal, io, inbox, working, replies, answered,
             noise, alive>>

Threads == Callers \cup {Starter}
Ids == 1..MaxIds
Outcomes == {"none", "reply", "server", "aborted", "timeout", "transport", "protocol"}
Places == {"idle", "wants", "writing", "polling", "receiving", "trying", "posting", "backoff"}

Calls == [at : Places, id : 0..MaxIds, tries : 0..MaxAttempts, expired : BOOLEAN, out : Outcomes]

McpTypeOK ==
  /\ kind \in {"stdio", "http"}
  /\ stage \in {"start", "ack", "pages", "up", "skipped", "failed"}
  /\ pages \in 0..MaxPages /\ nextId \in 1..(MaxIds + 1)
  /\ call \in [Threads -> Calls]
  /\ signal \in [Threads -> BOOLEAN] /\ io \in Threads \cup {NoOne}
  /\ inbox \in Seq(0..MaxIds) /\ working \subseteq Ids /\ answered \subseteq Ids
  /\ replies \in Seq(0..MaxIds) /\ noise \in 0..MaxNoise /\ alive \in BOOLEAN

Idle == [at |-> "idle", id |-> 0, tries |-> 0, expired |-> FALSE, out |-> "none"]

McpInit ==
  /\ kind \in {"stdio", "http"} /\ stage = "start" /\ pages = 0 /\ nextId = 1
  /\ call = [t \in Threads |-> Idle] /\ signal = [t \in Threads |-> FALSE]
  /\ io = NoOne /\ inbox = <<>> /\ working = {} /\ replies = <<>> /\ answered = {}
  /\ noise = 0 /\ alive = TRUE

serverVars == <<working, replies, answered, noise, alive>>
upVars == <<kind, stage, pages>>

-----------------------------------------------------------------------------
(* A request: its id, then the transport.                                  *)

MayAsk(t) == IF t = Starter THEN stage \in {"start", "pages"} ELSE stage = "up"

Request(t) ==
  /\ call[t].at = "idle" /\ nextId \in Ids /\ MayAsk(t)
  /\ t = Starter => call[t].out = "none"
  /\ call' = [call EXCEPT ![t] = [Idle EXCEPT !.id = nextId,
                                   !.at = IF kind = "stdio" THEN "wants" ELSE "trying"]]
  /\ signal' = [signal EXCEPT ![t] = FALSE]
  /\ nextId' = nextId + 1
  /\ UNCHANGED <<upVars, io, inbox, serverVars>>

Returns(t, out) == call' = [call EXCEPT ![t].at = "idle", ![t].out = out]
Moves(t, at) == call' = [call EXCEPT ![t].at = at]

\* A return out of the section drops the guard of the lock.
Leaves(t, out) == Returns(t, out) /\ io' = NoOne

AbortCall(t) ==
  /\ call[t].at # "idle" /\ ~signal[t]
  /\ signal' = [signal EXCEPT ![t] = TRUE]
  /\ UNCHANGED <<upVars, nextId, call, io, inbox, serverVars>>

-----------------------------------------------------------------------------
(* StdioTransport::roundtrip.  Neither the wait for the lock nor the write *)
(* looks at the signal or at a clock.                                      *)

Acquire(t) ==
  /\ call[t].at = "wants" /\ io = NoOne
  /\ io' = t /\ Moves(t, "writing")
  /\ UNCHANGED <<upVars, nextId, signal, inbox, serverVars>>

Write(t) ==
  /\ call[t].at = "writing"
  /\ \/ /\ alive /\ Len(inbox) < PipeSize
        /\ inbox' = Append(inbox, call[t].id) /\ Moves(t, "polling") /\ UNCHANGED io
     \/ /\ ~alive
        /\ Leaves(t, "transport") /\ UNCHANGED inbox
  /\ UNCHANGED <<upVars, nextId, signal, serverVars>>

\* The deadline runs from the write.
Expire(t) ==
  /\ call[t].at \in {"polling", "receiving"} /\ ~call[t].expired
  /\ call' = [call EXCEPT ![t].expired = TRUE]
  /\ UNCHANGED <<upVars, nextId, signal, io, inbox, serverVars>>

Poll(t) ==
  /\ call[t].at = "polling"
  /\ \/ signal[t] /\ Leaves(t, "aborted")
     \/ ~signal[t] /\ call[t].expired /\ Leaves(t, "timeout")
     \/ ~signal[t] /\ ~call[t].expired /\ Moves(t, "receiving") /\ UNCHANGED io
  /\ UNCHANGED <<upVars, nextId, signal, inbox, serverVars>>

\* Mutant: a reply to an earlier request is taken for this one's, and refused
\* by parse_response.
ReceiveAny(t) ==
  /\ call[t].at = "receiving" /\ replies # <<>>
  /\ replies' = Tail(replies)
  /\ CASE Head(replies) = 0 -> Moves(t, "polling") /\ UNCHANGED io
       [] Head(replies) = call[t].id -> Leaves(t, "reply")
       [] OTHER -> Leaves(t, "protocol")
  /\ UNCHANGED <<upVars, nextId, signal, inbox, working, answered, noise, alive>>

\* A line is read: the reply to this request ends the call, with its result or
\* its error; stale replies, notifications and noise are dropped.
Receive(t) ==
  /\ call[t].at = "receiving" /\ replies # <<>>
  /\ replies' = Tail(replies)
  /\ IF Head(replies) = call[t].id
     THEN \E out \in {"reply", "server"} : Leaves(t, out)
     ELSE Moves(t, "polling") /\ UNCHANGED io
  /\ UNCHANGED <<upVars, nextId, signal, inbox, working, answered, noise, alive>>

\* Mutant: the deadline is that of one wait for a line, not of the call.
ReceiveNothingRestarts(t) ==
  /\ call[t].at = "receiving" /\ replies = <<>>
  /\ \/ ~alive /\ Leaves(t, "transport")
     \/ alive /\ call' = [call EXCEPT ![t].at = "polling", ![t].expired = FALSE] /\ UNCHANGED io
  /\ UNCHANGED <<upVars, nextId, signal, inbox, serverVars>>

\* No line came for a poll interval, or none will come any more.
ReceiveNothing(t) ==
  /\ call[t].at = "receiving" /\ replies = <<>>
  /\ \/ ~alive /\ Leaves(t, "transport")
     \/ alive /\ ~call[t].expired /\ Moves(t, "polling") /\ UNCHANGED io
     \/ alive /\ call[t].expired /\ Leaves(t, "timeout")
  /\ UNCHANGED <<upVars, nextId, signal, inbox, serverVars>>

-----------------------------------------------------------------------------
(* McpReconnect over HttpTransport.  The wait between two attempts cannot  *)
(* be aborted, the attempt after it looks at the signal first.             *)

Try(t) ==
  /\ call[t].at = "trying"
  /\ IF signal[t] THEN Returns(t, "aborted")
     ELSE call' = [call EXCEPT ![t].at = "posting", ![t].tries = @ + 1]
  /\ UNCHANGED <<upVars, nextId, signal, io, inbox, serverVars>>

\* What a POST can come to: a body with the reply or an error, a body that is
\* not one, a 4xx, or something worth a retry (5xx, 408, 429, a timeout, a dead
\* connection, an empty body), which may have reached the server all the same.
Posted(t, what) ==
  /\ call[t].at = "posting"
  /\ answered' = IF what \in {"reply", "server"} THEN answered \cup {call[t].id} ELSE answered
  /\ CASE signal[t] -> Returns(t, "aborted")
       [] ~signal[t] /\ what = "transport" /\ call[t].tries < MaxAttempts -> Moves(t, "backoff")
       [] OTHER -> Returns(t, what)
  /\ UNCHANGED <<upVars, nextId, signal, io, inbox, working, replies, noise, alive>>

Backoff(t) ==
  /\ call[t].at = "backoff" /\ Moves(t, "trying")
  /\ UNCHANGED <<upVars, nextId, signal, io, inbox, serverVars>>

-----------------------------------------------------------------------------
(* Bring-up: what the starter makes of its replies.                        *)

\* Tools that could not be had: the entry is skipped, or the whole bring-up
\* fails.  The transport is dropped, and with it the child.
NoTools ==
  /\ stage' \in {"skipped", "failed"}
  /\ alive' = (alive /\ kind = "http")
  /\ UNCHANGED <<pages, inbox>>

\* notify: a line without an id; over HTTP a POST that is retried.
Acknowledge ==
  \/ /\ alive /\ (kind = "stdio" => Len(inbox) < PipeSize)
     /\ stage' = "pages" /\ inbox' = IF kind = "stdio" THEN Append(inbox, 0) ELSE inbox
     /\ UNCHANGED <<pages, alive>>
  \/ (kind = "stdio" => ~alive) /\ NoTools

\* A page: one more if it names another cursor and the count allows it.
Page ==
  /\ pages' = pages + 1
  /\ stage' \in IF pages' < MaxPages THEN {"pages", "up"} ELSE {"up"}
  /\ UNCHANGED <<inbox, alive>>

Start ==
  /\ call[Starter].at = "idle" /\ stage \in {"start", "ack", "pages"}
  /\ \/ /\ stage = "start" /\ call[Starter].out = "reply"
        /\ stage' = "ack" /\ UNCHANGED <<pages, inbox, alive>>
     \/ stage = "ack" /\ Acknowledge
     \/ stage = "pages" /\ call[Starter].out = "reply" /\ (Page \/ NoTools)
     \/ call[Starter].out \notin {"none", "reply"} /\ NoTools
  /\ call' = [call EXCEPT ![Starter].out = IF stage' = "ack" THEN @ ELSE "none"]
  /\ UNCHANGED <<kind, nextId, signal, io, working, replies, answered, noise>>

-----------------------------------------------------------------------------
(* The server.                                                             *)

ServerReads ==
  /\ alive /\ inbox # <<>>
  /\ inbox' = Tail(inbox)
  /\ working' = working \cup ({Head(inbox)} \ {0})
  /\ UNCHANGED <<upVars, nextId, call, signal, io, replies, answered, noise, alive>>

ServerAnswers(id) ==
  /\ alive /\ id \in working
  /\ working' = working \ {id} /\ answered' = answered \cup {id}
  /\ replies' = Append(replies, id)
  /\ UNCHANGED <<upVars, nextId, call, signal, io, inbox, noise, alive>>

ServerSays ==
  /\ alive /\ kind = "stdio" /\ noise < MaxNoise
  /\ noise' = noise + 1 /\ replies' = Append(replies, 0)
  /\ UNCHANGED <<upVars, nextId, call, signal, io, inbox, working, answered, alive>>

\* Its stdout closes; what is in the channel can still be read.
ServerDies ==
  /\ alive /\ kind = "stdio" /\ alive' = FALSE
  /\ UNCHANGED <<upVars, nextId, call, signal, io, inbox, working, replies, answered, noise>>

-----------------------------------------------------------------------------
Stdio(t) == Acquire(t) \/ Write(t) \/ Poll(t) \/ Receive(t) \/ ReceiveNothing(t)
Http(t) ==
  \/ Try(t) \/ Backoff(t)
  \/ \E what \in {"reply", "server", "protocol", "transport"} : Posted(t, what)

Server == ServerReads \/ ServerSays \/ ServerDies \/ \E id \in Ids : ServerAnswers(id)

McpNext ==
  \/ \E t \in Threads : Request(t) \/ AbortCall(t) \/ Stdio(t) \/ Expire(t) \/ Http(t)
  \/ Start \/ Server

\* Threads that can go on do, and clocks run.  Nothing is promised of the
\* server: it may stop reading its pipe, or answering.
McpFairness ==
  \A t \in Threads : WF_mcpVars(Stdio(t)) /\ WF_mcpVars(Expire(t)) /\ WF_mcpVars(Http(t))

McpSpec == McpInit /\ [][McpNext]_mcpVars /\ McpFairness

-----------------------------------------------------------------------------
\* A call that is over has the answer to its own request, or a failure that
\* happened to it: whatever earlier calls left in the pipe and the channel, a
\* stdio call is not failed by another's reply ("one stale line would poison
\* every later call", lib.rs:440), and it is not told that the server is gone
\* while it lives.
ReplyOrReason ==
  \A t \in Threads : call[t].at = "idle" =>
    CASE call[t].out \in {"reply", "server"} -> call[t].id \in answered \/ kind = "http"
      [] call[t].out = "aborted" -> signal[t]
      [] call[t].out = "timeout" -> call[t].expired
      [] call[t].out = "transport" -> kind = "http" \/ ~alive
      [] call[t].out = "protocol" -> kind = "http"
      [] OTHER -> TRUE

\* The pipe to a living server is full, and the caller that holds the lock
\* writes: it looks at no clock and no signal.
Wedged == alive /\ io # NoOne /\ call[io].at = "writing" /\ Len(inbox) >= PipeSize

\* Every call returns, though the server never answers: the wait for the lock
\* ends, and then the deadline, an abort, the reply or the end of the server
\* ends the call.  Only a server that for ever leaves a full pipe unread keeps
\* its callers, all of them (MCP_TIMEOUT promises more, lib.rs 37-38: "so a
\* hung server can't wedge the agent loop").
CallsReturn ==
  <>[]Wedged \/ \A t \in Threads : call[t].at # "idle" ~> call[t].at = "idle"
=============================================================================
