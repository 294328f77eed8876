------------------------------ MODULE AgentLoop ------------------------------
(***************************************************************************)
(* The engine of one session: the run thread of OrbitEngine (rpc/worker.rs) *)
(* that takes prompts from a channel and drives run_agent_streaming        *)
(* (agent-loop, orbit/mod.rs) over the conversation.  Other threads push   *)
(* steering and asides and raise the abort flag while it runs.  The tools  *)
(* are the environment's, except for what they do to the engine: mark_done *)
(* ends the run, a subagent of the in-process provider (fork.rs) is handed *)
(* the engine's own abort flag and raises it when it is done.              *)
(*                                                                         *)
(* The outcomes of a model call are those ModelStream allows.  Session     *)
(* history, events and the booking of the run are RunLifecycle's.          *)
(***************************************************************************)
EXTENDS Compaction

CONSTANTS MaxTurns,      \* LoopConfig.max_turns
          MaxSameError,  \* MAX_SAME_ERROR
          MaxFires,      \* MARK_GUARD_MAX_FIRES
          Errors,        \* stream errors that are no authentication failure
          Replies,       \* tool calls of a model's reply: sequences of tools
          FreshIds,      \* the provider gives every call an id of its own
          Forks,         \* a subagent's end reaches the engine's abort flag
          MaxPrompts,    \* bound: prompts
          MaxNotes,      \* bound: steering messages and finished jobs
          MaxAborts,     \* bound: worker.abort requests
          MaxPanics      \* bound: tools that panic

Tools == {"plain", "fork", "background", "mark_done"}
NoError == "none"

VARIABLES prompts,    \* run_tx: prompts waiting for the run thread
          steering,   \* steering_queue
          asides,     \* aside_queue
          abort,      \* abort_flag
          userAbort,  \* Worker.user_abort
          children,   \* background subagents that run
          pc,         \* where the run thread is
          context,    \* ctx.messages
          loop,       \* locals of run_agent_streaming and of the prompt's guard
          calls,      \* tool_calls of the round, as [id, tool]
          done,       \* results.len()
          stopReason, \* stop_reason of the last TurnEnd
          counters    \* what the bounds count

queueVars == <<prompts, steering, asides>>
flagVars == <<abort, userAbort>>
roundVars == <<calls, done>>
loopVars == <<queueVars, flagVars, children, pc, context, loop, roundVars, stopReason, counters>>

Locations == {"idle", "top", "stream", "tool"}
Stops == {"none", "end_turn", "max_tokens", "aborted", "error", "max_turns"}
Calls == [id : Nat, tool : Tools]
Locals == [rounds : 0..MaxTurns, streak : Nat, lastError : Errors \cup {NoError},
           marked : BOOLEAN, fires : 0..MaxFires]
Counts == [prompts : 0..MaxPrompts, notes : 0..MaxNotes, aborts : 0..MaxAborts,
           panics : 0..MaxPanics, ids : Nat]

LoopTypeOK ==
  /\ prompts \in Nat /\ steering \in Nat /\ asides \in Nat /\ children \in Nat /\ done \in Nat
  /\ abort \in BOOLEAN /\ userAbort \in BOOLEAN
  /\ pc \in Locations
  /\ context \in Seq([kind : Kinds, ids : SUBSET Nat])
  /\ loop \in Locals
  /\ calls \in Seq(Calls) /\ done <= Len(calls)
  /\ stopReason \in Stops
  /\ counters \in Counts

FreshLoop == [rounds |-> 0, streak |-> 0, lastError |-> NoError, marked |-> FALSE, fires |-> 0]

LoopInit ==
  /\ prompts = 0 /\ steering = 0 /\ asides = 0
  /\ abort = FALSE /\ userAbort = FALSE
  /\ children = 0
  /\ pc = "idle" /\ context = <<>> /\ loop = FreshLoop
  /\ calls = <<>> /\ done = 0 /\ stopReason = "none"
  /\ counters = [prompts |-> 0, notes |-> 0, aborts |-> 0, panics |-> 0, ids |-> 0]

-----------------------------------------------------------------------------
(* Other threads.                                                          *)

\* Worker::prompt
Prompt ==
  /\ counters.prompts < MaxPrompts
  /\ counters' = [counters EXCEPT !.prompts = @ + 1]
  /\ prompts' = prompts + 1
  /\ UNCHANGED <<steering, asides, flagVars, children, pc, context, loop, roundVars, stopReason>>

Noted ==
  /\ counters.notes < MaxNotes
  /\ counters' = [counters EXCEPT !.notes = @ + 1]
  /\ UNCHANGED <<prompts, flagVars, children, pc, context, loop, roundVars, stopReason>>

\* Worker::steer
Steer == Noted /\ steering' = steering + 1 /\ UNCHANGED asides

\* The job registry's done hook.
Notify == Noted /\ asides' = asides + 1 /\ UNCHANGED steering

\* Worker::abort
RaiseAbort ==
  /\ counters.aborts < MaxAborts
  /\ counters' = [counters EXCEPT !.aborts = @ + 1]
  /\ abort' = TRUE /\ userAbort' = TRUE
  /\ UNCHANGED <<queueVars, children, pc, context, loop, roundVars, stopReason>>

\* A background subagent ends: its guard raises the flag it was given, and the
\* settle hook queues an aside.
ChildEnds ==
  /\ children > 0
  /\ children' = children - 1
  /\ abort' = (abort \/ Forks)
  /\ asides' = asides + 1
  /\ UNCHANGED <<prompts, steering, userAbort, pc, context, loop, roundVars, stopReason, counters>>

-----------------------------------------------------------------------------
(* The run thread.                                                         *)

Goto(l) == pc' = l /\ UNCHANGED stopReason
EndTurn(reason) == pc' = "idle" /\ stopReason' = reason
Record(msgs) == context' = context \o msgs

\* The thread takes a prompt and lowers the flag.
Begin ==
  /\ pc = "idle" /\ prompts > 0
  /\ prompts' = prompts - 1
  /\ abort' = FALSE
  /\ Record(<<User>>)
  /\ loop' = FreshLoop
  /\ Goto("top")
  /\ UNCHANGED <<steering, asides, userAbort, children, roundVars, counters>>

\* The cap on round trips.
LastRound ==
  /\ pc = "top" /\ loop.rounds >= MaxTurns
  /\ EndTurn("max_turns")
  /\ UNCHANGED <<queueVars, flagVars, children, context, loop, roundVars, counters>>

\* get_steering and get_aside, at the top of a round
Drained == [i \in 1..steering + asides |-> User]

\* A round begins with compact_context_with: an aborted turn is left alone, and
\* a summary that fails leaves the conversation as it is.  What was queued for
\* the turn follows, and the request is sent.
Round ==
  /\ pc = "top" /\ loop.rounds < MaxTurns
  /\ loop' = [loop EXCEPT !.rounds = @ + 1]
  /\ \/ context' = context \o Drained
     \/ ~abort /\ Compactable(context) /\ context' = Compacted(context) \o Drained
  /\ steering' = 0 /\ asides' = 0
  /\ Goto("stream")
  /\ UNCHANGED <<prompts, flagVars, children, roundVars, counters>>

\* The stream is cut by the flag, or not begun: the reply is recorded without its calls.
Aborted ==
  /\ pc = "stream" /\ abort
  /\ Record(<<Text>>)
  /\ loop' = [loop EXCEPT !.streak = 0, !.lastError = NoError]
  /\ EndTurn("aborted")
  /\ UNCHANGED <<queueVars, flagVars, children, roundVars, counters>>

\* 401 and 403 end the run.
AuthFailure ==
  /\ pc = "stream"
  /\ Record(<<Text>>)
  /\ EndTurn("error")
  /\ UNCHANGED <<queueVars, flagVars, children, loop, roundVars, counters>>

\* Any other error is tried again, up to a streak of the same one.
StreamError(e) ==
  LET streak == IF loop.lastError = e THEN loop.streak ELSE 0
  IN  /\ pc = "stream"
      /\ Record(<<Text>>)
      /\ loop' = [loop EXCEPT !.lastError = e,
                              !.streak = IF streak < MaxSameError THEN streak + 1 ELSE streak]
      /\ IF streak < MaxSameError THEN Goto("top") ELSE EndTurn("error")
      /\ UNCHANGED <<queueVars, flagVars, children, roundVars, counters>>

\* A reply without tool calls ends the run, unless the mark_done guard forces
\* another round.
FinalReply(reason) ==
  LET again == ~loop.marked /\ loop.fires < MaxFires
  IN  /\ pc = "stream"
      /\ Record(<<Text>>)
      /\ loop' = [loop EXCEPT !.streak = 0, !.lastError = NoError,
                              !.fires = IF again THEN @ + 1 ELSE @]
      /\ IF again THEN Goto("top") ELSE EndTurn(reason)
      /\ UNCHANGED <<queueVars, flagVars, children, roundVars, counters>>

\* The ids of a reply's calls: the provider's, or their index (sse.rs).
FirstId == IF FreshIds THEN counters.ids ELSE 0
CallsOf(reply) == [i \in 1..Len(reply) |-> [id |-> FirstId + i, tool |-> reply[i]]]
Ids(reply) == FirstId + 1..FirstId + Len(reply)
Replied(reply) ==
  /\ pc = "stream" /\ reply # <<>>
  /\ loop' = [loop EXCEPT !.streak = 0, !.lastError = NoError,
                          !.marked = @ \/ \E i \in 1..Len(reply) : reply[i] = "mark_done"]
  /\ counters' = [counters EXCEPT !.ids = IF FreshIds THEN @ + Len(reply) ELSE @]
  /\ UNCHANGED <<queueVars, flagVars, children>>

\* Calls cut by max_tokens are answered with errors, not executed.
Truncated(reply) ==
  /\ Replied(reply)
  /\ Record(<<CallsMsg(Ids(reply)), ResultsMsg(Ids(reply))>>)
  /\ Goto("top")
  /\ UNCHANGED roundVars

ToolCalls(reply) ==
  /\ Replied(reply)
  /\ Record(<<CallsMsg(Ids(reply))>>)
  /\ calls' = CallsOf(reply) /\ done' = 0
  /\ Goto("tool")

\* The next tool of the reply, unless the flag is raised.
RunTool ==
  /\ pc = "tool" /\ ~abort /\ done < Len(calls)
  /\ LET tool == calls[done + 1].tool
     IN  /\ abort' = (tool = "fork" /\ Forks)
         /\ children' = IF tool = "background" THEN children + 1 ELSE children
  /\ done' = done + 1
  /\ Goto("tool")
  /\ UNCHANGED <<queueVars, userAbort, context, loop, calls, counters>>

\* Mutant: an abort leaves the calls it cut off without results.
BackfillDoneOnly ==
  /\ pc = "tool" /\ (abort \/ done = Len(calls))
  /\ Record(<<ResultsMsg({calls[i].id : i \in 1..done})>>)
  /\ IF \E i \in 1..Len(calls) : calls[i].tool = "mark_done"
     THEN EndTurn("end_turn") ELSE Goto("top")
  /\ calls' = <<>> /\ done' = 0
  /\ UNCHANGED <<queueVars, flagVars, children, loop, counters>>

\* Mutant: an abort skips the tools, but nobody leaves the loop over them.
BackfillComplete ==
  /\ pc = "tool" /\ done = Len(calls)
  /\ Record(<<ResultsMsg({calls[i].id : i \in 1..Len(calls)})>>)
  /\ IF \E i \in 1..Len(calls) : calls[i].tool = "mark_done"
     THEN EndTurn("end_turn") ELSE Goto("top")
  /\ calls' = <<>> /\ done' = 0
  /\ UNCHANGED <<queueVars, flagVars, children, loop, counters>>

\* Every call gets its result, those an abort left as errors; a mark_done among
\* the calls ends the run.
Backfill ==
  /\ pc = "tool" /\ (abort \/ done = Len(calls))
  /\ Record(<<ResultsMsg({calls[i].id : i \in 1..Len(calls)})>>)
  /\ IF \E i \in 1..Len(calls) : calls[i].tool = "mark_done"
     THEN EndTurn("end_turn") ELSE Goto("top")
  /\ calls' = <<>> /\ done' = 0
  /\ UNCHANGED <<queueVars, flagVars, children, loop, counters>>

\* A tool that panics unwinds the turn; the thread goes on with the next prompt
\* and the conversation stays as it was.
ToolPanics ==
  /\ pc = "tool" /\ ~abort /\ done < Len(calls)
  /\ counters.panics < MaxPanics
  /\ counters' = [counters EXCEPT !.panics = @ + 1]
  /\ EndTurn("error")
  /\ calls' = <<>> /\ done' = 0
  /\ UNCHANGED <<queueVars, flagVars, children, context, loop>>

-----------------------------------------------------------------------------
Reply ==
  \/ AuthFailure
  \/ \E e \in Errors : StreamError(e)
  \/ \E reason \in {"end_turn", "max_tokens"} : FinalReply(reason)
  \/ \E reply \in Replies : Truncated(reply) \/ ToolCalls(reply)

RunThread ==
  \/ Begin \/ LastRound \/ Round \/ Aborted \/ Reply
  \/ RunTool \/ Backfill \/ ToolPanics

LoopNext == Prompt \/ Steer \/ Notify \/ RaiseAbort \/ ChildEnds \/ RunThread

LoopSpec == LoopInit /\ [][LoopNext]_loopVars

\* The run thread is an ordinary thread; model calls and tools are bounded by
\* their own timeouts.
LoopFairness == WF_loopVars(RunThread)

LoopFairSpec == LoopSpec /\ LoopFairness

-----------------------------------------------------------------------------
(* Properties.                                                             *)

\* Every tool call is answered by the message after it, and nothing else is.
Paired(msgs) ==
  /\ \A i \in 1..Len(msgs) : msgs[i].kind = "call" =>
       i < Len(msgs) /\ msgs[i + 1] = ResultsMsg(msgs[i].ids)
  /\ \A i \in 1..Len(msgs) : msgs[i].kind = "results" =>
       i > 1 /\ msgs[i - 1] = CallsMsg(msgs[i].ids)

\* Every request the model is sent pairs calls and results, whatever was
\* aborted, truncated, steered or compacted before (invariant 1 of the loop),
\* as long as no tool panicked.
RequestsPaired == pc = "stream" /\ counters.panics = 0 => Paired(context)

LastKept == LET newest == Len(context') - Len(Drained)
            IN  context'[newest] = context[Len(context)]

\* Compaction never takes the newest message, which the model has not seen yet:
\* what follows it in the request is only what was queued.
NewestKept ==
  [][Round => LastKept]_loopVars

\* A turn is aborted only when a user asked for it.
AbortedByUser == stopReason = "aborted" => userAbort

\* Every prompt is worked off.
PromptsEnd == (prompts > 0 \/ pc # "idle") ~> (prompts = 0 /\ pc = "idle")
=============================================================================
