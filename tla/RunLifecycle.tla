---------------------------- MODULE RunLifecycle ----------------------------
(***************************************************************************)
(* One session's runs in the daemon, from the prompt request to the close  *)
(* of the run in the ledger and in the turn log.  Four kinds of thread     *)
(* take part:                                                              *)
(*   - connection threads: dispatch's WorkerPrompt arm, one per request,   *)
(*     under the session's handle lock (registry.rs with_session);         *)
(*   - the engine's run thread (rpc/worker.rs OrbitEngine::new), which     *)
(*     takes queued messages one by one and holds the context lock for     *)
(*     the whole turn;                                                     *)
(*   - the event pump (dispatch.rs ensure_event_pump), which attributes    *)
(*     each event to the run in the session's execution slot and closes    *)
(*     that run on AgentEnd;                                               *)
(*   - the user, who aborts (the answer to a review is TurnUnpark).        *)
(* The turn log survives a crash of the daemon, the ledger as far as the   *)
(* rewrite of its file had come; the rest does not.                        *)
(***************************************************************************)
EXTENDS Naturals, Sequences

CONSTANTS Runs,           \* run ids, each minted by a client for one prompt
          NoRun,          \* no run id
          Orbit,          \* TRUE: in-process orbit engine; FALSE: omp worker
          Overlap,        \* may a client prompt while a run is in flight?
          BadAttachments, \* may a prompt carry malformed attachments?
          MaxReviews,     \* bound: plan reviews a turn may park in
          MaxAborts,      \* bound: worker.abort requests
          MaxForks,       \* bound: subagents of the engine at a time
          MaxCrashes      \* bound: daemon crashes

ASSUME RunAssumption == NoRun \notin Runs
ASSUME ModeAssumption == {Orbit, Overlap, BadAttachments} \subseteq BOOLEAN
ASSUME BoundAssumption == {MaxReviews, MaxAborts, MaxForks, MaxCrashes} \subseteq Nat

VARIABLES up,          \* is the daemon process running?
          prompt,      \* per run: how far its WorkerPrompt request got
          handle,      \* the run whose request holds the handle lock
          ledger,      \* RunLedger: status of each run
          rows,        \* ... and the runs in the order of the ledger's file
          turnStarts,  \* turn log: TurnStart records per run
          turnEnds,    \* turn log: TurnEnd records per run
          exec,        \* ExecState: the session's execution slot
          queue,       \* run_tx: messages the run thread has not taken
          turn,        \* the run thread
          abortFlag,   \* OrbitEngine.abort_flag
          userAbort,   \* Worker.user_abort
          events,      \* AgentEnd events on their way to the pump
          pump,        \* the event pump thread
          children,    \* subagents of the engine that run
          aborts, crashes  \* counters for the bounds

records == <<ledger, rows, turnStarts, turnEnds>>
engine == <<queue, turn, abortFlag, events>>
counters == <<children, aborts, crashes>>
vars == <<up, prompt, handle, records, exec, engine, userAbort, pump, counters>>

-----------------------------------------------------------------------------
RunOrNone == Runs \cup {NoRun}

\* Where a WorkerPrompt request stands.  "opened": in the ledger; "logged":
\* TurnStart written; "declared": in the slot, about to lock the context;
\* "resumed": history replayed; "acked": queued for the run thread;
\* "waiting": blocked in an omp prompt; "settling": closed in the ledger by
\* the handler, TurnEnd to come; "done", "rejected": answered; "lost": the
\* daemon died first.
PromptStages == {"new", "opened", "logged", "declared", "resumed", "acked",
                 "waiting", "settling", "done", "rejected", "lost"}

\* RunRecord.status: "none" is no record, "open" is finished_at_ms = None.
ClosedStatuses == {"ok", "failed", "aborted", "paused", "spawn_failed"}
Statuses == {"none", "open"} \cup ClosedStatuses

Stops == {"ok", "failed", "aborted"}

ExecStates == [status : {"Running"}, run : Runs]
              \cup [status : {"Idle", "AwaitingReview"}, run : {NoRun}]
IdleExec == [status |-> "Idle", run |-> NoRun]

\* The run thread: waiting in recv, message taken, context locked, question
\* submitted, blocked in the review, AgentEnd sent.
TurnPhases == {"taken", "running", "asking", "parked", "ended"}
NoTurn == [run |-> NoRun, phase |-> "none", reviews |-> 0]
ActiveTurns == [run : Runs, phase : TurnPhases, reviews : Nat]
Turns == {NoTurn} \cup ActiveTurns

\* "of" is the turn that sent the event: the wire does not carry it.
AgentEnds == [of : Runs, stop : Stops]

\* The pump: not spawned, in recv, then the four lock acquisitions of a close.
PumpPhases == {"check", "finish", "log", "clear"}
PumpAt(phase) == [phase |-> phase, run |-> NoRun, of |-> NoRun,
                  stop |-> "ok", status |-> "ok"]
ActivePumps == [phase : PumpPhases, run : Runs, of : Runs,
                stop : Stops, status : ClosedStatuses]
Pumps == {PumpAt("off"), PumpAt("idle")} \cup ActivePumps

TypeOK ==
  /\ up \in BOOLEAN
  /\ prompt \in [Runs -> PromptStages]
  /\ handle \in RunOrNone
  /\ ledger \in [Runs -> Statuses]
  /\ rows \in Seq(Runs)
  /\ turnStarts \in [Runs -> Nat]
  /\ turnEnds \in [Runs -> Nat]
  /\ exec \in ExecStates
  /\ queue \in Seq(Runs)
  /\ turn \in Turns
  /\ abortFlag \in BOOLEAN
  /\ userAbort \in BOOLEAN
  /\ events \in Seq(AgentEnds)
  /\ pump \in Pumps
  /\ children \in Nat
  /\ aborts \in Nat
  /\ crashes \in Nat

Init ==
  /\ up = TRUE
  /\ prompt = [r \in Runs |-> "new"]
  /\ handle = NoRun
  /\ ledger = [r \in Runs |-> "none"]
  /\ rows = <<>>
  /\ turnStarts = [r \in Runs |-> 0]
  /\ turnEnds = [r \in Runs |-> 0]
  /\ exec = IdleExec
  /\ queue = <<>>
  /\ turn = NoTurn
  /\ abortFlag = FALSE
  /\ userAbort = FALSE
  /\ events = <<>>
  /\ pump = PumpAt("off")
  /\ children = 0
  /\ aborts = 0
  /\ crashes = 0

-----------------------------------------------------------------------------
(* The ledger and the turn log.                                            *)

\* RunLedger::finish: settles the run's open record and leaves any other.
Finish(r, status) ==
  /\ ledger' = [ledger EXCEPT ![r] = IF @ = "open" THEN status ELSE @]
  /\ rows' = rows

\* record_turn with a TurnStart or a TurnEnd.
RecordStart(r) == turnStarts' = [turnStarts EXCEPT ![r] = @ + 1]
RecordEnd(r) == turnEnds' = [turnEnds EXCEPT ![r] = @ + 1]

\* A client that serializes its prompts waits for the previous run's close.
InFlight(r) == prompt[r] \notin {"new", "rejected", "lost"} /\ ledger[r] = "open"

-----------------------------------------------------------------------------
(* The WorkerPrompt request of run r.                                      *)

Advance(r, from, to) == up /\ prompt[r] = from /\ prompt' = [prompt EXCEPT ![r] = to]

\* with_session takes the handle lock; runs.start opens the ledger record.
PromptOpen(r) ==
  /\ Advance(r, "new", "opened")
  /\ handle = NoRun
  /\ Overlap \/ \A q \in Runs : ~InFlight(q)
  /\ handle' = r
  /\ ledger' = [ledger EXCEPT ![r] = "open"]
  /\ rows' = Append(rows, r)
  /\ UNCHANGED <<up, turnStarts, turnEnds, exec, engine, userAbort, pump, counters>>

PromptLogStart(r) ==
  /\ Advance(r, "opened", "logged")
  /\ RecordStart(r)
  /\ UNCHANGED <<up, handle, ledger, rows, turnEnds, exec, engine, userAbort, pump, counters>>

\* Mutant: the pump is started by the first subscriber only.
PromptDeclareWithoutPump(r) ==
  /\ Advance(r, "logged", "declared")
  /\ exec' = [status |-> "Running", run |-> r]
  /\ UNCHANGED <<up, handle, records, engine, userAbort, pump, counters>>

\* ensure_event_pump (orbit), ensure_started, then set_active_run.
PromptDeclare(r) ==
  /\ Advance(r, "logged", "declared")
  /\ exec' = [status |-> "Running", run |-> r]
  /\ pump' = IF Orbit /\ pump.phase = "off" THEN PumpAt("idle") ELSE pump
  /\ UNCHANGED <<up, handle, records, engine, userAbort, counters>>

\* ensure_started fails: only the omp worker is a process that may not spawn.
PromptSpawnFails(r) ==
  /\ ~Orbit
  /\ Advance(r, "logged", "settling")
  /\ Finish(r, "spawn_failed")
  /\ UNCHANGED <<up, handle, turnStarts, turnEnds, exec, engine, userAbort, pump, counters>>

\* resume_session: blocks on the context lock the run thread holds in a turn.
PromptResume(r) ==
  /\ Advance(r, "declared", "resumed")
  /\ Orbit => turn.phase \in {"none", "taken"}
  /\ UNCHANGED <<up, handle, records, exec, engine, userAbort, pump, counters>>

\* optional_attachments fails: the request is answered with an error.
PromptReject(r) ==
  /\ BadAttachments
  /\ Advance(r, "resumed", "rejected")
  /\ handle' = NoRun
  /\ UNCHANGED <<up, records, exec, engine, userAbort, pump, counters>>

\* orbit: the message is queued and the request answered with an ack.
PromptAck(r) ==
  /\ Orbit
  /\ Advance(r, "resumed", "acked")
  /\ queue' = Append(queue, r)
  /\ handle' = NoRun
  /\ UNCHANGED <<up, records, exec, turn, abortFlag, events, userAbort, pump, counters>>

\* omp: the request blocks for the whole turn, with the handle lock.
PromptSendOmp(r) ==
  /\ ~Orbit
  /\ Advance(r, "resumed", "waiting")
  /\ UNCHANGED <<up, handle, records, exec, engine, userAbort, pump, counters>>

\* omp: prompt returned Ok, or the wire failed.
PromptReturnOmp(r) ==
  /\ Advance(r, "waiting", "settling")
  /\ \E status \in {"ok", "failed"} : Finish(r, status)
  /\ UNCHANGED <<up, handle, turnStarts, turnEnds, exec, engine, userAbort, pump, counters>>

PromptLogEnd(r) ==
  /\ Advance(r, "settling", "done")
  /\ RecordEnd(r)
  /\ handle' = NoRun
  /\ UNCHANGED <<up, ledger, rows, turnStarts, exec, engine, userAbort, pump, counters>>

PromptStep(r) ==
  \/ PromptLogStart(r) \/ PromptDeclare(r) \/ PromptSpawnFails(r)
  \/ PromptResume(r) \/ PromptReject(r) \/ PromptAck(r)
  \/ PromptSendOmp(r) \/ PromptReturnOmp(r) \/ PromptLogEnd(r)

-----------------------------------------------------------------------------
(* The engine's run thread (orbit).                                        *)

\* recv, then abort_flag.store(false).
TurnTake ==
  /\ up /\ turn.phase = "none" /\ queue # <<>>
  /\ turn' = [run |-> Head(queue), phase |-> "taken", reviews |-> 0]
  /\ queue' = Tail(queue)
  /\ abortFlag' = FALSE
  /\ UNCHANGED <<up, prompt, handle, records, exec, events, userAbort, pump, counters>>

\* ctx.lock(), held until the turn returns.
TurnBegin ==
  /\ up /\ turn.phase = "taken"
  /\ turn' = [turn EXCEPT !.phase = "running"]
  /\ UNCHANGED <<up, prompt, handle, records, exec, queue, abortFlag, events,
                 userAbort, pump, counters>>

\* exit_plan_mode: ScopedReviewPort::review submits the question ...
TurnAsk ==
  /\ up /\ turn.phase = "running" /\ turn.reviews < MaxReviews
  /\ turn' = [turn EXCEPT !.phase = "asking", !.reviews = @ + 1]
  /\ UNCHANGED <<up, prompt, handle, records, exec, queue, abortFlag, events,
                 userAbort, pump, counters>>

\* ... then parks the execution slot ...
TurnPark ==
  /\ up /\ turn.phase = "asking"
  /\ turn' = [turn EXCEPT !.phase = "parked"]
  /\ exec' = [status |-> "AwaitingReview", run |-> NoRun]
  /\ UNCHANGED <<up, prompt, handle, records, queue, abortFlag, events,
                 userAbort, pump, counters>>

\* ... and frees it when the answer comes or wait_timeout cancels the question.
TurnUnpark ==
  /\ up /\ turn.phase = "parked"
  /\ turn' = [turn EXCEPT !.phase = "running"]
  /\ exec' = IdleExec
  /\ UNCHANGED <<up, prompt, handle, records, queue, abortFlag, events,
                 userAbort, pump, counters>>

\* Mutant: the panic handler emits a second AgentEnd for a turn that ended.
TurnEndTwice ==
  /\ up /\ turn.phase = "running"
  /\ \E stop \in IF abortFlag THEN Stops ELSE Stops \ {"aborted"} :
        events' = events \o <<[of |-> turn.run, stop |-> stop], [of |-> turn.run, stop |-> "failed"]>>
  /\ turn' = [turn EXCEPT !.phase = "ended"]
  /\ UNCHANGED <<up, prompt, handle, records, exec, queue, abortFlag, userAbort, pump, counters>>

\* The turn emits AgentEnd, "aborted" only if the loop saw the flag.
TurnEnd ==
  /\ up /\ turn.phase = "running"
  /\ \E stop \in IF abortFlag THEN Stops ELSE Stops \ {"aborted"} :
        events' = Append(events, [of |-> turn.run, stop |-> stop])
  /\ turn' = [turn EXCEPT !.phase = "ended"]
  /\ UNCHANGED <<up, prompt, handle, records, exec, queue, abortFlag,
                 userAbort, pump, counters>>

\* The closure returns and drops the context lock.
TurnRelease ==
  /\ up /\ turn.phase = "ended"
  /\ turn' = NoTurn
  /\ UNCHANGED <<up, prompt, handle, records, exec, queue, abortFlag, events,
                 userAbort, pump, counters>>

TurnStep ==
  \/ TurnTake \/ TurnBegin \/ TurnAsk \/ TurnPark \/ TurnUnpark \/ TurnEnd \/ TurnRelease

-----------------------------------------------------------------------------
(* The event pump.                                                         *)

\* recv an AgentEnd and snapshot the run in the slot; an event without a run
\* is only broadcast.
PumpTake ==
  /\ up /\ pump.phase = "idle" /\ events # <<>>
  /\ events' = Tail(events)
  /\ pump' = IF exec.status = "Running"
             THEN [PumpAt("check") EXCEPT !.run = exec.run, !.of = Head(events).of,
                                          !.stop = Head(events).stop]
             ELSE pump
  /\ UNCHANGED <<up, prompt, handle, records, exec, queue, turn, abortFlag,
                 userAbort, counters>>

\* Mutant: the turn log is closed first, the ledger never.
PumpCheckSkipsFinish ==
  /\ up /\ pump.phase = "check"
  /\ pump' = [pump EXCEPT !.phase = IF ledger[pump.run] # "open" THEN "clear" ELSE "log"]
  /\ UNCHANGED <<up, prompt, handle, records, exec, engine, userAbort, counters>>

\* close_run_on_agent_end: a settled run is left alone, an abort the user
\* asked for is booked as paused.
PumpCheck ==
  /\ up /\ pump.phase = "check"
  /\ pump' = IF ledger[pump.run] # "open"
             THEN [pump EXCEPT !.phase = "clear"]
             ELSE [pump EXCEPT !.phase = "finish",
                               !.status = IF userAbort /\ pump.stop = "aborted"
                                          THEN "paused" ELSE pump.stop]
  /\ UNCHANGED <<up, prompt, handle, records, exec, engine, userAbort, counters>>

PumpFinish ==
  /\ up /\ pump.phase = "finish"
  /\ Finish(pump.run, pump.status)
  /\ pump' = [pump EXCEPT !.phase = "log"]
  /\ UNCHANGED <<up, prompt, handle, turnStarts, turnEnds, exec, engine, userAbort, counters>>

PumpLogEnd ==
  /\ up /\ pump.phase = "log"
  /\ RecordEnd(pump.run)
  /\ pump' = [pump EXCEPT !.phase = "clear"]
  /\ UNCHANGED <<up, prompt, handle, ledger, rows, turnStarts, exec, engine, userAbort, counters>>

\* try_clear_run: compare-and-reset.
PumpClear ==
  /\ up /\ pump.phase = "clear"
  /\ exec' = IF exec = [status |-> "Running", run |-> pump.run] THEN IdleExec ELSE exec
  /\ pump' = PumpAt("idle")
  /\ UNCHANGED <<up, prompt, handle, records, engine, userAbort, counters>>

PumpStep == PumpTake \/ PumpCheck \/ PumpFinish \/ PumpLogEnd \/ PumpClear

-----------------------------------------------------------------------------
(* The user, and the daemon process.                                       *)

\* event.subscribe on the worker topic also starts the pump.
Subscribe ==
  /\ Orbit /\ up /\ handle = NoRun /\ pump.phase = "off"
  /\ pump' = PumpAt("idle")
  /\ UNCHANGED <<up, prompt, handle, records, exec, engine, userAbort, counters>>

\* worker.abort, under the handle lock; the flag is the orbit engine's.
Abort ==
  /\ up /\ handle = NoRun /\ aborts < MaxAborts
  /\ aborts' = aborts + 1
  /\ userAbort' = TRUE
  /\ abortFlag' = Orbit
  /\ UNCHANGED <<up, prompt, handle, records, exec, queue, turn, events,
                 pump, children, crashes>>

\* A turn starts a subagent, which is handed the engine's own flag.
TurnFork ==
  /\ up /\ turn.phase = "running" /\ children < MaxForks
  /\ children' = children + 1
  /\ UNCHANGED <<up, prompt, handle, records, exec, engine, userAbort, pump, aborts, crashes>>

\* A subagent ends, in its turn or long after: the guard of run_subagent
\* raises the flag, which no user asked for.
ForkEnds ==
  /\ up /\ children > 0
  /\ children' = children - 1
  /\ abortFlag' = TRUE
  /\ UNCHANGED <<up, prompt, handle, records, exec, queue, turn, events, userAbort, pump,
                 aborts, crashes>>

\* Every start and every finish of a run, of this session or of another one,
\* truncates the ledger's file and writes its rows one by one: a death may
\* leave the first rows only.  (Dying within this session's own rewrite is
\* dying after it with the rows cut short.)
Crash ==
  /\ up /\ crashes < MaxCrashes
  /\ crashes' = crashes + 1
  /\ up' = FALSE
  /\ prompt' = [r \in Runs |-> IF prompt[r] = "new" THEN "new" ELSE "lost"]
  /\ handle' = NoRun
  /\ exec' = IdleExec
  /\ queue' = <<>>
  /\ turn' = NoTurn
  /\ abortFlag' = FALSE
  /\ userAbort' = FALSE
  /\ events' = <<>>
  /\ pump' = PumpAt("off")
  /\ children' = 0
  /\ \E kept \in 0..Len(rows) :
       /\ rows' = SubSeq(rows, 1, kept)
       /\ ledger' = [r \in Runs |-> IF \E i \in 1..kept : rows[i] = r THEN ledger[r] ELSE "none"]
  /\ UNCHANGED <<turnStarts, turnEnds, aborts>>

\* Daemon::start: repair_interrupted_runs closes the log, the ledger is
\* read back as it was.
Restart ==
  /\ ~up
  /\ up' = TRUE
  /\ turnEnds' = [r \in Runs |-> IF turnEnds[r] < turnStarts[r]
                                 THEN turnStarts[r] ELSE turnEnds[r]]
  /\ UNCHANGED <<prompt, handle, ledger, rows, turnStarts, exec, engine, userAbort, pump, counters>>

Next ==
  \/ \E r \in Runs : PromptOpen(r) \/ PromptStep(r)
  \/ TurnStep
  \/ PumpStep
  \/ Subscribe
  \/ Abort
  \/ TurnFork \/ ForkEnds
  \/ Crash
  \/ Restart

Spec == Init /\ [][Next]_vars

\* Every thread of a running daemon keeps running; a review ends by its
\* timeout, a turn by its round limit.  Clients, users and crashes are free.
Fairness ==
  /\ \A r \in Runs : WF_vars(PromptStep(r))
  /\ WF_vars(TurnTake \/ TurnBegin \/ TurnPark \/ TurnUnpark \/ TurnRelease)
  /\ WF_vars(TurnEnd)
  /\ WF_vars(PumpStep)
  /\ WF_vars(Restart)

FairSpec == Spec /\ Fairness

-----------------------------------------------------------------------------
(* Properties.                                                             *)

\* The turn log keeps at most one TurnStart and one TurnEnd for a run, and no
\* end without a start, whichever of the handler, the pump and the startup
\* repair wrote them (dispatch.rs close_run_on_agent_end, "exactly one
\* TurnEnd per TurnStart").
TurnLogBalanced == \A r \in Runs : turnEnds[r] <= turnStarts[r] /\ turnStarts[r] <= 1

\* While the daemon that opened a run lives, the log never says the run ended
\* before the ledger does: a reader of the log finds a settled run.
LogFollowsLedger ==
  \A r \in Runs : turnEnds[r] > 0 /\ prompt[r] # "lost" => ledger[r] \in ClosedStatuses

\* After a restart no run of the dead process is open in the turn log
\* (server.rs repair_interrupted_runs).
RepairClosesLog == \A r \in Runs : up /\ prompt[r] = "lost" => turnEnds[r] = turnStarts[r]

\* The AgentEnd of a turn settles the run of that turn and no other run
\* (dispatch.rs 285-297: frames belong to the run of the in-flight prompt).
EndClosesItsOwnRun ==
  [][\A r \in Runs : pump.phase = "finish" /\ up' /\ ledger'[r] # ledger[r] => r = pump.of]_vars

\* Nothing is left that could still close a run.
Quiet ==
  /\ up /\ handle = NoRun /\ queue = <<>> /\ turn.phase = "none"
  /\ events = <<>> /\ pump.phase \in {"off", "idle"}

\* A run is open in the ledger only while something is on its way to close
\* it: no run stays half open (dispatch.rs 987-993).
NoRunLeftOpen == Quiet => \A r \in Runs : ledger[r] # "open"

-----------------------------------------------------------------------------
(* The inductive invariant behind the safety properties.                   *)

At(r, statuses, starts, ends) ==
  ledger[r] \in statuses /\ turnStarts[r] = starts /\ turnEnds[r] = ends

\* Stages of a prompt in which the pump may close the run.
Declared == {"declared", "resumed", "acked", "rejected"}

\* The records of a run, by the stage of its prompt.
RecordsInv(r) ==
  /\ prompt[r] = "new" => At(r, {"none"}, 0, 0)
  /\ prompt[r] = "opened" => At(r, {"open"}, 0, 0)
  /\ prompt[r] \in {"logged", "waiting"} => At(r, {"open"}, 1, 0)
  /\ prompt[r] = "settling" => At(r, ClosedStatuses, 1, 0)
  /\ prompt[r] = "done" => At(r, ClosedStatuses, 1, 1)
  /\ prompt[r] \in Declared =>
       \/ At(r, {"open"}, 1, 0)
       \/ At(r, ClosedStatuses, 1, 1) /\ Orbit
       \/ At(r, ClosedStatuses, 1, 0) /\ pump.phase = "log" /\ pump.run = r
  /\ prompt[r] = "lost" =>
       \/ At(r, {"none", "open"}, 0, 0)
       \/ At(r, Statuses, 1, 0) /\ ~up
       \/ At(r, Statuses, 1, 1)

\* Only one of the handler (omp) and the pump (orbit) closes runs.
CloserInv ==
  /\ Orbit => \A r \in Runs : prompt[r] \notin {"waiting", "settling", "done"}
  /\ ~Orbit => pump.phase = "off"

\* The slot and the pump name runs whose prompts were declared.
SlotInv == exec.status = "Running" /\ Orbit => prompt[exec.run] \in Declared

PumpInv ==
  /\ pump.phase \in PumpPhases => prompt[pump.run] \in Declared
  /\ pump.phase = "finish" => At(pump.run, {"open"}, 1, 0)
  /\ pump.phase = "log" => At(pump.run, ClosedStatuses, 1, 0)

DownInv == ~up => \A r \in Runs : prompt[r] \in {"new", "lost"}

IInv ==
  /\ TypeOK
  /\ \A r \in Runs : RecordsInv(r)
  /\ CloserInv
  /\ SlotInv
  /\ PumpInv
  /\ DownInv

-----------------------------------------------------------------------------
(* The two durable records implement RunBook.                              *)

Stage(r) ==
  LET log == <<turnStarts[r], turnEnds[r]>>
  IN CASE ledger[r] = "none" /\ log = <<0, 0>> -> "unseen"
       [] ledger[r] = "open" /\ log = <<0, 0>> -> "opened"
       [] ledger[r] = "open" /\ log = <<1, 0>> -> "started"
       [] ledger[r] \in ClosedStatuses /\ log = <<1, 0>> -> "settled"
       [] ledger[r] \in ClosedStatuses /\ log = <<1, 1>> -> "ended"
       [] ledger[r] = "open" /\ log = <<1, 1>> -> "orphaned"
       [] ledger[r] = "none" /\ log = <<1, 0>> -> "erased"
       [] ledger[r] = "none" /\ log = <<1, 1>> -> "forgotten"
       [] OTHER -> "broken"

Book == INSTANCE RunBook WITH book <- [r \in Runs |-> Stage(r)]

\* Ledger and turn log advance in RunBook's order: open, TurnStart, settle,
\* TurnEnd.  Only a death takes a step back, in the ledger alone, where a
\* rewrite of the file was cut short (state.rs flush); only a restart closes
\* the log of a record that is open or lost.
RecordsInOrder == Book!Spec
=============================================================================
