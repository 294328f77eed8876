# A verification development for kymido

TLA+ modules, model-checked with TLC and proved about with TLAPS, for the
concurrent and durable core of this repository: the `kymido` daemon, which
runs coding-agent turns for terminal and web clients, the stores it keeps, the
processes it talks to and the two clients that follow it.

1. Inventory - 2. The modules - 3. The runs - 4. Fairness - 5. What is proved -
6. Not modelled - 7. Observations - 8. What could come next - 9. Running the checks

## 1. Inventory

The workspace is a set of Rust crates around one long-lived process.

| Part | Code | State | Hard behaviour | Module |
|---|---|---|---|---|
| Prompt and run lifecycle | `daemon` `dispatch.rs`, `rpc/worker.rs`, `exec_state.rs`; `session/turn_log.rs` | handle lock, context lock, execution slot, abort flags, message queue, event stream | four threads share the slot; the close is asynchronous; review parks; aborts race; a crash between two durable writes | `RunLifecycle`, `RunBook` |
| Run ledger and statistics | `daemon/state.rs` | rows, sequence numbers, JSONL file | the file is rewritten in place while it may crash; incremental readers | `RunLedger`, `RunStats` |
| Instance lock | `daemon` `lock.rs`, `socket.rs` | lock file, flock, pid text, socket file | crash with stale files, starts and stops at once | `InstanceLock` |
| Start and stop of a daemon | `daemon` `main.rs`, `server.rs`, `client.rs`; `kymido` `sess.rs`; `tui/autostart.rs` | launchers that probe, spawn and wait; shutdown flag, threads to join | several launchers at once, a stop beside them, a start that fails or takes longer than its launcher waits, an accept loop that ends on an error, a join that waits for a turn | `DaemonLife` |
| Registry, attachments, reaper | `daemon` `registry.rs`, `reaper.rs`, `server.rs` | handles per session, attach counts, idle clocks | check-then-act between tick and attach; a tree of sessions | `SessionReaper` |
| Plan mode, questions, reviews | `plan-mode`, `daemon/questions.rs` | active flag, pending change; pending questions | two-phase changes that land between turns; an answer against its timeout | `PlanReview` |
| Event bus and daemon client | `daemon` `state.rs`, `server.rs`, `client.rs` | topic table, a channel and two threads per connection | slow, dead and half-dead connections during a broadcast | `EventBus` |
| Agent loop and compaction | `agent-loop` `orbit/`, `compaction/` | conversation, rounds, steering and aside queues, abort flags | an abort between any two steps, retries, forks that share the flag, a cut that splits a call from its result | `AgentLoop`, `Compaction` |
| Model calls | `llm`, `agent-loop/orbit/fallback.rs` | attempt, provider, line parser, tool call fragments | streams that break off, retries after part of a reply was handed on | `ModelStream` |
| Session store | `session` `lib.rs`, `archive.rs` | rows in SQLite, one archive file per session | two stores that must agree through crashes and concurrent callers | `SessionStore`, `Transcript` |
| Catalog of sessions and its sweep | `session/lib.rs`, `daemon` `dispatch.rs`, `state.rs`; `kymido` `sess.rs` | the rows and archives of all sessions, the clock they are used on | a list made once and worked off while sessions are used, limits and a minimum to keep | `SessionCatalog` |
| Opening of the store | `session/lib.rs` `SessionDb::open` | journal mode, tables, columns | two processes that migrate one file, busy locks, a kill between two statements | `StoreOpening` |
| Background jobs | `jobs/lib.rs`, `tools/jobs_terminal` | job table, waiters, a thread per job | a kill racing the task's return, forgetting, completion notices | `Jobs` |
| Subagents | `subagent` `acp_provider.rs`, `acp.rs`, `runtime.rs`, `runner.rs` | one process, five threads, the table of live runs | the tear-down closes what the worker uses; who reaps the process | `AcpRun`, `AgentLoop` |
| MCP client | `mcp` | a pipe or HTTP, one lock, request ids | late, stale and missing replies, hung servers, retries | `McpClient` |
| omp worker client | `daemon/rpc` | child process, pull and push mode, pending table | the child dies with a request in flight | `OmpPump` |
| Terminals | `terminal` `lib.rs`, `screen.rs` | pty sessions, buffers, a screen, two threads each | threads that block on the shell and the shell on them; wide glyphs | `Terminal`, `ScreenFrame` |
| Record files | `store/jsonl.rs`, `store/store.rs`, `memory/lib.rs` | an append-only file under a lock | torn tails, trims, compaction | `JsonlFile` |
| Task graph and its runner | `store` `graph.rs`, `template.rs`; `kymido` `commands/task.rs`; `daemon/runner.rs` | tasks, dependencies, `run.pid` | cycles through five commands, two workers for one task | `TaskGraph` |
| Full-screen client | `tui/app.rs` | projection of a session, queue, pending rewrites | places that go stale, subscriptions across a switch | `TuiClient` |
| Web client | `web-ui`, `web-state`, `web-client` | page, sender threads, gate, subscription | events that do not say whose they are, late failures | `WebClient` |
| Guards, tools, skills, web tools, plugins, configuration, prompts, protocol types, command line programs, startup sweep | `guard`, `tools`, `skill`, `web-tool`, `plugin`, `config`, `prompts`, `protocol`, `bin`, `daemon/startup_sweep.rs` | values and I/O | see section 6 | - |

How they interact: a client connects to the Unix socket (`server.rs`); every
connection has a read loop in a thread of its own, which routes each request to
a session handle (`registry.rs`), locks it and dispatches. A prompt is handed
over a channel to the engine's run thread, which runs the agent loop and emits
events; the event pump forwards them to the event bus and closes runs in the
ledger and in the turn log. The loop calls models, tools, MCP servers, jobs,
terminals and subagents. The reaper reads the ledger and the attach counts and
unloads sessions. A review blocks the run thread until a connection answers.
Clients follow a session through the bus and keep a projection of it.

### What makes each component correct

- **Run lifecycle.** Every run the ledger opens is closed once, by the event
  of its own turn; the turn log has one `TurnStart` and one `TurnEnd` for it,
  never an end before the ledger settled; a restart closes what a crash left.
- **Run ledger.** A settled run is never open again; a cursor reader is sent
  every run; a statistics window needs no row it does not keep.
- **Instance lock.** One process owns the socket; nothing a crash left behind
  blocks the next start; the files name the daemon that serves - as long as
  nobody starts beside the end of a clean stop.
- **Start and stop.** Launchers that overlap meet in one daemon; none fails
  because it met another, only by a stop, an error or a slow start; nobody waits
  for good.
- **Registry and reaper.** An engine is dropped only if it was idle when it was
  looked at, and stays reachable unless its session was reached meanwhile; an
  engine nobody uses is dropped, a parent after its children.
- **Plan mode.** The mode ends only by the user's will; a pending change can
  land; every prompt returns.
- **Event bus.** A subscriber sees its topic's events complete and in order; a
  dead connection costs nobody else an event, and its threads end.
- **Agent loop.** Every request is well formed (calls paired with results),
  whatever was aborted, cut or retried; every prompt comes back.
- **Model calls.** What a consumer is handed comes from one reply; after an
  abort at most one more request goes out.
- **Session store.** No message a client counts on is in neither store.
- **Catalog.** A sweep archives what was idle when it made its list, never what
  was in use then (use after the listing does not save a session).
- **Opening.** An opened store has every table and column of this build.
- **Jobs.** State, reports, listings and waits tell one story of how a job
  ended; the session hears of every kill, once nobody holds the job's pipes.
- **Subagents.** A torn-down run ends unless its pipe is stuck or inherited.
- **MCP and omp clients.** A reply reaches the caller of its request and no
  other; a call ends unless a server leaves a full pipe unread; when the child
  dies everybody is told.
- **Terminals.** Output is drained whoever is blocked; a frame shows what was
  read; lines stay aligned.
- **Record files.** What was acknowledged can be read back.
- **Task graph.** No cycle, no dangling dependency, one worker per task.
- **Clients.** What is cut off is what was pointed at; a reply is shown and
  stored once, in the session that asked.

## 2. The modules

Each module models one component: its state as VARIABLES, one action per
operation or step that another thread can see. `MC*.tla` put components side
by side for TLC (section 3). Operators whose comment begins with "Mutant" are
variants of an action with a plausible bug; no specification uses them.

### RunLifecycle and RunBook

One session, its runs, and the four kinds of thread that touch them.

| Model | Code |
|---|---|
| `prompt[r]`, `handle`, actions `Prompt*` | the `WorkerPrompt` arm of `dispatch.rs` under `with_session`: `runs.start`, `record_turn(TurnStart)`, `ensure_event_pump`, `ensure_started`, `set_active_run`, `resume_session`, then either the orbit ack or the blocking omp prompt with its own close |
| `queue`, `turn`, `abortFlag`, actions `Turn*` | the run thread of `OrbitEngine::new` in `rpc/worker.rs`: `recv`, reset of the abort flag, the context lock for the whole turn, `AgentEnd`, release |
| `TurnAsk`, `TurnPark`, `TurnUnpark` | `ScopedReviewPort::review` in `questions.rs` as far as it moves the slot |
| `exec` | `ExecState` in `exec_state.rs` |
| `events`, `pump`, actions `Pump*` | the thread of `ensure_event_pump`: attribute the event, `close_run_on_agent_end` (ledger, then turn log), `try_clear_run`; each lock acquisition a step of its own |
| `Subscribe`, `Abort` | the `EventSubscribe` and `WorkerAbort` arms |
| `children`, `TurnFork`, `ForkEnds` | a subagent that is handed the engine's own flag (`fork.rs`), whose drop guard raises it (`runner.rs`), in its turn or later |
| `Crash`, `Restart` | process death in the middle of a ledger rewrite or elsewhere (`state.rs`, `flush`): a prefix of the ledger's rows is left; `repair_interrupted_runs` in `server.rs` with the closers of `session/src/turn_log.rs` |
| `ledger`, `turnStarts`, `turnEnds` | status of the run in `RunLedger`; number of boundary records in the turn log |

`Orbit` selects the in-process engine or the omp worker, `Overlap` lets a
client prompt while a run is in flight, `BadAttachments` lets a prompt fail
after its run was opened. `RunBook` is the abstract specification: for each run
the stages *unseen, opened, started, settled, ended*, *orphaned* for a run
whose log was closed by a repair, and *erased* or *forgotten* for one whose row
a crash cut off, before or after it had a log; `RecordsInOrder` is `RunBook!Spec` under the
map `Stage(r)`.

### InstanceLock

Any number of processes start, serve, stop or die. Files are inodes: the path
`<socket>.lock` names one, a process holds one open, and the flock belongs to
the inode. Actions follow `InstanceLock::acquire` (open, flock, stale pid, pid
file), `Listener::bind`, and the drop order of `Daemon` (listener and socket
file, unlock, pid file, lock file). `Die` frees the flock and leaves the files;
`AcceptFails` leaves a daemon that holds the lock without a socket. Everything
may overlap. Because the lock file is unlinked after the unlock, a start beside
that moment can make two owners or have its files taken: `crossed` is the set of
processes that opened the lock file at such a moment, or beside one that did,
and the properties are about everybody else.

### DaemonLife

Launchers (`kymido daemon start`, a tui at its gate) probe, spawn a process and
wait for it to answer; a process takes the lock, opens its database and repairs
what a dead daemon left, binds, serves, is told to stop by a command or a signal,
joins its accept loop and its reaper, resets its handles and is gone. A launcher
gives up on time alone, after any probe that said no. The accept loop may end on
an error, and the process keeps the lock.
A prompt may hold a handle lock for a turn, and a ping of the omp-compat worker
waits for it. The files are `InstanceLock`'s: here a live process has the lock
and another one is refused. `broken` remembers a start that failed by itself,
`deaf` whose loop ended on an error, `late` which launchers gave up on a start
that had not reached its socket.

### SessionReaper

Connections attach, resolve a handle, lock it, dispatch and close; the reaper
walks the sessions of the registry and reads the attach count, the ledger, the
slot and the tree, each as a step of its own, with connections in between, and
then takes the entry from the registry, whatever has come to the session since.
`moved` has the sessions that were reached since the attach count was read,
`stray` the engines that were unloaded although their session had moved, and
`again` the sessions that a connection prompted twice, whose count is never
undone (section 7).

### RunLedger and RunStats

The rows, the file as the complete rows in it, and a rewrite (`FlushOpen`
truncates, one `FlushRow` per row, `FlushDone` or `FlushFail`). Readers take
the same mutex, so a rewrite is divided only for crashes and failures. The wall
clock may go back: each call takes any value of `Times`. `RunStats` has
`aggregate_stats` and `bucket_runs` as pure operators over rows that are a
function of their places; the ranges a page may ask for are `RunLedger`'s
`Window` and all time.

### PlanReview

`active` and `pending` are the fields of `PlanModeState`; every change is
prepared in one critical section and committed in another, and the model has
both. A connection dispatches a prompt, a run thread runs turns whose
`exit_plan_mode` submits a question, parks, waits, times out or receives, and
parks an approved exit for the next prompt. `Answer` takes the route of the
code: to the session its connection prompted last, waiting for that handle's
lock. Every command that differs in effect is a member of `Commands`.

### SessionStore and Transcript

One session with its rows and its archive file; a message is a number. Append,
truncate, edit, rewind, delete, archive, restore and the sweep are actions of
callers in two processes; one call to the database is one step, an archive and
a restore are several with the file in between, and a crash may come anywhere.
`Careful` is the environment in which nobody writes between the steps of an
archive nor to an archived session. `Transcript` is what is promised of a
session: its messages change by what clients ask for and nothing else;
`ImplementsTranscript` maps the two stores to it.

### SessionCatalog and StoreOpening

`SessionCatalog` has every session of a store and the clock: create, append,
use, archive, restore, delete, each one step, and the sweep
(`compress_idle_sessions`), which lists the idle sessions once, then archives
them one at a time with other requests in between. `StoreOpening` has
`SessionDb::open` statement by statement (pragmas, journal mode, schema, the
columns added over time; of the schema's batch the tables, sessions and messages
as one) for processes that open the same file, which an older build may have
made; a statement may find the lock busy, and a process may be killed between
two of them.

### Jobs

One step per section under the registry's lock: the thread of a job (shell,
readers of its pipes, final section, completion hook), a descendant that keeps
the pipes when the shell is gone, kill, wait in slices, listings, remove and
shutdown. `told[j]` is everything any caller was told of how `j` ended.

### AgentLoop and Compaction

The run thread: take a prompt, inject notes, compact, call the model, run the
tool calls one by one, look at the abort flag where the code does, retry
truncated replies and repeated errors. A message is its kind and the ids of
its calls. `Compaction` has the cut (`policy.rs`), its move to a balanced
place (`pairing.rs`) and the summary as operators over sequences of messages.
The outcomes of a model call are those `ModelStream` can produce. A fork is
handed the engine's own abort flag and raises it when it is dropped.

### ModelStream

One call: the waterfall over providers, the attempts of one provider, the
status, the stream line by line with the fragments of tool calls, the backoff,
and the abort read where the code reads it. Of a delta the model keeps what it
is and the request it came in, which is what the properties are about.

### AcpRun

A subagent that is a process: the worker that drives its turn, the reader of
its answers, the exit watcher, the interrupt ladder and the retirement, with
the pipes and locks they share. A line is written to the agent in chunks under
the writer's lock, by the worker, by the reader that answers a permission or by
the ladder's cancel, and a full pipe holds whoever writes. The agent is external
and may do anything, which includes leaving its end of the pipe to a child.

### McpClient and OmpPump

`McpClient`: bring-up (initialize, acknowledgement, pages of tools), then
calls from several threads over one locked pipe whose replies may be late or
stale and which the server may leave full, or over HTTP with retries. `OmpPump`: requests in pull mode, the first
subscription that hands the child to a pump thread, the queue of requests, the
pending table, chunked frames, forwarders, death and drop.

### Terminal and ScreenFrame

`Terminal` counts bytes: written by the shell, read, appended, drawn, fed; and
has the reader thread, the reply writer, the shell behind a bounded pty, a job
of the shell's in a process group of its own, which no signal reaches and which
keeps the pty open, and the calls of the tools with the locks they take.
`ScreenFrame` is one row of the grid, with wide glyphs and spacers, and the box
line, the cursor mark and the SVG columns made of it; a glyph has the width that
the grid gives it and the one that `char_cells` takes it for.

### EventBus

The bus with its pruning, the two threads of a connection and their tear-down,
a socket of bounded capacity, and the client that subscribes. `sent[c]` is
every line put into a connection's channel; what was written and read are
prefixes of it.

### JsonlFile and TaskGraph

`JsonlFile` is a file of lines under append, load, trim and compaction, as the
memory uses it (`Heals = TRUE`) and as the task store does; a crash may cut an
append. `TaskGraph` has every command that changes a task or a dependency as
one step and a run as a process that keeps the record it loaded until it has
an outcome.

### TuiClient and WebClient

`TuiClient` is the one thread of the full-screen client: send what is queued,
take a key, absorb events, begin again; against a daemon that runs turns. Its
submits, edits, rewinds and retries name messages by their place.
`WebClient` is the page: what its handlers do at once, and the threads they
leave behind with no order between them, the readiness gate, the subscription
loop and the consumer, which writes the events to the session of the last send.

## 3. The runs

Twelve runs: four compositions that pass, and eight that end in a
counterexample. A passing run puts several components side by side: the
variable `part` (`env` in `MCDaemon`) is chosen in the initial state, and only
that component moves, in exactly its own Init, Next and fairness. So a run's
state space is the sum of the parts', each part is checked as if it were
alone, and a component's fairness asks nothing of a behaviour that picked
another part (its actions are disabled in the state in which it stays). Modules
with theorems are EXTENDED by the composition, so that TLC evaluates their
ASSUMEs and the theorems are about the very definitions that are checked;
`AcpRun`, `OmpPump` and the variants of
`RunLifecycle` and `JsonlFile` are instantiated with the constants below.

Deadlock is not checked, because in each model a history ends: the runs,
prompts or bytes are used up, and an idle daemon takes no step. That what must
happen does happen is the matter of the liveness properties instead.

### Runs that pass

**`runs`** (`MCDaemon_parts.cfg`): three interchangeable runs in three
environments, and three parts.

| Part | Bounds | Properties |
|---|---|---|
| `any` | 3 runs, overlapping prompts, malformed attachments, 1 review, 1 crash that cuts the ledger anywhere | `RecordsInOrder`: the records advance in `RunBook`'s order even where runs are attributed wrongly and rows lost |
| `serial` | 3 runs, clients that wait for the close, 2 aborts | `SerialEndsOwnRun`, `ServedRunsEnd`: each run is closed by its own turn's event, none is left open while nobody works, and each reaches its `TurnEnd` |
| `omp` | 3 runs, omp worker, overlapping prompts, 1 abort, failing spawns | `ServedRunsEnd` for the blocking path, whatever the client does |
| `mcp` | 3 callers, of which one starts, 2 attempts, 2 pages, ids to 4, a pipe of 1 line, 1 line of noise | `ReplyOrReason`: a call returns its own answer or a reason; `CallsReturn`: every call returns, or a caller is stuck in a write to a full pipe for ever |
| `pump` | ids to 5, 2 forwarders, 1 unasked frame | `DeathIsTold`: requests, jobs in the queue and forwarders all hear of the end |
| `screen` | rows of up to 4 cells, labels of two widths, glyphs measured rightly or not | `FrameAligned`: runs are where the grid has them; lines are even if the glyphs are measured rightly |

**`engine_parts`** (`MCEngine_parts.cfg`): what a session runs on.

| Part | Bounds | Properties |
|---|---|---|
| `store` | 2 processes, 3 messages, 2 crashes, `Careful` | `NothingLost`, `ImplementsTranscript` |
| `jobs` | 2 jobs, a ceiling of 1, 1 waiting turn, records forgotten and shut down | `JobOneStory`, `KilledIsReported` (once nobody holds the pipes) |
| `acp` | one run, 1 permission | `AcpTornDownEnds` (or a writer is stuck, or the agent left its pipe to a child) |
| `loop` | 2 prompts, 2 rounds, 1 note, 1 abort, 1 panic, one reply of three calls that include a fork and `mark_done`, a budget that overflows after one tool round | `RequestsPaired`, `NewestKept`, `PromptsEnd` |
| `reaper` | a parent and its child, 2 connections, 1 prompt each, 2 handles per session, a grace of 2 ticks, every step between any two reads | `TurnIsReachable`, `ReaperSound` (what is unloaded was idle when it was read, what is idle is unloaded) |
| `stream` | 2 providers, 2 attempts, 3 lines, 2 tool calls | `OneReply`, `AbortStops` |

**`edge_parts`** (`MCEdge_parts.cfg`): what faces the clients.

| Part | Bounds | Properties |
|---|---|---|
| `plan` | 1 session, 2 connections, 3 prompts, 2 reviews, every command | `PendingIsAChange`, `LeaveByUser`, `AnsweredOnce`, `PromptReturns` |
| `terminal` | 1 session, 1 caller, 3 bytes through a buffer of 2 and a pty of 1, 1 reply | `FrameCoversRead`, `TerminalEnds` (output drains; threads end, unless a job keeps the pty) |
| `bus` | 1 topic, 2 connections, 2 events, a socket of 1 line | `PushesComplete`, `ConnectionEnds` |
| `tui` | 2 sessions, 4 submits, 2 rewrites, a queue of 2, one turn without an answer | `ViewIsLedger`, `ClientsFollow` (a delivered turn is seen to end) |
| `web` | an old and a new session, 2 sends, 1 archive or restore | `PageTrue` (an archived session stays out, a reply stays home), `ClientsFollow` (sends settle) |

**`safety_parts`** (`MCSafety_parts.cfg`): the parts of which everything checked is
safety, with one symmetry over three values that serve as runs, processes and
tasks.

| Part | Bounds | Properties |
|---|---|---|
| `ledger` | 3 runs, 2 instants, 1 crash, 1 failing rewrite, 2 ranges, 3 buckets | `SettledStaysSettled`, `CursorMissesNothing`, `StatsComplete` |
| `lock` | 3 processes, 3 inodes, crashes, failing accepts and clean stops anywhere | `OneOwner`, `FilesNameDaemon`, of all but those that opened the lock file beside a late cleanup |
| `memory`, `store` | 2 users, 3 or 4 records, 2 crashes for the memory | `AcknowledgedKept` |
| `graph` | 3 tasks, 1 runner, 12 templates | `GraphSound` |
| `catalog` | 2 sessions, an idle time of 1, a clock to 4, 4 uses, a batch of 1, `--keep` of 0 or 1 | `SweepsRight` |
| `opening` | 2 processes, 1 retry, a new file or one that lacks any of the columns | `OpenIsComplete` |
| `life` | 2 launchers, one a tui, 1 turn, a stop command, signals, failing starts and accepts, any time-out | `DaemonSettles` |

Why the bounds suffice. Three runs are needed for a pump that closes one run
while a second owns the slot and a third waits for the context lock. Three
processes are needed for a start that keeps an unlinked inode, a stop and a
second start. A parent and a child are the smallest tree with gating; two
handles let an unloaded session come back. A crash must tear a rewrite of at
least two rows. Three prompts enter plan mode, are reviewed and land the exit.
Three bytes fill a buffer of two and a pty of one at once, so that every
thread of a terminal can be blocked. Two tool call indexes and three lines let
fragments of calls mix and a stream break off before, inside and after them.
Two sends in two sessions are what it takes for the target of the events to
move under a turn. Two sessions and a batch of one make a sweep that leaves
something; two launchers make every overlap of probe, spawn and wait. Two jobs meet the ceiling of one. Three tasks make a cycle
that no single edge shows. What section 5 proves holds for instances of any size.

### Environments the passing runs leave out

Each is a place where TLC finds the property violated, and why the run does
not go there is said here, not hidden in a bound: `SerialEndsOwnRun` under
overlapping prompts and the closing of runs after a review (section 7,
`finding_review`); `CursorMissesNothing` after a crash; `AcknowledgedKept` of the task store after a crash
(`finding_torn_tail`), with a load beside a healing append, or with a
compaction beside an append; `NothingLost` when a session is written during an
archive or while it is archived (`finding_archive`); `GraphSound` with edits
during a run (`EditsMeetRuns = TRUE`) or templates with a backward dependency;
`ViewIsLedger` when another client's turns reach this one (`Foreign = 1`) or a
reload fails after a rewind (`Reloads = FALSE`); for the web page, replies whose run another turn
overlapped, whose session was archived or whose stream was cut (`Astray`).

Others are in the runs, and the property names the state in which the code gives
up what it promises elsewhere; without that disjunct TLC finds it violated. They
are `OneOwner` and `FilesNameDaemon` for who opened the lock file beside a late
cleanup (`crossed`); `TurnIsReachable` and the unload for a session that moved
while it was looked at (`moved`, `stray`), and the unloading of what is idle for
a session whose attach count leaks (`again`); `LaunchesMeet` after a stop, a
failed start or a failed accept, or when the start took longer than the launcher
waits (`late`); `CallsReturn` while a server leaves a full pipe unread;
`KilledIsReported` while a descendant holds the job's pipes; `AcpTornDownEnds`
with a stuck or an inherited pipe; `TerminalEnds` with a job that keeps the pty;
and the even lines of `FrameAligned` where a glyph is measured wrongly.
Section 7 says for each what the code's own comments promise instead.

### Runs that end in a counterexample

| Run | What the code does | What it says of itself |
|---|---|---|
| `finding_review` | after a plan review the slot becomes `Idle` (`questions.rs:444-450`); the turn's `AgentEnd` finds no run, and the run stays open in the ledger and the log | `dispatch.rs:240-246`: the pump is "the run's undertaker" |
| `finding_fork_abort` | a subagent's drop guard raises the flag of its request (`runner.rs:56`), which is the engine's own | `subagent/src/lib.rs:13`: "the per-subagent signal is flipped" |
| `finding_archive` | an archive replaces an older one with other messages if the rows are at least as many (`session/src/lib.rs:951`) | `lib.rs:941-948`: "only when the live rows subsume it" |
| `finding_acp_orphan` | a run that ends by itself is retired without dispose (`acp_provider.rs:319`); the process lives on and nothing can interrupt it | `acp_provider.rs:22-23`, `102-106` |
| `finding_tui_abort` | the event loop aborts the session the program started with (`app.rs:2128`), prompts go to the one shown | `web-client/src/daemon.rs:208-210` |
| `finding_torn_tail` | an append after a torn line is glued to it (`jsonl.rs:32`) | `store/tests/store_corrupt.rs:77` |
| `finding_two_workers` | the live-runner guard reads `run.pid`, which is written after the worker started (`task.rs:607`, `runner.rs:221`) | `task.rs:605`: "never double-spawn a worker for one task" |
| `finding_replay` | a stream that broke off after reasoning is asked for again (`openai.rs:433`) | `openai.rs:430`: "a replay would duplicate emitted deltas" |

## 4. Fairness

Fairness is assumed of threads only, never of clients, users, shells, servers
or crashes; where a module is instantiated beside others its fairness is that
of its own `Fairness`.

- `RunLifecycle` in `serial` and `omp`: weak fairness of each request that is
  being handled, of the run thread and of the pump. A thread that can take its
  next lock does so in the end; prompts are bounded, so no lock is contended
  for ever. `TurnEnd` has weak fairness of its own: a turn ends by its round
  limit and its stream timeouts.
- `SessionReaper`: weak fairness of the reaper's thread, of a connection's
  dispatch and of `TurnEnd`, a turn being bounded.
- `PlanReview`: weak fairness of each dispatch and each run thread, with the
  timeout of the review among its steps. No client has to prompt or answer.
- `Jobs`: a job's thread goes on, and while its shell runs it polls the flag; a
  shell nobody killed may run for ever, and a descendant may hold its pipes.
- `AcpRun`: its five threads run. The agent owes nothing: it need not exit, nor
  empty its pipe.
- `AgentLoop`: the run thread runs; model calls return (they are bounded).
- `Terminal`: reader, replier and calls run. The shell need not read or write,
  and a job of its need not end.
- `EventBus`: both threads of a connection run. No client reads.
- `TuiClient`: the loop runs and turns of its sessions end.
- `WebClient`: sender threads run, turns begin and end, the consumer runs. The
  subscription may stay down: the gate's timeout ends the wait.
- `McpClient`: callers run and deadlines expire. The server need not read.
- `OmpPump`: requests, the pump and the forwarders run. The child owes nothing
  but `DeathIsTold` speaks only of what follows its death.

## 5. What is proved

TLAPS checks every obligation; each theorem holds for all values of the
constants under the named ASSUMEs of its module, which state types and sizes of
parameters. Where a theorem has a hypothesis of its own (`Careful`,
`Mem`, `Calm`, `Quiet`, `Serves`, `~Forks`, `TuiSizes`), it is the
environment of the run that checks the property, and the list in section 3 says
what goes wrong outside it: the theorem then shows that nothing else does.

**RunLifecycleProofs.** `TypeCorrect`; then the inductive invariant `IInv` =
`TypeOK`, `RecordsInv`, `CloserInv`, `SlotInv`, `PumpInv`, `DownInv`. That a
run has at most one `TurnEnd` depends on who may write it: a run in an early
stage has no record, a declared one is open or was closed by the pump, and
between the pump's two writes it is closed in the ledger and not in the log.
`RecordsInv` says that for each stage of the prompt, `PumpInv` what the pump has
seen when it is about to write, `SlotInv` that the slot names declared runs
only, `CloserInv` that handler and pump never both close, `DownInv` that a dead
daemon has no request in progress. From it follow `Balanced`,
`LogBehindLedger`, `RepairCloses`, and `Refinement`: every step of the daemon is
a step of `RunBook` or a stutter, the crash that cuts rows off among them.
For clients that take turns, `OwnEnds` (`EndClosesItsOwnRun`) rests on
`SerialInv`: one run is in flight, the slot names it, and whatever is queued, in
its turn, announced or in the pump's hands is this run, in one of these places
at a time (`Places`). `ServedRunsAreClosed` (`NoRunLeftOpen`) adds that an open
run is always in a request or in one of the places (`ServedInv`), without
reviews, malformed prompts and crashes (`Serves`).

**DaemonProofs.** *The lock:* `Exclusive` (`OneOwner`), `RefusedOnlyByDaemon`
and `FilesName` (`FilesNameDaemon`), in every environment: starts, stops and
crashes overlap as they like. An owner that was not crossed, and whom no crossed
owner or late cleanup stands beside, holds the flock of the inode at the path
(`Straight`), and two such owners would hold the same one. *The ledger:* `LedgerTyped`, `Numbered`, `Settled`
(`SettledStaysSettled`), `TailOnly`, `CursorComplete` (`CursorMissesNothing`).
What survives a crash is in the file: it is the beginning of the rows, and
neither it nor the call in progress leaves a settled run open; a cursor stays
below the next number until a crash (`CursorInv`). *Launchers:* `LifeTypesHold`
and `OneDaemonMeets`, the half of `DaemonSettles` that is an invariant of
states: `MeetInv` has one process past the lock, and until something is stopped
or fails (`Calm`) somebody is up or on the way, who serves accepts, and every
ping is at a process with a socket: a launcher that was told no looks at a start
under way. *The sweep:* `CatalogTyped`, `SweepIsRight`
(`SweepsRight`). A row's stamps are exactly when its session was last used
(`StampsInv`), so what was listed as idle was idle; the ids still to do are
distinct, listed, unused and apart from those moved (`ToDoInv`); as many as are
to be kept are in neither (`KeepInv`, by the pigeonhole principle); and what was
to be taken is still to do, gone or used again (`TakeInv`). *The stats page:*
`StatsRight` (`StatsComplete`) for any rows, clock and number of buckets. What
the snapshot leaves out began before both windows (`SnapshotSuffices`); the
edges of the buckets rise from the start of the window (`EdgesRise`), so each of
its runs is in one bucket and the first `k` buckets count the runs below their
last edge (`SeriesSums`).

**PlanReviewProofs.** `TypeCorrect`; `Inductive` (`PendingIsAChange` and that no
boundary is stale, every question awaited, every parked session in review);
`UserLeaves` (`LeaveByUser`); `OneAnswer` (`AnsweredOnce`). A session has one
dispatch at a time, a command's mutation changes something, the run thread's
place bounds the question's number, an exit in progress was approved.

**StoreProofs.** *Sessions:* `StoreTyped`, `KeepsMessages` (`NothingLost`) and
`Implements` (`ImplementsTranscript`) where clients are `Careful`: what a clerk
between two steps holds is the content of the session (`HeldIsContent`), so
that neither the write of the file nor the deletion of the rows changes it.
*Record files:* for the memory (`Mem`: appends meet, whoever dies), `FileTyped`
and `AcknowledgedStays` (`AcknowledgedKept`): only the last line may lack its
end, who trims it is alone with the torn line he saw, and what was acknowledged,
or something newer, is in an ended line. For the task store without deaths and
with compactions that run alone (`Calm`), `StoreKeeps`: a compaction's snapshot
is still what a reader finds. *The task graph:* `GraphTypes`, `BoardMoves`
(`GraphSound`) while edits meet no run and templates have an order (`Quiet`): a
run writes back the dependencies it loaded (`PreKept`), new edges that do not
lead back close no cycle, and in a finite graph without cycles a blocked task
leads to one that is not. *Opening:* `OpenTyped`, `OpensWhole`
(`OpenIsComplete`): what an opener has passed exists and is never removed.

**ModelStreamProofs.** `Typing`; `SpeaksOnce` (`OneReply`): what was handed on
and may not be repeated is of the request in progress (`Said`); `AbortIsSeen`
(`AbortStops`): requests sent after an abort are counted, and every place from
which another one could follow has looked at the signal (`Stopped`).

**EngineProofs.** *Jobs:* `JobsTyped`, `OneEnd` (`JobOneStory`) for any number
of jobs and turns and any ceiling. `Story(j)` ties the place of a job's thread
to what was said of it: before the final section only a kill can have spoken, a
record that is still known has the outcome that was told, and a hook that fires
late repeats it. *The reaper:* `ReaperTyped`, `TurnsReachable`
(`TurnIsReachable`) and `UnloadsIdle`, the safety half of `ReaperSound`, with
connections between any two reads: a session is counted at least
once for each connection that remembers it, and what was read still holds
at the unload unless the session has moved (`Checked`). *The loop:* `LoopTyped`, `RequestsArePaired`
(`RequestsPaired`), `NewestIsSent` (`NewestKept`) and `UsersAbort`, with the
code's window of at least two messages (`LoopSizes`). `LoopInv` has calls of
distinct ids, results behind their calls, and unanswered calls only in the last
message while tools run. A cut that leaves no result without its call exists
behind the window and is found before the newest message; that the least one
exists is the least-number principle; `DaemonProofs` and `TerminalProofs` unfold
their folds with it, too.

**TerminalProofs.** `Typing` and `FrameShowsRead` (`FrameCoversRead`) for any
sessions, calls and sizes of buffer and pty. `Counted` orders the stages of a
session's output (drawn, fed, got, written; dropped, head, appended), `Knows`
says what a call relies on between its steps; `Grows` is the transition
property of the table that every step has, from which `Knows` is preserved
for all the calls that did not move. *The frame:* `FrameIsAligned`
(`FrameAligned`) for rows of any width and labels of any length. `GridInv` has
each wide glyph before its spacer and no spacer alone but in the last column;
then the runs of the first `c` columns take the cells of those columns
(`RunsAligned`, column by column), whatever `char_cells` makes of their glyphs,
and each line of the box whose glyphs are measured as the grid has them is three
cells wider than the screen (`LinesAreEven`).

**WireProofs.** *The bus:* `BusTyped`, `NoPushLost` (`PushesComplete`): whatever
was sent carries numbers that were published, and a dead channel stays dead.
*The MCP client:* `McpTyped`, `CallsHonest` (`ReplyOrReason`): a call under way
has an id of its own and a reply in the channel is the server's to the request
it names, however many stale ones lie before it. *The full-screen client:*
`TuiTyped`, `ViewFollowsLedger` (`ViewIsLedger`) where histories load again and
nobody else runs turns (`TuiSizes`): places of the view rise, a pending rewrite
points into a history nobody writes meanwhile, and the one turn under way is of
the last prompt of the session that is shown. *The web page:* `WebTyped`,
`PageIsTrue` (`PageTrue`) for any sessions and any number of sends. The
property is of pages on which no send overlaps another, and there `PageInv`
says: one send is under way and it is the last (`OneInv`), the events that wait
are its own, in their order (`EventsInOrder`), and what comes last in its
session is its prompt or its reply. A text is therefore nowhere until it is
read, and then once there and once stored or on its way (`TextInv`). What was
archived is off the page (`OutInv`); a page that is offline has sent nothing
(`OfflineInv`).

**Model-checked only.** Liveness is outside TLAPS's reach here: `ServedRunsEnd`,
`CallsReturn`, `DeathIsTold`, `KilledIsReported`, `AcpTornDownEnds`,
`PromptsEnd`, `PromptReturns`, `TerminalEnds`, `ConnectionEnds`, `ClientsFollow`,
and the half of `ReaperSound` that unloads what is idle. `NobodyStuck`, the
other half of `DaemonSettles`, speaks of ENABLED. `SerialEndsOwnRun` names one
run's environment; the theorem `OwnEnds` is its general form.

## 6. Not modelled

The components table of `PROJECT.json` has every part with its reason.

- **Guards** (`guard`): pure counters and patterns; the guard service is
  registered and nothing calls it.
- **Tools, skills, web tools, plugins, configuration, prompts, protocol types,
  command line programs, startup sweep**: file and process I/O, parsing and
  assembly without shared protocol state; values that do not change afterwards.
- **Subagent batches**: `TaskTool`, `parallel.rs` and the permits of
  `map_limited` have no production caller.
- **Script runner** of terminals: a test harness.
- **Rendering** of both clients, boards, settings, titles, question cards.
- **Memory retrieval**: ranking over texts and vectors.
- **Code without a production caller**: reconnect of the omp client, remove and
  shutdown of jobs as tools, `kill` of a terminal (the last two are actions of
  the models all the same).
- Inside the modelled parts: wording and content of messages, usage and cost,
  the database's own durability, the clock's resolution, and events that
  change no state of the model.

## 7. Observations

Behaviour met while modelling that no run states as a property.

*Runs, plan mode, lock, ledger, reaper.*
- An overlapping prompt takes the slot while the first turn runs; the first
  `AgentEnd` settles the second run (`dispatch.rs:301`).
- A prompt with malformed attachments fails after it opened its run
  (`dispatch.rs:1050`). A crash leaves its runs open in the ledger; the repair
  touches the turn log only.
- The run thread resets the abort flag when it takes a message
  (`rpc/worker.rs:483`): an abort between the ack and that point has no effect.
- A second prompt holds the handle lock while it waits for the context lock
  (`rpc/worker.rs:661`); an abort and the answer to the review for which the
  turn waits queue behind it. The review's timeout ends it.
- An answer accepted between the timeout and the cancel is acknowledged and
  lost (`questions.rs:445`). An approval applies to whatever plan mode the
  session is in by then (`plan-mode/src/state.rs:197`).
- A refused start may report the pid of a dead process (`lock.rs:57`). `drop`
  unlocks, then unlinks pid and lock file (`lock.rs:103-105`): a start which has
  the old file open locks an inode nobody else can reach, the next start a new
  one, and there are two owners, although `lock.rs:1-9` promises one; a daemon
  that starts beside the end of another loses its pid or lock file to it.
- An error of `accept` ends the accept loop (`server.rs:854`, "listener closed or
  poisoned"; too many open files is one, too): the socket is gone, and the daemon
  goes on with the lock, so that every later start is refused by a daemon that
  nobody can reach or stop but by a signal.
- A launcher's 5 s are counted from the spawn (`sess.rs:307`, `autostart.rs:123`)
  and include the wait for a busy database; a start that takes longer is reported
  as failed, and its daemon comes up all the same.
- The ledger file is truncated in place (`state.rs:222`) although
  `state.rs:12-14` promises it is never torn and `state.rs:218-220` claims
  "crash-safety for free": a crash in a rewrite loses runs of every session, open
  and settled, which then have boundaries in a turn log only. After a crash that
  cut rows off, numbers are given again and a cursor skips new runs
  (`state.rs:203`).
- The reaper's walk up the tree (`reaper.rs:167`) opens the sessions it asks
  for, which counts as use and may restore an archived one. A `ping` takes the
  lock of the legacy handle and so waits for an omp turn without a deadline.
- Every request attaches its session, the teardown detaches it once
  (`server.rs:1019`, `937-939`): after a second prompt on one connection the count
  never returns to zero and the session is never unloaded (`reaper.rs:8-10` and
  `server.rs:1014-1016` say otherwise).
- The reaper reads the attach count, the ledger, the slot and the tree under
  different locks and unloads after the last (`reaper.rs:128-136`): a prompt that
  arrives meanwhile runs on an engine the registry no longer knows, its aborts
  and answers go to a second engine of the same session, and a turn of the first
  is out of reach. A use that begins and ends between two ticks leaves the grace
  clock as it is.
- Shutdown joins the reaper, which may wait for a handle lock (`reaper.rs:131`);
  only then are the handles reset, with `try_lock`.

*Agent loop, model calls, subagents, jobs.*
- A panic leaves unanswered calls in the context; call ids of the model are
  reused as they come; the queue of asides and the job registry are the
  daemon's, not the session's (`server.rs:536-538`).
- A clean end of stream without `[DONE]` ends the turn and hands over tool
  calls whose arguments were cut as `{}`; an abort in a stream hands over
  partial calls; writing a request has no timeout.
- The interrupt of an ACP run holds the table lock for the whole ladder; a full
  pipe holds its writer under both locks of the pipe, and the ladder's cancel and
  its take of stdin behind it (`acp.rs:311`, `355`), so that the kill is never
  reached. An agent that exits and leaves its pipe to a child takes the one tear-
  down of the watcher with it: a request sent after is never answered. A user's
  abort is not polled by a synchronous run.
- A job's descendant that took a session of its own (`setsid`) survives
  `kill_tree`, which is said to take "the whole tree down"
  (`jobs_terminal.rs:250-253`), and while it has the pipes the readers are not
  joined (`jobs_terminal.rs:321`): the killed job is never reported.
- A kill reports a job killed at once, not "only once it returns" as `JobTask`
  says; the ceiling counts records, not threads; a waiter asserts that its job
  is still there (`jobs/src/lib.rs:589`).

*Stores.*
- An archive has no tool cards (`tool_calls`), and message snapshots cascade
  away with the rows; the deletion of a session leaves its archive;
  `compress_idle_sessions` stops at the first error, so one session that an
  archive refuses ends every sweep before the less recent ones, which stay; it
  takes the most recent of the idle first, up to its batch; a session that is
  created under an archived id is a fresh row; an append to a session
  that is not there inserts it (`session/src/lib.rs:1342`).
- `drop_last_line` can trim a clean line when an append came between
  (`jsonl.rs:83`); a compaction loses appends made between its load and its
  rename. A crash between a memory's replacement and the retirement of the old
  entry leaves both.
- `kymido run` of a Done task runs it again (`run_cmd` marks it before
  `runner::run` looks, `runner.rs:134`); the outcome of a run overwrites edits
  made meanwhile (`task.rs:682`); a template's explicit dependencies may point
  forward, which closes a cycle with the order of its steps and is not refused;
  abort of a task that is not in progress prints
  that its status was reset and changes nothing.

*MCP, omp, terminals.*
- A caller that waits for the pipe's lock, or writes to a full pipe, polls
  neither signal nor deadline, although a timeout is there "so a hung server
  can't wedge the agent loop" (`mcp/src/lib.rs:37-38`): a server that is alive
  and reads no more wedges every caller. A request is written before the signal is looked
  at, so an aborted call is executed; HTTP timeouts are retried, so a tool may
  run twice. `max_attempts` of 0 makes every HTTP call fail; the model assumes 1.
- `read_line_nb` loses a partial line at its poll deadline, although its doc
  says a split frame is never lost; the rest does not parse and the pump ends.
  Responses and events that come in chunks are dropped. After the pump has
  ended, a new subscription goes to a table nobody clears, so a dead worker is
  not replaced (compare `dispatch.rs:80-81`).
- `kill(-sid)` reaches the shell's own group only (`terminal/src/lib.rs:541`),
  although `lib.rs:509-526` and `839-848` say that jobs go with it: a background
  job keeps the pty open and the reader thread parked. The exit flag is read after
  the buffer's lock is released (`terminal/src/lib.rs:785`); the ceiling is
  looked at after the child runs (`lib.rs:687`). A read drains the whole buffer
  and the tool cuts the text, so "call again for more" finds nothing
  (`tty.rs:167-174`).
- The cursor overlay adds a filler after every wide glyph of the cursor's run;
  a cursor past the trimmed content gets no block. The padding of a line is
  counted with `char_cells` (`screen.rs:684`), which misjudges some glyphs of the
  grid's: the box is then not aligned, as `screen.rs:641` has it ("every line of
  the box has the same display width").

*Clients.*
- A push may precede the reply to its subscription, and the client's subscribe
  fails on it; a partial line is lost at the timeout of `next_event`
  (`client.rs:577-612`). Unsubscribe does not ask who subscribed.
- Before its first switch the full-screen client takes any session's `TurnEnd`
  for its own; a rewind that is stored and whose reload fails leaves stale
  places (`app.rs:2063`).
- The web page writes events to the target of the last send: a send in a second
  session while a first run goes on sends both replies there and leaves the
  first session running. After an abort the old turn's `TurnEnd` ends the next
  send. A subscription that drops during a turn leaves the session running. A
  late thread can resurrect an archived session. A list that could not be
  loaded is kept as an empty one, and makes the next message rename the
  session. Of several questions only the newest is shown.
- Deadlines of the guard service that tie are decided by the order of a
  `HashMap`, although the comment says they are deterministic.

## 8. What could come next

A composition of `WebClient` with `EventBus` over one socket; `RunLifecycle` on
top of `AgentLoop`, in place of its own abstract turn; and the parts of section
6 that keep state.

## 9. Running the checks

`tlc -config <file>.cfg <module>` for each entry of `runs` in `PROJECT.json`,
`tlapm <module>.tla` for the eight modules of section 5. The passing runs take
one to three minutes each, `safety_parts` being the largest with about 1.3 million
distinct states.
