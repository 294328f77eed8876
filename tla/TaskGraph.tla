------------------------------- MODULE TaskGraph -------------------------------
(***************************************************************************)
(* The task graph of the command line (kymido, commands/task.rs; store,    *)
(* graph.rs and template.rs): tasks with dependencies, kept in the store   *)
(* by id, and the runs of tasks (daemon, runner.rs).  A command that is    *)
(* over at once (load, check, append) is one step; a run is a process of   *)
(* its own that keeps the record it loaded until it has an outcome, with   *)
(* other commands in between.  Tasks have no parents here: a parent is     *)
(* checked by nothing and refuses no more than the delete of its task.     *)
(***************************************************************************)
EXTENDS Naturals, Sequences, FiniteSets

CONSTANTS
  Tasks,        \* task ids
  Resets,       \* statuses that `task update` is used with
  Runners,      \* processes of `kymido run`
  NoRunner,     \* no process: no run.pid
  Templates,    \* [top, steps, deps] of templates, with the ids they generate
  EditsMeetRuns,\* the graph is edited while a task runs
  MaxAttempts   \* MAX_ATTEMPTS

ASSUME GraphAssumption ==
  IsFiniteSet(Tasks) /\ MaxAttempts \in Nat
  /\ Resets \subseteq {"open", "inProgress", "failed", "done"}

VARIABLES
  task,   \* the store: a record for each id, or Absent
  run,    \* per runner: how far it is, for which task, and the record it loaded
  pid     \* per task: who <task_dir>/run.pid names

graphVars == <<task, run, pid>>

TaskStatuses == {"open", "inProgress", "failed", "done"}
NoTask == [status |-> "absent", deps |-> {}, attempts |-> 0]
Task(status, deps, attempts) == [status |-> status, deps |-> deps, attempts |-> attempts]
RunPhases == {"idle", "loaded", "marked", "starting", "live", "succeeded", "broken"}
Resting == [at |-> "idle"]

GraphTypeOK ==
  /\ \A t \in Tasks : task[t] = NoTask \/
       task[t] \in [status : TaskStatuses, deps : SUBSET Tasks, attempts : 0..(MaxAttempts + 1)]
  /\ \A r \in Runners : run[r].at \in RunPhases
  /\ pid \in [Tasks -> Runners \cup {NoRunner}]

GraphInit ==
  /\ task = [t \in Tasks |-> NoTask]
  /\ run = [r \in Runners |-> Resting]
  /\ pid = [t \in Tasks |-> NoRunner]

-----------------------------------------------------------------------------
(* graph.rs                                                                *)

Exists(t) == task[t] # NoTask
DepsOf == [t \in Tasks |-> task[t].deps]

\* A set of tasks that the dependencies of its tasks stay in.
Closed(graph, set) == \A u \in set : graph[u] \subseteq set

\* Everything there is on the way from a task along its dependencies: what no
\* closed set around it leaves out.
Reach(graph, t) ==
  {u \in Tasks : \A set \in SUBSET Tasks : t \in set /\ Closed(graph, set) => u \in set}

\* Mutant: only the other task's own dependencies are looked at.
WouldDepCycleShallow(graph, t, d) == t = d \/ t \in graph[d]
WouldDepCycle(graph, t, d) == t \in Reach(graph, d)

IsReady(t) ==
  Exists(t) /\ (task[t].status = "done" \/ \A d \in task[t].deps : task[d].status = "done")

\* What the board shows: a column for each task, and what blocks it.
Unmet(t) == {d \in task[t].deps : task[d].status # "done"}
Column(t) ==
  IF task[t].status # "open" THEN task[t].status ELSE IF IsReady(t) THEN "ready" ELSE "blocked"

Dependents(t) == {u \in Tasks : t \in task[u].deps}

-----------------------------------------------------------------------------
(* Commands that change the graph.                                         *)

PutTask(t, record) == task' = [task EXCEPT ![t] = record] /\ UNCHANGED <<run, pid>>
Editing == EditsMeetRuns \/ \A r \in Runners : run[r] = Resting

\* Dependencies a command accepts for a task: the edges are tried on top of
\* those in the store.
Accepts(graph, t, ds) == \A d \in ds : Exists(d) /\ ~WouldDepCycle(graph, t, d)
With(t, ds) == [DepsOf EXCEPT ![t] = ds]

\* task_add: one record for each title, whether or not there is one already.
TaskAdd(titles, ds) ==
  /\ Editing
  /\ \A t \in titles : Accepts(DepsOf, t, ds)
  /\ task' = [t \in Tasks |-> IF t \in titles THEN Task("open", ds, 0) ELSE task[t]]
  /\ UNCHANGED <<run, pid>>

DepAdd(t, d) ==
  /\ Editing
  /\ Exists(t) /\ d \notin task[t].deps /\ Accepts(DepsOf, t, {d})
  /\ PutTask(t, [task[t] EXCEPT !.deps = @ \cup {d}])

DepRemove(t, d) ==
  /\ Editing
  /\ Exists(t) /\ d \in task[t].deps
  /\ PutTask(t, [task[t] EXCEPT !.deps = @ \ {d}])

\* task_update --deps: the new set replaces the old one.
UpdateDeps(t, ds) ==
  /\ Editing
  /\ Exists(t) /\ Accepts(With(t, ds), t, ds)
  /\ PutTask(t, [task[t] EXCEPT !.deps = ds])

TaskDelete(t) ==
  /\ Editing
  /\ Exists(t) /\ Dependents(t) = {}
  /\ PutTask(t, NoTask)

-----------------------------------------------------------------------------
(* template.rs apply                                                       *)

\* Explicit edges, and each step after the one before it.
Chained(tpl) ==
  tpl.deps \cup {<<tpl.steps[i + 1], tpl.steps[i]>> : i \in
    {j \in 1..(Len(tpl.steps) - 1) : <<tpl.steps[j], tpl.steps[j + 1]>> \notin tpl.deps}}

\* The task at the top waits for every step that no other task waits for.
Edges(tpl) ==
  LET chained == Chained(tpl)
      waited == {e[2] : e \in chained} \ {tpl.top}
  IN chained \cup {<<tpl.top, tpl.steps[i]>> : i \in
       {j \in 1..Len(tpl.steps) : tpl.steps[j] \notin waited}}

\* Steps are created anew, the task at the top only if it is missing; then
\* the edges are added to what is stored.
Apply(tpl) ==
  /\ Editing
  /\ LET steps == {tpl.steps[i] : i \in 1..Len(tpl.steps)}
         made == [t \in Tasks |->
           IF t \in steps \/ (t = tpl.top /\ ~Exists(t)) THEN Task("open", {}, 0) ELSE task[t]]
     IN task' = [t \in Tasks |->
          [made[t] EXCEPT !.deps = @ \cup {d \in Tasks : <<t, d>> \in Edges(tpl)}]]
  /\ UNCHANGED <<run, pid>>

-----------------------------------------------------------------------------
(* Commands on the status, at any time.                                    *)

TaskDone(t) ==
  /\ Exists(t) /\ task[t].status # "done"
  /\ PutTask(t, [task[t] EXCEPT !.status = "done"])

\* task_update --status, --attempts: the old dependencies are checked again.
UpdateStatus(t, status, attempts) ==
  /\ Exists(t) /\ Accepts(DepsOf, t, task[t].deps)
  /\ PutTask(t, Task(status, task[t].deps, attempts))

\* abort_cmd: whom run.pid names is sent SIGTERM; only a task in progress is
\* put back.
Abort(t) ==
  /\ task[t].status = "inProgress"
  /\ run' = IF pid[t] # NoRunner /\ run[pid[t]].at = "live" /\ run[pid[t]].of = t
            THEN [run EXCEPT ![pid[t]] = Resting] ELSE run
  /\ task' = [task EXCEPT ![t].status = "open"]
  /\ UNCHANGED pid

-----------------------------------------------------------------------------
(* kymido run: run_cmd and runner::run.                                    *)

Alive(t) == pid[t] # NoRunner /\ run[pid[t]].at = "live" /\ run[pid[t]].of = t

RunGoes(r, phase) == run' = [run EXCEPT ![r].at = phase]
RunAt(r, phase) == run[r].at = phase

\* The task as it is now is kept to the end; a task in progress is refused
\* while its runner lives.  (Bound: attempts are counted up to MaxAttempts.)
RunLoad(r, t) ==
  /\ run[r] = Resting /\ Exists(t) /\ task[t].attempts <= MaxAttempts
  /\ ~(task[t].status = "inProgress" /\ Alive(t))
  /\ run' = [run EXCEPT ![r] = [at |-> "loaded", of |-> t, pre |-> task[t]]]
  /\ UNCHANGED <<task, pid>>

Marked(r) == [run[r].pre EXCEPT !.status = "inProgress"]

\* The first look at the dependencies, and the mark.
RunMark(r) ==
  /\ RunAt(r, "loaded")
  /\ IF IsReady(run[r].of)
     THEN /\ task' = [task EXCEPT ![run[r].of] = Marked(r)]
          /\ RunGoes(r, "marked")
     ELSE run' = [run EXCEPT ![r] = Resting] /\ UNCHANGED task
  /\ UNCHANGED pid

\* The record loaded at the start is put back.
RollBack(r) ==
  /\ task' = [task EXCEPT ![run[r].of] = run[r].pre]
  /\ run' = [run EXCEPT ![r] = Resting]

\* The runner's own checks, on the store as it is by now.
RunCheck(r) ==
  LET now == task[run[r].of] IN
  /\ RunAt(r, "marked")
  /\ IF now = NoTask \/ now.status = "done" \/ ~IsReady(run[r].of) \/ now.attempts >= MaxAttempts
     THEN RollBack(r)
     ELSE RunGoes(r, "starting") /\ UNCHANGED task
  /\ UNCHANGED pid

\* The worker is started and run.pid written; something before that may fail.
RunStart(r) ==
  /\ RunAt(r, "starting")
  /\ RunGoes(r, "live")
  /\ pid' = [pid EXCEPT ![run[r].of] = r]
  /\ UNCHANGED task
RunFails(r) == RunAt(r, "starting") /\ RollBack(r) /\ UNCHANGED pid

\* The worker is done or its stream broke; run.pid goes, whoever wrote it.
RunReturns(r, outcome) ==
  /\ RunAt(r, "live")
  /\ RunGoes(r, outcome)
  /\ pid' = [pid EXCEPT ![run[r].of] = NoRunner]
  /\ UNCHANGED task

\* persist_run_outcome, on top of the record loaded at the start.
RunPersist(r) ==
  LET pre == run[r].pre IN
  /\ run[r].at \in {"succeeded", "broken"}
  /\ task' = [task EXCEPT ![run[r].of] =
       IF RunAt(r, "succeeded") THEN [pre EXCEPT !.status = "done"]
       ELSE [pre EXCEPT !.status = "failed", !.attempts = @ + 1]]
  /\ run' = [run EXCEPT ![r] = Resting]
  /\ UNCHANGED pid

\* The process is killed; run.pid stays.
RunDies(r) ==
  /\ run[r] # Resting
  /\ run' = [run EXCEPT ![r] = Resting]
  /\ UNCHANGED <<task, pid>>

-----------------------------------------------------------------------------
GraphNext ==
  \/ \E titles \in SUBSET Tasks \ {{}}, ds \in SUBSET Tasks : TaskAdd(titles, ds)
  \/ \E t, d \in Tasks : DepAdd(t, d) \/ DepRemove(t, d)
  \/ \E t \in Tasks, ds \in SUBSET Tasks : UpdateDeps(t, ds)
  \/ \E t \in Tasks : TaskDelete(t) \/ TaskDone(t) \/ Abort(t)
  \/ \E t \in Tasks, status \in Resets : \E n \in {0, task[t].attempts} : UpdateStatus(t, status, n)
  \/ \E tpl \in Templates : Apply(tpl)
  \/ \E r \in Runners :
       \/ \E t \in Tasks : RunLoad(r, t)
       \/ RunMark(r) \/ RunCheck(r) \/ RunStart(r) \/ RunFails(r)
       \/ \E outcome \in {"succeeded", "broken"} : RunReturns(r, outcome)
       \/ RunPersist(r) \/ RunDies(r)

GraphSpec == GraphInit /\ [][GraphNext]_graphVars

-----------------------------------------------------------------------------
\* Every dependency is a task that exists and no task waits for itself, so as
\* long as a task is blocked there is one to work on: else the board stands
\* still and shows nobody why (graph.rs 1-6, 54-87).
GraphSound ==
  /\ \A t \in Tasks : \A d \in task[t].deps : Exists(d) /\ t \notin Reach(DepsOf, d)
  /\ \A t \in Tasks : Column(t) = "blocked" =>
       \E u \in Reach(DepsOf, t) : Column(u) \in {"ready", "inProgress", "failed"} /\ Unmet(u) = {}

\* A task has one worker at a time ("live-runner guard - never double-spawn a
\* worker for one task", task.rs:605).
OneWorker ==
  \A r, q \in Runners : RunAt(r, "live") /\ RunAt(q, "live") /\ run[r].of = run[q].of => r = q
===============================================================================
