-------------------------------- MODULE Jobs --------------------------------
(***************************************************************************)
(* The registry of background jobs (jobs, lib.rs) and the tools that use   *)
(* it (tools, jobs_terminal): one lock around a table of records, a        *)
(* thread per job, turns that wait in slices for a job to end, and a hook  *)
(* that tells the session of every job that ended.                         *)
(*                                                                         *)
(* A section under the lock is one step.  A record that was forgotten, or  *)
(* never made, has the state "none".  What a job prints is whether its     *)
(* record has it.  The task is a shell whose two pipes are read to their   *)
(* end, and a descendant of the shell may hold them after it is gone.      *)
(***************************************************************************)
EXTENDS Naturals, FiniteSets

CONSTANTS MaxJobs,     \* bound: jobs started
          MaxRunning,  \* MAX_RUNNING, which set_max_running changes
          Turns,       \* the tool calls that may wait at the same time
          Forgets      \* remove and shutdown, which no client calls, are called

Jobs == 1..MaxJobs
NoJob == 0
FinalStates == {"completed", "failed", "killed"}

VARIABLES seq,        \* jobs minted
          record,     \* the table: state of each job, and whether it has its output
          cancelled,  \* the jobs whose control flag is set
          thread,     \* each job's thread, and the outcome it carries
          held,       \* the jobs whose pipes a descendant of the shell holds
          down,       \* the registry is shut down
          waiter,     \* each turn: in jobs_wait for a job, in a slice of it, woken
          told        \* what was said of each job that ended (history)

jobVars == <<seq, record, cancelled, thread, held, down, waiter, told>>

Forgotten == [state |-> "none", output |-> FALSE]
NotWaiting == [at |-> "idle", job |-> NoJob]

JobTypeOK ==
  /\ seq \in 0..MaxJobs
  /\ record \in [Jobs -> [state : {"none", "running"} \cup FinalStates, output : BOOLEAN]]
  /\ cancelled \subseteq Jobs
  /\ thread \in [Jobs -> [at : {"none", "task", "drain", "locking", "hook", "gone"},
                          outcome : {"none", "running"} \cup FinalStates]]
  /\ held \subseteq Jobs
  /\ down \in BOOLEAN
  /\ waiter \in [Turns -> [at : {"idle", "asks", "parked", "woken", "panicked"},
                           job : Jobs \cup {NoJob}]]
  /\ told \in [Jobs -> SUBSET (FinalStates \cup {"empty"})]

JobInit ==
  /\ seq = 0 /\ down = FALSE /\ cancelled = {} /\ held = {}
  /\ record = [j \in Jobs |-> Forgotten]
  /\ thread = [j \in Jobs |-> [at |-> "none", outcome |-> "none"]]
  /\ waiter = [t \in Turns |-> NotWaiting]
  /\ told = [j \in Jobs |-> {}]

-----------------------------------------------------------------------------
Running == {j \in Jobs : record[j].state = "running"}
Known(j) == record[j].state # "none"
Ended(j) == record[j].state \in FinalStates

\* notify_all wakes every turn that is parked, whatever it waits for.
Wake == waiter' = [t \in Turns |->
  IF waiter[t].at = "parked" THEN [waiter[t] EXCEPT !.at = "woken"] ELSE waiter[t]]

Start ==
  LET j == seq + 1
  IN  /\ ~down /\ seq < MaxJobs /\ Cardinality(Running) < MaxRunning
      /\ seq' = j
      /\ record' = [record EXCEPT ![j].state = "running"]
      /\ thread' = [thread EXCEPT ![j].at = "task"]
      /\ UNCHANGED <<cancelled, held, down, waiter, told>>

\* The shell is gone: it ended, which may leave any of its descendants with
\* the pipes, or its flag was seen and its process group killed, which leaves
\* those that took a group of their own.  The flag is not looked at again.
ShellEnds(j, left) ==
  /\ thread[j].at = "task"
  /\ thread' = [thread EXCEPT ![j].at = "drain"]
  /\ held' = IF left THEN held \cup {j} ELSE held
  /\ UNCHANGED <<seq, record, cancelled, down, waiter, told>>

\* The last descendant closes the pipes, or ends.
LetGo(j) ==
  /\ j \in held
  /\ held' = held \ {j}
  /\ UNCHANGED <<seq, record, cancelled, thread, down, waiter, told>>

\* The task returns once nobody holds its pipes, or fails to run the shell; the
\* thread looks at the flag before it takes the lock.
TaskEnds(j, ok) ==
  /\ IF ok THEN thread[j].at = "drain" /\ j \notin held ELSE thread[j].at = "task"
  /\ thread' = [thread EXCEPT ![j] =
       [at |-> "locking",
        outcome |-> IF ~ok THEN "failed" ELSE IF j \in cancelled THEN "killed" ELSE "completed"]]
  /\ UNCHANGED <<seq, record, cancelled, held, down, waiter, told>>

\* Mutant: the thread's outcome overwrites the state.
FinalOutcome(j) == thread[j].outcome

\* finish_locked, and the summary the hook will get: a job killed meanwhile
\* stays killed, and its output is stored all the same.
Final(j) == IF record[j].state = "killed" THEN "killed" ELSE thread[j].outcome

FinishJob(j) ==
  /\ thread[j].at = "locking"
  /\ record' = IF Known(j) THEN [record EXCEPT ![j] = [state |-> Final(j), output |-> TRUE]]
                           ELSE record
  /\ thread' = [thread EXCEPT ![j] = [at |-> "hook", outcome |-> record'[j].state]]
  /\ Wake
  /\ UNCHANGED <<seq, cancelled, held, down, told>>

\* The hook runs outside the lock; a job forgotten by then is not reported.
Report(j) ==
  /\ thread[j].at = "hook"
  /\ thread' = [thread EXCEPT ![j].at = "gone"]
  /\ told' = [told EXCEPT ![j] = @ \cup ({thread[j].outcome} \cap FinalStates)]
  /\ UNCHANGED <<seq, record, cancelled, held, down, waiter>>

-----------------------------------------------------------------------------
\* Mutant: the state is left to the thread, and its flag never set.
KillWithoutFlag(j) ==
  /\ record[j].state = "running"
  /\ record' = [record EXCEPT ![j].state = "killed"]
  /\ told' = [told EXCEPT ![j] = @ \cup {"killed"}]
  /\ Wake
  /\ UNCHANGED <<seq, cancelled, thread, held, down>>

\* kill: a job that ended is left as it is, and the caller told how it ended.
KillRunning(j) ==
  /\ record[j].state = "running"
  /\ cancelled' = cancelled \cup {j}
  /\ record' = [record EXCEPT ![j].state = "killed"]
  /\ told' = [told EXCEPT ![j] = @ \cup {"killed"}]
  /\ Wake
  /\ UNCHANGED <<seq, thread, held, down>>

\* kill of a job that ended, status and list
Tell(j) ==
  /\ Ended(j)
  /\ told' = [told EXCEPT ![j] = @ \cup {record[j].state}]
  /\ UNCHANGED <<seq, record, cancelled, thread, held, down, waiter>>

Remove(j) ==
  /\ Forgets /\ Ended(j)
  /\ record' = [record EXCEPT ![j] = Forgotten]
  /\ UNCHANGED <<seq, cancelled, thread, held, down, waiter, told>>

Shutdown ==
  /\ Forgets /\ ~down
  /\ down' = TRUE
  /\ cancelled' = cancelled \cup Running
  /\ record' = [j \in Jobs |-> Forgotten]
  /\ Wake
  /\ UNCHANGED <<seq, thread, held, told>>

-----------------------------------------------------------------------------
(* jobs_wait: slices of wait, until the job ends, the deadline passes or    *)
(* the turn is aborted                                                      *)

At(t, place, j) == waiter' = [waiter EXCEPT ![t] = [at |-> place, job |-> j]]

Wait(t, j) ==
  /\ waiter[t].at = "idle" /\ j <= seq
  /\ At(t, "asks", j)
  /\ UNCHANGED <<seq, record, cancelled, thread, held, down, told>>

\* The call ends with no output: unknown job, deadline, abort.
GiveUp(t) ==
  /\ waiter[t].at = "asks"
  /\ At(t, "idle", NoJob)
  /\ UNCHANGED <<seq, record, cancelled, thread, held, down, told>>

\* A slice that finds its job running waits for a wake-up.
Park(t) ==
  /\ waiter[t].at \in {"asks", "woken"} /\ record[waiter[t].job].state = "running"
  /\ At(t, "parked", waiter[t].job)
  /\ UNCHANGED <<seq, record, cancelled, thread, held, down, told>>

Answer(t) ==
  LET j == waiter[t].job
  IN  /\ waiter[t].at \in {"asks", "woken"} /\ Ended(j)
      /\ told' = [told EXCEPT ![j] = IF record[j].output THEN @ ELSE @ \cup {"empty"}]
      /\ At(t, "idle", NoJob)
      /\ UNCHANGED <<seq, record, cancelled, thread, held, down>>

\* The slice is over, and the job has not ended.
Slice(t) ==
  /\ waiter[t].at = "parked" /\ ~Ended(waiter[t].job)
  /\ At(t, "asks", waiter[t].job)
  /\ UNCHANGED <<seq, record, cancelled, thread, held, down, told>>

\* A turn that is woken expects its job to be there.
Panic(t) ==
  /\ waiter[t].at = "woken" /\ ~Known(waiter[t].job)
  /\ At(t, "panicked", waiter[t].job)
  /\ UNCHANGED <<seq, record, cancelled, thread, held, down, told>>

-----------------------------------------------------------------------------
ThreadStep(j) == \/ \E b \in BOOLEAN : ShellEnds(j, b) \/ TaskEnds(j, b)
                 \/ FinishJob(j) \/ Report(j)
Turn(t) == Park(t) \/ Answer(t) \/ Slice(t) \/ GiveUp(t) \/ Panic(t)

JobNext ==
  \/ Start \/ Shutdown
  \/ \E j \in Jobs : ThreadStep(j) \/ LetGo(j) \/ KillRunning(j) \/ Tell(j) \/ Remove(j)
  \/ \E t \in Turns : Turn(t) \/ \E j \in Jobs : Wait(t, j)

\* A thread runs, and polls the flag of a shell that runs; a shell ends by
\* itself or not, and so does a descendant that holds its pipes.
KilledShellEnds(j) == j \in cancelled /\ \E left \in BOOLEAN : ShellEnds(j, left)
JobFairness ==
  \A j \in Jobs :
    /\ WF_jobVars(KilledShellEnds(j)) /\ WF_jobVars(TaskEnds(j, TRUE))
    /\ WF_jobVars(FinishJob(j)) /\ WF_jobVars(Report(j))

JobSpec == JobInit /\ [][JobNext]_jobVars /\ JobFairness

-----------------------------------------------------------------------------
(* Properties.                                                             *)

\* Nobody is told two stories of how a job ended, whoever asks and whenever,
\* and only of a killed job can a wait have nothing to show.
JobOneStory == \A j \in Jobs :
  /\ Cardinality(told[j] \cap FinalStates) <= 1
  /\ "empty" \in told[j] => record[j].state \in {"killed", "none"}

\* A job that is stopped ends, and the session hears of it unless the registry
\* was told to forget the job: all but one whose pipes a process that the kill
\* did not reach holds for ever.
KilledIsReported == \A j \in Jobs :
  \/ (j \in cancelled \/ record[j].state = "killed")
       ~> (thread[j].at = "gone" /\ (Known(j) => thread[j].outcome = "killed"))
  \/ <>[](j \in held)
=============================================================================
