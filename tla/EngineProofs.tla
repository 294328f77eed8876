---------------------------- MODULE EngineProofs ----------------------------
(*****************************************************************************)
(* Proofs about a session's engine and what runs beside it: for any number   *)
(* of jobs and of turns that wait for them, nobody is told two stories of    *)
(* how a job ended; for any tree of sessions and any connections, the reaper *)
(* unloads only what nobody uses; and for any replies, aborts and budgets,   *)
(* the engine's requests pair calls with results and show the model what it  *)
(* has not seen.                                                             *)
(*****************************************************************************)
EXTENDS AgentLoop, Jobs, SessionReaper,
        FiniteSetTheorems, SequenceTheorems, WellFoundedInduction, TLAPS

-----------------------------------------------------------------------------
\* Background jobs.

\* A turn that waits does so for a job.
Asked == \A t \in Turns : waiter[t].at # "idle" => waiter[t].job \in Jobs

\* What was said of a job is what its record says, or what it said when it was
\* forgotten; the thread's last word is the record's too.
Story(j) ==
  /\ j > seq => record[j] = Forgotten /\ thread[j].at = "none" /\ told[j] = {}
  /\ thread[j].at \in {"task", "drain", "locking"} => record[j].state \in {"running", "killed", "none"}
  /\ thread[j].at = "locking" => thread[j].outcome \in FinalStates
  /\ thread[j].at = "hook" =>
       /\ Known(j) => record[j].state = thread[j].outcome
       /\ thread[j].outcome = "none" \/ told[j] \cap FinalStates \subseteq {thread[j].outcome}
       /\ thread[j].outcome # "running"
  /\ Known(j) => told[j] \cap FinalStates \subseteq {record[j].state}
  /\ \E said \in FinalStates : told[j] \cap FinalStates \subseteq {said}
  /\ Ended(j) /\ ~record[j].output => record[j].state = "killed"
  /\ "empty" \in told[j] => record[j].state \in {"killed", "none"}

JobInv == JobTypeOK /\ Asked /\ \A j \in Jobs : Story(j)

-----------------------------------------------------------------------------
\* Every step keeps the types, and turns that wait wait for jobs.
LEMMA TypeStep ==
  ASSUME MaxJobs \in Nat, JobTypeOK, Asked, [JobNext]_jobVars
  PROVE  JobTypeOK' /\ Asked'
<1>1. CASE Start
  <2>1. seq + 1 \in Jobs /\ seq' \in 0..MaxJobs BY <1>1 DEF Start, JobTypeOK, Jobs
  <2>2. /\ record' = [record EXCEPT ![seq + 1].state = "running"]
        /\ thread' = [thread EXCEPT ![seq + 1].at = "task"]
    BY <1>1 DEF Start
  <2>3. record' \in [Jobs -> [state : {"none", "running"} \cup FinalStates, output : BOOLEAN]]
    BY <2>1, <2>2 DEF JobTypeOK
  <2>4. thread' \in [Jobs -> [at : {"none", "task", "drain", "locking", "hook", "gone"},
                              outcome : {"none", "running"} \cup FinalStates]]
    BY <2>1, <2>2 DEF JobTypeOK
  <2>. QED BY <2>1, <2>3, <2>4, <1>1 DEF Start, JobTypeOK, Asked
<1>2. CASE Shutdown BY <1>2 DEF Shutdown, Running, JobTypeOK, Asked, Wake, Forgotten, Jobs
<1>3. ASSUME NEW j \in Jobs, NEW ok \in BOOLEAN, TaskEnds(j, ok) PROVE JobTypeOK' /\ Asked'
  BY <1>3 DEF TaskEnds, JobTypeOK, Asked, FinalStates
<1>4. ASSUME NEW j \in Jobs, FinishJob(j) PROVE JobTypeOK' /\ Asked'
  <2>1. Known(j) => Final(j) \in {"none", "running"} \cup FinalStates
    BY DEF Final, JobTypeOK, FinalStates
  <2>2. record' \in [Jobs -> [state : {"none", "running"} \cup FinalStates, output : BOOLEAN]]
    BY <1>4, <2>1 DEF FinishJob, JobTypeOK
  <2>3. waiter' \in [Turns -> [at : {"idle", "asks", "parked", "woken", "panicked"},
                               job : Jobs \cup {NoJob}]] /\ Asked'
    BY <1>4 DEF FinishJob, Wake, JobTypeOK, Asked, Jobs
  <2>. QED BY <1>4, <2>2, <2>3 DEF FinishJob, JobTypeOK
<1>5. ASSUME NEW j \in Jobs, Report(j) PROVE JobTypeOK' /\ Asked'
  BY <1>5 DEF Report, JobTypeOK, Asked, FinalStates
<1>6. ASSUME NEW j \in Jobs, KillRunning(j) PROVE JobTypeOK' /\ Asked'
  <2>1. told' \in [Jobs -> SUBSET (FinalStates \cup {"empty"})]
    BY <1>6 DEF KillRunning, JobTypeOK, FinalStates
  <2>2. record' \in [Jobs -> [state : {"none", "running"} \cup FinalStates, output : BOOLEAN]]
    BY <1>6 DEF KillRunning, JobTypeOK, FinalStates
  <2>3. waiter' \in [Turns -> [at : {"idle", "asks", "parked", "woken", "panicked"},
                               job : Jobs \cup {NoJob}]] /\ Asked'
    BY <1>6 DEF KillRunning, Wake, JobTypeOK, Asked, Jobs
  <2>. QED BY <1>6, <2>1, <2>2, <2>3 DEF KillRunning, JobTypeOK
<1>7. ASSUME NEW j \in Jobs, Tell(j) PROVE JobTypeOK' /\ Asked'
  <2>1. told' \in [Jobs -> SUBSET (FinalStates \cup {"empty"})]
    BY <1>7 DEF Tell, Ended, JobTypeOK
  <2>. QED BY <1>7, <2>1 DEF Tell, JobTypeOK, Asked
<1>8. ASSUME NEW j \in Jobs, Remove(j) PROVE JobTypeOK' /\ Asked'
  BY <1>8 DEF Remove, Forgotten, JobTypeOK, Asked
<1>9. ASSUME NEW t \in Turns, NEW j \in Jobs, Wait(t, j) PROVE JobTypeOK' /\ Asked'
  BY <1>9 DEF Wait, At, JobTypeOK, Asked
<1>10. ASSUME NEW t \in Turns, Turn(t) PROVE JobTypeOK' /\ Asked'
  <2>1. ASSUME NEW place \in {"idle", "asks", "parked", "panicked"}, NEW j \in Jobs \cup {NoJob},
               At(t, place, j), place = "idle" \/ j \in Jobs
        PROVE  waiter' \in [Turns -> [at : {"idle", "asks", "parked", "woken", "panicked"},
                                      job : Jobs \cup {NoJob}]] /\ Asked'
    BY <2>1 DEF At, JobTypeOK, Asked, Jobs
  <2>2. CASE Answer(t)
    <3>1. waiter[t].job \in Jobs BY <2>2 DEF Answer, Asked
    <3>2. told' \in [Jobs -> SUBSET (FinalStates \cup {"empty"})]
      BY <2>2, <3>1 DEF Answer, JobTypeOK
    <3>. QED BY <2>1, <2>2, <3>2 DEF Answer, JobTypeOK
  <2>3. CASE Park(t) BY <2>1, <2>3 DEF Park, JobTypeOK, Asked
  <2>4. CASE Slice(t) BY <2>1, <2>4 DEF Slice, JobTypeOK, Asked
  <2>5. CASE GiveUp(t) BY <2>1, <2>5 DEF GiveUp, JobTypeOK
  <2>6. CASE Panic(t) BY <2>1, <2>6 DEF Panic, JobTypeOK, Asked
  <2>. QED BY <1>10, <2>2, <2>3, <2>4, <2>5, <2>6 DEF Turn
<1>11. ASSUME NEW j \in Jobs, NEW left \in BOOLEAN, ShellEnds(j, left) PROVE JobTypeOK' /\ Asked'
  BY <1>11 DEF ShellEnds, JobTypeOK, Asked
<1>12. ASSUME NEW j \in Jobs, LetGo(j) PROVE JobTypeOK' /\ Asked'
  BY <1>12 DEF LetGo, JobTypeOK, Asked
<1>13. CASE UNCHANGED jobVars BY <1>13 DEF jobVars, JobTypeOK, Asked
<1>. QED
  BY <1>1, <1>2, <1>3, <1>4, <1>5, <1>6, <1>7, <1>8, <1>9, <1>10, <1>11, <1>12, <1>13
     DEF JobNext, ThreadStep

\* A step that leaves a job's record, thread and reports alone leaves its story.
LEMMA Untouched ==
  ASSUME NEW j \in Jobs, Story(j), seq' = seq,
         record'[j] = record[j], thread'[j] = thread[j], told'[j] = told[j]
  PROVE  Story(j)'
BY DEF Story, Known, Ended

\* No step tells a second story of any job.
LEMMA StoryStep ==
  ASSUME MaxJobs \in Nat, JobInv, [JobNext]_jobVars, NEW k \in Jobs
  PROVE  Story(k)'
<1> USE DEF Jobs, FinalStates, Forgotten, Ended, Known
<1>0. JobTypeOK /\ Asked /\ Story(k) BY DEF JobInv
<1>1. CASE Start
  <2>1. CASE k # seq + 1
    <3>1. record'[k] = record[k] /\ thread'[k] = thread[k] /\ told'[k] = told[k] /\ seq' = seq + 1
      BY <1>0, <1>1, <2>1 DEF Start, JobTypeOK
    <3>. QED BY <1>0, <2>1, <3>1 DEF Story, JobTypeOK
  <2>2. CASE k = seq + 1
    <3>1. /\ record'[k].state = "running"
          /\ thread'[k].at = "task" /\ told'[k] = {} /\ seq' = k
      <4>1. record[k] = Forgotten /\ told[k] = {} BY <1>0, <2>2 DEF Story, JobTypeOK
      <4>2. seq' = k /\ told' = told BY <1>1, <2>2 DEF Start
      <4>3. record' = [record EXCEPT ![k].state = "running"]
            /\ thread' = [thread EXCEPT ![k].at = "task"]
        BY <1>1, <2>2 DEF Start
      <4>4. record'[k].state = "running" BY <1>0, <4>3 DEF JobTypeOK
      <4>5. thread'[k].at = "task" BY <1>0, <4>3 DEF JobTypeOK
      <4>. QED BY <4>1, <4>2, <4>4, <4>5
    <3>. QED
      <4>1. ~Ended(k)' /\ Known(k)' BY <3>1
      <4>2. \E said \in FinalStates : told'[k] \cap FinalStates \subseteq {said} BY <3>1
      <4>3. ~(k > seq') BY <1>0, <3>1 DEF JobTypeOK
      <4>. QED BY <3>1, <4>1, <4>2, <4>3 DEF Story
  <2>. QED BY <2>1, <2>2
<1>2. CASE Shutdown BY <1>0, <1>2 DEF Shutdown, Story, JobTypeOK
<1>3. ASSUME NEW j \in Jobs, NEW ok \in BOOLEAN, TaskEnds(j, ok) PROVE Story(k)'
  BY <1>0, <1>3 DEF TaskEnds, Story, JobTypeOK
<1>4. ASSUME NEW j \in Jobs, FinishJob(j) PROVE Story(k)'
  <2>1. CASE k # j BY <1>0, <1>4, <2>1, Untouched DEF FinishJob, JobTypeOK
  <2>2. CASE k = j /\ Known(j)
    <3>1. /\ record'[k] = [state |-> Final(k), output |-> TRUE]
          /\ thread'[k] = [at |-> "hook", outcome |-> Final(k)]
          /\ told'[k] = told[k] /\ seq' = seq
      BY <1>0, <1>4, <2>2 DEF FinishJob, JobTypeOK
    <3>2. Final(k) \in FinalStates
      BY <1>0, <1>4, <2>2 DEF FinishJob, Final, Story, JobTypeOK
    <3>3. record[k].state # "running" => Final(k) = record[k].state
      BY <1>0, <1>4, <2>2 DEF FinishJob, Final, Story, JobTypeOK
    <3>4. told[k] \cap FinalStates \subseteq {Final(k)} BY <1>0, <2>2, <3>3 DEF Story
    <3>5. k <= seq BY <1>0, <2>2 DEF Story, JobTypeOK
    <3>6. "empty" \in told[k] => Final(k) = "killed" BY <1>0, <2>2 DEF Story, Final
    <3>. QED BY <3>1, <3>2, <3>4, <3>5, <3>6, <1>0 DEF Story, JobTypeOK
  <2>3. CASE k = j /\ ~Known(j) BY <1>0, <1>4, <2>3 DEF FinishJob, Story, JobTypeOK
  <2>. QED BY <2>1, <2>2, <2>3
<1>5. ASSUME NEW j \in Jobs, Report(j) PROVE Story(k)'
  <2>1. CASE k # j BY <1>0, <1>5, <2>1, Untouched DEF Report, JobTypeOK
  <2>2. CASE k = j
    <3>1. /\ record' = record /\ seq' = seq /\ thread'[k].at = "gone"
          /\ told'[k] = told[k] \cup ({thread[k].outcome} \cap FinalStates)
      BY <1>0, <1>5, <2>2 DEF Report, JobTypeOK
    <3>2. thread[k].at = "hook" BY <1>5, <2>2 DEF Report
    <3>3. "empty" \in told'[k] => "empty" \in told[k] BY <3>1
    <3>4. thread[k].outcome \in FinalStates => told'[k] \cap FinalStates \subseteq {thread[k].outcome}
      BY <1>0, <3>1, <3>2 DEF Story
    <3>5. thread[k].outcome \notin FinalStates => told'[k] = told[k] BY <3>1
    <3>. QED BY <1>0, <3>1, <3>2, <3>3, <3>4, <3>5 DEF Story
  <2>. QED BY <2>1, <2>2
<1>6. ASSUME NEW j \in Jobs, KillRunning(j) PROVE Story(k)'
  <2>1. CASE k # j BY <1>0, <1>6, <2>1, Untouched DEF KillRunning, JobTypeOK
  <2>2. CASE k = j
    <3>1. /\ record'[k] = [record[k] EXCEPT !.state = "killed"] /\ thread' = thread
          /\ told'[k] = told[k] \cup {"killed"} /\ seq' = seq
      BY <1>0, <1>6, <2>2 DEF KillRunning, JobTypeOK
    <3>2. record[k].state = "running" BY <1>6, <2>2 DEF KillRunning
    <3>3. told[k] \cap FinalStates = {} BY <1>0, <3>2 DEF Story
    <3>4. record'[k].state = "killed" BY <1>0, <3>1 DEF JobTypeOK
    <3>5. thread[k].at # "hook" BY <1>0, <3>2 DEF Story
    <3>6. k <= seq BY <1>0, <3>2 DEF Story, JobTypeOK
    <3>7. told'[k] \cap FinalStates \subseteq {"killed"} BY <3>1, <3>3
    <3>. QED BY <1>0, <3>1, <3>4, <3>5, <3>6, <3>7 DEF Story, JobTypeOK
  <2>. QED BY <2>1, <2>2
<1>7. ASSUME NEW j \in Jobs, Tell(j) PROVE Story(k)'
  BY <1>0, <1>7 DEF Tell, Story, JobTypeOK
<1>8. ASSUME NEW j \in Jobs, Remove(j) PROVE Story(k)'
  BY <1>0, <1>8 DEF Remove, Story, JobTypeOK
<1>9. ASSUME NEW t \in Turns, NEW j \in Jobs, Wait(t, j) PROVE Story(k)'
  BY <1>0, <1>9, Untouched DEF Wait
<1>10. ASSUME NEW t \in Turns, Turn(t) PROVE Story(k)'
  <2>1. CASE Answer(t) BY <1>0, <2>1 DEF Answer, Story, JobTypeOK, Asked
  <2>2. CASE Park(t) \/ Slice(t) \/ GiveUp(t) \/ Panic(t)
    BY <1>0, <2>2, Untouched DEF Park, Slice, GiveUp, Panic
  <2>. QED BY <1>10, <2>1, <2>2 DEF Turn
<1>11. ASSUME NEW j \in Jobs, NEW left \in BOOLEAN, ShellEnds(j, left) PROVE Story(k)'
  BY <1>0, <1>11 DEF ShellEnds, Story, JobTypeOK
<1>12. ASSUME NEW j \in Jobs, LetGo(j) PROVE Story(k)'
  BY <1>0, <1>12, Untouched DEF LetGo
<1>13. CASE UNCHANGED jobVars BY <1>0, <1>13, Untouched DEF jobVars
<1>. QED
  BY <1>1, <1>2, <1>3, <1>4, <1>5, <1>6, <1>7, <1>8, <1>9, <1>10, <1>11, <1>12, <1>13
     DEF JobNext, ThreadStep

\* All of it, from the empty registry on.
LEMMA JobInductive == ASSUME MaxJobs \in Nat PROVE JobSpec => []JobInv
<1>1. JobInit => JobInv
  <2> SUFFICES ASSUME JobInit PROVE JobInv OBVIOUS
  <2>1. JobTypeOK /\ Asked
    <3>1. seq \in 0..MaxJobs /\ cancelled \subseteq Jobs /\ held \subseteq Jobs BY DEF JobInit
    <3>2. record \in [Jobs -> [state : {"none", "running"} \cup FinalStates, output : BOOLEAN]]
      BY DEF JobInit, Forgotten
    <3>3. thread \in [Jobs -> [at : {"none", "task", "drain", "locking", "hook", "gone"},
                                outcome : {"none", "running"} \cup FinalStates]]
      BY DEF JobInit
    <3>4. told \in [Jobs -> SUBSET (FinalStates \cup {"empty"})] BY DEF JobInit
    <3>5. down \in BOOLEAN BY DEF JobInit
    <3>6. waiter \in [Turns -> [at : {"idle", "asks", "parked", "woken", "panicked"},
                                job : Jobs \cup {NoJob}]] /\ Asked
      BY DEF JobInit, Asked, NotWaiting
    <3>. QED BY <3>1, <3>2, <3>3, <3>4, <3>5, <3>6 DEF JobTypeOK
  <2>2. ASSUME NEW j \in Jobs PROVE Story(j)
    <3>1. /\ record[j] = Forgotten /\ thread[j] = [at |-> "none", outcome |-> "none"]
          /\ told[j] = {}
      BY DEF JobInit
    <3>2. ~Known(j) /\ ~Ended(j) BY <3>1 DEF Known, Ended, FinalStates, Forgotten
    <3>3. \E said \in FinalStates : told[j] \cap FinalStates \subseteq {said} BY <3>1 DEF FinalStates
    <3>. QED BY <3>1, <3>2, <3>3 DEF Story
  <2>. QED BY <2>1, <2>2 DEF JobInv
<1>2. JobInv /\ [JobNext]_jobVars => JobInv' BY TypeStep, StoryStep DEF JobInv, Jobs
<1>. QED BY <1>1, <1>2, PTL DEF JobSpec

\* Types: the registry, its threads and the turns that wait stay well formed.
THEOREM JobsTyped == ASSUME MaxJobs \in Nat PROVE JobSpec => []JobTypeOK
BY JobInductive, PTL DEF JobInv

\* State, reports, listings and waits tell one story of how a job ended, however
\* a kill, the thread's last section and forgetting meet (jobs, lib.rs 308-366).
THEOREM OneEnd == ASSUME MaxJobs \in Nat PROVE JobSpec => []JobOneStory
<1>1. JobInv => JobOneStory
  <2> SUFFICES ASSUME JobInv, NEW j \in Jobs
               PROVE  /\ Cardinality(told[j] \cap FinalStates) <= 1
                      /\ "empty" \in told[j] => record[j].state \in {"killed", "none"}
    BY DEF JobOneStory
  <2>1. Story(j) BY DEF JobInv
  <2>2. PICK said \in FinalStates : told[j] \cap FinalStates \subseteq {said} BY <2>1 DEF Story
  <2>3. Cardinality({said}) = 1 /\ IsFiniteSet({said}) BY FS_Singleton
  <2>4. Cardinality(told[j] \cap FinalStates) <= 1 BY <2>2, <2>3, FS_Subset
  <2>. QED BY <2>1, <2>4 DEF Story
<1>. QED BY <1>1, JobInductive, PTL

-----------------------------------------------------------------------------
\* Attachments, handles and the reaper.

\* A connection that is past its request is at a session and a handle.
Routed(c) == conn[c].phase \in {"routed", "resolved", "dispatching"}
Bound(c) == conn[c].phase \in {"resolved", "dispatching"}

\* What a handle's ledger holds is its turn and the dispatch that has its lock.
Held(h) ==
  /\ open[h] = (IF turn[h] THEN 1 ELSE 0) + (IF locks[h] # NoConn THEN 1 ELSE 0)
  /\ locks[h] # NoConn => conn[locks[h]].phase = "dispatching" /\ Mine(locks[h]) = h

\* A connection on its way keeps its session attached, and its lock once taken.
OnTheWay(c) ==
  /\ Routed(c) => conn[c].session \in attached[c]
  /\ conn[c].phase = "dispatching" => locks[Mine(c)] = c

Counted(s) == counts[s] >= Attachments(s)

HandlesInv ==
  /\ ReapTypeOK
  /\ \A h \in Handles : Held(h)
  /\ \A c \in Conns : OnTheWay(c)

\* Connection states, by phase.
LEMMA Shapes ==
  ASSUME NEW x \in ConnStates
  PROVE  /\ x.phase \in {"waiting", "closed", "routed", "resolved", "dispatching"}
         /\ x.phase \in {"routed", "resolved", "dispatching"} => x.session \in Sessions
         /\ x.phase \in {"resolved", "dispatching"} => x.handle \in 1..MaxHandles
         /\ x.phase = "resolved" =>
              [x EXCEPT !.phase = "dispatching"]
                = [phase |-> "dispatching", session |-> x.session, handle |-> x.handle]
<1>1. CASE x \in {Waiting, [Waiting EXCEPT !.phase = "closed"]}
  <2>1. x.phase \in {"waiting", "closed"} BY <1>1 DEF Waiting
  <2>. QED BY <2>1
<1>2. CASE x \in [phase : {"routed"}, session : Sessions, handle : {0}]
  BY <1>2
<1>3. CASE x \in [phase : {"resolved", "dispatching"}, session : Sessions, handle : 1..MaxHandles]
  <2>1. x.phase \in {"resolved", "dispatching"} /\ x.session \in Sessions /\ x.handle \in 1..MaxHandles
    BY <1>3
  <2>2. [x EXCEPT !.phase = "dispatching"]
          = [phase |-> "dispatching", session |-> x.session, handle |-> x.handle]
    BY <1>3
  <2>. QED BY <2>1, <2>2
<1>. QED BY <1>1, <1>2, <1>3 DEF ConnStates

\* The forms of a connection's state.
LEMMA Records ==
  /\ Waiting \in ConnStates /\ [Waiting EXCEPT !.phase = "closed"] \in ConnStates
  /\ Waiting.phase = "waiting" /\ [Waiting EXCEPT !.phase = "closed"].phase = "closed"
  /\ \A s \in Sessions : [phase |-> "routed", session |-> s, handle |-> 0] \in ConnStates
  /\ \A s \in Sessions, n \in 1..MaxHandles :
       /\ [phase |-> "resolved", session |-> s, handle |-> n] \in ConnStates
       /\ [phase |-> "dispatching", session |-> s, handle |-> n] \in ConnStates
BY DEF ConnStates, Waiting

\* The reaper's states, by phase.
LEMMA Looks ==
  ASSUME NEW r \in ReaperStates
  PROVE  /\ r.phase \in {"asleep", "exited", "next"} \cup Checks
         /\ r.phase = "next" => r.todo \subseteq Sessions
         /\ r.phase \in Checks =>
              /\ r.session \in Sessions
              /\ [r EXCEPT !.phase = "next", !.session = NoOwner] \in ReaperStates
              /\ [r EXCEPT !.phase = "next", !.session = NoOwner].phase = "next"
              /\ \A p \in Checks : /\ [r EXCEPT !.phase = p] \in ReaperStates
                                   /\ [r EXCEPT !.phase = p].phase = p
                                   /\ [r EXCEPT !.phase = p].session = r.session
<1>1. CASE r \in {Asleep, [Asleep EXCEPT !.phase = "exited"]} BY <1>1 DEF Asleep, Checks, Seen
<1>2. CASE r \in [phase : {"next"}, todo : SUBSET Sessions, session : {NoOwner}]
  BY <1>2 DEF Checks, Seen
<1>3. CASE r \in [phase : Checks, todo : SUBSET Sessions, session : Sessions]
  <2>1. r.phase \in Checks /\ r.session \in Sessions BY <1>3
  <2>2. r.phase # "next" BY <2>1 DEF Checks, Seen
  <2>3. [r EXCEPT !.phase = "next", !.session = NoOwner]
           \in [phase : {"next"}, todo : SUBSET Sessions, session : {NoOwner}]
    BY <1>3
  <2>4. ASSUME NEW p \in Checks
        PROVE  /\ [r EXCEPT !.phase = p] \in [phase : Checks, todo : SUBSET Sessions, session : Sessions]
               /\ [r EXCEPT !.phase = p].phase = p
               /\ [r EXCEPT !.phase = p].session = r.session
    BY <1>3
  <2>. QED BY <2>1, <2>2, <2>3, <2>4 DEF ReaperStates
<1>. QED BY <1>1, <1>2, <1>3 DEF ReaperStates

\* Every step keeps the handles and the connections in step.
LEMMA HandleSteps == HandlesInv /\ [ReapNext]_reapVars => HandlesInv'
<1> SUFFICES ASSUME HandlesInv, [ReapNext]_reapVars PROVE HandlesInv' OBVIOUS
<1>a. counts \in [Sessions -> Nat] /\ attached \in [Conns -> SUBSET Sessions]
  BY DEF HandlesInv, ReapTypeOK
<1>c. conn \in [Conns -> ConnStates] BY DEF HandlesInv, ReapTypeOK
<1>q. requests \in [Conns -> 0..MaxRequests] BY DEF HandlesInv, ReapTypeOK
<1>r. registry \in [Sessions -> 0..MaxHandles] /\ created \in [Sessions -> 0..MaxHandles]
  BY DEF HandlesInv, ReapTypeOK
<1>l. locks \in [Handles -> Conns \cup {NoConn}] BY DEF HandlesInv, ReapTypeOK
<1>o. open \in [Handles -> Nat] /\ turn \in [Handles -> BOOLEAN] BY DEF HandlesInv, ReapTypeOK
<1>i. idle \in [Sessions -> 0..Grace] /\ reaper \in ReaperStates /\ shutdown \in BOOLEAN
  BY DEF HandlesInv, ReapTypeOK
<1>n. /\ Grace \in Nat /\ MaxRequests \in Nat /\ MaxHandles \in Nat /\ NoConn \notin Conns
  BY ReaperAssumption
<1>h. \A h \in Handles : Held(h) BY DEF HandlesInv
<1>t. moved' \subseteq Sessions /\ stray' \subseteq Sessions \X (0..MaxHandles) /\ again' \subseteq Sessions
  <2>1. moved \subseteq Sessions /\ stray \subseteq Sessions \X (0..MaxHandles) /\ again \subseteq Sessions
    BY DEF HandlesInv, ReapTypeOK
  <2>2. ASSUME NEW c \in Conns, NEW s \in Sessions, Request(c, s) \/ Watch(c, s)
        PROVE  moved' \subseteq Sessions /\ stray' = stray /\ again' \subseteq Sessions
    BY <2>1, <2>2 DEF Request, Watch, Attach, Reached
  <2>3. ASSUME NEW c \in Conns, Resolve(c)
        PROVE  moved' \subseteq Sessions /\ UNCHANGED <<stray, again>>
    <3>1. conn[c].session \in Sessions BY <2>3, <1>c, Shapes DEF Resolve
    <3>. QED BY <2>1, <2>3, <3>1 DEF Resolve, Reached
  <2>4. ASSUME Unload
        PROVE  moved' = {} /\ stray' \subseteq Sessions \X (0..MaxHandles) /\ again' = again
    <3>1. reaper.session \in Sessions BY <2>4, <1>i, Looks DEF Unload, Checks, Seen
    <3>2. HandleOf(reaper.session) \in Sessions \X (0..MaxHandles) BY <3>1, <1>r DEF HandleOf
    <3>. QED BY <2>1, <2>4, <3>2 DEF Unload, ToNext
  <2>5. ASSUME CheckAttach \/ CheckLedger \/ CheckSlot \/ CheckTree
        PROVE  moved' \in {moved, {}} /\ UNCHANGED <<stray, again>>
    BY <2>5 DEF CheckAttach, CheckLedger, CheckSlot, CheckTree, Check, ToNext
  <2>6. ASSUME NEW c \in Conns, Dispatch(c) \/ Queue(c) \/ Close(c) PROVE UNCHANGED reachVars
    BY <2>6 DEF Dispatch, Queue, Close
  <2>7. ASSUME NEW h \in Handles, TurnEnd(h) PROVE UNCHANGED reachVars
    BY <2>7 DEF TurnEnd
  <2>8. CASE TickBegin \/ TickNext \/ TickEnd \/ StopDaemon \/ ReaperExit \/ UNCHANGED reapVars
    <3>1. UNCHANGED reachVars
      BY <2>8 DEF TickBegin, TickNext, TickEnd, StopDaemon, ReaperExit, reapVars
    <3>. QED BY <2>1, <3>1 DEF reachVars
  <2>. QED
    BY <2>1, <2>2, <2>3, <2>4, <2>5, <2>6, <2>7, <2>8
    DEF ReapNext, ConnStep, TickStep, reachVars
<1>w. \A c \in Conns : OnTheWay(c) BY DEF HandlesInv
<1>1. ASSUME NEW c \in Conns, NEW s \in Sessions, Request(c, s) PROVE HandlesInv'
  <2>1. /\ requests' \in [Conns -> 0..MaxRequests] /\ counts' \in [Sessions -> Nat]
        /\ attached' \in [Conns -> SUBSET Sessions]
    BY <1>1, <1>a, <1>q, <1>n DEF Request, Attach
  <2>2. conn' \in [Conns -> ConnStates]
    BY <1>1, <1>c, Records DEF Request
  <2>3. UNCHANGED <<registry, created, locks, open, turn, idle, reaper, shutdown>>
    BY <1>1 DEF Request, handleVars
  <2>4. ReapTypeOK' BY <1>t, <2>1, <2>2, <2>3, <1>r, <1>l, <1>o, <1>i DEF ReapTypeOK, Handles
  <2>5. ASSUME NEW h \in Handles PROVE Held(h)'
    <3>1. locks[h] # NoConn => locks[h] # c
      BY <1>1, <1>h DEF Held, Request
    <3>2. locks[h] # NoConn => conn'[locks[h]] = conn[locks[h]]
      BY <1>1, <3>1, <1>c, <1>l DEF Request
    <3>. QED BY <1>h, <3>2, <2>3 DEF Held, Mine
  <2>6. ASSUME NEW d \in Conns PROVE OnTheWay(d)'
    <3>1. CASE d = c
      <4>1. conn'[d] = [phase |-> "routed", session |-> s, handle |-> 0] /\ s \in attached'[d]
        BY <1>1, <3>1, <1>c, <1>a DEF Request
      <4>. QED BY <4>1 DEF OnTheWay, Routed
    <3>2. CASE d # c
      <4>1. conn'[d] = conn[d] /\ attached'[d] = attached[d] BY <1>1, <3>2, <1>c, <1>a DEF Request
      <4>. QED BY <4>1, <1>w, <2>3 DEF OnTheWay, Routed, Mine
    <3>. QED BY <3>1, <3>2
  <2>. QED BY <2>4, <2>5, <2>6 DEF HandlesInv, Handles
<1>2. ASSUME NEW c \in Conns, NEW s \in Sessions, Watch(c, s) PROVE HandlesInv'
  <2>1. counts' \in [Sessions -> Nat] /\ attached' \in [Conns -> SUBSET Sessions]
    BY <1>2, <1>a DEF Watch, Attach
  <2>3. UNCHANGED <<conn, requests, registry, created, locks, open, turn, idle, reaper, shutdown>>
    BY <1>2 DEF Watch, handleVars
  <2>4. ReapTypeOK' BY <1>t, <2>1, <2>3, <1>c, <1>q, <1>r, <1>l, <1>o, <1>i DEF ReapTypeOK, Handles
  <2>5. \A h \in Handles : Held(h)' BY <1>h, <2>3 DEF Held, Mine
  <2>6. ASSUME NEW d \in Conns PROVE OnTheWay(d)'
    <3>1. attached[d] \subseteq attached'[d] BY <1>2, <1>a DEF Watch
    <3>. QED BY <3>1, <1>w, <2>3 DEF OnTheWay, Routed, Mine
  <2>. QED BY <2>4, <2>5, <2>6 DEF HandlesInv, Handles
<1>3. ASSUME NEW c \in Conns, Resolve(c) PROVE HandlesInv'
  <2>s. conn[c].phase = "routed" /\ conn[c].session \in Sessions
    BY <1>3, <1>c, Shapes DEF Resolve
  <2>1. /\ registry' \in [Sessions -> 0..MaxHandles] /\ created' \in [Sessions -> 0..MaxHandles]
        /\ registry'[conn[c].session] \in 1..MaxHandles
    <3>1. CASE registry[conn[c].session] # 0 /\ UNCHANGED <<registry, created>>
      BY <3>1, <2>s, <1>r
    <3>2. CASE created[conn[c].session] < MaxHandles
                /\ created' = [created EXCEPT ![conn[c].session] = @ + 1]
                /\ registry' = [registry EXCEPT ![conn[c].session] = created'[conn[c].session]]
      BY <3>2, <2>s, <1>r, <1>n
    <3>. QED BY <1>3, <3>1, <3>2 DEF Resolve
  <2>2. /\ conn' = [conn EXCEPT ![c] = [phase |-> "resolved", session |-> conn[c].session,
                                         handle |-> registry'[conn[c].session]]]
        /\ conn' \in [Conns -> ConnStates]
    BY <1>3, <2>1, <2>s, <1>c, Records DEF Resolve
  <2>3. UNCHANGED <<counts, attached, requests, locks, open, turn, idle, reaper, shutdown>>
    BY <1>3 DEF Resolve
  <2>4. ReapTypeOK' BY <1>t, <2>1, <2>2, <2>3, <1>a, <1>q, <1>l, <1>o, <1>i DEF ReapTypeOK, Handles
  <2>5. ASSUME NEW h \in Handles PROVE Held(h)'
    <3>1. locks[h] # NoConn => locks[h] # c /\ conn'[locks[h]] = conn[locks[h]]
      BY <2>s, <2>2, <1>h, <1>c, <1>l DEF Held
    <3>. QED BY <1>h, <3>1, <2>3 DEF Held, Mine
  <2>6. ASSUME NEW d \in Conns PROVE OnTheWay(d)'
    <3>1. CASE d = c
      <4>1. conn'[d].phase = "resolved" /\ conn'[d].session = conn[d].session
        BY <2>2, <3>1, <1>c
      <4>. QED BY <4>1, <3>1, <2>s, <1>w, <2>3 DEF OnTheWay, Routed
    <3>2. CASE d # c
      <4>1. conn'[d] = conn[d] BY <2>2, <3>2, <1>c
      <4>. QED BY <4>1, <1>w, <2>3 DEF OnTheWay, Routed, Mine
    <3>. QED BY <3>1, <3>2
  <2>. QED BY <2>4, <2>5, <2>6 DEF HandlesInv, Handles
<1>4. ASSUME NEW c \in Conns, Dispatch(c) PROVE HandlesInv'
  <2>s. conn[c].phase = "resolved" /\ conn[c].session \in Sessions /\ conn[c].handle \in 1..MaxHandles
    BY <1>4, <1>c, Shapes DEF Dispatch
  <2>m. Mine(c) \in Handles BY <2>s DEF Mine, Handles
  <2>1. /\ conn' = [conn EXCEPT ![c] = [phase |-> "dispatching", session |-> conn[c].session,
                                         handle |-> conn[c].handle]]
        /\ conn' \in [Conns -> ConnStates] /\ Mine(c)' = Mine(c)
    <3>1. [conn[c] EXCEPT !.phase = "dispatching"]
             = [phase |-> "dispatching", session |-> conn[c].session, handle |-> conn[c].handle]
      BY <2>s, <1>c, Shapes
    <3>2. conn' = [conn EXCEPT ![c] = [phase |-> "dispatching", session |-> conn[c].session,
                                         handle |-> conn[c].handle]]
      BY <3>1, <1>4 DEF Dispatch
    <3>. QED BY <3>2, <2>s, <1>c, Records DEF Mine
  <2>2. /\ locks[Mine(c)] = NoConn
        /\ locks' = [locks EXCEPT ![Mine(c)] = c] /\ open' = [open EXCEPT ![Mine(c)] = @ + 1]
        /\ UNCHANGED <<counts, attached, requests, registry, created, turn, idle, reaper, shutdown>>
    BY <1>4 DEF Dispatch
  <2>3. locks' \in [Handles -> Conns \cup {NoConn}] /\ open' \in [Handles -> Nat]
    BY <2>2, <2>m, <1>l, <1>o
  <2>4. ReapTypeOK'
    BY <1>t, <2>1, <2>2, <2>3, <1>a, <1>q, <1>r, <1>o, <1>i DEF ReapTypeOK, Handles
  <2>5. ASSUME NEW h \in Handles PROVE Held(h)'
    <3>1. CASE h = Mine(c)
      <4>1. locks'[h] = c /\ open'[h] = open[h] + 1 /\ turn'[h] = turn[h] /\ locks[h] = NoConn
        BY <3>1, <2>2, <2>m, <1>l, <1>o
      <4>2. conn'[c].phase = "dispatching" BY <2>1, <1>c
      <4>3. open'[h] = (IF turn'[h] THEN 1 ELSE 0) + (IF locks'[h] # NoConn THEN 1 ELSE 0)
        BY <4>1, <1>h, <1>n, <1>o DEF Held
      <4>. QED BY <4>1, <4>2, <4>3, <2>1, <3>1 DEF Held, Mine
    <3>2. CASE h # Mine(c)
      <4>1. locks'[h] = locks[h] /\ open'[h] = open[h] /\ turn'[h] = turn[h]
        BY <3>2, <2>2, <2>m, <1>l, <1>o
      <4>2. locks[h] # NoConn => locks[h] # c /\ conn'[locks[h]] = conn[locks[h]]
        BY <2>s, <2>1, <1>h, <1>c, <1>l DEF Held
      <4>. QED BY <1>h, <4>1, <4>2 DEF Held, Mine
    <3>. QED BY <3>1, <3>2
  <2>6. ASSUME NEW d \in Conns PROVE OnTheWay(d)'
    <3>1. CASE d = c
      <4>1. conn'[d].session = conn[d].session /\ Routed(d) BY <2>1, <2>s, <3>1, <1>c DEF Routed
      <4>2. locks'[Mine(d)'] = d BY <2>1, <2>2, <2>m, <3>1, <1>l
      <4>. QED BY <4>1, <4>2, <1>w, <2>2 DEF OnTheWay, Mine
    <3>2. CASE d # c
      <4>1. conn'[d] = conn[d] BY <2>1, <3>2, <1>c
      <4>2. conn[d].phase = "dispatching" => Mine(d) # Mine(c)
        BY <1>w, <2>2, <1>n DEF OnTheWay
      <4>3. conn[d].phase = "dispatching" => Mine(d) \in Handles
        BY <1>c, Shapes DEF Mine, Handles
      <4>4. conn[d].phase = "dispatching" => locks'[Mine(d)] = locks[Mine(d)]
        BY <4>2, <4>3, <2>2, <1>l
      <4>. QED BY <4>1, <4>4, <1>w, <2>2 DEF OnTheWay, Routed, Mine
    <3>. QED BY <3>1, <3>2
  <2>. QED BY <2>4, <2>5, <2>6 DEF HandlesInv, Handles
<1>5. ASSUME NEW c \in Conns, Queue(c) PROVE HandlesInv'
  <2>s. conn[c].phase = "dispatching" /\ conn[c].session \in Sessions /\ conn[c].handle \in 1..MaxHandles
    BY <1>5, <1>c, Shapes DEF Queue
  <2>m. Mine(c) \in Handles /\ locks[Mine(c)] = c
    BY <2>s, <1>w DEF Mine, Handles, OnTheWay
  <2>2. /\ ~turn[Mine(c)] /\ conn' = [conn EXCEPT ![c] = Waiting]
        /\ locks' = [locks EXCEPT ![Mine(c)] = NoConn] /\ turn' = [turn EXCEPT ![Mine(c)] = TRUE]
        /\ UNCHANGED <<counts, attached, requests, registry, created, open, idle, reaper, shutdown>>
    BY <1>5 DEF Queue
  <2>3. /\ locks' \in [Handles -> Conns \cup {NoConn}] /\ turn' \in [Handles -> BOOLEAN]
        /\ conn' \in [Conns -> ConnStates]
    BY <2>2, <2>m, <1>l, <1>o, <1>c, Records
  <2>4. ReapTypeOK'
    BY <1>t, <2>2, <2>3, <1>a, <1>q, <1>r, <1>o, <1>i DEF ReapTypeOK, Handles
  <2>5. ASSUME NEW h \in Handles PROVE Held(h)'
    <3>1. CASE h = Mine(c)
      <4>1. locks'[h] = NoConn /\ open'[h] = open[h] /\ turn'[h] = TRUE /\ locks[h] = c /\ ~turn[h]
        BY <3>1, <2>2, <2>m, <1>l, <1>o
      <4>. QED BY <4>1, <1>h, <1>n DEF Held
    <3>2. CASE h # Mine(c)
      <4>1. locks'[h] = locks[h] /\ open'[h] = open[h] /\ turn'[h] = turn[h]
        BY <3>2, <2>2, <2>m, <1>l, <1>o
      <4>2. locks[h] # NoConn => locks[h] # c /\ conn'[locks[h]] = conn[locks[h]]
        BY <2>2, <3>2, <1>h, <1>c, <1>l DEF Held
      <4>. QED BY <1>h, <4>1, <4>2 DEF Held, Mine
    <3>. QED BY <3>1, <3>2
  <2>6. ASSUME NEW d \in Conns PROVE OnTheWay(d)'
    <3>1. CASE d = c
      <4>1. conn'[d].phase = "waiting" BY <2>2, <3>1, <1>c, Records
      <4>. QED BY <4>1 DEF OnTheWay, Routed
    <3>2. CASE d # c
      <4>1. conn'[d] = conn[d] BY <2>2, <3>2, <1>c
      <4>2. conn[d].phase = "dispatching" => Mine(d) \in Handles /\ Mine(d) # Mine(c)
        BY <3>2, <1>c, <1>w, <2>m, Shapes DEF Mine, Handles, OnTheWay
      <4>3. conn[d].phase = "dispatching" => locks'[Mine(d)] = locks[Mine(d)]
        BY <4>2, <2>2, <1>l
      <4>. QED BY <4>1, <4>3, <1>w, <2>2 DEF OnTheWay, Routed, Mine
    <3>. QED BY <3>1, <3>2
  <2>. QED BY <2>4, <2>5, <2>6 DEF HandlesInv, Handles
<1>6. ASSUME NEW c \in Conns, Close(c) PROVE HandlesInv'
  <2>1. counts' \in [Sessions -> Nat] /\ attached' \in [Conns -> SUBSET Sessions]
    BY <1>6, <1>a DEF Close
  <2>2. /\ conn' = [conn EXCEPT ![c] = [Waiting EXCEPT !.phase = "closed"]]
        /\ conn' \in [Conns -> ConnStates] /\ conn[c].phase = "waiting"
    BY <1>6, <1>c, Records DEF Close
  <2>3. /\ UNCHANGED <<requests, registry, created, locks, open, turn, idle, reaper, shutdown>>
        /\ attached' = [attached EXCEPT ![c] = {}]
    BY <1>6 DEF Close, handleVars
  <2>4. ReapTypeOK' BY <1>t, <2>1, <2>2, <2>3, <1>q, <1>r, <1>l, <1>o, <1>i DEF ReapTypeOK, Handles
  <2>5. ASSUME NEW h \in Handles PROVE Held(h)'
    <3>1. locks[h] # NoConn => locks[h] # c /\ conn'[locks[h]] = conn[locks[h]]
      BY <2>2, <1>h, <1>c, <1>l DEF Held
    <3>. QED BY <1>h, <3>1, <2>3 DEF Held, Mine
  <2>6. ASSUME NEW d \in Conns PROVE OnTheWay(d)'
    <3>1. CASE d = c
      <4>1. conn'[d].phase = "closed" BY <2>2, <3>1, <1>c, Records
      <4>. QED BY <4>1 DEF OnTheWay, Routed
    <3>2. CASE d # c
      <4>1. conn'[d] = conn[d] /\ attached'[d] = attached[d] BY <2>2, <2>3, <3>2, <1>c, <1>a
      <4>. QED BY <4>1, <1>w, <2>3 DEF OnTheWay, Routed, Mine
    <3>. QED BY <3>1, <3>2
  <2>. QED BY <2>4, <2>5, <2>6 DEF HandlesInv, Handles
<1>7. ASSUME NEW h \in Handles, TurnEnd(h) PROVE HandlesInv'
  <2>1. /\ turn[h] /\ turn' = [turn EXCEPT ![h] = FALSE] /\ open' = [open EXCEPT ![h] = @ - 1]
        /\ UNCHANGED <<counts, attached, conn, requests, registry, created, locks, idle, reaper, shutdown>>
    BY <1>7 DEF TurnEnd, connVars
  <2>2. open[h] \in Nat /\ open[h] >= 1 BY <2>1, <1>h, <1>o DEF Held
  <2>3. turn' \in [Handles -> BOOLEAN] /\ open' \in [Handles -> Nat] BY <2>1, <2>2, <1>o
  <2>4. ReapTypeOK'
    BY <1>t, <2>1, <2>3, <1>a, <1>c, <1>q, <1>r, <1>l, <1>i DEF ReapTypeOK, Handles
  <2>5. ASSUME NEW k \in Handles PROVE Held(k)'
    <3>1. CASE k = h
      <4>1. turn'[k] = FALSE /\ open'[k] = open[k] - 1 /\ turn[k] /\ open[k] \in Nat
        BY <3>1, <2>1, <2>2, <1>o
      <4>. QED BY <4>1, <1>h, <2>1 DEF Held, Mine
    <3>2. CASE k # h
      <4>1. turn'[k] = turn[k] /\ open'[k] = open[k] BY <3>2, <2>1, <1>o
      <4>. QED BY <4>1, <1>h, <2>1 DEF Held, Mine
    <3>. QED BY <3>1, <3>2
  <2>6. \A c \in Conns : OnTheWay(c)' BY <1>w, <2>1 DEF OnTheWay, Routed, Mine
  <2>. QED BY <2>4, <2>5, <2>6 DEF HandlesInv, Handles
<1>8. ASSUME UNCHANGED <<counts, attached, conn, requests, created, locks, open, turn>>,
             registry' \in [Sessions -> 0..MaxHandles], idle' \in [Sessions -> 0..Grace],
             reaper' \in ReaperStates, shutdown' \in BOOLEAN
      PROVE  HandlesInv'
  <2>1. ReapTypeOK' BY <1>t, <1>8, <1>a, <1>c, <1>q, <1>r, <1>l, <1>o DEF ReapTypeOK, Handles
  <2>2. \A h \in Handles : Held(h)' BY <1>8, <1>h DEF Held, Mine
  <2>3. \A c \in Conns : OnTheWay(c)' BY <1>8, <1>w DEF OnTheWay, Routed, Mine
  <2>. QED BY <2>1, <2>2, <2>3 DEF HandlesInv, Handles
<1>9. ASSUME TickBegin \/ TickNext \/ TickEnd \/ StopDaemon \/ ReaperExit \/ UNCHANGED reapVars
      PROVE  HandlesInv'
  <2>1. UNCHANGED <<counts, attached, conn, requests, registry, created, locks, open, turn>>
    BY <1>9 DEF TickBegin, TickNext, TickEnd, StopDaemon, ReaperExit, reapVars, connVars, handleVars
  <2>2. idle' \in [Sessions -> 0..Grace]
    BY <1>9, <1>i, <1>n DEF TickBegin, TickNext, TickEnd, StopDaemon, ReaperExit, reapVars
  <2>3. shutdown' \in BOOLEAN
    BY <1>9, <1>i DEF TickBegin, TickNext, TickEnd, StopDaemon, ReaperExit, reapVars
  <2>4. reaper' \in ReaperStates
    <3>1. CASE TickBegin BY <3>1 DEF TickBegin, Live, ReaperStates
    <3>2. CASE TickNext
      <4>1. reaper.todo \subseteq Sessions BY <3>2, <1>i, Looks DEF TickNext
      <4>. QED BY <4>1, <3>2 DEF TickNext, ReaperStates, Checks, Seen
    <3>3. CASE TickEnd BY <3>3 DEF TickEnd, ReaperStates
    <3>4. CASE ReaperExit BY <3>4 DEF ReaperExit, ReaperStates
    <3>5. CASE StopDaemon \/ UNCHANGED reapVars BY <3>5, <1>i DEF StopDaemon, reapVars
    <3>. QED BY <1>9, <3>1, <3>2, <3>3, <3>4, <3>5
  <2>. QED BY <2>1, <2>2, <2>3, <2>4, <1>8, <1>r
<1>10. ASSUME CheckAttach \/ CheckLedger \/ CheckSlot \/ CheckTree PROVE HandlesInv'
  <2>1. /\ UNCHANGED <<counts, attached, conn, requests, registry, created, locks, open, turn, shutdown>>
        /\ reaper.phase \in Checks
        /\ \/ UNCHANGED idle /\ \E p \in Checks : reaper' = [reaper EXCEPT !.phase = p]
           \/ ToNext /\ idle' = [idle EXCEPT ![reaper.session] = 0]
    BY <1>10 DEF CheckAttach, CheckLedger, CheckSlot, CheckTree, Check, connVars, handleVars, Checks, Seen
  <2>2. reaper.session \in Sessions /\ reaper' \in ReaperStates
    <3>1. reaper \in ReaperStates BY <1>i
    <3>2. /\ reaper.session \in Sessions
          /\ [reaper EXCEPT !.phase = "next", !.session = NoOwner] \in ReaperStates
          /\ \A p \in Checks : [reaper EXCEPT !.phase = p] \in ReaperStates
      BY <2>1, <3>1, Looks
    <3>3. CASE \E p \in Checks : reaper' = [reaper EXCEPT !.phase = p] BY <3>2, <3>3
    <3>4. CASE ToNext BY <3>2, <3>4 DEF ToNext
    <3>. QED BY <2>1, <3>2, <3>3, <3>4
  <2>3. idle' \in [Sessions -> 0..Grace] BY <2>1, <2>2, <1>i, <1>n
  <2>. QED BY <2>1, <2>2, <2>3, <1>8, <1>r, <1>i
<1>11. ASSUME Unload PROVE HandlesInv'
  <2>1. /\ UNCHANGED <<counts, attached, conn, requests, created, locks, open, turn, shutdown>>
        /\ reaper.phase \in Checks /\ ToNext
    BY <1>11 DEF Unload, connVars, Checks, Seen
  <2>2. reaper.session \in Sessions /\ reaper' \in ReaperStates BY <2>1, <1>i, Looks DEF ToNext
  <2>3. idle' \in [Sessions -> 0..Grace] /\ registry' \in [Sessions -> 0..MaxHandles]
    BY <1>11, <2>2, <1>i, <1>r, <1>n DEF Unload
  <2>. QED BY <2>1, <2>2, <2>3, <1>8, <1>i
<1>. QED
  BY <1>1, <1>2, <1>3, <1>4, <1>5, <1>6, <1>7, <1>9, <1>10, <1>11
  DEF ReapNext, ConnStep, TickStep

\* The invariant holds while no session has a handle.
LEMMA HandlesInit == ReapInit => HandlesInv
<1> SUFFICES ASSUME ReapInit PROVE HandlesInv OBVIOUS
<1>1. ReapTypeOK
  <2>1. conn \in [Conns -> ConnStates] BY Records DEF ReapInit, Fresh
  <2>2. reaper \in ReaperStates BY DEF ReapInit, ReaperStates
  <2>3. idle \in [Sessions -> 0..Grace] /\ requests \in [Conns -> 0..MaxRequests]
    BY ReaperAssumption DEF ReapInit, Fresh
  <2>4. registry \in [Sessions -> 0..MaxHandles] /\ created \in [Sessions -> 0..MaxHandles]
    BY ReaperAssumption DEF ReapInit, Fresh
  <2>6. counts \in [Sessions -> Nat] /\ attached \in [Conns -> SUBSET Sessions]
    BY DEF ReapInit, Fresh
  <2>7. /\ shutdown \in BOOLEAN
        /\ moved \subseteq Sessions /\ stray \subseteq Sessions \X (0..MaxHandles) /\ again \subseteq Sessions
    BY DEF ReapInit, Fresh
  <2>5. /\ locks \in [Handles -> Conns \cup {NoConn}] /\ open \in [Handles -> Nat]
        /\ turn \in [Handles -> BOOLEAN]
    BY DEF ReapInit, Fresh
  <2>. QED BY <2>1, <2>2, <2>3, <2>4, <2>5, <2>6, <2>7 DEF ReapTypeOK
<1>2. \A h \in Handles : Held(h) BY DEF ReapInit, Fresh, Held
<1>3. ASSUME NEW c \in Conns PROVE OnTheWay(c)
  <2>1. conn[c].phase = "waiting" BY Records DEF ReapInit, Fresh
  <2>. QED BY <2>1 DEF OnTheWay, Routed
<1>. QED BY <1>1, <1>2, <1>3 DEF HandlesInv

\* An element more, an element less.
LEMMA OneMore ==
  ASSUME NEW S, NEW T, NEW x, IsFiniteSet(S), T \subseteq S \cup {x}
  PROVE  Cardinality(T) <= Cardinality(S) + 1 /\ Cardinality(S) \in Nat /\ Cardinality(T) \in Nat
<1>1. Cardinality(S) \in Nat BY FS_CardinalityType
<1>2. /\ IsFiniteSet(S \cup {x})
      /\ Cardinality(S \cup {x}) = IF x \in S THEN Cardinality(S) ELSE Cardinality(S) + 1
  BY FS_AddElement
<1>3. IsFiniteSet(T) /\ Cardinality(T) <= Cardinality(S \cup {x}) BY <1>2, FS_Subset
<1>4. Cardinality(T) \in Nat /\ Cardinality(S \cup {x}) \in Nat BY <1>2, <1>3, FS_CardinalityType
<1>. QED BY <1>1, <1>2, <1>3, <1>4

\* A connection that leaves takes one from the count.
LEMMA OneLess ==
  ASSUME NEW S, NEW x \in S, IsFiniteSet(S)
  PROVE  Cardinality(S \ {x}) = Cardinality(S) - 1 /\ Cardinality(S) \in Nat /\ Cardinality(S) >= 1
<1>1. Cardinality(S) \in Nat BY FS_CardinalityType
<1>2. IsFiniteSet(S \ {x}) /\ Cardinality(S \ {x}) = IF x \in S THEN Cardinality(S) - 1 ELSE Cardinality(S)
  BY FS_RemoveElement
<1>3. Cardinality(S \ {x}) \in Nat BY <1>2, FS_CardinalityType
<1>. QED BY <1>1, <1>2, <1>3

\* A session is counted for every connection that remembers it.
LEMMA CountSteps ==
  HandlesInv /\ (\A s \in Sessions : Counted(s)) /\ [ReapNext]_reapVars
    => \A s \in Sessions : Counted(s)'
<1> SUFFICES ASSUME HandlesInv, \A s \in Sessions : Counted(s), [ReapNext]_reapVars, NEW s \in Sessions
             PROVE  Counted(s)'
  OBVIOUS
<1>a. counts \in [Sessions -> Nat] /\ attached \in [Conns -> SUBSET Sessions]
  BY DEF HandlesInv, ReapTypeOK
<1> DEFINE Who == {c \in Conns : s \in attached[c]}
<1>f. IsFiniteSet(Who) BY ReaperAssumption, FS_Subset
<1>c. Cardinality(Who) \in Nat /\ counts[s] >= Cardinality(Who)
  BY <1>f, FS_CardinalityType DEF Counted, Attachments
<1>1. ASSUME NEW c \in Conns, NEW r \in Sessions, Request(c, r) \/ Watch(c, r) PROVE Counted(s)'
  <2>1. counts' = [counts EXCEPT ![r] = @ + 1] /\ attached' = [attached EXCEPT ![c] = @ \cup {r}]
    BY <1>1 DEF Request, Watch, Attach
  <2>2. CASE r = s
    <3>1. {d \in Conns : s \in attached'[d]} \subseteq Who \cup {c} BY <2>1, <1>a
    <3>2. Cardinality({d \in Conns : s \in attached'[d]}) <= Cardinality(Who) + 1
      BY <3>1, <1>f, OneMore
    <3>3. Cardinality({d \in Conns : s \in attached'[d]}) \in Nat BY <3>1, <1>f, OneMore
    <3>4. counts'[s] = counts[s] + 1 BY <2>1, <2>2, <1>a
    <3>. HIDE DEF Who
    <3>. QED BY <3>2, <3>3, <3>4, <1>c, <1>a DEF Counted, Attachments
  <2>3. CASE r # s
    <3>1. {d \in Conns : s \in attached'[d]} = Who /\ counts'[s] = counts[s] BY <2>1, <2>3, <1>a
    <3>. QED BY <3>1, <1>c DEF Counted, Attachments
  <2>. QED BY <2>2, <2>3
<1>2. ASSUME NEW c \in Conns, Close(c) PROVE Counted(s)'
  <2>1. /\ counts'[s] = IF s \in attached[c] /\ counts[s] > 0 THEN counts[s] - 1 ELSE counts[s]
        /\ attached' = [attached EXCEPT ![c] = {}]
    BY <1>2, <1>a DEF Close
  <2>2. CASE s \in attached[c]
    <3>1. {d \in Conns : s \in attached'[d]} = Who \ {c} /\ c \in Who BY <2>1, <2>2, <1>a
    <3>2. Cardinality(Who \ {c}) = Cardinality(Who) - 1 /\ Cardinality(Who) >= 1
      BY <3>1, <1>f, OneLess
    <3>3. counts'[s] = counts[s] - 1 BY <2>1, <2>2, <3>2, <1>c, <1>a
    <3>4. Attachments(s)' = Cardinality(Who) - 1 BY <3>1, <3>2 DEF Attachments
    <3>. HIDE DEF Who
    <3>. QED BY <3>3, <3>4, <1>c, <1>a DEF Counted
  <2>3. CASE s \notin attached[c]
    <3>1. {d \in Conns : s \in attached'[d]} = Who /\ counts'[s] = counts[s] BY <2>1, <2>3, <1>a
    <3>. QED BY <3>1, <1>c DEF Counted, Attachments
  <2>. QED BY <2>2, <2>3
<1>3. ASSUME UNCHANGED <<counts, attached>> PROVE Counted(s)'
  <2>1. counts[s] >= Attachments(s) BY DEF Counted
  <2>. QED BY <1>3 DEF Counted, Attachments
<1>4. CASE \E c \in Conns : ConnStep(c) BY <1>4, <1>3 DEF ConnStep, Resolve, Dispatch, Queue
<1>5. CASE \E h \in Handles : TurnEnd(h) BY <1>5, <1>3 DEF TurnEnd, connVars
<1>6. CASE TickBegin \/ TickStep \/ StopDaemon \/ ReaperExit \/ UNCHANGED reapVars
  BY <1>6, <1>3 DEF TickBegin, TickStep, TickNext, TickEnd, CheckAttach, CheckLedger, CheckSlot, Check,
    CheckTree, Unload, StopDaemon, ReaperExit, reapVars, connVars
<1>. QED BY <1>1, <1>2, <1>4, <1>5, <1>6 DEF ReapNext

\* What was checked still holds of a session that nothing reached since.
Checked ==
  LET s == reaper.session
  IN /\ reaper.phase \in Seen /\ s \notin moved => counts[s] = 0
     /\ reaper.phase \in {"slot", "tree", "unload"} /\ s \notin moved => ~OpenRun(s)
     /\ reaper.phase = "unload" => \A d \in Live \ {s} : IsAncestor(s, d) => d \in moved

OnHandle ==
  \A c \in Conns : Bound(c) => registry[conn[c].session] = conn[c].handle \/ Mine(c) \in stray

ReachInv == OnHandle /\ Checked /\ TurnIsReachable /\ \A s \in Sessions : Counted(s)

\* A session without attachments has no connection on its way.
LEMMA NobodyThere ==
  ASSUME HandlesInv, NEW s \in Sessions, Counted(s), counts[s] = 0
  PROVE  \A c \in Conns : Routed(c) => conn[c].session # s
<1> SUFFICES ASSUME NEW c \in Conns, Routed(c), conn[c].session = s PROVE FALSE OBVIOUS
<1> DEFINE Who == {d \in Conns : s \in attached[d]}
<1>1. c \in Who BY DEF HandlesInv, OnTheWay
<1>2. IsFiniteSet(Who) BY ReaperAssumption, FS_Subset
<1>3. Cardinality(Who) >= 1 /\ Cardinality(Who) \in Nat BY <1>1, <1>2, OneLess
<1>. QED BY <1>3 DEF Counted, Attachments

\* The unload's moment: of a session that nothing reached, nothing has changed.
LEMMA Unloading ==
  ASSUME HandlesInv, ReachInv, reaper.phase = "unload", reaper.session \notin moved
  PROVE  /\ reaper.session \in Sessions /\ counts[reaper.session] = 0 /\ ~OpenRun(reaper.session)
         /\ \A h \in Handles : h[1] = reaper.session => ~turn[h]
<1>1. reaper.session \in Sessions BY Looks DEF HandlesInv, ReapTypeOK, Checks, Seen
<1>2. counts[reaper.session] = 0 /\ ~OpenRun(reaper.session) BY DEF ReachInv, Checked, Seen
<1>3. ASSUME NEW h \in Handles, h[1] = reaper.session PROVE ~turn[h]
  <2>1. open[h] \in Nat /\ turn[h] \in BOOLEAN BY DEF HandlesInv, ReapTypeOK
  <2>2. open[h] = 0 BY <1>2, <1>3, <2>1 DEF OpenRun
  <2>. QED BY <2>1, <2>2 DEF HandlesInv, Held
<1>. QED BY <1>1, <1>2, <1>3

\* A step of a connection leaves what was checked of a session that nothing
\* reached, and puts every session it reaches among those that are.
LEMMA CheckedStays ==
  ASSUME HandlesInv, ReachInv, reaper' = reaper, moved \subseteq moved',
         \A s \in Sessions : s \notin moved' /\ counts[s] = 0 => counts'[s] = 0,
         \A s \in Sessions : s \notin moved' /\ counts[s] = 0 /\ ~OpenRun(s) => ~OpenRun(s)',
         reaper.phase \in Seen => Live' \subseteq Live \cup moved'
  PROVE  Checked'
<1>1. reaper.phase \in Seen => reaper.session \in Sessions
  BY Looks DEF HandlesInv, ReapTypeOK, Checks, Seen
<1>2. Checked BY DEF ReachInv
<1>. DEFINE s == reaper.session
<1>3. reaper.phase \in Seen /\ s \notin moved' => counts'[s] = 0
  BY <1>1, <1>2 DEF Checked
<1>4. reaper.phase \in {"slot", "tree", "unload"} /\ s \notin moved' => ~OpenRun(s)'
  BY <1>1, <1>2 DEF Checked, Seen
<1>5. ASSUME reaper.phase = "unload", NEW d \in Live' \ {s}, IsAncestor(s, d) PROVE d \in moved'
  <2>1. d \in Live \/ d \in moved' BY <1>5 DEF Seen
  <2>. QED BY <1>2, <1>5, <2>1 DEF Checked
<1>. QED BY <1>3, <1>4, <1>5 DEF Checked, OpenRun, Seen, Handles

\* What a turn needs to be reached stays in every step, or what took it away
\* raced.
LEMMA ReachSteps == HandlesInv /\ ReachInv /\ [ReapNext]_reapVars => ReachInv'
<1> SUFFICES ASSUME HandlesInv, ReachInv, [ReapNext]_reapVars PROVE ReachInv' OBVIOUS
<1>a. counts \in [Sessions -> Nat] /\ attached \in [Conns -> SUBSET Sessions]
  BY DEF HandlesInv, ReapTypeOK
<1>c. conn \in [Conns -> ConnStates] BY DEF HandlesInv, ReapTypeOK
<1>r. registry \in [Sessions -> 0..MaxHandles] /\ created \in [Sessions -> 0..MaxHandles]
  BY DEF HandlesInv, ReapTypeOK
<1>o. open \in [Handles -> Nat] /\ turn \in [Handles -> BOOLEAN] BY DEF HandlesInv, ReapTypeOK
<1>i. reaper \in ReaperStates BY DEF HandlesInv, ReapTypeOK
<1>n. MaxHandles \in Nat /\ NoConn \notin Conns BY ReaperAssumption
<1>s. \A s \in Sessions : Counted(s)' BY CountSteps DEF ReachInv
<1>b. OnHandle /\ Checked /\ TurnIsReachable BY DEF ReachInv
<1>1. ASSUME NEW c \in Conns, NEW s \in Sessions, Request(c, s) \/ Watch(c, s) PROVE ReachInv'
  <2>1. /\ UNCHANGED <<registry, open, turn, reaper, stray>> /\ Reached(s)
        /\ counts' = [counts EXCEPT ![s] = @ + 1]
    BY <1>1 DEF Request, Watch, handleVars, Attach
  <2>2. ASSUME NEW d \in Conns, Bound(d)' PROVE conn'[d] = conn[d]
    BY <1>1, <2>2, <1>c DEF Request, Watch, Bound
  <2>3. OnHandle' BY <2>1, <2>2, <1>b DEF OnHandle, Bound, Mine
  <2>4. TurnIsReachable' BY <2>1, <1>b DEF TurnIsReachable, Handles
  <2>5. Checked'
    <3>1. CASE reaper.phase \in Seen
      <4>1. moved' = moved \cup {s} BY <2>1, <3>1 DEF Reached
      <4>. QED BY <2>1, <4>1, <1>a, CheckedStays DEF OpenRun, Handles, Live
    <3>2. CASE reaper.phase \notin Seen BY <2>1, <3>2 DEF Checked, Seen
    <3>. QED BY <3>1, <3>2
  <2>. QED BY <2>3, <2>4, <2>5, <1>s DEF ReachInv
<1>2. ASSUME NEW c \in Conns, Resolve(c) PROVE ReachInv'
  <2> DEFINE s == conn[c].session
  <2>1. conn[c].phase = "routed" /\ s \in Sessions BY <1>2, <1>c, Shapes DEF Resolve
  <2>2. /\ UNCHANGED <<counts, open, turn, reaper, stray>>
        /\ conn' = [conn EXCEPT ![c] = [phase |-> "resolved", session |-> s, handle |-> registry'[s]]]
    BY <1>2 DEF Resolve
  <2>3. \/ registry' = registry /\ moved' = moved
        \/ /\ registry[s] = 0 /\ Reached(s)
           /\ \A x \in Sessions \ {s} : registry'[x] = registry[x]
    BY <1>2, <1>r DEF Resolve
  <2>6. Checked'
    <3>1. reaper.phase \in Seen => moved \subseteq moved' /\ Live' \subseteq Live \cup moved'
      BY <2>3 DEF Reached, Live
    <3>2. CASE reaper.phase \in Seen
      BY <2>2, <3>1, <3>2, CheckedStays DEF OpenRun, Handles
    <3>3. CASE reaper.phase \notin Seen BY <2>2, <3>3 DEF Checked, Seen
    <3>. QED BY <3>2, <3>3
  <2>. HIDE DEF s
  <2>4. OnHandle'
    <3>1. ASSUME NEW d \in Conns, Bound(d)'
          PROVE  registry'[conn'[d].session] = conn'[d].handle \/ Mine(d)' \in stray'
      <4>1. CASE d = c
        <5>1. conn'[d] = [phase |-> "resolved", session |-> s, handle |-> registry'[s]]
          BY <2>2, <4>1, <1>c
        <5>. QED BY <5>1
      <4>2. CASE d # c
        <5>1. conn'[d] = conn[d] /\ Bound(d) BY <2>2, <4>2, <3>1, <1>c DEF Bound
        <5>2. conn[d].session \in Sessions /\ conn[d].handle \in 1..MaxHandles
          BY <5>1, <1>c, Shapes DEF Bound
        <5>3. CASE Mine(d) \in stray BY <5>1, <5>3, <2>2 DEF Mine
        <5>4. CASE registry[conn[d].session] = conn[d].handle
          <6>1. registry[s] = 0 => conn[d].session # s BY <5>2, <5>4, <1>n
          <6>. QED BY <2>3, <5>1, <5>2, <5>4, <6>1
        <5>. QED BY <5>1, <5>3, <5>4, <1>b DEF OnHandle
      <4>. QED BY <4>1, <4>2
    <3>. QED BY <3>1 DEF OnHandle
  <2>5. TurnIsReachable'
    <3>1. ASSUME NEW h \in Handles, turn[h] PROVE registry'[h[1]] = h[2] \/ h \in stray
      <4>1. registry[h[1]] = h[2] \/ h \in stray BY <3>1, <1>b DEF TurnIsReachable
      <4>2. h[1] \in Sessions /\ h[2] # 0 BY <1>n DEF Handles
      <4>. QED BY <4>1, <4>2, <2>3
    <3>. QED BY <3>1, <2>2 DEF TurnIsReachable, Handles
  <2>. QED BY <2>4, <2>5, <2>6, <1>s DEF ReachInv
<1>3. ASSUME NEW c \in Conns, Dispatch(c) PROVE ReachInv'
  <2>1. /\ conn[c].phase = "resolved" /\ conn[c].session \in Sessions
        /\ conn[c].handle \in 1..MaxHandles
    BY <1>3, <1>c, Shapes DEF Dispatch
  <2>2. /\ UNCHANGED <<counts, registry, turn, reaper, moved, stray>>
        /\ open' = [open EXCEPT ![Mine(c)] = @ + 1]
        /\ conn' = [conn EXCEPT ![c] = [phase |-> "dispatching", session |-> conn[c].session,
                                         handle |-> conn[c].handle]]
    BY <1>3, <2>1, <1>c, Shapes DEF Dispatch, reachVars
  <2>3. ASSUME NEW d \in Conns, Bound(d)'
        PROVE  Bound(d) /\ conn'[d].session = conn[d].session /\ conn'[d].handle = conn[d].handle
    BY <2>1, <2>2, <2>3, <1>c DEF Bound
  <2>4. OnHandle' BY <2>2, <2>3, <1>b DEF OnHandle, Mine
  <2>5. TurnIsReachable' BY <2>2, <1>b DEF TurnIsReachable, Handles
  <2>6. Checked'
    <3>1. ASSUME NEW s \in Sessions, counts[s] = 0, ~OpenRun(s) PROVE ~OpenRun(s)'
      <4>1. conn[c].session # s BY <2>1, <3>1, NobodyThere DEF ReachInv, Routed
      <4>2. \A h \in Handles : h[1] = s => open'[h] = open[h]
        BY <2>2, <4>1, <1>o DEF Mine
      <4>. QED BY <3>1, <4>2 DEF OpenRun, Handles
    <3>. QED BY <2>2, <3>1, CheckedStays DEF Live
  <2>. QED BY <2>4, <2>5, <2>6, <1>s DEF ReachInv
<1>4. ASSUME NEW c \in Conns, Queue(c) PROVE ReachInv'
  <2>1. /\ conn[c].phase = "dispatching" /\ conn[c].session \in Sessions
        /\ conn[c].handle \in 1..MaxHandles
    BY <1>4, <1>c, Shapes DEF Queue
  <2>2. /\ UNCHANGED <<counts, registry, open, reaper, moved, stray>>
        /\ conn' = [conn EXCEPT ![c] = Waiting] /\ turn' = [turn EXCEPT ![Mine(c)] = TRUE]
    BY <1>4 DEF Queue, reachVars
  <2>3. ASSUME NEW d \in Conns, Bound(d)' PROVE conn'[d] = conn[d]
    BY <2>2, <2>3, <1>c, Records DEF Bound
  <2>4. OnHandle' BY <2>2, <2>3, <1>b DEF OnHandle, Bound, Mine
  <2>5. TurnIsReachable'
    <3>1. registry[Mine(c)[1]] = Mine(c)[2] \/ Mine(c) \in stray
      BY <2>1, <1>b DEF OnHandle, Bound, Mine
    <3>2. ASSUME NEW h \in Handles, turn'[h] PROVE registry[h[1]] = h[2] \/ h \in stray
      <4>1. CASE h = Mine(c) BY <4>1, <3>1
      <4>2. CASE h # Mine(c)
        <5>1. turn[h] BY <4>2, <3>2, <2>2, <1>o
        <5>. QED BY <5>1, <1>b DEF TurnIsReachable
      <4>. QED BY <4>1, <4>2
    <3>. QED BY <3>2, <2>2 DEF TurnIsReachable, Handles
  <2>6. Checked' BY <2>2, CheckedStays DEF OpenRun, Handles, Live
  <2>. QED BY <2>4, <2>5, <2>6, <1>s DEF ReachInv
<1>5. ASSUME NEW c \in Conns, Close(c) PROVE ReachInv'
  <2>1. /\ UNCHANGED <<registry, open, turn, reaper, moved, stray>>
        /\ \A s \in Sessions : counts[s] = 0 => counts'[s] = 0
        /\ conn' = [conn EXCEPT ![c] = [Waiting EXCEPT !.phase = "closed"]]
    BY <1>5, <1>a DEF Close, handleVars, reachVars
  <2>2. ASSUME NEW d \in Conns, Bound(d)' PROVE conn'[d] = conn[d]
    BY <2>1, <2>2, <1>c, Records DEF Bound
  <2>3. OnHandle' BY <2>1, <2>2, <1>b DEF OnHandle, Bound, Mine
  <2>4. TurnIsReachable' BY <2>1, <1>b DEF TurnIsReachable, Handles
  <2>5. Checked' BY <2>1, CheckedStays DEF OpenRun, Handles, Live
  <2>. QED BY <2>3, <2>4, <2>5, <1>s DEF ReachInv
<1>6. ASSUME NEW h \in Handles, TurnEnd(h) PROVE ReachInv'
  <2>1. /\ UNCHANGED <<counts, registry, conn, reaper, moved, stray>>
        /\ turn' = [turn EXCEPT ![h] = FALSE] /\ open' = [open EXCEPT ![h] = @ - 1]
    BY <1>6 DEF TurnEnd, connVars, reachVars
  <2>2. \A k \in Handles : turn'[k] => turn[k] BY <2>1, <1>o
  <2>3. OnHandle' BY <2>1, <1>b DEF OnHandle, Bound, Mine
  <2>4. TurnIsReachable' BY <2>1, <2>2, <1>b DEF TurnIsReachable, Handles
  <2>5. \A k \in Handles : open'[k] > 0 => open[k] > 0 BY <2>1, <1>o
  <2>6. Checked' BY <2>1, <2>5, CheckedStays DEF OpenRun, Handles, Live
  <2>. QED BY <2>3, <2>4, <2>6, <1>s DEF ReachInv
\* The reaper's own steps but the last leave the handles alone.
<1>7. ASSUME UNCHANGED <<conn, registry, turn, stray>>, Checked' PROVE ReachInv'
  <2>1. OnHandle' BY <1>7, <1>b DEF OnHandle, Bound, Mine
  <2>2. TurnIsReachable' BY <1>7, <1>b DEF TurnIsReachable, Handles
  <2>. QED BY <2>1, <2>2, <1>7, <1>s DEF ReachInv
<1>8. CASE TickBegin \/ TickNext \/ TickEnd \/ StopDaemon \/ ReaperExit \/ UNCHANGED reapVars
  <2>1. UNCHANGED <<counts, conn, registry, open, turn, moved, stray>>
    BY <1>8 DEF TickBegin, TickNext, TickEnd, StopDaemon, ReaperExit, reapVars, connVars, handleVars,
       reachVars
  <2>2. reaper' = reaper \/ reaper'.phase \notin Seen
    BY <1>8 DEF TickBegin, TickNext, TickEnd, StopDaemon, ReaperExit, reapVars, Asleep, Seen
  <2>3. reaper' = reaper => Checked' BY <2>1, <1>b DEF Checked, OpenRun, Handles, Live, Seen
  <2>4. reaper'.phase \notin Seen => Checked' BY DEF Checked, Seen
  <2>. QED BY <2>1, <2>2, <2>3, <2>4, <1>7
<1>9. CASE CheckAttach \/ CheckLedger \/ CheckSlot \/ CheckTree
  <2>1. /\ UNCHANGED <<counts, conn, registry, open, turn, stray>>
        /\ reaper.phase \in Checks
    BY <1>9 DEF CheckAttach, CheckLedger, CheckSlot, CheckTree, Check, connVars, handleVars, Checks, Seen
  <2>2. reaper.session \in Sessions BY <2>1, <1>i, Looks
  <2>3. ASSUME ToNext PROVE Checked'
    <3>1. reaper'.phase = "next" BY <2>1, <2>3, <1>i, Looks DEF ToNext
    <3>. QED BY <3>1 DEF Checked, Seen
  <2>4. ASSUME reaper.phase = "attach", ~(counts[reaper.session] > 0),
               reaper' = [reaper EXCEPT !.phase = "ledger"]
        PROVE  Checked'
    <3>1. reaper'.phase = "ledger" /\ reaper'.session = reaper.session
      BY <2>1, <2>4, <1>i, Looks DEF Checks, Seen
    <3>2. counts[reaper.session] = 0 BY <2>4, <2>2, <1>a
    <3>. QED BY <3>1, <3>2, <2>1 DEF Checked
  <2>5. ASSUME reaper.phase = "ledger", ~OpenRun(reaper.session), moved' = moved,
               reaper' = [reaper EXCEPT !.phase = "slot"]
        PROVE  Checked'
    <3>1. reaper'.phase = "slot" /\ reaper'.session = reaper.session
      BY <2>1, <2>5, <1>i, Looks DEF Checks, Seen
    <3>. QED BY <3>1, <2>5, <2>1, <1>b DEF Checked, OpenRun, Handles, Seen
  <2>6. ASSUME reaper.phase = "slot", reaper' = [reaper EXCEPT !.phase = "tree"], moved' = moved
        PROVE  Checked'
    <3>1. reaper'.phase = "tree" /\ reaper'.session = reaper.session
      BY <2>1, <2>6, <1>i, Looks DEF Checks, Seen
    <3>. QED BY <3>1, <2>6, <2>1, <1>b DEF Checked, OpenRun, Handles, Seen
  <2>7. ASSUME reaper.phase = "tree", reaper' = [reaper EXCEPT !.phase = "unload"], moved' = moved,
               ~HasLiveDescendant(reaper.session)
        PROVE  Checked'
    <3>1. reaper'.phase = "unload" /\ reaper'.session = reaper.session
      BY <2>1, <2>7, <1>i, Looks DEF Checks, Seen
    <3>2. \A d \in Live \ {reaper.session} : ~IsAncestor(reaper.session, d)
      BY <2>7 DEF HasLiveDescendant
    <3>. QED BY <3>1, <3>2, <2>7, <2>1, <1>b DEF Checked, OpenRun, Handles, Seen, Live
  <2>8. Checked'
    BY <1>9, <2>3, <2>4, <2>5, <2>6, <2>7 DEF CheckAttach, CheckLedger, CheckSlot, CheckTree, Check
  <2>. QED BY <2>1, <2>8, <1>7
<1>10. CASE Unload
  <2> DEFINE s == reaper.session
  <2>1. /\ s \in Sessions /\ reaper.phase = "unload"
        /\ s \notin moved => /\ counts[s] = 0
                             /\ \A h \in Handles : h[1] = s => ~turn[h]
    <3>1. s \in Sessions BY <1>10, <1>i, Looks DEF Unload, Checks, Seen
    <3>. QED BY <3>1, <1>10, Unloading DEF Unload
  <2>2. /\ UNCHANGED <<conn, turn>> /\ ToNext
        /\ \/ registry' = registry /\ stray' = stray
           \/ /\ registry' = [registry EXCEPT ![s] = 0] /\ stray \subseteq stray'
              /\ s \in moved => HandleOf(s) \in stray'
    BY <1>10 DEF Unload, connVars
  <2>3. Checked'
    <3>1. reaper.phase \in Checks BY <2>1 DEF Checks, Seen
    <3>2. reaper'.phase = "next" BY <3>1, <2>2, <1>i, Looks DEF ToNext
    <3>. QED BY <3>2 DEF Checked, Seen
  <2>4. s \notin moved => \A c \in Conns : Routed(c) => conn[c].session # s
    BY <2>1, NobodyThere DEF ReachInv
  <2>. HIDE DEF s
  <2>5. OnHandle'
    <3>1. ASSUME NEW d \in Conns, Bound(d)
          PROVE  registry'[conn[d].session] = conn[d].handle \/ Mine(d) \in stray'
      <4>1. conn[d].session \in Sessions /\ (conn[d].session = s => s \in moved)
        BY <3>1, <2>4, <1>c, Shapes DEF Bound, Routed
      <4>2. CASE Mine(d) \in stray BY <4>2, <2>2
      <4>3. CASE registry[conn[d].session] = conn[d].handle
        <5>1. conn[d].session = s => Mine(d) = HandleOf(s) BY <4>3 DEF Mine, HandleOf
        <5>. QED BY <4>1, <4>3, <5>1, <2>2, <1>r
      <4>. QED BY <3>1, <4>2, <4>3, <1>b DEF OnHandle
    <3>. QED BY <3>1, <2>2 DEF OnHandle, Bound, Mine
  <2>6. TurnIsReachable'
    <3>1. ASSUME NEW h \in Handles, turn[h] PROVE registry'[h[1]] = h[2] \/ h \in stray'
      <4>1. h[1] \in Sessions /\ (h[1] = s => s \in moved) BY <3>1, <2>1 DEF Handles
      <4>2. CASE h \in stray BY <4>2, <2>2
      <4>3. CASE registry[h[1]] = h[2]
        <5>1. h[1] = s => h = HandleOf(s) BY <4>3 DEF HandleOf, Handles
        <5>. QED BY <4>1, <4>3, <5>1, <2>2, <1>r
      <4>. QED BY <3>1, <4>2, <4>3, <1>b DEF TurnIsReachable
    <3>. QED BY <3>1, <2>2 DEF TurnIsReachable, Handles
  <2>. QED BY <2>3, <2>5, <2>6, <1>s DEF ReachInv
<1>. QED
  BY <1>1, <1>2, <1>3, <1>4, <1>5, <1>6, <1>8, <1>9, <1>10 DEF ReapNext, ConnStep, TickStep

\* It holds at first.
LEMMA ReachInit == ReapInit => ReachInv
<1> SUFFICES ASSUME ReapInit PROVE ReachInv OBVIOUS
<1>1. OnHandle BY Records DEF ReapInit, Fresh, OnHandle, Bound
<1>2. Checked BY DEF ReapInit, Asleep, Checked, Seen
<1>3. TurnIsReachable BY DEF ReapInit, Fresh, TurnIsReachable
<1>4. ASSUME NEW s \in Sessions PROVE Counted(s)
  <2>1. {c \in Conns : s \in attached[c]} = {} /\ counts[s] = 0 BY DEF ReapInit, Fresh
  <2>. QED BY <2>1, FS_EmptySet DEF Counted, Attachments
<1>. QED BY <1>1, <1>2, <1>3, <1>4 DEF ReachInv

\* Types: whatever the connections and the reaper do, counts, handles and the
\* reaper's place stay well formed.
THEOREM ReaperTyped == ReapSpec => []ReapTypeOK
<1>1. HandlesInv => ReapTypeOK BY DEF HandlesInv
<1>. QED BY <1>1, HandlesInit, HandleSteps, PTL DEF ReapSpec

\* So both always hold.
LEMMA ReachInductive == ReapSpec => [](HandlesInv /\ ReachInv)
<1>1. HandlesInv /\ ReachInv /\ [ReapNext]_reapVars => ReachInv' BY ReachSteps
<1>. QED BY <1>1, HandlesInit, ReachInit, HandleSteps, PTL DEF ReapSpec

\* A turn in progress belongs to the handle requests reach, whatever steps in
\* while the reaper looks; but for a handle unloaded though a request came after
\* the attachments were read (registry.rs 3-7).
THEOREM TurnsReachable == ReapSpec => []TurnIsReachable
<1>1. ReachInv => TurnIsReachable BY DEF ReachInv
<1>. QED BY <1>1, ReachInductive, PTL

\* The reaper unloads only a session without attachment, run in flight and live
\* descendant, as far as nothing reached them since the attachments were read
\* (reaper.rs 3-13).
THEOREM UnloadsIdle == ReapSpec => UnloadOnlyIdle
<1>1. ASSUME HandlesInv, ReachInv, [ReapNext]_reapVars, NEW s \in Sessions, Unloads(s)
      PROVE  /\ s \in moved \/ (counts[s] = 0 /\ ~OpenRun(s))
             /\ \A d \in Live \ {s} : IsAncestor(s, d) => d \in moved
  <2>r. registry \in [Sessions -> 0..MaxHandles] BY <1>1 DEF HandlesInv, ReapTypeOK
  <2>1. Unload
    <3>1. ASSUME NEW c \in Conns, Resolve(c) PROVE FALSE
      <4>1. registry'[conn[c].session] # 0 /\ conn[c].session \in Sessions
        <5>1. HandlesInv' BY <1>1, HandleSteps
        <5>2. conn[c] \in ConnStates /\ conn'[c] \in ConnStates
          BY <1>1, <5>1 DEF HandlesInv, ReapTypeOK
        <5>3. conn'[c] = [phase |-> "resolved", session |-> conn[c].session,
                          handle |-> registry'[conn[c].session]]
          BY <1>1, <3>1 DEF Resolve, HandlesInv, ReapTypeOK
        <5>4. conn'[c].handle \in 1..MaxHandles
          <6>1. conn'[c].phase = "resolved" BY <5>3
          <6>. QED BY <5>2, <6>1, Shapes
        <5>5. registry'[conn[c].session] \in 1..MaxHandles BY <5>3, <5>4
        <5>6. conn[c].phase = "routed" BY <3>1 DEF Resolve
        <5>7. conn[c].session \in Sessions BY <5>2, <5>6, Shapes
        <5>. QED BY <5>5, <5>7, ReaperAssumption
      <4>2. \A x \in Sessions : x # conn[c].session => registry'[x] = registry[x]
        BY <3>1, <4>1, <2>r DEF Resolve
      <4>. QED BY <4>1, <4>2, <1>1 DEF Unloads
    <3>2. registry' # registry BY <1>1 DEF Unloads
    <3>. QED
      BY <3>1, <3>2, <1>1
      DEF ReapNext, ConnStep, Dispatch, Queue, Close, Request, Watch, TurnEnd, TickBegin, TickStep,
        TickNext, TickEnd, CheckAttach, CheckLedger, CheckSlot, CheckTree, Check, StopDaemon, ReaperExit,
        reapVars, handleVars
  <2>2. s = reaper.session /\ reaper.phase = "unload"
    BY <2>1, <1>1, <2>r DEF Unload, Unloads
  <2>3. s \notin moved => counts[s] = 0 /\ ~OpenRun(s)
    BY <1>1, <2>2, Unloading
  <2>. QED BY <1>1, <2>2, <2>3 DEF ReachInv, Checked
<1>2. HandlesInv /\ ReachInv /\ [ReapNext]_reapVars =>
        [\A s \in Sessions : Unloads(s) =>
           /\ s \in moved \/ (counts[s] = 0 /\ ~OpenRun(s))
           /\ \A d \in Live \ {s} : IsAncestor(s, d) => d \in moved]_reapVars
  BY <1>1
<1>. QED BY <1>2, ReachInductive, PTL DEF ReapSpec, UnloadOnlyIdle

-----------------------------------------------------------------------------
\* The turn of an engine.

\* What the code's constants are: numbers, and a window of at least two messages
\* (KEEP_RECENT_MIN).
LoopSizes ==
  /\ MaxTurns \in Nat /\ MaxSameError \in Nat /\ MaxFires \in Nat
  /\ MaxPrompts \in Nat /\ MaxNotes \in Nat /\ MaxAborts \in Nat /\ MaxPanics \in Nat
  /\ KeepMin \in Nat /\ KeepMin >= 2
  /\ Replies \subseteq Seq(Tools)
  /\ FreshIds \in BOOLEAN /\ Forks \in BOOLEAN

Messages == [kind : Kinds, ids : SUBSET Nat]

CallIds == {calls[i].id : i \in 1..Len(calls)}

\* Results answer something.
Telling(msgs) == \A i \in 1..Len(msgs) : msgs[i].kind = "results" => msgs[i].ids # {}

\* No id is given to two calls, and none above the last one was given yet.
Distinct(msgs, last) ==
  /\ \A i \in 1..Len(msgs) : msgs[i].kind = "call" => \A id \in msgs[i].ids : id <= last
  /\ \A i, j \in 1..Len(msgs) :
       i < j /\ msgs[i].kind = "call" /\ msgs[j].kind = "call" => msgs[i].ids \cap msgs[j].ids = {}

\* Results at the end of a conversation follow their calls.
EndsAnswered(msgs) ==
  /\ msgs # <<>>
  /\ msgs[Len(msgs)].kind = "results" =>
       Len(msgs) > 1 /\ msgs[Len(msgs) - 1] = CallsMsg(msgs[Len(msgs)].ids)

\* The calls that are being executed are the conversation's newest message, and
\* nothing before it waits for a result.
Executing ==
  /\ CallIds # {}
  /\ \E front \in Seq(Messages) :
       /\ context = front \o <<CallsMsg(CallIds)>>
       /\ counters.panics = 0 => Paired(front)

LoopInv ==
  /\ LoopTypeOK
  /\ Telling(context)
  /\ FreshIds => Distinct(context, counters.ids)
  /\ pc = "top" => EndsAnswered(context)
  /\ pc = "tool" => Executing
  /\ pc # "tool" /\ counters.panics = 0 => Paired(context)

-----------------------------------------------------------------------------
\* The cut, and what is kept.

\* The least-number principle.
LEMMA Least ==
  ASSUME NEW T \in SUBSET Nat, T # {}
  PROVE  \E n \in T : \A m \in T : n <= m
<1> DEFINE R == OpToRel(<, Nat)
<1>1. IsWellFoundedOn(R, Nat) BY NatLessThanWellFounded
<1>2. PICK n \in T : \A m \in T : ~(<<m, n>> \in R) BY <1>1, WFMin
<1>3. \A m \in T : ~(m < n) BY <1>2 DEF OpToRel
<1>. QED BY <1>3

\* Where the window begins: there is such a place, and the messages it always
\* takes are behind it.
LEMMA WindowCutIs ==
  ASSUME NEW msgs \in Seq(Messages), KeepMin \in Nat
  PROVE  /\ WindowCut(msgs) \in 1..Len(msgs) + 1
         /\ WindowCut(msgs) = 1 \/ WindowCut(msgs) <= Len(msgs) + 1 - KeepMin
<1> DEFINE fits(j) == Len(msgs) - j < KeepMin \/ CharsFrom(msgs, j) <= KeepChars
           good(i) == /\ \A j \in i..Len(msgs) : fits(j)
                      /\ i = 1 \/ ~fits(i - 1)
           T == {i \in 1..Len(msgs) + 1 : \A j \in i..Len(msgs) : fits(j)}
<1>0. WindowCut(msgs) = CHOOSE i \in 1..Len(msgs) + 1 : good(i) BY DEF WindowCut
<1>1. \E i \in 1..Len(msgs) + 1 : good(i)
  <2> HIDE DEF fits
  <2>1. Len(msgs) \in Nat OBVIOUS
  <2>2. Len(msgs) + 1 \in T BY <2>1
  <2>3. T \in SUBSET Nat BY <2>1
  <2>4. PICK n \in T : \A m \in T : n <= m BY <2>2, <2>3, Least
  <2>5. n \in 1..Len(msgs) + 1 /\ \A j \in n..Len(msgs) : fits(j) BY <2>4
  <2>6. n # 1 => ~fits(n - 1)
    <3> SUFFICES ASSUME n # 1, fits(n - 1) PROVE FALSE OBVIOUS
    <3>1. n - 1 \in 1..Len(msgs) + 1 BY <2>1, <2>5
    <3>2. \A j \in n - 1..Len(msgs) : fits(j)
      <4> TAKE j \in n - 1..Len(msgs)
      <4>1. j = n - 1 \/ j \in n..Len(msgs) BY <2>1, <2>5
      <4>. QED BY <4>1, <2>5
    <3>3. n - 1 \in T BY <3>1, <3>2
    <3>. QED BY <3>3, <2>4, <2>5, <2>1
  <2>. QED BY <2>5, <2>6
<1>2. WindowCut(msgs) \in 1..Len(msgs) + 1 /\ good(WindowCut(msgs))
  <2> HIDE DEF good
  <2>. QED BY <1>0, <1>1
<1>3. WindowCut(msgs) # 1 => ~(Len(msgs) - (WindowCut(msgs) - 1) < KeepMin) BY <1>2
<1>. QED BY <1>2, <1>3

\* Where the prefix ends that is summarized: there is such a place, the window
\* behind it is balanced, and no place before it is.
LEMMA CutIs ==
  ASSUME NEW msgs \in Seq(Messages), KeepMin \in Nat
  PROVE  /\ Cut(msgs) \in WindowCut(msgs)..Len(msgs) + 1
         /\ Cut(msgs) \in 1..Len(msgs) + 1
         /\ BalancedAt(msgs, Cut(msgs))
         /\ \A j \in WindowCut(msgs)..Cut(msgs) - 1 : ~BalancedAt(msgs, j)
<1> DEFINE w == WindowCut(msgs)
           good(i) == /\ BalancedAt(msgs, i)
                      /\ \A j \in w..i - 1 : ~BalancedAt(msgs, j)
           T == {i \in w..Len(msgs) + 1 : BalancedAt(msgs, i)}
<1>0. Cut(msgs) = CHOOSE i \in w..Len(msgs) + 1 : good(i) BY DEF Cut
<1>1. Len(msgs) \in Nat /\ w \in 1..Len(msgs) + 1 BY WindowCutIs
<1> HIDE DEF w
<1>2. \E i \in w..Len(msgs) + 1 : good(i)
  <2>1. BalancedAt(msgs, Len(msgs) + 1) BY <1>1 DEF BalancedAt
  <2>2. Len(msgs) + 1 \in T BY <1>1, <2>1
  <2>3. T \in SUBSET Nat BY <1>1
  <2>4. PICK n \in T : \A m \in T : n <= m BY <2>2, <2>3, Least
  <2>5. \A j \in w..n - 1 : ~BalancedAt(msgs, j)
    <3> SUFFICES ASSUME NEW j \in w..n - 1, BalancedAt(msgs, j) PROVE FALSE OBVIOUS
    <3>1. j \in T BY <1>1, <2>4
    <3>. QED BY <3>1, <2>4, <1>1
  <2>. QED BY <2>4, <2>5
<1>3. Cut(msgs) \in w..Len(msgs) + 1 /\ good(Cut(msgs))
  <2> HIDE DEF good
  <2>. QED BY <1>0, <1>2
<1>. QED BY <1>1, <1>3 DEF w

\* What a compacted conversation holds.
LEMMA CompactedIs ==
  ASSUME NEW msgs \in Seq(Messages), KeepMin \in Nat
  PROVE  /\ Compacted(msgs) \in Seq(Messages)
         /\ Len(Compacted(msgs)) = Len(msgs) + 2 - Cut(msgs)
         /\ Compacted(msgs)[1] = Summary
         /\ \A i \in 2..Len(Compacted(msgs)) :
              /\ i + Cut(msgs) - 2 \in Cut(msgs)..Len(msgs)
              /\ Compacted(msgs)[i] = msgs[i + Cut(msgs) - 2]
<1> DEFINE c == Cut(msgs)
           tail == SubSeq(msgs, c, Len(msgs))
<1>1. c \in 1..Len(msgs) + 1 /\ Len(msgs) \in Nat BY CutIs
<1>2. Compacted(msgs) = <<Summary>> \o tail BY DEF Compacted
<1> HIDE DEF c
<1>3. /\ tail \in Seq(Messages) /\ Len(tail) = Len(msgs) + 1 - c
      /\ \A i \in 1..Len(msgs) + 1 - c : tail[i] = msgs[i + c - 1]
  BY <1>1
<1> HIDE DEF tail
<1>4. Summary \in Messages BY DEF Summary, Messages, Kinds
<1>5. /\ <<Summary>> \o tail \in Seq(Messages)
      /\ Len(<<Summary>> \o tail) = 1 + Len(tail)
      /\ (<<Summary>> \o tail)[1] = Summary
      /\ \A i \in 2..1 + Len(tail) : (<<Summary>> \o tail)[i] = tail[i - 1]
  BY <1>3, <1>4
<1>6. ASSUME NEW i \in 2..1 + Len(tail)
      PROVE  /\ i + c - 2 \in c..Len(msgs)
             /\ tail[i - 1] = msgs[i + c - 2]
  <2>1. i - 1 \in 1..Len(msgs) + 1 - c BY <1>1, <1>3
  <2>2. (i - 1) + c - 1 = i + c - 2 BY <1>1
  <2>. QED BY <1>1, <1>3, <2>1, <2>2
<1>. QED BY <1>1, <1>2, <1>3, <1>5, <1>6 DEF c

-----------------------------------------------------------------------------
\* Conversations that grow.

\* What a conversation is after messages were put at its end.
LEMMA Appended ==
  ASSUME NEW a \in Seq(Messages), NEW b \in Seq(Messages)
  PROVE  /\ a \o b \in Seq(Messages)
         /\ Len(a \o b) = Len(a) + Len(b)
         /\ \A i \in 1..Len(a) : (a \o b)[i] = a[i]
         /\ \A i \in 1..Len(b) : (a \o b)[Len(a) + i] = b[i]
         /\ \A i \in 1..Len(a \o b) : i \in 1..Len(a) \/ i - Len(a) \in 1..Len(b)
         /\ \A i \in 1..Len(a \o b) : i \notin 1..Len(a) => (a \o b)[i] = b[i - Len(a)]
OBVIOUS

\* Paired messages after a paired conversation leave it paired.
LEMMA PairedAppended ==
  ASSUME NEW a \in Seq(Messages), NEW b \in Seq(Messages), Paired(a), Paired(b)
  PROVE  Paired(a \o b)
<1> DEFINE c == a \o b
<1>0. Len(a) \in Nat /\ Len(b) \in Nat OBVIOUS
<1>a. /\ Len(c) = Len(a) + Len(b)
      /\ \A i \in 1..Len(a) : c[i] = a[i]
      /\ \A i \in 1..Len(b) : c[Len(a) + i] = b[i]
      /\ \A i \in 1..Len(c) : i \in 1..Len(a) \/ i - Len(a) \in 1..Len(b)
      /\ \A i \in 1..Len(c) : i \notin 1..Len(a) => c[i] = b[i - Len(a)]
  BY Appended
<1> HIDE DEF c
<1>1. ASSUME NEW i \in 1..Len(c), c[i].kind = "call"
      PROVE  i < Len(c) /\ c[i + 1] = ResultsMsg(c[i].ids)
  <2>1. CASE i \in 1..Len(a)
    <3>1. i < Len(a) /\ a[i + 1] = ResultsMsg(a[i].ids) BY <1>1, <1>a, <2>1 DEF Paired
    <3>2. i + 1 \in 1..Len(a) BY <3>1, <1>0, <2>1
    <3>. QED BY <3>1, <3>2, <1>a, <1>0, <2>1
  <2>2. CASE i \notin 1..Len(a)
    <3>0. i - Len(a) \in 1..Len(b) /\ c[i] = b[i - Len(a)] BY <1>1, <1>a, <2>2
    <3>1. i - Len(a) < Len(b) /\ b[i - Len(a) + 1] = ResultsMsg(b[i - Len(a)].ids)
      BY <3>0, <1>1 DEF Paired
    <3>2. i - Len(a) + 1 \in 1..Len(b) BY <3>0, <3>1, <1>0
    <3>3. c[Len(a) + (i - Len(a) + 1)] = b[i - Len(a) + 1] BY <3>2, <1>a
    <3>4. Len(a) + (i - Len(a) + 1) = i + 1 BY <1>0
    <3>5. c[i + 1] = ResultsMsg(c[i].ids) BY <3>0, <3>1, <3>3, <3>4
    <3>. QED BY <3>1, <3>5, <1>a, <1>0
  <2>. QED BY <2>1, <2>2
<1>2. ASSUME NEW i \in 1..Len(c), c[i].kind = "results"
      PROVE  i > 1 /\ c[i - 1] = CallsMsg(c[i].ids)
  <2>1. CASE i \in 1..Len(a)
    <3>1. i > 1 /\ a[i - 1] = CallsMsg(a[i].ids) BY <1>2, <1>a, <2>1 DEF Paired
    <3>2. i - 1 \in 1..Len(a) BY <3>1, <1>0, <2>1
    <3>. QED BY <3>1, <3>2, <1>a, <1>0, <2>1
  <2>2. CASE i \notin 1..Len(a)
    <3>0. i - Len(a) \in 1..Len(b) /\ c[i] = b[i - Len(a)] BY <1>2, <1>a, <2>2
    <3>1. i - Len(a) > 1 /\ b[i - Len(a) - 1] = CallsMsg(b[i - Len(a)].ids)
      BY <3>0, <1>2 DEF Paired
    <3>2. i - Len(a) - 1 \in 1..Len(b) BY <3>0, <3>1, <1>0
    <3>3. c[Len(a) + (i - Len(a) - 1)] = b[i - Len(a) - 1] BY <3>2, <1>a
    <3>4. Len(a) + (i - Len(a) - 1) = i - 1 BY <1>0
    <3>5. c[i - 1] = CallsMsg(c[i].ids) BY <3>0, <3>1, <3>3, <3>4
    <3>. QED BY <3>1, <3>5, <1>0
  <2>. QED BY <2>1, <2>2
<1>. QED BY <1>1, <1>2 DEF Paired, c

\* Results that answer something stay so.
LEMMA TellingAppended ==
  ASSUME NEW a \in Seq(Messages), NEW b \in Seq(Messages), Telling(a), Telling(b)
  PROVE  Telling(a \o b)
<1> SUFFICES ASSUME NEW i \in 1..Len(a \o b), (a \o b)[i].kind = "results"
             PROVE  (a \o b)[i].ids # {}
  BY DEF Telling
<1>1. CASE i \in 1..Len(a)
  <2>1. (a \o b)[i] = a[i] BY <1>1, Appended
  <2>. QED BY <1>1, <2>1 DEF Telling
<1>2. CASE i \notin 1..Len(a)
  <2>1. i - Len(a) \in 1..Len(b) /\ (a \o b)[i] = b[i - Len(a)] BY <1>2, Appended
  <2>. QED BY <2>1 DEF Telling
<1>. QED BY <1>1, <1>2

\* Messages that make no calls leave the ids as they are; new calls must have
\* new ones.
LEMMA DistinctAppended ==
  ASSUME NEW a \in Seq(Messages), NEW b \in Seq(Messages), NEW last \in Nat, NEW now \in Nat,
         Distinct(a, last), last <= now,
         \A i \in 1..Len(b) : b[i].kind = "call" =>
           i = 1 /\ \A id \in b[i].ids : last < id /\ id <= now
  PROVE  Distinct(a \o b, now)
<1> DEFINE c == a \o b
<1>0. Len(a) \in Nat /\ Len(b) \in Nat OBVIOUS
<1>a. /\ Len(c) = Len(a) + Len(b)
      /\ c \in Seq(Messages)
      /\ \A i \in 1..Len(a) : c[i] = a[i]
      /\ \A i \in 1..Len(b) : c[Len(a) + i] = b[i]
      /\ \A i \in 1..Len(c) : i \in 1..Len(a) \/ i - Len(a) \in 1..Len(b)
      /\ \A i \in 1..Len(c) : i \notin 1..Len(a) => c[i] = b[i - Len(a)]
  BY Appended
<1> HIDE DEF c
<1>b. ASSUME NEW i \in 1..Len(c) PROVE c[i].ids \in SUBSET Nat
  <2>1. c[i] \in Messages BY <1>a
  <2>. QED BY <2>1 DEF Messages
<1>1. ASSUME NEW i \in 1..Len(c), c[i].kind = "call"
      PROVE  /\ i \in 1..Len(a) => \A id \in c[i].ids : id <= last
             /\ i \notin 1..Len(a) => i = Len(a) + 1 /\ \A id \in c[i].ids : last < id /\ id <= now
  <2>1. CASE i \in 1..Len(a) BY <1>1, <1>a, <2>1 DEF Distinct
  <2>2. CASE i \notin 1..Len(a)
    <3>1. i - Len(a) \in 1..Len(b) /\ c[i] = b[i - Len(a)] BY <1>1, <1>a, <2>2
    <3>2. i - Len(a) = 1 /\ \A id \in c[i].ids : last < id /\ id <= now BY <1>1, <3>1
    <3>. QED BY <1>0, <2>2, <3>2
  <2>. QED BY <2>1, <2>2
<1>2. ASSUME NEW i \in 1..Len(c), c[i].kind = "call"
      PROVE  \A id \in c[i].ids : id <= now
  BY <1>1, <1>2, <1>b
<1>3. ASSUME NEW i \in 1..Len(c), NEW j \in 1..Len(c), i < j, c[i].kind = "call", c[j].kind = "call"
      PROVE  c[i].ids \cap c[j].ids = {}
  <2>1. CASE j \in 1..Len(a)
    <3>1. i \in 1..Len(a) BY <2>1, <1>3, <1>0
    <3>. QED BY <2>1, <3>1, <1>3, <1>a DEF Distinct
  <2>2. CASE j \notin 1..Len(a)
    <3>1. j = Len(a) + 1 /\ \A id \in c[j].ids : last < id BY <1>1, <1>3, <2>2
    <3>2. i \in 1..Len(a) BY <3>1, <1>3, <1>0
    <3>3. \A id \in c[i].ids : id <= last BY <3>2, <1>1, <1>3
    <3>. QED BY <3>1, <3>3, <1>b
  <2>. QED BY <2>1, <2>2
<1>. QED BY <1>2, <1>3 DEF Distinct, c

\* A conversation that is compacted stays paired: what is kept begins with no
\* result whose call is gone.
LEMMA CompactedPaired ==
  ASSUME NEW msgs \in Seq(Messages), KeepMin \in Nat, Cut(msgs) > 1, Telling(msgs), Paired(msgs)
  PROVE  Paired(Compacted(msgs))
<1> DEFINE c == Compacted(msgs)
           k == Cut(msgs)
<1>1. k \in 2..Len(msgs) + 1 /\ Len(msgs) \in Nat /\ BalancedAt(msgs, k) BY CutIs
<1>2. /\ Len(c) = Len(msgs) + 2 - k
      /\ c[1] = Summary
      /\ \A i \in 2..Len(c) : i + k - 2 \in k..Len(msgs) /\ c[i] = msgs[i + k - 2]
  BY CompactedIs
<1> HIDE DEF c, k
<1>3. ASSUME NEW i \in 1..Len(c), c[i].kind = "call"
      PROVE  i < Len(c) /\ c[i + 1] = ResultsMsg(c[i].ids)
  <2>1. i \in 2..Len(c) BY <1>1, <1>2, <1>3 DEF Summary
  <2>a. i + k - 2 \in k..Len(msgs) /\ c[i] = msgs[i + k - 2] BY <1>2, <2>1
  <2>2. i + k - 2 \in 1..Len(msgs) /\ c[i] = msgs[i + k - 2] BY <1>1, <2>a
  <2>3. i + k - 2 < Len(msgs) /\ msgs[i + k - 2 + 1] = ResultsMsg(c[i].ids)
    BY <2>2, <1>3 DEF Paired
  <2>4. i + 1 \in 2..Len(c) BY <2>1, <2>3, <1>1, <1>2
  <2>5. c[i + 1] = msgs[(i + 1) + k - 2] BY <2>4, <1>2
  <2>6. (i + 1) + k - 2 = i + k - 2 + 1 BY <1>1, <2>1
  <2>. QED BY <2>3, <2>4, <2>5, <2>6, <1>1, <1>2
<1>4. ASSUME NEW i \in 1..Len(c), c[i].kind = "results"
      PROVE  i > 1 /\ c[i - 1] = CallsMsg(c[i].ids)
  <2>1. i \in 2..Len(c) BY <1>1, <1>2, <1>4 DEF Summary
  <2>2. i + k - 2 \in k..Len(msgs) /\ i + k - 2 \in 1..Len(msgs) /\ c[i] = msgs[i + k - 2]
    BY <1>1, <1>2, <2>1
  <2>3. PICK n \in k..Len(msgs) : n = i + k - 2 /\ n \in 1..Len(msgs) /\ c[i] = msgs[n]
    BY <2>2
  <2>4. n > 1 /\ msgs[n - 1] = CallsMsg(c[i].ids) BY <2>3, <1>4 DEF Paired
  <2>5. i # 2
    <3> SUFFICES ASSUME i = 2 PROVE FALSE OBVIOUS
    <3>1. n = k BY <2>3, <1>1
    <3>2. k - 1 \in 1..k - 1 /\ k \in k..Len(msgs) BY <1>1, <3>1
    <3>3. msgs[k].ids \cap msgs[k - 1].ids = {}
      BY <2>3, <2>4, <3>1, <3>2, <1>1, <1>4 DEF BalancedAt, CallsMsg
    <3>4. c[i].ids = {} BY <2>3, <2>4, <3>1, <3>3 DEF CallsMsg
    <3>. QED BY <2>3, <3>4, <1>4 DEF Telling
  <2>6. i - 1 \in 2..Len(c) BY <2>1, <2>5, <1>1, <1>2
  <2>7. c[i - 1] = msgs[(i - 1) + k - 2] BY <2>6, <1>2
  <2>8. (i - 1) + k - 2 = n - 1 BY <1>1, <2>1, <2>3
  <2>. QED BY <2>1, <2>4, <2>7, <2>8
<1>. QED BY <1>3, <1>4 DEF Paired, c

\* What is kept of a conversation answers what it answered.
LEMMA CompactedTelling ==
  ASSUME NEW msgs \in Seq(Messages), KeepMin \in Nat, Telling(msgs)
  PROVE  Telling(Compacted(msgs))
<1> DEFINE c == Compacted(msgs)
           k == Cut(msgs)
<1>1. k \in 1..Len(msgs) + 1 /\ Len(msgs) \in Nat BY CutIs
<1>2. /\ Len(c) = Len(msgs) + 2 - k
      /\ c[1] = Summary
      /\ \A i \in 2..Len(c) : i + k - 2 \in k..Len(msgs) /\ c[i] = msgs[i + k - 2]
  BY CompactedIs
<1> HIDE DEF c, k
<1>3. ASSUME NEW i \in 1..Len(c), c[i].kind = "results" PROVE c[i].ids # {}
  <2>1. i \in 2..Len(c) BY <1>1, <1>2, <1>3 DEF Summary
  <2>2. i + k - 2 \in k..Len(msgs) /\ c[i] = msgs[i + k - 2] BY <1>2, <2>1
  <2>3. i + k - 2 \in 1..Len(msgs) BY <1>1, <2>2
  <2>. QED BY <2>2, <2>3, <1>3 DEF Telling
<1>. QED BY <1>3 DEF Telling, c

\* What is kept of a conversation calls with distinct ids.
LEMMA CompactedDistinct ==
  ASSUME NEW msgs \in Seq(Messages), KeepMin \in Nat, NEW last, Distinct(msgs, last)
  PROVE  Distinct(Compacted(msgs), last)
<1> DEFINE c == Compacted(msgs)
           k == Cut(msgs)
<1>1. k \in 1..Len(msgs) + 1 /\ Len(msgs) \in Nat BY CutIs
<1>2. /\ Len(c) = Len(msgs) + 2 - k
      /\ c[1] = Summary
      /\ \A i \in 2..Len(c) : i + k - 2 \in k..Len(msgs) /\ c[i] = msgs[i + k - 2]
  BY CompactedIs
<1> HIDE DEF c, k
<1>3. ASSUME NEW i \in 1..Len(c), c[i].kind = "call"
      PROVE  i + k - 2 \in 1..Len(msgs) /\ c[i] = msgs[i + k - 2]
  <2>1. i \in 2..Len(c) BY <1>1, <1>2, <1>3 DEF Summary
  <2>. QED BY <1>1, <1>2, <2>1
<1>4. ASSUME NEW i \in 1..Len(c), c[i].kind = "call"
      PROVE  \A id \in c[i].ids : id <= last
  BY <1>3, <1>4 DEF Distinct
<1>5. ASSUME NEW i \in 1..Len(c), NEW j \in 1..Len(c), i < j, c[i].kind = "call", c[j].kind = "call"
      PROVE  c[i].ids \cap c[j].ids = {}
  <2>1. /\ i + k - 2 \in 1..Len(msgs) /\ c[i] = msgs[i + k - 2]
        /\ j + k - 2 \in 1..Len(msgs) /\ c[j] = msgs[j + k - 2]
    BY <1>3, <1>5
  <2>2. i + k - 2 < j + k - 2 BY <1>1, <1>5
  <2>. QED BY <2>1, <2>2, <1>5 DEF Distinct
<1>. QED BY <1>4, <1>5 DEF Distinct, c

\* Compaction keeps the newest message: the window holds at least two, so a
\* balanced place is found before the end, at the newest message or, when that
\* holds results, at the calls they answer.
LEMMA NewestIsKept ==
  ASSUME NEW msgs \in Seq(Messages), KeepMin \in Nat, KeepMin >= 2, NEW last,
         Distinct(msgs, last), EndsAnswered(msgs)
  PROVE  Cut(msgs) <= Len(msgs)
<1> DEFINE n == Len(msgs)
           w == WindowCut(msgs)
<1>1. n \in Nat \ {0} BY DEF EndsAnswered
<1>2. w \in 1..n + 1 /\ (w = 1 \/ w <= n + 1 - KeepMin) BY WindowCutIs
<1>3. /\ Cut(msgs) \in w..n + 1
      /\ \A j \in w..Cut(msgs) - 1 : ~BalancedAt(msgs, j)
  BY CutIs
<1>4. SUFFICES ASSUME Cut(msgs) = n + 1 PROVE FALSE BY <1>1, <1>2, <1>3
<1>5. CASE msgs[n].kind = "results"
  <2>1. n > 1 /\ msgs[n - 1] = CallsMsg(msgs[n].ids) BY <1>5 DEF EndsAnswered
  <2>2. w <= n - 1 BY <1>1, <1>2, <2>1
  <2>3. n - 1 \in w..Cut(msgs) - 1 BY <1>1, <1>2, <1>4, <2>1, <2>2
  <2>4. BalancedAt(msgs, n - 1)
    <3> SUFFICES ASSUME NEW m \in n - 1..n, NEW j \in 1..n - 1 - 1,
                        msgs[m].kind = "results", msgs[j].kind = "call"
                 PROVE  msgs[m].ids \cap msgs[j].ids = {}
      BY DEF BalancedAt
    <3>1. m = n BY <1>1, <2>1 DEF CallsMsg
    <3>2. msgs[n - 1].ids = msgs[n].ids /\ msgs[n - 1].kind = "call" BY <2>1 DEF CallsMsg
    <3>3. j \in 1..n /\ n - 1 \in 1..n /\ j < n - 1 BY <1>1, <2>1
    <3>4. msgs[j].ids \cap msgs[n - 1].ids = {} BY <3>2, <3>3 DEF Distinct
    <3>. QED BY <3>1, <3>2, <3>4
  <2>. QED BY <1>3, <2>3, <2>4
<1>6. CASE msgs[n].kind # "results"
  <2>1. n \in w..Cut(msgs) - 1 BY <1>1, <1>2, <1>4
  <2>2. BalancedAt(msgs, n) BY <1>1, <1>6 DEF BalancedAt
  <2>. QED BY <1>3, <2>1, <2>2
<1>. QED BY <1>5, <1>6

-----------------------------------------------------------------------------
\* The messages the loop records.

\* User input and text neither call nor answer.
LEMMA QuietMessages ==
  ASSUME NEW b \in Seq(Messages), \A i \in 1..Len(b) : b[i].kind \notin {"call", "results"}
  PROVE  /\ Telling(b) /\ Paired(b)
         /\ \A i \in 1..Len(b) : b[i].kind # "call"
BY DEF Telling, Paired

\* Input and text are messages, and quiet ones.
LEMMA Recorded ==
  /\ <<User>> \in Seq(Messages) /\ <<Text>> \in Seq(Messages)
  /\ User.kind = "user" /\ Text.kind = "text"
  /\ \A i \in 1..Len(<<User>>) : <<User>>[i].kind \notin {"call", "results"}
  /\ \A i \in 1..Len(<<Text>>) : <<Text>>[i].kind \notin {"call", "results"}
<1>1. /\ User \in Messages /\ Text \in Messages
      /\ User.kind = "user" /\ Text.kind = "text"
  BY DEF User, Text, Messages, Kinds
<1>2. \A m \in {User, Text} : \A i \in 1..Len(<<m>>) : <<m>>[i].kind \notin {"call", "results"}
  BY <1>1
<1>. QED BY <1>1, <1>2

\* What is drained from the queues is user input.
LEMMA DrainedMessages ==
  ASSUME steering \in Nat, asides \in Nat
  PROVE  /\ Drained \in Seq(Messages)
         /\ Len(Drained) = steering + asides
         /\ \A i \in 1..Len(Drained) : Drained[i] = User
<1>1. User \in Messages BY DEF User, Messages, Kinds
<1>2. steering + asides \in Nat OBVIOUS
<1>. QED BY <1>1, <1>2 DEF Drained

\* A reply's calls and their results.
LEMMA RoundMessages ==
  ASSUME NEW ids \in SUBSET Nat
  PROVE  /\ <<CallsMsg(ids)>> \in Seq(Messages) /\ <<ResultsMsg(ids)>> \in Seq(Messages)
         /\ <<CallsMsg(ids), ResultsMsg(ids)>> \in Seq(Messages)
         /\ CallsMsg(ids) \in Messages /\ ResultsMsg(ids) \in Messages
         /\ Paired(<<CallsMsg(ids), ResultsMsg(ids)>>)
         /\ ids # {} => /\ Telling(<<CallsMsg(ids), ResultsMsg(ids)>>)
                        /\ Telling(<<ResultsMsg(ids)>>)
         /\ Telling(<<CallsMsg(ids)>>)
<1> DEFINE c == CallsMsg(ids)
           r == ResultsMsg(ids)
<1>1. /\ c \in Messages /\ r \in Messages
      /\ c.kind = "call" /\ r.kind = "results" /\ c.ids = ids /\ r.ids = ids
      /\ ResultsMsg(c.ids) = r /\ CallsMsg(r.ids) = c
  BY DEF CallsMsg, ResultsMsg, Messages, Kinds
<1> HIDE DEF c, r
<1>2. <<c>> \in Seq(Messages) /\ <<r>> \in Seq(Messages) /\ <<c, r>> \in Seq(Messages) BY <1>1
<1>3. Paired(<<c, r>>)
  <2>1. Len(<<c, r>>) = 2 /\ <<c, r>>[1] = c /\ <<c, r>>[2] = r OBVIOUS
  <2>2. \A i \in 1..2 : i = 1 \/ i = 2 OBVIOUS
  <2>. QED BY <1>1, <2>1, <2>2 DEF Paired
<1>4. Telling(<<c>>) BY <1>1 DEF Telling
<1>5. ids # {} => Telling(<<c, r>>) /\ Telling(<<r>>)
  <2>1. \A i \in 1..2 : i = 1 \/ i = 2 OBVIOUS
  <2>. QED BY <1>1, <2>1 DEF Telling
<1>. QED BY <1>1, <1>2, <1>3, <1>4, <1>5 DEF c, r

\* The calls of a reply have ids, and fresh ones when the provider gives fresh ids.
LEMMA ReplyIds ==
  ASSUME LoopTypeOK, FreshIds \in BOOLEAN, NEW reply \in Seq(Tools), reply # <<>>
  PROVE  /\ CallsOf(reply) \in Seq(Calls) /\ Len(CallsOf(reply)) = Len(reply)
         /\ {CallsOf(reply)[i].id : i \in 1..Len(CallsOf(reply))} = Ids(reply)
         /\ Ids(reply) # {} /\ Ids(reply) \in SUBSET Nat
         /\ FreshIds => \A id \in Ids(reply) :
                          counters.ids < id /\ id <= counters.ids + Len(reply)
<1>1. FirstId \in Nat /\ Len(reply) \in Nat \ {0} BY DEF FirstId, LoopTypeOK, Counts
<1>2. \A i \in 1..Len(reply) : [id |-> FirstId + i, tool |-> reply[i]] \in Calls
  BY <1>1 DEF Calls
<1>3. /\ CallsOf(reply) \in Seq(Calls) /\ Len(CallsOf(reply)) = Len(reply)
      /\ \A i \in 1..Len(reply) : CallsOf(reply)[i].id = FirstId + i
  BY <1>1, <1>2 DEF CallsOf
<1>4. Ids(reply) = {FirstId + i : i \in 1..Len(reply)}
  <2>1. ASSUME NEW id \in FirstId + 1..FirstId + Len(reply)
        PROVE  \E i \in 1..Len(reply) : id = FirstId + i
    <3>1. id - FirstId \in 1..Len(reply) /\ id = FirstId + (id - FirstId) BY <1>1
    <3>. QED BY <3>1
  <2>2. \A i \in 1..Len(reply) : FirstId + i \in FirstId + 1..FirstId + Len(reply) BY <1>1
  <2>. QED BY <2>1, <2>2 DEF Ids
<1>5. FirstId + 1 \in Ids(reply) /\ Ids(reply) \in SUBSET Nat BY <1>1 DEF Ids
<1>6. FreshIds => FirstId = counters.ids BY DEF FirstId
<1>7. counters.ids \in Nat BY DEF LoopTypeOK, Counts
<1>8. {CallsOf(reply)[i].id : i \in 1..Len(CallsOf(reply))} = Ids(reply) BY <1>3, <1>4
<1>9. FreshIds => \A id \in Ids(reply) : counters.ids < id /\ id <= counters.ids + Len(reply)
  BY <1>1, <1>6, <1>7 DEF Ids
<1>. QED BY <1>3, <1>5, <1>8, <1>9

-----------------------------------------------------------------------------
\* The steps.

\* The engine begins with an empty conversation.
LEMMA LoopStarts ==
  ASSUME LoopSizes, LoopInit
  PROVE  LoopInv
<1>1. loop \in Locals /\ counters \in Counts
  BY DEF LoopSizes, LoopInit, FreshLoop, Locals, Counts
<1>2. context \in Seq(Messages) /\ calls \in Seq(Calls) /\ done <= Len(calls) BY DEF LoopInit
<1>3. LoopTypeOK BY <1>1, <1>2 DEF LoopInit, LoopTypeOK, Locations, Stops, Messages
<1>. QED BY <1>3 DEF LoopInit, LoopInv, Telling, Distinct, Paired

\* A step of the run thread keeps the types, as long as the conversation does.
LEMMA LoopTypes ==
  ASSUME LoopSizes, LoopTypeOK, [LoopNext]_loopVars, context' \in Seq(Messages)
  PROVE  LoopTypeOK'
<1>0. context' \in Seq([kind : Kinds, ids : SUBSET Nat]) BY DEF Messages
<1>c. /\ counters \in Counts
      /\ counters.prompts \in 0..MaxPrompts /\ counters.notes \in 0..MaxNotes
      /\ counters.aborts \in 0..MaxAborts /\ counters.panics \in 0..MaxPanics
      /\ counters.ids \in Nat
  BY DEF LoopTypeOK, Counts
<1>l. /\ loop \in Locals /\ loop.rounds \in 0..MaxTurns /\ loop.streak \in Nat
      /\ loop.fires \in 0..MaxFires
  BY DEF LoopTypeOK, Locals
<1>1. CASE UNCHANGED loopVars
  BY <1>1 DEF LoopTypeOK, loopVars, queueVars, flagVars, roundVars
<1>2. CASE Prompt
  <2>0. counters.prompts + 1 \in 0..MaxPrompts
    <3>1. counters.prompts < MaxPrompts BY <1>2 DEF Prompt
    <3>2. MaxPrompts \in Nat BY DEF LoopSizes
    <3>. QED BY <1>c, <3>1, <3>2
  <2>1. counters' \in Counts BY <1>c, <1>2, <2>0 DEF Prompt, Counts
  <2>. QED BY <1>0, <1>2, <2>1 DEF LoopTypeOK, Prompt, flagVars, roundVars
<1>3. CASE Steer \/ Notify
  <2>0. counters.notes + 1 \in 0..MaxNotes
    <3>1. counters.notes < MaxNotes BY <1>3 DEF Steer, Notify, Noted
    <3>2. MaxNotes \in Nat BY DEF LoopSizes
    <3>. QED BY <1>c, <3>1, <3>2
  <2>1. counters' \in Counts BY <1>c, <1>3, <2>0 DEF Steer, Notify, Noted, Counts
  <2>. QED BY <1>0, <1>3, <2>1 DEF LoopTypeOK, Steer, Notify, Noted, flagVars, roundVars
<1>4. CASE RaiseAbort
  <2>0. counters.aborts + 1 \in 0..MaxAborts
    <3>1. counters.aborts < MaxAborts BY <1>4 DEF RaiseAbort
    <3>2. MaxAborts \in Nat BY DEF LoopSizes
    <3>. QED BY <1>c, <3>1, <3>2
  <2>1. counters' \in Counts BY <1>c, <1>4, <2>0 DEF RaiseAbort, Counts
  <2>. QED BY <1>0, <1>4, <2>1 DEF LoopTypeOK, RaiseAbort, queueVars, roundVars
<1>5. CASE ChildEnds
  BY <1>0, <1>5 DEF LoopTypeOK, ChildEnds, roundVars, LoopSizes
<1>6. CASE Begin
  <2>1. loop' \in Locals BY <1>6 DEF Begin, FreshLoop, LoopSizes, Locals
  <2>2. prompts' \in Nat BY <1>6 DEF LoopTypeOK, Begin
  <2>. QED BY <1>0, <1>6, <2>1, <2>2 DEF LoopTypeOK, Begin, Goto, roundVars, Locations
<1>7. CASE LastRound
  BY <1>0, <1>7 DEF LoopTypeOK, LastRound, EndTurn, Locations, Stops, queueVars, flagVars, roundVars
<1>8. CASE Round
  <2>0. loop.rounds + 1 \in 0..MaxTurns
    <3>1. loop.rounds < MaxTurns BY <1>8 DEF Round
    <3>2. MaxTurns \in Nat BY DEF LoopSizes
    <3>. QED BY <1>l, <3>1, <3>2
  <2>1. loop' \in Locals BY <1>l, <1>8, <2>0 DEF Round, Locals
  <2>. QED BY <1>0, <1>8, <2>1 DEF LoopTypeOK, Round, Goto, Locations, flagVars, roundVars
<1>9. CASE Aborted
  <2>1. loop' \in Locals BY <1>9 DEF LoopTypeOK, Aborted, Locals
  <2>. QED BY <1>0, <1>9, <2>1 DEF LoopTypeOK, Aborted, EndTurn, Locations, Stops, queueVars,
                                   flagVars, roundVars
<1>10. CASE AuthFailure
  BY <1>0, <1>10 DEF LoopTypeOK, AuthFailure, EndTurn, Locations, Stops, queueVars, flagVars,
                     roundVars
<1>11. ASSUME NEW e \in Errors, StreamError(e) PROVE LoopTypeOK'
  <2>0. \E n \in Nat : loop' = [loop EXCEPT !.lastError = e, !.streak = n]
    <3> DEFINE streak == IF loop.lastError = e THEN loop.streak ELSE 0
               n == IF streak < MaxSameError THEN streak + 1 ELSE streak
    <3>1. loop' = [loop EXCEPT !.lastError = e, !.streak = n] BY <1>11 DEF StreamError
    <3>2. n \in Nat BY <1>l
    <3>. QED BY <3>1, <3>2
  <2>1. PICK n \in Nat : loop' = [loop EXCEPT !.lastError = e, !.streak = n] BY <2>0
  <2>a. loop' \in Locals BY <1>l, <2>1 DEF Locals
  <2>. QED BY <1>0, <1>11, <2>a DEF LoopTypeOK, StreamError, Goto, EndTurn, Locations, Stops,
                                    queueVars, flagVars, roundVars
<1>12. ASSUME NEW reason \in {"end_turn", "max_tokens"}, FinalReply(reason) PROVE LoopTypeOK'
  <2>0. \E n \in 0..MaxFires :
          loop' = [loop EXCEPT !.streak = 0, !.lastError = NoError, !.fires = n]
    <3> DEFINE fires == ~loop.marked /\ loop.fires < MaxFires
               n == IF fires THEN loop.fires + 1 ELSE loop.fires
    <3>1. loop' = [loop EXCEPT !.streak = 0, !.lastError = NoError, !.fires = n]
      BY <1>12 DEF FinalReply
    <3>2. n \in 0..MaxFires BY <1>l DEF LoopSizes
    <3>. QED BY <3>1, <3>2
  <2>1. PICK n \in 0..MaxFires :
          loop' = [loop EXCEPT !.streak = 0, !.lastError = NoError, !.fires = n]
    BY <2>0
  <2>a. loop' \in Locals BY <1>l, <2>1 DEF Locals
  <2>. QED BY <1>0, <1>12, <2>a DEF LoopTypeOK, FinalReply, Goto, EndTurn, Locations, Stops,
                                    queueVars, flagVars, roundVars
<1>13. ASSUME NEW reply \in Replies, Replied(reply)
       PROVE  loop' \in Locals /\ counters' \in Counts
  <2>1. reply \in Seq(Tools) /\ Len(reply) \in Nat BY DEF LoopSizes
  <2>2. counters.ids + Len(reply) \in Nat BY <2>1 DEF LoopTypeOK, Counts
  <2>3. counters' \in Counts BY <1>13, <2>2 DEF LoopTypeOK, Replied, Counts
  <2>4. loop' \in Locals
    <3> DEFINE m == loop.marked \/ \E i \in 1..Len(reply) : reply[i] = "mark_done"
    <3>1. loop' = [loop EXCEPT !.streak = 0, !.lastError = NoError, !.marked = m]
      BY <1>13 DEF Replied
    <3>2. m \in BOOLEAN BY DEF LoopTypeOK, Locals
    <3> HIDE DEF m
    <3>. QED BY <3>1, <3>2 DEF LoopTypeOK, Locals
  <2>. QED BY <2>3, <2>4
<1>14. ASSUME NEW reply \in Replies, Truncated(reply) PROVE LoopTypeOK'
  <2>1. loop' \in Locals /\ counters' \in Counts BY <1>13, <1>14 DEF Truncated
  <2>. QED BY <1>0, <1>14, <2>1 DEF LoopTypeOK, Truncated, Replied, Goto, Locations, queueVars,
                                    flagVars, roundVars
<1>15. ASSUME NEW reply \in Replies, ToolCalls(reply) PROVE LoopTypeOK'
  <2>1. loop' \in Locals /\ counters' \in Counts BY <1>13, <1>15 DEF ToolCalls
  <2>2. reply \in Seq(Tools) /\ reply # <<>> BY <1>15 DEF LoopSizes, ToolCalls, Replied
  <2>3. CallsOf(reply) \in Seq(Calls) BY <2>2, ReplyIds DEF LoopSizes
  <2>. QED BY <1>0, <1>15, <2>1, <2>3 DEF LoopTypeOK, ToolCalls, Replied, Goto, Locations,
                                          queueVars, flagVars
<1>16. CASE RunTool
  <2>1. abort' \in BOOLEAN /\ children' \in Nat BY <1>16 DEF RunTool, LoopTypeOK, LoopSizes
  <2>2. done' \in Nat /\ done' <= Len(calls') BY <1>16 DEF RunTool, LoopTypeOK
  <2>. QED BY <1>0, <1>16, <2>1, <2>2 DEF LoopTypeOK, RunTool, Goto, Locations, queueVars
<1>17. CASE Backfill
  BY <1>0, <1>17 DEF LoopTypeOK, Backfill, Goto, EndTurn, Locations, Stops, queueVars, flagVars
<1>18. CASE ToolPanics
  <2>0. counters.panics + 1 \in 0..MaxPanics
    <3>1. counters.panics < MaxPanics BY <1>18 DEF ToolPanics
    <3>2. MaxPanics \in Nat BY DEF LoopSizes
    <3>. QED BY <1>c, <3>1, <3>2
  <2>1. counters' \in Counts BY <1>c, <1>18, <2>0 DEF ToolPanics, Counts
  <2>. QED BY <1>0, <1>18, <2>1 DEF LoopTypeOK, ToolPanics, EndTurn, Locations, Stops, queueVars,
                                    flagVars
<1>. QED
  BY <1>1, <1>2, <1>3, <1>4, <1>5, <1>6, <1>7, <1>8, <1>9, <1>10, <1>11, <1>12, <1>14, <1>15,
     <1>16, <1>17, <1>18 DEF LoopNext, RunThread, Reply

\* What a conversation is after input, text or a summary's successors.
LEMMA QuietAppended ==
  ASSUME NEW a \in Seq(Messages), NEW b \in Seq(Messages), Telling(a),
         \A i \in 1..Len(b) : b[i].kind \notin {"call", "results"}
  PROVE  /\ a \o b \in Seq(Messages)
         /\ Telling(a \o b)
         /\ Paired(a) => Paired(a \o b)
         /\ \A last \in Nat : Distinct(a, last) => Distinct(a \o b, last)
         /\ b # <<>> => EndsAnswered(a \o b)
<1>1. Telling(b) /\ Paired(b) /\ \A i \in 1..Len(b) : b[i].kind # "call" BY QuietMessages
<1>2. a \o b \in Seq(Messages) /\ Telling(a \o b) BY <1>1, Appended, TellingAppended
<1>3. Paired(a) => Paired(a \o b) BY <1>1, PairedAppended
<1>4. ASSUME NEW last \in Nat, Distinct(a, last) PROVE Distinct(a \o b, last)
  BY <1>1, <1>4, DistinctAppended
<1>5. ASSUME b # <<>> PROVE EndsAnswered(a \o b)
  <2>1. Len(b) \in Nat \ {0} /\ Len(a) \in Nat /\ Len(a \o b) = Len(a) + Len(b)
        /\ (a \o b)[Len(a) + Len(b)] = b[Len(b)]
    BY <1>5, Appended
  <2>2. (a \o b)[Len(a \o b)].kind # "results" /\ a \o b # <<>> BY <2>1
  <2>. QED BY <2>2 DEF EndsAnswered
<1>. QED BY <1>2, <1>3, <1>4, <1>5

\* A step that records nothing, and leaves the round and its place alone.
LEMMA Elsewhere ==
  ASSUME LoopInv, UNCHANGED <<context, pc, calls>>,
         counters'.ids = counters.ids, counters'.panics = counters.panics
  PROVE  /\ context' \in Seq(Messages)
         /\ LoopTypeOK' => LoopInv'
<1>1. context \in Seq(Messages) BY DEF LoopInv, LoopTypeOK, Messages
<1>2. Executing => Executing' BY DEF Executing, CallIds
<1>. QED BY <1>1, <1>2 DEF LoopInv

\* A step that records input or text and leaves the round to come.
LEMMA RecordsQuietly ==
  ASSUME LoopInv, NEW b \in Seq(Messages), context' = context \o b,
         \A i \in 1..Len(b) : b[i].kind \notin {"call", "results"},
         pc # "tool", pc' # "tool", pc' = "top" => b # <<>>,
         counters'.ids = counters.ids, counters'.panics = counters.panics
  PROVE  /\ context' \in Seq(Messages)
         /\ LoopTypeOK' => LoopInv'
<1>1. context \in Seq(Messages) /\ Telling(context) /\ counters.ids \in Nat
  BY DEF LoopInv, LoopTypeOK, Messages, Counts
<1>2. /\ context' \in Seq(Messages) /\ Telling(context')
      /\ Paired(context) => Paired(context')
      /\ Distinct(context, counters.ids) => Distinct(context', counters.ids)
      /\ b # <<>> => EndsAnswered(context')
  BY <1>1, QuietAppended
<1>. QED BY <1>2 DEF LoopInv

\* The top of a round: compaction, then what was queued.
LEMMA RoundSteps ==
  ASSUME LoopSizes, LoopInv, Round
  PROVE  /\ context' \in Seq(Messages)
         /\ LoopTypeOK' => LoopInv'
<1>0. /\ context \in Seq(Messages) /\ Telling(context) /\ counters.ids \in Nat
      /\ steering \in Nat /\ asides \in Nat
  BY DEF LoopInv, LoopTypeOK, Messages, Counts
<1>1. Drained \in Seq(Messages) /\ \A i \in 1..Len(Drained) : Drained[i].kind \notin {"call", "results"}
  BY <1>0, DrainedMessages, Recorded
<1>2. /\ pc = "top" /\ pc' = "stream" /\ counters' = counters
  BY DEF Round, Goto
<1>3. CASE context' = context \o Drained
  <2> HIDE DEF Drained
  <2>. QED BY <1>1, <1>2, <1>3, RecordsQuietly
<1>4. CASE Compactable(context) /\ context' = Compacted(context) \o Drained
  <2> DEFINE c == Compacted(context)
  <2>1. Cut(context) > 1 BY <1>4 DEF Compactable
  <2>2. /\ c \in Seq(Messages) /\ Telling(c)
        /\ Paired(context) => Paired(c)
        /\ Distinct(context, counters.ids) => Distinct(c, counters.ids)
    BY <1>0, <2>1, CompactedIs, CompactedTelling, CompactedPaired, CompactedDistinct DEF LoopSizes
  <2> HIDE DEF c
  <2>3. /\ c \o Drained \in Seq(Messages) /\ Telling(c \o Drained)
        /\ Paired(c) => Paired(c \o Drained)
        /\ Distinct(c, counters.ids) => Distinct(c \o Drained, counters.ids)
    BY <1>0, <1>1, <2>2, QuietAppended
  <2>4. context' = c \o Drained BY <1>4 DEF c
  <2>. QED BY <1>2, <2>2, <2>3, <2>4 DEF LoopInv
<1>. QED BY <1>3, <1>4 DEF Round

\* A reply with calls, answered at once or executed.
LEMMA ReplySteps ==
  ASSUME LoopSizes, LoopInv, NEW reply \in Replies, Truncated(reply) \/ ToolCalls(reply)
  PROVE  /\ context' \in Seq(Messages)
         /\ LoopTypeOK' => LoopInv'
<1> DEFINE ids == Ids(reply)
           call == CallsMsg(ids)
           res == ResultsMsg(ids)
<1>0. context \in Seq(Messages) /\ Telling(context) /\ counters.ids \in Nat /\ LoopTypeOK
  BY DEF LoopInv, LoopTypeOK, Messages, Counts
<1>1. reply \in Seq(Tools) /\ reply # <<>> /\ Len(reply) \in Nat
  BY DEF LoopSizes, Truncated, ToolCalls, Replied
<1>2. /\ CallsOf(reply) \in Seq(Calls)
      /\ {CallsOf(reply)[i].id : i \in 1..Len(CallsOf(reply))} = ids
      /\ ids # {} /\ ids \in SUBSET Nat
      /\ FreshIds => \A id \in ids : counters.ids < id /\ id <= counters.ids + Len(reply)
  BY <1>0, <1>1, ReplyIds DEF LoopSizes
<1>3. /\ pc = "stream" /\ counters'.panics = counters.panics
      /\ FreshIds => counters'.ids = counters.ids + Len(reply)
  BY <1>0 DEF Truncated, ToolCalls, Replied, LoopTypeOK, Counts
<1> HIDE DEF ids
<1>4. /\ <<call>> \in Seq(Messages) /\ <<call, res>> \in Seq(Messages)
      /\ call \in Messages /\ res \in Messages
      /\ Paired(<<call, res>>) /\ Telling(<<call, res>>) /\ Telling(<<call>>)
  BY <1>2, RoundMessages
<1>5. call.kind = "call" /\ call.ids = ids /\ res.kind = "results" /\ res.ids = ids
      /\ CallsMsg(res.ids) = call
  BY DEF CallsMsg, ResultsMsg
<1> HIDE DEF call, res
<1>6. CASE Truncated(reply)
  <2>1. context' = context \o <<call, res>> /\ pc' = "top"
    BY <1>6 DEF Truncated, Record, Goto, ids, call, res
  <2>2. context' \in Seq(Messages) /\ Telling(context') BY <1>0, <1>4, <2>1, Appended, TellingAppended
  <2>3. Paired(context) => Paired(context') BY <1>0, <1>4, <2>1, PairedAppended
  <2>4. FreshIds => Distinct(context', counters'.ids)
    <3> SUFFICES ASSUME FreshIds PROVE Distinct(context', counters'.ids) OBVIOUS
    <3>1. \A i \in 1..Len(<<call, res>>) : <<call, res>>[i].kind = "call" =>
            i = 1 /\ \A id \in <<call, res>>[i].ids : counters.ids < id /\ id <= counters'.ids
      <4> TAKE i \in 1..Len(<<call, res>>)
      <4>1. i = 1 \/ i = 2 OBVIOUS
      <4>. QED BY <4>1, <1>2, <1>3, <1>5
    <3>2. Distinct(context, counters.ids) BY DEF LoopInv
    <3>3. counters'.ids \in Nat /\ counters.ids <= counters'.ids BY <1>0, <1>1, <1>3
    <3>. QED BY <1>0, <1>4, <2>1, <3>1, <3>2, <3>3, DistinctAppended
  <2>5. EndsAnswered(context')
    <3>1. /\ Len(context) \in Nat /\ Len(context') = Len(context) + 2
          /\ context'[Len(context) + 1] = call /\ context'[Len(context) + 2] = res
      BY <1>0, <1>4, <2>1
    <3>2. Len(context') - 1 = Len(context) + 1 BY <3>1
    <3>. QED BY <1>5, <3>1, <3>2 DEF EndsAnswered
  <2>. QED BY <1>3, <2>1, <2>2, <2>3, <2>4, <2>5 DEF LoopInv
<1>7. CASE ToolCalls(reply)
  <2>1. context' = context \o <<call>> /\ pc' = "tool" /\ calls' = CallsOf(reply)
    BY <1>7 DEF ToolCalls, Record, Goto, ids, call
  <2>2. context' \in Seq(Messages) /\ Telling(context') BY <1>0, <1>4, <2>1, Appended, TellingAppended
  <2>3. FreshIds => Distinct(context', counters'.ids)
    <3> SUFFICES ASSUME FreshIds PROVE Distinct(context', counters'.ids) OBVIOUS
    <3>1. \A i \in 1..Len(<<call>>) : <<call>>[i].kind = "call" =>
            i = 1 /\ \A id \in <<call>>[i].ids : counters.ids < id /\ id <= counters'.ids
      <4> TAKE i \in 1..Len(<<call>>)
      <4>1. i = 1 /\ <<call>>[1] = call OBVIOUS
      <4>. QED BY <4>1, <1>2, <1>3, <1>5
    <3>2. Distinct(context, counters.ids) BY DEF LoopInv
    <3>3. counters'.ids \in Nat /\ counters.ids <= counters'.ids BY <1>0, <1>1, <1>3
    <3>. QED BY <1>0, <1>4, <2>1, <3>1, <3>2, <3>3, DistinctAppended
  <2>4. CallIds' = ids BY <1>2, <2>1 DEF CallIds
  <2>5. counters'.panics = 0 => Paired(context) BY <1>3 DEF LoopInv
  <2>6. Executing' BY <1>0, <1>2, <2>1, <2>4, <2>5 DEF Executing, call
  <2>. QED BY <1>3, <2>1, <2>2, <2>3, <2>6 DEF LoopInv
<1>. QED BY <1>6, <1>7

\* Two messages that are put at the end one by one.
LEMMA TwoJoined ==
  ASSUME NEW a \in Seq(Messages), NEW m \in Messages, NEW n \in Messages
  PROVE  (a \o <<m>>) \o <<n>> = a \o <<m, n>>
<1> DEFINE s == (a \o <<m>>) \o <<n>>
           t == a \o <<m, n>>
<1>1. /\ s \in Seq(Messages) /\ Len(s) = Len(a) + 2 /\ Len(a) \in Nat
      /\ \A i \in 1..Len(a) : s[i] = a[i]
      /\ s[Len(a) + 1] = m /\ s[Len(a) + 2] = n
  OBVIOUS
<1>2. /\ t \in Seq(Messages) /\ Len(t) = Len(a) + 2
      /\ \A i \in 1..Len(a) : t[i] = a[i]
      /\ t[Len(a) + 1] = m /\ t[Len(a) + 2] = n
  OBVIOUS
<1> HIDE DEF s, t
<1>3. ASSUME NEW i \in 1..Len(s) PROVE s[i] = t[i]
  <2>1. i \in 1..Len(a) \/ i = Len(a) + 1 \/ i = Len(a) + 2 BY <1>1
  <2>. QED BY <1>1, <1>2, <2>1
<1>4. s = t BY <1>1, <1>2, <1>3, SeqEqual
<1>. QED BY <1>4 DEF s, t

\* The end of a round of tools answers every call of the reply.
LEMMA BackfillSteps ==
  ASSUME LoopSizes, LoopInv, Backfill
  PROVE  /\ context' \in Seq(Messages)
         /\ LoopTypeOK' => LoopInv'
<1> DEFINE call == CallsMsg(CallIds)
           res == ResultsMsg(CallIds)
<1>0. context \in Seq(Messages) /\ Telling(context) /\ counters.ids \in Nat
  BY DEF LoopInv, LoopTypeOK, Messages, Counts
<1>1. /\ pc = "tool" /\ pc' # "tool" /\ context' = context \o <<res>> /\ counters' = counters
  BY DEF Backfill, Record, Goto, EndTurn, CallIds
<1>2. CallIds # {} /\ CallIds \in SUBSET Nat
  <2>1. calls \in Seq(Calls) BY DEF LoopInv, LoopTypeOK
  <2>2. \A i \in 1..Len(calls) : calls[i] \in Calls BY <2>1
  <2>3. \A i \in 1..Len(calls) : calls[i].id \in Nat BY <2>2 DEF Calls
  <2>. QED BY <1>1, <2>3 DEF LoopInv, Executing, CallIds
<1>3. PICK front \in Seq(Messages) :
        /\ context = front \o <<call>>
        /\ counters.panics = 0 => Paired(front)
  BY <1>1 DEF LoopInv, Executing
<1>4. /\ <<call>> \in Seq(Messages) /\ <<res>> \in Seq(Messages) /\ <<call, res>> \in Seq(Messages)
      /\ call \in Messages /\ res \in Messages
      /\ Paired(<<call, res>>) /\ Telling(<<res>>)
  BY <1>2, RoundMessages
<1>5. res.kind = "results" /\ CallsMsg(res.ids) = call BY DEF CallsMsg, ResultsMsg
<1> HIDE DEF call, res
<1>6. context' \in Seq(Messages) /\ Telling(context') BY <1>0, <1>1, <1>4, Appended, TellingAppended
<1>7. counters.panics = 0 => Paired(context')
  <2>2. (front \o <<call>>) \o <<res>> = front \o <<call, res>> BY <1>4, TwoJoined
  <2>. QED BY <1>1, <1>3, <1>4, <2>2, PairedAppended
<1>8. FreshIds => Distinct(context', counters.ids)
  <2> SUFFICES ASSUME FreshIds PROVE Distinct(context', counters.ids) OBVIOUS
  <2>1. \A i \in 1..Len(<<res>>) : <<res>>[i].kind = "call" =>
          i = 1 /\ \A id \in <<res>>[i].ids : counters.ids < id /\ id <= counters.ids
    <3> TAKE i \in 1..Len(<<res>>)
    <3>1. i = 1 /\ <<res>>[1] = res OBVIOUS
    <3>. QED BY <3>1, <1>5
  <2>2. Distinct(context, counters.ids) BY DEF LoopInv
  <2>3. counters.ids <= counters.ids BY <1>0
  <2>. QED BY <1>0, <1>1, <1>4, <2>1, <2>2, <2>3, DistinctAppended
<1>9. EndsAnswered(context')
  <2>1. /\ Len(front) \in Nat /\ Len(context) = Len(front) + 1 /\ Len(context') = Len(front) + 2
        /\ context[Len(front) + 1] = call /\ context'[Len(front) + 2] = res
        /\ context'[Len(front) + 1] = context[Len(front) + 1]
    BY <1>0, <1>1, <1>3, <1>4
  <2>2. Len(context') - 1 = Len(front) + 1 BY <2>1
  <2>. QED BY <1>5, <2>1, <2>2 DEF EndsAnswered
<1>. QED BY <1>1, <1>6, <1>7, <1>8, <1>9 DEF LoopInv

\* Every step of the engine and of those who reach into it.
LEMMA LoopSteps ==
  ASSUME LoopSizes, LoopInv, [LoopNext]_loopVars
  PROVE  LoopInv'
<1>0. /\ LoopTypeOK /\ context \in Seq(Messages)
      /\ counters.panics \in Nat /\ counters \in Counts
  BY DEF LoopInv, LoopTypeOK, Messages, Counts, LoopSizes
<1> DEFINE Goal == /\ context' \in Seq(Messages)
                   /\ LoopTypeOK' => LoopInv'
<1>. SUFFICES Goal BY <1>0, LoopTypes
<1>r. /\ <<User>> \in Seq(Messages) /\ <<User>> # <<>>
      /\ <<Text>> \in Seq(Messages) /\ <<Text>> # <<>>
      /\ \A i \in 1..Len(<<User>>) : <<User>>[i].kind \notin {"call", "results"}
      /\ \A i \in 1..Len(<<Text>>) : <<Text>>[i].kind \notin {"call", "results"}
  BY Recorded
<1>1. CASE UNCHANGED loopVars \/ Prompt \/ Steer \/ Notify \/ RaiseAbort \/ ChildEnds \/ RunTool
  <2>1. /\ UNCHANGED <<context, pc, calls>>
        /\ counters'.ids = counters.ids /\ counters'.panics = counters.panics
    BY <1>0, <1>1 DEF loopVars, queueVars, flagVars, roundVars, Prompt, Steer, Notify, Noted, RaiseAbort,
                      ChildEnds, RunTool, Goto, Counts
  <2>. QED BY <2>1, Elsewhere
<1>2. CASE Begin
  <2>1. context' = context \o <<User>> /\ pc = "idle" /\ pc' = "top" /\ counters' = counters
    BY <1>2 DEF Begin, Record, Goto
  <2>. QED BY <2>1, <1>r, RecordsQuietly
<1>3. CASE LastRound
  BY <1>0, <1>3 DEF LastRound, EndTurn, LoopInv
<1>4. CASE Round BY <1>4, RoundSteps
<1>5. CASE Aborted \/ AuthFailure
  <2>1. context' = context \o <<Text>> /\ pc = "stream" /\ pc' = "idle" /\ counters' = counters
    BY <1>5 DEF Aborted, AuthFailure, Record, EndTurn
  <2>. QED BY <2>1, <1>r, RecordsQuietly
<1>6. ASSUME NEW e \in Errors, StreamError(e) PROVE Goal
  <2>1. context' = context \o <<Text>> /\ pc = "stream" /\ pc' # "tool" /\ counters' = counters
    BY <1>6 DEF StreamError, Record, EndTurn, Goto
  <2>. QED BY <2>1, <1>r, RecordsQuietly
<1>7. ASSUME NEW reason, FinalReply(reason) PROVE Goal
  <2>1. context' = context \o <<Text>> /\ pc = "stream" /\ pc' # "tool" /\ counters' = counters
    BY <1>7 DEF FinalReply, Record, EndTurn, Goto
  <2>. QED BY <2>1, <1>r, RecordsQuietly
<1>8. ASSUME NEW reply \in Replies, Truncated(reply) \/ ToolCalls(reply) PROVE Goal
  BY <1>8, ReplySteps
<1>9. CASE Backfill BY <1>9, BackfillSteps
<1>10. CASE ToolPanics
  <2>1. context' = context /\ pc' = "idle" /\ counters'.panics # 0 /\ counters'.ids = counters.ids
    BY <1>0, <1>10 DEF ToolPanics, EndTurn, Counts
  <2>. QED BY <1>0, <2>1 DEF LoopInv
<1>. QED
  BY <1>1, <1>2, <1>3, <1>4, <1>5, <1>6, <1>7, <1>8, <1>9, <1>10 DEF LoopNext, RunThread, Reply

\* The conversation, the queues, the flags and the locals of a turn stay what
\* the loop takes them for (run_agent_streaming, worker.rs).
THEOREM LoopTyped == ASSUME LoopSizes PROVE LoopSpec => []LoopTypeOK
<1>1. LoopInit => LoopInv BY LoopStarts
<1>2. LoopInv /\ [LoopNext]_loopVars => LoopInv' BY LoopSteps
<1>3. LoopInv => LoopTypeOK BY DEF LoopInv
<1>. QED BY <1>1, <1>2, <1>3, PTL DEF LoopSpec

\* Every request the model is sent pairs calls and results, whatever was
\* aborted, truncated, steered or compacted before: for any budget and window,
\* any replies, and providers that give ids of their own or indexes.
THEOREM RequestsArePaired == ASSUME LoopSizes PROVE LoopSpec => []RequestsPaired
<1>1. LoopInit => LoopInv BY LoopStarts
<1>2. LoopInv /\ [LoopNext]_loopVars => LoopInv' BY LoopSteps
<1>3. LoopInv => RequestsPaired BY DEF LoopInv, RequestsPaired
<1>. QED BY <1>1, <1>2, <1>3, PTL DEF LoopSpec

\* Compaction never takes the newest message from the model, when the provider
\* gives every call an id of its own: the window's two messages are enough for
\* a balanced cut before the end.
THEOREM NewestIsSent == ASSUME LoopSizes, FreshIds PROVE LoopSpec => NewestKept
<1>1. LoopInit => LoopInv BY LoopStarts
<1>2. LoopInv /\ [LoopNext]_loopVars => LoopInv' BY LoopSteps
<1>3. LoopInv /\ [LoopNext]_loopVars => [Round => LastKept]_loopVars
  <2> SUFFICES ASSUME LoopInv, Round PROVE LastKept OBVIOUS
  <2>1. /\ context \in Seq(Messages) /\ steering \in Nat /\ asides \in Nat
        /\ EndsAnswered(context) /\ Distinct(context, counters.ids)
    BY DEF LoopInv, LoopTypeOK, Messages, Round
  <2>2. Drained \in Seq(Messages) /\ Len(Drained) \in Nat BY <2>1, DrainedMessages
  <2>3. Len(context) \in Nat \ {0} BY <2>1 DEF EndsAnswered
  <2>4. CASE context' = context \o Drained
    <3> HIDE DEF Drained
    <3>1. Len(context') = Len(context) + Len(Drained) /\ context'[Len(context)] = context[Len(context)]
      BY <2>1, <2>2, <2>3, <2>4
    <3>2. Len(context') - Len(Drained) = Len(context) BY <2>2, <2>3, <3>1
    <3>. QED BY <3>1, <3>2 DEF LastKept
  <2>5. CASE Compactable(context) /\ context' = Compacted(context) \o Drained
    <3> DEFINE c == Compacted(context)
               k == Cut(context)
    <3>1. k <= Len(context) BY <2>1, NewestIsKept DEF LoopSizes
    <3>2. k \in 1..Len(context) + 1 BY <2>1, CutIs DEF LoopSizes
    <3>3. /\ c \in Seq(Messages) /\ Len(c) = Len(context) + 2 - k
          /\ \A i \in 2..Len(c) : c[i] = context[i + k - 2]
      BY <2>1, CompactedIs DEF LoopSizes
    <3>4. context' = c \o Drained BY <2>5
    <3> HIDE DEF c, k, Drained
    <3>5. Len(c) \in 2..Len(c) /\ Len(c) + k - 2 = Len(context) BY <2>3, <3>1, <3>2, <3>3
    <3>6. c[Len(c)] = context[Len(context)] BY <3>3, <3>5
    <3>7. Len(context') = Len(c) + Len(Drained) /\ context'[Len(c)] = c[Len(c)]
      BY <2>2, <3>3, <3>4, <3>5
    <3>8. Len(context') - Len(Drained) = Len(c) BY <2>2, <3>5, <3>7
    <3>. QED BY <3>6, <3>7, <3>8 DEF LastKept
  <2>. QED BY <2>4, <2>5 DEF Round
<1>. QED BY <1>1, <1>2, <1>3, PTL DEF LoopSpec, NewestKept

\* Without a subagent that is handed the engine's own flag, a turn is aborted
\* only when a user asked for it.
THEOREM UsersAbort == ASSUME ~Forks PROVE LoopSpec => []AbortedByUser
<1> DEFINE Raised == (abort => userAbort) /\ AbortedByUser
<1>1. LoopInit => Raised BY DEF LoopInit, AbortedByUser
<1>2. Raised /\ [LoopNext]_loopVars => Raised'
  <2> SUFFICES ASSUME Raised, [LoopNext]_loopVars PROVE Raised' OBVIOUS
  <2>0. CASE ChildEnds
    <3>1. (abort' => abort) /\ stopReason' = stopReason /\ userAbort' = userAbort BY <2>0 DEF ChildEnds
    <3>. QED BY <3>1 DEF AbortedByUser
  <2>1. CASE UNCHANGED loopVars \/ Prompt \/ Steer \/ Notify \/ RaiseAbort
    BY <2>1 DEF AbortedByUser, loopVars, queueVars, flagVars, roundVars, Prompt, Steer, Notify, Noted,
                RaiseAbort
  <2>2. CASE Begin \/ LastRound \/ Round \/ Aborted \/ AuthFailure
    BY <2>2 DEF AbortedByUser, Begin, LastRound, Round, Aborted, AuthFailure, Goto, EndTurn,
                flagVars
  <2>3. CASE \E e \in Errors : StreamError(e)
    BY <2>3 DEF AbortedByUser, StreamError, Goto, EndTurn, flagVars
  <2>4. CASE \E reason \in {"end_turn", "max_tokens"} : FinalReply(reason)
    BY <2>4 DEF AbortedByUser, FinalReply, Goto, EndTurn, flagVars
  <2>5. CASE \E reply \in Replies : Truncated(reply) \/ ToolCalls(reply)
    BY <2>5 DEF AbortedByUser, Truncated, ToolCalls, Replied, Goto, flagVars
  <2>6. CASE Backfill \/ ToolPanics
    BY <2>6 DEF AbortedByUser, Backfill, ToolPanics, Goto, EndTurn, flagVars
  <2>7. CASE RunTool
    <3>1. ~abort' /\ UNCHANGED <<stopReason, userAbort>> BY <2>7 DEF RunTool, Goto
    <3>. QED BY <3>1 DEF AbortedByUser
  <2>. QED BY <2>0, <2>1, <2>2, <2>3, <2>4, <2>5, <2>6, <2>7 DEF LoopNext, RunThread, Reply
<1>. QED BY <1>1, <1>2, PTL DEF LoopSpec
=============================================================================
