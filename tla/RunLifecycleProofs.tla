------------------------- MODULE RunLifecycleProofs -------------------------
(***************************************************************************)
(* For any set of runs and every environment: the types of RunLifecycle,   *)
(* the balance of the turn log, its order relative to the ledger, what the *)
(* startup repair achieves, and that the two durable records implement     *)
(* RunBook.  Where clients take turns: that every AgentEnd settles its own *)
(* run, and that no run stays open while nobody works.                     *)
(***************************************************************************)
EXTENDS RunLifecycle, TLAPS

\* A turn in progress and a pump in the middle of a close are whole records.
LEMMA TurnInProgress ==
  ASSUME turn \in Turns, turn.phase # "none"
  PROVE  turn \in ActiveTurns
BY DEF Turns, NoTurn

\* A phase of the pump in which a prompt is served.
LEMMA PumpInProgress ==
  ASSUME pump \in Pumps, pump.phase \in PumpPhases
  PROVE  pump \in ActivePumps
BY DEF Pumps, PumpAt, PumpPhases

\* The types hold before the first run.
LEMMA TypeInit == Init => TypeOK
<1> SUFFICES ASSUME Init PROVE TypeOK
  OBVIOUS
<1> USE DEF Init
<1>1. pump \in Pumps
  BY DEF Pumps
<1>2. turn \in Turns /\ exec \in ExecStates
  BY DEF Turns, ExecStates, IdleExec
<1>3. queue \in Seq(Runs) /\ events \in Seq(AgentEnds)
  OBVIOUS
<1>4. prompt \in [Runs -> PromptStages] /\ ledger \in [Runs -> Statuses]
  BY DEF PromptStages, Statuses
<1> QED
  BY <1>1, <1>2, <1>3, <1>4 DEF TypeOK, RunOrNone

\* Every step keeps the types.
LEMMA TypeStep == TypeOK /\ [Next]_vars => TypeOK'
<1> SUFFICES ASSUME TypeOK, [Next]_vars PROVE TypeOK'
  OBVIOUS
<1> USE DEF TypeOK, records, engine, counters
<1>1. ASSUME NEW r \in Runs, PromptOpen(r) PROVE TypeOK'
  BY <1>1 DEF PromptOpen, Advance, PromptStages, RunOrNone, Statuses
<1>2. ASSUME NEW r \in Runs, PromptLogStart(r) PROVE TypeOK'
  BY <1>2 DEF PromptLogStart, Advance, PromptStages, RecordStart
<1>3. ASSUME NEW r \in Runs, PromptDeclare(r) PROVE TypeOK'
  BY <1>3 DEF PromptDeclare, Advance, PromptStages, ExecStates, Pumps
<1>4. ASSUME NEW r \in Runs, PromptSpawnFails(r) PROVE TypeOK'
  BY <1>4 DEF PromptSpawnFails, Advance, PromptStages, Finish, Statuses, ClosedStatuses
<1>5. ASSUME NEW r \in Runs, PromptResume(r) PROVE TypeOK'
  BY <1>5 DEF PromptResume, Advance, PromptStages
<1>6. ASSUME NEW r \in Runs, PromptReject(r) PROVE TypeOK'
  BY <1>6 DEF PromptReject, Advance, PromptStages, RunOrNone
<1>7. ASSUME NEW r \in Runs, PromptAck(r) PROVE TypeOK'
  BY <1>7 DEF PromptAck, Advance, PromptStages, RunOrNone
<1>8. ASSUME NEW r \in Runs, PromptSendOmp(r) PROVE TypeOK'
  BY <1>8 DEF PromptSendOmp, Advance, PromptStages
<1>9. ASSUME NEW r \in Runs, PromptReturnOmp(r) PROVE TypeOK'
  BY <1>9 DEF PromptReturnOmp, Advance, PromptStages, Finish, Statuses, ClosedStatuses
<1>10. ASSUME NEW r \in Runs, PromptLogEnd(r) PROVE TypeOK'
  BY <1>10 DEF PromptLogEnd, Advance, PromptStages, RecordEnd, RunOrNone
<1>11. CASE TurnTake
  <2>1. queue' \in Seq(Runs) /\ Head(queue) \in Runs
    BY <1>11 DEF TurnTake
  <2>2. turn' \in Turns
    BY <1>11, <2>1 DEF TurnTake, Turns, ActiveTurns, TurnPhases
  <2> QED
    BY <1>11, <2>1, <2>2 DEF TurnTake
<1>12. CASE TurnBegin
  <2>1. turn \in ActiveTurns
    BY <1>12, TurnInProgress DEF TurnBegin
  <2>2. turn' \in Turns
    BY <1>12, <2>1 DEF TurnBegin, Turns, ActiveTurns, TurnPhases
  <2> QED
    BY <1>12, <2>2 DEF TurnBegin
<1>13. CASE TurnAsk
  <2>1. turn \in ActiveTurns
    BY <1>13, TurnInProgress DEF TurnAsk
  <2>2. turn' = [run |-> turn.run, phase |-> "asking", reviews |-> turn.reviews + 1]
    BY <1>13, <2>1 DEF TurnAsk, ActiveTurns
  <2>3. turn' \in Turns
    BY <2>1, <2>2 DEF Turns, ActiveTurns, TurnPhases
  <2> QED
    BY <1>13, <2>3 DEF TurnAsk
<1>14. CASE TurnPark
  <2>1. turn \in ActiveTurns
    BY <1>14, TurnInProgress DEF TurnPark
  <2>2. turn' \in Turns /\ exec' \in ExecStates
    BY <1>14, <2>1 DEF TurnPark, Turns, ActiveTurns, TurnPhases, ExecStates, IdleExec
  <2> QED
    BY <1>14, <2>2 DEF TurnPark
<1>15. CASE TurnUnpark
  <2>1. turn \in ActiveTurns
    BY <1>15, TurnInProgress DEF TurnUnpark
  <2>2. turn' \in Turns /\ exec' \in ExecStates
    BY <1>15, <2>1 DEF TurnUnpark, Turns, ActiveTurns, TurnPhases, ExecStates, IdleExec
  <2> QED
    BY <1>15, <2>2 DEF TurnUnpark
<1>16. CASE TurnEnd
  <2>1. turn \in ActiveTurns
    BY <1>16, TurnInProgress DEF TurnEnd
  <2>2. turn' \in Turns
    BY <1>16, <2>1 DEF TurnEnd, Turns, ActiveTurns, TurnPhases
  <2>3. PICK stop \in Stops : events' = Append(events, [of |-> turn.run, stop |-> stop])
    BY <1>16 DEF TurnEnd
  <2>4. [of |-> turn.run, stop |-> stop] \in AgentEnds
    BY <2>1, <2>3 DEF AgentEnds, ActiveTurns
  <2>5. events' \in Seq(AgentEnds)
    BY <2>3, <2>4
  <2> QED
    BY <1>16, <2>2, <2>5 DEF TurnEnd
<1>17. CASE TurnRelease
  BY <1>17 DEF TurnRelease, Turns
<1>18. CASE PumpTake
  <2>1. events' \in Seq(AgentEnds) /\ Head(events) \in AgentEnds
    BY <1>18 DEF PumpTake
  <2>2. CASE exec.status = "Running"
    <3>1. pump' = [phase |-> "check", run |-> exec.run, of |-> Head(events).of,
                   stop |-> Head(events).stop, status |-> "ok"]
      BY <1>18, <2>2 DEF PumpTake, PumpAt
    <3>2. exec.run \in Runs
      BY <2>2 DEF ExecStates
    <3>3. pump' \in Pumps
      BY <2>1, <3>1, <3>2 DEF Pumps, ActivePumps, PumpPhases, AgentEnds, ClosedStatuses
    <3> QED
      BY <1>18, <2>1, <3>3 DEF PumpTake
  <2>3. CASE exec.status # "Running"
    BY <1>18, <2>1, <2>3 DEF PumpTake
  <2> QED
    BY <2>2, <2>3
<1>19. CASE PumpCheck
  <2>1. pump \in ActivePumps
    BY <1>19, PumpInProgress DEF PumpCheck, PumpPhases
  <2>2. CASE ledger[pump.run] # "open"
    BY <1>19, <2>1, <2>2 DEF PumpCheck, Pumps, ActivePumps, PumpPhases
  <2>3. CASE ledger[pump.run] = "open"
    <3>1. PICK status \in ClosedStatuses :
            pump' = [pump EXCEPT !.phase = "finish", !.status = status]
      BY <1>19, <2>1, <2>3 DEF PumpCheck, ActivePumps, Stops, ClosedStatuses
    <3>2. pump' \in Pumps
      BY <2>1, <3>1 DEF Pumps, ActivePumps, PumpPhases
    <3> QED
      BY <1>19, <3>2 DEF PumpCheck
  <2> QED
    BY <2>2, <2>3
<1>20. CASE PumpFinish
  <2>1. pump \in ActivePumps
    BY <1>20, PumpInProgress DEF PumpFinish, PumpPhases
  <2>2. pump' \in Pumps
    BY <1>20, <2>1 DEF PumpFinish, Pumps, ActivePumps, PumpPhases
  <2>3. ledger' \in [Runs -> Statuses]
    BY <1>20, <2>1 DEF PumpFinish, Finish, Statuses, ActivePumps
  <2> QED
    BY <1>20, <2>2, <2>3 DEF PumpFinish, Finish
<1>21. CASE PumpLogEnd
  <2>1. pump \in ActivePumps
    BY <1>21, PumpInProgress DEF PumpLogEnd, PumpPhases
  <2>2. turnEnds' \in [Runs -> Nat]
    BY <1>21, <2>1 DEF PumpLogEnd, RecordEnd, ActivePumps
  <2>3. pump' \in Pumps
    BY <1>21, <2>1 DEF PumpLogEnd, Pumps, ActivePumps, PumpPhases
  <2> QED
    BY <1>21, <2>2, <2>3 DEF PumpLogEnd
<1>22. CASE PumpClear
  BY <1>22 DEF PumpClear, Pumps, ExecStates, IdleExec
<1>23. CASE Subscribe
  BY <1>23 DEF Subscribe, Pumps
<1>24. CASE Abort
  BY <1>24, ModeAssumption DEF Abort, ExecStates, RunOrNone
<1>25. CASE Crash
  <2> PICK kept \in 0..Len(rows) :
          /\ rows' = SubSeq(rows, 1, kept)
          /\ ledger' = [r \in Runs |-> IF \E i \in 1..kept : rows[i] = r THEN ledger[r] ELSE "none"]
    BY <1>25 DEF Crash
  <2>1. pump' \in Pumps /\ turn' \in Turns
    BY <1>25 DEF Crash, Pumps, Turns
  <2>2. exec' \in ExecStates
    BY <1>25 DEF Crash, ExecStates, IdleExec
  <2>3. prompt' \in [Runs -> PromptStages]
    BY <1>25 DEF Crash, PromptStages
  <2>4. queue' \in Seq(Runs) /\ events' \in Seq(AgentEnds)
    BY <1>25 DEF Crash
  <2>5. handle' \in RunOrNone
    BY <1>25 DEF Crash, RunOrNone
  <2>6. up' \in BOOLEAN /\ abortFlag' \in BOOLEAN /\ userAbort' \in BOOLEAN
    BY <1>25 DEF Crash
  <2>7. crashes' \in Nat /\ aborts' \in Nat /\ children' \in Nat
    BY <1>25 DEF Crash
  <2>8. UNCHANGED <<turnStarts, turnEnds>>
    BY <1>25 DEF Crash
  <2>9. ledger' \in [Runs -> Statuses]
    BY DEF Statuses
  <2>10. rows' \in Seq(Runs)
    OBVIOUS
  <2> QED
    BY <2>1, <2>2, <2>3, <2>4, <2>5, <2>6, <2>7, <2>8, <2>9, <2>10
<1>26. CASE Restart
  BY <1>26 DEF Restart
<1>27. CASE TurnFork \/ ForkEnds
  <2>1. children' \in Nat
    BY <1>27 DEF TurnFork, ForkEnds
  <2>2. abortFlag' \in BOOLEAN
    BY <1>27 DEF TurnFork, ForkEnds
  <2>3. UNCHANGED <<up, prompt, handle, records, exec, queue, turn, events, userAbort, pump, aborts, crashes>>
    BY <1>27 DEF TurnFork, ForkEnds
  <2> QED
    BY <2>1, <2>2, <2>3
<1>28. CASE UNCHANGED vars
  BY <1>28 DEF vars
<1> QED
  BY <1>1, <1>2, <1>3, <1>4, <1>5, <1>6, <1>7, <1>8, <1>9, <1>10, <1>11, <1>12,
     <1>13, <1>14, <1>15, <1>16, <1>17, <1>18, <1>19, <1>20, <1>21, <1>22, <1>23,
     <1>24, <1>25, <1>26, <1>27, <1>28
     DEF Next, PromptStep, TurnStep, PumpStep

\* Every variable of RunLifecycle keeps its type, whatever the set of runs
\* and the environment.
THEOREM TypeCorrect == Spec => []TypeOK
BY TypeInit, TypeStep, PTL DEF Spec

-----------------------------------------------------------------------------
\* The invariant that carries the safety properties, without the types.
SafeInv ==
  /\ \A r \in Runs : RecordsInv(r)
  /\ CloserInv
  /\ SlotInv
  /\ PumpInv
  /\ DownInv

\* The part of TypeOK the induction needs.
RecordTypes ==
  /\ prompt \in [Runs -> PromptStages]
  /\ ledger \in [Runs -> Statuses]
  /\ turnStarts \in [Runs -> Nat]
  /\ turnEnds \in [Runs -> Nat]
  /\ exec.status = "Running" => exec.run \in Runs
  /\ pump.phase \in PumpPhases => pump \in ActivePumps
  /\ pump.phase \in PumpPhases \cup {"off", "idle"}

\* The types of the records' parts.
LEMMA TypesOfRecords == TypeOK => RecordTypes
BY PumpInProgress DEF TypeOK, RecordTypes, ExecStates, Pumps, PumpAt, ActivePumps

\* Every step keeps the invariant.
LEMMA SafeStep == TypeOK /\ SafeInv /\ [Next]_vars => SafeInv'
<1> SUFFICES ASSUME TypeOK, SafeInv, [Next]_vars PROVE SafeInv'
  OBVIOUS
<1>1. RecordTypes
  BY TypesOfRecords
<1> HIDE DEF TypeOK
<1> USE <1>1 DEF RecordTypes, SafeInv, RecordsInv, At, CloserInv, SlotInv, PumpInv, DownInv, Declared,
                 records, engine, counters, PumpPhases, ActivePumps, Statuses, ClosedStatuses
<1>2. ASSUME NEW r \in Runs, PromptOpen(r) PROVE SafeInv'
  BY <1>2 DEF PromptOpen, Advance
<1>3. ASSUME NEW r \in Runs, PromptLogStart(r) PROVE SafeInv'
  BY <1>3 DEF PromptLogStart, Advance, RecordStart
<1>4. ASSUME NEW r \in Runs, PromptDeclare(r) PROVE SafeInv'
  BY <1>4 DEF PromptDeclare, Advance, PumpAt
<1>5. ASSUME NEW r \in Runs, PromptSpawnFails(r) PROVE SafeInv'
  BY <1>5 DEF PromptSpawnFails, Advance, Finish
<1>6. ASSUME NEW r \in Runs, PromptResume(r) PROVE SafeInv'
  BY <1>6 DEF PromptResume, Advance
<1>7. ASSUME NEW r \in Runs, PromptReject(r) PROVE SafeInv'
  BY <1>7 DEF PromptReject, Advance
<1>8. ASSUME NEW r \in Runs, PromptAck(r) PROVE SafeInv'
  BY <1>8 DEF PromptAck, Advance
<1>9. ASSUME NEW r \in Runs, PromptSendOmp(r) PROVE SafeInv'
  BY <1>9 DEF PromptSendOmp, Advance
<1>10. ASSUME NEW r \in Runs, PromptReturnOmp(r) PROVE SafeInv'
  BY <1>10 DEF PromptReturnOmp, Advance, Finish
<1>11. ASSUME NEW r \in Runs, PromptLogEnd(r) PROVE SafeInv'
  BY <1>11 DEF PromptLogEnd, Advance, RecordEnd
<1>12. CASE TurnTake
  BY <1>12 DEF TurnTake
<1>13. CASE TurnBegin
  BY <1>13 DEF TurnBegin
<1>14. CASE TurnAsk
  BY <1>14 DEF TurnAsk
<1>15. CASE TurnPark
  BY <1>15 DEF TurnPark
<1>16. CASE TurnUnpark
  BY <1>16 DEF TurnUnpark, IdleExec
<1>17. CASE TurnEnd
  BY <1>17 DEF TurnEnd
<1>18. CASE TurnRelease
  BY <1>18 DEF TurnRelease
<1>19. CASE PumpTake
  BY <1>19 DEF PumpTake, PumpAt
<1>20. CASE PumpCheck
  BY <1>20 DEF PumpCheck
<1>21. CASE PumpFinish
  BY <1>21 DEF PumpFinish, Finish
<1>22. CASE PumpLogEnd
  BY <1>22 DEF PumpLogEnd, RecordEnd
<1>23. CASE PumpClear
  BY <1>23 DEF PumpClear, PumpAt, IdleExec
<1>24. CASE Subscribe
  BY <1>24 DEF Subscribe, PumpAt
<1>25. CASE Abort
  BY <1>25 DEF Abort
<1>26. CASE Crash
  <2>1. \A r \in Runs : prompt'[r] = IF prompt[r] = "new" THEN "new" ELSE "lost"
    BY <1>26 DEF Crash
  <2>2. UNCHANGED <<turnStarts, turnEnds>> /\ ~up' /\ exec' = IdleExec /\ pump' = PumpAt("off")
        /\ \A r \in Runs : ledger'[r] \in {ledger[r], "none"}
    BY <1>26 DEF Crash
  <2>3. ASSUME NEW r \in Runs PROVE RecordsInv(r)'
    <3>1. CASE prompt[r] = "new"
      BY <2>1, <2>2, <3>1
    <3>2. CASE prompt[r] \in {"opened", "logged", "waiting", "settling", "done", "lost"}
      BY <2>1, <2>2, <3>2
    <3>3. CASE prompt[r] \in Declared
      BY <2>1, <2>2, <3>3
    <3> QED
      BY <3>1, <3>2, <3>3 DEF PromptStages
  <2>4. CloserInv' /\ SlotInv' /\ PumpInv' /\ DownInv'
    BY <2>1, <2>2 DEF IdleExec, PumpAt
  <2> QED
    BY <2>3, <2>4
<1>27. CASE Restart
  BY <1>27 DEF Restart
<1>28. CASE TurnFork \/ ForkEnds
  BY <1>28 DEF TurnFork, ForkEnds
<1>29. CASE UNCHANGED vars
  BY <1>29 DEF vars
<1> QED
  BY <1>2, <1>3, <1>4, <1>5, <1>6, <1>7, <1>8, <1>9, <1>10, <1>11, <1>12, <1>13,
     <1>14, <1>15, <1>16, <1>17, <1>18, <1>19, <1>20, <1>21, <1>22, <1>23, <1>24,
     <1>25, <1>26, <1>27, <1>28, <1>29
     DEF Next, PromptStep, TurnStep, PumpStep

\* The invariant holds before the first run.
LEMMA SafeInit == Init => SafeInv
BY DEF Init, SafeInv, RecordsInv, At, CloserInv, SlotInv, PumpInv, DownInv, Declared,
       PumpPhases, PumpAt, IdleExec

\* The inductive invariant holds in every reachable state.
THEOREM InductiveInvariant == Spec => []IInv
<1>1. Spec => [](TypeOK /\ SafeInv)
  BY TypeInit, TypeStep, SafeInit, SafeStep, PTL DEF Spec
<1>2. TypeOK /\ SafeInv => IInv
  BY DEF SafeInv, IInv
<1> QED
  BY <1>1, <1>2, PTL

-----------------------------------------------------------------------------
\* What the invariant says of the stages in which a run's prompt may be.
LEMMA RecordsOf ==
  ASSUME IInv, NEW r \in Runs
  PROVE  /\ prompt[r] \in PromptStages
         /\ RecordsInv(r)
BY DEF IInv, TypeOK

\* For any set of runs, however handler, pump and startup repair interleave,
\* the turn log keeps at most one TurnStart and one TurnEnd per run, no end
\* without a start.
THEOREM Balanced == Spec => []TurnLogBalanced
<1>1. IInv => TurnLogBalanced
  <2>1. ASSUME IInv, NEW r \in Runs
        PROVE  turnEnds[r] <= turnStarts[r] /\ turnStarts[r] <= 1
    BY <2>1, RecordsOf DEF RecordsInv, At, Declared, PromptStages
  <2> QED
    BY <2>1 DEF TurnLogBalanced
<1> QED
  BY <1>1, InductiveInvariant, PTL

\* The turn log of a living daemon never runs ahead of the ledger.
THEOREM LogBehindLedger == Spec => []LogFollowsLedger
<1>1. IInv => LogFollowsLedger
  <2>1. ASSUME IInv, NEW r \in Runs
        PROVE  turnEnds[r] > 0 /\ prompt[r] # "lost" => ledger[r] \in ClosedStatuses
    BY <2>1, RecordsOf DEF RecordsInv, At, Declared, PromptStages
  <2> QED
    BY <2>1 DEF LogFollowsLedger
<1> QED
  BY <1>1, InductiveInvariant, PTL

\* After any number of crashes a restarted daemon finds no run of a dead
\* process open in the turn log.
THEOREM RepairCloses == Spec => []RepairClosesLog
<1>1. IInv => RepairClosesLog
  <2>1. ASSUME IInv, NEW r \in Runs
        PROVE  up /\ prompt[r] = "lost" => turnEnds[r] = turnStarts[r]
    BY <2>1, RecordsOf DEF RecordsInv, At
  <2> QED
    BY <2>1 DEF RepairClosesLog
<1> QED
  BY <1>1, InductiveInvariant, PTL
-----------------------------------------------------------------------------
(* The two durable records implement RunBook.                              *)

\* The stage of a run's records, before and after a step.
LEMMA StageValues ==
  ASSUME NEW r \in Runs
  PROVE  /\ At(r, {"none"}, 0, 0) => Stage(r) = "unseen"
         /\ At(r, {"open"}, 0, 0) => Stage(r) = "opened"
         /\ At(r, {"open"}, 1, 0) => Stage(r) = "started"
         /\ At(r, ClosedStatuses, 1, 0) => Stage(r) = "settled"
         /\ At(r, ClosedStatuses, 1, 1) => Stage(r) = "ended"
         /\ At(r, {"open"}, 1, 1) => Stage(r) = "orphaned"
         /\ At(r, {"none"}, 1, 0) => Stage(r) = "erased"
         /\ At(r, {"none"}, 1, 1) => Stage(r) = "forgotten"
BY DEF At, Stage, ClosedStatuses

\* The stages of the next state.
LEMMA StageValuesNext ==
  ASSUME NEW r \in Runs
  PROVE  /\ At(r, {"open"}, 0, 0)' => Stage(r)' = "opened"
         /\ At(r, {"open"}, 1, 0)' => Stage(r)' = "started"
         /\ At(r, ClosedStatuses, 1, 0)' => Stage(r)' = "settled"
         /\ At(r, ClosedStatuses, 1, 1)' => Stage(r)' = "ended"
         /\ At(r, {"open"}, 1, 1)' => Stage(r)' = "orphaned"
         /\ At(r, {"none"}, 0, 0)' => Stage(r)' = "unseen"
         /\ At(r, {"none"}, 1, 0)' => Stage(r)' = "erased"
         /\ At(r, {"none"}, 1, 1)' => Stage(r)' = "forgotten"
BY DEF At, Stage, ClosedStatuses

\* A run that is left alone keeps its stage.
LEMMA StageKept ==
  ASSUME NEW r \in Runs,
         ledger'[r] = ledger[r], turnStarts'[r] = turnStarts[r], turnEnds'[r] = turnEnds[r]
  PROVE  Stage(r)' = Stage(r)
BY DEF Stage

\* A step that touches the records of one run only is a move of its book.
LEMMA BookMove ==
  ASSUME NEW r \in Runs, NEW from, NEW to, up, up' = up,
         Stage(r) = from, Stage(r)' = to,
         \A q \in Runs \ {r} : /\ ledger'[q] = ledger[q]
                              /\ turnStarts'[q] = turnStarts[q]
                              /\ turnEnds'[q] = turnEnds[q]
  PROVE  Book!Move(r, from, to)
<1>1. \A q \in Runs \ {r} : Stage(q)' = Stage(q)
  BY StageKept
<1>2. [q \in Runs |-> Stage(q)'] = [[q \in Runs |-> Stage(q)] EXCEPT ![r] = to]
  BY <1>1
<1> QED
  BY <1>2 DEF Book!Move

\* The first state is one of the book's.
LEMMA BookInit == Init => Book!Init
<1> SUFFICES ASSUME Init PROVE Book!Init
  OBVIOUS
<1>1. \A r \in Runs : Stage(r) = "unseen"
  BY StageValues DEF Init, At
<1> QED
  BY <1>1 DEF Book!Init, Init

\* Every step of the daemon is a step of the book, or none of its own.
LEMMA BookStep == IInv /\ [Next]_vars => [Book!Next]_Book!vars
<1> SUFFICES ASSUME IInv, [Next]_vars PROVE [Book!Next]_Book!vars
  OBVIOUS
<1>0. TypeOK /\ RecordTypes
  BY TypesOfRecords DEF IInv
<1>1. ASSUME UNCHANGED <<up, records>> PROVE UNCHANGED Book!vars
  BY <1>1, StageKept DEF Book!vars, records
<1>2. ASSUME NEW r \in Runs, PromptOpen(r) PROVE Book!Open(r)
  <2>1. At(r, {"none"}, 0, 0) /\ At(r, {"open"}, 0, 0)'
    BY <1>0, <1>2, RecordsOf DEF PromptOpen, Advance, RecordsInv, At, RecordTypes
  <2> QED
    BY <1>0, <1>2, <2>1, StageValues, StageValuesNext, BookMove
       DEF PromptOpen, Advance, Book!Open, RecordTypes
<1>3. ASSUME NEW r \in Runs, PromptLogStart(r) PROVE Book!Start(r)
  <2>1. At(r, {"open"}, 0, 0) /\ At(r, {"open"}, 1, 0)'
    BY <1>0, <1>3, RecordsOf DEF PromptLogStart, Advance, RecordStart, RecordsInv, At, RecordTypes
  <2> QED
    BY <1>0, <1>3, <2>1, StageValues, StageValuesNext, BookMove
       DEF PromptLogStart, Advance, RecordStart, Book!Start, RecordTypes
<1>4. ASSUME NEW r \in Runs, PromptSpawnFails(r) \/ PromptReturnOmp(r) PROVE Book!Settle(r)
  <2>1. PICK status \in ClosedStatuses : Finish(r, status)
    BY <1>4 DEF PromptSpawnFails, PromptReturnOmp, ClosedStatuses
  <2>2. up /\ up' = up /\ UNCHANGED <<turnStarts, turnEnds>>
    BY <1>4 DEF PromptSpawnFails, PromptReturnOmp, Advance
  <2>3. At(r, {"open"}, 1, 0)
    BY <1>4, RecordsOf DEF PromptSpawnFails, PromptReturnOmp, Advance, RecordsInv
  <2>4. At(r, ClosedStatuses, 1, 0)'
    BY <1>0, <2>1, <2>2, <2>3 DEF Finish, At, RecordTypes
  <2> QED
    BY <1>0, <2>1, <2>2, <2>3, <2>4, StageValues, StageValuesNext, BookMove
       DEF Finish, Book!Settle, RecordTypes
<1>5. ASSUME NEW r \in Runs, PromptLogEnd(r) PROVE Book!End(r)
  <2>1. At(r, ClosedStatuses, 1, 0) /\ At(r, ClosedStatuses, 1, 1)'
    BY <1>0, <1>5, RecordsOf DEF PromptLogEnd, Advance, RecordEnd, RecordsInv, At, RecordTypes
  <2> QED
    BY <1>0, <1>5, <2>1, StageValues, StageValuesNext, BookMove
       DEF PromptLogEnd, Advance, RecordEnd, Book!End, RecordTypes
<1>6. CASE PumpFinish
  <2>1. pump \in ActivePumps /\ At(pump.run, {"open"}, 1, 0)
    BY <1>0, <1>6 DEF PumpFinish, RecordTypes, PumpPhases, IInv, PumpInv
  <2>2. up /\ up' = up /\ UNCHANGED <<turnStarts, turnEnds>> /\ Finish(pump.run, pump.status)
    BY <1>6 DEF PumpFinish
  <2>3. pump.run \in Runs /\ pump.status \in ClosedStatuses
    BY <2>1 DEF ActivePumps
  <2> DEFINE r == pump.run
  <2>4. ledger'[r] \in ClosedStatuses /\ turnStarts'[r] = 1 /\ turnEnds'[r] = 0
    BY <1>0, <2>1, <2>2, <2>3 DEF Finish, At, RecordTypes
  <2>5. Stage(r) = "started"
    BY <2>1, <2>3, StageValues
  <2>6. \A q \in Runs : q = r => Stage(q)' = "settled"
    BY <2>4 DEF Stage, ClosedStatuses
  <2>7. Book!Settle(r)
    BY <1>0, <2>2, <2>3, <2>5, <2>6, StageKept DEF Finish, Book!Settle, Book!Move, RecordTypes
  <2> QED
    BY <2>3, <2>7 DEF Book!Next
<1>7. CASE PumpLogEnd
  <2>1. pump \in ActivePumps /\ At(pump.run, ClosedStatuses, 1, 0)
    BY <1>0, <1>7 DEF PumpLogEnd, RecordTypes, PumpPhases, IInv, PumpInv
  <2>2. up /\ up' = up /\ UNCHANGED <<ledger, turnStarts>> /\ RecordEnd(pump.run)
    BY <1>7 DEF PumpLogEnd
  <2>3. pump.run \in Runs
    BY <2>1 DEF ActivePumps
  <2> DEFINE r == pump.run
  <2>4. ledger'[r] \in ClosedStatuses /\ turnStarts'[r] = 1 /\ turnEnds'[r] = 1
    BY <1>0, <2>1, <2>2, <2>3 DEF RecordEnd, At, RecordTypes
  <2>5. Stage(r) = "settled"
    BY <2>1, <2>3, StageValues
  <2>6. \A q \in Runs : q = r => Stage(q)' = "ended"
    BY <2>4 DEF Stage, ClosedStatuses
  <2>7. Book!End(r)
    BY <1>0, <2>2, <2>3, <2>5, <2>6, StageKept DEF RecordEnd, Book!End, Book!Move, RecordTypes
  <2> QED
    BY <2>3, <2>7 DEF Book!Next
<1>8. CASE Crash
  <2>1. PICK kept \in 0..Len(rows) :
          ledger' = [r \in Runs |-> IF \E i \in 1..kept : rows[i] = r THEN ledger[r] ELSE "none"]
    BY <1>8 DEF Crash
  <2>2. up /\ ~up' /\ up' = FALSE /\ UNCHANGED <<turnStarts, turnEnds>>
    BY <1>8 DEF Crash
  <2> DEFINE gone == {r \in Runs : ~\E i \in 1..kept : rows[i] = r}
  <2>3. ASSUME NEW r \in Runs, r \notin gone PROVE Stage(r)' = Stage(r)
    BY <2>1, <2>2, <2>3, StageKept
  <2>4. ASSUME NEW r \in Runs, r \in gone PROVE Stage(r)' = Book!Lost(Stage(r))
    <3>1. ledger'[r] = "none" /\ turnStarts'[r] = turnStarts[r] /\ turnEnds'[r] = turnEnds[r]
      BY <2>1, <2>2, <2>4
    <3>2. \/ At(r, {"none", "open"}, 0, 0) \/ At(r, {"none"}, 1, 0) \/ At(r, {"open"}, 1, 0)
          \/ At(r, ClosedStatuses, 1, 0)
          \/ At(r, {"none"}, 1, 1) \/ At(r, {"open"}, 1, 1) \/ At(r, ClosedStatuses, 1, 1)
      BY RecordsOf DEF RecordsInv, At, PromptStages, Declared, Statuses
    <3>3. CASE At(r, {"none", "open"}, 0, 0)
      <4>1. Stage(r) \in {"unseen", "opened"} /\ Stage(r)' = "unseen"
        BY <3>1, <3>3, StageValues, StageValuesNext DEF At
      <4> QED
        BY <4>1 DEF Book!Lost
    <3>4. CASE At(r, {"none"}, 1, 0) \/ At(r, {"open"}, 1, 0) \/ At(r, ClosedStatuses, 1, 0)
      <4>1. Stage(r) \in {"erased", "started", "settled"} /\ Stage(r)' = "erased"
        BY <3>1, <3>4, StageValues, StageValuesNext DEF At
      <4> QED
        BY <4>1 DEF Book!Lost
    <3>5. CASE At(r, {"none"}, 1, 1) \/ At(r, {"open"}, 1, 1) \/ At(r, ClosedStatuses, 1, 1)
      <4>1. Stage(r) \in {"forgotten", "orphaned", "ended"} /\ Stage(r)' = "forgotten"
        BY <3>1, <3>5, StageValues, StageValuesNext DEF At
      <4> QED
        BY <4>1 DEF Book!Lost
    <3> QED
      BY <3>2, <3>3, <3>4, <3>5
  <2>5. gone \in SUBSET Runs
    OBVIOUS
  <2> HIDE DEF gone
  <2>6. Book!Crash
    BY <2>2, <2>3, <2>4, <2>5 DEF Book!Crash
  <2> QED
    BY <2>6 DEF Book!Next
<1>9. CASE Restart
  <2>1. ASSUME NEW r \in Runs PROVE Stage(r)' = Book!Repaired(Stage(r))
    <3>1. ~up /\ UNCHANGED <<ledger, turnStarts>>
          /\ turnEnds'[r] = IF turnEnds[r] < turnStarts[r] THEN turnStarts[r] ELSE turnEnds[r]
      BY <1>9 DEF Restart
    <3>2. prompt[r] \in {"new", "lost"} /\ RecordsInv(r)
      BY <3>1, RecordsOf DEF IInv, DownInv
    <3>3. \/ At(r, {"none"}, 0, 0) \/ At(r, {"open"}, 0, 0) \/ At(r, {"open"}, 1, 0)
          \/ At(r, ClosedStatuses, 1, 0) \/ At(r, {"open"}, 1, 1) \/ At(r, ClosedStatuses, 1, 1)
          \/ At(r, {"none"}, 1, 0) \/ At(r, {"none"}, 1, 1)
      BY <3>2 DEF RecordsInv, At, Statuses
    <3>4. CASE At(r, {"none"}, 0, 0) \/ At(r, {"open"}, 0, 0) \/ At(r, {"open"}, 1, 1)
               \/ At(r, ClosedStatuses, 1, 1) \/ At(r, {"none"}, 1, 1)
      <4>1. Stage(r)' = Stage(r)
        BY <3>1, <3>4, StageKept DEF At
      <4>2. Stage(r) \in {"unseen", "opened", "orphaned", "ended", "forgotten"}
        BY <3>4, StageValues
      <4> QED
        BY <4>1, <4>2 DEF Book!Repaired
    <3>5. CASE At(r, {"open"}, 1, 0)
      <4>1. At(r, {"open"}, 1, 1)'
        BY <3>1, <3>5 DEF At
      <4> QED
        BY <3>5, <4>1, StageValues, StageValuesNext DEF Book!Repaired
    <3>6. CASE At(r, ClosedStatuses, 1, 0)
      <4>1. At(r, ClosedStatuses, 1, 1)'
        BY <3>1, <3>6 DEF At
      <4> QED
        BY <3>6, <4>1, StageValues, StageValuesNext DEF Book!Repaired
    <3>7. CASE At(r, {"none"}, 1, 0)
      <4>1. At(r, {"none"}, 1, 1)'
        BY <3>1, <3>7 DEF At
      <4> QED
        BY <3>7, <4>1, StageValues, StageValuesNext DEF Book!Repaired
    <3> QED
      BY <3>3, <3>4, <3>5, <3>6, <3>7
  <2>2. ~up /\ up' = TRUE
    BY <1>9 DEF Restart
  <2> QED
    BY <2>1, <2>2 DEF Book!Next, Book!Restart
<1>10. CASE \/ TurnStep \/ Subscribe \/ Abort \/ TurnFork \/ ForkEnds \/ PumpTake \/ PumpCheck \/ PumpClear
            \/ \E r \in Runs : \/ PromptDeclare(r) \/ PromptResume(r) \/ PromptReject(r)
                              \/ PromptAck(r) \/ PromptSendOmp(r)
  BY <1>1, <1>10 DEF TurnStep, TurnTake, TurnBegin, TurnAsk, TurnPark, TurnUnpark, TurnEnd,
     TurnRelease, Subscribe, Abort, TurnFork, ForkEnds, PumpTake, PumpCheck, PumpClear, PromptDeclare,
     PromptResume, PromptReject, PromptAck, PromptSendOmp, Advance
<1>11. CASE UNCHANGED vars
  BY <1>1, <1>11 DEF vars
<1> QED
  BY <1>2, <1>3, <1>4, <1>5, <1>6, <1>7, <1>8, <1>9, <1>10, <1>11
     DEF Next, PromptStep, PumpStep, Book!Next

\* Ledger and turn log only ever move in the order RunBook allows: open,
\* TurnStart, settle, TurnEnd, with the repair of a restart as the only
\* shortcut, for any number of runs, crashes and aborts.
THEOREM Refinement == Spec => RecordsInOrder
<1>1. Spec => Book!Init /\ [][Book!Next]_Book!vars
  BY InductiveInvariant, BookInit, BookStep, PTL DEF Spec
<1> QED
  BY <1>1 DEF RecordsInOrder, Book!Spec
-----------------------------------------------------------------------------
(* Clients that take turns.                                                *)

\* A turn that has the context lock or is about to take it, and a close that
\* the pump has begun and not yet entered in the ledger.
Working == turn.phase \in {"taken", "running", "asking", "parked"}
Closing == pump.phase \in {"check", "finish"}

\* A run that is in flight and whose message the run thread was given.
Given(r) == prompt[r] = "acked" /\ InFlight(r)

\* Where a run in flight may be: queued, in its turn, in its AgentEnd, in the
\* pump's hands; in one place at a time.
Places == Len(queue) + Len(events) + (IF Working THEN 1 ELSE 0) + (IF Closing THEN 1 ELSE 0)

\* One run is in flight at most, the slot is its own from its declaration on,
\* and whatever is queued, at work, announced or being closed is this run.
SerialInv ==
  /\ \A q, r \in Runs : InFlight(q) /\ InFlight(r) => q = r
  /\ \A r \in Runs : InFlight(r) /\ exec.status = "Running"
                       => exec.run = r \/ prompt[r] \in {"opened", "logged"}
  /\ \A r \in Runs : prompt[r] \in {"declared", "resumed"} => ledger[r] = "open"
  /\ \A i \in 1..Len(queue) : Given(queue[i])
  /\ Working => Given(turn.run)
  /\ \A i \in 1..Len(events) : Given(events[i].of)
  /\ Closing => Given(pump.run) /\ pump.of = pump.run
  /\ Places <= 1

\* The handle lock is held by the request in progress.
HandleInv ==
  \A r \in Runs : prompt[r] \in {"opened", "logged", "declared", "resumed", "waiting", "settling"}
                    => handle = r

\* What the daemon is when nothing crashes, parks or is malformed.
CalmInv ==
  /\ up
  /\ turn.phase \notin {"asking", "parked"}
  /\ \A r \in Runs : prompt[r] \notin {"rejected", "lost"}

\* An open run is in a request or in one of the places, its slot its own.
ServedInv ==
  /\ \A r \in Runs : ledger[r] = "open" =>
       prompt[r] \in {"opened", "logged", "declared", "resumed", "acked", "waiting"}
  /\ ~Orbit => \A r \in Runs : prompt[r] # "acked"
  /\ Orbit => /\ \A r \in Runs : Given(r) => Places = 1
              /\ \A r \in Runs : InFlight(r) /\ prompt[r] \in {"declared", "resumed", "acked"}
                                   => exec = [status |-> "Running", run |-> r]
              /\ pump.phase \in {"log", "clear"} => ledger[pump.run] # "open"

\* Everything in one of the places is a run.
LEMMA PlacesHoldRuns ==
  ASSUME TypeOK
  PROVE  /\ Working => turn.run \in Runs
         /\ Closing => pump.run \in Runs
         /\ \A i \in 1..Len(queue) : queue[i] \in Runs
         /\ \A i \in 1..Len(events) : events[i].of \in Runs
         /\ Len(queue) \in Nat /\ Len(events) \in Nat
<1>1. Working => turn.run \in Runs
  BY DEF TypeOK, Turns, NoTurn, ActiveTurns, Working
<1>2. Closing => pump.run \in Runs
  BY DEF TypeOK, Pumps, PumpAt, ActivePumps, Closing
<1>3. \A i \in 1..Len(queue) : queue[i] \in Runs
  BY DEF TypeOK
<1>4. \A i \in 1..Len(events) : events[i] \in AgentEnds
  BY DEF TypeOK
<1>5. \A i \in 1..Len(events) : events[i].of \in Runs
  BY <1>4 DEF AgentEnds
<1>6. Len(queue) \in Nat /\ Len(events) \in Nat
  BY DEF TypeOK
<1> QED
  BY <1>1, <1>2, <1>3, <1>5, <1>6

\* While the engine was given nothing every place is empty.
LEMMA NothingGiven ==
  ASSUME TypeOK, SerialInv, \A r \in Runs : ~Given(r)
  PROVE  queue = <<>> /\ events = <<>> /\ ~Working /\ ~Closing
<1>1. ~Working /\ ~Closing
  BY PlacesHoldRuns DEF SerialInv
<1>2. Len(queue) = 0
  <2>1. SUFFICES ASSUME Len(queue) # 0 PROVE FALSE
    OBVIOUS
  <2>2. 1 \in 1..Len(queue)
    BY <2>1, PlacesHoldRuns
  <2> QED
    BY <2>2, PlacesHoldRuns DEF SerialInv
<1>3. Len(events) = 0
  <2>1. SUFFICES ASSUME Len(events) # 0 PROVE FALSE
    OBVIOUS
  <2>2. 1 \in 1..Len(events)
    BY <2>1, PlacesHoldRuns
  <2> QED
    BY <2>2, PlacesHoldRuns DEF SerialInv
<1> QED
  BY <1>1, <1>2, <1>3 DEF TypeOK

\* A step that moves no message and settles nothing keeps all of it.
LEMMA NothingMoves ==
  ASSUME TypeOK, SerialInv, UNCHANGED <<queue, events, pump>>,
         Working' = Working, Working => turn'.run = turn.run,
         \A r \in Runs : InFlight(r)' => InFlight(r),
         \A r \in Runs : Given(r) => Given(r)',
         \A r \in Runs : InFlight(r)' /\ exec'.status = "Running"
                           => exec'.run = r \/ prompt'[r] \in {"opened", "logged"},
         \A r \in Runs : prompt'[r] \in {"declared", "resumed"} => ledger'[r] = "open"
  PROVE  SerialInv'
<1>1. Places' = Places /\ Closing' = Closing
  BY DEF Places, Closing
<1> QED
  BY <1>1, PlacesHoldRuns DEF SerialInv

\* A request that goes on leaves the runs the engine was given as they are.
LEMMA RequestGoesOn ==
  ASSUME TypeOK, SafeInv, SerialInv, NEW r \in Runs, PromptStep(r), ~PromptAck(r)
  PROVE  SerialInv'
<1>1. RecordTypes
  BY TypesOfRecords
<1>2. UNCHANGED <<queue, events, turn>> /\ prompt[r] # "acked"
      /\ \E stage \in PromptStages \ {"new", "opened", "acked"} :
            prompt' = [prompt EXCEPT ![r] = stage]
  BY DEF PromptStep, PromptLogStart, PromptDeclare, PromptSpawnFails, PromptResume, PromptReject,
     PromptAck, PromptSendOmp, PromptReturnOmp, PromptLogEnd, Advance, engine, PromptStages
<1>3. prompt[r] \notin {"new", "rejected", "lost"}
  BY DEF PromptStep, PromptLogStart, PromptDeclare, PromptSpawnFails, PromptResume, PromptReject,
     PromptAck, PromptSendOmp, PromptReturnOmp, PromptLogEnd, Advance
<1>4. \A q \in Runs : ledger'[q] # ledger[q] => q = r /\ ledger'[q] # "open"
  BY <1>1 DEF PromptStep, PromptLogStart, PromptDeclare, PromptSpawnFails, PromptResume, PromptReject,
     PromptAck, PromptSendOmp, PromptReturnOmp, PromptLogEnd, Finish, records, RecordTypes
<1>5. \A q \in Runs : InFlight(q)' => InFlight(q)
  BY <1>1, <1>2, <1>3, <1>4 DEF InFlight, RecordTypes
<1>6. \A q \in Runs : Given(q) => Given(q)'
  BY <1>1, <1>2, <1>4 DEF Given, InFlight, RecordTypes
<1>7. Working' = Working /\ Places' = Places /\ Closing' = Closing
      /\ (Closing => pump' = pump)
  BY <1>2 DEF Places, Working, Closing, PromptStep, PromptLogStart, PromptDeclare, PromptSpawnFails,
     PromptResume, PromptReject, PromptAck, PromptSendOmp, PromptReturnOmp, PromptLogEnd, PumpAt
<1>8. \A q \in Runs : InFlight(q)' /\ exec'.status = "Running"
                        => exec'.run = q \/ prompt'[q] \in {"opened", "logged"}
  <2>1. CASE PromptDeclare(r)
    <3>1. InFlight(r) /\ exec'.run = r
      BY <1>3, <2>1 DEF PromptDeclare, Advance, InFlight, SafeInv, RecordsInv, At
    <3> QED
      BY <1>5, <3>1 DEF SerialInv
  <2>2. CASE ~PromptDeclare(r)
    <3>1. exec' = exec
      BY <2>2 DEF PromptStep, PromptLogStart, PromptSpawnFails, PromptResume, PromptReject,
         PromptAck, PromptSendOmp, PromptReturnOmp, PromptLogEnd
    <3>2. \A q \in Runs : prompt[q] \in {"opened", "logged"} /\ InFlight(q)'
                            => prompt'[q] \in {"opened", "logged"}
      BY <1>1, <2>2 DEF PromptStep, PromptLogStart, PromptSpawnFails, PromptResume, PromptReject,
         PromptAck, PromptSendOmp, PromptReturnOmp, PromptLogEnd, Advance, Finish, InFlight,
         RecordTypes, ClosedStatuses
    <3> QED
      BY <1>5, <3>1, <3>2 DEF SerialInv
  <2> QED
    BY <2>1, <2>2
<1>9. \A q \in Runs : prompt'[q] \in {"declared", "resumed"} => ledger'[q] = "open"
  BY <1>1 DEF PromptStep, PromptLogStart, PromptDeclare, PromptSpawnFails, PromptResume, PromptReject,
     PromptAck, PromptSendOmp, PromptReturnOmp, PromptLogEnd, Advance, Finish, records, RecordTypes,
     SerialInv, SafeInv, RecordsInv, At
<1> QED
  BY <1>2, <1>5, <1>6, <1>7, <1>8, <1>9, PlacesHoldRuns DEF SerialInv

\* With clients that take turns every step keeps the run in flight single.
LEMMA SerialStep ==
  ASSUME ~Overlap, TypeOK, SafeInv, SerialInv, [Next]_vars
  PROVE  SerialInv'
<1> USE DEF records, engine, counters
<1>1. RecordTypes
  BY TypesOfRecords
<1>2. ASSUME NEW r \in Runs, PromptOpen(r) PROVE SerialInv'
  <2>1. \A q \in Runs : ~InFlight(q)
    BY <1>2 DEF PromptOpen
  <2>2. \A q \in Runs : InFlight(q)' => q = r /\ prompt'[q] = "opened"
    BY <1>1, <1>2, <2>1 DEF PromptOpen, Advance, InFlight, RecordTypes
  <2>3. queue = <<>> /\ events = <<>> /\ ~Working /\ ~Closing
    BY <2>1, NothingGiven DEF Given
  <2> QED
    BY <1>1, <1>2, <2>2, <2>3 DEF PromptOpen, Advance, RecordTypes, SerialInv, Places, Working, Closing
<1>3. ASSUME NEW r \in Runs, PromptStep(r), ~PromptAck(r) PROVE SerialInv'
  BY <1>3, RequestGoesOn
<1>4. ASSUME NEW r \in Runs, PromptAck(r) PROVE SerialInv'
  <2>1. prompt[r] = "resumed" /\ prompt' = [prompt EXCEPT ![r] = "acked"]
        /\ queue' = Append(queue, r) /\ UNCHANGED <<ledger, exec, events, turn, pump>>
    BY <1>4 DEF PromptAck, Advance
  <2>2. InFlight(r)
    BY <2>1 DEF SerialInv, InFlight
  <2>3. \A q \in Runs : ~Given(q)
    BY <2>1, <2>2 DEF SerialInv, Given
  <2>4. queue = <<>> /\ events = <<>> /\ ~Working /\ ~Closing
    BY <2>3, NothingGiven
  <2>5. queue' = <<r>> /\ events' = <<>> /\ ~Working' /\ ~Closing'
    BY <2>1, <2>4 DEF Working, Closing
  <2>6. Given(r)' /\ \A q \in Runs : InFlight(q)' => q = r
    BY <1>1, <2>1, <2>2 DEF Given, InFlight, SerialInv, RecordTypes
  <2>7. exec'.status = "Running" => exec'.run = r
    BY <2>1, <2>2 DEF SerialInv
  <2>8. \A q \in Runs : prompt'[q] \in {"declared", "resumed"} => ledger'[q] = "open"
    BY <1>1, <2>1 DEF SerialInv, RecordTypes
  <2>9. Places' = 1
    BY <2>5 DEF Places
  <2> QED
    BY <2>5, <2>6, <2>7, <2>8, <2>9 DEF SerialInv
<1>5. CASE TurnTake
  <2>1. queue # <<>> /\ queue' = Tail(queue) /\ turn'.run = queue[1] /\ Working' /\ ~Working
        /\ UNCHANGED <<prompt, ledger, exec, events, pump>>
    BY <1>5 DEF TurnTake, Working, TypeOK
  <2>2. Len(queue') = Len(queue) - 1 /\ \A i \in 1..Len(queue') : queue'[i] = queue[i + 1]
    BY <2>1 DEF TypeOK
  <2>3. Places' = Places /\ Closing' = Closing
    BY <2>1, <2>2, PlacesHoldRuns DEF Places, Closing
  <2>4. \A r \in Runs : (Given(r)' = Given(r)) /\ (InFlight(r)' = InFlight(r))
    BY <2>1 DEF Given, InFlight
  <2>5. 1 \in 1..Len(queue)
    BY <2>1, PlacesHoldRuns DEF TypeOK
  <2>6. \A i \in 1..Len(queue') : i + 1 \in 1..Len(queue)
    BY <2>2, PlacesHoldRuns
  <2> QED
    BY <2>1, <2>2, <2>3, <2>4, <2>5, <2>6, PlacesHoldRuns DEF SerialInv
<1>6. CASE TurnBegin \/ TurnAsk \/ TurnRelease
  <2>1. Working' = Working /\ (Working => turn'.run = turn.run)
        /\ UNCHANGED <<prompt, ledger, exec, queue, events, pump>>
    <3>1. CASE TurnBegin \/ TurnAsk
      <4>1. turn \in ActiveTurns
        BY <3>1, TurnInProgress DEF TurnBegin, TurnAsk, TypeOK
      <4>2. turn.phase \in {"taken", "running"} /\ turn'.phase \in {"running", "asking"}
            /\ turn'.run = turn.run
        BY <3>1, <4>1 DEF TurnBegin, TurnAsk, ActiveTurns
      <4> QED
        BY <3>1, <4>2 DEF TurnBegin, TurnAsk, Working
    <3>2. CASE TurnRelease
      BY <3>2 DEF TurnRelease, Working, NoTurn
    <3> QED
      BY <1>6, <3>1, <3>2
  <2> QED
    BY <2>1, NothingMoves DEF Given, InFlight, SerialInv
<1>7. CASE TurnPark \/ TurnUnpark
  <2>1. Working' = Working /\ (Working => turn'.run = turn.run) /\ exec'.status # "Running"
        /\ UNCHANGED <<prompt, ledger, queue, events, pump>>
    BY <1>7, TurnInProgress DEF TurnPark, TurnUnpark, Working, TypeOK, ActiveTurns, IdleExec
  <2> QED
    BY <2>1, NothingMoves DEF Given, InFlight, SerialInv
<1>8. CASE TurnEnd
  <2>1. PICK stop \in Stops : events' = Append(events, [of |-> turn.run, stop |-> stop])
    BY <1>8 DEF TurnEnd
  <2>2. Working /\ ~Working' /\ UNCHANGED <<prompt, ledger, exec, queue, pump>>
    BY <1>8, TurnInProgress DEF TurnEnd, Working, TypeOK, ActiveTurns
  <2>3. Len(events') = Len(events) + 1 /\ \A i \in 1..Len(events') :
          events'[i].of = IF i <= Len(events) THEN events[i].of ELSE turn.run
    <3>1. events \in Seq(AgentEnds) /\ turn.run \in Runs
      BY <2>2, PlacesHoldRuns DEF TypeOK
    <3>2. [of |-> turn.run, stop |-> stop] \in AgentEnds
      BY <2>1, <3>1 DEF AgentEnds
    <3> HIDE DEF TypeOK
    <3> QED
      BY <2>1, <3>1, <3>2
  <2>4. Places' = Places /\ Closing' = Closing
    BY <2>2, <2>3, PlacesHoldRuns DEF Places, Closing
  <2>5. \A r \in Runs : (Given(r)' = Given(r)) /\ (InFlight(r)' = InFlight(r))
    BY <2>2 DEF Given, InFlight
  <2> QED
    BY <2>2, <2>3, <2>4, <2>5, PlacesHoldRuns DEF SerialInv
<1>9. CASE PumpTake
  <2>1. events # <<>> /\ events' = Tail(events) /\ ~Closing
        /\ UNCHANGED <<prompt, ledger, exec, queue, turn>>
    BY <1>9 DEF PumpTake, Closing
  <2>2. Len(events') = Len(events) - 1 /\ \A i \in 1..Len(events') : events'[i] = events[i + 1]
    BY <2>1 DEF TypeOK
  <2>3. 1 \in 1..Len(events) /\ \A i \in 1..Len(events') : i + 1 \in 1..Len(events)
    BY <2>1, <2>2, PlacesHoldRuns DEF TypeOK
  <2>4. \A r \in Runs : (Given(r)' = Given(r)) /\ (InFlight(r)' = InFlight(r))
    BY <2>1 DEF Given, InFlight
  <2>5. Closing' => pump'.of = events[1].of /\ pump'.run = exec.run /\ exec.status = "Running"
    BY <1>9 DEF PumpTake, PumpAt, Closing
  <2>6. Given(events[1].of) /\ events[1].of \in Runs
    BY <2>3, PlacesHoldRuns DEF SerialInv
  <2>7. Closing' => pump'.run = pump'.of /\ Given(pump'.run)
    BY <2>5, <2>6 DEF SerialInv, Given
  <2>8. Working' = Working /\ Places' <= Places
    BY <2>1, <2>2, PlacesHoldRuns DEF Places, Working
  <2>9. Places' <= 1
    BY <2>8, PlacesHoldRuns DEF Places, SerialInv
  <2>10. (\A i \in 1..Len(events) : Given(events[i].of))'
    BY <2>2, <2>3, <2>4, PlacesHoldRuns DEF SerialInv
  <2>11. (Closing => Given(pump.run) /\ pump.of = pump.run)'
    BY <2>4, <2>5, <2>6, <2>7
  <2>12. (Working => Given(turn.run))' /\ (\A i \in 1..Len(queue) : Given(queue[i]))'
    BY <2>1, <2>4, <2>8, PlacesHoldRuns DEF SerialInv
  <2> QED
    BY <2>1, <2>4, <2>8, <2>9, <2>10, <2>11, <2>12 DEF SerialInv
<1>10. CASE PumpCheck
  <2>1. pump \in ActivePumps /\ Closing
    BY <1>10, PumpInProgress DEF PumpCheck, Closing, TypeOK, PumpPhases
  <2>2. ledger[pump.run] = "open"
    BY <2>1 DEF SerialInv, Given, InFlight
  <2>3. Closing' /\ pump'.run = pump.run /\ pump'.of = pump.of
        /\ UNCHANGED <<prompt, ledger, exec, queue, events, turn>>
    BY <1>10, <2>1, <2>2 DEF PumpCheck, Closing, ActivePumps
  <2>4. Places' = Places /\ Working' = Working
    BY <2>1, <2>3 DEF Places, Working
  <2>5. \A r \in Runs : (Given(r)' = Given(r)) /\ (InFlight(r)' = InFlight(r))
    BY <2>3 DEF Given, InFlight
  <2> QED
    BY <2>1, <2>3, <2>4, <2>5, PlacesHoldRuns DEF SerialInv
<1>11. CASE PumpFinish
  <2>1. pump \in ActivePumps /\ Closing /\ ~Closing'
    BY <1>11, PumpInProgress DEF PumpFinish, Closing, TypeOK, PumpPhases, ActivePumps
  <2>2. InFlight(pump.run) /\ pump.run \in Runs
    BY <2>1 DEF SerialInv, Given, ActivePumps
  <2>3. \A r \in Runs : ~InFlight(r)'
    BY <1>1, <1>11, <2>1, <2>2 DEF PumpFinish, Finish, InFlight, SerialInv, RecordTypes, ActivePumps,
       ClosedStatuses
  <2>4. Len(queue) = 0 /\ Len(events) = 0 /\ ~Working
    BY <2>1, PlacesHoldRuns DEF SerialInv, Places
  <2>5. UNCHANGED <<queue, events, turn>>
    BY <1>11 DEF PumpFinish
  <2>6. Len(queue') = 0 /\ Len(events') = 0 /\ ~Working' /\ Places' = 0
    BY <2>1, <2>4, <2>5 DEF Places, Working
  <2>7. \A r \in Runs : prompt'[r] \in {"declared", "resumed"} => ledger'[r] = "open"
    BY <1>1, <1>11, <2>1 DEF PumpFinish, Finish, SerialInv, Given, RecordTypes, ActivePumps
  <2> QED
    BY <2>1, <2>3, <2>6, <2>7 DEF SerialInv
<1>12. CASE PumpLogEnd
  <2>1. ~Closing /\ ~Closing' /\ UNCHANGED <<prompt, ledger, exec, queue, events, turn>>
    BY <1>12, PumpInProgress DEF PumpLogEnd, Closing, TypeOK, PumpPhases, ActivePumps
  <2>2. Places' = Places /\ Working' = Working
    BY <2>1 DEF Places, Working
  <2>3. \A r \in Runs : (Given(r)' = Given(r)) /\ (InFlight(r)' = InFlight(r))
    BY <2>1 DEF Given, InFlight
  <2> QED
    BY <2>1, <2>2, <2>3, PlacesHoldRuns DEF SerialInv
<1>13. CASE PumpClear \/ Subscribe
  <2>1. ~Closing /\ ~Closing' /\ UNCHANGED <<prompt, ledger, queue, events, turn>>
    BY <1>13 DEF PumpClear, Subscribe, Closing, PumpAt
  <2>2. Places' = Places /\ Working' = Working
    BY <2>1 DEF Places, Working
  <2>3. \A r \in Runs : (Given(r)' = Given(r)) /\ (InFlight(r)' = InFlight(r))
    BY <2>1 DEF Given, InFlight
  <2>4. exec' = exec \/ exec'.status # "Running"
    BY <1>13 DEF PumpClear, Subscribe, IdleExec
  <2> QED
    BY <2>1, <2>2, <2>3, <2>4, PlacesHoldRuns DEF SerialInv
<1>14. CASE Abort \/ TurnFork \/ ForkEnds \/ Restart \/ UNCHANGED vars
  <2>1. UNCHANGED <<prompt, ledger, exec, queue, events, turn, pump>>
    BY <1>14 DEF Abort, TurnFork, ForkEnds, Restart, vars
  <2> QED
    BY <2>1, NothingMoves DEF Given, InFlight, SerialInv, Working
<1>15. CASE Crash
  <2>1. \A r \in Runs : ~InFlight(r)'
    BY <1>1, <1>15 DEF Crash, InFlight, RecordTypes, SafeInv, RecordsInv, At
  <2>2. queue' = <<>> /\ events' = <<>> /\ ~Working' /\ ~Closing'
    BY <1>15 DEF Crash, Working, Closing, NoTurn, PumpAt
  <2>3. \A r \in Runs : prompt'[r] \notin {"declared", "resumed"}
    BY <1>15 DEF Crash
  <2> QED
    BY <2>1, <2>2, <2>3 DEF SerialInv, Places
<1> QED
  BY <1>2, <1>3, <1>4, <1>5, <1>6, <1>7, <1>8, <1>9, <1>10, <1>11, <1>12, <1>13, <1>14, <1>15
     DEF Next, TurnStep, PumpStep

\* Before the first run nothing is in flight.
LEMMA SerialInit == Init => SerialInv
BY DEF Init, SerialInv, InFlight, Given, Places, Working, Closing, NoTurn, PumpAt

\* With clients that wait for a run to close before the next prompt, the
\* AgentEnd of a turn settles the run of that turn and no other, for any
\* number of runs, reviews, malformed prompts, aborts and crashes: the pump's
\* attribution by the slot is right because one run is in flight.
THEOREM OwnEnds == ASSUME ~Overlap PROVE Spec => EndClosesItsOwnRun
<1>1. SerialInv /\ TypeOK /\ SafeInv /\ [Next]_vars => SerialInv'
  BY SerialStep
<1>2. TypeOK /\ SafeInv /\ SerialInv /\ [Next]_vars =>
        [\A r \in Runs : pump.phase = "finish" /\ up' /\ ledger'[r] # ledger[r] => r = pump.of]_vars
  <2> SUFFICES ASSUME TypeOK, SafeInv, SerialInv, Next, NEW r \in Runs,
                      pump.phase = "finish", up', ledger'[r] # ledger[r]
               PROVE  r = pump.of
    BY DEF vars
  <2>1. RecordTypes /\ pump \in ActivePumps
    BY TypesOfRecords, PumpInProgress DEF TypeOK, PumpPhases
  <2>2. Orbit
    BY DEF SafeInv, CloserInv
  <2>3. InFlight(pump.run) /\ pump.of = pump.run /\ pump.run \in Runs
    BY <2>1 DEF SerialInv, Closing, Given, ActivePumps
  <2>4. ASSUME NEW q \in Runs, PromptOpen(q) PROVE FALSE
    BY <2>3, <2>4 DEF PromptOpen
  <2>5. ASSUME NEW q \in Runs, PromptStep(q) PROVE FALSE
    BY <2>2, <2>5 DEF PromptStep, PromptLogStart, PromptDeclare, PromptSpawnFails, PromptResume,
       PromptReject, PromptAck, PromptSendOmp, PromptReturnOmp, PromptLogEnd, Advance, Finish,
       records, SafeInv, CloserInv
  <2>6. CASE PumpFinish
    BY <2>1, <2>3, <2>6 DEF PumpFinish, Finish, RecordTypes
  <2>7. CASE TurnStep \/ Subscribe \/ Abort \/ TurnFork \/ ForkEnds \/ Crash \/ Restart
             \/ PumpTake \/ PumpCheck \/ PumpLogEnd \/ PumpClear
    BY <2>7 DEF TurnStep, TurnTake, TurnBegin, TurnAsk, TurnPark, TurnUnpark, TurnEnd, TurnRelease,
       Subscribe, Abort, TurnFork, ForkEnds, Crash, Restart, PumpTake, PumpCheck, PumpLogEnd, PumpClear, records
  <2> QED
    BY <2>4, <2>5, <2>6, <2>7 DEF Next, PumpStep
<1> QED
  BY <1>1, <1>2, TypeInit, TypeStep, SafeInit, SafeStep, SerialInit, PTL
     DEF Spec, EndClosesItsOwnRun

\* Environments in which nothing but the prompts themselves opens and closes
\* runs: no malformed prompt, no review and no crash, and with the orbit engine
\* clients that take turns.
Serves ==
  /\ ~BadAttachments /\ MaxReviews = 0 /\ MaxCrashes = 0
  /\ Orbit => ~Overlap

\* A step keeps the handle lock with the request in progress.
LEMMA HandleStep == TypeOK /\ HandleInv /\ [Next]_vars => HandleInv'
<1> SUFFICES ASSUME TypeOK, HandleInv, [Next]_vars PROVE HandleInv'
  OBVIOUS
<1>1. prompt \in [Runs -> PromptStages] /\ NoRun \notin Runs
  BY RunAssumption DEF TypeOK
<1>2. ASSUME NEW r \in Runs, PromptOpen(r) \/ PromptStep(r) PROVE HandleInv'
  BY <1>1, <1>2 DEF HandleInv, PromptOpen, PromptStep, PromptLogStart, PromptDeclare,
     PromptSpawnFails, PromptResume, PromptReject, PromptAck, PromptSendOmp, PromptReturnOmp,
     PromptLogEnd, Advance
<1>3. CASE TurnStep \/ PumpStep \/ Subscribe \/ Abort \/ TurnFork \/ ForkEnds \/ Restart \/ UNCHANGED vars
  BY <1>3 DEF HandleInv, TurnStep, TurnTake, TurnBegin, TurnAsk, TurnPark, TurnUnpark, TurnEnd,
     TurnRelease, Subscribe, Abort, TurnFork, ForkEnds, Restart, PumpStep, PumpTake, PumpCheck, PumpFinish, PumpLogEnd,
     PumpClear, vars
<1>4. CASE Crash
  BY <1>4 DEF HandleInv, Crash
<1> QED
  BY <1>2, <1>3, <1>4 DEF Next

\* Without reviews, malformed prompts and crashes the daemon stays calm.
LEMMA CalmStep ==
  ASSUME Serves, TypeOK, CalmInv, [Next]_vars
  PROVE  CalmInv' /\ ~Crash /\ ~Restart /\ ~TurnAsk /\ ~TurnPark /\ ~TurnUnpark
         /\ \A r \in Runs : ~PromptReject(r)
<1>1. ~Crash /\ ~Restart
  BY DEF Serves, CalmInv, Crash, Restart, TypeOK
<1>2. ~TurnPark /\ ~TurnUnpark /\ \A r \in Runs : ~PromptReject(r)
  BY DEF Serves, CalmInv, TurnPark, TurnUnpark, PromptReject
<1>3. ~TurnAsk
  <2>1. turn.phase # "none" => turn.reviews \in Nat
    BY TurnInProgress DEF TypeOK, ActiveTurns
  <2> QED
    BY <2>1 DEF Serves, TurnAsk
<1>4. prompt \in [Runs -> PromptStages]
  BY DEF TypeOK
<1>5. ASSUME NEW r \in Runs, PromptOpen(r) \/ PromptStep(r) PROVE CalmInv'
  BY <1>2, <1>4, <1>5 DEF CalmInv, PromptOpen, PromptStep, PromptLogStart, PromptDeclare,
     PromptSpawnFails, PromptResume, PromptAck, PromptSendOmp, PromptReturnOmp,
     PromptLogEnd, Advance, engine
<1>6. ASSUME TurnStep PROVE CalmInv'
  <2>1. turn'.phase \in {"taken", "running", "ended", "none"}
    BY <1>2, <1>3, <1>6, TurnInProgress DEF TurnStep, TurnTake, TurnBegin, TurnEnd, TurnRelease,
       NoTurn, TypeOK, ActiveTurns
  <2>2. UNCHANGED <<up, prompt>>
    BY <1>6 DEF TurnStep, TurnTake, TurnBegin, TurnAsk, TurnPark, TurnUnpark, TurnEnd, TurnRelease
  <2> QED
    BY <2>1, <2>2 DEF CalmInv
<1>7. ASSUME PumpStep \/ Subscribe \/ Abort \/ TurnFork \/ ForkEnds \/ UNCHANGED vars PROVE CalmInv'
  BY <1>7 DEF CalmInv, PumpStep, PumpTake, PumpCheck, PumpFinish, PumpLogEnd, PumpClear, Subscribe,
     Abort, TurnFork, ForkEnds, engine, vars
<1> QED
  BY <1>1, <1>2, <1>3, <1>5, <1>6, <1>7 DEF Next

\* What a step needs and keeps in these environments.
Serving == TypeOK /\ SafeInv /\ HandleInv /\ CalmInv /\ ServedInv /\ (Orbit => SerialInv)

\* A request that goes on keeps its run's way to the close.
LEMMA RequestIsServed ==
  ASSUME Serves, Serving, NEW r \in Runs, PromptOpen(r) \/ PromptStep(r), (Orbit => SerialInv)'
  PROVE  ServedInv'
<1>1. RecordTypes
  BY TypesOfRecords DEF Serving
<1>2. ~PromptReject(r)
  BY DEF Serves, PromptReject
<1>3. \A q \in Runs : ledger'[q] = "open" =>
        prompt'[q] \in {"opened", "logged", "declared", "resumed", "acked", "waiting"}
  BY <1>1, <1>2 DEF Serving, ServedInv, RecordTypes, SafeInv, RecordsInv, At, ClosedStatuses,
     PromptOpen, PromptStep, PromptLogStart, PromptDeclare, PromptSpawnFails, PromptResume, PromptAck,
     PromptSendOmp, PromptReturnOmp, PromptLogEnd, Advance, Finish, records
<1>4. ~Orbit => \A q \in Runs : prompt'[q] # "acked"
  BY <1>1, <1>2 DEF Serving, ServedInv, RecordTypes,
     PromptOpen, PromptStep, PromptLogStart, PromptDeclare, PromptSpawnFails, PromptResume, PromptAck,
     PromptSendOmp, PromptReturnOmp, PromptLogEnd, Advance
<1>5. ASSUME Orbit, NEW q \in Runs, Given(q)' PROVE Places' = 1
  <2>1. CASE PromptAck(r)
    <3>1. Len(queue') = Len(queue) + 1
      BY <2>1 DEF PromptAck, Serving, TypeOK
    <3>2. Len(queue) \in Nat /\ Len(events') \in Nat
      BY <2>1, PlacesHoldRuns DEF Serving, PromptAck
    <3>3. Places' <= 1
      BY <1>5 DEF SerialInv
    <3> QED
      BY <3>1, <3>2, <3>3 DEF Places
  <2>2. CASE ~PromptAck(r)
    <3>1. Given(q)
      BY <1>1, <1>2, <1>5, <2>2 DEF Given, InFlight, RecordTypes, PromptOpen, PromptStep, PromptLogStart,
         PromptDeclare, PromptSpawnFails, PromptResume, PromptSendOmp, PromptReturnOmp, PromptLogEnd,
         Advance, Finish, records
    <3>2. UNCHANGED <<queue, events, turn>> /\ Closing' = Closing
      BY <1>2, <2>2 DEF PromptOpen, PromptStep, PromptLogStart, PromptDeclare, PromptSpawnFails,
         PromptResume, PromptSendOmp, PromptReturnOmp, PromptLogEnd, engine, Closing, PumpAt
    <3> QED
      BY <1>5, <3>1, <3>2 DEF Serving, ServedInv, Places, Working
  <2> QED
    BY <2>1, <2>2
<1>6. ASSUME Orbit, NEW q \in Runs, InFlight(q)', prompt'[q] \in {"declared", "resumed", "acked"}
      PROVE  exec' = [status |-> "Running", run |-> q]
  <2>1. CASE PromptDeclare(r)
    <3>1. InFlight(r)'
      BY <1>1, <2>1 DEF PromptDeclare, Advance, InFlight, Serving, SafeInv, RecordsInv, At, RecordTypes,
         records
    <3>2. q = r
      BY <1>5, <1>6, <3>1 DEF SerialInv
    <3> QED
      BY <2>1, <3>2 DEF PromptDeclare
  <2>2. CASE ~PromptDeclare(r)
    <3>1. InFlight(q) /\ prompt[q] \in {"declared", "resumed", "acked"} /\ exec' = exec
      BY <1>1, <1>2, <1>6, <2>2 DEF InFlight, RecordTypes, PromptOpen, PromptStep, PromptLogStart,
         PromptSpawnFails, PromptResume, PromptAck, PromptSendOmp, PromptReturnOmp, PromptLogEnd,
         Advance, Finish, records
    <3> QED
      BY <1>6, <3>1 DEF Serving, ServedInv
  <2> QED
    BY <2>1, <2>2
<1>7. ASSUME Orbit, pump'.phase \in {"log", "clear"} PROVE ledger'[pump'.run] # "open"
  <2>1. pump' = pump
    BY <1>2, <1>7 DEF PromptOpen, PromptStep, PromptLogStart, PromptDeclare, PromptSpawnFails,
       PromptResume, PromptAck, PromptSendOmp, PromptReturnOmp, PromptLogEnd, PumpAt
  <2>2. pump.run \in Runs /\ prompt[pump.run] # "new" /\ ledger[pump.run] # "open"
    BY <1>1, <1>7, <2>1 DEF RecordTypes, PumpPhases, ActivePumps, Serving, ServedInv, SafeInv, PumpInv,
       Declared
  <2> QED
    BY <1>1, <1>2, <2>1, <2>2 DEF RecordTypes, PromptOpen, PromptStep, PromptLogStart, PromptDeclare,
       PromptSpawnFails, PromptResume, PromptAck, PromptSendOmp, PromptReturnOmp, PromptLogEnd,
       Advance, Finish, records, ClosedStatuses
<1> QED
  BY <1>3, <1>4, <1>5, <1>6, <1>7 DEF ServedInv

\* The turn hands its run on, and the pump settles it.
LEMMA EngineServes ==
  ASSUME Serves, Serving, TurnTake \/ TurnBegin \/ TurnEnd \/ TurnRelease \/ PumpStep,
         (Orbit => SerialInv)'
  PROVE  ServedInv'
<1>1. RecordTypes
  BY TypesOfRecords DEF Serving
<1>2. UNCHANGED prompt /\ \A q \in Runs : ledger'[q] = "open" => ledger[q] = "open"
  BY <1>1 DEF TurnTake, TurnBegin, TurnEnd, TurnRelease, PumpStep, PumpTake, PumpCheck, PumpFinish,
     PumpLogEnd, PumpClear, Finish, records, RecordTypes, PumpPhases, ActivePumps, SafeInv, PumpInv, At,
     ClosedStatuses, Serving
<1>3. ASSUME Orbit, NEW q \in Runs, Given(q)' PROVE Places' = 1
  <2>1. Given(q) /\ Places = 1
    BY <1>2, <1>3 DEF Given, InFlight, Serving, ServedInv
  <2>2. Working' \/ Closing' \/ Len(queue') # 0 \/ Len(events') # 0 => Places' = 1
    <3>1. TypeOK'
      BY TypeStep DEF Serving, Next, TurnStep
    <3>2. Len(queue') \in Nat /\ Len(events') \in Nat
      BY <3>1 DEF TypeOK
    <3>3. Places' <= 1
      BY <1>3 DEF SerialInv
    <3> QED
      BY <3>2, <3>3 DEF Places
  <2>3. CASE TurnTake
    BY <2>2, <2>3 DEF TurnTake, Working
  <2>4. CASE TurnBegin
    BY <2>2, <2>4, TurnInProgress DEF TurnBegin, Working, Serving, TypeOK, ActiveTurns
  <2>5. CASE TurnRelease \/ PumpLogEnd \/ PumpClear
    <3>1. UNCHANGED <<queue, events>> /\ Working' = Working
      BY <2>5 DEF TurnRelease, PumpLogEnd, PumpClear, Working, NoTurn, engine
    <3>2. Closing' = Closing
      <4>1. CASE PumpLogEnd
        BY <4>1, PumpInProgress DEF PumpLogEnd, Closing, Serving, TypeOK, PumpPhases, ActivePumps
      <4>2. CASE TurnRelease \/ PumpClear
        BY <4>2 DEF TurnRelease, PumpClear, Closing, PumpAt
      <4> QED
        BY <2>5, <4>1, <4>2
    <3>3. Places' = Places
      BY <3>1, <3>2 DEF Places
    <3> QED
      BY <2>1, <3>3
  <2>6. CASE TurnEnd
    <3>1. Len(events') = Len(events) + 1 /\ Len(events) \in Nat
      BY <2>6 DEF TurnEnd, Serving, TypeOK
    <3> QED
      BY <2>2, <3>1
  <2>7. CASE PumpTake
    <3>1. exec.status = "Running"
      BY <1>3, <2>1 DEF Given, Serving, ServedInv
    <3> QED
      BY <2>2, <2>7, <3>1 DEF PumpTake, Closing, PumpAt
  <2>8. CASE PumpCheck
    <3>1. ledger[pump.run] = "open" /\ pump \in ActivePumps
      BY <1>3, <2>8, PumpInProgress DEF PumpCheck, Serving, SerialInv, Closing, Given, InFlight, TypeOK,
         PumpPhases
    <3> QED
      BY <2>2, <2>8, <3>1 DEF PumpCheck, Closing, ActivePumps
  <2>9. CASE PumpFinish
    <3>1. Given(pump.run) /\ pump \in ActivePumps
      BY <1>3, <2>9, PumpInProgress DEF PumpFinish, Serving, SerialInv, Closing, TypeOK, PumpPhases
    <3>2. q = pump.run
      BY <1>3, <2>1, <3>1 DEF Given, Serving, SerialInv, ActivePumps
    <3>3. ledger'[q] # "open"
      BY <1>1, <2>9, <3>1, <3>2 DEF PumpFinish, Finish, RecordTypes, ActivePumps, ClosedStatuses
    <3> QED
      BY <1>3, <3>3 DEF Given, InFlight
  <2> QED
    BY <2>3, <2>4, <2>5, <2>6, <2>7, <2>8, <2>9 DEF PumpStep
<1>4. ASSUME Orbit, NEW q \in Runs, InFlight(q)', prompt'[q] \in {"declared", "resumed", "acked"}
      PROVE  exec' = [status |-> "Running", run |-> q]
  <2>1. InFlight(q) /\ exec = [status |-> "Running", run |-> q]
    BY <1>2, <1>4 DEF InFlight, Serving, ServedInv
  <2>2. CASE PumpClear
    <3>1. pump.run # q
      BY <1>4, <2>1, <2>2 DEF PumpClear, InFlight, Serving, ServedInv
    <3> QED
      BY <2>1, <2>2, <3>1 DEF PumpClear
  <2>3. CASE ~PumpClear
    BY <2>1, <2>3 DEF TurnTake, TurnBegin, TurnEnd, TurnRelease, PumpStep, PumpTake, PumpCheck,
       PumpFinish, PumpLogEnd
  <2> QED
    BY <2>2, <2>3
<1>5. ASSUME Orbit, pump'.phase \in {"log", "clear"} PROVE ledger'[pump'.run] # "open"
  <2>1. CASE PumpFinish
    BY <1>1, <2>1 DEF PumpFinish, Finish, RecordTypes, PumpPhases, ActivePumps, ClosedStatuses
  <2>2. CASE PumpCheck \/ PumpLogEnd
    <3>1. pump \in ActivePumps
      BY <1>1, <2>2 DEF PumpCheck, PumpLogEnd, RecordTypes, PumpPhases
    <3>2. pump'.run = pump.run /\ ledger' = ledger
      BY <2>2, <3>1 DEF PumpCheck, PumpLogEnd, ActivePumps, records
    <3>3. ledger[pump.run] # "open"
      BY <1>5, <2>2, <3>1 DEF PumpCheck, PumpLogEnd, ActivePumps, Serving, SafeInv, PumpInv, At,
         ClosedStatuses
    <3> QED
      BY <3>2, <3>3
  <2>3. CASE ~PumpFinish /\ ~PumpCheck /\ ~PumpLogEnd
    <3>1. ledger' = ledger
      BY <2>3 DEF TurnTake, TurnBegin, TurnEnd, TurnRelease, PumpStep, PumpTake, PumpClear, records
    <3>2. CASE PumpTake
      BY <1>5, <3>2 DEF PumpTake, PumpAt
    <3>3. CASE PumpClear
      BY <1>5, <3>3 DEF PumpClear, PumpAt
    <3>4. CASE TurnTake \/ TurnBegin \/ TurnEnd \/ TurnRelease
      <4>1. pump' = pump
        BY <3>4 DEF TurnTake, TurnBegin, TurnEnd, TurnRelease
      <4> QED
        BY <1>5, <3>1, <4>1 DEF Serving, ServedInv
    <3> QED
      BY <2>3, <3>2, <3>3, <3>4 DEF PumpStep
  <2> QED
    BY <2>1, <2>2, <2>3
<1> QED
  BY <1>2, <1>3, <1>4, <1>5 DEF ServedInv, Serving

\* Every step keeps a served run on its way to its close.
LEMMA ServeStep ==
  ASSUME Serves, Serving, [Next]_vars
  PROVE  Serving'
<1>1. TypeOK' /\ SafeInv' /\ HandleInv' /\ CalmInv' /\ (Orbit => SerialInv)'
  BY TypeStep, SafeStep, HandleStep, CalmStep, SerialStep DEF Serving, Serves
<1>2. ServedInv'
  <2>1. ASSUME NEW r \in Runs, PromptOpen(r) \/ PromptStep(r) PROVE ServedInv'
    BY <1>1, <2>1, RequestIsServed
  <2>2. CASE TurnTake \/ TurnBegin \/ TurnEnd \/ TurnRelease \/ PumpStep
    BY <1>1, <2>2, EngineServes
  <2>3. CASE Subscribe \/ Abort \/ TurnFork \/ ForkEnds \/ UNCHANGED vars
    <3>1. UNCHANGED <<prompt, ledger, exec, queue, events, turn>> /\ Closing' = Closing
      BY <2>3 DEF Subscribe, Abort, TurnFork, ForkEnds, vars, records, engine, Closing, PumpAt
    <3>2. pump'.phase \in {"log", "clear"} => pump' = pump
      BY <2>3 DEF Subscribe, Abort, TurnFork, ForkEnds, vars, PumpAt
    <3> QED
      BY <3>1, <3>2 DEF Serving, ServedInv, Given, InFlight, Places, Working
  <2> QED
    BY <2>1, <2>2, <2>3, CalmStep DEF Next, TurnStep, Serving
<1> QED
  BY <1>1, <1>2 DEF Serving

\* Where nothing parks a turn, crashes or is malformed, a run is open in the
\* ledger only while something is on its way to close it, for any number of
\* runs and aborts, with the orbit engine and clients that take turns or with
\* the omp worker and any clients.
THEOREM ServedRunsAreClosed == ASSUME Serves PROVE Spec => []NoRunLeftOpen
<1>1. Init => Serving
  <2>1. Init => HandleInv /\ CalmInv /\ ServedInv
    BY DEF Init, HandleInv, CalmInv, ServedInv, NoTurn, InFlight, Given, PumpAt
  <2> QED
    BY <2>1, TypeInit, SafeInit, SerialInit DEF Serving
<1>2. Serving /\ [Next]_vars => Serving'
  BY ServeStep
<1>3. Serving => NoRunLeftOpen
  <2> SUFFICES ASSUME Serving, Quiet, NEW r \in Runs, ledger[r] = "open" PROVE FALSE
    BY DEF NoRunLeftOpen
  <2>1. prompt[r] = "acked"
    BY RunAssumption DEF Serving, HandleInv, ServedInv, Quiet
  <2>2. Orbit /\ Given(r)
    BY <2>1 DEF Serving, ServedInv, Given, InFlight
  <2>3. Places = 0
    BY DEF Quiet, Places, Working, Closing
  <2> QED
    BY <2>2, <2>3 DEF Serving, ServedInv
<1> QED
  BY <1>1, <1>2, <1>3, PTL DEF Spec
=============================================================================
