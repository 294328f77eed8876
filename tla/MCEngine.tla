------------------------------ MODULE MCEngine ------------------------------
(***************************************************************************)
(* What a session runs on, side by side: parts that share no state, so a   *)
(* behaviour picks one of them and only that one moves.  In the state in   *)
(* which the others stay, no action that fairness is asked for can be      *)
(* taken.  All but the ACP subagent are extended, so that what is assumed  *)
(* and proved of them is of the very definitions that are checked here.    *)
(***************************************************************************)
EXTENDS SessionStore, ModelStream, Jobs, SessionReaper, AgentLoop, TLC

CONSTANTS parent, child,                        \* sessions of SessionReaper
          MaxPermits                            \* bound of AcpRun

VARIABLE part
VARIABLES acpAgent, acpHandle, acpStdin, acpOpen, acpWriter, acpPermits, acpAsked, acpChannel, acpWorker, acpDisposed,
  acpSignal, acpLadder, acpWatcher, acpTable, acpLocked, acpResult, acpRetired

Acp == INSTANCE AcpRun WITH agent <- acpAgent, handle <- acpHandle, stdin <- acpStdin,
  open <- acpOpen, writer <- acpWriter, permits <- acpPermits,
  asked <- acpAsked, channel <- acpChannel, worker <- acpWorker, disposed <- acpDisposed,
  signal <- acpSignal, ladder <- acpLadder, watcher <- acpWatcher, table <- acpTable,
  locked <- acpLocked, result <- acpResult, retired <- acpRetired

\* A conversation that outgrows its budget after a tool round, and replies that
\* make, truncate and end with tool calls.
MCSizeOf == [user |-> 1, text |-> 1, call |-> 1, results |-> 3, summary |-> 1]
MCReplies == {<<"background", "fork", "mark_done">>}

\* A parent session and its child.
MCParentOf == (parent :> NoOwner) @@ (child :> parent)

acpVars == <<acpAgent, acpHandle, acpStdin, acpOpen, acpWriter, acpPermits, acpAsked, acpChannel, acpWorker, acpDisposed,
  acpSignal, acpLadder, acpWatcher, acpTable, acpLocked, acpResult, acpRetired>>

PartInit ==
  /\ part \in {"store", "jobs", "acp", "loop", "reaper", "stream"}
  /\ Init /\ StreamInit /\ JobInit /\ Acp!Init /\ LoopInit
  /\ Fresh
  /\ reaper = IF part = "reaper" THEN Asleep ELSE [Asleep EXCEPT !.phase = "exited"]

StoreStep == part = "store" /\ Next
  /\ UNCHANGED <<part, jobVars, acpVars, loopVars, reapVars, streamVars>>
JobStep == part = "jobs" /\ JobNext
  /\ UNCHANGED <<part, vars, acpVars, loopVars, reapVars, streamVars>>
AcpStep == part = "acp" /\ Acp!Next
  /\ UNCHANGED <<part, vars, jobVars, loopVars, reapVars, streamVars>>
LoopStep == part = "loop" /\ LoopNext
  /\ UNCHANGED <<part, vars, jobVars, acpVars, reapVars, streamVars>>
ReapStep == part = "reaper" /\ ReapNext
  /\ UNCHANGED <<part, vars, jobVars, acpVars, loopVars, streamVars>>
StreamStep == part = "stream" /\ StreamNext
  /\ UNCHANGED <<part, vars, jobVars, acpVars, loopVars, reapVars>>

PartNext == StoreStep \/ JobStep \/ AcpStep \/ LoopStep \/ ReapStep \/ StreamStep

PartSpec ==
  /\ PartInit /\ [][PartNext]_<<part, vars, jobVars, acpVars, loopVars, reapVars, streamVars>>
  /\ JobFairness /\ Acp!Fairness /\ LoopFairness /\ ReapFairness

-----------------------------------------------------------------------------
AcpTornDownEnds == Acp!TornDownRunEnds
\* SessionReaper's: what is in use stays, the rest goes.
ReaperSound == UnloadOnlyIdle /\ IdleUnloaded
=============================================================================
