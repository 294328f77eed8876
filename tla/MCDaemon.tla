------------------------------ MODULE MCDaemon ------------------------------
(***************************************************************************)
(* A behaviour is in one of these environments, and only what belongs to   *)
(* it moves.  RunLifecycle in three of them:                               *)
(*   "any": the one the constants give, where clients overlap, attachments *)
(*     are malformed, turns park in reviews and the daemon crashes;        *)
(*   "serial": clients that wait for a run to close before the next        *)
(*     prompt, and stop turns;                                             *)
(*   "omp": the omp worker, whose prompt blocks for the turn and settles   *)
(*     the run itself, with overlapping clients.                           *)
(* Runs always end in the last two.  And what the daemon's workers use:    *)
(*   "mcp": McpClient; "pump": OmpPump; "screen": ScreenFrame.             *)
(***************************************************************************)
EXTENDS RunLifecycle, McpClient, ScreenFrame

VARIABLE env
VARIABLES ompInner, ompAlive, ompAsked, ompOutput, ompSaid, ompNextId, ompRequest, ompJobs,
  ompPending, ompPump, ompChunks, ompSubs, ompForwarder, ompActive

Worker == INSTANCE OmpPump WITH inner <- ompInner, alive <- ompAlive, asked <- ompAsked,
  output <- ompOutput, said <- ompSaid, nextId <- ompNextId, request <- ompRequest,
  jobs <- ompJobs, pending <- ompPending, pump <- ompPump, chunks <- ompChunks,
  subs <- ompSubs, forwarder <- ompForwarder, active <- ompActive,
  Forwarders <- {1, 2}, MaxIds <- 5, MaxSaid <- 1

ompVars == <<ompInner, ompAlive, ompAsked, ompOutput, ompSaid, ompNextId, ompRequest, ompJobs,
  ompPending, ompPump, ompChunks, ompSubs, ompForwarder, ompActive>>
otherVars == <<mcpVars, ompVars, rowVars>>

Serial == INSTANCE RunLifecycle WITH Orbit <- TRUE, Overlap <- FALSE,
  BadAttachments <- FALSE, MaxReviews <- 0, MaxAborts <- 1, MaxForks <- 1,
  MaxCrashes <- 0
Omp == INSTANCE RunLifecycle WITH Orbit <- FALSE, Overlap <- TRUE,
  BadAttachments <- FALSE, MaxReviews <- 0, MaxAborts <- 1, MaxForks <- 0,
  MaxCrashes <- 0

AnyStep == env = "any" /\ Next /\ UNCHANGED <<env, otherVars>>
SerialStep == env = "serial" /\ Serial!Next /\ UNCHANGED <<env, otherVars>>
OmpStep == env = "omp" /\ Omp!Next /\ UNCHANGED <<env, otherVars>>
McpStep == env = "mcp" /\ McpNext /\ UNCHANGED <<env, vars, ompVars, rowVars>>
WorkerStep == env = "pump" /\ Worker!Next /\ UNCHANGED <<env, vars, mcpVars, rowVars>>
ScreenStep == env = "screen" /\ GridNext /\ UNCHANGED <<env, vars, mcpVars, ompVars>>

EnvInit ==
  /\ env \in {"any", "serial", "omp", "mcp", "pump", "screen"}
  /\ Init /\ McpInit /\ Worker!Init /\ GridInit
  /\ env # "mcp" => kind = "stdio"
  /\ env # "screen" => row = <<Blank, Blank>>
EnvNext == AnyStep \/ SerialStep \/ OmpStep \/ McpStep \/ WorkerStep \/ ScreenStep

\* The fairness of RunLifecycle, in the two environments where runs end.
ServedPrompt(r) ==
  \/ env = "serial" /\ Serial!PromptStep(r)
  \/ env = "omp" /\ Omp!PromptStep(r)

EnvFairness ==
  /\ \A r \in Runs : WF_vars(ServedPrompt(r))
  /\ WF_vars(env = "serial" /\ (TurnTake \/ TurnBegin \/ TurnRelease))
  /\ WF_vars(env = "serial" /\ TurnEnd)
  /\ WF_vars(env = "serial" /\ PumpStep)

EnvSpec ==
  /\ EnvInit /\ [][EnvNext]_<<vars, env, otherVars>>
  /\ EnvFairness /\ McpFairness /\ Worker!Fairness

-----------------------------------------------------------------------------
Served == env \in {"serial", "omp"}

\* NoRunLeftOpen where nothing but the prompts themselves opens and closes runs.
ServedRunsClose == Served => NoRunLeftOpen

\* EndClosesItsOwnRun where clients take turns.
SerialEndsOwnRun ==
  [][env = "serial" =>
       \A r \in Runs : pump.phase = "finish" /\ up' /\ ledger'[r] # ledger[r] => r = pump.of]_vars

\* Both records of a run are closed in the end, where runs end, and while nobody
\* is at work none is open.
ServedRunsEnd ==
  /\ []ServedRunsClose
  /\ \A r \in Runs : (Served /\ ledger[r] = "open") ~> (ledger[r] # "open" /\ turnEnds[r] = 1)

\* OmpPump's.
DeathIsTold == Worker!DeathIsTold
=============================================================================
