------------------------------ MODULE PlanReview ------------------------------
(***************************************************************************)
(* Plan mode and its review.  A session's PlanModeRuntime (plan-mode,      *)
(* state.rs) is changed by two threads: the connection that dispatches a   *)
(* prompt (dispatch.rs, which lands a pending exit and runs the /plan      *)
(* commands) and the session's run thread, whose exit_plan_mode tool       *)
(* (core.rs) asks the user through the QuestionBroker (questions.rs) and   *)
(* blocks until another connection answers or the review times out.  Every *)
(* change is prepared and committed in two critical sections.              *)
(*                                                                         *)
(* Of the execution slot (RunLifecycle) only AwaitingReview is kept here.  *)
(* Requests that are refused without a change of state (an unknown         *)
(* question, an option out of range, a plan that is no plan) are stutters. *)
(***************************************************************************)
EXTENDS Naturals, FiniteSets

CONSTANTS Sessions,    \* session ids
          NoSession,   \* no session
          Conns,       \* client connections
          MaxPrompts,  \* bound: prompts of a session
          MaxReviews   \* bound: reviews a session's turns ask for

ASSUME SessionAssumption == NoSession \notin Sessions
ASSUME BoundAssumption == MaxPrompts \in Nat /\ MaxReviews \in Nat

VARIABLES active,     \* PlanModeState.active: "on" or "off"
          pending,    \* PlanModeState.pending: "none" or Some(active)
          conn,       \* per connection: the prompt it dispatches
          last,       \* per connection: last_session, where it prompted last
          prompts,    \* prompts made for each session
          queue,      \* run_tx: messages waiting for each run thread
          run,        \* per session: where its run thread is
          asked,      \* per session: reviews asked for
          questions,  \* QuestionBroker.inner: pending questions
          answers,    \* the answer accepted for each question
          parked      \* the question of ExecStatus::AwaitingReview (0: none)

planVars == <<active, pending>>
connVars == <<conn, last, prompts>>
brokerVars == <<questions, answers>>
runVars == <<run, asked, parked>>
vars == <<planVars, connVars, queue, runVars, brokerVars>>

Modes == {"on", "off"}
Commands == {"enter", "enterWith", "off", "text", "tooLong"}
Verdicts == {"approve", "reject", "dismiss"}

\* A question is named by its session and its number.
Questions == Sessions \X (1..MaxReviews)

\* The prompt a connection dispatches, with the mutation it has prepared.
At(phase, s, cmd, expected, target) ==
  [phase |-> phase, session |-> s, command |-> cmd, expected |-> expected, target |-> target]
Waiting == At("waiting", NoSession, "text", "off", "off")
Dispatching == [phase : {"landing", "parsing", "setting", "prompting", "resuming"},
                session : Sessions, command : Commands, expected : Modes, target : Modes]

InReview == {"parking", "awaiting", "timedOut"}
RunPhases == {"idle", "turn", "asking", "approved", "exiting"} \cup InReview

TypeOK ==
  /\ active \in [Sessions -> Modes]
  /\ pending \in [Sessions -> Modes \cup {"none"}]
  /\ conn \in [Conns -> Dispatching \cup {Waiting}]
  /\ last \in [Conns -> Sessions \cup {NoSession}]
  /\ prompts \in [Sessions -> 0..MaxPrompts]
  /\ queue \in [Sessions -> Nat]
  /\ run \in [Sessions -> RunPhases]
  /\ asked \in [Sessions -> 0..MaxReviews]
  /\ questions \subseteq Questions
  /\ answers \in [Questions -> Verdicts \cup {"none"}]
  /\ parked \in [Sessions -> 0..MaxReviews]

Init ==
  /\ active = [s \in Sessions |-> "off"]
  /\ pending = [s \in Sessions |-> "none"]
  /\ conn = [c \in Conns |-> Waiting]
  /\ last = [c \in Conns |-> NoSession]
  /\ prompts = [s \in Sessions |-> 0]
  /\ queue = [s \in Sessions |-> 0]
  /\ run = [s \in Sessions |-> "idle"]
  /\ asked = [s \in Sessions |-> 0]
  /\ questions = {}
  /\ answers = [q \in Questions |-> "none"]
  /\ parked = [s \in Sessions |-> 0]

-----------------------------------------------------------------------------
(* A prompt, dispatched under the handle lock of its session.              *)

HandleFree(s) == \A c \in Conns : conn[c].session # s

\* The lock is taken and prepare_boundary called: a pending change is prepared
\* unless it changes nothing, an error the handler ignores.
Prompt(c, s, cmd) ==
  /\ conn[c].phase = "waiting" /\ HandleFree(s)
  /\ prompts[s] < MaxPrompts
  /\ prompts' = [prompts EXCEPT ![s] = @ + 1]
  /\ last' = [last EXCEPT ![c] = s]
  /\ conn' = [conn EXCEPT ![c] =
       IF pending[s] \notin {"none", active[s]}
       THEN At("landing", s, cmd, active[s], pending[s])
       ELSE At("parsing", s, cmd, "off", "off")]
  /\ UNCHANGED <<planVars, queue, runVars, brokerVars>>

\* PreparedPlanModeMutation::commit at the boundary: nothing if stale.
Land(c) ==
  LET m == conn[c]  s == m.session IN
  /\ m.phase = "landing"
  /\ IF active[s] = m.expected /\ pending[s] = m.target
     THEN /\ active' = [active EXCEPT ![s] = m.target]
          /\ pending' = [pending EXCEPT ![s] = "none"]
     ELSE UNCHANGED planVars
  /\ conn' = [conn EXCEPT ![c] = At("parsing", s, m.command, "off", "off")]
  /\ UNCHANGED <<last, prompts, queue, runVars, brokerVars>>

TargetOf(cmd) == IF cmd = "off" THEN "off" ELSE "on"

\* Where the handler goes once the command has nothing left to change.
AfterCommand(s, cmd) ==
  IF cmd \in {"text", "enterWith"} THEN At("prompting", s, cmd, "off", "off") ELSE Waiting

\* parse_command and prepare_set: an oversized command and one that meets a
\* pending change are refused.
Parse(c) ==
  LET m == conn[c]  s == m.session  target == TargetOf(m.command) IN
  /\ m.phase = "parsing"
  /\ conn' = [conn EXCEPT ![c] =
       IF m.command = "text" THEN AfterCommand(s, m.command)
       ELSE IF m.command = "tooLong" \/ pending[s] # "none" THEN Waiting
       ELSE IF active[s] = target THEN AfterCommand(s, m.command)
       ELSE At("setting", s, m.command, active[s], target)]
  /\ UNCHANGED <<planVars, last, prompts, queue, runVars, brokerVars>>

\* Mutant: the commit does not look at what became pending since the prepare.
SetOverPending(c) ==
  LET m == conn[c]  s == m.session IN
  /\ m.phase = "setting"
  /\ active' = [active EXCEPT ![s] = IF @ = m.expected THEN m.target ELSE @]
  /\ conn' = [conn EXCEPT ![c] = AfterCommand(s, m.command)]
  /\ UNCHANGED <<pending, last, prompts, queue, runVars, brokerVars>>

\* PreparedPlanModeMutation::commit of a command; a stale one is refused.
Set(c) ==
  LET m == conn[c]  s == m.session IN
  /\ m.phase = "setting"
  /\ IF active[s] = m.expected /\ pending[s] = "none"
     THEN /\ active' = [active EXCEPT ![s] = m.target]
          /\ conn' = [conn EXCEPT ![c] = AfterCommand(s, m.command)]
     ELSE /\ conn' = [conn EXCEPT ![c] = Waiting]
          /\ UNCHANGED active
  /\ UNCHANGED <<pending, last, prompts, queue, runVars, brokerVars>>

\* set_active_run: the slot goes to the run of this prompt.
Declare(c) ==
  LET m == conn[c]  s == m.session IN
  /\ m.phase = "prompting"
  /\ parked' = [parked EXCEPT ![s] = 0]
  /\ conn' = [conn EXCEPT ![c] = At("resuming", s, m.command, "off", "off")]
  /\ UNCHANGED <<planVars, last, prompts, queue, run, asked, brokerVars>>

\* resume_orbit_context waits for the context lock, which a turn holds from
\* its start to its end; then the message goes to the run thread.
Resume(c) ==
  LET m == conn[c]  s == m.session IN
  /\ m.phase = "resuming" /\ run[s] = "idle"
  /\ queue' = [queue EXCEPT ![s] = @ + 1]
  /\ conn' = [conn EXCEPT ![c] = Waiting]
  /\ UNCHANGED <<planVars, last, prompts, runVars, brokerVars>>

\* Mutant: an answered question stays pending.
AnswerKeeps(c, q, v) ==
  /\ conn[c].phase = "waiting" /\ (last[c] \in Sessions => HandleFree(last[c]))
  /\ q \in questions
  /\ answers' = [answers EXCEPT ![q] = v]
  /\ UNCHANGED <<planVars, connVars, queue, runVars, questions>>

\* user.answer, whose request goes to the session this connection prompted
\* last: the handler waits for that handle lock although it needs no handle.
Answer(c, q, v) ==
  /\ conn[c].phase = "waiting" /\ (last[c] \in Sessions => HandleFree(last[c]))
  /\ q \in questions
  /\ questions' = questions \ {q}
  /\ answers' = [answers EXCEPT ![q] = v]
  /\ UNCHANGED <<planVars, connVars, queue, runVars>>

-----------------------------------------------------------------------------
(* The run thread of a session.                                            *)

Question(s) == <<s, asked[s]>>

\* run_rx.recv: the turn begins and takes the context lock.
TurnStart(s) ==
  /\ run[s] = "idle" /\ queue[s] > 0
  /\ queue' = [queue EXCEPT ![s] = @ - 1]
  /\ run' = [run EXCEPT ![s] = "turn"]
  /\ UNCHANGED <<planVars, connVars, asked, parked, brokerVars>>

\* The turn is over and the context lock free.
TurnEnd(s) ==
  /\ run[s] = "turn"
  /\ run' = [run EXCEPT ![s] = "idle"]
  /\ UNCHANGED <<planVars, connVars, queue, asked, parked, brokerVars>>

\* The model calls exit_plan_mode with a valid plan, in plan mode.
CallExit(s) ==
  /\ run[s] = "turn" /\ asked[s] < MaxReviews /\ active[s] = "on"
  /\ run' = [run EXCEPT ![s] = "asking"]
  /\ UNCHANGED <<planVars, connVars, queue, asked, parked, brokerVars>>

\* QuestionBroker::submit
Submit(s) ==
  /\ run[s] = "asking"
  /\ asked' = [asked EXCEPT ![s] = @ + 1]
  /\ questions' = questions \cup {<<s, asked[s] + 1>>}
  /\ run' = [run EXCEPT ![s] = "parking"]
  /\ UNCHANGED <<planVars, connVars, queue, parked, answers>>

\* ExecState::awaiting_review, after the question can already be answered.
Park(s) ==
  /\ run[s] = "parking"
  /\ parked' = [parked EXCEPT ![s] = asked[s]]
  /\ run' = [run EXCEPT ![s] = "awaiting"]
  /\ UNCHANGED <<planVars, connVars, queue, asked, brokerVars>>

\* Mutant: whatever is not a rejection is taken for an approval.
ReceiveDismissAsApprove(s) ==
  /\ run[s] = "awaiting" /\ answers[Question(s)] # "none"
  /\ parked' = [parked EXCEPT ![s] = 0]
  /\ run' = [run EXCEPT ![s] = IF answers[Question(s)] = "reject" THEN "turn" ELSE "approved"]
  /\ UNCHANGED <<planVars, connVars, queue, asked, brokerVars>>

\* The ticket delivers the answer and the slot goes idle; only an approval
\* goes on to the exit.
Receive(s) ==
  /\ run[s] = "awaiting" /\ answers[Question(s)] # "none"
  /\ parked' = [parked EXCEPT ![s] = 0]
  /\ run' = [run EXCEPT ![s] = IF answers[Question(s)] = "approve" THEN "approved" ELSE "turn"]
  /\ UNCHANGED <<planVars, connVars, queue, asked, brokerVars>>

\* Mutant: the review waits until somebody answers.
TimeoutNever(s) == FALSE /\ UNCHANGED vars

\* plan_review_timeout elapses on an empty channel.
Timeout(s) ==
  /\ run[s] = "awaiting" /\ answers[Question(s)] = "none"
  /\ run' = [run EXCEPT ![s] = "timedOut"]
  /\ UNCHANGED <<planVars, connVars, queue, asked, parked, brokerVars>>

\* QuestionBroker::cancel, and the slot goes idle.  An answer accepted since
\* the timeout is lost.
Cancel(s) ==
  /\ run[s] = "timedOut"
  /\ questions' = questions \ {Question(s)}
  /\ parked' = [parked EXCEPT ![s] = 0]
  /\ run' = [run EXCEPT ![s] = "turn"]
  /\ UNCHANGED <<planVars, connVars, queue, asked, answers>>

\* prepare_approved_exit: Inactive and Stale end the tool call.
PrepareExit(s) ==
  /\ run[s] = "approved"
  /\ run' = [run EXCEPT ![s] =
       IF active[s] = "on" /\ pending[s] = "none" THEN "exiting" ELSE "turn"]
  /\ UNCHANGED <<planVars, connVars, queue, asked, parked, brokerVars>>

\* PreparedPlanExit::commit parks the change for the next prompt.
CommitExit(s) ==
  /\ run[s] = "exiting"
  /\ pending' = [pending EXCEPT ![s] =
       IF active[s] = "on" /\ @ = "none" THEN "off" ELSE @]
  /\ run' = [run EXCEPT ![s] = "turn"]
  /\ UNCHANGED <<active, connVars, queue, asked, parked, brokerVars>>

-----------------------------------------------------------------------------
ConnStep(c) == Land(c) \/ Parse(c) \/ Set(c) \/ Declare(c) \/ Resume(c)
RunStep(s) ==
  \/ TurnStart(s) \/ TurnEnd(s) \/ CallExit(s) \/ Submit(s) \/ Park(s)
  \/ Receive(s) \/ Timeout(s) \/ Cancel(s) \/ PrepareExit(s) \/ CommitExit(s)

Next ==
  \/ \E c \in Conns : \/ ConnStep(c)
                      \/ \E s \in Sessions, cmd \in Commands : Prompt(c, s, cmd)
                      \/ \E q \in Questions, v \in Verdicts : Answer(c, q, v)
  \/ \E s \in Sessions : RunStep(s)

Spec == Init /\ [][Next]_vars

\* Threads run and a review times out; no client has to prompt or answer.
Fairness == (\A c \in Conns : WF_vars(ConnStep(c))) /\ (\A s \in Sessions : WF_vars(RunStep(s)))
FairSpec == Spec /\ Fairness

-----------------------------------------------------------------------------
(* What the code promises.                                                 *)

\* A pending change changes something.  If active and pending ever agreed,
\* prepare_boundary and prepare_set would both refuse from then on and no
\* prompt and no command could change the mode again (state.rs:150-189).
PendingIsAChange == \A s \in Sessions : pending[s] # active[s]

\* A change prepared at a prompt's boundary is never stale when committed,
\* though the run thread goes on: the handler drops the error, and a failed
\* commit would leave plan mode on for one more turn (dispatch.rs:898-906).
BoundaryNeverStale ==
  \A c \in Conns : conn[c].phase = "landing" =>
    /\ active[conn[c].session] = conn[c].expected
    /\ pending[conn[c].session] = conn[c].target

\* A question in the broker is one that its session's run thread waits for or
\* is about to withdraw: clients are never shown an abandoned question
\* (questions.rs:339-345).
QuestionIsAwaited ==
  \A q \in questions : q = Question(q[1]) /\ run[q[1]] \in InReview

\* A slot that awaits a review has a run thread in that review: the reaper
\* keeps such a session loaded (exec_state.rs:113, reaper.rs:131).
ParkedIsInReview ==
  \A s \in Sessions : parked[s] # 0 => run[s] \in InReview /\ parked[s] = asked[s]

\* The model alone never leaves plan mode: the mode goes off only while a
\* prompt of this session is dispatched, by its /plan off or by landing an
\* exit that a user approved in a review of this session.
LeaveByUser ==
  [][\A s \in Sessions : active[s] = "on" /\ active'[s] = "off" =>
       \E c \in Conns :
         /\ conn[c].session = s
         /\ \/ conn[c].command = "off"
            \/ conn[c].phase = "landing" /\ \E n \in 1..asked[s] : answers[<<s, n>>] = "approve"]_vars

\* A question is answered at most once: the first accepted answer stands,
\* whoever answers again (questions.rs:307-337).
AnsweredOnce ==
  [][\A q \in Questions : answers[q] # "none" => answers'[q] = answers[q]]_vars

\* Every prompt returns to its client.  A prompt may wait for the turn, the
\* turn for a review and the review's answer for the prompt's handle lock;
\* only the timeout breaks that circle.
PromptReturns ==
  \A c \in Conns : conn[c].phase # "waiting" ~> conn[c].phase = "waiting"
===============================================================================
