--------------------------- MODULE PlanReviewProofs ---------------------------
(***************************************************************************)
(* For any sessions, connections, prompts and reviews: plan mode is never  *)
(* wedged, a change prepared at a prompt's boundary never goes stale, only *)
(* a user ends plan mode, no question is abandoned and none is answered    *)
(* twice.                                                                  *)
(***************************************************************************)
EXTENDS PlanReview, TLAPS

\* One prompt of a session is dispatched at a time.
OneHandler ==
  \A c, d \in Conns : c # d /\ conn[c].session = conn[d].session => conn[c] = Waiting

\* What a prepared /plan command still has to do.
SettingInv ==
  \A c \in Conns : conn[c].phase = "setting" => conn[c].target = TargetOf(conn[c].command)

\* Numbers above the last question are unused; a pending question is open; a
\* run thread that goes on to the exit has its approval.
AskedInv ==
  /\ \A q \in Questions : q[2] > asked[q[1]] => answers[q] = "none"
  /\ \A q \in questions : answers[q] = "none"
  /\ \A s \in Sessions :
       /\ run[s] = "asking" => asked[s] < MaxReviews
       /\ run[s] \in InReview \cup {"approved", "exiting"} => asked[s] > 0
       /\ run[s] \in {"approved", "exiting"} => answers[Question(s)] = "approve"

\* A pending exit was approved.
ExitInv ==
  \A s \in Sessions : pending[s] # "none" =>
    pending[s] = "off" /\ \E n \in 1..asked[s] : answers[<<s, n>>] = "approve"

HandlerInv == OneHandler /\ SettingInv /\ BoundaryNeverStale /\ PendingIsAChange
ReviewInv == AskedInv /\ QuestionIsAwaited /\ ParkedIsInReview /\ ExitInv
Inv == TypeOK /\ HandlerInv /\ ReviewInv

\* The invariant holds before the first prompt.
LEMMA InitInv == Init => Inv
BY SessionAssumption, BoundAssumption
   DEF Init, Inv, TypeOK, HandlerInv, OneHandler, SettingInv, BoundaryNeverStale,
       PendingIsAChange, ReviewInv, AskedInv, QuestionIsAwaited, ParkedIsInReview, ExitInv,
       Waiting, At, Modes, Commands, RunPhases, InReview, Questions

\* What a connection that dispatches a prompt has in hand.
LEMMA Handled ==
  ASSUME TypeOK, NEW c \in Conns, conn[c].phase # "waiting"
  PROVE  /\ conn[c].session \in Sessions /\ conn[c].command \in Commands
         /\ conn[c].expected \in Modes /\ conn[c].target \in Modes
<1>1. conn[c] \in Dispatching
  BY DEF TypeOK, Waiting, At
<1> QED
  BY <1>1 DEF Dispatching

\* The states of a connection that the handler may go on to.
LEMMA Handling ==
  ASSUME NEW s \in Sessions, NEW cmd \in Commands, NEW e \in Modes, NEW t \in Modes
  PROVE  /\ At("landing", s, cmd, e, t) \in Dispatching
         /\ AfterCommand(s, cmd) = Waiting \/ AfterCommand(s, cmd).session = s
         /\ AfterCommand(s, cmd).phase \in {"prompting", "waiting"}
         /\ Waiting.phase = "waiting"
         /\ At("parsing", s, cmd, "off", "off") \in Dispatching
         /\ At("setting", s, cmd, e, t) \in Dispatching
         /\ At("resuming", s, cmd, "off", "off") \in Dispatching
         /\ AfterCommand(s, cmd) \in Dispatching \cup {Waiting}
         /\ TargetOf(cmd) \in Modes
BY DEF At, Dispatching, AfterCommand, TargetOf, Modes, Waiting

\* A step of one connection that leaves its session, or goes back to waiting,
\* keeps the sessions apart.
LEMMA StaysAlone ==
  ASSUME OneHandler, conn \in [Conns -> Dispatching \cup {Waiting}], NEW c \in Conns,
         NEW m \in Dispatching \cup {Waiting},
         m = Waiting \/ m.session = conn[c].session,
         conn[c] \in Dispatching,
         conn' = [conn EXCEPT ![c] = m]
  PROVE  OneHandler'
<1>1. conn[c].session \in Sessions /\ Waiting.session = NoSession
  BY DEF Dispatching, Waiting, At
<1>2. \A d \in Conns \ {c} : conn[d].session # conn[c].session
  BY <1>1, SessionAssumption DEF OneHandler, Dispatching, Waiting, At
<1>3. \A d \in Conns : conn'[d] = IF d = c THEN m ELSE conn[d]
  OBVIOUS
<1> SUFFICES ASSUME NEW d \in Conns, NEW e \in Conns, d # e,
                    conn'[d].session = conn'[e].session
             PROVE  conn'[d] = Waiting
  BY DEF OneHandler
<1>4. CASE d # c /\ e # c
  BY <1>3, <1>4 DEF OneHandler
<1>5. CASE d = c
  <2>1. m = Waiting
    BY <1>2, <1>3, <1>5
  <2> QED
    BY <1>3, <1>5, <2>1
<1>6. CASE e = c
  <2>1. m = Waiting /\ conn[d].session = NoSession
    BY <1>1, <1>2, <1>3, <1>6
  <2>2. conn[d] = Waiting
    BY <2>1, SessionAssumption DEF Dispatching
  <2> QED
    BY <1>3, <1>6, <2>2
<1> QED
  BY <1>4, <1>5, <1>6

\* Where the parsing of a command leads.
Parsed(c) ==
  LET m == conn[c]  s == m.session  target == TargetOf(m.command) IN
  IF m.command = "text" THEN AfterCommand(s, m.command)
  ELSE IF m.command = "tooLong" \/ pending[s] # "none" THEN Waiting
  ELSE IF active[s] = target THEN AfterCommand(s, m.command)
  ELSE At("setting", s, m.command, active[s], target)

\* What a parsed request comes to.
LEMMA ParsedStates ==
  ASSUME TypeOK, NEW c \in Conns, conn[c].phase = "parsing"
  PROVE  /\ Parsed(c) \in Dispatching \cup {Waiting}
         /\ Parsed(c) = Waiting \/ Parsed(c).session = conn[c].session
         /\ Parsed(c).phase # "landing"
         /\ Parsed(c).phase = "setting" => Parsed(c).target = TargetOf(Parsed(c).command)
<1> DEFINE s == conn[c].session  cmd == conn[c].command
<1>1. /\ s \in Sessions /\ cmd \in Commands /\ active[s] \in Modes
      /\ TargetOf(cmd) \in Modes
  BY Handled, Handling DEF TypeOK, TargetOf, Modes
<1>2. \/ Parsed(c) = Waiting
      \/ Parsed(c) = AfterCommand(s, cmd)
      \/ Parsed(c) = At("setting", s, cmd, active[s], TargetOf(cmd))
  BY DEF Parsed
<1>3. /\ AfterCommand(s, cmd) \in Dispatching \cup {Waiting}
      /\ At("setting", s, cmd, active[s], TargetOf(cmd)) \in Dispatching
  BY <1>1, Handling
<1> QED
  BY <1>2, <1>3 DEF AfterCommand, At, Waiting

\* Every step keeps the types.
LEMMA StepTypes == Inv /\ [Next]_vars => TypeOK'
<1> SUFFICES ASSUME TypeOK, AskedInv, [Next]_vars PROVE TypeOK'
  BY DEF Inv, ReviewInv
<1> USE SessionAssumption, BoundAssumption DEF TypeOK
<1>1. ASSUME NEW c \in Conns, NEW s \in Sessions, NEW cmd \in Commands, Prompt(c, s, cmd)
      PROVE  TypeOK'
  BY <1>1, Handling DEF Prompt, planVars, runVars, brokerVars, Modes
<1>2. ASSUME NEW c \in Conns, ConnStep(c) PROVE TypeOK'
  <2>1. CASE Land(c)
    <3>1. /\ conn[c].session \in Sessions /\ conn[c].target \in Modes
          /\ At("parsing", conn[c].session, conn[c].command, "off", "off") \in Dispatching
      BY <2>1, Handled, Handling DEF Land
    <3>2. active' \in [Sessions -> Modes] /\ pending' \in [Sessions -> Modes \cup {"none"}]
      BY <2>1, <3>1 DEF Land, planVars
    <3> QED
      BY <2>1, <3>1, <3>2 DEF Land, runVars, brokerVars
  <2>2. CASE Parse(c)
    <3>1. Parsed(c) \in Dispatching \cup {Waiting}
      BY <2>2, ParsedStates DEF Parse
    <3>2. conn' = [conn EXCEPT ![c] = Parsed(c)]
      BY <2>2 DEF Parse, Parsed
    <3> QED
      BY <2>2, <3>1, <3>2 DEF Parse, planVars, runVars, brokerVars
  <2>3. CASE Set(c)
    <3>1. /\ conn[c].target \in Modes
          /\ AfterCommand(conn[c].session, conn[c].command) \in Dispatching \cup {Waiting}
      BY <2>3, Handled, Handling DEF Set
    <3> QED
      BY <2>3, <3>1 DEF Set, runVars, brokerVars
  <2>4. CASE Declare(c)
    BY <2>4, Handled, Handling DEF Declare, planVars, brokerVars
  <2>5. CASE Resume(c)
    BY <2>5, Handled DEF Resume, planVars, runVars, brokerVars
  <2> QED
    BY <1>2, <2>1, <2>2, <2>3, <2>4, <2>5 DEF ConnStep
<1>3. ASSUME NEW c \in Conns, NEW q \in Questions, NEW v \in Verdicts, Answer(c, q, v)
      PROVE  TypeOK'
  BY <1>3 DEF Answer, planVars, connVars, runVars
<1>4. ASSUME NEW s \in Sessions, RunStep(s) PROVE TypeOK'
  <2> USE DEF RunPhases, InReview, planVars, connVars, brokerVars
  <2>1. CASE TurnStart(s) \/ TurnEnd(s) \/ CallExit(s)
    BY <2>1 DEF TurnStart, TurnEnd, CallExit
  <2>2. CASE Submit(s)
    <3>1. asked[s] + 1 \in 1..MaxReviews
      BY <2>2 DEF Submit, AskedInv
    <3> QED
      BY <2>2, <3>1 DEF Submit, Questions
  <2>3. CASE Park(s) \/ Receive(s) \/ Timeout(s) \/ Cancel(s)
    BY <2>3 DEF Park, Receive, Timeout, Cancel
  <2>4. CASE PrepareExit(s) \/ CommitExit(s)
    BY <2>4 DEF PrepareExit, CommitExit, Modes
  <2> QED
    BY <1>4, <2>1, <2>2, <2>3, <2>4 DEF RunStep
<1>5. CASE UNCHANGED vars
  BY <1>5 DEF vars, planVars, connVars, runVars, brokerVars
<1> QED
  BY <1>1, <1>2, <1>3, <1>4, <1>5 DEF Next

\* A connection that changes at most the plan mode of its own session, and
\* prepares nothing, keeps what the handlers rely on.
LEMMA HandlerKeeps ==
  ASSUME HandlerInv, conn \in [Conns -> Dispatching \cup {Waiting}],
         NEW c \in Conns, conn[c] \in Dispatching,
         NEW m \in Dispatching \cup {Waiting},
         m = Waiting \/ m.session = conn[c].session,
         m.phase \notin {"landing", "setting"},
         conn' = [conn EXCEPT ![c] = m],
         \A t \in Sessions \ {conn[c].session} : active'[t] = active[t] /\ pending'[t] = pending[t],
         pending'[conn[c].session] # active'[conn[c].session]
  PROVE  HandlerInv'
<1> USE DEF HandlerInv
<1>1. OneHandler'
  BY StaysAlone
<1>2. \A d \in Conns : conn'[d] = IF d = c THEN m ELSE conn[d]
  OBVIOUS
<1>3. SettingInv'
  BY <1>2 DEF SettingInv
<1>4. BoundaryNeverStale'
  <2> SUFFICES ASSUME NEW d \in Conns, conn'[d].phase = "landing"
               PROVE  /\ active'[conn'[d].session] = conn'[d].expected
                      /\ pending'[conn'[d].session] = conn'[d].target
    BY DEF BoundaryNeverStale
  <2>1. d # c /\ conn'[d] = conn[d]
    BY <1>2
  <2>2. conn[d] # Waiting /\ conn[d] \in Dispatching
    BY <2>1 DEF Waiting, At
  <2>3. conn[d].session \in Sessions \ {conn[c].session}
    BY <2>1, <2>2 DEF OneHandler, Dispatching
  <2> QED
    BY <2>1, <2>3 DEF BoundaryNeverStale
<1>5. PendingIsAChange'
  BY DEF PendingIsAChange
<1> QED
  BY <1>1, <1>3, <1>4, <1>5

\* Every step keeps the handler's part of the invariant.
LEMMA StepHandler == Inv /\ [Next]_vars => HandlerInv'
<1> SUFFICES ASSUME TypeOK, HandlerInv, ExitInv, [Next]_vars PROVE HandlerInv'
  BY DEF Inv, ReviewInv
<1> USE SessionAssumption DEF HandlerInv, SettingInv, BoundaryNeverStale, PendingIsAChange
<1>0. /\ conn \in [Conns -> Dispatching \cup {Waiting}]
      /\ active \in [Sessions -> Modes] /\ pending \in [Sessions -> Modes \cup {"none"}]
  BY DEF TypeOK
<1>1. ASSUME NEW c \in Conns, NEW s \in Sessions, NEW cmd \in Commands, Prompt(c, s, cmd)
      PROVE  HandlerInv'
  <2> DEFINE m == IF pending[s] \notin {"none", active[s]}
                  THEN At("landing", s, cmd, active[s], pending[s])
                  ELSE At("parsing", s, cmd, "off", "off")
  <2>1. /\ \A d \in Conns : conn'[d] = IF d = c THEN m ELSE conn[d]
        /\ \A d \in Conns : conn[d].session # s
        /\ UNCHANGED <<active, pending>>
    BY <1>0, <1>1 DEF Prompt, HandleFree, planVars
  <2>2. /\ m.session = s /\ m.phase \in {"landing", "parsing"}
        /\ m.phase = "landing" => m.expected = active[s] /\ m.target = pending[s]
    BY DEF At
  <2> HIDE DEF m
  <2>3. OneHandler'
    BY <2>1, <2>2 DEF OneHandler
  <2>4. SettingInv' /\ BoundaryNeverStale'
    BY <2>1, <2>2
  <2> QED
    BY <2>1, <2>3, <2>4
<1>2. ASSUME NEW c \in Conns, ConnStep(c) PROVE HandlerInv'
  <2>0. /\ conn[c].phase # "waiting" /\ conn[c] \in Dispatching
        /\ conn[c].session \in Sessions /\ conn[c].command \in Commands
        /\ conn[c].expected \in Modes /\ conn[c].target \in Modes
    BY <1>0, <1>2, Handled DEF ConnStep, Land, Parse, Set, Declare, Resume, Waiting, At
  <2>1. \A d \in Conns \ {c} : conn[d].session # conn[c].session
    BY <1>0, <2>0 DEF OneHandler, Dispatching, Waiting, At
  <2>2. CASE Land(c)
    <3> DEFINE t == conn[c].session
               m == At("parsing", t, conn[c].command, "off", "off")
    <3>1. m \in Dispatching /\ m.session = t /\ m.phase = "parsing"
      BY <2>0, Handling DEF At
    <3>2. /\ conn' = [conn EXCEPT ![c] = m]
          /\ active' = [active EXCEPT ![t] = conn[c].target]
          /\ pending' = [pending EXCEPT ![t] = "none"]
      BY <2>2 DEF Land
    <3>3. pending'[t] # active'[t]
      BY <1>0, <2>0, <3>2 DEF Modes
    <3> HIDE DEF m
    <3> QED
      BY <1>0, <2>0, <3>1, <3>2, <3>3, HandlerKeeps
  <2>3. CASE Parse(c)
    <3>1. conn' = [conn EXCEPT ![c] = Parsed(c)] /\ UNCHANGED <<active, pending>>
      BY <2>3 DEF Parse, Parsed, planVars
    <3>2. /\ Parsed(c) \in Dispatching \cup {Waiting}
          /\ Parsed(c) = Waiting \/ Parsed(c).session = conn[c].session
          /\ Parsed(c).phase # "landing"
          /\ Parsed(c).phase = "setting" => Parsed(c).target = TargetOf(Parsed(c).command)
      BY <2>3, ParsedStates DEF Parse
    <3>3. OneHandler'
      BY <1>0, <2>0, <3>1, <3>2, StaysAlone
    <3> QED
      BY <1>0, <3>1, <3>2, <3>3
  <2>4. CASE Set(c)
    <3> DEFINE t == conn[c].session
    <3>1. PICK m \in {AfterCommand(t, conn[c].command), Waiting} :
              /\ conn' = [conn EXCEPT ![c] = m]
              /\ pending' = pending
              /\ \/ active' = active
                 \/ pending[t] = "none" /\ active' = [active EXCEPT ![t] = conn[c].target]
      BY <2>4 DEF Set
    <3>2. /\ m \in Dispatching \cup {Waiting}
          /\ m = Waiting \/ m.session = t
          /\ m.phase \notin {"landing", "setting"}
      BY <2>0, <3>1, Handling
    <3>3. pending'[t] # active'[t]
      BY <1>0, <2>0, <3>1 DEF Modes
    <3> QED
      BY <1>0, <2>0, <3>1, <3>2, <3>3, HandlerKeeps
  <2>5. CASE Declare(c) \/ Resume(c)
    <3> DEFINE t == conn[c].session
    <3>1. PICK m \in {At("resuming", t, conn[c].command, "off", "off"), Waiting} :
              conn' = [conn EXCEPT ![c] = m] /\ UNCHANGED <<active, pending>>
      BY <2>5 DEF Declare, Resume, planVars
    <3>2. /\ m \in Dispatching \cup {Waiting}
          /\ m = Waiting \/ m.session = t
          /\ m.phase \notin {"landing", "setting"}
      <4>1. At("resuming", t, conn[c].command, "off", "off") \in Dispatching
        BY <2>0, Handling
      <4> QED
        BY <3>1, <4>1 DEF At, Waiting
    <3> QED
      BY <1>0, <2>0, <3>1, <3>2, HandlerKeeps
  <2> QED
    BY <1>2, <2>2, <2>3, <2>4, <2>5 DEF ConnStep
<1>3. ASSUME NEW c \in Conns, NEW q \in Questions, NEW v \in Verdicts, Answer(c, q, v)
      PROVE  HandlerInv'
  BY <1>3 DEF Answer, planVars, connVars, OneHandler
<1>4. ASSUME NEW s \in Sessions, RunStep(s) PROVE HandlerInv'
  <2>1. CASE CommitExit(s)
    BY <1>0, <2>1, Handled DEF CommitExit, connVars, OneHandler, Modes
  <2>2. CASE ~CommitExit(s)
    <3>1. UNCHANGED <<active, pending, conn>>
      BY <1>4, <2>2 DEF RunStep, TurnStart, TurnEnd, CallExit, Submit, Park, Receive, Timeout,
                        Cancel, PrepareExit, planVars, connVars
    <3> QED
      BY <3>1 DEF OneHandler
  <2> QED
    BY <2>1, <2>2
<1>5. CASE UNCHANGED vars
  BY <1>5 DEF vars, planVars, connVars, OneHandler
<1> QED
  BY <1>1, <1>2, <1>3, <1>4, <1>5 DEF Next

\* Every step keeps the review's part of the invariant.
LEMMA StepReview == Inv /\ [Next]_vars => ReviewInv'
<1> SUFFICES ASSUME TypeOK, ReviewInv, BoundaryNeverStale, PendingIsAChange, [Next]_vars PROVE ReviewInv'
  BY DEF Inv, HandlerInv
<1> USE SessionAssumption, BoundAssumption DEF ReviewInv
<1>0. /\ run \in [Sessions -> RunPhases] /\ asked \in [Sessions -> 0..MaxReviews]
      /\ parked \in [Sessions -> 0..MaxReviews] /\ questions \subseteq Questions
      /\ answers \in [Questions -> Verdicts \cup {"none"}]
      /\ active \in [Sessions -> Modes] /\ pending \in [Sessions -> Modes \cup {"none"}]
  BY DEF TypeOK
<1>1. ASSUME NEW c \in Conns, NEW s \in Sessions, NEW cmd \in Commands, Prompt(c, s, cmd)
      PROVE  ReviewInv'
  BY <1>1 DEF Prompt, planVars, runVars, brokerVars, AskedInv, QuestionIsAwaited,
              ParkedIsInReview, ExitInv, Question
<1>2. ASSUME NEW c \in Conns, ConnStep(c) PROVE ReviewInv'
  <2>1. /\ UNCHANGED <<run, asked, brokerVars>>
        /\ parked' = parked \/ \E s \in Sessions : parked' = [parked EXCEPT ![s] = 0]
        /\ pending' = pending \/ \E s \in Sessions : pending' = [pending EXCEPT ![s] = "none"]
    BY <1>2, Handled
       DEF ConnStep, Land, Parse, Set, Declare, Resume, planVars, runVars, brokerVars
  <2>2. AskedInv' /\ QuestionIsAwaited'
    BY <2>1 DEF brokerVars, AskedInv, QuestionIsAwaited, Question
  <2>3. ParkedIsInReview'
    BY <1>0, <2>1 DEF brokerVars, ParkedIsInReview
  <2>4. ExitInv'
    BY <1>0, <2>1 DEF brokerVars, ExitInv
  <2> QED
    BY <2>2, <2>3, <2>4
<1>3. ASSUME NEW c \in Conns, NEW q \in Questions, NEW v \in Verdicts, Answer(c, q, v)
      PROVE  ReviewInv'
  <2>1. /\ q \in questions /\ questions' = questions \ {q}
        /\ \A p \in Questions : answers'[p] = IF p = q THEN v ELSE answers[p]
        /\ UNCHANGED <<active, pending, run, asked, parked>>
    BY <1>0, <1>3 DEF Answer, planVars, runVars
  <2>2. q[1] \in Sessions /\ q = Question(q[1]) /\ run[q[1]] \in InReview
    BY <2>1 DEF QuestionIsAwaited, Questions
  <2>3. answers[q] = "none"
    BY <2>1 DEF AskedInv
  <2>4. \A t \in Sessions : run[t] \in {"approved", "exiting"} =>
           Question(t) # q /\ Question(t) \in Questions
    BY <1>0, <2>2 DEF AskedInv, Question, Questions, InReview
  <2>5. AskedInv'
    BY <1>0, <2>1, <2>2, <2>4 DEF AskedInv, Question
  <2>6. QuestionIsAwaited' /\ ParkedIsInReview'
    BY <2>1 DEF QuestionIsAwaited, ParkedIsInReview, Question
  <2>7. ExitInv'
    <3>1. \A t \in Sessions : \A n \in 1..asked[t] : <<t, n>> \in Questions
      BY <1>0 DEF Questions
    <3> QED
      BY <2>1, <2>3, <3>1 DEF ExitInv
  <2> QED
    BY <2>5, <2>6, <2>7
<1>4. ASSUME NEW s \in Sessions, RunStep(s) PROVE ReviewInv'
  <2>0. \A t \in Sessions : \A n \in 1..asked[t] : <<t, n>> \in Questions
    BY <1>0 DEF Questions
  <2>1. CASE TurnStart(s) \/ TurnEnd(s) \/ CallExit(s) \/ Park(s) \/ Timeout(s)
    <3>1. /\ UNCHANGED <<active, pending, asked, questions, answers>>
          /\ \/ parked' = parked
             \/ run[s] = "parking" /\ parked' = [parked EXCEPT ![s] = asked[s]]
      BY <2>1 DEF TurnStart, TurnEnd, CallExit, Park, Timeout, planVars, brokerVars
    <3>2. \E ph \in RunPhases :
            /\ run' = [run EXCEPT ![s] = ph]
            /\ ph \in InReview <=> run[s] \in InReview
            /\ ph \notin {"approved", "exiting"}
            /\ ph = "asking" => asked[s] < MaxReviews
      BY <2>1 DEF TurnStart, TurnEnd, CallExit, Park, Timeout, RunPhases, InReview
    <3>3. AskedInv'
      BY <1>0, <3>1, <3>2 DEF AskedInv, Question, InReview
    <3>4. QuestionIsAwaited' /\ ParkedIsInReview'
      BY <1>0, <3>1, <3>2 DEF QuestionIsAwaited, ParkedIsInReview, Question, InReview
    <3>5. ExitInv'
      BY <3>1 DEF ExitInv
    <3> QED
      BY <3>3, <3>4, <3>5
  <2>2. CASE Submit(s)
    <3> DEFINE q == <<s, asked[s] + 1>>
    <3>1. /\ run[s] = "asking" /\ asked[s] + 1 \in 1..MaxReviews
          /\ asked' = [asked EXCEPT ![s] = @ + 1] /\ run' = [run EXCEPT ![s] = "parking"]
          /\ questions' = questions \cup {q}
          /\ UNCHANGED <<active, pending, parked, answers>>
      BY <1>0, <2>2 DEF Submit, planVars, AskedInv
    <3>2. q \in Questions /\ answers[q] = "none"
      BY <1>0, <3>1 DEF AskedInv, Questions
    <3>3. \A p \in questions : p[1] # s
      BY <3>1 DEF QuestionIsAwaited, InReview
    <3>4. AskedInv'
      <4>1. \A p \in Questions : p[2] > asked'[p[1]] => p[2] > asked[p[1]]
        BY <1>0, <3>1 DEF Questions
      <4> QED
        BY <1>0, <3>1, <3>2, <4>1 DEF AskedInv, Question, InReview
    <3>5. QuestionIsAwaited'
      <4>1. \A p \in questions : p[1] \in Sessions
        BY <1>0 DEF Questions
      <4> QED
        BY <1>0, <3>1, <3>3, <4>1 DEF QuestionIsAwaited, Question, InReview
    <3>6. ParkedIsInReview'
      BY <1>0, <3>1 DEF ParkedIsInReview, InReview
    <3>7. ExitInv'
      <4>1. \A t \in Sessions : \A n \in 1..asked[t] : n \in 1..asked'[t]
        BY <1>0, <3>1
      <4> QED
        BY <3>1, <4>1 DEF ExitInv
    <3> QED
      BY <3>4, <3>5, <3>6, <3>7
  <2>3. CASE Receive(s) \/ Cancel(s)
    <3>1. /\ UNCHANGED <<active, pending, asked, answers>>
          /\ parked' = [parked EXCEPT ![s] = 0]
          /\ run[s] \in InReview
          /\ \E ph \in {"turn", "approved"} :
               /\ run' = [run EXCEPT ![s] = ph]
               /\ ph = "approved" => answers[Question(s)] = "approve"
      BY <2>3 DEF Receive, Cancel, planVars, brokerVars, InReview
    <3>2. questions' = questions \ {Question(s)}
      <4>1. CASE Receive(s)
        BY <4>1 DEF Receive, brokerVars, AskedInv
      <4> QED
        BY <2>3, <4>1 DEF Cancel
    <3>3. AskedInv'
      BY <1>0, <3>1, <3>2 DEF AskedInv, Question, InReview
    <3>4. QuestionIsAwaited'
      <4>1. \A p \in questions' : p \in questions /\ p[1] # s /\ p[1] \in Sessions
        BY <1>0, <3>2 DEF QuestionIsAwaited, Questions
      <4> QED
        BY <1>0, <3>1, <4>1 DEF QuestionIsAwaited, Question
    <3>5. ParkedIsInReview' /\ ExitInv'
      BY <1>0, <3>1 DEF ParkedIsInReview, ExitInv
    <3> QED
      BY <3>3, <3>4, <3>5
  <2>4. CASE PrepareExit(s) \/ CommitExit(s)
    <3>1. /\ UNCHANGED <<active, asked, questions, answers, parked>>
          /\ run[s] \in {"approved", "exiting"}
          /\ \E ph \in {"turn", "exiting"} : run' = [run EXCEPT ![s] = ph]
          /\ pending' = pending \/ pending' = [pending EXCEPT ![s] = "off"]
      BY <1>0, <2>4 DEF PrepareExit, CommitExit, planVars, brokerVars
    <3>2. asked[s] \in 1..asked[s] /\ answers[<<s, asked[s]>>] = "approve"
      BY <1>0, <3>1 DEF AskedInv, Question
    <3>3. AskedInv'
      BY <1>0, <3>1 DEF AskedInv, Question, InReview
    <3>4. QuestionIsAwaited' /\ ParkedIsInReview'
      BY <1>0, <3>1 DEF QuestionIsAwaited, ParkedIsInReview, Question, InReview
    <3>5. ExitInv'
      BY <1>0, <3>1, <3>2 DEF ExitInv
    <3> QED
      BY <3>3, <3>4, <3>5
  <2> QED
    BY <1>4, <2>1, <2>2, <2>3, <2>4 DEF RunStep
<1>5. CASE UNCHANGED vars
  BY <1>5 DEF vars, planVars, connVars, runVars, brokerVars, AskedInv, QuestionIsAwaited,
              ParkedIsInReview, ExitInv, Question
<1> QED
  BY <1>1, <1>2, <1>3, <1>4, <1>5 DEF Next

\* Reachable states have the types of TypeOK.
THEOREM TypeCorrect == Spec => []TypeOK
<1>1. Inv /\ [Next]_vars => Inv'
  BY StepTypes, StepHandler, StepReview DEF Inv
<1> QED
  BY InitInv, <1>1, PTL DEF Spec, Inv

\* The inductive invariant and the safety properties in it: plan mode is never
\* wedged (state.rs), a boundary change never goes stale (dispatch.rs), no
\* question is abandoned and no slot parked for nothing (questions.rs).
THEOREM Inductive ==
  Spec => [](PendingIsAChange /\ BoundaryNeverStale /\ QuestionIsAwaited /\ ParkedIsInReview)
<1>1. Inv /\ [Next]_vars => Inv'
  BY StepTypes, StepHandler, StepReview DEF Inv
<1>2. Inv => PendingIsAChange /\ BoundaryNeverStale /\ QuestionIsAwaited /\ ParkedIsInReview
  BY DEF Inv, HandlerInv, ReviewInv
<1> QED
  BY InitInv, <1>1, <1>2, PTL DEF Spec

\* Only a user ends plan mode, by /plan off or by an approval that a prompt
\* of the session lands (dispatch.rs, questions.rs, plan-mode).
THEOREM UserLeaves == Spec => LeaveByUser
<1> DEFINE Left(s) == \E c \in Conns :
             /\ conn[c].session = s
             /\ \/ conn[c].command = "off"
                \/ conn[c].phase = "landing" /\ \E n \in 1..asked[s] : answers[<<s, n>>] = "approve"
<1>1. Inv /\ [Next]_vars => Inv'
  BY StepTypes, StepHandler, StepReview DEF Inv
<1>2. ASSUME Inv, Next, NEW s \in Sessions, active[s] = "on", active'[s] = "off" PROVE Left(s)
  <2>0. active \in [Sessions -> Modes]
    BY <1>2 DEF Inv, TypeOK
  <2>1. PICK c \in Conns : Land(c) \/ Set(c)
    BY <1>2 DEF Next, ConnStep, RunStep, Prompt, Answer, Parse, Declare, Resume, TurnStart, TurnEnd,
                CallExit, Submit, Park, Receive, Timeout, Cancel, PrepareExit, CommitExit, planVars
  <2>2. conn[c].session = s /\ conn[c].target = "off"
    BY <1>2, <2>0, <2>1, Handled DEF Inv, Land, Set, planVars
  <2>3. CASE Land(c)
    <3>1. conn[c].phase = "landing" /\ pending[s] = "off"
      BY <1>2, <2>2, <2>3 DEF Land, Inv, HandlerInv, BoundaryNeverStale
    <3> QED
      BY <1>2, <2>2, <3>1 DEF Inv, ReviewInv, ExitInv
  <2>4. CASE Set(c)
    BY <1>2, <2>2, <2>4 DEF Set, Inv, HandlerInv, SettingInv, TargetOf
  <2> QED
    BY <2>1, <2>3, <2>4
<1>3. Inv /\ [Next]_vars =>
        [\A s \in Sessions : active[s] = "on" /\ active'[s] = "off" => Left(s)]_vars
  BY <1>2
<1> QED
  BY InitInv, <1>1, <1>3, PTL DEF Spec, LeaveByUser

\* The first accepted answer to a question stands (questions.rs).
THEOREM OneAnswer == Spec => AnsweredOnce
<1>1. Inv /\ [Next]_vars => Inv'
  BY StepTypes, StepHandler, StepReview DEF Inv
<1>2. ASSUME Inv, Next, NEW q \in Questions, answers[q] # "none" PROVE answers'[q] = answers[q]
  <2>1. CASE answers' = answers
    BY <2>1
  <2>2. CASE \E c \in Conns, p \in Questions, v \in Verdicts : Answer(c, p, v)
    <3>1. PICK p \in questions : \E v \in Verdicts : answers' = [answers EXCEPT ![p] = v]
      BY <2>2 DEF Answer
    <3>2. p # q
      BY <1>2 DEF Inv, ReviewInv, AskedInv
    <3> QED
      BY <1>2, <3>1, <3>2 DEF Inv, TypeOK
  <2> QED
    BY <1>2, <2>1, <2>2
       DEF Next, ConnStep, RunStep, Prompt, Land, Parse, Set, Declare, Resume, TurnStart, TurnEnd,
           CallExit, Submit, Park, Receive, Timeout, Cancel, PrepareExit, CommitExit, brokerVars
<1>3. Inv /\ [Next]_vars =>
        [\A q \in Questions : answers[q] # "none" => answers'[q] = answers[q]]_vars
  BY <1>2
<1> QED
  BY InitInv, <1>1, <1>3, PTL DEF Spec, AnsweredOnce
===============================================================================
