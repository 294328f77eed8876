------------------------------ MODULE MCEdge ------------------------------
(***************************************************************************)
(* What faces the clients and the terminals, side by side: a behaviour     *)
(* picks one part and only that one moves, as in MCEngine.  The client,    *)
(* which moves by itself, is off when another part is picked.  The parts   *)
(* are extended, so that what is assumed and proved of them is of the very *)
(* definitions that are checked here.                                      *)
(***************************************************************************)
EXTENDS PlanReview, Terminal, EventBus, TuiClient, WebClient

VARIABLE part

PartInit ==
  /\ part \in {"plan", "terminal", "bus", "tui", "web"}
  /\ Init /\ TermInit /\ BusInit /\ WebInit
  /\ Fresh /\ phase = IF part = "tui" THEN "rewind" ELSE "off"

PlanStep == part = "plan" /\ Next
  /\ UNCHANGED <<part, termVars, busVars, tuiVars, webVars>>
TtyStep == part = "terminal" /\ TermNext
  /\ UNCHANGED <<part, vars, busVars, tuiVars, webVars>>
BusStep == part = "bus" /\ BusNext
  /\ UNCHANGED <<part, vars, termVars, tuiVars, webVars>>
TuiStep == part = "tui" /\ TuiNext
  /\ UNCHANGED <<part, vars, termVars, busVars, webVars>>
WebStep == part = "web" /\ WebNext
  /\ UNCHANGED <<part, vars, termVars, busVars, tuiVars>>
PartNext == PlanStep \/ TtyStep \/ BusStep \/ TuiStep \/ WebStep

PartSpec ==
  /\ PartInit /\ [][PartNext]_<<part, vars, termVars, busVars, tuiVars, webVars>>
  /\ Fairness /\ TermFairness /\ BusFairness /\ TuiFairness /\ WebFairness

-----------------------------------------------------------------------------
TerminalEnds == OutputDrains /\ ThreadsEnd
\* Both clients follow a turn to its end, and no send hangs.
ClientsFollow == TurnIsSeen /\ SendsSettle
=============================================================================
