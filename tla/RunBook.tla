------------------------------- MODULE RunBook -------------------------------
(***************************************************************************)
(* What the daemon promises about the two durable records of a run, the    *)
(* ledger record and the turn-log boundaries: they advance in one order,   *)
(* nothing is undone while the daemon lives, a death may lose a ledger     *)
(* record and nothing else, and the only shortcut is the repair of a       *)
(* restart.                                                                *)
(***************************************************************************)
EXTENDS Naturals

CONSTANT Runs

VARIABLES book, up

vars == <<book, up>>

\* "opened": in the ledger; "started": TurnStart in the log; "settled": the
\* ledger has the final status; "ended": TurnEnd in the log; "orphaned": the
\* log was closed by a repair, the ledger record is still open; "erased": the
\* ledger record is lost, the log is open; "forgotten": it is lost, the log is
\* closed.
Stages == {"unseen", "opened", "started", "settled", "ended", "orphaned",
           "erased", "forgotten"}

TypeOK == book \in [Runs -> Stages] /\ up \in BOOLEAN

Init == book = [r \in Runs |-> "unseen"] /\ up = TRUE

Move(r, from, to) ==
  up /\ up' = up /\ book[r] = from /\ book' = [book EXCEPT ![r] = to]

Open(r) == Move(r, "unseen", "opened")
Start(r) == Move(r, "opened", "started")
Settle(r) == Move(r, "started", "settled")
End(r) == Move(r, "settled", "ended")

\* What a run is without its ledger record.
Lost(stage) == CASE stage = "opened" -> "unseen"
                 [] stage \in {"started", "settled"} -> "erased"
                 [] stage \in {"ended", "orphaned"} -> "forgotten"
                 [] OTHER -> stage

Crash ==
  /\ up /\ up' = FALSE
  /\ \E gone \in SUBSET Runs :
       book' = [r \in Runs |-> IF r \in gone THEN Lost(book[r]) ELSE book[r]]

Repaired(stage) == CASE stage = "started" -> "orphaned"
                     [] stage = "settled" -> "ended"
                     [] stage = "erased" -> "forgotten"
                     [] OTHER -> stage

Restart ==
  /\ ~up /\ up' = TRUE
  /\ book' = [r \in Runs |-> Repaired(book[r])]

Next ==
  \/ \E r \in Runs : Open(r) \/ Start(r) \/ Settle(r) \/ End(r)
  \/ Crash
  \/ Restart

Spec == Init /\ [][Next]_vars

\* A daemon that stays up finishes the run it opened.
Progress(r) == Start(r) \/ Settle(r) \/ End(r)
Fairness == \A r \in Runs : WF_vars(Progress(r))

FairSpec == Spec /\ Fairness
=============================================================================
