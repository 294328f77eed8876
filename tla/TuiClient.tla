------------------------------ MODULE TuiClient ------------------------------
(***************************************************************************)
(* The full-screen client (tui, app.rs): one thread that sends what is     *)
(* queued, takes a key, absorbs events, and begins again.  It keeps a      *)
(* projection of one session (view), a queue of prompts, and rewrites of   *)
(* the session's history that wait for their turn.  The daemon keeps the   *)
(* messages of the sessions and runs their turns.                          *)
(*                                                                         *)
(* A prompt is the number of its submission; the turn it starts and the    *)
(* reply to it have that number too.  Nobody else writes to the sessions   *)
(* that this client shows; others may run turns of their own (Foreign).    *)
(***************************************************************************)
EXTENDS Naturals, Sequences, SequencesExt

CONSTANTS
  TuiSessions, Home, \* Home: the session of the start
  Silent,          \* turns that say nothing, only call tools
  Reloads,         \* does the history load again whenever a rewind went through?
  Foreign,         \* bound: turns of other clients
  MaxQueue,        \* MAX_QUEUE_ITEMS
  MaxSubmits,      \* bound: submissions
  MaxRewrites      \* bound: retries, edits, rewinds and switches

VARIABLES
  phase,    \* where the event loop is
  session,  \* App.session_id
  scoped,   \* App.run_scoped
  current,  \* App.running, current_run (0: idle)
  outgoing, \* App.outgoing
  planned,  \* App.truncate_pending, edit_pending, rewind_confirm, rewind_pending
  view,     \* App.ui.messages
  stream,   \* rx: turns that ended, of any session
  runStream,\* run_rx
  ledger,   \* [Sessions -> messages]
  turn,     \* [Sessions -> turns the engine has to do]
  abort,    \* what the last abort was meant for, and what it hit
  count     \* what the bounds count

appVars == <<session, scoped, current, outgoing, planned, view>>
daemonVars == <<ledger, turn>>
streamVars == <<stream, runStream>>
tuiVars == <<phase, appVars, streamVars, daemonVars, abort, count>>

Submits == 1..MaxSubmits
NoneShown == "none"
Message == [role : {"user", "reply"}, of : 0..MaxSubmits]
Shown == [role : {"user", "reply"}, of : 0..MaxSubmits, seq : Nat]
NoStream == [run |-> 0, ended |-> FALSE]

TuiTypeOK ==
  /\ phase \in {"rewind", "send", "key", "stream", "runStream"}
  /\ session \in TuiSessions /\ scoped \in BOOLEAN /\ current \in 0..MaxSubmits
  /\ outgoing \in Seq(Submits) /\ Len(outgoing) <= MaxQueue
  /\ planned \in [truncate : Nat, edit : Nat, keep : Nat, confirm : Nat, rewind : Nat]
  /\ view \in Seq(Shown)
  /\ stream \in Seq(0..MaxSubmits)
  /\ runStream \in [run : 0..MaxSubmits, ended : BOOLEAN]
  /\ ledger \in [TuiSessions -> Seq(Message)] /\ turn \in [TuiSessions -> Seq(Submits)]
  /\ abort \in [meant : TuiSessions \cup {NoneShown}, hit : TuiSessions \cup {NoneShown}]
  /\ count \in [submits : 0..MaxSubmits, rewrites : 0..MaxRewrites, foreign : 0..Foreign]

NothingPending == [truncate |-> 0, edit |-> 0, keep |-> 0, confirm |-> 0, rewind |-> 0]

Fresh ==
  /\ session = Home /\ scoped = FALSE /\ current = 0 /\ outgoing = <<>>
  /\ planned = NothingPending /\ view = <<>>
  /\ stream = <<>> /\ runStream = NoStream
  /\ ledger = [s \in TuiSessions |-> <<>>] /\ turn = [s \in TuiSessions |-> <<>>]
  /\ abort = [meant |-> NoneShown, hit |-> NoneShown]
  /\ count = [submits |-> 0, rewrites |-> 0, foreign |-> 0]

TuiInit == phase = "rewind" /\ Fresh

User(p, seq) == [role |-> "user", of |-> p, seq |-> seq]
Shows(p, seq) == [role |-> "reply", of |-> p, seq |-> seq]
Loaded(msgs) == [i \in 1..Len(msgs) |-> [role |-> msgs[i].role, of |-> msgs[i].of, seq |-> i]]
Before(msgs, seq) == SubSeq(msgs, 1, seq - 1)
GoTo(from, to) == phase = from /\ phase' = to

\* adopt_session: nothing that was pending goes along.
Adopt(s, msgs) ==
  /\ session' = s /\ view' = Loaded(msgs)
  /\ outgoing' = <<>> /\ current' = 0 /\ planned' = NothingPending

-----------------------------------------------------------------------------
(* What goes out.                                                          *)

\* A confirmed rewind: the tail is discarded and the view loaded again, as after
\* a switch; when the daemon refuses, nothing changes.  When only the reload fails,
\* the view stays as it was.
TakeRewind ==
  /\ GoTo("rewind", "send")
  /\ IF planned.rewind = 0 THEN UNCHANGED <<appVars, ledger>>
     ELSE \/ /\ ledger' = [ledger EXCEPT ![session] = Before(@, planned.rewind)]
             /\ Adopt(session, ledger'[session]) /\ scoped' = TRUE
          \/ planned' = [planned EXCEPT !.rewind = 0]
             /\ \/ UNCHANGED ledger
                \/ ~Reloads /\ ledger' = [ledger EXCEPT ![session] = Before(@, planned.rewind)]
             /\ UNCHANGED <<session, scoped, current, outgoing, view>>
  /\ UNCHANGED <<streamVars, turn, abort, count>>

Rewritten(s) == IF planned.truncate = 0 THEN ledger[s] ELSE Before(ledger[s], planned.truncate)
Typed(p) == [role |-> "user", of |-> p]
Unsent == current # 0 \/ outgoing = <<>>

\* Mutant: the tail is cut after the prompt is stored.
CutAfterAppend(p) ==
  IF planned.truncate = 0 THEN Append(ledger[session], Typed(p))
  ELSE Before(Append(ledger[session], Typed(p)), planned.truncate)

\* The tail is cut before the prompt is stored.
Stored(p) == Append(Rewritten(session), Typed(p))

\* The subscription first, then the prompt.
StartTurn(p) ==
  /\ runStream' = IF scoped THEN [run |-> p, ended |-> FALSE] ELSE runStream
  /\ turn' = [turn EXCEPT ![session] = Append(@, p)]
  /\ UNCHANGED stream

\* take_prompt, push_user_message, note_appended_seq, spawn_run_stream, spawn_prompt
Deliver ==
  /\ GoTo("send", "key") /\ ~Unsent
  /\ LET p == Head(outgoing) IN
     /\ ledger' = [ledger EXCEPT ![session] = Stored(p)]
     /\ view' = Append(view, User(p, Len(Rewritten(session)) + 1))
     /\ current' = p /\ outgoing' = Tail(outgoing)
     /\ StartTurn(p)
  /\ planned' = [planned EXCEPT !.truncate = 0, !.confirm = 0]
  /\ UNCHANGED <<session, scoped, abort, count>>

Nothing == GoTo("send", "key") /\ Unsent /\ UNCHANGED <<appVars, streamVars, daemonVars, abort, count>>

-----------------------------------------------------------------------------
(* One key.  A confirmation takes every key.                               *)

Key == GoTo("key", "stream")
Unasked == planned.confirm = 0
AtRest == current = 0 /\ outgoing = <<>>

NoKey == Key /\ UNCHANGED <<appVars, streamVars, daemonVars, abort, count>>

\* submit_line, enqueue: a full queue leaves the text where it is.  A prompt that
\* was an edit takes the place of what it edits.
SubmitLine ==
  /\ Key /\ Unasked
  /\ count.submits < MaxSubmits /\ count' = [count EXCEPT !.submits = @ + 1]
  /\ IF Len(outgoing) < MaxQueue
     THEN /\ outgoing' = Append(outgoing, count.submits + 1)
          /\ IF planned.edit # 0
             THEN /\ planned' = [planned EXCEPT !.truncate = planned.edit, !.edit = 0, !.keep = 0]
                  /\ view' = SubSeq(view, 1, planned.keep)
             ELSE UNCHANGED <<planned, view>>
     ELSE UNCHANGED <<outgoing, planned, view>>
  /\ UNCHANGED <<session, scoped, current, streamVars, daemonVars, abort>>

Recall ==
  /\ Key /\ Unasked /\ outgoing # <<>>
  /\ outgoing' = Front(outgoing)
  /\ UNCHANGED <<session, scoped, current, planned, view, streamVars, daemonVars, abort, count>>

Rewrite ==
  /\ Key /\ Unasked
  /\ count.rewrites < MaxRewrites /\ count' = [count EXCEPT !.rewrites = @ + 1]
  /\ UNCHANGED <<scoped, streamVars, daemonVars, abort>>

\* A message whose place in the session is known.
Target(i) == view[i].role = "user" /\ view[i].seq > 0

\* retry_focused: queued again, and cut with what follows.
Retry(i) ==
  /\ Key /\ Unasked /\ AtRest /\ planned.edit = 0 /\ Target(i)
  /\ count.rewrites < MaxRewrites /\ count.submits < MaxSubmits
  /\ count' = [count EXCEPT !.rewrites = @ + 1, !.submits = @ + 1]
  /\ outgoing' = Append(outgoing, count.submits + 1)
  /\ planned' = [planned EXCEPT !.truncate = view[i].seq]
  /\ view' = SubSeq(view, 1, i - 1)
  /\ UNCHANGED <<session, scoped, current, streamVars, daemonVars, abort>>

\* edit_focused: its text goes to the composer.
Edit(i) ==
  /\ Rewrite /\ AtRest /\ planned.edit = 0 /\ Target(i)
  /\ planned' = [planned EXCEPT !.edit = view[i].seq, !.keep = i - 1]
  /\ UNCHANGED <<session, current, outgoing, view>>

\* retire_stale_edit: an empty composer gives the edit up.
Discard ==
  /\ Key /\ Unasked /\ planned.edit # 0
  /\ planned' = [planned EXCEPT !.edit = 0, !.keep = 0]
  /\ UNCHANGED <<session, scoped, current, outgoing, view, streamVars, daemonVars, abort, count>>

\* start_rewind; the composer, and an edit in it, is given up to the command.
AskRewind(i) ==
  /\ Rewrite /\ AtRest /\ Target(i)
  /\ planned' = [planned EXCEPT !.confirm = view[i].seq, !.edit = 0, !.keep = 0]
  /\ UNCHANGED <<session, current, outgoing, view>>

Decide ==
  /\ Key /\ ~Unasked
  /\ \E yes \in BOOLEAN :
       planned' = [planned EXCEPT !.rewind = IF yes THEN planned.confirm ELSE 0, !.confirm = 0]
  /\ UNCHANGED <<session, scoped, current, outgoing, view, streamVars, daemonVars, abort, count>>

\* /clear: the view alone, and what pointed into it.
Clear ==
  /\ Key /\ Unasked /\ current = 0
  /\ view' = <<>> /\ planned' = NothingPending
  /\ UNCHANGED <<session, scoped, current, outgoing, streamVars, daemonVars, abort, count>>

\* Ctrl+K, /sessions: the picker, when no turn runs.
Switch(s) ==
  /\ Key /\ Unasked /\ current = 0
  /\ count.rewrites < MaxRewrites /\ count' = [count EXCEPT !.rewrites = @ + 1]
  /\ Adopt(s, ledger[s]) /\ scoped' = TRUE /\ runStream' = NoStream
  /\ UNCHANGED <<stream, daemonVars, abort>>

\* Esc while a turn runs: the event loop's sid is the one it was started with.
Abort ==
  /\ Key /\ Unasked /\ current # 0
  /\ abort' = [meant |-> session, hit |-> Home]
  /\ UNCHANGED <<appVars, streamVars, daemonVars, count>>

Keys ==
  \/ NoKey \/ SubmitLine \/ Recall \/ Discard \/ Decide \/ Clear \/ Abort
  \/ \E i \in 1..Len(view) : Retry(i) \/ Edit(i) \/ AskRewind(i)
  \/ \E s \in TuiSessions : Switch(s)

-----------------------------------------------------------------------------
(* Events.                                                                 *)

ReplyTo(p) == [role |-> "reply", of |-> p]

\* absorb of a turn's end: the text, if any, is stored in the session that is shown.
Finish(p) ==
  /\ ledger' = IF p \in Silent THEN ledger
               ELSE [ledger EXCEPT ![session] = Append(@, ReplyTo(p))]
  /\ view' = Append(view, Shows(p, 0))
  /\ current' = 0

\* The stream of every session is the view's until the first switch.
Absorb ==
  /\ phase = "stream" /\ stream # <<>>
  /\ stream' = Tail(stream)
  /\ IF scoped THEN UNCHANGED <<current, view, ledger>> ELSE Finish(Head(stream))
  /\ UNCHANGED <<phase, session, scoped, outgoing, planned, runStream, turn, abort, count>>

Drained ==
  /\ GoTo("stream", "runStream") /\ stream = <<>>
  /\ UNCHANGED <<appVars, streamVars, daemonVars, abort, count>>

\* Then the stream of one run.
AbsorbRun ==
  /\ GoTo("runStream", "rewind")
  /\ IF runStream.ended
     THEN Finish(runStream.run) /\ runStream' = NoStream
     ELSE UNCHANGED <<current, view, ledger, runStream>>
  /\ UNCHANGED <<session, scoped, outgoing, planned, stream, turn, abort, count>>

-----------------------------------------------------------------------------
(* The daemon (external).                                                  *)

TurnEnds(s) ==
  /\ turn[s] # <<>>
  /\ turn' = [turn EXCEPT ![s] = Tail(@)]
  /\ stream' = Append(stream, Head(turn[s]))
  /\ runStream' = [runStream EXCEPT !.ended = @ \/ runStream.run = Head(turn[s])]
  /\ UNCHANGED <<phase, appVars, ledger, abort, count>>

ForeignTurn ==
  /\ count.foreign < Foreign
  /\ count' = [count EXCEPT !.foreign = @ + 1]
  /\ stream' = Append(stream, 0)
  /\ UNCHANGED <<phase, appVars, runStream, daemonVars, abort>>

-----------------------------------------------------------------------------
Loop == TakeRewind \/ Deliver \/ Nothing \/ Keys \/ Absorb \/ Drained \/ AbsorbRun
Turns == \E s \in TuiSessions : TurnEnds(s)

TuiNext == Loop \/ Turns \/ ForeignTurn

\* The loop goes round, with or without a key, and turns end.
TuiFairness == WF_tuiVars(Loop) /\ \A s \in TuiSessions : WF_tuiVars(TurnEnds(s))

TuiSpec == TuiInit /\ [][TuiNext]_tuiVars /\ TuiFairness

-----------------------------------------------------------------------------
(* Properties.                                                             *)

\* A place that the view knows is the message's place in the session, after any
\* retries, edits, rewinds and switches: what is cut there is what was pointed at.
ViewNamesLedger ==
  \A i \in 1..Len(view) : view[i].seq > 0 =>
    /\ view[i].seq <= Len(ledger[session])
    /\ ledger[session][view[i].seq] = [role |-> view[i].role, of |-> view[i].of]

\* Every reply is stored right after its own prompt, and once.
RepliesFollow ==
  \A s \in TuiSessions : \A i \in 1..Len(ledger[s]) :
    ledger[s][i].role = "reply" => i > 1 /\ ledger[s][i - 1] = Typed(ledger[s][i].of)

\* The view is the ledger's, whatever was retried, edited, rewound and switched.
ViewIsLedger == ViewNamesLedger /\ RepliesFollow

\* A turn that is delivered is seen to end, and what it said is stored.
TurnIsSeen == \A p \in Submits :
  (current = p) ~> (current # p /\ (p \in Silent \/ \E s \in TuiSessions : Contains(ledger[s], ReplyTo(p))))

\* An abort is for the session whose turn is shown: sent without the session, it
\* "hits the engine that runs no turn" (web-client, abort_worker).
AbortHitsShown == abort.hit = abort.meant
=============================================================================
