----------------------------- MODULE WebClient -----------------------------
(***************************************************************************)
(* The page of the web client (web-ui): what its handlers do at once in    *)
(* memory, and the threads, tasks and the two loops they leave behind.     *)
(* The page keeps the list of sessions, their messages and whether they    *)
(* run; threads send what is stored or prompted to the daemon, with no     *)
(* order between them; one connection brings the events of every turn,     *)
(* which do not say whose they are: the consumer writes them to the        *)
(* session of the last send (run_target_sid).                              *)
(*                                                                         *)
(* A send, the run it starts and the text of its reply have one number.    *)
(* A bubble or a stored row carries the set of the texts in it.  There is  *)
(* one project, and no other client.                                       *)
(***************************************************************************)
EXTENDS Naturals, Sequences, FiniteSets, SequencesExt

CONSTANTS
  Sids, Old,   \* Old: stored before
  NoSid,       \* active_session_id, run_target_sid: ""
  MaxSends,
  MaxMoves         \* bound: what else the user does, and losses of the connection

ASSUME PageAssumption ==
  /\ Old \in Sids /\ NoSid \notin Sids
  /\ MaxSends \in Nat /\ MaxMoves \in Nat

VARIABLES
  backend,   \* DataBackend
  listed,    \* space_sessions, in order
  activeSid, \* active_session_id
  running,   \* the sessions with SessionStatus::Active
  messages,  \* session_messages
  target, live, \* run_target_sid, live_run_id
  ready,     \* ReadinessGate
  link,      \* the connection of worker_event_loop
  sender,    \* [Sends -> the thread of send_message and its two channels]
  rpc,       \* requests of threads that nobody waits for
  stored, rows, \* the daemon's sessions and their messages
  runs, rx,  \* the daemon's turns, and events that were read but not consumed
  past       \* what happened to whom

pageVars == <<backend, listed, activeSid, running, messages, target, live>>
hostVars == <<stored, rows, runs>>
webVars == <<pageVars, ready, link, sender, rpc, hostVars, rx, past>>

Sends == 1..MaxSends
NoSend == 0
Bubble == [who : {"user", "reply"}, of : SUBSET Sends]
PageEvents == [kind : {"start", "text", "end"}, of : Sends]

WebTypeOK ==
  /\ backend \in {"daemon", "disconnected"} /\ link \in BOOLEAN /\ ready \in BOOLEAN
  /\ listed \in Seq(Sids) /\ activeSid \in Sids \cup {NoSid}
  /\ running \subseteq Sids
  /\ \A s \in DOMAIN messages : s \in Sids /\ messages[s] \in Seq(Bubble)
  /\ target \in Sids \cup {NoSid} /\ live \in 0..MaxSends
  /\ sender \in [Sends -> [at : {"idle", "gate", "store", "prompt", "sent", "failed", "over"},
                           sid : Sids \cup {NoSid}]]
  /\ rpc \subseteq [op : {"create", "archive", "reply"}, sid : Sids, of : SUBSET Sends]
  /\ stored \subseteq Sids /\ rows \in [Sids -> Seq(Bubble)]
  /\ runs \in [Sends -> {"none", "queued", "begun", "ended"}]
  /\ rx \in Seq(PageEvents)
  /\ past \in [archived : SUBSET Sids, cut : SUBSET Sends, spoke : SUBSET Sends, overlap : BOOLEAN,
              moves : 0..MaxMoves]

Listed == Range(listed)
UserBubble(r) == [who |-> "user", of |-> {r}]

-----------------------------------------------------------------------------
(* The page.                                                               *)

\* The effect on active_session_id: messages are loaded once.
Show(s, cache) ==
  /\ activeSid' = s
  /\ messages' = IF s = NoSid \/ s \in DOMAIN cache \/ backend' = "disconnected" THEN cache
             ELSE [x \in DOMAIN cache \cup {s} |-> IF x = s THEN rows[s] ELSE cache[x]]

FirstOf(list) == IF list = <<>> THEN NoSid ELSE Head(list)

WebInit ==
  /\ stored = {Old} /\ rows = [s \in Sids |-> <<>>]
  /\ backend = "disconnected" /\ listed = <<>> /\ activeSid = NoSid /\ messages = [s \in {} |-> <<>>]
  /\ running = {} /\ target = NoSid /\ live = NoSend
  /\ ready = FALSE /\ link = FALSE
  /\ sender = [r \in Sends |-> [at |-> "idle", sid |-> NoSid]]
  /\ rpc = {} /\ runs = [r \in Sends |-> "none"] /\ rx = <<>>
  /\ past = [archived |-> {}, cut |-> {}, spoke |-> {}, overlap |-> FALSE, moves |-> 0]

\* The probe of the start, or one that was repeated every three seconds, went through.
Reprobe ==
  /\ backend = "disconnected" /\ backend' = "daemon"
  /\ \E list \in SetToSeqs(stored) : listed' = list /\ Show(FirstOf(list), messages)
  /\ running' = running \cap Range(listed')
  /\ UNCHANGED <<target, live, ready, link, sender, rpc, hostVars, rx, past>>

Cached(s) == IF s \in DOMAIN messages THEN messages[s] ELSE <<>>
Written(s, list) == messages' = [x \in DOMAIN messages \cup {s} |-> IF x = s THEN list ELSE messages[x]]
UserMoves == past.moves < MaxMoves /\ past' = [past EXCEPT !.moves = @ + 1]

\* Ids are times: a new session has a new one.
NewId(s) == s \notin Listed \cup DOMAIN messages \cup past.archived \cup stored

Create(s) ==
  /\ UserMoves /\ NewId(s)
  /\ listed' = <<s>> \o listed /\ activeSid' = s
  /\ messages' = [x \in DOMAIN messages \cup {s} |-> IF x = s THEN <<>> ELSE messages[x]]
  /\ rpc' = IF backend = "daemon" THEN rpc \cup {[op |-> "create", sid |-> s, of |-> {}]} ELSE rpc
  /\ UNCHANGED <<backend, running, target, live, ready, link, sender, hostVars, rx>>

Select(s) ==
  /\ s \in Listed /\ s # activeSid
  /\ Show(s, messages)
  /\ UNCHANGED <<backend, listed, running, target, live, ready, link, sender, rpc, hostVars, rx, past>>

\* archive_session; delete_session differs in what it asks the daemon for.  A session
\* is listed once.
Archive(s) ==
  /\ past.moves < MaxMoves
  /\ \E i \in DOMAIN listed : listed[i] = s /\ listed' = RemoveAt(listed, i)
  /\ LET cache == [x \in DOMAIN messages \ {s} |-> messages[x]]
     IN IF activeSid = s THEN Show(FirstOf(listed'), cache) ELSE messages' = cache /\ UNCHANGED activeSid
  /\ running' = running \ {s}
  /\ rpc' = IF backend = "daemon" THEN rpc \cup {[op |-> "archive", sid |-> s, of |-> {}]} ELSE rpc
  /\ past' = [past EXCEPT !.archived = @ \cup {s}, !.moves = @ + 1]
  /\ UNCHANGED <<backend, target, live, ready, link, sender, hostVars, rx>>

Ended(r) == runs[r] = "ended" /\ \A i \in 1..Len(rx) : rx[i].of # r
Unfinished(r) == sender[r].at \notin {"idle", "failed", "over"} /\ ~Ended(r)

\* send_message in session s, which is listed or new: the composer lets no message
\* out while the session runs.
SendMessage(r, s) ==
  /\ sender[r].at = "idle" /\ \A q \in 1..(r - 1) : sender[q].at # "idle"
  /\ s \notin running /\ IF activeSid \in Listed THEN s = activeSid ELSE NewId(s)
  /\ listed' = IF s \in Listed THEN listed ELSE <<s>> \o listed
  /\ Written(s, Append(Cached(s), UserBubble(r)))
  /\ sender' = [sender EXCEPT ![r] = [at |-> IF backend = "daemon" THEN "gate" ELSE "over", sid |-> s]]
  /\ activeSid' = s
  /\ IF backend = "daemon"
     THEN target' = s /\ live' = r /\ running' = running \cup {s}
     ELSE UNCHANGED <<target, live, running>>
  /\ past' = [past EXCEPT !.overlap = @ \/ \E q \in Sends : Unfinished(q)]
  /\ UNCHANGED <<backend, ready, link, rpc, hostVars, rx>>

\* abort_run: the page does not wait for the turn.
AbortRun ==
  /\ UserMoves /\ activeSid \in running
  /\ live' = NoSend /\ running' = running \ {activeSid}
  /\ UNCHANGED <<backend, listed, activeSid, messages, target, ready, link, sender, rpc, hostVars, rx>>

-----------------------------------------------------------------------------
(* The thread of a send, and the two tasks that hear of it.                *)

ThreadMoves(r, from, to) == sender[r].at = from /\ sender' = [sender EXCEPT ![r].at = to]
AddRow(s, bubble) == stored' = stored \cup {s} /\ rows' = [rows EXCEPT ![s] = Append(@, bubble)]
ThreadOnly == UNCHANGED <<pageVars, ready, link, rpc, rx, past>>

\* run_when_ready: the subscription lives; or it broke, or did not come in time.
Pass(r) == ready /\ ThreadMoves(r, "gate", "store") /\ UNCHANGED hostVars /\ ThreadOnly
\* Mutant: nobody is told.
GiveUpSilently(r) == ~ready /\ ThreadMoves(r, "gate", "sent") /\ UNCHANGED hostVars /\ ThreadOnly
GiveUp(r) == ~ready /\ ThreadMoves(r, "gate", "failed") /\ UNCHANGED hostVars /\ ThreadOnly

\* The session is made sure of, and the message stored.
EnsureAndAppend(r) ==
  /\ ThreadMoves(r, "store", "prompt") /\ AddRow(sender[r].sid, UserBubble(r))
  /\ UNCHANGED runs /\ ThreadOnly

PromptRun(r) ==
  /\ \/ ThreadMoves(r, "prompt", "sent") /\ runs' = [runs EXCEPT ![r] = "queued"]
     \/ ThreadMoves(r, "prompt", "failed") /\ UNCHANGED runs
  /\ UNCHANGED <<stored, rows>> /\ ThreadOnly

\* Mutant: the run of another send is not told apart.
FailSeenAnyRun(r) ==
  /\ ThreadMoves(r, "failed", "over")
  /\ running' = running \ {sender[r].sid}
  /\ live' = NoSend /\ target' = NoSid
  /\ UNCHANGED <<backend, listed, activeSid, messages, ready, link, rpc, hostVars, rx, past>>

\* The task that waits for fail_rx; the status line tells.
FailSeen(r) ==
  /\ ThreadMoves(r, "failed", "over")
  /\ running' = running \ {sender[r].sid}
  /\ IF live = r THEN live' = NoSend /\ target' = NoSid ELSE UNCHANGED <<live, target>>
  /\ UNCHANGED <<backend, listed, activeSid, messages, ready, link, rpc, hostVars, rx, past>>

SendStep(r) ==
  \/ Pass(r) \/ GiveUp(r) \/ EnsureAndAppend(r) \/ PromptRun(r) \/ FailSeen(r)

\* A thread whose request nobody waits for.
RpcStep(q) ==
  /\ q \in rpc /\ rpc' = rpc \ {q}
  /\ CASE q.op = "create" -> stored' = stored \cup {q.sid} /\ UNCHANGED rows
       [] q.op = "archive" -> stored' = stored \ {q.sid} /\ rows' = [rows EXCEPT ![q.sid] = <<>>]
       [] q.op = "reply" -> AddRow(q.sid, [who |-> "reply", of |-> q.of])
  /\ UNCHANGED <<pageVars, ready, link, sender, runs, rx, past>>

-----------------------------------------------------------------------------
(* The events.                                                             *)

\* worker_event_loop: the subscription first, then the gate.
SubscribeEvents ==
  /\ backend = "daemon" /\ ~link /\ link' = TRUE
  /\ UNCHANGED <<pageVars, ready, sender, rpc, hostVars, rx, past>>

MarkReady ==
  /\ link /\ ~ready /\ ready' = TRUE
  /\ UNCHANGED <<pageVars, link, sender, rpc, hostVars, rx, past>>

\* The connection breaks: events of the turns that go on are lost.
Drop ==
  /\ link /\ ready /\ past.moves < MaxMoves /\ link' = FALSE /\ ready' = FALSE
  /\ past' = [past EXCEPT !.moves = @ + 1, !.cut = @ \cup
       {r \in Sends : sender[r].at \in {"store", "prompt", "sent"} /\ runs[r] # "ended"}]
  /\ UNCHANGED <<pageVars, sender, rpc, hostVars, rx>>

\* A turn of the daemon; the turns of one session come one after the other.
Says(r, from, to, kinds) ==
  /\ runs[r] = from /\ runs' = [runs EXCEPT ![r] = to]
  /\ rx' = IF link THEN rx \o [i \in 1..Len(kinds) |-> [kind |-> kinds[i], of |-> r]] ELSE rx
  /\ UNCHANGED <<pageVars, ready, link, sender, rpc, stored, rows>>
RunBegins(r) ==
  /\ \A q \in Sends : sender[q].sid = sender[r].sid => runs[q] # "begun"
  /\ Says(r, "queued", "begun", <<"start">>) /\ UNCHANGED past
RunEnds(r) ==
  \/ Says(r, "begun", "ended", <<"end">>) /\ UNCHANGED past
  \/ Says(r, "begun", "ended", <<"text", "end">>) /\ past' = [past EXCEPT !.spoke = @ \cup {r}]

\* UiState::last_assistant_or_placeholder
WithReply(list) ==
  IF list # <<>> /\ Last(list).who = "reply" THEN list
  ELSE Append(list, [who |-> "reply", of |-> {}])
Spoken(list, r) == [list EXCEPT ![Len(list)].of = @ \cup {r}]

\* session_exists_in
Alive(s) == s \in Listed

\* One event of the consumer's window, for the session of the last send.
ConsumeStart(s) ==
  /\ running' = IF Alive(s) THEN running \cup {s} ELSE running
  /\ UNCHANGED <<messages, live, rpc>>
ConsumeText(s, r) ==
  /\ IF Alive(s) THEN Written(s, Spoken(WithReply(Cached(s)), r)) ELSE UNCHANGED messages
  /\ UNCHANGED <<running, live, rpc>>
ConsumeEnd(s) ==
  /\ IF ~Alive(s) THEN UNCHANGED <<messages, rpc, running>>
     ELSE LET list == WithReply(Cached(s))
          IN /\ Written(s, list) /\ running' = running \ {s}
             /\ rpc' = rpc \cup {[op |-> "reply", sid |-> s, of |-> Last(list).of]}
  /\ live' = NoSend

Consume ==
  /\ rx # <<>> /\ rx' = Tail(rx)
  /\ LET ev == Head(rx)
     IN IF target = NoSid THEN UNCHANGED <<running, messages, live, rpc>>
        ELSE CASE ev.kind = "start" -> ConsumeStart(target)
               [] ev.kind = "text" -> ConsumeText(target, ev.of)
               [] ev.kind = "end" -> ConsumeEnd(target)
  /\ UNCHANGED <<backend, listed, activeSid, target, ready, link, sender, hostVars, past>>

HostRuns == \E r \in Sends : RunBegins(r) \/ RunEnds(r)
PageUser ==
  \/ \E s \in Sids : Create(s) \/ Select(s) \/ Archive(s) \/ \E r \in Sends : SendMessage(r, s)
  \/ AbortRun
WebNext ==
  \/ PageUser \/ Reprobe
  \/ \E r \in Sends : SendStep(r)
  \/ \E q \in rpc : RpcStep(q)
  \/ SubscribeEvents \/ MarkReady \/ Drop \/ HostRuns \/ Consume

\* Threads and tasks run, the gate has a timeout, and the daemon ends its turns.
WebFairness ==
  /\ \A r \in Sends : WF_webVars(SendStep(r)) /\ WF_webVars(RunBegins(r)) /\ WF_webVars(RunEnds(r))
  /\ WF_webVars(Consume)
WebSpec == WebInit /\ [][WebNext]_webVars /\ WebFairness

-----------------------------------------------------------------------------
\* The page writes nothing back to a session that was archived or deleted under a
\* turn that goes on (workspace.rs session_exists_in, actions.rs archive_session).
ArchivedStaysOut == past.archived \cap (DOMAIN messages \cup running \cup Listed) = {}

\* What happened to the run of r lets its reply go astray.
Astray(r) == past.overlap \/ r \in past.cut \/ sender[r].sid \in past.archived

Copies(list, r) == Cardinality({i \in 1..Len(list) : list[i].who = "reply" /\ r \in list[i].of})

\* Though events do not say whose they are, and senders fail late, a reply is shown
\* once, in the session whose prompt it answers, and stored or on its way there
\* alone (workspace.rs consumer, actions.rs run_target_sid, live_run_id).
ReplyAtHome ==
  \A r \in past.spoke : Ended(r) /\ ~Astray(r) =>
    \A s \in Sids :
      LET here == IF s = sender[r].sid THEN 1 ELSE 0
      IN /\ s \in DOMAIN messages => Copies(messages[s], r) = here
         /\ Copies(rows[s], r)
              + Cardinality({q \in rpc : q.op = "reply" /\ q.sid = s /\ r \in q.of}) = here

\* What the page shows is true.
PageTrue == ArchivedStaysOut /\ ReplyAtHome

\* Whatever is sent comes to an end that the user sees: the turn is over and the
\* session idle, or the status line tells what failed (actions.rs fail_rx,
\* readiness.rs run_when_ready).
SendsSettle ==
  \A r \in Sends :
    sender[r].at = "gate" ~>
      (sender[r].at = "over" \/ Astray(r) \/ (Ended(r) /\ sender[r].sid \notin running))
=============================================================================
