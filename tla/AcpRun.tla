------------------------------- MODULE AcpRun -------------------------------
(***************************************************************************)
(* A subagent that is a process of its own (subagent, acp_provider.rs and  *)
(* acp.rs), from the tool call that starts it to the call or the thread    *)
(* that retires it (runtime.rs, tool_subagent.rs).  Five threads share its *)
(* pipes: the worker that drives the turn, the reader of its answers, the  *)
(* watcher that polls for its exit, whoever interrupts the run, and the    *)
(* one that waits for the result.                                          *)
(*                                                                         *)
(* A line is written under the writer's lock and, chunk by chunk, under    *)
(* the lock of stdin itself; a chunk for which the pipe has no room waits  *)
(* there, with both, until the other end is read or closed.                *)
(*                                                                         *)
(* The agent is external: it reads or not, answers or not, asks for        *)
(* permissions, leaves its end of the pipe to a child of its own, exits    *)
(* when it likes, and for certain only when it is killed.  Texts and       *)
(* graces are left out; a grace may end at any time.                       *)
(***************************************************************************)
EXTENDS Naturals

CONSTANT MaxPermits  \* bound: permissions the agent asks for

VARIABLES
  agent,     \* the process: not spawned, alive, exited, reaped
  handle,    \* the Child is in its cell, for whoever waits for it
  stdin,     \* the pipe to the agent has not been taken away
  open,      \* somebody has the other end of that pipe
  writer,    \* who has the writer's lock, and whether in a write to the pipe
  permits,   \* permissions asked for, and whether the reader owes the answer
  asked,     \* the agent has a request to answer
  channel,   \* the reply channel of the worker's request
  worker,    \* how far the worker is
  disposed,  \* AcpDisposer.disposed
  signal,    \* the request's abort flag
  ladder,    \* how far the dispose ladder is, and who climbs down it
  watcher,   \* the exit watcher
  table,     \* the run in the table of live runs: not yet, there, gone
  locked,    \* interrupt holds the lock of that table
  result,    \* what the worker sent
  retired    \* the run was settled, or finished

vars == <<agent, handle, stdin, open, writer, permits, asked, channel, worker, disposed, signal,
          ladder, watcher, table, locked, result, retired>>

Requests == {"initialize", "session/new", "session/prompt"}
Writers == {"worker", "reader", "ladder"}
Steps == {"none", "signal", "cancel", "close", "take", "eofGrace", "kill", "killGrace", "reap", "done"}

TypeOK ==
  /\ agent \in {"none", "alive", "exited", "reaped"}
  /\ {handle, stdin, open, asked, disposed, signal, locked, retired} \subseteq BOOLEAN
  /\ writer \in [by : Writers \cup {"nobody"}, inside : BOOLEAN]
  /\ permits \in [asked : 0..MaxPermits, owed : BOOLEAN]
  /\ table \in {"new", "live", "gone"}
  /\ channel \in {"none", "pending", "answered", "refused", "dropped"}
  /\ worker \in [at : {"gate", "insert", "write", "wait", "failing", "rollback", "rolling", "ended"},
                 request : Requests]
  /\ ladder \in [at : Steps, by : {"worker", "interrupt"}]
  /\ watcher \in {"none", "polls", "closes", "gone"}
  /\ result \in {"none", "completed", "failed", "aborted"}

Init ==
  /\ agent = "none" /\ handle = FALSE /\ stdin = FALSE /\ open = FALSE /\ asked = FALSE
  /\ writer = [by |-> "nobody", inside |-> FALSE] /\ permits = [asked |-> 0, owed |-> FALSE]
  /\ channel = "none"
  /\ worker = [at |-> "gate", request |-> "initialize"]
  /\ disposed = FALSE /\ signal = FALSE
  /\ ladder = [at |-> "none", by |-> "worker"]
  /\ watcher = "none" /\ table = "new" /\ locked = FALSE
  /\ result = "none" /\ retired = FALSE

lines == <<writer, permits, asked>>
pipes == <<stdin, lines, channel>>
process == <<agent, handle, open>>
teardown == <<disposed, signal, ladder>>
runtime == <<table, locked, retired>>

-----------------------------------------------------------------------------
(* SubagentTool::execute and SubagentRuntimeService                        *)

\* start spawns the agent, its watcher and the worker; a spawn that fails
\* leaves a run with nothing to dispose of.
Start(spawned) ==
  /\ agent = "none" /\ result = "none"
  /\ IF spawned
     THEN /\ agent' = "alive" /\ watcher' = "polls"
          /\ handle' = TRUE /\ stdin' = TRUE /\ open' = TRUE
          /\ UNCHANGED <<worker, result>>
     ELSE /\ result' = "failed" /\ worker' = [worker EXCEPT !.at = "ended"]
          /\ UNCHANGED <<process, stdin, watcher>>
  /\ UNCHANGED <<lines, channel, teardown, runtime>>

Started == agent # "none" \/ result # "none"

\* The run enters the table after the start.
Enter ==
  /\ Started /\ table = "new"
  /\ table' = "live"
  /\ UNCHANGED <<process, pipes, worker, teardown, watcher, result, locked, retired>>

\* The parent's turn is aborted: the flag is the run's own.
Abort ==
  /\ ~signal
  /\ signal' = TRUE
  /\ UNCHANGED <<process, pipes, worker, disposed, ladder, watcher, result, runtime>>

\* interrupt takes the run out of the table and disposes of it, under the
\* lock of the table; a run that is disposed of already is left alone.
Interrupt ==
  /\ table = "live"
  /\ table' = "gone"
  /\ IF disposed \/ agent = "none"
     THEN UNCHANGED <<locked, disposed, ladder>>
     ELSE locked' = TRUE /\ disposed' = TRUE /\ ladder' = [at |-> "signal", by |-> "interrupt"]
  /\ UNCHANGED <<process, pipes, worker, signal, watcher, result, retired>>

\* settle (by the thread that watches a background run) and finish_run
Retire ==
  /\ result # "none" /\ ~retired /\ ~locked /\ table # "new"
  /\ table' = "gone" /\ retired' = TRUE
  /\ UNCHANGED <<process, pipes, worker, teardown, watcher, result, locked>>

-----------------------------------------------------------------------------
(* run_turn                                                                *)

To(place) == worker' = [worker EXCEPT !.at = place]
End(outcome) == To("ended") /\ result' = outcome

\* The first to dispose of the run climbs down the ladder; the worker waits for
\* its own.
Dispose(then) ==
  IF disposed THEN then /\ UNCHANGED <<disposed, ladder>>
  ELSE /\ disposed' = TRUE /\ ladder' = [at |-> "signal", by |-> "worker"]
       /\ To("rolling") /\ UNCHANGED result

Gate ==
  /\ worker.at = "gate" /\ agent # "none"
  /\ IF signal THEN Dispose(End("aborted"))
     ELSE To("insert") /\ UNCHANGED <<result, disposed, ladder>>
  /\ UNCHANGED <<process, pipes, signal, watcher, runtime>>

\* request_value: the reply channel is in the table before the line is written.
Insert ==
  /\ worker.at = "insert"
  /\ channel' = "pending"
  /\ To("write")
  /\ UNCHANGED <<process, stdin, lines, teardown, watcher, result, runtime>>

NextRequest == IF worker.request = "initialize" THEN "session/new" ELSE "session/prompt"

\* An answer: the next request, or the end of the turn.
Answered ==
  /\ worker.at = "wait" /\ channel = "answered"
  /\ channel' = "none"
  /\ IF worker.request # "session/prompt"
     THEN worker' = [at |-> "insert", request |-> NextRequest] /\ UNCHANGED result
     ELSE \E outcome \in {"completed", "failed", "aborted"} :
            End(IF disposed THEN "aborted" ELSE outcome)
  /\ UNCHANGED <<process, stdin, lines, teardown, watcher, runtime>>

\* A channel that was dropped, or an answer that is an error.
Unanswered ==
  /\ worker.at = "wait" /\ channel \in {"dropped", "refused"}
  /\ To("failing")
  /\ UNCHANGED <<process, pipes, teardown, watcher, result, runtime>>

\* A turn that was interrupted is aborted; a start that failed is rolled back;
\* a prompt that failed is reported, and the agent left as it is.
Failing ==
  /\ worker.at = "failing"
  /\ IF worker.request = "session/prompt"
     THEN End(IF disposed /\ channel = "dropped" THEN "aborted" ELSE "failed")
     ELSE IF disposed THEN End("aborted") ELSE To("rollback") /\ UNCHANGED result
  /\ UNCHANGED <<process, pipes, teardown, watcher, runtime>>

Rollback ==
  /\ worker.at = "rollback"
  /\ Dispose(End("failed"))
  /\ UNCHANGED <<process, pipes, signal, watcher, runtime>>

RolledBack ==
  /\ worker.at = "rolling" /\ ladder.at = "done"
  /\ End(IF channel = "none" THEN "aborted" ELSE "failed")
  /\ UNCHANGED <<process, pipes, teardown, watcher, runtime>>

-----------------------------------------------------------------------------
(* AcpDisposer::dispose                                                    *)

Climb(from, to) == ladder.at = from /\ ladder' = [ladder EXCEPT !.at = to]
Close == channel' = IF channel = "pending" THEN "dropped" ELSE channel

RaiseSignal ==
  /\ Climb("signal", "cancel") /\ signal' = TRUE
  /\ UNCHANGED <<process, pipes, worker, disposed, watcher, result, runtime>>

\* Without a session there is nothing to cancel; otherwise a line to write.
Session == worker.request = "session/prompt"

NoCancel ==
  /\ Climb("cancel", "close") /\ ~Session
  /\ UNCHANGED <<process, pipes, worker, disposed, signal, watcher, result, runtime>>

CloseChannels ==
  /\ Climb("close", "take") /\ Close
  /\ UNCHANGED <<process, stdin, lines, worker, disposed, signal, watcher, result, runtime>>

\* Not while a chunk is written, but between two it may.
TakeStdin ==
  /\ Climb("take", "eofGrace") /\ ~writer.inside
  /\ stdin' = FALSE
  /\ UNCHANGED <<process, lines, channel, worker, disposed, signal, watcher, result, runtime>>

\* wait_for_exit sees the exit, or that somebody took the handle.
SeeExit ==
  /\ ladder.at \in {"eofGrace", "killGrace"} /\ agent # "alive"
  /\ ladder' = [ladder EXCEPT !.at = "reap"]
  /\ agent' = "reaped" /\ handle' = FALSE
  /\ UNCHANGED <<open, pipes, worker, disposed, signal, watcher, result, runtime>>

GraceOver ==
  /\ \/ Climb("eofGrace", "kill") \/ Climb("killGrace", "reap")
  /\ UNCHANGED <<process, pipes, worker, disposed, signal, watcher, result, runtime>>

\* A child of the agent's may keep its end of the pipe.
Dies(heir) == agent' = "exited" /\ open' = (open /\ heir)

Kill ==
  /\ Climb("kill", "killGrace")
  /\ IF agent = "alive" THEN \E heir \in BOOLEAN : Dies(heir) ELSE UNCHANGED <<agent, open>>
  /\ UNCHANGED <<handle, pipes, worker, disposed, signal, watcher, result, runtime>>

\* The handle is taken, and the process waited for.
Reap ==
  /\ Climb("reap", "done") /\ agent # "alive"
  /\ agent' = "reaped" /\ handle' = FALSE
  /\ locked' = (locked /\ ladder.by # "interrupt")
  /\ UNCHANGED <<open, pipes, worker, disposed, signal, watcher, result, table, retired>>

LadderStep ==
  \/ RaiseSignal \/ NoCancel \/ CloseChannels \/ TakeStdin
  \/ SeeExit \/ GraceOver \/ Kill \/ Reap

-----------------------------------------------------------------------------
(* write_json: a request of the worker, the reader's answer to a permission *)
(* and the ladder's cancel                                                  *)

Wants(w) ==
  CASE w = "worker" -> worker.at = "write"
    [] w = "reader" -> permits.owed
    [] w = "ladder" -> ladder.at = "cancel" /\ Session

Lock(w) ==
  /\ writer.by = "nobody" /\ Wants(w)
  /\ writer' = [by |-> w, inside |-> FALSE]
  /\ UNCHANGED <<process, stdin, permits, asked, channel, worker, teardown, watcher, result, runtime>>

\* The line is written, or cannot be; the ladder and the reader go on either way.
Return(sent) ==
  /\ writer' = [by |-> "nobody", inside |-> FALSE]
  /\ IF writer.by = "worker"
     THEN /\ To(IF sent THEN "wait" ELSE "failing")
          /\ asked' = (asked \/ sent)
          /\ channel' = IF sent THEN channel ELSE "refused"
     ELSE UNCHANGED <<worker, asked, channel>>
  /\ permits' = IF writer.by = "reader" THEN [permits EXCEPT !.owed = FALSE] ELSE permits
  /\ ladder' = IF writer.by = "ladder" THEN [ladder EXCEPT !.at = "close"] ELSE ladder
  /\ UNCHANGED <<process, stdin, disposed, signal, watcher, result, runtime>>

\* A chunk goes to the pipe, unless stdin was taken away.
Chunk ==
  /\ writer.by # "nobody" /\ ~writer.inside
  /\ IF stdin
     THEN /\ writer' = [writer EXCEPT !.inside = TRUE]
          /\ UNCHANGED <<process, stdin, permits, asked, channel, worker, teardown, watcher, result, runtime>>
     ELSE Return(FALSE)

\* Nobody has the other end any more.
Broken == writer.inside /\ ~open /\ Return(FALSE)

\* The pipe has room, which those at its other end make as they like: for the
\* whole line, or for a chunk of it.
Flows(whole) ==
  /\ writer.inside /\ open
  /\ IF whole THEN Return(TRUE)
     ELSE /\ writer' = [writer EXCEPT !.inside = FALSE]
          /\ UNCHANGED <<process, stdin, permits, asked, channel, worker, teardown, watcher, result, runtime>>

-----------------------------------------------------------------------------
(* spawn_exit_watcher                                                      *)

\* Mutant: a handle that is gone is nothing to watch.
ExitInCell == handle /\ agent # "alive"

Exit == ~handle \/ agent # "alive"

WatcherSees ==
  /\ watcher = "polls" /\ Exit
  /\ watcher' = "closes"
  /\ agent' = IF agent = "exited" /\ handle THEN "reaped" ELSE agent
  /\ UNCHANGED <<handle, open, pipes, worker, teardown, result, runtime>>

WatcherCloses ==
  /\ watcher = "closes"
  /\ watcher' = "gone" /\ Close
  /\ UNCHANGED <<process, stdin, lines, worker, teardown, result, runtime>>

-----------------------------------------------------------------------------
(* The agent (external), and serve, the reader of its answers.             *)

\* A child that has the agent's end of the pipe may speak for it.
Speaks == agent = "alive" \/ open

Reply(good) ==
  /\ Speaks /\ asked /\ ~permits.owed
  /\ asked' = FALSE
  /\ channel' = IF channel # "pending" THEN channel ELSE IF good THEN "answered" ELSE "refused"
  /\ UNCHANGED <<process, stdin, writer, permits, worker, teardown, watcher, result, runtime>>

\* The reader reads nothing else until it has written the answer.
AskPermission ==
  /\ Speaks /\ ~permits.owed /\ permits.asked < MaxPermits
  /\ permits' = [asked |-> permits.asked + 1, owed |-> TRUE]
  /\ UNCHANGED <<process, stdin, writer, asked, channel, worker, teardown, watcher, result, runtime>>

AgentExits ==
  /\ agent = "alive"
  /\ \E heir \in BOOLEAN : Dies(heir)
  /\ UNCHANGED <<handle, pipes, worker, teardown, watcher, result, runtime>>

\* The agent, or the child that has its end, closes the pipe.
ShutsPipe ==
  /\ open
  /\ open' = FALSE
  /\ UNCHANGED <<agent, handle, pipes, worker, teardown, watcher, result, runtime>>

-----------------------------------------------------------------------------
WorkerStep == Gate \/ Insert \/ Answered \/ Unanswered \/ Failing \/ Rollback \/ RolledBack
Watch == WatcherSees \/ WatcherCloses

Next ==
  \/ \E ok \in BOOLEAN : Start(ok) \/ Reply(ok)
  \/ Enter \/ Abort \/ Interrupt \/ Retire
  \/ WorkerStep \/ LadderStep \/ Watch
  \/ \E w \in Writers : Lock(w)
  \/ Chunk \/ Broken \/ \E whole \in BOOLEAN : Flows(whole)
  \/ AskPermission \/ AgentExits \/ ShutsPipe

\* Threads run; an agent owes nothing to anybody, and need not empty its pipe.
Fairness ==
  /\ WF_vars(WorkerStep) /\ WF_vars(LadderStep) /\ WF_vars(Watch) /\ WF_vars(Enter \/ Retire)
  /\ \A w \in Writers : WF_vars(Lock(w))
  /\ WF_vars(Chunk \/ Broken)

Spec == Init /\ [][Next]_vars /\ Fairness

-----------------------------------------------------------------------------
(* Properties.                                                             *)

\* A line that the pipe has no room for: whoever writes it has both locks.
Wedged == writer.by # "nobody" /\ stdin /\ open

Gone == agent \in {"exited", "reaped"}
Over == result # "none" /\ retired

\* However a tear-down, an exit and the requests of the worker interleave, no
\* worker is left waiting for an answer: a run that is disposed of, or whose
\* agent is gone, has a result in the end and is retired.  It may be left when
\* the agent left its pipe to a child of its own, for the watcher closes the
\* channels once; and when somebody waits for ever for room in a pipe that is
\* neither emptied nor closed.
TornDownRunEnds ==
  \/ (disposed \/ Gone) ~> Over
  \/ <>(Gone /\ open)
  \/ <>[]Wedged

\* "std does not reap on drop on Unix, so an undisposed child would orphan"
\* (acp_provider.rs): a run is not retired while its agent lives and nobody is
\* on the way to dispose of it.
NoOrphan == retired /\ agent = "alive" => ladder.at \notin {"none", "done"}
=============================================================================
