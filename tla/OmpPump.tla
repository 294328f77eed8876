------------------------------- MODULE OmpPump -------------------------------
(***************************************************************************)
(* The worker of a session in omp mode: a child process that speaks lines  *)
(* of JSON.  Requests come one at a time, under the session's handle lock. *)
(* Until somebody subscribes, a request reads the child's output itself    *)
(* (pull mode); the first subscription gives the child to a pump thread,   *)
(* which takes requests from a queue, matches responses by id and hands    *)
(* the events to forwarders.  The child is external: it answers in any     *)
(* order or never, says other things, sends a long frame in two chunks,    *)
(* and dies.  The daemon's clients never reconnect (Client::new).          *)
(***************************************************************************)
EXTENDS Naturals, Sequences

CONSTANTS
  Forwarders,  \* forwarder threads
  MaxIds,      \* bound: requests sent to children
  MaxSaid      \* bound: lines of the children that answer nothing

VARIABLES
  inner,     \* WorkerHandle::inner: none, starting, or its client's mode
  alive,     \* the child lives
  asked,     \* requests the child has not answered
  output,    \* lines the child wrote and nobody has read
  said,      \* lines that answered nothing
  nextId,    \* Client::next_id; ids of other children are not used again
  request,   \* the request under the handle lock
  jobs,      \* the queue of the pump
  pending,   \* run_pump: the ids it waits for
  pump,      \* where the pump thread is
  chunks,    \* Client::chunks: frames of which the first part was read
  subs,      \* Pump::subs
  forwarder, \* the threads of ensure_event_pump
  active     \* pump_active

childVars == <<alive, asked, output, said>>
pumpVars == <<jobs, pending, pump, chunks>>
fwdVars == <<subs, forwarder, active>>
ompVars == <<inner, childVars, nextId, request, pumpVars, fwdVars>>

Kinds == {"ready", "response", "refusal", "event", "noise", "broken"}
Frame(kind, id) == [kind |-> kind, id |-> id, part |-> 0]
Answers == {"response", "refusal"}
NoRequest == [at |-> "idle", step |-> 0, id |-> 0]

\* A frame goes out in one line or in two chunks.
Lines(frame) == {<<frame>>, <<[frame EXCEPT !.part = 1], [frame EXCEPT !.part = 2]>>}

TypeOK ==
  /\ inner \in {"none", "hello", "pull", "push"} /\ alive \in BOOLEAN /\ asked \subseteq 1..MaxIds
  /\ output \in Seq([kind : Kinds, id : 0..MaxIds, part : 0..2]) /\ said \in 0..MaxSaid
  /\ nextId \in 1..(MaxIds + 1)
  /\ request \in [at : {"idle", "reading", "queued"}, step : 0..4, id : 0..MaxIds]
  /\ jobs \in Seq({"command", "shutdown"}) /\ pending \subseteq 1..MaxIds
  /\ pump \in {"none", "jobs", "read", "ending", "gone"}
  /\ subs \subseteq Forwarders /\ active \in BOOLEAN
  /\ forwarder \in [Forwarders -> [at : {"none", "listening", "ended"}, late : BOOLEAN, got : 0..MaxSaid]]

Init ==
  /\ inner = "none" /\ alive = FALSE /\ asked = {} /\ output = <<>> /\ said = 0 /\ nextId = 1
  /\ request = NoRequest /\ jobs = <<>> /\ pending = {} /\ pump = "none" /\ chunks = {}
  /\ subs = {} /\ active = FALSE
  /\ forwarder = [f \in Forwarders |-> [at |-> "none", late |-> FALSE, got |-> 0]]

-----------------------------------------------------------------------------
(* The child.                                                              *)

ChildAnswers ==
  /\ alive
  /\ \E id \in asked, kind \in Answers :
       /\ asked' = asked \ {id}
       /\ \E lines \in Lines(Frame(kind, id)) : output' = output \o lines
  /\ UNCHANGED <<inner, alive, said, nextId, request, pumpVars, fwdVars>>

\* An event, a line nobody wants, or one that does not parse.
ChildSays ==
  /\ alive /\ said < MaxSaid
  /\ said' = said + 1
  /\ \/ \E lines \in Lines(Frame("event", 0)) : output' = output \o lines
     \/ \E kind \in {"noise", "broken"} : output' = Append(output, Frame(kind, 0))
  /\ UNCHANGED <<inner, alive, asked, nextId, request, pumpVars, fwdVars>>

ChildDies ==
  /\ alive /\ alive' = FALSE /\ asked' = {}
  /\ UNCHANGED <<inner, output, said, nextId, request, pumpVars, fwdVars>>

-----------------------------------------------------------------------------
(* Requests in pull mode.  Steps: 4 waits for ready, 3 to 1 are those of   *)
(* negotiate_session, 0 is any request of a worker that has started; the   *)
(* first is the registration of the daemon's tool.                         *)

\* ensure_started: Worker::new
Spawn ==
  /\ request.at = "idle" /\ inner = "none" /\ nextId + 3 \in 1..MaxIds
  /\ inner' = "hello" /\ alive' = TRUE /\ output' = <<Frame("ready", 0)>> /\ asked' = {}
  /\ request' = [at |-> "reading", step |-> 4, id |-> 0]
  /\ UNCHANGED <<said, nextId, pumpVars, fwdVars>>

\* The request is over: a start that failed drops the client, which kills the
\* child; any other failure is an error of this request.
Fails ==
  IF request.step = 0
  THEN request' = NoRequest /\ UNCHANGED <<inner, alive, asked, nextId>>
  ELSE /\ request' = NoRequest /\ inner' = "none" /\ alive' = FALSE /\ asked' = {}
       /\ UNCHANGED nextId

\* send_frame: refused when the child is gone.
Asks(step) ==
  IF alive
  THEN /\ asked' = asked \cup {nextId} /\ nextId' = nextId + 1
       /\ request' = [at |-> "reading", step |-> step, id |-> nextId]
       /\ inner' = "pull" /\ UNCHANGED alive
  ELSE Fails

Command ==
  /\ request.at = "idle" /\ inner = "pull" /\ nextId \in 1..MaxIds /\ Asks(0)
  /\ UNCHANGED <<output, said, pumpVars, fwdVars>>

\* send_once and read_frame.  Events are dropped; a response that came in
\* chunks is put together and dropped, too.  There is no timeout.
Reads ==
  /\ request.at = "reading" /\ output # <<>>
  /\ output' = Tail(output)
  /\ LET frame == Head(output)
         mine == frame.part = 0 /\ frame.kind \in Answers /\ frame.id = request.id
     IN CASE request.step = 4 -> IF frame.kind = "ready" THEN Asks(3) ELSE Fails
          [] request.step < 4 /\ mine ->
               IF request.step > 0 /\ frame.kind = "response" THEN Asks(request.step - 1) ELSE Fails
          [] request.step < 4 /\ frame.kind = "broken" -> Fails
          [] OTHER -> UNCHANGED <<inner, alive, asked, nextId, request>>
  /\ UNCHANGED <<said, pumpVars, fwdVars>>

ReadsEnd ==
  /\ request.at = "reading" /\ output = <<>> /\ ~alive
  /\ Fails
  /\ UNCHANGED <<output, said, pumpVars, fwdVars>>

-----------------------------------------------------------------------------
(* Push mode.                                                              *)

\* ensure_event_pump: unless a forwarder runs, another one is started and
\* subscribed, the first time with a pump.  A pump that is gone does not look
\* at its subscribers again.
Subscribe(f) ==
  /\ request.at = "idle" /\ inner \in {"pull", "push"} /\ ~active
  /\ forwarder[f].at = "none"
  /\ inner' = "push" /\ pump' = IF inner = "pull" THEN "jobs" ELSE pump
  /\ subs' = subs \cup {f} /\ active' = TRUE
  /\ forwarder' = [forwarder EXCEPT ![f].at = "listening", ![f].late = pump = "gone"]
  /\ UNCHANGED <<childVars, nextId, request, jobs, pending, chunks>>

\* Worker::command: refused when nobody can take it any more.
Queue ==
  /\ request.at = "idle" /\ inner = "push" /\ pump # "gone" /\ nextId \in 1..MaxIds
  /\ jobs' = Append(jobs, "command") /\ request' = [NoRequest EXCEPT !.at = "queued"]
  /\ UNCHANGED <<inner, childVars, nextId, pending, pump, chunks, fwdVars>>

PumpTakes ==
  /\ pump = "jobs" /\ jobs # <<>>
  /\ jobs' = Tail(jobs)
  /\ \/ /\ Head(jobs) = "command" /\ alive
        /\ asked' = asked \cup {nextId} /\ pending' = pending \cup {nextId} /\ nextId' = nextId + 1
        /\ UNCHANGED <<pump, request>>
     \/ /\ Head(jobs) = "command" /\ ~alive
        /\ request' = NoRequest /\ pump' = "ending" /\ UNCHANGED <<asked, pending, nextId>>
     \/ /\ Head(jobs) = "shutdown"
        /\ pump' = "ending" /\ UNCHANGED <<asked, pending, nextId, request>>
  /\ UNCHANGED <<inner, alive, output, said, chunks, fwdVars>>

PumpListens ==
  /\ pump = "jobs" /\ jobs = <<>>
  /\ pump' = "read"
  /\ UNCHANGED <<inner, childVars, nextId, request, jobs, pending, chunks, fwdVars>>

\* A frame that is whole: a response answers who waits for it, anything else
\* is an event.
Delivers(frame) ==
  IF frame.kind \in Answers
  THEN /\ pending' = pending \ {frame.id}
       /\ request' = IF frame.id \in pending THEN NoRequest ELSE request
       /\ UNCHANGED forwarder
  ELSE /\ forwarder' = [f \in Forwarders |->
            IF f \in subs /\ frame.kind = "event" THEN [forwarder[f] EXCEPT !.got = @ + 1]
            ELSE forwarder[f]]
       /\ UNCHANGED <<pending, request>>

\* next_frame_raw_timeout: a line; chunks are put together.
PumpReads ==
  /\ pump = "read" /\ output # <<>>
  /\ output' = Tail(output)
  /\ LET frame == Head(output)
         whole == [frame EXCEPT !.part = 0]
     IN CASE frame.kind = "broken" ->
               pump' = "ending" /\ UNCHANGED <<chunks, pending, request, forwarder>>
          [] frame.kind # "broken" /\ frame.part = 1 ->
               chunks' = chunks \cup {whole} /\ UNCHANGED <<pump, pending, request, forwarder>>
          [] OTHER -> chunks' = chunks \ {whole} /\ pump' = "jobs" /\ Delivers(whole)
  /\ UNCHANGED <<inner, alive, asked, said, nextId, jobs, subs, active>>

\* Nothing came for PUMP_POLL.
PumpPolls ==
  /\ pump = "read" /\ output = <<>> /\ alive
  /\ pump' = "jobs"
  /\ UNCHANGED <<inner, childVars, nextId, request, jobs, pending, chunks, fwdVars>>

\* The deadline strikes in the middle of a line: what was read of it is gone,
\* and its rest will not parse.
PumpTears ==
  /\ pump = "read" /\ output # <<>> /\ Head(output).kind # "broken"
  /\ output' = [output EXCEPT ![1] = Frame("broken", 0)] /\ pump' = "jobs"
  /\ UNCHANGED <<inner, alive, asked, said, nextId, request, jobs, pending, chunks, fwdVars>>

\* Mutant: any failure to read is taken for the end of a poll.
PumpIgnoresEnd ==
  /\ pump = "read" /\ output = <<>> /\ ~alive
  /\ pump' = "jobs"
  /\ UNCHANGED <<inner, childVars, nextId, request, jobs, pending, chunks, fwdVars>>

PumpSeesEnd ==
  /\ pump = "read" /\ output = <<>> /\ ~alive
  /\ pump' = "ending"
  /\ UNCHANGED <<inner, childVars, nextId, request, jobs, pending, chunks, fwdVars>>

\* The end of run_pump: whoever waits is told, queued requests lose their
\* reply channel, the table is cleared and the client dropped.
PumpEnds ==
  /\ pump = "ending"
  /\ pump' = "gone" /\ pending' = {} /\ jobs' = <<>> /\ subs' = {}
  /\ request' = IF request.at = "queued" THEN NoRequest ELSE request
  /\ alive' = FALSE /\ asked' = {}
  /\ UNCHANGED <<inner, output, said, nextId, chunks, forwarder, active>>

\* A forwarder that is in no table any more ends.
ForwarderEnds(f) ==
  /\ forwarder[f].at = "listening" /\ f \notin subs
  /\ forwarder' = [forwarder EXCEPT ![f].at = "ended"] /\ active' = FALSE
  /\ UNCHANGED <<inner, childVars, nextId, request, pumpVars, subs>>

\* WorkerHandle::reset, at the end of the daemon: Worker::drop sends the pump a
\* shutdown and joins it; in pull mode the client kills the child.
Drop ==
  /\ request.at = "idle"
  /\ \/ /\ inner = "pull" /\ inner' = "none" /\ alive' = FALSE /\ asked' = {} /\ output' = <<>>
        /\ UNCHANGED <<jobs, pump, subs>>
     \/ /\ inner = "push" /\ pump # "gone" /\ jobs = <<>> /\ jobs' = <<"shutdown">>
        /\ UNCHANGED <<inner, alive, asked, output, pump, subs>>
     \/ /\ inner = "push" /\ pump = "gone"
        /\ inner' = "none" /\ pump' = "none" /\ subs' = {} /\ output' = <<>>
        /\ UNCHANGED <<alive, asked, jobs>>
  /\ UNCHANGED <<said, nextId, request, pending, chunks, forwarder, active>>

-----------------------------------------------------------------------------
PumpStep ==
  PumpTakes \/ PumpListens \/ PumpReads \/ PumpPolls \/ PumpSeesEnd \/ PumpEnds

Next ==
  \/ ChildAnswers \/ ChildSays \/ ChildDies
  \/ Spawn \/ Command \/ Reads \/ ReadsEnd \/ Queue \/ Drop
  \/ PumpStep \/ PumpTears
  \/ \E f \in Forwarders : Subscribe(f) \/ ForwarderEnds(f)

Fairness ==
  /\ WF_ompVars(Reads) /\ WF_ompVars(ReadsEnd) /\ WF_ompVars(PumpStep)
  /\ \A f \in Forwarders : WF_ompVars(ForwarderEnds(f))

Spec == Init /\ [][Next]_ompVars /\ Fairness

-----------------------------------------------------------------------------
\* A child that dies, whatever it had said and whoever was waiting, is noticed
\* by everybody: the request under the lock fails and the forwarders end
\* (worker.rs:24 "transport death mid-call", subscribe "until the worker dies").
\* A forwarder that subscribes to a pump that is gone is not told.
DeathIsTold ==
  /\ (~alive /\ request.at # "idle") ~> (request.at = "idle")
  /\ \A f \in Forwarders :
       (~alive /\ forwarder[f].at = "listening" /\ ~forwarder[f].late) ~> (forwarder[f].at = "ended")
=============================================================================
