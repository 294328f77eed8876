----------------------------- MODULE DaemonLife -----------------------------
(***************************************************************************)
(* How a daemon comes and goes (daemon, main.rs, server.rs, client.rs;     *)
(* kymido, sess.rs; tui, autostart.rs): launchers that probe, spawn and    *)
(* wait for an answer, a stop command and a signal, and in the process the *)
(* main thread, the accept loop, the reaper and the prompt that may hold a *)
(* handle lock for a whole turn.  What the files on disk go through is     *)
(* InstanceLock's; here one live process has the lock, another is refused. *)
(*                                                                         *)
(* A launcher and the process it spawns have the same name.                *)
(***************************************************************************)
EXTENDS Naturals, FiniteSets

CONSTANTS Launchers,   \* kymido daemon start, or a tui at its gate
          Tuis,        \* those that are tuis, which probe twice
          Nobody,
          MaxTurns     \* bound: turns that hold a handle lock

ASSUME LifeAssumption == MaxTurns \in Nat /\ Nobody \notin Launchers

VARIABLES omp,       \* all prompts on the one worker of omp-compat mode
          process,   \* each daemon process
          shutdown,  \* the processes whose flag is set
          accepting, \* the processes whose accept loop runs
          ticking,   \* the processes whose reaper is in a tick
          turn,      \* the processes where a prompt holds its handle lock
          turns,     \* turns so far
          launcher,  \* each launcher
          ping,      \* its ping: where it is, and at whom
          stop,      \* the stop command, and at whom
          broken,    \* some start failed on its own (history)
          deaf,      \* the processes whose accept loop ended on an error (history)
          late       \* launchers that gave up on a start under way (history)

lifeVars == <<omp, process, shutdown, accepting, ticking, turn, turns, launcher, ping, stop, broken, deaf, late>>
hosted == <<omp, shutdown, accepting, ticking, turn, turns>>

NoCall == [at |-> "none", whom |-> Nobody]
Ended == {"already", "ready", "failed"}
Live == {"starting", "bound", "serving", "joining", "resetting"}

LifeTypeOK ==
  /\ omp \in BOOLEAN
  /\ process \in [Launchers -> {"none", "spawned", "gone"} \cup Live]
  /\ {shutdown, accepting, ticking, turn, deaf, late} \subseteq SUBSET Launchers
  /\ launcher \in [Launchers -> {"idle", "probe", "recheck", "spawn", "wait"} \cup Ended]
  /\ ping \in [Launchers -> [at : {"none", "connected", "handled"}, whom : Launchers \cup {Nobody}]]
  /\ stop \in [at : {"none", "connected", "handled", "told"}, whom : Launchers \cup {Nobody}]
  /\ broken \in BOOLEAN /\ turns \in 0..MaxTurns

LifeInit ==
  /\ omp \in BOOLEAN
  /\ process = [l \in Launchers |-> "none"]
  /\ shutdown = {} /\ accepting = {} /\ ticking = {} /\ turn = {}
  /\ launcher = [l \in Launchers |-> "idle"]
  /\ ping = [l \in Launchers |-> NoCall]
  /\ stop = NoCall /\ broken = FALSE /\ turns = 0
  /\ deaf = {} /\ late = {}

-----------------------------------------------------------------------------
(* A request: connect, accept, and the handle lock it needs                *)

Listening == {d \in Launchers : process[d] = "bound" \/ d \in accepting}

\* A connection the loop no longer takes is reset when the listener goes.
Lost(call) ==
  \/ call.at = "connected" /\ call.whom \notin Listening
  \/ call.at = "handled" /\ process[call.whom] = "gone"

\* with_session: a ping is for the legacy handle, which omp prompts hold
Answerable(call) == call.at = "handled" /\ ~(omp /\ call.whom \in turn)

Accept(d) ==
  /\ d \in accepting
  /\ \/ \E l \in Launchers :
          /\ ping[l] = [at |-> "connected", whom |-> d]
          /\ ping' = [ping EXCEPT ![l].at = "handled"]
          /\ UNCHANGED stop
     \/ /\ stop = [at |-> "connected", whom |-> d]
        /\ stop' = [stop EXCEPT !.at = "handled"]
        /\ UNCHANGED ping
  /\ UNCHANGED <<hosted, process, launcher, broken, deaf, late>>

-----------------------------------------------------------------------------
(* A launcher: daemon_cmd_dispatch, ensure_ready                           *)

Pinging(l) == launcher[l] \in {"probe", "recheck", "wait"}

Launch(l) ==
  /\ launcher[l] = "idle"
  /\ launcher' = [launcher EXCEPT ![l] = "probe"]
  /\ UNCHANGED <<hosted, process, ping, stop, broken, deaf, late>>

Connect(l) ==
  /\ Pinging(l) /\ ping[l] = NoCall
  /\ \E d \in Listening : ping' = [ping EXCEPT ![l] = [at |-> "connected", whom |-> d]]
  /\ UNCHANGED <<hosted, process, launcher, stop, broken, deaf, late>>

\* Nobody answers: a tui looks twice before it spawns.
AfterNo(l) ==
  CASE launcher[l] = "probe" /\ l \in Tuis -> "recheck"
    [] launcher[l] = "wait" -> "wait"
    [] OTHER -> "spawn"

Unanswered(l) ==
  /\ Pinging(l)
  /\ \/ ping[l] = NoCall /\ Listening = {} /\ launcher[l] # "wait"
     \/ Lost(ping[l])
  /\ ping' = [ping EXCEPT ![l] = NoCall]
  /\ launcher' = [launcher EXCEPT ![l] = AfterNo(l)]
  /\ UNCHANGED <<hosted, process, stop, broken, deaf, late>>

Pong(l) ==
  /\ Answerable(ping[l]) /\ process[ping[l].whom] # "gone"
  /\ ping' = [ping EXCEPT ![l] = NoCall]
  /\ launcher' = [launcher EXCEPT ![l] = IF @ = "wait" THEN "ready" ELSE "already"]
  /\ UNCHANGED <<hosted, process, stop, broken, deaf, late>>

Spawn(l) ==
  /\ launcher[l] = "spawn"
  /\ process' = [process EXCEPT ![l] = "spawned"]
  /\ launcher' = [launcher EXCEPT ![l] = "wait"]
  /\ UNCHANGED <<hosted, ping, stop, broken, deaf, late>>

\* On its way to the socket, where nobody can see it yet
ComingUp == \E d \in Launchers : process[d] \in {"spawned", "starting"}

\* The budget of 5 s is looked at after a probe that said no, whatever the
\* processes are doing; a probe that waits for its answer has no deadline.
GiveUp(l) ==
  /\ launcher[l] = "wait"
  /\ (ping[l] = NoCall /\ Listening = {}) \/ Lost(ping[l])
  /\ ping' = [ping EXCEPT ![l] = NoCall]
  /\ launcher' = [launcher EXCEPT ![l] = "failed"]
  /\ late' = late \cup {m \in {l} : ComingUp}
  /\ UNCHANGED <<hosted, process, stop, broken, deaf>>

-----------------------------------------------------------------------------
(* The process: Daemon::start, main, drop                                  *)

\* The lock is taken, or held by another process.
StartUp(d) ==
  /\ process[d] = "spawned"
  /\ \E refused \in {\E e \in Launchers : process[e] \in Live} :
       process' = [process EXCEPT ![d] = IF refused THEN "gone" ELSE "starting"]
  /\ UNCHANGED <<hosted, launcher, ping, stop, broken, deaf, late>>

\* The database is open and what a dead daemon left is repaired: the socket.
BindSocket(d) ==
  /\ process[d] = "starting"
  /\ process' = [process EXCEPT ![d] = "bound"]
  /\ UNCHANGED <<hosted, launcher, ping, stop, broken, deaf, late>>

\* The plugins, the database, the socket, the ledger, a server that must come
\* up or a thread does not.
StartFails(d) ==
  /\ process[d] \in {"spawned", "starting", "bound"}
  /\ process' = [process EXCEPT ![d] = "gone"]
  /\ broken' = TRUE
  /\ UNCHANGED <<hosted, launcher, ping, stop, deaf, late>>

\* orbit_setup, which brings up the servers; then the accept loop and the reaper
BeginServe(d) ==
  /\ process[d] = "bound"
  /\ process' = [process EXCEPT ![d] = "serving"]
  /\ accepting' = accepting \cup {d}
  /\ UNCHANGED <<omp, shutdown, ticking, turn, turns, launcher, ping, stop, broken, deaf, late>>

\* Mutant: the loop blocks in accept and looks at the flag only after one.
AcceptEndsAfterOne(d) ==
  /\ d \in accepting /\ d \in shutdown
  /\ \E l \in Launchers : ping[l].at = "handled"
  /\ accepting' = accepting \ {d}
  /\ UNCHANGED <<omp, process, shutdown, ticking, turn, turns, launcher, ping, stop, broken, deaf, late>>

\* spawn_accept_loop: it polls the flag between two accepts
AcceptEnds(d) ==
  /\ d \in accepting /\ d \in shutdown
  /\ accepting' = accepting \ {d}
  /\ UNCHANGED <<omp, process, shutdown, ticking, turn, turns, launcher, ping, stop, broken, deaf, late>>

\* An error of accept ends the loop too: listener and socket are gone, the
\* main thread goes on with the lock.
LoopBreaks(d) ==
  /\ d \in accepting
  /\ accepting' = accepting \ {d}
  /\ deaf' = deaf \cup {d}
  /\ UNCHANGED <<omp, process, shutdown, ticking, turn, turns, launcher, ping, stop, broken, late>>

\* main: a signal or the flag ends its loop; Daemon::shutdown sets the flag
\* and joins the accept loop
MainStops(d) ==
  /\ process[d] = "serving" /\ d \in shutdown
  /\ d \notin accepting
  /\ process' = [process EXCEPT ![d] = "joining"]
  /\ UNCHANGED <<hosted, launcher, ping, stop, broken, deaf, late>>

Signal(d) ==
  /\ process[d] = "serving"
  /\ shutdown' = shutdown \cup {d}
  /\ UNCHANGED <<omp, process, accepting, ticking, turn, turns, launcher, ping, stop, broken, deaf, late>>

\* Daemon::drop joins the reaper, ...
JoinReaper(d) ==
  /\ process[d] = "joining" /\ d \notin ticking
  /\ process' = [process EXCEPT ![d] = "resetting"]
  /\ UNCHANGED <<hosted, launcher, ping, stop, broken, deaf, late>>

\* ... resets the workers it can lock at once, and gives up the lock; the
\* threads of the connections and the turn end with the process.
ExitProcess(d) ==
  /\ process[d] = "resetting"
  /\ process' = [process EXCEPT ![d] = "gone"]
  /\ turn' = turn \ {d}
  /\ UNCHANGED <<omp, shutdown, accepting, ticking, turns, launcher, ping, stop, broken, deaf, late>>

\* worker.prompt, which omp-compat mode keeps for the turn, and orbit mode
\* while another turn has the context
TurnTakes(d) ==
  /\ process[d] \in {"serving", "joining"} /\ d \notin turn
  /\ turns < MaxTurns /\ turns' = turns + 1
  /\ turn' = turn \cup {d}
  /\ UNCHANGED <<omp, process, shutdown, accepting, ticking, launcher, ping, stop, broken, deaf, late>>

TurnGivesUp(d) ==
  /\ d \in turn
  /\ turn' = turn \ {d}
  /\ UNCHANGED <<omp, process, shutdown, accepting, ticking, turns, launcher, ping, stop, broken, deaf, late>>

\* The reaper looks at the flag before a tick and while it sleeps.
TickBegins(d) ==
  /\ process[d] = "serving" /\ d \notin shutdown /\ d \notin ticking
  /\ ticking' = ticking \cup {d}
  /\ UNCHANGED <<omp, process, shutdown, accepting, turn, turns, launcher, ping, stop, broken, deaf, late>>

\* A tick takes the handle lock of every session, of which omp mode has none.
TickEnds(d) ==
  /\ d \in ticking
  /\ omp \/ d \notin turn
  /\ ticking' = ticking \ {d}
  /\ UNCHANGED <<omp, process, shutdown, accepting, turn, turns, launcher, ping, stop, broken, deaf, late>>

-----------------------------------------------------------------------------
(* kymido daemon stop: DaemonClient::shutdown                              *)

StopConnects ==
  /\ stop = NoCall
  /\ \E d \in Listening : stop' = [at |-> "connected", whom |-> d]
  /\ UNCHANGED <<hosted, process, launcher, ping, broken, deaf, late>>

\* connection_read_loop answers it before it takes any handle lock.
StopHandled ==
  /\ stop.at = "handled" /\ process[stop.whom] # "gone"
  /\ shutdown' = shutdown \cup {stop.whom}
  /\ stop' = [stop EXCEPT !.at = "told"]
  /\ UNCHANGED <<omp, process, accepting, ticking, turn, turns, launcher, ping, broken, deaf, late>>

\* The connection is reset, or the deadline passes.
StopFails ==
  /\ Lost(stop)
  /\ stop' = [stop EXCEPT !.at = "told"]
  /\ UNCHANGED <<hosted, process, launcher, ping, broken, deaf, late>>

Launching(l) ==
  Launch(l) \/ Connect(l) \/ Unanswered(l) \/ Pong(l) \/ Spawn(l) \/ GiveUp(l)
Coming(d) == StartUp(d) \/ BindSocket(d) \/ BeginServe(d)
Stopping(d) == AcceptEnds(d) \/ MainStops(d) \/ JoinReaper(d) \/ ExitProcess(d)
Stop == StopConnects \/ StopHandled \/ StopFails

LifeNext ==
  \/ Stop
  \/ \E d \in Launchers :
       \/ Launching(d) \/ Coming(d) \/ StartFails(d) \/ LoopBreaks(d) \/ Stopping(d) \/ Accept(d)
       \/ Signal(d) \/ TickBegins(d) \/ TickEnds(d) \/ TurnTakes(d) \/ TurnGivesUp(d)

LifeSpec == LifeInit /\ [][LifeNext]_lifeVars

-----------------------------------------------------------------------------
\* Launchers that overlap meet in one daemon: all but one process is refused
\* by the lock, and its launcher finds the other's answer.  A launcher is left
\* without one only by a stop, a signal, a start that fails on its own or an
\* accept loop that ended on an error, or because its budget ran out over a
\* start that had not reached the socket, be it another launcher's; never by
\* meeting another launcher, and never once a socket is there (autostart.rs
\* spawn_daemon, ensure_ready; sess.rs DaemonCmd::Start).
LaunchesMeet ==
  /\ Cardinality({d \in Launchers : process[d] \in Live}) <= 1
  /\ \A l \in Launchers : launcher[l] = "failed" =>
       shutdown # {} \/ broken \/ deaf # {} \/ l \in late

\* Nobody waits for good.  A launcher that has no answer yet can move, or a
\* process can, although its ping may wait for an omp turn (sess.rs
\* DaemonCmd::Start); and a daemon that was told to stop can move on to its end,
\* although its threads are joined one after the other, the reaper perhaps
\* behind a turn (server.rs Drop for Daemon).
NobodyStuck ==
  /\ \A l \in Launchers : launcher[l] \notin Ended \cup {"idle"} =>
       ENABLED (Launching(l) \/ \E d \in Launchers :
                  Coming(d) \/ Stopping(d) \/ Accept(d) \/ TurnGivesUp(d))
  /\ \A d \in shutdown : process[d] # "gone" =>
       ENABLED (Stopping(d) \/ TickEnds(d) \/ TurnGivesUp(d))
=============================================================================
