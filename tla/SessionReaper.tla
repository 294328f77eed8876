---------------------------- MODULE SessionReaper ----------------------------
(***************************************************************************)
(* Which session engines the daemon keeps: the connections that attach to  *)
(* sessions (server.rs connection_read_loop), the registry of handles      *)
(* (registry.rs) and the reaper, which unloads a session after a grace     *)
(* period without attachment, run and live descendant (reaper.rs).  The    *)
(* reaper reads the attach counts, the ledger, the slot of the handle and  *)
(* the registry one after the other, each under a lock of its own, and     *)
(* unloads on what it read, while connections go on.  Orbit mode: in omp   *)
(* mode no session has a handle.                                           *)
(***************************************************************************)
EXTENDS Naturals, FiniteSets, Relation

CONSTANTS Sessions,     \* session ids
          NoOwner,    \* no session: the parent of a root
          ParentOf,     \* the session store: parent of each session
          Conns,        \* client connections
          NoConn,       \* a free handle lock
          Grace,        \* UNLOAD_GRACE in reaper ticks
          MaxRequests,  \* bound: requests of a connection
          MaxHandles    \* bound: handles created for a session

ASSUME ReaperAssumption ==
  /\ Grace \in Nat /\ MaxRequests \in Nat /\ MaxHandles \in Nat
  /\ IsFiniteSet(Conns) /\ NoConn \notin Conns

VARIABLES counts,    \* AttachTracker.counts
          attached,  \* per connection: attached_sessions
          conn,      \* per connection: what its read loop is doing
          requests,  \* per connection: requests made
          registry,  \* the handle of each session (0: none)
          created,   \* handles created for each session
          locks,     \* per handle: who holds its lock
          open,      \* per handle: runs open in the ledger
          turn,      \* per handle: does its run thread run a turn?
          idle,      \* eligible_since: ticks since first seen eligible (0: not)
          reaper,    \* the reaper thread
          shutdown,  \* the shutdown flag
           moved,     \* sessions reached since the attachments were read (history)
           stray,     \* handles unloaded though their session was reached (history)
           again      \* sessions a connection counted more than once (history)

connVars == <<counts, attached, conn, requests>>
handleVars == <<registry, created, locks, open, turn>>
reachVars == <<moved, stray, again>>
reapVars == <<connVars, handleVars, idle, reaper, shutdown, reachVars>>

Handles == Sessions \X (1..MaxHandles)
HandleOf(s) == <<s, registry[s]>>

\* A connection: waiting for a request; request routed to a session; handle
\* resolved; handle locked by the dispatch; closed.
Waiting == [phase |-> "waiting", session |-> NoOwner, handle |-> 0]
ConnStates == {Waiting, [Waiting EXCEPT !.phase = "closed"]}
              \cup [phase : {"routed"}, session : Sessions, handle : {0}]
              \cup [phase : {"resolved", "dispatching"}, session : Sessions, handle : 1..MaxHandles]

\* The reaper: asleep, or in a tick with sessions to do and one at a check.
Asleep == [phase |-> "asleep", todo |-> {}, session |-> NoOwner]
Seen == {"ledger", "slot", "tree", "unload"}   \* the attachments were read
Checks == {"attach"} \cup Seen
ReaperStates == {Asleep, [Asleep EXCEPT !.phase = "exited"]}
                \cup [phase : {"next"}, todo : SUBSET Sessions, session : {NoOwner}]
                \cup [phase : Checks, todo : SUBSET Sessions, session : Sessions]

ReapTypeOK ==
  /\ counts \in [Sessions -> Nat]
  /\ attached \in [Conns -> SUBSET Sessions]
  /\ conn \in [Conns -> ConnStates]
  /\ requests \in [Conns -> 0..MaxRequests]
  /\ registry \in [Sessions -> 0..MaxHandles]
  /\ created \in [Sessions -> 0..MaxHandles]
  /\ locks \in [Handles -> Conns \cup {NoConn}]
  /\ open \in [Handles -> Nat]
  /\ turn \in [Handles -> BOOLEAN]
  /\ idle \in [Sessions -> 0..Grace]
  /\ reaper \in ReaperStates
  /\ shutdown \in BOOLEAN
  /\ moved \subseteq Sessions /\ stray \subseteq Sessions \X (0..MaxHandles) /\ again \subseteq Sessions

Fresh ==
  /\ counts = [s \in Sessions |-> 0]
  /\ attached = [c \in Conns |-> {}]
  /\ conn = [c \in Conns |-> Waiting]
  /\ requests = [c \in Conns |-> 0]
  /\ registry = [s \in Sessions |-> 0]
  /\ created = [s \in Sessions |-> 0]
  /\ locks = [h \in Handles |-> NoConn]
  /\ open = [h \in Handles |-> 0]
  /\ turn = [h \in Handles |-> FALSE]
  /\ idle = [s \in Sessions |-> 0]
  /\ shutdown = FALSE
  /\ moved = {} /\ stray = {} /\ again = {}

ReapInit == Fresh /\ reaper = Asleep

-----------------------------------------------------------------------------
(* A connection's read loop.                                               *)

\* A session the reaper has begun to evaluate may be reached meanwhile.
Reached(s) == moved' = IF reaper.phase \in Seen THEN moved \cup {s} ELSE moved

\* AttachTracker::attach
Attach(s) == counts' = [counts EXCEPT ![s] = @ + 1] /\ Reached(s)

\* A prompt for session s: every request counts, the connection remembers the
\* session once.
Request(c, s) ==
  /\ conn[c].phase = "waiting" /\ requests[c] < MaxRequests
  /\ requests' = [requests EXCEPT ![c] = @ + 1]
  /\ Attach(s)
  /\ attached' = [attached EXCEPT ![c] = @ \cup {s}]
  /\ again' = IF s \in attached[c] THEN again \cup {s} ELSE again
  /\ conn' = [conn EXCEPT ![c] = [phase |-> "routed", session |-> s, handle |-> 0]]
  /\ UNCHANGED <<handleVars, idle, reaper, shutdown, stray>>

\* event.subscribe with a session, of a connection that has prompted none, so
\* that the request itself goes to the legacy handle: counted only once.
Watch(c, s) ==
  /\ conn[c].phase = "waiting" /\ requests[c] = 0 /\ s \notin attached[c]
  /\ Attach(s)
  /\ attached' = [attached EXCEPT ![c] = @ \cup {s}]
  /\ UNCHANGED <<conn, requests, handleVars, idle, reaper, shutdown, stray, again>>

\* Mutant: the map is written without a look at what it holds.
ResolveOverwrites(c) ==
  LET s == conn[c].session
  IN /\ conn[c].phase = "routed"
     /\ created[s] < MaxHandles
     /\ created' = [created EXCEPT ![s] = @ + 1]
     /\ registry' = [registry EXCEPT ![s] = created'[s]]
     /\ Reached(s)
     /\ conn' = [conn EXCEPT ![c] = [phase |-> "resolved", session |-> s, handle |-> registry'[s]]]
     /\ UNCHANGED <<counts, attached, requests, locks, open, turn, idle, reaper, shutdown, stray, again>>

\* with_session: get or create the handle under the map lock ...
Resolve(c) ==
  LET s == conn[c].session
  IN /\ conn[c].phase = "routed"
     /\ \/ registry[s] # 0 /\ UNCHANGED <<registry, created, moved>>
        \/ /\ registry[s] = 0 /\ created[s] < MaxHandles
           /\ created' = [created EXCEPT ![s] = @ + 1]
           /\ registry' = [registry EXCEPT ![s] = created'[s]]
           /\ Reached(s)
     /\ conn' = [conn EXCEPT ![c] = [phase |-> "resolved", session |-> s, handle |-> registry'[s]]]
     /\ UNCHANGED <<counts, attached, requests, locks, open, turn, idle, reaper, shutdown, stray, again>>

Mine(c) == <<conn[c].session, conn[c].handle>>

\* ... then lock it and dispatch: the run is opened ...
Dispatch(c) ==
  /\ conn[c].phase = "resolved"
  /\ locks[Mine(c)] = NoConn
  /\ locks' = [locks EXCEPT ![Mine(c)] = c]
  /\ open' = [open EXCEPT ![Mine(c)] = @ + 1]
  /\ conn' = [conn EXCEPT ![c] = [@ EXCEPT !.phase = "dispatching"]]
  /\ UNCHANGED <<counts, attached, requests, registry, created, turn, idle, reaper, shutdown,
                 reachVars>>

\* ... and its message queued, after the turn in progress let go of the
\* context.
Queue(c) ==
  /\ conn[c].phase = "dispatching"
  /\ ~turn[Mine(c)]
  /\ turn' = [turn EXCEPT ![Mine(c)] = TRUE]
  /\ locks' = [locks EXCEPT ![Mine(c)] = NoConn]
  /\ conn' = [conn EXCEPT ![c] = Waiting]
  /\ UNCHANGED <<counts, attached, requests, registry, created, open, idle, reaper, shutdown,
                 reachVars>>

\* handle_connection's teardown: one detach for each remembered session.
Close(c) ==
  /\ conn[c].phase = "waiting"
  /\ conn' = [conn EXCEPT ![c] = [Waiting EXCEPT !.phase = "closed"]]
  /\ counts' = [s \in Sessions |-> IF s \in attached[c] /\ counts[s] > 0
                                   THEN counts[s] - 1 ELSE counts[s]]
  /\ attached' = [attached EXCEPT ![c] = {}]
  /\ UNCHANGED <<requests, handleVars, idle, reaper, shutdown, reachVars>>

\* The engine ends the turn: the pump closes the run.
TurnEnd(h) ==
  /\ turn[h]
  /\ turn' = [turn EXCEPT ![h] = FALSE]
  /\ open' = [open EXCEPT ![h] = @ - 1]
  /\ UNCHANGED <<connVars, registry, created, locks, idle, reaper, shutdown, reachVars>>

-----------------------------------------------------------------------------
(* The reaper.                                                             *)

Live == {s \in Sessions : registry[s] # 0}
OpenRun(s) == \E h \in Handles : h[1] = s /\ open[h] > 0

\* is_ancestor_in_store: the parent chain of d reaches a.
IsAncestor(a, d) ==
  TransitiveClosure([x, y \in Sessions |-> ParentOf[x] = y], Sessions)[d, a]

HasLiveDescendant(s) == \E d \in Live \ {s} : IsAncestor(s, d)

TickBegin ==
  /\ reaper.phase = "asleep" /\ ~shutdown
  /\ reaper' = [phase |-> "next", todo |-> Live, session |-> NoOwner]
  /\ UNCHANGED <<connVars, handleVars, idle, shutdown, reachVars>>

TickNext ==
  /\ reaper.phase = "next"
  /\ \E s \in reaper.todo :
       reaper' = [phase |-> "attach", todo |-> reaper.todo \ {s}, session |-> s]
  /\ UNCHANGED <<connVars, handleVars, idle, shutdown, reachVars>>

TickEnd ==
  /\ reaper.phase = "next" /\ reaper.todo = {}
  /\ reaper' = Asleep
  /\ idle' = [s \in Sessions |-> IF s \in Live THEN idle[s] ELSE 0]
  /\ UNCHANGED <<connVars, handleVars, shutdown, reachVars>>

ToNext ==
  /\ reaper' = [reaper EXCEPT !.phase = "next", !.session = NoOwner]
  /\ moved' = {}

\* One conjunct of "eligible": it fails, and the grace clock is dropped, or
\* the next one is read.
Check(phase, fails, then) ==
  /\ reaper.phase = phase
  /\ \/ ~fails /\ reaper' = [reaper EXCEPT !.phase = then] /\ UNCHANGED <<idle, moved>>
     \/ fails /\ ToNext /\ idle' = [idle EXCEPT ![reaper.session] = 0]
  /\ UNCHANGED <<connVars, handleVars, shutdown, stray, again>>

CheckAttach == Check("attach", counts[reaper.session] > 0, "ledger")
CheckLedger == Check("ledger", OpenRun(reaper.session), "slot")

\* has_active_run waits for the handle lock.
CheckSlot ==
  /\ reaper.phase = "slot" => locks[HandleOf(reaper.session)] = NoConn
  /\ Check("slot", open[HandleOf(reaper.session)] > 0, "tree")

\* has_live_descendant lists the registry once.
CheckTree == Check("tree", HasLiveDescendant(reaper.session), "unload")

\* Mutant: the clock is restarted by every eligible tick.
UnloadRestarts ==
  /\ reaper.phase = "unload"
  /\ idle' = [idle EXCEPT ![reaper.session] = 1]
  /\ ToNext
  /\ UNCHANGED <<connVars, handleVars, shutdown, stray, again>>

\* Eligible: the grace clock runs, and at its end the entry is taken from the
\* registry, whatever came to the session meanwhile.
Unload ==
  LET s == reaper.session
  IN /\ reaper.phase = "unload"
     /\ \/ /\ idle[s] = Grace /\ idle' = [idle EXCEPT ![s] = 0]
           /\ registry' = [registry EXCEPT ![s] = 0]
           /\ stray' = IF s \in moved THEN stray \cup {HandleOf(s)} ELSE stray
        \/ /\ idle[s] < Grace /\ idle' = [idle EXCEPT ![s] = @ + 1]
           /\ UNCHANGED <<registry, stray>>
     /\ ToNext
     /\ UNCHANGED <<connVars, created, locks, open, turn, shutdown, again>>

TickStep ==
  \/ TickNext \/ TickEnd
  \/ CheckAttach \/ CheckLedger \/ CheckSlot \/ CheckTree \/ Unload

\* A client's shutdown request or a signal; the thread sees the flag between
\* two ticks, and Drop joins it.
StopDaemon ==
  /\ ~shutdown /\ shutdown' = TRUE
  /\ UNCHANGED <<connVars, handleVars, idle, reaper, reachVars>>

ReaperExit ==
  /\ reaper.phase = "asleep" /\ shutdown
  /\ reaper' = [Asleep EXCEPT !.phase = "exited"]
  /\ UNCHANGED <<connVars, handleVars, idle, shutdown, reachVars>>

ConnStep(c) == Resolve(c) \/ Dispatch(c) \/ Queue(c)

ReapNext ==
  \/ \E c \in Conns : ConnStep(c) \/ Close(c) \/ \E s \in Sessions : Request(c, s) \/ Watch(c, s)
  \/ \E h \in Handles : TurnEnd(h)
  \/ TickBegin \/ TickStep
  \/ StopDaemon \/ ReaperExit

ReapSpec == ReapInit /\ [][ReapNext]_reapVars

\* The reaper's thread runs; turns end, and so the dispatches that wait for
\* them.
ReapFairness ==
  /\ WF_reapVars(TickBegin \/ TickStep)
  /\ \A c \in Conns : WF_reapVars(ConnStep(c))
  /\ \A h \in Handles : WF_reapVars(TurnEnd(h))

FairReapSpec == ReapSpec /\ ReapFairness

-----------------------------------------------------------------------------
(* Properties.                                                             *)

Attachments(s) == Cardinality({c \in Conns : s \in attached[c]})

Unloads(s) == registry[s] # 0 /\ registry'[s] = 0

\* The reaper never drops the handle of a session with an attachment, a run in
\* flight or a live descendant (reaper.rs 3-13), but of one that was reached, or
\* whose descendant was, between its reading of the attachments and the unload.
UnloadOnlyIdle ==
  [][\A s \in Sessions : Unloads(s) =>
       /\ s \in moved \/ (counts[s] = 0 /\ ~OpenRun(s))
       /\ \A d \in Live \ {s} : IsAncestor(s, d) => d \in moved]_reapVars

\* A turn in progress belongs to the handle requests reach: it can be steered
\* and aborted (registry.rs 3-7), unless its session was reached while the
\* reaper was about to unload that handle.
TurnIsReachable == \A h \in Handles : turn[h] => registry[h[1]] = h[2] \/ h \in stray

\* Sessions whose connections are gone are unloaded in the end, a parent after
\* its descendants (reaper.rs 15-18), but for those, and above those, that one
\* connection counted more often than its teardown takes back.
IdleUnloaded ==
  \A s \in Sessions :
    (\A c \in Conns : conn[c].phase = "closed")
      ~> \/ registry[s] = 0 \/ shutdown
         \/ \E d \in again \cap Live : d = s \/ IsAncestor(s, d)
=============================================================================
