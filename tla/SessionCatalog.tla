--------------------------- MODULE SessionCatalog ---------------------------
(***************************************************************************)
(* All sessions of a store and the clock they are used on: the session     *)
(* commands of a daemon (dispatch.rs, state.rs over session, lib.rs) and   *)
(* the sweep that the command line runs beside it (sess.rs, lib.rs         *)
(* compress_idle_sessions), which lists the idle sessions once and then    *)
(* archives them one by one.  An archive and a restore are one step here:  *)
(* SessionStore has their parts.  A malformed request changes nothing and  *)
(* is left out.                                                            *)
(*                                                                         *)
(* A row is the times it was updated and opened, and how many messages it  *)
(* has; ids are numbers, as the sweep orders by them.                      *)
(***************************************************************************)
EXTENDS Integers, Sequences, FiniteSets

CONSTANTS Ids,          \* the session ids
          NoSession,    \* no row, or no archive file
          IdleFor,      \* --idle-days
          Keeps,        \* the values --keep is given
          MaxSessions,  \* --max-sessions
          MaxMessages,  \* bound: messages of a session
          MaxUses,      \* bound: requests that change something
          MaxTime       \* bound: of the clock

ASSUME CatalogAssumption ==
  /\ Ids \subseteq Int /\ IsFiniteSet(Ids)
  /\ IdleFor \in Nat /\ Keeps \subseteq Nat
  /\ MaxTime \in Nat /\ MaxMessages \in Nat /\ MaxUses \in Nat
ASSUME BatchAssumption == MaxSessions \in Nat \ {0}  \* max_sessions.max(1)

Clock == 0..MaxTime
SessionRows == [updated : Clock, access : Clock, messages : 0..MaxMessages]
NoSweep == [todo |-> <<>>, moved |-> {}, listed |-> {}, used |-> {}, keep |-> 0,
            at |-> 0, refused |-> FALSE]

VARIABLES now,     \* the clock
          live,    \* the rows: session -> row, or NoSession
          files,   \* the archive files: session -> row, or NoSession
          sweep,   \* the sweep: ids to do and moved, and what it saw (history)
          lastUse, \* when a client last used the session (history)
          uses     \* requests so far

catalogVars == <<now, live, files, sweep, lastUse, uses>>

SessionsIn(store) == {s \in Ids : store[s] # NoSession}
Touched(row) == IF row.updated > row.access THEN row.updated ELSE row.access

CatalogTypeOK ==
  /\ now \in Clock /\ uses \in 0..MaxUses
  /\ live \in [Ids -> SessionRows \cup {NoSession}]
  /\ files \in [Ids -> SessionRows \cup {NoSession}]
  /\ lastUse \in [Ids -> Clock]
  /\ sweep.todo \in Seq(Ids) /\ sweep.moved \subseteq Ids

CatalogInit ==
  /\ now = 0 /\ uses = 0
  /\ live = [s \in Ids |-> NoSession]
  /\ files = [s \in Ids |-> NoSession]
  /\ sweep = NoSweep
  /\ lastUse = [s \in Ids |-> 0]

\* Nobody uses a session once the clock is near its end.
Tick ==
  /\ now < MaxTime
  /\ now' = now + 1
  /\ UNCHANGED <<live, files, sweep, lastUse, uses>>

-----------------------------------------------------------------------------
(* The store: what each call makes of the row it finds.                    *)

NewRow == [updated |-> now, access |-> 0, messages |-> 0]
Row(s) == IF live[s] = NoSession THEN NewRow ELSE live[s]

\* ensure_session_with_parent, update_title: a row that is there moves to the top
Updated(row) == [row EXCEPT !.updated = now]

\* touch_session_access
TouchSessionAccess(row) == [row EXCEPT !.access = now]

\* Mutant: the archive's own access time is put back.
RestoredAsItWas(s) == files[s]

\* restore_session, which stamps the row as just used
Restored(s) == TouchSessionAccess(files[s])

\* session, load_messages: a row is touched, a file is restored
Opened(s) == IF live[s] # NoSession THEN TouchSessionAccess(live[s]) ELSE Restored(s)

-----------------------------------------------------------------------------
(* The commands of the clients                                             *)

Request == uses < MaxUses /\ now + IdleFor < MaxTime /\ uses' = uses + 1

Use(s, row) ==
  /\ Request
  /\ live' = [live EXCEPT ![s] = row]
  /\ lastUse' = [lastUse EXCEPT ![s] = now]
  /\ UNCHANGED <<now, files, sweep>>

SessionCreate(s) == Use(s, Updated(Row(s)))

\* An update only: what is not there is reported and not made.
SessionUpdateTitle(s) == live[s] # NoSession /\ Use(s, Updated(live[s]))

SessionAppend(s) ==
  /\ Row(s).messages < MaxMessages
  /\ Use(s, [Updated(Row(s)) EXCEPT !.messages = @ + 1])

\* session.get and session.load_messages; and the reaper's walk up the tree of
\* sessions, which reads them in the same way
SessionGet(s) ==
  /\ s \in SessionsIn(live) \cup SessionsIn(files)
  /\ Use(s, Opened(s))

SessionRestore(s) ==
  /\ live[s] = NoSession /\ files[s] # NoSession
  /\ Use(s, Restored(s))

\* session.truncate and session.rewind, which do not count as use
SessionTruncate(s, n) ==
  /\ Request
  /\ live[s] # NoSession /\ n < live[s].messages
  /\ live' = [live EXCEPT ![s].messages = n]
  /\ UNCHANGED <<now, files, sweep, lastUse>>

SessionDelete(s) ==
  /\ Request
  /\ live[s] # NoSession
  /\ live' = [live EXCEPT ![s] = NoSession]
  /\ UNCHANGED <<now, files, sweep, lastUse>>

SessionPurge(s) ==
  /\ Request
  /\ files[s] # NoSession
  /\ files' = [files EXCEPT ![s] = NoSession]
  /\ UNCHANGED <<now, live, sweep, lastUse>>

-----------------------------------------------------------------------------
(* Archiving                                                               *)

\* A file is replaced only by at least as many messages.
ArchiveRefused(s) == files[s] # NoSession /\ files[s].messages > live[s].messages

MoveOut(s) ==
  /\ live[s] # NoSession /\ ~ArchiveRefused(s)
  /\ files' = [files EXCEPT ![s] = live[s]]
  /\ live' = [live EXCEPT ![s] = NoSession]

SessionArchive(s) ==
  /\ Request /\ MoveOut(s)
  /\ UNCHANGED <<now, sweep, lastUse>>

\* The most recently used first, then by id.
MoreRecent(s, t) ==
  \/ Touched(live[s]) > Touched(live[t])
  \/ Touched(live[s]) = Touched(live[t]) /\ s < t

\* The sequence of some sessions in that order.
Recency(ids) ==
  {list \in [1..Cardinality(ids) -> ids] :
     \A i, j \in DOMAIN list : i < j => MoreRecent(list[i], list[j])}

IsIdle(s) == Touched(live[s]) < now - IdleFor

\* What a sweep passes over it decides from the list alone.
SweepList(keep) ==
  /\ sweep.todo = <<>>
  /\ \E list \in Recency(SessionsIn(live)) :
       \E todo \in Recency({s \in {list[i] : i \in keep + 1..Len(list)} : IsIdle(s)}) :
         sweep' = [todo |-> todo, moved |-> {}, listed |-> SessionsIn(live),
                   keep |-> keep, at |-> now, refused |-> FALSE,
                   used |-> {s \in Ids : lastUse[s] >= now - IdleFor}]
  /\ UNCHANGED <<now, live, files, lastUse, uses>>

\* One session: moved, gone by now, or refused, which ends the sweep.
SweepNext ==
  LET s == Head(sweep.todo)
      last == Cardinality(sweep.moved) + 1 = MaxSessions
  IN  /\ sweep.todo # <<>>
      /\ UNCHANGED <<now, lastUse, uses>>
      /\ \/ /\ MoveOut(s)
            /\ sweep' = [sweep EXCEPT !.todo = IF last THEN <<>> ELSE Tail(@),
                                      !.moved = @ \cup {s}]
         \/ /\ live[s] = NoSession
            /\ sweep' = [sweep EXCEPT !.todo = Tail(@)]
            /\ UNCHANGED <<live, files>>
         \/ /\ live[s] # NoSession /\ ArchiveRefused(s)
            /\ sweep' = [sweep EXCEPT !.todo = <<>>, !.refused = TRUE]
            /\ UNCHANGED <<live, files>>

Client ==
  \E s \in Ids :
    \/ SessionCreate(s) \/ SessionUpdateTitle(s) \/ SessionAppend(s)
    \/ SessionGet(s) \/ SessionRestore(s) \/ SessionDelete(s)
    \/ SessionPurge(s) \/ SessionArchive(s)
    \/ \E n \in 0..MaxMessages : SessionTruncate(s, n)

CatalogNext == Tick \/ Client \/ SweepNext \/ \E keep \in Keeps : SweepList(keep)

CatalogSpec == CatalogInit /\ [][CatalogNext]_catalogVars

-----------------------------------------------------------------------------
\* A sweep takes no session that was in use when it listed them, leaves as
\* many as it was told to keep, and never more than a batch goes at once
\* (lib.rs compress_idle_sessions): whatever the way a session was used, its
\* row says so.
SweepSpares ==
  /\ sweep.moved \cap sweep.used = {}
  /\ Cardinality(sweep.moved) <= MaxSessions
  /\ sweep.moved # {} => Cardinality(sweep.listed \ sweep.moved) >= sweep.keep

\* A sweep that ends short of its batch, refused by no session, has taken every
\* session it was to take: what nobody has used for so long and is there still
\* came back meanwhile (lib.rs compress_idle_sessions).
SweepTakes ==
  /\ sweep.todo = <<>> /\ sweep.keep = 0 /\ ~sweep.refused
  /\ Cardinality(sweep.moved) < MaxSessions
  => \A s \in sweep.listed \ (sweep.used \cup sweep.moved) :
       live[s] = NoSession \/ lastUse[s] >= sweep.at

\* A sweep spares what is used, and takes what is not.
SweepsRight == SweepSpares /\ SweepTakes
=============================================================================
