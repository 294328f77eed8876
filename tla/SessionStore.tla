---------------------------- MODULE SessionStore ----------------------------
(***************************************************************************)
(* One session in the store (session, lib.rs and archive.rs): its rows in  *)
(* the database and its archive file, used by the connections of a daemon  *)
(* and by the command line's sweep, a process of its own.  One call to the *)
(* database is one step, as the connection lock and the transactions make  *)
(* it; an archive and a restore are several, with the file in between.     *)
(*                                                                         *)
(* A message is a number; its seq is its place, as a tail is all that is   *)
(* ever removed.  An archive file is complete or not there: it is written  *)
(* under another name, synced and renamed.  Titles, the turn log and the   *)
(* tool cards of a message, which an archive leaves out, are not modelled. *)
(***************************************************************************)
EXTENDS Integers, Sequences, FiniteSets

CONSTANTS Procs,        \* who calls the store
          NoSession,    \* no row, or no file
          Careful,      \* clients open a session before they use it, leave it
                        \* alone while it moves, and delete it in one place
          MaxMessages,  \* bound: messages appended
          MaxCrashes    \* bound: calls cut short by a crash

Messages == 1..MaxMessages

ASSUME StoreAssumption ==
  /\ Careful \in BOOLEAN /\ {MaxMessages, MaxCrashes} \subseteq Nat
  /\ NoSession \notin Seq(Messages)

VARIABLES live,       \* the session's rows: its messages, or NoSession
          archive,    \* the archive file: its messages, or NoSession
          snapshots,  \* message_snapshots of the session
          call,       \* what each process is doing, and the rows it read
          kept,       \* messages acknowledged and not taken back (history)
          count       \* messages appended, calls cut short

vars == <<live, archive, snapshots, call, kept, count>>

Stored == Seq(Messages) \cup {NoSession}
Elems(rows) == IF rows = NoSession THEN {} ELSE {rows[i] : i \in 1..Len(rows)}
Idle == [at |-> "idle", rows |-> <<>>]

TypeOK ==
  /\ live \in Stored /\ archive \in Stored
  /\ snapshots \subseteq Messages
  /\ call \in [Procs -> [at : {"idle", "read", "written", "decoded"}, rows : Seq(Messages)]]
  /\ kept \subseteq Messages
  /\ count \in [messages : 0..MaxMessages, crashes : 0..MaxCrashes]

Init ==
  /\ live = NoSession /\ archive = NoSession /\ snapshots = {}
  /\ call = [p \in Procs |-> Idle]
  /\ kept = {}
  /\ count = [messages |-> 0, crashes |-> 0]

-----------------------------------------------------------------------------
Free(p) == call[p].at = "idle"
Still == \A p \in Procs : Free(p)
Opened == live # NoSession \/ archive = NoSession

\* A client that changes the session.
Writes(p) == Free(p) /\ (Careful => Still /\ Opened)

\* ensure_session, which leaves a row alone that is there
Create(p) ==
  /\ Writes(p) /\ live = NoSession
  /\ live' = <<>>
  /\ UNCHANGED <<archive, snapshots, call, kept, count>>

\* append_message, which makes the row it does not find
AppendMessage(p) ==
  LET m == count.messages + 1
  IN  /\ Writes(p) /\ m <= MaxMessages
      /\ live' = (IF live = NoSession THEN <<>> ELSE live) \o <<m>>
      /\ kept' = kept \cup {m}
      /\ count' = [count EXCEPT !.messages = m]
      /\ UNCHANGED <<archive, snapshots, call>>

TailFrom(n) == {live[i] : i \in n + 1..Len(live)}

TakeBack(p, n) ==
  /\ Writes(p) /\ live # NoSession /\ n < Len(live)
  /\ live' = SubSeq(live, 1, n)
  /\ kept' = kept \ TailFrom(n)
  /\ UNCHANGED <<archive, call, count>>

\* truncate_messages
Truncate(p, n) == TakeBack(p, n) /\ UNCHANGED snapshots

\* rewind_messages: the tail is copied before it is deleted
Rewind(p, n) ==
  /\ TakeBack(p, n)
  /\ snapshots' = snapshots \cup TailFrom(n)

\* delete_session, which cascades and knows nothing of the archive
Delete(p) ==
  /\ Writes(p) /\ live # NoSession
  /\ Careful => archive = NoSession
  /\ live' = NoSession /\ snapshots' = {}
  /\ kept' = kept \ Elems(live)
  /\ UNCHANGED <<archive, call, count>>

\* delete_archive
Purge(p) ==
  /\ Free(p) /\ (Careful => Still)
  /\ archive # NoSession
  /\ archive' = NoSession
  /\ kept' = kept \ (Elems(archive) \ Elems(live))
  /\ UNCHANGED <<live, snapshots, call, count>>

-----------------------------------------------------------------------------
(* archive_session                                                         *)

\* Mutant: the rows are deleted in the transaction that reads them.
ReadRowsAndDrop(p) ==
  /\ Free(p) /\ live # NoSession
  /\ call' = [call EXCEPT ![p] = [at |-> "read", rows |-> live]]
  /\ live' = NoSession
  /\ UNCHANGED <<archive, snapshots, kept, count>>

ReadRows(p) ==
  /\ Free(p) /\ live # NoSession
  /\ call' = [call EXCEPT ![p] = [at |-> "read", rows |-> live]]
  /\ UNCHANGED <<live, archive, snapshots, kept, count>>

\* A longer archive holds what the rows read do not.
Shrinks(p) == archive # NoSession /\ Len(archive) > Len(call[p].rows)

RefuseShrink(p) ==
  /\ call[p].at = "read" /\ Shrinks(p)
  /\ call' = [call EXCEPT ![p] = Idle]
  /\ UNCHANGED <<live, archive, snapshots, kept, count>>

WriteFile(p) ==
  /\ call[p].at = "read" /\ ~Shrinks(p)
  /\ archive' = call[p].rows
  /\ call' = [call EXCEPT ![p].at = "written"]
  /\ UNCHANGED <<live, snapshots, kept, count>>

\* The rows go, whichever they are by now, and the snapshots with them.
DropRows(p) ==
  /\ call[p].at = "written"
  /\ live' = NoSession /\ snapshots' = {}
  /\ call' = [call EXCEPT ![p] = Idle]
  /\ UNCHANGED <<archive, kept, count>>

(* restore_session, which session, load_messages and restore_if_archived
   call for a session that is not live                                     *)

ReadFile(p) ==
  /\ Free(p) /\ live = NoSession /\ archive # NoSession
  /\ call' = [call EXCEPT ![p] = [at |-> "decoded", rows |-> archive]]
  /\ UNCHANGED <<live, archive, snapshots, kept, count>>

InsertRows(p) ==
  /\ call[p].at = "decoded" /\ live = NoSession
  /\ live' = call[p].rows
  /\ call' = [call EXCEPT ![p] = Idle]
  /\ UNCHANGED <<archive, snapshots, kept, count>>

RefuseLive(p) ==
  /\ call[p].at = "decoded" /\ live # NoSession
  /\ call' = [call EXCEPT ![p] = Idle]
  /\ UNCHANGED <<live, archive, snapshots, kept, count>>

\* A process dies in the middle of a call.
Crash(p) ==
  /\ ~Free(p) /\ count.crashes < MaxCrashes
  /\ call' = [call EXCEPT ![p] = Idle]
  /\ count' = [count EXCEPT !.crashes = @ + 1]
  /\ UNCHANGED <<live, archive, snapshots, kept>>

-----------------------------------------------------------------------------
Client(p) ==
  \/ Create(p) \/ AppendMessage(p) \/ Delete(p) \/ Purge(p)
  \/ \E n \in 0..MaxMessages - 1 : Truncate(p, n) \/ Rewind(p, n)

Move(p) ==
  \/ ReadRows(p) \/ RefuseShrink(p) \/ WriteFile(p) \/ DropRows(p)
  \/ ReadFile(p) \/ InsertRows(p) \/ RefuseLive(p)

Next == \E p \in Procs : Client(p) \/ Move(p) \/ Crash(p)

Spec == Init /\ [][Next]_vars

-----------------------------------------------------------------------------
(* Properties.                                                             *)

\* What a client finds when it opens the session.
Content == IF live # NoSession THEN live ELSE archive

Promise == INSTANCE Transcript WITH transcript <- Content

\* The store implements the transcript: archives, restores, sweeps and crashes
\* in the middle of them never show.
ImplementsTranscript == Promise!Spec

\* The database and the file together hold every message that was
\* acknowledged and that nobody took back.
NothingLost == kept \subseteq Elems(live) \cup Elems(archive)
=============================================================================
