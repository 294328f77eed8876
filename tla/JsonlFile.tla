------------------------------- MODULE JsonlFile -------------------------------
(***************************************************************************)
(* An append-only record file (store, jsonl.rs) under its two owners: the  *)
(* task store (store.rs) and the memory (memory, lib.rs).  Every access    *)
(* takes the file's lock, so a read, an append and a trim are one step     *)
(* each; but a read that meets a torn last line trims it under a lock of   *)
(* its own, and a compaction reads, writes another file and renames it     *)
(* over the first without any lock.  Processes crash, an append half way.  *)
(*                                                                         *)
(* A line is the record it parses to, or Torn: part of a record, or two    *)
(* records glued together.  Only the last line can lack its newline.       *)
(***************************************************************************)
EXTENDS Naturals, Sequences, FiniteSets, SequencesExt

CONSTANTS
  Users,       \* processes that use the file
  Keys,        \* record ids, 1..n (of the memory's entries, or standing for titles)
  Heals,       \* the memory: an append cuts a torn tail off and names its entry
  Meeting,     \* which of "append", "load", "compact" overlap with each other
  MaxRecords,  \* bound: records made
  MaxDeaths   \* bound: crashes

\* The memory counts its ids up from 1.
ASSUME FileAssumption ==
  /\ Keys \subseteq Nat \ {0} /\ Meeting \subseteq {"append", "load", "compact"}
  /\ MaxRecords \in Nat /\ MaxDeaths \in Nat
  /\ Heals => 1..MaxRecords \subseteq Keys

VARIABLES
  disk,     \* the lines on disk
  user,     \* per process: the operation it is in
  made,     \* the records whose append reached the file, ever
  acked,    \* per key: stamp of the last record whose append returned
  died

fileVars == <<disk, user, made, acked, died>>

Torn == [key |-> 0]
NoRecord == [key |-> 0, stamp |-> 0]
AtRest == [at |-> "idle", op |-> "none"]
Records == [key : Keys, stamp : 1..MaxRecords, gone : BOOLEAN]
FileLines == [line : Records \cup {Torn}, ended : BOOLEAN]

FileTypeOK ==
  /\ disk \in Seq(FileLines)
  /\ \A i \in 1..(Len(disk) - 1) : disk[i].ended
  /\ died \in 0..MaxDeaths
  /\ made \subseteq Records
  /\ acked \in [Keys -> 0..MaxRecords]
  /\ \A u \in Users : user[u].at \in {"idle", "append", "trim", "rename"}

FileInit ==
  /\ disk = <<>> /\ died = 0
  /\ user = [u \in Users |-> AtRest]
  /\ made = {} /\ acked = [k \in Keys |-> 0]

-----------------------------------------------------------------------------
(* What a reader makes of the lines.                                       *)

Corrupt(lines) == {i \in 1..Len(lines) : lines[i].line = Torn}
Readable(lines) == Corrupt(lines) \subseteq {Len(lines)}
Parsed(lines) == {lines[i].line : i \in 1..Len(lines)} \ {Torn}

\* Latest wins, and a tombstone removes the record.
Lookup(lines, k) ==
  LET of == {i \in 1..Len(lines) : lines[i].line.key = k}
  IN IF of = {} \/ lines[Max(of)].line.gone THEN NoRecord ELSE lines[Max(of)].line

Unended(lines) == lines # <<>> /\ ~lines[Len(lines)].ended

\* last_line_start: the cut is the start of the last line, ended or not.
WithoutLast(lines) == SubSeq(lines, 1, Len(lines) - 1)

\* Mutant: the memory appends to whatever the file ends in.
HealedNever(lines) == lines
Healed(lines) == IF Heals /\ Unended(lines) THEN WithoutLast(lines) ELSE lines

\* Bytes written at the end of the file; a line that was not ended is glued to.
Glued(lines, line, ended) ==
  IF Unended(lines)
  THEN Append(WithoutLast(lines), [line |-> Torn, ended |-> ended])
  ELSE Append(lines, [line |-> line, ended |-> ended])

-----------------------------------------------------------------------------
Becomes(u, now) == user' = [user EXCEPT ![u] = now]
MayBegin(u, op) ==
  user[u] = AtRest /\ \A v \in Users : user[v] # AtRest => {op, user[v].op} \subseteq Meeting

\* append_line, append_tombstone, write_line: the path is opened first.
OpenPath(u, k, gone) ==
  /\ MayBegin(u, "append")
  /\ Becomes(u, [at |-> "append", op |-> "append", key |-> k, gone |-> gone, unlinked |-> FALSE])
  /\ UNCHANGED <<disk, made, acked, died>>

\* The record of an append.  The memory gives a new entry the next free id.
New == 0
NextId(lines) == Max({0} \cup {r.key : r \in Parsed(lines)}) + 1
RecordOf(u) ==
  [key |-> IF user[u].key = New THEN NextId(Healed(disk)) ELSE user[u].key,
   stamp |-> Cardinality(made) + 1, gone |-> user[u].gone]

\* A file that was renamed over since it was opened takes the bytes with it.
Write(u, line, ended) ==
  disk' = IF user[u].unlinked THEN disk ELSE Glued(Healed(disk), line, ended)

\* The record, its newline and the fsync, under the exclusive lock.
AppendLine(u) ==
  LET r == RecordOf(u) IN
  /\ user[u].at = "append" /\ Cardinality(made) < MaxRecords
  /\ Write(u, r, TRUE)
  /\ made' = made \cup {r}
  /\ acked' = [acked EXCEPT ![r.key] = r.stamp]
  /\ Becomes(u, AtRest)
  /\ UNCHANGED died

\* A process dies: an append leaves nothing, the healed file, part of the
\* record, the record without its newline, or all of it unacknowledged.
Dies(u) ==
  /\ user[u] # AtRest /\ died < MaxDeaths
  /\ died' = died + 1
  /\ Becomes(u, AtRest)
  /\ \/ UNCHANGED <<disk, made>>
     \/ user[u].at = "append" /\ ~user[u].unlinked /\ disk' = Healed(disk) /\ UNCHANGED made
     \/ user[u].at = "append" /\ Write(u, Torn, FALSE) /\ UNCHANGED made
     \/ \E ended \in BOOLEAN :
          /\ user[u].at = "append" /\ Cardinality(made) < MaxRecords
          /\ Write(u, RecordOf(u), ended) /\ made' = made \cup {RecordOf(u)}
  /\ UNCHANGED acked

-----------------------------------------------------------------------------
\* load_records, list: only a reader that finds the last line corrupt has
\* anything left to do; one that finds another line corrupt fails.
TornTail(lines) == Corrupt(lines) = {Len(lines)}

Load(u) ==
  /\ MayBegin(u, "load") /\ TornTail(disk)
  /\ Becomes(u, [at |-> "trim", op |-> "load", snapshot |-> <<>>])
  /\ UNCHANGED <<disk, made, acked, died>>

LoadAll == SetToSeq({Lookup(disk, k) : k \in Keys} \ {NoRecord})

\* drop_last_line of whatever file the path names by now; the reader has its
\* records, and a compaction goes on with them.
Trim(u) ==
  /\ user[u].at = "trim"
  /\ disk' = IF disk = <<>> THEN disk ELSE WithoutLast(disk)
  /\ Becomes(u, IF user[u].snapshot = <<>> THEN AtRest ELSE [user[u] EXCEPT !.at = "rename"])
  /\ UNCHANGED <<made, acked, died>>

\* Store::compact: the records it read, in a temporary file.
Compact(u) ==
  /\ ~Heals /\ MayBegin(u, "compact") /\ Readable(disk)
  /\ Becomes(u, [at |-> IF TornTail(disk) THEN "trim" ELSE "rename", op |-> "compact",
            snapshot |-> <<LoadAll>>])
  /\ UNCHANGED <<disk, made, acked, died>>

Rename(u) ==
  /\ user[u].at = "rename"
  /\ disk' = [i \in 1..Len(user[u].snapshot[1]) |-> [line |-> user[u].snapshot[1][i], ended |-> TRUE]]
  /\ user' = [v \in Users |->
       IF v = u THEN AtRest
       ELSE IF user[v].at = "append" THEN [user[v] EXCEPT !.unlinked = TRUE]
       ELSE user[v]]
  /\ UNCHANGED <<made, acked, died>>

-----------------------------------------------------------------------------
FileNext ==
  \E u \in Users :
    \/ \E k \in Keys, gone \in BOOLEAN :
         (Heals => Lookup(disk, k) # NoRecord /\ ~gone) /\ OpenPath(u, k, gone)
    \/ Heals /\ OpenPath(u, New, FALSE)
    \/ AppendLine(u) \/ Dies(u) \/ Load(u) \/ Trim(u) \/ Compact(u) \/ Rename(u)

FileSpec == FileInit /\ [][FileNext]_fileVars

-----------------------------------------------------------------------------
\* What an append acknowledged is there for every later reader, until it is
\* superseded or removed by a later append: a torn tail costs only itself
\* ("a trailing corrupt line is trimmed, not fatal", store.rs:122).
AcknowledgedKept ==
  \A k \in Keys : acked[k] # 0 =>
    /\ Readable(disk)
    /\ \E r \in made : /\ r.key = k /\ r.stamp >= acked[k]
                       /\ Lookup(disk, k) = IF r.gone THEN NoRecord ELSE r
=============================================================================
