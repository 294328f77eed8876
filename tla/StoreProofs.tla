---------------------------- MODULE StoreProofs ----------------------------
(*****************************************************************************)
(* Proofs about what is kept on disk, for any number of processes: the       *)
(* session store, in the environment of careful clients, implements the      *)
(* transcript and loses no message; the record file gives back what it       *)
(* acknowledged; the task graph has no circle and a blocked task leads to    *)
(* one that can be worked on; and an opened store is complete, whichever     *)
(* build made the file.                                                      *)
(*****************************************************************************)
EXTENDS SessionStore, JsonlFile, TaskGraph, StoreOpening,
        FiniteSetTheorems, WellFoundedInduction, TLAPS

-----------------------------------------------------------------------------
\* The session store.

\* While a process moves the session, nobody writes it, so the rows the process
\* holds are still the session's content; once the file is written it is a
\* copy of it.
HeldIsContent ==
  \A p \in Procs : ~Free(p) =>
    /\ call[p].rows = Content /\ Content # NoSession
    /\ call[p].at = "written" => archive = Content

StoreInv == TypeOK /\ HeldIsContent /\ kept \subseteq Elems(Content)

\* The invariant holds of an empty store.
LEMMA StoreInit == Init => StoreInv
  BY StoreAssumption DEF Init, StoreInv, TypeOK, HeldIsContent, Stored, Idle, Free, Content, Elems

\* A tail cut off leaves the head.
LEMMA CutRows ==
  ASSUME NEW rows \in Seq(Messages), NEW n \in Nat, n < Len(rows)
  PROVE  /\ SubSeq(rows, 1, n) \in Seq(Messages)
         /\ Elems(rows) \ {rows[i] : i \in n + 1..Len(rows)} \subseteq Elems(SubSeq(rows, 1, n))
<1>1. SubSeq(rows, 1, n) \in Seq(Messages) /\ Len(SubSeq(rows, 1, n)) = n
      /\ \A i \in 1..n : SubSeq(rows, 1, n)[i] = rows[i]
  OBVIOUS
<1>2. rows # NoSession /\ SubSeq(rows, 1, n) # NoSession
  BY <1>1, StoreAssumption
<1>3. ASSUME NEW m \in Elems(rows), m \notin {rows[i] : i \in n + 1..Len(rows)}
      PROVE  m \in Elems(SubSeq(rows, 1, n))
  <2>1. PICK i \in 1..Len(rows) : m = rows[i]
    BY <1>2 DEF Elems
  <2>2. i \in 1..n
    BY <1>3, <2>1
  <2> QED BY <1>1, <1>2, <2>1, <2>2 DEF Elems
<1> QED BY <1>1, <1>3

\* A message appended joins what was there.
LEMMA AddRow ==
  ASSUME NEW rows \in Seq(Messages), NEW m \in Messages
  PROVE  /\ rows \o <<m>> \in Seq(Messages)
         /\ Elems(rows \o <<m>>) = Elems(rows) \cup {m}
<1>1. /\ rows \o <<m>> \in Seq(Messages) /\ Len(rows \o <<m>>) = Len(rows) + 1
      /\ \A i \in 1..Len(rows) : (rows \o <<m>>)[i] = rows[i]
      /\ (rows \o <<m>>)[Len(rows) + 1] = m
  OBVIOUS
<1>2. rows # NoSession /\ rows \o <<m>> # NoSession
  BY <1>1, StoreAssumption
<1> QED BY <1>1, <1>2 DEF Elems

\* An archive or a restore, or the end of one, does not show.
LEMMA MoveIsQuiet ==
  ASSUME StoreInv, NEW p \in Procs, Move(p) \/ Crash(p)
  PROVE  StoreInv' /\ UNCHANGED <<Content, kept>>
<1> USE StoreAssumption DEF StoreInv, HeldIsContent
<1>1. CASE ReadRows(p)
  BY <1>1 DEF ReadRows, TypeOK, Stored, Free, Content, Elems
<1>2. CASE RefuseShrink(p)
  BY <1>2 DEF RefuseShrink, TypeOK, Stored, Free, Idle, Content, Elems
<1>3. CASE WriteFile(p)
  <2>1. call[p].rows = Content /\ Content # NoSession /\ archive' = Content
    BY <1>3 DEF WriteFile, Free
  <2>2. UNCHANGED <<Content, kept>>
    BY <1>3, <2>1 DEF WriteFile, Content
  <2>3. TypeOK'
    BY <1>3 DEF WriteFile, TypeOK, Stored
  <2>4. HeldIsContent'
    BY <1>3, <2>1, <2>2 DEF WriteFile, TypeOK, Free
  <2> QED BY <2>2, <2>3, <2>4 DEF Elems
<1>4. CASE DropRows(p)
  <2>1. archive = Content /\ Content # NoSession
    BY <1>4 DEF DropRows, Free
  <2>2. UNCHANGED <<Content, kept>>
    BY <1>4, <2>1 DEF DropRows, Content
  <2>3. TypeOK'
    BY <1>4 DEF DropRows, TypeOK, Stored, Idle
  <2>4. HeldIsContent'
    BY <1>4, <2>1, <2>2 DEF DropRows, TypeOK, Free, Idle
  <2> QED BY <2>2, <2>3, <2>4 DEF Elems
<1>5. CASE ReadFile(p)
  BY <1>5 DEF ReadFile, TypeOK, Stored, Free, Content, Elems
<1>6. CASE InsertRows(p)
  <2>1. call[p].rows = Content /\ Content # NoSession
    BY <1>6 DEF InsertRows, Free
  <2>2. UNCHANGED <<Content, kept>>
    BY <1>6, <2>1 DEF InsertRows, Content
  <2>3. TypeOK'
    BY <1>6 DEF InsertRows, TypeOK, Stored, Idle
  <2>4. HeldIsContent'
    BY <1>6, <2>1, <2>2 DEF InsertRows, TypeOK, Free, Idle
  <2> QED BY <2>2, <2>3, <2>4 DEF Elems
<1>7. CASE RefuseLive(p)
  BY <1>7 DEF RefuseLive, TypeOK, Stored, Free, Idle, Content, Elems
<1>8. CASE Crash(p)
  BY <1>8 DEF Crash, TypeOK, Stored, Free, Idle, Content, Elems
<1> QED BY <1>1, <1>2, <1>3, <1>4, <1>5, <1>6, <1>7, <1>8 DEF Move

\* What a careful client does is what it asked for.
LEMMA ClientIsPromised ==
  ASSUME Careful, StoreInv, NEW p \in Procs, Client(p)
  PROVE  StoreInv' /\ [Promise!Next]_<<Content, kept>>
<1> USE StoreAssumption DEF StoreInv
<1>1. Still /\ UNCHANGED call
  BY DEF Client, Create, AppendMessage, Delete, Purge, Truncate, Rewind, TakeBack, Writes
<1>2. HeldIsContent'
  BY <1>1 DEF HeldIsContent, Still, Free
<1>3. CASE Create(p)
  <2>1. archive = NoSession /\ live = NoSession
    BY <1>3 DEF Create, Writes, Opened
  <2>2. Promise!Create /\ Content' = <<>>
    BY <1>3, <2>1 DEF Create, Promise!Create, Content
  <2>3. TypeOK'
    BY <1>3 DEF Create, TypeOK, Stored
  <2>4. kept' = {}
    BY <1>3, <2>1 DEF Create, Content, Elems
  <2> QED BY <1>2, <2>2, <2>3, <2>4 DEF Promise!Next
<1>4. CASE AppendMessage(p)
  <2> DEFINE m == count.messages + 1
             rows == IF live = NoSession THEN <<>> ELSE live
  <2>1. m \in Messages /\ rows \in Seq(Messages)
    <3>1. m \in Nat \ {0} /\ m <= MaxMessages
      BY <1>4 DEF AppendMessage, TypeOK
    <3>2. m \in Messages
      BY <3>1 DEF Messages
    <3>3. rows \in Seq(Messages)
      BY DEF TypeOK, Stored
    <3> QED BY <3>2, <3>3
  <2>2. Content = live /\ live' = rows \o <<m>> /\ kept' = kept \cup {m} /\ UNCHANGED archive
    BY <1>4 DEF AppendMessage, Writes, Opened, Content
  <2>3. rows \o <<m>> \in Seq(Messages) /\ Elems(rows \o <<m>>) = Elems(rows) \cup {m}
    BY <2>1, AddRow
  <2>4. Content' = rows \o <<m>>
    BY <2>2, <2>3 DEF Content
  <2>5. Promise!Add(m)
    BY <2>2, <2>4 DEF Promise!Add
  <2>6. TypeOK'
    <3>1. live' \in Stored /\ archive' \in Stored /\ snapshots' \subseteq Messages
      BY <1>4, <2>2, <2>3 DEF AppendMessage, TypeOK, Stored
    <3>2. kept' \subseteq Messages
      BY <2>1, <2>2 DEF TypeOK
    <3>3. m \in 0..MaxMessages
      BY <2>1 DEF Messages
    <3>4. count' \in [messages : 0..MaxMessages, crashes : 0..MaxCrashes]
      BY <1>4, <3>3 DEF AppendMessage, TypeOK
    <3>5. call' \in [Procs -> [at : {"idle", "read", "written", "decoded"}, rows : Seq(Messages)]]
      BY <1>1 DEF TypeOK
    <3> QED BY <3>1, <3>2, <3>4, <3>5 DEF TypeOK
  <2>7. kept' \subseteq Elems(Content)'
    <3>1. Elems(live) = Elems(rows)
      <4>1. CASE live = NoSession
        <5>1. rows = <<>> /\ rows # NoSession
          BY <2>1, <4>1
        <5>2. \A i \in 1..Len(<<>>) : FALSE
          OBVIOUS
        <5>3. Elems(rows) = {}
          BY <5>1, <5>2 DEF Elems
        <5> QED BY <4>1, <5>3 DEF Elems
      <4>2. CASE live # NoSession
        BY <4>2
      <4> QED BY <4>1, <4>2
    <3>2. Elems(Content)' = Elems(rows \o <<m>>)
      BY <2>4 DEF Elems
    <3> QED BY <2>2, <2>3, <3>1, <3>2
  <2> QED BY <1>2, <2>1, <2>5, <2>6, <2>7 DEF Promise!Next, Elems, Content
<1>5. ASSUME NEW n \in 0..MaxMessages - 1, TakeBack(p, n), snapshots' \subseteq Messages
      PROVE  StoreInv' /\ Promise!Next
  <2>1. /\ live \in Seq(Messages) /\ live # NoSession /\ n \in Nat /\ n < Len(live)
        /\ live' = SubSeq(live, 1, n) /\ kept' = kept \ TailFrom(n)
        /\ UNCHANGED <<archive, call, count>> /\ Content = live
    BY <1>5 DEF TakeBack, TypeOK, Stored, Content
  <2>2. /\ SubSeq(live, 1, n) \in Seq(Messages)
        /\ Elems(live) \ TailFrom(n) \subseteq Elems(SubSeq(live, 1, n))
    BY <2>1, CutRows DEF TailFrom
  <2>3. Content' = SubSeq(live, 1, n)
    BY <2>1, <2>2 DEF Content
  <2>4. Promise!Cut(n)
    BY <2>1, <2>3 DEF Promise!Cut, TailFrom
  <2>5. n \in 0..Len(Content) - 1 /\ Content # NoSession
    BY <2>1
  <2>6. TypeOK'
    BY <1>5, <2>1, <2>2 DEF TypeOK, Stored
  <2>7. kept' \subseteq Elems(Content)'
    BY <2>1, <2>2, <2>3 DEF Elems
  <2> QED BY <1>2, <2>4, <2>5, <2>6, <2>7 DEF Promise!Next
<1>6. ASSUME NEW n \in 0..MaxMessages - 1, Truncate(p, n)
      PROVE  StoreInv' /\ Promise!Next
  BY <1>5, <1>6 DEF Truncate, TypeOK
<1>7. ASSUME NEW n \in 0..MaxMessages - 1, Rewind(p, n)
      PROVE  StoreInv' /\ Promise!Next
  <2>1. TailFrom(n) \subseteq Messages
    BY <1>7 DEF Rewind, TakeBack, TailFrom, TypeOK, Stored
  <2> QED BY <1>5, <1>7, <2>1 DEF Rewind, TypeOK
<1>8. CASE Delete(p)
  <2>1. archive = NoSession /\ live # NoSession /\ live' = NoSession
        /\ kept' = kept \ Elems(live) /\ UNCHANGED archive
    BY <1>8 DEF Delete
  <2>2. Content = live /\ Content' = NoSession /\ kept' = {}
    BY <2>1 DEF Content
  <2>3. Promise!Remove
    BY <2>1, <2>2 DEF Promise!Remove
  <2>4. TypeOK'
    BY <1>8 DEF Delete, TypeOK, Stored
  <2> QED BY <1>2, <2>2, <2>3, <2>4 DEF Promise!Next
<1>9. CASE Purge(p) /\ live # NoSession
  <2>1. UNCHANGED <<Content, kept>>
    BY <1>9 DEF Purge, Content
  <2>2. TypeOK'
    BY <1>9 DEF Purge, TypeOK, Stored
  <2> QED BY <1>2, <2>1, <2>2 DEF Elems
<1>10. CASE Purge(p) /\ live = NoSession
  <2>1. /\ Content = archive /\ archive # NoSession /\ Content' = NoSession
        /\ kept' = kept \ (Elems(archive) \ Elems(live)) /\ Elems(live) = {}
    BY <1>10 DEF Purge, Content, Elems
  <2>2. Promise!Remove
    BY <2>1 DEF Promise!Remove
  <2>3. TypeOK'
    BY <1>10 DEF Purge, TypeOK, Stored
  <2>4. kept' = {}
    BY <2>1
  <2> QED BY <1>2, <2>2, <2>3, <2>4 DEF Promise!Next
<1> QED BY <1>3, <1>4, <1>6, <1>7, <1>8, <1>9, <1>10 DEF Client

\* Every step keeps the invariant, and none loses what is kept.
LEMMA StoreStep ==
  ASSUME Careful, StoreInv, [Next]_vars
  PROVE  StoreInv' /\ [Promise!Next]_<<Content, kept>>
<1>1. CASE UNCHANGED vars
  <2>1. UNCHANGED <<Content, kept>>
    BY <1>1 DEF vars, Content
  <2>2. StoreInv'
    BY <1>1, <2>1 DEF vars, StoreInv, TypeOK, HeldIsContent, Free, Elems
  <2> QED BY <2>1, <2>2
<1>2. ASSUME NEW p \in Procs, Client(p)
      PROVE  StoreInv' /\ [Promise!Next]_<<Content, kept>>
  BY <1>2, ClientIsPromised
<1>3. ASSUME NEW p \in Procs, Move(p) \/ Crash(p)
      PROVE  StoreInv' /\ [Promise!Next]_<<Content, kept>>
  BY <1>3, MoveIsQuiet
<1> QED BY <1>1, <1>2, <1>3 DEF Next

\* The types of the store's state, and that what a process holds is never
\* stale, when clients leave a session alone while it moves.
THEOREM StoreTyped == Careful => (Spec => []StoreInv)
<1> SUFFICES ASSUME Careful PROVE Spec => []StoreInv
  OBVIOUS
<1>1. StoreInv /\ [Next]_vars => StoreInv'
  BY StoreStep
<1> QED BY StoreInit, <1>1, PTL DEF Spec

\* No message that was acknowledged and not taken back is ever in neither the
\* database nor the archive, through any archive, restore, sweep and crash.
THEOREM KeepsMessages == Careful => (Spec => []NothingLost)
<1> SUFFICES ASSUME Careful PROVE Spec => []NothingLost
  OBVIOUS
<1>1. StoreInv => NothingLost
  BY DEF StoreInv, NothingLost, Content
<1> QED BY StoreTyped, <1>1, PTL

\* A session compressed into an archive reopens as if it had never been moved:
\* the store implements the transcript.
THEOREM Implements == Careful => (Spec => ImplementsTranscript)
<1> SUFFICES ASSUME Careful PROVE Spec => ImplementsTranscript
  OBVIOUS
<1>1. Init => Promise!Init
  BY DEF Init, Promise!Init, Content
<1>2. StoreInv /\ [Next]_vars => [Promise!Next]_<<Content, kept>>
  BY StoreStep
<1> QED BY StoreTyped, <1>1, <1>2, PTL DEF Spec, ImplementsTranscript, Promise!Spec

-----------------------------------------------------------------------------
\* The record file.

\* The least-number principle, and what it says of a bounded set.
LEMMA Least ==
  ASSUME NEW T \in SUBSET Nat, T # {}
  PROVE  \E n \in T : \A m \in T : n <= m
<1> DEFINE R == OpToRel(<, Nat)
<1>1. IsWellFoundedOn(R, Nat) BY NatLessThanWellFounded
<1>2. PICK n \in T : \A m \in T : ~(<<m, n>> \in R) BY <1>1, WFMin
<1>3. \A m \in T : ~(m < n) BY <1>2 DEF OpToRel
<1>. QED BY <1>3

\* What the greatest element of a bounded set is.
LEMMA Greatest ==
  ASSUME NEW b \in Nat, NEW T \in SUBSET (0..b), T # {}
  PROVE  Max(T) \in T /\ \A x \in T : Max(T) >= x
<1> DEFINE U == {n \in Nat : b - n \in T}
<1>1. PICK t \in T : TRUE OBVIOUS
<1>2. b - t \in U OBVIOUS
<1>3. PICK n \in U : \A m \in U : n <= m BY <1>2, Least
<1>4. ASSUME NEW x \in T PROVE b - n >= x
  <2>1. b - x \in U OBVIOUS
  <2>2. n <= b - x BY <1>3, <2>1
  <2>. QED BY <2>2
<1>5. \E y \in T : \A x \in T : y >= x BY <1>3, <1>4
<1>. QED BY <1>5 DEF Max

\* The front of a sequence.
LEMMA Cut ==
  ASSUME NEW S, NEW s \in Seq(S), NEW n \in Nat, n < Len(s)
  PROVE  /\ SubSeq(s, 1, n) \in Seq(S) /\ Len(SubSeq(s, 1, n)) = n
         /\ \A i \in 1..n : SubSeq(s, 1, n)[i] = s[i]
OBVIOUS

\* The memory: appends may meet, whatever else happens does so alone.
Mem == Heals /\ Meeting \subseteq {"append"}

Appending == [at : {"append"}, op : {"append"}, key : Nat, gone : {FALSE}, unlinked : {FALSE}]
Trimming == [at : {"trim"}, op : {"load"}, snapshot : {<<>>}]

\* A line that is torn, or merely the last of an interrupted append, is not
\* ended; the others hold the records that were made, in the order of making.
LinesInv ==
  /\ disk \in Seq(FileLines)
  /\ \A i \in 1..Len(disk) :
       /\ i < Len(disk) => disk[i].ended
       /\ disk[i].line = Torn => ~disk[i].ended
       /\ disk[i].line # Torn => disk[i].line \in made
  /\ \A i, j \in 1..Len(disk) :
       i < j /\ disk[j].line # Torn => disk[i].line.stamp < disk[j].line.stamp

MadeInv ==
  /\ made \subseteq Records /\ IsFiniteSet(made) /\ Cardinality(made) <= MaxRecords
  /\ \A r \in made : r.stamp <= Cardinality(made) /\ r.key <= Cardinality(made) /\ ~r.gone

\* What was acknowledged, or something newer, is in an ended line.
AckInv ==
  /\ acked \in [Keys -> 0..MaxRecords]
  /\ \A k \in Keys : acked[k] # 0 =>
       \E i \in 1..Len(disk) :
         disk[i].ended /\ disk[i].line.key = k /\ disk[i].line.stamp >= acked[k]

\* Who trims is alone with the torn line he saw.
UsersInv ==
  /\ user \in [Users -> {AtRest} \cup Appending \cup Trimming]
  /\ \A u \in Users : user[u].at = "append" => user[u].key = New \/ \E r \in made : r.key = user[u].key
  /\ \A u \in Users : user[u].at = "trim" =>
       TornTail(disk) /\ \A v \in Users \ {u} : user[v] = AtRest

FileInv == LinesInv /\ MadeInv /\ AckInv /\ UsersInv /\ died \in 0..MaxDeaths

\* The torn line and the missing record are not records.
LEMMA RecordTypes ==
  ASSUME NEW r \in Records
  PROVE  r.stamp \in Nat /\ r.key \in Nat /\ r.key # 0
<1>1. r.key \in Keys /\ r.stamp \in 1..MaxRecords BY DEF Records
<1>2. r.key \in Nat /\ r.key # 0 BY <1>1, FileAssumption
<1>3. r.stamp \in Nat
  <2>1. MaxRecords \in Nat BY FileAssumption
  <2>. QED BY <1>1, <2>1
<1>. QED BY <1>2, <1>3

\* The lines of the file and what is made of them.
LEMMA LineTypes ==
  ASSUME NEW x \in FileLines
  PROVE  /\ x.ended \in BOOLEAN /\ x.line \in Records \cup {Torn}
         /\ x.line # Torn => /\ x.line \in Records /\ x.line.key \in Keys
                             /\ x.line.stamp \in 1..MaxRecords /\ x.line.gone \in BOOLEAN
         /\ x.line = Torn => x.line.key = 0
         /\ x.line \in Records => x.line # Torn
<1>1. x.ended \in BOOLEAN /\ x.line \in Records \cup {Torn} BY DEF FileLines
<1>2. ASSUME x.line \in Records PROVE x.line # Torn
  <2>1. x.line.key \in Nat \ {0} BY <1>2, FileAssumption DEF Records
  <2>. QED BY <2>1 DEF Torn
<1>. QED BY <1>1, <1>2 DEF Records, Torn

\* Healing drops at most the last line, and never an ended one.
LEMMA HealedLines ==
  ASSUME Heals, LinesInv
  PROVE  /\ Healed(disk) \in Seq(FileLines) /\ Len(Healed(disk)) <= Len(disk)
         /\ \A i \in 1..Len(Healed(disk)) : Healed(disk)[i] = disk[i] /\ disk[i].ended
         /\ \A i \in 1..Len(disk) : disk[i].ended => i \in 1..Len(Healed(disk))
         /\ ~Unended(Healed(disk))
<1>1. disk \in Seq(FileLines) BY DEF LinesInv
<1>2. CASE Unended(disk)
  <2>1. disk # <<>> /\ ~disk[Len(disk)].ended BY <1>2 DEF Unended
  <2>2. Len(disk) \in Nat /\ Len(disk) >= 1 BY <1>1, <2>1
  <2>3. /\ Healed(disk) = SubSeq(disk, 1, Len(disk) - 1)
        /\ Healed(disk) \in Seq(FileLines) /\ Len(Healed(disk)) = Len(disk) - 1
        /\ \A i \in 1..(Len(disk) - 1) : Healed(disk)[i] = disk[i]
    <3>1. Healed(disk) = SubSeq(disk, 1, Len(disk) - 1) BY <1>2 DEF Healed, WithoutLast
    <3>2. Len(disk) - 1 \in Nat /\ Len(disk) - 1 < Len(disk) BY <2>2
    <3> DEFINE n == Len(disk) - 1
    <3>3. n \in Nat /\ n < Len(disk) BY <3>2
    <3> HIDE DEF n
    <3>4. /\ SubSeq(disk, 1, n) \in Seq(FileLines) /\ Len(SubSeq(disk, 1, n)) = n
          /\ \A i \in 1..n : SubSeq(disk, 1, n)[i] = disk[i]
      BY <1>1, <3>3, Cut
    <3>. QED BY <3>1, <3>4 DEF n
  <2>4. \A i \in 1..(Len(disk) - 1) : disk[i].ended BY <2>2 DEF LinesInv
  <2>5. ASSUME NEW i \in 1..Len(disk), disk[i].ended PROVE i \in 1..(Len(disk) - 1)
    BY <2>1, <2>2, <2>5
  <2>6. ~Unended(Healed(disk))
    <3>1. CASE Len(disk) = 1 BY <3>1, <2>3 DEF Unended
    <3>2. CASE Len(disk) # 1
      <4>1. Len(Healed(disk)) \in 1..(Len(disk) - 1) BY <3>2, <2>2, <2>3
      <4>2. Healed(disk)[Len(Healed(disk))].ended BY <4>1, <2>3, <2>4
      <4>. QED BY <4>2 DEF Unended
    <3>. QED BY <3>1, <3>2
  <2>. QED BY <2>2, <2>3, <2>4, <2>5, <2>6
<1>3. CASE ~Unended(disk)
  <2>1. Healed(disk) = disk BY <1>3 DEF Healed
  <2>2. ASSUME NEW i \in 1..Len(disk) PROVE disk[i].ended
    <3>1. CASE i < Len(disk) BY <3>1 DEF LinesInv
    <3>2. CASE i = Len(disk) BY <3>2, <1>1, <1>3 DEF Unended
    <3>. QED BY <3>1, <3>2, <1>1
  <2>. QED BY <2>1, <2>2, <1>1, <1>3
<1>. QED BY <1>2, <1>3

\* A file that lost its unended tail is still in order.
LEMMA Shortened ==
  ASSUME FileInv, made' = made, acked' = acked, disk' \in Seq(FileLines), Len(disk') <= Len(disk),
         \A i \in 1..Len(disk') : disk'[i] = disk[i],
         \A i \in 1..Len(disk) : disk[i].ended => i \in 1..Len(disk')
  PROVE  LinesInv' /\ AckInv'
<1>0. Len(disk) \in Nat /\ Len(disk') \in Nat BY DEF FileInv, LinesInv
<1>1. LinesInv'
  <2>1. ASSUME NEW i \in 1..Len(disk') PROVE i \in 1..Len(disk) /\ disk'[i] = disk[i]
    BY <1>0
  <2>2. ASSUME NEW i \in 1..Len(disk')
        PROVE  /\ i < Len(disk') => disk'[i].ended
               /\ disk'[i].line = Torn => ~disk'[i].ended
               /\ disk'[i].line # Torn => disk'[i].line \in made'
    <3>1. i \in 1..Len(disk) /\ disk'[i] = disk[i] /\ (i < Len(disk') => i < Len(disk))
      BY <2>1, <1>0
    <3>. QED BY <3>1 DEF FileInv, LinesInv
  <2>3. ASSUME NEW i \in 1..Len(disk'), NEW j \in 1..Len(disk'), i < j, disk'[j].line # Torn
        PROVE  disk'[i].line.stamp < disk'[j].line.stamp
    BY <2>1, <2>3 DEF FileInv, LinesInv
  <2>. QED BY <2>2, <2>3 DEF LinesInv
<1>2. AckInv' BY DEF FileInv, AckInv
<1>. QED BY <1>1, <1>2

\* A line more: a torn one, or a record newer than all there are.
LEMMA Longer ==
  ASSUME Heals, FileInv, NEW x \in FileLines, disk' = Append(Healed(disk), x),
         made \subseteq made',
         \/ x.line = Torn /\ ~x.ended
         \/ x.line # Torn /\ x.line \in made' /\ \A r \in made : r.stamp < x.line.stamp
  PROVE  /\ LinesInv'
         /\ \A i \in 1..Len(disk) : disk[i].ended => i \in 1..Len(disk') /\ disk'[i] = disk[i]
         /\ \E i \in 1..Len(disk') : disk'[i] = x
<1> DEFINE h == Healed(disk)
<1>1. /\ h \in Seq(FileLines) /\ Len(h) \in Nat /\ Len(disk) \in Nat /\ Len(h) <= Len(disk)
      /\ \A i \in 1..Len(h) : h[i] = disk[i] /\ disk[i].ended
      /\ \A i \in 1..Len(disk) : disk[i].ended => i \in 1..Len(h)
  BY HealedLines DEF FileInv, LinesInv
<1>2. disk' = Append(h, x) OBVIOUS
<1>. HIDE DEF h
<1>3. /\ disk' \in Seq(FileLines) /\ Len(disk') = Len(h) + 1 /\ disk'[Len(h) + 1] = x
      /\ \A i \in 1..Len(h) : disk'[i] = h[i]
  BY <1>1, <1>2
<1>4. ASSUME NEW i \in 1..Len(h)
      PROVE  /\ i \in 1..Len(disk) /\ disk'[i] = disk[i] /\ disk'[i].ended
             /\ disk'[i].line # Torn /\ disk'[i].line \in made
  <2>1. i \in 1..Len(disk) /\ disk'[i] = disk[i] /\ disk[i].ended BY <1>1, <1>3
  <2>2. disk[i].line # Torn /\ disk[i].line \in made BY <2>1 DEF FileInv, LinesInv
  <2>. QED BY <2>1, <2>2
<1>5. LinesInv'
  <2>1. ASSUME NEW i \in 1..Len(disk')
        PROVE  /\ i < Len(disk') => disk'[i].ended
               /\ disk'[i].line = Torn => ~disk'[i].ended
               /\ disk'[i].line # Torn => disk'[i].line \in made'
    <3>1. CASE i \in 1..Len(h) BY <3>1, <1>4
    <3>2. CASE i = Len(h) + 1 BY <3>2, <1>3
    <3>. QED BY <3>1, <3>2, <1>1, <1>3
  <2>2. ASSUME NEW i \in 1..Len(disk'), NEW j \in 1..Len(disk'), i < j, disk'[j].line # Torn
        PROVE  disk'[i].line.stamp < disk'[j].line.stamp
    <3>1. i \in 1..Len(h) BY <2>2, <1>1, <1>3
    <3>2. CASE j \in 1..Len(h)
      BY <3>1, <3>2, <2>2, <1>4 DEF FileInv, LinesInv
    <3>3. CASE j = Len(h) + 1
      BY <3>1, <3>3, <2>2, <1>3, <1>4
    <3>. QED BY <3>2, <3>3, <1>1, <1>3
  <2>. QED BY <1>3, <2>1, <2>2 DEF LinesInv
<1>6. ASSUME NEW i \in 1..Len(disk), disk[i].ended
      PROVE  i \in 1..Len(disk') /\ disk'[i] = disk[i]
  BY <1>6, <1>1, <1>3
<1>. QED BY <1>1, <1>3, <1>5, <1>6

\* What the line with a key says, when there is one.
LEMMA Latest ==
  ASSUME FileInv, NEW k \in Keys
  PROVE  /\ Lookup(disk, k) # NoRecord => \E r \in made : r.key = k
         /\ \A i \in 1..Len(disk) : disk[i].line.key = k =>
              \E r \in made : /\ r.key = k /\ r.stamp >= disk[i].line.stamp /\ ~r.gone
                              /\ Lookup(disk, k) = r
<1> DEFINE of == {i \in 1..Len(disk) : disk[i].line.key = k}
<1>1. disk \in Seq(FileLines) /\ Len(disk) \in Nat BY DEF FileInv, LinesInv
<1>2. ASSUME NEW i \in of PROVE disk[i].line \in made /\ disk[i].line # Torn
  <2>1. disk[i] \in FileLines /\ disk[i].line.key = k /\ i \in 1..Len(disk) BY <1>1
  <2>2. disk[i].line # Torn BY <2>1, LineTypes, FileAssumption
  <2>. QED BY <2>1, <2>2 DEF FileInv, LinesInv
<1>3. of = {} => Lookup(disk, k) = NoRecord BY DEF Lookup
<1>4. ASSUME of # {}
      PROVE  /\ Max(of) \in of /\ \A i \in of : Max(of) >= i
             /\ Lookup(disk, k) = disk[Max(of)].line
  <2>1. Max(of) \in of /\ \A i \in of : Max(of) >= i
    <3>1. of \in SUBSET (0..Len(disk)) BY <1>1
    <3>. HIDE DEF of
    <3>. QED BY <3>1, <1>1, <1>4, Greatest
  <2>2. ~disk[Max(of)].line.gone BY <2>1, <1>2 DEF FileInv, MadeInv
  <2>. QED BY <2>1, <2>2, <1>4 DEF Lookup
<1>5. ASSUME NEW i \in of
      PROVE  \E r \in made : /\ r.key = k /\ r.stamp >= disk[i].line.stamp /\ ~r.gone
                             /\ Lookup(disk, k) = r
  <2>1. /\ Max(of) \in of /\ Max(of) >= i /\ Lookup(disk, k) = disk[Max(of)].line
    BY <1>4, <1>5
  <2>2. disk[Max(of)].line \in made /\ disk[Max(of)].line.key = k /\ disk[Max(of)].line # Torn
    BY <2>1, <1>2
  <2>3. ~disk[Max(of)].line.gone BY <2>2 DEF FileInv, MadeInv
  <2>4. disk[Max(of)].line.stamp >= disk[i].line.stamp
    <3>1. CASE Max(of) = i
      <4>1. disk[i].line \in Records BY <1>2 DEF FileInv, MadeInv
      <4>2. disk[i].line.stamp \in Nat BY <4>1, FileAssumption DEF Records
      <4>. QED BY <3>1, <4>2
    <3>2. CASE Max(of) # i
      <4>1. i \in 1..Len(disk) /\ Max(of) \in 1..Len(disk) /\ i < Max(of) BY <2>1, <3>2, <1>1
      <4>2. disk[i].line.stamp < disk[Max(of)].line.stamp BY <4>1, <2>2 DEF FileInv, LinesInv
      <4>3. disk[i].line \in Records /\ disk[Max(of)].line \in Records BY <2>1, <1>2 DEF FileInv, MadeInv
      <4>4. disk[i].line.stamp \in Nat /\ disk[Max(of)].line.stamp \in Nat
        BY <4>3, FileAssumption DEF Records
      <4>. QED BY <4>2, <4>4
    <3>. QED BY <3>1, <3>2
  <2>. QED BY <2>1, <2>2, <2>3, <2>4
<1>6. Lookup(disk, k) # NoRecord => \E r \in made : r.key = k
  <2>1. of # {} => Max(of) \in of /\ disk[Max(of)].line.key = k BY <1>4
  <2>. QED BY <1>2, <1>3, <2>1
<1>. QED BY <1>5, <1>6

\* The id of a new entry is free, and none is skipped.
LEMMA FreshId ==
  ASSUME Heals, FileInv
  PROVE  NextId(Healed(disk)) \in Nat \ {0} /\ NextId(Healed(disk)) <= Cardinality(made) + 1
<1> DEFINE h == Healed(disk)
           T == {0} \cup {r.key : r \in Parsed(h)}
<1>1. Cardinality(made) \in Nat BY FS_CardinalityType DEF FileInv, MadeInv
<1>2. Parsed(h) \subseteq made
  <2>1. ASSUME NEW i \in 1..Len(h), h[i].line # Torn PROVE h[i].line \in made
    <3>1. h[i] = disk[i] /\ Len(h) <= Len(disk) /\ h \in Seq(FileLines) BY HealedLines DEF FileInv
    <3>2. i \in 1..Len(disk) BY <3>1 DEF FileInv, LinesInv
    <3>. QED BY <2>1, <3>1, <3>2 DEF FileInv, LinesInv
  <2>. QED BY <2>1 DEF Parsed
<1>3. T \in SUBSET (0..Cardinality(made))
  <2>1. ASSUME NEW r \in made PROVE r.key \in 0..Cardinality(made)
    <3>1. r.key \in Nat /\ r.key <= Cardinality(made)
      BY FileAssumption DEF FileInv, MadeInv, Records
    <3>. QED BY <3>1, <1>1
  <2>. QED BY <1>1, <1>2, <2>1
<1>4. Max(T) \in T BY <1>1, <1>3, Greatest
<1>5. Max(T) \in 0..Cardinality(made) /\ NextId(h) = Max(T) + 1 BY <1>3, <1>4 DEF NextId
<1>. HIDE DEF T
<1>. QED BY <1>1, <1>5

\* The record of an append is new, and in order.
LEMMA NewRecord ==
  ASSUME Heals, FileInv, NEW u \in Users, user[u].at = "append", Cardinality(made) < MaxRecords
  PROVE  /\ RecordOf(u) \in Records \ made /\ RecordOf(u) # Torn /\ ~RecordOf(u).gone
         /\ RecordOf(u).stamp = Cardinality(made) + 1 /\ RecordOf(u).key <= Cardinality(made) + 1
         /\ \A r \in made : r.stamp < RecordOf(u).stamp
<1>1. Cardinality(made) \in Nat /\ MaxRecords \in Nat
  BY FS_CardinalityType, FileAssumption DEF FileInv, MadeInv
<1>2. user[u] \in Appending
  <2>1. user[u] \in {AtRest} \cup Appending \cup Trimming BY DEF FileInv, UsersInv
  <2>. QED BY <2>1 DEF AtRest, Trimming
<1>3. user[u].gone = FALSE /\ user[u].key \in Nat BY <1>2 DEF Appending
<1>4. /\ RecordOf(u).key = IF user[u].key = New THEN NextId(Healed(disk)) ELSE user[u].key
      /\ RecordOf(u).stamp = Cardinality(made) + 1 /\ RecordOf(u).gone = FALSE
      /\ RecordOf(u) = [key |-> RecordOf(u).key, stamp |-> Cardinality(made) + 1, gone |-> FALSE]
  BY <1>3 DEF RecordOf
<1>5. RecordOf(u).key \in Keys /\ RecordOf(u).key <= Cardinality(made) + 1
  <2>1. CASE user[u].key = New
    <3>1. RecordOf(u).key \in Nat \ {0} /\ RecordOf(u).key <= Cardinality(made) + 1
      BY <2>1, <1>4, FreshId
    <3>2. RecordOf(u).key \in 1..MaxRecords BY <3>1, <1>1
    <3>. QED BY <3>1, <3>2, FileAssumption
  <2>2. CASE user[u].key # New
    <3>1. PICK r \in made : r.key = user[u].key BY <2>2 DEF FileInv, UsersInv
    <3>2. r.key \in Keys /\ r.key \in Nat /\ r.key <= Cardinality(made)
      BY FileAssumption DEF FileInv, MadeInv, Records
    <3>3. RecordOf(u).key = r.key BY <3>1, <2>2, <1>4
    <3>. QED BY <3>2, <3>3, <1>1
  <2>. QED BY <2>1, <2>2
<1>6. RecordOf(u) \in Records
  <2>1. Cardinality(made) + 1 \in 1..MaxRecords BY <1>1
  <2>. QED BY <1>4, <1>5, <2>1 DEF Records
<1>7. \A r \in made : r.stamp < RecordOf(u).stamp
  <2>1. ASSUME NEW r \in made PROVE r.stamp \in Nat /\ r.stamp <= Cardinality(made)
    BY FileAssumption DEF FileInv, MadeInv, Records
  <2>. QED BY <2>1, <1>1, <1>4
<1>8. RecordOf(u) \notin made
  <2>1. RecordOf(u).stamp \in Nat BY <1>1, <1>4
  <2>. QED BY <1>7, <2>1
<1>9. RecordOf(u) # Torn
  <2>1. RecordOf(u).key \in Nat \ {0} BY <1>5, FileAssumption
  <2>. QED BY <2>1 DEF Torn
<1>. QED BY <1>4, <1>5, <1>6, <1>7, <1>8, <1>9

\* What a process is in the middle of.
LEMMA UserShapes ==
  ASSUME FileInv, NEW u \in Users
  PROVE  /\ user[u] \in {AtRest} \cup Appending \cup Trimming
         /\ user[u].at = "append" => user[u] \in Appending /\ ~user[u].unlinked
         /\ user[u].at = "trim" => user[u] \in Trimming /\ user[u].snapshot = <<>>
         /\ user[u].at # "rename" /\ user[u].op \in {"none", "append", "load"}
         /\ (user[u].at = "idle" <=> user[u] = AtRest)
         /\ (user[u].at = "trim" <=> user[u].op = "load")
<1>1. user[u] \in {AtRest} \cup Appending \cup Trimming BY DEF FileInv, UsersInv
<1>2. CASE user[u] = AtRest
  <2>1. user[u].at = "idle" /\ user[u].op = "none" BY <1>2 DEF AtRest
  <2>. QED BY <1>1, <1>2, <2>1
<1>3. CASE user[u] \in Appending
  <2>1. user[u].at = "append" /\ user[u].op = "append" /\ ~user[u].unlinked BY <1>3 DEF Appending
  <2>2. user[u] # AtRest BY <2>1 DEF AtRest
  <2>. QED BY <1>1, <1>3, <2>1, <2>2
<1>4. CASE user[u] \in Trimming
  <2>1. user[u].at = "trim" /\ user[u].op = "load" /\ user[u].snapshot = <<>> BY <1>4 DEF Trimming
  <2>2. user[u] # AtRest BY <2>1 DEF AtRest
  <2>. QED BY <1>1, <1>4, <2>1, <2>2
<1>. QED BY <1>1, <1>2, <1>3, <1>4

\* One process comes to rest, and the file is what the next reader finds.
LEMMA ComesToRest ==
  ASSUME FileInv, NEW u \in Users, user' = [user EXCEPT ![u] = AtRest], made \subseteq made',
         disk' = disk \/ user[u].at \in {"append", "trim"}
  PROVE  UsersInv'
<1>1. user \in [Users -> {AtRest} \cup Appending \cup Trimming] BY DEF FileInv, UsersInv
<1>2. user' \in [Users -> {AtRest} \cup Appending \cup Trimming] BY <1>1
<1>3. ASSUME NEW v \in Users, user'[v].at # "idle" PROVE v # u /\ user'[v] = user[v]
  BY <1>1, <1>3 DEF AtRest
<1>4. ASSUME NEW v \in Users, user'[v].at = "append"
      PROVE user'[v].key = New \/ \E r \in made' : r.key = user'[v].key
  BY <1>3, <1>4 DEF FileInv, UsersInv
<1>5. ASSUME NEW v \in Users, user'[v].at = "trim"
      PROVE TornTail(disk)' /\ \A w \in Users \ {v} : user'[w] = AtRest
  <2>1. v # u /\ user[v].at = "trim" BY <1>3, <1>5
  <2>2. TornTail(disk) /\ \A w \in Users \ {v} : user[w] = AtRest BY <2>1 DEF FileInv, UsersInv
  <2>3. user[u] = AtRest BY <2>1, <2>2
  <2>4. disk' = disk BY <2>3 DEF AtRest
  <2>. QED BY <2>2, <2>4, <1>1
<1>. QED BY <1>2, <1>4, <1>5 DEF UsersInv

\* Every step of the memory keeps the invariant of the file.
LEMMA FileStep == Mem /\ FileInv /\ [FileNext]_fileVars => FileInv'
<1> SUFFICES ASSUME Mem, FileInv, [FileNext]_fileVars PROVE FileInv' OBVIOUS
<1>0. Heals /\ "load" \notin Meeting /\ "compact" \notin Meeting BY DEF Mem
<1>u. user \in [Users -> {AtRest} \cup Appending \cup Trimming] BY DEF FileInv, UsersInv
<1>d. died \in 0..MaxDeaths BY DEF FileInv
<1>n. Cardinality(made) \in Nat /\ MaxRecords \in Nat /\ MaxDeaths \in Nat
  BY FS_CardinalityType, FileAssumption DEF FileInv, MadeInv
<1>1. ASSUME UNCHANGED <<disk, made, acked, died>>, UsersInv' PROVE FileInv'
  BY <1>1 DEF FileInv, LinesInv, MadeInv, AckInv
\* Appends may meet; nobody trims then.
<1>2. ASSUME NEW u \in Users, NEW k \in Keys \cup {New}, OpenPath(u, k, FALSE),
             k # New => Lookup(disk, k) # NoRecord
      PROVE  FileInv'
  <2>1. /\ user' = [user EXCEPT ![u] = [at |-> "append", op |-> "append", key |-> k, gone |-> FALSE,
                                        unlinked |-> FALSE]]
        /\ UNCHANGED <<disk, made, acked, died>> /\ MayBegin(u, "append")
    BY <1>2 DEF OpenPath, Becomes
  <2>2. k \in Nat /\ (k = New \/ \E r \in made : r.key = k)
    <3>1. CASE k = New BY <3>1 DEF New
    <3>2. CASE k # New
      <4>1. k \in Keys BY <3>2
      <4>2. \E r \in made : r.key = k BY <4>1, <3>2, <1>2, Latest
      <4>. QED BY <4>1, <4>2, FileAssumption
    <3>. QED BY <3>1, <3>2
  <2>3. user' \in [Users -> {AtRest} \cup Appending \cup Trimming] BY <2>1, <2>2, <1>u DEF Appending
  <2>4. \A v \in Users : user[v].at # "trim"
    <3>1. ASSUME NEW v \in Users, user[v].at = "trim" PROVE FALSE
      <4>1. user[v] # AtRest /\ user[v].op = "load" BY <3>1, UserShapes
      <4>. QED BY <4>1, <2>1, <1>0 DEF MayBegin
    <3>. QED BY <3>1
  <2>5. ASSUME NEW v \in Users
        PROVE  /\ user'[v].at # "trim"
               /\ user'[v].at = "append" => user'[v].key = New \/ \E r \in made : r.key = user'[v].key
    <3>1. CASE v = u BY <3>1, <2>1, <2>2, <1>u
    <3>2. CASE v # u
      <4>1. user'[v] = user[v] BY <3>2, <2>1, <1>u
      <4>. QED BY <4>1, <2>4 DEF FileInv, UsersInv
    <3>. QED BY <3>1, <3>2
  <2>6. UsersInv' BY <2>1, <2>3, <2>5 DEF UsersInv
  <2>. QED BY <2>1, <2>6, <1>1
\* A record is written: all of it, without its newline, or after a crash of
\* its writer.
<1>3. ASSUME NEW u \in Users, user[u].at = "append", Cardinality(made) < MaxRecords,
             NEW ended \in BOOLEAN, Write(u, RecordOf(u), ended),
             made' = made \cup {RecordOf(u)}, user' = [user EXCEPT ![u] = AtRest],
             died' \in 0..MaxDeaths,
             \/ acked' = acked
             \/ ended /\ acked' = [acked EXCEPT ![RecordOf(u).key] = RecordOf(u).stamp]
      PROVE  FileInv'
  <2> DEFINE r == RecordOf(u)
             x == [line |-> r, ended |-> ended]
  <2>1. /\ r \in Records \ made /\ r # Torn /\ ~r.gone
        /\ r.stamp = Cardinality(made) + 1 /\ r.key <= Cardinality(made) + 1
        /\ \A q \in made : q.stamp < r.stamp
    BY <1>0, <1>3, NewRecord
  <2>2. disk' = Append(Healed(disk), x)
    <3>1. ~user[u].unlinked BY <1>3, UserShapes
    <3>2. ~Unended(Healed(disk)) BY <1>0, HealedLines DEF FileInv
    <3>. QED BY <3>1, <3>2, <1>3 DEF Write, Glued
  <2>. HIDE DEF r
  <2>3. x \in FileLines BY <2>1 DEF FileLines
  <2>4. MadeInv'
    <3>1. made' = made \cup {r} BY <1>3 DEF r
    <3>2. IsFiniteSet(made') /\ Cardinality(made') = Cardinality(made) + 1
      BY <3>1, <2>1, FS_AddElement DEF FileInv, MadeInv
    <3>3. ASSUME NEW q \in made' PROVE q.stamp <= Cardinality(made') /\ q.key <= Cardinality(made') /\ ~q.gone
      <4>1. CASE q = r BY <4>1, <3>2, <2>1, <1>n
      <4>2. CASE q \in made
        <5>1. q.stamp <= Cardinality(made) /\ q.key <= Cardinality(made) /\ ~q.gone
          BY <4>2 DEF FileInv, MadeInv
        <5>2. q.stamp \in Nat /\ q.key \in Nat
          <6>1. q \in Records BY <4>2 DEF FileInv, MadeInv
          <6>. QED BY <6>1, RecordTypes
        <5>. QED BY <5>1, <5>2, <3>2, <1>n
      <4>. QED BY <4>1, <4>2, <3>1
    <3>4. made' \subseteq Records /\ Cardinality(made') <= MaxRecords
      BY <3>1, <3>2, <2>1, <1>3, <1>n DEF FileInv, MadeInv
    <3>. QED BY <3>2, <3>3, <3>4 DEF MadeInv
  <2>5. UsersInv' BY <1>3, ComesToRest
  <2>6. /\ LinesInv'
        /\ \A i \in 1..Len(disk) : disk[i].ended => i \in 1..Len(disk') /\ disk'[i] = disk[i]
        /\ \E i \in 1..Len(disk') : disk'[i] = x
    <3>1. made \subseteq made' /\ r \in made' BY <1>3 DEF r
    <3>. QED BY <3>1, <1>0, <2>1, <2>2, <2>3, Longer
  <2>7. AckInv'
    <3>1. CASE acked' = acked BY <3>1, <2>6 DEF FileInv, AckInv
    <3>2. CASE ended /\ acked' = [acked EXCEPT ![r.key] = r.stamp]
      <4>1. r.key \in Keys /\ r.stamp \in 1..MaxRecords /\ r.stamp \in Nat
        BY <2>1, FileAssumption DEF Records
      <4>2. acked \in [Keys -> 0..MaxRecords] BY DEF FileInv, AckInv
      <4>3. acked' \in [Keys -> 0..MaxRecords] BY <3>2, <4>1, <4>2
      <4>4. ASSUME NEW k \in Keys, acked'[k] # 0
            PROVE  \E i \in 1..Len(disk') :
                     disk'[i].ended /\ disk'[i].line.key = k /\ disk'[i].line.stamp >= acked'[k]
        <5>1. CASE k = r.key
          <6>1. PICK i \in 1..Len(disk') : disk'[i] = x BY <2>6
          <6>2. disk'[i].ended /\ disk'[i].line = r BY <6>1, <3>2
          <6>3. acked'[k] = r.stamp BY <5>1, <3>2, <4>1, <4>2
          <6>. QED BY <6>2, <6>3, <5>1, <4>1
        <5>2. CASE k # r.key
          <6>1. acked'[k] = acked[k] BY <5>2, <3>2, <4>2
          <6>2. PICK i \in 1..Len(disk) :
                  disk[i].ended /\ disk[i].line.key = k /\ disk[i].line.stamp >= acked[k]
            BY <6>1, <4>4 DEF FileInv, AckInv
          <6>. QED BY <6>1, <6>2, <2>6
        <5>. QED BY <5>1, <5>2
      <4>. QED BY <4>3, <4>4 DEF AckInv
    <3>. QED BY <1>3, <3>1, <3>2 DEF r
  <2>. QED BY <1>3, <2>4, <2>5, <2>6, <2>7 DEF FileInv
<1>4. ASSUME NEW u \in Users, AppendLine(u) PROVE FileInv'
  <2>1. /\ user[u].at = "append" /\ Cardinality(made) < MaxRecords
        /\ Write(u, RecordOf(u), TRUE) /\ made' = made \cup {RecordOf(u)}
        /\ user' = [user EXCEPT ![u] = AtRest] /\ died' = died
        /\ acked' = [acked EXCEPT ![RecordOf(u).key] = RecordOf(u).stamp]
    BY <1>4 DEF AppendLine, Becomes
  <2>. QED BY <2>1, <1>3, <1>d
<1>5. ASSUME NEW u \in Users, Dies(u) PROVE FileInv'
  <2>1. /\ died' \in 0..MaxDeaths /\ user' = [user EXCEPT ![u] = AtRest] /\ acked' = acked
    BY <1>5, <1>d, <1>n DEF Dies, Becomes
  <2>2. CASE UNCHANGED <<disk, made>>
    <3>1. UsersInv' BY <2>1, <2>2, ComesToRest
    <3>. QED BY <2>1, <2>2, <3>1 DEF FileInv, LinesInv, MadeInv, AckInv
  <2>3. CASE user[u].at = "append" /\ disk' = Healed(disk) /\ UNCHANGED made
    <3>1. UsersInv' BY <2>1, <2>3, ComesToRest
    <3>2. /\ disk' \in Seq(FileLines) /\ Len(disk') <= Len(disk)
          /\ \A i \in 1..Len(disk') : disk'[i] = disk[i]
          /\ \A i \in 1..Len(disk) : disk[i].ended => i \in 1..Len(disk')
      BY <2>3, <1>0, HealedLines DEF FileInv
    <3>3. LinesInv' /\ AckInv' BY <2>1, <2>3, <3>2, Shortened
    <3>. QED BY <2>1, <2>3, <3>1, <3>3 DEF FileInv, MadeInv
  <2>4. CASE user[u].at = "append" /\ Write(u, Torn, FALSE) /\ UNCHANGED made
    <3>1. UsersInv' BY <2>1, <2>4, ComesToRest
    <3> DEFINE x == [line |-> Torn, ended |-> FALSE]
    <3>2. disk' = Append(Healed(disk), x)
      <4>1. ~user[u].unlinked BY <2>4, UserShapes
      <4>2. ~Unended(Healed(disk)) BY <1>0, HealedLines DEF FileInv
      <4>. QED BY <4>1, <4>2, <2>4 DEF Write, Glued
    <3>3. x \in FileLines /\ x.line = Torn /\ ~x.ended BY DEF FileLines
    <3>. HIDE DEF x
    <3>4. /\ LinesInv'
          /\ \A i \in 1..Len(disk) : disk[i].ended => i \in 1..Len(disk') /\ disk'[i] = disk[i]
      BY <1>0, <2>4, <3>2, <3>3, Longer
    <3>5. AckInv' BY <2>1, <3>4 DEF FileInv, AckInv
    <3>. QED BY <2>1, <2>4, <3>1, <3>4, <3>5 DEF FileInv, MadeInv
  <2>5. ASSUME NEW ended \in BOOLEAN, user[u].at = "append", Cardinality(made) < MaxRecords,
               Write(u, RecordOf(u), ended), made' = made \cup {RecordOf(u)}
        PROVE  FileInv'
    BY <2>1, <2>5, <1>3
  <2>. QED BY <1>5, <2>2, <2>3, <2>4, <2>5 DEF Dies
\* The reader that found a torn line is alone until it has cut that line off.
<1>6. ASSUME NEW u \in Users, Load(u) PROVE FileInv'
  <2>1. /\ user' = [user EXCEPT ![u] = [at |-> "trim", op |-> "load", snapshot |-> <<>>]]
        /\ TornTail(disk) /\ MayBegin(u, "load") /\ UNCHANGED <<disk, made, acked, died>>
    BY <1>6 DEF Load, Becomes
  <2>2. \A v \in Users : user[v] = AtRest BY <2>1, <1>0 DEF MayBegin
  <2>3. user' \in [Users -> {AtRest} \cup Appending \cup Trimming] BY <2>1, <1>u DEF Trimming
  <2>4. TornTail(disk)' BY <2>1 DEF TornTail, Corrupt
  <2>5. ASSUME NEW v \in Users, user'[v].at # "idle" PROVE v = u /\ user'[v].at = "trim"
    BY <2>1, <2>2, <2>5, <1>u DEF AtRest
  <2>6. \A w \in Users \ {u} : user'[w] = AtRest BY <2>1, <2>2, <1>u
  <2>7. UsersInv' BY <2>3, <2>4, <2>5, <2>6 DEF UsersInv
  <2>. QED BY <2>1, <2>7, <1>1
<1>7. ASSUME NEW u \in Users, Trim(u) PROVE FileInv'
  <2>1. user[u].at = "trim" /\ user[u].snapshot = <<>> /\ TornTail(disk)
    BY <1>7, UserShapes DEF Trim, FileInv, UsersInv
  <2>2. /\ user' = [user EXCEPT ![u] = AtRest] /\ UNCHANGED <<made, acked, died>>
        /\ disk' = IF disk = <<>> THEN disk ELSE WithoutLast(disk)
    BY <1>7, <2>1 DEF Trim, Becomes
  <2>3. disk \in Seq(FileLines) /\ Len(disk) \in Nat BY DEF FileInv, LinesInv
  <2>4. Len(disk) \in 1..Len(disk) /\ disk[Len(disk)].line = Torn
    BY <2>1 DEF TornTail, Corrupt
  <2>5. ~disk[Len(disk)].ended BY <2>4 DEF FileInv, LinesInv
  <2>6. /\ disk' \in Seq(FileLines) /\ Len(disk') = Len(disk) - 1
        /\ \A i \in 1..(Len(disk) - 1) : disk'[i] = disk[i]
    <3>1. disk' = SubSeq(disk, 1, Len(disk) - 1) BY <2>2, <2>3, <2>4 DEF WithoutLast
    <3>2. Len(disk) - 1 \in Nat /\ Len(disk) - 1 < Len(disk) BY <2>3, <2>4
    <3>. QED BY <2>3, <3>1, <3>2, Cut
  <2>7. /\ Len(disk') <= Len(disk) /\ \A i \in 1..Len(disk') : disk'[i] = disk[i]
        /\ \A i \in 1..Len(disk) : disk[i].ended => i \in 1..Len(disk')
    BY <2>3, <2>5, <2>6
  <2>8. LinesInv' /\ AckInv' BY <2>2, <2>6, <2>7, Shortened
  <2>9. UsersInv' BY <2>1, <2>2, ComesToRest
  <2>. QED BY <2>2, <2>8, <2>9 DEF FileInv, MadeInv
<1>8. ASSUME NEW u \in Users, Compact(u) \/ Rename(u) PROVE FALSE
  BY <1>8, <1>0, UserShapes DEF Compact, Rename
<1>9. CASE UNCHANGED fileVars
  <2>1. UsersInv' BY <1>9 DEF fileVars, FileInv, UsersInv, TornTail, Corrupt
  <2>. QED BY <1>9, <2>1, <1>1 DEF fileVars
<1>. QED BY <1>0, <1>2, <1>4, <1>5, <1>6, <1>7, <1>8, <1>9 DEF FileNext

\* The invariant holds of an empty file.
LEMMA FileStart == FileInit => FileInv
<1> SUFFICES ASSUME FileInit PROVE FileInv OBVIOUS
<1>1. LinesInv BY DEF FileInit, LinesInv
<1>2. MadeInv
  <2>1. IsFiniteSet(made) /\ Cardinality(made) = 0 BY FS_EmptySet DEF FileInit
  <2>. QED BY <2>1, FileAssumption DEF FileInit, MadeInv
<1>3. AckInv BY FileAssumption DEF FileInit, AckInv
<1>4. UsersInv BY DEF FileInit, UsersInv, AtRest
<1>5. died \in 0..MaxDeaths BY FileAssumption DEF FileInit
<1>. QED BY <1>1, <1>2, <1>3, <1>4, <1>5 DEF FileInv

\* So it always holds.
LEMMA FileInductive == ASSUME Mem PROVE FileSpec => []FileInv
BY FileStart, FileStep, PTL DEF FileSpec

\* Types: the file of the memory is a sequence of lines, all but the last ended.
THEOREM FileTyped == ASSUME Mem PROVE FileSpec => []FileTypeOK
<1>1. FileInv => FileTypeOK
  <2> SUFFICES ASSUME FileInv PROVE FileTypeOK OBVIOUS
  <2>1. disk \in Seq(FileLines) /\ \A i \in 1..(Len(disk) - 1) : disk[i].ended
    <3>1. disk \in Seq(FileLines) /\ Len(disk) \in Nat BY DEF FileInv, LinesInv
    <3>2. ASSUME NEW i \in 1..(Len(disk) - 1) PROVE i \in 1..Len(disk) /\ i < Len(disk) BY <3>1
    <3>. QED BY <3>1, <3>2 DEF FileInv, LinesInv
  <2>2. \A u \in Users : user[u].at \in {"idle", "append", "trim", "rename"}
    BY UserShapes DEF AtRest, Appending, Trimming
  <2>. QED BY <2>1, <2>2 DEF FileTypeOK, FileInv, MadeInv, AckInv
<1>. QED BY <1>1, FileInductive, PTL

\* What the memory acknowledged is read back, or something newer of the same
\* entry is, whichever appends meet and whoever dies in one.
THEOREM AcknowledgedStays == ASSUME Mem PROVE FileSpec => []AcknowledgedKept
<1>1. FileInv => AcknowledgedKept
  <2> SUFFICES ASSUME FileInv, NEW k \in Keys, acked[k] # 0
               PROVE  /\ Readable(disk)
                      /\ \E r \in made : /\ r.key = k /\ r.stamp >= acked[k]
                                         /\ Lookup(disk, k) = IF r.gone THEN NoRecord ELSE r
    BY DEF AcknowledgedKept
  <2>1. PICK i \in 1..Len(disk) :
          disk[i].ended /\ disk[i].line.key = k /\ disk[i].line.stamp >= acked[k]
    BY DEF FileInv, AckInv
  <2>2. PICK r \in made : /\ r.key = k /\ r.stamp >= disk[i].line.stamp /\ ~r.gone
                          /\ Lookup(disk, k) = r
    BY <2>1, Latest
  <2>3. r.stamp >= acked[k]
    <3>1. disk[i] \in FileLines /\ disk[i].line # Torn
      BY <2>1, FileAssumption DEF FileInv, LinesInv, Torn
    <3>2. disk[i].line.stamp \in Nat BY <3>1, LineTypes
    <3>3. r \in Records BY DEF FileInv, MadeInv
    <3>4. r.stamp \in Nat BY <3>3 DEF Records
    <3>5. acked[k] \in Nat BY DEF FileInv, AckInv
    <3>. QED BY <2>1, <2>2, <3>2, <3>4, <3>5
  <2>4. Readable(disk)
    <3>1. disk \in Seq(FileLines) /\ Len(disk) \in Nat BY DEF FileInv, LinesInv
    <3>2. ASSUME NEW j \in 1..Len(disk), disk[j].line = Torn PROVE j = Len(disk)
      <4>1. ~disk[j].ended BY <3>2 DEF FileInv, LinesInv
      <4>2. ~(j < Len(disk)) BY <4>1 DEF FileInv, LinesInv
      <4>. QED BY <4>2, <3>1
    <3>. QED BY <3>2 DEF Readable, Corrupt
  <2>. QED BY <2>2, <2>3, <2>4
<1>. QED BY <1>1, FileInductive, PTL

\* The task store as long as nobody dies, and who compacts is alone.
Calm == ~Heals /\ MaxDeaths = 0 /\ "compact" \notin Meeting

Putting == [at : {"append"}, op : {"append"}, key : Keys, gone : BOOLEAN, unlinked : {FALSE}]
Compacting == [at : {"rename"}, op : {"compact"}, snapshot : {<<s>> : s \in Seq(Records)}]

\* Every line is whole; what was acknowledged is what a reader finds; and the
\* records a compaction holds are still what there is.
Whole ==
  /\ disk \in Seq(FileLines)
  /\ \A i \in 1..Len(disk) : disk[i].ended /\ disk[i].line # Torn /\ disk[i].line \in made

Found(k) ==
  \E r \in made : /\ r.key = k /\ r.stamp >= acked[k]
                  /\ Lookup(disk, k) = IF r.gone THEN NoRecord ELSE r

StoreFileInv ==
  /\ Whole
  /\ made \subseteq Records /\ IsFiniteSet(made)
  /\ acked \in [Keys -> 0..MaxRecords] /\ \A k \in Keys : acked[k] # 0 => Found(k)
  /\ user \in [Users -> {AtRest} \cup Putting \cup Compacting]
  /\ \A u \in Users : user[u].at = "rename" =>
       user[u].snapshot[1] = LoadAll /\ \A v \in Users \ {u} : user[v] = AtRest
  /\ died = 0

\* The line that is read for a key is the last one of that key.
LEMMA LookupIs ==
  ASSUME NEW lines \in Seq(FileLines), NEW k \in Keys, NEW m \in 1..Len(lines),
         lines[m].line.key = k, \A i \in 1..Len(lines) : i > m => lines[i].line.key # k
  PROVE  Lookup(lines, k) = IF lines[m].line.gone THEN NoRecord ELSE lines[m].line
<1> DEFINE of == {i \in 1..Len(lines) : lines[i].line.key = k}
<1>1. m \in of /\ \A i \in of : m >= i OBVIOUS
<1>2. of \subseteq Nat OBVIOUS
<1>3. Max(of) \in of /\ \A i \in of : Max(of) >= i
  <2>. HIDE DEF of
  <2>. QED BY <1>1 DEF Max
<1>4. Max(of) = m
  <2>. HIDE DEF of
  <2>1. Max(of) >= m /\ m >= Max(of) /\ m \in Nat /\ Max(of) \in Nat BY <1>1, <1>2, <1>3
  <2>. QED BY <2>1
<1>. QED BY <1>1, <1>4 DEF Lookup

\* Nothing is found of a key that has no record.
LEMMA LookupNone ==
  ASSUME NEW lines, NEW k \in Keys, \A i \in 1..Len(lines) : lines[i].line.key # k
  PROVE  Lookup(lines, k) = NoRecord
BY DEF Lookup

\* What is found is a record of the file.
LEMMA LookupOne ==
  ASSUME NEW lines \in Seq(FileLines), NEW k \in Keys, NEW j \in 1..Len(lines),
         lines[j].line.key = k
  PROVE  \E m \in 1..Len(lines) :
           /\ lines[m].line.key = k /\ \A i \in 1..Len(lines) : i > m => lines[i].line.key # k
<1> DEFINE of == {i \in 1..Len(lines) : lines[i].line.key = k}
<1>1. j \in of /\ of \in SUBSET (0..Len(lines)) /\ Len(lines) \in Nat OBVIOUS
<1>2. Max(of) \in of /\ \A i \in of : Max(of) >= i
  <2>. HIDE DEF of
  <2>. QED BY <1>1, Greatest
<1>3. Max(of) \in 1..Len(lines) /\ lines[Max(of)].line.key = k BY <1>2
<1>4. ASSUME NEW i \in 1..Len(lines), i > Max(of) PROVE lines[i].line.key # k
  BY <1>2, <1>3, <1>4
<1>. QED BY <1>3, <1>4

\* What a reader finds is among the records, under its key.
LEMMA LookupMade ==
  ASSUME Whole, NEW k \in Keys, Lookup(disk, k) # NoRecord
  PROVE  Lookup(disk, k) \in made /\ Lookup(disk, k).key = k
<1>1. PICK j \in 1..Len(disk) : disk[j].line.key = k BY LookupNone
<1>2. PICK m \in 1..Len(disk) :
        /\ disk[m].line.key = k /\ \A i \in 1..Len(disk) : i > m => disk[i].line.key # k
  BY <1>1, LookupOne DEF Whole
<1>3. Lookup(disk, k) = IF disk[m].line.gone THEN NoRecord ELSE disk[m].line
  BY <1>2, LookupIs DEF Whole
<1>4. disk[m].line \in made BY DEF Whole
<1>. QED BY <1>2, <1>3, <1>4

\* A compaction's file holds each live record once.
LEMMA LoadsAll ==
  ASSUME StoreFileInv
  PROVE  /\ LoadAll \in Seq(Records)
         /\ \A i \in 1..Len(LoadAll) : \E k \in Keys : LoadAll[i] = Lookup(disk, k) /\ LoadAll[i] # NoRecord
         /\ \A k \in Keys : Lookup(disk, k) # NoRecord => \E i \in 1..Len(LoadAll) : LoadAll[i] = Lookup(disk, k)
         /\ \A i, j \in 1..Len(LoadAll) : LoadAll[i] = LoadAll[j] => i = j
<1> DEFINE S == {Lookup(disk, k) : k \in Keys} \ {NoRecord}
<1>1. S \subseteq made BY LookupMade DEF StoreFileInv
<1>2. IsFiniteSet(S) BY <1>1, FS_Subset DEF StoreFileInv
<1>3. S \subseteq Records BY <1>1 DEF StoreFileInv
<1>4. LoadAll = SetToSeq(S) BY DEF LoadAll
<1>5. \A i \in S : \E k \in Keys : i = Lookup(disk, k) /\ i # NoRecord OBVIOUS
<1>6. \A k \in Keys : Lookup(disk, k) # NoRecord => Lookup(disk, k) \in S OBVIOUS
<1>. HIDE DEF S
<1> DEFINE n == Cardinality(S)
<1>7. n \in Nat /\ ExistsBijection(1..n, S) BY <1>2, FS_CardinalityType
<1>8. PICK f \in [1..n -> S] : IsInjective(f)
  BY <1>7 DEF ExistsBijection, Bijection, Injection
<1>9. SetToSeq(S) \in [1..n -> S] /\ IsInjective(SetToSeq(S)) BY <1>8 DEF SetToSeq
<1>10. SetToSeq(S) \in Surjection(1..n, S)
  <2>1. SetToSeq(S) \in Injection(1..n, S) BY <1>9 DEF Injection
  <2>2. Cardinality(1..n) = n BY <1>7, FS_Interval
  <2>. QED BY <2>1, <2>2, <1>2, FS_Injection
<1>. HIDE DEF n
<1>11. LoadAll \in Seq(S) /\ Len(LoadAll) = n /\ DOMAIN LoadAll = 1..n BY <1>4, <1>7, <1>9
<1>12. LoadAll \in Seq(Records) BY <1>3, <1>11
<1>13. \A i \in 1..n : LoadAll[i] \in S BY <1>4, <1>9
<1>14. \A s \in S : \E i \in 1..n : LoadAll[i] = s BY <1>4, <1>10 DEF Surjection
<1>15. \A i, j \in 1..n : LoadAll[i] = LoadAll[j] => i = j BY <1>4, <1>9, <1>11 DEF IsInjective
<1>. QED BY <1>5, <1>6, <1>11, <1>12, <1>13, <1>14, <1>15

\* The forms of an operation on the task store.
LEMMA StoreShapes ==
  ASSUME StoreFileInv, NEW u \in Users
  PROVE  /\ user[u] = AtRest \/ user[u] \in Putting \/ user[u] \in Compacting
         /\ user[u].at = "append" => user[u] \in Putting
         /\ user[u].at = "rename" => user[u] \in Compacting
         /\ user[u].at # "trim"
         /\ user[u] \in Compacting => user[u] # AtRest /\ user[u].op = "compact" /\ user[u].at = "rename"
         /\ user[u] \in Putting => user[u] # AtRest /\ user[u].op = "append" /\ user[u].at = "append"
         /\ user[u] = AtRest => user[u].at = "idle"
<1>1. user[u] = AtRest \/ user[u] \in Putting \/ user[u] \in Compacting BY DEF StoreFileInv
<1>2. user[u] = AtRest => user[u].at = "idle" BY DEF AtRest
<1>3. user[u] \in Putting => user[u].op = "append" /\ user[u].at = "append" BY DEF Putting
<1>4. user[u] \in Compacting => user[u].op = "compact" /\ user[u].at = "rename" BY DEF Compacting
<1>5. user[u].at = "append" \/ user[u].at = "rename" => user[u] # AtRest BY <1>2
<1>. QED BY <1>1, <1>2, <1>3, <1>4, <1>5

\* Every step of the task store keeps the invariant of the file.
LEMMA StoreFileStep == Calm /\ StoreFileInv /\ [FileNext]_fileVars => StoreFileInv'
<1> SUFFICES ASSUME Calm, StoreFileInv, [FileNext]_fileVars PROVE StoreFileInv' OBVIOUS
<1>0. ~Heals /\ MaxDeaths = 0 /\ "compact" \notin Meeting BY DEF Calm
<1>u. user \in [Users -> {AtRest} \cup Putting \cup Compacting] BY DEF StoreFileInv
<1>w. disk \in Seq(FileLines) /\ Len(disk) \in Nat BY DEF StoreFileInv, Whole
<1>n. Cardinality(made) \in Nat /\ MaxRecords \in Nat
  BY FS_CardinalityType, FileAssumption DEF StoreFileInv
<1>t. ~TornTail(disk)
  <2>1. Corrupt(disk) = {} BY DEF Corrupt, StoreFileInv, Whole
  <2>. QED BY <2>1 DEF TornTail
\* A process begins, or comes to rest, and nothing else happens.
<1>1. ASSUME NEW u \in Users, NEW now \in {AtRest} \cup Putting \cup Compacting, Becomes(u, now),
             UNCHANGED <<disk, made, acked, died>>,
             now # AtRest => \A v \in Users : user[v].at # "rename",
             now.at = "rename" => now.snapshot[1] = LoadAll /\ \A v \in Users \ {u} : user[v] = AtRest
      PROVE  StoreFileInv'
  <2>1. user' = [user EXCEPT ![u] = now] BY <1>1 DEF Becomes
  <2>2. user' \in [Users -> {AtRest} \cup Putting \cup Compacting] BY <2>1, <1>u
  <2>3. ASSUME NEW v \in Users, user'[v].at = "rename"
        PROVE  user'[v].snapshot[1] = LoadAll' /\ \A w \in Users \ {v} : user'[w] = AtRest
    <3>1. LoadAll' = LoadAll BY <1>1 DEF LoadAll, Lookup
    <3>2. CASE v = u
      <4>1. user'[v] = now BY <3>2, <2>1, <1>u
      <4>2. \A w \in Users \ {v} : user'[w] = user[w] BY <3>2, <2>1, <1>u
      <4>. QED BY <4>1, <4>2, <3>1, <3>2, <2>3, <1>1
    <3>3. CASE v # u
      <4>1. user'[v] = user[v] /\ user'[u] = now BY <3>3, <2>1, <1>u
      <4>2. user[v].at = "rename" BY <4>1, <2>3
      <4>3. now = AtRest BY <4>2, <1>1
      <4>4. user[v].snapshot[1] = LoadAll /\ \A w \in Users \ {v} : user[w] = AtRest
        BY <4>2 DEF StoreFileInv
      <4>5. \A w \in Users \ {v} : user'[w] = AtRest BY <4>1, <4>3, <4>4, <2>1, <1>u
      <4>. QED BY <4>1, <4>4, <4>5, <3>1
    <3>. QED BY <3>2, <3>3
  <2>4. Whole' BY <1>1 DEF StoreFileInv, Whole
  <2>5. UNCHANGED <<disk, made, acked>> BY <1>1
  <2>6. \A k \in Keys : acked'[k] # 0 => Found(k)' BY <2>5 DEF StoreFileInv, Found, Lookup
  <2>. QED BY <2>2, <2>3, <2>4, <2>6, <1>1 DEF StoreFileInv
<1>2. ASSUME NEW u \in Users, NEW k \in Keys, NEW gone \in BOOLEAN, OpenPath(u, k, gone)
      PROVE  StoreFileInv'
  <2> DEFINE now == [at |-> "append", op |-> "append", key |-> k, gone |-> gone, unlinked |-> FALSE]
  <2>1. now \in Putting /\ now.at = "append" BY DEF Putting
  <2>2. Becomes(u, now) /\ UNCHANGED <<disk, made, acked, died>> /\ MayBegin(u, "append")
    BY <1>2 DEF OpenPath
  <2>3. \A v \in Users : user[v].at # "rename"
    <3>1. ASSUME NEW v \in Users, user[v].at = "rename" PROVE FALSE
      <4>1. user[v] # AtRest /\ user[v].op = "compact" BY <3>1, StoreShapes
      <4>. QED BY <4>1, <2>2, <1>0 DEF MayBegin
    <3>. QED BY <3>1
  <2>. HIDE DEF now
  <2>. QED BY <2>1, <2>2, <2>3, <1>1
<1>3. ASSUME NEW u \in Users, AppendLine(u) PROVE StoreFileInv'
  <2> DEFINE r == RecordOf(u)
             x == [line |-> r, ended |-> TRUE]
  <2>1. /\ user[u].at = "append" /\ Cardinality(made) < MaxRecords /\ Write(u, r, TRUE)
        /\ made' = made \cup {r} /\ acked' = [acked EXCEPT ![r.key] = r.stamp]
        /\ user' = [user EXCEPT ![u] = AtRest] /\ died' = died
    BY <1>3 DEF AppendLine, Becomes
  <2>2. user[u].key \in Keys /\ user[u].gone \in BOOLEAN /\ ~user[u].unlinked
    BY <2>1, StoreShapes DEF Putting
  <2>3. user[u].key # New BY <2>2, FileAssumption DEF New
  <2>4. /\ r = [key |-> user[u].key, stamp |-> Cardinality(made) + 1, gone |-> user[u].gone]
        /\ r \in Records /\ r.key \in Keys /\ r.stamp \in 1..MaxRecords
    <3>1. r = [key |-> user[u].key, stamp |-> Cardinality(made) + 1, gone |-> user[u].gone]
      BY <2>3 DEF RecordOf
    <3>2. Cardinality(made) + 1 \in 1..MaxRecords BY <2>1, <1>n
    <3>. HIDE DEF r
    <3>. QED BY <3>1, <3>2, <2>2 DEF Records
  <2>. HIDE DEF r
  <2>5. r # Torn
    <3>1. r.key # 0 BY <2>4, FileAssumption
    <3>. QED BY <3>1 DEF Torn
  <2>6. disk' = Append(disk, x)
    <3>1. ~Unended(disk)
      <4>1. ASSUME disk # <<>> PROVE disk[Len(disk)].ended
        <5>1. Len(disk) \in 1..Len(disk) BY <4>1, <1>w
        <5>. QED BY <5>1 DEF StoreFileInv, Whole
      <4>. QED BY <4>1 DEF Unended
    <3>2. Healed(disk) = disk BY <1>0 DEF Healed
    <3>. QED BY <3>1, <3>2, <2>1, <2>2 DEF Write, Glued
  <2>7. x \in FileLines /\ x.line = r /\ x.ended BY <2>4 DEF FileLines
  <2>. HIDE DEF x
  <2>8. /\ disk' \in Seq(FileLines) /\ Len(disk') = Len(disk) + 1 /\ disk'[Len(disk) + 1] = x
        /\ \A i \in 1..Len(disk) : disk'[i] = disk[i]
    BY <2>6, <2>7, <1>w
  <2>9. Whole'
    <3>1. ASSUME NEW i \in 1..Len(disk')
          PROVE  disk'[i].ended /\ disk'[i].line # Torn /\ disk'[i].line \in made'
      <4>1. CASE i \in 1..Len(disk) BY <4>1, <2>1, <2>8 DEF StoreFileInv, Whole
      <4>2. CASE i = Len(disk) + 1 BY <4>2, <2>1, <2>5, <2>7, <2>8
      <4>. QED BY <4>1, <4>2, <2>8, <1>w
    <3>. QED BY <3>1, <2>8 DEF Whole
  <2>10. IsFiniteSet(made') BY <2>1, FS_AddElement DEF StoreFileInv
  <2>11. acked' \in [Keys -> 0..MaxRecords]
    BY <2>1, <2>4 DEF StoreFileInv
  <2>12. ASSUME NEW k \in Keys, acked'[k] # 0 PROVE Found(k)'
    <3>1. CASE k = r.key
      <4>1. Len(disk) + 1 \in 1..Len(disk') /\ disk'[Len(disk) + 1].line = r
        BY <2>7, <2>8, <1>w
      <4>2. \A i \in 1..Len(disk') : i > Len(disk) + 1 => disk'[i].line.key # k BY <2>8, <1>w
      <4>3. Lookup(disk', k) = IF r.gone THEN NoRecord ELSE r
        BY <4>1, <4>2, <3>1, <2>8, LookupIs
      <4>4. acked'[k] = r.stamp /\ r.stamp \in Nat
        <5>1. acked \in [Keys -> 0..MaxRecords] BY DEF StoreFileInv
        <5>. QED BY <5>1, <3>1, <2>1, <2>4
      <4>5. r.stamp >= acked'[k] BY <4>4
      <4>6. r \in made' BY <2>1
      <4>7. r.key = k /\ r.stamp >= acked'[k] /\ Lookup(disk', k) = IF r.gone THEN NoRecord ELSE r
        BY <3>1, <4>3, <4>5
      <4>. QED BY <4>6, <4>7 DEF Found
    <3>2. CASE k # r.key
      <4>1. acked'[k] = acked[k] BY <3>2, <2>1 DEF StoreFileInv
      <4>2. Lookup(disk', k) = Lookup(disk, k)
        <5>0. ASSUME NEW i \in 1..Len(disk'), disk'[i].line.key = k
              PROVE  i \in 1..Len(disk) /\ disk[i].line.key = k
          <6>1. i # Len(disk) + 1 BY <5>0, <3>2, <2>7, <2>8
          <6>. QED BY <6>1, <5>0, <2>8, <1>w
        <5>1. CASE \A i \in 1..Len(disk) : disk[i].line.key # k
          <6>1. Lookup(disk, k) = NoRecord BY <5>1, LookupNone
          <6>2. \A i \in 1..Len(disk') : disk'[i].line.key # k BY <5>0, <5>1
          <6>3. Lookup(disk', k) = NoRecord BY <6>2, LookupNone
          <6>. QED BY <6>1, <6>3
        <5>2. ASSUME NEW j \in 1..Len(disk), disk[j].line.key = k
              PROVE  Lookup(disk', k) = Lookup(disk, k)
          <6>1. PICK m \in 1..Len(disk) :
                  /\ disk[m].line.key = k /\ \A i \in 1..Len(disk) : i > m => disk[i].line.key # k
            BY <5>2, <1>w, LookupOne
          <6>2. Lookup(disk, k) = IF disk[m].line.gone THEN NoRecord ELSE disk[m].line
            BY <6>1, <1>w, LookupIs
          <6>3. m \in 1..Len(disk') /\ disk'[m] = disk[m] BY <2>8, <1>w
          <6>4. \A i \in 1..Len(disk') : i > m => disk'[i].line.key # k BY <5>0, <6>1
          <6>5. Lookup(disk', k) = IF disk'[m].line.gone THEN NoRecord ELSE disk'[m].line
            BY <6>1, <6>3, <6>4, <2>8, LookupIs
          <6>. QED BY <6>2, <6>3, <6>5
        <5>. QED BY <5>1, <5>2
      <4>3. PICK q \in made : /\ q.key = k /\ q.stamp >= acked[k]
                              /\ Lookup(disk, k) = IF q.gone THEN NoRecord ELSE q
        BY <4>1, <2>12 DEF StoreFileInv, Found
      <4>4. q \in made' BY <2>1
      <4>. QED BY <4>1, <4>2, <4>3, <4>4 DEF Found
    <3>. QED BY <3>1, <3>2
  <2>13. user' \in [Users -> {AtRest} \cup Putting \cup Compacting] BY <2>1, <1>u
  <2>14. ASSUME NEW v \in Users, user'[v].at = "rename" PROVE FALSE
    <3>1. v # u /\ user[v].at = "rename" BY <2>14, <2>1, <1>u DEF AtRest
    <3>2. user[u] = AtRest BY <3>1 DEF StoreFileInv
    <3>. QED BY <3>2, <2>1, StoreShapes
  <2>15. made' \subseteq Records /\ died' = 0 BY <2>1, <2>4 DEF StoreFileInv
  <2>. QED BY <2>9, <2>10, <2>11, <2>12, <2>13, <2>14, <2>15 DEF StoreFileInv
<1>4. ASSUME NEW u \in Users, Dies(u) \/ Load(u) \/ Trim(u) PROVE FALSE
  <2>1. died = 0 BY DEF StoreFileInv
  <2>. QED BY <1>4, <2>1, <1>0, <1>t, StoreShapes DEF Dies, Load, Trim
<1>5. ASSUME NEW u \in Users, Compact(u) PROVE StoreFileInv'
  <2> DEFINE now == [at |-> "rename", op |-> "compact", snapshot |-> <<LoadAll>>]
  <2>1. Becomes(u, now) /\ UNCHANGED <<disk, made, acked, died>> /\ MayBegin(u, "compact")
    BY <1>5, <1>t DEF Compact
  <2>2. now \in Compacting /\ now.snapshot[1] = LoadAll
    <3>1. LoadAll \in Seq(Records) BY LoadsAll
    <3>. QED BY <3>1 DEF Compacting
  <2>3. \A v \in Users : user[v] = AtRest BY <2>1, <1>0 DEF MayBegin
  <2>4. \A v \in Users : user[v].at # "rename" BY <2>3, StoreShapes
  <2>. HIDE DEF now
  <2>. QED BY <2>1, <2>2, <2>3, <2>4, <1>1
<1>6. ASSUME NEW u \in Users, Rename(u) PROVE StoreFileInv'
  <2> DEFINE all == LoadAll
  <2>1. /\ user[u].at = "rename" /\ UNCHANGED <<made, acked, died>>
        /\ disk' = [i \in 1..Len(user[u].snapshot[1]) |-> [line |-> user[u].snapshot[1][i], ended |-> TRUE]]
        /\ user' = [v \in Users |->
             IF v = u THEN AtRest
             ELSE IF user[v].at = "append" THEN [user[v] EXCEPT !.unlinked = TRUE]
             ELSE user[v]]
    BY <1>6 DEF Rename
  <2>2. user[u].snapshot[1] = all /\ \A v \in Users \ {u} : user[v] = AtRest
    BY <2>1 DEF StoreFileInv
  <2>3. \A v \in Users : user'[v] = AtRest /\ user'[v].at = "idle"
    BY <2>1, <2>2 DEF AtRest
  <2>4. /\ all \in Seq(Records)
        /\ \A i \in 1..Len(all) : \E k \in Keys : all[i] = Lookup(disk, k) /\ all[i] # NoRecord
        /\ \A k \in Keys : Lookup(disk, k) # NoRecord => \E i \in 1..Len(all) : all[i] = Lookup(disk, k)
        /\ \A i, j \in 1..Len(all) : all[i] = all[j] => i = j
    BY LoadsAll
  <2>. HIDE DEF all
  <2>5. disk' = [i \in 1..Len(all) |-> [line |-> all[i], ended |-> TRUE]] BY <2>1, <2>2
  <2>6. ASSUME NEW i \in 1..Len(all)
        PROVE  all[i] \in made /\ all[i] # Torn /\ \E k \in Keys : all[i] = Lookup(disk, k) /\ all[i].key = k
    <3>1. PICK k \in Keys : all[i] = Lookup(disk, k) /\ all[i] # NoRecord BY <2>4
    <3>2. all[i] \in made /\ all[i].key = k BY <3>1, LookupMade DEF StoreFileInv
    <3>3. k # 0 BY FileAssumption
    <3>. QED BY <3>1, <3>2, <3>3 DEF Torn
  <2>7. Len(all) \in Nat BY <2>4
  <2>8. /\ Len(disk') = Len(all) /\ disk' \in Seq(FileLines)
        /\ \A i \in 1..Len(all) : disk'[i].line = all[i] /\ disk'[i].ended
    <3>1. ASSUME NEW i \in 1..Len(all) PROVE [line |-> all[i], ended |-> TRUE] \in FileLines
      <4>1. all[i] \in Records BY <2>6 DEF StoreFileInv
      <4>. QED BY <4>1 DEF FileLines
    <3>. HIDE DEF FileLines
    <3>. QED BY <2>5, <2>7, <3>1
  <2>9. Whole'
    <3>1. ASSUME NEW i \in 1..Len(disk')
          PROVE  disk'[i].ended /\ disk'[i].line # Torn /\ disk'[i].line \in made'
      <4>1. i \in 1..Len(all) /\ disk'[i].line = all[i] /\ disk'[i].ended BY <2>8
      <4>. QED BY <4>1, <2>1, <2>6
    <3>. QED BY <3>1, <2>8 DEF Whole
  <2>10. ASSUME NEW k \in Keys PROVE Lookup(disk', k) = Lookup(disk, k)
    <3>1. CASE Lookup(disk, k) = NoRecord
      <4>1. ASSUME NEW i \in 1..Len(disk'), disk'[i].line.key = k PROVE FALSE
        <5>1. i \in 1..Len(all) /\ all[i].key = k BY <4>1, <2>8
        <5>2. PICK q \in Keys : all[i] = Lookup(disk, q) /\ all[i].key = q BY <5>1, <2>6
        <5>3. PICK q2 \in Keys : all[i] = Lookup(disk, q2) /\ all[i] # NoRecord BY <5>1, <2>4
        <5>. QED BY <5>1, <5>2, <5>3, <3>1
      <4>2. Lookup(disk', k) = NoRecord BY <4>1, LookupNone
      <4>. QED BY <4>2, <3>1
    <3>2. CASE Lookup(disk, k) # NoRecord
      <4>1. PICK m \in 1..Len(all) : all[m] = Lookup(disk, k) BY <3>2, <2>4
      <4>2. m \in 1..Len(disk') /\ disk'[m].line = all[m] BY <4>1, <2>8
      <4>3. all[m].key = k BY <4>1, <3>2, LookupMade DEF StoreFileInv
      <4>4. ASSUME NEW i \in 1..Len(disk'), i > m, disk'[i].line.key = k PROVE FALSE
        <5>1. i \in 1..Len(all) /\ all[i].key = k BY <4>4, <2>8
        <5>2. PICK q \in Keys : all[i] = Lookup(disk, q) /\ all[i].key = q BY <5>1, <2>6
        <5>3. all[i] = all[m] BY <5>1, <5>2, <4>1
        <5>4. i = m BY <5>1, <5>3, <2>4
        <5>. QED BY <5>4, <4>4, <2>7
      <4>5. Lookup(disk', k) = IF all[m].gone THEN NoRecord ELSE all[m]
        BY <4>2, <4>3, <4>4, <2>8, LookupIs
      <4>6. ~all[m].gone
        <5>1. PICK j \in 1..Len(disk) : disk[j].line.key = k BY <3>2, LookupNone
        <5>2. PICK n \in 1..Len(disk) :
                /\ disk[n].line.key = k /\ \A i \in 1..Len(disk) : i > n => disk[i].line.key # k
          BY <5>1, <1>w, LookupOne
        <5>3. Lookup(disk, k) = IF disk[n].line.gone THEN NoRecord ELSE disk[n].line
          BY <5>2, <1>w, LookupIs
        <5>. QED BY <5>3, <4>1, <3>2
      <4>. QED BY <4>1, <4>5, <4>6
    <3>. QED BY <3>1, <3>2
  <2>11. \A k \in Keys : acked'[k] # 0 => Found(k)'
    BY <2>1, <2>10 DEF StoreFileInv, Found
  <2>12. user' \in [Users -> {AtRest} \cup Putting \cup Compacting] BY <2>1, <2>3
  <2>. QED BY <2>1, <2>3, <2>9, <2>11, <2>12 DEF StoreFileInv
<1>7. CASE UNCHANGED fileVars
  <2>1. UNCHANGED <<disk, user, made, acked, died>> BY <1>7 DEF fileVars
  <2>2. Whole' BY <2>1 DEF StoreFileInv, Whole
  <2>3. \A k \in Keys : acked'[k] # 0 => Found(k)' BY <2>1 DEF StoreFileInv, Found, Lookup
  <2>4. LoadAll' = LoadAll BY <2>1 DEF LoadAll, Lookup
  <2>. QED BY <2>1, <2>2, <2>3, <2>4 DEF StoreFileInv
<1>. QED BY <1>0, <1>2, <1>3, <1>4, <1>5, <1>6, <1>7 DEF FileNext

\* The same of the task store, which keeps no promise once a process dies in an
\* append: without deaths, and with compactions that run alone, what was
\* acknowledged is read back, through appends, deletes and compactions.
THEOREM StoreKeeps == ASSUME Calm PROVE FileSpec => []AcknowledgedKept
<1>1. FileInit => StoreFileInv
  <2> SUFFICES ASSUME FileInit PROVE StoreFileInv OBVIOUS
  <2>1. Whole BY DEF FileInit, Whole
  <2>2. IsFiniteSet(made) /\ made \subseteq Records BY FS_EmptySet DEF FileInit
  <2>3. acked \in [Keys -> 0..MaxRecords] /\ \A k \in Keys : acked[k] = 0
    BY FileAssumption DEF FileInit
  <2>4. /\ user \in [Users -> {AtRest} \cup Putting \cup Compacting]
        /\ \A u \in Users : user[u].at = "idle"
    BY DEF FileInit, AtRest
  <2>5. died = 0 BY DEF FileInit
  <2>. QED BY <2>1, <2>2, <2>3, <2>4, <2>5 DEF StoreFileInv
<1>2. StoreFileInv => AcknowledgedKept
  <2> SUFFICES ASSUME StoreFileInv PROVE AcknowledgedKept OBVIOUS
  <2>1. Readable(disk) BY DEF StoreFileInv, Whole, Readable, Corrupt
  <2>2. \A k \in Keys : acked[k] # 0 => Found(k) BY DEF StoreFileInv
  <2>. QED BY <2>1, <2>2 DEF AcknowledgedKept, Found
<1>. QED BY <1>1, <1>2, StoreFileStep, PTL DEF FileSpec

-----------------------------------------------------------------------------
\* The task graph.

Graphs == [Tasks -> SUBSET Tasks]
Acyclic(g) == \A t \in Tasks : \A d \in g[t] : t \notin Reach(g, d)

\* What is reached from a task: the task, all its dependencies lead to, and
\* nothing a closed set leaves out.
LEMMA ReachFacts ==
  ASSUME NEW g \in Graphs, NEW t \in Tasks
  PROVE  /\ t \in Reach(g, t) /\ Reach(g, t) \subseteq Tasks
         /\ \A u \in Reach(g, t) : g[u] \subseteq Reach(g, t)
         /\ \A set \in SUBSET Tasks :
              t \in set /\ (\A u \in set : g[u] \subseteq set) => Reach(g, t) \subseteq set
<1>1. t \in Reach(g, t) /\ Reach(g, t) \subseteq Tasks BY DEF Reach
<1>2. ASSUME NEW u \in Reach(g, t), NEW d \in g[u] PROVE d \in Reach(g, t)
  <2>1. u \in Tasks /\ d \in Tasks BY <1>2 DEF Reach, Graphs
  <2>2. ASSUME NEW set \in SUBSET Tasks, t \in set, Closed(g, set) PROVE d \in set
    <3>1. u \in set BY <1>2, <2>2 DEF Reach
    <3>. QED BY <2>2, <3>1, <1>2 DEF Closed
  <2>. QED BY <2>1, <2>2 DEF Reach
<1>3. ASSUME NEW set \in SUBSET Tasks, t \in set, \A u \in set : g[u] \subseteq set
      PROVE  Reach(g, t) \subseteq set
  <2>1. Closed(g, set) BY <1>3 DEF Closed
  <2>. QED BY <2>1, <1>3 DEF Reach
<1>. QED BY <1>1, <1>2, <1>3

\* What is on the way from a task that is on the way.
LEMMA ReachBelow ==
  ASSUME NEW g \in Graphs, NEW t \in Tasks, NEW u \in Reach(g, t)
  PROVE  Reach(g, u) \subseteq Reach(g, t)
<1>1. u \in Tasks BY ReachFacts
<1>. QED BY <1>1, ReachFacts

\* Tasks that are given only dependencies that do not lead back to them.
LEMMA EdgesAdded ==
  ASSUME NEW g \in Graphs, NEW h \in Graphs, NEW W \in SUBSET Tasks, NEW ds \in SUBSET Tasks,
         Acyclic(g), \A t \in Tasks : h[t] \subseteq (IF t \in W THEN g[t] \cup ds ELSE g[t]),
         \A w \in W, d \in ds : w \notin Reach(g, d)
  PROVE  Acyclic(h)
<1> SUFFICES ASSUME NEW t \in Tasks, NEW d \in h[t] PROVE t \notin Reach(h, d)
  BY DEF Acyclic
<1>0. d \in Tasks BY DEF Graphs
<1> DEFINE R == UNION {Reach(g, e) : e \in ds}
<1>1. R \subseteq Tasks BY ReachFacts
<1>2. ds \subseteq R BY ReachFacts
<1>3. \A v \in R : g[v] \subseteq R BY ReachFacts
<1>4. \A w \in W : w \notin R OBVIOUS
<1>5. \A v \in R : \E e \in ds : v \in Reach(g, e) OBVIOUS
<1>. HIDE DEF R
<1>6. CASE d \in ds /\ t \in W
  <2>1. \A v \in R : h[v] \subseteq R BY <1>1, <1>3, <1>4
  <2>2. Reach(h, d) \subseteq R BY <2>1, <1>0, <1>1, <1>2, <1>6, ReachFacts
  <2>. QED BY <2>2, <1>4, <1>6
<1>7. CASE d \in g[t]
  <2>1. /\ t \notin Reach(g, d) /\ d \in Reach(g, d) /\ Reach(g, d) \subseteq Tasks
        /\ \A v \in Reach(g, d) : g[v] \subseteq Reach(g, d)
    BY <1>0, <1>7, ReachFacts DEF Acyclic
  <2>2. CASE Reach(g, d) \cap W = {}
    <3>1. \A v \in Reach(g, d) : h[v] \subseteq Reach(g, d) BY <2>1, <2>2
    <3>. QED BY <3>1, <2>1, <1>0, ReachFacts
  <2>3. ASSUME NEW w \in W, w \in Reach(g, d) PROVE t \notin Reach(h, d)
    <3> DEFINE C == Reach(g, d) \cup R
    <3>1. \A v \in C : h[v] \subseteq C
      <4>1. ASSUME NEW v \in C PROVE h[v] \subseteq C
        <5>1. v \in Tasks /\ g[v] \subseteq C BY <2>1, <1>1, <1>3
        <5>. QED BY <5>1, <1>2
      <4>. QED BY <4>1
    <3>2. t \notin R
      <4>1. ASSUME NEW e \in ds, t \in Reach(g, e) PROVE FALSE
        <5>1. e \in Tasks BY <4>1
        <5>2. d \in Reach(g, e) BY <4>1, <5>1, <1>7, ReachFacts
        <5>3. w \in Reach(g, e) BY <5>1, <5>2, <2>3, ReachBelow
        <5>. QED BY <5>3
      <4>. QED BY <4>1, <1>5
    <3>3. C \subseteq Tasks /\ d \in C /\ t \notin C BY <2>1, <3>2, <1>1
    <3>. HIDE DEF C
    <3>. QED BY <3>1, <3>3, <1>0, ReachFacts
  <2>. QED BY <2>2, <2>3
<1>. QED BY <1>6, <1>7

\* A cycle through a task that its new dependencies close is one through its
\* old graph too: the way back does not use the task's own edges.
LEMMA SameWayBack ==
  ASSUME NEW g \in Graphs, NEW h \in Graphs, NEW t \in Tasks, NEW d \in Tasks,
         \A u \in Tasks \ {t} : h[u] = g[u], t \notin Reach(h, d)
  PROVE  t \notin Reach(g, d)
<1>1. /\ d \in Reach(h, d) /\ Reach(h, d) \subseteq Tasks
      /\ \A u \in Reach(h, d) : h[u] \subseteq Reach(h, d)
  BY ReachFacts
<1>2. \A u \in Reach(h, d) : g[u] \subseteq Reach(h, d) BY <1>1
<1>3. Reach(g, d) \subseteq Reach(h, d) BY <1>1, <1>2, ReachFacts
<1>. QED BY <1>3

\* Steps with fresh dependencies among themselves, and a task that waits for
\* some of them besides.
LEMMA StepsPlanted ==
  ASSUME NEW g \in Graphs, NEW h \in Graphs, NEW k \in Graphs, NEW S \in SUBSET Tasks,
         NEW top \in Tasks \ S, Acyclic(g), Acyclic(k),
         \A t \in S : h[t] \subseteq k[t] \cap S,
         \A t \in Tasks \ S : h[t] \subseteq (IF t = top THEN g[t] \cup S ELSE g[t])
  PROVE  Acyclic(h)
<1> SUFFICES ASSUME NEW t \in Tasks, NEW d \in h[t] PROVE t \notin Reach(h, d)
  BY DEF Acyclic
<1>0. d \in Tasks BY DEF Graphs
<1>1. CASE t \in S
  <2>1. d \in S /\ d \in k[t] BY <1>1
  <2>2. /\ t \notin Reach(k, d) /\ d \in Reach(k, d)
        /\ \A v \in Reach(k, d) : k[v] \subseteq Reach(k, d)
    BY <1>0, <2>1, ReachFacts DEF Acyclic
  <2> DEFINE C == Reach(k, d) \cap S
  <2>3. C \subseteq Tasks /\ d \in C /\ t \notin C BY <2>1, <2>2
  <2>4. \A v \in C : h[v] \subseteq C BY <2>2
  <2>. HIDE DEF C
  <2>. QED BY <2>3, <2>4, <1>0, ReachFacts
<1>2. CASE t \notin S /\ d \in S
  <2>1. \A v \in S : h[v] \subseteq S OBVIOUS
  <2>. QED BY <2>1, <1>0, <1>2, ReachFacts
<1>3. CASE t \notin S /\ d \notin S
  <2>1. d \in g[t] BY <1>3
  <2>2. /\ t \notin Reach(g, d) /\ d \in Reach(g, d) /\ Reach(g, d) \subseteq Tasks
        /\ \A v \in Reach(g, d) : g[v] \subseteq Reach(g, d)
    BY <1>0, <2>1, ReachFacts DEF Acyclic
  <2> DEFINE C == Reach(g, d) \cup S
  <2>3. C \subseteq Tasks /\ d \in C /\ t \notin C BY <2>2, <1>3
  <2>4. \A v \in C : h[v] \subseteq C
    <3>1. ASSUME NEW v \in C PROVE h[v] \subseteq C
      <4>1. CASE v \in S BY <4>1
      <4>2. CASE v \notin S BY <4>2, <2>2
      <4>. QED BY <4>1, <4>2
    <3>. QED BY <3>1
  <2>. HIDE DEF C
  <2>. QED BY <2>3, <2>4, <1>0, ReachFacts
<1>. QED BY <1>1, <1>2, <1>3

-----------------------------------------------------------------------------
TaskRecords == [status : TaskStatuses, deps : SUBSET Tasks, attempts : 0..(MaxAttempts + 1)]
LoadedRecords == [status : TaskStatuses, deps : SUBSET Tasks, attempts : 0..MaxAttempts]
RunRecords == [at : RunPhases, of : Tasks, pre : LoadedRecords]

\* Templates whose steps are not the task at the top, and whose dependencies,
\* with the order of the steps, go round no circle.
StepsOf(tpl) == {tpl.steps[i] : i \in 1..Len(tpl.steps)}
ChainedGraph(tpl) == [t \in Tasks |-> {d \in Tasks : <<t, d>> \in Chained(tpl)}]
WellMade(tpl) ==
  /\ tpl.steps \in Seq(Tasks) /\ tpl.top \in Tasks \ StepsOf(tpl)
  /\ tpl.deps \subseteq StepsOf(tpl) \X StepsOf(tpl)
  /\ Acyclic(ChainedGraph(tpl))

\* The graph is only edited while nothing runs.
Quiet == ~EditsMeetRuns /\ \A tpl \in Templates : WellMade(tpl)

DepsSound == (\A t \in Tasks : \A d \in task[t].deps : Exists(d)) /\ Acyclic(DepsOf)

GraphTyped ==
  /\ task \in [Tasks -> TaskRecords \cup {NoTask}]
  /\ run \in [Runners -> RunRecords \cup {Resting}]
  /\ pid \in [Tasks -> Runners \cup {NoRunner}]

\* A record that a run loaded has the dependencies the task still has.
PreKept ==
  \A r \in Runners : run[r] # Resting =>
    Exists(run[r].of) /\ run[r].pre.deps = task[run[r].of].deps

GraphInv == GraphTyped /\ DepsSound /\ PreKept

\* The forms of a task's record.
LEMMA TaskShapes ==
  /\ NoTask \notin TaskRecords /\ NoTask.deps = {} /\ NoTask.status = "absent"
  /\ \A x \in TaskRecords :
       /\ x.status \in TaskStatuses /\ x.deps \subseteq Tasks /\ x.attempts \in 0..(MaxAttempts + 1)
       /\ x.status # "absent"
  /\ \A s \in TaskStatuses, ds \in SUBSET Tasks, n \in 0..(MaxAttempts + 1) :
       Task(s, ds, n) \in TaskRecords /\ Task(s, ds, n).deps = ds
  /\ \A x \in TaskRecords, s \in TaskStatuses :
       [x EXCEPT !.status = s] \in TaskRecords /\ [x EXCEPT !.status = s].deps = x.deps
  /\ \A x \in TaskRecords, ds \in SUBSET Tasks :
       [x EXCEPT !.deps = ds] \in TaskRecords /\ [x EXCEPT !.deps = ds].deps = ds
<1>1. NoTask.deps = {} /\ NoTask.status = "absent" BY DEF NoTask
<1>2. \A x \in TaskRecords :
        /\ x.status \in TaskStatuses /\ x.deps \subseteq Tasks /\ x.attempts \in 0..(MaxAttempts + 1)
        /\ x.status # "absent"
  BY DEF TaskRecords, TaskStatuses
<1>3. \A s \in TaskStatuses, ds \in SUBSET Tasks, n \in 0..(MaxAttempts + 1) :
        Task(s, ds, n) \in TaskRecords /\ Task(s, ds, n).deps = ds
  BY DEF TaskRecords, Task
<1>4. \A x \in TaskRecords, s \in TaskStatuses :
        [x EXCEPT !.status = s] \in TaskRecords /\ [x EXCEPT !.status = s].deps = x.deps
  BY DEF TaskRecords
<1>5. \A x \in TaskRecords, ds \in SUBSET Tasks :
        [x EXCEPT !.deps = ds] \in TaskRecords /\ [x EXCEPT !.deps = ds].deps = ds
  BY DEF TaskRecords
<1>. QED BY <1>1, <1>2, <1>3, <1>4, <1>5

\* The record a run has loaded, and what it makes of it in the end.
LEMMA LoadedShapes ==
  /\ LoadedRecords \subseteq TaskRecords
  /\ \A x \in LoadedRecords :
       LET y == [x EXCEPT !.status = "failed", !.attempts = @ + 1]
       IN y \in TaskRecords /\ y.deps = x.deps
<1>1. \A n \in 0..MaxAttempts : n \in 0..(MaxAttempts + 1) /\ n + 1 \in 0..(MaxAttempts + 1)
  BY GraphAssumption
<1>2. LoadedRecords \subseteq TaskRecords BY <1>1 DEF LoadedRecords, TaskRecords
<1>3. ASSUME NEW x \in LoadedRecords
      PROVE  /\ [x EXCEPT !.status = "failed", !.attempts = @ + 1] \in TaskRecords
             /\ [x EXCEPT !.status = "failed", !.attempts = @ + 1].deps = x.deps
  <2>1. x.attempts + 1 \in 0..(MaxAttempts + 1) BY <1>1 DEF LoadedRecords
  <2>. QED BY <2>1 DEF LoadedRecords, TaskRecords, TaskStatuses
<1>. QED BY <1>2, <1>3

\* The dependencies as a graph.
LEMMA DepsGraph ==
  ASSUME GraphTyped
  PROVE  /\ DepsOf \in Graphs /\ \A t \in Tasks : DepsOf[t] = task[t].deps
         /\ \A t \in Tasks : task[t] \in TaskRecords \cup {NoTask} /\ task[t].deps \subseteq Tasks
         /\ \A t \in Tasks : Exists(t) => task[t] \in TaskRecords
<1>1. \A t \in Tasks : task[t] \in TaskRecords \cup {NoTask} BY DEF GraphTyped
<1>2. \A t \in Tasks : task[t].deps \subseteq Tasks BY <1>1, TaskShapes
<1>. QED BY <1>1, <1>2 DEF DepsOf, Graphs, Exists

\* The same of the next state.
LEMMA DepsGraphNext ==
  ASSUME GraphTyped'
  PROVE  DepsOf' \in Graphs /\ \A t \in Tasks : DepsOf'[t] = task'[t].deps
<1>1. \A t \in Tasks : task'[t] \in TaskRecords \cup {NoTask} BY DEF GraphTyped
<1>2. \A t \in Tasks : task'[t].deps \subseteq Tasks BY <1>1, TaskShapes
<1>. QED BY <1>1, <1>2 DEF DepsOf, Graphs

\* Steps that leave the dependencies and the existence of tasks alone.
LEMMA SameDeps ==
  ASSUME GraphInv, GraphTyped',
         \A t \in Tasks : task'[t].deps = task[t].deps /\ (Exists(t)' <=> Exists(t))
  PROVE  DepsSound'
<1>1. DepsOf' = DepsOf BY DEF DepsOf
<1>2. Acyclic(DepsOf)' BY <1>1 DEF GraphInv, DepsSound, Acyclic, Reach, Closed
<1>3. ASSUME NEW t \in Tasks, NEW d \in task'[t].deps PROVE Exists(d)'
  <2>1. d \in Tasks /\ d \in task[t].deps BY <1>3, DepsGraph DEF GraphInv
  <2>. QED BY <2>1 DEF GraphInv, DepsSound
<1>. QED BY <1>2, <1>3 DEF DepsSound

\* Edits: every runner is at rest.
LEMMA EditKeeps ==
  ASSUME GraphInv, Quiet, Editing, UNCHANGED <<run, pid>>, task' \in [Tasks -> TaskRecords \cup {NoTask}]
  PROVE  GraphTyped' /\ PreKept'
<1>1. \A r \in Runners : run'[r] = Resting BY DEF Quiet, Editing
<1>2. GraphTyped' BY DEF GraphInv, GraphTyped
<1>. QED BY <1>1, <1>2 DEF PreKept

\* Edits that give some tasks dependencies that exist and do not lead back.
LEMMA EditAdds ==
  ASSUME GraphInv, Quiet, Editing, UNCHANGED <<run, pid>>, task' \in [Tasks -> TaskRecords \cup {NoTask}],
         NEW W \in SUBSET Tasks, NEW ds \in SUBSET Tasks,
         \A t \in Tasks : task'[t].deps \subseteq (IF t \in W THEN task[t].deps \cup ds ELSE task[t].deps),
         \A t \in Tasks : Exists(t) => Exists(t)',
         \A d \in ds : Exists(d) /\ \A w \in W : w \notin Reach(DepsOf, d)
  PROVE  GraphInv'
<1>1. GraphTyped' /\ PreKept' BY EditKeeps
<1>2. DepsOf \in Graphs /\ \A t \in Tasks : DepsOf[t] = task[t].deps BY DepsGraph DEF GraphInv
<1>3. DepsOf' \in Graphs /\ \A t \in Tasks : DepsOf'[t] = task'[t].deps BY <1>1, DepsGraphNext
<1>4. Acyclic(DepsOf')
  <2>1. \A t \in Tasks : DepsOf'[t] \subseteq (IF t \in W THEN DepsOf[t] \cup ds ELSE DepsOf[t])
    BY <1>2, <1>3
  <2>. QED BY <2>1, <1>2, <1>3, EdgesAdded DEF GraphInv, DepsSound
<1>5. ASSUME NEW t \in Tasks, NEW d \in task'[t].deps PROVE Exists(d)'
  <2>1. d \in Tasks BY <1>3 DEF Graphs
  <2>. QED BY <2>1, <1>5 DEF GraphInv, DepsSound
<1>. QED BY <1>1, <1>4, <1>5 DEF GraphInv, DepsSound, Acyclic, Reach, Closed

\* What a template adds: edges among its steps, and from the top to them.
LEMMA TemplateEdges ==
  ASSUME NEW tpl, WellMade(tpl)
  PROVE  /\ StepsOf(tpl) \subseteq Tasks /\ Chained(tpl) \subseteq Edges(tpl)
         /\ \A e \in Chained(tpl) : e[1] \in StepsOf(tpl) /\ e[2] \in StepsOf(tpl)
         /\ \A t, d \in Tasks : <<t, d>> \in Edges(tpl) =>
              d \in StepsOf(tpl) /\ (<<t, d>> \in Chained(tpl) \/ t = tpl.top)
<1>1. tpl.steps \in Seq(Tasks) /\ Len(tpl.steps) \in Nat BY DEF WellMade
<1>2. StepsOf(tpl) \subseteq Tasks BY <1>1 DEF StepsOf
<1>3. ASSUME NEW e \in Chained(tpl) PROVE e[1] \in StepsOf(tpl) /\ e[2] \in StepsOf(tpl)
  <2>1. CASE e \in tpl.deps BY <2>1 DEF WellMade
  <2>2. ASSUME NEW i \in 1..(Len(tpl.steps) - 1), e = <<tpl.steps[i + 1], tpl.steps[i]>>
        PROVE  e[1] \in StepsOf(tpl) /\ e[2] \in StepsOf(tpl)
    <3>1. i \in 1..Len(tpl.steps) /\ i + 1 \in 1..Len(tpl.steps) BY <1>1
    <3>. QED BY <3>1, <2>2 DEF StepsOf
  <2>. QED BY <1>3, <2>1, <2>2 DEF Chained
<1>4. ASSUME NEW t \in Tasks, NEW d \in Tasks, <<t, d>> \in Edges(tpl)
      PROVE  d \in StepsOf(tpl) /\ (<<t, d>> \in Chained(tpl) \/ t = tpl.top)
  <2>1. CASE <<t, d>> \in Chained(tpl) BY <2>1, <1>3
  <2>2. CASE \E i \in 1..Len(tpl.steps) : <<t, d>> = <<tpl.top, tpl.steps[i]>>
    BY <2>2 DEF StepsOf
  <2>. QED BY <1>4, <2>1, <2>2 DEF Edges
<1>5. Chained(tpl) \subseteq Edges(tpl) BY DEF Edges
<1>. QED BY <1>2, <1>3, <1>4, <1>5

\* A template adds no circle.
LEMMA ApplyKeeps ==
  ASSUME GraphInv, Quiet, NEW tpl \in Templates, Apply(tpl)
  PROVE  GraphInv'
<1> DEFINE S == StepsOf(tpl)
           fresh(t) == t \in S \/ (t = tpl.top /\ ~Exists(t))
           given(t) == IF fresh(t) THEN Task("open", {}, 0) ELSE task[t]
           more(t) == {d \in Tasks : <<t, d>> \in Edges(tpl)}
<1>1. /\ WellMade(tpl) /\ Editing /\ UNCHANGED <<run, pid>>
      /\ task' = [t \in Tasks |-> [given(t) EXCEPT !.deps = @ \cup more(t)]]
  BY DEF Quiet, Apply, StepsOf
<1>2. /\ S \subseteq Tasks /\ tpl.top \in Tasks /\ tpl.top \notin S
      /\ \A t \in Tasks : more(t) \subseteq S
      /\ \A t \in Tasks \ (S \cup {tpl.top}) : more(t) = {}
      /\ \A t \in S : \A d \in more(t) : <<t, d>> \in Chained(tpl)
  BY <1>1, TemplateEdges DEF WellMade
<1>3. DepsOf \in Graphs /\ \A t \in Tasks : DepsOf[t] = task[t].deps BY DepsGraph DEF GraphInv
<1>4. \A t \in Tasks : task[t] \in TaskRecords \cup {NoTask} BY DEF GraphInv, GraphTyped
<1>. HIDE DEF more, S
<1>5. ASSUME NEW t \in Tasks
      PROVE  /\ task'[t] \in TaskRecords \cup {NoTask}
             /\ task'[t].deps = (IF t \in S THEN {} ELSE task[t].deps) \cup more(t)
             /\ t \in S \/ t = tpl.top \/ Exists(t) => Exists(t)'
  <2>1. more(t) \in SUBSET Tasks BY <1>2
  <2>2. CASE fresh(t)
    <3>1. task'[t] = [Task("open", {}, 0) EXCEPT !.deps = @ \cup more(t)] BY <1>1, <2>2
    <3>2. Task("open", {}, 0) \in TaskRecords /\ Task("open", {}, 0).deps = {}
      BY TaskShapes, GraphAssumption DEF TaskStatuses
    <3>3. task'[t] = [Task("open", {}, 0) EXCEPT !.deps = more(t)] BY <3>1, <3>2
    <3>4. task'[t] \in TaskRecords /\ task'[t].deps = more(t) BY <3>2, <3>3, <2>1, TaskShapes
    <3>5. t \notin S => task[t].deps = {} BY <2>2, TaskShapes DEF Exists
    <3>. QED BY <3>4, <3>5, TaskShapes DEF Exists
  <2>3. CASE ~fresh(t) /\ Exists(t)
    <3>1. task'[t] = [task[t] EXCEPT !.deps = @ \cup more(t)] BY <1>1, <2>3
    <3>2. task[t] \in TaskRecords BY <1>4, <2>3 DEF Exists
    <3>3. task'[t] = [task[t] EXCEPT !.deps = task[t].deps \cup more(t)] BY <3>1, <3>2
    <3>4. task[t].deps \cup more(t) \in SUBSET Tasks BY <2>1, <3>2, TaskShapes
    <3>5. task'[t] \in TaskRecords /\ task'[t].deps = task[t].deps \cup more(t)
      BY <3>2, <3>3, <3>4, TaskShapes
    <3>. QED BY <3>5, <2>3, TaskShapes DEF Exists
  <2>4. CASE ~fresh(t) /\ ~Exists(t)
    <3>1. task'[t] = [NoTask EXCEPT !.deps = @ \cup more(t)] BY <1>1, <2>4 DEF Exists
    <3>2. more(t) = {} BY <2>4, <1>2
    <3>3. task'[t] = NoTask BY <3>1, <3>2 DEF NoTask
    <3>. QED BY <3>2, <3>3, <2>4, TaskShapes DEF Exists
  <2>. QED BY <2>2, <2>3, <2>4
<1>6. task' \in [Tasks -> TaskRecords \cup {NoTask}] BY <1>1, <1>5
<1>7. GraphTyped' /\ PreKept' BY <1>1, <1>6, EditKeeps
<1>8. DepsOf' \in Graphs /\ \A t \in Tasks : DepsOf'[t] = task'[t].deps BY <1>7, DepsGraphNext
<1>9. Acyclic(DepsOf')
  <2> DEFINE k == ChainedGraph(tpl)
  <2>1. k \in Graphs /\ Acyclic(k) /\ \A t \in Tasks : k[t] = {d \in Tasks : <<t, d>> \in Chained(tpl)}
    BY <1>1 DEF WellMade, ChainedGraph, Graphs
  <2>. HIDE DEF k
  <2>2. \A t \in S : DepsOf'[t] \subseteq k[t] \cap S
    <3>1. ASSUME NEW t \in S PROVE DepsOf'[t] \subseteq k[t] \cap S
      <4>a. t \in Tasks BY <1>2
      <4>b. DepsOf'[t] = task'[t].deps BY <4>a, <1>8
      <4>c. task'[t].deps = {} \cup more(t) BY <4>a, <1>5
      <4>1. DepsOf'[t] = more(t) BY <4>b, <4>c
      <4>2. more(t) \subseteq Tasks BY DEF more
      <4>. QED BY <4>1, <4>2, <1>2, <2>1
    <3>. QED BY <3>1
  <2>3. \A t \in Tasks \ S : DepsOf'[t] \subseteq (IF t = tpl.top THEN DepsOf[t] \cup S ELSE DepsOf[t])
    BY <1>2, <1>3, <1>5, <1>8
  <2>4. Acyclic(DepsOf) BY DEF GraphInv, DepsSound
  <2>5. DepsOf \in Graphs /\ DepsOf' \in Graphs BY <1>3, <1>8
  <2>6. S \in SUBSET Tasks /\ tpl.top \in Tasks \ S BY <1>2
  <2>7. k \in Graphs /\ Acyclic(k) BY <2>1
  <2>. QED BY <2>2, <2>3, <2>4, <2>5, <2>6, <2>7, StepsPlanted
<1>10. ASSUME NEW t \in Tasks, NEW d \in task'[t].deps PROVE Exists(d)'
  <2>1. d \in Tasks BY <1>8 DEF Graphs
  <2>2. d \in task[t].deps \/ d \in S BY <1>2, <1>5, <1>10
  <2>. QED BY <2>1, <2>2, <1>5 DEF GraphInv, DepsSound
<1>. QED BY <1>7, <1>9, <1>10 DEF GraphInv, DepsSound, Acyclic, Reach, Closed

\* A run's step: its task keeps its dependencies.
LEMMA RunKeeps ==
  ASSUME GraphInv, NEW r \in Runners, run[r] # Resting,
         task' = task \/ \E x \in TaskRecords :
           x.deps = run[r].pre.deps /\ task' = [task EXCEPT ![run[r].of] = x],
         run' = [run EXCEPT ![r] = Resting] \/ \E a \in RunPhases : run' = [run EXCEPT ![r].at = a],
         pid' \in [Tasks -> Runners \cup {NoRunner}]
  PROVE  GraphInv'
<1>1. /\ run[r] \in RunRecords /\ run[r].of \in Tasks
      /\ Exists(run[r].of) /\ run[r].pre.deps = task[run[r].of].deps
  <2>1. run[r] \in RunRecords BY DEF GraphInv, GraphTyped
  <2>. QED BY <2>1 DEF GraphInv, PreKept, RunRecords
<1>2. task \in [Tasks -> TaskRecords \cup {NoTask}] BY DEF GraphInv, GraphTyped
<1>3. /\ task' \in [Tasks -> TaskRecords \cup {NoTask}]
      /\ \A t \in Tasks : task'[t].deps = task[t].deps /\ (Exists(t)' <=> Exists(t))
  <2>1. CASE task' = task BY <2>1, <1>2 DEF Exists
  <2>2. ASSUME NEW x \in TaskRecords, x.deps = run[r].pre.deps, task' = [task EXCEPT ![run[r].of] = x]
        PROVE  /\ task' \in [Tasks -> TaskRecords \cup {NoTask}]
               /\ \A t \in Tasks : task'[t].deps = task[t].deps /\ (Exists(t)' <=> Exists(t))
    <3>1. x # NoTask BY TaskShapes
    <3>2. ASSUME NEW t \in Tasks PROVE task'[t].deps = task[t].deps /\ (Exists(t)' <=> Exists(t))
      <4>1. CASE t = run[r].of
        <5>1. task'[t] = x BY <4>1, <2>2, <1>2
        <5>. QED BY <5>1, <4>1, <2>2, <3>1, <1>1 DEF Exists
      <4>2. CASE t # run[r].of
        <5>1. task'[t] = task[t] BY <4>2, <2>2, <1>2
        <5>. QED BY <5>1 DEF Exists
      <4>. QED BY <4>1, <4>2
    <3>. QED BY <3>2, <2>2, <1>2
  <2>. QED BY <2>1, <2>2
<1>4. /\ run' \in [Runners -> RunRecords \cup {Resting}]
      /\ \A q \in Runners : run'[q] # Resting =>
           run[q] # Resting /\ run'[q].of = run[q].of /\ run'[q].pre = run[q].pre
  <2>1. run \in [Runners -> RunRecords \cup {Resting}] BY DEF GraphInv, GraphTyped
  <2>2. CASE run' = [run EXCEPT ![r] = Resting] BY <2>1, <2>2
  <2>3. ASSUME NEW a \in RunPhases, run' = [run EXCEPT ![r].at = a]
        PROVE  /\ run' \in [Runners -> RunRecords \cup {Resting}]
               /\ \A q \in Runners : run'[q] # Resting =>
                    run[q] # Resting /\ run'[q].of = run[q].of /\ run'[q].pre = run[q].pre
    <3>1. [run[r] EXCEPT !.at = a] \in RunRecords /\ [run[r] EXCEPT !.at = a].of = run[r].of
          /\ [run[r] EXCEPT !.at = a].pre = run[r].pre
      BY <1>1 DEF RunRecords
    <3>2. run' = [run EXCEPT ![r] = [run[r] EXCEPT !.at = a]] BY <2>3
    <3>. QED BY <3>1, <3>2, <2>1
  <2>. QED BY <2>2, <2>3
<1>5. GraphTyped' BY <1>3, <1>4 DEF GraphTyped
<1>6. DepsSound' BY <1>3, <1>5, SameDeps
<1>7. PreKept'
  <2>1. ASSUME NEW q \in Runners, run'[q] # Resting
        PROVE  task'[run'[q].of] # NoTask /\ run'[q].pre.deps = task'[run'[q].of].deps
    <3>1. run[q] # Resting /\ run'[q].of = run[q].of /\ run'[q].pre = run[q].pre BY <2>1, <1>4
    <3>2. run[q] \in RunRecords BY <3>1 DEF GraphInv, GraphTyped
    <3>3. run[q].of \in Tasks BY <3>2 DEF RunRecords
    <3>4. Exists(run[q].of) /\ run[q].pre.deps = task[run[q].of].deps BY <3>1 DEF GraphInv, PreKept
    <3>5. task'[run[q].of] # NoTask /\ run[q].pre.deps = task'[run[q].of].deps
      BY <3>3, <3>4, <1>3 DEF Exists
    <3>. QED BY <3>1, <3>5
  <2>. QED BY <2>1 DEF PreKept, Exists
<1>. QED BY <1>5, <1>6, <1>7 DEF GraphInv

\* A step that changes nothing keeps the invariant.
LEMMA Stutters ==
  ASSUME GraphInv, task' = task, run' = run, pid' = pid
  PROVE  GraphInv'
<1>1. GraphTyped' BY DEF GraphInv, GraphTyped
<1>2. PreKept' BY DEF GraphInv, PreKept, Exists
<1>3. \A t \in Tasks : task'[t].deps = task[t].deps /\ (Exists(t)' <=> Exists(t)) BY DEF Exists
<1>. QED BY <1>1, <1>2, <1>3, SameDeps DEF GraphInv

\* The invariant holds of an empty store.
LEMMA GraphStart == GraphInit => GraphInv
<1> SUFFICES ASSUME GraphInit PROVE GraphInv OBVIOUS
<1>1. task = [t \in Tasks |-> NoTask] /\ run = [r \in Runners |-> Resting]
      /\ pid = [t \in Tasks |-> NoRunner]
  BY DEF GraphInit
<1>2. GraphTyped BY <1>1 DEF GraphTyped
<1>3. \A t \in Tasks : task[t].deps = {} BY <1>1, TaskShapes
<1>4. DepsSound BY <1>3, <1>1, TaskShapes DEF DepsSound, Acyclic, DepsOf
<1>. QED BY <1>1, <1>2, <1>4 DEF GraphInv, PreKept

\* Every command and every step of a run keeps the invariant.
LEMMA GraphStep ==
  ASSUME Quiet, GraphInv, [GraphNext]_graphVars
  PROVE  GraphInv'
<1>0. /\ task \in [Tasks -> TaskRecords \cup {NoTask}]
      /\ \A t \in Tasks : task[t].deps \subseteq Tasks
      /\ \A t \in Tasks : Exists(t) => task[t] \in TaskRecords
      /\ DepsOf \in Graphs /\ \A t \in Tasks : DepsOf[t] = task[t].deps
  BY DepsGraph DEF GraphInv, GraphTyped
<1>1. ASSUME NEW titles \in SUBSET Tasks, NEW ds \in SUBSET Tasks, TaskAdd(titles, ds)
      PROVE  GraphInv'
  <2>1. Task("open", ds, 0) \in TaskRecords /\ Task("open", ds, 0).deps = ds
    BY TaskShapes, GraphAssumption DEF TaskStatuses
  <2>2. /\ task' = [t \in Tasks |-> IF t \in titles THEN Task("open", ds, 0) ELSE task[t]]
        /\ Editing /\ UNCHANGED <<run, pid>>
        /\ \A t \in titles, d \in ds : Exists(d) /\ t \notin Reach(DepsOf, d)
    BY <1>1 DEF TaskAdd, Accepts, WouldDepCycle
  <2>3. task' \in [Tasks -> TaskRecords \cup {NoTask}] BY <2>1, <2>2, <1>0
  <2>4. CASE titles = {}
    <3>1. task' = task BY <2>2, <2>4, <1>0
    <3>. QED BY <3>1, <2>2, Stutters
  <2>5. CASE titles # {}
    <3>1. \A t \in Tasks :
            task'[t].deps \subseteq (IF t \in titles THEN task[t].deps \cup ds ELSE task[t].deps)
      BY <2>1, <2>2
    <3>2. \A t \in Tasks : Exists(t) => Exists(t)' BY <2>1, <2>2, TaskShapes DEF Exists
    <3>3. \A d \in ds : Exists(d) /\ \A w \in titles : w \notin Reach(DepsOf, d)
      BY <2>2, <2>5
    <3>. QED BY <2>2, <2>3, <3>1, <3>2, <3>3, EditAdds
  <2>. QED BY <2>4, <2>5
<1>2. ASSUME NEW t \in Tasks, NEW ds \in SUBSET Tasks, NEW d \in SUBSET Tasks, Editing, Exists(t),
             PutTask(t, [task[t] EXCEPT !.deps = ds]), ds \subseteq task[t].deps \cup d,
             \A e \in d : Exists(e) /\ t \notin Reach(DepsOf, e)
      PROVE  GraphInv'
  <2> DEFINE W == {t}
  <2>1. [task[t] EXCEPT !.deps = ds] \in TaskRecords /\ [task[t] EXCEPT !.deps = ds].deps = ds
    BY <1>0, <1>2, TaskShapes
  <2>2. task' = [task EXCEPT ![t] = [task[t] EXCEPT !.deps = ds]] /\ UNCHANGED <<run, pid>>
    BY <1>2 DEF PutTask
  <2>3. task' \in [Tasks -> TaskRecords \cup {NoTask}] BY <2>1, <2>2, <1>0
  <2>4. \A u \in Tasks :
          task'[u].deps \subseteq (IF u \in W THEN task[u].deps \cup d ELSE task[u].deps)
    BY <2>1, <2>2, <1>0, <1>2
  <2>5. \A u \in Tasks : Exists(u) => Exists(u)' BY <2>1, <2>2, <1>0, TaskShapes DEF Exists
  <2>6. \A e \in d : Exists(e) /\ \A w \in W : w \notin Reach(DepsOf, e) BY <1>2
  <2>7. Editing /\ UNCHANGED <<run, pid>> BY <1>2, <2>2
  <2>8. W \in SUBSET Tasks /\ d \in SUBSET Tasks OBVIOUS
  <2>. HIDE DEF W
  <2>. QED BY <2>3, <2>4, <2>5, <2>6, <2>7, <2>8, EditAdds
<1>3. ASSUME NEW t \in Tasks, NEW d \in Tasks, DepAdd(t, d) PROVE GraphInv'
  <2>1. /\ Editing /\ Exists(t) /\ Exists(d) /\ t \notin Reach(DepsOf, d)
        /\ PutTask(t, [task[t] EXCEPT !.deps = @ \cup {d}])
    BY <1>3 DEF DepAdd, Accepts, WouldDepCycle
  <2>2. task[t] \in TaskRecords BY <2>1, <1>0
  <2>3. [task[t] EXCEPT !.deps = @ \cup {d}] = [task[t] EXCEPT !.deps = task[t].deps \cup {d}]
    BY <2>2 DEF TaskRecords
  <2>4. task[t].deps \cup {d} \in SUBSET Tasks BY <1>0
  <2>5. task[t].deps \cup {d} \subseteq task[t].deps \cup {d} OBVIOUS
  <2>6. {d} \in SUBSET Tasks /\ \A e \in {d} : Exists(e) /\ t \notin Reach(DepsOf, e) BY <2>1
  <2>7. PutTask(t, [task[t] EXCEPT !.deps = task[t].deps \cup {d}]) BY <2>1, <2>3
  <2>. QED BY <2>1, <2>4, <2>5, <2>6, <2>7, <1>2
<1>4. ASSUME NEW t \in Tasks, NEW d \in Tasks, DepRemove(t, d) PROVE GraphInv'
  <2>1. Editing /\ Exists(t) /\ PutTask(t, [task[t] EXCEPT !.deps = @ \ {d}])
    BY <1>4 DEF DepRemove
  <2>2. task[t] \in TaskRecords BY <2>1, <1>0
  <2>3. [task[t] EXCEPT !.deps = @ \ {d}] = [task[t] EXCEPT !.deps = task[t].deps \ {d}]
    BY <2>2 DEF TaskRecords
  <2>4. task[t].deps \ {d} \in SUBSET Tasks BY <1>0
  <2>5. task[t].deps \ {d} \subseteq task[t].deps \cup {} OBVIOUS
  <2>6. \A e \in {} : Exists(e) /\ t \notin Reach(DepsOf, e) OBVIOUS
  <2>7. {} \in SUBSET Tasks OBVIOUS
  <2>8. PutTask(t, [task[t] EXCEPT !.deps = task[t].deps \ {d}]) BY <2>1, <2>3
  <2>. QED BY <2>1, <2>4, <2>5, <2>6, <2>7, <2>8, <1>2
<1>5. ASSUME NEW t \in Tasks, NEW ds \in SUBSET Tasks, UpdateDeps(t, ds) PROVE GraphInv'
  <2>1. /\ Editing /\ Exists(t) /\ PutTask(t, [task[t] EXCEPT !.deps = ds])
        /\ \A d \in ds : Exists(d) /\ t \notin Reach(With(t, ds), d)
    BY <1>5 DEF UpdateDeps, Accepts, WouldDepCycle
  <2>2. With(t, ds) \in Graphs /\ \A u \in Tasks \ {t} : With(t, ds)[u] = DepsOf[u]
    BY <1>0 DEF With, Graphs
  <2>3. \A d \in ds : t \notin Reach(DepsOf, d) BY <2>1, <2>2, <1>0, SameWayBack
  <2>. QED BY <2>1, <2>3, <1>2
<1>6. ASSUME NEW t \in Tasks, TaskDelete(t) PROVE GraphInv'
  <2>1. /\ Editing /\ \A u \in Tasks : t \notin task[u].deps
        /\ task' = [task EXCEPT ![t] = NoTask] /\ UNCHANGED <<run, pid>>
    BY <1>6 DEF TaskDelete, Dependents, PutTask
  <2>2. task' \in [Tasks -> TaskRecords \cup {NoTask}] BY <2>1, <1>0
  <2>3. GraphTyped' /\ PreKept' BY <2>1, <2>2, EditKeeps
  <2>4. DepsOf' \in Graphs /\ \A u \in Tasks : DepsOf'[u] = task'[u].deps BY <2>3, DepsGraphNext
  <2>5. \A u \in Tasks : task'[u].deps \subseteq task[u].deps BY <2>1, <1>0, TaskShapes
  <2>6. Acyclic(DepsOf')
    <3>1. \A u \in Tasks : DepsOf'[u] \subseteq (IF u \in {} THEN DepsOf[u] \cup {} ELSE DepsOf[u])
      BY <2>4, <2>5, <1>0
    <3>2. \A w \in {}, d \in {} : w \notin Reach(DepsOf, d) OBVIOUS
    <3>3. Acyclic(DepsOf) BY DEF GraphInv, DepsSound
    <3>4. {} \in SUBSET Tasks OBVIOUS
    <3>. QED BY <3>1, <3>2, <3>3, <3>4, <2>4, <1>0, EdgesAdded
  <2>7. ASSUME NEW u \in Tasks, NEW d \in task'[u].deps PROVE Exists(d)'
    <3>1. d \in task[u].deps /\ d \in Tasks /\ d # t BY <2>1, <2>5, <2>7, <1>0
    <3>2. Exists(d) BY <3>1 DEF GraphInv, DepsSound
    <3>. QED BY <3>1, <3>2, <2>1, <1>0 DEF Exists
  <2>. QED BY <2>3, <2>6, <2>7 DEF GraphInv, DepsSound, Acyclic, Reach, Closed
<1>7. ASSUME NEW tpl \in Templates, Apply(tpl) PROVE GraphInv' BY <1>7, ApplyKeeps
\* A task's status alone changes.
<1>8. ASSUME NEW t \in Tasks, NEW x \in TaskRecords, Exists(t), x.deps = task[t].deps,
             task' = [task EXCEPT ![t] = x], UNCHANGED pid,
             run' = run \/ \E r \in Runners : run' = [run EXCEPT ![r] = Resting]
      PROVE  GraphInv'
  <2>1. /\ task' \in [Tasks -> TaskRecords \cup {NoTask}]
        /\ \A u \in Tasks : task'[u].deps = task[u].deps /\ (Exists(u)' <=> Exists(u))
    BY <1>0, <1>8, TaskShapes DEF Exists
  <2>2. /\ run' \in [Runners -> RunRecords \cup {Resting}]
        /\ \A q \in Runners : run'[q] # Resting => run'[q] = run[q]
    BY <1>8 DEF GraphInv, GraphTyped
  <2>3. GraphTyped' BY <1>8, <2>1, <2>2 DEF GraphInv, GraphTyped
  <2>4. PreKept'
    <3>1. ASSUME NEW q \in Runners, run'[q] # Resting
          PROVE  task'[run'[q].of] # NoTask /\ run'[q].pre.deps = task'[run'[q].of].deps
      <4>1. run'[q] = run[q] /\ run[q] # Resting BY <3>1, <2>2
      <4>2. run[q].of \in Tasks BY <4>1 DEF GraphInv, GraphTyped, RunRecords
      <4>3. Exists(run[q].of) /\ run[q].pre.deps = task[run[q].of].deps
        BY <4>1 DEF GraphInv, PreKept
      <4>. QED BY <4>1, <4>2, <4>3, <2>1 DEF Exists
    <3>. QED BY <3>1 DEF PreKept, Exists
  <2>. QED BY <2>1, <2>3, <2>4, SameDeps DEF GraphInv
<1>9. ASSUME NEW t \in Tasks, TaskDone(t) PROVE GraphInv'
  <2>1. /\ Exists(t) /\ UNCHANGED <<run, pid>>
        /\ task' = [task EXCEPT ![t] = [task[t] EXCEPT !.status = "done"]]
    BY <1>9 DEF TaskDone, PutTask
  <2>2. /\ [task[t] EXCEPT !.status = "done"] \in TaskRecords
        /\ [task[t] EXCEPT !.status = "done"].deps = task[t].deps
    BY <2>1, <1>0, TaskShapes DEF TaskStatuses
  <2>. QED BY <2>1, <2>2, <1>8
<1>10. ASSUME NEW t \in Tasks, NEW status \in Resets, NEW n \in {0, task[t].attempts},
              UpdateStatus(t, status, n)
       PROVE  GraphInv'
  <2>1. /\ Exists(t) /\ UNCHANGED <<run, pid>>
        /\ task' = [task EXCEPT ![t] = Task(status, task[t].deps, n)]
    BY <1>10 DEF UpdateStatus, PutTask
  <2>2. n \in 0..(MaxAttempts + 1)
    <3>1. task[t].attempts \in 0..(MaxAttempts + 1) BY <2>1, <1>0, TaskShapes
    <3>. QED BY <3>1, GraphAssumption
  <2>3. Task(status, task[t].deps, n) \in TaskRecords /\ Task(status, task[t].deps, n).deps = task[t].deps
    BY <2>2, <1>0, TaskShapes, GraphAssumption DEF TaskStatuses
  <2>. QED BY <2>1, <2>3, <1>8
<1>11. ASSUME NEW t \in Tasks, Abort(t) PROVE GraphInv'
  <2>1. /\ task[t].status = "inProgress" /\ UNCHANGED pid
        /\ task' = [task EXCEPT ![t].status = "open"]
        /\ run' = run \/ (run' = [run EXCEPT ![pid[t]] = Resting] /\ pid[t] # NoRunner)
    BY <1>11 DEF Abort
  <2>2. Exists(t) BY <2>1, TaskShapes DEF Exists
  <2>3. /\ [task[t] EXCEPT !.status = "open"] \in TaskRecords
        /\ [task[t] EXCEPT !.status = "open"].deps = task[t].deps
    BY <2>2, <1>0, TaskShapes DEF TaskStatuses
  <2>4. task' = [task EXCEPT ![t] = [task[t] EXCEPT !.status = "open"]] BY <2>1
  <2>5. pid[t] \in Runners \cup {NoRunner} BY DEF GraphInv, GraphTyped
  <2>. QED BY <2>1, <2>2, <2>3, <2>4, <2>5, <1>8
<1>12. ASSUME NEW r \in Runners, NEW t \in Tasks, RunLoad(r, t) PROVE GraphInv'
  <2>1. /\ Exists(t) /\ task[t].attempts <= MaxAttempts /\ UNCHANGED <<task, pid>>
        /\ run' = [run EXCEPT ![r] = [at |-> "loaded", of |-> t, pre |-> task[t]]]
    BY <1>12 DEF RunLoad
  <2>2. task[t] \in LoadedRecords
    <3>1. task[t] \in TaskRecords BY <2>1, <1>0
    <3>2. task[t].attempts \in 0..MaxAttempts
      <4>1. task[t].attempts \in 0..(MaxAttempts + 1) BY <3>1, TaskShapes
      <4>. QED BY <4>1, <2>1, GraphAssumption
    <3>. QED BY <3>1, <3>2 DEF TaskRecords, LoadedRecords
  <2> DEFINE rec == [at |-> "loaded", of |-> t, pre |-> task[t]]
  <2>3. rec \in RunRecords /\ rec.of = t /\ rec.pre = task[t] BY <2>2 DEF RunRecords, RunPhases
  <2>4. run' = [run EXCEPT ![r] = rec] BY <2>1
  <2>. HIDE DEF rec
  <2>5. /\ run' \in [Runners -> RunRecords \cup {Resting}]
        /\ \A q \in Runners : run'[q] # Resting => run'[q] = rec \/ (run'[q] = run[q] /\ run[q] # Resting)
    BY <2>3, <2>4 DEF GraphInv, GraphTyped
  <2>6. GraphTyped' BY <2>1, <2>5 DEF GraphInv, GraphTyped
  <2>7. PreKept'
    <3>1. ASSUME NEW q \in Runners, run'[q] # Resting
          PROVE  task'[run'[q].of] # NoTask /\ run'[q].pre.deps = task'[run'[q].of].deps
      <4>1. CASE run'[q] = rec BY <4>1, <2>1, <2>3 DEF Exists
      <4>2. CASE run'[q] = run[q] /\ run[q] # Resting
        BY <4>2, <2>1 DEF GraphInv, PreKept, Exists
      <4>. QED BY <4>1, <4>2, <3>1, <2>5
    <3>. QED BY <3>1 DEF PreKept, Exists
  <2>8. \A u \in Tasks : task'[u].deps = task[u].deps /\ (Exists(u)' <=> Exists(u))
    BY <2>1 DEF Exists
  <2>. QED BY <2>6, <2>7, <2>8, SameDeps DEF GraphInv
\* A run's steps.
<1>13. ASSUME NEW r \in Runners, run[r] # Resting
       PROVE  /\ run[r] \in RunRecords /\ run[r].of \in Tasks
              /\ run[r].pre \in LoadedRecords /\ run[r].pre \in TaskRecords
  <2>1. run[r] \in RunRecords BY <1>13 DEF GraphInv, GraphTyped
  <2>. QED BY <2>1, LoadedShapes DEF RunRecords
<1>14. ASSUME NEW r \in Runners, RunMark(r) PROVE GraphInv'
  <2>1. run[r] # Resting BY <1>14 DEF RunMark, RunAt, Resting
  <2>2. Marked(r) \in TaskRecords /\ Marked(r).deps = run[r].pre.deps
    BY <2>1, <1>13, TaskShapes DEF Marked, TaskStatuses
  <2>3. /\ \/ task' = [task EXCEPT ![run[r].of] = Marked(r)] /\ run' = [run EXCEPT ![r].at = "marked"]
           \/ task' = task /\ run' = [run EXCEPT ![r] = Resting]
        /\ UNCHANGED pid
    BY <1>14 DEF RunMark, RunGoes
  <2>4. "marked" \in RunPhases /\ pid' \in [Tasks -> Runners \cup {NoRunner}]
    BY <2>3 DEF RunPhases, GraphInv, GraphTyped
  <2>. QED BY <2>1, <2>2, <2>3, <2>4, RunKeeps
<1>15. ASSUME NEW r \in Runners, run[r] # Resting, RollBack(r), UNCHANGED pid PROVE GraphInv'
  <2>1. /\ task' = [task EXCEPT ![run[r].of] = run[r].pre]
        /\ run' = [run EXCEPT ![r] = Resting]
    BY <1>15 DEF RollBack
  <2>2. pid' \in [Tasks -> Runners \cup {NoRunner}] BY <1>15 DEF GraphInv, GraphTyped
  <2>3. run[r].pre \in TaskRecords BY <1>13, <1>15
  <2>. QED BY <2>1, <2>2, <2>3, <1>15, RunKeeps
<1>16. ASSUME NEW r \in Runners, RunCheck(r) PROVE GraphInv'
  <2>1. run[r] # Resting BY <1>16 DEF RunCheck, RunAt, Resting
  <2>2. CASE RollBack(r) /\ UNCHANGED pid BY <2>1, <2>2, <1>15
  <2>3. CASE task' = task /\ run' = [run EXCEPT ![r].at = "starting"] /\ UNCHANGED pid
    <3>1. "starting" \in RunPhases /\ pid' \in [Tasks -> Runners \cup {NoRunner}]
      BY <2>3 DEF RunPhases, GraphInv, GraphTyped
    <3>. QED BY <2>1, <2>3, <3>1, RunKeeps
  <2>. QED BY <1>16, <2>2, <2>3 DEF RunCheck, RunGoes
<1>17. ASSUME NEW r \in Runners, RunStart(r) PROVE GraphInv'
  <2>1. run[r] # Resting BY <1>17 DEF RunStart, RunAt, Resting
  <2>2. /\ task' = task /\ run' = [run EXCEPT ![r].at = "live"]
        /\ pid' = [pid EXCEPT ![run[r].of] = r]
    BY <1>17 DEF RunStart, RunGoes
  <2>3. "live" \in RunPhases /\ pid' \in [Tasks -> Runners \cup {NoRunner}]
    BY <2>2 DEF RunPhases, GraphInv, GraphTyped
  <2>. QED BY <2>1, <2>2, <2>3, RunKeeps
<1>18. ASSUME NEW r \in Runners, RunFails(r) PROVE GraphInv'
  <2>1. run[r] # Resting BY <1>18 DEF RunFails, RunAt, Resting
  <2>. QED BY <2>1, <1>15, <1>18 DEF RunFails
<1>19. ASSUME NEW r \in Runners, NEW outcome \in {"succeeded", "broken"}, RunReturns(r, outcome)
       PROVE  GraphInv'
  <2>1. run[r] # Resting BY <1>19 DEF RunReturns, RunAt, Resting
  <2>2. /\ task' = task /\ run' = [run EXCEPT ![r].at = outcome]
        /\ pid' = [pid EXCEPT ![run[r].of] = NoRunner]
    BY <1>19 DEF RunReturns, RunGoes
  <2>3. outcome \in RunPhases /\ pid' \in [Tasks -> Runners \cup {NoRunner}]
    BY <2>2 DEF RunPhases, GraphInv, GraphTyped
  <2>. QED BY <2>1, <2>2, <2>3, RunKeeps
<1>20. ASSUME NEW r \in Runners, RunPersist(r) PROVE GraphInv'
  <2> DEFINE x == IF RunAt(r, "succeeded") THEN [run[r].pre EXCEPT !.status = "done"]
                  ELSE [run[r].pre EXCEPT !.status = "failed", !.attempts = @ + 1]
  <2>1. run[r] # Resting BY <1>20 DEF RunPersist, Resting
  <2>2. /\ task' = [task EXCEPT ![run[r].of] = x]
        /\ run' = [run EXCEPT ![r] = Resting] /\ UNCHANGED pid
    BY <1>20 DEF RunPersist
  <2>3. x \in TaskRecords /\ x.deps = run[r].pre.deps
    BY <2>1, <1>13, TaskShapes, LoadedShapes DEF TaskStatuses
  <2>4. pid' \in [Tasks -> Runners \cup {NoRunner}] BY <2>2 DEF GraphInv, GraphTyped
  <2>. HIDE DEF x
  <2>. QED BY <2>1, <2>2, <2>3, <2>4, RunKeeps
<1>21. ASSUME NEW r \in Runners, RunDies(r) PROVE GraphInv'
  <2>1. run[r] # Resting /\ task' = task /\ run' = [run EXCEPT ![r] = Resting] /\ UNCHANGED pid
    BY <1>21 DEF RunDies
  <2>2. pid' \in [Tasks -> Runners \cup {NoRunner}] BY <2>1 DEF GraphInv, GraphTyped
  <2>. QED BY <2>1, <2>2, RunKeeps
<1>22. CASE UNCHANGED graphVars
  <2>1. task' = task /\ run' = run /\ pid' = pid BY <1>22 DEF graphVars
  <2>. QED BY <2>1, Stutters
<1>. QED BY <1>1, <1>3, <1>4, <1>5, <1>6, <1>7, <1>9, <1>10, <1>11, <1>12, <1>14, <1>16, <1>17,
            <1>18, <1>19, <1>20, <1>21, <1>22 DEF GraphNext

\* Types: tasks, runs and the runners that run.pid names, while no edit of the
\* graph meets a run and templates are well made.
THEOREM GraphTypes == ASSUME Quiet PROVE GraphSpec => []GraphTypeOK
<1>1. GraphInit => GraphInv BY GraphStart
<1>2. GraphInv /\ [GraphNext]_graphVars => GraphInv' BY GraphStep
<1>3. GraphInv => GraphTypeOK
  <2> SUFFICES ASSUME GraphInv PROVE GraphTypeOK OBVIOUS
  <2>1. \A t \in Tasks : task[t] = NoTask \/ task[t] \in TaskRecords BY DEF GraphInv, GraphTyped
  <2>2. ASSUME NEW r \in Runners PROVE run[r].at \in RunPhases
    <3>1. run[r] \in RunRecords \/ run[r] = Resting BY DEF GraphInv, GraphTyped
    <3>. QED BY <3>1 DEF RunRecords, Resting, RunPhases
  <2>3. pid \in [Tasks -> Runners \cup {NoRunner}] BY DEF GraphInv, GraphTyped
  <2>. QED BY <2>1, <2>2, <2>3 DEF GraphTypeOK, TaskRecords
<1>. QED BY <1>1, <1>2, <1>3, PTL DEF GraphSpec

\* Where nothing waits for itself, a task that waits for one that is not done
\* leads to one that waits for none such.
LEMMA SomeoneMoves ==
  ASSUME GraphTyped, DepsSound, NEW t \in Tasks, Column(t) = "blocked"
  PROVE  \E u \in Reach(DepsOf, t) :
           Column(u) \in {"ready", "inProgress", "failed"} /\ Unmet(u) = {}
<1>1. /\ DepsOf \in Graphs /\ \A u \in Tasks : DepsOf[u] = task[u].deps
      /\ \A u \in Tasks : task[u] \in TaskRecords \cup {NoTask} /\ task[u].deps \subseteq Tasks
  BY DepsGraph
<1> DEFINE E == {u \in Tasks : Exists(u)}
           open == {u \in Reach(DepsOf, t) : task[u].status # "done"}
           size(u) == Cardinality(Reach(DepsOf, u))
<1>2. task[t].status = "open" BY <1>1, TaskShapes DEF Column, TaskStatuses
<1>3. Exists(t) BY <1>2, TaskShapes DEF Exists
<1>4. Reach(DepsOf, t) \subseteq E
  <2>1. \A u \in E : DepsOf[u] \subseteq E BY <1>1 DEF DepsSound
  <2>2. t \in E /\ E \in SUBSET Tasks BY <1>3
  <2>. HIDE DEF E
  <2>. QED BY <2>1, <2>2, <1>1, ReachFacts
<1>5. open \subseteq Tasks /\ t \in open /\ \A u \in open : u \in Reach(DepsOf, t)
  BY <1>1, <1>2, ReachFacts
<1>6. \A u \in Tasks : IsFiniteSet(Reach(DepsOf, u)) /\ size(u) \in Nat
  <2>1. \A u \in Tasks : Reach(DepsOf, u) \subseteq Tasks BY <1>1, ReachFacts
  <2>2. IsFiniteSet(Tasks) BY GraphAssumption
  <2>. QED BY <2>1, <2>2, FS_Subset, FS_CardinalityType
<1>7. PICK u \in open : \A v \in open : size(u) <= size(v)
  <2> DEFINE T == {size(v) : v \in open}
  <2>1. T \in SUBSET Nat /\ T # {} BY <1>5, <1>6
  <2>. HIDE DEF size
  <2>2. PICK n \in T : \A m \in T : n <= m
    <3>. HIDE DEF T
    <3>. QED BY <2>1, Least
  <2>. QED BY <2>2
<1>8. ASSUME NEW d \in task[u].deps, task[d].status # "done" PROVE FALSE
  <2>1. u \in Tasks /\ d \in Tasks /\ d \in DepsOf[u] BY <1>1, <1>5, <1>7
  <2>2. d \in Reach(DepsOf, u) BY <2>1, <1>1, ReachFacts
  <2>3. d \in Reach(DepsOf, t) BY <2>1, <1>1, <1>5, <1>7, ReachFacts
  <2>4. d \in open BY <2>3, <1>8
  <2>5. Reach(DepsOf, d) \subseteq Reach(DepsOf, u) BY <2>1, <2>2, <1>1, ReachBelow
  <2>6. u \notin Reach(DepsOf, d) BY <2>1 DEF DepsSound, Acyclic
  <2>7. u \in Reach(DepsOf, u) BY <2>1, <1>1, ReachFacts
  <2>8. size(d) < size(u)
    <3>1. Reach(DepsOf, d) # Reach(DepsOf, u) BY <2>6, <2>7
    <3>. QED BY <3>1, <2>1, <2>5, <1>6, FS_Subset
  <2>9. size(u) <= size(d) BY <2>4, <1>7
  <2>10. size(u) \in Nat /\ size(d) \in Nat BY <2>1, <1>6
  <2>. HIDE DEF size
  <2>. QED BY <2>8, <2>9, <2>10
<1>9. Unmet(u) = {} BY <1>8 DEF Unmet
<1>10. Column(u) \in {"ready", "inProgress", "failed"}
  <2>1. u \in Tasks /\ Exists(u) /\ task[u].status # "done" BY <1>4, <1>5, <1>7
  <2>2. task[u] \in TaskRecords BY <2>1, <1>1 DEF Exists
  <2>3. task[u].status \in {"open", "inProgress", "failed"}
    BY <2>1, <2>2, TaskShapes DEF TaskStatuses
  <2>4. IsReady(u) BY <1>8, <2>1 DEF IsReady
  <2>. QED BY <2>3, <2>4 DEF Column
<1>. QED BY <1>5, <1>7, <1>9, <1>10

\* Every dependency exists, no task waits for itself along any path, and a
\* blocked task leads to one somebody can work on, through every command,
\* template and run, for any number of tasks, runners and templates.
THEOREM BoardMoves == ASSUME Quiet PROVE GraphSpec => []GraphSound
<1>1. GraphInit => GraphInv BY GraphStart
<1>2. GraphInv /\ [GraphNext]_graphVars => GraphInv' BY GraphStep
<1>3. GraphInv => GraphSound
  <2> SUFFICES ASSUME GraphInv PROVE GraphSound OBVIOUS
  <2>1. \A t \in Tasks : \A d \in task[t].deps : Exists(d) /\ t \notin Reach(DepsOf, d)
    BY DepsGraph DEF GraphInv, DepsSound, Acyclic
  <2>. QED BY <2>1, SomeoneMoves DEF GraphInv, GraphSound
<1>. QED BY <1>1, <1>2, <1>3, PTL DEF GraphSpec

-----------------------------------------------------------------------------
\* Opening the store.

\* What a process has reached of the file, and nobody takes away.
Places == {"closed", "open", "failed", "add", "safe_pragmas", "read_mode", "set_wal", "pragmas",
           "schema", "migrate"}
Early == {"safe_pragmas", "read_mode", "set_wal", "pragmas", "schema"}
Doors == [at : Places, column : 1..6, attempt : 0..InitLockRetries]
OpenInv ==
  /\ wal \in BOOLEAN /\ tables \subseteq {"base", "snapshots"} /\ columns \subseteq Columns
  /\ opener \in [Openers -> Doors]
  /\ \A p \in Openers :
       /\ opener[p].at \in {"pragmas", "schema", "migrate", "add", "open"} => wal
       /\ opener[p].at \in {"migrate", "add", "open"} => tables = {"base", "snapshots"}
       /\ opener[p].at \in {"migrate", "add"} =>
            \A i \in 1..(opener[p].column - 1) : Migrations[i] \in columns
       /\ opener[p].at = "open" => columns = Columns
       /\ opener[p].at \in Early => opener[p].column = 1

\* The columns that an open adds.
LEMMA SixColumns ==
  /\ Len(Migrations) = 6 /\ \A i \in 1..6 : Migrations[i] \in Columns
  /\ \A c \in Columns : \E i \in 1..6 : c = Migrations[i]
  /\ SnapshotColumns \subseteq Columns
<1>1. Len(Migrations) = 6 BY DEF Migrations
<1>2. Migrations[6] = "snapshot_tool_calls" BY DEF Migrations
<1>3. \A i \in 1..6 : Migrations[i] \in Columns BY <1>1 DEF Columns
<1>4. \A c \in Columns : \E i \in 1..6 : c = Migrations[i] BY <1>1 DEF Columns
<1>5. SnapshotColumns \subseteq Columns
  <2>1. 6 \in 1..6 OBVIOUS
  <2>. QED BY <1>2, <1>3, <2>1 DEF SnapshotColumns
<1>. QED BY <1>1, <1>3, <1>4, <1>5

\* A step of one process that keeps what the file has, and whose own promises
\* the file keeps.
LEMMA OpenerMoves ==
  ASSUME OpenInv, NEW p \in Openers, NEW d \in Doors, opener' = [opener EXCEPT ![p] = d],
         wal' \in BOOLEAN, wal => wal', tables \subseteq tables', tables' \subseteq {"base", "snapshots"},
         columns \subseteq columns', columns' \subseteq Columns,
         d.at \in {"pragmas", "schema", "migrate", "add", "open"} => wal',
         d.at \in {"migrate", "add", "open"} => tables' = {"base", "snapshots"},
         d.at \in {"migrate", "add"} => \A i \in 1..(d.column - 1) : Migrations[i] \in columns',
         d.at = "open" => columns' = Columns, d.at \in Early => d.column = 1
  PROVE  OpenInv'
<1>1. opener' \in [Openers -> Doors] BY DEF OpenInv
<1>2. ASSUME NEW q \in Openers
      PROVE  /\ opener'[q].at \in {"pragmas", "schema", "migrate", "add", "open"} => wal'
             /\ opener'[q].at \in {"migrate", "add", "open"} => tables' = {"base", "snapshots"}
             /\ opener'[q].at \in {"migrate", "add"} =>
                  \A i \in 1..(opener'[q].column - 1) : Migrations[i] \in columns'
             /\ opener'[q].at = "open" => columns' = Columns
             /\ opener'[q].at \in Early => opener'[q].column = 1
  <2>1. CASE q = p
    <3>1. opener'[q] = d BY <2>1 DEF OpenInv
    <3>. QED BY <3>1
  <2>2. CASE q # p
    <3>1. opener'[q] = opener[q] BY <2>2 DEF OpenInv
    <3>2. /\ opener[q].at \in {"pragmas", "schema", "migrate", "add", "open"} => wal'
          /\ opener[q].at \in {"migrate", "add", "open"} => tables' = {"base", "snapshots"}
          /\ opener[q].at = "open" => columns' = Columns
          /\ opener[q].at \in Early => opener[q].column = 1
      BY DEF OpenInv
    <3>3. opener[q].at \in {"migrate", "add"} =>
            \A i \in 1..(opener[q].column - 1) : Migrations[i] \in columns'
      BY DEF OpenInv
    <3>. QED BY <3>1, <3>2, <3>3
  <2>. QED BY <2>1, <2>2
<1>. QED BY <1>1, <1>2 DEF OpenInv

\* Where a process goes.
LEMMA DoorShapes ==
  ASSUME OpenInv, NEW p \in Openers
  PROVE  /\ opener[p] \in Doors /\ ClosedStore \in Doors /\ OpenedStore \in Doors
         /\ [ClosedStore EXCEPT !.at = "safe_pragmas"] \in Doors
         /\ \A at \in Places : /\ [opener[p] EXCEPT !.at = at, !.attempt = 0] \in Doors
                               /\ [opener[p] EXCEPT !.at = at, !.attempt = 0].at = at
                               /\ [opener[p] EXCEPT !.at = at, !.attempt = 0].column = opener[p].column
<1>1. opener[p] \in Doors BY DEF OpenInv
<1>2. 0 \in 0..InitLockRetries BY RetryAssumption
<1>3. ClosedStore \in Doors /\ OpenedStore \in Doors
  BY <1>2 DEF ClosedStore, OpenedStore, Doors, Places
<1>4. [ClosedStore EXCEPT !.at = "safe_pragmas"] \in Doors BY <1>3 DEF Doors, Places
<1>5. \A at \in Places : /\ [opener[p] EXCEPT !.at = at, !.attempt = 0] \in Doors
                         /\ [opener[p] EXCEPT !.at = at, !.attempt = 0].at = at
                         /\ [opener[p] EXCEPT !.at = at, !.attempt = 0].column = opener[p].column
  BY <1>1, <1>2 DEF Doors
<1>. QED BY <1>1, <1>3, <1>4, <1>5

\* An opener goes to its next step.
LEMMA GoesOn ==
  ASSUME OpenInv, NEW p \in Openers, NEW at \in Places, GoesTo(p, at),
         wal' \in BOOLEAN, wal => wal', tables \subseteq tables', tables' \subseteq {"base", "snapshots"},
         columns \subseteq columns', columns' \subseteq Columns,
         at \in {"pragmas", "schema", "migrate", "add", "open"} => wal',
         at \in {"migrate", "add", "open"} => tables' = {"base", "snapshots"},
         at \in {"migrate", "add"} =>
           \A i \in 1..(opener[p].column - 1) : Migrations[i] \in columns',
         at = "open" => columns' = Columns, at \in Early => opener[p].column = 1
  PROVE  OpenInv'
<1> DEFINE d == [opener[p] EXCEPT !.at = at, !.attempt = 0]
<1>1. d \in Doors /\ d.at = at /\ d.column = opener[p].column BY DoorShapes
<1>2. opener' = [opener EXCEPT ![p] = d] BY DEF GoesTo
<1>. HIDE DEF d
<1>. QED BY <1>1, <1>2, OpenerMoves

\* The column a process has seen or added is there; the next one, or the end.
LEMMA GoesOnward ==
  ASSUME OpenInv, NEW p \in Openers, Onward(p), opener[p].at \in {"migrate", "add"},
         UNCHANGED <<wal, tables>>, columns \subseteq columns', columns' \subseteq Columns,
         NextColumn(p) \in columns'
  PROVE  OpenInv'
<1>1. opener[p] \in Doors BY DEF OpenInv
<1>2. opener[p].column \in 1..6 BY <1>1 DEF Doors
<1>3. \A i \in 1..opener[p].column : Migrations[i] \in columns'
  <2>1. \A i \in 1..(opener[p].column - 1) : Migrations[i] \in columns' BY DEF OpenInv
  <2>2. Migrations[opener[p].column] \in columns' BY DEF NextColumn
  <2>. QED BY <2>1, <2>2, <1>2
<1>4. wal' /\ tables' = {"base", "snapshots"} /\ wal' \in BOOLEAN /\ (wal => wal')
  BY DEF OpenInv
<1>5. tables \subseteq tables' OBVIOUS
<1>6. CASE opener[p].column = 6
  <2>1. opener' = [opener EXCEPT ![p] = OpenedStore] BY <1>6, SixColumns DEF Onward
  <2>2. columns' = Columns BY <1>3, <1>6, SixColumns
  <2>3. OpenedStore \in Doors BY DoorShapes
  <2>4. OpenedStore.at = "open" /\ OpenedStore.at \notin Early BY DEF OpenedStore, Early
  <2>. QED BY <2>1, <2>2, <2>3, <2>4, <1>4, <1>5, OpenerMoves
<1>7. CASE opener[p].column # 6
  <2> DEFINE d == [at |-> "migrate", column |-> opener[p].column + 1, attempt |-> 0]
  <2>1. opener' = [opener EXCEPT ![p] = d] BY <1>7, SixColumns DEF Onward
  <2>2. opener[p].column + 1 \in 1..6 /\ (opener[p].column + 1) - 1 = opener[p].column
    BY <1>2, <1>7
  <2>3. d \in Doors BY <2>2, RetryAssumption DEF Doors, Places
  <2>4. d.at = "migrate" /\ d.column = opener[p].column + 1 /\ d.at \notin Early BY DEF Early
  <2>. HIDE DEF d
  <2>5. \A i \in 1..(d.column - 1) : Migrations[i] \in columns' BY <2>2, <2>4, <1>3
  <2>. QED BY <2>1, <2>3, <2>4, <2>5, <1>4, <1>5, OpenerMoves
<1>. QED BY <1>6, <1>7

\* Every statement of every opener keeps the invariant.
LEMMA OpenStays == OpenInv /\ [OpenNext]_openVars => OpenInv'
<1> SUFFICES ASSUME OpenInv, [OpenNext]_openVars PROVE OpenInv' OBVIOUS
<1>1. /\ wal \in BOOLEAN /\ tables \subseteq {"base", "snapshots"} /\ columns \subseteq Columns
      /\ \A p \in Openers :
           /\ opener[p] \in Doors
           /\ opener[p].at \in {"pragmas", "schema", "migrate", "add", "open"} => wal
           /\ opener[p].at \in {"migrate", "add", "open"} => tables = {"base", "snapshots"}
           /\ opener[p].at \in {"migrate", "add"} =>
                \A i \in 1..(opener[p].column - 1) : Migrations[i] \in columns
           /\ opener[p].at \in Early => opener[p].column = 1
  BY DEF OpenInv
\* A statement that changes nothing leaves a process where what it needs is.
<1>2. ASSUME NEW p \in Openers, NEW at \in Places, GoesTo(p, at), UNCHANGED <<wal, tables, columns>>,
             at \in {"pragmas", "schema"} => wal, at \notin {"migrate", "open"},
             at = "add" => opener[p].at = "migrate",
             at \in Early => opener[p].at \in Early
      PROVE  OpenInv'
  <2>1. at \in {"pragmas", "schema", "migrate", "add", "open"} => wal' BY <1>1, <1>2
  <2>2. at \in {"migrate", "add", "open"} => tables' = {"base", "snapshots"} BY <1>1, <1>2
  <2>3. at \in {"migrate", "add"} => \A i \in 1..(opener[p].column - 1) : Migrations[i] \in columns'
    BY <1>1, <1>2
  <2>4. at = "open" => columns' = Columns BY <1>2
  <2>5. at \in Early => opener[p].column = 1 BY <1>1, <1>2
  <2>. QED BY <1>1, <1>2, <2>1, <2>2, <2>3, <2>4, <2>5, GoesOn
<1>3. ASSUME NEW p \in Openers, BeginOpen(p) \/ Close(p) PROVE OpenInv'
  <2>1. PICK d \in {[ClosedStore EXCEPT !.at = "safe_pragmas"], ClosedStore} :
          opener' = [opener EXCEPT ![p] = d] /\ UNCHANGED <<wal, tables, columns>>
    BY <1>3 DEF BeginOpen, Close
  <2>2. d \in Doors BY <2>1, DoorShapes
  <2>3. d.at \in {"closed", "safe_pragmas"} /\ d.column = 1 BY <2>1 DEF ClosedStore
  <2>. QED BY <1>1, <2>1, <2>2, <2>3, OpenerMoves
<1>4. ASSUME NEW p \in Openers, ApplySafePragmas(p) PROVE OpenInv'
  BY <1>2, <1>4 DEF ApplySafePragmas, IsAt, Places, Early
<1>5. ASSUME NEW p \in Openers, ReadMode(p) PROVE OpenInv'
  <2>1. CASE wal BY <2>1, <1>2, <1>5 DEF ReadMode, IsAt, Places, Early
  <2>2. CASE ~wal BY <2>2, <1>2, <1>5 DEF ReadMode, IsAt, Places, Early
  <2>. QED BY <2>1, <2>2
<1>6. ASSUME NEW p \in Openers, SetWal(p) PROVE OpenInv'
  <2>1. GoesTo(p, "pragmas") /\ wal' = TRUE /\ UNCHANGED <<tables, columns>> BY <1>6 DEF SetWal
  <2>2. "pragmas" \in Places BY DEF Places
  <2>3. opener[p].column = 1 BY <1>1, <1>6 DEF SetWal, IsAt, Early
  <2>. QED BY <2>1, <2>2, <2>3, <1>1, GoesOn
<1>7. ASSUME NEW p \in Openers, ApplyPragmas(p) PROVE OpenInv'
  <2>1. wal BY <1>1, <1>7 DEF ApplyPragmas, IsAt
  <2>. QED BY <2>1, <1>2, <1>7 DEF ApplyPragmas, IsAt, Places, Early
<1>8. ASSUME NEW p \in Openers, ApplySchema(p) PROVE OpenInv'
  <2>1. columns \subseteq columns' /\ columns' \subseteq Columns /\ wal' = wal /\ wal
    BY <1>1, <1>8, SixColumns DEF ApplySchema, CreateTable, IsAt
  <2>2. opener[p].column = 1 /\ opener[p].at = "schema"
    BY <1>1, <1>8 DEF ApplySchema, IsAt, Early
  <2>3. CASE "base" \notin tables
    <3>1. opener' = opener /\ tables' = tables \cup {"base"}
      BY <1>8, <2>3 DEF ApplySchema, CreateTable
    <3>2. opener[p] \in Doors /\ opener \in [Openers -> Doors] BY DEF OpenInv
    <3>3. opener' = [opener EXCEPT ![p] = opener[p]] BY <3>1, <3>2
    <3>. QED BY <1>1, <2>1, <2>2, <3>1, <3>2, <3>3, OpenerMoves
  <2>4. CASE "base" \in tables
    <3>1. GoesTo(p, "migrate") /\ tables' = {"base", "snapshots"}
      BY <1>1, <1>8, <2>4 DEF ApplySchema, CreateTable
    <3>2. "migrate" \in Places /\ "migrate" \notin Early BY DEF Places, Early
    <3>3. \A i \in 1..(opener[p].column - 1) : Migrations[i] \in columns' BY <2>2
    <3>. QED BY <2>1, <3>1, <3>2, <3>3, <1>1, GoesOn
  <2>. QED BY <2>3, <2>4
<1>9. ASSUME NEW p \in Openers, ReadColumns(p) PROVE OpenInv'
  <2>1. opener[p].at = "migrate" /\ UNCHANGED <<wal, tables, columns>>
    BY <1>9 DEF ReadColumns, IsAt
  <2>2. CASE NextColumn(p) \in columns
    BY <2>1, <2>2, <1>1, <1>9, GoesOnward DEF ReadColumns
  <2>3. CASE NextColumn(p) \notin columns
    BY <2>1, <2>3, <1>2, <1>9 DEF ReadColumns, Places, Early
  <2>. QED BY <2>2, <2>3
<1>10. ASSUME NEW p \in Openers, AddColumn(p) PROVE OpenInv'
  <2>1. /\ opener[p].at = "add" /\ Onward(p) /\ UNCHANGED <<wal, tables>>
        /\ columns' = columns \cup {NextColumn(p)}
    BY <1>10 DEF AddColumn, IsAt
  <2>2. NextColumn(p) \in Columns
    <3>1. opener[p].column \in 1..6 BY <1>1 DEF Doors
    <3>. QED BY <3>1, SixColumns DEF NextColumn
  <2>. QED BY <2>1, <2>2, <1>1, GoesOnward
<1>11. ASSUME NEW p \in Openers, NEW step, Refused(p, step) PROVE OpenInv'
  BY <1>2, <1>11 DEF Refused, Places, Early
<1>12. ASSUME NEW p \in Openers, NEW step, LockError(p, step) PROVE OpenInv'
  <2>1. UNCHANGED <<wal, tables, columns>> BY <1>12 DEF LockError
  <2>2. CASE opener[p].attempt < InitLockRetries
    <3> DEFINE d == [opener[p] EXCEPT !.attempt = opener[p].attempt + 1]
    <3>1. opener' = [opener EXCEPT ![p] = d] BY <1>12, <2>2 DEF LockError
    <3>2. opener[p].attempt + 1 \in 0..InitLockRetries
      <4>1. opener[p].attempt \in 0..InitLockRetries BY <1>1 DEF Doors
      <4>. QED BY <4>1, <2>2, RetryAssumption
    <3>3. d \in Doors /\ d.at = opener[p].at /\ d.column = opener[p].column
      BY <3>2, <1>1 DEF Doors
    <3>4. opener[p].at = "open" => columns = Columns BY DEF OpenInv
    <3>. HIDE DEF d
    <3>. QED BY <1>1, <2>1, <3>1, <3>3, <3>4, OpenerMoves
  <2>3. CASE ~(opener[p].attempt < InitLockRetries)
    <3>1. GoesTo(p, "failed") BY <1>12, <2>3 DEF LockError
    <3>2. "failed" \in Places \ Early BY DEF Places, Early
    <3>. QED BY <2>1, <3>1, <3>2, <1>2
  <2>. QED BY <2>2, <2>3
<1>13. CASE UNCHANGED openVars
  <2>1. wal' = wal /\ tables' = tables /\ columns' = columns /\ opener' = opener
    BY <1>13 DEF openVars
  <2>. QED BY <2>1 DEF OpenInv
<1>. QED BY <1>3, <1>4, <1>5, <1>6, <1>7, <1>8, <1>9, <1>10, <1>11, <1>12, <1>13
         DEF OpenNext, OpenStep

\* The invariant holds of any file an older build left.
LEMMA OpenStart == OpenInit => OpenInv
<1> SUFFICES ASSUME OpenInit PROVE OpenInv OBVIOUS
<1>1. opener = [p \in Openers |-> ClosedStore] BY DEF OpenInit
<1>2. ClosedStore \in Doors BY RetryAssumption DEF ClosedStore, Doors, Places
<1>3. ClosedStore.at = "closed" BY DEF ClosedStore
<1>4. wal \in BOOLEAN /\ tables \subseteq {"base", "snapshots"} /\ columns \subseteq Columns
  <2>1. wal \in BOOLEAN BY DEF OpenInit
  <2>2. tables \subseteq {"base", "snapshots"} BY DEF OpenInit
  <2>3. columns \subseteq Columns BY DEF OpenInit
  <2>. QED BY <2>1, <2>2, <2>3
<1>5. opener \in [Openers -> Doors] /\ \A p \in Openers : opener[p].at = "closed"
  BY <1>1, <1>2, <1>3
<1>. QED BY <1>4, <1>5 DEF OpenInv, Early

\* Types: the file's tables and columns, and where each opener is.
THEOREM OpenTyped == OpenSpec => []OpenTypeOK
<1>1. OpenInv => OpenTypeOK
  <2> SUFFICES ASSUME OpenInv PROVE OpenTypeOK OBVIOUS
  <2> DEFINE Types == [at : {"closed", "open", "failed", "duplicate", "add"} \cup
                              {Steps[i] : i \in 1..Len(Steps)},
                       column : 1..Len(Migrations), attempt : 0..InitLockRetries]
  <2>1. Places \subseteq {"closed", "open", "failed", "duplicate", "add"} \cup
                         {Steps[i] : i \in 1..Len(Steps)}
    <3>1. Len(Steps) = 6 BY DEF Steps
    <3>2. /\ Steps[1] = "safe_pragmas" /\ Steps[2] = "read_mode" /\ Steps[3] = "set_wal"
          /\ Steps[4] = "pragmas" /\ Steps[5] = "schema" /\ Steps[6] = "migrate"
      BY DEF Steps
    <3>. QED BY <3>1, <3>2 DEF Places
  <2>2. Doors \subseteq Types BY <2>1, SixColumns DEF Doors
  <2>. QED BY <2>2 DEF OpenInv, OpenTypeOK
<1>. QED BY <1>1, OpenStart, OpenStays, PTL DEF OpenSpec

\* Whoever has opened the store finds every table and column, whatever the file
\* was, however many processes open it at once and wherever they are killed.
THEOREM OpensWhole == OpenSpec => []OpenIsComplete
<1>1. OpenInv => OpenIsComplete
  BY DEF OpenInv, OpenIsComplete, IsAt, Doors, Places
<1>. QED BY <1>1, OpenStart, OpenStays, PTL DEF OpenSpec
=============================================================================
