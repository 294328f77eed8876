------------------------------ MODULE Terminal ------------------------------
(***************************************************************************)
(* The pty sessions of a daemon (terminal, lib.rs) and the tools that use  *)
(* them (jobs_terminal/tty.rs): per session a thread that reads the pty,   *)
(* one that writes the emulator's replies, and callers that create, read,  *)
(* look at, write to and close sessions.                                   *)
(*                                                                         *)
(* Output is counted, not kept: a byte is its position in what the shell   *)
(* wrote, and a buffer is an interval of positions.  The shell is          *)
(* external: it writes while the pty has room, reads its input when it     *)
(* likes, and dies when it likes or is killed.  So is a job it started in  *)
(* a process group of its own: that one reads and writes as the shell      *)
(* does, outlives it, and is reached by no signal.                         *)
(***************************************************************************)
EXTENDS Naturals, FiniteSets

CONSTANTS
  Terms,        \* session ids; each is created once
  Callers,      \* tool calls in progress at once
  NoTerm,
  MaxSessions,  \* TerminalRegistry::max_sessions
  BufferCap,    \* MAX_BUFFER_BYTES
  PtyCap,       \* bytes the kernel keeps in either direction
  MaxBytes,     \* bound: bytes a shell writes
  MaxReplies    \* bound: replies the emulator makes

VARIABLES
  term,    \* [Terms -> the session, its threads and its shell]
  writer,  \* [Terms -> who holds SessionInner.writer]
  caller   \* [Callers -> the tool call it is in]

termVars == <<term, writer, caller>>

Session ==
  [entry : {"none", "spawned", "open", "refused", "failed", "closed"},
   shell : {"none", "runs", "dead"},
   job : BOOLEAN,           \* such a job has the pty open
   wrote : 0..MaxBytes,     \* by the shell
   got : 0..MaxBytes,       \* read from the pty by the reader thread
   appended : 0..MaxBytes,  \* Seen.appended, and the end of the buffer
   head : 0..MaxBytes,      \* the start of the buffer
   dropped : 0..MaxBytes,   \* Buffer.dropped
   drawn : 0..MaxBytes,     \* SessionInner.fed_bytes
   fed : 0..MaxBytes,       \* Seen.fed
   input : 0..PtyCap,       \* bytes the shell has not read
   replies : 0..MaxReplies, \* SessionInner.replies
   asked : 0..MaxReplies,   \* replies made so far
   reader : {"off", "check", "read", "append", "feed", "count", "eof", "gone"},
   replier : {"off", "look", "wait", "lock", "write", "gone"},
   eof : BOOLEAN, closed : BOOLEAN]

Calls == {"idle", "insert", "wait", "catchUp", "frame", "lock", "write", "kill", "remove"}

TermTypeOK ==
  /\ term \in [Terms -> Session]
  /\ writer \in [Terms -> Callers \cup {"nobody", "replier"}]
  /\ caller \in [Callers -> [at : Calls, of : Terms \cup {NoTerm},
                             upto : 0..MaxBytes, late : BOOLEAN]]

New ==
  [entry |-> "none", shell |-> "none", job |-> FALSE, wrote |-> 0, got |-> 0, appended |-> 0, head |-> 0,
   dropped |-> 0, drawn |-> 0, fed |-> 0, input |-> 0, replies |-> 0, asked |-> 0,
   reader |-> "off", replier |-> "off", eof |-> FALSE, closed |-> FALSE]

Idle == [at |-> "idle", of |-> NoTerm, upto |-> 0, late |-> FALSE]

TermInit ==
  /\ term = [t \in Terms |-> New]
  /\ writer = [t \in Terms |-> "nobody"]
  /\ caller = [c \in Callers |-> Idle]

Open == {t \in Terms : term[t].entry = "open"}
\* Nobody has the other side of the pty: reads and writes of it fail.
HungUp(t) == term[t].shell # "runs" /\ ~term[t].job

-----------------------------------------------------------------------------
(* Calls.  A session that was looked up is used to the end of the call,    *)
(* whatever becomes of its record.                                         *)

CallAt(c, place) == caller[c].at = place
Go(c, place) == caller' = [caller EXCEPT ![c].at = place]
Free(c) == CallAt(c, "idle")

\* A call about another session forgets what was read of the last one.
Begin(c, t, place) ==
  /\ Free(c) /\ t \in Open
  /\ caller' = [caller EXCEPT ![c] =
       [Idle EXCEPT !.at = place, !.of = t, !.upto = IF caller[c].of = t THEN caller[c].upto ELSE 0]]

\* create: the threads are started before the child, ...
CreateSpawn(c, t) ==
  /\ Free(c) /\ term[t].entry = "none"
  /\ \E spawned \in BOOLEAN :
       /\ term' = [term EXCEPT ![t] = [New EXCEPT
            !.entry = IF spawned THEN "spawned" ELSE "failed",
            !.shell = IF spawned THEN "runs" ELSE "none",
            !.closed = ~spawned, !.reader = "check", !.replier = "look"]]
       /\ caller' = [caller EXCEPT ![c] =
            IF spawned THEN [Idle EXCEPT !.at = "insert", !.of = t] ELSE Idle]
  /\ UNCHANGED writer

\* ... and the ceiling is looked at when the child runs.
CreateInsert(c) ==
  /\ CallAt(c, "insert")
  /\ term' = [term EXCEPT ![caller[c].of].entry =
       IF Cardinality(Open) >= MaxSessions THEN "refused" ELSE "open"]
  /\ caller' = [caller EXCEPT ![c] = Idle]
  /\ UNCHANGED writer

ReadStart(c, t) == Begin(c, t, "wait") /\ UNCHANGED <<term, writer>>

\* Something is there, nothing will be, or the timeout is over: the buffer is drained.
ReadDrain(c) ==
  /\ CallAt(c, "wait")
  /\ LET t == caller[c].of s == term[t] IN
     /\ term' = [term EXCEPT ![t].head = s.appended, ![t].dropped = 0]
     /\ caller' = [caller EXCEPT ![c].at = "idle", ![c].upto = s.appended]
  /\ UNCHANGED writer

ScreenStart(c, t) == Begin(c, t, "catchUp") /\ UNCHANGED <<term, writer>>

\* catch_up_screen waits for the reader thread, but not for ever.
CatchUp(c) ==
  /\ CallAt(c, "catchUp")
  /\ \E late \in BOOLEAN :
       /\ ~late => term[caller[c].of].fed >= term[caller[c].of].appended
       /\ caller' = [caller EXCEPT ![c].at = "frame", ![c].late = late]
  /\ UNCHANGED <<term, writer>>

Frame(c) == CallAt(c, "frame") /\ Go(c, "idle") /\ UNCHANGED <<term, writer>>

WriteStart(c, t) ==
  /\ ~term[t].eof
  /\ Begin(c, t, "lock") /\ UNCHANGED <<term, writer>>

WriteLock(c) ==
  /\ CallAt(c, "lock") /\ writer[caller[c].of] = "nobody"
  /\ writer' = [writer EXCEPT ![caller[c].of] = c]
  /\ Go(c, "write") /\ UNCHANGED term

\* Input goes to the pty when it has room for it, and is refused when it is hung up.
Input(t) ==
  \/ HungUp(t) /\ UNCHANGED term
  \/ ~HungUp(t) /\ term[t].input < PtyCap /\ term' = [term EXCEPT ![t].input = @ + 1]

Write(c) ==
  /\ CallAt(c, "write") /\ Input(caller[c].of)
  /\ writer' = [writer EXCEPT ![caller[c].of] = "nobody"]
  /\ Go(c, "idle")

\* close: the flag, the signal, the record.
CloseStart(c, t) ==
  /\ Begin(c, t, "kill")
  /\ term' = [term EXCEPT ![t].closed = TRUE]
  /\ UNCHANGED writer

\* The signal reaches the group of the shell only; with the last process that
\* has the pty open, its input is gone.
Killed(t) == [term EXCEPT ![t].shell = "dead", ![t].input = IF term[t].job THEN @ ELSE 0]

CloseKill(c) ==
  /\ CallAt(c, "kill") /\ term' = Killed(caller[c].of)
  /\ Go(c, "remove") /\ UNCHANGED writer

CloseRemove(c) ==
  /\ CallAt(c, "remove")
  /\ term' = [term EXCEPT ![caller[c].of].entry = "closed"]
  /\ Go(c, "idle") /\ UNCHANGED writer

\* kill leaves the record in place.
Kill(c, t) == Free(c) /\ t \in Open /\ term' = Killed(t) /\ UNCHANGED <<writer, caller>>

Call(c) ==
  \/ \E t \in Terms : CreateSpawn(c, t) \/ ReadStart(c, t) \/ ScreenStart(c, t) \/ WriteStart(c, t)
                      \/ CloseStart(c, t) \/ Kill(c, t)
CallStep(c) ==
  \/ CreateInsert(c) \/ ReadDrain(c) \/ CatchUp(c) \/ Frame(c)
  \/ WriteLock(c) \/ Write(c) \/ CloseKill(c) \/ CloseRemove(c)

-----------------------------------------------------------------------------
(* The reader thread.                                                      *)

ReaderChecks(t) ==
  /\ term[t].reader = "check"
  /\ term' = [term EXCEPT ![t].reader = IF term[t].closed THEN "eof" ELSE "read"]

\* What the pty has is read to the end before a hang-up is seen.
ReaderReads(t) ==
  /\ term[t].reader = "read"
  /\ \/ term[t].wrote > term[t].got
        /\ term' = [term EXCEPT ![t].reader = "append", ![t].got = term[t].wrote]
     \/ term[t].wrote = term[t].got /\ HungUp(t)
        /\ term' = [term EXCEPT ![t].reader = "eof"]

\* Mutant: the screen is counted as fed with the append.
ReaderAppendsCounted(t) ==
  /\ term[t].reader = "append"
  /\ LET s == term[t]
         over == IF s.got - s.head > BufferCap THEN s.got - s.head - BufferCap ELSE 0
     IN term' = [term EXCEPT ![t].reader = "feed", ![t].appended = s.got, ![t].fed = s.got,
                             ![t].head = @ + over, ![t].dropped = @ + over]

\* push_output: the oldest bytes give way; a waiting read is woken, ...
ReaderAppends(t) ==
  /\ term[t].reader = "append"
  /\ LET s == term[t]
         over == IF s.got - s.head > BufferCap THEN s.got - s.head - BufferCap ELSE 0
     IN term' = [term EXCEPT ![t].reader = "feed", ![t].appended = s.got,
                             ![t].head = @ + over, ![t].dropped = @ + over]

\* Mutant: the reader thread writes the replies itself.
ReaderFeedsAndWrites(t) ==
  /\ term[t].reader = "feed"
  /\ HungUp(t) \/ term[t].input < PtyCap \/ term[t].asked = MaxReplies
  /\ term' = [term EXCEPT ![t].reader = "count", ![t].drawn = term[t].got, ![t].asked = MaxReplies,
                          ![t].input = IF HungUp(t) \/ term[t].asked = MaxReplies THEN @ ELSE @ + 1]

\* ... the screen is drawn, and the replies it makes are queued, ...
ReaderFeeds(t) ==
  /\ term[t].reader = "feed"
  /\ \E more \in 0..(MaxReplies - term[t].asked) :
       term' = [term EXCEPT ![t].reader = "count", ![t].drawn = term[t].got,
                            ![t].replies = @ + more, ![t].asked = @ + more]

\* ... and the frame is let go.
ReaderCounts(t) ==
  /\ term[t].reader = "count"
  /\ term' = [term EXCEPT ![t].reader = "check", ![t].fed = term[t].got]

ReaderEnds(t) ==
  /\ term[t].reader = "eof"
  /\ term' = [term EXCEPT ![t].reader = "gone", ![t].eof = TRUE]

Reader(t) ==
  /\ \/ ReaderChecks(t) \/ ReaderReads(t) \/ ReaderAppends(t)
     \/ ReaderFeeds(t) \/ ReaderCounts(t) \/ ReaderEnds(t)
  /\ UNCHANGED <<writer, caller>>

-----------------------------------------------------------------------------
(* The reply writer thread.                                                *)

\* A session that needs no replies
Over(t) == term[t].closed \/ term[t].eof

ReplierLooks(t) ==
  /\ term[t].replier = "look"
  /\ term' = [term EXCEPT ![t].replier = IF Over(t) THEN "gone" ELSE "wait"]
  /\ UNCHANGED <<writer, caller>>

\* The queue is polled; what is in it is taken, even when the session is over by then.
ReplierTakes(t) ==
  /\ term[t].replier = "wait"
  /\ term[t].replies > 0 \/ Over(t)
  /\ term' = [term EXCEPT ![t].replier = IF term[t].replies > 0 THEN "lock" ELSE "gone",
                          ![t].replies = 0]
  /\ UNCHANGED <<writer, caller>>

ReplierLocks(t) ==
  /\ term[t].replier = "lock" /\ writer[t] = "nobody"
  /\ writer' = [writer EXCEPT ![t] = "replier"]
  /\ term' = [term EXCEPT ![t].replier = "write"]
  /\ UNCHANGED caller

ReplierWrites(t) ==
  /\ term[t].replier = "write"
  /\ HungUp(t) \/ term[t].input < PtyCap
  /\ term' = [term EXCEPT ![t].replier = "look", ![t].input = IF HungUp(t) THEN @ ELSE @ + 1]
  /\ writer' = [writer EXCEPT ![t] = "nobody"]
  /\ UNCHANGED caller

Replier(t) == ReplierLooks(t) \/ ReplierTakes(t) \/ ReplierLocks(t) \/ ReplierWrites(t)

-----------------------------------------------------------------------------
(* The shell (external).                                                   *)

ShellWrites(t) ==
  /\ ~HungUp(t)
  /\ term[t].wrote < MaxBytes /\ term[t].wrote - term[t].got < PtyCap
  /\ term' = [term EXCEPT ![t].wrote = @ + 1]

ShellReads(t) ==
  /\ ~HungUp(t) /\ term[t].input > 0
  /\ term' = [term EXCEPT ![t].input = @ - 1]

ShellDies(t) == term[t].shell = "runs" /\ term' = Killed(t)

JobStarts(t) == term[t].shell = "runs" /\ term' = [term EXCEPT ![t].job = TRUE]

JobEnds(t) ==
  /\ term[t].job
  /\ term' = [term EXCEPT ![t].job = FALSE,
                          ![t].input = IF term[t].shell = "runs" THEN @ ELSE 0]

Shell(t) ==
  /\ ShellWrites(t) \/ ShellReads(t) \/ ShellDies(t) \/ JobStarts(t) \/ JobEnds(t)
  /\ UNCHANGED <<writer, caller>>

-----------------------------------------------------------------------------
TermNext ==
  \/ \E c \in Callers : Call(c) \/ CallStep(c)
  \/ \E t \in Terms : Reader(t) \/ Replier(t) \/ Shell(t)

\* Threads run; a shell and its jobs owe nothing to anybody.
TermFairness ==
  /\ \A c \in Callers : WF_termVars(CallStep(c))
  /\ \A t \in Terms : WF_termVars(Reader(t)) /\ WF_termVars(Replier(t))

TermSpec == TermInit /\ [][TermNext]_termVars /\ TermFairness

-----------------------------------------------------------------------------
(* Properties.                                                             *)

\* A frame that was waited for shows at least what the read before it returned,
\* although the screen is drawn after the bytes are handed out.
FrameCoversRead ==
  \A c \in Callers : CallAt(c, "frame") /\ ~caller[c].late => term[caller[c].of].drawn >= caller[c].upto

\* Output is always drained, whoever is blocked on the shell's input: a shell
\* that waits for room is given it.
OutputDrains ==
  \A t \in Terms : (term[t].wrote > term[t].got) ~> (term[t].wrote = term[t].got \/ term[t].closed)

\* A session whose shell is gone is retired: its threads end, unless a job that
\* the kill did not reach has the pty open for ever.
ThreadsEnd ==
  \A t \in Terms :
    \/ (term[t].shell = "dead" \/ term[t].closed)
         ~> (term[t].reader = "gone" /\ term[t].replier = "gone")
    \/ <>[]term[t].job
=============================================================================
