---------------------------- MODULE TerminalProofs ----------------------------
(***************************************************************************)
(* For any number of sessions and calls, and any size of the buffer: a     *)
(* frame that was waited for shows what the read before it returned.  And  *)
(* for a screen of any width: what is drawn of a row is where the row has  *)
(* it, and a box is even.                                                  *)
(***************************************************************************)
EXTENDS Terminal, ScreenFrame, WellFoundedInduction, TLAPS

Sizes ==
  BufferCap \in Nat /\ PtyCap \in Nat /\ MaxBytes \in Nat /\ MaxReplies \in Nat

\* How far the steps of a session's output have come: none overtakes the one before.
Counted(s) ==
  /\ s.fed <= s.drawn /\ s.drawn <= s.got /\ s.got <= s.wrote
  /\ s.dropped <= s.head /\ s.head <= s.appended /\ s.appended <= s.got
  /\ s.reader = "count" => s.drawn = s.got
  /\ s.replies <= s.asked

\* What a call knows of its session: it was created, what was read of it was
\* appended, and a frame that was waited for is drawn up to there.
Knows(c) ==
  /\ ~CallAt(c, "idle") \/ caller[c].upto > 0 =>
       caller[c].of \in Terms /\ term[caller[c].of].entry # "none"
  /\ caller[c].upto > 0 => caller[c].upto <= term[caller[c].of].appended
  /\ CallAt(c, "frame") /\ ~caller[c].late => caller[c].upto <= term[caller[c].of].drawn

Inv == TermTypeOK /\ (\A t \in Terms : Counted(term[t])) /\ (\A c \in Callers : Knows(c))

-----------------------------------------------------------------------------
\* What may become of session t: it stays typed and counted, a session that was
\* created is not created again, and takes nothing back.
Good(t, s) ==
  /\ s \in Session /\ Counted(s)
  /\ term[t].entry # "none" =>
       s.entry # "none" /\ term[t].appended <= s.appended /\ term[t].drawn <= s.drawn

Grows == term' \in [Terms -> Session] /\ \A t \in Terms : Good(t, term'[t])

\* A table in which one session changed well, or none, grows.
LEMMA Put ==
  ASSUME TermTypeOK, \A x \in Terms : Counted(term[x]), MaxBytes \in Nat,
         NEW t \in Terms, NEW s, Good(t, s), term' = [term EXCEPT ![t] = s]
  PROVE  Grows
<1>1. ASSUME NEW x \in Terms PROVE Good(x, term[x])
  BY DEF TermTypeOK, Good, Session
<1>2. term' \in [Terms -> Session] BY DEF TermTypeOK, Good
<1>3. ASSUME NEW x \in Terms PROVE Good(x, term'[x]) BY <1>1 DEF TermTypeOK
<1>. QED BY <1>2, <1>3 DEF Grows

\* A table that did not change has grown by nothing.
LEMMA Stays ==
  ASSUME TermTypeOK, \A x \in Terms : Counted(term[x]), MaxBytes \in Nat, term' = term
  PROVE  Grows
BY DEF TermTypeOK, Good, Session, Grows

\* A kill takes nothing back.
LEMMA Kills ==
  ASSUME Sizes, Inv, NEW t \in Terms, term' = Killed(t)
  PROVE  Grows
<1>1. term[t] \in Session /\ Counted(term[t]) BY DEF Inv, TermTypeOK
<1>2. PICK i \in 0..PtyCap : term' = [term EXCEPT ![t] = [term[t] EXCEPT !.shell = "dead", !.input = i]]
  <2>1. term[t].input \in 0..PtyCap /\ 0 \in 0..PtyCap BY <1>1 DEF Session, Sizes
  <2>. QED BY <2>1 DEF Killed
<1>3. Good(t, [term[t] EXCEPT !.shell = "dead", !.input = i])
  <2> DEFINE s == [term[t] EXCEPT !.shell = "dead", !.input = i]
  <2>1. s \in Session BY <1>1 DEF Session
  <2>2. Counted(s) BY <1>1 DEF Session, Counted
  <2>3. s.entry = term[t].entry /\ s.appended = term[t].appended /\ s.drawn = term[t].drawn
    BY <1>1 DEF Session
  <2>4. term[t].appended <= term[t].appended /\ term[t].drawn <= term[t].drawn
    BY <1>1 DEF Session, Sizes
  <2>. QED BY <2>1, <2>2, <2>3, <2>4 DEF Good
<1>. QED BY <1>2, <1>3, Put DEF Inv, Sizes

\* Every step lets the table grow.
LEMMA TableStep ==
  ASSUME Sizes, Inv, [TermNext]_termVars
  PROVE  Grows
<1>0. /\ TermTypeOK /\ (\A x \in Terms : Counted(term[x])) /\ MaxBytes \in Nat
      /\ \A x \in Terms : term[x] \in Session
      /\ MaxReplies \in Nat /\ PtyCap \in Nat /\ 0 \in 0..PtyCap /\ 0 \in 0..MaxReplies /\ 0 \in 0..MaxBytes
  BY DEF Inv, Sizes, TermTypeOK
<1>1. ASSUME NEW c \in Callers, NEW t \in Terms, CreateSpawn(c, t) PROVE Grows
  <2>1. PICK spawned \in BOOLEAN :
          term' = [term EXCEPT ![t] = [New EXCEPT
            !.entry = IF spawned THEN "spawned" ELSE "failed",
            !.shell = IF spawned THEN "runs" ELSE "none",
            !.closed = ~spawned, !.reader = "check", !.replier = "look"]]
    BY <1>1 DEF CreateSpawn
  <2> DEFINE s == term'[t]
  <2>2. term[t].entry = "none" BY <1>1 DEF CreateSpawn
  <2>3. /\ s = [New EXCEPT
            !.entry = IF spawned THEN "spawned" ELSE "failed",
            !.shell = IF spawned THEN "runs" ELSE "none",
            !.closed = ~spawned, !.reader = "check", !.replier = "look"]
    BY <1>0, <2>1 DEF TermTypeOK
  <2> HIDE DEF s
  <2>4. s \in Session
    <3>1. New \in Session BY <1>0 DEF Session, New
    <3>. QED BY <2>3, <3>1 DEF Session
  <2>5. Counted(s) BY <1>0, <2>3 DEF New, Counted
  <2>. QED BY <1>0, <2>1, <2>2, <2>4, <2>5, <2>3, Put DEF Good
<1>2. ASSUME NEW c \in Callers, CallAt(c, "insert") \/ CallAt(c, "wait") \/ CallAt(c, "remove")
                                \/ CallAt(c, "kill") \/ CallAt(c, "write"),
             CallStep(c) PROVE Grows
  <2> DEFINE t == caller[c].of
  <2>1. t \in Terms /\ term[t] \in Session /\ Counted(term[t])
    BY <1>2, <1>0 DEF Inv, Knows, CallAt, TermTypeOK
  <2>2. CASE CreateInsert(c)
    <3>1. PICK e \in {"refused", "open"} : term' = [term EXCEPT ![t] = [term[t] EXCEPT !.entry = e]]
      BY <2>2 DEF CreateInsert
    <3>2. Good(t, [term[t] EXCEPT !.entry = e]) BY <1>0, <2>1 DEF Good, Session, Counted
    <3>. QED BY <1>0, <2>1, <3>1, <3>2, Put
  <2>3. CASE ReadDrain(c)
    <3>1. term' = [term EXCEPT ![t] = [term[t] EXCEPT !.head = term[t].appended, !.dropped = 0]]
      BY <2>3 DEF ReadDrain
    <3>2. Good(t, [term[t] EXCEPT !.head = term[t].appended, !.dropped = 0])
      <4> DEFINE s == [term[t] EXCEPT !.head = term[t].appended, !.dropped = 0]
      <4>1. term[t] \in Session /\ Counted(term[t]) BY <1>0, <2>1
      <4>. DEFINE r == term[t]
      <4>. HIDE DEF r, s
      <4>2. r \in Session /\ Counted(r) /\ s = [r EXCEPT !.head = r.appended, !.dropped = 0]
        BY <4>1 DEF r, s
      <4>3. r.appended \in 0..MaxBytes /\ 0 \in 0..MaxBytes BY <1>0, <4>2 DEF Session
      <4>4. [r EXCEPT !.head = r.appended] \in Session BY <4>2, <4>3 DEF Session
      <4>5. [[r EXCEPT !.head = r.appended] EXCEPT !.dropped = 0] \in Session
        BY <4>3, <4>4 DEF Session
      <4>6. s \in Session BY <4>2, <4>5
      <4>7. Counted(s) BY <1>0, <4>2, <4>6 DEF Session, Counted
      <4>8. s.entry = r.entry /\ s.appended = r.appended /\ s.drawn = r.drawn
        BY <4>2 DEF Session
      <4>9. r.appended \in Int /\ r.drawn \in Int BY <1>0, <4>2 DEF Session
      <4>10. r.entry # "none" =>
               s.entry # "none" /\ r.appended <= s.appended /\ r.drawn <= s.drawn
        BY <4>8, <4>9
      <4>11. Good(t, s) BY <4>6, <4>7, <4>10 DEF Good, r
      <4>. QED BY <4>11 DEF s
    <3>. QED BY <1>0, <2>1, <3>1, <3>2, Put
  <2>4. CASE Write(c)
    <3>1. CASE term' = term BY <3>1, <1>0, Stays
    <3>2. CASE ~HungUp(t) /\ term[t].input < PtyCap /\ term' = [term EXCEPT ![t].input = @ + 1]
      <4>1. term' = [term EXCEPT ![t] = [term[t] EXCEPT !.input = @ + 1]] BY <3>2
      <4>2. Good(t, [term[t] EXCEPT !.input = @ + 1])
        BY <1>0, <2>1, <3>2 DEF Good, Session, Counted
      <4>. QED BY <1>0, <2>1, <4>1, <4>2, Put
    <3>. QED BY <3>1, <3>2, <2>4 DEF Write, Input
  <2>5. CASE CloseKill(c) BY <2>1, <2>5, Kills DEF CloseKill
  <2>6. CASE CloseRemove(c)
    <3>1. term' = [term EXCEPT ![t] = [term[t] EXCEPT !.entry = "closed"]] BY <2>6 DEF CloseRemove
    <3>2. Good(t, [term[t] EXCEPT !.entry = "closed"]) BY <1>0, <2>1 DEF Good, Session, Counted
    <3>. QED BY <1>0, <2>1, <3>1, <3>2, Put
  <2>. QED BY <1>2, <2>2, <2>3, <2>4, <2>5, <2>6 DEF CallStep, CatchUp, Frame, WriteLock, CallAt
<1>3. ASSUME NEW c \in Callers, CatchUp(c) \/ Frame(c) \/ WriteLock(c) PROVE Grows
  BY <1>0, <1>3, Stays DEF CatchUp, Frame, WriteLock
<1>4. ASSUME NEW c \in Callers, NEW t \in Terms,
             ReadStart(c, t) \/ ScreenStart(c, t) \/ WriteStart(c, t) PROVE Grows
  BY <1>0, <1>4, Stays DEF ReadStart, ScreenStart, WriteStart
<1>5. ASSUME NEW c \in Callers, NEW t \in Terms, CloseStart(c, t) PROVE Grows
  <2>1. term' = [term EXCEPT ![t] = [term[t] EXCEPT !.closed = TRUE]] BY <1>5 DEF CloseStart
  <2>2. Good(t, [term[t] EXCEPT !.closed = TRUE])
    <3> DEFINE s == [term[t] EXCEPT !.closed = TRUE]
    <3>1. term[t] \in Session /\ Counted(term[t]) BY <1>0
    <3>2. s \in Session BY <1>0, <3>1 DEF Session
    <3>3. Counted(s) BY <1>0, <3>1 DEF Session, Counted
    <3>. QED BY <3>1, <3>2, <3>3 DEF Good, Session, Counted
  <2>. QED BY <1>0, <2>1, <2>2, Put
<1>6. ASSUME NEW t \in Terms, term' = Killed(t) PROVE Grows BY <1>6, Kills
<1>7. ASSUME NEW t \in Terms, Reader(t) PROVE Grows
  <2>1. CASE ReaderChecks(t)
    <3>1. PICK r \in {"eof", "read"} : term' = [term EXCEPT ![t] = [term[t] EXCEPT !.reader = r]]
      BY <2>1 DEF ReaderChecks
    <3>2. Good(t, [term[t] EXCEPT !.reader = r]) BY <1>0 DEF Good, Session, Counted
    <3>. QED BY <1>0, <3>1, <3>2, Put
  <2>2. CASE ReaderReads(t)
    <3>1. CASE term' = [term EXCEPT ![t].reader = "append", ![t].got = term[t].wrote]
      <4>1. term' = [term EXCEPT ![t] = [term[t] EXCEPT !.reader = "append", !.got = term[t].wrote]]
        BY <3>1
      <4>2. Good(t, [term[t] EXCEPT !.reader = "append", !.got = term[t].wrote])
        <5> DEFINE s == [term[t] EXCEPT !.reader = "append", !.got = term[t].wrote]
        <5>1. term[t] \in Session /\ Counted(term[t]) BY <1>0
        <5>2. s \in Session BY <1>0, <5>1 DEF Session
        <5>3. Counted(s) BY <1>0, <5>1 DEF Session, Counted
        <5>. QED BY <5>1, <5>2, <5>3 DEF Good, Session, Counted
      <4>. QED BY <1>0, <4>1, <4>2, Put
    <3>2. CASE term' = [term EXCEPT ![t].reader = "eof"]
      <4>1. term' = [term EXCEPT ![t] = [term[t] EXCEPT !.reader = "eof"]] BY <3>2
      <4>2. Good(t, [term[t] EXCEPT !.reader = "eof"]) BY <1>0 DEF Good, Session, Counted
      <4>. QED BY <1>0, <4>1, <4>2, Put
    <3>. QED BY <2>2, <3>1, <3>2 DEF ReaderReads
  <2>3. CASE ReaderAppends(t)
    <3> DEFINE s == term[t]
               over == IF s.got - s.head > BufferCap THEN s.got - s.head - BufferCap ELSE 0
    <3>1. term' = [term EXCEPT ![t] = [s EXCEPT !.reader = "feed", !.appended = s.got,
                                               !.head = @ + over, !.dropped = @ + over]]
      BY <2>3 DEF ReaderAppends
    <3>2. s \in Session /\ Counted(s) BY <1>0 DEF TermTypeOK
    <3>3. over \in Nat /\ s.head + over <= s.got /\ s.got \in 0..MaxBytes
          /\ s.head + over \in 0..MaxBytes /\ s.dropped + over \in 0..MaxBytes
      <4>1. /\ s.got \in 0..MaxBytes /\ s.head \in 0..MaxBytes /\ s.dropped \in 0..MaxBytes
            /\ s.appended \in 0..MaxBytes
        BY <3>2 DEF Session
      <4>2. s.dropped <= s.head /\ s.head <= s.appended /\ s.appended <= s.got BY <3>2 DEF Counted
      <4>3. BufferCap \in Nat /\ MaxBytes \in Nat BY DEF Sizes
      <4>. HIDE DEF s
      <4>. QED BY <4>1, <4>2, <4>3
    <3> HIDE DEF over
    <3>4. [s EXCEPT !.reader = "feed", !.appended = s.got, !.head = @ + over, !.dropped = @ + over]
            \in Session
      BY <3>2, <3>3 DEF Session
    <3>5. Good(t, [s EXCEPT !.reader = "feed", !.appended = s.got,
                           !.head = @ + over, !.dropped = @ + over])
      BY <1>0, <3>2, <3>3, <3>4 DEF Good, Session, Counted
    <3>. QED BY <1>0, <3>1, <3>5, Put
  <2>4. CASE ReaderFeeds(t)
    <3>1. PICK more \in 0..(MaxReplies - term[t].asked) :
            term' = [term EXCEPT ![t] = [term[t] EXCEPT !.reader = "count", !.drawn = term[t].got,
                                                        !.replies = @ + more, !.asked = @ + more]]
      BY <2>4 DEF ReaderFeeds
    <3>2. Good(t, [term[t] EXCEPT !.reader = "count", !.drawn = term[t].got,
                                 !.replies = @ + more, !.asked = @ + more])
      <4> DEFINE s == [term[t] EXCEPT !.reader = "count", !.drawn = term[t].got,
                                      !.replies = @ + more, !.asked = @ + more]
      <4>1. term[t] \in Session /\ Counted(term[t]) BY <1>0
      <4>4. term[t].asked + more \in 0..MaxReplies /\ term[t].replies + more \in 0..MaxReplies
        BY <1>0, <4>1 DEF Session, Counted
      <4>2. s \in Session BY <1>0, <4>1, <4>4 DEF Session
      <4>3. Counted(s) BY <1>0, <4>1 DEF Session, Counted
      <4>. QED BY <4>1, <4>2, <4>3 DEF Good, Session, Counted
    <3>. QED BY <1>0, <3>1, <3>2, Put
  <2>5. CASE ReaderCounts(t)
    <3>1. term' = [term EXCEPT ![t] = [term[t] EXCEPT !.reader = "check", !.fed = term[t].got]]
      BY <2>5 DEF ReaderCounts
    <3>2. Good(t, [term[t] EXCEPT !.reader = "check", !.fed = term[t].got])
      <4> DEFINE s == [term[t] EXCEPT !.reader = "check", !.fed = term[t].got]
      <4>1. term[t] \in Session /\ Counted(term[t]) BY <1>0, <2>5
      <4>2. s \in Session BY <1>0, <2>5, <4>1 DEF Session, ReaderCounts
      <4>3. Counted(s) BY <1>0, <2>5, <4>1 DEF Session, Counted, ReaderCounts
      <4>. QED BY <4>1, <4>2, <4>3 DEF Good, Session, Counted
    <3>. QED BY <1>0, <3>1, <3>2, Put
  <2>6. CASE ReaderEnds(t)
    <3>1. term' = [term EXCEPT ![t] = [term[t] EXCEPT !.reader = "gone", !.eof = TRUE]]
      BY <2>6 DEF ReaderEnds
    <3>2. Good(t, [term[t] EXCEPT !.reader = "gone", !.eof = TRUE])
      <4> DEFINE s == [term[t] EXCEPT !.reader = "gone", !.eof = TRUE]
      <4>1. term[t] \in Session /\ Counted(term[t]) BY <1>0
      <4>2. s \in Session BY <1>0, <4>1 DEF Session
      <4>3. Counted(s) BY <1>0, <4>1 DEF Session, Counted
      <4>. QED BY <4>1, <4>2, <4>3 DEF Good, Session, Counted
    <3>. QED BY <1>0, <3>1, <3>2, Put
  <2>. QED BY <1>7, <2>1, <2>2, <2>3, <2>4, <2>5, <2>6 DEF Reader
<1>8. ASSUME NEW t \in Terms, Replier(t) PROVE Grows
  <2>1. CASE ReplierLooks(t)
    <3>1. PICK r \in {"gone", "wait"} : term' = [term EXCEPT ![t] = [term[t] EXCEPT !.replier = r]]
      BY <2>1 DEF ReplierLooks
    <3>2. Good(t, [term[t] EXCEPT !.replier = r]) BY <1>0 DEF Good, Session, Counted
    <3>. QED BY <1>0, <3>1, <3>2, Put
  <2>2. CASE ReplierTakes(t)
    <3>1. PICK r \in {"gone", "lock"} :
            term' = [term EXCEPT ![t] = [term[t] EXCEPT !.replier = r, !.replies = 0]]
      BY <2>2 DEF ReplierTakes
    <3>2. Good(t, [term[t] EXCEPT !.replier = r, !.replies = 0])
      <4> DEFINE s == [term[t] EXCEPT !.replier = r, !.replies = 0]
      <4>1. term[t] \in Session /\ Counted(term[t]) BY <1>0
      <4>2. s \in Session BY <1>0, <4>1 DEF Session
      <4>3. Counted(s) BY <1>0, <4>1 DEF Session, Counted
      <4>. QED BY <4>1, <4>2, <4>3 DEF Good, Session, Counted
    <3>. QED BY <1>0, <3>1, <3>2, Put
  <2>3. CASE ReplierLocks(t)
    <3>1. term' = [term EXCEPT ![t] = [term[t] EXCEPT !.replier = "write"]] BY <2>3 DEF ReplierLocks
    <3>2. Good(t, [term[t] EXCEPT !.replier = "write"]) BY <1>0 DEF Good, Session, Counted
    <3>. QED BY <1>0, <3>1, <3>2, Put
  <2>4. CASE ReplierWrites(t)
    <3>1. PICK i \in 0..PtyCap :
            term' = [term EXCEPT ![t] = [term[t] EXCEPT !.replier = "look", !.input = i]]
      <4>1. term[t].input \in 0..PtyCap BY <1>0 DEF Session
      <4>2. CASE HungUp(t)
        <5>1. term' = [term EXCEPT ![t] = [term[t] EXCEPT !.replier = "look", !.input = term[t].input]]
          BY <2>4, <4>2 DEF ReplierWrites
        <5>. QED BY <4>1, <5>1
      <4>3. CASE ~HungUp(t)
        <5>1. term' = [term EXCEPT ![t] = [term[t] EXCEPT !.replier = "look", !.input = term[t].input + 1]]
          BY <2>4, <4>3 DEF ReplierWrites
        <5>2. term[t].input + 1 \in 0..PtyCap BY <1>0, <2>4, <4>1, <4>3 DEF ReplierWrites
        <5>. QED BY <5>1, <5>2
      <4>. QED BY <4>2, <4>3
    <3>2. Good(t, [term[t] EXCEPT !.replier = "look", !.input = i])
      <4> DEFINE s == [term[t] EXCEPT !.replier = "look", !.input = i]
      <4>1. term[t] \in Session /\ Counted(term[t]) BY <1>0
      <4>2. s \in Session BY <1>0, <4>1 DEF Session
      <4>3. Counted(s) BY <1>0, <4>1 DEF Session, Counted
      <4>. QED BY <4>1, <4>2, <4>3 DEF Good, Session, Counted
    <3>. QED BY <1>0, <3>1, <3>2, Put
  <2>. QED BY <1>8, <2>1, <2>2, <2>3, <2>4 DEF Replier
<1>9. ASSUME NEW t \in Terms, Shell(t) PROVE Grows
  <2>1. CASE ShellWrites(t)
    <3>1. term' = [term EXCEPT ![t] = [term[t] EXCEPT !.wrote = @ + 1]] BY <2>1 DEF ShellWrites
    <3>2. Good(t, [term[t] EXCEPT !.wrote = @ + 1])
      BY <1>0, <2>1 DEF Good, Session, Counted, ShellWrites
    <3>. QED BY <1>0, <3>1, <3>2, Put
  <2>2. CASE ShellReads(t)
    <3>1. term' = [term EXCEPT ![t] = [term[t] EXCEPT !.input = @ - 1]] BY <2>2 DEF ShellReads
    <3>2. Good(t, [term[t] EXCEPT !.input = @ - 1])
      BY <1>0, <2>2 DEF Good, Session, Counted, ShellReads
    <3>. QED BY <1>0, <3>1, <3>2, Put
  <2>3. CASE ShellDies(t) BY <1>6, <2>3 DEF ShellDies
  <2>4. CASE JobStarts(t)
    <3>1. term' = [term EXCEPT ![t] = [term[t] EXCEPT !.job = TRUE]] BY <2>4 DEF JobStarts
    <3>2. Good(t, [term[t] EXCEPT !.job = TRUE])
      <4> DEFINE s == [term[t] EXCEPT !.job = TRUE]
      <4>1. term[t] \in Session /\ Counted(term[t]) BY <1>0
      <4>2. s \in Session BY <1>0, <4>1 DEF Session
      <4>3. Counted(s) BY <1>0, <4>1 DEF Session, Counted
      <4>. QED BY <4>1, <4>2, <4>3 DEF Good, Session, Counted
    <3>. QED BY <1>0, <3>1, <3>2, Put
  <2>5. CASE JobEnds(t)
    <3>1. PICK i \in 0..PtyCap : term' = [term EXCEPT ![t] = [term[t] EXCEPT !.job = FALSE, !.input = i]]
      <4>1. term[t].input \in 0..PtyCap BY <1>0 DEF Session
      <4>. QED BY <1>0, <2>5, <4>1 DEF JobEnds
    <3>2. Good(t, [term[t] EXCEPT !.job = FALSE, !.input = i])
      <4> DEFINE s == [term[t] EXCEPT !.job = FALSE, !.input = i]
      <4>1. term[t] \in Session /\ Counted(term[t]) BY <1>0
      <4>2. s \in Session BY <1>0, <4>1 DEF Session
      <4>3. Counted(s) BY <1>0, <4>1 DEF Session, Counted
      <4>. QED BY <4>1, <4>2, <4>3 DEF Good, Session, Counted
    <3>. QED BY <1>0, <3>1, <3>2, Put
  <2>. QED BY <1>9, <2>1, <2>2, <2>3, <2>4, <2>5 DEF Shell
<1>10. CASE UNCHANGED termVars BY <1>0, <1>10, Stays DEF termVars
<1>11. ASSUME NEW c \in Callers, Call(c) PROVE Grows
  BY <1>11, <1>1, <1>4, <1>5, <1>6 DEF Call, Kill
<1>12. ASSUME NEW c \in Callers, CallStep(c) PROVE Grows
  BY <1>12, <1>2, <1>3
  DEF CallStep, CreateInsert, ReadDrain, Write, CloseKill, CloseRemove
<1>. QED BY <1>7, <1>8, <1>9, <1>10, <1>11, <1>12 DEF TermNext

-----------------------------------------------------------------------------
\* What a call knows of its session goes on to hold while the table grows.
LEMMA KnowsStays ==
  ASSUME Sizes, Inv, Grows, NEW c \in Callers, caller'[c] = caller[c]
  PROVE  Knows(c)'
<1>1. Knows(c) BY DEF Inv
<1>2. \A t \in Terms : term[t] \in Session /\ term'[t] \in Session
  BY DEF Inv, TermTypeOK, Grows, Good
<1>3. caller[c].upto \in 0..MaxBytes /\ MaxBytes \in Nat BY DEF Inv, TermTypeOK, Sizes
<1>4. CASE ~CallAt(c, "idle") \/ caller[c].upto > 0
  <2> DEFINE t == caller[c].of
  <2>1. t \in Terms /\ term[t].entry # "none" BY <1>1, <1>4 DEF Knows
  <2>2. /\ term'[t].entry # "none" /\ term[t].appended <= term'[t].appended
        /\ term[t].drawn <= term'[t].drawn
    BY <2>1 DEF Grows, Good
  <2>3. /\ term[t].appended \in Nat /\ term'[t].appended \in Nat
        /\ term[t].drawn \in Nat /\ term'[t].drawn \in Nat
    BY <1>2, <1>3, <2>1 DEF Session
  <2>4. caller[c].upto > 0 => caller[c].upto <= term'[t].appended
    BY <1>1, <1>3, <2>2, <2>3 DEF Knows
  <2>5. CallAt(c, "frame") /\ ~caller[c].late => caller[c].upto <= term'[t].drawn
    BY <1>1, <1>3, <2>2, <2>3 DEF Knows
  <2>. QED BY <2>1, <2>2, <2>4, <2>5 DEF Knows, CallAt
<1>5. CASE CallAt(c, "idle") /\ ~(caller[c].upto > 0)
  BY <1>5 DEF Knows, CallAt
<1>. QED BY <1>4, <1>5

\* A call that begins, or comes to its next place.
LEMMA CallStepTyping ==
  ASSUME Sizes, Inv, Grows, NEW c \in Callers, NEW k,
         k \in [at : Calls, of : Terms \cup {NoTerm}, upto : 0..MaxBytes, late : BOOLEAN],
         caller' = [caller EXCEPT ![c] = k],
         k.at # "idle" \/ k.upto > 0 => k.of \in Terms /\ term'[k.of].entry # "none",
         k.upto > 0 => k.upto <= term'[k.of].appended,
         k.at = "frame" /\ ~k.late => k.upto <= term'[k.of].drawn
  PROVE  /\ caller' \in [Callers -> [at : Calls, of : Terms \cup {NoTerm},
                                     upto : 0..MaxBytes, late : BOOLEAN]]
         /\ \A x \in Callers : Knows(x)'
<1>1. caller \in [Callers -> [at : Calls, of : Terms \cup {NoTerm},
                              upto : 0..MaxBytes, late : BOOLEAN]]
  BY DEF Inv, TermTypeOK
<1>2. ASSUME NEW x \in Callers PROVE Knows(x)'
  <2>1. CASE x = c
    <3>1. caller'[x] = k BY <1>1, <2>1
    <3>. QED BY <3>1 DEF Knows, CallAt
  <2>2. CASE x # c BY <1>1, <2>2, KnowsStays
  <2>. QED BY <2>1, <2>2
<1>. QED BY <1>1, <1>2

\* What a call may become, by the step it makes.
LEMMA Begins ==
  ASSUME Sizes, Inv, Grows, NEW c \in Callers, NEW t \in Terms, NEW place \in Calls,
         place # "frame", Begin(c, t, place)
  PROVE  /\ caller' \in [Callers -> [at : Calls, of : Terms \cup {NoTerm},
                                     upto : 0..MaxBytes, late : BOOLEAN]]
         /\ \A x \in Callers : Knows(x)'
<1> DEFINE u == IF caller[c].of = t THEN caller[c].upto ELSE 0
           k == [Idle EXCEPT !.at = place, !.of = t, !.upto = u]
<1>1. caller' = [caller EXCEPT ![c] = k] BY DEF Begin
<1>2. /\ caller[c].upto \in 0..MaxBytes /\ 0 \in 0..MaxBytes /\ MaxBytes \in Nat
      /\ term[t].appended \in 0..MaxBytes /\ term'[t].appended \in 0..MaxBytes
  BY DEF Inv, TermTypeOK, Sizes, Grows, Good, Session
<1>3. u \in 0..MaxBytes BY <1>2
<1>4. term'[t].entry # "none" /\ term[t].appended <= term'[t].appended
  BY DEF Begin, Open, Grows, Good
<1>5. u > 0 => u <= term'[t].appended
  <2>1. u > 0 => u <= term[t].appended BY <1>2 DEF Inv, Knows
  <2>. QED BY <2>1, <1>2, <1>3, <1>4
<1>6. /\ k \in [at : Calls, of : Terms \cup {NoTerm}, upto : 0..MaxBytes, late : BOOLEAN]
      /\ k.at = place /\ k.of = t /\ k.upto = u
  <2>1. Idle \in [at : Calls, of : Terms \cup {NoTerm}, upto : 0..MaxBytes, late : BOOLEAN]
    BY <1>2 DEF Idle, Calls
  <2>. QED BY <1>3, <2>1
<1> HIDE DEF k
<1>. QED BY <1>1, <1>4, <1>5, <1>6, CallStepTyping

\* Every step keeps the types and what each caller knows.
LEMMA CallerStep ==
  ASSUME Sizes, Inv, [TermNext]_termVars
  PROVE  TermTypeOK' /\ \A x \in Callers : Knows(x)'
<1> DEFINE Typed == /\ caller' \in [Callers -> [at : Calls, of : Terms \cup {NoTerm},
                                                upto : 0..MaxBytes, late : BOOLEAN]]
                    /\ \A x \in Callers : Knows(x)'
           Held == writer' \in [Terms -> Callers \cup {"nobody", "replier"}]
<1>1. Grows BY TableStep
<1>2. /\ TermTypeOK /\ 0 \in 0..MaxBytes /\ MaxBytes \in Nat
      /\ \A t \in Terms : term[t] \in Session /\ term'[t] \in Session
      /\ \A t \in Terms : Counted(term[t]) /\ Counted(term'[t])
  BY <1>1 DEF Inv, Sizes, TermTypeOK, Grows, Good
<1>3. ASSUME UNCHANGED caller PROVE Typed BY <1>1, <1>2, <1>3, KnowsStays DEF TermTypeOK
<1>4. ASSUME UNCHANGED writer PROVE Held BY <1>2, <1>4 DEF TermTypeOK
<1>0. ASSUME NEW c \in Callers, caller' = [caller EXCEPT ![c] = Idle] PROVE Typed
  <2>1. Idle \in [at : Calls, of : Terms \cup {NoTerm}, upto : 0..MaxBytes, late : BOOLEAN]
    BY <1>2 DEF Idle, Calls
  <2>2. ~(Idle.at # "idle" \/ Idle.upto > 0) /\ ~(Idle.upto > 0) /\ ~(Idle.at = "frame")
    BY DEF Idle
  <2>. QED BY <1>0, <1>1, <2>1, <2>2, CallStepTyping
<1>5. ASSUME NEW c \in Callers, NEW t \in Terms, CreateSpawn(c, t) PROVE Typed /\ Held
  <2>1. CASE caller' = [caller EXCEPT ![c] = Idle]
    BY <2>1, <1>0, <1>4, <1>5 DEF CreateSpawn
  <2>2. CASE caller' # [caller EXCEPT ![c] = Idle]
    <3> DEFINE k == [at |-> "insert", of |-> t, upto |-> 0, late |-> FALSE]
    <3>1. caller' = [caller EXCEPT ![c] = k] BY <1>5, <2>2 DEF CreateSpawn, Idle
    <3>2. term'[t].entry # "none"
      BY <1>5, <2>2, <1>2 DEF CreateSpawn, TermTypeOK, New
    <3>3. k \in [at : Calls, of : Terms \cup {NoTerm}, upto : 0..MaxBytes, late : BOOLEAN]
      BY <1>2 DEF Calls
    <3>5. k.at = "insert" /\ k.of = t /\ ~(k.upto > 0) OBVIOUS
    <3> HIDE DEF k
    <3>4. Typed BY <1>1, <3>1, <3>2, <3>3, <3>5, CallStepTyping
    <3>. QED BY <3>4, <1>4, <1>5 DEF CreateSpawn
  <2>. QED BY <2>1, <2>2
<1>6. ASSUME NEW c \in Callers, NEW t \in Terms,
             ReadStart(c, t) \/ ScreenStart(c, t) \/ WriteStart(c, t) \/ CloseStart(c, t)
      PROVE Typed /\ Held
  <2>1. PICK place \in {"wait", "catchUp", "lock", "kill"} : Begin(c, t, place)
    BY <1>6 DEF ReadStart, ScreenStart, WriteStart, CloseStart
  <2>2. place \in Calls /\ place # "frame" BY DEF Calls
  <2>3. Typed BY <1>1, <2>1, <2>2, Begins
  <2>. QED BY <2>3, <1>4, <1>6 DEF ReadStart, ScreenStart, WriteStart, CloseStart
<1>7. ASSUME NEW c \in Callers, ~CallAt(c, "idle"), CallStep(c) PROVE Typed /\ Held
  <2> DEFINE t == caller[c].of
             K == [at : Calls, of : Terms \cup {NoTerm}, upto : 0..MaxBytes, late : BOOLEAN]
  <2>1. /\ t \in Terms /\ term[t].entry # "none" /\ Knows(c)
        /\ caller[c] \in K /\ caller \in [Callers -> K]
    BY <1>7, <1>2 DEF Inv, Knows, TermTypeOK
  <2>2. /\ term'[t].entry # "none" /\ term[t].appended <= term'[t].appended
        /\ term[t].drawn <= term'[t].drawn
        /\ term[t].appended \in 0..MaxBytes /\ term'[t].appended \in 0..MaxBytes
    BY <1>1, <1>2, <2>1 DEF Grows, Good, Session
  <2>3. caller[c].upto > 0 => caller[c].upto <= term'[t].appended
    BY <1>2, <2>1, <2>2 DEF Knows
  <2>4. ASSUME NEW place \in Calls, place # "frame", Go(c, place) PROVE Typed
    <3> DEFINE k == [caller[c] EXCEPT !.at = place]
    <3>1. caller' = [caller EXCEPT ![c] = k] BY <2>4, <2>1 DEF Go
    <3>2. k \in K /\ k.at = place /\ k.of = t /\ k.upto = caller[c].upto BY <2>1
    <3>. QED BY <1>1, <2>1, <2>2, <2>3, <2>4, <3>1, <3>2, CallStepTyping
  <2>5. CASE CreateInsert(c)
    <3>1. Typed BY <1>0, <2>5 DEF CreateInsert
    <3>. QED BY <3>1, <1>4, <2>5 DEF CreateInsert
  <2>6. CASE ReadDrain(c)
    <3> DEFINE k == [caller[c] EXCEPT !.at = "idle", !.upto = term[t].appended]
    <3>1. caller' = [caller EXCEPT ![c] = k] BY <2>6, <2>1 DEF ReadDrain
    <3>2. k \in K /\ k.at = "idle" /\ k.of = t /\ k.upto = term[t].appended
      BY <2>1, <2>2 DEF Calls
    <3>3. Typed BY <1>1, <2>1, <2>2, <3>1, <3>2, CallStepTyping
    <3>. QED BY <3>3, <1>4, <2>6 DEF ReadDrain
  <2>7. CASE CatchUp(c)
    <3>1. PICK late \in BOOLEAN :
            /\ ~late => term[t].fed >= term[t].appended
            /\ caller' = [caller EXCEPT ![c].at = "frame", ![c].late = late]
      BY <2>7 DEF CatchUp
    <3> DEFINE k == [caller[c] EXCEPT !.at = "frame", !.late = late]
    <3>2. caller' = [caller EXCEPT ![c] = k] BY <3>1, <2>1
    <3>3. k \in K /\ k.at = "frame" /\ k.of = t /\ k.upto = caller[c].upto /\ k.late = late
      BY <2>1 DEF Calls
    <3>4. ~late => caller[c].upto <= term'[t].drawn
      <4>1. CASE ~late
        <5>1. term[t].appended <= term[t].fed BY <3>1, <4>1, <1>2, <2>1 DEF Session
        <5>2. term[t].fed <= term[t].drawn BY <1>2, <2>1 DEF Counted
        <5>3. term'[t] \in Session /\ term[t] \in Session BY <1>2, <2>1
        <5>4. caller[c].upto \in 0..MaxBytes BY <2>1
        <5>5. caller[c].upto > 0 => caller[c].upto <= term[t].appended BY <2>1 DEF Knows
        <5>. QED BY <5>1, <5>2, <5>3, <5>4, <5>5, <2>2, <1>2 DEF Session
      <4>. QED BY <4>1
    <3>5. Typed BY <1>1, <2>1, <2>2, <2>3, <3>2, <3>3, <3>4, CallStepTyping
    <3>. QED BY <3>5, <1>4, <2>7 DEF CatchUp
  <2>8. CASE Frame(c)
    <3>. QED BY <2>4, <1>4, <2>8 DEF Frame, Calls
  <2>9. CASE WriteLock(c)
    <3>1. Typed BY <2>4, <2>9 DEF WriteLock, Calls
    <3>2. Held BY <1>2, <2>9 DEF WriteLock, TermTypeOK
    <3>. QED BY <3>1, <3>2
  <2>10. CASE Write(c)
    <3>1. Typed BY <2>4, <2>10 DEF Write, Calls
    <3>2. Held BY <1>2, <2>10 DEF Write, TermTypeOK
    <3>. QED BY <3>1, <3>2
  <2>11. CASE CloseKill(c) BY <2>4, <1>4, <2>11 DEF CloseKill, Calls
  <2>12. CASE CloseRemove(c) BY <2>4, <1>4, <2>12 DEF CloseRemove, Calls
  <2>. QED BY <1>7, <2>5, <2>6, <2>7, <2>8, <2>9, <2>10, <2>11, <2>12 DEF CallStep
<1>8. ASSUME NEW c \in Callers, NEW t \in Terms, Kill(c, t) PROVE Typed /\ Held
  BY <1>3, <1>4, <1>8 DEF Kill
<1>9. ASSUME NEW t \in Terms, Reader(t) \/ Shell(t) PROVE Typed /\ Held
  BY <1>3, <1>4, <1>9 DEF Reader, Shell
<1>10. ASSUME NEW t \in Terms, Replier(t) PROVE Typed /\ Held
  <2>1. Typed
    BY <1>3, <1>10 DEF Replier, ReplierLooks, ReplierTakes, ReplierLocks, ReplierWrites
  <2>2. Held
    BY <1>2, <1>4, <1>10
    DEF Replier, ReplierLooks, ReplierTakes, ReplierLocks, ReplierWrites, TermTypeOK
  <2>. QED BY <2>1, <2>2
<1>11. ASSUME UNCHANGED termVars PROVE Typed /\ Held
  <2>1. UNCHANGED caller /\ UNCHANGED writer BY <1>11 DEF termVars
  <2>. QED BY <2>1, <1>3, <1>4
<1>12. ASSUME NEW c \in Callers, CallStep(c) PROVE ~CallAt(c, "idle")
  BY <1>12 DEF CallStep, CreateInsert, ReadDrain, CatchUp, Frame, WriteLock, Write,
               CloseKill, CloseRemove, CallAt
<1>13. Typed /\ Held
  <2>1. CASE TermNext
    <3>1. ASSUME NEW c \in Callers, Call(c) PROVE Typed /\ Held
      BY <1>5, <1>6, <1>8, <3>1 DEF Call
    <3>2. ASSUME NEW c \in Callers, CallStep(c) PROVE Typed /\ Held BY <1>7, <1>12, <3>2
    <3>. QED BY <2>1, <3>1, <3>2, <1>9, <1>10 DEF TermNext
  <2>. QED BY <2>1, <1>11
<1>14. term' \in [Terms -> Session] BY <1>1 DEF Grows
<1>. QED BY <1>13, <1>14 DEF TermTypeOK

-----------------------------------------------------------------------------
\* Types, the order of a session's counts, and what its calls know, together.
LEMMA Inductive ==
  ASSUME Sizes
  PROVE  (TermInit => Inv) /\ (Inv /\ [TermNext]_termVars => Inv')
<1>1. TermInit => Inv
  <2> SUFFICES ASSUME TermInit PROVE Inv OBVIOUS
  <2>0. 0 \in 0..MaxBytes /\ 0 \in 0..PtyCap /\ 0 \in 0..MaxReplies BY DEF Sizes
  <2>1. New \in Session /\ Counted(New) BY <2>0 DEF New, Session, Counted
  <2>2. Idle \in [at : Calls, of : Terms \cup {NoTerm}, upto : 0..MaxBytes, late : BOOLEAN]
    BY <2>0 DEF Idle, Calls
  <2>3. TermTypeOK BY <2>1, <2>2 DEF TermInit, TermTypeOK
  <2>4. \A t \in Terms : Counted(term[t]) BY <2>1 DEF TermInit
  <2>5. ASSUME NEW c \in Callers PROVE Knows(c)
    <3>1. caller[c] = Idle BY DEF TermInit
    <3>2. Idle.at = "idle" /\ Idle.upto = 0 BY DEF Idle
    <3>. QED BY <3>1, <3>2 DEF Knows, CallAt
  <2>. QED BY <2>3, <2>4, <2>5 DEF Inv
<1>2. ASSUME Inv, [TermNext]_termVars PROVE Inv'
  <2>1. Grows BY <1>2, TableStep
  <2>2. \A t \in Terms : Counted(term[t])' BY <2>1 DEF Grows, Good
  <2>. QED BY <1>2, <2>2, CallerStep DEF Inv
<1>. QED BY <1>1, <1>2

\* Types: sessions, their threads and their callers stay well formed.
THEOREM Typing == ASSUME Sizes PROVE TermSpec => []TermTypeOK
BY Inductive, PTL DEF Inv, TermSpec

\* The bytes a read hands out may be ahead of the screen; a frame that was waited
\* for has caught up with them, whoever else uses the session (terminal, lib.rs 776-800).
THEOREM FrameShowsRead == ASSUME Sizes PROVE TermSpec => []FrameCoversRead
<1>1. Inv => FrameCoversRead
  <2> SUFFICES ASSUME Inv, NEW c \in Callers, CallAt(c, "frame"), ~caller[c].late
               PROVE  term[caller[c].of].drawn >= caller[c].upto
    BY DEF FrameCoversRead
  <2>1. caller[c].upto <= term[caller[c].of].drawn BY DEF Inv, Knows
  <2>. QED BY <2>1
<1>. QED BY <1>1, Inductive, PTL DEF TermSpec

-----------------------------------------------------------------------------
\* A row of the screen: induction over columns, and sums of widths.

\* The least-number principle.
LEMMA Least ==
  ASSUME NEW T \in SUBSET Nat, T # {}
  PROVE  \E n \in T : \A m \in T : n <= m
<1> DEFINE R == OpToRel(<, Nat)
<1>1. IsWellFoundedOn(R, Nat) BY NatLessThanWellFounded
<1>2. PICK n \in T : \A m \in T : ~(<<m, n>> \in R) BY <1>1, WFMin
<1>3. \A m \in T : ~(m < n) BY <1>2 DEF OpToRel
<1>. QED BY <1>3

\* Induction over a set of numbers.
LEMMA Climb ==
  ASSUME NEW n \in Nat, NEW T, 0 \in T, \A k \in 0..(n - 1) : k \in T => k + 1 \in T
  PROVE  \A k \in 0..n : k \in T
<1> SUFFICES ASSUME NEW k \in 0..n, k \notin T PROVE FALSE
  OBVIOUS
<1> DEFINE M == {m \in 0..n : m \notin T}
<1>1. M \in SUBSET Nat /\ M # {}
  OBVIOUS
<1>2. PICK m \in M : \A l \in M : m <= l
  BY <1>1, Least
<1>3. m - 1 \in 0..(n - 1) /\ m - 1 \in 0..n
  BY <1>2
<1>4. m - 1 \in T
  BY <1>2, <1>3
<1>5. m - 1 + 1 \in T
  BY <1>3, <1>4
<1> QED
  BY <1>2, <1>5

\* What widths come to column by column.
Sums(w, p) ==
  /\ p \in [0..Len(w) -> Nat] /\ p[0] = 0
  /\ \A k \in 1..Len(w) : p[k] = p[k - 1] + w[k]

\* The sum is the last of the partial sums.
LEMMA TotalIs ==
  ASSUME NEW w \in Seq(Nat), NEW p, Sums(w, p)
  PROVE  Total(w) = p[Len(w)]
<1> DEFINE n == Len(w)
           f == CHOOSE g : g = [i \in 0..n |-> IF i = 0 THEN 0 ELSE g[i - 1] + w[i]]
<1>0. n \in Nat
  OBVIOUS
<1>1. Total(w) = f[n]
  BY DEF Total
<1>2. p = [i \in 0..n |-> IF i = 0 THEN 0 ELSE p[i - 1] + w[i]]
  <2>1. \A i \in 0..n : p[i] = IF i = 0 THEN 0 ELSE p[i - 1] + w[i]
    BY <1>0 DEF Sums
  <2>2. p = [i \in 0..n |-> p[i]]
    BY DEF Sums
  <2> QED
    BY <2>1, <2>2
<1>3. \A i \in 0..n : f[i] = IF i = 0 THEN 0 ELSE f[i - 1] + w[i]
  <2>1. f = [i \in 0..n |-> IF i = 0 THEN 0 ELSE f[i - 1] + w[i]]
    BY <1>2
  <2> HIDE DEF f
  <2> QED
    BY <2>1
<1> HIDE DEF f, n
<1>4. \A k \in 0..n : f[k] = p[k]
  <2> DEFINE T == {k \in 0..n : f[k] = p[k]}
  <2>0. 0 \in 0..n
    BY <1>0
  <2>1. 0 \in T
    <3>1. f[0] = 0
      BY <1>3, <2>0
    <3> QED
      BY <2>0, <3>1 DEF Sums
  <2>2. ASSUME NEW k \in 0..(n - 1), k \in T PROVE k + 1 \in T
    <3>1. k + 1 \in 0..n /\ k + 1 \in 1..Len(w) /\ k + 1 # 0 /\ k + 1 - 1 = k
      BY <1>0 DEF n
    <3>2. f[k + 1] = f[k] + w[k + 1]
      <4>1. f[k + 1] = f[k + 1 - 1] + w[k + 1]
        BY <1>3, <3>1
      <4> QED
        BY <3>1, <4>1
    <3>3. p[k + 1] = p[k] + w[k + 1]
      <4>1. \A j \in 1..Len(w) : p[j] = p[j - 1] + w[j]
        BY DEF Sums
      <4>2. p[k + 1] = p[k + 1 - 1] + w[k + 1]
        BY <3>1, <4>1
      <4> QED
        BY <3>1, <4>2
    <3> QED
      BY <2>2, <3>1, <3>2, <3>3
  <2> HIDE DEF T
  <2>3. \A k \in 0..n : k \in T
    BY <1>0, <2>1, <2>2, Climb
  <2> QED
    BY <2>3 DEF T
<1> QED
  BY <1>0, <1>1, <1>4 DEF n

\* Widths always add up.
LEMMA SumsExist ==
  ASSUME NEW w \in Seq(Nat)
  PROVE  \E p : Sums(w, p)
<1> DEFINE n == Len(w)
           Upto(k, p) == /\ p \in [0..k -> Nat] /\ p[0] = 0
                         /\ \A j \in 1..k : p[j] = p[j - 1] + w[j]
           T == {k \in 0..n : \E p : Upto(k, p)}
<1>0. n \in Nat /\ \A k \in 1..n : w[k] \in Nat
  OBVIOUS
<1> HIDE DEF n
<1>1. 0 \in T
  <2>1. Upto(0, [i \in 0..0 |-> 0])
    OBVIOUS
  <2> HIDE DEF Upto
  <2> QED
    BY <1>0, <2>1
<1>2. ASSUME NEW k \in 0..(n - 1), k \in T PROVE k + 1 \in T
  <2>0. k \in Nat /\ k + 1 \in 0..n /\ k + 1 \in 1..n
    BY <1>0
  <2>1. PICK p : Upto(k, p)
    BY <1>2
  <2> DEFINE q == [j \in 0..(k + 1) |-> IF j = k + 1 THEN p[k] + w[k + 1] ELSE p[j]]
  <2>2. p[k] \in Nat /\ w[k + 1] \in Nat
    BY <1>0, <2>0, <2>1
  <2>3. q \in [0..(k + 1) -> Nat] /\ q[0] = 0
    BY <2>0, <2>1, <2>2
  <2>4. ASSUME NEW j \in 1..(k + 1) PROVE q[j] = q[j - 1] + w[j]
    <3>1. CASE j = k + 1
      <4>1. q[j] = p[k] + w[k + 1] /\ q[j - 1] = p[k]
        BY <2>0, <3>1
      <4> QED
        BY <3>1, <4>1
    <3>2. CASE j # k + 1
      <4>1. j \in 1..k /\ j - 1 \in 0..k
        BY <2>0, <3>2
      <4>2. q[j] = p[j] /\ q[j - 1] = p[j - 1]
        BY <2>0, <3>2, <4>1
      <4> QED
        BY <2>1, <4>1, <4>2
    <3> QED
      BY <3>1, <3>2
  <2>5. Upto(k + 1, q)
    BY <2>3, <2>4
  <2> HIDE DEF Upto, q
  <2> QED
    BY <2>0, <2>5
<1> HIDE DEF T
<1>3. n \in T
  <2>1. \A k \in 0..n : k \in T
    BY <1>0, <1>1, <1>2, Climb
  <2> QED
    BY <1>0, <2>1
<1> QED
  BY <1>3 DEF T, n, Sums

\* A sum is a number, that of nothing is 0, and a width more adds itself.
LEMMA TotalTyped == ASSUME NEW w \in Seq(Nat) PROVE Total(w) \in Nat
<1>1. PICK p : Sums(w, p)
  BY SumsExist
<1>2. p[Len(w)] \in Nat
  BY <1>1 DEF Sums
<1> QED
  BY <1>1, <1>2, TotalIs

LEMMA TotalNone == Total(<<>>) = 0
<1>1. Sums(<<>>, [i \in 0..0 |-> 0])
  BY DEF Sums
<1>2. <<>> \in Seq(Nat) /\ Len(<<>>) = 0
  OBVIOUS
<1> QED
  BY <1>1, <1>2, TotalIs

LEMMA TotalGrows ==
  ASSUME NEW w \in Seq(Nat), NEW x \in Nat
  PROVE  Total(Append(w, x)) = Total(w) + x
<1> DEFINE n == Len(w)
           v == Append(w, x)
<1>1. PICK p : Sums(w, p)
  BY SumsExist
<1> DEFINE q == [j \in 0..(n + 1) |-> IF j = n + 1 THEN p[n] + x ELSE p[j]]
<1>0. /\ n \in Nat /\ v \in Seq(Nat) /\ Len(v) = n + 1 /\ v[n + 1] = x
      /\ \A k \in 1..n : v[k] = w[k]
  OBVIOUS
<1>2. p \in [0..n -> Nat] /\ p[0] = 0 /\ p[n] \in Nat /\ \A k \in 1..n : p[k] = p[k - 1] + w[k]
  BY <1>0, <1>1 DEF Sums
<1> HIDE DEF n, v
<1>3. Sums(v, q)
  <2>1. q \in [0..(n + 1) -> Nat] /\ q[0] = 0
    BY <1>0, <1>2
  <2>2. ASSUME NEW k \in 1..(n + 1) PROVE q[k] = q[k - 1] + v[k]
    <3>1. CASE k = n + 1
      <4>1. q[k] = p[n] + x /\ q[k - 1] = p[n]
        BY <1>0, <3>1
      <4> QED
        BY <1>0, <3>1, <4>1
    <3>2. CASE k # n + 1
      <4>1. k \in 1..n /\ k - 1 \in 0..n
        BY <1>0, <3>2
      <4>2. q[k] = p[k] /\ q[k - 1] = p[k - 1]
        BY <1>0, <3>2, <4>1
      <4> QED
        BY <1>0, <1>2, <4>1, <4>2
    <3> QED
      BY <3>1, <3>2
  <2> HIDE DEF q
  <2> QED
    BY <1>0, <2>1, <2>2 DEF Sums
<1>4. Total(v) = q[n + 1]
  <2> HIDE DEF q
  <2> QED
    BY <1>0, <1>3, TotalIs
<1>5. Total(w) = p[n]
  BY <1>1, TotalIs DEF n
<1>6. q[n + 1] = p[n] + x
  BY <1>0
<1> QED
  BY <1>4, <1>5, <1>6 DEF v

\* The runs of a row, column by column.
LEMMA RunsAre ==
  ASSUME Cols \in Nat
  PROVE  /\ RunsUpTo[0] = <<>>
         /\ \A c \in 1..Cols :
              RunsUpTo[c] = IF row[c].glyph = "spacer" THEN RunsUpTo[c - 1]
                            ELSE Join(RunsUpTo[c - 1], c)
<1> DEFINE n == Cols
           next(runs, c) == IF row[c].glyph = "spacer" THEN runs ELSE Join(runs, c)
           Eq(f, c) == f[c] = IF c = 0 THEN <<>> ELSE next(f[c - 1], c)
           T == {k \in 0..n : \E f : \A c \in 0..k : Eq(f, c)}
<1>0. n \in Nat
  OBVIOUS
<1> HIDE DEF n, next
<1>1. 0 \in T
  <2>1. \A c \in 0..0 : Eq([i \in 0..0 |-> <<>>], c)
    OBVIOUS
  <2> HIDE DEF Eq
  <2> QED
    BY <1>0, <2>1
<1>2. ASSUME NEW k \in 0..(n - 1), k \in T PROVE k + 1 \in T
  <2>0. k \in Nat /\ k + 1 \in 0..n
    BY <1>0
  <2>1. PICK f : \A c \in 0..k : Eq(f, c)
    BY <1>2
  <2> DEFINE g == [c \in 0..(k + 1) |-> IF c = k + 1 THEN next(f[k], k + 1) ELSE f[c]]
  <2>2. ASSUME NEW c \in 0..(k + 1) PROVE Eq(g, c)
    <3>1. CASE c = k + 1
      <4>1. g[c] = next(f[k], c) /\ g[c - 1] = f[k] /\ c # 0
        BY <2>0, <3>1
      <4> QED
        BY <4>1
    <3>2. CASE c # k + 1
      <4>1. c \in 0..k /\ (c # 0 => c - 1 \in 0..k)
        BY <2>0, <3>2
      <4>2. g[c] = f[c] /\ (c # 0 => g[c - 1] = f[c - 1])
        BY <2>0, <3>2, <4>1
      <4> QED
        BY <2>1, <4>1, <4>2
    <3> QED
      BY <3>1, <3>2
  <2> HIDE DEF Eq, g
  <2> QED
    BY <2>0, <2>2
<1> HIDE DEF T
<1>3. n \in T
  <2>1. \A k \in 0..n : k \in T
    BY <1>0, <1>1, <1>2, Climb
  <2> QED
    BY <1>0, <2>1
<1>4. PICK f : \A c \in 0..n : Eq(f, c)
  BY <1>3 DEF T
<1> DEFINE g == [c \in 0..n |-> f[c]]
<1>5. g = [c \in 0..n |-> IF c = 0 THEN <<>> ELSE next(g[c - 1], c)]
  <2>1. ASSUME NEW c \in 0..n PROVE g[c] = IF c = 0 THEN <<>> ELSE next(g[c - 1], c)
    <3>1. c # 0 => c - 1 \in 0..n
      BY <1>0
    <3> QED
      BY <1>4, <3>1
  <2> QED
    BY <2>1
<1> HIDE DEF g
<1>6. RunsUpTo = [c \in 0..n |-> IF c = 0 THEN <<>> ELSE next(RunsUpTo[c - 1], c)]
  BY <1>5 DEF RunsUpTo, next, n
<1>7. /\ RunsUpTo[0] = <<>>
      /\ \A c \in 1..n : RunsUpTo[c] = next(RunsUpTo[c - 1], c)
  <2>1. 0 \in 0..n /\ \A c \in 1..n : c \in 0..n /\ c # 0
    BY <1>0
  <2>2. \A c \in 0..n : RunsUpTo[c] = IF c = 0 THEN <<>> ELSE next(RunsUpTo[c - 1], c)
    BY <1>6
  <2> QED
    BY <2>1, <2>2
<1> QED
  BY <1>7 DEF next, n

\* Runs are placed in the columns they were found in, and take so many cells
\* in all.
Run == [style : Styles, at : Nat, cells : Nat, text : Seq(Nat), grid : Seq(Nat)]
Narrow(w) == w \in Seq(Nat) /\ \A k \in 1..Len(w) : w[k] \in {1, 2}
Counts(runs, m) == [j \in 1..m |-> runs[j].cells]
Aligned(runs, cells) ==
  /\ runs \in Seq(Run)
  /\ \A i \in 1..Len(runs) :
       /\ runs[i].cells = Total(runs[i].grid)
       /\ Narrow(runs[i].text)
       /\ Offset(runs, i) = runs[i].at - 1
  /\ Total(Counts(runs, Len(runs))) = cells

\* One more glyph of one or two cells.
LEMMA OneMore ==
  ASSUME NEW old, Narrow(old), NEW x \in {1, 2}
  PROVE  Narrow(Append(old, x))
<1>1. /\ old \in Seq(Nat) /\ x \in Nat
      /\ \A k \in 1..Len(old) : old[k] \in {1, 2}
  BY DEF Narrow
<1>2. /\ Append(old, x) \in Seq(Nat) /\ Len(Append(old, x)) = Len(old) + 1
      /\ \A k \in 1..Len(old) : Append(old, x)[k] = old[k]
      /\ Append(old, x)[Len(old) + 1] = x /\ Len(old) \in Nat
  BY <1>1
<1>3. ASSUME NEW k \in 1..(Len(old) + 1) PROVE Append(old, x)[k] \in {1, 2}
  <2>1. CASE k = Len(old) + 1
    BY <1>2, <2>1
  <2>2. CASE k # Len(old) + 1
    <3>1. k \in 1..Len(old)
      BY <1>2, <2>2
    <3> QED
      BY <1>1, <1>2, <3>1
  <2> QED
    BY <2>1, <2>2
<1> QED
  BY <1>2, <1>3 DEF Narrow

\* The cells of runs are numbers.
LEMMA CountsAre ==
  ASSUME NEW runs \in Seq(Run), NEW m \in 0..Len(runs)
  PROVE  Counts(runs, m) \in Seq(Nat) /\ Len(Counts(runs, m)) = m
<1>1. \A j \in 1..m : runs[j] \in Run
  OBVIOUS
<1>2. \A j \in 1..m : runs[j].cells \in Nat
  BY <1>1 DEF Run
<1>3. m \in Nat
  OBVIOUS
<1> QED
  BY <1>2, <1>3 DEF Counts

\* A run more is its cells more.
LEMMA CountsGrow ==
  ASSUME NEW runs \in Seq(Run), NEW m \in 1..Len(runs)
  PROVE  Counts(runs, m) = Append(Counts(runs, m - 1), runs[m].cells)
<1>1. m \in Nat /\ m - 1 \in 0..Len(runs)
  OBVIOUS
<1>2. Counts(runs, m - 1) \in Seq(Nat) /\ Len(Counts(runs, m - 1)) = m - 1
  BY <1>1, CountsAre
<1>3. \A j \in 1..(m - 1) : Counts(runs, m - 1)[j] = runs[j].cells
  BY DEF Counts
<1>4. Append(Counts(runs, m - 1), runs[m].cells)
        = [j \in 1..m |-> IF j = m THEN runs[m].cells ELSE Counts(runs, m - 1)[j]]
  BY <1>1, <1>2
<1>5. \A j \in 1..m : runs[j].cells = IF j = m THEN runs[m].cells ELSE Counts(runs, m - 1)[j]
  BY <1>1, <1>3
<1> QED
  BY <1>4, <1>5 DEF Counts

\* Where a run begins depends on those before it.
LEMMA OffsetsAgree ==
  ASSUME NEW one \in Seq(Run), NEW other \in Seq(Run), NEW i \in Nat,
         \A j \in 1..(i - 1) : one[j].cells = other[j].cells
  PROVE  Offset(one, i) = Offset(other, i)
BY DEF Offset

\* A glyph in the next column goes where its column is.
LEMMA JoinAligns ==
  ASSUME Cols \in Nat, NEW c \in 1..Cols, row[c].style \in Styles, row[c].measured \in {1, 2},
         NEW runs, Aligned(runs, c - 1)
  PROVE  Aligned(Join(runs, c), c - 1 + Cells(row[c]))
<1> DEFINE n == Len(runs)
           x == Cells(row[c])
           y == row[c].measured
<1>1. /\ runs \in Seq(Run) /\ n \in Nat /\ x \in {1, 2} /\ x \in Nat /\ c \in Nat
      /\ \A i \in 1..n : runs[i] \in Run
  BY DEF Aligned, Cells
<1>t. \A i \in 1..n :
        /\ runs[i].style \in Styles /\ runs[i].at \in Nat /\ runs[i].cells \in Nat
        /\ runs[i].text \in Seq(Nat) /\ runs[i].grid \in Seq(Nat)
        /\ runs[i].cells = Total(runs[i].grid)
        /\ Narrow(runs[i].text)
        /\ Offset(runs, i) = runs[i].at - 1
  BY <1>1 DEF Aligned, Run
<1>2. Total(Counts(runs, n)) = c - 1
  BY DEF Aligned
<1>3. CASE runs # <<>> /\ Last(runs).style = row[c].style
  <2> DEFINE text == Append(runs[n].text, y)
             grid == Append(runs[n].grid, x)
             last == [style |-> runs[n].style, at |-> runs[n].at, cells |-> runs[n].cells + x,
                      text |-> text, grid |-> grid]
             after == [i \in 1..n |-> IF i = n THEN last ELSE runs[i]]
  <2>1. n \in 1..n /\ n - 1 \in 0..n /\ runs[n] \in Run
    BY <1>1, <1>3
  <2>2. Join(runs, c) = after
    <3>1. Join(runs, c) = [runs EXCEPT ![n].cells = @ + x, ![n].text = Append(@, y),
                                       ![n].grid = Append(@, x)]
      BY <1>3 DEF Join
    <3>2. runs = [i \in 1..n |-> runs[i]]
      BY <1>1
    <3>3. runs[n] = [style |-> runs[n].style, at |-> runs[n].at, cells |-> runs[n].cells,
                     text |-> runs[n].text, grid |-> runs[n].grid]
      BY <2>1 DEF Run
    <3> QED
      BY <2>1, <3>1, <3>2, <3>3
  <2>3. Narrow(text) /\ grid \in Seq(Nat) /\ Total(grid) = runs[n].cells + x
    <3>1. /\ runs[n].grid \in Seq(Nat) /\ Total(runs[n].grid) = runs[n].cells
          /\ Narrow(runs[n].text)
      BY <1>t, <2>1
    <3>2. Total(grid) = runs[n].cells + x
      BY <1>1, <3>1, TotalGrows
    <3>3. grid \in Seq(Nat)
      BY <1>1, <3>1
    <3> QED
      BY <3>1, <3>2, <3>3, OneMore
  <2> HIDE DEF text, grid
  <2>4. last \in Run
    <3>1. /\ runs[n].style \in Styles /\ runs[n].at \in Nat
          /\ runs[n].cells \in Nat /\ runs[n].cells + x \in Nat
      BY <1>1, <1>t, <2>1
    <3>2. text \in Seq(Nat)
      BY <2>3 DEF Narrow
    <3> QED
      BY <2>3, <3>1, <3>2 DEF Run
  <2>5. /\ after \in Seq(Run) /\ Len(after) = n /\ after[n] = last
        /\ \A i \in 1..(n - 1) : after[i] = runs[i]
    <3> HIDE DEF last
    <3> QED
      BY <1>1, <2>1, <2>4
  <2> HIDE DEF after
  <2>6. ASSUME NEW i \in 1..n PROVE Offset(after, i) = Offset(runs, i)
    <3>1. i \in Nat /\ \A j \in 1..(i - 1) : after[j].cells = runs[j].cells
      BY <1>1, <2>5
    <3> QED
      BY <1>1, <2>5, <3>1, OffsetsAgree
  <2>7. Total(Counts(after, n)) = c - 1 + x
    <3>1. /\ Counts(after, n) = Append(Counts(after, n - 1), after[n].cells)
          /\ Counts(runs, n) = Append(Counts(runs, n - 1), runs[n].cells)
      BY <1>1, <2>1, <2>5, CountsGrow
    <3>2. Counts(after, n - 1) = Counts(runs, n - 1)
      BY <2>5 DEF Counts
    <3>3. Counts(runs, n - 1) \in Seq(Nat)
      BY <1>1, <2>1, CountsAre
    <3>4. after[n].cells = runs[n].cells + x /\ runs[n].cells \in Nat /\ after[n].cells \in Nat
      BY <1>1, <1>t, <2>1, <2>5
    <3>5. /\ Total(Counts(after, n)) = Total(Counts(runs, n - 1)) + after[n].cells
          /\ Total(Counts(runs, n)) = Total(Counts(runs, n - 1)) + runs[n].cells
      BY <3>1, <3>2, <3>3, <3>4, TotalGrows
    <3>6. Total(Counts(runs, n - 1)) \in Nat
      BY <3>3, TotalTyped
    <3> QED
      BY <1>1, <1>2, <3>4, <3>5, <3>6
  <2>8. ASSUME NEW i \in 1..n
        PROVE  /\ after[i].cells = Total(after[i].grid)
               /\ Narrow(after[i].text)
               /\ Offset(after, i) = after[i].at - 1
    <3>1. CASE i = n
      <4>1. /\ after[i].cells = runs[n].cells + x /\ after[i].text = text
            /\ after[i].grid = grid /\ after[i].at = runs[n].at
        BY <2>5, <3>1
      <4> QED
        BY <1>t, <2>1, <2>3, <2>6, <3>1, <4>1
    <3>2. CASE i # n
      <4>1. after[i] = runs[i]
        BY <1>1, <2>5, <3>2
      <4> QED
        BY <1>t, <2>6, <4>1
    <3> QED
      BY <3>1, <3>2
  <2>9. Aligned(after, c - 1 + x)
    BY <2>5, <2>7, <2>8 DEF Aligned
  <2> QED
    BY <2>2, <2>9
<1>4. CASE ~(runs # <<>> /\ Last(runs).style = row[c].style)
  <2> DEFINE last == [style |-> row[c].style, at |-> c, cells |-> x, text |-> <<y>>,
                      grid |-> <<x>>]
             after == Append(runs, last)
  <2>1. Join(runs, c) = after
    BY <1>4 DEF Join
  <2>2. last \in Run
    BY <1>1 DEF Run
  <2>3. /\ after \in Seq(Run) /\ Len(after) = n + 1 /\ after[n + 1] = last
        /\ \A i \in 1..n : after[i] = runs[i]
    <3> HIDE DEF last
    <3> QED
      BY <1>1, <2>2
  <2>4. last.cells = x /\ last.text = <<y>> /\ last.grid = <<x>> /\ last.at = c
    OBVIOUS
  <2> HIDE DEF after, last
  <2>5. Total(<<x>>) = x
    <3>1. <<x>> = Append(<<>>, x) /\ <<>> \in Seq(Nat)
      OBVIOUS
    <3>2. Total(Append(<<>>, x)) = Total(<<>>) + x
      BY <1>1, <3>1, TotalGrows
    <3> QED
      BY <1>1, <3>1, <3>2, TotalNone
  <2>6. ASSUME NEW i \in 1..n PROVE Offset(after, i) = Offset(runs, i)
    <3>1. i \in Nat /\ \A j \in 1..(i - 1) : after[j].cells = runs[j].cells
      BY <1>1, <2>3
    <3> QED
      BY <1>1, <2>3, <3>1, OffsetsAgree
  <2>7. Counts(after, n) = Counts(runs, n)
    BY <2>3 DEF Counts
  <2>8. Offset(after, n + 1) = c - 1
    <3>1. n + 1 - 1 = n
      BY <1>1
    <3>2. Offset(after, n + 1) = Total(Counts(after, n))
      BY <3>1 DEF Offset, Counts
    <3> QED
      BY <1>2, <2>7, <3>2
  <2>9. Total(Counts(after, n + 1)) = c - 1 + x
    <3>1. n + 1 \in 1..Len(after) /\ n + 1 - 1 = n
      BY <1>1, <2>3
    <3>2. Counts(after, n + 1) = Append(Counts(after, n), x)
      BY <2>3, <2>4, <3>1, CountsGrow
    <3>3. Counts(after, n) \in Seq(Nat)
      BY <1>1, <2>7, CountsAre
    <3> QED
      BY <1>1, <1>2, <2>7, <3>2, <3>3, TotalGrows
  <2>10. ASSUME NEW i \in 1..(n + 1)
         PROVE  /\ after[i].cells = Total(after[i].grid)
                /\ Narrow(after[i].text)
                /\ Offset(after, i) = after[i].at - 1
    <3>1. CASE i = n + 1
      <4>1. after[i].cells = x /\ after[i].text = <<y>> /\ after[i].grid = <<x>> /\ after[i].at = c
        BY <2>3, <2>4, <3>1
      <4>2. Narrow(<<y>>)
        BY DEF Narrow
      <4> QED
        BY <2>5, <2>8, <3>1, <4>1, <4>2
    <3>2. CASE i # n + 1
      <4>1. i \in 1..n
        BY <1>1, <3>2
      <4> QED
        BY <1>t, <2>3, <2>6, <4>1
    <3> QED
      BY <3>1, <3>2
  <2>11. Aligned(after, c - 1 + x)
    BY <2>3, <2>9, <2>10 DEF Aligned
  <2> QED
    BY <2>1, <2>11
<1> QED
  BY <1>3, <1>4

\* The halves of a wide glyph lie side by side; only in the last column is a
\* spacer without one.
GridCells == [glyph : Glyphs, style : Styles, measured : {1, 2}]
Halves(r) ==
  \A c \in 1..Len(r) :
    /\ r[c].glyph = "wide" => c < Len(r) /\ r[c + 1].glyph = "spacer"
    /\ r[c].glyph = "spacer" => c = Len(r) \/ (c > 1 /\ r[c - 1].glyph = "wide")
GridInv == GridTypeOK /\ Len(row) \in Nat \ {0, 1} /\ Halves(row)

\* Does writing column c leave column i blank?
Splits(r, c, i) ==
  \/ i = c + 1 /\ r[c].glyph = "wide"
  \/ i = c - 1 /\ r[c].glyph = "spacer" /\ r[i].glyph = "wide"

\* What is left of a row around a column that is written.
LEMMA Clears ==
  ASSUME NEW r \in Seq(GridCells), NEW c \in 1..Len(r)
  PROVE  /\ Cleared(r, c) \in Seq(GridCells) /\ Len(Cleared(r, c)) = Len(r)
         /\ \A i \in 1..Len(r) :
              Cleared(r, c)[i].glyph = IF Splits(r, c, i) THEN "blank" ELSE r[i].glyph
<1>1. Blank \in GridCells /\ Blank.glyph = "blank"
  BY DEF Blank, Cell, GridCells, Glyphs, Styles
<1>2. \A i \in 1..Len(r) : r[i] \in GridCells
  OBVIOUS
<1>3. Cleared(r, c) = [i \in 1..Len(r) |-> IF Splits(r, c, i) THEN Blank ELSE r[i]]
  BY DEF Cleared, Splits
<1>4. Len(r) \in Nat
  OBVIOUS
<1> HIDE DEF Splits, Blank
<1>5. \A i \in 1..Len(r) : (IF Splits(r, c, i) THEN Blank ELSE r[i]) \in GridCells
  BY <1>1, <1>2
<1>6. Cleared(r, c) \in Seq(GridCells) /\ Len(Cleared(r, c)) = Len(r)
  BY <1>3, <1>4, <1>5
<1> QED
  BY <1>1, <1>3, <1>6

\* Writing a glyph of one cell keeps the halves together.
LEMMA PutKeeps ==
  ASSUME GridInv, NEW glyph \in Glyphs \ {"wide"}, NEW style \in Styles, NEW measured \in {1, 2},
         glyph = "spacer" => cursor = Cols, PutGlyph(glyph, style, measured)
  PROVE  GridInv'
<1> DEFINE r == Cleared(row, cursor)
           n == Len(row)
<1>1. row \in Seq(GridCells) /\ cursor \in 1..n /\ n \in Nat \ {0, 1} /\ Halves(row)
  BY DEF GridInv, GridTypeOK, GridCells, Cols
<1>2. /\ r \in Seq(GridCells) /\ Len(r) = n
      /\ \A i \in 1..n : r[i].glyph = IF Splits(row, cursor, i) THEN "blank" ELSE row[i].glyph
  BY <1>1, Clears
<1>3. row' = [r EXCEPT ![cursor] = Cell(glyph, style, measured)]
  BY DEF PutGlyph
<1>4. Cell(glyph, style, measured) \in GridCells /\ Cell(glyph, style, measured).glyph = glyph
  BY DEF Cell, GridCells
<1> HIDE DEF r
<1>5. /\ row' \in Seq(GridCells) /\ Len(row') = n
      /\ row'[cursor].glyph = glyph
      /\ \A i \in 1..n : i # cursor =>
           row'[i].glyph = IF Splits(row, cursor, i) THEN "blank" ELSE row[i].glyph
  <2>1. /\ row' \in Seq(GridCells) /\ Len(row') = n /\ row'[cursor] = Cell(glyph, style, measured)
        /\ \A i \in 1..n : i # cursor => row'[i] = r[i]
    BY <1>1, <1>2, <1>3, <1>4
  <2> QED
    BY <1>2, <1>4, <2>1
<1>6. cursor' \in 1..n
  BY <1>1 DEF PutGlyph, Cols
<1>7. Halves(row')
  <2> SUFFICES ASSUME NEW c \in 1..n
               PROVE  /\ row'[c].glyph = "wide" => c < n /\ row'[c + 1].glyph = "spacer"
                      /\ row'[c].glyph = "spacer" => c = n \/ (c > 1 /\ row'[c - 1].glyph = "wide")
    BY <1>5 DEF Halves
  <2>1. /\ row[c].glyph = "wide" => c < n /\ row[c + 1].glyph = "spacer"
        /\ row[c].glyph = "spacer" => c = n \/ (c > 1 /\ row[c - 1].glyph = "wide")
        /\ row[cursor].glyph = "wide" => cursor < n /\ row[cursor + 1].glyph = "spacer"
        /\ row[cursor].glyph = "spacer" =>
             cursor = n \/ (cursor > 1 /\ row[cursor - 1].glyph = "wide")
    BY <1>1 DEF Halves
  <2>2. CASE c = cursor
    <3>1. glyph # "wide" /\ (glyph = "spacer" => c = n)
      BY <2>2 DEF Cols
    <3> QED
      BY <1>5, <2>2, <3>1
  <2>3. CASE c # cursor
    <3>1. ASSUME row'[c].glyph = "wide" PROVE c < n /\ row'[c + 1].glyph = "spacer"
      <4>1. row[c].glyph = "wide" /\ ~Splits(row, cursor, c)
        BY <1>5, <2>3, <3>1
      <4>2. c < n /\ row[c + 1].glyph = "spacer" /\ c + 1 \in 1..n
        BY <1>1, <2>1, <4>1
      <4>3. c + 1 # cursor
        BY <1>1, <4>1, <4>2 DEF Splits
      <4>4. ~Splits(row, cursor, c + 1)
        BY <1>1, <2>3, <4>2 DEF Splits
      <4> QED
        BY <1>5, <4>2, <4>3, <4>4
    <3>2. ASSUME row'[c].glyph = "spacer" PROVE c = n \/ (c > 1 /\ row'[c - 1].glyph = "wide")
      <4>1. row[c].glyph = "spacer" /\ ~Splits(row, cursor, c)
        BY <1>5, <2>3, <3>2
      <4>2. CASE c = n
        BY <4>2
      <4>3. CASE c # n
        <5>1. c > 1 /\ row[c - 1].glyph = "wide" /\ c - 1 \in 1..n
          BY <1>1, <2>1, <4>1, <4>3
        <5>2. c - 1 # cursor
          BY <1>1, <4>1, <5>1 DEF Splits
        <5>3. ~Splits(row, cursor, c - 1)
          <6>1. row[c].glyph = "spacer" /\ c # cursor
            BY <2>3, <4>1
          <6>2. ~(c - 1 = cursor + 1 /\ row[cursor].glyph = "wide")
            BY <1>1, <2>1, <5>1
          <6>3. ~(c - 1 = cursor - 1)
            BY <1>1, <6>1
          <6> QED
            BY <6>2, <6>3 DEF Splits
        <5> QED
          BY <1>5, <5>1, <5>2, <5>3
      <4> QED
        BY <4>2, <4>3
    <3> QED
      BY <3>1, <3>2
  <2> QED
    BY <2>2, <2>3
<1> QED
  BY <1>1, <1>5, <1>6, <1>7 DEF GridInv, GridTypeOK, GridCells, Cols

\* So does a wide one.
LEMMA WideKeeps ==
  ASSUME GridInv, NEW style \in Styles, NEW measured \in {1, 2}, cursor # Cols,
         PutWide(style, measured)
  PROVE  GridInv'
<1> DEFINE q == Cleared(row, cursor + 1)
           r == Cleared(q, cursor)
           n == Len(row)
<1>1. row \in Seq(GridCells) /\ cursor \in 1..n /\ n \in Nat \ {0, 1} /\ Halves(row)
  BY DEF GridInv, GridTypeOK, GridCells, Cols
<1>c. cursor + 1 \in 1..n
  BY <1>1 DEF Cols
<1>2. /\ q \in Seq(GridCells) /\ Len(q) = n
      /\ \A i \in 1..n : q[i].glyph = IF Splits(row, cursor + 1, i) THEN "blank" ELSE row[i].glyph
  BY <1>1, <1>c, Clears
<1> HIDE DEF q
<1>3. /\ r \in Seq(GridCells) /\ Len(r) = n
      /\ \A i \in 1..n : r[i].glyph = IF Splits(q, cursor, i) THEN "blank" ELSE q[i].glyph
  BY <1>1, <1>2, Clears
<1>4. /\ row' = [r EXCEPT ![cursor] = Cell("wide", style, measured),
                          ![cursor + 1] = Cell("spacer", style, 1)]
      /\ cursor' = IF cursor + 2 <= n THEN cursor + 2 ELSE n
  BY DEF PutWide, q, Cols
<1>5. /\ Cell("wide", style, measured) \in GridCells /\ Cell("wide", style, measured).glyph = "wide"
      /\ Cell("spacer", style, 1) \in GridCells /\ Cell("spacer", style, 1).glyph = "spacer"
  BY DEF Cell, GridCells, Glyphs
<1> HIDE DEF r
<1>6. /\ row' \in Seq(GridCells) /\ Len(row') = n
      /\ row'[cursor].glyph = "wide" /\ row'[cursor + 1].glyph = "spacer"
      /\ \A i \in 1..n : i # cursor /\ i # cursor + 1 => row'[i].glyph = r[i].glyph
  <2>1. /\ row' \in Seq(GridCells) /\ Len(row') = n /\ row'[cursor] = Cell("wide", style, measured)
        /\ row'[cursor + 1] = Cell("spacer", style, 1)
        /\ \A i \in 1..n : i # cursor /\ i # cursor + 1 => row'[i] = r[i]
    BY <1>1, <1>c, <1>3, <1>4, <1>5
  <2> QED
    BY <1>5, <2>1
<1>7. cursor' \in 1..n
  BY <1>1, <1>4
<1>8. ASSUME NEW i \in 1..n, i # cursor, i # cursor + 1
      PROVE  row'[i].glyph =
               IF \/ i = cursor - 1 /\ row[cursor].glyph = "spacer" /\ row[i].glyph = "wide"
                  \/ i = cursor + 2 /\ row[cursor + 1].glyph = "wide"
               THEN "blank" ELSE row[i].glyph
  <2>1. q[i].glyph = IF i = cursor + 2 /\ row[cursor + 1].glyph = "wide"
                     THEN "blank" ELSE row[i].glyph
    <3>1. Splits(row, cursor + 1, i) <=> i = cursor + 2 /\ row[cursor + 1].glyph = "wide"
      BY <1>1, <1>8 DEF Splits
    <3> QED
      BY <1>2, <3>1
  <2>2. q[cursor].glyph = "spacer" <=> row[cursor].glyph = "spacer"
    BY <1>1, <1>2 DEF Splits
  <2>3. r[i].glyph = IF i = cursor - 1 /\ row[cursor].glyph = "spacer" /\ q[i].glyph = "wide"
                     THEN "blank" ELSE q[i].glyph
    <3>1. Splits(q, cursor, i) <=>
            i = cursor - 1 /\ row[cursor].glyph = "spacer" /\ q[i].glyph = "wide"
      BY <1>1, <1>8, <2>2 DEF Splits
    <3> QED
      BY <1>3, <3>1
  <2>4. row'[i].glyph = r[i].glyph
    BY <1>6, <1>8
  <2> QED
    BY <1>1, <2>1, <2>3, <2>4
<1>9. Halves(row')
  <2> SUFFICES ASSUME NEW c \in 1..n
               PROVE  /\ row'[c].glyph = "wide" => c < n /\ row'[c + 1].glyph = "spacer"
                      /\ row'[c].glyph = "spacer" => c = n \/ (c > 1 /\ row'[c - 1].glyph = "wide")
    BY <1>6 DEF Halves
  <2>1. CASE c = cursor \/ c = cursor + 1
    BY <1>1, <1>c, <1>6, <2>1
  <2>2. CASE c # cursor /\ c # cursor + 1
    <3>1. ASSUME row'[c].glyph = "wide" PROVE c < n /\ row'[c + 1].glyph = "spacer"
      <4>1. /\ row[c].glyph = "wide"
            /\ ~(c = cursor - 1 /\ row[cursor].glyph = "spacer")
        BY <1>8, <2>2, <3>1
      <4>2. c < n /\ row[c + 1].glyph = "spacer" /\ c + 1 \in 1..n
        BY <1>1, <4>1 DEF Halves
      <4>3. c + 1 # cursor /\ c + 1 # cursor + 1 /\ c + 1 # cursor + 2
        BY <1>1, <2>2, <4>1, <4>2
      <4>4. c + 1 # cursor - 1 \/ row[c + 1].glyph # "wide"
        BY <4>2
      <4> QED
        BY <1>8, <4>2, <4>3, <4>4
    <3>2. ASSUME row'[c].glyph = "spacer" PROVE c = n \/ (c > 1 /\ row'[c - 1].glyph = "wide")
      <4>1. row[c].glyph = "spacer"
        BY <1>8, <2>2, <3>2
      <4>2. CASE c = n
        BY <4>2
      <4>3. CASE c # n
        <5>1. c > 1 /\ row[c - 1].glyph = "wide" /\ c - 1 \in 1..n
          BY <1>1, <4>1, <4>3 DEF Halves
        <5>2. c - 1 # cursor /\ c - 1 # cursor - 1
          BY <1>1, <2>2
        <5>3. c - 1 # cursor + 1
          <6>1. ASSUME c - 1 = cursor + 1 PROVE FALSE
            <7>1. c = cursor + 2 /\ row[cursor + 1].glyph = "wide"
              BY <1>1, <5>1, <6>1
            <7>2. row'[c].glyph = "blank"
              BY <1>8, <2>2, <7>1
            <7> QED
              BY <3>2, <7>2
          <6> QED
            BY <6>1
        <5>4. c - 1 # cursor + 2 \/ row[cursor + 1].glyph # "wide"
          <6>1. ASSUME c - 1 = cursor + 2, row[cursor + 1].glyph = "wide" PROVE FALSE
            <7>1. row[cursor + 2].glyph = "spacer"
              BY <1>1, <1>c, <6>1 DEF Halves
            <7> QED
              BY <1>1, <5>1, <6>1, <7>1
          <6> QED
            BY <6>1
        <5> QED
          BY <1>8, <5>1, <5>2, <5>3, <5>4
      <4> QED
        BY <4>2, <4>3
    <3> QED
      BY <3>1, <3>2
  <2> QED
    BY <2>1, <2>2
<1> QED
  BY <1>1, <1>6, <1>7, <1>9 DEF GridInv, GridTypeOK, GridCells, Cols

\* An empty screen, and every step of the emulator.
LEMMA GridStarts == GridInit => GridInv
<1> SUFFICES ASSUME GridInit PROVE GridInv
  OBVIOUS
<1>1. PICK asked \in Widths : row = [c \in 1..(IF asked < 2 THEN 2 ELSE asked) |-> Blank]
  BY DEF GridInit
<1> DEFINE n == IF asked < 2 THEN 2 ELSE asked
<1>2. n \in Nat \ {0, 1}
  BY ScreenAssumption
<1>3. Blank \in GridCells /\ Blank.glyph = "blank"
  BY DEF Blank, Cell, GridCells, Glyphs, Styles
<1> HIDE DEF n
<1>4. row \in Seq(GridCells) /\ Len(row) = n /\ \A c \in 1..n : row[c] = Blank
  BY <1>1, <1>2, <1>3 DEF n
<1>5. cursor \in 1..n
  BY <1>2 DEF GridInit
<1>6. Halves(row)
  BY <1>3, <1>4 DEF Halves
<1> QED
  BY <1>2, <1>4, <1>5, <1>6 DEF GridInv, GridTypeOK, GridCells, Cols

LEMMA GridKeeps == GridInv /\ [GridNext]_rowVars => GridInv'
<1> SUFFICES ASSUME GridInv, [GridNext]_rowVars PROVE GridInv'
  OBVIOUS
<1>1. CASE UNCHANGED rowVars
  BY <1>1 DEF rowVars, GridInv, GridTypeOK, Cols, Halves
<1>2. CASE MoveCursor
  BY <1>2 DEF MoveCursor, GridInv, GridTypeOK, Cols, Halves
<1>3. ASSUME NEW style \in Styles, NEW measured \in {1, 2}, PutWide(style, measured) PROVE GridInv'
  <2>1. CASE cursor = Cols
    <3>1. PutGlyph("spacer", "plain", 1)
      BY <1>3, <2>1 DEF PutWide
    <3> QED
      BY <2>1, <3>1, PutKeeps DEF Glyphs, Styles
  <2>2. CASE cursor # Cols
    BY <1>3, <2>2, WideKeeps
  <2> QED
    BY <2>1, <2>2
<1>4. ASSUME NEW style \in Styles, NEW measured \in {1, 2}, NEW glyph \in {"blank", "narrow"},
             PutGlyph(glyph, style, measured)
      PROVE  GridInv'
  BY <1>4, PutKeeps DEF Glyphs
<1> QED
  BY <1>1, <1>2, <1>3, <1>4 DEF GridNext, Output

\* Whatever a program prints and wherever it moves the cursor, a wide glyph has
\* both its cells (the emulator below screen.rs).
THEOREM GridTyped == GridSpec => []GridInv
<1> QED
  BY GridStarts, GridKeeps, PTL DEF GridSpec

\* The last glyph worth drawing is no spacer.
LEMMA LastIs ==
  ASSUME Cols \in Nat
  PROVE  LastContent \in 0..Cols /\ (LastContent # 0 => row[LastContent].glyph # "spacer")
<1>1. CASE Content = {}
  BY <1>1 DEF LastContent
<1>2. CASE Content # {}
  <2> DEFINE T == {Cols - c : c \in Content}
  <2>1. Content \subseteq 1..Cols
    BY DEF Content
  <2>2. T \in SUBSET Nat /\ T # {}
    <3>1. \A c \in Content : Cols - c \in Nat
      BY <2>1
    <3>2. T \in SUBSET Nat
      BY <3>1
    <3> QED
      BY <1>2, <3>2
  <2>3. PICK t \in T : \A u \in T : t <= u
    <3> HIDE DEF T
    <3> QED
      BY <2>2, Least
  <2>4. PICK c \in Content : t = Cols - c
    BY <2>3
  <2>5. \A d \in Content : d <= c
    <3>1. \A d \in Content : Cols - c <= Cols - d
      BY <2>3, <2>4
    <3> QED
      BY <2>1, <3>1
  <2>6. LastContent \in Content
    BY <1>2, <2>5 DEF LastContent
  <2> QED
    BY <2>1, <2>6 DEF Content
<1> QED
  BY <1>1, <1>2

\* The cells of the first c columns, the second half of a wide glyph included.
Covered(c) == IF c # 0 /\ row[c].glyph = "wide" THEN c + 1 ELSE c

\* Column by column, the runs take the cells that the row has given.
LEMMA RunsAligned ==
  ASSUME GridInv
  PROVE  \A c \in 0..LastContent : Aligned(RunsUpTo[c], Covered(c))
<1> DEFINE last == LastContent
           T == {c \in 0..last : Aligned(RunsUpTo[c], Covered(c))}
<1>1. /\ Cols = Len(row) /\ Cols \in Nat /\ last \in 0..Cols /\ last \in Nat
      /\ last # 0 => row[last].glyph # "spacer"
  BY LastIs DEF GridInv, Cols
<1> HIDE DEF last
<1>2. /\ \A c \in 1..Cols : row[c].style \in Styles /\ row[c].measured \in {1, 2}
      /\ \A c \in 1..Cols :
           /\ row[c].glyph = "wide" => c < Cols /\ row[c + 1].glyph = "spacer"
           /\ row[c].glyph = "spacer" => c = Cols \/ (c > 1 /\ row[c - 1].glyph = "wide")
  <2>1. \A c \in 1..Len(row) : row[c] \in GridCells
    <3>1. row \in Seq(GridCells)
      BY DEF GridInv, GridTypeOK, GridCells
    <3> QED
      BY <3>1
  <2> QED
    BY <1>1, <2>1 DEF GridInv, Halves, GridCells
<1>3. /\ RunsUpTo[0] = <<>>
      /\ \A c \in 1..Cols :
           RunsUpTo[c] = IF row[c].glyph = "spacer" THEN RunsUpTo[c - 1]
                         ELSE Join(RunsUpTo[c - 1], c)
  BY <1>1, RunsAre
<1>4. 0 \in T
  <2>1. Aligned(<<>>, 0)
    <3>1. Counts(<<>>, 0) = <<>>
      BY DEF Counts
    <3>2. <<>> \in Seq(Run) /\ Len(<<>>) = 0
      OBVIOUS
    <3> QED
      BY <3>1, <3>2, TotalNone DEF Aligned
  <2>2. Covered(0) = 0 /\ 0 \in 0..last
    BY <1>1 DEF Covered
  <2> QED
    BY <1>3, <2>1, <2>2
<1>5. ASSUME NEW k \in 0..(last - 1), k \in T PROVE k + 1 \in T
  <2>1. k \in Nat /\ k + 1 \in 1..Cols /\ k + 1 \in 0..last /\ k + 1 - 1 = k /\ k + 1 # 0
    BY <1>1
  <2>2. Aligned(RunsUpTo[k], Covered(k))
    BY <1>5
  <2>3. CASE row[k + 1].glyph = "spacer"
    <3>1. RunsUpTo[k + 1] = RunsUpTo[k]
      <4>1. RunsUpTo[k + 1] = RunsUpTo[k + 1 - 1]
        BY <1>3, <2>1, <2>3
      <4> QED
        BY <2>1, <4>1
    <3>2. k + 1 # Cols
      BY <1>1, <2>1, <2>3
    <3>3. k + 1 > 1 /\ row[k + 1 - 1].glyph = "wide"
      BY <1>2, <2>1, <2>3, <3>2
    <3>4. k # 0 /\ row[k].glyph = "wide"
      BY <2>1, <3>3
    <3>5. Covered(k + 1) = k + 1 /\ Covered(k) = k + 1
      BY <2>3, <3>4 DEF Covered
    <3> QED
      BY <2>1, <2>2, <3>1, <3>5
  <2>4. CASE row[k + 1].glyph # "spacer"
    <3>1. RunsUpTo[k + 1] = Join(RunsUpTo[k], k + 1)
      <4>1. RunsUpTo[k + 1] = Join(RunsUpTo[k + 1 - 1], k + 1)
        BY <1>3, <2>1, <2>4
      <4> QED
        BY <2>1, <4>1
    <3>2. Covered(k) = k
      <4>1. ASSUME k # 0, row[k].glyph = "wide" PROVE FALSE
        <5>1. k \in 1..Cols
          BY <1>1, <2>1, <4>1
        <5> QED
          BY <1>2, <2>4, <4>1, <5>1
      <4> QED
        BY <4>1 DEF Covered
    <3>3. Covered(k + 1) = k + Cells(row[k + 1])
      BY <2>1 DEF Covered, Cells
    <3>4. Aligned(RunsUpTo[k], k + 1 - 1)
      BY <2>1, <2>2, <3>2
    <3>5. Aligned(Join(RunsUpTo[k], k + 1), k + 1 - 1 + Cells(row[k + 1]))
      BY <1>1, <1>2, <2>1, <3>4, JoinAligns
    <3>6. Aligned(Join(RunsUpTo[k], k + 1), Covered(k + 1))
      BY <2>1, <3>3, <3>5
    <3> QED
      BY <2>1, <3>1, <3>6
  <2> QED
    BY <2>3, <2>4
<1> HIDE DEF T
<1>6. \A k \in 0..last : k \in T
  BY <1>1, <1>4, <1>5, Climb
<1> QED
  BY <1>6 DEF T, last

\* The widths of the lines of a box.
LEMMA LinesAreEven ==
  ASSUME Cols \in Nat, Cols > 2, NEW runs, NEW cells \in 0..Cols, Aligned(runs, cells),
         cursor \in 1..Cols, Measured(runs) = InGrid(runs),
         \A i \in 1..Len(runs) : UnderCursor(runs, i) =>
           \A k \in 1..Len(runs[i].text) :
             runs[i].text[k] = 2 =>
               Offset(runs, i) + Total(SubSeq(runs[i].text, 1, k - 1)) = cursor - 1,
         NEW label \in Labels
  PROVE  BoxWidth(label) = ContentWidth(runs)
<1> DEFINE n == Len(runs)
<1>1. /\ runs \in Seq(Run) /\ n \in Nat
      /\ \A i \in 1..n : runs[i] \in Run
  BY DEF Aligned
<1>2. \A i \in 1..n :
        /\ runs[i].cells \in Nat /\ runs[i].text \in Seq(Nat) /\ runs[i].cells = Total(runs[i].grid)
        /\ \A k \in 1..Len(runs[i].text) : runs[i].text[k] \in {1, 2}
        /\ Offset(runs, i) = runs[i].at - 1 /\ runs[i].at \in Nat
  BY <1>1 DEF Aligned, Run, Narrow
<1>m. \A i \in 1..n : runs[i].text = runs[i].grid
  <2>1. \A i \in 1..n : Measured(runs)[i] = runs[i].text /\ InGrid(runs)[i] = runs[i].grid
    BY DEF Measured, InGrid
  <2> QED
    BY <2>1
<1>3. ASSUME NEW i \in 1..n, UnderCursor(runs, i)
      PROVE  Overlaid(runs[i].text, runs[i].text, cursor - 1 - Offset(runs, i)) = runs[i].cells
  <2> DEFINE text == runs[i].text
             col == cursor - 1 - Offset(runs, i)
             shown(k) == (IF Total(SubSeq(text, 1, k - 1)) = col THEN 1 ELSE text[k]) + text[k] - 1
  <2>1. /\ text \in Seq(Nat) /\ Offset(runs, i) \in Int /\ cursor \in Int
        /\ \A k \in 1..Len(text) : text[k] \in {1, 2}
    BY <1>2
  <2>2. ASSUME NEW k \in 1..Len(text) PROVE shown(k) = text[k]
    <3>1. CASE text[k] = 1
      BY <3>1
    <3>2. CASE text[k] = 2
      <4>1. Offset(runs, i) + Total(SubSeq(text, 1, k - 1)) = cursor - 1
        BY <1>3, <3>2
      <4>2. SubSeq(text, 1, k - 1) \in Seq(Nat)
        <5> HIDE DEF text
        <5>1. Len(text) \in Nat /\ 1 \in Nat /\ k - 1 \in 0..Len(text)
          BY <2>1
        <5> QED
          BY <2>1, <5>1
      <4>3. Total(SubSeq(text, 1, k - 1)) \in Nat
        BY <4>2, TotalTyped
      <4>4. Total(SubSeq(text, 1, k - 1)) = col
        BY <2>1, <4>1, <4>3
      <4> QED
        BY <3>2, <4>4
    <3> QED
      BY <2>1, <3>1, <3>2
  <2>3. text = [k \in 1..Len(text) |-> text[k]]
    BY <2>1
  <2> HIDE DEF text, col
  <2>4. [k \in 1..Len(text) |-> shown(k)] = text
    <3> HIDE DEF shown
    <3> QED
      BY <2>2, <2>3
  <2>5. Overlaid(text, text, col) = Total([k \in 1..Len(text) |-> shown(k)])
    BY DEF Overlaid
  <2>6. Overlaid(text, text, col) = Total(text)
    BY <2>4, <2>5
  <2> QED
    BY <1>2, <1>m, <2>6 DEF text, col
<1>4. LineWidth(runs, Measured(runs)) = cells
  <2> DEFINE width(i) == IF UnderCursor(runs, i)
                         THEN Overlaid(runs[i].text, Measured(runs)[i], cursor - 1 - Offset(runs, i))
                         ELSE Total(Measured(runs)[i])
  <2>1. \A i \in 1..n : width(i) = runs[i].cells
    <3>1. \A i \in 1..n : Measured(runs)[i] = runs[i].text
      BY DEF Measured
    <3> QED
      BY <1>2, <1>3, <1>m, <3>1
  <2>2. LineWidth(runs, Measured(runs)) = Total([i \in 1..n |-> width(i)])
    BY DEF LineWidth
  <2> HIDE DEF width
  <2>3. [i \in 1..n |-> width(i)] = Counts(runs, n)
    BY <2>1 DEF Counts
  <2> QED
    BY <2>2, <2>3 DEF Aligned
<1>5. ContentWidth(runs) = Cols + 3
  <2>1. LineWidth(runs, InGrid(runs)) = cells /\ cells \in Nat /\ cells <= Cols
    BY <1>4
  <2> QED
    BY <1>4, <2>1 DEF ContentWidth
<1>6. BoxWidth(label) = Cols + 3
  <2> DEFINE budget == Cols - 2
             shown == Cut(label, budget)
  <2>1. label \in Nat /\ budget \in Nat \ {0}
    BY ScreenAssumption
  <2>2. shown \in Nat /\ shown <= budget
    BY <2>1 DEF Cut
  <2>3. BoxWidth(label) = 5 + shown + (IF budget < shown THEN 0 ELSE budget - shown)
    BY DEF BoxWidth
  <2> HIDE DEF shown
  <2> QED
    BY <2>2, <2>3
<1> QED
  BY <1>5, <1>6

\* Runs are drawn where the grid has them and the box is even, in a screen of
\* any width and with labels of any length (screen.rs styled_line, render_ascii,
\* render_svg).
THEOREM FrameIsAligned == GridSpec => []FrameAligned
<1>1. GridInv => FrameAligned
  <2> SUFFICES ASSUME GridInv PROVE FrameAligned
    OBVIOUS
  <2> DEFINE runs == StyledRuns
             last == LastContent
  <2>1. Cols = Len(row) /\ Cols \in Nat /\ cursor \in 1..Cols /\ last \in 0..Cols
    BY LastIs DEF GridInv, GridTypeOK, Cols
  <2>2. Aligned(runs, Covered(last))
    BY <2>1, RunsAligned DEF StyledRuns
  <2>3. Covered(last) \in 0..Cols
    <3>1. ASSUME last # 0, row[last].glyph = "wide" PROVE last + 1 \in 0..Cols
      BY <2>1, <3>1 DEF GridInv, Halves
    <3> QED
      BY <2>1, <3>1 DEF Covered
  <2> HIDE DEF runs, last
  <2>4. \A i \in 1..Len(runs) : Offset(runs, i) = runs[i].at - 1
    BY <2>2 DEF Aligned
  <2>5. ASSUME Cols > 2, Measured(runs) = InGrid(runs),
               \A i \in 1..Len(runs) : UnderCursor(runs, i) =>
                 \A k \in 1..Len(runs[i].text) :
                   runs[i].text[k] = 2 =>
                     Offset(runs, i) + Total(SubSeq(runs[i].text, 1, k - 1)) = cursor - 1,
               NEW label \in Labels
        PROVE  BoxWidth(label) = ContentWidth(runs)
    BY <2>1, <2>2, <2>3, <2>5, LinesAreEven
  <2> QED
    BY <2>4, <2>5 DEF FrameAligned, runs
<1> QED
  BY <1>1, GridTyped, PTL

=============================================================================
