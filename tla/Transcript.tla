----------------------------- MODULE Transcript -----------------------------
(***************************************************************************)
(* What a session store promises of one session: its messages, in order,   *)
(* and the ones its clients count on, both of which change only by what a  *)
(* client asks for.  Whether the messages are in the database or in an     *)
(* archive file does not show.                                             *)
(***************************************************************************)
EXTENDS Integers, Sequences

CONSTANTS NoSession, Messages

VARIABLES transcript,  \* the messages, or NoSession
          kept         \* messages appended and not taken back

Init == transcript = NoSession /\ kept = {}

Create == transcript = NoSession /\ transcript' = <<>> /\ UNCHANGED kept

Add(m) ==
  /\ transcript' = (IF transcript = NoSession THEN <<>> ELSE transcript) \o <<m>>
  /\ kept' = kept \cup {m}

\* The tail after the first n messages is taken back.
Cut(n) ==
  /\ transcript' = SubSeq(transcript, 1, n)
  /\ kept' = kept \ {transcript[i] : i \in n + 1..Len(transcript)}

Remove == transcript # NoSession /\ transcript' = NoSession /\ kept' = {}

Next ==
  \/ Create
  \/ \E m \in Messages : Add(m)
  \/ transcript # NoSession /\ \E n \in 0..Len(transcript) - 1 : Cut(n)
  \/ Remove

Spec == Init /\ [][Next]_<<transcript, kept>>
=============================================================================
