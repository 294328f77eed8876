----------------------------- MODULE Compaction -----------------------------
(***************************************************************************)
(* The char-budget compaction of a conversation (agent-loop, compaction/). *)
(* A message is its kind, and the ids of the tool calls it makes ("call")  *)
(* or answers ("results"); its text is abstracted to a size per kind.  The *)
(* summarizer, another model call, is the environment's: the caller passes *)
(* whether it succeeded.                                                   *)
(***************************************************************************)
EXTENDS Integers, Sequences, FiniteSetsExt

CONSTANTS SizeOf,        \* size of a message of each kind (message_chars)
          SystemChars,   \* size of the system prompt
          Budget,        \* RegionBudget.total_chars
          KeepChars,     \* RegionBudget.keep_recent_chars
          KeepMin        \* RegionBudget.keep_recent_min

Kinds == {"user", "text", "call", "results", "summary"}

\* The messages the loop records: user input, an assistant's text, an
\* assistant's tool calls, their results.
User == [kind |-> "user", ids |-> {}]
Text == [kind |-> "text", ids |-> {}]
Summary == [kind |-> "summary", ids |-> {}]
CallsMsg(ids) == [kind |-> "call", ids |-> ids]
ResultsMsg(ids) == [kind |-> "results", ids |-> ids]

CharsFrom(msgs, i) ==
  MapThenSumSet(LAMBDA j : SizeOf[msgs[j].kind], i..Len(msgs))

\* recent_window_cut: the first message of the recent window (the code's index
\* plus one), which takes messages from the newest as long as they fit.
WindowCut(msgs) ==
  LET fits(j) == Len(msgs) - j < KeepMin \/ CharsFrom(msgs, j) <= KeepChars
  IN  CHOOSE i \in 1..Len(msgs) + 1 :
        /\ \A j \in i..Len(msgs) : fits(j)
        /\ i = 1 \/ ~fits(i - 1)

\* is_balanced_at: no result in the kept window answers a call before it.
BalancedAt(msgs, i) ==
  \A k \in i..Len(msgs), j \in 1..i - 1 :
    msgs[k].kind = "results" /\ msgs[j].kind = "call" => msgs[k].ids \cap msgs[j].ids = {}

\* Mutant: a cut that is balanced is passed over.
CutPastBalanced(msgs) ==
  CHOOSE i \in WindowCut(msgs)..Len(msgs) + 1 :
    /\ i = Len(msgs) + 1 \/ (i > WindowCut(msgs) /\ BalancedAt(msgs, i))
    /\ \A j \in WindowCut(msgs) + 1..i - 1 : ~BalancedAt(msgs, j)

\* advance_to_balanced, from the window's cut.
Cut(msgs) ==
  CHOOSE i \in WindowCut(msgs)..Len(msgs) + 1 :
    /\ BalancedAt(msgs, i)
    /\ \A j \in WindowCut(msgs)..i - 1 : ~BalancedAt(msgs, j)

\* compact_with, up to the summarizer: is there a prefix worth a summary?
Compactable(msgs) ==
  /\ SystemChars + CharsFrom(msgs, 1) >= Budget
  /\ Cut(msgs) > 1
  /\ SystemChars + CharsFrom(msgs, Cut(msgs)) < Budget

\* compact_with: the summary in place of the prefix.
Compacted(msgs) == <<Summary>> \o SubSeq(msgs, Cut(msgs), Len(msgs))
=============================================================================
