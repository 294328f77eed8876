----------------------------- MODULE ScreenFrame -----------------------------
(***************************************************************************)
(* What the screen layer of a terminal makes of one row of the emulator's  *)
(* grid: runs of equally styled cells, and from them the line of the ASCII *)
(* box and the columns of the SVG.  A wide glyph takes two cells of the    *)
(* grid, of which the second is a spacer; of a label, only its width       *)
(* matters.  The grid knows a glyph's cells exactly; char_cells judges     *)
(* them by ranges of code points and misjudges some (an old emoji that is  *)
(* narrow, a clock face that is wide).  A cell holds one character here:   *)
(* combining marks are left out.  The emulator is external: a program      *)
(* prints at the cursor and moves it.                                      *)
(***************************************************************************)
EXTENDS Integers, Sequences, SequencesExt

CONSTANTS
  Widths,  \* numbers of columns a screen may be asked for
  Labels   \* widths of the labels of a box

ASSUME ScreenAssumption == Widths \subseteq Nat /\ Labels \subseteq Nat

VARIABLES row, cursor

rowVars == <<row, cursor>>

Glyphs == {"blank", "narrow", "wide", "spacer"}
Styles == {"plain", "filled"}
\* "measured" is what char_cells makes of the character.
Cell(glyph, style, measured) == [glyph |-> glyph, style |-> style, measured |-> measured]
Blank == Cell("blank", "plain", 1)

Cols == Len(row)

GridTypeOK ==
  /\ row \in Seq([glyph : Glyphs, style : Styles, measured : {1, 2}])
  /\ cursor \in 1..Cols

\* Screen::new: at least two columns.
GridInit ==
  /\ \E asked \in Widths : row = [c \in 1..(IF asked < 2 THEN 2 ELSE asked) |-> Blank]
  /\ cursor = 1

-----------------------------------------------------------------------------
(* The emulator.                                                           *)

\* Writing over one half of a wide glyph blanks the other.
Cleared(r, c) ==
  [i \in 1..Len(r) |->
     IF \/ i = c + 1 /\ r[c].glyph = "wide"
        \/ i = c - 1 /\ r[c].glyph = "spacer" /\ r[i].glyph = "wide"
     THEN Blank ELSE r[i]]

PutGlyph(glyph, style, measured) ==
  /\ row' = [Cleared(row, cursor) EXCEPT ![cursor] = Cell(glyph, style, measured)]
  /\ cursor' = IF cursor < Cols THEN cursor + 1 ELSE cursor

\* A wide glyph that does not fit leaves a spacer, and goes on the next row.
PutWide(style, measured) ==
  IF cursor = Cols
  THEN PutGlyph("spacer", "plain", 1)
  ELSE /\ row' = [Cleared(Cleared(row, cursor + 1), cursor) EXCEPT
                    ![cursor] = Cell("wide", style, measured),
                    ![cursor + 1] = Cell("spacer", style, 1)]
       /\ cursor' = IF cursor + 2 <= Cols THEN cursor + 2 ELSE Cols

Output ==
  \E style \in Styles :
    \/ PutGlyph("blank", style, 1)
    \/ \E measured \in {1, 2} : PutGlyph("narrow", style, measured) \/ PutWide(style, measured)

MoveCursor == \E c \in 1..Cols : cursor' = c /\ UNCHANGED row

GridNext == Output \/ MoveCursor

GridSpec == GridInit /\ [][GridNext]_rowVars

-----------------------------------------------------------------------------
(* styled_line: the runs of the row.                                       *)

Cells(cell) == IF cell.glyph = "wide" THEN 2 ELSE 1

\* A blank with a background of its own is content, a plain one padding.
Content == {c \in 1..Cols : row[c].glyph # "spacer" /\ row[c] # Blank}
LastContent == IF Content = {} THEN 0 ELSE CHOOSE c \in Content : \A d \in Content : d <= c

\* Mutant: a run counts what the heuristic makes of its glyphs.
JoinMeasuring(runs, c) ==
  IF runs # <<>> /\ Last(runs).style = row[c].style
  THEN [runs EXCEPT ![Len(runs)].cells = @ + row[c].measured,
                    ![Len(runs)].text = Append(@, row[c].measured),
                    ![Len(runs)].grid = Append(@, Cells(row[c]))]
  ELSE Append(runs, [style |-> row[c].style, at |-> c, cells |-> row[c].measured,
                     text |-> <<row[c].measured>>, grid |-> <<Cells(row[c])>>])

\* The glyph in column c goes into the last run if it looks the same, or opens
\* one.  Of the text of a run we keep, glyph by glyph, the widths that will be
\* measured and those they have in the grid.
Join(runs, c) ==
  IF runs # <<>> /\ Last(runs).style = row[c].style
  THEN [runs EXCEPT ![Len(runs)].cells = @ + Cells(row[c]),
                    ![Len(runs)].text = Append(@, row[c].measured),
                    ![Len(runs)].grid = Append(@, Cells(row[c]))]
  ELSE Append(runs, [style |-> row[c].style, at |-> c, cells |-> Cells(row[c]),
                     text |-> <<row[c].measured>>, grid |-> <<Cells(row[c])>>])

\* The runs of the first c columns; spacers are skipped.
RunsUpTo[c \in 0..Cols] ==
  IF c = 0 THEN <<>>
  ELSE IF row[c].glyph = "spacer" THEN RunsUpTo[c - 1] ELSE Join(RunsUpTo[c - 1], c)

StyledRuns == RunsUpTo[LastContent]

Total(widths) ==
  LET upTo[i \in 0..Len(widths)] == IF i = 0 THEN 0 ELSE upTo[i - 1] + widths[i]
  IN upTo[Len(widths)]

\* Where a run begins when the cells of those before it are added up.
Offset(runs, i) == Total([j \in 1..(i - 1) |-> runs[j].cells])

-----------------------------------------------------------------------------
(* render_ascii: widths of its lines.                                      *)

\* line_text: the run under the cursor is overlaid.
UnderCursor(runs, i) == cursor - 1 \in Offset(runs, i)..(Offset(runs, i) + runs[i].cells - 1)

\* overlay_cursor walks the text by what it measures: the glyph at the cursor
\* becomes a block, and every glyph taken for wide is followed by a filler.
\* "widths" are the glyphs' own, measured or in the grid.
Overlaid(text, widths, col) ==
  Total([k \in 1..Len(text) |->
           (IF Total(SubSeq(text, 1, k - 1)) = col THEN 1 ELSE widths[k]) + text[k] - 1])

LineWidth(runs, widths) ==
  Total([i \in 1..Len(runs) |->
           IF UnderCursor(runs, i)
           THEN Overlaid(runs[i].text, widths[i], cursor - 1 - Offset(runs, i))
           ELSE Total(widths[i])])

Measured(runs) == [i \in 1..Len(runs) |-> runs[i].text]
InGrid(runs) == [i \in 1..Len(runs) |-> runs[i].grid]

\* content_line: a border and a space, the text, padded to the frame by its
\* display_width, a border.  What the line takes on a screen is the grid's.
ContentWidth(runs) ==
  LET used == LineWidth(runs, Measured(runs))
  IN 3 + LineWidth(runs, InGrid(runs)) + IF used < Cols THEN Cols - used ELSE 0

\* truncate_cells: a cut label ends with an ellipsis, which takes a cell.
Cut(label, budget) ==
  IF label <= budget THEN label ELSE IF budget = 0 THEN 1 ELSE budget

\* box_line: corners, one fill, two spaces, the label, and more fill.
BoxWidth(label) ==
  LET budget == IF Cols < 2 THEN 0 ELSE Cols - 2
      shown == Cut(label, budget)
  IN 5 + shown + IF budget < shown THEN 0 ELSE budget - shown

-----------------------------------------------------------------------------
\* Each run is drawn where the grid has it, in the SVG and under the cursor,
\* whatever char_cells makes of its glyphs, for runs are added up in cells
\* ("exact cell count", screen.rs 574-578); and the lines of the ASCII box take
\* equally many columns ("every line of the box has the same display width",
\* screen.rs:641) if every glyph is measured as the grid has it.  The second is
\* not so where char_cells misjudges a glyph, for a screen of two columns, whose
\* label is an ellipsis that does not fit, nor when the run under the cursor has
\* a wide glyph beside the cursor: it is followed by a filler, too.
FrameAligned ==
  LET runs == StyledRuns IN
  /\ \A i \in 1..Len(runs) : Offset(runs, i) = runs[i].at - 1
  /\ /\ Cols > 2
     /\ Measured(runs) = InGrid(runs)
     /\ \A i \in 1..Len(runs) : UnderCursor(runs, i) =>
          \A k \in 1..Len(runs[i].text) :
            runs[i].text[k] = 2 => Offset(runs, i) + Total(SubSeq(runs[i].text, 1, k - 1)) = cursor - 1
     => \A label \in Labels : BoxWidth(label) = ContentWidth(runs)
=============================================================================
