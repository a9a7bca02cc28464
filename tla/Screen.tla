------------------------------- MODULE Screen -------------------------------
(***************************************************************************)
(* The text screen (video.c): a buffer of cells the display shows, and the *)
(* cursor, which may stand one past the last cell until the next character *)
(* makes the screen scroll.  Colors are left out: nothing changes them.    *)
(***************************************************************************)
EXTENDS Integers, Sequences

CONSTANTS
  COLS, ROWS,    \* 80 and 25
  Glyphs,        \* what a character looks like; a space is Blank
  Blank,
  Leftover       \* what the firmware may have left in the buffer

ASSUME ScreenAssumption ==
  /\ COLS \in Nat \ {0} /\ ROWS \in Nat \ {0}
  /\ Blank \in Glyphs /\ Leftover \notin Glyphs

VARIABLES
  vga_buffer,    \* cell -> what stands there
  vga_cursor,    \* the cell the next character goes to
  clean          \* history: the screen has been cleared or has scrolled

vars == <<vga_buffer, vga_cursor, clean>>

CELLS == COLS * ROWS
Cells == 0 .. CELLS - 1

ScrolledCell_NoBlanks(i) == IF i + COLS < CELLS THEN vga_buffer[i + COLS] ELSE vga_buffer[i]     \* fault
ScrolledCell(i) == IF i + COLS < CELLS THEN vga_buffer[i + COLS] ELSE Blank

\* put_char scrolls first: what it then works on.
MustScroll_Late == vga_cursor > CELLS     \* fault: > instead of >=
MustScroll == vga_cursor >= CELLS

Buffer == IF MustScroll THEN [i \in Cells |-> ScrolledCell(i)] ELSE vga_buffer
Cursor == IF MustScroll THEN CELLS - COLS ELSE vga_cursor

Scrolls == clean' = (clean \/ MustScroll)

RowBelow_SameColumn(cursor) == cursor + COLS     \* fault
RowBelow(cursor) == (cursor \div COLS + 1) * COLS

PutNewLine ==
  /\ vga_cursor' = RowBelow(Cursor)
  /\ vga_buffer' = Buffer
  /\ Scrolls

PutBackspace ==
  /\ IF Cursor > 0
       THEN /\ vga_cursor' = Cursor - 1
            /\ vga_buffer' = [Buffer EXCEPT ![Cursor - 1] = Blank]
       ELSE vga_cursor' = Cursor /\ vga_buffer' = Buffer
  /\ Scrolls

PutGlyph(c) ==
  /\ vga_buffer' = [Buffer EXCEPT ![Cursor] = c]
  /\ vga_cursor' = Cursor + 1
  /\ Scrolls

kclear ==
  /\ vga_buffer' = [i \in Cells |-> Blank]
  /\ vga_cursor' = 0
  /\ clean' = TRUE

\* The kernel prints its boot messages without clearing the screen.
Init ==
  /\ vga_buffer \in {[i \in Cells |-> glyph] : glyph \in {Blank, Leftover}}
  /\ vga_cursor = 0
  /\ clean = (\A i \in Cells : vga_buffer[i] = Blank)

Next ==
  \/ PutNewLine \/ PutBackspace
  \/ \E c \in Glyphs : PutGlyph(c)
  \/ kclear

Spec == Init /\ [][Next]_vars

-----------------------------------------------------------------------------
(* Properties. *)

\* The variables keep their types: the cursor never passes the cell behind the
\* last, so that no character is written past the buffer.
TypeOK ==
  /\ vga_buffer \in [Cells -> Glyphs \cup {Leftover}]
  /\ vga_cursor \in 0 .. CELLS
  /\ clean \in BOOLEAN

\* Once the screen was cleared or has scrolled, no old text stands behind the
\* cursor, where a newline would leave it between two lines.
BlankBehindCursor ==
  clean => \A i \in vga_cursor .. CELLS - 1 : vga_buffer[i] = Blank

\* The screen implements Display: text is added and taken back at its end, over
\* margins and scrolling, and no other cell changes.
Page == INSTANCE Display WITH text <- [i \in 1 .. vga_cursor |-> vga_buffer[i - 1]]

ImplementsDisplay == Page!Spec
=============================================================================
