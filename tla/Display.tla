------------------------------ MODULE Display ------------------------------
(***************************************************************************)
(* What a writer to the screen can rely on: a page of text that grows at   *)
(* its end, wraps at the right margin, loses its first row when it is full,*)
(* and takes characters back one at a time, past margins too.  Screen      *)
(* implements this specification.                                          *)
(***************************************************************************)
EXTENDS Integers, Sequences

CONSTANTS
  COLS, ROWS,
  Glyphs,       \* what a character looks like
  Blank,
  Leftover      \* what the firmware may have left on the screen

VARIABLES
  text,         \* what stands before the cursor, row after row
  clean         \* whether nothing of the firmware is left behind the cursor

vars == <<text, clean>>

Init == text = <<>> /\ clean \in BOOLEAN

\* Full, the page gives up its first row before anything else happens.
IsFull == Len(text) = COLS * ROWS
Fitted == IF IsFull THEN SubSeq(text, COLS + 1, Len(text)) ELSE text

Scrolls == clean' = (clean \/ IsFull)

Write(glyph) == text' = Append(Fitted, glyph) /\ Scrolls

\* The row is filled up: with blanks once the page is clean.
NewLine ==
  /\ \E k \in 1 .. COLS :
       /\ (Len(Fitted) + k) % COLS = 0
       /\ \E fill \in [1 .. k -> {Blank, Leftover}] :
            /\ clean \/ IsFull => fill = [i \in 1 .. k |-> Blank]
            /\ text' = Fitted \o fill
  /\ Scrolls

TakeBack ==
  /\ text' = IF Fitted = <<>> THEN <<>> ELSE SubSeq(Fitted, 1, Len(Fitted) - 1)
  /\ Scrolls

Clear == text' = <<>> /\ clean' = TRUE

Next == NewLine \/ TakeBack \/ Clear \/ \E glyph \in Glyphs : Write(glyph)

Spec == Init /\ [][Next]_vars
=============================================================================
