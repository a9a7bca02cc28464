---------------------------- MODULE ScreenProofs ----------------------------
(***************************************************************************)
(* Proofs about the screen, for every number of rows and columns and every *)
(* set of glyphs.                                                          *)
(***************************************************************************)
EXTENDS Screen, SequenceTheorems, TLAPS

(***************************************************************************)
(* Rows and cells.                                                         *)
(***************************************************************************)

\* There is a row of cells at least.
LEMMA SizeOfScreen == CELLS \in Nat /\ COLS \in Nat \ {0} /\ COLS <= CELLS
<1>1. COLS \in Nat \ {0} /\ ROWS \in Nat \ {0}
  BY ScreenAssumption
<1>2. COLS * ROWS = COLS + COLS * (ROWS - 1) /\ COLS * (ROWS - 1) \in Nat
  BY <1>1
<1>3. QED
  BY <1>1, <1>2 DEF CELLS

\* A quotient's bounds.
LEMMA DivBounds ==
  ASSUME NEW a \in Nat, NEW b \in Nat \ {0}
  PROVE  /\ a \div b \in Nat
         /\ (a \div b) * b <= a
         /\ a < (a \div b) * b + b
OBVIOUS

\* Of two multiples, the smaller has the smaller factor.
LEMMA SmallerFactor ==
  ASSUME NEW a \in Nat, NEW b \in Nat, NEW n \in Nat \ {0}, a * n < b * n
  PROVE  a + 1 <= b /\ (a + 1) * n <= b * n
<1>1. a + 1 <= b
  <2> SUFFICES ASSUME b <= a PROVE FALSE
    OBVIOUS
  <2>1. PICK d \in Nat : a = b + d
    <3>1. a - b \in Nat /\ a = b + (a - b)
      OBVIOUS
    <3>2. QED
      BY <3>1
  <2>2. a * n = b * n + d * n /\ d * n >= 0
    BY <2>1
  <2>3. QED
    BY <2>2
<1>2. PICK d \in Nat : b = (a + 1) + d
  <2>1. b - (a + 1) \in Nat /\ b = (a + 1) + (b - (a + 1))
    BY <1>1
  <2>2. QED
    BY <2>1
<1>3. b * n = (a + 1) * n + d * n /\ d * n >= 0
  BY <1>2
<1>4. QED
  BY <1>1, <1>3

\* A newline moves on to the start of the next row, which is on the screen or one
\* past its end.
LEMMA NextRow ==
  ASSUME NEW c \in Cells
  PROVE  /\ RowBelow(c) \in Nat
         /\ c < RowBelow(c) /\ RowBelow(c) <= c + COLS
         /\ RowBelow(c) <= CELLS
         /\ RowBelow(c) % COLS = 0
<1> DEFINE q == c \div COLS
<1>1. CELLS \in Nat /\ COLS \in Nat \ {0} /\ ROWS \in Nat /\ c \in Nat /\ c < CELLS
  BY SizeOfScreen, ScreenAssumption DEF Cells
<1>2. q \in Nat /\ q * COLS <= c /\ c < q * COLS + COLS
  BY <1>1, DivBounds
<1>3. RowBelow(c) = (q + 1) * COLS
  BY DEF RowBelow
<1> HIDE DEF q
<1>4. RowBelow(c) = q * COLS + COLS
  BY <1>1, <1>2, <1>3
<1>5. q * COLS < ROWS * COLS /\ ROWS * COLS = CELLS
  BY <1>1, <1>2 DEF CELLS
<1>6. RowBelow(c) <= CELLS
  BY <1>1, <1>2, <1>3, <1>5, SmallerFactor
<1>7. RowBelow(c) % COLS = 0
  BY <1>1, <1>2, <1>3
<1>8. QED
  BY <1>1, <1>2, <1>4, <1>6, <1>7

(***************************************************************************)
(* What put_char works on after it has scrolled.                           *)
(***************************************************************************)

\* The cursor is on the screen and the cells keep their type.
LEMMA AfterScroll ==
  ASSUME TypeOK
  PROVE  /\ Cursor \in Cells
         /\ Buffer \in [Cells -> Glyphs \cup {Leftover}]
<1>1. CELLS \in Nat /\ COLS \in Nat \ {0} /\ COLS <= CELLS /\ Blank \in Glyphs
  BY SizeOfScreen, ScreenAssumption
<1>2. \A i \in Cells : i + COLS < CELLS => i + COLS \in Cells
  BY <1>1 DEF Cells
<1>3. \A i \in Cells : ScrolledCell(i) \in Glyphs \cup {Leftover}
  BY <1>1, <1>2 DEF ScrolledCell, TypeOK
<1>4. Buffer \in [Cells -> Glyphs \cup {Leftover}]
  BY <1>3 DEF Buffer, TypeOK
<1>5. Cursor \in Cells
  BY <1>1 DEF Cursor, MustScroll, Cells, TypeOK
<1>6. QED
  BY <1>4, <1>5

(***************************************************************************)
(* Type correctness.                                                       *)
(***************************************************************************)

\* The variables keep their types: the cursor stays within the buffer or stands
\* one past it.
THEOREM TypeCorrect == Spec => []TypeOK
<1>1. Init => TypeOK
  BY SizeOfScreen, ScreenAssumption DEF Init, TypeOK
<1>2. TypeOK /\ [Next]_vars => TypeOK'
  <2> SUFFICES ASSUME TypeOK, [Next]_vars PROVE TypeOK'
    OBVIOUS
  <2>0. CELLS \in Nat /\ Blank \in Glyphs
    BY SizeOfScreen, ScreenAssumption
  <2>1. Cursor \in Cells /\ Buffer \in [Cells -> Glyphs \cup {Leftover}]
    BY AfterScroll
  <2>2. MustScroll \in BOOLEAN
    BY DEF MustScroll
  <2>3. CASE PutNewLine
    <3>1. vga_cursor' \in 0 .. CELLS
      BY <2>0, <2>1, <2>3, NextRow DEF PutNewLine
    <3>2. QED
      BY <2>1, <2>2, <2>3, <3>1 DEF PutNewLine, Scrolls, TypeOK
  <2>4. CASE PutBackspace
    <3>1. vga_cursor' \in 0 .. CELLS
      BY <2>0, <2>1, <2>4 DEF PutBackspace, Cells
    <3>2. vga_buffer' \in [Cells -> Glyphs \cup {Leftover}]
      BY <2>0, <2>1, <2>4 DEF PutBackspace
    <3>3. QED
      BY <2>2, <2>4, <3>1, <3>2 DEF PutBackspace, Scrolls, TypeOK
  <2>5. ASSUME NEW c \in Glyphs, PutGlyph(c) PROVE TypeOK'
    <3>1. vga_cursor' \in 0 .. CELLS
      BY <2>0, <2>1, <2>5 DEF PutGlyph, Cells
    <3>2. QED
      BY <2>1, <2>2, <2>5, <3>1 DEF PutGlyph, Scrolls, TypeOK
  <2>6. CASE kclear
    BY <2>0, <2>6 DEF kclear, TypeOK
  <2>7. CASE UNCHANGED vars
    BY <2>7 DEF vars, TypeOK
  <2>8. QED
    BY <2>3, <2>4, <2>5, <2>6, <2>7 DEF Next
<1>3. QED
  BY <1>1, <1>2, PTL DEF Spec

(***************************************************************************)
(* What stands behind the cursor.                                          *)
(***************************************************************************)

\* The inductive invariant: nothing but blanks and, until the screen is clean, the
\* firmware's text.
Rest == IF clean THEN {Blank} ELSE {Blank, Leftover}
RestIsUnwritten == \A i \in vga_cursor .. CELLS - 1 : vga_buffer[i] \in Rest

\* So it is for put_char after it has scrolled.
LEMMA RestAfterScroll ==
  ASSUME TypeOK, RestIsUnwritten
  PROVE  \A i \in Cursor .. CELLS - 1 :
           Buffer[i] \in IF clean \/ MustScroll THEN {Blank} ELSE {Blank, Leftover}
<1>1. CELLS \in Nat /\ COLS \in Nat \ {0} /\ COLS <= CELLS
  BY SizeOfScreen
<1>2. CASE MustScroll
  <2> SUFFICES ASSUME NEW i \in Cursor .. CELLS - 1 PROVE Buffer[i] = Blank
    BY <1>2
  <2>1. i \in Cells /\ ~(i + COLS < CELLS)
    BY <1>1, <1>2 DEF Cursor, Cells
  <2>2. QED
    BY <1>2, <2>1 DEF Buffer, ScrolledCell
<1>3. CASE ~MustScroll
  BY <1>3 DEF Cursor, Buffer, RestIsUnwritten, Rest
<1>4. QED
  BY <1>2, <1>3

\* Every step keeps the rest of the screen unwritten.
THEOREM RestStaysUnwritten == Spec => []RestIsUnwritten
<1>1. Init => RestIsUnwritten
  BY SizeOfScreen DEF Init, RestIsUnwritten, Rest, Cells
<1>2. TypeOK /\ RestIsUnwritten /\ [Next]_vars => RestIsUnwritten'
  <2> SUFFICES ASSUME TypeOK, RestIsUnwritten, [Next]_vars,
                      NEW i \in vga_cursor' .. CELLS - 1
               PROVE  vga_buffer'[i] \in Rest'
    BY DEF RestIsUnwritten, CELLS
  <2> DEFINE After == IF clean \/ MustScroll THEN {Blank} ELSE {Blank, Leftover}
  <2>0. CELLS \in Nat
    BY SizeOfScreen
  <2>1. Cursor \in Cells /\ DOMAIN Buffer = Cells
    BY AfterScroll
  <2>2. \A j \in Cursor .. CELLS - 1 : Buffer[j] \in After
    BY RestAfterScroll
  <2>3. Scrolls => Rest' = After
    BY DEF Scrolls, Rest
  <2>4. Blank \in After
    OBVIOUS
  <2> HIDE DEF After
  <2>5. CASE PutNewLine
    <3>1. i \in Cursor .. CELLS - 1
      BY <2>0, <2>1, <2>5, NextRow DEF PutNewLine, Cells
    <3>2. QED
      BY <2>2, <2>3, <2>5, <3>1 DEF PutNewLine
  <2>6. CASE PutBackspace
    <3>1. CASE Cursor > 0
      <4>1. i = Cursor - 1 \/ i \in Cursor .. CELLS - 1
        BY <2>0, <2>1, <2>6, <3>1 DEF PutBackspace, Cells
      <4>2. i \in Cells
        BY <2>0, <2>1, <4>1, <3>1 DEF Cells
      <4>3. vga_buffer' = [Buffer EXCEPT ![Cursor - 1] = Blank] /\ Scrolls
        BY <2>6, <3>1 DEF PutBackspace
      <4>4. QED
        BY <2>1, <2>2, <2>3, <2>4, <4>1, <4>2, <4>3
    <3>2. CASE ~(Cursor > 0)
      BY <2>2, <2>3, <2>6, <3>2 DEF PutBackspace
    <3>3. QED
      BY <3>1, <3>2
  <2>7. ASSUME NEW c \in Glyphs, PutGlyph(c) PROVE vga_buffer'[i] \in Rest'
    <3>1. i \in Cursor .. CELLS - 1 /\ i # Cursor /\ i \in Cells
      BY <2>0, <2>1, <2>7 DEF PutGlyph, Cells
    <3>2. QED
      BY <2>1, <2>2, <2>3, <2>7, <3>1 DEF PutGlyph
  <2>8. CASE kclear
    BY <2>0, <2>8 DEF kclear, Cells, Rest
  <2>9. CASE UNCHANGED vars
    BY <2>9 DEF vars, RestIsUnwritten, Rest
  <2>10. QED
    BY <2>5, <2>6, <2>7, <2>8, <2>9 DEF Next
<1>3. QED
  BY <1>1, <1>2, TypeCorrect, PTL DEF Spec

\* Once the screen was cleared or has scrolled, no old text stands behind the
\* cursor, whatever is written, erased and scrolled afterwards.
THEOREM NoOldText == Spec => []BlankBehindCursor
<1>1. RestIsUnwritten => BlankBehindCursor
  BY DEF RestIsUnwritten, Rest, BlankBehindCursor
<1>2. QED
  BY <1>1, RestStaysUnwritten, PTL

(***************************************************************************)
(* The screen implements Display.                                          *)
(***************************************************************************)

\* The text before a cursor, as the refinement mapping reads it from the cells.
TextOf(cells, n) == [i \in 1 .. n |-> cells[i - 1]]

Symbols == Glyphs \cup {Leftover}

\* Such a text is as long as its cursor says.
LEMMA TextLength ==
  ASSUME NEW cells \in [Cells -> Symbols], NEW n \in 0 .. CELLS
  PROVE  /\ TextOf(cells, n) \in Seq(Symbols)
         /\ Len(TextOf(cells, n)) = n
         /\ \A i \in 1 .. n : TextOf(cells, n)[i] = cells[i - 1]
<1>1. CELLS \in Nat
  BY SizeOfScreen
<1>2. \A i \in 1 .. n : cells[i - 1] \in Symbols
  BY <1>1 DEF Cells
<1>3. TextOf(cells, n) \in [1 .. n -> Symbols]
  BY <1>2 DEF TextOf
<1>4. QED
  BY <1>1, <1>3 DEF TextOf

\* The text of no cell at all.
LEMMA TextOfNothing == ASSUME NEW cells PROVE TextOf(cells, 0) = <<>>
BY DEF TextOf

\* What is left of a text when its first row is dropped is the scrolled one.
LEMMA FittedText ==
  ASSUME TypeOK
  PROVE  /\ Page!IsFull <=> MustScroll
         /\ Page!Fitted = TextOf(Buffer, Cursor)
<1> DEFINE shown == TextOf(vga_buffer, vga_cursor)
           fitted == TextOf(Buffer, Cursor)
<1>1. CELLS \in Nat /\ COLS \in Nat \ {0} /\ COLS <= CELLS
  BY SizeOfScreen
<1>2. vga_buffer \in [Cells -> Symbols] /\ vga_cursor \in 0 .. CELLS
  BY DEF TypeOK, Symbols
<1>3. shown \in Seq(Symbols) /\ Len(shown) = vga_cursor
      /\ \A i \in 1 .. vga_cursor : shown[i] = vga_buffer[i - 1]
  BY <1>2, TextLength
<1>4. Page!IsFull <=> MustScroll
  BY <1>1, <1>2, <1>3 DEF Page!IsFull, MustScroll, TextOf, CELLS
<1>5. CASE MustScroll
  <2>1. vga_cursor = CELLS /\ Cursor = CELLS - COLS
    BY <1>1, <1>2, <1>5 DEF MustScroll, Cursor
  <2>2. Page!Fitted = SubSeq(shown, COLS + 1, CELLS)
    BY <1>3, <1>4, <1>5, <2>1 DEF Page!Fitted, TextOf
  <2>3. /\ fitted \in Seq(Symbols) /\ Len(fitted) = CELLS - COLS
        /\ \A i \in 1 .. CELLS - COLS : fitted[i] = Buffer[i - 1]
    <3>1. Buffer \in [Cells -> Symbols] /\ CELLS - COLS \in 0 .. CELLS
      BY <1>1, AfterScroll DEF Symbols
    <3>2. fitted = TextOf(Buffer, CELLS - COLS)
      BY <2>1
    <3>3. QED
      BY <3>1, <3>2, TextLength
  <2> HIDE DEF shown, fitted
  <2>4. /\ SubSeq(shown, COLS + 1, CELLS) \in Seq(Symbols)
        /\ Len(SubSeq(shown, COLS + 1, CELLS)) = CELLS - COLS
        /\ \A i \in 1 .. CELLS - COLS : SubSeq(shown, COLS + 1, CELLS)[i] = shown[i + COLS]
    <3>1. \A i \in COLS + 1 .. CELLS : shown[i] \in Symbols
      BY <1>1, <1>3, <2>1, ElementOfSeq
    <3> DEFINE m == COLS + 1
    <3>2. m \in Int /\ CELLS \in Int /\ \A i \in m .. CELLS : shown[i] \in Symbols
      BY <1>1, <3>1
    <3>3. CELLS - m + 1 = CELLS - COLS /\ (m <= CELLS \/ CELLS - COLS = 0)
      BY <1>1
    <3>4. \A i \in Int : m + i - 1 = i + COLS
      BY <1>1
    <3> HIDE DEF m
    <3>5. /\ SubSeq(shown, m, CELLS) \in Seq(Symbols)
          /\ Len(SubSeq(shown, m, CELLS)) = IF m <= CELLS THEN CELLS - m + 1 ELSE 0
          /\ \A i \in 1 .. CELLS - m + 1 : SubSeq(shown, m, CELLS)[i] = shown[m + i - 1]
      BY <3>2, SubSeqProperties
    <3>6. Len(SubSeq(shown, m, CELLS)) = CELLS - COLS
      BY <3>3, <3>5
    <3>7. \A i \in 1 .. CELLS - COLS : SubSeq(shown, m, CELLS)[i] = shown[i + COLS]
      BY <3>3, <3>4, <3>5
    <3>8. QED
      BY <3>5, <3>6, <3>7 DEF m
  <2>5. \A i \in 1 .. CELLS - COLS : shown[i + COLS] = Buffer[i - 1]
    <3> SUFFICES ASSUME NEW i \in 1 .. CELLS - COLS PROVE shown[i + COLS] = Buffer[i - 1]
      OBVIOUS
    <3>1. i - 1 \in Cells /\ (i - 1) + COLS < CELLS /\ (i - 1) + COLS = (i + COLS) - 1
      BY <1>1 DEF Cells
    <3>2. Buffer[i - 1] = vga_buffer[(i - 1) + COLS]
      BY <1>5, <3>1 DEF Buffer, ScrolledCell
    <3>3. QED
      BY <1>1, <1>3, <2>1, <3>1, <3>2
  <2>6. SubSeq(shown, COLS + 1, CELLS) = fitted
    BY <2>3, <2>4, <2>5, SeqEqual
  <2>7. QED
    BY <1>4, <2>2, <2>6 DEF fitted
<1>6. CASE ~MustScroll
  BY <1>4, <1>6 DEF Page!Fitted, Cursor, Buffer, TextOf
<1>7. QED
  BY <1>4, <1>5, <1>6

\* A step of the screen is a step of the display: characters come and go at the
\* end of the text, over margins and scrolling, and no other cell changes.
LEMMA StepSimulation ==
  ASSUME TypeOK, RestIsUnwritten, [Next]_vars
  PROVE  [Page!Next]_(Page!vars)
<1> DEFINE shown == TextOf(vga_buffer, vga_cursor)
           fitted == TextOf(Buffer, Cursor)
<1>0. CELLS \in Nat /\ COLS \in Nat \ {0} /\ Blank \in Symbols
  BY SizeOfScreen, ScreenAssumption DEF Symbols
<1>1. Cursor \in Cells /\ Buffer \in [Cells -> Symbols]
  BY AfterScroll DEF Symbols
<1>2. Page!Fitted = fitted /\ (Page!IsFull <=> MustScroll)
  BY FittedText
<1>3. /\ fitted \in Seq(Symbols) /\ Len(fitted) = Cursor
      /\ \A i \in 1 .. Cursor : fitted[i] = Buffer[i - 1]
  BY <1>0, <1>1, TextLength DEF Cells
<1>4. Scrolls => Page!Scrolls
  BY <1>2 DEF Scrolls, Page!Scrolls
<1>5. CASE PutNewLine
  <2> DEFINE k == RowBelow(Cursor) - Cursor
             fill == [j \in 1 .. k |-> Buffer[Cursor + j - 1]]
  <2>1. /\ RowBelow(Cursor) \in 0 .. CELLS
        /\ k \in 1 .. COLS /\ Cursor + k = RowBelow(Cursor)
        /\ (Cursor + k) % COLS = 0
    BY <1>0, <1>1, NextRow DEF Cells
  <2>2. shown' = TextOf(Buffer, Cursor + k)
    BY <1>5, <2>1 DEF PutNewLine, TextOf
  <2> HIDE DEF k
  <2>3. \A j \in 1 .. k : Cursor + j - 1 \in Cursor .. CELLS - 1 /\ Cursor + j - 1 \in Cells
    BY <1>0, <1>1, <2>1 DEF Cells
  <2>4. fill \in [1 .. k -> {Blank, Leftover}]
    BY <2>3, RestAfterScroll
  <2>5. clean \/ Page!IsFull => fill = [i \in 1 .. k |-> Blank]
    BY <1>2, <2>3, RestAfterScroll
  <2>6. /\ fill \in Seq(Symbols) /\ Len(fill) = k
        /\ \A j \in 1 .. k : fill[j] = Buffer[Cursor + j - 1]
    <3>1. fill \in [1 .. k -> Symbols]
      BY <1>0, <2>4 DEF Symbols
    <3>2. QED
      BY <2>1, <3>1
  <2>7. /\ shown' \in Seq(Symbols) /\ Len(shown') = Cursor + k
        /\ \A i \in 1 .. Cursor + k : shown'[i] = Buffer[i - 1]
    BY <1>1, <2>1, <2>2, TextLength
  <2> HIDE DEF fill, shown, fitted
  <2>8. /\ fitted \o fill \in Seq(Symbols) /\ Len(fitted \o fill) = Cursor + k
        /\ \A i \in 1 .. Cursor + k :
             (fitted \o fill)[i] = IF i <= Cursor THEN fitted[i] ELSE fill[i - Cursor]
    BY <1>3, <2>6, ConcatProperties
  <2>9. \A i \in 1 .. Cursor + k : (fitted \o fill)[i] = Buffer[i - 1]
    <3> SUFFICES ASSUME NEW i \in 1 .. Cursor + k PROVE (fitted \o fill)[i] = Buffer[i - 1]
      OBVIOUS
    <3>1. CASE i <= Cursor
      BY <1>0, <1>1, <1>3, <2>8, <3>1 DEF Cells
    <3>2. CASE ~(i <= Cursor)
      <4>1. i - Cursor \in 1 .. k /\ Cursor + (i - Cursor) - 1 = i - 1
        BY <1>0, <1>1, <2>1, <3>2 DEF Cells
      <4>2. QED
        BY <2>6, <2>8, <3>2, <4>1
    <3>3. QED
      BY <3>1, <3>2
  <2>10. shown' = fitted \o fill
    BY <2>7, <2>8, <2>9, SeqEqual
  <2>11. Page!NewLine
    BY <1>2, <1>3, <1>4, <1>5, <2>1, <2>4, <2>5, <2>10
       DEF PutNewLine, Page!NewLine, shown, TextOf
  <2>12. QED
    BY <2>11 DEF Page!Next
<1>6. CASE PutBackspace
  <2>1. CASE Cursor > 0
    <3>1. shown' = TextOf(Buffer, Cursor - 1)
      <4>1. vga_cursor' = Cursor - 1 /\ vga_buffer' = [Buffer EXCEPT ![Cursor - 1] = Blank]
        BY <1>6, <2>1 DEF PutBackspace
      <4>2. \A i \in 1 .. Cursor - 1 : vga_buffer'[i - 1] = Buffer[i - 1]
        BY <1>0, <1>1, <4>1 DEF Cells
      <4>3. QED
        BY <4>1, <4>2 DEF TextOf
    <3>2. Cursor - 1 \in 0 .. CELLS
      BY <1>0, <1>1, <2>1 DEF Cells
    <3>3. /\ shown' \in Seq(Symbols) /\ Len(shown') = Cursor - 1
          /\ \A i \in 1 .. Cursor - 1 : shown'[i] = Buffer[i - 1]
      BY <1>1, <3>1, <3>2, TextLength
    <3> DEFINE c == Cursor
    <3>4. c \in Int /\ c - 1 \in Int /\ \A i \in 1 .. c - 1 : fitted[i] \in Symbols
      BY <1>0, <1>1, <1>3, ElementOfSeq DEF Cells
    <3> HIDE DEF shown, fitted
    <3>5. /\ SubSeq(fitted, 1, c - 1) \in Seq(Symbols)
          /\ Len(SubSeq(fitted, 1, c - 1)) = c - 1
          /\ \A i \in 1 .. c - 1 : SubSeq(fitted, 1, c - 1)[i] = fitted[i]
      <4>1. SubSeq(fitted, 1, c - 1) \in Seq(Symbols)
            /\ Len(SubSeq(fitted, 1, c - 1)) = (IF 1 <= c - 1 THEN c - 1 - 1 + 1 ELSE 0)
            /\ \A i \in 1 .. c - 1 - 1 + 1 : SubSeq(fitted, 1, c - 1)[i] = fitted[1 + i - 1]
        BY <3>4, SubSeqProperties
      <4>2. QED
        BY <2>1, <3>4, <4>1
    <3>6. SubSeq(fitted, 1, Cursor - 1) = shown'
      BY <1>0, <1>1, <1>3, <3>3, <3>5, SeqEqual DEF Cells
    <3>7. fitted # <<>>
      BY <1>3, <2>1
    <3>8. Page!TakeBack
      BY <1>2, <1>3, <1>4, <1>6, <3>6, <3>7 DEF PutBackspace, Page!TakeBack, shown, TextOf
    <3>9. QED
      BY <3>8 DEF Page!Next
  <2>2. CASE ~(Cursor > 0)
    <3>1. Cursor = 0 /\ fitted = <<>>
      BY <1>0, <1>1, <2>2, TextOfNothing DEF Cells
    <3>2. shown' = <<>>
      BY <1>6, <2>2, <3>1, TextOfNothing DEF PutBackspace
    <3>3. Page!TakeBack
      BY <1>2, <1>4, <1>6, <3>1, <3>2 DEF PutBackspace, Page!TakeBack, TextOf
    <3>4. QED
      BY <3>3 DEF Page!Next
  <2>3. QED
    BY <2>1, <2>2
<1>7. ASSUME NEW c \in Glyphs, PutGlyph(c) PROVE Page!Next
  <2>1. c \in Symbols /\ Cursor + 1 \in 0 .. CELLS
    BY <1>0, <1>1 DEF Symbols, Cells
  <2>2. vga_buffer' = [Buffer EXCEPT ![Cursor] = c] /\ vga_cursor' = Cursor + 1
    BY <1>7 DEF PutGlyph
  <2>3. vga_buffer' \in [Cells -> Symbols]
    BY <1>1, <2>1, <2>2
  <2>4. /\ shown' \in Seq(Symbols) /\ Len(shown') = Cursor + 1
        /\ \A i \in 1 .. Cursor + 1 : shown'[i] = vga_buffer'[i - 1]
    BY <2>1, <2>2, <2>3, TextLength
  <2> HIDE DEF shown, fitted
  <2>5. /\ Append(fitted, c) \in Seq(Symbols) /\ Len(Append(fitted, c)) = Cursor + 1
        /\ \A i \in 1 .. Cursor + 1 :
             Append(fitted, c)[i] = IF i = Cursor + 1 THEN c ELSE fitted[i]
    BY <1>0, <1>1, <1>3, <2>1 DEF Cells
  <2>6. \A i \in 1 .. Cursor + 1 : Append(fitted, c)[i] = shown'[i]
    BY <1>0, <1>1, <1>3, <2>2, <2>4, <2>5 DEF Cells
  <2>7. shown' = Append(fitted, c)
    BY <2>4, <2>5, <2>6, SeqEqual
  <2>8. Page!Write(c)
    BY <1>2, <1>4, <1>7, <2>7 DEF PutGlyph, Page!Write, shown, TextOf
  <2>9. QED
    BY <2>8 DEF Page!Next
<1>8. CASE kclear
  <2>1. shown' = <<>>
    BY <1>8, TextOfNothing DEF kclear
  <2>2. Page!Clear
    BY <1>8, <2>1 DEF kclear, Page!Clear, TextOf
  <2>3. QED
    BY <2>2 DEF Page!Next
<1>9. CASE UNCHANGED vars
  BY <1>9 DEF vars, Page!vars
<1>10. QED
  BY <1>5, <1>6, <1>7, <1>8, <1>9 DEF Next

\* The screen implements Display: a page of text that grows and shrinks at its
\* end, wraps, and loses its first row when it is full.
THEOREM Implements == Spec => ImplementsDisplay
<1>1. Init => Page!Init
  BY TextOfNothing DEF Init, Page!Init, TextOf
<1>2. TypeOK /\ RestIsUnwritten /\ [Next]_vars => [Page!Next]_(Page!vars)
  BY StepSimulation
<1>3. QED
  BY <1>1, <1>2, TypeCorrect, RestStaysUnwritten, PTL DEF Spec, Page!Spec, ImplementsDisplay
=============================================================================
