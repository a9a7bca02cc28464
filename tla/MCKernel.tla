------------------------------ MODULE MCKernel ------------------------------
(***************************************************************************)
(* The program loader on 28 bytes of memory, pages and archive blocks of   *)
(* two bytes, and modules that hold the shell first, second, or not at     *)
(* all, below USER_BASE, across it or behind it.                           *)
(***************************************************************************)
EXTENDS Kernel

Entry(name, size, regular) == [name |-> name, size |-> size, regular |-> regular]

\* Sizes that fill their last block and sizes that do not.  A module that is cut
\* in the first entry's padding, in the shell's data, in a header, or empty.
MCClearArchives ==
  LET two == <<Entry("app", 1, TRUE), Entry("shell.bin", 3, TRUE)>>
  IN {[start |-> 1, end |-> 13,
       entries |-> <<Entry("./shell.bin", 3, TRUE), Entry("app", 2, TRUE)>>],
      [start |-> 1, end |-> 13, entries |-> two],
      [start |-> 1, end |-> 10, entries |-> two],
      [start |-> 1, end |-> 9, entries |-> two],
      [start |-> 1, end |-> 6, entries |-> two],
      [start |-> 1, end |-> 4, entries |-> two],
      [start |-> 1, end |-> 1, entries |-> two],
      [start |-> 2, end |-> 8, entries |-> <<Entry("app", 1, TRUE)>>],
      [start |-> 2, end |-> 8, entries |-> <<Entry("shell.bin", 0, FALSE), Entry("shell.bin", 2, TRUE)>>],
      [start |-> 1, end |-> 11, entries |-> <<Entry("shell.bin", 6, TRUE)>>]}

\* Two whose data the copy of the shell overlaps, from above and from below.
MCArchives ==
  MCClearArchives
    \cup {[start |-> 13, end |-> 20, entries |-> <<Entry("shell.bin", 3, TRUE)>>],
          [start |-> 15, end |-> 22, entries |-> <<Entry("shell.bin", 3, TRUE)>>]}

\* A short file, a text file, two packed programs; a header whose sizes wrap to 0,
\* and one that claims less than its file holds.
Refused(short) == [Packed(0, 0) EXCEPT !.short = short, !.magic = FALSE]

MCAppFiles ==
  {Refused(TRUE), Refused(FALSE), Packed(1, 0), Packed(1, 1),
   [Packed(1, 1) EXCEPT !.text = 14], [Packed(1, 1) EXCEPT !.text = 0, !.data = 0]}
=============================================================================
