------------------------------- MODULE MCPmm -------------------------------
(***************************************************************************)
(* Pmm on a small machine: frames of 2 bytes, a bitmap of two 3-bit words, *)
(* 16 frames of address space, the legacy zone in the first frame.         *)
(***************************************************************************)
EXTENDS Pmm, FiniteSets

\* On a frame boundary and off one; past the end of the bitmap.
MCMemSizes == {8, 9, 14}

\* In the legacy zone; past it, off a frame boundary and on one.
MCKernelEnds == {1, 3, 4}

Reserve(base, length) == [base |-> base, length |-> length, usable |-> FALSE]

\* Usable RAM; an aligned hole; a hole that starts and ends inside a frame; an
\* entry whose 32-bit end wraps to 0; an entry above 4 GB; one across the end of
\* the bitmap.
MCEntries ==
  {[base |-> 2, length |-> 12, usable |-> TRUE],
   Reserve(6, 2), Reserve(3, 2), Reserve(28, 4), Reserve(38, 3), Reserve(10, 6)}

MCMemoryMaps == {m \in SUBSET MCEntries : Cardinality(m) <= 2}
=============================================================================
