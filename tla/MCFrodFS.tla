------------------------------ MODULE MCFrodFS ------------------------------
(***************************************************************************)
(* FrodFS with three entries, names of two characters and files of two     *)
(* bytes.  Two of the names clip to the same two characters.               *)
(***************************************************************************)
EXTENDS FrodFS

CONSTANTS a, b, zero, one

MCNames == {NULL, <<>>, <<a>>, <<b>>, <<a, b>>, <<a, b, a>>}
MCContents == {NULL, <<one>>, <<one, zero>>, <<one, one, one>>}

\* No room, room for a part of a name or a file, room for everything.
MCMaxes == {0, 1, 3, 8, 11}
=============================================================================
