---------------------------- MODULE MCImporter ----------------------------
(***************************************************************************)
(* The importer on archives of up to three entries, blocks of two bytes,   *)
(* a file table of two entries, names of two characters and files of at    *)
(* most three bytes.                                                       *)
(***************************************************************************)
EXTENDS Importer

H(path, size) == [path |-> path, size |-> size]

Large == H(<<"a">>, 30)     \* claims nearly all of the address space

\* Two names with the same stem, a file in a folder, the shell, a folder, a name
\* that is clipped, a file too large for FrodFS, a name without a stem.
Small ==
  {H(<<"a">>, 2), H(<<"a", ".", "b">>, 1), H(<<"s", "/", "b">>, 3),
   H(<<"s", ".", "b">>, 3), H(<<"s", "/">>, 0), H(<<"a", "b", "b">>, 2),
   H(<<"b">>, 4), H(<<".", "a">>, 1)}

MCHeaders == Small \cup {Large}

Seqs == UNION {[1 .. k -> Small] : k \in 0 .. 3}

\* Whole with its zero block, whole without, and with the last block missing.
Layouts(entries) ==
  LET a == [start |-> 4, entries |-> entries, end |-> 0]
  IN {[a EXCEPT !.end = ArchiveEnd(a) + d] : d \in {2, 0} \cup (IF entries = <<>> THEN {} ELSE {-2})}

\* No archive at all; each layout; a size that wraps.
MCArchives ==
  {[start |-> 0, entries |-> <<>>, end |-> 0]}
    \cup UNION {Layouts(entries) : entries \in Seqs}
    \cup {[start |-> 4, entries |-> <<h, Large>>, end |-> 14] : h \in Small}

MCShellBin == <<"s", ".", "b">>
=============================================================================
