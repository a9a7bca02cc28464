------------------------------ MODULE MCShell ------------------------------
(***************************************************************************)
(* The shell with two files, names of two characters, files and a scratch  *)
(* buffer of eight bytes.  Every argument of up to four characters (three  *)
(* where it is a name alone), with spaces anywhere.                        *)
(***************************************************************************)
EXTENDS Shell

CONSTANT a

MCChars ==
  {a, Space, NewLine, NUL, MAGIC} \cup {"write", "touch", "cat", "ls", "help", "clear", "beep"}

Arguments(n) == UNION {[1 .. k -> {a, Space}] : k \in 0 .. n}

\* Some of the last lines name a file, or nothing.
MCLines ==
  {<<"write", Space>> \o arg : arg \in Arguments(4)}
    \cup {<<word, Space>> \o arg : word \in {"touch", "cat"}, arg \in Arguments(3)}
    \cup {<<"ls">>, <<"help">>, <<"touch">>, <<a>>, <<a, a>>, <<a, Space>>}

\* Nothing; a program that fills its file; a full text and a
\* short file whose name ends in a space.
MCDisks ==
  {<<>>,
   [name \in {<<a>>} |-> <<MAGIC, NUL, a, a, a, a, a, a>>],
   [name \in {<<a>>, <<a, Space>>} |-> IF name = <<a>> THEN [i \in 1 .. 8 |-> a] ELSE <<MAGIC>>]}
=============================================================================
