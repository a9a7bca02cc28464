------------------------------ MODULE Terminal ------------------------------
(***************************************************************************)
(* What a user typing at the shell can rely on: characters take effect one *)
(* at a time, in the order typed, each once, on a line of bounded length,  *)
(* and a command entered is the line as edited.  Console implements this   *)
(* specification.                                                          *)
(***************************************************************************)
EXTENDS Integers, Sequences

CONSTANTS
  Characters,   \* what a key can type, Enter and Backspace included
  Enter,
  Backspace,
  Capacity,     \* characters that can wait to take effect
  LineMax       \* characters of a line

VARIABLES
  waiting,      \* typed and without effect so far, oldest first
  line,         \* the line being edited
  entered       \* the last command entered

vars == <<waiting, line, entered>>

Init == waiting = <<>> /\ line = <<>> /\ entered = <<>>

\* A character typed while Capacity others wait may be lost.
Type(c) ==
  /\ Len(waiting) < Capacity
  /\ waiting' = Append(waiting, c)
  /\ UNCHANGED <<line, entered>>

Erase(s) == SubSeq(s, 1, Len(s) - 1)

EditedLine(c) ==
  IF c = Enter THEN <<>>
  ELSE IF c = Backspace THEN IF line = <<>> THEN <<>> ELSE Erase(line)
  ELSE IF Len(line) < LineMax THEN Append(line, c) ELSE line

TakeEffect ==
  /\ waiting # <<>>
  /\ waiting' = Tail(waiting)
  /\ line' = EditedLine(Head(waiting))
  /\ entered' = IF Head(waiting) = Enter /\ line # <<>> THEN line ELSE entered

Next == TakeEffect \/ \E c \in Characters : Type(c)

Spec == Init /\ [][Next]_vars
=============================================================================
