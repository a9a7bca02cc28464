------------------------------ MODULE KeyQueue ------------------------------
(***************************************************************************)
(* What the keyboard driver promises the read-character system call: a     *)
(* bounded first-in first-out queue of typed characters, which loses a     *)
(* character only when it is full.  Keyboard implements this               *)
(* specification.                                                          *)
(***************************************************************************)
EXTENDS Integers, Sequences

CONSTANTS
  Characters,   \* what a key press can type
  NoCharacter,  \* what a read of the empty queue returns
  Capacity      \* characters the queue holds

VARIABLES
  queue,        \* typed and not yet read, oldest first
  got           \* result of the last read

vars == <<queue, got>>

Init == queue = <<>> /\ got = NoCharacter

Type(c) ==
  /\ Len(queue) < Capacity
  /\ queue' = Append(queue, c)
  /\ UNCHANGED got

\* A character typed into a full queue is lost: nothing changes.
Read ==
  /\ queue # <<>>
  /\ queue' = Tail(queue)
  /\ got' = Head(queue)

ReadNothing ==
  /\ queue = <<>>
  /\ got' = NoCharacter
  /\ UNCHANGED queue

Next == Read \/ ReadNothing \/ \E c \in Characters : Type(c)

Spec == Init /\ [][Next]_vars
=============================================================================
