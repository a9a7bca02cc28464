--------------------------- MODULE PageAllocator ---------------------------
(***************************************************************************)
(* What the physical memory manager promises its callers, with no bitmap:  *)
(* every page frame is reserved for good, free, or owned by one client; a  *)
(* grant takes a contiguous run of free frames; only the owner of a frame  *)
(* gives it back.  Pmm implements this specification.                      *)
(***************************************************************************)
EXTENDS Integers

CONSTANTS
  Frames,     \* the frame numbers, an interval that starts at 0
  Clients,    \* the parts of the kernel that ask for frames
  Free,       \* owner of a frame nobody holds
  Reserved    \* owner of a frame that is never handed out

VARIABLES
  open,       \* TRUE once boot has decided which frames are reserved
  owner       \* frame -> its owner

vars == <<open, owner>>

Init ==
  /\ open = FALSE
  /\ owner = [f \in Frames |-> Reserved]

\* Boot fixes the reserved frames.  Frame 0 is one of them: its address is
\* the null pointer, which callers read as "out of memory".
Open ==
  /\ ~open
  /\ open' = TRUE
  /\ \E reserved \in SUBSET Frames :
       /\ 0 \in reserved
       /\ owner' = [f \in Frames |-> IF f \in reserved THEN Reserved ELSE Free]

Grant(client) ==
  /\ open
  /\ \E first, last \in Frames :
       /\ \A f \in first .. last : owner[f] = Free
       /\ owner' = [f \in Frames |-> IF f \in first .. last THEN client
                                                            ELSE owner[f]]
  /\ UNCHANGED open

Return(client) ==
  /\ open
  /\ \E first, last \in Frames :
       /\ \A f \in first .. last : owner[f] = client
       /\ owner' = [f \in Frames |-> IF f \in first .. last THEN Free
                                                            ELSE owner[f]]
  /\ UNCHANGED open

Next == Open \/ \E client \in Clients : Grant(client) \/ Return(client)

Spec == Init /\ [][Next]_vars
=============================================================================
