------------------------------ MODULE Keyboard ------------------------------
(***************************************************************************)
(* The keyboard driver (keyboard.c): it decodes the scancodes of a PS/2    *)
(* keyboard (set 1) and puts the characters they type into a ring buffer,  *)
(* from which the read-character system call takes them.  Both the handler *)
(* and the system call run with interrupts off, so each is one step here;  *)
(* Console checks that they never overlap.  Keys may be pressed before the *)
(* driver is initialised, and be held while it is.                         *)
(***************************************************************************)
EXTENDS Integers, Sequences, FiniteSets

CONSTANTS
  KEY_BUFFER_SIZE,   \* slots of the ring                       (256)
  Keys,              \* bound: the keys of the keyboard
  MaxHeld,           \* bound: keys held down at once
  MaxPending         \* bound: scancodes sent and not handled

ASSUME KeyboardAssumption ==
  /\ KEY_BUFFER_SIZE \in Nat \ {0, 1}
  /\ Keys \subseteq {"lshift", "rshift", "caps", "letter", "digit", "ctrl", "print"}
  /\ MaxHeld \in Nat /\ MaxPending \in Nat

NUL == "NUL"
Letters == {"a", "A"}
Characters == Letters \cup {"1", "!"}

VARIABLES
  key_buffer, key_head, key_tail,       \* the ring
  shift_down, caps_on, ext_prefix,      \* the decoder's flags
  got,                                  \* result of the last read
  ready,                                \* keyboard_init has run
  down,                                 \* keys held down
  doubt,                                \* history: see NewDoubt
  wire                                  \* scancodes sent and not yet handled

ring == <<key_buffer, key_head, key_tail>>
flags == <<shift_down, caps_on, ext_prefix>>
keys == <<ready, down, doubt, wire>>
vars == <<ring, flags, got, keys>>

-----------------------------------------------------------------------------
(* The keyboard. *)

Shifts == {"lshift", "rshift"}

Byte(code, released) == [code |-> code, released |-> released]
E0 == Byte("E0", TRUE)

\* Print screen sends a prefix and a left shift that no one pressed.
Sends(key, released) ==
  IF key = "print" THEN <<E0, Byte("lshift", released)>> ELSE <<Byte(key, released)>>

\* The history says what the driver cannot tell apart: it is set when both shift
\* keys are down at once, when the driver starts while one is, and when the driver
\* starts between the two bytes of print screen, and cleared when a shift key goes
\* up and leaves neither down.
NewDoubt(reason) == doubt' = (doubt \/ reason)

\* A key held down repeats.
Press(key) ==
  /\ Cardinality(down \cup {key}) <= MaxHeld
  /\ Len(wire \o Sends(key, FALSE)) <= MaxPending
  /\ down' = down \cup {key}
  /\ NewDoubt(Shifts \subseteq down')
  /\ wire' = wire \o Sends(key, FALSE)
  /\ UNCHANGED <<ring, flags, got, ready>>

Release(key) ==
  /\ key \in down
  /\ Len(wire \o Sends(key, TRUE)) <= MaxPending
  /\ down' = down \ {key}
  /\ doubt' = (doubt /\ ~(key \in Shifts /\ Shifts \cap down' = {}))
  /\ wire' = wire \o Sends(key, TRUE)
  /\ UNCHANGED <<ring, flags, got, ready>>

-----------------------------------------------------------------------------
(* The driver. *)

\* The tables hold NUL for a key that types nothing.
sc_normal == [letter |-> "a", digit |-> "1", ctrl |-> NUL]
sc_shift == [letter |-> "A", digit |-> "!", ctrl |-> NUL]

SwapCase(c) == IF c = "a" THEN "A" ELSE IF c = "A" THEN "a" ELSE c

Typed(code) ==
  LET c == IF shift_down THEN sc_shift[code] ELSE sc_normal[code]
  IN IF caps_on THEN SwapCase(c) ELSE c

Advance_NoWrap(i) == i + 1     \* fault: no modulo

Advance(i) == (i + 1) % KEY_BUFFER_SIZE

Full_Never == FALSE     \* fault: the full ring is not detected
Full_OneSlotShort ==     \* fault: full one character too early
  key_tail \in {Advance(key_head), Advance(Advance(key_head))}

Full == Advance(key_head) = key_tail

push_key(c) ==
  IF Full THEN UNCHANGED ring
  ELSE /\ key_buffer' = [key_buffer EXCEPT ![key_head] = c]
       /\ key_head' = Advance(key_head)
       /\ UNCHANGED key_tail

\* The early returns of the handler: a prefix, and the byte behind it.
Ignored_PrefixOnly(b) == b = E0     \* fault: the byte behind a prefix is a key
Ignored(b) == b = E0 \/ ext_prefix

PrefixAfter_Sticks(b) == b = E0 \/ ext_prefix     \* fault: never forgotten
PrefixAfter(b) == b = E0

\* What one scancode does.
Decode(b) ==
  /\ ext_prefix' = PrefixAfter(b)
  /\ \/ /\ Ignored(b) \/ (b.code \notin Shifts /\ b.released)
        /\ UNCHANGED <<ring, shift_down, caps_on>>
     \/ /\ ~Ignored(b) /\ b.code \in Shifts
        /\ shift_down' = ~b.released
        /\ UNCHANGED <<ring, caps_on>>
     \/ /\ ~Ignored(b) /\ b.code = "caps" /\ ~b.released
        /\ caps_on' = ~caps_on
        /\ UNCHANGED <<ring, shift_down>>
     \/ /\ ~Ignored(b) /\ b.code \notin Shifts \cup {"caps"} /\ ~b.released
        /\ IF Typed(b.code) = NUL THEN UNCHANGED ring ELSE push_key(Typed(b.code))
        /\ UNCHANGED <<shift_down, caps_on>>

keyboard_handler_main ==
  /\ ready /\ wire # <<>>
  /\ Decode(Head(wire))
  /\ wire' = Tail(wire)
  /\ UNCHANGED <<got, ready, down, doubt>>

keyboard_get_char ==
  /\ ready
  /\ IF key_head = key_tail
       THEN got' = NUL /\ UNCHANGED key_tail
       ELSE /\ got' = key_buffer[key_tail]
            /\ key_tail' = Advance(key_tail)
  /\ UNCHANGED <<key_buffer, key_head, flags, keys>>

\* The first n bytes sent since power-on are lost: the firmware reads them, or the
\* loop here does, until it finds the controller's buffer empty; the rest is on its
\* way.  (The request of the last byte read may be latched, and the handler then
\* reads that byte again: it is lost all the same, or not at all.)
keyboard_init ==
  /\ ~ready
  /\ \E n \in 0 .. Len(wire) :
       /\ wire' = SubSeq(wire, n + 1, Len(wire))
       /\ NewDoubt(Shifts \cap down # {} \/ (n > 0 /\ wire[n] = E0))
  /\ ready' = TRUE
  /\ UNCHANGED <<ring, flags, got, down>>

\* Power-on.
Init ==
  /\ key_buffer = [i \in 0 .. KEY_BUFFER_SIZE - 1 |-> NUL]
  /\ key_head = 0 /\ key_tail = 0
  /\ shift_down = FALSE /\ caps_on = FALSE /\ ext_prefix = FALSE
  /\ got = NUL
  /\ ready = FALSE
  /\ down \in {held \in SUBSET Keys : Cardinality(held) <= MaxHeld}
  /\ doubt = (Shifts \cap down # {}) /\ wire = <<>>

Next ==
  \/ \E key \in Keys : Press(key) \/ Release(key)
  \/ keyboard_init
  \/ keyboard_handler_main
  \/ keyboard_get_char

Spec == Init /\ [][Next]_vars

-----------------------------------------------------------------------------
(* Properties. *)

Indices == 0 .. KEY_BUFFER_SIZE - 1

\* The variables keep their types; a character in the ring is never NUL.
Buffered == (key_head - key_tail) % KEY_BUFFER_SIZE
Contents == [i \in 1 .. Buffered |-> key_buffer[(key_tail + i - 1) % KEY_BUFFER_SIZE]]

Scancodes == [code : Keys \cup Shifts \cup {"E0"}, released : BOOLEAN]

TypeOK ==
  /\ key_buffer \in [Indices -> Characters \cup {NUL}]
  /\ key_head \in Indices /\ key_tail \in Indices
  /\ shift_down \in BOOLEAN /\ caps_on \in BOOLEAN /\ ext_prefix \in BOOLEAN
  /\ got \in Characters \cup {NUL}
  /\ ready \in BOOLEAN /\ down \subseteq Keys /\ doubt \in BOOLEAN
  /\ wire \in Seq(Scancodes)

\* The ring is a first-in first-out queue: no character is read twice, out of
\* order, or overwritten before it is read, and NUL means empty.
Queue == INSTANCE KeyQueue
  WITH NoCharacter <- NUL, Capacity <- KEY_BUFFER_SIZE - 1, queue <- Contents

ImplementsKeyQueue == Queue!Spec

\* One flag stands for two shift keys, and starts clear whatever is held when the
\* driver starts (keyboard.c:42).  With every scancode handled it is set exactly
\* while a shift key is down, whatever prefixed codes, repeats and lost characters
\* came between, with three exceptions, each over once a shift key goes up and
\* leaves neither down: both have been down at once; one was down when the driver
\* started; or the driver started between the two bytes of print screen, the second
\* of which is that of a shift key.
ShiftFollowsKeys ==
  ready /\ wire = <<>> /\ ~doubt => (shift_down <=> Shifts \cap down # {})

\* The decoder never loses the boundary between two keys: with every scancode
\* handled it waits for no second half of a prefixed code.
PrefixInStep == ready /\ wire = <<>> => ~ext_prefix

\* Once the driver has started, a key that types a character is lost only when the
\* ring holds KEY_BUFFER_SIZE - 1 characters.
Types(b) == b.code \in {"letter", "digit"} /\ ~b.released

LostOnlyWhenFull ==
  [][(ready /\ wire # <<>> /\ wire' = Tail(wire) /\ Types(Head(wire))
        /\ Buffered < KEY_BUFFER_SIZE - 1) => Buffered' = Buffered + 1]_vars
=============================================================================
