--------------------------- MODULE KeyboardProofs ---------------------------
(***************************************************************************)
(* Proofs about the keyboard driver, for every size of the ring, every set *)
(* of keys and every number of keys held and scancodes pending.            *)
(***************************************************************************)
EXTENDS Keyboard, SequenceTheorems, TLAPS

(***************************************************************************)
(* The inductive invariant: the scancodes on their way to the driver, and  *)
(* what the driver's flags will be once it has handled them.               *)
(***************************************************************************)

\* Position i of the wire holds the second byte of a prefixed code.
Escaped(i) == IF i = 1 THEN ext_prefix ELSE wire[i - 1] = E0

\* A prefix is on the wire with the byte it belongs to, unless the driver has
\* taken it already; that byte types nothing.
PrefixesArePaired ==
  /\ ext_prefix => wire # <<>>
  /\ \A i \in 1 .. Len(wire) :
       /\ wire[i].code = "E0" => wire[i] = E0 /\ i < Len(wire)
       /\ Escaped(i) => wire[i].code = "lshift"

\* The pending scancodes of the shift keys.
ShiftCodes == {i \in 1 .. Len(wire) : ~ Escaped(i) /\ wire[i].code \in Shifts}

\* A value of shift_down that agrees with the keys held.
Agrees(value) == ~ doubt => (value <=> Shifts \cap down # {})

\* The last pending scancode of a shift key, or the flag if there is none, agrees
\* with the keys held; and the history knows that both shift keys are down.
ShiftWillFollow ==
  /\ ShiftCodes = {} => Agrees(shift_down)
  /\ \A i \in ShiftCodes : (\A j \in ShiftCodes : j <= i) => Agrees(~ wire[i].released)
  /\ Shifts \subseteq down => doubt

\* Before the driver starts its flags are clear.
NothingDecoded == ~ ready => ~ shift_down /\ ~ ext_prefix

\* The code of print screen is a prefixed left shift, never its own.
NoOwnCode == \A i \in 1 .. Len(wire) : wire[i].code # "print"

IInv == TypeOK /\ NoOwnCode /\ PrefixesArePaired /\ ShiftWillFollow /\ NothingDecoded

(***************************************************************************)
(* The wire.                                                               *)
(***************************************************************************)

\* The keys and codes are different strings.
LEMMA ByteTypes ==
  ASSUME NEW key \in Keys, NEW released \in BOOLEAN
  PROVE  /\ E0 \in Scancodes
         /\ Byte(key, released) \in Scancodes
         /\ Byte("lshift", released) \in Scancodes
         /\ Byte(key, released) # E0 /\ Byte("lshift", released) # E0
         /\ key # "E0"
<1>1. key # "E0"
  BY KeyboardAssumption
<1>2. QED
  BY <1>1 DEF E0, Byte, Scancodes, Shifts

\* What a key sends stands behind what was on the wire.
LEMMA SendingAppends ==
  ASSUME TypeOK, NEW key \in Keys, NEW released \in BOOLEAN,
         wire' = wire \o Sends(key, released)
  PROVE  /\ wire' \in Seq(Scancodes)
         /\ \A i \in 1 .. Len(wire) : wire'[i] = wire[i]
         /\ key # "print" =>
              /\ Len(wire') = Len(wire) + 1
              /\ wire'[Len(wire) + 1] = Byte(key, released)
         /\ key = "print" =>
              /\ Len(wire') = Len(wire) + 2
              /\ wire'[Len(wire) + 1] = E0
              /\ wire'[Len(wire) + 2] = Byte("lshift", released)
<1> DEFINE sent == Sends(key, released)
           extended == wire \o sent
<1>1. wire \in Seq(Scancodes) /\ Len(wire) \in Nat
  BY LenProperties DEF TypeOK
<1>2. /\ sent \in Seq(Scancodes)
      /\ key # "print" => Len(sent) = 1 /\ sent[1] = Byte(key, released)
      /\ key = "print" => Len(sent) = 2 /\ sent[1] = E0 /\ sent[2] = Byte("lshift", released)
  <2>1. CASE key = "print"
    BY <2>1, ByteTypes DEF Sends
  <2>2. CASE key # "print"
    BY <2>2, ByteTypes DEF Sends
  <2>3. QED
    BY <2>1, <2>2
<1> HIDE DEF sent
<1>3. /\ extended \in Seq(Scancodes) /\ Len(extended) = Len(wire) + Len(sent)
      /\ \A i \in 1 .. Len(wire) + Len(sent) :
           extended[i] = IF i <= Len(wire) THEN wire[i] ELSE sent[i - Len(wire)]
  BY <1>1, <1>2, ConcatProperties
<1>4. wire' = extended
  BY DEF sent
<1> HIDE DEF extended
<1>5. Len(sent) \in Nat
  BY <1>2, LenProperties
<1>6. \A i \in 1 .. Len(wire) : wire'[i] = wire[i]
  BY <1>1, <1>3, <1>4, <1>5
<1>7. ASSUME NEW k \in 1 .. Len(sent) PROVE wire'[Len(wire) + k] = sent[k]
  <2>1. /\ Len(wire) + k \in 1 .. Len(wire) + Len(sent)
        /\ ~ (Len(wire) + k <= Len(wire)) /\ Len(wire) + k - Len(wire) = k
    BY <1>1, <1>5
  <2>2. QED
    BY <1>3, <1>4, <2>1
<1>8. Len(wire') = Len(wire) + Len(sent)
  BY <1>3, <1>4
<1>9. key # "print" => /\ Len(wire') = Len(wire) + 1
                       /\ wire'[Len(wire) + 1] = Byte(key, released)
  <2> SUFFICES ASSUME key # "print"
               PROVE  /\ Len(wire') = Len(wire) + 1
                      /\ wire'[Len(wire) + 1] = Byte(key, released)
    OBVIOUS
  <2>1. Len(sent) = 1 /\ sent[1] = Byte(key, released)
    BY <1>2
  <2>2. 1 \in 1 .. Len(sent)
    BY <2>1
  <2>3. wire'[Len(wire) + 1] = sent[1]
    BY <1>7, <2>2
  <2>4. QED
    BY <1>8, <2>1, <2>3
<1>10. key = "print" => /\ Len(wire') = Len(wire) + 2
                        /\ wire'[Len(wire) + 1] = E0
                        /\ wire'[Len(wire) + 2] = Byte("lshift", released)
  <2> SUFFICES ASSUME key = "print"
               PROVE  /\ Len(wire') = Len(wire) + 2
                      /\ wire'[Len(wire) + 1] = E0
                      /\ wire'[Len(wire) + 2] = Byte("lshift", released)
    OBVIOUS
  <2>1. /\ Len(sent) = 2 /\ sent[1] = E0 /\ sent[2] = Byte("lshift", released)
    BY <1>2
  <2>2. 1 \in 1 .. Len(sent) /\ 2 \in 1 .. Len(sent)
    BY <2>1
  <2>3. wire'[Len(wire) + 1] = sent[1] /\ wire'[Len(wire) + 2] = sent[2]
    BY <1>7, <2>2
  <2>4. QED
    BY <1>8, <2>1, <2>3
<1>11. QED
  BY <1>3, <1>4, <1>6, <1>9, <1>10

\* Pressing or releasing a key keeps prefixes and their bytes together; only a
\* shift key adds a code of a shift key.
LEMMA SendingKeepsTheWire ==
  ASSUME IInv, NEW key \in Keys, NEW released \in BOOLEAN,
         wire' = wire \o Sends(key, released), UNCHANGED ext_prefix
  PROVE  /\ NoOwnCode' /\ PrefixesArePaired'
         /\ ShiftCodes' = IF key \in Shifts THEN ShiftCodes \cup {Len(wire) + 1}
                                            ELSE ShiftCodes
<1> PICK n \in Nat : n = Len(wire)
  BY LenProperties DEF IInv, TypeOK
<1>1. /\ Len(wire') \in n + 1 .. n + 2
      /\ key # "print" => Len(wire') = n + 1 /\ wire'[n + 1] = Byte(key, released)
      /\ key = "print" => /\ Len(wire') = n + 2
                          /\ wire'[n + 1] = E0 /\ wire'[n + 2] = Byte("lshift", released)
      /\ \A i \in 1 .. n : wire'[i] = wire[i]
  BY SendingAppends DEF IInv
<1>2. n = 0 => wire = <<>>
  BY EmptySeq DEF IInv, TypeOK
<1>3. \A i \in 1 .. n : Escaped(i)' = Escaped(i)
  BY <1>1 DEF Escaped
<1>4. ~ Escaped(n + 1)'
  <2>1. CASE n = 0
    BY <1>2, <2>1 DEF Escaped, IInv, PrefixesArePaired
  <2>2. CASE n # 0
    <3>1. n \in 1 .. n /\ n + 1 # 1 /\ (n + 1) - 1 = n
      BY <1>1, <2>2
    <3>2. wire[n] # E0
      <4>1. wire[n].code = "E0" => n < n
        BY <3>1 DEF IInv, PrefixesArePaired
      <4>2. E0.code = "E0"
        BY DEF E0, Byte
      <4>3. QED
        BY <1>1, <4>1, <4>2
    <3>3. Escaped(n + 1)' = (wire'[n] = E0)
      BY <3>1 DEF Escaped
    <3>4. QED
      BY <1>1, <3>1, <3>2, <3>3
  <2>3. QED
    BY <2>1, <2>2
<1>5. key = "print" => Escaped(n + 2)'
  <2>1. n + 2 # 1 /\ (n + 2) - 1 = n + 1
    BY <1>1
  <2>2. Escaped(n + 2)' = (wire'[n + 1] = E0)
    BY <2>1 DEF Escaped
  <2>3. QED
    BY <1>1, <2>2
<1>6. \A i \in 1 .. Len(wire') : i \in 1 .. n \/ i = n + 1 \/ (i = n + 2 /\ key = "print")
  BY <1>1
<1>7. NoOwnCode'
  <2> SUFFICES ASSUME NEW i \in 1 .. Len(wire') PROVE wire'[i].code # "print"
    BY DEF NoOwnCode
  <2>1. \A k \in 1 .. n : wire[k].code # "print"
    BY DEF IInv, NoOwnCode
  <2>2. QED
    BY <1>1, <1>6, <2>1 DEF E0, Byte
<1>8. PrefixesArePaired'
  <2>1. wire' # <<>>
    BY <1>1
  <2>2. ASSUME NEW i \in 1 .. Len(wire')
        PROVE  /\ wire'[i].code = "E0" => wire'[i] = E0 /\ i < Len(wire')
               /\ Escaped(i)' => wire'[i].code = "lshift"
    <3>1. CASE i \in 1 .. n
      <4>1. /\ wire[i].code = "E0" => wire[i] = E0
            /\ Escaped(i) => wire[i].code = "lshift"
        BY <3>1 DEF IInv, PrefixesArePaired
      <4>2. wire'[i] = wire[i] /\ i < Len(wire') /\ Escaped(i)' = Escaped(i)
        BY <1>1, <1>3, <3>1
      <4>3. QED
        BY <4>1, <4>2
    <3>2. CASE i = n + 1
      <4>1. key # "E0"
        BY ByteTypes
      <4>2. wire'[i].code = "E0" => wire'[i] = E0 /\ i < Len(wire')
        BY <1>1, <3>2, <4>1 DEF E0, Byte
      <4>3. ~ Escaped(i)'
        BY <1>4, <3>2
      <4>4. QED
        BY <4>2, <4>3
    <3>3. CASE i = n + 2 /\ key = "print"
      BY <1>1, <3>3 DEF Byte
    <3>4. QED
      BY <1>6, <3>1, <3>2, <3>3
  <2>3. QED
    BY <2>1, <2>2 DEF PrefixesArePaired
<1>9. ShiftCodes' = IF key \in Shifts THEN ShiftCodes \cup {n + 1} ELSE ShiftCodes
  <2>1. ASSUME NEW i
        PROVE  i \in ShiftCodes' <=> (i \in ShiftCodes \/ (i = n + 1 /\ key \in Shifts))
    <3>1. i \in ShiftCodes' <=> i \in 1 .. Len(wire') /\ ~ Escaped(i)' /\ wire'[i].code \in Shifts
      BY DEF ShiftCodes
    <3>2. i \in ShiftCodes <=> i \in 1 .. n /\ ~ Escaped(i) /\ wire[i].code \in Shifts
      BY DEF ShiftCodes
    <3>3. CASE i \in 1 .. n
      BY <1>1, <1>3, <3>1, <3>2, <3>3
    <3>4. CASE i = n + 1
      <4>1. i \notin 1 .. n /\ i \in 1 .. Len(wire') /\ ~ Escaped(i)'
        BY <1>1, <1>4, <3>4
      <4>2. wire'[i].code \in Shifts <=> key \in Shifts
        BY <1>1, <3>4 DEF E0, Byte, Shifts
      <4>3. QED
        BY <3>1, <3>2, <3>4, <4>1, <4>2
    <3>5. CASE i = n + 2 /\ key = "print"
      <4>1. i \notin 1 .. n /\ i # n + 1 /\ Escaped(i)'
        BY <1>1, <1>5, <3>5
      <4>2. QED
        BY <3>1, <3>2, <4>1
    <3>6. QED
      BY <1>1, <1>6, <3>1, <3>2, <3>3, <3>4, <3>5
  <2>2. QED
    BY <2>1
<1>10. QED
  BY <1>7, <1>8, <1>9

\* The handler takes the first scancode: the others move up.
LEMMA TakingMovesUp ==
  ASSUME IInv, wire # <<>>, wire' = Tail(wire), ext_prefix' = (Head(wire) = E0)
  PROVE  /\ wire' \in Seq(Scancodes) /\ Len(wire) \in Nat \ {0}
         /\ Len(wire') = Len(wire) - 1 /\ Head(wire) = wire[1]
         /\ NoOwnCode' /\ PrefixesArePaired'
         /\ \A i \in Nat \ {0} : i + 1 \in 1 .. Len(wire) =>
              wire'[i] = wire[i + 1] /\ Escaped(i)' = Escaped(i + 1)
         /\ \A i : i \in ShiftCodes' <=> i \in 1 .. Len(wire) - 1 /\ i + 1 \in ShiftCodes
<1>1. /\ Len(wire) \in Nat \ {0} /\ Head(wire) = wire[1]
      /\ wire' \in Seq(Scancodes) /\ Len(wire') = Len(wire) - 1
      /\ \A i \in 1 .. Len(wire) - 1 : wire'[i] = wire[i + 1]
  BY EmptySeq, LenProperties, HeadTailProperties DEF IInv, TypeOK
<1>2. ASSUME NEW i \in 1 .. Len(wire) - 1
      PROVE  wire'[i] = wire[i + 1] /\ Escaped(i)' = Escaped(i + 1)
  <2>1. CASE i = 1
    <3>1. i + 1 # 1 /\ (i + 1) - 1 = 1 /\ wire'[i] = wire[i + 1]
      BY <1>1, <2>1
    <3>2. Escaped(i)' = ext_prefix' /\ Escaped(i + 1) = (wire[1] = E0)
      BY <2>1, <3>1 DEF Escaped
    <3>3. QED
      BY <1>1, <3>1, <3>2
  <2>2. CASE i # 1
    <3>1. i - 1 \in 1 .. Len(wire) - 1 /\ i + 1 # 1 /\ (i + 1) - 1 = i /\ (i - 1) + 1 = i
      <4>1. Len(wire) \in Nat
        BY <1>1
      <4>2. QED
        BY <2>2, <4>1
    <3>2. wire'[i - 1] = wire[i]
      BY <1>1, <3>1
    <3>3. QED
      BY <1>1, <2>2, <3>1, <3>2 DEF Escaped
  <2>3. QED
    BY <2>1, <2>2
<1>3. NoOwnCode'
  BY <1>1 DEF IInv, NoOwnCode
<1>4. PrefixesArePaired'
  <2>1. Head(wire) = E0 => 1 < Len(wire)
    BY <1>1 DEF IInv, PrefixesArePaired, E0, Byte
  <2>2. ext_prefix' => wire' # <<>>
    <3>1. Len(wire) \in Nat /\ Len(wire') = Len(wire) - 1
      BY <1>1
    <3>2. wire' = <<>> => Len(wire') = 0
      OBVIOUS
    <3>3. ext_prefix' => Head(wire) = E0
      OBVIOUS
    <3>4. ext_prefix' => 1 < Len(wire)
      BY <2>1, <3>3
    <3>5. 1 < Len(wire) => wire' # <<>>
      BY <3>1, <3>2
    <3>6. QED
      BY <3>4, <3>5
  <2>3. ASSUME NEW i \in 1 .. Len(wire')
        PROVE  /\ wire'[i].code = "E0" => wire'[i] = E0 /\ i < Len(wire')
               /\ Escaped(i)' => wire'[i].code = "lshift"
    <3>1. i \in 1 .. Len(wire) - 1 /\ i + 1 \in 1 .. Len(wire)
      BY <1>1
    <3>2. /\ wire[i + 1].code = "E0" => wire[i + 1] = E0 /\ i + 1 < Len(wire)
          /\ Escaped(i + 1) => wire[i + 1].code = "lshift"
      BY <3>1 DEF IInv, PrefixesArePaired
    <3>3. QED
      BY <1>1, <1>2, <3>1, <3>2
  <2>4. QED
    BY <2>2, <2>3 DEF PrefixesArePaired
<1>5. ASSUME NEW i
      PROVE  i \in ShiftCodes' <=> i \in 1 .. Len(wire) - 1 /\ i + 1 \in ShiftCodes
  <2>1. i \in ShiftCodes' <=> i \in 1 .. Len(wire) - 1 /\ ~ Escaped(i)' /\ wire'[i].code \in Shifts
    BY <1>1 DEF ShiftCodes
  <2>2. CASE i \in 1 .. Len(wire) - 1
    <3>1. i + 1 \in 1 .. Len(wire)
      BY <1>1, <2>2
    <3>2. i + 1 \in ShiftCodes <=> ~ Escaped(i + 1) /\ wire[i + 1].code \in Shifts
      BY <3>1 DEF ShiftCodes
    <3>3. QED
      BY <1>2, <2>1, <2>2, <3>2
  <2>3. QED
    BY <2>1, <2>2
<1>6. QED
  BY <1>1, <1>2, <1>3, <1>4, <1>5

(***************************************************************************)
(* The ring.                                                               *)
(***************************************************************************)

\* The next slot.
LEMMA AdvanceInRing ==
  ASSUME NEW i \in Indices
  PROVE  /\ Advance(i) \in Indices
         /\ Advance(i) = IF i + 1 < KEY_BUFFER_SIZE THEN i + 1 ELSE 0
<1>1. KEY_BUFFER_SIZE \in Nat \ {0} /\ i \in Nat /\ i < KEY_BUFFER_SIZE
  BY KeyboardAssumption DEF Indices
<1>2. i + 1 \in Int /\ - KEY_BUFFER_SIZE <= i + 1 /\ i + 1 < 2 * KEY_BUFFER_SIZE
  BY <1>1
<1>3. (i + 1) % KEY_BUFFER_SIZE = IF i + 1 < KEY_BUFFER_SIZE THEN i + 1
                                                             ELSE i + 1 - KEY_BUFFER_SIZE
  BY <1>1, <1>2
<1>4. QED
  BY <1>1, <1>3 DEF Indices, Advance

\* What a scancode types is a character or nothing.
LEMMA TypedIs ==
  ASSUME TypeOK, NEW code \in {"letter", "digit", "ctrl"}
  PROVE  /\ Typed(code) \in Characters \cup {NUL}
         /\ code = "ctrl" <=> Typed(code) = NUL
<1>1. shift_down \in BOOLEAN /\ caps_on \in BOOLEAN
  BY DEF TypeOK
<1>2. CASE code = "letter"
  BY <1>1, <1>2 DEF Typed, sc_shift, sc_normal, SwapCase, Characters, Letters, NUL
<1>3. CASE code = "digit"
  BY <1>1, <1>3 DEF Typed, sc_shift, sc_normal, SwapCase, Characters, Letters, NUL
<1>4. CASE code = "ctrl"
  BY <1>1, <1>4 DEF Typed, sc_shift, sc_normal, SwapCase, Characters, Letters, NUL
<1>5. QED
  BY <1>2, <1>3, <1>4

\* The scancode the handler takes: a prefix, the byte behind a prefix, a shift
\* key, caps lock, or a key of the tables.
LEMMA FirstScancode ==
  ASSUME IInv, wire # <<>>
  PROVE  /\ Head(wire) = wire[1] /\ 1 \in 1 .. Len(wire)
         /\ Head(wire) \in Scancodes
         /\ ext_prefix => Head(wire).code = "lshift"
         /\ \/ Head(wire) = E0
            \/ Head(wire).code \in Shifts \cup {"caps"}
            \/ Head(wire).code \in {"letter", "digit", "ctrl"}
<1>1. /\ Head(wire) = wire[1] /\ 1 \in 1 .. Len(wire)
      /\ wire[1] \in Scancodes
  BY EmptySeq, LenProperties, HeadTailProperties, ElementOfSeq DEF IInv, TypeOK
<1>2. wire[1].code \in Keys \cup Shifts \cup {"E0"}
  BY <1>1 DEF Scancodes
<1>3. wire[1].code # "print"
  BY <1>1 DEF IInv, NoOwnCode
<1>4. /\ wire[1].code = "E0" => wire[1] = E0
      /\ ext_prefix => wire[1].code = "lshift"
  BY <1>1 DEF IInv, PrefixesArePaired, Escaped
<1>5. QED
  BY <1>1, <1>2, <1>3, <1>4, KeyboardAssumption DEF Shifts

(***************************************************************************)
(* The invariant is inductive.                                             *)
(***************************************************************************)

\* At power-on nothing is pending or typed.
LEMMA InitInv == Init => IInv
<1> SUFFICES ASSUME Init PROVE IInv
  OBVIOUS
<1>1. TypeOK
  <2>1. doubt \in BOOLEAN /\ down \subseteq Keys /\ ready \in BOOLEAN /\ wire \in Seq(Scancodes)
    BY EmptySeq DEF Init
  <2>2. QED
    BY <2>1, KeyboardAssumption DEF Init, TypeOK, Indices
<1>2. Len(wire) = 0 /\ 1 .. Len(wire) = {}
  BY DEF Init
<1>3. ShiftCodes = {}
  BY <1>2 DEF ShiftCodes
<1>4. QED
  BY <1>1, <1>2, <1>3
  DEF Init, IInv, NoOwnCode, PrefixesArePaired, ShiftWillFollow, Agrees, Shifts, NothingDecoded

\* A key pressed keeps the invariant: a shift key pressed ends the list of pending
\* shift codes, and is held.
LEMMA PressInv ==
  ASSUME IInv, NEW key \in Keys, Press(key)
  PROVE  IInv'
<1>1. /\ wire' \in Seq(Scancodes)
      /\ NoOwnCode' /\ PrefixesArePaired'
      /\ ShiftCodes' = IF key \in Shifts THEN ShiftCodes \cup {Len(wire) + 1} ELSE ShiftCodes
      /\ \A i \in 1 .. Len(wire) : wire'[i] = wire[i]
      /\ key # "print" => wire'[Len(wire) + 1] = Byte(key, FALSE)
  BY SendingAppends, SendingKeepsTheWire DEF IInv, Press, flags
<1>2. TypeOK'
  BY <1>1 DEF IInv, TypeOK, Press, NewDoubt, ring, flags
<1>3. ShiftWillFollow'
  <2>1. Shifts \subseteq down' => doubt'
    BY DEF Press, NewDoubt
  <2>2. CASE key \notin Shifts
    <3>1. Shifts \cap down' = Shifts \cap down /\ (doubt => doubt')
      BY <2>2 DEF Press, NewDoubt
    <3>2. ShiftCodes' = ShiftCodes /\ \A i \in ShiftCodes : wire'[i] = wire[i]
      BY <1>1, <2>2 DEF ShiftCodes
    <3>3. shift_down' = shift_down
      BY DEF Press, flags
    <3>4. ShiftCodes' = {} => Agrees(shift_down)'
      BY <3>1, <3>2, <3>3 DEF IInv, ShiftWillFollow, Agrees
    <3>5. ASSUME NEW i \in ShiftCodes', \A j \in ShiftCodes' : j <= i
          PROVE  Agrees(~ wire[i].released)'
      <4>1. Agrees(~ wire[i].released) /\ wire'[i] = wire[i]
        BY <3>2, <3>5 DEF IInv, ShiftWillFollow
      <4>2. QED
        BY <3>1, <4>1 DEF Agrees
    <3>6. QED
      BY <2>1, <3>4, <3>5 DEF ShiftWillFollow
  <2>3. CASE key \in Shifts
    <3> PICK n \in Nat : n = Len(wire)
      BY LenProperties DEF IInv, TypeOK
    <3>1. key # "print" /\ wire'[n + 1] = Byte(key, FALSE)
      BY <1>1, <2>3 DEF Shifts
    <3>2. ShiftCodes' = ShiftCodes \cup {n + 1}
      BY <1>1, <2>3
    <3>3. \A i \in ShiftCodes' : (\A j \in ShiftCodes' : j <= i) => i = n + 1
      BY <3>2 DEF ShiftCodes
    <3>4. key \in Shifts \cap down'
      BY <2>3 DEF Press
    <3>5. Agrees(~ wire[n + 1].released)'
      BY <3>1, <3>4 DEF Agrees, Byte
    <3>6. QED
      BY <2>1, <3>2, <3>3, <3>5 DEF ShiftWillFollow
  <2>4. QED
    BY <2>2, <2>3
<1>4. NothingDecoded'
  BY DEF IInv, NothingDecoded, Press, flags
<1>5. QED
  BY <1>1, <1>2, <1>3, <1>4 DEF IInv

\* A key released keeps the invariant: if the other shift key is still held, both
\* were, and the history says so.
LEMMA ReleaseInv ==
  ASSUME IInv, NEW key \in Keys, Release(key)
  PROVE  IInv'
<1>1. /\ wire' \in Seq(Scancodes)
      /\ NoOwnCode' /\ PrefixesArePaired'
      /\ ShiftCodes' = IF key \in Shifts THEN ShiftCodes \cup {Len(wire) + 1} ELSE ShiftCodes
      /\ \A i \in 1 .. Len(wire) : wire'[i] = wire[i]
      /\ key # "print" => wire'[Len(wire) + 1] = Byte(key, TRUE)
  BY SendingAppends, SendingKeepsTheWire DEF IInv, Release, flags
<1>2. TypeOK'
  BY <1>1 DEF IInv, TypeOK, Release, ring, flags
<1>3. ShiftWillFollow'
  <2>1. Shifts \subseteq down' => doubt'
    BY DEF Release, IInv, ShiftWillFollow, Shifts
  <2>2. CASE key \notin Shifts
    <3>1. /\ Shifts \cap down' = Shifts \cap down
          /\ doubt => doubt'
      BY <2>2 DEF Release
    <3>2. ShiftCodes' = ShiftCodes /\ \A i \in ShiftCodes : wire'[i] = wire[i]
      BY <1>1, <2>2 DEF ShiftCodes
    <3>3. shift_down' = shift_down
      BY DEF Release, flags
    <3>4. ShiftCodes' = {} => Agrees(shift_down)'
      BY <3>1, <3>2, <3>3 DEF IInv, ShiftWillFollow, Agrees
    <3>5. ASSUME NEW i \in ShiftCodes', \A j \in ShiftCodes' : j <= i
          PROVE  Agrees(~ wire[i].released)'
      <4>1. Agrees(~ wire[i].released) /\ wire'[i] = wire[i]
        BY <3>2, <3>5 DEF IInv, ShiftWillFollow
      <4>2. QED
        BY <3>1, <4>1 DEF Agrees
    <3>6. QED
      BY <2>1, <3>4, <3>5 DEF ShiftWillFollow
  <2>3. CASE key \in Shifts
    <3> PICK n \in Nat : n = Len(wire)
      BY LenProperties DEF IInv, TypeOK
    <3>1. key # "print" /\ wire'[n + 1] = Byte(key, TRUE)
      BY <1>1, <2>3 DEF Shifts
    <3>2. ShiftCodes' = ShiftCodes \cup {n + 1}
      BY <1>1, <2>3
    <3>3. \A i \in ShiftCodes' : (\A j \in ShiftCodes' : j <= i) => i = n + 1
      BY <3>2 DEF ShiftCodes
    <3>4. Shifts \cap down' # {} => Shifts \subseteq down
      BY <2>3 DEF Release, Shifts
    <3>5. Shifts \cap down' # {} => doubt'
      BY <3>4 DEF Release, IInv, ShiftWillFollow
    <3>6. Agrees(~ wire[n + 1].released)'
      BY <3>1, <3>5 DEF Agrees, Byte
    <3>7. QED
      BY <2>1, <3>2, <3>3, <3>6 DEF ShiftWillFollow
  <2>4. QED
    BY <2>2, <2>3
<1>4. NothingDecoded'
  BY DEF IInv, NothingDecoded, Release, flags
<1>5. QED
  BY <1>1, <1>2, <1>3, <1>4 DEF IInv

\* A handled scancode keeps the invariant: what its shift code did to the flag is
\* what the list of pending codes promised.
LEMMA HandlerInv ==
  ASSUME IInv, keyboard_handler_main
  PROVE  IInv'
<1> DEFINE b == Head(wire)
<1>1. /\ b = wire[1] /\ 1 \in 1 .. Len(wire) /\ b \in Scancodes
      /\ ext_prefix => b.code = "lshift"
      /\ b = E0 \/ b.code \in Shifts \cup {"caps"} \/ b.code \in {"letter", "digit", "ctrl"}
  BY FirstScancode DEF keyboard_handler_main
<1>2. /\ ext_prefix' = (b = E0)
      /\ wire' = Tail(wire) /\ wire # <<>> /\ UNCHANGED <<got, ready, down, doubt>>
  BY DEF keyboard_handler_main, Decode, PrefixAfter
<1>3. /\ wire' \in Seq(Scancodes) /\ Len(wire) \in Nat \ {0}
      /\ NoOwnCode' /\ PrefixesArePaired'
      /\ \A i \in Nat \ {0} : i + 1 \in 1 .. Len(wire) =>
           wire'[i] = wire[i + 1] /\ Escaped(i)' = Escaped(i + 1)
      /\ \A i : i \in ShiftCodes' <=> i \in 1 .. Len(wire) - 1 /\ i + 1 \in ShiftCodes
  BY <1>2, TakingMovesUp
<1>4. b.released \in BOOLEAN
  BY <1>1 DEF Scancodes
<1>5. Ignored(b) <=> b = E0 \/ ext_prefix
  BY DEF Ignored
<1>6. /\ 1 \in ShiftCodes => shift_down' = ~ b.released
      /\ 1 \notin ShiftCodes => shift_down' = shift_down
  <2> HIDE DEF b
  <2>1. 1 \in ShiftCodes <=> ~ ext_prefix /\ b.code \in Shifts
    BY <1>1 DEF ShiftCodes, Escaped
  <2>2. b.code \in Shifts => b # E0
    BY DEF E0, Byte, Shifts
  <2>3. Decode(b)
    BY DEF keyboard_handler_main, b
  <2>4. CASE 1 \in ShiftCodes
    <3>1. ~ Ignored(b) /\ b.code \in Shifts
      BY <1>5, <2>1, <2>2, <2>4
    <3>2. /\ ~ (Ignored(b) \/ (b.code \notin Shifts /\ b.released))
          /\ b.code # "caps" /\ b.code \in Shifts \cup {"caps"}
      BY <3>1 DEF Shifts
    <3>3. shift_down' = ~ b.released
      BY <2>3, <3>2 DEF Decode
    <3>4. QED
      BY <2>4, <3>3
  <2>5. CASE 1 \notin ShiftCodes
    <3>1. ~ (~ Ignored(b) /\ b.code \in Shifts)
      BY <1>5, <2>1, <2>5
    <3>2. QED
      BY <2>3, <2>5, <3>1 DEF Decode
  <2>6. QED
    BY <2>4, <2>5
<1> HIDE DEF b
<1>7. TypeOK'
  <2>1. /\ key_buffer' \in [Indices -> Characters \cup {NUL}]
        /\ key_head' \in Indices /\ key_tail' \in Indices
        /\ caps_on' \in BOOLEAN
    <3>1. /\ key_buffer \in [Indices -> Characters \cup {NUL}]
          /\ key_head \in Indices /\ key_tail \in Indices /\ caps_on \in BOOLEAN
      BY DEF IInv, TypeOK
    <3>2. CASE UNCHANGED ring
      BY <3>1, <3>2 DEF ring, keyboard_handler_main, Decode, b
    <3>3. CASE /\ ~ Ignored(b) /\ b.code \notin Shifts \cup {"caps"}
               /\ push_key(Typed(b.code)) /\ UNCHANGED caps_on
      <4>1. b.code \in {"letter", "digit", "ctrl"}
        BY <1>1, <1>5, <3>3
      <4>2. Typed(b.code) \in Characters \cup {NUL}
        BY <4>1, TypedIs DEF IInv
      <4>3. Advance(key_head) \in Indices
        BY <3>1, AdvanceInRing
      <4>4. QED
        BY <3>1, <3>3, <4>2, <4>3 DEF push_key, ring
    <3>4. QED
      BY <3>2, <3>3 DEF keyboard_handler_main, Decode, b
  <2>2. shift_down' \in BOOLEAN
    BY <1>4, <1>6 DEF IInv, TypeOK
  <2>3. QED
    BY <1>2, <1>3, <2>1, <2>2 DEF IInv, TypeOK
<1>8. ShiftWillFollow'
  <2>1. Shifts \subseteq down' => doubt'
    BY <1>2 DEF IInv, ShiftWillFollow
  <2>2. ASSUME ShiftCodes' = {} PROVE Agrees(shift_down)'
    <3>1. \A i \in ShiftCodes : i = 1
      <4> SUFFICES ASSUME NEW i \in ShiftCodes, i # 1 PROVE FALSE
        OBVIOUS
      <4>1. i \in 1 .. Len(wire)
        BY DEF ShiftCodes
      <4>2. i - 1 \in 1 .. Len(wire) - 1 /\ (i - 1) + 1 = i
        BY <1>3, <4>1
      <4>3. QED
        BY <1>3, <2>2, <4>2
    <3>2. CASE 1 \in ShiftCodes
      <4>1. Agrees(~ wire[1].released)
        BY <3>1, <3>2 DEF IInv, ShiftWillFollow
      <4>2. QED
        BY <1>1, <1>2, <1>6, <3>2, <4>1 DEF Agrees
    <3>3. CASE 1 \notin ShiftCodes
      <4>1. Agrees(shift_down)
        BY <3>1, <3>3 DEF IInv, ShiftWillFollow
      <4>2. QED
        BY <1>2, <1>6, <3>3, <4>1 DEF Agrees
    <3>4. QED
      BY <3>2, <3>3
  <2>3. ASSUME NEW i \in ShiftCodes', \A j \in ShiftCodes' : j <= i
        PROVE  Agrees(~ wire[i].released)'
    <3>1. i \in 1 .. Len(wire) - 1 /\ i + 1 \in ShiftCodes
      BY <1>3
    <3>2. ASSUME NEW j \in ShiftCodes PROVE j <= i + 1
      <4>1. j \in 1 .. Len(wire)
        BY DEF ShiftCodes
      <4>2. CASE j = 1
        BY <1>3, <3>1, <4>2
      <4>3. CASE j # 1
        <5>1. j - 1 \in 1 .. Len(wire) - 1 /\ (j - 1) + 1 = j
          BY <1>3, <4>1, <4>3
        <5>2. j - 1 \in ShiftCodes'
          BY <1>3, <5>1
        <5>3. j - 1 <= i
          BY <2>3, <5>2
        <5>4. QED
          BY <1>3, <3>1, <4>1, <5>3
      <4>4. QED
        BY <4>2, <4>3
    <3>3. Agrees(~ wire[i + 1].released)
      BY <3>1, <3>2 DEF IInv, ShiftWillFollow
    <3>4. wire'[i] = wire[i + 1]
      BY <1>3, <3>1
    <3>5. QED
      BY <1>2, <3>3, <3>4 DEF Agrees
  <2>4. QED
    BY <2>1, <2>2, <2>3 DEF ShiftWillFollow
<1>9. NothingDecoded'
  BY DEF IInv, NothingDecoded, keyboard_handler_main
<1>10. QED
  BY <1>3, <1>7, <1>8, <1>9 DEF IInv

\* A read keeps the invariant.
LEMMA ReadInv ==
  ASSUME IInv, keyboard_get_char
  PROVE  IInv'
<1>1. UNCHANGED <<shift_down, caps_on, ext_prefix, ready, down, doubt, wire>>
  BY DEF keyboard_get_char, flags, keys
<1>2. TypeOK'
  <2>1. Advance(key_tail) \in Indices
    BY AdvanceInRing DEF IInv, TypeOK
  <2>2. QED
    BY <1>1, <2>1 DEF IInv, TypeOK, keyboard_get_char
<1>3. NoOwnCode' /\ PrefixesArePaired' /\ ShiftWillFollow' /\ NothingDecoded'
  BY <1>1 DEF IInv, NoOwnCode, PrefixesArePaired, ShiftWillFollow, ShiftCodes, Escaped, Agrees,
              NothingDecoded
<1>4. QED
  BY <1>2, <1>3 DEF IInv

\* Starting the driver keeps the invariant: unless a shift key is held or a code is
\* cut in two, the shift codes left on the wire are the last of those before.
LEMMA StartInv ==
  ASSUME IInv, keyboard_init
  PROVE  IInv'
<1>1. PICK n \in 0 .. Len(wire) :
        /\ wire' = SubSeq(wire, n + 1, Len(wire))
        /\ NewDoubt(Shifts \cap down # {} \/ (n > 0 /\ wire[n] = E0))
  BY DEF keyboard_init
<1>2. ~ ready /\ ready' = TRUE /\ UNCHANGED <<ring, flags, got, down>>
  BY DEF keyboard_init
<1>3. UNCHANGED <<key_buffer, key_head, key_tail, shift_down, caps_on, ext_prefix>>
      /\ shift_down = FALSE /\ ext_prefix = FALSE
  BY <1>2 DEF ring, flags, IInv, NothingDecoded, TypeOK
<1>4. PICK N \in Nat : N = Len(wire)
  BY LenProperties DEF IInv, TypeOK
<1>5. /\ wire' \in Seq(Scancodes) /\ Len(wire') = N - n /\ n \in Nat /\ n <= N
      /\ \A i \in 1 .. N - n : wire'[i] = wire[i + n] /\ i + n \in 1 .. N
  <2>1. wire \in Seq(Scancodes) /\ n + 1 \in 1 .. N + 1 /\ N \in n .. N
    BY <1>4 DEF IInv, TypeOK
  <2>2. /\ SubSeq(wire, n + 1, N) \in Seq(Scancodes)
        /\ Len(SubSeq(wire, n + 1, N)) = N - n
        /\ \A i \in 1 .. N - n : SubSeq(wire, n + 1, N)[i] = wire[i + n]
    <3>1. \A i \in n + 1 .. N : wire[i] \in Scancodes
      BY <1>4, <2>1, ElementOfSeq
    <3>2. IF n + 1 <= N THEN N - (n + 1) + 1 = N - n ELSE N - n = 0
      BY <2>1
    <3>3. QED
      BY <1>4, <2>1, <3>1, <3>2, SubSeqProperties
  <2>3. QED
    BY <1>1, <1>4, <2>2
<1>6. doubt' = (doubt \/ Shifts \cap down # {} \/ (n > 0 /\ wire[n] = E0))
  BY <1>1 DEF NewDoubt
<1>7. TypeOK'
  BY <1>2, <1>3, <1>5, <1>6 DEF IInv, TypeOK
<1>8. NoOwnCode' /\ NothingDecoded'
  BY <1>2, <1>4, <1>5 DEF IInv, NoOwnCode, NothingDecoded
<1>9. ~ Escaped(1)' /\ \A i \in 2 .. N - n : Escaped(i)' = Escaped(i + n)
  <2>1. ~ Escaped(1)'
    BY <1>3 DEF Escaped
  <2>2. ASSUME NEW i \in 2 .. N - n PROVE Escaped(i)' = Escaped(i + n)
    <3>1. i - 1 \in 1 .. N - n /\ i # 1 /\ i + n # 1 /\ (i - 1) + n = (i + n) - 1
      BY <1>4, <1>5
    <3>2. wire'[i - 1] = wire[(i + n) - 1]
      BY <1>5, <3>1
    <3>3. QED
      BY <3>1, <3>2 DEF Escaped
  <2>3. QED
    BY <2>1, <2>2
<1>10. PrefixesArePaired'
  <2>1. ~ ext_prefix'
    BY <1>3
  <2>2. ASSUME NEW i \in 1 .. N - n
        PROVE  /\ wire'[i].code = "E0" => wire'[i] = E0 /\ i < N - n
               /\ Escaped(i)' => wire'[i].code = "lshift"
    <3>1. wire'[i] = wire[i + n] /\ i + n \in 1 .. N /\ (i + n < N => i < N - n)
      BY <1>4, <1>5
    <3>2. /\ wire[i + n].code = "E0" => wire[i + n] = E0 /\ i + n < N
          /\ Escaped(i + n) => wire[i + n].code = "lshift"
      BY <1>4, <3>1 DEF IInv, PrefixesArePaired
    <3>3. Escaped(i)' => Escaped(i + n)
      <4>1. i = 1 \/ i \in 2 .. N - n
        BY <1>4, <1>5
      <4>2. QED
        BY <1>9, <4>1
    <3>4. QED
      BY <3>1, <3>2, <3>3
  <2>3. QED
    BY <1>5, <2>1, <2>2 DEF PrefixesArePaired
<1>11. ShiftWillFollow'
  <2>1. Shifts \subseteq down' => doubt'
    BY <1>2, <1>6 DEF IInv, ShiftWillFollow
  <2>2. CASE doubt'
    BY <2>1, <2>2 DEF ShiftWillFollow, Agrees
  <2>3. CASE ~ doubt'
    <3>1. ~ doubt /\ Shifts \cap down = {} /\ ~ (n > 0 /\ wire[n] = E0)
      BY <1>6, <2>3
    <3>2. ~ Escaped(n + 1)
      <4>1. CASE n = 0
        BY <1>3, <4>1 DEF Escaped
      <4>2. CASE n # 0
        <5>1. n + 1 # 1 /\ (n + 1) - 1 = n /\ n > 0
          BY <1>5, <4>2
        <5>2. QED
          BY <3>1, <5>1 DEF Escaped
      <4>3. QED
        BY <4>1, <4>2
    <3>3. ASSUME NEW i \in 1 .. N - n PROVE i \in ShiftCodes' <=> i + n \in ShiftCodes
      <4>1. Escaped(i)' = Escaped(i + n)
        <5>1. CASE i = 1
          <6>1. i + n = n + 1
            BY <1>5, <5>1
          <6>2. Escaped(1) \in BOOLEAN /\ Escaped(n + 1) \in BOOLEAN
            BY <1>3 DEF Escaped
          <6>3. ~ Escaped(i)' /\ ~ Escaped(i + n)
            BY <1>9, <3>2, <5>1, <6>1
          <6>4. Escaped(i)' = ext_prefix'
            BY <5>1 DEF Escaped
          <6>5. Escaped(i + n) \in BOOLEAN
            BY <6>1, <6>2
          <6>6. QED
            BY <1>3, <6>3, <6>4, <6>5
        <5>2. CASE i # 1
          <6>1. i \in 2 .. N - n
            BY <1>4, <1>5, <5>2
          <6>2. QED
            BY <1>9, <6>1
        <5>3. QED
          BY <5>1, <5>2
      <4>2. wire'[i] = wire[i + n] /\ i + n \in 1 .. N
        BY <1>5
      <4>3. QED
        BY <1>4, <1>5, <4>1, <4>2 DEF ShiftCodes
    <3>4. shift_down' = FALSE /\ Shifts \cap down' = {}
      BY <1>2, <1>3, <3>1
    <3>5. ASSUME NEW i \in ShiftCodes', \A j \in ShiftCodes' : j <= i
          PROVE  Agrees(~ wire[i].released)'
      <4>1. i \in 1 .. N - n
        BY <1>5 DEF ShiftCodes
      <4>2. i + n \in ShiftCodes
        BY <3>3, <4>1
      <4>3. ASSUME NEW j \in ShiftCodes PROVE j <= i + n
        <5>1. j \in 1 .. N
          BY <1>4 DEF ShiftCodes
        <5>2. CASE j <= n
          BY <1>5, <4>1, <5>1, <5>2
        <5>3. CASE ~ (j <= n)
          <6>1. j - n \in 1 .. N - n /\ (j - n) + n = j
            BY <1>4, <1>5, <5>1, <5>3
          <6>2. j - n \in ShiftCodes'
            BY <3>3, <6>1
          <6>3. j - n <= i
            BY <3>5, <6>2
          <6>4. QED
            BY <1>5, <4>1, <5>1, <6>3
        <5>4. QED
          BY <5>2, <5>3
      <4>4. Agrees(~ wire[i + n].released)
        BY <4>2, <4>3 DEF IInv, ShiftWillFollow
      <4>5. wire'[i] = wire[i + n]
        BY <1>5, <4>1
      <4>6. QED
        BY <3>1, <3>4, <4>4, <4>5 DEF Agrees
    <3>6. Agrees(shift_down)'
      BY <3>4 DEF Agrees
    <3>7. QED
      BY <2>1, <3>5, <3>6 DEF ShiftWillFollow
  <2>4. QED
    BY <2>2, <2>3
<1>12. QED
  BY <1>7, <1>8, <1>10, <1>11 DEF IInv

\* So does every step.
LEMMA NextInv == IInv /\ [Next]_vars => IInv'
<1> SUFFICES ASSUME IInv, [Next]_vars PROVE IInv'
  OBVIOUS
<1>1. ASSUME NEW key \in Keys, Press(key) PROVE IInv'
  BY <1>1, PressInv
<1>2. ASSUME NEW key \in Keys, Release(key) PROVE IInv'
  BY <1>2, ReleaseInv
<1>3. CASE keyboard_handler_main
  BY <1>3, HandlerInv
<1>4. CASE keyboard_get_char
  BY <1>4, ReadInv
<1>5. CASE keyboard_init
  BY <1>5, StartInv
<1>6. CASE UNCHANGED vars
  BY <1>6 DEF vars, ring, flags, keys, IInv, TypeOK, NoOwnCode, PrefixesArePaired,
              ShiftWillFollow, ShiftCodes, Escaped, Agrees, NothingDecoded
<1>7. QED
  BY <1>1, <1>2, <1>3, <1>4, <1>5, <1>6 DEF Next

\* The invariant holds in every state.
LEMMA Invariant == Spec => []IInv
  BY InitInv, NextInv, PTL DEF Spec

(***************************************************************************)
(* The properties of keyboard.c.                                           *)
(***************************************************************************)

\* The variables keep their types: head and tail stay in the ring, and only
\* characters are stored in it.
THEOREM TypeCorrect == Spec => []TypeOK
<1>1. IInv => TypeOK
  BY DEF IInv
<1>2. QED
  BY <1>1, Invariant, PTL

\* The decoder is never left waiting for the second half of a prefixed code.
THEOREM PrefixStaysInStep == Spec => []PrefixInStep
<1>1. IInv => PrefixInStep
  BY DEF IInv, PrefixesArePaired, PrefixInStep
<1>2. QED
  BY <1>1, Invariant, PTL

\* With every scancode handled and no doubt about the keys, the shift flag is set
\* exactly while a shift key is held, whatever was held or half sent when the driver
\* started and whatever prefixed codes, repeats and lost characters came since.
THEOREM ShiftAgrees == Spec => []ShiftFollowsKeys
<1>1. IInv => ShiftFollowsKeys
  <2> SUFFICES ASSUME IInv, ready, wire = <<>>
               PROVE  Agrees(shift_down)
    BY DEF ShiftFollowsKeys, Agrees
  <2>1. Len(wire) = 0 /\ 1 .. Len(wire) = {}
    OBVIOUS
  <2>2. ShiftCodes = {}
    BY <2>1 DEF ShiftCodes
  <2>3. QED
    BY <2>2 DEF IInv, ShiftWillFollow
<1>2. QED
  BY <1>1, Invariant, PTL

(***************************************************************************)
(* The ring as a queue.                                                    *)
(***************************************************************************)

\* The slot of the i-th oldest character.
Slot(tail, i) == IF tail + i - 1 < KEY_BUFFER_SIZE THEN tail + i - 1
                                                   ELSE tail + i - 1 - KEY_BUFFER_SIZE

\* What a slot holds.
Storable == Characters \cup {NUL}

\* How many characters lie between tail and head, and which.
HeldIn(head, tail) == (head - tail) % KEY_BUFFER_SIZE
StringIn(buffer, head, tail) ==
  [i \in 1 .. HeldIn(head, tail) |-> buffer[(tail + i - 1) % KEY_BUFFER_SIZE]]

\* What is between tail and head, read around the ring, is a sequence.
LEMMA RingContents ==
  ASSUME NEW buffer \in [Indices -> Storable], NEW head \in Indices, NEW tail \in Indices
  PROVE  /\ HeldIn(head, tail) \in 0 .. KEY_BUFFER_SIZE - 1
         /\ HeldIn(head, tail) = IF tail <= head THEN head - tail
                                                 ELSE head - tail + KEY_BUFFER_SIZE
         /\ StringIn(buffer, head, tail) \in Seq(Storable)
         /\ Len(StringIn(buffer, head, tail)) = HeldIn(head, tail)
         /\ \A i \in 1 .. HeldIn(head, tail) :
              /\ Slot(tail, i) \in Indices
              /\ StringIn(buffer, head, tail)[i] = buffer[Slot(tail, i)]
<1> DEFINE n == HeldIn(head, tail)
           s == StringIn(buffer, head, tail)
<1>1. /\ KEY_BUFFER_SIZE \in Nat \ {0}
      /\ head \in 0 .. KEY_BUFFER_SIZE - 1 /\ tail \in 0 .. KEY_BUFFER_SIZE - 1
  BY KeyboardAssumption DEF Indices
<1>2. n = IF tail <= head THEN head - tail ELSE head - tail + KEY_BUFFER_SIZE
  <2>1. PICK x \in Int : x = head - tail
    BY <1>1
  <2>2. - KEY_BUFFER_SIZE <= x /\ x < KEY_BUFFER_SIZE
    BY <1>1, <2>1
  <2>3. x % KEY_BUFFER_SIZE = IF x < 0 THEN x + KEY_BUFFER_SIZE ELSE x
    BY <1>1, <2>2
  <2>4. QED
    BY <1>1, <2>1, <2>3 DEF HeldIn
<1>3. n \in Nat /\ n < KEY_BUFFER_SIZE
  BY <1>1, <1>2
<1>4. s = [i \in 1 .. n |-> buffer[(tail + i - 1) % KEY_BUFFER_SIZE]]
  BY DEF StringIn
<1> HIDE DEF n, s
<1>5. ASSUME NEW i \in 1 .. n
      PROVE  /\ Slot(tail, i) \in Indices
             /\ (tail + i - 1) % KEY_BUFFER_SIZE = Slot(tail, i)
  <2>1. PICK x \in Int : x = tail + i - 1
    BY <1>1, <1>3
  <2>2. 0 <= x /\ x < 2 * KEY_BUFFER_SIZE
    BY <1>1, <1>3, <2>1
  <2>3. x % KEY_BUFFER_SIZE = IF x < KEY_BUFFER_SIZE THEN x ELSE x - KEY_BUFFER_SIZE
    BY <1>1, <2>2
  <2>4. QED
    BY <1>1, <2>1, <2>2, <2>3 DEF Slot, Indices
<1>6. \A i \in 1 .. n : Slot(tail, i) \in Indices /\ s[i] = buffer[Slot(tail, i)]
  BY <1>4, <1>5
<1>7. s \in [1 .. n -> Storable]
  BY <1>4, <1>5
<1>8. s \in Seq(Storable)
  BY <1>3, <1>7, SeqDef
<1>9. Len(s) = n
  BY <1>3, <1>7, <1>8, LenProperties
<1>10. n \in 0 .. KEY_BUFFER_SIZE - 1
  BY <1>1, <1>3
<1>11. QED
  BY <1>2, <1>6, <1>8, <1>9, <1>10 DEF n, s

\* The ring in one state.
LEMMA ContentsIs ==
  ASSUME TypeOK
  PROVE  /\ Buffered \in 0 .. KEY_BUFFER_SIZE - 1
         /\ Buffered = IF key_tail <= key_head THEN key_head - key_tail
                                               ELSE key_head - key_tail + KEY_BUFFER_SIZE
         /\ Contents \in Seq(Storable) /\ Len(Contents) = Buffered
         /\ \A i \in 1 .. Buffered :
              Slot(key_tail, i) \in Indices /\ Contents[i] = key_buffer[Slot(key_tail, i)]
<1>1. Buffered = HeldIn(key_head, key_tail)
  BY DEF Buffered, HeldIn
<1>2. Contents = StringIn(key_buffer, key_head, key_tail)
  BY <1>1 DEF Contents, StringIn
<1>3. /\ key_buffer \in [Indices -> Storable]
      /\ key_head \in Indices /\ key_tail \in Indices
  BY DEF TypeOK, Storable
<1>4. /\ HeldIn(key_head, key_tail) \in 0 .. KEY_BUFFER_SIZE - 1
      /\ HeldIn(key_head, key_tail) =
           IF key_tail <= key_head THEN key_head - key_tail
                                     ELSE key_head - key_tail + KEY_BUFFER_SIZE
      /\ StringIn(key_buffer, key_head, key_tail) \in Seq(Storable)
      /\ Len(StringIn(key_buffer, key_head, key_tail)) = HeldIn(key_head, key_tail)
      /\ \A i \in 1 .. HeldIn(key_head, key_tail) :
           /\ Slot(key_tail, i) \in Indices
           /\ StringIn(key_buffer, key_head, key_tail)[i] = key_buffer[Slot(key_tail, i)]
  BY <1>3, RingContents
<1>5. QED
  BY <1>1, <1>2, <1>4

\* The ring in the next state.
LEMMA NextContentsIs ==
  ASSUME TypeOK'
  PROVE  /\ Buffered' \in 0 .. KEY_BUFFER_SIZE - 1
         /\ Buffered' = IF key_tail' <= key_head' THEN key_head' - key_tail'
                                                  ELSE key_head' - key_tail' + KEY_BUFFER_SIZE
         /\ Contents' \in Seq(Storable) /\ Len(Contents') = Buffered'
         /\ \A i \in 1 .. Buffered' :
              Slot(key_tail', i) \in Indices /\ Contents'[i] = key_buffer'[Slot(key_tail', i)]
<1>1. Buffered' = HeldIn(key_head', key_tail')
  BY DEF Buffered, HeldIn
<1>2. Contents' = StringIn(key_buffer', key_head', key_tail')
  BY <1>1 DEF Contents, StringIn
<1>3. /\ key_buffer' \in [Indices -> Storable]
      /\ key_head' \in Indices /\ key_tail' \in Indices
  BY DEF TypeOK, Storable
<1>4. /\ HeldIn(key_head', key_tail') \in 0 .. KEY_BUFFER_SIZE - 1
      /\ HeldIn(key_head', key_tail') =
           IF key_tail' <= key_head' THEN key_head' - key_tail'
                                     ELSE key_head' - key_tail' + KEY_BUFFER_SIZE
      /\ StringIn(key_buffer', key_head', key_tail') \in Seq(Storable)
      /\ Len(StringIn(key_buffer', key_head', key_tail')) = HeldIn(key_head', key_tail')
      /\ \A i \in 1 .. HeldIn(key_head', key_tail') :
           /\ Slot(key_tail', i) \in Indices
           /\ StringIn(key_buffer', key_head', key_tail')[i] = key_buffer'[Slot(key_tail', i)]
  BY <1>3, RingContents
<1>5. QED
  BY <1>1, <1>2, <1>4

\* A character stored in a ring that is not full is appended.
LEMMA PushAppends ==
  ASSUME TypeOK, TypeOK', ~ Full, NEW c \in Characters, push_key(c)
  PROVE  /\ Buffered' = Buffered + 1 /\ Buffered < KEY_BUFFER_SIZE - 1
         /\ Contents' = Append(Contents, c)
<1>0. /\ KEY_BUFFER_SIZE \in Nat \ {0}
      /\ key_head \in 0 .. KEY_BUFFER_SIZE - 1 /\ key_tail \in 0 .. KEY_BUFFER_SIZE - 1
      /\ key_buffer \in [Indices -> Characters \cup {NUL}]
  BY KeyboardAssumption DEF TypeOK, Indices
<1>1. /\ key_tail' = key_tail /\ key_head' = Advance(key_head) /\ key_tail # Advance(key_head)
      /\ key_buffer' = [key_buffer EXCEPT ![key_head] = c]
  BY DEF push_key, Full
<1>2. Advance(key_head) = IF key_head + 1 < KEY_BUFFER_SIZE THEN key_head + 1 ELSE 0
  BY AdvanceInRing DEF TypeOK
<1>3. Buffered' = Buffered + 1 /\ Buffered < KEY_BUFFER_SIZE - 1
  <2>1. Buffered = IF key_tail <= key_head THEN key_head - key_tail
                                           ELSE key_head - key_tail + KEY_BUFFER_SIZE
    BY ContentsIs
  <2>2. Buffered' = IF key_tail' <= key_head' THEN key_head' - key_tail'
                                              ELSE key_head' - key_tail' + KEY_BUFFER_SIZE
    BY NextContentsIs
  <2>3. QED
    BY <1>0, <1>1, <1>2, <2>1, <2>2
<1>4. /\ Contents \in Seq(Storable) /\ Len(Contents) = Buffered /\ Buffered \in Nat
      /\ \A i \in 1 .. Buffered :
           Slot(key_tail, i) \in Indices /\ Contents[i] = key_buffer[Slot(key_tail, i)]
  BY ContentsIs, KeyboardAssumption
<1>5. /\ Contents' \in Seq(Storable) /\ Len(Contents') = Buffered + 1
      /\ \A i \in 1 .. Buffered + 1 : Contents'[i] = key_buffer'[Slot(key_tail, i)]
  BY <1>1, <1>3, NextContentsIs
<1>6. /\ Append(Contents, c) \in Seq(Storable)
      /\ Len(Append(Contents, c)) = Buffered + 1
      /\ \A i \in 1 .. Buffered : Append(Contents, c)[i] = Contents[i]
      /\ Append(Contents, c)[Buffered + 1] = c
  BY <1>4, AppendProperties DEF Storable
<1>7. ASSUME NEW i \in 1 .. Buffered + 1 PROVE Contents'[i] = Append(Contents, c)[i]
  <2>1. CASE i \in 1 .. Buffered
    <3>1. Slot(key_tail, i) # key_head
      <4>1. Buffered = IF key_tail <= key_head THEN key_head - key_tail
                                               ELSE key_head - key_tail + KEY_BUFFER_SIZE
        BY ContentsIs
      <4>2. QED
        BY <1>0, <2>1, <4>1 DEF Slot
    <3>2. QED
      BY <1>0, <1>1, <1>4, <1>5, <1>6, <2>1, <3>1
  <2>2. CASE i = Buffered + 1
    <3>1. Slot(key_tail, i) = key_head
      <4>1. Buffered = IF key_tail <= key_head THEN key_head - key_tail
                                               ELSE key_head - key_tail + KEY_BUFFER_SIZE
        BY ContentsIs
      <4>2. QED
        BY <1>0, <2>2, <4>1 DEF Slot
    <3>2. key_buffer'[key_head] = c
      BY <1>0, <1>1 DEF Indices
    <3>3. QED
      BY <1>5, <1>6, <2>2, <3>1, <3>2
  <2>3. QED
    BY <1>4, <2>1, <2>2
<1>8. Contents' = Append(Contents, c)
  BY <1>5, <1>6, <1>7, SeqEqual
<1>9. QED
  BY <1>3, <1>8

\* A read of a ring that is not empty takes the oldest character.
LEMMA ReadTakesOldest ==
  ASSUME TypeOK, TypeOK', key_head # key_tail, keyboard_get_char
  PROVE  /\ Contents # <<>>
         /\ got' = Head(Contents) /\ Contents' = Tail(Contents)
<1>0. /\ KEY_BUFFER_SIZE \in Nat \ {0}
      /\ key_head \in 0 .. KEY_BUFFER_SIZE - 1 /\ key_tail \in 0 .. KEY_BUFFER_SIZE - 1
      /\ key_buffer \in [Indices -> Characters \cup {NUL}]
  BY KeyboardAssumption DEF TypeOK, Indices
<1>1. /\ key_head' = key_head /\ key_buffer' = key_buffer
      /\ key_tail' = Advance(key_tail) /\ got' = key_buffer[key_tail]
  BY DEF keyboard_get_char
<1>2. Advance(key_tail) = IF key_tail + 1 < KEY_BUFFER_SIZE THEN key_tail + 1 ELSE 0
  BY AdvanceInRing DEF TypeOK
<1>3. Buffered' = Buffered - 1 /\ Buffered \in Nat \ {0}
  <2>1. Buffered = IF key_tail <= key_head THEN key_head - key_tail
                                           ELSE key_head - key_tail + KEY_BUFFER_SIZE
    BY ContentsIs
  <2>2. Buffered' = IF key_tail' <= key_head' THEN key_head' - key_tail'
                                              ELSE key_head' - key_tail' + KEY_BUFFER_SIZE
    BY NextContentsIs
  <2>3. QED
    BY <1>0, <1>1, <1>2, <2>1, <2>2
<1>4. /\ Contents \in Seq(Storable) /\ Len(Contents) = Buffered
      /\ \A i \in 1 .. Buffered :
           Slot(key_tail, i) \in Indices /\ Contents[i] = key_buffer[Slot(key_tail, i)]
  BY ContentsIs
<1>5. /\ Contents' \in Seq(Storable) /\ Len(Contents') = Buffered - 1
      /\ \A i \in 1 .. Buffered - 1 : Contents'[i] = key_buffer[Slot(key_tail', i)]
  BY <1>1, <1>3, NextContentsIs
<1>6. Contents # <<>>
  BY <1>3, <1>4, EmptySeq
<1>7. /\ Tail(Contents) \in Seq(Storable) /\ Len(Tail(Contents)) = Buffered - 1
      /\ \A i \in 1 .. Buffered - 1 : Tail(Contents)[i] = Contents[i + 1]
      /\ Head(Contents) = Contents[1]
  BY <1>4, <1>6, HeadTailProperties
<1>8. ASSUME NEW i \in 1 .. Buffered - 1 PROVE Contents'[i] = Tail(Contents)[i]
  <2>1. i + 1 \in 1 .. Buffered
    BY <1>3
  <2>2. Slot(key_tail', i) = Slot(key_tail, i + 1)
    <3>1. Buffered < KEY_BUFFER_SIZE
      BY <1>0, ContentsIs
    <3>2. QED
      BY <1>0, <1>1, <1>2, <1>3, <3>1 DEF Slot
  <2>3. QED
    BY <1>4, <1>5, <1>7, <2>1, <2>2
<1>9. Contents' = Tail(Contents)
  BY <1>5, <1>7, <1>8, SeqEqual
<1>10. got' = Head(Contents)
  <2>1. Slot(key_tail, 1) = key_tail
    BY <1>0 DEF Slot
  <2>2. 1 \in 1 .. Buffered
    BY <1>3
  <2>3. QED
    BY <1>1, <1>4, <1>7, <2>1, <2>2
<1>11. QED
  BY <1>6, <1>9, <1>10

(***************************************************************************)
(* The driver implements the queue.                                        *)
(***************************************************************************)

\* What a scancode does to the ring: nothing, or it types one character.
LEMMA HandlerTypes ==
  ASSUME IInv, keyboard_handler_main
  PROVE  /\ \/ UNCHANGED ring
            \/ \E c \in Characters : ~ Full /\ push_key(c)
         /\ Types(Head(wire)) => \E c \in Characters : push_key(c)
<1> DEFINE b == Head(wire)
<1>1. /\ ext_prefix => b.code = "lshift"
      /\ b = E0 \/ b.code \in Shifts \cup {"caps"} \/ b.code \in {"letter", "digit", "ctrl"}
  BY FirstScancode DEF keyboard_handler_main
<1>2. Decode(b)
  BY DEF keyboard_handler_main
<1>3. Ignored(b) <=> b = E0 \/ ext_prefix
  BY DEF Ignored
<1> HIDE DEF b
<1>4. CASE ~ Ignored(b) /\ b.code \notin Shifts \cup {"caps"} /\ ~ b.released
  <2>1. b.code \in {"letter", "digit", "ctrl"}
    BY <1>1, <1>3, <1>4
  <2>2. /\ Typed(b.code) \in Characters \cup {NUL}
        /\ b.code = "ctrl" <=> Typed(b.code) = NUL
    BY <2>1, TypedIs DEF IInv
  <2>3. IF Typed(b.code) = NUL THEN UNCHANGED ring ELSE push_key(Typed(b.code))
    BY <1>2, <1>4 DEF Decode
  <2>4. CASE Typed(b.code) = NUL
    BY <2>2, <2>3, <2>4 DEF Types, b
  <2>5. CASE Typed(b.code) # NUL
    <3>1. Typed(b.code) \in Characters /\ push_key(Typed(b.code))
      BY <2>2, <2>3, <2>5
    <3>2. Full => UNCHANGED ring
      BY <3>1 DEF push_key
    <3>3. QED
      BY <3>1, <3>2
  <2>6. QED
    BY <2>4, <2>5
<1>5. CASE ~ (~ Ignored(b) /\ b.code \notin Shifts \cup {"caps"} /\ ~ b.released)
  <2>1. UNCHANGED ring
    <3>1. CASE Ignored(b) \/ (b.code \notin Shifts /\ b.released)
      BY <1>2, <3>1 DEF Decode, ring
    <3>2. CASE ~ Ignored(b) /\ b.code \in Shifts \cup {"caps"}
      BY <1>2, <3>2 DEF Decode, ring
    <3>3. QED
      BY <1>5, <3>1, <3>2
  <2>2. ~ Types(b)
    BY <1>1, <1>3, <1>5 DEF Types, Shifts, E0, Byte
  <2>3. QED
    BY <2>1, <2>2 DEF b
<1>6. QED
  BY <1>4, <1>5

\* Contents depends on the ring alone.
LEMMA SameRing == UNCHANGED ring => UNCHANGED <<Contents, Buffered>>
  BY DEF ring, Contents, Buffered

\* The ring starts empty.
LEMMA InitImplements == Init => Queue!Init
<1> SUFFICES ASSUME Init PROVE Queue!Init
  OBVIOUS
<1>1. TypeOK
  BY InitInv DEF IInv
<1>2. Buffered = 0
  BY <1>1, ContentsIs DEF Init
<1>3. Contents = <<>>
  BY <1>1, <1>2, ContentsIs, EmptySeq
<1>4. QED
  BY <1>3 DEF Init, Queue!Init

\* Every step of the driver is a step of the queue, or leaves the queue alone.
LEMMA StepSimulation ==
  ASSUME IInv, IInv', [Next]_vars
  PROVE  [Queue!Next]_(Queue!vars)
<1>1. TypeOK /\ TypeOK'
  BY DEF IInv
<1>2. ASSUME UNCHANGED <<ring, got>> PROVE UNCHANGED Queue!vars
  BY <1>2, SameRing DEF Queue!vars
<1>3. ASSUME NEW key \in Keys, Press(key) \/ Release(key) PROVE UNCHANGED Queue!vars
  BY <1>2, <1>3 DEF Press, Release
<1>4. CASE keyboard_handler_main
  <2>1. UNCHANGED got
    BY <1>4 DEF keyboard_handler_main
  <2>2. CASE UNCHANGED ring
    BY <1>2, <2>1, <2>2
  <2>3. ASSUME NEW c \in Characters, ~ Full, push_key(c) PROVE Queue!Type(c)
    <3>1. /\ Buffered < KEY_BUFFER_SIZE - 1 /\ Len(Contents) = Buffered
          /\ Contents' = Append(Contents, c)
      BY <1>1, <2>3, PushAppends, ContentsIs
    <3>2. QED
      BY <2>1, <3>1 DEF Queue!Type
  <2>4. QED
    BY <1>4, <2>2, <2>3, HandlerTypes DEF Queue!Next
<1>5. CASE keyboard_get_char
  <2>1. CASE key_head = key_tail
    <3>1. UNCHANGED ring /\ got' = NUL
      BY <1>5, <2>1 DEF keyboard_get_char, ring
    <3>2. Buffered = 0
      BY <1>1, <2>1, ContentsIs DEF TypeOK, Indices
    <3>3. Contents = <<>>
      BY <1>1, <3>2, ContentsIs, EmptySeq
    <3>4. Queue!ReadNothing
      BY <3>1, <3>3, SameRing DEF Queue!ReadNothing
    <3>5. QED
      BY <3>4 DEF Queue!Next
  <2>2. CASE key_head # key_tail
    <3>1. Queue!Read
      BY <1>1, <1>5, <2>2, ReadTakesOldest DEF Queue!Read
    <3>2. QED
      BY <3>1 DEF Queue!Next
  <2>3. QED
    BY <2>1, <2>2
<1>6. CASE keyboard_init
  BY <1>2, <1>6 DEF keyboard_init
<1>7. CASE UNCHANGED vars
  BY <1>2, <1>7 DEF vars
<1>8. QED
  BY <1>3, <1>4, <1>5, <1>6, <1>7 DEF Next

\* The ring of keyboard.c is a first-in first-out queue of KEY_BUFFER_SIZE - 1
\* characters: none is read twice, out of order, or overwritten unread.
THEOREM RingIsAQueue == Spec => ImplementsKeyQueue
<1>1. IInv /\ IInv' /\ [Next]_vars => [Queue!Next]_(Queue!vars)
  BY StepSimulation
<1>2. QED
  BY <1>1, InitImplements, Invariant, PTL DEF Spec, Queue!Spec, ImplementsKeyQueue

\* A key that types a character puts it into the ring, unless the ring holds
\* KEY_BUFFER_SIZE - 1 characters.
THEOREM NothingElseIsLost == Spec => LostOnlyWhenFull
<1> DEFINE Kept == (ready /\ wire # <<>> /\ wire' = Tail(wire) /\ Types(Head(wire))
                      /\ Buffered < KEY_BUFFER_SIZE - 1) => Buffered' = Buffered + 1
<1>1. ASSUME IInv, IInv', Next, ready, wire # <<>>, wire' = Tail(wire), Types(Head(wire)),
             Buffered < KEY_BUFFER_SIZE - 1
      PROVE  Buffered' = Buffered + 1
  <2>1. TypeOK /\ TypeOK'
    BY <1>1 DEF IInv
  <2>2. Len(wire) \in Nat \ {0} /\ Len(wire') = Len(wire) - 1
    BY <1>1, <2>1, EmptySeq, HeadTailProperties DEF TypeOK
  <2>3. ~ \E key \in Keys : Press(key) \/ Release(key)
    <3> SUFFICES ASSUME NEW key \in Keys, Press(key) \/ Release(key) PROVE FALSE
      OBVIOUS
    <3>1. Len(wire') \in {Len(wire) + 1, Len(wire) + 2}
      BY <2>1, SendingAppends DEF Press, Release
    <3>2. QED
      BY <2>2, <3>1
  <2>4. ~ keyboard_get_char /\ ~ keyboard_init
    <3>1. ~ keyboard_get_char
      BY <2>2 DEF keyboard_get_char, keys
    <3>2. ~ keyboard_init
      BY <1>1 DEF keyboard_init
    <3>3. QED
      BY <3>1, <3>2
  <2>5. keyboard_handler_main
    BY <1>1, <2>3, <2>4 DEF Next
  <2>6. PICK c \in Characters : push_key(c)
    BY <1>1, <2>5, HandlerTypes
  <2>7. ~ Full
    <3>1. /\ key_head \in 0 .. KEY_BUFFER_SIZE - 1 /\ key_tail \in 0 .. KEY_BUFFER_SIZE - 1
          /\ KEY_BUFFER_SIZE \in Nat
      BY <2>1, KeyboardAssumption DEF TypeOK, Indices
    <3>2. Advance(key_head) = IF key_head + 1 < KEY_BUFFER_SIZE THEN key_head + 1 ELSE 0
      BY <2>1, AdvanceInRing DEF TypeOK
    <3>3. Buffered = IF key_tail <= key_head THEN key_head - key_tail
                                             ELSE key_head - key_tail + KEY_BUFFER_SIZE
      BY <2>1, ContentsIs
    <3>4. QED
      BY <1>1, <3>1, <3>2, <3>3 DEF Full
  <2>8. QED
    BY <2>1, <2>6, <2>7, PushAppends
<1>2. IInv /\ IInv' /\ [Next]_vars => [Kept]_vars
  BY <1>1
<1>3. QED
  BY <1>2, Invariant, PTL DEF Spec, LostOnlyWhenFull
=============================================================================
