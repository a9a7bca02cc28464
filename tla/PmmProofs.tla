----------------------------- MODULE PmmProofs -----------------------------
(***************************************************************************)
(* Proofs about the physical memory manager, for every frame size, bitmap  *)
(* size, set of clients and memory map.                                    *)
(***************************************************************************)
EXTENDS Pmm, TLAPS

(***************************************************************************)
(* Arithmetic of frames and addresses.                                     *)
(***************************************************************************)

\* The quotient's bounds.
LEMMA DivBounds ==
  ASSUME NEW a \in Nat, NEW b \in Nat \ {0}
  PROVE  /\ a \div b \in Nat
         /\ (a \div b) * b <= a
         /\ a < (a \div b) * b + b
OBVIOUS

\* The bounds determine the quotient.
LEMMA DivUnique ==
  ASSUME NEW p \in Nat, NEW a \in Nat, NEW b \in Nat \ {0},
         p * b <= a, a < p * b + b
  PROVE  a \div b = p
OBVIOUS

\* A number is its quotient and its remainder.
LEMMA DivMod ==
  ASSUME NEW a \in Nat, NEW b \in Nat \ {0}
  PROVE  /\ a % b \in Nat /\ a % b < b
         /\ a = (a \div b) * b + (a % b)
OBVIOUS

\* A number below the modulus is its own remainder.
LEMMA ModSmall ==
  ASSUME NEW a \in Nat, NEW b \in Nat, a < b
  PROVE  a % b = a
OBVIOUS

\* Frames are ordered as their addresses are.
LEMMA FrameOrder ==
  ASSUME NEW a \in Nat, NEW b \in Nat, NEW n \in Nat \ {0}, a * n < b * n
  PROVE  a < b
<1>1. CASE b <= a
  <2>1. PICK d \in Nat : a = b + d
    <3>1. a - b \in Nat /\ a = b + (a - b)
      BY <1>1
    <3>2. QED
      BY <3>1
  <2>2. a * n = b * n + d * n /\ d * n >= 0
    BY <2>1
  <2>3. QED
    BY <2>2
<1>2. QED
  BY <1>1

\* pmm_init starts past the zone below 1 MB and past the kernel.
LEMMA SafeStartIsSafe ==
  ASSUME NEW kernel_end \in Nat
  PROVE  /\ SafeStart(kernel_end) \in Nat
         /\ SafeStart(kernel_end) >= LegacyEnd
         /\ SafeStart(kernel_end) >= kernel_end
<1> DEFINE up == PageOf(kernel_end + PAGE_SIZE - 1) * PAGE_SIZE
<1>1. PAGE_SIZE \in Nat \ {0} /\ LegacyEnd \in Nat
  BY PmmAssumption
<1>2. up \in Nat /\ kernel_end + PAGE_SIZE - 1 < up + PAGE_SIZE
  BY <1>1, DivBounds DEF PageOf
<1>3. up >= kernel_end
  BY <1>1, <1>2
<1> HIDE DEF up
<1>4. SafeStart(kernel_end) = IF kernel_end > LegacyEnd THEN up ELSE LegacyEnd
  BY DEF SafeStart, up
<1>5. QED
  BY <1>1, <1>2, <1>3, <1>4

(***************************************************************************)
(* Type correctness.                                                       *)
(***************************************************************************)

\* The variables keep their types.
THEOREM TypeCorrect == Spec => []TypeOK
<1>1. Init => TypeOK
  BY PmmAssumption DEF Init, TypeOK, Pages
<1>2. TypeOK /\ [Next]_vars => TypeOK'
  <2> SUFFICES ASSUME TypeOK, [Next]_vars PROVE TypeOK'
    OBVIOUS
  <2> USE DEF TypeOK
  <2>1. CASE pmm_init
    <3> PICK mem_size \in MemSizes, kernel_end \in KernelEnds :
          /\ machine' = [mem_size |-> mem_size, kernel_end |-> kernel_end, mmap |-> {}]
          /\ total_pages' = TotalPages(mem_size)
          /\ pmm_bitmap' = Pages \ Unlocked(mem_size, kernel_end)
      BY <2>1 DEF pmm_init
    <3>1. mem_size \in Nat /\ kernel_end \in Nat
      BY PmmAssumption
    <3>2. total_pages' \in 0 .. BITMAP_SIZE
      <4>1. mem_size \div PAGE_SIZE \in Nat
        BY <3>1, DivBounds, PmmAssumption
      <4>2. QED
        BY <4>1, PmmAssumption DEF TotalPages, PageOf
    <3>3. QED
      BY <2>1, <3>1, <3>2 DEF pmm_init
  <2>2. CASE pmm_parse_mmap
    <3> PICK mmap \in MemoryMaps :
          /\ machine' = [machine EXCEPT !.mmap = mmap]
          /\ pmm_bitmap' = pmm_bitmap \cup UNION {LockedBy(e) : e \in mmap}
      BY <2>2 DEF pmm_parse_mmap
    <3>1. \A e \in mmap : LockedBy(e) \subseteq Pages
      BY DEF LockedBy
    <3>2. pmm_bitmap' \subseteq Pages
      BY <3>1
    <3>3. machine' \in [mem_size : Nat, kernel_end : Nat, mmap : SUBSET MmapEntry]
      BY PmmAssumption
    <3>4. QED
      BY <2>2, <3>2, <3>3 DEF pmm_parse_mmap
  <2>3. CASE \E count \in 0 .. MaxCount : pmm_alloc_fails(count)
    BY <2>3 DEF pmm_alloc_fails, vars
  <2>4. CASE \E c \in Clients, count \in 1 .. MaxCount : pmm_alloc_pages(c, count)
    <3> PICK c \in Clients, count \in 1 .. MaxCount : pmm_alloc_pages(c, count)
      BY <2>4
    <3> QED
      BY DEF pmm_alloc_pages, Candidates
  <2>5. CASE \E c \in Clients, s \in Pages, count \in 1 .. MaxCount :
               pmm_free_pages(c, s, count)
    <3> PICK c \in Clients, s \in Pages, count \in 1 .. MaxCount :
               pmm_free_pages(c, s, count)
      BY <2>5
    <3> QED
      BY DEF pmm_free_pages, Freed
  <2>6. CASE UNCHANGED vars
    BY <2>6 DEF vars
  <2> HIDE DEF TypeOK
  <2>7. QED
    BY <2>1, <2>2, <2>3, <2>4, <2>5, <2>6 DEF Next
<1>3. QED
  BY <1>1, <1>2, PTL DEF Spec

(***************************************************************************)
(* The inductive invariant: the bitmap is what boot locked plus what the   *)
(* clients hold.                                                           *)
(***************************************************************************)

\* Boot never unlocks a frame it does not track, and never frame 0.
LEMMA BootLockedInPages ==
  ASSUME TypeOK
  PROVE  BootLocked \subseteq Pages /\ 0 \in BootLocked
<1>1. BootLocked \subseteq Pages
  BY DEF BootLocked, LockedBy
<1>2. 0 \in Pages /\ Addr(0) = 0
  BY PmmAssumption DEF Pages, Addr
<1>3. SafeStart(machine.kernel_end) > 0
  BY SafeStartIsSafe, PmmAssumption DEF TypeOK
<1>4. 0 \notin Unlocked(machine.mem_size, machine.kernel_end)
  BY <1>2, <1>3, SafeStartIsSafe DEF Unlocked, TypeOK
<1>5. QED
  BY <1>1, <1>2, <1>4 DEF BootLocked

\* After boot every locked frame is accounted for, and by one owner.
THEOREM BitmapIsExact == Spec => []BitmapAccounts
<1>1. Init => BitmapAccounts
  BY DEF Init, BitmapAccounts, HeldFrames
<1>2. TypeOK /\ BitmapAccounts /\ [Next]_vars => BitmapAccounts'
  <2> SUFFICES ASSUME TypeOK, BitmapAccounts, [Next]_vars PROVE BitmapAccounts'
    OBVIOUS
  <2>1. CASE pmm_init
    <3>1. HeldFrames' = {} /\ held' = held
      BY <2>1 DEF pmm_init, BitmapAccounts, HeldFrames
    <3>2. pmm_bitmap' = BootLocked'
      BY <2>1 DEF pmm_init, BootLocked
    <3>3. machine'.mmap = {} /\ phase' = "sized"
      BY <2>1 DEF pmm_init
    <3>4. \A c, d \in Clients : c # d => (held[c] \cap held[d])' = {}
      BY <3>1 DEF BitmapAccounts
    <3>5. QED
      BY <3>1, <3>2, <3>3, <3>4 DEF BitmapAccounts
  <2>2. CASE pmm_parse_mmap
    <3>1. HeldFrames' = {} /\ held' = held /\ HeldFrames = {}
      BY <2>2 DEF pmm_parse_mmap, BitmapAccounts, HeldFrames
    <3> PICK mmap \in MemoryMaps :
          /\ machine' = [machine EXCEPT !.mmap = mmap]
          /\ pmm_bitmap' = pmm_bitmap \cup UNION {LockedBy(e) : e \in mmap}
      BY <2>2 DEF pmm_parse_mmap
    <3>2. pmm_bitmap = Pages \ Unlocked(machine.mem_size, machine.kernel_end)
      BY <2>2, <3>1 DEF pmm_parse_mmap, BitmapAccounts, BootLocked
    <3>3. /\ machine'.mem_size = machine.mem_size
          /\ machine'.kernel_end = machine.kernel_end
          /\ machine'.mmap = mmap
      BY DEF TypeOK
    <3>4. pmm_bitmap' = BootLocked'
      BY <3>2, <3>3 DEF BootLocked
    <3>5. QED
      BY <2>2, <3>1, <3>4 DEF BitmapAccounts, pmm_parse_mmap
  <2>3. CASE \E count \in 0 .. MaxCount : pmm_alloc_fails(count)
    BY <2>3 DEF pmm_alloc_fails, vars, BitmapAccounts, BootLocked, HeldFrames
  <2>4. CASE \E c \in Clients, count \in 1 .. MaxCount : pmm_alloc_pages(c, count)
    <3> PICK c \in Clients, count \in 1 .. MaxCount : pmm_alloc_pages(c, count)
      BY <2>4
    <3> PICK s \in Pages :
          /\ Run(s, count) \subseteq Pages \ pmm_bitmap
          /\ pmm_bitmap' = pmm_bitmap \cup Run(s, count)
          /\ held' = [held EXCEPT ![c] = @ \cup Run(s, count)]
      BY DEF pmm_alloc_pages, Candidates
    <3>1. phase = "ready" /\ phase' = "ready" /\ BootLocked' = BootLocked
      BY DEF pmm_alloc_pages, BootLocked
    <3>2. HeldFrames' = HeldFrames \cup Run(s, count)
      BY DEF TypeOK, HeldFrames
    <3>3. \A d, e \in Clients : d # e => (held[d] \cap held[e])' = {}
      BY <3>1 DEF TypeOK, BitmapAccounts, HeldFrames
    <3>4. QED
      BY <3>1, <3>2, <3>3 DEF BitmapAccounts
  <2>5. CASE \E c \in Clients, s \in Pages, count \in 1 .. MaxCount :
               pmm_free_pages(c, s, count)
    <3> PICK c \in Clients, s \in Pages, count \in 1 .. MaxCount :
               pmm_free_pages(c, s, count)
      BY <2>5
    <3> DEFINE given == Run(s, count)
    <3>1. /\ given \subseteq held[c]
          /\ pmm_bitmap' = pmm_bitmap \ given
          /\ held' = [held EXCEPT ![c] = @ \ given]
          /\ phase = "ready" /\ phase' = "ready" /\ BootLocked' = BootLocked
      BY DEF pmm_free_pages, Freed, BootLocked
    <3> HIDE DEF given
    <3>2. HeldFrames' = HeldFrames \ given
      BY <3>1 DEF TypeOK, HeldFrames, BitmapAccounts
    <3>3. \A d, e \in Clients : d # e => (held[d] \cap held[e])' = {}
      BY <3>1 DEF TypeOK, BitmapAccounts
    <3>4. given \cap BootLocked = {}
      BY <3>1 DEF BitmapAccounts, HeldFrames
    <3>5. QED
      BY <3>1, <3>2, <3>3, <3>4 DEF BitmapAccounts
  <2>6. CASE UNCHANGED vars
    BY <2>6 DEF vars, BitmapAccounts, BootLocked, HeldFrames
  <2>7. QED
    BY <2>1, <2>2, <2>3, <2>4, <2>5, <2>6 DEF Next
<1>3. QED
  BY <1>1, <1>2, TypeCorrect, PTL DEF Spec

(***************************************************************************)
(* What boot offers, and that the search finds a free run.                 *)
(***************************************************************************)

\* Of a reserved entry below 4 GB, pmm_parse_mmap leaves at most the last frame
\* unlocked, and none when the entry starts on a frame boundary.
LEMMA ReservedEntryLocked ==
  ASSUME NEW e \in MmapEntry, ReservedEntry(e), NEW p \in Pages,
         Overlaps(p, e.base, e.base + e.length), p \notin LockedBy(e)
  PROVE  e.base % PAGE_SIZE # 0 /\ p = PageOf(e.base + e.length - 1)
<1> DEFINE end == e.base + e.length
           off == e.base % PAGE_SIZE
           first == e.base \div PAGE_SIZE
<1>1. /\ PAGE_SIZE \in Nat \ {0} /\ AddrSpace \in Nat /\ p \in Nat
      /\ e.base \in Nat /\ e.length \in Nat /\ end \in Nat
  BY PmmAssumption DEF MmapEntry, Pages
<1>2. LowBase(e) = e.base /\ LowEnd(e) = end
  BY <1>1, ModSmall DEF LowBase, LowEnd, ReservedEntry
<1>3. off \in Nat /\ off < PAGE_SIZE /\ first \in Nat /\ e.base = first * PAGE_SIZE + off
  BY <1>1, DivMod, DivBounds
<1>4. p * PAGE_SIZE < end /\ e.base < p * PAGE_SIZE + PAGE_SIZE
  BY <1>1 DEF Overlaps, Addr
<1>5. ~ (e.base <= p * PAGE_SIZE + off /\ p * PAGE_SIZE + off < end)
  BY <1>2 DEF LockedBy, ReservedEntry, Addr
<1> HIDE DEF end, off, first
<1>6. e.base <= p * PAGE_SIZE + off
  <2>1. first * PAGE_SIZE < (p + 1) * PAGE_SIZE
    BY <1>1, <1>3, <1>4
  <2>2. first < p + 1
    BY <1>1, <1>3, <2>1, FrameOrder
  <2>3. first * PAGE_SIZE <= p * PAGE_SIZE
    BY <1>1, <1>3, <2>2
  <2>4. QED
    BY <1>1, <1>3, <2>3
<1>7. end <= p * PAGE_SIZE + off
  BY <1>1, <1>3, <1>5, <1>6
<1>8. off # 0
  BY <1>1, <1>4, <1>7
<1>9. (end - 1) \div PAGE_SIZE = p
  <2>1. /\ end - 1 \in Nat /\ p * PAGE_SIZE <= end - 1
        /\ end - 1 < p * PAGE_SIZE + PAGE_SIZE
    BY <1>1, <1>3, <1>4, <1>7
  <2>2. QED
    BY <1>1, <2>1, DivUnique
<1>10. QED
  BY <1>1, <1>8, <1>9 DEF off, end, PageOf

\* A frame that is free or held is one boot unlocked.
LEMMA OfferedIsUnlocked ==
  ASSUME TypeOK, BitmapAccounts, phase = "ready",
         NEW p \in FreeFrames \cup HeldFrames
  PROVE  /\ p \in Pages
         /\ p \in Unlocked(machine.mem_size, machine.kernel_end)
         /\ \A e \in machine.mmap : p \notin LockedBy(e)
<1>1. p \in Pages
  BY DEF TypeOK, FreeFrames, HeldFrames
<1>2. p \notin BootLocked
  BY DEF BitmapAccounts, FreeFrames
<1>3. QED
  BY <1>1, <1>2 DEF BootLocked

\* No frame that is free or in use overlaps the kernel, the zone below 1 MB, the
\* end of RAM or, but for an unaligned entry's last frame, a reserved entry.
THEOREM FramesAreSafe == Spec => []OfferedFramesAreSafe
<1>1. TypeOK /\ BitmapAccounts => OfferedFramesAreSafe
  <2> SUFFICES ASSUME TypeOK, BitmapAccounts, phase = "ready",
                      NEW p \in FreeFrames \cup HeldFrames
               PROVE  /\ Addr(p) >= LegacyEnd /\ Addr(p) >= machine.kernel_end
                      /\ Addr(p + 1) <= LegacyEnd + machine.mem_size
                      /\ \A e \in machine.mmap :
                           ReservedEntry(e) /\ Overlaps(p, e.base, e.base + e.length)
                             => e.base % PAGE_SIZE # 0
                                /\ p = PageOf(e.base + e.length - 1)
    BY DEF OfferedFramesAreSafe
  <2>1. /\ PAGE_SIZE \in Nat \ {0} /\ LegacyEnd \in Nat /\ LegacyEnd >= PAGE_SIZE
        /\ machine.mem_size \in Nat /\ machine.kernel_end \in Nat
        /\ machine.mmap \subseteq MmapEntry
    BY PmmAssumption DEF TypeOK
  <2>2. p \in Pages /\ p \in Nat
    BY OfferedIsUnlocked DEF Pages
  <2>3. SafeStart(machine.kernel_end) <= Addr(p) /\ Addr(p) < machine.mem_size
    BY OfferedIsUnlocked DEF Unlocked
  <2>4. Addr(p) \in Nat /\ Addr(p + 1) = Addr(p) + PAGE_SIZE
    BY <2>1, <2>2 DEF Addr
  <2>5. Addr(p) >= LegacyEnd /\ Addr(p) >= machine.kernel_end
    BY <2>1, <2>3, <2>4, SafeStartIsSafe
  <2>6. Addr(p + 1) <= LegacyEnd + machine.mem_size
    BY <2>1, <2>3, <2>4
  <2>7. ASSUME NEW e \in machine.mmap, ReservedEntry(e),
               Overlaps(p, e.base, e.base + e.length)
        PROVE  e.base % PAGE_SIZE # 0 /\ p = PageOf(e.base + e.length - 1)
    BY <2>1, <2>2, <2>7, OfferedIsUnlocked, ReservedEntryLocked
  <2>8. QED
    BY <2>5, <2>6, <2>7
<1>2. QED
  BY <1>1, TypeCorrect, BitmapIsExact, PTL

\* The search never misses a free run, for any request: skipping a full bitmap
\* word skips no free frame.
THEOREM SearchIsComplete == Spec => []AllocFindsRun
<1>1. AllocFindsRun
  <2> SUFFICES ASSUME NEW count \in 1 .. MaxCount, NEW s \in Pages,
                      Run(s, count) \subseteq FreeFrames
               PROVE  s \in Candidates(count)
    BY DEF AllocFindsRun
  <2>1. count \in Nat /\ count >= 1 /\ s \in Nat /\ WORD_BITS \in Nat \ {0}
    BY PmmAssumption DEF Pages
  <2>2. s \in Pages \ pmm_bitmap
    BY <2>1 DEF Run, FreeFrames
  <2>3. s \in Run((s \div WORD_BITS) * WORD_BITS, WORD_BITS)
    BY <2>1, DivBounds DEF Run
  <2>4. ~WordFull(s \div WORD_BITS)
    BY <2>2, <2>3 DEF WordFull
  <2>5. QED
    BY <2>4 DEF Candidates, FreeFrames
<1>2. QED
  BY <1>1, PTL

\* pmm_init skips no whole frame past the kernel.
LEMMA SafeStartIsTight ==
  ASSUME NEW kernel_end \in Nat, NEW p \in Nat,
         Addr(p) >= LegacyEnd, Addr(p) >= kernel_end
  PROVE  SafeStart(kernel_end) <= Addr(p)
<1> DEFINE q == PageOf(kernel_end + PAGE_SIZE - 1)
<1>1. PAGE_SIZE \in Nat \ {0} /\ LegacyEnd \in Nat
  BY PmmAssumption
<1>2. q \in Nat /\ q * PAGE_SIZE <= kernel_end + PAGE_SIZE - 1
  BY <1>1, DivBounds DEF PageOf
<1>3. SafeStart(kernel_end) = IF kernel_end > LegacyEnd THEN q * PAGE_SIZE ELSE LegacyEnd
  BY DEF SafeStart
<1> HIDE DEF q
<1>4. q * PAGE_SIZE < (p + 1) * PAGE_SIZE
  BY <1>1, <1>2 DEF Addr
<1>5. q < p + 1
  BY <1>1, <1>2, <1>4, FrameOrder
<1>6. q * PAGE_SIZE <= p * PAGE_SIZE
  BY <1>1, <1>2, <1>5
<1>7. QED
  BY <1>3, <1>6 DEF Addr

\* Locking an entry below 4 GB touches only frames the entry overlaps.
LEMMA LockedOverlaps ==
  ASSUME NEW e \in MmapEntry, e.usable \/ ReservedEntry(e),
         NEW p \in Pages, p \in LockedBy(e)
  PROVE  ~e.usable /\ e.length # 0 /\ Overlaps(p, e.base, e.base + e.length)
<1> DEFINE end == e.base + e.length
           off == e.base % PAGE_SIZE
<1>1. /\ PAGE_SIZE \in Nat \ {0} /\ AddrSpace \in Nat /\ p \in Nat
      /\ e.base \in Nat /\ e.length \in Nat /\ end \in Nat
  BY PmmAssumption DEF MmapEntry, Pages
<1>2. ~e.usable
  BY DEF LockedBy
<1>3. LowBase(e) = e.base /\ LowEnd(e) = end
  BY <1>1, <1>2, ModSmall DEF LowBase, LowEnd, ReservedEntry
<1>4. off \in Nat /\ off < PAGE_SIZE
  BY <1>1, DivMod
<1>5. e.base <= p * PAGE_SIZE + off /\ p * PAGE_SIZE + off < end
  BY <1>3 DEF LockedBy, Addr
<1> HIDE DEF off
<1>6. p * PAGE_SIZE < end /\ e.base < (p + 1) * PAGE_SIZE
  BY <1>1, <1>4, <1>5
<1>7. e.length # 0
  BY <1>1, <1>4, <1>5
<1>8. QED
  BY <1>2, <1>6, <1>7 DEF Overlaps, Addr

\* Of the usable RAM in the bitmap's reach, what is neither free nor held is the
\* last megabyte, all of it and nothing else.
THEOREM OnlyTheTopIsLost == Spec => []LostFramesAreTheTop
<1>1. TypeOK /\ BitmapAccounts => LostFramesAreTheTop
  <2> SUFFICES ASSUME TypeOK, BitmapAccounts, phase = "ready", ReservedBelow4GB,
                      NEW p \in UsableRam
               PROVE  p \in FreeFrames \cup HeldFrames <=> ~(Addr(p) >= machine.mem_size)
    BY DEF LostFramesAreTheTop
  <2>1. /\ p \in Pages /\ p \in Nat /\ machine.kernel_end \in Nat /\ machine.mem_size \in Nat
        /\ machine.mmap \subseteq MmapEntry /\ PAGE_SIZE \in Nat
    BY PmmAssumption DEF TypeOK, UsableRam, Pages
  <2>2. Addr(p) \in Nat
    BY <2>1 DEF Addr
  <2>3. CASE Addr(p) >= machine.mem_size
    <3>1. p \notin Unlocked(machine.mem_size, machine.kernel_end)
      BY <2>1, <2>2, <2>3 DEF Unlocked
    <3>2. p \in BootLocked
      BY <2>1, <3>1 DEF BootLocked
    <3>3. p \notin HeldFrames /\ p \in pmm_bitmap
      BY <3>2 DEF BitmapAccounts
    <3>4. QED
      BY <2>3, <3>3 DEF FreeFrames
  <2>4. CASE ~(Addr(p) >= machine.mem_size)
    <3>1. p \in Unlocked(machine.mem_size, machine.kernel_end)
      BY <2>1, <2>2, <2>4, SafeStartIsTight DEF Unlocked, UsableRam
    <3>2. \A e \in machine.mmap : p \notin LockedBy(e)
      BY <2>1, LockedOverlaps DEF ReservedBelow4GB, UsableRam
    <3>3. p \notin BootLocked
      BY <3>1, <3>2 DEF BootLocked
    <3>4. QED
      BY <2>1, <2>4, <3>3 DEF BitmapAccounts, FreeFrames
  <2>5. QED
    BY <2>3, <2>4
<1>2. QED
  BY <1>1, TypeCorrect, BitmapIsExact, PTL

(***************************************************************************)
(* Pmm implements PageAllocator.                                           *)
(***************************************************************************)

\* The owner of a frame, once boot is done: the one client that holds it, or
\* nobody, or the kernel for good.
OwnerIs ==
  \A p \in Pages :
    /\ \A c \in Clients : p \in held[c] => Owner[p] = c
    /\ p \notin HeldFrames => Owner[p] = IF p \in pmm_bitmap THEN "reserved" ELSE "free"

\* Owner has these values in every state the invariants allow.
LEMMA OwnerValue == TypeOK /\ BitmapAccounts /\ phase = "ready" => OwnerIs
<1> SUFFICES ASSUME TypeOK, BitmapAccounts, phase = "ready", NEW p \in Pages
             PROVE  /\ \A c \in Clients : p \in held[c] => Owner[p] = c
                    /\ p \notin HeldFrames
                         => Owner[p] = IF p \in pmm_bitmap THEN "reserved" ELSE "free"
  BY DEF OwnerIs
<1>1. Owner[p] = IF p \in HeldFrames THEN CHOOSE c \in Clients : p \in held[c]
                 ELSE IF p \in pmm_bitmap THEN "reserved" ELSE "free"
  BY DEF Owner
<1>2. ASSUME NEW c \in Clients, p \in held[c] PROVE Owner[p] = c
  <2>1. p \in HeldFrames
    BY <1>2 DEF HeldFrames
  <2>2. Owner[p] = CHOOSE d \in Clients : p \in held[d]
    BY <1>1, <2>1
  <2>3. \A d \in Clients : p \in held[d] => d = c
    BY <1>2 DEF BitmapAccounts
  <2>4. QED
    BY <1>2, <2>2, <2>3
<1>3. QED
  BY <1>1, <1>2

\* The same of the state after a step.
LEMMA OwnerPrimed ==
  /\ (TypeOK /\ BitmapAccounts /\ phase = "ready" => OwnerIs)'
  /\ Owner' = [p \in Pages |-> Owner'[p]]
<1>1. (TypeOK /\ BitmapAccounts /\ phase = "ready" => OwnerIs)'
  BY OwnerValue, PTL
<1>2. Owner' = [p \in Pages |-> Owner'[p]]
  BY DEF Owner
<1>3. QED
  BY <1>1, <1>2

\* Every step of the bitmap allocator is a step of the abstract one or changes
\* nothing the abstract one shows.
THEOREM Implements == Spec => ImplementsPageAllocator
<1>1. Init => Allocator!Init
  BY DEF Init, Allocator!Init, Owner
<1>2. TypeOK /\ BitmapAccounts /\ TypeOK' /\ BitmapAccounts' /\ [Next]_vars
        => [Allocator!Next]_(Allocator!vars)
  <2> SUFFICES ASSUME TypeOK, BitmapAccounts, TypeOK', BitmapAccounts', [Next]_vars
               PROVE  [Allocator!Next]_(Allocator!vars)
    OBVIOUS
  <2>1. phase = "ready" => OwnerIs
    BY OwnerValue
  <2>2. phase' = "ready" => OwnerIs'
    BY OwnerPrimed
  <2>3. CASE pmm_init
    BY <2>3 DEF pmm_init, Allocator!vars, Owner
  <2>4. CASE pmm_parse_mmap
    <3>1. phase = "sized" /\ phase' = "ready" /\ HeldFrames' = {}
      BY <2>4 DEF pmm_parse_mmap, BitmapAccounts, HeldFrames
    <3>2. 0 \in pmm_bitmap'
      BY <2>4, <3>1, BootLockedInPages DEF pmm_parse_mmap, BitmapAccounts
    <3>3. Owner' = [p \in Pages |-> IF p \in pmm_bitmap' THEN "reserved" ELSE "free"]
      BY <3>1 DEF Owner
    <3>4. pmm_bitmap' \in SUBSET Pages
      BY DEF TypeOK
    <3>5. Allocator!Open
      BY <3>1, <3>2, <3>3, <3>4 DEF Allocator!Open
    <3>6. QED
      BY <3>5 DEF Allocator!Next
  <2>5. CASE \E count \in 0 .. MaxCount : pmm_alloc_fails(count)
    BY <2>5 DEF pmm_alloc_fails, vars, Allocator!vars, Owner, HeldFrames
  <2>6. CASE \E c \in Clients, count \in 1 .. MaxCount : pmm_alloc_pages(c, count)
    <3> PICK c \in Clients, count \in 1 .. MaxCount : pmm_alloc_pages(c, count)
      BY <2>6
    <3> PICK s \in Pages :
          /\ Run(s, count) \subseteq Pages \ pmm_bitmap
          /\ pmm_bitmap' = pmm_bitmap \cup Run(s, count)
          /\ held' = [held EXCEPT ![c] = @ \cup Run(s, count)]
      BY DEF pmm_alloc_pages, Candidates
    <3> DEFINE last == s + count - 1
    <3>1. s \in Pages /\ last \in Pages /\ Run(s, count) = s .. last
      BY DEF Run, Pages
    <3>2. phase = "ready" /\ phase' = "ready" /\ OwnerIs /\ OwnerIs'
      BY <2>1, <2>2 DEF pmm_alloc_pages
    <3> HIDE DEF last
    <3>3. \A p \in s .. last : Owner[p] = "free"
      BY <3>1, <3>2 DEF OwnerIs, BitmapAccounts
    <3>4. \A p \in Pages : Owner'[p] = IF p \in s .. last THEN c ELSE Owner[p]
      <4> SUFFICES ASSUME NEW p \in Pages
                   PROVE  Owner'[p] = IF p \in s .. last THEN c ELSE Owner[p]
        OBVIOUS
      <4>1. CASE p \in s .. last
        BY <3>1, <3>2, <4>1 DEF OwnerIs, TypeOK
      <4>2. CASE p \notin s .. last
        <5>1. /\ \A d \in Clients : p \in held'[d] <=> p \in held[d]
              /\ p \in pmm_bitmap' <=> p \in pmm_bitmap
          BY <3>1, <4>2 DEF TypeOK
        <5>2. p \in HeldFrames' <=> p \in HeldFrames
          BY <5>1 DEF HeldFrames
        <5>3. QED
          BY <3>2, <4>2, <5>1, <5>2 DEF OwnerIs, HeldFrames
      <4>3. QED
        BY <4>1, <4>2
    <3>5. Owner' = [p \in Pages |-> IF p \in s .. last THEN c ELSE Owner[p]]
      BY <3>4, OwnerPrimed
    <3>6. Allocator!Grant(c)
      BY <3>1, <3>2, <3>3, <3>5 DEF Allocator!Grant
    <3>7. QED
      BY <3>6 DEF Allocator!Next
  <2>7. CASE \E c \in Clients, s \in Pages, count \in 1 .. MaxCount :
               pmm_free_pages(c, s, count)
    <3> PICK c \in Clients, s \in Pages, count \in 1 .. MaxCount :
               pmm_free_pages(c, s, count)
      BY <2>7
    <3> DEFINE last == s + count - 1
    <3>1. /\ s .. last \subseteq held[c]
          /\ pmm_bitmap' = pmm_bitmap \ (s .. last)
          /\ held' = [held EXCEPT ![c] = @ \ (s .. last)]
      BY DEF pmm_free_pages, Freed, Run
    <3>2. s \in Pages /\ last \in s .. last
      BY DEF Pages
    <3>3. last \in Pages
      BY <3>1, <3>2 DEF TypeOK
    <3>4. phase = "ready" /\ phase' = "ready" /\ OwnerIs /\ OwnerIs'
      BY <2>1, <2>2 DEF pmm_free_pages, Freed
    <3> HIDE DEF last
    <3>5. \A p \in s .. last : p \in Pages /\ Owner[p] = c
      BY <3>1, <3>4 DEF OwnerIs, TypeOK
    <3>6. \A p \in Pages : Owner'[p] = IF p \in s .. last THEN "free" ELSE Owner[p]
      <4> SUFFICES ASSUME NEW p \in Pages
                   PROVE  Owner'[p] = IF p \in s .. last THEN "free" ELSE Owner[p]
        OBVIOUS
      <4>1. CASE p \in s .. last
        <5>1. \A d \in Clients : p \notin held'[d]
          BY <3>1, <4>1 DEF BitmapAccounts, TypeOK
        <5>2. p \notin HeldFrames' /\ p \notin pmm_bitmap'
          BY <3>1, <4>1, <5>1 DEF HeldFrames
        <5>3. QED
          BY <3>4, <4>1, <5>2 DEF OwnerIs
      <4>2. CASE p \notin s .. last
        <5>1. /\ \A d \in Clients : p \in held'[d] <=> p \in held[d]
              /\ p \in pmm_bitmap' <=> p \in pmm_bitmap
          BY <3>1, <4>2 DEF TypeOK
        <5>2. p \in HeldFrames' <=> p \in HeldFrames
          BY <5>1 DEF HeldFrames
        <5>3. QED
          BY <3>4, <4>2, <5>1, <5>2 DEF OwnerIs, HeldFrames
      <4>3. QED
        BY <4>1, <4>2
    <3>7. Owner' = [p \in Pages |-> IF p \in s .. last THEN "free" ELSE Owner[p]]
      BY <3>6 DEF Owner
    <3>8. Allocator!Return(c)
      BY <3>2, <3>3, <3>4, <3>5, <3>7 DEF Allocator!Return
    <3>9. QED
      BY <3>8 DEF Allocator!Next
  <2>8. CASE UNCHANGED vars
    BY <2>8 DEF vars, Allocator!vars, Owner, HeldFrames
  <2>9. QED
    BY <2>3, <2>4, <2>5, <2>6, <2>7, <2>8 DEF Next
<1>3. QED
  BY <1>1, <1>2, TypeCorrect, BitmapIsExact, PTL
     DEF Spec, ImplementsPageAllocator, Allocator!Spec

=============================================================================
