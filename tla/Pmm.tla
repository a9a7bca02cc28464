-------------------------------- MODULE Pmm --------------------------------
(***************************************************************************)
(* The physical memory manager (pmm.c): a bitmap with one bit per page     *)
(* frame, first-fit allocation of contiguous runs, and the two boot steps  *)
(* that decide which frames are usable (pmm_init, then pmm_parse_mmap).    *)
(***************************************************************************)
EXTENDS Integers

CONSTANTS
  PAGE_SIZE,     \* bytes in a frame                        (4096)
  BITMAP_SIZE,   \* frames the bitmap covers                (32768)
  WORD_BITS,     \* frames in one word of the bitmap        (32)
  LegacyEnd,     \* end of the zone below 1 MB              (0x100000)
  AddrSpace,     \* addresses are uint32_t: modulo this     (2^32)
  Clients,       \* callers of the allocator
  MaxCount,      \* bound: longest run a client asks for
  MemSizes,      \* bound: values of mem_size tried at boot
  KernelEnds,    \* bound: values of kernel_end_addr tried at boot
  MemoryMaps     \* bound: multiboot memory maps tried at boot

\* An entry of the multiboot memory map; base and length are 64-bit fields.
MmapEntry == [base : Nat, length : Nat, usable : BOOLEAN]

\* The code's view of an entry: the low half of the base, and the sum of the
\* low halves in 32 bits.
LowBase(entry) == entry.base % AddrSpace
LowEnd(entry) == (entry.base + entry.length) % AddrSpace

\* The loops of pmm_init and pmm_parse_mmap end only if the address they
\* advance by a frame does not wrap past the last frame of the address space;
\* the machines tried are those on which they end.
ASSUME PmmAssumption ==
  /\ PAGE_SIZE \in Nat \ {0} /\ BITMAP_SIZE \in Nat \ {0}
  /\ WORD_BITS \in Nat \ {0}
  /\ LegacyEnd \in Nat /\ LegacyEnd >= PAGE_SIZE /\ LegacyEnd % PAGE_SIZE = 0
  /\ AddrSpace \in Nat \ {0} /\ AddrSpace % PAGE_SIZE = 0
  /\ MaxCount \in Nat
  /\ MemSizes \subseteq 0 .. (AddrSpace - PAGE_SIZE)
  /\ KernelEnds \subseteq 0 .. (AddrSpace - PAGE_SIZE)
  /\ MemoryMaps \subseteq SUBSET MmapEntry
  /\ \A mmap \in MemoryMaps : \A e \in mmap : LowEnd(e) <= AddrSpace - PAGE_SIZE
  /\ Clients \cap {"free", "reserved"} = {}

VARIABLES
  pmm_bitmap,    \* the frames whose bit is 1 (locked)
  total_pages,   \* frames of RAM counted by pmm_init
  phase,         \* "bss", "sized" (pmm_init done), "ready" (map parsed)
  machine,       \* what the boot loader reported: mem_size, kernel_end, mmap
  held           \* client -> frames it was given and has not freed

vars == <<pmm_bitmap, total_pages, phase, machine, held>>

Pages == 0 .. (BITMAP_SIZE - 1)
PageOf(addr) == addr \div PAGE_SIZE
Addr(page) == page * PAGE_SIZE

-----------------------------------------------------------------------------
(* Boot. *)

\* The first address pmm_init unlocks: past the legacy zone and, rounded up to
\* a frame, past the kernel image and the RAM disk.
SafeStart_RoundsDown(kernel_end) ==     \* fault: the sum is not rounded up
  IF kernel_end > LegacyEnd THEN PageOf(kernel_end) * PAGE_SIZE ELSE LegacyEnd

SafeStart(kernel_end) ==
  IF kernel_end > LegacyEnd
    THEN PageOf(kernel_end + PAGE_SIZE - 1) * PAGE_SIZE
    ELSE LegacyEnd

\* Frames pmm_init unlocks after locking everything.
Unlocked(mem_size, kernel_end) ==
  {p \in Pages : SafeStart(kernel_end) <= Addr(p) /\ Addr(p) < mem_size}

\* Frames pmm_parse_mmap locks for one entry.  It walks from the low half of
\* the base in steps of a frame while below the 32-bit sum of base and length.
LockedBy_PastEnd(entry) ==     \* fault: <= instead of < in the loop
  {p \in Pages : LET addr == Addr(p) + (LowBase(entry) % PAGE_SIZE)
                 IN /\ ~entry.usable
                    /\ LowBase(entry) <= addr /\ addr <= LowEnd(entry)}

LockedBy(entry) ==
  {p \in Pages : LET addr == Addr(p) + (LowBase(entry) % PAGE_SIZE)
                 IN /\ ~entry.usable
                    /\ LowBase(entry) <= addr /\ addr < LowEnd(entry)}

TotalPages_Unclamped(mem_size) == PageOf(mem_size)     \* fault: no upper bound

TotalPages(mem_size) ==
  IF PageOf(mem_size) > BITMAP_SIZE THEN BITMAP_SIZE ELSE PageOf(mem_size)

pmm_init ==
  /\ phase = "bss"
  /\ \E mem_size \in MemSizes, kernel_end \in KernelEnds :
       /\ machine' = [mem_size |-> mem_size, kernel_end |-> kernel_end, mmap |-> {}]
       /\ total_pages' = TotalPages(mem_size)
       /\ pmm_bitmap' = Pages \ Unlocked(mem_size, kernel_end)
  /\ phase' = "sized"
  /\ UNCHANGED held

\* An empty map stands for a boot loader that supplies none (init_memory then
\* skips the call).
pmm_parse_mmap ==
  /\ phase = "sized"
  /\ \E mmap \in MemoryMaps :
       /\ machine' = [machine EXCEPT !.mmap = mmap]
       /\ pmm_bitmap' = pmm_bitmap \cup UNION {LockedBy(e) : e \in mmap}
  /\ phase' = "ready"
  /\ UNCHANGED <<total_pages, held>>

-----------------------------------------------------------------------------
(* Allocation and release. *)

Run(start, count) == start .. (start + count - 1)

\* pmm_alloc_pages skips a bitmap word that reads 0xFFFFFFFF.
WordFull_AnyBit(word) ==     \* fault: a word with one bit set is skipped
  (Pages \cap Run(word * WORD_BITS, WORD_BITS)) \cap pmm_bitmap # {}

WordFull(word) ==
  (Pages \cap Run(word * WORD_BITS, WORD_BITS)) \subseteq pmm_bitmap

\* The start pages whose run of count frames pmm_alloc_pages finds free.
Candidates_FirstOnly(count) ==     \* fault: only the first frame is tested
  {s \in Pages : s \notin pmm_bitmap /\ s + count <= BITMAP_SIZE}

Candidates(count) ==
  {s \in Pages : /\ ~WordFull(s \div WORD_BITS)
                 /\ Run(s, count) \subseteq Pages \ pmm_bitmap}

\* Success: the lowest candidate is locked and returned.
pmm_alloc_pages(client, count) ==
  /\ phase = "ready"
  /\ count > 0
  /\ \E s \in Candidates(count) :
       /\ \A t \in Candidates(count) : s <= t
       /\ pmm_bitmap' = pmm_bitmap \cup Run(s, count)
       /\ held' = [held EXCEPT ![client] = @ \cup Run(s, count)]
  /\ UNCHANGED <<total_pages, phase, machine>>

\* Failure: a zero count or no free run returns the null pointer.
pmm_alloc_fails(count) ==
  /\ phase = "ready"
  /\ count = 0 \/ Candidates(count) = {}
  /\ UNCHANGED vars

Freed_OneTooMany(start, count) == Run(start, count + 1)     \* fault: i <= count
Freed(start, count) == Run(start, count)

\* A client frees a run of frames it holds, all of a block or part of it.
pmm_free_pages(client, start, count) ==
  /\ phase = "ready"
  /\ Run(start, count) \subseteq held[client]
  /\ pmm_bitmap' = pmm_bitmap \ Freed(start, count)
  /\ held' = [held EXCEPT ![client] = @ \ Run(start, count)]
  /\ UNCHANGED <<total_pages, phase, machine>>

Init ==
  /\ pmm_bitmap = {} /\ total_pages = 0
  /\ phase = "bss"
  /\ machine = [mem_size |-> 0, kernel_end |-> 0, mmap |-> {}]
  /\ held = [c \in Clients |-> {}]

Next ==
  \/ pmm_init
  \/ pmm_parse_mmap
  \/ \E count \in 0 .. MaxCount : pmm_alloc_fails(count)
  \/ \E c \in Clients, count \in 1 .. MaxCount : pmm_alloc_pages(c, count)
  \/ \E c \in Clients, s \in Pages, count \in 1 .. MaxCount :
       pmm_free_pages(c, s, count)

Spec == Init /\ [][Next]_vars

-----------------------------------------------------------------------------
(* Properties. *)

\* The variables keep their types.
TypeOK ==
  /\ pmm_bitmap \subseteq Pages
  /\ total_pages \in 0 .. BITMAP_SIZE
  /\ phase \in {"bss", "sized", "ready"}
  /\ machine \in [mem_size : Nat, kernel_end : Nat, mmap : SUBSET MmapEntry]
  /\ held \in [Clients -> SUBSET Pages]

HeldFrames == UNION {held[c] : c \in Clients}
FreeFrames == Pages \ pmm_bitmap

\* Some byte of frame p lies in the half-open byte range [first, end).
Overlaps(p, first, end) == Addr(p) < end /\ first < Addr(p + 1)

ReservedEntry(e) == ~e.usable /\ e.base + e.length < AddrSpace
ReservedBelow4GB == \A e \in machine.mmap : e.usable \/ ReservedEntry(e)

\* Once boot is done, no frame that is free or in a client's hands holds a byte
\* of the zone below 1 MB, of the kernel or of the RAM disk, or lies past the
\* end of RAM (which starts at 1 MB).  Of a reserved entry of the memory map
\* below 4 GB, pmm_parse_mmap can miss only the last frame, and only when the
\* entry does not start on a frame boundary.
OfferedFramesAreSafe ==
  phase = "ready" =>
    \A p \in FreeFrames \cup HeldFrames :
      /\ Addr(p) >= LegacyEnd /\ Addr(p) >= machine.kernel_end
      /\ Addr(p + 1) <= LegacyEnd + machine.mem_size
      /\ \A e \in machine.mmap :
           ReservedEntry(e) /\ Overlaps(p, e.base, e.base + e.length)
             => e.base % PAGE_SIZE # 0 /\ p = PageOf(e.base + e.length - 1)

\* Whole frames of RAM past the kernel that no reserved entry touches.  RAM above
\* 1 MB is mem_size bytes long: init_memory passes mem_upper (kernel.c:354), a
\* size, where pmm_init wants the address of the end.
UsableRam ==
  {p \in Pages :
     /\ Addr(p) >= LegacyEnd /\ Addr(p) >= machine.kernel_end
     /\ Addr(p + 1) <= LegacyEnd + machine.mem_size
     /\ \A e \in machine.mmap :
          e.usable \/ e.length = 0 \/ ~Overlaps(p, e.base, e.base + e.length)}

\* Of the usable RAM that the bitmap covers, the frames neither free nor in a
\* client's hands are exactly those in the last megabyte, which pmm_init never
\* unlocks (pmm.c:93): nothing else is lost at boot, by rounding or to the locks
\* of its neighbours, or leaks later.  (pmm.c:84 says of that loop "Open up
\* available RAM", which is so but for the last megabyte.)  Reserved entries above
\* 4 GB are left out: their low halves lock other frames.
LostFramesAreTheTop ==
  phase = "ready" /\ ReservedBelow4GB =>
    UsableRam \ (FreeFrames \cup HeldFrames) = {p \in UsableRam : Addr(p) >= machine.mem_size}



\* pmm_alloc_pages returns the null pointer only when it must: whenever some
\* run of count frames is free, also across bitmap words and at the end of the
\* bitmap, the search finds a candidate.
AllocFindsRun ==
  phase = "ready" =>
    \A count \in 1 .. MaxCount :
      (\E s \in Pages : Run(s, count) \subseteq FreeFrames) => Candidates(count) # {}

\* The bitmap is exactly what boot locked for this machine plus what clients
\* hold; no two clients hold the same frame, none holds a frame boot locked, and
\* nobody holds a frame before the memory map is parsed.
BootLocked ==
  (Pages \ Unlocked(machine.mem_size, machine.kernel_end))
    \cup UNION {LockedBy(e) : e \in machine.mmap}

BitmapAccounts ==
  /\ phase # "ready" => HeldFrames = {} /\ machine.mmap = {}
  /\ phase # "bss" => pmm_bitmap = BootLocked \cup HeldFrames
  /\ phase # "bss" => BootLocked \cap HeldFrames = {}
  /\ \A c, d \in Clients : c # d => held[c] \cap held[d] = {}

\* Pmm implements the page allocator its callers rely on: a grant takes only
\* free frames, a reserved frame stays reserved, and frame 0, whose address is
\* the null pointer, is never granted.
Owner ==
  [p \in Pages |->
     IF phase # "ready" THEN "reserved"
     ELSE IF p \in HeldFrames THEN CHOOSE c \in Clients : p \in held[c]
     ELSE IF p \in pmm_bitmap THEN "reserved" ELSE "free"]

Allocator == INSTANCE PageAllocator
  WITH Frames <- Pages, Free <- "free", Reserved <- "reserved",
       open <- (phase = "ready"), owner <- Owner

ImplementsPageAllocator == Allocator!Spec
=============================================================================
