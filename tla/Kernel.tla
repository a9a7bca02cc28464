------------------------------- MODULE Kernel -------------------------------
(***************************************************************************)
(* How the kernel starts programs (kernel.c): launch_userland reads the    *)
(* shell from the boot archive in memory, exec (system call 20) loads an   *)
(* application from FrodFS, exit (21) launches the shell again.  Each      *)
(* takes frames from the page allocator one at a time, "maps" them, copies *)
(* the program to its fixed address and jumps to user mode.                *)
(***************************************************************************)
EXTENDS Integers, Sequences, FiniteSets

CONSTANTS
  Frames,        \* frame numbers, an interval from 0
  Usable,        \* frames boot left free (see Pmm)
  PAGE_SIZE,     \* bytes in a page; a cell of memory is a byte   (4096)
  TAR_BLOCK,     \* bytes in a block of the archive               (512)
  UIntMax,       \* sums of sizes in a header are modulo UIntMax + 1
  USER_BASE,     \* where the shell is copied            (0x200000)
  USER_STACK,    \* one past the stack of every program  (0x300000)
  APP_BASE,      \* where applications are copied        (0x6000000)
  STACK_ZONE,    \* where exec means to map a stack      (0x7000000)
  TABLE_PAGES,   \* pages of one page table              (1024)
  MemoryEnd,
  StackUse,      \* bound: bytes of stack a program touches
  PackerBss, PackerStack,     \* sizes the packer writes      (4096, 16384)
  Archives,      \* bound: boot modules, [start, end, entries]
  AppFiles       \* bound: what exec can find in FrodFS

Cells == 0 .. MemoryEnd - 1

\* Byte k of the header of entry n, byte k of its data, a NUL, or anything else.
HeaderOf(n, k) == <<"header", n, k>>
DataOf(n, k) == <<"data", n, k>>
Zero == <<"zero">>
Junk == <<"junk">>
AppCode == <<"app">>

VARIABLES
  owner,         \* frame -> who holds it, as the page allocator has it
  multiboot,     \* what the boot loader says: its magic, its information, a module
  archive,       \* the module: where it starts and ends, the entries tar wrote
  ramfs_start, ramfs_end,
  memory,        \* cell -> content
  present,       \* page directory entries marked present
  mapped,        \* pages map_page entered into a page table
  pc,            \* "boot", "launch", "load", "user", "panic"
  running,       \* the program in user mode, or the last one there
  load,          \* the program being loaded, with what map_page was asked for
  eax            \* result of the last system call 20 or 21 that returned

boot == <<multiboot, archive>>
ramfs == <<ramfs_start, ramfs_end>>
vars == <<owner, boot, ramfs, memory, present, mapped, pc, running, load, eax>>

FreeFrames_IgnoresBootLocks == {f \in Frames : owner[f] \notin {"shell", "app"}}     \* fault

FreeFrames == {f \in Frames : owner[f] = "free"}

PagesFor(size) == (size + PAGE_SIZE - 1) \div PAGE_SIZE

-----------------------------------------------------------------------------
(* The boot archive in memory, as tar writes it: each entry a header block *)
(* and its data, filled up with NULs to a whole block.  The module may end *)
(* before the entries do.                                                  *)

Padded(size) == CHOOSE p \in size .. size + TAR_BLOCK - 1 : p % TAR_BLOCK = 0

HeaderAt(a, n) ==
  LET at[m \in 1 .. Len(a.entries) + 1] ==
        IF m = 1 THEN a.start ELSE at[m - 1] + TAR_BLOCK + Padded(a.entries[m - 1].size)
  IN at[n]

DataAt(a, n) == HeaderAt(a, n) + TAR_BLOCK

EntryAt(a, c) == {n \in DOMAIN a.entries : HeaderAt(a, n) <= c /\ c < HeaderAt(a, n + 1)}

ByteOf(a, n, c) ==
  IF c < DataAt(a, n) THEN HeaderOf(n, c - HeaderAt(a, n))
  ELSE IF c < DataAt(a, n) + a.entries[n].size THEN DataOf(n, c - DataAt(a, n))
  ELSE Zero

Load(a) == [c \in Cells |->
  IF ~(a.start <= c /\ c < a.end) THEN Junk
  ELSE IF EntryAt(a, c) = {} THEN Zero
  ELSE ByteOf(a, CHOOSE n \in EntryAt(a, c) : TRUE, c)]

\* The module lies in memory, with room for as much at the shell's address; the
\* stack is in memory and past that address, and the shell is not empty.
ASSUME KernelAssumption ==
  /\ Frames \subseteq Nat /\ Usable \subseteq Frames
  /\ {PAGE_SIZE, TAR_BLOCK, TABLE_PAGES} \subseteq Nat \ {0}
  /\ {UIntMax, USER_BASE, USER_STACK, APP_BASE, STACK_ZONE, MemoryEnd, StackUse} \subseteq Nat
  /\ \A base \in {USER_BASE, APP_BASE, STACK_ZONE} : base % PAGE_SIZE = 0
  /\ USER_BASE <= USER_STACK - StackUse /\ USER_STACK <= MemoryEnd /\ USER_BASE <= APP_BASE
  /\ Archives \subseteq [start : Nat \ {0}, end : Nat,
                         entries : Seq([name : STRING, size : Nat, regular : BOOLEAN])]
  /\ \A a \in Archives :
       /\ a.start < MemoryEnd /\ a.end < MemoryEnd
       /\ USER_BASE + (a.end - a.start) <= MemoryEnd
       /\ \A n \in DOMAIN a.entries : a.entries[n].regular => a.entries[n].size > 0
  /\ AppFiles \subseteq [short : BOOLEAN, magic : BOOLEAN, text : Nat, data : Nat,
                         bss : Nat, stack : Nat, payload : Nat]

Entries == archive.entries

\* A leading "./" is dropped from an entry's name before it is compared; the
\* name asked for has none.
ShellNames == {"shell.bin", "./shell.bin"}
IsShell(n) == Entries[n].regular /\ Entries[n].name \in ShellNames

\* The entry whose header the block at addr is, all of it.
HeadersIn(addr) ==
  {n \in DOMAIN Entries : \A k \in 0 .. TAR_BLOCK - 1 : memory[addr + k] = HeaderOf(n, k)}

Advance_RoundsDown(size) == TAR_BLOCK + (size \div TAR_BLOCK) * TAR_BLOCK     \* fault

Advance(size) == TAR_BLOCK + ((size + TAR_BLOCK - 1) \div TAR_BLOCK) * TAR_BLOCK

NotFound == [addr |-> 0, size |-> 0]
Found(addr, size) == [addr |-> addr + TAR_BLOCK, size |-> size]

\* What the walk may return from a block on.  A block that is not a header any
\* more may end the walk, pass for the shell's, or send it to any later address.
WalkFrom(walk, addr) ==
  IF addr + TAR_BLOCK > ramfs_end \/ memory[addr] = Zero THEN {NotFound}
  ELSE IF HeadersIn(addr) = {}
    THEN {NotFound}
           \cup {Found(addr, size) : size \in 0 .. ramfs_end - (addr + TAR_BLOCK)}
           \cup UNION {walk[later] : later \in addr + 1 .. ramfs_end}
  ELSE LET n == CHOOSE n \in HeadersIn(addr) : TRUE
           size == Entries[n].size
       IN IF size > ramfs_end - (addr + TAR_BLOCK) THEN {NotFound}
          ELSE IF IsShell(n) THEN {Found(addr, size)}
          ELSE IF Advance(size) > ramfs_end - addr THEN {NotFound}
          ELSE walk[addr + Advance(size)]

\* ramfs_read("shell.bin")
ramfs_read ==
  LET walk[addr \in 0 .. MemoryEnd] == WalkFrom(walk, addr)
  IN IF ramfs_start = 0 \/ ramfs_start >= ramfs_end THEN {NotFound} ELSE walk[ramfs_start]

-----------------------------------------------------------------------------
(* Programs for exec. *)

\* What the packer writes: sizes of its two inputs, and fixed ones.
Packed(text, data) ==
  [short |-> FALSE, magic |-> TRUE, text |-> text, data |-> data,
   bss |-> PackerBss, stack |-> PackerStack, payload |-> text + data]

NoHeader == [text |-> 0, data |-> 0, bss |-> 0, stack |-> 0]

\* exec believes the header, in 32 bits.
Sum_ForgetsBss(header) == (header.text + header.data) % (UIntMax + 1)     \* fault

Sum(header) == (header.text + header.data + header.bss) % (UIntMax + 1)
HeaderPages(size) == ((size + PAGE_SIZE - 1) % (UIntMax + 1)) \div PAGE_SIZE

-----------------------------------------------------------------------------
(* Boot. *)

\* Without a module that is not empty, there is no archive.
find_ramfs ==
  IF multiboot.mods /\ archive.end > archive.start
    THEN ramfs_start' = archive.start /\ ramfs_end' = archive.end
    ELSE UNCHANGED ramfs

\* kernel_main, up to its call of launch_userland; the page allocator is as
\* init_memory leaves it from the start (see Pmm), and the importer is a module
\* of its own.
kernel_main ==
  /\ pc = "boot"
  /\ IF multiboot.magic /\ multiboot.info
       THEN find_ramfs /\ pc' = "launch"
       ELSE pc' = "panic" /\ UNCHANGED ramfs
  /\ UNCHANGED <<owner, boot, memory, present, mapped, running, load, eax>>

-----------------------------------------------------------------------------
(* Loading a program, in the order of the code. *)

Loading(prog, src, size, header) ==
  load' = [prog |-> prog, src |-> src, size |-> size, header |-> header,
           pages |-> IF prog = "shell" THEN PagesFor(size) ELSE HeaderPages(Sum(header)),
           stack |-> HeaderPages(header.stack), asked |-> <<>>]

\* launch_userland up to its first allocation.  System call 21 ends here too:
\* it never returns to the program that made it.
launch_userland ==
  /\ pc = "launch"
  /\ \E image \in ramfs_read :
       IF image.addr = 0
         THEN pc' = "panic" /\ UNCHANGED load
         ELSE Loading("shell", image.addr, image.size, NoHeader) /\ pc' = "load"
  /\ UNCHANGED <<owner, boot, ramfs, memory, present, mapped, running, eax>>

Needed == load.pages + load.stack
Got == Len(load.asked)

\* The page a new frame is for: one of the image, then one of the stack zone.
BaseOf(prog) == IF prog = "shell" THEN USER_BASE ELSE APP_BASE
NextPage == IF Got < load.pages THEN BaseOf(load.prog) \div PAGE_SIZE + Got
                                ELSE STACK_ZONE \div PAGE_SIZE + (Got - load.pages)

\* map_page gives up when the directory has no table for the page.
map_page(page, frame) ==
  mapped' = IF page \div TABLE_PAGES \in present
              THEN mapped \cup {<<page, frame>>} ELSE mapped

\* pmm_alloc_pages(1): first fit.
pmm_alloc_page(frame) == owner' = [owner EXCEPT ![frame] = load.prog]

LoadPage ==
  /\ pc = "load" /\ Got < Needed
  /\ \E frame \in FreeFrames :
       /\ \A f \in FreeFrames : frame <= f
       /\ pmm_alloc_page(frame)
       /\ map_page(NextPage, frame)
       /\ load' = [load EXCEPT !.asked = Append(@, <<NextPage, frame>>)]
  /\ UNCHANGED <<boot, ramfs, memory, present, pc, running, eax>>

\* Out of memory: panic, with the frames got so far still locked.
LoadFails ==
  /\ pc = "load" /\ Got < Needed
  /\ FreeFrames = {}
  /\ pc' = "panic"
  /\ UNCHANGED <<owner, boot, ramfs, memory, present, mapped, running, load, eax>>

\* n bytes, one after another, from the addresses `from` to the addresses `to`.
CopyBytes(n, to, from) ==
  LET copy[k \in 0 .. n] ==
        IF k = 0 THEN memory ELSE [copy[k - 1] EXCEPT ![to[k]] = copy[k - 1][from[k]]]
  IN copy[n]

Upwards(first, n) == [k \in 1 .. n |-> first + k - 1]
Downwards(first, n) == [k \in 1 .. n |-> first + n - k]

kernel_memmove_WrongWay(dest, src, n) ==     \* fault: the test is the other way round
  IF dest = src \/ n = 0 THEN memory
  ELSE IF dest > src THEN CopyBytes(n, Upwards(dest, n), Upwards(src, n))
  ELSE CopyBytes(n, Downwards(dest, n), Downwards(src, n))

kernel_memmove(dest, src, n) ==
  IF dest = src \/ n = 0 THEN memory
  ELSE IF dest < src THEN CopyBytes(n, Upwards(dest, n), Upwards(src, n))
  ELSE CopyBytes(n, Downwards(dest, n), Downwards(src, n))

\* The shell is copied from the archive, an application from FrodFS, which no
\* part of this memory overlaps.
Start ==
  /\ pc = "load" /\ Got = Needed
  /\ memory' = IF load.prog = "shell"
       THEN kernel_memmove(USER_BASE, load.src, load.size)
       ELSE [c \in Cells |-> IF APP_BASE <= c /\ c < APP_BASE + load.size
                               THEN AppCode ELSE memory[c]]
  /\ running' = load.prog
  /\ pc' = "user"
  /\ UNCHANGED <<owner, boot, ramfs, present, mapped, load, eax>>

-----------------------------------------------------------------------------
(* Programs. *)

\* A program writes to its stack, which is the same for all, and to the
\* uninitialised data behind its image.
Scratch ==
  (USER_STACK - StackUse .. USER_STACK - 1)
    \cup {BaseOf(running) + load.size}

Touch ==
  /\ pc = "user"
  /\ \E c \in Scratch \cap Cells : memory' = [memory EXCEPT ![c] = Junk]
  /\ UNCHANGED <<owner, boot, ramfs, present, mapped, pc, running, load, eax>>

\* System call 20 refuses a name below USER_BASE.
ExecBadPointer ==
  /\ pc = "user"
  /\ eax' = -1
  /\ UNCHANGED <<owner, boot, ramfs, memory, present, mapped, pc, running, load>>

\* With a good pointer, a file that is missing or shorter than a header, then one
\* without the magic, is refused before anything is allocated.
Exec(file) ==
  /\ pc = "user"
  /\ \/ /\ file.short
        /\ eax' = -2
        /\ UNCHANGED <<pc, load>>
     \/ /\ ~file.short /\ ~file.magic
        /\ eax' = -4
        /\ UNCHANGED <<pc, load>>
     \/ /\ ~file.short /\ file.magic
        /\ Loading("app", 0, file.payload,
                   [text |-> file.text, data |-> file.data, bss |-> file.bss, stack |-> file.stack])
        /\ pc' = "load"
        /\ UNCHANGED eax
  /\ UNCHANGED <<owner, boot, ramfs, memory, present, mapped, running>>

\* System call 21.
Exit ==
  /\ pc = "user"
  /\ pc' = "launch"
  /\ UNCHANGED <<owner, boot, ramfs, memory, present, mapped, running, load, eax>>

\* At the entry of kernel_main.  init_paging is never called: the page directory
\* is as the loader left it, all zero.
Init ==
  /\ owner = [f \in Frames |-> IF f \in Usable THEN "free" ELSE "reserved"]
  /\ multiboot \in [magic : BOOLEAN, info : BOOLEAN, mods : BOOLEAN]
  /\ archive \in Archives
  /\ ramfs_start = 0 /\ ramfs_end = 0
  /\ memory = Load(archive)
  /\ present = {} /\ mapped = {}
  /\ pc = "boot" /\ running = "none" /\ eax = 0
  /\ load = [prog |-> "none", src |-> 0, size |-> 0, header |-> NoHeader, pages |-> 0, stack |-> 0,
             asked |-> <<>>]

Next ==
  \/ kernel_main
  \/ launch_userland \/ LoadPage \/ LoadFails \/ Start
  \/ Touch
  \/ ExecBadPointer \/ \E file \in AppFiles : Exec(file)
  \/ Exit

Spec == Init /\ [][Next]_vars

-----------------------------------------------------------------------------
(* Properties. *)

\* The variables keep their types.
LoadRecord == [prog : {"none", "shell", "app"}, src : Cells, size : Nat, pages : Nat,
               header : [DOMAIN NoHeader -> Nat], stack : Nat, asked : Seq(Nat \X Usable)]

TypeOK ==
  /\ owner \in [Frames -> {"free", "reserved", "shell", "app"}]
  /\ multiboot \in [magic : BOOLEAN, info : BOOLEAN, mods : BOOLEAN]
  /\ archive \in Archives
  /\ <<ramfs_start, ramfs_end>> \in {<<0, 0>>, <<archive.start, archive.end>>}
  /\ DOMAIN memory = Cells
  /\ present \subseteq Nat /\ mapped \subseteq Nat \X Frames
  /\ pc \in {"boot", "launch", "load", "user", "panic"}
  /\ running \in {"none", "shell", "app"}
  /\ load \in LoadRecord
  /\ eax \in {0, -1, -2, -4}

\* exec has only the header's word for the sizes: they are honest when they agree
\* with the file, as the packer's do, and their sums fit in 32 bits.
Honest(header) ==
  /\ header.text + header.data = load.size
  /\ load.size + header.bss + PAGE_SIZE - 1 <= UIntMax
  /\ header.stack + PAGE_SIZE - 1 <= UIntMax

PagesOf(base, size) == {c \div PAGE_SIZE : c \in base .. base + size - 1}
PagesAsked == {load.asked[i][1] : i \in 1 .. Got}

\* When a program starts, map_page was asked to back every page that the program
\* was loaded for, the shell's image, or an honest application's image, zeroed
\* data and stack, and each time with another frame, one that boot left free and
\* that is locked in the program's name (kernel.c:268-289, 381-394).  This is what
\* the loader asks for, not what it gets: map_page enters none of it into a page
\* table, and the program runs at the physical addresses instead (see
\* PagesAreMapped).
EveryPageGotAFrame ==
  pc = "user" =>
    /\ \A i \in 1 .. Got :
         /\ owner[load.asked[i][2]] = running
         /\ \A j \in 1 .. Got : load.asked[i][2] = load.asked[j][2] => i = j
    /\ running = "shell" => PagesOf(USER_BASE, load.size) \subseteq PagesAsked
    /\ running = "app" /\ Honest(load.header) =>
         /\ PagesOf(APP_BASE, load.size + load.header.bss) \subseteq PagesAsked
         /\ PagesOf(STACK_ZONE, load.header.stack) \subseteq PagesAsked

\* The entries that are the shell and whose data the module holds to its end.
ShellEntries ==
  {n \in DOMAIN Entries : IsShell(n) /\ DataAt(archive, n) + Entries[n].size <= archive.end}

FirstLaunch == {load.asked[i][2] : i \in 1 .. Got} = {f \in Frames : owner[f] = "shell"}

\* The archive lies below everything a program or the loader writes.
Clear == archive.end <= USER_BASE

\* The first launch runs the shell of the archive, byte for byte, even where the
\* archive overlaps the shell's own address, before or behind it; and each launch
\* after an exit does so whatever programs wrote in between, if the archive lies
\* clear.  It stays so while the shell runs, if the shell ends below the stack:
\* nothing compares its size with anything (USER_MAX_IMAGE is not used).
BelowStack == USER_BASE + load.size <= USER_STACK - StackUse

ShellIsIntact ==
  (pc = "user" /\ running = "shell" /\ BelowStack /\ (FirstLaunch \/ Clear)) =>
    \E n \in ShellEntries :
      /\ load.size = Entries[n].size
      /\ \A k \in 0 .. load.size - 1 : memory[USER_BASE + k] = DataOf(n, k)

\* Where the archive lies clear of what programs write, the kernel panics, at boot
\* or at any launch or exec, only for one of these causes: the boot loader is not
\* multiboot or gave no information (kernel.c:414-415), it gave no module
\* (kernel.c:131), no entry of the archive is a shell with all its data in the
\* module (kernel.c:137-157), or no frame is left.
PanicHasACause ==
  (pc = "panic" /\ Clear) =>
    \/ ~multiboot.magic \/ ~multiboot.info \/ ~multiboot.mods
    \/ ShellEntries = {}
    \/ FreeFrames = {}

\* kernel.c:303 says of system call 21, "Terminate active execution space and
\* drop back to shell prompt": the launch of the shell after a program has ended
\* does not panic.
ExitDropsBackToShell == (pc = "panic" /\ load.prog = "shell") => running = "none"

\* kernel.c:393 says, "Map the page into the user-space page directory": the
\* pages of the program in user mode are mapped.
PagesAreMapped == pc = "user" => \A i \in 1 .. Got : load.asked[i] \in mapped
=============================================================================
