# A TLA+ model of FrodOS

FrodOS is a small 32-bit kernel started by GRUB, with a shell in user mode, a
file table in memory and programs in a format of its own. This directory holds
TLA+ modules translated from its source (`src/FrodOS/`), TLC configurations that
check them on small instances, and proofs that TLAPS checks for every instance.

## 1. The system

| component | state | operations | used by |
|---|---|---|---|
| physical memory manager (`pmm.c`) | a bitmap of page frames, a page count | `pmm_init`, `pmm_parse_mmap` at boot; `pmm_alloc_pages`, `pmm_free_pages` | program loader |
| FrodFS (`frodfs.c`) | a table of 32 entries: clipped name, size, 4096 bytes | create, write, read, list | system calls 10 to 13 and 20, boot importer |
| keyboard driver (`keyboard.c`) | a ring of 256 characters; shift, caps, prefix flags | interrupt handler; `keyboard_get_char` | IRQ 1, system call 3 |
| interrupts and system calls (`idt.c`, `boot.s`, `user_jump.s`, `kernel.c`) | interrupt flag, controller, kernel stack | delivery, end of interrupt, `int 0x80`, `sti; hlt` | everything |
| boot archive and loader (`kernel.c`) | addresses of the archive; memory at the fixed load addresses | `ramfs_read`, `launch_userland`, exec (20), exit (21) | boot, shell, programs |
| boot importer (`kernel_main`) | none of its own | archive entries into FrodFS | boot |
| paging (`paging.c`) | page directory, three page tables | `map_page`; `init_paging` has no caller | program loader |
| shell (`shell.c`) | a line of 256 bytes; a scratch buffer of 4096 | read loop, line editor, commands | user |
| screen (`video.c`) | 80 by 25 cells, the cursor | `put_char`, `scroll`, `kclear` | system calls 1 and 4, kernel messages |
| timer, speaker, segments | tick counter; none; tables | tick, sound, setup | kernel |

How they interact. Hardware interrupts enter through `IRQ_STUB`, programs
through the gate for `int 0x80`; both gates turn interrupts off, so a handler
and a system call that share the key ring are kept apart by the interrupt flag
alone. System call 2 is the exception: it executes `sti; hlt` in the middle of
the call, and handlers then run on its stack. The shell never blocks in a read:
it polls with call 3 and, if nothing was typed, waits with call 2. `exec` reads
a file from FrodFS and takes frames from the memory manager; `exit` calls
`launch_userland`, which reads the shell again from the boot archive and takes
frames again. The shell's commands call FrodFS through system calls 10 to 13,
all with one scratch buffer. Interrupts are off during boot, while keys may already be
pressed: `keyboard_init` empties the keyboard's buffer before the first `sti`, whatever
keys are still held.
The kernel has no processes, no second CPU and no disk: nothing survives a restart, so
crash recovery is no subject here.

What is hard: the order of interrupts, polls and waits; a key that arrives
between the poll and the wait; prefixed scancodes and keys held while boot drops their codes; bounds (table, ring, line,
list buffer, bitmap words, rounding to frames and blocks); names clipped when
stored and not when searched; memory that is taken and never returned; an
archive that lies where programs write; results nobody looks at; requests latched before
interrupts are on; a buffer and a screen that keep what was there before. The full list,
line by line, is under "hazards" in `PROJECT.json`.

What makes each part correct:

- memory manager: only frames that are RAM, past the kernel and not reserved are
  handed out, to one holder each; of the usable ones only those of the last megabyte
  are lost; a request fails only if no run is free.
- FrodFS: what is read is what was last written under that name; a failed call
  changes nothing; a listing is complete and stays in its buffer.
- keyboard: a bounded queue of characters; the flags agree with the keys held, or
  come to agree once the shift keys are let go.
- console: handlers never overlap a call that uses their data; characters take
  effect once and in order; what is typed, during boot too, is eventually read.
- screen: a page of text that grows and shrinks at its end and scrolls when full.
- shell commands: each message is true; `cat` shows the named file and nothing else.
- importer: after boot FrodFS holds what the archive holds and fits, and boot ends.
- loader: the shell that runs is the archive's, byte for byte; every page of a program
  is asked a frame for; a panic has a cause; exit returns to the shell.

## 2. Modules

| module | models | refined by / uses |
|---|---|---|
| `PageAllocator` | abstract: each frame is reserved, free or owned | refined by `Pmm` |
| `Pmm`, `MCPmm`, `PmmProofs` | `pmm.c`, `pmm.h` | refines `PageAllocator` |
| `FileStore` | abstract: names to contents, bounded | refined by `FrodFS`, used by `Importer` and `Shell` |
| `FrodFS`, `MCFrodFS`, `FrodFSProofs` | `frodfs.c`, `frodfs.h` | refines `FileStore` |
| `KeyQueue` | abstract: a bounded queue | refined by `Keyboard`, used by `Console` |
| `Keyboard`, `KeyboardProofs` | `keyboard.c` with a keyboard that sends scancodes | refines `KeyQueue` |
| `Terminal` | abstract: what a user at the prompt relies on | refined by `Console` |
| `Console`, `ConsoleProofs` | `idt.c`, `boot.s`, `user_jump.s`, `keyboard_init`, system calls 1 to 3, the shell's `main` | composes `KeyQueue`; refines `Terminal` |
| `Shell`, `MCShell`, `ShellProofs` | `run_command`, system calls 10 to 13 | composes `FileStore` |
| `Display` | abstract: a page of text | refined by `Screen` |
| `Screen`, `ScreenProofs` | `video.c` | refines `Display` |
| `Importer`, `MCImporter`, `ImporterProofs` | the import loop of `kernel_main` | composes `FileStore` |
| `Kernel`, `MCKernel`, `KernelProofs` | `kernel_main`, `find_ramfs`, `ramfs_read`, `launch_userland`, exec, exit, `kernel_memmove`, `map_page`, the packer's header | takes frames as `pmm_alloc_pages(1)` gives them |

Correspondence of state and actions:

- **Pmm.** `pmm_bitmap` is the set of frames whose bit is 1; `phase` and `machine`
  record how far boot is and what the boot loader reported; `held` is a history of
  who was given which frame, which the code leaves to its callers. One action per
  function; the failure of an allocation is an action of its own. Words of the
  bitmap appear only where the code treats them as words, in the skip of a full
  one. Addresses wrap as `uint32_t` does.
- **FrodFS.** `storage` is the table with its buffers, so the bytes left behind a
  shorter file are there; `reply` is the last call's result. Each early return is
  a disjunct, but for those on a null pointer to the caller's buffer or to the count
  (`frodfs.c:65`, `:82`), which no caller passes; a null name and a null content
  are there. `frodfs_list` is the fold its loop computes, break included.
- **Keyboard.** Keys are represented by one of each kind the handler tells apart:
  the two shifts, caps lock, a key that types, one that types nothing, and print
  screen, which sends a prefix and then a code equal to left shift's. Scancodes wait on
  `wire`. It starts at power-on, with any keys held; `keyboard_init` (`ready`) drops any
  number of the bytes sent before it, half of a prefixed code too.
  `Decode` has one disjunct for each way through the handler. `doubt` is a history
  variable: the driver's one shift flag cannot follow two keys that were down at
  once, nor a key whose press was dropped at boot, and the property on it has to know.
- **Console.** `kstack` is what the kernel is executing, innermost last; `IF_` is
  the processor flag; `irr` and `isr` are the interrupt controller's registers.
  A system call is entered, executed and left in steps between which an interrupt
  may come if the flag allows. `sti; hlt` is one step to the halted state,
  because `sti` holds interrupts off for one instruction. The driver is
  `KeyQueue`: `Keyboard` is shown to implement it, and
  `HandlersNeverOverlap` is what lets handler and read count as single steps. It starts
  where `idt_install` has set up the controller: bytes typed before then are in the
  keyboard with no request latched, later ones latch one; `keyboard_init` drains them,
  and a drained byte's request may or may not be withdrawn. A handler that finds no
  byte reads an old one, here any.
- **Importer.** `current_tar_addr` walks the archive, wrapping as `uint32_t` does; an
  iteration that stores a file is three steps: the header taken, `frodfs_create`,
  `frodfs_write`. The disk is `FileStore`, which `FrodFS` implements. A path is a
  sequence of characters, because the conversion of names is what can go wrong; the data of
  an entry is told from other data by its header. Where the walk leaves the
  archive's headers, which only sizes that wrap can cause, it may find any header.
- **Shell.** A command is one step: while it runs no one else makes these calls. A line
  is a sequence of characters, the word of the command counting as one, because where
  names end is what can go wrong. `io_buffer` keeps its old bytes behind what a command
  copies into it; `shown` is the message and the text printed. `FileStore` gives the
  result codes of FrodFS. A program that was started does nothing here until it exits.
- **Screen.** The cells and the cursor, which may stand one past the last cell;
  `put_char` is three actions, for newline, backspace and everything else, and each
  scrolls first if it must. `clean` is a history variable: the firmware's text stays in the
  buffer until a clear or a scroll.
- **Kernel.** Memory is a row of bytes, each one of a header, of the
  data of an entry, a NUL, an application's code, or junk. The archive is laid out as tar
  writes it: headers of a block, data of any length filled up to whole blocks, in a
  module that may be missing, empty or cut anywhere. `kernel_main` has its two panics,
  `find_ramfs` its branches, `ramfs_read` all its breaks and the two spellings of the
  shell's name; where a program has overwritten a header, the walk may find anything there.
  `kernel_memmove` copies byte by byte in the direction its test gives. `load` is the program being
  loaded and what `map_page` was asked for. A launch runs from `launch` (archive walked) through
  `load` (one frame and one `map_page` at a time, in the code's order) to `user`; a
  panic stops the machine. `exec` believes the sizes in the header of the file, in sums that
  wrap; the files it can find are what the packer writes, and two with a bad header.
  Programs overwrite their stack, which is at the same
  address for all, and the memory behind their image. A system call that does not
  touch the loader is not an action here.

Operators named `X_Something` next to `X` are variants with a plausible bug.
No specification uses them; they document what each property is able to tell.

## 3. Runs

| run | instance | what it shows |
|---|---|---|
| `pmm` | 6 frames in words of 3, frames of 2 bytes, address space of 16 frames; memory sizes and kernel ends on and off frame boundaries, maps with regions that start inside a frame, end past the bitmap, wrap or lie above the address space; 2 clients, runs up to 4 | type, safety and completeness of the allocator, which usable frames are lost, and that it implements `PageAllocator` |
| `frodfs` | 3 entries, 2 characters of name, 2 bytes of content; names that are null, empty, short, full and clipped; contents that fit and do not; 5 buffer sizes | safety and that it implements `FileStore` |
| `keyboard` | ring of 3, 6 keys, 2 held at once, 3 scancodes pending, any keys held and any bytes dropped at boot | flags in step with keys; queue |
| `console` | line of 3 bytes, queue of 2, up to 2 scancodes pending, at boot too | mutual exclusion, interrupts and bytes in step, echo, `Terminal`; no scancode and no character waits for ever |
| `screen` | 3 rows of 3 cells, a blank and another glyph, a screen that is blank or holds the firmware's text | cursor in bounds, no old text behind it, `Display` |
| `shell` | 2 files with names of 2 characters and 8 bytes, a scratch buffer of 8; every argument of up to 4 characters for `write` and 3 for `touch` and `cat`, spaces anywhere; disks with nothing, a full program, a full text and a name with a space | messages, scratch buffer, names with spaces |
| `kernel` | 28 bytes of memory, pages and archive blocks of 2 bytes, 7 usable frames of 10, 12 modules (sizes that fill their last block and do not, a shell first, second, under either name, missing or not a regular file, modules empty and cut in padding, data and a header, one whose shell reaches the stack, two that the copy of the shell overlaps from above and below), any boot loader report, 6 files; 3.7 million states | boot, launches, execs and exits in any order |
| `importer` | blocks of 2 bytes, 32 addresses, no archive, all archives of up to 3 of 8 entries, whole, without the final zero block, or truncated, and some with a size that wraps; a table of 2 files of 3 bytes | the import is exact and ends |
| `importer_mounted` | as `importer` | a program may be reported as mounted and not be there |
| `frodfs_names` | as `frodfs` | the check for an existing name misses clipped names |
| `kernel_exit` | as `kernel`, archives below `USER_BASE` | the exit of a program may end in a panic instead of the shell |
| `kernel_map` | as `kernel` | no page is ever mapped |

The bounds are small but each limit is met: words that are full, half full and at
the end of the bitmap; a kernel end inside a frame and on its boundary; RAM that ends inside
the bitmap and past it; a region that starts inside a frame; an image that ends inside a block and a page;
a full file table; a clipped name next to its prefix; a full ring that has wrapped; a
full line; a key pressed while another waits in the controller; a full screen and one
more row; a file as large as the scratch buffer; no frame left in the middle of a load. None of the modules counts anything without bound. `MaxCount`,
`MemSizes`, `KernelEnds`, `MemoryMaps` (Pmm), `Names`, `Contents`, `Maxes` (FrodFS),
`Keys`, `MaxHeld`, `MaxPending` (Keyboard, Console), `Headers`, `Archives` (Importer),
`Lines`, `Disks` and their characters `Chars` (Shell), `StackUse`, `Archives` and `AppFiles` (Kernel) bound inputs; all other constants are the code's own, scaled down.

**Fairness.** `importer`: weak fairness of its steps, since interrupts are off until the
import is over and the kernel does nothing else. `console`: weak fairness of the timer: the
counter free-runs at 100 Hz after `timer_init`. Weak fairness of handlers: the
processor executes them to the end, as nothing interrupts them. Strong fairness of
each interrupt: a request that is deliverable again and again, each time
interrupts are on, is taken; the request stays latched in the controller. Strong
fairness of the program: handlers take microseconds and interrupts are milliseconds
apart, so interrupts do not keep the program from running for ever. No
fairness is assumed of the user.

**Four disagreements** between the code and what it says of itself, each with a run that shows it:

1. `frodfs.c:29` "Check if the file already exists": the search compares the whole
   name with stored names that were clipped to 31 characters. A name of 32 or more can be
   created until the table is full, and can then only be read or written by its first 31
   characters. The shell's `touch` accepts such names.
2. `kernel.c:303` "drop back to shell prompt": each launch and each exec takes frames
   and nothing frees any, so the launch that follows a program's exit can end in the
   OOM panic. `ExitDropsBackToShell` is violated only by a panic in a launch of the shell
   after some program ran: the trace launches the shell, executes an application, exits
   it, and finds no frame for the shell.
3. `kernel.c:393` "Map the page into the user-space page directory": `init_paging` has
   no caller, so `map_page` returns with an error message for every page, which its
   callers cannot see. Programs run because paging is off and addresses are
   physical; the frames taken from the memory manager are not the memory they use.
4. `kernel.c:470` "Mounted program node" (and `kernel.c:428` "importing all files"): the
   importer ignores what create and write return. A file over 4096 bytes leaves an empty
   entry, a file that finds the table full leaves none, and both are reported as mounted.

Three more that properties of passing runs state exactly instead of hiding:

5. `pmm.c:84` "Open up available RAM": `init_memory` passes the amount of memory above 1 MB
   (`kernel.c:354`) where `pmm_init` wants the address where memory ends, so the last megabyte
   is never unlocked. `LostFramesAreTheTop` is an equation: of the usable frames those are
   lost, and no other.
6. `shell.c:126` "File created successfully.": of a name of 32 characters or more this is
   false. No file has that name afterwards, and if the clipped name was taken the new entry
   cannot be reached at all. `MessagesAreTrue` says that the message is true exactly of
   shorter names.
7. The shift flag (`keyboard.c:36`) starts clear whatever is held: `keyboard_init` (`keyboard.c:42`) drops the
   codes sent during boot. `ShiftFollowsKeys` says when the flag may be wrong.

## 4. Proofs

`PmmProofs` proves all six properties of the `pmm` run for every value of the
constants that satisfies `PmmAssumption`: any frame size, bitmap and word size, any
boot report on which the boot loops end, any set of clients.

- `TypeCorrect` is inductive by itself.
- `BitmapIsExact` (`BitmapAccounts`) is the inductive invariant: from the first boot step on
  the bitmap is `BootLocked`, a function of the boot report, together with what
  clients hold, and the two are disjoint. It is needed because no other property is inductive:
  that a free frame is safe depends on why every other one is locked.
- `FramesAreSafe` and `OnlyTheTopIsLost` then are facts about `BootLocked`, that is, about the
  rounding in `pmm_init` (`SafeStartIsSafe`, `SafeStartIsTight`) and the frame-by-frame
  walk of `pmm_parse_mmap` (`ReservedEntryLocked`, `LockedOverlaps`); they rest on
  four lemmas on division. `SearchIsComplete` shows that skipping a full word skips
  no candidate.
- `Implements` is the refinement of `PageAllocator`. `OwnerValue` evaluates the refinement
  mapping, which uses CHOOSE, under the invariant; then each action is mapped.

`FrodFSProofs` proves all six properties of the `frodfs` run.

- `ClipProperties` says what `fs_strncpy` keeps of a name; type correctness follows.
- The two properties on names that collide need `UsedComeFirst` (in `IInv`): the entries in
  use are the first ones, so a new entry is behind all others and can only be the shadowed
  one of a pair.
- `ListFitsBuffer` and `ListShowsAll` rest on `ListingShows`, what the loop of `frodfs_list`
  has written at its end: a text within the buffer, and as long as no name
  was refused, the name of every used entry, once for each (`ListEntryStep` is one turn).
- `TableIsAFileStore` is the refinement of `FileStore`. A name's file is the first used entry
  with that name (`ReachableNames`); `CreatedMaps` and `WroteMaps` say what a create and a
  write do to the files, old bytes behind a shorter file included; each call with each
  of its results is then mapped to the store's.

`ScreenProofs` proves all three properties of the `screen` run, for any number of rows and
columns. `NoOldText` (`BlankBehindCursor`) is a case of `RestStaysUnwritten`, which also says
that before the first clear or scroll nothing but blanks and the firmware's text stand behind
the cursor: the refinement needs it, because a newline takes those cells into the text.
`NextRow` is the arithmetic of a newline; `FittedText` says that scrolling drops the first
row of the text and nothing else; `StepSimulation` maps each action.

`KeyboardProofs` proves all five properties of the `keyboard` run, for any size of the ring
and any number of keys held and scancodes pending. `PrefixInStep` and
`ShiftFollowsKeys` speak of the moment when no scancode is pending, so neither is inductive.
The invariant says of all pending scancodes that each prefix is followed by its byte
(`PrefixesArePaired`), that print screen's second byte never stands alone (`NoOwnCode`), and
that the last one of a shift key is the one the keys held call for (`ShiftWillFollow`). Handling
the first scancode and appending what a key sends both keep it; that a start which drops
the first bytes, in the middle of a pair too, establishes it with `doubt` set where it must be is
`StartInv`. `RingIsAQueue` maps the ring
between its indices to the queue; the arithmetic is that of indices that wrap once.

`ConsoleProofs` proves the five safety properties of the `console` run, the refinement of
`Terminal` among them. `StackShape` lists what the kernel can be executing: nothing, a
handler, a system call, a wait, or a handler inside a wait, each with the interrupt flag and
the interrupts in service that go with it. It is inductive on its own, and from it follows
that the key ring is never used by two at once. `LineAndScreen` adds, for each place of the shell's loop,
how far the echo lags behind the line; `NoByteForgotten`, that after boot no scancode lacks a
request or a running handler, which holds through every delivery only together with the stack's shape.

`KernelProofs` proves the four invariants of the `kernel` run. `IInv` ties
the load in progress to the frames it got (`LoadOK`: one for each page in turn, each another, and
never more than it asked for), and memory to the archive (`ArchiveKept`: before the first program, and
for ever if the archive lies clear of what programs write, it is what the boot loader put there).
`PaddedIsRounded` shows that the step in `ramfs_read`, which rounds with a division, goes to where tar
put the next header for every size; `WalkFinds`, that the walk returns a shell that is whole in the
module, and nothing only if the module has none: its breaks end it no sooner. It rests on where each entry stands in memory (`HeaderPositions`, `LoadedEntry`). `LoadsShell` says that a load of
the shell still reads from such an entry; `FirstIsShell`, that programs run only after a shell,
so that a second launch is told from the first. `MemmoveCopies` shows that the byte-by-byte
copy in the direction the code chooses ends with every byte of the source as it was before the
copy, for every overlap (`CopyUp`, `CopyDown`); in the model nothing of that is given. `PagesCover` and
`HeaderPagesCover` are the rounding of the page counts, in the second case in sums that wrap.

`ImporterProofs` proves the three invariants of the `importer` run. `VisitsOnlyHeaders` and
`ImportIsExact` are about a walk and its end; the invariant `StepByStep` says at each step
which entry the walk is at and that FrodFS holds exactly what the entries before it
leave there: for each name the data of the last one that fitted (`StoredUpTo`). `NothingWraps` shows
that on a sane archive the wrapping sums are the true ones, `HeaderAddresses` and `AddressesGrow`
where headers stand, `ShortNames` that what the loop makes of a path is not clipped again by
FrodFS. On the others, whose sizes wrap, the types are proved and nothing else is promised.
`WalkAdvances` is the safety half of `ImportEnds`: on a sane archive each
step moves the address up or brings the entry one call further, so the walk visits no address twice.

`ShellProofs` proves the invariant and the three action properties of the `shell` run. Names, lines and
texts are C strings (`IsText`): `PartOfText`, `StrippedIsPart` and `WriteSplits` show that
arguments are, and that the name `write` finds has no space. `FilledBuffer` and `TextShown` show
that with the NUL behind it a text copied into the scratch buffer prints as it would alone;
`LayFits`, that the longest listing leaves room for its NUL. `CreateCall`, `WriteCall`,
`ReadCall` and `ListCall` say what each system call answers and why, under the invariant that
excludes the other reasons for a failure; each command is then shown to be `Sound`, that is, to keep the
invariant and satisfy all three properties at once. `ClipKeepsShort` is why a file of exactly
the name given exists after a create of a short name, and `FilesOK` why none does after a create of a
long one.

Recursive functions (listings, header addresses, the image of an archive) are evaluated
step by step: a lemma shows that the recursion defines a function (`LoopExists`, `AddrExists`,
`LaidExists` and the like), and facts about all its values come from a minimal counterexample, which
`Least` takes from the well-foundedness of `<`; the library's induction theorems cannot be
instantiated by the provers at hand.

Assumptions. TLC evaluates each in the runs.

- `PmmAssumption`: the sizes are positive, 1 MB is a frame
  boundary past frame 0, and the address loops end (`mem_size` and the 32-bit end of each
  region lie at most at the start of the last frame of the address space; otherwise the
  `uint32_t` address wraps and the code loops for ever).
- `FrodFSAssumption`, `KeyboardAssumption`, `ConsoleAssumption`: types of the constants; a ring
  has at least two slots, and the shell's line room for its NUL; the control characters are none of the printable ones.
- `ScreenAssumption`: there are rows and columns, and the firmware's text is told from glyphs.
- `KernelAssumption`: types; the load addresses are whole pages and, with the stack, lie in memory in the
  order of the linker script's and the kernel's constants, the module does not start at address 0, it and as much from the
  shell's address lie within memory, and no regular file in the archive is empty.
  Nothing is assumed of where the archive lies, where it is cut or how large the shell is: the
  properties that need it say so.
- `ImporterAssumption`: types; the address space is whole blocks; a header with an empty name ends the
  archive (so no entry has one); the archive the boot loader reports ends before the last block of
  the address space. What sizes the headers claim is left open.
- `ShellAssumption`: the scratch buffer is as large as a file (both 4096 in the code) and holds a
  full listing (32 names of 32 bytes); a line fits a file (256 bytes) and holds no NUL, as the line
  editor ensures; the disk is one `Importer` can leave.

Only model-checked: the liveness properties `ImportEnds`, `TypedIsRead` and `ScancodeIsHandled`, as
fairness and ENABLED are beyond the prover. The four violations are TLC's counterexamples. Every
other property of a passing run is proved.

## 5. Not modelled, and the plan

Not modelled:

- the speaker and the segment setup: port writes and tables, no behaviour afterwards;
- `ramfs.c` (not linked), `sleep`, `get_uptime_ms`, `kset_color`, `init_paging` and
  `switch_page_directory` (no callers);
- the general-protection handler, which prints and halts, and every other exception, which
  has no gate: what a program computes is not modelled, so none occurs;
- the development kit's wrappers, which repeat the shell's, and its demo;
- wording and formatting of output, the hardware cursor (it follows `vga_cursor`);
- system calls 10 to 13 with bad pointers (the shell makes none; calls 11 to 13 then leave the
  call number in `eax`).

`Importer` takes entry names to end within their field. `Console` takes one shell that stays in
its read loop. `Kernel` takes the entry point of every program to be the packer's and the sizes in tar
headers to be the octal numbers `octal_to_int` reads. `EveryPageGotAFrame` is about what the loader
asks of `map_page`, which enters none of it: programs run at physical addresses (disagreement 3).

One more thing the models show by what a property must assume. The shell's size is
limited nowhere at run time (`kernel.c:20` says "refuse images larger than 1 MB", but
`USER_MAX_IMAGE` is used nowhere), so `ShellIsIntact` asks that the shell end below the stack.

Order of the work:

1. Done: memory manager, FrodFS, keyboard, console with boot, loader, importer, shell
   commands, screen; proofs of every safety property and refinement the runs check.
2. Next, proofs that join the modules: that the disk `Importer` leaves satisfies what
   `ShellAssumption` asks of `Disks`, and that `Usable` in `Kernel` is what `Pmm` offers after
   boot; the steps behind the liveness
   properties that can be stated as safety, as `WalkAdvances` is (what a delivered interrupt does to
   the number of pending scancodes).
