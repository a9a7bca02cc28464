------------------------------ MODULE Importer ------------------------------
(***************************************************************************)
(* The boot-time importer (the loop of kernel_main): it walks the archive  *)
(* the boot loader put into memory from header to header and stores the    *)
(* files it finds in FrodFS, under names without folder and extension.     *)
(* FrodFS is FileStore.                                                    *)
(***************************************************************************)
EXTENDS Integers, Sequences, FiniteSets, FiniteSetsExt

CONSTANTS
  TAR_BLOCK,     \* bytes of a header                         (512)
  AddrSpace,     \* addresses are uint32_t: modulo this       (2^32)
  FS_MAX_FILES, FS_MAX_NAME, FS_MAX_SIZE,     \* as in FrodFS
  ShellBin,      \* the name of the shell's image
  Slash, Dot,    \* the characters that separate folders and extensions
  NULL,
  Headers,       \* bound: headers found in archives, [path, size]
  Archives       \* bound: archives, [start, entries, end]

Wrap(n) == n % AddrSpace
RoundUp(n) == ((n + TAR_BLOCK - 1) \div TAR_BLOCK) * TAR_BLOCK

\* The address of the header of entry n, and of the end behind the last.
HeaderAddr(a, n) ==
  LET addr[i \in 1 .. Len(a.entries) + 1] ==
        IF i = 1 THEN a.start
                 ELSE addr[i - 1] + TAR_BLOCK + RoundUp(a.entries[i - 1].size)
  IN addr[n]

ArchiveEnd(a) == HeaderAddr(a, Len(a.entries) + 1)

\* The archive and the sizes its headers claim lie within the address space.
Sane(a) == ArchiveEnd(a) + TAR_BLOCK <= AddrSpace

\* Addresses are uint32_t; only the zero block has an empty name; and the calls
\* of FrodFS get addresses of the kernel's own memory, never the null pointer.
ASSUME ImporterAssumption ==
  /\ {TAR_BLOCK, AddrSpace, FS_MAX_NAME} \subseteq Nat \ {0} /\ AddrSpace % TAR_BLOCK = 0
  /\ {FS_MAX_FILES, FS_MAX_SIZE} \subseteq Nat
  /\ Slash # Dot
  /\ Headers \subseteq [path : Seq(STRING) \ {<<>>}, size : Nat]
  /\ NULL \notin Seq(STRING) \cup Seq(Headers)
  /\ \A a \in Archives :
       /\ a.start \in 0 .. AddrSpace - 1 /\ a.end \in Nat /\ a.end + TAR_BLOCK <= AddrSpace
       /\ a.entries \in Seq(Headers)

VARIABLES
  archive,              \* what the boot loader reported: ramfs_start, ramfs_end (or 0, 0)
  current_tar_addr,     \* where the walk is
  pc,                   \* "walk", "create", "write", "done"
  header,               \* the entry being stored
  files, spare, reply,  \* FrodFS
  mounted               \* names reported as mounted

disk == <<files, spare, reply>>
vars == <<archive, current_tar_addr, pc, header, disk, mounted>>

-----------------------------------------------------------------------------
(* Names. *)

\* Behind the last slash; up to the first dot, clipped to FS_MAX_NAME - 1.
RealFilename(path) ==
  LET slashes == {i \in DOMAIN path : path[i] = Slash}
  IN SubSeq(path, Max(slashes \cup {0}) + 1, Len(path))

ShortName_NotClipped(path) ==     \* fault: no n_idx < 31
  LET name == RealFilename(path)
      dots == {i \in DOMAIN name : name[i] = Dot}
  IN SubSeq(name, 1, Min({i - 1 : i \in dots} \cup {Len(name)}))

ShortName(path) ==
  LET name == RealFilename(path)
      dots == {i \in DOMAIN name : name[i] = Dot}
  IN SubSeq(name, 1, Min({i - 1 : i \in dots} \cup {Len(name), FS_MAX_NAME - 1}))

\* What FrodFS keeps of a name is all of a short name.
Clip(name) == SubSeq(name, 1, Min({Len(name), FS_MAX_NAME - 1}))

\* The bytes at the data of an entry; two entries have different bytes.
Data(h) == [k \in 1 .. h.size |-> h]

Disk == INSTANCE FileStore
  WITH Names <- {ShortName(h.path) : h \in Headers}, Contents <- {Data(h) : h \in Headers},
       Capacity <- FS_MAX_FILES, MaxSize <- FS_MAX_SIZE,
       Maxes <- {}, ListRoom <- 0

-----------------------------------------------------------------------------
(* The walk. *)

\* A header whose name is empty ends the archive.
EndBlock == [path |-> <<>>, size |-> 0]

\* What the walk may take for a header at an address: the archive's header, the
\* zero block behind the last entry, or whatever else is in memory there.
HeaderAt(addr) ==
  LET here == {n \in 1 .. Len(archive.entries) : HeaderAddr(archive, n) = addr}
  IN IF here # {} THEN {archive.entries[n] : n \in here}
     ELSE IF addr = ArchiveEnd(archive) THEN {EndBlock}
     ELSE Headers \cup {EndBlock}

InArchive == Wrap(current_tar_addr + TAR_BLOCK) <= archive.end

Wanted(h) == RealFilename(h.path) \notin {ShellBin, <<>>} /\ h.size > 0

DataFits_Always(h) == TRUE     \* fault: no test against ramfs_end

DataFits(h) == Wrap(Wrap(current_tar_addr + TAR_BLOCK) + h.size) <= archive.end

NextAddr_RoundsDown(h) ==     \* fault: file_size / 512
  Wrap(current_tar_addr + TAR_BLOCK + (h.size \div TAR_BLOCK) * TAR_BLOCK)

NextAddr_SkipsNoHeader(h) ==     \* fault: no step over the header
  Wrap(current_tar_addr + RoundUp(h.size))

NextAddr(h) ==
  LET aligned_size == (Wrap(h.size + TAR_BLOCK - 1) \div TAR_BLOCK) * TAR_BLOCK
  IN Wrap(current_tar_addr + TAR_BLOCK + aligned_size)

WalkEnds ==
  /\ pc = "walk"
  /\ ~InArchive \/ EndBlock \in HeaderAt(current_tar_addr)
  /\ pc' = "done"
  /\ UNCHANGED <<archive, current_tar_addr, header, disk, mounted>>

Skip(h) ==
  /\ pc = "walk" /\ InArchive
  /\ h \in HeaderAt(current_tar_addr) \ {EndBlock}
  /\ ~(Wanted(h) /\ DataFits(h))
  /\ current_tar_addr' = NextAddr(h)
  /\ UNCHANGED <<archive, pc, header, disk, mounted>>

Import(h) ==
  /\ pc = "walk" /\ InArchive
  /\ h \in HeaderAt(current_tar_addr) \ {EndBlock}
  /\ Wanted(h) /\ DataFits(h)
  /\ header' = h
  /\ pc' = "create"
  /\ UNCHANGED <<archive, current_tar_addr, disk, mounted>>

\* The results of both calls are ignored.
Create ==
  /\ pc = "create"
  /\ LET short_name == ShortName(header.path)
     IN Disk!Create(short_name) \/ Disk!RefuseCreate(short_name)
  /\ pc' = "write"
  /\ UNCHANGED <<archive, current_tar_addr, header, mounted>>

Write ==
  /\ pc = "write"
  /\ LET short_name == ShortName(header.path)
     IN /\ \/ Disk!Write(short_name, Data(header))
           \/ Disk!RefuseWrite(short_name, Data(header))
        /\ mounted' = mounted \cup {short_name}
  /\ current_tar_addr' = NextAddr(header)
  /\ pc' = "walk"
  /\ UNCHANGED <<archive, header>>

\* find_ramfs and frodfs_init have run.
Init ==
  /\ archive \in Archives
  /\ current_tar_addr = archive.start
  /\ pc = "walk" /\ header = EndBlock
  /\ Disk!Init
  /\ mounted = {}

Next ==
  \/ WalkEnds
  \/ \E h \in Headers : Skip(h) \/ Import(h)
  \/ Create
  \/ Write

\* Nothing interrupts the kernel at boot.
Spec == Init /\ [][Next]_vars /\ WF_vars(Next)

-----------------------------------------------------------------------------
(* Properties. *)

\* The variables keep their types; a name in FrodFS leaves room for its NUL, and
\* no two of its entries share one.
TypeOK ==
  /\ current_tar_addr \in 0 .. AddrSpace - 1
  /\ pc \in {"walk", "create", "write", "done"}
  /\ header \in Headers \cup {EndBlock}
  /\ \A name \in DOMAIN files : name # <<>> /\ Len(name) < FS_MAX_NAME
  /\ spare = FS_MAX_FILES - Cardinality(DOMAIN files)

\* In an archive that claims no more than the address space, the walk takes
\* nothing but headers for headers.
VisitsOnlyHeaders ==
  (Sane(archive) /\ pc = "walk" /\ InArchive) =>
    \E n \in 1 .. Len(archive.entries) + 1 : current_tar_addr = HeaderAddr(archive, n)

\* The entries a reader of the archive would expect in FrodFS under a name: those
\* not truncated, not empty, and not the shell.
Expected(name) ==
  {n \in 1 .. Len(archive.entries) :
     LET h == archive.entries[n]
     IN /\ ShortName(h.path) = name /\ RealFilename(h.path) # ShellBin
        /\ h.size > 0
        /\ HeaderAddr(archive, n) + TAR_BLOCK + h.size <= archive.end}

Kept(name) == {n \in Expected(name) : archive.entries[n].size <= FS_MAX_SIZE}

\* After the import, with a sane archive: each file holds the data of the last
\* entry of its name that is not too large, or nothing if there is none; and
\* unless the table is full, every expected name has a file.
ImportIsExact ==
  (Sane(archive) /\ pc = "done") =>
    /\ \A name \in DOMAIN files :
         /\ Expected(name) # {}
         /\ files[name] = IF Kept(name) = {} THEN <<>>
                          ELSE Data(archive.entries[Max(Kept(name))])
    /\ spare > 0 =>
         \A h \in Headers : ShortName(h.path) # <<>> /\ Expected(ShortName(h.path)) # {}
                              => ShortName(h.path) \in DOMAIN files

\* With a sane archive the import ends and the boot goes on.
ImportEnds == <>(pc = "done" \/ ~Sane(archive))

\* What kernel.c:470 prints after the two calls, "Mounted program node": a
\* program reported as mounted is in FrodFS, with its code.
MountedIsThere ==
  \A name \in mounted : name \in DOMAIN files /\ files[name] # <<>>
=============================================================================
