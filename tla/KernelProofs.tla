---------------------------- MODULE KernelProofs ----------------------------
(***************************************************************************)
(* Proofs about the program loader, for every memory layout, set of frames,*)
(* boot archive and collection of applications.                            *)
(***************************************************************************)
EXTENDS Kernel, WellFoundedInduction, SequenceTheorems, TLAPS

(***************************************************************************)
(* The inductive invariant.                                                *)
(***************************************************************************)

\* There is no archive at boot; past it the boot loader is multiboot, and the archive
\* is its module, if it has one that is not empty.
HasArchive == multiboot.mods /\ archive.end > archive.start

Booted ==
  /\ pc = "boot" => ramfs = <<0, 0>>
  /\ pc \in {"launch", "load", "user"} =>
       /\ multiboot.magic /\ multiboot.info
       /\ ramfs = IF HasArchive THEN <<archive.start, archive.end>> ELSE <<0, 0>>

\* The loader takes frames boot left free, for the program it loads, one for each
\* page in turn, and no more than the sizes of its image and stack call for.
PagesCounted ==
  /\ load.prog = "shell" => load.pages = PagesFor(load.size)
  /\ load.prog = "app" => /\ load.pages = HeaderPages(Sum(load.header))
                          /\ load.stack = HeaderPages(load.header.stack)

PageNumber(i) ==
  IF i <= load.pages THEN BaseOf(load.prog) \div PAGE_SIZE + (i - 1)
                     ELSE STACK_ZONE \div PAGE_SIZE + (i - 1 - load.pages)

FramesAsked == {load.asked[i][2] : i \in 1 .. Got}

LoadOK ==
  /\ {f \in Frames : owner[f] = "free"} \subseteq Usable
  /\ pc \in {"load", "user"} =>
       /\ load.prog \in {"shell", "app"}
       /\ \A i \in 1 .. Got : /\ owner[load.asked[i][2]] = load.prog
                              /\ load.asked[i][1] = PageNumber(i)
       /\ \A i, j \in 1 .. Got : load.asked[i][2] = load.asked[j][2] => i = j
       /\ Got <= Needed
       /\ PagesCounted
  /\ pc = "user" => running = load.prog /\ Got = Needed

\* The first program is a shell, and its frames are locked from then on.
ShellHasRun == \E f \in Frames : owner[f] = "shell"

FirstIsShell ==
  IF running = "none" THEN pc # "user" /\ (pc = "load" => load.prog = "shell")
                      ELSE ShellHasRun /\ pc # "boot"

\* Nothing has written to the archive yet, or what programs write cannot reach it.
Untouched ==
  \A c \in Cells : archive.start <= c /\ c < archive.end => memory[c] = Load(archive)[c]
ArchiveKept == (running = "none" \/ Clear) => Untouched

\* A shell being loaded is copied from memory, and while nothing has written to the
\* archive it is one of its shells; a later launch adds frames to those of the first.
IsShellAt(addr, size) ==
  \E n \in ShellEntries : addr = DataAt(archive, n) /\ size = Entries[n].size

LoadsShell ==
  pc = "load" /\ load.prog = "shell" =>
    /\ load.src + load.size <= MemoryEnd
    /\ running = "none" \/ Clear => IsShellAt(load.src, load.size)
    /\ running # "none" => ~FirstLaunch

IInv ==
  /\ TypeOK /\ Booted /\ LoadOK /\ FirstIsShell /\ ArchiveKept /\ LoadsShell
  /\ ShellIsIntact /\ PanicHasACause

(***************************************************************************)
(* Numbers.                                                                *)
(***************************************************************************)

\* What a minimal counterexample rests on.
LEMMA Least ==
  ASSUME NEW S \in SUBSET Nat, S # {}
  PROVE  \E i \in S : \A j \in S : i <= j
<1>1. PICK i \in S : \A j \in S : <<j, i>> \notin OpToRel(<, Nat)
  BY NatLessThanWellFounded, WFMin
<1>2. ASSUME NEW j \in S PROVE i <= j
  <2>1. i \in Nat /\ j \in Nat
    OBVIOUS
  <2>2. j < i => <<j, i>> \in OpToRel(<, Nat)
    BY <2>1 DEF OpToRel
  <2>3. ~(j < i)
    BY <1>1, <2>2, Zenon
  <2>4. QED
    BY <2>1, <2>3
<1>3. QED
  BY <1>2

\* The constants, one by one.
LEMMA Layout ==
  /\ PAGE_SIZE \in Nat \ {0} /\ TAR_BLOCK \in Nat \ {0} /\ TABLE_PAGES \in Nat \ {0}
  /\ UIntMax \in Nat /\ USER_BASE \in Nat /\ USER_STACK \in Nat /\ APP_BASE \in Nat
  /\ STACK_ZONE \in Nat /\ MemoryEnd \in Nat /\ StackUse \in Nat
  /\ USER_BASE <= USER_STACK - StackUse /\ USER_STACK <= MemoryEnd /\ USER_BASE <= APP_BASE
  /\ USER_BASE % PAGE_SIZE = 0 /\ APP_BASE % PAGE_SIZE = 0 /\ STACK_ZONE % PAGE_SIZE = 0
  /\ Frames \subseteq Nat /\ Usable \subseteq Frames
BY KernelAssumption

\* The quotient's bounds.
LEMMA DivBounds ==
  ASSUME NEW a \in Nat, NEW b \in Nat \ {0}
  PROVE  a \div b \in Nat /\ (a \div b) * b <= a /\ a < (a \div b) * b + b
OBVIOUS

\* The bounds determine the quotient.
LEMMA DivUnique ==
  ASSUME NEW p \in Nat, NEW a \in Nat, NEW b \in Nat \ {0},
         p * b <= a, a < p * b + b
  PROVE  a \div b = p
OBVIOUS

\* A number is its quotient and its remainder.
LEMMA DivMod ==
  ASSUME NEW a \in Nat, NEW b \in Nat \ {0}
  PROVE  /\ a % b \in Nat /\ a % b < b
         /\ a = (a \div b) * b + (a % b)
OBVIOUS

\* A remainder, and that of a number below the modulus.
LEMMA ModBounds ==
  ASSUME NEW a \in Nat, NEW b \in Nat \ {0}
  PROVE  a % b \in Nat /\ (a < b => a % b = a)
OBVIOUS

\* Multiples are ordered as their factors are.
LEMMA Multiples ==
  ASSUME NEW a \in Nat, NEW b \in Nat, NEW n \in Nat, a <= b
  PROVE  a * n \in Nat /\ b * n \in Nat /\ a * n <= b * n
<1>1. PICK d \in Nat : b = a + d
  <2>1. b - a \in Nat /\ b = a + (b - a)
    OBVIOUS
  <2>2. QED
    BY <2>1
<1>2. b * n = a * n + d * n /\ d * n >= 0
  BY <1>1
<1>3. QED
  BY <1>2

\* tar's padding is the code's rounding.
LEMMA PaddedIsRounded ==
  ASSUME NEW size \in Nat
  PROVE  /\ Padded(size) = ((size + TAR_BLOCK - 1) \div TAR_BLOCK) * TAR_BLOCK
         /\ Padded(size) \in size .. size + TAR_BLOCK - 1
<1>1. PICK T \in Nat \ {0} : T = TAR_BLOCK
  BY Layout
<1>2. PICK up \in Nat : up = size + T - 1
  <2>1. size + T - 1 \in Nat
    OBVIOUS
  <2>2. QED
    BY <2>1
<1>3. PICK q \in Nat : q = up \div T
  BY DivBounds
<1>4. q * T <= up /\ up < q * T + T
  BY <1>3, DivBounds
<1>5. PICK p \in Nat : p = q * T
  BY <1>4
<1>6. p \in size .. size + T - 1
  BY <1>2, <1>4, <1>5
<1>7. p % T = 0
  <2>1. p \div T = q
    BY <1>5, DivUnique
  <2>2. p = q * T + (p % T) /\ p % T \in Nat
    BY <2>1, DivMod
  <2>3. QED
    BY <1>5, <2>2
<1>8. ASSUME NEW r \in size .. size + T - 1, r % T = 0 PROVE r = p
  <2>1. r \in Nat
    OBVIOUS
  <2>2. r = (r \div T) * T /\ r \div T \in Nat
    BY <1>8, <2>1, DivMod, DivBounds
  <2>3. PICK k \in Nat : k = r \div T /\ r = k * T
    BY <2>2
  <2>4. k * T <= up /\ up < k * T + T
    BY <1>2, <1>8, <2>3
  <2>5. k = q
    BY <1>3, <2>4, DivUnique
  <2>6. QED
    BY <1>5, <2>3, <2>5
<1>9. Padded(size) = p
  <2>1. Padded(size) = CHOOSE r \in size .. size + T - 1 : r % T = 0
    BY <1>1 DEF Padded
  <2>2. \E r \in size .. size + T - 1 : r % T = 0
    BY <1>6, <1>7
  <2>3. Padded(size) \in size .. size + T - 1 /\ Padded(size) % T = 0
    BY <2>1, <2>2, Zenon
  <2>4. QED
    BY <1>8, <2>3
<1>10. QED
  BY <1>1, <1>2, <1>3, <1>5, <1>6, <1>9

LEMMA PaddedCovers ==
  ASSUME NEW size \in Nat
  PROVE  Padded(size) \in Nat /\ size <= Padded(size)
BY PaddedIsRounded, Layout

(***************************************************************************)
(* The boot archive as it was loaded.                                      *)
(***************************************************************************)

Named == [name : STRING, size : Nat, regular : BOOLEAN]

\* The fields of an archive.
LEMMA ArchiveFields ==
  ASSUME NEW a \in Archives
  PROVE  /\ a.start \in Nat \ {0} /\ a.end \in Nat /\ Len(a.entries) \in Nat
         /\ a.start < MemoryEnd /\ a.end < MemoryEnd /\ USER_BASE + (a.end - a.start) <= MemoryEnd
         /\ DOMAIN a.entries = 1 .. Len(a.entries)
         /\ \A n \in 1 .. Len(a.entries) : a.entries[n].size \in Nat
         /\ \A n \in 1 .. Len(a.entries) : a.entries[n].regular => a.entries[n].size > 0
<1>1. a \in [start : Nat \ {0}, end : Nat, entries : Seq(Named)]
  BY KernelAssumption DEF Named
<1>2. a.start \in Nat \ {0} /\ a.end \in Nat /\ a.entries \in Seq(Named)
  BY <1>1
<1>3. \A n \in 1 .. Len(a.entries) : a.entries[n] \in Named
  BY <1>2, ElementOfSeq
<1>4. Len(a.entries) \in Nat /\ DOMAIN a.entries = 1 .. Len(a.entries)
  BY <1>2, LenProperties
<1>5. /\ a.start < MemoryEnd /\ a.end < MemoryEnd /\ USER_BASE + (a.end - a.start) <= MemoryEnd
      /\ \A n \in 1 .. Len(a.entries) : a.entries[n].regular => a.entries[n].size > 0
  BY <1>4, KernelAssumption
<1>6. QED
  BY <1>2, <1>3, <1>4, <1>5 DEF Named

\* Where the headers are: the function that HeaderAt builds.
PositionsFrom(a, at) ==
  [m \in 1 .. Len(a.entries) + 1 |->
     IF m = 1 THEN a.start ELSE at[m - 1] + TAR_BLOCK + Padded(a.entries[m - 1].size)]
Positions(a) == CHOOSE at : at = PositionsFrom(a, at)

LEMMA PositionsExist ==
  ASSUME NEW a \in Archives
  PROVE  Positions(a) = PositionsFrom(a, Positions(a))
<1> DEFINE
    Next1(at, i) == at[i - 1] + TAR_BLOCK + Padded(a.entries[i - 1].size)
    Upto(m, at) == at = [i \in 1 .. m |-> IF i = 1 THEN a.start ELSE Next1(at, i)]
    Missing == {m \in Nat : ~ \E at : Upto(m, at)}
<1>1. Missing = {}
  <2> SUFFICES ASSUME Missing # {} PROVE FALSE
    OBVIOUS
  <2>1. PICK m \in Missing : \A j \in Missing : m <= j
    BY Least
  <2>2. CASE m = 0
    <3>1. Upto(0, [i \in 1 .. 0 |-> a.start])
      OBVIOUS
    <3>2. QED
      BY <2>2, <3>1
  <2>3. CASE m # 0
    <3>0. m \in Nat /\ m - 1 \in Nat
      BY <2>3
    <3> HIDE DEF Missing
    <3>1. m - 1 \notin Missing
      BY <2>1, <3>0
    <3> USE DEF Missing
    <3>2. PICK at : Upto(m - 1, at)
      BY <3>0, <3>1
    <3> HIDE DEF Next1
    <3> DEFINE last == IF m = 1 THEN a.start ELSE Next1(at, m)
               longer == [i \in 1 .. m |-> IF i = m THEN last ELSE at[i]]
    <3>3. \A i \in 1 .. m - 1 : longer[i] = at[i]
      BY <3>0
    <3>4. \A i \in 2 .. m : Next1(longer, i) = Next1(at, i)
      <4> SUFFICES ASSUME NEW i \in 2 .. m PROVE Next1(longer, i) = Next1(at, i)
        OBVIOUS
      <4>1. longer[i - 1] = at[i - 1]
        BY <3>0, <3>3
      <4> HIDE DEF longer
      <4>2. QED
        BY <4>1 DEF Next1
    <3>5. \A i \in 1 .. m : longer[i] = IF i = 1 THEN a.start ELSE Next1(longer, i)
      <4> SUFFICES ASSUME NEW i \in 1 .. m
                   PROVE  longer[i] = IF i = 1 THEN a.start ELSE Next1(longer, i)
        OBVIOUS
      <4>1. CASE i = m
        <5>1. longer[m] = last
          BY <3>0, <2>3
        <5>2. m # 1 => Next1(longer, m) = Next1(at, m)
          BY <3>0, <3>4, <2>3
        <5> HIDE DEF longer
        <5>3. QED
          BY <4>1, <5>1, <5>2
      <4>2. CASE i # m
        <5>1. i \in 1 .. m - 1
          BY <3>0, <4>2
        <5>2. at[i] = IF i = 1 THEN a.start ELSE Next1(at, i)
          BY <3>2, <5>1
        <5>3. i # 1 => Next1(longer, i) = Next1(at, i)
          BY <3>0, <3>4
        <5> HIDE DEF longer
        <5>4. QED
          BY <3>3, <5>1, <5>2, <5>3
      <4>3. QED
        BY <4>1, <4>2
    <3>6. Upto(m, longer)
      <4>1. longer = [i \in 1 .. m |-> longer[i]]
        OBVIOUS
      <4> HIDE DEF longer
      <4>2. QED
        BY <3>5, <4>1
    <3>7. QED
      BY <2>1, <3>6
  <2>4. QED
    BY <2>2, <2>3
<1>2. \E at : at = PositionsFrom(a, at)
  <2>1. Len(a.entries) + 1 \in Nat
    BY ArchiveFields
  <2>2. Len(a.entries) + 1 \notin Missing
    BY <1>1
  <2>3. PICK at : Upto(Len(a.entries) + 1, at)
    BY <2>1, <2>2
  <2>4. QED
    BY <2>3 DEF PositionsFrom
<1>3. QED
  BY <1>2 DEF Positions

\* A header stands behind the padded data of the one before.
LEMMA HeaderPositions ==
  ASSUME NEW a \in Archives
  PROVE  /\ HeaderAt(a, 1) = a.start
         /\ \A n \in 1 .. Len(a.entries) :
              HeaderAt(a, n + 1) = HeaderAt(a, n) + TAR_BLOCK + Padded(a.entries[n].size)
         /\ \A n \in 1 .. Len(a.entries) + 1 : HeaderAt(a, n) \in Nat
<1> DEFINE N == Len(a.entries)
           at == Positions(a)
           Bad == {n \in Nat : n \in 1 .. N + 1 /\ at[n] \notin Nat}
<1>1. N \in Nat
  BY ArchiveFields
<1>2. \A n : HeaderAt(a, n) = at[n]
  BY Zenon DEF HeaderAt, Positions, PositionsFrom
<1>3. \A n \in 1 .. N + 1 :
        at[n] = IF n = 1 THEN a.start ELSE at[n - 1] + TAR_BLOCK + Padded(a.entries[n - 1].size)
  BY PositionsExist DEF PositionsFrom
<1> HIDE DEF at, N
<1>4. at[1] = a.start
  BY <1>1, <1>3
<1>5. ASSUME NEW n \in 1 .. N
      PROVE  at[n + 1] = at[n] + TAR_BLOCK + Padded(a.entries[n].size)
  <2>1. n + 1 \in 1 .. N + 1 /\ n + 1 # 1 /\ (n + 1) - 1 = n
    BY <1>1
  <2>2. QED
    BY <1>3, <2>1
<1>6. Bad = {}
  <2> SUFFICES ASSUME Bad # {} PROVE FALSE
    OBVIOUS
  <2>1. PICK n \in Bad : \A j \in Bad : n <= j
    BY Least
  <2>2. n # 1
    BY <1>4, ArchiveFields
  <2>3. n - 1 \in 1 .. N /\ n - 1 \in Nat /\ (n - 1) + 1 = n
    BY <1>1, <2>2
  <2>4. at[n - 1] \in Nat
    <3>1. n - 1 \notin Bad
      <4> HIDE DEF Bad
      <4>1. QED
        BY <2>1, <2>3
    <3>2. QED
      BY <1>1, <2>3, <3>1
  <2>5. Padded(a.entries[n - 1].size) \in Nat
    BY <2>3, ArchiveFields, PaddedCovers DEF N
  <2>6. at[n] \in Nat
    <3>1. at[n] = at[n - 1] + TAR_BLOCK + Padded(a.entries[n - 1].size)
      BY <1>5, <2>3, Zenon
    <3>2. TAR_BLOCK \in Nat
      BY Layout
    <3>3. QED
      BY <2>4, <2>5, <3>1, <3>2
  <2>7. QED
    BY <2>6
<1>7. \A n \in 1 .. N + 1 : at[n] \in Nat
  BY <1>1, <1>6
<1> HIDE DEF Bad
<1>8. QED
  <2>1. \A n \in 1 .. N : at[n + 1] = at[n] + TAR_BLOCK + Padded(a.entries[n].size)
    BY <1>5
  <2>2. QED
    BY <1>2, <1>4, <1>7, <2>1, Zenon DEF N

\* An entry ends before any later header begins.
LEMMA HeadersGrow ==
  ASSUME NEW a \in Archives,
         NEW m \in 1 .. Len(a.entries) + 1, NEW n \in 1 .. Len(a.entries) + 1, m < n
  PROVE  HeaderAt(a, m) + TAR_BLOCK + a.entries[m].size <= HeaderAt(a, n)
<1> DEFINE N == Len(a.entries)
           end == HeaderAt(a, m) + TAR_BLOCK + a.entries[m].size
           Bad == {k \in Nat : k \in m + 1 .. N + 1 /\ ~(end <= HeaderAt(a, k))}
<1>1. N \in Nat /\ TAR_BLOCK \in Nat \ {0}
  BY ArchiveFields, Layout
<1>2. end \in Nat
  <2>1. m \in 1 .. N
    BY <1>1
  <2>2. a.entries[m].size \in Nat
    BY <2>1, ArchiveFields
  <2>3. HeaderAt(a, m) \in Nat
    BY HeaderPositions
  <2>4. QED
    BY <1>1, <2>2, <2>3
<1>3. ASSUME NEW k \in 1 .. N
      PROVE  /\ HeaderAt(a, k) \in Nat /\ a.entries[k].size \in Nat
             /\ Padded(a.entries[k].size) \in Nat
             /\ a.entries[k].size <= Padded(a.entries[k].size)
             /\ HeaderAt(a, k + 1) = HeaderAt(a, k) + TAR_BLOCK + Padded(a.entries[k].size)
  <2>1. k \in 1 .. Len(a.entries) /\ k \in 1 .. Len(a.entries) + 1
    BY <1>1
  <2>2. a.entries[k].size \in Nat
    BY <2>1, ArchiveFields
  <2>3. Padded(a.entries[k].size) \in Nat /\ a.entries[k].size <= Padded(a.entries[k].size)
    BY <2>2, PaddedCovers
  <2>4. /\ HeaderAt(a, k) \in Nat
        /\ HeaderAt(a, k + 1) = HeaderAt(a, k) + TAR_BLOCK + Padded(a.entries[k].size)
    BY <2>1, HeaderPositions
  <2>5. QED
    BY <2>2, <2>3, <2>4
<1>4. Bad = {}
  <2> SUFFICES ASSUME Bad # {} PROVE FALSE
    OBVIOUS
  <2>1. PICK k \in Bad : \A j \in Bad : k <= j
    BY Least
  <2>2. k \in Nat /\ k - 1 \in m .. N /\ k - 1 \in 1 .. N /\ k - 1 \in Nat /\ (k - 1) + 1 = k
    BY <1>1
  <2>3. ~(end <= HeaderAt(a, k))
    BY <2>1
  <2> HIDE DEF Bad
  <2>4. k - 1 \notin Bad
    BY <2>1, <2>2
  <2>5. k - 1 # m => end <= HeaderAt(a, k - 1)
    BY <1>1, <2>2, <2>4 DEF Bad
  <2>6. HeaderAt(a, k) = HeaderAt(a, k - 1) + TAR_BLOCK + Padded(a.entries[k - 1].size)
    BY <1>3, <2>2
  <2>7. /\ HeaderAt(a, k - 1) \in Nat /\ Padded(a.entries[k - 1].size) \in Nat
        /\ a.entries[k - 1].size \in Nat
        /\ a.entries[k - 1].size <= Padded(a.entries[k - 1].size)
    BY <1>3, <2>2
  <2>8. CASE k - 1 = m
    BY <1>1, <2>3, <2>6, <2>7, <2>8
  <2>9. CASE k - 1 # m
    <3> HIDE DEF end
    <3>1. QED
      BY <1>1, <1>2, <2>3, <2>5, <2>6, <2>7, <2>9
  <2>10. QED
    BY <2>8, <2>9
<1>5. n \in Nat /\ n \in m + 1 .. N + 1
  BY <1>1
<1>6. QED
  BY <1>4, <1>5

\* Headers are in order, each past the data of the entry before.
LEMMA HeadersInOrder ==
  ASSUME NEW a \in Archives, NEW n \in 1 .. Len(a.entries)
  PROVE  /\ HeaderAt(a, n) \in Nat /\ HeaderAt(a, n + 1) \in Nat /\ a.entries[n].size \in Nat
         /\ HeaderAt(a, n + 1) = HeaderAt(a, n) + Advance(a.entries[n].size)
         /\ HeaderAt(a, n) + TAR_BLOCK + a.entries[n].size <= HeaderAt(a, n + 1)
         /\ \A m \in n + 1 .. Len(a.entries) + 1 :
              HeaderAt(a, m) \in Nat /\ HeaderAt(a, n + 1) <= HeaderAt(a, m)
<1> DEFINE N == Len(a.entries)
<1>1. N \in Nat /\ n \in 1 .. N + 1 /\ n + 1 \in 1 .. N + 1
  BY ArchiveFields
<1>2. \A m \in 1 .. N + 1 : HeaderAt(a, m) \in Nat
  BY HeaderPositions
<1>3. a.entries[n].size \in Nat /\ TAR_BLOCK \in Nat \ {0}
  BY ArchiveFields, Layout
<1>4. PICK size \in Nat : size = a.entries[n].size
  BY <1>3
<1>5. HeaderAt(a, n + 1) = HeaderAt(a, n) + TAR_BLOCK + Padded(size)
  BY <1>4, HeaderPositions
<1>6. Padded(size) \in Nat /\ size <= Padded(size) /\ Advance(size) = TAR_BLOCK + Padded(size)
  BY PaddedCovers, PaddedIsRounded DEF Advance
<1>7. HeaderAt(a, n) \in Nat /\ HeaderAt(a, n + 1) \in Nat
  BY <1>1, <1>2
<1>8. /\ HeaderAt(a, n + 1) = HeaderAt(a, n) + Advance(size)
      /\ HeaderAt(a, n) + TAR_BLOCK + size <= HeaderAt(a, n + 1)
  BY <1>3, <1>5, <1>6, <1>7
<1>9. ASSUME NEW m \in n + 1 .. N + 1
      PROVE  HeaderAt(a, m) \in Nat /\ HeaderAt(a, n + 1) <= HeaderAt(a, m)
  <2>1. m \in 1 .. N + 1
    BY <1>1
  <2>2. CASE m = n + 1
    BY <1>7, <2>2
  <2>3. CASE m # n + 1
    <3>1. n + 1 < m /\ n + 1 \in 1 .. N
      BY <1>1, <2>3
    <3>2. HeaderAt(a, n + 1) + TAR_BLOCK + a.entries[n + 1].size <= HeaderAt(a, m)
      BY <1>1, <2>1, <3>1, HeadersGrow
    <3>3. a.entries[n + 1].size \in Nat
      BY <3>1, ArchiveFields
    <3>4. QED
      BY <1>2, <1>3, <1>7, <2>1, <3>2, <3>3
  <2>4. QED
    BY <2>2, <2>3
<1>10. QED
  BY <1>4, <1>7, <1>8, <1>9

\* What the boot loader put at each address: a byte of the one entry there, or, past
\* the entries, a NUL.
LEMMA Loaded ==
  ASSUME NEW a \in Archives, NEW c \in Cells, a.start <= c, c < a.end
  PROVE  /\ \A n \in 1 .. Len(a.entries) :
              HeaderAt(a, n) <= c /\ c < HeaderAt(a, n + 1) => Load(a)[c] = ByteOf(a, n, c)
         /\ HeaderAt(a, Len(a.entries) + 1) <= c => Load(a)[c] = Zero
<1> DEFINE N == Len(a.entries)
<1>1. N \in Nat /\ DOMAIN a.entries = 1 .. N /\ c \in Nat
  BY ArchiveFields DEF Cells
<1>2. Load(a)[c] = IF EntryAt(a, c) = {} THEN Zero
                   ELSE ByteOf(a, CHOOSE n \in EntryAt(a, c) : TRUE, c)
  BY DEF Load
<1>3. ASSUME NEW n \in 1 .. N, HeaderAt(a, n) <= c, c < HeaderAt(a, n + 1)
      PROVE  Load(a)[c] = ByteOf(a, n, c)
  <2>1. n \in EntryAt(a, c)
    BY <1>1, <1>3 DEF EntryAt
  <2>2. ASSUME NEW m \in EntryAt(a, c) PROVE m = n
    <3>1. m \in 1 .. N /\ HeaderAt(a, m) <= c /\ c < HeaderAt(a, m + 1)
      BY <1>1 DEF EntryAt
    <3>2. HeaderAt(a, n + 1) \in Nat /\ HeaderAt(a, m + 1) \in Nat
      BY <3>1, HeadersInOrder
    <3>3. ~(m > n)
      <4> SUFFICES ASSUME m > n PROVE FALSE
        OBVIOUS
      <4>1. m \in n + 1 .. N + 1
        BY <1>1, <3>1
      <4>2. HeaderAt(a, m) \in Nat /\ HeaderAt(a, n + 1) <= HeaderAt(a, m)
        BY <4>1, HeadersInOrder
      <4>3. QED
        BY <1>1, <1>3, <3>1, <3>2, <4>2
    <3>4. ~(n > m)
      <4> SUFFICES ASSUME n > m PROVE FALSE
        OBVIOUS
      <4>1. n \in m + 1 .. N + 1
        BY <1>1, <3>1
      <4>2. HeaderAt(a, n) \in Nat /\ HeaderAt(a, m + 1) <= HeaderAt(a, n)
        BY <3>1, <4>1, HeadersInOrder
      <4>3. QED
        BY <1>1, <1>3, <3>1, <3>2, <4>2
    <3>5. QED
      BY <3>1, <3>3, <3>4
  <2>3. EntryAt(a, c) = {n}
    BY <2>1, <2>2
  <2>4. QED
    BY <1>2, <2>3
<1>4. ASSUME HeaderAt(a, N + 1) <= c PROVE Load(a)[c] = Zero
  <2>1. EntryAt(a, c) = {}
    <3> SUFFICES ASSUME NEW m \in EntryAt(a, c) PROVE FALSE
      OBVIOUS
    <3>1. m \in 1 .. N /\ c < HeaderAt(a, m + 1)
      BY <1>1 DEF EntryAt
    <3>2. N + 1 \in m + 1 .. N + 1
      BY <1>1, <3>1
    <3>3. HeaderAt(a, N + 1) \in Nat /\ HeaderAt(a, m + 1) \in Nat
          /\ HeaderAt(a, m + 1) <= HeaderAt(a, N + 1)
      BY <3>1, <3>2, HeadersInOrder
    <3>4. QED
      BY <1>1, <1>4, <3>1, <3>3
  <2>2. QED
    BY <1>2, <2>1
<1>5. QED
  BY <1>3, <1>4

\* The blocks the walk looks at, and the data it finds.
LEMMA LoadedEntry ==
  ASSUME NEW a \in Archives, NEW n \in 1 .. Len(a.entries)
  PROVE  /\ \A k \in 0 .. TAR_BLOCK - 1 :
              LET c == HeaderAt(a, n) + k
              IN c \in Cells /\ a.start <= c /\ c < a.end => Load(a)[c] = HeaderOf(n, k)
         /\ \A k \in 0 .. a.entries[n].size - 1 :
              LET c == DataAt(a, n) + k
              IN c \in Cells /\ a.start <= c /\ c < a.end => Load(a)[c] = DataOf(n, k)
<1>1. PICK h \in Nat : h = HeaderAt(a, n)
  BY HeadersInOrder
<1>2. PICK size \in Nat : size = a.entries[n].size
  BY HeadersInOrder
<1>3. PICK next \in Nat : next = HeaderAt(a, n + 1)
  BY HeadersInOrder
<1>4. PICK T \in Nat \ {0} : T = TAR_BLOCK
  BY Layout
<1>5. h + T + size <= next
  BY <1>1, <1>2, <1>3, <1>4, HeadersInOrder
<1>6. DataAt(a, n) = h + T
  BY <1>1, <1>4 DEF DataAt
<1>7. \A c : ByteOf(a, n, c) = IF c < h + T THEN HeaderOf(n, c - h)
                               ELSE IF c < h + T + size THEN DataOf(n, c - (h + T)) ELSE Zero
  BY <1>1, <1>2, <1>6 DEF ByteOf
<1>8. ASSUME NEW k \in 0 .. T - 1, h + k \in Cells, a.start <= h + k, h + k < a.end
      PROVE  Load(a)[h + k] = HeaderOf(n, k)
  <2>1. h <= h + k /\ h + k < next /\ h + k < h + T /\ (h + k) - h = k
    BY <1>5
  <2>2. Load(a)[h + k] = ByteOf(a, n, h + k)
    BY <1>1, <1>3, <1>8, <2>1, Loaded
  <2>3. QED
    BY <1>7, <2>1, <2>2
<1>9. ASSUME NEW k \in 0 .. size - 1,
             h + T + k \in Cells, a.start <= h + T + k, h + T + k < a.end
      PROVE  Load(a)[h + T + k] = DataOf(n, k)
  <2>1. /\ h <= h + T + k /\ h + T + k < next /\ ~(h + T + k < h + T) /\ h + T + k < h + T + size
        /\ (h + T + k) - (h + T) = k
    BY <1>5
  <2>2. Load(a)[h + T + k] = ByteOf(a, n, h + T + k)
    BY <1>1, <1>3, <1>9, <2>1, Loaded
  <2>3. QED
    BY <1>7, <2>1, <2>2
<1>10. QED
  BY <1>1, <1>2, <1>4, <1>6, <1>8, <1>9

\* No header comes before the module.
LEMMA StartsFirst ==
  ASSUME NEW a \in Archives, NEW n \in 1 .. Len(a.entries) + 1
  PROVE  HeaderAt(a, n) \in Nat /\ a.start <= HeaderAt(a, n)
<1>1. HeaderAt(a, n) \in Nat /\ HeaderAt(a, 1) = a.start /\ a.start \in Nat
  BY HeaderPositions, ArchiveFields
<1>2. CASE n = 1
  BY <1>1, <1>2
<1>3. CASE n # 1
  <2>1. 1 \in 1 .. Len(a.entries) /\ n \in 1 + 1 .. Len(a.entries) + 1
    BY <1>3, ArchiveFields
  <2>2. /\ HeaderAt(a, 1) + TAR_BLOCK + a.entries[1].size <= HeaderAt(a, 1 + 1)
        /\ a.entries[1].size \in Nat /\ HeaderAt(a, 1 + 1) \in Nat
        /\ HeaderAt(a, 1 + 1) <= HeaderAt(a, n)
    BY <2>1, HeadersInOrder
  <2>3. QED
    BY <1>1, <2>2, Layout
<1>4. QED
  BY <1>2, <1>3

(***************************************************************************)
(* What ramfs_read may return.                                             *)
(***************************************************************************)

\* The archive's addresses are in memory.
ArchiveSane ==
  /\ archive \in Archives
  /\ <<ramfs_start, ramfs_end>> \in {<<0, 0>>, <<archive.start, archive.end>>}

LEMMA ArchiveBounds ==
  ASSUME ArchiveSane
  PROVE  /\ ramfs_start \in Nat /\ ramfs_end \in Nat /\ ramfs_start < MemoryEnd /\ ramfs_end < MemoryEnd
         /\ MemoryEnd \in Nat \ {0} /\ TAR_BLOCK \in Nat \ {0}
         /\ DOMAIN Entries = 1 .. Len(Entries) /\ Len(Entries) \in Nat
         /\ \A n \in DOMAIN Entries : Entries[n].size \in Nat
BY ArchiveFields, Layout DEF ArchiveSane, Entries

\* The step from a header goes up.
LEMMA AdvanceGoesUp ==
  ASSUME ArchiveSane, NEW size \in Nat
  PROVE  /\ Advance(size) \in Nat /\ Advance(size) >= TAR_BLOCK + size
         /\ \A addr \in Nat : ~(Advance(size) > ramfs_end - addr) =>
              addr + Advance(size) \in addr + 1 .. ramfs_end
<1>1. Advance(size) = TAR_BLOCK + Padded(size)
  BY PaddedIsRounded DEF Advance
<1>2. Padded(size) \in Nat /\ size <= Padded(size) /\ TAR_BLOCK \in Nat \ {0} /\ ramfs_end \in Nat
  BY PaddedCovers, ArchiveBounds
<1>3. PICK step \in Nat : step = Advance(size) /\ step >= TAR_BLOCK + size
  BY <1>1, <1>2
<1>4. \A addr \in Nat : ~(step > ramfs_end - addr) => addr + step \in addr + 1 .. ramfs_end
  BY <1>2, <1>3
<1>5. QED
  BY <1>3, <1>4

\* From any address the walk goes up.
LEMMA WalkGoesUp ==
  ASSUME ArchiveSane, NEW addr \in 0 .. MemoryEnd, NEW f, NEW g,
         \A later \in addr + 1 .. MemoryEnd : f[later] = g[later]
  PROVE  WalkFrom(f, addr) = WalkFrom(g, addr)
<1> DEFINE n == CHOOSE n \in HeadersIn(addr) : TRUE
           size == Entries[n].size
<1>1. CASE addr + TAR_BLOCK > ramfs_end \/ memory[addr] = Zero
  BY <1>1 DEF WalkFrom
<1>2. CASE ~(addr + TAR_BLOCK > ramfs_end \/ memory[addr] = Zero) /\ HeadersIn(addr) = {}
  <2>1. \A later \in addr + 1 .. ramfs_end : f[later] = g[later]
    BY ArchiveBounds
  <2>2. UNION {f[later] : later \in addr + 1 .. ramfs_end}
          = UNION {g[later] : later \in addr + 1 .. ramfs_end}
    BY <2>1, Zenon
  <2>3. QED
    BY <1>2, <2>2, Zenon DEF WalkFrom
<1>3. CASE ~(addr + TAR_BLOCK > ramfs_end \/ memory[addr] = Zero) /\ HeadersIn(addr) # {}
  <2>1. n \in DOMAIN Entries
    BY <1>3 DEF HeadersIn
  <2>2. size \in Nat
    BY <2>1, ArchiveBounds
  <2> HIDE DEF n, size
  <2>3. ASSUME ~(Advance(size) > ramfs_end - addr)
        PROVE  f[addr + Advance(size)] = g[addr + Advance(size)]
    <3>1. addr + Advance(size) \in addr + 1 .. ramfs_end
      BY <2>2, <2>3, AdvanceGoesUp
    <3>2. addr + Advance(size) \in addr + 1 .. MemoryEnd
      BY <3>1, ArchiveBounds
    <3>3. QED
      BY <3>2
  <2>4. QED
    BY <1>3, <2>3, Zenon DEF WalkFrom, n, size
<1>4. QED
  BY <1>1, <1>2, <1>3

Walk == CHOOSE walk : walk = [addr \in 0 .. MemoryEnd |-> WalkFrom(walk, addr)]

\* So the recursion is well founded, and the walk is what its equation says.
LEMMA WalkExists ==
  ASSUME ArchiveSane
  PROVE  \A addr \in 0 .. MemoryEnd : Walk[addr] = WalkFrom(Walk, addr)
<1> DEFINE From(j, walk) ==
             walk = [addr \in MemoryEnd + 1 - j .. MemoryEnd |-> WalkFrom(walk, addr)]
           Missing == {j \in Nat : j <= MemoryEnd + 1 /\ ~ \E walk : From(j, walk)}
<1>0. MemoryEnd \in Nat
  BY KernelAssumption
<1>1. Missing = {}
  <2> SUFFICES ASSUME Missing # {} PROVE FALSE
    OBVIOUS
  <2>1. PICK j \in Missing : \A i \in Missing : j <= i
    BY Least
  <2>2. j \in Nat /\ j <= MemoryEnd + 1 /\ ~ \E walk : From(j, walk)
    BY <2>1
  <2> HIDE DEF Missing
  <2>3. CASE j = 0
    <3> DEFINE none == [addr \in MemoryEnd + 1 - 0 .. MemoryEnd |-> {NotFound}]
    <3>1. MemoryEnd + 1 - 0 .. MemoryEnd = {}
      BY <1>0
    <3>2. From(0, none)
      BY <3>1
    <3>3. QED
      BY <2>2, <2>3, <3>2
  <2>4. CASE j # 0
    <3>1. PICK low \in 0 .. MemoryEnd : low = MemoryEnd + 1 - j
      <4>1. MemoryEnd + 1 - j \in 0 .. MemoryEnd
        BY <1>0, <2>2, <2>4
      <4>2. QED
        BY <4>1
    <3>2. MemoryEnd + 1 - (j - 1) = low + 1 /\ j - 1 \in Nat /\ j - 1 <= MemoryEnd + 1
      BY <1>0, <2>2, <2>4, <3>1
    <3>3. j - 1 \notin Missing
      BY <2>1, <2>2, <3>2
    <3>4. \E walk : From(j - 1, walk)
      BY <3>2, <3>3 DEF Missing
    <3>5. PICK walk : walk = [addr \in low + 1 .. MemoryEnd |-> WalkFrom(walk, addr)]
      BY <3>2, <3>4
    <3> DEFINE longer ==
          [addr \in low .. MemoryEnd |-> IF addr = low THEN WalkFrom(walk, low) ELSE walk[addr]]
    <3>6. \A addr \in low + 1 .. MemoryEnd : longer[addr] = walk[addr]
      BY <3>1
    <3>7. ASSUME NEW addr \in low .. MemoryEnd PROVE longer[addr] = WalkFrom(longer, addr)
      <4>1. longer[addr] = WalkFrom(walk, addr)
        <5>1. CASE addr = low
          BY <5>1
        <5>2. CASE addr # low
          <6>1. addr \in low + 1 .. MemoryEnd
            BY <1>0, <3>1, <5>2
          <6>2. walk[addr] = WalkFrom(walk, addr)
            BY <3>5, <6>1, Zenon
          <6>3. QED
            BY <3>6, <6>1, <6>2
        <5>3. QED
          BY <5>1, <5>2
      <4>2. addr \in 0 .. MemoryEnd /\ \A later \in addr + 1 .. MemoryEnd : later \in low + 1 .. MemoryEnd
        BY <1>0, <3>1
      <4> HIDE DEF longer
      <4>3. \A later \in addr + 1 .. MemoryEnd : walk[later] = longer[later]
        BY <3>6, <4>2
      <4>4. WalkFrom(walk, addr) = WalkFrom(longer, addr)
        BY <4>2, <4>3, WalkGoesUp
      <4>5. QED
        BY <4>1, <4>4
    <3>8. longer = [addr \in low .. MemoryEnd |-> longer[addr]]
      OBVIOUS
    <3> HIDE DEF longer
    <3>9. longer = [addr \in low .. MemoryEnd |-> WalkFrom(longer, addr)]
      BY <3>7, <3>8, Zenon
    <3>10. From(j, longer)
      BY <3>1, <3>9
    <3>11. QED
      BY <2>2, <3>10
  <2>5. QED
    BY <2>3, <2>4
<1>2. \E walk : walk = [addr \in 0 .. MemoryEnd |-> WalkFrom(walk, addr)]
  <2>1. MemoryEnd + 1 \notin Missing
    BY <1>1
  <2>2. MemoryEnd + 1 \in Nat /\ MemoryEnd + 1 - (MemoryEnd + 1) = 0 /\ MemoryEnd + 1 <= MemoryEnd + 1
    BY <1>0
  <2>3. \E walk : From(MemoryEnd + 1, walk)
    BY <2>1, <2>2
  <2>4. QED
    BY <2>2, <2>3
<1>3. Walk = [addr \in 0 .. MemoryEnd |-> WalkFrom(Walk, addr)]
  BY <1>2, Zenon DEF Walk
<1>4. QED
  BY <1>3, Zenon

\* What the walk returns from anywhere: nothing, or an address and a size in memory.
Results == {r \in [addr : Cells, size : Nat] : r.addr + r.size <= MemoryEnd}

LEMMA WalkTyped ==
  ASSUME ArchiveSane
  PROVE  \A addr \in 0 .. MemoryEnd : Walk[addr] \subseteq Results
<1> DEFINE Right(addr) == Walk[addr] \subseteq Results
           Bad == {j \in Nat : j <= MemoryEnd /\ ~ Right(MemoryEnd - j)}
<1>0. NotFound \in Results
  BY ArchiveBounds DEF NotFound, Results, Cells
<1>1. ASSUME NEW addr \in Nat, NEW size \in Nat, ~(addr + TAR_BLOCK > ramfs_end),
             ~(size > ramfs_end - (addr + TAR_BLOCK))
      PROVE  Found(addr, size) \in Results
  BY <1>1, ArchiveBounds DEF Found, Results, Cells
<1>2. Bad = {}
  <2> SUFFICES ASSUME Bad # {} PROVE FALSE
    OBVIOUS
  <2>1. PICK j \in Bad : \A i \in Bad : j <= i
    BY Least
  <2>2. PICK addr \in 0 .. MemoryEnd : addr = MemoryEnd - j
    <3>1. MemoryEnd - j \in 0 .. MemoryEnd
      BY ArchiveBounds
    <3>2. QED
      BY <3>1
  <2>3. ~ Right(addr)
    BY <2>2
  <2>4. ASSUME NEW later \in addr + 1 .. MemoryEnd PROVE Right(later)
    <3> HIDE DEF Right
    <3>1. /\ j \in Nat /\ MemoryEnd - later \in Nat
          /\ MemoryEnd - later <= MemoryEnd /\ MemoryEnd - later < j
          /\ MemoryEnd - (MemoryEnd - later) = later
      BY <2>2, ArchiveBounds
    <3>2. MemoryEnd - later \notin Bad
      <4> HIDE DEF Bad
      <4>1. QED
        BY <2>1, <3>1
    <3>3. QED
      BY <3>1, <3>2
  <2> HIDE DEF Bad
  <2>5. PICK r \in Walk[addr] : r \notin Results
    BY <2>3
  <2>6. r \in WalkFrom(Walk, addr)
    BY <2>5, WalkExists
  <2>7. ~(addr + TAR_BLOCK > ramfs_end) /\ memory[addr] # Zero
    BY <1>0, <2>5, <2>6 DEF WalkFrom
  <2>8. CASE HeadersIn(addr) = {}
    <3>1. \/ r \in {Found(addr, size) : size \in 0 .. ramfs_end - (addr + TAR_BLOCK)}
          \/ r \in UNION {Walk[later] : later \in addr + 1 .. ramfs_end}
      BY <1>0, <2>5, <2>6, <2>7, <2>8 DEF WalkFrom
    <3>2. CASE r \in {Found(addr, size) : size \in 0 .. ramfs_end - (addr + TAR_BLOCK)}
      <4>1. PICK size \in 0 .. ramfs_end - (addr + TAR_BLOCK) : r = Found(addr, size)
        BY <3>2
      <4>2. size \in Nat /\ addr \in Nat /\ ~(size > ramfs_end - (addr + TAR_BLOCK))
        BY ArchiveBounds
      <4>3. QED
        BY <1>1, <2>5, <2>7, <4>1, <4>2
    <3>3. CASE r \in UNION {Walk[later] : later \in addr + 1 .. ramfs_end}
      <4>1. PICK later \in addr + 1 .. ramfs_end : r \in Walk[later]
        BY <3>3
      <4>2. later \in addr + 1 .. MemoryEnd
        BY ArchiveBounds
      <4>3. QED
        BY <2>4, <2>5, <4>1, <4>2
    <3>4. QED
      BY <3>1, <3>2, <3>3
  <2>9. CASE HeadersIn(addr) # {}
    <3> DEFINE n == CHOOSE n \in HeadersIn(addr) : TRUE
               size == Entries[n].size
    <3>1. n \in DOMAIN Entries
      BY <2>9 DEF HeadersIn
    <3>2. size \in Nat
      BY <3>1, ArchiveBounds
    <3> HIDE DEF n, size
    <3>3. r \in (IF size > ramfs_end - (addr + TAR_BLOCK) THEN {NotFound}
                 ELSE IF IsShell(n) THEN {Found(addr, size)}
                 ELSE IF Advance(size) > ramfs_end - addr THEN {NotFound}
                 ELSE Walk[addr + Advance(size)])
      BY <2>6, <2>7, <2>9 DEF WalkFrom, n, size
    <3>4. /\ r # NotFound
          /\ ~(size > ramfs_end - (addr + TAR_BLOCK)) => r # Found(addr, size)
      BY <1>0, <1>1, <2>5, <2>7, <3>2
    <3>5. ~(Advance(size) > ramfs_end - addr) /\ r \in Walk[addr + Advance(size)]
      BY <3>3, <3>4
    <3>6. addr + Advance(size) \in addr + 1 .. ramfs_end
      BY <3>2, <3>5, AdvanceGoesUp
    <3>7. addr + Advance(size) \in addr + 1 .. MemoryEnd
      BY <3>6, ArchiveBounds
    <3>8. QED
      BY <2>4, <2>5, <3>5, <3>7
  <2>10. QED
    BY <2>8, <2>9
<1>3. ASSUME NEW addr \in 0 .. MemoryEnd PROVE Right(addr)
  <2> HIDE DEF Right
  <2>1. MemoryEnd - addr \in Nat /\ MemoryEnd - addr <= MemoryEnd
        /\ MemoryEnd - (MemoryEnd - addr) = addr
    BY ArchiveBounds
  <2>2. QED
    BY <1>2, <2>1
<1>4. QED
  BY <1>3

LEMMA ReadTyped ==
  ASSUME ArchiveSane
  PROVE  ramfs_read \subseteq Results
<1>1. ramfs_read = IF ramfs_start = 0 \/ ramfs_start >= ramfs_end THEN {NotFound} ELSE Walk[ramfs_start]
  BY Zenon DEF ramfs_read, Walk
<1>2. NotFound \in Results
  BY ArchiveBounds DEF NotFound, Results, Cells
<1>3. Walk[ramfs_start] \subseteq Results
  BY WalkTyped, ArchiveBounds
<1>4. QED
  BY <1>1, <1>2, <1>3

\* While nothing has written to the archive, the walk visits the headers one by
\* one, up to the first shell that is whole; it fails only if there is none.
LEMMA WalkFinds ==
  ASSUME ArchiveSane, Untouched, ramfs_start = archive.start, ramfs_end = archive.end,
         NEW r \in Walk[archive.start]
  PROVE  \/ r = NotFound /\ ShellEntries = {}
         \/ \E n \in ShellEntries : r = Found(HeaderAt(archive, n), Entries[n].size)
<1> DEFINE N == Len(Entries)
           end == archive.end
           At(n) == HeaderAt(archive, n)
           OK(q, n) == \/ q = NotFound /\ \A m \in n .. N : m \notin ShellEntries
                       \/ \E m \in ShellEntries : q = Found(At(m), Entries[m].size)
           Right(n) == At(n) <= end => \A q \in Walk[At(n)] : OK(q, n)
           Bad == {j \in Nat : j <= N /\ ~ Right(N + 1 - j)}
<1>1. /\ N \in Nat /\ DOMAIN Entries = 1 .. N /\ end \in Nat /\ archive.start \in Nat
      /\ end < MemoryEnd /\ MemoryEnd \in Nat /\ TAR_BLOCK \in Nat \ {0}
  BY ArchiveFields, Layout DEF ArchiveSane, Entries
<1>2. \A n \in 1 .. N + 1 : At(n) \in Nat /\ archive.start <= At(n)
  BY StartsFirst DEF ArchiveSane, Entries
<1>3. ASSUME NEW n \in 1 .. N
      PROVE  /\ Entries[n].size \in Nat
             /\ At(n + 1) \in Nat /\ At(n + 1) = At(n) + Advance(Entries[n].size)
             /\ At(n) + TAR_BLOCK + Entries[n].size <= At(n + 1)
             /\ \A m \in n + 1 .. N + 1 : At(m) \in Nat /\ At(n + 1) <= At(m)
  BY HeadersInOrder DEF ArchiveSane, Entries
<1>4. ASSUME NEW m \in ShellEntries
      PROVE  m \in 1 .. N /\ IsShell(m) /\ At(m) + TAR_BLOCK + Entries[m].size <= end
  BY <1>1 DEF ShellEntries, DataAt
<1>5. ASSUME NEW n \in 1 .. N + 1, At(n) + TAR_BLOCK > end, NEW m \in n .. N
      PROVE  m \notin ShellEntries
  <2> SUFFICES ASSUME m \in ShellEntries PROVE FALSE
    OBVIOUS
  <2>1. m \in 1 .. N /\ m \in 1 .. N + 1 /\ At(m) + TAR_BLOCK + Entries[m].size <= end
    BY <1>1, <1>4
  <2>2. At(n) <= At(m)
    <3>1. CASE m = n
      BY <1>2, <3>1
    <3>2. CASE m # n
      <4>1. n \in 1 .. N /\ m \in n + 1 .. N + 1
        BY <1>1, <3>2
      <4>2. /\ At(n) + TAR_BLOCK + Entries[n].size <= At(n + 1) /\ At(n + 1) <= At(m)
            /\ Entries[n].size \in Nat /\ At(n + 1) \in Nat /\ At(m) \in Nat /\ At(n) \in Nat
        BY <1>2, <1>3, <4>1
      <4> HIDE DEF At
      <4>3. QED
        BY <1>1, <4>2
    <3>3. QED
      BY <3>1, <3>2
  <2>3. Entries[m].size \in Nat
    BY <1>3, <2>1
  <2> HIDE DEF At
  <2>4. At(n) \in Nat /\ At(m) \in Nat
    BY <1>2, <2>1
  <2>5. QED
    BY <1>1, <1>5, <2>1, <2>2, <2>3, <2>4
<1> HIDE DEF At, N, end
<1>6. Bad = {}
  <2> SUFFICES ASSUME Bad # {} PROVE FALSE
    OBVIOUS
  <2>1. PICK j \in Bad : \A i \in Bad : j <= i
    BY Least
  <2>2. PICK n \in 1 .. N + 1 : n = N + 1 - j
    <3>1. N + 1 - j \in 1 .. N + 1
      BY <1>1
    <3>2. QED
      BY <3>1
  <2>3. ~ Right(n)
    BY <2>2
  <2>4. n <= N => Right(n + 1)
    <3> HIDE DEF Right
    <3> SUFFICES ASSUME n <= N PROVE Right(n + 1)
      OBVIOUS
    <3>1. j \in Nat /\ j - 1 \in Nat /\ j - 1 <= N /\ j - 1 < j /\ N + 1 - (j - 1) = n + 1
      BY <1>1, <2>2
    <3>2. j - 1 \notin Bad
      <4> HIDE DEF Bad
      <4>1. QED
        BY <2>1, <3>1
    <3>3. QED
      BY <3>1, <3>2
  <2> HIDE DEF Bad
  <2>5. PICK q \in Walk[At(n)] : At(n) <= end /\ ~ OK(q, n)
    BY <2>3
  <2>6. PICK h \in Nat : h = At(n)
    BY <1>2
  <2>7. h \in 0 .. MemoryEnd /\ h <= end /\ archive.start <= h
    BY <1>1, <1>2, <2>5, <2>6
  <2>8. q \in WalkFrom(Walk, h)
    BY <2>5, <2>6, <2>7, WalkExists
  <2>9. h + TAR_BLOCK <= end
    <3> SUFFICES ASSUME h + TAR_BLOCK > end PROVE FALSE
      BY <1>1
    <3>1. q = NotFound
      BY <2>8 DEF WalkFrom, end
    <3>2. \A m \in n .. N : m \notin ShellEntries
      BY <1>5, <2>6
    <3>3. QED
      BY <2>5, <3>1, <3>2
  <2>10. ASSUME NEW k \in 0 .. TAR_BLOCK - 1
         PROVE  /\ h + k \in Cells /\ archive.start <= h + k /\ h + k < end
                /\ memory[h + k] = Load(archive)[h + k]
    <3>1. h + k \in Cells /\ archive.start <= h + k /\ h + k < end
      BY <1>1, <2>7, <2>9 DEF Cells
    <3>2. QED
      BY <3>1 DEF Untouched, end
  <2>11. CASE n = N + 1
    <3>1. /\ h + 0 \in Cells /\ archive.start <= h + 0 /\ h + 0 < end
          /\ memory[h + 0] = Load(archive)[h + 0]
      <4>1. 0 \in 0 .. TAR_BLOCK - 1
        BY <1>1
      <4>2. QED
        BY <2>10, <4>1
    <3>2. h + 0 = h /\ HeaderAt(archive, Len(archive.entries) + 1) = h
      BY <2>6, <2>11 DEF At, N, Entries
    <3>3. Load(archive)[h] = Zero
      BY <3>1, <3>2, Loaded DEF ArchiveSane, end
    <3>4. q = NotFound
      BY <2>8, <3>1, <3>2, <3>3 DEF WalkFrom
    <3>5. n .. N = {}
      BY <1>1, <2>11
    <3>6. QED
      BY <2>5, <3>4, <3>5
  <2>12. CASE n # N + 1
    <3>1. n \in 1 .. N /\ n <= N
      BY <1>1, <2>12
    <3>2. \A k \in 0 .. TAR_BLOCK - 1 : memory[h + k] = HeaderOf(n, k)
      <4> SUFFICES ASSUME NEW k \in 0 .. TAR_BLOCK - 1 PROVE memory[h + k] = HeaderOf(n, k)
        OBVIOUS
      <4>1. /\ h + k \in Cells /\ archive.start <= h + k /\ h + k < archive.end
            /\ memory[h + k] = Load(archive)[h + k]
        BY <2>10 DEF end
      <4>2. Load(archive)[h + k] = HeaderOf(n, k)
        BY <2>6, <3>1, <4>1, LoadedEntry DEF ArchiveSane, At, N, Entries
      <4>3. QED
        BY <4>1, <4>2
    <3>3. memory[h] = HeaderOf(n, 0) /\ 0 \in 0 .. TAR_BLOCK - 1 /\ h + 0 = h
      <4>1. 0 \in 0 .. TAR_BLOCK - 1 /\ h + 0 = h
        BY <1>1
      <4>2. memory[h + 0] = HeaderOf(n, 0)
        BY <3>2, <4>1
      <4>3. QED
        BY <4>1, <4>2
    <3>4. HeadersIn(h) = {n}
      <4>1. n \in HeadersIn(h)
        BY <1>1, <3>1, <3>2 DEF HeadersIn
      <4>2. ASSUME NEW m \in HeadersIn(h) PROVE m = n
        <5>1. memory[h + 0] = HeaderOf(m, 0)
          BY <3>3 DEF HeadersIn
        <5>2. HeaderOf(m, 0) = HeaderOf(n, 0)
          BY <3>3, <5>1
        <5>3. QED
          BY <5>2 DEF HeaderOf
      <4>3. QED
        BY <4>1, <4>2
    <3>5. memory[h] # Zero
      BY <3>3 DEF HeaderOf, Zero
    <3>6. PICK size \in Nat : size = Entries[n].size
      BY <1>3, <3>1
    <3>7. q \in (IF size > end - (h + TAR_BLOCK) THEN {NotFound}
                 ELSE IF IsShell(n) THEN {Found(h, size)}
                 ELSE IF Advance(size) > end - h THEN {NotFound}
                 ELSE Walk[h + Advance(size)])
      <4>1. (CHOOSE m \in HeadersIn(h) : TRUE) = n
        BY <3>4
      <4>2. ~(h + TAR_BLOCK > ramfs_end \/ memory[h] = Zero) /\ HeadersIn(h) # {}
        BY <1>1, <2>9, <3>4, <3>5 DEF end
      <4>3. QED
        BY <2>8, <3>6, <4>1, <4>2 DEF WalkFrom, end
    <3>8. n \in ShellEntries <=> IsShell(n) /\ h + TAR_BLOCK + size <= end
      BY <1>1, <2>6, <3>1, <3>6 DEF ShellEntries, DataAt, At, end
    <3>9. /\ At(n + 1) \in Nat /\ At(n + 1) = h + Advance(size)
          /\ h + TAR_BLOCK + size <= At(n + 1)
      BY <1>3, <2>6, <3>1, <3>6
    <3>10. \A m \in n .. N : m = n \/ m \in n + 1 .. N
      BY <1>1, <3>1
    <3>11. ASSUME At(n + 1) > end, NEW m \in n + 1 .. N PROVE m \notin ShellEntries
      <4>1. n + 1 \in 1 .. N + 1 /\ At(n + 1) + TAR_BLOCK > end
        BY <1>1, <3>1, <3>9, <3>11
      <4>2. QED
        BY <1>5, <4>1
    <3>12. CASE size > end - (h + TAR_BLOCK)
      <4>1. q = NotFound
        BY <3>7, <3>12
      <4>2. n \notin ShellEntries /\ At(n + 1) > end
        BY <1>1, <3>8, <3>9, <3>12
      <4>3. QED
        BY <2>5, <3>10, <3>11, <4>1, <4>2
    <3>13. CASE ~(size > end - (h + TAR_BLOCK)) /\ IsShell(n)
      <4>1. q = Found(At(n), Entries[n].size)
        BY <2>6, <3>6, <3>7, <3>13
      <4>2. n \in ShellEntries
        BY <1>1, <3>8, <3>13
      <4>3. QED
        BY <2>5, <4>1, <4>2
    <3>14. CASE ~(size > end - (h + TAR_BLOCK)) /\ ~IsShell(n) /\ Advance(size) > end - h
      <4>1. q = NotFound /\ n \notin ShellEntries
        BY <3>7, <3>8, <3>14
      <4>2. At(n + 1) > end
        <5>1. PICK step \in Nat : step = Advance(size)
          BY AdvanceGoesUp
        <5>2. QED
          BY <1>1, <3>9, <3>14, <5>1
      <4>3. QED
        BY <2>5, <3>10, <3>11, <4>1, <4>2
    <3>15. CASE ~(size > end - (h + TAR_BLOCK)) /\ ~IsShell(n) /\ ~(Advance(size) > end - h)
      <4>1. q \in Walk[At(n + 1)] /\ n \notin ShellEntries
        BY <3>7, <3>8, <3>9, <3>15
      <4>2. At(n + 1) <= end
        <5>1. PICK step \in Nat : step = Advance(size)
          BY AdvanceGoesUp
        <5>2. QED
          BY <1>1, <3>9, <3>15, <5>1
      <4>3. OK(q, n + 1)
        BY <2>4, <3>1, <4>1, <4>2
      <4>4. QED
        BY <2>5, <3>10, <4>1, <4>3
    <3>16. QED
      BY <3>12, <3>13, <3>14, <3>15
  <2>13. QED
    BY <2>11, <2>12
<1>7. Right(1)
  <2> HIDE DEF Right
  <2>1. N \in Nat /\ N <= N /\ N + 1 - N = 1
    BY <1>1
  <2>2. QED
    BY <1>6, <2>1
<1>8. At(1) = archive.start
  BY HeaderPositions DEF At, ArchiveSane
<1>9. CASE archive.start <= end
  <2>1. OK(r, 1)
    BY <1>7, <1>8, <1>9
  <2>2. (\A m \in 1 .. N : m \notin ShellEntries) => ShellEntries = {}
    BY <1>4
  <2>3. QED
    BY <2>1, <2>2 DEF At
<1>10. CASE ~(archive.start <= end)
  <2>1. archive.start \in 0 .. MemoryEnd /\ archive.start + TAR_BLOCK > ramfs_end
    BY <1>1, <1>10, ArchiveFields DEF ArchiveSane, end
  <2>2. r = NotFound
    <3>1. r \in WalkFrom(Walk, archive.start)
      BY <2>1, WalkExists
    <3>2. QED
      BY <2>1, <3>1 DEF WalkFrom
  <2>3. 1 \in 1 .. N + 1 /\ At(1) + TAR_BLOCK > end
    BY <1>1, <1>8, <1>10
  <2>4. \A m \in 1 .. N : m \notin ShellEntries
    BY <1>5, <2>3
  <2>5. QED
    BY <1>4, <2>2, <2>4
<1>11. QED
  BY <1>9, <1>10

\* So a launch finds a shell of the archive, or there is none to find.
LEMMA ReadFinds ==
  ASSUME ArchiveSane, Untouched, multiboot.mods \in BOOLEAN,
         ramfs = IF HasArchive THEN <<archive.start, archive.end>> ELSE <<0, 0>>,
         NEW image \in ramfs_read
  PROVE  \/ image = NotFound /\ (~multiboot.mods \/ ShellEntries = {})
         \/ image.addr # 0 /\ IsShellAt(image.addr, image.size)
<1>1. ramfs_read = IF ramfs_start = 0 \/ ramfs_start >= ramfs_end THEN {NotFound} ELSE Walk[ramfs_start]
  BY Zenon DEF ramfs_read, Walk
<1>2. archive.start \in Nat \ {0} /\ archive.end \in Nat
  BY ArchiveFields DEF ArchiveSane
<1>3. CASE HasArchive
  <2>1. ramfs_start = archive.start /\ ramfs_end = archive.end
    BY <1>3 DEF ramfs
  <2>2. image \in Walk[archive.start]
    BY <1>1, <1>2, <1>3, <2>1 DEF HasArchive
  <2>3. CASE image = NotFound /\ ShellEntries = {}
    BY <2>3
  <2>4. ASSUME NEW n \in ShellEntries, image = Found(HeaderAt(archive, n), Entries[n].size)
        PROVE  image.addr # 0 /\ IsShellAt(image.addr, image.size)
    <3>1. image.addr = DataAt(archive, n) /\ image.size = Entries[n].size
      BY <2>4 DEF Found, DataAt
    <3>2. n \in 1 .. Len(archive.entries) + 1
      BY ArchiveFields DEF ShellEntries, Entries, ArchiveSane
    <3>3. HeaderAt(archive, n) \in Nat
      BY <3>2, StartsFirst DEF ArchiveSane
    <3>4. image.addr # 0
      BY <3>1, <3>3, Layout DEF DataAt
    <3>5. QED
      BY <3>1, <3>4 DEF IsShellAt
  <2>5. QED
    BY <2>1, <2>2, <2>3, <2>4, WalkFinds
<1>4. CASE ~HasArchive
  <2>1. ramfs_start = 0
    BY <1>4 DEF ramfs
  <2>2. image = NotFound
    BY <1>1, <2>1
  <2>3. ASSUME multiboot.mods, NEW n \in ShellEntries PROVE FALSE
    <3>1. n \in 1 .. Len(archive.entries) /\ n \in 1 .. Len(archive.entries) + 1
      BY ArchiveFields DEF ShellEntries, Entries, ArchiveSane
    <3>2. DataAt(archive, n) + Entries[n].size <= archive.end
      BY DEF ShellEntries
    <3>3. Entries[n].size \in Nat
      BY <3>1, ArchiveFields DEF Entries, ArchiveSane
    <3>4. HeaderAt(archive, n) \in Nat /\ archive.start <= HeaderAt(archive, n)
      BY <3>1, StartsFirst DEF ArchiveSane
    <3>5. archive.end > archive.start
      BY <1>2, <3>2, <3>3, <3>4, Layout DEF DataAt
    <3>6. QED
      BY <1>4, <2>3, <3>5 DEF HasArchive
  <2>4. QED
    BY <2>2, <2>3
<1>5. QED
  BY <1>3, <1>4

(***************************************************************************)
(* Sizes and pages.                                                        *)
(***************************************************************************)

\* Rounding up to whole pages covers the size.
LEMMA PagesCover ==
  ASSUME NEW size \in Nat
  PROVE  /\ PagesFor(size) \in Nat /\ PagesFor(size) * PAGE_SIZE >= size
         /\ size > 0 => PagesFor(size) > 0
<1> DEFINE up == size + PAGE_SIZE - 1
           pages == up \div PAGE_SIZE
<1>1. PAGE_SIZE \in Nat \ {0} /\ up \in Nat
  BY Layout
<1>2. pages \in Nat /\ up < pages * PAGE_SIZE + PAGE_SIZE
  BY <1>1, DivBounds
<1>3. PICK cells \in Nat : cells = pages * PAGE_SIZE
  BY <1>1, <1>2
<1>4. cells >= size
  BY <1>1, <1>2, <1>3
<1>5. pages = 0 => cells = 0
  BY <1>1, <1>3
<1> HIDE DEF pages, up
<1>6. QED
  BY <1>2, <1>3, <1>4, <1>5 DEF PagesFor, pages, up

\* So does the rounding of exec, unless it wraps.
LEMMA HeaderPagesCover ==
  ASSUME NEW size \in Nat
  PROVE  /\ HeaderPages(size) \in Nat
         /\ size + PAGE_SIZE - 1 <= UIntMax => HeaderPages(size) * PAGE_SIZE >= size
<1> DEFINE up == size + PAGE_SIZE - 1
           low == up % (UIntMax + 1)
<1>1. PAGE_SIZE \in Nat \ {0} /\ up \in Nat /\ UIntMax + 1 \in Nat \ {0} /\ UIntMax \in Nat
  BY Layout
<1>2. low \in Nat /\ (up <= UIntMax => low = up)
  <2>1. low \in Nat /\ (up < UIntMax + 1 => low = up)
    BY <1>1, ModBounds
  <2>2. QED
    BY <1>1, <2>1
<1>3. low \div PAGE_SIZE \in Nat
  BY <1>1, <1>2, DivBounds
<1>4. ASSUME up <= UIntMax PROVE HeaderPages(size) = PagesFor(size)
  BY <1>2, <1>4 DEF HeaderPages, PagesFor
<1> HIDE DEF low, up
<1>5. HeaderPages(size) \in Nat
  BY <1>3 DEF HeaderPages, low, up
<1>6. QED
  BY <1>4, <1>5, PagesCover DEF up

Header == [DOMAIN NoHeader -> Nat]

LEMMA HeaderFields ==
  /\ NoHeader \in Header
  /\ \A text, data, bss, stack \in Nat :
       [text |-> text, data |-> data, bss |-> bss, stack |-> stack] \in Header
  /\ \A h \in Header : h.text \in Nat /\ h.data \in Nat /\ h.bss \in Nat /\ h.stack \in Nat
<1>1. DOMAIN NoHeader = {"text", "data", "bss", "stack"}
  BY DEF NoHeader
<1>2. Header = [{"text", "data", "bss", "stack"} -> Nat]
  BY <1>1 DEF Header
<1>3. NoHeader \in Header
  BY <1>2 DEF NoHeader
<1>4. ASSUME NEW text \in Nat, NEW data \in Nat, NEW bss \in Nat, NEW stack \in Nat
      PROVE  [text |-> text, data |-> data, bss |-> bss, stack |-> stack] \in Header
  BY <1>2
<1>5. QED
  BY <1>2, <1>3, <1>4

\* The total that exec computes, exact unless it wraps.
LEMMA SumIsExact ==
  ASSUME NEW h \in Header
  PROVE  /\ Sum(h) \in Nat
         /\ h.text + h.data + h.bss <= UIntMax => Sum(h) = h.text + h.data + h.bss
<1>1. h.text \in Nat /\ h.data \in Nat /\ h.bss \in Nat /\ UIntMax \in Nat
  BY HeaderFields, Layout
<1>2. PICK total \in Nat : total = h.text + h.data + h.bss
  BY <1>1
<1>3. total % (UIntMax + 1) \in Nat /\ (total < UIntMax + 1 => total % (UIntMax + 1) = total)
  BY <1>1, ModBounds
<1>4. Sum(h) = total % (UIntMax + 1)
  BY <1>2 DEF Sum
<1>5. QED
  BY <1>1, <1>2, <1>3, <1>4

\* Enough pages from a page's start on are all the pages that the bytes lie in.
LEMMA PagesInRow ==
  ASSUME NEW base \in Nat, base % PAGE_SIZE = 0, NEW size \in Nat, NEW pages \in Nat,
         pages * PAGE_SIZE >= size, NEW page \in PagesOf(base, size)
  PROVE  base \div PAGE_SIZE \in Nat /\ \E i \in 0 .. pages - 1 : page = base \div PAGE_SIZE + i
<1>1. PICK P \in Nat \ {0} : P = PAGE_SIZE
  BY Layout
<1>2. PICK c \in base .. base + size - 1 : page = c \div P
  BY <1>1 DEF PagesOf
<1>3. PICK q \in Nat : q = base \div P
  BY DivBounds
<1>4. base = q * P
  BY <1>1, <1>3, DivMod
<1>5. PICK d \in Nat : c = base + d /\ d < size
  <2>1. c - base \in Nat /\ c = base + (c - base) /\ c - base < size
    OBVIOUS
  <2>2. QED
    BY <2>1
<1>6. PICK i \in Nat : i = d \div P
  BY DivBounds
<1>7. PICK low \in Nat : low = i * P /\ low <= d /\ d < low + P
  BY <1>6, DivBounds
<1>8. c \div P = q + i
  <2>1. (q + i) * P = q * P + i * P
    OBVIOUS
  <2>2. PICK m \in Nat : m = (q + i) * P /\ m = base + low
    BY <1>4, <1>7, <2>1
  <2>3. m <= c /\ c < m + P
    BY <1>5, <1>7, <2>2
  <2>4. PICK k \in Nat : k = q + i
    OBVIOUS
  <2>5. c \in Nat /\ k * P = m
    BY <1>5, <2>2, <2>4
  <2>6. c \div P = k
    BY <2>3, <2>5, DivUnique
  <2>7. QED
    BY <2>4, <2>6
<1>9. i < pages
  <2> SUFFICES ASSUME pages <= i PROVE FALSE
    OBVIOUS
  <2>1. pages * P <= i * P /\ pages * P \in Nat
    BY Multiples
  <2>2. QED
    BY <1>1, <1>5, <1>7, <2>1
<1>10. QED
  BY <1>1, <1>2, <1>3, <1>8, <1>9

(***************************************************************************)
(* kernel_memmove.                                                         *)
(***************************************************************************)

CopyFrom(n, to, from, copy) ==
  [k \in 0 .. n |->
     IF k = 0 THEN memory ELSE [copy[k - 1] EXCEPT ![to[k]] = copy[k - 1][from[k]]]]
Copy(n, to, from) == CHOOSE copy : copy = CopyFrom(n, to, from, copy)

\* A copy goes byte by byte.
LEMMA CopyExists ==
  ASSUME NEW n \in Nat, NEW to, NEW from
  PROVE  Copy(n, to, from) = CopyFrom(n, to, from, Copy(n, to, from))
<1> DEFINE Write(copy, k) == [copy[k - 1] EXCEPT ![to[k]] = copy[k - 1][from[k]]]
           Upto(m, copy) == copy = [k \in 0 .. m |-> IF k = 0 THEN memory ELSE Write(copy, k)]
           Missing == {m \in Nat : ~ \E copy : Upto(m, copy)}
<1>1. Missing = {}
  <2> SUFFICES ASSUME Missing # {} PROVE FALSE
    OBVIOUS
  <2>1. PICK m \in Missing : \A j \in Missing : m <= j
    BY Least
  <2>2. CASE m = 0
    <3>1. Upto(0, [k \in 0 .. 0 |-> memory])
      OBVIOUS
    <3>2. QED
      BY <2>2, <3>1
  <2>3. CASE m # 0
    <3>0. m \in Nat /\ m - 1 \in Nat
      BY <2>3
    <3> HIDE DEF Missing
    <3>1. m - 1 \notin Missing
      BY <2>1, <3>0
    <3> USE DEF Missing
    <3>2. PICK copy : Upto(m - 1, copy)
      BY <3>0, <3>1
    <3> HIDE DEF Write
    <3> DEFINE longer == [k \in 0 .. m |-> IF k = m THEN Write(copy, m) ELSE copy[k]]
    <3>3. \A k \in 0 .. m - 1 : longer[k] = copy[k]
      BY <3>0
    <3>4. \A k \in 1 .. m : Write(longer, k) = Write(copy, k)
      <4> SUFFICES ASSUME NEW k \in 1 .. m PROVE Write(longer, k) = Write(copy, k)
        OBVIOUS
      <4>1. longer[k - 1] = copy[k - 1]
        BY <3>0, <3>3
      <4> HIDE DEF longer
      <4>2. QED
        BY <4>1 DEF Write
    <3>5. \A k \in 0 .. m : longer[k] = IF k = 0 THEN memory ELSE Write(longer, k)
      <4> SUFFICES ASSUME NEW k \in 0 .. m
                   PROVE  longer[k] = IF k = 0 THEN memory ELSE Write(longer, k)
        OBVIOUS
      <4>1. CASE k = m
        <5>1. longer[m] = Write(copy, m) /\ Write(longer, m) = Write(copy, m)
          BY <2>3, <3>0, <3>4
        <5> HIDE DEF longer
        <5>2. QED
          BY <2>3, <4>1, <5>1
      <4>2. CASE k # m
        <5>1. k \in 0 .. m - 1
          BY <3>0, <4>2
        <5>2. copy[k] = IF k = 0 THEN memory ELSE Write(copy, k)
          BY <3>2, <5>1
        <5>3. k # 0 => Write(longer, k) = Write(copy, k)
          BY <3>0, <3>4
        <5> HIDE DEF longer
        <5>4. QED
          BY <3>3, <5>1, <5>2, <5>3
      <4>3. QED
        BY <4>1, <4>2
    <3>6. Upto(m, longer)
      <4>1. longer = [k \in 0 .. m |-> longer[k]]
        OBVIOUS
      <4> HIDE DEF longer
      <4>2. QED
        BY <3>5, <4>1
    <3>7. QED
      BY <2>1, <3>6
  <2>4. QED
    BY <2>2, <2>3
<1>2. \E copy : copy = CopyFrom(n, to, from, copy)
  <2>1. n \notin Missing
    BY <1>1
  <2>2. PICK copy : Upto(n, copy)
    BY <2>1
  <2>3. QED
    BY <2>2 DEF CopyFrom
<1>3. QED
  BY <1>2, Zenon DEF Copy

\* The first byte is written to the memory as it was, each later one to what the
\* byte before left.
LEMMA CopySteps ==
  ASSUME NEW n \in Nat, NEW to, NEW from
  PROVE  /\ Copy(n, to, from)[0] = memory
         /\ \A k \in 1 .. n :
              Copy(n, to, from)[k] =
                [Copy(n, to, from)[k - 1] EXCEPT ![to[k]] = Copy(n, to, from)[k - 1][from[k]]]
         /\ CopyBytes(n, to, from) = Copy(n, to, from)[n]
<1> DEFINE copy == Copy(n, to, from)
<1>1. \A k \in 0 .. n :
        copy[k] = IF k = 0 THEN memory ELSE [copy[k - 1] EXCEPT ![to[k]] = copy[k - 1][from[k]]]
  <2>1. copy = CopyFrom(n, to, from, copy)
    BY CopyExists
  <2> HIDE DEF copy
  <2>2. QED
    BY <2>1 DEF CopyFrom
<1>2. CopyBytes(n, to, from) = copy[n]
  BY Zenon DEF CopyBytes, Copy, CopyFrom
<1> HIDE DEF copy
<1>3. 0 \in 0 .. n /\ \A k \in 1 .. n : k \in 0 .. n /\ k # 0
  OBVIOUS
<1>4. copy[0] = memory
  BY <1>1, <1>3
<1>5. \A k \in 1 .. n : copy[k] = [copy[k - 1] EXCEPT ![to[k]] = copy[k - 1][from[k]]]
  BY <1>1, <1>3, Zenon
<1>6. QED
  BY <1>2, <1>4, <1>5 DEF copy

\* Upwards from a higher address, no byte is read after it was written.
LEMMA CopyUp ==
  ASSUME DOMAIN memory = Cells, NEW dest \in Nat, NEW src \in Nat, NEW n \in Nat,
         dest < src, src + n <= MemoryEnd
  PROVE  LET after == CopyBytes(n, Upwards(dest, n), Upwards(src, n))
         IN /\ DOMAIN after = Cells
            /\ \A c \in Cells : after[c] = IF dest <= c /\ c < dest + n
                                             THEN memory[src + (c - dest)] ELSE memory[c]
<1> DEFINE to == Upwards(dest, n)
           from == Upwards(src, n)
           copy == Copy(n, to, from)
           Right(k) == /\ DOMAIN copy[k] = Cells
                       /\ \A c \in Cells : copy[k][c] = IF dest <= c /\ c < dest + k
                                                         THEN memory[src + (c - dest)] ELSE memory[c]
           Bad == {k \in Nat : k <= n /\ ~ Right(k)}
<1>1. /\ copy[0] = memory
      /\ \A k \in 1 .. n : copy[k] = [copy[k - 1] EXCEPT ![to[k]] = copy[k - 1][from[k]]]
      /\ CopyBytes(n, to, from) = copy[n]
  BY CopySteps
<1>2. \A k \in 1 .. n : to[k] = dest + k - 1 /\ from[k] = src + k - 1
  BY DEF Upwards
<1> HIDE DEF to, from, copy
<1>3. Cells \subseteq Nat /\ MemoryEnd \in Nat
  BY Layout DEF Cells
<1>4. Bad = {}
  <2> SUFFICES ASSUME Bad # {} PROVE FALSE
    OBVIOUS
  <2>1. PICK k \in Bad : \A j \in Bad : k <= j
    BY Least
  <2>2. CASE k = 0
    <3>1. Right(0)
      BY <1>1, <1>3
    <3>2. QED
      BY <2>2, <3>1
  <2>3. CASE k # 0
    <3>1. k \in 1 .. n /\ k - 1 \in Nat /\ k - 1 <= n
      BY <2>3
    <3>2. Right(k - 1)
      <4> HIDE DEF Right
      <4>1. ~ Right(k - 1) => k - 1 \in Bad
        BY <3>1
      <4> HIDE DEF Bad
      <4>2. QED
        BY <2>1, <3>1, <4>1
    <3>3. copy[k] = [copy[k - 1] EXCEPT ![dest + k - 1] = copy[k - 1][src + k - 1]]
      BY <1>1, <1>2, <3>1
    <3>4. src + k - 1 \in Cells /\ ~(dest <= src + k - 1 /\ src + k - 1 < dest + (k - 1))
      BY <1>3, <3>1 DEF Cells
    <3>5. copy[k - 1][src + k - 1] = memory[src + k - 1]
      BY <3>2, <3>4
    <3>6. DOMAIN copy[k] = Cells
      BY <3>2, <3>3
    <3>7. ASSUME NEW c \in Cells
          PROVE  copy[k][c] = IF dest <= c /\ c < dest + k
                               THEN memory[src + (c - dest)] ELSE memory[c]
      <4>1. c \in Nat
        BY <1>3
      <4>2. CASE c = dest + k - 1
        <5>1. copy[k][c] = memory[src + k - 1]
          BY <3>2, <3>3, <3>5, <4>2
        <5>2. dest <= c /\ c < dest + k /\ src + (c - dest) = src + k - 1
          BY <3>1, <4>2
        <5>3. QED
          BY <5>1, <5>2
      <4>3. CASE c # dest + k - 1
        <5>1. copy[k][c] = copy[k - 1][c]
          BY <3>2, <3>3, <4>3
        <5>2. dest <= c /\ c < dest + k <=> dest <= c /\ c < dest + (k - 1)
          BY <3>1, <4>1, <4>3
        <5>3. QED
          BY <3>2, <5>1, <5>2
      <4>4. QED
        BY <4>2, <4>3
    <3>8. Right(k)
      BY <3>6, <3>7
    <3>9. QED
      BY <3>8
  <2>4. QED
    BY <2>2, <2>3
<1>5. Right(n)
  <2> HIDE DEF Right
  <2>1. QED
    BY <1>4
<1>6. QED
  BY <1>1, <1>5 DEF to, from

\* Nor downwards from a lower one.
LEMMA CopyDown ==
  ASSUME DOMAIN memory = Cells, NEW dest \in Nat, NEW src \in Nat, NEW n \in Nat,
         src < dest, src + n <= MemoryEnd
  PROVE  LET after == CopyBytes(n, Downwards(dest, n), Downwards(src, n))
         IN /\ DOMAIN after = Cells
            /\ \A c \in Cells : after[c] = IF dest <= c /\ c < dest + n
                                             THEN memory[src + (c - dest)] ELSE memory[c]
<1> DEFINE to == Downwards(dest, n)
           from == Downwards(src, n)
           copy == Copy(n, to, from)
           Right(k) == /\ DOMAIN copy[k] = Cells
                       /\ \A c \in Cells : copy[k][c] = IF dest + n - k <= c /\ c < dest + n
                                                         THEN memory[src + (c - dest)] ELSE memory[c]
           Bad == {k \in Nat : k <= n /\ ~ Right(k)}
<1>1. /\ copy[0] = memory
      /\ \A k \in 1 .. n : copy[k] = [copy[k - 1] EXCEPT ![to[k]] = copy[k - 1][from[k]]]
      /\ CopyBytes(n, to, from) = copy[n]
  BY CopySteps
<1>2. \A k \in 1 .. n : to[k] = dest + n - k /\ from[k] = src + n - k
  BY DEF Downwards
<1> HIDE DEF to, from, copy
<1>3. Cells \subseteq Nat /\ MemoryEnd \in Nat
  BY Layout DEF Cells
<1>4. Bad = {}
  <2> SUFFICES ASSUME Bad # {} PROVE FALSE
    OBVIOUS
  <2>1. PICK k \in Bad : \A j \in Bad : k <= j
    BY Least
  <2>2. CASE k = 0
    <3>1. Right(0)
      BY <1>1, <1>3
    <3>2. QED
      BY <2>2, <3>1
  <2>3. CASE k # 0
    <3>1. k \in 1 .. n /\ k - 1 \in Nat /\ k - 1 <= n
      BY <2>3
    <3>2. Right(k - 1)
      <4> HIDE DEF Right
      <4>1. ~ Right(k - 1) => k - 1 \in Bad
        BY <3>1
      <4> HIDE DEF Bad
      <4>2. QED
        BY <2>1, <3>1, <4>1
    <3>3. copy[k] = [copy[k - 1] EXCEPT ![dest + n - k] = copy[k - 1][src + n - k]]
      BY <1>1, <1>2, <3>1
    <3>4. src + n - k \in Cells /\ ~(dest + n - (k - 1) <= src + n - k /\ src + n - k < dest + n)
      BY <1>3, <3>1 DEF Cells
    <3>5. copy[k - 1][src + n - k] = memory[src + n - k]
      BY <3>2, <3>4
    <3>6. DOMAIN copy[k] = Cells
      BY <3>2, <3>3
    <3>7. ASSUME NEW c \in Cells
          PROVE  copy[k][c] = IF dest + n - k <= c /\ c < dest + n
                               THEN memory[src + (c - dest)] ELSE memory[c]
      <4>1. c \in Nat
        BY <1>3
      <4>2. CASE c = dest + n - k
        <5>1. copy[k][c] = memory[src + n - k]
          BY <3>2, <3>3, <3>5, <4>2
        <5>2. dest + n - k <= c /\ c < dest + n /\ src + (c - dest) = src + n - k
          BY <3>1, <4>2
        <5>3. QED
          BY <5>1, <5>2
      <4>3. CASE c # dest + n - k
        <5>1. copy[k][c] = copy[k - 1][c]
          BY <3>2, <3>3, <4>3
        <5>2. dest + n - k <= c /\ c < dest + n <=> dest + n - (k - 1) <= c /\ c < dest + n
          BY <3>1, <4>1, <4>3
        <5>3. QED
          BY <3>2, <5>1, <5>2
      <4>4. QED
        BY <4>2, <4>3
    <3>8. Right(k)
      BY <3>6, <3>7
    <3>9. QED
      BY <3>8
  <2>4. QED
    BY <2>2, <2>3
<1>5. Right(n)
  <2> HIDE DEF Right
  <2>1. QED
    BY <1>4
<1>6. dest + n - n = dest
  OBVIOUS
<1>7. QED
  BY <1>1, <1>5, <1>6 DEF to, from

\* kernel_memmove tests which way is which: every byte arrives as it was, overlap
\* or not, and no other changes (kernel.c:119-127).
LEMMA MemmoveCopies ==
  ASSUME DOMAIN memory = Cells, NEW dest \in Nat, NEW src \in Nat, NEW n \in Nat,
         src + n <= MemoryEnd
  PROVE  LET after == kernel_memmove(dest, src, n)
         IN /\ DOMAIN after = Cells
            /\ \A c \in Cells : after[c] = IF dest <= c /\ c < dest + n
                                             THEN memory[src + (c - dest)] ELSE memory[c]
<1>1. Cells \subseteq Nat
  BY Layout DEF Cells
<1>2. CASE dest = src \/ n = 0
  <2>1. \A c \in Cells : dest <= c /\ c < dest + n => src + (c - dest) = c
    BY <1>1, <1>2
  <2>2. QED
    BY <1>2, <2>1 DEF kernel_memmove
<1>3. CASE ~(dest = src \/ n = 0) /\ dest < src
  BY <1>3, CopyUp DEF kernel_memmove
<1>4. CASE ~(dest = src \/ n = 0) /\ ~(dest < src)
  BY <1>4, CopyDown DEF kernel_memmove
<1>5. QED
  BY <1>2, <1>3, <1>4

(***************************************************************************)
(* The initial state, and each step.                                       *)
(***************************************************************************)

\* A program about to be loaded has asked for nothing yet.
LEMMA NewLoad ==
  ASSUME NEW prog \in {"shell", "app"}, NEW src \in Cells, NEW size \in Nat, NEW header \in Header,
         Loading(prog, src, size, header)
  PROVE  /\ load' \in LoadRecord
         /\ load'.prog = prog /\ load'.src = src /\ load'.size = size
         /\ load'.asked = <<>> /\ Got' = 0 /\ Needed' \in Nat
         /\ PagesCounted'
<1> DEFINE pages == IF prog = "shell" THEN PagesFor(size) ELSE HeaderPages(Sum(header))
<1>1. pages \in Nat
  <2>1. PagesFor(size) \in Nat /\ Sum(header) \in Nat
    BY PagesCover, SumIsExact
  <2>2. HeaderPages(Sum(header)) \in Nat
    BY <2>1, HeaderPagesCover
  <2>3. QED
    BY <2>1, <2>2
<1>2. HeaderPages(header.stack) \in Nat
  BY HeaderFields, HeaderPagesCover
<1>3. load' = [prog |-> prog, src |-> src, size |-> size, header |-> header,
               pages |-> pages, stack |-> HeaderPages(header.stack), asked |-> <<>>]
  BY DEF Loading
<1> HIDE DEF pages
<1>4. <<>> \in Seq(Nat \X Usable) /\ Len(<<>>) = 0
  OBVIOUS
<1>5. load' \in LoadRecord
  BY <1>1, <1>2, <1>3, <1>4 DEF LoadRecord, Header
<1>6. /\ load'.prog = prog /\ load'.src = src /\ load'.size = size /\ load'.header = header
      /\ load'.pages = pages /\ load'.stack = HeaderPages(header.stack) /\ load'.asked = <<>>
  BY <1>3
<1>7. Got' = 0 /\ Needed' \in Nat
  BY <1>1, <1>2, <1>4, <1>6 DEF Got, Needed
<1>8. PagesCounted'
  BY <1>6 DEF PagesCounted, pages
<1>9. QED
  BY <1>5, <1>6, <1>7, <1>8

\* The initial state.
LEMMA StartUp ==
  ASSUME Init
  PROVE  IInv
<1>1. archive \in Archives /\ 0 \in Cells
  <2>1. archive \in Archives
    BY DEF Init
  <2>2. QED
    BY <2>1, ArchiveFields, Layout DEF Cells
<1>2. TypeOK
  <2>1. load \in LoadRecord
    <3>1. <<>> \in Seq(Nat \X Usable)
      OBVIOUS
    <3>2. QED
      BY <1>1, <3>1, HeaderFields DEF Init, LoadRecord, Header
  <2>2. DOMAIN memory = Cells
    BY DEF Init, Load
  <2>3. QED
    BY <1>1, <2>1, <2>2 DEF Init, TypeOK
<1>3. Booted /\ LoadOK
  BY Layout DEF Init, Booted, LoadOK, ramfs
<1>4. FirstIsShell /\ LoadsShell /\ ShellIsIntact /\ PanicHasACause
  BY DEF Init, FirstIsShell, LoadsShell, ShellIsIntact, PanicHasACause
<1>5. ArchiveKept
  BY DEF Init, ArchiveKept, Untouched
<1>6. QED
  BY <1>2, <1>3, <1>4, <1>5 DEF IInv

\* What an unchanged archive and memory keep.
LEMMA MemoryKept ==
  ASSUME UNCHANGED <<archive, memory>>
  PROVE  /\ UNCHANGED <<Clear, ShellEntries>>
         /\ Untouched => Untouched'
         /\ ArchiveKept /\ UNCHANGED running => ArchiveKept'
         /\ \A addr, size : IsShellAt(addr, size) => IsShellAt(addr, size)'
BY DEF Clear, ShellEntries, IsShell, Entries, Untouched, ArchiveKept, IsShellAt

\* kernel_main panics without the boot loader's information, and else finds the
\* archive.
LEMMA BootKeeps ==
  ASSUME IInv, kernel_main
  PROVE  IInv'
<1> USE DEF IInv
<1>1. /\ pc = "boot" /\ archive \in Archives
      /\ multiboot \in [magic : BOOLEAN, info : BOOLEAN, mods : BOOLEAN]
      /\ <<ramfs_start, ramfs_end>> \in {<<0, 0>>, <<archive.start, archive.end>>}
  BY DEF TypeOK, kernel_main
<1>2. UNCHANGED <<owner, boot, memory, present, mapped, running, load, eax>>
  BY DEF kernel_main
<1>3. UNCHANGED <<multiboot, archive>>
  BY <1>2 DEF boot
<1>4. running = "none"
  BY <1>1 DEF FirstIsShell
<1>5. ArchiveKept'
  BY <1>2, <1>3, MemoryKept
<1>6. TypeOK'
  <2>1. <<ramfs_start, ramfs_end>>' \in {<<0, 0>>, <<archive.start, archive.end>>}'
    BY <1>1, <1>3 DEF kernel_main, find_ramfs, ramfs
  <2>2. pc' \in {"launch", "panic"}
    BY DEF kernel_main
  <2>3. QED
    BY <1>2, <1>3, <2>1, <2>2 DEF TypeOK
<1>7. Booted'
  <2>1. CASE multiboot.magic /\ multiboot.info
    <3>1. find_ramfs /\ pc' = "launch"
      BY <2>1 DEF kernel_main
    <3>2. ramfs' = IF HasArchive THEN <<archive.start, archive.end>> ELSE <<0, 0>>
      BY <1>1, <1>3, <3>1 DEF find_ramfs, HasArchive, ramfs, Booted
    <3>3. QED
      BY <1>3, <2>1, <3>1, <3>2 DEF Booted, HasArchive
  <2>2. CASE ~(multiboot.magic /\ multiboot.info)
    BY <2>2 DEF kernel_main, Booted
  <2>3. QED
    BY <2>1, <2>2
<1>8. LoadOK' /\ FirstIsShell' /\ LoadsShell' /\ ShellIsIntact'
  BY <1>2, <1>4 DEF kernel_main, LoadOK, FirstIsShell, ShellHasRun, LoadsShell, ShellIsIntact
<1>9. PanicHasACause'
  BY <1>1, <1>3 DEF kernel_main, PanicHasACause
<1>10. QED
  BY <1>5, <1>6, <1>7, <1>8, <1>9

\* launch_userland finds a shell that the archive holds, or fails for want of one.
LEMMA LaunchKeeps ==
  ASSUME IInv, launch_userland
  PROVE  IInv'
<1> USE DEF IInv
<1>1. archive \in Archives /\ pc = "launch" /\ ArchiveSane /\ multiboot.mods \in BOOLEAN
  BY DEF TypeOK, launch_userland, ArchiveSane
<1>2. UNCHANGED <<owner, boot, ramfs, memory, present, mapped, running, eax>>
  BY DEF launch_userland
<1>3. UNCHANGED <<multiboot, archive, ramfs_start, ramfs_end>>
  BY <1>2 DEF boot, ramfs
<1>4. ArchiveKept' /\ UNCHANGED <<Clear, ShellEntries>>
  BY <1>2, <1>3, MemoryKept
<1>5. PICK image \in ramfs_read :
        IF image.addr = 0 THEN pc' = "panic" /\ UNCHANGED load
        ELSE Loading("shell", image.addr, image.size, NoHeader) /\ pc' = "load"
  BY DEF launch_userland
<1>6. image.addr \in Cells /\ image.size \in Nat /\ image.addr + image.size <= MemoryEnd
  BY <1>1, ReadTyped DEF Results
<1>7. ASSUME Untouched
      PROVE  \/ image = NotFound /\ (~multiboot.mods \/ ShellEntries = {})
             \/ image.addr # 0 /\ IsShellAt(image.addr, image.size)
  BY <1>1, <1>7, ReadFinds DEF Booted
<1>8. Booted'
  <2>1. pc' \in {"panic", "load"}
    BY <1>5
  <2>2. QED
    BY <1>1, <1>3, <2>1 DEF Booted, HasArchive, ramfs
<1>9. CASE image.addr = 0
  <2>1. pc' = "panic" /\ UNCHANGED load
    BY <1>5, <1>9
  <2>2. TypeOK'
    BY <1>2, <1>3, <2>1 DEF TypeOK
  <2>3. LoadOK' /\ FirstIsShell' /\ LoadsShell' /\ ShellIsIntact'
    BY <1>1, <1>2, <2>1 DEF LoadOK, FirstIsShell, ShellHasRun, LoadsShell, ShellIsIntact
  <2>4. PanicHasACause'
    <3>1. Clear => ~multiboot.mods \/ ShellEntries = {}
      BY <1>7, <1>9 DEF ArchiveKept
    <3>2. QED
      BY <1>3, <1>4, <3>1 DEF PanicHasACause
  <2>5. QED
    BY <1>4, <1>8, <2>2, <2>3, <2>4
<1>10. CASE image.addr # 0
  <2>1. pc' = "load" /\ Loading("shell", image.addr, image.size, NoHeader)
    BY <1>5, <1>10
  <2>2. /\ load' \in LoadRecord
        /\ load'.prog = "shell" /\ load'.src = image.addr /\ load'.size = image.size
        /\ load'.asked = <<>> /\ Got' = 0 /\ Needed' \in Nat
        /\ PagesCounted'
    BY <1>6, <2>1, NewLoad, HeaderFields
  <2>3. TypeOK'
    BY <1>2, <1>3, <2>1, <2>2 DEF TypeOK
  <2>4. LoadOK'
    BY <1>2, <2>1, <2>2 DEF LoadOK
  <2>5. FirstIsShell' /\ ShellIsIntact' /\ PanicHasACause'
    BY <1>1, <1>2, <2>1, <2>2 DEF FirstIsShell, ShellHasRun, ShellIsIntact, PanicHasACause
  <2>6. LoadsShell'
    <3>1. running = "none" \/ Clear => IsShellAt(image.addr, image.size)
      <4>1. image = NotFound => image.addr = 0
        BY DEF NotFound
      <4>2. QED
        BY <1>7, <1>10, <4>1 DEF ArchiveKept
    <3>2. running' = "none" \/ Clear' => IsShellAt(load.src, load.size)'
      <4>1. IsShellAt(load.src, load.size)' <=> IsShellAt(image.addr, image.size)
        BY <1>3, <2>2 DEF IsShellAt, ShellEntries, IsShell, Entries
      <4>2. QED
        BY <1>2, <1>4, <3>1, <4>1
    <3>3. running' # "none" => ~FirstLaunch'
      BY <1>1, <1>2, <2>2 DEF FirstLaunch, FirstIsShell, ShellHasRun
    <3>4. load'.src + load'.size <= MemoryEnd
      BY <1>6, <2>2
    <3>5. QED
      BY <3>2, <3>3, <3>4 DEF LoadsShell
  <2>7. QED
    BY <1>4, <1>8, <2>3, <2>4, <2>5, <2>6
<1>11. QED
  BY <1>9, <1>10

\* One more frame is locked for the program being loaded.
LEMMA LoadPageKeeps ==
  ASSUME IInv, LoadPage
  PROVE  IInv'
<1> USE DEF IInv
<1>1. /\ archive \in Archives /\ pc = "load" /\ Got < Needed
      /\ owner \in [Frames -> {"free", "reserved", "shell", "app"}]
      /\ load \in LoadRecord /\ load.prog \in {"shell", "app"}
      /\ load.asked \in Seq(Nat \X Usable) /\ load.pages \in Nat /\ load.stack \in Nat
  BY DEF TypeOK, LoadPage, LoadOK, LoadRecord
<1>2. PICK frame \in FreeFrames :
        pmm_alloc_page(frame) /\ map_page(NextPage, frame)
          /\ load' = [load EXCEPT !.asked = Append(@, <<NextPage, frame>>)]
  BY DEF LoadPage
<1>3. UNCHANGED <<boot, ramfs, memory, present, pc, running, eax>>
  BY DEF LoadPage
<1>4. UNCHANGED <<multiboot, archive, ramfs_start, ramfs_end>>
  BY <1>3 DEF boot, ramfs
<1>5. frame \in Frames /\ frame \in Usable /\ owner[frame] = "free"
  BY <1>2 DEF FreeFrames, LoadOK
<1>6. owner' = [owner EXCEPT ![frame] = load.prog]
  BY <1>2 DEF pmm_alloc_page
<1>7. ArchiveKept'
  BY <1>3, <1>4, MemoryKept
<1>8. NextPage \in Nat /\ NextPage = PageNumber(Got + 1) /\ Got \in Nat
  <2>1. BaseOf(load.prog) \div PAGE_SIZE \in Nat /\ STACK_ZONE \div PAGE_SIZE \in Nat
    BY <1>1, Layout, DivBounds DEF BaseOf
  <2>2. Got \in Nat
    BY <1>1, LenProperties DEF Got
  <2>3. NextPage \in Nat
    BY <1>1, <2>1, <2>2 DEF NextPage
  <2>4. NextPage = PageNumber(Got + 1)
    BY <1>1, <2>1, <2>2 DEF NextPage, PageNumber
  <2>5. QED
    BY <2>2, <2>3, <2>4
<1>9. PICK asked : asked = Append(load.asked, <<NextPage, frame>>)
  OBVIOUS
<1>10. /\ asked \in Seq(Nat \X Usable) /\ Len(asked) = Got + 1
       /\ asked[Got + 1] = <<NextPage, frame>>
       /\ \A i \in 1 .. Got : asked[i] = load.asked[i]
  <2>1. <<NextPage, frame>> \in Nat \X Usable
    BY <1>5, <1>8
  <2>2. QED
    BY <1>1, <1>9, <2>1, AppendProperties DEF Got
<1>11. /\ load' \in LoadRecord
       /\ load'.asked = asked /\ load'.prog = load.prog
       /\ load'.src = load.src /\ load'.size = load.size /\ load'.header = load.header
       /\ load'.pages = load.pages /\ load'.stack = load.stack
  BY <1>1, <1>2, <1>9, <1>10 DEF LoadRecord
<1>12. Got' = Got + 1 /\ Needed' = Needed /\ Needed \in Nat
  BY <1>1, <1>10, <1>11 DEF Got, Needed
<1>13. TypeOK'
  <2>1. mapped' \subseteq Nat \X Frames
    BY <1>2, <1>5, <1>8 DEF map_page, TypeOK
  <2>2. owner' \in [Frames -> {"free", "reserved", "shell", "app"}]
    BY <1>1, <1>5, <1>6
  <2>3. QED
    BY <1>3, <1>4, <1>11, <2>1, <2>2 DEF TypeOK
<1>14. Booted'
  BY <1>3, <1>4 DEF Booted, HasArchive, ramfs
<1>15. \A i \in 1 .. Got :
         /\ asked[i] = load.asked[i] /\ asked[i][2] \in Frames
         /\ owner[asked[i][2]] = load.prog /\ asked[i][2] # frame
  <2> SUFFICES ASSUME NEW i \in 1 .. Got
               PROVE  /\ asked[i] = load.asked[i] /\ asked[i][2] \in Frames
                      /\ owner[asked[i][2]] = load.prog /\ asked[i][2] # frame
    OBVIOUS
  <2>1. asked[i] = load.asked[i]
    BY <1>10
  <2>2. load.asked[i] \in Nat \X Usable
    BY <1>1, <1>8, ElementOfSeq DEF Got
  <2>3. owner[load.asked[i][2]] = load.prog
    BY <1>1 DEF LoadOK
  <2>4. QED
    BY <1>1, <1>5, <2>1, <2>2, <2>3, Layout
<1>16. LoadOK'
  <2>1. {f \in Frames : owner'[f] = "free"} \subseteq Usable
    BY <1>1, <1>5, <1>6 DEF LoadOK
  <2>2. ASSUME NEW i \in 1 .. Got + 1
        PROVE  owner'[asked[i][2]] = load.prog /\ asked[i][1] = PageNumber(i)
    <3>1. CASE i \in 1 .. Got
      <4>1. asked[i][1] = PageNumber(i)
        BY <1>1, <1>15, <3>1 DEF LoadOK
      <4>2. QED
        BY <1>1, <1>6, <1>15, <3>1, <4>1
    <3>2. CASE i = Got + 1
      BY <1>1, <1>5, <1>6, <1>8, <1>10, <3>2
    <3>3. QED
      BY <1>8, <3>1, <3>2
  <2>3. ASSUME NEW i \in 1 .. Got + 1, NEW j \in 1 .. Got + 1, asked[i][2] = asked[j][2]
        PROVE  i = j
    <3>1. asked[Got + 1][2] = frame
      BY <1>10
    <3>2. CASE i \in 1 .. Got /\ j \in 1 .. Got
      BY <1>1, <1>15, <2>3, <3>2 DEF LoadOK
    <3>3. CASE i = Got + 1 /\ j = Got + 1
      BY <3>3
    <3>4. CASE i \in 1 .. Got /\ j = Got + 1
      BY <1>15, <2>3, <3>1, <3>4
    <3>5. CASE i = Got + 1 /\ j \in 1 .. Got
      BY <1>15, <2>3, <3>1, <3>5
    <3>6. QED
      BY <1>8, <3>2, <3>3, <3>4, <3>5
  <2>4. \A i \in 1 .. Got' : owner'[load'.asked[i][2]] = load'.prog
                             /\ load'.asked[i][1] = PageNumber(i)'
    <3>1. \A i : PageNumber(i)' = PageNumber(i)
      BY <1>11 DEF PageNumber, BaseOf
    <3>2. QED
      BY <1>11, <1>12, <2>2, <3>1
  <2>5. \A i, j \in 1 .. Got' : load'.asked[i][2] = load'.asked[j][2] => i = j
    BY <1>11, <1>12, <2>3
  <2>6. Got' <= Needed'
    BY <1>1, <1>8, <1>12
  <2>7. PagesCounted'
    BY <1>1, <1>11 DEF LoadOK, PagesCounted
  <2>8. QED
    BY <1>1, <1>3, <1>11, <2>1, <2>4, <2>5, <2>6, <2>7 DEF LoadOK
<1>17. FirstIsShell'
  <2>1. ShellHasRun => ShellHasRun'
    BY <1>1, <1>5, <1>6 DEF ShellHasRun
  <2>2. QED
    BY <1>1, <1>3, <1>11, <2>1 DEF FirstIsShell
<1>18. LoadsShell'
  <2>1. IsShellAt(load.src, load.size) => IsShellAt(load.src, load.size)'
    BY <1>4, <1>11 DEF IsShellAt, ShellEntries, IsShell, Entries
  <2>2. ASSUME load.prog = "shell", ~FirstLaunch PROVE ~FirstLaunch'
    <3>1. {load.asked[i][2] : i \in 1 .. Got} \subseteq {f \in Frames : owner[f] = "shell"}
      BY <1>15, <2>2
    <3>2. PICK f \in Frames : owner[f] = "shell" /\ f \notin {load.asked[i][2] : i \in 1 .. Got}
      BY <2>2, <3>1 DEF FirstLaunch
    <3>3. f # frame /\ owner'[f] = "shell"
      BY <1>1, <1>5, <1>6, <3>2
    <3>4. \A i \in 1 .. Got + 1 : asked[i][2] # f
      <4>1. \A i \in 1 .. Got : asked[i][2] # f
        BY <1>15, <3>2
      <4>2. asked[Got + 1][2] # f
        BY <1>10, <3>3
      <4>3. QED
        BY <1>8, <4>1, <4>2
    <3>5. f \notin {load'.asked[i][2] : i \in 1 .. Got'}
      BY <1>11, <1>12, <3>4
    <3>6. QED
      BY <3>3, <3>5 DEF FirstLaunch
  <2>3. QED
    BY <1>1, <1>3, <1>4, <1>11, <2>1, <2>2 DEF LoadsShell, Clear
<1>19. ShellIsIntact' /\ PanicHasACause'
  BY <1>1, <1>3 DEF ShellIsIntact, PanicHasACause
<1>20. QED
  BY <1>7, <1>13, <1>14, <1>16, <1>17, <1>18, <1>19

\* The loader gives up with every frame taken.
LEMMA LoadFailsKeeps ==
  ASSUME IInv, LoadFails
  PROVE  IInv'
<1> USE DEF IInv
<1>1. UNCHANGED <<owner, boot, ramfs, memory, present, mapped, running, load, eax>>
      /\ pc = "load" /\ pc' = "panic" /\ FreeFrames = {}
  BY DEF LoadFails
<1>2. UNCHANGED <<multiboot, archive, ramfs_start, ramfs_end>>
  BY <1>1 DEF boot, ramfs
<1>3. ArchiveKept'
  BY <1>1, <1>2, MemoryKept
<1>4. TypeOK'
  BY <1>1, <1>2 DEF TypeOK
<1>5. Booted' /\ LoadOK' /\ FirstIsShell' /\ LoadsShell' /\ ShellIsIntact'
  BY <1>1 DEF Booted, LoadOK, FirstIsShell, ShellHasRun, LoadsShell, ShellIsIntact
<1>6. PanicHasACause'
  BY <1>1 DEF PanicHasACause, FreeFrames
<1>7. QED
  BY <1>3, <1>4, <1>5, <1>6

\* With all its frames, the program is copied; a shell is copied whole, from
\* an archive nothing has written to.
LEMMA StartKeeps ==
  ASSUME IInv, Start
  PROVE  IInv'
<1> USE DEF IInv
<1>1. /\ archive \in Archives /\ DOMAIN memory = Cells
      /\ pc = "load" /\ Got = Needed /\ load \in LoadRecord /\ load.prog \in {"shell", "app"}
  BY DEF TypeOK, Start, LoadOK
<1>2. UNCHANGED <<owner, boot, ramfs, present, mapped, load, eax>>
      /\ running' = load.prog /\ pc' = "user"
  BY DEF Start
<1>3. UNCHANGED <<multiboot, archive, ramfs_start, ramfs_end>>
  BY <1>2 DEF boot, ramfs
<1>4. /\ load.src \in Cells /\ load.src \in Nat /\ load.size \in Nat
      /\ archive.end \in Nat /\ archive.end < MemoryEnd /\ archive.start \in Nat
      /\ Cells \subseteq Nat
  BY <1>1, ArchiveFields, Layout DEF LoadRecord, Cells
<1>5. ASSUME load.prog = "shell"
      PROVE  /\ DOMAIN memory' = Cells
             /\ \A c \in Cells : memory'[c] = IF USER_BASE <= c /\ c < USER_BASE + load.size
                                                THEN memory[load.src + (c - USER_BASE)] ELSE memory[c]
  <2>1. load.src + load.size <= MemoryEnd
    BY <1>1, <1>5 DEF LoadsShell
  <2>2. memory' = kernel_memmove(USER_BASE, load.src, load.size)
    BY <1>5 DEF Start
  <2>3. QED
    BY <1>1, <1>4, <2>1, <2>2, MemmoveCopies, Layout
<1>6. /\ DOMAIN memory' = Cells
      /\ load.prog = "shell" =>
           \A c \in Cells : memory'[c] = IF USER_BASE <= c /\ c < USER_BASE + load.size
                                           THEN memory[load.src + (c - USER_BASE)] ELSE memory[c]
      /\ \A c \in Cells : c < USER_BASE /\ c < APP_BASE => memory'[c] = memory[c]
  <2>1. CASE load.prog = "shell"
    <3>1. \A c \in Cells : c < USER_BASE => ~(USER_BASE <= c)
      BY <1>4, Layout
    <3>2. QED
      BY <1>5, <2>1, <3>1
  <2>2. CASE load.prog = "app"
    <3>1. memory' = [c \in Cells |-> IF APP_BASE <= c /\ c < APP_BASE + load.size
                                       THEN AppCode ELSE memory[c]]
      BY <2>2 DEF Start
    <3>2. \A c \in Cells : c < APP_BASE => ~(APP_BASE <= c)
      BY <1>4, Layout
    <3>3. QED
      BY <2>2, <3>1, <3>2
  <2>3. QED
    BY <1>1, <2>1, <2>2
<1>7. TypeOK'
  BY <1>1, <1>2, <1>3, <1>6 DEF TypeOK
<1>8. Booted'
  BY <1>1, <1>2, <1>3 DEF Booted, HasArchive, ramfs
<1>9. LoadOK'
  BY <1>1, <1>2 DEF LoadOK, PagesCounted, Got, Needed, PageNumber
<1>10. FirstIsShell'
  <2>1. ShellHasRun
    <3>1. CASE running = "none"
      <4>1. load.prog = "shell"
        BY <1>1, <3>1 DEF FirstIsShell
      <4>2. PICK n \in ShellEntries : load.size = Entries[n].size
        BY <1>1, <3>1, <4>1 DEF LoadsShell, IsShellAt
      <4>3. load.size > 0
        BY <1>1, <4>2, ArchiveFields DEF ShellEntries, IsShell, Entries
      <4>4. PagesFor(load.size) > 0 /\ load.pages = PagesFor(load.size) /\ load.pages \in Nat
            /\ load.stack \in Nat
        BY <1>1, <1>4, <4>1, <4>3, PagesCover DEF LoadOK, PagesCounted, LoadRecord
      <4>5. 1 \in 1 .. Got
        BY <1>1, <4>4 DEF Needed
      <4>6. load.asked[1] \in Nat \X Usable
        BY <1>1, <4>5, ElementOfSeq DEF LoadRecord, Got
      <4>7. owner[load.asked[1][2]] = "shell" /\ load.asked[1][2] \in Frames
        BY <1>1, <4>1, <4>5, <4>6, Layout DEF LoadOK
      <4>8. QED
        BY <4>7 DEF ShellHasRun
    <3>2. QED
      BY <3>1 DEF FirstIsShell
  <2>2. ShellHasRun'
    BY <1>2, <2>1 DEF ShellHasRun
  <2>3. QED
    BY <1>1, <1>2, <2>2 DEF FirstIsShell
<1>11. ArchiveKept'
  <2> SUFFICES ASSUME Clear PROVE Untouched'
    BY <1>1, <1>2, <1>3 DEF ArchiveKept, Clear
  <2>1. ASSUME NEW c \in Cells, archive.start <= c, c < archive.end PROVE memory'[c] = memory[c]
    <3>1. c < USER_BASE /\ c < APP_BASE
      BY <1>4, <2>1, Layout DEF Clear
    <3>2. QED
      BY <1>6, <3>1
  <2>2. Untouched
    BY DEF ArchiveKept
  <2>3. QED
    BY <1>3, <2>1, <2>2 DEF Untouched
<1>12. LoadsShell' /\ PanicHasACause'
  BY <1>2 DEF LoadsShell, PanicHasACause
<1>13. ShellIsIntact'
  <2> SUFFICES ASSUME load.prog = "shell", BelowStack, FirstLaunch \/ Clear
               PROVE  \E n \in ShellEntries :
                        /\ load.size = Entries[n].size
                        /\ \A k \in 0 .. load.size - 1 : memory'[USER_BASE + k] = DataOf(n, k)
    BY <1>2, <1>3 DEF ShellIsIntact, BelowStack, FirstLaunch, Clear, ShellEntries, IsShell, Entries,
                      Got
  <2>1. Untouched /\ IsShellAt(load.src, load.size)
    BY <1>1 DEF LoadsShell, ArchiveKept
  <2>2. PICK n \in ShellEntries : load.src = DataAt(archive, n) /\ load.size = Entries[n].size
    BY <2>1 DEF IsShellAt
  <2>3. n \in 1 .. Len(archive.entries) /\ load.src + load.size <= archive.end
        /\ load.size = archive.entries[n].size
    BY <1>1, <2>2, ArchiveFields DEF ShellEntries, Entries
  <2>4. archive.start <= load.src
    <3>1. n \in 1 .. Len(archive.entries) + 1 /\ Len(archive.entries) \in Nat
      BY <1>1, <2>3, ArchiveFields
    <3>2. HeaderAt(archive, n) \in Nat /\ archive.start <= HeaderAt(archive, n)
      BY <1>1, <3>1, StartsFirst
    <3>3. QED
      BY <1>4, <2>2, <3>2, Layout DEF DataAt
  <2>5. ASSUME NEW k \in 0 .. load.size - 1 PROVE memory'[USER_BASE + k] = DataOf(n, k)
    <3>1. /\ load.src + k \in Cells /\ archive.start <= load.src + k /\ load.src + k < archive.end
      BY <1>4, <2>3, <2>4, Layout DEF Cells
    <3>2. Load(archive)[load.src + k] = DataOf(n, k)
      BY <1>1, <2>2, <2>3, <3>1, LoadedEntry
    <3>3. memory[load.src + k] = DataOf(n, k)
      BY <2>1, <3>1, <3>2 DEF Untouched
    <3>4. /\ USER_BASE + k \in Cells /\ USER_BASE <= USER_BASE + k
          /\ USER_BASE + k < USER_BASE + load.size
          /\ load.src + ((USER_BASE + k) - USER_BASE) = load.src + k
      BY <1>4, Layout DEF Cells, BelowStack
    <3>5. memory'[USER_BASE + k] = memory[load.src + ((USER_BASE + k) - USER_BASE)]
      BY <1>6, <3>4
    <3>6. QED
      BY <3>3, <3>4, <3>5
  <2>6. QED
    BY <2>2, <2>5
<1>14. QED
  BY <1>7, <1>8, <1>9, <1>10, <1>11, <1>12, <1>13

\* A program scribbles past the archive, and past the image of a shell that lies
\* below the stack.
LEMMA TouchKeeps ==
  ASSUME IInv, Touch
  PROVE  IInv'
<1> USE DEF IInv
<1>1. /\ archive \in Archives /\ DOMAIN memory = Cells
      /\ pc = "user" /\ load \in LoadRecord
      /\ running = load.prog /\ load.prog \in {"shell", "app"}
  BY DEF TypeOK, Touch, LoadOK
<1>2. UNCHANGED <<owner, boot, ramfs, present, mapped, pc, running, load, eax>>
  BY DEF Touch
<1>3. UNCHANGED <<multiboot, archive, ramfs_start, ramfs_end>>
  BY <1>2 DEF boot, ramfs
<1>4. PICK cell \in Scratch \cap Cells : memory' = [memory EXCEPT ![cell] = Junk]
  BY DEF Touch
<1>5. /\ load.size \in Nat
      /\ archive.end \in Nat /\ archive.end < MemoryEnd /\ archive.start \in Nat
  BY <1>1, ArchiveFields DEF LoadRecord
<1>6. /\ cell \in Nat /\ cell >= USER_BASE
      /\ \/ cell >= USER_STACK - StackUse
         \/ running = "app" /\ cell >= APP_BASE
         \/ running = "shell" /\ cell = USER_BASE + load.size
  <2>1. \/ cell \in USER_STACK - StackUse .. USER_STACK - 1
        \/ cell = BaseOf(running) + load.size
    BY <1>4 DEF Scratch
  <2>2. cell \in Nat
    BY <1>4, Layout DEF Cells
  <2>3. CASE cell \in USER_STACK - StackUse .. USER_STACK - 1
    BY <2>2, <2>3, Layout
  <2>4. CASE cell = BaseOf(running) + load.size
    BY <1>1, <1>5, <2>2, <2>4, Layout DEF BaseOf
  <2>5. QED
    BY <2>1, <2>3, <2>4
<1>7. DOMAIN memory' = Cells /\ \A c \in Cells : c # cell => memory'[c] = memory[c]
  BY <1>1, <1>4
<1>8. TypeOK'
  BY <1>2, <1>3, <1>7 DEF TypeOK
<1>9. Booted' /\ LoadOK' /\ FirstIsShell' /\ LoadsShell' /\ PanicHasACause'
  BY <1>1, <1>2, <1>3 DEF Booted, HasArchive, ramfs, LoadOK, PagesCounted, Got, Needed, PageNumber,
                          FirstIsShell, ShellHasRun, LoadsShell, PanicHasACause
<1>10. ArchiveKept'
  <2> SUFFICES ASSUME Clear PROVE Untouched'
    BY <1>1, <1>2, <1>3 DEF ArchiveKept, Clear
  <2>1. ASSUME NEW c \in Cells, archive.start <= c, c < archive.end PROVE memory'[c] = memory[c]
    <3>1. c # cell
      BY <1>5, <1>6, <2>1, Layout DEF Clear, Cells
    <3>2. QED
      BY <1>7, <3>1
  <2>2. Untouched
    BY DEF ArchiveKept
  <2>3. QED
    BY <1>3, <2>1, <2>2 DEF Untouched
<1>11. ShellIsIntact'
  <2> SUFFICES ASSUME running = "shell", BelowStack, FirstLaunch \/ Clear
               PROVE  \E n \in ShellEntries :
                        /\ load.size = Entries[n].size
                        /\ \A k \in 0 .. load.size - 1 : memory'[USER_BASE + k] = DataOf(n, k)
    BY <1>2, <1>3 DEF ShellIsIntact, BelowStack, FirstLaunch, Clear, ShellEntries, IsShell, Entries,
                      Got
  <2>1. PICK n \in ShellEntries :
          /\ load.size = Entries[n].size
          /\ \A k \in 0 .. load.size - 1 : memory[USER_BASE + k] = DataOf(n, k)
    BY <1>1 DEF ShellIsIntact
  <2>2. ASSUME NEW k \in 0 .. load.size - 1 PROVE memory'[USER_BASE + k] = memory[USER_BASE + k]
    <3>1. USER_BASE + k \in Cells /\ USER_BASE + k # cell
      BY <1>5, <1>6, Layout DEF Cells, BelowStack
    <3>2. QED
      BY <1>7, <3>1
  <2>3. QED
    BY <2>1, <2>2
<1>12. QED
  BY <1>8, <1>9, <1>10, <1>11

\* exec begins to load an application, or refuses and changes only its result.
LEMMA ExecKeeps ==
  ASSUME IInv, NEW file \in AppFiles, Exec(file)
  PROVE  IInv'
<1> USE DEF IInv
<1>1. /\ archive \in Archives /\ pc = "user" /\ load \in LoadRecord
      /\ running \in {"shell", "app"}
  BY DEF TypeOK, Exec, LoadOK
<1>2. UNCHANGED <<owner, boot, ramfs, memory, present, mapped, running>>
  BY DEF Exec
<1>3. UNCHANGED <<multiboot, archive, ramfs_start, ramfs_end>>
  BY <1>2 DEF boot, ramfs
<1>4. ArchiveKept'
  BY <1>2, <1>3, MemoryKept
<1>5. \/ UNCHANGED <<pc, load>> /\ eax' \in {-2, -4}
      \/ /\ Loading("app", 0, file.payload, [text |-> file.text, data |-> file.data,
                                             bss |-> file.bss, stack |-> file.stack])
         /\ pc' = "load" /\ UNCHANGED eax
  BY DEF Exec
<1>6. Booted'
  <2>1. pc' \in {"user", "load"}
    BY <1>1, <1>5
  <2>2. QED
    BY <1>1, <1>3, <2>1 DEF Booted, HasArchive, ramfs
<1>7. CASE UNCHANGED <<pc, load>> /\ eax' \in {-2, -4}
  <2>1. TypeOK'
    BY <1>2, <1>3, <1>7 DEF TypeOK
  <2>2. /\ LoadOK' /\ FirstIsShell' /\ LoadsShell' /\ PanicHasACause'
    BY <1>1, <1>2, <1>7 DEF LoadOK, PagesCounted, Got, Needed, PageNumber, FirstIsShell, ShellHasRun,
                            LoadsShell, PanicHasACause
  <2>3. ShellIsIntact'
    BY <1>2, <1>3, <1>7 DEF ShellIsIntact, BelowStack, FirstLaunch, Clear, ShellEntries, IsShell,
                            Entries, Got
  <2>4. QED
    BY <1>4, <1>6, <2>1, <2>2, <2>3
<1>8. ASSUME Loading("app", 0, file.payload, [text |-> file.text, data |-> file.data,
                                              bss |-> file.bss, stack |-> file.stack]),
             pc' = "load", UNCHANGED eax
      PROVE  IInv'
  <2>1. /\ file.payload \in Nat
        /\ [text |-> file.text, data |-> file.data, bss |-> file.bss, stack |-> file.stack] \in Header
    BY HeaderFields, KernelAssumption
  <2>2. 0 \in Cells
    BY <1>1, ArchiveFields, Layout DEF Cells
  <2>3. /\ load' \in LoadRecord /\ load'.prog = "app" /\ load'.asked = <<>>
        /\ Got' = 0 /\ Needed' \in Nat /\ PagesCounted'
    BY <1>8, <2>1, <2>2, NewLoad
  <2>4. TypeOK'
    BY <1>2, <1>3, <1>8, <2>3 DEF TypeOK
  <2>5. LoadOK'
    BY <1>2, <1>8, <2>3 DEF LoadOK
  <2>6. FirstIsShell' /\ LoadsShell' /\ ShellIsIntact' /\ PanicHasACause'
    BY <1>1, <1>2, <1>8, <2>3
    DEF FirstIsShell, ShellHasRun, LoadsShell, ShellIsIntact, PanicHasACause
  <2>7. QED
    BY <1>4, <1>6, <2>4, <2>5, <2>6
<1>9. QED
  BY <1>5, <1>7, <1>8

\* The remaining system calls change no memory.
LEMMA OthersKeep ==
  ASSUME IInv, ExecBadPointer \/ Exit \/ UNCHANGED vars
  PROVE  IInv'
<1> USE DEF IInv
<1>1. /\ UNCHANGED <<owner, boot, ramfs, memory, present, mapped, running, load>>
      /\ \/ UNCHANGED pc
         \/ pc = "user" /\ pc' = "launch"
      /\ eax' \in {eax, -1}
  BY DEF ExecBadPointer, Exit, vars
<1>2. UNCHANGED <<multiboot, archive, ramfs_start, ramfs_end>>
  BY <1>1 DEF boot, ramfs
<1>3. ArchiveKept'
  BY <1>1, <1>2, MemoryKept
<1>4. TypeOK'
  BY <1>1, <1>2 DEF TypeOK
<1>5. Booted'
  BY <1>1, <1>2 DEF Booted, HasArchive, ramfs
<1>6. LoadOK' /\ FirstIsShell'
  BY <1>1 DEF LoadOK, PagesCounted, Got, Needed, PageNumber, FirstIsShell, ShellHasRun
<1>7. LoadsShell'
  BY <1>1, <1>2 DEF LoadsShell, IsShellAt, FirstLaunch, Clear, ShellEntries, IsShell, Entries, Got
<1>8. ShellIsIntact' /\ PanicHasACause'
  BY <1>1, <1>2 DEF ShellIsIntact, PanicHasACause, BelowStack, FirstLaunch, Clear, ShellEntries,
                    IsShell, Entries, FreeFrames, Got
<1>9. QED
  BY <1>3, <1>4, <1>5, <1>6, <1>7, <1>8

(***************************************************************************)
(* The theorems.                                                           *)
(***************************************************************************)

\* The inductive invariant holds in every state.
THEOREM Invariant == Spec => []IInv
<1>1. Init => IInv
  BY StartUp
<1>2. IInv /\ [Next]_vars => IInv'
  BY BootKeeps, LaunchKeeps, LoadPageKeeps, LoadFailsKeeps, StartKeeps, TouchKeeps, ExecKeeps,
     OthersKeep
  DEF Next
<1>3. QED
  BY <1>1, <1>2, PTL DEF Spec

\* The variables keep their types; the program being loaded comes from memory.
THEOREM TypeCorrect == Spec => []TypeOK
<1>1. IInv => TypeOK
  BY DEF IInv
<1>2. QED
  BY <1>1, Invariant, PTL

\* A shell that runs below the stack is a shell of the archive, byte for byte: on
\* the first launch always, on later ones where the archive lies clear.
THEOREM ShellStaysIntact == Spec => []ShellIsIntact
<1>1. IInv => ShellIsIntact
  BY DEF IInv
<1>2. QED
  BY <1>1, Invariant, PTL

\* With the archive clear of what programs write, the kernel panics only for want
\* of the boot loader's information, of a module, of a shell in it that is whole,
\* or of a frame: the walk's rounding and its bounds never make it miss a shell.
THEOREM PanicsForACause == Spec => []PanicHasACause
<1>1. IInv => PanicHasACause
  BY DEF IInv
<1>2. QED
  BY <1>1, Invariant, PTL

\* The pages of a range that map_page was asked for, when the loader's count of
\* them covers it; the first of them is the one after the first `before`.
LEMMA RangeAsked ==
  ASSUME NEW base \in Nat, base % PAGE_SIZE = 0, NEW size \in Nat, NEW pages \in Nat,
         NEW before \in Nat, pages * PAGE_SIZE >= size, before + pages <= Got, Got \in Nat,
         \A i \in 0 .. pages - 1 : load.asked[before + 1 + i][1] = base \div PAGE_SIZE + i
  PROVE  PagesOf(base, size) \subseteq PagesAsked
<1> SUFFICES ASSUME NEW page \in PagesOf(base, size) PROVE page \in PagesAsked
  OBVIOUS
<1>1. PICK i \in 0 .. pages - 1 : page = base \div PAGE_SIZE + i
  BY PagesInRow
<1>2. PICK j \in 1 .. Got : j = before + 1 + i
  <2>1. before + 1 + i \in 1 .. Got
    OBVIOUS
  <2>2. QED
    BY <2>1
<1>3. page = load.asked[j][1]
  BY <1>1, <1>2
<1>4. QED
  BY <1>3 DEF PagesAsked

\* For every page a program is loaded for, map_page was asked, each time with
\* another frame, locked in the program's name.
THEOREM EveryPageIsAskedFor == Spec => []EveryPageGotAFrame
<1>1. IInv => EveryPageGotAFrame
  <2> SUFFICES ASSUME IInv, pc = "user"
               PROVE  /\ \A i \in 1 .. Got :
                           /\ owner[load.asked[i][2]] = running
                           /\ \A j \in 1 .. Got : load.asked[i][2] = load.asked[j][2] => i = j
                      /\ running = "shell" => PagesOf(USER_BASE, load.size) \subseteq PagesAsked
                      /\ running = "app" /\ Honest(load.header) =>
                           /\ PagesOf(APP_BASE, load.size + load.header.bss) \subseteq PagesAsked
                           /\ PagesOf(STACK_ZONE, load.header.stack) \subseteq PagesAsked
    BY DEF EveryPageGotAFrame
  <2>1. /\ load \in LoadRecord /\ running = load.prog /\ load.prog \in {"shell", "app"}
        /\ \A i \in 1 .. Got : /\ owner[load.asked[i][2]] = load.prog
                               /\ load.asked[i][1] = PageNumber(i)
        /\ \A i, j \in 1 .. Got : load.asked[i][2] = load.asked[j][2] => i = j
        /\ Got = Needed /\ PagesCounted
    BY DEF IInv, TypeOK, LoadOK
  <2>2. /\ load.size \in Nat /\ load.header \in Header /\ load.pages \in Nat /\ load.stack \in Nat
        /\ Got \in Nat /\ Got = load.pages + load.stack
    BY <2>1 DEF LoadRecord, Header, Needed
  <2>3. ASSUME NEW i \in 0 .. load.pages - 1
        PROVE  load.asked[0 + 1 + i][1] = BaseOf(load.prog) \div PAGE_SIZE + i
    <3>1. 0 + 1 + i \in 1 .. Got /\ 0 + 1 + i <= load.pages /\ (0 + 1 + i) - 1 = i
      BY <2>2
    <3>2. load.asked[0 + 1 + i][1] = PageNumber(0 + 1 + i)
      BY <2>1, <3>1
    <3>3. QED
      BY <3>1, <3>2 DEF PageNumber
  <2>4. ASSUME NEW i \in 0 .. load.stack - 1
        PROVE  load.asked[load.pages + 1 + i][1] = STACK_ZONE \div PAGE_SIZE + i
    <3>1. /\ load.pages + 1 + i \in 1 .. Got /\ ~(load.pages + 1 + i <= load.pages)
          /\ (load.pages + 1 + i) - 1 - load.pages = i
      BY <2>2
    <3>2. load.asked[load.pages + 1 + i][1] = PageNumber(load.pages + 1 + i)
      BY <2>1, <3>1
    <3>3. QED
      BY <3>1, <3>2 DEF PageNumber
  <2>5. ASSUME running = "shell" PROVE PagesOf(USER_BASE, load.size) \subseteq PagesAsked
    <3>1. load.pages * PAGE_SIZE >= load.size
      BY <2>1, <2>2, <2>5, PagesCover DEF PagesCounted
    <3>2. \A i \in 0 .. load.pages - 1 : load.asked[0 + 1 + i][1] = USER_BASE \div PAGE_SIZE + i
      BY <2>1, <2>3, <2>5 DEF BaseOf
    <3>3. 0 + load.pages <= Got
      BY <2>2
    <3>4. QED
      BY <2>2, <3>1, <3>2, <3>3, RangeAsked, Layout
  <2>6. ASSUME running = "app", Honest(load.header)
        PROVE  /\ PagesOf(APP_BASE, load.size + load.header.bss) \subseteq PagesAsked
               /\ PagesOf(STACK_ZONE, load.header.stack) \subseteq PagesAsked
    <3>1. /\ load.pages = HeaderPages(Sum(load.header))
          /\ load.stack = HeaderPages(load.header.stack)
      BY <2>1, <2>6 DEF PagesCounted
    <3>2. /\ load.header.text \in Nat /\ load.header.data \in Nat
          /\ load.header.bss \in Nat /\ load.header.stack \in Nat
      BY <2>2, HeaderFields
    <3>3. /\ load.header.text + load.header.data = load.size
          /\ load.size + load.header.bss + PAGE_SIZE - 1 <= UIntMax
          /\ load.header.stack + PAGE_SIZE - 1 <= UIntMax
      BY <2>6 DEF Honest
    <3>4. load.header.text + load.header.data + load.header.bss = load.size + load.header.bss
      BY <3>3
    <3>5. load.size + load.header.bss <= UIntMax
      BY <2>2, <3>2, <3>3, Layout
    <3>6. Sum(load.header) = load.size + load.header.bss /\ Sum(load.header) \in Nat
      BY <2>2, <3>4, <3>5, SumIsExact
    <3>7. load.pages * PAGE_SIZE >= load.size + load.header.bss
      BY <3>1, <3>3, <3>6, HeaderPagesCover
    <3>8. load.stack * PAGE_SIZE >= load.header.stack
      BY <3>1, <3>2, <3>3, HeaderPagesCover
    <3>9. \A i \in 0 .. load.pages - 1 : load.asked[0 + 1 + i][1] = APP_BASE \div PAGE_SIZE + i
      BY <2>1, <2>3, <2>6 DEF BaseOf
    <3>10. 0 + load.pages <= Got /\ load.pages + load.stack <= Got
      BY <2>2
    <3>11. PagesOf(APP_BASE, load.size + load.header.bss) \subseteq PagesAsked
      <4>1. PICK total \in Nat : total = load.size + load.header.bss
        BY <2>2, <3>2
      <4>2. QED
        BY <2>2, <3>7, <3>9, <3>10, <4>1, RangeAsked, Layout
    <3>12. PagesOf(STACK_ZONE, load.header.stack) \subseteq PagesAsked
      BY <2>2, <2>4, <3>2, <3>8, <3>10, RangeAsked, Layout
    <3>13. QED
      BY <3>11, <3>12
  <2>7. QED
    BY <2>1, <2>5, <2>6
<1>2. QED
  BY <1>1, Invariant, PTL
=============================================================================
