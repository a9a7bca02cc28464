--------------------------- MODULE ImporterProofs ---------------------------
(***************************************************************************)
(* Proofs about the boot-time importer, for every block size and address   *)
(* space, every file table and every archive.                              *)
(***************************************************************************)
EXTENDS Importer, WellFoundedInduction, SequenceTheorems, FiniteSetTheorems, TLAPS

(***************************************************************************)
(* The inductive invariant.                                                *)
(***************************************************************************)

\* The archive never changes, and the table has room for what it holds.
TableOK == archive \in Archives /\ IsFiniteSet(DOMAIN files) /\ spare \in Nat

\* The entries of a name for which the walk, at entry n, has called frodfs_create,
\* and what the name's file holds by then.
Created(name, n) == {m \in Expected(name) : m < n \/ (m = n /\ pc = "write")}
KeptBefore(name, n) == {m \in Kept(name) : m < n}
Latest(name, n) ==
  IF KeptBefore(name, n) = {} THEN <<>>
                              ELSE Data(archive.entries[Max(KeptBefore(name, n))])

\* FrodFS holds what the walk has passed, and nothing else.
StoredUpTo(n) ==
  /\ \A name \in DOMAIN files : Created(name, n) # {} /\ files[name] = Latest(name, n)
  /\ spare > 0 =>
       \A h \in Headers :
         ShortName(h.path) # <<>> /\ Created(ShortName(h.path), n) # {}
           => ShortName(h.path) \in DOMAIN files

\* The walk is at entry n, and an entry it stores is one a reader would expect.
StandsAt(n) ==
  /\ current_tar_addr = HeaderAddr(archive, n)
  /\ pc \in {"create", "write"} =>
       /\ n <= Len(archive.entries) /\ header = archive.entries[n]
       /\ n \in Expected(ShortName(header.path))
  /\ StoredUpTo(n)

StepByStep ==
  Sane(archive) /\ pc # "done" => \E n \in 1 .. Len(archive.entries) + 1 : StandsAt(n)

IInv == TypeOK /\ TableOK /\ StepByStep /\ ImportIsExact

(***************************************************************************)
(* Least and greatest elements.                                            *)
(***************************************************************************)

\* What a minimal counterexample rests on.
LEMMA Least ==
  ASSUME NEW S \in SUBSET Nat, S # {}
  PROVE  \E i \in S : \A j \in S : i <= j
<1>1. PICK i \in S : \A j \in S : <<j, i>> \notin OpToRel(<, Nat)
  BY NatLessThanWellFounded, WFMin
<1>2. ASSUME NEW j \in S PROVE i <= j
  <2>1. i \in Nat /\ j \in Nat
    OBVIOUS
  <2>2. j < i => <<j, i>> \in OpToRel(<, Nat)
    BY <2>1 DEF OpToRel
  <2>3. ~(j < i)
    BY <1>1, <2>2, Zenon
  <2>4. QED
    BY <2>1, <2>3
<1>3. QED
  BY <1>2

\* The operators of the community module, on the sets they are used on.
LEMMA MinIsLeast ==
  ASSUME NEW S \in SUBSET Nat, S # {}
  PROVE  Min(S) \in S /\ \A j \in S : Min(S) <= j
BY Least DEF Min

LEMMA MaxIsGreatest ==
  ASSUME NEW N \in Nat, NEW S \in SUBSET (0 .. N), S # {}
  PROVE  Max(S) \in S /\ \A j \in S : j <= Max(S)
<1> DEFINE Gaps == {N - j : j \in S}
<1>1. Gaps \in SUBSET Nat /\ Gaps # {}
  <2>1. \A j \in S : N - j \in Nat
    OBVIOUS
  <2>2. PICK j : j \in S
    OBVIOUS
  <2>3. N - j \in Gaps
    BY <2>2
  <2>4. QED
    BY <2>1, <2>3
<1>2. PICK g \in Gaps : \A k \in Gaps : g <= k
  BY <1>1, Least
<1>3. PICK i \in S : g = N - i
  OBVIOUS
<1>4. ASSUME NEW j \in S PROVE j <= i
  <2>1. N - i <= N - j
    BY <1>2, <1>3
  <2>2. QED
    BY <2>1
<1>5. \E x \in S : \A y \in S : x >= y
  <2>1. \A y \in S : i >= y
    BY <1>4
  <2>2. QED
    BY <2>1
<1>6. Max(S) \in S /\ \A y \in S : Max(S) >= y
  BY <1>5 DEF Max
<1>7. QED
  BY <1>6

(***************************************************************************)
(* Addresses.                                                              *)
(***************************************************************************)

LEMMA DivBounds ==
  ASSUME NEW a \in Nat, NEW b \in Nat \ {0}
  PROVE  /\ a \div b \in Nat
         /\ a < (a \div b) * b + b
OBVIOUS

LEMMA ModBounds ==
  ASSUME NEW a \in Nat, NEW b \in Nat \ {0}
  PROVE  a % b \in 0 .. b - 1 /\ (a < b => a % b = a)
OBVIOUS

\* Data is padded, never cut.
LEMMA RoundUpCovers ==
  ASSUME NEW n \in Nat
  PROVE  RoundUp(n) \in Nat /\ n <= RoundUp(n)
<1>1. TAR_BLOCK \in Nat \ {0}
  BY ImporterAssumption
<1> DEFINE up == ((n + TAR_BLOCK - 1) \div TAR_BLOCK) * TAR_BLOCK
<1>2. up \in Nat /\ n + TAR_BLOCK - 1 < up + TAR_BLOCK
  BY <1>1, DivBounds
<1> HIDE DEF up
<1>3. n <= up
  BY <1>1, <1>2
<1>4. QED
  BY <1>2, <1>3 DEF RoundUp, up

\* The fields of an archive and of its entries.
LEMMA ArchiveFields ==
  ASSUME NEW a \in Archives
  PROVE  /\ a.start \in 0 .. AddrSpace - 1 /\ a.end \in Nat /\ a.end + TAR_BLOCK <= AddrSpace
         /\ Len(a.entries) \in Nat
         /\ \A n \in 1 .. Len(a.entries) : a.entries[n] \in Headers /\ a.entries[n].size \in Nat
<1>1. /\ a.start \in 0 .. AddrSpace - 1 /\ a.end \in Nat /\ a.end + TAR_BLOCK <= AddrSpace
      /\ a.entries \in Seq(Headers)
  BY ImporterAssumption
<1>2. Len(a.entries) \in Nat
  BY <1>1, LenProperties
<1>3. \A n \in 1 .. Len(a.entries) : a.entries[n] \in Headers
  BY <1>1, ElementOfSeq
<1>4. \A h \in Headers : h.size \in Nat
  BY ImporterAssumption
<1>5. QED
  BY <1>1, <1>2, <1>3, <1>4

\* The addresses of the headers: the function that HeaderAddr builds.
AddrFrom(a, addr) ==
  [i \in 1 .. Len(a.entries) + 1 |->
     IF i = 1 THEN a.start
              ELSE addr[i - 1] + TAR_BLOCK + RoundUp(a.entries[i - 1].size)]
Addr(a) == CHOOSE addr : addr = AddrFrom(a, addr)

LEMMA AddrExists ==
  ASSUME NEW a \in Archives
  PROVE  Addr(a) = AddrFrom(a, Addr(a))
<1> DEFINE
    Next1(addr, i) == addr[i - 1] + TAR_BLOCK + RoundUp(a.entries[i - 1].size)
    Upto(m, addr) == addr = [i \in 1 .. m |-> IF i = 1 THEN a.start ELSE Next1(addr, i)]
    Missing == {m \in Nat : ~ \E addr : Upto(m, addr)}
<1>1. Missing = {}
  <2> SUFFICES ASSUME Missing # {} PROVE FALSE
    OBVIOUS
  <2>1. PICK m \in Missing : \A j \in Missing : m <= j
    BY Least
  <2>2. CASE m = 0
    <3>1. Upto(0, [i \in 1 .. 0 |-> a.start])
      OBVIOUS
    <3>2. QED
      BY <2>2, <3>1
  <2>3. CASE m # 0
    <3>0. m \in Nat /\ m - 1 \in Nat
      BY <2>3
    <3> HIDE DEF Missing
    <3>1. m - 1 \notin Missing
      BY <2>1, <3>0
    <3> USE DEF Missing
    <3>2. PICK addr : Upto(m - 1, addr)
      BY <3>0, <3>1
    <3> HIDE DEF Next1
    <3> DEFINE last == IF m = 1 THEN a.start ELSE Next1(addr, m)
               longer == [i \in 1 .. m |-> IF i = m THEN last ELSE addr[i]]
    <3>3. \A i \in 1 .. m - 1 : longer[i] = addr[i]
      BY <3>0
    <3>4. \A i \in 2 .. m : Next1(longer, i) = Next1(addr, i)
      <4> SUFFICES ASSUME NEW i \in 2 .. m PROVE Next1(longer, i) = Next1(addr, i)
        OBVIOUS
      <4>1. longer[i - 1] = addr[i - 1]
        BY <3>0, <3>3
      <4> HIDE DEF longer
      <4>2. QED
        BY <4>1 DEF Next1
    <3>5. \A i \in 1 .. m : longer[i] = IF i = 1 THEN a.start ELSE Next1(longer, i)
      <4> SUFFICES ASSUME NEW i \in 1 .. m
                   PROVE  longer[i] = IF i = 1 THEN a.start ELSE Next1(longer, i)
        OBVIOUS
      <4>1. CASE i = m
        <5>1. longer[m] = last
          BY <3>0, <2>3
        <5>2. m # 1 => Next1(longer, m) = Next1(addr, m)
          BY <3>0, <3>4, <2>3
        <5> HIDE DEF longer
        <5>3. QED
          BY <4>1, <5>1, <5>2
      <4>2. CASE i # m
        <5>1. i \in 1 .. m - 1
          BY <3>0, <4>2
        <5>2. addr[i] = IF i = 1 THEN a.start ELSE Next1(addr, i)
          BY <3>2, <5>1
        <5>3. i # 1 => Next1(longer, i) = Next1(addr, i)
          BY <3>0, <3>4
        <5> HIDE DEF longer
        <5>4. QED
          BY <3>3, <5>1, <5>2, <5>3
      <4>3. QED
        BY <4>1, <4>2
    <3>6. Upto(m, longer)
      <4>1. longer = [i \in 1 .. m |-> longer[i]]
        OBVIOUS
      <4> HIDE DEF longer
      <4>2. QED
        BY <3>5, <4>1
    <3>7. QED
      BY <2>1, <3>6
  <2>4. QED
    BY <2>2, <2>3
<1>2. \E addr : addr = AddrFrom(a, addr)
  <2>1. Len(a.entries) + 1 \in Nat
    BY ArchiveFields
  <2>2. Len(a.entries) + 1 \notin Missing
    BY <1>1
  <2>3. PICK addr : Upto(Len(a.entries) + 1, addr)
    BY <2>1, <2>2
  <2>4. QED
    BY <2>3 DEF AddrFrom
<1>3. QED
  BY <1>2 DEF Addr

\* A header stands behind the padded data of the one before.
LEMMA HeaderAddresses ==
  ASSUME NEW a \in Archives
  PROVE  /\ HeaderAddr(a, 1) = a.start
         /\ \A n \in 1 .. Len(a.entries) :
              HeaderAddr(a, n + 1) = HeaderAddr(a, n) + TAR_BLOCK + RoundUp(a.entries[n].size)
         /\ \A n \in 1 .. Len(a.entries) + 1 : HeaderAddr(a, n) \in Nat
<1> DEFINE N == Len(a.entries)
           addr == Addr(a)
           Bad == {n \in Nat : n \in 1 .. N + 1 /\ addr[n] \notin Nat}
<1>1. N \in Nat
  BY ArchiveFields
<1>2. \A n : HeaderAddr(a, n) = addr[n]
  BY Zenon DEF HeaderAddr, Addr, AddrFrom
<1>3. \A n \in 1 .. N + 1 :
        addr[n] = IF n = 1 THEN a.start ELSE addr[n - 1] + TAR_BLOCK + RoundUp(a.entries[n - 1].size)
  BY AddrExists DEF AddrFrom
<1> HIDE DEF addr, N
<1>4. addr[1] = a.start
  BY <1>1, <1>3
<1>5. ASSUME NEW n \in 1 .. N
      PROVE  addr[n + 1] = addr[n] + TAR_BLOCK + RoundUp(a.entries[n].size)
  <2>1. n + 1 \in 1 .. N + 1 /\ n + 1 # 1 /\ (n + 1) - 1 = n
    BY <1>1
  <2>2. QED
    BY <1>3, <2>1
<1>6. Bad = {}
  <2> SUFFICES ASSUME Bad # {} PROVE FALSE
    OBVIOUS
  <2>1. PICK n \in Bad : \A j \in Bad : n <= j
    BY Least
  <2>2. n # 1
    BY <1>4, ArchiveFields
  <2>3. n - 1 \in 1 .. N /\ n - 1 \in Nat /\ (n - 1) + 1 = n
    BY <1>1, <2>2
  <2>4. addr[n - 1] \in Nat
    <3>1. n - 1 \notin Bad
      <4> HIDE DEF Bad
      <4>1. QED
        BY <2>1, <2>3
    <3>2. QED
      BY <1>1, <2>3, <3>1
  <2>5. RoundUp(a.entries[n - 1].size) \in Nat
    BY <2>3, ArchiveFields, RoundUpCovers DEF N
  <2>6. addr[n] \in Nat
    <3>1. addr[n] = addr[n - 1] + TAR_BLOCK + RoundUp(a.entries[n - 1].size)
      BY <1>5, <2>3, Zenon
    <3>2. TAR_BLOCK \in Nat
      BY ImporterAssumption
    <3>3. QED
      BY <2>4, <2>5, <3>1, <3>2
  <2>7. QED
    BY <2>6
<1>7. \A n \in 1 .. N + 1 : addr[n] \in Nat
  BY <1>1, <1>6
<1> HIDE DEF Bad
<1>8. QED
  <2>1. \A n \in 1 .. N : addr[n + 1] = addr[n] + TAR_BLOCK + RoundUp(a.entries[n].size)
    BY <1>5
  <2>2. QED
    BY <1>2, <1>4, <1>7, <2>1, Zenon DEF N

\* An entry ends before any later header begins.
LEMMA AddressesGrow ==
  ASSUME NEW a \in Archives,
         NEW m \in 1 .. Len(a.entries) + 1, NEW n \in 1 .. Len(a.entries) + 1, m < n
  PROVE  HeaderAddr(a, m) + TAR_BLOCK + a.entries[m].size <= HeaderAddr(a, n)
<1> DEFINE N == Len(a.entries)
           end == HeaderAddr(a, m) + TAR_BLOCK + a.entries[m].size
           Bad == {k \in Nat : k \in m + 1 .. N + 1 /\ ~(end <= HeaderAddr(a, k))}
<1>1. N \in Nat /\ TAR_BLOCK \in Nat \ {0}
  BY ArchiveFields, ImporterAssumption
<1>2. end \in Nat
  <2>1. m \in 1 .. N
    BY <1>1
  <2>2. a.entries[m].size \in Nat
    BY <2>1, ArchiveFields
  <2>3. HeaderAddr(a, m) \in Nat
    BY HeaderAddresses
  <2>4. QED
    BY <1>1, <2>2, <2>3
<1>3. ASSUME NEW k \in 1 .. N
      PROVE  /\ HeaderAddr(a, k) \in Nat /\ a.entries[k].size \in Nat
             /\ RoundUp(a.entries[k].size) \in Nat
             /\ a.entries[k].size <= RoundUp(a.entries[k].size)
             /\ HeaderAddr(a, k + 1) = HeaderAddr(a, k) + TAR_BLOCK + RoundUp(a.entries[k].size)
  <2>1. k \in 1 .. Len(a.entries) /\ k \in 1 .. Len(a.entries) + 1
    BY <1>1
  <2>2. a.entries[k].size \in Nat
    BY <2>1, ArchiveFields
  <2>3. RoundUp(a.entries[k].size) \in Nat /\ a.entries[k].size <= RoundUp(a.entries[k].size)
    BY <2>2, RoundUpCovers
  <2>4. /\ HeaderAddr(a, k) \in Nat
        /\ HeaderAddr(a, k + 1) = HeaderAddr(a, k) + TAR_BLOCK + RoundUp(a.entries[k].size)
    BY <2>1, HeaderAddresses
  <2>5. QED
    BY <2>2, <2>3, <2>4
<1>4. Bad = {}
  <2> SUFFICES ASSUME Bad # {} PROVE FALSE
    OBVIOUS
  <2>1. PICK k \in Bad : \A j \in Bad : k <= j
    BY Least
  <2>2. k \in Nat /\ k - 1 \in m .. N /\ k - 1 \in 1 .. N /\ k - 1 \in Nat /\ (k - 1) + 1 = k
    BY <1>1
  <2>3. ~(end <= HeaderAddr(a, k))
    BY <2>1
  <2> HIDE DEF Bad
  <2>4. k - 1 \notin Bad
    BY <2>1, <2>2
  <2>5. k - 1 # m => end <= HeaderAddr(a, k - 1)
    BY <1>1, <2>2, <2>4 DEF Bad
  <2>6. HeaderAddr(a, k) = HeaderAddr(a, k - 1) + TAR_BLOCK + RoundUp(a.entries[k - 1].size)
    BY <1>3, <2>2
  <2>7. /\ HeaderAddr(a, k - 1) \in Nat /\ RoundUp(a.entries[k - 1].size) \in Nat
        /\ a.entries[k - 1].size \in Nat
        /\ a.entries[k - 1].size <= RoundUp(a.entries[k - 1].size)
    BY <1>3, <2>2
  <2>8. CASE k - 1 = m
    BY <1>1, <2>3, <2>6, <2>7, <2>8
  <2>9. CASE k - 1 # m
    <3> HIDE DEF end
    <3>1. QED
      BY <1>1, <1>2, <2>3, <2>5, <2>6, <2>7, <2>9
  <2>10. QED
    BY <2>8, <2>9
<1>5. n \in Nat /\ n \in m + 1 .. N + 1
  BY <1>1
<1>6. QED
  BY <1>4, <1>5

\* In a sane archive nothing wraps: the walk sees the header of the entry it is
\* at, its tests are on true addresses, and it goes on to the next header.
LEMMA SaneAddresses ==
  ASSUME NEW a \in Archives, Sane(a), NEW n \in 1 .. Len(a.entries)
  PROVE  /\ HeaderAddr(a, n) + TAR_BLOCK + a.entries[n].size <= HeaderAddr(a, n + 1)
         /\ HeaderAddr(a, n + 1) + TAR_BLOCK <= AddrSpace
<1> DEFINE N == Len(a.entries)
<1>1. N \in Nat /\ n \in 1 .. N /\ n + 1 \in 1 .. N + 1 /\ n < n + 1 /\ n \in 1 .. N + 1
  BY ArchiveFields
<1>2. HeaderAddr(a, n) + TAR_BLOCK + a.entries[n].size <= HeaderAddr(a, n + 1)
  BY <1>1, AddressesGrow
<1>3. HeaderAddr(a, N + 1) + TAR_BLOCK <= AddrSpace
  BY DEF Sane, ArchiveEnd
<1>4. CASE n = N
  BY <1>2, <1>3, <1>4
<1>5. CASE n # N
  <2>1. n + 1 \in 1 .. N /\ N + 1 \in 1 .. N + 1 /\ n + 1 < N + 1
    BY <1>1, <1>5
  <2>2. HeaderAddr(a, n + 1) + TAR_BLOCK + a.entries[n + 1].size <= HeaderAddr(a, N + 1)
    BY <1>1, <2>1, AddressesGrow
  <2>3. /\ a.entries[n + 1].size \in Nat /\ TAR_BLOCK \in Nat /\ AddrSpace \in Nat
        /\ HeaderAddr(a, n + 1) \in Nat /\ HeaderAddr(a, N + 1) \in Nat
    BY <1>1, <2>1, ArchiveFields, HeaderAddresses, ImporterAssumption
  <2>4. HeaderAddr(a, n + 1) + TAR_BLOCK <= AddrSpace
    BY <1>3, <2>2, <2>3
  <2>5. QED
    BY <1>2, <2>4
<1>6. QED
  BY <1>4, <1>5

LEMMA HeaderHere ==
  ASSUME archive \in Archives, NEW n \in 1 .. Len(archive.entries) + 1,
         current_tar_addr = HeaderAddr(archive, n)
  PROVE  HeaderAt(current_tar_addr)
           = IF n <= Len(archive.entries) THEN {archive.entries[n]} ELSE {EndBlock}
<1> DEFINE N == Len(archive.entries)
           addr(k) == HeaderAddr(archive, k)
<1>1. N \in Nat /\ TAR_BLOCK \in Nat \ {0}
  BY ArchiveFields, ImporterAssumption
<1>2. ASSUME NEW k \in 1 .. N + 1, NEW l \in 1 .. N + 1, k < l PROVE addr(k) # addr(l)
  <2>1. k \in 1 .. N
    BY <1>1, <1>2
  <2>2. addr(k) + TAR_BLOCK + archive.entries[k].size <= addr(l)
    BY <1>2, AddressesGrow
  <2>3. addr(k) \in Nat /\ addr(l) \in Nat /\ archive.entries[k].size \in Nat
    BY <1>1, <2>1, ArchiveFields, HeaderAddresses
  <2> HIDE DEF addr
  <2>4. QED
    BY <1>1, <2>2, <2>3
<1>3. \A k \in 1 .. N + 1 : addr(k) = addr(n) => k = n
  <2> HIDE DEF addr
  <2>1. QED
    BY <1>1, <1>2
<1>4. {k \in 1 .. N : addr(k) = addr(n)} = IF n <= N THEN {n} ELSE {}
  <2>1. \A k \in 1 .. N : k \in 1 .. N + 1
    BY <1>1
  <2> HIDE DEF addr
  <2>2. QED
    BY <1>1, <1>3, <2>1
<1>5. CASE n <= N
  <2>1. {k \in 1 .. N : addr(k) = current_tar_addr} = {n}
    BY <1>4, <1>5
  <2>2. HeaderAt(current_tar_addr) = {archive.entries[k] : k \in {n}}
    BY <2>1 DEF HeaderAt
  <2>3. QED
    BY <1>5, <2>2
<1>6. CASE ~(n <= N)
  <2>1. {k \in 1 .. N : addr(k) = current_tar_addr} = {}
    BY <1>4, <1>6
  <2>2. n = N + 1
    BY <1>1, <1>6
  <2>3. current_tar_addr = ArchiveEnd(archive)
    BY <2>2 DEF ArchiveEnd
  <2>4. QED
    BY <1>6, <2>1, <2>3 DEF HeaderAt
<1>7. QED
  BY <1>5, <1>6

LEMMA NothingWraps ==
  ASSUME archive \in Archives, Sane(archive), NEW n \in 1 .. Len(archive.entries),
         current_tar_addr = HeaderAddr(archive, n)
  PROVE  LET h == archive.entries[n]
         IN /\ NextAddr(h) = HeaderAddr(archive, n + 1)
            /\ DataFits(h) <=> HeaderAddr(archive, n) + TAR_BLOCK + h.size <= archive.end
            /\ InArchive <=> HeaderAddr(archive, n) + TAR_BLOCK <= archive.end
<1>1. PICK here, next, size, up :
        /\ here = HeaderAddr(archive, n) /\ next = HeaderAddr(archive, n + 1)
        /\ size = archive.entries[n].size /\ up = RoundUp(size)
  OBVIOUS
<1>2. n \in 1 .. Len(archive.entries) + 1 /\ n + 1 \in 1 .. Len(archive.entries) + 1
  BY ArchiveFields
<1>3. here \in Nat /\ next \in Nat /\ size \in Nat
  BY <1>1, <1>2, ArchiveFields, HeaderAddresses
<1>4. up \in Nat /\ size <= up
  BY <1>1, <1>3, RoundUpCovers
<1>5. next = here + TAR_BLOCK + up /\ next + TAR_BLOCK <= AddrSpace
  BY <1>1, HeaderAddresses, SaneAddresses
<1>6. TAR_BLOCK \in Nat \ {0} /\ AddrSpace \in Nat \ {0}
  BY ImporterAssumption
<1>7. \A k \in Nat : k < AddrSpace => Wrap(k) = k
  BY <1>6, ModBounds DEF Wrap
<1>8. /\ here + TAR_BLOCK \in Nat /\ here + TAR_BLOCK < AddrSpace
      /\ here + TAR_BLOCK + size \in Nat /\ here + TAR_BLOCK + size < AddrSpace
      /\ size + TAR_BLOCK - 1 \in Nat /\ size + TAR_BLOCK - 1 < AddrSpace
      /\ next < AddrSpace
  BY <1>3, <1>4, <1>5, <1>6
<1>9. NextAddr(archive.entries[n]) = next
  <2>1. Wrap(size + TAR_BLOCK - 1) = size + TAR_BLOCK - 1
    BY <1>7, <1>8
  <2>2. ((size + TAR_BLOCK - 1) \div TAR_BLOCK) * TAR_BLOCK = up
    BY <1>1 DEF RoundUp
  <2>3. NextAddr(archive.entries[n]) = Wrap(current_tar_addr + TAR_BLOCK + up)
    BY <1>1, <2>1, <2>2 DEF NextAddr
  <2>4. current_tar_addr + TAR_BLOCK + up = next
    BY <1>1, <1>5
  <2>5. QED
    BY <1>3, <1>7, <1>8, <2>3, <2>4
<1>10. Wrap(current_tar_addr + TAR_BLOCK) = here + TAR_BLOCK
  BY <1>1, <1>7, <1>8
<1>11. Wrap(Wrap(current_tar_addr + TAR_BLOCK) + size) = here + TAR_BLOCK + size
  BY <1>7, <1>8, <1>10
<1>12. QED
  BY <1>1, <1>9, <1>10, <1>11 DEF DataFits, InArchive

\* Whatever the archive, the next address is one.
LEMMA NextIsAddress ==
  ASSUME TypeOK, NEW h \in Headers \cup {EndBlock}
  PROVE  NextAddr(h) \in 0 .. AddrSpace - 1
<1>1. TAR_BLOCK \in Nat \ {0} /\ AddrSpace \in Nat \ {0} /\ current_tar_addr \in Nat
  BY ImporterAssumption DEF TypeOK
<1>2. PICK size \in Nat : size = h.size
  BY ImporterAssumption DEF EndBlock
<1>3. PICK up \in Nat : up = (Wrap(size + TAR_BLOCK - 1) \div TAR_BLOCK) * TAR_BLOCK
  <2>1. size + TAR_BLOCK - 1 \in Nat
    BY <1>1
  <2>2. Wrap(size + TAR_BLOCK - 1) \in Nat
    BY <1>1, <2>1, ModBounds DEF Wrap
  <2>3. Wrap(size + TAR_BLOCK - 1) \div TAR_BLOCK \in Nat
    BY <1>1, <2>2, DivBounds
  <2>4. QED
    BY <1>1, <2>3
<1>4. NextAddr(h) = Wrap(current_tar_addr + TAR_BLOCK + up)
  BY <1>2, <1>3 DEF NextAddr
<1>5. current_tar_addr + TAR_BLOCK + up \in Nat
  BY <1>1
<1>6. QED
  BY <1>1, <1>4, <1>5, ModBounds DEF Wrap

(***************************************************************************)
(* Names.                                                                  *)
(***************************************************************************)

\* A short name leaves room for its NUL, so that FrodFS keeps all of it; and a
\* folder has none.
LEMMA ShortNames ==
  ASSUME NEW path \in Seq(STRING)
  PROVE  /\ ShortName(path) \in Seq(STRING) /\ Len(ShortName(path)) < FS_MAX_NAME
         /\ Clip(ShortName(path)) = ShortName(path)
         /\ RealFilename(path) = <<>> => ShortName(path) = <<>>
<1> DEFINE name == RealFilename(path)
           short == ShortName(path)
<1>1. FS_MAX_NAME \in Nat \ {0} /\ Len(path) \in Nat
  BY ImporterAssumption, LenProperties
<1>2. name \in Seq(STRING)
  <2> DEFINE ends == {i \in DOMAIN path : path[i] = Slash} \cup {0}
  <2>1. ends \in SUBSET (0 .. Len(path)) /\ ends # {}
    BY <1>1, LenProperties
  <2>2. PICK last \in 0 .. Len(path) : last = Max(ends)
    BY <1>1, <2>1, MaxIsGreatest
  <2>3. name = SubSeq(path, last + 1, Len(path))
    BY <2>2 DEF RealFilename
  <2>4. \A i \in last + 1 .. Len(path) : path[i] \in STRING
    BY <1>1, ElementOfSeq
  <2> HIDE DEF name
  <2>5. QED
    BY <1>1, <2>3, <2>4, SubSeqProperties
<1>3. PICK end \in Nat : /\ end <= Len(name) /\ end <= FS_MAX_NAME - 1
                         /\ short = SubSeq(name, 1, end)
  <2> DEFINE ends == {i - 1 : i \in {j \in DOMAIN name : name[j] = Dot}}
                       \cup {Len(name), FS_MAX_NAME - 1}
  <2> HIDE DEF name
  <2>1. ends \in SUBSET Nat /\ Len(name) \in ends /\ FS_MAX_NAME - 1 \in ends
    BY <1>1, <1>2, LenProperties
  <2>2. Min(ends) \in Nat /\ Min(ends) <= Len(name) /\ Min(ends) <= FS_MAX_NAME - 1
    BY <2>1, MinIsLeast
  <2>3. short = SubSeq(name, 1, Min(ends))
    BY DEF ShortName, name
  <2>4. QED
    BY <2>2, <2>3
<1> HIDE DEF name, short
<1>4. short \in Seq(STRING) /\ Len(short) = end
  <2>1. Len(name) \in Nat /\ \A i \in 1 .. end : name[i] \in STRING
    BY <1>2, <1>3, LenProperties, ElementOfSeq
  <2>2. QED
    BY <1>3, <2>1, SubSeqProperties
<1>5. Clip(short) = short
  <2>1. {Len(short), FS_MAX_NAME - 1} \in SUBSET Nat
    BY <1>1, <1>4
  <2>2. Min({Len(short), FS_MAX_NAME - 1}) = Len(short)
    <3> DEFINE S == {Len(short), FS_MAX_NAME - 1}
    <3>1. Min(S) \in S /\ \A j \in S : Min(S) <= j
      BY <2>1, MinIsLeast
    <3>2. Len(short) \in Nat /\ FS_MAX_NAME - 1 \in Nat /\ Len(short) <= FS_MAX_NAME - 1
      BY <1>1, <1>3, <1>4
    <3>3. QED
      BY <3>1, <3>2
  <2>3. QED
    BY <1>4, <2>2, SubSeqFull DEF Clip
<1>6. name = <<>> => short = <<>>
  BY <1>3, <1>4, EmptySeq
<1>7. QED
  BY <1>1, <1>3, <1>4, <1>5, <1>6 DEF name, short

(***************************************************************************)
(* The calls of FrodFS.                                                    *)
(***************************************************************************)

\* frodfs_create adds an empty file or nothing; it adds one unless there is one,
\* the name is empty or the table is full.
LEMMA CreateEffect ==
  ASSUME TypeOK, TableOK, NEW name \in Seq(STRING), Clip(name) = name,
         Disk!Create(name) \/ Disk!RefuseCreate(name)
  PROVE  /\ IsFiniteSet(DOMAIN files') /\ spare' \in Nat
         /\ spare' = FS_MAX_FILES - Cardinality(DOMAIN files')
         /\ DOMAIN files \subseteq DOMAIN files'
         /\ DOMAIN files' \subseteq DOMAIN files \cup ({name} \ {<<>>})
         /\ \A n \in DOMAIN files : files'[n] = files[n]
         /\ \A n \in DOMAIN files' \ DOMAIN files : files'[n] = <<>> /\ spare > 0
         /\ spare' > 0 => spare > 0 /\ (name # <<>> => name \in DOMAIN files')
<1>1. CASE Disk!Create(name)
  <2>1. /\ name \notin DOMAIN files /\ name # <<>> /\ spare > 0 /\ spare' = spare - 1
        /\ files' = [n \in DOMAIN files \cup {name} |->
                       IF n \in DOMAIN files THEN files[n] ELSE <<>>]
    BY <1>1 DEF Disk!Create
  <2>2. DOMAIN files' = DOMAIN files \cup {name}
    BY <2>1
  <2>3. IsFiniteSet(DOMAIN files') /\ Cardinality(DOMAIN files') = Cardinality(DOMAIN files) + 1
    BY <2>1, <2>2, FS_AddElement DEF TableOK
  <2>4. spare' \in Nat /\ spare' = FS_MAX_FILES - Cardinality(DOMAIN files')
    <3>1. Cardinality(DOMAIN files) \in Nat /\ FS_MAX_FILES \in Nat
      BY FS_CardinalityType, ImporterAssumption DEF TableOK
    <3>2. PICK used \in Nat : used = Cardinality(DOMAIN files)
      BY <3>1
    <3>3. spare \in Nat /\ spare = FS_MAX_FILES - used
      BY <3>2 DEF TypeOK, TableOK
    <3>4. spare' = FS_MAX_FILES - (used + 1) /\ Cardinality(DOMAIN files') = used + 1
      BY <2>1, <2>3, <3>1, <3>2, <3>3
    <3>5. spare' \in Nat
      BY <2>1, <3>3
    <3>6. QED
      BY <3>4, <3>5
  <2>5. /\ \A n \in DOMAIN files : files'[n] = files[n]
        /\ \A n \in DOMAIN files' \ DOMAIN files : files'[n] = <<>>
    BY <2>1, <2>2
  <2>6. QED
    BY <2>1, <2>2, <2>3, <2>4, <2>5
<1>2. CASE Disk!RefuseCreate(name)
  <2>1. name # NULL
    BY ImporterAssumption
  <2>2. UNCHANGED <<files, spare>> /\ (name = <<>> \/ name \in DOMAIN files \/ spare = 0)
    BY <1>2, <2>1 DEF Disk!RefuseCreate, Disk!Fail
  <2>3. QED
    BY <2>2 DEF TypeOK, TableOK
<1>3. QED
  BY <1>1, <1>2

\* frodfs_write replaces what the file holds, or changes nothing if there is no
\* such file or the data is too large.
LEMMA WriteEffect ==
  ASSUME NEW name \in Seq(STRING), NEW content \in Seq(Headers),
         Disk!Write(name, content) \/ Disk!RefuseWrite(name, content)
  PROVE  /\ DOMAIN files' = DOMAIN files /\ spare' = spare
         /\ \A n \in DOMAIN files :
              files'[n] = IF n = name /\ Len(content) <= FS_MAX_SIZE THEN content ELSE files[n]
<1>1. CASE Disk!Write(name, content)
  BY <1>1 DEF Disk!Write
<1>2. CASE Disk!RefuseWrite(name, content)
  <2>1. name # NULL /\ content # NULL
    BY ImporterAssumption
  <2>2. Len(content) \in Nat /\ FS_MAX_SIZE \in Nat
    BY LenProperties, ImporterAssumption
  <2>3. UNCHANGED <<files, spare>> /\ (Len(content) > FS_MAX_SIZE \/ name \notin DOMAIN files)
    BY <1>2, <2>1 DEF Disk!RefuseWrite, Disk!Fail
  <2>4. QED
    BY <2>2, <2>3
<1>3. QED
  BY <1>1, <1>2

\* What the importer passes to them.
LEMMA Passed ==
  ASSUME NEW h \in Headers
  PROVE  /\ h.path \in Seq(STRING) /\ h # EndBlock
         /\ Data(h) \in Seq(Headers) /\ Len(Data(h)) = h.size
<1>1. h.path \in Seq(STRING) /\ h.path # <<>> /\ h.size \in Nat
  BY ImporterAssumption
<1>2. h # EndBlock
  BY <1>1 DEF EndBlock
<1>3. Data(h) \in Seq(Headers) /\ Len(Data(h)) = h.size
  <2>1. PICK size \in Nat : size = h.size
    BY <1>1
  <2>2. Data(h) = [k \in 1 .. size |-> h]
    BY <2>1 DEF Data
  <2>3. Data(h) \in [1 .. size -> Headers]
    BY <2>2
  <2>4. QED
    BY <2>1, <2>3
<1>4. QED
  BY <1>1, <1>2, <1>3

(***************************************************************************)
(* Types.                                                                  *)
(***************************************************************************)

LEMMA TypesKept ==
  ASSUME TypeOK, TableOK, [Next]_vars
  PROVE  TypeOK' /\ TableOK'
<1>1. CASE UNCHANGED vars
  BY <1>1 DEF TypeOK, TableOK, vars, disk
<1>2. CASE WalkEnds
  BY <1>2 DEF WalkEnds, TypeOK, TableOK, disk
<1>3. ASSUME NEW h \in Headers, Skip(h) PROVE TypeOK' /\ TableOK'
  <2>1. NextAddr(h) \in 0 .. AddrSpace - 1
    BY NextIsAddress
  <2>2. QED
    BY <1>3, <2>1 DEF Skip, TypeOK, TableOK, disk
<1>4. ASSUME NEW h \in Headers, Import(h) PROVE TypeOK' /\ TableOK'
  BY <1>4 DEF Import, TypeOK, TableOK, disk
<1>5. CASE Create
  <2>1. PICK name : name = ShortName(header.path)
    OBVIOUS
  <2>2. header.path \in Seq(STRING)
    <3>1. CASE header \in Headers
      BY <3>1, Passed
    <3>2. CASE header = EndBlock
      BY <3>2, EmptySeq DEF EndBlock
    <3>3. QED
      BY <3>1, <3>2 DEF TypeOK
  <2>3. name \in Seq(STRING) /\ Len(name) < FS_MAX_NAME /\ Clip(name) = name
    BY <2>1, <2>2, ShortNames
  <2>4. Disk!Create(name) \/ Disk!RefuseCreate(name)
    BY <1>5, <2>1 DEF Create
  <2>5. /\ IsFiniteSet(DOMAIN files') /\ spare' \in Nat
        /\ spare' = FS_MAX_FILES - Cardinality(DOMAIN files')
        /\ DOMAIN files' \subseteq DOMAIN files \cup ({name} \ {<<>>})
    BY <2>3, <2>4, CreateEffect
  <2>6. \A n \in DOMAIN files' : n # <<>> /\ Len(n) < FS_MAX_NAME
    BY <2>3, <2>5 DEF TypeOK
  <2>7. QED
    BY <1>5, <2>5, <2>6 DEF Create, TypeOK, TableOK
<1>6. CASE Write
  <2>1. DOMAIN files' = DOMAIN files /\ spare' = spare
    BY <1>6 DEF Write, Disk!Write, Disk!RefuseWrite, Disk!Fail
  <2>2. NextAddr(header) \in 0 .. AddrSpace - 1
    BY NextIsAddress DEF TypeOK
  <2>3. QED
    BY <1>6, <2>1, <2>2 DEF Write, TypeOK, TableOK
<1>7. QED
  BY <1>1, <1>2, <1>3, <1>4, <1>5, <1>6 DEF Next

(***************************************************************************)
(* The walk, step by step.                                                 *)
(***************************************************************************)

\* What a reader expects depends on the archive alone, and is a set of entries.
LEMMA ExpectedEntries ==
  ASSUME archive \in Archives, archive' = archive
  PROVE  /\ Sane(archive)' <=> Sane(archive)
         /\ \A name : Expected(name)' = Expected(name) /\ Kept(name)' = Kept(name)
         /\ \A name : /\ Kept(name) \subseteq Expected(name)
                      /\ Expected(name) \subseteq 1 .. Len(archive.entries)
<1>1. PICK a : a = archive
  OBVIOUS
<1>2. \A name : Expected(name)' = Expected(name)
  BY <1>1 DEF Expected
<1>3. \A name : Kept(name)' = Kept(name)
  <2>1. \A name : Kept(name)' = {n \in Expected(name)' : archive'.entries[n].size <= FS_MAX_SIZE}
    BY DEF Kept
  <2>2. QED
    BY <1>2, <2>1 DEF Kept
<1>4. QED
  BY <1>2, <1>3 DEF Expected, Kept

\* An entry is expected under its own name, if the importer wants it and finds its data.
LEMMA ExpectedIsWanted ==
  ASSUME archive \in Archives, Sane(archive), NEW n \in 1 .. Len(archive.entries),
         current_tar_addr = HeaderAddr(archive, n), NEW name
  PROVE  LET h == archive.entries[n]
         IN /\ n \in Expected(name) /\ name # <<>> => Wanted(h)
            /\ Wanted(h) => (n \in Expected(name) <=> name = ShortName(h.path) /\ DataFits(h))
            /\ n \in Expected(name) => DataFits(h) /\ InArchive
<1>1. PICK h \in Headers : h = archive.entries[n]
  BY ArchiveFields
<1>2. DataFits(h) <=> HeaderAddr(archive, n) + TAR_BLOCK + h.size <= archive.end
  BY <1>1, NothingWraps
<1>3. n \in Expected(name) <=>
        /\ ShortName(h.path) = name /\ RealFilename(h.path) # ShellBin /\ h.size > 0
        /\ DataFits(h)
  BY <1>1, <1>2 DEF Expected
<1>4. RealFilename(h.path) = <<>> => ShortName(h.path) = <<>>
  BY Passed, ShortNames
<1>5. DataFits(h) => InArchive
  <2>1. InArchive <=> HeaderAddr(archive, n) + TAR_BLOCK <= archive.end
    BY NothingWraps
  <2>2. n \in 1 .. Len(archive.entries) + 1
    BY ArchiveFields
  <2>3. PICK here \in Nat, size \in Nat, end \in Nat :
          here = HeaderAddr(archive, n) /\ size = h.size /\ end = archive.end
    BY <1>1, <2>2, ArchiveFields, HeaderAddresses
  <2>4. TAR_BLOCK \in Nat
    BY ImporterAssumption
  <2>5. QED
    BY <1>2, <2>1, <2>3, <2>4
<1>6. QED
  BY <1>1, <1>3, <1>4, <1>5 DEF Wanted

\* While the archive stays, so does what a name should hold.
LEMMA LatestStays ==
  ASSUME archive \in Archives, archive' = archive, NEW name, NEW k
  PROVE  Latest(name, k)' = Latest(name, k)
<1>1. PICK before : before = KeptBefore(name, k)
  OBVIOUS
<1>2. KeptBefore(name, k)' = before
  BY <1>1, ExpectedEntries DEF KeptBefore
<1>3. QED
  BY <1>1, <1>2 DEF Latest

\* From one entry to the next: the file of a name changes only with an entry of
\* that name, and only if it is not too large.
LEMMA LatestKept ==
  ASSUME archive \in Archives, archive' = archive, NEW n \in 1 .. Len(archive.entries), NEW name
  PROVE  /\ Latest(name, n)' = Latest(name, n)
         /\ Latest(name, n + 1)' =
              IF n \in Kept(name) THEN Data(archive.entries[n]) ELSE Latest(name, n)
<1>2. \A k : Latest(name, k)' = Latest(name, k)
  BY LatestStays
<1>3. PICK N \in Nat : N = Len(archive.entries)
  BY ArchiveFields
<1>4. Kept(name) \subseteq 1 .. N
  BY <1>3, ExpectedEntries
<1>5. CASE n \in Kept(name)
  <2>1. n \in KeptBefore(name, n + 1) /\ KeptBefore(name, n + 1) \in SUBSET (0 .. N)
        /\ \A k \in KeptBefore(name, n + 1) : k <= n
    BY <1>3, <1>4, <1>5 DEF KeptBefore
  <2>2. PICK top : top = Max(KeptBefore(name, n + 1))
    OBVIOUS
  <2>3. top \in KeptBefore(name, n + 1) /\ n <= top
    BY <2>1, <2>2, MaxIsGreatest
  <2>4. top = n
    BY <1>3, <1>4, <2>1, <2>3
  <2>5. Latest(name, n + 1) = Data(archive.entries[n])
    BY <2>1, <2>2, <2>4 DEF Latest
  <2>6. QED
    BY <1>2, <1>5, <2>5
<1>6. CASE n \notin Kept(name)
  <2>1. KeptBefore(name, n + 1) = KeptBefore(name, n)
    BY <1>3, <1>4, <1>6 DEF KeptBefore
  <2>2. Latest(name, n + 1) = Latest(name, n)
    BY <2>1 DEF Latest
  <2>3. QED
    BY <1>2, <1>6, <2>2
<1>7. QED
  BY <1>2, <1>5, <1>6

\* An entry the importer does not want is one no reader expects under a name.
LEMMA SkipKeeps ==
  ASSUME TypeOK, TableOK, Sane(archive), NEW n \in 1 .. Len(archive.entries) + 1, StandsAt(n),
         NEW h \in Headers, Skip(h)
  PROVE  n \in 1 .. Len(archive.entries) /\ StandsAt(n + 1)'
<1>1. /\ archive \in Archives /\ archive' = archive /\ pc = "walk" /\ pc' = "walk"
      /\ files' = files /\ spare' = spare
      /\ h \in HeaderAt(current_tar_addr) /\ h # EndBlock /\ ~(Wanted(h) /\ DataFits(h))
      /\ current_tar_addr' = NextAddr(h)
  BY DEF Skip, TableOK, disk
<1>2. current_tar_addr = HeaderAddr(archive, n)
  BY DEF StandsAt
<1>3. n \in 1 .. Len(archive.entries) /\ h = archive.entries[n]
  <2>1. HeaderAt(current_tar_addr)
          = IF n <= Len(archive.entries) THEN {archive.entries[n]} ELSE {EndBlock}
    BY <1>1, <1>2, HeaderHere
  <2>2. Len(archive.entries) \in Nat
    BY <1>1, ArchiveFields
  <2>3. QED
    BY <1>1, <2>1, <2>2
<1>4. current_tar_addr' = HeaderAddr(archive', n + 1)
  BY <1>1, <1>2, <1>3, NothingWraps
<1>5. ASSUME NEW name, name # <<>>
      PROVE  n \notin Expected(name) /\ n \notin Kept(name)
             /\ Created(name, n + 1)' = Created(name, n) /\ Latest(name, n + 1)' = Latest(name, n)
  <2>1. n \notin Expected(name)
    BY <1>1, <1>2, <1>3, <1>5, ExpectedIsWanted
  <2>2. n \notin Kept(name)
    BY <2>1 DEF Kept
  <2>3. Expected(name)' = Expected(name) /\ Expected(name) \subseteq 1 .. Len(archive.entries)
    BY <1>1, ExpectedEntries
  <2>4. \A m \in Expected(name) : m < n + 1 <=> m < n
    BY <2>1, <2>3, <1>1, ArchiveFields
  <2>5. Created(name, n + 1)' = Created(name, n)
    BY <1>1, <2>3, <2>4 DEF Created
  <2>6. QED
    BY <1>1, <1>3, <2>1, <2>2, <2>5, LatestKept
<1>6. StoredUpTo(n + 1)'
  <2>1. \A name \in DOMAIN files' :
          Created(name, n + 1)' # {} /\ files'[name] = Latest(name, n + 1)'
    <3> SUFFICES ASSUME NEW name \in DOMAIN files'
                 PROVE  Created(name, n + 1)' # {} /\ files'[name] = Latest(name, n + 1)'
      OBVIOUS
    <3>1. name \in DOMAIN files /\ name # <<>>
      BY <1>1 DEF TypeOK
    <3>2. Created(name, n) # {} /\ files[name] = Latest(name, n)
      BY <3>1 DEF StandsAt, StoredUpTo
    <3>3. QED
      BY <1>1, <1>5, <3>1, <3>2
  <2>2. ASSUME spare' > 0, NEW k \in Headers, ShortName(k.path) # <<>>,
               Created(ShortName(k.path), n + 1)' # {}
        PROVE  ShortName(k.path) \in DOMAIN files'
    <3>1. Created(ShortName(k.path), n) # {}
      BY <1>5, <2>2
    <3>2. QED
      BY <1>1, <2>2, <3>1 DEF StandsAt, StoredUpTo
  <2>3. QED
    BY <2>1, <2>2 DEF StoredUpTo
<1>7. QED
  BY <1>1, <1>3, <1>4, <1>6 DEF StandsAt

\* An entry taken for storing is one a reader expects.
LEMMA ImportKeeps ==
  ASSUME TypeOK, TableOK, Sane(archive), NEW n \in 1 .. Len(archive.entries) + 1, StandsAt(n),
         NEW h \in Headers, Import(h)
  PROVE  StandsAt(n)'
<1>1. /\ archive \in Archives /\ archive' = archive /\ pc = "walk" /\ pc' = "create"
      /\ files' = files /\ spare' = spare /\ header' = h
      /\ h \in HeaderAt(current_tar_addr) /\ h # EndBlock /\ Wanted(h) /\ DataFits(h)
      /\ current_tar_addr' = current_tar_addr
  BY DEF Import, TableOK, disk
<1>2. current_tar_addr = HeaderAddr(archive, n)
  BY DEF StandsAt
<1>3. n \in 1 .. Len(archive.entries) /\ h = archive.entries[n]
  <2>1. HeaderAt(current_tar_addr)
          = IF n <= Len(archive.entries) THEN {archive.entries[n]} ELSE {EndBlock}
    BY <1>1, <1>2, HeaderHere
  <2>2. Len(archive.entries) \in Nat
    BY <1>1, ArchiveFields
  <2>3. QED
    BY <1>1, <2>1, <2>2
<1>4. n \in Expected(ShortName(h.path))'
  <2>1. n \in Expected(ShortName(h.path))
    BY <1>1, <1>2, <1>3, ExpectedIsWanted
  <2>2. \A name : Expected(name)' = Expected(name)
    BY <1>1, ExpectedEntries
  <2>3. QED
    BY <2>1, <2>2
<1>5. \A name : Created(name, n)' = Created(name, n) /\ Latest(name, n)' = Latest(name, n)
  BY <1>1, <1>3, ExpectedEntries, LatestKept DEF Created
<1>6. StoredUpTo(n)'
  <2>1. StoredUpTo(n)
    BY DEF StandsAt
  <2>2. QED
    BY <1>1, <1>5, <2>1 DEF StoredUpTo
<1>7. n <= Len(archive.entries)
  BY <1>1, <1>3, ArchiveFields
<1>8. QED
  BY <1>1, <1>2, <1>3, <1>4, <1>6, <1>7 DEF StandsAt

\* A new file is empty, as no entry of its name came before.
LEMMA CreateKeeps ==
  ASSUME TypeOK, TableOK, Sane(archive), NEW n \in 1 .. Len(archive.entries) + 1, StandsAt(n),
         Create
  PROVE  StandsAt(n)'
<1>1. /\ archive \in Archives /\ archive' = archive /\ pc = "create" /\ pc' = "write"
      /\ header' = header /\ current_tar_addr' = current_tar_addr
  BY DEF Create, TableOK
<1>2. /\ current_tar_addr = HeaderAddr(archive, n) /\ StoredUpTo(n)
      /\ n <= Len(archive.entries) /\ header = archive.entries[n]
      /\ n \in Expected(ShortName(header.path))
  BY <1>1 DEF StandsAt
<1>3. n \in 1 .. Len(archive.entries)
  BY <1>1, <1>2, ArchiveFields
<1>4. PICK h \in Headers : h = header
  BY <1>1, <1>2, <1>3, ArchiveFields
<1>5. PICK short \in Seq(STRING) : short = ShortName(h.path) /\ Clip(short) = short
  BY <1>4, Passed, ShortNames
<1>6. /\ DOMAIN files \subseteq DOMAIN files'
      /\ DOMAIN files' \subseteq DOMAIN files \cup ({short} \ {<<>>})
      /\ \A m \in DOMAIN files : files'[m] = files[m]
      /\ \A m \in DOMAIN files' \ DOMAIN files : files'[m] = <<>> /\ spare > 0
      /\ spare' > 0 => spare > 0 /\ (short # <<>> => short \in DOMAIN files')
  <2>1. Disk!Create(short) \/ Disk!RefuseCreate(short)
    BY <1>4, <1>5 DEF Create
  <2>2. QED
    BY <1>5, <2>1, CreateEffect
<1>7. \A name : /\ Expected(name)' = Expected(name) /\ Latest(name, n)' = Latest(name, n)
                /\ n \in Expected(name) <=> name = short
  <2>1. \A name : n \in Expected(name) <=> name = short
    BY <1>2, <1>3, <1>4, <1>5 DEF Expected
  <2>2. QED
    BY <1>1, <1>3, <2>1, ExpectedEntries, LatestKept
<1>8. \A name : Created(name, n)' = Created(name, n) \cup (IF name = short THEN {n} ELSE {})
  <2> SUFFICES ASSUME NEW name
               PROVE  Created(name, n)' = Created(name, n) \cup (IF name = short THEN {n} ELSE {})
    OBVIOUS
  <2>1. Created(name, n)' = {m \in Expected(name) : m < n \/ m = n}
    BY <1>1, <1>7 DEF Created
  <2>2. Created(name, n) = {m \in Expected(name) : m < n}
    BY <1>1 DEF Created
  <2>3. QED
    BY <1>7, <2>1, <2>2
<1>9. ASSUME NEW name \in DOMAIN files'
      PROVE  Created(name, n)' # {} /\ files'[name] = Latest(name, n)'
  <2>1. CASE name \in DOMAIN files
    BY <1>2, <1>6, <1>7, <1>8, <2>1 DEF StoredUpTo
  <2>2. CASE name \notin DOMAIN files
    <3>1. name = short /\ short # <<>> /\ files'[name] = <<>> /\ spare > 0
      BY <1>6, <2>2
    <3>2. Created(short, n) = {}
      BY <1>2, <1>4, <1>5, <2>2, <3>1 DEF StoredUpTo
    <3>3. KeptBefore(short, n) = {}
      BY <3>2 DEF Created, KeptBefore, Kept
    <3>4. Latest(short, n) = <<>>
      BY <3>3 DEF Latest
    <3>5. QED
      BY <1>7, <1>8, <3>1, <3>4
  <2>3. QED
    BY <2>1, <2>2
<1>10. ASSUME spare' > 0, NEW k \in Headers, ShortName(k.path) # <<>>,
              Created(ShortName(k.path), n)' # {}
       PROVE  ShortName(k.path) \in DOMAIN files'
  <2>1. CASE ShortName(k.path) = short
    BY <1>6, <1>10, <2>1
  <2>2. CASE ShortName(k.path) # short
    <3>1. Created(ShortName(k.path), n) # {}
      BY <1>8, <1>10, <2>2
    <3>2. QED
      BY <1>2, <1>6, <1>10, <3>1 DEF StoredUpTo
  <2>3. QED
    BY <2>1, <2>2
<1>11. StoredUpTo(n)'
  BY <1>9, <1>10 DEF StoredUpTo
<1>12. n \in Expected(ShortName(header.path))'
  BY <1>1, <1>4, <1>5, <1>7
<1>13. QED
  BY <1>1, <1>2, <1>11, <1>12 DEF StandsAt

\* The file now holds the entry's data, unless that is too large.
LEMMA WriteKeeps ==
  ASSUME TypeOK, TableOK, Sane(archive), NEW n \in 1 .. Len(archive.entries) + 1, StandsAt(n),
         Write
  PROVE  n \in 1 .. Len(archive.entries) /\ StandsAt(n + 1)'
<1>1. /\ archive \in Archives /\ archive' = archive /\ pc = "write" /\ pc' = "walk"
      /\ current_tar_addr' = NextAddr(header)
  BY DEF Write, TableOK
<1>2. /\ current_tar_addr = HeaderAddr(archive, n) /\ StoredUpTo(n)
      /\ n <= Len(archive.entries) /\ header = archive.entries[n]
      /\ n \in Expected(ShortName(header.path))
  BY <1>1 DEF StandsAt
<1>3. n \in 1 .. Len(archive.entries)
  BY <1>1, <1>2, ArchiveFields
<1>4. PICK h \in Headers : h = header
  BY <1>1, <1>2, <1>3, ArchiveFields
<1>5. PICK short \in Seq(STRING) : short = ShortName(h.path)
  BY <1>4, Passed, ShortNames
<1>6. /\ DOMAIN files' = DOMAIN files /\ spare' = spare
      /\ \A m \in DOMAIN files :
           files'[m] = IF m = short /\ h.size <= FS_MAX_SIZE THEN Data(h) ELSE files[m]
  <2>1. Disk!Write(short, Data(h)) \/ Disk!RefuseWrite(short, Data(h))
    BY <1>4, <1>5 DEF Write
  <2>2. PICK content \in Seq(Headers) : content = Data(h) /\ Len(content) = h.size
    BY Passed
  <2>3. QED
    BY <2>1, <2>2, WriteEffect
<1>7. \A name : /\ Expected(name)' = Expected(name)
                /\ n \in Kept(name) <=> name = short /\ h.size <= FS_MAX_SIZE
  <2>1. \A name : n \in Expected(name) <=> name = short
    BY <1>2, <1>3, <1>4, <1>5 DEF Expected
  <2>2. QED
    BY <1>1, <1>2, <1>4, <2>1, ExpectedEntries DEF Kept
<1>8. \A name : Created(name, n + 1)' = Created(name, n)
  <2> SUFFICES ASSUME NEW name PROVE Created(name, n + 1)' = Created(name, n)
    OBVIOUS
  <2>1. Expected(name) \subseteq Nat
    BY <1>1, ExpectedEntries, ArchiveFields
  <2>2. \A m \in Expected(name) : m < n + 1 <=> m < n \/ m = n
    BY <1>3, <2>1
  <2>3. QED
    BY <1>1, <1>7, <2>2 DEF Created
<1>9. ASSUME NEW name \in DOMAIN files'
      PROVE  Created(name, n + 1)' # {} /\ files'[name] = Latest(name, n + 1)'
  <2>1. name \in DOMAIN files /\ Created(name, n) # {} /\ files[name] = Latest(name, n)
    BY <1>2, <1>6 DEF StoredUpTo
  <2>2. Latest(name, n + 1)' = IF n \in Kept(name) THEN Data(h) ELSE Latest(name, n)
    BY <1>1, <1>2, <1>3, <1>4, LatestKept
  <2>3. QED
    BY <1>6, <1>7, <1>8, <2>1, <2>2
<1>10. StoredUpTo(n + 1)'
  BY <1>2, <1>6, <1>8, <1>9 DEF StoredUpTo
<1>11. current_tar_addr' = HeaderAddr(archive', n + 1)
  BY <1>1, <1>2, <1>3, NothingWraps
<1>12. QED
  BY <1>1, <1>3, <1>10, <1>11 DEF StandsAt

\* The walk ends where nothing more is expected.
LEMMA EndIsExact ==
  ASSUME TypeOK, TableOK, Sane(archive), NEW n \in 1 .. Len(archive.entries) + 1, StandsAt(n),
         WalkEnds
  PROVE  ImportIsExact'
<1>1. /\ archive \in Archives /\ archive' = archive /\ pc = "walk" /\ pc' = "done"
      /\ files' = files /\ spare' = spare
      /\ ~InArchive \/ EndBlock \in HeaderAt(current_tar_addr)
  BY DEF WalkEnds, TableOK, disk
<1>2. current_tar_addr = HeaderAddr(archive, n) /\ StoredUpTo(n)
  BY DEF StandsAt
<1>3. PICK N \in Nat : N = Len(archive.entries)
  BY <1>1, ArchiveFields
<1>4. ASSUME NEW name, NEW m \in Expected(name), ~(m < n) PROVE FALSE
  <2>1. m \in 1 .. N /\ n \in 1 .. N
    BY <1>1, <1>3, <1>4, ExpectedEntries
  <2>2. ~InArchive
    <3>1. HeaderAt(current_tar_addr) = {archive.entries[n]}
      BY <1>1, <1>2, <1>3, <2>1, HeaderHere
    <3>2. archive.entries[n] # EndBlock
      BY <1>1, <1>3, <2>1, ArchiveFields, Passed
    <3>3. QED
      BY <1>1, <3>1, <3>2
  <2>3. PICK here \in Nat, there \in Nat, size \in Nat, size_n \in Nat, end \in Nat :
          /\ here = HeaderAddr(archive, n) /\ there = HeaderAddr(archive, m)
          /\ size = archive.entries[m].size /\ size_n = archive.entries[n].size
          /\ end = archive.end
    <3>1. n \in 1 .. N + 1 /\ m \in 1 .. N + 1
      BY <2>1
    <3>2. QED
      BY <1>1, <1>3, <2>1, <3>1, ArchiveFields, HeaderAddresses
  <2>4. here + TAR_BLOCK > end
    <3>1. TAR_BLOCK \in Nat
      BY ImporterAssumption
    <3>2. QED
      BY <1>1, <1>2, <1>3, <2>1, <2>2, <2>3, <3>1, NothingWraps
  <2>5. there + TAR_BLOCK + size <= end
    BY <2>3 DEF Expected
  <2>6. here <= there
    <3>1. CASE m = n
      BY <2>3, <3>1
    <3>2. CASE m # n
      <4>1. n < m /\ n \in 1 .. N + 1 /\ m \in 1 .. N + 1
        BY <1>4, <2>1, <3>2
      <4>2. here + TAR_BLOCK + size_n <= there
        BY <1>1, <1>3, <2>3, <4>1, AddressesGrow
      <4>3. TAR_BLOCK \in Nat
        BY ImporterAssumption
      <4>4. QED
        BY <2>3, <4>2, <4>3
    <3>3. QED
      BY <3>1, <3>2
  <2>7. TAR_BLOCK \in Nat
    BY ImporterAssumption
  <2>8. here \in Nat /\ there \in Nat /\ size \in Nat /\ end \in Nat
    BY <2>3
  <2>9. QED
    BY <2>4, <2>5, <2>6, <2>7, <2>8
<1>5. \A name : Created(name, n) = Expected(name) /\ KeptBefore(name, n) = Kept(name)
  <2>1. \A name : Kept(name) \subseteq Expected(name)
    BY <1>1, ExpectedEntries
  <2>2. QED
    BY <1>4, <2>1 DEF Created, KeptBefore
<1>6. \A name \in DOMAIN files :
        /\ Expected(name) # {}
        /\ files[name] = IF Kept(name) = {} THEN <<>> ELSE Data(archive.entries[Max(Kept(name))])
  BY <1>2, <1>5 DEF StoredUpTo, Latest
<1>7. spare > 0 =>
        \A h \in Headers : ShortName(h.path) # <<>> /\ Expected(ShortName(h.path)) # {}
                             => ShortName(h.path) \in DOMAIN files
  BY <1>2, <1>5 DEF StoredUpTo
<1>8. \A name : Expected(name)' = Expected(name) /\ Kept(name)' = Kept(name)
  BY <1>1, ExpectedEntries
<1>9. QED
  BY <1>1, <1>6, <1>7, <1>8 DEF ImportIsExact

(***************************************************************************)
(* The invariant and what follows.                                         *)
(***************************************************************************)

LEMMA StartUp ==
  ASSUME Init
  PROVE  IInv
<1>1. /\ archive \in Archives /\ current_tar_addr = archive.start /\ pc = "walk"
      /\ header = EndBlock /\ files = <<>> /\ spare = FS_MAX_FILES
  BY DEF Init, Disk!Init
<1>2. DOMAIN files = {}
  BY <1>1, EmptySeq
<1>3. TypeOK
  BY <1>1, <1>2, FS_EmptySet, ArchiveFields, ImporterAssumption DEF TypeOK
<1>4. TableOK
  BY <1>1, <1>2, FS_EmptySet, ImporterAssumption DEF TableOK
<1>5. StandsAt(1)
  <2>1. \A name : Created(name, 1) = {}
    <3>1. \A name : Expected(name) \subseteq 1 .. Len(archive.entries)
      BY DEF Expected
    <3>2. Len(archive.entries) \in Nat
      BY <1>1, ArchiveFields
    <3>3. QED
      BY <1>1, <3>1, <3>2 DEF Created
  <2>2. current_tar_addr = HeaderAddr(archive, 1)
    BY <1>1, HeaderAddresses
  <2>3. QED
    BY <1>1, <1>2, <2>1, <2>2 DEF StandsAt, StoredUpTo
<1>6. 1 \in 1 .. Len(archive.entries) + 1
  BY <1>1, ArchiveFields
<1>7. QED
  BY <1>1, <1>3, <1>4, <1>5, <1>6 DEF IInv, StepByStep, ImportIsExact

LEMMA WalkKept ==
  ASSUME IInv, [Next]_vars
  PROVE  StepByStep' /\ ImportIsExact'
<1>1. archive \in Archives /\ archive' = archive
  BY DEF IInv, TableOK, Next, WalkEnds, Skip, Import, Create, Write, vars
<1>2. Sane(archive)' <=> Sane(archive)
  BY <1>1
<1>3. CASE UNCHANGED vars
  <2>1. /\ pc' = pc /\ files' = files /\ spare' = spare /\ header' = header
        /\ current_tar_addr' = current_tar_addr
    BY <1>3 DEF vars, disk
  <2>2. \A name : Expected(name)' = Expected(name) /\ Kept(name)' = Kept(name)
    BY <1>1, ExpectedEntries
  <2>3. ImportIsExact'
    BY <1>1, <1>2, <2>1, <2>2 DEF IInv, ImportIsExact
  <2>4. ASSUME NEW n, StandsAt(n) PROVE StandsAt(n)'
    <3>1. \A name : Created(name, n)' = Created(name, n) /\ Latest(name, n)' = Latest(name, n)
      BY <1>1, <2>1, <2>2, LatestStays DEF Created
    <3>2. StoredUpTo(n)'
      BY <2>1, <2>4, <3>1 DEF StandsAt, StoredUpTo
    <3>3. QED
      BY <1>1, <2>1, <2>2, <2>4, <3>2 DEF StandsAt
  <2>5. StepByStep'
    BY <1>1, <1>2, <2>1, <2>4 DEF IInv, StepByStep
  <2>6. QED
    BY <2>3, <2>5
<1>4. CASE ~Sane(archive)
  BY <1>2, <1>4 DEF StepByStep, ImportIsExact
<1>5. CASE Sane(archive) /\ Next
  <2>1. pc # "done"
    BY <1>5 DEF Next, WalkEnds, Skip, Import, Create, Write
  <2>2. PICK n \in 1 .. Len(archive.entries) + 1 : StandsAt(n)
    BY <1>5, <2>1 DEF IInv, StepByStep
  <2>3. TypeOK /\ TableOK
    BY DEF IInv
  <2>4. CASE WalkEnds
    BY <1>5, <2>2, <2>3, <2>4, EndIsExact DEF WalkEnds, StepByStep
  <2>5. ASSUME pc' # "done", \E m \in 1 .. Len(archive.entries) + 1 : StandsAt(m)'
        PROVE  StepByStep' /\ ImportIsExact'
    BY <1>1, <2>5 DEF StepByStep, ImportIsExact
  <2>6. n \in 1 .. Len(archive.entries) => n + 1 \in 1 .. Len(archive.entries) + 1
    BY <1>1, ArchiveFields
  <2>7. ASSUME NEW h \in Headers, Skip(h) PROVE StepByStep' /\ ImportIsExact'
    <3>1. pc' # "done"
      BY <2>7 DEF Skip
    <3>2. QED
      BY <1>5, <2>2, <2>3, <2>5, <2>6, <2>7, <3>1, SkipKeeps
  <2>8. ASSUME NEW h \in Headers, Import(h) PROVE StepByStep' /\ ImportIsExact'
    <3>1. pc' # "done"
      BY <2>8 DEF Import
    <3>2. QED
      BY <1>5, <2>2, <2>3, <2>5, <2>8, <3>1, ImportKeeps
  <2>9. CASE Create
    <3>1. pc' # "done"
      BY <2>9 DEF Create
    <3>2. QED
      BY <1>5, <2>2, <2>3, <2>5, <2>9, <3>1, CreateKeeps
  <2>10. CASE Write
    <3>1. pc' # "done"
      BY <2>10 DEF Write
    <3>2. QED
      BY <1>5, <2>2, <2>3, <2>5, <2>6, <2>10, <3>1, WriteKeeps
  <2>11. QED
    BY <1>5, <2>4, <2>7, <2>8, <2>9, <2>10 DEF Next
<1>6. QED
  BY <1>3, <1>4, <1>5

\* The inductive invariant: at each entry of a sane archive, FrodFS holds what the
\* walk has passed.
THEOREM Invariant == Spec => []IInv
<1>1. Init => IInv
  BY StartUp
<1>2. IInv /\ [Next]_vars => IInv'
  BY TypesKept, WalkKept DEF IInv
<1>3. QED
  BY <1>1, <1>2, PTL DEF Spec

\* The variables keep their types, whatever the archive: addresses wrap, names in
\* FrodFS leave room for their NUL, and no two files share one.
THEOREM TypeCorrect == Spec => []TypeOK
<1>1. IInv => TypeOK
  BY DEF IInv
<1>2. QED
  BY <1>1, Invariant, PTL

\* In a sane archive the walk of kernel_main takes nothing but headers for headers.
THEOREM OnlyHeadersAreVisited == Spec => []VisitsOnlyHeaders
<1>1. IInv => VisitsOnlyHeaders
  BY DEF IInv, StepByStep, StandsAt, VisitsOnlyHeaders
<1>2. QED
  BY <1>1, Invariant, PTL

\* What the loop of kernel_main leaves in FrodFS is what the archive holds and
\* fits: for each name the last entry that is not too large.
THEOREM ImportIsComplete == Spec => []ImportIsExact
<1>1. IInv => ImportIsExact
  BY DEF IInv
<1>2. QED
  BY <1>1, Invariant, PTL

(***************************************************************************)
(* Why the import ends: each step brings the walk further, and the address *)
(* space is finite.                                                        *)
(***************************************************************************)

Rounds == {<<"walk", "create">>, <<"create", "write">>, <<"walk", "done">>}

Advances ==
  Sane(archive) =>
    \/ current_tar_addr' > current_tar_addr
    \/ current_tar_addr' = current_tar_addr /\ <<pc, pc'>> \in Rounds

LEMMA StepsAdvance ==
  ASSUME IInv, Next
  PROVE  Advances
<1> SUFFICES ASSUME Sane(archive)
             PROVE  \/ current_tar_addr' > current_tar_addr
                    \/ current_tar_addr' = current_tar_addr /\ <<pc, pc'>> \in Rounds
  BY DEF Advances
<1>1. CASE WalkEnds
  BY <1>1 DEF WalkEnds, Rounds
<1>2. CASE \E h \in Headers : Import(h)
  BY <1>2 DEF Import, Rounds
<1>3. CASE Create
  BY <1>3 DEF Create, Rounds
<1>4. CASE (\E h \in Headers : Skip(h)) \/ Write
  <2>1. TypeOK /\ TableOK /\ pc # "done"
    BY <1>4 DEF IInv, Skip, Write
  <2>2. PICK n \in 1 .. Len(archive.entries) + 1 : StandsAt(n)
    BY <2>1 DEF IInv, StepByStep
  <2>3. n \in 1 .. Len(archive.entries) /\ StandsAt(n + 1)'
    BY <1>4, <2>1, <2>2, SkipKeeps, WriteKeeps
  <2>4. archive \in Archives /\ archive' = archive
    BY <1>4, <2>1 DEF TableOK, Skip, Write
  <2>5. PICK here, next : here = HeaderAddr(archive, n) /\ next = HeaderAddr(archive, n + 1)
    OBVIOUS
  <2>6. current_tar_addr = here /\ current_tar_addr' = next
    BY <2>2, <2>3, <2>4, <2>5 DEF StandsAt
  <2>7. PICK size \in Nat : size = archive.entries[n].size
    BY <2>3, <2>4, ArchiveFields, ImporterAssumption
  <2>8. here + TAR_BLOCK + size <= next
    BY <2>3, <2>4, <2>5, <2>7, SaneAddresses
  <2>9. here \in Nat /\ next \in Nat /\ TAR_BLOCK \in Nat \ {0}
    <3>1. TypeOK'
      BY <2>1, TypesKept
    <3>2. QED
      BY <2>1, <2>6, <3>1, ImporterAssumption DEF TypeOK
  <2>10. QED
    BY <2>6, <2>8, <2>9
<1>5. QED
  BY <1>1, <1>2, <1>3, <1>4 DEF Next

\* In a sane archive the loop of kernel_main never takes an address twice: every
\* step moves it on, or brings the entry it is at one call further.
THEOREM WalkAdvances == Spec => [][Advances]_vars
<1>1. IInv /\ [Next]_vars => [Advances]_vars
  BY StepsAdvance
<1>2. QED
  BY <1>1, Invariant, PTL DEF Spec
=============================================================================
