---------------------------- MODULE FrodFSProofs ----------------------------
(***************************************************************************)
(* Proofs about FrodFS, for every table size, name length, file size and   *)
(* every set of names and contents the callers pass.                       *)
(***************************************************************************)
EXTENDS FrodFS, WellFoundedInduction, SequenceTheorems, FiniteSetTheorems, TLAPS

(***************************************************************************)
(* The two steps that change the table.                                    *)
(***************************************************************************)

Created(name) ==
  /\ name \in Seq(Chars) /\ Matches(name) = {} /\ Unused # {}
  /\ storage' = [storage EXCEPT ![Lowest(Unused)] = NewEntry(name, @)]

Wrote(name, buffer) ==
  /\ buffer \in Seq(Bytes) /\ Len(buffer) <= FS_MAX_SIZE /\ Matches(name) # {}
  /\ storage' = [storage EXCEPT ![Lowest(Matches(name))] = Written(@, buffer)]

\* Only a successful create or write changes the table.
LEMMA StorageSteps ==
  ASSUME [Next]_vars
  PROVE  \/ UNCHANGED storage
         \/ \E name \in Names : Created(name)
         \/ \E name \in Names, buffer \in Contents : Wrote(name, buffer)
<1>1. \A name \in Names : frodfs_create(name) => UNCHANGED storage \/ Created(name)
  BY FrodFSAssumption DEF frodfs_create, Fail, Created
<1>2. \A name \in Names, buffer \in Contents :
        frodfs_write(name, buffer) => UNCHANGED storage \/ Wrote(name, buffer)
  BY FrodFSAssumption DEF frodfs_write, GoodWrite, Fail, Wrote
<1>3. \A name \in Names, max \in Maxes : frodfs_read(name, max) => UNCHANGED storage
  BY DEF frodfs_read, Fail
<1>4. \A max \in Maxes : frodfs_list(max) => UNCHANGED storage
  BY DEF frodfs_list, Fail
<1>5. QED
  BY <1>1, <1>2, <1>3, <1>4 DEF Next, vars

\* A search that finds anything finds the first.
LEMMA LowestIsFirst ==
  ASSUME NEW S \in SUBSET Slots, S # {}
  PROVE  Lowest(S) \in S /\ \A j \in S : Lowest(S) <= j
<1>1. S \in SUBSET Nat
  BY DEF Slots
<1>2. PICK i \in S : \A j \in S : <<j, i>> \notin OpToRel(<, Nat)
  BY <1>1, NatLessThanWellFounded, WFMin
<1>3. \A j \in S : i <= j
  <2> SUFFICES ASSUME NEW j \in S PROVE i <= j
    OBVIOUS
  <2>1. i \in Nat /\ j \in Nat
    BY <1>1
  <2>2. j < i => <<j, i>> \in OpToRel(<, Nat)
    BY <2>1 DEF OpToRel
  <2>3. ~(j < i)
    BY <1>2, <2>2, Zenon
  <2>4. QED
    BY <2>1, <2>3
<1>4. QED
  BY <1>3 DEF Lowest

\* What fs_strncpy keeps of a name.
LEMMA ClipProperties ==
  ASSUME NEW name \in Seq(Chars)
  PROVE  /\ Clip(name) \in Seq(Chars)
         /\ Len(Clip(name)) < FS_MAX_NAME
         /\ Clip(name) = name \/ Len(Clip(name)) = FS_MAX_NAME - 1
<1>1. FS_MAX_NAME \in Nat \ {0} /\ Len(name) \in Nat
  BY FrodFSAssumption
<1>2. CASE Len(name) < FS_MAX_NAME
  BY <1>2 DEF Clip
<1>3. CASE Len(name) >= FS_MAX_NAME
  <2>1. Clip(name) = SubSeq(name, 1, FS_MAX_NAME - 1)
    BY <1>1, <1>3 DEF Clip
  <2>2. Clip(name) \in Seq(Chars) /\ Len(Clip(name)) = FS_MAX_NAME - 1
    BY <1>1, <1>3, <2>1
  <2>3. QED
    BY <1>1, <2>2
<1>4. QED
  BY <1>1, <1>2, <1>3

(***************************************************************************)
(* Type correctness.                                                       *)
(***************************************************************************)

\* The entry frodfs_create puts into a slot: the clipped name, empty.
LEMMA NewEntryType ==
  ASSUME NEW name \in Seq(Chars), NEW old \in Entry
  PROVE  /\ NewEntry(name, old) \in Entry
         /\ NewEntry(name, old).name = Clip(name)
         /\ NewEntry(name, old).size = 0
         /\ NewEntry(name, old).used
<1>1. Clip(name) \in Seq(Chars) /\ 0 \in 0 .. FS_MAX_SIZE
  BY ClipProperties, FrodFSAssumption
<1> DEFINE short == Clip(name)
<1>2. NewEntry(name, old) = [old EXCEPT !.name = short, !.size = 0, !.used = TRUE]
  BY DEF NewEntry
<1> HIDE DEF short
<1>3. short \in Seq(Chars)
  BY <1>1 DEF short
<1>4. /\ NewEntry(name, old) \in Entry /\ NewEntry(name, old).name = short
      /\ NewEntry(name, old).size = 0 /\ NewEntry(name, old).used
  BY <1>1, <1>2, <1>3 DEF Entry
<1>5. QED
  BY <1>4 DEF short

\* The entry frodfs_write leaves in a slot: the name stays, the size fits.
LEMMA WrittenType ==
  ASSUME NEW old \in Entry, NEW buffer \in Seq(Bytes), Len(buffer) <= FS_MAX_SIZE
  PROVE  /\ Written(old, buffer) \in Entry
         /\ Written(old, buffer).name = old.name
         /\ Written(old, buffer).used = old.used
<1> DEFINE bytes == [j \in Offsets |-> IF j < Len(buffer) THEN buffer[j + 1] ELSE old.data[j]]
<1>1. FS_MAX_SIZE \in Nat /\ Len(buffer) \in 0 .. FS_MAX_SIZE
  BY FrodFSAssumption
<1>2. \A j \in Offsets : j < Len(buffer) => buffer[j + 1] \in Bytes
  BY <1>1 DEF Offsets
<1>3. \A j \in Offsets : old.data[j] \in Bytes
  BY DEF Entry
<1>4. bytes \in [Offsets -> Bytes]
  BY <1>2, <1>3
<1>5. Written(old, buffer) = [old EXCEPT !.data = bytes, !.size = Len(buffer)]
  BY DEF Written, NewSize, Entry
<1> HIDE DEF bytes
<1>6. QED
  BY <1>1, <1>4, <1>5 DEF Entry

\* A successful frodfs_create keeps the table's type.
LEMMA CreatedType ==
  ASSUME TypeOK, NEW name, Created(name)
  PROVE  TypeOK'
<1> DEFINE k == Lowest(Unused)
           new == NewEntry(name, storage[k])
<1>1. k \in Slots /\ storage[k] \in Entry
  BY LowestIsFirst DEF Created, Unused, TypeOK
<1>2. new \in Entry /\ new.name = Clip(name) /\ Len(Clip(name)) < FS_MAX_NAME
  BY <1>1, NewEntryType, ClipProperties DEF Created
<1>3. storage' = [storage EXCEPT ![k] = new]
  BY DEF Created
<1> HIDE DEF k, new
<1>4. QED
  BY <1>1, <1>2, <1>3 DEF TypeOK

\* A successful frodfs_write keeps the table's type.
LEMMA WroteType ==
  ASSUME TypeOK, NEW name, NEW buffer, Wrote(name, buffer)
  PROVE  TypeOK'
<1> DEFINE k == Lowest(Matches(name))
           new == Written(storage[k], buffer)
<1>1. k \in Slots /\ storage[k] \in Entry /\ Len(storage[k].name) < FS_MAX_NAME
  BY LowestIsFirst DEF Wrote, Matches, TypeOK
<1>2. new \in Entry /\ new.name = storage[k].name
  BY <1>1, WrittenType DEF Wrote
<1>3. storage' = [storage EXCEPT ![k] = new]
  BY DEF Wrote
<1> HIDE DEF k, new
<1>4. QED
  BY <1>1, <1>2, <1>3 DEF TypeOK

\* Names always leave room for their NUL, sizes never exceed their buffers.
THEOREM TypeCorrect == Spec => []TypeOK
<1>1. Init => TypeOK
  BY FrodFSAssumption DEF Init, frodfs_init, TypeOK, Entry
<1>2. TypeOK /\ [Next]_vars => TypeOK'
  <2> SUFFICES ASSUME TypeOK, [Next]_vars PROVE TypeOK'
    OBVIOUS
  <2>1. CASE UNCHANGED storage
    BY <2>1 DEF TypeOK
  <2>2. QED
    BY <2>1, StorageSteps, CreatedType, WroteType
<1>3. QED
  BY <1>1, <1>2, PTL DEF Spec

(***************************************************************************)
(* The inductive invariant: the entries in use are the first ones, since   *)
(* nothing is ever deleted, so a new entry is behind every other.          *)
(***************************************************************************)

UsedComeFirst ==
  \A i, j \in Slots : i < j /\ storage[j].used => storage[i].used

IInv ==
  TypeOK /\ UsedComeFirst /\ OnlyClippedNamesCollide /\ ShadowedEntriesStayEmpty

\* frodfs_create fills the first unused slot, so the new entry can only be the
\* shadowed one of a pair, and it is empty.
LEMMA CreatedInv ==
  ASSUME IInv, NEW name, Created(name)
  PROVE  UsedComeFirst' /\ OnlyClippedNamesCollide' /\ ShadowedEntriesStayEmpty'
<1> DEFINE k == Lowest(Unused)
<1>1. k \in Slots /\ ~storage[k].used /\ \A j \in Slots : ~storage[j].used => k <= j
  BY LowestIsFirst DEF Created, Unused
<1>2. storage' = [storage EXCEPT ![k] = NewEntry(name, storage[k])]
  BY DEF Created
<1> HIDE DEF k
<1>3. /\ storage'[k].used /\ storage'[k].size = 0 /\ storage'[k].name = Clip(name)
      /\ \A j \in Slots : j # k => storage'[j] = storage[j]
  BY <1>1, <1>2 DEF NewEntry, IInv, TypeOK, Entry
<1>4. \A j \in Slots : j < k => storage[j].used
  BY <1>1 DEF Slots
<1>5. \A j \in Slots : j > k => ~storage[j].used
  BY <1>1 DEF IInv, UsedComeFirst
<1>6. \A j \in Slots : storage[j].used /\ storage[j].name = Clip(name)
                         => Len(Clip(name)) = FS_MAX_NAME - 1
  BY ClipProperties DEF Created, Matches
<1>7. UsedComeFirst'
  BY <1>1, <1>3, <1>4, <1>5 DEF UsedComeFirst, Slots
<1>8. OnlyClippedNamesCollide'
  BY <1>1, <1>3, <1>6 DEF IInv, OnlyClippedNamesCollide
<1>9. ShadowedEntriesStayEmpty'
  BY <1>1, <1>3, <1>5 DEF IInv, ShadowedEntriesStayEmpty, Slots
<1>10. QED
  BY <1>7, <1>8, <1>9

\* frodfs_write changes the first entry of its name, never a shadowed one.
LEMMA WroteInv ==
  ASSUME IInv, NEW name, NEW buffer, Wrote(name, buffer)
  PROVE  UsedComeFirst' /\ OnlyClippedNamesCollide' /\ ShadowedEntriesStayEmpty'
<1> DEFINE k == Lowest(Matches(name))
<1>1. /\ k \in Slots /\ storage[k].used /\ storage[k].name = name
      /\ \A j \in Slots : storage[j].used /\ storage[j].name = name => k <= j
  BY LowestIsFirst DEF Wrote, Matches
<1>2. storage' = [storage EXCEPT ![k] = Written(storage[k], buffer)]
  BY DEF Wrote
<1> HIDE DEF k
<1>3. /\ storage'[k].used = storage[k].used /\ storage'[k].name = storage[k].name
      /\ \A j \in Slots : j # k => storage'[j] = storage[j]
  BY <1>1, <1>2 DEF Written, NewSize, IInv, TypeOK, Entry
<1>4. \A j \in Slots : storage'[j].used = storage[j].used /\ storage'[j].name = storage[j].name
  BY <1>3
<1>5. UsedComeFirst' /\ OnlyClippedNamesCollide'
  BY <1>4 DEF IInv, UsedComeFirst, OnlyClippedNamesCollide
<1>6. ShadowedEntriesStayEmpty'
  <2> SUFFICES ASSUME NEW i \in Slots, NEW j \in Slots, i < j,
                      storage[i].used, storage[j].used, storage[i].name = storage[j].name
               PROVE  storage'[j].size = 0
    BY <1>4 DEF ShadowedEntriesStayEmpty
  <2>1. storage[j].size = 0
    BY DEF IInv, ShadowedEntriesStayEmpty
  <2>2. j # k
    BY <1>1 DEF Slots
  <2>3. QED
    BY <1>3, <2>1, <2>2
<1>7. QED
  BY <1>5, <1>6

\* The inductive invariant: creates fill the table from the front (no entry is
\* ever removed), so what shadows what never changes.
THEOREM Invariance == Spec => []IInv
<1>1. Init => IInv
  <2>1. Init => TypeOK
    BY FrodFSAssumption DEF Init, frodfs_init, TypeOK, Entry
  <2>2. Init => \A i \in Slots : ~storage[i].used
    BY DEF Init, frodfs_init
  <2>3. QED
    BY <2>1, <2>2 DEF IInv, UsedComeFirst, OnlyClippedNamesCollide, ShadowedEntriesStayEmpty
<1>2. IInv /\ [Next]_vars => IInv'
  <2> SUFFICES ASSUME IInv, [Next]_vars PROVE IInv'
    OBVIOUS
  <2>1. CASE UNCHANGED storage
    BY <2>1 DEF IInv, TypeOK, UsedComeFirst, OnlyClippedNamesCollide,
                ShadowedEntriesStayEmpty
  <2>2. ASSUME NEW name \in Names, Created(name) PROVE IInv'
    BY <2>2, CreatedType, CreatedInv DEF IInv
  <2>3. ASSUME NEW name \in Names, NEW buffer \in Contents, Wrote(name, buffer) PROVE IInv'
    BY <2>3, WroteType, WroteInv DEF IInv
  <2>4. QED
    BY <2>1, <2>2, <2>3, StorageSteps
<1>3. QED
  BY <1>1, <1>2, PTL DEF Spec

\* The check that a file already exists misses nothing but clipped names.
THEOREM CollisionsAreClipped == Spec => []OnlyClippedNamesCollide
BY Invariance, PTL DEF IInv

\* An entry behind another of the same name stays empty for good.
THEOREM ShadowsAreEmpty == Spec => []ShadowedEntriesStayEmpty
BY Invariance, PTL DEF IInv

(***************************************************************************)
(* The loop of frodfs_list.                                                *)
(***************************************************************************)

\* What a minimal counterexample rests on.
LEMMA Least ==
  ASSUME NEW S \in SUBSET Nat, S # {}
  PROVE  \E i \in S : \A j \in S : i <= j
<1>1. PICK i \in S : \A j \in S : <<j, i>> \notin OpToRel(<, Nat)
  BY NatLessThanWellFounded, WFMin
<1>2. ASSUME NEW j \in S PROVE i <= j
  <2>1. i \in Nat /\ j \in Nat
    OBVIOUS
  <2>2. j < i => <<j, i>> \in OpToRel(<, Nat)
    BY <2>1 DEF OpToRel
  <2>3. ~(j < i)
    BY <1>1, <2>2, Zenon
  <2>4. QED
    BY <2>1, <2>3
<1>3. QED
  BY <1>2

Nothing == [names |-> <<>>, idx |-> 0, broke |-> FALSE]

\* The function that Listing builds.
LoopOf(max, loop) ==
  [i \in 0 .. FS_MAX_FILES |-> IF i = 0 THEN [names |-> <<>>, idx |-> 0, broke |-> FALSE]
                               ELSE ListEntry(loop[i - 1], storage[i - 1], max)]
Loop(max) == CHOOSE loop : loop = LoopOf(max, loop)

\* The recursion is well founded, so the function is what its equation says.
LEMMA LoopExists ==
  ASSUME NEW max
  PROVE  /\ Loop(max)[0] = Nothing
         /\ \A i \in 1 .. FS_MAX_FILES :
              Loop(max)[i] = ListEntry(Loop(max)[i - 1], storage[i - 1], max)
         /\ Listing(max) = Loop(max)[FS_MAX_FILES]
<1> DEFINE Step(loop, i) == IF i = 0 THEN Nothing ELSE ListEntry(loop[i - 1], storage[i - 1], max)
           Upto(m, loop) == loop = [i \in 0 .. m |-> Step(loop, i)]
           Missing == {m \in Nat : ~ \E loop : Upto(m, loop)}
<1>0. FS_MAX_FILES \in Nat
  BY FrodFSAssumption
<1>1. Missing = {}
  <2> SUFFICES ASSUME Missing # {} PROVE FALSE
    OBVIOUS
  <2>1. PICK m \in Missing : \A j \in Missing : m <= j
    BY Least
  <2>2. m \in Nat /\ ~ \E loop : Upto(m, loop)
    BY <2>1
  <2> HIDE DEF Missing
  <2>3. CASE m = 0
    <3>1. Upto(0, [i \in 0 .. 0 |-> Nothing])
      OBVIOUS
    <3>2. QED
      BY <2>2, <2>3, <3>1
  <2>4. CASE m # 0
    <3>1. m - 1 \in Nat /\ m - 1 \notin Missing
      BY <2>1, <2>2, <2>4
    <3>2. \E loop : Upto(m - 1, loop)
      BY <3>1 DEF Missing
    <3>3. PICK loop : loop = [i \in 0 .. m - 1 |-> Step(loop, i)]
      BY <3>2
    <3> DEFINE longer == [i \in 0 .. m |-> IF i = m THEN Step(loop, m) ELSE loop[i]]
    <3>4. \A i \in 0 .. m - 1 : longer[i] = loop[i]
      BY <2>2, <3>1
    <3>5. ASSUME NEW i \in 0 .. m PROVE longer[i] = Step(longer, i)
      <4>1. i # 0 => longer[i - 1] = loop[i - 1]
        BY <2>2, <3>1, <3>4
      <4>2. longer[i] = Step(loop, i)
        <5>1. CASE i = m
          BY <5>1
        <5>2. CASE i # m
          <6>1. i \in 0 .. m - 1
            BY <2>2, <3>1, <5>2
          <6>2. loop[i] = Step(loop, i)
            BY <3>3, <6>1, Zenon
          <6>3. QED
            BY <3>4, <6>1, <6>2
        <5>3. QED
          BY <5>1, <5>2
      <4> HIDE DEF longer
      <4>3. QED
        BY <4>1, <4>2
    <3>6. longer = [i \in 0 .. m |-> longer[i]]
      OBVIOUS
    <3> HIDE DEF longer
    <3>7. longer = [i \in 0 .. m |-> Step(longer, i)]
      BY <3>5, <3>6, Zenon
    <3>8. QED
      BY <2>2, <3>7
  <2>5. QED
    BY <2>3, <2>4
<1>2. \E loop : loop = LoopOf(max, loop)
  <2>1. FS_MAX_FILES \notin Missing
    BY <1>1
  <2>2. \E loop : Upto(FS_MAX_FILES, loop)
    BY <1>0, <2>1
  <2>3. QED
    BY <2>2 DEF LoopOf, Nothing
<1>3. Loop(max) = LoopOf(max, Loop(max))
  BY <1>2, Zenon DEF Loop
<1>4. \A i \in 0 .. FS_MAX_FILES : Loop(max)[i] = Step(Loop(max), i)
  BY <1>3, Zenon DEF LoopOf, Nothing
<1>5. 0 \in 0 .. FS_MAX_FILES /\ \A i \in 1 .. FS_MAX_FILES : i \in 0 .. FS_MAX_FILES /\ i # 0
  BY <1>0
<1>6. Listing(max) = Loop(max)[FS_MAX_FILES]
  BY DEF Listing, Loop, LoopOf
<1>7. QED
  BY <1>4, <1>5, <1>6, Zenon

Progress == [names : Seq(Seq(Chars)), idx : Nat, broke : BOOLEAN]

\* After the first i slots: the room taken, the names copied out, and, unless the
\* loop broke off, every name in use at the position of its slot.
RoomTaken(max, i, s) ==
  /\ s.idx + 1 <= max
  /\ s.idx <= i * FS_MAX_NAME
  /\ max >= ListRoom => ~s.broke

ShowsNames(i, s) ==
  /\ Len(s.names) <= i
  /\ \A p \in 1 .. Len(s.names) : s.names[p] \in Reachable
  /\ ~s.broke =>
       /\ \A j \in 0 .. i - 1 : storage[j].used =>
            j + 1 \in 1 .. Len(s.names) /\ s.names[j + 1] = storage[j].name
       /\ (i = 0 \/ storage[i - 1].used) => Len(s.names) = i

\* One turn of the loop.
LEMMA ListEntryStep ==
  ASSUME IInv, NEW max \in Nat \ {0}, NEW i \in 1 .. FS_MAX_FILES, NEW s \in Progress,
         RoomTaken(max, i - 1, s), ShowsNames(i - 1, s)
  PROVE  LET t == ListEntry(s, storage[i - 1], max)
         IN  t \in Progress /\ RoomTaken(max, i, t) /\ ShowsNames(i, t)
<1> DEFINE t == ListEntry(s, storage[i - 1], max)
           name == storage[i - 1].name
           len == Len(name)
<1>1. FS_MAX_FILES \in Nat /\ FS_MAX_NAME \in Nat \ {0}
  BY FrodFSAssumption
<1>2. /\ i - 1 \in Slots /\ name \in Seq(Chars) /\ storage[i - 1].used \in BOOLEAN
      /\ len \in Nat /\ len < FS_MAX_NAME
  <2>1. i - 1 \in Slots
    BY <1>1 DEF Slots
  <2>2. storage[i - 1] \in Entry /\ len < FS_MAX_NAME
    BY <2>1 DEF IInv, TypeOK
  <2>3. QED
    BY <2>1, <2>2, LenProperties DEF Entry
<1>3. s.idx \in Nat /\ s.names \in Seq(Seq(Chars)) /\ s.broke \in BOOLEAN
  BY DEF Progress
<1>4. PICK before \in Nat : before = (i - 1) * FS_MAX_NAME
  BY <1>1
<1>5. i * FS_MAX_NAME = before + FS_MAX_NAME /\ before + FS_MAX_NAME <= FS_MAX_FILES * FS_MAX_NAME
  <2>1. PICK d \in Nat : FS_MAX_FILES = i + d
    <3>1. FS_MAX_FILES - i \in Nat /\ FS_MAX_FILES = i + (FS_MAX_FILES - i)
      BY <1>1
    <3>2. QED
      BY <3>1
  <2>2. i * FS_MAX_NAME = before + FS_MAX_NAME
    BY <1>1, <1>4
  <2>3. FS_MAX_FILES * FS_MAX_NAME = i * FS_MAX_NAME + d * FS_MAX_NAME /\ d * FS_MAX_NAME >= 0
    BY <1>1, <2>1
  <2>4. QED
    BY <1>1, <2>2, <2>3
<1>6. s.idx <= before
  BY <1>4 DEF RoomTaken
<1> HIDE DEF name, len
<1>7. CASE s.broke \/ ~storage[i - 1].used
  <2>1. t = s
    BY <1>7 DEF ListEntry
  <2>2. RoomTaken(max, i, s)
    BY <1>1, <1>3, <1>4, <1>5, <1>6 DEF RoomTaken
  <2>3. ShowsNames(i, s)
    <3>1. Len(s.names) \in Nat
      BY <1>3, LenProperties
    <3>2. Len(s.names) <= i
      BY <3>1 DEF ShowsNames
    <3>3. \A j \in 0 .. i - 1 : j \in 0 .. (i - 1) - 1 \/ j = i - 1
      OBVIOUS
    <3>4. QED
      BY <1>7, <3>2, <3>3 DEF ShowsNames
  <2>4. QED
    BY <2>1, <2>2, <2>3
<1>8. CASE ~(s.broke \/ ~storage[i - 1].used) /\ ~Fits(s.idx, len, max)
  <2>1. t = [s EXCEPT !.broke = TRUE]
    BY <1>8 DEF ListEntry, len, name
  <2>2. t \in Progress /\ t.names = s.names /\ t.idx = s.idx /\ t.broke = TRUE
    BY <2>1 DEF Progress
  <2>3. max < ListRoom
    BY <1>1, <1>2, <1>3, <1>5, <1>6, <1>8 DEF Fits, ListRoom
  <2>4. RoomTaken(max, i, t)
    BY <1>1, <1>3, <1>5, <1>6, <2>2, <2>3 DEF RoomTaken, ListRoom
  <2>5. ShowsNames(i, t)
    <3>1. Len(s.names) \in Nat /\ Len(s.names) <= i - 1
      BY <1>3, LenProperties DEF ShowsNames
    <3>2. QED
      BY <2>2, <3>1 DEF ShowsNames
  <2>6. QED
    BY <2>2, <2>4, <2>5
<1>9. CASE ~(s.broke \/ ~storage[i - 1].used) /\ Fits(s.idx, len, max)
  <2>1. t = [s EXCEPT !.names = Append(s.names, name), !.idx = s.idx + len + 1]
    BY <1>9 DEF ListEntry, len, name
  <2>2. PICK n \in Nat : n = Len(s.names)
    BY <1>3, LenProperties
  <2>3. /\ Append(s.names, name) \in Seq(Seq(Chars)) /\ Len(Append(s.names, name)) = n + 1
        /\ \A p \in 1 .. n : Append(s.names, name)[p] = s.names[p]
        /\ Append(s.names, name)[n + 1] = name
    BY <1>2, <1>3, <2>2, AppendProperties
  <2>4. /\ t \in Progress /\ t.names = Append(s.names, name) /\ t.idx = s.idx + len + 1
        /\ t.broke = FALSE
    <3>1. PICK longer \in Seq(Seq(Chars)) : longer = Append(s.names, name)
      BY <2>3
    <3>2. PICK room \in Nat : room = s.idx + len + 1
      BY <1>2, <1>3
    <3>3. t = [s EXCEPT !.names = longer, !.idx = room]
      BY <2>1, <3>1, <3>2
    <3> HIDE DEF t
    <3>4. t \in Progress /\ t.names = longer /\ t.idx = room /\ t.broke = s.broke
      BY <3>3 DEF Progress
    <3>5. QED
      BY <1>3, <1>9, <3>1, <3>2, <3>4
  <2>5. RoomTaken(max, i, t)
    <3>1. t.idx + 1 <= max /\ t.idx <= before + FS_MAX_NAME
      BY <1>1, <1>2, <1>3, <1>6, <1>9, <2>4 DEF Fits
    <3>2. QED
      BY <1>5, <2>4, <3>1 DEF RoomTaken
  <2>6. n = i - 1
    <3>1. CASE i - 1 = 0
      BY <1>9, <2>2, <3>1 DEF ShowsNames
    <3>2. CASE i - 1 # 0
      <4>1. (i - 1) - 1 \in Slots /\ (i - 1) - 1 < i - 1
        BY <1>1, <3>2 DEF Slots
      <4>2. storage[(i - 1) - 1].used
        BY <1>2, <1>9, <4>1 DEF IInv, UsedComeFirst
      <4>3. QED
        BY <1>9, <2>2, <4>2 DEF ShowsNames
    <3>3. QED
      BY <3>1, <3>2
  <2>7. name \in Reachable
    BY <1>2, <1>9 DEF Reachable, name
  <2>8. \A p \in 1 .. n + 1 : t.names[p] \in Reachable
    BY <2>2, <2>3, <2>4, <2>7 DEF ShowsNames
  <2>9. ASSUME NEW j \in 0 .. i - 1, storage[j].used
        PROVE  j + 1 \in 1 .. n + 1 /\ t.names[j + 1] = storage[j].name
    <3>1. CASE j = i - 1
      BY <2>3, <2>4, <2>6, <3>1 DEF name
    <3>2. CASE j # i - 1
      <4>1. j \in 0 .. (i - 1) - 1
        BY <3>2
      <4>2. j + 1 \in 1 .. n /\ s.names[j + 1] = storage[j].name
        BY <1>9, <2>2, <2>9, <4>1 DEF ShowsNames
      <4>3. QED
        BY <2>2, <2>3, <2>4, <4>2
    <3>3. QED
      BY <3>1, <3>2
  <2>10. ShowsNames(i, t)
    BY <2>3, <2>4, <2>6, <2>8, <2>9 DEF ShowsNames
  <2>11. QED
    BY <2>4, <2>5, <2>10
<1>10. QED
  BY <1>7, <1>8, <1>9

\* So at its end.
LEMMA ListingShows ==
  ASSUME IInv, NEW max \in Nat \ {0}
  PROVE  /\ Listing(max) \in Progress
         /\ RoomTaken(max, FS_MAX_FILES, Listing(max)) /\ ShowsNames(FS_MAX_FILES, Listing(max))
<1> DEFINE loop == Loop(max)
           Right(i) == loop[i] \in Progress /\ RoomTaken(max, i, loop[i]) /\ ShowsNames(i, loop[i])
           Bad == {i \in Nat : i <= FS_MAX_FILES /\ ~ Right(i)}
<1>0. FS_MAX_FILES \in Nat /\ FS_MAX_NAME \in Nat
  BY FrodFSAssumption
<1> HIDE DEF loop
<1>1. Right(0)
  <2>1. loop[0] = Nothing
    BY LoopExists DEF loop
  <2>2. Nothing \in Progress
    BY EmptySeq DEF Nothing, Progress
  <2>3. RoomTaken(max, 0, Nothing)
    BY <1>0 DEF RoomTaken, Nothing
  <2>4. Nothing.names = <<>> /\ Len(<<>>) = 0
    BY DEF Nothing
  <2>5. ShowsNames(0, Nothing)
    BY <2>4 DEF ShowsNames
  <2>6. QED
    BY <2>1, <2>2, <2>3, <2>5
<1>2. Bad = {}
  <2> SUFFICES ASSUME Bad # {} PROVE FALSE
    OBVIOUS
  <2> HIDE DEF Right
  <2>1. PICK i \in Bad : \A j \in Bad : i <= j
    BY Least
  <2>2. i \in Nat /\ i <= FS_MAX_FILES /\ ~ Right(i)
    BY <2>1
  <2>3. i # 0
    BY <1>1, <2>2
  <2>4. i \in 1 .. FS_MAX_FILES /\ i - 1 \in Nat /\ i - 1 <= FS_MAX_FILES
    BY <1>0, <2>2, <2>3
  <2>5. i - 1 \notin Bad
    <3> HIDE DEF Bad
    <3>1. QED
      BY <2>1, <2>2, <2>4
  <2>6. Right(i - 1)
    BY <2>4, <2>5
  <2>7. loop[i] = ListEntry(loop[i - 1], storage[i - 1], max)
    BY <2>4, LoopExists DEF loop
  <2>8. Right(i)
    BY <2>4, <2>6, <2>7, ListEntryStep DEF Right
  <2>9. QED
    BY <2>2, <2>8
<1>3. Right(FS_MAX_FILES)
  <2> HIDE DEF Right
  <2>1. FS_MAX_FILES <= FS_MAX_FILES
    BY <1>0
  <2>2. QED
    BY <1>0, <1>2, <2>1
<1>4. Listing(max) = loop[FS_MAX_FILES]
  BY LoopExists DEF loop
<1>5. QED
  BY <1>3, <1>4

\* frodfs_list never writes past the caller's buffer, its final NUL included.
THEOREM ListFitsBuffer == Spec => []ListStaysInBuffer
<1>1. IInv => ListStaysInBuffer
  BY ListingShows, FrodFSAssumption DEF ListStaysInBuffer, RoomTaken
<1>2. QED
  BY <1>1, Invariance, PTL

\* A buffer with room for a full table of the longest names gets every entry.
THEOREM ListShowsAll == Spec => []ListIsComplete
<1>1. IInv => ListIsComplete
  <2> SUFFICES ASSUME IInv, NEW max \in Maxes, max >= ListRoom, NEW n
               PROVE  \E f \in [Matches(n) -> DOMAIN Listing(max).names] :
                        /\ \A i \in Matches(n) : Listing(max).names[f[i]] = n
                        /\ \A i, j \in Matches(n) : i # j => f[i] # f[j]
    BY DEF ListIsComplete
  <2> DEFINE names == Listing(max).names
  <2>1. max \in Nat \ {0}
    <3>1. FS_MAX_FILES \in Nat /\ FS_MAX_NAME \in Nat /\ max \in Nat
      BY FrodFSAssumption
    <3>2. FS_MAX_FILES * FS_MAX_NAME \in Nat
      BY <3>1
    <3>3. QED
      BY <3>1, <3>2 DEF ListRoom
  <2>2. /\ names \in Seq(Seq(Chars))
        /\ \A j \in 0 .. FS_MAX_FILES - 1 : storage[j].used =>
             j + 1 \in 1 .. Len(names) /\ names[j + 1] = storage[j].name
    <3>1. Listing(max) \in Progress /\ ~Listing(max).broke
      BY <2>1, ListingShows DEF RoomTaken
    <3>2. QED
      BY <2>1, <3>1, ListingShows DEF ShowsNames, Progress
  <2> HIDE DEF names
  <2>3. DOMAIN names = 1 .. Len(names)
    BY <2>2, LenProperties
  <2>4. \A i \in Matches(n) : i + 1 \in DOMAIN names /\ names[i + 1] = n
    BY <2>2, <2>3 DEF Matches, Slots
  <2>5. [i \in Matches(n) |-> i + 1] \in [Matches(n) -> DOMAIN names]
    BY <2>4
  <2>6. \A i, j \in Matches(n) : i # j => i + 1 # j + 1
    BY DEF Matches, Slots
  <2>7. QED
    BY <2>4, <2>5, <2>6 DEF names
<1>2. QED
  BY <1>1, Invariance, PTL

(***************************************************************************)
(* FrodFS implements FileStore.                                            *)
(***************************************************************************)

Files == [n \in Reachable |-> Content(storage[Lowest(Matches(n))])]
Spare == Cardinality(Unused)

\* A name can be reached when some entry in use bears it; the first one answers.
LEMMA ReachableNames ==
  ASSUME IInv
  PROVE  /\ DOMAIN Files = Reachable /\ Reachable \subseteq Seq(Chars)
         /\ \A n : n \in Reachable <=> Matches(n) # {}
         /\ \A n \in Reachable :
              LET k == Lowest(Matches(n))
              IN  /\ k \in Slots /\ storage[k].used /\ storage[k].name = n /\ storage[k] \in Entry
                  /\ Files[n] = Content(storage[k])
                  /\ \A j \in Slots : storage[j].used /\ storage[j].name = n => k <= j
<1>1. \A n : n \in Reachable <=> Matches(n) # {}
  BY DEF Reachable, Matches
<1>2. Reachable \subseteq Seq(Chars)
  BY DEF Reachable, IInv, TypeOK, Entry
<1>3. ASSUME NEW n \in Reachable
      PROVE  LET k == Lowest(Matches(n))
             IN  /\ k \in Slots /\ storage[k].used /\ storage[k].name = n /\ storage[k] \in Entry
                 /\ Files[n] = Content(storage[k])
                 /\ \A j \in Slots : storage[j].used /\ storage[j].name = n => k <= j
  <2> DEFINE k == Lowest(Matches(n))
  <2>1. Matches(n) \in SUBSET Slots /\ Matches(n) # {}
    BY <1>1 DEF Matches
  <2>2. k \in Matches(n) /\ \A j \in Matches(n) : k <= j
    BY <2>1, LowestIsFirst
  <2>3. Files[n] = Content(storage[k])
    BY DEF Files
  <2> HIDE DEF k
  <2>4. k \in Slots /\ storage[k].used /\ storage[k].name = n
    BY <2>2 DEF Matches
  <2>5. \A j \in Slots : storage[j].used /\ storage[j].name = n => k <= j
    BY <2>2 DEF Matches
  <2>6. storage[k] \in Entry
    BY <2>4 DEF IInv, TypeOK
  <2>7. QED
    BY <2>3, <2>4, <2>5, <2>6 DEF k
<1>4. QED
  BY <1>1, <1>2, <1>3 DEF Files

\* The bytes a reader gets.
LEMMA ContentBytes ==
  ASSUME NEW entry \in Entry
  PROVE  /\ Content(entry) \in Seq(Bytes) /\ Len(Content(entry)) = entry.size
         /\ entry.size \in Nat
         /\ entry.size = 0 => Content(entry) = <<>>
         /\ \A j \in 1 .. entry.size : Content(entry)[j] = entry.data[j - 1]
<1>1. FS_MAX_SIZE \in Nat /\ entry.size \in 0 .. FS_MAX_SIZE /\ entry.data \in [Offsets -> Bytes]
  BY FrodFSAssumption DEF Entry
<1>2. \A j \in 1 .. entry.size : entry.data[j - 1] \in Bytes
  <2>1. \A j \in 1 .. entry.size : j - 1 \in Offsets
    BY <1>1 DEF Offsets
  <2>2. QED
    BY <1>1, <2>1
<1>3. Content(entry) \in [1 .. entry.size -> Bytes]
  BY <1>2 DEF Content
<1>4. Content(entry) \in Seq(Bytes) /\ Len(Content(entry)) = entry.size
  BY <1>1, <1>3
<1>5. entry.size = 0 => Content(entry) = <<>>
  BY <1>4, EmptySeq
<1>6. QED
  BY <1>1, <1>4, <1>5 DEF Content

\* After a write, those of the buffer.
LEMMA ContentWritten ==
  ASSUME NEW old \in Entry, NEW buffer \in Seq(Bytes), Len(buffer) <= FS_MAX_SIZE
  PROVE  Content(Written(old, buffer)) = buffer
<1> DEFINE new == Written(old, buffer)
           bytes == [j \in Offsets |-> IF j < Len(buffer) THEN buffer[j + 1] ELSE old.data[j]]
<1>1. FS_MAX_SIZE \in Nat /\ Len(buffer) \in Nat
  BY FrodFSAssumption, LenProperties
<1>2. new \in Entry
  BY WrittenType
<1>3. new = [old EXCEPT !.data = bytes, !.size = Len(buffer)]
  BY DEF Written, NewSize, Entry
<1> HIDE DEF new
<1>4. new.size = Len(buffer) /\ \A j \in Offsets : new.data[j] = bytes[j]
  <2> HIDE DEF bytes
  <2>1. QED
    BY <1>3 DEF Entry
<1>5. ASSUME NEW j \in 1 .. Len(buffer) PROVE new.data[j - 1] = buffer[j]
  <2>1. j - 1 \in Offsets /\ j - 1 < Len(buffer) /\ (j - 1) + 1 = j
    BY <1>1 DEF Offsets
  <2>2. QED
    BY <1>4, <2>1
<1>6. /\ Content(new) \in Seq(Bytes) /\ Len(Content(new)) = Len(buffer)
      /\ \A j \in 1 .. Len(Content(new)) : Content(new)[j] = buffer[j]
  BY <1>2, <1>4, <1>5, ContentBytes
<1>7. Content(new) = buffer
  BY <1>6, SeqEqual
<1>8. QED
  BY <1>7 DEF new

\* frodfs_create adds its clipped name with no content, or, where that name is
\* taken, an entry nobody reaches.
LEMMA CreatedMaps ==
  ASSUME IInv, NEW name, Created(name)
  PROVE  /\ Spare \in Nat /\ Spare > 0 /\ Spare' = Spare - 1
         /\ Files' = [n \in Reachable \cup {Clip(name)} |-> IF n \in Reachable THEN Files[n] ELSE <<>>]
<1> DEFINE k == Lowest(Unused)
           new == NewEntry(name, storage[k])
<1>1. k \in Slots /\ k \in Unused /\ \A j \in Slots : ~storage[j].used => k <= j
  BY LowestIsFirst DEF Created, Unused
<1>2. storage[k] \in Entry /\ ~storage[k].used /\ name \in Seq(Chars)
  BY <1>1 DEF IInv, TypeOK, Unused, Created
<1>3. new \in Entry /\ new.name = Clip(name) /\ new.size = 0 /\ new.used
  BY <1>2, NewEntryType
<1>4. storage' = [storage EXCEPT ![k] = new] /\ storage \in [Slots -> Entry]
  BY DEF Created, IInv, TypeOK
<1> HIDE DEF k, new
<1>5. storage'[k] = new /\ \A j \in Slots : j # k => storage'[j] = storage[j]
  BY <1>1, <1>4
<1>6. \A j \in Slots : storage[j].used => j < k
  BY <1>1, <1>2 DEF IInv, UsedComeFirst, Slots
<1>7. Spare \in Nat /\ Spare > 0 /\ Spare' = Spare - 1
  <2>1. Unused' = Unused \ {k}
    BY <1>1, <1>2, <1>3, <1>5 DEF Unused
  <2>2. IsFiniteSet(Slots)
    BY FrodFSAssumption, FS_Interval DEF Slots
  <2>3. IsFiniteSet(Unused)
    BY <2>2, FS_Subset DEF Unused
  <2>4. Cardinality(Unused) \in Nat /\ Cardinality(Unused) # 0
    BY <1>1, <2>3, FS_CardinalityType, FS_EmptySet
  <2>5. Cardinality(Unused \ {k}) = Cardinality(Unused) - 1
    BY <1>1, <2>3, FS_RemoveElement
  <2>6. QED
    BY <2>1, <2>4, <2>5 DEF Spare
<1>8. Reachable' = Reachable \cup {Clip(name)}
  <2>1. ASSUME NEW n, n \in Reachable PROVE n \in Reachable'
    <3>1. PICK j \in Slots : storage[j].used /\ n = storage[j].name
      BY <2>1 DEF Reachable
    <3>2. j # k
      BY <1>2, <3>1
    <3>3. QED
      BY <1>5, <3>1, <3>2 DEF Reachable
  <2>2. Clip(name) \in Reachable'
    BY <1>1, <1>3, <1>5 DEF Reachable
  <2>3. ASSUME NEW n, n \in Reachable' PROVE n \in Reachable \cup {Clip(name)}
    <3>1. PICK j \in Slots : storage'[j].used /\ n = storage'[j].name
      BY <2>3 DEF Reachable
    <3>2. CASE j = k
      BY <1>3, <1>5, <3>1, <3>2
    <3>3. CASE j # k
      BY <1>5, <3>1, <3>3 DEF Reachable
    <3>4. QED
      BY <3>2, <3>3
  <2>4. QED
    BY <2>1, <2>2, <2>3
<1>9. ASSUME NEW n \in Reachable PROVE Content(storage'[Lowest(Matches(n)')]) = Files[n]
  <2> DEFINE j == Lowest(Matches(n))
             l == Lowest(Matches(n)')
  <2>1. /\ j \in Slots /\ storage[j].used /\ storage[j].name = n
        /\ Files[n] = Content(storage[j])
        /\ \A i \in Slots : storage[i].used /\ storage[i].name = n => j <= i
    BY ReachableNames
  <2>2. j < k
    BY <1>6, <2>1
  <2>3. j \in Matches(n)'
    BY <1>5, <2>1, <2>2 DEF Matches, Slots
  <2>4. Matches(n)' \in SUBSET Slots /\ Matches(n)' # {}
    BY <2>3 DEF Matches
  <2>5. l \in Matches(n)' /\ \A i \in Matches(n)' : l <= i
    BY <2>4, LowestIsFirst
  <2>6. l \in Slots /\ l <= j
    BY <2>3, <2>4, <2>5
  <2>7. l # k
    BY <1>1, <2>1, <2>2, <2>6 DEF Slots
  <2>8. storage[l].used /\ storage[l].name = n
    BY <1>5, <2>5, <2>6, <2>7 DEF Matches
  <2>9. j <= l
    BY <2>1, <2>6, <2>8
  <2>10. l = j
    BY <2>1, <2>6, <2>9 DEF Slots
  <2>11. QED
    BY <1>5, <2>1, <2>7, <2>10
<1>10. ASSUME Clip(name) \notin Reachable PROVE Content(storage'[Lowest(Matches(Clip(name))')]) = <<>>
  <2> DEFINE l == Lowest(Matches(Clip(name))')
  <2>1. \A j \in Slots : storage[j].used => storage[j].name # Clip(name)
    BY <1>10 DEF Reachable
  <2>2. PICK n : n = Clip(name)
    OBVIOUS
  <2>3. Matches(n)' = {k}
    BY <1>1, <1>3, <1>5, <2>1, <2>2 DEF Matches
  <2>4. Lowest({k}) = k
    BY <1>1, LowestIsFirst
  <2>5. Content(new) = <<>>
    BY <1>3, ContentBytes
  <2>6. Matches(Clip(name))' = Matches(n)'
    BY <2>2 DEF Matches, Clip
  <2>7. QED
    BY <1>5, <2>3, <2>4, <2>5, <2>6
<1>11. QED
  <2>1. Files' = [n \in Reachable' |-> Content(storage'[Lowest(Matches(n)')])]
    BY DEF Files
  <2>2. ASSUME NEW n \in Reachable \cup {Clip(name)}
        PROVE  Content(storage'[Lowest(Matches(n)')]) = IF n \in Reachable THEN Files[n] ELSE <<>>
    <3>1. CASE n \in Reachable
      BY <1>9, <3>1
    <3>2. CASE n \notin Reachable
      BY <1>10, <3>2 DEF Matches, Clip
    <3>3. QED
      BY <3>1, <3>2
  <2>3. QED
    BY <1>7, <1>8, <2>1, <2>2, Zenon

\* frodfs_write replaces the content of its name.
LEMMA WroteMaps ==
  ASSUME IInv, NEW name, NEW buffer, Wrote(name, buffer)
  PROVE  /\ name \in Reachable /\ Spare' = Spare
         /\ Files' = [Files EXCEPT ![name] = buffer]
<1> DEFINE k == Lowest(Matches(name))
           new == Written(storage[k], buffer)
<1>1. /\ name \in Reachable /\ k \in Slots /\ storage[k].used /\ storage[k].name = name
      /\ storage[k] \in Entry
  BY ReachableNames DEF Wrote
<1>2. new \in Entry /\ new.name = name /\ new.used = TRUE /\ Content(new) = buffer
  BY <1>1, WrittenType, ContentWritten DEF Wrote
<1>3. storage' = [storage EXCEPT ![k] = new] /\ storage \in [Slots -> Entry]
  BY DEF Wrote, IInv, TypeOK
<1>4. k = Lowest(Matches(name))
  OBVIOUS
<1> HIDE DEF k, new
<1>5. storage'[k] = new /\ \A j \in Slots : j # k => storage'[j] = storage[j]
  BY <1>1, <1>3
<1>6. \A j \in Slots : storage'[j].used = storage[j].used /\ storage'[j].name = storage[j].name
  BY <1>1, <1>2, <1>5
<1>7. Reachable' = Reachable /\ Unused' = Unused
  BY <1>6 DEF Reachable, Unused
<1>8. ASSUME NEW n PROVE Matches(n)' = Matches(n)
  BY <1>6 DEF Matches
<1>9. ASSUME NEW n \in Reachable
      PROVE  Content(storage'[Lowest(Matches(n)')]) = IF n = name THEN buffer ELSE Files[n]
  <2>1. Lowest(Matches(n)') = Lowest(Matches(n))
    BY <1>8
  <2>2. CASE n = name
    BY <1>2, <1>4, <1>5, <2>1, <2>2
  <2>3. CASE n # name
    <3>1. /\ Lowest(Matches(n)) \in Slots /\ storage[Lowest(Matches(n))].name = n
          /\ Files[n] = Content(storage[Lowest(Matches(n))])
      BY ReachableNames
    <3>2. Lowest(Matches(n)) # k
      BY <1>1, <2>3, <3>1
    <3>3. QED
      BY <1>5, <2>1, <2>3, <3>1, <3>2
  <2>4. QED
    BY <2>2, <2>3
<1>10. Files' = [n \in Reachable' |-> Content(storage'[Lowest(Matches(n)')])]
  BY DEF Files
<1>11. Files' = [n \in Reachable |-> IF n = name THEN buffer ELSE Files[n]]
  BY <1>7, <1>9, <1>10, Zenon
<1>12. [Files EXCEPT ![name] = buffer] = [n \in Reachable |-> IF n = name THEN buffer ELSE Files[n]]
  BY DEF Files
<1>13. QED
  BY <1>1, <1>7, <1>11, <1>12 DEF Spare

\* The actions of FileStore, in terms of Files and Spare.
LEMMA StoreActions ==
  ASSUME NEW name, NEW content, NEW max
  PROVE  /\ /\ name \notin DOMAIN Files \cup {NULL, <<>>} /\ Spare > 0 /\ Spare' = Spare - 1
            /\ Files' = [n \in DOMAIN Files \cup {Clip(name)} |->
                           IF n \in DOMAIN Files THEN Files[n] ELSE <<>>]
            /\ Answer(<<"create", name>>, 0, <<>>)
            => Store!Create(name)
         /\ /\ name \in DOMAIN Files /\ content # NULL /\ Len(content) <= FS_MAX_SIZE
            /\ Files' = [Files EXCEPT ![name] = content] /\ UNCHANGED Spare
            /\ Answer(<<"write", name, content>>, 0, <<>>)
            => Store!Write(name, content)
         /\ /\ name \in DOMAIN Files /\ UNCHANGED <<Files, Spare>>
            /\ Answer(<<"read", name, max>>, 0,
                 SubSeq(Files[name], 1, IF Len(Files[name]) > max THEN max ELSE Len(Files[name])))
            => Store!Read(name, max)
         /\ \A call, ret :
              Answer(call, ret, <<>>) /\ UNCHANGED <<Files, Spare>> => Store!Fail(call, ret)
<1>1. \A call, ret, out : Answer(call, ret, out) => Store!Answer(call, ret, out)
  BY DEF Answer, Store!Answer
<1>2. ASSUME /\ name \notin DOMAIN Files \cup {NULL, <<>>} /\ Spare > 0 /\ Spare' = Spare - 1
             /\ Files' = [n \in DOMAIN Files \cup {Clip(name)} |->
                            IF n \in DOMAIN Files THEN Files[n] ELSE <<>>]
             /\ Answer(<<"create", name>>, 0, <<>>)
      PROVE  Store!Create(name)
  BY <1>1, <1>2 DEF Store!Create, Files, Spare
<1>3. ASSUME /\ name \in DOMAIN Files /\ content # NULL /\ Len(content) <= FS_MAX_SIZE
             /\ Files' = [Files EXCEPT ![name] = content] /\ UNCHANGED Spare
             /\ Answer(<<"write", name, content>>, 0, <<>>)
      PROVE  Store!Write(name, content)
  BY <1>1, <1>3 DEF Store!Write, Files, Spare
<1>4. ASSUME /\ name \in DOMAIN Files /\ UNCHANGED <<Files, Spare>>
             /\ Answer(<<"read", name, max>>, 0,
                  SubSeq(Files[name], 1, IF Len(Files[name]) > max THEN max ELSE Len(Files[name])))
      PROVE  Store!Read(name, max)
  BY <1>1, <1>4 DEF Store!Read, Files, Spare
<1>5. ASSUME NEW call, NEW ret, Answer(call, ret, <<>>), UNCHANGED <<Files, Spare>>
      PROVE  Store!Fail(call, ret)
  BY <1>1, <1>5 DEF Store!Fail, Files, Spare
<1>6. QED
  BY <1>2, <1>3, <1>4, <1>5

\* What leaves the table alone leaves the store alone.
LEMMA SameStore ==
  ASSUME UNCHANGED storage
  PROVE  UNCHANGED <<Files, Spare>>
BY DEF Files, Spare, Reachable, Unused, Matches

LEMMA StoreRefusals ==
  ASSUME NEW name, NEW content, NEW max, UNCHANGED <<Files, Spare>>
  PROVE  /\ \/ name \in {NULL, <<>>} /\ Answer(<<"create", name>>, -1, <<>>)
            \/ name \in DOMAIN Files /\ Answer(<<"create", name>>, -2, <<>>)
            \/ name \notin DOMAIN Files /\ Spare = 0 /\ Answer(<<"create", name>>, -3, <<>>)
            => Store!RefuseCreate(name)
         /\ \/ /\ name = NULL \/ content = NULL \/ Len(content) > FS_MAX_SIZE
               /\ Answer(<<"write", name, content>>, -1, <<>>)
            \/ name \notin DOMAIN Files /\ Answer(<<"write", name, content>>, -2, <<>>)
            => Store!RefuseWrite(name, content)
         /\ \/ name = NULL /\ Answer(<<"read", name, max>>, -1, <<>>)
            \/ name \notin DOMAIN Files /\ Answer(<<"read", name, max>>, -2, <<>>)
            => Store!RefuseRead(name, max)
         /\ max = 0 /\ Answer(<<"list", max>>, -1, <<>>) => Store!RefuseList(max)
<1>1. \A call, ret : Answer(call, ret, <<>>) => Store!Fail(call, ret)
  BY StoreActions
<1>2. DOMAIN Files = DOMAIN [n \in Reachable |-> Content(storage[Lowest(Matches(n))])]
  BY DEF Files
<1>3. QED
  BY <1>1, <1>2 DEF Store!RefuseCreate, Store!RefuseWrite, Store!RefuseRead, Store!RefuseList, Spare

\* frodfs_create is the store's create.
LEMMA CreateImplements ==
  ASSUME IInv, NEW name \in Names, frodfs_create(name)
  PROVE  Store!Create(name) \/ Store!RefuseCreate(name)
<1>1. DOMAIN Files = Reachable /\ (name \in Reachable <=> Matches(name) # {})
  BY ReachableNames
<1>2. CASE /\ UNCHANGED storage
           /\ \/ name \in {NULL, <<>>} /\ Answer(<<"create", name>>, -1, <<>>)
              \/ Matches(name) # {} /\ Answer(<<"create", name>>, -2, <<>>)
              \/ Matches(name) = {} /\ Unused = {} /\ Answer(<<"create", name>>, -3, <<>>)
  <2>1. Unused = {} => Spare = 0
    BY FS_EmptySet DEF Spare
  <2>2. UNCHANGED <<Files, Spare>>
    BY <1>2, SameStore
  <2>3. QED
    BY <1>1, <1>2, <2>1, <2>2, StoreRefusals
<1>3. CASE /\ name \notin {NULL, <<>>} /\ Matches(name) = {} /\ Unused # {}
           /\ storage' = [storage EXCEPT ![Lowest(Unused)] = NewEntry(name, @)]
           /\ Answer(<<"create", name>>, 0, <<>>)
  <2>1. Created(name)
    BY <1>3, FrodFSAssumption DEF Created
  <2>2. /\ Spare > 0 /\ Spare' = Spare - 1
        /\ Files' = [n \in Reachable \cup {Clip(name)} |-> IF n \in Reachable THEN Files[n] ELSE <<>>]
    BY <2>1, CreatedMaps
  <2>3. name \notin DOMAIN Files \cup {NULL, <<>>}
    BY <1>1, <1>3
  <2>4. QED
    BY <1>1, <1>3, <2>2, <2>3, StoreActions
<1>4. QED
  BY <1>2, <1>3 DEF frodfs_create, Fail

\* frodfs_write is the store's write.
LEMMA WriteImplements ==
  ASSUME IInv, NEW name \in Names, NEW buffer \in Contents, frodfs_write(name, buffer)
  PROVE  Store!Write(name, buffer) \/ Store!RefuseWrite(name, buffer)
<1>1. DOMAIN Files = Reachable /\ (name \in Reachable <=> Matches(name) # {})
  BY ReachableNames
<1>2. CASE /\ UNCHANGED storage
           /\ \/ ~GoodWrite(name, buffer) /\ Answer(<<"write", name, buffer>>, -1, <<>>)
              \/ Matches(name) = {} /\ Answer(<<"write", name, buffer>>, -2, <<>>)
  <2>1. ~GoodWrite(name, buffer) => name = NULL \/ buffer = NULL \/ Len(buffer) > FS_MAX_SIZE
    <3>1. buffer # NULL => Len(buffer) \in Nat
      BY FrodFSAssumption, LenProperties
    <3>2. QED
      BY <3>1, FrodFSAssumption DEF GoodWrite
  <2>2. UNCHANGED <<Files, Spare>>
    BY <1>2, SameStore
  <2>3. QED
    BY <1>1, <1>2, <2>1, <2>2, StoreRefusals
<1>3. CASE /\ GoodWrite(name, buffer) /\ Matches(name) # {}
           /\ storage' = [storage EXCEPT ![Lowest(Matches(name))] = Written(@, buffer)]
           /\ Answer(<<"write", name, buffer>>, 0, <<>>)
  <2>1. Wrote(name, buffer)
    BY <1>3, FrodFSAssumption DEF Wrote, GoodWrite
  <2>2. Spare' = Spare /\ Files' = [Files EXCEPT ![name] = buffer]
    BY <2>1, WroteMaps
  <2>3. buffer # NULL /\ Len(buffer) <= FS_MAX_SIZE
    BY <1>3 DEF GoodWrite
  <2>4. QED
    BY <1>1, <1>3, <2>2, <2>3, StoreActions
<1>4. QED
  BY <1>2, <1>3 DEF frodfs_write, Fail

\* frodfs_read is the store's read.
LEMMA ReadImplements ==
  ASSUME IInv, NEW name \in Names, NEW max \in Maxes, frodfs_read(name, max)
  PROVE  Store!Read(name, max) \/ Store!RefuseRead(name, max)
<1>1. DOMAIN Files = Reachable /\ (name \in Reachable <=> Matches(name) # {})
  BY ReachableNames
<1>2. UNCHANGED <<Files, Spare>>
  BY SameStore DEF frodfs_read, Fail
<1>3. CASE \/ name = NULL /\ Answer(<<"read", name, max>>, -1, <<>>)
           \/ Matches(name) = {} /\ Answer(<<"read", name, max>>, -2, <<>>)
  BY <1>1, <1>2, <1>3, StoreRefusals
<1>4. CASE /\ Matches(name) # {}
           /\ LET entry == storage[Lowest(Matches(name))]
                  read_bytes == IF entry.size > max THEN max ELSE entry.size
              IN Answer(<<"read", name, max>>, 0, SubSeq(Content(entry), 1, read_bytes))
  <2> DEFINE entry == storage[Lowest(Matches(name))]
  <2>1. entry \in Entry /\ Files[name] = Content(entry)
    BY <1>1, <1>4, ReachableNames
  <2>2. Len(Files[name]) = entry.size
    BY <2>1, ContentBytes
  <2>3. Answer(<<"read", name, max>>, 0,
          SubSeq(Files[name], 1, IF Len(Files[name]) > max THEN max ELSE Len(Files[name])))
    BY <1>4, <2>1, <2>2
  <2>4. QED
    BY <1>1, <1>2, <1>4, <2>3, StoreActions
<1>5. QED
  BY <1>3, <1>4 DEF frodfs_read, Fail

\* frodfs_list shows files of the store, and all of them where there is room.
LEMMA ListImplements ==
  ASSUME IInv, NEW max \in Maxes, frodfs_list(max)
  PROVE  Store!List(max) \/ Store!RefuseList(max)
<1>1. UNCHANGED <<Files, Spare>>
  BY SameStore DEF frodfs_list, Fail
<1>2. CASE max = 0 /\ Answer(<<"list", max>>, -1, <<>>)
  BY <1>1, <1>2, StoreRefusals
<1>3. CASE max > 0 /\ Answer(<<"list", max>>, 0, Listing(max).names)
  <2> DEFINE names == Listing(max).names
  <2>0. max \in Nat \ {0} /\ FS_MAX_FILES \in Nat
    BY <1>3, FrodFSAssumption
  <2>1. /\ names \in Seq(Seq(Chars))
        /\ RoomTaken(max, FS_MAX_FILES, Listing(max)) /\ ShowsNames(FS_MAX_FILES, Listing(max))
    BY <2>0, ListingShows DEF Progress
  <2>2. PICK k \in 0 .. FS_MAX_FILES : k = Len(names)
    <3>1. Len(names) \in Nat
      BY <2>1, LenProperties
    <3>2. Len(names) \in 0 .. FS_MAX_FILES
      BY <2>0, <2>1, <3>1 DEF ShowsNames
    <3>3. QED
      BY <3>2
  <2>3. names \in [1 .. k -> Reachable]
    <3>1. names \in [1 .. k -> Seq(Chars)]
      BY <2>1, <2>2, LenProperties
    <3>2. \A p \in 1 .. k : names[p] \in Reachable
      BY <2>1, <2>2 DEF ShowsNames
    <3>3. QED
      BY <3>1, <3>2
  <2>4. ASSUME max >= ListRoom PROVE {names[i] : i \in 1 .. k} = Reachable
    <3>1. ~Listing(max).broke
      BY <2>1, <2>4 DEF RoomTaken
    <3>2. ASSUME NEW n \in Reachable PROVE \E i \in 1 .. k : n = names[i]
      <4>1. PICK j \in Slots : storage[j].used /\ n = storage[j].name
        BY <3>2 DEF Reachable
      <4>2. j + 1 \in 1 .. k /\ names[j + 1] = n
        BY <2>1, <2>2, <3>1, <4>1 DEF ShowsNames, Slots
      <4>3. QED
        BY <4>2
    <3>3. \A i \in 1 .. k : names[i] \in Reachable
      BY <2>3
    <3>4. QED
      BY <3>2, <3>3
  <2> HIDE DEF names
  <2>5. DOMAIN [n \in Reachable |-> Content(storage[Lowest(Matches(n))])] = Reachable
    OBVIOUS
  <2>6. Store!Answer(<<"list", max>>, 0, names)
    BY <1>3 DEF Answer, Store!Answer, names
  <2>7. Store!List(max)
    BY <1>1, <1>3, <2>2, <2>3, <2>4, <2>5, <2>6 DEF Store!List, Files, Spare
  <2>8. QED
    BY <2>7
<1>4. QED
  BY <1>2, <1>3 DEF frodfs_list, Fail

\* What is read back is what was last written under that name; a failed call
\* changes nothing; each failure has the reason its result stands for.
THEOREM TableIsAFileStore == Spec => ImplementsFileStore
<1>1. Init => Store!Init
  <2> SUFFICES ASSUME Init PROVE Store!Init
    OBVIOUS
  <2>1. \A i \in Slots : ~storage[i].used
    BY DEF Init, frodfs_init
  <2>2. Reachable = {}
    BY <2>1 DEF Reachable
  <2>3. [n \in Reachable |-> Content(storage[Lowest(Matches(n))])] = <<>>
    BY <2>2
  <2>4. Cardinality(Unused) = FS_MAX_FILES
    <3>1. Unused = Slots
      BY <2>1 DEF Unused
    <3>2. QED
      BY <3>1, FrodFSAssumption, FS_Interval DEF Slots
  <2>5. QED
    BY <2>3, <2>4 DEF Init, Store!Init
<1>2. IInv /\ [Next]_vars => [Store!Next]_(Store!vars)
  <2> SUFFICES ASSUME IInv, [Next]_vars PROVE [Store!Next]_(Store!vars)
    OBVIOUS
  <2>1. CASE UNCHANGED vars
    <3>1. UNCHANGED <<Files, Spare>>
      BY <2>1, SameStore DEF vars
    <3>2. QED
      BY <2>1, <3>1 DEF vars, Store!vars, Files, Spare
  <2>2. ASSUME NEW name \in Names, frodfs_create(name) PROVE Store!Next
    BY <2>2, CreateImplements DEF Store!Next
  <2>3. ASSUME NEW name \in Names, NEW buffer \in Contents, frodfs_write(name, buffer)
        PROVE  Store!Next
    BY <2>3, WriteImplements DEF Store!Next
  <2>4. ASSUME NEW name \in Names, NEW max \in Maxes, frodfs_read(name, max) PROVE Store!Next
    BY <2>4, ReadImplements DEF Store!Next
  <2>5. ASSUME NEW max \in Maxes, frodfs_list(max) PROVE Store!Next
    BY <2>5, ListImplements DEF Store!Next
  <2>6. QED
    BY <2>1, <2>2, <2>3, <2>4, <2>5 DEF Next
<1>3. QED
  BY <1>1, <1>2, Invariance, PTL DEF Spec, Store!Spec, ImplementsFileStore
=============================================================================
