------------------------------- MODULE FrodFS -------------------------------
(***************************************************************************)
(* FrodFS (frodfs.c): a fixed table of entries, each with a clipped name   *)
(* and a flat buffer, searched from the first slot.  There is no delete:   *)
(* an entry, once created, stays until the machine stops.                  *)
(***************************************************************************)
EXTENDS Integers, Sequences, FiniteSets

CONSTANTS
  FS_MAX_FILES,  \* entries of the table                       (32)
  FS_MAX_NAME,   \* bytes of a name, the final NUL included    (32)
  FS_MAX_SIZE,   \* bytes of a file                            (4096)
  Chars,         \* characters of a name
  Bytes,         \* bytes of a content
  ZERO,          \* the byte the buffers hold at power-on
  NULL,          \* the null pointer
  Names,         \* bound: names callers pass
  Contents,      \* bound: contents callers pass to frodfs_write
  Maxes          \* bound: buffer sizes callers pass to frodfs_read and _list

ASSUME FrodFSAssumption ==
  /\ FS_MAX_FILES \in Nat /\ FS_MAX_NAME \in Nat \ {0} /\ FS_MAX_SIZE \in Nat
  /\ ZERO \in Bytes
  /\ NULL \notin Seq(Chars) /\ NULL \notin Seq(Bytes)
  /\ Names \subseteq Seq(Chars) \cup {NULL}
  /\ Contents \subseteq Seq(Bytes) \cup {NULL}
  /\ Maxes \subseteq Nat

VARIABLES
  storage,       \* slot -> entry
  reply          \* the last call, with its arguments and its result

vars == <<storage, reply>>

Slots == 0 .. (FS_MAX_FILES - 1)
Offsets == 0 .. (FS_MAX_SIZE - 1)

-----------------------------------------------------------------------------
(* Helpers. *)

\* fs_strncpy keeps at most n - 1 characters of the name and ends it.
Clip_NoRoomForNul(name) ==     \* fault: i < n instead of i < n - 1
  IF Len(name) <= FS_MAX_NAME THEN name ELSE SubSeq(name, 1, FS_MAX_NAME)

Clip(name) ==
  IF Len(name) < FS_MAX_NAME THEN name ELSE SubSeq(name, 1, FS_MAX_NAME - 1)

\* The slots fs_strcmp accepts for a name; the code takes the first.
Matches_SkipsFirst(name) ==     \* fault: the search starts at slot 1
  {i \in Slots \ {0} : storage[i].used /\ storage[i].name = name}

Matches(name) == {i \in Slots : storage[i].used /\ storage[i].name = name}
Unused == {i \in Slots : ~storage[i].used}
Lowest_SearchesBackwards(S) == CHOOSE i \in S : \A j \in S : i >= j     \* fault
Lowest(S) == CHOOSE i \in S : \A j \in S : i <= j

\* The bytes of an entry a reader can get.
Content(entry) == [j \in 1 .. entry.size |-> entry.data[j - 1]]

Answer(call, ret, out) == reply' = [call |-> call, ret |-> ret, out |-> out]

Fail(call, ret) ==
  /\ Answer(call, ret, <<>>)
  /\ UNCHANGED storage

-----------------------------------------------------------------------------
(* Operations. *)

NewEntry(name, old) == [old EXCEPT !.name = Clip(name), !.size = 0, !.used = TRUE]

frodfs_create(name) ==
  \/ name \in {NULL, <<>>} /\ Fail(<<"create", name>>, -1)
  \/ /\ name \notin {NULL, <<>>}
     /\ \/ Matches(name) # {} /\ Fail(<<"create", name>>, -2)
        \/ Matches(name) = {} /\ Unused = {} /\ Fail(<<"create", name>>, -3)
        \/ /\ Matches(name) = {} /\ Unused # {}
           /\ storage' = [storage EXCEPT ![Lowest(Unused)] = NewEntry(name, @)]
           /\ Answer(<<"create", name>>, 0, <<>>)

NewSize_KeepsLonger(old, buffer) ==     \* fault: the size never shrinks
  IF Len(buffer) > old THEN Len(buffer) ELSE old

NewSize(old, buffer) == Len(buffer)

\* The bytes past the new size keep what an earlier write left there.
Written(entry, buffer) ==
  [entry EXCEPT
     !.data = [j \in Offsets |-> IF j < Len(buffer) THEN buffer[j + 1] ELSE @[j]],
     !.size = NewSize(@, buffer)]

GoodWrite(name, buffer) == name # NULL /\ buffer # NULL /\ Len(buffer) <= FS_MAX_SIZE

frodfs_write(name, buffer) ==
  \/ ~GoodWrite(name, buffer) /\ Fail(<<"write", name, buffer>>, -1)
  \/ /\ GoodWrite(name, buffer)
     /\ \/ Matches(name) = {} /\ Fail(<<"write", name, buffer>>, -2)
        \/ /\ Matches(name) # {}
           /\ storage' = [storage EXCEPT ![Lowest(Matches(name))] = Written(@, buffer)]
           /\ Answer(<<"write", name, buffer>>, 0, <<>>)

frodfs_read(name, max_size) ==
  \/ name = NULL /\ Fail(<<"read", name, max_size>>, -1)
  \/ /\ name # NULL
     /\ \/ Matches(name) = {} /\ Fail(<<"read", name, max_size>>, -2)
        \/ /\ Matches(name) # {}
           /\ LET entry == storage[Lowest(Matches(name))]
                  read_bytes == IF entry.size > max_size THEN max_size ELSE entry.size
              IN Answer(<<"read", name, max_size>>, 0, SubSeq(Content(entry), 1, read_bytes))
           /\ UNCHANGED storage

\* The loop of frodfs_list: after slots 0 .. i-1, the names copied out, the
\* bytes they take (each ends with a newline), and whether it hit the break.
Fits_ForgetsNul(idx, len, max_bytes) == idx + len + 1 <= max_bytes     \* fault
Fits_LongestName(idx, len, max_bytes) ==     \* fault: not the name's own length
  idx + FS_MAX_NAME + 2 < max_bytes

Fits(idx, len, max_bytes) == idx + len + 2 < max_bytes

ListEntry(before, entry, max_bytes) ==
  IF before.broke \/ ~entry.used THEN before
  ELSE IF Fits(before.idx, Len(entry.name), max_bytes)
    THEN [before EXCEPT !.names = Append(@, entry.name), !.idx = @ + Len(entry.name) + 1]
    ELSE [before EXCEPT !.broke = TRUE]

Listing(max_bytes) ==
  LET loop[i \in 0 .. FS_MAX_FILES] ==
        IF i = 0 THEN [names |-> <<>>, idx |-> 0, broke |-> FALSE]
        ELSE ListEntry(loop[i - 1], storage[i - 1], max_bytes)
  IN loop[FS_MAX_FILES]

frodfs_list(max_bytes) ==
  \/ max_bytes = 0 /\ Fail(<<"list", max_bytes>>, -1)
  \/ /\ max_bytes > 0
     /\ Answer(<<"list", max_bytes>>, 0, Listing(max_bytes).names)
     /\ UNCHANGED storage

\* frodfs_init clears the table; the data buffers hold what power-on left.
frodfs_init ==
  storage = [i \in Slots |-> [name |-> <<>>, size |-> 0, used |-> FALSE,
                              data |-> [j \in Offsets |-> ZERO]]]

Init == frodfs_init /\ reply = [call |-> <<"none">>]

Next ==
  \/ \E name \in Names :
       \/ frodfs_create(name)
       \/ \E buffer \in Contents : frodfs_write(name, buffer)
       \/ \E max_size \in Maxes : frodfs_read(name, max_size)
  \/ \E max_bytes \in Maxes : frodfs_list(max_bytes)

Spec == Init /\ [][Next]_vars

-----------------------------------------------------------------------------
(* Properties. *)

\* Every stored name leaves room for its final NUL, no size exceeds its buffer.
Entry == [name : Seq(Chars), size : 0 .. FS_MAX_SIZE, used : BOOLEAN,
          data : [Offsets -> Bytes]]

TypeOK ==
  /\ storage \in [Slots -> Entry]
  /\ \A i \in Slots : Len(storage[i].name) < FS_MAX_NAME

\* Two entries share a name only when the name fills its field: the check that
\* a file already exists misses nothing but clipped names.
OnlyClippedNamesCollide ==
  \A i, j \in Slots :
    (i # j /\ storage[i].used /\ storage[j].used /\ storage[i].name = storage[j].name)
      => Len(storage[i].name) = FS_MAX_NAME - 1

\* An entry behind another of the same name can never be reached: it stays as
\* empty as frodfs_create left it, however the calls are mixed.
ShadowedEntriesStayEmpty ==
  \A i, j \in Slots :
    (i < j /\ storage[i].used /\ storage[j].used /\ storage[i].name = storage[j].name)
      => storage[j].size = 0

\* frodfs_list never writes past the caller's buffer, the final NUL included.
ListStaysInBuffer ==
  \A max_bytes \in Maxes \ {0} : Listing(max_bytes).idx + 1 <= max_bytes

\* With room for FS_MAX_FILES names of full length (the shell passes more),
\* frodfs_list shows every entry once.
ListRoom == FS_MAX_FILES * FS_MAX_NAME + 2

ListIsComplete ==
  \A max_bytes \in Maxes :
    max_bytes >= ListRoom =>
      LET names == Listing(max_bytes).names
      IN \A n \in {storage[i].name : i \in Slots} \ {<<>>} :
           Matches(n) # {} =>
             \E f \in [Matches(n) -> DOMAIN names] :
               /\ \A i \in Matches(n) : names[f[i]] = n
               /\ \A i, j \in Matches(n) : i # j => f[i] # f[j]

\* FrodFS implements the file store: what is read back is what was last written
\* under that name, a failed call changes nothing, and each failure has the
\* reason its result stands for.
Reachable == {storage[i].name : i \in {j \in Slots : storage[j].used}}

Store == INSTANCE FileStore
  WITH Capacity <- FS_MAX_FILES, MaxSize <- FS_MAX_SIZE,
       files <- [n \in Reachable |-> Content(storage[Lowest(Matches(n))])],
       spare <- Cardinality(Unused)

ImplementsFileStore == Store!Spec

\* What frodfs.c:29 says of the loop that follows it, "Check if the file already
\* exists": no name is ever given to two files.
NoNameTwice ==
  \A i, j \in Slots :
    (storage[i].used /\ storage[j].used /\ storage[i].name = storage[j].name) => i = j
=============================================================================
