----------------------------- MODULE FileStore -----------------------------
(***************************************************************************)
(* What FrodFS promises the shell and the program loader: a table from     *)
(* names to contents with a fixed number of entries.  FrodFS implements    *)
(* this specification.                                                     *)
(***************************************************************************)
EXTENDS Integers, Sequences

CONSTANTS
  Names,        \* names a caller may pass
  Contents,     \* contents a caller may pass
  Capacity,     \* entries of the table
  MaxSize,      \* bytes one file may hold
  NULL,         \* the null pointer, as a name or as a content
  Maxes,        \* sizes of a caller's buffer
  ListRoom,     \* a buffer of this size holds every listing
  Clip(_)       \* what the table keeps of a name

VARIABLES
  files,        \* name -> contents of the file
  spare,        \* entries still unused
  reply         \* the last call with its result

vars == <<files, spare, reply>>

Init ==
  /\ files = <<>>
  /\ spare = Capacity
  /\ reply = [call |-> <<"none">>]

Answer(call, ret, out) == reply' = [call |-> call, ret |-> ret, out |-> out]

\* A new file is empty.  A name the table cannot keep whole is kept clipped, and
\* if the clipped name is taken the new entry can never be reached.
Create(name) ==
  /\ name \notin DOMAIN files \cup {NULL, <<>>}
  /\ spare > 0
  /\ spare' = spare - 1
  /\ files' = [n \in DOMAIN files \cup {Clip(name)} |->
                 IF n \in DOMAIN files THEN files[n] ELSE <<>>]
  /\ Answer(<<"create", name>>, 0, <<>>)

Write(name, content) ==
  /\ name \in DOMAIN files
  /\ content # NULL /\ Len(content) <= MaxSize
  /\ files' = [files EXCEPT ![name] = content]
  /\ Answer(<<"write", name, content>>, 0, <<>>)
  /\ UNCHANGED spare

\* A read returns a file's contents, cut to the caller's buffer.
Read(name, max) ==
  /\ name \in DOMAIN files
  /\ Answer(<<"read", name, max>>, 0,
            SubSeq(files[name], 1, IF Len(files[name]) > max THEN max ELSE Len(files[name])))
  /\ UNCHANGED <<files, spare>>

\* A listing shows names of files and nothing else, and in a large buffer all.
List(max) ==
  /\ max > 0
  /\ \E k \in 0 .. Capacity : \E names \in [1 .. k -> DOMAIN files] :
       /\ max >= ListRoom => {names[i] : i \in 1 .. k} = DOMAIN files
       /\ Answer(<<"list", max>>, 0, names)
  /\ UNCHANGED <<files, spare>>

\* A call fails only for one of these reasons, and then changes nothing.
Fail(call, ret) ==
  /\ Answer(call, ret, <<>>)
  /\ UNCHANGED <<files, spare>>

RefuseCreate(name) ==
  \/ name \in {NULL, <<>>} /\ Fail(<<"create", name>>, -1)
  \/ name \in DOMAIN files /\ Fail(<<"create", name>>, -2)
  \/ name \notin DOMAIN files /\ spare = 0 /\ Fail(<<"create", name>>, -3)

RefuseWrite(name, content) ==
  \/ /\ name = NULL \/ content = NULL \/ Len(content) > MaxSize
     /\ Fail(<<"write", name, content>>, -1)
  \/ name \notin DOMAIN files /\ Fail(<<"write", name, content>>, -2)

RefuseRead(name, max) ==
  \/ name = NULL /\ Fail(<<"read", name, max>>, -1)
  \/ name \notin DOMAIN files /\ Fail(<<"read", name, max>>, -2)

RefuseList(max) == max = 0 /\ Fail(<<"list", max>>, -1)

Next ==
  \/ \E name \in Names :
       \/ Create(name) \/ RefuseCreate(name)
       \/ \E content \in Contents : Write(name, content) \/ RefuseWrite(name, content)
       \/ \E max \in Maxes : Read(name, max) \/ RefuseRead(name, max)
  \/ \E max \in Maxes : List(max) \/ RefuseList(max)

Spec == Init /\ [][Next]_vars
=============================================================================
