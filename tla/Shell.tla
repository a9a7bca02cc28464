------------------------------- MODULE Shell -------------------------------
(***************************************************************************)
(* The shell's commands (run_command in shell.c) and the system calls on   *)
(* files they make (kernel.c), over FileStore, which FrodFS implements.  A *)
(* command is one step: no one else makes these calls, and the programs    *)
(* the shell starts make none on files.                                    *)
(***************************************************************************)
EXTENDS Integers, Sequences, FiniteSets, FiniteSetsExt

CONSTANTS
  FS_MAX_FILES, FS_MAX_NAME, FS_MAX_SIZE,     \* as in FrodFS
  IO_MAX,        \* bytes of the shell's scratch buffer      (4096)
  HEADER,        \* bytes of a program's header              (32)
  Space, NewLine, NUL,
  MAGIC,         \* the first byte of a program
  Chars,         \* characters of lines and files; a command's word is one character here
  Lines,         \* bound: lines typed
  Disks          \* bound: files the importer left

ListRoom == FS_MAX_FILES * FS_MAX_NAME + 2

\* A line typed at the prompt fits a file, and a listing fits the buffer; names
\* and lines are C strings, and a call gets an address, never the null pointer.
IsText(s) == s \in Seq(Chars) /\ \A i \in DOMAIN s : s[i] # NUL

ASSUME ShellAssumption ==
  /\ {FS_MAX_NAME, HEADER} \subseteq Nat \ {0} /\ {FS_MAX_FILES, FS_MAX_SIZE} \subseteq Nat
  /\ IO_MAX = FS_MAX_SIZE /\ ListRoom <= IO_MAX
  /\ {Space, NewLine, NUL} \subseteq Chars /\ NUL \notin {Space, NewLine} \cup Seq(Chars)
  /\ \A cmd \in Lines : IsText(cmd) /\ cmd # <<>> /\ Len(cmd) <= FS_MAX_SIZE
  /\ \A disk \in Disks :
       /\ IsFiniteSet(DOMAIN disk) /\ Cardinality(DOMAIN disk) <= FS_MAX_FILES
       /\ \A name \in DOMAIN disk :
            /\ IsText(name) /\ Len(name) < FS_MAX_NAME
            /\ disk[name] \in Seq(Chars) /\ Len(disk[name]) <= FS_MAX_SIZE

VARIABLES
  pc,                   \* "prompt", or "program" while a program runs
  io_buffer,            \* the scratch buffer, with what earlier commands left
  shown,                \* what the last command printed
  files, spare, reply   \* FrodFS

disk == <<files, spare, reply>>
vars == <<pc, io_buffer, shown, disk>>

Clip(name) == SubSeq(name, 1, Min({Len(name), FS_MAX_NAME - 1}))

Disk == INSTANCE FileStore
  WITH Names <- {}, Contents <- {}, Maxes <- {}, NULL <- NUL,
       Capacity <- FS_MAX_FILES, MaxSize <- FS_MAX_SIZE

-----------------------------------------------------------------------------
(* Lines and texts. *)

\* Where leading spaces end.
Stripped(s) ==
  LET others == {i \in DOMAIN s : s[i] # Space}
  IN SubSeq(s, Min(others \cup {Len(s) + 1}), Len(s))

Begins(cmd, word) == Len(cmd) > 1 /\ cmd[1] = word /\ cmd[2] = Space
Argument(cmd) == Stripped(SubSeq(cmd, 3, Len(cmd)))

\* The space that ends the name in the argument of write.
NameEnd_LastSpace(arg) == Max({i \in DOMAIN arg : arg[i] = Space})     \* fault
NameEnd(arg) == Min({i \in DOMAIN arg : arg[i] = Space})

Terminated_ForgetsNul(s) == s     \* fault: no io_buffer[bytes_read] = 0
Terminated(s) == Append(s, NUL)

\* The buffer with a text copied to its start, and what a print of it shows.
Filled(s) ==
  [i \in DOMAIN s \cup DOMAIN io_buffer |-> IF i \in DOMAIN s THEN s[i] ELSE io_buffer[i]]

Text(buffer) ==
  SubSeq(buffer, 1, Min({i - 1 : i \in {j \in DOMAIN buffer : buffer[j] = NUL}} \cup {Len(buffer)}))

\* A listing as frodfs_list lays it out.
Lay(names) ==
  LET laid[i \in 0 .. Len(names)] ==
        IF i = 0 THEN <<>> ELSE Append(laid[i - 1] \o names[i], NewLine)
  IN laid[Len(names)]

-----------------------------------------------------------------------------
(* System calls 10 to 13.  The pointers they get are to the shell's own      *)
(* memory, which is never below USER_BASE: all of their checks succeed.      *)

sys_fs_create(name) == Disk!Create(name) \/ Disk!RefuseCreate(name)
sys_fs_write(name, text) == Disk!Write(name, text) \/ Disk!RefuseWrite(name, text)
sys_fs_read(name, max) == Disk!Read(name, max) \/ Disk!RefuseRead(name, max)
sys_fs_list(max) == Disk!List(max) \/ Disk!RefuseList(max)

Succeeds == reply'.ret = 0

-----------------------------------------------------------------------------
(* Commands. *)

Say(msg, text) == shown' = [msg |-> msg, text |-> text]

Usage == Say("usage", <<>>) /\ UNCHANGED <<pc, io_buffer, disk>>

ls(cmd) ==
  /\ cmd = <<"ls">>
  /\ sys_fs_list(IO_MAX)
  /\ io_buffer' = Filled(Terminated(Lay(reply'.out)))
  /\ Say(IF io_buffer'[1] = NUL THEN "empty" ELSE "list", Text(io_buffer'))
  /\ UNCHANGED pc

CreateSays_WrongCode(ret) ==     \* fault: -1 for -2
  CASE ret = 0 -> "created" [] ret = -1 -> "exists" [] OTHER -> "full"

CreateSays(ret) ==
  CASE ret = 0 -> "created" [] ret = -2 -> "exists" [] OTHER -> "full"

touch(cmd) ==
  /\ Begins(cmd, "touch")
  /\ LET filename == Argument(cmd)
     IN IF filename = <<>> THEN Usage
        ELSE /\ sys_fs_create(filename)
             /\ Say(CreateSays(reply'.ret), <<>>)
             /\ UNCHANGED <<pc, io_buffer>>

write(cmd) ==
  /\ Begins(cmd, "write")
  /\ LET arg == Argument(cmd)
         filename == SubSeq(arg, 1, NameEnd(arg) - 1)
         text == Stripped(SubSeq(arg, NameEnd(arg) + 1, Len(arg)))
     IN IF \A i \in DOMAIN arg : arg[i] # Space THEN Usage
        ELSE /\ sys_fs_write(filename, text)
             /\ Say(IF Succeeds THEN "written" ELSE "not_written", <<>>)
             /\ UNCHANGED <<pc, io_buffer>>

ReadSize_Whole == IO_MAX     \* fault: no room for the NUL
ReadSize == IO_MAX - 1

cat(cmd) ==
  /\ Begins(cmd, "cat")
  /\ LET filename == Argument(cmd)
     IN IF filename = <<>> THEN Usage
        ELSE /\ sys_fs_read(filename, ReadSize)
             /\ IF Succeeds
                  THEN /\ io_buffer' = Filled(Terminated(reply'.out))
                       /\ Say("text", Text(io_buffer'))
                  ELSE Say("not_found", <<>>) /\ UNCHANGED io_buffer
             /\ UNCHANGED pc

\* System call 20 reads the file into a buffer of its own.  That there is memory
\* for the program is Kernel's subject.
Exec(cmd) ==
  /\ sys_fs_read(cmd, FS_MAX_SIZE)
  /\ \/ /\ ~Succeeds \/ Len(reply'.out) < HEADER
        /\ Say("unknown", cmd) /\ UNCHANGED pc
     \/ /\ Succeeds /\ Len(reply'.out) >= HEADER
        /\ IF reply'.out[1] = MAGIC THEN Say("running", <<>>) /\ pc' = "program"
                                    ELSE Say("not_a_program", <<>>) /\ UNCHANGED pc
  /\ UNCHANGED io_buffer

PlainCommands == {<<"help">>, <<"clear">>, <<"beep">>}

Plain(cmd) ==
  /\ cmd \in PlainCommands
  /\ Say("done", <<>>)
  /\ UNCHANGED <<pc, io_buffer, disk>>

BuiltIn(cmd) ==
  \/ cmd \in PlainCommands \cup {<<"ls">>}
  \/ \E word \in {"touch", "write", "cat"} : Begins(cmd, word)

run_command(cmd) ==
  /\ pc = "prompt"
  /\ \/ Plain(cmd) \/ ls(cmd) \/ touch(cmd) \/ write(cmd) \/ cat(cmd)
     \/ ~BuiltIn(cmd) /\ Exec(cmd)

\* System call 21 loads the shell again; its image does not hold the buffer,
\* which keeps what it had.
ProgramExits ==
  /\ pc = "program"
  /\ pc' = "prompt"
  /\ Say("welcome", <<>>)
  /\ UNCHANGED <<io_buffer, disk>>

Init ==
  /\ pc = "prompt"
  /\ io_buffer = [i \in 1 .. IO_MAX |-> NUL]
  /\ shown = [msg |-> "welcome", text |-> <<>>]
  /\ files \in Disks
  /\ spare = FS_MAX_FILES - Cardinality(DOMAIN files)
  /\ reply = [call |-> <<"none">>]

Next == ProgramExits \/ \E cmd \in Lines : run_command(cmd)

Spec == Init /\ [][Next]_vars

-----------------------------------------------------------------------------
(* Properties. *)

\* The variables keep their types: no command writes past the buffer.
TypeOK ==
  /\ pc \in {"prompt", "program"}
  /\ DOMAIN io_buffer = 1 .. IO_MAX
  /\ Len(shown.text) <= IO_MAX
  /\ \A name \in DOMAIN files : Len(name) < FS_MAX_NAME /\ Len(files[name]) <= FS_MAX_SIZE

\* Each message tells the truth about the files before the command (an error)
\* or after it (a success).  A line is too short for any other reason to apply.
\* "File created successfully." (shell.c:126) is true exactly of a name short enough
\* to be kept whole: then a new, empty file has it.  A longer name uses up an entry
\* and no file has it afterwards, the one case in which the message is false.
TrueMessage ==
  LET said == shown'.msg
      name == reply'.call[2]
      missing == name \notin DOMAIN files
  IN /\ said = "created" =>
          /\ missing /\ spare' = spare - 1
          /\ name \in DOMAIN files' <=> Len(name) < FS_MAX_NAME
          /\ name \in DOMAIN files' => files'[name] = <<>>
     /\ said = "exists" => ~missing
     /\ said = "full" => missing /\ spare = 0
     /\ said = "written" => files' = [files EXCEPT ![name] = reply'.call[3]]
     /\ said \in {"not_written", "not_found"} => missing
     /\ said \in {"empty", "list"} => (said = "empty" <=> DOMAIN files = {})
     /\ said = "unknown" => missing \/ Len(files[name]) < HEADER
     /\ said = "running" => files[name][1] = MAGIC

\* Every command's message is true, whatever commands came before, but for the one
\* case TrueMessage names.
MessagesAreTrue == [][TrueMessage]_vars

\* cat shows the file it names, up to a NUL in it and but for the last byte of a
\* full one, and nothing that an earlier command left in the buffer.
OnlyThatFile ==
  shown'.msg = "text" =>
    LET file == files[reply'.call[2]]
    IN shown'.text = Text(SubSeq(file, 1, Min({Len(file), IO_MAX - 1})))

\* Every cat shows its file and only that, whatever the buffer held.
CatShowsOnlyThatFile == [][OnlyThatFile]_vars

\* touch takes the rest of the line for a name, write takes it up to a space: a
\* file whose name has a space is never written by a command, nor is a write
\* meant for it taken for success.
Spaced(name) == Space \in {name[i] : i \in DOMAIN name}

SpacedFilesKept ==
  \A name \in DOMAIN files' :
    Spaced(name) =>
      /\ files'[name] = IF name \in DOMAIN files THEN files[name] ELSE <<>>
      /\ shown'.msg = "written" => reply'.call[2] # name

\* No command ever writes a file whose name has a space in it.
SpacedNamesAreNeverWritten == [][SpacedFilesKept]_vars
=============================================================================
