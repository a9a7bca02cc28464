------------------------------ MODULE Console ------------------------------
(***************************************************************************)
(* The console: keyboard and timer interrupts (boot.s, idt.c), the system  *)
(* calls that print, read a character and wait (user_jump.s, kernel.c),    *)
(* and the shell's read loop and line editor (shell.c), interleaved as the *)
(* processor's interrupt flag and the interrupt controller allow.  The     *)
(* keyboard driver is KeyQueue, which Keyboard implements.                 *)
(***************************************************************************)
EXTENDS Integers, Sequences

CONSTANTS
  CMD_MAX,       \* bytes of the shell's line buffer             (256)
  KeyCapacity,   \* characters the keyboard driver holds         (255)
  Printable,     \* characters that are neither Enter nor Backspace
  Enter,
  Backspace,
  NUL,           \* no character
  MaxPending     \* bound: scancodes the keyboard holds unread

ASSUME ConsoleAssumption ==
  /\ CMD_MAX \in Nat \ {0} /\ KeyCapacity \in Nat /\ MaxPending \in Nat
  /\ Enter # Backspace /\ NUL \notin {Enter, Backspace}
  /\ {Enter, Backspace, NUL} \cap Printable = {}

VARIABLES
  irr, isr,      \* interrupt controller: requests, interrupts in service
  wire,          \* scancodes in the keyboard, the oldest in its output buffer
  IF_,           \* the processor's interrupt flag
  kstack,        \* what the kernel is executing, innermost last
  queue, got,    \* the keyboard driver's queue; what system call 3 returned
  pc,            \* where the boot, then the shell, is
  line,          \* the shell's buffer, buf[0 .. len-1]
  echo,          \* what stands on the screen after the prompt
  entered        \* the last command given to run_command

hardware == <<irr, isr, wire>>
driver == <<queue, got>>
shell == <<pc, line, echo, entered>>
vars == <<hardware, IF_, kstack, driver, shell>>

Characters == Printable \cup {Enter, Backspace}
TIMER == 0
KEYBOARD == 1

Driver == INSTANCE KeyQueue WITH NoCharacter <- NUL, Capacity <- KeyCapacity

-----------------------------------------------------------------------------
(* Devices and the interrupt controller. *)

\* A scancode that types a character, or none (a release, a modifier).  The
\* controller asks for an interrupt when a scancode enters its output buffer.
KeyEvent ==
  /\ Len(wire) < MaxPending
  /\ \E b \in Characters \cup {NUL} : wire' = Append(wire, b)
  /\ irr' = IF wire = <<>> THEN irr \cup {KEYBOARD} ELSE irr
  /\ UNCHANGED <<isr, IF_, kstack, driver, shell>>

\* A byte leaves the output buffer: the next one, if there is one, asks for an
\* interrupt of its own.
TakeByte ==
  /\ wire' = IF wire = <<>> THEN wire ELSE Tail(wire)
  /\ irr' = IF Len(wire) > 1 THEN irr \cup {KEYBOARD} ELSE irr

\* Ticks are 10 ms apart: none comes while the last one is being handled.
TimerTick ==
  /\ TIMER \notin isr
  /\ irr' = irr \cup {TIMER}
  /\ UNCHANGED <<isr, wire, IF_, kstack, driver, shell>>

\* idt_install unmasks these two; the lower number has the higher priority.
Unmasked_KeyboardOnly == {KEYBOARD}     \* fault: 0xFD instead of 0xFC

Unmasked == {TIMER, KEYBOARD}

Deliverable(n) ==
  /\ n \in irr \cap Unmasked
  /\ \A m \in 0 .. n : m \notin isr
  /\ \A m \in 0 .. n - 1 : m \notin irr \cap Unmasked

-----------------------------------------------------------------------------
(* The processor: interrupts. *)

Top == kstack[Len(kstack)]
Pop == SubSeq(kstack, 1, Len(kstack) - 1)
Running(on, at) == kstack # <<>> /\ Top.on = on /\ Top.at = at

Frame(on, num) == [on |-> on, num |-> num, at |-> "body", saved |-> IF_]
MoveTo(at) == [kstack EXCEPT ![Len(kstack)].at = at]

\* Delivery ends a hlt, saves the flags and, the gate being an interrupt gate,
\* turns interrupts off.
Interrupted == IF Running("syscall", "halted") THEN MoveTo("woken") ELSE kstack

TakeIrq(n) ==
  /\ IF_ /\ Deliverable(n)
  /\ kstack' = Append(Interrupted, Frame("irq", n))
  /\ IF_' = FALSE
  /\ irr' = irr \ {n} /\ isr' = isr \cup {n}
  /\ UNCHANGED <<wire, driver, shell>>

\* timer_callback counts the tick.
timer_callback ==
  /\ Running("irq", "body") /\ Top.num = TIMER
  /\ kstack' = MoveTo("eoi")
  /\ UNCHANGED <<hardware, IF_, driver, shell>>

TakesKey(b) ==
  IF b # NUL /\ Len(queue) < KeyCapacity THEN Driver!Type(b) ELSE UNCHANGED driver

AfterByte_TakesAll ==     \* fault: the handler reads until the buffer is empty
  IF Len(wire) > 1 THEN kstack ELSE MoveTo("eoi")

AfterByte == MoveTo("eoi")

\* A read of an empty output buffer returns an old byte, here any.
keyboard_handler_main ==
  /\ Running("irq", "body") /\ Top.num = KEYBOARD
  /\ \E b \in IF wire = <<>> THEN Characters \cup {NUL} ELSE {Head(wire)} : TakesKey(b)
  /\ TakeByte
  /\ kstack' = AfterByte
  /\ UNCHANGED <<isr, IF_, shell>>

\* The end of IRQ_STUB: the EOI ends the interrupt of highest priority in
\* service, iretd restores the flags.
Serviced == isr \ {CHOOSE n \in isr : \A m \in isr : n <= m}

IrqReturn ==
  /\ Running("irq", "eoi")
  /\ isr' = Serviced
  /\ IF_' = Top.saved
  /\ kstack' = Pop
  /\ UNCHANGED <<irr, wire, driver, shell>>

-----------------------------------------------------------------------------
(* The processor: system calls. *)

\* The call the shell makes where it is: read a character, wait, or print.
CallAt == [read |-> 3, yield |-> 2, echo |-> 1, newline |-> 1, prompt |-> 1]

\* int 0x80 goes through an interrupt gate.
GateFlag_Trap == IF_     \* fault: gate type 0xEF and no cli
GateFlag == FALSE

EnterSyscall ==
  /\ kstack = <<>> /\ pc \in DOMAIN CallAt
  /\ kstack' = <<Frame("syscall", CallAt[pc])>>
  /\ IF_' = GateFlag
  /\ UNCHANGED <<hardware, driver, shell>>

SyscallReturn == kstack' = Pop /\ IF_' = Top.saved

\* System call 3: keyboard_get_char.
ReadChar ==
  /\ Running("syscall", "body") /\ Top.num = 3
  /\ Driver!Read \/ Driver!ReadNothing
  /\ pc' = "got"
  /\ SyscallReturn
  /\ UNCHANGED <<hardware, line, echo, entered>>

\* System call 2: sti; hlt.  Interrupts go on only once the processor waits, so
\* a request that is already there wakes it at once.
Wait ==
  /\ Running("syscall", "body") /\ Top.num = 2
  /\ IF_' = TRUE
  /\ kstack' = MoveTo("halted")
  /\ UNCHANGED <<hardware, driver, shell>>

Woken ==
  /\ Running("syscall", "woken")
  /\ pc' = "read"
  /\ SyscallReturn
  /\ UNCHANGED <<hardware, driver, line, echo, entered>>

\* System call 1 on behalf of the line editor: the echo of a character or of an
\* erasure, the end of the line, the next prompt.
Erase(s) == SubSeq(s, 1, Len(s) - 1)

Rubout_LeavesBlank(s) == s     \* fault: "\b " and no second "\b"
Rubout(s) == Erase(s)

kprint ==
  /\ Running("syscall", "body") /\ Top.num = 1
  /\ \/ /\ pc = "echo" /\ pc' = "read"
        /\ echo' = IF got = Backspace THEN Rubout(echo) ELSE Append(echo, got)
        /\ UNCHANGED line
     \/ /\ pc = "newline" /\ pc' = IF line = <<>> THEN "prompt" ELSE "run"
        /\ echo' = <<>>
        /\ UNCHANGED line
     \/ /\ pc = "prompt" /\ pc' = "read"
        /\ line' = <<>>
        /\ UNCHANGED echo
  /\ SyscallReturn
  /\ UNCHANGED <<hardware, driver, entered>>

-----------------------------------------------------------------------------
(* The shell. *)

LineHasRoom_NoNul == Len(line) < CMD_MAX     \* fault: no room for the final NUL

LineHasRoom == Len(line) < CMD_MAX - 1

\* What main does with the character it read; a full line swallows it.
Edit ==
  /\ kstack = <<>> /\ pc = "got"
  /\ \/ got = NUL /\ pc' = "yield" /\ UNCHANGED line
     \/ got = Enter /\ pc' = "newline" /\ UNCHANGED line
     \/ got = Backspace /\ line = <<>> /\ pc' = "read" /\ UNCHANGED line
     \/ got = Backspace /\ line # <<>> /\ pc' = "echo" /\ line' = Erase(line)
     \/ got \in Printable /\ LineHasRoom /\ pc' = "echo" /\ line' = Append(line, got)
     \/ got \in Printable /\ ~LineHasRoom /\ pc' = "read" /\ UNCHANGED line
  /\ UNCHANGED <<hardware, IF_, kstack, driver, echo, entered>>

\* What run_command does beyond the console is not modelled here.
run_command ==
  /\ kstack = <<>> /\ pc = "run"
  /\ entered' = line
  /\ pc' = "prompt"
  /\ UNCHANGED <<hardware, IF_, kstack, driver, line, echo>>

-----------------------------------------------------------------------------
(* Boot: the end of kernel_main.  What is printed before the first prompt  *)
(* is left out.                                                            *)

\* keyboard_init reads a byte that came while interrupts were off.  Its request
\* may be withdrawn with it or may be latched.
Drain ==
  /\ pc = "boot" /\ wire # <<>>
  /\ \/ TakeByte
     \/ Len(wire) = 1 /\ wire' = <<>> /\ irr' = irr \ {KEYBOARD}
  /\ UNCHANGED <<isr, IF_, kstack, driver, shell>>

Drained_NoLoop == TRUE     \* fault: keyboard_init leaves the buffer alone
Drained == wire = <<>>

\* sti, then the shell is launched.
BootDone ==
  /\ pc = "boot" /\ Drained
  /\ IF_' = TRUE
  /\ pc' = "read"
  /\ UNCHANGED <<hardware, kstack, driver, line, echo, entered>>

\* idt_install has set up the interrupt controller, which forgets the requests
\* of bytes that had come before.
Init ==
  /\ irr = {} /\ isr = {}
  /\ \E n \in 0 .. MaxPending : wire \in [1 .. n -> Characters \cup {NUL}]
  /\ IF_ = FALSE /\ kstack = <<>>
  /\ Driver!Init
  /\ pc = "boot" /\ line = <<>> /\ echo = <<>> /\ entered = <<>>

Handler == timer_callback \/ keyboard_handler_main \/ IrqReturn

\* Everything the processor does outside the interrupt handlers.
Program ==
  \/ EnterSyscall \/ ReadChar \/ Wait \/ Woken \/ kprint
  \/ Edit \/ run_command
  \/ Drain \/ BootDone

Next ==
  \/ KeyEvent \/ TimerTick
  \/ \E n \in Unmasked : TakeIrq(n)
  \/ Handler
  \/ Program

\* The timer never stops; the processor goes on with a handler; a request that
\* keeps being deliverable is delivered; and interrupts, which are far apart,
\* leave the interrupted program time to run.
Fairness ==
  /\ WF_vars(TimerTick)
  /\ WF_vars(Handler)
  /\ \A n \in {TIMER, KEYBOARD} : SF_vars(TakeIrq(n))
  /\ SF_vars(Program)

Spec == Init /\ [][Next]_vars /\ Fairness

-----------------------------------------------------------------------------
(* Properties. *)

\* The variables keep their types; the line leaves room for its NUL.
StackFrame == [on : {"irq", "syscall"}, num : 0 .. 3,
               at : {"body", "eoi", "halted", "woken"}, saved : BOOLEAN]

TypeOK ==
  /\ irr \subseteq {TIMER, KEYBOARD} /\ isr \subseteq {TIMER, KEYBOARD}
  /\ wire \in Seq(Characters \cup {NUL})
  /\ IF_ \in BOOLEAN
  /\ kstack \in Seq(StackFrame)
  /\ queue \in Seq(Characters) /\ Len(queue) <= KeyCapacity
  /\ got \in Characters \cup {NUL}
  /\ pc \in {"boot", "read", "got", "yield", "echo", "newline", "run", "prompt"}
  /\ line \in Seq(Printable) /\ Len(line) < CMD_MAX
  /\ echo \in Seq(Characters) /\ entered \in Seq(Printable)

\* The keyboard handler never runs inside a system call that uses what it
\* changes: the kernel stack holds at most one system call and one handler, and
\* a handler interrupts a system call only while that one waits.
HandlersNeverOverlap ==
  /\ Len(kstack) <= 2
  /\ \A i \in 1 .. Len(kstack) - 1 :
       kstack[i].on = "syscall" /\ kstack[i].at = "woken"

\* Once booted, a scancode never lacks an interrupt, and handlers and controller
\* never add one too many: an interrupt that finds no scancode is at most the one
\* left from boot.
Surplus ==
  LET one(b) == IF b THEN 1 ELSE 0
  IN one(KEYBOARD \in irr) + one(Running("irq", "body") /\ Top.num = KEYBOARD)
       - one(wire # <<>>)

EachInterruptHasItsByte ==
  [][pc # "boot" => 0 <= Surplus' /\ Surplus' <= Surplus]_vars

\* While the shell waits for a character, the screen shows the line it will run.
EchoShowsLine == pc \in {"read", "got", "yield"} => echo = line

\* The console implements Terminal: through interrupts, waiting and echoing,
\* characters take effect once and in order, and the command run is the line.
User == INSTANCE Terminal WITH
  Capacity <- KeyCapacity + 1,
  LineMax <- CMD_MAX - 1,
  waiting <- IF pc = "got" /\ got # NUL THEN <<got>> \o queue ELSE queue,
  line <- IF pc \in {"newline", "run", "prompt"} THEN <<>> ELSE line,
  entered <- IF pc \in {"newline", "run"} /\ line # <<>> THEN line ELSE entered

ImplementsTerminal == User!Spec

\* A character that waits reaches the shell, even one that arrives after the
\* shell found the queue empty and before it halts.
TypedIsRead == (queue # <<>>) ~> (pc = "got" /\ got # NUL)

\* A scancode is handled, whatever the timer does and whatever was typed during
\* boot.
ScancodeIsHandled ==
  (wire # <<>> /\ pc # "boot") ~> (Running("irq", "eoi") /\ Top.num = KEYBOARD)
=============================================================================
