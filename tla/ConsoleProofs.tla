---------------------------- MODULE ConsoleProofs ----------------------------
(***************************************************************************)
(* Proofs about the console, for every set of characters, every size of    *)
(* the shell's line and of the keyboard driver's queue, and any number of  *)
(* scancodes the keyboard holds.                                           *)
(***************************************************************************)
EXTENDS Console, SequenceTheorems, TLAPS

(***************************************************************************)
(* The inductive invariant: what the kernel may be executing, with the     *)
(* interrupt flag and the interrupts in service that go with it, and where *)
(* the shell may be, with the line and the screen that go with that.       *)
(***************************************************************************)

\* Every frame on the stack was pushed with interrupts on.
On == TRUE
FrameAt(on, num, at) == [on |-> on, num |-> num, at |-> at, saved |-> On]
IrqFrame(n, at) == FrameAt("irq", n, at)
CallFrame(at) == FrameAt("syscall", CallAt[pc], at)

\* Nothing: boot runs with interrupts off, the shell with interrupts on.
InProgram == kstack = <<>> /\ isr = {} /\ (IF_ <=> pc # "boot")

\* A handler that interrupted the shell.
InHandler(n, at) ==
  kstack = <<IrqFrame(n, at)>> /\ isr = {n} /\ IF_ = FALSE /\ pc # "boot"

\* A system call at work.
InCall == kstack = <<CallFrame("body")>> /\ isr = {} /\ IF_ = FALSE /\ pc \in DOMAIN CallAt

\* System call 2, waiting or woken.
InWait(at) == kstack = <<CallFrame(at)>> /\ isr = {} /\ IF_ = TRUE /\ pc = "yield"

\* A handler that interrupted system call 2.
InHandlerInWait(n, at) ==
  kstack = <<CallFrame("woken"), IrqFrame(n, at)>> /\ isr = {n} /\ IF_ = FALSE /\ pc = "yield"

StackShape ==
  \/ InProgram
  \/ \E n \in {TIMER, KEYBOARD}, at \in {"body", "eoi"} : InHandler(n, at)
  \/ InCall
  \/ \E at \in {"halted", "woken"} : InWait(at)
  \/ \E n \in {TIMER, KEYBOARD}, at \in {"body", "eoi"} : InHandlerInWait(n, at)

\* What the shell has yet to print is what makes the screen show its line.
LineAndScreen ==
  /\ EchoShowsLine
  /\ pc = "boot" => line = <<>> /\ echo = <<>>
  /\ pc = "echo" /\ got = Backspace => line = Rubout(echo)
  /\ pc = "echo" /\ got # Backspace => got \in Printable /\ line = Append(echo, got)
  /\ pc = "run" => line # <<>> /\ echo = <<>>
  /\ pc = "prompt" => echo = <<>>

\* Once booted, each pending scancode has a request or a handler that runs.
NoByteForgotten == pc # "boot" => Surplus >= 0

IInv == TypeOK /\ StackShape /\ LineAndScreen /\ NoByteForgotten

(***************************************************************************)
(* Short stacks.                                                           *)
(***************************************************************************)

\* One frame pushed on a stack of none or one.
LEMMA Pushed ==
  ASSUME NEW a, NEW b
  PROVE  Append(<<>>, a) = <<a>> /\ Append(<<a>>, b) = <<a, b>>
<1> DEFINE S == {a, b}
<1>1. /\ a \in S /\ b \in S
      /\ <<>> \in Seq(S) /\ <<a>> \in Seq(S) /\ <<a, b>> \in Seq(S)
      /\ Len(<<>>) = 0 /\ Len(<<a>>) = 1 /\ Len(<<a, b>>) = 2
      /\ <<a>>[1] = a /\ <<a, b>>[1] = a /\ <<a, b>>[2] = b
  OBVIOUS
<1> HIDE DEF S
<1>2. Append(<<>>, a) = <<a>>
  <2>1. /\ Append(<<>>, a) \in Seq(S) /\ Len(Append(<<>>, a)) = 1
        /\ Append(<<>>, a)[1] = a
    BY <1>1, AppendProperties
  <2>2. \A i \in 1 .. 1 : Append(<<>>, a)[i] = <<a>>[i]
    BY <1>1, <2>1
  <2>3. QED
    BY <1>1, <2>1, <2>2, SeqEqual
<1>3. Append(<<a>>, b) = <<a, b>>
  <2>1. /\ Append(<<a>>, b) \in Seq(S) /\ Len(Append(<<a>>, b)) = 2
        /\ Append(<<a>>, b)[1] = a /\ Append(<<a>>, b)[2] = b
    BY <1>1, AppendProperties
  <2>2. \A i \in 1 .. 2 : Append(<<a>>, b)[i] = <<a, b>>[i]
    BY <1>1, <2>1
  <2>3. QED
    BY <1>1, <2>1, <2>2, SeqEqual
<1>4. QED
  BY <1>2, <1>3

\* One frame popped from a stack of one or two.
LEMMA Popped ==
  ASSUME NEW a, NEW b
  PROVE  SubSeq(<<a>>, 1, 0) = <<>> /\ SubSeq(<<a, b>>, 1, 1) = <<a>>
<1>1. SubSeq(<<a>>, 1, 0) = <<>>
  BY SubSeqEmpty
<1>2. SubSeq(<<a, b>>, 1, 1) = <<a>>
  <2> DEFINE S == {a, b}
  <2>1. /\ <<a>> \in Seq(S) /\ Len(<<a>>) = 1 /\ <<a>>[1] = a
        /\ \A i \in 1 .. 1 : <<a, b>>[i] \in S /\ <<a, b>>[i] = a
    OBVIOUS
  <2> HIDE DEF S
  <2>2. /\ SubSeq(<<a, b>>, 1, 1) \in Seq(S) /\ Len(SubSeq(<<a, b>>, 1, 1)) = 1
        /\ \A i \in 1 .. 1 : SubSeq(<<a, b>>, 1, 1)[i] = <<a, b>>[1 + i - 1]
    BY <2>1, SubSeqProperties
  <2>3. \A i \in 1 .. 1 : SubSeq(<<a, b>>, 1, 1)[i] = <<a>>[i]
    BY <2>1, <2>2
  <2>4. QED
    BY <2>1, <2>2, <2>3, SeqEqual
<1>3. QED
  BY <1>1, <1>2

\* The innermost frame moves on.
LEMMA Moved ==
  ASSUME NEW a, NEW b, NEW at
  PROVE  /\ [<<a>> EXCEPT ![1].at = at] = <<[a EXCEPT !.at = at]>>
         /\ [<<a, b>> EXCEPT ![2].at = at] = <<a, [b EXCEPT !.at = at]>>
OBVIOUS

\* Stacks of different heights differ.
LEMMA Heights ==
  ASSUME NEW a, NEW b
  PROVE  /\ Len(<<a>>) = 1 /\ Len(<<a, b>>) = 2 /\ Len(<<>>) = 0
         /\ <<a>> # <<>> /\ <<a, b>> # <<>>
         /\ <<a>>[1] = a /\ <<a, b>>[2] = b /\ <<a, b>>[1] = a
OBVIOUS

(***************************************************************************)
(* What a stack of each shape says.                                        *)
(***************************************************************************)

\* The innermost frame, the frames below it, and the innermost one moved on.
LEMMA OneFrame ==
  ASSUME NEW f, kstack = <<f>>
  PROVE  /\ kstack # <<>> /\ Len(kstack) = 1 /\ Top = f /\ Pop = <<>>
         /\ \A at : MoveTo(at) = <<[f EXCEPT !.at = at]>>
         /\ \A g : Append(kstack, g) = <<f, g>>
  BY Heights, Popped, Moved, Pushed DEF Top, Pop, MoveTo

LEMMA TwoFrames ==
  ASSUME NEW f, NEW g, kstack = <<f, g>>
  PROVE  /\ kstack # <<>> /\ Len(kstack) = 2 /\ Top = g /\ Pop = <<f>>
         /\ \A at : MoveTo(at) = <<f, [g EXCEPT !.at = at]>>
  BY Heights, Popped, Moved DEF Top, Pop, MoveTo

\* A handler runs in one of two shapes.
LEMMA HandlerRuns ==
  ASSUME StackShape, NEW at, Running("irq", at)
  PROVE  \E n \in {TIMER, KEYBOARD} :
           /\ Top.num = n /\ at \in {"body", "eoi"}
           /\ InHandler(n, at) \/ InHandlerInWait(n, at)
<1>1. kstack # <<>> /\ Top.on = "irq" /\ Top.at = at
  BY DEF Running
<1>2. ~ InProgram
  BY <1>1 DEF InProgram
<1>3. ~ InCall
  BY <1>1, OneFrame DEF InCall, CallFrame, FrameAt
<1>4. \A a : ~ InWait(a)
  BY <1>1, OneFrame DEF InWait, CallFrame, FrameAt
<1>5. \A n, a : InHandler(n, a) => Top.num = n /\ a = at
  BY <1>1, OneFrame DEF InHandler, IrqFrame, FrameAt
<1>6. \A n, a : InHandlerInWait(n, a) => Top.num = n /\ a = at
  BY <1>1, TwoFrames DEF InHandlerInWait, IrqFrame, FrameAt
<1>7. QED
  BY <1>2, <1>3, <1>4, <1>5, <1>6 DEF StackShape

\* A system call runs in one of two.
LEMMA CallRuns ==
  ASSUME StackShape, NEW at, Running("syscall", at)
  PROVE  /\ Top.num = CallAt[pc] /\ Top.saved = TRUE /\ Pop = <<>>
         /\ \/ at = "body" /\ InCall
            \/ at \in {"halted", "woken"} /\ InWait(at)
<1>1. kstack # <<>> /\ Top.on = "syscall" /\ Top.at = at
  BY DEF Running
<1>2. ~ InProgram
  BY <1>1 DEF InProgram
<1>3. \A n, a : ~ InHandler(n, a)
  BY <1>1, OneFrame DEF InHandler, IrqFrame, FrameAt
<1>4. \A n, a : ~ InHandlerInWait(n, a)
  BY <1>1, TwoFrames DEF InHandlerInWait, IrqFrame, FrameAt
<1>5. CASE InCall
  BY <1>1, <1>5, OneFrame DEF InCall, CallFrame, FrameAt, On
<1>6. ASSUME NEW a \in {"halted", "woken"}, InWait(a)
      PROVE  /\ Top.num = CallAt[pc] /\ Top.saved = TRUE /\ Pop = <<>> /\ at = a
  BY <1>1, <1>6, OneFrame DEF InWait, CallFrame, FrameAt, On
<1>7. QED
  BY <1>2, <1>3, <1>4, <1>5, <1>6 DEF StackShape

\* With nothing on the stack a program runs; with interrupts on, that or a wait.
LEMMA ProgramRuns ==
  ASSUME StackShape
  PROVE  /\ kstack = <<>> => InProgram
         /\ IF_ => InProgram \/ InWait("halted") \/ InWait("woken")
<1>1. \A f : kstack = <<f>> => kstack # <<>>
  BY Heights
<1>2. \A f, g : kstack = <<f, g>> => kstack # <<>>
  BY Heights
<1>3. QED
  BY <1>1, <1>2 DEF StackShape, InHandler, InCall, InWait, InHandlerInWait

(***************************************************************************)
(* Every step keeps the shape of the stack.                                *)
(***************************************************************************)

\* A step that leaves the processor and the place of the shell alone.
LEMMA SameShape ==
  ASSUME StackShape, UNCHANGED <<isr, IF_, kstack, pc>>
  PROVE  StackShape'
  BY DEF StackShape, InProgram, InHandler, InCall, InWait, InHandlerInWait, CallFrame, FrameAt

\* Delivery.
LEMMA TakeIrqShape ==
  ASSUME StackShape, NEW n \in {TIMER, KEYBOARD}, TakeIrq(n)
  PROVE  InHandler(n, "body")' \/ InHandlerInWait(n, "body")'
<1>1. /\ IF_ /\ IF_' = FALSE /\ pc' = pc /\ isr' = isr \cup {n}
      /\ kstack' = Append(Interrupted, Frame("irq", n))
  BY DEF TakeIrq, shell
<1>2. IF_ = TRUE => Frame("irq", n) = IrqFrame(n, "body")
  BY DEF Frame, IrqFrame, FrameAt, On
<1>3. CASE InProgram
  <2>1. Interrupted = <<>> /\ isr = {} /\ pc # "boot" /\ IF_ = TRUE
    BY <1>1, <1>3 DEF InProgram, Interrupted, Running
  <2>2. kstack' = <<IrqFrame(n, "body")>>
    BY <1>1, <1>2, <2>1, Pushed
  <2>3. QED
    BY <1>1, <2>1, <2>2 DEF InHandler
<1>4. ASSUME NEW at \in {"halted", "woken"}, InWait(at) PROVE InHandlerInWait(n, "body")'
  <2>1. kstack = <<CallFrame(at)>> /\ isr = {} /\ IF_ = TRUE /\ pc = "yield"
    BY <1>4 DEF InWait
  <2>2. Interrupted = <<CallFrame("woken")>>
    <3>1. Running("syscall", "halted") <=> at = "halted"
      BY <2>1, OneFrame DEF Running, CallFrame, FrameAt
    <3>2. [CallFrame(at) EXCEPT !.at = "woken"] = CallFrame("woken")
      BY DEF CallFrame, FrameAt
    <3>3. QED
      BY <2>1, <3>1, <3>2, OneFrame DEF Interrupted
  <2>3. kstack' = <<CallFrame("woken"), IrqFrame(n, "body")>>
    BY <1>1, <1>2, <2>1, <2>2, Pushed
  <2>4. CallFrame("woken")' = CallFrame("woken")
    BY <1>1 DEF CallFrame, FrameAt
  <2>5. QED
    BY <1>1, <2>1, <2>3, <2>4 DEF InHandlerInWait
<1>5. QED
  BY <1>1, <1>3, <1>4, ProgramRuns

\* A handler's work.
LEMMA HandlerShape ==
  ASSUME StackShape, Running("irq", "body"), kstack' = MoveTo("eoi"),
         UNCHANGED <<isr, IF_, pc>>
  PROVE  \E n \in {TIMER, KEYBOARD} : InHandler(n, "eoi")' \/ InHandlerInWait(n, "eoi")'
<1>1. PICK n \in {TIMER, KEYBOARD} : InHandler(n, "body") \/ InHandlerInWait(n, "body")
  BY HandlerRuns
<1>2. [IrqFrame(n, "body") EXCEPT !.at = "eoi"] = IrqFrame(n, "eoi")
  BY DEF IrqFrame, FrameAt
<1>3. CASE InHandler(n, "body")
  <2>1. kstack' = <<IrqFrame(n, "eoi")>>
    BY <1>2, <1>3, OneFrame DEF InHandler
  <2>2. QED
    BY <1>3, <2>1 DEF InHandler
<1>4. CASE InHandlerInWait(n, "body")
  <2>1. kstack' = <<CallFrame("woken"), IrqFrame(n, "eoi")>>
    BY <1>2, <1>4, TwoFrames DEF InHandlerInWait
  <2>2. CallFrame("woken")' = CallFrame("woken")
    BY DEF CallFrame, FrameAt
  <2>3. QED
    BY <1>4, <2>1, <2>2 DEF InHandlerInWait
<1>5. QED
  BY <1>1, <1>3, <1>4

\* The end of an interrupt: nothing is in service any more.
LEMMA IrqReturnShape ==
  ASSUME StackShape, IrqReturn
  PROVE  InProgram' \/ InWait("woken")'
<1>1. PICK n \in {TIMER, KEYBOARD} : InHandler(n, "eoi") \/ InHandlerInWait(n, "eoi")
  BY HandlerRuns DEF IrqReturn
<1>2. isr = {n}
  BY <1>1 DEF InHandler, InHandlerInWait
<1>3. (CHOOSE m \in isr : \A k \in isr : m <= k) = n
  BY <1>2 DEF TIMER, KEYBOARD
<1>4. isr' = {} /\ IF_' = Top.saved /\ kstack' = Pop /\ pc' = pc
  BY <1>2, <1>3 DEF IrqReturn, Serviced, shell
<1>5. CASE InHandler(n, "eoi")
  <2>1. Top.saved = TRUE /\ Pop = <<>> /\ pc # "boot"
    BY <1>5, OneFrame DEF InHandler, IrqFrame, FrameAt, On
  <2>2. QED
    BY <1>4, <2>1 DEF InProgram
<1>6. CASE InHandlerInWait(n, "eoi")
  <2>1. Top.saved = TRUE /\ Pop = <<CallFrame("woken")>> /\ pc = "yield"
    BY <1>6, TwoFrames DEF InHandlerInWait, IrqFrame, FrameAt, On
  <2>2. CallFrame("woken")' = CallFrame("woken")
    BY <1>4 DEF CallFrame, FrameAt
  <2>3. QED
    BY <1>4, <2>1, <2>2 DEF InWait
<1>7. QED
  BY <1>1, <1>5, <1>6

\* The way into a system call, to its wait, and out.
LEMMA EnterShape ==
  ASSUME StackShape, EnterSyscall
  PROVE  InCall'
<1>1. /\ pc \in DOMAIN CallAt /\ isr' = isr /\ pc' = pc /\ IF_' = FALSE
      /\ kstack' = <<Frame("syscall", CallAt[pc])>> /\ InProgram
  BY ProgramRuns DEF EnterSyscall, GateFlag, hardware, shell
<1>2. IF_ = TRUE /\ isr = {}
  BY <1>1 DEF InProgram, CallAt
<1>3. Frame("syscall", CallAt[pc]) = CallFrame("body")'
  BY <1>1, <1>2 DEF Frame, CallFrame, FrameAt, On
<1>4. QED
  BY <1>1, <1>2, <1>3 DEF InCall

LEMMA WaitShape ==
  ASSUME StackShape, Wait
  PROVE  InWait("halted")'
<1>1. /\ InCall /\ CallAt[pc] = 2 /\ IF_' = TRUE /\ kstack' = MoveTo("halted")
      /\ isr' = isr /\ pc' = pc
  <2>1. Running("syscall", "body") /\ Top.num = 2
    BY DEF Wait
  <2>2. /\ Top.num = CallAt[pc]
        /\ ("body" = "body" /\ InCall) \/ ("body" \in {"halted", "woken"} /\ InWait("body"))
    BY <2>1, CallRuns, Zenon
  <2>3. InCall /\ CallAt[pc] = 2
    BY <2>1, <2>2
  <2>4. QED
    BY <2>3 DEF Wait, hardware, shell
<1>2. pc = "yield"
  BY <1>1 DEF InCall, CallAt
<1>3. [CallFrame("body") EXCEPT !.at = "halted"] = CallFrame("halted")'
  BY <1>1 DEF CallFrame, FrameAt
<1>4. QED
  BY <1>1, <1>2, <1>3, OneFrame DEF InCall, InWait

LEMMA ReturnShape ==
  ASSUME StackShape, NEW at, Running("syscall", at), SyscallReturn,
         isr' = isr, pc' # "boot"
  PROVE  InProgram'
<1>1. Top.saved = TRUE /\ Pop = <<>> /\ isr = {}
  BY CallRuns DEF InCall, InWait
<1>2. QED
  BY <1>1 DEF SyscallReturn, InProgram

\* A step of the shell that leaves the processor alone.
LEMMA ShellShape ==
  ASSUME StackShape, kstack = <<>>, UNCHANGED <<isr, IF_, kstack>>, pc # "boot", pc' # "boot"
  PROVE  InProgram'
  BY ProgramRuns DEF InProgram

\* So does every step.
LEMMA ShapeKept ==
  ASSUME StackShape, [Next]_vars
  PROVE  StackShape'
<1>1. CASE KeyEvent
  BY <1>1, SameShape DEF KeyEvent, shell
<1>2. CASE TimerTick
  BY <1>2, SameShape DEF TimerTick, shell
<1>3. ASSUME NEW n \in Unmasked, TakeIrq(n) PROVE StackShape'
  BY <1>3, TakeIrqShape DEF Unmasked, StackShape
<1>4. CASE timer_callback
  <2>1. \E n \in {TIMER, KEYBOARD} : InHandler(n, "eoi")' \/ InHandlerInWait(n, "eoi")'
    BY <1>4, HandlerShape DEF timer_callback, hardware, shell
  <2>2. QED
    BY <2>1 DEF StackShape
<1>5. CASE keyboard_handler_main
  <2>1. \E n \in {TIMER, KEYBOARD} : InHandler(n, "eoi")' \/ InHandlerInWait(n, "eoi")'
    BY <1>5, HandlerShape DEF keyboard_handler_main, AfterByte, shell
  <2>2. QED
    BY <2>1 DEF StackShape
<1>6. CASE IrqReturn
  BY <1>6, IrqReturnShape DEF StackShape
<1>7. CASE EnterSyscall
  BY <1>7, EnterShape DEF StackShape
<1>8. CASE ReadChar
  BY <1>8, ReturnShape DEF ReadChar, hardware, StackShape
<1>9. CASE Wait
  BY <1>9, WaitShape DEF StackShape
<1>10. CASE Woken
  BY <1>10, ReturnShape DEF Woken, hardware, StackShape
<1>11. CASE kprint
  BY <1>11, ReturnShape DEF kprint, hardware, StackShape
<1>12. CASE Edit
  BY <1>12, ShellShape DEF Edit, hardware, StackShape
<1>13. CASE run_command
  BY <1>13, ShellShape DEF run_command, hardware, StackShape
<1>14. CASE Drain
  BY <1>14, SameShape DEF Drain, shell
<1>15. CASE BootDone
  <2>1. InProgram
    BY <1>15 DEF BootDone, StackShape, InHandler, InCall, InWait, InHandlerInWait, CallAt
  <2>2. InProgram'
    BY <1>15, <2>1 DEF BootDone, InProgram, hardware
  <2>3. QED
    BY <2>2 DEF StackShape
<1>16. CASE UNCHANGED vars
  BY <1>16, SameShape DEF vars, hardware, shell
<1>17. QED
  BY <1>1, <1>2, <1>3, <1>4, <1>5, <1>6, <1>7, <1>8, <1>9, <1>10, <1>11, <1>12, <1>13,
     <1>14, <1>15, <1>16 DEF Next, Handler, Program

\* A stack of such a shape is a stack of frames.
LEMMA NextStackTyped ==
  ASSUME StackShape'
  PROVE  /\ kstack' \in Seq(StackFrame) /\ IF_' \in BOOLEAN
         /\ isr' \subseteq {TIMER, KEYBOARD}
<1>1. \A n \in {TIMER, KEYBOARD}, at \in {"body", "eoi"} : IrqFrame(n, at) \in StackFrame
  BY DEF IrqFrame, FrameAt, On, StackFrame, TIMER, KEYBOARD
<1>2. \A at \in {"body", "halted", "woken"} :
        pc' \in DOMAIN CallAt => CallFrame(at)' \in StackFrame
  BY DEF CallFrame, FrameAt, On, StackFrame, CallAt
<1>3. \A f \in StackFrame : <<f>> \in Seq(StackFrame)
  OBVIOUS
<1>4. \A f, g \in StackFrame : <<f, g>> \in Seq(StackFrame)
  OBVIOUS
<1>5. "yield" \in DOMAIN CallAt /\ <<>> \in Seq(StackFrame)
  BY EmptySeq DEF CallAt
<1>6. CASE InProgram'
  BY <1>5, <1>6 DEF InProgram
<1>7. ASSUME NEW n \in {TIMER, KEYBOARD}, NEW at \in {"body", "eoi"}, InHandler(n, at)'
      PROVE  kstack' \in Seq(StackFrame) /\ IF_' \in BOOLEAN /\ isr' \subseteq {TIMER, KEYBOARD}
  BY <1>1, <1>3, <1>7 DEF InHandler
<1>8. CASE InCall'
  BY <1>2, <1>3, <1>8 DEF InCall
<1>9. ASSUME NEW at \in {"halted", "woken"}, InWait(at)'
      PROVE  kstack' \in Seq(StackFrame) /\ IF_' \in BOOLEAN /\ isr' \subseteq {TIMER, KEYBOARD}
  BY <1>2, <1>3, <1>5, <1>9 DEF InWait
<1>10. ASSUME NEW n \in {TIMER, KEYBOARD}, NEW at \in {"body", "eoi"}, InHandlerInWait(n, at)'
       PROVE  kstack' \in Seq(StackFrame) /\ IF_' \in BOOLEAN /\ isr' \subseteq {TIMER, KEYBOARD}
  <2>1. CallFrame("woken")' \in StackFrame
    BY <1>2, <1>5, <1>10 DEF InHandlerInWait
  <2>2. QED
    BY <1>1, <1>4, <1>10, <2>1 DEF InHandlerInWait
<1>11. QED
  BY <1>6, <1>7, <1>8, <1>9, <1>10 DEF StackShape

(***************************************************************************)
(* Every step keeps the line, the screen and the types.                    *)
(***************************************************************************)

\* The last character of a sequence erased.
LEMMA Erased ==
  ASSUME NEW S, NEW s \in Seq(S)
  PROVE  /\ Erase(s) \in Seq(S)
         /\ s # <<>> => Len(Erase(s)) = Len(s) - 1
<1>1. Len(s) \in Nat /\ \A i \in 1 .. Len(s) - 1 : s[i] \in S
  BY LenProperties, ElementOfSeq
<1>2. /\ SubSeq(s, 1, Len(s) - 1) \in Seq(S)
      /\ Len(SubSeq(s, 1, Len(s) - 1)) = IF 1 <= Len(s) - 1 THEN Len(s) - 1 - 1 + 1 ELSE 0
  BY <1>1, SubSeqProperties
<1>3. s # <<>> => Len(s) \in Nat \ {0}
  BY EmptySeq
<1> DEFINE t == SubSeq(s, 1, Len(s) - 1)
<1>4. Len(t) = IF 1 <= Len(s) - 1 THEN Len(s) - 1 - 1 + 1 ELSE 0
  BY <1>2
<1> HIDE DEF t
<1>5. s # <<>> => Len(t) = Len(s) - 1
  <2>1. PICK n \in Nat : n = Len(s)
    BY <1>1
  <2>2. Len(t) = IF 1 <= n - 1 THEN n - 1 - 1 + 1 ELSE 0
    BY <1>4, <2>1
  <2>3. s # <<>> => n >= 1
    BY <1>3, <2>1
  <2>4. n >= 1 => Len(t) = n - 1
    BY <2>2
  <2>5. QED
    BY <2>1, <2>3, <2>4
<1>6. QED
  BY <1>2, <1>5 DEF Erase, t

\* What a byte of the keyboard is.
Bytes == Characters \cup {NUL}

\* The part of the state that interrupts and the driver change.
DriverOK ==
  /\ irr \subseteq {TIMER, KEYBOARD}
  /\ wire \in Seq(Bytes)
  /\ queue \in Seq(Characters) /\ Len(queue) <= KeyCapacity
  /\ got \in Bytes

\* The part the shell changes.
ShellOK ==
  /\ pc \in {"boot", "read", "got", "yield", "echo", "newline", "run", "prompt"}
  /\ line \in Seq(Printable) /\ Len(line) < CMD_MAX
  /\ echo \in Seq(Characters) /\ entered \in Seq(Printable)

\* A byte taken from the keyboard's output buffer.
LEMMA TakeByteOK ==
  ASSUME DriverOK, TakeByte
  PROVE  /\ irr' \subseteq {TIMER, KEYBOARD}
         /\ wire' \in Seq(Bytes)
<1>1. wire # <<>> => Tail(wire) \in Seq(Bytes)
  BY HeadTailProperties DEF DriverOK
<1>2. QED
  BY <1>1 DEF TakeByte, DriverOK

\* What a step does to the driver's side.
LEMMA DriverKept ==
  ASSUME DriverOK, [Next]_vars
  PROVE  DriverOK'
<1>0. UNCHANGED <<irr, wire, driver>> => DriverOK'
  BY DEF DriverOK, driver
<1>1. CASE KeyEvent
  <2>1. PICK b \in Bytes : wire' = Append(wire, b)
    BY <1>1 DEF KeyEvent, Bytes
  <2>2. wire' \in Seq(Bytes)
    BY <2>1, AppendProperties DEF DriverOK
  <2>3. irr' \subseteq {TIMER, KEYBOARD} /\ UNCHANGED <<queue, got>>
    BY <1>1 DEF KeyEvent, driver, DriverOK
  <2>4. QED
    BY <2>2, <2>3 DEF DriverOK
<1>2. CASE TimerTick
  BY <1>2 DEF TimerTick, driver, DriverOK
<1>3. ASSUME NEW n \in Unmasked, TakeIrq(n) PROVE DriverOK'
  BY <1>3 DEF TakeIrq, driver, DriverOK
<1>4. CASE timer_callback
  BY <1>0, <1>4 DEF timer_callback, hardware
<1>5. CASE keyboard_handler_main
  <2>1. PICK b \in (IF wire = <<>> THEN Characters \cup {NUL} ELSE {Head(wire)}) : TakesKey(b)
    BY <1>5 DEF keyboard_handler_main
  <2>2. b \in Bytes
    BY <2>1, HeadTailProperties DEF DriverOK, Bytes
  <2>3. CASE b # NUL /\ Len(queue) < KeyCapacity
    <3>1. queue' = Append(queue, b) /\ got' = got /\ b \in Characters
      BY <2>1, <2>2, <2>3 DEF TakesKey, Driver!Type, Bytes
    <3>2. queue' \in Seq(Characters) /\ Len(queue') = Len(queue) + 1 /\ Len(queue) \in Nat
      BY <3>1, AppendProperties, LenProperties DEF DriverOK
    <3>3. Len(queue') <= KeyCapacity
      BY <2>3, <3>2, ConsoleAssumption
    <3>4. QED
      BY <1>5, <3>1, <3>2, <3>3, TakeByteOK DEF DriverOK, keyboard_handler_main
  <2>4. CASE ~ (b # NUL /\ Len(queue) < KeyCapacity)
    BY <1>5, <2>1, <2>4, TakeByteOK DEF TakesKey, driver, DriverOK, keyboard_handler_main
  <2>5. QED
    BY <2>3, <2>4
<1>6. CASE IrqReturn
  BY <1>0, <1>6 DEF IrqReturn
<1>7. CASE EnterSyscall \/ Wait \/ Woken \/ kprint \/ Edit \/ run_command \/ BootDone
  BY <1>0, <1>7 DEF EnterSyscall, Wait, Woken, kprint, Edit, run_command, BootDone, hardware
<1>8. CASE ReadChar
  <2>1. CASE Driver!Read
    <3>1. /\ Tail(queue) \in Seq(Characters) /\ Len(Tail(queue)) = Len(queue) - 1
          /\ Head(queue) \in Characters /\ Len(queue) \in Nat
      BY <2>1, HeadTailProperties, LenProperties DEF Driver!Read, DriverOK
    <3>2. queue' = Tail(queue) /\ got' = Head(queue)
      BY <2>1 DEF Driver!Read
    <3>3. Len(queue') <= KeyCapacity /\ got' \in Bytes
      BY <3>1, <3>2, ConsoleAssumption DEF DriverOK, Bytes
    <3>4. QED
      BY <1>8, <3>1, <3>2, <3>3 DEF ReadChar, hardware, DriverOK
  <2>2. CASE Driver!ReadNothing
    BY <1>8, <2>2 DEF ReadChar, Driver!ReadNothing, hardware, DriverOK, Bytes
  <2>3. QED
    BY <1>8, <2>1, <2>2 DEF ReadChar
<1>9. CASE Drain
  <2>1. UNCHANGED <<queue, got>>
    BY <1>9 DEF Drain, driver
  <2>2. CASE TakeByte
    BY <2>1, <2>2, TakeByteOK DEF DriverOK
  <2>3. CASE wire' = <<>> /\ irr' = irr \ {KEYBOARD}
    BY <2>1, <2>3, EmptySeq DEF DriverOK
  <2>4. QED
    BY <1>9, <2>2, <2>3 DEF Drain
<1>10. CASE UNCHANGED vars
  BY <1>0, <1>10 DEF vars, hardware
<1>11. QED
  BY <1>1, <1>2, <1>3, <1>4, <1>5, <1>6, <1>7, <1>8, <1>9, <1>10 DEF Next, Handler, Program

\* What a step does to the shell's side: only kprint, Edit and run_command change
\* the line or the screen, and each where the shell then is.
LEMMA ShellKept ==
  ASSUME DriverOK, StackShape, ShellOK, LineAndScreen, [Next]_vars
  PROVE  ShellOK' /\ LineAndScreen'
<1>0. ASSUME UNCHANGED <<shell, got>> PROVE ShellOK' /\ LineAndScreen'
  BY <1>0 DEF shell, ShellOK, LineAndScreen, EchoShowsLine
<1>1. CASE KeyEvent \/ TimerTick \/ timer_callback \/ IrqReturn \/ EnterSyscall \/ Wait \/ Drain
  BY <1>0, <1>1 DEF KeyEvent, TimerTick, timer_callback, IrqReturn, EnterSyscall, Wait, Drain,
                    driver
<1>2. ASSUME NEW n \in Unmasked, TakeIrq(n) PROVE ShellOK' /\ LineAndScreen'
  BY <1>0, <1>2 DEF TakeIrq, driver
<1>3. CASE keyboard_handler_main
  BY <1>0, <1>3 DEF keyboard_handler_main, TakesKey, Driver!Type, driver
<1>4. CASE ReadChar
  <2>1. CallAt[pc] = 3 /\ pc \in DOMAIN CallAt
    <3>1. Running("syscall", "body") /\ Top.num = 3
      BY <1>4 DEF ReadChar
    <3>2. /\ Top.num = CallAt[pc]
          /\ ("body" = "body" /\ InCall) \/ ("body" \in {"halted", "woken"} /\ InWait("body"))
      BY <3>1, CallRuns, Zenon
    <3>3. QED
      BY <3>1, <3>2 DEF InCall
  <2>2. pc = "read"
    BY <2>1 DEF CallAt
  <2>3. pc' = "got" /\ UNCHANGED <<line, echo, entered>>
    BY <1>4 DEF ReadChar
  <2>4. QED
    BY <2>2, <2>3 DEF ShellOK, LineAndScreen, EchoShowsLine
<1>5. CASE Woken
  <2>1. pc = "yield"
    <3>1. Running("syscall", "woken")
      BY <1>5 DEF Woken
    <3>2. ("woken" = "body" /\ InCall) \/ ("woken" \in {"halted", "woken"} /\ InWait("woken"))
      BY <3>1, CallRuns, Zenon
    <3>3. QED
      BY <3>2 DEF InWait
  <2>2. pc' = "read" /\ UNCHANGED <<line, echo, entered>>
    BY <1>5 DEF Woken
  <2>3. QED
    BY <2>1, <2>2 DEF ShellOK, LineAndScreen, EchoShowsLine
<1>6. CASE kprint
  <2>0. UNCHANGED <<got, entered>>
    BY <1>6 DEF kprint, driver
  <2>1. CASE pc = "echo" /\ pc' = "read"
    <3>1. echo' = (IF got = Backspace THEN Rubout(echo) ELSE Append(echo, got)) /\ line' = line
      BY <1>6, <2>1 DEF kprint
    <3>2. echo' = line
      BY <2>1, <3>1 DEF LineAndScreen
    <3>3. line \in Seq(Characters)
      BY SeqMonotonic DEF ShellOK, Characters
    <3>4. QED
      BY <2>0, <2>1, <3>1, <3>2, <3>3 DEF ShellOK, LineAndScreen, EchoShowsLine
  <2>2. CASE pc = "newline"
    <3>1. echo' = <<>> /\ line' = line /\ pc' = IF line = <<>> THEN "prompt" ELSE "run"
      BY <1>6, <2>2 DEF kprint
    <3>2. QED
      BY <2>0, <3>1, EmptySeq DEF ShellOK, LineAndScreen, EchoShowsLine
  <2>3. CASE pc = "prompt"
    <3>1. line' = <<>> /\ echo' = echo /\ pc' = "read"
      BY <1>6, <2>3 DEF kprint
    <3>2. echo = <<>>
      BY <2>3 DEF LineAndScreen
    <3>3. QED
      BY <2>0, <3>1, <3>2, EmptySeq, ConsoleAssumption DEF ShellOK, LineAndScreen, EchoShowsLine
  <2>4. QED
    BY <1>6, <2>1, <2>2, <2>3 DEF kprint
<1>7. CASE Edit
  <2>0. pc = "got" /\ UNCHANGED <<got, echo, entered>> /\ echo = line
    BY <1>7 DEF Edit, driver, LineAndScreen, EchoShowsLine
  <2>1. CASE pc' \in {"yield", "newline", "read"} /\ line' = line
    BY <2>0, <2>1 DEF ShellOK, LineAndScreen, EchoShowsLine
  <2>2. CASE got = Backspace /\ line # <<>> /\ pc' = "echo" /\ line' = Erase(line)
    <3>1. Erase(line) \in Seq(Printable) /\ Len(Erase(line)) = Len(line) - 1 /\ Len(line) \in Nat
      BY <2>2, Erased, LenProperties DEF ShellOK
    <3>2. Len(line') < CMD_MAX
      BY <2>2, <3>1, ConsoleAssumption DEF ShellOK
    <3>3. QED
      BY <2>0, <2>2, <3>1, <3>2 DEF ShellOK, LineAndScreen, EchoShowsLine, Rubout
  <2>3. CASE got \in Printable /\ LineHasRoom /\ pc' = "echo" /\ line' = Append(line, got)
    <3>1. /\ Append(line, got) \in Seq(Printable) /\ Len(Append(line, got)) = Len(line) + 1
          /\ Len(line) \in Nat
      BY <2>3, AppendProperties, LenProperties DEF ShellOK
    <3>2. Len(line') < CMD_MAX
      BY <2>3, <3>1, ConsoleAssumption DEF LineHasRoom
    <3>3. got # Backspace
      BY <2>3, ConsoleAssumption
    <3>4. QED
      BY <2>0, <2>3, <3>1, <3>2, <3>3 DEF ShellOK, LineAndScreen, EchoShowsLine
  <2>4. QED
    BY <1>7, <2>1, <2>2, <2>3 DEF Edit
<1>8. CASE run_command
  BY <1>8 DEF run_command, driver, ShellOK, LineAndScreen, EchoShowsLine
<1>9. CASE BootDone
  BY <1>9 DEF BootDone, driver, ShellOK, LineAndScreen, EchoShowsLine
<1>10. CASE UNCHANGED vars
  BY <1>0, <1>10 DEF vars, driver
<1>11. QED
  BY <1>1, <1>2, <1>3, <1>4, <1>5, <1>6, <1>7, <1>8, <1>9, <1>10 DEF Next, Handler, Program

(***************************************************************************)
(* Interrupts and scancodes.                                               *)
(***************************************************************************)

\* The keyboard's handler is running and has not taken its byte.
Serving(stack) ==
  /\ stack # <<>>
  /\ LET top == stack[Len(stack)]
     IN top.on = "irq" /\ top.at = "body" /\ top.num = KEYBOARD

Count(b) == IF b THEN 1 ELSE 0

\* The surplus of interrupts over scancodes, counted.
LEMMA SurplusIs ==
  /\ Surplus = Count(KEYBOARD \in irr) + Count(Serving(kstack)) - Count(wire # <<>>)
  /\ Surplus' = Count(KEYBOARD \in irr') + Count(Serving(kstack')) - Count(wire' # <<>>)
  BY DEF Surplus, Count, Serving, Running, Top

LEMMA Counts == \A b \in BOOLEAN : Count(b) = IF b THEN 1 ELSE 0
  BY DEF Count

\* Which stacks serve the keyboard.
LEMMA ServingStacks ==
  ASSUME NEW c, NEW a, NEW n \in {TIMER, KEYBOARD}, NEW at
  PROVE  /\ ~ Serving(<<>>)
         /\ ~ Serving(<<FrameAt("syscall", c, a)>>)
         /\ Serving(<<IrqFrame(n, at)>>) <=> at = "body" /\ n = KEYBOARD
         /\ Serving(<<FrameAt("syscall", c, a), IrqFrame(n, at)>>) <=> at = "body" /\ n = KEYBOARD
<1>1. ~ Serving(<<>>)
  BY DEF Serving
<1>2. ~ Serving(<<FrameAt("syscall", c, a)>>)
  BY Heights DEF Serving, FrameAt
<1>3. Serving(<<IrqFrame(n, at)>>) <=> at = "body" /\ n = KEYBOARD
  BY Heights DEF Serving, FrameAt, IrqFrame
<1>4. Serving(<<FrameAt("syscall", c, a), IrqFrame(n, at)>>) <=> at = "body" /\ n = KEYBOARD
  <2> DEFINE f == FrameAt("syscall", c, a)
  <2> HIDE DEF f
  <2>1. Serving(<<f, IrqFrame(n, at)>>) <=> at = "body" /\ n = KEYBOARD
    BY Heights DEF Serving, FrameAt, IrqFrame
  <2>2. QED
    BY <2>1 DEF f
<1>5. QED
  BY <1>1, <1>2, <1>3, <1>4

\* In the shapes of the stack, and in those of the next state.
LEMMA ServingByShape ==
  /\ InProgram \/ InCall \/ (\E at : InWait(at)) => ~ Serving(kstack)
  /\ \A n \in {TIMER, KEYBOARD} : \A at :
       InHandler(n, at) \/ InHandlerInWait(n, at) =>
         (Serving(kstack) <=> at = "body" /\ n = KEYBOARD)
<1>1. InProgram => ~ Serving(kstack)
  BY ServingStacks DEF InProgram
<1>2. InCall => ~ Serving(kstack)
  <2>1. ~ Serving(<<FrameAt("syscall", CallAt[pc], "body")>>)
    BY ServingStacks
  <2>2. QED
    BY <2>1 DEF InCall, CallFrame
<1>3. ASSUME NEW at, InWait(at) PROVE ~ Serving(kstack)
  BY <1>3, ServingStacks DEF InWait, CallFrame
<1>4. ASSUME NEW n \in {TIMER, KEYBOARD}, NEW at, InHandler(n, at)
      PROVE  Serving(kstack) <=> at = "body" /\ n = KEYBOARD
  BY <1>4, ServingStacks DEF InHandler
<1>5. ASSUME NEW n \in {TIMER, KEYBOARD}, NEW at, InHandlerInWait(n, at)
      PROVE  Serving(kstack) <=> at = "body" /\ n = KEYBOARD
  BY <1>5, ServingStacks DEF InHandlerInWait, CallFrame
<1>6. QED
  BY <1>1, <1>2, <1>3, <1>4, <1>5

LEMMA NextServingByShape ==
  /\ InProgram' \/ InCall' \/ (\E at : InWait(at)') => ~ Serving(kstack')
  /\ \A n \in {TIMER, KEYBOARD} : \A at :
       InHandler(n, at)' \/ InHandlerInWait(n, at)' =>
         (Serving(kstack') <=> at = "body" /\ n = KEYBOARD)
<1>1. InProgram' => ~ Serving(kstack')
  BY ServingStacks DEF InProgram
<1>2. InCall' => ~ Serving(kstack')
  <2>1. ~ Serving(<<FrameAt("syscall", CallAt[pc'], "body")>>)
    BY ServingStacks
  <2>2. QED
    BY <2>1 DEF InCall, CallFrame
<1>3. ASSUME NEW at, InWait(at)' PROVE ~ Serving(kstack')
  BY <1>3, ServingStacks DEF InWait, CallFrame
<1>4. ASSUME NEW n \in {TIMER, KEYBOARD}, NEW at, InHandler(n, at)'
      PROVE  Serving(kstack') <=> at = "body" /\ n = KEYBOARD
  BY <1>4, ServingStacks DEF InHandler
<1>5. ASSUME NEW n \in {TIMER, KEYBOARD}, NEW at, InHandlerInWait(n, at)'
      PROVE  Serving(kstack') <=> at = "body" /\ n = KEYBOARD
  BY <1>5, ServingStacks DEF InHandlerInWait, CallFrame
<1>6. QED
  BY <1>1, <1>2, <1>3, <1>4, <1>5

\* Once booted, no step loses an interrupt a scancode needs or adds one too many.
LEMMA SurplusKept ==
  ASSUME DriverOK, StackShape, NoByteForgotten, [Next]_vars, pc # "boot"
  PROVE  0 <= Surplus' /\ Surplus' <= Surplus
<1> DEFINE req == KEYBOARD \in irr
           srv == Serving(kstack)
           byt == wire # <<>>
<1>0. /\ Surplus = Count(req) + Count(srv) - Count(byt)
      /\ Surplus' = Count(req') + Count(Serving(kstack')) - Count(byt')
      /\ Surplus >= 0 /\ srv \in BOOLEAN /\ Serving(kstack') \in BOOLEAN
  BY SurplusIs DEF NoByteForgotten, Serving
<1>1. ASSUME UNCHANGED <<irr, wire>>, Serving(kstack') = srv PROVE Surplus' = Surplus
  BY <1>0, <1>1
<1>2. CASE KeyEvent
  <2>1. kstack' = kstack /\ wire' # <<>>
    <3>1. PICK b \in Bytes : wire' = Append(wire, b)
      BY <1>2 DEF KeyEvent, Bytes
    <3>2. wire' # <<>>
      BY <3>1, AppendProperties DEF DriverOK
    <3>3. QED
      BY <1>2, <3>2 DEF KeyEvent
  <2>2. CASE wire = <<>>
    BY <1>0, <1>2, <2>1, <2>2 DEF KeyEvent, Count
  <2>3. CASE wire # <<>>
    BY <1>0, <1>2, <2>1, <2>3 DEF KeyEvent, Count
  <2>4. QED
    BY <2>2, <2>3
<1>3. CASE TimerTick
  BY <1>0, <1>3 DEF TimerTick, TIMER, KEYBOARD, Count
<1>4. ASSUME NEW n \in Unmasked, TakeIrq(n) PROVE 0 <= Surplus' /\ Surplus' <= Surplus
  <2>1. n \in {TIMER, KEYBOARD} /\ IF_ /\ n \in irr /\ irr' = irr \ {n} /\ wire' = wire
    BY <1>4 DEF TakeIrq, Deliverable, Unmasked
  <2>2. ~ srv
    BY <2>1, ProgramRuns, ServingByShape
  <2>3. Serving(kstack') <=> n = KEYBOARD
    BY <1>4, <2>1, TakeIrqShape, NextServingByShape
  <2>4. CASE n = KEYBOARD
    BY <1>0, <2>1, <2>2, <2>3, <2>4 DEF Count
  <2>5. CASE n # KEYBOARD
    BY <1>0, <2>1, <2>2, <2>3, <2>5 DEF Count
  <2>6. QED
    BY <2>4, <2>5
<1>5. CASE timer_callback
  <2>1. PICK n \in {TIMER, KEYBOARD} :
          Top.num = n /\ (InHandler(n, "body") \/ InHandlerInWait(n, "body"))
    BY <1>5, HandlerRuns DEF timer_callback
  <2>2. ~ srv
    BY <1>5, <2>1, ServingByShape DEF timer_callback, TIMER, KEYBOARD
  <2>3. ~ Serving(kstack')
    <3>1. \E k \in {TIMER, KEYBOARD} : InHandler(k, "eoi")' \/ InHandlerInWait(k, "eoi")'
      BY <1>5, HandlerShape DEF timer_callback, hardware, shell
    <3>2. QED
      BY <3>1, NextServingByShape
  <2>4. QED
    BY <1>0, <1>1, <1>5, <2>2, <2>3 DEF timer_callback, hardware
<1>6. CASE keyboard_handler_main
  <2>1. srv
    BY <1>6, HandlerRuns, ServingByShape DEF keyboard_handler_main
  <2>2. ~ Serving(kstack')
    <3>1. \E k \in {TIMER, KEYBOARD} : InHandler(k, "eoi")' \/ InHandlerInWait(k, "eoi")'
      BY <1>6, HandlerShape DEF keyboard_handler_main, AfterByte, shell
    <3>2. QED
      BY <3>1, NextServingByShape
  <2>3. TakeByte
    BY <1>6 DEF keyboard_handler_main
  <2>4. CASE wire = <<>>
    BY <1>0, <2>1, <2>2, <2>3, <2>4 DEF TakeByte, Count
  <2>5. CASE wire # <<>>
    <3>1. Len(wire) \in Nat \ {0} /\ Len(Tail(wire)) = Len(wire) - 1 /\ Tail(wire) \in Seq(Bytes)
      BY <2>5, EmptySeq, HeadTailProperties DEF DriverOK
    <3>2. wire' = Tail(wire)
      BY <2>3, <2>5 DEF TakeByte
    <3>3. CASE Len(wire) > 1
      <4>1. irr' = irr \cup {KEYBOARD}
        BY <2>3, <3>3 DEF TakeByte
      <4>2. Len(wire') > 0
        BY <3>1, <3>2, <3>3
      <4>3. wire' # <<>>
        BY <4>2, Heights
      <4>4. QED
        BY <1>0, <2>1, <2>2, <2>5, <4>1, <4>3 DEF Count
    <3>4. CASE ~ (Len(wire) > 1)
      <4>1. wire' = <<>> /\ irr' = irr
        BY <2>3, <3>1, <3>2, <3>4, EmptySeq DEF TakeByte
      <4>2. QED
        BY <1>0, <2>1, <2>2, <2>5, <4>1 DEF Count
    <3>5. QED
      BY <3>3, <3>4
  <2>6. QED
    BY <2>4, <2>5
<1>7. CASE IrqReturn
  <2>1. ~ srv
    BY <1>7, HandlerRuns, ServingByShape DEF IrqReturn
  <2>2. ~ Serving(kstack')
    BY <1>7, IrqReturnShape, NextServingByShape
  <2>3. QED
    BY <1>0, <1>1, <1>7, <2>1, <2>2 DEF IrqReturn
<1>8. CASE EnterSyscall \/ Wait
  <2>1. ~ srv
    <3>1. CASE EnterSyscall
      BY <3>1, ProgramRuns, ServingByShape DEF EnterSyscall
    <3>2. CASE Wait
      BY <3>2, CallRuns, ServingByShape DEF Wait
    <3>3. QED
      BY <1>8, <3>1, <3>2
  <2>2. ~ Serving(kstack')
    BY <1>8, EnterShape, WaitShape, NextServingByShape
  <2>3. QED
    BY <1>0, <1>1, <1>8, <2>1, <2>2 DEF EnterSyscall, Wait, hardware
<1>9. CASE ReadChar \/ Woken \/ kprint
  <2>1. PICK at : Running("syscall", at)
    BY <1>9 DEF ReadChar, Woken, kprint
  <2>2. ~ srv /\ kstack' = <<>>
    BY <1>9, <2>1, CallRuns, ServingByShape DEF ReadChar, Woken, kprint, SyscallReturn
  <2>3. ~ Serving(kstack')
    BY <2>2, ServingStacks
  <2>4. QED
    BY <1>0, <1>1, <1>9, <2>2, <2>3 DEF ReadChar, Woken, kprint, hardware
<1>10. CASE Edit \/ run_command \/ UNCHANGED vars
  BY <1>0, <1>1, <1>10 DEF Edit, run_command, vars, hardware
<1>11. CASE Drain \/ BootDone
  BY <1>11 DEF Drain, BootDone
<1>12. QED
  BY <1>2, <1>3, <1>4, <1>5, <1>6, <1>7, <1>8, <1>9, <1>10, <1>11 DEF Next, Handler, Program

(***************************************************************************)
(* The invariant.                                                          *)
(***************************************************************************)

\* The parts of the type invariant.
LEMMA TypeParts ==
  /\ TypeOK => DriverOK /\ ShellOK
  /\ DriverOK' /\ ShellOK' /\ StackShape' => TypeOK'
<1>1. TypeOK => DriverOK /\ ShellOK
  BY DEF TypeOK, DriverOK, ShellOK, Bytes
<1>2. ASSUME DriverOK', ShellOK', StackShape' PROVE TypeOK'
  BY <1>2, NextStackTyped DEF TypeOK, DriverOK, ShellOK, Bytes
<1>3. QED
  BY <1>1, <1>2

\* The machine before keyboard_init.
LEMMA InitInv == Init => IInv
<1> SUFFICES ASSUME Init PROVE IInv
  OBVIOUS
<1>1. InProgram
  BY DEF Init, InProgram
<1>2. wire \in Seq(Bytes)
  <2>1. PICK n \in 0 .. MaxPending : wire \in [1 .. n -> Bytes]
    BY DEF Init, Bytes
  <2>2. n \in Nat
    BY ConsoleAssumption
  <2>3. QED
    BY <2>1, <2>2, SeqDef
<1>3. TypeOK
  <2>1. /\ <<>> \in Seq(Characters) /\ <<>> \in Seq(Printable) /\ <<>> \in Seq(StackFrame)
        /\ Len(<<>>) = 0
    BY EmptySeq
  <2>2. /\ irr = {} /\ isr = {} /\ IF_ = FALSE /\ kstack = <<>> /\ queue = <<>> /\ got = NUL
        /\ pc = "boot" /\ line = <<>> /\ echo = <<>> /\ entered = <<>>
    BY DEF Init, Driver!Init
  <2>3. wire \in Seq(Characters \cup {NUL})
    BY <1>2 DEF Bytes
  <2>4. Len(queue) <= KeyCapacity /\ Len(line) < CMD_MAX
    BY <2>1, <2>2, ConsoleAssumption
  <2>5. /\ kstack \in Seq(StackFrame) /\ queue \in Seq(Characters) /\ line \in Seq(Printable)
        /\ echo \in Seq(Characters) /\ entered \in Seq(Printable)
    BY <2>1, <2>2
  <2>6. QED
    BY <2>2, <2>3, <2>4, <2>5 DEF TypeOK
<1>4. QED
  BY <1>1, <1>3 DEF Init, IInv, StackShape, LineAndScreen, EchoShowsLine, NoByteForgotten

\* Every step keeps the invariant.
LEMMA NextInv == IInv /\ [Next]_vars => IInv'
<1> SUFFICES ASSUME IInv, [Next]_vars PROVE IInv'
  OBVIOUS
<1>1. DriverOK /\ ShellOK /\ StackShape /\ LineAndScreen /\ NoByteForgotten
  BY TypeParts DEF IInv
<1>2. StackShape' /\ DriverOK' /\ ShellOK' /\ LineAndScreen'
  BY <1>1, ShapeKept, DriverKept, ShellKept
<1>3. TypeOK'
  BY <1>2, TypeParts
<1>4. NoByteForgotten'
  <2>1. CASE pc # "boot"
    BY <1>1, <2>1, SurplusKept DEF NoByteForgotten
  <2>2. CASE pc = "boot"
    <3>1. CASE pc' = "boot"
      BY <3>1 DEF NoByteForgotten
    <3>2. CASE pc' # "boot"
      <4>1. BootDone
        <5>1. InProgram
          BY <1>1, <2>2 DEF StackShape, InHandler, InCall, InWait, InHandlerInWait, CallAt
        <5>2. ~ \E at : Running("syscall", at)
          BY <5>1 DEF InProgram, Running
        <5>3. ~ (ReadChar \/ Wait \/ Woken \/ kprint \/ EnterSyscall \/ Edit \/ run_command)
          BY <2>2, <5>2 DEF ReadChar, Wait, Woken, kprint, EnterSyscall, Edit, run_command, CallAt
        <5>4. QED
          BY <2>2, <3>2, <5>3
          DEF Next, Handler, Program, KeyEvent, TimerTick, TakeIrq, timer_callback,
              keyboard_handler_main, IrqReturn, Drain, shell, vars
      <4>2. wire' = <<>>
        BY <4>1 DEF BootDone, Drained, hardware
      <4>3. Surplus' >= 0
        BY <4>2, SurplusIs DEF Count
      <4>4. QED
        BY <4>3 DEF NoByteForgotten
    <3>3. QED
      BY <3>1, <3>2
  <2>3. QED
    BY <2>1, <2>2
<1>5. QED
  BY <1>2, <1>3, <1>4 DEF IInv

\* The invariant holds in every state.
LEMMA Invariant == Spec => []IInv
  BY InitInv, NextInv, PTL DEF Spec

(***************************************************************************)
(* The properties of the console.                                          *)
(***************************************************************************)

\* The variables keep their types: the line leaves room for its NUL, the queue
\* holds no more than the driver's ring.
THEOREM TypeCorrect == Spec => []TypeOK
<1>1. IInv => TypeOK
  BY DEF IInv
<1>2. QED
  BY <1>1, Invariant, PTL

\* A handler never runs inside a system call that uses what it changes: it
\* interrupts the shell, or a call that waits in sti; hlt.
THEOREM NoOverlap == Spec => []HandlersNeverOverlap
<1>1. IInv => HandlersNeverOverlap
  <2> SUFFICES ASSUME StackShape PROVE HandlersNeverOverlap
    BY DEF IInv
  <2>1. ASSUME NEW f, kstack = <<f>> PROVE HandlersNeverOverlap
    <3>1. Len(kstack) = 1
      BY <2>1, Heights
    <3>2. QED
      BY <3>1 DEF HandlersNeverOverlap
  <2>2. ASSUME NEW n, NEW at, InHandlerInWait(n, at) PROVE HandlersNeverOverlap
    <3>1. Len(kstack) = 2 /\ kstack[1] = CallFrame("woken")
      BY <2>2, Heights DEF InHandlerInWait
    <3>2. CallFrame("woken").on = "syscall" /\ CallFrame("woken").at = "woken"
      BY DEF CallFrame, FrameAt
    <3>3. QED
      BY <3>1, <3>2 DEF HandlersNeverOverlap
  <2>3. CASE kstack = <<>>
    BY <2>3 DEF HandlersNeverOverlap
  <2>4. QED
    BY <2>1, <2>2, <2>3 DEF StackShape, InProgram, InHandler, InCall, InWait
<1>2. QED
  BY <1>1, Invariant, PTL

\* While the shell waits for a character, the screen shows its line.
THEOREM ScreenShowsLine == Spec => []EchoShowsLine
<1>1. IInv => EchoShowsLine
  BY DEF IInv, LineAndScreen
<1>2. QED
  BY <1>1, Invariant, PTL

\* Once booted, each pending scancode has the interrupt it needs, and handlers and
\* controller never add one too many.
THEOREM EachByteInterruptsOnce == Spec => EachInterruptHasItsByte
<1>1. IInv /\ [Next]_vars => [pc # "boot" => 0 <= Surplus' /\ Surplus' <= Surplus]_vars
  BY SurplusKept, TypeParts DEF IInv
<1>2. QED
  BY <1>1, Invariant, PTL DEF Spec, EachInterruptHasItsByte

(***************************************************************************)
(* The console implements the terminal.                                    *)
(***************************************************************************)

\* A character in front of a queue.
LEMMA InFront ==
  ASSUME NEW S, NEW c \in S, NEW q \in Seq(S)
  PROVE  /\ <<c>> \o q \in Seq(S) /\ <<c>> \o q # <<>>
         /\ Len(<<c>> \o q) = Len(q) + 1
         /\ Head(<<c>> \o q) = c /\ Tail(<<c>> \o q) = q
<1> DEFINE s == <<c>> \o q
<1>1. Len(q) \in Nat /\ <<c>> \in Seq(S) /\ Len(<<c>>) = 1 /\ <<c>>[1] = c
  BY LenProperties
<1>2. /\ s \in Seq(S) /\ Len(s) = 1 + Len(q)
      /\ \A i \in 1 .. 1 + Len(q) : s[i] = IF i <= 1 THEN <<c>>[i] ELSE q[i - 1]
  BY <1>1, ConcatProperties
<1> HIDE DEF s
<1>3. s # <<>>
  BY <1>1, <1>2, Heights
<1>4. Head(s) = c
  <2>1. Head(s) = s[1]
    BY <1>2, <1>3
  <2>2. 1 \in 1 .. 1 + Len(q)
    BY <1>1
  <2>3. QED
    BY <1>1, <1>2, <2>1, <2>2
<1>5. Tail(s) = q
  <2>1. /\ Tail(s) \in Seq(S) /\ Len(Tail(s)) = Len(q)
        /\ \A i \in 1 .. Len(q) : Tail(s)[i] = s[i + 1]
    BY <1>1, <1>2, <1>3, HeadTailProperties
  <2>2. ASSUME NEW i \in 1 .. Len(q) PROVE Tail(s)[i] = q[i]
    <3>1. i + 1 \in 1 .. 1 + Len(q) /\ ~ (i + 1 <= 1) /\ (i + 1) - 1 = i
      BY <1>1
    <3>2. QED
      BY <1>2, <2>1, <3>1
  <2>3. QED
    BY <2>1, <2>2, SeqEqual
<1>6. QED
  BY <1>1, <1>2, <1>3, <1>4, <1>5 DEF s

\* It stays in front of what is appended.
LEMMA AppendBehind ==
  ASSUME NEW S, NEW c \in S, NEW q \in Seq(S), NEW b \in S
  PROVE  <<c>> \o Append(q, b) = Append(<<c>> \o q, b)
<1>1. <<c>> \in Seq(S) /\ <<b>> \in Seq(S)
  OBVIOUS
<1>2. <<c>> \o q \in Seq(S)
  BY InFront
<1>3. (<<c>> \o q) \o <<b>> = <<c>> \o (q \o <<b>>)
  BY <1>1, ConcatAssociative
<1>4. Append(q, b) = q \o <<b>> /\ Append(<<c>> \o q, b) = (<<c>> \o q) \o <<b>>
  BY <1>2, AppendIsConcat
<1>5. QED
  BY <1>3, <1>4

\* The oldest character and the rest are the queue.
LEMMA FrontAndRest ==
  ASSUME NEW S, NEW q \in Seq(S), q # <<>>
  PROVE  <<Head(q)>> \o Tail(q) = q
<1> DEFINE s == <<Head(q)>> \o Tail(q)
<1>1. /\ Len(q) \in Nat \ {0} /\ Head(q) = q[1] /\ Head(q) \in S /\ Tail(q) \in Seq(S)
      /\ Len(Tail(q)) = Len(q) - 1
      /\ \A i \in 1 .. Len(q) - 1 : Tail(q)[i] = q[i + 1]
  BY HeadTailProperties, EmptySeq, LenProperties
<1>2. /\ s \in Seq(S) /\ s # <<>> /\ Len(s) = Len(q) - 1 + 1
      /\ Head(s) = Head(q) /\ Tail(s) = Tail(q)
  BY <1>1, InFront
<1> HIDE DEF s
<1>3. Len(s) = Len(q)
  BY <1>1, <1>2
<1>4. /\ Head(s) = s[1]
      /\ \A i \in 1 .. Len(q) - 1 : Tail(s)[i] = s[i + 1]
  BY <1>1, <1>2, HeadTailProperties
<1>5. ASSUME NEW i \in 1 .. Len(q) PROVE s[i] = q[i]
  <2>1. CASE i = 1
    BY <1>1, <1>2, <1>4, <2>1
  <2>2. CASE i # 1
    <3>1. i - 1 \in 1 .. Len(q) - 1 /\ (i - 1) + 1 = i
      BY <1>1, <2>2
    <3>2. Tail(q)[i - 1] = q[i] /\ Tail(s)[i - 1] = s[i]
      BY <1>1, <1>4, <3>1
    <3>3. QED
      BY <1>2, <3>2
  <2>3. QED
    BY <2>1, <2>2
<1>6. s = q
  BY <1>2, <1>3, <1>5, SeqEqual
<1>7. QED
  BY <1>6 DEF s

\* What the user sees of the state.
Holding == pc = "got" /\ got # NUL
Waiting == IF Holding THEN <<got>> \o queue ELSE queue
Editing == IF pc \in {"newline", "run", "prompt"} THEN <<>> ELSE line
Entered == IF pc \in {"newline", "run"} /\ line # <<>> THEN line ELSE entered

\* Steps of the terminal, in these terms.
TypeStep(c) ==
  Len(Waiting) < KeyCapacity + 1 /\ Waiting' = Append(Waiting, c) /\ UNCHANGED <<Editing, Entered>>

Edited(c) ==
  IF c = Enter THEN <<>>
  ELSE IF c = Backspace THEN IF Editing = <<>> THEN <<>> ELSE Erase(Editing)
  ELSE IF Len(Editing) < CMD_MAX - 1 THEN Append(Editing, c) ELSE Editing

EffectStep ==
  /\ Waiting # <<>> /\ Waiting' = Tail(Waiting)
  /\ Editing' = Edited(Head(Waiting))
  /\ Entered' = IF Head(Waiting) = Enter /\ Editing # <<>> THEN Editing ELSE Entered

SameStep == UNCHANGED <<Waiting, Editing, Entered>>

LEMMA TerminalSteps ==
  /\ \A c \in Characters : TypeStep(c) => [User!Next]_(User!vars)
  /\ EffectStep => [User!Next]_(User!vars)
  /\ SameStep => [User!Next]_(User!vars)
<1>1. ASSUME NEW c \in Characters, TypeStep(c) PROVE User!Type(c)
  BY <1>1 DEF TypeStep, User!Type, Waiting, Editing, Entered, Holding
<1>2. ASSUME EffectStep PROVE User!TakeEffect
  BY <1>2 DEF EffectStep, Edited, Erase, User!TakeEffect, User!EditedLine, User!Erase,
              Waiting, Editing, Entered, Holding
<1>3. ASSUME SameStep PROVE UNCHANGED User!vars
  BY <1>3 DEF SameStep, User!vars, Waiting, Editing, Entered, Holding
<1>4. QED
  BY <1>1, <1>2, <1>3 DEF User!Next

\* At boot nothing waits.
LEMMA InitImplements == Init => User!Init
  BY DEF Init, Driver!Init, User!Init

\* The character the shell holds is a character.
LEMMA HeldIsCharacter ==
  ASSUME DriverOK
  PROVE  got # NUL => got \in Characters
  BY DEF DriverOK, Bytes

\* A scancode handled: the character, if there is one and it fits, is typed.
LEMMA HandlerSimulates ==
  ASSUME DriverOK, keyboard_handler_main
  PROVE  SameStep \/ \E c \in Characters : TypeStep(c)
<1>1. UNCHANGED <<got, shell>>
  BY DEF keyboard_handler_main, TakesKey, Driver!Type, driver
<1>2. UNCHANGED <<Editing, Entered, Holding>>
  BY <1>1 DEF Editing, Entered, Holding, shell
<1>3. PICK b \in (IF wire = <<>> THEN Characters \cup {NUL} ELSE {Head(wire)}) : TakesKey(b)
  BY DEF keyboard_handler_main
<1>4. b \in Bytes
  BY <1>3, HeadTailProperties DEF DriverOK, Bytes
<1>5. CASE b # NUL /\ Len(queue) < KeyCapacity
  <2>1. /\ queue' = Append(queue, b) /\ b \in Characters
        /\ queue \in Seq(Characters) /\ Len(queue) \in Nat
    BY <1>3, <1>4, <1>5, LenProperties DEF TakesKey, Driver!Type, Bytes, DriverOK
  <2>2. CASE Holding
    <3>1. got \in Characters
      BY <2>2, HeldIsCharacter DEF Holding
    <3>2. Waiting = <<got>> \o queue /\ Waiting' = <<got>> \o queue'
      BY <1>1, <1>2, <2>2 DEF Waiting
    <3>3. Waiting' = Append(Waiting, b)
      BY <2>1, <3>1, <3>2, AppendBehind
    <3>4. Len(Waiting) = Len(queue) + 1
      BY <2>1, <3>1, <3>2, InFront
    <3>5. Len(Waiting) < KeyCapacity + 1
      BY <1>5, <2>1, <3>4, ConsoleAssumption
    <3>6. QED
      BY <1>2, <2>1, <3>3, <3>5 DEF TypeStep
  <2>3. CASE ~ Holding
    <3>1. Waiting = queue /\ Waiting' = queue'
      BY <1>2, <2>3 DEF Waiting
    <3>2. Len(Waiting) < KeyCapacity + 1
      BY <1>5, <2>1, <3>1, ConsoleAssumption
    <3>3. QED
      BY <1>2, <2>1, <3>1, <3>2 DEF TypeStep
  <2>4. QED
    BY <2>2, <2>3
<1>6. CASE ~ (b # NUL /\ Len(queue) < KeyCapacity)
  <2>1. queue' = queue
    BY <1>3, <1>6 DEF TakesKey, driver
  <2>2. QED
    BY <1>1, <1>2, <2>1 DEF SameStep, Waiting
<1>7. QED
  BY <1>5, <1>6

\* A character read moves from the driver to the shell: it still waits.
LEMMA ReadSimulates ==
  ASSUME DriverOK, StackShape, ReadChar
  PROVE  SameStep
<1>1. pc = "read"
  <2>1. Running("syscall", "body") /\ Top.num = 3
    BY DEF ReadChar
  <2>2. /\ Top.num = CallAt[pc]
        /\ ("body" = "body" /\ InCall) \/ ("body" \in {"halted", "woken"} /\ InWait("body"))
    BY <2>1, CallRuns, Zenon
  <2>3. QED
    BY <2>1, <2>2 DEF InCall, CallAt
<1>2. pc' = "got" /\ UNCHANGED <<line, entered>>
  BY DEF ReadChar
<1>3. UNCHANGED <<Editing, Entered>>
  BY <1>1, <1>2 DEF Editing, Entered
<1>4. Waiting = queue
  BY <1>1 DEF Waiting, Holding
<1>5. CASE Driver!Read
  <2>1. queue # <<>> /\ queue' = Tail(queue) /\ got' = Head(queue) /\ queue \in Seq(Characters)
    BY <1>5 DEF Driver!Read, DriverOK
  <2>2. got' \in Characters
    BY <2>1, HeadTailProperties
  <2>3. Holding'
    BY <1>2, <2>2, ConsoleAssumption DEF Holding, Characters
  <2>4. Waiting' = <<Head(queue)>> \o Tail(queue)
    BY <2>1, <2>3 DEF Waiting
  <2>5. Waiting' = queue
    BY <2>1, <2>4, FrontAndRest
  <2>6. QED
    BY <1>3, <1>4, <2>5 DEF SameStep
<1>6. CASE Driver!ReadNothing
  <2>1. queue' = queue /\ got' = NUL
    BY <1>6 DEF Driver!ReadNothing
  <2>2. Waiting' = queue
    BY <2>1 DEF Waiting, Holding
  <2>3. QED
    BY <1>3, <1>4, <2>2 DEF SameStep
<1>7. QED
  BY <1>5, <1>6 DEF ReadChar

\* The line editor is where a character takes effect.
LEMMA EditSimulates ==
  ASSUME DriverOK, ShellOK, Edit
  PROVE  SameStep \/ EffectStep
<1>1. pc = "got" /\ UNCHANGED <<queue, got, entered>>
  BY DEF Edit, driver
<1>2. Editing = line /\ Entered = entered
  BY <1>1 DEF Editing, Entered
<1>3. pc' # "got"
  BY DEF Edit
<1>4. Waiting' = queue
  BY <1>1, <1>3 DEF Waiting, Holding
<1>5. CASE got = NUL
  <2>1. pc' = "yield" /\ line' = line
    BY <1>5, ConsoleAssumption DEF Edit
  <2>2. Editing' = line /\ Entered' = entered
    BY <1>1, <2>1 DEF Editing, Entered
  <2>3. Waiting = queue
    BY <1>5 DEF Waiting, Holding
  <2>4. QED
    BY <1>2, <1>4, <2>2, <2>3 DEF SameStep
<1>6. CASE got # NUL
  <2>1. got \in Characters /\ queue \in Seq(Characters)
    BY <1>6, HeldIsCharacter DEF DriverOK
  <2>2. Waiting = <<got>> \o queue
    BY <1>1, <1>6 DEF Waiting, Holding
  <2>3. Waiting # <<>> /\ Head(Waiting) = got /\ Waiting' = Tail(Waiting)
    BY <1>4, <2>1, <2>2, InFront
  <2>4. CASE got = Enter
    <3>1. pc' = "newline" /\ line' = line
      BY <2>4, ConsoleAssumption DEF Edit
    <3>2. Editing' = <<>> /\ Entered' = IF line # <<>> THEN line ELSE entered
      BY <1>1, <3>1 DEF Editing, Entered
    <3>3. QED
      BY <1>2, <2>3, <2>4, <3>2 DEF EffectStep, Edited
  <2>5. CASE got # Enter
    <3>1. /\ pc' \in {"read", "echo"}
          /\ line' = IF got = Backspace THEN IF line = <<>> THEN <<>> ELSE Erase(line)
                     ELSE IF LineHasRoom THEN Append(line, got) ELSE line
      BY <1>6, <2>5, ConsoleAssumption DEF Edit
    <3>2. Editing' = line' /\ Entered' = entered
      BY <1>1, <3>1 DEF Editing, Entered
    <3>3. QED
      BY <1>2, <2>3, <2>5, <3>1, <3>2 DEF EffectStep, Edited, LineHasRoom
  <2>6. QED
    BY <2>4, <2>5
<1>7. QED
  BY <1>5, <1>6

\* Every step of the console is a step of the terminal, or changes nothing there.
LEMMA StepSimulation ==
  ASSUME DriverOK, ShellOK, StackShape, LineAndScreen, [Next]_vars
  PROVE  [User!Next]_(User!vars)
<1>0. ASSUME UNCHANGED <<queue, got, pc, line, entered>> PROVE SameStep
  BY <1>0 DEF SameStep, Waiting, Editing, Entered, Holding
<1>1. ASSUME \/ KeyEvent \/ TimerTick \/ (\E n \in Unmasked : TakeIrq(n)) \/ timer_callback
             \/ IrqReturn \/ EnterSyscall \/ Wait \/ Drain \/ UNCHANGED vars
      PROVE  SameStep
  BY <1>0, <1>1 DEF KeyEvent, TimerTick, TakeIrq, timer_callback, IrqReturn, EnterSyscall, Wait,
                    Drain, driver, shell, vars
<1>2. ASSUME pc # "got", pc' # "got", UNCHANGED <<driver, Editing, Entered>> PROVE SameStep
  BY <1>2 DEF SameStep, Waiting, Holding, driver
<1>3. ASSUME Woken PROVE SameStep
  <2>1. pc = "yield"
    <3>1. Running("syscall", "woken")
      BY <1>3 DEF Woken
    <3>2. ("woken" = "body" /\ InCall) \/ ("woken" \in {"halted", "woken"} /\ InWait("woken"))
      BY <3>1, CallRuns, Zenon
    <3>3. QED
      BY <3>2 DEF InWait
  <2>2. QED
    BY <1>2, <1>3, <2>1 DEF Woken, Editing, Entered
<1>4. ASSUME kprint PROVE SameStep
  <2>1. UNCHANGED <<driver, entered>>
    BY <1>4 DEF kprint
  <2>2. CASE pc = "echo"
    BY <1>2, <1>4, <2>1, <2>2 DEF kprint, Editing, Entered
  <2>3. CASE pc = "newline"
    BY <1>2, <1>4, <2>1, <2>3 DEF kprint, Editing, Entered
  <2>4. CASE pc = "prompt"
    BY <1>2, <1>4, <2>1, <2>4 DEF kprint, Editing, Entered
  <2>5. QED
    BY <1>4, <2>2, <2>3, <2>4 DEF kprint
<1>5. ASSUME run_command PROVE SameStep
  BY <1>2, <1>5 DEF run_command, Editing, Entered, LineAndScreen
<1>6. ASSUME BootDone PROVE SameStep
  BY <1>2, <1>6 DEF BootDone, Editing, Entered
<1>7. \/ SameStep \/ EffectStep
      \/ \E c \in Characters : TypeStep(c)
  BY <1>1, <1>3, <1>4, <1>5, <1>6, HandlerSimulates, ReadSimulates, EditSimulates
  DEF Next, Handler, Program
<1>8. QED
  BY <1>7, TerminalSteps

\* Through interrupts, waiting and echoing, what is typed takes effect once and in
\* order, and the command that runs is the line as edited.
THEOREM ConsoleIsATerminal == Spec => ImplementsTerminal
<1>1. IInv /\ [Next]_vars => [User!Next]_(User!vars)
  BY StepSimulation, TypeParts DEF IInv
<1>2. QED
  BY <1>1, InitImplements, Invariant, PTL DEF Spec, User!Spec, ImplementsTerminal
=============================================================================
