CONSTANTS
  CMD_MAX = 3
  KeyCapacity = 2
  Printable = {x}
  Enter = enter
  Backspace = backspace
  NUL = nul
  MaxPending = 2

SPECIFICATION Spec

INVARIANTS
  TypeOK
  HandlersNeverOverlap
  EchoShowsLine

PROPERTIES
  EachInterruptHasItsByte
  ImplementsTerminal
  TypedIsRead
  ScancodeIsHandled
