CONSTANTS
  Frames = {0, 1, 2, 3, 4, 5, 6, 7, 8, 9}
  Usable = {2, 3, 4, 6, 7, 8, 9}
  PAGE_SIZE = 2
  TAR_BLOCK = 2
  UIntMax = 15
  USER_BASE = 16
  USER_STACK = 22
  APP_BASE = 24
  STACK_ZONE = 32
  TABLE_PAGES = 4
  MemoryEnd = 28
  StackUse = 1
  PackerBss = 1
  PackerStack = 2
  Archives <- MCClearArchives
  AppFiles <- MCAppFiles

SPECIFICATION Spec

INVARIANT
  ExitDropsBackToShell

\* A panic halts the machine.
CHECK_DEADLOCK FALSE
