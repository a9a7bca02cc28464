CONSTANTS
  KEY_BUFFER_SIZE = 3
  Keys = {"lshift", "rshift", "caps", "letter", "ctrl", "print"}
  MaxHeld = 2
  MaxPending = 3

SPECIFICATION Spec

INVARIANTS
  TypeOK
  ShiftFollowsKeys
  PrefixInStep

PROPERTIES
  ImplementsKeyQueue
  LostOnlyWhenFull

