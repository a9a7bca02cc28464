CONSTANTS
  FS_MAX_FILES = 3
  FS_MAX_NAME = 3
  FS_MAX_SIZE = 2
  a = a
  b = b
  zero = zero
  one = one
  NULL = NULL
  ZERO = zero
  Chars = {a, b}
  Bytes = {zero, one}
  Names <- MCNames
  Contents <- MCContents
  Maxes <- MCMaxes

SPECIFICATION Spec

INVARIANTS
  TypeOK
  OnlyClippedNamesCollide
  ShadowedEntriesStayEmpty
  ListStaysInBuffer
  ListIsComplete

PROPERTY
  ImplementsFileStore
