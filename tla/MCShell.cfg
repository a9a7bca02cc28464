CONSTANTS
  FS_MAX_FILES = 2
  FS_MAX_NAME = 3
  FS_MAX_SIZE = 8
  IO_MAX = 8
  HEADER = 2
  a = a
  Space = space
  NewLine = newline
  NUL = nul
  MAGIC = magic
  Chars <- MCChars
  Lines <- MCLines
  Disks <- MCDisks

SPECIFICATION Spec

INVARIANT
  TypeOK

PROPERTIES
  MessagesAreTrue
  CatShowsOnlyThatFile
  SpacedNamesAreNeverWritten
