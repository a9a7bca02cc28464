CONSTANTS
  TAR_BLOCK = 2
  AddrSpace = 32
  FS_MAX_FILES = 2
  FS_MAX_NAME = 3
  FS_MAX_SIZE = 3
  ShellBin <- MCShellBin
  Slash = "/"
  Dot = "."
  NULL = NULL
  Headers <- MCHeaders
  Archives <- MCArchives

SPECIFICATION Spec

INVARIANTS
  TypeOK
  VisitsOnlyHeaders
  ImportIsExact

PROPERTY
  ImportEnds

\* The import ends.
CHECK_DEADLOCK FALSE
