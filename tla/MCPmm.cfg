CONSTANTS
  PAGE_SIZE = 2
  BITMAP_SIZE = 6
  WORD_BITS = 3
  LegacyEnd = 2
  AddrSpace = 32
  Clients = {image, stack}
  MaxCount = 4
  MemSizes <- MCMemSizes
  KernelEnds <- MCKernelEnds
  MemoryMaps <- MCMemoryMaps

SPECIFICATION Spec

INVARIANTS
  TypeOK
  OfferedFramesAreSafe
  LostFramesAreTheTop
  AllocFindsRun
  BitmapAccounts

PROPERTY
  ImplementsPageAllocator
