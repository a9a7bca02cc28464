CONSTANTS
  COLS = 3
  ROWS = 3
  Blank = blank
  Leftover = leftover
  Glyphs = {blank, x}

SPECIFICATION Spec

INVARIANTS
  TypeOK
  BlankBehindCursor

PROPERTY
  ImplementsDisplay
