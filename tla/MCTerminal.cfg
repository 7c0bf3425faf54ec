SPECIFICATION TermSpec
CONSTANTS
  VGA_WIDTH = 3
  RowMod = 8
  Messages <- MCMessages
INVARIANTS CursorBehindText
