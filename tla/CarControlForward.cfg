SPECIFICATION HistSpec
CONSTANTS
  Byte <- MCByte
  Command <- MCCommandAll
INVARIANT NotForwardWhileBraking
