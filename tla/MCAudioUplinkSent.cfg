\* The comment at handler.go:249 against the code.
SPECIFICATION Spec
CONSTANTS
  Chunk = 2
  Sizes <- HalfOrMore
  AudioCap = 2
  RingCap = 4
  PreRoll = 3
  MaxUnits = 6
\* The reader ends on a read error, the sender after Close.
CHECK_DEADLOCK FALSE
INVARIANT SentAsCaptured
