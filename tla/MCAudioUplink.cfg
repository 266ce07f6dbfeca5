\* Chunks of two units, a queue of two, a ring that wraps, and Close at any moment.
SPECIFICATION Spec
CONSTANTS
  Chunk = 2
  Sizes <- HalfOrMore
  AudioCap = 2
  RingCap = 4
  PreRoll = 3
  MaxUnits = 6
\* The call ends: the reader on a read error, the sender after Close.
CHECK_DEADLOCK FALSE
INVARIANTS
  TypeOK
  ChunksInSequence
  PreRollIsLatest
  CrashOnlyByOverlap
PROPERTIES
  CloseEndsSender
