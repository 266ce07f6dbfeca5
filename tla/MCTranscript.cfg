\* Two transcripts, two overlapping callbacks, a Termination and a Close.
SPECIFICATION Spec
CONSTANTS
  reader = reader
  closer = closer
  nobody = nobody
  first = first
  second = second
  Reader = reader
  Closer = closer
  Nobody = nobody
  Callbacks <- TwoCallbacks
  SILENCE = 1
  EXTENSION = 1
  GRACE = 1
  FinalizeCap = 1
  Rewrites <- MCRewrites
  Continuations <- SecondWord
  MaxConnects = 2
  MaxUpdates = 3
\* The process may panic, and after Close nothing more happens.
CHECK_DEADLOCK FALSE
SYMMETRY Symmetry
INVARIANTS
  TypeOK
  NoLostWakeup
  NoWordLost
  NoWordTwice
  CrashOnlyOnceClosing
PROPERTIES
  NeverFinalizesEarly
