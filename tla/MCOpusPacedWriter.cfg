\* Order, loss, the refinement and that every call returns, across a Close: two writers, of
\* which the session also flushes, and a Reset, on a queue of two frames.
SPECIFICATION FairSpec
CONSTANTS
  session = session
  beep = beep
  teardown = teardown
  control = control
  nobody = nobody
  Nobody = nobody
  Writers <- MCWriters
  Flushers <- MCFlushers
  Resetters <- MCResetters
  Closers <- MCClosers
  FrameSamples = 2
  FramesCap = 2
  SilenceFrames = 1
  MaxSamples = 3
INVARIANTS
  TypeOK
  PlaysInOrder
  NothingLost
PROPERTIES
  ImplementsSink
  ResetCompletes
  CallersReturn
