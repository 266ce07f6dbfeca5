\* Every text is finalized and Close returns.
SPECIFICATION FairSpec
CONSTANTS
  reader = reader
  closer = closer
  nobody = nobody
  first = first
  second = second
  Reader = reader
  Closer = closer
  Nobody = nobody
  Callbacks <- OneCallback
  SILENCE = 1
  EXTENSION = 1
  GRACE = 1
  FinalizeCap = 1
  Rewrites = {}
  Continuations <- SecondWord
  MaxConnects = 1
  MaxUpdates = 3
\* The process may panic, and after Close nothing more happens.
CHECK_DEADLOCK FALSE
PROPERTIES
  FinalizesEventually
  CloseReturns
