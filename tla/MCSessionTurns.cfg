\* Two turns of one chunk: what a BargeIn may do to the next turn.
SPECIFICATION Spec
CONSTANTS
  control = control
  engine = engine
  Bargers <- MCBargers
  Engine = engine
  MaxUtterances = 2
  MaxChunks = 1
  PcmCap = 1
  SinkCap = 1
INVARIANTS
  TypeOK
  MarkedIffBarged
  BargeInv
