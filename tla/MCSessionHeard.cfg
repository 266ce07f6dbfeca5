\* The comment at session.go:247 against the code.
SPECIFICATION Spec
CONSTANTS
  control = control
  engine = engine
  Bargers <- MCBargers
  Engine = engine
  MaxUtterances = 1
  MaxChunks = 2
  PcmCap = 1
  SinkCap = 2
INVARIANT HistoryWasHeard
