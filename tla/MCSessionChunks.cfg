\* One turn of up to two chunks: writes, resets, the spoken text, and that turns and loop end.
SPECIFICATION FairSpec
CONSTANTS
  control = control
  engine = engine
  Bargers <- MCOneBarger
  Engine = engine
  MaxUtterances = 1
  MaxChunks = 2
  PcmCap = 2
  SinkCap = 2
\* Once the loop has returned nothing is left to do.
CHECK_DEADLOCK FALSE
INVARIANTS
  AtMostOneLateBuffer
  SilencedButForOneBuffer
  HistoryOnlyWritten
PROPERTIES
  StopsAfterCancel
  ImplementsConversation
