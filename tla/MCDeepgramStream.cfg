\* A stream of three buffers through a channel of two, failures, a cancel and the deadline.
SPECIFICATION FairSpec
CONSTANTS
  main = main
  watcher = watcher
  Main = main
  Watcher = watcher
  PcmCap = 2
  IDLE = 1
  DEADLINE = 3
  MaxAudio = 3
INVARIANTS
  StoppedOnceUnlessCancelled
PROPERTIES
  WatcherEnds
  ImplementsStream
