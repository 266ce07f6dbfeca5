\* A call over HTTP or the WebSocket, from the first frame to its teardown.
SPECIFICATION Spec
CONSTANTS
  call = call
  nobody = nobody
  first = first
  second = second
  Call = call
  Nobody = nobody
  Tracks <- TwoTracks
  WsTracks <- OneTrack
  MaxChanges = 2
  MaxMessages = 2
  InboxCap = 1
  MaxCandidates = 1
\* The call ends, or the process does.
CHECK_DEADLOCK FALSE
INVARIANTS
  TypeOK
  ReuseNeedsReopening
  ReturnsClosed
PROPERTIES
  TeardownCompletes
  CloseEndsSessions
  ByeEndsCall
  FailureCloses
