\* An echo of words that the agent announced with their punctuation.
SPECIFICATION Spec
CONSTANTS
  Words <- MCWords
  Stopwords <- MCStopwords
  Slot <- MCSlot
  Heard <- MCHeard
  Chunks <- MCChunks
  Partials <- MCPartials
  ASRTokens = 2
  OnWindow = 3
  OffWindow = 2
INVARIANTS
  EchoIsNoGrowth
