\* Overlaps and growth over windows of three and two frames, the filter filled meanwhile.
SPECIFICATION Spec
CONSTANTS
  Words <- MCWords
  Stopwords <- MCStopwords
  Slot <- MCSlot
  Heard <- MCHeard
  Chunks <- MCChunks
  Partials <- MCPartials
  ASRTokens = 2
  OnWindow = 3
  OffWindow = 2
INVARIANTS
  TriggersOnOverlap
PROPERTIES
  GrowthCountsOnce
