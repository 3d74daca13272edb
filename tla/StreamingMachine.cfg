CONSTANTS
  Cap = 6
  Overlap = 3
  Guard = 1
  MinDecode = 1
  Arm = 2
  SilenceRun = 1
  ForceCut = 5
  Drift = 1
  MaxOverlapWords = 5
  MaxWord = 3
  MaxTime = 8
  MaxChunk = 2
SPECIFICATION Spec
INVARIANTS NoWordTwice AudioCovered
PROPERTIES ChunkAbsorbed
CHECK_DEADLOCK FALSE
