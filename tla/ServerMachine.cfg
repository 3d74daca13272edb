CONSTANTS
  Capacity = 1
  MaxCommits = 3
  MaxChunks = 1
  Tailed = {1, 3}
SPECIFICATION Spec
INVARIANTS OwnItem OwnAudio Bounded
PROPERTIES AckedIsAnswered LostCloses
CHECK_DEADLOCK FALSE
