CONSTANTS Backlog = 1
          QueueCap = 1
          MaxFinals = 2
          MaxNear = 1
          PokeGaps = {"near", "far"}
SPECIFICATION Spec
INVARIANTS HiddenMeansAccepted ReadyAgain
PROPERTY NothingStale
CHECK_DEADLOCK FALSE
