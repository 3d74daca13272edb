CONSTANTS Backlog = 1
          QueueCap = 2
          MaxFinals = 1
          MaxNear = 1
          PokeGaps = {"far"}
SPECIFICATION Spec
INVARIANT NextTapIsPress
CHECK_DEADLOCK FALSE
