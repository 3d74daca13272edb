CONSTANTS RingCap = 1
          MaxChunks = 1
          InputCap = 1
          ControlCap = 4
          OutCap = 1
          EventCap = 1
          Ie115 = TRUE
          PeerFrames = {"ready", "completed"}
          MaxFrames = 2
SPECIFICATION Spec
PROPERTIES AlwaysReturns AllReleased
CHECK_DEADLOCK FALSE
