CONSTANTS RingCap = 1
          MaxChunks = 2
          InputCap = 1
          ControlCap = 4
          OutCap = 1
          EventCap = 1
          Ie115 = TRUE
          PeerFrames = {"ready", "completed"}
          MaxFrames = 2
SPECIFICATION Spec
INVARIANTS SpeechKept CompletedIsWhole DeadlineIsRight
PROPERTY KeepsPromise
CHECK_DEADLOCK FALSE
