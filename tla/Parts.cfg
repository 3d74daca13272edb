CONSTANTS
  RingCap = 2
  MaxChunks = 4
  InputCap = 1
  ControlCap = 4
  OutCap = 1
  EventCap = 1
  Ie115 = TRUE
  PeerFrames = {"ready", "completed_empty", "error", "other", "malformed"}
  MaxFrames = 3
  MaxItems = 2
  Backlog = 8
  MaxPresses = 3
  MaxRepeats = 3
  Sessions = {s1, s2}
  MaxLoads = 3
  RestartBudget = 5
  MaxDaemon = 6
  Quanta = {2, 4}
  Tolerance = 1
  Confirm = 4
  RtCap = 2
  Skips = {0, 2}
  MaxBuffers = 4
  MaxTurns = 1
  Renderers = {r1, r2}
  Budget = 1
  MaxOwners = 3
  MaxEnables = 2
  Models = {m1, m2}
  Streamers = {m1}
  Choices = {"None", "Streaming"}
  Showable = {"notice"}
  MaxNames = 3
  Visible = {"recording", "notice", "error"}
  Snaps = {"Model"}
  MaxOdd = 1
  Texts = {"", "de", "en"}
  MaxEdits = 2
  MaxElsewhere = 1
  Pieces = {"a", "b"}
  EncFrames = 3
  PerFrame = 2
  Durations = {0, 1, 2}
  Attempts = 2
  MaxVanish = 2
  Keys = {"j", "k"}
  MaxRebinds = 1
SPECIFICATION Spec
INVARIANTS CaptureReported WireContract UserHeard ShownIsSo OneModel HudPromised
PROPERTIES PartsDeliver
CHECK_DEADLOCK FALSE
