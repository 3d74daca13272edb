CONSTANTS
  Fields = {"f1", "f2"}
  Start = {"f1", "fake"}
  Ids = {"again"}
  MaxTexts = 2
  MaxEvents = 4
SPECIFICATION Spec
INVARIANTS OneField InOrder SecretKept HandsBack
PROPERTY Ends
CHECK_DEADLOCK FALSE
