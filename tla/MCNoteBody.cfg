CONSTANTS
  MaxPerItem = 2
  Faults = {"requestFails", "lostReply"}
  MaxVersions = 4
  MaxEarly = 3
  MaxPushes = 3
  MaxGaps = 1
SPECIFICATION Spec
INVARIANTS ReopenIsCurrent EchoesAreOurs
PROPERTIES PushStays
CHECK_DEADLOCK FALSE
