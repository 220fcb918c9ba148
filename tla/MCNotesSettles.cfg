CONSTANTS
  Notes = {n1}
  Texts = {a, b}
  None = None
  NoBase = NoBase
  Unknown = Unknown
  Unreadable = Unreadable
  Deleted = Deleted
  EmptyQueue <- Empty
  MaxFlushes = 1
  MaxRejections = 3
  Faults = {"requestFails", "offline"}
  MaxEdits = 1
  MaxRemote = 1
  MaxCrashes = 1
SPECIFICATION FairSpec
\* The bounds stop what would go on.
CHECK_DEADLOCK FALSE
PROPERTIES EditsSettle
