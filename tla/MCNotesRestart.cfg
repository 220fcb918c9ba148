CONSTANTS
  Notes = {n1, n2}
  Texts = {a, b}
  None = None
  NoBase = NoBase
  Unknown = Unknown
  Unreadable = Unreadable
  Deleted = Deleted
  EmptyQueue <- Empty
  MaxFlushes = 2
  MaxRejections = 3
  Faults = {}
  MaxEdits = 2
  MaxRemote = 0
  MaxCrashes = 1
SPECIFICATION Spec
SYMMETRY Symmetry
\* The bounds stop what would go on.
CHECK_DEADLOCK FALSE
INVARIANTS QueueIsUnsettledEdits SavedSurvives
