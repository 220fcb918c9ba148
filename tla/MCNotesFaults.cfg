CONSTANTS
  Notes = {n1}
  Texts = {a, b}
  None = None
  NoBase = NoBase
  Unknown = Unknown
  Unreadable = Unreadable
  Deleted = Deleted
  EmptyQueue <- Empty
  MaxFlushes = 1
  MaxRejections = 3
  Faults = {"requestFails", "lostReply", "lateFetch", "rejects", "unreadable", "deletes"}
  MaxEdits = 2
  MaxRemote = 1
  MaxCrashes = 0
SPECIFICATION Spec
SYMMETRY Symmetry
\* The bounds stop what would go on.
CHECK_DEADLOCK FALSE
INVARIANTS QueueIsUnsettledEdits
