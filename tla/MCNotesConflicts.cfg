CONSTANTS
  Notes = {n1}
  Texts = {a, b, c}
  None = None
  NoBase = NoBase
  Unknown = Unknown
  Unreadable = Unreadable
  Deleted = Deleted
  EmptyQueue <- Empty
  MaxFlushes = 2
  MaxRejections = 3
  Faults = {"socket", "background", "clock"}
  MaxEdits = 2
  MaxRemote = 1
  MaxCrashes = 0
SPECIFICATION Spec
SYMMETRY Symmetry
\* The bounds stop what would go on.
CHECK_DEADLOCK FALSE
INVARIANTS MirrorAtRest AnswerIsAlone AskedOnce QueueIsUnsettledEdits SoloNeverConflicts
PROPERTIES OverwriteAnnounced
