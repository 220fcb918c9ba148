CONSTANTS
  EmptyQueue = {}
  MaxFlushes = 2
  Chats = {c1, c2}
  MaxMessages = 2
  MaxMishaps = 2
  MaxRejections = 2
  None = None
SPECIFICATION Spec
INVARIANTS AtMostOnce NothingVanishes WithdrawnStaysOut SavedSurvives
PROPERTIES ArrivesInOrder SendsAnswered
