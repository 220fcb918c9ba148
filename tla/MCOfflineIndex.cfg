CONSTANTS
  Files = {f}
  Trees = {t}
  None = None
  Followed = {}
SPECIFICATION Spec
INVARIANTS IndexIsStore CachesAreStore
PROPERTIES AnswersAreIndexed
