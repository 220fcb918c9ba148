CONSTANTS
  Files = {f}
  Trees = {t}
  None = None
  Followed = {f, t}
SPECIFICATION Spec
INVARIANT RemovedStaysRemoved
