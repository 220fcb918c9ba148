CONSTANTS
  Storers = {u, v}
  Movers = {m}
  Indexers = {i}
  Callers = {u, v, m}
  Users = {u, v, m, i}
  Clearers = {x}
  Keys = {k1, k2}
  Instances = {s1, s2}
  None = None
  StorePermits = 1
SPECIFICATION Spec
INVARIANTS LocksNest ClearMeetsNoRebuild ClearIsAlone OneHolderPerKey
PROPERTIES SectionsServed
