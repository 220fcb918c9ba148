CONSTANTS
  Users = {u1, u2}
  None = None
  Faults = {}
SPECIFICATION Spec
SYMMETRY Symmetry
INVARIANTS LeftIsListed
PROPERTIES OnlyLeftGoes
