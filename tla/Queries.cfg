SPECIFICATION Spec
CONSTANTS
  Ids = {o1, o2}
  None = None
SYMMETRY IdSymmetry
CHECK_DEADLOCK FALSE
INVARIANTS NothingMissed StatusWasTrue ToldInOrder OnlyEmptyArraysLeak OwnFields
