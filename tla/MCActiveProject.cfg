CONSTANTS
  Task = {t1, t2, t3}
  Null = Null
  DoneParents = FALSE
SYMMETRY TaskSymmetry
SPECIFICATION ActiveSpec
INVARIANTS
  NoOpenInDone
PROPERTIES
  ActiveStaysOpen
  HandedUpwards
