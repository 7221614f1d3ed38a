CONSTANTS
  Task = {t1, t2, t3, t4}
  Null = Null
  DoneParents = FALSE
SYMMETRY TaskSymmetry
SPECIFICATION ShapeSpec
INVARIANTS
  NeverCyclic
  RestComesLast
