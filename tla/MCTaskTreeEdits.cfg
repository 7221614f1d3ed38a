CONSTANTS
  Task = {t1, t2, t3}
  Null = Null
  DoneParents = TRUE
SYMMETRY TaskSymmetry
SPECIFICATION EditSpec
INVARIANTS
  NoDependencyCycle
PROPERTIES
  AutoCompletion
  SubtasksStayNested
  MeasurementsKept
