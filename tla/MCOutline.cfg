SPECIFICATION Spec
CHECK_DEADLOCK FALSE
CONSTANTS
  t1 = t1
  t2 = t2
  t3 = t3
  c1 = c1
  Task = {t1, t2, t3}
  Null = Null
  Call = {c1}
  Resting = {t1}
  Unestimated = {t2, t3}
  Passing = {t1}
  Active = {Null, t1}
  MaxDone = 1
  MaxOps = 2
  MaxDeletes = 1
  LateUndo = FALSE
  Hasty = FALSE
  DrawDone = TRUE
SYMMETRY Symmetry
INVARIANTS NothingJumps DeletionsGoOn
PROPERTIES DeletedOnlyIfWanted DropLandsWhereShown UndoRestores
