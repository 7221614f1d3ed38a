SPECIFICATION Spec
CHECK_DEADLOCK FALSE
CONSTANTS
  Call = {c1, c2}
  MaxWatched = 1
  MaxFaults = 1
  MaxOthers = 1
  PlanAccepted = TRUE
  LoadedFirst = TRUE
  LeavesEarly = FALSE
 
PROPERTY SettlesDown
