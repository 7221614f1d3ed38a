SPECIFICATION Spec
CONSTANTS
  Project = Project
  Design = Design
  Build = Build
  Task = {Project, Design}
  Null = Null
  Open = Open
  Session = {s1, s2}
  Parent <- Tree
  Deps <- FirstSteps
  Minute = 2
  Ahead = 3
  PatchedDone = TRUE
  PatchedAhead = 1
  MaxTime = 3
  MaxSpent = 3
SYMMETRY SessionSymmetry
INVARIANTS
  OverlapWithinSlack
  SpentCoversSessions
