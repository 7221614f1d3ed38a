SPECIFICATION Spec
CONSTANTS
  Project = Project
  Design = Design
  Build = Build
  Task = {Project, Design, Build}
  Null = Null
  Open = Open
  Session = {s1, s2}
  Parent <- Tree
  Deps <- FirstSteps
  Minute = 2
  Ahead = 0
  PatchedDone = FALSE
  PatchedAhead = 0
  MaxTime = 4
  MaxSpent = 4
SYMMETRY SessionSymmetry
INVARIANTS
  OneOpenSession
  OneTaskAtATime
  TrackedTaskIsOpen
  SpentIsBooked
  FiguresFollow
