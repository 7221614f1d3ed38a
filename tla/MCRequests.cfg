SPECIFICATION RequestSpec
CONSTANTS
  Project = Project
  Design = Design
  Task = {Project, Design}
  Null = Null
  Open = Open
  Session = {s1, s2}
  Parent <- Tree
  Deps <- NoSteps
  Minute = 2
  Ahead = 0
  PatchedDone = FALSE
  PatchedAhead = 0
  MaxTime = 3
  MaxSpent = 3
  Worker = {w1, w2}
  Together = {"stop"}
  SlowCommits = FALSE
PROPERTY OneByOne
