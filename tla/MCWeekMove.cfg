SPECIFICATION Spec
CHECK_DEADLOCK FALSE
CONSTANTS
  t1 = t1
  t2 = t2
  t3 = t3
  b1 = b1
  b2 = b2
  b3 = b3
  Task = {t1, t2, t3}
  Null = Null
  NoBucket = NoBucket
  Day = 8
  MinSlice = 2
  Frames <- MCFrames
  Lists <- MCLists
  Links <- MCLinks
  Orders <- MCOrders
  Estimates = {4}
  Horizon = 9
  MaxOps = 2
PROPERTY MoveKeepsDuration
