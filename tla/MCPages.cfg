SPECIFICATION Spec
CHECK_DEADLOCK FALSE
CONSTANTS
  MaxEdits <- MCMaxEdits
  Default = 60
  p1 = p1
  p2 = p2
  p3 = p3
  Part = {p1, p2, p3}
  NoPart = NoPart
  Outlines <- MCOutlines
  Typed = {20}
  Estimates = {100}
  Spent = {10}
  TokenTime = 30
  MaxRows = 4
  MaxSaves = 1
  Words = {"w"}
  Offered <- MCOffered
  Ranges <- MCRanges
  Names = {"a", "b"}
  MaxElsewhere = 1
  LinkedTasks <- MCLinked
  Dependencies <- MCDependencies
  Filters <- MCFilters
  r1 = r1
  r2 = r2
  Row = {r1, r2}
  NoRow = NoRow
  AltGrs = {TRUE, FALSE}
  MaxLinks = 2
  grand = grand
  sub = sub
  step = step
  Task = {grand, sub, step}
  NewTask = NewTask
  NoTask = NoTask
  Known <- MCKnown
  Walk <- MCWalk
  Headers = {"", "x"}
  Hours <- MCHours
  FormDeadlines <- MCFormDeadlines
  Starts = {19}
  Now = 10
  MaxNumber = 2
  Texts = {"a", "b"}
  Keys = {1, 2}
  MaxTyped = 3
  MaxZoom = 4
  Margin = 8
  Frames <- MCFrames
  NoFrame = NoFrame
  Pointers = {0, 16}
  Places = {0, 48}
  Short = TRUE
  NoScroll = NoScroll
  NoPinch = NoPinch
  NoBurst = NoBurst
  Mixed = Mixed
  ZoomDay = 24
  ZoomHeights = {32, 64}
  ZoomEvents = 4
  Quarter = 2
  ClickLength = 4
  Touching = 1
  Plans <- MCPlans
  Columns = {0, 1}
  FirstDay = 0
  LastDay = 1
  PageDay = 16
  PageHeights = {3, 15}
  PageEvents = 3
  MaxAlternatives = 2
  MaxComputed = 3
  MaxOpened = 2
  Minute = 2
  DayLength = 6
  Sessions <- MCSessions
  Dates = {0, 1}
  Header = {"a", "b"}
  Description = {"x"}
  Deadlines = {1, 2}
  holiday = holiday
  Markers = {holiday}
  DateOf <- MCDateOf
  NoDate = NoDate
INVARIANTS NoPartIsLost SharesAddUp RedIsTheLastRefusal ModeIsChosen PreviewIsOfTheRule
  CardsSideBySide 
PROPERTIES  LeavesOnlySaved KeepsItsPlace  CancelledPlansNothing
  LeftAloneIsKept
