SPECIFICATION FairSpec
CONSTANTS
  Containers = {"c1", "c2", "c3"}
  Projects = {"p1"}
  Started = {"c1", "c2"}
  SubTabs = {"info", "stats"}
  MaxEvents = 3
INVARIANTS
  Sound
  ClosedStaysClosed
PROPERTIES
  LeavesTheGone
CHECK_DEADLOCK FALSE
