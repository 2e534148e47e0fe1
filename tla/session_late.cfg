SPECIFICATION Spec
CONSTANTS
  None = None
  Registry <- Layered
  Paths <- Tree
  Under <- UnderTree
  Children <- ChildrenInTree
  TypePath <- TypePaths
  Properties = {"Name", "SlotValue"}
  Probe <- System
  Echoing = {TRUE}
  use_done = {TRUE}
  MaxCommands = 5
  MaxLate = 1
  MaxCut = 0
CHECK_DEADLOCK FALSE
INVARIANTS TreeShowsItsObjects
