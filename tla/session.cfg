SPECIFICATION Spec
CONSTANTS
  None = None
  Registry <- Layered
  Paths <- Tree
  Under <- UnderTree
  Children <- ChildrenInTree
  TypePath <- TypePaths
  Properties = {"Name", "SlotValue"}
  Probe <- System
  Echoing = {TRUE, FALSE}
  use_done = {TRUE, FALSE}
  MaxCommands = 5
  MaxLate = 1
  MaxCut = 1
CHECK_DEADLOCK FALSE
INVARIANTS TypeOK ConnectedIsAccepted GetShowsItsObject PromptReadIsTrue
PROPERTIES SilenceKeepsDone OnlyConfigurationWritten
