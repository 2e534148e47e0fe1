SPECIFICATION FairSpec
CONSTANTS
  None = None
  Tokens <- AllTokens
  Lines <- AllLines
  Blank <- BlankLine
  normalise_scalar <- Forms
  Docs <- SomeDocs
  Factory <- Stock
  Layouts <- Pages
  Targets <- AllTargets
  Values <- AllValues
  InitLive <- LiveValues
  Managers = {"manage"}
  desired <- Desires
  Comparing = {"manage"}
  Tasks = {"a", "b"}
  Told = {"a"}
  rotation <- Asked
  MaxEdits = 1
  MaxBoots = 1
  MaxFaults = 1
INVARIANTS TypeOK
PROPERTIES WorksOnTheScript SaveIsAskedFor NoSilentRevert BootChangesAreReported Settles
