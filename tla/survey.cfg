SPECIFICATION Spec
CONSTANTS
  None = None
  Objects <- AllObjects
  Rank <- RankOf
  Root <- RootListing
  Children <- Lists
  Schema <- Access
  FALLBACK_ROOTS <- Fallback
  Calls <- CallSet
  MaxLost = 1
  MaxStray = 1
CHECK_DEADLOCK FALSE
INVARIANTS TypeOK WithinBudget Complete CountsInstances WriteOnlyReported
PROPERTIES Terminates
