SPECIFICATION FairSpec
CONSTANTS
  None = None
  Writers <- TwoWriters
  TypeOf <- TypeOfTwo
  Creatable <- AllCreatable
  Typeids = {1, 2}
  Endpoints = {"a", "b"}
  Values = {"on", "off"}
  Labels = {"x", "y"}
  Exprs = {"e", "f"}
  ScalarForm <- PlainLabels
  Fresh = "off"
  Tasks <- CutoverTasks
  InitObjects <- CutoverObjects
  InitRotation <- AnyRotationOrNone
  MaxIgnored = 1
  MaxLost = 2
  MaxDrops = 1
INVARIANTS TypeOK CutoverSafe IInv
PROPERTIES CutoverSpec UnlistedKept HeldRunWritesNothing Reconciled
