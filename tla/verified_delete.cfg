SPECIFICATION Spec
CONSTANTS
  None = None
  Writers <- TwoWriters
  TypeOf <- TypeOfTwo
  Creatable <- AllCreatable
  Typeids = {1, 2}
  Endpoints = {"a", "b"}
  Values = {"on", "off"}
  Labels = {"x", "y"}
  Exprs = {"e", "f"}
  ScalarForm <- PlainLabels
  Fresh = "off"
  Tasks <- RetireTask
  InitObjects <- RetireObjects
  InitRotation <- OnlyNone
  MaxIgnored = 1
  MaxLost = 2
  MaxDrops = 0
INVARIANTS VerifiedIsReal
