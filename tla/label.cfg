SPECIFICATION Spec
CONSTANTS
  None = None
  Writers <- TcpWriter
  TypeOf <- TypeOfOneTcp
  Creatable <- AllCreatable
  Typeids = {1, 2}
  Endpoints = {"a", "b"}
  Values = {"on", "off"}
  Labels = {"true", "True"}
  Exprs = {"e", "f"}
  ScalarForm <- FoldedLabels
  Fresh = "off"
  Tasks <- LabelTask
  InitObjects <- LabelObjects
  InitRotation <- OnlyNone
  MaxIgnored = 0
  MaxLost = 0
  MaxDrops = 0
INVARIANTS HonestRunSucceeds
