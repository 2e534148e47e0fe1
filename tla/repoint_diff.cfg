SPECIFICATION Spec
CONSTANTS
  None = None
  Writers <- TcpWriter
  TypeOf <- TypeOfOneTcp
  Creatable <- AllCreatable
  Typeids = {1, 2}
  Endpoints = {"a", "b"}
  Values = {"on", "off"}
  Labels = {"x", "y"}
  Exprs = {"e", "f"}
  ScalarForm <- PlainLabels
  Fresh = "off"
  Tasks <- RepointUnlistedTask
  InitObjects <- RepointUnlistedObjects
  InitRotation <- OnlyNone
  MaxIgnored = 0
  MaxLost = 0
  MaxDrops = 0
PROPERTIES DiffComesTrue
