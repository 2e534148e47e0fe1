SPECIFICATION Spec
CONSTANTS
  None = None
  Writers <- MixedWriters
  TypeOf <- TypeOfMixed
  Creatable <- NoListener
  Typeids = {1, 2}
  Endpoints = {"a", "b"}
  Values = {"on", "off"}
  Labels = {"x", "y"}
  Exprs = {"e", "f"}
  ScalarForm <- PlainLabels
  Fresh = "off"
  Tasks <- MixedTasks
  InitObjects <- MixedObjects
  InitRotation <- AnyRotation
  MaxIgnored = 1
  MaxLost = 0
  MaxDrops = 1
INVARIANTS SuccessIsReal DriftIsReal HonestRunSucceeds
PROPERTIES OnlyIntendedDeletes DiffComesTrue
