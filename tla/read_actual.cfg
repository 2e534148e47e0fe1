SPECIFICATION Spec
CONSTANTS
  None = None
  Writers <- OneWriter
  TypeOf <- TypeOfOne
  Creatable <- AllTypes
  Typeids = {1, 2}
  Endpoints = {"a"}
  Values = {"on", "off"}
  Labels = {"x"}
  Exprs = {"e", "f"}
  ScalarForm <- PlainLabels
  Fresh = "off"
  Stored <- AnyStored
  KnowsMaxDepth = TRUE
CHECK_DEADLOCK FALSE
INVARIANTS TypeOK AtomicReadCovers AnsweredReadIsTrue
