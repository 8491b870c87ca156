SPECIFICATION Spec
CONSTANTS
  Graphs <- RuntimeGraphs
  DataNode = 0
  Data <- DataValues
  range = 2
  MaxParams = 2
  Unset <- UnsetCell
  Garbage <- GarbageCell
  Kernel <- Hash
INVARIANTS ReadsIntact ParamsSurvive
PROPERTIES ImplementsDataflow EveryCallReturns
CHECK_DEADLOCK FALSE
