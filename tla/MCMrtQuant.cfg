SPECIFICATION SpecAny
CONSTANTS
  MAX_BIT = 14
  Thresholds = {0, 1, 3, 12}
  LeafThresholds = {0, 1, 5}
  InputPrec = 3
  NarrowPrec = 3
  WidePrec = 5
  OutputPrec = 3
  TablePrec = 5
  SoftmaxPrec = 6
  ExpPrec = 7
  softmax_lambd = 2
  shift_bits = 2
  Terms = {1, 4}
  Ops <- CountedOps
  MaxNodes = 4
  ZeroAdds = FALSE
  Generations = {1, 2}
INVARIANTS PrecisionHonest FitsWord ScaleTruthful InputsKeepThreshold ClipKeepsThreshold
