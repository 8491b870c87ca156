SPECIFICATION Spec
CONSTANTS
  Models <- BiasedNorm
  InitPasses <- AllPasses
  SlicePasses <- ToSlices
  CompilePasses <- ToCvm
  FLOAT_BITS = 12
  INT32_MAX = 2000
  CONV_MAXIMUM_SIZE = 5
  MATRIX_MAXIMUM_SIZE = 2
  MAXIMUM_SIZE = 4
INVARIANT SemanticsKept
