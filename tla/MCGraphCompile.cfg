SPECIFICATION FairCompileSpec
CONSTANTS
  Graphs <- CompileGraphs
  MaxMatchRange = 2
  AutoSearch = TRUE
INVARIANTS CompiledPlanRuns PoolIsWhatWasPlanned NeverWorseThanUnshared
PROPERTY CompilationEnds
