CONSTANTS
  BufferSize = 2
  Documents <- MCDocuments
  OpenOutcomes = {"ok", "ENOENT", "EACCES"}
  ReadMayFail = TRUE
  ParserCreateMayFail = TRUE

SPECIFICATION Spec

INVARIANT TypeOK
INVARIANT WholeFileFedBeforeFinalize
PROPERTY ParseTerminates
CHECK_DEADLOCK FALSE
