CONSTANTS
  BufferSize = 2
  Documents <- MCDocuments
  OpenOutcomes = {"ok", "ENOENT", "EACCES"}
  ReadMayFail = TRUE
  ParserCreateMayFail = TRUE

SPECIFICATION Spec

CHECK_DEADLOCK FALSE
INVARIANT ParseFailureReported
