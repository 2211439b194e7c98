SPECIFICATION Spec
CONSTANTS
  MaxSize = 7
  MarkLen = 1
  HeaderLens = {1, 8}
  Records = {"execve", "path"}
  TextShapes <- MCTextShapes
  DataShapes <- MCDataShapes
  RecordShapes <- MCRecordShapes
  NormShapes <- MCNormShapes
INVARIANTS VoidsLowestPriority
\* An event that cannot be trimmed enough ends the program.
CHECK_DEADLOCK FALSE
