CONSTANTS
  Samples <- MCSamples
  Shapes <- MCShapes
  UniqTypes = {"syscall", "cwd"}
  FieldLists <- MCFieldLists
  ExecveFields <- MCExecveFields
  NormFields <- MCNormFields
  MaxArgs = 2
  MaxIdx = 2
  MaxItems = 2
  MaxRecords = 4
SPECIFICATION Spec
INVARIANTS
  WellFormed
  BeginningKept
  AllThere
