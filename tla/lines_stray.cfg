CONSTANTS
  User = {1, 2}
  Inputs <- StrayInputs
  MaxLines = 3
  TempPipes = 3
  MaxFd = 50
  Pipes <- PipeNames
  Mixed = TRUE
  None = None
SPECIFICATION Spec
INVARIANT PipedInto
CHECK_DEADLOCK FALSE
