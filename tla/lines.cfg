CONSTANTS
  User = {1, 2}
  Inputs <- LineInputs
  MaxLines = 4
  TempPipes = 3
  MaxFd = 50
  Pipes <- PipeNames
  Mixed = FALSE
  None = None
SPECIFICATION Spec
INVARIANTS TypeOK WaitEnds Remembered AsTyped
PROPERTY FedRight
CHECK_DEADLOCK FALSE
