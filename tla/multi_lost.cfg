CONSTANTS
  Session = {a, b, c}
  MaxUsers = 2
  MaxOnline = 2
  n1 = n1
  Names = {n1}
  NoName = NoName
  Inputs <- LostInputs
  None = None
  MaxLines = 2
  Serial = TRUE
  Eof = FALSE
SPECIFICATION Spec
PROPERTY NothingLost
CHECK_DEADLOCK FALSE
