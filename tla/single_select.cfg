CONSTANTS
  Session = {a, b, c}
  MaxUsers = 2
  MaxOnline = 2
  n1 = n1
  n2 = n2
  TERM = TERM
  xterm = xterm
  Names = {n1}
  NoName = NoName
  EnvVars = {PATH}
  PATH = PATH
  Values = {BinDot}
  BinDot = BinDot
  Unset = Unset
  MaxFd = 25
  TempPipes = 1
  Inputs <- SelectInputs
  None = None
  MaxLines = 2
  Serial = FALSE
  Eof = TRUE
SPECIFICATION Spec
PROPERTY SelectSeesAllReady
CHECK_DEADLOCK FALSE
