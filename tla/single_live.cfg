CONSTANTS
  Session = {a, b, c, d}
  MaxUsers = 2
  MaxOnline = 2
  n1 = n1
  n2 = n2
  TERM = TERM
  xterm = xterm
  Names = {n1}
  NoName = NoName
  EnvVars = {PATH}
  PATH = PATH
  Values = {BinDot}
  BinDot = BinDot
  Unset = Unset
  MaxFd = 35
  TempPipes = 1
  Inputs <- LiveInputs
  None = None
  MaxLines = 1
  Serial = FALSE
  Eof = FALSE
SPECIFICATION FairSpec
INVARIANT OneHolder
PROPERTY LineServed
CHECK_DEADLOCK FALSE
