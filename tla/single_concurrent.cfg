CONSTANTS
  Session = {a, b, c, d, e}
  MaxUsers = 2
  MaxOnline = 2
  n1 = n1
  n2 = n2
  TERM = TERM
  xterm = xterm
  Names = {n1}
  NoName = NoName
  EnvVars = {PATH}
  PATH = PATH
  Values = {BinDot}
  BinDot = BinDot
  Unset = Unset
  MaxFd = 7
  TempPipes = 1
  Inputs <- TalkInputs
  None = None
  MaxLines = 1
  Serial = FALSE
  Eof = TRUE
SPECIFICATION Spec
INVARIANTS TypeOK IdsUnique HeardRight Selected
SYMMETRY Sym
VIEW View
CHECK_DEADLOCK FALSE
