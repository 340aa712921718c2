CONSTANTS
  Session = {a, b, c}
  MaxUsers = 2
  MaxOnline = 2
  n1 = n1
  n2 = n2
  TERM = TERM
  xterm = xterm
  Names = {n1}
  NoName = NoName
  EnvVars = {PATH, TERM}
  PATH = PATH
  Values = {BinDot, xterm}
  BinDot = BinDot
  Unset = Unset
  MaxFd = 18
  TempPipes = 1
  Inputs <- SerialInputs
  None = None
  MaxLines = 2
  Serial = TRUE
  Eof = FALSE
SPECIFICATION Spec
INVARIANTS NamesUnique HeardRight NoOrphanPipe NoSigPipe
PROPERTY Implements
SYMMETRY Sym
CHECK_DEADLOCK FALSE
