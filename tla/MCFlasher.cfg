CONSTANTS
  j1 = j1
  Port = {COM1}
  Job = {j1, j2}
  Client = {c1}
  None = None
  MaxTarget = 2
  MaxTry = 2
  MaxMishap = 1
  MaxRequest = 2
SPECIFICATION Spec
INVARIANTS OneTalker ActiveRegistered Reported
PROPERTY JobEnds
CONSTRAINT j1First
CHECK_DEADLOCK FALSE
