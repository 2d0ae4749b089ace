CONSTANTS
  j1 = j1
  Port = {COM1}
  Job = {j1}
  Client = {c1}
  None = None
  MaxTarget = 1
  MaxTry = 2
  MaxMishap = 0
  MaxRequest = 1
SPECIFICATION Spec
PROPERTY CancelOnlyBlocked
CHECK_DEADLOCK FALSE
