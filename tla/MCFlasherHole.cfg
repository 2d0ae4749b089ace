CONSTANTS
  j1 = j1
  Port = {COM1}
  Job = {j1}
  Client = {c1}
  None = None
  MaxTarget = 1
  MaxTry = 2
  MaxMishap = 1
  MaxRequest = 0
SPECIFICATION Spec
INVARIANT WholeFirmware
CHECK_DEADLOCK FALSE
