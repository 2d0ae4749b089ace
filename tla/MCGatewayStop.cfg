CONSTANTS
  COM1 = COM1
  Port = {COM1}
  Client = {c1, c2}
  To <- ToPort
  MaxFault = 0
  MaxReload = 1
SPECIFICATION Spec
PROPERTY StopWaitsForUart
CHECK_DEADLOCK FALSE
