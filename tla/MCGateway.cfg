CONSTANTS
  COM1 = COM1
  Port = {COM1}
  Client = {c1, c2}
  To <- ToPort
  MaxFault = 2
  MaxReload = 1
SPECIFICATION Spec
INVARIANTS UartCovered OneExchange PublishedTrue
PROPERTIES Served StopEnds
CHECK_DEADLOCK FALSE
