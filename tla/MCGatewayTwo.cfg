CONSTANTS
  COM1 = COM1
  Port = {COM1, COM2}
  Client = {c1, c2}
  To <- ToPort
  MaxFault = 2
  MaxReload = 1
SPECIFICATION Spec
INVARIANTS TypeOK UartCovered OneExchange PublishedTrue NothingLeaked
CHECK_DEADLOCK FALSE
