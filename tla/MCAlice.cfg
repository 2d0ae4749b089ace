CONSTANTS
  MaxGen = 2
  MaxFault = 1
  MaxHalt = 1
SPECIFICATION Spec
PROPERTIES EraseBeforeCard OwedIsPaid UnlinkedLifts
