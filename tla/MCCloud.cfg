CONSTANTS
  Threshold = 2
  Grace = FALSE
  StopMayFail = FALSE
  MaxGen = 2
  MaxLines = 3
  MaxMishap = 2
SPECIFICATION Spec
INVARIANTS NeverByDoubt CardTrue
PROPERTY RefusalActedOn
