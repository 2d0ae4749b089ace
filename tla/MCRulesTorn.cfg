CONSTANTS
  s1 = s1  s2 = s2  l1 = l1  None = None
  Scenario = {s1}
  Load = {l1}
  Row <- Rows
  MaxEdit = 1
  MaxDeath = 0
SPECIFICATION Spec
INVARIANT NothingTorn
