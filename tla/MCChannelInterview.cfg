SPECIFICATION Spec
CONSTANTS
  r1 = r1
  r2 = r2
  r3 = r3
  e1 = e1
  e2 = e2
  i1 = i1
  i2 = i2
  None = None
  Requests = {r1, r2, r3}
  Events = {e1, e2}
  Ids = {i1, i2}
  MaxTurns = 2
  MaxSegments = 5
  MaxCrashes = 1
SYMMETRY Symmetric
INVARIANTS SameAnswer OneTurnPerEvent OneInterview TurnsKept
CHECK_DEADLOCK FALSE
