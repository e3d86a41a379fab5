\* One Tekon driver and one other driver.
CONSTANTS
  Walkers = {w}
  Stampers = {s}
  Span = 2
  Lag = 1
  Start = 3
  Horizon = 5
  None = None
SPECIFICATION Spec
INVARIANTS MisdatedAsNow
 
