SPECIFICATION Spec
CONSTANTS
  DevLk <- MCDevLk
  DevBit <- MCDevBit
  Strays = {}
  Protocol = 3
  Alarm = 1
  Faults = {"lost", "late", "garbled", "short"}
  Mortal = {1}
  MaxUpsets = 1
  None = "none"
INVARIANTS
  RowsAreEarned
  ConcentratorStaysUp
PROPERTIES
  OnlyOwnRows
  DeadIsShown
