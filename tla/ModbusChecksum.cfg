SPECIFICATION Spec
INVARIANT RowsAreChecked
CONSTANTS
  Device <- MCDevice
  DevElf <- MCElf
  DevKarat <- MCKarat
  Depth <- MCDepth
  Tries = 3
  Nows = {9}
  HoursPerDay = 2
  DaysPerMonth = 2
  Faults = {"garbled"}
  MaxFaults = 0
  Size = 3
  Special = 2
  Used = {0, 1}
  Asks <- MCAsks
  Clients = 1
  MaxVersion = 0
