SPECIFICATION Spec
INVARIANTS
  TypeOK
  LossesAreHarmless
  
  RepliesAreTrue
PROPERTIES
  Realigned
  OnlyFirstClient
  Answered
CONSTANTS
  Device <- MCDevice
  DevElf <- MCElf
  DevKarat <- MCKarat
  Depth <- MCDepth
  Tries = 3
  Nows = {9}
  HoursPerDay = 2
  DaysPerMonth = 2
  Faults = {"unheard", "lost", "late", "garbled", "refused"}
  MaxFaults = 2
  Size = 3
  Special = 2
  Used = {0, 1}
  Asks <- MCAsks
  Clients = 2
  MaxVersion = 1
