SPECIFICATION PowerSpec
INVARIANTS
  PowerTypeOK
  RowsAreOwn
  CeNamesProtect
PROPERTIES
  SilenceKeepsLink
  EachIsAsked
  MonthsArrive
CONSTANTS
  Span <- MCSpan
  HoursPerDay = 1
  DaysPerMonth = 2
  Depth = 2
  Faults = {"lost", "late", "garbled", "refused", "matched", "port"}
  MaxFaults <- MCFaults
  MerTable <- MCMer
  MerPlaces = 16
  MonthsPerYear = 3
  SetYears = {1}
  MerParams <- MCMerParams
  MerLimit = 2
  CeTable <- MCCe
  CeParams <- MCCeParams
  DevCe <- MCCe
