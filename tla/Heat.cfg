SPECIFICATION Spec
INVARIANTS
  TypeOK
  KmRowsAreTrue
  IrpRowsAreOwn
  RefusedDatesAreHarmless
PROPERTIES
  RecordsArrive
  SilenceIsNoticed
CONSTANTS
  Span <- MCSpan
  HoursPerDay = 3
  DaysPerMonth = 2
  Depth = 5
  Faults = {"lost", "late", "garbled", "refused"}
  MaxFaults <- MCFaults
  KmDevices = {1}
  DevKm <- MCDevKm
  KmAlarm = 3
  DevVkt = 1
  DevIrp <- MCDevIrp
  Places = 6
  DaysPerYear = 7
  IrpAlarm = 6
