CONSTANTS
  FirstYear = 108
  LastYear = 113
  Span = 5
SPECIFICATION Spec
\* The last hour of LastYear has no successor.
CHECK_DEADLOCK FALSE
INVARIANTS DatesKeepPace
PROPERTIES HourSlotAdvances RecordsAdvance
