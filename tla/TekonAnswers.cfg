\* Answers that may be late.
CONSTANTS
  Chans = 1
  Span = 2
  Lag = 1
  Ring = 8
  First = 3
  Start = 6
  Horizon = 6
  HourSlot <- RingSlot
  Alarm = 1
  Faults = {"late"}
  MaxChan = 1
  None = None
SPECIFICATION Spec
INVARIANT AnswersItsRequest
