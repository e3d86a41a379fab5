\* Lost answers, failing inserts, one restart in the process, crashes.  The
\* ring has turned at hour 8, and the first walks end at record 0.
CONSTANTS
  Chans = 2
  Span = 1
  Lag = 1
  Ring = 8
  First = 7
  Start = 9
  Horizon = 10
  HourSlot <- RingSlot
  Alarm = 1
  Faults = {"lost"}
  MaxChan = 4
  None = None
SPECIFICATION FairSpec
INVARIANTS LinkTruthful
PROPERTIES LedgerSpec CatchesUp
