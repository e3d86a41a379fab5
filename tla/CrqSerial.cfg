\* One client at a time, every request, every fault.
CONSTANTS
  Conn = {c1, c2}
  Requests <- Kinds
  Faults = {"accept", "create", "db"}
  OneAtATime = TRUE
  None = None
SPECIFICATION FairSpec
INVARIANTS AnswersOwnRequest
PROPERTIES StaleOnlyAtReconnect ListensUnlessHeld
