\* A reliable poller, and one whose stop check its own switch gates.
CONSTANTS
  Slots = {"tek", "ce303"}
  Equipped = {"tek", "ce303"}
  Tid = {t1, t2}
  None = None
SPECIFICATION FairSpec
PROPERTIES EnabledRuns ShutdownDrains SwitchedOffStops
