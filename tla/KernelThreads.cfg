\* A poller behind two switches, a server that may end by itself or in
\* set-up, and a poller that has no device.
CONSTANTS
  Slots = {"mer", "crq", "lk"}
  Equipped = {"mer", "crq"}
  Tid = {t1, t2, t3}
  None = None
SPECIFICATION Spec
SYMMETRY AnyThread
INVARIANTS OneThreadPerSlot FlagTruthful
PROPERTY StrandedStays
