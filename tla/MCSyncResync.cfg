\* A client resync while the app hands in a callback.
CONSTANTS
  Threads = {a}
  Loop = loop
  MaxSession = 1
  Waiters = {w1}
  Policies = {"AfterChangesUploaded"}
  Errors = {"reset"}
  MaxRefs = 1
SPECIFICATION Spec
CHECK_DEADLOCK FALSE
INVARIANT ResyncLosesNoWait
