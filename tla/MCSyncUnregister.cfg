\* The same without errors of the server.
CONSTANTS
  Threads = {a}
  Loop = loop
  MaxSession = 1
  Waiters = {w1}
  Policies = {"AfterChangesUploaded"}
  Errors = {}
  MaxRefs = 1
SPECIFICATION Spec
CHECK_DEADLOCK FALSE
INVARIANT NothingUnregisteredTwice
