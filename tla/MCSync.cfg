\* One app thread, which holds a session or not, and the event loop at one session object.
CONSTANTS
  Threads = {a}
  Loop = loop
  MaxSession = 1
  Waiters = {w1}
  Policies = {"Immediately", "AfterChangesUploaded"}
  Errors = {"expired", "badAuth", "denied", "reset"}
  MaxRefs = 1
SPECIFICATION Spec
\* A failed assertion ends the app, and threads may wait on each other.
CHECK_DEADLOCK FALSE
INVARIANTS TypeOK WaitersKept WaitersRegistered
PROPERTY UploadedWhenDead
