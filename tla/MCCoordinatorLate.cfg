CONSTANTS
  r1 = r1
  n1 = n1
  Realms = {r1}
  Notifiers = {n1}
  Owner <- OneOwner
  MaxVersion = 3
  MaxToken = 1
  CallbacksWrite = {}
  NewOnesLeave = FALSE
  FirstIsLate = TRUE
SPECIFICATION Spec
INVARIANT NothingLost
CHECK_DEADLOCK FALSE
