CONSTANTS
  r1 = r1
  n1 = n1
  Realms = {r1}
  Notifiers = {n1}
  Owner <- OneOwner
  MaxVersion = 3
  MaxToken = 2
  CallbacksWrite = {"last"}
  NewOnesLeave = FALSE
  FirstIsLate = FALSE
SPECIFICATION Spec
INVARIANTS TypeOK WorkerAssertions NothingLost
PROPERTIES ToldAsOfRealm
CHECK_DEADLOCK FALSE
