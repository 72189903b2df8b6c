SPECIFICATION Spec
CONSTANTS
  Tenants = {a, b}
  Threads = {t1, t2}
  Cap = 2
  Window = 4
  Second = 2
  MaxDelay = 1
  MaxTime = 8
CHECK_DEADLOCK FALSE
INVARIANTS TypeOK WindowIsCapped
PROPERTIES RefusedOnlyWhenFull RoomSoonAfterRetry
