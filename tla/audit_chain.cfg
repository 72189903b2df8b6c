SPECIFICATION Spec
CONSTANTS
  Threads = {t1, t2}
  Kinds = {"plain", "locked", "pair"}
  Isolation = "sqlite"
  MaxEvents = 5
  MaxEdits = 1
  Nobody = Nobody
CHECK_DEADLOCK FALSE
INVARIANTS TypeOK LockedEventsLink EditIsFlagged
PROPERTIES VerdictIsStable
