SPECIFICATION Spec
CONSTANTS
  Threads = {t1}
  Kinds = {"pair"}
  Isolation = "sqlite"
  MaxEvents = 2
  MaxEdits = 0
  Nobody = Nobody
CHECK_DEADLOCK FALSE
INVARIANTS UneditedChainIntact
