SPECIFICATION Spec
CONSTANTS
  Versions = {v1, v2}
  Reviewed = {v1}
  Reviewers = {r1, r2}
  Required = 2
  MaxRows = 2
  Threads = {t1, t2}
  Isolation = "sqlite"
  Nobody = Nobody
INVARIANTS TypeOK AtMostOneActive ActiveIsCleared StatusFollowsDecisions
PROPERTIES Answered
