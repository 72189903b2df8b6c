SPECIFICATION Spec
CONSTANTS
  Loop = loop
  Handlers = {h1}
  MaxDeliveries = 2
  MaxAttempts = 2
  Limit = 1
  MaxOperations = 3
  Null = Null
CHECK_DEADLOCK FALSE
INVARIANTS TypeOK DeliveredMeansAcked AttemptsWereMade GivenUpForAReason
PROPERTIES SentAgainForAReason SettledForGood EveryDeliverySettles
