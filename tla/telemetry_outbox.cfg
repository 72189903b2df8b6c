SPECIFICATION ClientSpec
CONSTANTS
  Loop = loop
  Handlers = {h1}
  MaxEvents = 3
  Limit = 2
  MaxOperations = 3
  Null = Null
  Clients = {c1, c2}
  Kinds = {"check", "log", "change", "comment"}
  MaxAttempts = 2
CHECK_DEADLOCK FALSE
INVARIANTS ClientTypeOK SentMeansReceived ResentForAReason KeptOnce AnswersAreTrue RepeatedForAReason
PROPERTIES SettledForGood EveryEventSettles EveryCallEnds ImplementsOutbox
