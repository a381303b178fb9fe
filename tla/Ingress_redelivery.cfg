SPECIFICATION Spec
CONSTANTS
  Requests = {r1, r2, r3}
  Deliveries = {"turn", "again", "reply", "resolve", "snooze", "snoozed", "contact"}
  MessageIds = {1, 2, 3}
  Feed <- RedeliveredTurn
  Flags = {"paused", "assigned"}
  Ttl = 3
  MaxFailures = 1
SYMMETRY SymmetricRequests
INVARIANTS
  TypeOK
  OneRunPerTurn
  RawEventTellsOutcome
  AbandonedOnlyByFailure
  SuppressionSurvives
PROPERTIES
  EventsAreStored
  ImplementsIntake
