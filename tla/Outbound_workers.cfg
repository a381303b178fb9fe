SPECIFICATION FairSpec
CONSTANTS
  Messages = {1, 2}
  Workers = {w1, w2}
  Drafts <- OnlyReply
  StoredHolds = {}
  ChannelHolds = {}
  MaxAttempts = 2
  PublicDelay = 1
  RetryDelay = 1
  HumanTtl = 0
  PostReplyStatus = "resolved"
  Faults = {"crash", "safety_read_error"}
  MaxDeaths = 2
INVARIANTS
  ExclusiveClaim
  AttemptBudget
  LedgerMatchesChannel
  StrandedOnlyByDeath
PROPERTIES
  ImplementsDelivery
  EveryRowSettles
  QueuedReplySuperseded
  ImplementsFairDelivery
