SPECIFICATION Spec
CONSTANTS
  Messages = {1, 2}
  Workers = {w1}
  Drafts <- AllDrafts
  StoredHolds = {"assigned"}
  ChannelHolds = {"resolved"}
  MaxAttempts = 2
  PublicDelay = 1
  RetryDelay = 1
  HumanTtl = 1
  PostReplyStatus = "resolved"
  Faults = {"crash"}
  MaxDeaths = 1
INVARIANTS
  TypeOK
  RespectsStandingHolds
PROPERTIES
  SettledIsFinal
