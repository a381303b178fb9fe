SPECIFICATION FairSpec
CONSTANTS
  Messages = {1}
  Workers = {w1, w2}
  Drafts <- OnlyReply
  StoredHolds = {}
  ChannelHolds = {"paused"}
  MaxAttempts = 2
  PublicDelay = 1
  RetryDelay = 1
  HumanTtl = 1
  PostReplyStatus = "unset"
  Faults = {"safety_read_error"}
  MaxDeaths = 1
PROPERTIES
  ClaimIsResolved
