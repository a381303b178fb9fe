SPECIFICATION FairSpec
CONSTANTS
  Requests = {r1, r2, r3}
  Deliveries = {"turn", "again", "reply"}
  MessageIds = {1, 2}
  Feed <- ShortFeed
  Flags = {"paused", "assigned"}
  Ttl = 3
  MaxFailures = 1
PROPERTIES
  EveryRequestEnds
