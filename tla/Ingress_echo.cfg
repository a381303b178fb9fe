SPECIFICATION Spec
CONSTANTS
  Requests = {r1, r2}
  Deliveries = {"turn", "own"}
  MessageIds = {1, 2}
  Feed <- OnlyOwnReply
  Flags = {"paused", "assigned"}
  Ttl = 3
  MaxFailures = 0
INVARIANTS
  OnlyHumansSuppress
