\* Four messages, three values of created_at.
CONSTANTS
  Times = {1, 2, 3}
  Ids <- NumberedIds
SPECIFICATION Spec
CHECK_DEADLOCK FALSE
INVARIANTS
  TypeOK
  LastTurnIsLeft
