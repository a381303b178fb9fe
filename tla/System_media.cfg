\* The last message of the customer is an attachment.
CONSTANTS
  Turns = {1, 2}
  Media = {2}
  Workers = {w1}
  NoTurn = NoTurn
  MaxActions = 0
  MaxFaults = 0
SPECIFICATION Spec
CHECK_DEADLOCK FALSE
INVARIANT MediaIsHandedOff
