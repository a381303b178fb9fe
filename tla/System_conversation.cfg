\* Two turns, one worker, an operator who acts once, and one fault, be it a
\* death, a failed send, a repeated delivery or a restart in another mode.
CONSTANTS
  Turns = {1, 2}
  Media = {}
  Workers = {w1}
  NoTurn = NoTurn
  MaxActions = 1
  MaxFaults = 1
SPECIFICATION FairSpec
CHECK_DEADLOCK FALSE
INVARIANTS
  TypeOK
  PausedTurnGetsNothing
  ModeBoundsEffects
PROPERTIES
  LabelStopsReplies
  RepliesKeepOrder
  TurnsComeToRest
  DeliversOnce
