\* Every mode, connector and provider; what policy and recording do with it.
CONSTANTS
  p1 = p1
  p2 = p2
  Prices = {p1, p2}
  HoldSets <- NoneOrOneHold
  SignalSets <- AnyWords
  Shelves <- AllShelves
  Answers <- AnyAnswer
SPECIFICATION FairSpec
CHECK_DEADLOCK FALSE
INVARIANTS
  TypeOK
  OnlyApprovedRepliesAreQueued
  ExecutorAgrees
  RefusedDraftBecomesNote
  StatedPricesAreBacked
  TurnCommitsAsAWhole
PROPERTIES
  ImplementsTurn
  TurnEnds
