\* A draft that quotes two prices.
CONSTANTS
  p1 = p1
  p2 = p2
  Prices = {p1, p2}
  HoldSets <- NoHold
  SignalSets <- NoWords
  Shelves <- FewShelves
  Answers <- PublicAnswers
SPECIFICATION Spec
CHECK_DEADLOCK FALSE
INVARIANT OnlySafePricesQuoted
