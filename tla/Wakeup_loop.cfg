\* Two workers, a debounce longer than the interval, one death.
CONSTANTS
  Rows = {r1, r2}
  Workers = {w1, w2}
  NoRow = NoRow
  Interval = 2
  Limit = 1
  PublicDelay = 3
  RetryDelay = 1
  MaxAttempts = 2
  MaxDeaths = 1
SPECIFICATION FairSpec
INVARIANTS
  TypeOK
  NeverOversleeps
  RetriesAreAwaited
PROPERTIES
  RowsAreTaken
