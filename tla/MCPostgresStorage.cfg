SPECIFICATION FairSpec
CONSTANTS
  Counters = {c1, c2}
  SingleUpdates = {s1}
  BatchUpdates = {b1, b2}
  MaxRetries = 1
  AmbiguousCommit = FALSE
  None = None
INVARIANTS IInv BatchIsAtomic BatchAnswerIsTrue
PROPERTIES RequestsAreAnswered
