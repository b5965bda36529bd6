SPECIFICATION Spec
CONSTANTS
  Counters = {c1}
  SingleUpdates = {s1, s2}
  BatchUpdates = {}
  MaxRetries = 3
  AmbiguousCommit = FALSE
  None = None
INVARIANTS SingleAnswerIsTrue
