SPECIFICATION FairSpec
CONSTANTS
  Counters = {c1}
  Gauges = {g1}
  PathUpdates = {p1}
  BatchUpdates = {}
  GRPCUpdates = {q1}
  Reads = {v1}
  Unencodable = {q1}
  IsRestore = FALSE
  Periodic = TRUE
  IOMayFail = TRUE
  MaxStarts = 1
INVARIANTS CleanStopSavesAll AnswerIsRecent
PROPERTIES ShutdownCompletes
