SPECIFICATION Spec
CONSTANTS
  Counters = {c1, c2}
  Gauges = {}
  PathUpdates = {p1}
  BatchUpdates = {b1}
  GRPCUpdates = {q1}
  Reads = {}
  Unencodable = {}
  IsRestore = TRUE
  Periodic = TRUE
  IOMayFail = TRUE
  MaxStarts = 2
SYMMETRY Symmetry
INVARIANTS TypeOK AckedIsCounted IInv BatchesAreWhole
PROPERTIES FileNeverForgets ImplementsDurableStore
