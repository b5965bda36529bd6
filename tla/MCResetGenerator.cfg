SPECIFICATION Spec
CONSTANTS
  Packages <- MCPackages
  Structs = {s, t}
  Shapes <- MCShapes
  MaxPooled = 2
SYMMETRY Symmetry
INVARIANTS GeneratorInv FilesOldOrNew SuccessIsCurrent PooledIsClean
PROPERTIES UseStopsGeneration
CHECK_DEADLOCK FALSE
