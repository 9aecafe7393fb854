SPECIFICATION FairSpec
CONSTANTS
  a = a
  b = b
  c = c
  NoPath = NoPath
  NoAst = NoAst
  Name = {"a", "b", "c", "alias", "missing"}
  Path <- MCPath
  FileSystems <- MCFileSystems
  MaxCalls = 2
  MaxImports = 2
INVARIANTS TypeOK IInv LoadedAcyclic DepsAccountedFor CleanMeansComplete
PROPERTIES LoadedIsStable ImplementsGraph CallReturns
CHECK_DEADLOCK FALSE
