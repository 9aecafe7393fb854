SPECIFICATION FairSpec
CONSTANTS
  P = P
  P2 = P2
  Q = Q
  NoPath = NoPath
  NoAst = NoAst
  Name = {"p", "./p", "q", "none"}
  Path = {P, P2, Q}
  Projects <- MCProjects
  PackageOrder <- MCPackageOrder
  IntMax = 127
  U32 = 256
INVARIANTS AcceptsByTheRules ScopedDirectives IRMeansSource HeaderInOrder ExitTells
PROPERTIES IdsAreStable CompilerEnds
