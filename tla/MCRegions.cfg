SPECIFICATION KmemSpec
CONSTANTS
  r1 = r1
  r2 = r2
  r3 = r3
  Procs <- MCProcs
  Rgids <- MCRgids
  PoolIds <- MCPoolIds
  Sizes <- MCSizes
  PoolSizes <- MCPoolSizes
  Aligns <- MCAligns
  PAGESZ = 2
  MaxBrk = 5
CONSTRAINTS
  NoneMisused
  FewLost
SYMMETRY Symmetry
INVARIANTS
  KmemTypeOK
  OwnersDisjoint
  FreeListSeparated
  CopyIsPrefix
PROPERTIES
  ImplementsAllocator
