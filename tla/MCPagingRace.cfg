SPECIFICATION Spec
CONSTANTS
  p1 = p1
  p2 = p2
  Procs <- MCProcs
  Rgids <- MCRgids
  Sizes <- MCSizes
  PAGESZ = 1
  MaxBrk = 4
  RamFrames = 2
  SwpFrames = 2
CONSTRAINT AreasBounded
SYMMETRY Symmetry
INVARIANT SwapFrameTakenOnce
