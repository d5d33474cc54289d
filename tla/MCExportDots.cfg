CONSTANTS
  n1 = n1
  n2 = n2
  c1 = c1
  c2 = c2
  Names = {n1, n2}
  DefaultName = n1
  NoName = NoName
  Contents = {c1, c2}
  Empty = Empty
  Torn = Torn
  MaxFiles = 2
  HalfGen = 2
  MaxBadSlots = 0
  TransientReads = FALSE
  DotNames = {n2}
SYMMETRY Symmetry
SPECIFICATION MediaSpec
INVARIANTS
  ExporterAgrees
