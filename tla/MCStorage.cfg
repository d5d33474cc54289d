CONSTANTS
  n1 = n1
  n2 = n2
  n3 = n3
  c1 = c1
  c2 = c2
  Names = {n1, n2, n3}
  DefaultName = n1
  NoName = NoName
  Contents = {c1, c2}
  Empty = Empty
  Torn = Torn
  MaxFiles = 3
  HalfGen = 2
SYMMETRY Symmetry
SPECIFICATION Spec
INVARIANTS
  IInv
  MemoryIntact
  HeadersVouch
  AckedIsDurable
PROPERTIES
  FallbackKept
