CONSTANTS
  n1 = n1
  n2 = n2
  n3 = n3
  c1 = c1
  c2 = c2
  Names = {n1, n2, n3}
  DefaultName = n1
  NoName = NoName
  Contents = {c1}
  Empty = Empty
  Torn = Torn
  MaxFiles = 2
  HalfGen = 2
SPECIFICATION FairSpec
PROPERTIES
  ImplementsAtomicStore
  SaveAnswered
