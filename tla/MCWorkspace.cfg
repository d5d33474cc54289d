CONSTANTS
  n1 = n1
  n2 = n2
  x = x
  Names = {n1, n2}
  NoName = NoName
  Chars = {x}
  Capacity = 4
  MaxFiles = 1
  Catalogs <- MCCatalogs
  Addresses = {default}
  DefaultPrinter = default
SPECIFICATION Spec
INVARIANTS LinesWhole
PROPERTIES EnterOnce ImplementsNotebook
