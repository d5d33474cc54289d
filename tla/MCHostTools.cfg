SPECIFICATION ToolSpec
CONSTANTS
  i1 = i1
  i2 = i2
  l1 = l1
  l2 = l2
  e1 = e1
  f1 = f1
  f2 = f2
  r1 = r1
  r2 = r2
  MaxEdits = 2
  Contents <- MCContents
  NoImage = NoImage
  Images = {i1, i2}
  Launchers = {l1, l2}
  MaxWork = 1
  Exporters = {e1}
  Prompts = 3
  Commands = 1
  SavedFiles = 2
  PackageNames = {"A.BAS", "B.BAS"}
  PackageSlots = 3
  Fetchers = {f1, f2}
  Releases = {r1, r2}
  Editions = {"old", "new"}
  MaxSaves = 3
  Overlap = FALSE
  NameSize = 6
INVARIANTS
  OnlyFinishedDisks 
  SessionTrue ImportedMeansThere NothingLeftBehind
  ExportedMeansWhole ImageWorks CatalogPinned SavesKept
  TypedNamesKept CatalogNamesAgree
PROPERTIES
  RuntimeCreatedOnce BundleCreatedOnce ImportCreatedOnce OthersKept
CHECK_DEADLOCK FALSE
