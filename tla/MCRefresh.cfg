CONSTANTS
  Editions = {"old", "new"}
  MaxSaves = 3
  Overlap = TRUE
SPECIFICATION PrepareSpec
INVARIANT SavesKept
CHECK_DEADLOCK FALSE
