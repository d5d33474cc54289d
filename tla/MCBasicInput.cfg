CONSTANTS
  Capacity = 2
  Reload = 3
  Day = 4
  MaxWait = 2
  MaxSent = 4
SPECIFICATION FairSpec
INVARIANTS RingInv
PROPERTIES WaitInTime SuffixKeptOut EscapeStops Yields ImplementsKeyboard
