SPECIFICATION FairSpec
CONSTANTS
  Chunks = 3
  RETRY_LIMIT = 2
  RESPONSE_CAPACITY = 2
  HeaderUnits = 1
  MaxSegments = 2
INVARIANT RejectedMeansNotTaken
CHECK_DEADLOCK FALSE
