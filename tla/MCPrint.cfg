SPECIFICATION FairSpec
CONSTANTS
  Chunks = 3
  RETRY_LIMIT = 2
  RESPONSE_CAPACITY = 2
  HeaderUnits = 1
  MaxSegments = 2
INVARIANTS TransportInv QueuedMeansPrinted RequestInOrder ResponseFaithful CollectedAnswerReported
PROPERTY Terminates
CHECK_DEADLOCK FALSE
