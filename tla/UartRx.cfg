SPECIFICATION FairSpec
CONSTANTS
  RING_SIZE = 4
  READ_MAX = 3
  PARSE_MAX = 2
  DeviceCap = 4
  MaxBytes = 8
INVARIANTS TypeOK ParsedInOrder NothingLost ChecksStayTrue
PROPERTIES WrittenIsParsed FinalizeStops
CHECK_DEADLOCK FALSE
