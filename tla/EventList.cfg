SPECIFICATION FairSpec
CONSTANTS
  User = {u1, u2}
  NoUser = NoUser
  MaxAdds = 3
  MaxClears = 1
INVARIANTS TypeOK CountsMatch NoSleepWithWork OneOwner HandledInOrder GoneIsEmpty
PROPERTIES PriorityRespected EveryEventFreed DestroyEnds
CHECK_DEADLOCK FALSE
