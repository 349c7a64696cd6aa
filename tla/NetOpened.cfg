SPECIFICATION Spec
CONSTANTS
  Caller = {c1, c2}
  FD_SIZE_MAX = 2
  Opening = {"socket"}
  Op = {"setoption", "recv"}
  Blocking = {"recv"}
  MaxCalls = 4
  MaxFaults = 1
INVARIANTS OpenedIsOpen
CHECK_DEADLOCK FALSE
