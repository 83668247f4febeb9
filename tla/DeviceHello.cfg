CONSTANTS
  t1 = t1
  Threads = {t1}
  v1 = v1
  Values = {v1}
  None = None
  Cachings = {TRUE, FALSE}
  MaxItems = 1
  MaxCalls = 1
  Faults = {}
  MaxFaults = 0
SPECIFICATION Spec
CHECK_DEADLOCK FALSE
INVARIANT HelloIsReflected
