\* The comment in _update_run_event, two threads, no fault.
SPECIFICATION Spec
CONSTANTS
  h1 = h1
  h2 = h2
  Handlers <- Two
  EventIds <- TwoIds
  Event <- TwoEvents
  MaxEventIds = 2
  MaxEventHistory = 4
  Faults = {}
  MaxFaults = 0
  MaxCalls = 2
SYMMETRY Symmetric
PROPERTIES
  NoDowngrade
CHECK_DEADLOCK FALSE
