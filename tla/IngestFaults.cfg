\* Two runs, two worker threads, room for two dedupe entries, any two faults.
SPECIFICATION Spec
CONSTANTS
  h1 = h1
  h2 = h2
  Handlers <- Two
  EventIds <- ThreeIds
  Event <- ThreeEvents
  MaxEventIds = 2
  MaxEventHistory = 2
  Faults = {"elab", "blank", "patch", "save", "crash"}
  MaxFaults = 2
  MaxCalls = 3
SYMMETRY Symmetric
INVARIANTS
  TypeOK
  OneActiveRunEvent
  SerialCountedOnce
  AckedIsReflected
  NoCrossRun
PROPERTIES
  SerialNoDowngrade
  SettledIsFinal
  ImplementsLedger
CHECK_DEADLOCK FALSE
