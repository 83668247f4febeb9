\* Two runs, two calls at once, any three faults.
SPECIFICATION FairSpec
CONSTANTS
  r1 = r1
  r2 = r2
  c1 = c1
  c2 = c2
  Runs <- TwoRuns
  EventIds <- ThreeEvents
  EventsOf <- TwoReports
  Slots <- TwoCalls
  ConfirmRetries = 1
  Faults = {"agent", "server", "net", "ingest", "save", "disk", "artifact"}
  MaxFaults = 3
INVARIANTS
  TypeOK
  DeliveryInv
  SentIsRecorded
  SentIsRemembered
  BookedOnceInTurn
PROPERTIES
  ImplementsCustody
  FinishedIsDelivered
