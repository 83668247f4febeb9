\* Every policy on every device, two faults, a second run after the first.
SPECIFICATION Spec
CONSTANTS
  Groups = {1, 2}
  Positions = {1, 2, 3}
  Hosts <- AllHosts
  MaxFaults = 2
  Programs <- Policies
  MaxRuns = 2
INVARIANTS
  TypeOK
  RadioInTurn
  ReportMatchesSpool
CHECK_DEADLOCK FALSE
