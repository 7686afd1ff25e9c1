CONSTANTS
  Addresses = {a1, a2, a3}
  MaxRecords = 2
SPECIFICATION Spec
CHECK_DEADLOCK FALSE
INVARIANTS FirstReachable GivesUpForAReason
PROPERTIES ConnectEnds
