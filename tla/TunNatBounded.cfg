CONSTANTS
  FlowKeys = {k1, k2, k3, k4}
  NoKey = NoKey
  FirstPort = 2
  PortSpan = 6
  MaxSessions = 2
SPECIFICATION MCSpec
INVARIANTS TypeOK CopiesAgree NeverHangs
PROPERTIES EvictsLeastRecentlyUsed AbstractSpec
