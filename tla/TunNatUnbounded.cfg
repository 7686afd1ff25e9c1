CONSTANTS
  FlowKeys = {k1, k2, k3, k4}
  NoKey = NoKey
  FirstPort = 2
  PortSpan = 5
  MaxSessions = 0
SPECIFICATION MCSpec
PROPERTIES AbstractSpec
