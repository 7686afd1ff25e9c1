CONSTANTS
  FlowKeys = {k1, k2}
  NoKey = NoKey
  FirstPort = 1
  PortSpan = 3
  MaxSessions = 1
  MaxDatagrams = 2
  MaxFlows = 3
SPECIFICATION Spec
CHECK_DEADLOCK FALSE
INVARIANTS FlowsHaveSessions
PROPERTIES QueuedDatagramsLeave PacketThreadExits
