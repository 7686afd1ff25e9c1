CONSTANTS
  FlowKeys = {k1, k2}
  NoKey = NoKey
  FirstPort = 1
  PortSpan = 2
  MaxSessions = 0
  MaxConns = 3
INIT Init
NEXT Next
SYMMETRY KeySymmetry
CHECK_DEADLOCK FALSE
INVARIANTS PacketsFindTheirFlow LiveSessionsKept LeaksComeFromStrayPackets
