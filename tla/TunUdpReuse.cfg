CONSTANTS
  FlowKeys = {k1, k2}
  NoKey = NoKey
  FirstPort = 1
  PortSpan = 2
  MaxSessions = 1
  MaxDatagrams = 4
  MaxFlows = 3
INIT Init
NEXT Next
SYMMETRY KeySymmetry
CHECK_DEADLOCK FALSE
INVARIANTS MisdeliveryNeedsPortReuse TearsDownOwnFlow DroppedFlowsAreClosed QueueHasItsSender InOrder
