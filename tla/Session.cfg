CONSTANTS
  MaxUp = 2
  MaxDown = 2
SPECIFICATION Spec
CHECK_DEADLOCK FALSE
INVARIANTS UpstreamIntact DownstreamIntact NothingAbandoned
PROPERTIES PeerCloseEndsSession
