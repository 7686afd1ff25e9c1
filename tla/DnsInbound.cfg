CONSTANTS
  Clients = {c1, c2}
  Ports = {1, 2}
  MaxRequests = 2
SPECIFICATION Spec
CHECK_DEADLOCK FALSE
INVARIANTS AnswersOwnQuestion DropsForAReason
PROPERTIES RequestsSettle
