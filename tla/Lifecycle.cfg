CONSTANTS
  Listeners = {l1, l2}
  MaxEvents = 2
  MaxRuns = 2
SPECIFICATION Spec
CHECK_DEADLOCK FALSE
INVARIANTS LeavesNothingBehind StopCallbacksRunOnce ThreadHasSession
PROPERTIES StopRequestsEndProcess
