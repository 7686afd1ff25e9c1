CONSTANTS
  Wrong = Wrong
  Roots <- MCRoots
  Sources <- MCSources
  Literals <- MCLiterals
  Slashed <- MCSlashed
INIT Init
NEXT Next
CHECK_DEADLOCK FALSE
INVARIANTS OnlyNullRulesRefused
