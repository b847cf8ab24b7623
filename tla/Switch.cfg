SPECIFICATION SwitchSpec
CONSTANTS
  Roots = {r1, r2, r3}
  None = none
INVARIANTS
  WorkHoldsItsWorkspace
PROPERTIES
  NothingTrackedIsLost
  SwitchIsAnswered
