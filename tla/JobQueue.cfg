CONSTANTS
  e1 = e1
  e2 = e2
  e3 = e3
  render = render
  cpu = cpu
  Ids = {e1, e2, e3}
  Kinds = {render}
  Pools = {cpu}
  Jobs = {}
  KeepFinished = 1
  None = None
  NoEntry = NoEntry
  Corrupt = Corrupt
  PoolOf <- MCPoolOf
  Builds <- MCBuilds
  LimitChoices <- MCLimits

SPECIFICATION Spec
SYMMETRY MCSymmetry

INVARIANTS
  MemoryIsOnDisk
  OnlySatisfiedWorkStarts

PROPERTIES
  PrerequisitesAreKept
