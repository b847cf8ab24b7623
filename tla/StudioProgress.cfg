CONSTANTS
  e1 = e1
  e2 = e2
  j1 = j1
  j2 = j2
  j3 = j3
  event = event
  other = other
  render = render
  cpu = cpu
  Ids = {e1, e2}
  Kinds = {render}
  Pools = {cpu}
  Jobs = {j1, j2}
  Locks = {event}
  Stoppable = {}
  Counted = {}
  Unguarded = {}
  KeepFinished = 0
  None = None
  NoEntry = NoEntry
  Corrupt = Corrupt
  Outside = Outside
  Pending = Pending
  NoJob = NoJob
  PoolOf <- MCPoolOf
  Builds <- MCBuilds
  LimitChoices <- MCTwoAtOnce
  LocksOf <- MCOneLocked

SPECIFICATION FairStudioSpec

PROPERTIES
  EndedWorkIsRecorded
  NothingEligibleIsForgotten
