CONSTANTS
  route = route
  worker = worker
  render = render
  studio = studio
  cli = cli
  Tasks = {route, worker, render}
  Pids = {studio, cli}
  Absent = Absent
  PidOf <- MCPidOf

SPECIFICATION FairLockSpec

INVARIANTS
  RefusalsHaveAHolder
PROPERTIES
  StaleLocksAreTakenOver
