SPECIFICATION Spec
CONSTANTS
  b1 = b1
  h1 = h1
  h2 = h2
  ws1 = ws1
  ws2 = ws2
  Nobody = Nobody
  Builds = {b1}
  Workspaces = {ws1, ws2}
  Hosts = {h1, h2}
  Agents <- MCAgents
  WorkspaceOf <- MCWorkspaceOf
  Queue <- MCQueue
  MaxStarts = 2
  MaxLosses = 1
  MaxLostWrites = 1
  MaxTears = 1
  Torn = Torn
INVARIANTS TypeOK HeldByClaimant RunsAreBounded SucceededRan
PROPERTIES QueuedJobsMove KeepsPromise
CHECK_DEADLOCK FALSE
