SPECIFICATION Spec
CONSTANTS
  a1 = a1
  b1 = b1
  b2 = b2
  ws1 = ws1
  ws2 = ws2
  Nobody = Nobody
  Torn = Torn
  Builds = {b1, b2}
  Workspaces = {ws1, ws2}
  Agents = {a1}
  RequestModes = {"managed_api", "chatgpt_edge"}
  Paths <- MCPaths
  Profile = "standard"
  NumArtifacts = 2
  TornWrites = FALSE
  MaxDecisions = 1
  MaxDeployments = 0
  MaxJobs = 1
  MaxCrashes = 0
  MaxLostWrites = 0
INVARIANTS UnreviewedOutcome ClaimsInOrder
PROPERTIES JobsNeverRewind BuildSettles
CHECK_DEADLOCK FALSE
