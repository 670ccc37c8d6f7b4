SPECIFICATION Spec
CONSTANTS
  a1 = a1
  b1 = b1
  ws1 = ws1
  Nobody = Nobody
  Torn = Torn
  Builds = {b1}
  Workspaces = {ws1}
  Agents = {a1}
  RequestModes = {"managed_api"}
  Paths <- MCPaths
  Profile = "standard"
  NumArtifacts = 2
  TornWrites = FALSE
  MaxDecisions = 2
  MaxDeployments = 0
  MaxJobs = 0
  MaxCrashes = 0
  MaxLostWrites = 0
PROPERTIES ReviewDecisionSticks
CHECK_DEADLOCK FALSE
