SPECIFICATION Spec
CONSTANTS
  a1 = a1
  b1 = b1
  ws1 = ws1
  Nobody = Nobody
  Torn = Torn
  Builds = {b1}
  Workspaces = {ws1}
  Agents = {a1}
  RequestModes = {"managed_api"}
  Paths <- MCPaths
  Profile = "standard"
  NumArtifacts = 2
  TornWrites = TRUE
  MaxDecisions = 1
  MaxDeployments = 0
  MaxJobs = 0
  MaxCrashes = 1
  MaxLostWrites = 0
PROPERTIES HistoryOnlyGrows
CHECK_DEADLOCK FALSE
