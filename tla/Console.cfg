SPECIFICATION ConsoleSpec
CONSTANTS
  a1 = a1
  b1 = b1
  b2 = b2
  r1 = r1
  ws1 = ws1
  Nobody = Nobody
  NoBuild = NoBuild
  Torn = Torn
  Builds = {b1}
  Reviewers = {r1}
  Workspaces = {ws1}
  Agents = {a1}
  RequestModes = {"managed_api", "chatgpt_edge"}
  Paths <- MCPaths
  Profile = "standard"
  NumArtifacts = 1
  TornWrites = TRUE
  MaxDecisions = 2
  MaxDeployments = 1
  MaxJobs = 0
  MaxCrashes = 1
  MaxLostWrites = 0
  MaxLosses = 1
INVARIANTS ConsoleTypeOK ConfirmedIsKept
PROPERTIES FreshApproval ConsoleSettles
CHECK_DEADLOCK FALSE
