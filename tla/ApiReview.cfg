SPECIFICATION Spec
CONSTANTS
  a1 = a1
  b1 = b1
  b2 = b2
  ws1 = ws1
  Nobody = Nobody
  Torn = Torn
  Builds = {b1, b2}
  Workspaces = {ws1}
  Agents = {a1}
  RequestModes = {"managed_api"}
  Paths <- MCPaths
  Profile = "standard"
  NumArtifacts = 2
  TornWrites = FALSE
  MaxDecisions = 2
  MaxDeployments = 2
  MaxJobs = 0
  MaxCrashes = 0
  MaxLostWrites = 0
SYMMETRY MCSymmetry
INVARIANTS TypeOK ReleaseBudget ApprovalStands
PROPERTIES ImplementsGate
CHECK_DEADLOCK FALSE
