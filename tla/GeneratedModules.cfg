SPECIFICATION Spec
CONSTANTS
  b1 = b1
  b2 = b2
  Builds = {b1, b2}
  TitleOf <- MCTitleOf
  NameWords = 3
  MaxErrors = 1
  MaxCrashes = 1
INVARIANTS TypeOK PolicySawOwnFiles OfferedModuleIsWhole StubsSurviveCollisions
PROPERTIES ModulesComeToRest
CHECK_DEADLOCK FALSE
