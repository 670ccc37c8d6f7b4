SPECIFICATION Spec
CONSTANTS
  b1 = b1
  b2 = b2
  Builds = {b1}
  EventTypes = {"lifecycle"}
  PanelSize = 2
  SameOrigin = TRUE
  Torn = Torn
  MaxEvents = 1
  MaxCrashes = 0
  MaxLostWrites = 0
  MaxDrops = 0
PROPERTIES PanelTails
CHECK_DEADLOCK FALSE
