SPECIFICATION Spec
CONSTANTS
  b1 = b1
  b2 = b2
  Builds = {b1, b2}
  EventTypes = {"lifecycle", "policy"}
  PanelSize = 2
  SameOrigin = TRUE
  Torn = Torn
  MaxEvents = 3
  MaxCrashes = 2
  MaxLostWrites = 1
  MaxDrops = 1
INVARIANTS TypeOK StreamIsExact ForgottenEvents
PROPERTIES EventsArrive
CHECK_DEADLOCK FALSE
