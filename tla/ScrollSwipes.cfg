CONSTANTS
  Sizes <- MCSizes
  RailStart <- MCRailStart
  Pages = {}
  WheelSteps <- MCWheelSteps
  Line = 1
  Page = 2
  Children <- MCChildren
  MaxPresses = 1
  Nodes = {"left", "right"}
  Points <- MCPoints
  MaxFingers = 2
  MaxNotch = 2
SPECIFICATION TouchSpec
INVARIANTS
  NoTugOfWar
  GlobalTouchIsReal
PROPERTIES
  ContentFollowsFinger
  GlidesEnd
CHECK_DEADLOCK FALSE
