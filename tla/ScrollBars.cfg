CONSTANTS
  Sizes <- MCSizes
  RailStart <- MCRailStart
  Pages = {0, 3}
  WheelSteps <- MCWheelSteps
  Line = 1
  Page = 2
  Children <- MCChildren
  MaxPresses = 2
SPECIFICATION Spec
INVARIANTS
  TypeOK
  BarsAreAccurate
  DragsEnd
PROPERTIES
  EventsScrollOnce
  ThumbFollowsMouse
  RailLeadsToMouse
CHECK_DEADLOCK FALSE
