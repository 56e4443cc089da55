\* Pages opened for expressions, most of which their panels can show, edited and saved.
CONSTANTS
  Parts = {"minute", "month"}
  EveryNParts = {"minute"}
  Boxes <- MCBoxes
  Numbers = {0, 2}
  MaxNumber = 59
  Specials = {"@hourly"}
  Hourly = "@hourly"
  NoSpecial = ""
  Stored <- MCStored
SPECIFICATION Spec
INVARIANTS
  TypeOK
  FormIsSchedule
  PanelsShowSchedule
PROPERTIES
  SavedSchedulesOpen
