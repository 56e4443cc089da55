CONSTANTS
  N = 3
  Opened = 1
  MaxHandlers = 3
SPECIFICATION Spec
INVARIANTS
  TypeOK
  NoneIsLocked
  OnePanelIsOpen
PROPERTIES
  PanelsSettle
