\* The race for exitStatus between the two goroutines.
CONSTANTS
  ExitStatuses = {0, 2}
  Killed = Killed
  HangupIsError = FALSE
  AlertsEnabled = FALSE
  MaxLines = 1
  TerminalLines = 1
SPECIFICATION Spec
INVARIANTS
  ExitsWithCommandStatus
