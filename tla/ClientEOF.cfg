\* A system whose terminals end with EOF: runs reach cmd.Wait and Exit.
CONSTANTS
  ExitStatuses = {0, 2}
  Killed = Killed
  HangupIsError = FALSE
  AlertsEnabled = TRUE
  MaxLines = 3
  TerminalLines = 2
SPECIFICATION Spec
INVARIANTS
  TypeOK
  RecordedInOrder
  ExitMeansComplete
  PrintsBeforeExit
PROPERTIES
  RunEnds
  KeepsJournal
