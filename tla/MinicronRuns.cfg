\* Three runs of one command while its user deletes what they have stored.
CONSTANTS
  Users = {u1}
  Hostnames = {h1}
  Commands = {c1}
  Crons = {}
  ExitStatuses = {0, 2}
  NoStatus = NoStatus
  MaxHosts = 2
  MaxJobs = 1
  MaxSchedules = 0
  MaxExecutions = 3
  MaxOutputs = 2
  Runs = {r1, r2, r3}
  NoId = NoId
SYMMETRY Symmetry
SPECIFICATION MinicronSpec
INVARIANTS
  InitNeverCollides
  PageShowsTheRun
  OrphansCameLate
PROPERTIES
  PagesProgress
CHECK_DEADLOCK FALSE
