\* Two users whose cron jobs run the same command.
CONSTANTS
  Users = {u1, u2}
  Hostnames = {h1}
  Commands = {c1}
  Crons = {}
  ExitStatuses = {0}
  NoStatus = NoStatus
  MaxHosts = 2
  MaxJobs = 2
  MaxSchedules = 0
  MaxExecutions = 2
  MaxOutputs = 0
SPECIFICATION Spec
INVARIANTS
  FindsOrCreatesJob
CHECK_DEADLOCK FALSE
