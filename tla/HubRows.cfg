\* Two users share the hub: cascades, counters and cross references.
CONSTANTS
  Users = {u1, u2}
  Hostnames = {h1}
  Commands = {c1, c2}
  Crons = {cr1, cr2}
  ExitStatuses = {0}
  NoStatus = NoStatus
  MaxHosts = 2
  MaxJobs = 2
  MaxSchedules = 1
  MaxExecutions = 2
  MaxOutputs = 1
SYMMETRY Symmetry
SPECIFICATION Spec
INVARIANTS
  TypeOK
  References
  CountersExact

  
CHECK_DEADLOCK FALSE
