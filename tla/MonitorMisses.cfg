\* A job on a three-minute schedule, with time in half minutes.
CONSTANTS
  Jobs = {j1}
  Schedules = {s1}
  Minute = 2
  Periods = {6}
  Reboot = Reboot
  Media <- EmailThenSlack
  Enabled = {"slack"}
  Users = {u1}
  NoUser = NoUser
  MaxPass = 1
  Horizon = 16
  MaxEvents = 4
SPECIFICATION Spec
INVARIANTS
  TypeOK
  MissesAreReal
  TicksAreJudged
  MissesAreReported
CHECK_DEADLOCK FALSE
