\* A missed five-minute schedule and more than one pass.
CONSTANTS
  Jobs = {j1}
  Schedules = {s1}
  Minute = 4
  Periods = {20}
  Reboot = Reboot
  Media <- EmailThenSlack
  Enabled = {"email"}
  Users = {u1}
  NoUser = NoUser
  MaxPass = 0
  Horizon = 32
  MaxEvents = 2
SPECIFICATION Spec
INVARIANTS
  DeliveredOnce
CHECK_DEADLOCK FALSE
