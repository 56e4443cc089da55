------------------------------ MODULE Monitor ------------------------------
(***************************************************************************)
(* The execution monitor and the alerts it sends for missed executions.    *)
(*                                                                         *)
(* The monitor is a thread that wakes every 59 seconds, takes all the      *)
(* schedules and, for each, asks whether an execution was created around   *)
(* the time cron last ran it.  The hub's handlers and the clients go on    *)
(* meanwhile.  Time is counted in fractions of a minute, at the coarsest   *)
(* in the half minutes of the buffers in the code; what the monitor does   *)
(* between two sleeps takes no time, except that delivering alerts may     *)
(* hold a pass up.                                                         *)
(*                                                                         *)
(* A schedule stands for its cron expression by its period: it ticks when  *)
(* the clock is a multiple of it.  "@reboot" has no ticks.                 *)
(***************************************************************************)
EXTENDS Integers, Sequences, FiniteSets, Functions

CONSTANTS
  Jobs, Schedules,   \* ids that job and schedule rows may get
  Minute,            \* units of time to the minute
  Periods,           \* periods of cron expressions
  Reboot,            \* the cron expression "@reboot"
  Media,             \* the alert media of the configuration, in its order
  Enabled,           \* the media that are enabled
  Users, NoUser,     \* owners of rows, and the lack of one
  MaxPass,           \* bound on how long deliveries hold up a pass
  Horizon,           \* bound on the clock
  MaxEvents          \* bound on what users, clients and operators do

Sleep == Minute          \* sleep 59
Pre == Minute \div 2      \* 30 seconds before the expected time
Wait == Minute           \* the minute after it
Post == Minute \div 2     \* 30 seconds after that

ASSUME MonitorAssumption ==
  /\ Minute \in Nat \ {0} /\ Minute % 2 = 0
  /\ \A p \in Periods : p \in Nat \ {0} /\ p % Minute = 0
  /\ Reboot \notin Periods /\ NoUser \notin Users
  /\ Media \in Seq(Range(Media)) /\ Media # <<>> /\ Enabled \subseteq Range(Media)
  /\ {MaxPass, Horizon, MaxEvents} \subseteq Nat

NoAlert == [schedule |-> 0, job |-> 0, expected_at |-> 0, updated_at |-> 0,
            erased |-> {}]

VARIABLES
  now,         \* the clock
  jobs,        \* ids of the rows of the jobs table
  schedules,   \* the schedules table
  used,        \* ids of schedules that have been given out
  executions,  \* the executions table: job_id and created_at
  alerts,      \* the alerts table
  thread,      \* "off", "pass", "send" or "sleep"
  startTime,   \* @start_time
  since,       \* when the pass, or the sleep, began
  queue,       \* schedules as Schedule.all read them, those still to check
  alert,       \* the options of the alert being sent and, as history, what the
               \* check saw: the row's updated_at, the job's executions erased
  media,       \* the media send_all has not come to
  ran,         \* history: every execution ever created
  judged,      \* history: the ticks that passed the guard of a check
  delivered,   \* history: the alerts a medium has delivered
  failures,    \* history: whether a medium has ever failed to deliver
  events       \* how much of MaxEvents is used

tableVars == <<jobs, schedules, used, executions>>
threadVars == <<thread, startTime, since, queue, alert, media>>
historyVars == <<judged, delivered, failures>>
vars == <<now, tableVars, alerts, threadVars, ran, historyVars, events>>

Crons == Periods \cup {Reboot}

\* A step of a user, a client or an operator.
Event == events < MaxEvents /\ events' = events + 1

Row == [job : Jobs, user : Users, cron : Crons, updated_at : 0..Horizon]

-----------------------------------------------------------------------------
\* Times

\* CronParser#last: the last tick before the minute the clock is in.
CronLast(period) == ((now - (now % Minute) - 1) \div period) * period

ExpectedAt(tick) == tick - Pre

ExpectedBy(expected_at) == expected_at + Pre + Wait + Post

Exists(table, job, expected_at) ==
  \E e \in table : /\ e.job = job
                   /\ e.created_at \in expected_at..ExpectedBy(expected_at)

\* Faulty variant: the monitor trusts any tick it has lived through.
ShouldCheck_unbounded(row, expected_at) ==
  expected_at > startTime /\ ExpectedBy(expected_at) > row.updated_at

\* Faulty variant: the comparison with updated_at the other way round.
ShouldCheck_swapped(row, expected_at) ==
  /\ expected_at > startTime
  /\ now > ExpectedBy(expected_at)
  /\ row.updated_at > ExpectedBy(expected_at)

ShouldCheck(row, expected_at) ==
  /\ expected_at > startTime
  /\ now > ExpectedBy(expected_at)
  /\ ExpectedBy(expected_at) > row.updated_at

-----------------------------------------------------------------------------
\* The monitor's thread

\* The rows in any order: the query does not say one.
Orders(table) ==
  {s \in [1..Cardinality(DOMAIN table) -> DOMAIN table] : IsInjective(s)}

Snapshot(order) ==
  [i \in DOMAIN order |-> [id |-> order[i], row |-> schedules[order[i]]]]

BeginPass ==
  /\ since' = now
  /\ \E order \in Orders(schedules) : queue' = Snapshot(order)
  /\ thread' = "pass"

Start ==
  /\ Event
  /\ thread = "off"
  /\ startTime' = now
  /\ BeginPass
  /\ UNCHANGED <<now, tableVars, alerts, alert, media, ran, historyVars>>

\* stop, restart or a crash of the process: nothing of the thread survives.
Stop ==
  /\ Event
  /\ thread # "off"
  /\ thread' = "off" /\ startTime' = 0 /\ since' = 0
  /\ queue' = <<>> /\ media' = <<>> /\ alert' = NoAlert
  /\ UNCHANGED <<now, tableVars, alerts, ran,
                 historyVars>>

Wake ==
  /\ thread = "sleep" /\ now = since + Sleep
  /\ BeginPass
  /\ UNCHANGED <<now, tableVars, alerts, startTime, alert, media, ran,
                 historyVars, events>>

EndPass ==
  /\ thread = "pass" /\ queue = <<>>
  /\ thread' = "sleep" /\ since' = now
  /\ UNCHANGED <<now, tableVars, alerts, startTime, queue, alert, media, ran,
                 historyVars, events>>

\* monitor(schedule) for the next schedule, with the row as the pass read it.
Check ==
  LET s == Head(queue)
      tick == CronLast(s.row.cron)
      expected_at == ExpectedAt(tick)
      due == s.row.cron # Reboot /\ ShouldCheck(s.row, expected_at)
      missed == due /\ ~Exists(executions, s.row.job, expected_at)
  IN  /\ thread = "pass" /\ queue # <<>>
      /\ queue' = Tail(queue)
      /\ judged' = IF due THEN judged \cup {[schedule |-> s.id, tick |-> tick]}
                          ELSE judged
      /\ IF missed
         THEN /\ thread' = "send" /\ media' = Media
              /\ alert' = [schedule |-> s.id, job |-> s.row.job,
                           expected_at |-> expected_at,
                           updated_at |-> s.row.updated_at,
                           erased |-> {e \in ran \ executions : e.job = s.row.job}]
         ELSE UNCHANGED <<thread, media, alert>>
      /\ UNCHANGED <<now, tableVars, alerts, startTime, since, ran, delivered,
                     failures, events>>

-----------------------------------------------------------------------------
\* Alert.send_all

\* What is stored of an alert, less the options send_all does not pass on:
\* the user.
AlertRow(medium) ==
  [user |-> NoUser, schedule |-> alert.schedule, job |-> alert.job,
   expected_at |-> alert.expected_at, medium |-> medium]

Sent(medium) ==
  \E a \in alerts : /\ a.schedule = alert.schedule /\ a.job = alert.job
                    /\ a.expected_at = alert.expected_at /\ a.medium = medium

\* alerts.user_id may not be NULL.
Stored(row) == row.user # NoUser

\* monitor(schedule) ends with an exception that start! rescues.
NextSchedule == thread' = "pass" /\ media' = <<>> /\ alert' = NoAlert

\* send_all goes on with the next medium, or is done.
NextMedium ==
  IF Tail(media) = <<>>
  THEN NextSchedule
  ELSE media' = Tail(media) /\ UNCHANGED <<thread, alert>>

SkipMedium ==
  /\ thread = "send" /\ media # <<>>
  /\ Head(media) \notin Enabled \/ Sent(Head(media))
  /\ NextMedium
  /\ UNCHANGED <<now, tableVars, alerts, startTime, since, queue, ran,
                 historyVars, events>>

\* Faulty variant: an alert whose row could not be stored is not delivered.
SendAlert_stored ==
  LET medium == Head(media)
      row == AlertRow(medium)
  IN  /\ thread = "send" /\ media # <<>>
      /\ medium \in Enabled /\ ~Sent(medium)
      /\ IF Stored(row)
         THEN /\ alerts' = alerts \cup {row}
              /\ delivered' = delivered \cup {[alert |-> alert, medium |-> medium,
                                               at |-> now]}
         ELSE UNCHANGED <<alerts, delivered>>
      /\ NextSchedule
      /\ UNCHANGED <<now, tableVars, startTime, since, queue, ran, judged,
                     failures, events>>

\* Job.find, the delivery, Alert.create: what raises keeps send_all from the
\* media that are left.
SendAlert ==
  LET medium == Head(media)
      row == AlertRow(medium)
      delivery == [alert |-> alert, medium |-> medium, at |-> now]
  IN  /\ thread = "send" /\ media # <<>>
      /\ medium \in Enabled /\ ~Sent(medium)
      /\ \/ /\ alert.job \notin jobs
            /\ NextSchedule
            /\ UNCHANGED <<alerts, delivered, failures>>
         \/ /\ alert.job \in jobs
            /\ NextSchedule
            /\ failures' = TRUE
            /\ UNCHANGED <<alerts, delivered>>
         \/ /\ alert.job \in jobs
            /\ delivered' = delivered \cup {delivery}
            /\ IF Stored(row)
               THEN NextMedium /\ alerts' = alerts \cup {row}
               ELSE NextSchedule /\ UNCHANGED alerts
            /\ UNCHANGED failures
      /\ UNCHANGED <<now, tableVars, startTime, since, queue, ran, judged,
                     events>>

-----------------------------------------------------------------------------
\* The hub's handlers and the clients, as the monitor sees them

NewSchedule(s, j, u, cron) ==
  /\ Event
  /\ s \notin used /\ j \in jobs
  /\ schedules' = [i \in DOMAIN schedules \cup {s} |->
                     IF i = s THEN [job |-> j, user |-> u, cron |-> cron,
                                    updated_at |-> now]
                     ELSE schedules[i]]
  /\ used' = used \cup {s}
  /\ UNCHANGED <<now, jobs, executions, alerts, threadVars, ran, historyVars>>

\* save! touches updated_at only if something has changed.
EditSchedule(s, cron) ==
  /\ Event
  /\ schedules[s].cron # cron
  /\ schedules' = [schedules EXCEPT ![s].cron = cron, ![s].updated_at = now]
  /\ UNCHANGED <<now, jobs, used, executions, alerts, threadVars, ran,
                 historyVars>>

DeleteSchedule(s) ==
  /\ Event
  /\ schedules' = Restrict(schedules, DOMAIN schedules \ {s})
  /\ alerts' = {a \in alerts : a.schedule # s}
  /\ UNCHANGED <<now, jobs, used, executions, threadVars, ran, historyVars>>

\* Faulty variant: has_many :schedules without dependent: :destroy.
DeleteJob_orphaned(j) ==
  /\ Event
  /\ jobs' = jobs \ {j}
  /\ executions' = {e \in executions : e.job # j}
  /\ UNCHANGED <<now, schedules, used, alerts, threadVars, ran, historyVars>>

DeleteJob(j) ==
  LET own == {s \in DOMAIN schedules : schedules[s].job = j}
  IN  /\ Event
      /\ jobs' = jobs \ {j}
      /\ schedules' = Restrict(schedules, DOMAIN schedules \ own)
      /\ executions' = {e \in executions : e.job # j}
      /\ alerts' = {a \in alerts : a.job # j}
      /\ UNCHANGED <<now, used, threadVars, ran, historyVars>>

\* A client's init.
CreateExecution(j) ==
  LET e == [job |-> j, created_at |-> now]
  IN  /\ Event
      /\ e \notin ran
      /\ executions' = executions \cup {e}
      /\ ran' = ran \cup {e}
      /\ UNCHANGED <<now, jobs, schedules, used, alerts, threadVars, historyVars>>

DeleteExecution(e) ==
  /\ Event
  /\ executions' = executions \ {e}
  /\ UNCHANGED <<now, jobs, schedules, used, alerts, threadVars, ran,
                 historyVars>>

-----------------------------------------------------------------------------
\* A check takes no time; a delivery may; the thread is not late to wake.
Urgent ==
  \/ thread = "pass"
  \/ thread = "send" /\ now >= since + MaxPass
  \/ thread = "sleep" /\ now = since + Sleep

Tick ==
  /\ now < Horizon /\ ~Urgent
  /\ now' = now + 1
  /\ UNCHANGED <<tableVars, alerts, threadVars, ran, historyVars, events>>

Init ==
  /\ now = 0
  /\ jobs = Jobs /\ schedules = [i \in {} |-> i] /\ used = {}
  /\ executions = {} /\ alerts = {}
  /\ thread = "off" /\ startTime = 0 /\ since = 0
  /\ queue = <<>> /\ media = <<>>
  /\ alert = NoAlert
  /\ ran = {} /\ judged = {} /\ delivered = {} /\ failures = FALSE
  /\ events = 0

Thread ==
  Start \/ Stop \/ Wake \/ EndPass \/ Check \/ SkipMedium \/ SendAlert

Pages ==
  \/ \E s \in Schedules, j \in Jobs, u \in Users, cron \in Crons :
       NewSchedule(s, j, u, cron)
  \/ \E s \in DOMAIN schedules, cron \in Crons : EditSchedule(s, cron)
  \/ \E s \in DOMAIN schedules : DeleteSchedule(s)
  \/ \E j \in jobs : DeleteJob(j)
  \/ \E e \in executions : DeleteExecution(e)

Clients == \E j \in jobs : CreateExecution(j)

Next == Tick \/ Thread \/ Pages \/ Clients

Spec == Init /\ [][Next]_vars

-----------------------------------------------------------------------------
\* Properties

\* Every variable has its type; in particular an alert is only ever in the table
\* with its owner, and rows and histories refer to times that have come.
TypeOK ==
  /\ now \in 0..Horizon /\ startTime \in 0..now /\ since \in 0..now
  /\ jobs \subseteq Jobs /\ used \subseteq Schedules
  /\ DOMAIN schedules \subseteq used /\ schedules \in [DOMAIN schedules -> Row]
  /\ \A s \in DOMAIN schedules : /\ schedules[s].job \in jobs
                                 /\ schedules[s].updated_at <= now
  /\ executions \subseteq ran
  /\ ran \subseteq [job : Jobs, created_at : 0..now]
  /\ \A a \in alerts : a.user \in Users
  /\ thread \in {"off", "pass", "send", "sleep"}
  /\ queue \in Seq([id : used, row : Row]) /\ media \in Seq(Range(Media))
  /\ thread = "off" => queue = <<>> /\ media = <<>>
  /\ \A d \in delivered : d.at \in 0..now /\ d.medium \in Enabled

\* Every run of the job in the window an alert is about, before or after the
\* alert, had been deleted when the monitor looked: nothing else is mistaken for a
\* miss.  The window is over, so that no run can come into it any more, and the
\* schedule, as the pass read it, was last updated before its end.  The code
\* compares with the end, not with the tick, so the tick may be earlier than the
\* update by less than Wait + Post (monitor.rb:84).
MissesAreReal ==
  \A d \in delivered :
    LET expected_by == ExpectedBy(d.alert.expected_at)
    IN  /\ now > expected_by
        /\ d.alert.updated_at < expected_by
        /\ \A e \in ran :
             /\ e.job = d.alert.job
             /\ e.created_at \in d.alert.expected_at..expected_by
             => e \in d.alert.erased

\* CronLast gives a tick from a minute after it to a minute after the next one,
\* and ShouldCheck accepts it once ExpectedBy has passed.  A pass finds such a
\* moment if they are more than the time between two checks.
Detectable(period) ==
  period + Minute - (Wait + Post) > Sleep + 2 * MaxPass

\* The monitor is past the last moment it could judge this tick of the schedule,
\* which it has lived through in this form.
Over(s, tick) ==
  LET row == schedules[s]
  IN  /\ thread = "sleep"
      /\ ExpectedAt(tick) > startTime /\ tick >= row.updated_at
      /\ now >= tick + row.cron + Minute

Ticks(period) == {t \in 0..Horizon : t % period = 0}

\* No tick of a schedule goes unjudged, however passes and deliveries fall, if
\* the schedule's period leaves the passes time to see it.
TicksAreJudged ==
  \A s \in DOMAIN schedules :
    schedules[s].cron \in Periods /\ Detectable(schedules[s].cron) =>
      \A t \in Ticks(schedules[s].cron) :
        Over(s, t) => [schedule |-> s, tick |-> t] \in judged

\* If a job did not run when its schedule said, an alert goes out, as long as
\* some medium is enabled and no delivery fails.
MissesAreReported ==
  \A s \in DOMAIN schedules :
    schedules[s].cron \in Periods /\ Detectable(schedules[s].cron) =>
      \A t \in Ticks(schedules[s].cron) :
        /\ Over(s, t) /\ ~failures /\ Enabled # {}
        /\ ~Exists(ran, schedules[s].job, ExpectedAt(t))
        => \E d \in delivered : /\ d.alert.schedule = s
                                /\ d.alert.expected_at = ExpectedAt(t)

\* An alert is delivered once by each medium: "Check if the medium is enabled
\* and alert hasn't already been sent" (alert.rb:24).
DeliveredOnce ==
  \A c, d \in delivered :
    /\ c.medium = d.medium
    /\ c.alert.schedule = d.alert.schedule
    /\ c.alert.expected_at = d.alert.expected_at
    => c = d
=============================================================================
