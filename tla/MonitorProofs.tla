---------------------------- MODULE MonitorProofs ----------------------------
(***************************************************************************)
(* What the monitor promises for every set of schedules and media, every   *)
(* length of a minute and of the periods, however long deliveries take.    *)
(***************************************************************************)
EXTENDS Monitor, FiniteSetTheorems, SequenceTheorems, TLAPS

-----------------------------------------------------------------------------
\* The inductive invariant

\* What is not in TypeOK because no property needs to say it: no alert is ever
\* stored, an alert that is being sent has a medium left, and the rows a pass has
\* read are of the jobs their schedules still have.
Kept ==
  /\ IsFiniteSet(used) /\ alerts = {}
  /\ failures \in BOOLEAN
  /\ judged \subseteq [schedule : used, tick : Int]
  /\ \A i \in DOMAIN queue :
       queue[i].id \in DOMAIN schedules =>
         queue[i].row.job = schedules[queue[i].id].job
  /\ thread = "send" =>
       /\ media # <<>>
       /\ alert.expected_at \in Int
       /\ alert.schedule \in used
       /\ alert.schedule \in DOMAIN schedules =>
            alert.job = schedules[alert.schedule].job
  /\ \A d \in delivered : d.alert.expected_at \in Int

\* No pass is longer than MaxPass, no sleep longer than Sleep.
Rhythm ==
  /\ thread \in {"pass", "send"} => now <= since + MaxPass
  /\ thread = "sleep" => now <= since + Sleep

\* The window of this alert is over and later than the schedule the check read,
\* and the runs in it are those that had been deleted by the check.
Missed(a) ==
  /\ now > ExpectedBy(a.expected_at)
  /\ a.updated_at < ExpectedBy(a.expected_at)
  /\ \A e \in ran :
       e.job = a.job /\ e.created_at \in a.expected_at..ExpectedBy(a.expected_at)
         => e \in a.erased

\* An alert is right from the moment it is decided on, not only once delivered.
Misses ==
  /\ thread = "send" => Missed(alert)
  /\ \A d \in delivered : Missed(d.alert)

\* The monitor has lived through this tick of the schedule as it is now.
Lived(s, t) == ExpectedAt(t) > startTime /\ t >= schedules[s].updated_at

\* The pass has the schedule before it as it is now, and comes to it before the
\* next tick hides this one.
Ahead(s, t) ==
  /\ \E i \in DOMAIN queue : queue[i] = [id |-> s, row |-> schedules[s]]
  /\ since + MaxPass < t + schedules[s].cron + Minute

\* A tick is judged, or too young for the pass under way, or ahead of it.
Judging ==
  \A s \in DOMAIN schedules :
    schedules[s].cron \in Periods /\ Detectable(schedules[s].cron) =>
      \A t \in Ticks(schedules[s].cron) :
        Lived(s, t) /\ [schedule |-> s, tick |-> t] \notin judged =>
          /\ thread \in {"pass", "send"} => t + Wait + Post >= since \/ Ahead(s, t)
          /\ thread = "sleep" => t + Wait + Post + MaxPass >= since

\* A tick is judged when its window is over, not before.
JudgedLate == \A j \in judged : now > ExpectedBy(ExpectedAt(j.tick))

\* The alert of this tick of the schedule is under way or delivered.
Under(s, t) ==
  /\ thread = "send" /\ alert.schedule = s /\ alert.expected_at = ExpectedAt(t)
  /\ Range(media) \cap Enabled # {}

Reported(s, t) ==
  \E d \in delivered : d.alert.schedule = s /\ d.alert.expected_at = ExpectedAt(t)

\* What this thread has judged to be missed, it reports.
Reporting ==
  thread # "off" /\ ~failures /\ Enabled # {} =>
    \A j \in judged :
      /\ j.schedule \in DOMAIN schedules /\ ExpectedAt(j.tick) > startTime
      /\ ~Exists(ran, schedules[j.schedule].job, ExpectedAt(j.tick))
      => Under(j.schedule, j.tick) \/ Reported(j.schedule, j.tick)

Inv == TypeOK /\ Kept /\ Rhythm /\ Misses /\ Judging /\ JudgedLate /\ Reporting

-----------------------------------------------------------------------------
\* Lemmas about times

\* The multiple of p at or below n, for a number in the p numbers from q * p on.
LEMMA DivIs ==
  ASSUME NEW p \in Nat \ {0}, NEW q \in Int, NEW n \in Int,
         q * p <= n, n < q * p + p
  PROVE  n \div p = q
<1>1. /\ n \div p \in Int /\ n % p \in 0..(p - 1)
      /\ n = (n \div p) * p + (n % p)
  OBVIOUS
<1> DEFINE d == n \div p
<1>2. CASE d < q
  <2>1. (q - d) * p >= p
    BY <1>1, <1>2
  <2> QED
    BY <1>1, <2>1
<1>3. CASE d > q
  <2>1. (d - q) * p >= p
    BY <1>1, <1>3
  <2> QED
    BY <1>1, <2>1
<1> QED
  BY <1>1, <1>2, <1>3

\* A number that p divides is a multiple of it.
LEMMA Multiple ==
  ASSUME NEW p \in Nat \ {0}, NEW t \in Int, t % p = 0
  PROVE  t \div p \in Int /\ t = (t \div p) * p
OBVIOUS

\* What a number divides is divided by what divides that number.
LEMMA Divides ==
  ASSUME NEW m \in Nat \ {0}, NEW p \in Nat \ {0}, NEW t \in Int,
         p % m = 0, t % p = 0
  PROVE  \E k \in Int : t = k * m
<1>1. p = (p \div m) * m /\ p \div m \in Int
  BY Multiple
<1>2. t = (t \div p) * p /\ t \div p \in Int
  BY Multiple
<1>3. (t \div p) * (p \div m) \in Int
  BY <1>1, <1>2
<1>4. t = ((t \div p) * (p \div m)) * m
  BY <1>1, <1>2
<1> QED
  BY <1>3, <1>4

\* CronLast is the tick t from a minute after t to a minute after the next one.
LEMMA CronLastIs ==
  ASSUME NEW p \in Periods, NEW t \in Nat, t % p = 0, now \in Nat,
         now >= t + Minute, now < t + p + Minute
  PROVE  CronLast(p) = t
<1>1. /\ p \in Nat \ {0} /\ p % Minute = 0
      /\ Minute \in Nat \ {0}
  BY MonitorAssumption
<1>2. PICK k \in Int : t = k * Minute
  <2>1. \E k \in Int : t = k * Minute
    <3>1. t \in Int
      OBVIOUS
    <3> QED
      BY <1>1, <3>1, Divides, Zenon
  <2> QED
    BY <2>1
<1> DEFINE m == Minute
           floor == now - (now % m)
<1>3. p \div m \in Int /\ p = (p \div m) * m
  BY <1>1, Multiple
<1>4. /\ now \div m \in Int /\ now % m \in 0..(m - 1)
      /\ now = (now \div m) * m + (now % m)
  BY <1>1
<1> DEFINE c == p \div m
           d == now \div m
<1>5. floor = d * m /\ k \in Int /\ c \in Int /\ d \in Int
  BY <1>1, <1>2, <1>3, <1>4
<1>6. floor <= t + p
  <2>1. SUFFICES ASSUME d > k + c PROVE FALSE
    <3>1. d <= k + c => d * m <= (k + c) * m
      BY <1>1, <1>5
    <3>2. (k + c) * m = t + p
      BY <1>1, <1>2, <1>3, <1>5
    <3> QED
      BY <1>5, <3>1, <3>2
  <2>2. d >= k + c + 1
    BY <1>5, <2>1
  <2>3. d * m >= (k + c + 1) * m
    BY <1>1, <1>5, <2>2
  <2>4. (k + c + 1) * m = t + p + m
    BY <1>1, <1>2, <1>3, <1>5
  <2> QED
    BY <1>1, <1>4, <1>5, <2>3, <2>4
<1>7. floor >= t + m
  <2>1. SUFFICES ASSUME d < k + 1 PROVE FALSE
    <3>1. d >= k + 1 => d * m >= (k + 1) * m
      BY <1>1, <1>5
    <3>2. (k + 1) * m = t + m
      BY <1>1, <1>2, <1>5
    <3> QED
      BY <1>5, <3>1, <3>2
  <2>2. d * m <= k * m
    BY <1>1, <1>5, <2>1
  <2> QED
    BY <1>1, <1>2, <1>4, <1>5, <2>2
<1>8. t \div p \in Int /\ t = (t \div p) * p
  BY <1>1, Multiple
<1>9. floor - 1 \in Int /\ t <= floor - 1 /\ floor - 1 < t + p
  BY <1>1, <1>4, <1>5, <1>6, <1>7
<1>10. (floor - 1) \div p = t \div p
  BY <1>1, <1>8, <1>9, DivIs
<1> QED
  BY <1>8, <1>10 DEF CronLast

\* The constants, as the proofs use them.
LEMMA Constants ==
  /\ Minute \in Nat \ {0} /\ Pre \in Nat \ {0} /\ Post = Pre /\ Wait = Minute
  /\ Sleep = Minute /\ MaxPass \in Nat /\ Horizon \in Nat
  /\ Periods \subseteq Nat \ {0} /\ Reboot \notin Periods
<1>1. /\ Minute \in Nat \ {0} /\ Minute % 2 = 0
      /\ MaxPass \in Nat /\ Horizon \in Nat
      /\ Periods \subseteq Nat \ {0} /\ Reboot \notin Periods
  BY MonitorAssumption
<1>2. Minute \div 2 \in Nat \ {0}
  BY <1>1
<1> QED
  BY <1>1, <1>2 DEF Pre, Post, Wait, Sleep

LEMMA CronLastIsInt ==
  ASSUME NEW p \in Periods, now \in Nat
  PROVE  CronLast(p) \in Int
<1>1. p \in Nat \ {0} /\ Minute \in Nat \ {0}
  BY Constants
<1>2. now - (now % Minute) - 1 \in Int
  BY <1>1
<1> DEFINE n == now - (now % Minute) - 1
<1>3. n \div p \in Int
  BY <1>1, <1>2
<1> QED
  BY <1>1, <1>3 DEF CronLast

-----------------------------------------------------------------------------
\* Lemmas about the rows a pass reads and what the others do meanwhile

\* Schedule.all leaves out no schedule, whatever the order it gives.
LEMMA SnapshotHasAll ==
  ASSUME TypeOK, Kept, NEW order \in Orders(schedules)
  PROVE  /\ Snapshot(order) \in Seq([id : used, row : Row])
         /\ \A i \in DOMAIN Snapshot(order) :
              /\ Snapshot(order)[i].id \in DOMAIN schedules
              /\ Snapshot(order)[i].row = schedules[Snapshot(order)[i].id]
         /\ \A s \in DOMAIN schedules :
              \E i \in DOMAIN Snapshot(order) :
                Snapshot(order)[i] = [id |-> s, row |-> schedules[s]]
<1> DEFINE D == DOMAIN schedules
           N == Cardinality(D)
<1>1. IsFiniteSet(D) /\ N \in Nat
  BY FS_Subset, FS_CardinalityType DEF TypeOK, Kept
<1>2. IsFiniteSet(1..N) /\ Cardinality(1..N) = N
  BY <1>1, FS_Interval
<1>3. order \in Injection(1..N, D)
  BY DEF Orders, Injection
<1>4. order \in Surjection(1..N, D)
  BY <1>1, <1>2, <1>3, FS_Injection
<1>5. order \in [1..N -> D] /\ DOMAIN order = 1..N
  BY DEF Orders
<1>6. Snapshot(order) =
        [i \in 1..N |-> [id |-> order[i], row |-> schedules[order[i]]]]
  BY <1>5 DEF Snapshot
<1>7. \A i \in 1..N :
        [id |-> order[i], row |-> schedules[order[i]]] \in [id : used, row : Row]
  BY <1>5 DEF TypeOK
<1>8. Snapshot(order) \in Seq([id : used, row : Row])
  <2> DEFINE T == [id : used, row : Row]
             f == [i \in 1..N |-> [id |-> order[i], row |-> schedules[order[i]]]]
  <2>1. f \in [1..N -> T]
    BY <1>7
  <2> HIDE DEF T, f, N
  <2>2. f \in Seq(T)
    BY <1>1, <2>1, SeqDef
  <2> QED
    BY <1>6, <2>2 DEF T, f, N
<1>9. \A s \in D : \E i \in 1..N : order[i] = s
  BY <1>4 DEF Surjection
<1> QED
  BY <1>5, <1>6, <1>8, <1>9

\* What a page or a client leaves as it was.  A row that changes is as new as the
\* change and stays with its job; a new one has an id of its own; executions begin
\* now.
Outside ==
  /\ UNCHANGED <<now, threadVars, historyVars>>
  /\ alerts' \subseteq alerts /\ ran \subseteq ran'
  /\ used' = used \/ \E s \in Schedules : used' = used \cup {s}
  /\ \A e \in ran' : e \in ran \/ e.created_at = now
  /\ \A s \in DOMAIN schedules' :
       \/ s \in DOMAIN schedules /\ schedules'[s] = schedules[s]
       \/ /\ s \in DOMAIN schedules \/ s \notin used
          /\ s \in DOMAIN schedules => schedules'[s].job = schedules[s].job
          /\ schedules'[s].updated_at = now

\* Pages (jobs.rb) and clients (api/executions.rb) are outside.
LEMMA PagesAreOutside ==
  ASSUME TypeOK, Pages \/ Clients
  PROVE  Outside
<1>1. ASSUME NEW s \in Schedules, NEW j \in Jobs, NEW u \in Users,
             NEW cron \in Crons, NewSchedule(s, j, u, cron)
      PROVE  Outside
  <2>1. /\ DOMAIN schedules' = DOMAIN schedules \cup {s} /\ s \notin used
        /\ \A i \in DOMAIN schedules : i # s => schedules'[i] = schedules[i]
        /\ schedules'[s].updated_at = now
    BY <1>1 DEF NewSchedule
  <2>2. s \notin DOMAIN schedules
    BY <2>1 DEF TypeOK
  <2> QED
    BY <1>1, <2>1, <2>2 DEF NewSchedule, Outside, threadVars, historyVars
<1>2. ASSUME NEW s \in DOMAIN schedules, NEW cron \in Crons, EditSchedule(s, cron)
      PROVE  Outside
  <2>1. schedules \in [DOMAIN schedules -> Row]
    BY DEF TypeOK
  <2>2. /\ DOMAIN schedules' = DOMAIN schedules
        /\ \A i \in DOMAIN schedules : i # s => schedules'[i] = schedules[i]
        /\ schedules'[s].job = schedules[s].job /\ schedules'[s].updated_at = now
    BY <1>2, <2>1 DEF EditSchedule, Row
  <2> QED
    BY <1>2, <2>2 DEF EditSchedule, Outside, threadVars, historyVars
<1>3. ASSUME NEW s \in DOMAIN schedules, DeleteSchedule(s)
      PROVE  Outside
  BY <1>3 DEF DeleteSchedule, Outside, threadVars, historyVars, Restrict
<1>4. ASSUME NEW j \in jobs, DeleteJob(j)
      PROVE  Outside
  BY <1>4 DEF DeleteJob, Outside, threadVars, historyVars, Restrict
<1>5. ASSUME NEW e \in executions, DeleteExecution(e)
      PROVE  Outside
  BY <1>5 DEF DeleteExecution, Outside, threadVars, historyVars
<1>6. ASSUME NEW j \in jobs, CreateExecution(j)
      PROVE  Outside
  BY <1>6 DEF CreateExecution, Outside, threadVars, historyVars
<1> QED
  BY <1>1, <1>2, <1>3, <1>4, <1>5, <1>6 DEF Pages, Clients

-----------------------------------------------------------------------------
\* Types

LEMMA InitInv == Init => Inv
<1> SUFFICES ASSUME Init PROVE Inv
  OBVIOUS
<1> USE DEF Init
<1>1. TypeOK
  <2>1. schedules \in [DOMAIN schedules -> Row] /\ DOMAIN schedules = {}
    OBVIOUS
  <2>2. queue \in Seq([id : used, row : Row]) /\ media \in Seq(Range(Media))
    OBVIOUS
  <2>3. now \in 0..Horizon /\ startTime \in 0..now /\ since \in 0..now
    BY Constants
  <2> QED
    BY <2>1, <2>2, <2>3 DEF TypeOK
<1>2. Kept
  BY FS_EmptySet DEF Kept
<1>3. Rhythm /\ Misses /\ JudgedLate /\ Reporting
  BY DEF Rhythm, Misses, JudgedLate, Reporting
<1>4. Judging
  BY DEF Judging
<1> QED
  BY <1>1, <1>2, <1>3, <1>4 DEF Inv

LEMMA PagesTyped ==
  ASSUME TypeOK, Pages \/ Clients
  PROVE  TypeOK'
<1> DEFINE Rest == /\ UNCHANGED <<now, threadVars, historyVars>>
                   /\ jobs' \subseteq Jobs /\ used' \subseteq Schedules
                   /\ used \subseteq used' /\ alerts' \subseteq alerts
                   /\ executions' \subseteq ran'
                   /\ ran' \subseteq [job : Jobs, created_at : 0..now]
           Table == /\ DOMAIN schedules' \subseteq used'
                    /\ schedules' \in [DOMAIN schedules' -> Row]
                    /\ \A s \in DOMAIN schedules' :
                         /\ schedules'[s].job \in jobs'
                         /\ schedules'[s].updated_at <= now
<1>1. ASSUME Rest, Table PROVE TypeOK'
  <2>1. queue' \in Seq([id : used', row : Row])
    <3>1. [id : used, row : Row] \subseteq [id : used', row : Row]
      BY <1>1
    <3>2. queue \in Seq([id : used, row : Row])
      BY DEF TypeOK
    <3>3. queue \in Seq([id : used', row : Row])
      BY <3>1, <3>2, SeqMonotonic
    <3> QED
      BY <1>1, <3>3 DEF threadVars
  <2> QED
    BY <1>1, <2>1 DEF TypeOK, threadVars, historyVars
<1>2. now \in 0..Horizon /\ now \in Int
  BY Constants DEF TypeOK
<1>3. ASSUME NEW s \in Schedules, NEW j \in Jobs, NEW u \in Users,
             NEW cron \in Crons, NewSchedule(s, j, u, cron)
      PROVE  TypeOK'
  <2>1. Rest
    BY <1>3 DEF NewSchedule, TypeOK, threadVars, historyVars
  <2>2. [job |-> j, user |-> u, cron |-> cron, updated_at |-> now] \in Row
    BY <1>2 DEF Row
  <2>3. Table
    BY <1>2, <1>3, <2>2 DEF NewSchedule, TypeOK
  <2> QED
    BY <1>1, <2>1, <2>3
<1>4. ASSUME NEW s \in DOMAIN schedules, NEW cron \in Crons, EditSchedule(s, cron)
      PROVE  TypeOK'
  <2>1. Rest
    BY <1>4 DEF EditSchedule, TypeOK, threadVars, historyVars
  <2>2. schedules \in [DOMAIN schedules -> Row]
    BY DEF TypeOK
  <2>3. /\ DOMAIN schedules' = DOMAIN schedules
        /\ \A i \in DOMAIN schedules : i # s => schedules'[i] = schedules[i]
        /\ schedules' \in [DOMAIN schedules -> Row]
        /\ schedules'[s].job = schedules[s].job /\ schedules'[s].updated_at = now
    BY <1>2, <1>4, <2>2 DEF EditSchedule, Row
  <2>4. Table
    BY <1>2, <1>4, <2>3 DEF EditSchedule, TypeOK
  <2> QED
    BY <1>1, <2>1, <2>4
<1>5. ASSUME NEW s \in DOMAIN schedules, DeleteSchedule(s)
      PROVE  TypeOK'
  <2>1. Rest
    BY <1>5 DEF DeleteSchedule, TypeOK, threadVars, historyVars
  <2>2. Table
    BY <1>5 DEF DeleteSchedule, TypeOK, Restrict
  <2> QED
    BY <1>1, <2>1, <2>2
<1>6. ASSUME NEW j \in jobs, DeleteJob(j)
      PROVE  TypeOK'
  <2>1. Rest
    BY <1>6 DEF DeleteJob, TypeOK, threadVars, historyVars
  <2>2. Table
    BY <1>6 DEF DeleteJob, TypeOK, Restrict
  <2> QED
    BY <1>1, <2>1, <2>2
<1>7. ASSUME NEW e \in executions, DeleteExecution(e)
      PROVE  TypeOK'
  <2>1. Rest
    BY <1>7 DEF DeleteExecution, TypeOK, threadVars, historyVars
  <2>2. Table
    BY <1>7 DEF DeleteExecution, TypeOK
  <2> QED
    BY <1>1, <2>1, <2>2
<1>8. ASSUME NEW j \in jobs, CreateExecution(j)
      PROVE  TypeOK'
  <2>1. [job |-> j, created_at |-> now] \in [job : Jobs, created_at : 0..now]
    BY <1>2 DEF TypeOK
  <2>2. Rest
    BY <1>8, <2>1 DEF CreateExecution, TypeOK, threadVars, historyVars
  <2>3. Table
    BY <1>8 DEF CreateExecution, TypeOK
  <2> QED
    BY <1>1, <2>2, <2>3
<1> QED
  BY <1>3, <1>4, <1>5, <1>6, <1>7, <1>8 DEF Pages, Clients

\* Taking the next medium leaves a sequence of media; what ends a schedule leaves
\* none.
LEMMA NextMediumTyped ==
  ASSUME TypeOK, media # <<>>, NextMedium \/ NextSchedule
  PROVE  /\ media' \in Seq(Range(Media)) /\ alert' \in {alert, NoAlert}
         /\ thread' \in {thread, "pass"}
<1>1. media \in Seq(Range(Media)) /\ Tail(media) \in Seq(Range(Media))
  BY HeadTailProperties DEF TypeOK
<1>2. <<>> \in Seq(Range(Media))
  OBVIOUS
<1>3. CASE NextSchedule
  BY <1>2, <1>3 DEF NextSchedule
<1>4. CASE NextMedium /\ Tail(media) # <<>>
  BY <1>1, <1>4 DEF NextMedium
<1>5. CASE NextMedium /\ Tail(media) = <<>>
  BY <1>3, <1>5 DEF NextMedium
<1> QED
  BY <1>3, <1>4, <1>5

LEMMA BeginPassTyped ==
  ASSUME TypeOK, Kept, BeginPass
  PROVE  /\ since' = now /\ thread' = "pass"
         /\ queue' \in Seq([id : used, row : Row])
BY SnapshotHasAll DEF BeginPass

LEMMA ThreadTyped ==
  ASSUME TypeOK, Kept, Thread
  PROVE  TypeOK'
<1> DEFINE Rest == /\ UNCHANGED <<now, tableVars, alerts, ran>>
                   /\ startTime' \in 0..now /\ since' \in 0..now
           Own == /\ thread' \in {"off", "pass", "send", "sleep"}
                  /\ queue' \in Seq([id : used, row : Row])
                  /\ media' \in Seq(Range(Media))
                  /\ thread' = "off" => queue' = <<>> /\ media' = <<>>
           Sends == \A d \in delivered' : d.at \in 0..now /\ d.medium \in Enabled
<1>1. ASSUME Rest, Own, Sends PROVE TypeOK'
  BY <1>1 DEF TypeOK, tableVars
<1>2. now \in Nat
  BY Constants DEF TypeOK
<1>3. CASE Start
  <2>1. Rest
    BY <1>2, <1>3, BeginPassTyped DEF Start, TypeOK
  <2>2. Own /\ Sends
    BY <1>3, BeginPassTyped DEF Start, TypeOK, historyVars
  <2> QED
    BY <1>1, <2>1, <2>2
<1>4. CASE Stop
  <2>1. Rest
    BY <1>2, <1>4 DEF Stop, TypeOK
  <2>2. Own /\ Sends
    BY <1>4 DEF Stop, TypeOK, historyVars
  <2> QED
    BY <1>1, <2>1, <2>2
<1>5. CASE Wake
  <2>1. Rest
    BY <1>2, <1>5, BeginPassTyped DEF Wake, TypeOK
  <2>2. Own /\ Sends
    BY <1>5, BeginPassTyped DEF Wake, TypeOK, historyVars
  <2> QED
    BY <1>1, <2>1, <2>2
<1>6. CASE EndPass
  <2>1. Rest
    BY <1>2, <1>6 DEF EndPass, TypeOK
  <2>2. Own /\ Sends
    BY <1>6 DEF EndPass, TypeOK, historyVars
  <2> QED
    BY <1>1, <2>1, <2>2
<1>7. CASE Check
  <2>1. Rest
    BY <1>2, <1>7 DEF Check, TypeOK
  <2>2. queue' \in Seq([id : used, row : Row])
    BY <1>7, HeadTailProperties DEF Check, TypeOK
  <2>3. /\ thread' = "send" /\ media' = Media
        \/ UNCHANGED <<thread, media>>
    BY <1>7 DEF Check
  <2>4. Own /\ Sends
    BY <1>7, <2>2, <2>3, MonitorAssumption DEF Check, TypeOK
  <2> QED
    BY <1>1, <2>1, <2>4
<1>8. CASE SkipMedium
  <2>1. Rest
    BY <1>2, <1>8 DEF SkipMedium, TypeOK
  <2>2. Own /\ Sends
    BY <1>8, NextMediumTyped DEF SkipMedium, TypeOK, historyVars
  <2> QED
    BY <1>1, <2>1, <2>2
<1>9. CASE SendAlert
  <2>1. NextSchedule \/ NextMedium
    BY <1>9 DEF SendAlert
  <2>2. ~ Stored(AlertRow(Head(media)))
    BY DEF Stored, AlertRow
  <2>3. Rest
    BY <1>2, <1>9, <2>2 DEF SendAlert, TypeOK, tableVars
  <2>4. Own
    BY <1>9, <2>1, NextMediumTyped DEF SendAlert, TypeOK
  <2>5. \A d \in delivered' : d \in delivered \/
          d = [alert |-> alert, medium |-> Head(media), at |-> now]
    BY <1>9 DEF SendAlert
  <2>6. Head(media) \in Enabled
    BY <1>9 DEF SendAlert
  <2>7. Sends
    BY <1>2, <2>5, <2>6 DEF TypeOK
  <2> QED
    BY <1>1, <2>3, <2>4, <2>7
<1> QED
  BY <1>3, <1>4, <1>5, <1>6, <1>7, <1>8, <1>9 DEF Thread

LEMMA TickTyped ==
  ASSUME TypeOK, Tick
  PROVE  TypeOK'
<1>1. /\ now \in Nat /\ now' = now + 1 /\ now' \in 0..Horizon
      /\ 0..now \subseteq 0..now'
      /\ UNCHANGED <<tableVars, alerts, threadVars, ran, historyVars>>
  BY Constants DEF Tick, TypeOK
<1>2. /\ startTime' \in 0..now' /\ since' \in 0..now'
      /\ ran' \subseteq [job : Jobs, created_at : 0..now']
  BY <1>1 DEF TypeOK, threadVars
<1>3. /\ \A s \in DOMAIN schedules : schedules[s].updated_at \in 0..Horizon
      /\ \A s \in DOMAIN schedules : schedules[s].updated_at <= now'
  <2>1. \A s \in DOMAIN schedules : schedules[s].updated_at \in 0..Horizon
    BY DEF TypeOK, Row
  <2>2. \A s \in DOMAIN schedules : schedules[s].updated_at <= now
    BY DEF TypeOK
  <2> QED
    BY <1>1, <2>1, <2>2, Constants
<1>4. \A d \in delivered : d.at \in 0..now'
  BY <1>1 DEF TypeOK
<1> QED
  BY <1>1, <1>2, <1>3, <1>4 DEF TypeOK, tableVars, threadVars, historyVars

LEMMA TypeStep ==
  ASSUME TypeOK, Kept, [Next]_vars
  PROVE  TypeOK'
<1>1. CASE UNCHANGED vars
  BY <1>1 DEF TypeOK, vars, tableVars, threadVars, historyVars
<1> QED
  BY <1>1, TickTyped, ThreadTyped, PagesTyped DEF Next

-----------------------------------------------------------------------------
\* What is kept

\* Nothing is ever stored: send_all does not pass on the owner that the column
\* needs (alert.rb:27, alert.rb:67).
LEMMA NothingIsStored == \A medium : ~Stored(AlertRow(medium))
BY DEF Stored, AlertRow

\* The place of the thread after each of its steps, with what it then holds.
LEMMA MediaLeft ==
  ASSUME TypeOK, media # <<>>, thread = "send", NextMedium \/ NextSchedule
  PROVE  \/ thread' = "pass"
         \/ /\ thread' = "send" /\ media' = Tail(media) /\ media' # <<>>
            /\ alert' = alert
BY DEF NextMedium, NextSchedule

LEMMA Elements ==
  ASSUME NEW S, NEW q \in Seq(S)
  PROVE  \A i \in DOMAIN q : q[i] \in S
BY LenProperties, ElementOfSeq

\* A check takes the first schedule of the queue; the others move up.
LEMMA Pop ==
  ASSUME NEW S, NEW q \in Seq(S), q # <<>>
  PROVE  /\ Head(q) \in S /\ Head(q) = q[1]
         /\ \A i \in DOMAIN Tail(q) : i + 1 \in DOMAIN q /\ Tail(q)[i] = q[i + 1]
         /\ \A i \in DOMAIN q : i = 1 \/ i - 1 \in DOMAIN Tail(q)
         /\ 1 \in DOMAIN q /\ DOMAIN q \subseteq Nat
<1>1. /\ Len(q) \in Nat \ {0} /\ DOMAIN q = 1..Len(q)
  BY LenProperties, EmptySeq
<1>2. /\ Head(q) \in S /\ Tail(q) \in Seq(S) /\ Len(Tail(q)) = Len(q) - 1
      /\ \A i \in 1..Len(Tail(q)) : Tail(q)[i] = q[i + 1]
  BY HeadTailProperties
<1>3. DOMAIN Tail(q) = 1..(Len(q) - 1)
  BY <1>2, LenProperties
<1> QED
  BY <1>1, <1>2, <1>3

LEMMA KeptTick ==
  ASSUME TypeOK, Kept, Tick
  PROVE  Kept'
BY DEF Kept, Tick, tableVars, threadVars, historyVars

LEMMA KeptThread ==
  ASSUME TypeOK, Kept, Thread
  PROVE  Kept'
<1> DEFINE Same == /\ IsFiniteSet(used') /\ alerts' = {} /\ failures' \in BOOLEAN
                   /\ UNCHANGED <<schedules, used>>
           History == /\ judged' \subseteq [schedule : used, tick : Int]
                      /\ \A d \in delivered' : d.alert.expected_at \in Int
           Queue == \A i \in DOMAIN queue' :
                      queue'[i].id \in DOMAIN schedules =>
                        queue'[i].row.job = schedules[queue'[i].id].job
           Sending == thread' = "send" =>
                        /\ media' # <<>>
                        /\ alert'.expected_at \in Int
                        /\ alert'.schedule \in used
                        /\ alert'.schedule \in DOMAIN schedules =>
                             alert'.job = schedules[alert'.schedule].job
<1>1. ASSUME Same, History, Queue, Sending PROVE Kept'
  BY <1>1 DEF Kept
<1>2. Thread => Same
  BY NothingIsStored DEF Kept, Thread, Start, Stop, Wake, EndPass, Check,
       SkipMedium, SendAlert, tableVars, historyVars
<1>3. ASSUME BeginPass PROVE Queue /\ Sending
  BY <1>3, SnapshotHasAll DEF BeginPass
<1>4. CASE Start
  <2>1. History
    BY <1>4 DEF Start, Kept, historyVars
  <2> QED
    BY <1>1, <1>2, <1>3, <1>4, <2>1 DEF Start
<1>5. CASE Stop
  <2>1. History
    BY <1>5 DEF Stop, Kept, historyVars
  <2>2. Queue /\ Sending
    BY <1>5 DEF Stop
  <2> QED
    BY <1>1, <1>2, <2>1, <2>2
<1>6. CASE Wake
  <2>1. History
    BY <1>6 DEF Wake, Kept, historyVars
  <2> QED
    BY <1>1, <1>2, <1>3, <1>6, <2>1 DEF Wake
<1>7. CASE EndPass
  <2>1. History
    BY <1>7 DEF EndPass, Kept, historyVars
  <2>2. Queue /\ Sending
    BY <1>7 DEF EndPass, Kept
  <2> QED
    BY <1>1, <1>2, <2>1, <2>2
<1>8. CASE Check
  <2>1. /\ queue \in Seq([id : used, row : Row]) /\ queue # <<>>
        /\ queue' = Tail(queue) /\ thread = "pass"
    BY <1>8 DEF Check, TypeOK
  <2>2. /\ Head(queue) \in [id : used, row : Row] /\ Head(queue) = queue[1]
        /\ 1 \in DOMAIN queue
        /\ \A i \in DOMAIN Tail(queue) :
             i + 1 \in DOMAIN queue /\ Tail(queue)[i] = queue[i + 1]
    BY <2>1, Pop
  <2>3. Queue
    <3>1. \A i \in DOMAIN queue' : i + 1 \in DOMAIN queue /\ queue'[i] = queue[i + 1]
      BY <2>1, <2>2
    <3> QED
      BY <3>1 DEF Kept
  <2> DEFINE s == Head(queue)
             tick == CronLast(s.row.cron)
             due == s.row.cron # Reboot /\ ShouldCheck(s.row, ExpectedAt(tick))
  <2>4. s.row.cron \in Crons
    BY <2>2 DEF Row
  <2>5. due => tick \in Int /\ ExpectedAt(tick) \in Int
    <3>1. due => s.row.cron \in Periods
      BY <2>4 DEF Crons
    <3>2. now \in Nat
      BY Constants DEF TypeOK
    <3>3. due => tick \in Int
      BY <3>1, <3>2, CronLastIsInt
    <3> QED
      BY <3>3, Constants DEF ExpectedAt
  <2>6. History
    <3>1. \/ judged' = judged
          \/ due /\ judged' = judged \cup {[schedule |-> s.id, tick |-> tick]}
      BY <1>8 DEF Check
    <3>2. delivered' = delivered /\ s.id \in used
      BY <1>8, <2>2 DEF Check
    <3> QED
      BY <2>5, <3>1, <3>2 DEF Kept
  <2>7. \/ thread' = "pass"
        \/ /\ due /\ media' = Media
           /\ alert' = [schedule |-> s.id, job |-> s.row.job,
                        expected_at |-> ExpectedAt(tick),
                        updated_at |-> s.row.updated_at,
                        erased |-> {e \in ran \ executions : e.job = s.row.job}]
    BY <1>8, <2>1 DEF Check
  <2>8. Sending
    <3>1. s.id \in used
      BY <2>2
    <3>2. s.id \in DOMAIN schedules => s.row.job = schedules[s.id].job
      BY <2>2 DEF Kept
    <3> HIDE DEF s, tick, due
    <3> QED
      BY <2>5, <2>7, <3>1, <3>2, MonitorAssumption
  <2> QED
    BY <1>1, <1>2, <2>3, <2>6, <2>8
<1>9. CASE SkipMedium
  <2>1. History /\ Queue
    BY <1>9 DEF SkipMedium, Kept, historyVars
  <2>2. Sending
    BY <1>9, MediaLeft DEF SkipMedium, Kept
  <2> QED
    BY <1>1, <1>2, <2>1, <2>2
<1>10. CASE SendAlert
  <2>1. thread = "send" /\ media # <<>> /\ (NextMedium \/ NextSchedule)
    BY <1>10 DEF SendAlert
  <2>2. Sending
    BY <1>10, <2>1, MediaLeft DEF SendAlert, Kept
  <2>3. \A d \in delivered' : d \in delivered \/ d.alert = alert
    BY <1>10 DEF SendAlert
  <2>4. History
    BY <1>10, <2>1, <2>3 DEF SendAlert, Kept
  <2>5. Queue
    BY <1>10 DEF SendAlert, Kept
  <2> QED
    BY <1>1, <1>2, <2>2, <2>4, <2>5
<1> QED
  BY <1>4, <1>5, <1>6, <1>7, <1>8, <1>9, <1>10 DEF Thread

LEMMA KeptOutside ==
  ASSUME TypeOK, Kept, Outside
  PROVE  Kept'
<1>1. IsFiniteSet(used') /\ used \subseteq used'
  BY FS_AddElement DEF Outside, Kept
<1>2. ASSUME NEW s \in DOMAIN schedules', s \in used
      PROVE  s \in DOMAIN schedules /\ schedules'[s].job = schedules[s].job
  BY <1>2 DEF Outside
<1>3. UNCHANGED <<threadVars, historyVars>> /\ alerts' = {}
  BY DEF Outside, Kept
<1>4. \A i \in DOMAIN queue : queue[i].id \in used
  <2>1. queue \in Seq([id : used, row : Row])
    BY DEF TypeOK
  <2>2. \A i \in DOMAIN queue : queue[i] \in [id : used, row : Row]
    BY <2>1, Elements
  <2> QED
    BY <2>2
<1>5. \A i \in DOMAIN queue :
        queue[i].id \in DOMAIN schedules' =>
          queue[i].row.job = schedules'[queue[i].id].job
  BY <1>2, <1>4 DEF Kept
<1>6. thread = "send" =>
        /\ media # <<>> /\ alert.expected_at \in Int /\ alert.schedule \in used'
        /\ alert.schedule \in DOMAIN schedules' =>
             alert.job = schedules'[alert.schedule].job
  BY <1>1, <1>2 DEF Kept
<1>7. /\ failures \in BOOLEAN /\ judged \subseteq [schedule : used', tick : Int]
      /\ \A d \in delivered : d.alert.expected_at \in Int
  BY <1>1 DEF Kept
<1> QED
  BY <1>1, <1>3, <1>5, <1>6, <1>7 DEF Kept, threadVars, historyVars

LEMMA KeptStep ==
  ASSUME TypeOK, Kept, [Next]_vars
  PROVE  Kept'
<1>1. CASE UNCHANGED vars
  BY <1>1 DEF Kept, vars, tableVars, threadVars, historyVars
<1> QED
  BY <1>1, KeptTick, KeptThread, KeptOutside, PagesAreOutside DEF Next

-----------------------------------------------------------------------------
\* How long passes and sleeps are

\* Only time makes a pass or a sleep longer, and it waits for who is urgent.
LEMMA RhythmStep ==
  ASSUME TypeOK, Kept, Rhythm, [Next]_vars
  PROVE  Rhythm'
<1>1. now \in Nat /\ since \in Nat /\ MaxPass \in Nat /\ Sleep \in Nat
  BY Constants DEF TypeOK
<1>2. CASE Tick
  BY <1>1, <1>2 DEF Tick, Urgent, Rhythm, threadVars
<1>3. CASE Start \/ Stop \/ Wake \/ EndPass
  BY <1>1, <1>3, Constants DEF Start, Stop, Wake, EndPass, BeginPass, Rhythm
<1>4. CASE Check
  <2>1. /\ thread = "pass" /\ thread' \in {"pass", "send"}
        /\ UNCHANGED <<now, since>>
    BY <1>4 DEF Check
  <2> QED
    BY <2>1 DEF Rhythm
<1>5. CASE SkipMedium \/ SendAlert
  <2>1. /\ thread = "send" /\ UNCHANGED <<now, since>> /\ media # <<>>
        /\ NextMedium \/ NextSchedule
    BY <1>5 DEF SkipMedium, SendAlert
  <2>2. thread' \in {"pass", "send"}
    BY <2>1, MediaLeft
  <2> QED
    BY <2>1, <2>2 DEF Rhythm
<1>6. CASE Pages \/ Clients
  BY <1>6, PagesAreOutside DEF Outside, Rhythm, threadVars
<1>7. CASE UNCHANGED vars
  BY <1>7 DEF Rhythm, vars, threadVars
<1> QED
  BY <1>2, <1>3, <1>4, <1>5, <1>6, <1>7 DEF Next, Thread

-----------------------------------------------------------------------------
\* No false miss

\* Time does not go back.
LEMMA Forward ==
  ASSUME TypeOK, Kept, [Next]_vars
  PROVE  now \in Nat /\ now' \in Nat /\ now' >= now
<1>1. now \in Nat /\ now' \in Nat
  BY TypeStep, Constants DEF TypeOK
<1>2. now' = now \/ now' = now + 1
  <2>1. Pages \/ Clients => now' = now
    BY PagesAreOutside DEF Outside
  <2>2. Thread => now' = now
    BY DEF Thread, Start, Stop, Wake, EndPass, Check, SkipMedium, SendAlert
  <2> QED
    BY <2>1, <2>2 DEF Next, Tick, vars
<1> QED
  BY <1>1, <1>2

\* An execution that begins now is in no window that is over.
LEMMA MissedStays ==
  ASSUME TypeOK, Kept, [Next]_vars, NEW a, a.expected_at \in Int, Missed(a)
  PROVE  Missed(a)'
<1>1. now \in Nat /\ now' \in Nat /\ now' >= now
  BY Forward
<1>2. ExpectedBy(a.expected_at) \in Int
  BY Constants DEF ExpectedBy
<1>3. now' > ExpectedBy(a.expected_at)
  BY <1>1, <1>2 DEF Missed
<1>4. \A e \in ran' : e \in ran \/ e.created_at = now
  <2>1. Pages \/ Clients => \A e \in ran' : e \in ran \/ e.created_at = now
    BY PagesAreOutside DEF Outside
  <2>2. Thread => ran' = ran
    BY DEF Thread, Start, Stop, Wake, EndPass, Check, SkipMedium, SendAlert
  <2> QED
    BY <2>1, <2>2 DEF Next, Tick, vars
<1>5. now \notin a.expected_at..ExpectedBy(a.expected_at)
  BY <1>1, <1>2 DEF Missed
<1>6. \A e \in ran' :
        e.job = a.job /\ e.created_at \in a.expected_at..ExpectedBy(a.expected_at)
          => e \in a.erased
  BY <1>4, <1>5 DEF Missed
<1> QED
  BY <1>3, <1>6 DEF Missed, ExpectedBy

\* An alert under way was so before the step, or a check has just found a miss.
LEMMA AlertOrigin ==
  ASSUME TypeOK, Kept, [Next]_vars, thread' = "send"
  PROVE  \/ thread = "send" /\ alert' = alert
         \/ Check /\ Missed(alert)' /\ alert'.expected_at \in Int
<1>1. CASE Check
  <2> DEFINE s == Head(queue)
             e == ExpectedAt(CronLast(s.row.cron))
             gone == {x \in ran \ executions : x.job = s.row.job}
  <2>1. /\ thread = "pass" /\ UNCHANGED <<now, ran>>
        /\ ShouldCheck(s.row, e) /\ ~Exists(executions, s.row.job, e)
        /\ alert' = [schedule |-> s.id, job |-> s.row.job, expected_at |-> e,
                     updated_at |-> s.row.updated_at, erased |-> gone]
    BY <1>1 DEF Check, tableVars
  <2>2. /\ alert'.job = s.row.job /\ alert'.expected_at = e
        /\ alert'.updated_at = s.row.updated_at /\ alert'.erased = gone
    BY <2>1
  <2>3. now > ExpectedBy(e) /\ s.row.updated_at < ExpectedBy(e)
    <3>1. ExpectedBy(e) > s.row.updated_at
      BY <2>1 DEF ShouldCheck
    <3> QED
      BY <2>1, <3>1 DEF ShouldCheck
  <2>4. \A x \in ran : x.job = s.row.job /\ x.created_at \in e..ExpectedBy(e) => x \in gone
    BY <2>1 DEF Exists
  <2> HIDE DEF s, e, gone
  <2>5. Missed(alert)'
    BY <2>1, <2>2, <2>3, <2>4 DEF Missed, ExpectedBy
  <2>6. alert'.expected_at \in Int
    BY KeptThread, <1>1 DEF Thread, Kept
  <2> QED
    BY <1>1, <2>5, <2>6
<1>2. CASE SkipMedium \/ SendAlert
  <2>1. /\ thread = "send" /\ media # <<>>
        /\ NextMedium \/ NextSchedule
    BY <1>2 DEF SkipMedium, SendAlert
  <2> QED
    BY <2>1, MediaLeft
<1>3. CASE Start \/ Stop \/ Wake \/ EndPass
  BY <1>3 DEF Start, Stop, Wake, EndPass, BeginPass
<1>4. CASE Tick \/ Pages \/ Clients \/ UNCHANGED vars
  BY <1>4, PagesAreOutside DEF Outside, Tick, vars, threadVars
<1> QED
  BY <1>1, <1>2, <1>3, <1>4 DEF Next, Thread

\* Only send_all delivers, and it delivers the alert under way.
LEMMA DeliveredOrigin ==
  ASSUME TypeOK, [Next]_vars
  PROVE  /\ \A d \in delivered' : d \in delivered \/ (d.alert = alert /\ thread = "send")
         /\ delivered \subseteq delivered'
<1>1. CASE SendAlert
  BY <1>1 DEF SendAlert
<1>2. CASE ~SendAlert
  <2>1. Pages \/ Clients => delivered' = delivered
    BY PagesAreOutside DEF Outside, historyVars
  <2>2. delivered' = delivered
    BY <1>2, <2>1 DEF Next, Thread, Start, Stop, Wake, EndPass, Check, SkipMedium,
       Tick, historyVars, vars
  <2> QED
    BY <2>2
<1> QED
  BY <1>1, <1>2

LEMMA MissesStep ==
  ASSUME TypeOK, Kept, Misses, [Next]_vars
  PROVE  Misses'
<1>1. ASSUME thread' = "send" PROVE Missed(alert)'
  <2>1. CASE thread = "send" /\ alert' = alert
    <3>1. alert.expected_at \in Int /\ Missed(alert)
      BY <2>1 DEF Kept, Misses
    <3>2. \A a : a.expected_at \in Int /\ Missed(a) => Missed(a)'
      BY MissedStays
    <3>3. /\ now' > ExpectedBy(alert.expected_at)
          /\ alert.updated_at < ExpectedBy(alert.expected_at)
          /\ \A e \in ran' :
               /\ e.job = alert.job
               /\ e.created_at \in alert.expected_at..ExpectedBy(alert.expected_at)
               => e \in alert.erased
      BY <3>1, <3>2 DEF Missed, ExpectedBy
    <3> QED
      BY <2>1, <3>3 DEF Missed, ExpectedBy
  <2> QED
    BY <1>1, <2>1, AlertOrigin
<1>2. ASSUME NEW d \in delivered' PROVE Missed(d.alert)'
  <2>1. d.alert.expected_at \in Int /\ Missed(d.alert)
    BY DeliveredOrigin DEF Kept, Misses
  <2> QED
    BY <2>1, MissedStays
<1> QED
  BY <1>1, <1>2 DEF Misses

-----------------------------------------------------------------------------
\* When ticks are judged

\* Only a check judges, and it judges one tick of the schedule it takes.
LEMMA JudgedOrigin ==
  ASSUME TypeOK, Kept, [Next]_vars
  PROVE  /\ judged \subseteq judged'
         /\ \A j \in judged' :
              \/ j \in judged
              \/ /\ Check /\ Head(queue).row.cron \in Periods
                 /\ j.schedule = Head(queue).id
                 /\ j.tick = CronLast(Head(queue).row.cron)
                 /\ ShouldCheck(Head(queue).row, ExpectedAt(j.tick))
<1>1. CASE Check
  <2>1. queue \in Seq([id : used, row : Row]) /\ queue # <<>>
    BY <1>1 DEF Check, TypeOK
  <2>2. Head(queue) \in [id : used, row : Row]
    BY <2>1, Pop
  <2>3. Head(queue).row.cron \in Crons
    BY <2>2 DEF Row
  <2> QED
    BY <1>1, <2>3 DEF Check, Crons
<1>2. CASE ~Check
  <2>1. Pages \/ Clients => judged' = judged
    BY PagesAreOutside DEF Outside, historyVars
  <2> QED
    BY <1>2, <2>1 DEF Next, Thread, Start, Stop, Wake, EndPass, SendAlert, SkipMedium,
       Tick, historyVars, vars
<1> QED
  BY <1>1, <1>2

LEMMA JudgedLateStep ==
  ASSUME TypeOK, Kept, JudgedLate, [Next]_vars
  PROVE  JudgedLate'
<1>1. now \in Nat /\ now' \in Nat /\ now' >= now
  BY Forward
<1>2. ASSUME NEW j \in judged' PROVE now' > ExpectedBy(ExpectedAt(j.tick))
  <2>1. now > ExpectedBy(ExpectedAt(j.tick))
    BY JudgedOrigin DEF JudgedLate, ShouldCheck
  <2>2. ExpectedBy(ExpectedAt(j.tick)) \in Int
    <3>1. j.tick \in Int
      BY KeptStep DEF Kept
    <3> QED
      BY <3>1, Constants DEF ExpectedBy, ExpectedAt
  <2> QED
    BY <1>1, <2>1, <2>2
<1> QED
  BY <1>2 DEF JudgedLate, ExpectedBy, ExpectedAt

-----------------------------------------------------------------------------
\* No tick is passed over

\* What Judging says of one tick, for a place of the thread.
InTime(s, t) ==
  /\ thread \in {"pass", "send"} => t + Wait + Post >= since \/ Ahead(s, t)
  /\ thread = "sleep" => t + Wait + Post + MaxPass >= since

\* The numbers that a tick of a schedule is compared with.
LEMMA Numbers ==
  ASSUME TypeOK, NEW s \in DOMAIN schedules, schedules[s].cron \in Periods,
         NEW t \in Ticks(schedules[s].cron)
  PROVE  /\ t \in Nat /\ t % schedules[s].cron = 0
         /\ schedules[s].cron \in Nat \ {0}
         /\ now \in Nat /\ since \in Nat /\ since <= now /\ startTime \in Nat
         /\ schedules[s].updated_at \in Nat
         /\ Minute \in Nat \ {0} /\ Pre \in Nat \ {0} /\ Post = Pre /\ Wait = Minute
         /\ Sleep = Minute /\ MaxPass \in Nat
<1>1. schedules[s] \in Row
  BY DEF TypeOK
<1> QED
  BY <1>1, Constants DEF TypeOK, Ticks, Row

\* A check that comes to a schedule in time judges the tick.
LEMMA CheckJudges ==
  ASSUME TypeOK, Rhythm, Check, NEW s \in DOMAIN schedules,
         schedules[s].cron \in Periods, NEW t \in Ticks(schedules[s].cron),
         Lived(s, t), t + Wait + Post < since,
         since + MaxPass < t + schedules[s].cron + Minute,
         Head(queue) = [id |-> s, row |-> schedules[s]]
  PROVE  [schedule |-> s, tick |-> t] \in judged'
<1> DEFINE p == schedules[s].cron
<1>1. /\ t \in Nat /\ t % p = 0 /\ p \in Nat \ {0}
      /\ now \in Nat /\ since \in Nat /\ since <= now /\ startTime \in Nat
      /\ schedules[s].updated_at \in Nat
      /\ Minute \in Nat \ {0} /\ Pre \in Nat \ {0} /\ Post = Pre /\ Wait = Minute
      /\ MaxPass \in Nat
  BY Numbers
<1>2. thread = "pass" /\ now <= since + MaxPass
  BY DEF Check, Rhythm
<1>3. now >= t + Minute /\ now < t + p + Minute
  BY <1>1, <1>2
<1>4. CronLast(p) = t
  BY <1>1, <1>3, CronLastIs
<1>5. ShouldCheck(schedules[s], ExpectedAt(t))
  <2>1. ExpectedBy(ExpectedAt(t)) = t + Wait + Post
    BY <1>1 DEF ExpectedBy, ExpectedAt
  <2>2. /\ ExpectedAt(t) > startTime /\ now > t + Wait + Post
        /\ t + Wait + Post > schedules[s].updated_at
    BY <1>1 DEF Lived
  <2> QED
    BY <2>1, <2>2 DEF ShouldCheck
<1>6. p # Reboot
  BY Constants
<1> QED
  BY <1>4, <1>5, <1>6 DEF Check

\* A tick of a schedule that stays as it is keeps being judged in time.
LEMMA InTimeStep ==
  ASSUME TypeOK, Kept, Rhythm, [Next]_vars, NEW s \in DOMAIN schedules,
         schedules[s].cron \in Periods, Detectable(schedules[s].cron),
         s \in DOMAIN schedules', schedules'[s] = schedules[s],
         NEW t \in Ticks(schedules[s].cron),
         Lived(s, t)', [schedule |-> s, tick |-> t] \notin judged',
         Lived(s, t) => InTime(s, t)
  PROVE  InTime(s, t)'
<1> DEFINE p == schedules[s].cron
<1>1. /\ t \in Nat /\ t % p = 0 /\ p \in Nat \ {0}
      /\ now \in Nat /\ since \in Nat /\ since <= now /\ startTime \in Nat
      /\ schedules[s].updated_at \in Nat
      /\ Minute \in Nat \ {0} /\ Pre \in Nat \ {0} /\ Post = Pre /\ Wait = Minute
      /\ Sleep = Minute /\ MaxPass \in Nat
  BY Numbers
<1>2. startTime' = startTime => InTime(s, t)
  BY DEF Lived
<1>3. CASE Start
  <2>1. thread' = "pass" /\ startTime' = now /\ since' = now
    BY <1>3 DEF Start, BeginPass
  <2>2. t >= now
    BY <1>1, <2>1 DEF Lived, ExpectedAt
  <2> QED
    BY <1>1, <2>1, <2>2 DEF InTime
<1>4. CASE Stop
  BY <1>4 DEF Stop, InTime
<1>5. CASE Wake
  <2>1. /\ thread = "sleep" /\ startTime' = startTime /\ now = since + Sleep
        /\ thread' = "pass" /\ since' = now /\ UNCHANGED schedules
    BY <1>5 DEF Wake, BeginPass, tableVars
  <2>2. PICK order \in Orders(schedules) : queue' = Snapshot(order)
    BY <1>5 DEF Wake, BeginPass
  <2>3. \E i \in DOMAIN queue' : queue'[i] = [id |-> s, row |-> schedules'[s]]
    BY <2>1, <2>2, SnapshotHasAll
  <2>4. t + Wait + Post + MaxPass >= since
    BY <1>2, <2>1 DEF InTime
  <2>5. since' + MaxPass < t + p + Minute
    BY <1>1, <2>1, <2>4 DEF Detectable
  <2>6. Ahead(s, t)'
    BY <2>3, <2>5 DEF Ahead
  <2> QED
    BY <2>1, <2>6 DEF InTime
<1>6. CASE EndPass
  <2>1. /\ thread = "pass" /\ startTime' = startTime /\ queue = <<>>
        /\ thread' = "sleep" /\ since' = now
    BY <1>6 DEF EndPass
  <2>2. ~Ahead(s, t)
    BY <2>1 DEF Ahead
  <2>3. t + Wait + Post >= since /\ now <= since + MaxPass
    BY <1>2, <2>1, <2>2 DEF InTime, Rhythm
  <2> QED
    BY <1>1, <2>1, <2>3 DEF InTime
<1>7. CASE Check
  <2>1. /\ thread = "pass" /\ queue' = Tail(queue) /\ queue # <<>>
        /\ UNCHANGED <<startTime, since, schedules>> /\ thread' \in {"pass", "send"}
    BY <1>7 DEF Check, tableVars
  <2>2. CASE t + Wait + Post >= since
    BY <2>1, <2>2 DEF InTime
  <2>3. CASE ~(t + Wait + Post >= since)
    <3>1. /\ Lived(s, t) /\ Ahead(s, t)
      BY <1>2, <2>1, <2>3 DEF InTime, Lived
    <3>2. PICK i \in DOMAIN queue : queue[i] = [id |-> s, row |-> schedules[s]]
      BY <3>1 DEF Ahead
    <3>3. t + Wait + Post < since /\ since + MaxPass < t + p + Minute
      BY <1>1, <2>3, <3>1 DEF Ahead
    <3>4. Head(queue) # queue[i]
      BY <1>7, <3>1, <3>2, <3>3, CheckJudges
    <3>5. queue \in Seq([id : used, row : Row])
      BY DEF TypeOK
    <3>6. /\ i # 1 /\ i \in Nat /\ i - 1 \in DOMAIN Tail(queue)
      BY <2>1, <3>4, <3>5, Pop
    <3>7. Tail(queue)[i - 1] = queue[i]
      <4>1. Tail(queue)[i - 1] = queue[(i - 1) + 1]
        BY <2>1, <3>5, <3>6, Pop
      <4> QED
        BY <3>6, <4>1
    <3>8. Ahead(s, t)'
      BY <2>1, <3>2, <3>3, <3>6, <3>7 DEF Ahead
    <3> QED
      BY <2>1, <3>8 DEF InTime
  <2> QED
    BY <2>2, <2>3
<1>8. CASE SkipMedium \/ SendAlert
  <2>1. /\ thread = "send" /\ media # <<>> /\ (NextMedium \/ NextSchedule)
        /\ UNCHANGED <<startTime, since, queue, schedules>>
    BY <1>8 DEF SkipMedium, SendAlert, tableVars
  <2>2. thread' \in {"pass", "send"}
    BY <2>1, MediaLeft
  <2> QED
    BY <1>2, <2>1, <2>2 DEF InTime, Ahead
<1>9. CASE Tick \/ Pages \/ Clients \/ UNCHANGED vars
  <2>1. UNCHANGED threadVars
    BY <1>9, PagesAreOutside DEF Outside, Tick, vars
  <2> QED
    BY <1>2, <2>1 DEF InTime, Ahead, threadVars
<1> QED
  BY <1>3, <1>4, <1>5, <1>6, <1>7, <1>8, <1>9 DEF Next, Thread

LEMMA JudgingStep ==
  ASSUME TypeOK, Kept, Rhythm, Judging, [Next]_vars
  PROVE  Judging'
<1> SUFFICES ASSUME NEW s \in DOMAIN schedules', schedules'[s].cron \in Periods,
                    Detectable(schedules'[s].cron),
                    NEW t \in Ticks(schedules'[s].cron),
                    Lived(s, t)', [schedule |-> s, tick |-> t] \notin judged'
             PROVE  InTime(s, t)'
  BY DEF Judging, InTime
<1>1. CASE s \in DOMAIN schedules /\ schedules'[s] = schedules[s]
  <2>1. [schedule |-> s, tick |-> t] \notin judged
    BY JudgedOrigin
  <2>2. Lived(s, t) => InTime(s, t)
    BY <1>1, <2>1 DEF Judging, InTime
  <2> QED
    BY <1>1, <2>2, InTimeStep
<1>2. CASE ~(s \in DOMAIN schedules /\ schedules'[s] = schedules[s])
  <2>1. Pages \/ Clients
    BY <1>2 DEF Next, Tick, Thread, Start, Stop, Wake, EndPass, Check, SkipMedium,
       SendAlert, vars, tableVars
  <2>2. schedules'[s].updated_at = now /\ since' = since
    BY <1>2, <2>1, PagesAreOutside DEF Outside, threadVars
  <2>3. /\ t \in Nat /\ now \in Nat /\ since \in Nat /\ since <= now
    BY TypeStep, Constants DEF TypeOK, Ticks
  <2>4. t >= now
    BY <2>2 DEF Lived
  <2> QED
    BY <2>2, <2>3, <2>4, Constants DEF InTime
<1> QED
  BY <1>1, <1>2

-----------------------------------------------------------------------------
\* No miss is forgotten

\* A failure of a medium is never forgotten, nor that an execution began.
LEMMA HistoryGrows ==
  ASSUME TypeOK, Kept, [Next]_vars
  PROVE  /\ failures => failures'
         /\ ran \subseteq ran'
         /\ Start \/ Stop \/ startTime' = startTime
         /\ \A s \in DOMAIN schedules' :
              s \in used => /\ s \in DOMAIN schedules
                            /\ schedules'[s].job = schedules[s].job
<1>1. CASE Pages \/ Clients
  BY <1>1, PagesAreOutside DEF Outside, threadVars, historyVars
<1>2. CASE ~(Pages \/ Clients)
  <2>1. UNCHANGED <<schedules, ran>>
    BY <1>2 DEF Next, Tick, Thread, Start, Stop, Wake, EndPass, Check, SkipMedium,
       SendAlert, vars, tableVars
  <2>2. failures => failures'
    BY <1>2 DEF Next, Tick, Thread, Start, Stop, Wake, EndPass, Check, SkipMedium,
       SendAlert, vars, historyVars
  <2>3. Start \/ Stop \/ startTime' = startTime
    BY <1>2 DEF Next, Tick, Thread, Wake, EndPass, Check, SkipMedium,
       SendAlert, vars, threadVars
  <2> QED
    BY <2>1, <2>2, <2>3
<1> QED
  BY <1>1, <1>2

\* What is left of the media after one that is not enabled.
LEMMA EnabledLeft ==
  ASSUME NEW q \in Seq(Range(Media)), q # <<>>, Head(q) \notin Enabled,
         Range(q) \cap Enabled # {}
  PROVE  Range(Tail(q)) \cap Enabled # {} /\ Tail(q) # <<>>
<1>1. PICK i \in DOMAIN q : q[i] \in Enabled
  BY DEF Range
<1>2. i # 1 /\ i \in Nat /\ i - 1 \in DOMAIN Tail(q)
  BY <1>1, Pop
<1>3. Tail(q)[i - 1] = q[(i - 1) + 1]
  BY <1>2, Pop
<1>4. Tail(q)[i - 1] \in Range(Tail(q)) \cap Enabled
  BY <1>1, <1>2, <1>3 DEF Range
<1>5. DOMAIN Tail(q) # {}
  BY <1>2
<1>6. Tail(q) # <<>>
  BY <1>5
<1> QED
  BY <1>4, <1>6

\* An alert under way stays so, or goes out by the first medium that is enabled.
LEMMA UnderStep ==
  ASSUME TypeOK, Kept, [Next]_vars, thread' # "off", ~failures',
         NEW s \in DOMAIN schedules, NEW t \in Int, Under(s, t)
  PROVE  Under(s, t)' \/ Reported(s, t)'
<1>1. /\ thread = "send" /\ media \in Seq(Range(Media)) /\ media # <<>>
      /\ alert.schedule = s /\ alert.expected_at = ExpectedAt(t)
      /\ Range(media) \cap Enabled # {}
  BY DEF Under, TypeOK, Kept
<1>2. CASE SkipMedium
  <2>1. Head(media) \notin Enabled /\ NextMedium
    BY <1>2 DEF SkipMedium, Sent, Kept
  <2>2. Range(Tail(media)) \cap Enabled # {} /\ Tail(media) # <<>>
    BY <1>1, <2>1, EnabledLeft
  <2>3. media' = Tail(media) /\ thread' = "send" /\ alert' = alert
    BY <1>1, <2>1, <2>2 DEF NextMedium
  <2> QED
    BY <1>1, <2>2, <2>3 DEF Under, ExpectedAt
<1>3. CASE SendAlert
  <2>1. alert.job \in jobs
    BY <1>1 DEF Kept, TypeOK
  <2>2. [alert |-> alert, medium |-> Head(media), at |-> now] \in delivered'
    BY <1>3, <2>1 DEF SendAlert
  <2> QED
    BY <1>1, <2>2 DEF Reported, ExpectedAt
<1>4. CASE Tick \/ Pages \/ Clients \/ UNCHANGED vars
  <2>1. UNCHANGED threadVars
    BY <1>4, PagesAreOutside DEF Outside, Tick, vars
  <2> QED
    BY <1>1, <2>1 DEF Under, ExpectedAt, threadVars
<1> QED
  BY <1>1, <1>2, <1>3, <1>4 DEF Next, Thread, Start, Stop, Wake, EndPass, Check

LEMMA ReportingStep ==
  ASSUME TypeOK, Kept, JudgedLate, Reporting, [Next]_vars
  PROVE  Reporting'
<1> SUFFICES ASSUME thread' # "off", ~failures', Enabled # {},
                    NEW j \in judged', j.schedule \in DOMAIN schedules',
                    ExpectedAt(j.tick) > startTime',
                    ~Exists(ran', schedules'[j.schedule].job, ExpectedAt(j.tick))
             PROVE  Under(j.schedule, j.tick)' \/ Reported(j.schedule, j.tick)'
  BY DEF Reporting, ExpectedAt, ExpectedBy, Exists
<1> DEFINE s == j.schedule
           t == j.tick
<1>1. s \in used /\ t \in Int
  <2>1. CASE j \in judged
    BY <2>1 DEF Kept
  <2>2. CASE j \notin judged
    <3>1. Check /\ s = Head(queue).id
      BY <2>2, JudgedOrigin
    <3>2. queue \in Seq([id : used, row : Row]) /\ queue # <<>>
      BY <3>1 DEF Check, TypeOK
    <3>3. Head(queue) \in [id : used, row : Row]
      BY <3>2, Pop
    <3>4. t \in Int
      BY KeptStep DEF Kept
    <3> QED
      BY <3>1, <3>3, <3>4
  <2> QED
    BY <2>1, <2>2
<1>2. /\ s \in DOMAIN schedules /\ schedules'[s].job = schedules[s].job
      /\ ~failures /\ ~Exists(ran, schedules[s].job, ExpectedAt(t))
  BY <1>1, HistoryGrows DEF Exists
<1>3. CASE j \in judged
  <2>1. now > ExpectedBy(ExpectedAt(t)) /\ now \in Nat
    BY <1>3, Constants DEF JudgedLate, TypeOK
  <2>2. ~Start
    <3>1. Start => startTime' = now
      BY DEF Start
    <3> QED
      BY <1>1, <2>1, <3>1, Constants DEF ExpectedBy, ExpectedAt
  <2>3. ~Stop
    BY DEF Stop
  <2>4. startTime' = startTime /\ thread # "off"
    <3>1. startTime' = startTime
      BY <2>2, <2>3, HistoryGrows
    <3>2. thread = "off" => thread' = "off"
      <4>1. Pages \/ Clients => thread' = thread
        BY PagesAreOutside DEF Outside, threadVars
      <4> QED
        BY <2>2, <2>3, <4>1 DEF Next, Tick, Thread, Wake, EndPass, Check, SkipMedium,
           SendAlert, vars, threadVars
    <3> QED
      BY <3>1, <3>2
  <2>5. Under(s, t) \/ Reported(s, t)
    BY <1>2, <1>3, <2>4 DEF Reporting
  <2>6. Reported(s, t) => Reported(s, t)'
    BY DeliveredOrigin DEF Reported, ExpectedAt
  <2> QED
    BY <1>1, <1>2, <2>5, <2>6, UnderStep
<1>4. CASE j \notin judged
  <2> DEFINE h == Head(queue)
  <2>1. /\ Check /\ h.row.cron \in Periods /\ s = h.id /\ t = CronLast(h.row.cron)
        /\ ShouldCheck(h.row, ExpectedAt(t))
    BY <1>4, JudgedOrigin
  <2>2. queue \in Seq([id : used, row : Row]) /\ queue # <<>>
    BY <2>1 DEF Check, TypeOK
  <2>3. h = queue[1] /\ 1 \in DOMAIN queue
    BY <2>2, Pop
  <2>4. h.row.job = schedules[s].job
    BY <1>2, <2>1, <2>3 DEF Kept
  <2>5. ~Exists(executions, h.row.job, ExpectedAt(t))
    BY <1>2, <2>4 DEF Exists, TypeOK
  <2>6. h.row.cron # Reboot
    BY <2>1, Constants
  <2>7. /\ thread' = "send" /\ media' = Media
        /\ alert' = [schedule |-> s, job |-> h.row.job,
                     expected_at |-> ExpectedAt(t),
                     updated_at |-> h.row.updated_at,
                     erased |-> {e \in ran \ executions : e.job = h.row.job}]
    BY <2>1, <2>5, <2>6 DEF Check
  <2>8. Range(media') \cap Enabled # {}
    BY <2>7, MonitorAssumption
  <2>9. alert'.schedule = s /\ alert'.expected_at = ExpectedAt(t)
    BY <2>7
  <2>10. Under(s, t)'
    BY <2>7, <2>8, <2>9 DEF Under, ExpectedAt
  <2> QED
    BY <2>10
<1> QED
  BY <1>3, <1>4

-----------------------------------------------------------------------------
\* The theorems

LEMMA InvStep == Inv /\ [Next]_vars => Inv'
BY TypeStep, KeptStep, RhythmStep, MissesStep, JudgingStep, JudgedLateStep,
   ReportingStep DEF Inv

LEMMA Invariance == Spec => []Inv
<1> QED
  BY InitInv, InvStep, PTL DEF Spec

\* The monitor's variables keep their types: in particular the rows a pass goes on
\* with are of ids that were given out (monitor.rb:36), and a delivery is by an
\* enabled medium (alert.rb:25).
THEOREM MonitorTypeCorrect == Spec => []TypeOK
<1> QED
  BY Invariance, PTL DEF Inv

\* However long the deliveries of a pass take, an alert is only about a window that
\* is over and ends after the schedule's last update, and in which the job has not
\* run, but for runs whose executions were deleted before the check
\* (monitor.rb:84-94).
THEOREM AlertsAreJustified == Spec => []MissesAreReal
<1>1. Inv => MissesAreReal
  BY DEF Inv, Misses, Missed, MissesAreReal
<1> QED
  BY <1>1, Invariance, PTL

\* Between Inv and the properties: what is over was seen in time.
LEMMA OverIsJudged ==
  ASSUME Inv, NEW s \in DOMAIN schedules, schedules[s].cron \in Periods,
         Detectable(schedules[s].cron), NEW t \in Ticks(schedules[s].cron), Over(s, t)
  PROVE  [schedule |-> s, tick |-> t] \in judged
<1> SUFFICES ASSUME [schedule |-> s, tick |-> t] \notin judged PROVE FALSE
  OBVIOUS
<1>1. /\ t \in Nat /\ schedules[s].cron \in Nat \ {0} /\ now \in Nat /\ since \in Nat
      /\ Minute \in Nat \ {0} /\ Post \in Nat /\ Wait = Minute
      /\ Sleep = Minute /\ MaxPass \in Nat
  BY Numbers DEF Inv
<1>2. thread = "sleep" /\ Lived(s, t) /\ now >= t + schedules[s].cron + Minute
  BY DEF Over, Lived
<1>3. t + Wait + Post + MaxPass >= since
  BY <1>2 DEF Inv, Judging
<1>4. now <= since + Sleep
  BY <1>2 DEF Inv, Rhythm
<1> QED
  BY <1>1, <1>2, <1>3, <1>4 DEF Detectable

\* Passes, sleeps and deliveries fall as they like: a tick of a schedule whose
\* period is long enough for the 59 seconds of sleep and the window of 90 is judged
\* by some pass (monitor.rb:33-51, 84).
THEOREM NoTickPassedOver == Spec => []TicksAreJudged
<1>1. Inv => TicksAreJudged
  BY OverIsJudged DEF TicksAreJudged
<1> QED
  BY <1>1, Invariance, PTL

\* A miss is alerted as long as a medium is enabled and none fails, whatever users
\* do to the schedule, its job and the executions meanwhile (monitor.rb:92-101,
\* alert.rb:18-36).
THEOREM NoMissForgotten == Spec => []MissesAreReported
<1>1. Inv => MissesAreReported
  <2> SUFFICES ASSUME Inv, NEW s \in DOMAIN schedules, schedules[s].cron \in Periods,
                      Detectable(schedules[s].cron),
                      NEW t \in Ticks(schedules[s].cron),
                      Over(s, t), ~failures, Enabled # {},
                      ~Exists(ran, schedules[s].job, ExpectedAt(t))
               PROVE  Reported(s, t)
    BY DEF MissesAreReported, Reported
  <2> DEFINE j == [schedule |-> s, tick |-> t]
  <2>1. j \in judged
    BY OverIsJudged
  <2>2. thread = "sleep" /\ ExpectedAt(t) > startTime
    BY DEF Over
  <2>3. j.schedule = s /\ j.tick = t
    OBVIOUS
  <2>4. Under(s, t) \/ Reported(s, t)
    BY <2>1, <2>2, <2>3 DEF Inv, Reporting
  <2> QED
    BY <2>2, <2>4 DEF Under
<1> QED
  BY <1>1, Invariance, PTL
====
