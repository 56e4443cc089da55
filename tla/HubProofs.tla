------------------------------ MODULE HubProofs ------------------------------
(***************************************************************************)
(* What Hub promises for every set of users and commands and every bound.  *)
(***************************************************************************)
EXTENDS Hub, FiniteSetTheorems, TLAPS

-----------------------------------------------------------------------------
\* Lemmas about tables

\* A row added under a fresh id keeps a table a table.
LEMMA WithTable ==
  ASSUME NEW Row, NEW n \in Nat, NEW table, table \in [DOMAIN table -> Row],
         DOMAIN table \subseteq 1..n, NEW row \in Row
  PROVE  /\ With(table, n + 1, row) \in [DOMAIN table \cup {n + 1} -> Row]
         /\ DOMAIN table \cup {n + 1} \subseteq 1..(n + 1)
BY DEF With

\* Rows taken away keep a table a table.
LEMMA WithoutTable ==
  ASSUME NEW Row, NEW table, table \in [DOMAIN table -> Row], NEW ids
  PROVE  /\ Without(table, ids) \in [DOMAIN table \ ids -> Row]
         /\ \A i \in DOMAIN table \ ids : Without(table, ids)[i] = table[i]
BY DEF Without, Restrict

LEMMA WithoutIsTable ==
  ASSUME NEW table, NEW name, NEW Row, IsTable(table, name, Row), NEW ids
  PROVE  IsTable(Without(table, ids), name, Row)
<1>1. DOMAIN Without(table, ids) = DOMAIN table \ ids
  BY DEF Without, Restrict
<1>2. Without(table, ids) \in [DOMAIN table \ ids -> Row]
  BY WithoutTable DEF IsTable
<1> QED
  BY <1>1, <1>2 DEF IsTable

\* Counting an execution changes one column of one row.
LEMMA CountedHosts ==
  ASSUME NEW D, NEW t \in [D -> Host], NEW id
  PROVE  /\ Counted(t, id) \in [D -> Host]
         /\ \A i \in D : /\ Counted(t, id)[i].user = t[i].user
                         /\ Counted(t, id)[i].hostname = t[i].hostname
                         /\ Counted(t, id)[i].executions_count =
                              IF i = id THEN t[i].executions_count + 1
                                        ELSE t[i].executions_count
<1>1. \A r \in Host : [r EXCEPT !.executions_count = @ + 1] \in Host
  BY DEF Host
<1>2. \A i \in D : Counted(t, id)[i] =
        IF i = id THEN [t[i] EXCEPT !.executions_count = @ + 1] ELSE t[i]
  BY DEF Counted
<1>3. Counted(t, id) \in [D -> Host]
  BY <1>1 DEF Counted
<1> QED
  BY <1>2, <1>3 DEF Host

LEMMA CountedJobs ==
  ASSUME NEW D, NEW t \in [D -> Job], NEW id
  PROVE  /\ Counted(t, id) \in [D -> Job]
         /\ \A i \in D : /\ Counted(t, id)[i].user = t[i].user
                         /\ Counted(t, id)[i].command = t[i].command
                         /\ Counted(t, id)[i].enabled = t[i].enabled
                         /\ Counted(t, id)[i].schedules_count = t[i].schedules_count
                         /\ Counted(t, id)[i].executions_count =
                              IF i = id THEN t[i].executions_count + 1
                                        ELSE t[i].executions_count
<1>1. \A r \in Job : [r EXCEPT !.executions_count = @ + 1] \in Job
  BY DEF Job
<1>2. \A i \in D : Counted(t, id)[i] =
        IF i = id THEN [t[i] EXCEPT !.executions_count = @ + 1] ELSE t[i]
  BY DEF Counted
<1>3. Counted(t, id) \in [D -> Job]
  BY <1>1 DEF Counted
<1> QED
  BY <1>2, <1>3 DEF Job

\* A set of ids has a least and a greatest member, which Min and Max choose.
LEMMA LeastNatural ==
  ASSUME NEW S \in SUBSET Nat, S # {}
  PROVE  \E x \in S : \A y \in S : x <= y
<1> DEFINE Less == {p \in Nat \X Nat : p[1] < p[2]}
<1>1. IsWellFoundedOn(Less, Nat)
  BY NatLessThanWellFounded DEF OpToRel
<1> HIDE DEF Less
<1>2. PICK x \in S : \A y \in S : ~(<<y, x>> \in Less)
  BY <1>1, WFMin
<1>3. \A y \in S : ~(y < x)
  BY <1>2 DEF Less
<1> QED
  BY <1>3

LEMMA MinMember ==
  ASSUME NEW S \in SUBSET Nat, S # {}
  PROVE  Min(S) \in S /\ \A i \in S : Min(S) <= i
BY LeastNatural DEF Min

LEMMA MaxMember ==
  ASSUME NEW n \in Nat, NEW S \in SUBSET (0..n), S # {}
  PROVE  Max(S) \in S /\ \A i \in S : i <= Max(S)
<1> DEFINE T == {n - i : i \in S}
<1>0. T \in SUBSET Nat /\ T # {}
  <2>1. \A i \in S : n - i \in Nat
    OBVIOUS
  <2> QED
    BY <2>1
<1>1. PICK x \in T : \A y \in T : x <= y
  BY <1>0, LeastNatural
<1>2. PICK m \in S : x = n - m
  BY <1>1
<1>3. ASSUME NEW i \in S PROVE i <= m
  <2>1. n - m <= n - i
    BY <1>1, <1>2
  <2> QED
    BY <2>1
<1> QED
  BY <1>2, <1>3 DEF Max

-----------------------------------------------------------------------------
\* Type correctness

\* A set of ids of a table is finite, and its size is a natural number.
LEMMA IdsFinite ==
  ASSUME NEW n \in Nat, NEW S \in SUBSET (1..n)
  PROVE  IsFiniteSet(S) /\ Cardinality(S) \in Nat
<1>1. IsFiniteSet(1..n)
  BY FS_Interval
<1>2. IsFiniteSet(S)
  BY <1>1, FS_Subset
<1> QED
  BY <1>2, FS_CardinalityType

\* The host and the job init uses are rows the user has or the next rows.
LEMMA InitRows ==
  ASSUME TypeOK, NEW u \in Users, NEW h \in Hostnames, NEW c \in Commands
  PROVE  /\ IF MatchingHosts(u, h) = {} THEN InitHost(u, h) = NextId("hosts")
                                       ELSE InitHost(u, h) \in MatchingHosts(u, h)
         /\ IF MatchingJobs(u, c) = {} THEN InitJob(u, c) = NextId("jobs")
                                      ELSE InitJob(u, c) \in MatchingJobs(u, c)
<1>1. lastId["hosts"] \in Nat /\ lastId["jobs"] \in Nat
  BY DEF TypeOK, Tables
<1>2. MatchingHosts(u, h) \in SUBSET Nat /\ MatchingJobs(u, c) \in SUBSET Nat
  BY <1>1 DEF TypeOK, IsTable, MatchingHosts, MatchingJobs, HostsOf, JobsOf
<1> QED
  BY <1>2, MinMember DEF InitHost, InitJob

LEMMA InitIds ==
  ASSUME TypeOK, NEW u \in Users, NEW h \in Hostnames, NEW c \in Commands
  PROVE  InitHost(u, h) \in Nat /\ InitJob(u, c) \in Nat
<1>1. NextId("hosts") \in Nat /\ NextId("jobs") \in Nat
  BY DEF TypeOK, Tables, NextId
<1>2. MatchingHosts(u, h) \subseteq Nat /\ MatchingJobs(u, c) \subseteq Nat
  BY DEF TypeOK, IsTable, Tables, MatchingHosts, MatchingJobs, HostsOf, JobsOf
<1> QED
  BY <1>1, <1>2, InitRows

\* The number of a new execution is a positive natural number.
LEMMA NumberType ==
  ASSUME TypeOK, NEW u \in Users, NEW j
  PROVE  ExecutionNumber(u, j) \in Nat
<1> DEFINE previous == ExecutionsOf(u) \cap ExecutionsOfJob(j)
<1>1. lastId["executions"] \in Nat
  BY DEF TypeOK, Tables
<1>2. previous \in SUBSET (0..lastId["executions"])
  BY <1>1 DEF TypeOK, IsTable, ExecutionsOf
<1>3. CASE previous = {}
  BY <1>3 DEF ExecutionNumber
<1>4. CASE previous # {}
  <2>1. Max(previous) \in DOMAIN executions
    BY <1>1, <1>2, <1>4, MaxMember DEF ExecutionsOf
  <2>2. executions[Max(previous)].number \in Nat
    BY <2>1 DEF TypeOK, IsTable, Execution
  <2> QED
    BY <1>4, <2>2 DEF ExecutionNumber
<1> QED
  BY <1>3, <1>4

LEMMA InitType ==
  ASSUME TypeOK, NEW u \in Users, NEW h \in Hostnames, NEW c \in Commands,
         APIInit(u, h, c)
  PROVE  TypeOK'
<1> DEFINE host == InitHost(u, h)
           job == InitJob(u, c)
           id == NextId("executions")
<1>0. lastId \in [Tables -> Nat]
  BY DEF TypeOK
<1>1. /\ lastId' \in [Tables -> Nat]
      /\ lastId'["hosts"] = IF MatchingHosts(u, h) = {} THEN lastId["hosts"] + 1
                                                     ELSE lastId["hosts"]
      /\ lastId'["jobs"] = IF MatchingJobs(u, c) = {} THEN lastId["jobs"] + 1
                                                   ELSE lastId["jobs"]
      /\ lastId'["executions"] = lastId["executions"] + 1
  BY <1>0, InitRows DEF APIInit, Tables, NextId
<1>2. IsTable(hosts, "hosts", Host)'
  <2> DEFINE t == InitHosts(u, h)
  <2>1. NewHostRow(u, h) \in Host
    BY DEF NewHostRow, Host
  <2>2. t \in [DOMAIN t -> Host] /\ DOMAIN t \subseteq 1..lastId'["hosts"]
    <3>1. CASE MatchingHosts(u, h) = {}
      BY <1>0, <1>1, <2>1, <3>1, WithTable
      DEF TypeOK, IsTable, Tables, InitHosts, NextId, With
    <3>2. CASE MatchingHosts(u, h) # {}
      BY <1>1, <3>2 DEF TypeOK, IsTable, InitHosts
    <3> QED
      BY <3>1, <3>2
  <2>3. hosts' \in [DOMAIN t -> Host]
    BY <2>2, CountedHosts DEF APIInit
  <2> QED
    BY <2>2, <2>3 DEF IsTable
<1>3. IsTable(jobs, "jobs", Job)'
  <2> DEFINE t == InitJobs(u, c)
  <2>1. NewJobRow(u, c) \in Job
    BY DEF NewJobRow, Job
  <2>2. t \in [DOMAIN t -> Job] /\ DOMAIN t \subseteq 1..lastId'["jobs"]
    <3>1. CASE MatchingJobs(u, c) = {}
      BY <1>0, <1>1, <2>1, <3>1, WithTable
      DEF TypeOK, IsTable, Tables, InitJobs, NextId, With
    <3>2. CASE MatchingJobs(u, c) # {}
      BY <1>1, <3>2 DEF TypeOK, IsTable, InitJobs
    <3> QED
      BY <3>1, <3>2
  <2>3. jobs' \in [DOMAIN t -> Job]
    BY <2>2, CountedJobs DEF APIInit
  <2> QED
    BY <2>2, <2>3 DEF IsTable
<1>4. IsTable(executions, "executions", Execution)'
  <2>1. ExecutionNumber(u, job) \in Nat
    BY NumberType
  <2>2. host \in Nat /\ job \in Nat
    BY InitIds
  <2>3. [user |-> u, job |-> job, host |-> host,
         number |-> ExecutionNumber(u, job),
         started |-> FALSE, finished |-> FALSE, exit_status |-> NoStatus]
          \in Execution
    BY <2>1, <2>2 DEF Execution
  <2> QED
    BY <1>0, <1>1, <2>3, WithTable DEF TypeOK, IsTable, Tables, APIInit, NextId, With
<1>5. UNCHANGED <<schedules, outputs>> /\ lastId'["schedules"] = lastId["schedules"]
        /\ lastId'["outputs"] = lastId["outputs"]
  BY <1>0 DEF APIInit, Tables
<1>6. issued' \in [1..lastId'["executions"] -> Users]
  BY <1>0 DEF TypeOK, Tables, APIInit, NextId, With
<1> QED
  BY <1>1, <1>2, <1>3, <1>4, <1>5, <1>6 DEF TypeOK, IsTable

LEMMA ClientRequestType ==
  ASSUME TypeOK, NEW e \in DOMAIN issued,
         \/ APIStart(issued[e], e)
         \/ APIOutput(issued[e], e)
         \/ APIFinish(issued[e], e)
         \/ \E status \in ExitStatuses : APIExit(issued[e], e, status)
  PROVE  TypeOK'
<1>1. \A row \in Execution :
        /\ [row EXCEPT !.started = TRUE] \in Execution
        /\ [row EXCEPT !.finished = TRUE] \in Execution
        /\ \A status \in ExitStatuses :
             [row EXCEPT !.exit_status = status] \in Execution
  BY DEF Execution
<1>2. CASE APIStart(issued[e], e)
  BY <1>1, <1>2 DEF TypeOK, IsTable, APIStart, UpdateExecution
<1>3. CASE APIFinish(issued[e], e)
  BY <1>1, <1>3 DEF TypeOK, IsTable, APIFinish, UpdateExecution
<1>4. CASE \E status \in ExitStatuses : APIExit(issued[e], e, status)
  <2>1. PICK status \in ExitStatuses : APIExit(issued[e], e, status)
    BY <1>4
  <2> QED
    BY <1>1, <2>1 DEF TypeOK, IsTable, APIExit, UpdateExecution
<1>5. CASE APIOutput(issued[e], e)
  <2>1. [user |-> issued[e], execution |-> e] \in Output
    BY DEF TypeOK, Tables, Output
  <2>2. IsTable(outputs, "outputs", Output)'
    BY <1>5, <2>1, WithTable DEF TypeOK, IsTable, Tables, APIOutput, NextId, With
  <2> QED
    BY <1>5, <2>2 DEF TypeOK, IsTable, Tables, APIOutput
<1> QED
  BY <1>2, <1>3, <1>4, <1>5

\* Destroying executions keeps the tables it touches tables, and changes no
\* column of a host or a job but the count of executions.
LEMMA DestroyType ==
  ASSUME TypeOK, NEW ids, DestroyExecutions(ids), UNCHANGED lastId
  PROVE  /\ IsTable(executions, "executions", Execution)'
         /\ IsTable(outputs, "outputs", Output)'
BY WithoutIsTable DEF TypeOK, IsTable, DestroyExecutions

LEMMA CountersAfterDestroying ==
  ASSUME TypeOK, NEW ids
  PROVE  /\ HostsAfterDestroying(ids) \in [DOMAIN hosts -> Host]
         /\ JobsAfterDestroying(ids) \in [DOMAIN jobs -> Job]
         /\ \A h \in DOMAIN hosts :
              HostsAfterDestroying(ids)[h].user = hosts[h].user
         /\ \A j \in DOMAIN jobs :
              /\ JobsAfterDestroying(ids)[j].user = jobs[j].user
              /\ JobsAfterDestroying(ids)[j].command = jobs[j].command
              /\ JobsAfterDestroying(ids)[j].enabled = jobs[j].enabled
<1>1. lastId["executions"] \in Nat
  BY DEF TypeOK, Tables
<1>2. ASSUME NEW x
      PROVE  /\ Cardinality(ids \cap ExecutionsOfHost(x)) \in Nat
             /\ Cardinality(ids \cap ExecutionsOfJob(x)) \in Nat
  <2>1. /\ ids \cap ExecutionsOfHost(x) \in SUBSET (1..lastId["executions"])
        /\ ids \cap ExecutionsOfJob(x) \in SUBSET (1..lastId["executions"])
    BY DEF TypeOK, IsTable, ExecutionsOfHost, ExecutionsOfJob
  <2> QED
    BY <1>1, <2>1, IdsFinite
<1>3. ASSUME NEW h \in DOMAIN hosts
      PROVE  /\ HostsAfterDestroying(ids)[h] \in Host
             /\ HostsAfterDestroying(ids)[h].user = hosts[h].user
  <2>1. hosts[h] \in Host
    BY DEF TypeOK, IsTable
  <2>2. \A row \in Host, n \in Nat :
          /\ [row EXCEPT !.executions_count = @ - n] \in Host
          /\ [row EXCEPT !.executions_count = @ - n].user = row.user
    BY DEF Host
  <2> QED
    BY <1>2, <2>1, <2>2 DEF HostsAfterDestroying
<1>4. ASSUME NEW j \in DOMAIN jobs
      PROVE  /\ JobsAfterDestroying(ids)[j] \in Job
             /\ JobsAfterDestroying(ids)[j].user = jobs[j].user
             /\ JobsAfterDestroying(ids)[j].command = jobs[j].command
             /\ JobsAfterDestroying(ids)[j].enabled = jobs[j].enabled
  <2>1. jobs[j] \in Job
    BY DEF TypeOK, IsTable
  <2>2. \A row \in Job, n \in Nat :
          /\ [row EXCEPT !.executions_count = @ - n] \in Job
          /\ [row EXCEPT !.executions_count = @ - n].user = row.user
          /\ [row EXCEPT !.executions_count = @ - n].command = row.command
          /\ [row EXCEPT !.executions_count = @ - n].enabled = row.enabled
    BY DEF Job
  <2> QED
    BY <1>2, <2>1, <2>2 DEF JobsAfterDestroying
<1> QED
  BY <1>3, <1>4 DEF HostsAfterDestroying, JobsAfterDestroying

LEMMA JobPagesType ==
  ASSUME TypeOK, NEW u \in Users, JobPages(u)
  PROVE  TypeOK'
<1>0. lastId \in [Tables -> Nat]
  BY DEF TypeOK
<1>1. CASE \E c \in Commands : NewJob(u, c)
  <2>1. PICK c \in Commands : NewJob(u, c)
    BY <1>1
  <2>2. NewJobRow(u, c) \in Job
    BY DEF NewJobRow, Job
  <2>3. lastId' \in [Tables -> Nat] /\ lastId' = [lastId EXCEPT !["jobs"] = @ + 1]
    BY <1>0, <2>1 DEF NewJob, Tables
  <2>4. IsTable(jobs, "jobs", Job)'
    BY <1>0, <2>1, <2>2, <2>3, WithTable DEF TypeOK, IsTable, Tables, NewJob, NextId, With
  <2> QED
    BY <1>0, <2>1, <2>3, <2>4 DEF TypeOK, IsTable, Tables, NewJob
<1>2. CASE \E j \in DOMAIN jobs, c \in Commands : EditJob(u, j, c)
  <2>1. PICK j \in DOMAIN jobs, c \in Commands : EditJob(u, j, c)
    BY <1>2
  <2>2. [jobs[j] EXCEPT !.command = c] \in Job
    BY DEF TypeOK, IsTable, Job
  <2> QED
    BY <2>1, <2>2 DEF TypeOK, IsTable, EditJob
<1>3. CASE \E j \in DOMAIN jobs, status \in Statuses : SetJobStatus(u, j, status)
  <2>1. PICK j \in DOMAIN jobs, status \in Statuses : SetJobStatus(u, j, status)
    BY <1>3
  <2>2. [jobs[j] EXCEPT !.enabled = CastEnabled(status)] \in Job
    BY DEF TypeOK, IsTable, Job, CastEnabled
  <2> QED
    BY <2>1, <2>2 DEF TypeOK, IsTable, SetJobStatus
<1>4. CASE \E j \in DOMAIN jobs : DeleteJob(u, j)
  <2>1. PICK j \in DOMAIN jobs : DeleteJob(u, j)
    BY <1>4
  <2>2. /\ DestroyExecutions(ExecutionsOfJob(j))
        /\ UNCHANGED <<lastId, issued>>
        /\ hosts' = HostsAfterDestroying(ExecutionsOfJob(j))
        /\ jobs' = Without(jobs, {j})
        /\ schedules' = Without(schedules, SchedulesOfJob(j))
    BY <2>1 DEF DeleteJob
  <2>3. /\ IsTable(executions, "executions", Execution)'
        /\ IsTable(outputs, "outputs", Output)'
    BY <2>2, DestroyType
  <2>4. IsTable(hosts, "hosts", Host)'
    BY <2>2, CountersAfterDestroying DEF TypeOK, IsTable
  <2>5. /\ IsTable(jobs, "jobs", Job)'
        /\ IsTable(schedules, "schedules", Schedule)'
    BY <2>2, WithoutIsTable DEF TypeOK, IsTable
  <2> QED
    BY <2>2, <2>3, <2>4, <2>5 DEF TypeOK
<1> QED
  BY <1>1, <1>2, <1>3, <1>4 DEF JobPages

LEMMA SchedulePagesType ==
  ASSUME TypeOK, NEW u \in Users, SchedulePages(u)
  PROVE  TypeOK'
<1>0. lastId \in [Tables -> Nat]
  BY DEF TypeOK
<1>1. CASE \E j \in DOMAIN jobs, cron \in Crons : NewSchedule(u, j, cron)
  <2>1. PICK j \in DOMAIN jobs, cron \in Crons : NewSchedule(u, j, cron)
    BY <1>1
  <2>2. [user |-> u, job |-> j, cron |-> cron] \in Schedule
    BY <1>0 DEF TypeOK, IsTable, Tables, Schedule
  <2>3. lastId' \in [Tables -> Nat] /\ lastId' = [lastId EXCEPT !["schedules"] = @ + 1]
    BY <1>0, <2>1 DEF NewSchedule, NextId, Tables
  <2>4. IsTable(schedules, "schedules", Schedule)'
    BY <1>0, <2>1, <2>2, <2>3, WithTable
    DEF TypeOK, IsTable, Tables, NewSchedule, NextId, With
  <2>5. \A row \in Job : [row EXCEPT !.schedules_count = @ + 1] \in Job
    BY DEF Job
  <2>6. IsTable(jobs, "jobs", Job)'
    BY <1>0, <2>1, <2>3, <2>5 DEF TypeOK, IsTable, Tables, NewSchedule
  <2> QED
    BY <1>0, <2>1, <2>3, <2>4, <2>6 DEF TypeOK, IsTable, Tables, NewSchedule
<1>2. CASE \E s \in DOMAIN schedules, cron \in Crons : EditSchedule(u, s, cron)
  <2>1. PICK s \in DOMAIN schedules, cron \in Crons : EditSchedule(u, s, cron)
    BY <1>2
  <2>2. [schedules[s] EXCEPT !.cron = cron] \in Schedule
    BY DEF TypeOK, IsTable, Schedule
  <2> QED
    BY <2>1, <2>2 DEF TypeOK, IsTable, EditSchedule
<1>3. CASE \E s \in DOMAIN schedules : DeleteSchedule(u, s)
  <2>1. PICK s \in DOMAIN schedules : DeleteSchedule(u, s)
    BY <1>3
  <2>2. \A row \in Job : [row EXCEPT !.schedules_count = @ - 1] \in Job
    BY DEF Job
  <2>3. IsTable(schedules, "schedules", Schedule)'
    BY <2>1, WithoutIsTable DEF TypeOK, IsTable, DeleteSchedule
  <2>4. IsTable(jobs, "jobs", Job)'
    BY <2>1, <2>2 DEF TypeOK, IsTable, DeleteSchedule
  <2> QED
    BY <2>1, <2>3, <2>4 DEF TypeOK, IsTable, DeleteSchedule
<1> QED
  BY <1>1, <1>2, <1>3 DEF SchedulePages

LEMMA HostPagesType ==
  ASSUME TypeOK, NEW u \in Users, HostPages(u)
  PROVE  TypeOK'
<1>0. lastId \in [Tables -> Nat]
  BY DEF TypeOK
<1>1. CASE \E h \in Hostnames : NewHost(u, h)
  <2>1. PICK h \in Hostnames : NewHost(u, h)
    BY <1>1
  <2>2. NewHostRow(u, h) \in Host
    BY DEF NewHostRow, Host
  <2>3. lastId' \in [Tables -> Nat] /\ lastId' = [lastId EXCEPT !["hosts"] = @ + 1]
    BY <1>0, <2>1 DEF NewHost, Tables
  <2>4. IsTable(hosts, "hosts", Host)'
    BY <1>0, <2>1, <2>2, <2>3, WithTable DEF TypeOK, IsTable, Tables, NewHost, NextId, With
  <2> QED
    BY <1>0, <2>1, <2>3, <2>4 DEF TypeOK, IsTable, Tables, NewHost
<1>2. CASE \E i \in DOMAIN hosts, h \in Hostnames : EditHost(u, i, h)
  <2>1. PICK i \in DOMAIN hosts, h \in Hostnames : EditHost(u, i, h)
    BY <1>2
  <2>2. [hosts[i] EXCEPT !.hostname = h] \in Host
    BY DEF TypeOK, IsTable, Host
  <2> QED
    BY <2>1, <2>2 DEF TypeOK, IsTable, EditHost
<1>3. CASE \E i \in DOMAIN hosts : DeleteHost(u, i)
  <2>1. PICK i \in DOMAIN hosts : DeleteHost(u, i)
    BY <1>3
  <2>2. /\ DestroyExecutions(ExecutionsOfHost(i))
        /\ UNCHANGED <<schedules, lastId, issued>>
        /\ jobs' = JobsAfterDestroying(ExecutionsOfHost(i))
        /\ hosts' = Without(hosts, {i})
    BY <2>1 DEF DeleteHost
  <2>3. /\ IsTable(executions, "executions", Execution)'
        /\ IsTable(outputs, "outputs", Output)'
    BY <2>2, DestroyType
  <2>4. IsTable(jobs, "jobs", Job)'
    BY <2>2, CountersAfterDestroying DEF TypeOK, IsTable
  <2>5. IsTable(hosts, "hosts", Host)'
    BY <2>2, WithoutIsTable DEF TypeOK, IsTable
  <2> QED
    BY <2>2, <2>3, <2>4, <2>5 DEF TypeOK, IsTable
<1> QED
  BY <1>1, <1>2, <1>3 DEF HostPages

LEMMA DeleteExecutionType ==
  ASSUME TypeOK, NEW u \in Users, NEW e \in DOMAIN executions, DeleteExecution(u, e)
  PROVE  TypeOK'
<1>1. /\ DestroyExecutions({e})
      /\ UNCHANGED <<schedules, lastId, issued>>
      /\ jobs' = JobsAfterDestroying({e})
      /\ hosts' = HostsAfterDestroying({e})
  BY DEF DeleteExecution
<1>2. /\ IsTable(executions, "executions", Execution)'
      /\ IsTable(outputs, "outputs", Output)'
  BY <1>1, DestroyType
<1>3. IsTable(jobs, "jobs", Job)' /\ IsTable(hosts, "hosts", Host)'
  BY <1>1, CountersAfterDestroying DEF TypeOK, IsTable
<1> QED
  BY <1>1, <1>2, <1>3 DEF TypeOK, IsTable

LEMMA InitTypeOK == Init => TypeOK
BY DEF Init, TypeOK, IsTable, Tables, Empty

LEMMA NextTypeOK == TypeOK /\ [Next]_vars => TypeOK'
<1> SUFFICES ASSUME TypeOK, [Next]_vars PROVE TypeOK'
  OBVIOUS
<1>1. CASE \E u \in Users, h \in Hostnames, c \in Commands : APIInit(u, h, c)
  BY <1>1, InitType
<1>2. CASE ClientRequest
  <2>1. PICK e \in DOMAIN issued :
          \/ APIStart(issued[e], e)
          \/ APIOutput(issued[e], e)
          \/ APIFinish(issued[e], e)
          \/ \E status \in ExitStatuses : APIExit(issued[e], e, status)
    BY <1>2 DEF ClientRequest
  <2> QED
    BY <2>1, ClientRequestType
<1>3. CASE \E u \in Users : JobPages(u)
  BY <1>3, JobPagesType
<1>4. CASE \E u \in Users : SchedulePages(u)
  BY <1>4, SchedulePagesType
<1>5. CASE \E u \in Users : HostPages(u)
  BY <1>5, HostPagesType
<1>6. CASE \E u \in Users : \E e \in DOMAIN executions : DeleteExecution(u, e)
  BY <1>6, DeleteExecutionType
<1>7. CASE UNCHANGED vars
  BY <1>7 DEF TypeOK, IsTable, vars
<1> QED
  BY <1>1, <1>2, <1>3, <1>4, <1>5, <1>6, <1>7 DEF Next

\* The tables keep their types: every handler writes rows of the right type
\* under ids its table has given out, whatever the number of users and rows.
THEOREM TypeCorrect == Spec => []TypeOK
<1>1. Init => TypeOK
  BY InitTypeOK
<1>2. TypeOK /\ [Next]_vars => TypeOK'
  BY NextTypeOK
<1> QED
  BY <1>1, <1>2, PTL DEF Spec

-----------------------------------------------------------------------------
\* References between tables

\* What init does to the rows other rows point at.
LEMMA InitEffect ==
  ASSUME TypeOK, NEW u \in Users, NEW h \in Hostnames, NEW c \in Commands,
         APIInit(u, h, c)
  PROVE  /\ \A i \in DOMAIN hosts :
              i \in DOMAIN hosts' /\ hosts'[i].user = hosts[i].user
         /\ \A j \in DOMAIN jobs : /\ j \in DOMAIN jobs'
                                  /\ jobs'[j].user = jobs[j].user
                                  /\ jobs'[j].command = jobs[j].command
         /\ InitHost(u, h) \in DOMAIN hosts' /\ hosts'[InitHost(u, h)].user = u
         /\ InitJob(u, c) \in DOMAIN jobs' /\ jobs'[InitJob(u, c)].user = u
         /\ DOMAIN executions' = DOMAIN executions \cup {NextId("executions")}
         /\ NextId("executions") \in Nat
         /\ \A e \in DOMAIN executions : /\ e < NextId("executions")
                                        /\ executions'[e] = executions[e]
                                        /\ issued'[e] = issued[e]
         /\ LET row == executions'[NextId("executions")]
            IN  /\ row.user = u
                /\ row.job = InitJob(u, c)
                /\ row.host = InitHost(u, h)
                /\ row.number = ExecutionNumber(u, InitJob(u, c))
         /\ issued'[NextId("executions")] = u
<1>0. lastId \in [Tables -> Nat]
  BY DEF TypeOK
<1>1. /\ \A i \in DOMAIN hosts :
           i \in DOMAIN hosts' /\ hosts'[i].user = hosts[i].user
      /\ InitHost(u, h) \in DOMAIN hosts' /\ hosts'[InitHost(u, h)].user = u
  <2> DEFINE t == InitHosts(u, h)
  <2>1. /\ t \in [DOMAIN t -> Host]
        /\ \A i \in DOMAIN hosts : i \in DOMAIN t /\ t[i] = hosts[i]
        /\ InitHost(u, h) \in DOMAIN t /\ t[InitHost(u, h)].user = u
    <3>1. CASE MatchingHosts(u, h) = {}
      <4>1. NewHostRow(u, h) \in Host /\ NewHostRow(u, h).user = u
        BY DEF NewHostRow, Host
      <4>2. t = With(hosts, NextId("hosts"), NewHostRow(u, h))
        BY <3>1 DEF InitHosts
      <4>3. InitHost(u, h) = NextId("hosts") /\ NextId("hosts") \notin DOMAIN hosts
        BY <1>0, <3>1 DEF InitHost, TypeOK, IsTable, Tables, NextId
      <4> QED
        BY <4>1, <4>2, <4>3 DEF With, TypeOK, IsTable
    <3>2. CASE MatchingHosts(u, h) # {}
      BY <3>2, InitRows DEF TypeOK, IsTable, InitHosts, MatchingHosts, HostsOf
    <3> QED
      BY <3>1, <3>2
  <2> QED
    BY <2>1, CountedHosts DEF APIInit
<1>2. /\ \A j \in DOMAIN jobs : /\ j \in DOMAIN jobs'
                               /\ jobs'[j].user = jobs[j].user
                               /\ jobs'[j].command = jobs[j].command
      /\ InitJob(u, c) \in DOMAIN jobs' /\ jobs'[InitJob(u, c)].user = u
  <2> DEFINE t == InitJobs(u, c)
  <2>1. /\ t \in [DOMAIN t -> Job]
        /\ \A j \in DOMAIN jobs : j \in DOMAIN t /\ t[j] = jobs[j]
        /\ InitJob(u, c) \in DOMAIN t /\ t[InitJob(u, c)].user = u
    <3>1. CASE MatchingJobs(u, c) = {}
      <4>1. NewJobRow(u, c) \in Job /\ NewJobRow(u, c).user = u
        BY DEF NewJobRow, Job
      <4>2. t = With(jobs, NextId("jobs"), NewJobRow(u, c))
        BY <3>1 DEF InitJobs
      <4>3. InitJob(u, c) = NextId("jobs") /\ NextId("jobs") \notin DOMAIN jobs
        BY <1>0, <3>1 DEF InitJob, TypeOK, IsTable, Tables, NextId
      <4> QED
        BY <4>1, <4>2, <4>3 DEF With, TypeOK, IsTable
    <3>2. CASE MatchingJobs(u, c) # {}
      BY <3>2, InitRows DEF TypeOK, IsTable, InitJobs, MatchingJobs, JobsOf
    <3> QED
      BY <3>1, <3>2
  <2> QED
    BY <2>1, CountedJobs DEF APIInit
<1>3. NextId("executions") \in Nat /\ \A e \in DOMAIN executions : e < NextId("executions")
  BY <1>0 DEF TypeOK, IsTable, Tables, NextId
<1> QED
  BY <1>0, <1>1, <1>2, <1>3 DEF APIInit, With, TypeOK, IsTable, Tables, NextId

\* A step that keeps the users of the rows it keeps, and adds no execution and
\* no schedule, preserves the references if it keeps the rows pointed at.
LEMMA ReferencesKept ==
  ASSUME References,
         \A e \in DOMAIN executions' :
           /\ e \in DOMAIN executions
           /\ executions'[e].user = executions[e].user
           /\ executions'[e].job = executions[e].job
           /\ executions'[e].host = executions[e].host
           /\ executions[e].job \in DOMAIN jobs'
           /\ executions[e].host \in DOMAIN hosts',
         \A s \in DOMAIN schedules' :
           /\ s \in DOMAIN schedules
           /\ schedules'[s].user = schedules[s].user
           /\ schedules'[s].job = schedules[s].job
           /\ schedules[s].job \in DOMAIN jobs',
         \A j \in DOMAIN jobs : j \in DOMAIN jobs' => jobs'[j].user = jobs[j].user,
         \A h \in DOMAIN hosts : h \in DOMAIN hosts' => hosts'[h].user = hosts[h].user,
         UNCHANGED issued
  PROVE  References'
BY DEF References, JobsOf, HostsOf

LEMMA InitReferences ==
  ASSUME TypeOK, References,
         NEW u \in Users, NEW h \in Hostnames, NEW c \in Commands,
         APIInit(u, h, c)
  PROVE  References'
<1>1. UNCHANGED schedules
  BY DEF APIInit
<1>2. \A e \in DOMAIN executions' :
        /\ executions'[e].user = issued'[e]
        /\ executions'[e].job \in DOMAIN jobs'
        /\ jobs'[executions'[e].job].user = executions'[e].user
        /\ executions'[e].host \in DOMAIN hosts'
        /\ hosts'[executions'[e].host].user = executions'[e].user
  BY InitEffect DEF References, JobsOf, HostsOf
<1>3. \A s \in DOMAIN schedules' :
        /\ schedules'[s].job \in DOMAIN jobs'
        /\ jobs'[schedules'[s].job].user = schedules'[s].user
  BY <1>1, InitEffect DEF References, JobsOf
<1> QED
  BY <1>2, <1>3 DEF References, JobsOf, HostsOf

\* A client's request about an execution moves no row.
LEMMA ClientRequestEffect ==
  ASSUME TypeOK, ClientRequest
  PROVE  /\ UNCHANGED <<hosts, jobs, schedules, issued>>
         /\ DOMAIN executions' = DOMAIN executions
         /\ \A i \in DOMAIN executions :
              /\ executions'[i].user = executions[i].user
              /\ executions'[i].job = executions[i].job
              /\ executions'[i].host = executions[i].host
              /\ executions'[i].number = executions[i].number
<1>1. \A row \in Execution :
        /\ LET new == [row EXCEPT !.started = TRUE]
           IN  /\ new.user = row.user /\ new.job = row.job
               /\ new.host = row.host /\ new.number = row.number
        /\ LET new == [row EXCEPT !.finished = TRUE]
           IN  /\ new.user = row.user /\ new.job = row.job
               /\ new.host = row.host /\ new.number = row.number
        /\ \A status : LET new == [row EXCEPT !.exit_status = status]
           IN  /\ new.user = row.user /\ new.job = row.job
               /\ new.host = row.host /\ new.number = row.number
  BY DEF Execution
<1>2. \A i \in DOMAIN executions : executions[i] \in Execution
  BY DEF TypeOK, IsTable
<1>3. PICK e \in DOMAIN issued :
        \/ APIStart(issued[e], e)
        \/ APIOutput(issued[e], e)
        \/ APIFinish(issued[e], e)
        \/ \E status \in ExitStatuses : APIExit(issued[e], e, status)
  BY DEF ClientRequest
<1>4. CASE APIStart(issued[e], e)
  BY <1>1, <1>2, <1>4 DEF APIStart, UpdateExecution
<1>5. CASE APIOutput(issued[e], e)
  BY <1>5 DEF APIOutput
<1>6. CASE APIFinish(issued[e], e)
  BY <1>1, <1>2, <1>6 DEF APIFinish, UpdateExecution
<1>7. CASE \E status \in ExitStatuses : APIExit(issued[e], e, status)
  <2>1. PICK status \in ExitStatuses : APIExit(issued[e], e, status)
    BY <1>7
  <2> QED
    BY <1>1, <1>2, <2>1 DEF APIExit, UpdateExecution
<1> QED
  BY <1>3, <1>4, <1>5, <1>6, <1>7

LEMMA ClientRequestReferences ==
  ASSUME TypeOK, References, ClientRequest
  PROVE  References'
BY ClientRequestEffect DEF References, JobsOf, HostsOf

LEMMA JobPagesReferences ==
  ASSUME TypeOK, References, NEW u \in Users, JobPages(u)
  PROVE  References'
<1>1. CASE \E c \in Commands : NewJob(u, c)
  <2>1. /\ UNCHANGED <<hosts, schedules, executions, issued>>
        /\ \A j \in DOMAIN jobs : j \in DOMAIN jobs' /\ jobs'[j] = jobs[j]
    BY <1>1 DEF NewJob, With, NextId, TypeOK, IsTable, Tables
  <2> QED
    BY <2>1 DEF References, JobsOf, HostsOf
<1>2. CASE \E j \in DOMAIN jobs, c \in Commands : EditJob(u, j, c)
  <2>1. PICK j \in DOMAIN jobs, c \in Commands : EditJob(u, j, c)
    BY <1>2
  <2>2. [jobs[j] EXCEPT !.command = c].user = jobs[j].user
    BY DEF TypeOK, IsTable, Job
  <2>3. /\ UNCHANGED <<hosts, schedules, executions, issued>>
        /\ DOMAIN jobs' = DOMAIN jobs
        /\ \A i \in DOMAIN jobs : jobs'[i].user = jobs[i].user
    BY <2>1, <2>2 DEF EditJob, TypeOK, IsTable
  <2> QED
    BY <2>3 DEF References, JobsOf, HostsOf
<1>3. CASE \E j \in DOMAIN jobs, status \in Statuses : SetJobStatus(u, j, status)
  <2>1. PICK j \in DOMAIN jobs, status \in Statuses : SetJobStatus(u, j, status)
    BY <1>3
  <2>2. [jobs[j] EXCEPT !.enabled = CastEnabled(status)].user = jobs[j].user
    BY DEF TypeOK, IsTable, Job
  <2>3. /\ UNCHANGED <<hosts, schedules, executions, issued>>
        /\ DOMAIN jobs' = DOMAIN jobs
        /\ \A i \in DOMAIN jobs : jobs'[i].user = jobs[i].user
    BY <2>1, <2>2 DEF SetJobStatus, TypeOK, IsTable
  <2> QED
    BY <2>3 DEF References, JobsOf, HostsOf
<1>4. CASE \E j \in DOMAIN jobs : DeleteJob(u, j)
  <2>1. PICK j \in DOMAIN jobs : DeleteJob(u, j)
    BY <1>4
  <2>2. /\ UNCHANGED issued
        /\ hosts' = HostsAfterDestroying(ExecutionsOfJob(j))
        /\ DOMAIN jobs' = DOMAIN jobs \ {j}
        /\ \A i \in DOMAIN jobs' : jobs'[i] = jobs[i]
        /\ DOMAIN schedules' = DOMAIN schedules \ SchedulesOfJob(j)
        /\ \A s \in DOMAIN schedules' : schedules'[s] = schedules[s]
        /\ DOMAIN executions' = DOMAIN executions \ ExecutionsOfJob(j)
        /\ \A e \in DOMAIN executions' : executions'[e] = executions[e]
    BY <2>1 DEF DeleteJob, DestroyExecutions, Without, Restrict
  <2>3. /\ DOMAIN hosts' = DOMAIN hosts
        /\ \A h \in DOMAIN hosts : hosts'[h].user = hosts[h].user
    BY <2>2, CountersAfterDestroying
  <2> QED
    BY <2>2, <2>3, ReferencesKept
    DEF References, JobsOf, HostsOf, ExecutionsOfJob, SchedulesOfJob
<1> QED
  BY <1>1, <1>2, <1>3, <1>4 DEF JobPages

LEMMA SchedulePagesReferences ==
  ASSUME TypeOK, References, NEW u \in Users, SchedulePages(u)
  PROVE  References'
<1>1. CASE \E j \in DOMAIN jobs, cron \in Crons : NewSchedule(u, j, cron)
  <2>1. PICK j \in DOMAIN jobs, cron \in Crons : NewSchedule(u, j, cron)
    BY <1>1
  <2>2. \A row \in Job : [row EXCEPT !.schedules_count = @ + 1].user = row.user
    BY DEF Job
  <2>3. /\ UNCHANGED <<hosts, executions, issued>>
        /\ DOMAIN jobs' = DOMAIN jobs
        /\ \A i \in DOMAIN jobs : jobs'[i].user = jobs[i].user
    BY <2>1, <2>2 DEF NewSchedule, TypeOK, IsTable
  <2>4. jobs[j].user = u
    BY <2>1 DEF NewSchedule, JobsOf
  <2>5. \A s \in DOMAIN schedules' :
          \/ s \in DOMAIN schedules /\ schedules'[s] = schedules[s]
          \/ schedules'[s].user = u /\ schedules'[s].job = j
    BY <2>1 DEF NewSchedule, With
  <2> QED
    BY <2>3, <2>4, <2>5 DEF References, JobsOf, HostsOf
<1>2. CASE \E s \in DOMAIN schedules, cron \in Crons : EditSchedule(u, s, cron)
  <2>1. PICK s \in DOMAIN schedules, cron \in Crons : EditSchedule(u, s, cron)
    BY <1>2
  <2>2. LET row == [schedules[s] EXCEPT !.cron = cron]
        IN  row.user = schedules[s].user /\ row.job = schedules[s].job
    BY DEF TypeOK, IsTable, Schedule
  <2>3. /\ UNCHANGED <<hosts, jobs, executions, issued>>
        /\ DOMAIN schedules' = DOMAIN schedules
        /\ \A i \in DOMAIN schedules : /\ schedules'[i].user = schedules[i].user
                                      /\ schedules'[i].job = schedules[i].job
    BY <2>1, <2>2 DEF EditSchedule, TypeOK, IsTable
  <2> QED
    BY <2>3 DEF References, JobsOf, HostsOf
<1>3. CASE \E s \in DOMAIN schedules : DeleteSchedule(u, s)
  <2>1. PICK s \in DOMAIN schedules : DeleteSchedule(u, s)
    BY <1>3
  <2>2. \A row \in Job : [row EXCEPT !.schedules_count = @ - 1].user = row.user
    BY DEF Job
  <2>3. /\ UNCHANGED <<hosts, executions, issued>>
        /\ DOMAIN jobs' = DOMAIN jobs
        /\ \A i \in DOMAIN jobs : jobs'[i].user = jobs[i].user
    BY <2>1, <2>2 DEF DeleteSchedule, TypeOK, IsTable
  <2>4. \A i \in DOMAIN schedules' : i \in DOMAIN schedules /\ schedules'[i] = schedules[i]
    BY <2>1 DEF DeleteSchedule, Without, Restrict
  <2> QED
    BY <2>3, <2>4 DEF References, JobsOf, HostsOf
<1> QED
  BY <1>1, <1>2, <1>3 DEF SchedulePages

LEMMA HostPagesReferences ==
  ASSUME TypeOK, References, NEW u \in Users, HostPages(u)
  PROVE  References'
<1>1. CASE \E h \in Hostnames : NewHost(u, h)
  <2>1. /\ UNCHANGED <<jobs, schedules, executions, issued>>
        /\ \A i \in DOMAIN hosts : i \in DOMAIN hosts' /\ hosts'[i] = hosts[i]
    BY <1>1 DEF NewHost, With, NextId, TypeOK, IsTable, Tables
  <2> QED
    BY <2>1 DEF References, JobsOf, HostsOf
<1>2. CASE \E i \in DOMAIN hosts, h \in Hostnames : EditHost(u, i, h)
  <2>1. PICK i \in DOMAIN hosts, h \in Hostnames : EditHost(u, i, h)
    BY <1>2
  <2>2. [hosts[i] EXCEPT !.hostname = h].user = hosts[i].user
    BY DEF TypeOK, IsTable, Host
  <2>3. /\ UNCHANGED <<jobs, schedules, executions, issued>>
        /\ DOMAIN hosts' = DOMAIN hosts
        /\ \A k \in DOMAIN hosts : hosts'[k].user = hosts[k].user
    BY <2>1, <2>2 DEF EditHost, TypeOK, IsTable
  <2> QED
    BY <2>3 DEF References, JobsOf, HostsOf
<1>3. CASE \E i \in DOMAIN hosts : DeleteHost(u, i)
  <2>1. PICK i \in DOMAIN hosts : DeleteHost(u, i)
    BY <1>3
  <2>2. /\ UNCHANGED <<schedules, issued>>
        /\ jobs' = JobsAfterDestroying(ExecutionsOfHost(i))
        /\ DOMAIN hosts' = DOMAIN hosts \ {i}
        /\ \A k \in DOMAIN hosts' : hosts'[k] = hosts[k]
        /\ DOMAIN executions' = DOMAIN executions \ ExecutionsOfHost(i)
        /\ \A e \in DOMAIN executions' : executions'[e] = executions[e]
    BY <2>1 DEF DeleteHost, DestroyExecutions, Without, Restrict
  <2>3. /\ DOMAIN jobs' = DOMAIN jobs
        /\ \A j \in DOMAIN jobs : jobs'[j].user = jobs[j].user
    BY <2>2, CountersAfterDestroying
  <2> QED
    BY <2>2, <2>3, ReferencesKept DEF References, JobsOf, HostsOf, ExecutionsOfHost
<1> QED
  BY <1>1, <1>2, <1>3 DEF HostPages

LEMMA DeleteExecutionReferences ==
  ASSUME TypeOK, References, NEW u \in Users, NEW e \in DOMAIN executions,
         DeleteExecution(u, e)
  PROVE  References'
<1>1. /\ UNCHANGED <<schedules, issued>>
      /\ jobs' = JobsAfterDestroying({e})
      /\ hosts' = HostsAfterDestroying({e})
      /\ \A i \in DOMAIN executions' : i \in DOMAIN executions /\ executions'[i] = executions[i]
  BY DEF DeleteExecution, DestroyExecutions, Without, Restrict
<1>2. /\ DOMAIN jobs' = DOMAIN jobs /\ DOMAIN hosts' = DOMAIN hosts
      /\ \A j \in DOMAIN jobs : jobs'[j].user = jobs[j].user
      /\ \A h \in DOMAIN hosts : hosts'[h].user = hosts[h].user
  BY <1>1, CountersAfterDestroying
<1> QED
  BY <1>1, <1>2, ReferencesKept DEF References, JobsOf, HostsOf

LEMMA NextReferences == TypeOK /\ References /\ [Next]_vars => References'
<1> SUFFICES ASSUME TypeOK, References, [Next]_vars PROVE References'
  OBVIOUS
<1>1. CASE \E u \in Users, h \in Hostnames, c \in Commands : APIInit(u, h, c)
  BY <1>1, InitReferences
<1>2. CASE ClientRequest
  BY <1>2, ClientRequestReferences
<1>3. CASE \E u \in Users : JobPages(u)
  BY <1>3, JobPagesReferences
<1>4. CASE \E u \in Users : SchedulePages(u)
  BY <1>4, SchedulePagesReferences
<1>5. CASE \E u \in Users : HostPages(u)
  BY <1>5, HostPagesReferences
<1>6. CASE \E u \in Users : \E e \in DOMAIN executions : DeleteExecution(u, e)
  BY <1>6, DeleteExecutionReferences
<1>7. CASE UNCHANGED vars
  BY <1>7 DEF References, JobsOf, HostsOf, vars
<1> QED
  BY <1>1, <1>2, <1>3, <1>4, <1>5, <1>6, <1>7 DEF Next

\* No handler and no cascade leaves an execution without its job or its host,
\* or a schedule without its job, or mixes the rows of two users.
THEOREM ReferencesHold == Spec => []References
<1>1. Init => References
  BY DEF Init, References, Empty
<1>2. TypeOK /\ References /\ [Next]_vars => References'
  BY NextReferences
<1> QED
  BY <1>1, <1>2, TypeCorrect, PTL DEF Spec

-----------------------------------------------------------------------------
\* Execution numbers and ids

\* Only init creates executions; every other step keeps, of those it leaves,
\* the job and the number.
LEMMA OnlyInitCreates ==
  ASSUME TypeOK, Next,
         ~ \E u \in Users, h \in Hostnames, c \in Commands : APIInit(u, h, c)
  PROVE  /\ UNCHANGED issued
         /\ \A e \in DOMAIN executions' :
              /\ e \in DOMAIN executions
              /\ executions'[e].job = executions[e].job
              /\ executions'[e].number = executions[e].number
<1>1. CASE ClientRequest
  BY <1>1, ClientRequestEffect
<1>2. CASE \E u \in Users : JobPages(u)
  <2>1. PICK u \in Users : JobPages(u)
    BY <1>2
  <2>2. CASE \E j \in DOMAIN jobs : DeleteJob(u, j)
    BY <2>2 DEF DeleteJob, DestroyExecutions, Without, Restrict
  <2>3. CASE UNCHANGED <<executions, issued>>
    BY <2>3
  <2> QED
    BY <2>1, <2>2, <2>3 DEF JobPages, NewJob, EditJob, SetJobStatus
<1>3. CASE \E u \in Users : SchedulePages(u)
  BY <1>3 DEF SchedulePages, NewSchedule, EditSchedule, DeleteSchedule
<1>4. CASE \E u \in Users : HostPages(u)
  <2>1. PICK u \in Users : HostPages(u)
    BY <1>4
  <2>2. CASE \E i \in DOMAIN hosts : DeleteHost(u, i)
    BY <2>2 DEF DeleteHost, DestroyExecutions, Without, Restrict
  <2>3. CASE UNCHANGED <<executions, issued>>
    BY <2>3
  <2> QED
    BY <2>1, <2>2, <2>3 DEF HostPages, NewHost, EditHost
<1>5. CASE \E u \in Users : \E e \in DOMAIN executions : DeleteExecution(u, e)
  BY <1>5 DEF DeleteExecution, DestroyExecutions, Without, Restrict
<1> QED
  BY <1>1, <1>2, <1>3, <1>4, <1>5 DEF Next

\* All executions of a job are its user's, so the number init picks is above
\* every number the job's executions have.
LEMMA NumberAbove ==
  ASSUME TypeOK, References, NumbersFollowIds,
         NEW u \in Users, NEW c \in Commands,
         NEW e \in DOMAIN executions, executions[e].job = InitJob(u, c)
  PROVE  /\ executions[e].user = u
         /\ executions[e].number < ExecutionNumber(u, InitJob(u, c))
<1> DEFINE job == InitJob(u, c)
           previous == ExecutionsOf(u) \cap ExecutionsOfJob(job)
           latest == Max(previous)
<1>1. lastId \in [Tables -> Nat]
  BY DEF TypeOK
<1>2. jobs[job].user = u
  <2>1. job \in DOMAIN jobs /\ jobs[job].user = executions[e].user
    BY DEF References, JobsOf
  <2>2. NextId("jobs") \notin DOMAIN jobs
    BY <1>1 DEF TypeOK, IsTable, Tables, NextId
  <2>3. job \in MatchingJobs(u, c)
    <3>1. MatchingJobs(u, c) # {}
      BY <2>1, <2>2 DEF InitJob
    <3>2. MatchingJobs(u, c) \in SUBSET Nat
      BY <1>1 DEF MatchingJobs, JobsOf, TypeOK, IsTable, Tables
    <3> QED
      BY <3>1, <3>2, MinMember DEF InitJob
  <2> QED
    BY <2>3 DEF MatchingJobs, JobsOf
<1>3. e \in previous
  BY <1>2 DEF References, JobsOf, ExecutionsOf, ExecutionsOfJob
<1>4. previous \in SUBSET (0..lastId["executions"])
  BY <1>1 DEF TypeOK, IsTable, Tables, ExecutionsOf
<1>5. latest \in previous /\ e <= latest
  BY <1>1, <1>3, <1>4, MaxMember DEF Tables
<1>6. executions[e].number <= executions[latest].number
  <2>1. \A i \in previous : i \in DOMAIN executions /\ i \in Nat
                           /\ executions[i].number \in Nat /\ executions[i].job = job
    BY <1>1, <1>4 DEF ExecutionsOf, ExecutionsOfJob, TypeOK, IsTable, Execution, Tables
  <2>2. CASE e = latest
    BY <1>3, <2>1, <2>2
  <2>3. CASE e < latest
    BY <1>3, <1>5, <2>1, <2>3 DEF NumbersFollowIds
  <2> QED
    BY <1>3, <1>5, <2>1, <2>2, <2>3
<1>7. executions[e].number \in Nat /\ executions[latest].number \in Nat
  BY <1>5 DEF ExecutionsOf, TypeOK, IsTable, Execution
<1>8. ExecutionNumber(u, job) = executions[latest].number + 1
  BY <1>3 DEF ExecutionNumber
<1> QED
  BY <1>2, <1>3, <1>6, <1>7, <1>8 DEF ExecutionsOf

LEMMA NextNumbers ==
  TypeOK /\ References /\ NumbersFollowIds /\ [Next]_vars => NumbersFollowIds'
<1> SUFFICES ASSUME TypeOK, References, NumbersFollowIds, [Next]_vars
             PROVE  NumbersFollowIds'
  OBVIOUS
<1>1. CASE \E u \in Users, h \in Hostnames, c \in Commands : APIInit(u, h, c)
  <2>1. PICK u \in Users, h \in Hostnames, c \in Commands : APIInit(u, h, c)
    BY <1>1
  <2> DEFINE id == NextId("executions")
  <2>2. \A e \in DOMAIN executions :
          executions[e].job = executions'[id].job
            => executions[e].number < executions'[id].number
    BY <2>1, InitEffect, NumberAbove
  <2>3. SUFFICES ASSUME NEW e \in DOMAIN executions', NEW f \in DOMAIN executions',
                        executions'[e].job = executions'[f].job, e < f
                 PROVE  executions'[e].number < executions'[f].number
    BY DEF NumbersFollowIds
  <2>4. e \in DOMAIN executions
    <3>1. DOMAIN executions \subseteq Nat
      BY DEF TypeOK, IsTable, Tables
    <3>2. e \in DOMAIN executions \cup {id} /\ f \in DOMAIN executions \cup {id}
      BY <2>1, <2>3, InitEffect
    <3>3. id \in Nat /\ (f \in DOMAIN executions => f < id)
      BY <2>1, InitEffect
    <3> QED
      BY <2>3, <3>1, <3>2, <3>3
  <2>5. CASE f = id
    BY <2>1, <2>2, <2>3, <2>4, <2>5, InitEffect
  <2>6. CASE f \in DOMAIN executions
    BY <2>1, <2>3, <2>4, <2>6, InitEffect DEF NumbersFollowIds
  <2> QED
    BY <2>1, <2>5, <2>6, InitEffect
<1>2. CASE Next /\ ~ \E u \in Users, h \in Hostnames, c \in Commands : APIInit(u, h, c)
  BY <1>2, OnlyInitCreates DEF NumbersFollowIds
<1>3. CASE UNCHANGED vars
  BY <1>3 DEF NumbersFollowIds, vars
<1> QED
  BY <1>1, <1>2, <1>3

\* A later execution of a job has a higher number, for any number of users,
\* jobs, executions and deletions.
THEOREM NumbersOrdered == Spec => []NumbersFollowIds
<1>1. Init => NumbersFollowIds
  BY DEF Init, NumbersFollowIds, Empty
<1>2. TypeOK /\ References /\ NumbersFollowIds /\ [Next]_vars => NumbersFollowIds'
  BY NextNumbers
<1> QED
  BY <1>1, <1>2, TypeCorrect, ReferencesHold, PTL DEF Spec

\* So the unique index on user, job and number never refuses an init: taking
\* the latest number plus one is safe while handlers do not interleave.
THEOREM NoNumberCollision == Spec => []InitNeverCollides
<1>1. TypeOK /\ References /\ NumbersFollowIds => InitNeverCollides
  <2> SUFFICES ASSUME TypeOK, References, NumbersFollowIds,
                      NEW u \in Users, NEW c \in Commands
               PROVE  InitOutcome(u, c) # "number taken"
    BY DEF InitNeverCollides
  <2> DEFINE job == InitJob(u, c)
             n == ExecutionNumber(u, job)
  <2>1. ASSUME NumberTaken(u, job, n) PROVE FALSE
    <3>1. PICK e \in ExecutionsOf(u) \cap ExecutionsOfJob(job) : executions[e].number = n
      BY <2>1 DEF NumberTaken
    <3>2. e \in DOMAIN executions /\ executions[e].job = job
      BY DEF ExecutionsOf, ExecutionsOfJob
    <3>3. executions[e].number < n /\ executions[e].number \in Nat
      BY <3>2, NumberAbove DEF TypeOK, IsTable, Execution
    <3> QED
      BY <3>1, <3>3
  <2> QED
    BY <2>1 DEF InitOutcome
<1> QED
  BY <1>1, TypeCorrect, ReferencesHold, NumbersOrdered, PTL

\* While a job is disabled no request of any client gives it an execution.
THEOREM DisabledIdle == Spec => DisabledJobsStayIdle
<1> DEFINE Idle == \A e \in DOMAIN executions' \ DOMAIN executions :
                     LET j == executions'[e].job
                     IN  j \in DOMAIN jobs => jobs[j].enabled
<1>1. TypeOK /\ [Next]_vars => [Idle]_vars
  <2> SUFFICES ASSUME TypeOK, Next PROVE Idle
    OBVIOUS
  <2>1. CASE \E u \in Users, h \in Hostnames, c \in Commands : APIInit(u, h, c)
    <3>1. PICK u \in Users, h \in Hostnames, c \in Commands : APIInit(u, h, c)
      BY <2>1
    <3>2. SUFFICES ASSUME InitJob(u, c) \in DOMAIN jobs
                   PROVE  jobs[InitJob(u, c)].enabled
      BY <3>1, InitEffect
    <3>3. MatchingJobs(u, c) # {}
      BY <3>2 DEF InitJob, TypeOK, IsTable, Tables, NextId
    <3>4. InitOutcome(u, c) = "ok"
      BY <3>1 DEF APIInit
    <3>5. ~JobRefused(u, c)
      BY <3>3, <3>4 DEF InitOutcome
    <3> QED
      BY <3>3, <3>5 DEF JobRefused
  <2>2. CASE ~ \E u \in Users, h \in Hostnames, c \in Commands : APIInit(u, h, c)
    BY <2>2, OnlyInitCreates
  <2> QED
    BY <2>1, <2>2
<1> QED
  BY <1>1, TypeCorrect, PTL DEF Spec, DisabledJobsStayIdle

\* An execution id that has lost its row never gets one again, so a request
\* that arrives after a deletion reaches no other execution.
THEOREM DeletedStayDeleted == Spec => DeletedIdsStayDeleted
<1> DEFINE Stay == \A e \in DOMAIN issued :
                     e \notin DOMAIN executions => e \notin DOMAIN executions'
<1>1. TypeOK /\ [Next]_vars => [Stay]_vars
  <2> SUFFICES ASSUME TypeOK, Next PROVE Stay
    OBVIOUS
  <2>1. CASE \E u \in Users, h \in Hostnames, c \in Commands : APIInit(u, h, c)
    <3>1. NextId("executions") \notin DOMAIN issued
      BY DEF TypeOK, Tables, NextId
    <3> QED
      BY <2>1, <3>1, InitEffect
  <2>2. CASE ~ \E u \in Users, h \in Hostnames, c \in Commands : APIInit(u, h, c)
    BY <2>2, OnlyInitCreates
  <2> QED
    BY <2>1, <2>2
<1> QED
  BY <1>1, TypeCorrect, PTL DEF Spec, DeletedIdsStayDeleted

-----------------------------------------------------------------------------
\* Counter caches

\* The sets the counters count are finite.
LEMMA CountedSetsFinite ==
  ASSUME TypeOK, NEW i
  PROVE  /\ IsFiniteSet(ExecutionsOfHost(i))
         /\ IsFiniteSet(ExecutionsOfJob(i))
         /\ IsFiniteSet(SchedulesOfJob(i))
<1>1. lastId["executions"] \in Nat /\ lastId["schedules"] \in Nat
  BY DEF TypeOK, Tables
<1>2. /\ ExecutionsOfHost(i) \in SUBSET (1..lastId["executions"])
      /\ ExecutionsOfJob(i) \in SUBSET (1..lastId["executions"])
      /\ SchedulesOfJob(i) \in SUBSET (1..lastId["schedules"])
  BY DEF TypeOK, IsTable, ExecutionsOfHost, ExecutionsOfJob, SchedulesOfJob
<1> QED
  BY <1>1, <1>2, IdsFinite

\* Taking executions away takes as much off each count as off each set.
LEMMA CountersFollowDestruction ==
  ASSUME TypeOK, CountersExact, NEW ids, executions' = Without(executions, ids)
  PROVE  /\ \A h \in DOMAIN hosts :
              HostsAfterDestroying(ids)[h].executions_count =
                Cardinality(ExecutionsOfHost(h)')
         /\ \A j \in DOMAIN jobs :
              /\ JobsAfterDestroying(ids)[j].executions_count =
                   Cardinality(ExecutionsOfJob(j)')
              /\ JobsAfterDestroying(ids)[j].schedules_count =
                   jobs[j].schedules_count
<1>1. ASSUME NEW i
      PROVE  /\ ExecutionsOfHost(i)' = ExecutionsOfHost(i) \ ids
             /\ ExecutionsOfJob(i)' = ExecutionsOfJob(i) \ ids
  BY DEF Without, Restrict, ExecutionsOfHost, ExecutionsOfJob
<1>2. ASSUME NEW i
      PROVE  /\ Cardinality(ExecutionsOfHost(i)') =
                  Cardinality(ExecutionsOfHost(i)) - Cardinality(ids \cap ExecutionsOfHost(i))
             /\ Cardinality(ExecutionsOfJob(i)') =
                  Cardinality(ExecutionsOfJob(i)) - Cardinality(ids \cap ExecutionsOfJob(i))
  <2>1. /\ Cardinality(ExecutionsOfHost(i) \ ids) =
             Cardinality(ExecutionsOfHost(i)) - Cardinality(ExecutionsOfHost(i) \cap ids)
        /\ Cardinality(ExecutionsOfJob(i) \ ids) =
             Cardinality(ExecutionsOfJob(i)) - Cardinality(ExecutionsOfJob(i) \cap ids)
    BY CountedSetsFinite, FS_Difference
  <2>2. /\ ExecutionsOfHost(i) \cap ids = ids \cap ExecutionsOfHost(i)
        /\ ExecutionsOfJob(i) \cap ids = ids \cap ExecutionsOfJob(i)
    OBVIOUS
  <2> QED
    BY <1>1, <2>1, <2>2
<1>3. ASSUME NEW h \in DOMAIN hosts, NEW n
      PROVE  [hosts[h] EXCEPT !.executions_count = n].executions_count = n
  BY DEF TypeOK, IsTable, Host
<1>4. ASSUME NEW j \in DOMAIN jobs, NEW n
      PROVE  /\ [jobs[j] EXCEPT !.executions_count = n].executions_count = n
             /\ [jobs[j] EXCEPT !.executions_count = n].schedules_count =
                  jobs[j].schedules_count
  BY DEF TypeOK, IsTable, Job
<1>5. ASSUME NEW h \in DOMAIN hosts
      PROVE  HostsAfterDestroying(ids)[h].executions_count =
               hosts[h].executions_count - Cardinality(ids \cap ExecutionsOfHost(h))
  BY <1>3 DEF HostsAfterDestroying
<1>6. ASSUME NEW j \in DOMAIN jobs
      PROVE  /\ JobsAfterDestroying(ids)[j].executions_count =
                  jobs[j].executions_count - Cardinality(ids \cap ExecutionsOfJob(j))
             /\ JobsAfterDestroying(ids)[j].schedules_count = jobs[j].schedules_count
  BY <1>4 DEF JobsAfterDestroying
<1> QED
  BY <1>2, <1>5, <1>6 DEF CountersExact

\* The counters of the rows init leaves: one more where the execution went,
\* and none but that on the rows it creates.
LEMMA InitCounters ==
  ASSUME TypeOK, NEW u \in Users, NEW h \in Hostnames, NEW c \in Commands,
         APIInit(u, h, c)
  PROVE  /\ DOMAIN hosts' = DOMAIN hosts \cup {InitHost(u, h)}
         /\ \A i \in DOMAIN hosts' :
              hosts'[i].executions_count =
                (IF i \in DOMAIN hosts THEN hosts[i].executions_count ELSE 0)
                  + (IF i = InitHost(u, h) THEN 1 ELSE 0)
         /\ DOMAIN jobs' = DOMAIN jobs \cup {InitJob(u, c)}
         /\ \A j \in DOMAIN jobs' :
              jobs'[j].executions_count =
                (IF j \in DOMAIN jobs THEN jobs[j].executions_count ELSE 0)
                  + (IF j = InitJob(u, c) THEN 1 ELSE 0)
         /\ \A j \in DOMAIN jobs' :
              jobs'[j].schedules_count =
                IF j \in DOMAIN jobs THEN jobs[j].schedules_count ELSE 0
<1>0. lastId \in [Tables -> Nat]
  BY DEF TypeOK
<1>1. /\ DOMAIN hosts' = DOMAIN hosts \cup {InitHost(u, h)}
      /\ \A i \in DOMAIN hosts' :
           hosts'[i].executions_count =
             (IF i \in DOMAIN hosts THEN hosts[i].executions_count ELSE 0)
               + (IF i = InitHost(u, h) THEN 1 ELSE 0)
  <2> DEFINE t == InitHosts(u, h)
  <2>1. /\ t \in [DOMAIN t -> Host]
        /\ DOMAIN t = DOMAIN hosts \cup {InitHost(u, h)}
        /\ \A i \in DOMAIN t :
             /\ t[i].executions_count =
                  IF i \in DOMAIN hosts THEN hosts[i].executions_count ELSE 0
             /\ t[i].executions_count \in Int
    <3>1. CASE MatchingHosts(u, h) = {}
      <4>1. NewHostRow(u, h) \in Host /\ NewHostRow(u, h).executions_count = 0
        BY DEF NewHostRow, Host
      <4>2. t = With(hosts, NextId("hosts"), NewHostRow(u, h))
        BY <3>1 DEF InitHosts
      <4>3. InitHost(u, h) = NextId("hosts") /\ NextId("hosts") \notin DOMAIN hosts
        BY <1>0, <3>1 DEF InitHost, TypeOK, IsTable, Tables, NextId
      <4>4. \A row \in Host : row.executions_count \in Int
        BY DEF Host
      <4> QED
        BY <4>1, <4>2, <4>3, <4>4 DEF With, TypeOK, IsTable
    <3>2. CASE MatchingHosts(u, h) # {}
      <4>1. \A row \in Host : row.executions_count \in Int
        BY DEF Host
      <4>2. t = hosts
        BY <3>2 DEF InitHosts
      <4>3. InitHost(u, h) \in DOMAIN hosts
        BY <3>2, InitRows DEF MatchingHosts, HostsOf
      <4>4. hosts \in [DOMAIN hosts -> Host]
        BY DEF TypeOK, IsTable
      <4> QED
        BY <4>1, <4>2, <4>3, <4>4
    <3> QED
      BY <3>1, <3>2
  <2>2. hosts' = Counted(t, InitHost(u, h))
    BY DEF APIInit
  <2>3. /\ DOMAIN hosts' = DOMAIN t
        /\ \A i \in DOMAIN t :
             hosts'[i].executions_count = IF i = InitHost(u, h)
                                         THEN t[i].executions_count + 1
                                         ELSE t[i].executions_count
    BY <2>1, <2>2, CountedHosts
  <2> QED
    BY <2>1, <2>3
<1>2. /\ DOMAIN jobs' = DOMAIN jobs \cup {InitJob(u, c)}
      /\ \A j \in DOMAIN jobs' :
           /\ jobs'[j].executions_count =
                (IF j \in DOMAIN jobs THEN jobs[j].executions_count ELSE 0)
                  + (IF j = InitJob(u, c) THEN 1 ELSE 0)
           /\ jobs'[j].schedules_count =
                IF j \in DOMAIN jobs THEN jobs[j].schedules_count ELSE 0
  <2> DEFINE t == InitJobs(u, c)
  <2>1. /\ t \in [DOMAIN t -> Job]
        /\ DOMAIN t = DOMAIN jobs \cup {InitJob(u, c)}
        /\ \A j \in DOMAIN t :
             /\ t[j].executions_count =
                  IF j \in DOMAIN jobs THEN jobs[j].executions_count ELSE 0
             /\ t[j].schedules_count =
                  IF j \in DOMAIN jobs THEN jobs[j].schedules_count ELSE 0
             /\ t[j].executions_count \in Int
    <3>1. CASE MatchingJobs(u, c) = {}
      <4>1. /\ NewJobRow(u, c) \in Job
            /\ NewJobRow(u, c).executions_count = 0
            /\ NewJobRow(u, c).schedules_count = 0
        BY DEF NewJobRow, Job
      <4>2. t = With(jobs, NextId("jobs"), NewJobRow(u, c))
        BY <3>1 DEF InitJobs
      <4>3. InitJob(u, c) = NextId("jobs") /\ NextId("jobs") \notin DOMAIN jobs
        BY <1>0, <3>1 DEF InitJob, TypeOK, IsTable, Tables, NextId
      <4>4. \A row \in Job : row.executions_count \in Int
        BY DEF Job
      <4> QED
        BY <4>1, <4>2, <4>3, <4>4 DEF With, TypeOK, IsTable
    <3>2. CASE MatchingJobs(u, c) # {}
      <4>1. \A row \in Job : row.executions_count \in Int
        BY DEF Job
      <4>2. t = jobs
        BY <3>2 DEF InitJobs
      <4>3. InitJob(u, c) \in DOMAIN jobs
        BY <3>2, InitRows DEF MatchingJobs, JobsOf
      <4>4. jobs \in [DOMAIN jobs -> Job]
        BY DEF TypeOK, IsTable
      <4> QED
        BY <4>1, <4>2, <4>3, <4>4
    <3> QED
      BY <3>1, <3>2
  <2>2. jobs' = Counted(t, InitJob(u, c))
    BY DEF APIInit
  <2>3. /\ DOMAIN jobs' = DOMAIN t
        /\ \A j \in DOMAIN t :
             /\ jobs'[j].executions_count = IF j = InitJob(u, c)
                                            THEN t[j].executions_count + 1
                                            ELSE t[j].executions_count
             /\ jobs'[j].schedules_count = t[j].schedules_count
    BY <2>1, <2>2, CountedJobs
  <2> QED
    BY <2>1, <2>3
<1> QED
  BY <1>1, <1>2

\* A row that does not exist yet has no executions and no schedules.
LEMMA FreshRowsUnused ==
  ASSUME References, NEW i
  PROVE  /\ i \notin DOMAIN hosts => Cardinality(ExecutionsOfHost(i)) = 0
         /\ i \notin DOMAIN jobs => /\ Cardinality(ExecutionsOfJob(i)) = 0
                                  /\ Cardinality(SchedulesOfJob(i)) = 0
<1>1. /\ i \notin DOMAIN hosts => ExecutionsOfHost(i) = {}
      /\ i \notin DOMAIN jobs => ExecutionsOfJob(i) = {} /\ SchedulesOfJob(i) = {}
  BY DEF References, ExecutionsOfHost, ExecutionsOfJob, SchedulesOfJob, JobsOf, HostsOf
<1> QED
  BY <1>1, FS_EmptySet

LEMMA InitCountersExact ==
  ASSUME TypeOK, References, CountersExact,
         NEW u \in Users, NEW h \in Hostnames, NEW c \in Commands,
         APIInit(u, h, c)
  PROVE  CountersExact'
<1> DEFINE id == NextId("executions")
<1>1. id \notin DOMAIN executions
  BY DEF TypeOK, IsTable, Tables, NextId
<1>2. \A i : ExecutionsOfHost(i)' = IF i = InitHost(u, h)
                                   THEN ExecutionsOfHost(i) \cup {id}
                                   ELSE ExecutionsOfHost(i)
  BY <1>1, InitEffect DEF ExecutionsOfHost
<1>3. \A i : ExecutionsOfJob(i)' = IF i = InitJob(u, c)
                                  THEN ExecutionsOfJob(i) \cup {id}
                                  ELSE ExecutionsOfJob(i)
  BY <1>1, InitEffect DEF ExecutionsOfJob
<1>4. ASSUME NEW i
      PROVE  /\ Cardinality(ExecutionsOfHost(i) \cup {id}) =
                  Cardinality(ExecutionsOfHost(i)) + 1
             /\ Cardinality(ExecutionsOfJob(i) \cup {id}) =
                  Cardinality(ExecutionsOfJob(i)) + 1
  <2>1. id \notin ExecutionsOfHost(i) /\ id \notin ExecutionsOfJob(i)
    BY <1>1 DEF ExecutionsOfHost, ExecutionsOfJob
  <2> QED
    BY <2>1, CountedSetsFinite, FS_AddElement
<1>5. ASSUME NEW i PROVE /\ Cardinality(ExecutionsOfHost(i)) \in Nat
                         /\ Cardinality(ExecutionsOfJob(i)) \in Nat
  BY CountedSetsFinite, FS_CardinalityType
<1>6. ASSUME NEW i \in DOMAIN hosts'
      PROVE  hosts'[i].executions_count = Cardinality(ExecutionsOfHost(i)')
  <2>1. /\ hosts'[i].executions_count =
             (IF i \in DOMAIN hosts THEN hosts[i].executions_count ELSE 0)
               + (IF i = InitHost(u, h) THEN 1 ELSE 0)
        /\ i \in DOMAIN hosts \/ i = InitHost(u, h)
    <3>1. \A k \in DOMAIN hosts' :
            hosts'[k].executions_count =
              (IF k \in DOMAIN hosts THEN hosts[k].executions_count ELSE 0)
                + (IF k = InitHost(u, h) THEN 1 ELSE 0)
      BY InitCounters
    <3>2. DOMAIN hosts' = DOMAIN hosts \cup {InitHost(u, h)}
      BY InitCounters
    <3> QED
      BY <1>6, <3>1, <3>2
  <2>2. Cardinality(ExecutionsOfHost(i)) =
          IF i \in DOMAIN hosts THEN hosts[i].executions_count ELSE 0
    BY FreshRowsUnused DEF CountersExact
  <2>3. Cardinality(ExecutionsOfHost(i)') =
          Cardinality(ExecutionsOfHost(i)) + (IF i = InitHost(u, h) THEN 1 ELSE 0)
    <3>1. CASE i = InitHost(u, h)
      <4>1. ExecutionsOfHost(i)' = ExecutionsOfHost(i) \cup {id}
        BY <1>2, <3>1
      <4> QED
        BY <1>4, <3>1, <4>1
    <3>2. CASE i # InitHost(u, h)
      <4>1. ExecutionsOfHost(i)' = ExecutionsOfHost(i)
        BY <1>2, <3>2
      <4> QED
        BY <1>5, <3>2, <4>1
    <3> QED
      BY <3>1, <3>2
  <2> QED
    BY <2>1, <2>2, <2>3
<1>7. ASSUME NEW j \in DOMAIN jobs'
      PROVE  jobs'[j].executions_count = Cardinality(ExecutionsOfJob(j)')
  <2>1. /\ jobs'[j].executions_count =
             (IF j \in DOMAIN jobs THEN jobs[j].executions_count ELSE 0)
               + (IF j = InitJob(u, c) THEN 1 ELSE 0)
        /\ j \in DOMAIN jobs \/ j = InitJob(u, c)
    <3>1. \A k \in DOMAIN jobs' :
            jobs'[k].executions_count =
              (IF k \in DOMAIN jobs THEN jobs[k].executions_count ELSE 0)
                + (IF k = InitJob(u, c) THEN 1 ELSE 0)
      BY InitCounters
    <3>2. DOMAIN jobs' = DOMAIN jobs \cup {InitJob(u, c)}
      BY InitCounters
    <3> QED
      BY <1>7, <3>1, <3>2
  <2>2. Cardinality(ExecutionsOfJob(j)) =
          IF j \in DOMAIN jobs THEN jobs[j].executions_count ELSE 0
    BY FreshRowsUnused DEF CountersExact
  <2>3. Cardinality(ExecutionsOfJob(j)') =
          Cardinality(ExecutionsOfJob(j)) + (IF j = InitJob(u, c) THEN 1 ELSE 0)
    <3>1. CASE j = InitJob(u, c)
      <4>1. ExecutionsOfJob(j)' = ExecutionsOfJob(j) \cup {id}
        BY <1>3, <3>1
      <4> QED
        BY <1>4, <3>1, <4>1
    <3>2. CASE j # InitJob(u, c)
      <4>1. ExecutionsOfJob(j)' = ExecutionsOfJob(j)
        BY <1>3, <3>2
      <4> QED
        BY <1>5, <3>2, <4>1
    <3> QED
      BY <3>1, <3>2
  <2> QED
    BY <2>1, <2>2, <2>3
<1>8. ASSUME NEW j \in DOMAIN jobs'
      PROVE  jobs'[j].schedules_count = Cardinality(SchedulesOfJob(j)')
  <2>1. SchedulesOfJob(j)' = SchedulesOfJob(j)
    BY DEF APIInit, SchedulesOfJob
  <2> QED
    BY <2>1, InitCounters, FreshRowsUnused DEF CountersExact
<1> QED
  BY <1>6, <1>7, <1>8 DEF CountersExact

\* A step that leaves the counts and what they count alone keeps them exact.
LEMMA CountersKept ==
  ASSUME CountersExact,
         DOMAIN executions' = DOMAIN executions,
         \A e \in DOMAIN executions : /\ executions'[e].host = executions[e].host
                                     /\ executions'[e].job = executions[e].job,
         DOMAIN schedules' = DOMAIN schedules,
         \A s \in DOMAIN schedules : schedules'[s].job = schedules[s].job,
         DOMAIN hosts' = DOMAIN hosts,
         \A h \in DOMAIN hosts :
           hosts'[h].executions_count = hosts[h].executions_count,
         DOMAIN jobs' = DOMAIN jobs,
         \A j \in DOMAIN jobs :
           /\ jobs'[j].executions_count = jobs[j].executions_count
           /\ jobs'[j].schedules_count = jobs[j].schedules_count
  PROVE  CountersExact'
<1>1. ASSUME NEW i PROVE /\ ExecutionsOfHost(i)' = ExecutionsOfHost(i)
                         /\ ExecutionsOfJob(i)' = ExecutionsOfJob(i)
                         /\ SchedulesOfJob(i)' = SchedulesOfJob(i)
  BY DEF ExecutionsOfHost, ExecutionsOfJob, SchedulesOfJob
<1> QED
  BY <1>1 DEF CountersExact

LEMMA JobPagesCounters ==
  ASSUME TypeOK, References, CountersExact, NEW u \in Users, JobPages(u)
  PROVE  CountersExact'
<1>0. \A j \in DOMAIN jobs : jobs[j] \in Job
  BY DEF TypeOK, IsTable
<1>1. CASE \E c \in Commands : NewJob(u, c)
  <2>1. PICK c \in Commands : NewJob(u, c)
    BY <1>1
  <2> DEFINE id == NextId("jobs")
  <2>2. UNCHANGED <<hosts, schedules, executions>>
    BY <2>1 DEF NewJob
  <2>3. id \notin DOMAIN jobs
    BY DEF TypeOK, IsTable, Tables, NextId
  <2>4. \A j \in DOMAIN jobs' :
          \/ j \in DOMAIN jobs /\ jobs'[j] = jobs[j]
          \/ j = id /\ jobs'[j].executions_count = 0 /\ jobs'[j].schedules_count = 0
    BY <2>1 DEF NewJob, With, NewJobRow
  <2>5. \A i : /\ ExecutionsOfHost(i)' = ExecutionsOfHost(i)
               /\ ExecutionsOfJob(i)' = ExecutionsOfJob(i)
               /\ SchedulesOfJob(i)' = SchedulesOfJob(i)
    BY <2>2 DEF ExecutionsOfHost, ExecutionsOfJob, SchedulesOfJob
  <2> QED
    BY <2>2, <2>3, <2>4, <2>5, FreshRowsUnused DEF CountersExact
<1>2. CASE \E j \in DOMAIN jobs, c \in Commands : EditJob(u, j, c)
  <2>1. PICK j \in DOMAIN jobs, c \in Commands : EditJob(u, j, c)
    BY <1>2
  <2>2. LET row == [jobs[j] EXCEPT !.command = c]
        IN  /\ row.executions_count = jobs[j].executions_count
            /\ row.schedules_count = jobs[j].schedules_count
    BY <1>0 DEF Job
  <2> QED
    BY <2>1, <2>2, CountersKept DEF EditJob, TypeOK, IsTable
<1>3. CASE \E j \in DOMAIN jobs, status \in Statuses : SetJobStatus(u, j, status)
  <2>1. PICK j \in DOMAIN jobs, status \in Statuses : SetJobStatus(u, j, status)
    BY <1>3
  <2>2. LET row == [jobs[j] EXCEPT !.enabled = CastEnabled(status)]
        IN  /\ row.executions_count = jobs[j].executions_count
            /\ row.schedules_count = jobs[j].schedules_count
    BY <1>0 DEF Job
  <2> QED
    BY <2>1, <2>2, CountersKept DEF SetJobStatus, TypeOK, IsTable
<1>4. CASE \E j \in DOMAIN jobs : DeleteJob(u, j)
  <2>1. PICK j \in DOMAIN jobs : DeleteJob(u, j)
    BY <1>4
  <2> DEFINE ids == ExecutionsOfJob(j)
  <2>2. /\ executions' = Without(executions, ids)
        /\ schedules' = Without(schedules, SchedulesOfJob(j))
        /\ hosts' = HostsAfterDestroying(ids)
        /\ jobs' = Without(jobs, {j})
    BY <2>1 DEF DeleteJob, DestroyExecutions
  <2>3. \A h \in DOMAIN hosts' :
          hosts'[h].executions_count = Cardinality(ExecutionsOfHost(h)')
    BY <2>2, CountersFollowDestruction, CountersAfterDestroying
  <2>4. ASSUME NEW i \in DOMAIN jobs'
        PROVE  /\ i \in DOMAIN jobs /\ jobs'[i] = jobs[i]
               /\ ExecutionsOfJob(i)' = ExecutionsOfJob(i)
               /\ SchedulesOfJob(i)' = SchedulesOfJob(i)
    BY <2>2 DEF Without, Restrict, ExecutionsOfJob, SchedulesOfJob
  <2> QED
    BY <2>3, <2>4 DEF CountersExact
<1> QED
  BY <1>1, <1>2, <1>3, <1>4 DEF JobPages

LEMMA SchedulePagesCounters ==
  ASSUME TypeOK, References, CountersExact, NEW u \in Users, SchedulePages(u)
  PROVE  CountersExact'
<1>0. \A j \in DOMAIN jobs : jobs[j] \in Job
  BY DEF TypeOK, IsTable
<1>1. CASE \E j \in DOMAIN jobs, cron \in Crons : NewSchedule(u, j, cron)
  <2>1. PICK j \in DOMAIN jobs, cron \in Crons : NewSchedule(u, j, cron)
    BY <1>1
  <2> DEFINE id == NextId("schedules")
  <2>2. \A row \in Job :
          /\ [row EXCEPT !.schedules_count = @ + 1].schedules_count =
               row.schedules_count + 1
          /\ [row EXCEPT !.schedules_count = @ + 1].executions_count =
               row.executions_count
    BY DEF Job
  <2>3. /\ DOMAIN jobs' = DOMAIN jobs
        /\ \A i \in DOMAIN jobs :
             /\ jobs'[i].executions_count = jobs[i].executions_count
             /\ jobs'[i].schedules_count =
                  IF i = j THEN jobs[i].schedules_count + 1 ELSE jobs[i].schedules_count
    BY <1>0, <2>1, <2>2 DEF NewSchedule, TypeOK, IsTable
  <2>4. id \notin DOMAIN schedules
    BY DEF TypeOK, IsTable, Tables, NextId
  <2>5. \A i : SchedulesOfJob(i)' = IF i = j THEN SchedulesOfJob(i) \cup {id}
                                           ELSE SchedulesOfJob(i)
    BY <2>1, <2>4 DEF NewSchedule, With, SchedulesOfJob
  <2>6. Cardinality(SchedulesOfJob(j) \cup {id}) = Cardinality(SchedulesOfJob(j)) + 1
    <3>1. id \notin SchedulesOfJob(j)
      BY <2>4 DEF SchedulesOfJob
    <3> QED
      BY <3>1, CountedSetsFinite, FS_AddElement
  <2>7. UNCHANGED <<hosts, executions>>
    BY <2>1 DEF NewSchedule
  <2>8. \A i : /\ ExecutionsOfHost(i)' = ExecutionsOfHost(i)
               /\ ExecutionsOfJob(i)' = ExecutionsOfJob(i)
    BY <2>7 DEF ExecutionsOfHost, ExecutionsOfJob
  <2> QED
    BY <2>3, <2>5, <2>6, <2>7, <2>8 DEF CountersExact
<1>2. CASE \E s \in DOMAIN schedules, cron \in Crons : EditSchedule(u, s, cron)
  <2>1. PICK s \in DOMAIN schedules, cron \in Crons : EditSchedule(u, s, cron)
    BY <1>2
  <2>2. [schedules[s] EXCEPT !.cron = cron].job = schedules[s].job
    BY DEF TypeOK, IsTable, Schedule
  <2> QED
    BY <2>1, <2>2, CountersKept DEF EditSchedule, TypeOK, IsTable
<1>3. CASE \E s \in DOMAIN schedules : DeleteSchedule(u, s)
  <2>1. PICK s \in DOMAIN schedules : DeleteSchedule(u, s)
    BY <1>3
  <2> DEFINE j == schedules[s].job
  <2>2. \A row \in Job :
          /\ [row EXCEPT !.schedules_count = @ - 1].schedules_count =
               row.schedules_count - 1
          /\ [row EXCEPT !.schedules_count = @ - 1].executions_count =
               row.executions_count
    BY DEF Job
  <2>3. /\ DOMAIN jobs' = DOMAIN jobs
        /\ \A i \in DOMAIN jobs :
             /\ jobs'[i].executions_count = jobs[i].executions_count
             /\ jobs'[i].schedules_count =
                  IF i = j THEN jobs[i].schedules_count - 1 ELSE jobs[i].schedules_count
    <3>1. jobs' = [jobs EXCEPT ![j].schedules_count = @ - 1]
      BY <2>1 DEF DeleteSchedule
    <3>2. jobs \in [DOMAIN jobs -> Job]
      BY DEF TypeOK, IsTable
    <3>3. DOMAIN jobs' = DOMAIN jobs
      BY <3>1
    <3>4. ASSUME NEW i \in DOMAIN jobs
          PROVE  jobs'[i] = IF i = j THEN [jobs[i] EXCEPT !.schedules_count = @ - 1]
                                     ELSE jobs[i]
      BY <3>1
    <3>5. ASSUME NEW i \in DOMAIN jobs PROVE jobs[i] \in Job
      BY <3>2
    <3> QED
      BY <2>2, <3>3, <3>4, <3>5
  <2>4. \A i : SchedulesOfJob(i)' = IF i = j THEN SchedulesOfJob(i) \ {s}
                                           ELSE SchedulesOfJob(i)
    BY <2>1 DEF DeleteSchedule, Without, Restrict, SchedulesOfJob
  <2>5. Cardinality(SchedulesOfJob(j) \ {s}) = Cardinality(SchedulesOfJob(j)) - 1
    <3>1. s \in SchedulesOfJob(j)
      BY DEF SchedulesOfJob
    <3> QED
      BY <3>1, CountedSetsFinite, FS_RemoveElement
  <2>6. UNCHANGED <<hosts, executions>>
    BY <2>1 DEF DeleteSchedule
  <2>7. \A i : /\ ExecutionsOfHost(i)' = ExecutionsOfHost(i)
               /\ ExecutionsOfJob(i)' = ExecutionsOfJob(i)
    BY <2>6 DEF ExecutionsOfHost, ExecutionsOfJob
  <2>8. \A h \in DOMAIN hosts' :
          hosts'[h].executions_count = Cardinality(ExecutionsOfHost(h)')
    BY <2>6, <2>7 DEF CountersExact
  <2>9. \A i \in DOMAIN jobs' :
          jobs'[i].executions_count = Cardinality(ExecutionsOfJob(i)')
    BY <2>3, <2>7 DEF CountersExact
  <2>10. ASSUME NEW i \in DOMAIN jobs'
         PROVE  jobs'[i].schedules_count = Cardinality(SchedulesOfJob(i)')
    <3>1. jobs[i].schedules_count = Cardinality(SchedulesOfJob(i))
      BY <2>3, <2>10 DEF CountersExact
    <3>2. CASE i = j
      BY <2>3, <2>4, <2>5, <2>10, <3>1, <3>2
    <3>3. CASE i # j
      BY <2>3, <2>4, <2>10, <3>1, <3>3
    <3> QED
      BY <3>2, <3>3
  <2> QED
    BY <2>8, <2>9, <2>10 DEF CountersExact
<1> QED
  BY <1>1, <1>2, <1>3 DEF SchedulePages

LEMMA HostPagesCounters ==
  ASSUME TypeOK, References, CountersExact, NEW u \in Users, HostPages(u)
  PROVE  CountersExact'
<1>1. CASE \E h \in Hostnames : NewHost(u, h)
  <2>1. PICK h \in Hostnames : NewHost(u, h)
    BY <1>1
  <2> DEFINE id == NextId("hosts")
  <2>2. UNCHANGED <<jobs, schedules, executions>>
    BY <2>1 DEF NewHost
  <2>3. id \notin DOMAIN hosts
    BY DEF TypeOK, IsTable, Tables, NextId
  <2>4. \A i \in DOMAIN hosts' :
          \/ i \in DOMAIN hosts /\ hosts'[i] = hosts[i]
          \/ i = id /\ hosts'[i].executions_count = 0
    BY <2>1 DEF NewHost, With, NewHostRow
  <2>5. \A i : /\ ExecutionsOfHost(i)' = ExecutionsOfHost(i)
               /\ ExecutionsOfJob(i)' = ExecutionsOfJob(i)
               /\ SchedulesOfJob(i)' = SchedulesOfJob(i)
    BY <2>2 DEF ExecutionsOfHost, ExecutionsOfJob, SchedulesOfJob
  <2> QED
    BY <2>2, <2>3, <2>4, <2>5, FreshRowsUnused DEF CountersExact
<1>2. CASE \E i \in DOMAIN hosts, h \in Hostnames : EditHost(u, i, h)
  <2>1. PICK i \in DOMAIN hosts, h \in Hostnames : EditHost(u, i, h)
    BY <1>2
  <2>2. [hosts[i] EXCEPT !.hostname = h].executions_count = hosts[i].executions_count
    BY DEF TypeOK, IsTable, Host
  <2> QED
    BY <2>1, <2>2, CountersKept DEF EditHost, TypeOK, IsTable
<1>3. CASE \E i \in DOMAIN hosts : DeleteHost(u, i)
  <2>1. PICK i \in DOMAIN hosts : DeleteHost(u, i)
    BY <1>3
  <2> DEFINE ids == ExecutionsOfHost(i)
  <2>2. /\ executions' = Without(executions, ids)
        /\ UNCHANGED schedules
        /\ jobs' = JobsAfterDestroying(ids)
        /\ hosts' = Without(hosts, {i})
    BY <2>1 DEF DeleteHost, DestroyExecutions
  <2>3. \A j \in DOMAIN jobs' :
          /\ jobs'[j].executions_count = Cardinality(ExecutionsOfJob(j)')
          /\ jobs'[j].schedules_count = Cardinality(SchedulesOfJob(j))
    BY <2>2, CountersFollowDestruction, CountersAfterDestroying DEF CountersExact
  <2>4. ASSUME NEW h \in DOMAIN hosts'
        PROVE  /\ h \in DOMAIN hosts /\ hosts'[h] = hosts[h]
               /\ ExecutionsOfHost(h)' = ExecutionsOfHost(h)
    BY <2>2 DEF Without, Restrict, ExecutionsOfHost
  <2>5. \A j : SchedulesOfJob(j)' = SchedulesOfJob(j)
    BY <2>2 DEF SchedulesOfJob
  <2> QED
    BY <2>3, <2>4, <2>5 DEF CountersExact
<1> QED
  BY <1>1, <1>2, <1>3 DEF HostPages

LEMMA NextCounters ==
  TypeOK /\ References /\ CountersExact /\ [Next]_vars => CountersExact'
<1> SUFFICES ASSUME TypeOK, References, CountersExact, [Next]_vars
             PROVE  CountersExact'
  OBVIOUS
<1>1. CASE \E u \in Users, h \in Hostnames, c \in Commands : APIInit(u, h, c)
  BY <1>1, InitCountersExact
<1>2. CASE ClientRequest
  BY <1>2, ClientRequestEffect, CountersKept
<1>3. CASE \E u \in Users : JobPages(u)
  BY <1>3, JobPagesCounters
<1>4. CASE \E u \in Users : SchedulePages(u)
  BY <1>4, SchedulePagesCounters
<1>5. CASE \E u \in Users : HostPages(u)
  BY <1>5, HostPagesCounters
<1>6. CASE \E u \in Users : \E e \in DOMAIN executions : DeleteExecution(u, e)
  <2>1. PICK u \in Users : \E e \in DOMAIN executions : DeleteExecution(u, e)
    BY <1>6
  <2>2. PICK e \in DOMAIN executions : DeleteExecution(u, e)
    BY <2>1
  <2>3. /\ executions' = Without(executions, {e})
        /\ UNCHANGED schedules
        /\ jobs' = JobsAfterDestroying({e})
        /\ hosts' = HostsAfterDestroying({e})
    BY <2>2 DEF DeleteExecution, DestroyExecutions
  <2>4. DOMAIN jobs' = DOMAIN jobs /\ DOMAIN hosts' = DOMAIN hosts
    BY <2>3, CountersAfterDestroying
  <2>5. \A j : SchedulesOfJob(j)' = SchedulesOfJob(j)
    BY <2>3 DEF SchedulesOfJob
  <2>6. \A i \in DOMAIN hosts' :
          hosts'[i].executions_count = Cardinality(ExecutionsOfHost(i)')
    BY <2>3, <2>4, CountersFollowDestruction
  <2>7. \A j \in DOMAIN jobs' :
          jobs'[j].executions_count = Cardinality(ExecutionsOfJob(j)')
    BY <2>3, <2>4, CountersFollowDestruction
  <2>8. \A j \in DOMAIN jobs' :
          jobs'[j].schedules_count = Cardinality(SchedulesOfJob(j)')
    BY <2>3, <2>4, <2>5, CountersFollowDestruction DEF CountersExact
  <2> QED
    BY <2>6, <2>7, <2>8 DEF CountersExact
<1>7. CASE UNCHANGED vars
  BY <1>7 DEF CountersExact, ExecutionsOfHost, ExecutionsOfJob, SchedulesOfJob, vars
<1> QED
  BY <1>1, <1>2, <1>3, <1>4, <1>5, <1>6, <1>7 DEF Next

\* The counters of hosts and jobs always equal the number of their rows.
THEOREM CountersCorrect == Spec => []CountersExact
<1>1. Init => CountersExact
  BY DEF Init, CountersExact, Empty
<1>2. TypeOK /\ References /\ CountersExact /\ [Next]_vars => CountersExact'
  BY NextCounters
<1> QED
  BY <1>1, <1>2, TypeCorrect, ReferencesHold, PTL DEF Spec
-----------------------------------------------------------------------------
\* Users

\* Tables that hold the same rows of v.
Agree(t, new, v) ==
  /\ \A i \in DOMAIN t : t[i].user = v => i \in DOMAIN new /\ new[i] = t[i]
  /\ \A i \in DOMAIN new : new[i].user = v => i \in DOMAIN t /\ t[i].user = v

\* A step that leaves alone the rows of every user but u.
Apart(u) ==
  \A v \in Users \ {u} :
    /\ Agree(hosts, hosts', v)
    /\ Agree(jobs, jobs', v)
    /\ Agree(schedules, schedules', v)
    /\ Agree(executions, executions', v)
    /\ Agree(outputs, outputs', v)

\* An output row belongs to the user whose client was told the execution's id,
\* whether or not the execution is still there.
OutputsOwned ==
  \A o \in DOMAIN outputs :
    /\ outputs[o].execution \in DOMAIN issued
    /\ outputs[o].user = issued[outputs[o].execution]

LEMMA AgreeRows ==
  ASSUME NEW t, NEW new, NEW v, Agree(t, new, v)
  PROVE  OwnedBy(new, v) = OwnedBy(t, v)
<1>1. {i \in DOMAIN new : new[i].user = v} = {i \in DOMAIN t : t[i].user = v}
  BY DEF Agree
<1>2. \A i \in {j \in DOMAIN t : t[j].user = v} : new[i] = t[i]
  BY DEF Agree
<1> QED
  BY <1>1, <1>2 DEF OwnedBy, Restrict

LEMMA AgreeSame ==
  ASSUME NEW t, NEW v
  PROVE  Agree(t, t, v)
BY DEF Agree

\* A new row of u under an id not in use.
LEMMA AgreeWith ==
  ASSUME NEW t, NEW v, NEW id, id \notin DOMAIN t, NEW row, row.user # v
  PROVE  Agree(t, With(t, id, row), v)
BY DEF Agree, With

\* Rows taken away, none of them of v.
LEMMA AgreeWithout ==
  ASSUME NEW t, NEW v, NEW ids, \A i \in ids \cap DOMAIN t : t[i].user # v
  PROVE  Agree(t, Without(t, ids), v)
BY DEF Agree, Without, Restrict

\* A table whose rows keep their users and, if of v, their values.
LEMMA AgreeOn ==
  ASSUME NEW t, NEW new, NEW v, DOMAIN new = DOMAIN t,
         \A i \in DOMAIN t : /\ new[i].user = t[i].user
                             /\ t[i].user = v => new[i] = t[i]
  PROVE  Agree(t, new, v)
BY DEF Agree

LEMMA NextOutputsOwned == TypeOK /\ OutputsOwned /\ [Next]_vars => OutputsOwned'
<1> SUFFICES ASSUME TypeOK, OutputsOwned, [Next]_vars PROVE OutputsOwned'
  OBVIOUS
<1>1. CASE \E u \in Users, h \in Hostnames, c \in Commands : APIInit(u, h, c)
  <2>1. UNCHANGED outputs
    BY <1>1 DEF APIInit
  <2>2. \A e \in DOMAIN issued : e \in DOMAIN issued' /\ issued'[e] = issued[e]
    BY <1>1 DEF APIInit, With, NextId, TypeOK, Tables
  <2> QED
    BY <2>1, <2>2 DEF OutputsOwned
<1>2. CASE ClientRequest
  <2>1. PICK e \in DOMAIN issued :
          APIOutput(issued[e], e) \/ UNCHANGED <<outputs, issued>>
    BY <1>2 DEF ClientRequest, APIStart, APIFinish, APIExit
  <2> QED
    BY <2>1 DEF OutputsOwned, APIOutput, With
<1>3. CASE /\ UNCHANGED issued
           /\ \A o \in DOMAIN outputs' : o \in DOMAIN outputs /\ outputs'[o] = outputs[o]
  BY <1>3 DEF OutputsOwned
<1>4. CASE \E u \in Users : JobPages(u)
  BY <1>4, <1>3 DEF JobPages, NewJob, EditJob, SetJobStatus, DeleteJob,
                    DestroyExecutions, Without, Restrict
<1>5. CASE \E u \in Users : SchedulePages(u)
  BY <1>5, <1>3 DEF SchedulePages, NewSchedule, EditSchedule, DeleteSchedule
<1>6. CASE \E u \in Users : HostPages(u)
  BY <1>6, <1>3 DEF HostPages, NewHost, EditHost, DeleteHost, DestroyExecutions,
                    Without, Restrict
<1>7. CASE \E u \in Users : \E e \in DOMAIN executions : DeleteExecution(u, e)
  BY <1>7, <1>3 DEF DeleteExecution, DestroyExecutions, Without, Restrict
<1>8. CASE UNCHANGED vars
  BY <1>8, <1>3 DEF vars
<1> QED
  BY <1>1, <1>2, <1>4, <1>5, <1>6, <1>7, <1>8 DEF Next

\* Init touches the rows it finds for its user, or makes.
LEMMA InitApart ==
  ASSUME TypeOK, NEW u \in Users, NEW h \in Hostnames, NEW c \in Commands,
         APIInit(u, h, c)
  PROVE  Apart(u)
<1> SUFFICES ASSUME NEW v \in Users \ {u}
             PROVE  /\ Agree(hosts, hosts', v)
                    /\ Agree(jobs, jobs', v)
                    /\ Agree(executions, executions', v)
  BY AgreeSame DEF Apart, APIInit
<1>0. lastId \in [Tables -> Nat]
  BY DEF TypeOK
<1>d. /\ DOMAIN hosts' = DOMAIN hosts \cup {InitHost(u, h)}
      /\ DOMAIN jobs' = DOMAIN jobs \cup {InitJob(u, c)}
  BY InitCounters
<1>1. Agree(hosts, hosts', v)
  <2>1. ASSUME NEW i \in DOMAIN hosts, hosts[i].user = v
        PROVE  i # InitHost(u, h) /\ hosts'[i] = hosts[i]
    <3>1. i # NextId("hosts")
      BY <1>0 DEF TypeOK, IsTable, Tables, NextId
    <3>2. i \notin MatchingHosts(u, h)
      BY <2>1 DEF MatchingHosts, HostsOf
    <3>3. i # InitHost(u, h)
      BY <3>1, <3>2, InitRows
    <3>4. i \in DOMAIN InitHosts(u, h) /\ InitHosts(u, h)[i] = hosts[i]
      BY <3>1 DEF InitHosts, With
    <3> QED
      BY <3>3, <3>4 DEF APIInit, Counted
  <2>2. ASSUME NEW i \in DOMAIN hosts', hosts'[i].user = v
        PROVE  i \in DOMAIN hosts /\ hosts[i].user = v
    <3>1. i # InitHost(u, h)
      BY <2>2, InitEffect
    <3>2. i \in DOMAIN hosts
      BY <2>2, <3>1, <1>d
    <3> QED
      BY <2>2, <3>2, InitEffect
  <2> QED
    BY <2>1, <2>2, InitEffect DEF Agree
<1>2. Agree(jobs, jobs', v)
  <2>1. ASSUME NEW j \in DOMAIN jobs, jobs[j].user = v
        PROVE  j # InitJob(u, c) /\ jobs'[j] = jobs[j]
    <3>1. j # NextId("jobs")
      BY <1>0 DEF TypeOK, IsTable, Tables, NextId
    <3>2. j \notin MatchingJobs(u, c)
      BY <2>1 DEF MatchingJobs, JobsOf
    <3>3. j # InitJob(u, c)
      BY <3>1, <3>2, InitRows
    <3>4. j \in DOMAIN InitJobs(u, c) /\ InitJobs(u, c)[j] = jobs[j]
      BY <3>1 DEF InitJobs, With
    <3> QED
      BY <3>3, <3>4 DEF APIInit, Counted
  <2>2. ASSUME NEW j \in DOMAIN jobs', jobs'[j].user = v
        PROVE  j \in DOMAIN jobs /\ jobs[j].user = v
    <3>1. j # InitJob(u, c)
      BY <2>2, InitEffect
    <3>2. j \in DOMAIN jobs
      BY <2>2, <3>1, <1>d
    <3> QED
      BY <2>2, <3>2, InitEffect
  <2> QED
    BY <2>1, <2>2, InitEffect DEF Agree
<1>3. Agree(executions, executions', v)
  <2>1. executions'[NextId("executions")].user = u
    BY InitEffect
  <2> QED
    BY <2>1, InitEffect DEF Agree
<1> QED
  BY <1>1, <1>2, <1>3

\* A client's request touches rows of the user who sends it.
LEMMA ClientRequestApart ==
  ASSUME TypeOK, NEW e \in DOMAIN issued,
         \/ APIStart(issued[e], e)
         \/ APIOutput(issued[e], e)
         \/ APIFinish(issued[e], e)
         \/ \E status \in ExitStatuses : APIExit(issued[e], e, status)
  PROVE  Apart(issued[e])
<1> DEFINE u == issued[e]
<1> HIDE DEF u
<1> SUFFICES ASSUME NEW v \in Users \ {u}
             PROVE  /\ Agree(executions, executions', v)
                    /\ Agree(outputs, outputs', v)
  BY AgreeSame DEF u, Apart, APIStart, APIOutput, APIFinish, APIExit
<1>1. \A row \in Execution :
        /\ [row EXCEPT !.started = TRUE].user = row.user
        /\ [row EXCEPT !.finished = TRUE].user = row.user
        /\ \A status : [row EXCEPT !.exit_status = status].user = row.user
  BY DEF Execution
<1>2. \A i \in DOMAIN executions : executions[i] \in Execution
  BY DEF TypeOK, IsTable
<1>3. CASE APIStart(u, e)
  BY <1>1, <1>2, <1>3, AgreeSame DEF APIStart, UpdateExecution, Agree
<1>4. CASE APIFinish(u, e)
  BY <1>1, <1>2, <1>4, AgreeSame DEF APIFinish, UpdateExecution, Agree
<1>5. CASE \E status \in ExitStatuses : APIExit(u, e, status)
  <2>1. PICK status \in ExitStatuses : APIExit(u, e, status)
    BY <1>5
  <2> QED
    BY <1>1, <1>2, <2>1, AgreeSame DEF APIExit, UpdateExecution, Agree
<1>6. CASE APIOutput(u, e)
  <2>1. NextId("outputs") \notin DOMAIN outputs
    BY DEF TypeOK, IsTable, Tables, NextId
  <2>2. [user |-> u, execution |-> e].user # v
    OBVIOUS
  <2> QED
    BY <1>6, <2>1, <2>2, AgreeWith, AgreeSame DEF APIOutput
<1> QED
  BY <1>3, <1>4, <1>5, <1>6 DEF u

\* Destroying executions of u takes output rows of u along and lowers counts of
\* hosts and jobs of u, for the rows that point at each other share their user.
LEMMA DestroyApart ==
  ASSUME TypeOK, References, OutputsOwned,
         NEW u \in Users, NEW ids \in SUBSET ExecutionsOf(u),
         NEW v \in Users \ {u}
  PROVE  /\ Agree(executions, Without(executions, ids), v)
         /\ Agree(outputs, Without(outputs, OutputsOf(ids)), v)
         /\ Agree(hosts, HostsAfterDestroying(ids), v)
         /\ Agree(jobs, JobsAfterDestroying(ids), v)
<1>1. \A e \in ids : e \in DOMAIN executions /\ executions[e].user = u /\ issued[e] = u
  BY DEF ExecutionsOf, References
<1>2. Agree(executions, Without(executions, ids), v)
  BY <1>1, AgreeWithout
<1>3. Agree(outputs, Without(outputs, OutputsOf(ids)), v)
  <2>1. \A o \in OutputsOf(ids) \cap DOMAIN outputs : outputs[o].user # v
    BY <1>1 DEF OutputsOf, OutputsOwned
  <2> QED
    BY <2>1, AgreeWithout
<1>4. Agree(hosts, HostsAfterDestroying(ids), v)
  <2>1. ASSUME NEW h \in DOMAIN hosts, hosts[h].user = v
        PROVE  HostsAfterDestroying(ids)[h] = hosts[h]
    <3>1. ids \cap ExecutionsOfHost(h) = {}
      BY <1>1, <2>1 DEF References, HostsOf, ExecutionsOfHost
    <3>2. Cardinality(ids \cap ExecutionsOfHost(h)) = 0
      BY <3>1, FS_EmptySet
    <3>3. \A row \in Host : [row EXCEPT !.executions_count = @ - 0] = row
      BY DEF Host
    <3>4. hosts[h] \in Host
      BY DEF TypeOK, IsTable
    <3> QED
      BY <3>2, <3>3, <3>4 DEF HostsAfterDestroying
  <2>2. DOMAIN HostsAfterDestroying(ids) = DOMAIN hosts
    BY DEF HostsAfterDestroying
  <2> QED
    BY <2>1, <2>2, CountersAfterDestroying, AgreeOn
<1>5. Agree(jobs, JobsAfterDestroying(ids), v)
  <2>1. ASSUME NEW j \in DOMAIN jobs, jobs[j].user = v
        PROVE  JobsAfterDestroying(ids)[j] = jobs[j]
    <3>1. ids \cap ExecutionsOfJob(j) = {}
      BY <1>1, <2>1 DEF References, JobsOf, ExecutionsOfJob
    <3>2. Cardinality(ids \cap ExecutionsOfJob(j)) = 0
      BY <3>1, FS_EmptySet
    <3>3. \A row \in Job : [row EXCEPT !.executions_count = @ - 0] = row
      BY DEF Job
    <3>4. jobs[j] \in Job
      BY DEF TypeOK, IsTable
    <3> QED
      BY <3>2, <3>3, <3>4 DEF JobsAfterDestroying
  <2>2. DOMAIN JobsAfterDestroying(ids) = DOMAIN jobs
    BY DEF JobsAfterDestroying
  <2> QED
    BY <2>1, <2>2, CountersAfterDestroying, AgreeOn
<1> QED
  BY <1>2, <1>3, <1>4, <1>5

LEMMA JobPagesApart ==
  ASSUME TypeOK, References, OutputsOwned, NEW u \in Users, JobPages(u)
  PROVE  Apart(u)
<1> SUFFICES ASSUME NEW v \in Users \ {u}
             PROVE  /\ Agree(hosts, hosts', v)
                    /\ Agree(jobs, jobs', v)
                    /\ Agree(schedules, schedules', v)
                    /\ Agree(executions, executions', v)
                    /\ Agree(outputs, outputs', v)
  BY DEF Apart
<1>1. CASE \E c \in Commands : NewJob(u, c)
  <2>1. PICK c \in Commands : NewJob(u, c)
    BY <1>1
  <2>2. NextId("jobs") \notin DOMAIN jobs /\ NewJobRow(u, c).user # v
    BY DEF TypeOK, IsTable, Tables, NextId, NewJobRow
  <2> QED
    BY <2>1, <2>2, AgreeWith, AgreeSame DEF NewJob
<1>2. CASE \E j \in DOMAIN jobs, c \in Commands : EditJob(u, j, c)
  <2>1. PICK j \in DOMAIN jobs, c \in Commands : EditJob(u, j, c)
    BY <1>2
  <2>2. jobs[j].user = u /\ [jobs[j] EXCEPT !.command = c].user = u
    BY <2>1 DEF EditJob, JobsOf, TypeOK, IsTable, Job
  <2>3. Agree(jobs, jobs', v)
    BY <2>1, <2>2 DEF EditJob, Agree
  <2> QED
    BY <2>1, <2>3, AgreeSame DEF EditJob
<1>3. CASE \E j \in DOMAIN jobs, status \in Statuses : SetJobStatus(u, j, status)
  <2>1. PICK j \in DOMAIN jobs, status \in Statuses : SetJobStatus(u, j, status)
    BY <1>3
  <2>2. /\ jobs[j].user = u
        /\ [jobs[j] EXCEPT !.enabled = CastEnabled(status)].user = u
    BY <2>1 DEF SetJobStatus, JobsOf, TypeOK, IsTable, Job
  <2>3. Agree(jobs, jobs', v)
    BY <2>1, <2>2 DEF SetJobStatus, Agree
  <2> QED
    BY <2>1, <2>3, AgreeSame DEF SetJobStatus
<1>4. CASE \E j \in DOMAIN jobs : DeleteJob(u, j)
  <2>1. PICK j \in DOMAIN jobs : DeleteJob(u, j)
    BY <1>4
  <2> DEFINE ids == ExecutionsOfJob(j)
  <2>2. jobs[j].user = u
    BY <2>1 DEF DeleteJob, JobsOf
  <2>3. ids \in SUBSET ExecutionsOf(u)
    BY <2>2 DEF References, ExecutionsOfJob, ExecutionsOf, JobsOf
  <2>4. \A s \in SchedulesOfJob(j) : schedules[s].user = u
    BY <2>2 DEF References, SchedulesOfJob, JobsOf
  <2>5. Agree(schedules, Without(schedules, SchedulesOfJob(j)), v)
    BY <2>4, AgreeWithout
  <2>6. Agree(jobs, Without(jobs, {j}), v)
    BY <2>2, AgreeWithout
  <2>7. /\ Agree(executions, Without(executions, ids), v)
        /\ Agree(outputs, Without(outputs, OutputsOf(ids)), v)
        /\ Agree(hosts, HostsAfterDestroying(ids), v)
    BY <2>3, DestroyApart
  <2> QED
    BY <2>1, <2>5, <2>6, <2>7 DEF DeleteJob, DestroyExecutions
<1> QED
  BY <1>1, <1>2, <1>3, <1>4 DEF JobPages

LEMMA SchedulePagesApart ==
  ASSUME TypeOK, References, NEW u \in Users, SchedulePages(u)
  PROVE  Apart(u)
<1> SUFFICES ASSUME NEW v \in Users \ {u}
             PROVE  /\ Agree(jobs, jobs', v)
                    /\ Agree(schedules, schedules', v)
  BY AgreeSame
  DEF Apart, SchedulePages, NewSchedule, EditSchedule, DeleteSchedule
<1>1. \A row \in Job : /\ [row EXCEPT !.schedules_count = @ + 1].user = row.user
                       /\ [row EXCEPT !.schedules_count = @ - 1].user = row.user
  BY DEF Job
<1>2. \A j \in DOMAIN jobs : jobs[j] \in Job
  BY DEF TypeOK, IsTable
<1>3. CASE \E j \in DOMAIN jobs, cron \in Crons : NewSchedule(u, j, cron)
  <2>1. PICK j \in DOMAIN jobs, cron \in Crons : NewSchedule(u, j, cron)
    BY <1>3
  <2>2. Agree(jobs, jobs', v)
    BY <1>1, <1>2, <2>1 DEF NewSchedule, JobsOf, Agree
  <2>3. NextId("schedules") \notin DOMAIN schedules
    BY DEF TypeOK, IsTable, Tables, NextId
  <2>4. [user |-> u, job |-> j, cron |-> cron].user # v
    OBVIOUS
  <2> QED
    BY <2>1, <2>2, <2>3, <2>4, AgreeWith DEF NewSchedule
<1>4. CASE \E s \in DOMAIN schedules, cron \in Crons : EditSchedule(u, s, cron)
  <2>1. PICK s \in DOMAIN schedules, cron \in Crons : EditSchedule(u, s, cron)
    BY <1>4
  <2>2. schedules[s].user = u /\ [schedules[s] EXCEPT !.cron = cron].user = u
    BY <2>1 DEF EditSchedule, SchedulesOf, TypeOK, IsTable, Schedule
  <2>3. Agree(schedules, schedules', v)
    BY <2>1, <2>2 DEF EditSchedule, Agree
  <2> QED
    BY <2>1, <2>3, AgreeSame DEF EditSchedule
<1>5. CASE \E s \in DOMAIN schedules : DeleteSchedule(u, s)
  <2>1. PICK s \in DOMAIN schedules : DeleteSchedule(u, s)
    BY <1>5
  <2>2. /\ schedules[s].user = u
        /\ schedules[s].job \in DOMAIN jobs
        /\ jobs[schedules[s].job].user = u
    BY <2>1 DEF DeleteSchedule, SchedulesOf, References, JobsOf
  <2>3. Agree(jobs, jobs', v)
    BY <1>1, <1>2, <2>1, <2>2 DEF DeleteSchedule, Agree
  <2>4. Agree(schedules, Without(schedules, {s}), v)
    BY <2>2, AgreeWithout
  <2> QED
    BY <2>1, <2>3, <2>4 DEF DeleteSchedule
<1> QED
  BY <1>3, <1>4, <1>5 DEF SchedulePages

LEMMA HostPagesApart ==
  ASSUME TypeOK, References, OutputsOwned, NEW u \in Users, HostPages(u)
  PROVE  Apart(u)
<1> SUFFICES ASSUME NEW v \in Users \ {u}
             PROVE  /\ Agree(hosts, hosts', v)
                    /\ Agree(jobs, jobs', v)
                    /\ Agree(executions, executions', v)
                    /\ Agree(outputs, outputs', v)
  BY AgreeSame DEF Apart, HostPages, NewHost, EditHost, DeleteHost
<1>1. CASE \E h \in Hostnames : NewHost(u, h)
  <2>1. PICK h \in Hostnames : NewHost(u, h)
    BY <1>1
  <2>2. NextId("hosts") \notin DOMAIN hosts /\ NewHostRow(u, h).user # v
    BY DEF TypeOK, IsTable, Tables, NextId, NewHostRow
  <2> QED
    BY <2>1, <2>2, AgreeWith, AgreeSame DEF NewHost
<1>2. CASE \E i \in DOMAIN hosts, h \in Hostnames : EditHost(u, i, h)
  <2>1. PICK i \in DOMAIN hosts, h \in Hostnames : EditHost(u, i, h)
    BY <1>2
  <2>2. hosts[i].user = u /\ [hosts[i] EXCEPT !.hostname = h].user = u
    BY <2>1 DEF EditHost, HostsOf, TypeOK, IsTable, Host
  <2>3. Agree(hosts, hosts', v)
    BY <2>1, <2>2 DEF EditHost, Agree
  <2> QED
    BY <2>1, <2>3, AgreeSame DEF EditHost
<1>3. CASE \E i \in DOMAIN hosts : DeleteHost(u, i)
  <2>1. PICK i \in DOMAIN hosts : DeleteHost(u, i)
    BY <1>3
  <2> DEFINE ids == ExecutionsOfHost(i)
  <2>2. hosts[i].user = u
    BY <2>1 DEF DeleteHost, HostsOf
  <2>3. ids \in SUBSET ExecutionsOf(u)
    BY <2>2 DEF References, ExecutionsOfHost, ExecutionsOf, HostsOf
  <2>4. Agree(hosts, Without(hosts, {i}), v)
    BY <2>2, AgreeWithout
  <2>5. /\ Agree(executions, Without(executions, ids), v)
        /\ Agree(outputs, Without(outputs, OutputsOf(ids)), v)
        /\ Agree(jobs, JobsAfterDestroying(ids), v)
    BY <2>3, DestroyApart
  <2> QED
    BY <2>1, <2>4, <2>5 DEF DeleteHost, DestroyExecutions
<1> QED
  BY <1>1, <1>2, <1>3 DEF HostPages

\* No request and no page of one user makes, changes or takes away a row of
\* another, although cascades, counters and updates go by ids alone: rows only
\* ever point at rows of their own user, and outputs at executions whose id the
\* user's own client was told.
THEOREM UsersStayApart == Spec => UsersApart
<1> DEFINE Step == \E u \in Users : \A v \in Users \ {u} :
                     /\ OwnedBy(hosts', v) = OwnedBy(hosts, v)
                     /\ OwnedBy(jobs', v) = OwnedBy(jobs, v)
                     /\ OwnedBy(schedules', v) = OwnedBy(schedules, v)
                     /\ OwnedBy(executions', v) = OwnedBy(executions, v)
                     /\ OwnedBy(outputs', v) = OwnedBy(outputs, v)
<1>1. Init => OutputsOwned
  BY DEF Init, OutputsOwned, Empty
<1>2. TypeOK /\ OutputsOwned /\ [Next]_vars => OutputsOwned'
  BY NextOutputsOwned
<1>3. TypeOK /\ References /\ OutputsOwned /\ [Next]_vars => [Step]_vars
  <2> SUFFICES ASSUME TypeOK, References, OutputsOwned, Next PROVE Step
    OBVIOUS
  <2>1. ASSUME NEW u \in Users, Apart(u) PROVE Step
    BY <2>1, AgreeRows DEF Apart
  <2>2. CASE \E u \in Users, h \in Hostnames, c \in Commands : APIInit(u, h, c)
    BY <2>1, <2>2, InitApart
  <2>3. CASE ClientRequest
    <3>1. PICK e \in DOMAIN issued :
            \/ APIStart(issued[e], e)
            \/ APIOutput(issued[e], e)
            \/ APIFinish(issued[e], e)
            \/ \E status \in ExitStatuses : APIExit(issued[e], e, status)
      BY <2>3 DEF ClientRequest
    <3>2. Apart(issued[e])
      BY <3>1, ClientRequestApart
    <3>3. issued[e] \in Users
      BY DEF TypeOK
    <3> QED
      BY <2>1, <3>2, <3>3
  <2>4. CASE \E u \in Users : JobPages(u)
    BY <2>1, <2>4, JobPagesApart
  <2>5. CASE \E u \in Users : SchedulePages(u)
    BY <2>1, <2>5, SchedulePagesApart
  <2>6. CASE \E u \in Users : HostPages(u)
    BY <2>1, <2>6, HostPagesApart
  <2>7. CASE \E u \in Users : \E e \in DOMAIN executions : DeleteExecution(u, e)
    <3>1. PICK u \in Users, e \in DOMAIN executions : DeleteExecution(u, e)
      BY <2>7
    <3>2. {e} \in SUBSET ExecutionsOf(u)
      BY <3>1 DEF DeleteExecution
    <3>3. Apart(u)
      BY <3>1, <3>2, DestroyApart, AgreeSame
      DEF Apart, DeleteExecution, DestroyExecutions
    <3> QED
      BY <2>1, <3>3
  <2> QED
    BY <2>2, <2>3, <2>4, <2>5, <2>6, <2>7 DEF Next
<1> QED
  BY <1>1, <1>2, <1>3, TypeCorrect, ReferencesHold, PTL DEF Spec, UsersApart

=============================================================================
