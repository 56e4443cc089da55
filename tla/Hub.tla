--------------------------------- MODULE Hub ---------------------------------
(***************************************************************************)
(* The minicron hub: its database tables and the handlers that write them. *)
(*                                                                         *)
(* The hub is a Sinatra application served by Thin from one thread, so two *)
(* handlers never interleave and every handler is one action: the queries  *)
(* it makes, the rows it writes, the counter caches and the dependent rows *)
(* ActiveRecord updates for it.  A handler that raises answers with an     *)
(* error; one that raises inside a transaction has its writes rolled back, *)
(* which here is an action that is not enabled.                            *)
(*                                                                         *)
(* A table is a function from the ids of its rows to the rows.  Ids come   *)
(* from an autoincrement column: they grow and are never used twice.  A    *)
(* command stands for its text and for its sha256 hash alike; a timestamp  *)
(* column of an execution is reduced to whether it has been set.           *)
(***************************************************************************)
EXTENDS Integers, FiniteSets, FiniteSetsExt

CONSTANTS
  Users,          \* accounts; every row belongs to one
  Hostnames,      \* host names the clients report
  Commands,       \* command lines, each with its own command_hash
  Crons,          \* cron expressions a schedule can hold
  ExitStatuses,   \* what a client can report as the exit status of a command
  NoStatus,       \* exit_status of an execution that has not reported one
  MaxHosts, MaxJobs, MaxSchedules, MaxExecutions, MaxOutputs
                  \* bounds on how many rows each table ever receives

ASSUME ExitStatusesAssumption == NoStatus \notin ExitStatuses
ASSUME BoundsAssumption ==
  {MaxHosts, MaxJobs, MaxSchedules, MaxExecutions, MaxOutputs} \subseteq Nat

VARIABLES
  hosts,        \* hosts table
  jobs,         \* jobs table
  schedules,    \* schedules table
  executions,   \* executions table
  outputs,      \* job_execution_outputs table
  lastId,       \* last id each table's autoincrement column has given out
  issued        \* issued[e]: the user whose client was told the execution id e

Empty == [i \in {} |-> i]     \* a table without rows

vars == <<hosts, jobs, schedules, executions, outputs, lastId, issued>>

Tables == {"hosts", "jobs", "schedules", "executions", "outputs"}

Host == [user : Users, hostname : Hostnames, executions_count : Int]

Job == [user : Users, command : Commands, enabled : BOOLEAN,
        executions_count : Int, schedules_count : Int]

Schedule == [user : Users, job : Nat, cron : Crons]

Execution == [user : Users, job : Nat, host : Nat, number : Nat,
              started : BOOLEAN, finished : BOOLEAN,
              exit_status : ExitStatuses \cup {NoStatus}]

Output == [user : Users, execution : Nat]

-----------------------------------------------------------------------------
\* Rows and ids

\* Faulty variant: ids counted from the rows that are left.
NextId_reused(table) ==
  IF table = "executions" THEN Cardinality(DOMAIN executions) + 1
                          ELSE lastId[table] + 1

\* The id the next row of a table gets.
NextId(table) == lastId[table] + 1

\* A table with one row more.
With(table, id, row) ==
  [i \in DOMAIN table \cup {id} |-> IF i = id THEN row ELSE table[i]]

\* A table without the rows of ids.
Without(table, ids) == Restrict(table, DOMAIN table \ ids)

\* A table of jobs or hosts after the row id has gained an execution.
Counted(table, id) == [table EXCEPT ![id].executions_count = @ + 1]

HostsOf(u) == {h \in DOMAIN hosts : hosts[h].user = u}
JobsOf(u) == {j \in DOMAIN jobs : jobs[j].user = u}
SchedulesOf(u) == {s \in DOMAIN schedules : schedules[s].user = u}
ExecutionsOf(u) == {e \in DOMAIN executions : executions[e].user = u}

ExecutionsOfJob(j) == {e \in DOMAIN executions : executions[e].job = j}
ExecutionsOfHost(h) == {e \in DOMAIN executions : executions[e].host = h}
SchedulesOfJob(j) == {s \in DOMAIN schedules : schedules[s].job = j}
OutputsOf(ids) == {o \in DOMAIN outputs : outputs[o].execution \in ids}

\* jobs.command_hash carries an index that is unique over all users.
HashTaken(c) == \E j \in DOMAIN jobs : jobs[j].command = c

NewHostRow(u, h) == [user |-> u, hostname |-> h, executions_count |-> 0]

NewJobRow(u, c) == [user |-> u, command |-> c, enabled |-> TRUE,
                    executions_count |-> 0, schedules_count |-> 0]

-----------------------------------------------------------------------------
\* POST /api/1.0/execution/init

\* Faulty variant: the host is looked up by its name alone.
MatchingHosts_anyones(u, h) == {i \in DOMAIN hosts : hosts[i].hostname = h}

\* The hosts and jobs of the request's user that the handler finds.
MatchingHosts(u, h) == {i \in HostsOf(u) : hosts[i].hostname = h}
MatchingJobs(u, c) == {j \in JobsOf(u) : jobs[j].command = c}

InitHost(u, h) ==
  IF MatchingHosts(u, h) = {} THEN NextId("hosts") ELSE Min(MatchingHosts(u, h))

InitJob(u, c) ==
  IF MatchingJobs(u, c) = {} THEN NextId("jobs") ELSE Min(MatchingJobs(u, c))

\* Faulty variant: numbers from a count, as the counter cache would give.
ExecutionNumber_counted(u, j) ==
  Cardinality(ExecutionsOf(u) \cap ExecutionsOfJob(j)) + 1

\* One more than the number of the newest execution of the job, by id.
ExecutionNumber(u, j) ==
  LET previous == ExecutionsOf(u) \cap ExecutionsOfJob(j)
  IN  IF previous = {} THEN 1 ELSE executions[Max(previous)].number + 1

\* executions carries a unique index on (user_id, job_id, number).
NumberTaken(u, j, n) ==
  \E e \in ExecutionsOf(u) \cap ExecutionsOfJob(j) : executions[e].number = n

JobRefused(u, c) ==
  MatchingJobs(u, c) # {} /\ ~jobs[InitJob(u, c)].enabled

\* How the handler ends: every ending but "ok" rolls its transaction back.
InitOutcome(u, c) ==
  CASE MatchingJobs(u, c) = {} /\ HashTaken(c) -> "hash taken"
    [] JobRefused(u, c) -> "job disabled"
    [] NumberTaken(u, InitJob(u, c), ExecutionNumber(u, InitJob(u, c))) ->
         "number taken"
    [] OTHER -> "ok"

\* The tables once the host and the job exist.
InitHosts(u, h) ==
  IF MatchingHosts(u, h) = {}
  THEN With(hosts, NextId("hosts"), NewHostRow(u, h)) ELSE hosts

InitJobs(u, c) ==
  IF MatchingJobs(u, c) = {}
  THEN With(jobs, NextId("jobs"), NewJobRow(u, c)) ELSE jobs

APIInit(u, h, c) ==
  LET host == InitHost(u, h)
      job == InitJob(u, c)
      id == NextId("executions")
  IN  /\ host <= MaxHosts /\ job <= MaxJobs /\ id <= MaxExecutions
      /\ InitOutcome(u, c) = "ok"
      /\ executions' = With(executions, id,
           [user |-> u, job |-> job, host |-> host,
            number |-> ExecutionNumber(u, job),
            started |-> FALSE, finished |-> FALSE, exit_status |-> NoStatus])
      /\ hosts' = Counted(InitHosts(u, h), host)
      /\ jobs' = Counted(InitJobs(u, c), job)
      /\ lastId' = [lastId EXCEPT
           !["hosts"] = IF MatchingHosts(u, h) = {} THEN host ELSE @,
           !["jobs"] = IF MatchingJobs(u, c) = {} THEN job ELSE @,
           !["executions"] = id]
      /\ issued' = With(issued, id, u)
      /\ UNCHANGED <<schedules, outputs>>

-----------------------------------------------------------------------------
\* POST /api/1.0/execution/start, output, finish and exit: update_all touches
\* the user's row with that id if it is still there and succeeds either way.

UpdateExecution(u, e, Update(_)) ==
  executions' = [i \in DOMAIN executions |->
                   IF i = e /\ executions[i].user = u
                   THEN Update(executions[i]) ELSE executions[i]]

APIStart(u, e) ==
  /\ UpdateExecution(u, e, LAMBDA row : [row EXCEPT !.started = TRUE])
  /\ UNCHANGED <<hosts, jobs, schedules, outputs, lastId, issued>>

\* A row is created whether or not the execution is still there.
APIOutput(u, e) ==
  /\ NextId("outputs") <= MaxOutputs
  /\ outputs' = With(outputs, NextId("outputs"), [user |-> u, execution |-> e])
  /\ lastId' = [lastId EXCEPT !["outputs"] = @ + 1]
  /\ UNCHANGED <<hosts, jobs, schedules, executions, issued>>

APIFinish(u, e) ==
  /\ UpdateExecution(u, e, LAMBDA row : [row EXCEPT !.finished = TRUE])
  /\ UNCHANGED <<hosts, jobs, schedules, outputs, lastId, issued>>

\* The fail alert after a positive status raises before it stores anything, but
\* after this update: the answer is an error (AlertRaises in Client.tla).
APIExit(u, e, status) ==
  /\ UpdateExecution(u, e, LAMBDA row : [row EXCEPT !.exit_status = status])
  /\ UNCHANGED <<hosts, jobs, schedules, outputs, lastId, issued>>

-----------------------------------------------------------------------------
\* The job pages

NewJob(u, c) ==
  /\ NextId("jobs") <= MaxJobs
  /\ ~HashTaken(c)
  /\ jobs' = With(jobs, NextId("jobs"), NewJobRow(u, c))
  /\ lastId' = [lastId EXCEPT !["jobs"] = @ + 1]
  /\ UNCHANGED <<hosts, schedules, executions, outputs, issued>>

EditJob(u, j, c) ==
  /\ j \in JobsOf(u)
  /\ ~HashTaken(c)
  /\ jobs' = [jobs EXCEPT ![j].command = c]
  /\ UNCHANGED <<hosts, schedules, executions, outputs, lastId, issued>>

\* The :status part of the path; "off" stands for the strings ActiveRecord
\* casts to false and "pause" for the other strings, which it casts to true.
Statuses == {"enable", "disable", "off", "pause"}

CastEnabled(status) == status \notin {"disable", "off"}

SetJobStatus(u, j, status) ==
  /\ j \in JobsOf(u)
  /\ jobs' = [jobs EXCEPT ![j].enabled = CastEnabled(status)]
  /\ UNCHANGED <<hosts, schedules, executions, outputs, lastId, issued>>

\* Faulty variant: the executions go in one SQL DELETE, without callbacks.
HostsAfterDestroying_uncounted(ids) == hosts

\* Destroying executions takes their output rows along and decrements the
\* counter of each owner that is not itself the reason of the destruction.
HostsAfterDestroying(ids) ==
  [h \in DOMAIN hosts |->
     [hosts[h] EXCEPT !.executions_count =
        @ - Cardinality(ids \cap ExecutionsOfHost(h))]]

JobsAfterDestroying(ids) ==
  [j \in DOMAIN jobs |->
     [jobs[j] EXCEPT !.executions_count =
        @ - Cardinality(ids \cap ExecutionsOfJob(j))]]

\* Faulty variant: has_many :executions without dependent: :destroy.
DestroyExecutions_orphaned(ids) == UNCHANGED <<executions, outputs>>

\* Faulty variant: has_many :job_execution_outputs without dependent: :destroy.
DestroyExecutions_left(ids) ==
  /\ executions' = Without(executions, ids)
  /\ UNCHANGED outputs

DestroyExecutions(ids) ==
  /\ executions' = Without(executions, ids)
  /\ outputs' = Without(outputs, OutputsOf(ids))

DeleteJob(u, j) ==
  LET ids == ExecutionsOfJob(j)
  IN  /\ j \in JobsOf(u)
      /\ DestroyExecutions(ids)
      /\ schedules' = Without(schedules, SchedulesOfJob(j))
      /\ hosts' = HostsAfterDestroying(ids)
      /\ jobs' = Without(jobs, {j})
      /\ UNCHANGED <<lastId, issued>>

-----------------------------------------------------------------------------
\* The schedule pages

ScheduleExists(u, j, cron) ==
  \E s \in SchedulesOf(u) \cap SchedulesOfJob(j) : schedules[s].cron = cron

NewSchedule(u, j, cron) ==
  LET id == NextId("schedules")
  IN  /\ id <= MaxSchedules
      /\ j \in JobsOf(u)
      /\ ~ScheduleExists(u, j, cron)
      /\ schedules' = With(schedules, id, [user |-> u, job |-> j, cron |-> cron])
      /\ jobs' = [jobs EXCEPT ![j].schedules_count = @ + 1]
      /\ lastId' = [lastId EXCEPT !["schedules"] = id]
      /\ UNCHANGED <<hosts, executions, outputs, issued>>

EditSchedule(u, s, cron) ==
  /\ s \in SchedulesOf(u)
  /\ schedules' = [schedules EXCEPT ![s].cron = cron]
  /\ UNCHANGED <<hosts, jobs, executions, outputs, lastId, issued>>

DeleteSchedule(u, s) ==
  /\ s \in SchedulesOf(u)
  /\ schedules' = Without(schedules, {s})
  /\ jobs' = [jobs EXCEPT ![schedules[s].job].schedules_count = @ - 1]
  /\ UNCHANGED <<hosts, executions, outputs, lastId, issued>>

-----------------------------------------------------------------------------
\* The host pages and the execution page

NewHost(u, h) ==
  /\ NextId("hosts") <= MaxHosts
  /\ hosts' = With(hosts, NextId("hosts"), NewHostRow(u, h))
  /\ lastId' = [lastId EXCEPT !["hosts"] = @ + 1]
  /\ UNCHANGED <<jobs, schedules, executions, outputs, issued>>

EditHost(u, i, h) ==
  /\ i \in HostsOf(u)
  /\ hosts' = [hosts EXCEPT ![i].hostname = h]
  /\ UNCHANGED <<jobs, schedules, executions, outputs, lastId, issued>>

DeleteHost(u, i) ==
  LET ids == ExecutionsOfHost(i)
  IN  /\ i \in HostsOf(u)
      /\ DestroyExecutions(ids)
      /\ jobs' = JobsAfterDestroying(ids)
      /\ hosts' = Without(hosts, {i})
      /\ UNCHANGED <<schedules, lastId, issued>>

DeleteExecution(u, e) ==
  /\ e \in ExecutionsOf(u)
  /\ DestroyExecutions({e})
  /\ hosts' = HostsAfterDestroying({e})
  /\ jobs' = JobsAfterDestroying({e})
  /\ UNCHANGED <<schedules, lastId, issued>>

-----------------------------------------------------------------------------
\* The specification

Init ==
  /\ hosts = Empty /\ jobs = Empty /\ schedules = Empty
  /\ executions = Empty /\ outputs = Empty
  /\ lastId = [t \in Tables |-> 0]
  /\ issued = Empty

\* A request of a client about an execution whose id it was told, in any order
\* and any number of times: what the clients really send is in Client.tla.
ClientRequest ==
  \E e \in DOMAIN issued :
    \/ APIStart(issued[e], e)
    \/ APIOutput(issued[e], e)
    \/ APIFinish(issued[e], e)
    \/ \E status \in ExitStatuses : APIExit(issued[e], e, status)

JobPages(u) ==
  \/ \E c \in Commands : NewJob(u, c)
  \/ \E j \in DOMAIN jobs, c \in Commands : EditJob(u, j, c)
  \/ \E j \in DOMAIN jobs, status \in Statuses : SetJobStatus(u, j, status)
  \/ \E j \in DOMAIN jobs : DeleteJob(u, j)

SchedulePages(u) ==
  \/ \E j \in DOMAIN jobs, cron \in Crons : NewSchedule(u, j, cron)
  \/ \E s \in DOMAIN schedules, cron \in Crons : EditSchedule(u, s, cron)
  \/ \E s \in DOMAIN schedules : DeleteSchedule(u, s)

HostPages(u) ==
  \/ \E h \in Hostnames : NewHost(u, h)
  \/ \E i \in DOMAIN hosts, h \in Hostnames : EditHost(u, i, h)
  \/ \E i \in DOMAIN hosts : DeleteHost(u, i)

Next ==
  \/ \E u \in Users, h \in Hostnames, c \in Commands : APIInit(u, h, c)
  \/ ClientRequest
  \/ \E u \in Users : \/ JobPages(u)
                      \/ SchedulePages(u)
                      \/ HostPages(u)
                      \/ \E e \in DOMAIN executions : DeleteExecution(u, e)

Spec == Init /\ [][Next]_vars

-----------------------------------------------------------------------------
\* Properties

OwnedBy(table, u) == Restrict(table, {i \in DOMAIN table : table[i].user = u})

IsTable(table, name, Row) ==
  /\ DOMAIN table \subseteq 1..lastId[name]
  /\ table \in [DOMAIN table -> Row]

\* Every table holds rows of its type under ids it has given out, and every
\* execution id ever given out was told to one user.
TypeOK ==
  /\ lastId \in [Tables -> Nat]
  /\ IsTable(hosts, "hosts", Host)
  /\ IsTable(jobs, "jobs", Job)
  /\ IsTable(schedules, "schedules", Schedule)
  /\ IsTable(executions, "executions", Execution)
  /\ IsTable(outputs, "outputs", Output)
  /\ issued \in [1..lastId["executions"] -> Users]

\* Rows point at rows that exist and belong to the same user: no page and no
\* cascade leaves an execution without its job or host, nor a schedule without
\* its job.  The tables declare no foreign keys, so only the handlers see to it.
References ==
  /\ \A e \in DOMAIN executions :
       /\ executions[e].user = issued[e]
       /\ executions[e].job \in JobsOf(executions[e].user)
       /\ executions[e].host \in HostsOf(executions[e].user)
  /\ \A s \in DOMAIN schedules :
       schedules[s].job \in JobsOf(schedules[s].user)

\* Within a job, a later execution has a higher number, whatever was deleted in
\* between: "is this safe to do like this?" asks init where it takes the latest
\* number plus one (executions.rb:45).
NumbersFollowIds ==
  \A e, f \in DOMAIN executions :
    executions[e].job = executions[f].job /\ e < f
      => executions[e].number < executions[f].number

\* No init is ever refused by the unique index on user, job and number.
InitNeverCollides ==
  \A u \in Users, c \in Commands : InitOutcome(u, c) # "number taken"

\* The counter caches the pages show agree with the rows, through every create,
\* delete and cascade.
CountersExact ==
  /\ \A h \in DOMAIN hosts :
       hosts[h].executions_count = Cardinality(ExecutionsOfHost(h))
  /\ \A j \in DOMAIN jobs :
       /\ jobs[j].executions_count = Cardinality(ExecutionsOfJob(j))
       /\ jobs[j].schedules_count = Cardinality(SchedulesOfJob(j))

\* A step concerns the rows of one user and leaves those of every other as they
\* are: the cascades and counters go by job_id, host_id and execution_id alone,
\* the clients' updates by an id the client sends, and no table has a foreign
\* key, so only the user_id every look-up filters by keeps the users apart.
UsersApart ==
  [][\E u \in Users : \A v \in Users \ {u} :
       /\ OwnedBy(hosts', v) = OwnedBy(hosts, v)
       /\ OwnedBy(jobs', v) = OwnedBy(jobs, v)
       /\ OwnedBy(schedules', v) = OwnedBy(schedules, v)
       /\ OwnedBy(executions', v) = OwnedBy(executions, v)
       /\ OwnedBy(outputs', v) = OwnedBy(outputs, v)]_vars

\* While a job is disabled it gains no execution, whichever client asks.
DisabledJobsStayIdle ==
  [][\A e \in DOMAIN executions' \ DOMAIN executions :
       LET j == executions'[e].job
       IN  j \in DOMAIN jobs => jobs[j].enabled]_vars

\* The id of a deleted execution never names a row again, so what a client
\* still sends about it cannot reach another execution.
DeletedIdsStayDeleted ==
  [][\A e \in DOMAIN issued :
       e \notin DOMAIN executions => e \notin DOMAIN executions']_vars

\* Any user can run any command whose job is not disabled: "Find or create the
\* job" (executions.rb:25).
FindsOrCreatesJob ==
  \A u \in Users, c \in Commands : InitOutcome(u, c) \in {"ok", "job disabled"}
=============================================================================
