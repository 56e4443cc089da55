------------------------------ MODULE Minicron ------------------------------
(***************************************************************************)
(* The hub with its clients: cron starts runs of commands, each of which   *)
(* has the hub handle the calls that Journal allows it, while users work   *)
(* on the pages.                                                           *)
(*                                                                         *)
(* A call may come late or never, as Client shows, and the run may have    *)
(* been given up meanwhile: a step of a run is the hub's handling of one   *)
(* of its calls, at any time.                                              *)
(***************************************************************************)
EXTENDS Hub

CONSTANTS
  Runs,    \* runs of a command that cron starts
  NoId     \* the execution of a run whose init the hub has not handled

ASSUME NoIdAssumption == NoId \notin Nat

VARIABLES
  journals,   \* for each run, what the hub has handled of it
  execution,  \* for each run, the id the hub has given it
  written,    \* for each id of an output row, the run and line that it holds
  kept        \* history: the lines of a run when its execution was deleted

systemVars == <<vars, journals, execution, written, kept>>

Run(k) == INSTANCE Journal WITH journal <- journals[k]

-----------------------------------------------------------------------------
\* The runs

UserOf(k) == issued[execution[k]]

\* The hub handles a call of run k, which the run may make now.
Handled(k, call) ==
  /\ Run(k)!May(journals[k], call)
  /\ journals' = [journals EXCEPT ![k] = Run(k)!Noted(@, call)]
  /\ UNCHANGED kept

\* The id is part of the answer to init, and of every call after it.
RunInit(k, u, h, c) ==
  /\ Handled(k, "init")
  /\ APIInit(u, h, c)
  /\ execution' = [execution EXCEPT ![k] = NextId("executions")]
  /\ UNCHANGED written

RunStart(k) ==
  /\ Handled(k, "start")
  /\ APIStart(UserOf(k), execution[k])
  /\ UNCHANGED <<execution, written>>

\* Faulty variant: a line whose call has timed out is sent again.
RunOutput_again(k) ==
  /\ Run(k)!May(journals[k], "output")
  /\ APIOutput(UserOf(k), execution[k])
  /\ written' = With(written, NextId("outputs"),
                     [run |-> k, line |-> journals[k]["output"] + 1])
  /\ \/ journals' = [journals EXCEPT ![k] = Run(k)!Noted(@, "output")]
     \/ UNCHANGED journals
  /\ UNCHANGED <<execution, kept>>

RunOutput(k) ==
  /\ Handled(k, "output")
  /\ APIOutput(UserOf(k), execution[k])
  /\ written' = With(written, NextId("outputs"),
                     [run |-> k, line |-> journals[k]["output"] + 1])
  /\ UNCHANGED execution

RunFinish(k) ==
  /\ Handled(k, "finish")
  /\ APIFinish(UserOf(k), execution[k])
  /\ UNCHANGED <<execution, written>>

RunExit(k, status) ==
  /\ Handled(k, "exit")
  /\ APIExit(UserOf(k), execution[k], status)
  /\ UNCHANGED <<execution, written>>

RunStep(k) ==
  \/ \E u \in Users, h \in Hostnames, c \in Commands : RunInit(k, u, h, c)
  \/ RunStart(k)
  \/ RunOutput(k)
  \/ RunFinish(k)
  \/ \E status \in ExitStatuses : RunExit(k, status)

\* A user works on the pages, and may delete executions on the way.
PageStep ==
  /\ \E u \in Users :
       \/ JobPages(u) \/ SchedulePages(u) \/ HostPages(u)
       \/ \E e \in DOMAIN executions : DeleteExecution(u, e)
  /\ kept' = [k \in Runs |->
       IF execution[k] \in DOMAIN executions \ DOMAIN executions'
         THEN journals[k]["output"] ELSE kept[k]]
  /\ UNCHANGED <<journals, execution, written>>

MinicronInit ==
  /\ Init
  /\ journals = [k \in Runs |-> Run(k)!Blank]
  /\ execution = [k \in Runs |-> NoId]
  /\ written = Empty
  /\ kept = [k \in Runs |-> 0]

MinicronNext == PageStep \/ \E k \in Runs : RunStep(k)

MinicronSpec == MinicronInit /\ [][MinicronNext]_systemVars

-----------------------------------------------------------------------------
\* What the pages show

\* The n-th row by id.
RowAt(rows, n) == CHOOSE o \in rows : Cardinality({r \in rows : r < o}) = n - 1

\* The lines of an execution on its page: the controller sorts them and drops the
\* result, so they come by id.
LinesOf(e) ==
  LET rows == OutputsOf({e})
  IN  [n \in 1..Cardinality(rows) |-> written[RowAt(rows, n)]]

\* The label in the sidebar.
Label(row) ==
  IF row.exit_status # NoStatus /\ row.exit_status > 0 THEN "Failed"
    ELSE IF row.finished THEN "Successful" ELSE "Running"

Pages == INSTANCE Progress WITH
  Ids <- 1..MaxExecutions,
  shown <- [e \in DOMAIN executions |->
              [label |-> Label(executions[e]), lines |-> Cardinality(OutputsOf({e}))]],
  ever <- DOMAIN issued

-----------------------------------------------------------------------------
\* Properties

\* The page of an execution shows what its own run has written, from the first line
\* on, each line once and in order, though it is sorted by nothing but the ids of
\* the rows (controllers/executions.rb:9, api/executions.rb:117).
PageShowsTheRun ==
  \A k \in Runs : execution[k] \in DOMAIN executions =>
    LinesOf(execution[k]) = [n \in 1..journals[k]["output"] |-> [run |-> k, line |-> n]]

\* A row that belongs to nothing is one that came after its execution was deleted:
\* deleting an execution, its job or its host leaves none of its lines behind
\* (models/execution.rb:8, api/executions.rb:117).
OrphansCameLate ==
  \A o \in DOMAIN outputs :
    outputs[o].execution \notin DOMAIN executions =>
      /\ outputs[o].execution = execution[written[o].run]
      /\ written[o].line > kept[written[o].run]

\* The hub and its clients implement Progress: a label only turns the way it can,
\* lines only come while the label says that the execution runs, and an execution
\* that is gone stays away, for every order of calls that are late or lost
\* (sidebar.erb:16-29, run.go:93-166).
PagesProgress == Pages!Spec
=============================================================================
