--------------------------- MODULE MinicronProofs ---------------------------
(***************************************************************************)
(* What Minicron promises for any runs, users and bounds.  The system is a *)
(* hub, so what is proved of the hub holds of it; the rest ties the rows   *)
(* of the hub to what its runs have had it handle.                         *)
(***************************************************************************)
EXTENDS Minicron, HubProofs

-----------------------------------------------------------------------------
\* The inductive invariant

JournalCalls == {"init", "start", "output", "finish", "exit"}

\* A run is told its id by init and makes its other calls after it; no two runs are
\* told the same id.
RunsTyped ==
  /\ journals \in [Runs -> [JournalCalls -> Nat]]
  /\ execution \in [Runs -> Nat \cup {NoId}]
  /\ kept \in [Runs -> Nat]

Told ==
  /\ \A k \in Runs :
       /\ journals[k]["init"] = 0 => execution[k] = NoId
       /\ journals[k]["init"] > 0 => execution[k] \in DOMAIN issued
       /\ journals[k]["start"] > 0 => journals[k]["init"] > 0
       /\ journals[k]["start"] = 0 =>
            \A call \in {"output", "finish", "exit"} : journals[k][call] = 0
       /\ kept[k] <= journals[k]["output"]
  /\ \A k, l \in Runs : execution[k] = execution[l] => k = l \/ execution[k] = NoId

\* The rows that hold lines of run k, and those of them before row o.
RowsOf(k) == {o \in DOMAIN written : written[o].run = k}
Before(o) == {r \in RowsOf(written[o].run) : r < o}

\* The rows of a run hold its lines, each once and in the order of their ids.
Lines ==
  /\ written \in [1..lastId["outputs"] -> [run : Runs, line : Nat \ {0}]]
  /\ \A k \in Runs : Cardinality(RowsOf(k)) = journals[k]["output"]
  /\ \A o \in DOMAIN written :
       /\ written[o].line <= journals[written[o].run]["output"]
       /\ Cardinality(Before(o)) = written[o].line - 1
       /\ \A r \in Before(o) : written[r].line < written[o].line
  /\ \A k \in Runs : \A n \in 1..journals[k]["output"] :
       \E o \in DOMAIN written : written[o] = [run |-> k, line |-> n]

\* A row of the outputs belongs to the execution of the run whose line it holds, and
\* while that execution is there it has all of them.
Owned ==
  /\ \A o \in DOMAIN outputs :
       /\ outputs[o].execution = execution[written[o].run]
       /\ outputs[o].execution \in DOMAIN issued
  /\ \A o \in DOMAIN written :
       execution[written[o].run] \in DOMAIN executions => o \in DOMAIN outputs

\* What has not been handled of a run does not show in its execution.
Pending ==
  \A k \in Runs : execution[k] \in DOMAIN executions =>
    /\ journals[k]["finish"] = 0 => ~executions[execution[k]].finished
    /\ journals[k]["exit"] = 0 => executions[execution[k]].exit_status = NoStatus

Inv ==
  /\ TypeOK /\ References /\ NumbersFollowIds
  /\ RunsTyped /\ Told /\ Lines /\ Owned /\ Pending /\ OrphansCameLate

-----------------------------------------------------------------------------
\* What the steps do

\* Handling a call of a run counts it in the journal of that run alone.
LEMMA HandledEffect ==
  ASSUME RunsTyped, NEW k \in Runs, NEW call \in JournalCalls, Handled(k, call)
  PROVE  /\ journals' \in [Runs -> [JournalCalls -> Nat]]
         /\ \A l \in Runs, c \in JournalCalls :
              journals'[l][c] = IF l = k /\ c = call THEN journals[l][c] + 1 ELSE journals[l][c]
         /\ UNCHANGED kept
BY DEF Handled, Run!Noted, RunsTyped

\* A run makes its calls in the order of Journal.
LEMMA HandledOrder ==
  ASSUME NEW k \in Runs
  PROVE  /\ Handled(k, "init") => journals[k]["init"] = 0
         /\ Handled(k, "start") => journals[k]["init"] > 0 /\ journals[k]["start"] = 0
         /\ Handled(k, "output") => /\ journals[k]["start"] > 0
                                   /\ journals[k]["finish"] = 0 /\ journals[k]["exit"] = 0
         /\ Handled(k, "finish") => journals[k]["start"] > 0 /\ journals[k]["finish"] = 0
         /\ Handled(k, "exit") => journals[k]["start"] > 0 /\ journals[k]["exit"] = 0
BY DEF Handled, Run!May

\* The calls of a run after init are requests about an id that was given out.
LEMMA RunIsTold ==
  ASSUME Told, NEW k \in Runs,
         RunStart(k) \/ RunOutput(k) \/ RunFinish(k)
           \/ \E status \in ExitStatuses : RunExit(k, status)
  PROVE  execution[k] \in DOMAIN issued /\ ClientRequest
<1>1. journals[k]["init"] > 0
  <2>1. CASE RunStart(k)
    BY <2>1, HandledOrder DEF RunStart
  <2>2. CASE RunOutput(k)
    BY <2>2, HandledOrder DEF RunOutput, Told
  <2>3. CASE RunFinish(k)
    BY <2>3, HandledOrder DEF RunFinish, Told
  <2>4. CASE \E status \in ExitStatuses : RunExit(k, status)
    BY <2>4, HandledOrder DEF RunExit, Told
  <2> QED
    BY <2>1, <2>2, <2>3, <2>4
<1>2. execution[k] \in DOMAIN issued
  BY <1>1 DEF Told
<1> QED
  BY <1>2 DEF ClientRequest, UserOf, RunStart, RunOutput, RunFinish, RunExit

\* A step of the system is a step of the hub.
LEMMA NextIsHub ==
  ASSUME Told, MinicronNext PROVE Next
<1>1. CASE PageStep
  BY <1>1 DEF PageStep, Next
<1>2. CASE \E k \in Runs : RunStep(k)
  <2>1. PICK k \in Runs : RunStep(k)
    BY <1>2
  <2>2. CASE \E u \in Users, h \in Hostnames, c \in Commands : RunInit(k, u, h, c)
    BY <2>2 DEF RunInit, Next
  <2>3. CASE RunStart(k) \/ RunOutput(k) \/ RunFinish(k)
               \/ \E status \in ExitStatuses : RunExit(k, status)
    BY <2>3, RunIsTold DEF Next
  <2> QED
    BY <2>1, <2>2, <2>3 DEF RunStep
<1> QED
  BY <1>1, <1>2 DEF MinicronNext

\* Destroying executions takes their outputs along and nothing else.
LEMMA DestroyEffect ==
  ASSUME NEW ids \in SUBSET DOMAIN executions, DestroyExecutions(ids)
  PROVE  /\ DOMAIN executions' = DOMAIN executions \ ids
         /\ \A e \in DOMAIN executions' : executions'[e] = executions[e]
         /\ DOMAIN outputs' = {o \in DOMAIN outputs : outputs[o].execution \notin ids}
         /\ \A o \in DOMAIN outputs' : outputs'[o] = outputs[o]
BY DEF DestroyExecutions, Without, Restrict, OutputsOf

\* Whatever a user does, executions only go away, and with them all their outputs.
LEMMA PageEffect ==
  ASSUME TypeOK, PageStep
  PROVE  /\ UNCHANGED <<issued, journals, execution, written>>
         /\ lastId'["outputs"] = lastId["outputs"]
         /\ DOMAIN executions' \subseteq DOMAIN executions
         /\ \A e \in DOMAIN executions' : executions'[e] = executions[e]
         /\ DOMAIN outputs' = {o \in DOMAIN outputs :
                                outputs[o].execution \notin DOMAIN executions \ DOMAIN executions'}
         /\ \A o \in DOMAIN outputs' : outputs'[o] = outputs[o]
<1>0. lastId \in [Tables -> Nat]
  BY DEF TypeOK
<1>1. PICK u \in Users :
        \/ JobPages(u) \/ SchedulePages(u) \/ HostPages(u)
        \/ \E e \in DOMAIN executions : DeleteExecution(u, e)
  BY DEF PageStep
<1>2. CASE /\ UNCHANGED <<executions, outputs, issued>>
           /\ lastId'["outputs"] = lastId["outputs"]
  BY <1>2 DEF PageStep
<1>3. ASSUME NEW ids \in SUBSET DOMAIN executions, DestroyExecutions(ids),
             UNCHANGED <<lastId, issued>>
      PROVE  /\ DOMAIN executions' \subseteq DOMAIN executions
             /\ \A e \in DOMAIN executions' : executions'[e] = executions[e]
             /\ DOMAIN outputs' = {o \in DOMAIN outputs :
                   outputs[o].execution \notin DOMAIN executions \ DOMAIN executions'}
             /\ \A o \in DOMAIN outputs' : outputs'[o] = outputs[o]
  <2>1. /\ DOMAIN executions' = DOMAIN executions \ ids
        /\ \A e \in DOMAIN executions' : executions'[e] = executions[e]
        /\ DOMAIN outputs' = {o \in DOMAIN outputs : outputs[o].execution \notin ids}
        /\ \A o \in DOMAIN outputs' : outputs'[o] = outputs[o]
    BY <1>3, DestroyEffect
  <2>2. DOMAIN executions \ DOMAIN executions' = ids
    BY <2>1
  <2> QED
    BY <2>1, <2>2
<1>4. CASE \E j \in DOMAIN jobs : DeleteJob(u, j)
  BY <1>3, <1>4 DEF DeleteJob, ExecutionsOfJob, PageStep
<1>5. CASE \E i \in DOMAIN hosts : DeleteHost(u, i)
  BY <1>3, <1>5 DEF DeleteHost, ExecutionsOfHost, PageStep
<1>6. CASE \E e \in DOMAIN executions : DeleteExecution(u, e)
  BY <1>3, <1>6 DEF DeleteExecution, PageStep
<1>7. CASE JobPages(u) /\ ~ \E j \in DOMAIN jobs : DeleteJob(u, j)
  BY <1>0, <1>2, <1>7 DEF JobPages, NewJob, EditJob, SetJobStatus, Tables
<1>8. CASE SchedulePages(u)
  BY <1>0, <1>2, <1>8 DEF SchedulePages, NewSchedule, EditSchedule, DeleteSchedule, Tables
<1>9. CASE HostPages(u) /\ ~ \E i \in DOMAIN hosts : DeleteHost(u, i)
  BY <1>0, <1>2, <1>9 DEF HostPages, NewHost, EditHost, Tables
<1> QED
  BY <1>1, <1>4, <1>5, <1>6, <1>7, <1>8, <1>9

\* Init adds one execution, under an id that nobody has been told.
LEMMA RunInitEffect ==
  ASSUME TypeOK, NEW k \in Runs, NEW u \in Users, NEW h \in Hostnames, NEW c \in Commands,
         RunInit(k, u, h, c)
  PROVE  LET id == NextId("executions") IN
         /\ id \in Nat /\ id \notin DOMAIN issued /\ id \notin DOMAIN executions
         /\ id \in 1..MaxExecutions
         /\ DOMAIN executions' = DOMAIN executions \cup {id}
         /\ \A e \in DOMAIN executions : executions'[e] = executions[e]
         /\ ~executions'[id].finished /\ executions'[id].exit_status = NoStatus
         /\ DOMAIN issued' = DOMAIN issued \cup {id}
         /\ lastId'["outputs"] = lastId["outputs"]
         /\ execution' = [execution EXCEPT ![k] = id]
         /\ UNCHANGED <<outputs, written>>
<1> DEFINE id == NextId("executions")
<1>1. lastId \in [Tables -> Nat] /\ "executions" \in Tables
  BY DEF TypeOK, Tables
<1>2. /\ DOMAIN executions \subseteq 1..lastId["executions"]
      /\ DOMAIN issued = 1..lastId["executions"]
  BY DEF TypeOK, IsTable
<1>3. id \in Nat /\ id > 0 /\ id \notin DOMAIN issued /\ id \notin DOMAIN executions
  BY <1>1, <1>2 DEF NextId
<1>4. APIInit(u, h, c) /\ UNCHANGED written /\ execution' = [execution EXCEPT ![k] = id]
  BY DEF RunInit
<1>5. /\ executions' = With(executions, id,
           [user |-> u, job |-> InitJob(u, c), host |-> InitHost(u, h),
            number |-> ExecutionNumber(u, InitJob(u, c)),
            started |-> FALSE, finished |-> FALSE, exit_status |-> NoStatus])
      /\ issued' = With(issued, id, u)
      /\ id <= MaxExecutions /\ UNCHANGED outputs
  BY <1>4 DEF APIInit
<1>6. lastId'["outputs"] = lastId["outputs"]
  BY <1>1, <1>4 DEF APIInit, Tables
<1>7. MaxExecutions \in Nat
  BY BoundsAssumption
<1> QED
  BY <1>3, <1>4, <1>5, <1>6, <1>7 DEF With

\* The other calls but output change no more than a column of the run's own execution.
LEMMA RunUpdateEffect ==
  ASSUME TypeOK, References, NEW k \in Runs,
         RunStart(k) \/ RunFinish(k) \/ \E status \in ExitStatuses : RunExit(k, status)
  PROVE  /\ DOMAIN executions' = DOMAIN executions
         /\ \A e \in DOMAIN executions : e # execution[k] => executions'[e] = executions[e]
         /\ UNCHANGED <<outputs, lastId, issued, execution, written>>
<1>1. CASE RunStart(k)
  BY <1>1 DEF RunStart, APIStart, UpdateExecution
<1>2. CASE RunFinish(k)
  BY <1>2 DEF RunFinish, APIFinish, UpdateExecution
<1>3. CASE \E status \in ExitStatuses : RunExit(k, status)
  BY <1>3 DEF RunExit, APIExit, UpdateExecution
<1> QED
  BY <1>1, <1>2, <1>3

\* Start leaves both columns that the label is made of; finish sets one of them, and
\* exit the other.
LEMMA RunColumns ==
  ASSUME TypeOK, References, NEW k \in Runs, execution[k] \in DOMAIN executions
  PROVE  LET old == executions[execution[k]]
             new == executions'[execution[k]]
         IN  /\ RunStart(k) => new.finished = old.finished /\ new.exit_status = old.exit_status
             /\ RunFinish(k) => new.finished = TRUE /\ new.exit_status = old.exit_status
             /\ \A status \in ExitStatuses :
                  RunExit(k, status) =>
                    new.finished = old.finished /\ new.exit_status = status
<1> DEFINE e == execution[k]
<1>1. executions[e].user = UserOf(k)
  BY DEF References, UserOf
<1>2. executions[e] \in Execution
  BY DEF TypeOK, IsTable
<1>3. RunStart(k) => executions'[e] = [executions[e] EXCEPT !.started = TRUE]
  BY <1>1 DEF RunStart, APIStart, UpdateExecution
<1>4. RunFinish(k) => executions'[e] = [executions[e] EXCEPT !.finished = TRUE]
  BY <1>1 DEF RunFinish, APIFinish, UpdateExecution
<1>5. \A status \in ExitStatuses :
        RunExit(k, status) => executions'[e] = [executions[e] EXCEPT !.exit_status = status]
  BY <1>1 DEF RunExit, APIExit, UpdateExecution
<1> QED
  BY <1>2, <1>3, <1>4, <1>5 DEF Execution

\* Output adds a row that holds the next line of its run.
LEMMA RunOutputEffect ==
  ASSUME TypeOK, RunsTyped, NEW k \in Runs, RunOutput(k)
  PROVE  LET id == NextId("outputs") IN
         /\ lastId["outputs"] \in Nat /\ id = lastId["outputs"] + 1
         /\ lastId'["outputs"] = id /\ id \notin DOMAIN outputs
         /\ DOMAIN outputs' = DOMAIN outputs \cup {id}
         /\ \A o \in DOMAIN outputs : outputs'[o] = outputs[o]
         /\ outputs'[id].execution = execution[k]
         /\ DOMAIN written' = DOMAIN written \cup {id}
         /\ \A o \in DOMAIN written : o # id => written'[o] = written[o]
         /\ written'[id] = [run |-> k, line |-> journals[k]["output"] + 1]
         /\ UNCHANGED <<executions, issued, execution>>
<1>1. /\ lastId \in [Tables -> Nat] /\ "outputs" \in Tables
      /\ DOMAIN outputs \subseteq 1..lastId["outputs"]
  BY DEF TypeOK, IsTable, Tables
<1>2. NextId("outputs") \notin DOMAIN outputs
  BY <1>1 DEF NextId
<1>3. APIOutput(UserOf(k), execution[k])
  BY DEF RunOutput
<1>4. lastId'["outputs"] = NextId("outputs")
  BY <1>1, <1>3 DEF APIOutput, NextId
<1>5. outputs' = With(outputs, NextId("outputs"),
                      [user |-> UserOf(k), execution |-> execution[k]])
      /\ UNCHANGED <<executions, issued>>
  BY <1>3 DEF APIOutput
<1>6. written' = With(written, NextId("outputs"),
                      [run |-> k, line |-> journals[k]["output"] + 1])
      /\ UNCHANGED execution
  BY DEF RunOutput
<1>7. lastId["outputs"] \in Nat /\ NextId("outputs") = lastId["outputs"] + 1
  BY <1>1 DEF NextId
<1> QED
  BY <1>2, <1>4, <1>5, <1>6, <1>7 DEF With

-----------------------------------------------------------------------------
\* The runs and the ids they are told

\* Every step keeps what the runs have been told.
LEMMA TypedStep ==
  ASSUME TypeOK, RunsTyped, Told, MinicronNext
  PROVE  RunsTyped' /\ Told'
<1>1. CASE PageStep
  <2>1. UNCHANGED <<issued, journals, execution>>
    BY <1>1, PageEffect
  <2>2. \A k \in Runs : kept'[k] \in Nat /\ kept'[k] <= journals[k]["output"]
    BY <1>1 DEF PageStep, RunsTyped, Told, JournalCalls
  <2>3. kept' \in [Runs -> Nat]
    BY <1>1, <2>2 DEF PageStep
  <2> QED
    BY <2>1, <2>2, <2>3 DEF RunsTyped, Told
<1>2. ASSUME NEW k \in Runs, NEW u \in Users, NEW h \in Hostnames, NEW c \in Commands,
             RunInit(k, u, h, c)
      PROVE  RunsTyped' /\ Told'
  <2> DEFINE id == NextId("executions")
  <2>1. /\ id \in Nat /\ id \notin DOMAIN issued
        /\ DOMAIN issued' = DOMAIN issued \cup {id}
        /\ execution' = [execution EXCEPT ![k] = id]
    BY <1>2, RunInitEffect
  <2>2. /\ journals' \in [Runs -> [JournalCalls -> Nat]]
        /\ \A l \in Runs, call \in JournalCalls :
             journals'[l][call] = IF l = k /\ call = "init" THEN journals[l][call] + 1
                                                           ELSE journals[l][call]
        /\ UNCHANGED kept
    BY <1>2, HandledEffect DEF RunInit, JournalCalls
  <2>3. journals[k]["init"] = 0
    BY <1>2, HandledOrder DEF RunInit
  <2>4. RunsTyped'
    BY <2>1, <2>2 DEF RunsTyped
  <2>5. \A l \in Runs : execution[l] = NoId \/ execution[l] \in DOMAIN issued
    BY DEF Told, RunsTyped, JournalCalls
  <2>6. id # NoId
    BY <2>1, NoIdAssumption
  <2>7. \A l \in Runs : execution'[l] = IF l = k THEN id ELSE execution[l]
    BY <2>1 DEF RunsTyped
  <2>8. \A l \in Runs, m \in Runs :
          execution'[l] = execution'[m] => l = m \/ execution'[l] = NoId
    BY <2>1, <2>5, <2>6, <2>7 DEF Told
  <2>9. \A l \in Runs :
          /\ journals'[l]["init"] = 0 => execution'[l] = NoId
          /\ journals'[l]["init"] > 0 => execution'[l] \in DOMAIN issued'
          /\ journals'[l]["start"] > 0 => journals'[l]["init"] > 0
          /\ journals'[l]["start"] = 0 =>
               \A call \in {"output", "finish", "exit"} : journals'[l][call] = 0
          /\ kept'[l] <= journals'[l]["output"]
    BY <2>1, <2>2, <2>3, <2>7 DEF Told, RunsTyped, JournalCalls
  <2> QED
    BY <2>4, <2>8, <2>9 DEF Told
<1>3. ASSUME NEW k \in Runs, NEW call \in JournalCalls \ {"init"}, Handled(k, call),
             UNCHANGED <<issued, execution>>
      PROVE  RunsTyped' /\ Told'
  <2>1. /\ journals' \in [Runs -> [JournalCalls -> Nat]]
        /\ \A l \in Runs, c \in JournalCalls :
             journals'[l][c] = IF l = k /\ c = call THEN journals[l][c] + 1 ELSE journals[l][c]
        /\ UNCHANGED kept
    BY <1>3, HandledEffect
  <2>2. call = "start" \/ journals[k]["start"] > 0
    BY <1>3, HandledOrder DEF JournalCalls
  <2>3. journals[k]["init"] > 0
    BY <1>3, <2>2, HandledOrder DEF Told
  <2>4. \A l \in Runs :
          /\ journals'[l]["init"] = journals[l]["init"]
          /\ journals'[l]["start"] >= journals[l]["start"]
          /\ journals'[l]["output"] >= journals[l]["output"]
    BY <2>1 DEF RunsTyped, JournalCalls
  <2>5. \A l \in Runs : l # k => \A c \in JournalCalls : journals'[l][c] = journals[l][c]
    BY <2>1
  <2>6. journals'[k]["start"] > 0
    <3>1. CASE call = "start"
      BY <2>1, <3>1 DEF RunsTyped, JournalCalls
    <3>2. CASE call # "start"
      BY <2>1, <2>2, <3>2 DEF JournalCalls
    <3> QED
      BY <3>1, <3>2
  <2>7. RunsTyped'
    BY <1>3, <2>1 DEF RunsTyped
  <2>8. \A l \in Runs : kept'[l] <= journals'[l]["output"]
    BY <2>1, <2>4 DEF Told, RunsTyped, JournalCalls
  <2>9. \A l \in Runs :
          /\ journals'[l]["init"] = 0 => execution'[l] = NoId
          /\ journals'[l]["init"] > 0 => execution'[l] \in DOMAIN issued'
    BY <1>3, <2>4 DEF Told
  <2>10. \A l \in Runs :
          /\ journals'[l]["start"] > 0 => journals'[l]["init"] > 0
          /\ journals'[l]["start"] = 0 =>
               \A c \in {"output", "finish", "exit"} : journals'[l][c] = 0
    BY <2>3, <2>4, <2>5, <2>6 DEF Told, JournalCalls
  <2> QED
    BY <1>3, <2>7, <2>8, <2>9, <2>10 DEF Told
<1>4. ASSUME NEW k \in Runs,
             RunStart(k) \/ RunOutput(k) \/ RunFinish(k)
               \/ \E status \in ExitStatuses : RunExit(k, status)
      PROVE  RunsTyped' /\ Told'
  <2>1. \E call \in JournalCalls \ {"init"} : Handled(k, call)
    BY <1>4 DEF RunStart, RunOutput, RunFinish, RunExit, JournalCalls
  <2>2. UNCHANGED <<issued, execution>>
    BY <1>4 DEF RunStart, RunOutput, RunFinish, RunExit, APIStart, APIOutput, APIFinish, APIExit
  <2> QED
    BY <1>3, <2>1, <2>2
<1> QED
  BY <1>1, <1>2, <1>4 DEF MinicronNext, RunStep

-----------------------------------------------------------------------------
\* The lines of the runs

\* The rows of a run are finitely many.
LEMMA RowsFinite ==
  ASSUME TypeOK, Lines, NEW S \in SUBSET DOMAIN written
  PROVE  IsFiniteSet(S) /\ Cardinality(S) \in Nat
<1>1. lastId["outputs"] \in Nat /\ DOMAIN written = 1..lastId["outputs"]
  BY DEF TypeOK, Tables, Lines
<1> QED
  BY <1>1, IdsFinite

\* A new row holds the line after those that the hub has of its run.
LEMMA OutputLines ==
  ASSUME TypeOK, RunsTyped, Lines, NEW k \in Runs, RunOutput(k)
  PROVE  Lines'
<1> DEFINE id == NextId("outputs")
           n == journals[k]["output"]
<1>1. /\ lastId["outputs"] \in Nat /\ id = lastId["outputs"] + 1
      /\ lastId'["outputs"] = id
      /\ DOMAIN written' = DOMAIN written \cup {id}
      /\ \A o \in DOMAIN written : o # id => written'[o] = written[o]
      /\ written'[id] = [run |-> k, line |-> n + 1]
  BY RunOutputEffect
<1>2. DOMAIN written = 1..lastId["outputs"] /\ id \notin DOMAIN written
      /\ \A o \in DOMAIN written : /\ written[o] \in [run : Runs, line : Nat \ {0}]
                                   /\ written'[o] = written[o] /\ o \in Nat /\ o < id
  BY <1>1 DEF Lines
<1>3. n \in Nat
  BY DEF RunsTyped, JournalCalls
<1>4. \A l \in Runs : /\ journals[l]["output"] \in Nat
                      /\ journals'[l]["output"] = IF l = k THEN n + 1 ELSE journals[l]["output"]
  BY HandledEffect DEF RunOutput, JournalCalls, RunsTyped
<1>5. written' \in [1..lastId'["outputs"] -> [run : Runs, line : Nat \ {0}]]
  <2>1. DOMAIN written' = 1..lastId'["outputs"]
    BY <1>1, <1>2
  <2>2. \A o \in DOMAIN written' : written'[o] \in [run : Runs, line : Nat \ {0}]
    BY <1>1, <1>2, <1>3
  <2>3. written' = [o \in DOMAIN written' |-> written'[o]]
    BY DEF RunOutput, With
  <2> QED
    BY <2>1, <2>2, <2>3
<1>6. /\ RowsOf(k)' = RowsOf(k) \cup {id}
      /\ \A l \in Runs : l # k => RowsOf(l)' = RowsOf(l)
  BY <1>1, <1>2 DEF RowsOf
<1>7. \A l \in Runs : Cardinality(RowsOf(l)') = journals'[l]["output"]
  <2>1. IsFiniteSet(RowsOf(k)) /\ id \notin RowsOf(k)
    BY <1>2, RowsFinite DEF RowsOf
  <2>2. Cardinality(RowsOf(k) \cup {id}) = Cardinality(RowsOf(k)) + 1
    BY <2>1, FS_AddElement
  <2> QED
    BY <1>4, <1>6, <2>2 DEF Lines
<1>8. ASSUME NEW o \in DOMAIN written'
      PROVE  Before(o)' = IF o = id THEN RowsOf(k) ELSE Before(o)
  <2>1. Before(o)' = {r \in DOMAIN written' : written'[r].run = written'[o].run /\ r < o}
    BY DEF Before, RowsOf
  <2>2. CASE o = id
    <3>1. \A r \in DOMAIN written' :
            written'[r].run = k /\ r < id <=> r \in DOMAIN written /\ written[r].run = k
      BY <1>1, <1>2
    <3>2. Before(o)' = {r \in DOMAIN written' : written'[r].run = k /\ r < id}
      BY <1>1, <2>1, <2>2
    <3> QED
      BY <1>1, <2>2, <3>1, <3>2 DEF RowsOf
  <2>3. CASE o # id
    <3>1. o \in DOMAIN written /\ written'[o] = written[o] /\ o < id /\ o \in Nat
      BY <1>1, <1>2, <2>3
    <3>2. \A r \in DOMAIN written' :
            written'[r].run = written'[o].run /\ r < o <=>
              r \in DOMAIN written /\ written[r].run = written[o].run /\ r < o
      BY <1>1, <1>2, <3>1
    <3>3. Before(o) = {r \in DOMAIN written : written[r].run = written[o].run /\ r < o}
      BY DEF Before, RowsOf
    <3> QED
      BY <1>1, <2>1, <2>3, <3>2, <3>3
  <2> QED
    BY <2>2, <2>3
<1>9. ASSUME NEW o \in DOMAIN written'
      PROVE  /\ written'[o].line <= journals'[written'[o].run]["output"]
             /\ Cardinality(Before(o)') = written'[o].line - 1
             /\ \A r \in Before(o)' : written'[r].line < written'[o].line
  <2>1. CASE o = id
    <3>1. Cardinality(Before(o)') = n
      BY <1>8, <2>1 DEF Lines
    <3>2. \A r \in RowsOf(k) : written'[r].line <= n
      BY <1>2 DEF Lines, RowsOf
    <3>3. \A r \in RowsOf(k) : written'[r].line \in Nat
      BY <1>2 DEF RowsOf
    <3>4. written'[o].line = n + 1 /\ journals'[written'[o].run]["output"] = n + 1
      BY <1>1, <1>4, <2>1
    <3>5. Before(o)' = RowsOf(k)
      BY <1>8, <2>1
    <3> QED
      BY <1>3, <3>1, <3>2, <3>3, <3>4, <3>5
  <2>2. CASE o \in DOMAIN written
    <3>1. \A r \in Before(o) : written'[r] = written[r]
      BY <1>2 DEF Before, RowsOf
    <3>2. written[o].run \in Runs /\ written[o].line \in Nat
          /\ written[o].line <= journals[written[o].run]["output"]
      BY <1>2, <2>2 DEF Lines
    <3>3. written[o].line <= journals'[written[o].run]["output"]
      BY <1>3, <1>4, <3>2
    <3>4. Before(o)' = Before(o)
      BY <1>2, <1>8, <2>2
    <3> QED
      BY <1>2, <2>2, <3>1, <3>3, <3>4 DEF Lines
  <2> QED
    BY <1>1, <2>1, <2>2
<1>10. ASSUME NEW l \in Runs, NEW m \in 1..journals'[l]["output"]
       PROVE  \E o \in DOMAIN written' : written'[o] = [run |-> l, line |-> m]
  <2>1. CASE l = k /\ m = n + 1
    BY <1>1, <2>1
  <2>2. CASE m \in 1..journals[l]["output"]
    BY <1>1, <1>2, <2>2 DEF Lines
  <2> QED
    BY <1>3, <1>4, <2>1, <2>2
<1> QED
  BY <1>5, <1>7, <1>9, <1>10 DEF Lines

\* Every other step leaves the lines and the counts of them alone.
LEMMA LinesStep ==
  ASSUME TypeOK, References, RunsTyped, Told, Lines, MinicronNext
  PROVE  Lines'
<1>1. CASE \E k \in Runs : RunOutput(k)
  BY <1>1, OutputLines
<1>2. CASE ~ \E k \in Runs : RunOutput(k)
  <2>1. UNCHANGED written /\ lastId'["outputs"] = lastId["outputs"]
    BY <1>2, PageEffect, RunInitEffect, RunUpdateEffect DEF MinicronNext, RunStep
  <2>2. \A l \in Runs : journals'[l]["output"] = journals[l]["output"]
    BY <1>2, PageEffect, HandledEffect
       DEF MinicronNext, RunStep, RunInit, RunStart, RunFinish, RunExit, JournalCalls
  <2>3. \A o \in DOMAIN written : written[o].run \in Runs
    BY DEF Lines
  <2> QED
    BY <2>1, <2>2, <2>3 DEF Lines, RowsOf, Before
<1> QED
  BY <1>1, <1>2

-----------------------------------------------------------------------------
\* The rows of the outputs

\* Rows stay with the execution of their run, and orphans are lines that came after
\* their execution was deleted.
LEMMA OwnedStep ==
  ASSUME TypeOK, References, RunsTyped, Told, Lines, Owned, OrphansCameLate, MinicronNext
  PROVE  Owned' /\ OrphansCameLate'
<1>0. /\ DOMAIN executions \subseteq DOMAIN issued
      /\ DOMAIN outputs \subseteq DOMAIN written
      /\ \A o \in DOMAIN written : written[o].run \in Runs /\ written[o].line \in Nat
      /\ \A k \in Runs : journals[k]["output"] \in Nat /\ kept[k] \in Nat
  BY DEF TypeOK, IsTable, Lines, RunsTyped, JournalCalls
<1>1. CASE PageStep
  <2>1. /\ UNCHANGED <<issued, journals, execution, written>>
        /\ DOMAIN executions' \subseteq DOMAIN executions
        /\ DOMAIN outputs' = {o \in DOMAIN outputs :
                               outputs[o].execution \notin DOMAIN executions \ DOMAIN executions'}
        /\ \A o \in DOMAIN outputs' : outputs'[o] = outputs[o]
    BY <1>1, PageEffect
  <2>2. Owned'
    BY <2>1 DEF Owned
  <2>3. \A k \in Runs :
          execution[k] \notin DOMAIN executions \ DOMAIN executions' => kept'[k] = kept[k]
    BY <1>1 DEF PageStep
  <2>4. ASSUME NEW o \in DOMAIN outputs', outputs'[o].execution \notin DOMAIN executions'
        PROVE  /\ outputs'[o].execution = execution'[written'[o].run]
               /\ written'[o].line > kept'[written'[o].run]
    <3>1. o \in DOMAIN outputs /\ outputs[o].execution \notin DOMAIN executions
      BY <2>1, <2>4
    <3>2. /\ outputs[o].execution = execution[written[o].run]
          /\ written[o].line > kept[written[o].run]
      BY <3>1 DEF OrphansCameLate
    <3>3. kept'[written[o].run] = kept[written[o].run]
      BY <1>0, <2>3, <3>1, <3>2
    <3> QED
      BY <2>1, <2>4, <3>2, <3>3
  <2> QED
    BY <2>2, <2>4 DEF OrphansCameLate
<1>2. ASSUME NEW k \in Runs, NEW u \in Users, NEW h \in Hostnames, NEW c \in Commands,
             RunInit(k, u, h, c)
      PROVE  Owned' /\ OrphansCameLate'
  <2> DEFINE id == NextId("executions")
  <2>1. /\ id \notin DOMAIN issued /\ DOMAIN issued' = DOMAIN issued \cup {id}
        /\ DOMAIN executions' = DOMAIN executions \cup {id}
        /\ execution' = [execution EXCEPT ![k] = id]
        /\ UNCHANGED <<outputs, written>>
    BY <1>2, RunInitEffect
  <2>2. UNCHANGED kept /\ journals[k]["init"] = 0
    BY <1>2, HandledEffect, HandledOrder DEF RunInit, JournalCalls
  <2>3. journals[k]["output"] = 0
    BY <2>2 DEF Told, RunsTyped, JournalCalls
  <2>4. \A o \in DOMAIN written : written[o].run # k
    BY <1>0, <2>3 DEF Lines
  <2>5. \A o \in DOMAIN written : execution'[written[o].run] = execution[written[o].run]
    BY <1>0, <2>1, <2>4 DEF RunsTyped
  <2>6. \A o \in DOMAIN written :
          execution[written[o].run] = NoId \/ execution[written[o].run] \in DOMAIN issued
    BY <1>0 DEF Told, RunsTyped, JournalCalls
  <2>7. id # NoId
    BY <1>2, RunInitEffect, NoIdAssumption
  <2>8. Owned'
    BY <1>0, <2>1, <2>5, <2>6, <2>7 DEF Owned
  <2>9. OrphansCameLate'
    BY <1>0, <2>1, <2>2, <2>5 DEF OrphansCameLate
  <2> QED
    BY <2>8, <2>9
<1>3. ASSUME NEW k \in Runs,
             RunStart(k) \/ RunFinish(k) \/ \E status \in ExitStatuses : RunExit(k, status)
      PROVE  Owned' /\ OrphansCameLate'
  <2>1. /\ DOMAIN executions' = DOMAIN executions
        /\ UNCHANGED <<outputs, issued, execution, written>>
    BY <1>3, RunUpdateEffect
  <2>2. UNCHANGED kept
    BY <1>3 DEF RunStart, RunFinish, RunExit, Handled
  <2> QED
    BY <2>1, <2>2 DEF Owned, OrphansCameLate
<1>4. ASSUME NEW k \in Runs, RunOutput(k)
      PROVE  Owned' /\ OrphansCameLate'
  <2> DEFINE id == NextId("outputs")
  <2>1. /\ id = lastId["outputs"] + 1 /\ lastId["outputs"] \in Nat
        /\ DOMAIN outputs' = DOMAIN outputs \cup {id}
        /\ \A o \in DOMAIN outputs : outputs'[o] = outputs[o]
        /\ outputs'[id].execution = execution[k]
        /\ DOMAIN written' = DOMAIN written \cup {id}
        /\ \A o \in DOMAIN written : o # id => written'[o] = written[o]
        /\ written'[id] = [run |-> k, line |-> journals[k]["output"] + 1]
        /\ UNCHANGED <<executions, issued, execution>>
    BY <1>4, RunOutputEffect
  <2>2. id \notin DOMAIN written
    BY <2>1 DEF Lines
  <2>3. UNCHANGED kept /\ kept[k] <= journals[k]["output"]
    BY <1>4 DEF RunOutput, Handled, Told
  <2>4. execution[k] \in DOMAIN issued
    BY <1>4, RunIsTold
  <2>5. Owned'
    BY <1>0, <2>1, <2>2, <2>4 DEF Owned
  <2>6. \A o \in DOMAIN outputs : /\ o \in DOMAIN written /\ o # id
                                /\ outputs'[o] = outputs[o] /\ written'[o] = written[o]
    BY <1>0, <2>1, <2>2
  <2>7. written'[id].run = k /\ written'[id].line > kept[k]
    BY <1>0, <2>1, <2>3
  <2>8. OrphansCameLate'
    BY <2>1, <2>3, <2>6, <2>7 DEF OrphansCameLate
  <2> QED
    BY <2>5, <2>8
<1> QED
  BY <1>1, <1>2, <1>3, <1>4 DEF MinicronNext, RunStep

\* What has not been handled of a run does not show, after any step.
LEMMA PendingStep ==
  ASSUME TypeOK, References, RunsTyped, Told, Pending, MinicronNext
  PROVE  Pending'
<1>1. CASE PageStep
  BY <1>1, PageEffect DEF Pending
<1>2. ASSUME NEW k \in Runs, NEW u \in Users, NEW h \in Hostnames, NEW c \in Commands,
             RunInit(k, u, h, c)
      PROVE  Pending'
  <2> DEFINE id == NextId("executions")
  <2>1. /\ id \notin DOMAIN executions /\ DOMAIN executions' = DOMAIN executions \cup {id}
        /\ \A e \in DOMAIN executions : executions'[e] = executions[e]
        /\ ~executions'[id].finished /\ executions'[id].exit_status = NoStatus
        /\ \A l \in Runs : execution'[l] = IF l = k THEN id ELSE execution[l]
    BY <1>2, RunInitEffect DEF RunsTyped
  <2>2. \A l \in Runs : /\ journals'[l]["finish"] = journals[l]["finish"]
                        /\ journals'[l]["exit"] = journals[l]["exit"]
    BY <1>2, HandledEffect DEF RunInit, JournalCalls
  <2> QED
    BY <2>1, <2>2 DEF Pending
<1>3. ASSUME NEW k \in Runs,
             RunStart(k) \/ RunFinish(k) \/ \E status \in ExitStatuses : RunExit(k, status)
      PROVE  Pending'
  <2>0. /\ DOMAIN executions' = DOMAIN executions /\ UNCHANGED execution
        /\ \A e \in DOMAIN executions : e # execution[k] => executions'[e] = executions[e]
    BY <1>3, RunUpdateEffect
  <2>1. \A l \in Runs : l # k =>
          /\ journals'[l]["finish"] = journals[l]["finish"]
          /\ journals'[l]["exit"] = journals[l]["exit"]
    BY <1>3, HandledEffect DEF RunStart, RunFinish, RunExit, JournalCalls
  <2>2. \A l \in Runs : l # k => execution[l] # execution[k] \/ execution[l] = NoId
    BY DEF Told
  <2>3. NoId \notin DOMAIN executions
    BY NoIdAssumption DEF TypeOK, IsTable
  <2>4. ASSUME execution[k] \in DOMAIN executions
        PROVE  /\ journals'[k]["finish"] = 0 => ~executions'[execution[k]].finished
               /\ journals'[k]["exit"] = 0 => executions'[execution[k]].exit_status = NoStatus
    <3>0. journals[k]["finish"] \in Nat /\ journals[k]["exit"] \in Nat
      BY DEF RunsTyped, JournalCalls
    <3>1. CASE RunStart(k)
      <4>1. /\ journals'[k]["finish"] = journals[k]["finish"]
            /\ journals'[k]["exit"] = journals[k]["exit"]
        BY <3>1, HandledEffect DEF RunStart, JournalCalls
      <4> QED
        BY <2>4, <3>1, <4>1, RunColumns DEF Pending
    <3>2. CASE RunFinish(k)
      <4>1. journals'[k]["finish"] # 0 /\ journals'[k]["exit"] = journals[k]["exit"]
        BY <3>0, <3>2, HandledEffect DEF RunFinish, JournalCalls
      <4> QED
        BY <2>4, <3>2, <4>1, RunColumns DEF Pending
    <3>3. CASE \E status \in ExitStatuses : RunExit(k, status)
      <4>1. journals'[k]["exit"] # 0 /\ journals'[k]["finish"] = journals[k]["finish"]
        BY <3>0, <3>3, HandledEffect DEF RunExit, JournalCalls
      <4> QED
        BY <2>4, <3>3, <4>1, RunColumns DEF Pending
    <3> QED
      BY <1>3, <3>1, <3>2, <3>3
  <2> QED
    BY <2>0, <2>1, <2>2, <2>3, <2>4 DEF Pending
<1>4. ASSUME NEW k \in Runs, RunOutput(k)
      PROVE  Pending'
  <2>1. UNCHANGED <<executions, execution>>
    BY <1>4, RunOutputEffect
  <2>2. \A l \in Runs : /\ journals'[l]["finish"] = journals[l]["finish"]
                        /\ journals'[l]["exit"] = journals[l]["exit"]
    BY <1>4, HandledEffect DEF RunOutput, JournalCalls
  <2> QED
    BY <2>1, <2>2 DEF Pending
<1> QED
  BY <1>1, <1>2, <1>3, <1>4 DEF MinicronNext, RunStep

-----------------------------------------------------------------------------
\* The invariant

\* The invariant holds before any run.
LEMMA MinicronInitInv == MinicronInit => Inv
<1> SUFFICES ASSUME MinicronInit PROVE Inv
  OBVIOUS
<1>1. TypeOK /\ References /\ NumbersFollowIds
  BY InitTypeOK DEF MinicronInit, Init, References, NumbersFollowIds, Empty
<1>2. RunsTyped /\ Told
  BY DEF MinicronInit, Run!Blank, Run!Calls, RunsTyped, Told, JournalCalls
<1>3. DOMAIN written = {} /\ DOMAIN outputs = {} /\ DOMAIN executions = {}
  BY DEF MinicronInit, Init, Empty
<1>4. Lines
  <2>1. 1..lastId["outputs"] = {}
    BY DEF MinicronInit, Init, Tables
  <2>2. \A k \in Runs : RowsOf(k) = {} /\ journals[k]["output"] = 0
    BY <1>3 DEF RowsOf, MinicronInit, Run!Blank, Run!Calls
  <2>3. \A k \in Runs : Cardinality(RowsOf(k)) = journals[k]["output"]
    BY <2>2, FS_EmptySet
  <2>4. written \in [1..lastId["outputs"] -> [run : Runs, line : Nat \ {0}]]
    BY <2>1 DEF MinicronInit, Empty
  <2> QED
    BY <1>3, <2>2, <2>3, <2>4 DEF Lines
<1>5. Owned /\ Pending /\ OrphansCameLate
  BY <1>3 DEF Owned, Pending, OrphansCameLate
<1> QED
  BY <1>1, <1>2, <1>4, <1>5 DEF Inv

\* Every step keeps the invariant.
LEMMA MinicronNextInv == Inv /\ [MinicronNext]_systemVars => Inv'
<1> SUFFICES ASSUME Inv, [MinicronNext]_systemVars PROVE Inv'
  OBVIOUS
<1>0. /\ TypeOK /\ References /\ NumbersFollowIds
      /\ RunsTyped /\ Told /\ Lines /\ Owned /\ Pending /\ OrphansCameLate
  BY DEF Inv
<1>1. CASE MinicronNext
  <2>1. [Next]_vars
    BY <1>0, <1>1, NextIsHub
  <2>2. TypeOK' /\ References' /\ NumbersFollowIds'
    BY <1>0, <2>1, NextTypeOK, NextReferences, NextNumbers
  <2> QED
    BY <1>0, <1>1, <2>2, TypedStep, LinesStep, OwnedStep, PendingStep DEF Inv
<1>2. CASE UNCHANGED systemVars
  <2>1. UNCHANGED vars /\ UNCHANGED <<journals, execution, written, kept>>
    BY <1>2 DEF systemVars
  <2>2. TypeOK' /\ References' /\ NumbersFollowIds'
    BY <1>0, <2>1, NextTypeOK, NextReferences, NextNumbers
  <2>3. RunsTyped' /\ Told' /\ Lines' /\ Owned' /\ Pending' /\ OrphansCameLate'
    BY <1>0, <2>1 DEF vars, RunsTyped, Told, Lines, RowsOf, Before, Owned, Pending,
       OrphansCameLate
  <2> QED
    BY <2>2, <2>3 DEF Inv
<1> QED
  BY <1>1, <1>2

\* The invariant holds of every system.
LEMMA MinicronInv == MinicronSpec => []Inv
BY MinicronInitInv, MinicronNextInv, PTL DEF MinicronSpec

\* The hub and its clients together are a hub whose requests come in an order that
\* clients can send them in: all that is proved of the hub holds of the system.
THEOREM MinicronIsHub == MinicronSpec => Spec
<1>1. MinicronInit => Init
  BY DEF MinicronInit
<1>2. Inv /\ [MinicronNext]_systemVars => [Next]_vars
  BY NextIsHub DEF Inv, systemVars
<1> QED
  BY <1>1, <1>2, MinicronInv, PTL DEF MinicronSpec, Spec

\* Runs of one command that start at the same time never meet the unique index on the
\* numbers (api/executions.rb:45).
THEOREM RunsNeverCollide == MinicronSpec => []InitNeverCollides
BY MinicronIsHub, NoNumberCollision

\* A row that belongs to nothing came after its execution was deleted
\* (models/execution.rb:8, api/executions.rb:117).
THEOREM OrphansAreLate == MinicronSpec => []OrphansCameLate
BY MinicronInv, PTL DEF Inv

-----------------------------------------------------------------------------
\* The page of an execution

\* The outputs of an execution that is there are the rows of its run.
LEMMA OutputsAreRows ==
  ASSUME Inv, NEW k \in Runs, execution[k] \in DOMAIN executions
  PROVE  OutputsOf({execution[k]}) = RowsOf(k)
<1>1. /\ DOMAIN outputs \subseteq DOMAIN written
      /\ \A o \in DOMAIN written : written[o].run \in Runs
      /\ execution[k] # NoId
  BY NoIdAssumption DEF Inv, TypeOK, IsTable, Lines
<1>2. \A o \in OutputsOf({execution[k]}) : o \in DOMAIN written /\ written[o].run = k
  BY <1>1 DEF OutputsOf, Inv, Owned, Told
<1>3. \A o \in RowsOf(k) : o \in DOMAIN outputs /\ outputs[o].execution = execution[k]
  BY DEF RowsOf, Inv, Owned
<1> QED
  BY <1>2, <1>3 DEF OutputsOf, RowsOf

\* The n-th row of a run holds line n.
LEMMA RowOfLine ==
  ASSUME Inv, NEW k \in Runs, NEW n \in 1..journals[k]["output"]
  PROVE  written[RowAt(RowsOf(k), n)] = [run |-> k, line |-> n]
<1>0. written \in [1..lastId["outputs"] -> [run : Runs, line : Nat \ {0}]]
  BY DEF Inv, Lines
<1>1. \A o \in RowsOf(k) : Cardinality({r \in RowsOf(k) : r < o}) = written[o].line - 1
  BY DEF Inv, Lines, Before, RowsOf
<1>2. PICK o \in DOMAIN written : written[o] = [run |-> k, line |-> n]
  BY DEF Inv, Lines
<1>3. o \in RowsOf(k) /\ Cardinality({r \in RowsOf(k) : r < o}) = n - 1
  BY <1>1, <1>2 DEF RowsOf
<1>4. ASSUME NEW p \in RowsOf(k), Cardinality({r \in RowsOf(k) : r < p}) = n - 1
      PROVE  written[p] = [run |-> k, line |-> n]
  <2>1. written[p] \in [run : Runs, line : Nat \ {0}] /\ written[p].run = k
    BY <1>0 DEF RowsOf
  <2>2. written[p].line - 1 = n - 1
    BY <1>1, <1>4
  <2>3. written[p].line = n
    BY <2>1, <2>2
  <2> QED
    BY <2>1, <2>3
<1> QED
  BY <1>3, <1>4 DEF RowAt

\* The page of an execution shows what its own run has written, each line once and in
\* order, though the rows are sorted by nothing but their ids
\* (controllers/executions.rb:9, api/executions.rb:117).
THEOREM PagesShowTheRun == MinicronSpec => []PageShowsTheRun
<1>1. Inv => PageShowsTheRun
  <2> SUFFICES ASSUME Inv, NEW k \in Runs, execution[k] \in DOMAIN executions
               PROVE  LinesOf(execution[k]) =
                        [n \in 1..journals[k]["output"] |-> [run |-> k, line |-> n]]
    BY DEF PageShowsTheRun
  <2>1. OutputsOf({execution[k]}) = RowsOf(k)
    BY OutputsAreRows
  <2>2. Cardinality(RowsOf(k)) = journals[k]["output"]
    BY DEF Inv, Lines
  <2> QED
    BY <2>1, <2>2, RowOfLine DEF LinesOf
<1> QED
  BY <1>1, MinicronInv, PTL

-----------------------------------------------------------------------------
\* The refinement

\* What the pages show of an execution.
Shown(e) == [label |-> Label(executions[e]), lines |-> Cardinality(OutputsOf({e}))]
ShownNow == [e \in DOMAIN executions |-> Shown(e)]

\* An execution shows the same as long as its row and its outputs are the same.
LEMMA ShownKept ==
  ASSUME NEW e, executions'[e] = executions[e],
         \A o : o \in DOMAIN outputs' /\ outputs'[o].execution = e <=>
               o \in DOMAIN outputs /\ outputs[o].execution = e
  PROVE  Shown(e)' = Shown(e)
<1>1. OutputsOf({e})' = OutputsOf({e})
  BY DEF OutputsOf
<1> QED
  BY <1>1 DEF Shown, Label

\* What users do only takes executions off the pages.
LEMMA PageStepShown ==
  ASSUME Inv, PageStep
  PROVE  Pages!Next \/ UNCHANGED <<ShownNow, DOMAIN issued>>
<1>0. TypeOK
  BY DEF Inv
<1>1. /\ UNCHANGED issued
      /\ DOMAIN executions' \subseteq DOMAIN executions
      /\ \A e \in DOMAIN executions' : executions'[e] = executions[e]
      /\ DOMAIN outputs' = {o \in DOMAIN outputs :
                             outputs[o].execution \notin DOMAIN executions \ DOMAIN executions'}
      /\ \A o \in DOMAIN outputs' : outputs'[o] = outputs[o]
  BY <1>0, PageEffect
<1>2. \A e \in DOMAIN executions' : Shown(e)' = Shown(e)
  <2>1. SUFFICES ASSUME NEW e \in DOMAIN executions' PROVE Shown(e)' = Shown(e)
    OBVIOUS
  <2>2. \A o : o \in DOMAIN outputs' /\ outputs'[o].execution = e <=>
              o \in DOMAIN outputs /\ outputs[o].execution = e
    BY <1>1
  <2> QED
    BY <1>1, <2>2, ShownKept
<1> DEFINE ids == DOMAIN executions \ DOMAIN executions'
<1>3. ids \in SUBSET DOMAIN ShownNow
  BY DEF ShownNow
<1>4. ShownNow' = [e \in DOMAIN ShownNow \ ids |-> ShownNow[e]]
  <2>1. DOMAIN ShownNow \ ids = DOMAIN executions'
    BY <1>1 DEF ShownNow
  <2> QED
    BY <1>1, <1>2, <2>1 DEF ShownNow
<1>5. Pages!Delete(ids)
  BY <1>1, <1>4 DEF Pages!Delete, ShownNow, Shown
<1> QED
  BY <1>3, <1>5 DEF Pages!Next, ShownNow, Shown

\* Init puts an execution on the pages that has never been there.
LEMMA RunInitShown ==
  ASSUME Inv, NEW k \in Runs, NEW u \in Users, NEW h \in Hostnames, NEW c \in Commands,
         RunInit(k, u, h, c)
  PROVE  \E id \in 1..MaxExecutions : Pages!Begin(id)
<1>0. TypeOK /\ Owned
  BY DEF Inv
<1>1. PICK id \in 1..MaxExecutions : id = NextId("executions")
  BY <1>0, RunInitEffect
<1>2. /\ id \notin DOMAIN issued /\ id \notin DOMAIN executions
      /\ DOMAIN executions' = DOMAIN executions \cup {id}
      /\ \A e \in DOMAIN executions : executions'[e] = executions[e]
      /\ ~executions'[id].finished /\ executions'[id].exit_status = NoStatus
      /\ DOMAIN issued' = DOMAIN issued \cup {id}
      /\ UNCHANGED outputs
  BY <1>0, <1>1, RunInitEffect
<1>3. \A e \in DOMAIN executions : Shown(e)' = Shown(e)
  BY <1>2, ShownKept
<1>4. Shown(id)' = [label |-> "Running", lines |-> 0]
  <2>1. OutputsOf({id})' = {}
    BY <1>0, <1>2 DEF OutputsOf, Owned
  <2>2. Cardinality(OutputsOf({id})') = 0
    BY <2>1, FS_EmptySet
  <2>3. Label(executions'[id]) = "Running"
    BY <1>2 DEF Label
  <2> QED
    BY <2>2, <2>3 DEF Shown
<1>5. ShownNow' = [e \in DOMAIN ShownNow \cup {id} |->
                     IF e = id THEN [label |-> "Running", lines |-> 0] ELSE ShownNow[e]]
  BY <1>2, <1>3, <1>4 DEF ShownNow
<1> QED
  BY <1>2, <1>5 DEF Pages!Begin, ShownNow, Shown

\* Output adds a line to a running execution, or to one that has been deleted.
LEMMA RunOutputShown ==
  ASSUME Inv, NEW k \in Runs, RunOutput(k)
  PROVE  (\E e \in DOMAIN ShownNow : Pages!Line(e)) \/ UNCHANGED <<ShownNow, DOMAIN issued>>
<1> DEFINE id == NextId("outputs")
           own == execution[k]
<1>0. TypeOK /\ RunsTyped /\ Pending
  BY DEF Inv
<1>1. /\ id \notin DOMAIN outputs
      /\ DOMAIN outputs' = DOMAIN outputs \cup {id}
      /\ \A o \in DOMAIN outputs : outputs'[o] = outputs[o]
      /\ outputs'[id].execution = own
      /\ UNCHANGED <<executions, issued>>
  BY <1>0, RunOutputEffect
<1>2. \A e \in DOMAIN executions : e # own => Shown(e)' = Shown(e)
  <2>1. SUFFICES ASSUME NEW e \in DOMAIN executions, e # own PROVE Shown(e)' = Shown(e)
    OBVIOUS
  <2> QED
    BY <1>1, <2>1, ShownKept
<1>3. CASE own \notin DOMAIN executions
  BY <1>1, <1>2, <1>3 DEF ShownNow
<1>4. CASE own \in DOMAIN executions
  <2>1. Label(executions[own]) = "Running"
    BY <1>0, <1>4, HandledOrder DEF RunOutput, Pending, Label
  <2>2. OutputsOf({own}) \in SUBSET DOMAIN outputs /\ IsFiniteSet(OutputsOf({own}))
    <3>1. lastId["outputs"] \in Nat /\ DOMAIN outputs \subseteq 1..lastId["outputs"]
      BY <1>0 DEF TypeOK, Tables, IsTable
    <3> QED
      BY <3>1, IdsFinite DEF OutputsOf
  <2>3. \A e : e = own => OutputsOf({e})' = OutputsOf({e}) \cup {id}
    BY <1>1 DEF OutputsOf
  <2>4. id \notin OutputsOf({own})
    BY <1>1, <2>2
  <2>5. Cardinality(OutputsOf({own}) \cup {id}) = Cardinality(OutputsOf({own})) + 1
    BY <2>2, <2>4, FS_AddElement
  <2>6. \A e : e = own => Shown(e)' = [Shown(e) EXCEPT !.lines = @ + 1]
    BY <1>1, <2>3, <2>5 DEF Shown
  <2>7. ShownNow' = [ShownNow EXCEPT ![own].lines = @ + 1]
    BY <1>1, <1>2, <1>4, <2>6 DEF ShownNow
  <2>8. ShownNow[own].label = "Running" /\ own \in DOMAIN ShownNow
    BY <1>4, <2>1 DEF ShownNow, Shown
  <2>9. Pages!Line(own)
    BY <1>1, <2>7, <2>8 DEF Pages!Line, ShownNow, Shown
  <2> QED
    BY <2>8, <2>9
<1> QED
  BY <1>3, <1>4

\* The other calls turn a label the way it can turn, or leave it.
LEMMA RunUpdateShown ==
  ASSUME Inv, NEW k \in Runs,
         RunStart(k) \/ RunFinish(k) \/ \E status \in ExitStatuses : RunExit(k, status)
  PROVE  \/ \E e \in DOMAIN ShownNow, label \in Pages!Labels : Pages!Turn(e, label)
         \/ UNCHANGED <<ShownNow, DOMAIN issued>>
<1> DEFINE own == execution[k]
<1>0. TypeOK /\ References /\ Pending
  BY DEF Inv
<1>1. /\ DOMAIN executions' = DOMAIN executions
      /\ \A e \in DOMAIN executions : e # own => executions'[e] = executions[e]
      /\ UNCHANGED <<outputs, issued>>
  BY <1>0, RunUpdateEffect
<1>2. \A e \in DOMAIN executions : e # own => Shown(e)' = Shown(e)
  BY <1>1, ShownKept
<1>3. CASE own \notin DOMAIN executions
  BY <1>1, <1>2, <1>3 DEF ShownNow
<1>4. CASE own \in DOMAIN executions
  <2> DEFINE old == Label(executions[own])
             new == Label(executions'[own])
  <2>1. old = new \/ <<old, new>> \in Pages!Turns
    <3>1. CASE RunStart(k)
      BY <1>0, <1>4, <3>1, RunColumns DEF Label
    <3>2. CASE RunFinish(k)
      BY <1>0, <1>4, <3>2, RunColumns DEF Label, Pages!Turns
    <3>3. CASE \E status \in ExitStatuses : RunExit(k, status)
      <4>1. executions[own].exit_status = NoStatus
        BY <1>0, <1>4, <3>3, HandledOrder DEF RunExit, Pending
      <4>2. executions'[own].finished = executions[own].finished
        BY <1>0, <1>4, <3>3, RunColumns
      <4> QED
        BY <4>1, <4>2 DEF Label, Pages!Turns
    <3> QED
      BY <3>1, <3>2, <3>3
  <2>2. new \in Pages!Labels
    BY DEF Label, Pages!Labels
  <2>3. \A e : e = own => Shown(e)' = [Shown(e) EXCEPT !.label = new]
    <3>1. \A e : OutputsOf({e})' = OutputsOf({e})
      BY <1>1 DEF OutputsOf
    <3>2. \A e : Shown(e)' = [label |-> Label(executions'[e]),
                             lines |-> Cardinality(OutputsOf({e}))]
      BY <3>1 DEF Shown, Label
    <3>3. \A e : [Shown(e) EXCEPT !.label = new] =
                  [label |-> new, lines |-> Cardinality(OutputsOf({e}))]
      BY DEF Shown
    <3>4. new = Label(executions'[own])
      OBVIOUS
    <3> HIDE DEF new
    <3> QED
      BY <3>2, <3>3, <3>4
  <2>4. ShownNow' = [ShownNow EXCEPT ![own].label = new]
    BY <1>1, <1>2, <1>4, <2>3 DEF ShownNow
  <2>5. own \in DOMAIN ShownNow /\ ShownNow[own].label = old
    BY <1>4 DEF ShownNow, Shown
  <2>6. CASE <<old, new>> \in Pages!Turns
    <3>1. Pages!Turn(own, new)
      BY <1>1, <2>4, <2>5, <2>6 DEF Pages!Turn, ShownNow, Shown
    <3> QED
      BY <2>2, <2>5, <3>1
  <2>7. CASE old = new
    <3>1. \A e : e = own => Shown(e)' = Shown(e)
      BY <2>3, <2>7 DEF Shown
    <3>2. ShownNow' = ShownNow
      BY <1>1, <1>2, <3>1 DEF ShownNow
    <3> QED
      BY <1>1, <3>2
  <2> QED
    BY <2>1, <2>6, <2>7
<1> QED
  BY <1>3, <1>4

\* The hub and its clients implement Progress: labels only turn the way they can, lines
\* only come to running executions, and what is gone stays away
\* (sidebar.erb:16-29, run.go:93-166).
THEOREM PagesMakeProgress == MinicronSpec => PagesProgress
<1>1. MinicronInit => Pages!Init
  BY DEF MinicronInit, Init, Pages!Init, Empty
<1>2. Inv /\ [MinicronNext]_systemVars => [Pages!Next]_<<ShownNow, DOMAIN issued>>
  <2> SUFFICES ASSUME Inv, [MinicronNext]_systemVars
               PROVE  Pages!Next \/ UNCHANGED <<ShownNow, DOMAIN issued>>
    OBVIOUS
  <2>1. CASE PageStep
    BY <2>1, PageStepShown
  <2>2. ASSUME NEW k \in Runs, RunStep(k)
        PROVE  Pages!Next \/ UNCHANGED <<ShownNow, DOMAIN issued>>
    <3>1. CASE \E u \in Users, h \in Hostnames, c \in Commands : RunInit(k, u, h, c)
      BY <3>1, RunInitShown DEF Pages!Next
    <3>2. CASE RunOutput(k)
      BY <3>2, RunOutputShown DEF Pages!Next, ShownNow, Shown
    <3>3. CASE RunStart(k) \/ RunFinish(k) \/ \E status \in ExitStatuses : RunExit(k, status)
      BY <3>3, RunUpdateShown DEF Pages!Next, ShownNow, Shown
    <3> QED
      BY <2>2, <3>1, <3>2, <3>3 DEF RunStep
  <2>3. CASE UNCHANGED systemVars
    BY <2>3 DEF systemVars, vars, ShownNow, Shown, Label, OutputsOf
  <2> QED
    BY <2>1, <2>2, <2>3 DEF MinicronNext
<1> QED
  BY <1>1, <1>2, MinicronInv, PTL
     DEF MinicronSpec, PagesProgress, Pages!Spec, ShownNow, Shown

=============================================================================
