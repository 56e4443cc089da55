---------------------------- MODULE ClientProofs ----------------------------
(***************************************************************************)
(* Proofs about Client.  A run is safe because the worker makes its calls  *)
(* in turn, so that what the hub has handled fixes what may still be on    *)
(* its way: the invariant says for each place of the worker how much the   *)
(* hub has, and for each request in flight which place it will take.       *)
(***************************************************************************)
EXTENDS Client, FiniteSetTheorems, SequenceTheorems, TLAPS

-----------------------------------------------------------------------------
\* The inductive invariant

\* The types of what the goroutines share, and of the rest.
ProcessTyped ==
  /\ main \in {"parse", "range", "print", "exit", "gone"}
  /\ worker \in Calls \cup {"unstarted", "setup", "pty", "scan", "publish",
                            "wait", "return", "done"}
  /\ result \in [status : -1..255, error : BOOLEAN]
  /\ exitStatus \in -1..255 /\ code \in 0..255
  /\ scanned \in 0..MaxLines /\ printed \in 0..MaxLines

OutsideTyped ==
  /\ written \in 0..MaxLines
  /\ scanError \in BOOLEAN /\ hungUp \in BOOLEAN
  /\ command \in {"none", "running", "exited"}
  /\ status \in ExitStatuses \cup {Killed, 0}
  /\ pending \in Request \cup {NoRequest}
  /\ reply \in {"none", "ok", "error"}
  /\ inFlight \subseteq Request
  /\ handled \in Seq(Request)

\* The goroutines meet at the channel: a scanned line is at the channel, at the
\* terminal or printed, and main leaves only by the closed channel.
Channel ==
  /\ closes = IF worker \in {"return", "done"} THEN 1 ELSE 0
  /\ scanned = printed + (IF main = "print" THEN 1 ELSE 0)
                       + (IF worker = "publish" THEN 1 ELSE 0)
  /\ main = "parse" => worker = "unstarted"
  /\ worker = "unstarted" => main \in {"parse", "gone"}
  /\ main = "exit" => closes = 1
  /\ main = "gone" => closes = 1 \/ worker = "unstarted"

\* What is pending is what the worker has asked for.
Asked ==
  /\ pending # NoRequest =>
       /\ worker \in Calls
       /\ pending = [call |-> worker,
                     line |-> IF worker = "output" THEN scanned ELSE 0,
                     status |-> IF worker = "exit" THEN result.status ELSE 0]
  /\ reply # "none" => pending # NoRequest

\* A request that carries an exit status carries that of the command, which has
\* ended, and all of whose lines have been scanned.
Final(request) ==
  /\ scanned = written /\ hungUp /\ command = "exited"
  /\ request.status = Reported(status)

Ends ==
  /\ scanned <= written
  /\ (worker = "finish" /\ ~scanError) \/ worker \in {"wait", "exit"} =>
       scanned = written /\ hungUp
  /\ worker = "exit" => command = "exited" /\ result.status = Reported(status)
  /\ \A request \in inFlight : request.call = "exit" => Final(request)
  /\ \A i \in DOMAIN handled : handled[i].call = "exit" => Final(handled[i])

\* The places of the worker up to which every call is answered before the next.
InTurn == {"unstarted", "setup", "init", "pty", "start", "scan", "publish", "output", "finish"}

\* How much the hub has handled when the worker comes to where it is.
Settled ==
  CASE worker \in {"unstarted", "setup", "init"} -> 0
    [] worker \in {"pty", "start"} -> 1
    [] worker \in {"publish", "output"} -> scanned + 1
    [] OTHER -> scanned + 2

NoExit ==
  /\ \A i \in DOMAIN handled : handled[i].call # "exit"
  /\ \A request \in inFlight : request.call # "exit"

Turns ==
  /\ worker \in InTurn =>
       /\ inFlight \subseteq {pending}
       /\ Len(handled) \in {Settled, Settled + 1}
       /\ pending = NoRequest \/ pending \in inFlight => Len(handled) = Settled
       /\ reply = "ok" => Len(handled) = Settled + 1
  /\ worker \in {"unstarted", "setup", "init", "pty", "start"} => scanned = 0
  /\ worker \in {"publish", "output"} => scanned > 0
  /\ worker \in {"wait", "exit"} =>
       /\ Len(handled) >= scanned + 2
       /\ \A request \in inFlight : request.call \in {"finish", "exit"}
  /\ worker \in InTurn \cup {"wait"} => NoExit
  /\ worker = "exit" /\ pending = NoRequest => NoExit

\* A request on its way is the one the hub may store next; only finish and exit may
\* be on their way together.
Flight ==
  \A request \in inFlight :
    /\ request.call \in Place(Len(handled) + 1)
    /\ request.call = "output" => request.line = Len(handled) - 1
    /\ request.call # "output" => \A i \in DOMAIN handled : handled[i].call # request.call
    /\ \A other \in inFlight :
         \/ other = request
         \/ /\ {request.call, other.call} \subseteq {"finish", "exit"}
            /\ other.call # request.call

Inv == TypeOK /\ Channel /\ Asked /\ Ends /\ Turns /\ Flight /\ RecordedInOrder

-----------------------------------------------------------------------------
\* The initial states

\* The invariant holds before the arguments are parsed.
LEMMA InitInv == Init => Inv
<1> SUFFICES ASSUME Init PROVE Inv
  OBVIOUS
<1>1. TypeOK
  <2>1. handled \in Seq(Request) /\ inFlight \subseteq Request
    BY DEF Init
  <2>2. ProcessTyped /\ closes \in 0..1
    BY ClientAssumption DEF Init, ProcessTyped
  <2>3. scanError \in BOOLEAN /\ hungUp \in BOOLEAN
    BY DEF Init
  <2>4. OutsideTyped
    BY <2>1, <2>3, ClientAssumption DEF Init, OutsideTyped
  <2> QED
    BY <2>2, <2>4 DEF TypeOK, ProcessTyped, OutsideTyped
<1>2. Channel /\ Asked
  BY DEF Init, Channel, Asked
<1>3. DOMAIN handled = {} /\ Len(handled) = 0
  BY DEF Init
<1>4. Ends /\ Flight /\ RecordedInOrder
  BY <1>3 DEF Init, Ends, Flight, RecordedInOrder
<1>5. Turns
  BY <1>3 DEF Init, Turns, InTurn, Settled, NoExit
<1> QED
  BY <1>1, <1>2, <1>4, <1>5 DEF Inv

-----------------------------------------------------------------------------
\* The types and the channel

\* The exit status of the command fits what Command returns.
LEMMA ReportedType ==
  ASSUME TypeOK PROVE Reported(status) \in -1..255
BY StatusesAssumption DEF TypeOK, Reported

\* The channel is closed as often as the places of the worker say.
LEMMA TypeParts ==
  /\ TypeOK => ProcessTyped /\ OutsideTyped
  /\ ProcessTyped /\ OutsideTyped /\ Channel => TypeOK
<1>1. TypeOK => ProcessTyped /\ OutsideTyped
  BY DEF TypeOK, ProcessTyped, OutsideTyped
<1>2. Channel => closes \in 0..1
  BY DEF Channel
<1> QED
  BY <1>1, <1>2 DEF TypeOK, ProcessTyped, OutsideTyped

\* What Command returns has its type.
LEMMA ReturnTyped ==
  ASSUME NEW s \in -1..255, NEW error \in BOOLEAN, Return(s, error)
  PROVE  /\ result' \in [status : -1..255, error : BOOLEAN]
         /\ worker' = "return" /\ closes' = closes + 1
BY DEF Return

\* A way out of Command keeps the types, and closes the channel once.
LEMMA ReturnChannel ==
  ASSUME ProcessTyped, Channel, NEW s \in -1..255, NEW error \in BOOLEAN,
         Return(s, error), worker \notin {"unstarted", "publish", "return", "done"},
         UNCHANGED <<main, exitStatus, printed, scanned, code>>
  PROVE  ProcessTyped' /\ Channel'
<1>1. /\ result' \in [status : -1..255, error : BOOLEAN]
      /\ worker' = "return" /\ closes' = closes + 1
  BY ReturnTyped
<1>2. ProcessTyped'
  BY <1>1 DEF ProcessTyped
<1>3. Channel'
  BY <1>1 DEF ProcessTyped, Channel
<1> QED
  BY <1>2, <1>3

\* Every step of the worker keeps the types of the process, and its lines and its
\* close are in step with main.
LEMMA WorkerChannel ==
  ASSUME TypeOK, Channel, Asked, WorkerStep
  PROVE  ProcessTyped' /\ Channel'
<1> USE DEF goroutineVars, scannerVars, commandVars, networkVars
<1>0. Working /\ ProcessTyped /\ OutsideTyped
  BY TypeParts DEF WorkerStep
<1>00. 0 \in -1..255 /\ TRUE \in BOOLEAN /\ FALSE \in BOOLEAN
  OBVIOUS
<1>1. CASE Setup
  <2>1. Return(0, TRUE) \/ (worker' = "init" /\ UNCHANGED <<closes, result>>)
    BY <1>1 DEF Setup
  <2>2. CASE Return(0, TRUE)
    BY <1>0, <1>1, <2>2, <1>00, ReturnChannel DEF Setup
  <2>3. CASE worker' = "init" /\ UNCHANGED <<closes, result>>
    BY <1>0, <1>1, <2>3 DEF Setup, ProcessTyped, Channel, Calls
  <2> QED
    BY <2>1, <2>2, <2>3
<1>2. CASE SendRequest
  BY <1>0, <1>2 DEF SendRequest, ProcessTyped, Channel
<1>3. CASE ReadReply
  <2>0. /\ worker \in Calls
        /\ UNCHANGED <<main, exitStatus, printed, scannerVars, code>>
    BY <1>3 DEF ReadReply
  <2>1. ASSUME NEW s \in -1..255, NEW error \in BOOLEAN, Return(s, error)
        PROVE  ProcessTyped' /\ Channel'
    BY <1>0, <2>0, <2>1, ReturnChannel DEF Calls
  <2>2. CASE worker' \in {"pty", "scan", "wait"} /\ UNCHANGED <<closes, result>>
    BY <1>0, <2>0, <2>2 DEF ProcessTyped, Channel, Calls
  <2>3. CASE Continue(worker)
    <3>1. result.status \in -1..255
      BY <1>0 DEF ProcessTyped
    <3>2. \/ Return(0, TRUE) \/ Return(result.status, FALSE)
          \/ worker' \in {"pty", "scan", "wait"} /\ UNCHANGED <<closes, result>>
      BY <2>0, <2>3 DEF Continue, Calls
    <3> QED
      BY <2>1, <2>2, <3>1, <3>2, <1>00
  <2>4. Return(0, TRUE) \/ Continue(worker)
    BY <1>3 DEF ReadReply
  <2> QED
    BY <2>1, <2>3, <2>4, <1>00
<1>4. CASE StartCommand
  <2>1. \/ Return(0, TRUE)
        \/ worker' = "start" /\ UNCHANGED <<closes, result>>
    BY <1>4 DEF StartCommand
  <2>2. CASE Return(0, TRUE)
    BY <1>0, <1>4, <2>2, <1>00, ReturnChannel DEF StartCommand
  <2>3. CASE worker' = "start" /\ UNCHANGED <<closes, result>>
    BY <1>0, <1>4, <2>3 DEF StartCommand, ProcessTyped, Channel, Calls
  <2> QED
    BY <2>1, <2>2, <2>3
<1>5. CASE ScanLine
  BY <1>0, <1>5, ClientAssumption DEF ScanLine, ProcessTyped, OutsideTyped, Channel, Calls
<1>6. CASE ScanTooLong
  BY <1>0, <1>6 DEF ScanTooLong, ProcessTyped, Channel, Calls
<1>7. CASE ScanEnds
  BY <1>0, <1>7 DEF ScanEnds, ProcessTyped, Channel, Calls
<1>8. CASE Publish
  BY <1>0, <1>8 DEF Publish, ProcessTyped, Channel, Calls
<1>9. CASE Wait
  BY <1>0, <1>9, ReportedType DEF Wait, ProcessTyped, Channel, Calls
<1>10. CASE Assign
  BY <1>0, <1>10 DEF Assign, ProcessTyped, Channel, Calls
<1> QED
  BY <1>1, <1>2, <1>3, <1>4, <1>5, <1>6, <1>7, <1>8, <1>9, <1>10 DEF WorkerStep

\* Every other step does as well.
LEMMA OtherChannel ==
  ASSUME TypeOK, Channel, MainStep \/ CommandStep \/ HubStep \/ Timeout \/ UNCHANGED vars
  PROVE  ProcessTyped' /\ Channel'
<1> USE DEF goroutineVars, scannerVars
<1>0. ProcessTyped
  BY TypeParts
<1>1. CASE ParseArguments
  BY <1>0, <1>1 DEF ParseArguments, ProcessTyped, Channel, Calls
<1>2. CASE PrintLine
  BY <1>0, <1>2, ClientAssumption DEF PrintLine, ProcessTyped, Channel
<1>3. CASE RangeEnds
  BY <1>0, <1>3 DEF RangeEnds, ProcessTyped, Channel
<1>4. CASE Exit
  BY <1>0, <1>4 DEF Exit, ExitCode, ProcessTyped, Channel
<1>5. CASE CommandStep \/ HubStep \/ Timeout \/ UNCHANGED vars
  <2>1. UNCHANGED <<goroutineVars, scannerVars, code>> 
    BY <1>5 DEF CommandStep, WriteLine, CloseTerminal, CommandExits,
                HubStep, Handle, Refuse, Timeout, vars
  <2> QED
    BY <1>0, <2>1 DEF ProcessTyped, Channel
<1> QED
  BY <1>1, <1>2, <1>3, <1>4, <1>5 DEF MainStep

\* Every step keeps the types of the terminal, the command and the network.
LEMMA OutsideStep ==
  ASSUME TypeOK, Next \/ UNCHANGED vars
  PROVE  OutsideTyped'
<1> USE DEF goroutineVars, scannerVars, commandVars, networkVars
<1>0. ProcessTyped /\ OutsideTyped
  BY TypeParts
<1>1. CASE SendRequest
  <2>1. scanned \in 0..MaxLines /\ result.status \in Int /\ worker \in Calls
        /\ 0 \in 0..MaxLines
    BY <1>0, <1>1, ClientAssumption DEF ProcessTyped, SendRequest
  <2>2. pending' \in Request /\ inFlight' = inFlight \cup {pending'}
    BY <1>1, <2>1 DEF SendRequest, Request
  <2> QED
    BY <1>0, <1>1, <2>2 DEF SendRequest, OutsideTyped
<1>2. CASE ReadReply
  BY <1>0, <1>2 DEF ReadReply, OutsideTyped
<1>3. CASE HubStep
  <2>1. PICK request \in inFlight : Handle(request) \/ Refuse(request)
    BY <1>3 DEF HubStep
  <2>2. request \in Request /\ handled \in Seq(Request)
    BY <1>0 DEF OutsideTyped
  <2>3. handled' \in Seq(Request)
    BY <2>1, <2>2, AppendProperties DEF Handle, Refuse
  <2>4. inFlight' \subseteq Request /\ reply' \in {"none", "ok", "error"}
    BY <1>0, <2>1 DEF Handle, Refuse, Answer, OutsideTyped
  <2> QED
    BY <1>0, <2>1, <2>3, <2>4 DEF Handle, Refuse, OutsideTyped
<1>4. CASE Timeout
  BY <1>0, <1>4 DEF Timeout, OutsideTyped
<1>5. CASE CommandStep
  <2>1. CASE WriteLine
    BY <1>0, <2>1, ClientAssumption DEF WriteLine, OutsideTyped
  <2>2. CASE CloseTerminal
    BY <1>0, <2>2 DEF CloseTerminal, OutsideTyped
  <2>3. CASE CommandExits
    BY <1>0, <2>3 DEF CommandExits, OutsideTyped
  <2> QED
    BY <1>5, <2>1, <2>2, <2>3 DEF CommandStep
<1>6. CASE Setup \/ ScanLine \/ Publish \/ Wait \/ Assign \/ MainStep \/ UNCHANGED vars
  BY <1>0, <1>6 DEF Setup, ScanLine, Publish, Wait, Assign, MainStep, ParseArguments,
     PrintLine, RangeEnds, Exit, vars, OutsideTyped
<1>7. CASE StartCommand \/ ScanTooLong \/ ScanEnds
  BY <1>0, <1>7, ClientAssumption DEF StartCommand, ScanTooLong, ScanEnds, OutsideTyped
<1> QED
  BY <1>1, <1>2, <1>3, <1>4, <1>5, <1>6, <1>7 DEF Next, WorkerStep, Terminated

-----------------------------------------------------------------------------
\* The requests

\* Nothing that is on its way is the absence of a request.
LEMMA InFlightTyped ==
  ASSUME TypeOK, NEW request \in inFlight
  PROVE  /\ request \in Request /\ request.call \in Calls /\ request # NoRequest
         /\ request.line \in 0..MaxLines /\ request.status \in Int
BY DEF TypeOK, Request, Calls, NoRequest

\* What is pending stays what the worker has asked for.
LEMMA AskedStep ==
  ASSUME TypeOK, Channel, Asked, Next \/ UNCHANGED vars
  PROVE  Asked'
<1> USE DEF goroutineVars, scannerVars, commandVars, networkVars
<1>1. CASE SendRequest
  BY <1>1 DEF SendRequest, Asked
<1>2. CASE ReadReply
  BY <1>2 DEF ReadReply, Asked
<1>3. CASE HubStep
  <2>1. PICK request \in inFlight : Handle(request) \/ Refuse(request)
    BY <1>3 DEF HubStep
  <2>2. request # NoRequest
    BY InFlightTyped
  <2> QED
    BY <2>1, <2>2 DEF Handle, Refuse, Answer, Asked
<1>4. CASE Timeout
  BY <1>4 DEF Timeout, Asked
<1>5. CASE Setup \/ StartCommand \/ ScanLine \/ ScanTooLong \/ ScanEnds
           \/ Publish \/ Wait \/ Assign
  <2>1. worker \notin Calls /\ UNCHANGED <<pending, reply>>
    BY <1>5 DEF Setup, StartCommand, ScanLine, ScanTooLong, ScanEnds, Publish, Wait,
       Assign, Calls
  <2> QED
    BY <2>1 DEF Asked
<1>6. CASE ParseArguments
  BY <1>6 DEF ParseArguments, Channel, Asked, Calls
<1>7. CASE PrintLine \/ RangeEnds \/ Exit \/ CommandStep \/ UNCHANGED vars
  <2>1. UNCHANGED <<pending, reply, worker, scanned, result>>
    BY <1>7 DEF PrintLine, RangeEnds, Exit, CommandStep, WriteLine, CloseTerminal,
       CommandExits, vars
  <2> QED
    BY <2>1 DEF Asked
<1> QED
  BY <1>1, <1>2, <1>3, <1>4, <1>5, <1>6, <1>7 DEF Next, WorkerStep, MainStep, Terminated

\* What the hub has handled of a run, after one more request.
LEMMA HandledAppended ==
  ASSUME TypeOK, NEW request \in inFlight, Handle(request)
  PROVE  /\ Len(handled) \in Nat /\ DOMAIN handled = 1..Len(handled)
         /\ Len(handled') = Len(handled) + 1
         /\ DOMAIN handled' = 1..(Len(handled) + 1)
         /\ \A i \in DOMAIN handled : handled'[i] = handled[i]
         /\ handled'[Len(handled) + 1] = request
<1>1. handled \in Seq(Request) /\ request \in Request
  BY InFlightTyped DEF TypeOK
<1>2. handled' = Append(handled, request)
  BY DEF Handle
<1> QED
  BY <1>1, <1>2, AppendProperties, LenProperties

\* The places of the hub's record do not depend on what is scanned later.
LEMMA PlaceKept ==
  ASSUME TypeOK, Len(handled) <= scanned + 2, scanned' = scanned + 1, UNCHANGED handled,
         RecordedInOrder
  PROVE  RecordedInOrder'
<1>1. DOMAIN handled = 1..Len(handled) /\ Len(handled) \in Nat
  BY LenProperties DEF TypeOK
<1>2. scanned \in Nat
  BY DEF TypeOK
<1>3. \A i \in DOMAIN handled : Place(i)' = Place(i)
  BY <1>1, <1>2 DEF Place
<1> QED
  BY <1>3 DEF RecordedInOrder

-----------------------------------------------------------------------------
\* The end of the command

\* An exit status is only sent, and the hub has only handled one, when the command
\* has ended and all its lines have been scanned.
LEMMA EndsStep ==
  ASSUME TypeOK, Channel, Asked, Ends, Turns, Next \/ UNCHANGED vars
  PROVE  Ends'
<1> USE DEF goroutineVars, scannerVars, commandVars, networkVars
<1>0. scanned \in Nat /\ written \in Nat /\ hungUp \in BOOLEAN
  BY DEF TypeOK
<1>1. CASE SendRequest
  <2>1. pending'.call = "exit" => Final(pending')
    BY <1>1 DEF SendRequest, Ends, Final
  <2> QED
    BY <1>1, <2>1 DEF SendRequest, Ends, Final
<1>2. CASE ReadReply
  <2>1. /\ UNCHANGED <<scanned, written, hungUp, scanError, command, status, inFlight, handled>>
        /\ worker' # "exit" /\ worker' # "finish"
        /\ worker' = "wait" => worker = "finish" /\ ~scanError
    BY <1>2 DEF ReadReply, Return, Continue, Calls
  <2> QED
    BY <2>1 DEF Ends, Final
<1>3. CASE ScanLine \/ ScanTooLong
  <2>1. /\ UNCHANGED <<written, hungUp, command, status, inFlight, handled>>
        /\ scanned < written /\ scanned' <= written
        /\ worker' \in {"publish", "finish"} /\ (worker' = "finish" => scanError')
    BY <1>0, <1>3 DEF ScanLine, ScanTooLong
  <2> QED
    BY <1>0, <2>1 DEF Ends, Final
<1>4. CASE ScanEnds
  BY <1>4 DEF ScanEnds, Ends, Final
<1>5. CASE Wait
  BY <1>5 DEF Wait, Ends, Final, TypeOK
<1>6. CASE StartCommand
  <2>1. NoExit
    BY <1>6 DEF StartCommand, Turns, InTurn
  <2> QED
    BY <1>6, <2>1 DEF StartCommand, Return, Ends, NoExit
<1>7. CASE Setup \/ Publish \/ Assign \/ ParseArguments
  <2>1. /\ UNCHANGED <<scannerVars, commandVars, inFlight, handled>>
        /\ worker' \notin {"finish", "wait", "exit"}
    BY <1>7 DEF Setup, Return, Publish, Assign, ParseArguments, Channel
  <2> QED
    BY <2>1 DEF Ends, Final
<1>8. CASE WriteLine
  BY <1>0, <1>8 DEF WriteLine, Ends, Final
<1>9. CASE CloseTerminal \/ CommandExits
  <2>1. /\ command = "running" \/ UNCHANGED <<command, status>>
        /\ UNCHANGED <<worker, result, scannerVars, written, inFlight, handled>>
    BY <1>9 DEF CloseTerminal, CommandExits
  <2>2. hungUp => hungUp'
    BY <1>9 DEF CloseTerminal, CommandExits
  <2> QED
    BY <1>0, <2>1, <2>2 DEF Ends, Final
<1>10. CASE HubStep
  <2>1. PICK request \in inFlight : Handle(request) \/ Refuse(request)
    BY <1>10 DEF HubStep
  <2>2. CASE Refuse(request)
    BY <2>2 DEF Refuse, Ends, Final
  <2>3. CASE Handle(request)
    <3>1. \A i \in DOMAIN handled' : handled'[i].call = "exit" => Final(handled'[i])
      BY <2>3, HandledAppended DEF Ends
    <3> QED
      BY <2>3, <3>1 DEF Handle, Ends, Final
  <2> QED
    BY <2>1, <2>2, <2>3
<1>11. CASE PrintLine \/ RangeEnds \/ Exit \/ Timeout \/ UNCHANGED vars
  <2>1. UNCHANGED <<worker, result, scannerVars, commandVars, inFlight, handled>>
    BY <1>11 DEF PrintLine, RangeEnds, Exit, Timeout, vars
  <2> QED
    BY <2>1 DEF Ends, Final
<1> QED
  BY <1>1, <1>2, <1>3, <1>4, <1>5, <1>6, <1>7, <1>8, <1>9, <1>10, <1>11
     DEF Next, WorkerStep, MainStep, CommandStep, Terminated

-----------------------------------------------------------------------------
\* The order of the calls

\* What the steps of the calls need to know of the types.
LEMMA Counts ==
  ASSUME TypeOK
  PROVE  /\ scanned \in Nat /\ Len(handled) \in Nat
         /\ DOMAIN handled = 1..Len(handled)
         /\ NoRequest \notin inFlight
BY LenProperties, InFlightTyped DEF TypeOK

\* A request takes the place that what the hub has handled leaves for it.
LEMMA SendOrder ==
  ASSUME TypeOK, Asked, Turns, Flight, RecordedInOrder, SendRequest
  PROVE  Turns' /\ Flight' /\ RecordedInOrder'
<1>0. /\ scanned \in Nat /\ Len(handled) \in Nat /\ DOMAIN handled = 1..Len(handled)
      /\ NoRequest \notin inFlight
  BY Counts
<1>1. /\ worker \in Calls /\ pending = NoRequest /\ inFlight' = inFlight \cup {pending'}
      /\ pending'.call = worker /\ (worker = "output" => pending'.line = scanned)
      /\ reply = "none"
      /\ UNCHANGED <<worker, scanned, scanError, reply, handled>>
  BY DEF SendRequest, Asked, goroutineVars, scannerVars
<1>2. RecordedInOrder'
  BY <1>1 DEF RecordedInOrder, Place
<1>3. CASE worker # "exit"
  <2>1. worker \in InTurn
    BY <1>1, <1>3 DEF Calls, InTurn
  <2>2. inFlight = {} /\ Len(handled) = Settled
    BY <1>0, <1>1, <2>1 DEF Turns
  <2>3. Turns'
    BY <1>1, <1>3, <2>1, <2>2 DEF Turns, NoExit, Settled, InTurn
  <2>4. pending'.call \in Place(Len(handled) + 1)
    BY <1>0, <1>1, <1>3, <2>2 DEF Settled, Place, Calls, Turns
  <2>5. pending'.call = "output" => pending'.line = Len(handled) - 1
    BY <1>0, <1>1, <2>2 DEF Settled
  <2>6. pending'.call # "output" => \A i \in DOMAIN handled : handled[i].call # pending'.call
    BY <1>0, <1>1, <1>3, <2>2 DEF Settled, RecordedInOrder, Place, Calls
  <2>7. Flight'
    BY <1>1, <2>2, <2>4, <2>5, <2>6 DEF Flight, Place
  <2> QED
    BY <1>2, <2>3, <2>7
<1>4. CASE worker = "exit"
  <2>0. pending' # NoRequest
    BY <1>1 DEF NoRequest, Calls
  <2>1. NoExit /\ Len(handled) >= scanned + 2
    BY <1>1, <1>4 DEF Turns
  <2>2. Turns'
    BY <1>0, <1>1, <1>4, <2>1, <2>0 DEF Turns, InTurn, Settled
  <2>3. pending'.call \in Place(Len(handled) + 1)
    BY <1>0, <1>1, <1>4, <2>1 DEF Place
  <2>4. \A request \in inFlight : request.call = "finish"
    BY <1>4, <2>1 DEF Turns, NoExit
  <2>5. Flight'
    BY <1>1, <1>4, <2>1, <2>3, <2>4 DEF Flight, Place, NoExit
  <2> QED
    BY <1>2, <2>2, <2>5
<1> QED
  BY <1>3, <1>4

\* An answer is read when its request is no longer on its way, or is given up with
\* the run; only finish is given up alone.
LEMMA ReadOrder ==
  ASSUME TypeOK, Asked, Turns, Flight, RecordedInOrder, ReadReply
  PROVE  Turns' /\ Flight' /\ RecordedInOrder'
<1>0. /\ scanned \in Nat /\ Len(handled) \in Nat /\ NoRequest \notin inFlight
  BY Counts
<1>1. /\ worker \in Calls /\ reply # "none" /\ pending' = NoRequest /\ reply' = "none"
      /\ UNCHANGED <<scanned, handled, inFlight>>
  BY DEF ReadReply, scannerVars
<1>2. Flight' /\ RecordedInOrder'
  BY <1>1 DEF Flight, RecordedInOrder, Place
<1>3. \/ worker' = "return"
      \/ worker = "init" /\ worker' = "pty" /\ reply = "ok"
      \/ worker \in {"start", "output"} /\ worker' = "scan" /\ reply = "ok"
      \/ worker = "finish" /\ worker' = "wait"
  BY DEF ReadReply, Return, Continue, Fatal, Calls, TypeOK
<1>4. CASE worker' = "return"
  BY <1>2, <1>4 DEF Turns, InTurn
<1>5. CASE reply = "ok" /\ worker \in {"init", "start", "output"} /\ worker' # "return"
  <2>1. inFlight = {} /\ Len(handled) = Settled + 1 /\ NoExit
    BY <1>0, <1>5 DEF Turns, InTurn, Settled
  <2>2. worker' \in {"pty", "scan"} /\ Settled' = Settled + 1
    <3>1. CASE worker = "init"
      BY <1>3, <1>5, <3>1 DEF Settled
    <3>2. CASE worker = "start"
      BY <1>1, <1>3, <1>5, <3>2 DEF Settled, Turns
    <3>3. CASE worker = "output"
      BY <1>0, <1>1, <1>3, <1>5, <3>3 DEF Settled
    <3> QED
      BY <1>5, <3>1, <3>2, <3>3
  <2>3. worker' = "pty" => scanned = 0
    BY <1>3, <1>5, <2>2 DEF Turns
  <2> QED
    BY <1>0, <1>1, <1>2, <2>1, <2>2, <2>3 DEF Turns, InTurn, NoExit
<1>6. CASE worker = "finish" /\ worker' = "wait"
  <2>1. NoExit /\ Len(handled) >= scanned + 2
    BY <1>0, <1>6 DEF Turns, InTurn, Settled
  <2>2. \A request \in inFlight : request.call = "finish"
    BY <1>1, <1>6 DEF Turns, InTurn, Asked
  <2> QED
    BY <1>1, <1>2, <1>6, <2>1, <2>2 DEF Turns, InTurn, NoExit
<1> QED
  BY <1>2, <1>3, <1>4, <1>5, <1>6

\* The worker moves on without a call: the places it comes to fit what the hub has.
LEMMA MoveOrder ==
  ASSUME TypeOK, Channel, Asked, Turns, Flight, RecordedInOrder,
         Setup \/ StartCommand \/ ScanTooLong \/ ScanEnds \/ Publish \/ Wait \/ Assign
           \/ ParseArguments
  PROVE  Turns' /\ Flight' /\ RecordedInOrder'
<1>0. /\ scanned \in Nat /\ Len(handled) \in Nat /\ NoRequest \notin inFlight
  BY Counts
<1>1. UNCHANGED <<scanned, pending, reply, inFlight, handled>>
  BY DEF Setup, StartCommand, ScanTooLong, ScanEnds, Publish, Wait, Assign, ParseArguments,
     scannerVars, networkVars
<1>2. Flight' /\ RecordedInOrder'
  BY <1>1 DEF Flight, RecordedInOrder, Place
<1>3. /\ worker \notin Calls
      /\ \/ worker' \in {"return", "done"} \/ worker' = worker
         \/ worker \in {"unstarted", "setup"} /\ worker' \in {"setup", "init"}
         \/ worker = "pty" /\ worker' = "start"
         \/ worker = "scan" /\ worker' = "finish"
         \/ worker = "publish" /\ worker' = "output"
         \/ worker = "wait" /\ worker' = "exit"
  BY DEF Setup, Return, StartCommand, ScanTooLong, ScanEnds, Publish, Wait, Assign,
     ParseArguments, Channel, Calls
<1>4. pending = NoRequest /\ reply = "none"
  BY <1>3 DEF Asked
<1>5. CASE worker' \in {"return", "done"} \/ worker' = worker
  BY <1>1, <1>2, <1>5 DEF Turns, InTurn, Settled, NoExit
<1>6. CASE worker = "wait" /\ worker' = "exit"
  BY <1>1, <1>2, <1>6 DEF Turns, InTurn, NoExit
<1>7. CASE worker \in InTurn /\ worker' \in InTurn /\ Settled' = Settled
           /\ (worker' \in {"publish", "output"} => worker = "publish")
           /\ (worker' \in {"unstarted", "setup", "init", "pty", "start"} =>
                worker \in {"unstarted", "setup", "init", "pty", "start"})
  BY <1>0, <1>1, <1>2, <1>4, <1>7 DEF Turns, InTurn, NoExit
<1> QED
  BY <1>1, <1>2, <1>3, <1>5, <1>6, <1>7 DEF InTurn, Settled

\* A line is scanned when the hub has all the lines before it.
LEMMA ScanOrder ==
  ASSUME TypeOK, Asked, Turns, Flight, RecordedInOrder, ScanLine
  PROVE  Turns' /\ Flight' /\ RecordedInOrder'
<1>0. /\ scanned \in Nat /\ Len(handled) \in Nat /\ NoRequest \notin inFlight
  BY Counts
<1>1. /\ worker = "scan" /\ worker' = "publish" /\ scanned' = scanned + 1
      /\ UNCHANGED <<pending, reply, inFlight, handled>>
  BY DEF ScanLine, networkVars
<1>2. pending = NoRequest /\ reply = "none"
  BY <1>1 DEF Asked, Calls
<1>3. inFlight = {} /\ Len(handled) = scanned + 2 /\ NoExit
  BY <1>0, <1>1, <1>2 DEF Turns, InTurn, Settled
<1>4. RecordedInOrder'
  BY <1>0, <1>1, <1>3, PlaceKept
<1>5. Flight'
  BY <1>1, <1>3 DEF Flight
<1>6. Turns'
  BY <1>0, <1>1, <1>2, <1>3 DEF Turns, InTurn, Settled, NoExit
<1> QED
  BY <1>4, <1>5, <1>6

\* The hub handles a request: it takes the next place, and what is still on its way
\* can only be the other of finish and exit.
LEMMA HandleOrder ==
  ASSUME TypeOK, Asked, Turns, Flight, RecordedInOrder,
         NEW request \in inFlight, Handle(request)
  PROVE  Turns' /\ Flight' /\ RecordedInOrder'
<1>0. /\ scanned \in Nat /\ Len(handled) \in Nat /\ NoRequest \notin inFlight
  BY Counts
<1>1. /\ inFlight' = inFlight \ {request}
      /\ UNCHANGED <<worker, scanned, pending>>
      /\ reply' = "ok" => reply = "ok" \/ pending = request
  BY DEF Handle, Answer, goroutineVars, scannerVars
<1>2. /\ DOMAIN handled = 1..Len(handled)
      /\ Len(handled') = Len(handled) + 1
      /\ DOMAIN handled' = 1..(Len(handled) + 1)
      /\ \A i \in DOMAIN handled : handled'[i] = handled[i]
      /\ handled'[Len(handled) + 1] = request
  BY HandledAppended
<1>3. /\ request.call \in Place(Len(handled) + 1)
      /\ request.call = "output" => request.line = Len(handled) - 1
      /\ request.call # "output" => \A i \in DOMAIN handled : handled[i].call # request.call
  BY DEF Flight
<1>4. \A i : Place(i)' = Place(i)
  BY <1>1 DEF Place
<1>5. RecordedInOrder'
  <2>1. ASSUME NEW i \in DOMAIN handled'
        PROVE  /\ handled'[i].call \in Place(i)
               /\ handled'[i].call = "output" => handled'[i].line = i - 2
    BY <1>0, <1>2, <1>3, <2>1 DEF RecordedInOrder
  <2>2. ASSUME NEW i \in DOMAIN handled', NEW j \in DOMAIN handled',
               handled'[i].call = handled'[j].call
        PROVE  i = j \/ handled'[i].call = "output"
    BY <1>0, <1>2, <1>3, <2>2 DEF RecordedInOrder
  <2> QED
    BY <1>4, <2>1, <2>2 DEF RecordedInOrder
<1>6. Flight'
  <2> SUFFICES ASSUME NEW other \in inFlight', inFlight' \subseteq inFlight
               PROVE  /\ other.call \in Place(Len(handled) + 2)
                      /\ other.call = "output" => other.line = Len(handled)
                      /\ other.call # "output" =>
                           \A i \in DOMAIN handled' : handled'[i].call # other.call
    BY <1>0, <1>1, <1>2, <1>4 DEF Flight
  <2>1. /\ other # request /\ other \in inFlight
        /\ other.call \in {"finish", "exit"} /\ other.call # request.call
    BY <1>1 DEF Flight
  <2>2. other.call \in Place(Len(handled) + 1)
        /\ \A i \in DOMAIN handled : handled[i].call # other.call
    BY <2>1 DEF Flight
  <2>3. other.call \in Place(Len(handled) + 2)
    BY <1>0, <2>1, <2>2 DEF Place
  <2> QED
    BY <1>0, <1>2, <2>1, <2>2, <2>3
<1>7. Turns'
  <2>1. CASE worker \in InTurn
    <3>1. request = pending /\ pending # NoRequest /\ Len(handled) = Settled
      BY <1>0, <2>1 DEF Turns
    <3>2. inFlight' = {} /\ Settled' = Settled /\ Settled \in Nat
      BY <1>0, <1>1, <2>1, <3>1 DEF Turns, Settled
    <3>3. NoExit'
      <4>1. NoExit /\ request.call # "exit"
        BY <2>1 DEF Turns, NoExit
      <4> QED
        BY <1>0, <1>2, <3>2, <4>1 DEF NoExit
    <3> QED
      BY <1>1, <1>2, <2>1, <3>1, <3>2, <3>3 DEF Turns, InTurn
  <2>2. CASE worker \in {"wait", "exit"}
    <3>1. NoExit => NoExit'
      BY <1>0, <1>1, <1>2 DEF NoExit
    <3> QED
      BY <1>0, <1>1, <1>2, <2>2, <3>1 DEF Turns, InTurn
  <2>3. CASE worker \notin InTurn \cup {"wait", "exit"}
    BY <1>1, <2>3 DEF Turns, InTurn
  <2> QED
    BY <2>1, <2>2, <2>3
<1> QED
  BY <1>5, <1>6, <1>7

\* A request is refused or lost, a call times out, or nothing happens to the calls.
LEMMA OtherOrder ==
  ASSUME TypeOK, Asked, Turns, Flight, RecordedInOrder,
         \/ \E request \in inFlight : Refuse(request)
         \/ Timeout \/ PrintLine \/ RangeEnds \/ Exit \/ CommandStep \/ UNCHANGED vars
  PROVE  Turns' /\ Flight' /\ RecordedInOrder'
<1>1. /\ inFlight' \subseteq inFlight
      /\ UNCHANGED <<worker, scanned, pending, handled>>
      /\ reply' = "ok" => reply = "ok"
  BY DEF Refuse, Answer, Timeout, PrintLine, RangeEnds, Exit, CommandStep, WriteLine,
     CloseTerminal, CommandExits, vars, goroutineVars, scannerVars, commandVars, networkVars
<1>2. Flight' /\ RecordedInOrder'
  BY <1>1 DEF Flight, RecordedInOrder, Place
<1>3. NoExit => NoExit'
  BY <1>1 DEF NoExit
<1> QED
  BY <1>1, <1>2, <1>3 DEF Turns, InTurn, Settled

-----------------------------------------------------------------------------
\* The theorems

\* Every step keeps the invariant.
LEMMA NextInv == Inv /\ [Next]_vars => Inv'
<1> SUFFICES ASSUME Inv, [Next]_vars PROVE Inv'
  OBVIOUS
<1>0. TypeOK /\ Channel /\ Asked /\ Ends /\ Turns /\ Flight /\ RecordedInOrder
  BY DEF Inv
<1>1. Next \/ UNCHANGED vars
  OBVIOUS
<1>2. ProcessTyped' /\ Channel'
  BY <1>0, <1>1, WorkerChannel, OtherChannel DEF Next, Terminated
<1>3. OutsideTyped'
  BY <1>0, <1>1, OutsideStep
<1>4. TypeOK'
  <2>1. closes' \in 0..1
    BY <1>2 DEF Channel
  <2> QED
    BY <1>2, <1>3, <2>1 DEF TypeOK, ProcessTyped, OutsideTyped
<1>5. Asked' /\ Ends'
  BY <1>0, <1>1, AskedStep, EndsStep
<1>6. Turns' /\ Flight' /\ RecordedInOrder'
  <2>1. CASE \E request \in inFlight : Handle(request)
    BY <1>0, <2>1, HandleOrder
  <2>2. CASE WorkerStep
    BY <1>0, <2>2, SendOrder, ReadOrder, MoveOrder, ScanOrder DEF WorkerStep
  <2>3. CASE ~WorkerStep /\ ~(\E request \in inFlight : Handle(request))
    BY <1>0, <1>1, <2>3, MoveOrder, OtherOrder DEF Next, HubStep, MainStep, Terminated
  <2> QED
    BY <2>1, <2>2, <2>3
<1> QED
  BY <1>2, <1>3, <1>4, <1>5, <1>6 DEF Inv

\* The invariant holds of every run.
LEMMA InvHolds == Spec => []Inv
BY InitInv, NextInv, PTL DEF Spec

\* The types hold for any lines and statuses of the command; in particular no way
\* out of Command closes the channel twice (run.go:60-166).
THEOREM ClientTypeCorrect == Spec => []TypeOK
BY InvHolds, PTL DEF Inv

\* What the hub stores of a run is a prefix of the run, whatever the terminal and
\* the network do (run.go:60-166).
THEOREM RunsAreRecordedInOrder == Spec => []RecordedInOrder
BY InvHolds, PTL DEF Inv

\* When the hub has an exit status it has all the lines of the command, and the
\* status is its own (run.go:110-166).
THEOREM ExitsAreComplete == Spec => []ExitMeansComplete
<1>1. Inv => ExitMeansComplete
  <2> SUFFICES ASSUME Inv, NEW i \in DOMAIN handled, handled[i].call = "exit"
               PROVE  /\ command = "exited" /\ handled[i].status = Reported(status)
                      /\ \A line \in 1..written :
                           \E j \in 1..i : handled[j].call = "output" /\ handled[j].line = line
    BY DEF ExitMeansComplete
  <2>1. Final(handled[i])
    BY DEF Inv, Ends
  <2>2. /\ scanned \in Nat /\ Len(handled) \in Nat /\ DOMAIN handled = 1..Len(handled)
    BY Counts DEF Inv
  <2>3. i > scanned + 2
    BY <2>2 DEF Inv, RecordedInOrder, Place
  <2>4. ASSUME NEW line \in 1..written
        PROVE  /\ line + 2 \in 1..i /\ handled[line + 2].call = "output"
               /\ handled[line + 2].line = line
    <3>1. line + 2 \in DOMAIN handled /\ line + 2 \in 1..i /\ line + 2 <= scanned + 2
      BY <2>1, <2>2, <2>3 DEF Final
    <3>2. Place(line + 2) = {"output"}
      BY <2>2, <3>1 DEF Place
    <3> QED
      BY <3>1, <3>2 DEF Inv, RecordedInOrder
  <2> QED
    BY <2>1, <2>4 DEF Final
<1> QED
  BY <1>1, InvHolds, PTL

\* Main prints every line that was handed to it before it leaves, and none is handed
\* over once the channel is closed (commands/run.go:22-48).
THEOREM LinesArePrinted == Spec => []PrintsBeforeExit
<1>1. Inv => PrintsBeforeExit
  BY DEF Inv, TypeOK, Channel, PrintsBeforeExit
<1> QED
  BY <1>1, InvHolds, PTL

-----------------------------------------------------------------------------
\* The refinement

\* How often the hub has handled a call.
Count(call) == Cardinality({i \in DOMAIN handled : handled[i].call = call})

\* A count is a number, which is positive when the call has been handled.
LEMMA CountPositive ==
  ASSUME TypeOK, NEW call
  PROVE  /\ Count(call) \in Nat
         /\ Count(call) = 0 <=> \A i \in DOMAIN handled : handled[i].call # call
<1> DEFINE S == {i \in DOMAIN handled : handled[i].call = call}
<1>1. IsFiniteSet(DOMAIN handled)
  BY Counts, FS_Interval
<1>2. IsFiniteSet(S)
  BY <1>1, FS_Subset
<1>3. Cardinality(S) \in Nat /\ (Cardinality(S) = 0 <=> S = {})
  BY <1>2, FS_CardinalityType, FS_EmptySet
<1> QED
  BY <1>3 DEF Count

\* A request that the hub handles is counted once, and no other call is.
LEMMA CountHandled ==
  ASSUME TypeOK, NEW request \in inFlight, Handle(request), NEW call
  PROVE  Count(call)' = IF call = request.call THEN Count(call) + 1 ELSE Count(call)
<1> DEFINE S == {i \in DOMAIN handled : handled[i].call = call}
           n == Len(handled) + 1
<1>1. /\ Len(handled) \in Nat /\ DOMAIN handled = 1..Len(handled)
      /\ DOMAIN handled' = 1..n
      /\ \A i \in DOMAIN handled : handled'[i] = handled[i]
      /\ handled'[n] = request
  BY HandledAppended
<1>2. S' = IF call = request.call THEN S \cup {n} ELSE S
  BY <1>1
<1>3. IsFiniteSet(S) /\ n \notin S
  <2>1. IsFiniteSet(DOMAIN handled)
    BY <1>1, FS_Interval
  <2> QED
    BY <1>1, <2>1, FS_Subset
<1>4. Cardinality(S \cup {n}) = Cardinality(S) + 1
  BY <1>3, FS_AddElement
<1>5. Cardinality(S') = IF call = request.call THEN Cardinality(S) + 1 ELSE Cardinality(S)
  BY <1>2, <1>4
<1> QED
  BY <1>5 DEF Count

\* The record of the calls is the journal that the refinement maps the client to.
Stored == [call \in Calls |-> Count(call)]

\* What is still on its way may be stored next.
LEMMA MayBeStored ==
  ASSUME Inv, NEW request \in inFlight
  PROVE  JournalOfClient!May(Stored, request.call)
<1>0. TypeOK /\ Turns /\ Flight /\ RecordedInOrder
  BY DEF Inv
<1>1. /\ scanned \in Nat /\ Len(handled) \in Nat /\ DOMAIN handled = 1..Len(handled)
  BY <1>0, Counts
<1>2. /\ request.call \in Place(Len(handled) + 1) /\ request.call \in Calls
      /\ request.call # "output" => \A i \in DOMAIN handled : handled[i].call # request.call
  BY <1>0, InFlightTyped DEF Flight
<1>3. \A call \in Calls :
        /\ Stored[call] \in Nat
        /\ Stored[call] = 0 <=> \A i \in DOMAIN handled : handled[i].call # call
  BY <1>0, CountPositive DEF Stored
<1>4. request.call # "output" => Stored[request.call] = 0
  BY <1>2, <1>3
<1>5. \A i \in DOMAIN handled : handled[i].call \in Place(i)
  BY <1>0 DEF RecordedInOrder
<1>6. request.call # "init" => Stored["init"] > 0
  <2>1. request.call # "init" => 1 \in DOMAIN handled
    BY <1>1, <1>2 DEF Place
  <2>2. 1 \in DOMAIN handled => handled[1].call = "init"
    BY <1>5 DEF Place
  <2> QED
    BY <1>3, <2>1, <2>2 DEF Calls
<1>7. request.call \in {"output", "finish", "exit"} => Stored["start"] > 0
  <2>1. request.call \in {"output", "finish", "exit"} => 2 \in DOMAIN handled
    BY <1>1, <1>2 DEF Place
  <2>2. 2 \in DOMAIN handled => handled[2].call = "start"
    BY <1>5 DEF Place
  <2> QED
    BY <1>3, <2>1, <2>2 DEF Calls
<1>8. request.call = "output" => Stored["finish"] = 0 /\ Stored["exit"] = 0
  <2>1. request.call = "output" => Len(handled) < scanned + 2
    BY <1>1, <1>2 DEF Place
  <2>2. request.call = "output" =>
          \A i \in DOMAIN handled : handled[i].call \notin {"finish", "exit"}
    BY <1>1, <1>5, <2>1 DEF Place
  <2> QED
    BY <1>3, <2>2 DEF Calls
<1> QED
  BY <1>2, <1>4, <1>6, <1>7, <1>8 DEF JournalOfClient!May, Calls

\* A request that the hub handles is a step of the journal.
LEMMA HandleIsJournal ==
  ASSUME Inv, NEW request \in inFlight, Handle(request)
  PROVE  \E call \in JournalOfClient!Calls :
           /\ JournalOfClient!May(Stored, call)
           /\ Stored' = JournalOfClient!Noted(Stored, call)
<1>1. request.call \in Calls
  BY InFlightTyped DEF Inv
<1>2. \A call : Count(call)' = IF call = request.call THEN Count(call) + 1 ELSE Count(call)
  BY CountHandled DEF Inv
<1>3. Stored' = [Stored EXCEPT ![request.call] = @ + 1]
  BY <1>1, <1>2 DEF Stored
<1>4. JournalOfClient!May(Stored, request.call)
  BY MayBeStored
<1> QED
  BY <1>1, <1>3, <1>4 DEF JournalOfClient!Calls, JournalOfClient!Noted, Calls

\* The client implements Journal: the hub handles each call at most once, in the order
\* Journal allows, whatever times out and however late it comes (run.go:60-166).
THEOREM ClientKeepsJournal == Spec => KeepsJournal
<1>1. Init => JournalOfClient!Init
  <2> SUFFICES ASSUME Init PROVE Stored = [call \in Calls |-> 0]
    BY DEF JournalOfClient!Init, JournalOfClient!Blank, JournalOfClient!Calls, Calls,
       Stored, Count
  <2>1. DOMAIN handled = {} /\ TypeOK
    BY InitInv DEF Init, Inv
  <2>2. \A call : Count(call) = 0
    BY <2>1, CountPositive
  <2> QED
    BY <2>2 DEF Stored
<1>2. Inv /\ [Next]_vars => JournalOfClient!Next \/ UNCHANGED Stored
  <2> SUFFICES ASSUME Inv, Next \/ UNCHANGED vars
               PROVE  JournalOfClient!Next \/ UNCHANGED Stored
    OBVIOUS
  <2>1. CASE \E request \in inFlight : Handle(request)
    BY <2>1, HandleIsJournal DEF JournalOfClient!Next, Stored, Count
  <2>2. CASE ~\E request \in inFlight : Handle(request)
    <3>1. UNCHANGED handled
      BY <2>2 DEF Next, WorkerStep, Setup, SendRequest, ReadReply, StartCommand, ScanLine,
         ScanTooLong, ScanEnds, Publish, Wait, Assign, MainStep, ParseArguments, PrintLine,
         RangeEnds, Exit, CommandStep, WriteLine, CloseTerminal, CommandExits, HubStep,
         Refuse, Timeout, Terminated, vars, networkVars
    <3> QED
      BY <3>1 DEF Stored, Count
  <2> QED
    BY <2>1, <2>2
<1>3. Inv /\ [Next]_vars => [JournalOfClient!Next]_Stored
  BY <1>2
<1> QED
  BY <1>1, <1>3, InvHolds, PTL DEF Spec, KeepsJournal, JournalOfClient!Spec, Stored, Count

=============================================================================
