------------------------------- MODULE Client -------------------------------
(***************************************************************************)
(* One `minicron run COMMAND`: the Go process that runs a cron job's       *)
(* command under a pseudo terminal and reports it to the hub.              *)
(*                                                                         *)
(* Two goroutines share the unbuffered channel `output` and the variable   *)
(* exitStatus.  The worker (run.Command) calls the API, starts the         *)
(* command, scans its lines and hands each to main, which prints them and  *)
(* leaves when the channel is closed, whatever the worker is doing then.   *)
(*                                                                         *)
(* A call to the API is a request on its way and a reply.  Its 15 seconds  *)
(* may pass at any time before the reply is read: the request, or what the *)
(* hub did with it, is still there.  Requests are never sent again.        *)
(***************************************************************************)
EXTENDS Integers, Sequences, FiniteSets

CONSTANTS
  ExitStatuses,    \* statuses the command may exit with, of 0..255
  Killed,          \* status of a command that a signal ended
  HangupIsError,   \* reading a terminal that has hung up is an error (EIO)
  AlertsEnabled,   \* some alert medium is enabled in the hub's configuration
  MaxLines,        \* bound on the lines the command writes
  TerminalLines    \* written lines the terminal holds before the writer blocks

ASSUME StatusesAssumption ==
  /\ ExitStatuses \subseteq 0..255
  /\ Killed \notin ExitStatuses
ASSUME ClientAssumption ==
  /\ HangupIsError \in BOOLEAN /\ AlertsEnabled \in BOOLEAN
  /\ MaxLines \in Nat /\ TerminalLines \in Nat \ {0}

VARIABLES
  main,        \* where the main goroutine is
  worker,      \* where the goroutine that runs run.Command is
  result,      \* what run.Command returns: exit status, and whether an error
  exitStatus,  \* the variable the goroutines share
  closes,      \* how often the channel output has been closed
  scanned,     \* lines the scanner has read
  scanError,   \* scanner.Err() # nil
  printed,     \* lines main has printed
  command,     \* the shell `sh -c`: "none", "running" or "exited"
  status,      \* how the shell ended, once it has
  written,     \* lines the command and its children have written
  hungUp,      \* no process is left that holds the terminal
  pending,     \* the request the worker waits for
  reply,       \* the reply it will read
  inFlight,    \* requests the hub has not handled
  handled,     \* requests the hub has handled, in order
  code         \* exit code of the process, once main is gone

goroutineVars == <<main, worker, result, exitStatus, closes, printed>>
scannerVars == <<scanned, scanError>>
commandVars == <<command, status, written, hungUp>>
networkVars == <<pending, reply, inFlight, handled>>
vars == <<goroutineVars, scannerVars, commandVars, networkVars, code>>

Calls == {"init", "start", "output", "finish", "exit"}

Request == [call : Calls, line : 0..MaxLines, status : Int]
NoRequest == [call |-> "none", line |-> 0, status |-> 0]

\* WaitStatus.ExitStatus() of the command.
Reported(s) == IF s = Killed THEN -1 ELSE s

\* What the shell sees of os.Exit(n).
ExitCode(n) == n % 256

Working == main # "gone"

-----------------------------------------------------------------------------
\* The worker: run.Command

\* Faulty variant: no return after the close that a failed exit call makes.
Return_twice(s, error) ==
  /\ closes' = IF error /\ worker = "exit" THEN closes + 2 ELSE closes + 1
  /\ result' = [status |-> s, error |-> error]
  /\ worker' = "return"

\* Faulty variant: an error path that leaves the channel open.
Return_unclosed(s, error) ==
  /\ closes' = IF error THEN closes ELSE closes + 1
  /\ result' = [status |-> s, error |-> error]
  /\ worker' = "return"

\* Every way out closes the channel before Command returns.
Return(s, error) ==
  /\ closes' = closes + 1
  /\ result' = [status |-> s, error |-> error]
  /\ worker' = "return"

\* os.Hostname, user.Current and api.GetClient
Setup ==
  /\ worker = "setup"
  /\ \/ worker' = "init" /\ UNCHANGED <<closes, result>>
     \/ Return(0, TRUE)
  /\ UNCHANGED <<main, exitStatus, printed, scannerVars, commandVars,
                 networkVars, code>>

SendRequest ==
  LET request == [call |-> worker,
                  line |-> IF worker = "output" THEN scanned ELSE 0,
                  status |-> IF worker = "exit" THEN result.status ELSE 0]
  IN  /\ worker \in Calls /\ pending = NoRequest
      /\ pending' = request
      /\ inFlight' = inFlight \cup {request}
      /\ UNCHANGED <<goroutineVars, scannerVars, commandVars, reply, handled, code>>

\* Faulty variant: a line that could not be sent is skipped.
Fatal_lenient(call) == call \in {"init", "start", "exit"}

\* The calls whose error ends Command.
Fatal(call) == call # "finish"

\* What follows the call once it has succeeded, or failed without ending it.
Continue(call) ==
  CASE call = "init" -> worker' = "pty" /\ UNCHANGED <<closes, result>>
    [] call \in {"start", "output"} ->
         worker' = "scan" /\ UNCHANGED <<closes, result>>
    [] call = "finish" ->
         IF scanError THEN Return(0, TRUE)
                      ELSE worker' = "wait" /\ UNCHANGED <<closes, result>>
    [] call = "exit" -> Return(result.status, FALSE)

\* Faulty variant: an exit that was answered by an error is sent again.
ReadReply_again ==
  /\ worker \in Calls /\ reply # "none"
  /\ IF reply = "error" /\ worker = "exit" THEN UNCHANGED <<worker, closes, result>>
       ELSE IF reply = "error" /\ Fatal(worker) THEN Return(0, TRUE) ELSE Continue(worker)
  /\ pending' = NoRequest /\ reply' = "none"
  /\ UNCHANGED <<main, exitStatus, printed, scannerVars, commandVars,
                 inFlight, handled, code>>

ReadReply ==
  /\ worker \in Calls /\ reply # "none"
  /\ IF reply = "error" /\ Fatal(worker) THEN Return(0, TRUE) ELSE Continue(worker)
  /\ pending' = NoRequest /\ reply' = "none"
  /\ UNCHANGED <<main, exitStatus, printed, scannerVars, commandVars,
                 inFlight, handled, code>>

\* pty.Start
StartCommand ==
  /\ worker = "pty"
  /\ \/ /\ worker' = "start" /\ command' = "running"
        /\ UNCHANGED <<closes, result>>
     \/ Return(0, TRUE) /\ UNCHANGED command
  /\ UNCHANGED <<main, exitStatus, printed, scannerVars, status, written,
                 hungUp, networkVars, code>>

\* Faulty variant: a line is dropped while main is busy printing.
ScanLine_dropping ==
  /\ worker = "scan" /\ scanned < written
  /\ scanned' = scanned + 1
  /\ worker' = IF main = "range" THEN "publish" ELSE "output"
  /\ UNCHANGED <<main, result, exitStatus, closes, printed, scanError,
                 commandVars, networkVars, code>>

ScanLine ==
  /\ worker = "scan" /\ scanned < written
  /\ scanned' = scanned + 1
  /\ worker' = "publish"
  /\ UNCHANGED <<main, result, exitStatus, closes, printed, scanError,
                 commandVars, networkVars, code>>

\* A line over bufio.MaxScanTokenSize stops the scanner.
ScanTooLong ==
  /\ worker = "scan" /\ scanned < written
  /\ scanError' = TRUE
  /\ worker' = "finish"
  /\ UNCHANGED <<main, result, exitStatus, closes, printed, scanned,
                 commandVars, networkVars, code>>

ScanEnds ==
  /\ worker = "scan" /\ scanned = written /\ hungUp
  /\ scanError' = HangupIsError
  /\ worker' = "finish"
  /\ UNCHANGED <<main, result, exitStatus, closes, printed, scanned,
                 commandVars, networkVars, code>>

\* output <- line meets main's receive: the channel has no buffer.
Publish ==
  /\ worker = "publish" /\ main = "range"
  /\ worker' = "output" /\ main' = "print"
  /\ UNCHANGED <<result, exitStatus, closes, printed, scannerVars,
                 commandVars, networkVars, code>>

\* Faulty variant: the status is taken when the output ends; a process that is
\* not waited for reports -1.
Wait_skipped ==
  /\ worker = "wait"
  /\ result' = [result EXCEPT !.status =
                  IF command = "exited" THEN Reported(status) ELSE -1]
  /\ worker' = "exit"
  /\ UNCHANGED <<main, exitStatus, closes, printed, scannerVars, commandVars,
                 networkVars, code>>

\* cmd.Wait
Wait ==
  /\ worker = "wait" /\ command = "exited"
  /\ result' = [result EXCEPT !.status = Reported(status)]
  /\ worker' = "exit"
  /\ UNCHANGED <<main, exitStatus, closes, printed, scannerVars, commandVars,
                 networkVars, code>>

\* The assignment of what Command returned, after it has closed the channel.
Assign ==
  /\ worker = "return"
  /\ exitStatus' = result.status
  /\ worker' = "done"
  /\ UNCHANGED <<main, result, closes, printed, scannerVars, commandVars,
                 networkVars, code>>

WorkerStep ==
  /\ Working
  /\ \/ Setup \/ SendRequest \/ ReadReply \/ StartCommand
     \/ ScanLine \/ ScanTooLong \/ ScanEnds \/ Publish \/ Wait \/ Assign

-----------------------------------------------------------------------------
\* The main goroutine

\* run.Parse; log.Fatal exits with 1.
ParseArguments ==
  /\ main = "parse"
  /\ \/ main' = "range" /\ worker' = "setup" /\ UNCHANGED code
     \/ main' = "gone" /\ code' = 1 /\ UNCHANGED worker
  /\ UNCHANGED <<result, exitStatus, closes, printed, scannerVars,
                 commandVars, networkVars>>

PrintLine ==
  /\ main = "print"
  /\ printed' = printed + 1
  /\ main' = "range"
  /\ UNCHANGED <<worker, result, exitStatus, closes, scannerVars,
                 commandVars, networkVars, code>>

RangeEnds ==
  /\ main = "range" /\ closes > 0
  /\ main' = "exit"
  /\ UNCHANGED <<worker, result, exitStatus, closes, printed, scannerVars,
                 commandVars, networkVars, code>>

\* os.Exit with the value exitStatus has by now.
Exit ==
  /\ main = "exit"
  /\ code' = ExitCode(exitStatus)
  /\ main' = "gone"
  /\ UNCHANGED <<worker, result, exitStatus, closes, printed, scannerVars,
                 commandVars, networkVars>>

MainStep == ParseArguments \/ PrintLine \/ RangeEnds \/ Exit

-----------------------------------------------------------------------------
\* The command, on the other side of the terminal: the shell, which the client
\* waits for, and the children it leaves in the background, which may hold the
\* terminal open and write to it for as long as they like.

WriteLine ==
  /\ command # "none" /\ ~hungUp /\ Working
  /\ written < MaxLines /\ written - scanned < TerminalLines
  /\ written' = written + 1
  /\ UNCHANGED <<goroutineVars, scannerVars, command, status, hungUp,
                 networkVars, code>>

CloseTerminal ==
  /\ command # "none" /\ ~hungUp
  /\ hungUp' = TRUE
  /\ UNCHANGED <<goroutineVars, scannerVars, command, status, written,
                 networkVars, code>>

\* On its own, by a signal, or by the hangup that the client's exit causes.  The
\* terminal hangs up with the shell unless a child still holds it.
CommandExits ==
  /\ command = "running"
  /\ command' = "exited" /\ hungUp' \in {hungUp, TRUE}
  /\ status' \in ExitStatuses \cup {Killed}
  /\ UNCHANGED <<goroutineVars, scannerVars, written, networkVars, code>>

CommandStep == WriteLine \/ CloseTerminal \/ CommandExits

-----------------------------------------------------------------------------
\* The hub and the network

Answer(request, answer) ==
  reply' = IF pending = request /\ reply = "none" THEN answer ELSE reply

\* Once the exit status is stored the fail alert raises, when there is a medium
\* to send it with: the request names no job.
AlertRaises(request) ==
  AlertsEnabled /\ request.call = "exit" /\ request.status > 0

Handle(request) ==
  /\ inFlight' = inFlight \ {request}
  /\ handled' = Append(handled, request)
  /\ Answer(request, IF AlertRaises(request) THEN "error" ELSE "ok")
  /\ UNCHANGED <<goroutineVars, scannerVars, commandVars, pending, code>>

\* The handler raises before it writes, or the request never arrives.
Refuse(request) ==
  /\ inFlight' = inFlight \ {request}
  /\ Answer(request, "error")
  /\ UNCHANGED <<goroutineVars, scannerVars, commandVars, pending, handled, code>>

\* http.Client gives up after 15 seconds, the request handled or not.
Timeout ==
  /\ Working /\ pending # NoRequest /\ reply # "error"
  /\ reply' = "error"
  /\ UNCHANGED <<goroutineVars, scannerVars, commandVars, pending, inFlight,
                 handled, code>>

HubStep == \E request \in inFlight : Handle(request) \/ Refuse(request)

-----------------------------------------------------------------------------
Init ==
  /\ main = "parse" /\ worker = "unstarted"
  /\ result = [status |-> 0, error |-> FALSE]
  /\ exitStatus = 0 /\ closes = 0 /\ printed = 0 /\ code = 0
  /\ scanned = 0 /\ scanError = FALSE
  /\ command = "none" /\ status = 0 /\ written = 0 /\ hungUp = FALSE
  /\ pending = NoRequest /\ reply = "none"
  /\ inFlight = {} /\ handled = <<>>

\* The process is gone, its command has ended and no request is on its way.
Terminated ==
  /\ main = "gone" /\ command # "running" /\ inFlight = {}
  /\ UNCHANGED vars

Next == WorkerStep \/ MainStep \/ CommandStep \/ HubStep \/ Timeout \/ Terminated

\* The goroutines are scheduled and the timer of a call fires.  Nothing is
\* assumed of the hub and the network, nor that a command ends or lets go of its
\* terminal.
Fairness == WF_vars(WorkerStep) /\ WF_vars(MainStep) /\ WF_vars(Timeout)

Spec == Init /\ [][Next]_vars /\ Fairness

-----------------------------------------------------------------------------
\* Properties

\* Every variable has its type; in particular the channel is closed at most once
\* over all the ways out of Command: a second close would panic.
TypeOK ==
  /\ main \in {"parse", "range", "print", "exit", "gone"}
  /\ worker \in Calls \cup {"unstarted", "setup", "pty", "scan", "publish",
                            "wait", "return", "done"}
  /\ result \in [status : -1..255, error : BOOLEAN]
  /\ exitStatus \in -1..255 /\ code \in 0..255
  /\ closes \in 0..1
  /\ {scanned, printed, written} \subseteq 0..MaxLines
  /\ scanError \in BOOLEAN /\ hungUp \in BOOLEAN
  /\ command \in {"none", "running", "exited"}
  /\ status \in ExitStatuses \cup {Killed, 0}
  /\ pending \in Request \cup {NoRequest}
  /\ reply \in {"none", "ok", "error"}
  /\ inFlight \subseteq Request
  /\ handled \in Seq(Request)

\* What may be the i-th thing the hub stores of a run.
Place(i) ==
  CASE i = 1 -> {"init"}
    [] i = 2 -> {"start"}
    [] i > 2 /\ i <= scanned + 2 -> {"output"}
    [] OTHER -> {"finish", "exit"}

\* What the hub stores of a run is a prefix of the run: init, start, then the
\* lines that were handed to main, without a gap, a swap or a repetition, and then
\* finish and exit, once each.  Only exit may overtake finish, whose failure
\* Command ignores (run.go:129).
RecordedInOrder ==
  /\ \A i \in DOMAIN handled : handled[i].call \in Place(i)
  /\ \A i \in DOMAIN handled :
       handled[i].call = "output" => handled[i].line = i - 2
  /\ \A i, j \in DOMAIN handled :
       handled[i].call = handled[j].call => i = j \/ handled[i].call = "output"

\* An exit status at the hub is that of a command that has ended, and the hub has
\* every line that it and its children ever write.
ExitMeansComplete ==
  \A i \in DOMAIN handled :
    handled[i].call = "exit" =>
      /\ command = "exited" /\ handled[i].status = Reported(status)
      /\ \A line \in 1..written :
           \E j \in 1..i : handled[j].call = "output" /\ handled[j].line = line

\* Main leaves only after it has printed every line that was handed to it, and
\* no line is handed over once the channel is closed.
PrintsBeforeExit ==
  /\ main \in {"exit", "gone"} => printed = scanned
  /\ closes > 0 => worker \notin {"scan", "publish"}

\* Once the command has ended and nothing holds its terminal any more, or anything
\* went wrong, the process ends: no goroutine is left waiting for the other or for
\* the hub.  The end of the command is not enough: a background child that keeps
\* the terminal open keeps the client in scanner.Scan (run.go:104).
RunEnds ==
  (command = "exited" /\ hungUp) \/ result.error ~> main = "gone"

\* The client implements Journal: whatever the goroutines, the terminal and the
\* network do, the hub handles each of its calls once, in the order Journal allows
\* (run.go:60-166).
JournalOfClient ==
  INSTANCE Journal WITH
    journal <- [call \in Calls |->
                  Cardinality({i \in DOMAIN handled : handled[i].call = call})]

KeepsJournal == JournalOfClient!Spec

\* "Exit with the exit status of the command" (commands/run.go:47).
ExitsWithCommandStatus ==
  main = "gone" /\ worker # "unstarted" /\ command = "exited" /\ ~result.error
    => code = ExitCode(Reported(status))
=============================================================================
