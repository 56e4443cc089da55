------------------------------- MODULE Journal -------------------------------
(***************************************************************************)
(* What one run of a command has the hub do: the abstract specification of *)
(* Client.  Of the goroutines, the terminal and the network only the calls *)
(* that the hub has handled are left, in the order it handled them.  A run *)
(* may end after any of them, which here is a step that is never taken.    *)
(***************************************************************************)
EXTENDS Integers

VARIABLE journal  \* for each call, how often the hub has handled it for the run

Calls == {"init", "start", "output", "finish", "exit"}

Blank == [call \in Calls |-> 0]

\* Faulty variant: the lines are sent on after the finish.
May_async(j, call) ==
  CASE call = "init" -> j["init"] = 0
    [] call = "start" -> j["init"] > 0 /\ j["start"] = 0
    [] call = "output" -> j["start"] > 0 /\ j["exit"] = 0
    [] OTHER -> j["start"] > 0 /\ j[call] = 0

\* A call is made once the one before it has been answered, and never again.  Only
\* the answer to finish is not looked at: a finish that is late may come after exit.
May(j, call) ==
  CASE call = "init" -> j["init"] = 0
    [] call = "start" -> j["init"] > 0 /\ j["start"] = 0
    [] call = "output" -> j["start"] > 0 /\ j["finish"] = 0 /\ j["exit"] = 0
    [] OTHER -> j["start"] > 0 /\ j[call] = 0

Noted(j, call) == [j EXCEPT ![call] = @ + 1]

Init == journal = Blank

Next == \E call \in Calls : May(journal, call) /\ journal' = Noted(journal, call)

Spec == Init /\ [][Next]_journal
=============================================================================
