------------------------------ MODULE Progress ------------------------------
(***************************************************************************)
(* What the sidebar and the page of an execution promise to whoever looks: *)
(* the abstract specification of the hub and its clients together.         *)
(*                                                                         *)
(* An execution appears as running, its lines come while it runs, it turns *)
(* successful or failed, and nothing brings back what has gone by.         *)
(***************************************************************************)
EXTENDS Integers

CONSTANT Ids      \* ids that executions may have

VARIABLES
  shown,  \* for each execution on the pages, its label and how many lines
  ever    \* the ids that have been on the pages

Labels == {"Running", "Successful", "Failed"}

Turns == {<<"Running", "Successful">>, <<"Running", "Failed">>, <<"Successful", "Failed">>}

Begin(id) ==
  /\ id \notin ever /\ ever' = ever \cup {id}
  /\ shown' = [i \in DOMAIN shown \cup {id} |->
                 IF i = id THEN [label |-> "Running", lines |-> 0] ELSE shown[i]]

Line(id) ==
  /\ shown[id].label = "Running"
  /\ shown' = [shown EXCEPT ![id].lines = @ + 1]
  /\ UNCHANGED ever

Turn(id, label) ==
  /\ <<shown[id].label, label>> \in Turns
  /\ shown' = [shown EXCEPT ![id].label = label]
  /\ UNCHANGED ever

\* Executions are deleted with their lines, alone or with a job or a host.
Delete(ids) ==
  /\ shown' = [i \in DOMAIN shown \ ids |-> shown[i]]
  /\ UNCHANGED ever

Init == DOMAIN shown = {} /\ ever = {}

Next ==
  \/ \E id \in Ids : Begin(id)
  \/ \E id \in DOMAIN shown : Line(id)
  \/ \E id \in DOMAIN shown, label \in Labels : Turn(id, label)
  \/ \E ids \in SUBSET DOMAIN shown : Delete(ids)

Spec == Init /\ [][Next]_<<shown, ever>>
=============================================================================
