------------------------------- MODULE MCHub -------------------------------
(* Instances of Hub for TLC. *)
EXTENDS Hub, TLC

\* Users, host names, commands and cron expressions are interchangeable.
Symmetry ==
  Permutations(Users) \cup Permutations(Hostnames)
    \cup Permutations(Commands) \cup Permutations(Crons)
=============================================================================
