----------------------------- MODULE MCMonitor -----------------------------
(* Instances of Monitor for TLC. *)
EXTENDS Monitor

\* The order in which the configuration lists the media.
EmailThenSlack == <<"email", "slack">>
=============================================================================
