------------------------------ MODULE MCService ------------------------------
(***************************************************************************)
(* Instances of Service for TLC.  Time is bounded by Sender's Horizon, the *)
(* faults by MaxOutages and MaxKills.                                      *)
(***************************************************************************)
EXTENDS Service

==============================================================================
