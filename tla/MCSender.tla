------------------------------ MODULE MCSender ------------------------------
(***************************************************************************)
(* Instances of Sender for TLC.  The bound on time is Sender's Horizon.    *)
(***************************************************************************)
EXTENDS Sender

=============================================================================
