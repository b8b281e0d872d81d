--------------------------- MODULE MCSeccompFilter ---------------------------
(***************************************************************************)
(* Groups that overlap, the call that load needs, one group that main does *)
(* not use, and a rule that may be lost.                                   *)
(***************************************************************************)
EXTENDS SeccompFilter

MCKnown == kill_mount \union kill_swap \union {"seccomp", "write"}

MCFlaky == {"write"}

MCRequests == {kill_mount, {"mount", "write"}, kill_swap, {"seccomp"}}

==============================================================================
