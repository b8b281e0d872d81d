---------------------------- MODULE SeccompFilter ----------------------------
(***************************************************************************)
(* The life of one SeccompFilterContext (src/src/seccomp.cpp): a client    *)
(* calls its operations in any order.  A call on a context that is not     *)
(* useable throws and changes nothing, so it is no step here.              *)
(*                                                                         *)
(* libseccomp and the kernel are external: seccomp_load adds the filter to *)
(* those the process already has, and a forbidden call ends the process.   *)
(***************************************************************************)
EXTENDS Seccomp

CONSTANTS
  Requests,   \* the groups of system calls the client names
  Flaky       \* system calls whose rule libseccomp may fail to add

ASSUME RequestsAssumption == Requests \subseteq SUBSET Known

VARIABLES
  ctx,        \* the pointer: "null" or "context"
  allocated,  \* libseccomp has a context in memory
  context,    \* what is in it
  filter,     \* system calls that end the process
  misused     \* libseccomp was given a context that it has released

filterVars == <<ctx, allocated, context, filter, misused>>

Actions == {"ALLOW", "KILL"}

\* What seccomp_load makes the kernel forbid.
Forbids(c) == IF c.default = "ALLOW" THEN c.rules ELSE Known \ c.rules

is_useable == ctx # "null"

\* A call into libseccomp with ctx.
Use == is_useable /\ misused' = (misused \/ ~allocated)

------------------------------------------------------------------------------

FilterInit ==
  /\ \E def_action \in Actions : context = NewContext(def_action)
  /\ ctx = "context" /\ allocated = TRUE
  /\ filter = {}
  /\ misused = FALSE

add_allow(syscalls, lost) ==
  /\ Use
  /\ context' = allow(context, syscalls, lost)
  /\ UNCHANGED <<ctx, allocated, filter>>

add_kill(syscalls, lost) ==
  /\ Use
  /\ context' = KillGroup(context, syscalls, lost)
  /\ UNCHANGED <<ctx, allocated, filter>>

\* load needs the seccomp call itself.
load ==
  /\ Use
  /\ "seccomp" \notin filter
  /\ filter' = filter \union Forbids(context)
  /\ UNCHANGED <<ctx, allocated, context>>

reset(def_action) ==
  /\ Use
  /\ context' = NewContext(def_action)
  /\ UNCHANGED <<ctx, allocated, filter>>

\* Variant: the pointer is not cleared.
release_dangling ==
  /\ Use
  /\ allocated' = FALSE
  /\ UNCHANGED <<ctx, context, filter>>

release ==
  /\ Use
  /\ allocated' = FALSE
  /\ ctx' = "null"
  /\ UNCHANGED <<context, filter>>

FilterNext ==
  \/ \E s \in Requests : \E lost \in SUBSET (s \intersect Flaky) :
       add_allow(s, lost) \/ add_kill(s, lost)
  \/ load
  \/ \E def_action \in Actions : reset(def_action)
  \/ release

FilterSpec == FilterInit /\ [][FilterNext]_filterVars

------------------------------------------------------------------------------

(***************************************************************************)
(* is_useable guards every call into libseccomp, so that after release no  *)
(* operation hands it the released context, not even a second release.     *)
(***************************************************************************)
NoUseAfterRelease == ~misused

==============================================================================
