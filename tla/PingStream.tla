------------------------------ MODULE PingStream ------------------------------
(***************************************************************************)
(* What a receiver may rely on, without timers, queues or buffers: from    *)
(* the start of the program a stream of packets numbered 0, 1, 2, ...      *)
(* modulo 2^32, in order and none repeated, at most one per Period and     *)
(* stamped by a monotonic clock.  A packet is missing only when it was     *)
(* lost at the sender; then the stream is about to stop, although packets  *)
(* that were queued behind the lost one may still go out before it does.   *)
(***************************************************************************)
EXTENDS Integers, Sequences

CONSTANTS SeqMax, Period, Boot

VARIABLES
  clock,      \* the monotonic clock
  next,       \* packets sent or lost so far
  out,        \* packets sent
  doomed,     \* a packet was lost, the stream is about to stop
  up          \* the stream has not stopped

vars == <<clock, next, out, doomed, up>>

Init ==
  /\ clock = Boot
  /\ next = 0
  /\ out = <<>>
  /\ doomed = FALSE
  /\ up = TRUE

Pass ==
  /\ clock' > clock
  /\ UNCHANGED <<next, out, doomed, up>>

\* Packet number "next" goes out.  It was stamped at time t, not before its
\* turn, not before the packet ahead of it, and not in the future.
Emit(t) ==
  /\ up
  /\ clock' >= clock
  /\ Boot + (next + 1) * Period <= t
  /\ out # <<>> => out[Len(out)].tv <= t
  /\ out' = Append(out, [seq |-> next % (SeqMax + 1), tv |-> t])
  /\ next' = next + 1
  /\ UNCHANGED <<doomed, up>>

Lose ==
  /\ up
  /\ clock' >= clock
  /\ next' = next + 1
  /\ doomed' = TRUE
  /\ UNCHANGED <<out, up>>

Stop ==
  /\ up
  /\ doomed
  /\ up' = FALSE
  /\ UNCHANGED <<clock, next, out, doomed>>

Next ==
  \/ Pass
  \/ \E t \in Boot .. clock' : Emit(t)
  \/ Lose
  \/ Stop

Spec == Init /\ [][Next]_vars

===============================================================================
