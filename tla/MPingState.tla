----------------------------- MODULE MPingState -----------------------------
(***************************************************************************)
(* The part of MPingSender::MPingState that changes while the program      *)
(* runs: the sequence number and the time stamp (src/src/mping_state.cpp). *)
(* The type, TTL, hosts, ports and PID are fixed by the constructor and    *)
(* are modelled with the packet layout.                                    *)
(***************************************************************************)
EXTENDS Integers

CONSTANT SeqMax     \* std::numeric_limits<uint32_t>::max(), smaller in TLC

ASSUME SeqMaxAssumption == SeqMax \in Nat

(***************************************************************************)
(* An MPingState: _sequence_number and _tv (ticks of steady_clock).        *)
(***************************************************************************)
State == [seq : 0 .. SeqMax, tv : Nat]

(***************************************************************************)
(* The constructor MPingState(type, ttl, src, sport, dst, dport).          *)
(***************************************************************************)
NewState == [seq |-> 0, tv |-> 0]

\* Variant of next_seq_no: the wrap-around test is off by one.
next_seq_no_early_wrap(s) ==
  [s EXCEPT !.seq = IF s.seq + 1 = SeqMax THEN 0 ELSE s.seq + 1]

\* Variant of next_seq_no: the counter has a wider type and does not wrap.
next_seq_no_wide(s) == [s EXCEPT !.seq = s.seq + 1]

next_seq_no(s) ==
  [s EXCEPT !.seq = IF s.seq = SeqMax THEN 0 ELSE s.seq + 1]

\* Variant of set_current_time: the call is forgotten.
set_current_time_forgotten(s, now) == s

set_current_time(s, now) == [s EXCEPT !.tv = now]

=============================================================================
