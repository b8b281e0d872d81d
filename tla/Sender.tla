------------------------------- MODULE Sender -------------------------------
(***************************************************************************)
(* MPingSender::Sender (src/src/mping_sender.cpp) inside io.run() of main: *)
(* a timer that re-arms itself every second and sends one packet each time *)
(* it fires, and the way the program ends when a handler throws            *)
(* (src/src/main.cpp).                                                     *)
(*                                                                         *)
(* The initial state is the one in which the constructor has returned and  *)
(* main is about to call io.run().  One thread runs the handlers, so a     *)
(* handler is one action; time passes between and inside handlers.         *)
(***************************************************************************)
EXTENDS MPingState, MulticastTxSocket

CONSTANTS
  Period,     \* ticks of steady_clock in chrono::seconds(1)
  Boot,       \* reading of steady_clock when the Sender is constructed
  Horizon     \* bound: the clock stops here

ASSUME PeriodAssumption == Period \in Nat \ {0}
ASSUME BootAssumption == Boot \in Nat
ASSUME HorizonAssumption == Horizon \in Nat /\ Boot <= Horizon

VARIABLES
  clock,      \* steady_clock::now()
  pc,         \* where main is
  state,      \* Sender::_state
  timer       \* Sender::_timer: its expiry and how many waits it holds

vars == <<clock, pc, state, timer, socketVars>>

(***************************************************************************)
(* main is in io.run(); then an exception leaves a handler and main        *)
(* destroys "sender", destroys "io", reaches the catch block and exits.    *)
(***************************************************************************)
PC == {"run", "throw", "sender_destroyed", "catch", "exit_failure"}

TypeOK ==
  /\ clock \in Boot .. Horizon
  /\ pc \in PC
  /\ state \in State
  /\ timer \in [expiry : Nat, waits : Nat]
  /\ ready \in Seq(Completion)
  /\ writeq \in Seq(Nat)
  /\ DOMAIN heap \subseteq 1 .. allocs
  /\ heap \in [DOMAIN heap -> State]
  /\ allocs \in Nat
  /\ attempts \in Nat
  /\ wire \in Seq(State)

------------------------------------------------------------------------------

\* basic_waitable_timer: the waits it holds complete with operation_aborted.
Aborted(n) == [i \in 1 .. n |-> Wait("operation_aborted")]

(***************************************************************************)
(* Sender::schedule_send.  expires_after cancels the waits that the timer  *)
(* still holds (the queue becomes ScheduleQueue(q)), then async_wait adds  *)
(* one.                                                                    *)
(***************************************************************************)
ScheduleQueue(q) == q \o Aborted(timer.waits)

\* Variant: expires_at(expiry + 1s), which keeps the average pace by catching up.
schedule_send_absolute == timer' = [expiry |-> timer.expiry + Period, waits |-> 1]

schedule_send == timer' = [expiry |-> clock + Period, waits |-> 1]

Init ==
  /\ socketInit
  /\ clock = Boot
  /\ pc = "run"
  /\ state = NewState
  /\ timer = [expiry |-> Boot + Period, waits |-> 1]

(***************************************************************************)
(* Sender::send_packet, called at time "now": stamp the state, serialize   *)
(* it, advance the sequence number, hand the message to the socket.        *)
(***************************************************************************)
\* Variant: the sequence number is advanced before the packet is built.
send_packet_late(q, now, result) ==
  LET stamped == set_current_time(next_seq_no(state), now)
  IN  /\ state' = stamped
      /\ socket_send_packet(q, stamped, result)

send_packet(q, now, result) ==
  LET stamped == set_current_time(state, now)
  IN  /\ state' = next_seq_no(stamped)
      /\ socket_send_packet(q, stamped, result)

\* main's error_handler: throw std::runtime_error("Fatal error").
error_handler == pc' = "throw"

NextHandlerIs(kind) == pc = "run" /\ ready # <<>> /\ Head(ready).kind = kind

\* Variant: the timer is armed a second time after the packet is sent.
OnTimer_rearmed(now, result) ==
  /\ NextHandlerIs("wait")
  /\ IF Head(ready).ec # "ok"
       THEN /\ error_handler
            /\ ready' = Tail(ready)
            /\ UNCHANGED <<clock, state, timer, writeq, heap, allocs, attempts, wire>>
       ELSE /\ timer' = [expiry |-> clock + Period, waits |-> 1]
            /\ send_packet(Append(ScheduleQueue(Tail(ready)),
                                  Wait("operation_aborted")), now, result)
            /\ clock' = now
            /\ UNCHANGED pc

\* Variant: the timer is armed only while no send is waiting for the socket.
OnTimer_backpressure(now, result) ==
  /\ NextHandlerIs("wait")
  /\ IF Head(ready).ec # "ok"
       THEN /\ error_handler
            /\ ready' = Tail(ready)
            /\ UNCHANGED <<clock, state, timer, writeq, heap, allocs, attempts, wire>>
       ELSE /\ IF writeq = <<>> THEN schedule_send ELSE UNCHANGED timer
            /\ send_packet(ScheduleQueue(Tail(ready)), now, result)
            /\ clock' = now
            /\ UNCHANGED pc

(***************************************************************************)
(* The lambda given to async_wait.  It reads the clock twice: when it      *)
(* re-arms the timer and, at "now", when it stamps the packet.             *)
(***************************************************************************)
OnTimer(now, result) ==
  /\ NextHandlerIs("wait")
  /\ IF Head(ready).ec # "ok"
       THEN /\ error_handler
            /\ ready' = Tail(ready)
            /\ UNCHANGED <<clock, state, timer, writeq, heap, allocs, attempts, wire>>
       ELSE /\ schedule_send
            /\ send_packet(ScheduleQueue(Tail(ready)), now, result)
            /\ clock' = now
            /\ UNCHANGED pc

\* Variant: a failed send is logged and the program carries on.
OnSent_tolerant ==
  /\ NextHandlerIs("send")
  /\ UNCHANGED pc
  /\ ready' = Tail(ready)
  /\ heap' = Release({Head(ready).buf})
  /\ UNCHANGED <<clock, state, timer, writeq, allocs, attempts, wire>>

(***************************************************************************)
(* The lambda given to async_send_to.  Its capture, and with it the        *)
(* payload, is destroyed when it returns or throws.                        *)
(***************************************************************************)
OnSent ==
  /\ NextHandlerIs("send")
  /\ IF Head(ready).ec # "ok" THEN error_handler ELSE UNCHANGED pc
  /\ ready' = Tail(ready)
  /\ heap' = Release({Head(ready).buf})
  /\ UNCHANGED <<clock, state, timer, writeq, allocs, attempts, wire>>

------------------------------------------------------------------------------
(***************************************************************************)
(* The world: time, the timer queue of the reactor, the socket.            *)
(***************************************************************************)
Tick ==
  /\ clock < Horizon
  /\ clock' = clock + 1
  /\ UNCHANGED <<pc, state, timer, socketVars>>

TimerExpires ==
  /\ pc = "run"
  /\ timer.waits > 0
  /\ clock >= timer.expiry
  /\ timer' = [timer EXCEPT !.waits = 0]
  /\ ready' = ready \o [i \in 1 .. timer.waits |-> Wait("ok")]
  /\ UNCHANGED <<clock, pc, state, writeq, heap, allocs, attempts, wire>>

SocketWritable(ec) ==
  /\ pc = "run"
  /\ ReactorWrite(ec)
  /\ UNCHANGED <<clock, pc, state, timer>>

------------------------------------------------------------------------------
(***************************************************************************)
(* main after a handler has thrown: "sender" and then "io" go out of       *)
(* scope.  ~Sender cancels the timer and closes the socket, which queues   *)
(* their handlers with operation_aborted; ~io_context destroys all queued  *)
(* handlers without invoking them.                                         *)
(***************************************************************************)
DestroySender ==
  /\ pc = "throw"
  /\ pc' = "sender_destroyed"
  /\ ready' = ScheduleQueue(ready)
                \o [i \in DOMAIN writeq |-> Sent(writeq[i], "operation_aborted")]
  /\ timer' = [timer EXCEPT !.waits = 0]
  /\ writeq' = <<>>
  /\ UNCHANGED <<clock, state, heap, allocs, attempts, wire>>

DestroyIoContext ==
  /\ pc = "sender_destroyed"
  /\ pc' = "catch"
  /\ ready' = <<>>
  /\ heap' = Release(Captured(ready))
  /\ UNCHANGED <<clock, state, timer, writeq, allocs, attempts, wire>>

\* Variant: the catch block only logs, and main returns EXIT_SUCCESS.
Exit_success ==
  /\ pc = "catch"
  /\ pc' = "exit_success"
  /\ UNCHANGED <<clock, state, timer, socketVars>>

Exit ==
  /\ pc = "catch"
  /\ pc' = "exit_failure"
  /\ UNCHANGED <<clock, state, timer, socketVars>>

Unwind == DestroySender \/ DestroyIoContext \/ Exit

------------------------------------------------------------------------------

Handler ==
  \/ \E now \in clock .. Horizon, result \in {"ok", "error", "would_block"} :
       OnTimer(now, result)
  \/ OnSent

Next ==
  \/ Tick
  \/ TimerExpires
  \/ \E ec \in {"ok", "error"} : SocketWritable(ec)
  \/ Handler
  \/ Unwind

Spec == Init /\ [][Next]_vars

(***************************************************************************)
(* Time passes, the reactor reports an expired timer, the one thread keeps *)
(* running handlers and finishes unwinding.  Nothing is assumed of the     *)
(* kernel: a socket may stay unwritable for ever.                          *)
(***************************************************************************)
Fairness ==
  /\ WF_vars(Tick)
  /\ WF_vars(TimerExpires)
  /\ WF_vars(Handler)
  /\ WF_vars(Unwind)

FairSpec == Spec /\ Fairness

------------------------------------------------------------------------------

Waits == {i \in DOMAIN ready : IsWait(ready[i])}

SendFailed == \E i \in DOMAIN ready : IsFailedSend(ready[i])

(***************************************************************************)
(* Sender::schedule_send keeps exactly one wait outstanding: the timer     *)
(* holds it, or its completion is queued, and then it has expired and was  *)
(* not cancelled.  So _timer_error_handler is never called, ticks never    *)
(* pile up, and io.run() never returns for want of work.                   *)
(***************************************************************************)
TimerChain ==
  pc = "run" =>
    \/ timer.waits = 1 /\ Waits = {}
    \/ timer.waits = 0 /\ \E i \in DOMAIN ready :
                            Waits = {i} /\ ready[i] = Wait("ok")

(***************************************************************************)
(* The capture of "sdata" in MulticastTxSocket::send_packet: a payload is  *)
(* alive exactly as long as one send, waiting for the socket or for its    *)
(* handler, refers to it.  The reactor never reads a freed payload, no two *)
(* sends share one, and destroying io frees them all.                      *)
(***************************************************************************)
BuffersOwned ==
  /\ DOMAIN heap = Range(writeq) \union Captured(ready)
  /\ Range(writeq) \intersect Captured(ready) = {}
  /\ \A i, j \in DOMAIN writeq : writeq[i] = writeq[j] => i = j
  /\ \A i, j \in DOMAIN ready :
       /\ ready[i].kind = "send" /\ ready[j].kind = "send"
       /\ ready[i].buf = ready[j].buf
       => i = j

(***************************************************************************)
(* While the program runs and no failed send is about to end it, what has  *)
(* reached the wire is packet 0, 1, 2, ... modulo SeqMax + 1 without gap,  *)
(* repetition or reordering, and every other packet that next_seq_no       *)
(* counted is waiting for the socket.                                      *)
(***************************************************************************)
WireGapless ==
  pc = "run" /\ ~SendFailed =>
    /\ \A i \in DOMAIN wire : wire[i].seq = (i - 1) % (SeqMax + 1)
    /\ Len(wire) + Len(writeq) = allocs

(***************************************************************************)
(* The pace that "sends a UDP packet every second" promises, from the side *)
(* that expires_after and set_current_time can guarantee: the i-th packet  *)
(* on the wire is stamped at least i periods after the start, the stamps   *)
(* do not decrease, and none lies in the future.                           *)
(***************************************************************************)
PacedByClock ==
  /\ allocs * Period <= clock - Boot
  /\ \A i \in DOMAIN wire :
       /\ Boot + i * Period <= wire[i].tv
       /\ wire[i].tv <= clock
       /\ i > 1 => wire[i - 1].tv <= wire[i].tv

(***************************************************************************)
(* expires_after counts from the run of the handler, so late handlers are  *)
(* never made up for in a burst: among the packets on the wire any n in a  *)
(* row are stamped over at least n - 2 periods.  (Two may be close: the    *)
(* timer is re-armed before the first of them is stamped.)                 *)
(***************************************************************************)
NoBurst ==
  \A i, j \in DOMAIN wire :
    i < j => wire[i].tv + (j - i - 1) * Period <= wire[j].tv

(***************************************************************************)
(* async_send_to is called without looking at the sends that still wait.   *)
(* Only the time for which the socket has been unwritable bounds them, and *)
(* with them the memory held: one payload per period since the oldest of   *)
(* them was stamped, and two more.                                         *)
(***************************************************************************)
BacklogBounded ==
  writeq # <<>> =>
    heap[Head(writeq)].tv + (Len(writeq) - 2) * Period <= clock

(***************************************************************************)
(* Only ~Sender cancels sends, and schedule_send finds no wait to cancel:  *)
(* no handler that io.run() invokes sees operation_aborted, so the error   *)
(* handlers only ever report errors of the kernel.                         *)
(***************************************************************************)
NothingCancelled ==
  pc = "run" => \A i \in DOMAIN ready : ready[i].ec # "operation_aborted"

(***************************************************************************)
(* Why WireGapless holds.  Payload number b carries sequence number b - 1  *)
(* modulo SeqMax + 1; the payloads that wait for the socket are the newest *)
(* ones, in order of allocation; the kernel has answered for all others.   *)
(***************************************************************************)
Numbering ==
  /\ state.seq = allocs % (SeqMax + 1)
  /\ \A b \in DOMAIN heap : heap[b].seq = (b - 1) % (SeqMax + 1)
  /\ \A j \in DOMAIN writeq : writeq[j] = allocs - Len(writeq) + j
  /\ Len(wire) <= attempts /\ attempts <= allocs
  /\ pc = "run" =>
       /\ attempts = allocs - Len(writeq)
       /\ ~SendFailed =>
            /\ Len(wire) = attempts
            /\ \A i \in DOMAIN wire : wire[i].seq = (i - 1) % (SeqMax + 1)

(***************************************************************************)
(* Why PacedByClock holds.  Stamps do not decrease along the wire, then    *)
(* the payloads, then the state; payload b is never stamped before its     *)
(* turn, and the timer never expires before the turn of the next one.      *)
(***************************************************************************)
Pacing ==
  /\ state.tv <= clock
  /\ \A b \in DOMAIN heap :
       /\ Boot + b * Period <= heap[b].tv
       /\ heap[b].tv <= state.tv
       /\ \A c \in DOMAIN heap : b <= c => heap[b].tv <= heap[c].tv
  /\ \A i \in DOMAIN wire :
       /\ wire[i].tv <= state.tv
       /\ \A j \in DOMAIN writeq : wire[i].tv <= heap[writeq[j]].tv
  /\ pc = "run" =>
       IF timer.waits = 1 THEN Boot + (allocs + 1) * Period <= timer.expiry
                          ELSE Boot + (allocs + 1) * Period <= clock

(***************************************************************************)
(* Why NoBurst and BacklogBounded hold.  Between the stamps of payloads b  *)
(* and c the timer was armed anew c - b times, each time for a period, and *)
(* only the first time possibly before the stamp of b.  "Due" is the time  *)
(* before which the next tick cannot run.                                  *)
(***************************************************************************)
Spacing ==
  LET Due == IF timer.waits = 1 THEN timer.expiry ELSE clock
      waiting == Len(writeq)
  IN  /\ NoBurst
      /\ \A b, c \in DOMAIN heap :
           b < c => heap[b].tv + (c - b - 1) * Period <= heap[c].tv
      /\ \A i \in DOMAIN wire, k \in DOMAIN writeq :
           wire[i].tv + (Len(wire) - i + k - 1) * Period <= heap[writeq[k]].tv
      /\ pc = "run" =>
           /\ \A b \in DOMAIN heap :
                b < allocs => heap[b].tv + (allocs - b) * Period <= Due
           /\ \A i \in DOMAIN wire :
                i < Len(wire) + waiting =>
                  wire[i].tv + (Len(wire) + waiting - i) * Period <= Due

IInv ==
  /\ TypeOK
  /\ TimerChain
  /\ BuffersOwned
  /\ NothingCancelled
  /\ Numbering
  /\ Pacing
  /\ PacedByClock
  /\ Spacing
  /\ BacklogBounded

(***************************************************************************)
(* The program as its receivers see it: the stream stops when io.run() is  *)
(* left, and a failed send that is still queued has already doomed it.     *)
(***************************************************************************)
Stream == INSTANCE PingStream WITH
            next <- attempts,
            out <- wire,
            doomed <- SendFailed \/ pc # "run",
            up <- pc = "run"

ImplementsStream == Stream!Spec

(***************************************************************************)
(* main's error_handler: an error reported by async_send_to ends the       *)
(* program with EXIT_FAILURE, whatever else is queued.                     *)
(***************************************************************************)
FailureExits == SendFailed ~> pc = "exit_failure"

(***************************************************************************)
(* The timer is re-armed before the packet is sent, so a socket that stays *)
(* unwritable for ever does not stop the clockwork: every tick that fits   *)
(* below the bound of the clock produces the next packet.                  *)
(***************************************************************************)
TickProducesPacket ==
  \A n \in 0 .. Horizon :
    pc = "run" /\ allocs = n /\ timer.expiry <= Horizon
      ~> allocs > n \/ pc # "run"

=============================================================================
