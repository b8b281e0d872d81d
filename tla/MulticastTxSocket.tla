-------------------------- MODULE MulticastTxSocket --------------------------
(***************************************************************************)
(* MPingSender::MulticastTxSocket after its construction                   *)
(* (src/src/multicast_tx_socket.cpp): asynchronous sends on a UDP socket   *)
(* that belongs to a single-threaded boost::asio::io_context.              *)
(*                                                                         *)
(* Boost.Asio is external.  It is modelled from its use here: a send is    *)
(* tried at once when no earlier send of the socket is waiting, and waits  *)
(* in the socket's FIFO write queue otherwise, or when the kernel would    *)
(* block.  The kernel takes a datagram or reports an error; either way a   *)
(* completion is appended to the queue of handlers that run() invokes.     *)
(***************************************************************************)
EXTENDS Integers, Sequences, Functions

VARIABLES
  ready,      \* completions whose handlers io_context::run() has to invoke
  writeq,     \* payloads of the sends that wait for the socket, in order
  heap,       \* live payloads: number of the allocation -> message
  allocs,     \* how many payloads make_shared has allocated
  attempts,   \* how many sends the kernel has answered
  wire        \* messages the kernel has taken, in order

socketVars == <<ready, writeq, heap, allocs, attempts, wire>>

(***************************************************************************)
(* A completion: of a timer wait or of a send, with its error_code and,    *)
(* for a send, the payload that its handler's capture "sdata" keeps alive. *)
(***************************************************************************)
ErrorCode == {"ok", "error", "operation_aborted"}

Completion == [kind : {"wait", "send"}, ec : ErrorCode, buf : Nat]

Wait(ec) == [kind |-> "wait", ec |-> ec, buf |-> 0]
Sent(b, ec) == [kind |-> "send", ec |-> ec, buf |-> b]

IsWait(c) == c.kind = "wait"
IsFailedSend(c) == c.kind = "send" /\ c.ec = "error"

\* The last reference to a payload is dropped: its memory is freed.
Release(bufs) == Restrict(heap, DOMAIN heap \ bufs)

\* The payloads kept alive by the handlers in a queue of completions.
Captured(q) == {q[i].buf : i \in {j \in DOMAIN q : q[j].kind = "send"}}

\* What the kernel does with payload b: it takes the datagram or fails.
KernelAnswers(b, message, ec) ==
  /\ attempts' = attempts + 1
  /\ wire' = IF ec = "ok" THEN Append(wire, message) ELSE wire

------------------------------------------------------------------------------

socketInit ==
  /\ ready = <<>>
  /\ writeq = <<>>
  /\ heap = [b \in {} |-> 0]
  /\ allocs = 0
  /\ attempts = 0
  /\ wire = <<>>

\* Variant: the completion handler captures only "this", so the payload dies
\* when send_packet returns.
socket_send_packet_no_capture(q, message, result) ==
  LET b == allocs + 1
  IN  /\ allocs' = b
      /\ heap' = heap
      /\ IF writeq = <<>> /\ result # "would_block"
           THEN /\ KernelAnswers(b, message, result)
                /\ ready' = Append(q, Sent(b, result))
                /\ UNCHANGED writeq
           ELSE /\ writeq' = Append(writeq, b)
                /\ ready' = q
                /\ UNCHANGED <<attempts, wire>>

(***************************************************************************)
(* MulticastTxSocket::send_packet, called from a handler that has left q   *)
(* in the queue of completions: copy the message into a payload of its own *)
(* and start the send.  The payload is kept by the handler alone once      *)
(* send_packet returns.                                                    *)
(***************************************************************************)
socket_send_packet(q, message, result) ==
  LET b == allocs + 1
  IN  /\ allocs' = b
      /\ heap' = [i \in DOMAIN heap \union {b} |->
                    IF i = b THEN message ELSE heap[i]]
      /\ IF writeq = <<>> /\ result # "would_block"
           THEN /\ KernelAnswers(b, message, result)
                /\ ready' = Append(q, Sent(b, result))
                /\ UNCHANGED writeq
           ELSE /\ writeq' = Append(writeq, b)
                /\ ready' = q
                /\ UNCHANGED <<attempts, wire>>

(***************************************************************************)
(* The reactor finds the socket writable and performs the oldest waiting   *)
(* send; it reads the payload now, not when the send was started.          *)
(***************************************************************************)
ReactorWrite(ec) ==
  /\ writeq # <<>>
  /\ KernelAnswers(Head(writeq), heap[Head(writeq)], ec)
  /\ ready' = Append(ready, Sent(Head(writeq), ec))
  /\ writeq' = Tail(writeq)
  /\ UNCHANGED <<heap, allocs>>

==============================================================================
