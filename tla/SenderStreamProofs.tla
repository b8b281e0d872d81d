------------------------- MODULE SenderStreamProofs -------------------------
(***************************************************************************)
(* Proofs about the packets that Sender puts on the wire, for every        *)
(* Period, Boot, Horizon and SeqMax: their numbers, their time stamps, how *)
(* many may wait, and that Sender implements PingStream.                   *)
(***************************************************************************)
EXTENDS SenderProofs

------------------------------------------------------------------------------
(***************************************************************************)
(* Arithmetic with the two constants that are not numbers to the provers.  *)
(***************************************************************************)

\* next_seq_no counts modulo SeqMax + 1.
LEMMA SequenceNumbers ==
  /\ 0 % (SeqMax + 1) = 0
  /\ \A n \in Nat :
       /\ n % (SeqMax + 1) \in 0 .. SeqMax
       /\ (n + 1) % (SeqMax + 1) =
            IF n % (SeqMax + 1) = SeqMax THEN 0 ELSE (n % (SeqMax + 1)) + 1
BY SeqMaxAssumption

\* How long n periods are.
Span(n) == n * Period

\* The lengths that the proofs compare.
LEMMA Spans ==
  /\ Period \in Nat /\ Span(0) = 0
  /\ \A n \in Int : Span(n) \in Int /\ Span(n + 1) = Span(n) + Period
  /\ \A m, n \in Int : m <= n => Span(m) <= Span(n)
BY PeriodAssumption DEF Span

------------------------------------------------------------------------------
(***************************************************************************)
(* The other steps in the terms in which OnTimerEffect puts a tick.        *)
(***************************************************************************)

\* The type invariant, variable by variable.
LEMMA CoreTypes ==
  ASSUME Core
  PROVE  /\ clock \in Nat /\ Boot \in Nat /\ Boot <= clock
         /\ state.seq \in Nat /\ state.tv \in Nat
         /\ timer \in [expiry : Nat, waits : Nat] /\ timer.expiry \in Nat
         /\ allocs \in Nat /\ attempts \in Nat
         /\ ready \in Seq(Completion)
         /\ writeq \in Seq(Nat) /\ Len(writeq) \in Nat /\ DOMAIN writeq = 1 .. Len(writeq)
         /\ wire \in Seq(State) /\ Len(wire) \in Nat /\ DOMAIN wire = 1 .. Len(wire)
         /\ \A i \in DOMAIN wire : wire[i].seq \in Nat /\ wire[i].tv \in Nat
         /\ \A b \in DOMAIN heap : /\ b \in Nat /\ 1 <= b /\ b <= allocs
                                   /\ heap[b] \in State
                                   /\ heap[b].seq \in Nat /\ heap[b].tv \in Nat
         /\ \A j \in DOMAIN writeq : writeq[j] \in DOMAIN heap
<1>1. TypeOK /\ DOMAIN heap = Range(writeq) \union Captured(ready)
  BY BuffersOwnedDef DEF Core
<1>2. \A s \in State : s.seq \in Nat /\ s.tv \in Nat
  BY SeqMaxAssumption DEF State
<1>3. /\ Len(writeq) \in Nat /\ DOMAIN writeq = 1 .. Len(writeq)
      /\ Len(wire) \in Nat /\ DOMAIN wire = 1 .. Len(wire)
      /\ \A i \in DOMAIN wire : wire[i] \in State
  BY <1>1, LenProperties, ElementOfSeq DEF TypeOK
<1>4. \A j \in DOMAIN writeq : writeq[j] \in DOMAIN heap
  BY <1>1 DEF Range
<1>5. \A b \in DOMAIN heap : b \in 1 .. allocs /\ heap[b] \in State
  BY <1>1 DEF TypeOK
<1>6. clock \in Nat /\ Boot \in Nat /\ Boot <= clock
  BY <1>1, BootAssumption, HorizonAssumption DEF TypeOK
<1>7. \A b \in DOMAIN heap : b \in Nat /\ 1 <= b /\ b <= allocs
  BY <1>1, <1>5 DEF TypeOK
<1> QED
  BY <1>1, <1>2, <1>3, <1>4, <1>5, <1>6, <1>7 DEF TypeOK

\* A failed send at the front of the queue or behind it.
Failing(q) == \E i \in DOMAIN q : IsFailedSend(q[i])

\* A handler leaves the front of the queue.
LEMMA FailingTail ==
  ASSUME NEW q \in Seq(Completion), q # <<>>
  PROVE  Failing(q) <=> IsFailedSend(Head(q)) \/ Failing(Tail(q))
<1>1. /\ DOMAIN q = 1 .. Len(q) /\ Len(q) \in Nat \ {0}
      /\ DOMAIN Tail(q) = 1 .. Len(q) - 1
      /\ Head(q) = q[1]
      /\ \A i \in 1 .. Len(q) - 1 : Tail(q)[i] = q[i + 1]
  BY TailFacts
<1>2. ASSUME Failing(q), ~IsFailedSend(Head(q)) PROVE Failing(Tail(q))
  <2>1. PICK i \in DOMAIN q : IsFailedSend(q[i])
    BY <1>2 DEF Failing
  <2>2. i - 1 \in DOMAIN Tail(q) /\ Tail(q)[i - 1] = q[i]
    BY <1>1, <1>2, <2>1
  <2> QED
    BY <2>1, <2>2 DEF Failing
<1>3. ASSUME Failing(Tail(q)) PROVE Failing(q)
  <2>1. PICK i \in DOMAIN Tail(q) : IsFailedSend(Tail(q)[i])
    BY <1>3 DEF Failing
  <2>2. i + 1 \in DOMAIN q /\ Tail(q)[i] = q[i + 1]
    BY <1>1
  <2> QED
    BY <2>1, <2>2 DEF Failing
<1>4. 1 \in DOMAIN q
  BY <1>1
<1> QED
  BY <1>1, <1>2, <1>3, <1>4 DEF Failing

\* A completion joins the queue.
LEMMA FailingAppend ==
  ASSUME NEW q \in Seq(Completion), NEW c \in Completion
  PROVE  Failing(Append(q, c)) <=> Failing(q) \/ IsFailedSend(c)
<1>1. /\ DOMAIN q = 1 .. Len(q) /\ Len(q) \in Nat
      /\ DOMAIN Append(q, c) = 1 .. Len(q) + 1
      /\ \A i \in 1 .. Len(q) : Append(q, c)[i] = q[i]
      /\ Append(q, c)[Len(q) + 1] = c
  BY AppendFacts
<1>2. \A i : i \in 1 .. Len(q) + 1 <=> i \in 1 .. Len(q) \/ i = Len(q) + 1
  BY <1>1
<1> QED
  BY <1>1, <1>2 DEF Failing

\* A tick: what it does to the stream.  The packet goes out, or is lost, or
\* waits behind the others.
LEMMA TickEffect ==
  ASSUME Core, NEW now \in clock .. Horizon, NEW result \in Results,
         OnTimer(now, result)
  PROVE  \/ /\ writeq = <<>> /\ writeq' = <<>>
            /\ attempts' = attempts + 1
            /\ \/ /\ wire' = Append(wire, [seq |-> state.seq, tv |-> now])
                  /\ SendFailed' <=> SendFailed
               \/ wire' = wire /\ SendFailed'
         \/ /\ writeq' = Append(writeq, allocs + 1)
            /\ attempts' = attempts /\ wire' = wire
            /\ SendFailed' <=> SendFailed
<1> DEFINE m == [seq |-> state.seq, tv |-> now]
<1>1. \/ /\ writeq = <<>> /\ writeq' = writeq
         /\ result \in {"ok", "error"}
         /\ attempts' = attempts + 1
         /\ wire' = IF result = "ok" THEN Append(wire, m) ELSE wire
         /\ ready' = Append(Tail(ready), Sent(allocs + 1, result))
      \/ /\ writeq' = Append(writeq, allocs + 1)
         /\ ready' = Tail(ready)
         /\ attempts' = attempts /\ wire' = wire
  BY OnTimerEffect
<1>2. /\ NextHandlerIs("wait") /\ ready \in Seq(Completion) /\ allocs + 1 \in Nat
  BY SMTT(60), CoreTypes DEF OnTimer
<1>3. Tail(ready) \in Seq(Completion) /\ ready # <<>> /\ Head(ready).kind = "wait"
  BY <1>2, WaitHandlerRunsAlone DEF NextHandlerIs
<1>4. (SendFailed <=> Failing(ready)) /\ (SendFailed' <=> Failing(ready'))
  BY DEF SendFailed, Failing
<1>5. SendFailed <=> Failing(Tail(ready))
  BY <1>2, <1>3, <1>4, FailingTail DEF IsFailedSend
<1>6. ASSUME result \in {"ok", "error"}
      PROVE  Failing(Append(Tail(ready), Sent(allocs + 1, result)))
               <=> Failing(Tail(ready)) \/ result = "error"
  <2>1. Sent(allocs + 1, result) \in Completion
    BY <1>2, <1>6, CompletionFacts DEF ErrorCode
  <2>2. IsFailedSend(Sent(allocs + 1, result)) <=> result = "error"
    BY CompletionFacts DEF IsFailedSend
  <2> QED
    BY Zenon, <1>3, <2>1, <2>2, FailingAppend
<1> QED
  BY Zenon, <1>1, <1>4, <1>5, <1>6

\* The reactor answers for the oldest waiting send.
LEMMA WriteEffect ==
  ASSUME Core, NEW ec \in {"ok", "error"}, SocketWritable(ec)
  PROVE  /\ pc = "run" /\ writeq # <<>> /\ writeq' = Tail(writeq)
         /\ Head(writeq) = writeq[1] /\ 1 \in DOMAIN writeq
         /\ Len(writeq') = Len(writeq) - 1
         /\ DOMAIN writeq' = 1 .. Len(writeq) - 1
         /\ \A j \in DOMAIN writeq' : /\ j \in Nat /\ j + 1 \in DOMAIN writeq
                                      /\ writeq'[j] = writeq[j + 1]
         /\ attempts' = attempts + 1
         /\ \/ /\ wire' = Append(wire, heap[writeq[1]])
               /\ SendFailed' <=> SendFailed
            \/ wire' = wire /\ SendFailed'
         /\ UNCHANGED <<heap, allocs, clock, pc, state, timer>>
<1>1. /\ pc = "run" /\ writeq # <<>> /\ writeq' = Tail(writeq)
      /\ attempts' = attempts + 1
      /\ wire' = IF ec = "ok" THEN Append(wire, heap[Head(writeq)]) ELSE wire
      /\ ready' = Append(ready, Sent(Head(writeq), ec))
      /\ UNCHANGED <<heap, allocs, clock, pc, state, timer>>
  BY DEF SocketWritable, ReactorWrite, KernelAnswers
<1>2. /\ Head(writeq) = writeq[1] /\ 1 \in DOMAIN writeq /\ Head(writeq) \in Nat
      /\ Len(writeq') = Len(writeq) - 1
      /\ DOMAIN writeq' = 1 .. Len(writeq) - 1
      /\ \A j \in DOMAIN writeq' : j \in Nat /\ j + 1 \in DOMAIN writeq
      /\ \A j \in DOMAIN writeq' : writeq'[j] = writeq[j + 1]
  <2>1. /\ writeq \in Seq(Nat) /\ writeq # <<>>
    BY <1>1, CoreTypes
  <2>2. /\ DOMAIN writeq = 1 .. Len(writeq) /\ Len(writeq) \in Nat \ {0}
        /\ Head(writeq) = writeq[1] /\ writeq[1] \in Nat
        /\ Len(writeq') = Len(writeq) - 1
        /\ DOMAIN writeq' = 1 .. Len(writeq) - 1
        /\ \A j \in 1 .. Len(writeq) - 1 : writeq'[j] = writeq[j + 1]
    BY <1>1, <2>1, TailFacts
  <2> QED
    BY <2>2
<1>3. /\ Sent(Head(writeq), ec) \in Completion
      /\ IsFailedSend(Sent(Head(writeq), ec)) <=> ec = "error"
  BY <1>2, CompletionFacts DEF ErrorCode, IsFailedSend
<1>4. Failing(ready') <=> Failing(ready) \/ ec = "error"
  BY Zenon, <1>1, <1>3, FailingAppend, CoreTypes
<1>5. (SendFailed <=> Failing(ready)) /\ (SendFailed' <=> Failing(ready'))
  BY DEF SendFailed, Failing
<1> QED
  BY <1>1, <1>2, <1>4, <1>5

\* The handler of a send: a failure ends io.run(), success drops a payload.
LEMMA OnSentEffect ==
  ASSUME Core, OnSent
  PROVE  /\ pc = "run"
         /\ \/ pc' = "run" /\ (SendFailed' <=> SendFailed)
            \/ pc' = "throw" /\ (NothingCancelled => SendFailed)
         /\ ready \in Seq(Completion) /\ ready # <<>> /\ ready' = Tail(ready)
         /\ DOMAIN heap' \subseteq DOMAIN heap
         /\ \A b \in DOMAIN heap' : heap'[b] = heap[b]
         /\ UNCHANGED <<clock, state, timer, writeq, allocs, attempts, wire>>
<1>1. /\ pc = "run" /\ ready # <<>> /\ Head(ready).kind = "send"
      /\ IF Head(ready).ec # "ok" THEN pc' = "throw" ELSE pc' = pc
      /\ ready' = Tail(ready)
      /\ heap' = Release({Head(ready).buf})
      /\ UNCHANGED <<clock, state, timer, writeq, allocs, attempts, wire>>
  BY DEF OnSent, NextHandlerIs, error_handler
<1>2. DOMAIN heap' \subseteq DOMAIN heap /\ \A b \in DOMAIN heap' : heap'[b] = heap[b]
  BY <1>1 DEF Release, Restrict
<1>3. ready \in Seq(Completion)
  BY CoreTypes
<1>4. Failing(ready) <=> IsFailedSend(Head(ready)) \/ Failing(ready')
  BY <1>1, <1>3, FailingTail
<1>5. (SendFailed <=> Failing(ready)) /\ (SendFailed' <=> Failing(ready'))
  BY DEF SendFailed, Failing
<1>6. Head(ready).ec \in ErrorCode /\ Head(ready) = ready[1] /\ 1 \in DOMAIN ready
  <2>1. /\ Head(ready) = ready[1] /\ ready[1] \in Completion
        /\ DOMAIN ready = 1 .. Len(ready) /\ Len(ready) \in Nat \ {0}
    BY <1>1, <1>3, TailFacts
  <2> QED
    BY <2>1 DEF Completion
<1>7. NothingCancelled => Head(ready).ec # "operation_aborted"
  BY <1>1, <1>6 DEF NothingCancelled
<1>8. Head(ready).ec # "ok" /\ NothingCancelled => IsFailedSend(Head(ready))
  BY <1>1, <1>6, <1>7 DEF IsFailedSend, ErrorCode
<1>9. Head(ready).ec = "ok" => ~IsFailedSend(Head(ready))
  BY DEF IsFailedSend
<1> QED
  BY Zenon, <1>1, <1>2, <1>3, <1>4, <1>5, <1>8, <1>9

\* ~Sender, ~io_context and the catch block send nothing.
LEMMA UnwindEffect ==
  ASSUME Core, Unwind
  PROVE  /\ pc # "run" /\ pc' # "run"
         /\ DOMAIN heap' \subseteq DOMAIN heap
         /\ \A b \in DOMAIN heap' : heap'[b] = heap[b]
         /\ writeq' = writeq \/ writeq' = <<>>
         /\ UNCHANGED <<clock, state, allocs, attempts, wire>>
<1>1. CASE DestroySender
  BY <1>1 DEF DestroySender
<1>2. CASE DestroyIoContext
  BY <1>2 DEF DestroyIoContext, Release, Restrict
<1>3. CASE Exit
  BY <1>3 DEF Exit, socketVars
<1> QED
  BY <1>1, <1>2, <1>3 DEF Unwind

\* The time before which the next tick cannot run.
Due == IF timer.waits = 1 THEN timer.expiry ELSE clock

\* A step that neither builds a packet nor hands one to the kernel.
Quiet ==
  /\ UNCHANGED <<state, allocs, attempts, wire>>
  /\ clock <= clock'
  /\ DOMAIN heap' \subseteq DOMAIN heap
  /\ \A b \in DOMAIN heap' : heap'[b] = heap[b]
  /\ \/ /\ pc = "run" /\ pc' = "run" /\ writeq' = writeq
        /\ SendFailed' <=> SendFailed
        /\ Due <= Due'
     \/ /\ pc' # "run"
        /\ writeq' = writeq \/ writeq' = <<>>

\* Time, the reactor's timer queue, the handler of a send and main's unwinding
\* are quiet.
LEMMA QuietSteps ==
  ASSUME Core, Tick \/ TimerExpires \/ OnSent \/ Unwind \/ UNCHANGED vars
  PROVE  Quiet
<1>0. /\ clock \in Nat /\ ready \in Seq(Completion)
      /\ timer \in [expiry : Nat, waits : Nat] /\ timer.expiry \in Nat
  BY CoreTypes
<1>1. CASE Tick
  <2>1. /\ clock' = clock + 1
        /\ UNCHANGED <<pc, state, timer, ready, writeq, heap, allocs, attempts, wire>>
    BY <1>1 DEF Tick, socketVars
  <2>2. Due <= Due'
    BY <1>0, <2>1 DEF Due
  <2> QED
    BY <1>0, <2>1, <2>2 DEF Quiet, SendFailed
<1>2. CASE TimerExpires
  <2>1. /\ pc = "run" /\ clock >= timer.expiry
        /\ timer' = [timer EXCEPT !.waits = 0]
        /\ UNCHANGED <<clock, pc, state, writeq, heap, allocs, attempts, wire>>
    BY <1>2 DEF TimerExpires
  <2>2. ready' = Append(ready, Wait("ok")) /\ Wait("ok") \in Completion
    BY <1>2, TimerExpiresEffect
  <2>3. Failing(ready') <=> Failing(ready) \/ IsFailedSend(Wait("ok"))
    BY <1>0, <2>2, FailingAppend
  <2>4. ~IsFailedSend(Wait("ok"))
    BY CompletionFacts DEF IsFailedSend
  <2>5. SendFailed' <=> SendFailed
    BY <2>3, <2>4 DEF SendFailed, Failing
  <2>6. timer'.waits = 0
    BY <1>0, <2>1
  <2>7. Due <= Due'
    BY <1>0, <2>1, <2>6 DEF Due
  <2> QED
    BY <1>0, <2>1, <2>5, <2>7 DEF Quiet
<1>3. CASE OnSent
  BY <1>0, <1>3, OnSentEffect DEF Quiet, Due
<1>4. CASE Unwind
  BY <1>0, <1>4, UnwindEffect DEF Quiet
<1>5. CASE UNCHANGED vars
  <2>1. UNCHANGED <<clock, pc, state, timer, ready, writeq, heap, allocs, attempts, wire>>
    BY <1>5 DEF vars, socketVars
  <2> QED
    BY <1>0, <2>1 DEF Quiet, SendFailed, Due
<1> QED
  BY <1>1, <1>2, <1>3, <1>4, <1>5

\* Every step builds a packet, hands one to the kernel, or is quiet.
LEMMA Steps ==
  ASSUME Core, [Next]_vars
  PROVE  \/ \E now \in clock .. Horizon, result \in Results : OnTimer(now, result)
         \/ \E ec \in {"ok", "error"} : SocketWritable(ec)
         \/ Quiet
BY QuietSteps DEF Next, Handler, Results

------------------------------------------------------------------------------
(***************************************************************************)
(* What the handlers see.                                                  *)
(***************************************************************************)

\* NothingCancelled depends only on pc and on the queue of handlers.
Uncancelled(q) == \A i \in DOMAIN q : q[i].ec # "operation_aborted"

\* Neither popping nor appending lets a cancelled operation in.
LEMMA UncancelledQueues ==
  ASSUME NEW q \in Seq(Completion), Uncancelled(q)
  PROVE  /\ q # <<>> => Uncancelled(Tail(q))
         /\ \A c \in Completion : c.ec # "operation_aborted" => Uncancelled(Append(q, c))
<1>1. ASSUME q # <<>> PROVE Uncancelled(Tail(q))
  <2>1. /\ DOMAIN q = 1 .. Len(q) /\ Len(q) \in Nat \ {0}
        /\ DOMAIN Tail(q) = 1 .. Len(q) - 1
        /\ \A i \in 1 .. Len(q) - 1 : Tail(q)[i] = q[i + 1]
    BY <1>1, TailFacts
  <2>2. \A i \in DOMAIN Tail(q) : i + 1 \in DOMAIN q /\ Tail(q)[i] = q[i + 1]
    BY <2>1
  <2> QED
    BY <2>2 DEF Uncancelled
<1>2. ASSUME NEW c \in Completion, c.ec # "operation_aborted"
      PROVE  Uncancelled(Append(q, c))
  <2>1. /\ DOMAIN q = 1 .. Len(q) /\ Len(q) \in Nat
        /\ DOMAIN Append(q, c) = 1 .. Len(q) + 1
        /\ \A i \in 1 .. Len(q) : Append(q, c)[i] = q[i]
        /\ Append(q, c)[Len(q) + 1] = c
    BY AppendFacts
  <2>2. \A i \in DOMAIN Append(q, c) : i \in DOMAIN q \/ i = Len(q) + 1
    BY <2>1
  <2> QED
    BY <1>2, <2>1, <2>2 DEF Uncancelled
<1> QED
  BY <1>1, <1>2

\* No step of io.run() queues an operation_aborted.
LEMMA NothingCancelledStep ==
  ASSUME Core, NothingCancelled, [Next]_vars
  PROVE  NothingCancelled'
<1> SUFFICES ASSUME pc' = "run" PROVE Uncancelled(ready')
  BY DEF NothingCancelled, Uncancelled
<1>1. ready \in Seq(Completion) /\ allocs + 1 \in Nat
  BY CoreTypes
<1>2. pc = "run" => Uncancelled(ready)
  BY DEF NothingCancelled, Uncancelled
<1>3. CASE Tick \/ UNCHANGED vars
  BY <1>2, <1>3 DEF Tick, vars, socketVars
<1>4. CASE TimerExpires
  <2>1. /\ pc = "run" /\ ready' = Append(ready, Wait("ok"))
        /\ Wait("ok") \in Completion /\ Wait("ok").ec # "operation_aborted"
    BY <1>4, TimerExpiresEffect, CompletionFacts DEF TimerExpires
  <2> QED
    BY <1>1, <1>2, <2>1, UncancelledQueues
<1>5. ASSUME NEW ec \in {"ok", "error"}, SocketWritable(ec)
      PROVE  Uncancelled(ready')
  <2>1. /\ pc = "run" /\ writeq # <<>> /\ ready' = Append(ready, Sent(Head(writeq), ec))
    BY <1>5 DEF SocketWritable, ReactorWrite
  <2>2. Head(writeq) \in Nat
    BY Zenon, <2>1, CoreTypes, HeadTailProperties
  <2>3. /\ Sent(Head(writeq), ec) \in Completion
        /\ Sent(Head(writeq), ec).ec # "operation_aborted"
    BY <2>2, CompletionFacts DEF ErrorCode
  <2> QED
    BY <1>1, <1>2, <2>1, <2>3, UncancelledQueues
<1>6. ASSUME NEW now \in clock .. Horizon, NEW result \in Results, OnTimer(now, result)
      PROVE  Uncancelled(ready')
  <2>1. pc = "run" /\ ready # <<>>
    BY <1>6 DEF OnTimer, NextHandlerIs
  <2>2. Tail(ready) \in Seq(Completion) /\ Uncancelled(Tail(ready))
    BY <1>1, <1>2, <2>1, UncancelledQueues, TailFacts
  <2>3. \/ /\ result \in {"ok", "error"}
           /\ ready' = Append(Tail(ready), Sent(allocs + 1, result))
        \/ ready' = Tail(ready)
    BY Zenon, <1>6, OnTimerEffect
  <2>4. result \in {"ok", "error"} =>
          /\ Sent(allocs + 1, result) \in Completion
          /\ Sent(allocs + 1, result).ec # "operation_aborted"
    BY <1>1, CompletionFacts DEF ErrorCode
  <2> QED
    BY ZenonT(60), <2>2, <2>3, <2>4, UncancelledQueues
<1>7. CASE OnSent
  BY ZenonT(60), <1>2, <1>7, OnSentEffect, UncancelledQueues
<1>8. CASE Unwind
  BY <1>8, UnwindEffect
<1> QED
  BY <1>3, <1>4, <1>5, <1>6, <1>7, <1>8 DEF Next, Handler, Results

------------------------------------------------------------------------------
(***************************************************************************)
(* The numbers of the packets.                                             *)
(***************************************************************************)

\* What can be appended to the wire.
LEMMA WireAppend ==
  ASSUME Core, NEW m \in State
  PROVE  /\ Len(Append(wire, m)) = Len(wire) + 1
         /\ DOMAIN Append(wire, m) = 1 .. Len(wire) + 1
         /\ \A i \in DOMAIN Append(wire, m) :
              /\ i \in Nat /\ i >= 1
              /\ \/ i \in DOMAIN wire /\ i <= Len(wire) /\ Append(wire, m)[i] = wire[i]
                 \/ i = Len(wire) + 1 /\ Append(wire, m)[i] = m
<1>1. /\ DOMAIN wire = 1 .. Len(wire) /\ Len(wire) \in Nat
      /\ Len(Append(wire, m)) = Len(wire) + 1
      /\ DOMAIN Append(wire, m) = 1 .. Len(wire) + 1
      /\ \A i \in 1 .. Len(wire) : Append(wire, m)[i] = wire[i]
      /\ Append(wire, m)[Len(wire) + 1] = m
  BY CoreTypes, AppendFacts
<1>2. \A i \in 1 .. Len(wire) + 1 :
        /\ i \in Nat /\ i >= 1
        /\ (i \in 1 .. Len(wire) /\ i <= Len(wire)) \/ i = Len(wire) + 1
  BY <1>1
<1> QED
  BY <1>1, <1>2

\* The payload that joins the queue of the socket.
LEMMA WriteQueueAppend ==
  ASSUME Core, NEW b \in Nat
  PROVE  /\ Len(Append(writeq, b)) = Len(writeq) + 1
         /\ DOMAIN Append(writeq, b) = 1 .. Len(writeq) + 1
         /\ \A j \in DOMAIN Append(writeq, b) :
              /\ j \in Nat /\ j >= 1
              /\ \/ /\ j \in DOMAIN writeq /\ j <= Len(writeq)
                    /\ Append(writeq, b)[j] = writeq[j]
                 \/ j = Len(writeq) + 1 /\ Append(writeq, b)[j] = b
<1>1. /\ DOMAIN writeq = 1 .. Len(writeq) /\ Len(writeq) \in Nat
      /\ Len(Append(writeq, b)) = Len(writeq) + 1
      /\ DOMAIN Append(writeq, b) = 1 .. Len(writeq) + 1
      /\ \A i \in 1 .. Len(writeq) : Append(writeq, b)[i] = writeq[i]
      /\ Append(writeq, b)[Len(writeq) + 1] = b
  BY CoreTypes, AppendFacts
<1>2. \A i \in 1 .. Len(writeq) + 1 :
        /\ i \in Nat /\ i >= 1
        /\ (i \in 1 .. Len(writeq) /\ i <= Len(writeq)) \/ i = Len(writeq) + 1
  BY <1>1
<1> QED
  BY <1>1, <1>2

\* A tick numbers its packet with the next number, and sends it only when no
\* earlier one waits.
LEMMA NumberingOnTimer ==
  ASSUME Core, Numbering, NEW now \in clock .. Horizon, NEW result \in Results,
         OnTimer(now, result)
  PROVE  Numbering'
<1> DEFINE m == [seq |-> state.seq, tv |-> now]
<1>1. /\ pc = "run" /\ m \in State /\ allocs' = allocs + 1
      /\ state' = [seq |-> IF state.seq = SeqMax THEN 0 ELSE state.seq + 1, tv |-> now]
      /\ heap' = [i \in DOMAIN heap \union {allocs + 1} |->
                    IF i = allocs + 1 THEN m ELSE heap[i]]
  BY ZenonT(60), OnTimerEffect
<1>2. /\ state.seq = allocs % (SeqMax + 1)
      /\ \A b \in DOMAIN heap : heap[b].seq = (b - 1) % (SeqMax + 1)
      /\ \A j \in DOMAIN writeq : writeq[j] = allocs - Len(writeq) + j
      /\ Len(wire) <= attempts /\ attempts <= allocs
      /\ attempts = allocs - Len(writeq)
      /\ ~SendFailed => /\ Len(wire) = attempts
                        /\ \A i \in DOMAIN wire : wire[i].seq = (i - 1) % (SeqMax + 1)
  BY <1>1 DEF Numbering
<1>3. /\ allocs \in Nat /\ attempts \in Nat /\ Len(wire) \in Nat /\ Len(writeq) \in Nat
  BY CoreTypes
<1>4. state'.seq = allocs' % (SeqMax + 1)
  BY ZenonT(60), <1>1, <1>2, <1>3, SequenceNumbers
<1>5. \A b \in DOMAIN heap' : heap'[b].seq = (b - 1) % (SeqMax + 1)
  <2>1. (allocs + 1) - 1 = allocs
    BY <1>3
  <2> QED
    BY <1>1, <1>2, <2>1
<1>6. CASE /\ writeq = <<>> /\ writeq' = <<>>
           /\ attempts' = attempts + 1
           /\ \/ /\ wire' = Append(wire, m) /\ (SendFailed' <=> SendFailed)
              \/ wire' = wire /\ SendFailed'
  <2>1. Len(writeq) = 0 /\ Len(writeq') = 0 /\ DOMAIN writeq' = {}
    BY <1>6, EmptySeq
  <2>2. Len(wire') <= attempts' /\ attempts' <= allocs' /\ attempts' = allocs' - Len(writeq')
    BY <1>1, <1>2, <1>3, <1>6, <2>1, WireAppend
  <2>3. ASSUME ~SendFailed'
        PROVE  /\ Len(wire') = attempts'
               /\ \A i \in DOMAIN wire' : wire'[i].seq = (i - 1) % (SeqMax + 1)
    <3>1. /\ wire' = Append(wire, m) /\ ~SendFailed
      BY <1>6, <2>3
    <3>2. /\ Len(wire') = Len(wire) + 1
          /\ \A i \in DOMAIN wire' : \/ i \in DOMAIN wire /\ wire'[i] = wire[i]
                                     \/ i = Len(wire) + 1 /\ wire'[i] = m
      BY <1>1, <3>1, WireAppend
    <3>3. Len(wire) = allocs /\ (Len(wire) + 1) - 1 = allocs
      BY <1>2, <1>3, <2>1, <3>1
    <3>4. Len(wire') = attempts'
      BY <1>2, <1>3, <1>6, <3>1, <3>2
    <3> QED
      BY SMTT(60), <1>2, <3>1, <3>2, <3>3, <3>4
  <2> QED
    BY <1>4, <1>5, <2>1, <2>2, <2>3 DEF Numbering
<1>7. CASE /\ writeq' = Append(writeq, allocs + 1)
           /\ attempts' = attempts /\ wire' = wire /\ (SendFailed' <=> SendFailed)
  <2>1. /\ Len(writeq') = Len(writeq) + 1
        /\ \A j \in DOMAIN writeq' : /\ j \in Nat
                                     /\ \/ j \in DOMAIN writeq /\ writeq'[j] = writeq[j]
                                        \/ j = Len(writeq) + 1 /\ writeq'[j] = allocs + 1
    BY <1>3, <1>7, WriteQueueAppend
  <2>2. /\ allocs' = allocs + 1 /\ attempts = allocs - Len(writeq)
        /\ Len(wire) <= attempts /\ attempts <= allocs
        /\ \A j \in DOMAIN writeq : writeq[j] = allocs - Len(writeq) + j
    BY <1>1, <1>2
  <2>3. \A j \in DOMAIN writeq' : writeq'[j] = allocs' - Len(writeq') + j
    <3> TAKE j \in DOMAIN writeq'
    <3>1. CASE j \in DOMAIN writeq /\ writeq'[j] = writeq[j]
      <4>1. writeq'[j] = allocs - Len(writeq) + j /\ j \in Nat
        BY <2>1, <2>2, <3>1
      <4> QED
        BY <1>3, <2>1, <2>2, <4>1
    <3>2. CASE j = Len(writeq) + 1 /\ writeq'[j] = allocs + 1
      BY <1>3, <2>1, <2>2, <3>2
    <3> QED
      BY <2>1, <3>1, <3>2
  <2>4. attempts' <= allocs' /\ attempts' = allocs' - Len(writeq')
    BY <1>3, <1>7, <2>1, <2>2
  <2> QED
    BY <1>2, <1>4, <1>5, <1>7, <2>3, <2>4 DEF Numbering
<1> QED
  BY <1>6, <1>7, TickEffect

\* The reactor answers for the oldest packet that has no answer yet.
LEMMA NumberingSocketWritable ==
  ASSUME Core, Numbering, NEW ec \in {"ok", "error"}, SocketWritable(ec)
  PROVE  Numbering'
<1>1. /\ pc = "run"
      /\ 1 \in DOMAIN writeq
      /\ Len(writeq') = Len(writeq) - 1
      /\ \A j \in DOMAIN writeq' : /\ j \in Nat /\ j + 1 \in DOMAIN writeq
                                   /\ writeq'[j] = writeq[j + 1]
      /\ attempts' = attempts + 1
      /\ \/ wire' = Append(wire, heap[writeq[1]]) /\ (SendFailed' <=> SendFailed)
         \/ wire' = wire /\ SendFailed'
      /\ UNCHANGED <<heap, allocs, state>>
  BY WriteEffect
<1>2. /\ state.seq = allocs % (SeqMax + 1)
      /\ \A b \in DOMAIN heap : heap[b].seq = (b - 1) % (SeqMax + 1)
      /\ \A j \in DOMAIN writeq : writeq[j] = allocs - Len(writeq) + j
      /\ Len(wire) <= attempts /\ attempts <= allocs
      /\ attempts = allocs - Len(writeq)
      /\ ~SendFailed => /\ Len(wire) = attempts
                        /\ \A i \in DOMAIN wire : wire[i].seq = (i - 1) % (SeqMax + 1)
  BY <1>1 DEF Numbering
<1>3. /\ allocs \in Nat /\ attempts \in Nat /\ Len(wire) \in Nat /\ Len(writeq) \in Nat
      /\ DOMAIN writeq = 1 .. Len(writeq) /\ writeq[1] \in DOMAIN heap
      /\ heap[writeq[1]] \in State
  BY Zenon, <1>1, CoreTypes
<1>4. \A j \in DOMAIN writeq' : writeq'[j] = allocs' - Len(writeq') + j
  BY SMTT(60), <1>1, <1>2, <1>3
<1>5. writeq[1] = attempts + 1 /\ Len(writeq) >= 1
  BY <1>1, <1>2, <1>3
<1>6. Len(wire') <= attempts' /\ attempts' <= allocs' /\ attempts' = allocs' - Len(writeq')
  BY SMTT(60), <1>1, <1>2, <1>3, <1>5, WireAppend
<1>7. ASSUME ~SendFailed'
      PROVE  /\ Len(wire') = attempts'
             /\ \A i \in DOMAIN wire' : wire'[i].seq = (i - 1) % (SeqMax + 1)
  <2>1. wire' = Append(wire, heap[writeq[1]]) /\ ~SendFailed
    BY <1>1, <1>7
  <2>2. /\ Len(wire') = Len(wire) + 1
        /\ \A i \in DOMAIN wire' : \/ i \in DOMAIN wire /\ wire'[i] = wire[i]
                                   \/ i = Len(wire) + 1 /\ wire'[i] = heap[writeq[1]]
    BY <1>3, <2>1, WireAppend
  <2>3. Len(wire') = attempts' /\ writeq[1] = Len(wire) + 1
    BY Zenon, <1>1, <1>2, <1>3, <1>5, <2>1, <2>2
  <2>4. heap[writeq[1]].seq = (Len(wire) + 1 - 1) % (SeqMax + 1)
    BY <1>2, <1>3, <2>3
  <2> QED
    BY <1>2, <2>1, <2>2, <2>3, <2>4
<1> QED
  BY <1>1, <1>2, <1>4, <1>6, <1>7 DEF Numbering

\* Quiet steps build no packet and hand none to the kernel.
LEMMA NumberingQuiet ==
  ASSUME Core, Numbering, Quiet
  PROVE  Numbering'
<1>1. writeq' = writeq \/ DOMAIN writeq' = {}
  BY DEF Quiet
<1>2. \A j \in DOMAIN writeq' : writeq'[j] = allocs' - Len(writeq') + j
  BY <1>1 DEF Quiet, Numbering
<1> QED
  BY <1>2 DEF Quiet, Numbering

\* The constructor of MPingState starts at number 0.
LEMMA NumberingInit == Init => Numbering
<1> SUFFICES ASSUME Init PROVE Numbering
  OBVIOUS
<1>1. /\ state.seq = 0 /\ allocs = 0 /\ attempts = 0
      /\ writeq = <<>> /\ wire = <<>> /\ DOMAIN heap = {}
  BY DEF Init, socketInit, NewState
<1>2. Len(wire) = 0 /\ Len(writeq) = 0 /\ DOMAIN wire = {} /\ DOMAIN writeq = {}
  BY <1>1, EmptySeq
<1>3. state.seq = allocs % (SeqMax + 1)
  BY <1>1, SequenceNumbers
<1>4. allocs = 0 /\ attempts = 0
  BY <1>1
<1>5. /\ Len(wire) = attempts /\ attempts = allocs - Len(writeq)
      /\ Len(wire) <= attempts /\ attempts <= allocs
  BY <1>2, <1>4
<1> QED
  BY Zenon, <1>1, <1>2, <1>3, <1>5 DEF Numbering

------------------------------------------------------------------------------
(***************************************************************************)
(* The time stamps.                                                        *)
(***************************************************************************)

\* Pacing and PacedByClock in terms of Span and Due.
LEMMA PacingDef ==
  /\ Pacing <=>
       /\ state.tv <= clock
       /\ \A b \in DOMAIN heap :
            /\ Boot + Span(b) <= heap[b].tv
            /\ heap[b].tv <= state.tv
            /\ \A c \in DOMAIN heap : b <= c => heap[b].tv <= heap[c].tv
       /\ \A i \in DOMAIN wire :
            /\ wire[i].tv <= state.tv
            /\ \A j \in DOMAIN writeq : wire[i].tv <= heap[writeq[j]].tv
       /\ pc = "run" => Boot + Span(allocs + 1) <= Due
  /\ PacedByClock <=>
       /\ Span(allocs) <= clock - Boot
       /\ \A i \in DOMAIN wire :
            /\ Boot + Span(i) <= wire[i].tv
            /\ wire[i].tv <= clock
            /\ i > 1 => wire[i - 1].tv <= wire[i].tv
BY DEF Pacing, PacedByClock, Span, Due

\* When a tick runs, its turn has come; the one after it is a period away.
LEMMA TurnOfTick ==
  ASSUME Core, Pacing, NEW now \in clock .. Horizon, NEW result \in Results,
         OnTimer(now, result)
  PROVE  /\ Due = clock /\ Due' = clock + Period
         /\ now \in Nat /\ clock \in Nat /\ clock <= now
         /\ Boot + Span(allocs + 1) <= clock
         /\ Boot + Span(allocs' + 1) <= Due'
<1>1. pc = "run" /\ timer.waits = 0
  BY WaitHandlerRunsAlone DEF OnTimer, NextHandlerIs
<1>2. allocs' = allocs + 1 /\ timer' = [expiry |-> clock + Period, waits |-> 1]
  BY Zenon, OnTimerEffect
<1>3. allocs \in Nat /\ clock \in Nat /\ Boot \in Nat
  BY CoreTypes
<1>4. now \in Nat /\ clock <= now
  BY <1>3, HorizonAssumption
<1>5. Due = clock /\ Due' = clock + Period
  BY <1>1, <1>2 DEF Due
<1>6. Boot + Span(allocs + 1) <= clock
  BY <1>1, <1>5, PacingDef
<1>7. /\ Span(allocs + 1) \in Int /\ Period \in Nat
      /\ Span(allocs + 1 + 1) = Span(allocs + 1) + Period
  <2>1. allocs + 1 \in Int
    BY <1>3
  <2> QED
    BY <2>1, Spans
<1>8. Boot + Span(allocs' + 1) <= Due'
  BY <1>2, <1>3, <1>5, <1>6, <1>7
<1> QED
  BY <1>3, <1>4, <1>5, <1>6, <1>8

\* The payloads after a tick.
LEMMA HeapAfterTick ==
  ASSUME Core, NEW now \in clock .. Horizon, NEW result \in Results,
         OnTimer(now, result)
  PROVE  /\ allocs \in Nat /\ allocs + 1 \in DOMAIN heap'
         /\ heap'[allocs + 1] = [seq |-> state.seq, tv |-> now]
         /\ heap'[allocs + 1].tv = now
         /\ \A b \in DOMAIN heap : b \in DOMAIN heap' /\ heap'[b] = heap[b]
         /\ \A b \in DOMAIN heap' :
              \/ b \in DOMAIN heap /\ heap'[b] = heap[b] /\ b \in Nat /\ b <= allocs
              \/ b = allocs + 1
<1>1. heap' = [i \in DOMAIN heap \union {allocs + 1} |->
                 IF i = allocs + 1 THEN [seq |-> state.seq, tv |-> now] ELSE heap[i]]
  BY ZenonT(60), OnTimerEffect
<1>2. allocs \in Nat /\ \A b \in DOMAIN heap : b \in Nat /\ b <= allocs
  BY CoreTypes
<1>3. \A b \in DOMAIN heap : b # allocs + 1
  BY <1>2
<1> QED
  BY <1>1, <1>2, <1>3

\* A tick stamps its packet last of all and not before its turn.
LEMMA PacingOnTimer ==
  ASSUME Core, Core', Pacing, NEW now \in clock .. Horizon, NEW result \in Results,
         OnTimer(now, result)
  PROVE  Pacing'
<1> DEFINE m == [seq |-> state.seq, tv |-> now]
<1>0. /\ allocs \in Nat /\ allocs + 1 \in DOMAIN heap'
      /\ heap'[allocs + 1].tv = now
      /\ \A b \in DOMAIN heap : b \in DOMAIN heap' /\ heap'[b] = heap[b]
      /\ \A b \in DOMAIN heap' :
           \/ b \in DOMAIN heap /\ heap'[b] = heap[b] /\ b \in Nat /\ b <= allocs
           \/ b = allocs + 1
  BY Zenon, HeapAfterTick
<1>1. /\ m \in State /\ m.tv = now /\ clock' = now /\ state'.tv = now
  BY OnTimerEffect
<1>2. /\ now \in Nat /\ clock \in Nat /\ clock <= now
      /\ Boot + Span(allocs + 1) <= clock
      /\ Boot + Span(allocs' + 1) <= Due'
      /\ Boot + Span(allocs + 1) \in Int
  <2>1. /\ now \in Nat /\ clock \in Nat /\ clock <= now
        /\ Boot + Span(allocs + 1) <= clock
        /\ Boot + Span(allocs' + 1) <= Due'
    BY TurnOfTick
  <2>2. allocs + 1 \in Int /\ Boot \in Int
    BY <1>0, BootAssumption
  <2>3. Boot + Span(allocs + 1) \in Int
    BY <2>2, Spans
  <2> QED
    BY <2>1, <2>3
<1>3. /\ state.tv \in Nat /\ state.tv <= clock
      /\ \A b \in DOMAIN heap : /\ Boot + Span(b) <= heap[b].tv
                                /\ heap[b].tv \in Nat /\ heap[b].tv <= state.tv
                                /\ \A c \in DOMAIN heap : b <= c => heap[b].tv <= heap[c].tv
      /\ \A i \in DOMAIN wire : wire[i].tv \in Nat /\ wire[i].tv <= state.tv
      /\ \A i \in DOMAIN wire, j \in DOMAIN writeq : wire[i].tv <= heap[writeq[j]].tv
  BY ZenonT(60), PacingDef, CoreTypes
<1>4. \A b \in DOMAIN heap : heap[b].tv <= now
  BY <1>2, <1>3
<1>5. \A i \in DOMAIN wire : wire[i].tv <= now
  BY <1>2, <1>3
<1>6. \A b \in DOMAIN heap' : Boot + Span(b) <= heap'[b].tv /\ heap'[b].tv <= state'.tv
  <2>1. Boot + Span(allocs + 1) <= now /\ now <= now
    BY <1>2
  <2> QED
    BY <1>1, <1>3, <1>4, <2>1, <1>0
<1>7. \A b, c \in DOMAIN heap' : b <= c => heap'[b].tv <= heap'[c].tv
  <2> TAKE b, c \in DOMAIN heap'
  <2> HAVE b <= c
  <2>1. CASE b = allocs + 1
    <3>1. c = allocs + 1
      BY <1>0, <2>1
    <3>2. heap'[b].tv = now /\ heap'[c].tv = now
      BY <1>0, <2>1, <3>1
    <3> QED
      BY <1>2, <3>2
  <2>2. CASE b \in DOMAIN heap /\ c = allocs + 1
    BY <1>0, <1>4, <2>2
  <2>3. CASE b \in DOMAIN heap /\ c \in DOMAIN heap
    BY <1>0, <1>3, <2>3
  <2> QED
    BY <1>0, <2>1, <2>2, <2>3
<1>8. \A i \in DOMAIN wire' : wire'[i].tv <= state'.tv
  <2>1. now <= now
    BY <1>2
  <2>2. CASE wire' = wire
    BY <1>1, <1>5, <2>2
  <2>3. CASE wire' = Append(wire, m)
    <3>1. \A i \in DOMAIN wire' : (i \in DOMAIN wire /\ wire'[i] = wire[i]) \/ wire'[i] = m
      BY <1>1, <2>3, WireAppend
    <3> QED
      BY <1>1, <1>5, <2>1, <3>1
  <2> QED
    BY <2>2, <2>3, TickEffect
<1>9. \A i \in DOMAIN wire', j \in DOMAIN writeq' : wire'[i].tv <= heap'[writeq'[j]].tv
  <2>1. CASE writeq' = <<>>
    BY <2>1
  <2>2. CASE writeq' = Append(writeq, allocs + 1) /\ wire' = wire
    <3>1. allocs + 1 \in Nat
      BY <1>0
    <3>2. \A j \in DOMAIN writeq' : \/ j \in DOMAIN writeq /\ writeq'[j] = writeq[j]
                                    \/ writeq'[j] = allocs + 1
      BY <2>2, <3>1, WriteQueueAppend
    <3>3. \A j \in DOMAIN writeq : writeq[j] \in DOMAIN heap
      BY CoreTypes
    <3> TAKE i \in DOMAIN wire', j \in DOMAIN writeq'
    <3>4. CASE j \in DOMAIN writeq /\ writeq'[j] = writeq[j]
      BY <1>0, <1>3, <2>2, <3>3, <3>4
    <3>5. CASE writeq'[j] = allocs + 1
      BY <1>0, <1>5, <2>2, <3>5
    <3> QED
      BY <3>2, <3>4, <3>5
  <2> QED
    BY ZenonT(60), <2>1, <2>2, TickEffect
<1>10. state'.tv <= clock'
  BY <1>1, <1>2
<1> HIDE DEF m
<1>11. /\ state'.tv <= clock'
       /\ \A b \in DOMAIN heap' :
            /\ Boot + Span(b) <= heap'[b].tv
            /\ heap'[b].tv <= state'.tv
            /\ \A c \in DOMAIN heap' : b <= c => heap'[b].tv <= heap'[c].tv
       /\ \A i \in DOMAIN wire' :
            /\ wire'[i].tv <= state'.tv
            /\ \A j \in DOMAIN writeq' : wire'[i].tv <= heap'[writeq'[j]].tv
       /\ pc' = "run" => Boot + Span(allocs' + 1) <= Due'
  BY <1>2, <1>6, <1>7, <1>8, <1>9, <1>10
<1> QED
  BY <1>11 DEF Pacing, Span, Due

\* The payload that the reactor writes next is the oldest one.
LEMMA OldestWaiting ==
  ASSUME Core, Numbering, writeq # <<>>, pc = "run"
  PROVE  /\ 1 \in DOMAIN writeq /\ writeq[1] \in DOMAIN heap
         /\ writeq[1] = attempts + 1 /\ Len(wire) + 1 <= writeq[1]
         /\ \A j \in DOMAIN writeq : /\ j \in Nat /\ 1 <= j
                                     /\ writeq[j] \in DOMAIN heap /\ writeq[j] \in Nat
                                     /\ writeq[j] = writeq[1] + (j - 1)
<1>1. /\ attempts = allocs - Len(writeq) /\ Len(wire) <= attempts
      /\ \A j \in DOMAIN writeq : writeq[j] = allocs - Len(writeq) + j
  BY DEF Numbering
<1>2. /\ allocs \in Nat /\ Len(writeq) \in Nat /\ Len(wire) \in Nat
      /\ DOMAIN writeq = 1 .. Len(writeq) /\ writeq \in Seq(Nat)
      /\ \A j \in DOMAIN writeq : writeq[j] \in DOMAIN heap
      /\ \A b \in DOMAIN heap : b \in Nat
  BY CoreTypes
<1>3. Len(writeq) \in Nat \ {0}
  BY <1>2, TailFacts
<1>4. 1 \in DOMAIN writeq
  BY <1>2, <1>3
<1>5. writeq[1] = attempts + 1 /\ Len(wire) + 1 <= writeq[1]
  BY <1>1, <1>2, <1>4
<1>6. \A j \in DOMAIN writeq : j \in Nat /\ 1 <= j /\ writeq[j] = writeq[1] + (j - 1)
  <2> TAKE j \in DOMAIN writeq
  <2>1. j \in Nat /\ 1 <= j
    BY <1>2
  <2>2. writeq[j] = allocs - Len(writeq) + j /\ writeq[1] = allocs - Len(writeq) + 1
    BY <1>1, <1>4
  <2> QED
    BY <1>2, <2>1, <2>2
<1> QED
  BY Zenon, <1>2, <1>4, <1>5, <1>6

\* The reactor takes the payload with the oldest stamp.
LEMMA PacingSocketWritable ==
  ASSUME Core, Numbering, Pacing, NEW ec \in {"ok", "error"}, SocketWritable(ec)
  PROVE  Pacing'
<1> DEFINE m == heap[writeq[1]]
<1>1. /\ pc = "run" /\ writeq # <<>>
      /\ \A j \in DOMAIN writeq' : /\ j + 1 \in DOMAIN writeq
                                   /\ writeq'[j] = writeq[j + 1]
      /\ wire' = Append(wire, m) \/ wire' = wire
      /\ UNCHANGED <<heap, allocs, clock, pc, state, timer>>
  BY WriteEffect
<1>2. /\ 1 \in DOMAIN writeq /\ writeq[1] \in DOMAIN heap
      /\ \A j \in DOMAIN writeq : /\ writeq[j] \in DOMAIN heap
                                  /\ writeq[1] <= writeq[j]
  <2>1. /\ 1 \in DOMAIN writeq /\ writeq[1] \in DOMAIN heap
        /\ \A j \in DOMAIN writeq : /\ j \in Nat /\ 1 <= j
                                    /\ writeq[j] \in DOMAIN heap /\ writeq[j] \in Nat
                                    /\ writeq[j] = writeq[1] + (j - 1)
    BY <1>1, OldestWaiting
  <2> QED
    BY <2>1
<1>3. m \in State
  BY <1>2, CoreTypes
<1>4. /\ \A b \in DOMAIN heap : heap[b].tv <= state.tv
      /\ \A b, c \in DOMAIN heap : b <= c => heap[b].tv <= heap[c].tv
      /\ \A i \in DOMAIN wire : wire[i].tv <= state.tv
      /\ \A i \in DOMAIN wire, j \in DOMAIN writeq : wire[i].tv <= heap[writeq[j]].tv
  BY PacingDef
<1>5. \A i \in DOMAIN wire' : (i \in DOMAIN wire /\ wire'[i] = wire[i]) \/ wire'[i] = m
  BY <1>1, <1>3, WireAppend
<1>6. \A i \in DOMAIN wire' : wire'[i].tv <= state.tv
  BY <1>2, <1>4, <1>5
<1>7. \A i \in DOMAIN wire', j \in DOMAIN writeq' : wire'[i].tv <= heap[writeq'[j]].tv
  BY <1>1, <1>2, <1>4, <1>5
<1> HIDE DEF m
<1> QED
  BY <1>1, <1>6, <1>7 DEF Pacing

\* What a quiet step needs to know of the types, before it and after it.
LEMMA QuietTypes ==
  ASSUME Core, Core'
  PROVE  /\ clock \in Nat /\ Due \in Nat
         /\ clock' \in Nat /\ Due' \in Nat
         /\ \A j \in DOMAIN writeq' : writeq'[j] \in DOMAIN heap'
<1>1. clock \in Nat /\ Due \in Nat
  BY CoreTypes DEF Due
<1>2. /\ clock' \in Boot .. Horizon /\ timer' \in [expiry : Nat, waits : Nat]
      /\ DOMAIN heap' = Range(writeq') \union Captured(ready')
  BY DEF Core, TypeOK, BuffersOwned
<1>3. clock' \in Nat /\ timer'.expiry \in Nat
  BY <1>2, BootAssumption, HorizonAssumption
<1>4. \A j \in DOMAIN writeq' : writeq'[j] \in DOMAIN heap'
  BY <1>2 DEF Range
<1> QED
  BY <1>1, <1>3, <1>4 DEF Due

\* Quiet steps only let time pass and drop payloads.
LEMMA PacingQuiet ==
  ASSUME Core, Core', Pacing, Quiet
  PROVE  Pacing'
<1>1. /\ clock \in Nat /\ clock' \in Nat /\ clock <= clock' /\ state.tv \in Nat
      /\ UNCHANGED <<state, allocs, wire>>
      /\ DOMAIN heap' \subseteq DOMAIN heap
      /\ \A b \in DOMAIN heap' : heap'[b] = heap[b]
  BY CoreTypes, QuietTypes DEF Quiet
<1>2. \A j \in DOMAIN writeq' : writeq'[j] \in DOMAIN heap'
  BY QuietTypes
<1>3. /\ state.tv <= clock
      /\ \A b \in DOMAIN heap :
            /\ Boot + Span(b) <= heap[b].tv
            /\ heap[b].tv <= state.tv
            /\ \A c \in DOMAIN heap : b <= c => heap[b].tv <= heap[c].tv
      /\ \A i \in DOMAIN wire : wire[i].tv <= state.tv
      /\ \A i \in DOMAIN wire, j \in DOMAIN writeq : wire[i].tv <= heap[writeq[j]].tv
      /\ pc = "run" => Boot + Span(allocs + 1) <= Due
  BY PacingDef
<1>4. state'.tv <= clock'
  BY <1>1, <1>3
<1>5. \A i \in DOMAIN wire', j \in DOMAIN writeq' : wire'[i].tv <= heap'[writeq'[j]].tv
  <2>1. CASE writeq' = <<>>
    BY <2>1
  <2>2. CASE writeq' = writeq
    BY <1>1, <1>2, <1>3, <2>2
  <2> QED
    BY <2>1, <2>2 DEF Quiet
<1>6. ASSUME pc' = "run" PROVE Boot + Span(allocs' + 1) <= Due'
  <2>1. pc = "run" /\ Due <= Due' /\ allocs' = allocs
    BY <1>6 DEF Quiet
  <2>2. Due \in Int /\ Due' \in Int
    BY QuietTypes
  <2>3. allocs + 1 \in Int /\ Boot \in Int
    BY CoreTypes, BootAssumption
  <2>4. Span(allocs + 1) \in Int
    BY <2>3, Spans
  <2> QED
    BY <1>3, <2>1, <2>2, <2>3, <2>4
<1>7. \A b \in DOMAIN heap' :
            /\ Boot + Span(b) <= heap'[b].tv
            /\ heap'[b].tv <= state'.tv
            /\ \A c \in DOMAIN heap' : b <= c => heap'[b].tv <= heap'[c].tv
  BY <1>1, <1>3
<1>8. \A i \in DOMAIN wire' : wire'[i].tv <= state'.tv
  BY <1>1, <1>3
<1> QED
  BY <1>4, <1>5, <1>6, <1>7, <1>8 DEF Pacing, Span, Due

\* The first tick is due one period after the constructor.
LEMMA PacingInit == Init => Pacing /\ PacedByClock
<1> SUFFICES ASSUME Init PROVE Pacing /\ PacedByClock
  OBVIOUS
<1>1. /\ state.tv = 0 /\ allocs = 0 /\ clock = Boot
      /\ DOMAIN writeq = {} /\ DOMAIN wire = {} /\ DOMAIN heap = {}
      /\ Due = Boot + Period
  BY DEF Init, socketInit, NewState, Due
<1>2. Span(0 + 1) = Period /\ Span(0) = 0 /\ Period \in Nat /\ Boot \in Nat
  BY PeriodAssumption, BootAssumption DEF Span
<1>3. /\ state.tv <= clock /\ Boot + Span(allocs + 1) <= Due
      /\ Span(allocs) <= clock - Boot
  BY <1>1, <1>2
<1> QED
  BY <1>1, <1>3, PacingDef

\* A packet that goes out at once is stamped by this tick.
LEMMA PacedByClockOnTimer ==
  ASSUME Core, Numbering, Pacing, PacedByClock,
         NEW now \in clock .. Horizon, NEW result \in Results, OnTimer(now, result)
  PROVE  PacedByClock'
<1> DEFINE m == [seq |-> state.seq, tv |-> now]
<1>1. m \in State /\ m.tv = now /\ clock' = now /\ allocs' = allocs + 1
  BY OnTimerEffect
<1>2. /\ now \in Nat /\ clock \in Nat /\ clock <= now
      /\ Boot + Span(allocs + 1) <= clock
  BY TurnOfTick
<1>3. /\ allocs \in Nat /\ Len(wire) \in Nat /\ DOMAIN wire = 1 .. Len(wire)
      /\ Boot \in Nat /\ state.tv \in Nat
      /\ \A i \in DOMAIN wire : i \in Nat /\ wire[i].tv \in Nat
  BY CoreTypes
<1>4. Span(allocs + 1) \in Int /\ Span(Len(wire) + 1) \in Int
  BY <1>3, Spans
<1>5. Len(wire) + 1 <= allocs + 1
  <2>1. Len(wire) <= attempts /\ attempts <= allocs /\ attempts \in Nat
    BY CoreTypes DEF Numbering
  <2> QED
    BY <1>3, <2>1
<1>6. Span(Len(wire) + 1) <= Span(allocs + 1)
  <2>1. Len(wire) + 1 \in Int /\ allocs + 1 \in Int
    BY <1>3
  <2> QED
    BY <1>5, <2>1, Spans
<1>7. Boot + Span(Len(wire) + 1) <= now
  BY <1>2, <1>3, <1>4, <1>6
<1>8. /\ \A i \in DOMAIN wire : /\ Boot + Span(i) <= wire[i].tv
                                /\ wire[i].tv <= clock
                                /\ i > 1 => wire[i - 1].tv <= wire[i].tv
  BY PacingDef
<1>9. \A i \in DOMAIN wire : wire[i].tv <= now
  BY <1>2, <1>3, <1>8
<1>10. Span(allocs') <= clock' - Boot
  BY SMTT(60), <1>1, <1>2, <1>3, <1>4
<1>11. CASE wire' = wire
  BY <1>1, <1>8, <1>9, <1>10, <1>11 DEF PacedByClock, Span
<1>12. CASE wire' = Append(wire, m)
  <2>1. \A i \in DOMAIN wire' :
          /\ i \in Nat /\ i >= 1
          /\ \/ i \in DOMAIN wire /\ i <= Len(wire) /\ wire'[i] = wire[i]
             \/ i = Len(wire) + 1 /\ wire'[i] = m
    BY <1>1, <1>12, WireAppend
  <2>2. \A i \in DOMAIN wire' : Boot + Span(i) <= wire'[i].tv /\ wire'[i].tv <= now
    BY <1>1, <1>2, <1>7, <1>8, <1>9, <2>1
  <2>3. \A i \in DOMAIN wire' : i > 1 => /\ i - 1 \in DOMAIN wire
                                         /\ wire'[i - 1] = wire[i - 1]
    <3> TAKE i \in DOMAIN wire'
    <3> HAVE i > 1
    <3>1. i - 1 \in DOMAIN wire /\ i - 1 # Len(wire) + 1
      BY <1>3, <2>1
    <3>2. DOMAIN wire' = 1 .. Len(wire) + 1
      BY <1>1, <1>12, WireAppend
    <3>3. i - 1 \in DOMAIN wire'
      BY <1>3, <3>1, <3>2
    <3> QED
      BY <2>1, <3>1, <3>3
  <2>4. \A i \in DOMAIN wire' : i > 1 => wire'[i - 1].tv <= wire'[i].tv
    BY <1>1, <1>8, <1>9, <2>1, <2>3
  <2> QED
    BY <1>1, <1>10, <2>2, <2>4 DEF PacedByClock, Span
<1> QED
  BY <1>11, <1>12, TickEffect

\* A packet that had to wait keeps the stamp it was built with.
LEMMA PacedByClockSocketWritable ==
  ASSUME Core, Numbering, Pacing, PacedByClock,
         NEW ec \in {"ok", "error"}, SocketWritable(ec)
  PROVE  PacedByClock'
<1> DEFINE b == writeq[1]
           m == heap[b]
<1>1. /\ pc = "run" /\ writeq # <<>> /\ allocs' = allocs /\ clock' = clock
      /\ wire' = Append(wire, m) \/ wire' = wire
  BY WriteEffect
<1>2. /\ 1 \in DOMAIN writeq /\ b \in DOMAIN heap /\ Len(wire) + 1 <= b
  BY <1>1, OldestWaiting
<1>3. /\ Len(wire) \in Nat /\ DOMAIN wire = 1 .. Len(wire) /\ Boot \in Nat
      /\ m \in State /\ m.tv \in Nat /\ b \in Nat
      /\ clock \in Nat /\ state.tv \in Nat
  BY <1>2, CoreTypes
<1>4. /\ Boot + Span(b) <= m.tv /\ m.tv <= state.tv /\ state.tv <= clock
      /\ \A i \in DOMAIN wire : wire[i].tv <= m.tv
  BY <1>2, PacingDef
<1>5. /\ Span(allocs) <= clock - Boot
      /\ \A i \in DOMAIN wire : /\ Boot + Span(i) <= wire[i].tv
                                /\ wire[i].tv <= clock
                                /\ i > 1 => wire[i - 1].tv <= wire[i].tv
  BY PacingDef
<1> HIDE DEF b, m
<1>6. Boot + Span(Len(wire) + 1) <= m.tv
  <2>1. Len(wire) + 1 \in Int /\ b \in Int
    BY <1>3
  <2>2. Span(Len(wire) + 1) <= Span(b) /\ Span(Len(wire) + 1) \in Int /\ Span(b) \in Int
    BY <1>2, <2>1, Spans
  <2> QED
    BY <1>3, <1>4, <2>2
<1>7. m.tv <= clock
  BY <1>3, <1>4
<1>8. CASE wire' = wire
  BY <1>1, <1>5, <1>8 DEF PacedByClock, Span
<1>9. CASE wire' = Append(wire, m)
  <2>1. /\ DOMAIN wire' = 1 .. Len(wire) + 1
        /\ \A i \in DOMAIN wire' :
          /\ i \in Nat /\ i >= 1
          /\ \/ i \in DOMAIN wire /\ i <= Len(wire) /\ wire'[i] = wire[i]
             \/ i = Len(wire) + 1 /\ wire'[i] = m
    BY <1>3, <1>9, WireAppend
  <2>2. \A i \in DOMAIN wire' : Boot + Span(i) <= wire'[i].tv /\ wire'[i].tv <= clock
    BY <1>5, <1>6, <1>7, <2>1
  <2>3. \A i \in DOMAIN wire' : i > 1 => /\ i - 1 \in DOMAIN wire
                                         /\ wire'[i - 1] = wire[i - 1]
    <3> TAKE i \in DOMAIN wire'
    <3> HAVE i > 1
    <3>1. /\ i - 1 \in DOMAIN wire /\ i - 1 # Len(wire) + 1
          /\ i - 1 \in DOMAIN wire'
      BY <1>3, <2>1
    <3> QED
      BY <2>1, <3>1
  <2>4. \A i \in DOMAIN wire' : i > 1 => wire'[i - 1].tv <= wire'[i].tv
    BY <1>4, <1>5, <2>1, <2>3
  <2> QED
    BY <1>1, <1>5, <2>2, <2>4 DEF PacedByClock, Span
<1> QED
  BY <1>1, <1>8, <1>9

\* The clock of set_current_time does not run backwards.
LEMMA PacedByClockQuiet ==
  ASSUME Core, Core', PacedByClock, Quiet
  PROVE  PacedByClock'
<1>1. /\ clock \in Nat /\ clock' \in Nat /\ clock <= clock'
      /\ allocs' = allocs /\ wire' = wire
  BY QuietTypes DEF Quiet
<1>2. /\ Boot \in Nat /\ allocs \in Int
      /\ \A i \in DOMAIN wire : wire[i].tv \in Nat
  BY CoreTypes
<1>3. Span(allocs) \in Int
  BY <1>2, Spans
<1>4. /\ Span(allocs) <= clock - Boot
      /\ \A i \in DOMAIN wire : /\ Boot + Span(i) <= wire[i].tv
                                /\ wire[i].tv <= clock
                                /\ i > 1 => wire[i - 1].tv <= wire[i].tv
  BY PacingDef
<1>5. Span(allocs) <= clock' - Boot
  BY <1>1, <1>2, <1>3, <1>4
<1>6. \A i \in DOMAIN wire : wire[i].tv <= clock'
  BY <1>1, <1>2, <1>4
<1> QED
  BY <1>1, <1>4, <1>5, <1>6 DEF PacedByClock, Span

------------------------------------------------------------------------------
(***************************************************************************)
(* The distances between the time stamps.                                  *)
(***************************************************************************)

\* Spacing in terms of Span and Due.
LEMMA SpacingDef ==
  Spacing <=>
    /\ \A i, j \in DOMAIN wire : i < j => wire[i].tv + Span(j - i - 1) <= wire[j].tv
    /\ \A b, c \in DOMAIN heap : b < c => heap[b].tv + Span(c - b - 1) <= heap[c].tv
    /\ \A i \in DOMAIN wire, k \in DOMAIN writeq :
         wire[i].tv + Span(Len(wire) - i + k - 1) <= heap[writeq[k]].tv
    /\ pc = "run" =>
         /\ \A b \in DOMAIN heap :
              b < allocs => heap[b].tv + Span(allocs - b) <= Due
         /\ \A i \in DOMAIN wire :
              i < Len(wire) + Len(writeq) =>
                wire[i].tv + Span(Len(wire) + Len(writeq) - i) <= Due
BY DEF Spacing, NoBurst, Span, Due

\* Spans of equal and of consecutive lengths.
LEMMA NextSpan ==
  ASSUME NEW m \in Int, NEW n \in Int
  PROVE  /\ Span(m) \in Int
         /\ n = m + 1 => Span(n) = Span(m) + Period
         /\ m <= n => Span(m) <= Span(n)
         /\ m = 0 => Span(m) = 0
BY ZenonT(60), Spans

\* When a tick runs, the newest payload and the newest packet are in the past
\* and all others lie a period further back each.
LEMMA PastOfTick ==
  ASSUME Core, Numbering, Pacing, Spacing,
         NEW now \in clock .. Horizon, NEW result \in Results, OnTimer(now, result)
  PROVE  /\ \A b \in DOMAIN heap : heap[b].tv + Span(allocs - b) <= clock
         /\ \A i \in DOMAIN wire :
              wire[i].tv + Span(Len(wire) + Len(writeq) - i) <= clock
<1>1. pc = "run" /\ Due = clock
  BY TurnOfTick DEF OnTimer, NextHandlerIs
<1>2. /\ \A b \in DOMAIN heap :
              b < allocs => heap[b].tv + Span(allocs - b) <= clock
      /\ \A i \in DOMAIN wire :
              i < Len(wire) + Len(writeq) =>
                wire[i].tv + Span(Len(wire) + Len(writeq) - i) <= clock
  BY <1>1, SpacingDef
<1>3. /\ state.tv <= clock
      /\ \A b \in DOMAIN heap : heap[b].tv <= state.tv
      /\ \A i \in DOMAIN wire : wire[i].tv <= state.tv
  BY PacingDef
<1>4. /\ state.tv \in Nat /\ clock \in Nat /\ allocs \in Nat
      /\ Len(wire) \in Nat /\ Len(writeq) \in Nat /\ DOMAIN wire = 1 .. Len(wire)
      /\ \A i \in DOMAIN wire : wire[i].tv \in Nat
      /\ \A b \in DOMAIN heap : b \in Nat /\ b <= allocs /\ heap[b].tv \in Nat
  BY CoreTypes
<1>5. ASSUME NEW b \in DOMAIN heap
      PROVE  heap[b].tv + Span(allocs - b) <= clock
  <2>1. CASE b < allocs
    BY <1>2, <2>1
  <2>2. CASE allocs - b = 0
    <3>1. Span(allocs - b) = 0
      BY <2>2, Spans
    <3>2. heap[b].tv \in Nat /\ heap[b].tv <= clock
      BY <1>3, <1>4
    <3> QED
      BY <3>1, <3>2
  <2> QED
    BY <1>4, <2>1, <2>2
<1>6. ASSUME NEW i \in DOMAIN wire
      PROVE  wire[i].tv + Span(Len(wire) + Len(writeq) - i) <= clock
  <2>1. CASE i < Len(wire) + Len(writeq)
    BY <1>2, <2>1
  <2>2. CASE Len(wire) + Len(writeq) - i = 0
    <3>1. Span(Len(wire) + Len(writeq) - i) = 0
      BY <2>2, Spans
    <3>2. wire[i].tv \in Nat /\ wire[i].tv <= clock
      BY <1>3, <1>4
    <3> QED
      BY <3>1, <3>2
  <2> QED
    BY <1>4, <2>1, <2>2
<1> QED
  BY <1>5, <1>6

\* A tick puts its stamp a period after all others but the last.
LEMMA SpacingOnTimer ==
  ASSUME Core, Numbering, Pacing, Spacing,
         NEW now \in clock .. Horizon, NEW result \in Results, OnTimer(now, result)
  PROVE  Spacing'
<1> DEFINE m == [seq |-> state.seq, tv |-> now]
           past == Len(wire) + Len(writeq)
<1>0. /\ allocs \in Nat /\ allocs' = allocs + 1
      /\ Len(wire) \in Nat /\ Len(writeq) \in Nat /\ past \in Nat
      /\ DOMAIN wire = 1 .. Len(wire) /\ DOMAIN writeq = 1 .. Len(writeq)
      /\ \A i \in DOMAIN wire : i \in Int /\ wire[i].tv \in Nat
      /\ \A b \in DOMAIN heap : b \in Int /\ heap[b].tv \in Nat
      /\ \A j \in DOMAIN writeq : writeq[j] \in DOMAIN heap
      /\ m \in State /\ m.tv = now
  <2>1. allocs' = allocs + 1 /\ m \in State
    BY ZenonT(60), OnTimerEffect
  <2>2. m.tv = now
    OBVIOUS
  <2> HIDE DEF m
  <2> QED
    BY SMTT(60), <2>1, <2>2, CoreTypes
<1>1. /\ allocs + 1 \in DOMAIN heap' /\ heap'[allocs + 1].tv = now
      /\ \A b \in DOMAIN heap : b \in DOMAIN heap' /\ heap'[b] = heap[b]
      /\ \A b \in DOMAIN heap' :
           \/ b \in DOMAIN heap /\ heap'[b] = heap[b] /\ b \in Nat /\ b <= allocs
           \/ b = allocs + 1
  BY Zenon, HeapAfterTick
<1>2. /\ now \in Nat /\ clock \in Nat /\ clock <= now /\ Due = clock /\ Due' = clock + Period
      /\ pc = "run" /\ Period \in Nat
  BY ZenonT(60), TurnOfTick, OnTimerEffect, PeriodAssumption
<1>3. /\ \A i, j \in DOMAIN wire : i < j => wire[i].tv + Span(j - i - 1) <= wire[j].tv
      /\ \A b, c \in DOMAIN heap : b < c => heap[b].tv + Span(c - b - 1) <= heap[c].tv
      /\ \A i \in DOMAIN wire, k \in DOMAIN writeq :
           wire[i].tv + Span(Len(wire) - i + k - 1) <= heap[writeq[k]].tv
  BY Zenon, SpacingDef
<1>4. ASSUME NEW b \in DOMAIN heap
      PROVE  /\ heap[b].tv + Span(allocs + 1 - b - 1) <= now
             /\ heap[b].tv + Span(allocs + 1 - b) <= Due'
  <2>1. heap[b].tv + Span(allocs - b) <= clock
    BY PastOfTick
  <2>2. /\ allocs + 1 - b - 1 = allocs - b /\ allocs + 1 - b = (allocs - b) + 1
        /\ allocs - b \in Int /\ allocs + 1 - b \in Int
    BY <1>0
  <2>3. /\ Span(allocs - b) \in Int /\ Span(allocs + 1 - b) = Span(allocs - b) + Period
        /\ Span(allocs + 1 - b - 1) = Span(allocs - b)
    BY <2>2, NextSpan
  <2>4. heap[b].tv \in Nat
    BY <1>0
  <2> QED
    BY <1>2, <2>1, <2>3, <2>4
<1>5. ASSUME NEW i \in DOMAIN wire
      PROVE  /\ wire[i].tv + Span(past - i) <= now
             /\ wire[i].tv + Span(past + 1 - i) <= Due'
  <2>1. wire[i].tv + Span(past - i) <= clock
    BY PastOfTick
  <2>2. past + 1 - i = (past - i) + 1 /\ past - i \in Int /\ past + 1 - i \in Int
    BY <1>0
  <2>3. Span(past - i) \in Int /\ Span(past + 1 - i) = Span(past - i) + Period
    BY <2>2, NextSpan
  <2> QED
    BY SMTT(60), <1>0, <1>2, <2>1, <2>3
<1>6. \A b, c \in DOMAIN heap' : b < c => heap'[b].tv + Span(c - b - 1) <= heap'[c].tv
  <2> TAKE b, c \in DOMAIN heap'
  <2> HAVE b < c
  <2>1. b \in DOMAIN heap
    BY <1>0, <1>1
  <2>2. CASE c \in DOMAIN heap
    BY ZenonT(60), <1>1, <1>3, <2>1, <2>2
  <2>3. CASE c = allocs + 1
    <3>1. heap[b].tv + Span(allocs + 1 - b - 1) <= now
      BY <1>4, <2>1
    <3>2. heap'[b] = heap[b] /\ heap'[c].tv = now
      BY <1>1, <2>1, <2>3
    <3>3. c - b - 1 = allocs + 1 - b - 1
      BY <1>0, <2>1, <2>3
    <3> QED
      BY <3>1, <3>2, <3>3
  <2> QED
    BY <1>1, <2>2, <2>3
<1>7. \A b \in DOMAIN heap' : b < allocs' => heap'[b].tv + Span(allocs' - b) <= Due'
  <2> TAKE b \in DOMAIN heap'
  <2> HAVE b < allocs'
  <2>1. b \in DOMAIN heap /\ heap'[b] = heap[b]
    BY <1>0, <1>1
  <2> QED
    BY SMTT(60), <1>0, <1>4, <2>1
<1> HIDE DEF m
<1>8. CASE wire' = Append(wire, m) /\ writeq = <<>> /\ writeq' = <<>>
  <2>1. Len(writeq) = 0 /\ Len(writeq') = 0 /\ DOMAIN writeq' = {}
    BY <1>8, EmptySeq
  <2>2. /\ Len(wire') = Len(wire) + 1
        /\ \A i \in DOMAIN wire' :
             /\ i \in Nat
             /\ \/ i \in DOMAIN wire /\ wire'[i] = wire[i]
                \/ i = Len(wire) + 1 /\ wire'[i] = m
    BY <1>0, <1>8, WireAppend
  <2>3. past = Len(wire) /\ Len(wire') + Len(writeq') = past + 1
    BY <1>0, <2>1, <2>2
  <2>4. \A i, j \in DOMAIN wire' : i < j => wire'[i].tv + Span(j - i - 1) <= wire'[j].tv
    <3> TAKE i, j \in DOMAIN wire'
    <3> HAVE i < j
    <3>1. i \in DOMAIN wire /\ wire'[i] = wire[i]
      BY <1>0, <2>2
    <3>2. CASE j \in DOMAIN wire /\ wire'[j] = wire[j]
      BY <1>3, <3>1, <3>2
    <3>3. CASE j = Len(wire) + 1 /\ wire'[j] = m
      <4>1. j - i - 1 = past - i
        BY <1>0, <2>3, <3>1, <3>3
      <4> QED
        BY <1>0, <1>5, <3>1, <3>3, <4>1
    <3> QED
      BY <2>2, <3>2, <3>3
  <2>5. \A i \in DOMAIN wire' : i < past + 1 => wire'[i].tv + Span(past + 1 - i) <= Due'
    <3> TAKE i \in DOMAIN wire'
    <3> HAVE i < past + 1
    <3>1. i \in DOMAIN wire /\ wire'[i] = wire[i]
      BY <1>0, <2>2, <2>3
    <3> QED
      BY <1>5, <3>1
  <2> HIDE DEF past
  <2>6. /\ \A i \in DOMAIN wire', k \in DOMAIN writeq' :
             wire'[i].tv + Span(Len(wire') - i + k - 1) <= heap'[writeq'[k]].tv
        /\ \A i \in DOMAIN wire' : i < Len(wire') + Len(writeq') =>
             wire'[i].tv + Span(Len(wire') + Len(writeq') - i) <= Due'
    BY <2>1, <2>3, <2>5
  <2> QED
    BY ZenonT(60), <1>6, <1>7, <2>4, <2>6 DEF Spacing, NoBurst, Span, Due
<1>9. CASE wire' = wire /\ writeq = <<>> /\ writeq' = <<>>
  <2>1. Len(wire') + Len(writeq') = past /\ DOMAIN writeq' = {}
    BY <1>9
  <2>2. \A i \in DOMAIN wire' : i < past => wire'[i].tv + Span(past - i) <= Due'
    <3> TAKE i \in DOMAIN wire'
    <3>1. wire[i].tv + Span(past - i) <= clock
      BY <1>9, PastOfTick
    <3>2. past - i \in Int /\ wire[i].tv \in Nat
      BY <1>0, <1>9
    <3>3. Span(past - i) \in Int
      BY <3>2, Spans
    <3> QED
      BY <1>2, <1>9, <3>1, <3>2, <3>3
  <2> HIDE DEF past
  <2>3. /\ \A i \in DOMAIN wire', k \in DOMAIN writeq' :
             wire'[i].tv + Span(Len(wire') - i + k - 1) <= heap'[writeq'[k]].tv
        /\ \A i \in DOMAIN wire' : i < Len(wire') + Len(writeq') =>
             wire'[i].tv + Span(Len(wire') + Len(writeq') - i) <= Due'
    BY <2>1, <2>2
  <2>4. \A i, j \in DOMAIN wire' : i < j => wire'[i].tv + Span(j - i - 1) <= wire'[j].tv
    BY <1>3, <1>9
  <2> QED
    BY ZenonT(60), <1>6, <1>7, <2>3, <2>4 DEF Spacing, NoBurst, Span, Due
<1>10. CASE wire' = wire /\ writeq' = Append(writeq, allocs + 1)
  <2>1. /\ Len(writeq') = Len(writeq) + 1
        /\ \A k \in DOMAIN writeq' :
             /\ k \in Nat
             /\ \/ k \in DOMAIN writeq /\ writeq'[k] = writeq[k]
                \/ k = Len(writeq) + 1 /\ writeq'[k] = allocs + 1
    BY <1>0, <1>10, WriteQueueAppend
  <2>2. Len(wire') + Len(writeq') = past + 1
    BY <1>0, <1>10, <2>1
  <2>3. \A i \in DOMAIN wire', k \in DOMAIN writeq' :
          wire'[i].tv + Span(Len(wire') - i + k - 1) <= heap'[writeq'[k]].tv
    <3> TAKE i \in DOMAIN wire', k \in DOMAIN writeq'
    <3>1. CASE k \in DOMAIN writeq /\ writeq'[k] = writeq[k]
      <4>1. wire[i].tv + Span(Len(wire) - i + k - 1) <= heap[writeq[k]].tv
        BY ZenonT(60), <1>3, <1>10, <3>1
      <4>2. heap'[writeq[k]] = heap[writeq[k]]
        BY Zenon, <1>0, <1>1, <3>1
      <4> QED
        BY ZenonT(60), <1>10, <3>1, <4>1, <4>2
    <3>2. CASE k = Len(writeq) + 1 /\ writeq'[k] = allocs + 1
      <4>1. Len(wire') - i + k - 1 = past - i
        BY <1>0, <1>10, <3>2
      <4> QED
        BY ZenonT(60), <1>1, <1>5, <1>10, <3>2, <4>1
    <3> QED
      BY <2>1, <3>1, <3>2
  <2>4. \A i \in DOMAIN wire' : i < past + 1 => wire'[i].tv + Span(past + 1 - i) <= Due'
    BY <1>5, <1>10
  <2>5. \A i, j \in DOMAIN wire' : i < j => wire'[i].tv + Span(j - i - 1) <= wire'[j].tv
    BY <1>3, <1>10
  <2> HIDE DEF past
  <2>6. \A i \in DOMAIN wire' : i < Len(wire') + Len(writeq') =>
          wire'[i].tv + Span(Len(wire') + Len(writeq') - i) <= Due'
    <3> TAKE i \in DOMAIN wire'
    <3> DEFINE total == Len(wire') + Len(writeq')
    <3>0. past \in Nat /\ i \in Int
      BY <1>0, <1>10
    <3>1. total = past + 1
      BY <2>2
    <3>2. i < past + 1 => wire'[i].tv + Span(past + 1 - i) <= Due'
      BY <2>4
    <3> HIDE DEF total
    <3>3. i < total => wire'[i].tv + Span(total - i) <= Due'
      BY <3>0, <3>1, <3>2
    <3> QED BY <3>3 DEF total
  <2> QED
    BY ZenonT(60), <1>6, <1>7, <2>3, <2>5, <2>6 DEF Spacing, NoBurst, Span, Due
<1> QED
  BY <1>8, <1>9, <1>10, TickEffect DEF m

\* Going out, in order or not at all, does not bring stamps closer.
LEMMA SpacingSocketWritable ==
  ASSUME Core, Numbering, Spacing, NEW ec \in {"ok", "error"}, SocketWritable(ec)
  PROVE  Spacing'
<1> DEFINE b == writeq[1]
           m == heap[b]
           past == Len(wire) + Len(writeq)
<1>1. /\ pc = "run" /\ writeq # <<>> /\ Due' = Due
      /\ Len(writeq') = Len(writeq) - 1
      /\ \A k \in DOMAIN writeq' : /\ k \in Nat /\ k + 1 \in DOMAIN writeq
                                   /\ writeq'[k] = writeq[k + 1]
      /\ wire' = Append(wire, m) \/ wire' = wire
      /\ UNCHANGED <<heap, allocs>>
  BY WriteEffect DEF Due
<1>2. /\ b \in DOMAIN heap /\ b = attempts + 1
      /\ \A k \in DOMAIN writeq : /\ writeq[k] \in DOMAIN heap
                                  /\ writeq[k] = b + (k - 1)
      /\ 1 \in DOMAIN writeq
  BY <1>1, OldestWaiting
<1>3. /\ allocs \in Nat /\ b \in Nat
      /\ Len(wire) \in Nat /\ Len(writeq) \in Nat /\ past \in Nat
      /\ DOMAIN wire = 1 .. Len(wire) /\ DOMAIN writeq = 1 .. Len(writeq)
      /\ \A i \in DOMAIN wire : i \in Int /\ wire[i].tv \in Nat
      /\ \A c \in DOMAIN heap : heap[c].tv \in Nat
      /\ m \in State /\ m.tv \in Nat
      /\ Due \in Nat
  BY SMTT(60), <1>2, CoreTypes DEF Due
<1>4. allocs - b = Len(writeq) - 1
  <2>1. attempts = allocs - Len(writeq)
    BY <1>1 DEF Numbering
  <2> QED
    BY SMTT(60), <1>2, <1>3, <2>1
<1>5. /\ \A i, j \in DOMAIN wire : i < j => wire[i].tv + Span(j - i - 1) <= wire[j].tv
      /\ \A d, c \in DOMAIN heap : d < c => heap[d].tv + Span(c - d - 1) <= heap[c].tv
      /\ \A i \in DOMAIN wire, k \in DOMAIN writeq :
           wire[i].tv + Span(Len(wire) - i + k - 1) <= heap[writeq[k]].tv
      /\ \A d \in DOMAIN heap : d < allocs => heap[d].tv + Span(allocs - d) <= Due
      /\ \A i \in DOMAIN wire : i < past => wire[i].tv + Span(past - i) <= Due
  BY SMTT(60), <1>1, SpacingDef
<1> HIDE DEF b, m
<1>6. CASE wire' = Append(wire, m)
  <2>1. /\ Len(wire') = Len(wire) + 1
        /\ \A i \in DOMAIN wire' :
             /\ i \in Nat
             /\ \/ i \in DOMAIN wire /\ wire'[i] = wire[i]
                \/ i = Len(wire) + 1 /\ wire'[i] = m
    BY <1>3, <1>6, WireAppend
  <2>2. Len(wire') + Len(writeq') = past
    BY <1>1, <1>3, <2>1
  <2>3. \A i, j \in DOMAIN wire' : i < j => wire'[i].tv + Span(j - i - 1) <= wire'[j].tv
    <3> TAKE i, j \in DOMAIN wire'
    <3> HAVE i < j
    <3>1. i \in DOMAIN wire /\ wire'[i] = wire[i]
      BY <1>3, <2>1
    <3>2. CASE j \in DOMAIN wire /\ wire'[j] = wire[j]
      BY <1>5, <3>1, <3>2
    <3>3. CASE j = Len(wire) + 1 /\ wire'[j] = m
      <4>1. wire[i].tv + Span(Len(wire) - i + 1 - 1) <= heap[writeq[1]].tv
        BY <1>2, <1>5, <3>1
      <4>2. j - i - 1 = Len(wire) - i + 1 - 1
        BY <1>3, <3>1, <3>3
      <4> QED
        BY <3>1, <3>3, <4>1, <4>2 DEF m, b
    <3> QED
      BY <2>1, <3>2, <3>3
  <2>4. \A i \in DOMAIN wire', k \in DOMAIN writeq' :
          wire'[i].tv + Span(Len(wire') - i + k - 1) <= heap[writeq'[k]].tv
    <3> TAKE i \in DOMAIN wire', k \in DOMAIN writeq'
    <3>0. k \in Nat /\ k + 1 \in DOMAIN writeq /\ writeq'[k] = writeq[k + 1] /\ k >= 1
      <4>1. k \in Nat /\ k + 1 \in DOMAIN writeq /\ writeq'[k] = writeq[k + 1]
        BY <1>1
      <4>2. k \in 1 .. Len(writeq) - 1
        BY WriteEffect
      <4> QED
        BY <4>1, <4>2
    <3>1. CASE i \in DOMAIN wire /\ wire'[i] = wire[i]
      <4>1. wire[i].tv + Span(Len(wire) - i + (k + 1) - 1) <= heap[writeq[k + 1]].tv
        BY <1>5, <3>0, <3>1
      <4>2. Len(wire') - i + k - 1 = Len(wire) - i + (k + 1) - 1
        BY SMTT(60), <1>3, <2>1, <3>0, <3>1
      <4> QED
        BY <3>0, <3>1, <4>1, <4>2
    <3>2. CASE i = Len(wire) + 1 /\ wire'[i] = m
      <4>1. writeq[k + 1] \in DOMAIN heap /\ writeq[k + 1] = b + (k + 1 - 1)
        BY <1>2, <3>0
      <4>2. b < writeq[k + 1] /\ Len(wire') - i + k - 1 = writeq[k + 1] - b - 1
        BY <1>3, <2>1, <3>0, <3>2, <4>1
      <4>3. heap[b].tv + Span(writeq[k + 1] - b - 1) <= heap[writeq[k + 1]].tv
        BY ZenonT(60), <1>2, <1>5, <4>1, <4>2
      <4> QED
        BY <3>0, <3>2, <4>2, <4>3 DEF m
    <3> QED
      BY <2>1, <3>1, <3>2
  <2>5. \A i \in DOMAIN wire' : i < past => wire'[i].tv + Span(past - i) <= Due
    <3> TAKE i \in DOMAIN wire'
    <3> HAVE i < past
    <3>1. CASE i \in DOMAIN wire /\ wire'[i] = wire[i]
      BY <1>5, <3>1
    <3>2. CASE i = Len(wire) + 1 /\ wire'[i] = m
      <4>1. past - i = allocs - b /\ b < allocs
        BY <1>3, <1>4, <3>2
      <4>2. heap[b].tv + Span(allocs - b) <= Due
        BY <1>2, <1>5, <4>1
      <4> QED
        BY <3>2, <4>1, <4>2 DEF m
    <3> QED
      BY <2>1, <3>1, <3>2
  <2> HIDE DEF past
  <2>6. /\ \A d, c \in DOMAIN heap' : d < c => heap'[d].tv + Span(c - d - 1) <= heap'[c].tv
        /\ \A d \in DOMAIN heap' : d < allocs' => heap'[d].tv + Span(allocs' - d) <= Due'
        /\ \A i \in DOMAIN wire', k \in DOMAIN writeq' :
             wire'[i].tv + Span(Len(wire') - i + k - 1) <= heap'[writeq'[k]].tv
        /\ \A i \in DOMAIN wire' : i < Len(wire') + Len(writeq') =>
             wire'[i].tv + Span(Len(wire') + Len(writeq') - i) <= Due'
    BY SMTT(60), <1>1, <1>5, <2>2, <2>4, <2>5
  <2> QED
    BY ZenonT(60), <2>3, <2>6 DEF Spacing, NoBurst, Span, Due
<1>7. CASE wire' = wire
  <2>1. Len(wire') = Len(wire) /\ Len(wire') + Len(writeq') = past - 1
    BY <1>1, <1>3, <1>7
  <2>2. \A i \in DOMAIN wire', k \in DOMAIN writeq' :
          wire'[i].tv + Span(Len(wire') - i + k - 1) <= heap[writeq'[k]].tv
    <3> TAKE i \in DOMAIN wire', k \in DOMAIN writeq'
    <3>0. k \in Nat /\ k + 1 \in DOMAIN writeq /\ writeq'[k] = writeq[k + 1]
      BY <1>1
    <3>1. i \in DOMAIN wire /\ wire'[i] = wire[i] /\ i \in Int /\ wire[i].tv \in Nat
      BY <1>3, <1>7
    <3>2. wire[i].tv + Span(Len(wire) - i + (k + 1) - 1) <= heap[writeq[k + 1]].tv
      BY <1>5, <3>0, <3>1
    <3>3. /\ Len(wire') - i + k - 1 \in Int /\ Len(wire) - i + (k + 1) - 1 \in Int
          /\ Len(wire') - i + k - 1 <= Len(wire) - i + (k + 1) - 1
      BY SMTT(60), <1>3, <2>1, <3>0, <3>1
    <3>4. /\ Span(Len(wire') - i + k - 1) \in Int
          /\ Span(Len(wire) - i + (k + 1) - 1) \in Int
          /\ Span(Len(wire') - i + k - 1) <= Span(Len(wire) - i + (k + 1) - 1)
      BY <3>3, NextSpan
    <3>5. heap[writeq[k + 1]].tv \in Nat
      BY <1>2, <1>3, <3>0
    <3>6. wire[i].tv + Span(Len(wire') - i + k - 1) <= heap[writeq[k + 1]].tv
      BY SMTT(60), <3>1, <3>2, <3>4, <3>5
    <3> QED
      BY ZenonT(60), <3>0, <3>1, <3>6
  <2>3. \A i \in DOMAIN wire' : i < past - 1 => wire'[i].tv + Span(past - 1 - i) <= Due
    <3> TAKE i \in DOMAIN wire'
    <3> HAVE i < past - 1
    <3>1. i \in DOMAIN wire /\ wire'[i] = wire[i] /\ i \in Int /\ wire[i].tv \in Nat
      BY <1>3, <1>7
    <3>2. wire[i].tv + Span(past - i) <= Due
      BY SMTT(60), <1>3, <1>5, <3>1
    <3>3. past - 1 - i \in Int /\ past - i \in Int /\ past - 1 - i <= past - i
      BY <1>3, <3>1
    <3>4. /\ Span(past - 1 - i) \in Int /\ Span(past - i) \in Int
          /\ Span(past - 1 - i) <= Span(past - i)
      BY <3>3, NextSpan
    <3> QED
      BY <1>3, <3>1, <3>2, <3>4
  <2> HIDE DEF past
  <2>4. /\ \A i, j \in DOMAIN wire' : i < j => wire'[i].tv + Span(j - i - 1) <= wire'[j].tv
        /\ \A d, c \in DOMAIN heap' : d < c => heap'[d].tv + Span(c - d - 1) <= heap'[c].tv
        /\ \A d \in DOMAIN heap' : d < allocs' => heap'[d].tv + Span(allocs' - d) <= Due'
    BY <1>1, <1>5, <1>7
  <2>5. /\ \A i \in DOMAIN wire', k \in DOMAIN writeq' :
             wire'[i].tv + Span(Len(wire') - i + k - 1) <= heap'[writeq'[k]].tv
        /\ \A i \in DOMAIN wire' : i < Len(wire') + Len(writeq') =>
             wire'[i].tv + Span(Len(wire') + Len(writeq') - i) <= Due'
    BY <1>1, <2>1, <2>2, <2>3
  <2> QED
    BY ZenonT(60), <2>4, <2>5 DEF Spacing, NoBurst, Span, Due
<1> QED
  BY <1>1, <1>6, <1>7

\* Quiet steps change no stamp and no tick becomes due earlier.
LEMMA SpacingQuiet ==
  ASSUME Core, Core', Spacing, Quiet
  PROVE  Spacing'
<1>1. /\ allocs' = allocs /\ wire' = wire
      /\ \A b \in DOMAIN heap' : b \in DOMAIN heap /\ heap'[b] = heap[b]
  BY DEF Quiet
<1>2. \A j \in DOMAIN writeq' : writeq'[j] \in DOMAIN heap'
  BY QuietTypes
<1>3. /\ \A i, j \in DOMAIN wire : i < j => wire[i].tv + Span(j - i - 1) <= wire[j].tv
      /\ \A b, c \in DOMAIN heap : b < c => heap[b].tv + Span(c - b - 1) <= heap[c].tv
      /\ \A i \in DOMAIN wire, k \in DOMAIN writeq :
           wire[i].tv + Span(Len(wire) - i + k - 1) <= heap[writeq[k]].tv
  BY ZenonT(60), SpacingDef
<1>4. \A i \in DOMAIN wire', k \in DOMAIN writeq' :
        wire'[i].tv + Span(Len(wire') - i + k - 1) <= heap'[writeq'[k]].tv
  <2>1. CASE writeq' = <<>>
    BY <2>1
  <2>2. CASE writeq' = writeq
    BY SMTT(60), <1>1, <1>2, <1>3, <2>2
  <2> QED
    BY <2>1, <2>2 DEF Quiet
<1>5. ASSUME pc' = "run"
      PROVE  /\ \A b \in DOMAIN heap' :
                  b < allocs' => heap'[b].tv + Span(allocs' - b) <= Due'
             /\ \A i \in DOMAIN wire' :
                  i < Len(wire') + Len(writeq') =>
                    wire'[i].tv + Span(Len(wire') + Len(writeq') - i) <= Due'
  <2>1. pc = "run" /\ Due <= Due' /\ writeq' = writeq
    BY <1>5 DEF Quiet
  <2>2. Due \in Int /\ Due' \in Int
    BY QuietTypes
  <2>3. /\ \A b \in DOMAIN heap :
             b < allocs => heap[b].tv + Span(allocs - b) <= Due
        /\ \A i \in DOMAIN wire :
             i < Len(wire) + Len(writeq) =>
               wire[i].tv + Span(Len(wire) + Len(writeq) - i) <= Due
    BY <2>1, SpacingDef
  <2>4. /\ allocs \in Nat /\ Len(wire) \in Nat /\ Len(writeq) \in Nat
        /\ \A i \in DOMAIN wire : i \in Int /\ wire[i].tv \in Int
        /\ \A b \in DOMAIN heap : b \in Int /\ heap[b].tv \in Int
    BY CoreTypes
  <2>5. \A b \in DOMAIN heap :
          b < allocs => heap[b].tv + Span(allocs - b) <= Due'
    <3> TAKE b \in DOMAIN heap
    <3>1. Span(allocs - b) \in Int /\ heap[b].tv \in Int
      BY SMTT(60), <2>4, Spans
    <3> QED
      BY <2>1, <2>2, <2>3, <3>1
  <2>6. \A i \in DOMAIN wire :
          i < Len(wire) + Len(writeq) =>
            wire[i].tv + Span(Len(wire) + Len(writeq) - i) <= Due'
    <3> TAKE i \in DOMAIN wire
    <3>1. Len(wire) + Len(writeq) - i \in Int /\ wire[i].tv \in Int
      BY <2>4
    <3>2. Span(Len(wire) + Len(writeq) - i) \in Int
      BY <3>1, Spans
    <3> QED
      BY <2>1, <2>2, <2>3, <3>1, <3>2
  <2> QED
    BY <1>1, <2>1, <2>5, <2>6
<1>6. /\ \A i, j \in DOMAIN wire' : i < j => wire'[i].tv + Span(j - i - 1) <= wire'[j].tv
      /\ \A b, c \in DOMAIN heap' : b < c => heap'[b].tv + Span(c - b - 1) <= heap'[c].tv
  BY <1>1, <1>3
<1> QED
  BY ZenonT(60), <1>4, <1>5, <1>6 DEF Spacing, NoBurst, Span, Due

\* There are no stamps yet.
LEMMA SpacingInit == Init => Spacing
<1> SUFFICES ASSUME Init PROVE Spacing
  OBVIOUS
<1>1. DOMAIN writeq = {} /\ DOMAIN wire = {} /\ DOMAIN heap = {}
  BY DEF Init, socketInit
<1> QED
  BY <1>1, SpacingDef

\* The queue of the socket spans the stamps of its oldest and newest payload,
\* and the newest lies in the past.
LEMMA BacklogFollows == Core /\ Numbering /\ Pacing /\ Spacing => BacklogBounded
<1> SUFFICES ASSUME Core, Numbering, Pacing, Spacing, writeq # <<>>
             PROVE  heap[Head(writeq)].tv + Span(Len(writeq) - 2) <= clock
  BY DEF BacklogBounded, Span
<1> DEFINE n == Len(writeq)
           b == writeq[1]
           c == writeq[n]
<1>1. /\ writeq \in Seq(Nat) /\ n \in Nat /\ DOMAIN writeq = 1 .. n
      /\ \A j \in DOMAIN writeq : writeq[j] \in DOMAIN heap
      /\ \A d \in DOMAIN heap : d \in Nat /\ heap[d].tv \in Nat
      /\ allocs \in Nat /\ clock \in Nat /\ state.tv \in Nat
  BY CoreTypes
<1>2. n \in Nat \ {0} /\ Head(writeq) = b
  BY <1>1, TailFacts
<1>3. 1 \in DOMAIN writeq /\ n \in DOMAIN writeq
  BY <1>1, <1>2
<1>4. /\ b \in DOMAIN heap /\ c \in DOMAIN heap
      /\ b = allocs - n + 1 /\ c = allocs - n + n
  BY Zenon, <1>1, <1>3 DEF Numbering
<1>5. heap[b].tv \in Nat /\ heap[c].tv \in Nat /\ heap[b].tv <= clock /\ heap[c].tv <= clock
  <2>1. state.tv <= clock /\ heap[b].tv <= state.tv /\ heap[c].tv <= state.tv
    BY <1>4, PacingDef
  <2> QED
    BY <1>1, <1>4, <2>1
<1> HIDE DEF b, c, n
<1>6. CASE n = 1
  <2>1. n - 2 \in Int /\ 0 \in Int /\ n - 2 <= 0
    BY <1>6
  <2>2. Span(n - 2) <= 0 /\ Span(n - 2) \in Int
    BY <2>1, Spans
  <2>3. heap[b].tv + Span(n - 2) <= clock
    BY SMTT(60), <1>1, <1>5, <2>2
  <2> QED
    BY <1>2, <2>3 DEF n
<1>7. CASE n # 1
  <2>1. b < c /\ c - b - 1 = n - 2 /\ n - 2 \in Int
    BY <1>1, <1>2, <1>4, <1>7
  <2>2. heap[b].tv + Span(c - b - 1) <= heap[c].tv
    BY <1>4, <2>1, SpacingDef
  <2>3. Span(n - 2) \in Int /\ Span(c - b - 1) = Span(n - 2)
    BY <2>1, Spans
  <2>4. heap[b].tv + Span(n - 2) <= clock
    BY SMTT(60), <1>1, <1>5, <2>2, <2>3
  <2> QED
    BY <1>2, <2>4 DEF n
<1> QED
  BY <1>6, <1>7

------------------------------------------------------------------------------
(***************************************************************************)
(* The inductive invariant.                                                *)
(***************************************************************************)

\* The state in which main calls io.run().
LEMMA IInvInit == Init => IInv
<1> SUFFICES ASSUME Init PROVE IInv
  OBVIOUS
<1>1. Core /\ Numbering /\ Pacing /\ PacedByClock /\ Spacing
  BY CoreInit, NumberingInit, PacingInit, SpacingInit
<1>2. NothingCancelled
  BY DEF Init, socketInit, NothingCancelled
<1>3. BacklogBounded
  BY <1>1, BacklogFollows
<1> QED
  BY <1>1, <1>2, <1>3 DEF IInv, Core

\* Every step of the program and of its surroundings preserves IInv.
LEMMA IInvStep == IInv /\ [Next]_vars => IInv'
<1> SUFFICES ASSUME IInv, [Next]_vars PROVE IInv'
  OBVIOUS
<1>1. Core /\ NothingCancelled /\ Numbering /\ Pacing /\ PacedByClock /\ Spacing
  BY DEF IInv, Core
<1>2. Core'
  BY <1>1, CoreStep
<1>3. NothingCancelled'
  BY <1>1, NothingCancelledStep
<1>4. ASSUME NEW now \in clock .. Horizon, NEW result \in Results, OnTimer(now, result)
      PROVE  Numbering' /\ Pacing' /\ PacedByClock' /\ Spacing'
  BY <1>1, <1>2, <1>4, NumberingOnTimer, PacingOnTimer, PacedByClockOnTimer, SpacingOnTimer
<1>5. ASSUME NEW ec \in {"ok", "error"}, SocketWritable(ec)
      PROVE  Numbering' /\ Pacing' /\ PacedByClock' /\ Spacing'
  BY <1>1, <1>5, NumberingSocketWritable, PacingSocketWritable,
     PacedByClockSocketWritable, SpacingSocketWritable
<1>6. ASSUME Quiet
      PROVE  Numbering' /\ Pacing' /\ PacedByClock' /\ Spacing'
  BY <1>1, <1>2, <1>6, NumberingQuiet, PacingQuiet, PacedByClockQuiet, SpacingQuiet
<1>7. Numbering' /\ Pacing' /\ PacedByClock' /\ Spacing'
  BY <1>1, <1>4, <1>5, <1>6, Steps
<1>8. BacklogBounded'
  <2>1. (Core /\ Numbering /\ Pacing /\ Spacing => BacklogBounded)'
    BY BacklogFollows, PTL
  <2> QED
    BY <1>2, <1>7, <2>1
<1> QED
  BY <1>2, <1>3, <1>7, <1>8 DEF IInv, Core

\* The inductive invariant holds in every state of every execution.
THEOREM Inductive == Spec => []IInv
BY IInvInit, IInvStep, PTL DEF Spec

\* While io.run() runs and no failed send is queued, the packets on the wire
\* are numbered 0, 1, 2, ... as next_seq_no counts, and all others wait.
THEOREM StreamGapless == Spec => []WireGapless
<1>1. IInv => WireGapless
  <2> SUFFICES ASSUME Core, Numbering, pc = "run", ~SendFailed
               PROVE  /\ \A i \in DOMAIN wire : wire[i].seq = (i - 1) % (SeqMax + 1)
                      /\ Len(wire) + Len(writeq) = allocs
    BY DEF IInv, Core, WireGapless
  <2>1. /\ attempts = allocs - Len(writeq) /\ Len(wire) = attempts
        /\ \A i \in DOMAIN wire : wire[i].seq = (i - 1) % (SeqMax + 1)
    BY DEF Numbering
  <2>2. allocs \in Nat /\ Len(writeq) \in Nat
    BY CoreTypes
  <2> QED
    BY <2>1, <2>2
<1> QED
  BY <1>1, Inductive, PTL

\* No packet is stamped before its turn or in the future, and the stamps do
\* not decrease: the timer that schedule_send arms paces the stream.
THEOREM StreamPaced == Spec => []PacedByClock
<1>1. IInv => PacedByClock
  BY DEF IInv
<1> QED
  BY <1>1, Inductive, PTL

\* expires_after never makes up for late ticks in a burst.
THEOREM StreamWithoutBursts == Spec => []NoBurst
<1>1. IInv => NoBurst
  BY DEF IInv, Spacing
<1> QED
  BY <1>1, Inductive, PTL

\* The payloads that wait for the socket grow by one per period at most.
THEOREM BacklogGrowsWithTime == Spec => []BacklogBounded
<1>1. IInv => BacklogBounded
  BY DEF IInv
<1> QED
  BY <1>1, Inductive, PTL

=============================================================================
