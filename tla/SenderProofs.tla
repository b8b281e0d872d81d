---------------------------- MODULE SenderProofs ----------------------------
(***************************************************************************)
(* Proofs about Sender, for every Period, Boot, Horizon and SeqMax.        *)
(***************************************************************************)
EXTENDS Sender, SequenceTheorems, TLAPS

------------------------------------------------------------------------------
(***************************************************************************)
(* Queues of completions and of payloads.                                  *)
(***************************************************************************)

\* Popping a queue shifts it by one.
LEMMA TailFacts ==
  ASSUME NEW S, NEW q \in Seq(S), q # <<>>
  PROVE  /\ Tail(q) \in Seq(S)
         /\ DOMAIN q = 1 .. Len(q)
         /\ Len(q) \in Nat \ {0}
         /\ Head(q) = q[1]
         /\ q[1] \in S
         /\ Len(Tail(q)) = Len(q) - 1
         /\ DOMAIN Tail(q) = 1 .. Len(q) - 1
         /\ \A i \in 1 .. Len(q) - 1 : Tail(q)[i] = q[i + 1]
BY HeadTailProperties, LenProperties, EmptySeq, ElementOfSeq

\* Appending leaves the elements of a queue where they are.
LEMMA AppendFacts ==
  ASSUME NEW S, NEW q \in Seq(S), NEW e \in S
  PROVE  /\ Append(q, e) \in Seq(S)
         /\ DOMAIN q = 1 .. Len(q)
         /\ Len(q) \in Nat
         /\ Len(Append(q, e)) = Len(q) + 1
         /\ DOMAIN Append(q, e) = 1 .. Len(q) + 1
         /\ \A i \in 1 .. Len(q) : Append(q, e)[i] = q[i]
         /\ Append(q, e)[Len(q) + 1] = e
BY AppendProperties, LenProperties

\* Concatenation.
LEMMA ConcatFacts ==
  ASSUME NEW S, NEW p \in Seq(S), NEW q \in Seq(S)
  PROVE  /\ p \o q \in Seq(S)
         /\ Len(p) \in Nat /\ Len(q) \in Nat
         /\ DOMAIN p = 1 .. Len(p) /\ DOMAIN q = 1 .. Len(q)
         /\ DOMAIN (p \o q) = 1 .. Len(p) + Len(q)
         /\ \A i \in 1 .. Len(p) : (p \o q)[i] = p[i]
         /\ \A i \in 1 .. Len(q) : (p \o q)[Len(p) + i] = q[i]
BY ConcatProperties, LenProperties

\* A function on 1 .. n is a queue of length n.
LEMMA FunctionIsSeq ==
  ASSUME NEW S, NEW n \in Nat, NEW f \in [1 .. n -> S]
  PROVE  /\ f \in Seq(S)
         /\ Len(f) = n
BY SeqDef, LenProperties

\* What completions are made of.
LEMMA CompletionFacts ==
  /\ \A ec \in ErrorCode : Wait(ec) \in Completion
  /\ \A b \in Nat, ec \in ErrorCode : Sent(b, ec) \in Completion
  /\ \A ec : Wait(ec).kind = "wait" /\ Wait(ec).ec = ec
  /\ \A b, ec : Sent(b, ec).kind = "send" /\ Sent(b, ec).ec = ec /\ Sent(b, ec).buf = b
  /\ \A c \in Completion : c.kind \in {"wait", "send"} /\ c.buf \in Nat
BY DEF Wait, Sent, Completion, ErrorCode

\* A queue of completions, element by element.
LEMMA ReadyFacts ==
  ASSUME NEW q \in Seq(Completion)
  PROVE  /\ Len(q) \in Nat
         /\ DOMAIN q = 1 .. Len(q)
         /\ \A i \in 1 .. Len(q) : /\ q[i] \in Completion
                                  /\ q[i].kind \in {"wait", "send"}
                                  /\ q[i].buf \in Nat
BY LenProperties, ElementOfSeq, CompletionFacts

\* Appending no cancelled wait changes nothing.
LEMMA NothingAborted ==
  ASSUME NEW q \in Seq(Completion), timer.waits = 0
  PROVE  ScheduleQueue(q) = q
<1>1. Aborted(0) \in [1 .. 0 -> Completion]
  BY CompletionFacts DEF Aborted, ErrorCode
<1>2. Aborted(0) \in Seq(Completion) /\ Len(Aborted(0)) = 0
  BY <1>1, FunctionIsSeq
<1>3. q \o Aborted(0) \in Seq(Completion) /\ Len(q \o Aborted(0)) = Len(q)
  BY <1>2, ConcatProperties, LenProperties
<1>4. \A i \in 1 .. Len(q) : (q \o Aborted(0))[i] = q[i]
  BY <1>2, ConcatFacts
<1> QED
  BY <1>3, <1>4, SeqEqual DEF ScheduleQueue

------------------------------------------------------------------------------
(***************************************************************************)
(* The first layer: types, the one outstanding wait, the owned payloads.   *)
(***************************************************************************)
Core == TypeOK /\ TimerChain /\ BuffersOwned

\* When the handler of a wait runs, that wait was the only one, has expired
\* and has left the timer: the error branch of the lambda is dead code and
\* expires_after cancels nothing.
LEMMA WaitHandlerRunsAlone ==
  ASSUME Core, NextHandlerIs("wait")
  PROVE  /\ Head(ready).ec = "ok"
         /\ timer.waits = 0
         /\ ready # <<>>
         /\ Tail(ready) \in Seq(Completion)
         /\ \A i \in DOMAIN Tail(ready) : Tail(ready)[i].kind = "send"
         /\ ScheduleQueue(Tail(ready)) = Tail(ready)
<1>0. ready \in Seq(Completion) /\ ready # <<>> /\ pc = "run" /\ Head(ready).kind = "wait"
  BY DEF Core, TypeOK, NextHandlerIs
<1>1. 1 \in Waits /\ 1 \in DOMAIN ready
  BY <1>0, TailFacts DEF Waits, IsWait
<1>2. timer.waits = 0 /\ Waits = {1} /\ ready[1] = Wait("ok")
  BY <1>0, <1>1 DEF TimerChain, Core
<1>3. \A i \in DOMAIN Tail(ready) : Tail(ready)[i].kind = "send"
  <2> SUFFICES ASSUME NEW i \in DOMAIN Tail(ready)
               PROVE  Tail(ready)[i].kind = "send"
    OBVIOUS
  <2>1. i + 1 \in DOMAIN ready /\ i + 1 # 1 /\ Tail(ready)[i] = ready[i + 1]
    BY <1>0, TailFacts
  <2> QED
    BY <1>0, <2>1, <1>2, ReadyFacts DEF Waits, IsWait
<1>4. Tail(ready) \in Seq(Completion) /\ Head(ready) = ready[1]
  BY <1>0, TailFacts
<1>5. ScheduleQueue(Tail(ready)) = Tail(ready)
  BY Zenon, <1>2, <1>4, NothingAborted
<1> QED
  BY <1>0, <1>2, <1>3, <1>4, <1>5, CompletionFacts

Results == {"ok", "error", "would_block"}

\* What one tick of the timer does, given that its handler runs alone.
LEMMA OnTimerEffect ==
  ASSUME Core, NEW now \in clock .. Horizon, NEW result \in Results,
         OnTimer(now, result)
  PROVE  LET m == [seq |-> state.seq, tv |-> now]
         IN  /\ pc = "run" /\ pc' = "run" /\ clock' = now
             /\ m \in State
             /\ timer' = [expiry |-> clock + Period, waits |-> 1]
             /\ state' = [seq |-> IF state.seq = SeqMax THEN 0 ELSE state.seq + 1,
                          tv |-> now]
             /\ allocs' = allocs + 1
             /\ heap' = [i \in DOMAIN heap \union {allocs + 1} |->
                           IF i = allocs + 1 THEN m ELSE heap[i]]
             /\ \/ /\ writeq = <<>> /\ writeq' = writeq
                   /\ result \in {"ok", "error"}
                   /\ attempts' = attempts + 1
                   /\ wire' = IF result = "ok" THEN Append(wire, m) ELSE wire
                   /\ ready' = Append(Tail(ready), Sent(allocs + 1, result))
                \/ /\ writeq' = Append(writeq, allocs + 1)
                   /\ ready' = Tail(ready)
                   /\ attempts' = attempts /\ wire' = wire
<1> DEFINE m == [seq |-> state.seq, tv |-> now]
<1>1. NextHandlerIs("wait")
  BY DEF OnTimer
<1>2. Head(ready).ec = "ok" /\ ScheduleQueue(Tail(ready)) = Tail(ready)
  BY <1>1, WaitHandlerRunsAlone
<1>3. /\ schedule_send /\ clock' = now /\ UNCHANGED pc
      /\ send_packet(Tail(ready), now, result)
  BY Zenon, <1>2 DEF OnTimer
<1>4. state \in State /\ now \in Nat
  BY BootAssumption, HorizonAssumption DEF Core, TypeOK
<1>5. set_current_time(state, now) = m /\ m \in State
  BY <1>4 DEF set_current_time, State
<1>6. next_seq_no(m) = [seq |-> IF state.seq = SeqMax THEN 0 ELSE state.seq + 1, tv |-> now]
  BY DEF next_seq_no
<1>7. state' = next_seq_no(m) /\ socket_send_packet(Tail(ready), m, result)
  BY <1>3, <1>5 DEF send_packet
<1> QED
  BY <1>1, <1>3, <1>5, <1>6, <1>7
  DEF NextHandlerIs, schedule_send, socket_send_packet, KernelAnswers, Results

------------------------------------------------------------------------------
(***************************************************************************)
(* Who owns which payload.                                                 *)
(***************************************************************************)

\* No two handlers in q keep the same payload.
Unshared(q) ==
  \A i, j \in DOMAIN q :
    q[i].kind = "send" /\ q[j].kind = "send" /\ q[i].buf = q[j].buf => i = j

Distinct(w) == \A i, j \in DOMAIN w : w[i] = w[j] => i = j

\* A handler is dropped from the front of the queue.
LEMMA CapturedTail ==
  ASSUME NEW q \in Seq(Completion), q # <<>>, Unshared(q)
  PROVE  /\ Unshared(Tail(q))
         /\ Head(q).kind = "wait" => Captured(Tail(q)) = Captured(q)
         /\ Head(q).kind = "send" => /\ Captured(Tail(q)) = Captured(q) \ {Head(q).buf}
                                     /\ Head(q).buf \in Captured(q)
<1>1. /\ DOMAIN q = 1 .. Len(q) /\ Len(q) \in Nat \ {0}
      /\ DOMAIN Tail(q) = 1 .. Len(q) - 1
      /\ Head(q) = q[1]
      /\ \A i \in 1 .. Len(q) - 1 : Tail(q)[i] = q[i + 1]
  BY TailFacts
<1>2. Unshared(Tail(q))
  BY <1>1 DEF Unshared
<1>3. \A b : b \in Captured(Tail(q)) <=>
               \E i \in 2 .. Len(q) : q[i].kind = "send" /\ q[i].buf = b
  <2> SUFFICES ASSUME NEW b
               PROVE  b \in Captured(Tail(q)) <=>
                        \E i \in 2 .. Len(q) : q[i].kind = "send" /\ q[i].buf = b
    OBVIOUS
  <2>1. b \in Captured(Tail(q)) <=>
          \E i \in 1 .. Len(q) - 1 : Tail(q)[i].kind = "send" /\ Tail(q)[i].buf = b
    BY Zenon, <1>1 DEF Captured
  <2>2. ASSUME NEW i \in 1 .. Len(q) - 1, Tail(q)[i].kind = "send", Tail(q)[i].buf = b
        PROVE  \E j \in 2 .. Len(q) : q[j].kind = "send" /\ q[j].buf = b
    <3>1. i + 1 \in 2 .. Len(q) /\ Tail(q)[i] = q[i + 1]
      BY <1>1
    <3> QED
      BY <2>2, <3>1
  <2>3. ASSUME NEW j \in 2 .. Len(q), q[j].kind = "send", q[j].buf = b
        PROVE  \E i \in 1 .. Len(q) - 1 : Tail(q)[i].kind = "send" /\ Tail(q)[i].buf = b
    <3>1. j - 1 \in 1 .. Len(q) - 1 /\ Tail(q)[j - 1] = q[j]
      BY <1>1
    <3> QED
      BY <2>3, <3>1
  <2> QED
    BY <2>1, <2>2, <2>3
<1>4. \A b : b \in Captured(q) <=>
               \E i \in 1 .. Len(q) : q[i].kind = "send" /\ q[i].buf = b
  BY <1>1 DEF Captured
<1>5. \A i \in 1 .. Len(q) : i = 1 \/ i \in 2 .. Len(q)
  BY <1>1
<1>6. \A i \in 2 .. Len(q) : i \in 1 .. Len(q) /\ i # 1
  BY <1>1
<1>7. ASSUME Head(q).kind = "wait"
      PROVE  Captured(Tail(q)) = Captured(q)
  <2>1. \A b : b \in Captured(Tail(q)) <=> b \in Captured(q)
    BY <1>1, <1>3, <1>4, <1>5, <1>6, <1>7
  <2> QED
    BY Zenon, <2>1
<1>8. ASSUME Head(q).kind = "send"
      PROVE  /\ Captured(Tail(q)) = Captured(q) \ {Head(q).buf}
             /\ Head(q).buf \in Captured(q)
  <2>1. 1 \in 1 .. Len(q)
    BY <1>1
  <2>2. Head(q).buf \in Captured(q)
    BY <1>1, <1>4, <1>8, <2>1
  <2>3. \A b : b \in Captured(Tail(q)) <=> b \in Captured(q) /\ b # Head(q).buf
    BY <1>1, <1>3, <1>4, <1>5, <1>6, <1>8, <2>1 DEF Unshared
  <2> QED
    BY <2>2, <2>3
<1> QED
  BY <1>2, <1>7, <1>8

\* A completion is appended.
LEMMA CapturedAppend ==
  ASSUME NEW q \in Seq(Completion), NEW c \in Completion
  PROVE  /\ c.kind = "wait" => /\ Captured(Append(q, c)) = Captured(q)
                               /\ Unshared(q) => Unshared(Append(q, c))
         /\ c.kind = "send" => /\ Captured(Append(q, c)) = Captured(q) \union {c.buf}
                               /\ Unshared(q) /\ c.buf \notin Captured(q)
                                    => Unshared(Append(q, c))
<1>1. /\ DOMAIN q = 1 .. Len(q) /\ Len(q) \in Nat
      /\ DOMAIN Append(q, c) = 1 .. Len(q) + 1
      /\ \A i \in 1 .. Len(q) : Append(q, c)[i] = q[i]
      /\ Append(q, c)[Len(q) + 1] = c
  BY AppendFacts
<1>2. \A i : i \in 1 .. Len(q) + 1 <=> i \in 1 .. Len(q) \/ i = Len(q) + 1
  BY <1>1
<1>3. \A b : b \in Captured(q) <=>
               \E i \in 1 .. Len(q) : q[i].kind = "send" /\ q[i].buf = b
  BY <1>1 DEF Captured
<1>4. \A b : b \in Captured(Append(q, c)) <=>
               b \in Captured(q) \/ (c.kind = "send" /\ c.buf = b)
  <2>1. \A b : b \in Captured(Append(q, c)) <=>
                 \E i \in 1 .. Len(q) + 1 :
                   Append(q, c)[i].kind = "send" /\ Append(q, c)[i].buf = b
    BY <1>1 DEF Captured
  <2> QED
    BY <1>1, <1>2, <1>3, <2>1
<1>5. Captured(Append(q, c)) =
        IF c.kind = "send" THEN Captured(q) \union {c.buf} ELSE Captured(q)
  BY Zenon, <1>4
<1>6. ASSUME Unshared(q), c.kind = "send" => c.buf \notin Captured(q)
      PROVE  Unshared(Append(q, c))
  BY <1>1, <1>2, <1>3, <1>6 DEF Unshared
<1> QED
  BY <1>5, <1>6

\* The queue of payloads that wait for the socket.
LEMMA WriteQueueFacts ==
  ASSUME NEW w \in Seq(Nat)
  PROVE  /\ w # <<>> /\ Distinct(w) => /\ Head(w) \in Range(w)
                                       /\ Range(Tail(w)) = Range(w) \ {Head(w)}
                                       /\ Distinct(Tail(w))
         /\ \A b \in Nat : /\ Range(Append(w, b)) = Range(w) \union {b}
                           /\ Distinct(w) /\ b \notin Range(w) => Distinct(Append(w, b))
<1>0. DOMAIN w = 1 .. Len(w) /\ Len(w) \in Nat
  BY LenProperties
<1>1. ASSUME w # <<>>, Distinct(w)
      PROVE  /\ Head(w) \in Range(w)
             /\ Range(Tail(w)) = Range(w) \ {Head(w)}
             /\ Distinct(Tail(w))
  <2>1. /\ Len(w) \in Nat \ {0} /\ Head(w) = w[1]
        /\ DOMAIN Tail(w) = 1 .. Len(w) - 1
        /\ \A i \in 1 .. Len(w) - 1 : Tail(w)[i] = w[i + 1]
    BY <1>1, TailFacts
  <2>2. Head(w) \in Range(w)
    BY <1>0, <2>1 DEF Range
  <2>3. Distinct(Tail(w))
    BY SMTT(60), <1>0, <1>1, <2>1 DEF Distinct
  <2>4. ASSUME NEW b \in Range(Tail(w))
        PROVE  b \in Range(w) /\ b # Head(w)
    <3>1. PICK i \in 1 .. Len(w) - 1 : b = w[i + 1]
      BY <2>1 DEF Range
    <3>2. i + 1 \in DOMAIN w /\ 1 \in DOMAIN w /\ i + 1 # 1
      BY <1>0, <2>1
    <3> QED
      BY <1>1, <2>1, <3>1, <3>2 DEF Range, Distinct
  <2>5. ASSUME NEW b \in Range(w), b # Head(w)
        PROVE  b \in Range(Tail(w))
    <3>1. PICK i \in 1 .. Len(w) : b = w[i]
      BY <1>0 DEF Range
    <3>2. i - 1 \in 1 .. Len(w) - 1 /\ Tail(w)[i - 1] = b
      BY <2>1, <2>5, <3>1
    <3> QED
      BY Zenon, <2>1, <3>2 DEF Range
  <2> QED
    BY <2>2, <2>3, <2>4, <2>5
<1>2. ASSUME NEW b \in Nat
      PROVE  /\ Range(Append(w, b)) = Range(w) \union {b}
             /\ Distinct(w) /\ b \notin Range(w) => Distinct(Append(w, b))
  <2>1. /\ DOMAIN Append(w, b) = 1 .. Len(w) + 1
        /\ \A i \in 1 .. Len(w) : Append(w, b)[i] = w[i]
        /\ Append(w, b)[Len(w) + 1] = b
    BY AppendFacts
  <2>2. \A i : i \in 1 .. Len(w) + 1 <=> i \in 1 .. Len(w) \/ i = Len(w) + 1
    BY <1>0
  <2>3. \A e : e \in Range(Append(w, b)) <=> e \in Range(w) \/ e = b
    BY <1>0, <2>1, <2>2 DEF Range
  <2>4. ASSUME Distinct(w), b \notin Range(w)
        PROVE  Distinct(Append(w, b))
    BY <1>0, <2>1, <2>2, <2>4 DEF Range, Distinct
  <2> QED
    BY <2>3, <2>4
<1> QED
  BY <1>1, <1>2

\* BuffersOwned in these terms.
LEMMA BuffersOwnedDef ==
  BuffersOwned <=>
    /\ DOMAIN heap = Range(writeq) \union Captured(ready)
    /\ Range(writeq) \intersect Captured(ready) = {}
    /\ Distinct(writeq)
    /\ Unshared(ready)
BY DEF BuffersOwned, Distinct, Unshared

------------------------------------------------------------------------------
(***************************************************************************)
(* Core is inductive.                                                      *)
(***************************************************************************)
LEMMA CoreInit == Init => Core
<1> SUFFICES ASSUME Init PROVE Core
  OBVIOUS
<1> USE DEF Init, socketInit
<1>1. TypeOK
  BY SeqMaxAssumption, PeriodAssumption, BootAssumption, HorizonAssumption, EmptySeq
  DEF TypeOK, PC, State, NewState
<1>2. TimerChain
  BY DEF TimerChain, Waits
<1>3. BuffersOwned
  BY DEF BuffersOwned, Range, Captured
<1> QED
  BY <1>1, <1>2, <1>3 DEF Core

\* A tick of the timer.
LEMMA CoreOnTimer ==
  ASSUME Core, NEW now \in clock .. Horizon, NEW result \in Results,
         OnTimer(now, result)
  PROVE  Core'
<1> DEFINE m == [seq |-> state.seq, tv |-> now]
           b == allocs + 1
           sent == Sent(b, result)
<1>1. /\ pc = "run" /\ pc' = "run" /\ clock' = now
      /\ m \in State
      /\ timer' = [expiry |-> clock + Period, waits |-> 1]
      /\ state' = [seq |-> IF state.seq = SeqMax THEN 0 ELSE state.seq + 1, tv |-> now]
      /\ allocs' = b
      /\ heap' = [i \in DOMAIN heap \union {b} |-> IF i = b THEN m ELSE heap[i]]
  BY Zenon, OnTimerEffect
<1>2. \/ /\ writeq = <<>> /\ writeq' = writeq
         /\ result \in {"ok", "error"}
         /\ attempts' = attempts + 1
         /\ wire' = IF result = "ok" THEN Append(wire, m) ELSE wire
         /\ ready' = Append(Tail(ready), sent)
      \/ /\ writeq' = Append(writeq, b)
         /\ ready' = Tail(ready)
         /\ attempts' = attempts /\ wire' = wire
  BY OnTimerEffect
<1>3. NextHandlerIs("wait")
  BY DEF OnTimer
<1>4. /\ Tail(ready) \in Seq(Completion) /\ ready # <<>>
      /\ \A i \in DOMAIN Tail(ready) : Tail(ready)[i].kind = "send"
  BY <1>3, WaitHandlerRunsAlone
<1>5. /\ ready \in Seq(Completion) /\ writeq \in Seq(Nat) /\ wire \in Seq(State)
      /\ allocs \in Nat /\ attempts \in Nat /\ state \in State
      /\ clock \in Boot .. Horizon
      /\ heap \in [DOMAIN heap -> State] /\ DOMAIN heap \subseteq 1 .. allocs
  BY DEF Core, TypeOK
<1>6. b \in Nat
  BY <1>5
<1>7. result \in {"ok", "error"} => sent \in Completion /\ sent.kind = "send" /\ sent.buf = b
  BY <1>6, CompletionFacts DEF ErrorCode
<1>8. TypeOK'
  <2>1. clock' \in Boot .. Horizon
    BY <1>1, <1>5, BootAssumption, HorizonAssumption
  <2>2. state' \in State /\ timer' \in [expiry : Nat, waits : Nat]
    <3>1. now \in Nat /\ clock + Period \in Nat
      BY SMTT(60), <1>5, PeriodAssumption, BootAssumption, HorizonAssumption
    <3>2. (IF state.seq = SeqMax THEN 0 ELSE state.seq + 1) \in 0 .. SeqMax
      BY SMTT(60), <1>5, SeqMaxAssumption DEF State
    <3> QED
      BY <1>1, <3>1, <3>2 DEF State
  <2>3. ready' \in Seq(Completion) /\ writeq' \in Seq(Nat)
    <3>1. result \in {"ok", "error"} => Append(Tail(ready), sent) \in Seq(Completion)
      BY <1>4, <1>7, AppendFacts
    <3>2. Append(writeq, b) \in Seq(Nat)
      BY <1>5, <1>6, AppendFacts
    <3> QED
      BY Zenon, <1>2, <1>4, <1>5, <3>1, <3>2
  <2>5. wire' \in Seq(State) /\ attempts' \in Nat
    <3>1. Append(wire, m) \in Seq(State)
      BY <1>1, <1>5, AppendFacts
    <3>2. wire' = wire \/ wire' = Append(wire, m)
      BY <1>2
    <3>3. attempts' = attempts \/ attempts' = attempts + 1
      BY <1>2
    <3>4. attempts' \in Nat
      BY <1>5, <3>3
    <3>5. wire' \in Seq(State)
      BY Zenon, <1>5, <3>1, <3>2
    <3> QED
      BY <3>4, <3>5
  <2>4. /\ DOMAIN heap' \subseteq 1 .. allocs'
        /\ heap' \in [DOMAIN heap' -> State]
        /\ allocs' \in Nat
    BY <1>1, <1>5
  <2> QED
    BY <1>1, <2>1, <2>2, <2>3, <2>4, <2>5 DEF TypeOK, PC
<1>9. TimerChain'
  <2>1. \A i \in DOMAIN ready' : ready'[i].kind = "send"
    <3>1. CASE ready' = Tail(ready)
      BY <3>1, <1>4
    <3>2. CASE result \in {"ok", "error"} /\ ready' = Append(Tail(ready), sent)
      <4>1. /\ DOMAIN Tail(ready) = 1 .. Len(Tail(ready)) /\ Len(Tail(ready)) \in Nat
            /\ DOMAIN ready' = 1 .. Len(Tail(ready)) + 1
            /\ \A i \in 1 .. Len(Tail(ready)) : ready'[i] = Tail(ready)[i]
            /\ ready'[Len(Tail(ready)) + 1] = sent
        BY <3>2, <1>4, <1>7, AppendFacts
      <4>2. \A i \in DOMAIN ready' : i \in 1 .. Len(Tail(ready)) \/ i = Len(Tail(ready)) + 1
        BY <4>1
      <4> QED
        BY <3>2, <4>1, <4>2, <1>4, <1>7
    <3> QED
      BY <1>2, <3>1, <3>2
  <2>2. Waits' = {}
    BY <2>1 DEF Waits, IsWait
  <2> QED
    BY <1>1, <2>2 DEF TimerChain
<1>10. BuffersOwned'
  <2>1. /\ DOMAIN heap = Range(writeq) \union Captured(ready)
        /\ Range(writeq) \intersect Captured(ready) = {}
        /\ Distinct(writeq) /\ Unshared(ready)
    BY BuffersOwnedDef DEF Core
  <2>2. b \notin DOMAIN heap
    BY <1>5
  <2>3. Captured(Tail(ready)) = Captured(ready) /\ Unshared(Tail(ready))
    BY <1>3, <1>4, <1>5, <2>1, CapturedTail DEF NextHandlerIs
  <2>4. DOMAIN heap' = DOMAIN heap \union {b}
    BY <1>1
  <2>5. /\ DOMAIN heap' = Range(writeq') \union Captured(ready')
        /\ Range(writeq') \intersect Captured(ready') = {}
        /\ Distinct(writeq') /\ Unshared(ready')
    <3>1. CASE /\ writeq' = Append(writeq, b) /\ ready' = Tail(ready)
      <4>1. Range(writeq') = Range(writeq) \union {b} /\ Distinct(writeq')
        BY <3>1, <1>5, <1>6, <2>1, <2>2, WriteQueueFacts
      <4>2. Captured(ready') = Captured(ready) /\ Unshared(ready')
        BY <3>1, <2>3
      <4> QED
        BY <4>1, <4>2, <2>1, <2>2, <2>4
    <3>2. CASE /\ writeq' = writeq /\ result \in {"ok", "error"}
               /\ ready' = Append(Tail(ready), sent)
      <4>1. Captured(ready') = Captured(ready) \union {b} /\ Unshared(ready')
        BY ZenonT(60), <3>2, <1>4, <1>7, <2>1, <2>2, <2>3, CapturedAppend
      <4> QED
        BY <4>1, <3>2, <2>1, <2>2, <2>4
    <3> QED
      BY <1>2, <3>1, <3>2
  <2> QED
    BY <2>5 DEF BuffersOwned, Distinct, Unshared
<1> QED
  BY <1>8, <1>9, <1>10 DEF Core

\* The handler of a send.
LEMMA CoreOnSent ==
  ASSUME Core, OnSent
  PROVE  Core'
<1>1. /\ pc = "run" /\ ready # <<>> /\ Head(ready).kind = "send"
      /\ pc' \in {"run", "throw"}
      /\ ready' = Tail(ready)
      /\ heap' = Release({Head(ready).buf})
      /\ UNCHANGED <<clock, state, timer, writeq, allocs, attempts, wire>>
  BY DEF OnSent, NextHandlerIs, error_handler
<1>2. ready \in Seq(Completion) /\ heap \in [DOMAIN heap -> State]
  BY DEF Core, TypeOK
<1>3. /\ Tail(ready) \in Seq(Completion)
      /\ DOMAIN ready = 1 .. Len(ready) /\ Len(ready) \in Nat \ {0}
      /\ Head(ready) = ready[1]
      /\ DOMAIN Tail(ready) = 1 .. Len(ready) - 1
      /\ \A i \in 1 .. Len(ready) - 1 : Tail(ready)[i] = ready[i + 1]
  BY <1>1, <1>2, TailFacts
<1>4. /\ DOMAIN heap' = DOMAIN heap \ {Head(ready).buf}
      /\ heap' \in [DOMAIN heap' -> State]
  BY <1>1, <1>2 DEF Release, Restrict
<1>5. TypeOK'
  BY Zenon, <1>1, <1>3, <1>4 DEF Core, TypeOK, PC
<1>6. TimerChain'
  <2> SUFFICES ASSUME pc' = "run"
               PROVE  TimerChain'
    BY DEF TimerChain
  <2>1. CASE timer.waits = 1 /\ Waits = {}
    <3>1. Waits' = {}
      BY <2>1, <1>1, <1>3 DEF Waits
    <3> QED
      BY <2>1, <3>1, <1>1 DEF TimerChain
  <2>2. ASSUME timer.waits = 0,
               NEW i \in DOMAIN ready, Waits = {i}, ready[i] = Wait("ok")
        PROVE  TimerChain'
    <3>1. i # 1
      BY <2>2, <1>1, <1>3, CompletionFacts
    <3>2. i - 1 \in DOMAIN ready' /\ ready'[i - 1] = ready[i]
      BY <3>1, <1>1, <1>3
    <3>3. \A j \in DOMAIN ready' : j + 1 \in DOMAIN ready /\ ready'[j] = ready[j + 1]
      BY <1>1, <1>3
    <3>4. \A j \in DOMAIN ready' : j \in Int
      BY <1>1, <1>3
    <3>5. Waits' = {i - 1}
      BY <2>2, <3>2, <3>3, <3>4, <1>3 DEF Waits
    <3> QED
      BY <2>2, <3>2, <3>5, <1>1 DEF TimerChain
  <2> QED
    BY <2>1, <2>2, <1>1 DEF Core, TimerChain
<1>7. BuffersOwned'
  <2>1. /\ DOMAIN heap = Range(writeq) \union Captured(ready)
        /\ Range(writeq) \intersect Captured(ready) = {}
        /\ Distinct(writeq) /\ Unshared(ready)
    BY BuffersOwnedDef DEF Core
  <2>2. /\ Captured(ready') = Captured(ready) \ {Head(ready).buf}
        /\ Head(ready).buf \in Captured(ready)
        /\ Unshared(ready')
    BY <1>1, <1>2, <2>1, CapturedTail
  <2>3. /\ DOMAIN heap' = Range(writeq') \union Captured(ready')
        /\ Range(writeq') \intersect Captured(ready') = {}
        /\ Distinct(writeq')
    BY Zenon, <1>1, <1>4, <2>1, <2>2
  <2> QED
    BY <2>2, <2>3 DEF BuffersOwned, Distinct, Unshared
<1> QED
  BY <1>5, <1>6, <1>7 DEF Core

\* A completion is appended to the queue outside a handler.
LEMMA WaitsAppend ==
  ASSUME NEW c \in Completion, ready \in Seq(Completion), ready' = Append(ready, c)
  PROVE  /\ ready' \in Seq(Completion)
         /\ Len(ready) \in Nat /\ Len(ready) + 1 \in DOMAIN ready'
         /\ ready'[Len(ready) + 1] = c
         /\ \A i \in DOMAIN ready : i \in DOMAIN ready' /\ ready'[i] = ready[i]
         /\ c.kind = "send" => Waits' = Waits
         /\ c.kind = "wait" => Waits' = Waits \union {Len(ready) + 1}
<1>1. /\ ready' \in Seq(Completion)
      /\ DOMAIN ready = 1 .. Len(ready) /\ Len(ready) \in Nat
      /\ DOMAIN ready' = 1 .. Len(ready) + 1
      /\ \A i \in 1 .. Len(ready) : ready'[i] = ready[i]
      /\ ready'[Len(ready) + 1] = c
  BY AppendFacts
<1>2. \A i : i \in DOMAIN ready' <=> i \in DOMAIN ready \/ i = Len(ready) + 1
  BY <1>1
<1>3. \A i : i \in Waits' <=> i \in Waits \/ (i = Len(ready) + 1 /\ c.kind = "wait")
  BY <1>1, <1>2 DEF Waits, IsWait
<1>4. Waits' = IF c.kind = "wait" THEN Waits \union {Len(ready) + 1} ELSE Waits
  BY Zenon, <1>3
<1> QED
  BY <1>1, <1>2, <1>4

\* The reactor performs a waiting send.
LEMMA CoreSocketWritable ==
  ASSUME Core, NEW ec \in {"ok", "error"}, SocketWritable(ec)
  PROVE  Core'
<1> DEFINE b == Head(writeq)
           c == Sent(b, ec)
<1>1. /\ pc = "run" /\ writeq # <<>>
      /\ attempts' = attempts + 1
      /\ wire' = IF ec = "ok" THEN Append(wire, heap[b]) ELSE wire
      /\ ready' = Append(ready, c)
      /\ writeq' = Tail(writeq)
      /\ UNCHANGED <<heap, allocs, clock, pc, state, timer>>
  BY DEF SocketWritable, ReactorWrite, KernelAnswers
<1>2. /\ ready \in Seq(Completion) /\ writeq \in Seq(Nat) /\ wire \in Seq(State)
      /\ heap \in [DOMAIN heap -> State] /\ attempts \in Nat
  BY DEF Core, TypeOK
<1>3. /\ DOMAIN heap = Range(writeq) \union Captured(ready)
      /\ Range(writeq) \intersect Captured(ready) = {}
      /\ Distinct(writeq) /\ Unshared(ready)
  BY BuffersOwnedDef DEF Core
<1>4. /\ b \in Range(writeq) /\ Range(writeq') = Range(writeq) \ {b}
      /\ Distinct(writeq')
      /\ writeq' \in Seq(Nat) /\ b \in Nat
  BY Zenon, <1>1, <1>2, <1>3, WriteQueueFacts, HeadTailProperties
<1>5. c \in Completion /\ c.kind = "send" /\ c.buf = b
  BY <1>4, CompletionFacts DEF ErrorCode
<1> HIDE DEF b, c
<1>6. TypeOK'
  <2>1. Append(wire, heap[b]) \in Seq(State)
    BY <1>2, <1>3, <1>4, AppendFacts
  <2>2. wire' \in Seq(State)
    BY <1>1, <1>2, <2>1
  <2>3. ready' \in Seq(Completion)
    BY <1>1, <1>2, <1>5, AppendFacts
  <2>4. attempts' \in Nat
    BY <1>1, <1>2
  <2> QED
    BY ZenonT(60), <1>1, <1>4, <2>2, <2>3, <2>4 DEF Core, TypeOK
<1>7. TimerChain'
  <2>1. /\ Waits' = Waits
        /\ \A i \in DOMAIN ready : i \in DOMAIN ready' /\ ready'[i] = ready[i]
    BY <1>1, <1>2, <1>5, WaitsAppend
  <2> QED
    BY Zenon, <1>1, <2>1 DEF Core, TimerChain
<1>8. BuffersOwned'
  <2>1. Captured(ready') = Captured(ready) \union {b} /\ Unshared(ready')
    BY <1>1, <1>2, <1>3, <1>4, <1>5, CapturedAppend
  <2>2. /\ DOMAIN heap' = Range(writeq') \union Captured(ready')
        /\ Range(writeq') \intersect Captured(ready') = {}
    BY <1>1, <1>3, <1>4, <2>1
  <2> QED
    BY <1>4, <2>1, <2>2 DEF BuffersOwned, Distinct, Unshared
<1> QED
  BY <1>6, <1>7, <1>8 DEF Core

\* The timer holds one wait when it expires.
LEMMA TimerExpiresEffect ==
  ASSUME Core, TimerExpires
  PROVE  /\ timer.waits = 1 /\ Waits = {}
         /\ ready' = Append(ready, Wait("ok"))
         /\ Wait("ok") \in Completion
<1>1. timer.waits = 1 /\ Waits = {}
  BY DEF TimerExpires, Core, TimerChain
<1>2. Wait("ok") \in Completion /\ ready \in Seq(Completion)
  BY CompletionFacts DEF ErrorCode, Core, TypeOK
<1>3. [i \in 1 .. 1 |-> Wait("ok")] = <<Wait("ok")>>
  OBVIOUS
<1>4. ready' = ready \o <<Wait("ok")>>
  BY <1>1, <1>3 DEF TimerExpires
<1> QED
  BY <1>1, <1>2, <1>4, AppendIsConcat

\* The timer expires: its one wait moves to the queue of handlers.
LEMMA CoreTimerExpires ==
  ASSUME Core, TimerExpires
  PROVE  Core'
<1>1. /\ timer.waits = 1 /\ Waits = {}
      /\ ready' = Append(ready, Wait("ok")) /\ Wait("ok") \in Completion
  BY TimerExpiresEffect
<1>2. /\ timer' = [timer EXCEPT !.waits = 0]
      /\ UNCHANGED <<clock, pc, state, writeq, heap, allocs, attempts, wire>>
  BY DEF TimerExpires
<1>3. ready \in Seq(Completion) /\ timer \in [expiry : Nat, waits : Nat]
  BY DEF Core, TypeOK
<1>4. /\ timer' \in [expiry : Nat, waits : Nat]
      /\ timer'.waits = 0
  BY <1>2, <1>3
<1>5. Wait("ok").kind = "wait"
  BY CompletionFacts
<1>6. /\ ready' \in Seq(Completion) /\ Waits' = {Len(ready) + 1}
      /\ Len(ready) + 1 \in DOMAIN ready' /\ ready'[Len(ready) + 1] = Wait("ok")
  BY <1>1, <1>3, <1>5, WaitsAppend
<1>7. TypeOK'
  BY <1>2, <1>4, <1>6 DEF Core, TypeOK
<1>8. TimerChain'
  BY <1>4, <1>6 DEF TimerChain
<1>9. BuffersOwned'
  <2>1. /\ DOMAIN heap = Range(writeq) \union Captured(ready)
        /\ Range(writeq) \intersect Captured(ready) = {}
        /\ Distinct(writeq) /\ Unshared(ready)
    BY BuffersOwnedDef DEF Core
  <2>2. Captured(ready') = Captured(ready) /\ Unshared(ready')
    BY <1>1, <1>3, <1>5, <2>1, CapturedAppend
  <2> QED
    BY <1>2, <2>1, <2>2 DEF BuffersOwned, Distinct, Unshared
<1> QED
  BY <1>7, <1>8, <1>9 DEF Core

\* Two queues of completions are joined.
LEMMA CapturedConcat ==
  ASSUME NEW p \in Seq(Completion), NEW q \in Seq(Completion)
  PROVE  /\ Captured(p \o q) = Captured(p) \union Captured(q)
         /\ /\ Unshared(p) /\ Unshared(q)
            /\ Captured(p) \intersect Captured(q) = {}
            => Unshared(p \o q)
<1> DEFINE r == p \o q
<1>1. /\ Len(p) \in Nat /\ Len(q) \in Nat
      /\ DOMAIN p = 1 .. Len(p) /\ DOMAIN q = 1 .. Len(q)
      /\ DOMAIN r = 1 .. Len(p) + Len(q)
      /\ \A i \in 1 .. Len(p) : r[i] = p[i]
      /\ \A i \in 1 .. Len(q) : r[Len(p) + i] = q[i]
  BY ConcatFacts
<1> HIDE DEF r
<1>2. \A i \in 1 .. Len(p) : i \in DOMAIN r
  BY <1>1
<1>3. \A i \in 1 .. Len(q) : Len(p) + i \in DOMAIN r
  BY <1>1
<1>4. \A i \in DOMAIN r : i \in 1 .. Len(p) \/ \E j \in 1 .. Len(q) : i = Len(p) + j
  <2> TAKE i \in DOMAIN r
  <2>1. CASE i <= Len(p)
    BY <2>1, <1>1
  <2>2. CASE ~(i <= Len(p))
    <3>1. i - Len(p) \in 1 .. Len(q) /\ i = Len(p) + (i - Len(p))
      BY <2>2, <1>1
    <3> QED
      BY <3>1
  <2> QED
    BY <2>1, <2>2
<1>5. \A b : b \in Captured(p) <=> \E i \in 1 .. Len(p) : p[i].kind = "send" /\ p[i].buf = b
  BY <1>1 DEF Captured
<1>6. \A b : b \in Captured(q) <=> \E i \in 1 .. Len(q) : q[i].kind = "send" /\ q[i].buf = b
  BY Zenon, <1>1 DEF Captured
<1>7. \A b : b \in Captured(r) <=> \E i \in DOMAIN r : r[i].kind = "send" /\ r[i].buf = b
  BY DEF Captured
<1>8. \A b : b \in Captured(r) <=> b \in Captured(p) \/ b \in Captured(q)
  <2> SUFFICES ASSUME NEW b
               PROVE  b \in Captured(r) <=> b \in Captured(p) \/ b \in Captured(q)
    OBVIOUS
  <2>1. b \in Captured(p) => b \in Captured(r)
    BY <1>1, <1>2, <1>5, <1>7
  <2>2. b \in Captured(q) => b \in Captured(r)
    BY <1>1, <1>3, <1>6, <1>7
  <2>3. b \in Captured(r) => b \in Captured(p) \/ b \in Captured(q)
    BY <1>1, <1>4, <1>5, <1>6, <1>7
  <2> QED
    BY <2>1, <2>2, <2>3
<1>9. Captured(r) = Captured(p) \union Captured(q)
  BY <1>8
<1>10. ASSUME Unshared(p), Unshared(q), Captured(p) \intersect Captured(q) = {}
       PROVE  Unshared(r)
  <2> SUFFICES ASSUME NEW i \in DOMAIN r, NEW j \in DOMAIN r,
                      r[i].kind = "send", r[j].kind = "send", r[i].buf = r[j].buf
               PROVE  i = j
    BY DEF Unshared
  <2>1. \A b : ~(b \in Captured(p) /\ b \in Captured(q))
    BY <1>10
  <2>2. CASE i \in 1 .. Len(p) /\ j \in 1 .. Len(p)
    BY <2>2, <1>1, <1>10 DEF Unshared
  <2>3. CASE i \in 1 .. Len(p) /\ j \notin 1 .. Len(p)
    <3>1. r[i].buf \in Captured(p)
      BY <2>3, <1>1, <1>5
    <3>2. r[j].buf \in Captured(q)
      BY <2>3, <1>1, <1>4, <1>6
    <3> QED
      BY <3>1, <3>2, <2>1
  <2>4. CASE i \notin 1 .. Len(p) /\ j \in 1 .. Len(p)
    <3>1. r[j].buf \in Captured(p)
      BY <2>4, <1>1, <1>5
    <3>2. r[i].buf \in Captured(q)
      BY <2>4, <1>1, <1>4, <1>6
    <3> QED
      BY <3>1, <3>2, <2>1
  <2>5. CASE i \notin 1 .. Len(p) /\ j \notin 1 .. Len(p)
    <3>1. PICK k \in 1 .. Len(q) : i = Len(p) + k
      BY <2>5, <1>4
    <3>2. PICK l \in 1 .. Len(q) : j = Len(p) + l
      BY <2>5, <1>4
    <3>3. r[i] = q[k] /\ r[j] = q[l]
      BY <1>1, <3>1, <3>2
    <3>4. k = l
      BY Zenon, <1>1, <1>10, <3>3 DEF Unshared
    <3> QED
      BY <3>1, <3>2, <3>4
  <2> QED
    BY <2>2, <2>3, <2>4, <2>5
<1> QED
  BY <1>9, <1>10 DEF r

\* The handlers that ~Sender queues.
LEMMA CancelledFacts ==
  ASSUME TypeOK, Distinct(writeq)
  PROVE  LET waits == Aborted(timer.waits)
             sends == [i \in DOMAIN writeq |-> Sent(writeq[i], "operation_aborted")]
         IN  /\ waits \in Seq(Completion) /\ Captured(waits) = {} /\ Unshared(waits)
             /\ sends \in Seq(Completion) /\ Captured(sends) = Range(writeq)
             /\ Unshared(sends)
<1> DEFINE waits == Aborted(timer.waits)
           sends == [i \in DOMAIN writeq |-> Sent(writeq[i], "operation_aborted")]
<1>1. timer.waits \in Nat /\ writeq \in Seq(Nat)
  BY DEF TypeOK
<1>2. waits \in [1 .. timer.waits -> Completion]
  BY CompletionFacts DEF Aborted, ErrorCode
<1>3. waits \in Seq(Completion)
  BY ZenonT(60), <1>1, <1>2, FunctionIsSeq
<1>4. \A i \in DOMAIN waits : waits[i].kind = "wait"
  BY CompletionFacts DEF Aborted
<1>5. Captured(waits) = {} /\ Unshared(waits)
  BY <1>4 DEF Captured, Unshared
<1>6. DOMAIN writeq = 1 .. Len(writeq) /\ Len(writeq) \in Nat
      /\ \A i \in 1 .. Len(writeq) : writeq[i] \in Nat
  BY <1>1, LenProperties, ElementOfSeq
<1>7. \A i \in DOMAIN writeq : /\ sends[i] \in Completion
                               /\ sends[i].kind = "send" /\ sends[i].buf = writeq[i]
  BY <1>6, CompletionFacts DEF ErrorCode
<1>8. DOMAIN sends = DOMAIN writeq
  OBVIOUS
<1>9. sends \in [1 .. Len(writeq) -> Completion]
  BY <1>6, <1>7
<1>10. sends \in Seq(Completion)
  BY <1>6, <1>9, FunctionIsSeq
<1> HIDE DEF sends, waits
<1>11. Captured(sends) = Range(writeq)
  BY <1>7, <1>8 DEF Captured, Range
<1>12. Unshared(sends)
  BY <1>7, <1>8 DEF Unshared, Distinct
<1> QED
  BY <1>3, <1>5, <1>10, <1>11, <1>12 DEF waits, sends

\* ~Sender and ~io_context.
LEMMA CoreUnwind ==
  ASSUME Core, Unwind
  PROVE  Core'
<1>0. /\ DOMAIN heap = Range(writeq) \union Captured(ready)
      /\ Range(writeq) \intersect Captured(ready) = {}
      /\ Distinct(writeq) /\ Unshared(ready)
      /\ ready \in Seq(Completion) /\ heap \in [DOMAIN heap -> State]
      /\ timer \in [expiry : Nat, waits : Nat]
      /\ TypeOK
  BY BuffersOwnedDef DEF Core, TypeOK
<1>1. TimerChain'
  BY DEF Unwind, DestroySender, DestroyIoContext, Exit, TimerChain
<1>2. ASSUME DestroySender
      PROVE  Core'
  <2> DEFINE waits == Aborted(timer.waits)
             sends == [i \in DOMAIN writeq |-> Sent(writeq[i], "operation_aborted")]
  <2>1. /\ waits \in Seq(Completion) /\ Captured(waits) = {} /\ Unshared(waits)
        /\ sends \in Seq(Completion) /\ Captured(sends) = Range(writeq)
        /\ Unshared(sends)
    BY <1>0, CancelledFacts
  <2>2. /\ ready' = (ready \o waits) \o sends
        /\ pc' = "sender_destroyed" /\ writeq' = <<>>
        /\ timer' = [timer EXCEPT !.waits = 0]
        /\ UNCHANGED <<clock, state, heap, allocs, attempts, wire>>
    BY <1>2 DEF DestroySender, ScheduleQueue
  <2> HIDE DEF waits, sends
  <2> DEFINE half == ready \o waits
  <2>3. /\ half \in Seq(Completion)
        /\ Captured(half) = Captured(ready)
        /\ Unshared(half)
    <3>1. half \in Seq(Completion)
      BY <1>0, <2>1, ConcatProperties
    <3>2. Captured(half) = Captured(ready) \union Captured(waits)
      BY Zenon, <1>0, <2>1, CapturedConcat
    <3>3. Unshared(half)
      BY <1>0, <2>1, CapturedConcat
    <3> QED
      BY <2>1, <3>1, <3>2, <3>3
  <2> HIDE DEF half
  <2>4. /\ ready' \in Seq(Completion)
        /\ Captured(ready') = Captured(ready) \union Range(writeq)
        /\ Unshared(ready')
    <3>0. ready' = half \o sends
      BY <2>2 DEF half
    <3>1. half \o sends \in Seq(Completion)
      BY <2>1, <2>3, ConcatProperties
    <3>2. Captured(half \o sends) = Captured(half) \union Captured(sends)
      BY <2>1, <2>3, CapturedConcat
    <3>3. Captured(half) \intersect Captured(sends) = {}
      BY <1>0, <2>1, <2>3
    <3>4. Unshared(half \o sends)
      BY <2>1, <2>3, <3>3, CapturedConcat
    <3> QED
      BY <2>1, <2>3, <3>0, <3>1, <3>2, <3>4
  <2>5. writeq' \in Seq(Nat) /\ Range(writeq') = {} /\ Distinct(writeq')
    BY <2>2, EmptySeq DEF Range, Distinct
  <2>6. timer' \in [expiry : Nat, waits : Nat]
    BY Zenon, <1>0, <2>2
  <2>7. TypeOK'
    BY ZenonT(60), <1>0, <2>2, <2>4, <2>5, <2>6 DEF TypeOK, PC
  <2>8. BuffersOwned'
    BY Zenon, <1>0, <2>2, <2>4, <2>5 DEF BuffersOwned, Distinct, Unshared
  <2> QED
    BY <1>1, <2>7, <2>8 DEF Core
<1>3. ASSUME DestroyIoContext
      PROVE  Core'
  <2>1. /\ pc = "sender_destroyed" /\ pc' = "catch" /\ ready' = <<>>
        /\ heap' = Release(Captured(ready))
        /\ UNCHANGED <<clock, state, timer, writeq, allocs, attempts, wire>>
    BY <1>3 DEF DestroyIoContext
  <2>2. heap' = [x \in DOMAIN heap \ Captured(ready) |-> heap[x]]
    BY <2>1 DEF Release, Restrict
  <2>6. DOMAIN heap' = DOMAIN heap \ Captured(ready)
    BY <2>2
  <2>7. DOMAIN heap' = Range(writeq)
    BY <1>0, <2>6
  <2>8. heap' \in [DOMAIN heap' -> State]
    BY <1>0, <2>2, <2>6
  <2>3. ready' \in Seq(Completion) /\ Captured(ready') = {} /\ Unshared(ready')
    BY <2>1, EmptySeq DEF Captured, Unshared
  <2>4. TypeOK'
    <3>1. DOMAIN heap' \subseteq 1 .. allocs'
      BY <1>0, <2>1, <2>6 DEF TypeOK
    <3> QED
      BY <1>0, <2>1, <2>3, <2>8, <3>1 DEF TypeOK, PC
  <2>5. BuffersOwned'
    BY <1>0, <2>1, <2>3, <2>7 DEF BuffersOwned, Distinct, Unshared
  <2> QED
    BY <1>1, <2>4, <2>5 DEF Core
<1>4. ASSUME Exit
      PROVE  Core'
  <2>1. pc' = "exit_failure" /\ UNCHANGED <<clock, state, timer, ready, writeq, heap, allocs, attempts, wire>>
    BY <1>4 DEF Exit, socketVars
  <2>2. TypeOK'
    BY <1>0, <2>1 DEF TypeOK, PC
  <2>3. BuffersOwned'
    BY <1>0, <2>1 DEF BuffersOwned, Distinct, Unshared
  <2> QED
    BY <1>1, <2>2, <2>3 DEF Core
<1> QED
  BY <1>2, <1>3, <1>4 DEF Unwind

\* Every step of the program and of its surroundings preserves Core.
LEMMA CoreStep == Core /\ [Next]_vars => Core'
<1> SUFFICES ASSUME Core, [Next]_vars PROVE Core'
  OBVIOUS
<1>1. CASE Tick
  <2>1. /\ clock \in Boot .. Horizon /\ clock < Horizon /\ clock' = clock + 1
        /\ UNCHANGED <<pc, state, timer, ready, writeq, heap, allocs, attempts, wire>>
    BY <1>1 DEF Tick, socketVars, Core, TypeOK
  <2>2. clock' \in Boot .. Horizon
    BY <2>1, BootAssumption, HorizonAssumption
  <2>3. TypeOK'
    BY <2>1, <2>2 DEF Core, TypeOK
  <2>4. TimerChain'
    BY <2>1 DEF Core, TimerChain, Waits
  <2>5. BuffersOwned'
    BY <2>1 DEF Core, BuffersOwned
  <2> QED
    BY <2>3, <2>4, <2>5 DEF Core
<1>2. CASE TimerExpires
  BY <1>2, CoreTimerExpires
<1>3. CASE \E ec \in {"ok", "error"} : SocketWritable(ec)
  BY <1>3, CoreSocketWritable
<1>4. CASE Handler
  BY <1>4, CoreOnTimer, CoreOnSent DEF Handler, Results
<1>5. CASE Unwind
  BY <1>5, CoreUnwind
<1>6. CASE UNCHANGED vars
  <2>1. UNCHANGED <<clock, pc, state, timer, ready, writeq, heap, allocs, attempts, wire>>
    BY <1>6 DEF vars, socketVars
  <2>2. TypeOK'
    BY <2>1 DEF Core, TypeOK
  <2>3. TimerChain'
    BY <2>1 DEF Core, TimerChain, Waits
  <2>4. BuffersOwned'
    BY <2>1 DEF Core, BuffersOwned
  <2> QED
    BY <2>2, <2>3, <2>4 DEF Core
<1> QED
  BY <1>1, <1>2, <1>3, <1>4, <1>5, <1>6 DEF Next

\* Core holds in every state of every execution.
LEMMA CoreInvariant == Spec => []Core
BY CoreInit, CoreStep, PTL DEF Spec

\* Every variable keeps its type: in particular next_seq_no never leaves the
\* range of uint32_t and the reactor only ever sends live payloads.
THEOREM TypeCorrect == Spec => []TypeOK
<1>1. Core => TypeOK
  BY DEF Core
<1> QED
  BY <1>1, CoreInvariant, PTL

\* schedule_send keeps exactly one wait outstanding while io.run() runs, and
\* it is never cancelled.
THEOREM OneWaitOutstanding == Spec => []TimerChain
<1>1. Core => TimerChain
  BY DEF Core
<1> QED
  BY <1>1, CoreInvariant, PTL

\* The capture of sdata keeps each payload alive exactly as long as its send.
THEOREM PayloadsOwned == Spec => []BuffersOwned
<1>1. Core => BuffersOwned
  BY DEF Core
<1> QED
  BY <1>1, CoreInvariant, PTL

=============================================================================
