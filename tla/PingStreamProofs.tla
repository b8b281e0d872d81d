-------------------------- MODULE PingStreamProofs --------------------------
(***************************************************************************)
(* Sender implements PingStream, for every Period, Boot, Horizon and       *)
(* SeqMax: each step of the program, its timer and its socket is a step of *)
(* the stream or leaves the stream as it is.                               *)
(***************************************************************************)
EXTENDS SenderStreamProofs

\* A packet goes to the kernel: the stream emits it.
LEMMA EmitStep ==
  ASSUME NEW m \in State, pc = "run", pc' = "run", clock \in Int, clock' \in Int,
         clock' >= clock, Boot <= m.tv, m.tv <= clock', Boot \in Int,
         m.seq = attempts % (SeqMax + 1),
         Boot + Span(attempts + 1) <= m.tv,
         wire # <<>> => wire[Len(wire)].tv <= m.tv,
         wire' = Append(wire, m), attempts' = attempts + 1,
         SendFailed' <=> SendFailed
  PROVE  Stream!Next
<1>1. m.tv \in Boot .. clock'
  BY DEF State
<1>2. m = [seq |-> attempts % (SeqMax + 1), tv |-> m.tv]
  BY DEF State
<1>3. wire' = Append(wire, [seq |-> attempts % (SeqMax + 1), tv |-> m.tv])
  BY <1>2
<1>4. Stream!Emit(m.tv)
  BY <1>3 DEF Stream!Emit, Span
<1> QED
  BY <1>1, <1>4 DEF Stream!Next

\* A send fails: the stream loses a packet and is doomed.
LEMMA LoseStep ==
  ASSUME pc = "run", pc' = "run", clock' >= clock,
         wire' = wire, attempts' = attempts + 1, SendFailed'
  PROVE  Stream!Next
<1>1. Stream!Lose
  BY DEF Stream!Lose
<1> QED
  BY <1>1 DEF Stream!Next

\* A tick.
LEMMA StreamOnTimer ==
  ASSUME IInv, NEW now \in clock .. Horizon, NEW result \in Results,
         OnTimer(now, result)
  PROVE  [Stream!Next]_(Stream!vars)
<1> DEFINE m == [seq |-> state.seq, tv |-> now]
<1>1. Core /\ Numbering /\ Pacing
  BY DEF IInv, Core
<1>2. pc = "run" /\ pc' = "run" /\ clock' = now /\ m \in State /\ m.tv = now /\ m.seq = state.seq
  BY <1>1, OnTimerEffect
<1>3. /\ now \in Nat /\ clock \in Nat /\ clock <= now
      /\ Boot + Span(allocs + 1) <= clock
  BY <1>1, TurnOfTick
<1>4. /\ allocs \in Nat /\ Boot \in Nat /\ Boot <= clock /\ state.tv \in Nat
      /\ Len(wire) \in Nat /\ DOMAIN wire = 1 .. Len(wire) /\ wire \in Seq(State)
      /\ \A i \in DOMAIN wire : wire[i].tv \in Nat
  BY <1>1, CoreTypes
<1>5. CASE writeq = <<>> /\ wire' = Append(wire, m) /\ attempts' = attempts + 1
           /\ (SendFailed' <=> SendFailed)
  <2>1. attempts = allocs /\ state.seq = allocs % (SeqMax + 1)
    <3>1. attempts = allocs - Len(writeq) /\ Len(writeq) = 0
      BY <1>1, <1>2, <1>5, EmptySeq DEF Numbering
    <3>2. state.seq = allocs % (SeqMax + 1)
      BY <1>1 DEF Numbering
    <3> QED
      BY <1>4, <3>1, <3>2
  <2>2. Span(allocs + 1) \in Int
    BY <1>4, Spans
  <2>3. Boot + Span(attempts + 1) <= m.tv
    BY <1>2, <1>3, <1>4, <2>1, <2>2
  <2>4. ASSUME wire # <<>> PROVE wire[Len(wire)].tv <= m.tv
    <3>1. Len(wire) \in DOMAIN wire
      BY <1>4, <2>4, TailFacts
    <3>2. wire[Len(wire)].tv <= state.tv /\ state.tv <= clock
      BY <1>1, <3>1, PacingDef
    <3> QED
      BY <1>2, <1>3, <1>4, <3>1, <3>2
  <2>5. /\ m.seq = attempts % (SeqMax + 1)
        /\ clock \in Int /\ clock' \in Int /\ clock' >= clock /\ Boot \in Int
        /\ Boot <= m.tv /\ m.tv <= clock'
    BY <1>2, <1>3, <1>4, <2>1
  <2> HIDE DEF m
  <2> QED
    BY <1>2, <1>5, <2>3, <2>4, <2>5, EmitStep
<1>6. CASE wire' = wire /\ attempts' = attempts + 1 /\ SendFailed'
  BY <1>2, <1>3, <1>6, LoseStep
<1>7. CASE wire' = wire /\ attempts' = attempts /\ (SendFailed' <=> SendFailed)
  <2>1. CASE now = clock
    BY <1>2, <1>7, <2>1 DEF Stream!vars
  <2>2. CASE now # clock
    <3>1. clock' > clock
      BY <1>2, <1>3, <2>2
    <3>2. Stream!Pass
      BY <1>2, <1>7, <3>1 DEF Stream!Pass
    <3> QED
      BY <3>2 DEF Stream!Next
  <2> QED
    BY <2>1, <2>2
<1> QED
  BY <1>1, <1>5, <1>6, <1>7, TickEffect

\* The reactor performs a waiting send.
LEMMA StreamSocketWritable ==
  ASSUME IInv, NEW ec \in {"ok", "error"}, SocketWritable(ec)
  PROVE  Stream!Next
<1> DEFINE m == heap[writeq[1]]
<1>1. Core /\ Numbering /\ Pacing
  BY DEF IInv, Core
<1>2. /\ pc = "run" /\ pc' = "run" /\ writeq # <<>> /\ clock' = clock
      /\ attempts' = attempts + 1
      /\ \/ wire' = Append(wire, m) /\ (SendFailed' <=> SendFailed)
         \/ wire' = wire /\ SendFailed'
  BY <1>1, WriteEffect
<1>3. /\ 1 \in DOMAIN writeq /\ writeq[1] \in DOMAIN heap /\ writeq[1] = attempts + 1
  BY <1>1, <1>2, OldestWaiting
<1>4. /\ m \in State /\ m.tv \in Nat /\ clock \in Nat /\ Boot \in Nat /\ attempts \in Nat
      /\ Len(wire) \in Nat /\ DOMAIN wire = 1 .. Len(wire) /\ wire \in Seq(State)
      /\ state.tv \in Nat
  BY <1>1, <1>3, CoreTypes
<1>5. /\ Boot + Span(attempts + 1) <= m.tv /\ m.tv <= state.tv /\ state.tv <= clock
      /\ \A i \in DOMAIN wire : wire[i].tv <= m.tv
  BY <1>1, <1>3, PacingDef
<1>6. m.seq = attempts % (SeqMax + 1)
  <2>1. m.seq = (writeq[1] - 1) % (SeqMax + 1)
    BY <1>1, <1>3 DEF Numbering
  <2>2. writeq[1] - 1 = attempts
    BY <1>3, <1>4
  <2> QED
    BY <2>1, <2>2
<1>7. wire # <<>> => wire[Len(wire)].tv <= m.tv
  <2>1. wire # <<>> => Len(wire) \in DOMAIN wire
    BY <1>4, TailFacts
  <2> QED
    BY <1>5, <2>1
<1>8. Boot <= m.tv
  <2>1. 0 \in Int /\ attempts + 1 \in Int /\ 0 <= attempts + 1
    BY <1>4
  <2>2. 0 <= Span(attempts + 1) /\ Span(attempts + 1) \in Int
    BY <2>1, Spans
  <2> QED
    BY <1>4, <1>5, <2>2
<1>9. clock \in Int /\ clock' \in Int /\ clock' >= clock /\ Boot \in Int /\ m.tv <= clock'
  BY <1>2, <1>4, <1>5
<1> HIDE DEF m
<1>10. CASE wire' = Append(wire, m) /\ (SendFailed' <=> SendFailed)
  BY ZenonT(60), <1>2, <1>4, <1>5, <1>6, <1>7, <1>8, <1>9, <1>10, EmitStep
<1>11. CASE wire' = wire /\ SendFailed'
  BY <1>2, <1>9, <1>11, LoseStep
<1> QED
  BY <1>2, <1>10, <1>11

\* Every step of Sender is a step of the stream or a stuttering step.
LEMMA StreamStep == IInv /\ [Next]_vars => [Stream!Next]_(Stream!vars)
<1> SUFFICES ASSUME IInv, [Next]_vars PROVE [Stream!Next]_(Stream!vars)
  OBVIOUS
<1>0. Core /\ NothingCancelled /\ clock \in Nat
  BY CoreTypes DEF IInv, Core
<1>1. CASE Tick
  <2>1. clock' > clock /\ UNCHANGED <<pc, ready, attempts, wire>>
    BY <1>0, <1>1 DEF Tick, socketVars
  <2>2. SendFailed' <=> SendFailed
    BY <2>1 DEF SendFailed
  <2>3. Stream!Pass
    BY <2>1, <2>2 DEF Stream!Pass
  <2> QED
    BY <2>3 DEF Stream!Next
<1>2. CASE TimerExpires
  <2>1. UNCHANGED <<clock, pc, attempts, wire>> /\ pc = "run"
    BY <1>2 DEF TimerExpires
  <2>2. SendFailed' <=> SendFailed
    BY <1>0, <1>2, <2>1, QuietSteps DEF Quiet
  <2> QED
    BY <2>1, <2>2 DEF Stream!vars
<1>3. CASE \E ec \in {"ok", "error"} : SocketWritable(ec)
  BY <1>3, StreamSocketWritable
<1>4. CASE \E now \in clock .. Horizon, result \in Results : OnTimer(now, result)
  BY <1>4, StreamOnTimer
<1>5. CASE OnSent
  <2>1. pc = "run" /\ UNCHANGED <<clock, attempts, wire>>
    BY <1>0, <1>5, OnSentEffect
  <2>2. CASE pc' = "run" /\ (SendFailed' <=> SendFailed)
    BY <2>1, <2>2 DEF Stream!vars
  <2>3. CASE pc' = "throw" /\ SendFailed
    <3>1. Stream!Stop
      BY <2>1, <2>3 DEF Stream!Stop
    <3> QED
      BY <3>1 DEF Stream!Next
  <2> QED
    BY <1>0, <1>5, <2>2, <2>3, OnSentEffect
<1>6. CASE Unwind
  <2>1. pc # "run" /\ pc' # "run" /\ UNCHANGED <<clock, attempts, wire>>
    BY <1>0, <1>6, UnwindEffect
  <2> QED
    BY <2>1 DEF Stream!vars
<1>7. CASE UNCHANGED vars
  <2>1. UNCHANGED <<clock, pc, ready, attempts, wire>>
    BY <1>7 DEF vars, socketVars
  <2> QED
    BY <2>1 DEF Stream!vars, SendFailed
<1> QED
  BY <1>1, <1>2, <1>3, <1>4, <1>5, <1>6, <1>7 DEF Next, Handler, Results

\* The program, seen by its receivers, is the stream of PingStream: numbered
\* without gaps, paced, stamped, and stopped by the first failed send.
THEOREM SenderImplementsStream == Spec => ImplementsStream
<1>1. Init => Stream!Init
  BY DEF Init, socketInit, SendFailed, Stream!Init
<1> QED
  BY <1>1, StreamStep, Inductive, PTL DEF Spec, ImplementsStream, Stream!Spec

=============================================================================
