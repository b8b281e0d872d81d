---------------------------- MODULE ServiceProofs ----------------------------
(***************************************************************************)
(* Proofs about Service, for every period, restart delay, rate limit and   *)
(* number of faults: the unit follows its process, restarts keep the pace, *)
(* and how long an outage has to be before systemd gives up.               *)
(***************************************************************************)
EXTENDS Service, SenderStreamProofs

------------------------------------------------------------------------------
(***************************************************************************)
(* The process of the unit.                                                *)
(***************************************************************************)

\* Once the process is gone, and before there is one, only time passes.
LEMMA NobodyRuns ==
  ASSUME Next, pc \notin {"run", "throw", "sender_destroyed", "catch"}
  PROVE  Tick
BY DEF Next, TimerExpires, SocketWritable, Handler, OnTimer, OnSent, NextHandlerIs,
       Unwind, DestroySender, DestroyIoContext, Exit

\* A process that has just been started: in io.run() with a new Sender, or at
\* its end because the constructor of the socket has thrown.
Fresh ==
  /\ socketInit
  /\ clock \in Boot .. Horizon
  /\ pc \in {"run", "exit_failure"}
  /\ state = NewState
  /\ timer = [expiry |-> clock + Period, waits |-> IF pc = "run" THEN 1 ELSE 0]

\* Whenever it is started, a new process satisfies the invariant of Sender.
LEMMA FreshSound == Fresh => IInv
<1> SUFFICES ASSUME Fresh PROVE IInv
  OBVIOUS
<1>1. /\ ready = <<>> /\ writeq = <<>> /\ wire = <<>> /\ DOMAIN heap = {}
      /\ allocs = 0 /\ attempts = 0
      /\ state = [seq |-> 0, tv |-> 0] /\ state.seq = 0 /\ state.tv = 0
      /\ clock \in Nat /\ Boot \in Nat /\ Boot <= clock /\ clock \in Boot .. Horizon
      /\ pc \in {"run", "exit_failure"}
      /\ timer.expiry = clock + Period /\ timer.waits = IF pc = "run" THEN 1 ELSE 0
  BY BootAssumption, HorizonAssumption DEF Fresh, socketInit, NewState
<1>2. Len(wire) = 0 /\ Len(writeq) = 0 /\ DOMAIN wire = {} /\ DOMAIN writeq = {}
      /\ DOMAIN ready = {}
  BY <1>1
<1>3. TypeOK
  <2>1. heap \in [DOMAIN heap -> State] /\ DOMAIN heap \subseteq 1 .. allocs
    BY <1>1 DEF Fresh, socketInit
  <2>2. timer \in [expiry : Nat, waits : Nat]
    BY <1>1, PeriodAssumption DEF Fresh
  <2>3. state \in State
    BY <1>1, SeqMaxAssumption DEF State
  <2> QED BY <1>1, <2>1, <2>2, <2>3, EmptySeq DEF TypeOK, PC
<1>4. TimerChain /\ NothingCancelled
  BY <1>1, <1>2 DEF TimerChain, Waits, NothingCancelled
<1>5. BuffersOwned
  BY <1>1, <1>2 DEF BuffersOwned, Range, Captured
<1>6. Numbering
  <2>1. state.seq = allocs % (SeqMax + 1)
    BY <1>1, SequenceNumbers
  <2>2. allocs = 0 /\ attempts = 0
    BY <1>1
  <2>3. /\ Len(wire) = attempts /\ attempts = allocs - Len(writeq)
        /\ Len(wire) <= attempts /\ attempts <= allocs
    BY <1>2, <2>2
  <2> QED BY Zenon, <1>1, <1>2, <2>1, <2>3 DEF Numbering
<1>7. Pacing /\ PacedByClock
  <2>1. Span(allocs) <= clock - Boot
    BY <1>1, Spans
  <2>2. pc = "run" => Boot + Span(allocs + 1) <= Due
    <3>1. Span(allocs + 1) = Period /\ Period \in Nat
      BY <1>1, Spans
    <3>2. pc = "run" => Due = clock + Period
      BY <1>1 DEF Due
    <3> QED BY <1>1, <3>1, <3>2
  <2> QED BY <1>1, <1>2, <2>1, <2>2, PacingDef
<1>8. Spacing /\ BacklogBounded
  BY <1>1, <1>2, SpacingDef DEF BacklogBounded
<1> QED BY <1>3, <1>4, <1>5, <1>6, <1>7, <1>8 DEF IInv

\* Who is charged with a start.
Charged(outcome) ==
  IF link /\ outcome = "exit_failure" THEN kills < MaxKills /\ kills' = kills + 1
                                      ELSE kills' = kills

\* ExecStart: what Restart does when the rate limit lets it through.
LEMMA RestartEffect ==
  ASSUME Restart
  PROVE  /\ unit = "activating" /\ clock >= due
         /\ UNCHANGED <<clock, due, linkVars>>
         /\ \/ /\ unit' = "active"
               /\ \/ limit' = [begin |-> clock, num |-> 1]
                  \/ /\ limit.num < StartLimitBurst
                     /\ limit' = [limit EXCEPT !.num = @ + 1]
               /\ \E outcome \in Outcomes : Launch(outcome) /\ Charged(outcome)
            \/ /\ unit' = "failed" /\ ~(limit.num < StartLimitBurst)
               /\ UNCHANGED <<vars, limit, trail, kills>>
BY ZenonT(60) DEF Restart, vars, Charged

\* A started process is fresh, unless --help has ended it.
LEMMA LaunchEffect ==
  ASSUME ProcessSound, NEW outcome \in Outcomes, Launch(outcome), clock' = clock
  PROVE  /\ pc' # "helped" => Fresh'
         /\ trail' = trail \o wire /\ wire' = <<>> /\ DOMAIN heap' = {} /\ ready' = <<>>
         /\ pc' = outcome
         /\ allocs' = 0 /\ timer'.expiry = clock + Period
         /\ pc' = "run" => timer'.waits = 1
BY DEF Launch, Fresh, socketInit, ProcessSound, Outcomes

\* Every step of the process, of systemd and of the host leaves a process
\* that runs, or ended by itself, in a state that Sender's proofs cover.
LEMMA ProcessSoundStep ==
  ServiceInv /\ [ServiceNext]_serviceVars => ProcessSound'
<1> SUFFICES ASSUME ProcessSound, ServiceTypeOK, ServiceNext \/ UNCHANGED serviceVars
             PROVE  ProcessSound'
  BY DEF ServiceInv
<1>1. ASSUME Next \/ UNCHANGED vars PROVE ProcessSound'
  <2>1. CASE pc \in PC
    <3>1. IInv'
      BY <1>1, <2>1, IInvStep DEF ProcessSound
    <3> QED BY <3>1 DEF ProcessSound, IInv, TypeOK
  <2>2. CASE pc \notin PC
    <3>1. Tick \/ UNCHANGED vars
      BY <1>1, <2>2, NobodyRuns DEF PC
    <3> QED BY <2>2, <3>1, BootAssumption, HorizonAssumption DEF ProcessSound, Tick, vars
  <2> QED BY <2>1, <2>2
<1>2. CASE Process
  BY <1>1, <1>2 DEF Process
<1>3. CASE Kill \/ CleanSignal
  BY <1>3 DEF Kill, CleanSignal, ProcessSound, PC
<1>4. CASE LinkDown \/ LinkUp \/ Reap \/ UNCHANGED serviceVars
  BY <1>1, <1>4 DEF LinkDown, LinkUp, Reap, serviceVars
<1>5. CASE SystemctlStop
  BY <1>5 DEF SystemctlStop, ProcessSound, PC
<1>6. CASE Restart
  <2>1. clock' = clock
    BY <1>6, RestartEffect
  <2>2. ASSUME NEW outcome \in Outcomes, Launch(outcome) PROVE ProcessSound'
    <3>1. pc' # "helped" => Fresh'
      BY <2>1, <2>2, LaunchEffect
    <3>2. (Fresh => IInv)'
      BY FreshSound, PTL
    <3> QED BY <2>1, <3>1, <3>2 DEF ProcessSound, PC
  <2> QED BY ZenonT(60), <1>1, <1>6, <2>2, RestartEffect
<1> QED BY <1>2, <1>3, <1>4, <1>5, <1>6 DEF ServiceNext

\* What systemd knows of the process stays true: a process ends by an
\* exception, a kill or cleanly, and only a clean end keeps it from coming back.
LEMMA UnitFollowsStep ==
  ServiceInv /\ [ServiceNext]_serviceVars => UnitFollows' /\ pc' \in ServicePC
<1> SUFFICES ASSUME ServiceInv, ServiceNext \/ UNCHANGED serviceVars
             PROVE  UnitFollows' /\ pc' \in ServicePC
  OBVIOUS
<1>1. UnitFollows /\ ServiceTypeOK /\ pc \in ServicePC
  BY DEF ServiceInv, ServiceTypeOK
<1>2. ASSUME UNCHANGED <<pc, unit>> PROVE UnitFollows' /\ pc' \in ServicePC
  BY <1>1, <1>2 DEF UnitFollows, DownOnPurpose
<1>3. CASE Process
  <2>1. Next /\ unit' = unit
    BY <1>3 DEF Process, unitVars
  <2>2. CASE pc \in {"run", "throw", "sender_destroyed", "catch"}
    <3>1. unit = "active"
      BY <1>1, <2>2 DEF UnitFollows, DownOnPurpose, Clean, ServiceTypeOK
    <3>2. pc' \in PC
      <4>1. IInv'
        BY <2>1, <2>2, IInvStep DEF ServiceInv, ProcessSound, PC
      <4> QED BY <4>1 DEF IInv, TypeOK
    <3> QED BY <2>1, <3>1, <3>2 DEF UnitFollows, DownOnPurpose, ServicePC
  <2>3. CASE pc \notin {"run", "throw", "sender_destroyed", "catch"}
    BY <1>2, <2>1, <2>3, NobodyRuns DEF Tick
  <2> QED BY <2>2, <2>3
<1>4. CASE Kill \/ CleanSignal
  BY <1>1, <1>4 DEF Kill, CleanSignal, Alive, UnitFollows, DownOnPurpose, ServicePC, PC,
                    Clean, unitVars, ServiceTypeOK
<1>5. CASE LinkDown \/ LinkUp \/ UNCHANGED serviceVars
  BY <1>2, <1>5 DEF LinkDown, LinkUp, serviceVars, vars, unitVars
<1>6. CASE Reap
  BY <1>1, <1>6 DEF Reap, Alive, UnitFollows, DownOnPurpose, PC, vars
<1>7. CASE SystemctlStop
  BY <1>7 DEF SystemctlStop, UnitFollows, DownOnPurpose, ServicePC, Clean
<1>8. CASE Restart
  <2>1. ASSUME NEW outcome \in Outcomes, Launch(outcome), unit' = "active"
        PROVE  UnitFollows' /\ pc' \in ServicePC
    BY <2>1 DEF Launch, Outcomes, UnitFollows, DownOnPurpose, ServicePC, PC, Clean
  <2>2. ASSUME UNCHANGED vars, unit = "activating", unit' = "failed"
        PROVE  UnitFollows' /\ pc' \in ServicePC
    BY <1>1, <2>2 DEF vars, UnitFollows, DownOnPurpose
  <2> QED BY ZenonT(60), <1>8, <2>1, <2>2, RestartEffect
<1> QED BY <1>3, <1>4, <1>5, <1>6, <1>7, <1>8 DEF ServiceNext

------------------------------------------------------------------------------
(***************************************************************************)
(* The pace of one process, seen from any moment s.                        *)
(***************************************************************************)

\* TurnsFrom in terms of Span and Due.
LEMMA TurnsDef ==
  ASSUME NEW s
  PROVE  TurnsFrom(s) <=>
           /\ \A b \in DOMAIN heap : s + Span(b) <= heap[b].tv
           /\ \A i \in DOMAIN wire : s + Span(i) <= wire[i].tv
           /\ pc = "run" => s + Span(allocs + 1) <= Due
BY DEF TurnsFrom, Span, Due

\* A tick: the timer was armed a period before, so the new packet comes in
\* its turn, and the timer is armed for the turn of the next one.
LEMMA TurnsOnTimer ==
  ASSUME Core, Numbering, NEW s \in Nat, TurnsFrom(s),
         NEW now \in clock .. Horizon, NEW result \in Results, OnTimer(now, result)
  PROVE  TurnsFrom(s)'
<1> DEFINE m == [seq |-> state.seq, tv |-> now]
<1>1. /\ pc = "run" /\ timer.waits = 0
  BY WaitHandlerRunsAlone DEF OnTimer, NextHandlerIs
<1>2. /\ m \in State /\ timer' = [expiry |-> clock + Period, waits |-> 1]
      /\ allocs' = allocs + 1
  BY OnTimerEffect
<1>3. /\ allocs \in Nat /\ heap'[allocs + 1].tv = now
      /\ \A b \in DOMAIN heap' : \/ b \in DOMAIN heap /\ heap'[b] = heap[b]
                                 \/ b = allocs + 1
  BY ZenonT(60), HeapAfterTick
<1>4. /\ clock \in Nat /\ Len(wire) \in Nat /\ DOMAIN wire = 1 .. Len(wire)
      /\ Len(writeq) \in Nat
  BY CoreTypes
<1>5. now \in Nat /\ clock <= now
  BY <1>4, HorizonAssumption
<1>6. /\ \A b \in DOMAIN heap : s + Span(b) <= heap[b].tv
      /\ \A i \in DOMAIN wire : s + Span(i) <= wire[i].tv
      /\ s + Span(allocs + 1) <= clock
  BY <1>1, TurnsDef DEF Due
<1>7. Span(allocs + 1) \in Int /\ Span(allocs' + 1) = Span(allocs + 1) + Period /\ Period \in Nat
  <2>1. allocs + 1 \in Int /\ allocs' + 1 = (allocs + 1) + 1
    BY <1>2, <1>3
  <2> QED BY <2>1, Spans
<1>8. s + Span(allocs + 1) <= now
  BY <1>4, <1>5, <1>6, <1>7
<1>9. \A b \in DOMAIN heap' : s + Span(b) <= heap'[b].tv
  BY <1>3, <1>6, <1>8
<1>10. s + Span(allocs' + 1) <= clock + Period
  BY <1>4, <1>6, <1>7
<1>11. \A i \in DOMAIN wire' : s + Span(i) <= wire'[i].tv
  <2>1. CASE wire' = wire
    BY <1>6, <2>1
  <2>2. CASE writeq = <<>> /\ wire' = Append(wire, m)
    <3>1. \A i \in DOMAIN wire' : \/ i \in DOMAIN wire /\ wire'[i] = wire[i]
                                  \/ i = Len(wire) + 1 /\ wire'[i] = m
      BY <1>2, <2>2, WireAppend
    <3>2. Len(wire) + 1 <= allocs + 1
      <4>1. attempts = allocs - Len(writeq) /\ Len(wire) <= attempts /\ attempts <= allocs
        BY <1>1 DEF Numbering
      <4> QED BY <1>3, <1>4, <4>1
    <3>3. Span(Len(wire) + 1) <= Span(allocs + 1) /\ Span(Len(wire) + 1) \in Int
      <4>1. Len(wire) + 1 \in Int /\ allocs + 1 \in Int
        BY <1>3, <1>4
      <4> QED BY <3>2, <4>1, Spans
    <3>4. s + Span(Len(wire) + 1) <= now
      BY <1>5, <1>7, <1>8, <3>3
    <3> QED BY <1>6, <3>1, <3>4
  <2> QED BY <2>1, <2>2, TickEffect
<1>12. timer'.waits = 1 /\ timer'.expiry = clock + Period
  BY <1>2
<1> QED BY <1>9, <1>10, <1>11, <1>12 DEF TurnsFrom, Span

\* The oldest waiting payload has a number no smaller than its place on the
\* wire, so its stamp is late enough for that place.
LEMMA TurnsSocketWritable ==
  ASSUME Core, Numbering, NEW s \in Nat, TurnsFrom(s),
         NEW ec \in {"ok", "error"}, SocketWritable(ec)
  PROVE  TurnsFrom(s)'
<1> DEFINE b == writeq[1]
           m == heap[b]
<1>1. /\ pc = "run" /\ writeq # <<>>
      /\ wire' = Append(wire, m) \/ wire' = wire
      /\ UNCHANGED <<heap, allocs, clock, pc, timer>>
  BY WriteEffect
<1>2. b \in DOMAIN heap /\ Len(wire) + 1 <= b
  BY <1>1, OldestWaiting
<1>3. /\ Len(wire) \in Nat /\ m \in State /\ m.tv \in Nat /\ b \in Nat
  BY ZenonT(60), <1>2, CoreTypes
<1>4. /\ \A d \in DOMAIN heap : s + Span(d) <= heap[d].tv
      /\ \A i \in DOMAIN wire : s + Span(i) <= wire[i].tv
      /\ pc = "run" => s + Span(allocs + 1) <= Due
  BY TurnsDef
<1> HIDE DEF b, m
<1>5. s + Span(Len(wire) + 1) <= m.tv
  <2>1. Len(wire) + 1 \in Int /\ b \in Int
    BY <1>3
  <2>2. Span(Len(wire) + 1) <= Span(b) /\ Span(Len(wire) + 1) \in Int /\ Span(b) \in Int
    BY <1>2, <2>1, Spans
  <2>3. s + Span(b) <= m.tv
    BY <1>2, <1>4 DEF m
  <2> QED BY <1>3, <2>2, <2>3
<1>6. \A i \in DOMAIN wire' : s + Span(i) <= wire'[i].tv
  <2>1. CASE wire' = wire
    BY <1>4, <2>1
  <2>2. CASE wire' = Append(wire, m)
    <3>1. \A i \in DOMAIN wire' : \/ i \in DOMAIN wire /\ wire'[i] = wire[i]
                                  \/ i = Len(wire) + 1 /\ wire'[i] = m
      BY <1>3, <2>2, WireAppend
    <3> QED BY <1>4, <1>5, <3>1
  <2> QED BY <1>1, <2>1, <2>2
<1> QED BY <1>1, <1>4, <1>6 DEF TurnsFrom, Span, Due

\* No turn comes earlier because time passes or a handler ends.
LEMMA TurnsQuiet ==
  ASSUME Core, Core', NEW s \in Nat, TurnsFrom(s), Quiet
  PROVE  TurnsFrom(s)'
<1>1. /\ UNCHANGED <<allocs, wire>>
      /\ DOMAIN heap' \subseteq DOMAIN heap
      /\ \A b \in DOMAIN heap' : heap'[b] = heap[b]
  BY DEF Quiet
<1>2. /\ \A b \in DOMAIN heap : s + Span(b) <= heap[b].tv
      /\ \A i \in DOMAIN wire : s + Span(i) <= wire[i].tv
      /\ pc = "run" => s + Span(allocs + 1) <= Due
  BY TurnsDef
<1>3. ASSUME pc' = "run" PROVE s + Span(allocs' + 1) <= Due'
  <2>1. pc = "run" /\ Due <= Due' /\ allocs' = allocs
    BY <1>3 DEF Quiet
  <2>2. Due \in Int /\ Due' \in Int
    BY QuietTypes
  <2>3. allocs + 1 \in Int
    BY CoreTypes
  <2>4. Span(allocs + 1) \in Int
    BY <2>3, Spans
  <2> QED BY <1>2, <2>1, <2>2, <2>4
<1> QED BY <1>1, <1>2, <1>3 DEF TurnsFrom, Span, Due

------------------------------------------------------------------------------
(***************************************************************************)
(* The wire over all processes.                                            *)
(***************************************************************************)

\* What StartedAt says, with lengths of time as spans.
LEMMA StartedDef ==
  ASSUME NEW s, StartedAt(s)
  PROVE  /\ \A i \in DOMAIN trail : /\ trail[i].tv <= s
                                    /\ trail[i].tv + Span(Len(trail) - i - 1) <= s
         /\ \A j \in DOMAIN wire : s + Span(j) <= wire[j].tv
BY DEF StartedAt, TurnsFrom, Span

\* The packets of earlier processes, followed by those of this one.
LEMMA TrailThenWire ==
  ASSUME trail \in Seq(State), wire \in Seq(State)
  PROVE  /\ trail \o wire \in Seq(State)
         /\ Len(trail) \in Nat /\ Len(wire) \in Nat
         /\ Len(trail \o wire) = Len(trail) + Len(wire)
         /\ DOMAIN (trail \o wire) = 1 .. Len(trail) + Len(wire)
         /\ \A i \in DOMAIN trail : i \in Nat /\ 1 <= i /\ i <= Len(trail) /\ trail[i].tv \in Nat
         /\ \A i \in DOMAIN wire : i \in Nat /\ 1 <= i /\ i <= Len(wire) /\ wire[i].tv \in Nat
         /\ \A i \in DOMAIN (trail \o wire) :
              \/ i \in DOMAIN trail /\ (trail \o wire)[i] = trail[i]
              \/ /\ i - Len(trail) \in DOMAIN wire
                 /\ (trail \o wire)[i] = wire[i - Len(trail)]
<1> DEFINE all == trail \o wire
           n == Len(trail)
<1>1. /\ all \in Seq(State)
      /\ n \in Nat /\ Len(wire) \in Nat
      /\ DOMAIN trail = 1 .. n /\ DOMAIN wire = 1 .. Len(wire)
      /\ DOMAIN all = 1 .. n + Len(wire)
      /\ \A i \in 1 .. n : all[i] = trail[i]
      /\ \A i \in 1 .. Len(wire) : all[n + i] = wire[i]
  BY ConcatFacts
<1>2. Len(all) = n + Len(wire)
  BY ConcatProperties
<1>3. /\ \A i \in DOMAIN trail : trail[i] \in State
      /\ \A i \in DOMAIN wire : wire[i] \in State
  BY ElementOfSeq, <1>1
<1>4. \A m \in State : m.tv \in Nat
  BY DEF State
<1> HIDE DEF all, n
<1>5. ASSUME NEW i \in DOMAIN all
      PROVE  \/ i \in DOMAIN trail /\ all[i] = trail[i]
             \/ i - n \in DOMAIN wire /\ all[i] = wire[i - n]
  <2>1. CASE i <= n
    BY <1>1, <2>1
  <2>2. CASE i > n
    <3>1. i - n \in 1 .. Len(wire) /\ n + (i - n) = i
      BY <1>1, <2>2
    <3> QED BY <1>1, <3>1
  <2> QED BY <1>1, <2>1, <2>2
<1> QED BY <1>1, <1>2, <1>3, <1>4, <1>5 DEF all, n

\* Packet i of the trail and packet j of the wire are as far apart as their
\* places: the trail ends before the process starts, and the process waits j
\* periods before packet j.
LEMMA AcrossRestarts ==
  ASSUME trail \in Seq(State), wire \in Seq(State), NEW s \in Nat, StartedAt(s),
         NEW i \in DOMAIN trail, NEW j \in DOMAIN wire
  PROVE  /\ trail[i].tv + Period <= wire[j].tv
         /\ trail[i].tv + Span(Len(trail) + j - i - 1) <= wire[j].tv
<1>1. /\ i \in Nat /\ i <= Len(trail) /\ trail[i].tv \in Nat /\ Len(trail) \in Nat
      /\ j \in Nat /\ 1 <= j /\ wire[j].tv \in Nat
  BY TrailThenWire
<1>2. /\ trail[i].tv <= s /\ trail[i].tv + Span(Len(trail) - i - 1) <= s
      /\ s + Span(j) <= wire[j].tv
  BY StartedDef
<1>3. 1 \in Int /\ j \in Int /\ Len(trail) - i - 1 \in Int
      /\ Len(trail) + j - i - 1 = (Len(trail) - i - 1) + j
  BY <1>1
<1>4. Period <= Span(j) /\ Period \in Nat /\ Span(j) \in Int
  <2>1. Span(1) = Period /\ Period \in Nat
    BY PeriodAssumption DEF Span
  <2>2. Span(1) <= Span(j) /\ Span(j) \in Int
    BY <1>1, <1>3, Spans
  <2> QED BY <2>1, <2>2
<1>5. \A m, n \in Int : Span(m + n) = Span(m) + Span(n) /\ Span(m) \in Int
  BY PeriodAssumption DEF Span
<1>6. Span(Len(trail) + j - i - 1) = Span(Len(trail) - i - 1) + Span(j)
  BY <1>3, <1>5
<1>7. Span(Len(trail) - i - 1) \in Int
  BY <1>3, <1>5
<1>8. trail[i].tv + Period <= wire[j].tv
  BY SMTT(60), <1>1, <1>2, <1>4
<1>9. trail[i].tv + (Span(Len(trail) - i - 1) + Span(j)) <= wire[j].tv
  <2> DEFINE g == Span(Len(trail) - i - 1)
             h == Span(j)
             from == trail[i].tv
             to == wire[j].tv
  <2>1. g \in Int /\ h \in Int /\ from \in Int /\ to \in Int /\ s \in Int
    BY SMTT(60), <1>1, <1>4, <1>7
  <2>2. from + g <= s /\ s + h <= to
    BY <1>2
  <2> HIDE DEF g, h, from, to
  <2>3. from + (g + h) <= to
    BY <2>1, <2>2
  <2> QED BY <2>3 DEF g, h, from, to
<1> QED BY <1>6, <1>8, <1>9

\* The whole wire is spaced, because each part is and the gap between them
\* is wide enough.
LEMMA PaceFollows ==
  ASSUME Tracks, trail \in Seq(State), clock \in Nat
  PROVE  /\ RestartsKeepPace
         /\ \A i \in DOMAIN (trail \o wire) :
              /\ (trail \o wire)[i].tv <= clock
              /\ (trail \o wire)[i].tv + Span(Len(trail \o wire) - i - 1) <= clock
<1> DEFINE all == trail \o wire
           n == Len(trail)
<1>1. wire \in Seq(State) /\ trail \in Seq(State)
  BY DEF Tracks
<1>2. PICK s \in Boot .. clock : StartedAt(s)
  BY DEF Tracks
<1>3. s \in Nat /\ s <= clock
  BY BootAssumption
<1>4. /\ Len(trail) \in Nat /\ Len(wire) \in Nat
      /\ Len(all) = n + Len(wire)
      /\ DOMAIN all = 1 .. n + Len(wire)
      /\ \A i \in DOMAIN trail : i \in Nat /\ 1 <= i /\ i <= n /\ trail[i].tv \in Nat
      /\ \A i \in DOMAIN wire : i \in Nat /\ 1 <= i /\ i <= Len(wire) /\ wire[i].tv \in Nat
      /\ \A i \in DOMAIN all : \/ i \in DOMAIN trail /\ all[i] = trail[i]
                               \/ i - n \in DOMAIN wire /\ all[i] = wire[i - n]
  BY <1>1, TrailThenWire
<1>5. \A i \in DOMAIN trail, j \in DOMAIN wire :
        /\ trail[i].tv + Period <= wire[j].tv
        /\ trail[i].tv + Span(n + j - i - 1) <= wire[j].tv
  BY <1>1, <1>2, <1>3, AcrossRestarts
<1>6. /\ \A i, j \in DOMAIN wire : i < j => wire[i].tv + Span(j - i - 1) <= wire[j].tv
      /\ \A i, j \in DOMAIN trail : i < j => trail[i].tv + Span(j - i - 1) <= trail[j].tv
      /\ \A i \in DOMAIN wire : wire[i].tv <= clock
  BY DEF Tracks, NoBurst, Span
<1>7. \A i \in DOMAIN trail : trail[i].tv <= clock
  BY <1>2, <1>3, <1>4, StartedDef
<1> HIDE DEF all, n
<1>8. ASSUME NEW i \in DOMAIN all, NEW j \in DOMAIN all, i < j
      PROVE  all[i].tv + Span(j - i - 1) <= all[j].tv
  <2>1. i \in Nat /\ j \in Nat /\ n \in Nat
    BY <1>4 DEF n
  <2>2. CASE i \in DOMAIN trail /\ j \in DOMAIN trail /\ all[i] = trail[i] /\ all[j] = trail[j]
    BY <1>6, <1>8, <2>2
  <2>3. CASE /\ i \in DOMAIN trail /\ all[i] = trail[i]
             /\ j - n \in DOMAIN wire /\ all[j] = wire[j - n]
    <3>1. n + (j - n) - i - 1 = j - i - 1
      BY <2>1
    <3>2. trail[i].tv + Span(n + (j - n) - i - 1) <= wire[j - n].tv
      BY <1>5, <2>3
    <3> QED BY <2>3, <3>1, <3>2
  <2>4. CASE /\ i - n \in DOMAIN wire /\ all[i] = wire[i - n]
             /\ j - n \in DOMAIN wire /\ all[j] = wire[j - n]
    <3>1. (j - n) - (i - n) - 1 = j - i - 1 /\ i - n < j - n
      BY <1>8, <2>1
    <3>2. wire[i - n].tv + Span((j - n) - (i - n) - 1) <= wire[j - n].tv
      BY <1>6, <2>4, <3>1
    <3> QED BY <2>4, <3>1, <3>2
  <2>5. ~(i - n \in DOMAIN wire /\ j \in DOMAIN trail)
    BY <1>4, <1>8, <2>1 DEF n
  <2> QED BY <1>4, <2>2, <2>3, <2>4, <2>5
<1>9. \A i \in DOMAIN all : all[i].tv <= clock /\ all[i].tv \in Nat
  BY <1>4, <1>6, <1>7
<1>10. ASSUME NEW i \in DOMAIN all
       PROVE  all[i].tv + Span(Len(all) - i - 1) <= clock
  <2>1. i \in Nat /\ Len(all) \in Nat /\ i <= Len(all) /\ Len(all) \in DOMAIN all
    BY <1>4 DEF n
  <2>2. Len(all) - i - 1 \in Int
    BY <2>1
  <2>3. CASE i < Len(all)
    <3>1. all[i].tv + Span(Len(all) - i - 1) <= all[Len(all)].tv
      BY <1>8, <2>1, <2>3
    <3>2. Span(Len(all) - i - 1) \in Int
      BY <2>2, Spans
    <3>3. all[Len(all)].tv <= clock /\ all[Len(all)].tv \in Nat /\ all[i].tv \in Nat
      BY <1>9, <2>1
    <3> QED BY SMTT(60), <3>1, <3>2, <3>3
  <2>4. CASE i = Len(all)
    <3>1. Len(all) - i - 1 <= 0 /\ 0 \in Int
      BY <2>1, <2>4
    <3>2. Span(Len(all) - i - 1) <= 0 /\ Span(Len(all) - i - 1) \in Int
      BY <2>2, <3>1, Spans
    <3>3. all[i].tv <= clock /\ all[i].tv \in Nat
      BY <1>9
    <3> QED BY <3>2, <3>3
  <2> QED BY <2>1, <2>3, <2>4
<1>11. RestartsKeepPace
  BY ZenonT(60), <1>5, <1>8 DEF RestartsKeepPace, Span, all
<1> QED BY <1>9, <1>10, <1>11 DEF all

\* A step of the process keeps the pace that it had from its start.
LEMMA TracksProcess ==
  ASSUME ServiceInv, Next, trail' = trail
  PROVE  Tracks'
<1>1. /\ wire \in Seq(State) /\ NoBurst
      /\ \A i \in DOMAIN wire : wire[i].tv <= clock
      /\ \A i, j \in DOMAIN trail :
           i < j => trail[i].tv + (j - i - 1) * Period <= trail[j].tv
  BY DEF ServiceInv, Tracks
<1>2. PICK s \in Boot .. clock : StartedAt(s)
  BY DEF ServiceInv, Tracks
<1>3. s \in Nat /\ s <= clock /\ clock \in Nat /\ Boot <= s /\ s \in Int
  BY BootAssumption DEF ServiceInv, ProcessSound
<1>4. \A i, j \in DOMAIN trail' :
        i < j => trail'[i].tv + (j - i - 1) * Period <= trail'[j].tv
  BY <1>1
<1>5. ASSUME TurnsFrom(s)', clock' \in Nat, clock <= clock'
      PROVE  \E t \in Boot .. clock' : StartedAt(t)'
  <2>1. s \in Boot .. clock'
    BY <1>3, <1>5, BootAssumption
  <2>2. StartedAt(s)'
    BY <1>2, <1>5 DEF StartedAt
  <2> QED BY <2>1, <2>2
<1>6. CASE pc \in PC
  <2>1. IInv
    BY <1>6 DEF ServiceInv, ProcessSound
  <2>2. Core /\ Numbering
    BY <2>1 DEF IInv, Core
  <2>3. IInv'
    BY <2>1, IInvStep
  <2>4. Core' /\ wire' \in Seq(State) /\ NoBurst' /\ clock' \in Nat
        /\ \A i \in DOMAIN wire' : wire'[i].tv <= clock'
    <3>1. Core' /\ TypeOK' /\ Spacing' /\ PacedByClock'
      BY <2>3 DEF IInv, Core
    <3>2. clock' \in Nat /\ wire' \in Seq(State)
      BY <3>1, BootAssumption DEF TypeOK
    <3>3. NoBurst'
      BY <3>1 DEF Spacing
    <3> QED BY <3>1, <3>2, <3>3 DEF PacedByClock
  <2>5. TurnsFrom(s)
    BY <1>2 DEF StartedAt
  <2>6. TurnsFrom(s)' /\ clock <= clock'
    <3>1. ASSUME NEW now \in clock .. Horizon, NEW result \in Results, OnTimer(now, result)
          PROVE  TurnsFrom(s)' /\ clock <= clock'
      <4>1. TurnsFrom(s)'
        BY <1>3, <2>2, <2>5, <3>1, TurnsOnTimer
      <4>2. clock' = now
        BY Zenon, <2>2, <3>1, OnTimerEffect
      <4> QED BY <1>3, <4>1, <4>2, HorizonAssumption
    <3>2. ASSUME NEW ec \in {"ok", "error"}, SocketWritable(ec)
          PROVE  TurnsFrom(s)' /\ clock <= clock'
      <4>1. TurnsFrom(s)'
        BY <1>3, <2>2, <2>5, <3>2, TurnsSocketWritable
      <4>2. clock' = clock
        BY <3>2 DEF SocketWritable
      <4> QED BY <1>3, <4>1, <4>2
    <3>3. ASSUME Quiet PROVE TurnsFrom(s)' /\ clock <= clock'
      <4>1. TurnsFrom(s)'
        BY <1>3, <2>2, <2>4, <2>5, <3>3, TurnsQuiet
      <4> QED BY <3>3, <4>1 DEF Quiet
    <3> QED BY <2>2, <3>1, <3>2, <3>3, Steps
  <2> QED BY <1>4, <1>5, <2>4, <2>6 DEF Tracks
<1>7. CASE pc \notin PC
  <2>1. Tick
    BY <1>7, NobodyRuns DEF PC
  <2>2. clock' = clock + 1 /\ UNCHANGED <<pc, heap, wire, timer, allocs>>
    BY <2>1 DEF Tick, socketVars
  <2>3. TurnsFrom(s)'
    BY <1>2, <1>7, <2>2 DEF StartedAt, TurnsFrom, PC
  <2>4. clock' \in Nat /\ clock <= clock'
    BY <1>3, <2>2
  <2>5. NoBurst' /\ wire' \in Seq(State)
    BY <1>1, <2>2 DEF NoBurst
  <2>6. \A i \in DOMAIN wire' : wire'[i].tv <= clock'
    <3>1. \A i \in DOMAIN wire : wire[i].tv \in Nat
      BY <1>1, TrailThenWire DEF ServiceInv, ServiceTypeOK
    <3> QED BY <1>1, <1>3, <2>2, <3>1
  <2> QED BY <1>4, <1>5, <2>3, <2>4, <2>5, <2>6 DEF Tracks
<1> QED BY <1>6, <1>7

\* Killing the process, or letting it be, does not touch the packets that
\* are on the wire.
LEMMA TracksKept ==
  ASSUME Tracks, UNCHANGED <<clock, wire, trail>>,
         \/ UNCHANGED vars
         \/ Freed /\ pc' # "run"
  PROVE  Tracks'
<1>1. PICK s \in Boot .. clock : StartedAt(s)
  BY DEF Tracks
<1>2. TurnsFrom(s)'
  <2>1. CASE UNCHANGED vars
    BY <1>1, <2>1 DEF StartedAt, TurnsFrom, vars, socketVars
  <2>2. CASE Freed /\ pc' # "run"
    BY <1>1, <2>2 DEF StartedAt, TurnsFrom, Freed
  <2> QED BY <2>1, <2>2
<1>3. StartedAt(s)' /\ s \in Boot .. clock'
  BY <1>1, <1>2 DEF StartedAt
<1>4. NoBurst'
  BY DEF Tracks, NoBurst
<1> QED BY <1>3, <1>4 DEF Tracks

\* The first packet of a new process comes a period after its start, and by
\* then all earlier packets have been stamped.
LEMMA TracksLaunch ==
  ASSUME ServiceInv, NEW outcome \in Outcomes, Launch(outcome), clock' = clock
  PROVE  Tracks'
<1>1. /\ clock \in Boot .. Horizon /\ trail \in Seq(State) /\ Tracks
  BY DEF ServiceInv, ProcessSound, ServiceTypeOK
<1>2. clock \in Nat /\ Boot \in Nat /\ Boot <= clock
  BY <1>1, BootAssumption
<1>3. /\ RestartsKeepPace
      /\ \A i \in DOMAIN (trail \o wire) :
           /\ (trail \o wire)[i].tv <= clock
           /\ (trail \o wire)[i].tv + Span(Len(trail \o wire) - i - 1) <= clock
  BY <1>1, <1>2, PaceFollows
<1>4. /\ trail' = trail \o wire /\ wire' = <<>> /\ DOMAIN heap' = {}
      /\ allocs' = 0 /\ timer'.expiry = clock + Period
      /\ pc' = "run" => timer'.waits = 1
  BY LaunchEffect DEF ServiceInv
<1>5. TurnsFrom(clock)'
  <2>1. DOMAIN wire' = {}
    BY <1>4
  <2>2. clock + (allocs' + 1) * Period = clock + Period
    BY <1>2, <1>4, PeriodAssumption
  <2>3. clock + Period <= clock + Period
    BY <1>2, PeriodAssumption
  <2> QED BY <1>4, <2>1, <2>2, <2>3 DEF TurnsFrom
<1>6. StartedAt(clock)'
  BY <1>3, <1>4, <1>5 DEF StartedAt, Span
<1>7. \A i, j \in DOMAIN trail' :
        i < j => trail'[i].tv + (j - i - 1) * Period <= trail'[j].tv
  BY ZenonT(60), <1>3, <1>4 DEF RestartsKeepPace
<1>8. /\ wire' \in Seq(State) /\ NoBurst'
      /\ \A i \in DOMAIN wire' : wire'[i].tv <= clock'
  BY <1>4, EmptySeq DEF NoBurst
<1>9. clock \in Boot .. clock'
  BY <1>2
<1> QED BY <1>6, <1>7, <1>8, <1>9 DEF Tracks

\* All steps of the service keep the pace of the wire.
LEMMA TracksStep ==
  ServiceInv /\ [ServiceNext]_serviceVars => Tracks'
<1> SUFFICES ASSUME ServiceInv, ServiceNext \/ UNCHANGED serviceVars
             PROVE  Tracks'
  OBVIOUS
<1>1. Tracks
  BY DEF ServiceInv
<1>2. CASE Process
  BY <1>2, TracksProcess DEF Process
<1>3. CASE Kill \/ CleanSignal
  BY <1>1, <1>3, TracksKept DEF Kill, CleanSignal
<1>4. CASE LinkDown \/ LinkUp \/ Reap \/ UNCHANGED serviceVars
  <2>1. UNCHANGED <<vars, trail>>
    BY <1>4 DEF LinkDown, LinkUp, Reap, serviceVars
  <2> QED BY <1>1, <2>1, TracksKept DEF vars, socketVars
<1>5. CASE SystemctlStop
  BY <1>1, <1>5, TracksKept DEF SystemctlStop
<1>6. CASE Restart
  <2>1. ASSUME NEW outcome \in Outcomes, Launch(outcome) PROVE Tracks'
    <3>1. clock' = clock
      BY <1>6, RestartEffect
    <3> QED BY <2>1, <3>1, TracksLaunch
  <2>2. ASSUME UNCHANGED <<vars, trail>> PROVE Tracks'
    BY <1>1, <2>2, TracksKept DEF vars, socketVars
  <2> QED BY ZenonT(60), <1>6, <2>1, <2>2, RestartEffect
<1> QED BY <1>2, <1>3, <1>4, <1>5, <1>6 DEF ServiceNext

------------------------------------------------------------------------------
(***************************************************************************)
(* Who pays for a start.                                                   *)
(***************************************************************************)

\* steady_clock does not run backwards.
LEMMA TimePasses ==
  ASSUME ServiceInv, Next
  PROVE  clock \in Nat /\ clock' \in Nat /\ clock <= clock'
<1>1. clock \in Nat /\ Boot \in Nat /\ (pc \in PC => IInv)
  BY BootAssumption DEF ServiceInv, ProcessSound
<1>2. CASE pc \in PC
  <2>1. Core
    BY <1>1, <1>2 DEF IInv, Core
  <2>2. clock' \in Nat
    <3>1. IInv'
      BY <1>1, <1>2, IInvStep
    <3> QED BY <1>1, <3>1 DEF IInv, TypeOK
  <2>3. ASSUME NEW now \in clock .. Horizon, NEW result \in Results, OnTimer(now, result)
        PROVE  clock <= clock'
    <3>1. clock' = now
      BY ZenonT(60), <2>1, <2>3, OnTimerEffect
    <3> QED BY <1>1, <3>1, HorizonAssumption
  <2>4. ASSUME NEW ec \in {"ok", "error"}, SocketWritable(ec) PROVE clock <= clock'
    BY <1>1, <2>4 DEF SocketWritable
  <2>5. ASSUME Quiet PROVE clock <= clock'
    BY <2>5 DEF Quiet
  <2> QED BY <1>1, <2>1, <2>2, <2>3, <2>4, <2>5, Steps
<1>3. CASE pc \notin PC
  <2>1. Tick
    BY <1>3, NobodyRuns DEF PC
  <2> QED BY <1>1, <2>1 DEF Tick
<1> QED BY <1>2, <1>3

\* A process that is well comes to harm only while the network is away: it
\* takes a send that the kernel refuses.
LEMMA HarmNeedsOutage ==
  ASSUME ServiceInv, Process, pc = "run", ~SendFailed, link
  PROVE  pc' = "run" /\ ~SendFailed'
<1>1. /\ Next /\ (attempts' # attempts => (wire' # wire) = link)
  BY ZenonT(60) DEF Process
<1>2. Core /\ NothingCancelled
  BY DEF ServiceInv, ProcessSound, IInv, Core, PC
<1>3. attempts \in Nat
  BY <1>2, CoreTypes
<1>4. attempts' = attempts + 1 => wire' # wire
  <2>1. attempts' # attempts => wire' # wire
    <3>1. link = TRUE
      BY DEF ServiceInv, ServiceTypeOK
    <3> QED BY ZenonT(60), <1>1, <3>1
  <2>2. attempts + 1 # attempts
    BY <1>3
  <2> QED BY <2>1, <2>2
<1>5. ASSUME NEW now \in clock .. Horizon, NEW result \in Results, OnTimer(now, result)
      PROVE  pc' = "run" /\ ~SendFailed'
  <2>1. pc' = "run"
    BY ZenonT(60), <1>2, <1>5, OnTimerEffect
  <2> QED BY ZenonT(60), <1>2, <1>4, <1>5, <2>1, TickEffect
<1>6. ASSUME NEW ec \in {"ok", "error"}, SocketWritable(ec)
      PROVE  pc' = "run" /\ ~SendFailed'
  BY <1>2, <1>4, <1>6, WriteEffect
<1>7. CASE OnSent
  BY <1>2, <1>7, OnSentEffect
<1>8. CASE Tick \/ TimerExpires
  <2>1. Quiet
    BY <1>2, <1>8, QuietSteps
  <2>2. pc' = "run"
    BY <1>8 DEF Tick, TimerExpires
  <2> QED BY <2>1, <2>2 DEF Quiet
<1>9. ~Unwind
  BY DEF Unwind, DestroySender, DestroyIoContext, Exit
<1> QED BY <1>1, <1>5, <1>6, <1>7, <1>8, <1>9 DEF Next, Handler, Results

\* The price of n starts.
Price(n) == n * RestartSec

\* The prices that the proofs compare.
LEMMA Prices ==
  /\ RestartSec \in Nat /\ Price(0) = 0
  /\ \A n \in Int : Price(n) \in Int /\ Price(n + 1) = Price(n) + RestartSec
  /\ \A m, n \in Int : m <= n => Price(m) <= Price(n)
BY ServiceAssumption DEF Price

\* The balance and its parts are numbers.
BalanceSound ==
  /\ kills \in Nat /\ outages \in Nat /\ limit.num \in Nat
  /\ since \in Nat /\ downtime \in Nat /\ due \in Nat /\ link \in BOOLEAN
  /\ kills + outages - limit.num \in Int
  /\ Downtime \in Nat
  /\ Balance = Price(kills + outages - limit.num) + Downtime
  /\ Balance \in Int

\* That the balance is a number follows from the types of the counters.
LEMMA BalanceTypes ==
  ServiceTypeOK /\ clock \in Nat /\ since <= clock => BalanceSound
<1> SUFFICES ASSUME ServiceTypeOK, clock \in Nat, since <= clock
             PROVE  BalanceSound
  OBVIOUS
<1>1. /\ kills \in Nat /\ outages \in Nat /\ limit.num \in Nat
      /\ since \in Nat /\ downtime \in Nat /\ due \in Nat /\ link \in BOOLEAN
  BY ServiceAssumption DEF ServiceTypeOK
<1>2. Downtime \in Nat /\ kills + outages - limit.num \in Int
  BY <1>1 DEF Downtime
<1>3. Balance = Price(kills + outages - limit.num) + Downtime
  BY DEF Balance, Price
<1>4. Balance \in Int
  BY <1>2, <1>3, Prices
<1> QED BY <1>1, <1>2, <1>3, <1>4 DEF BalanceSound

\* The time that passes is a number.
LEMMA Passing == \A c, d \in Nat : d = c + (d - c) /\ (c <= d => d - c \in Nat)
OBVIOUS

\* Every step keeps the types of systemd's and the host's variables, and an
\* outage that lasts has begun in the past.
LEMMA ServiceTypesStep ==
  ServiceInv /\ [ServiceNext]_serviceVars
    => /\ ServiceTypeOK' /\ clock \in Nat /\ clock' \in Nat
       /\ since' <= clock' /\ due' <= clock' + RestartSec
       /\ ~link' => outages' >= 1
<1> SUFFICES ASSUME ServiceInv, ServiceNext \/ UNCHANGED serviceVars
             PROVE  /\ ServiceTypeOK' /\ clock \in Nat /\ clock' \in Nat
                    /\ since' <= clock' /\ due' <= clock' + RestartSec
                    /\ ~link' => outages' >= 1
  OBVIOUS
<1> DEFINE Limited == limit \in [begin : Nat, num : 0 .. StartLimitBurst]
           Numbers == /\ due \in Nat /\ since \in Nat /\ downtime \in Nat
                      /\ link \in BOOLEAN
                      /\ outages \in 0 .. MaxOutages /\ kills \in 0 .. MaxKills
           Times == /\ clock \in Nat
                    /\ since <= clock /\ due <= clock + RestartSec
                    /\ ~link => outages >= 1
<1>1. Numbers /\ Limited /\ trail \in Seq(State)
  BY DEF ServiceInv, ServiceTypeOK
<1>2. Times
  <2>1. clock \in Nat
    BY BootAssumption DEF ServiceInv, ProcessSound
  <2>2. since <= clock /\ due <= clock + RestartSec /\ (~link => outages >= 1)
    BY DEF ServiceInv, StartsPaid
  <2> QED BY <2>1, <2>2
<1>3. pc' \in ServicePC
  BY UnitFollowsStep
<1>4. unit' \in {"active", "activating", "failed", "inactive"}
  BY Zenon DEF ServiceInv, ServiceTypeOK, ServiceNext, Process, Kill, CleanSignal, LinkDown, LinkUp, Reap,
         SystemctlStop, Restart, unitVars, serviceVars
<1>5. trail' \in Seq(State)
  <2>1. trail \o wire \in Seq(State)
    BY <1>1, TrailThenWire DEF ServiceInv, Tracks
  <2>2. trail' = trail \/ trail' = trail \o wire
    BY RestartEffect
    DEF ServiceNext, Process, Kill, CleanSignal, LinkDown, LinkUp, Reap, SystemctlStop, Launch,
        serviceVars
  <2> QED BY ZenonT(60), <1>1, <2>1, <2>2
<1>6. Limited'
  <2>1. CASE Restart
    <3>1. limit.num < StartLimitBurst => [limit EXCEPT !.num = @ + 1] \in [begin : Nat, num : 0 .. StartLimitBurst]
      BY SMTT(60), <1>1, ServiceAssumption
    <3>2. [begin |-> clock, num |-> 1] \in [begin : Nat, num : 0 .. StartLimitBurst]
      BY <1>2, ServiceAssumption
    <3>3. \/ limit' = [begin |-> clock, num |-> 1]
          \/ limit.num < StartLimitBurst /\ limit' = [limit EXCEPT !.num = @ + 1]
          \/ limit' = limit
      BY ZenonT(60), <2>1, RestartEffect
    <3> QED BY Zenon, <1>1, <3>1, <3>2, <3>3
  <2>2. CASE ~Restart
    <3>1. limit' = limit
      BY <2>2
      DEF ServiceNext, Process, Kill, CleanSignal, LinkDown, LinkUp, Reap, SystemctlStop,
          unitVars, serviceVars
    <3> QED BY <1>1, <3>1
  <2> QED BY <2>1, <2>2
<1>7. Numbers' /\ Times'
  <2>1. CASE Process
    <3>1. clock' \in Nat
      BY <2>1, TimePasses DEF Process
    <3>2. clock <= clock'
      BY <2>1, TimePasses DEF Process
    <3>3. UNCHANGED <<due, link, since, downtime, outages, kills>>
      BY <2>1 DEF Process, unitVars, linkVars
    <3>4. since <= clock' /\ due <= clock' + RestartSec
      <4>1. since \in Nat /\ due \in Nat /\ clock \in Nat /\ RestartSec \in Nat
        BY <1>1, <1>2, ServiceAssumption
      <4>2. since <= clock /\ due <= clock + RestartSec
        BY <1>2
      <4> DEFINE now == clock'
      <4>3. now \in Nat /\ clock <= now
        BY <3>1, <3>2
      <4> HIDE DEF Numbers, Times, now
      <4>4. since <= now
        BY <4>1, <4>2, <4>3
      <4>5. due <= now + RestartSec
        BY <4>1, <4>2, <4>3
      <4> QED BY <4>4, <4>5 DEF now
    <3>5. Numbers'
      BY <1>1, <3>3
    <3> QED BY <1>2, <3>1, <3>3, <3>4, <3>5
  <2>2. CASE Kill \/ CleanSignal
    <3>1. UNCHANGED <<clock, due, link, since, downtime, outages>>
      BY <2>2 DEF Kill, CleanSignal, unitVars, linkVars
    <3>2. kills' = kills \/ (kills < MaxKills /\ kills' = kills + 1)
      BY <2>2 DEF Kill, CleanSignal
    <3>3. kills' \in 0 .. MaxKills
      BY <1>1, <3>2, ServiceAssumption
    <3> QED BY <1>1, <1>2, <3>1, <3>3
  <2>3. CASE LinkDown
    <3>1. UNCHANGED <<clock, due, downtime, kills>>
      BY <2>3 DEF LinkDown, unitVars, vars
    <3>2. link' = FALSE /\ since' = clock /\ outages' = outages + 1 /\ outages < MaxOutages
      BY <2>3 DEF LinkDown
    <3>3. outages' \in 0 .. MaxOutages /\ outages' >= 1
      BY <1>1, <3>2, ServiceAssumption
    <3>4. Numbers'
      BY ZenonT(60), <1>1, <1>2, <3>1, <3>2, <3>3
    <3> QED BY <1>2, <3>1, <3>2, <3>3, <3>4
  <2>4. CASE LinkUp
    <3>1. UNCHANGED <<clock, due, since, outages, kills>>
      BY <2>4 DEF LinkUp, unitVars, vars
    <3>2. link' = TRUE /\ downtime' = downtime + clock - since
      BY <2>4 DEF LinkUp
    <3>3. downtime' \in Nat
      BY <1>1, <1>2, <3>2
    <3>4. Numbers'
      BY <1>1, <3>1, <3>2, <3>3
    <3> QED BY <1>2, <3>1, <3>2, <3>4
  <2>5. CASE Reap
    <3>1. UNCHANGED <<clock, link, since, downtime, outages, kills>>
      BY <2>5 DEF Reap, linkVars, vars
    <3>2. due' = clock + RestartSec \/ due' = due
      BY <2>5 DEF Reap
    <3> QED BY <1>1, <1>2, <3>1, <3>2, ServiceAssumption
  <2>6. CASE SystemctlStop
    BY <1>1, <1>2, <2>6, ServiceAssumption DEF SystemctlStop, linkVars
  <2>7. CASE Restart
    <3>1. UNCHANGED <<clock, due, linkVars>>
      BY <2>7, RestartEffect
    <3>2. kills' = kills \/ (kills < MaxKills /\ kills' = kills + 1)
      BY ZenonT(60), <2>7, RestartEffect DEF Charged
    <3>3. kills' \in 0 .. MaxKills
      BY <1>1, <3>2, ServiceAssumption
    <3> QED BY <1>1, <1>2, <3>1, <3>3 DEF linkVars
  <2>8. CASE UNCHANGED serviceVars
    BY <1>1, <1>2, <2>8 DEF serviceVars, unitVars, linkVars, vars
  <2> QED BY <2>1, <2>2, <2>3, <2>4, <2>5, <2>6, <2>7, <2>8 DEF ServiceNext
<1> QED BY <1>1, <1>2, <1>3, <1>4, <1>5, <1>6, <1>7 DEF ServiceTypeOK

\* The balance after a step.  A fault and the beginning of an outage pay for
\* a start, the time for which the network is away pays, a start costs.
LEMMA BalanceStep ==
  ASSUME ServiceInv, ServiceNext \/ UNCHANGED serviceVars
  PROVE  /\ clock \in Nat /\ clock' \in Nat /\ due \in Nat /\ due' \in Nat
         /\ Balance \in Int /\ Balance' \in Int
         /\ RestartSec \in Nat /\ link \in BOOLEAN
         /\ Process => /\ clock <= clock' /\ Balance <= Balance'
                       /\ ~link => Balance' = Balance + (clock' - clock)
         /\ Kill \/ LinkDown => Balance' = Balance + RestartSec
         /\ LinkUp \/ CleanSignal \/ Reap \/ SystemctlStop \/ UNCHANGED serviceVars
              => Balance' = Balance
         /\ UNCHANGED <<limit, linkVars, kills, clock>> => Balance' = Balance
         /\ Restart /\ limit' = [limit EXCEPT !.num = @ + 1]
              => \/ kills' = kills /\ Balance' = Balance - RestartSec
                 \/ kills' = kills + 1 /\ Balance' = Balance
         /\ Restart /\ limit' = [begin |-> clock, num |-> 1]
              => /\ Balance' >= IF link THEN -RestartSec ELSE 0
                 /\ kills' = kills \/ Balance' >= 0
<1> DEFINE paid == kills + outages - limit.num
<1>1. ServiceTypeOK /\ clock \in Nat /\ since <= clock /\ (~link => outages >= 1)
  BY BootAssumption DEF ServiceInv, ProcessSound, StartsPaid
<1>2. (ServiceTypeOK /\ clock \in Nat /\ since <= clock)'
  BY ServiceTypesStep
<1>3. BalanceSound /\ BalanceSound'
  BY <1>1, <1>2, BalanceTypes, PTL
<1>4. /\ kills \in Nat /\ outages \in Nat /\ limit.num \in Nat
      /\ since \in Nat /\ downtime \in Nat /\ due \in Nat /\ link \in BOOLEAN
      /\ paid \in Int /\ Downtime \in Nat /\ due' \in Nat /\ Downtime' \in Nat
  BY <1>3 DEF BalanceSound
<1>5. Balance \in Int /\ Balance' \in Int
  BY <1>3 DEF BalanceSound
<1>6. Balance = Price(paid) + Downtime /\ Balance' = Price(paid') + Downtime'
  BY <1>3 DEF BalanceSound
<1>7. RestartSec \in Nat
  BY Prices
<1>8. ASSUME Process
      PROVE  /\ clock <= clock' /\ Balance <= Balance'
             /\ ~link => Balance' = Balance + (clock' - clock)
  <2>1. clock <= clock'
    BY <1>8, TimePasses DEF Process
  <2>2. paid' = paid /\ UNCHANGED <<link, since, downtime>>
    BY <1>8 DEF Process, unitVars, linkVars
  <2>3. link => Downtime' = Downtime
    BY <2>2 DEF Downtime
  <2>4. ~link => Downtime' = Downtime + (clock' - clock)
    BY <1>1, <1>2, <1>4, <2>2 DEF Downtime
  <2>5. Price(paid) \in Int
    BY ZenonT(60), <1>4, Prices
  <2>6. Price(paid') = Price(paid)
    BY <2>2
  <2>7. clock \in Nat /\ clock' \in Nat /\ Downtime \in Nat /\ Downtime' \in Nat
    BY <1>1, <1>2, <1>4
  <2> HIDE DEF paid
  <2>8. Balance <= Balance'
    <3>1. Downtime <= Downtime'
      <4>1. CASE link
        BY <2>3, <2>7, <4>1
      <4>2. CASE ~link
        <5> DEFINE passed == clock' - clock
        <5>1. passed \in Nat
          BY ZenonT(60), <2>1, <2>7, Passing
        <5>2. Downtime' = Downtime + passed
          BY <2>4, <4>2
        <5> HIDE DEF passed
        <5> QED BY <2>7, <5>1, <5>2
      <4> QED BY <4>1, <4>2
    <3> QED BY <1>6, <2>5, <2>6, <2>7, <3>1
  <2>9. ~link => Balance' = Balance + (clock' - clock)
    BY <1>6, <2>4, <2>5, <2>6, <2>7
  <2> QED BY <2>1, <2>8, <2>9
<1>9. ASSUME Kill \/ LinkDown PROVE Balance' = Balance + RestartSec
  <2>1. paid' = paid + 1
    BY <1>4, <1>9 DEF Kill, LinkDown, unitVars, linkVars
  <2>2. Downtime' = Downtime
    BY <1>1, <1>4, <1>9 DEF Downtime, Kill, LinkDown, linkVars, vars
  <2>3. Price(paid') = Price(paid) + RestartSec /\ Price(paid) \in Int
    BY ZenonT(60), <1>4, <2>1, Prices
  <2> HIDE DEF paid
  <2> QED BY <1>4, <1>6, <1>7, <2>2, <2>3
<1>10. ASSUME UNCHANGED <<limit, linkVars, kills, clock>> PROVE Balance' = Balance
  BY <1>10 DEF Balance, Downtime, linkVars
<1>11. ASSUME LinkUp PROVE Balance' = Balance
  <2>1. paid' = paid /\ Downtime' = Downtime
    BY <1>1, <1>4, <1>11 DEF Downtime, LinkUp, unitVars, vars
  <2> QED BY <1>6, <2>1
<1>12. ASSUME CleanSignal \/ Reap \/ SystemctlStop \/ UNCHANGED serviceVars
       PROVE  Balance' = Balance
  BY <1>10, <1>12 DEF CleanSignal, Reap, SystemctlStop, serviceVars, unitVars, vars
<1>13. ASSUME Restart
       PROVE  /\ outages' = outages /\ Downtime' = Downtime
              /\ kills' = kills \/ kills' = kills + 1
  <2>1. outages' = outages /\ Downtime' = Downtime
    BY <1>13, RestartEffect DEF Downtime, linkVars
  <2>2. kills' = kills \/ kills' = kills + 1
    BY ZenonT(60), <1>13, RestartEffect DEF Charged
  <2> QED BY <2>1, <2>2
<1>14. ASSUME Restart, limit' = [limit EXCEPT !.num = @ + 1]
       PROVE  \/ kills' = kills /\ Balance' = Balance - RestartSec
              \/ kills' = kills + 1 /\ Balance' = Balance
  <2>1. limit'.num = limit.num + 1
    BY <1>1, <1>14 DEF ServiceTypeOK
  <2>2. CASE kills' = kills
    <3>1. paid' \in Int /\ paid = paid' + 1
      BY <1>4, <1>13, <1>14, <2>1, <2>2
    <3>2. Price(paid) = Price(paid') + RestartSec /\ Price(paid') \in Int
      BY ZenonT(60), <3>1, Prices
    <3> HIDE DEF paid
    <3> QED BY <1>4, <1>6, <1>7, <1>13, <1>14, <2>2, <3>2
  <2>3. CASE kills' = kills + 1
    <3>1. paid' = paid
      BY <1>4, <1>13, <1>14, <2>1, <2>3
    <3> HIDE DEF paid
    <3> QED BY <1>6, <1>13, <1>14, <2>3, <3>1
  <2> QED BY <1>13, <1>14, <2>2, <2>3
<1>15. ASSUME Restart, limit' = [begin |-> clock, num |-> 1]
       PROVE  /\ Balance' >= IF link THEN -RestartSec ELSE 0
              /\ kills' = kills \/ Balance' >= 0
  <2>1. paid' = kills' + outages - 1
    BY <1>13, <1>15
  <2>2. /\ paid' \in Int /\ 0 <= paid' + 1 /\ (~link => 0 <= paid')
        /\ kills' = kills \/ 0 <= paid'
    BY <1>1, <1>4, <1>13, <1>15, <2>1
  <2> HIDE DEF paid
  <2>3. \A n \in Int : /\ Price(n) \in Int
                       /\ 0 <= n + 1 => 0 <= Price(n) + RestartSec
                       /\ 0 <= n => 0 <= Price(n)
    <3> SUFFICES ASSUME NEW n \in Int
                 PROVE  /\ Price(n) \in Int
                        /\ 0 <= n + 1 => 0 <= Price(n) + RestartSec
                        /\ 0 <= n => 0 <= Price(n)
      OBVIOUS
    <3>1. Price(n) \in Int /\ Price(n + 1) = Price(n) + RestartSec
      BY ZenonT(60), Prices
    <3>2. 0 <= n + 1 => Price(0) <= Price(n + 1)
      BY Prices
    <3>3. 0 <= n => Price(0) <= Price(n)
      BY Prices
    <3>4. Price(0) = 0
      BY Prices
    <3> QED BY <3>1, <3>2, <3>3, <3>4
  <2>4. Price(paid') \in Int
    BY <2>2, <2>3
  <2>5. /\ 0 <= Price(paid') + RestartSec /\ (~link => 0 <= Price(paid'))
        /\ kills' = kills \/ 0 <= Price(paid')
    BY ZenonT(60), <2>2, <2>3
  <2> QED BY <1>4, <1>6, <1>7, <1>13, <1>15, <2>4, <2>5
<1> QED
  BY <1>1, <1>2, <1>3, <1>4, <1>5, <1>6, <1>7, <1>8, <1>9, <1>10, <1>11, <1>12, <1>14, <1>15

\* What the accounts say while the unit is active, while it waits for a
\* restart, and after it has failed.
ActivePaid ==
  /\ pc = "killed" => Balance >= IF link THEN 0 ELSE RestartSec
  /\ pc \in PC /\ Doomed => Balance >= 0
  /\ ~Doomed => Balance >= IF link THEN -RestartSec ELSE 0

WaitingPaid ==
  \/ link /\ Balance >= 0
  \/ Balance >= RestartSec
  \/ Balance >= RestartSec + clock - due

Accounts ==
  /\ since <= clock /\ due <= clock + RestartSec
  /\ ~link => outages >= 1
  /\ unit = "active" => ActivePaid
  /\ unit = "activating" => WaitingPaid
  /\ unit = "failed" => Balance >= 0 /\ limit.num = StartLimitBurst

\* StartsPaid, case by case.
LEMMA PaidCases == StartsPaid <=> Accounts
BY DEF StartsPaid, Accounts, ActivePaid, WaitingPaid

\* A process that was killed stays so, no step of it kills it, and none brings
\* back one that is gone.
LEMMA ProcessKeepsKilled ==
  ASSUME ServiceInv, Next
  PROVE  (pc' = "killed" <=> pc = "killed") /\ (pc' \in PC <=> pc \in PC)
<1>1. CASE pc \in PC
  <2>1. IInv'
    BY <1>1, IInvStep DEF ServiceInv, ProcessSound
  <2> QED BY <1>1, <2>1 DEF IInv, TypeOK, PC
<1>2. CASE pc \notin PC
  <2>1. Tick
    BY <1>2, NobodyRuns DEF PC
  <2> QED BY <2>1 DEF Tick
<1> QED BY <1>1, <1>2

\* A step of the process keeps the accounts of an active unit: only an
\* outage harms the process, and then the outage has paid.
LEMMA ActivePaidProcess ==
  ASSUME ServiceInv, Process, ActivePaid
  PROVE  ActivePaid'
<1> DEFINE b == Balance
           c == Balance'
<1>1. b \in Int /\ c \in Int
  BY BalanceStep DEF ServiceNext
<1>2. b <= c
  BY BalanceStep DEF ServiceNext
<1>3. /\ link' = link /\ (pc' = "killed" <=> pc = "killed")
      /\ pc' \in PC <=> pc \in PC
  BY ProcessKeepsKilled DEF Process, linkVars
<1>4. ~Doomed /\ Doomed' => ~link
  BY HarmNeedsOutage DEF Doomed
<1>5. RestartSec \in Nat /\ link \in BOOLEAN
  BY Prices DEF ServiceInv, ServiceTypeOK
<1>6. /\ pc = "killed" => b >= IF link THEN 0 ELSE RestartSec
      /\ pc \in PC /\ Doomed => b >= 0
      /\ ~Doomed => b >= IF link THEN -RestartSec ELSE 0
  BY DEF ActivePaid
<1> HIDE DEF b, c
<1>7. /\ pc' = "killed" => c >= IF link THEN 0 ELSE RestartSec
      /\ pc' \in PC /\ Doomed' => c >= 0
      /\ ~Doomed' => c >= IF link THEN -RestartSec ELSE 0
  <2>1. CASE pc' \notin PC
    <3>1. Doomed'
      BY <2>1 DEF Doomed, PC
    <3> QED BY <1>1, <1>2, <1>3, <1>5, <1>6, <2>1, <3>1
  <2>2. CASE pc' \in PC
    <3>1. b >= IF link THEN -RestartSec ELSE 0
      BY <1>1, <1>3, <1>5, <1>6, <2>2
    <3>2. Doomed' => b >= 0
      BY <1>3, <1>4, <1>5, <1>6, <2>2
    <3>3. pc' # "killed"
      BY <2>2 DEF PC
    <3> QED BY <1>1, <1>2, <1>5, <3>1, <3>2, <3>3
  <2> QED BY <2>1, <2>2
<1> QED BY <1>3, <1>7 DEF ActivePaid, b, c

\* While a unit waits for its restart, time passes: with the network away it
\* pays, and without an outage the start is owed to nobody.
LEMMA WaitingPaidProcess ==
  ASSUME ServiceInv, Process, WaitingPaid
  PROVE  WaitingPaid'
<1> DEFINE b == Balance
           c == Balance'
           passed == clock' - clock
<1>1. b \in Int /\ c \in Int
  BY BalanceStep DEF ServiceNext
<1>2. b <= c
  BY BalanceStep DEF ServiceNext
<1>3. ~link => c = b + passed
  BY BalanceStep DEF ServiceNext
<1>4. link' = link /\ due' = due
  BY DEF Process, unitVars, linkVars
<1>5. RestartSec \in Nat /\ link \in BOOLEAN /\ clock \in Nat /\ due \in Nat
  BY BalanceStep DEF ServiceNext
<1>6. due <= clock + RestartSec
  BY DEF ServiceInv, StartsPaid
<1>7. passed \in Nat /\ clock' = clock + passed
  <2>1. clock' \in Nat
    BY TimePasses DEF Process
  <2>2. clock <= clock'
    BY TimePasses DEF Process
  <2>3. passed \in Nat
    BY Zenon, <1>5, <2>1, <2>2, Passing
  <2>4. clock' = clock + passed
    BY ZenonT(60), <1>5, <2>1, Passing
  <2> QED BY <2>3, <2>4
<1>8. (link /\ b >= 0) \/ b >= RestartSec \/ b >= RestartSec + clock - due
  BY DEF WaitingPaid
<1> HIDE DEF b, c, passed
<1>9. (link /\ c >= 0) \/ c >= RestartSec \/ c >= RestartSec + (clock + passed) - due
  <2>1. CASE link
    BY <1>1, <1>2, <1>5, <1>6, <1>8, <2>1
  <2>2. CASE ~link
    <3>1. passed \in Nat /\ c = b + passed
      BY <1>3, <1>7, <2>2
    <3> QED BY <1>1, <1>5, <1>8, <2>2, <3>1
  <2> QED BY <2>1, <2>2
<1> QED BY <1>4, <1>7, <1>9 DEF WaitingPaid, c

\* A start pays, whether systemd lets it through or gives up.
LEMMA RestartPaid ==
  ASSUME ServiceInv, Restart, WaitingPaid
  PROVE  /\ unit' = "active" => ActivePaid'
         /\ unit' = "failed" => Balance' >= 0 /\ limit'.num = StartLimitBurst
<1> DEFINE b == Balance
           c == Balance'
<1>1. b \in Int /\ c \in Int
  BY BalanceStep DEF ServiceNext
<1>2. RestartSec \in Nat /\ link \in BOOLEAN /\ clock \in Nat /\ due \in Nat
  BY BalanceStep DEF ServiceNext
<1>3. (link /\ b >= 0) \/ b >= RestartSec \/ b >= RestartSec + clock - due
  BY DEF WaitingPaid
<1>4. clock >= due /\ UNCHANGED <<link, clock>>
  BY RestartEffect DEF linkVars
<1>5. limit' = [limit EXCEPT !.num = @ + 1]
        => \/ kills' = kills /\ c = b - RestartSec
           \/ kills' = kills + 1 /\ c = b
  BY BalanceStep DEF ServiceNext
<1>6. limit' = [begin |-> clock, num |-> 1]
        => /\ c >= IF link THEN -RestartSec ELSE 0
           /\ kills' = kills \/ c >= 0
  BY BalanceStep DEF ServiceNext
<1>7. UNCHANGED <<limit, linkVars, kills, clock>> => c = b
  BY BalanceStep DEF ServiceNext
<1> HIDE DEF b, c
<1>8. b >= 0 /\ (link \/ b >= RestartSec)
  BY <1>1, <1>2, <1>3, <1>4
<1>9. ASSUME unit' = "active" PROVE ActivePaid'
  <2>1. (c >= IF link THEN -RestartSec ELSE 0) /\ (kills' = kills \/ c >= 0)
    <3>1. CASE limit' = [begin |-> clock, num |-> 1]
      BY <1>6, <3>1
    <3>2. CASE limit' = [limit EXCEPT !.num = @ + 1]
      BY <1>1, <1>2, <1>5, <1>8, <3>2
    <3> QED BY <1>9, <3>1, <3>2, RestartEffect
  <2>2. PICK outcome \in Outcomes : Launch(outcome) /\ Charged(outcome)
    BY Zenon, <1>9, RestartEffect
  <2>3. pc' = outcome /\ ready' = <<>>
    BY <2>2 DEF Launch
  <2>4. pc' = "exit_failure" => ~link \/ kills' # kills
    <3>1. kills \in Nat
      BY ServiceAssumption DEF ServiceInv, ServiceTypeOK
    <3> QED BY <2>2, <2>3, <3>1 DEF Charged
  <2>5. ~SendFailed'
    BY <2>3 DEF SendFailed
  <2>6. /\ pc' # "killed"
        /\ pc' \in PC /\ Doomed' => ~link \/ kills' # kills
    BY <2>2, <2>3, <2>4, <2>5 DEF Doomed, Outcomes, PC
  <2>7. /\ pc' \in PC /\ Doomed' => c >= 0
        /\ ~Doomed' => c >= IF link THEN -RestartSec ELSE 0
    BY <2>1, <2>6
  <2> QED BY <1>4, <2>6, <2>7 DEF ActivePaid, c
<1>10. ASSUME unit' = "failed" PROVE Balance' >= 0 /\ limit'.num = StartLimitBurst
  <2>1. ~(limit.num < StartLimitBurst) /\ UNCHANGED <<limit, linkVars, kills, clock>>
    BY <1>10, RestartEffect
  <2>2. limit.num \in 0 .. StartLimitBurst
    BY DEF ServiceInv, ServiceTypeOK
  <2>3. limit'.num = StartLimitBurst
    BY <2>1, <2>2, ServiceAssumption
  <2> QED BY <1>7, <1>8, <2>1, <2>3 DEF c
<1> QED BY <1>9, <1>10

\* Every step keeps the accounts: systemd gives up only on starts that were
\* paid for.
LEMMA StartsPaidStep ==
  ServiceInv /\ [ServiceNext]_serviceVars => StartsPaid'
<1> SUFFICES ASSUME ServiceInv, ServiceNext \/ UNCHANGED serviceVars
             PROVE  StartsPaid'
  OBVIOUS
<1> DEFINE b == Balance
           c == Balance'
<1>1. /\ since' <= clock' /\ due' <= clock' + RestartSec
      /\ ~link' => outages' >= 1
  BY ServiceTypesStep
<1>2. /\ unit = "active" => ActivePaid
      /\ unit = "activating" => WaitingPaid
      /\ unit = "failed" => b >= 0 /\ limit.num = StartLimitBurst
      /\ due <= clock + RestartSec
  BY PaidCases DEF ServiceInv, Accounts
<1>3. b \in Int /\ c \in Int
  BY BalanceStep
<1>4. RestartSec \in Nat /\ link \in BOOLEAN /\ clock \in Nat /\ due \in Nat
  BY BalanceStep
<1>5. UnitFollows
  BY DEF ServiceInv
<1> DEFINE Goal == /\ unit' = "active" => ActivePaid'
                   /\ unit' = "activating" => WaitingPaid'
                   /\ unit' = "failed" => c >= 0 /\ limit'.num = StartLimitBurst
<1>6. ASSUME c = b, UNCHANGED <<unit, due, limit, clock, pc, ready>>, link' = link
      PROVE  Goal
  <2>1. Doomed' = Doomed
    BY <1>6 DEF Doomed, SendFailed, IsFailedSend
  <2> QED BY <1>2, <1>6, <2>1 DEF ActivePaid, WaitingPaid
<1>7. ASSUME Process PROVE Goal
  <2>1. UNCHANGED <<unit, limit>> /\ b <= c
    BY <1>7, BalanceStep DEF Process, unitVars
  <2> QED BY <1>2, <1>3, <1>7, <2>1, ActivePaidProcess, WaitingPaidProcess
<1>8. ASSUME Kill PROVE Goal
  <2>1. c = b + RestartSec
    BY <1>8, BalanceStep
  <2>2. pc \in PC \ {"exit_failure"} /\ pc' = "killed" /\ UNCHANGED <<unit, link>>
    BY <1>8 DEF Kill, Alive, unitVars, linkVars
  <2>3. unit \notin {"activating", "failed"}
    BY <1>5, <2>2 DEF UnitFollows, PC
  <2>4. unit = "active" => b >= IF link THEN -RestartSec ELSE 0
    BY <1>2, <1>3, <1>4, <2>2 DEF ActivePaid, PC, Doomed
  <2> HIDE DEF b, c
  <2>5. unit = "active" => c >= IF link THEN 0 ELSE RestartSec
    BY <1>3, <1>4, <2>1, <2>4
  <2>6. Doomed' /\ (unit = "active" => ActivePaid')
    BY <2>2, <2>5 DEF ActivePaid, Doomed, PC, c
  <2> QED BY <2>2, <2>3, <2>6
<1>9. ASSUME CleanSignal PROVE Goal
  <2>1. pc \in PC \ {"exit_failure"} /\ pc' = "terminated" /\ unit' = unit
    BY <1>9 DEF CleanSignal, Alive, unitVars
  <2>2. unit \notin {"activating", "failed"}
    BY <1>5, <2>1 DEF UnitFollows, PC
  <2>3. ActivePaid'
    BY <2>1 DEF ActivePaid, Doomed, PC
  <2> QED BY <2>1, <2>2, <2>3
<1>10. ASSUME LinkDown PROVE Goal
  <2>1. c = b + RestartSec
    BY <1>10, BalanceStep
  <2>2. UNCHANGED <<unit, due, limit, clock, pc, ready>> /\ link /\ link' = FALSE
    BY <1>10 DEF LinkDown, unitVars, vars, socketVars
  <2>3. Doomed' = Doomed
    BY <2>2 DEF Doomed, SendFailed, IsFailedSend
  <2>4. /\ ActivePaid => /\ pc = "killed" => b >= 0
                         /\ pc \in PC /\ Doomed => b >= 0
                         /\ ~Doomed => b >= -RestartSec
        /\ WaitingPaid => b >= 0 \/ b >= RestartSec \/ b >= RestartSec + clock - due
    BY <2>2 DEF ActivePaid, WaitingPaid
  <2> HIDE DEF b, c
  <2>5. /\ ActivePaid => /\ pc = "killed" => c >= RestartSec
                         /\ pc \in PC /\ Doomed => c >= 0
                         /\ ~Doomed => c >= 0
        /\ WaitingPaid => c >= RestartSec
        /\ b >= 0 => c >= 0
    BY <1>2, <1>3, <1>4, <2>1, <2>4
  <2>6. (ActivePaid => ActivePaid') /\ (WaitingPaid => WaitingPaid')
    BY <2>2, <2>3, <2>5 DEF ActivePaid, WaitingPaid, c
  <2> QED BY <1>2, <2>2, <2>5, <2>6
<1>11. ASSUME LinkUp PROVE Goal
  <2>1. c = b
    BY <1>11, BalanceStep
  <2>2. UNCHANGED <<unit, due, limit, clock, pc, ready>> /\ ~link /\ link' = TRUE
    BY <1>11 DEF LinkUp, unitVars, vars, socketVars
  <2>3. Doomed' = Doomed
    BY <2>2 DEF Doomed, SendFailed, IsFailedSend
  <2>4. /\ ActivePaid => /\ pc = "killed" => b >= RestartSec
                         /\ pc \in PC /\ Doomed => b >= 0
                         /\ ~Doomed => b >= 0
        /\ WaitingPaid => b >= RestartSec \/ b >= RestartSec + clock - due
    BY <2>2 DEF ActivePaid, WaitingPaid
  <2> HIDE DEF b, c
  <2>5. /\ ActivePaid => /\ pc = "killed" => c >= 0
                         /\ pc \in PC /\ Doomed => c >= 0
                         /\ ~Doomed => c >= -RestartSec
        /\ WaitingPaid => c >= 0
    BY <1>2, <1>3, <1>4, <2>1, <2>4
  <2>6. (ActivePaid => ActivePaid') /\ (WaitingPaid => WaitingPaid')
    BY <2>2, <2>3, <2>5 DEF ActivePaid, WaitingPaid, c
  <2> QED BY <1>2, <2>1, <2>2, <2>6
<1>12. ASSUME Reap PROVE Goal
  <2>1. c = b /\ unit = "active" /\ unit' \in {"activating", "inactive"} /\ clock' = clock
    BY <1>12, BalanceStep DEF Reap, vars
  <2>2. unit' = "activating" => due' = clock + RestartSec
    BY <1>12 DEF Reap
  <2>3. unit' = "activating" => pc \in {"killed", "exit_failure"}
    BY <1>12 DEF Reap
  <2>4. unit' = "activating" => b >= 0
    BY <1>2, <1>3, <1>4, <2>1, <2>3 DEF ActivePaid, Doomed, PC
  <2> HIDE DEF b, c
  <2>5. unit' = "activating" => c >= RestartSec + clock' - due'
    BY <1>3, <1>4, <2>1, <2>2, <2>4
  <2> QED BY <2>1, <2>5 DEF WaitingPaid, c
<1>13. ASSUME SystemctlStop PROVE Goal
  BY <1>13 DEF SystemctlStop
<1>14. ASSUME Restart PROVE Goal
  <2>1. unit = "activating" /\ unit' \in {"active", "failed"}
    BY ZenonT(60), <1>14, RestartEffect
  <2> QED BY <1>2, <1>14, <2>1, RestartPaid
<1>15. ASSUME UNCHANGED serviceVars PROVE Goal
  <2>1. c = b
    BY <1>15, BalanceStep
  <2> QED BY <1>6, <1>15, <2>1 DEF serviceVars, unitVars, linkVars, vars, socketVars
<1>16. Goal
  BY <1>7, <1>8, <1>9, <1>10, <1>11, <1>12, <1>13, <1>14, <1>15 DEF ServiceNext
<1>17. Accounts'
  BY <1>1, <1>16 DEF Accounts
<1> QED BY <1>17, PaidCases, PTL

------------------------------------------------------------------------------
(***************************************************************************)
(* The invariant, and what follows from it.                                *)
(***************************************************************************)

\* At boot no process runs, nothing is on the wire, and a first outage has
\* already paid for a start.
LEMMA ServiceInitSound == ServiceInit => ServiceInv
<1> SUFFICES ASSUME ServiceInit PROVE ServiceInv
  OBVIOUS
<1>1. /\ Boot \in Nat /\ Horizon \in Nat /\ Boot <= Horizon
      /\ RestartSec \in Nat /\ StartLimitBurst \in Nat
  BY BootAssumption, HorizonAssumption, ServiceAssumption
<1>2. ServiceTypeOK
  <2>1. limit \in [begin : Nat, num : 0 .. StartLimitBurst]
    BY <1>1 DEF ServiceInit
  <2>2. outages \in 0 .. MaxOutages
    BY ServiceAssumption DEF ServiceInit
  <2>3. kills \in 0 .. MaxKills
    BY ServiceAssumption DEF ServiceInit
  <2>4. trail \in Seq(State)
    BY DEF ServiceInit
  <2>5. link \in BOOLEAN
    BY ZenonT(60) DEF ServiceInit
  <2> QED BY <1>1, <2>1, <2>2, <2>3, <2>4, <2>5 DEF ServiceInit, ServiceTypeOK, ServicePC
<1>3. ProcessSound
  BY <1>1 DEF ServiceInit, ProcessSound, PC
<1>4. UnitFollows
  BY DEF ServiceInit, UnitFollows, DownOnPurpose
<1>5. Tracks
  <2>1. /\ wire = <<>> /\ trail = <<>> /\ DOMAIN heap = {} /\ pc # "run"
        /\ clock = Boot /\ wire \in Seq(State)
    BY DEF ServiceInit, socketInit
  <2>2. DOMAIN wire = {} /\ DOMAIN trail = {}
    BY <2>1
  <2>3. TurnsFrom(Boot)
    BY <2>1, <2>2 DEF TurnsFrom
  <2>4. StartedAt(Boot)
    BY <2>2, <2>3 DEF StartedAt
  <2>5. Boot \in Boot .. clock
    BY <1>1, <2>1
  <2>6. NoBurst
    BY <2>2 DEF NoBurst
  <2> QED BY <2>1, <2>2, <2>4, <2>5, <2>6 DEF Tracks
<1>6. StartsPaid
  <2>1. /\ unit = "activating" /\ clock = Boot /\ since = Boot /\ due = Boot
        /\ kills = 0 /\ limit.num = 0 /\ downtime = 0
    BY DEF ServiceInit
  <2>2. (link /\ outages = 0) \/ (~link /\ outages = 1)
    BY DEF ServiceInit
  <2>3. Downtime = 0
    BY <1>1, <2>1 DEF Downtime
  <2>4. (link /\ Balance = 0) \/ Balance = RestartSec
    BY <1>1, <2>1, <2>2, <2>3 DEF Balance
  <2>5. WaitingPaid
    BY <1>1, <2>4 DEF WaitingPaid
  <2>6. Accounts
    BY <1>1, <2>1, <2>2, <2>5 DEF Accounts
  <2> QED BY <2>6, PaidCases
<1> QED BY <1>2, <1>3, <1>4, <1>5, <1>6 DEF ServiceInv

\* Every step of the process, of systemd and of the host keeps the invariant
\* of the service.
LEMMA ServiceStep == ServiceInv /\ [ServiceNext]_serviceVars => ServiceInv'
<1> SUFFICES ASSUME ServiceInv, [ServiceNext]_serviceVars PROVE ServiceInv'
  OBVIOUS
<1>1. ServiceTypeOK'
  BY ServiceTypesStep
<1>2. ProcessSound'
  BY ProcessSoundStep
<1>3. UnitFollows'
  BY UnitFollowsStep
<1>4. Tracks'
  BY TracksStep
<1>5. StartsPaid'
  BY StartsPaidStep
<1> QED BY <1>1, <1>2, <1>3, <1>4, <1>5 DEF ServiceInv

\* The invariant of the service: the process is one that Sender's proofs
\* cover, systemd knows of its end, its packets carry on from those of the
\* earlier processes, and every start has been paid for.
THEOREM ServiceInductive == ServiceSpec => []ServiceInv
BY ServiceInitSound, ServiceStep, PTL DEF ServiceSpec

\* The variables of systemd, of the host and of the wire keep their types:
\* the rate limit never counts more than StartLimitBurst starts.
THEOREM ServiceTypes == ServiceSpec => []ServiceTypeOK
<1>1. ServiceInv => ServiceTypeOK
  BY DEF ServiceInv
<1> QED BY <1>1, ServiceInductive, PTL

\* However often the process is killed or fails and systemd starts it anew,
\* the receivers never see packets faster than the period allows, because
\* the constructor of Sender waits a period before the first packet.
THEOREM PaceOverRestarts == ServiceSpec => []RestartsKeepPace
<1>1. ASSUME ServiceInv PROVE RestartsKeepPace
  <2>1. Tracks /\ trail \in Seq(State) /\ clock \in Nat
    BY <1>1, BootAssumption DEF ServiceInv, ServiceTypeOK, ProcessSound
  <2> QED BY <2>1, PaceFollows
<1> QED BY <1>1, ServiceInductive, PTL

\* No exception and no kill ends the program in a way that Restart=on-failure
\* takes for success: the unit is inactive only after systemctl stop, a signal
\* that systemd takes for a clean end, or --help.
THEOREM EndsAreFailures == ServiceSpec => []DownOnPurpose
<1>1. ServiceInv => DownOnPurpose
  BY DEF ServiceInv, UnitFollows
<1> QED BY <1>1, ServiceInductive, PTL

\* systemd gives the unit up only when the network was away for a RestartSec
\* for every start that neither the beginning of an outage nor another fault
\* explains: a kill, or a start that failed with the link up.
THEOREM OutagesSurvived == ServiceSpec => []ShortOutagesSurvived
<1>1. ASSUME ServiceInv PROVE ShortOutagesSurvived
  <2>1. SUFFICES ASSUME unit = "failed"
                 PROVE  (StartLimitBurst - kills - outages) * RestartSec <= Downtime
    BY DEF ShortOutagesSurvived, Downtime
  <2> DEFINE n == kills + outages - StartLimitBurst
  <2>2. Balance >= 0 /\ limit.num = StartLimitBurst
    BY <1>1, <2>1 DEF ServiceInv, StartsPaid
  <2>3. BalanceSound
    BY <1>1, BalanceTypes, BootAssumption DEF ServiceInv, ProcessSound, StartsPaid
  <2>4. n \in Int /\ Downtime \in Nat /\ StartLimitBurst - kills - outages = -n
    BY <2>2, <2>3, ServiceAssumption DEF BalanceSound
  <2>5. Balance = Price(n) + Downtime
    BY <2>2, <2>3 DEF BalanceSound
  <2> HIDE DEF n
  <2>6. Price(n) \in Int
    BY <2>4, Prices
  <2>7. (-n) * RestartSec = -Price(n)
    BY <2>4, ServiceAssumption DEF Price
  <2> QED BY <2>2, <2>4, <2>5, <2>6, <2>7
<1> QED BY <1>1, ServiceInductive, PTL

==============================================================================
