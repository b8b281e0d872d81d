------------------------------- MODULE Service -------------------------------
(***************************************************************************)
(* The sender as a service (src/systemd/mping-sender.service): systemd     *)
(* starts the program, and starts it again when it fails, while the        *)
(* network interface comes and goes and the process may be killed.         *)
(*                                                                         *)
(* systemd is external.  Restart=on-failure starts a unit again RestartSec *)
(* after its process exited with a failure or was killed, but not after    *)
(* EXIT_SUCCESS, nor after SIGHUP, SIGINT, SIGTERM or SIGPIPE, which it    *)
(* takes for a clean end.  The unit keeps systemd's default limit of       *)
(* StartLimitBurst starts in any window of StartLimitInterval, and a start *)
(* beyond the limit leaves it "failed".                                    *)
(***************************************************************************)
EXTENDS Sender

CONSTANTS
  RestartSec,           \* systemd's default, 100 ms
  StartLimitInterval,   \* systemd's default, 10 s
  StartLimitBurst,      \* systemd's default, 5
  MaxOutages,           \* bound: how often the interface goes away
  MaxKills              \* bound: how often another fault ends a process

ASSUME ServiceAssumption ==
  /\ RestartSec \in Nat \ {0} /\ StartLimitBurst \in Nat \ {0}
  /\ StartLimitInterval \in Nat /\ MaxOutages \in Nat \ {0} /\ MaxKills \in Nat

VARIABLES
  unit,       \* ActiveState: activating, active, failed or inactive
  due,        \* when a start is due
  limit,      \* systemd's rate limit: start of the window, starts in it
  link,       \* the interface is there and the network reachable
  since,      \* when the outage that lasts began
  downtime,   \* how long the outages that are over have lasted
  outages,    \* how many outages there have been
  kills,      \* how often a process was killed, or could not start with link up
  trail       \* what the earlier processes have put on the wire

linkVars == <<link, since, downtime, outages>>
unitVars == <<unit, due, limit>>
serviceVars == <<vars, unitVars, linkVars, kills, trail>>

\* Ends that systemd takes for clean: by a signal, after --help.
Clean == {"terminated", "helped"}

ServicePC == PC \union Clean \union {"boot", "killed"}

ServiceTypeOK ==
  /\ pc \in ServicePC
  /\ unit \in {"active", "activating", "failed", "inactive"}
  /\ due \in Nat
  /\ limit \in [begin : Nat, num : 0 .. StartLimitBurst]
  /\ link \in BOOLEAN /\ since \in Nat /\ downtime \in Nat
  /\ outages \in 0 .. MaxOutages /\ kills \in 0 .. MaxKills
  /\ trail \in Seq(State)

------------------------------------------------------------------------------

\* WantedBy=multi-user.target, and nothing in the unit waits for the network.
ServiceInit ==
  /\ socketInit
  /\ clock = Boot
  /\ pc = "boot"
  /\ state = NewState
  /\ timer = [expiry |-> Boot, waits |-> 0]
  /\ unit = "activating"
  /\ due = Boot
  /\ limit = [begin |-> Boot, num |-> 0]
  /\ \/ link = TRUE /\ outages = 0
     \/ link = FALSE /\ outages = 1
  /\ since = Boot /\ downtime = 0
  /\ kills = 0
  /\ trail = <<>>

(***************************************************************************)
(* A step of the process, or of the clock.  The kernel takes a datagram if *)
(* and only if the network is reachable.                                   *)
(***************************************************************************)
Process ==
  /\ Next
  /\ attempts' # attempts => (wire' # wire) = link
  /\ UNCHANGED <<unitVars, linkVars, kills, trail>>

\* The memory of a process that is gone.
Freed ==
  /\ ready' = <<>> /\ writeq' = <<>> /\ heap' = [b \in {} |-> 0]
  /\ timer' = [timer EXCEPT !.waits = 0]

Alive == pc \in PC \ {"exit_failure"}

\* The process is killed: out of memory, an abort, a forbidden system call.
Kill ==
  /\ Alive
  /\ kills < MaxKills
  /\ kills' = kills + 1
  /\ pc' = "killed"
  /\ Freed
  /\ UNCHANGED <<clock, state, allocs, attempts, wire, unitVars, linkVars, trail>>

\* Someone sends SIGHUP, SIGINT or SIGTERM, or a log line meets a closed pipe.
\* The program handles none of these signals.
CleanSignal ==
  /\ Alive
  /\ pc' = "terminated"
  /\ Freed
  /\ UNCHANGED <<clock, state, allocs, attempts, wire, unitVars, linkVars, kills, trail>>

LinkDown ==
  /\ link
  /\ outages < MaxOutages
  /\ link' = FALSE
  /\ since' = clock
  /\ outages' = outages + 1
  /\ UNCHANGED <<vars, unitVars, downtime, kills, trail>>

LinkUp ==
  /\ ~link
  /\ link' = TRUE
  /\ downtime' = downtime + clock - since
  /\ UNCHANGED <<vars, unitVars, since, outages, kills, trail>>

------------------------------------------------------------------------------
(***************************************************************************)
(* systemd                                                                 *)
(***************************************************************************)
\* Variant: the unit asks for RestartSec=0.
Reap_no_delay ==
  /\ unit = "active"
  /\ ~Alive
  /\ IF pc \in {"exit_failure", "killed"}
       THEN unit' = "activating" /\ due' = clock
       ELSE unit' = "inactive" /\ UNCHANGED due
  /\ UNCHANGED <<vars, limit, linkVars, kills, trail>>

\* Restart=on-failure, when systemd finds that the process is gone.
Reap ==
  /\ unit = "active"
  /\ ~Alive
  /\ IF pc \in {"exit_failure", "killed"}
       THEN unit' = "activating" /\ due' = clock + RestartSec
       ELSE unit' = "inactive" /\ UNCHANGED due
  /\ UNCHANGED <<vars, limit, linkVars, kills, trail>>

\* systemctl stop: SIGTERM, and no restart.
SystemctlStop ==
  /\ unit \in {"active", "activating"}
  /\ unit' = "inactive"
  /\ pc' = "terminated"
  /\ Freed
  /\ UNCHANGED <<clock, state, allocs, attempts, wire, due, limit, linkVars,
                 kills, trail>>

\* Variant: the new sender transmits at once instead of a period later.
Launch_at_once(outcome) ==
  /\ trail' = trail \o wire
  /\ ready' = <<>> /\ writeq' = <<>> /\ heap' = [b \in {} |-> 0]
  /\ allocs' = 0 /\ attempts' = 0 /\ wire' = <<>>
  /\ state' = NewState
  /\ timer' = [expiry |-> clock, waits |-> IF outcome = "run" THEN 1 ELSE 0]
  /\ pc' = outcome

(***************************************************************************)
(* ExecStart: a new process.  It gets into io.run() with a new Sender, or  *)
(* ends before: module Startup has all the ways.  It exits with a failure  *)
(* when a step throws (the constructor of the socket, when the interface   *)
(* or address is gone), and with success when ARGS says --help.            *)
(***************************************************************************)
Launch(outcome) ==
  /\ trail' = trail \o wire
  /\ ready' = <<>> /\ writeq' = <<>> /\ heap' = [b \in {} |-> 0]
  /\ allocs' = 0 /\ attempts' = 0 /\ wire' = <<>>
  /\ state' = NewState
  /\ timer' = [expiry |-> clock + Period, waits |-> IF outcome = "run" THEN 1 ELSE 0]
  /\ pc' = outcome

Outcomes == {"run", "exit_failure", "helped"}

\* The start that is due, the first one included, if the rate limit lets it
\* through.  A start that fails although the link is up counts as a fault.
Restart ==
  /\ unit = "activating"
  /\ clock >= due
  /\ LET over == limit.begin + StartLimitInterval < clock
     IN  IF over \/ limit.num < StartLimitBurst
           THEN /\ unit' = "active"
                /\ limit' = IF over THEN [begin |-> clock, num |-> 1]
                                    ELSE [limit EXCEPT !.num = @ + 1]
                /\ \E outcome \in Outcomes :
                     /\ Launch(outcome)
                     /\ IF link /\ outcome = "exit_failure"
                          THEN kills < MaxKills /\ kills' = kills + 1
                          ELSE UNCHANGED kills
           ELSE /\ unit' = "failed"
                /\ UNCHANGED <<pc, state, timer, socketVars, limit, trail, kills>>
  /\ UNCHANGED <<clock, due, linkVars>>

------------------------------------------------------------------------------

ServiceNext ==
  \/ Process \/ Kill \/ CleanSignal \/ LinkDown \/ LinkUp
  \/ Reap \/ SystemctlStop \/ Restart

ServiceSpec == ServiceInit /\ [][ServiceNext]_serviceVars

(***************************************************************************)
(* What Sender assumes of the process and of time, and that systemd keeps  *)
(* reaping and restarting.  Nothing forces a fault, or the end of one.     *)
(***************************************************************************)
ServiceFairness ==
  /\ WF_serviceVars(Process /\ Tick)
  /\ WF_serviceVars(Process /\ TimerExpires)
  /\ WF_serviceVars(Process /\ Handler)
  /\ WF_serviceVars(Process /\ Unwind)
  /\ WF_serviceVars(Reap)
  /\ WF_serviceVars(Restart)

ServiceFairSpec == ServiceSpec /\ ServiceFairness

------------------------------------------------------------------------------

(***************************************************************************)
(* The wire as the receivers see it, over all processes.  schedule_send    *)
(* waits a period before the first packet, so a restart, however quick and *)
(* however often it happens, never makes the service send faster: a packet *)
(* of a new process is stamped at least a period after all packets of the  *)
(* earlier ones, and over the whole trail any n packets in a row span at   *)
(* least n - 2 periods.                                                    *)
(***************************************************************************)
RestartsKeepPace ==
  LET all == trail \o wire
  IN  /\ \A i \in DOMAIN trail, j \in DOMAIN wire :
           trail[i].tv + Period <= wire[j].tv
      /\ \A i, j \in DOMAIN all :
           i < j => all[i].tv + (j - i - 1) * Period <= all[j].tv

(***************************************************************************)
(* How short an outage the service survives.  Each failed send ends the    *)
(* program and costs one start of the rate limit, and a start while the    *)
(* interface is gone fails at once and costs another.  So systemd gives up *)
(* only when the network was away for at least a RestartSec per start that *)
(* neither the beginning of an outage accounts for nor another fault: a    *)
(* kill, or a start that fails although the link is up.                    *)
(***************************************************************************)
ShortOutagesSurvived ==
  unit = "failed" =>
    (StartLimitBurst - kills - outages) * RestartSec
      <= downtime + (IF link THEN 0 ELSE clock - since)

(***************************************************************************)
(* No failure of the program is quiet: whichever handler or destructor an  *)
(* exception leaves, and however the process is killed, the unit becomes   *)
(* inactive only after systemctl stop, after one of the four signals that  *)
(* systemd takes for a clean end, or when ARGS asks for --help.            *)
(***************************************************************************)
DownOnPurpose == unit = "inactive" => pc \in Clean

\* No fault is going on, and none is left to come.
Healed == link /\ outages = MaxOutages /\ kills = MaxKills

(***************************************************************************)
(* Recovery.  Once the faults are over, a restart that is due brings back  *)
(* a sender that keeps running: nothing that went wrong before, no queued  *)
(* error and no aborted wait, is left to end the new process.  The         *)
(* exceptions are a clean end, by systemctl stop, a signal or --help, and  *)
(* a unit that has run into the rate limit.                                *)
(***************************************************************************)
Recovers ==
  (Healed /\ unit = "activating" /\ due <= Horizon)
    ~> []((unit = "active" /\ pc = "run") \/ unit \in {"failed", "inactive"})

------------------------------------------------------------------------------

(***************************************************************************)
(* Why RestartsKeepPace holds.  Seen from s, the start of the process,     *)
(* packet n is never stamped before n periods have passed; the packets of  *)
(* the earlier processes had all been stamped by then.                     *)
(***************************************************************************)
TurnsFrom(s) ==
  /\ \A b \in DOMAIN heap : s + b * Period <= heap[b].tv
  /\ \A i \in DOMAIN wire : s + i * Period <= wire[i].tv
  /\ pc = "run" =>
       IF timer.waits = 1 THEN s + (allocs + 1) * Period <= timer.expiry
                          ELSE s + (allocs + 1) * Period <= clock

StartedAt(s) ==
  /\ \A i \in DOMAIN trail :
       /\ trail[i].tv <= s
       /\ trail[i].tv + (Len(trail) - i - 1) * Period <= s
  /\ TurnsFrom(s)

Tracks ==
  /\ wire \in Seq(State) /\ NoBurst
  /\ \A i \in DOMAIN wire : wire[i].tv <= clock
  /\ \A i, j \in DOMAIN trail :
       i < j => trail[i].tv + (j - i - 1) * Period <= trail[j].tv
  /\ \E s \in Boot .. clock : StartedAt(s)

\* A process that runs, or ended by itself, keeps the invariant of Sender.
ProcessSound ==
  /\ clock \in Boot .. Horizon
  /\ pc \in PC => IInv

\* What systemd knows of the process.
UnitFollows ==
  /\ DownOnPurpose
  /\ unit = "active" => pc \in PC \union Clean \union {"killed"}
  /\ unit \in {"activating", "failed"} => pc \in {"boot", "killed", "exit_failure"}

(***************************************************************************)
(* Why ShortOutagesSurvived holds.  A start is paid for by a fault, by an  *)
(* outage, or by a RestartSec for which the network was away.  What has    *)
(* been paid, less the starts in the window, is the balance; it owes at    *)
(* most the start of a process that is still well, and an outage that      *)
(* lasts has been paid in advance.                                         *)
(***************************************************************************)
Downtime == downtime + (IF link THEN 0 ELSE clock - since)

Balance == (kills + outages - limit.num) * RestartSec + Downtime

Doomed == pc # "run" \/ SendFailed

StartsPaid ==
  /\ since <= clock /\ due <= clock + RestartSec
  /\ ~link => outages >= 1
  /\ unit = "active" =>
       /\ pc = "killed" => Balance >= IF link THEN 0 ELSE RestartSec
       /\ pc \in PC /\ Doomed => Balance >= 0
       /\ ~Doomed => Balance >= IF link THEN -RestartSec ELSE 0
  /\ unit = "activating" =>
       \/ link /\ Balance >= 0
       \/ Balance >= RestartSec
       \/ Balance >= RestartSec + clock - due
  /\ unit = "failed" => Balance >= 0 /\ limit.num = StartLimitBurst

(***************************************************************************)
(* The inductive invariant of the service.                                 *)
(***************************************************************************)
ServiceInv ==
  /\ ServiceTypeOK
  /\ ProcessSound
  /\ UnitFollows
  /\ Tracks
  /\ StartsPaid

==============================================================================
