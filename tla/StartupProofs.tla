---------------------------- MODULE StartupProofs ----------------------------
(***************************************************************************)
(* Proofs about Startup, for every set of builds, hosts and command lines, *)
(* and for every architecture (Known).                                     *)
(***************************************************************************)
EXTENDS Startup, SequenceTheorems, TLAPS

\* The system calls that some step of main after the filter needs.
Needed ==
  {"brk", "mprotect", "mmap", "write", "exit_group", "epoll_create1",
   "eventfd2", "timerfd_create", "epoll_ctl", "socket", "setsockopt", "ioctl",
   "close", "bind", "getrandom", "timerfd_settime", "epoll_wait", "sendmsg"}

\* The calls of main are numbered 1 to 19.
LEMMA GroupsDomain == DOMAIN Groups = 1 .. 19 /\ Len(Groups) = 19
BY DEF Groups

\* No kill_* group of main names a system call that main needs afterwards.
LEMMA GroupsSpare ==
  ASSUME NEW i \in DOMAIN Groups
  PROVE  Groups[i] \intersect Needed = {}
<1>1. kill_chown \intersect Needed = {}
  BY DEF kill_chown, Needed
<1>2. kill_clock \intersect Needed = {}
  BY DEF kill_clock, Needed
<1>3. kill_cpu_emulation \intersect Needed = {}
  BY DEF kill_cpu_emulation, Needed
<1>4. kill_debug \intersect Needed = {}
  BY DEF kill_debug, Needed
<1>5. kill_others \intersect Needed = {}
  BY DEF kill_others, Needed
<1>6. kill_ipc \intersect Needed = {}
  BY DEF kill_ipc, Needed
<1>7. kill_keyring \intersect Needed = {}
  BY DEF kill_keyring, Needed
<1>8. kill_memlock \intersect Needed = {}
  BY DEF kill_memlock, Needed
<1>9. kill_module \intersect Needed = {}
  BY DEF kill_module, Needed
<1>10. kill_obsolete \intersect Needed = {}
  BY DEF kill_obsolete, Needed
<1>11. kill_privileged \intersect Needed = {}
  BY DEF kill_privileged, Needed
<1>12. kill_rawio \intersect Needed = {}
  BY DEF kill_rawio, Needed
<1>13. kill_reboot \intersect Needed = {}
  BY DEF kill_reboot, Needed
<1>14. kill_resources \intersect Needed = {}
  BY DEF kill_resources, Needed
<1>15. kill_setuid \intersect Needed = {}
  BY DEF kill_setuid, Needed
<1>16. kill_swap \intersect Needed = {}
  BY DEF kill_swap, Needed
<1>17. kill_sync \intersect Needed = {}
  BY DEF kill_sync, Needed
<1>18. kill_system_service \intersect Needed = {}
  BY DEF kill_system_service, Needed
<1>19. kill_signal \intersect Needed = {}
  BY DEF kill_signal, Needed
<1>20. \/ Groups[i] = kill_chown \/ Groups[i] = kill_clock
       \/ Groups[i] = kill_cpu_emulation \/ Groups[i] = kill_debug
       \/ Groups[i] = kill_others \/ Groups[i] = kill_ipc
       \/ Groups[i] = kill_keyring \/ Groups[i] = kill_memlock
       \/ Groups[i] = kill_module \/ Groups[i] = kill_obsolete
       \/ Groups[i] = kill_privileged \/ Groups[i] = kill_rawio
       \/ Groups[i] = kill_reboot \/ Groups[i] = kill_resources
       \/ Groups[i] = kill_setuid \/ Groups[i] = kill_swap
       \/ Groups[i] = kill_sync \/ Groups[i] = kill_system_service
       \/ Groups[i] = kill_signal
  BY GroupsDomain DEF Groups
<1> QED
  BY <1>1, <1>2, <1>3, <1>4, <1>5, <1>6, <1>7, <1>8, <1>9, <1>10, <1>11,
     <1>12, <1>13, <1>14, <1>15, <1>16, <1>17, <1>18, <1>19, <1>20, Zenon

\* What a step asks of the kernel is in Needed, but for the pipe that Asio
\* takes for an eventfd.
LEMMA SyscallsNeeded ==
  ASSUME NEW step
  PROVE  \/ Syscalls(step) \subseteq Needed
         \/ /\ step = "io_context" /\ env.fault = "eventfd"
            /\ Syscalls(step) \subseteq Needed \union {"pipe"}
BY DEF Syscalls, Needed

\* No filter that the kill_* calls can build ends a step of main, but for the
\* one that takes a pipe.
LEMMA NothingKilled ==
  ASSUME filter \subseteq Forbidden, NEW step
  PROVE  Syscalls(step) \intersect filter # {} =>
           step = "io_context" /\ env.fault = "eventfd" /\ "pipe" \in filter
<1>1. Forbidden \intersect Needed = {}
  BY GroupsSpare DEF Forbidden
<1> QED BY <1>1, SyscallsNeeded

\* The exception: eventfd fails, and the filter ends the process for the pipe.
Overthrown ==
  /\ pc = "io_context" /\ pc' = "sigsys"
  /\ env.fault = "eventfd" /\ "pipe" \in filter
  /\ UNCHANGED inputs

\* kill_*: one more call forbids its group as well; main ends with all.
LEMMA KilledFacts ==
  /\ Killed(0) = {}
  /\ \A n \in 0 .. Len(Groups) - 1 :
       Killed(n + 1) = Killed(n) \union (Groups[n + 1] \intersect Known)
  /\ Killed(Len(Groups)) = Forbidden
  /\ \A n \in 0 .. Len(Groups) : Killed(n) \subseteq Forbidden
<1>1. Killed(0) = {}
  BY DEF Killed
<1>2. ASSUME NEW n \in 0 .. Len(Groups) - 1
      PROVE  Killed(n + 1) = Killed(n) \union (Groups[n + 1] \intersect Known)
  <2>1. 1 .. (n + 1) = (1 .. n) \union {n + 1}
    BY GroupsDomain
  <2> QED BY <2>1 DEF Killed
<1>3. Killed(Len(Groups)) = Forbidden
  BY GroupsDomain DEF Killed, Forbidden
<1>4. ASSUME NEW n \in 0 .. Len(Groups) PROVE Killed(n) \subseteq Forbidden
  <2>1. 1 .. n \subseteq DOMAIN Groups
    BY GroupsDomain
  <2> QED BY <2>1 DEF Killed, Forbidden
<1> QED BY <1>1, <1>2, <1>3, <1>4

\* A kill_* call adds the rules that are not lost, and does not throw.
LEMMA ContextGrows ==
  ASSUME NEW held, NEW names, NEW lost
  PROVE  KillGroup([default |-> "ALLOW", rules |-> held, failed |-> FALSE], names, lost) =
           [default |-> "ALLOW",
            rules |-> held \union ((names \intersect Known) \ lost), failed |-> FALSE]
<1> DEFINE c == [default |-> "ALLOW", rules |-> held, failed |-> FALSE]
           more == (names \intersect Known) \ lost
           r == IF "KILL" = c.default THEN c.rules ELSE c.rules \union more
<1>1. r = held \union more
  OBVIOUS
<1>2. KillGroup(c, names, lost) = [c EXCEPT !.rules = r]
  BY Zenon DEF KillGroup, kill, rule_add
<1> HIDE DEF more, r
<1>3. [c EXCEPT !.rules = r] = [default |-> "ALLOW", rules |-> r, failed |-> FALSE]
  <2>1. ASSUME NEW f
        PROVE  [[default |-> "ALLOW", rules |-> held, failed |-> f] EXCEPT !.rules = r] =
                 [default |-> "ALLOW", rules |-> r, failed |-> f]
    OBVIOUS
  <2> QED BY <2>1, Zenon
<1> QED BY <1>1, <1>2, <1>3, Zenon DEF more

\* What the kernel forbids, whenever main looks, is named by some kill_* call.
LEMMA FilterWithin == IInv => filter \subseteq Forbidden
BY KilledFacts DEF IInv, Filtering, RulesHeld

\* Where each step of main goes when nothing kills it: to the next step that
\* is compiled in, or to the catch block.
Step(step, cond, next) ==
  /\ pc = step
  /\ pc' = IF cond /\ env.fault # step THEN next ELSE "catch"
  /\ UNCHANGED inputs

\* Goto, for the three parts of main that confine the process.
LEMMA ConfiningSteps ==
  ASSUME filter \subseteq Forbidden
  PROVE  /\ check_for_capabilites =>
              Step("check_for_capabilites", "SETPCAP" \in caps, "lock")
         /\ lock => Step("lock", "SETPCAP" \in caps, "drop_all_capabilies")
         /\ drop_all_capabilies =>
              Step("drop_all_capabilies", "SETPCAP" \in caps, AfterCapabilities)
         /\ landlock_ruleset =>
              Step("landlock_ruleset", env.abi >= 6, "restrict_self")
         /\ restrict_self =>
              Step("restrict_self", nnp \/ "SYS_ADMIN" \in caps, AfterLandlock)
         /\ seccomp_init => Step("seccomp_init", TRUE, "seccomp_rules")
         /\ load => Step("seccomp_rules", TRUE, "configuration")
<1>1. \A step : step # "io_context" => Syscalls(step) \intersect filter = {}
  BY NothingKilled
<1> USE DEF Goto, Step
<1>2. check_for_capabilites =>
        Step("check_for_capabilites", "SETPCAP" \in caps, "lock")
  BY <1>1 DEF check_for_capabilites
<1>3. lock => Step("lock", "SETPCAP" \in caps, "drop_all_capabilies")
  BY <1>1 DEF lock
<1>4. drop_all_capabilies =>
        Step("drop_all_capabilies", "SETPCAP" \in caps, AfterCapabilities)
  BY <1>1 DEF drop_all_capabilies
<1>5. landlock_ruleset =>
        Step("landlock_ruleset", env.abi >= 6, "restrict_self")
  BY <1>1 DEF landlock_ruleset
<1>6. restrict_self =>
        Step("restrict_self", nnp \/ "SYS_ADMIN" \in caps, AfterLandlock)
  BY <1>1 DEF restrict_self
<1>7. seccomp_init => Step("seccomp_init", TRUE, "seccomp_rules")
  BY <1>1 DEF seccomp_init
<1>8. load => Step("seccomp_rules", TRUE, "configuration")
  BY <1>1 DEF load
<1> HIDE DEF Goto, Step
<1> QED BY Zenon, <1>2, <1>3, <1>4, <1>5, <1>6, <1>7, <1>8

\* Goto, for the steps that read the command line and use the network, and
\* for the catch block.
LEMMA InputSteppings ==
  ASSUME filter \subseteq Forbidden
  PROVE  /\ configuration =>
              Step("configuration", Outcome(args) # "throw",
                   IF Outcome(args) = "help" THEN "exit_success" ELSE "io_context")
         /\ io_context => Step("io_context", TRUE, "socket") \/ Overthrown
         /\ socket =>
              LET a == SenderArguments(config[1])
              IN  Step("socket",
                       /\ if_nametoindex(a.interface)
                       /\ a.bind_address \in env.local
                       /\ Privileged(a.bind_port) => "NET_BIND_SERVICE" \in caps, "state")
         /\ sender =>
              LET a == SenderArguments(config[1])
              IN  Step("state", a.address \in env.addresses, "run")
         /\ run => Step("run", TRUE, "run")
         /\ catch => Step("catch", TRUE, "exit_failure")
<1>1. \A step : step # "io_context" => Syscalls(step) \intersect filter = {}
  BY NothingKilled
<1> USE DEF Goto, Step
<1>2. configuration =>
        Step("configuration", Outcome(args) # "throw",
             IF Outcome(args) = "help" THEN "exit_success" ELSE "io_context")
  BY <1>1 DEF configuration
<1>3. io_context => Step("io_context", TRUE, "socket") \/ Overthrown
  BY NothingKilled DEF io_context, Overthrown
<1>4. socket =>
        LET a == SenderArguments(config[1])
        IN  Step("socket",
                 /\ if_nametoindex(a.interface)
                 /\ a.bind_address \in env.local
                 /\ Privileged(a.bind_port) => "NET_BIND_SERVICE" \in caps, "state")
  BY <1>1 DEF socket, if_nametoindex
<1>5. sender =>
        LET a == SenderArguments(config[1])
        IN  Step("state", a.address \in env.addresses, "run")
  BY <1>1 DEF sender
<1>6. run => Step("run", TRUE, "run")
  BY <1>1 DEF run
<1>7. catch => Step("catch", TRUE, "exit_failure")
  BY <1>1 DEF catch
<1> HIDE DEF Goto, Step
<1> QED BY ZenonT(60), <1>2, <1>3, <1>4, <1>5, <1>6, <1>7

\* Each step keeps what earlier parts of main gave up: capng_lock and
\* capng_apply, landlock_restrict_self and libseccomp are never undone.
LEMMA CredentialsStep ==
  IInv /\ [Next]_vars => Credentials'
<1> SUFFICES ASSUME IInv, [Next]_vars PROVE Credentials'
  OBVIOUS
<1>1. /\ build.libcapng \in BOOLEAN /\ build.landlock \in BOOLEAN
      /\ build.seccomp \in BOOLEAN /\ env.nnp \in BOOLEAN
  BY BuildsAssumption, EnvironmentsAssumption DEF IInv
<1>2. Credentials /\ filter \subseteq Forbidden
  BY FilterWithin DEF IInv
<1> USE <1>1, <1>2 DEF Credentials, CapabilitySteps, LandlockSteps, SeccompSteps,
                       InputSteps, Step, inputs, kernel
<1>3. CASE check_for_capabilites
  BY <1>3, ConfiningSteps DEF check_for_capabilites
<1>4. CASE lock
  BY <1>4, ConfiningSteps DEF lock
<1>5. CASE drop_all_capabilies
  BY <1>5, ConfiningSteps DEF drop_all_capabilies, AfterCapabilities, AfterLandlock
<1>6. CASE landlock_ruleset
  BY <1>6, ConfiningSteps DEF landlock_ruleset
<1>7. CASE restrict_self
  BY <1>7, ConfiningSteps DEF restrict_self, AfterLandlock
<1>8. CASE seccomp_init
  BY <1>8, ConfiningSteps DEF seccomp_init
<1>9. CASE seccomp_kill
  BY <1>9 DEF seccomp_kill
<1>10. CASE load
  BY <1>10, ConfiningSteps DEF load
<1>11. CASE configuration
  BY <1>11, InputSteppings DEF configuration
<1>12. CASE io_context
  BY <1>12, InputSteppings DEF io_context, Overthrown
<1>13. CASE socket
  BY <1>13, InputSteppings DEF socket
<1>14. CASE sender
  BY <1>14, InputSteppings DEF sender
<1>15. CASE run
  BY <1>15, InputSteppings DEF run
<1>16. CASE catch
  BY <1>16, InputSteppings DEF catch
<1>17. CASE UNCHANGED vars
  BY <1>17 DEF vars
<1> QED BY Zenon, <1>3, <1>4, <1>5, <1>6, <1>7, <1>8, <1>9, <1>10, <1>11, <1>12, <1>13,
           <1>14, <1>15, <1>16, <1>17 DEF Next

\* Each step keeps the context, and the filter of the kernel, as the kill_*
\* calls made so far leave them.
LEMMA FilteringStep ==
  IInv /\ [Next]_vars => Filtering'
<1> SUFFICES ASSUME IInv, [Next]_vars PROVE Filtering'
  OBVIOUS
<1>1. build.landlock \in BOOLEAN /\ build.seccomp \in BOOLEAN
  BY BuildsAssumption DEF IInv
<1>2. Filtering /\ filter \subseteq Forbidden
  BY FilterWithin DEF IInv
<1>3. /\ nnp \in BOOLEAN
      /\ UNCHANGED <<context, group, env>> => RulesHeld'
      /\ group = 0 => filter = {}
  <2>1. nnp \in BOOLEAN
    BY DEF IInv, Credentials
  <2>2. ASSUME UNCHANGED <<context, group, env>> PROVE RulesHeld'
    BY <1>2, <2>2 DEF Filtering, RulesHeld, Killed
  <2>3. ASSUME group = 0 PROVE filter = {}
    BY <1>2, <2>3, KilledFacts DEF Filtering, RulesHeld
  <2> QED BY <2>1, <2>2, <2>3
<1> USE <1>1, <1>2, <1>3 DEF Filtering, CapabilitySteps, LandlockSteps, SeccompSteps,
                             InputSteps, Step, inputs, kernel
<1>4. CASE check_for_capabilites
  BY <1>4, ConfiningSteps DEF check_for_capabilites
<1>5. CASE lock
  BY <1>5, ConfiningSteps DEF lock
<1>6. CASE drop_all_capabilies
  BY <1>6, ConfiningSteps DEF drop_all_capabilies, AfterCapabilities, AfterLandlock
<1>7. CASE landlock_ruleset
  BY <1>7, ConfiningSteps DEF landlock_ruleset
<1>8. CASE restrict_self
  BY <1>8, ConfiningSteps DEF restrict_self, AfterLandlock
<1>9. CASE seccomp_init
  <2>1. context' = [default |-> "ALLOW", rules |-> {}, failed |-> FALSE]
    BY <1>9 DEF seccomp_init, NewContext
  <2>2. context'.rules = {} /\ Killed(0) = {}
    BY <2>1, KilledFacts
  <2>3. group' = 0 /\ filter' = {}
    BY <1>9, ConfiningSteps DEF seccomp_init
  <2>4. RulesHeld'
    BY <2>1, <2>2, <2>3 DEF RulesHeld
  <2> QED BY <1>9, <2>3, <2>4, ConfiningSteps DEF seccomp_init
<1>10. CASE seccomp_kill
  <2>1. /\ pc = "seccomp_rules" /\ group \in 0 .. Len(Groups) - 1
        /\ group' = group + 1
        /\ UNCHANGED <<build, env, args, filter, nnp>>
    BY <1>10, GroupsDomain DEF seccomp_kill
  <2>2. PICK lost \in SUBSET (Groups[group + 1] \intersect env.flaky) :
           context' = KillGroup(context, Groups[group + 1], lost)
    BY <1>10 DEF seccomp_kill
  <2>3. pc' = IF context'.failed THEN "catch" ELSE pc
    BY <1>10 DEF seccomp_kill
  <2> DEFINE rules == context.rules \union ((Groups[group + 1] \intersect Known) \ lost)
  <2>4. context' = [default |-> "ALLOW", rules |-> rules, failed |-> FALSE]
    BY <2>2, ContextGrows DEF RulesHeld
  <2>5. Killed(group') = Killed(group) \union (Groups[group + 1] \intersect Known)
    BY <2>1, KilledFacts
  <2>6. Killed(group') \ env.flaky \subseteq rules /\ rules \subseteq Killed(group')
    BY <2>2, <2>5 DEF RulesHeld
  <2> HIDE DEF rules
  <2>7. context'.rules = rules /\ pc' = "seccomp_rules"
    BY <2>1, <2>3, <2>4
  <2>8. RulesHeld'
    BY <2>1, <2>4, <2>6, <2>7 DEF RulesHeld
  <2>9. group' \in 0 .. Len(Groups)
    BY <2>1, GroupsDomain
  <2> QED BY <2>1, <2>7, <2>8, <2>9
<1>11. CASE load
  BY <1>11, ConfiningSteps DEF load
<1>12. CASE configuration
  BY <1>12, InputSteppings DEF configuration
<1>13. CASE io_context
  BY <1>13, InputSteppings DEF io_context, Overthrown
<1>14. CASE socket
  BY <1>14, InputSteppings DEF socket
<1>15. CASE sender
  BY <1>15, InputSteppings DEF sender
<1>16. CASE run
  BY <1>16, InputSteppings DEF run
<1>17. CASE catch
  BY <1>17, InputSteppings DEF catch
<1>18. CASE UNCHANGED vars
  BY <1>18 DEF vars
<1> QED BY ZenonT(60), <1>4, <1>5, <1>6, <1>7, <1>8, <1>9, <1>10, <1>11, <1>12, <1>13,
           <1>14, <1>15, <1>16, <1>17, <1>18 DEF Next

\* What sender appends to, when only _socket is constructed.
LEMMA AppendToOne ==
  ASSUME NEW x, NEW y
  PROVE  Append(<<x>>, y) = <<x, y>>
<1> DEFINE S == {x, y}
           t == Append(<<x>>, y)
<1>1. <<x>> \in Seq(S) /\ y \in S /\ <<x, y>> \in Seq(S)
  OBVIOUS
<1>2. t \in Seq(S) /\ Len(t) = 2
  BY <1>1
<1>3. t[1] = x /\ t[2] = y
  BY <1>1
<1> HIDE DEF S, t
<1>4. \A i \in 1 .. Len(t) : t[i] = <<x, y>>[i]
  BY <1>2, <1>3
<1>5. t = <<x, y>>
  BY <1>1, <1>2, <1>4, SeqEqual
<1> QED BY <1>5 DEF t

\* Every step outside the constructors of Configuration and Sender leaves
\* what they have built alone.
LEMMA ConstructionKept ==
  ASSUME IInv, UNCHANGED <<args, config, object>>,
         \/ pc' \in {pc, "catch", "exit_failure", "sigsys"}
         \/ /\ pc \in CapabilitySteps \union LandlockSteps \union SeccompSteps
            /\ pc' \in CapabilitySteps \union LandlockSteps \union SeccompSteps
                       \union {"configuration"}
         \/ pc = "io_context" /\ pc' = "socket"
  PROVE  Construction'
BY DEF IInv, Construction, CapabilitySteps, LandlockSteps, SeccompSteps

\* The constructors build what the command line says, and only once it has
\* been accepted.
LEMMA ConstructionStep ==
  IInv /\ [Next]_vars => Construction'
<1> SUFFICES ASSUME IInv, [Next]_vars PROVE Construction'
  OBVIOUS
<1>1. build.landlock \in BOOLEAN /\ build.seccomp \in BOOLEAN /\ args \in CommandLines
  BY BuildsAssumption DEF IInv
<1>2. filter \subseteq Forbidden /\ Construction
  BY FilterWithin DEF IInv
<1> DEFINE c == ConfigurationOf(args)
           a == SenderArguments(c)
<1>3. ASSUME UNCHANGED <<args, config, object>>,
             pc \in CapabilitySteps \union LandlockSteps \union SeccompSteps,
             pc' \in CapabilitySteps \union LandlockSteps \union SeccompSteps
                     \union {"configuration", "catch"}
      PROVE  Construction'
  BY <1>3, ConstructionKept
<1> USE DEF CapabilitySteps, LandlockSteps, SeccompSteps, Step, inputs
<1>4. CASE check_for_capabilites
  BY <1>2, <1>3, <1>4, ConfiningSteps DEF check_for_capabilites
<1>5. CASE lock
  BY <1>2, <1>3, <1>5, ConfiningSteps DEF lock
<1>6. CASE drop_all_capabilies
  BY <1>1, <1>2, <1>3, <1>6, ConfiningSteps
  DEF drop_all_capabilies, AfterCapabilities, AfterLandlock
<1>7. CASE landlock_ruleset
  BY <1>2, <1>3, <1>7, ConfiningSteps DEF landlock_ruleset
<1>8. CASE restrict_self
  BY <1>1, <1>2, <1>3, <1>8, ConfiningSteps DEF restrict_self, AfterLandlock
<1>9. CASE seccomp_init
  BY <1>2, <1>3, <1>9, ConfiningSteps DEF seccomp_init
<1>10. CASE seccomp_kill
  BY <1>3, <1>10 DEF seccomp_kill
<1>11. CASE load
  BY <1>2, <1>3, <1>11, ConfiningSteps DEF load
<1>12. CASE configuration
  <2>1. Step("configuration", Outcome(args) # "throw",
             IF Outcome(args) = "help" THEN "exit_success" ELSE "io_context")
    BY <1>2, <1>12, InputSteppings
  <2>2. Outcome(args) \in {"throw", "help", "ok"}
    BY <1>1, CommandLinesAssumption DEF Outcome
  <2>3. /\ config' = IF pc' = "io_context" THEN <<c>> ELSE <<>>
        /\ object' = object
    BY <1>12 DEF configuration
  <2>4. object = <<>>
    BY <1>2, <2>1 DEF Construction
  <2> HIDE DEF c, a
  <2>5. <<c>> # <<>>
    OBVIOUS
  <2> QED BY <2>1, <2>2, <2>3, <2>4, <2>5 DEF Construction, c
<1>13. CASE io_context
  BY <1>2, <1>13, InputSteppings, ConstructionKept DEF io_context, Overthrown
<1>14. CASE socket
  <2>1. pc = "socket" /\ pc' \in {"state", "catch"} /\ args' = args
    BY <1>2, <1>14, InputSteppings
  <2>2. config = <<c>> /\ Outcome(args) = "ok"
    BY <1>2, <2>1 DEF Construction
  <2> HIDE DEF c
  <2>3. config[1] = c /\ config # <<>>
    BY <2>2
  <2>4. object' = (IF pc' = "state" THEN <<SocketOf(a)>> ELSE <<>>) /\ config' = config
    BY <1>14, <2>3 DEF socket
  <2> QED BY <2>1, <2>2, <2>3, <2>4 DEF Construction, c
<1>15. CASE sender
  <2>1. pc = "state" /\ pc' \in {"run", "catch"} /\ args' = args
    BY ZenonT(60), <1>2, <1>15, InputSteppings
  <2>2. config = <<c>> /\ Outcome(args) = "ok" /\ object = <<SocketOf(a)>>
    BY <1>2, <2>1 DEF Construction
  <2> HIDE DEF c
  <2>3. config[1] = c /\ config # <<>>
    BY <2>2
  <2>4. object' = (IF pc' = "run" THEN <<SocketOf(a), RestOf(a)>> ELSE <<>>) /\ config' = config
    <3>1. object' = (IF pc' = "run" THEN Append(object, RestOf(a)) ELSE <<>>) /\ config' = config
      BY <1>15, <2>3 DEF sender
    <3> HIDE DEF a
    <3>2. Append(<<SocketOf(a)>>, RestOf(a)) = <<SocketOf(a), RestOf(a)>>
      BY AppendToOne, Zenon
    <3> QED BY ZenonT(60), <2>2, <3>1, <3>2
  <2> QED BY <2>1, <2>2, <2>3, <2>4 DEF Construction, c
<1>16. CASE run
  BY <1>2, <1>16, InputSteppings, ConstructionKept DEF run
<1>17. CASE catch
  BY <1>2, <1>17, InputSteppings, ConstructionKept DEF catch
<1>18. CASE UNCHANGED vars
  BY <1>18, ConstructionKept DEF vars
<1> QED BY <1>4, <1>5, <1>6, <1>7, <1>8, <1>9, <1>10, <1>11, <1>12, <1>13,
           <1>14, <1>15, <1>16, <1>17, <1>18 DEF Next

\* The members of Configuration, with the conversions that store applies.
PortOf(option) == IF Given(option) THEN ToUint16(option[1]) ELSE 4321
TtlOf(option) == IF Given(option) THEN ToUint8(option[1]) ELSE 64

\* Every getter of Configuration returns its own option.
LEMMA ConfigurationFields ==
  ASSUME NEW a
  PROVE  LET c == ConfigurationOf(a)
         IN  /\ c.bind_address = a.bind_address[1]
             /\ c.bind_port = PortOf(a.bind_port)
             /\ c.address = ValueOr(a.address, "ff2e::42")
             /\ c.port = PortOf(a.port)
             /\ c.ttl = TtlOf(a.ttl)
             /\ c.interface_name = a.interface_name[1]
<1> DEFINE c == ConfigurationOf(a)
           from == a.bind_address[1]
           from_port == PortOf(a.bind_port)
           to == ValueOr(a.address, "ff2e::42")
           to_port == PortOf(a.port)
           hops == TtlOf(a.ttl)
           interface == a.interface_name[1]
           level == IF IsClang THEN "info" ELSE ValueOr(a.log_level, "info")
<1>1. c = [bind_address |-> from, bind_port |-> from_port, address |-> to,
           port |-> to_port, ttl |-> hops, interface_name |-> interface,
           log_level |-> level]
  BY DEF ConfigurationOf, PortOf, TtlOf
<1> HIDE DEF c, from, from_port, to, to_port, hops, interface, level
<1>2. /\ c.bind_address = from /\ c.bind_port = from_port
      /\ c.address = to /\ c.port = to_port
      /\ c.ttl = hops /\ c.interface_name = interface
  BY <1>1
<1> QED BY <1>2, Zenon DEF c, from, from_port, to, to_port, hops, interface

\* main passes each of them on in its place.
LEMMA SenderFields ==
  ASSUME NEW c
  PROVE  LET a == SenderArguments(c)
         IN  /\ a.bind_address = c.bind_address /\ a.bind_port = c.bind_port
             /\ a.address = c.address /\ a.port = c.port
             /\ a.ttl = c.ttl /\ a.interface = c.interface_name
<1> DEFINE a == SenderArguments(c)
<1>1. a = [bind_address |-> c.bind_address, bind_port |-> c.bind_port,
           address |-> c.address, port |-> c.port,
           ttl |-> c.ttl, interface |-> c.interface_name]
  BY DEF SenderArguments, get_bind_address, get_bind_port, get_address, get_port,
         get_ttl, get_interface_name
<1> HIDE DEF a
<1>2. /\ a.bind_address = c.bind_address /\ a.bind_port = c.bind_port
      /\ a.address = c.address /\ a.port = c.port
      /\ a.ttl = c.ttl /\ a.interface = c.interface_name
  BY <1>1
<1> QED BY <1>2, Zenon DEF a

\* The default port needs no conversion, so that converting it as well
\* changes nothing.
LEMMA PortOrDefault ==
  ASSUME NEW option
  PROVE  ToUint16(ValueOr(option, 4321)) = PortOf(option)
<1>1. ToUint16(4321) = 4321
  BY PortMaxAssumption DEF ToUint16
<1>2. CASE Given(option)
  <2>1. ValueOr(option, 4321) = option[1]
    BY <1>2 DEF ValueOr
  <2> QED BY <1>2, <2>1 DEF PortOf
<1>3. CASE ~Given(option)
  <2>1. ValueOr(option, 4321) = 4321
    BY <1>3 DEF ValueOr
  <2> QED BY <1>1, <1>3, <2>1 DEF PortOf
<1> QED BY <1>2, <1>3

\* On a healthy host no step throws: each finds what it needs, whatever the
\* steps before it gave up.
LEMMA HealthyHostStep ==
  IInv /\ HealthyHostRuns /\ [Next]_vars => HealthyHostRuns'
<1> SUFFICES ASSUME IInv, HealthyHostRuns, Next \/ UNCHANGED vars, HealthyHost'
             PROVE  pc' \notin {"catch", "exit_failure"}
  BY DEF HealthyHostRuns
<1>1. UNCHANGED inputs
  BY DEF Next, check_for_capabilites, lock, drop_all_capabilies, landlock_ruleset,
         restrict_self, seccomp_init, seccomp_kill, load, configuration, io_context,
         socket, sender, run, catch, Goto, vars, inputs
<1>2. HealthyHost /\ pc \notin {"catch", "exit_failure"}
  BY <1>1 DEF inputs, HealthyHost, HostOffers, BindPort, HealthyHostRuns
<1>3. /\ build.libcapng \in BOOLEAN /\ build.landlock \in BOOLEAN
      /\ build.seccomp \in BOOLEAN /\ env.nnp \in BOOLEAN
  BY BuildsAssumption, EnvironmentsAssumption DEF IInv
<1>4. filter \subseteq Forbidden /\ Credentials /\ Construction /\ Filtering
  BY FilterWithin DEF IInv
<1>5. env.fault = "none"
  BY <1>2 DEF HealthyHost, HostOffers
<1> USE DEF Step, HostOffers
<1>6. CASE check_for_capabilites
  BY <1>2, <1>4, <1>5, <1>6, ConfiningSteps DEF HealthyHost, Credentials, CapabilitySteps
<1>7. CASE lock
  BY <1>2, <1>4, <1>5, <1>7, ConfiningSteps DEF HealthyHost, Credentials, CapabilitySteps
<1>8. CASE drop_all_capabilies
  BY <1>2, <1>3, <1>4, <1>5, <1>8, ConfiningSteps
  DEF HealthyHost, Credentials, CapabilitySteps, AfterCapabilities, AfterLandlock
<1>9. CASE landlock_ruleset
  BY <1>2, <1>4, <1>5, <1>9, ConfiningSteps DEF HealthyHost, Credentials, LandlockSteps
<1>10. CASE restrict_self
  <2>1. nnp \/ "SYS_ADMIN" \in caps
    BY <1>2, <1>3, <1>4, <1>10, ConfiningSteps DEF HealthyHost, Credentials, LandlockSteps
  <2> QED BY <1>3, <1>4, <1>5, <1>10, <2>1, ConfiningSteps DEF AfterLandlock
<1>11. CASE seccomp_init
  BY <1>4, <1>5, <1>11, ConfiningSteps
<1>12. CASE seccomp_kill
  <2>1. PICK lost : context' = KillGroup(context, Groups[group + 1], lost)
    BY <1>12 DEF seccomp_kill
  <2>2. pc = "seccomp_rules" /\ pc' = IF context'.failed THEN "catch" ELSE pc
    BY <1>12 DEF seccomp_kill
  <2>3. ~context'.failed
    <3> DEFINE held == context.rules
    <3>1. context = [default |-> "ALLOW", rules |-> held, failed |-> FALSE]
      BY <1>4 DEF Filtering, RulesHeld
    <3> HIDE DEF held
    <3> DEFINE more == held \union ((Groups[group + 1] \intersect Known) \ lost)
    <3>2. context' = [default |-> "ALLOW", rules |-> more, failed |-> FALSE]
      BY <2>1, <3>1, ContextGrows
    <3> HIDE DEF more
    <3> QED BY <3>2
  <2> QED BY <2>2, <2>3
<1>13. CASE load
  BY <1>4, <1>5, <1>13, ConfiningSteps
<1>14. CASE configuration
  BY <1>2, <1>4, <1>5, <1>14, InputSteppings DEF HealthyHost
<1>15. CASE io_context
  BY <1>4, <1>5, <1>15, InputSteppings DEF Overthrown
<1>16. CASE socket
  <2>1. pc = "socket" /\ config[1] = ConfigurationOf(args)
    BY <1>4, <1>16, InputSteppings DEF Construction
  <2>2. /\ SenderArguments(config[1]).interface = args.interface_name[1]
        /\ SenderArguments(config[1]).bind_address = args.bind_address[1]
        /\ SenderArguments(config[1]).bind_port = BindPort
    BY <2>1, ConfigurationFields, SenderFields, PortOrDefault DEF BindPort
  <2>3. Privileged(BindPort) => "NET_BIND_SERVICE" \in caps
    BY <1>2, <1>3, <1>4, <2>1 DEF HealthyHost, Credentials, InputSteps
  <2> QED BY <1>2, <1>4, <1>5, <1>16, <2>2, <2>3, InputSteppings
          DEF HealthyHost, if_nametoindex
<1>17. CASE sender
  <2>1. config[1] = ConfigurationOf(args)
    BY <1>4, <1>17, InputSteppings DEF Construction
  <2>2. SenderArguments(config[1]).address = ValueOr(args.address, "ff2e::42")
    BY <2>1, ConfigurationFields, SenderFields
  <2> QED BY <1>2, <1>4, <1>5, <1>17, <2>2, InputSteppings DEF HealthyHost
<1>18. CASE run
  BY <1>4, <1>5, <1>18, InputSteppings
<1>19. CASE catch
  BY <1>2, <1>4, <1>19, InputSteppings
<1>20. CASE UNCHANGED vars
  BY <1>2, <1>20 DEF vars
<1> QED BY <1>6, <1>7, <1>8, <1>9, <1>10, <1>11, <1>12, <1>13,
           <1>14, <1>15, <1>16, <1>17, <1>18, <1>19, <1>20 DEF Next

\* Where main can get to: the filter ends it for a pipe only, and EXIT_SUCCESS
\* is reached from --help only.
LEMMA ExitsStep ==
  ASSUME IInv, [Next]_vars
  PROVE  /\ UNCHANGED inputs
         /\ pc' \in PC
         /\ pc' = "sigsys" => /\ UNCHANGED filter
                              /\ pc = "sigsys" \/ Overthrown
         /\ pc' = "exit_success" => pc = "exit_success" \/ Outcome(args) = "help"
<1>1. UNCHANGED inputs
  BY DEF Next, check_for_capabilites, lock, drop_all_capabilies, landlock_ruleset,
         restrict_self, seccomp_init, seccomp_kill, load, configuration, io_context,
         socket, sender, run, catch, Goto, vars, inputs
<1>2. build.landlock \in BOOLEAN /\ build.seccomp \in BOOLEAN
  BY BuildsAssumption DEF IInv
<1>3. filter \subseteq Forbidden /\ pc \in PC
  BY FilterWithin DEF IInv
<1>4. /\ pc' \in PC
      /\ pc' = "sigsys" => UNCHANGED filter /\ (pc = "sigsys" \/ Overthrown)
      /\ pc' = "exit_success" => pc = "exit_success" \/ Outcome(args) = "help"
  <2> USE <1>3 DEF PC, Step
  <2>1. CASE check_for_capabilites
    BY <2>1, ConfiningSteps
  <2>2. CASE lock
    BY <2>2, ConfiningSteps
  <2>3. CASE drop_all_capabilies
    BY <1>2, <2>3, ConfiningSteps DEF AfterCapabilities, AfterLandlock
  <2>4. CASE landlock_ruleset
    BY <2>4, ConfiningSteps
  <2>5. CASE restrict_self
    BY <1>2, <2>5, ConfiningSteps DEF AfterLandlock
  <2>6. CASE seccomp_init
    BY <2>6, ConfiningSteps
  <2>7. CASE seccomp_kill
    BY <2>7 DEF seccomp_kill
  <2>8. CASE load
    BY <2>8, ConfiningSteps
  <2>9. CASE configuration
    BY <2>9, InputSteppings
  <2>10. CASE io_context
    <3>1. Step("io_context", TRUE, "socket") \/ Overthrown
      BY <2>10, InputSteppings
    <3>2. UNCHANGED filter
      BY <2>10 DEF io_context, kernel
    <3>3. Overthrown => pc' = "sigsys"
      BY DEF Overthrown
    <3> QED BY <3>1, <3>2, <3>3
  <2>11. CASE socket
    BY <2>11, InputSteppings
  <2>12. CASE sender
    BY <2>12, InputSteppings
  <2>13. CASE run
    BY <2>13, InputSteppings
  <2>14. CASE catch
    BY <2>14, InputSteppings
  <2>15. CASE UNCHANGED vars
    BY <2>15 DEF vars
  <2> QED BY <2>1, <2>2, <2>3, <2>4, <2>5, <2>6, <2>7, <2>8, <2>9, <2>10, <2>11,
             <2>12, <2>13, <2>14, <2>15 DEF Next
<1> QED BY <1>1, <1>4

\* main starts with nothing given up and nothing constructed.
LEMMA StartupInit == Init => IInv
<1> SUFFICES ASSUME Init PROVE IInv
  OBVIOUS
<1>1. /\ build \in Builds /\ env \in Environments /\ args \in CommandLines
      /\ build.libcapng \in BOOLEAN /\ build.landlock \in BOOLEAN
      /\ build.seccomp \in BOOLEAN /\ env.nnp \in BOOLEAN
  BY BuildsAssumption, EnvironmentsAssumption DEF Init
<1>2. \/ build.libcapng /\ pc = "check_for_capabilites"
      \/ ~build.libcapng /\ build.landlock /\ pc = "landlock_ruleset"
      \/ ~build.libcapng /\ ~build.landlock /\ build.seccomp /\ pc = "seccomp_init"
      \/ ~build.libcapng /\ ~build.landlock /\ ~build.seccomp /\ pc = "configuration"
  BY <1>1 DEF Init, FirstStep, AfterCapabilities, AfterLandlock
<1> USE DEF CapabilitySteps, LandlockSteps, SeccompSteps, InputSteps
<1>3. Credentials
  BY Zenon, <1>1, <1>2 DEF Init, Credentials
<1>4. Filtering
  <2>1. context = [default |-> "ALLOW", rules |-> {}, failed |-> FALSE]
        /\ group = 0 /\ filter = {}
    BY DEF Init, NewContext
  <2>2. context.rules = {} /\ Killed(group) = {}
    BY <2>1, KilledFacts
  <2>3. group \in 0 .. Len(Groups)
    BY <2>1, GroupsDomain
  <2>4. RulesHeld
    BY <2>1, <2>2 DEF RulesHeld
  <2> QED BY <1>1, <1>2, <2>1, <2>3, <2>4 DEF Filtering
<1>5. Construction
  BY <1>2 DEF Init, Construction
<1>6. pc \in PC
  BY <1>2 DEF PC
<1> QED BY <1>1, <1>3, <1>4, <1>5, <1>6 DEF IInv

(***************************************************************************)
(* The inductive invariant of main, for every build, host and command      *)
(* line: what the steps before the current one have established.           *)
(***************************************************************************)
THEOREM StartupInductive == Spec => []IInv
<1>1. IInv /\ [Next]_vars => IInv'
  <2> SUFFICES ASSUME IInv, [Next]_vars PROVE IInv'
    OBVIOUS
  <2>1. Credentials' /\ Filtering' /\ Construction'
    BY CredentialsStep, FilteringStep, ConstructionStep
  <2>2. /\ build' \in Builds /\ env' \in Environments /\ args' \in CommandLines
        /\ pc' \in PC
    BY ExitsStep DEF IInv, inputs
  <2> QED BY <2>1, <2>2 DEF IInv
<1> QED BY <1>1, StartupInit, PTL DEF Spec

(***************************************************************************)
(* The command line is parsed and the network is touched only by a process *)
(* that has given up everything that the build lets it give up, but for    *)
(* the rules that libseccomp failed to add.                                *)
(***************************************************************************)
THEOREM InputIsConfined == Spec => []ConfinedBeforeInput
<1>1. IInv => ConfinedBeforeInput
  BY KilledFacts DEF IInv, Credentials, Filtering, ConfinedBeforeInput, InputSteps,
                     SeccompSteps, LandlockSteps, RulesHeld
<1> QED BY <1>1, StartupInductive, PTL

\* A port that was read fits uint16_t, and so does the default.
LEMMA PortFits ==
  ASSUME NEW option, Given(option) => option[1] \in Int
  PROVE  PortOf(option) \in 0 .. PortMax
BY PortMaxAssumption DEF PortOf, ToUint16

\* The code of a text of one digit fits uint8_t.
LEMMA CodeFits ==
  ASSUME NEW text \in Seq(0 .. 9), Len(text) = 1
  PROVE  ToUint8(text) \in 0 .. 255
<1>1. 1 \in 1 .. Len(text)
  OBVIOUS
<1>2. text[1] \in 0 .. 9
  BY <1>1, ElementOfSeq, Zenon
<1>3. ASSUME NEW digit \in 0 .. 9 PROVE 48 + digit \in 0 .. 255
  OBVIOUS
<1> QED BY <1>2, <1>3, Zenon DEF ToUint8

\* A TTL that was read fits uint8_t, and so does the default.
LEMMA TtlFits ==
  ASSUME NEW option, Given(option) => option[1] \in Seq(0 .. 9) /\ IsUint8(option[1])
  PROVE  TtlOf(option) \in 0 .. 255
<1> DEFINE code == ToUint8(option[1])
<1>1. TtlOf(option) = IF Given(option) THEN code ELSE 64
  BY DEF TtlOf
<1>2. Given(option) => code \in 0 .. 255
  BY CodeFits, Zenon DEF IsUint8
<1> HIDE DEF code
<1> QED BY <1>1, <1>2

\* Configuration: what it stores of an accepted command line fits uint16_t
\* and uint8_t.
LEMMA ConfigurationFits ==
  ASSUME NEW a \in CommandLines, Outcome(a) = "ok"
  PROVE  /\ ConfigurationOf(a).bind_port \in 0 .. PortMax
         /\ ConfigurationOf(a).port \in 0 .. PortMax
         /\ ConfigurationOf(a).ttl \in 0 .. 255
<1> DEFINE bind_port == a.bind_port
           port == a.port
           ttl == a.ttl
<1>1. Given(ttl) => IsUint8(ttl[1])
  <2>1. Stored(a)
    BY CommandLinesAssumption DEF Outcome
  <2> QED BY <2>1 DEF Stored
<1>2. /\ Given(bind_port) => bind_port[1] \in Int
      /\ Given(port) => port[1] \in Int
      /\ Given(ttl) => ttl[1] \in Seq(0 .. 9)
  BY CommandLinesAssumption
<1>3. LET c == ConfigurationOf(a)
      IN  c.bind_port = PortOf(bind_port) /\ c.port = PortOf(port) /\ c.ttl = TtlOf(ttl)
  BY ConfigurationFields
<1> HIDE DEF bind_port, port, ttl
<1>4. PortOf(bind_port) \in 0 .. PortMax /\ PortOf(port) \in 0 .. PortMax
  BY <1>2, PortFits
<1>5. TtlOf(ttl) \in 0 .. 255
  BY <1>1, <1>2, TtlFits, Zenon
<1> QED BY <1>3, <1>4, <1>5

(***************************************************************************)
(* Every variable of main has its type, the stored ports and TTL included. *)
(***************************************************************************)
THEOREM StartupTypes == Spec => []TypeOK
<1>1. IInv => TypeOK
  <2> SUFFICES ASSUME IInv PROVE TypeOK
    OBVIOUS
  <2>1. /\ build \in Builds /\ env \in Environments /\ args \in CommandLines
        /\ pc \in PC
        /\ caps \subseteq env.caps
        /\ securebits \in BOOLEAN /\ nnp \in BOOLEAN /\ landlocked \in BOOLEAN
    BY DEF IInv, Credentials
  <2>2. /\ context.failed \in BOOLEAN /\ context.rules \subseteq Forbidden
        /\ group \in 0 .. Len(Groups)
        /\ filter \subseteq Forbidden
    <3>1. Filtering
      BY DEF IInv
    <3>2. group \in 0 .. Len(Groups) /\ context.rules \subseteq Forbidden
      BY <3>1, KilledFacts DEF Filtering, RulesHeld
    <3> DEFINE held == context.rules
    <3>3. context = [default |-> "ALLOW", rules |-> held, failed |-> FALSE]
      BY <3>1 DEF Filtering, RulesHeld
    <3> HIDE DEF held
    <3>4. context.failed = FALSE
      BY <3>3
    <3> QED BY <3>2, <3>4, FilterWithin
  <2>3. Len(object) \in 0 .. 2
    BY DEF IInv, Construction
  <2>4. ASSUME config # <<>>
        PROVE  /\ config[1].bind_port \in 0 .. PortMax
               /\ config[1].port \in 0 .. PortMax
               /\ config[1].ttl \in 0 .. 255
    <3>1. config = <<ConfigurationOf(args)>> /\ Outcome(args) = "ok"
      BY <2>4 DEF IInv, Construction
    <3>2. config[1] = ConfigurationOf(args)
      BY <3>1
    <3> QED BY <2>1, <3>1, <3>2, ConfigurationFits
  <2> QED BY ZenonT(60), <2>1, <2>2, <2>3, <2>4 DEF TypeOK
<1> QED BY <1>1, StartupInductive, PTL

(***************************************************************************)
(* The options reach bind, the socket options, the endpoint and the header *)
(* of the packets unchanged and uncrossed, for every command line.         *)
(***************************************************************************)
THEOREM OptionsReachTheWire == Spec => []SendsAsConfigured
<1>1. IInv => SendsAsConfigured
  <2> SUFFICES ASSUME IInv, pc = "run" PROVE SendsAsConfigured
    BY DEF SendsAsConfigured
  <2> DEFINE a == SenderArguments(ConfigurationOf(args))
  <2>1. object = <<SocketOf(a), RestOf(a)>>
    BY DEF IInv, Construction
  <2>2. /\ a.bind_address = args.bind_address[1]
        /\ a.bind_port = BindPort
        /\ a.address = ValueOr(args.address, "ff2e::42")
        /\ a.port = ToUint16(ValueOr(args.port, 4321))
        /\ a.interface = args.interface_name[1]
    <3>1. /\ BindPort = PortOf(args.bind_port)
          /\ ToUint16(ValueOr(args.port, 4321)) = PortOf(args.port)
      BY PortOrDefault DEF BindPort
    <3>2. /\ a.bind_address = ConfigurationOf(args).bind_address
          /\ a.bind_port = ConfigurationOf(args).bind_port
          /\ a.address = ConfigurationOf(args).address
          /\ a.port = ConfigurationOf(args).port
          /\ a.interface = ConfigurationOf(args).interface_name
      BY SenderFields, Zenon
    <3> HIDE DEF a
    <3> QED BY <3>1, <3>2, ConfigurationFields
  <2> HIDE DEF a
  <2>3. object[1] = SocketOf(a) /\ object[2] = RestOf(a)
    BY <2>1
  <2>4. /\ object[1].bound_to = <<a.bind_address, a.bind_port>>
        /\ object[1].hops = a.ttl /\ object[1].outbound_interface = a.interface
    BY <2>3 DEF SocketOf
  <2>5. /\ object[2].ttl = a.ttl /\ object[2].src = <<a.bind_address, a.bind_port>>
        /\ object[2].dst = <<a.address, a.port>>
        /\ object[2].endpoint = <<a.address, a.port>>
    BY <2>3 DEF RestOf
  <2> QED BY SMTT(60), <2>2, <2>4, <2>5 DEF SendsAsConfigured
<1> QED BY <1>1, StartupInductive, PTL

(***************************************************************************)
(* No kill_* group forbids a system call that a later step of main makes,  *)
(* whichever system calls the architecture has, but for the pipe that      *)
(* stands in for an eventfd.                                               *)
(***************************************************************************)
THEOREM FilterSparesMain == Spec => []KilledForPipeOnly
<1>1. Init => KilledForPipeOnly
  BY DEF Init, FirstStep, AfterCapabilities, AfterLandlock, KilledForPipeOnly
<1>2. IInv /\ KilledForPipeOnly /\ [Next]_vars => KilledForPipeOnly'
  BY ExitsStep DEF KilledForPipeOnly, Overthrown, inputs
<1> QED BY <1>1, <1>2, StartupInductive, PTL DEF Spec

(***************************************************************************)
(* On a host that has what main asks for, no step of main throws, unless   *)
(* --bind-port needs a capability that main has dropped.                   *)
(***************************************************************************)
THEOREM HealthyHostsRun == Spec => []HealthyHostRuns
<1>1. Init => HealthyHostRuns
  BY DEF Init, FirstStep, AfterCapabilities, AfterLandlock, HealthyHostRuns
<1> QED BY <1>1, HealthyHostStep, StartupInductive, PTL DEF Spec

(***************************************************************************)
(* main returns EXIT_SUCCESS after --help only, so that every failure is   *)
(* one to systemd.                                                         *)
(***************************************************************************)
THEOREM FailuresReported == Spec => []FailureReported
<1>1. Init => FailureReported
  BY DEF Init, FirstStep, AfterCapabilities, AfterLandlock, FailureReported
<1>2. IInv /\ FailureReported /\ [Next]_vars => FailureReported'
  BY ExitsStep DEF FailureReported, inputs
<1> QED BY <1>1, <1>2, StartupInductive, PTL DEF Spec

==============================================================================
