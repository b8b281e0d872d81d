------------------------------- MODULE Startup -------------------------------
(***************************************************************************)
(* main (src/src/main.cpp) from its first line to io.run(): capabilities,  *)
(* Landlock, seccomp, the command line, the io_context and the Sender.     *)
(* Each part may be compiled out, and each step may throw.                 *)
(*                                                                         *)
(* The kernel is external.  capng_lock and capng_apply need CAP_SETPCAP;   *)
(* capng_lock sets no_new_privs; landlock_restrict_self needs it, or       *)
(* CAP_SYS_ADMIN; bind needs CAP_NET_BIND_SERVICE for a port below 1024; a *)
(* forbidden system call ends the process with SIGSYS.                     *)
(***************************************************************************)
EXTENDS Seccomp, Configuration

CONSTANTS
  Builds,         \* which of libcapng, landlock, seccomp are compiled in
  Environments,   \* what the process finds
  CommandLines    \* the arguments it may get

ASSUME BuildsAssumption ==
  Builds \subseteq [libcapng : BOOLEAN, landlock : BOOLEAN, seccomp : BOOLEAN]

ASSUME EnvironmentsAssumption == \A e \in Environments : e.nnp \in BOOLEAN

\* What boost::program_options hands on: a flag, integers, decimal digits.
ASSUME CommandLinesAssumption ==
  \A a \in CommandLines :
    /\ a.help \in BOOLEAN
    /\ Given(a.bind_port) => a.bind_port[1] \in Int
    /\ Given(a.port) => a.port[1] \in Int
    /\ Given(a.ttl) => a.ttl[1] \in Seq(0 .. 9)

VARIABLES
  build, env, args,   \* chosen once
  pc,                 \* where main is
  caps,               \* capabilities of the process
  securebits,         \* capng_lock has locked them
  nnp,                \* no_new_privs
  landlocked,         \* the Landlock ruleset is enforced
  context,            \* seccomp_context
  group,              \* how many kill_* calls main has made
  filter,             \* system calls that end the process
  config,             \* <<>> or the Configuration
  object              \* the members of Sender that are constructed

vars == <<build, env, args, pc, caps, securebits, nnp, landlocked, context,
          group, filter, config, object>>

inputs == <<build, env, args>>
kernel == <<caps, securebits, nnp, landlocked, filter>>

\* The calls of main, in its order.
Groups ==
  <<kill_chown, kill_clock, kill_cpu_emulation, kill_debug, kill_others,
    kill_ipc, kill_keyring, kill_memlock, kill_module, kill_obsolete,
    kill_privileged, kill_rawio, kill_reboot, kill_resources, kill_setuid,
    kill_swap, kill_sync, kill_system_service, kill_signal>>

\* #ifdef HAVE_SECCOMP, HAVE_LANDLOCK, HAVE_LIBCAPNG
AfterLandlock == IF build.seccomp THEN "seccomp_init" ELSE "configuration"
AfterCapabilities == IF build.landlock THEN "landlock_ruleset" ELSE AfterLandlock
FirstStep == IF build.libcapng THEN "check_for_capabilites" ELSE AfterCapabilities

Init ==
  /\ build \in Builds
  /\ env \in Environments
  /\ args \in CommandLines
  /\ pc = FirstStep
  /\ caps = env.caps
  /\ securebits = FALSE
  /\ nnp = env.nnp
  /\ landlocked = FALSE
  /\ context = NewContext("ALLOW")
  /\ group = 0
  /\ filter = {}
  /\ config = <<>>
  /\ object = <<>>

\* What libc and Boost.Asio call on behalf of a step, on x86-64 (external).
\* When eventfd fails, for want of descriptors or memory, Asio takes a pipe.
Syscalls(step) ==
  CASE step = "configuration" -> {"brk", "mprotect", "mmap", "write", "exit_group"}
    [] step = "io_context" ->
         {"epoll_create1", "eventfd2", "timerfd_create", "epoll_ctl"}
           \union (IF env.fault = "eventfd" THEN {"pipe"} ELSE {})
    [] step = "socket" -> {"socket", "setsockopt", "ioctl", "close", "bind"}
    [] step = "state" -> {"getrandom", "timerfd_settime"}
    [] step = "run" -> {"epoll_wait", "timerfd_settime", "sendmsg", "close"}
    [] step = "catch" -> {"write", "exit_group"}
    [] OTHER -> {}

(***************************************************************************)
(* A step: the filter kills it, or it returns under cond, or it throws to  *)
(* the catch block.  The environment may make any one step fail.           *)
(***************************************************************************)
Goto(step, cond, next) ==
  /\ pc = step
  /\ pc' = CASE Syscalls(step) \intersect filter # {} -> "sigsys"
             [] OTHER -> IF cond /\ env.fault # step THEN next ELSE "catch"
  /\ UNCHANGED inputs

------------------------------------------------------------------------------
(***************************************************************************)
(* CapabilityManagment                                                     *)
(***************************************************************************)
check_for_capabilites ==
  /\ Goto("check_for_capabilites", "SETPCAP" \in caps, "lock")
  /\ UNCHANGED <<kernel, context, group, config, object>>

\* Variant: the result of capng_lock is not looked at.
lock_unchecked ==
  /\ pc = "lock"
  /\ pc' = "drop_all_capabilies"
  /\ securebits' = (env.fault # "lock")
  /\ nnp' = (nnp \/ env.fault # "lock")
  /\ UNCHANGED <<inputs, caps, landlocked, filter, context, group, config, object>>

lock ==
  /\ Goto("lock", "SETPCAP" \in caps, "drop_all_capabilies")
  /\ securebits' = (pc' # "catch")
  /\ nnp' = (nnp \/ pc' # "catch")
  /\ UNCHANGED <<caps, landlocked, filter, context, group, config, object>>

drop_all_capabilies ==
  /\ Goto("drop_all_capabilies", "SETPCAP" \in caps, AfterCapabilities)
  /\ caps' = IF pc' = "catch" THEN caps ELSE {}
  /\ UNCHANGED <<securebits, nnp, landlocked, filter, context, group, config, object>>

------------------------------------------------------------------------------
(***************************************************************************)
(* LandlockRuleset                                                         *)
(***************************************************************************)
landlock_ruleset ==
  /\ Goto("landlock_ruleset", env.abi >= 6, "restrict_self")
  /\ UNCHANGED <<kernel, context, group, config, object>>

\* Variant: the result of landlock_restrict_self is not looked at.
restrict_self_unchecked ==
  /\ pc = "restrict_self"
  /\ pc' = AfterLandlock
  /\ landlocked' = (env.fault # "restrict_self" /\ (nnp \/ "SYS_ADMIN" \in caps))
  /\ UNCHANGED <<inputs, caps, securebits, nnp, filter, context, group, config, object>>

restrict_self ==
  /\ Goto("restrict_self", nnp \/ "SYS_ADMIN" \in caps, AfterLandlock)
  /\ landlocked' = (pc' # "catch")
  /\ UNCHANGED <<caps, securebits, nnp, filter, context, group, config, object>>

------------------------------------------------------------------------------
(***************************************************************************)
(* SeccompFilterContext                                                    *)
(***************************************************************************)
seccomp_init ==
  /\ Goto("seccomp_init", TRUE, "seccomp_rules")
  /\ context' = NewContext("ALLOW")
  /\ UNCHANGED <<kernel, group, config, object>>

\* The next kill_* call of main.  libseccomp may fail to add some of its rules.
seccomp_kill ==
  /\ pc = "seccomp_rules"
  /\ group < Len(Groups)
  /\ group' = group + 1
  /\ \E lost \in SUBSET (Groups[group + 1] \intersect env.flaky) :
       context' = KillGroup(context, Groups[group + 1], lost)
  /\ pc' = IF context'.failed THEN "catch" ELSE pc
  /\ UNCHANGED <<inputs, kernel, config, object>>

\* libseccomp sets no_new_privs before it loads the filter.
load ==
  /\ group = Len(Groups)
  /\ Goto("seccomp_rules", TRUE, "configuration")
  /\ filter' = IF pc' = "catch" THEN filter ELSE context.rules
  /\ nnp' = (nnp \/ pc' # "catch")
  /\ UNCHANGED <<caps, securebits, landlocked, context, group, config, object>>

------------------------------------------------------------------------------
(***************************************************************************)
(* Configuration, Sender and the end of main.                              *)
(***************************************************************************)
\* The constructor of Configuration; --help ends the program in it.
configuration ==
  /\ Goto("configuration", Outcome(args) # "throw",
          IF Outcome(args) = "help" THEN "exit_success" ELSE "io_context")
  /\ config' = IF pc' = "io_context" THEN <<ConfigurationOf(args)>> ELSE <<>>
  /\ UNCHANGED <<kernel, context, group, object>>

io_context ==
  /\ Goto("io_context", TRUE, "socket")
  /\ UNCHANGED <<kernel, context, group, config, object>>

if_nametoindex(name) == name \in env.interfaces

\* Variant: two arguments of the same type change places.
SenderArguments_swapped(c) ==
  [bind_address |-> get_bind_address(c), bind_port |-> get_port(c),
   address |-> get_address(c), port |-> get_bind_port(c),
   ttl |-> get_ttl(c), interface |-> get_interface_name(c)]

\* What main passes to the constructor of Sender, by position.
SenderArguments(c) ==
  [bind_address |-> get_bind_address(c), bind_port |-> get_bind_port(c),
   address |-> get_address(c), port |-> get_port(c),
   ttl |-> get_ttl(c), interface |-> get_interface_name(c)]

(***************************************************************************)
(* The members of Sender: _socket (with what its options and bind are      *)
(* given), and _state (with what the packets say) and _endpoint.           *)
(***************************************************************************)
SocketOf(a) ==
  [bound_to |-> <<a.bind_address, a.bind_port>>, hops |-> a.ttl,
   outbound_interface |-> a.interface]

RestOf(a) ==
  [ttl |-> a.ttl, src |-> <<a.bind_address, a.bind_port>>,
   dst |-> <<a.address, a.port>>, endpoint |-> <<a.address, a.port>>]

\* A port that the kernel lets only a privileged process have.
Privileged(port) == port \in 1 .. 1023

\* make_address(bind_address) and the constructor of MulticastTxSocket: open,
\* if_nametoindex, the socket options, bind.
socket ==
  LET a == SenderArguments(config[1])
  IN  /\ Goto("socket",
              /\ if_nametoindex(a.interface)
              /\ a.bind_address \in env.local
              /\ Privileged(a.bind_port) => "NET_BIND_SERVICE" \in caps, "state")
      /\ object' = IF pc' = "state" THEN <<SocketOf(a)>> ELSE <<>>
      /\ UNCHANGED <<kernel, context, group, config>>

\* The rest of the constructor of Sender: _state, _endpoint, schedule_send.
sender ==
  LET a == SenderArguments(config[1])
  IN  /\ Goto("state", a.address \in env.addresses, "run")
      /\ object' = IF pc' = "run" THEN Append(object, RestOf(a)) ELSE <<>>
      /\ UNCHANGED <<kernel, context, group, config>>

\* io.run() returns only by an exception (module Sender has its handlers).
run ==
  /\ Goto("run", TRUE, "run")
  /\ UNCHANGED <<kernel, context, group, config, object>>

\* Variant: the catch block only logs, and main returns EXIT_SUCCESS.
catch_and_return ==
  /\ Goto("catch", TRUE, "exit_success")
  /\ UNCHANGED <<kernel, context, group, config, object>>

catch ==
  /\ Goto("catch", TRUE, "exit_failure")
  /\ UNCHANGED <<kernel, context, group, config, object>>

------------------------------------------------------------------------------

Next ==
  \/ check_for_capabilites \/ lock \/ drop_all_capabilies
  \/ landlock_ruleset \/ restrict_self
  \/ seccomp_init \/ seccomp_kill \/ load
  \/ configuration \/ io_context \/ socket \/ sender \/ run \/ catch

Spec == Init /\ [][Next]_vars

------------------------------------------------------------------------------

PC == {"check_for_capabilites", "lock", "drop_all_capabilies",
       "landlock_ruleset", "restrict_self", "seccomp_init", "seccomp_rules",
       "configuration", "io_context", "socket", "state", "run", "catch",
       "exit_failure", "exit_success", "sigsys"}

Forbidden == (UNION {Groups[i] : i \in DOMAIN Groups}) \intersect Known

\* Every variable has its type; what Configuration stores fits the uint16_t
\* and uint8_t members of the class.
TypeOK ==
  /\ build \in Builds /\ env \in Environments /\ args \in CommandLines
  /\ pc \in PC
  /\ caps \subseteq env.caps
  /\ securebits \in BOOLEAN /\ nnp \in BOOLEAN /\ landlocked \in BOOLEAN
  /\ context.failed \in BOOLEAN /\ context.rules \subseteq Forbidden
  /\ group \in 0 .. Len(Groups)
  /\ filter \subseteq Forbidden
  /\ Len(object) \in 0 .. 2
  /\ config # <<>> => /\ config[1].bind_port \in 0 .. PortMax
                      /\ config[1].port \in 0 .. PortMax
                      /\ config[1].ttl \in 0 .. 255

(***************************************************************************)
(* The order of main: whatever is compiled in, and whichever step throws,  *)
(* the command line is parsed and the network is touched only when no      *)
(* capability is left, the Landlock ruleset is enforced and the filter is  *)
(* loaded.  The filter forbids the system calls of every kill_* group and  *)
(* no others, except that rule_add does not look for errors: a call whose  *)
(* rule libseccomp failed to add may be missing.                           *)
(***************************************************************************)
ConfinedBeforeInput ==
  pc \in {"configuration", "io_context", "socket", "state", "run"} =>
    /\ build.libcapng => caps = {} /\ securebits /\ nnp
    /\ build.landlock => landlocked
    /\ build.seccomp => /\ nnp
                        /\ Forbidden \ env.flaky \subseteq filter
                        /\ filter \subseteq Forbidden

BindPort == ToUint16(ValueOr(args.bind_port, 4321))

(***************************************************************************)
(* The way of the options through Configuration, main and Sender: bind and *)
(* the socket options are given what --bind-address, --bind-port and       *)
(* --interface-name say, packets go to --address and --port or to their    *)
(* defaults, and the header of every packet names the source that bind was *)
(* given, the hop limit that the socket was given, and the destination.    *)
(* What the kernel makes of port 0 and of unspecified addresses is in      *)
(* module WireFormat.                                                      *)
(***************************************************************************)
SendsAsConfigured ==
  pc = "run" =>
    LET sock == object[1]  rest == object[2]
    IN  /\ sock.bound_to = <<args.bind_address[1], BindPort>>
        /\ sock.outbound_interface = args.interface_name[1]
        /\ rest.endpoint =
             <<ValueOr(args.address, "ff2e::42"), ToUint16(ValueOr(args.port, 4321))>>
        /\ rest.src = sock.bound_to
        /\ rest.dst = rest.endpoint
        /\ rest.ttl = sock.hops

\* What main finds when it starts is enough for each of its steps, and for the
\* command line.
HostOffers ==
  /\ env.fault = "none"
  /\ build.libcapng => "SETPCAP" \in env.caps
  /\ build.landlock => /\ env.abi >= 6
                       /\ build.libcapng \/ env.nnp \/ "SYS_ADMIN" \in env.caps
  /\ Outcome(args) = "ok"
  /\ args.bind_address[1] \in env.local
  /\ Privileged(BindPort) => "NET_BIND_SERVICE" \in env.caps
  /\ args.interface_name[1] \in env.interfaces
  /\ ValueOr(args.address, "ff2e::42") \in env.addresses

\* A privileged port is out of reach once the capabilities are dropped.
HealthyHost == HostOffers /\ ~(build.libcapng /\ Privileged(BindPort))

(***************************************************************************)
(* On a healthy host no step of main throws: apart from privileged ports,  *)
(* the steps do not spoil each other.  lock and drop_all_capabilies both   *)
(* find CAP_SETPCAP, restrict_self finds no_new_privs without libseccomp's *)
(* help, and system calls named by two kill_* groups do not make rule_add  *)
(* throw.                                                                  *)
(***************************************************************************)
HealthyHostRuns == HealthyHost => pc \notin {"catch", "exit_failure"}

(***************************************************************************)
(* "without ioctl, capget, capset, getrandom, mprotect, brk": no kill_*    *)
(* group forbids what a later step of main needs, on the way to io.run()   *)
(* or on the way out through the catch block.  The exception is kill_ipc,  *)
(* which forbids the pipe that Asio falls back on when eventfd fails.      *)
(***************************************************************************)
KilledForPipeOnly == pc = "sigsys" => env.fault = "eventfd" /\ "pipe" \in filter

(***************************************************************************)
(* The exit status that Restart=on-failure of the service relies on: only  *)
(* --help ends the program with EXIT_SUCCESS.                              *)
(***************************************************************************)
FailureReported == pc = "exit_success" => Outcome(args) = "help"

------------------------------------------------------------------------------

CapabilitySteps == {"check_for_capabilites", "lock", "drop_all_capabilies"}
LandlockSteps == {"landlock_ruleset", "restrict_self"}
SeccompSteps == {"seccomp_init", "seccomp_rules"}
InputSteps == {"configuration", "io_context", "socket", "state", "run"}

\* What the first n kill_* calls of main forbid.
Killed(n) == (UNION {Groups[i] : i \in 1 .. n}) \intersect Known

\* What the process may still do, at each step: what an earlier part of main
\* gave up stays given up, and no step is reached that was compiled out.
Credentials ==
  /\ securebits \in BOOLEAN /\ nnp \in BOOLEAN /\ landlocked \in BOOLEAN
  /\ caps \subseteq env.caps
  /\ env.nnp => nnp
  /\ pc \in CapabilitySteps => build.libcapng /\ caps = env.caps
  /\ pc = "drop_all_capabilies" => securebits /\ nnp
  /\ pc \in LandlockSteps \union SeccompSteps \union InputSteps =>
       /\ build.libcapng => caps = {} /\ securebits /\ nnp
       /\ ~build.libcapng => caps = env.caps
  /\ pc \in LandlockSteps => build.landlock
  /\ pc \in SeccompSteps \union InputSteps /\ build.landlock => landlocked

\* The context holds the rules of the kill_* calls made so far, except lost
\* ones.
RulesHeld ==
  /\ context = [default |-> "ALLOW", rules |-> context.rules, failed |-> FALSE]
  /\ Killed(group) \ env.flaky \subseteq context.rules
  /\ context.rules \subseteq Killed(group)

\* The kernel holds no rules before load and those of the context after.
Filtering ==
  /\ group \in 0 .. Len(Groups)
  /\ pc \in CapabilitySteps \union LandlockSteps \union {"seccomp_init"} => group = 0
  /\ RulesHeld
  /\ filter \in {{}, context.rules}
  /\ pc \in SeccompSteps => build.seccomp /\ filter = {}
  /\ pc \in InputSteps /\ build.seccomp =>
       nnp /\ group = Len(Groups) /\ filter = context.rules

\* The Configuration and the members of Sender, as far as main has got.
Construction ==
  LET c == ConfigurationOf(args)
      a == SenderArguments(c)
  IN  /\ pc \in CapabilitySteps \union LandlockSteps \union SeccompSteps
              \union {"configuration"} => config = <<>>
      /\ config # <<>> => Outcome(args) = "ok" /\ config = <<c>>
      /\ pc \in {"io_context", "socket", "state", "run"} => config # <<>>
      /\ object # <<>> =>
           /\ config # <<>>
           /\ object \in {<<SocketOf(a)>>, <<SocketOf(a), RestOf(a)>>}
      /\ pc = "state" => object = <<SocketOf(a)>>
      /\ pc = "run" => object = <<SocketOf(a), RestOf(a)>>

(***************************************************************************)
(* The inductive invariant of main: at every step, what the steps before   *)
(* it have established, whatever is compiled in and whichever step throws. *)
(***************************************************************************)
IInv ==
  /\ build \in Builds /\ env \in Environments /\ args \in CommandLines
  /\ pc \in PC
  /\ Credentials
  /\ Filtering
  /\ Construction

==============================================================================
