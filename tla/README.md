# A verification project for mping-sender

mping-sender sends one UDP multicast packet per second. The modules here model
the program from the first line of `main` to its exit, the service that starts
it again, the packet down to its bytes, and the Wireshark dissector that reads
it. TLC checks small instances. TLAPS proves, for all values of the constants,
every safety property that TLC finds to hold: of the sender loop, of the stream it
implements, of `main`, of the service, of the two confinement classes, and of the
packet and what the dissector reads in it.

## The system

| part | source | modules |
| --- | --- | --- |
| `Sender`: timer, packet, error handling | `src/src/mping_sender.*` | `Sender`, `PingStream`, `SenderProofs`, `SenderStreamProofs`, `PingStreamProofs` |
| `MPingState`: sequence number, time, `serialize` | `src/src/mping_state.*` | `MPingState`, `MPingPacket`, `WireFormat`, `PacketProofs`, `WireFormatProofs` |
| `MulticastTxSocket`: asynchronous sends | `src/src/multicast_tx_socket.*` | `MulticastTxSocket` |
| byte order and host sections | `src/src/network_serialization.hpp` | `MPingPacket`, `PacketProofs` |
| dissector | `src/wireshark/mping.lua` | `Dissector`, `WireFormatProofs` |
| `main` | `src/src/main.cpp` | `Startup` (until `io.run()`), `StartupProofs`, `Sender` (inside it and after) |
| `Configuration` | `src/src/configuration.*` | `Configuration` |
| `SeccompFilterContext` | `src/src/seccomp.*` | `Seccomp`, `SeccompFilter`, `ConfinementProofs` |
| `LandlockRuleset` | `src/src/landlock.*` | `Landlock`, `ConfinementProofs`, actions of `Startup` |
| `CapabilityManagment`, `PosixWrapper` | `src/src/capability_managment.*`, `src/src/posix_wrapper.*` | actions of `Startup` |
| systemd unit | `src/systemd/mping-sender.service` | `Service`, `ServiceProofs` |
| AppArmor profile, tests, build | `src/apparmor`, `src/tests`, `src/meson.build` | not modelled |

Boost.Asio, boost::program_options, libseccomp, libcap-ng, systemd and the
kernel are external: they are modelled from how the code uses them.

Four compositions join the parts. `Sender` extends `MPingState` and
`MulticastTxSocket` and adds the timer, the clock and the unwinding of `main`.
`WireFormat` joins `Sender::send_packet`, the packet layout, the headers the
kernel writes and the dissector. `Startup` joins the confinement steps, the
command line and the construction of the `Sender`. `Service` puts `Sender` under
systemd, on a network that comes and goes.

## The sender loop: `MPingState`, `MulticastTxSocket`, `Sender`

One thread runs the handlers of `io_context`, so a handler is one action.
`ready` is the queue of completions, `writeq` the sends that wait for the
socket, `heap` the payloads that `make_shared` allocated and a capture keeps
alive, `wire` what the kernel has taken, `attempts` how many sends the kernel
has answered, `timer` the expiry of `_timer` and the number of waits it holds.

| action | code |
| --- | --- |
| `OnTimer(now, result)` | the lambda of `async_wait`: `schedule_send`, then `send_packet`; `result` is the kernel's answer to the immediate attempt |
| `OnSent` | the lambda of `async_send_to`; an error throws |
| `TimerExpires`, `SocketWritable` | the reactor |
| `DestroySender`, `DestroyIoContext`, `Exit` | unwinding, the catch block, `std::exit(EXIT_FAILURE)` |
| `Tick` | time; it also passes inside `OnTimer`, between its two readings of the clock |

`PingStream` is the abstract specification: packets numbered 0, 1, 2, ...
modulo `SeqMax + 1`, in order, none repeated, at most one per period, stamped by a
monotonic clock. A packet is missing only if it was lost at the sender, and then
the stream is about to stop; packets queued behind the lost one may still go out
before the handler of the failed send ends the program. `Sender!Stream`
instantiates it with `next <- attempts`, `out <- wire`, `up <- pc = "run"` and
`doomed` true once a failed send is queued.

**Run `sender`** (`MCSender.cfg`) checks `TypeOK`, `TimerChain` (one wait, never
cancelled), `BuffersOwned` (a payload lives as long as its one send),
`WireGapless`, `PacedByClock`, `NoBurst`, `BacklogBounded`, the inductive
invariant `IInv` and `ImplementsStream`. Bounds: `Period = 2`, so that a handler can be late by less
and by more than a period; `SeqMax = 2` and `Horizon = 11`, five packets, so
that the sequence number wraps and the write queue holds several packets;
`Boot = 1` separates the reading of the clock from the time since the start.
Deadlock is not an error, because the program ends and the clock has a bound.

**Run `sender_live`** (`MCSenderLive.cfg`) checks `FailureExits` and
`TickProducesPacket`. Fairness: time passes, the reactor reports an expired
timer, the thread keeps running queued handlers and finishes unwinding. This is
what `io.run()` does. Nothing is assumed of the socket, which may stay
unwritable for ever.

"Every second" is a lower bound in the code: `expires_after` counts from the
moment the handler runs, so delays add up and the program never catches up.
`PacedByClock` states the bound that holds since the start, and `NoBurst` the one
for any stretch of the stream: n packets in a row span at least n - 2 periods.
(Not n - 1: the handler re-arms the timer before it stamps its packet, so two
stamps may be close.) The code does not limit the sends that wait for the socket;
`BacklogBounded` says what limits them nevertheless, one payload per period
since the oldest was stamped, and two more. `Spacing`, a part of `IInv`, is the
reason for both.

## The service: `Service`

`Service` extends `Sender`: a step of the process is a step of `Sender` in which
the kernel takes a datagram exactly while the network is reachable (`link`).

| action | what it stands for |
| --- | --- |
| `Process` | a step of the running program, or of the clock |
| `Kill`, `LinkDown`, `LinkUp` | the faults: a crash or kill at any point, an outage |
| `CleanSignal` | SIGHUP, SIGINT, SIGTERM or SIGPIPE, none of which the program handles and all of which systemd takes for a clean end |
| `Reap` | `Restart=on-failure`: systemd sees how the process ended |
| `Restart`, `Launch` | `ExecStart`, if the start limit lets it through: a new process, which gets into `io.run()`, fails before, or prints the help |
| `SystemctlStop` | SIGTERM, and no restart |

The unit sets neither `RestartSec` nor a start limit, so the defaults of systemd
apply: 100 ms, and 5 starts in a window of 10 s that begins with its first start.
Nothing in the unit waits for the network, so the first start may fall into an
outage. `Launch` stands for the whole of `Startup`. It may fail at any time; a start
that fails although the link is up (a step of `main` throws, an option is malformed)
is counted in `kills`, like a process that is killed. A send error for another reason
than an outage has the same effect as `Kill`. A unit that is `failed` or `inactive`
stays so: an operator's `start` or `reset-failed` is not modelled.

**Run `service`** (`MCService.cfg`) checks `ServiceTypeOK`, the inductive invariant
`ServiceInv`, and

* `RestartsKeepPace`: however often the program is killed and started again,
  receivers never see the packets come faster, and a packet of a new process is
  stamped at least a period after all packets of the earlier ones (the sequence
  number does start again at 0);
* `ShortOutagesSurvived`: the unit ends `failed` only if the outages lasted at
  least `(StartLimitBurst - kills - outages) * RestartSec`, where `kills` counts the
  starts that failed with the link up, too. The bound is tight.
  With the defaults it is only 0.4 s: a longer outage, one second without the
  interface for instance, can use up all five starts and silence the sender for
  good;
* `DownOnPurpose`: the unit becomes inactive only after a stop, after one of the four
  clean signals, or when the options ask for `--help`. No exception, from whatever
  handler or destructor, and no other signal is taken for success.

Bounds: one outage, one kill or failing start, `StartLimitBurst = 3`, so that the limit is reached
with and without a kill; `StartLimitInterval = 5` and `Horizon = 8`, so that the
window also passes; `RestartSec = 1` is shorter than `Period = 2`, as in reality.

**Run `service_live`** (`MCServiceLive.cfg`) checks `Recovers`: once the faults
are over, a start that is due leads to a sender that runs for good, or to
`failed`, or to a clean end. Fairness: that of `Sender`, and systemd's own steps.

## The packet: `MPingPacket`, `Dissector`, `WireFormat`

A machine integer of at most eight bytes is a sequence of digits below `Radix`, most
significant first; `Word` takes the digits of a number and `Value` puts them together
again. `to_byte_array` shows its image in the memory of a host of either endianness. A
packet is the sequence of its 288 characters. The branches of `serialize` that
throw for an address of neither family are unreachable:
`boost::asio::ip::address` is always one of the two. The two hosts of a sender need
not be of one family. The socket is opened for that of the source
(`multicast_tx_socket.cpp:15`); Linux sends from an IPv6 socket to IPv4 destinations,
too, with a source address of its own choice, and refuses to send from an IPv4 socket
to IPv6 (`Reaches`). Such a sender stops at its first packet, which is why the run does
not take a deadlock for an error. The dissector declares `mping.seq_no` and `mping.pid`
as `uint16` fields over ranges of four bytes (`mping.lua:110`, `275`); Wireshark reads
the range.

**Run `wire`** (`MCWireFormat.cfg`) sends two packets from each of a set of
states, with one field at a time at the ends of its range, and dissects them:
`TypeOK`, `SameOnEveryHost`, `IPv6RoundTrip`, `TimeSplit`, `ExpertsExplained` (for
packets between IPv6 hosts) and `StreamOrder`. The states include senders from IPv6 to
IPv4 and from IPv4 to IPv6. `Radix = 16` puts the largest
four-digit number, 65535, within TLC's integers; the clock has 3 ticks per microsecond and 20 microseconds per
second, so that all roundings occur. The layout has the real widths.

**Run `wire_ipv4`** (`MCWireFormatIPv4.cfg`) finds `IPv4RoundTrip` violated:
`ipv4_to_sockaddr_storage` writes the address at offset 8 of the host section
(`network_serialization.hpp:103`), while the diagram in `mping_state.cpp:133` and
the dissector (`mping.lua:233`, `264`) have it at offset 4.

Also noticed: the dissector raises `e_depracated_version` for an invalid type
(`mping.lua:209`) and never uses `e_invalid_type`. No sender produces such a
type.

## From main to io.run(): `Configuration`, `Seccomp`, `Startup`

`build`, `env` and `args` are chosen once: which optional libraries are compiled
in, what the host offers (capabilities, no_new_privs, Landlock ABI, addresses,
interfaces, the system calls whose rule libseccomp may fail to add, and at most one
step that fails for some other reason), and the command line. Each step is one action; `Goto` gives all of them the same three
outcomes: killed by the loaded filter, done, or thrown to the catch block.
`Syscalls` lists what libc and Boost.Asio call on behalf of a step on x86-64,
including the `pipe` that Asio's `io_context` falls back on when `eventfd` fails.
It is an assumption of the model.

**Run `startup`** (`MCStartup.cfg`) checks the properties below, `TypeOK` and the
inductive invariant `IInv` for the eight builds, 24 combinations of capabilities,
no_new_privs and ABI, every single fault, lost rules, and 42 command lines (each
option absent, usual, at its bounds or invalid, with and without `--help`).

* `ConfinedBeforeInput`: the command line is parsed and the network touched only
  without capabilities, inside the Landlock ruleset and under a filter that forbids
  what the `kill_*` groups name. Rules that libseccomp failed to add may be missing,
  because `rule_add` does not look at its answer.
* `SendsAsConfigured` follows the options through the getters, the positional
  arguments of `Sender` and the two uses of each in its constructor, to what `bind`
  and the socket options are *given*. What the kernel makes of port 0 or of an
  unspecified address is a matter of `WireFormat`. For the TTL it only says that the
  packet and the socket agree.
* `HealthyHostRuns`: on a `HealthyHost` no step throws. `HealthyHost` spells out what
  the program needs: in particular a build with Landlock but without libcap-ng needs
  no_new_privs from outside (the systemd unit sets it) or CAP_SYS_ADMIN, and a build
  with libcap-ng cannot bind to a port below 1024.
* `KilledForPipeOnly`: the filter kills the program only for the `pipe` of an
  `io_context` that could not have an eventfd.
* `FailureReported`: EXIT_SUCCESS means `--help`.

`KilledForPipeOnly` and `HealthyHost` name two limits of the program: `kill_ipc`
forbids `pipe`, so on a host that is out of eventfds the program is killed by SIGSYS
and does not report an error; and the capabilities are dropped before `bind`, so
`--bind-port 1023` fails even for a process that was started with
CAP_NET_BIND_SERVICE.

**Run `startup_lost`** (`MCStartupLost.cfg`) finds `BlacklistInForce` violated: when
libseccomp fails to add a rule, `main` goes on with a filter that lacks it
(`seccomp.cpp:22`).

**Run `startup_ttl`** (`MCStartupTtl.cfg`) finds `TtlAsGiven` violated:
`value<uint8_t>` reads a character, so `--ttl 5` means 53 and `--ttl 64` is
refused (`configuration.cpp:23`). Ports are read as numbers, but with a minus
sign too: `--bind-port -1` is 65535.

**Run `startup_clang`** (`MCStartupClang.cfg`) finds `LogLevelAsGiven` violated
for a build with clang: `--log-level` is not registered there
(`configuration.cpp:16`), `allow_unregistered` lets it pass, and the filter is
info.

Also noticed: `kill_others` guards and names `set_mempolicyvmsplice`
(`seccomp.cpp:189`), which no system has; `set_mempolicy` and `vmsplice` are
killed by other groups. `main.cpp:38` passes an argument to `restrict_self`, which
takes none, if the macro around it is ever defined. `main` calls every `kill_*`
group but `kill_mount`.

## The two confinement classes: `SeccompFilter`, `Landlock`

`main` uses these classes in one order. Here a client uses them in any order,
including the operations that `main` never calls.

**Run `seccomp`** (`MCSeccompFilter.cfg`): one `SeccompFilterContext` of either
default action, `allow`, `kill`, `load`, `reset` and `release`, with groups that
overlap, one that contains the call `load` needs, and rules that are lost.
`NoUseAfterRelease`: `is_useable` keeps a released context from libseccomp. `main`
itself never calls `release`. Copies of the object, which would share the pointer,
do not occur in the program and are not modelled.

**Run `landlock`** (`MCLandlock.cfg`): the constructor, `add_path_beneath_rule`
and `restrict_self`, on kernels without Landlock, with an ABI that is too old and
with ABI 6, which knows two of three access rights, with and without no_new_privs and
CAP_SYS_ADMIN, and with a limit of two layers (16 in Linux) that is exceeded. `RestrictedAsTold`: the calls that returned describe exactly what the
process may still do, for good. Paths do not contain each other here, and the
implicit refusal of `REFER` is left out.

## Proofs

The inductive invariants of the sender, of `main` and of the service are also
invariants of runs, so TLC has checked what those proofs start from. The
assumptions on the constants are named where the constants are declared; TLC
evaluates them on every run.

### The sender loop: `SenderProofs`, `SenderStreamProofs`, `PingStreamProofs`

Assumed: `SeqMax`, `Boot` and `Horizon` are natural numbers, `Boot <= Horizon`,
and `Period` is positive.

| theorem | shows |
| --- | --- |
| `TypeCorrect`, `OneWaitOutstanding`, `PayloadsOwned` | `TypeOK`, `TimerChain`, `BuffersOwned` |
| `Inductive` | `IInv` |
| `StreamGapless`, `StreamPaced`, `StreamWithoutBursts`, `BacklogGrowsWithTime` | `WireGapless`, `PacedByClock`, `NoBurst`, `BacklogBounded` |
| `SenderImplementsStream` | `ImplementsStream`, that is `PingStream!Spec`, which states no fairness |

The first three are inductive only together, as `Core`. `TypeOK` needs
`BuffersOwned`, because the reactor puts `heap[Head(writeq)]` on the wire, which is
a state only if that payload is alive. `BuffersOwned` needs `TypeOK`: a new payload
is fresh because all live ones have smaller numbers. `TimerChain` makes the
handler of a wait run while the timer holds none, so that `expires_after` cancels
nothing.

`IInv` adds to `Core` what the stream needs to be known of payloads that are not
on the wire yet. `Numbering`: payload b carries number b - 1, and the write queue
holds the newest payloads in order. `Pacing`: stamps do not decrease along the
wire, then the queue, then the state, and the timer does not expire before the
turn of the next packet. `Spacing`: between two payloads the timer was armed anew
as often as their numbers differ, each time for a period. `NothingCancelled`: no
handler sees `operation_aborted` before the unwinding. Each part has a lemma for
`OnTimer`, one for `SocketWritable` and one for the steps that touch neither the
wire nor the queues of payloads; `Span` hides the products of a number and
`Period` from the prover.

The refinement goes step by step. `Tick` is `Pass`; `OnTimer` is `Emit`, `Lose` or
`Pass`, depending on whether the kernel takes the datagram, refuses it or lets it
wait; `SocketWritable` is `Emit` or `Lose`; a failing `OnSent` is `Stop`; all else
leaves the stream alone. `Emit` is allowed because of `Numbering` and `Pacing`: the
next packet on the wire has the next number and was not stamped before its turn.

### From main to io.run(): `StartupProofs`

Assumed: `Builds` holds records of the three flags, `CommandLines` integers for
ports and digits for the TTL, and `PortMax` is at least 4321, the default port.
`Known`, the system calls that the headers define, is arbitrary.

| theorem | shows |
| --- | --- |
| `StartupInductive`, `StartupTypes` | `IInv`, `TypeOK` |
| `InputIsConfined` | `ConfinedBeforeInput` |
| `OptionsReachTheWire` | `SendsAsConfigured` |
| `FilterSparesMain`, `HealthyHostsRun`, `FailuresReported` | `KilledForPipeOnly`, `HealthyHostRuns`, `FailureReported` |

`IInv` says for every step of `main` what the steps before it have established:
`Credentials` (what was given up stays given up, and no step is reached that was
compiled out), `Filtering` (the context holds the rules of the `kill_*` calls made
so far except lost ones, the kernel none of them or all) and `Construction` (the members
come from the command line). `HealthyHostRuns`, `KilledForPipeOnly` and
`FailureReported` are no part of it; they are shown from it, step by step, by
`HealthyHostStep` and `ExitsStep`. `KilledForPipeOnly` rests on `GroupsSpare`: but for
`pipe` no group that `main` kills names a system call of `Syscalls`. `HealthyHostRuns`
needs `Credentials`: `lock` finds CAP_SETPCAP because no earlier step has dropped it.

### The service: `ServiceProofs`

Assumed, besides what `Sender` assumes: `RestartSec`, `StartLimitBurst` and
`MaxOutages` are positive (the first start may fall into an outage),
`StartLimitInterval` and `MaxKills` natural numbers.

| theorem | shows |
| --- | --- |
| `ServiceInductive`, `ServiceTypes` | `ServiceInv`, `ServiceTypeOK` |
| `PaceOverRestarts` | `RestartsKeepPace` |
| `OutagesSurvived` | `ShortOutagesSurvived` |
| `EndsAreFailures` | `DownOnPurpose` |

`ServiceInv` has four parts. `ProcessSound`: while there is a process it satisfies
`IInv` of `Sender`, whose step lemmas are used as they are. `UnitFollows`: how the
process ended and what systemd believes agree. `Tracks`: the packets of a new
process take up the turns of the earlier ones, so that `Spacing` carries over a
restart. `StartsPaid` is the reason for `ShortOutagesSurvived`: every start is paid
for by a fault counted in `kills`, an outage, or a `RestartSec` for which the network was away. The
`Balance` of an active process may owe one start as long as nothing has gone wrong;
while a start is due, it has been paid or the outage is paying for it. The proof
needed the bound `due <= clock + RestartSec`, without which an outage could have paid
for a start that is still far off.

### The packet: `PacketProofs`, `WireFormatProofs`

Assumed: `Radix` is above 10 and `SeqMax + 1` its fourth power, the clock has at least
one tick per microsecond and one microsecond per second (`ClockAssumption`). A state of
`Senders` has members of their types (`MPingStates`); a time is a natural number of 64
bits (`Ticks`). The kernel's answers are real ones
(`KernelAssumption`): the source address that it chooses is never the unspecified one, the port
that `bind` chooses never 0.

| theorem | shows |
| --- | --- |
| `DissectorReads` | what `dissector` makes of `serialize(s, native)`, for every state of the types of `MPingState`, host and headers: no packet is rejected, the integers, the time and IPv6 addresses are read back, of an IPv4 address four zeros are shown, and an expert info is raised exactly where the headers differ from what is shown |
| `WireTypes` | `TypeOK` |
| `IPv6ReadsBack`, `TimeReadsBack` | `IPv6RoundTrip`, `TimeSplit` |
| `ExpertsOnlyForBind` | `ExpertsExplained`, between IPv6 hosts |
| `BytesOfEveryHost` | `SameOnEveryHost`: no byte depends on the endianness of the host |
| `PacketLength` | every packet has 288 bytes, whatever the two address families |
| `StampSplitExactly` | `get_seconds` and `get_microseconds` of every state add up to its time, rounded down to a microsecond, and the microseconds are less than a second |
| `PacketsInOrder` | `StreamOrder`: between two packets the state is the successor of the one that was sent |

`PacketProofs` has the lemmas, in three layers. Digits: dividing twice is dividing by the
product (`DividedTwice`), so each digit of `Word` is a quotient less `Radix` times the
next one, and `ReadBack` has `Value(Word(n, w)) = n` for every n that fits (`Fits`).
Images: `byteswap` undoes what `to_byte_array` shows of a little-endian host, so
`serialize` is the concatenation of the words themselves (`SerializeImage`). Placement:
`Holds(p, k, r, n)` says that the n bytes of r follow the first k of p; appending keeps it
(`HeldKept`), and `SectionLayout` and `FixedLayout` give the offset of every field, with
the lengths that add up to 288.

`WireFormatProofs` puts them together. `PacketLayout` says what is where in a packet,
`StampFits` that the seconds of a 64-bit clock fit the eight bytes that are written for
them, `IntegerRead` and `HostRead` what the dissector finds at an offset, and `Shown`
what it must show. The offsets of the dissector are those of the layout, or the proof of
`DissectorReads` fails. For IPv4 it goes through only because `Shown` has zeros there:
the proved form of what run `wire_ipv4` exhibits.

The theorems about `WireFormat` start from `WireInv`, which `WireFormatProofs` defines:
between two packets the state is the successor of the one that was sent, the packet is
the image of that one, and the view is what the dissector makes of the packet. It is
inductive because the members keep to their types under
`set_current_time` and `next_seq_no`, and because `SendPacket` clears the view, so that
what is shown always belongs to the packet that was sent last.

### The two confinement classes: `ConfinementProofs`

For every set `Known` of system calls, of requests among them and of rules that may be
lost:

* `ReleasedForGood`: `FilterSpec => []NoUseAfterRelease`, because a pointer that
  is not null points to a context that is not released.

For every `Accesses`, `Paths`, `AbiOf`, `Abis` and `MaxLayers`:

* `RestrictionsHold`: `LandlockSpec => []RestrictedAsTold`. The invariant says that
  what the client was told of its object and its layers is what the kernel has.

### Model-checked only

* Liveness: `FailureExits`, `TickProducesPacket`, `Recovers`. The prover does not
  handle fairness.

Every invariant and action property of a passing run, and the refinement of
`PingStream`, has a theorem.

## Not modelled

* Logging, the wording of messages and of the help.
* The default constructor and the getters of `MPingState` that return one member,
  `get_help` and `get_log_level`: the program never calls them.
* The syntax of the command line: it is Boost's, and an option is given or not.
* The confinement options of the systemd unit, which have no behaviour of their
  own; its capabilities and `NoNewPrivileges` are environments of `Startup`.
* The AppArmor profile and the build: they have no behaviour.
* The random generator of the PID: any value of the type.
