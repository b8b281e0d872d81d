------------------------------- MODULE MCStartup -------------------------------
EXTENDS Startup, SequencesExt

MCBuilds == [libcapng : BOOLEAN, landlock : BOOLEAN, seccomp : BOOLEAN]

\* The calls of the groups for which the headers of x86-64 have no SYS_ macro.
Elsewhere ==
  {"chown32", "fchown32", "lchown32", "stime", "subpage_prot",
   "switch_endian", "vm86", "vm86old", "rtas", "s390_runtime_instr",
   "sys_debug_setcontext", "ni_syscall", "set_mempolicyvmsplice", "ipc",
   "bdflush", "break", "ftime", "gtty", "idle", "lock", "mpx", "prof",
   "profil", "sgetmask", "ssetmask", "stty", "ulimit", "pciconfig_iobase",
   "pciconfig_read", "pciconfig_write", "s390_pci_mmio_read",
   "s390_pci_mmio_write", "nice", "setfsuid32", "setfsgid32", "setgroups32",
   "setresuid32", "setreuid32", "setuid32", "setgid32", "setregid32",
   "setresgid32", "sigaction", "signal", "sigpending", "sigprocmask",
   "sigsuspend", "sync_file_range2", "fadvise64_64", "oldolduname",
   "olduname", "readdir", "sendfile64"}

MCKnown ==
  (UNION {Groups[i] : i \in DOMAIN Groups} \union {"ioctl"}) \ Elsewhere

MCLogLevels == {"trace", "debug", "info", "warning", "error", "fatal"}

Host == [caps |-> {"SETPCAP"}, nnp |-> FALSE, abi |-> 6, fault |-> "none", flaky |-> {},
         local |-> {"fe80::1"}, interfaces |-> {"eth0"},
         addresses |-> {"ff2e::42", "239.0.0.1"}]

Faults == {"check_for_capabilites", "lock", "drop_all_capabilies",
           "landlock_ruleset", "restrict_self", "seccomp_init",
           "seccomp_rules", "eventfd", "io_context", "socket", "state", "run"}

\* A healthy host and its variations; one fault at a time.
MCEnvironments ==
  {[Host EXCEPT !.caps = c, !.nnp = n, !.abi = v] :
     c \in SUBSET {"SETPCAP", "SYS_ADMIN"}, n \in BOOLEAN, v \in {-1, 5, 6}}
  \union {[Host EXCEPT !.caps = @ \union {"NET_BIND_SERVICE"}, !.nnp = TRUE]}
  \union {[Host EXCEPT !.fault = f] : f \in Faults}
  \union {[Host EXCEPT !.fault = f, !.flaky = {"pipe", "bpf", "swapon"}] :
            f \in {"none", "eventfd"}}
  \union {[Host EXCEPT !.local = {}], [Host EXCEPT !.interfaces = {}]}

Usual == [help |-> FALSE, log_level |-> <<>>, bind_address |-> <<"fe80::1">>,
          bind_port |-> <<>>, address |-> <<>>, port |-> <<>>, ttl |-> <<>>,
          interface_name |-> <<"eth0">>]

\* The usual command line and its variations, one option at a time, with and
\* without --help.
MCCommandLines ==
  LET One == {Usual}
        \union {[Usual EXCEPT !.log_level = <<l>>] : l \in {"trace", "loud"}}
        \union {[Usual EXCEPT !.bind_address = b] : b \in {<<>>, <<"::9">>}}
        \union {[Usual EXCEPT !.bind_port = <<p>>] : p \in {-1, 0, 1023, 1024, PortMax, PortMax + 1}}
        \union {[Usual EXCEPT !.address = <<a>>] : a \in {"239.0.0.1", "nonsense"}}
        \union {[Usual EXCEPT !.port = <<p>>] : p \in {-PortMax - 1, -PortMax, 5000}}
        \union {[Usual EXCEPT !.ttl = <<t>>] : t \in {<<5>>, <<6, 4>>, <<2, 5, 5>>}}
        \union {[Usual EXCEPT !.interface_name = i] : i \in {<<>>, <<"wlan0">>}}
  IN  One \union {[a EXCEPT !.help = TRUE] : a \in One}

\* The number that a text of decimal digits denotes.
Decimal(text) == FoldLeft(LAMBDA n, d : 10 * n + d, 0, text)

(***************************************************************************)
(* The description of --ttl, "TTTL or hop limit with which the packets are *)
(* sent": the sender runs with the TTL that was asked for.                 *)
(***************************************************************************)
TtlAsGiven ==
  pc = "run" /\ Given(args.ttl) => config[1].ttl = Decimal(args.ttl[1])

(***************************************************************************)
(* "--log-level": a level that the options allow is the one the log is     *)
(* filtered with.                                                          *)
(***************************************************************************)
LogLevelAsGiven ==
  pc = "run" /\ Given(args.log_level) /\ args.log_level[1] \in LogLevels
    => config[1].log_level = args.log_level[1]

(***************************************************************************)
(* "seccomp is used to blacklist syscalls that mping-sender does not need" *)
(* (README): those that main names are forbidden from then on, because     *)
(* main does not go on without them.                                       *)
(***************************************************************************)
BlacklistInForce ==
  build.seccomp /\ pc \in InputSteps => filter = Forbidden

================================================================================
