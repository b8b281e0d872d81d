------------------------------- MODULE Seccomp -------------------------------
(***************************************************************************)
(* SeccompFilterContext (src/src/seccomp.cpp): a libseccomp filter context *)
(* that main fills with groups of forbidden system calls and then loads.   *)
(*                                                                         *)
(* libseccomp is external: seccomp_rule_add refuses a rule that the        *)
(* context already has (-EEXIST) and one whose action is the default       *)
(* action of the context (-EACCES), and it may fail to add any other       *)
(* (-ENOMEM, -EDOM, -EFAULT): that rule is lost.                           *)
(***************************************************************************)
CONSTANT Known      \* the x for which sys/syscall.h defines SYS_x

\* The system calls that each kill_* names.  A call whose SYS_ macro the
\* headers do not define is compiled out.
kill_chown ==
  {"chown", "chown32", "fchown", "fchown32", "fchownat", "lchown",
   "lchown32"}

kill_clock ==
  {"adjtimex", "clock_adjtime", "clock_settime", "settimeofday", "stime"}

kill_cpu_emulation ==
  {"modify_ldt", "subpage_prot", "switch_endian", "vm86", "vm86old"}

kill_debug ==
  {"lookup_dcookie", "perf_event_open", "pidfd_getfd", "process_vm_writev",
   "rtas", "s390_runtime_instr", "sys_debug_setcontext"}

kill_others ==
  {"open_by_handle_at", "name_to_handle_at", "ioprio_set", "ni_syscall",
   "syslog", "fanotify_init", "add_key", "request_key", "mbind",
   "migrate_pages", "move_pages", "keyctl", "io_setup", "io_destroy",
   "io_getevents", "io_submit", "io_cancel", "remap_file_pages",
   "set_mempolicyvmsplice", "userfaultfd", "acct", "bpf", "nfsservctl",
   "setdomainname", "sethostname", "vhangup", "ptrace", "personality",
   "process_vm_readv"}

kill_ipc ==
  {"ipc", "memfd_create", "mq_getsetattr", "mq_notify", "mq_open",
   "mq_timedreceive", "mq_timedsend", "mq_unlink", "msgctl", "msgget",
   "msgrcv", "msgsnd", "process_madvise", "process_vm_readv",
   "process_vm_writev", "semctl", "semget", "semop", "semtimedop", "shmat",
   "shmctl", "shmdt", "pipe", "pipe2"}

kill_keyring ==
  {"add_key", "keyctl", "request_key"}

kill_memlock ==
  {"mlock", "mlock2", "mlockall", "munlock", "munlockall"}

kill_module ==
  {"delete_module", "finit_module", "init_module"}

kill_mount ==
  {"chroot", "fsconfig", "fsmount", "fsopen", "fspick", "mount", "move_mount",
   "open_tree", "pivot_root", "umount", "umount2"}

kill_obsolete ==
  {"_sysctl", "afs_syscall", "bdflush", "break", "create_module", "ftime",
   "get_kernel_syms", "getpmsg", "gtty", "idle", "lock", "mpx", "prof",
   "profil", "putpmsg", "query_module", "security", "sgetmask", "ssetmask",
   "stty", "sysfs", "tuxcall", "ulimit", "uselib", "ustat", "vserver"}

kill_privileged ==
  {"_sysctl", "acct", "bpf", "chroot", "fanotify_init", "mount",
   "nfsservctl", "open_by_handle_at", "pivot_root", "quotactl",
   "setdomainname", "setfsuid", "setfsuid32", "setgroups", "setgroups32",
   "sethostname", "setresuid", "setresuid32", "setreuid", "setreuid32",
   "setuid", "setuid32", "umount2", "vhangup"}

kill_rawio ==
  {"ioperm", "iopl", "pciconfig_iobase", "pciconfig_read",
   "pciconfig_write", "s390_pci_mmio_read", "s390_pci_mmio_write"}

kill_reboot ==
  {"kexec_load", "kexec_file_load", "reboot"}

kill_resources ==
  {"ioprio_set", "mbind", "migrate_pages", "move_pages", "nice",
   "sched_setaffinity", "sched_setattr", "sched_setparam",
   "sched_setscheduler", "set_mempolicy"}

kill_setuid ==
  {"setgid", "setgid32", "setgroups", "setgroups32", "setregid",
   "setregid32", "setresgid", "setresgid32", "setresuid", "setresuid32",
   "setreuid", "setreuid32", "setuid", "setuid32"}

kill_signal ==
  {"rt_sigaction", "rt_sigpending", "rt_sigprocmask", "rt_sigsuspend",
   "rt_sigtimedwait", "sigaction", "sigaltstack", "signal", "signalfd",
   "signalfd4", "sigpending", "sigprocmask", "sigsuspend"}

kill_swap ==
  {"swapon", "swapoff"}

kill_sync ==
  {"fdatasync", "fsync", "msync", "sync", "sync_file_range",
   "sync_file_range2", "syncfs"}

\* Variant: ioctl is not left out, although if_nametoindex needs it.
kill_system_service_with_ioctl == {"ioctl", "madvise", "sysinfo", "uname"}

kill_system_service ==
  {"copy_file_range", "fadvise64", "fadvise64_64", "flock", "get_mempolicy",
   "getcpu", "getpriority", "ioprio_get", "kcmp", "madvise", "mremap",
   "name_to_handle_at", "oldolduname", "olduname", "personality",
   "readahead", "readdir", "remap_file_pages", "sched_get_priority_max",
   "sched_get_priority_min", "sched_getaffinity", "sched_getattr",
   "sched_getparam", "sched_getscheduler", "sched_rr_get_interval",
   "sched_yield", "sendfile", "sendfile64", "setfsgid", "setfsgid32",
   "setfsuid", "setfsuid32", "setpgid", "setsid", "splice", "sysinfo", "tee",
   "umask", "uname", "userfaultfd", "vmsplice"}

------------------------------------------------------------------------------
(***************************************************************************)
(* A context: its default action, the system calls that have a rule (with  *)
(* the other action) and whether a call into it has thrown.                *)
(***************************************************************************)
NewContext(def_action) == [default |-> def_action, rules |-> {}, failed |-> FALSE]

\* Variant: the result of seccomp_rule_add is checked.
rule_add_checked(c, action, syscalls, lost) ==
  [c EXCEPT !.rules = IF action = c.default THEN @ ELSE @ \union (syscalls \ lost),
            !.failed = \/ @ \/ action = c.default
                       \/ syscalls \intersect (c.rules \union lost) # {}]

\* rule_add(action, x) for each x in syscalls, of which libseccomp fails to
\* add those in lost.  No error is looked at.
rule_add(c, action, syscalls, lost) ==
  [c EXCEPT !.rules = IF action = c.default THEN @ ELSE @ \union (syscalls \ lost)]

allow(c, syscalls, lost) == rule_add(c, "ALLOW", syscalls, lost)

kill(c, syscalls, lost) == rule_add(c, "KILL", syscalls, lost)

\* Variant: the calls that the headers do not define are not compiled out.
KillGroup_everywhere(c, group, lost) == kill(c, group, lost)

KillGroup(c, group, lost) == kill(c, group \intersect Known, lost)

==============================================================================
