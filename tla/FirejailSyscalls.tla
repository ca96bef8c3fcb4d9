-------------------------- MODULE FirejailSyscalls --------------------------
(***************************************************************************)
(* The tables of lib/syscall.c: the groups of system calls that a list of  *)
(* --seccomp may name (sysgroups), and the numbers of the x86_64 and i386  *)
(* system calls (include/syscall_x86_64.h, include/syscall_i386.h).  The   *)
(* preprocessor keeps a name of a group only when the C library defines    *)
(* its number; the reader of the table gives that set of names.            *)
(***************************************************************************)
EXTENDS Integers, Sequences, TLC

group_aio ==
  << "io_cancel", "io_destroy", "io_getevents", "io_pgetevents", "io_setup", "io_submit",
     "io_uring_enter", "io_uring_register", "io_uring_setup" >>

group_basic_io ==
  << "_llseek", "close", "close_range", "dup", "dup2", "dup3", "lseek", "pread64", "preadv",
     "preadv2", "pwrite64", "pwritev", "pwritev2", "read", "readv", "write", "writev" >>

group_chown ==
  << "chown", "chown32", "fchown", "fchown32", "fchownat", "lchown", "lchown32" >>

group_clock ==
  << "adjtimex", "clock_adjtime", "clock_settime", "settimeofday", "stime" >>

group_cpu_emulation ==
  << "modify_ldt", "subpage_prot", "switch_endian", "vm86", "vm86old", "__dummy_syscall__" >>

group_debug ==
  << "lookup_dcookie", "perf_event_open", "pidfd_getfd", "process_vm_writev", "rtas",
     "s390_runtime_instr", "sys_debug_setcontext" >>

group_default ==
  << "@clock", "@cpu-emulation", "@debug", "@module", "@mount", "@obsolete", "@raw-io",
     "@reboot", "@swap", "open_by_handle_at", "name_to_handle_at", "ioprio_set", "ni_syscall",
     "syslog", "fanotify_init", "add_key", "request_key", "mbind", "migrate_pages", "move_pages",
     "keyctl", "io_setup", "io_destroy", "io_getevents", "io_submit", "io_cancel",
     "remap_file_pages", "set_mempolicy", "vmsplice", "userfaultfd", "acct", "bpf", "nfsservctl",
     "setdomainname", "sethostname", "vhangup" >>

group_default_nodebuggers ==
  << "@default", "ptrace", "personality", "process_vm_readv" >>

group_default_keep ==
  << "execveat", "execve", "prctl" >>

group_file_system ==
  << "access", "chdir", "chmod", "close", "close_range", "creat", "faccessat", "faccessat2",
     "fallocate", "fchdir", "fchmod", "fchmodat", "fcntl", "fcntl64", "fgetxattr", "flistxattr",
     "fremovexattr", "fsetxattr", "fstat", "fstat64", "fstatat64", "fstatfs", "fstatfs64",
     "ftruncate", "ftruncate64", "futimesat", "getcwd", "getdents", "getdents64", "getxattr",
     "inotify_add_watch", "inotify_init", "inotify_init1", "inotify_rm_watch", "lgetxattr",
     "link", "linkat", "listxattr", "llistxattr", "lremovexattr", "lsetxattr", "lstat",
     "lstat64", "mkdir", "mkdirat", "mknod", "mknodat", "mmap", "mmap2", "munmap", "newfstatat",
     "oldfstat", "oldlstat", "oldstat", "open", "openat", "openat2", "readlink", "readlinkat",
     "removexattr", "rename", "renameat", "renameat2", "rmdir", "setxattr", "stat", "stat64",
     "statfs", "statfs64", "statx", "symlink", "symlinkat", "truncate", "truncate64", "unlink",
     "unlinkat", "utime", "utimensat", "utimes" >>

group_io_event ==
  << "_newselect", "epoll_create", "epoll_create1", "epoll_ctl", "epoll_ctl_old", "epoll_pwait",
     "epoll_wait", "epoll_wait_old", "eventfd", "eventfd2", "poll", "ppoll", "pselect6",
     "select" >>

group_ipc ==
  << "ipc", "memfd_create", "mq_getsetattr", "mq_notify", "mq_open", "mq_timedreceive",
     "mq_timedsend", "mq_unlink", "msgctl", "msgget", "msgrcv", "msgsnd", "pipe", "pipe2",
     "process_madvise", "process_vm_readv", "process_vm_writev", "semctl", "semget", "semop",
     "semtimedop", "shmat", "shmctl", "shmdt", "shmget" >>

group_keyring ==
  << "add_key", "keyctl", "request_key" >>

group_memlock ==
  << "mlock", "mlock2", "mlockall", "munlock", "munlockall" >>

group_module ==
  << "delete_module", "finit_module", "init_module" >>

group_mount ==
  << "chroot", "fsconfig", "fsmount", "fsopen", "fspick", "mount", "move_mount", "open_tree",
     "pivot_root", "umount", "umount2" >>

group_network_io ==
  << "accept", "accept4", "bind", "connect", "getpeername", "getsockname", "getsockopt",
     "listen", "recv", "recvfrom", "recvmmsg", "recvmsg", "send", "sendmmsg", "sendmsg",
     "sendto", "setsockopt", "shutdown", "socket", "socketcall", "socketpair" >>

group_obsolete ==
  << "_sysctl", "afs_syscall", "bdflush", "break", "create_module", "ftime", "get_kernel_syms",
     "getpmsg", "gtty", "idle", "lock", "mpx", "prof", "profil", "putpmsg", "query_module",
     "security", "sgetmask", "ssetmask", "stty", "sysfs", "tuxcall", "ulimit", "uselib", "ustat",
     "vserver", "__dummy_syscall__" >>

group_privileged ==
  << "@chown", "@clock", "@module", "@raw-io", "@reboot", "@swap", "_sysctl", "acct", "bpf",
     "capset", "chroot", "fanotify_init", "mount", "nfsservctl", "open_by_handle_at",
     "pivot_root", "quotactl", "setdomainname", "setfsuid", "setfsuid32", "setgroups",
     "setgroups32", "sethostname", "setresuid", "setresuid32", "setreuid", "setreuid32",
     "setuid", "setuid32", "umount2", "vhangup" >>

group_process ==
  << "arch_prctl", "capget", "clone", "clone3", "execveat", "fork", "getrusage", "kill",
     "pidfd_open", "pidfd_send_signal", "prctl", "rt_sigqueueinfo", "rt_tgsigqueueinfo", "setns",
     "swapcontext", "tgkill", "times", "tkill", "unshare", "vfork", "wait4", "waitid", "waitpid" >>

group_raw_io ==
  << "ioperm", "iopl", "pciconfig_iobase", "pciconfig_read", "pciconfig_write",
     "s390_pci_mmio_read", "s390_pci_mmio_write", "__dummy_syscall__" >>

group_reboot ==
  << "kexec_load", "kexec_file_load", "reboot" >>

group_resources ==
  << "ioprio_set", "mbind", "migrate_pages", "move_pages", "nice", "sched_setaffinity",
     "sched_setattr", "sched_setparam", "sched_setscheduler", "set_mempolicy" >>

group_setuid ==
  << "setgid", "setgid32", "setgroups", "setgroups32", "setregid", "setregid32", "setresgid",
     "setresgid32", "setresuid", "setresuid32", "setreuid", "setreuid32", "setuid", "setuid32" >>

group_signal ==
  << "rt_sigaction", "rt_sigpending", "rt_sigprocmask", "rt_sigsuspend", "rt_sigtimedwait",
     "sigaction", "sigaltstack", "signal", "signalfd", "signalfd4", "sigpending", "sigprocmask",
     "sigsuspend" >>

group_swap ==
  << "swapon", "swapoff" >>

group_sync ==
  << "fdatasync", "fsync", "msync", "sync", "sync_file_range", "sync_file_range2", "syncfs" >>

group_system_service ==
  << "@aio", "@basic-io", "@chown", "@default", "@file-system", "@io-event", "@ipc", "@keyring",
     "@memlock", "@network-io", "@process", "@resources", "@setuid", "@signal", "@sync",
     "@timer", "brk", "capget", "capset", "copy_file_range", "fadvise64", "fadvise64_64",
     "flock", "get_mempolicy", "getcpu", "getpriority", "getrandom", "ioctl", "ioprio_get",
     "kcmp", "madvise", "mprotect", "mremap", "name_to_handle_at", "oldolduname", "olduname",
     "personality", "readahead", "readdir", "remap_file_pages", "sched_get_priority_max",
     "sched_get_priority_min", "sched_getaffinity", "sched_getattr", "sched_getparam",
     "sched_getscheduler", "sched_rr_get_interval", "sched_yield", "sendfile", "sendfile64",
     "setfsgid", "setfsgid32", "setfsuid", "setfsuid32", "setpgid", "setsid", "splice",
     "sysinfo", "tee", "umask", "uname", "userfaultfd", "vmsplice" >>

group_timer ==
  << "alarm", "getitimer", "setitimer", "timer_create", "timer_delete", "timer_getoverrun",
     "timer_gettime", "timer_settime", "timerfd_create", "timerfd_gettime", "timerfd_settime",
     "times" >>

\* sysgroups[].
sysgroups ==
   "@aio" :> group_aio @@
   "@basic-io" :> group_basic_io @@
   "@chown" :> group_chown @@
   "@clock" :> group_clock @@
   "@cpu-emulation" :> group_cpu_emulation @@
   "@debug" :> group_debug @@
   "@default" :> group_default @@
   "@default-nodebuggers" :> group_default_nodebuggers @@
   "@default-keep" :> group_default_keep @@
   "@file-system" :> group_file_system @@
   "@io-event" :> group_io_event @@
   "@ipc" :> group_ipc @@
   "@keyring" :> group_keyring @@
   "@memlock" :> group_memlock @@
   "@module" :> group_module @@
   "@mount" :> group_mount @@
   "@network-io" :> group_network_io @@
   "@obsolete" :> group_obsolete @@
   "@privileged" :> group_privileged @@
   "@process" :> group_process @@
   "@raw-io" :> group_raw_io @@
   "@reboot" :> group_reboot @@
   "@resources" :> group_resources @@
   "@setuid" :> group_setuid @@
   "@signal" :> group_signal @@
   "@swap" :> group_swap @@
   "@sync" :> group_sync @@
   "@system-service" :> group_system_service @@
   "@timer" :> group_timer

\* The entries that no #ifdef guards.
Unconditional == DOMAIN sysgroups \cup {"__dummy_syscall__"} \cup
                 { group_default_keep[i] : i \in DOMAIN group_default_keep }

\* The names of the table numbered from n on.
From(n, names) == [x \in { names[i] : i \in DOMAIN names } |-> n - 1 + CHOOSE i \in DOMAIN names : names[i] = x]

x86_64_1 ==
  From(0, << "read", "write", "open", "close", "stat", "fstat", "lstat", "poll", "lseek", "mmap",
        "mprotect", "munmap", "brk", "rt_sigaction", "rt_sigprocmask", "rt_sigreturn", "ioctl",
        "pread64", "pwrite64", "readv", "writev", "access", "pipe", "select", "sched_yield",
        "mremap", "msync", "mincore", "madvise", "shmget", "shmat", "shmctl", "dup", "dup2",
        "pause", "nanosleep", "getitimer", "alarm", "setitimer", "getpid", "sendfile", "socket",
        "connect", "accept", "sendto", "recvfrom", "sendmsg", "recvmsg", "shutdown", "bind",
        "listen", "getsockname", "getpeername", "socketpair", "setsockopt", "getsockopt",
        "clone", "fork", "vfork", "execve", "exit", "wait4", "kill", "uname", "semget", "semop",
        "semctl", "shmdt", "msgget", "msgsnd", "msgrcv", "msgctl", "fcntl", "flock", "fsync",
        "fdatasync", "truncate", "ftruncate", "getdents", "getcwd", "chdir", "fchdir", "rename",
        "mkdir", "rmdir", "creat", "link", "unlink", "symlink", "readlink", "chmod", "fchmod",
        "chown", "fchown", "lchown", "umask", "gettimeofday", "getrlimit", "getrusage",
        "sysinfo", "times", "ptrace", "getuid", "syslog", "getgid", "setuid", "setgid",
        "geteuid", "getegid", "setpgid", "getppid", "getpgrp", "setsid", "setreuid", "setregid",
        "getgroups", "setgroups", "setresuid", "getresuid", "setresgid", "getresgid", "getpgid",
        "setfsuid", "setfsgid", "getsid", "capget", "capset", "rt_sigpending", "rt_sigtimedwait",
        "rt_sigqueueinfo", "rt_sigsuspend", "sigaltstack", "utime", "mknod", "uselib",
        "personality", "ustat", "statfs", "fstatfs", "sysfs", "getpriority", "setpriority",
        "sched_setparam", "sched_getparam", "sched_setscheduler", "sched_getscheduler",
        "sched_get_priority_max", "sched_get_priority_min", "sched_rr_get_interval", "mlock" >>)

x86_64_2 ==
  From(150, << "munlock", "mlockall", "munlockall", "vhangup", "modify_ldt", "pivot_root", "_sysctl",
        "prctl", "arch_prctl", "adjtimex", "setrlimit", "chroot", "sync", "acct", "settimeofday",
        "mount", "umount2", "swapon", "swapoff", "reboot", "sethostname", "setdomainname",
        "iopl", "ioperm", "create_module", "init_module", "delete_module", "get_kernel_syms",
        "query_module", "quotactl", "nfsservctl", "getpmsg", "putpmsg", "afs_syscall", "tuxcall",
        "security", "gettid", "readahead", "setxattr", "lsetxattr", "fsetxattr", "getxattr",
        "lgetxattr", "fgetxattr", "listxattr", "llistxattr", "flistxattr", "removexattr",
        "lremovexattr", "fremovexattr", "tkill", "time", "futex", "sched_setaffinity",
        "sched_getaffinity", "set_thread_area", "io_setup", "io_destroy", "io_getevents",
        "io_submit", "io_cancel", "get_thread_area", "lookup_dcookie", "epoll_create",
        "epoll_ctl_old", "epoll_wait_old", "remap_file_pages", "getdents64", "set_tid_address",
        "restart_syscall", "semtimedop", "fadvise64", "timer_create", "timer_settime",
        "timer_gettime", "timer_getoverrun", "timer_delete", "clock_settime", "clock_gettime",
        "clock_getres", "clock_nanosleep", "exit_group", "epoll_wait", "epoll_ctl", "tgkill",
        "utimes", "vserver", "mbind", "set_mempolicy", "get_mempolicy", "mq_open", "mq_unlink",
        "mq_timedsend", "mq_timedreceive", "mq_notify", "mq_getsetattr", "kexec_load", "waitid",
        "add_key", "request_key", "keyctl", "ioprio_set", "ioprio_get", "inotify_init",
        "inotify_add_watch", "inotify_rm_watch", "migrate_pages", "openat", "mkdirat", "mknodat",
        "fchownat", "futimesat", "newfstatat", "unlinkat", "renameat", "linkat", "symlinkat",
        "readlinkat", "fchmodat", "faccessat", "pselect6", "ppoll", "unshare", "set_robust_list",
        "get_robust_list", "splice", "tee", "sync_file_range", "vmsplice", "move_pages",
        "utimensat", "epoll_pwait", "signalfd", "timerfd_create", "eventfd", "fallocate",
        "timerfd_settime", "timerfd_gettime", "accept4", "signalfd4", "eventfd2",
        "epoll_create1", "dup3", "pipe2", "inotify_init1", "preadv", "pwritev",
        "rt_tgsigqueueinfo", "perf_event_open", "recvmmsg" >>)

x86_64_3 ==
  From(300, << "fanotify_init", "fanotify_mark", "prlimit64", "name_to_handle_at", "open_by_handle_at",
        "clock_adjtime", "syncfs", "sendmmsg", "setns", "getcpu", "process_vm_readv",
        "process_vm_writev", "kcmp", "finit_module", "sched_setattr", "sched_getattr",
        "renameat2", "seccomp", "getrandom", "memfd_create", "kexec_file_load", "bpf",
        "execveat", "userfaultfd", "membarrier", "mlock2", "copy_file_range", "preadv2",
        "pwritev2", "pkey_mprotect", "pkey_alloc", "pkey_free", "statx", "io_pgetevents", "rseq" >>) @@
  From(424, << "pidfd_send_signal", "io_uring_setup", "io_uring_enter", "io_uring_register",
        "open_tree", "move_mount", "fsopen", "fsconfig", "fsmount", "fspick", "pidfd_open",
        "clone3", "close_range", "openat2", "pidfd_getfd", "faccessat2", "process_madvise" >>)

syscall_x86_64 == x86_64_1 @@ x86_64_2 @@ x86_64_3

i386_1 ==
  From(1, << "exit", "fork", "read", "write", "open", "close", "waitpid", "creat", "link", "unlink",
        "execve", "chdir", "time", "mknod", "chmod", "lchown", "break", "oldstat", "lseek",
        "getpid", "mount", "umount", "setuid", "getuid", "stime", "ptrace", "alarm", "oldfstat",
        "pause", "utime", "stty", "gtty", "access", "nice", "ftime", "sync", "kill", "rename",
        "mkdir", "rmdir", "dup", "pipe", "times", "prof", "brk", "setgid", "getgid", "signal",
        "geteuid", "getegid", "acct", "umount2", "lock", "ioctl", "fcntl", "mpx", "setpgid",
        "ulimit", "oldolduname", "umask", "chroot", "ustat", "dup2", "getppid", "getpgrp",
        "setsid", "sigaction", "sgetmask", "ssetmask", "setreuid", "setregid", "sigsuspend",
        "sigpending", "sethostname", "setrlimit", "getrlimit", "getrusage", "gettimeofday",
        "settimeofday", "getgroups", "setgroups", "select", "symlink", "oldlstat", "readlink",
        "uselib", "swapon", "reboot", "readdir", "mmap", "munmap", "truncate", "ftruncate",
        "fchmod", "fchown", "getpriority", "setpriority", "profil", "statfs", "fstatfs",
        "ioperm", "socketcall", "syslog", "setitimer", "getitimer", "stat", "lstat", "fstat",
        "olduname", "iopl", "vhangup", "idle", "vm86old", "wait4", "swapoff", "sysinfo", "ipc",
        "fsync", "sigreturn", "clone", "setdomainname", "uname", "modify_ldt", "adjtimex",
        "mprotect", "sigprocmask", "create_module", "init_module", "delete_module",
        "get_kernel_syms", "quotactl", "getpgid", "fchdir", "bdflush", "sysfs", "personality",
        "afs_syscall", "setfsuid", "setfsgid", "_llseek", "getdents", "_newselect", "flock",
        "msync", "readv", "writev", "getsid", "fdatasync", "_sysctl", "mlock" >>)

i386_2 ==
  From(151, << "munlock", "mlockall", "munlockall", "sched_setparam", "sched_getparam",
        "sched_setscheduler", "sched_getscheduler", "sched_yield", "sched_get_priority_max",
        "sched_get_priority_min", "sched_rr_get_interval", "nanosleep", "mremap", "setresuid",
        "getresuid", "vm86", "query_module", "poll", "nfsservctl", "setresgid", "getresgid",
        "prctl", "rt_sigreturn", "rt_sigaction", "rt_sigprocmask", "rt_sigpending",
        "rt_sigtimedwait", "rt_sigqueueinfo", "rt_sigsuspend", "pread64", "pwrite64", "chown",
        "getcwd", "capget", "capset", "sigaltstack", "sendfile", "getpmsg", "putpmsg", "vfork",
        "ugetrlimit", "mmap2", "truncate64", "ftruncate64", "stat64", "lstat64", "fstat64",
        "lchown32", "getuid32", "getgid32", "geteuid32", "getegid32", "setreuid32", "setregid32",
        "getgroups32", "setgroups32", "fchown32", "setresuid32", "getresuid32", "setresgid32",
        "getresgid32", "chown32", "setuid32", "setgid32", "setfsuid32", "setfsgid32",
        "pivot_root", "mincore", "madvise", "getdents64", "fcntl64" >>) @@
  From(224, << "gettid", "readahead", "setxattr", "lsetxattr", "fsetxattr", "getxattr", "lgetxattr",
        "fgetxattr", "listxattr", "llistxattr", "flistxattr", "removexattr", "lremovexattr",
        "fremovexattr", "tkill", "sendfile64", "futex", "sched_setaffinity", "sched_getaffinity",
        "set_thread_area", "get_thread_area", "io_setup", "io_destroy", "io_getevents",
        "io_submit", "io_cancel", "fadvise64" >>) @@
  From(252, << "exit_group", "lookup_dcookie", "epoll_create", "epoll_ctl", "epoll_wait",
        "remap_file_pages", "set_tid_address", "timer_create", "timer_settime", "timer_gettime",
        "timer_getoverrun", "timer_delete", "clock_settime", "clock_gettime", "clock_getres",
        "clock_nanosleep", "statfs64", "fstatfs64", "tgkill", "utimes", "fadvise64_64",
        "vserver", "mbind", "get_mempolicy", "set_mempolicy", "mq_open", "mq_unlink",
        "mq_timedsend", "mq_timedreceive", "mq_notify", "mq_getsetattr", "kexec_load", "waitid" >>) @@
  From(286, << "add_key", "request_key", "keyctl", "ioprio_set", "ioprio_get", "inotify_init",
        "inotify_add_watch", "inotify_rm_watch", "migrate_pages", "openat", "mkdirat", "mknodat",
        "fchownat", "futimesat", "fstatat64", "unlinkat", "renameat", "linkat", "symlinkat" >>)

i386_3 ==
  From(305, << "readlinkat", "fchmodat", "faccessat", "pselect6", "ppoll", "unshare", "set_robust_list",
        "get_robust_list", "splice", "sync_file_range", "tee", "vmsplice", "move_pages",
        "getcpu", "epoll_pwait", "utimensat", "signalfd", "timerfd_create", "eventfd",
        "fallocate", "timerfd_settime", "timerfd_gettime", "signalfd4", "eventfd2",
        "epoll_create1", "dup3", "pipe2", "inotify_init1", "preadv", "pwritev",
        "rt_tgsigqueueinfo", "perf_event_open", "recvmmsg", "fanotify_init", "fanotify_mark",
        "prlimit64", "name_to_handle_at", "open_by_handle_at", "clock_adjtime", "syncfs",
        "sendmmsg", "setns", "process_vm_readv", "process_vm_writev", "kcmp", "finit_module",
        "sched_setattr", "sched_getattr", "renameat2", "seccomp", "getrandom", "memfd_create",
        "bpf", "execveat", "socket", "socketpair", "bind", "connect", "listen", "accept4",
        "getsockopt", "setsockopt", "getsockname", "getpeername", "sendto", "sendmsg",
        "recvfrom", "recvmsg", "shutdown", "userfaultfd", "membarrier", "mlock2",
        "copy_file_range", "preadv2", "pwritev2", "pkey_mprotect", "pkey_alloc", "pkey_free",
        "statx", "arch_prctl", "io_pgetevents", "rseq" >>) @@
  From(393, << "semget", "semctl", "shmget", "shmctl", "shmat", "shmdt", "msgget", "msgsnd", "msgrcv",
        "msgctl", "clock_gettime64", "clock_settime64", "clock_adjtime64", "clock_getres_time64",
        "clock_nanosleep_time64", "timer_gettime64", "timer_settime64", "timerfd_gettime64",
        "timerfd_settime64", "utimensat_time64", "pselect6_time64", "ppoll_time64" >>) @@
  From(416, << "io_pgetevents_time64", "recvmmsg_time64", "mq_timedsend_time64",
        "mq_timedreceive_time64", "semtimedop_time64", "rt_sigtimedwait_time64", "futex_time64",
        "sched_rr_get_interval_time64", "pidfd_send_signal", "io_uring_setup", "io_uring_enter",
        "io_uring_register", "open_tree", "move_mount", "fsopen", "fsconfig", "fsmount",
        "fspick", "pidfd_open", "clone3", "close_range", "openat2", "pidfd_getfd", "faccessat2",
        "process_madvise" >>)

syscall_i386 == i386_1 @@ i386_2 @@ i386_3

=============================================================================
