-------------------------- MODULE MCFirejailSeccomp --------------------------
(***************************************************************************)
(* Instances of FirejailSeccomp: a table with the system calls the         *)
(* properties tell apart, and the option records of the runs.              *)
(***************************************************************************)
EXTENDS FirejailSeccomp

Probe == {"read", "open", "mmap", "mprotect", "pkey_mprotect", "shmat", "memfd_create", "socket", "clone",
          "clone3", "unshare", "setns", "execve", "execveat", "prctl", "seccomp", "ptrace", "personality",
          "chroot", "mount", "settimeofday", "init_module", "kexec_load"}

SmallTable == [x \in Probe |-> syscall_x86_64[x]]
HeaderNames == DOMAIN syscall_x86_64
SmallTable32 == [x \in (Probe \cap DOMAIN syscall_i386) \cup {"mmap2"} |-> syscall_i386[x]]

Off == [seccomp |-> FALSE, seccomp32 |-> FALSE, list |-> << >>, drop |-> << >>, keep |-> << >>,
        list32 |-> << >>, drop32 |-> << >>, keep32 |-> << >>, protocol |-> << >>, mdwx |-> FALSE,
        nsAll |-> FALSE, ns |-> {}, block |-> FALSE, action |-> "EPERM", debuggers |-> FALSE, log |-> FALSE]

Actions == {"EPERM", "ENOSYS", "KILL", "LOG"}

\* Items for lists; none excepts number 0, names a number, or gives an error
\* name to a call of @default-keep.
Items == {Item("open"), Item("mount"), Item("execve"), Item("prctl"), Item("@clock"), Item("@process"),
          Except("chroot"), Except("settimeofday"), WithErr("open", "ENOENT"), Item("nosuchcall")}
Some == {Item("mount"), Item("execve"), Item("@clock"), Except("settimeofday"), WithErr("open", "ENOENT")}
Lists == { << i >> : i \in Items } \cup { << i, j >> : i \in Some, j \in Some }
FewLists == {<< Item("open") >>, << Item("execve") >>, << Except("chroot"), Item("@clock") >>, << Item("@unknown") >>}

On == [Off EXCEPT !.seccomp = TRUE]

Plus(n) == [op |-> "+", name |-> n]
Minus(n) == [op |-> "-", name |-> n]
Only(n) == [op |-> "=", name |-> n]
ProtocolLists ==
  {<< Plus("unix"), Plus("inet") >>, << Plus("unix"), Plus("inet"), Minus("unix") >>,
   << Plus("unix"), Only("inet6"), Plus("inet6") >>, << Plus("nosuch") >>, << Plus("unix"), Minus("unix") >>,
   << Plus("unix"), Plus("inet"), Plus("inet6"), Plus("netlink"), Plus("packet"), Plus("bluetooth"),
      Plus("unix"), Plus("inet"), Plus("inet6") >>}

Scenarios ==
  { [On EXCEPT !.list = l] : l \in Lists }
  \cup { [On EXCEPT !.drop = l] : l \in Lists }
  \cup { [On EXCEPT !.keep = l] : l \in Lists }
  \cup { [On EXCEPT !.list = l, !.action = a, !.block = b, !.debuggers = d] :
           l \in FewLists \cup {<< >>}, a \in Actions, b \in BOOLEAN, d \in BOOLEAN }
  \cup { [On EXCEPT !.drop = l, !.action = a, !.block = b] : l \in FewLists, a \in Actions, b \in BOOLEAN }
  \cup { [On EXCEPT !.list = l, !.seccomp32 = TRUE, !.list32 = k, !.block = b, !.action = a] :
           l \in FewLists \cup {<< >>}, k \in FewLists, b \in BOOLEAN, a \in {"EPERM", "KILL"} }
  \cup { [On EXCEPT !.drop = l, !.seccomp32 = TRUE, !.drop32 = k] : l \in FewLists, k \in FewLists \cup {<< >>} }
  \cup { [Off EXCEPT !.seccomp32 = TRUE, !.list32 = k] : k \in FewLists }
  \cup { [o EXCEPT !.seccomp32 = TRUE, !.keep32 = << Item(x) >>] : o \in {Off, On}, x \in {"read", "open"} }
  \cup { [o EXCEPT !.protocol = p] : o \in {Off, On}, p \in ProtocolLists }
  \cup { [o EXCEPT !.mdwx = w, !.ns = n, !.nsAll = (n = AllNamespaces), !.action = a, !.log = g] :
           o \in {Off, On, [On EXCEPT !.list = << Item("execve") >>]}, w \in BOOLEAN, a \in {"EPERM", "KILL"},
           n \in {{}, {"user"}, {"net", "time"}, AllNamespaces}, g \in BOOLEAN }
=============================================================================
