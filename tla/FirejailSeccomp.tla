--------------------------- MODULE FirejailSeccomp ---------------------------
(***************************************************************************)
(* The seccomp filters of a sandbox: fseccomp builds them from the options,*)
(* fsec-optimize shortens them, sandbox() chooses which to load, the       *)
(* application process installs them just before it starts the program,    *)
(* and libpostexecseccomp installs the rest from inside the program.       *)
(*                                                                         *)
(* Modelled from fseccomp/, fsec-optimize/, firejail/seccomp.c, the filter *)
(* part of sandbox() and of join(), and libpostexecseccomp, for x86_64.    *)
(***************************************************************************)
EXTENDS FirejailBpf

CONSTANT FilterOptions   \* the option records a sandbox is started with

VARIABLES
  secPhase,   \* where the sandbox is
  so,         \* the options: lists, error action and switches
  cmds,       \* the steps of the commands still to run
  prog,       \* the program being written
  files,      \* the files of /run/firejail/mnt/seccomp
  loaded,     \* the list of loaded programs, the last one loaded first
  fileList,   \* the file names saved for a joining process
  installed,  \* the programs the kernel applies to the process at hand, in their order
  app         \* history: those of the application, once another process joins

secVars == <<secPhase, so, cmds, prog, files, loaded, fileList, installed, app>>

NoFile == << "no file" >>

\* The errors of a list: it is empty, or it names an unknown group.
BadList(list) == list = << >> \/ \E i \in DOMAIN list : list[i].name = "@unknown"

-----------------------------------------------------------------------------
(* fseccomp: a command is a list of steps that write a program piece by    *)
(* piece.                                                                  *)

filter_init(native, action) ==
  IF native THEN ValidateArch(ARCH_64) \o << Ld("nr") >> \o HANDLE_X32(action)
  ELSE ValidateArch(ARCH_32) \o << Ld("nr") >>

\* The steps: begin a program, pass over a list, pass over a list in two
\* parts, end the program and write the file.
Start(native, action) == [do |-> "start", native |-> native, action |-> action]
Pass(kind, list, native, action) ==
  [do |-> "pass", kind |-> kind, list |-> list, native |-> native, action |-> action]
Split(file, post, list, native, action) ==
  [do |-> "split", file |-> file, post |-> post, list |-> list, native |-> native, action |-> action]
Save(file, verdict) == [do |-> "save", file |-> file, verdict |-> verdict]
\* A whole command with a fixed program; fsec-optimize; seccomp_load.
Write(file, kind, arg, action) ==
  [do |-> "write", file |-> file, kind |-> kind, arg |-> arg, action |-> action]
Optimize(file, action) == [do |-> "optimize", file |-> file, action |-> action]
Load(file) == [do |-> "load", file |-> file]

DefaultGroup(debuggers) == << Item(IF debuggers THEN "@default" ELSE "@default-nodebuggers") >>
add_default_list(debuggers, native, action) == Pass("blacklist", DefaultGroup(debuggers), native, action)

seccomp_default(file, debuggers, native, action) ==
  << Start(native, action), add_default_list(debuggers, native, action), Save(file, "ALLOW") >>

DropWhole(file, post, default, list, native, action) ==
  << Start(native, action), Pass("whitelist_for_excluded", list, native, action) >> \o default \o
  << Pass("blacklist", list, native, action), Save(file, "ALLOW") >>

seccomp_drop(file, post, default, list, native, action) ==
  << Start(native, action), Pass("whitelist_for_excluded", list, native, action) >> \o default \o
  << Split(file, post, list, native, action) >>

seccomp_keep(file, list, native, action) ==
  << Start(native, action),
     Pass("blacklist_for_excluded", list, native, action),
     Pass("whitelist", << Item("@default-keep") >>, native, action),
     Pass("whitelist", list, native, action),
     Save(file, action) >>

\* memory_deny_write_execute: test an argument of one call for flags.
FlagTest(nr, flags, action) ==
  << Jeq(nr, 0, 5), Ld("flags"), And(flags), Jeq(flags, 0, 1), Ret(action), Ret("ALLOW") >>

memory_deny_write_execute(action) ==
  filter_init(TRUE, action) \o
  FlagTest(syslist["mmap"], {"W", "X"}, action) \o
  FlagTest(syslist["mprotect"], {"X"}, action) \o
  FlagTest(syslist["pkey_mprotect"], {"X"}, action) \o
  FlagTest(syslist["shmat"], {"X"}, action) \o
  << Jeq(syslist["memfd_create"], 0, 1), Ret(action), Ret("ALLOW"), Ret("ALLOW") >>

memory_deny_write_execute_32(action) ==
  filter_init(FALSE, action) \o BLACKLIST(90, action) \o
  FlagTest(192, {"W", "X"}, action) \o FlagTest(125, {"X"}, action) \o
  FlagTest(380, {"X"}, action) \o FlagTest(397, {"X"}, action) \o
  << Jeq(356, 0, 1), Ret(action), Ret("ALLOW"), Ret("ALLOW") >>

\* deny_ns and deny_ns_32: clone, clone3, unshare and setns against a mask.
NamespaceTests(clone, clone3, unshare, setns, mask, action) ==
  << Jeq(clone, 0, 4), Ld("flags"), Jset(mask \ {"time"}, 0, 1), Ret(action), Ret("ALLOW"),
     Jeq(clone3, 0, 1), Ret("ENOSYS"),
     Jeq(unshare, 0, 4), Ld("flags"), Jset(mask, 0, 1), Ret(action), Ret("ALLOW"),
     Jeq(setns, 0, 4), Ld("flags"), Jeq({}, 1, 0), Jset(mask, 0, 1), Ret(action), Ret("ALLOW"),
     Ret("ALLOW") >>

deny_ns(mask, action) ==
  filter_init(TRUE, action) \o
  NamespaceTests(syslist["clone"], syslist["clone3"], syslist["unshare"],
                 syslist["setns"], mask, action)

deny_ns_32(mask, action) ==
  filter_init(FALSE, action) \o NamespaceTests(120, 435, 310, 346, mask, action)

\* protocol_build_filter: the socket call of both architectures, then one
\* test per protocol.
protocol_build_filter(prlist, action) ==
  << Ld("arch"), Jeq(ARCH_64, 4, 0), Ld("nr") >> \o OnlyCall(359) \o << Ja(9) >> \o
  ValidateArch(ARCH_64) \o << Ld("nr") >> \o HANDLE_X32(action) \o
  OnlyCall(syslist["socket"]) \o << Ld("family") >> \o
  FlattenSeq([i \in DOMAIN prlist |-> WHITELIST(prlist[i])]) \o << Ret("ENOTSUP") >>

\* The room of the array the program is built in.
ProtocolRoom == 32

\* seccomp_secondary_32: hard coded numbers, with the names of the comments.
secondary_calls ==
  << <<21, "mount">>, <<52, "umount2">>, <<26, "ptrace">>, <<283, "kexec_load">>,
     <<341, "name_to_handle_at">>, <<342, "open_by_handle_at">>, <<127, "create_module">>,
     <<128, "init_module">>, <<350, "finit_module">>, <<129, "delete_module">>,
     <<110, "iopl">>, <<101, "ioperm">>, <<289, "ioprio_set">>, <<87, "swapon">>,
     <<115, "swapoff">>, <<103, "syslog">>, <<347, "process_vm_readv">>,
     <<348, "process_vm_writev">>, <<135, "sysfs">>, <<149, "_sysctl">>, <<124, "adjtimex">>,
     <<343, "clock_adjtime">>, <<253, "lookup_dcookie">>, <<336, "perf_event_open">>,
     <<338, "fanotify_init">>, <<349, "kcmp">>, <<286, "add_key">>, <<287, "request_key">>,
     <<288, "keyctl">>, <<86, "uselib">>, <<51, "acct">>, <<123, "modify_ldt">>,
     <<217, "pivot_root">>, <<245, "io_setup">>, <<246, "io_destroy">>,
     <<247, "io_getevents">>, <<248, "io_submit">>, <<249, "io_cancel">>,
     <<257, "remap_file_pages">>, <<274, "mbind">>, <<276, "set_mempolicy">>,
     <<294, "migrate_pages">>, <<317, "move_pages">>, <<316, "vmsplice">>, <<61, "chroot">>,
     <<88, "reboot">>, <<169, "nfsservctl">>, <<130, "get_kernel_syms">> >>

seccomp_secondary_32(action) ==
  ValidateArch(ARCH_32) \o << Ld("nr") >> \o
  FlattenSeq([i \in DOMAIN secondary_calls |-> BLACKLIST(secondary_calls[i][1], action)]) \o
  << Ret("ALLOW") >>

\* A filter that looks at the low half of the persona only.
BlockLowHalf(action) ==
  ValidateArchKill(ARCH_64, action) \o << Ld("nr") >> \o HANDLE_X32(action) \o
  << Jeq(syslist["personality"], 0, 4), Ld("persona"), Jeq("PER_LINUX", 2, 0),
     Jeq("0xffffffff", 1, 0), Ret(action), Ret("ALLOW") >>

\* seccomp_secondary_block: native calls only, and no change of the execution
\* domain.
seccomp_secondary_block(action) ==
  ValidateArchKill(ARCH_64, action) \o << Ld("nr") >> \o HANDLE_X32(action) \o
  << Jeq(syslist["personality"], 0, 6), Ld("persona"), Jeq("PER_LINUX", 1, 0),
     Jeq("0xffffffff", 0, 2), Ld("personaHigh"), Jeq("0", 1, 0), Ret(action), Ret("ALLOW") >>

\* The command line of fseccomp, for the commands that take no list of calls.
Program(kind, arg, action) ==
  CASE kind = "secondary 32" -> seccomp_secondary_32(action)
    [] kind = "secondary block" -> seccomp_secondary_block(action)
    [] kind = "memory-deny-write-execute" -> memory_deny_write_execute(action)
    [] kind = "memory-deny-write-execute.32" -> memory_deny_write_execute_32(action)
    [] kind = "restrict-namespaces" -> deny_ns(arg, action)
    [] kind = "restrict-namespaces.32" -> deny_ns_32(arg, action)
    [] kind = "protocol" -> protocol_build_filter(arg, action)

-----------------------------------------------------------------------------
(* fsec-optimize: one common end for all the lines that refuse a call.     *)

LIMIT_BLACKLISTS == 4
JumpWidth == 2^8          \* jt and jf are bytes

is_blacklist(p, i, action) ==
  i < Len(p) /\ p[i].op = "jeq" /\ p[i + 1].op = "ret" /\ p[i + 1].k = action

optimize_blacklists(p, action) ==
  LET black == { i \in DOMAIN p : is_blacklist(p, i, action) }
      kept == SelectSeq([i \in DOMAIN p |-> i], LAMBDA i : i - 1 \notin black)
      entries == Len(kept) + 1 IN
    [n \in 1..Len(kept) |->
       IF kept[n] \in black
       THEN [p[kept[n]] EXCEPT !.jt = (entries - n - 1) % JumpWidth, !.jf = 0]
       ELSE p[kept[n]]] \o << Ret(action) >>

optimize(p, action) ==
  IF Cardinality({ i \in DOMAIN p : is_blacklist(p, i, action) }) > LIMIT_BLACKLISTS
  THEN optimize_blacklists(p, action) ELSE p

-----------------------------------------------------------------------------
(* profile_list_compress: the combined lists of the options.               *)

\* An item is a name with "", "+", "-" or "=" before it.
profile_list_compress(items) ==
  FoldLeft(LAMBDA acc, it :
             CASE it.op = "-" -> SelectSeq(acc, LAMBDA x : x # it.name)
               [] it.op = "=" -> IF it.name = "" THEN << >> ELSE << it.name >>
               [] it.op \in {"", "+"} -> IF it.name = "" \/ it.name \in Range(acc) THEN acc
                                         ELSE Append(acc, it.name),
           << >>, items)

Protocols == {"unix", "inet", "inet6", "netlink", "packet", "bluetooth"}
AllNamespaces == {"cgroup", "ipc", "net", "mnt", "pid", "time", "user", "uts"}
-----------------------------------------------------------------------------
(* sandbox()                                                               *)

\* main(): is a post-exec filter needed for the lists?
check_postexec(list) ==
  list # << >> /\ syscalls_in_list(list, << Item("@default-keep") >>, TRUE).post # << >>

arg_seccomp_postexec == so.seccomp /\ (check_postexec(so.list) \/ check_postexec(so.drop))

\* The filters built with the package and copied by preproc_mount_mnt_dir,
\* made with the default error action; the .32 file of the namespaces filter
\* is built by the native command.
DEFAULT_ACTION == "EPERM"
PackageFilters(o) ==
  seccomp_default("cfg", o.debuggers, TRUE, DEFAULT_ACTION) \o << Optimize("cfg", DEFAULT_ACTION) >> \o
  (IF o.block THEN << Write("block", "secondary block", {}, DEFAULT_ACTION) >>
   ELSE << Write("cfg32", "secondary 32", {}, DEFAULT_ACTION), Optimize("cfg32", DEFAULT_ACTION) >>) \o
  (IF o.mdwx THEN << Write("mdwx", "memory-deny-write-execute", {}, DEFAULT_ACTION),
                     Write("mdwx32", "memory-deny-write-execute.32", {}, DEFAULT_ACTION) >> ELSE << >>) \o
  (IF o.ns # {} THEN << Write("ns", "restrict-namespaces", AllNamespaces, DEFAULT_ACTION),
                        Write("ns32", "restrict-namespaces", AllNamespaces, DEFAULT_ACTION) >> ELSE << >>)

EmptyFiles == {"protocol", "postexec", "postexec32"}
SeccompDir == EmptyFiles \cup {"cfg", "cfg32", "block", "mdwx", "mdwx32", "ns", "ns32"}

SecInit ==
  /\ secPhase = "idle"
  /\ so = << >>
  /\ cmds = << >>
  /\ prog = << >>
  /\ files = [f \in SeccompDir |-> IF f \in EmptyFiles THEN << >> ELSE NoFile]
  /\ loaded = << >>
  /\ fileList = << >>
  /\ installed = << >>
  /\ app = << >>

\* Options and default files.
SecBegin ==
  /\ secPhase = "idle"
  /\ \E o \in FilterOptions :
       /\ so' = [o EXCEPT !.protocol = profile_list_compress(o.protocol)]
       /\ cmds' = PackageFilters(o)
       /\ secPhase' = IF o.protocol = << >> THEN "native" ELSE "protocol"
  /\ UNCHANGED <<prog, files, loaded, fileList, installed, app>>

\* One part of sandbox() leaves its commands to the steps below.
Enqueue(steps, next) ==
  /\ cmds = << >>
  /\ cmds' = steps
  /\ secPhase' = next
  /\ UNCHANGED <<so, prog, files, loaded, fileList, installed, app>>

\* A command fails: the sandbox exits.
Refuse ==
  /\ secPhase' = "refused"
  /\ cmds' = << >>
  /\ UNCHANGED <<so, prog, files, loaded, fileList, installed, app>>

ProtocolFilter ==
  /\ secPhase = "protocol" /\ cmds = << >>
  /\ IF so.protocol = << >> \/ ~(Range(so.protocol) \subseteq Protocols) THEN Refuse
     ELSE Enqueue(<< Write("protocol", "protocol", so.protocol, so.action), Load("protocol") >>, "native")

FilterFile(native) == IF native THEN "cfg" ELSE "cfg32"
PostexecFile(native) == IF native THEN "postexec" ELSE "postexec32"
SecondaryFile == IF so.block THEN "block" ELSE "cfg32"
\* A build that loads the file before it is optimized.
LoadedFirst(native) == << Load(FilterFile(native)), Optimize(FilterFile(native), so.action) >>
Built(native) == << Optimize(FilterFile(native), so.action), Load(FilterFile(native)) >>

\* seccomp_filter_drop: the default filters as they are; or the default list
\* and more calls, or another error action, for which the secondary filter is
\* built again; or only the calls of the drop list.
seccomp_filter_drop(native) ==
  LET list == IF native THEN so.list ELSE so.list32
      drop == IF native THEN so.drop ELSE so.drop32
      secondary == Write(SecondaryFile, IF so.block THEN "secondary block" ELSE "secondary 32", {}, so.action)
      default == << add_default_list(so.debuggers, native, so.action) >>
      file == FilterFile(native)
      post == PostexecFile(native) IN
    IF so.drop # << >>
    THEN (IF so.block THEN << Load("block") >> ELSE << >>) \o
         seccomp_drop(file, post, << >>, drop, native, so.action) \o Built(native)
    ELSE IF so.list = << >> /\ so.action = DEFAULT_ACTION
    THEN << Load(SecondaryFile), Load(file) >>
    ELSE (IF so.action # DEFAULT_ACTION THEN << secondary >> ELSE << >>) \o << Load(SecondaryFile) >> \o
         (IF list = << >> THEN seccomp_default(file, so.debuggers, native, so.action)
          ELSE seccomp_drop(file, post, default, list, native, so.action)) \o Built(native)

\* seccomp_filter_keep; the native command builds both files.
seccomp_filter_keep(native) ==
  (IF so.block THEN << Load("block") >> ELSE << >>) \o
  seccomp_keep(FilterFile(native), IF native THEN so.keep ELSE so.keep32, TRUE, so.action) \o
  << Load(FilterFile(native)) >>

\* if a keep list is available, disregard the drop list
SeccompFilter ==
  /\ secPhase \in {"native", "second"}
  /\ LET native == secPhase = "native"
         wanted == IF native THEN so.seccomp ELSE so.seccomp32
         keep == IF native THEN so.keep ELSE so.keep32 IN
       Enqueue(IF ~wanted THEN << >>
               ELSE IF keep # << >> THEN seccomp_filter_keep(native) ELSE seccomp_filter_drop(native),
               IF native THEN "second" ELSE "mdwx")

\* --memory-deny-write-execute
MdwxFilter ==
  /\ secPhase = "mdwx"
  /\ Enqueue(IF ~so.mdwx THEN << >>
             ELSE (IF so.action = DEFAULT_ACTION THEN << >>
                   ELSE << Write("mdwx", "memory-deny-write-execute", {}, so.action),
                           Write("mdwx32", "memory-deny-write-execute.32", {}, so.action) >>) \o
                  << Load("mdwx"), Load("mdwx32") >>,
             "namespaces")

\* --restrict-namespaces, with a list or without
NamespacesFilter ==
  /\ secPhase = "namespaces"
  /\ Enqueue(IF so.ns = {} THEN << >>
             ELSE (IF so.nsAll /\ so.action = DEFAULT_ACTION THEN << >>
                   ELSE << Write("ns", "restrict-namespaces", so.ns, so.action),
                           Write("ns32", "restrict-namespaces.32", so.ns, so.action) >>) \o
                  << Load("ns"), Load("ns32") >>,
             "install")

-----------------------------------------------------------------------------
(* The steps of fseccomp, fsec-optimize and seccomp_load.                  *)

Step1(d) == cmds # << >> /\ Head(cmds).do = d
Done == cmds' = Tail(cmds) /\ UNCHANGED <<secPhase, so, installed, app>>

FseccompStart ==
  /\ Step1("start")
  /\ prog' = filter_init(Head(cmds).native, Head(cmds).action)
  /\ Done /\ UNCHANGED <<files, loaded, fileList>>

FseccompPass ==
  /\ Step1("pass")
  /\ LET c == Head(cmds) IN
       IF BadList(c.list) THEN Refuse
       ELSE /\ prog' = prog \o Emit(syscall_check_list(c.list, c.native), c.kind, c.action)
            /\ Done /\ UNCHANGED <<files, loaded, fileList>>

FseccompSplit ==
  /\ Step1("split")
  /\ LET c == Head(cmds)
         parts == syscalls_in_list(c.list, << Item("@default-keep") >>, c.native)
         Black(list) == IF list = << >> THEN << >> ELSE << Pass("blacklist", list, c.native, c.action) >> IN
       cmds' = Black(parts.pre) \o << Save(c.file, "ALLOW") >> \o
               (IF parts.post = << >> THEN << >>
                ELSE << Start(c.native, c.action) >> \o Black(parts.post) \o << Save(c.post, "ALLOW") >>) \o
               Tail(cmds)
  /\ UNCHANGED <<secPhase, so, prog, files, loaded, fileList, installed, app>>

FseccompSave ==
  /\ Step1("save")
  /\ files' = [files EXCEPT ![Head(cmds).file] = Append(prog, Ret(Head(cmds).verdict))]
  /\ prog' = << >>
  /\ Done /\ UNCHANGED <<loaded, fileList>>

FseccompWrite ==
  /\ Step1("write")
  /\ LET c == Head(cmds) IN files' = [files EXCEPT ![c.file] = Program(c.kind, c.arg, c.action)]
  /\ Done /\ UNCHANGED <<prog, loaded, fileList>>

FsecOptimize ==
  /\ Step1("optimize")
  /\ LET c == Head(cmds) IN files' = [files EXCEPT ![c.file] = optimize(files[c.file], c.action)]
  /\ Done /\ UNCHANGED <<prog, loaded, fileList>>

\* seccomp_load maps the file: the length is the one of now, the content the
\* one of the moment the kernel reads it.  A file that is missing ends the
\* sandbox.
Mapping(file) == [file |-> file, len |-> Len(files[file])]

seccomp_load ==
  /\ Step1("load")
  /\ LET f == Head(cmds).file IN
       IF files[f] = NoFile THEN Refuse
       ELSE /\ loaded' = << Mapping(f) >> \o loaded
            /\ fileList' = Append(fileList, f)
            /\ Done /\ UNCHANGED <<prog, files>>

-----------------------------------------------------------------------------
(* start_application(), the program, and a process that joins.             *)

Plain(arch, nr) ==
  [arch |-> arch, nr |-> nr, flags |-> {}, family |-> "unix", persona |-> "PER_LINUX", personaHigh |-> "0"]

Native(name) == Plain(ARCH_64, syslist[name])

\* External: what the kernel finds in the mapping.  A program must end in a
\* return and every jump must stay inside.
Mapped(l) ==
  IF Len(files[l.file]) >= l.len THEN SubSeq(files[l.file], 1, l.len) ELSE << >>

Acceptable(p) ==
  /\ p # << >>
  /\ p[Len(p)].op = "ret"
  /\ \A i \in DOMAIN p :
       /\ p[i].op \in {"jeq", "jge", "jset"} => i + 1 + p[i].jt <= Len(p) /\ i + 1 + p[i].jf <= Len(p)
       /\ p[i].op = "ja" => i + 1 + p[i].k <= Len(p)

\* seccomp_install_filters: one filter after the other, each installation a
\* system call under the filters installed before; an error is a warning.
InstallFilter ==
  /\ secPhase \in {"install", "join"} /\ cmds = << >> /\ loaded # << >>
  /\ LET p == Mapped(Head(loaded))
         v == Verdict(installed, Native(IF so.log THEN "seccomp" ELSE "prctl")) IN
       /\ secPhase' = IF v = "KILL" THEN "failed" ELSE secPhase
       /\ installed' = IF Passes(v) /\ Acceptable(p) THEN Append(installed, p) ELSE installed
  /\ loaded' = Tail(loaded)
  /\ UNCHANGED <<so, cmds, prog, files, fileList, app>>

\* execvp of the program.
StartProgram ==
  /\ secPhase \in {"install", "join"} /\ cmds = << >> /\ loaded = << >>
  /\ secPhase' = IF ~Passes(Verdict(installed, Native("execve"))) THEN "failed"
                 ELSE IF secPhase = "install" THEN "exec" ELSE "join exec"
  /\ UNCHANGED <<so, cmds, prog, files, loaded, fileList, installed, app>>

\* libpostexecseccomp: load_seccomp, a constructor of the program.
PostexecInstall ==
  /\ secPhase \in {"exec", "join exec"}
  /\ LET p == files["postexec"]
         v == Verdict(installed, Native("seccomp")) IN
       installed' = IF arg_seccomp_postexec /\ p # << >> /\ Passes(v) /\ Acceptable(p)
                    THEN Append(installed, p) ELSE installed
  /\ secPhase' = IF secPhase = "exec" THEN "running" ELSE "joined"
  /\ UNCHANGED <<so, cmds, prog, files, loaded, fileList, app>>

\* join(): seccomp_load_file_list, in a new process.
JoinSandbox ==
  /\ secPhase = "running"
  /\ secPhase' = "join"
  /\ loaded' = Reverse([i \in DOMAIN fileList |-> Mapping(fileList[i])])
  /\ installed' = << >>
  /\ app' = installed
  /\ UNCHANGED <<so, cmds, prog, files, fileList>>

SecNext ==
  \/ SecBegin \/ ProtocolFilter \/ SeccompFilter \/ MdwxFilter \/ NamespacesFilter
  \/ FseccompStart \/ FseccompPass \/ FseccompSplit \/ FseccompSave \/ FseccompWrite
  \/ FsecOptimize \/ seccomp_load \/ InstallFilter \/ StartProgram \/ PostexecInstall \/ JoinSandbox

SecSpec == SecInit /\ [][SecNext]_secVars

-----------------------------------------------------------------------------
(* Properties.                                                             *)

Running == secPhase \in {"running", "joined"}

\* The names a list stands for, with the groups it names.
RECURSIVE Members(_)
Members(names) ==
  LET groups == names \cap DOMAIN sysgroups IN
    IF groups = {} THEN names
    ELSE Members((names \ groups) \cup UNION { Range(sysgroups[g]) : g \in groups })

Listed(list) == Members({ list[i].name : i \in { j \in DOMAIN list : ~list[j].neg } })
Excepted(list) == { list[i].name : i \in { j \in DOMAIN list : list[j].neg } }
WithError(list) == { list[i].name : i \in { j \in DOMAIN list : list[j].err # "" } }
DefaultList == Members({ IF so.debuggers THEN "@default" ELSE "@default-nodebuggers" })

NativeVerdict(x) == Verdict(installed, Native(x))

\* With a drop list the program can make exactly the system calls that are
\* not on it: the calls of the list, or of the default list and --seccomp=,
\* are refused, those firejail needs for its own exec included, each with
\* the error number the list gives, and exceptions and all other calls pass
\* (seccomp_filter_drop, seccomp_drop, libpostexecseccomp).
DropListHolds ==
  Running /\ so.seccomp /\ so.keep = << >> =>
    LET used == IF so.drop # << >> THEN so.drop ELSE so.list
        black == Listed(used) \cup (IF so.drop # << >> THEN {} ELSE DefaultList)
        alone == ~so.mdwx /\ so.ns = {} /\ so.protocol = << >> /\ so.keep32 = << >> IN
      /\ \A x \in DOMAIN syslist :
           IF x \in black \ Excepted(used) THEN NativeVerdict(x) # "ALLOW"
           ELSE alone => NativeVerdict(x) = "ALLOW"
      /\ \A i \in DOMAIN used : used[i].err \in Errnos => NativeVerdict(used[i].name) = used[i].err

\* With a keep list the program can make exactly the system calls of the list
\* and those firejail needs, less the exceptions and the calls the list gives
\* an error number (seccomp_keep).
KeepListHolds ==
  Running /\ so.seccomp /\ so.keep # << >> =>
    \A x \in DOMAIN syslist :
      (NativeVerdict(x) = "ALLOW") =
      (x \in (Listed(so.keep) \cup Members({"@default-keep"})) \ (Excepted(so.keep) \cup WithError(so.keep)))

\* The filters never stop firejail from installing the next one and from
\* starting the program (the pre-exec part, "these syscalls are used by
\* firejail after the seccomp filter is initialized").
LauncherStarts == secPhase # "failed"

\* Every filter file that was loaded is in force when the program runs, with
\* the content it has at the end, and so is the post-exec file: no filter is
\* lost to the order of installation or to a file built again after it was
\* mapped (seccomp_load, seccomp_install_filters).
AllInstalled ==
  Running =>
    /\ \A i \in DOMAIN fileList : files[fileList[i]] \in Range(installed)
    /\ arg_seccomp_postexec /\ files["postexec"] # << >> => files["postexec"] \in Range(installed)

\* System calls of a 32 bit or x32 program are refused under
\* --seccomp.block-secondary, with any change of the execution domain; with
\* the default filters the listed i386 calls are (seccomp_secondary_block,
\* seccomp_secondary_32, whose numbers are those of the names beside them).
SecondaryHolds ==
  Running /\ so.seccomp =>
    /\ so.block =>
         /\ \A x \in DOMAIN syslist32 : Verdict(installed, Plain(ARCH_32, syslist32[x])) # "ALLOW"
         /\ \A x \in DOMAIN syslist : Verdict(installed, Plain(ARCH_64, X32_SYSCALL_BIT + syslist[x])) # "ALLOW"
         /\ Verdict(installed, [Native("personality") EXCEPT !.persona = "other"]) # "ALLOW"
         /\ Verdict(installed, [Native("personality") EXCEPT !.personaHigh = "1"]) # "ALLOW"
    /\ ~so.block /\ ~so.seccomp32 /\ so.keep = << >> /\ so.drop = << >> =>
         \A i \in DOMAIN secondary_calls :
           Verdict(installed, Plain(ARCH_32, syscall_i386[secondary_calls[i][2]])) # "ALLOW"

\* Under --memory-deny-write-execute no native or i386 call makes memory that
\* is both writable and executable (memory_deny_write_execute).
MdwxHolds ==
  Running /\ so.mdwx =>
    \A other \in SUBSET {"R"} :
      /\ Verdict(installed, [Native("mmap") EXCEPT !.flags = {"W", "X"} \cup other]) # "ALLOW"
      /\ \A x \in {"mprotect", "pkey_mprotect", "shmat"} :
           Verdict(installed, [Native(x) EXCEPT !.flags = {"X"} \cup other]) # "ALLOW"
      /\ \A x \in {"mprotect", "pkey_mprotect", "shmat"} :
           Verdict(installed, [Plain(ARCH_32, syscall_i386[x]) EXCEPT !.flags = {"X"} \cup other]) # "ALLOW"
      /\ Verdict(installed, [Plain(ARCH_32, syslist32["mmap2"]) EXCEPT !.flags = {"W", "X"} \cup other]) # "ALLOW"
      /\ NativeVerdict("memfd_create") # "ALLOW"

\* Under --restrict-namespaces no call enters or makes a namespace of the
\* list, and setns without a type is refused too; for i386 calls when the
\* filter is built at run time (deny_ns, deny_ns_32).
NamespacesHold ==
  Running /\ so.ns # {} =>
    \A t \in so.ns : \A other \in SUBSET {"fork"} :
      /\ t # "time" => Verdict(installed, [Native("clone") EXCEPT !.flags = {t} \cup other]) # "ALLOW"
      /\ Verdict(installed, [Native("unshare") EXCEPT !.flags = {t} \cup other]) # "ALLOW"
      /\ \A f \in {{}, {t}} : Verdict(installed, [Native("setns") EXCEPT !.flags = f]) # "ALLOW"
      /\ NativeVerdict("clone3") # "ALLOW"
      /\ ~(so.nsAll /\ so.action = "EPERM") =>
           Verdict(installed, [Plain(ARCH_32, syslist32["unshare"]) EXCEPT !.flags = {t} \cup other]) # "ALLOW"

\* A socket can be made for the protocols of the combined list and for no
\* other, natively and for i386, and the program fits the array it is built
\* in (protocol_build_filter, profile_list_compress).
ProtocolHolds ==
  Running /\ so.protocol # << >> =>
    /\ Len(files["protocol"]) <= ProtocolRoom
    /\ \A f \in Protocols : f \notin Range(so.protocol) =>
         /\ Verdict(installed, [Native("socket") EXCEPT !.family = f]) # "ALLOW"
         /\ Verdict(installed, [Plain(ARCH_32, syslist32["socket"]) EXCEPT !.family = f]) # "ALLOW"
    /\ \A f \in Range(so.protocol) :
         Bpf(files["protocol"], [Native("socket") EXCEPT !.family = f]) = "ALLOW"

\* The filters in force together refuse what the options ask to refuse, for
\* every system call of the tables, natively and for 32 bit programs.
FiltersHold ==
  /\ DropListHolds /\ KeepListHolds /\ SecondaryHolds
  /\ MdwxHolds /\ NamespacesHold /\ ProtocolHolds

\* A process that joins the sandbox runs under the filters of the application
\* (seccomp_save_file_list, seccomp_load_file_list).
JoinSame ==
  secPhase = "joined" =>
    /\ \A x \in DOMAIN syslist : NativeVerdict(x) = Verdict(app, Native(x))
    /\ \A x \in DOMAIN syslist32 :
         Verdict(installed, Plain(ARCH_32, syslist32[x])) = Verdict(app, Plain(ARCH_32, syslist32[x]))

\* Every filter is in force, for the application and for whoever joins it.
FiltersInForce == AllInstalled /\ JoinSame
=============================================================================
