----------------------------- MODULE FirejailFs -----------------------------
(***************************************************************************)
(* The file system a sandbox is given (sandbox.c 871-1117): the basic      *)
(* read-only tree, the private directories, the whitelist and blacklist    *)
(* passes over the profile, and the devices that are switched off, in the  *)
(* order in which sandbox() runs them inside the new mount namespace.      *)
(*                                                                         *)
(* A scenario is one start of a sandbox by an ordinary user: the options   *)
(* in opt and the profile lines in prof, [op, path] each.  A step of       *)
(* sandbox() puts the operations it asks for in todo, and each operation   *)
(* is an action; a pass over the profile is one action per line.           *)
(***************************************************************************)
EXTENDS FirejailMounts

CONSTANTS
  Scenarios,      \* the sandbox starts considered: [opt, prof] records
  Unreadable,     \* paths realpath() cannot resolve for lack of permission (FUSE)
  TOP_MAX         \* the number of top level directories a whitelist can have

VARIABLES
  fsPhase,        \* the step of sandbox() that comes next
  opt,            \* the options of the sandbox
  prof,           \* cfg.profile
  ns,             \* the mount namespace
  todo,           \* the operations the current step still has to do
  fd,             \* the descriptor a step holds while it masks a directory
  entry,          \* the profile line the pass has reached
  topdirs,        \* the whitelist's top level directories, [path, fd] each
  wparam,         \* what the first whitelist pass found for each line
  nowhitelist,    \* paths collected from nowhitelist lines
  noblacklist     \* patterns collected from noblacklist lines

profileVars == <<entry, topdirs, wparam, nowhitelist, noblacklist>>
fsVars == <<fsPhase, opt, prof, ns, todo, fd, profileVars>>

homedir == <<"home", "u">>
runuser == <<"run", "user", "1000">>
RUN_FIREJAIL_DIR == <<"run", "firejail">>
RUN_MNT_DIR == <<"run", "firejail", "mnt">>
RunDir(name) == Append(RUN_MNT_DIR, name)
Xauthority == Append(homedir, ".Xauthority")
JackSocket == <<"dev", "shm", "jack">>
PulseConfig == homedir \o <<".config", "pulse">>
PulseSockets == {Append(runuser, "pulse"), <<"tmp", "pulse-1">>}
Dev(name) == <<"dev", name>>
Macro == <<"${MACRO}">>

Line(op, path) == [op |-> op, path |-> path]
NoMatch == [top |-> 0, file |-> Absent, link |-> Absent]

(***************************************************************************)
(* Operations, as entries of todo: what to do, on which path, with what.   *)
(***************************************************************************)
Do(what, path, arg) == [do |-> what, path |-> path, arg |-> arg]

Remount(path, op) == Do("remount", path, op)
Tmpfs(path, flags) == Do("tmpfs", path, flags)
CheckedTmpfs(path) == Do("fs_tmpfs", path, {})
Mkdir(path) == Do("node", path, Directory(Blank))
Mkfile(path, of) == Do("node", path, RegularFile(of))
Bind(from, path) == Do("bind", path, from)
BindChecked(from, path) == Do("bind_checked", path, from)
Copy(from, path) == Do("copy", path, from)
Blacklist(path) == Do("blacklist", path, <<>>)
DisableFileOrDir(path) == Do("disable", path, <<>>)
WhitelistFile(top, path) == Do("whitelist", path, top)

If(cond, ops) == IF cond THEN ops ELSE << >>

\* Opens dir, masks its parent and mounts dir again from the descriptor.
KeepUnderTmpfs(parent, dir) ==
  << Do("open", dir, <<>>), Tmpfs(parent, {}), Mkdir(dir), Do("bind_fd", dir, <<>>) >>

\* The first operation of todo is what.
Doing(what) == todo # << >> /\ ns.ok /\ Head(todo).do = what
Path == Head(todo).path
Arg == Head(todo).arg

Done(n) ==
  /\ ns' = n
  /\ todo' = Tail(todo)
  /\ UNCHANGED <<fsPhase, opt, prof, fd, profileVars>>

\* The operation turns into others.
Becomes(ops) ==
  /\ todo' = ops \o Tail(todo)
  /\ UNCHANGED <<fsPhase, opt, prof, ns, fd, profileVars>>

\* Mutant of LandedOn: takes no mount copied along into account.
LandedExactly(n, path) == [n EXCEPT !.ok = get_last_mount(n) = path]

\* The check that the last mount landed on path or below it.
LandedOn(n, path) == [n EXCEPT !.ok = Below(get_last_mount(n), path)]

DoTmpfs == Doing("tmpfs") /\ Done(MountTmpfs(ns, Path, Arg))

DoOpen ==
  /\ Doing("open")
  /\ fd' = Open(ns, Path)
  /\ todo' = Tail(todo)
  /\ UNCHANGED <<fsPhase, opt, prof, ns, profileVars>>

DoBindFd == Doing("bind_fd") /\ Done(bind_mount_by_fd(ns, fd, Open(ns, Path)))

DoNode == Doing("node") /\ Done(MakeNode(ns, Path, Arg))

DoBind == Doing("bind") /\ Done(bind_mount_by_fd(ns, Open(ns, Arg), Open(ns, Path)))

DoBindChecked ==
  /\ Doing("bind_checked")
  /\ Done(LandedOn(bind_mount_by_fd(ns, Open(ns, Arg), Open(ns, Path)), Path))

DoUmount == Doing("umount") /\ Done(Umount(ns, Path))

\* A generated file mounted over a file of /etc.
DoInstall == Doing("install") /\ Done(bind_mount_path_to_fd(ns, Made, Open(ns, Path)))

\* Copies what is visible below a directory, as fcopy does.
DoCopy ==
  /\ Doing("copy")
  /\ LET found == SetToSortSeq({p \in DOMAIN DiskNodes : Below(p, Arg) /\ Exists(ns, p)},
                               LAMBDA p, q : Len(p) < Len(q))
     IN  Becomes([k \in 1..Len(found) |->
                    Do("node", Path \o SubSeq(found[k], Len(Arg) + 1, Len(found[k])),
                       [NodeAt(ns, Open(ns, found[k])) EXCEPT !.of = Seen(ns, found[k])])])

\* Masks a path if it exists.
disable_file_or_dir ==
  /\ Doing("disable")
  /\ Done(IF Exists(ns, Path) THEN bind_mount_path_to_fd(ns, RoDir, Open(ns, Path)) ELSE ns)

(***************************************************************************)
(* Remounts, masks and temporary file systems (fs.c).                      *)
(***************************************************************************)
\* st_uid of a visible node is the user's.
OwnedByUser(path) ==
  /\ Seen(ns, path) # Hidden
  /\ \E d \in {homedir, runuser, <<"tmp", "f">>} : Below(path, d)

\* A tmpfs on an existing directory; it keeps the mount's flags except ro.
fs_tmpfs ==
  /\ Doing("fs_tmpfs")
  /\ LET new == MountTmpfs(ns, Path, FlagsAt(ns, Path) \ {"ro"})
     IN  Done([new EXCEPT !.ok = get_last_mount(new) = Path])

RemountFlags(op, flags) ==
  CASE op = "read-only" -> flags \cup {"ro"}
    [] op = "noexec" -> flags \cup {"noexec"}
    [] op \in {"read-write", "rdwr_nocheck"} -> flags \ {"ro"}

\* mount --bind path path, then the new flags on that mount alone.
fs_remount_simple ==
  /\ Doing("remount_simple")
  /\ LET place == Open(ns, Path)
         old   == FlagsAt(ns, Path)
         flags == RemountFlags(Arg, old)
         bound == bind_mount_by_fd(ns, place, place)
     IN  Done(IF \/ place = NoPlace
                 \/ flags = old
                 \/ Arg = "read-write" /\ ~OwnedByUser(Path)
              THEN ns
              ELSE LandedOn([bound EXCEPT !.mnt[Len(ns.mnt) + 1].flags = flags], Path))

\* The directory and every mount inside it.
fs_remount_rec(path, op) ==
  LET dirs == IF IsDir(ns, path) THEN build_mount_array(ns, Open(ns, path)[1], path) ELSE <<path>>
  IN  [k \in 1..Len(dirs) |-> Do("remount_simple", dirs[k], op)]

fs_remount ==
  /\ Doing("remount")
  /\ LET real == RealPath(ns, Path)
     IN  Becomes(If(real # Absent, fs_remount_rec(real, Arg)))

\* One blacklist, remount or tmpfs operation on one path of the profile.
disable_file ==
  /\ Doing("blacklist")
  /\ Done(IF RealPath(ns, Path) = Absent THEN ns
          ELSE bind_mount_path_to_fd(ns, RoDir, Open(ns, RealPath(ns, Path))))

DisableOther(op) ==
  /\ Doing(op)
  /\ LET real == RealPath(ns, Path)
     IN  Becomes(CASE real = Absent -> << >>
                   [] real # Absent /\ Path \in Unreadable -> << Blacklist(Path) >>
                   [] real # Absent /\ Path \notin Unreadable /\ op # "tmpfs_line" ->
                        fs_remount_rec(real, op)
                   [] real # Absent /\ Path \notin Unreadable /\ op = "tmpfs_line" ->
                        If(IsDir(ns, real) /\ OwnedByUser(real) /\ StrictlyBelow(real, homedir),
                           << CheckedTmpfs(real) >>))

\* A name that ends in "*" stands for the entries of its directory.
Glob(path) ==
  IF Last(path) = "*"
  THEN {p \in DOMAIN DiskNodes : Len(p) = Len(path) /\ Front(p) = Front(path) /\ Exists(ns, p)}
  ELSE {path}

\* /var/log becomes a tmpfs with the old directories, empty.
fs_var_log ==
  /\ Doing("var_log")
  /\ LET dirs == {p \in DOMAIN DiskNodes : StrictlyBelow(p, Path) /\ IsDir(ns, p)}
     IN  Becomes(<<Tmpfs(Path, {"noexec"})>> \o SetToSeq({Mkdir(p) : p \in dirs}))

(***************************************************************************)
(* What the steps of sandbox() ask for.                                    *)
(***************************************************************************)
fs_var(o) ==
  If(~o.keepvartmp, << Tmpfs(<<"var", "tmp">>, {"noexec"}) >>)
  \o << IF o.writablelog THEN Remount(<<"var", "log">>, "rdwr_nocheck")
        ELSE Do("var_log", <<"var", "log">>, <<>>) >>

sanitize_home == KeepUnderTmpfs(<<"home">>, homedir)
sanitize_run == KeepUnderTmpfs(<<"run", "user">>, runuser)
sanitize_passwd == << Do("install", <<"etc", "passwd">>, <<>>) >>

restrict_users(o) == If(~o.allusers, sanitize_home \o sanitize_run \o sanitize_passwd)

\* The user's firejail profiles and the run-time information of firejail.
disable_config ==
  << Blacklist(homedir \o <<".config", "firejail">>), Blacklist(Append(RUN_FIREJAIL_DIR, "name")) >>

\* The basic read-only file system.
fs_basic_fs(o) ==
  If(~o.writableetc, << Remount(<<"etc">>, "read-only"), Remount(<<"etc">>, "noexec") >>)
  \o If(~o.writablevar, << Remount(<<"var">>, "read-only"), Remount(<<"var">>, "noexec") >>)
  \o << Remount(<<"usr">>, "read-only") >>
  \o fs_var(o) \o restrict_users(o) \o disable_config

\* skel(), and copy_xauthority() of what store_xauthority() saved before.
FurnishHome ==
  << Mkfile(Append(homedir, ".bashrc"), <<"skel">>) >>
  \o If(Exists(ns, Xauthority), << Mkfile(Xauthority, Seen(ns, Xauthority)) >>)

MaskRoot == Tmpfs(<<"root">>, {"noexec"})

\* --private, and the whitelist's treatment of the home directory.
fs_private(o) ==
  << MaskRoot >>
  \o (IF o.allusers THEN << CheckedTmpfs(homedir) >>
      ELSE << Tmpfs(<<"home">>, {"noexec"}), Mkdir(homedir) >>)
  \o FurnishHome

\* --private=directory
fs_private_homedir(dir) == << BindChecked(dir, homedir), MaskRoot >> \o FurnishHome

\* --private-home=list: copied first, then mounted, then the copy is masked.
fs_private_home_list(keep) ==
  LET dir == RunDir("home")
  IN  << Mkdir(dir), Copy(keep, Append(dir, Last(keep))), BindChecked(dir, homedir), MaskRoot,
         Tmpfs(dir, {}) >> \o FurnishHome

\* --private-home accepts only the entries of the home directory itself.
ValidHomeItem(path) ==
  Exists(ns, path) /\ StrictlyBelow(path, homedir) /\ Len(path) = Len(homedir) + 1

\* A private directory made of copies.
fs_private_dir_copy(dir, run, keep) ==
  << Mkdir(run) >>
  \o [k \in 1..Len(keep) |-> Copy(Append(dir, keep[k]), Append(run, keep[k]))]

fs_private_dir_mount(dir, run) == << Bind(run, dir), Tmpfs(run, {}) >>

InstallPrivateEtc(keep) ==
  fs_private_dir_copy(<<"etc">>, RunDir("etc"), keep)
  \o << Do("umount", <<"etc", "passwd">>, <<>>) >>
  \o fs_private_dir_mount(<<"etc">>, RunDir("etc"))

\* --private-bin: the first directory of the search path that has the program.
BinPaths == << <<"sbin">>, <<"usr", "bin">> >>

check_dir_or_file(name) ==
  LET dirs == SelectSeq(BinPaths, LAMBDA d : RealPath(ns, Append(d, name)) # Absent)
  IN  IF dirs = << >> THEN Absent ELSE Append(Head(dirs), name)

valid_full_path_file(path) == \E k \in 1..Len(BinPaths) : StrictlyBelow(path, BinPaths[k])

\* A program that is a link is copied with the program it points to.
DuplicateProgram(name) ==
  LET full == check_dir_or_file(name)
      real == RealPath(ns, full)
  IN  If(full # Absent,
         If(real # full /\ valid_full_path_file(real), << Copy(real, Append(RunDir("bin"), Last(real))) >>)
         \o << Copy(full, Append(RunDir("bin"), name)) >>)

fs_private_bin_list(keep) ==
  << Mkdir(RunDir("bin")) >> \o FlattenSeq([k \in 1..Len(keep) |-> DuplicateProgram(keep[k])])
  \o [k \in 1..Len(BinPaths) |-> Bind(RunDir("bin"), BinPaths[k])]

\* The switches of the subsystems: a device stays in the new /dev unless its
\* subsystem is off; ntsync has to be asked for.
KeptDevices(o) ==
  {d \in {"snd", "video0", "ntsync"} :
     CASE d = "snd" -> ~o.nosound
       [] d = "video0" -> ~o.novideo
       [] d = "ntsync" -> o.keepntsync}

deventry_mount(o) ==
  FlattenSeq(SetToSeq({ << Do("node", Dev(d), RegularFile(Blank)), Bind(Append(RunDir("dev"), d), Dev(d)) >> :
                          d \in {e \in KeptDevices(o) : Exists(ns, Dev(e))} }))

\* The old /dev/shm is brought forward for a jack server, or on request.
process_dev_shm(o) ==
  << Mkdir(Dev("shm")) >>
  \o If(o.keepshm \/ Exists(ns, JackSocket), << Bind(Append(RunDir("dev"), "shm"), Dev("shm")) >>)

\* Mutant of fs_private_dev: leaves the copy of the old /dev in place.
fs_private_dev_unmasked(o) ==
  << Mkdir(RunDir("dev")), Bind(<<"dev">>, RunDir("dev")), Tmpfs(<<"dev">>, {}) >>
  \o deventry_mount(o) \o process_dev_shm(o)

\* /dev is moved aside, replaced by a tmpfs, refilled from the old one, and
\* the old one is masked.
fs_private_dev(o) ==
  << Mkdir(RunDir("dev")), Bind(<<"dev">>, RunDir("dev")), Tmpfs(<<"dev">>, {}) >>
  \o deventry_mount(o) \o process_dev_shm(o) \o << DisableFileOrDir(RunDir("dev")) >>

\* The user's pulse configuration is replaced, and keeps its read-only flag.
pulseaudio_init ==
  << Mkdir(Front(PulseConfig)), Mkdir(PulseConfig),
     Do("tmpfs_flags", PulseConfig, {"noexec"}) >>

DoTmpfsFlags ==
  /\ Doing("tmpfs_flags")
  /\ Done(IF Exists(ns, Path) THEN MountTmpfs(ns, Path, FlagsAt(ns, Path) \cup Arg) ELSE ns)

DisableAll(paths) == [k \in 1..Len(paths) |-> DisableFileOrDir(paths[k])]

\* nosound: pulseaudio, pipewire, /dev/snd and the jack sockets.
SetSound(o) ==
  IF o.nosound
  THEN DisableAll(<<PulseConfig>> \o SetToSeq(PulseSockets) \o <<Dev("snd"), JackSocket>>)
  ELSE pulseaudio_init

SetDevices(o) ==
  SetSound(o) \o DisableAll(If(o.novideo, <<Dev("video0")>>) \o If(~o.keepntsync, <<Dev("ntsync")>>))

(***************************************************************************)
(* Whitelists (fs_whitelist.c).                                            *)
(***************************************************************************)
\* The top level directory of a path; none for a top level directory itself.
extract_topdir(path) ==
  CASE StrictlyBelow(path, homedir) -> homedir
    [] StrictlyBelow(path, runuser) -> runuser
    [] OTHER -> IF Len(path) > 1 THEN <<path[1]>> ELSE Absent

have_topdir(dir, tops) ==
  LET found == {i \in 1..Len(tops) : tops[i].path = dir}
  IN  IF found = {} THEN 0 ELSE CHOOSE i \in found : TRUE

\* add_topdir() skips a home directory that is private already, a directory
\* that is missing or a link, and one the administrator rejects.
TopdirUsable(dir) ==
  /\ ~(opt.private # "no" /\ dir = homedir)
  /\ IsDir(ns, dir)
  /\ dir \notin opt.rejected

add_topdir(dir, tops) ==
  IF have_topdir(dir, tops) # 0 THEN tops
  ELSE Append(tops, [path |-> dir, fd |-> Open(ns, dir)])

\* Creates the directories that lead to a mount target; a different mount id
\* on the way means that the path has been whitelisted already.
whitelist_mkpath(parent, rel) ==
  LET id == Open(ns, parent)[1]
      leading == [k \in 1..(Len(rel) - 1) |-> parent \o SubSeq(rel, 1, k)]
      step(acc, dir) ==
        LET new == MakeNode(acc.ns, dir, Directory(Blank))
        IN  IF ~acc.done THEN acc
            ELSE [ns |-> new, done |-> IsDir(new, dir) /\ Open(new, dir)[1] = id]
  IN  FoldLeft(step, [ns |-> ns, done |-> TRUE], leading)

\* Mutant of whitelist_file: opens the file after its directory is masked.
whitelist_file_late(top, path) ==
  LET place == Open(ns, path)
  IN  IF ~StrictlyBelow(path, top.path) \/ place = NoPlace THEN ns
      ELSE LandedOn(bind_mount_by_fd(ns, place, place), path)

\* Mounts a file or directory of the masked top level directory, reached
\* through the descriptor opened before the tmpfs was mounted.
whitelist_file(top, path) ==
  LET rel    == SubSeq(path, Len(top.path) + 1, Len(path))
      source == OpenAt(ns, top.fd, rel)
      node   == NodeAt(ns, source)
      parent == whitelist_mkpath(top.path, rel)
      target == MakeNode(parent.ns, path, [node EXCEPT !.of = Blank])
      usable == IF node.kind = "dir" THEN IsDir(target, path) ELSE ~Exists(parent.ns, path)
  IN  IF ~StrictlyBelow(path, top.path) \/ source = NoPlace THEN ns
      ELSE IF node.kind = "link" THEN ns
      ELSE IF ~parent.done THEN parent.ns
      ELSE IF ~usable THEN target
      ELSE LandedOn(bind_mount_by_fd(target, source, Open(target, path)), path)

DoWhitelist == Doing("whitelist") /\ Done(whitelist_file(Arg, Path))

whitelist_symlink(top, link, target) ==
  LET path == whitelist_mkpath(top.path, SubSeq(link, Len(top.path) + 1, Len(link)))
  IN  IF path.done THEN MakeNode(path.ns, link, Symlink(target)) ELSE path.ns

DoSymlink == Doing("symlink") /\ Done(whitelist_symlink(Arg.top, Path, Arg.target))

\* A tmpfs on a top level directory; /run gets back /run/firejail and the
\* user's run directory, /tmp the directory of pam-tmpdir.
MaskTopdir(top) ==
  If(top.path = <<"run">>, << Do("open", RUN_FIREJAIL_DIR, <<>>) >>)
  \o << CheckedTmpfs(top.path) >>
  \o If(top.path = <<"run">>, << Mkdir(RUN_FIREJAIL_DIR), Do("bind_fd", RUN_FIREJAIL_DIR, <<>>),
                                 WhitelistFile(top, runuser) >>)
  \o If(top.path = <<"tmp">> /\ opt.pamtmp, << Mkdir(<<"tmp", "1000">>) >>)
  \o << WhitelistFile(top, homedir) >>

\* The home and the /run/user directory come last.
tmpfs_topdirs(tops) ==
  LET outer == SelectSeq(tops, LAMBDA t : t.path \notin {homedir, runuser})
  IN  FlattenSeq([k \in 1..Len(outer) |-> MaskTopdir(outer[k])])
      \o If(have_topdir(homedir, tops) # 0, fs_private(opt))
      \o If(have_topdir(runuser, tops) # 0, << CheckedTmpfs(runuser) >>)

(***************************************************************************)
(* The steps of sandbox().                                                 *)
(***************************************************************************)
FsInit ==
  /\ fsPhase = "idle"
  /\ opt = << >>
  /\ prof = << >>
  /\ ns = HostNamespace
  /\ todo = << >>
  /\ fd = NoPlace
  /\ entry = 0
  /\ topdirs = << >>
  /\ wparam = << >>
  /\ nowhitelist = {}
  /\ noblacklist = {}

\* A new mount namespace, with the sandbox's own tmpfs on /run/firejail/mnt.
FsBegin ==
  /\ fsPhase = "idle"
  /\ \E s \in Scenarios :
       /\ opt' = s.opt
       /\ prof' = s.prof
  /\ todo' = << Tmpfs(RUN_MNT_DIR, {}) >>
  /\ fsPhase' = "basic"
  /\ UNCHANGED <<ns, fd, profileVars>>

\* The step before is finished.
Ready(phase) == fsPhase = phase /\ todo = << >>

Step(to, ops) ==
  /\ fsPhase' = to
  /\ todo' = ops
  /\ UNCHANGED <<opt, prof, ns, fd, profileVars>>

BasicFs == Ready("basic") /\ Step("private", fs_basic_fs(opt))

PrivateHome ==
  /\ Ready("private")
  /\ opt.private = "list" => ValidHomeItem(opt.keep)
  /\ Step("dev", CASE opt.private = "no" -> << >>
                   [] opt.private = "tmpfs" -> fs_private(opt)
                   [] opt.private = "dir" -> fs_private_homedir(opt.keep)
                   [] opt.private = "list" -> fs_private_home_list(opt.keep))

PrivateHomeInvalid ==
  /\ Ready("private")
  /\ opt.private = "list" /\ ~ValidHomeItem(opt.keep)
  /\ Step("failed", << >>)

PrivateDev == Ready("dev") /\ Step("bin", If(opt.privatedev, fs_private_dev(opt)))

PrivateBin ==
  Ready("bin") /\ Step("proc", If(opt.privatebin # << >>, fs_private_bin_list(opt.privatebin)))

\* --private-tmp stands for profile lines.
fs_private_tmp ==
  << Line("whitelist", <<"tmp", "X11">>), Line("read-only", <<"tmp", "X11">>) >>
  \o If(Exists(ns, <<"tmp", "pulse-1">>), << Line("whitelist", <<"tmp", "pulse-1">>) >>)

\* disable-mnt, as an operation when the administrator asks for it, else as a
\* line of the profile.
fs_mnt == If(opt.mnt = "enforced", << Blacklist(<<"mnt">>) >>)

\* What no profile can undo: kernel interfaces, sockets in /run/user; /sys/fs
\* is a line of the profile.
fs_proc_sys_dev_boot ==
  /\ Ready("proc")
  /\ prof' = prof \o If(opt.privatetmp, fs_private_tmp)
                  \o << Line("blacklist", <<"sys", "fs">>) >>
                  \o If(opt.mnt = "profile", << Line("blacklist", <<"mnt">>) >>)
  /\ todo' = If(~opt.writablerunuser, << Blacklist(Append(runuser, "gnupg")) >>)
             \o << Blacklist(Dev("kmsg")) >> \o fs_mnt
  /\ fsPhase' = "etc"
  /\ UNCHANGED <<opt, ns, fd, profileVars>>

PrivateEtc ==
  Ready("etc") /\ Step("whitelist", If(opt.privateetc, InstallPrivateEtc(<<"passwd">>)))

(***************************************************************************)
(* fs_whitelist(): the first pass resolves the paths and opens the top     *)
(* level directories; then they are masked; the second pass mounts.        *)
(***************************************************************************)
Current == prof[entry + 1]

InPass(phase) == Ready(phase) /\ entry < Len(prof)
PassDone(phase) == Ready(phase) /\ entry = Len(prof)

NextEntry(match) ==
  /\ entry' = entry + 1
  /\ wparam' = Append(wparam, match)
  /\ UNCHANGED <<fsPhase, opt, ns, todo, fd, noblacklist>>

WhitelistOther ==
  /\ InPass("whitelist")
  /\ Current.op \notin {"whitelist", "nowhitelist"}
  /\ NextEntry(NoMatch)
  /\ UNCHANGED <<prof, topdirs, nowhitelist>>

\* The top level directory of the line, new or known, can be used.
InTopdir(dir) ==
  /\ dir \notin {Absent, <<"proc">>, <<"sys">>}
  /\ have_topdir(dir, topdirs) # 0 \/ (TopdirUsable(dir) /\ Len(topdirs) < TOP_MAX)

\* A macro that cannot be resolved still makes the home directory a whitelist.
WhitelistMacro ==
  /\ InPass("whitelist")
  /\ Current = Line("whitelist", Macro)
  /\ InTopdir(homedir) \/ ~TopdirUsable(homedir)
  /\ topdirs' = IF have_topdir(homedir, topdirs) # 0 \/ TopdirUsable(homedir)
                THEN add_topdir(homedir, topdirs) ELSE topdirs
  /\ NextEntry(NoMatch)
  /\ UNCHANGED <<prof, nowhitelist>>

Pathful == Current.op = "whitelist" /\ Current.path # Macro

WhitelistError ==
  /\ InPass("whitelist")
  /\ Current.op = "whitelist"
  /\ LET dir == IF Current.path = Macro THEN homedir ELSE extract_topdir(Current.path)
     IN  \/ dir \in {Absent, <<"proc">>, <<"sys">>}
         \/ have_topdir(dir, topdirs) = 0 /\ Len(topdirs) >= TOP_MAX /\ TopdirUsable(dir)
  /\ Step("failed", << >>)

WhitelistNoTop ==
  /\ InPass("whitelist")
  /\ Pathful
  /\ LET dir == extract_topdir(Current.path)
     IN  /\ dir \notin {Absent, <<"proc">>, <<"sys">>}
         /\ have_topdir(dir, topdirs) = 0 /\ ~TopdirUsable(dir)
  /\ NextEntry(NoMatch)
  /\ UNCHANGED <<prof, topdirs, nowhitelist>>

Internal(path) == Below(path, RUN_FIREJAIL_DIR)

\* The resolved path is looked up in the host's view, before any mask; the
\* paths a pattern stands for are added at the end of the profile.
WhitelistLine ==
  /\ InPass("whitelist")
  /\ Pathful
  /\ LET dir  == extract_topdir(Current.path)
         real == RealPath(ns, Current.path)
         tops == add_topdir(dir, topdirs)
         skip == Internal(Current.path) \/ real = Absent \/ Internal(real) \/ real \in nowhitelist
         new  == {Line("whitelist", p) : p \in Glob(Current.path) \ {Current.path}}
     IN  /\ InTopdir(dir)
         /\ topdirs' = tops
         /\ prof' = prof \o If(real = Absent /\ ~Internal(Current.path), SetToSeq(new))
         /\ NextEntry(IF skip THEN NoMatch
                      ELSE [top |-> have_topdir(dir, tops), file |-> real,
                            link |-> IF IsLink(ns, Current.path) THEN Current.path ELSE Absent])
  /\ UNCHANGED nowhitelist

NoWhitelistLine ==
  /\ InPass("whitelist")
  /\ Current.op = "nowhitelist"
  /\ LET real == RealPath(ns, Current.path)
     IN  nowhitelist' = IF real = Absent \/ Internal(real) THEN nowhitelist
                        ELSE nowhitelist \cup {real}
  /\ NextEntry(NoMatch)
  /\ UNCHANGED <<prof, topdirs>>

MaskTopdirs ==
  /\ PassDone("whitelist")
  /\ todo' = tmpfs_topdirs(topdirs)
  /\ fsPhase' = "mount"
  /\ entry' = 0
  /\ UNCHANGED <<opt, prof, ns, fd, topdirs, wparam, nowhitelist, noblacklist>>

MountWhitelist ==
  /\ InPass("mount")
  /\ LET w == wparam[entry + 1]
     IN  todo' = If(w.top # 0,
                    << WhitelistFile(topdirs[w.top], w.file) >>
                    \o If(w.link # Absent, << Do("symlink", w.link, [top |-> topdirs[w.top],
                                                                     target |-> w.file]) >>))
  /\ entry' = entry + 1
  /\ UNCHANGED <<fsPhase, opt, prof, ns, fd, topdirs, wparam, nowhitelist, noblacklist>>

WhitelistDone ==
  /\ PassDone("mount")
  /\ fsPhase' = "blacklist"
  /\ entry' = 0
  /\ UNCHANGED <<opt, prof, ns, todo, fd, topdirs, wparam, nowhitelist, noblacklist>>

(***************************************************************************)
(* fs_blacklist(): the other lines, in order.                              *)
(***************************************************************************)
Matches(pattern, path) ==
  \/ pattern = path
  \/ path # <<>> /\ Last(pattern) = "*" /\ Front(pattern) = Front(path)

ModifyOps == {"blacklist", "read-only", "read-write", "noexec", "tmpfs_line"}

BlacklistPass(ops) ==
  /\ InPass("blacklist")
  /\ entry' = entry + 1
  /\ todo' = ops
  /\ UNCHANGED <<fsPhase, opt, prof, ns, fd, topdirs, wparam, nowhitelist>>

ModifyLine ==
  /\ InPass("blacklist")
  /\ Current.op \in ModifyOps
  /\ LET paths == {p \in Glob(Current.path) :
                     Current.op = "blacklist" => ~\E q \in noblacklist : Matches(q, p)}
     IN  BlacklistPass(SetToSeq({Do(Current.op, p, <<>>) : p \in paths}))
  /\ UNCHANGED noblacklist

NoBlacklistLine ==
  /\ InPass("blacklist")
  /\ Current.op = "noblacklist"
  /\ noblacklist' = noblacklist \cup {Current.path}
  /\ BlacklistPass(<< >>)

\* mkdir works in the home, /tmp and /run/user directories only.
MkdirAllowed(path) == \E d \in {homedir, <<"tmp">>, runuser} : Below(path, d)

fs_mkdir ==
  /\ InPass("blacklist")
  /\ Current.op = "mkdir" /\ MkdirAllowed(Current.path)
  /\ BlacklistPass([k \in 1..Len(Current.path) |-> Mkdir(SubSeq(Current.path, 1, k))])
  /\ UNCHANGED noblacklist

MkdirRefused ==
  /\ InPass("blacklist")
  /\ Current.op = "mkdir" /\ ~MkdirAllowed(Current.path)
  /\ Step("failed", << >>)

BlacklistOther ==
  /\ InPass("blacklist")
  /\ Current.op \in {"whitelist", "nowhitelist"}
  /\ BlacklistPass(<< >>)
  /\ UNCHANGED noblacklist

Devices == PassDone("blacklist") /\ Step("devices", SetDevices(opt))

StartApplication == Ready("devices") /\ Step("done", << >>)

FsDone == fsPhase \in {"done", "failed"} /\ UNCHANGED fsVars

Operation ==
  \/ DoTmpfs \/ DoOpen \/ DoBindFd \/ DoNode \/ DoBind \/ DoBindChecked \/ DoUmount \/ DoInstall
  \/ DoCopy \/ DoTmpfsFlags \/ DoWhitelist \/ DoSymlink \/ disable_file_or_dir
  \/ fs_tmpfs \/ fs_remount_simple \/ fs_remount \/ fs_var_log \/ disable_file
  \/ \E op \in ModifyOps \ {"blacklist"} : DisableOther(op)

FsNext ==
  \/ FsBegin \/ BasicFs \/ PrivateHome \/ PrivateHomeInvalid \/ PrivateDev \/ PrivateBin
  \/ fs_proc_sys_dev_boot \/ PrivateEtc
  \/ WhitelistOther \/ WhitelistMacro \/ WhitelistError \/ WhitelistNoTop \/ WhitelistLine
  \/ NoWhitelistLine \/ MaskTopdirs \/ MountWhitelist \/ WhitelistDone
  \/ ModifyLine \/ NoBlacklistLine \/ fs_mkdir \/ MkdirRefused \/ BlacklistOther
  \/ Devices \/ StartApplication \/ Operation \/ FsDone

FsSpec == FsInit /\ [][FsNext]_fsVars

(***************************************************************************)
(* Properties.                                                             *)
(***************************************************************************)
\* The names under which a process can look: those of the disk, and those of
\* the copies kept under /run/firejail/mnt.
Names ==
  DOMAIN DiskNodes
  \cup {RunDir(p[1]) \o Tail(p) : p \in {q \in DOMAIN DiskNodes : q # <<>> /\ q[1] \in {"dev", "etc"}}}
  \cup {RunDir("home") \o SubSeq(p, 3, Len(p)) : p \in {q \in DOMAIN DiskNodes : Below(q, homedir)}}

OfDisk(content) == content \in DOMAIN DiskNodes

\* The disk nodes that some name shows, and whether one is at or below d.
View == {Seen(ns, p) : p \in Names} \cap DOMAIN DiskNodes
Shows(view, d) == \E c \in view : Below(c, d)

\* Type invariant.  Every mount hides an existing node of an earlier mount and
\* shows an existing node of its own file system.
FsTypeOK ==
  /\ fsPhase \in {"idle", "basic", "private", "dev", "bin", "proc", "etc", "whitelist",
                  "mount", "blacklist", "devices", "done", "failed"}
  /\ entry \in 0..Len(prof)
  /\ Len(topdirs) <= TOP_MAX
  /\ \A i \in 1..Len(ns.mnt) :
       LET m == ns.mnt[i]
       IN  /\ m.par \in 0..(i - 1)
           /\ m.root \in DOMAIN NodesOf(ns, m.fs)
           /\ m.flags \subseteq {"ro", "noexec"}
           /\ m.par # 0 => m.at \in DOMAIN NodesOf(ns, ns.mnt[m.par].fs)

\* What firejail disables outside the profile (disable_config, fs_mnt(1),
\* fs_proc_sys_dev_boot, restrict_users) cannot be seen under any name when the
\* application starts, whatever the profile whitelists, binds from a saved
\* descriptor, makes writable or exempts with noblacklist.
Enforced ==
  {homedir \o <<".config", "firejail">>, Append(RUN_FIREJAIL_DIR, "name"), Dev("kmsg")}
  \cup (IF opt.writablerunuser THEN {} ELSE {Append(runuser, "gnupg")})
  \cup (IF opt.mnt = "enforced" THEN { <<"mnt">> } ELSE {})
  \cup (IF opt.allusers THEN {} ELSE {<<"home", "v">>, <<"run", "user", "1001">>})

EnforcedHidden ==
  fsPhase = "done" => LET view == View IN \A d \in Enforced : ~Shows(view, d)

\* After the second whitelist pass every whitelisted file is seen at the path
\* of its line with the content it had before its top level directory was
\* masked (fs_whitelist), in whatever order nested paths were listed.
WhitelistShown ==
  Ready("blacklist") /\ entry = 0 =>
    \A i \in 1..Len(prof) :
      LET w == wparam[i]
          top == topdirs[w.top]
      IN  w.top # 0 /\ StrictlyBelow(w.file, topdirs[w.top].path) =>
            Seen(ns, prof[i].path) =
              NodeAt(ns, OpenAt(ns, top.fd, SubSeq(w.file, Len(top.path) + 1, Len(w.file)))).of

\* In a top level directory with a whitelist nothing else of the disk can be
\* seen, except what tmpfs_topdirs() and fs_private() bring back.
KeptPaths ==
  {wparam[i].file : i \in 1..Len(prof)} \cup {wparam[i].link : i \in 1..Len(prof)}
  \cup {Xauthority, RUN_FIREJAIL_DIR}
  \cup (IF have_topdir(homedir, topdirs) = 0 THEN {homedir} ELSE {})
  \cup (IF have_topdir(runuser, topdirs) = 0 THEN {runuser} ELSE {})

OnlyWhitelisted ==
  Ready("blacklist") /\ entry = 0 =>
    \A t \in ToSet(topdirs), p \in Names :
      StrictlyBelow(p, t.path) /\ OfDisk(Seen(ns, p)) => \E k \in KeptPaths : Below(p, k)

\* A whitelist shows exactly its files.
WhitelistIsExact == WhitelistShown /\ OnlyWhitelisted

\* A path blacklisted by a line with no earlier noblacklist for it shows nothing
\* of the disk when the application starts, also when a later line remounts,
\* masks or recreates it or a directory around it (fs_blacklist).
BlacklistHolds ==
  fsPhase = "done" =>
    \A i \in 1..Len(prof) : prof[i].op = "blacklist" =>
      \A p \in Names :
        /\ Matches(prof[i].path, p)
        /\ \A j \in 1..(i - 1) : prof[j].op = "noblacklist" => ~Matches(prof[j].path, p)
        => ~OfDisk(Seen(ns, p))

\* A read-only line holds for the whole tree below its path, mounts included
\* (fs_remount_rec), unless a later line works on that tree.
Overlap(p, q) == Below(p, q) \/ Below(q, p)

ReadOnlyHolds ==
  fsPhase = "done" =>
    \A i \in 1..Len(prof) : prof[i].op = "read-only" =>
      \/ \E j \in (i + 1)..Len(prof) :
           /\ prof[j].op \in {"read-write", "tmpfs_line", "mkdir"}
           /\ Overlap(RealPath(ns, prof[j].path), RealPath(ns, prof[i].path))
      \/ \A p \in Names :
           Below(p, RealPath(ns, prof[i].path)) /\ OfDisk(Seen(ns, p)) /\ ~IsLink(ns, p)
             => "ro" \in FlagsAt(ns, p)

\* With a private home directory the real one is out of sight, except for the
\* part the user asked to keep and the X authority (fs_home.c), also under the
\* directories of /run/firejail/mnt used on the way.
PrivateHomeHides ==
  fsPhase = "done" /\ opt.private # "no" =>
    \A c \in View : StrictlyBelow(c, homedir) =>
      c = Xauthority \/ (opt.private # "tmpfs" /\ Below(c, opt.keep))

\* With --private-bin the listed programs can be run, links included, from
\* every directory of the search path, and nothing else is left in them
\* (fs_bin.c).
PrivateBinRuns ==
  fsPhase = "done" /\ opt.privatebin # << >> =>
    \A k \in 1..Len(BinPaths), p \in DOMAIN DiskNodes :
      StrictlyBelow(p, BinPaths[k]) =>
        LET name == Last(p)
            kept == \E i \in 1..Len(opt.privatebin) : opt.privatebin[i] = name
            program == DiskNodes[p]
            real == IF program.kind = "link" THEN program.of ELSE p
        IN  /\ kept => \A j \in 1..Len(BinPaths) : Seen(ns, Append(BinPaths[j], name)) = real
            /\ ~kept /\ OfDisk(Seen(ns, p)) =>
                 \E q \in DOMAIN DiskNodes : DiskNodes[q] = Symlink(p) /\ Last(q) \in ToSet(opt.privatebin)

\* The sandbox's own directories survive every mask of /run: later steps of
\* sandbox() still write to RUN_MNT_DIR (tmpfs_topdirs).
RunDirKept ==
  todo = << >> /\ fsPhase # "idle" => /\ Seen(ns, RUN_FIREJAIL_DIR) = RUN_FIREJAIL_DIR
                      /\ Seen(ns, RUN_MNT_DIR) = Blank

\* Subsystems that are switched off stay off, through /dev, through the copy of
\* /dev that --private-dev makes, and through sockets that a whitelist or a
\* jack server brings back (fs_dev.c, pulseaudio.c).
SubsystemsOff ==
  fsPhase = "done" =>
    LET view == View
    IN  /\ opt.nosound =>
             \A d \in {Dev("snd"), JackSocket, PulseConfig} \cup PulseSockets : ~Shows(view, d)
        /\ opt.novideo => ~Shows(view, Dev("video0"))
        /\ ~opt.keepntsync => ~Shows(view, Dev("ntsync"))

\* Other users are filtered out of /etc/passwd, also in a private /etc for which
\* the filtered file is unmounted again (restrict_users, sandbox.c 1034-1054).
PasswdFiltered ==
  fsPhase = "done" /\ ~opt.allusers => <<"etc", "passwd">> \notin View

\* Everything the options and the profile hide is out of sight when the
\* application starts, through every name, and what they keep is usable.
HiddenStaysHidden ==
  /\ EnforcedHidden /\ BlacklistHolds /\ ReadOnlyHolds
  /\ PrivateHomeHides /\ PrivateBinRuns /\ SubsystemsOff /\ PasswdFiltered

\* The last line of mountinfo is where the mount was meant to go, every time
\* fs.c, fs_home.c and fs_whitelist.c check it, and the directory the sandbox
\* keeps its own files in survives; the tree of mounts stays well formed.
MountsLand == FsTypeOK /\ ns.ok /\ RunDirKept
=============================================================================
