---------------------------- MODULE FirejailLaunch ----------------------------
(***************************************************************************)
(* The life of one sandbox: the parent (end of main(), main.c), the first  *)
(* process of the pid namespace (sandbox(), sandbox.c), the application A, *)
(* a process D that A leaves behind, a process J that enters with --join   *)
(* (join.c) and a firejail --shutdown (shutdown.c).                        *)
(*                                                                         *)
(* Parent and child exchange arg_noroot twice over two pipes; a peer that  *)
(* died is noticed by end-of-file.  The kernel is modelled as it is used:  *)
(* when the first process of a pid namespace dies all others are killed, a *)
(* signal without handler does not reach it, and a new user namespace      *)
(* gives all capabilities back.                                            *)
(***************************************************************************)
EXTENDS Naturals, Sequences, FiniteSets

CONSTANTS
  Scenarios,   \* what happens to the sandbox from outside
  MaxTimeout   \* bound: cfg.timeout, in rounds of the monitor

ASSUME LaunchAssumption ==
  /\ Scenarios \subseteq {"run", "signal", "shutdown", "join", "net join",
                          "crash"}
  /\ MaxTimeout \in Nat \ {0}

VARIABLES
  opt,      \* the options, and what the user and the system are like
  ppc,      \* the parent
  pnoroot,  \* arg_noroot of the parent
  pcode,    \* exit code of the parent
  lock,     \* the parent holds the lock on its sandbox run file
  netc,     \* the child that runs network_main() exists
  spc,      \* sandbox()
  snoroot,  \* arg_noroot of the sandbox
  scode,    \* exit code of the sandbox
  p2c, c2p, \* the two pipes
  gidmap,   \* groups mapped into the user namespace
  saved,    \* what the sandbox left in its run directory for --join
  done,     \* the status byte of the join file is SANDBOX_DONE
  conf,     \* how S, A and J are confined
  sig,      \* signal pending for the sandbox
  alive, zomb,  \* processes in the pid namespace; not waited for
  wstat,    \* how A and D ended
  apc,      \* the application
  mon,      \* monitored_pid
  status, appStatus, timeout,  \* of monitor_application()
  jpc, jx,  \* --join, and what it extracted
  kpc       \* --shutdown

parent == <<ppc, pnoroot, pcode, lock, netc, gidmap>>
monitor == <<mon, status, appStatus, timeout>>
procs == <<alive, zomb, wstat, apc>>
init == <<spc, snoroot, scode, saved, done, conf, sig, procs, monitor>>
others == <<opt, jpc, jx, kpc>>
lvars == <<parent, init, p2c, c2p, others>>

Groups == {"misc", "video", "audio"}  \* misc: firejail, tty and games
Full == [caps |-> "all", userns |-> FALSE, nnp |-> FALSE, root |-> TRUE,
         filters |-> FALSE, groups |-> Groups]

(* Options that a scenario does not need stay off.                         *)
Options ==
  {o \in [scenario : Scenarios, noroot : BOOLEAN, nnp : BOOLEAN,
          caps : BOOLEAN, nogroups : BOOLEAN, nosound : BOOLEAN,
          nvidia : BOOLEAN, net : BOOLEAN, stubborn : BOOLEAN,
          timeout : BOOLEAN, detshut : BOOLEAN, detexit : BOOLEAN] :
     /\ o.nogroups \/ o.nosound \/ o.nvidia => o.scenario = "join"
     /\ ~(o.nnp /\ o.caps) => o.scenario \in {"join", "net join"}
     /\ o.stubborn => o.scenario \in {"signal", "shutdown"}
     /\ o.timeout \/ o.detshut => /\ o.scenario \in {"run", "join"}
                                   /\ ~o.nogroups /\ ~o.nosound /\ ~o.nvidia
     /\ o.detexit => o.scenario = "run"
     /\ o.net => o.scenario \in {"crash", "run"}}

LaunchInit ==
  /\ opt \in Options
  /\ ppc = "cloned" /\ pnoroot = opt.noroot /\ pcode = "none"
  /\ lock = FALSE /\ netc = FALSE
  /\ spc = "wait1" /\ snoroot = opt.noroot /\ scode = "none"
  /\ p2c = <<>> /\ c2p = <<>> /\ gidmap = {} /\ saved = {} /\ done = FALSE
  /\ conf = [x \in {"S", "A", "J"} |-> Full] /\ sig = "none"
  /\ alive = {} /\ zomb = {} /\ wstat = [x \in {"A", "D"} |-> "none"]
  /\ apc = "none" /\ mon = "none" /\ status = "0" /\ appStatus = "0"
  /\ timeout = MaxTimeout /\ jpc = "none" /\ jx = Full /\ kpc = "none"

\* sandbox_handler() is installed.
Handling == {"wait", "ended", "timeup", "exit", "term"}

-----------------------------------------------------------------------------
(* clean_supplementary_groups() asks for the groups the options allow;     *)
(* setgroups() fails for a group that has no mapping, and then all go.     *)
CanDropAllGroups == ~opt.nvidia

CleanSupplementaryGroups(nogroups, nosound, userns) ==
  LET want == {"misc", "video"} \cup (IF nosound THEN {} ELSE {"audio"}) IN
  IF (nogroups /\ CanDropAllGroups) \/ (userns /\ ~(want \subseteq gidmap))
  THEN {} ELSE want

DropPrivs(c, force, noroot, nogroups, nosound) ==
  [c EXCEPT !.root = FALSE,
            !.groups = IF force THEN {}
                       ELSE IF noroot \/ nogroups
                       THEN CleanSupplementaryGroups(nogroups, nosound,
                                                     c.userns)
                       ELSE @]

(* The groups main() maps into the new user namespace.                     *)
GidMap ==
  (IF ~opt.nogroups \/ ~CanDropAllGroups
   THEN {"video"} \cup (IF opt.nosound THEN {} ELSE {"audio"}) ELSE {})
  \cup (IF ~opt.nogroups THEN {"misc"} ELSE {})

SetCaps(c) == [c EXCEPT !.caps = IF opt.caps THEN "limited" ELSE @]

-----------------------------------------------------------------------------
\* PR_SET_PDEATHSIG has been called: the kernel kills the sandbox.
DeathSignal ==
  IF spc \in {"fork", "install"} \cup Handling THEN "kill" ELSE sig

(* The parent.  It dies with its lock, and with its ends of the pipes.     *)
ParentGone(code) == ppc' = "gone" /\ pcode' = code /\ lock' = FALSE

SetSandboxRunFile ==
  /\ ppc = "cloned" /\ ppc' = "net" /\ lock' = TRUE
  /\ UNCHANGED <<pnoroot, pcode, netc, p2c, c2p, gidmap, init, others>>

ParentNet ==
  /\ ppc = "net"
  /\ IF opt.net THEN netc' = TRUE /\ ppc' = "net wait"
     ELSE netc' = netc /\ ppc' = "notify1"
  /\ UNCHANGED <<pnoroot, pcode, lock, p2c, c2p, gidmap, init, others>>

NetChildEnds ==
  /\ netc /\ netc' = FALSE
  /\ ppc' = IF ppc = "net wait" THEN "notify1" ELSE ppc
  /\ UNCHANGED <<pnoroot, pcode, lock, p2c, c2p, gidmap, init, others>>

\* close() of the unused ends, and notify_other().
ParentNotify(from, to) ==
  /\ ppc = from /\ ppc' = to /\ p2c' = Append(p2c, pnoroot)
  /\ UNCHANGED <<pnoroot, pcode, lock, netc, c2p, gidmap, init, others>>

\* The sandbox has closed its end of child_to_parent_fds, or is dead.
SandboxEndClosed == spc \notin {"wait1", "setup", "userns", "notify"}

\* The parent has closed its own copy, and the network child is gone.
EndOfFileFromSandbox == c2p = <<>> /\ SandboxEndClosed /\ ~netc

ParentWaitForOther ==
  /\ ppc = "wait1"
  /\ \/ /\ c2p # <<>> /\ c2p' = Tail(c2p) /\ pnoroot' = Head(c2p)
        /\ ppc' = "maps" /\ UNCHANGED <<pcode, lock>>
     \/ /\ EndOfFileFromSandbox
        /\ spc = "dead" /\ ParentGone("1") /\ UNCHANGED <<c2p, pnoroot>>
  /\ UNCHANGED <<netc, p2c, gidmap, init, others>>

UpdateMaps ==
  /\ ppc = "maps" /\ ppc' = "notify2"
  /\ gidmap' = IF pnoroot THEN GidMap ELSE gidmap
  /\ UNCHANGED <<pnoroot, pcode, lock, netc, p2c, c2p, init, others>>

ParentInstallHandler ==
  /\ ppc = "handler" /\ ppc' = "waiting"
  /\ UNCHANGED <<pnoroot, pcode, lock, netc, p2c, c2p, gidmap, init, others>>

\* waitpid(), the default actions again, release_sandbox_lock() and myexit().
ParentReaps ==
  /\ ppc = "waiting" /\ spc = "dead" /\ ppc' = "restored"
  /\ UNCHANGED <<pnoroot, pcode, lock, netc, p2c, c2p, gidmap, init, others>>

ParentExits ==
  /\ ppc = "restored" /\ ParentGone(scode)
  /\ UNCHANGED <<pnoroot, netc, p2c, c2p, gidmap, init, others>>

\* A signal for the parent: before install_handler() and after the default
\* actions are restored it just dies, without my_handler().
ParentSignal ==
  /\ opt.scenario = "signal" /\ ppc # "gone" /\ pcode = "none"
  /\ IF ppc = "waiting"
     THEN ppc' = "my_handler" /\ pcode' = "128+s" /\ UNCHANGED lock
     ELSE ParentGone("128+s") /\ ppc \notin {"my_handler", "my_wait"}
  /\ sig' = IF ppc' = "gone" THEN DeathSignal ELSE sig
  /\ UNCHANGED <<pnoroot, netc, gidmap, p2c, c2p, spc, snoroot, scode, saved,
                 done, conf, procs, monitor, others>>

\* Mutant of MyHandler: the child gets the signal, handler or not.
MyHandlerNoCheck ==
  /\ ppc = "my_handler" /\ ppc' = "my_wait"
  /\ sig' = IF spc \in Handling /\ sig = "none" THEN "term" ELSE sig
  /\ UNCHANGED <<pnoroot, pcode, lock, netc, gidmap, p2c, c2p, spc, snoroot,
                 scode, saved, done, conf, procs, monitor, others>>

(* my_handler(): the signal would be lost if the child had no handler yet, *)
(* and SIGKILL is sent instead.                                            *)
MyHandler ==
  /\ ppc = "my_handler" /\ ppc' = "my_wait"
  /\ sig' = IF spc = "dead" \/ sig = "kill" THEN sig
            ELSE IF spc \in Handling THEN "term" ELSE "kill"
  /\ UNCHANGED <<pnoroot, pcode, lock, netc, gidmap, p2c, c2p, spc, snoroot,
                 scode, saved, done, conf, procs, monitor, others>>

MyHandlerExits ==
  /\ ppc = "my_wait" /\ spc = "dead" /\ ParentGone(pcode)
  /\ UNCHANGED <<pnoroot, netc, gidmap, p2c, c2p, init, others>>

\* SIGKILL, at any point.
ParentKilled ==
  /\ opt.scenario = "crash" /\ ppc # "gone" /\ ParentGone("137")
  /\ sig' = DeathSignal
  /\ UNCHANGED <<pnoroot, netc, gidmap, p2c, c2p, spc, snoroot, scode, saved,
                 done, conf, procs, monitor, others>>

-----------------------------------------------------------------------------
(* The sandbox dies, and the kernel kills everything in its pid namespace. *)
SandboxDies(code) ==
  /\ spc' = "dead" /\ scode' = code
  /\ alive' = {} /\ zomb' = {} /\ UNCHANGED wstat
  /\ apc' = IF apc \in {"starting", "running"} THEN "dead" ELSE apc
  /\ jpc' = IF "J" \in alive THEN "gone" ELSE jpc
  /\ UNCHANGED <<parent, p2c, c2p, snoroot, saved, done, conf, sig, monitor,
                 opt, jx, kpc>>

\* A step of sandbox() that stays before the fork of the application.
SandboxStep(from, to) ==
  /\ spc = from /\ sig # "kill" /\ spc' = to
  /\ UNCHANGED <<parent, scode, sig, procs, monitor, others>>

SandboxKilled == spc # "dead" /\ sig = "kill" /\ SandboxDies("137")

EndOfFileFromParent == p2c = <<>> /\ ppc = "gone" /\ ~netc

SandboxWaitForOther(from, to) ==
  \/ /\ SandboxStep(from, to)
     /\ p2c # <<>> /\ p2c' = Tail(p2c) /\ snoroot' = Head(p2c)
     /\ UNCHANGED <<c2p, saved, done, conf>>
  \/ spc = from /\ EndOfFileFromParent /\ SandboxDies("1")

(* From the host name to create_join_file(); any of it can fail.           *)
SandboxSetup ==
  /\ SandboxStep("setup", "userns")
  /\ saved' = {"filters"} \cup (IF opt.nnp THEN {"nonewprivs"} ELSE {})
  /\ conf' = [conf EXCEPT !["S"] = SetCaps(@)]
  /\ UNCHANGED <<p2c, c2p, snoroot, done>>

SandboxSetupFails == spc = "setup" /\ sig # "kill" /\ SandboxDies("1")

(* save_nogroups() and unshare(CLONE_NEWUSER), which may fail.             *)
SandboxUserns ==
  /\ SandboxStep("userns", "notify")
  /\ saved' = saved \cup (IF opt.nogroups THEN {"groups"} ELSE {})
  /\ \/ ~snoroot /\ UNCHANGED <<snoroot, conf>>
     \/ /\ snoroot /\ UNCHANGED snoroot
        /\ conf' = [conf EXCEPT !["S"].userns = TRUE, !["S"].caps = "all"]
     \/ snoroot /\ snoroot' = FALSE /\ UNCHANGED conf
  /\ UNCHANGED <<p2c, c2p, done>>

SandboxNotify ==
  /\ SandboxStep("notify", "wait2") /\ c2p' = Append(c2p, snoroot)
  /\ UNCHANGED <<p2c, snoroot, saved, done, conf>>

(* set_caps() again in a new user namespace, and NO_NEW_PRIVS.             *)
SandboxConfine ==
  /\ SandboxStep("caps", "drop")
  /\ conf' = [conf EXCEPT !["S"] =
                [(IF snoroot THEN SetCaps(@) ELSE @) EXCEPT !.nnp = opt.nnp]]
  /\ UNCHANGED <<p2c, c2p, snoroot, saved, done>>

SandboxDropPrivs ==
  /\ SandboxStep("drop", "pdeath")
  /\ conf' = [conf EXCEPT !["S"] =
                DropPrivs(@, FALSE, snoroot, opt.nogroups, opt.nosound)]
  /\ UNCHANGED <<p2c, c2p, snoroot, saved, done>>

SandboxPdeathsig ==
  /\ SandboxStep("pdeath", "fork")
  /\ UNCHANGED <<p2c, c2p, snoroot, saved, done, conf>>

SandboxForks ==
  /\ spc = "fork" /\ sig # "kill" /\ spc' = "install"
  /\ alive' = {"A"} /\ apc' = "starting" /\ UNCHANGED <<zomb, wstat>>
  /\ conf' = [conf EXCEPT !["A"] = conf["S"]]
  /\ UNCHANGED <<parent, p2c, c2p, snoroot, scode, saved, done, sig, monitor,
                 others>>

-----------------------------------------------------------------------------
(* start_application() installs the filters, which sets NO_NEW_PRIVS, and  *)
(* tells --join that the sandbox is complete.                              *)
AppExec ==
  /\ apc = "starting" /\ apc' = "running" /\ done' = TRUE
  /\ conf' = [conf EXCEPT !["A"].filters = TRUE, !["A"].nnp = TRUE]
  /\ UNCHANGED <<parent, spc, snoroot, scode, saved, sig, alive, zomb, wstat,
                 p2c, c2p, monitor, others>>

\* Processes of the namespace that end: children of the sandbox stay as
\* zombies, D is a child of A as long as A runs, J has its parent outside.
Ends(gone, code) ==
  /\ alive' = alive \ gone
  /\ zomb' = zomb \cup (gone \cap {"A"})
              \cup (IF "A" \in alive /\ "A" \notin gone
                    THEN {} ELSE gone \cap {"D"})
  /\ wstat' = [x \in {"A", "D"} |-> IF x \in gone THEN code ELSE wstat[x]]
  /\ apc' = IF "A" \in gone THEN "dead" ELSE apc
  /\ jpc' = IF "J" \in gone THEN "gone" ELSE jpc

AppCannotStart ==
  /\ apc = "starting" /\ Ends({"A"}, "1")
  /\ UNCHANGED <<parent, spc, snoroot, scode, saved, done, conf, sig, p2c, c2p,
                 monitor, opt, jx, kpc>>

ProgramExits(x) ==
  /\ x \in alive /\ (x = "A" => apc = "running")
  /\ (x = "J" => jpc = "running") /\ Ends({x}, x)
  /\ UNCHANGED <<parent, spc, snoroot, scode, saved, done, conf, sig, p2c, c2p,
                 monitor, opt, jx, kpc>>

AppForks ==
  /\ apc = "running" /\ wstat["D"] = "none" /\ "D" \notin alive
  /\ alive' = alive \cup {"D"} /\ UNCHANGED <<zomb, wstat, apc>>
  /\ UNCHANGED <<parent, spc, snoroot, scode, saved, done, conf, sig, p2c, c2p,
                 monitor, others>>

-----------------------------------------------------------------------------
(* monitor_application().                                                  *)
MonitorStep(from, to) ==
  /\ spc = from /\ sig # "kill" /\ spc' = to
  /\ UNCHANGED <<parent, p2c, c2p, snoroot, saved, done, conf, sig, alive,
                 wstat, apc, scode, others>>

MonitorStart ==
  /\ MonitorStep("install", "wait") /\ mon' = "A"
  /\ UNCHANGED <<zomb, status, appStatus, timeout>>

Children == alive \cap (IF "A" \in alive THEN {"A"} ELSE {"D"})

\* One round of the inner loop: the time is up, or waitpid() is called again,
\* or it has returned the monitored process.
Round(again) ==
  /\ timeout' = IF opt.timeout THEN timeout - 1 ELSE timeout
  /\ spc' = IF opt.timeout /\ timeout = 1 THEN "timeup" ELSE again

WaitpidChild(z) ==
  /\ spc = "wait" /\ sig # "kill" /\ z \in zomb
  /\ zomb' = zomb \ {z} /\ status' = wstat[z]
  /\ appStatus' = IF z = "A" THEN wstat[z] ELSE appStatus
  /\ Round(IF z = mon THEN "ended" ELSE "wait") /\ UNCHANGED mon
  /\ UNCHANGED <<parent, p2c, c2p, snoroot, saved, done, conf, sig, alive,
                 wstat, apc, scode, others>>

WaitpidNone ==
  /\ spc = "wait" /\ sig # "kill" /\ opt.timeout
  /\ zomb = {} /\ Children # {} /\ Round("wait")
  /\ UNCHANGED <<parent, p2c, c2p, snoroot, saved, done, conf, sig, procs,
                 mon, status, appStatus, scode, others>>

\* ECHILD: only processes that joined the sandbox are left, or nothing.
WaitpidError ==
  /\ MonitorStep("wait", "ended") /\ zomb = {} /\ Children = {}
  /\ UNCHANGED <<zomb, monitor>>

\* Mutant of MonitorNext: the sandbox ends with the process it monitored.
MonitorNoScan ==
  /\ spc = "ended" /\ ~opt.detshut /\ MonitorStep("ended", "exit")
  /\ mon' = "none" /\ UNCHANGED <<zomb, status, appStatus, timeout>>

\* /proc is read for another process to monitor.
MonitorNext ==
  /\ spc = "ended" /\ ~opt.detshut
  /\ \/ /\ MonitorStep("ended", "wait") /\ mon' \in alive \cup zomb
     \/ /\ MonitorStep("ended", "exit") /\ alive \cup zomb = {}
        /\ mon' = "none"
  /\ UNCHANGED <<zomb, status, appStatus, timeout>>

(* --deterministic-shutdown kills what is left; then the status that       *)
(* --deterministic-exit-code selects is returned.                          *)
SandboxExits ==
  /\ spc = "exit" \/ (spc = "ended" /\ opt.detshut)
  /\ sig # "kill" /\ SandboxDies(IF opt.detexit THEN appStatus ELSE status)

SandboxTimeUp == spc = "timeup" /\ sig # "kill" /\ SandboxDies("1")

(* sandbox_handler(), entered when signals are not blocked: SIGTERM for    *)
(* everybody, some seconds for the monitored process, then the end.        *)
SandboxHandler ==
  /\ spc = "wait" /\ sig = "term" /\ spc' = "term"
  /\ IF opt.stubborn THEN UNCHANGED <<procs, jpc>>
     ELSE Ends(alive, "term")
  /\ UNCHANGED <<parent, p2c, c2p, snoroot, scode, saved, done, conf, sig,
                 monitor, opt, jx, kpc>>

SandboxHandlerEnds == spc = "term" /\ SandboxDies("128+s")

-----------------------------------------------------------------------------
(* firejail --join, started by an ordinary user.                           *)
JoinKeeps == <<parent, spc, snoroot, scode, saved, done, sig, p2c, c2p, zomb,
               wstat, apc, monitor, opt, kpc>>

\* pin_sandbox_process(): a locked run file names the child.
PinSandboxProcess ==
  /\ opt.scenario \in {"join", "net join"} /\ jpc = "none"
  /\ lock /\ spc # "dead" /\ jpc' = "pinned"
  /\ UNCHANGED <<jx, conf, alive, JoinKeeps>>

\* Mutant of CheckJoinable: the file need only exist.
JoinFileExists ==
  /\ jpc = "pinned" /\ saved # {} /\ spc # "dead" /\ jpc' = "checked"
  /\ UNCHANGED <<jx, conf, alive, JoinKeeps>>

CheckJoinable ==
  /\ jpc = "pinned" /\ done /\ spc # "dead" /\ jpc' = "checked"
  /\ UNCHANGED <<jx, conf, alive, JoinKeeps>>

\* join_timeout has passed, or the sandbox is gone.
JoinGivesUp ==
  /\ \/ jpc = "pinned" /\ ~done
     \/ jpc \in {"pinned", "checked", "extracted"} /\ spc = "dead"
  /\ jpc' = "gone" /\ UNCHANGED <<jx, conf, alive, JoinKeeps>>

\* extract_nonewprivs(), _caps(), _nogroups() and _user_namespace().
JoinExtract ==
  /\ jpc = "checked" /\ spc # "dead" /\ jpc' = "extracted"
  /\ jx' = [conf["S"] EXCEPT !.nnp = @ \/ "nonewprivs" \in saved,
                             !.groups = IF "groups" \in saved
                                        THEN {} ELSE Groups]
  /\ UNCHANGED <<conf, alive, JoinKeeps>>

\* The namespaces are joined, and a child forked into them.
JoinNamespaces ==
  /\ jpc = "extracted" /\ spc # "dead" /\ jpc' = "inside"
  /\ alive' = IF opt.scenario = "join" THEN alive \cup {"J"} ELSE alive
  /\ UNCHANGED <<conf, jx, JoinKeeps>>

(* The child: filters, capabilities, again after the user namespace, no    *)
(* new privileges, drop_privs(), and the program.                          *)
JoinStarts ==
  /\ jpc = "inside" /\ jpc' = "running"
  /\ LET load == opt.scenario = "join" /\ "filters" \in saved
         c == [Full EXCEPT !.caps = jx.caps, !.userns = jx.userns,
                           !.filters = load, !.nnp = jx.nnp \/ load] IN
     conf' = [conf EXCEPT !["J"] = DropPrivs(c, jx.groups = {}, jx.userns,
                                             jx.groups = {}, FALSE)]
  /\ UNCHANGED <<jx, alive, JoinKeeps>>

(* firejail --shutdown: the signal is lost if the sandbox has no handler.  *)
Shut ==
  /\ opt.scenario = "shutdown" /\ kpc = "none" /\ lock /\ done /\ spc # "dead"
  /\ kpc' = "sent"
  /\ sig' = IF spc \in Handling /\ sig # "kill" THEN "term" ELSE sig
  /\ UNCHANGED <<parent, p2c, c2p, spc, snoroot, scode, saved, done, conf,
                 procs, monitor, opt, jpc, jx>>

ShutForce ==
  /\ kpc = "sent" /\ kpc' = "done"
  /\ sig' = IF spc = "dead" THEN sig ELSE "kill"
  /\ UNCHANGED <<parent, p2c, c2p, spc, snoroot, scode, saved, done, conf,
                 procs, monitor, opt, jpc, jx>>

-----------------------------------------------------------------------------
ParentStep ==
  \/ SetSandboxRunFile \/ ParentNet \/ ParentNotify("notify1", "wait1")
  \/ ParentWaitForOther \/ UpdateMaps \/ ParentNotify("notify2", "handler")
  \/ ParentInstallHandler \/ ParentReaps \/ ParentExits \/ MyHandler
  \/ MyHandlerExits

InitStep ==
  \/ SandboxKilled \/ SandboxWaitForOther("wait1", "setup") \/ SandboxSetup
  \/ SandboxSetupFails \/ SandboxUserns \/ SandboxNotify
  \/ SandboxWaitForOther("wait2", "caps") \/ SandboxConfine
  \/ SandboxDropPrivs \/ SandboxPdeathsig \/ SandboxForks \/ MonitorStart
  \/ (\E z \in {"A", "D"} : WaitpidChild(z))
  \/ WaitpidNone \/ WaitpidError \/ MonitorNext \/ SandboxExits
  \/ SandboxTimeUp \/ SandboxHandler \/ SandboxHandlerEnds

JoinStep ==
  \/ CheckJoinable \/ JoinGivesUp \/ JoinExtract \/ JoinNamespaces
  \/ JoinStarts

LaunchNext ==
  \/ ParentStep \/ ParentSignal \/ ParentKilled \/ NetChildEnds \/ InitStep
  \/ AppExec \/ AppCannotStart \/ (\E x \in {"A", "D", "J"} : ProgramExits(x))
  \/ AppForks \/ PinSandboxProcess \/ JoinStep \/ Shut \/ ShutForce

LaunchSpec == LaunchInit /\ [][LaunchNext]_lvars

(* Every firejail process runs on; an application need never end, and      *)
(* nobody need send a signal.  A pending signal is handled when waitpid()  *)
(* is entered, however often the monitor goes round.                       *)
LaunchFairness ==
  /\ WF_lvars(ParentStep) /\ WF_lvars(InitStep) /\ WF_lvars(NetChildEnds)
  /\ WF_lvars(AppExec \/ AppCannotStart)
  /\ WF_lvars(JoinStep) /\ WF_lvars(ShutForce)
  /\ SF_lvars(SandboxHandler) /\ WF_lvars(SandboxKilled)

LaunchFairSpec == LaunchSpec /\ LaunchFairness

-----------------------------------------------------------------------------

(* When the application starts, both sides of the handshake have the same  *)
(* arg_noroot, it says whether the user namespace exists, and the maps of  *)
(* that namespace have been written, although unshare() may fail on one    *)
(* side only and either side may die.                                      *)
HandshakeAgrees ==
  apc # "none" =>
    /\ snoroot = conf["S"].userns
    /\ ppc # "gone" => pnoroot = snoroot
    /\ snoroot /\ ~opt.nogroups => gidmap # {}

(* The application never runs with more than the options leave it: the     *)
(* capabilities that a new user namespace gave back are dropped again,     *)
(* privileges are gone, no_new_privs and the filters are on.               *)
AppConfined ==
  apc = "running" =>
    /\ opt.caps => conf["A"].caps = "limited"
    /\ ~conf["A"].root /\ conf["A"].nnp /\ conf["A"].filters
    /\ conf["A"].groups \subseteq (IF opt.nogroups /\ CanDropAllGroups
                                   THEN {} ELSE Groups)

(* A program that joins the sandbox is confined at least as much as the    *)
(* application: it has no capability and no group the application lacks,   *)
(* although the joining process does not know the options --nosound or     *)
(* --caps and looks at the sandbox from outside, while it starts.          *)
JoinedAsConfined ==
  jpc = "running" /\ opt.scenario = "join" =>
    /\ opt.caps => conf["J"].caps = "limited"
    /\ ~conf["J"].root /\ conf["J"].nnp /\ conf["J"].filters
    /\ conf["J"].userns = conf["S"].userns
    /\ conf["J"].groups \subseteq conf["S"].groups

(* Whatever runs in the sandbox runs in the namespace both sides agreed on *)
(* and is confined, the application and a program that joins it.           *)
ProgramsConfined == HandshakeAgrees /\ AppConfined /\ JoinedAsConfined

(* A signal for the waiting parent, or --shutdown, ends the sandbox and    *)
(* all its programs, also when they ignore signals and when the sandbox    *)
(* has not installed its handler yet.                                      *)
SignalsEndSandbox ==
  /\ (ppc = "my_handler") ~> (ppc = "gone" /\ spc = "dead")
  /\ (kpc = "sent") ~> (spc = "dead")

(* Neither side waits for ever for a peer that died: a sandbox that fails  *)
(* during set-up ends the parent, and a parent that dies before the maps   *)
(* are written ends the sandbox.                                           *)
PeerDeathNoticed ==
  /\ (spc = "dead") ~> (ppc = "gone")
  /\ (ppc = "gone" /\ spc \in {"wait1", "setup", "userns", "notify"})
       ~> (spc = "dead")

(* --timeout ends a sandbox whose application is still running.            *)
TimeoutEndsApp ==
  (opt.timeout /\ spc = "wait" /\ "A" \in alive)
    ~> (spc = "dead" \/ "A" \notin alive)

(* Signals, the death of the other side and the timeout all end what they  *)
(* are meant to end: nobody waits for ever.                                *)
NobodyWaits == SignalsEndSandbox /\ PeerDeathNoticed /\ TimeoutEndsApp

(* The sandbox implements SandboxService: it opens when the application    *)
(* starts, and goes down only when a look at /proc found nothing left, or  *)
(* because of a signal, of --timeout or of --deterministic-shutdown.       *)
Service == INSTANCE SandboxService WITH
  Programs <- {"A", "D", "J"},
  service <- IF spc = "dead" THEN "down" ELSE IF ~done THEN "setup"
             ELSE IF spc = "exit" THEN "closing" ELSE "open",
  members <- {x \in alive : /\ x = "A" => apc = "running"
                            /\ x = "J" => jpc = "running"},
  asked <- \/ sig # "none" \/ spc \in {"timeup", "term", "dead"}
           \/ spc = "ended" /\ opt.detshut
           \/ kpc = "sent"

ImplementsService == Service!ServiceSpec

(* sandbox.c says "kill the sandbox in case the parent died".              *)
ParentDeathKills == (ppc = "gone") ~> (spc = "dead")

=============================================================================
