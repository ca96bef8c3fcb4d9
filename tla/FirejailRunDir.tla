---------------------------- MODULE FirejailRunDir ----------------------------
(***************************************************************************)
(* The files that the running sandboxes share under /run/firejail          *)
(* (preproc.c, run_files.c, name2pid() of lib/common.c, and the parts of   *)
(* main.c that take the two locks).                                        *)
(*                                                                         *)
(* Every launch builds the directory, removes what sandboxes that died     *)
(* left there, writes its own run files, picks a name and an IP address    *)
(* that nobody else has, and removes its run files when it ends.  Launches *)
(* run concurrently, can be killed at any point, and their process ids are *)
(* used again, by firejail or by any other program.                        *)
(***************************************************************************)
EXTENDS Naturals, FiniteSets

CONSTANTS
  Pids,         \* process ids
  StartPid,     \* start_pid of preproc_clean_run(); 100 in the code
  Names,        \* arguments of --name
  Addresses,    \* the addresses of the bridge network
  NameChange,   \* CFG_NAME_CHANGE
  MaxLaunches,  \* bound: launches in one behaviour
  None          \* no name, no address, nobody

ASSUME RunDirAssumption ==
  /\ Pids \subseteq Nat /\ StartPid \in Nat /\ NameChange \in BOOLEAN
  /\ None \notin Pids /\ None \notin Addresses /\ None \notin Names
  /\ None \notin Names \X (Pids \cup {None})

VARIABLES
  pc,        \* where the launch with that pid stands
  arg,       \* its --name and --net options
  files,     \* kinds of run files that exist for a pid
  nameFile,  \* contents of /run/firejail/name/<pid>
  cfgName,   \* cfg.name
  address,   \* cfg.bridge0.ipsandbox
  wire,      \* addresses that answer ARP requests on the network
  dirLock,   \* holder of the directory lock file
  netLock,   \* holder of the network lock file
  pidarr,    \* the processes a launch found in /proc
  launches   \* launches so far

rdvars == <<pc, arg, files, nameFile, cfgName, address, wire, dirLock, netLock,
            pidarr, launches>>

Kinds == {"sandbox", "network", "name", "profile"}

Before == {"start", "locked", "scanning", "clean profile", "clean name",
           "unlock", "own"}
Named == {"named", "cloned", "configured", "up"}
Profiled == {"profiled", "net locked", "assigned", "dir locked"} \cup Named
Firejail == Before \cup {"ready"} \cup Profiled
Idle == {"free", "other"}

\* A name, and the pid that was added to make it unique.
FullNames == Names \X (Pids \cup {None})

Live == {q \in Pids : pc[q] # "free"}

RunDirInit ==
  /\ pc = [p \in Pids |-> "free"]
  /\ arg = [p \in Pids |-> [name |-> None, net |-> FALSE]]
  /\ files = [p \in Pids |-> {}] /\ nameFile = [p \in Pids |-> None]
  /\ cfgName = [p \in Pids |-> None]
  /\ address = [p \in Pids |-> None] /\ wire = {}
  /\ dirLock = None /\ netLock = None
  /\ pidarr = [p \in Pids |-> {}] /\ launches = 0

At(p, from, to) == pc[p] = from /\ pc' = [pc EXCEPT ![p] = to]

(* The process is gone: the kernel releases its locks; its network         *)
(* namespace goes, unless something in it survives a killed parent.        *)
Gone(p, w) ==
  /\ pc' = [pc EXCEPT ![p] = "free"]
  /\ dirLock' = IF dirLock = p THEN None ELSE dirLock
  /\ netLock' = IF netLock = p THEN None ELSE netLock
  /\ cfgName' = [cfgName EXCEPT ![p] = None]
  /\ address' = [address EXCEPT ![p] = None]
  /\ pidarr' = [pidarr EXCEPT ![p] = {}]
  /\ arg' = [arg EXCEPT ![p] = [name |-> None, net |-> FALSE]]
  /\ wire' = w /\ UNCHANGED launches

(* delete_run_files()                                                      *)
DeleteRunFiles(p) ==
  /\ files' = [files EXCEPT ![p] = {}]
  /\ nameFile' = [nameFile EXCEPT ![p] = None]

-----------------------------------------------------------------------------
(* A pid comes into use: a firejail with its options, or another program.  *)
Launch(p) ==
  /\ At(p, "free", "start")
  /\ launches < MaxLaunches /\ launches' = launches + 1
  /\ \E n \in Names \cup {None}, b \in BOOLEAN :
       arg' = [arg EXCEPT ![p] = [name |-> n, net |-> b]]
  /\ UNCHANGED <<files, nameFile, cfgName, address, wire, dirLock, netLock,
                 pidarr>>

OtherProgram(p) ==
  /\ (At(p, "free", "other") \/ At(p, "other", "free"))
  /\ UNCHANGED <<arg, files, nameFile, cfgName, address, wire, dirLock,
                 netLock, pidarr, launches>>

\* Mutant of PreprocLockDir: the lock file is not locked.
PreprocNoLock(p, from, to) ==
  /\ At(p, from, to) /\ UNCHANGED dirLock
  /\ UNCHANGED <<arg, files, nameFile, cfgName, address, wire, netLock,
                 pidarr, launches>>

(* preproc_lock_firejail_dir(): flock() waits until the lock is free.      *)
PreprocLockDir(p, from, to) ==
  /\ At(p, from, to)
  /\ dirLock = None /\ dirLock' = p
  /\ UNCHANGED <<arg, files, nameFile, cfgName, address, wire, netLock,
                 pidarr, launches>>

PreprocUnlockDir(p, from, to) ==
  /\ At(p, from, to)
  /\ dirLock' = None
  /\ UNCHANGED <<arg, files, nameFile, cfgName, address, wire, netLock,
                 pidarr, launches>>

(* Prologue of main(): the directory tree is built and locked.  A firejail *)
(* running in a firejail sandbox does not clean up.                        *)
LockDirectory(p) == PreprocLockDir(p, "start", "locked")

SkipCleaning(p) ==
  /\ At(p, "locked", "unlock")
  /\ UNCHANGED <<arg, files, nameFile, cfgName, address, wire, dirLock,
                 netLock, pidarr, launches>>

(* preproc_clean_run() reads /proc into pidarr.  The directory is not read *)
(* atomically: processes that start or end meanwhile may be found or not.  *)
CleanRunOpen(p) ==
  /\ At(p, "locked", "scanning")
  /\ pidarr' = [pidarr EXCEPT ![p] = Live]
  /\ UNCHANGED <<arg, files, nameFile, cfgName, address, wire, dirLock,
                 netLock, launches>>

CleanRunRead(p) ==
  /\ At(p, "scanning", "clean profile")
  /\ \E found \in SUBSET (pidarr[p] \cup Live) :
       /\ pidarr[p] \cap Live \subseteq found
       /\ pidarr' = [pidarr EXCEPT ![p] = {q \in found : q >= StartPid}]
  /\ UNCHANGED <<arg, files, nameFile, cfgName, address, wire, dirLock,
                 netLock, launches>>

(* clean_dir(): a file named after a process that is not in pidarr goes,   *)
(* with all the other run files of that process.                           *)
CleanDirEntry(p, q) ==
  /\ \/ pc[p] = "clean profile" /\ "profile" \in files[q]
     \/ pc[p] = "clean name" /\ "name" \in files[q]
  /\ q >= StartPid /\ q \notin pidarr[p]
  /\ DeleteRunFiles(q)
  /\ UNCHANGED <<pc, arg, cfgName, address, wire, dirLock, netLock,
                 pidarr, launches>>

CleanRunNext(p) ==
  /\ (At(p, "clean profile", "clean name") \/ At(p, "clean name", "unlock"))
  /\ UNCHANGED <<arg, files, nameFile, cfgName, address, wire, dirLock,
                 netLock, pidarr, launches>>

UnlockDirectory(p) == PreprocUnlockDir(p, "unlock", "own")

(* The run files an earlier process with this pid may have left.           *)
DeleteOwn(p) ==
  /\ At(p, "own", "ready") /\ DeleteRunFiles(p)
  /\ UNCHANGED <<arg, cfgName, address, wire, dirLock, netLock, pidarr,
                 launches>>

-----------------------------------------------------------------------------
(* set_profile_run_file(), when a profile file has been read.              *)
SetProfileRunFile(p) ==
  /\ At(p, "ready", "profiled")
  /\ files' = [files EXCEPT ![p] = @ \cup {"profile"}]
  /\ UNCHANGED <<arg, nameFile, cfgName, address, wire, dirLock, netLock,
                 pidarr, launches>>

\* Mutant of LockNetwork: preproc_lock_firejail_network_dir() is not called.
NoLockNetwork(p) ==
  /\ arg[p].net /\ At(p, "profiled", "net locked")
  /\ UNCHANGED netLock
  /\ UNCHANGED <<arg, files, nameFile, cfgName, address, wire, dirLock,
                 pidarr, launches>>

(* The network lock is held until the sandbox has configured its interface.*)
LockNetwork(p) ==
  /\ arg[p].net /\ At(p, "profiled", "net locked")
  /\ netLock = None /\ netLock' = p
  /\ UNCHANGED <<arg, files, nameFile, cfgName, address, wire, dirLock,
                 pidarr, launches>>

(* check_network() takes an address that nobody answers for, and           *)
(* network_set_run_file() writes it to the network map.                    *)
AssignAddress(p) ==
  /\ At(p, "net locked", "assigned")
  /\ \E a \in Addresses \ wire : address' = [address EXCEPT ![p] = a]
  /\ files' = [files EXCEPT ![p] = @ \cup {"network"}]
  /\ UNCHANGED <<arg, nameFile, cfgName, wire, dirLock, netLock, pidarr,
                 launches>>

\* arp_assign() finds no free address and exits.
NoAddress(p) ==
  /\ pc[p] = "net locked" /\ Addresses \subseteq wire
  /\ DeleteRunFiles(p) /\ Gone(p, wire)

LockForName(p) ==
  \/ ~arg[p].net /\ PreprocLockDir(p, "profiled", "dir locked")
  \/ PreprocLockDir(p, "assigned", "dir locked")

(* name2pid(): a running firejail other than the caller has that name.     *)
Name2pid(p, n) ==
  \E q \in Pids \ {p} : /\ pc[q] \in Firejail
                        /\ "name" \in files[q] /\ nameFile[q] = n

(* newname(): a name that is taken is extended with the pid.               *)
NewName(p) ==
  IF NameChange /\ Name2pid(p, <<arg[p].name, None>>)
  THEN <<arg[p].name, p>> ELSE <<arg[p].name, None>>

(* set_name_run_file(), under the directory lock.                          *)
SetNameRunFile(p) ==
  /\ At(p, "dir locked", "named")
  /\ IF arg[p].name = None
     THEN UNCHANGED <<files, nameFile, cfgName>>
     ELSE /\ files' = [files EXCEPT ![p] = @ \cup {"name"}]
          /\ cfgName' = [cfgName EXCEPT ![p] = NewName(p)]
          /\ nameFile' = [nameFile EXCEPT ![p] = NewName(p)]
  /\ UNCHANGED <<arg, address, wire, dirLock, netLock, pidarr, launches>>

UnlockAfterName(p) == PreprocUnlockDir(p, "named", "cloned")

(* set_sandbox_run_file() after clone(); the child brings its interface up *)
(* and announces the address before it answers the parent.                 *)
ConfigureSandbox(p) ==
  /\ At(p, "cloned", "configured")
  /\ files' = [files EXCEPT ![p] = @ \cup {"sandbox"}]
  /\ wire' = IF arg[p].net THEN wire \cup {address[p]} ELSE wire
  /\ UNCHANGED <<arg, nameFile, cfgName, address, dirLock, netLock, pidarr,
                 launches>>

\* Mutant of UnlockNetwork: the network lock stays with the sandbox.
KeepNetworkLock(p) ==
  /\ At(p, "configured", "up")
  /\ UNCHANGED <<arg, files, nameFile, cfgName, address, wire, dirLock,
                 netLock, pidarr, launches>>

UnlockNetwork(p) ==
  /\ At(p, "configured", "up")
  /\ netLock' = IF netLock = p THEN None ELSE netLock
  /\ UNCHANGED <<arg, files, nameFile, cfgName, address, wire, dirLock,
                 pidarr, launches>>

-----------------------------------------------------------------------------
(* clear_atexit() runs in every exit() after the prologue, and myexit()    *)
(* removes the files first.                                                *)
Exit(p) ==
  /\ pc[p] \in Firejail \ Before /\ DeleteRunFiles(p)
  /\ Gone(p, wire \ {address[p]})

\* A signal nobody handles, at any point.  A child that was cloned may still
\* bring its interface up; it keeps the lock, with its copy of the descriptor,
\* until it reads end-of-file from its parent.
Killed(p) ==
  /\ pc[p] \in Firejail
  /\ \/ Gone(p, wire) \/ Gone(p, wire \ {address[p]})
     \/ pc[p] = "cloned" /\ arg[p].net /\ Gone(p, wire \cup {address[p]})
  /\ UNCHANGED <<files, nameFile>>

\* What a killed launch left on the network ends later.
Orphan(a) ==
  /\ a \in wire /\ \A q \in Pids : address[q] # a
  /\ wire' = wire \ {a}
  /\ UNCHANGED <<pc, arg, files, nameFile, cfgName, address, dirLock, netLock,
                 pidarr, launches>>

RunDirStep(p) ==
  \/ LockDirectory(p) \/ SkipCleaning(p) \/ CleanRunOpen(p) \/ CleanRunRead(p)
  \/ (\E q \in Pids : CleanDirEntry(p, q))
  \/ CleanRunNext(p) \/ UnlockDirectory(p) \/ DeleteOwn(p)
  \/ SetProfileRunFile(p) \/ LockNetwork(p) \/ AssignAddress(p) \/ NoAddress(p)
  \/ LockForName(p) \/ SetNameRunFile(p) \/ UnlockAfterName(p)
  \/ ConfigureSandbox(p) \/ UnlockNetwork(p)

RunDirNext ==
  \/ (\E p \in Pids : \/ Launch(p) \/ OtherProgram(p) \/ RunDirStep(p)
                      \/ Exit(p) \/ Killed(p))
  \/ (\E a \in Addresses : Orphan(a))

RunDirSpec == RunDirInit /\ [][RunDirNext]_rdvars

(* A process is not stopped for ever.  With finitely many launches this is *)
(* enough: flock() need not be fair.                                       *)
RunDirFairness == \A p \in Pids : WF_rdvars(RunDirStep(p))

RunDirFairSpec == RunDirSpec /\ RunDirFairness

-----------------------------------------------------------------------------
(* No launch removes the run files of a launch that is running: after      *)
(* set_profile_run_file() and set_name_run_file() the files stay, with the *)
(* name that was chosen, whatever preproc_clean_run() others run.          *)
LiveFilesKept ==
  \A p \in Pids :
    /\ pc[p] \in Profiled => "profile" \in files[p]
    /\ cfgName[p] # None => "name" \in files[p] /\ nameFile[p] = cfgName[p]

(* With CFG_NAME_CHANGE no two running sandboxes have the same name, so    *)
(* that --join=name and --shutdown=name mean one sandbox.                  *)
UniqueNames ==
  NameChange =>
    \A p, q \in Pids : cfgName[p] # None /\ cfgName[p] = cfgName[q] => p = q

(* Two sandboxes never get the same address, although the address is free  *)
(* on the wire until the other sandbox, a process of its own, brings its   *)
(* interface up.                                                           *)
UniqueAddresses ==
  \A p, q \in Pids : address[p] # None /\ address[p] = address[q] => p = q

(* Sandboxes can be told apart: by their names and by their addresses.     *)
SandboxesDistinct == UniqueNames /\ UniqueAddresses

(* Nobody waits for ever: a launch that has started either runs its        *)
(* sandbox or has ended, whoever else is cleaning, choosing a name or      *)
(* probing for an address.                                                 *)
LaunchesEnd == \A p \in Pids : pc[p] = "start" ~> pc[p] \in {"up", "free"}

=============================================================================
