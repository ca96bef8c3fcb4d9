--------------------------- MODULE MCFirejailTools ---------------------------
(***************************************************************************)
(* The helper programs of firejail, each by itself from its idle state:    *)
(* the log rotation, the copying of files, the network lock, the radix     *)
(* tree of the network trace and the process monitor.                      *)
(***************************************************************************)
EXTENDS FirejailFtee, FirejailCopy, FirejailNetlock, FirejailRadix, FirejailMon

(* A directory with a file and a directory with a file, a link, a file.    *)
SourceEntry(kind, size, up) == [kind |-> kind, size |-> size, up |-> up]
SourceTree ==
  << SourceEntry("dir", 1, 0), SourceEntry("file", 2, 1), SourceEntry("dir", 1, 1),
     SourceEntry("file", 1, 3), SourceEntry("link", 1, 0), SourceEntry("file", 3, 0) >>
SingleEntries == { SourceEntry("file", 9, 0), SourceEntry("link", 1, 0) }

(* Two hosts share a bucket.                                               *)
TwoBuckets(a) == IF a = "c" THEN 1 ELSE 0

(* Every table of three pids for pid_read; the monitor is started beside   *)
(* two processes outside, and on a sandbox with one process.               *)
Free(t, p) == t.comm[p] = "none"
AllTables ==
  { t \in [ppid : [Pids -> Pids \cup {1}], comm : [Pids -> {"none", "firejail", "other"}], mon : Pids \cup {0}] :
      /\ \A p \in Pids : t.ppid[Last(Ancestors(t, p))] = 1
      /\ \A p \in Pids : (Free(t, p) => t.ppid[p] = 1) /\ (t.ppid[p] # 1 => ~Free(t, t.ppid[p]))
      /\ t.mon # 0 => t.comm[t.mon] = "firejail" /\ t.ppid[t.mon] = 1 }
StartedOn(t) ==
  /\ t.ppid[2] = 1 /\ Free(t, 4) /\ t.comm[3] = "other"
  /\ IF t.comm[2] = "firejail" THEN t.ppid[3] = 2 ELSE t.ppid[3] = 1 /\ t.comm[2] = "other"

FteeIdle == starts = 0
CopyIdle == cPhase = "idle"
NetlockIdle == nPhase = "idle"
RadixIdle == rPhase = "idle"
MonIdle == mPhase = "idle"

ToolsIdle == FteeIdle /\ CopyIdle /\ NetlockIdle /\ RadixIdle /\ MonIdle
toolsVars == <<fteeVars, copyVars, netlockVars, radixVars, monVars>>

ToolsInit == FteeInit /\ CopyInit /\ NetlockInit /\ RadixInit /\ MonInit
ToolsNext ==
  \/ /\ CopyIdle /\ NetlockIdle /\ RadixIdle /\ MonIdle
     /\ FteeNext /\ UNCHANGED <<copyVars, netlockVars, radixVars, monVars>>
  \/ /\ FteeIdle /\ NetlockIdle /\ RadixIdle /\ MonIdle
     /\ CopyNext /\ UNCHANGED <<fteeVars, netlockVars, radixVars, monVars>>
  \/ /\ FteeIdle /\ CopyIdle /\ RadixIdle /\ MonIdle
     /\ NetlockNext /\ UNCHANGED <<fteeVars, copyVars, radixVars, monVars>>
  \/ /\ FteeIdle /\ CopyIdle /\ NetlockIdle /\ MonIdle
     /\ RadixNext /\ UNCHANGED <<fteeVars, copyVars, netlockVars, monVars>>
  \/ /\ FteeIdle /\ CopyIdle /\ NetlockIdle /\ RadixIdle
     /\ MonNext /\ UNCHANGED <<fteeVars, copyVars, netlockVars, radixVars>>

\* The helpers that write files leave them whole: ftee's rotated logs are a
\* bounded and gapless tail of what was logged, and a copy that fcopy ended is
\* a prefix of the source within the limit, with no half written file.
FilesSound == LogsSound /\ CopySound

\* What the network helpers make of addresses is exact: the firewall that
\* fnetlock locked lets through exactly the hosts that sent something, and
\* fnettrace names the owner of the longest listed prefix of an address.
TrafficSound == LockedToSenders /\ MatchIsLongest
=============================================================================
