------------------------ MODULE FirejailRunDir_proofs ------------------------
(***************************************************************************)
(* Proofs about FirejailRunDir, for any number of launches, process ids,   *)
(* names and addresses: run files are kept, names and addresses are        *)
(* unique.                                                                 *)
(***************************************************************************)
EXTENDS FirejailRunDir, TLAPS

Places == Idle \cup Firejail
Options == [name : Names \cup {None}, net : BOOLEAN]
Chosen == FullNames \cup {None}
Taken == Addresses \cup {None}
Holders == Pids \cup {None}

RunDirTypeOK ==
  /\ pc \in [Pids -> Places] /\ arg \in [Pids -> Options]
  /\ files \in [Pids -> SUBSET Kinds]
  /\ nameFile \in [Pids -> Chosen] /\ cfgName \in [Pids -> Chosen]
  /\ address \in [Pids -> Taken] /\ wire \in SUBSET Addresses
  /\ dirLock \in Holders /\ netLock \in Holders
  /\ pidarr \in [Pids -> SUBSET Pids] /\ launches \in Nat

Cleaning == {"scanning", "clean profile", "clean name"}
Past == {"own", "ready"} \cup Profiled
Reserved == {"assigned", "dir locked", "named", "cloned"}
Announced == {"configured", "up"}
UnderDirLock == {"locked", "unlock", "dir locked", "named"} \cup Cleaning
UnderNetLock == {"net locked", "configured"} \cup Reserved

(* The locks are held by the launches that are between lock and unlock.    *)
LocksMatch ==
  \A p \in Pids :
    /\ pc[p] \in UnderDirLock => dirLock = p
    /\ arg[p].net /\ pc[p] \in UnderNetLock => netLock = p

(* A launch that cleans up has found every launch that is past its own     *)
(* clean-up, and can be about to write run files.                          *)
CleanerKnows ==
  \A p, q \in Pids :
    pc[p] \in Cleaning /\ pc[q] \in Past /\ q >= StartPid => q \in pidarr[p]

(* A launch has a name only after it has chosen one, and a number that was *)
(* added to a name is the pid of its launch.                               *)
NamesOwned ==
  \A p \in Pids : cfgName[p] # None =>
    pc[p] \in Named /\ \E n \in Names : cfgName[p] \in {<<n, None>>, <<n, p>>}

(* An address belongs to a launch with --net that has probed for it; it is *)
(* on the wire when its interface is configured, and not before.           *)
AddressesOwned ==
  \A p \in Pids :
    /\ pc[p] \in {"net locked", "assigned"} => arg[p].net
    /\ address[p] # None => arg[p].net /\ pc[p] \in Reserved \cup Announced
    /\ arg[p].net /\ pc[p] \in Reserved => address[p] \in Addresses \ wire
    /\ arg[p].net /\ pc[p] \in Announced => address[p] \in wire

(* The inductive invariant.  LiveFilesKept needs CleanerKnows, which needs *)
(* the directory lock; UniqueNames needs LiveFilesKept, because a name is  *)
(* looked up in the files; UniqueAddresses needs the network lock.         *)
RunDirInv ==
  /\ RunDirTypeOK /\ LocksMatch /\ CleanerKnows /\ NamesOwned /\ AddressesOwned
  /\ LiveFilesKept /\ UniqueNames /\ UniqueAddresses

-----------------------------------------------------------------------------
LEMMA InitInv == RunDirInit => RunDirInv
  BY RunDirAssumption DEF RunDirInit, RunDirInv, RunDirTypeOK, LocksMatch,
     CleanerKnows, NamesOwned, AddressesOwned, LiveFilesKept, UniqueNames,
     UniqueAddresses, Places, Options, Chosen, Taken, Holders, Idle, Firejail,
     Before, Profiled, Named, Cleaning, Past, Reserved, Announced,
     UnderDirLock, UnderNetLock

(* What a place asks of a launch that comes to it from another place.      *)
MayMove(from, to, net) ==
  /\ to \in Places
  /\ to \in Cleaning => from \in Cleaning
  /\ to \in Past => from \in Past \cup UnderDirLock
  /\ to \in Profiled => from \in Profiled
  /\ from \in Named => to \in Named
  /\ to \in {"net locked", "assigned"} => net
  /\ from \in Reserved \cup Announced => to \in Reserved \cup Announced
  /\ net /\ to \in Reserved => from \in Reserved
  /\ net /\ to \in Announced => from \in Announced

(* A launch goes on and changes nothing but locks.                         *)
LEMMA MoveInv ==
  ASSUME RunDirInv, NEW p \in Pids, NEW to \in Places,
         pc' = [pc EXCEPT ![p] = to],
         UNCHANGED <<arg, files, nameFile, cfgName, address, wire, pidarr, launches>>,
         dirLock' \in Holders, netLock' \in Holders, LocksMatch',
         MayMove(pc[p], to, arg[p].net)
  PROVE  RunDirInv'
<1> USE DEF RunDirInv, RunDirTypeOK
<1>1. RunDirTypeOK'
  OBVIOUS
<1>2. CleanerKnows'
  <2>1. Cleaning \cap Past = {} /\ Cleaning \subseteq UnderDirLock
    BY DEF Cleaning, Past, Profiled, Named, UnderDirLock
  <2> QED
    BY <2>1 DEF CleanerKnows, LocksMatch, MayMove
<1>3. NamesOwned' /\ UniqueNames' /\ UniqueAddresses'
  BY DEF NamesOwned, UniqueNames, UniqueAddresses, MayMove
<1>4. AddressesOwned'
  BY DEF AddressesOwned, MayMove
<1>5. LiveFilesKept'
  BY DEF LiveFilesKept, MayMove
<1> QED
  BY <1>1, <1>2, <1>3, <1>4, <1>5

(* The locks after a step that takes or gives back the directory lock, or  *)
(* takes none.                                                             *)
LEMMA DirLockMoves ==
  ASSUME RunDirInv, NEW p \in Pids, NEW to \in Places,
         pc' = [pc EXCEPT ![p] = to], UNCHANGED <<arg, netLock>>,
         \/ dirLock = None /\ dirLock' = p
         \/ dirLock = p /\ to \notin UnderDirLock
         \/ dirLock' = dirLock /\ (to \in UnderDirLock => dirLock = p),
         to \in UnderNetLock /\ arg[p].net => pc[p] \in UnderNetLock
  PROVE  LocksMatch'
  BY RunDirAssumption DEF RunDirInv, RunDirTypeOK, LocksMatch

(* One lemma for each step of a launch.                                    *)
LEMMA OtherProgramInv ==
  ASSUME RunDirInv, NEW p \in Pids, OtherProgram(p)
  PROVE  RunDirInv'
<1>1. /\ pc[p] \in Idle /\ pc'[p] \in Idle /\ pc' = [pc EXCEPT ![p] = pc'[p]]
      /\ UNCHANGED <<arg, files, nameFile, cfgName, address, wire, pidarr, launches, dirLock, netLock>>
  BY DEF RunDirInv, RunDirTypeOK, OtherProgram, At, Idle
<1>2. MayMove(pc[p], pc'[p], arg[p].net) /\ (pc'[p] \in UnderNetLock /\ arg[p].net => pc[p] \in UnderNetLock)
  BY <1>1 DEF MayMove, Places, Idle, Firejail, Before, Profiled, Named, Cleaning, Past,
     Reserved, Announced, UnderDirLock, UnderNetLock
<1>3. dirLock' \in Holders /\ netLock' \in Holders /\ pc'[p] \notin UnderDirLock
  BY <1>1, RunDirAssumption DEF RunDirInv, RunDirTypeOK, LocksMatch, Holders, UnderDirLock, Cleaning, Idle
<1>4. LocksMatch'
  BY <1>1, <1>2, <1>3, DirLockMoves DEF MayMove
<1> QED
  BY <1>1, <1>2, <1>3, <1>4, MoveInv DEF MayMove

LEMMA LockDirectoryInv ==
  ASSUME RunDirInv, NEW p \in Pids, LockDirectory(p)
  PROVE  RunDirInv'
<1>1. /\ pc[p] = "start" /\ pc' = [pc EXCEPT ![p] = "locked"]
      /\ dirLock = None /\ dirLock' = p
      /\ UNCHANGED <<arg, files, nameFile, cfgName, address, wire, pidarr, launches, netLock>>
  BY DEF LockDirectory, PreprocLockDir, At
<1>2. MayMove(pc[p], "locked", arg[p].net) /\ ("locked" \in UnderNetLock /\ arg[p].net => pc[p] \in UnderNetLock)
  BY <1>1 DEF MayMove, Places, Idle, Firejail, Before, Profiled, Named, Cleaning, Past,
     Reserved, Announced, UnderDirLock, UnderNetLock
<1>3. dirLock' \in Holders /\ netLock' \in Holders
  BY <1>1, RunDirAssumption DEF RunDirInv, RunDirTypeOK, LocksMatch, Holders, UnderDirLock, Cleaning, Idle
<1>4. LocksMatch'
  BY <1>1, <1>2, <1>3, DirLockMoves DEF MayMove
<1> QED
  BY <1>1, <1>2, <1>3, <1>4, MoveInv DEF MayMove

LEMMA SkipCleaningInv ==
  ASSUME RunDirInv, NEW p \in Pids, SkipCleaning(p)
  PROVE  RunDirInv'
<1>1. /\ pc[p] = "locked" /\ pc' = [pc EXCEPT ![p] = "unlock"]
      /\ UNCHANGED <<arg, files, nameFile, cfgName, address, wire, pidarr, launches, dirLock, netLock>>
  BY DEF SkipCleaning, At
<1>2. MayMove(pc[p], "unlock", arg[p].net) /\ ("unlock" \in UnderNetLock /\ arg[p].net => pc[p] \in UnderNetLock)
  BY <1>1 DEF MayMove, Places, Idle, Firejail, Before, Profiled, Named, Cleaning, Past,
     Reserved, Announced, UnderDirLock, UnderNetLock
<1>3. dirLock' \in Holders /\ netLock' \in Holders /\ dirLock = p
  BY <1>1, RunDirAssumption DEF RunDirInv, RunDirTypeOK, LocksMatch, Holders, UnderDirLock, Cleaning, Idle
<1>4. LocksMatch'
  BY <1>1, <1>2, <1>3, DirLockMoves DEF MayMove
<1> QED
  BY <1>1, <1>2, <1>3, <1>4, MoveInv DEF MayMove

LEMMA CleanRunNextInv ==
  ASSUME RunDirInv, NEW p \in Pids, CleanRunNext(p)
  PROVE  RunDirInv'
<1>1. /\ pc[p] \in {"clean profile", "clean name"}
      /\ pc'[p] \in {"clean name", "unlock"} /\ pc' = [pc EXCEPT ![p] = pc'[p]]
      /\ UNCHANGED <<arg, files, nameFile, cfgName, address, wire, pidarr, launches, dirLock, netLock>>
  BY DEF RunDirInv, RunDirTypeOK, CleanRunNext, At
<1>2. MayMove(pc[p], pc'[p], arg[p].net) /\ (pc'[p] \in UnderNetLock /\ arg[p].net => pc[p] \in UnderNetLock)
  BY <1>1 DEF MayMove, Places, Idle, Firejail, Before, Profiled, Named, Cleaning, Past,
     Reserved, Announced, UnderDirLock, UnderNetLock
<1>3. dirLock' \in Holders /\ netLock' \in Holders /\ dirLock = p
  BY <1>1, RunDirAssumption DEF RunDirInv, RunDirTypeOK, LocksMatch, Holders, UnderDirLock, Cleaning, Idle
<1>4. LocksMatch'
  BY <1>1, <1>2, <1>3, DirLockMoves DEF MayMove
<1> QED
  BY <1>1, <1>2, <1>3, <1>4, MoveInv DEF MayMove

LEMMA UnlockDirectoryInv ==
  ASSUME RunDirInv, NEW p \in Pids, UnlockDirectory(p)
  PROVE  RunDirInv'
<1>1. /\ pc[p] = "unlock" /\ pc' = [pc EXCEPT ![p] = "own"]
      /\ dirLock' = None
      /\ UNCHANGED <<arg, files, nameFile, cfgName, address, wire, pidarr, launches, netLock>>
  BY DEF UnlockDirectory, PreprocUnlockDir, At
<1>2. MayMove(pc[p], "own", arg[p].net) /\ ("own" \in UnderNetLock /\ arg[p].net => pc[p] \in UnderNetLock)
  BY <1>1 DEF MayMove, Places, Idle, Firejail, Before, Profiled, Named, Cleaning, Past,
     Reserved, Announced, UnderDirLock, UnderNetLock
<1>3. dirLock' \in Holders /\ netLock' \in Holders /\ dirLock = p /\ "own" \notin UnderDirLock
  BY <1>1, RunDirAssumption DEF RunDirInv, RunDirTypeOK, LocksMatch, Holders, UnderDirLock, Cleaning, Idle
<1>4. LocksMatch'
  BY <1>1, <1>2, <1>3, DirLockMoves DEF MayMove
<1> QED
  BY <1>1, <1>2, <1>3, <1>4, MoveInv DEF MayMove

LEMMA LockForNameInv ==
  ASSUME RunDirInv, NEW p \in Pids, LockForName(p)
  PROVE  RunDirInv'
<1>1. /\ pc[p] \in {"profiled", "assigned"} /\ (pc[p] = "profiled" => ~arg[p].net)
      /\ pc' = [pc EXCEPT ![p] = "dir locked"]
      /\ dirLock = None /\ dirLock' = p
      /\ UNCHANGED <<arg, files, nameFile, cfgName, address, wire, pidarr, launches, netLock>>
  BY DEF LockForName, PreprocLockDir, At
<1>2. MayMove(pc[p], "dir locked", arg[p].net) /\ ("dir locked" \in UnderNetLock /\ arg[p].net => pc[p] \in UnderNetLock)
  BY <1>1 DEF MayMove, Places, Idle, Firejail, Before, Profiled, Named, Cleaning, Past,
     Reserved, Announced, UnderDirLock, UnderNetLock
<1>3. dirLock' \in Holders /\ netLock' \in Holders
  BY <1>1, RunDirAssumption DEF RunDirInv, RunDirTypeOK, LocksMatch, Holders, UnderDirLock, Cleaning, Idle
<1>4. LocksMatch'
  BY <1>1, <1>2, <1>3, DirLockMoves DEF MayMove
<1> QED
  BY <1>1, <1>2, <1>3, <1>4, MoveInv DEF MayMove

LEMMA UnlockAfterNameInv ==
  ASSUME RunDirInv, NEW p \in Pids, UnlockAfterName(p)
  PROVE  RunDirInv'
<1>1. /\ pc[p] = "named" /\ pc' = [pc EXCEPT ![p] = "cloned"]
      /\ dirLock' = None
      /\ UNCHANGED <<arg, files, nameFile, cfgName, address, wire, pidarr, launches, netLock>>
  BY DEF UnlockAfterName, PreprocUnlockDir, At
<1>2. MayMove(pc[p], "cloned", arg[p].net) /\ ("cloned" \in UnderNetLock /\ arg[p].net => pc[p] \in UnderNetLock)
  BY <1>1 DEF MayMove, Places, Idle, Firejail, Before, Profiled, Named, Cleaning, Past,
     Reserved, Announced, UnderDirLock, UnderNetLock
<1>3. dirLock' \in Holders /\ netLock' \in Holders /\ dirLock = p /\ "cloned" \notin UnderDirLock
  BY <1>1, RunDirAssumption DEF RunDirInv, RunDirTypeOK, LocksMatch, Holders, UnderDirLock, Cleaning, Idle
<1>4. LocksMatch'
  BY <1>1, <1>2, <1>3, DirLockMoves DEF MayMove
<1> QED
  BY <1>1, <1>2, <1>3, <1>4, MoveInv DEF MayMove

LEMMA LockNetworkInv ==
  ASSUME RunDirInv, NEW p \in Pids, LockNetwork(p)
  PROVE  RunDirInv'
<1>1. /\ pc[p] = "profiled" /\ pc' = [pc EXCEPT ![p] = "net locked"]
      /\ arg[p].net /\ netLock = None /\ netLock' = p
      /\ UNCHANGED <<arg, files, nameFile, cfgName, address, wire, pidarr, launches, dirLock>>
  BY DEF LockNetwork, At
<1>2. MayMove(pc[p], "net locked", arg[p].net) /\ "net locked" \notin UnderDirLock
  BY <1>1 DEF MayMove, Places, Idle, Firejail, Before, Profiled, Named, Cleaning, Past,
     Reserved, Announced, UnderDirLock, UnderNetLock
<1>3. dirLock' \in Holders /\ netLock' \in Holders
  BY <1>1 DEF RunDirInv, RunDirTypeOK, Holders
<1>4. LocksMatch'
  BY <1>1, <1>2, RunDirAssumption DEF RunDirInv, RunDirTypeOK, LocksMatch
<1> QED
  BY <1>1, <1>2, <1>3, <1>4, MoveInv DEF MayMove

LEMMA UnlockNetworkInv ==
  ASSUME RunDirInv, NEW p \in Pids, UnlockNetwork(p)
  PROVE  RunDirInv'
<1>1. /\ pc[p] = "configured" /\ pc' = [pc EXCEPT ![p] = "up"]
      /\ netLock' = IF netLock = p THEN None ELSE netLock
      /\ UNCHANGED <<arg, files, nameFile, cfgName, address, wire, pidarr, launches, dirLock>>
  BY DEF UnlockNetwork, At
<1>2. MayMove(pc[p], "up", arg[p].net) /\ "up" \notin UnderDirLock
  BY <1>1 DEF MayMove, Places, Idle, Firejail, Before, Profiled, Named, Cleaning, Past,
     Reserved, Announced, UnderDirLock, UnderNetLock
<1>3. dirLock' \in Holders /\ netLock' \in Holders
  BY <1>1 DEF RunDirInv, RunDirTypeOK, Holders
<1>4. LocksMatch'
  <2>1. "up" \notin UnderNetLock /\ "configured" \in UnderNetLock
    BY DEF UnderNetLock, Reserved
  <2> QED
    BY <1>1, <1>2, <2>1 DEF RunDirInv, RunDirTypeOK, LocksMatch
<1> QED
  BY <1>1, <1>2, <1>3, <1>4, MoveInv DEF MayMove

LEMMA LaunchInv ==
  ASSUME RunDirInv, NEW p \in Pids, Launch(p)
  PROVE  RunDirInv'
<1> USE RunDirAssumption DEF RunDirInv, RunDirTypeOK
<1>1. PICK n \in Names \cup {None}, b \in BOOLEAN :
        arg' = [arg EXCEPT ![p] = [name |-> n, net |-> b]]
  BY DEF Launch
<1>2. /\ pc[p] = "free" /\ pc' = [pc EXCEPT ![p] = "start"] /\ launches' = launches + 1
      /\ UNCHANGED <<files, nameFile, cfgName, address, wire, dirLock, netLock, pidarr>>
  BY DEF Launch, At
<1>3. RunDirTypeOK'
  <2>1. [name |-> n, net |-> b] \in Options /\ "start" \in Places
    BY DEF Options, Places, Firejail, Before
  <2> QED
    BY <1>1, <1>2, <2>1
<1>4. LocksMatch'
  BY <1>1, <1>2 DEF LocksMatch, UnderDirLock, UnderNetLock, Cleaning, Reserved
<1>5. CleanerKnows'
  BY <1>2 DEF CleanerKnows, Cleaning, Past, Profiled, Named
<1>6. NamesOwned' /\ UniqueNames' /\ UniqueAddresses'
  BY <1>2 DEF NamesOwned, UniqueNames, UniqueAddresses, Named
<1>7. AddressesOwned'
  BY <1>1, <1>2 DEF AddressesOwned, Reserved, Announced
<1>8. LiveFilesKept'
  BY <1>2 DEF LiveFilesKept, Profiled, Named
<1> QED
  BY <1>3, <1>4, <1>5, <1>6, <1>7, <1>8

(* A launch reads /proc: what it finds includes the launches that were     *)
(* alive all the time.                                                     *)
LEMMA ScanInv ==
  ASSUME RunDirInv, NEW p \in Pids, NEW found \in SUBSET Pids, NEW to \in Cleaning,
         pc[p] \in UnderDirLock \ {"dir locked", "named"},
         pc' = [pc EXCEPT ![p] = to], pidarr' = [pidarr EXCEPT ![p] = found],
         UNCHANGED <<arg, files, nameFile, cfgName, address, wire, dirLock, netLock, launches>>,
         \A q \in Pids : pc[q] \in Past /\ q >= StartPid => q \in found
  PROVE  RunDirInv'
<1> USE RunDirAssumption DEF RunDirInv, RunDirTypeOK
<1>1. /\ to \in Places /\ to \in UnderDirLock /\ to \notin UnderNetLock
      /\ to \notin Past /\ to \notin Profiled /\ to \notin Named
      /\ to \notin {"net locked", "assigned"} \cup Reserved \cup Announced
  BY DEF Places, Firejail, Before, UnderDirLock, UnderNetLock, Past, Profiled, Named, Cleaning,
         Reserved, Announced
<1>2. pc[p] \notin Named /\ pc[p] \notin Reserved \cup Announced
  BY DEF UnderDirLock, Cleaning, Named, Reserved, Announced
<1>3. RunDirTypeOK'
  BY <1>1
<1>4. LocksMatch'
  BY <1>1 DEF LocksMatch
<1>5. CleanerKnows'
  BY <1>1 DEF CleanerKnows
<1>6. NamesOwned' /\ UniqueNames' /\ UniqueAddresses'
  BY <1>2 DEF NamesOwned, UniqueNames, UniqueAddresses
<1>7. AddressesOwned'
  BY <1>1, <1>2 DEF AddressesOwned
<1>8. LiveFilesKept'
  BY <1>1 DEF LiveFilesKept
<1> QED
  BY <1>3, <1>4, <1>5, <1>6, <1>7, <1>8

LEMMA CleanRunOpenInv ==
  ASSUME RunDirInv, NEW p \in Pids, CleanRunOpen(p)
  PROVE  RunDirInv'
<1>1. \A q \in Pids : pc[q] \in Past => q \in Live
  BY DEF Live, Past, Profiled, Named
<1>2. /\ pc[p] = "locked" /\ pc' = [pc EXCEPT ![p] = "scanning"]
      /\ pidarr' = [pidarr EXCEPT ![p] = Live] /\ Live \in SUBSET Pids
      /\ UNCHANGED <<arg, files, nameFile, cfgName, address, wire, dirLock, netLock, launches>>
  BY DEF CleanRunOpen, At, Live
<1> QED
  BY <1>1, <1>2, ScanInv DEF Cleaning, UnderDirLock

LEMMA CleanRunReadInv ==
  ASSUME RunDirInv, NEW p \in Pids, CleanRunRead(p)
  PROVE  RunDirInv'
<1>1. PICK found \in SUBSET (pidarr[p] \cup Live) :
        /\ pidarr[p] \cap Live \subseteq found
        /\ pidarr' = [pidarr EXCEPT ![p] = {q \in found : q >= StartPid}]
  BY DEF CleanRunRead
<1>2. /\ pc[p] = "scanning" /\ pc' = [pc EXCEPT ![p] = "clean profile"]
      /\ UNCHANGED <<arg, files, nameFile, cfgName, address, wire, dirLock, netLock, launches>>
  BY DEF CleanRunRead, At
<1> DEFINE kept == {q \in found : q >= StartPid}
<1>3. kept \in SUBSET Pids
  BY DEF RunDirInv, RunDirTypeOK, Live
<1>4. \A q \in Pids : pc[q] \in Past /\ q >= StartPid => q \in kept
  BY <1>1, <1>2 DEF RunDirInv, CleanerKnows, Cleaning, Live, Past, Profiled, Named
<1> HIDE DEF kept
<1>5. pidarr' = [pidarr EXCEPT ![p] = kept]
  BY <1>1 DEF kept
<1> QED
  BY <1>2, <1>3, <1>4, <1>5, ScanInv DEF Cleaning, UnderDirLock

(* Run files of a launch that is not alive go, or of the launch itself     *)
(* before it has written any.                                              *)
LEMMA DeleteInv ==
  ASSUME RunDirInv, NEW q \in Pids, DeleteRunFiles(q),
         pc[q] \notin Profiled,
         UNCHANGED <<pc, arg, cfgName, address, wire, dirLock, netLock, pidarr, launches>>
  PROVE  RunDirInv'
<1> USE RunDirAssumption DEF RunDirInv, RunDirTypeOK, DeleteRunFiles
<1>1. RunDirTypeOK'
  BY DEF Chosen
<1>2. LocksMatch' /\ CleanerKnows' /\ NamesOwned' /\ AddressesOwned' /\ UniqueNames' /\ UniqueAddresses'
  BY DEF LocksMatch, CleanerKnows, NamesOwned, AddressesOwned, UniqueNames, UniqueAddresses
<1>3. LiveFilesKept'
  BY DEF LiveFilesKept, NamesOwned, Profiled
<1> QED
  BY <1>1, <1>2, <1>3

LEMMA CleanDirEntryInv ==
  ASSUME RunDirInv, NEW p \in Pids, NEW q \in Pids, CleanDirEntry(p, q)
  PROVE  RunDirInv'
<1>1. pc[p] \in Cleaning /\ q >= StartPid /\ q \notin pidarr[p]
  BY DEF CleanDirEntry, Cleaning
<1>2. pc[q] \notin Profiled
  BY <1>1 DEF RunDirInv, CleanerKnows, Past
<1> QED
  BY <1>2, DeleteInv DEF CleanDirEntry

LEMMA DeleteOwnInv ==
  ASSUME RunDirInv, NEW p \in Pids, DeleteOwn(p)
  PROVE  RunDirInv'
<1> USE RunDirAssumption DEF RunDirInv, RunDirTypeOK
<1>1. /\ pc[p] = "own" /\ pc' = [pc EXCEPT ![p] = "ready"] /\ DeleteRunFiles(p)
      /\ UNCHANGED <<arg, cfgName, address, wire, dirLock, netLock, pidarr, launches>>
  BY DEF DeleteOwn, At
<1>2. RunDirTypeOK'
  BY <1>1 DEF DeleteRunFiles, Chosen, Places, Firejail
<1>3. LocksMatch'
  BY <1>1 DEF LocksMatch, UnderDirLock, UnderNetLock, Cleaning, Reserved
<1>4. CleanerKnows'
  BY <1>1 DEF CleanerKnows, Cleaning, Past
<1>5. NamesOwned' /\ UniqueNames' /\ UniqueAddresses'
  BY <1>1 DEF NamesOwned, UniqueNames, UniqueAddresses, Named
<1>6. AddressesOwned'
  BY <1>1 DEF AddressesOwned, Reserved, Announced
<1>7. LiveFilesKept'
  BY <1>1 DEF DeleteRunFiles, LiveFilesKept, NamesOwned, Profiled, Named
<1> QED
  BY <1>2, <1>3, <1>4, <1>5, <1>6, <1>7

LEMMA SetProfileRunFileInv ==
  ASSUME RunDirInv, NEW p \in Pids, SetProfileRunFile(p)
  PROVE  RunDirInv'
<1> USE RunDirAssumption DEF RunDirInv, RunDirTypeOK
<1>1. /\ pc[p] = "ready" /\ pc' = [pc EXCEPT ![p] = "profiled"]
      /\ files' = [files EXCEPT ![p] = @ \cup {"profile"}]
      /\ UNCHANGED <<arg, nameFile, cfgName, address, wire, dirLock, netLock, pidarr, launches>>
  BY DEF SetProfileRunFile, At
<1>2. RunDirTypeOK'
  BY <1>1 DEF Kinds, Places, Firejail, Profiled
<1>3. LocksMatch'
  BY <1>1 DEF LocksMatch, UnderDirLock, UnderNetLock, Cleaning, Reserved
<1>4. CleanerKnows'
  BY <1>1 DEF CleanerKnows, Cleaning, Past
<1>5. NamesOwned' /\ UniqueNames' /\ UniqueAddresses'
  BY <1>1 DEF NamesOwned, UniqueNames, UniqueAddresses, Named
<1>6. AddressesOwned'
  BY <1>1 DEF AddressesOwned, Reserved, Announced
<1>7. LiveFilesKept'
  BY <1>1 DEF LiveFilesKept
<1> QED
  BY <1>2, <1>3, <1>4, <1>5, <1>6, <1>7

(* An address that is free on the wire is nobody's: another launch with an *)
(* address either has announced it or holds the network lock.              *)
LEMMA AssignAddressInv ==
  ASSUME RunDirInv, NEW p \in Pids, AssignAddress(p)
  PROVE  RunDirInv'
<1> USE RunDirAssumption DEF RunDirInv, RunDirTypeOK
<1>1. PICK a \in Addresses \ wire : address' = [address EXCEPT ![p] = a]
  BY DEF AssignAddress
<1>2. /\ pc[p] = "net locked" /\ pc' = [pc EXCEPT ![p] = "assigned"]
      /\ files' = [files EXCEPT ![p] = @ \cup {"network"}]
      /\ UNCHANGED <<arg, nameFile, cfgName, wire, dirLock, netLock, pidarr, launches>>
  BY DEF AssignAddress, At
<1>3. RunDirTypeOK'
  BY <1>1, <1>2 DEF Kinds, Taken, Places, Firejail, Profiled
<1>4. LocksMatch'
  BY <1>2 DEF LocksMatch, UnderDirLock, UnderNetLock, Cleaning, Reserved
<1>5. CleanerKnows'
  BY <1>2 DEF CleanerKnows, Cleaning, Past, Profiled
<1>6. NamesOwned' /\ UniqueNames'
  BY <1>2 DEF NamesOwned, UniqueNames, Named
<1>7. AddressesOwned'
  BY <1>1, <1>2 DEF AddressesOwned, Reserved, Announced
<1>8. LiveFilesKept'
  BY <1>2 DEF LiveFilesKept, Profiled
<1>9. \A q \in Pids \ {p} : address[q] # a
  BY <1>1, <1>2 DEF AddressesOwned, LocksMatch, UnderNetLock, Announced
<1>10. UniqueAddresses'
  BY <1>1, <1>9 DEF UniqueAddresses
<1> QED
  BY <1>3, <1>4, <1>5, <1>6, <1>7, <1>8, <1>10

(* The name that a launch takes is nobody's: a plain one was looked for in *)
(* the name files, which LiveFilesKept says are right; an extended one     *)
(* ends in the launch's own pid.                                           *)
LEMMA SetNameRunFileInv ==
  ASSUME RunDirInv, NEW p \in Pids, SetNameRunFile(p)
  PROVE  RunDirInv'
<1> USE RunDirAssumption DEF RunDirInv, RunDirTypeOK
<1>1. /\ pc[p] = "dir locked" /\ pc' = [pc EXCEPT ![p] = "named"]
      /\ UNCHANGED <<arg, address, wire, dirLock, netLock, pidarr, launches>>
  BY DEF SetNameRunFile, At
<1>2. LocksMatch'
  BY <1>1 DEF LocksMatch, UnderDirLock, UnderNetLock, Cleaning, Reserved
<1>3. CleanerKnows'
  BY <1>1 DEF CleanerKnows, Cleaning, Past, Profiled, Named
<1>4. AddressesOwned' /\ UniqueAddresses'
  BY <1>1 DEF AddressesOwned, UniqueAddresses, Reserved, Announced
<1>5. "named" \in Places /\ "named" \in Named /\ Named \subseteq Profiled /\ pc[p] \in Profiled
  BY <1>1 DEF Places, Firejail, Profiled, Named
<1>6. CASE arg[p].name = None
  <2>1. UNCHANGED <<files, nameFile, cfgName>>
    BY <1>6 DEF SetNameRunFile
  <2>2. RunDirTypeOK' /\ NamesOwned' /\ UniqueNames' /\ LiveFilesKept'
    BY <1>1, <1>5, <2>1 DEF NamesOwned, UniqueNames, LiveFilesKept
  <2> QED
    BY <1>2, <1>3, <1>4, <2>2
<1>7. CASE arg[p].name # None
  <2> DEFINE n == arg[p].name
             new == NewName(p)
  <2>1. n \in Names
    BY <1>7 DEF Options
  <2>2. new \in {<<n, None>>, <<n, p>>}
    BY DEF NewName
  <2>3. new \in FullNames /\ new # None
    BY <2>1, <2>2 DEF FullNames
  <2>4. NameChange => \A q \in Pids \ {p} : cfgName[q] # new
    <3> SUFFICES ASSUME NameChange, NEW q \in Pids \ {p}, cfgName[q] = new
                 PROVE  FALSE
      OBVIOUS
    <3>1. pc[q] \in Firejail /\ "name" \in files[q] /\ nameFile[q] = new
      BY <2>3 DEF NamesOwned, LiveFilesKept, Firejail, Profiled
    <3>2. PICK m \in Names : new \in {<<m, None>>, <<m, q>>}
      BY <2>3 DEF NamesOwned
    <3>3. new # <<n, p>>
      BY <3>2
    <3>4. new = <<n, None>> /\ ~Name2pid(p, new)
      BY <2>2, <3>3 DEF NewName
    <3> QED
      BY <3>1, <3>4 DEF Name2pid
  <2> HIDE DEF new
  <2>5. /\ files' = [files EXCEPT ![p] = @ \cup {"name"}]
        /\ cfgName' = [cfgName EXCEPT ![p] = new] /\ nameFile' = [nameFile EXCEPT ![p] = new]
    BY <1>7 DEF SetNameRunFile, new
  <2>6. RunDirTypeOK'
    BY <1>1, <1>5, <2>3, <2>5 DEF Kinds, Chosen
  <2>7. NamesOwned'
    BY <1>1, <1>5, <2>1, <2>2, <2>5 DEF NamesOwned
  <2>8. UniqueNames'
    BY <2>4, <2>5 DEF UniqueNames
  <2>9. LiveFilesKept'
    BY <1>1, <1>5, <2>5 DEF LiveFilesKept
  <2> QED
    BY <1>2, <1>3, <1>4, <2>6, <2>7, <2>8, <2>9
<1> QED
  BY <1>6, <1>7

LEMMA ConfigureSandboxInv ==
  ASSUME RunDirInv, NEW p \in Pids, ConfigureSandbox(p)
  PROVE  RunDirInv'
<1> USE RunDirAssumption DEF RunDirInv, RunDirTypeOK
<1>1. /\ pc[p] = "cloned" /\ pc' = [pc EXCEPT ![p] = "configured"]
      /\ files' = [files EXCEPT ![p] = @ \cup {"sandbox"}]
      /\ wire' = IF arg[p].net THEN wire \cup {address[p]} ELSE wire
      /\ UNCHANGED <<arg, nameFile, cfgName, address, dirLock, netLock, pidarr, launches>>
  BY DEF ConfigureSandbox, At
<1>2. arg[p].net => address[p] \in Addresses
  BY <1>1 DEF AddressesOwned, Reserved
<1>3. RunDirTypeOK'
  BY <1>1, <1>2 DEF Kinds, Places, Firejail, Profiled, Named
<1>4. LocksMatch'
  BY <1>1 DEF LocksMatch, UnderDirLock, UnderNetLock, Cleaning, Reserved
<1>5. CleanerKnows'
  BY <1>1 DEF CleanerKnows, Cleaning, Past, Profiled, Named
<1>6. NamesOwned' /\ UniqueNames' /\ UniqueAddresses'
  BY <1>1 DEF NamesOwned, UniqueNames, UniqueAddresses, Named
<1>7. AddressesOwned'
  BY <1>1, <1>2 DEF AddressesOwned, UniqueAddresses, Reserved, Announced
<1>8. LiveFilesKept'
  BY <1>1 DEF LiveFilesKept, Profiled, Named
<1> QED
  BY <1>3, <1>4, <1>5, <1>6, <1>7, <1>8

(* A launch ends, with or without its run files; its address may stay on   *)
(* the wire, go from it, or still come up.                                 *)
LEMMA GoneInv ==
  ASSUME RunDirInv, NEW p \in Pids, NEW w \in SUBSET Addresses, Gone(p, w),
         w \subseteq wire \cup {address[p]}, wire \subseteq w \cup {address[p]},
         DeleteRunFiles(p) \/ UNCHANGED <<files, nameFile>>
  PROVE  RunDirInv'
<1> USE RunDirAssumption DEF RunDirInv, RunDirTypeOK, Gone
<1>1. RunDirTypeOK'
  <2>1. /\ [name |-> None, net |-> FALSE] \in Options /\ "free" \in Places
        /\ None \in Chosen /\ None \in Taken /\ None \in Holders
    BY DEF Options, Places, Idle, Chosen, Taken, Holders
  <2>2. files' \in [Pids -> SUBSET Kinds] /\ nameFile' \in [Pids -> Chosen]
    BY <2>1 DEF DeleteRunFiles
  <2> QED
    BY <2>1, <2>2
<1>2. LocksMatch'
  BY DEF LocksMatch, UnderDirLock, UnderNetLock, Cleaning, Reserved
<1>3. CleanerKnows'
  BY DEF CleanerKnows, Cleaning, Past, Profiled, Named
<1>4. NamesOwned' /\ UniqueNames' /\ UniqueAddresses'
  BY DEF NamesOwned, UniqueNames, UniqueAddresses
<1>5. AddressesOwned'
  <2>1. \A q \in Pids \ {p} : address[q] \in Addresses => address[q] # address[p]
    BY DEF UniqueAddresses
  <2>2. /\ pc'[p] = "free" /\ address'[p] = None
        /\ \A q \in Pids \ {p} : pc'[q] = pc[q] /\ address'[q] = address[q] /\ arg'[q] = arg[q]
        /\ wire' = w
    OBVIOUS
  <2> HIDE DEF Gone
  <2>3. \A q \in Pids \ {p} : address[q] \in Addresses => (address[q] \in w <=> address[q] \in wire)
    BY <2>1
  <2> QED
    BY <2>2, <2>3 DEF AddressesOwned, Reserved, Announced
<1>6. LiveFilesKept'
  <2>1. /\ pc'[p] = "free" /\ cfgName'[p] = None
        /\ \A q \in Pids \ {p} : pc'[q] = pc[q] /\ cfgName'[q] = cfgName[q]
    OBVIOUS
  <2>2. \A q \in Pids \ {p} : files'[q] = files[q] /\ nameFile'[q] = nameFile[q]
    BY DEF DeleteRunFiles
  <2> HIDE DEF Gone
  <2> QED
    BY <2>1, <2>2 DEF LiveFilesKept, Profiled, Named
<1> QED
  BY SMTT(30), <1>1, <1>2, <1>3, <1>4, <1>5, <1>6

LEMMA EndInv ==
  ASSUME RunDirInv, NEW p \in Pids, NoAddress(p) \/ Exit(p) \/ Killed(p)
  PROVE  RunDirInv'
<1>1. wire \in SUBSET Addresses
  BY DEF RunDirInv, RunDirTypeOK
<1>2. pc[p] = "cloned" /\ arg[p].net => address[p] \in Addresses
  BY DEF RunDirInv, AddressesOwned, Reserved
<1>3. CASE NoAddress(p)
  BY <1>1, <1>3, GoneInv DEF NoAddress
<1>4. CASE Exit(p)
  BY <1>1, <1>4, GoneInv DEF Exit
<1>5. CASE Killed(p)
  BY <1>1, <1>2, <1>5, GoneInv DEF Killed
<1> QED
  BY <1>3, <1>4, <1>5

LEMMA OrphanInv ==
  ASSUME RunDirInv, NEW a \in Addresses, Orphan(a)
  PROVE  RunDirInv'
<1> USE DEF RunDirInv, RunDirTypeOK, Orphan
<1>1. RunDirTypeOK'
  OBVIOUS
<1>2. LocksMatch' /\ CleanerKnows' /\ NamesOwned' /\ LiveFilesKept' /\ UniqueNames' /\ UniqueAddresses'
  BY DEF LocksMatch, CleanerKnows, NamesOwned, LiveFilesKept, UniqueNames, UniqueAddresses
<1>3. AddressesOwned'
  BY DEF AddressesOwned
<1> QED
  BY <1>1, <1>2, <1>3

LEMMA StutterInv == RunDirInv /\ UNCHANGED rdvars => RunDirInv'
  BY DEF RunDirInv, RunDirTypeOK, LocksMatch, CleanerKnows, NamesOwned, AddressesOwned,
         LiveFilesKept, UniqueNames, UniqueAddresses, rdvars

LEMMA StepInv == RunDirInv /\ [RunDirNext]_rdvars => RunDirInv'
  BY LaunchInv, OtherProgramInv, LockDirectoryInv, SkipCleaningInv, CleanRunOpenInv,
     CleanRunReadInv, CleanDirEntryInv, CleanRunNextInv, UnlockDirectoryInv, DeleteOwnInv,
     SetProfileRunFileInv, LockNetworkInv, AssignAddressInv, LockForNameInv, SetNameRunFileInv,
     UnlockAfterNameInv, ConfigureSandboxInv, UnlockNetworkInv, EndInv, OrphanInv, StutterInv
     DEF RunDirNext, RunDirStep

-----------------------------------------------------------------------------
(* No launch loses its run files to another that cleans up, however many   *)
(* of them run, are killed and reuse the pids of others                    *)
(* (preproc_clean_run(), set_profile_run_file(), set_name_run_file()).     *)
THEOREM RunFilesKept == RunDirSpec => []LiveFilesKept
<1>1. RunDirInit => RunDirInv
  BY InitInv
<1>2. RunDirInv /\ [RunDirNext]_rdvars => RunDirInv'
  BY StepInv
<1>3. RunDirInv => LiveFilesKept
  BY DEF RunDirInv
<1> QED
  BY <1>1, <1>2, <1>3, PTL DEF RunDirSpec

(* Any number of sandboxes have different names and different addresses    *)
(* (set_name_run_file() under the directory lock, check_network() under    *)
(* the network lock).                                                      *)
THEOREM SandboxesAlwaysDistinct == RunDirSpec => []SandboxesDistinct
<1>1. RunDirInit => RunDirInv
  BY InitInv
<1>2. RunDirInv /\ [RunDirNext]_rdvars => RunDirInv'
  BY StepInv
<1>3. RunDirInv => SandboxesDistinct
  BY DEF RunDirInv, SandboxesDistinct
<1> QED
  BY <1>1, <1>2, <1>3, PTL DEF RunDirSpec
=============================================================================
