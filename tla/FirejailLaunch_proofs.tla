------------------------ MODULE FirejailLaunch_proofs ------------------------
(***************************************************************************)
(* Proofs about FirejailLaunch, for every choice of options and scenarios  *)
(* and every timeout: whatever runs in a sandbox is confined, and the      *)
(* sandbox implements SandboxService.                                      *)
(***************************************************************************)
EXTENDS FirejailLaunch, TLAPS

\* How far the sandbox is.
Early == {"wait1", "setup", "userns", "notify"}
Forked == {"install"} \cup Handling
Dropped == {"pdeath", "fork"} \cup Forked
Later == {"caps", "drop"} \cup Dropped

\* How far the parent is.
ParentBefore == {"cloned", "net", "net wait", "notify1"}
ParentAfter == {"handler", "waiting", "restored", "my_handler", "my_wait"}

Joining == {"checked", "extracted", "inside", "running"}

Confinement ==
  [caps : {"all", "limited"}, userns : BOOLEAN, nnp : BOOLEAN, root : BOOLEAN,
   filters : BOOLEAN, groups : SUBSET Groups]

(* A pipe with one answer.                                                 *)
Pipes == {<<>>} \cup {<<b>> : b \in BOOLEAN}

LaunchTypeOK ==
  /\ opt \in Options
  /\ ppc \in ParentBefore \cup ParentAfter \cup {"wait1", "maps", "notify2", "gone"}
  /\ spc \in Early \cup Later \cup {"wait2", "dead"}
  /\ pnoroot \in BOOLEAN /\ snoroot \in BOOLEAN
  /\ p2c \in Pipes /\ c2p \in Pipes
  /\ conf \in [{"S", "A", "J"} -> Confinement] /\ jx \in Confinement
  /\ apc \in {"none", "starting", "running", "dead"}
  /\ jpc \in {"none", "pinned", "gone"} \cup Joining
  /\ alive \in SUBSET {"A", "D", "J"} /\ done \in BOOLEAN

(* The processes.  The application is forked before it runs, the sandbox   *)
(* is complete when it runs, and only then can another program join.       *)
ProcInv ==
  /\ spc \in Forked => apc # "none"
  /\ apc # "none" => spc \in Forked \cup {"dead"}
  /\ apc \in {"starting", "running"} <=> "A" \in alive
  /\ "D" \in alive \/ apc = "running" \/ jpc \in Joining => done
  /\ done => apc \in {"running", "dead"}
  /\ "J" \in alive => jpc \in {"inside", "running"}
  /\ opt.scenario = "join" /\ jpc \in {"inside", "running"} => "J" \in alive
  /\ spc = "dead" => alive = {}
  /\ spc = "exit" => "A" \notin alive /\ "D" \notin alive

MapsWritten == snoroot => gidmap = GidMap

(* The handshake.  A pipe holds at most one answer, and what it holds is   *)
(* what its reader must agree with; the maps are written between the two   *)
(* answers of the parent.                                                  *)
HandshakeInv ==
  /\ ppc \in ParentBefore => spc \in {"wait1", "dead"} /\ p2c = <<>>
  /\ spc = "wait1" => ppc \in ParentBefore \cup {"wait1", "gone"} /\ c2p = <<>>
  /\ spc \in Early \ {"wait1"} => ppc \in {"wait1", "gone"} /\ p2c = <<>> /\ c2p = <<>>
  /\ spc = "wait2" /\ p2c # <<>> =>
       ppc \in ParentAfter \cup {"gone"} /\ p2c = <<snoroot>> /\ MapsWritten
  /\ c2p # <<>> => /\ ppc \in {"wait1", "gone"} /\ spc \notin Early
                   /\ c2p = <<snoroot>> /\ p2c = <<>>
  /\ ppc \in {"maps", "notify2"} => p2c = <<>>
  /\ ppc \in {"maps", "notify2"} \cup ParentAfter => spc \notin Early /\ pnoroot = snoroot
  /\ ppc \in {"notify2"} \cup ParentAfter => MapsWritten
  /\ spc \in Early \ {"notify"} => ~conf["S"].userns
  /\ spc \in {"notify", "wait2"} => conf["S"].userns = snoroot
  /\ spc \in Later \/ apc # "none" =>
       ppc \in ParentAfter \cup {"gone"} /\ conf["S"].userns = snoroot /\ MapsWritten

\* The groups that drop_privs() leaves the sandbox.
GroupsLeft ==
  IF snoroot \/ opt.nogroups
  THEN CleanSupplementaryGroups(opt.nogroups, opt.nosound, snoroot) ELSE Groups

(* What confines the sandbox, the application and the program that joins,  *)
(* and what --join finds of it.                                            *)
SandboxConf ==
  /\ opt.caps /\ (\/ spc \in {"userns", "drop"} \cup Dropped \/ apc # "none"
                  \/ spc \in {"notify", "wait2", "caps"} /\ ~snoroot)
       => conf["S"].caps = "limited"
  /\ spc \in Early \cup {"wait2", "caps", "drop"} => conf["S"].groups = Groups
  /\ spc \in Dropped \/ apc # "none" => ~conf["S"].root /\ conf["S"].groups = GroupsLeft

AppConf ==
  /\ apc # "none" => /\ conf["A"].caps = conf["S"].caps /\ ~conf["A"].root
                     /\ conf["A"].groups = conf["S"].groups
  /\ apc = "running" => conf["A"].nnp /\ conf["A"].filters

SavedInv ==
  /\ spc \in {"userns", "notify", "wait2"} \cup Later \/ apc # "none" => "filters" \in saved
  /\ spc = "userns" => "groups" \notin saved
  /\ spc \in {"notify", "wait2"} \cup Later \/ apc # "none" => ("groups" \in saved <=> opt.nogroups)

JoinConf ==
  /\ jpc \in {"extracted", "inside", "running"} =>
       /\ jx.caps = conf["S"].caps /\ jx.userns = conf["S"].userns
       /\ jx.groups = IF opt.nogroups THEN {} ELSE Groups
  /\ JoinedAsConfined

ConfInv == SandboxConf /\ AppConf /\ SavedInv /\ JoinConf

(* The inductive invariant.                                                *)
LaunchInv == LaunchTypeOK /\ ProcInv /\ HandshakeInv /\ ConfInv

-----------------------------------------------------------------------------
LEMMA LaunchInvInit == LaunchInit => LaunchInv
<1> SUFFICES ASSUME LaunchInit PROVE LaunchInv
  OBVIOUS
<1> USE DEF LaunchInit
<1>1. Full \in Confinement
  BY DEF Full, Confinement, Groups
<1>2. opt.noroot \in BOOLEAN
  BY Zenon DEF Options
<1>3. LaunchTypeOK
  BY Zenon, <1>1, <1>2 DEF LaunchTypeOK, ParentBefore, Early, Joining, Pipes
<1>4. ProcInv
  BY DEF ProcInv, Forked, Handling, Joining
<1>5. HandshakeInv
  BY DEF HandshakeInv, ParentBefore, ParentAfter, Early, Later, Dropped, Forked, Handling, Full
<1>6. ConfInv
  BY DEF ConfInv, SandboxConf, AppConf, SavedInv, JoinConf, JoinedAsConfined, Early, Later, Dropped,
         Forked, Handling, Full
<1> QED
  BY <1>3, <1>4, <1>5, <1>6 DEF LaunchInv

LEMMA OneAnswer ==
  ASSUME NEW b \in BOOLEAN
  PROVE  Append(<<>>, b) = <<b>> /\ <<b>> \in Pipes
<1>1. Append(<<>>, b) = <<b>>
  OBVIOUS
<1>2. <<b>> \in Pipes
  BY DEF Pipes
<1> QED
  BY <1>1, <1>2

(* Steps that leave what a part of the invariant is about alone.           *)
LEMMA ParentTypes ==
  ASSUME LaunchTypeOK, UNCHANGED <<opt, spc, snoroot, conf, apc, jpc, jx, alive, done>>,
         ppc' \in ParentBefore \cup ParentAfter \cup {"wait1", "maps", "notify2", "gone"},
         pnoroot' \in BOOLEAN, p2c' \in Pipes, c2p' \in Pipes
  PROVE  LaunchTypeOK'
  BY DEF LaunchTypeOK

LEMMA ProcFrame ==
  ASSUME ProcInv, UNCHANGED <<opt, spc, apc, jpc, alive, done>>
  PROVE  ProcInv'
  BY DEF ProcInv

LEMMA HandshakeFrame ==
  ASSUME HandshakeInv, UNCHANGED <<opt, ppc, pnoroot, gidmap, p2c, c2p, spc, snoroot, conf, apc>>
  PROVE  HandshakeInv'
  BY DEF HandshakeInv, MapsWritten, GidMap, CanDropAllGroups

LEMMA ConfFrame ==
  ASSUME ConfInv, UNCHANGED <<opt, spc, snoroot, gidmap, conf, saved, apc, jpc, jx>>
  PROVE  ConfInv'
  BY DEF ConfInv, SandboxConf, AppConf, SavedInv, JoinConf, JoinedAsConfined, GroupsLeft,
         CleanSupplementaryGroups, CanDropAllGroups

-----------------------------------------------------------------------------
(* The parent.  What it does inside does not concern the sandbox.          *)
Sandboxed == <<opt, spc, snoroot, conf, saved, apc, jpc, jx, alive, done>>

LEMMA ParentMovesInv ==
  ASSUME LaunchInv, UNCHANGED Sandboxed, UNCHANGED <<pnoroot, gidmap, p2c, c2p>>,
         \/ ppc' = "gone" \/ ppc' = ppc
         \/ ppc \in ParentBefore /\ ppc' \in ParentBefore
         \/ ppc \in ParentAfter /\ ppc' \in ParentAfter
  PROVE  LaunchInv'
<1> USE DEF Sandboxed
<1>1. LaunchTypeOK'
  <2>1. ppc' \in ParentBefore \cup ParentAfter \cup {"wait1", "maps", "notify2", "gone"}
    BY DEF LaunchInv, LaunchTypeOK
  <2>2. pnoroot \in BOOLEAN /\ p2c \in Pipes /\ c2p \in Pipes /\ LaunchTypeOK
    BY DEF LaunchInv, LaunchTypeOK
  <2> QED
    BY <2>1, <2>2, ParentTypes
<1>2. HandshakeInv'
  <2>1. GidMap' = GidMap
    BY DEF GidMap, CanDropAllGroups
  <2> QED
    BY Zenon, <2>1 DEF LaunchInv, HandshakeInv, MapsWritten, ParentBefore, ParentAfter
<1> QED
  BY <1>1, <1>2, ProcFrame, ConfFrame DEF LaunchInv

LEMMA ParentNotify1Inv ==
  ASSUME LaunchInv, ParentNotify("notify1", "wait1")
  PROVE  LaunchInv'
<1>1. /\ ppc = "notify1" /\ ppc' = "wait1" /\ p2c' = Append(p2c, pnoroot)
      /\ UNCHANGED Sandboxed /\ UNCHANGED <<pnoroot, gidmap, c2p>>
  BY DEF ParentNotify, Sandboxed, init, others, procs
<1>2. p2c = <<>> /\ pnoroot \in BOOLEAN /\ spc \in {"wait1", "dead"}
  BY <1>1 DEF LaunchInv, LaunchTypeOK, HandshakeInv, ParentBefore
<1>3. p2c' \in Pipes
  BY <1>1, <1>2, OneAnswer
<1>4. LaunchTypeOK'
  <2>1. c2p \in Pipes /\ LaunchTypeOK
    BY DEF LaunchInv, LaunchTypeOK
  <2> QED
    BY <1>1, <1>2, <1>3, <2>1, ParentTypes DEF Sandboxed
<1>5. HandshakeInv'
  <2>1. GidMap' = GidMap
    BY <1>1 DEF GidMap, CanDropAllGroups, Sandboxed
  <2> QED
    BY <1>1, <1>2, <2>1 DEF LaunchInv, HandshakeInv, MapsWritten, ParentBefore, ParentAfter, Early,
       Later, Dropped, Forked, Handling, Sandboxed
<1> QED
  BY <1>1, <1>4, <1>5, ProcFrame, ConfFrame DEF LaunchInv, Sandboxed

LEMMA ParentWaitInv ==
  ASSUME LaunchInv, ParentWaitForOther
  PROVE  LaunchInv'
<1>1. ppc = "wait1" /\ UNCHANGED Sandboxed /\ UNCHANGED <<gidmap, p2c>>
  BY DEF ParentWaitForOther, Sandboxed, init, others, procs
<1>2. CASE c2p # <<>> /\ c2p' = Tail(c2p) /\ pnoroot' = Head(c2p) /\ ppc' = "maps"
  <2>1. c2p = <<snoroot>> /\ spc \notin Early /\ p2c = <<>> /\ snoroot \in BOOLEAN
    BY <1>2 DEF LaunchInv, LaunchTypeOK, HandshakeInv
  <2>2. pnoroot' = snoroot /\ c2p' = <<>>
    BY <1>2, <2>1
  <2>3. LaunchTypeOK'
    <3>1. p2c \in Pipes /\ c2p' \in Pipes /\ LaunchTypeOK
      BY <2>2 DEF LaunchInv, LaunchTypeOK, Pipes
    <3> QED
      BY <1>1, <1>2, <2>1, <2>2, <3>1, ParentTypes DEF Sandboxed
  <2>4. HandshakeInv'
    <3>1. GidMap' = GidMap
      BY <1>1 DEF GidMap, CanDropAllGroups, Sandboxed
    <3> QED
      BY <1>1, <1>2, <2>1, <2>2, <3>1 DEF LaunchInv, HandshakeInv, MapsWritten, ParentBefore,
         ParentAfter, Early, Later, Dropped, Forked, Handling, Sandboxed
  <2> QED
    BY <1>1, <2>3, <2>4, ProcFrame, ConfFrame DEF LaunchInv, Sandboxed
<1>3. CASE ppc' = "gone" /\ UNCHANGED <<c2p, pnoroot>>
  BY <1>1, <1>3, ParentMovesInv
<1> QED
  BY <1>2, <1>3 DEF ParentWaitForOther, ParentGone

LEMMA UpdateMapsInv ==
  ASSUME LaunchInv, UpdateMaps
  PROVE  LaunchInv'
<1>1. /\ ppc = "maps" /\ ppc' = "notify2" /\ gidmap' = IF pnoroot THEN GidMap ELSE gidmap
      /\ UNCHANGED Sandboxed /\ UNCHANGED <<pnoroot, p2c, c2p>>
  BY DEF UpdateMaps, Sandboxed, init, others, procs
<1>2. /\ pnoroot = snoroot /\ spc \notin Early /\ spc \notin Later /\ apc = "none" /\ p2c = <<>> /\ c2p = <<>>
  BY <1>1 DEF LaunchInv, HandshakeInv, ParentAfter
<1>3. GidMap' = GidMap
  BY <1>1 DEF GidMap, CanDropAllGroups, Sandboxed
<1>4. LaunchTypeOK'
  <2>1. pnoroot \in BOOLEAN /\ p2c \in Pipes /\ c2p \in Pipes /\ LaunchTypeOK
    BY DEF LaunchInv, LaunchTypeOK
  <2> QED
    BY <1>1, <2>1, ParentTypes DEF Sandboxed
<1>5. HandshakeInv'
  BY <1>1, <1>2, <1>3 DEF LaunchInv, HandshakeInv, MapsWritten, ParentBefore, ParentAfter, Sandboxed, Early
<1>6. ConfInv'
  BY <1>1, <1>2 DEF LaunchInv, ConfInv, SandboxConf, AppConf, SavedInv, JoinConf, JoinedAsConfined,
     Sandboxed, Early, Later
<1> QED
  BY <1>1, <1>4, <1>5, <1>6, ProcFrame DEF LaunchInv, Sandboxed

LEMMA ParentNotify2Inv ==
  ASSUME LaunchInv, ParentNotify("notify2", "handler")
  PROVE  LaunchInv'
<1>1. /\ ppc = "notify2" /\ ppc' = "handler" /\ p2c' = Append(p2c, pnoroot)
      /\ UNCHANGED Sandboxed /\ UNCHANGED <<pnoroot, gidmap, c2p>>
  BY DEF ParentNotify, Sandboxed, init, others, procs
<1>2. /\ p2c = <<>> /\ pnoroot = snoroot /\ spc \notin Early /\ spc \notin Later /\ apc = "none" /\ c2p = <<>>
      /\ MapsWritten /\ snoroot \in BOOLEAN
  BY <1>1 DEF LaunchInv, LaunchTypeOK, HandshakeInv, ParentAfter
<1>3. p2c' = <<snoroot>> /\ p2c' \in Pipes
  BY <1>1, <1>2, OneAnswer
<1>4. LaunchTypeOK'
  <2>1. pnoroot \in BOOLEAN /\ c2p \in Pipes /\ LaunchTypeOK
    BY DEF LaunchInv, LaunchTypeOK
  <2> QED
    BY <1>1, <1>3, <2>1, ParentTypes DEF Sandboxed, ParentAfter
<1>5. HandshakeInv'
  <2>1. GidMap' = GidMap
    BY <1>1 DEF GidMap, CanDropAllGroups, Sandboxed
  <2> QED
    BY <1>1, <1>2, <1>3, <2>1 DEF LaunchInv, HandshakeInv, MapsWritten, ParentBefore, ParentAfter,
       Sandboxed, Early
<1> QED
  BY <1>1, <1>4, <1>5, ProcFrame, ConfFrame DEF LaunchInv, Sandboxed

LEMMA ParentStepInv ==
  ASSUME LaunchInv, ParentStep \/ ParentSignal \/ ParentKilled \/ NetChildEnds \/ Shut \/ ShutForce
  PROVE  LaunchInv'
<1> USE DEF Sandboxed, init, others, procs
<1>1. CASE SetSandboxRunFile \/ ParentNet \/ NetChildEnds
  <2>1. UNCHANGED Sandboxed /\ UNCHANGED <<pnoroot, gidmap, p2c, c2p>>
    BY Zenon, <1>1 DEF SetSandboxRunFile, ParentNet, NetChildEnds
  <2>2. ppc' = ppc \/ (ppc \in ParentBefore /\ ppc' \in ParentBefore)
    BY Zenon, <1>1 DEF SetSandboxRunFile, ParentNet, NetChildEnds, ParentBefore
  <2> QED
    BY <2>1, <2>2, ParentMovesInv
<1>2. CASE ParentInstallHandler \/ ParentReaps \/ MyHandler
  <2>1. UNCHANGED Sandboxed /\ UNCHANGED <<pnoroot, gidmap, p2c, c2p>>
    BY <1>2 DEF ParentInstallHandler, ParentReaps, MyHandler
  <2>2. ppc \in ParentAfter /\ ppc' \in ParentAfter
    BY <1>2 DEF ParentInstallHandler, ParentReaps, MyHandler, ParentAfter
  <2> QED
    BY <2>1, <2>2, ParentMovesInv
<1>3. CASE ParentExits \/ MyHandlerExits \/ ParentKilled \/ ParentSignal
  <2>1. UNCHANGED Sandboxed /\ UNCHANGED <<pnoroot, gidmap, p2c, c2p>>
    BY SMTT(30), <1>3 DEF ParentExits, MyHandlerExits, ParentKilled, ParentSignal
  <2>2. ppc' = "gone" \/ (ppc \in ParentAfter /\ ppc' \in ParentAfter)
    BY <1>3 DEF ParentExits, MyHandlerExits, ParentKilled, ParentSignal, ParentGone, ParentAfter
  <2> QED
    BY SMTT(30), <2>1, <2>2, ParentMovesInv
<1>4. CASE Shut \/ ShutForce
  <2>1. UNCHANGED Sandboxed /\ UNCHANGED <<ppc, pnoroot, gidmap, p2c, c2p>>
    BY <1>4 DEF Shut, ShutForce, parent
  <2> QED
    BY <2>1, ParentMovesInv
<1> QED
  BY <1>1, <1>2, <1>3, <1>4, ParentNotify1Inv, ParentWaitInv, UpdateMapsInv, ParentNotify2Inv DEF ParentStep

-----------------------------------------------------------------------------
(* The sandbox before it forks the application.                            *)
Setting == Early \cup {"wait2", "caps", "drop", "pdeath", "fork"}

Others == <<opt, ppc, pnoroot, gidmap, apc, jpc, jx, alive, done>>

LEMMA BeforeFork ==
  ASSUME LaunchInv, spc \in Setting
  PROVE  apc = "none" /\ ~done /\ jpc \notin Joining /\ alive = {}
<1>1. apc = "none"
  BY DEF LaunchInv, ProcInv, Setting, Early, Forked, Handling
<1>2. ~done /\ jpc \notin Joining
  BY <1>1 DEF LaunchInv, LaunchTypeOK, ProcInv
<1>3. "A" \notin alive /\ "D" \notin alive /\ "J" \notin alive
  BY <1>1, <1>2 DEF LaunchInv, LaunchTypeOK, ProcInv, Joining
<1> QED
  BY <1>1, <1>2, <1>3 DEF LaunchInv, LaunchTypeOK

LEMMA SetupMovesInv ==
  ASSUME LaunchInv, spc \in Setting, spc' \in Setting, UNCHANGED Others,
         snoroot' \in BOOLEAN, p2c' \in Pipes, c2p' \in Pipes,
         conf' \in [{"S", "A", "J"} -> Confinement],
         HandshakeInv', SandboxConf', SavedInv'
  PROVE  LaunchInv'
<1>1. apc' = "none" /\ ~done' /\ jpc' \notin Joining /\ alive' = {}
  BY BeforeFork DEF Others
<1>2. LaunchTypeOK'
  <2>1. spc' \in Early \cup Later \cup {"wait2", "dead"}
    BY DEF Setting, Later, Dropped
  <2> QED
    BY <2>1 DEF LaunchInv, LaunchTypeOK, Others
<1>3. ProcInv'
  BY <1>1 DEF ProcInv, Setting, Early, Forked, Handling, Joining
<1>4. AppConf' /\ JoinConf'
  BY <1>1 DEF AppConf, JoinConf, JoinedAsConfined, Joining
<1> QED
  BY <1>2, <1>3, <1>4 DEF LaunchInv, ConfInv

LEMMA GroupsFrame ==
  ASSUME UNCHANGED <<opt, gidmap, snoroot>>
  PROVE  GroupsLeft' = GroupsLeft /\ GidMap' = GidMap
  BY DEF GroupsLeft, GidMap, CleanSupplementaryGroups, CanDropAllGroups

LEMMA FirstAnswerInv ==
  ASSUME LaunchInv, SandboxStep("wait1", "setup"), p2c # <<>>, p2c' = Tail(p2c), snoroot' = Head(p2c),
         UNCHANGED <<c2p, saved, done, conf>>
  PROVE  LaunchInv'
<1>1. spc = "wait1" /\ spc' = "setup" /\ UNCHANGED Others
  BY DEF SandboxStep, Others, parent, procs, others
<1>2. PICK b \in BOOLEAN : p2c = <<b>>
  BY DEF LaunchInv, LaunchTypeOK, Pipes
<1>3. p2c' = <<>> /\ snoroot' \in BOOLEAN
  BY <1>2
<1>4. apc = "none" /\ apc' = "none"
  BY <1>1, BeforeFork DEF Setting, Early, Others
<1>5. ppc \in {"wait1", "gone"} /\ c2p = <<>>
  BY <1>1 DEF LaunchInv, HandshakeInv
<1>6. HandshakeInv'
  BY Zenon, <1>1, <1>3, <1>4, <1>5 DEF LaunchInv, HandshakeInv, Others, ParentBefore, ParentAfter, Early, Later, Dropped, Forked, Handling
<1>7. SandboxConf'
  BY <1>1, <1>4 DEF LaunchInv, ConfInv, SandboxConf, Others, Early, Later, Dropped, Forked, Handling
<1>8. SavedInv'
  BY <1>1, <1>4 DEF SavedInv, Early, Later, Dropped, Forked, Handling
<1>9. p2c' \in Pipes /\ c2p' \in Pipes /\ conf' \in [{"S", "A", "J"} -> Confinement]
  BY <1>3 DEF LaunchInv, LaunchTypeOK, Pipes
<1> QED
  BY <1>1, <1>3, <1>6, <1>7, <1>8, <1>9, SetupMovesInv DEF Setting, Early

LEMMA SecondAnswerInv ==
  ASSUME LaunchInv, SandboxStep("wait2", "caps"), p2c # <<>>, p2c' = Tail(p2c), snoroot' = Head(p2c),
         UNCHANGED <<c2p, saved, done, conf>>
  PROVE  LaunchInv'
<1>1. spc = "wait2" /\ spc' = "caps" /\ UNCHANGED Others
  BY DEF SandboxStep, Others, parent, procs, others
<1>2. p2c = <<snoroot>> /\ ppc \in ParentAfter \cup {"gone"} /\ MapsWritten /\ snoroot \in BOOLEAN
  BY <1>1 DEF LaunchInv, LaunchTypeOK, HandshakeInv
<1>3. p2c' = <<>> /\ snoroot' = snoroot
  BY <1>2
<1>4. apc = "none" /\ apc' = "none"
  BY <1>1, BeforeFork DEF Setting, Others
<1>5. GidMap' = GidMap
  BY <1>1, <1>3, GroupsFrame DEF Others
<1>6. HandshakeInv'
  <2>1. MapsWritten'
    BY <1>1, <1>2, <1>3, <1>5 DEF MapsWritten, Others
  <2>2. conf'["S"].userns = snoroot' /\ c2p' = <<>> /\ (ppc' \in ParentAfter => pnoroot' = snoroot')
    BY <1>1, <1>3 DEF LaunchInv, HandshakeInv, Others
  <2>3. ppc' \in ParentAfter \cup {"gone"}
    BY <1>1, <1>2 DEF Others
  <2> QED
    BY Zenon, <1>1, <1>3, <1>4, <2>1, <2>2, <2>3 DEF HandshakeInv, ParentBefore, ParentAfter, Early
<1>7. SandboxConf'
  BY <1>1, <1>3, <1>4 DEF LaunchInv, ConfInv, SandboxConf, Others, Early, Later, Dropped, Forked, Handling
<1>8. SavedInv'
  BY <1>1, <1>4 DEF LaunchInv, ConfInv, SavedInv, Others, Early, Later, Dropped, Forked, Handling
<1>9. p2c' \in Pipes /\ c2p' \in Pipes /\ conf' \in [{"S", "A", "J"} -> Confinement]
  BY <1>3 DEF LaunchInv, LaunchTypeOK, Pipes
<1> QED
  BY <1>1, <1>2, <1>3, <1>6, <1>7, <1>8, <1>9, SetupMovesInv DEF Setting

(* set_caps() changes the capabilities only.                               *)
LEMMA SetCapsChanges ==
  ASSUME NEW c \in Confinement
  PROVE  /\ SetCaps(c) \in Confinement /\ SetCaps(c).userns = c.userns /\ SetCaps(c).groups = c.groups
         /\ SetCaps(c).root = c.root
         /\ SetCaps(c).caps = IF opt.caps THEN "limited" ELSE c.caps
  BY DEF SetCaps, Confinement

LEMMA SandboxSetupInv ==
  ASSUME LaunchInv, SandboxSetup
  PROVE  LaunchInv'
<1>1. /\ spc = "setup" /\ spc' = "userns" /\ UNCHANGED Others /\ UNCHANGED <<p2c, c2p, snoroot>>
      /\ saved' = {"filters"} \cup (IF opt.nnp THEN {"nonewprivs"} ELSE {})
      /\ conf' = [conf EXCEPT !["S"] = SetCaps(@)]
  BY DEF SandboxSetup, SandboxStep, Others, parent, procs, others
<1>2. conf \in [{"S", "A", "J"} -> Confinement] /\ p2c \in Pipes /\ c2p \in Pipes /\ snoroot \in BOOLEAN
  BY DEF LaunchInv, LaunchTypeOK
<1>3. conf["S"] \in Confinement
  BY <1>2
<1>4. conf' \in [{"S", "A", "J"} -> Confinement] /\ conf'["S"] = SetCaps(conf["S"])
  BY <1>1, <1>2, <1>3, SetCapsChanges
<1>5. /\ conf'["S"].userns = conf["S"].userns /\ conf'["S"].groups = conf["S"].groups
      /\ opt.caps => conf'["S"].caps = "limited"
  BY <1>3, <1>4, SetCapsChanges
<1>6. apc = "none" /\ apc' = "none"
  BY <1>1, BeforeFork DEF Setting, Early, Others
<1>7. HandshakeInv'
  BY ZenonT(30), <1>1, <1>5, <1>6 DEF LaunchInv, HandshakeInv, Others, ParentBefore, ParentAfter, Early, Later, Dropped, Forked, Handling
<1>8. SandboxConf'
  BY <1>1, <1>5, <1>6 DEF LaunchInv, ConfInv, SandboxConf, Others, Early, Later, Dropped, Forked, Handling
<1>9. SavedInv'
  BY <1>1, <1>6 DEF SavedInv, Early, Later, Dropped, Forked, Handling
<1> QED
  BY <1>1, <1>2, <1>4, <1>7, <1>8, <1>9, SetupMovesInv DEF Setting, Early

LEMMA SandboxUsernsInv ==
  ASSUME LaunchInv, SandboxUserns
  PROVE  LaunchInv'
<1>1. /\ spc = "userns" /\ spc' = "notify" /\ UNCHANGED Others /\ UNCHANGED <<p2c, c2p>>
      /\ saved' = saved \cup (IF opt.nogroups THEN {"groups"} ELSE {})
  BY DEF SandboxUserns, SandboxStep, Others, parent, procs, others
<1>2. conf \in [{"S", "A", "J"} -> Confinement] /\ p2c \in Pipes /\ c2p \in Pipes /\ snoroot \in BOOLEAN
  BY DEF LaunchInv, LaunchTypeOK
<1>3. conf["S"] \in Confinement /\ ~conf["S"].userns
  BY <1>1, <1>2 DEF LaunchInv, HandshakeInv, Early
<1>4. /\ conf' \in [{"S", "A", "J"} -> Confinement] /\ conf'["S"].groups = conf["S"].groups
      /\ snoroot' \in BOOLEAN /\ conf'["S"].userns = snoroot'
      /\ ~snoroot' => conf'["S"].caps = conf["S"].caps
  <2>1. CASE snoroot' = FALSE /\ UNCHANGED conf
    BY Zenon, <1>2, <1>3, <2>1 DEF Confinement
  <2>2. CASE snoroot /\ snoroot' = snoroot
             /\ conf' = [conf EXCEPT !["S"].userns = TRUE, !["S"].caps = "all"]
    <3>1. conf'["S"] = [conf["S"] EXCEPT !.userns = TRUE, !.caps = "all"]
      BY <1>2, <2>2
    <3>2. [conf["S"] EXCEPT !.userns = TRUE, !.caps = "all"] \in Confinement
      BY ZenonT(30), <1>3 DEF Confinement
    <3>3. conf'["S"].groups = conf["S"].groups /\ conf'["S"].userns = TRUE
      BY <1>3, <3>1 DEF Confinement
    <3>4. conf' \in [{"S", "A", "J"} -> Confinement]
      BY <1>2, <2>2, <3>1, <3>2
    <3> QED
      BY <2>2, <3>3, <3>4
  <2> QED
    BY Zenon, <1>2, <2>1, <2>2 DEF SandboxUserns
<1>5. opt.caps /\ ~snoroot' => conf'["S"].caps = "limited"
  BY <1>1, <1>4 DEF LaunchInv, ConfInv, SandboxConf
<1>6. apc = "none" /\ apc' = "none"
  BY <1>1, BeforeFork DEF Setting, Early, Others
<1>7. HandshakeInv'
  BY Zenon, <1>1, <1>4, <1>6 DEF LaunchInv, HandshakeInv, Others, ParentBefore, ParentAfter, Early, Later, Dropped, Forked, Handling
<1>8. SandboxConf'
  BY <1>1, <1>4, <1>5, <1>6 DEF LaunchInv, ConfInv, SandboxConf, Others, Early, Later, Dropped, Forked, Handling
<1>9. SavedInv'
  BY <1>1, <1>6 DEF LaunchInv, ConfInv, SavedInv, Others, Early, Later, Dropped, Forked, Handling
<1> QED
  BY <1>1, <1>2, <1>4, <1>7, <1>8, <1>9, SetupMovesInv DEF Setting, Early

LEMMA SandboxNotifyInv ==
  ASSUME LaunchInv, SandboxNotify
  PROVE  LaunchInv'
<1>1. /\ spc = "notify" /\ spc' = "wait2" /\ c2p' = Append(c2p, snoroot)
      /\ UNCHANGED Others /\ UNCHANGED <<p2c, snoroot, saved, conf>>
  BY DEF SandboxNotify, SandboxStep, Others, parent, procs, others
<1>2. /\ conf \in [{"S", "A", "J"} -> Confinement] /\ p2c \in Pipes /\ snoroot \in BOOLEAN
      /\ c2p = <<>> /\ p2c = <<>> /\ ppc \in {"wait1", "gone"}
  BY <1>1 DEF LaunchInv, LaunchTypeOK, HandshakeInv, Early
<1>3. c2p' = <<snoroot>> /\ c2p' \in Pipes
  BY <1>1, <1>2, OneAnswer
<1>4. apc = "none" /\ apc' = "none"
  BY <1>1, BeforeFork DEF Setting, Early, Others
<1>5. HandshakeInv'
  BY Zenon, <1>1, <1>2, <1>3, <1>4 DEF LaunchInv, HandshakeInv, Others, ParentBefore, ParentAfter, Early, Later, Dropped, Forked, Handling
<1>6. SandboxConf'
  BY <1>1, <1>4 DEF LaunchInv, ConfInv, SandboxConf, Others, Early, Later, Dropped, Forked, Handling
<1>7. SavedInv'
  BY <1>1, <1>4 DEF LaunchInv, ConfInv, SavedInv, Others, Early, Later, Dropped, Forked, Handling
<1> QED
  BY <1>1, <1>2, <1>3, <1>5, <1>6, <1>7, SetupMovesInv DEF Setting, Early

LEMMA SandboxConfineInv ==
  ASSUME LaunchInv, SandboxConfine
  PROVE  LaunchInv'
<1> DEFINE c == IF snoroot THEN SetCaps(conf["S"]) ELSE conf["S"]
<1>1. /\ spc = "caps" /\ spc' = "drop" /\ UNCHANGED Others /\ UNCHANGED <<p2c, c2p, snoroot, saved>>
      /\ conf' = [conf EXCEPT !["S"] = [(IF snoroot THEN SetCaps(@) ELSE @) EXCEPT !.nnp = opt.nnp]]
  BY DEF SandboxConfine, SandboxStep, Others, parent, procs, others
<1>2. /\ conf \in [{"S", "A", "J"} -> Confinement] /\ p2c \in Pipes /\ c2p \in Pipes /\ snoroot \in BOOLEAN
      /\ opt.nnp \in BOOLEAN
  BY Zenon DEF LaunchInv, LaunchTypeOK, Options
<1>3. c \in Confinement
  BY <1>2, SetCapsChanges
<1>4. conf'["S"] = [c EXCEPT !.nnp = opt.nnp]
  BY <1>1, <1>2
<1> HIDE DEF c
<1>5. [c EXCEPT !.nnp = opt.nnp] \in Confinement
  BY <1>2, <1>3 DEF Confinement
<1>6. conf' \in [{"S", "A", "J"} -> Confinement]
  BY <1>1, <1>2, <1>4, <1>5
<1>7. conf'["S"].userns = c.userns /\ conf'["S"].groups = c.groups /\ conf'["S"].caps = c.caps
  BY SMTT(30), <1>3, <1>4 DEF Confinement
<1>8. /\ conf'["S"].userns = conf["S"].userns /\ conf'["S"].groups = conf["S"].groups
      /\ conf'["S"].caps = IF snoroot /\ opt.caps THEN "limited" ELSE conf["S"].caps
  BY <1>2, <1>7, SetCapsChanges DEF c
<1>9. apc = "none" /\ apc' = "none"
  BY <1>1, BeforeFork DEF Setting, Others
<1>10. GidMap' = GidMap
  BY <1>1, GroupsFrame DEF Others
<1>11. HandshakeInv'
  BY Zenon, <1>1, <1>8, <1>9, <1>10 DEF LaunchInv, HandshakeInv, MapsWritten, Others, ParentBefore, ParentAfter, Early, Later, Dropped, Forked, Handling
<1>12. SandboxConf'
  BY <1>1, <1>8, <1>9 DEF LaunchInv, ConfInv, SandboxConf, Others, Early, Later, Dropped, Forked, Handling
<1>13. SavedInv'
  BY <1>1, <1>9 DEF LaunchInv, ConfInv, SavedInv, Others, Early, Later, Dropped, Forked, Handling
<1> QED
  BY <1>1, <1>2, <1>6, <1>11, <1>12, <1>13, SetupMovesInv DEF Setting

LEMMA CleanedGroups ==
  ASSUME NEW nogroups, NEW nosound, NEW userns
  PROVE  CleanSupplementaryGroups(nogroups, nosound, userns) \subseteq Groups
  BY DEF CleanSupplementaryGroups, Groups

(* drop_privs() changes the groups, and root goes.                         *)
Unprivileged(c, g) == [c EXCEPT !.root = FALSE, !.groups = g]

LEMMA DropPrivsChanges ==
  ASSUME NEW c \in Confinement, NEW g \in SUBSET Groups
  PROVE  /\ Unprivileged(c, g) \in Confinement /\ ~Unprivileged(c, g).root
         /\ Unprivileged(c, g).caps = c.caps /\ Unprivileged(c, g).userns = c.userns
         /\ Unprivileged(c, g).nnp = c.nnp /\ Unprivileged(c, g).filters = c.filters
         /\ Unprivileged(c, g).groups = g
  BY Zenon DEF Confinement, Unprivileged

LEMMA SandboxDropPrivsInv ==
  ASSUME LaunchInv, SandboxDropPrivs
  PROVE  LaunchInv'
<1> DEFINE d == DropPrivs(conf["S"], FALSE, snoroot, opt.nogroups, opt.nosound)
<1>1. /\ spc = "drop" /\ spc' = "pdeath" /\ UNCHANGED Others /\ UNCHANGED <<p2c, c2p, snoroot, saved>>
      /\ conf' = [conf EXCEPT !["S"] = d]
  BY DEF SandboxDropPrivs, SandboxStep, Others, parent, procs, others
<1>2. /\ conf \in [{"S", "A", "J"} -> Confinement] /\ p2c \in Pipes /\ c2p \in Pipes /\ snoroot \in BOOLEAN
  BY DEF LaunchInv, LaunchTypeOK
<1>3. conf["S"] \in Confinement
  BY <1>2
<1>4. /\ conf["S"].userns = snoroot /\ conf["S"].groups = Groups
  BY <1>1 DEF LaunchInv, ConfInv, HandshakeInv, SandboxConf, Later
<1>5. /\ d \in Confinement /\ ~d.root /\ d.caps = conf["S"].caps /\ d.userns = conf["S"].userns
      /\ d.groups = GroupsLeft
  <2>1. d = Unprivileged(conf["S"], GroupsLeft)
    BY <1>4 DEF DropPrivs, GroupsLeft, Unprivileged
  <2>2. GroupsLeft \in SUBSET Groups
    BY CleanedGroups DEF GroupsLeft
  <2> HIDE DEF d
  <2> QED
    BY <1>3, <2>1, <2>2, DropPrivsChanges
<1> HIDE DEF d
<1>6. conf' \in [{"S", "A", "J"} -> Confinement] /\ conf'["S"] = d
  BY <1>1, <1>2, <1>5
<1>7. apc = "none" /\ apc' = "none"
  BY <1>1, BeforeFork DEF Setting, Others
<1>8. GidMap' = GidMap /\ GroupsLeft' = GroupsLeft
  BY <1>1, GroupsFrame DEF Others
<1>9. HandshakeInv'
  BY Zenon, <1>1, <1>5, <1>6, <1>7, <1>8 DEF LaunchInv, HandshakeInv, MapsWritten, Others, ParentBefore, ParentAfter, Early, Later, Dropped, Forked, Handling
<1>10. SandboxConf'
  BY <1>1, <1>5, <1>6, <1>7, <1>8 DEF LaunchInv, ConfInv, SandboxConf, Others, Early, Later, Dropped, Forked, Handling
<1>11. SavedInv'
  BY <1>1, <1>7 DEF LaunchInv, ConfInv, SavedInv, Others, Early, Later, Dropped, Forked, Handling
<1> QED
  BY <1>1, <1>2, <1>6, <1>9, <1>10, <1>11, SetupMovesInv DEF Setting

LEMMA SandboxPdeathsigInv ==
  ASSUME LaunchInv, SandboxPdeathsig
  PROVE  LaunchInv'
<1>1. spc = "pdeath" /\ spc' = "fork" /\ UNCHANGED Others /\ UNCHANGED <<p2c, c2p, snoroot, saved, conf>>
  BY DEF SandboxPdeathsig, SandboxStep, Others, parent, procs, others
<1>2. /\ conf \in [{"S", "A", "J"} -> Confinement] /\ p2c \in Pipes /\ c2p \in Pipes /\ snoroot \in BOOLEAN
  BY DEF LaunchInv, LaunchTypeOK
<1>3. apc = "none" /\ apc' = "none"
  BY <1>1, BeforeFork DEF Setting, Others
<1>4. GidMap' = GidMap /\ GroupsLeft' = GroupsLeft
  BY <1>1, GroupsFrame DEF Others
<1>5. HandshakeInv'
  BY ZenonT(30), <1>1, <1>3, <1>4 DEF LaunchInv, HandshakeInv, MapsWritten, Others, ParentBefore, ParentAfter, Early, Later, Dropped, Forked, Handling
<1>6. SandboxConf'
  BY <1>1, <1>3, <1>4 DEF LaunchInv, ConfInv, SandboxConf, Others, Early, Later, Dropped, Forked, Handling
<1>7. SavedInv'
  BY <1>1, <1>3 DEF LaunchInv, ConfInv, SavedInv, Others, Early, Later, Dropped, Forked, Handling
<1> QED
  BY <1>1, <1>2, <1>5, <1>6, <1>7, SetupMovesInv DEF Setting

LEMMA SandboxForksInv ==
  ASSUME LaunchInv, SandboxForks
  PROVE  LaunchInv'
<1>1. /\ spc = "fork" /\ spc' = "install" /\ apc' = "starting" /\ alive' = {"A"}
      /\ conf' = [conf EXCEPT !["A"] = conf["S"]]
      /\ UNCHANGED <<opt, ppc, pnoroot, gidmap, jpc, jx, done, p2c, c2p, snoroot, saved>>
  BY DEF SandboxForks, parent, others
<1>2. conf \in [{"S", "A", "J"} -> Confinement]
  BY DEF LaunchInv, LaunchTypeOK
<1>3. /\ conf' \in [{"S", "A", "J"} -> Confinement] /\ conf'["S"] = conf["S"] /\ conf'["A"] = conf["S"]
      /\ conf'["J"] = conf["J"]
  BY <1>1, <1>2
<1>4. ~done /\ jpc \notin Joining
  BY <1>1, BeforeFork DEF Setting
<1>5. GidMap' = GidMap /\ GroupsLeft' = GroupsLeft
  BY <1>1, GroupsFrame
<1>6. LaunchTypeOK'
  BY <1>1, <1>3 DEF LaunchInv, LaunchTypeOK, Early, Later, Dropped, Forked, Handling
<1>7. ProcInv'
  BY <1>1, <1>4 DEF ProcInv, Forked, Handling, Joining
<1>8. HandshakeInv'
  BY ZenonT(30), <1>1, <1>3, <1>5 DEF LaunchInv, HandshakeInv, MapsWritten, ParentBefore, ParentAfter, Early, Later, Dropped, Forked, Handling
<1>9. SandboxConf' /\ AppConf'
  BY <1>1, <1>3, <1>5 DEF LaunchInv, ConfInv, SandboxConf, AppConf, Early, Later, Dropped, Forked, Handling
<1>10. SavedInv'
  BY <1>1 DEF LaunchInv, ConfInv, SavedInv, Early, Later, Dropped, Forked, Handling
<1>11. JoinConf'
  BY <1>1, <1>4 DEF JoinConf, JoinedAsConfined, Joining
<1> QED
  BY <1>6, <1>7, <1>8, <1>9, <1>10, <1>11 DEF LaunchInv, ConfInv

-----------------------------------------------------------------------------
(* Processes of the sandbox that end, all of them when the sandbox dies,   *)
(* and the monitor that goes on.                                           *)
Outside == <<opt, ppc, pnoroot, gidmap, p2c, c2p, snoroot, conf, saved, jx, done>>

Depart(gone) ==
  /\ gone \subseteq alive /\ alive' = alive \ gone
  /\ apc' = IF "A" \in gone THEN "dead" ELSE apc
  /\ jpc' = IF "J" \in gone THEN "gone" ELSE jpc
  /\ UNCHANGED Outside

LEMMA DepartInv ==
  ASSUME LaunchInv, NEW gone, Depart(gone),
         \/ spc' = spc
         \/ spc' = "dead" /\ gone = alive
         \/ spc \in Forked /\ spc' \in Forked /\ (spc' = "exit" => "A" \notin alive' /\ "D" \notin alive')
  PROVE  LaunchInv'
<1>1. UNCHANGED Outside
  BY DEF Depart
<1>2. gone \subseteq alive /\ alive' = alive \ gone
  BY DEF Depart
<1>3. apc' = (IF "A" \in gone THEN "dead" ELSE apc) /\ jpc' = (IF "J" \in gone THEN "gone" ELSE jpc)
  BY SMTT(30) DEF Depart
<1>4. LaunchTypeOK'
  <2>1. spc' \in Early \cup Later \cup {"wait2", "dead"}
    BY DEF LaunchInv, LaunchTypeOK, Later, Dropped
  <2>2. /\ apc' \in {"none", "starting", "running", "dead"} /\ alive' \in SUBSET {"A", "D", "J"}
        /\ jpc' \in {"none", "pinned", "gone"} \cup Joining
    BY <1>2, <1>3 DEF LaunchInv, LaunchTypeOK
  <2> QED
    BY <1>1, <2>1, <2>2 DEF LaunchInv, LaunchTypeOK, Outside
<1>5. apc' = "none" <=> apc = "none"
  BY SMTT(30), <1>2, <1>3 DEF LaunchInv, LaunchTypeOK, ProcInv
<1>6. ProcInv'
  <2>1. spc' \in Forked => apc' # "none"
    BY <1>5 DEF LaunchInv, ProcInv, Forked, Handling
  <2>2. apc' # "none" => spc' \in Forked \cup {"dead"}
    BY <1>5 DEF LaunchInv, ProcInv
  <2>3. apc' \in {"starting", "running"} <=> "A" \in alive'
    BY SMTT(30), <1>2, <1>3 DEF LaunchInv, ProcInv
  <2>4. "D" \in alive' \/ apc' = "running" \/ jpc' \in Joining => done'
    BY <1>1, <1>2, <1>3 DEF LaunchInv, ProcInv, Joining, Outside
  <2>5. done' => apc' \in {"running", "dead"}
    BY <1>1, <1>3 DEF LaunchInv, ProcInv, Outside
  <2>6. "J" \in alive' => jpc' \in {"inside", "running"}
    BY SMTT(30), <1>2, <1>3 DEF LaunchInv, ProcInv
  <2>7. opt'.scenario = "join" /\ jpc' \in {"inside", "running"} => "J" \in alive'
    BY <1>1, <1>2, <1>3 DEF LaunchInv, ProcInv, Outside
  <2>8. spc' = "dead" => alive' = {}
    BY <1>2 DEF LaunchInv, ProcInv, Forked, Handling
  <2>9. spc' = "exit" => "A" \notin alive' /\ "D" \notin alive'
    BY <1>2 DEF LaunchInv, ProcInv
  <2> QED
    BY <2>1, <2>2, <2>3, <2>4, <2>5, <2>6, <2>7, <2>8, <2>9 DEF ProcInv
<1>7. GidMap' = GidMap /\ GroupsLeft' = GroupsLeft
  BY <1>1, GroupsFrame DEF Outside
<1>8. HandshakeInv'
  <2>1. MapsWritten' = MapsWritten
    BY <1>1, <1>7 DEF MapsWritten, Outside
  <2>2. HandshakeInv
    BY SMTT(30) DEF LaunchInv
  <2>3. CASE spc' = spc
    BY SMTT(30), <1>1, <1>5, <2>1, <2>2, <2>3 DEF HandshakeInv, Outside
  <2>4. CASE spc' = "dead"
    BY <1>1, <1>5, <2>1, <2>2, <2>4 DEF HandshakeInv, Outside, Early, Later, Dropped, Forked, Handling
  <2>5. CASE spc \in Forked /\ spc' \in Forked
    BY ZenonT(30), <1>1, <1>5, <2>1, <2>2, <2>5 DEF HandshakeInv, Outside, Early, Later, Dropped, Forked, Handling, ParentBefore, ParentAfter
  <2> QED
    BY <2>3, <2>4, <2>5
<1>9. SandboxConf'
  BY <1>1, <1>5, <1>7 DEF LaunchInv, ConfInv, SandboxConf, Outside, Early, Later, Dropped, Forked, Handling
<1>10. AppConf'
  BY SMTT(30), <1>1, <1>3, <1>5 DEF LaunchInv, ConfInv, AppConf, Outside
<1>11. SavedInv'
  BY SMTT(30), <1>1, <1>5 DEF LaunchInv, ConfInv, SavedInv, Outside, Early, Later, Dropped, Forked, Handling
<1>12. JoinConf'
  BY <1>1, <1>3 DEF LaunchInv, ConfInv, JoinConf, JoinedAsConfined, Outside
<1> QED
  BY <1>4, <1>6, <1>8, <1>9, <1>10, <1>11, <1>12 DEF LaunchInv, ConfInv

LEMMA SandboxDiesInv ==
  ASSUME LaunchInv, NEW code, SandboxDies(code)
  PROVE  LaunchInv'
<1>1. Depart(alive) /\ spc' = "dead"
  BY DEF SandboxDies, Depart, Outside, parent, LaunchInv, LaunchTypeOK, ProcInv
<1> QED
  BY SMTT(30), <1>1, DepartInv

(* The monitor only looks.                                                 *)
LEMMA MonitorInv ==
  ASSUME LaunchInv, spc \in Forked, spc' \in Forked, UNCHANGED Outside, UNCHANGED <<alive, apc, jpc>>,
         spc' = "exit" => alive = {}
  PROVE  LaunchInv'
<1>1. Depart({})
  BY DEF Depart
<1> QED
  BY <1>1, DepartInv

LEMMA MonitorStepsInv ==
  ASSUME LaunchInv,
         \/ MonitorStart \/ (\E z \in {"A", "D"} : WaitpidChild(z)) \/ WaitpidNone \/ WaitpidError \/ MonitorNext
  PROVE  LaunchInv'
<1>1. spc \in Forked /\ spc' \in Forked
  BY SMTT(30) DEF MonitorStart, WaitpidChild, WaitpidNone, WaitpidError, MonitorNext, MonitorStep, Round, Forked, Handling
<1>2. UNCHANGED Outside /\ UNCHANGED <<alive, apc, jpc>>
  BY SMTT(30) DEF MonitorStart, WaitpidChild, WaitpidNone, WaitpidError, MonitorNext, MonitorStep, Outside,
         parent, procs, others
<1>3. spc' = "exit" => alive = {}
  BY DEF MonitorStart, WaitpidChild, WaitpidNone, WaitpidError, MonitorNext, MonitorStep, Round
<1> QED
  BY SMTT(30), <1>1, <1>2, <1>3, MonitorInv

LEMMA InitStepInv ==
  ASSUME LaunchInv, InitStep
  PROVE  LaunchInv'
<1>1. ASSUME NEW from, NEW to, SandboxWaitForOther(from, to)
      PROVE  \/ /\ SandboxStep(from, to) /\ p2c # <<>> /\ p2c' = Tail(p2c) /\ snoroot' = Head(p2c)
                /\ UNCHANGED <<c2p, saved, done, conf>>
             \/ SandboxDies("1")
  BY <1>1 DEF SandboxWaitForOther
<1>2. CASE SandboxKilled \/ SandboxSetupFails \/ SandboxExits \/ SandboxTimeUp \/ SandboxHandlerEnds
  BY <1>2, SandboxDiesInv DEF SandboxKilled, SandboxSetupFails, SandboxExits, SandboxTimeUp, SandboxHandlerEnds
<1>3. CASE SandboxWaitForOther("wait1", "setup")
  BY <1>1, <1>3, FirstAnswerInv, SandboxDiesInv
<1>4. CASE SandboxWaitForOther("wait2", "caps")
  BY <1>1, <1>4, SecondAnswerInv, SandboxDiesInv
<1>5. CASE SandboxHandler
  <2>1. spc \in Forked /\ spc' \in Forked /\ spc' = "term"
    BY <1>5 DEF SandboxHandler, Forked, Handling
  <2>2. CASE opt.stubborn
    <3>1. Depart({})
      BY <1>5, <2>2 DEF SandboxHandler, Depart, Outside, parent, procs
    <3> QED
      BY <2>1, <3>1, DepartInv
  <2>3. CASE ~opt.stubborn
    <3>1. Depart(alive)
      BY <1>5, <2>3 DEF SandboxHandler, Ends, Depart, Outside, parent
    <3> QED
      BY SMTT(30), <2>1, <3>1, DepartInv
  <2> QED
    BY <2>2, <2>3
<1> QED
  BY <1>2, <1>3, <1>4, <1>5, SandboxSetupInv, SandboxUsernsInv, SandboxNotifyInv, SandboxConfineInv,
     SandboxDropPrivsInv, SandboxPdeathsigInv, SandboxForksInv, MonitorStepsInv DEF InitStep

-----------------------------------------------------------------------------
(* The application.                                                        *)
LEMMA AppExecInv ==
  ASSUME LaunchInv, AppExec
  PROVE  LaunchInv'
<1>1. /\ apc = "starting" /\ apc' = "running" /\ done'
      /\ conf' = [conf EXCEPT !["A"].filters = TRUE, !["A"].nnp = TRUE]
      /\ UNCHANGED <<opt, ppc, pnoroot, gidmap, p2c, c2p, spc, snoroot, saved, alive, jpc, jx>>
  BY DEF AppExec, parent, others
<1>2. conf \in [{"S", "A", "J"} -> Confinement]
  BY DEF LaunchInv, LaunchTypeOK
<1>3. conf["A"] \in Confinement
  BY <1>2
<1> DEFINE a == [conf["A"] EXCEPT !.filters = TRUE, !.nnp = TRUE]
<1>4. conf'["S"] = conf["S"] /\ conf'["J"] = conf["J"] /\ conf'["A"] = a
  BY <1>1, <1>2
<1>5. a \in Confinement
  BY Zenon, <1>3 DEF Confinement
<1>6. a.caps = conf["A"].caps /\ a.root = conf["A"].root /\ a.groups = conf["A"].groups /\ a.nnp /\ a.filters
  BY <1>3 DEF Confinement
<1> HIDE DEF a
<1>7. conf' \in [{"S", "A", "J"} -> Confinement]
  BY <1>1, <1>2, <1>4, <1>5
<1>8. LaunchTypeOK'
  BY <1>1, <1>7 DEF LaunchInv, LaunchTypeOK, AppExec
<1>9. ProcInv'
  BY <1>1 DEF LaunchInv, ProcInv
<1>10. GidMap' = GidMap /\ GroupsLeft' = GroupsLeft
  BY <1>1, GroupsFrame
<1>11. HandshakeInv'
  BY <1>1, <1>4, <1>10 DEF LaunchInv, HandshakeInv, MapsWritten
<1>12. SandboxConf' /\ AppConf'
  BY <1>1, <1>4, <1>6, <1>10 DEF LaunchInv, ConfInv, SandboxConf, AppConf
<1>13. SavedInv'
  BY <1>1 DEF LaunchInv, ConfInv, SavedInv
<1>14. JoinConf'
  BY Zenon, <1>1, <1>4 DEF LaunchInv, ConfInv, JoinConf, JoinedAsConfined
<1> QED
  BY <1>8, <1>9, <1>11, <1>12, <1>13, <1>14 DEF LaunchInv, ConfInv

LEMMA AppStepsInv ==
  ASSUME LaunchInv, AppCannotStart \/ (\E x \in {"A", "D", "J"} : ProgramExits(x)) \/ AppForks
  PROVE  LaunchInv'
<1>1. CASE AppCannotStart
  <2>1. Depart({"A"}) /\ spc' = spc
    BY <1>1 DEF AppCannotStart, Ends, Depart, Outside, parent, LaunchInv, ProcInv
  <2> QED
    BY <2>1, DepartInv
<1>2. ASSUME NEW x \in {"A", "D", "J"}, ProgramExits(x)
      PROVE  LaunchInv'
  <2>1. Depart({x}) /\ spc' = spc
    BY SMTT(30), <1>2 DEF ProgramExits, Ends, Depart, Outside, parent
  <2> QED
    BY SMTT(30), <2>1, DepartInv
<1>3. CASE AppForks
  <2>1. /\ apc = "running" /\ alive' = alive \cup {"D"}
        /\ UNCHANGED <<opt, ppc, pnoroot, gidmap, p2c, c2p, spc, snoroot, saved, done, conf, apc, jpc, jx>>
    BY SMTT(30), <1>3 DEF AppForks, parent, others
  <2>2. ProcInv'
    BY SMTT(30), <2>1 DEF LaunchInv, ProcInv
  <2>3. LaunchTypeOK'
    BY <2>1 DEF LaunchInv, LaunchTypeOK
  <2> QED
    BY SMTT(30), <2>1, <2>2, <2>3, HandshakeFrame, ConfFrame DEF LaunchInv
<1> QED
  BY <1>1, <1>2, <1>3

-----------------------------------------------------------------------------
(* The program that joins.                                                 *)
JoinLeaves == <<opt, ppc, pnoroot, gidmap, p2c, c2p, spc, snoroot, saved, done, apc>>

LEMMA JoinMovesInv ==
  ASSUME LaunchInv, UNCHANGED <<JoinLeaves, conf, jx, alive>>,
         jpc \notin {"inside", "running"}, jpc' \in {"pinned", "checked", "gone"}, jpc' = "checked" => done
  PROVE  LaunchInv'
<1>1. LaunchTypeOK'
  BY SMTT(30) DEF LaunchInv, LaunchTypeOK, JoinLeaves, Joining
<1>2. ProcInv'
  BY DEF LaunchInv, ProcInv, JoinLeaves, Joining
<1>3. ConfInv'
  <2>1. GroupsLeft' = GroupsLeft
    BY SMTT(30), GroupsFrame DEF JoinLeaves
  <2> QED
    BY Zenon, <2>1 DEF LaunchInv, ConfInv, SandboxConf, AppConf, SavedInv, JoinConf, JoinedAsConfined, JoinLeaves
<1> QED
  BY SMTT(30), <1>1, <1>2, <1>3, HandshakeFrame DEF LaunchInv, JoinLeaves

LEMMA JoinExtractInv ==
  ASSUME LaunchInv, JoinExtract
  PROVE  LaunchInv'
<1> DEFINE n == conf["S"].nnp \/ "nonewprivs" \in saved
           g == IF "groups" \in saved THEN {} ELSE Groups
<1>1. /\ jpc = "checked" /\ jpc' = "extracted" /\ UNCHANGED <<JoinLeaves, conf, alive>>
      /\ jx' = [conf["S"] EXCEPT !.nnp = n, !.groups = g]
  BY DEF JoinExtract, JoinKeeps, JoinLeaves, parent
<1>2. conf["S"] \in Confinement /\ n \in BOOLEAN /\ g \in SUBSET Groups
  BY DEF LaunchInv, LaunchTypeOK
<1>3. apc # "none"
  BY <1>1 DEF LaunchInv, ProcInv, Joining
<1>4. g = IF opt.nogroups THEN {} ELSE Groups
  BY <1>3 DEF LaunchInv, ConfInv, SavedInv
<1> HIDE DEF n, g
<1>5. jx' \in Confinement /\ jx'.caps = conf["S"].caps /\ jx'.userns = conf["S"].userns /\ jx'.groups = g
  BY ZenonT(30), <1>1, <1>2 DEF Confinement
<1>6. LaunchTypeOK'
  BY <1>1, <1>5 DEF LaunchInv, LaunchTypeOK, JoinLeaves, Joining
<1>7. ProcInv'
  BY <1>1 DEF LaunchInv, ProcInv, JoinLeaves, Joining
<1>8. SandboxConf' /\ AppConf' /\ SavedInv'
  <2>1. GroupsLeft' = GroupsLeft
    BY <1>1, GroupsFrame DEF JoinLeaves
  <2> QED
    BY <1>1, <2>1 DEF LaunchInv, ConfInv, SandboxConf, AppConf, SavedInv, JoinLeaves
<1>9. JoinConf'
  BY <1>1, <1>4, <1>5 DEF LaunchInv, ConfInv, JoinConf, JoinedAsConfined, JoinLeaves
<1> QED
  BY <1>1, <1>6, <1>7, <1>8, <1>9, HandshakeFrame DEF LaunchInv, ConfInv, JoinLeaves

LEMMA JoinNamespacesInv ==
  ASSUME LaunchInv, JoinNamespaces
  PROVE  LaunchInv'
<1>1. /\ jpc = "extracted" /\ jpc' = "inside" /\ spc # "dead" /\ UNCHANGED <<JoinLeaves, conf, jx>>
      /\ alive' = IF opt.scenario = "join" THEN alive \cup {"J"} ELSE alive
  BY SMTT(30) DEF JoinNamespaces, JoinKeeps, JoinLeaves, parent
<1>2. LaunchTypeOK'
  BY SMTT(30), <1>1 DEF LaunchInv, LaunchTypeOK, JoinLeaves, Joining
<1>3. ProcInv'
  BY SMTT(30), <1>1 DEF LaunchInv, ProcInv, JoinLeaves, Joining
<1>4. SandboxConf' /\ AppConf' /\ SavedInv'
  <2>1. GroupsLeft' = GroupsLeft
    BY <1>1, GroupsFrame DEF JoinLeaves
  <2> QED
    BY <1>1, <2>1 DEF LaunchInv, ConfInv, SandboxConf, AppConf, SavedInv, JoinLeaves
<1>5. JoinConf'
  BY Zenon, <1>1 DEF LaunchInv, ConfInv, JoinConf, JoinedAsConfined, JoinLeaves
<1> QED
  BY <1>1, <1>2, <1>3, <1>4, <1>5, HandshakeFrame DEF LaunchInv, ConfInv, JoinLeaves

(* The groups that are left to a program that joins are not more than the  *)
(* sandbox has: without --nosound they are the same, and with it the audio *)
(* group has no mapping in the user namespace, so that all of them go.     *)
LEMMA JoinedGroups ==
  ASSUME LaunchInv, jpc = "inside"
  PROVE  (IF jx.groups = {} THEN {}
          ELSE IF jx.userns \/ jx.groups = {}
          THEN CleanSupplementaryGroups(jx.groups = {}, FALSE, jx.userns) ELSE Groups)
         \in SUBSET conf["S"].groups
<1>1. apc # "none"
  BY SMTT(30) DEF LaunchInv, ProcInv, Joining
<1>2. /\ conf["S"].userns = snoroot /\ MapsWritten /\ conf["S"].groups = GroupsLeft
      /\ jx.userns = snoroot /\ jx.groups = IF opt.nogroups THEN {} ELSE Groups
  BY SMTT(30), <1>1 DEF LaunchInv, ConfInv, HandshakeInv, SandboxConf, JoinConf
<1>3. CASE opt.nogroups
  BY SMTT(30), <1>2, <1>3
<1>4. CASE ~opt.nogroups
  <2>1. jx.groups = Groups /\ jx.groups # {}
    BY SMTT(30), <1>2, <1>4 DEF Groups
  <2>2. CASE ~snoroot
    BY Zenon, <1>2, <1>4, <2>1, <2>2 DEF GroupsLeft
  <2>3. CASE snoroot
    <3>1. gidmap = {"video", "misc"} \cup (IF opt.nosound THEN {} ELSE {"audio"})
      BY <1>2, <1>4, <2>3 DEF MapsWritten, GidMap
    <3>2. GroupsLeft = {"misc", "video"} \cup (IF opt.nosound THEN {} ELSE {"audio"})
      BY <1>4, <2>3, <3>1 DEF GroupsLeft, CleanSupplementaryGroups
    <3>3. CleanSupplementaryGroups(FALSE, FALSE, TRUE) =
            IF {"misc", "video", "audio"} \subseteq gidmap THEN {"misc", "video", "audio"} ELSE {}
      BY DEF CleanSupplementaryGroups
    <3>4. CleanSupplementaryGroups(FALSE, FALSE, TRUE) \in SUBSET GroupsLeft
      BY Zenon, <3>1, <3>2, <3>3
    <3>5. (jx.groups = {}) = FALSE /\ jx.userns = TRUE
      BY SMTT(30), <1>2, <2>1, <2>3 DEF LaunchInv, LaunchTypeOK
    <3> QED
      BY Zenon, <1>2, <3>4, <3>5
  <2> QED
    BY Zenon, <2>2, <2>3
<1> QED
  BY ZenonT(30), <1>3, <1>4

LEMMA JoinStartsInv ==
  ASSUME LaunchInv, JoinStarts
  PROVE  LaunchInv'
<1> DEFINE load == opt.scenario = "join" /\ "filters" \in saved
           c == [Full EXCEPT !.caps = jx.caps, !.userns = jx.userns,
                             !.filters = load, !.nnp = jx.nnp \/ load]
           g == IF jx.groups = {} THEN {}
                ELSE IF jx.userns \/ jx.groups = {}
                THEN CleanSupplementaryGroups(jx.groups = {}, FALSE, jx.userns) ELSE Groups
<1>1. /\ jpc = "inside" /\ jpc' = "running" /\ UNCHANGED <<JoinLeaves, jx, alive>>
      /\ conf' = [conf EXCEPT !["J"] = DropPrivs(c, jx.groups = {}, jx.userns, jx.groups = {}, FALSE)]
  BY DEF JoinStarts, JoinKeeps, JoinLeaves, parent
<1>2. conf \in [{"S", "A", "J"} -> Confinement] /\ jx \in Confinement /\ load \in BOOLEAN
  BY DEF LaunchInv, LaunchTypeOK
<1>3. apc # "none"
  BY <1>1 DEF LaunchInv, ProcInv, Joining
<1>4. opt.scenario = "join" => load
  BY <1>3 DEF LaunchInv, ConfInv, SavedInv
<1>5. g \in SUBSET conf["S"].groups
  BY Zenon, <1>1, JoinedGroups
<1>6. g \in SUBSET Groups
  BY Zenon, <1>2, <1>5 DEF Confinement
<1> HIDE DEF load
<1>7. c \in Confinement
  BY ZenonT(30), <1>2 DEF Confinement, Full
<1>8. c.caps = jx.caps /\ c.userns = jx.userns /\ c.filters = load /\ (load => c.nnp) /\ c.groups = Groups
  BY <1>2 DEF Full, Confinement
<1>9. DropPrivs(c, jx.groups = {}, jx.userns, jx.groups = {}, FALSE) = Unprivileged(c, g)
  BY ZenonT(30), <1>8 DEF DropPrivs, Unprivileged
<1> HIDE DEF c, g
<1> DEFINE u == Unprivileged(c, g)
<1>10. /\ u \in Confinement /\ ~u.root /\ u.caps = jx.caps /\ u.userns = jx.userns /\ u.filters = load
       /\ (load => u.nnp) /\ u.groups = g
  BY <1>6, <1>7, <1>8, DropPrivsChanges
<1> HIDE DEF u
<1>11. /\ conf' \in [{"S", "A", "J"} -> Confinement] /\ conf'["J"] = u /\ conf'["S"] = conf["S"]
       /\ conf'["A"] = conf["A"]
  BY Zenon, <1>1, <1>2, <1>9, <1>10 DEF u
<1>12. LaunchTypeOK'
  BY Zenon, <1>1, <1>11 DEF LaunchInv, LaunchTypeOK, JoinLeaves, Joining
<1>13. ProcInv'
  BY <1>1 DEF LaunchInv, ProcInv, JoinLeaves, Joining
<1>14. GroupsLeft' = GroupsLeft /\ GidMap' = GidMap
  BY <1>1, GroupsFrame DEF JoinLeaves
<1>15. HandshakeInv'
  BY Zenon, <1>1, <1>11, <1>14 DEF LaunchInv, HandshakeInv, MapsWritten, JoinLeaves
<1>16. SandboxConf' /\ AppConf' /\ SavedInv'
  BY ZenonT(30), <1>1, <1>11, <1>14 DEF LaunchInv, ConfInv, SandboxConf, AppConf, SavedInv, JoinLeaves
<1>17. opt.caps => conf["S"].caps = "limited"
  BY SMTT(30), <1>3 DEF LaunchInv, ConfInv, SandboxConf
<1>18. jx.caps = conf["S"].caps /\ jx.userns = conf["S"].userns /\ jx.groups = IF opt.nogroups THEN {} ELSE Groups
  BY <1>1 DEF LaunchInv, ConfInv, JoinConf
<1>19. JoinedAsConfined'
  BY ZenonT(30), <1>1, <1>4, <1>5, <1>10, <1>11, <1>17, <1>18 DEF JoinedAsConfined, JoinLeaves
<1>20. JoinConf'
  BY <1>1, <1>11, <1>18, <1>19 DEF JoinConf, JoinLeaves
<1> QED
  BY <1>12, <1>13, <1>15, <1>16, <1>20 DEF LaunchInv, ConfInv

LEMMA JoinStepInv ==
  ASSUME LaunchInv, PinSandboxProcess \/ JoinStep
  PROVE  LaunchInv'
<1>1. CASE PinSandboxProcess \/ CheckJoinable \/ JoinGivesUp
  <2>1. UNCHANGED <<JoinLeaves, conf, jx, alive>>
    BY Zenon, <1>1 DEF PinSandboxProcess, CheckJoinable, JoinGivesUp, JoinKeeps, JoinLeaves, parent
  <2>2. /\ jpc \notin {"inside", "running"} /\ jpc' \in {"pinned", "checked", "gone"}
        /\ jpc' = "checked" => done
    BY Zenon, <1>1 DEF PinSandboxProcess, CheckJoinable, JoinGivesUp
  <2> QED
    BY <2>1, <2>2, JoinMovesInv
<1> QED
  BY <1>1, JoinExtractInv, JoinNamespacesInv, JoinStartsInv DEF JoinStep

LEMMA LaunchInvNext == LaunchInv /\ [LaunchNext]_lvars => LaunchInv'
<1> SUFFICES ASSUME LaunchInv, [LaunchNext]_lvars PROVE LaunchInv'
  OBVIOUS
<1>1. CASE UNCHANGED lvars
  <2>1. UNCHANGED Sandboxed /\ UNCHANGED <<ppc, pnoroot, gidmap, p2c, c2p>>
    BY <1>1 DEF lvars, Sandboxed, parent, init, others, procs
  <2> QED
    BY SMTT(30), <2>1, ParentMovesInv
<1> QED
  BY <1>1, ParentStepInv, InitStepInv, AppExecInv, AppStepsInv, JoinStepInv DEF LaunchNext

LEMMA LaunchInvAlways == LaunchSpec => []LaunchInv
  BY LaunchInvInit, LaunchInvNext, PTL DEF LaunchSpec

-----------------------------------------------------------------------------
(* Whatever runs in the sandbox is confined (sandbox.c, join.c, main.c):   *)
(* both sides agree on the user namespace and its maps are written before  *)
(* the application exists; the application has lost root, the groups and   *)
(* capabilities the options forbid, and runs with its filters; a program   *)
(* that joins has nothing the sandbox lacks.  For every choice of options  *)
(* and every interleaving of parent, sandbox, signals and --join.          *)
THEOREM ProgramsAlwaysConfined == LaunchSpec => []ProgramsConfined
<1>1. LaunchInv => ProgramsConfined
  <2> SUFFICES ASSUME LaunchInv PROVE ProgramsConfined
    BY SMTT(30)
  <2>1. HandshakeAgrees
    <3>1. snoroot /\ ~opt.nogroups /\ MapsWritten => gidmap # {}
      BY SMTT(30) DEF MapsWritten, GidMap
    <3> QED
      BY <3>1 DEF LaunchInv, HandshakeInv, HandshakeAgrees
  <2>2. AppConfined
    <3>1. GroupsLeft \subseteq (IF opt.nogroups /\ CanDropAllGroups THEN {} ELSE Groups)
      BY CleanedGroups DEF GroupsLeft, CleanSupplementaryGroups
    <3> QED
      BY <3>1 DEF LaunchInv, ConfInv, SandboxConf, AppConf, AppConfined
  <2>3. JoinedAsConfined
    BY SMTT(30) DEF LaunchInv, ConfInv, JoinConf
  <2> QED
    BY <2>1, <2>2, <2>3 DEF ProgramsConfined
<1> QED
  BY <1>1, LaunchInvAlways, PTL

-----------------------------------------------------------------------------
(* The refinement.  Svc, Mem and Asked are what Service substitutes for    *)
(* the variables of SandboxService.                                        *)
Programs == {"A", "D", "J"}

Svc == IF spc = "dead" THEN "down" ELSE IF ~done THEN "setup"
       ELSE IF spc = "exit" THEN "closing" ELSE "open"

Mem == {x \in alive : /\ x = "A" => apc = "running"
                      /\ x = "J" => jpc = "running"}

Asked == \/ sig # "none" \/ spc \in {"timeup", "term", "dead"}
         \/ spc = "ended" /\ opt.detshut
         \/ kpc = "sent"

ServiceStep == [Service!ServiceNext]_(Service!svars)

LEMMA StutterStep ==
  ASSUME Svc' = Svc, Mem' = Mem, Asked' = Asked
  PROVE  ServiceStep
  BY DEF ServiceStep, Service!svars, Svc, Mem, Asked

LEMMA OpenStep ==
  ASSUME Svc = "setup", Svc' = "open", NEW m \in Programs, Mem' = {m}, Asked' = Asked
  PROVE  ServiceStep
<1>1. Service!Open
  BY DEF Service!Open, Svc, Mem, Asked, Programs
<1> QED
  BY SMTT(30), <1>1 DEF ServiceStep, Service!ServiceNext

LEMMA FailStep ==
  ASSUME Svc = "setup", Svc' = "down", Mem' = Mem, Asked'
  PROVE  ServiceStep
<1>1. Service!Fail
  BY DEF Service!Fail, Svc, Mem, Asked
<1> QED
  BY <1>1 DEF ServiceStep, Service!ServiceNext

LEMMA EnterStep ==
  ASSUME Svc \in {"open", "closing"}, Svc' = Svc, NEW m \in Programs, m \notin Mem, Mem' = Mem \cup {m},
         Asked' = Asked
  PROVE  ServiceStep
<1>1. Service!Enter
  BY DEF Service!Enter, Svc, Mem, Asked, Programs
<1> QED
  BY SMTT(30), <1>1 DEF ServiceStep, Service!ServiceNext

LEMMA LeaveStep ==
  ASSUME Svc' = Svc, NEW gone \in SUBSET Mem, Mem' = Mem \ gone, Asked' = Asked
  PROVE  ServiceStep
<1>1. Service!Leave
  BY DEF Service!Leave, Svc, Mem, Asked
<1> QED
  BY SMTT(30), <1>1 DEF ServiceStep, Service!ServiceNext

LEMMA AskStep ==
  ASSUME Svc' = Svc, Mem' = Mem, Asked => Asked'
  PROVE  ServiceStep
<1>1. CASE ~Asked'
  <2>1. Asked' = Asked
    BY <1>1 DEF Asked
  <2> QED
    BY <2>1, StutterStep
<1>2. CASE Asked'
  <2>1. Service!Ask
    BY <1>2 DEF Service!Ask, Svc, Mem, Asked
  <2> QED
    BY SMTT(30), <2>1 DEF ServiceStep, Service!ServiceNext
<1> QED
  BY <1>1, <1>2

LEMMA CloseStep ==
  ASSUME Svc = "open", Mem = {}, Svc' = "closing", Mem' = Mem, Asked' = Asked
  PROVE  ServiceStep
<1>1. Service!Close
  BY DEF Service!Close, Svc, Mem, Asked
<1> QED
  BY SMTT(30), <1>1 DEF ServiceStep, Service!ServiceNext

LEMMA DownStep ==
  ASSUME Svc = "closing" \/ (Svc = "open" /\ Asked), Svc' = "down", Mem' = {}, Asked'
  PROVE  ServiceStep
<1>1. Service!Down
  BY DEF Service!Down, Svc, Mem, Asked
<1> QED
  BY SMTT(30), <1>1 DEF ServiceStep, Service!ServiceNext

LEMMA ParentStepsServe ==
  ASSUME ParentStep \/ ParentSignal \/ ParentKilled \/ NetChildEnds \/ Shut \/ ShutForce \/ UNCHANGED lvars
  PROVE  ServiceStep
<1> USE DEF parent, init, others, procs, lvars, SetSandboxRunFile, ParentNet, ParentNotify, ParentWaitForOther,
            UpdateMaps, ParentInstallHandler, ParentReaps, ParentExits, MyHandler, MyHandlerExits,
            ParentSignal, ParentKilled, NetChildEnds, Shut, ShutForce, ParentStep
<1>1. UNCHANGED <<opt, spc, done, alive, apc, jpc>>
  BY Zenon
<1>2. (sig # "none" => sig' # "none") \/ Asked'
  BY Zenon DEF DeathSignal, Asked
<1>3. kpc = "sent" => kpc' = "sent" \/ Asked'
  BY ZenonT(30) DEF Asked
<1> QED
  <2>1. Svc' = Svc
    BY Zenon, <1>1 DEF Svc
  <2>2. Mem' = Mem
    BY Zenon, <1>1 DEF Mem
  <2>3. Asked => Asked'
    BY Zenon, <1>1, <1>2, <1>3 DEF Asked
  <2> QED
    BY Zenon, <2>1, <2>2, <2>3, AskStep

(* Nothing runs before the sandbox is complete.                            *)
LEMMA NothingRunsYet ==
  ASSUME LaunchInv, ~done
  PROVE  Mem = {}
  BY Zenon DEF LaunchInv, LaunchTypeOK, ProcInv, Mem, Joining

LEMMA SetupServes ==
  ASSUME LaunchInv, LaunchInv', spc \in Setting, spc' \in Setting, UNCHANGED <<opt, sig, done, alive, apc, jpc, kpc>>
  PROVE  ServiceStep
<1>1. Svc' = Svc
  BY BeforeFork DEF Svc, Setting, Early
<1>2. Mem' = Mem
  BY DEF Mem
<1>3. Asked' = Asked
  BY DEF Asked, Setting, Early
<1> QED
  BY <1>1, <1>2, <1>3, StutterStep

LEMMA ForkServes ==
  ASSUME LaunchInv, LaunchInv', SandboxForks
  PROVE  ServiceStep
<1>1. spc = "fork" /\ spc' = "install" /\ UNCHANGED <<opt, sig, done, kpc>>
  BY DEF SandboxForks, others
<1>2. ~done /\ ~done'
  BY <1>1, BeforeFork DEF Setting
<1>3. Mem = {} /\ Mem' = {}
  <2>1. Mem = {}
    BY <1>2, NothingRunsYet
  <2>2. alive' = {"A"} /\ apc' = "starting"
    BY DEF SandboxForks
  <2> QED
    BY <2>1, <2>2 DEF Mem
<1>4. Svc' = Svc
  BY SMTT(30), <1>1, <1>2 DEF Svc
<1>5. Asked' = Asked
  BY <1>1 DEF Asked
<1> QED
  BY <1>3, <1>4, <1>5, StutterStep

(* The sandbox dies: set-up failed, or nothing was left, or it was asked.  *)
LEMMA DeathServes ==
  ASSUME LaunchInv, NEW code, SandboxDies(code), spc # "dead", ~done \/ spc = "exit" \/ Asked
  PROVE  ServiceStep
<1>1. spc' = "dead" /\ alive' = {} /\ done' = done
  BY DEF SandboxDies
<1>2. Svc' = "down" /\ Mem' = {} /\ Asked'
  BY <1>1 DEF Svc, Mem, Asked
<1>3. CASE ~done
  <2>1. Svc = "setup" /\ Mem = {}
    BY <1>3, NothingRunsYet DEF Svc
  <2> QED
    BY <1>2, <2>1, FailStep
<1>4. CASE done
  <2>1. Svc = "closing" \/ (Svc = "open" /\ Asked)
    BY <1>4 DEF Svc
  <2> QED
    BY <1>2, <2>1, DownStep
<1> QED
  BY <1>3, <1>4 DEF LaunchInv, LaunchTypeOK

LEMMA MonitorServes ==
  ASSUME LaunchInv,
         \/ MonitorStart \/ (\E z \in {"A", "D"} : WaitpidChild(z)) \/ WaitpidNone \/ WaitpidError \/ MonitorNext
  PROVE  ServiceStep
<1>1. UNCHANGED <<opt, sig, done, alive, apc, jpc, kpc>>
  BY ZenonT(30) DEF MonitorStart, WaitpidChild, WaitpidNone, WaitpidError, MonitorNext, MonitorStep, parent, procs, others
<1>2. /\ spc \in {"install", "wait", "ended"} /\ spc' \in {"wait", "ended", "timeup", "exit"}
      /\ spc = "ended" => ~opt.detshut
      /\ spc' = "exit" => spc = "ended" /\ alive = {}
  BY DEF MonitorStart, WaitpidChild, WaitpidNone, WaitpidError, MonitorNext, MonitorStep, Round
<1>3. Mem' = Mem
  BY <1>1 DEF Mem
<1>4. CASE done /\ spc' = "exit"
  <2>1. Svc = "open" /\ Svc' = "closing"
    BY <1>1, <1>2, <1>4 DEF Svc
  <2>2. Mem = {}
    BY <1>2, <1>4 DEF Mem
  <2>3. Asked' = Asked
    BY <1>1, <1>2, <1>4 DEF Asked
  <2> QED
    BY <1>3, <2>1, <2>2, <2>3, CloseStep
<1>5. CASE ~(done /\ spc' = "exit")
  <2>1. Svc' = Svc
    BY <1>1, <1>2, <1>5 DEF Svc
  <2>2. Asked => Asked'
    BY <1>1, <1>2 DEF Asked
  <2> QED
    BY <1>3, <2>1, <2>2, AskStep
<1> QED
  BY <1>4, <1>5

LEMMA HandlerServes ==
  ASSUME LaunchInv, SandboxHandler
  PROVE  ServiceStep
<1>1. spc = "wait" /\ spc' = "term" /\ sig = "term" /\ UNCHANGED <<opt, sig, done, kpc>>
  BY DEF SandboxHandler
<1>2. Svc' = Svc
  BY <1>1 DEF Svc
<1>3. Asked' = Asked
  BY <1>1 DEF Asked
<1>4. CASE opt.stubborn
  <2>1. UNCHANGED <<alive, apc, jpc>>
    BY <1>4 DEF SandboxHandler, procs
  <2>2. Mem' = Mem
    BY <2>1 DEF Mem
  <2> QED
    BY <1>2, <1>3, <2>2, StutterStep
<1>5. CASE ~opt.stubborn
  <2>1. alive' = {}
    BY <1>5 DEF SandboxHandler, Ends
  <2>2. Mem' = Mem \ Mem
    BY <2>1 DEF Mem
  <2> QED
    BY SMTT(30), <1>2, <1>3, <2>2, LeaveStep
<1> QED
  BY <1>4, <1>5

LEMMA InitStepServes ==
  ASSUME LaunchInv, LaunchInv', InitStep
  PROVE  ServiceStep
<1>1. ASSUME NEW from \in {"wait1", "wait2"}, NEW to \in {"setup", "caps"}, SandboxWaitForOther(from, to)
      PROVE  ServiceStep
  <2>1. CASE SandboxStep(from, to) /\ UNCHANGED done
    <3>1. spc \in Setting /\ spc' \in Setting /\ UNCHANGED <<opt, sig, done, alive, apc, jpc, kpc>>
      BY <2>1 DEF SandboxStep, procs, others, Setting, Early
    <3> QED
      BY <3>1, SetupServes
  <2>2. CASE spc = from /\ SandboxDies("1")
    <3>1. ~done /\ spc # "dead"
      BY <2>2, BeforeFork DEF Setting, Early
    <3> QED
      BY <2>2, <3>1, DeathServes
  <2> QED
    BY <1>1, <2>1, <2>2 DEF SandboxWaitForOther
<1>2. CASE SandboxSetup \/ SandboxUserns \/ SandboxNotify \/ SandboxConfine \/ SandboxDropPrivs \/ SandboxPdeathsig
  <2>1. spc \in Setting /\ spc' \in Setting
    BY Zenon, <1>2 DEF SandboxSetup, SandboxUserns, SandboxNotify, SandboxConfine, SandboxDropPrivs, SandboxPdeathsig,
                SandboxStep, Setting, Early
  <2>2. UNCHANGED <<opt, sig, done, alive, apc, jpc, kpc>>
    BY Zenon, <1>2 DEF SandboxSetup, SandboxUserns, SandboxNotify, SandboxConfine, SandboxDropPrivs, SandboxPdeathsig,
                SandboxStep, procs, others
  <2> QED
    BY <2>1, <2>2, SetupServes
<1>3. CASE SandboxKilled \/ SandboxExits \/ SandboxTimeUp \/ SandboxHandlerEnds
  <2>1. PICK code : SandboxDies(code)
    BY <1>3 DEF SandboxKilled, SandboxExits, SandboxTimeUp, SandboxHandlerEnds
  <2>2. spc # "dead" /\ (spc = "exit" \/ Asked)
    BY <1>3 DEF SandboxKilled, SandboxExits, SandboxTimeUp, SandboxHandlerEnds, Asked
  <2> QED
    BY <2>1, <2>2, DeathServes
<1>4. CASE SandboxSetupFails
  <2>1. spc = "setup" /\ SandboxDies("1")
    BY <1>4 DEF SandboxSetupFails
  <2>2. ~done
    BY <2>1, BeforeFork DEF Setting, Early
  <2> QED
    BY <2>1, <2>2, DeathServes
<1> QED
  BY <1>1, <1>2, <1>3, <1>4, ForkServes, MonitorServes, HandlerServes DEF InitStep

(* The sandbox opens when the application starts.                          *)
LEMMA AppExecServes ==
  ASSUME LaunchInv, AppExec
  PROVE  ServiceStep
<1>1. /\ apc = "starting" /\ apc' = "running" /\ done' = TRUE
      /\ UNCHANGED <<opt, spc, sig, alive, jpc, kpc>>
  BY SMTT(30) DEF AppExec, others
<1>2. "A" \in alive /\ ~done /\ "D" \notin alive /\ "J" \notin alive
  BY <1>1 DEF LaunchInv, LaunchTypeOK, ProcInv, Joining
<1>3. spc # "dead" /\ spc # "exit"
  BY <1>2 DEF LaunchInv, ProcInv
<1>4. Svc = "setup" /\ Svc' = "open"
  BY SMTT(30), <1>1, <1>2, <1>3 DEF Svc
<1>5. Mem' = {"A"}
  BY Zenon, <1>1, <1>2 DEF Mem, LaunchInv, LaunchTypeOK
<1>6. Asked' = Asked
  BY <1>1 DEF Asked
<1> QED
  BY <1>4, <1>5, <1>6, OpenStep DEF Programs

LEMMA AppStepsServe ==
  ASSUME LaunchInv, AppCannotStart \/ (\E x \in {"A", "D", "J"} : ProgramExits(x)) \/ AppForks
  PROVE  ServiceStep
<1>1. UNCHANGED <<opt, spc, done, sig, kpc>>
  BY DEF AppCannotStart, ProgramExits, AppForks, others
<1>2. Svc' = Svc
  BY <1>1 DEF Svc
<1>3. Asked' = Asked
  BY <1>1 DEF Asked
<1>4. CASE AppCannotStart
  <2>1. apc = "starting" /\ alive' = alive \ {"A"} /\ jpc' = jpc
    BY <1>4 DEF AppCannotStart, Ends
  <2>2. Mem' = Mem
    BY <2>1 DEF Mem
  <2> QED
    BY SMTT(30), <1>2, <1>3, <2>2, StutterStep
<1>5. ASSUME NEW x \in {"A", "D", "J"}, ProgramExits(x)
      PROVE  ServiceStep
  <2>1. /\ x \in alive /\ (x = "A" => apc = "running") /\ (x = "J" => jpc = "running")
        /\ alive' = alive \ {x}
        /\ apc' = (IF x = "A" THEN "dead" ELSE apc) /\ jpc' = IF x = "J" THEN "gone" ELSE jpc
    BY SMTT(30), <1>5 DEF ProgramExits, Ends
  <2>2. {x} \in SUBSET Mem
    BY <2>1 DEF Mem
  <2>3. Mem' = Mem \ {x}
    BY <2>1 DEF Mem
  <2> QED
    BY Zenon, <1>2, <1>3, <2>2, <2>3, LeaveStep
<1>6. CASE AppForks
  <2>1. apc = "running" /\ "D" \notin alive /\ alive' = alive \cup {"D"} /\ UNCHANGED <<apc, jpc>>
    BY SMTT(30), <1>6 DEF AppForks, others
  <2>2. Svc \in {"open", "closing"}
    BY <2>1 DEF LaunchInv, ProcInv, Svc
  <2>3. "D" \notin Mem /\ Mem' = Mem \cup {"D"}
    BY <2>1 DEF Mem
  <2> QED
    BY SMTT(30), <1>2, <1>3, <2>2, <2>3, EnterStep DEF Programs
<1> QED
  BY <1>4, <1>5, <1>6

LEMMA JoinServes ==
  ASSUME LaunchInv, PinSandboxProcess \/ JoinStep
  PROVE  ServiceStep
<1> USE DEF PinSandboxProcess, JoinStep, CheckJoinable, JoinGivesUp, JoinExtract, JoinNamespaces, JoinStarts
<1>1. UNCHANGED <<opt, spc, done, sig, apc, kpc>>
  BY Zenon DEF JoinKeeps
<1>2. Svc' = Svc
  BY Zenon, <1>1 DEF Svc
<1>3. Asked' = Asked
  BY Zenon, <1>1 DEF Asked
<1>4. CASE PinSandboxProcess \/ CheckJoinable \/ JoinGivesUp \/ JoinExtract \/ JoinNamespaces
  <2>1. jpc # "running" /\ jpc' # "running" /\ alive \ {"J"} = alive' \ {"J"}
    BY Zenon, <1>4
  <2>2. Mem' = Mem
    BY Zenon, <1>1, <2>1 DEF Mem
  <2> QED
    BY Zenon, <1>2, <1>3, <2>2, StutterStep
<1>5. CASE JoinStarts
  <2>1. jpc = "inside" /\ jpc' = "running" /\ alive' = alive
    BY <1>5
  <2>2. CASE "J" \notin alive
    <3>1. Mem' = Mem
      BY <1>1, <2>1, <2>2 DEF Mem
    <3> QED
      BY Zenon, <1>2, <1>3, <3>1, StutterStep
  <2>3. CASE "J" \in alive
    <3>1. Svc \in {"open", "closing"}
      BY <2>1, <2>3 DEF LaunchInv, ProcInv, Joining, Svc
    <3>2. "J" \notin Mem /\ Mem' = Mem \cup {"J"}
      BY <1>1, <2>1, <2>3 DEF Mem
    <3> QED
      BY Zenon, <1>2, <1>3, <3>1, <3>2, EnterStep DEF Programs
  <2> QED
    BY Zenon, <2>2, <2>3
<1> QED
  BY Zenon, <1>4, <1>5

(* The processes, pipes and signals of a sandbox implement SandboxService  *)
(* (sandbox.c, main.c, join.c, shutdown.c): programs run only in a         *)
(* complete sandbox, and it goes down with everything in it when nothing   *)
(* is left, or because somebody or the options asked, never otherwise.     *)
THEOREM LaunchImplementsService == LaunchSpec => ImplementsService
<1>1. LaunchInit => Service!ServiceInit
  BY DEF LaunchInit, Service!ServiceInit
<1>2. LaunchInv /\ LaunchInv' /\ [LaunchNext]_lvars => [Service!ServiceNext]_(Service!svars)
  <2> SUFFICES ASSUME LaunchInv, LaunchInv', [LaunchNext]_lvars PROVE ServiceStep
    BY DEF ServiceStep
  <2> QED
    BY ParentStepsServe, InitStepServes, AppExecServes, AppStepsServe, JoinServes DEF LaunchNext
<1> QED
  BY <1>1, <1>2, LaunchInvAlways, PTL DEF LaunchSpec, ImplementsService, Service!ServiceSpec
=============================================================================
