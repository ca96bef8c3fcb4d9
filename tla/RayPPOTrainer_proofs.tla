------------------------ MODULE RayPPOTrainer_proofs ------------------------
(***************************************************************************)
(* Proofs, for any number of ranks, steps, epochs and runs, of what        *)
(* RayPPOTrainer's checkpoints guarantee.                                  *)
(***************************************************************************)
EXTENDS RayPPOTrainer, TLAPS

USE DEF None, Steps, MaxSteps, Roles, Mode

\* The contents that the model gives to files.
LEMMA FileTypes ==
    /\ AbsentFile \in File /\ AbsentFile.st = "absent"
    /\ TornFile \in File /\ TornFile.st = "torn"
    /\ TypeOK => \A v \in Nat : SavedFile(v) \in File /\ SavedFile(v).st = "saved"
                               /\ SavedFile(v).by = run /\ SavedFile(v).val = v
  BY ConstantsAssumption DEF AbsentFile, TornFile, SavedFile, File, TypeOK

\* The folder that a run resumes from is one whose files an earlier run wrote.
LEMMA ResumeFolderBound ==
    ASSUME TypeInv, pc = "load", CanResume, Loadable(ResumeFolder)
    PROVE  /\ ResumeFolder \in Steps
           /\ ResumeFolder <= TotalSteps + run - 2
           /\ \A role \in UsedRoles, r \in Ranks :
                shard[ResumeFolder][role][r] \in File
           /\ data[ResumeFolder] \in File
<1> USE ConstantsAssumption DEF TypeInv, TypeOK
<1>1. ResumeFolder \in Steps
  BY Zenon DEF CanResume, ResumeFolder, Latest
<1>2. PICK r \in Ranks : TRUE
  OBVIOUS
<1>3. shard[ResumeFolder]["actor"][r].st = "saved"
  BY DEF Loadable, UsedRoles
<1>4. ResumeFolder <= TotalSteps + run - 2
  BY <1>1, <1>3 DEF StepBound
<1>5. UsedRoles \subseteq Roles
  BY DEF UsedRoles
<1>6. data[ResumeFolder] \in File
  BY <1>1
<1>7. shard[ResumeFolder] \in [Roles -> [Ranks -> File]]
  BY <1>1
<1>8. \A role \in UsedRoles, q \in Ranks : shard[ResumeFolder][role][q] \in File
  BY Zenon, <1>5, <1>7
<1> QED
  BY <1>1, <1>4, <1>6, <1>8

\* The type invariant and the bound on steps hold initially.
LEMMA TypeInvInit == Init => TypeInv
  BY ConstantsAssumption
     DEF Init, TypeInv, TypeOK, StepBound, PCs, Phases, File, AbsentFile,
         NoUpdates, AllIdle, NoPath

\* Every step preserves the type invariant and the bound on steps.
LEMMA TypeInvNext == TypeInv /\ [Next]_vars => TypeInv'
<1> SUFFICES ASSUME TypeInv, [Next]_vars PROVE TypeInv'
  OBVIOUS
<1> USE ConstantsAssumption
<1>1. CASE Start
  BY <1>1 DEF Start, TypeInv, TypeOK, StepBound, PCs, Phases, NoUpdates,
              AllIdle, NoPath, disk
<1>2. CASE LoadNothing
  BY <1>2 DEF LoadNothing, TypeInv, TypeOK, StepBound, PCs, disk
<1>3. CASE LoadFolder
  <2> DEFINE s == ResumeFolder
  <2>1. /\ s \in Steps
        /\ s <= TotalSteps + run - 2
        /\ \A role \in UsedRoles, r \in Ranks : shard[s][role][r] \in File
        /\ data[s] \in File
    BY <1>3, ResumeFolderBound DEF LoadFolder
  <2> HIDE DEF s
  <2>2. /\ global_steps' = s + 1
        /\ updates' = [role \in Roles |-> [r \in Ranks |->
                     IF role \in UsedRoles THEN shard[s][role][r].val ELSE 0]]
        /\ yielded' = data[s].val
        /\ pc' = "fetch" /\ pc = "load"
        /\ UNCHANGED <<run, mode, epoch, phase, previous_saved_path,
                       folders, shard, data, tracker>>
    BY <1>3 DEF LoadFolder, s, disk
  <2>3. updates' \in [Roles -> [Ranks -> Nat]]
    BY <2>1, <2>2 DEF File
  <2>4. yielded' \in Nat
    BY <2>1, <2>2 DEF File
  <2> QED
    BY <2>1, <2>2, <2>3, <2>4 DEF TypeInv, TypeOK, StepBound, PCs
<1>4. CASE LoadRaises
  BY <1>4 DEF LoadRaises, TypeInv, TypeOK, StepBound, PCs, memory, disk
<1>5. CASE FetchBatch
  BY <1>5 DEF FetchBatch, TypeInv, TypeOK, StepBound, PCs, disk
<1>6. CASE NextEpoch
  BY <1>6 DEF NextEpoch, TypeInv, TypeOK, StepBound, PCs, disk
<1>7. CASE LoopEnds
  BY <1>7 DEF LoopEnds, TypeInv, TypeOK, StepBound, PCs, memory, disk
<1>8. CASE UpdateCritic
  BY <1>8 DEF UpdateCritic, Updated, TypeInv, TypeOK, StepBound, PCs, disk
<1>9. CASE UpdateActor
  BY <1>9 DEF UpdateActor, Updated, TypeInv, TypeOK, StepBound, PCs, disk
<1>10. CASE EndStep
  BY <1>10 DEF EndStep, IsLastStep, TypeInv, TypeOK, StepBound, PCs, disk
<1>11. ASSUME NEW role \in Roles, NEW r \in Ranks, Prepare(role, r)
       PROVE  TypeInv'
  <2>1. shard' \in [Steps -> [Roles -> [Ranks -> File]]]
    BY SMTT(30), <1>11, FileTypes DEF Prepare, TypeInv, TypeOK
  <2>2. \A s \in Steps, ro \in Roles, q \in Ranks :
           shard'[s][ro][q] = shard[s][ro][q] \/ shard'[s][ro][q] = AbsentFile
    BY <1>11, FileTypes DEF Prepare, TypeInv, TypeOK
  <2>3. phase' \in [Ranks -> Phases] /\ folders' \subseteq Steps
    BY SMTT(30), <1>11 DEF Prepare, TypeInv, TypeOK, Phases
  <2>4. StepBound'
    BY <1>11, <2>2, FileTypes DEF Prepare, TypeInv, TypeOK, StepBound
  <2> QED
    BY <1>11, <2>1, <2>3, <2>4 DEF Prepare, TypeInv, TypeOK
<1>12. ASSUME NEW role \in Roles, NEW r \in Ranks, BeginWrite(role, r)
       PROVE  TypeInv'
  <2>1. shard' \in [Steps -> [Roles -> [Ranks -> File]]]
    BY <1>12, FileTypes DEF BeginWrite, TypeInv, TypeOK
  <2>2. \A s \in Steps, ro \in Roles, q \in Ranks :
           shard'[s][ro][q] = shard[s][ro][q] \/ shard'[s][ro][q] = TornFile
    BY <1>12, FileTypes DEF BeginWrite, TypeInv, TypeOK
  <2>3. phase' \in [Ranks -> Phases]
    BY <1>12 DEF BeginWrite, TypeInv, TypeOK, Phases
  <2>4. StepBound'
    BY <1>12, <2>2, FileTypes DEF BeginWrite, TypeInv, TypeOK, StepBound
  <2> QED
    BY <1>12, <2>1, <2>3, <2>4 DEF BeginWrite, TypeInv, TypeOK
<1>13. ASSUME NEW role \in Roles, NEW r \in Ranks, EndWrite(role, r)
       PROVE  TypeInv'
  <2> DEFINE f == SavedFile(updates[role][r])
  <2>1. f \in File
    BY FileTypes DEF TypeInv, TypeOK
  <2>2. shard' = [shard EXCEPT ![global_steps][role][r] = f]
    BY <1>13 DEF EndWrite
  <2> HIDE DEF f
  <2>3. shard' \in [Steps -> [Roles -> [Ranks -> File]]]
    BY <2>1, <2>2 DEF TypeInv, TypeOK
  <2>4. \A s \in Steps, ro \in Roles, q \in Ranks :
           shard'[s][ro][q] = shard[s][ro][q] \/ s = global_steps
    BY <2>2 DEF TypeInv, TypeOK
  <2>5. phase' \in [Ranks -> Phases]
    BY <1>13 DEF EndWrite, TypeInv, TypeOK, Phases
  <2>6. StepBound'
    BY <1>13, <2>4 DEF EndWrite, Saving, TypeInv, TypeOK, StepBound
  <2> QED
    BY SMTT(30), <1>13, <2>3, <2>5, <2>6 DEF EndWrite, TypeInv, TypeOK
<1>14. ASSUME NEW role \in Roles, SaveReturns(role)
       PROVE  TypeInv'
  BY <1>14 DEF SaveReturns, Saving, AllIdle, RememberedPath, TypeInv, TypeOK,
               StepBound, PCs, Phases, disk
<1>15. CASE OpenData
  <2>1. data' \in [Steps -> File]
    BY <1>15, FileTypes DEF OpenData, TypeInv, TypeOK
  <2> QED
    BY <1>15, <2>1 DEF OpenData, TypeInv, TypeOK, StepBound, PCs, memory
<1>16. CASE WriteData
  <2>1. data' \in [Steps -> File]
    BY <1>16, FileTypes DEF WriteData, TypeInv, TypeOK
  <2> QED
    BY <1>16, <2>1 DEF WriteData, TypeInv, TypeOK, StepBound, PCs, memory
<1>17. CASE OpenTracker
  BY <1>17, FileTypes DEF OpenTracker, TypeInv, TypeOK, StepBound, PCs, memory
<1>18. CASE WriteTracker
  <2>1. tracker' \in File
    BY <1>18, FileTypes DEF WriteTracker, TypeInv, TypeOK
  <2> QED
    BY <1>18, <2>1 DEF WriteTracker, TypeInv, TypeOK, StepBound, PCs, memory
<1>19. CASE Crash
  BY <1>19 DEF Crash, Alive, TypeInv, TypeOK, StepBound, PCs, memory, disk
<1>20. CASE Exit
  BY <1>20 DEF Exit, TypeInv, TypeOK, StepBound, PCs, memory, disk
<1>21. CASE Over \/ UNCHANGED vars
  BY Zenon, <1>21 DEF Over, vars, TypeInv, TypeOK, StepBound, memory, disk
<1> QED
  BY <1>1, <1>2, <1>3, <1>4, <1>5, <1>6, <1>7, <1>8, <1>9, <1>10, <1>11, <1>12,
     <1>13, <1>14, <1>15, <1>16, <1>17, <1>18, <1>19, <1>20, <1>21
     DEF Next, Program, Save

\* In every configuration, resume mode and pattern of crashes the state is well
\* typed: a run takes at most one step more than the runs before it.
THEOREM TypeCorrect == Spec => []TypeOK
<1>1. TypeInv => TypeOK
  BY DEF TypeInv
<1> QED
  BY <1>1, TypeInvInit, TypeInvNext, PTL DEF Spec

-----------------------------------------------------------------------------
(***************************************************************************)
(* Checkpoints.  CheckpointInv is the conjunction of the type invariant,   *)
(* LatestIsComplete and EveryUpdateOnce with SaveInv, which says how far a *)
(* save has come.  SaveInv is needed because LatestIsComplete says nothing *)
(* of a save in progress: the step that writes the tracker must find the   *)
(* files of all ranks already there, and every earlier step must write to  *)
(* a folder that the tracker does not name.                                *)
(***************************************************************************)
SaveDefs == SaveInv /\ LatestIsComplete /\ EveryUpdateOnce

\* A step that writes no file keeps the latest checkpoint complete.
LEMMA DiskFrame ==
    ASSUME LatestIsComplete, UNCHANGED disk
    PROVE  LatestIsComplete'
  BY DEF LatestIsComplete, Complete, UpdatesAfter, UsedRoles, disk

\* While a run is on its way to the tracker, the folder it writes to is not the
\* one that the tracker names.
LEMMA OtherFolder ==
    ASSUME CheckpointInv, tracker.st = "saved",
           pc \in {"save_actor", "save_critic", "open_data", "write_data"}
    PROVE  tracker.val \in Steps /\ tracker.val # global_steps
<1>1. tracker.val \in folders /\ folders \subseteq Steps
  BY DEF CheckpointInv, LatestIsComplete, Complete, TypeInv, TypeOK
<1>2. tracker.val < global_steps
  BY DEF CheckpointInv, SaveInv, TrackerInv, Alive
<1>3. tracker.val \in Nat /\ global_steps \in Nat
  BY DEF CheckpointInv, TypeInv, TypeOK, File
<1> QED
  BY <1>1, <1>2, <1>3

\* A step that writes only to a folder that the tracker does not name keeps
\* the latest checkpoint complete.
LEMMA CompleteFrame ==
    ASSUME LatestIsComplete, UNCHANGED tracker, folders \subseteq folders',
           tracker.st = "saved" =>
             /\ \A role \in Roles, r \in Ranks :
                  shard'[tracker.val][role][r] = shard[tracker.val][role][r]
             /\ data'[tracker.val] = data[tracker.val]
    PROVE  LatestIsComplete'
<1>1. UsedRoles \subseteq Roles
  BY DEF UsedRoles
<1> QED
  BY <1>1 DEF LatestIsComplete, Complete, UpdatesAfter, UsedRoles

\* CheckpointInv holds initially.
LEMMA CheckpointInvInit == SafeConfig /\ Init => CheckpointInv
<1> SUFFICES ASSUME SafeConfig, Init PROVE CheckpointInv
  OBVIOUS
<1>1. TypeInv
  BY TypeInvInit
<1>2. SaveInv
  BY DEF Init, SaveInv, ControlInv, ProgressInv, TrackerInv, Alive, AfterActor, AfterCritic, Saving, NoPath
<1>3. LatestIsComplete
  BY DEF Init, LatestIsComplete, AbsentFile
<1>4. EveryUpdateOnce
  BY DEF Init, EveryUpdateOnce, Alive
<1> QED
  BY <1>1, <1>2, <1>3, <1>4 DEF CheckpointInv

\* Every step preserves CheckpointInv.
LEMMA CheckpointInvNext ==
    SafeConfig /\ CheckpointInv /\ [Next]_vars => CheckpointInv'
<1> SUFFICES ASSUME SafeConfig, CheckpointInv, [Next]_vars
             PROVE  SaveDefs'
  BY TypeInvNext DEF CheckpointInv, SaveDefs
<1> USE ConstantsAssumption DEF CheckpointInv
<1>1. CASE Start
  <2>1. LatestIsComplete'
    BY <1>1, DiskFrame DEF Start
  <2> QED
    BY <1>1, <2>1 DEF Start, SaveDefs, SaveInv, ControlInv, ProgressInv, TrackerInv, EveryUpdateOnce, Alive,
       AfterActor, AfterCritic, Saving, ShardSaved, NoPath, AllIdle, NoUpdates
<1>2. CASE LoadNothing
  <2>1. LatestIsComplete'
    BY <1>2, DiskFrame DEF LoadNothing
  <2>2. mode.kind = "auto"
    BY DEF SafeConfig, TypeInv, TypeOK
  <2>3. tracker.st # "saved"
    BY SMTT(30), <1>2, <2>2 DEF LoadNothing, Latest, LatestIsComplete, Complete, TypeInv,
                      TypeOK, File
  <2> QED
    BY <1>2, <2>1, <2>3
       DEF LoadNothing, SaveDefs, SaveInv, ControlInv, ProgressInv, TrackerInv, EveryUpdateOnce, Alive,
       AfterActor, AfterCritic, Saving, ShardSaved, disk, StepsApplied,
       UpdatesAfter, UsedRoles
<1>3. CASE LoadFolder
  <2>1. LatestIsComplete'
    BY SMTT(30), <1>3, DiskFrame DEF LoadFolder
  <2>2. mode.kind = "auto"
    BY DEF SafeConfig, TypeInv, TypeOK
  <2> DEFINE s == tracker.val
  <2>3. ResumeFolder = s /\ tracker.st = "saved" /\ s \in Steps
    BY SMTT(30), <1>3, <2>2 DEF LoadFolder, CanResume, ResumeFolder, Latest, TypeInv, TypeOK, File
  <2>4. \A role \in UsedRoles, r \in Ranks : shard[s][role][r].val = UpdatesAfter(role, s)
    <3>1. \A role \in UsedRoles, r \in Ranks :
            shard[s][role][r] =
              [st |-> "saved", by |-> tracker.by, val |-> UpdatesAfter(role, s)]
      BY <2>3 DEF LatestIsComplete, Complete
    <3> TAKE role \in UsedRoles, r \in Ranks
    <3>2. PICK x, b, u : x = shard[s][role][r] /\ b = tracker.by /\ u = UpdatesAfter(role, s)
      OBVIOUS
    <3>3. x = [st |-> "saved", by |-> b, val |-> u]
      BY <3>1, <3>2
    <3>4. x.val = u
      BY <3>3
    <3> QED
      BY <3>2, <3>4
  <2>5. EveryUpdateOnce'
    <3> SUFFICES ASSUME NEW role \in UsedRoles, NEW r \in Ranks
                 PROVE  updates'[role][r] = UpdatesAfter(role, StepsApplied(role)')
      BY DEF EveryUpdateOnce, UpdatesAfter, UsedRoles
    <3>1. role \in Roles
      BY DEF UsedRoles
    <3>2. updates'[role][r] = UpdatesAfter(role, s)
      BY <1>3, <2>3, <2>4, <3>1 DEF LoadFolder
    <3>3. StepsApplied(role)' = s
      BY SMTT(30), <1>3, <2>3 DEF LoadFolder, StepsApplied
    <3> QED
      BY <3>2, <3>3
  <2> QED
    BY SMTT(30), <1>3, <2>1, <2>3, <2>5 DEF LoadFolder, SaveDefs, SaveInv, ControlInv, ProgressInv, TrackerInv, Alive, AfterActor,
       AfterCritic, Saving, disk
<1>4. CASE LoadRaises
  <2>1. LatestIsComplete'
    BY SMTT(30), <1>4, DiskFrame DEF LoadRaises
  <2> QED
    BY <1>4, <2>1 DEF LoadRaises, SaveDefs, SaveInv, ControlInv, ProgressInv, TrackerInv, EveryUpdateOnce, Alive,
       AfterActor, AfterCritic, Saving, ShardSaved, memory, disk
<1>5. CASE FetchBatch
  <2>1. LatestIsComplete'
    BY SMTT(30), <1>5, DiskFrame DEF FetchBatch
  <2> QED
    BY <1>5, <2>1 DEF FetchBatch, SaveDefs, SaveInv, ControlInv, ProgressInv, TrackerInv, EveryUpdateOnce, Alive,
       AfterActor, AfterCritic, Saving, ShardSaved,
       disk, StepsApplied, UpdatesAfter, UsedRoles
<1>6. CASE NextEpoch
  <2>1. LatestIsComplete'
    BY SMTT(30), <1>6, DiskFrame DEF NextEpoch
  <2> QED
    BY <1>6, <2>1 DEF NextEpoch, SaveDefs, SaveInv, ControlInv, ProgressInv, TrackerInv, EveryUpdateOnce, Alive,
       AfterActor, AfterCritic, Saving, ShardSaved,
       disk, StepsApplied, UpdatesAfter, UsedRoles
<1>7. CASE LoopEnds
  <2>1. LatestIsComplete'
    BY SMTT(30), <1>7, DiskFrame DEF LoopEnds
  <2> QED
    BY <1>7, <2>1 DEF LoopEnds, SaveDefs, SaveInv, ControlInv, ProgressInv, TrackerInv, EveryUpdateOnce, Alive,
       AfterActor, AfterCritic, Saving, ShardSaved, memory, disk
<1>8. CASE UpdateCritic
  <2>1. LatestIsComplete'
    BY <1>8, DiskFrame DEF UpdateCritic
  <2> QED
    BY <1>8, <2>1 DEF UpdateCritic, SaveDefs, SaveInv, ControlInv, ProgressInv, TrackerInv, EveryUpdateOnce, Alive,
       AfterActor, AfterCritic, Saving, ShardSaved,
       disk, StepsApplied, UpdatesAfter, UsedRoles, Updated, TypeInv, TypeOK
<1>9. CASE UpdateActor
  <2>1. LatestIsComplete'
    BY <1>9, DiskFrame DEF UpdateActor
  <2>2. SaveInv'
    <3>1. /\ pc = "update_actor" /\ pc' \in {"save_actor", "end_step"}
          /\ UNCHANGED <<global_steps, phase, previous_saved_path, tracker>>
      BY <1>9 DEF UpdateActor, disk
    <3>2. tracker.st = "saved" => tracker.val <= global_steps
      BY <3>1 DEF SaveInv, ControlInv, ProgressInv, TrackerInv, Alive, TypeInv, TypeOK, File
    <3>3. \A r \in Ranks : phase'[r] = "idle"
      BY <3>1 DEF SaveInv, ControlInv, ProgressInv, TrackerInv, Alive
    <3> QED
      BY <3>1, <3>2, <3>3 DEF SaveInv, ControlInv, ProgressInv, TrackerInv, Alive, AfterActor, AfterCritic, Saving
  <2>3. global_steps \in Nat /\ updates \in [Roles -> [Ranks -> Nat]]
    BY DEF TypeInv, TypeOK
  <2>4. EveryUpdateOnce'
    <3> SUFFICES ASSUME NEW role \in UsedRoles, NEW r \in Ranks
                 PROVE  updates'[role][r] = UpdatesAfter(role, StepsApplied(role)')
      BY DEF EveryUpdateOnce, UpdatesAfter, UsedRoles
    <3>1. /\ updates[role][r] = UpdatesAfter(role, StepsApplied(role))
          /\ StepsApplied(role)' = global_steps
          /\ StepsApplied(role) = IF role = "actor" THEN global_steps - 1 ELSE global_steps
      BY <1>9 DEF UpdateActor, EveryUpdateOnce, Alive, StepsApplied
    <3>2. role \in Roles
      BY DEF UsedRoles
    <3>3. updates'[role][r] = IF role = "actor" /\ CriticWarmup <= global_steps
                                THEN updates[role][r] + 1 ELSE updates[role][r]
      BY <1>9, <2>3, <3>2 DEF UpdateActor, Updated
    <3>4. global_steps >= 1
      BY <1>9 DEF UpdateActor, SaveInv, ControlInv, ProgressInv, TrackerInv, Alive
    <3> QED
      BY <2>3, <3>1, <3>2, <3>3, <3>4 DEF UpdatesAfter
  <2> QED
    BY <2>1, <2>2, <2>4 DEF SaveDefs
<1>10. CASE EndStep
  <2>1. LatestIsComplete'
    BY <1>10, DiskFrame DEF EndStep
  <2>2. global_steps \in Nat /\ tracker.val \in Nat
    BY SMTT(30) DEF TypeInv, TypeOK, File
  <2>3. SaveInv'
    BY <1>10, <2>2 DEF EndStep, SaveInv, ControlInv, ProgressInv, TrackerInv, Alive, AfterActor, AfterCritic, Saving,
                       ShardSaved, disk
  <2>4. EveryUpdateOnce'
    <3> SUFFICES ASSUME pc' = "fetch", NEW role \in UsedRoles, NEW r \in Ranks
                 PROVE  updates'[role][r] = UpdatesAfter(role, StepsApplied(role)')
      BY <1>10 DEF EveryUpdateOnce, EndStep, Alive, UpdatesAfter, UsedRoles
    <3>1. StepsApplied(role)' = StepsApplied(role)
      BY <1>10, <2>2 DEF EndStep, StepsApplied
    <3>2. updates[role][r] = UpdatesAfter(role, StepsApplied(role))
      BY <1>10 DEF EndStep, EveryUpdateOnce, Alive
    <3> QED
      BY <1>10, <3>1, <3>2 DEF EndStep
  <2> QED
    BY <2>1, <2>3, <2>4 DEF SaveDefs
<1>11. ASSUME NEW role \in Roles, NEW r \in Ranks, Prepare(role, r)
       PROVE  SaveDefs'
  <2>1. shard' = shard
    BY <1>11 DEF Prepare, SaveInv, ControlInv
  <2>2. LatestIsComplete'
    BY <1>11, <2>1 DEF Prepare, LatestIsComplete, Complete, UpdatesAfter, UsedRoles
  <2>3. pc \in {"save_actor", "save_critic"}
    BY <1>11 DEF Prepare, Saving
  <2>4. ControlInv'
    BY <1>11, <2>3 DEF Prepare, SaveInv, ControlInv, Alive
  <2>5. ProgressInv'
    <3>1. \A ro \in Roles, q \in Ranks : ShardSaved(ro, q)' <=> ShardSaved(ro, q)
      BY <1>11, <2>1 DEF Prepare, ShardSaved, UpdatesAfter
    <3>2. \A q \in Ranks : phase'[q] = "done" => phase[q] = "done"
      BY <1>11 DEF Prepare, TypeInv, TypeOK
    <3>3. global_steps' \in folders' /\ pc' = pc
      BY <1>11 DEF Prepare
    <3> QED
      BY <2>3, <3>1, <3>2, <3>3 DEF SaveInv, ProgressInv, Saving, AfterActor, AfterCritic
  <2>6. TrackerInv'
    BY <1>11 DEF Prepare, SaveInv, TrackerInv, Alive
  <2>7. EveryUpdateOnce'
    BY <1>11 DEF Prepare, EveryUpdateOnce, Alive, StepsApplied, UpdatesAfter, UsedRoles
  <2> QED
    BY <2>2, <2>4, <2>5, <2>6, <2>7 DEF SaveDefs, SaveInv
<1>12. ASSUME NEW role \in Roles, NEW r \in Ranks, BeginWrite(role, r)
       PROVE  SaveDefs'
  <2>1. \A s \in Steps, ro \in Roles, q \in Ranks :
           (s # global_steps \/ ro # role \/ q # r)
              => shard'[s][ro][q] = shard[s][ro][q]
    BY <1>12 DEF BeginWrite, TypeInv, TypeOK
  <2>2. pc \in {"save_actor", "save_critic"} /\ (pc = "save_critic" <=> role = "critic")
    BY <1>12 DEF BeginWrite, Saving
  <2>3. tracker.st = "saved" => tracker.val \in Steps /\ tracker.val # global_steps
    BY <2>2, OtherFolder
  <2>4. LatestIsComplete'
    BY <1>12, <2>1, <2>3, CompleteFrame DEF BeginWrite
  <2>5. ControlInv'
    BY <1>12, <2>2 DEF BeginWrite, SaveInv, ControlInv, Alive
  <2>6. ProgressInv'
    <3>1. \A ro \in Roles, q \in Ranks :
            (ro # role \/ q # r) => (ShardSaved(ro, q)' <=> ShardSaved(ro, q))
      BY <1>12, <2>1 DEF BeginWrite, ShardSaved, UpdatesAfter, TypeInv, TypeOK
    <3>2. \A q \in Ranks : phase'[q] = "done" => q # r /\ phase[q] = "done"
      BY <1>12 DEF BeginWrite, TypeInv, TypeOK
    <3>3. global_steps \in folders
      BY <1>12, <2>2 DEF BeginWrite, SaveInv, ProgressInv, AfterActor
    <3>4. UNCHANGED <<pc, global_steps, folders>>
      BY <1>12 DEF BeginWrite
    <3> QED
      BY <2>2, <3>1, <3>2, <3>3, <3>4 DEF SaveInv, ProgressInv, Saving, AfterActor, AfterCritic
  <2>7. TrackerInv'
    BY <1>12 DEF BeginWrite, SaveInv, TrackerInv, Alive
  <2>8. EveryUpdateOnce'
    BY <1>12 DEF BeginWrite, EveryUpdateOnce, Alive, StepsApplied, UpdatesAfter, UsedRoles
  <2> QED
    BY <2>4, <2>5, <2>6, <2>7, <2>8 DEF SaveDefs, SaveInv
<1>13. ASSUME NEW role \in Roles, NEW r \in Ranks, EndWrite(role, r)
       PROVE  SaveDefs'
  <2> DEFINE f == SavedFile(updates[role][r])
  <2>1. shard' = [shard EXCEPT ![global_steps][role][r] = f]
    BY <1>13 DEF EndWrite
  <2>2. pc \in {"save_actor", "save_critic"} /\ (pc = "save_critic" <=> role = "critic")
    BY <1>13 DEF EndWrite, Saving
  <2>3. role \in UsedRoles /\ global_steps \in Steps
    BY <2>2 DEF SaveInv, ControlInv, UsedRoles, TypeInv, TypeOK
  <2>4. f = [st |-> "saved", by |-> run, val |-> UpdatesAfter(role, global_steps)]
    BY <2>2, <2>3 DEF EveryUpdateOnce, Alive, StepsApplied, SavedFile
  <2> HIDE DEF f
  <2>5. \A s \in Steps, ro \in Roles, q \in Ranks :
           (s # global_steps \/ ro # role \/ q # r)
              => shard'[s][ro][q] = shard[s][ro][q]
    BY <2>1 DEF TypeInv, TypeOK
  <2>6. shard'[global_steps][role][r] = f
    BY <2>1, <2>3 DEF TypeInv, TypeOK
  <2>7. tracker.st = "saved" => tracker.val \in Steps /\ tracker.val # global_steps
    BY <2>2, OtherFolder
  <2>8. LatestIsComplete'
    BY <1>13, <2>5, <2>7, CompleteFrame DEF EndWrite
  <2>9. ControlInv'
    BY <1>13, <2>2 DEF EndWrite, SaveInv, ControlInv, Alive
  <2>10. ProgressInv'
    <3>1. \A ro \in Roles, q \in Ranks :
            (ro # role \/ q # r) => (ShardSaved(ro, q)' <=> ShardSaved(ro, q))
      BY <1>13, <2>3, <2>5 DEF EndWrite, ShardSaved, UpdatesAfter
    <3>2. ShardSaved(role, r)'
      BY <1>13, <2>4, <2>6 DEF EndWrite, ShardSaved, UpdatesAfter
    <3>3. \A q \in Ranks : phase'[q] = "done" => q = r \/ phase[q] = "done"
      BY <1>13 DEF EndWrite, TypeInv, TypeOK
    <3>4. global_steps \in folders
      BY <1>13, <2>2 DEF EndWrite, SaveInv, ProgressInv, AfterActor
    <3>5. UNCHANGED <<pc, global_steps, folders>>
      BY <1>13 DEF EndWrite
    <3> QED
      BY <2>2, <3>1, <3>2, <3>3, <3>4, <3>5
         DEF SaveInv, ProgressInv, Saving, AfterActor, AfterCritic
  <2>11. TrackerInv'
    BY <1>13 DEF EndWrite, SaveInv, TrackerInv, Alive
  <2>12. EveryUpdateOnce'
    BY <1>13 DEF EndWrite, EveryUpdateOnce, Alive, StepsApplied, UpdatesAfter, UsedRoles
  <2> QED
    BY <2>8, <2>9, <2>10, <2>11, <2>12 DEF SaveDefs, SaveInv
<1>14. ASSUME NEW role \in Roles, SaveReturns(role)
       PROVE  SaveDefs'
  <2>1. LatestIsComplete'
    BY <1>14, DiskFrame DEF SaveReturns
  <2>2. pc \in {"save_actor", "save_critic"} /\ (pc = "save_critic" <=> role = "critic")
    BY <1>14 DEF SaveReturns, Saving
  <2>3. pc' = IF pc = "save_actor" /\ UseCritic THEN "save_critic" ELSE "open_data"
    BY <1>14, <2>2 DEF SaveReturns
  <2>4. UNCHANGED <<run, global_steps, updates, folders, shard, data, tracker>>
    BY <1>14 DEF SaveReturns, disk
  <2>5. \A q \in Ranks : phase[q] = "done" /\ phase'[q] = "idle"
    BY <1>14 DEF SaveReturns, AllIdle
  <2>6. RemovePrevious => \A ro \in Roles : previous_saved_path'[ro] = None
    BY <1>14 DEF SaveReturns, RememberedPath, SafeConfig, SaveInv, ControlInv,
                 TypeInv, TypeOK
  <2>7. ControlInv'
    BY SMTT(30), <2>2, <2>3, <2>4, <2>5, <2>6 DEF SaveInv, ControlInv, Alive
  <2>8. ProgressInv'
    <3>1. \A ro \in Roles, q \in Ranks : ShardSaved(ro, q)' <=> ShardSaved(ro, q)
      BY SMTT(30), <2>4 DEF ShardSaved, UpdatesAfter
    <3>2. \A q \in Ranks : ShardSaved(role, q)
      BY <1>14, <2>5 DEF SaveReturns, SaveInv, ProgressInv
    <3>3. global_steps \in folders
      BY <2>2, <2>5 DEF SaveInv, ProgressInv, AfterActor
    <3> QED
      BY <2>2, <2>3, <2>4, <2>5, <3>1, <3>2, <3>3
         DEF SaveInv, ProgressInv, Saving, AfterActor, AfterCritic
  <2>9. TrackerInv'
    BY <2>2, <2>3, <2>4 DEF SaveInv, TrackerInv, Alive
  <2>10. EveryUpdateOnce'
    BY <2>2, <2>3, <2>4 DEF EveryUpdateOnce, Alive, StepsApplied, UpdatesAfter, UsedRoles
  <2> QED
    BY <2>1, <2>7, <2>8, <2>9, <2>10 DEF SaveDefs, SaveInv
<1>15. CASE OpenData \/ WriteData
  <2>1. /\ \/ pc = "open_data" /\ pc' = "write_data"
           \/ pc = "write_data" /\ pc' = "open_tracker"
        /\ UNCHANGED <<run, mode, global_steps, epoch, yielded, updates, phase,
                       previous_saved_path, folders, shard, tracker>>
    BY <1>15 DEF OpenData, WriteData, memory
  <2>2. \A s \in Steps : s # global_steps => data'[s] = data[s]
    BY <1>15 DEF OpenData, WriteData, TypeInv, TypeOK
  <2>3. tracker.st = "saved" => tracker.val \in Steps /\ tracker.val # global_steps
    BY <2>1, OtherFolder
  <2>4. LatestIsComplete'
    BY <2>1, <2>2, <2>3, CompleteFrame
  <2>5. ControlInv'
    BY SMTT(30), <2>1 DEF SaveInv, ControlInv, Alive
  <2>6. ProgressInv'
    <3>1. \A ro \in Roles, q \in Ranks : ShardSaved(ro, q)' <=> ShardSaved(ro, q)
      BY <2>1 DEF ShardSaved, UpdatesAfter
    <3>2. pc' = "open_tracker" =>
            data'[global_steps].st = "saved" /\ data'[global_steps].by = run
      BY <1>15, <2>1 DEF OpenData, WriteData, SavedFile, TypeInv, TypeOK
    <3> QED
      BY SMTT(30), <2>1, <3>1, <3>2 DEF SaveInv, ProgressInv, Saving, AfterActor, AfterCritic
  <2>7. TrackerInv'
    BY <2>1 DEF SaveInv, TrackerInv, Alive
  <2>8. EveryUpdateOnce'
    BY <2>1 DEF EveryUpdateOnce, Alive, StepsApplied, UpdatesAfter, UsedRoles
  <2> QED
    BY <2>4, <2>5, <2>6, <2>7, <2>8 DEF SaveDefs, SaveInv
<1>16. CASE OpenTracker \/ WriteTracker
  <2>1. /\ \/ pc = "open_tracker" /\ pc' = "write_tracker"
           \/ pc = "write_tracker" /\ pc' = "end_step"
        /\ UNCHANGED <<run, mode, global_steps, epoch, yielded, updates, phase,
                       previous_saved_path, folders, shard, data>>
    BY <1>16 DEF OpenTracker, WriteTracker, memory
  <2>2. pc' = "write_tracker" => tracker'.st = "torn"
    BY <1>16, <2>1 DEF OpenTracker, WriteTracker, TornFile
  <2>3. pc' = "end_step" => tracker' = [st |-> "saved", by |-> run, val |-> global_steps]
    BY <1>16, <2>1 DEF OpenTracker, WriteTracker, SavedFile
  <2>4. LatestIsComplete'
    <3>1. CASE pc' = "write_tracker"
      BY <2>2, <3>1 DEF LatestIsComplete
    <3>2. CASE pc' = "end_step"
      <4>1. pc = "write_tracker"
        BY <2>1, <3>2
      <4>2. \A role \in UsedRoles, r \in Ranks : ShardSaved(role, r)
        BY <4>1 DEF SaveInv, ProgressInv, AfterActor, AfterCritic, UsedRoles
      <4>3. /\ global_steps \in folders
            /\ data[global_steps].st = "saved" /\ data[global_steps].by = run
        BY <4>1 DEF SaveInv, ProgressInv, AfterActor
      <4>4. Complete(global_steps, run)
        BY <4>2, <4>3 DEF Complete, ShardSaved
      <4>5. Complete(global_steps, run)'
        BY Zenon, <2>1, <4>4 DEF Complete, UpdatesAfter, UsedRoles
      <4>6. tracker'.val = global_steps' /\ tracker'.by = run'
        BY <2>1, <2>3, <3>2
      <4> QED
        BY <4>5, <4>6 DEF LatestIsComplete
    <3> QED
      BY <2>1, <3>1, <3>2
  <2>5. ControlInv'
    BY SMTT(30), <2>1 DEF SaveInv, ControlInv, Alive
  <2>6. ProgressInv'
    <3>1. \A ro \in Roles, q \in Ranks : ShardSaved(ro, q)' <=> ShardSaved(ro, q)
      BY <2>1 DEF ShardSaved, UpdatesAfter
    <3> QED
      BY SMTT(30), <2>1, <3>1 DEF SaveInv, ProgressInv, Saving, AfterActor, AfterCritic
  <2>7. TrackerInv'
    BY <2>1, <2>2, <2>3 DEF TrackerInv, TypeInv, TypeOK
  <2>8. EveryUpdateOnce'
    BY <2>1 DEF EveryUpdateOnce, Alive, StepsApplied, UpdatesAfter, UsedRoles
  <2> QED
    BY <2>4, <2>5, <2>6, <2>7, <2>8 DEF SaveDefs, SaveInv
<1>17. CASE Crash \/ Exit
  <2>1. pc' = "down" /\ UNCHANGED <<run, memory, disk>>
    BY <1>17 DEF Crash, Exit
  <2>2. LatestIsComplete'
    BY SMTT(30), <2>1, DiskFrame
  <2>3. SaveInv' /\ EveryUpdateOnce'
    BY <2>1 DEF SaveInv, ControlInv, ProgressInv, TrackerInv, EveryUpdateOnce, Alive,
                AfterActor, AfterCritic, Saving, memory
  <2> QED
    BY <2>2, <2>3 DEF SaveDefs
<1>18. CASE Over \/ UNCHANGED vars
  <2>1. UNCHANGED <<run, pc, mode, global_steps, epoch, yielded, updates, phase,
                    previous_saved_path, folders, shard, data, tracker>>
    BY <1>18 DEF Over, vars, memory, disk
  <2>2. LatestIsComplete'
    BY SMTT(30), <2>1, DiskFrame DEF disk
  <2>3. SaveInv'
    BY ZenonT(30), <2>1 DEF SaveInv, ControlInv, ProgressInv, TrackerInv, Alive, AfterActor,
                AfterCritic, Saving, ShardSaved, UpdatesAfter
  <2>4. EveryUpdateOnce'
    BY SMTT(30), <2>1 DEF EveryUpdateOnce, Alive, StepsApplied, UpdatesAfter, UsedRoles
  <2> QED
    BY <2>2, <2>3, <2>4 DEF SaveDefs
<1> QED
  BY <1>1, <1>2, <1>3, <1>4, <1>5, <1>6, <1>7, <1>8, <1>9, <1>10, <1>11, <1>12,
     <1>13, <1>14, <1>15, <1>16, <1>17, <1>18 DEF Next, Program, Save

\* The core of the argument: CheckpointInv is an invariant of every safe
\* configuration.
LEMMA CheckpointInvariant == SafeConfig /\ Spec => []CheckpointInv
<1> SUFFICES ASSUME SafeConfig PROVE Spec => []CheckpointInv
  OBVIOUS
<1>1. Init => CheckpointInv
  BY CheckpointInvInit
<1>2. CheckpointInv /\ [Next]_vars => CheckpointInv'
  BY CheckpointInvNext
<1> QED
  BY <1>1, <1>2, PTL DEF Spec

\* With resume_mode=auto and no removal of previous checkpoints, the checkpoint
\* that latest_checkpointed_iteration.txt names is whole and of one save, after
\* any crashes of any runs, for any number of ranks.
THEOREM LatestAlwaysComplete == SafeConfig /\ Spec => []LatestIsComplete
<1>1. CheckpointInv => LatestIsComplete
  BY DEF CheckpointInv
<1> QED
  BY <1>1, CheckpointInvariant, PTL

\* Under the same conditions the weights on every rank embody each step's
\* update exactly once, however often training was interrupted.
THEOREM UpdatesExactlyOnce == SafeConfig /\ Spec => []EveryUpdateOnce
<1>1. CheckpointInv => EveryUpdateOnce
  BY DEF CheckpointInv
<1> QED
  BY <1>1, CheckpointInvariant, PTL

\* Under the same conditions the only way for a run to fail at resuming is the
\* tracker that the last run truncated and did not live to write.
THEOREM RaisesOnlyIfTorn == SafeConfig /\ Spec => []OnlyTornTrackerRaises
<1> SUFFICES ASSUME SafeConfig PROVE Spec => []OnlyTornTrackerRaises
  OBVIOUS
<1>1. Init => OnlyTornTrackerRaises
  BY DEF Init, OnlyTornTrackerRaises
<1>2. OnlyTornTrackerRaises /\ CheckpointInv /\ [Next]_vars => OnlyTornTrackerRaises'
  <2> SUFFICES ASSUME OnlyTornTrackerRaises, CheckpointInv, [Next]_vars,
                      pc' = "failed", tracker'.st # "torn"
               PROVE  FALSE
    BY DEF OnlyTornTrackerRaises
  <2>1. CASE LoadRaises
    <3>1. mode.kind = "auto" /\ tracker.st # "torn"
      BY <2>1 DEF SafeConfig, CheckpointInv, TypeInv, TypeOK, LoadRaises, disk
    <3>2. CanResume /\ ~Loadable(ResumeFolder)
      BY <2>1, <3>1 DEF LoadRaises, ResumeRaises, SafeConfig
    <3>3. tracker.st = "saved" /\ ResumeFolder = tracker.val
      BY <3>1, <3>2 DEF CanResume, ResumeFolder, Latest
    <3>4. Complete(tracker.val, tracker.by)
      BY <3>3 DEF CheckpointInv, LatestIsComplete
    <3>5. \A role \in UsedRoles, r \in Ranks : shard[tracker.val][role][r].st = "saved"
      <4> TAKE role \in UsedRoles, r \in Ranks
      <4>1. shard[tracker.val][role][r] =
              [st |-> "saved", by |-> tracker.by, val |-> UpdatesAfter(role, tracker.val)]
        BY <3>4 DEF Complete
      <4> QED
        BY <4>1
    <3> QED
      BY <3>2, <3>3, <3>4, <3>5 DEF Loadable, Complete
  <2>2. CASE Next /\ ~LoadRaises
    BY Zenon, <2>2 DEF Next, Program, Save, Start, LoadNothing, LoadFolder, FetchBatch,
       NextEpoch, LoopEnds, UpdateCritic, UpdateActor, EndStep, Prepare, BeginWrite,
       EndWrite, SaveReturns, OpenData, WriteData, OpenTracker, WriteTracker, Crash,
       Exit, Over, Saving, OnlyTornTrackerRaises, vars, disk
  <2>3. CASE UNCHANGED vars
    BY <2>3 DEF OnlyTornTrackerRaises, vars, disk
  <2> QED
    BY <2>1, <2>2, <2>3
<1> QED
  BY <1>1, <1>2, CheckpointInvariant, PTL DEF Spec
=============================================================================
