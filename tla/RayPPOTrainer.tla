--------------------------- MODULE RayPPOTrainer ---------------------------
(***************************************************************************)
(* The driver of PPO training: RayPPOTrainer.fit with _save_checkpoint and *)
(* _load_checkpoint, and the checkpoint managers the workers run on its    *)
(* behalf.  The driver is one process; each save is carried out by all the *)
(* ranks of a worker group, which interleave between two barriers.  A run  *)
(* (one life of the driver and its workers) may crash between any two of   *)
(* these steps; the next run finds on disk what the last one left.         *)
(*                                                                         *)
(* Weights are abstracted to the number of optimizer updates they embody,  *)
(* and the dataloader to the number of batches it has yielded in the       *)
(* current epoch.  Generation, rewards and advantages change neither       *)
(* and are not part of this module; no more are validation and logging.    *)
(***************************************************************************)
EXTENDS Integers, FiniteSets

CONSTANTS
    Ranks,            \* the ranks of a worker group that write checkpoint files
    UseCritic,        \* self.use_critic: adv_estimator is GAE
    Backend,          \* "fsdp" or "megatron": the checkpoint manager in use
    RemovePrevious,   \* trainer.remove_previous_ckpt_in_save
    HdfsDir,          \* trainer.default_hdfs_dir is not None
    ResumeModes,      \* what a user may pass as trainer.resume_mode
    TotalSteps,       \* self.total_training_steps
    TotalEpochs,      \* trainer.total_epochs
    BatchesPerEpoch,  \* len(self.train_dataloader)
    SaveFreq,         \* trainer.save_freq
    CriticWarmup,     \* trainer.critic_warmup
    MaxRuns           \* bound on the number of runs

\* A step beyond TotalSteps is possible: a run resumed from the last step
\* takes one more.  MaxSteps therefore never stops a run.
MaxSteps == TotalSteps + MaxRuns

Steps == 0 .. MaxSteps

Roles == {"actor", "critic"}

\* No step; the value of an attribute or option that is None.
None == -1

\* trainer.resume_mode is "disable", "auto", or text for a folder.  `names' is
\* the step of the global_step_ folder that text names, `from' that of
\* trainer.resume_from_path.
Mode == [kind: {"disable", "auto", "path"},
         names: Steps \cup {None}, from: Steps \cup {None}]

ASSUME ConstantsAssumption ==
    /\ Ranks # {}
    /\ UseCritic \in BOOLEAN
    /\ Backend \in {"fsdp", "megatron"}
    /\ RemovePrevious \in BOOLEAN
    /\ HdfsDir \in BOOLEAN
    /\ ResumeModes \subseteq Mode
    /\ TotalSteps \in Nat \ {0}
    /\ TotalEpochs \in Nat \ {0}
    /\ BatchesPerEpoch \in Nat \ {0}
    /\ SaveFreq \in Int
    /\ CriticWarmup \in Nat
    /\ MaxRuns \in Nat \ {0}

VARIABLES
    run,           \* how many runs have started
    mode,          \* this run's trainer.resume_mode
    pc,            \* where the driver is
    global_steps,  \* self.global_steps
    epoch,         \* the outer loop's index
    yielded,       \* batches the dataloader has yielded in this epoch
    updates,       \* updates[role][r]: optimizer updates in rank r's weights
    phase,         \* phase[r]: how far rank r is with the save in progress
    previous_saved_path,  \* the manager's attribute, per role: a step or None
    folders,       \* steps whose global_step_ folder exists
    shard,         \* shard[s][role][r]: rank r's file under global_step_s/role
    data,          \* data[s]: global_step_s/data.pt
    tracker        \* latest_checkpointed_iteration.txt

memory == <<mode, global_steps, epoch, yielded, updates, phase, previous_saved_path>>
disk == <<folders, shard, data, tracker>>
vars == <<run, pc, memory, disk>>

(***************************************************************************)
(* Files.  A file is absent, torn (opened for writing and not closed), or  *)
(* saved: then `by' is the run that wrote it and `val' its content.        *)
(***************************************************************************)
File == [st: {"absent", "torn", "saved"}, by: 0 .. MaxRuns, val: Nat]

AbsentFile == [st |-> "absent", by |-> 0, val |-> 0]
TornFile == [st |-> "torn", by |-> 0, val |-> 0]
SavedFile(v) == [st |-> "saved", by |-> run, val |-> v]

UsedRoles == IF UseCritic THEN Roles ELSE {"actor"}

NoUpdates == [role \in Roles |-> [r \in Ranks |-> 0]]
AllIdle == [r \in Ranks |-> "idle"]
NoPath == [role \in Roles |-> None]

Init ==
    /\ run = 0
    /\ pc = "down"
    /\ mode \in ResumeModes
    /\ global_steps = 0
    /\ epoch = 0
    /\ yielded = 0
    /\ updates = NoUpdates
    /\ phase = AllIdle
    /\ previous_saved_path = NoPath
    /\ folders = {}
    /\ shard = [s \in Steps |-> [role \in Roles |-> [r \in Ranks |-> AbsentFile]]]
    /\ data = [s \in Steps |-> AbsentFile]
    /\ tracker = AbsentFile

-----------------------------------------------------------------------------
(***************************************************************************)
(* Resuming.  find_latest_ckpt_path reads the tracker: no tracker, or one  *)
(* that names a folder that does not exist, is None; int() of an empty     *)
(* tracker raises.                                                         *)
(***************************************************************************)
Latest == IF tracker.st = "saved" /\ tracker.val \in folders
            THEN tracker.val ELSE None

\* The folder _load_checkpoint settles on, None where it starts from scratch
\* (mode "auto") or fails the assertion on the name (a mode that is a path).
ResumeFolder ==
    IF mode.kind = "auto" \/ (mode.from # None /\ Latest # None)
      THEN Latest ELSE mode.names

\* Every file that the ranks' load_checkpoint, and torch.load of data.pt,
\* reads can be read.  A missing data.pt only prints a warning.
Loadable(s) ==
    /\ \A role \in UsedRoles, r \in Ranks : shard[s][role][r].st = "saved"
    /\ data[s].st # "torn"

\* A new run: the driver and the workers start with nothing in memory.
Start ==
    /\ pc = "down"
    /\ run < MaxRuns
    /\ run' = run + 1
    /\ mode' \in ResumeModes
    /\ pc' = "load"
    /\ global_steps' = 0
    /\ epoch' = 0
    /\ yielded' = 0
    /\ updates' = NoUpdates
    /\ phase' = AllIdle
    /\ previous_saved_path' = NoPath
    /\ UNCHANGED disk

\* fit adds 1 to global_steps as soon as _load_checkpoint returns.
LoadNothing ==
    /\ pc = "load"
    /\ \/ mode.kind = "disable"
       \/ ~HdfsDir /\ tracker.st # "torn" /\ mode.kind = "auto" /\ Latest = None
    /\ global_steps' = 1
    /\ pc' = "fetch"
    /\ UNCHANGED <<run, mode, epoch, yielded, updates, phase, previous_saved_path, disk>>

CanResume ==
    /\ mode.kind # "disable"
    /\ ~HdfsDir
    /\ tracker.st # "torn"
    /\ ResumeFolder # None

\* Mutant of LoadFolder: the step that was saved is taken again.
LoadFolderRepeatsStep ==
    /\ pc = "load"
    /\ CanResume
    /\ Loadable(ResumeFolder)
    /\ global_steps' = ResumeFolder
    /\ updates' = [role \in Roles |-> [r \in Ranks |->
                     IF role \in UsedRoles THEN shard[ResumeFolder][role][r].val ELSE 0]]
    /\ yielded' = data[ResumeFolder].val
    /\ pc' = "fetch"
    /\ UNCHANGED <<run, mode, epoch, phase, previous_saved_path, disk>>

\* Mutant of LoadFolder: the dataloader's state is not restored.
LoadFolderWithoutData ==
    /\ pc = "load"
    /\ CanResume
    /\ Loadable(ResumeFolder)
    /\ global_steps' = ResumeFolder + 1
    /\ updates' = [role \in Roles |-> [r \in Ranks |->
                     IF role \in UsedRoles THEN shard[ResumeFolder][role][r].val ELSE 0]]
    /\ pc' = "fetch"
    /\ UNCHANGED <<run, mode, epoch, yielded, phase, previous_saved_path, disk>>

LoadFolder ==
    /\ pc = "load"
    /\ CanResume
    /\ Loadable(ResumeFolder)
    /\ global_steps' = ResumeFolder + 1
    /\ updates' = [role \in Roles |-> [r \in Ranks |->
                     IF role \in UsedRoles THEN shard[ResumeFolder][role][r].val ELSE 0]]
    /\ yielded' = data[ResumeFolder].val
    /\ pc' = "fetch"
    /\ UNCHANGED <<run, mode, epoch, phase, previous_saved_path, disk>>

\* Not implemented for hdfs; int('') of an empty tracker; the assertion on the
\* name of the folder; a file that is missing or cannot be read.
ResumeRaises ==
    /\ mode.kind # "disable"
    /\ \/ HdfsDir
       \/ tracker.st = "torn"
       \/ mode.kind = "path" /\ ResumeFolder = None
       \/ CanResume /\ ~Loadable(ResumeFolder)

\* The run ends with the exception that _load_checkpoint raises.
LoadRaises ==
    /\ pc = "load"
    /\ ResumeRaises
    /\ pc' = "failed"
    /\ UNCHANGED <<run, memory, disk>>

-----------------------------------------------------------------------------
(***************************************************************************)
(* The training loop.                                                      *)
(***************************************************************************)
IsLastStep == global_steps >= TotalSteps

\* Mutants of ShouldSave: only the last step is saved; the last step is saved
\* only if its turn comes; it is never saved.
SaveLastOnly == SaveFreq > 0 /\ IsLastStep
SaveMultiplesOnly == SaveFreq > 0 /\ global_steps % SaveFreq = 0
SaveNeverLast == SaveFreq > 0 /\ ~IsLastStep /\ global_steps % SaveFreq = 0

ShouldSave == SaveFreq > 0 /\ (IsLastStep \/ global_steps % SaveFreq = 0)

\* The dataloader yields the batches left in this epoch: all of them, or
\* those after the position that data.pt recorded.
FetchBatch ==
    /\ pc = "fetch"
    /\ yielded < BatchesPerEpoch
    /\ yielded' = yielded + 1
    /\ pc' = IF UseCritic THEN "update_critic" ELSE "update_actor"
    /\ UNCHANGED <<run, mode, global_steps, epoch, updates, phase, previous_saved_path, disk>>

NextEpoch ==
    /\ pc = "fetch"
    /\ yielded >= BatchesPerEpoch
    /\ epoch + 1 < TotalEpochs
    /\ epoch' = epoch + 1
    /\ yielded' = 0
    /\ UNCHANGED <<run, pc, mode, global_steps, updates, phase, previous_saved_path, disk>>

\* Both loops are exhausted before the last step came up.
LoopEnds ==
    /\ pc = "fetch"
    /\ yielded >= BatchesPerEpoch
    /\ epoch + 1 >= TotalEpochs
    /\ pc' = "done"
    /\ UNCHANGED <<run, memory, disk>>

Updated(role) == [updates EXCEPT ![role] = [r \in Ranks |-> updates[role][r] + 1]]

UpdateCritic ==
    /\ pc = "update_critic"
    /\ updates' = Updated("critic")
    /\ pc' = "update_actor"
    /\ UNCHANGED <<run, mode, global_steps, epoch, yielded, phase, previous_saved_path, disk>>

\* The actor is left alone while the critic warms up.
UpdateActor ==
    /\ pc = "update_actor"
    /\ updates' = IF CriticWarmup <= global_steps THEN Updated("actor") ELSE updates
    /\ pc' = IF ShouldSave THEN "save_actor" ELSE "end_step"
    /\ UNCHANGED <<run, mode, global_steps, epoch, yielded, phase, previous_saved_path, disk>>

EndStep ==
    /\ pc = "end_step"
    /\ IF IsLastStep
         THEN pc' = "done" /\ UNCHANGED global_steps
         ELSE pc' = "fetch" /\ global_steps' = global_steps + 1
    /\ UNCHANGED <<run, mode, epoch, yielded, updates, phase, previous_saved_path, disk>>

-----------------------------------------------------------------------------
(***************************************************************************)
(* Saving.  The driver saves the actor, then the critic, then the          *)
(* dataloader, then the tracker.  save_checkpoint of a role is a call on   *)
(* every rank: each removes what it saved before (if told to) and makes    *)
(* the directory, all meet at a barrier, each writes its files, and the    *)
(* call returns when all are done.                                         *)
(***************************************************************************)
Saving(role) == pc = IF role = "actor" THEN "save_actor" ELSE "save_critic"

\* Mutant of Prepare: only one rank saves, and the others never come to the
\* barrier that it waits at.
PrepareOneRank(role, r) ==
    /\ Saving(role)
    /\ r = CHOOSE q \in Ranks : TRUE
    /\ phase[r] = "idle"
    /\ phase' = [phase EXCEPT ![r] = "ready"]
    /\ folders' = folders \cup {global_steps}
    /\ UNCHANGED <<run, pc, mode, global_steps, epoch, yielded, updates,
                   previous_saved_path, shard, data, tracker>>

\* remove_previous_save_local_path and local_mkdir.
Prepare(role, r) ==
    /\ Saving(role)
    /\ phase[r] = "idle"
    /\ phase' = [phase EXCEPT ![r] = "ready"]
    /\ shard' = IF RemovePrevious /\ previous_saved_path[role] # None
                  THEN [shard EXCEPT ![previous_saved_path[role]][role] =
                          [q \in Ranks |-> AbsentFile]]
                  ELSE shard
    /\ folders' = folders \cup {global_steps}
    /\ UNCHANGED <<run, pc, mode, global_steps, epoch, yielded, updates,
                   previous_saved_path, data, tracker>>

\* The barrier before the files are written.  A rank's file stands for all that
\* load_checkpoint of that rank reads.  With megatron the model's file is written
\* by the first data-parallel rank for the others and rng_states.pt by all of
\* them in turn; random states are not modelled, and a model's file has the
\* updates that all ranks share, so that it does not matter whose file it is.
BeginWrite(role, r) ==
    /\ Saving(role)
    /\ phase[r] = "ready"
    /\ \A q \in Ranks : phase[q] # "idle"
    /\ phase' = [phase EXCEPT ![r] = "writing"]
    /\ shard' = [shard EXCEPT ![global_steps][role][r] = TornFile]
    /\ UNCHANGED <<run, pc, mode, global_steps, epoch, yielded, updates,
                   previous_saved_path, folders, data, tracker>>

EndWrite(role, r) ==
    /\ Saving(role)
    /\ phase[r] = "writing"
    /\ phase' = [phase EXCEPT ![r] = "done"]
    /\ shard' = [shard EXCEPT ![global_steps][role][r] = SavedFile(updates[role][r])]
    /\ UNCHANGED <<run, pc, mode, global_steps, epoch, yielded, updates,
                   previous_saved_path, folders, data, tracker>>

\* The path that a manager remembers.  FSDPCheckpointManager assigns
\* previous_save_path, an attribute nothing reads, and leaves this one None.
RememberedPath == IF Backend = "megatron" THEN global_steps ELSE None

\* Mutant of SaveReturns: the driver goes on once one rank has returned.
SaveReturnsEarly(role) ==
    /\ Saving(role)
    /\ \E r \in Ranks : phase[r] = "done"
    /\ phase' = AllIdle
    /\ previous_saved_path' = [previous_saved_path EXCEPT ![role] = RememberedPath]
    /\ pc' = IF role = "actor" /\ UseCritic THEN "save_critic" ELSE "open_data"
    /\ UNCHANGED <<run, mode, global_steps, epoch, yielded, updates, disk>>

\* The call has returned from every rank.
SaveReturns(role) ==
    /\ Saving(role)
    /\ \A r \in Ranks : phase[r] = "done"
    /\ phase' = AllIdle
    /\ previous_saved_path' = [previous_saved_path EXCEPT ![role] = RememberedPath]
    /\ pc' = IF role = "actor" /\ UseCritic THEN "save_critic" ELSE "open_data"
    /\ UNCHANGED <<run, mode, global_steps, epoch, yielded, updates, disk>>

\* torch.save of the dataloader's state.
OpenData ==
    /\ pc = "open_data"
    /\ data' = [data EXCEPT ![global_steps] = TornFile]
    /\ pc' = "write_data"
    /\ UNCHANGED <<run, memory, folders, shard, tracker>>

WriteData ==
    /\ pc = "write_data"
    /\ data' = [data EXCEPT ![global_steps] = SavedFile(yielded)]
    /\ pc' = "open_tracker"
    /\ UNCHANGED <<run, memory, folders, shard, tracker>>

\* open(.., 'w') truncates the tracker; the write comes after.
OpenTracker ==
    /\ pc = "open_tracker"
    /\ tracker' = TornFile
    /\ pc' = "write_tracker"
    /\ UNCHANGED <<run, memory, folders, shard, data>>

WriteTracker ==
    /\ pc = "write_tracker"
    /\ tracker' = SavedFile(global_steps)
    /\ pc' = "end_step"
    /\ UNCHANGED <<run, memory, folders, shard, data>>

-----------------------------------------------------------------------------
Alive == pc \notin {"down", "done", "failed"}

\* The driver or a worker dies, which ends the run: a failed remote call
\* raises in the driver and nothing catches it.
Crash ==
    /\ Alive
    /\ pc' = "down"
    /\ UNCHANGED <<run, memory, disk>>

\* A run that completed or raised is followed by another.
Exit ==
    /\ pc \in {"done", "failed"}
    /\ run < MaxRuns
    /\ pc' = "down"
    /\ UNCHANGED <<run, memory, disk>>

Save == \E role \in Roles :
            \/ \E r \in Ranks : Prepare(role, r) \/ BeginWrite(role, r) \/ EndWrite(role, r)
            \/ SaveReturns(role)

Program ==
    \/ LoadNothing \/ LoadFolder \/ LoadRaises
    \/ FetchBatch \/ NextEpoch \/ LoopEnds
    \/ UpdateCritic \/ UpdateActor \/ EndStep
    \/ Save
    \/ OpenData \/ WriteData \/ OpenTracker \/ WriteTracker

\* The bound on runs is reached and nobody starts another.
Over ==
    /\ ~Alive
    /\ run = MaxRuns
    /\ UNCHANGED vars

Next == Program \/ Start \/ Crash \/ Exit \/ Over

Spec == Init /\ [][Next]_vars

\* A started program keeps running unless it crashes, and a run that crashed
\* is restarted; nothing obliges it to crash, or to run again once it ended.
FairSpec == Spec /\ WF_vars(Program) /\ WF_vars(Start)

-----------------------------------------------------------------------------
(***************************************************************************)
(* Properties.                                                             *)
(***************************************************************************)
Phases == {"idle", "ready", "writing", "done"}

PCs == {"down", "load", "fetch", "update_critic", "update_actor",
        "save_actor", "save_critic", "open_data", "write_data",
        "open_tracker", "write_tracker", "end_step", "done", "failed"}

\* Types of the driver's, the ranks' and the disk's state.  That global_steps
\* stays in Steps says that a run never takes more than one step past the last.
TypeOK ==
    /\ run \in 0 .. MaxRuns
    /\ mode \in ResumeModes
    /\ pc \in PCs
    /\ global_steps \in Steps
    /\ epoch \in Nat
    /\ yielded \in Nat
    /\ updates \in [Roles -> [Ranks -> Nat]]
    /\ phase \in [Ranks -> Phases]
    /\ previous_saved_path \in [Roles -> Steps \cup {None}]
    /\ folders \subseteq Steps
    /\ shard \in [Steps -> [Roles -> [Ranks -> File]]]
    /\ data \in [Steps -> File]
    /\ tracker \in File

\* How many updates the weights of a role embody after s uninterrupted steps.
UpdatesAfter(role, s) ==
    IF role = "critic" \/ CriticWarmup = 0 THEN s
    ELSE IF s < CriticWarmup THEN 0 ELSE s - CriticWarmup + 1

\* The folder of step s holds every file of one save, that of run w.
Complete(s, w) ==
    /\ s \in folders
    /\ \A role \in UsedRoles, r \in Ranks :
         shard[s][role][r] = [st |-> "saved", by |-> w, val |-> UpdatesAfter(role, s)]
    /\ data[s].st = "saved"
    /\ data[s].by = w

\* The checkpoint that latest_checkpointed_iteration.txt names is whole: every
\* rank's actor and critic files and data.pt are there, written by the save
\* that wrote the tracker, and none is torn or left from another run's save,
\* wherever a run was interrupted.
LatestIsComplete ==
    tracker.st = "saved" => Complete(tracker.val, tracker.by)

\* Resuming with resume_mode=auto raises in one case only: the last run died
\* between truncating the tracker and writing it.
OnlyTornTrackerRaises ==
    pc = "failed" => tracker.st = "torn"

\* The number of steps whose update of the role has been applied in this run
\* or in those it resumed from.
StepsApplied(role) ==
    IF pc = "fetch" \/ pc = "update_critic" \/ (role = "actor" /\ pc = "update_actor")
      THEN global_steps - 1 ELSE global_steps

\* However often training was interrupted and resumed, on every rank the
\* weights embody each step's update exactly once: none is lost, and none of
\* those made after the last save and then lost in a crash is counted twice.
EveryUpdateOnce ==
    Alive /\ pc # "load" =>
      \A role \in UsedRoles, r \in Ranks :
        updates[role][r] = UpdatesAfter(role, StepsApplied(role))

\* The dataloader's position and the step counter are saved and restored
\* together: step g of training always trains on batch g of the data, with no
\* batch skipped or repeated after a resume.
EveryBatchOnce ==
    Alive /\ pc # "load" =>
      LET g == IF pc = "fetch" THEN global_steps - 1 ELSE global_steps
      IN  yielded % BatchesPerEpoch = g % BatchesPerEpoch

\* A crash loses at most save_freq steps of training, but for one moment.  Until
\* the step's own save completes, the tracker names a step at most save_freq
\* behind.  Between truncating the tracker and writing it a crash leaves nothing
\* that resume_mode=auto could resume; the folder of this very step is complete
\* then and can be resumed by its name alone.
BoundedLoss ==
    SaveFreq > 0 /\ Alive /\ pc # "load" =>
      IF pc = "write_tracker"
        THEN tracker.st = "torn" /\ Complete(global_steps, run)
        ELSE global_steps - (IF tracker.st = "saved" THEN tracker.val ELSE 0) <= SaveFreq

\* With resume_mode=auto a run that returns from fit leaves a checkpoint of the
\* last step and the tracker names it, also when it was resumed in the middle of
\* an epoch: the epochs that are left always have enough batches to get there.
FinalCheckpoint ==
    SaveFreq > 0 /\ TotalSteps <= TotalEpochs * BatchesPerEpoch /\ pc = "done" =>
      tracker.st = "saved" /\ tracker.val >= TotalSteps

\* Whatever folders are resumed from, a run that returns from fit leaves one of
\* the last step or a later one that can be loaded.  The tracker need not name
\* it: a run that was given the folder of the last step, saved by a run that
\* died before it wrote the tracker, finds no batch left and saves nothing.
LastStepOnDisk ==
    SaveFreq > 0 /\ TotalSteps <= TotalEpochs * BatchesPerEpoch /\ pc = "done" =>
      \E s \in folders : s >= TotalSteps /\ Loadable(s)

\* Every run ends: no rank waits at a barrier for ever and the loops end.  A
\* crash is followed by a new run until the bound on runs is reached.
EveryRunEnds ==
    [](Alive => <>(pc \in {"done", "failed"} \/ (pc = "down" /\ run = MaxRuns)))

-----------------------------------------------------------------------------
(***************************************************************************)
(* The inductive invariants behind TypeOK, LatestIsComplete,               *)
(* OnlyTornTrackerRaises and EveryUpdateOnce.                              *)
(***************************************************************************)
\* Each run gets at most one step further than the runs before it, and so does
\* what it saves; a run that is loading has saved nothing yet.
StepBound ==
    /\ pc # "down" => run >= 1
    /\ global_steps <= TotalSteps + run - 1
    /\ \A s \in Steps, role \in Roles, r \in Ranks :
         shard[s][role][r].st = "saved" =>
           s <= TotalSteps + run - (IF pc = "load" THEN 2 ELSE 1)

TypeInv == TypeOK /\ StepBound

\* The configurations in which checkpoints are safe: resume_mode=auto, no hdfs,
\* and no previous checkpoint that is deleted.
SafeConfig ==
    /\ \A md \in ResumeModes : md.kind = "auto"
    /\ ~HdfsDir
    /\ Backend = "fsdp" \/ ~RemovePrevious

AfterActor == {"save_critic", "open_data", "write_data", "open_tracker", "write_tracker"}
AfterCritic == AfterActor \ {"save_critic"}

\* Rank r's file of this step's save is on disk.
ShardSaved(role, r) ==
    shard[global_steps][role][r] =
      [st |-> "saved", by |-> run, val |-> UpdatesAfter(role, global_steps)]

\* The ranks are idle outside a save, nothing waits to be removed, and a run
\* that is loading has updated nothing.
ControlInv ==
    /\ Alive /\ pc \notin {"save_actor", "save_critic"} =>
         \A r \in Ranks : phase[r] = "idle"
    /\ RemovePrevious => \A role \in Roles : previous_saved_path[role] = None
    /\ pc = "save_critic" => UseCritic
    /\ pc = "load" => \A role \in Roles, r \in Ranks : updates[role][r] = 0
    /\ Alive /\ pc # "load" => global_steps >= 1

\* How far the save in progress has come.
ProgressInv ==
    /\ \A role \in Roles, r \in Ranks :
         Saving(role) /\ phase[r] = "done" => ShardSaved(role, r)
    /\ \A r \in Ranks :
         (pc = "save_actor" /\ phase[r] # "idle") \/ pc \in AfterActor
           => global_steps \in folders
    /\ pc \in AfterActor => \A r \in Ranks : ShardSaved("actor", r)
    /\ pc \in AfterCritic /\ UseCritic => \A r \in Ranks : ShardSaved("critic", r)
    /\ pc \in {"open_tracker", "write_tracker"} =>
         data[global_steps].st = "saved" /\ data[global_steps].by = run

\* The tracker names an older step until all else is written.
TrackerInv ==
    Alive /\ pc # "load" /\ tracker.st = "saved" =>
      IF pc = "end_step" THEN tracker.val <= global_steps
                         ELSE tracker.val < global_steps

SaveInv == ControlInv /\ ProgressInv /\ TrackerInv

CheckpointInv ==
    /\ TypeInv
    /\ SaveInv
    /\ LatestIsComplete
    /\ EveryUpdateOnce

-----------------------------------------------------------------------------
(***************************************************************************)
(* What the documentation and comments say, and the code does not do.      *)
(***************************************************************************)
\* The tracker is "for atomic usage" (comment in _save_checkpoint): a run that
\* starts finds the tracker absent or with a step in it.
TrackerIsAtomic == pc = "load" => tracker.st # "torn"
=============================================================================
