-------------------------- MODULE MCRayPPOTrainer --------------------------
(* Instances of RayPPOTrainer for TLC. *)
EXTENDS RayPPOTrainer

AutoMode == [kind |-> "auto", names |-> None, from |-> None]
DisableMode == [kind |-> "disable", names |-> None, from |-> None]

\* resume_mode=resume_path resume_from_path=.../global_step_1, as documented.
ResumePathMode == [kind |-> "path", names |-> None, from |-> 1]

\* resume_mode=.../global_step_s, which is what the code supports.
FolderMode(s) == [kind |-> "path", names |-> s, from |-> None]

AutoOnly == {AutoMode}

\* The folder of any step up to the last may be named.
AnyMode == {AutoMode, DisableMode, ResumePathMode} \cup {FolderMode(s) : s \in 1 .. TotalSteps}
=============================================================================
