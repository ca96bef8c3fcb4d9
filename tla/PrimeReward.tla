---------------------------- MODULE PrimeReward ----------------------------
(***************************************************************************)
(* PrimeRewardManager.verify: the rows of a batch are scored by a process  *)
(* pool, each under its own asyncio timeout, and the pool is left when all *)
(* rows have an answer.  A score is abstracted to whether it is the row's  *)
(* own or the 0.0 of a row that failed.                                    *)
(***************************************************************************)
EXTENDS Integers, FiniteSets

CONSTANTS
    BatchRows,     \* the rows of the batch
    NumProcesses,  \* max_workers of the pool
    Evaluations,   \* what evaluation_func may do on a row; "odd" returns what
                   \* is neither a number nor begins with one, "exits" raises
                   \* SystemExit
    MaxDeaths      \* bound on worker processes that die by themselves

ASSUME RewardAssumption ==
    /\ IsFiniteSet(BatchRows)
    /\ NumProcesses \in Nat \ {0}
    /\ Evaluations \subseteq {"returns", "odd", "raises", "exits", "hangs"}
    /\ MaxDeaths \in Nat

VARIABLES
    does,     \* does[i]: what evaluation_func does on row i
    job,      \* job[i]: row i's work item in the pool
    answer,   \* answer[i]: what single_compute_score returned
    expired,  \* rows whose timeout fired
    rewardPc, \* where parallel_compute_score_async is
    deaths    \* worker processes that died

rewardVars == <<does, job, answer, expired, rewardPc, deaths>>

InJob(st) == {i \in BatchRows : job[i] = st}

RewardInit ==
    /\ does \in [BatchRows -> Evaluations]
    /\ job = [i \in BatchRows |-> "pending"]
    /\ answer = [i \in BatchRows |-> "waiting"]
    /\ expired = {}
    /\ rewardPc = "gather"
    /\ deaths = 0

-----------------------------------------------------------------------------
(***************************************************************************)
(* The process pool.  Its call queue has one slot more than processes.     *)
(***************************************************************************)
Claim(i) ==
    /\ job[i] = "pending"
    /\ Cardinality(InJob("claimed")) <= NumProcesses
    /\ job' = [job EXCEPT ![i] = "claimed"]
    /\ UNCHANGED <<does, answer, expired, rewardPc, deaths>>

Run(i) ==
    /\ job[i] = "claimed"
    /\ Cardinality(InJob("running")) < NumProcesses
    /\ job' = [job EXCEPT ![i] = "running"]
    /\ UNCHANGED <<does, answer, expired, rewardPc, deaths>>

\* The process hands over what the evaluation returned or raised.
Complete(i) ==
    /\ job[i] = "running"
    /\ does[i] # "hangs"
    /\ job' = [job EXCEPT ![i] = CASE does[i] = "raises" -> "raised"
                                   [] does[i] = "exits" -> "exited"
                                   [] OTHER -> "returned"]
    /\ UNCHANGED <<does, answer, expired, rewardPc, deaths>>

\* The pool is broken, ends its processes and gives BrokenProcessPool to every
\* item that is not over.
Unfinished == {"pending", "claimed", "running"}
Broken == [i \in BatchRows |-> IF job[i] \in Unfinished THEN "raised" ELSE job[i]]

\* A worker process dies.
ProcessDies ==
    /\ InJob("running") # {}
    /\ deaths < MaxDeaths
    /\ deaths' = deaths + 1
    /\ job' = Broken
    /\ UNCHANGED <<does, answer, expired, rewardPc>>

-----------------------------------------------------------------------------
\* Mutant of Deliver: an answer that comes after the timeout is taken.
DeliverLate(i) ==
    /\ job[i] \in {"returned", "raised"}
    /\ answer' = [answer EXCEPT ![i] = IF job[i] = "returned" THEN "own" ELSE "none"]
    /\ UNCHANGED <<does, job, expired, rewardPc, deaths>>

\* wait_for sees the item's result before its timeout.  single_compute_score
\* catches what the item raised and returns None.
Deliver(i) ==
    /\ rewardPc = "gather"
    /\ answer[i] = "waiting"
    /\ job[i] \in {"returned", "raised"}
    /\ answer' = [answer EXCEPT ![i] = IF job[i] = "returned" THEN "own" ELSE "none"]
    /\ UNCHANGED <<does, job, expired, rewardPc, deaths>>

\* The timeout counts from when the rows were submitted, not from when the
\* item began to run.  It cancels an item that is still pending, no other.
TimeOut(i) ==
    /\ rewardPc = "gather"
    /\ answer[i] = "waiting"
    /\ answer' = [answer EXCEPT ![i] = "none"]
    /\ expired' = expired \cup {i}
    /\ job' = [job EXCEPT ![i] = IF @ = "pending" THEN "cancelled" ELSE @]
    /\ UNCHANGED <<does, rewardPc, deaths>>

\* SystemExit is no Exception: neither single_compute_score nor verify catches
\* it.  It ends the event loop; the handler around the gather kills the
\* processes, and the call of verify raises.
ExitPropagates(i) ==
    /\ rewardPc = "gather"
    /\ answer[i] = "waiting"
    /\ job[i] = "exited"
    /\ job' = Broken
    /\ rewardPc' = "raised"
    /\ UNCHANGED <<does, answer, expired, deaths>>

\* gather has every answer.
Gathered ==
    /\ rewardPc = "gather"
    /\ \A i \in BatchRows : answer[i] # "waiting"
    /\ rewardPc' = "leave"
    /\ UNCHANGED <<does, job, answer, expired, deaths>>

\* Leaving the with block waits for the items that were not cancelled.
LeavePool ==
    /\ rewardPc = "leave"
    /\ \A i \in BatchRows : job[i] \notin Unfinished
    /\ rewardPc' = "scored"
    /\ UNCHANGED <<does, job, answer, expired, deaths>>

\* An odd result makes the loop over the results raise, and verify gives 0.0
\* to the whole batch.
ScoringRaises == \E i \in BatchRows : answer[i] = "own" /\ does[i] = "odd"

\* The scores that verify returns.
Score(i) == IF answer[i] = "own" /\ ~ScoringRaises THEN "own" ELSE "zero"

Returned == rewardPc \in {"scored", "raised"}

RewardOver == Returned /\ UNCHANGED rewardVars

RewardNext ==
    \/ \E i \in BatchRows :
          Claim(i) \/ Run(i) \/ Complete(i) \/ Deliver(i) \/ TimeOut(i) \/ ExitPropagates(i)
    \/ ProcessDies \/ Gathered \/ LeavePool \/ RewardOver

\* Processes and the event loop make progress, and a timer goes off.
RewardFairness ==
    /\ \A i \in BatchRows :
         /\ WF_rewardVars(Claim(i)) /\ WF_rewardVars(Run(i)) /\ WF_rewardVars(Complete(i))
         /\ WF_rewardVars(Deliver(i) \/ TimeOut(i) \/ ExitPropagates(i))
    /\ WF_rewardVars(Gathered) /\ WF_rewardVars(LeavePool)

RewardSpec == RewardInit /\ [][RewardNext]_rewardVars /\ RewardFairness

-----------------------------------------------------------------------------

\* Types of the pool's and the event loop's state.
RewardTypeOK ==
    /\ does \in [BatchRows -> Evaluations]
    /\ job \in [BatchRows -> Unfinished \cup {"returned", "raised", "exited", "cancelled"}]
    /\ answer \in [BatchRows -> {"waiting", "own", "none"}]
    /\ expired \subseteq BatchRows
    /\ rewardPc \in {"gather", "leave", "scored", "raised"}
    /\ deaths \in 0 .. MaxDeaths

\* Every zero has one of the causes that the code lets it have.  Once all
\* answers are there, also while another row hangs, a row keeps its own result
\* exactly if that came before the row's timeout, and a result that came later
\* is never used.  A row without one raised, its timeout fired (perhaps while
\* it waited behind slower rows: the time counts from the submission), or a
\* process died, which takes down all rows that are not over.  In the end a
\* result that is not a score turns all scores into zeros, and nothing else.
ZerosAreExplained ==
    LET InTime(i) == job[i] = "returned" /\ i \notin expired
    IN  \A i \in BatchRows :
          /\ rewardPc \in {"leave", "scored"} =>
               /\ answer[i] = "own" <=> InTime(i)
               /\ ~InTime(i) => i \in expired \/ does[i] = "raises" \/ deaths > 0
          /\ rewardPc = "scored" =>
               (Score(i) = "own" <=> /\ InTime(i)
                                     /\ \A j \in BatchRows : InTime(j) => does[j] = "returns")

\* verify returns or raises if every evaluation ends, also when rows time out,
\* evaluations raise or exit, or a process dies.
VerifyReturns == (\A i \in BatchRows : does[i] # "hangs") => <>Returned

\* verify returns whatever the programs do: the comment on the gather says "to
\* prevent very occasional starvation caused by some anomalous programs ( like
\* infinite loop ), the exceptions in async programs will instantly halt the
\* evaluation, and all summoned processes will be killed".
LoopsAreHalted == <>Returned
=============================================================================
