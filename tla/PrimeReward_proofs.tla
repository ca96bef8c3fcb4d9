------------------------- MODULE PrimeReward_proofs -------------------------
(* Proofs about PrimeReward: what a zero means, for any batch, any number  *)
(* of processes and any number of processes that die.                      *)
EXTENDS PrimeReward, TLAPS

\* A row's answer is explained by its own item and its own timer.  The item
\* of a row whose timeout fired may still return, which changes nothing; an
\* item that is over stays what it is; one that returned was not to raise, and
\* one that raised was to, or the pool was broken.
Explained(i) ==
    /\ answer[i] = "waiting" => i \notin expired
    /\ answer[i] = "own" => job[i] = "returned" /\ i \notin expired
    /\ answer[i] = "none" => i \in expired \/ job[i] = "raised"
    /\ job[i] = "returned" => does[i] \in {"returns", "odd"}
    /\ job[i] = "raised" => does[i] = "raises" \/ deaths > 0 \/ rewardPc = "raised"

\* The inductive invariant.
RewardInv ==
    /\ RewardTypeOK
    /\ \A i \in BatchRows : Explained(i)
    /\ rewardPc \in {"leave", "scored"} => \A i \in BatchRows : answer[i] # "waiting"

LEMMA RewardInvInit == RewardInit => RewardInv
  BY RewardAssumption DEF RewardInit, RewardInv, RewardTypeOK, Explained, Unfinished

LEMMA RewardInvNext == RewardInv /\ [RewardNext]_rewardVars => RewardInv'
<1> SUFFICES ASSUME RewardInv, [RewardNext]_rewardVars
             PROVE  RewardInv'
  OBVIOUS
<1> USE RewardAssumption DEF RewardInv, RewardTypeOK, Explained, Unfinished
<1>1. CASE \E i \in BatchRows : Claim(i) \/ Run(i)
  BY <1>1 DEF Claim, Run
<1>2. CASE \E i \in BatchRows : Complete(i)
  BY <1>2 DEF Complete
<1>3. CASE \E i \in BatchRows : Deliver(i)
  BY <1>3 DEF Deliver
<1>4. CASE \E i \in BatchRows : TimeOut(i)
  BY <1>4 DEF TimeOut
<1>5. CASE ProcessDies
  BY <1>5 DEF ProcessDies, Broken
<1>6. CASE Gathered
  BY <1>6 DEF Gathered
<1>7. CASE LeavePool
  BY <1>7 DEF LeavePool
<1>8. CASE \E i \in BatchRows : ExitPropagates(i)
  BY <1>8 DEF ExitPropagates, Broken
<1>9. CASE UNCHANGED rewardVars
  BY <1>9 DEF rewardVars
<1> QED
  BY <1>1, <1>2, <1>3, <1>4, <1>5, <1>6, <1>7, <1>8, <1>9 DEF RewardNext, RewardOver

\* Once every answer is there, the rows that score are those whose item
\* returned before their timeout.
LEMMA RewardInvExplains == RewardInv => ZerosAreExplained
<1> SUFFICES ASSUME RewardInv, NEW i \in BatchRows, rewardPc \in {"leave", "scored"}
             PROVE  LET InTime(j) == job[j] = "returned" /\ j \notin expired
                    IN  /\ answer[i] = "own" <=> InTime(i)
                        /\ ~InTime(i) => i \in expired \/ does[i] = "raises" \/ deaths > 0
                        /\ Score(i) = "own" <=> /\ InTime(i)
                                                /\ \A j \in BatchRows : InTime(j) => does[j] = "returns"
  BY DEF ZerosAreExplained
<1> DEFINE InTime(j) == job[j] = "returned" /\ j \notin expired
<1>1. \A j \in BatchRows : answer[j] = "own" <=> InTime(j)
  BY DEF RewardInv, RewardTypeOK, Explained
<1>2. ~InTime(i) => i \in expired \/ does[i] = "raises" \/ deaths > 0
  BY <1>1 DEF RewardInv, RewardTypeOK, Explained
<1>3. \A j \in BatchRows : InTime(j) => (does[j] = "odd" <=> ~(does[j] = "returns"))
  BY DEF RewardInv, Explained
<1>4. ScoringRaises <=> ~\A j \in BatchRows : InTime(j) => does[j] = "returns"
  BY <1>1, <1>3 DEF ScoringRaises
<1>5. Score(i) = "own" <=> answer[i] = "own" /\ ~ScoringRaises
  BY DEF Score
<1> QED
  BY <1>1, <1>2, <1>4, <1>5

\* Whatever rows there are and however items, answers, timeouts, exits and
\* dying processes interleave, a row that verify gives zero has one of the
\* causes that the code allows, and no row's late result is used.
THEOREM RewardZerosExplained == RewardSpec => []ZerosAreExplained
<1>1. RewardInit => RewardInv
  BY RewardInvInit
<1>2. RewardInv /\ [RewardNext]_rewardVars => RewardInv'
  BY RewardInvNext
<1>3. RewardInv => ZerosAreExplained
  BY RewardInvExplains
<1> QED
  BY <1>1, <1>2, <1>3, PTL DEF RewardSpec
=============================================================================
