---------------------------- MODULE MCVerlBatch ----------------------------
(***************************************************************************)
(* What happens to a batch around the model: the lengths of its rows are   *)
(* balanced, its responses are generated, they are scored and their scores *)
(* collected.  The four share no state, so a behaviour is one of them      *)
(* while the others are at rest, each in a state in which it ends.         *)
(***************************************************************************)
EXTENDS SeqlenBalancing, Coder1Score, PrimeReward, HybridEngine

BalancingAtRest ==
    /\ seqlen_list = <<1>> /\ k_partitions = 2 /\ equal_size = TRUE
    /\ states_pq = {} /\ partitions = <<>> /\ pc = "raised"

ScoreAtRest ==
    /\ executor = "firejail" /\ well_formed = FALSE /\ truth = "io" /\ behaves = <<>>
    /\ garbled = FALSE /\ unpiped = {}
    /\ scorePc = "done" /\ score = "bad_format"
    /\ test = <<>> /\ retries = <<>> /\ serving = "up" /\ outages = 0

RewardAtRest ==
    /\ does = [i \in BatchRows |-> "returns"]
    /\ job = [i \in BatchRows |-> "returned"] /\ answer = [i \in BatchRows |-> "own"]
    /\ expired = {} /\ rewardPc = "scored" /\ deaths = 0

EngineAtRest ==
    /\ offload = {} /\ call = "none" /\ enginePc = Everywhere("idle")
    /\ updates = MaxCalls /\ weights = Everywhere(MaxCalls)
    /\ placed = Everywhere([params |-> "gpu", optimizer |-> "gpu"]) /\ engine = Everywhere("asleep")
    /\ stream = [w \in Workers |-> [Training(w) EXCEPT !.at = MaxCalls]]
    /\ torch_random_states = [w \in Workers |-> Training(w)]
    /\ gen_random_states = [w \in Workers |-> Generating(w)]
    /\ sampling_params = Everywhere(Configured) /\ old_sampling_params = Everywhere(Configured)
    /\ rows = Everywhere(<<>>) /\ responses = Everywhere(<<>>) /\ received = <<>>

BatchInit ==
    \/ Init /\ ScoreAtRest /\ RewardAtRest /\ EngineAtRest
    \/ BalancingAtRest /\ ScoreInit /\ RewardAtRest /\ EngineAtRest
    \/ BalancingAtRest /\ ScoreAtRest /\ RewardInit /\ EngineAtRest
    \/ BalancingAtRest /\ ScoreAtRest /\ RewardAtRest /\ EngineInit

BatchNext ==
    \/ Next /\ UNCHANGED <<scoreVars, rewardVars, engineVars>>
    \/ ScoreNext /\ UNCHANGED <<vars, rewardVars, engineVars>>
    \/ RewardNext /\ UNCHANGED <<vars, scoreVars, engineVars>>
    \/ EngineNext /\ UNCHANGED <<vars, scoreVars, rewardVars>>

BatchSpec ==
    /\ BatchInit /\ [][BatchNext]_<<vars, scoreVars, rewardVars, engineVars>>
    /\ ScoreFairness /\ RewardFairness /\ EngineFairness

\* The work on a batch ends: every call on the ranks of the hybrid engine
\* returns, scoring ends unless the server is stuck for good, and verify returns
\* or raises although rows time out, raise, exit or lose their process.
BatchWorkEnds == CallsReturn /\ ScoringEnds /\ VerifyReturns
=============================================================================
