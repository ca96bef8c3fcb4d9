------------------------ MODULE HybridEngine_proofs -------------------------
(* Proofs about HybridEngine: the ranks of a group agree, and training and  *)
(* generation leave each other alone, for any number of groups, of ranks in *)
(* a group, of rows and of calls.                                           *)
EXTENDS HybridEngine, FiniteSetTheorems, TLAPS

Rollout == {"synced", "entered", "sharing", "sampling", "generated", "sampled"}
Stages == {"idle", "called", "loaded", "ran", "returned"} \cup Rollout

\* After EnterRollout and before LeaveRollout the device's generator is that
\* of the group.
Swapped == Rollout \ {"synced"}

\* Where a rank has generated, or cannot any more in this call.
Late == {"generated", "sampled", "ran", "returned"}

\* Updates that a rank has taken part in.
Trained(w) ==
    IF call = "update" /\ enginePc[w] \in {"called", "loaded"} THEN updates - 1 ELSE updates

\* The state of the group's generator that a rank has, in use or saved.
Position(w) == IF enginePc[w] \in Swapped THEN stream[w] ELSE gen_random_states[w]

IsArray(f) == f = [w \in Workers |-> f[w]]

EngineTypeOK ==
    /\ offload \in SUBSET ActorState
    /\ call \in Calls \cup {"none"}
    /\ enginePc \in [Workers -> Stages]
    /\ updates \in Nat
    /\ placed \in [Workers -> [ActorState -> {"none", "gpu", "cpu"}]]
    /\ IsArray(weights) /\ IsArray(engine) /\ IsArray(stream)
    /\ IsArray(torch_random_states) /\ IsArray(gen_random_states)
    /\ IsArray(sampling_params) /\ IsArray(old_sampling_params)
    /\ IsArray(rows) /\ IsArray(responses)

\* Which stages a call goes through.
StageInv(w) ==
    /\ enginePc[w] = "idle" <=> call = "none"
    /\ enginePc[w] \in Rollout => call \in Generations
    /\ enginePc[w] = "ran" => call \in {"log_prob", "update"}

\* Every shard has had every update, and vLLM generates with all of them.
WeightsInv(w) ==
    /\ weights[w] = Trained(w)
    /\ engine[w] = IF enginePc[w] \in Rollout THEN updates ELSE "asleep"

\* The training stream is on the device or saved, and moves with updates.
StreamInv(w) ==
    LET training == [seed |-> RankOf(w), at |-> Trained(w)]
    IN IF enginePc[w] \in Swapped THEN torch_random_states[w] = training ELSE stream[w] = training

ParamsInv(w) ==
    IF enginePc[w] \in {"sampling", "generated"}
    THEN sampling_params[w] = Override(Configured, call) /\ old_sampling_params[w] = Configured
    ELSE sampling_params[w] = Configured

ResponsesInv(w) == enginePc[w] \notin {"generated", "sampled", "returned"} => responses[w] = <<>>

PlaceInv(w) ==
    /\ \A part \in ActorState : placed[w][part] = "cpu" => part \in offload
    /\ enginePc[w] \in Swapped => \A part \in offload : placed[w][part] # "gpu"
    /\ enginePc[w] = "loaded" => \A part \in PartsUsed : placed[w][part] # "cpu"

RankInv(w) ==
    StageInv(w) /\ WeightsInv(w) /\ StreamInv(w) /\ ParamsInv(w) /\ ResponsesInv(w) /\ PlaceInv(w)

\* What two ranks of a group have in common.
PairInv(w, v) ==
    /\ enginePc[w] \in Late <=> enginePc[v] \in Late
    /\ Position(w) = Position(v)
    /\ {enginePc[w], enginePc[v]} \subseteq {"sharing", "sampling", "generated"} => rows[w] = rows[v]
    /\ {enginePc[w], enginePc[v]} \subseteq {"generated", "sampled"} => responses[w] = responses[v]

\* The inductive invariant.
EngineInv ==
    /\ EngineTypeOK
    /\ \A w \in Workers : RankInv(w)
    /\ \A w \in Workers : \A v \in GroupOf(w) : PairInv(w, v)

-----------------------------------------------------------------------------
LEMMA EngineInvInit == EngineInit => EngineInv
<1> SUFFICES ASSUME EngineInit PROVE EngineInv
  OBVIOUS
<1> USE DEF EngineInit, Everywhere
<1>1. EngineTypeOK
  BY DEF EngineTypeOK, IsArray, ActorState, Calls, Generations, Stages, Rollout
<1>2. \A w \in Workers : RankInv(w)
  BY DEF RankInv, StageInv, WeightsInv, StreamInv, ParamsInv, ResponsesInv, PlaceInv, Trained,
         Training, Rollout, Swapped, ActorState, Generations
<1>3. \A w \in Workers : \A v \in GroupOf(w) : PairInv(w, v)
  BY DEF PairInv, Position, GroupOf, Generating, Late, Swapped, Rollout
<1> QED
  BY <1>1, <1>2, <1>3 DEF EngineInv

\* A rank that a step leaves alone.
Untouched(v) ==
    /\ enginePc'[v] = enginePc[v] /\ weights'[v] = weights[v] /\ placed'[v] = placed[v]
    /\ engine'[v] = engine[v] /\ stream'[v] = stream[v]
    /\ torch_random_states'[v] = torch_random_states[v]
    /\ gen_random_states'[v] = gen_random_states[v]
    /\ sampling_params'[v] = sampling_params[v] /\ old_sampling_params'[v] = old_sampling_params[v]
    /\ rows'[v] = rows[v] /\ responses'[v] = responses[v]

LEMMA UntouchedRank ==
    ASSUME NEW v \in Workers, RankInv(v), Untouched(v), UNCHANGED <<offload, call, updates>>
    PROVE  RankInv(v)'
  BY DEF RankInv, StageInv, WeightsInv, StreamInv, ParamsInv, ResponsesInv, PlaceInv, Trained,
         PartsUsed, RankOf, Override, Untouched

LEMMA UntouchedPair ==
    ASSUME NEW w \in Workers, NEW v \in Workers, PairInv(w, v), Untouched(w), Untouched(v)
    PROVE  PairInv(w, v)'
  BY DEF PairInv, Position, Untouched

LEMMA PairSymmetry ==
    ASSUME NEW w \in Workers, NEW v \in GroupOf(w)
    PROVE  /\ v \in Workers /\ w \in GroupOf(v)
           /\ PairInv(w, v) <=> PairInv(v, w)
           /\ PairInv(w, v)' <=> PairInv(v, w)'
           /\ PairInv(w, w) /\ PairInv(w, w)'
  BY DEF GroupOf, PairInv

LEMMA ExceptIsArray ==
    ASSUME NEW f, NEW w, NEW e, IsArray(f)
    PROVE  IsArray([f EXCEPT ![w] = e])
  BY DEF IsArray

\* A step of one rank: what is left to show is about that rank.
LEMMA OneRankMoves ==
    ASSUME EngineInv, EngineTypeOK', NEW w \in Workers, UNCHANGED <<offload, call, updates>>,
           \A v \in Workers \ {w} : Untouched(v), RankInv(w)',
           \A v \in GroupOf(w) \ {w} : PairInv(w, v)'
    PROVE  EngineInv'
<1>1. \A v \in Workers : RankInv(v)'
  <2>1. \A v \in Workers : RankInv(v)
    BY DEF EngineInv
  <2> QED
    BY <2>1, UntouchedRank
<1>2. ASSUME NEW u \in Workers, NEW v \in GroupOf(u) PROVE PairInv(u, v)'
  <2>1. v \in Workers /\ u \in GroupOf(v) /\ PairInv(u, v) /\ PairInv(u, u)'
    BY <1>2, PairSymmetry DEF EngineInv
  <2>2. CASE u = v
    BY <2>1, <2>2
  <2>3. CASE u = w /\ v # w
    BY <2>3
  <2>4. CASE v = w /\ u # w
    BY <2>1, <2>4, PairSymmetry
  <2>5. CASE u # w /\ v # w
    BY <2>1, <2>5, UntouchedPair
  <2> QED
    BY <2>2, <2>3, <2>4, <2>5
<1>3. \A u \in Workers : GroupOf(u)' = GroupOf(u)
  BY DEF GroupOf
<1> QED
  BY <1>1, <1>2, <1>3 DEF EngineInv

\* Where a part is after Place.
LEMMA PlacePlaces ==
    ASSUME NEW w \in Workers, NEW parts, NEW where \in {"gpu", "cpu"}, EngineTypeOK, Place(w, parts, where)
    PROVE  /\ placed' \in [Workers -> [ActorState -> {"none", "gpu", "cpu"}]]
           /\ \A v \in Workers \ {w} : placed'[v] = placed[v]
           /\ \A part \in ActorState : placed'[w][part] =
                IF part \in parts \cap offload /\ placed[w][part] # "none" THEN where ELSE placed[w][part]
  BY DEF EngineTypeOK, Place

LEMMA LoadKeepsInv ==
    ASSUME EngineInv, NEW w \in Workers, LoadToDevice(w)
    PROVE  EngineInv'
<1>1. /\ enginePc[w] = "called" /\ enginePc' = [enginePc EXCEPT ![w] = "loaded"]
      /\ Place(w, PartsUsed, "gpu")
      /\ UNCHANGED <<offload, call, updates, weights, engine, stream, torch_random_states,
                     gen_random_states, sampling_params, old_sampling_params, rows, responses>>
  BY DEF LoadToDevice, Moved
<1>2. EngineTypeOK /\ RankInv(w) /\ \A v \in GroupOf(w) : v \in Workers /\ PairInv(w, v)
  BY PairSymmetry DEF EngineInv
<1>3. /\ enginePc'[w] = "loaded" /\ \A v \in Workers \ {w} : enginePc'[v] = enginePc[v]
  BY <1>1, <1>2 DEF EngineTypeOK
<1>4. /\ placed' \in [Workers -> [ActorState -> {"none", "gpu", "cpu"}]]
      /\ \A v \in Workers \ {w} : placed'[v] = placed[v]
      /\ \A part \in ActorState : placed'[w][part] =
           IF part \in PartsUsed \cap offload /\ placed[w][part] # "none" THEN "gpu" ELSE placed[w][part]
  BY <1>1, <1>2, PlacePlaces
<1>5. EngineTypeOK'
  BY <1>1, <1>2, <1>4 DEF EngineTypeOK, IsArray, Stages
<1>6. \A v \in Workers \ {w} : Untouched(v)
  BY <1>1, <1>3, <1>4 DEF Untouched
<1>7. RankInv(w)'
  <2>1. StageInv(w)' /\ WeightsInv(w)' /\ StreamInv(w)' /\ ParamsInv(w)' /\ ResponsesInv(w)'
    BY <1>1, <1>2, <1>3 DEF RankInv, StageInv, WeightsInv, StreamInv, ParamsInv, ResponsesInv,
                            Trained, RankOf, Override, Rollout, Swapped
  <2>2. PlaceInv(w)'
    BY <1>1, <1>2, <1>3, <1>4 DEF RankInv, PlaceInv, PartsUsed, ActorState, Swapped, Rollout, EngineTypeOK
  <2> QED
    BY <2>1, <2>2 DEF RankInv
<1>8. \A v \in GroupOf(w) \ {w} : PairInv(w, v)'
  BY <1>1, <1>2, <1>3, <1>6 DEF PairInv, Position, Late, Swapped, Rollout, Untouched
<1> QED
  BY <1>1, <1>5, <1>6, <1>7, <1>8, OneRankMoves

LEMMA LeaveModelKeepsInv ==
    ASSUME EngineInv, NEW w \in Workers, LeaveModel(w)
    PROVE  EngineInv'
<1>1. /\ enginePc[w] = "ran" /\ enginePc' = [enginePc EXCEPT ![w] = "returned"]
      /\ Place(w, PartsUsed, "cpu")
      /\ UNCHANGED <<offload, call, updates, weights, engine, stream, torch_random_states,
                     gen_random_states, sampling_params, old_sampling_params, rows, responses>>
  BY DEF LeaveModel, Moved
<1>2. EngineTypeOK /\ RankInv(w) /\ \A v \in GroupOf(w) : v \in Workers /\ PairInv(w, v)
  BY PairSymmetry DEF EngineInv
<1>3. /\ enginePc'[w] = "returned" /\ \A v \in Workers \ {w} : enginePc'[v] = enginePc[v]
  BY <1>1, <1>2 DEF EngineTypeOK, IsArray
<1>4. /\ placed' \in [Workers -> [ActorState -> {"none", "gpu", "cpu"}]]
      /\ \A v \in Workers \ {w} : placed'[v] = placed[v]
      /\ \A part \in ActorState : placed'[w][part] =
           IF part \in PartsUsed \cap offload /\ placed[w][part] # "none" THEN "cpu" ELSE placed[w][part]
  BY <1>1, <1>2, PlacePlaces
<1>5. EngineTypeOK'
  BY <1>1, <1>2, <1>4 DEF EngineTypeOK, IsArray, Stages, Rollout
<1>6. \A v \in Workers \ {w} : Untouched(v)
  BY <1>1, <1>3, <1>4 DEF Untouched
<1>7. RankInv(w)'
  <2>1. StageInv(w)' /\ WeightsInv(w)' /\ ResponsesInv(w)'
    BY <1>1, <1>2, <1>3 DEF RankInv, StageInv, WeightsInv, ResponsesInv, Trained, Rollout
  <2>2. StreamInv(w)'
    BY <1>1, <1>2, <1>3 DEF RankInv, StreamInv, Trained, RankOf, Rollout, Swapped
  <2>3. ParamsInv(w)'
    BY <1>1, <1>2, <1>3 DEF RankInv, ParamsInv, Override
  <2>4. PlaceInv(w)'
    BY <1>1, <1>2, <1>3, <1>4 DEF RankInv, PlaceInv, PartsUsed, ActorState, Swapped, Rollout, EngineTypeOK
  <2> QED
    BY <2>1, <2>2, <2>3, <2>4 DEF RankInv
<1>8. \A v \in GroupOf(w) \ {w} : PairInv(w, v)'
  BY <1>1, <1>2, <1>3, <1>6 DEF PairInv, Position, Late, Swapped, Rollout, Untouched
<1> QED
  BY <1>1, <1>5, <1>6, <1>7, <1>8, OneRankMoves

LEMMA EnterKeepsInv ==
    ASSUME EngineInv, NEW w \in Workers, EnterRollout(w)
    PROVE  EngineInv'
<1>1. /\ enginePc[w] = "synced" /\ enginePc' = [enginePc EXCEPT ![w] = "entered"]
      /\ torch_random_states' = [torch_random_states EXCEPT ![w] = stream[w]]
      /\ stream' = [stream EXCEPT ![w] = gen_random_states[w]]
      /\ Place(w, ActorState, "cpu")
      /\ UNCHANGED <<offload, call, updates, weights, engine, gen_random_states,
                     sampling_params, old_sampling_params, rows, responses>>
  BY DEF EnterRollout, Moved
<1>2. EngineTypeOK /\ RankInv(w) /\ \A v \in GroupOf(w) : v \in Workers /\ PairInv(w, v)
  BY PairSymmetry DEF EngineInv
<1>3. /\ enginePc'[w] = "entered" /\ \A v \in Workers \ {w} : enginePc'[v] = enginePc[v]
      /\ torch_random_states'[w] = stream[w] /\ \A v \in Workers \ {w} : torch_random_states'[v] = torch_random_states[v]
      /\ stream'[w] = gen_random_states[w] /\ \A v \in Workers \ {w} : stream'[v] = stream[v]
  BY <1>1, <1>2 DEF EngineTypeOK, IsArray
<1>4. /\ placed' \in [Workers -> [ActorState -> {"none", "gpu", "cpu"}]]
      /\ \A v \in Workers \ {w} : placed'[v] = placed[v]
      /\ \A part \in ActorState : placed'[w][part] =
           IF part \in ActorState \cap offload /\ placed[w][part] # "none" THEN "cpu" ELSE placed[w][part]
  BY <1>1, <1>2, PlacePlaces
<1>5. EngineTypeOK'
  BY <1>1, <1>2, <1>4, ExceptIsArray DEF EngineTypeOK, Stages, Rollout
<1>6. \A v \in Workers \ {w} : Untouched(v)
  BY <1>1, <1>3, <1>4 DEF Untouched
<1>7. RankInv(w)'
  <2>1. StageInv(w)' /\ WeightsInv(w)' /\ ResponsesInv(w)'
    BY SMTT(30), <1>1, <1>2, <1>3 DEF RankInv, StageInv, WeightsInv, ResponsesInv, Trained, Rollout
  <2>2. StreamInv(w)'
    BY <1>1, <1>2, <1>3 DEF RankInv, StreamInv, Trained, RankOf, Rollout, Swapped
  <2>3. ParamsInv(w)'
    BY <1>1, <1>2, <1>3 DEF RankInv, ParamsInv, Override
  <2>4. PlaceInv(w)'
    BY SMTT(30), <1>1, <1>2, <1>3, <1>4 DEF RankInv, PlaceInv, PartsUsed, ActorState, Swapped, Rollout, EngineTypeOK
  <2> QED
    BY <2>1, <2>2, <2>3, <2>4 DEF RankInv
<1>8. \A v \in GroupOf(w) \ {w} : PairInv(w, v)'
  BY <1>1, <1>2, <1>3, <1>6 DEF PairInv, Position, Late, Swapped, Rollout, Untouched
<1> QED
  BY <1>1, <1>5, <1>6, <1>7, <1>8, OneRankMoves

LEMMA BeginKeepsInv ==
    ASSUME EngineInv, NEW w \in Workers, BeginSampling(w)
    PROVE  EngineInv'
<1>1. /\ enginePc[w] = "sharing" /\ enginePc' = [enginePc EXCEPT ![w] = "sampling"]
      /\ old_sampling_params' = [old_sampling_params EXCEPT ![w] = sampling_params[w]]
      /\ sampling_params' = [sampling_params EXCEPT ![w] = Override(sampling_params[w], call)]
      /\ UNCHANGED <<offload, call, updates, weights, placed, engine, stream, torch_random_states,
                     gen_random_states, rows, responses>>
  BY DEF BeginSampling, Moved
<1>2. EngineTypeOK /\ RankInv(w) /\ \A v \in GroupOf(w) : v \in Workers /\ PairInv(w, v)
  BY PairSymmetry DEF EngineInv
<1>3. /\ enginePc'[w] = "sampling" /\ \A v \in Workers \ {w} : enginePc'[v] = enginePc[v]
      /\ old_sampling_params'[w] = sampling_params[w] /\ \A v \in Workers \ {w} : old_sampling_params'[v] = old_sampling_params[v]
      /\ sampling_params'[w] = Override(sampling_params[w], call) /\ \A v \in Workers \ {w} : sampling_params'[v] = sampling_params[v]
  BY <1>1, <1>2 DEF EngineTypeOK, IsArray
<1>5. EngineTypeOK'
  BY <1>1, <1>2, ExceptIsArray DEF EngineTypeOK, Stages, Rollout
<1>6. \A v \in Workers \ {w} : Untouched(v)
  BY <1>1, <1>3 DEF Untouched
<1>7. RankInv(w)'
  <2>1. StageInv(w)' /\ WeightsInv(w)' /\ ResponsesInv(w)'
    BY SMTT(30), <1>1, <1>2, <1>3 DEF RankInv, StageInv, WeightsInv, ResponsesInv, Trained, Rollout
  <2>2. StreamInv(w)'
    BY <1>1, <1>2, <1>3 DEF RankInv, StreamInv, Trained, RankOf, Rollout, Swapped
  <2>3. ParamsInv(w)'
    BY <1>1, <1>2, <1>3 DEF RankInv, ParamsInv, Override
  <2>4. PlaceInv(w)'
    BY <1>1, <1>2, <1>3 DEF RankInv, PlaceInv, PartsUsed, ActorState, Swapped, Rollout, EngineTypeOK
  <2> QED
    BY <2>1, <2>2, <2>3, <2>4 DEF RankInv
<1>8. \A v \in GroupOf(w) \ {w} : PairInv(w, v)'
  BY <1>1, <1>2, <1>3, <1>6 DEF PairInv, Position, Late, Swapped, Rollout, Untouched
<1> QED
  BY <1>1, <1>5, <1>6, <1>7, <1>8, OneRankMoves

LEMMA EndKeepsInv ==
    ASSUME EngineInv, NEW w \in Workers, EndSampling(w)
    PROVE  EngineInv'
<1>1. /\ enginePc[w] = "generated" /\ enginePc' = [enginePc EXCEPT ![w] = "sampled"]
      /\ sampling_params' = [sampling_params EXCEPT ![w] = old_sampling_params[w]]
      /\ UNCHANGED <<offload, call, updates, weights, placed, engine, stream, torch_random_states,
                     gen_random_states, old_sampling_params, rows, responses>>
  BY DEF EndSampling, Moved
<1>2. EngineTypeOK /\ RankInv(w) /\ \A v \in GroupOf(w) : v \in Workers /\ PairInv(w, v)
  BY PairSymmetry DEF EngineInv
<1>3. /\ enginePc'[w] = "sampled" /\ \A v \in Workers \ {w} : enginePc'[v] = enginePc[v]
      /\ sampling_params'[w] = old_sampling_params[w] /\ \A v \in Workers \ {w} : sampling_params'[v] = sampling_params[v]
  BY <1>1, <1>2 DEF EngineTypeOK, IsArray
<1>5. EngineTypeOK'
  BY <1>1, <1>2, ExceptIsArray DEF EngineTypeOK, Stages, Rollout
<1>6. \A v \in Workers \ {w} : Untouched(v)
  BY <1>1, <1>3 DEF Untouched
<1>7. RankInv(w)'
  <2>1. StageInv(w)' /\ WeightsInv(w)' /\ ResponsesInv(w)'
    BY SMTT(30), <1>1, <1>2, <1>3 DEF RankInv, StageInv, WeightsInv, ResponsesInv, Trained, Rollout
  <2>2. StreamInv(w)'
    BY <1>1, <1>2, <1>3 DEF RankInv, StreamInv, Trained, RankOf, Rollout, Swapped
  <2>3. ParamsInv(w)'
    BY <1>1, <1>2, <1>3 DEF RankInv, ParamsInv, Override
  <2>4. PlaceInv(w)'
    BY SMTT(30), <1>1, <1>2, <1>3 DEF RankInv, PlaceInv, PartsUsed, ActorState, Swapped, Rollout, EngineTypeOK
  <2> QED
    BY <2>1, <2>2, <2>3, <2>4 DEF RankInv
<1>8. \A v \in GroupOf(w) \ {w} : PairInv(w, v)'
  BY <1>1, <1>2, <1>3, <1>6 DEF PairInv, Position, Late, Swapped, Rollout, Untouched
<1> QED
  BY <1>1, <1>5, <1>6, <1>7, <1>8, OneRankMoves

LEMMA LeaveKeepsInv ==
    ASSUME EngineInv, NEW w \in Workers, LeaveRollout(w)
    PROVE  EngineInv'
<1>1. /\ enginePc[w] = "sampled" /\ enginePc' = [enginePc EXCEPT ![w] = "returned"]
      /\ responses' = [responses EXCEPT ![w] = OwnChunk(w)]
      /\ engine' = [engine EXCEPT ![w] = "asleep"]
      /\ gen_random_states' = [gen_random_states EXCEPT ![w] = stream[w]]
      /\ stream' = [stream EXCEPT ![w] = torch_random_states[w]]
      /\ UNCHANGED <<offload, call, updates, weights, placed, torch_random_states,
                     sampling_params, old_sampling_params, rows>>
  BY DEF LeaveRollout, Moved
<1>2. EngineTypeOK /\ RankInv(w) /\ \A v \in GroupOf(w) : v \in Workers /\ PairInv(w, v)
  BY PairSymmetry DEF EngineInv
<1>3. /\ enginePc'[w] = "returned" /\ \A v \in Workers \ {w} : enginePc'[v] = enginePc[v]
      /\ responses'[w] = OwnChunk(w) /\ \A v \in Workers \ {w} : responses'[v] = responses[v]
      /\ engine'[w] = "asleep" /\ \A v \in Workers \ {w} : engine'[v] = engine[v]
      /\ gen_random_states'[w] = stream[w] /\ \A v \in Workers \ {w} : gen_random_states'[v] = gen_random_states[v]
      /\ stream'[w] = torch_random_states[w] /\ \A v \in Workers \ {w} : stream'[v] = stream[v]
  BY <1>1, <1>2 DEF EngineTypeOK, IsArray
<1>5. EngineTypeOK'
  BY <1>1, <1>2, ExceptIsArray DEF EngineTypeOK, Stages, Rollout
<1>6. \A v \in Workers \ {w} : Untouched(v)
  BY <1>1, <1>3 DEF Untouched
<1>7. RankInv(w)'
  <2>1. StageInv(w)' /\ WeightsInv(w)' /\ ResponsesInv(w)'
    BY SMTT(30), <1>1, <1>2, <1>3 DEF RankInv, StageInv, WeightsInv, ResponsesInv, Trained, Rollout
  <2>2. StreamInv(w)'
    BY <1>1, <1>2, <1>3 DEF RankInv, StreamInv, Trained, RankOf, Rollout, Swapped
  <2>3. ParamsInv(w)'
    BY <1>1, <1>2, <1>3 DEF RankInv, ParamsInv, Override
  <2>4. PlaceInv(w)'
    BY SMTT(30), <1>1, <1>2, <1>3 DEF RankInv, PlaceInv, PartsUsed, ActorState, Swapped, Rollout, EngineTypeOK
  <2> QED
    BY <2>1, <2>2, <2>3, <2>4 DEF RankInv
<1>8. \A v \in GroupOf(w) \ {w} : PairInv(w, v)'
  BY <1>1, <1>2, <1>3, <1>6 DEF PairInv, Position, Late, Swapped, Rollout, Untouched
<1> QED
  BY <1>1, <1>5, <1>6, <1>7, <1>8, OneRankMoves

-----------------------------------------------------------------------------
\* A step of one group: what is left to show is about that group.
LEMMA OneGroupMoves ==
    ASSUME EngineInv, EngineTypeOK', NEW u \in Workers, UNCHANGED <<offload, call, updates>>,
           \A v \in Workers \ GroupOf(u) : Untouched(v),
           \A w \in GroupOf(u) : RankInv(w)',
           \A w, v \in GroupOf(u) : PairInv(w, v)'
    PROVE  EngineInv'
<1>1. \A v \in Workers : RankInv(v)'
  <2>1. \A v \in Workers : RankInv(v)
    BY DEF EngineInv
  <2> QED
    BY <2>1, UntouchedRank
<1>2. ASSUME NEW w \in Workers, NEW v \in GroupOf(w) PROVE PairInv(w, v)'
  <2>1. v \in Workers /\ PairInv(w, v)
    BY <1>2, PairSymmetry DEF EngineInv
  <2>2. w \in GroupOf(u) <=> v \in GroupOf(u)
    BY DEF GroupOf
  <2> QED
    BY <2>1, <2>2, UntouchedPair
<1>3. \A w \in Workers : GroupOf(w)' = GroupOf(w)
  BY SMTT(30) DEF GroupOf
<1> QED
  BY <1>1, <1>2, <1>3 DEF EngineInv

LEMMA ShareKeepsInv ==
    ASSUME EngineInv, NEW u \in Workers, ShareRows(GroupOf(u))
    PROVE  EngineInv'
<1> DEFINE all == Joined(rows, InRankOrder(GroupOf(u)))
<1>1. /\ \A w \in GroupOf(u) : enginePc[w] = "entered"
      /\ enginePc' = [v \in Workers |-> IF v \in GroupOf(u) THEN "sharing" ELSE enginePc[v]]
      /\ rows' = [w \in Workers |-> IF w \in GroupOf(u) THEN all ELSE rows[w]]
      /\ UNCHANGED <<offload, call, updates, weights, placed, engine, stream, torch_random_states,
                     gen_random_states, sampling_params, old_sampling_params, responses>>
  BY SMTT(30) DEF ShareRows, AllMoved
<1> HIDE DEF all
<1>2. EngineTypeOK /\ \A w \in GroupOf(u) : w \in Workers /\ RankInv(w)
  BY DEF EngineInv, GroupOf
<1>3. \A w, v \in GroupOf(u) : PairInv(w, v)
  BY DEF EngineInv, GroupOf
<1>4. /\ \A w \in GroupOf(u) : enginePc'[w] = "sharing" /\ rows'[w] = all
      /\ \A v \in Workers \ GroupOf(u) : enginePc'[v] = enginePc[v] /\ rows'[v] = rows[v]
  BY <1>1, <1>2
<1>5. EngineTypeOK'
  BY <1>1, <1>2 DEF EngineTypeOK, IsArray, Stages, Rollout
<1>6. \A v \in Workers \ GroupOf(u) : Untouched(v)
  BY SMTT(30), <1>1, <1>4 DEF Untouched
<1>7. ASSUME NEW w \in GroupOf(u) PROVE RankInv(w)'
  <2>1. w \in Workers /\ RankInv(w) /\ enginePc[w] = "entered" /\ enginePc'[w] = "sharing"
    BY SMTT(30), <1>1, <1>2, <1>4
  <2> QED
    BY SMTT(30), <1>1, <2>1 DEF RankInv, StageInv, WeightsInv, StreamInv, ParamsInv, ResponsesInv, PlaceInv,
                      Trained, RankOf, Rollout, Swapped
<1>8. \A w, v \in GroupOf(u) : PairInv(w, v)'
  BY SMTT(30), <1>1, <1>2, <1>3, <1>4 DEF PairInv, Position, Late, Swapped, Rollout
<1> QED
  BY <1>1, <1>5, <1>6, <1>7, <1>8, OneGroupMoves

LEMMA GenerateKeepsInv ==
    ASSUME EngineInv, NEW u \in Workers, Generate(GroupOf(u))
    PROVE  EngineInv'
<1>1. /\ \A w \in GroupOf(u) : enginePc[w] = "sampling"
      /\ enginePc' = [v \in Workers |-> IF v \in GroupOf(u) THEN "generated" ELSE enginePc[v]]
      /\ responses' = [w \in Workers |-> IF w \in GroupOf(u) THEN Generated(w) ELSE responses[w]]
      /\ stream' = [w \in Workers |-> IF w \in GroupOf(u) THEN Advanced(w) ELSE stream[w]]
      /\ UNCHANGED <<offload, call, updates, weights, placed, engine, torch_random_states,
                     gen_random_states, sampling_params, old_sampling_params, rows>>
  BY DEF Generate, AllMoved
<1>2. EngineTypeOK /\ \A w \in GroupOf(u) : w \in Workers /\ RankInv(w)
  BY SMTT(30) DEF EngineInv, GroupOf
<1>3. \A w, v \in GroupOf(u) : PairInv(w, v)
  BY DEF EngineInv, GroupOf
<1>4. /\ \A w \in GroupOf(u) : /\ enginePc'[w] = "generated" /\ responses'[w] = Generated(w)
                               /\ stream'[w] = Advanced(w)
      /\ \A v \in Workers \ GroupOf(u) : /\ enginePc'[v] = enginePc[v] /\ responses'[v] = responses[v]
                                         /\ stream'[v] = stream[v]
  BY <1>1, <1>2
<1>5. EngineTypeOK'
  BY <1>1, <1>2 DEF EngineTypeOK, IsArray, Stages, Rollout
<1>6. \A v \in Workers \ GroupOf(u) : Untouched(v)
  BY <1>1, <1>4 DEF Untouched
<1>7. ASSUME NEW w \in GroupOf(u) PROVE RankInv(w)'
  <2>1. w \in Workers /\ RankInv(w) /\ enginePc[w] = "sampling" /\ enginePc'[w] = "generated"
    BY SMTT(30), <1>1, <1>2, <1>4
  <2> QED
    BY <1>1, <2>1 DEF RankInv, StageInv, WeightsInv, StreamInv, ParamsInv, ResponsesInv, PlaceInv,
                      Trained, RankOf, Override, Rollout, Swapped
<1>8. ASSUME NEW w \in GroupOf(u), NEW v \in GroupOf(u) PROVE PairInv(w, v)'
  <2>1. enginePc[w] = "sampling" /\ enginePc[v] = "sampling" /\ RankInv(w) /\ RankInv(v) /\ PairInv(w, v)
    BY <1>1, <1>2, <1>3
  <2>2. rows[w] = rows[v] /\ stream[w] = stream[v]
    BY SMTT(30), <2>1 DEF PairInv, Position, Swapped, Rollout
  <2>3. sampling_params[w] = sampling_params[v] /\ engine[w] = engine[v]
    BY SMTT(30), <2>1 DEF RankInv, ParamsInv, WeightsInv, Rollout
  <2>4. Generated(w) = Generated(v)
    BY <2>2, <2>3 DEF Generated
  <2>5. Advanced(w) = Advanced(v)
    BY <2>2, <2>3, <2>4 DEF Advanced
  <2> QED
    BY SMTT(30), <1>1, <1>4, <2>2, <2>4, <2>5 DEF PairInv, Position, Late, Swapped, Rollout
<1> QED
  BY <1>1, <1>5, <1>6, <1>7, <1>8, OneGroupMoves

-----------------------------------------------------------------------------
LEMMA CallKeepsInv ==
    ASSUME EngineInv, NEW m \in Calls, CallAll(m)
    PROVE  EngineInv'
<1>1. /\ call = "none" /\ call' = m /\ enginePc' = [w \in Workers |-> "called"]
      /\ rows' = [w \in Workers |-> PartOf(w)]
      /\ updates' = IF m = "update" THEN updates + 1 ELSE updates
      /\ UNCHANGED <<offload, weights, placed, engine, stream, torch_random_states,
                     gen_random_states, sampling_params, old_sampling_params, responses>>
  BY DEF CallAll, Everywhere
<1>2. EngineTypeOK /\ m # "none"
  BY DEF EngineInv, Calls, Generations
<1>3. EngineTypeOK'
  BY SMTT(30), <1>1, <1>2 DEF EngineTypeOK, IsArray, Stages
<1>4. ASSUME NEW w \in Workers PROVE RankInv(w)'
  <2>1. RankInv(w) /\ enginePc[w] = "idle" /\ enginePc'[w] = "called" /\ updates \in Nat
    BY <1>1, <1>2 DEF EngineInv, RankInv, StageInv, EngineTypeOK
  <2> QED
    BY SMTT(30), <1>1, <1>2, <2>1 DEF RankInv, StageInv, WeightsInv, StreamInv, ParamsInv, ResponsesInv,
                            PlaceInv, Trained, RankOf, Rollout, Swapped
<1>5. ASSUME NEW w \in Workers, NEW v \in GroupOf(w) PROVE PairInv(w, v)'
  <2>1. v \in Workers /\ PairInv(w, v) /\ enginePc[w] = "idle" /\ enginePc[v] = "idle"
    BY <1>1, <1>5, PairSymmetry DEF EngineInv, RankInv, StageInv
  <2> QED
    BY <1>1, <2>1 DEF PairInv, Position, Late, Swapped, Rollout
<1>6. \A w \in Workers : GroupOf(w)' = GroupOf(w)
  BY DEF GroupOf
<1> QED
  BY <1>3, <1>4, <1>5, <1>6 DEF EngineInv

LEMMA SyncKeepsInv ==
    ASSUME EngineInv, SyncWeights
    PROVE  EngineInv'
<1> DEFINE mixed == IF Cardinality({weights[w] : w \in Workers}) = 1 THEN weights[<<0, 0>>] ELSE "mixture"
<1>1. /\ call \in Generations /\ \A w \in Workers : enginePc[w] = "loaded"
      /\ enginePc' = [v \in Workers |-> IF v \in Workers THEN "synced" ELSE enginePc[v]]
      /\ engine' = [w \in Workers |-> mixed]
      /\ UNCHANGED <<offload, call, updates, weights, placed, stream, torch_random_states,
                     gen_random_states, sampling_params, old_sampling_params, rows, responses>>
  BY DEF SyncWeights, AllMoved, Everywhere
<1>2. \A w \in Workers : weights[w] = updates
  BY <1>1 DEF EngineInv, RankInv, WeightsInv, Trained, Generations
<1>3. mixed = updates
  <2>1. <<0, 0>> \in Workers
    BY EngineAssumption DEF Workers
  <2>2. {weights[w] : w \in Workers} = {updates}
    BY <1>2, <2>1
  <2>3. Cardinality({updates}) = 1
    BY FS_Singleton
  <2> QED
    BY <1>2, <2>1, <2>2, <2>3
<1> HIDE DEF mixed
<1>4. EngineTypeOK
  BY DEF EngineInv
<1>5. EngineTypeOK'
  BY <1>1, <1>4 DEF EngineTypeOK, IsArray, Stages, Rollout
<1>6. ASSUME NEW w \in Workers PROVE RankInv(w)'
  <2>1. RankInv(w) /\ enginePc[w] = "loaded" /\ enginePc'[w] = "synced" /\ engine'[w] = updates
    BY SMTT(30), <1>1, <1>3 DEF EngineInv
  <2> QED
    BY <1>1, <2>1 DEF RankInv, StageInv, WeightsInv, StreamInv, ParamsInv, ResponsesInv, PlaceInv,
                      Trained, RankOf, Rollout, Swapped, Generations
<1>7. ASSUME NEW w \in Workers, NEW v \in GroupOf(w) PROVE PairInv(w, v)'
  <2>1. v \in Workers /\ PairInv(w, v)
    BY <1>7, PairSymmetry DEF EngineInv
  <2> QED
    BY <1>1, <2>1 DEF PairInv, Position, Late, Swapped, Rollout
<1>8. \A w \in Workers : GroupOf(w)' = GroupOf(w)
  BY DEF GroupOf
<1> QED
  BY <1>5, <1>6, <1>7, <1>8 DEF EngineInv

LEMMA RunKeepsInv ==
    ASSUME EngineInv, RunModel
    PROVE  EngineInv'
<1>1. /\ call \in {"log_prob", "update"} /\ \A w \in Workers : enginePc[w] = "loaded"
      /\ enginePc' = [v \in Workers |-> IF v \in Workers THEN "ran" ELSE enginePc[v]]
      /\ UNCHANGED <<offload, call, updates, engine, torch_random_states,
                     gen_random_states, sampling_params, old_sampling_params, rows, responses>>
  BY DEF RunModel, AllMoved
<1>2. \/ /\ call = "update"
         /\ weights' = [w \in Workers |-> weights[w] + 1]
         /\ stream' = [w \in Workers |-> [stream[w] EXCEPT !.at = @ + 1]]
         /\ placed' = [w \in Workers |-> IF placed[w].optimizer = "none"
                         THEN [placed[w] EXCEPT !.optimizer = placed[w].params] ELSE placed[w]]
      \/ call = "log_prob" /\ UNCHANGED <<weights, stream, placed>>
  BY DEF RunModel
<1>3. EngineTypeOK
  BY DEF EngineInv
<1>4. placed' \in [Workers -> [ActorState -> {"none", "gpu", "cpu"}]]
  BY <1>2, <1>3 DEF EngineTypeOK, ActorState
<1>5. IsArray(weights)' /\ IsArray(stream)'
  BY <1>2, <1>3 DEF EngineTypeOK, IsArray
<1>6. EngineTypeOK'
  BY <1>1, <1>3, <1>4, <1>5 DEF EngineTypeOK, IsArray, Stages
<1>7. ASSUME NEW w \in Workers PROVE RankInv(w)'
  <2>1. RankInv(w) /\ enginePc[w] = "loaded" /\ enginePc'[w] = "ran" /\ updates \in Nat
    BY SMTT(30), <1>1, <1>3 DEF EngineInv, EngineTypeOK
  <2>2. StageInv(w)' /\ ParamsInv(w)' /\ ResponsesInv(w)'
    BY SMTT(30), <1>1, <2>1 DEF RankInv, StageInv, ParamsInv, ResponsesInv, Rollout
  <2> DEFINE before == IF call = "update" THEN updates - 1 ELSE updates
  <2>3. /\ weights[w] = before /\ engine[w] = "asleep"
        /\ stream[w] = [seed |-> RankOf(w), at |-> before]
    BY <2>1 DEF RankInv, WeightsInv, StreamInv, Trained, Rollout, Swapped
  <2>4. weights'[w] = updates /\ stream'[w] = [seed |-> RankOf(w), at |-> updates]
    <3>1. CASE call = "update"
      <4>1. before + 1 = updates
        BY <2>1, <3>1
      <4>2. weights'[w] = weights[w] + 1 /\ stream'[w] = [stream[w] EXCEPT !.at = @ + 1]
        BY <1>2, <3>1
      <4> HIDE DEF before
      <4> QED
        BY <2>3, <4>1, <4>2
    <3>2. CASE call = "log_prob"
      BY SMTT(30), <1>2, <2>3, <3>2
    <3> QED
      BY <1>1, <3>1, <3>2
  <2>5. WeightsInv(w)'
    BY <1>1, <2>1, <2>3, <2>4 DEF WeightsInv, Trained, Rollout
  <2>6. StreamInv(w)'
    BY <1>1, <2>1, <2>4 DEF StreamInv, Trained, RankOf, Rollout, Swapped
  <2>7. PlaceInv(w)'
    <3>1. \A part \in ActorState : placed'[w][part] = "cpu" => part \in offload
      BY SMTT(30), <1>2, <1>3, <2>1 DEF RankInv, PlaceInv, PartsUsed, ActorState, EngineTypeOK
    <3> QED
      BY <1>1, <2>1, <3>1 DEF PlaceInv, Swapped, Rollout
  <2> QED
    BY SMTT(30), <2>2, <2>5, <2>6, <2>7 DEF RankInv
<1>8. ASSUME NEW w \in Workers, NEW v \in GroupOf(w) PROVE PairInv(w, v)'
  <2>1. v \in Workers /\ PairInv(w, v)
    BY <1>8, PairSymmetry DEF EngineInv
  <2> QED
    BY <1>1, <2>1 DEF PairInv, Position, Late, Swapped, Rollout
<1>9. \A w \in Workers : GroupOf(w)' = GroupOf(w)
  BY DEF GroupOf
<1> QED
  BY <1>6, <1>7, <1>8, <1>9 DEF EngineInv

LEMMA CollectKeepsInv ==
    ASSUME EngineInv, Collect
    PROVE  EngineInv'
<1>1. /\ \A w \in Workers : enginePc[w] = "returned"
      /\ enginePc' = [v \in Workers |-> IF v \in Workers THEN "idle" ELSE enginePc[v]]
      /\ call' = "none" /\ responses' = [w \in Workers |-> <<>>] /\ rows' = [w \in Workers |-> <<>>]
      /\ UNCHANGED <<offload, updates, weights, placed, engine, stream, torch_random_states,
                     gen_random_states, sampling_params, old_sampling_params>>
  BY DEF Collect, AllMoved, Everywhere
<1>2. EngineTypeOK
  BY DEF EngineInv
<1>3. EngineTypeOK'
  BY SMTT(30), <1>1, <1>2 DEF EngineTypeOK, IsArray, Stages
<1>4. ASSUME NEW w \in Workers PROVE RankInv(w)'
  <2>1. RankInv(w) /\ enginePc[w] = "returned" /\ enginePc'[w] = "idle" /\ responses'[w] = <<>>
    BY SMTT(30), <1>1 DEF EngineInv
  <2> QED
    BY <1>1, <2>1 DEF RankInv, StageInv, WeightsInv, StreamInv, ParamsInv, ResponsesInv, PlaceInv,
                      Trained, RankOf, Rollout, Swapped
<1>5. ASSUME NEW w \in Workers, NEW v \in GroupOf(w) PROVE PairInv(w, v)'
  <2>1. v \in Workers /\ PairInv(w, v)
    BY <1>5, PairSymmetry DEF EngineInv
  <2> QED
    BY <1>1, <2>1 DEF PairInv, Position, Late, Swapped, Rollout
<1>6. \A w \in Workers : GroupOf(w)' = GroupOf(w)
  BY DEF GroupOf
<1> QED
  BY <1>3, <1>4, <1>5, <1>6 DEF EngineInv

LEMMA EngineStutters == EngineInv /\ UNCHANGED engineVars => EngineInv'
<1> SUFFICES ASSUME EngineInv, UNCHANGED engineVars PROVE EngineInv'
  OBVIOUS
<1>1. EngineTypeOK'
  BY SMTT(30) DEF EngineInv, EngineTypeOK, IsArray, engineVars
<1>2. \A w \in Workers : Untouched(w)
  BY DEF Untouched, engineVars
<1>3. UNCHANGED <<offload, call, updates>>
  BY DEF engineVars
<1>4. \A w \in Workers : RankInv(w)'
  BY <1>2, <1>3, UntouchedRank DEF EngineInv
<1>5. \A w \in Workers : \A v \in GroupOf(w) : PairInv(w, v)'
  BY <1>2, UntouchedPair, PairSymmetry DEF EngineInv
<1>6. \A w \in Workers : GroupOf(w)' = GroupOf(w)
  BY DEF GroupOf
<1> QED
  BY <1>1, <1>4, <1>5, <1>6 DEF EngineInv

LEMMA EngineInvStep == EngineInv /\ [EngineNext]_engineVars => EngineInv'
<1> SUFFICES ASSUME EngineInv, EngineNext PROVE EngineInv'
  BY EngineStutters
<1>1. ASSUME NEW m \in Calls, CallAll(m) PROVE EngineInv'
  BY SMTT(30), <1>1, CallKeepsInv
<1>2. ASSUME NEW w \in Workers,
             \/ LoadToDevice(w) \/ EnterRollout(w) \/ ShareRows(GroupOf(w)) \/ BeginSampling(w)
             \/ Generate(GroupOf(w)) \/ EndSampling(w) \/ LeaveRollout(w) \/ LeaveModel(w)
      PROVE  EngineInv'
  BY <1>2, LoadKeepsInv, EnterKeepsInv, ShareKeepsInv, BeginKeepsInv, GenerateKeepsInv,
     EndKeepsInv, LeaveKeepsInv, LeaveModelKeepsInv
<1>3. CASE SyncWeights \/ RunModel \/ Collect
  BY <1>3, SyncKeepsInv, RunKeepsInv, CollectKeepsInv
<1> QED
  BY <1>1, <1>2, <1>3 DEF EngineNext

-----------------------------------------------------------------------------
\* Whatever the calls and however the ranks interleave, the ranks of a
\* tensor-parallel group generate the same responses, vLLM and the model never
\* need the same offloaded part of the device, and between the calls every rank
\* is back at its training stream and the configured sampling parameters: the
\* parts of RolloutsAreSound about the ranks, for every number of them.
THEOREM RanksStayInStep == EngineSpec => [](GroupsAgree /\ DeviceShared /\ RanksComeBack)
<1>1. ASSUME EngineInv PROVE GroupsAgree /\ DeviceShared /\ RanksComeBack
  <2>1. GroupsAgree
    <3> SUFFICES ASSUME NEW w \in Workers, NEW v \in GroupOf(w),
                        enginePc[w] \in {"sampling", "generated"}, enginePc[v] = enginePc[w]
                 PROVE  responses[v] = responses[w]
      BY DEF GroupsAgree
    <3>1. v \in Workers /\ RankInv(w) /\ RankInv(v) /\ PairInv(w, v)
      BY SMTT(30), <1>1, PairSymmetry DEF EngineInv
    <3> QED
      BY <3>1 DEF RankInv, ResponsesInv, PairInv
  <2>2. DeviceShared
    BY <1>1 DEF DeviceShared, EngineInv, RankInv, PlaceInv, Swapped, Rollout
  <2>3. RanksComeBack
    <3> SUFFICES ASSUME call = "none", NEW w \in Workers
                 PROVE  /\ stream[w] = [Training(w) EXCEPT !.at = updates]
                        /\ sampling_params[w] = Configured /\ engine[w] = "asleep"
      BY DEF RanksComeBack
    <3>1. RankInv(w) /\ enginePc[w] = "idle"
      BY <1>1 DEF EngineInv, RankInv, StageInv
    <3> QED
      BY <3>1 DEF RankInv, StreamInv, ParamsInv, WeightsInv, Trained, Training, Swapped, Rollout
  <2> QED
    BY SMTT(30), <2>1, <2>2, <2>3
<1> QED
  BY EngineInvInit, EngineInvStep, <1>1, PTL DEF EngineSpec
=============================================================================
