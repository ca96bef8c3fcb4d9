---------------------------- MODULE HybridEngine ----------------------------
(***************************************************************************)
(* The hybrid engine: the workers of one resource pool train the actor and *)
(* generate with it.  The driver calls one method at a time on all ranks   *)
(* (generate_sequences, compute_log_prob, update_actor of                  *)
(* ActorRolloutRefWorker) and waits for all of them; within a call the     *)
(* ranks run on their own and meet in the collective operations: all of    *)
(* them when FSDP gathers the shards of the weights or reduces gradients,  *)
(* and the ranks of a tensor-parallel group when they share their rows and *)
(* while vLLM generates.                                                   *)
(*                                                                         *)
(* A rank is <<dp, tp>>.  Weights are the number of updates they have had. *)
(* A random stream is a seed and a position; vLLM draws once for every     *)
(* response it samples and never when it is greedy, training draws once in *)
(* every update (dropout).  A response is what determines its tokens: its  *)
(* row, the weights, the sampling parameters and the position it drew.     *)
(***************************************************************************)
EXTENDS Integers, Sequences, FiniteSets

CONSTANTS
    DpSize, TpSize,   \* tensor-parallel groups, ranks in each of them
    RowsPerRank,      \* rows the driver sends to each rank
    SamplesPerPrompt, \* n of the rollout's configuration
    MaxCalls          \* bound on the calls of a behaviour

ASSUME EngineAssumption ==
    /\ DpSize \in Nat \ {0} /\ TpSize \in Nat \ {0} /\ RowsPerRank \in Nat \ {0}
    /\ SamplesPerPrompt \in Nat \ {0} /\ MaxCalls \in Nat

VARIABLES
    offload,     \* the parts for which _is_offload_param, _is_offload_optimizer are set
    call,        \* the method the driver is calling, or "none"
    enginePc,    \* how far each rank is in it
    updates,     \* updates the driver has asked for
    weights,     \* per rank: the version of its shard of the actor's weights
    placed,      \* per rank: where the weights and the optimizer's state are
    engine,      \* per rank: the version loaded in vLLM, or "asleep"
    stream,      \* per rank: the state of the device's random generator
    torch_random_states, gen_random_states, \* per rank: the saved ones
    sampling_params, old_sampling_params,   \* per rank: the current and the replaced ones
    rows,        \* per rank: the rows it works on
    responses,   \* per rank: what vLLM generated
    received     \* what the driver got from generate_sequences, call by call

engineVars == <<offload, call, enginePc, updates, weights, placed, engine, stream,
                torch_random_states, gen_random_states, sampling_params, old_sampling_params, rows, responses, received>>

Workers == (0 .. DpSize - 1) \X (0 .. TpSize - 1)
RankOf(w) == w[1] * TpSize + w[2]
GroupOf(w) == {v \in Workers : v[1] = w[1]}
InRankOrder(ws) ==
    SelectSeq([r \in 1 .. DpSize * TpSize |-> <<(r - 1) \div TpSize, (r - 1) % TpSize>>], LAMBDA w : w \in ws)

\* The parts that the given ranks have, one after the other.
Joined(part, ws) ==
    LET upTo[i \in 0 .. Len(ws)] == IF i = 0 THEN <<>> ELSE upTo[i - 1] \o part[ws[i]]
    IN upTo[Len(ws)]

Generations == {"sample", "greedy", "validate"}
Calls == Generations \cup {"log_prob", "update"}

\* The driver's rows are cut into equal parts, one for each rank.
PartOf(w) == [i \in 1 .. RowsPerRank |-> RankOf(w) * RowsPerRank + i]

Everywhere(v) == [w \in Workers |-> v]
ActorState == {"params", "optimizer"}
Configured == [n |-> SamplesPerPrompt, draws |-> TRUE, of |-> "config"]

Training(w) == [seed |-> RankOf(w), at |-> 0]
Generating(w) == [seed |-> 1000 + w[1], at |-> 0]

EngineInit ==
    /\ offload \in SUBSET ActorState
    /\ call = "none" /\ enginePc = Everywhere("idle") /\ updates = 0
    /\ weights = Everywhere(0)
    /\ placed = Everywhere([params |-> "gpu", optimizer |-> "none"])
    /\ engine = Everywhere("asleep")
    /\ stream = [w \in Workers |-> Training(w)]
    /\ torch_random_states = [w \in Workers |-> Training(w)]
    /\ gen_random_states = [w \in Workers |-> Generating(w)]
    /\ sampling_params = Everywhere(Configured) /\ old_sampling_params = Everywhere(Configured)
    /\ rows = Everywhere(<<>>) /\ responses = Everywhere(<<>>)
    /\ received = <<>>

\* update_sampling_params: greedy and validation ask for one response each.
Override(params, how) ==
    CASE how = "greedy" -> [n |-> 1, draws |-> FALSE, of |-> "greedy"]
      [] how = "validate" -> [n |-> 1, draws |-> TRUE, of |-> "val_kwargs"]
      [] OTHER -> params

\* load_fsdp_* and offload_fsdp_* of some parts, as far as they are offloaded
\* at all; the optimizer has no state before its first step.
Place(w, parts, where) ==
    placed' = [placed EXCEPT ![w] = [part \in ActorState |->
                IF part \in parts \cap offload /\ @[part] # "none" THEN where ELSE @[part]]]

\* update_actor loads and offloads both parts, compute_log_prob the weights.
PartsUsed == IF call = "update" THEN ActorState ELSE {"params"}

Moved(w, from, to) == enginePc[w] = from /\ enginePc' = [enginePc EXCEPT ![w] = to]
AllMoved(ws, from, to) ==
    /\ \A w \in ws : enginePc[w] = from
    /\ enginePc' = [v \in Workers |-> IF v \in ws THEN to ELSE enginePc[v]]

\* The driver calls a method on all ranks, each with its part of the rows.
CallAll(m) ==
    /\ call = "none" /\ Len(received) + updates < MaxCalls
    /\ call' = m /\ enginePc' = Everywhere("called")
    /\ rows' = [w \in Workers |-> PartOf(w)]
    /\ updates' = IF m = "update" THEN updates + 1 ELSE updates
    /\ UNCHANGED <<offload, weights, placed, engine, stream, torch_random_states,
                   gen_random_states, sampling_params, old_sampling_params, responses, received>>

LoadToDevice(w) ==
    /\ Moved(w, "called", "loaded")
    /\ Place(w, PartsUsed, "gpu")
    /\ UNCHANGED <<offload, call, updates, weights, engine, stream, torch_random_states,
                   gen_random_states, sampling_params, old_sampling_params, rows, responses, received>>

\* vLLM wakes up and every rank loads the weights gathered from all shards.
\* Weights of different versions would be a mixture.
SyncWeights ==
    /\ call \in Generations /\ AllMoved(Workers, "loaded", "synced")
    /\ engine' = Everywhere(IF Cardinality({weights[w] : w \in Workers}) = 1
                            THEN weights[<<0, 0>>] ELSE "mixture")
    /\ UNCHANGED <<offload, call, updates, weights, placed, stream, torch_random_states,
                   gen_random_states, sampling_params, old_sampling_params, rows, responses, received>>

\* The end of __enter__ and the offloading after it.
EnterRollout(w) ==
    /\ Moved(w, "synced", "entered")
    /\ torch_random_states' = [torch_random_states EXCEPT ![w] = stream[w]]
    /\ stream' = [stream EXCEPT ![w] = gen_random_states[w]]
    /\ Place(w, ActorState, "cpu")
    /\ UNCHANGED <<offload, call, updates, weights, engine, gen_random_states,
                   sampling_params, old_sampling_params, rows, responses, received>>

\* preprocess_data: the ranks of a group share their rows.
ShareRows(group) ==
    /\ AllMoved(group, "entered", "sharing")
    /\ LET all == Joined(rows, InRankOrder(group))
       IN rows' = [w \in Workers |-> IF w \in group THEN all ELSE rows[w]]
    /\ UNCHANGED <<offload, call, updates, weights, placed, engine, stream, torch_random_states,
                   gen_random_states, sampling_params, old_sampling_params, responses, received>>

BeginSampling(w) ==
    /\ Moved(w, "sharing", "sampling")
    /\ old_sampling_params' = [old_sampling_params EXCEPT ![w] = sampling_params[w]]
    /\ sampling_params' = [sampling_params EXCEPT ![w] = Override(@, call)]
    /\ UNCHANGED <<offload, call, updates, weights, placed, engine, stream, torch_random_states,
                   gen_random_states, rows, responses, received>>

\* What a rank's sampler produces: n responses for each of its rows in turn.
Samples(batch, p, version, from) ==
    [k \in 1 .. Len(batch) * p.n |->
        [row |-> batch[((k - 1) \div p.n) + 1], weights |-> version, sampled |-> p.of,
         drew |-> IF p.draws THEN [from EXCEPT !.at = @ + k] ELSE from]]

Generated(w) == Samples(rows[w], sampling_params[w], engine[w], stream[w])

Advanced(w) ==
    IF sampling_params[w].draws THEN [stream[w] EXCEPT !.at = @ + Len(Generated(w))] ELSE stream[w]

\* The ranks of a group run the model together, each with its own sampler.
Generate(group) ==
    /\ AllMoved(group, "sampling", "generated")
    /\ responses' = [w \in Workers |-> IF w \in group THEN Generated(w) ELSE responses[w]]
    /\ stream' = [w \in Workers |-> IF w \in group THEN Advanced(w) ELSE stream[w]]
    /\ UNCHANGED <<offload, call, updates, weights, placed, engine, torch_random_states,
                   gen_random_states, sampling_params, old_sampling_params, rows, received>>

EndSampling(w) ==
    /\ Moved(w, "generated", "sampled")
    /\ sampling_params' = [sampling_params EXCEPT ![w] = old_sampling_params[w]]
    /\ UNCHANGED <<offload, call, updates, weights, placed, engine, stream, torch_random_states,
                   gen_random_states, old_sampling_params, rows, responses, received>>

\* data.chunk(chunks=tp_size)[tp_rank]
OwnChunk(w) ==
    LET size == Len(responses[w]) \div TpSize
    IN SubSeq(responses[w], w[2] * size + 1, (w[2] + 1) * size)

\* Mutant: __exit__ does not keep where the generating stream has got to.
LeaveRolloutRewound(w) ==
    /\ Moved(w, "sampled", "returned")
    /\ responses' = [responses EXCEPT ![w] = OwnChunk(w)]
    /\ engine' = [engine EXCEPT ![w] = "asleep"]
    /\ stream' = [stream EXCEPT ![w] = torch_random_states[w]]
    /\ UNCHANGED <<offload, call, updates, weights, placed, torch_random_states, gen_random_states,
                   sampling_params, old_sampling_params, rows, received>>

\* postprocess_data and __exit__.
LeaveRollout(w) ==
    /\ Moved(w, "sampled", "returned")
    /\ responses' = [responses EXCEPT ![w] = OwnChunk(w)]
    /\ engine' = [engine EXCEPT ![w] = "asleep"]
    /\ gen_random_states' = [gen_random_states EXCEPT ![w] = stream[w]]
    /\ stream' = [stream EXCEPT ![w] = torch_random_states[w]]
    /\ UNCHANGED <<offload, call, updates, weights, placed, torch_random_states,
                   sampling_params, old_sampling_params, rows, received>>

\* compute_log_prob and update_actor: the forward and backward passes of all
\* ranks, and for an update the optimizer's step.
RunModel ==
    /\ call \in {"log_prob", "update"} /\ AllMoved(Workers, "loaded", "ran")
    /\ IF call = "update"
       THEN /\ weights' = [w \in Workers |-> weights[w] + 1]
            /\ stream' = [w \in Workers |-> [stream[w] EXCEPT !.at = @ + 1]]
            /\ placed' = [w \in Workers |-> IF placed[w].optimizer = "none"
                                            THEN [placed[w] EXCEPT !.optimizer = placed[w].params] ELSE placed[w]]
       ELSE UNCHANGED <<weights, stream, placed>>
    /\ UNCHANGED <<offload, call, updates, engine, torch_random_states,
                   gen_random_states, sampling_params, old_sampling_params, rows, responses, received>>

LeaveModel(w) ==
    /\ Moved(w, "ran", "returned")
    /\ Place(w, PartsUsed, "cpu")
    /\ UNCHANGED <<offload, call, updates, weights, engine, stream, torch_random_states,
                   gen_random_states, sampling_params, old_sampling_params, rows, responses, received>>

\* The driver has waited for every rank; it joins the outputs in rank order.
Collect ==
    /\ call # "none" /\ AllMoved(Workers, "returned", "idle")
    /\ call' = "none"
    /\ received' = IF call \notin Generations THEN received
                   ELSE Append(received, [how |-> call, weights |-> updates,
                            batch |-> Joined(responses, InRankOrder(Workers))])
    /\ responses' = Everywhere(<<>>) /\ rows' = Everywhere(<<>>)
    /\ UNCHANGED <<offload, updates, weights, placed, engine, stream, torch_random_states,
                   gen_random_states, sampling_params, old_sampling_params>>

EngineNext ==
    \/ \E m \in Calls : CallAll(m)
    \/ \E w \in Workers : LoadToDevice(w)
    \/ SyncWeights
    \/ \E w \in Workers : EnterRollout(w)
    \/ \E w \in Workers : ShareRows(GroupOf(w))
    \/ \E w \in Workers : BeginSampling(w)
    \/ \E w \in Workers : Generate(GroupOf(w))
    \/ \E w \in Workers : EndSampling(w)
    \/ \E w \in Workers : LeaveRollout(w)
    \/ RunModel
    \/ \E w \in Workers : LeaveModel(w)
    \/ Collect

\* The driver and the ranks are running processes that wait for nothing but
\* each other.
EngineFairness == WF_engineVars(EngineNext)

EngineSpec == EngineInit /\ [][EngineNext]_engineVars /\ EngineFairness
-----------------------------------------------------------------------------
\* The driver's rows in order, n times each, made with the weights of the
\* last update and sampled as the call asked.
AnswersTheCall(c) ==
    LET n == IF c.how = "sample" THEN SamplesPerPrompt ELSE 1
    IN /\ Len(c.batch) = DpSize * TpSize * RowsPerRank * n
       /\ \A k \in DOMAIN c.batch :
             /\ c.batch[k].row = ((k - 1) \div n) + 1
             /\ c.batch[k].weights = c.weights
             /\ c.batch[k].sampled = Override(Configured, c.how).of

Drawn(c) == IF c.how = "greedy" THEN {} ELSE {c.batch[k].drew : k \in DOMAIN c.batch}

\* No random number is used for two responses, of one batch or of two.
DrawnOnce ==
    /\ \A i \in DOMAIN received :
          received[i].how # "greedy" => Cardinality(Drawn(received[i])) = Len(received[i].batch)
    /\ \A i, j \in DOMAIN received : i # j => Drawn(received[i]) \cap Drawn(received[j]) = {}

\* The ranks of a group, each sampling on its own, produce the same responses.
GroupsAgree ==
    \A w \in Workers : enginePc[w] \in {"sampling", "generated"} =>
        \A v \in GroupOf(w) : enginePc[v] = enginePc[w] => responses[v] = responses[w]

\* While vLLM generates no part that is offloaded takes up the device, and a
\* model that runs has its parts there.
DeviceShared ==
    \A w \in Workers :
        /\ enginePc[w] \in {"sampling", "generated"} => \A part \in offload : placed[w][part] # "gpu"
        /\ enginePc[w] = "loaded" => \A part \in PartsUsed : placed[w][part] # "cpu"

\* Between the calls every rank is back at its own training stream, moved only
\* by updates, and at the configured sampling parameters.
RanksComeBack ==
    call = "none" => \A w \in Workers :
        /\ stream[w] = [Training(w) EXCEPT !.at = updates]
        /\ sampling_params[w] = Configured /\ engine[w] = "asleep"

\* Rollouts are sound, whatever the calls before them and however the ranks
\* interleave: a batch answers its call, with fresh random numbers; the ranks
\* of a group agree; training and generation leave each other's parts on the
\* device, random streams and sampling parameters alone.
RolloutsAreSound ==
    /\ \A i \in DOMAIN received : AnswersTheCall(received[i])
    /\ DrawnOnce /\ GroupsAgree /\ DeviceShared /\ RanksComeBack

\* Every call on the ranks returns: no rank waits in a collective operation
\* that another one does not enter.
CallsReturn == call # "none" ~> call = "none"
=============================================================================
