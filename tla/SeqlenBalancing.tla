-------------------------- MODULE SeqlenBalancing --------------------------
(***************************************************************************)
(* get_seqlen_balanced_partitions: rows of a batch are divided into parts  *)
(* of balanced length by the largest differencing method (karmarkar_karp). *)
(* The driver calls it to give the ranks equal numbers of rows, a worker   *)
(* calls it through rearrange_micro_batches to cut its rows into micro     *)
(* batches, and then puts the outputs back into the order of the rows.     *)
(***************************************************************************)
EXTENDS Integers, FiniteSets, FiniteSetsExt, Sequences, SequencesExt

CONSTANTS
    MaxRows,     \* bound on the number of rows
    MaxLen,      \* longest row, in tokens
    MaxTokenLen  \* max_token_len of a micro batch

\* rearrange_micro_batches asserts the last conjunct.
ASSUME BalancingAssumption ==
    /\ MaxRows \in Nat \ {0}
    /\ MaxLen \in Nat \ {0}
    /\ MaxTokenLen \in Nat
    /\ MaxTokenLen >= MaxLen

VARIABLES
    seqlen_list,   \* the length of each row
    k_partitions,  \* how many parts are asked for
    equal_size,    \* the parts must have the same number of rows
    states_pq,     \* the heap of states, each with k_partitions sets
    partitions,    \* what is returned
    pc

input == <<seqlen_list, k_partitions, equal_size>>
vars == <<input, states_pq, partitions, pc>>

Rows == DOMAIN seqlen_list
Parts == 1 .. k_partitions

(***************************************************************************)
(* A Set of the code: the rows in it, their total length and the one that  *)
(* was added first (0 if there is none).  The sets of all states have no   *)
(* row in common, so comparing the lists of two sets that have equal sums  *)
(* and lengths is comparing their first rows.                              *)
(***************************************************************************)
Set(sum, items, first) == [sum |-> sum, items |-> items, first |-> first]

\* Set.merge
Add(s, t) ==
    Set(s.sum + t.sum, s.items \cup t.items, IF s.items = {} THEN t.first ELSE s.first)

\* Set.__lt__
Less(s, t) ==
    \/ s.sum < t.sum
    \/ /\ s.sum = t.sum
       /\ \/ Cardinality(s.items) < Cardinality(t.items)
          \/ Cardinality(s.items) = Cardinality(t.items) /\ s.first < t.first

\* "sets should always be decreasing order"
Decreasing(sets) == \A i, j \in DOMAIN sets : i < j => ~Less(sets[i], sets[j])

Permutes(p) == \A i, j \in DOMAIN p : i # j => p[i] # p[j]

spread(sets) == sets[1].sum - sets[k_partitions].sum

\* State.__lt__: the state that is popped first.
PopsFirst(x, y) ==
    \/ spread(x) > spread(y)
    \/ spread(x) = spread(y) /\ Less(y[1], x[1])

\* Position, from 0, of a row in sorted_seqlen_list.
Position(i) ==
    Cardinality({j \in Rows : \/ seqlen_list[j] < seqlen_list[i]
                              \/ seqlen_list[j] = seqlen_list[i] /\ j < i})

\* The state of a single row.
OneRow(i) ==
    [p \in Parts |-> IF p = 1 THEN Set(seqlen_list[i], {i}, i) ELSE Set(0, {}, 0)]

\* The state of the k_partitions rows from an offset of the sorted list.
Chunk(offset) ==
    [p \in Parts |->
       LET i == CHOOSE r \in Rows : Position(r) = offset + k_partitions - p
       IN  Set(seqlen_list[i], {i}, i)]

-----------------------------------------------------------------------------
(***************************************************************************)
(* The callers.  For _balance_batch the number of parts is the number of   *)
(* ranks.  In rearrange_micro_batches it is the largest number of micro    *)
(* batches that any rank needs; ranks have equal numbers of rows, so none  *)
(* needs more than that.                                                   *)
(***************************************************************************)
total_seqlen == MapThenSumSet(LAMBDA i : seqlen_list[i], Rows)

ceildiv(a, b) == (a + b - 1) \div b

BalanceBatch == equal_size /\ k_partitions \in 1 .. MaxRows

RearrangeMicroBatches ==
    ~equal_size /\ k_partitions \in ceildiv(total_seqlen, MaxTokenLen) .. Cardinality(Rows)

Init ==
    /\ \E n \in 1 .. MaxRows : seqlen_list \in [1 .. n -> 1 .. MaxLen]
    /\ k_partitions \in 1 .. MaxRows
    /\ equal_size \in BOOLEAN
    /\ BalanceBatch \/ RearrangeMicroBatches
    /\ states_pq = {}
    /\ partitions = <<>>
    /\ pc = "call"

-----------------------------------------------------------------------------
\* The assertions on the arguments.
Callable ==
    /\ Cardinality(Rows) >= k_partitions
    /\ equal_size => Cardinality(Rows) % k_partitions = 0

AssertFails ==
    /\ pc = "call"
    /\ ~Callable
    /\ pc' = "raised"
    /\ UNCHANGED <<input, states_pq, partitions>>

\* The heap is filled, with one row to a state or with k_partitions.
FillHeap ==
    /\ pc = "call"
    /\ Callable
    /\ states_pq' =
         IF equal_size
           THEN {Chunk(k_partitions * c) :
                   c \in 0 .. (Cardinality(Rows) \div k_partitions) - 1}
           ELSE {OneRow(i) : i \in Rows}
    /\ pc' = "merge"
    /\ UNCHANGED <<input, partitions>>

\* Mutants of Merge: the index into the other's sets is that of the largest;
\* the largest takes in the largest.
MergeWithFirst(x, y, p) == [i \in Parts |-> Add(x[p[i]], y[1])]

MergeLikeWithLike(x, y, p) == [i \in Parts |-> Add(x[p[i]], y[p[i]])]

\* State.merge: each set of x takes in one of y, the largest the smallest, and
\* p sorts the results.
Merge(x, y, p) == [i \in Parts |-> Add(x[p[i]], y[k_partitions + 1 - p[i]])]

\* The first two states of the heap are popped and merged.
MergeFirstTwo ==
    /\ pc = "merge"
    /\ \E x \in states_pq : \E y \in states_pq \ {x} :
         /\ \A w \in states_pq \ {x} : PopsFirst(x, w)
         /\ \A w \in states_pq \ {x, y} : PopsFirst(y, w)
         /\ \E p \in [Parts -> Parts] :
              /\ Permutes(p)
              /\ Decreasing(Merge(x, y, p))
              /\ states_pq' = (states_pq \ {x, y}) \cup {Merge(x, y, p)}
    /\ UNCHANGED <<input, partitions, pc>>

\* The assertions on the result of karmarkar_karp and those of
\* _check_and_sort_partitions, which do not look for a row in two parts.
ChecksPass(result) ==
    /\ equal_size => \A p \in Parts :
         Cardinality(result[p]) * k_partitions = Cardinality(Rows)
    /\ \A p \in Parts : result[p] # {}
    /\ UNION {result[p] : p \in Parts} = Rows

\* One state is left.  Its sets, each in the order of the rows, are returned.
Return ==
    /\ pc = "merge"
    /\ \E final_state \in states_pq :
         LET result == [p \in Parts |-> final_state[p].items]
         IN  /\ states_pq = {final_state}
             /\ partitions' = result
             /\ pc' = IF ChecksPass(result) THEN "done" ELSE "raised"
    /\ UNCHANGED <<input, states_pq>>

Over == pc \in {"done", "raised"} /\ UNCHANGED vars

Next == AssertFails \/ FillHeap \/ MergeFirstTwo \/ Return \/ Over

Spec == Init /\ [][Next]_vars

-----------------------------------------------------------------------------
(***************************************************************************)
(* What the callers do with the parts.                                     *)
(***************************************************************************)

\* The rows in the order of the parts: the order of the micro batches' outputs
\* and of the batch that the driver has reordered.
indices == FlattenSeq([p \in Parts |-> SetToSortSeq(partitions[p], <)])

\* Mutant of get_reverse_idx: the map itself is applied again.
get_reverse_idxSame(idx_map) == idx_map

\* A loop over a copy of idx_map; the last assignment counts.
get_reverse_idx(idx_map) ==
    [j \in DOMAIN idx_map |->
       LET at == {i \in DOMAIN idx_map : idx_map[i] = j}
       IN  IF at = {} THEN idx_map[j] ELSE Max(at)]

revert_indices == get_reverse_idx(indices)

\* compute_log_prob and compute_values: the row whose output is put at row i.
\* The batch has no multi-modal inputs; with them the batch is not rearranged,
\* and dp_actor has no indices to restore an order with.
OutputAt(i) == indices[revert_indices[i]]

\* The rows that dispatch, which cuts the reordered batch into equal chunks,
\* sends to rank c.
DispatchedTo(c) ==
    LET size == Cardinality(Rows) \div k_partitions
    IN  {indices[i] : i \in size * (c - 1) + 1 .. size * c}

-----------------------------------------------------------------------------
(***************************************************************************)
(* Properties.                                                             *)
(***************************************************************************)
Sets == [sum : Nat, items : SUBSET Rows, first : Rows \cup {0}]

\* Types.  A set knows a first row exactly if it has rows.
TypeOK ==
    /\ pc \in {"call", "merge", "done", "raised"}
    /\ k_partitions \in Nat \ {0}
    /\ equal_size \in BOOLEAN
    /\ \A x \in states_pq : /\ x \in [Parts -> Sets]
                            /\ \A p \in Parts : x[p].first = 0 <=> x[p].items = {}
    /\ pc = "done" => partitions \in [Parts -> SUBSET Rows]

\* No row is lost and none is in two parts; the code's own checks would not
\* notice a row that is in two.
EachRowOnce ==
    pc = "done" => \A i \in Rows : \E p \in Parts :
      /\ i \in partitions[p]
      /\ \A q \in Parts \ {p} : i \notin partitions[q]

\* If the arguments are right none of the assertions on the result fails: no
\* part is empty and, if asked, all have the same number of rows.
ResultAssertionsHold == pc = "raised" => ~Callable

\* "each dp rank gets similar total tokens": in every state on the way, and so
\* in the end, the heaviest set has at most one longest row more than the
\* lightest, whatever was merged in which order.
WellBalanced ==
    \A x \in states_pq : \A p, q \in Parts : x[p].sum - x[q].sum <= MaxLen

\* The outputs of micro batches end up at the rows they were computed for.
OutputsRestored == pc = "done" => \A i \in Rows : OutputAt(i) = i

\* "The data will be automatically equally partitioned by dispatch function":
\* rank c gets the c-th part and no other row.
DispatchGivesParts ==
    pc = "done" /\ equal_size => \A c \in Parts : DispatchedTo(c) = partitions[c]

\* Balancing is invisible to whoever uses the batch: the assertions hold, every
\* rank gets its part, and the outputs come back in the order of the rows.
BatchesPutBack ==
    ResultAssertionsHold /\ OutputsRestored /\ DispatchGivesParts

-----------------------------------------------------------------------------
\* The heaviest set of a state comes first.
Ordered(x) == \A p, q \in Parts : p <= q => x[p].sum >= x[q].sum

\* The inductive invariant behind WellBalanced: merging the heaviest set of one
\* state with the lightest of another widens neither's spread, but only because
\* the sets of both are in order.
BalanceInv ==
    /\ k_partitions \in Nat \ {0}
    /\ \E n \in 1 .. MaxRows : Rows = 1 .. n
    /\ seqlen_list \in [Rows -> 1 .. MaxLen]
    /\ \A x \in states_pq : \A p \in Parts : x[p].sum \in Nat
    /\ \A x \in states_pq : Ordered(x)
    /\ WellBalanced

\* No row is in two sets, of one state or of two.
Disjoint(states) ==
    \A x, y \in states : \A p, q \in Parts :
      x[p].items \cap y[q].items # {} => x = y /\ p = q

\* Every row is in some set.
Covered(states) ==
    \A i \in Rows : \E x \in states : \E p \in Parts : i \in x[p].items

\* The inductive invariant behind EachRowOnce: the sets of the heap are, all the
\* time, a partition of the rows.
RowsInv ==
    /\ BalanceInv
    /\ Disjoint(states_pq)
    /\ pc = "merge" => Covered(states_pq)
    /\ EachRowOnce
=============================================================================
