----------------------- MODULE SeqlenBalancing_proofs -----------------------
(* Proofs about SeqlenBalancing: the parts are balanced for any number and  *)
(* lengths of rows, and any number of parts.                                *)
EXTENDS SeqlenBalancing, FiniteSetTheorems, TLAPS

\* The rows that come before row i in sorted_seqlen_list.
Earlier(i) == {j \in Rows : \/ seqlen_list[j] < seqlen_list[i]
                            \/ seqlen_list[j] = seqlen_list[i] /\ j < i}

\* What the invariant says of the arguments alone.
InputInv ==
    /\ k_partitions \in Nat \ {0}
    /\ \E n \in 1 .. MaxRows : Rows = 1 .. n
    /\ seqlen_list \in [Rows -> 1 .. MaxLen]

\* What it says of one state of the heap.
StateInv(x) ==
    /\ \A p \in Parts : x[p].sum \in Nat
    /\ Ordered(x)
    /\ \A p, q \in Parts : x[p].sum - x[q].sum <= MaxLen

LEMMA BalanceInvParts ==
    BalanceInv <=> InputInv /\ \A x \in states_pq : StateInv(x)
  BY DEF BalanceInv, InputInv, StateInv, WellBalanced

\* The number of rows, and that rows are numbers with lengths.
LEMMA RowsFinite ==
    ASSUME InputInv
    PROVE  /\ IsFiniteSet(Rows)
           /\ Cardinality(Rows) \in Nat
           /\ Rows = 1 .. Cardinality(Rows)
<1>1. PICK n \in Nat : Rows = 1 .. n
  BY BalancingAssumption DEF InputInv
<1>2. IsFiniteSet(1 .. n) /\ Cardinality(1 .. n) = IF 1 > n THEN 0 ELSE n - 1 + 1
  BY FS_Interval
<1>3. Cardinality(1 .. n) = n
  BY <1>2
<1> QED
  BY <1>1, <1>2, <1>3

\* A row that comes earlier in the sorted list has a smaller position.
LEMMA PositionMonotone ==
    ASSUME InputInv, NEW a \in Rows, NEW b \in Rows, a \in Earlier(b)
    PROVE  Position(a) < Position(b)
<1> USE BalancingAssumption
<1>1. seqlen_list[a] \in Nat /\ seqlen_list[b] \in Nat /\ \A j \in Rows : j \in Nat /\ seqlen_list[j] \in Nat
  BY DEF InputInv
<1>2. Earlier(a) \in SUBSET Earlier(b)
  BY <1>1 DEF Earlier
<1>3. a \notin Earlier(a)
  BY <1>1 DEF Earlier
<1>4. IsFiniteSet(Earlier(b))
  BY RowsFinite, FS_Subset DEF Earlier
<1>5. /\ IsFiniteSet(Earlier(a))
      /\ Cardinality(Earlier(a)) <= Cardinality(Earlier(b))
      /\ Cardinality(Earlier(b)) = Cardinality(Earlier(a)) => Earlier(b) = Earlier(a)
  BY <1>2, <1>4, FS_Subset
<1>6. Cardinality(Earlier(a)) \in Nat /\ Cardinality(Earlier(b)) \in Nat
  BY <1>4, <1>5, FS_CardinalityType
<1>7. Cardinality(Earlier(a)) < Cardinality(Earlier(b))
  BY <1>3, <1>5, <1>6
<1> QED
  BY <1>7 DEF Position, Earlier

\* Positions count from 0.
LEMMA PositionBound ==
    ASSUME InputInv, NEW r \in Rows
    PROVE  Position(r) \in 0 .. Cardinality(Rows) - 1
<1> USE BalancingAssumption
<1> DEFINE n == Cardinality(Rows)
<1>1. n \in Nat /\ IsFiniteSet(Rows)
  BY RowsFinite
<1>2. \A j \in Rows : j \in Nat /\ seqlen_list[j] \in Nat
  BY DEF InputInv
<1>3. Earlier(r) \in SUBSET Rows /\ r \notin Earlier(r)
  BY <1>2 DEF Earlier
<1>4. /\ IsFiniteSet(Earlier(r))
      /\ Cardinality(Earlier(r)) <= n
      /\ n = Cardinality(Earlier(r)) => Rows = Earlier(r)
  BY <1>1, <1>3, FS_Subset
<1>5. Cardinality(Earlier(r)) \in Nat
  BY <1>4, FS_CardinalityType
<1>6. Cardinality(Earlier(r)) \in 0 .. n - 1
  BY <1>1, <1>3, <1>4, <1>5
<1> QED
  BY <1>6 DEF Position, Earlier

\* No two rows have the same position.
LEMMA PositionInjective ==
    ASSUME InputInv, NEW a \in Rows, NEW b \in Rows, Position(a) = Position(b)
    PROVE  a = b
<1> USE BalancingAssumption
<1>1. \A j \in Rows : j \in Nat /\ seqlen_list[j] \in Nat
  BY DEF InputInv
<1>2. a = b \/ a \in Earlier(b) \/ b \in Earlier(a)
  BY <1>1 DEF Earlier
<1>3. Position(a) \in Int
  BY PositionBound
<1>4. a \notin Earlier(b) /\ b \notin Earlier(a)
  BY <1>3, PositionMonotone
<1> QED
  BY <1>2, <1>4

LEMMA FromZero ==
    ASSUME NEW n \in Nat
    PROVE  IsFiniteSet(0 .. n - 1) /\ Cardinality(0 .. n - 1) = n
<1> DEFINE k == n - 1
<1>1. k \in Int
  OBVIOUS
<1> HIDE DEF k
<1>2. IsFiniteSet(0 .. k) /\ Cardinality(0 .. k) = IF 0 > k THEN 0 ELSE k - 0 + 1
  BY <1>1, FS_Interval
<1>3. IsFiniteSet(0 .. k) /\ Cardinality(0 .. k) = IF 0 > k THEN 0 ELSE k + 1
  BY <1>1, <1>2
<1> QED
  BY <1>3 DEF k

\* sorted_seqlen_list has a row at every position.
LEMMA PositionOnto ==
    ASSUME InputInv, NEW m \in 0 .. Cardinality(Rows) - 1
    PROVE  \E r \in Rows : Position(r) = m
<1> USE BalancingAssumption
<1> DEFINE n == Cardinality(Rows)
           f == [r \in Rows |-> Position(r)]
<1>1. n \in Nat /\ Rows = 1 .. n /\ IsFiniteSet(Rows)
  BY RowsFinite
<1>3. \A r \in Rows : Position(r) \in 0 .. n - 1
  BY PositionBound
<1>4. \A a, b \in Rows : Position(a) = Position(b) => a = b
  BY PositionInjective
<1>5. f \in Injection(Rows, 0 .. n - 1)
  BY <1>3, <1>4 DEF Injection, IsInjective
<1>6. IsFiniteSet(0 .. n - 1) /\ Cardinality(0 .. n - 1) = n
  BY <1>1, FromZero
<1>7. f \in Surjection(Rows, 0 .. n - 1)
  BY <1>5, <1>6, FS_Injection
<1> QED
  BY <1>7 DEF Surjection

-----------------------------------------------------------------------------
\* The state of a single row is balanced: its one row is no longer than MaxLen.
LEMMA OneRowInv ==
    ASSUME InputInv, NEW i \in Rows
    PROVE  StateInv(OneRow(i))
<1> USE BalancingAssumption
<1>1. seqlen_list[i] \in 1 .. MaxLen
  BY DEF InputInv
<1>2. \A p \in Parts : OneRow(i)[p].sum = IF p = 1 THEN seqlen_list[i] ELSE 0
  BY DEF OneRow, Set
<1>3. \A p \in Parts : p \in Nat /\ p >= 1
  BY DEF Parts, InputInv
<1> QED
  BY <1>1, <1>2, <1>3 DEF StateInv, Ordered

\* So is that of consecutive rows of the sorted list, the longest first.
LEMMA ChunkInv ==
    ASSUME InputInv, NEW offset \in Nat, offset + k_partitions <= Cardinality(Rows)
    PROVE  StateInv(Chunk(offset))
<1> USE BalancingAssumption
<1> DEFINE At(p) == CHOOSE r \in Rows : Position(r) = offset + k_partitions - p
<1>1. ASSUME NEW p \in Parts
      PROVE  At(p) \in Rows /\ Position(At(p)) = offset + k_partitions - p
  <2>1. offset + k_partitions - p \in 0 .. Cardinality(Rows) - 1
    BY RowsFinite DEF Parts, InputInv
  <2>2. \E r \in Rows : Position(r) = offset + k_partitions - p
    BY <2>1, PositionOnto
  <2> QED
    BY <2>2
<1>2. \A p \in Parts : Chunk(offset)[p].sum = seqlen_list[At(p)]
  BY DEF Chunk, Set
<1>3. \A p \in Parts : seqlen_list[At(p)] \in 1 .. MaxLen
  BY <1>1 DEF InputInv
<1>4. ASSUME NEW p \in Parts, NEW q \in Parts, p <= q
      PROVE  seqlen_list[At(p)] >= seqlen_list[At(q)]
  <2>1. SUFFICES ASSUME seqlen_list[At(p)] < seqlen_list[At(q)] PROVE FALSE
    BY <1>3
  <2>2. At(p) \in Earlier(At(q))
    BY <1>1, <2>1 DEF Earlier
  <2>3. Position(At(p)) < Position(At(q))
    BY <1>1, <2>2, PositionMonotone
  <2>4. offset + k_partitions - p < offset + k_partitions - q
    BY <1>1, <2>3
  <2> QED
    BY <1>4, <2>4 DEF Parts, InputInv
<1> HIDE DEF At
<1> QED
  BY <1>2, <1>3, <1>4 DEF StateInv, Ordered

\* The sets that Merge adds up exist.
LEMMA MergedSets ==
    ASSUME InputInv, NEW p \in [Parts -> Parts], NEW i \in Parts
    PROVE  p[i] \in Parts /\ k_partitions + 1 - p[i] \in Parts
<1>1. p[i] \in Parts
  OBVIOUS
<1>2. \A q \in Parts : k_partitions + 1 - q \in Parts
  BY DEF Parts, InputInv
<1> QED
  BY <1>1, <1>2

\* Merging two balanced states gives a balanced state.  Of two sets of the
\* result, the one with the heavier part from x has the lighter one from y.
LEMMA MergeInv ==
    ASSUME InputInv, NEW x, NEW y, StateInv(x), StateInv(y),
           NEW p \in [Parts -> Parts], Decreasing(Merge(x, y, p))
    PROVE  StateInv(Merge(x, y, p))
<1> USE BalancingAssumption
<1> DEFINE z == Merge(x, y, p)
           Other(i) == k_partitions + 1 - p[i]
<1>1. \A i \in Parts : p[i] \in Parts /\ Other(i) \in Parts
  BY MergedSets
<1>2. \A i \in Parts : z[i].sum = x[p[i]].sum + y[Other(i)].sum
  BY DEF Merge, Add, Set
<1>3. \A i \in Parts : x[p[i]].sum \in Nat /\ y[Other(i)].sum \in Nat
  BY <1>1 DEF StateInv
<1>4. \A i \in Parts : z[i].sum \in Nat
  BY <1>2, <1>3
<1>5. Ordered(z)
  <2>1. DOMAIN z = Parts /\ Decreasing(z)
    BY DEF Merge
  <2> HIDE DEF z
  <2>2. \A i, j \in Parts : i < j => ~(z[i].sum < z[j].sum)
    BY <2>1 DEF Decreasing, Less
  <2>3. \A i \in Parts : i \in Int
    BY DEF Parts, InputInv
  <2> QED
    BY <1>4, <2>2, <2>3 DEF Ordered
<1>6. ASSUME NEW i \in Parts, NEW j \in Parts
      PROVE  z[i].sum - z[j].sum <= MaxLen
  <2>1. /\ p[i] \in Int /\ p[j] \in Int
        /\ p[i] <= p[j] => Other(j) <= Other(i)
        /\ p[j] <= p[i] => Other(i) <= Other(j)
    <3>1. p[i] \in Parts /\ p[j] \in Parts
      BY <1>1
    <3>2. k_partitions \in Int /\ \A q \in Parts : q \in Int
      BY DEF Parts, InputInv
    <3>3. p[i] \in Int /\ p[j] \in Int
      BY <3>1, <3>2
    <3> QED
      BY <3>2, <3>3
  <2>2. /\ x[p[i]].sum - x[p[j]].sum <= MaxLen
        /\ y[Other(i)].sum - y[Other(j)].sum <= MaxLen
    BY <1>1 DEF StateInv
  <2>3. CASE p[i] <= p[j]
    <3>1. y[Other(j)].sum >= y[Other(i)].sum
      BY <1>1, <2>1, <2>3 DEF StateInv, Ordered
    <3> QED
      BY <1>2, <1>3, <2>2, <3>1
  <2>4. CASE p[j] <= p[i]
    <3>1. x[p[j]].sum >= x[p[i]].sum
      BY <1>1, <2>4 DEF StateInv, Ordered
    <3> QED
      BY <1>2, <1>3, <2>2, <3>1
  <2> QED
    BY <2>1, <2>3, <2>4
<1> QED
  BY <1>4, <1>5, <1>6 DEF StateInv

-----------------------------------------------------------------------------
\* The chunks that FillHeap makes lie within the list.
LEMMA ChunkBound ==
    ASSUME InputInv, NEW c \in 0 .. (Cardinality(Rows) \div k_partitions) - 1
    PROVE  /\ c \in Nat /\ k_partitions * c \in Nat
           /\ k_partitions * c + k_partitions <= Cardinality(Rows)
<1> DEFINE d == Cardinality(Rows) \div k_partitions
<1>1. Cardinality(Rows) \in Nat /\ k_partitions \in Nat \ {0}
  BY RowsFinite DEF InputInv
<1>2. d \in Nat /\ k_partitions * d <= Cardinality(Rows)
  BY <1>1
<1>3. c \in Nat /\ c + 1 <= d
  BY <1>2
<1> HIDE DEF d
<1>4. k_partitions * c + k_partitions <= k_partitions * d /\ k_partitions * c \in Nat
  BY <1>1, <1>2, <1>3
<1> QED
  BY <1>1, <1>2, <1>3, <1>4

LEMMA BalanceInvInit == Init => BalanceInv
<1> SUFFICES ASSUME Init PROVE BalanceInv
  OBVIOUS
<1> USE BalancingAssumption
<1>1. PICK n \in 1 .. MaxRows : seqlen_list \in [1 .. n -> 1 .. MaxLen]
  BY DEF Init
<1>2. n \in Nat /\ Rows = 1 .. n
  BY <1>1 DEF Rows
<1>3. k_partitions \in Nat \ {0} /\ states_pq = {}
  BY DEF Init
<1> QED
  BY <1>1, <1>2, <1>3 DEF BalanceInv, WellBalanced

LEMMA BalanceInvNext == BalanceInv /\ [Next]_vars => BalanceInv'
<1> SUFFICES ASSUME BalanceInv, [Next]_vars PROVE BalanceInv'
  OBVIOUS
<1> USE BalancingAssumption
<1>1. InputInv /\ \A x \in states_pq : StateInv(x)
  BY BalanceInvParts
<1>2. UNCHANGED input
  BY DEF Next, vars, AssertFails, FillHeap, MergeFirstTwo, Return, Over
<1>3. UNCHANGED <<seqlen_list, k_partitions, Rows, Parts>>
  BY <1>2 DEF input, Rows, Parts
<1>4. SUFFICES \A x \in states_pq' : StateInv(x)
  BY <1>1, <1>3 DEF BalanceInv, WellBalanced, InputInv, StateInv, Ordered
<1>5. CASE UNCHANGED states_pq
  BY <1>1, <1>5
<1>6. CASE FillHeap
  <2>1. CASE equal_size
    <3>1. SUFFICES ASSUME NEW c \in 0 .. (Cardinality(Rows) \div k_partitions) - 1
                   PROVE  StateInv(Chunk(k_partitions * c))
      BY <1>6, <2>1 DEF FillHeap
    <3>2. k_partitions * c \in Nat /\ k_partitions * c + k_partitions <= Cardinality(Rows)
      BY <1>1, ChunkBound
    <3> QED
      BY <1>1, <3>2, ChunkInv
  <2>2. CASE ~equal_size
    BY <1>1, <1>6, <2>2, OneRowInv DEF FillHeap
  <2> QED
    BY <2>1, <2>2
<1>7. CASE MergeFirstTwo
  <2>1. PICK x \in states_pq, y \in states_pq, p \in [Parts -> Parts] :
          /\ Decreasing(Merge(x, y, p))
          /\ states_pq' = (states_pq \ {x, y}) \cup {Merge(x, y, p)}
    BY <1>7 DEF MergeFirstTwo
  <2>2. StateInv(Merge(x, y, p))
    BY <1>1, <2>1, MergeInv
  <2> QED
    BY <1>1, <2>1, <2>2
<1> QED
  BY <1>5, <1>6, <1>7 DEF Next, vars, AssertFails, Return, Over

\* However rows and numbers of parts are, karmarkar_karp never has a state in
\* which one set outweighs another by more than the longest row.
THEOREM AlwaysWellBalanced == Spec => []WellBalanced
<1>1. BalanceInv => WellBalanced
  BY DEF BalanceInv
<1> QED
  BY <1>1, BalanceInvInit, BalanceInvNext, PTL DEF Spec

-----------------------------------------------------------------------------
(***************************************************************************)
(* Each row is in exactly one part.                                        *)
(***************************************************************************)
LEMMA QuotientUnique ==
    ASSUME NEW k \in Nat \ {0}, NEW c \in Nat, NEW d \in Nat,
           NEW p \in 1 .. k, NEW q \in 1 .. k,
           k * c + k - p = k * d + k - q
    PROVE  c = d /\ p = q
<1>1. k * c \in Nat /\ k * d \in Nat
  OBVIOUS
<1>2. CASE c < d
  <2>1. k * c + k <= k * d
    BY <1>2
  <2> QED
    BY <1>1, <2>1
<1>3. CASE d < c
  <2>1. k * d + k <= k * c
    BY <1>3
  <2> QED
    BY <1>1, <2>1
<1>4. CASE c = d
  BY <1>1, <1>4
<1> QED
  BY <1>2, <1>3, <1>4

\* Position m of a list of n is that of the p-th set of a chunk of k.
InSomeChunk(k, n, m) ==
    \E c \in 0 .. (n \div k) - 1 : \E p \in 1 .. k : m = k * c + k - p

LEMMA QuotientExists ==
    ASSUME NEW k \in Nat \ {0}, NEW n \in Nat, n % k = 0, NEW m \in 0 .. n - 1
    PROVE  InSomeChunk(k, n, m)
<1> DEFINE c == m \div k
           r == m % k
           d == n \div k
<1>1. c \in Nat /\ r \in 0 .. k - 1 /\ m = k * c + r
  OBVIOUS
<1>2. d \in Nat /\ n = k * d
  OBVIOUS
<1> HIDE DEF c, r, d
<1>3. c < d
  <2>1. SUFFICES ASSUME c >= d PROVE FALSE
    BY <1>1, <1>2
  <2>2. k * c >= k * d /\ k * c \in Nat /\ k * d \in Nat
    BY <1>1, <1>2, <2>1
  <2> QED
    BY <1>1, <1>2, <2>2
<1>4. k - r \in 1 .. k /\ m = k * c + k - (k - r)
  BY <1>1
<1>5. c \in 0 .. d - 1
  BY <1>1, <1>2, <1>3
<1> QED
  BY <1>4, <1>5 DEF d, InSomeChunk

\* The items of the states that the heap is filled with.
LEMMA OneRowItems ==
    ASSUME NEW i, NEW p \in Parts
    PROVE  OneRow(i)[p].items = IF p = 1 THEN {i} ELSE {}
  BY DEF OneRow, Set

LEMMA ChunkItems ==
    ASSUME InputInv, NEW offset \in Nat, offset + k_partitions <= Cardinality(Rows),
           NEW p \in Parts
    PROVE  \E r \in Rows : /\ Position(r) = offset + k_partitions - p
                           /\ Chunk(offset)[p].items = {r}
<1> DEFINE At == CHOOSE r \in Rows : Position(r) = offset + k_partitions - p
<1>1. offset + k_partitions - p \in 0 .. Cardinality(Rows) - 1
  BY RowsFinite DEF Parts, InputInv
<1>2. \E r \in Rows : Position(r) = offset + k_partitions - p
  BY <1>1, PositionOnto
<1>3. At \in Rows /\ Position(At) = offset + k_partitions - p
  BY <1>2
<1>4. Chunk(offset)[p].items = {At}
  BY DEF Chunk, Set
<1> QED
  BY <1>3, <1>4

\* The heap is filled with a partition of the rows.
LEMMA FillHeapRows ==
    ASSUME InputInv, FillHeap
    PROVE  Disjoint(states_pq') /\ Covered(states_pq')
<1> DEFINE Cs == 0 .. (Cardinality(Rows) \div k_partitions) - 1
<1>1. CASE ~equal_size
  <2>1. states_pq' = {OneRow(i) : i \in Rows}
    BY <1>1 DEF FillHeap
  <2>2. ASSUME NEW i \in Rows, NEW j \in Rows, NEW p \in Parts, NEW q \in Parts,
               OneRow(i)[p].items \cap OneRow(j)[q].items # {}
        PROVE  i = j /\ p = q
    <3>1. /\ OneRow(i)[p].items = IF p = 1 THEN {i} ELSE {}
          /\ OneRow(j)[q].items = IF q = 1 THEN {j} ELSE {}
      BY OneRowItems
    <3> QED
      BY <2>2, <3>1
  <2>3. 1 \in Parts
    BY DEF Parts, InputInv
  <2>4. ASSUME NEW i \in Rows PROVE i \in OneRow(i)[1].items
    <3>1. OneRow(i)[1].items = IF 1 = 1 THEN {i} ELSE {}
      BY <2>3, OneRowItems
    <3> QED
      BY <3>1
  <2>5. Disjoint(states_pq')
    BY <2>1, <2>2 DEF Disjoint
  <2>6. Covered(states_pq')
    BY <2>1, <2>3, <2>4 DEF Covered
  <2> QED
    BY <2>5, <2>6
<1>2. CASE equal_size
  <2>1. states_pq' = {Chunk(k_partitions * c) : c \in Cs}
    BY <1>2 DEF FillHeap
  <2>2. ASSUME NEW c \in Cs, NEW p \in Parts
        PROVE  \E r \in Rows : /\ Position(r) = k_partitions * c + k_partitions - p
                               /\ Chunk(k_partitions * c)[p].items = {r}
    BY ChunkBound, ChunkItems
  <2>3. ASSUME NEW c \in Cs, NEW d \in Cs, NEW p \in Parts, NEW q \in Parts,
               Chunk(k_partitions * c)[p].items \cap Chunk(k_partitions * d)[q].items # {}
        PROVE  c = d /\ p = q
    <3>1. PICK r \in Rows : /\ Position(r) = k_partitions * c + k_partitions - p
                            /\ Chunk(k_partitions * c)[p].items = {r}
      BY <2>2
    <3>2. PICK t \in Rows : /\ Position(t) = k_partitions * d + k_partitions - q
                            /\ Chunk(k_partitions * d)[q].items = {t}
      BY <2>2
    <3>3. r = t
      BY <2>3, <3>1, <3>2
    <3>4. k_partitions * c + k_partitions - p = k_partitions * d + k_partitions - q
      BY <3>1, <3>2, <3>3
    <3>5. c \in Nat /\ d \in Nat /\ k_partitions \in Nat \ {0}
      BY ChunkBound DEF InputInv
    <3>6. p \in 1 .. k_partitions /\ q \in 1 .. k_partitions
      BY DEF Parts
    <3> QED
      BY <3>4, <3>5, <3>6, QuotientUnique
  <2>4. Disjoint(states_pq')
    BY <2>1, <2>3 DEF Disjoint
  <2>5. ASSUME NEW i \in Rows
        PROVE  \E c \in Cs : \E p \in Parts : i \in Chunk(k_partitions * c)[p].items
    <3>1. Position(i) \in 0 .. Cardinality(Rows) - 1
      BY PositionBound
    <3>2. /\ Cardinality(Rows) \in Nat /\ k_partitions \in Nat \ {0}
          /\ Cardinality(Rows) % k_partitions = 0
      BY <1>2, RowsFinite DEF InputInv, FillHeap, Callable
    <3>3. \E c \in Cs : \E p \in 1 .. k_partitions :
            Position(i) = k_partitions * c + k_partitions - p
      <4>1. InSomeChunk(k_partitions, Cardinality(Rows), Position(i))
        BY <3>1, <3>2, QuotientExists
      <4> QED
        BY <4>1 DEF InSomeChunk
    <3>4. PICK c \in Cs : \E p \in 1 .. k_partitions :
            Position(i) = k_partitions * c + k_partitions - p
      BY <3>3
    <3>5. PICK p \in Parts : Position(i) = k_partitions * c + k_partitions - p
      BY <3>4 DEF Parts
    <3>6. PICK r \in Rows : /\ Position(r) = k_partitions * c + k_partitions - p
                            /\ Chunk(k_partitions * c)[p].items = {r}
      BY <2>2
    <3>7. r = i
      BY <3>5, <3>6, PositionInjective
    <3> QED
      BY <3>6, <3>7
  <2>6. Covered(states_pq')
    BY <2>1, <2>5 DEF Covered
  <2> QED
    BY <2>4, <2>6
<1> QED
  BY <1>1, <1>2

\* The order that sort gives the merged sets is a permutation.
LEMMA PermutesOnto ==
    ASSUME InputInv, NEW p \in [Parts -> Parts], Permutes(p), NEW q \in Parts
    PROVE  \E i \in Parts : p[i] = q
<1>1. p \in Injection(Parts, Parts)
  BY DEF Permutes, Injection, IsInjective
<1>2. IsFiniteSet(Parts)
  BY FS_Interval DEF Parts, InputInv
<1>3. p \in Surjection(Parts, Parts)
  BY <1>1, <1>2, FS_Injection
<1> QED
  BY <1>3 DEF Surjection

\* Merging two states moves rows between sets and neither loses nor copies any.
LEMMA MergeRows ==
    ASSUME InputInv, NEW states, Disjoint(states),
           NEW x \in states, NEW y \in states, x # y,
           NEW p \in [Parts -> Parts], Permutes(p)
    PROVE  LET next == (states \ {x, y}) \cup {Merge(x, y, p)}
           IN  Disjoint(next) /\ (Covered(states) => Covered(next))
<1> DEFINE z == Merge(x, y, p)
           Other(i) == k_partitions + 1 - p[i]
           next == (states \ {x, y}) \cup {z}
<1>1. \A i \in Parts : p[i] \in Parts /\ Other(i) \in Parts
  BY MergedSets
<1>2. \A i \in Parts : z[i].items = x[p[i]].items \cup y[Other(i)].items
  BY DEF Merge, Add, Set
<1>3. \A i, j \in Parts : Other(i) = Other(j) => i = j
  <2>1. \A i, j \in Parts : p[i] = p[j] => i = j
    BY DEF Permutes
  <2>2. k_partitions \in Int /\ \A q \in Parts : q \in Int
    BY DEF Parts, InputInv
  <2>3. \A i, j \in Parts : Other(i) = Other(j) => p[i] = p[j]
    BY <1>1, <2>2
  <2> QED
    BY <2>1, <2>3
<1>4. \A q \in Parts : \E i \in Parts : Other(i) = q
  <2>1. SUFFICES ASSUME NEW q \in Parts PROVE \E i \in Parts : Other(i) = q
    OBVIOUS
  <2>2. k_partitions + 1 - q \in Parts /\ q \in Int /\ k_partitions \in Int
    BY DEF Parts, InputInv
  <2>3. PICK i \in Parts : p[i] = k_partitions + 1 - q
    BY <2>2, PermutesOnto
  <2> QED
    BY <2>2, <2>3
<1> HIDE DEF z, Other
<1>5. ASSUME NEW i \in Parts, NEW j \in Parts, z[i].items \cap z[j].items # {}
      PROVE  i = j
  <2>1. \/ x[p[i]].items \cap x[p[j]].items # {}
        \/ x[p[i]].items \cap y[Other(j)].items # {}
        \/ y[Other(i)].items \cap x[p[j]].items # {}
        \/ y[Other(i)].items \cap y[Other(j)].items # {}
    BY <1>2, <1>5
  <2>2. p[i] = p[j] \/ Other(i) = Other(j)
    BY <1>1, <2>1 DEF Disjoint
  <2> QED
    BY <1>3, <2>2 DEF Permutes
<1>6. ASSUME NEW w \in states \ {x, y}, NEW i \in Parts, NEW j \in Parts
      PROVE  w[i].items \cap z[j].items = {}
  <2>1. w[i].items \cap x[p[j]].items = {} /\ w[i].items \cap y[Other(j)].items = {}
    BY <1>1, <1>6 DEF Disjoint
  <2> QED
    BY <1>2, <2>1
<1>7. Disjoint(next)
  <2>1. SUFFICES ASSUME NEW v \in next, NEW w \in next, NEW i \in Parts, NEW j \in Parts,
                        v[i].items \cap w[j].items # {}
                 PROVE  v = w /\ i = j
    BY DEF Disjoint
  <2>2. CASE v = z /\ w = z
    BY <1>5, <2>1, <2>2
  <2>3. CASE v = z /\ w \in states \ {x, y}
    BY <1>6, <2>1, <2>3
  <2>4. CASE v \in states \ {x, y} /\ w = z
    BY <1>6, <2>1, <2>4
  <2>5. CASE v \in states \ {x, y} /\ w \in states \ {x, y}
    BY <2>1, <2>5 DEF Disjoint
  <2> QED
    BY <2>2, <2>3, <2>4, <2>5
<1>8. ASSUME Covered(states), NEW r \in Rows
      PROVE  \E w \in next : \E i \in Parts : r \in w[i].items
  <2>1. PICK w \in states, q \in Parts : r \in w[q].items
    BY <1>8 DEF Covered
  <2>2. CASE w \notin {x, y}
    BY <2>1, <2>2
  <2>3. CASE w = x
    <3>1. PICK i \in Parts : p[i] = q
      BY PermutesOnto
    <3> QED
      BY <1>2, <2>1, <2>3, <3>1
  <2>4. CASE w = y
    <3>1. PICK i \in Parts : Other(i) = q
      BY <1>4
    <3> QED
      BY <1>2, <2>1, <2>4, <3>1
  <2> QED
    BY <2>2, <2>3, <2>4
<1> QED
  BY <1>7, <1>8 DEF Covered, z

LEMMA RowsInvInit == Init => RowsInv
<1> SUFFICES ASSUME Init PROVE RowsInv
  OBVIOUS
<1>1. BalanceInv
  BY BalanceInvInit
<1>2. states_pq = {} /\ pc = "call"
  BY DEF Init
<1> QED
  BY <1>1, <1>2 DEF RowsInv, Disjoint, EachRowOnce

LEMMA RowsInvNext == RowsInv /\ [Next]_vars => RowsInv'
<1> SUFFICES ASSUME RowsInv, [Next]_vars PROVE RowsInv'
  OBVIOUS
<1>1. BalanceInv' /\ InputInv
  BY BalanceInvNext, BalanceInvParts DEF RowsInv
<1>2. UNCHANGED input
  BY DEF Next, vars, AssertFails, FillHeap, MergeFirstTwo, Return, Over
<1>3. UNCHANGED <<Rows, Parts>>
  BY <1>2 DEF input, Rows, Parts
<1>4. SUFFICES /\ Disjoint(states_pq')
               /\ pc' = "merge" => Covered(states_pq')
               /\ EachRowOnce'
  BY <1>1, <1>3 DEF RowsInv, Disjoint, Covered
<1>5. CASE AssertFails
  BY <1>5 DEF AssertFails, RowsInv, EachRowOnce
<1>6. CASE FillHeap
  <2>1. Disjoint(states_pq') /\ Covered(states_pq')
    BY <1>1, <1>6, FillHeapRows
  <2>2. EachRowOnce'
    BY <1>6 DEF FillHeap, EachRowOnce
  <2> QED
    BY <2>1, <2>2
<1>7. CASE MergeFirstTwo
  <2>1. PICK x \in states_pq, y \in states_pq, p \in [Parts -> Parts] :
          /\ x # y
          /\ Permutes(p)
          /\ states_pq' = (states_pq \ {x, y}) \cup {Merge(x, y, p)}
    BY <1>7 DEF MergeFirstTwo
  <2>2. Disjoint(states_pq) /\ Covered(states_pq)
    BY <1>7 DEF RowsInv, MergeFirstTwo
  <2>3. Disjoint(states_pq') /\ Covered(states_pq')
    BY <1>1, <2>1, <2>2, MergeRows
  <2>4. EachRowOnce'
    BY <1>7 DEF MergeFirstTwo, EachRowOnce
  <2> QED
    BY <2>3, <2>4
<1>8. CASE Return
  <2>1. PICK final_state \in states_pq :
          /\ states_pq = {final_state}
          /\ partitions' = [p \in Parts |-> final_state[p].items]
    BY <1>8 DEF Return
  <2>2. Disjoint(states_pq) /\ Covered(states_pq) /\ UNCHANGED states_pq /\ pc' # "merge"
    BY <1>8 DEF RowsInv, Return
  <2>3. ASSUME NEW i \in Rows
        PROVE  \E p \in Parts : /\ i \in partitions'[p]
                                /\ \A q \in Parts \ {p} : i \notin partitions'[q]
    <3>1. PICK p \in Parts : i \in final_state[p].items
      BY <2>1, <2>2 DEF Covered
    <3>2. \A q \in Parts \ {p} : i \notin final_state[q].items
      BY <2>2, <3>1 DEF Disjoint
    <3> QED
      BY <2>1, <3>1, <3>2
  <2>4. EachRowOnce'
    BY <1>3, <2>3 DEF EachRowOnce
  <2> QED
    BY <2>2, <2>4
<1>9. CASE UNCHANGED vars
  BY <1>3, <1>9 DEF vars, RowsInv, EachRowOnce
<1> QED
  BY <1>5, <1>6, <1>7, <1>8, <1>9 DEF Next, Over

\* Whatever the lengths, the number of parts and the order in which states with
\* equal spreads are popped, karmarkar_karp returns each row in exactly one part.
THEOREM RowsExactlyOnce == Spec => []EachRowOnce
<1>1. RowsInv => EachRowOnce
  BY DEF RowsInv
<1> QED
  BY <1>1, RowsInvInit, RowsInvNext, PTL DEF Spec
=============================================================================
