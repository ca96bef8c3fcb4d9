--------------------------- MODULE FirejailRadix -----------------------------
(***************************************************************************)
(* fnettrace/radix.c: the radix tree that names the owner of an address.   *)
(* The tree is filled from a list of prefixes, may be squashed, and is     *)
(* then asked for the longest prefix of an address.  A node is the         *)
(* sequence of the bits on its path from the head.                         *)
(***************************************************************************)
EXTENDS Integers, Sequences, FiniteSets, SequencesExt, FiniteSetsExt, Functions

CONSTANTS Width,     \* bits of an address, 32 in the code
          Owners,    \* the names
          MaxAdds    \* bound on the prefixes of a list

ASSUME RadixAssumption == Width \in Nat \ {0} /\ MaxAdds \in Nat

VARIABLES
  rPhase,   \* idle, add, squashed
  tree,     \* the nodes, with the name of each or Unnamed
  added     \* history: the prefixes added, in order

radixVars == <<rPhase, tree, added>>

Unnamed == "unnamed"
Bits(n) == [1 .. n -> {0, 1}]
Addresses == Bits(Width)
Networks == UNION {Bits(n) : n \in 0 .. Width}

RadixInit ==
  /\ rPhase = "idle"
  /\ tree = [p \in {<< >>} |-> Unnamed]
  /\ added = << >>

RadixBegin ==
  /\ rPhase = "idle"
  /\ rPhase' = "add"
  /\ UNCHANGED <<tree, added>>

\* addOne and addZero: the child, new unless it is there.
AddChild(t, p) == IF p \in DOMAIN t THEN t ELSE (p :> Unnamed) @@ t

radix_add(p, name) ==
  /\ rPhase = "add" /\ Len(added) < MaxAdds
  /\ LET path == [i \in 1 .. Len(p) |-> SubSeq(p, 1, i)] IN
       tree' = [FoldLeft(AddChild, tree, path) EXCEPT ![p] = IF @ = Unnamed THEN name ELSE @]
  /\ added' = Append(added, [prefix |-> p, name |-> name])
  /\ UNCHANGED rPhase

\* The last node with a name on the path of the address; the head is not asked.
radix_longest_prefix_match(a) ==
  LET hits == {n \in 1 .. Width : SubSeq(a, 1, n) \in DOMAIN tree /\ tree[SubSeq(a, 1, n)] # Unnamed} IN
    IF hits = {} THEN Unnamed ELSE tree[SubSeq(a, 1, Max(hits))]

Leaf(p) == p \o << 0 >> \notin DOMAIN tree /\ p \o << 1 >> \notin DOMAIN tree

\* squash, for one node: no name, and two leaves with the same name below.
Twins(p) ==
  LET zero == p \o << 0 >>
      one == p \o << 1 >> IN
    /\ p # << >> /\ tree[p] = Unnamed
    /\ zero \in DOMAIN tree /\ one \in DOMAIN tree
    /\ tree[zero] # Unnamed /\ tree[zero] = tree[one]
    /\ Leaf(zero) /\ Leaf(one)

\* The recursion goes down, so that a node is judged by its children as they
\* were before the call.
radix_squash ==
  /\ rPhase = "add"
  /\ LET merged == {p \in DOMAIN tree : Twins(p)}
         gone == {p \in DOMAIN tree : \E q \in merged : IsStrictPrefix(q, p)} IN
       tree' = [p \in DOMAIN tree \ gone |-> IF p \in merged THEN tree[p \o << 1 >>] ELSE tree[p]]
  /\ rPhase' = "squashed"
  /\ UNCHANGED added

RadixNext ==
  \/ RadixBegin \/ radix_squash
  \/ \E p \in Networks, name \in Owners : radix_add(p, name)

RadixSpec == RadixInit /\ [][RadixNext]_radixVars

-----------------------------------------------------------------------------

\* The answer for an address: the name that came first for the longest of the
\* listed prefixes of the address.
OwnerOf(a) ==
  LET hits == {i \in DOMAIN added : added[i].prefix # << >> /\ IsPrefix(added[i].prefix, a)}
      longest == {i \in hits : \A j \in hits : Len(added[j].prefix) <= Len(added[i].prefix)} IN
    IF hits = {} THEN Unnamed ELSE added[Min(longest)].name

\* radix_longest_prefix_match names the owner the list gives the address,
\* whatever the order of the list, and squashing the tree changes the answer for
\* no address (radix_add, radix_squash).
MatchIsLongest == rPhase # "idle" => \A a \in Addresses : radix_longest_prefix_match(a) = OwnerOf(a)
=============================================================================
