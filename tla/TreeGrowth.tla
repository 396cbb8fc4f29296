----------------------------- MODULE TreeGrowth -----------------------------
(***************************************************************************)
(* A tree that grows leaf by leaf from empty to full, over every sequence  *)
(* of leaves, duplicates included.                                         *)
(***************************************************************************)
EXTENDS MerkleTree

CONSTANT Leaves

VARIABLES
    leaves,     \* the leaves inserted so far
    filled,     \* the program's filled_subtrees
    root        \* the program's latest root

vars == <<leaves, filled, root>>

Init == leaves = <<>> /\ filled = EmptySubtrees /\ root = Zeros[Depth]

Grow(leaf) ==
    /\ Len(leaves) < Capacity
    /\ leaves' = Append(leaves, leaf)
    /\ LET tree == Insert(filled, Len(leaves), leaf)
       IN  filled' = tree.filled /\ root' = tree.root

Next == \E leaf \in Leaves : Grow(leaf)

Spec == Init /\ [][Next]_vars

\* The root the program has after inserting one leaf at a time is the root the
\* SDK computes from the list of all leaves.
IncrementalIsFull == root = TreeRoot(leaves)

\* For every leaf of every tree, the path the SDK hands to the circuit leads to
\* the root of the program: a deposited note can always be proved.
EveryLeafProvable ==
    \A i \in 0..(Len(leaves) - 1) :
        PathRoot(leaves[i + 1], i, PathElements(leaves, i)) = root
=============================================================================
