----------------------------- MODULE MerkleTree -----------------------------
(***************************************************************************)
(* The Merkle tree of commitments, which three programs compute in three   *)
(* ways: the on-chain program inserts one leaf at a time and keeps only    *)
(* the left siblings still open (lib.rs), the SDK recomputes every level   *)
(* from the list of leaves and takes inclusion paths from it (merkle.ts),  *)
(* and the circuit climbs such a path (withdraw.circom).                   *)
(*                                                                         *)
(* Poseidon is symbolic: the hash of two nodes is the pair of them, so two *)
(* hashes are equal only if what was hashed is.  Leaves and levels are     *)
(* numbered from 0, sequences from 1.                                      *)
(***************************************************************************)
EXTENDS Integers, Sequences

CONSTANTS
    Depth,      \* levels of the tree
    ZeroLeaf    \* 32 zero bytes: an empty leaf, and an empty entry of roots

ASSUME TreeAssumption == Depth \in Nat \ {0}

Levels == 0..(Depth - 1)

\* The leaves below a node of each height.
Width[h \in 0..Depth] == IF h = 0 THEN 1 ELSE 2 * Width[h-1]
Capacity == Width[Depth]

Hash(left, right) == <<left, right>>

\* The root of an empty subtree of each height.
Zeros[l \in 0..Depth] == IF l = 0 THEN ZeroLeaf ELSE Hash(Zeros[l-1], Zeros[l-1])

\* The position in each level of the node above leaf number `index'.
Ancestors(index) ==
    LET above[l \in 0..Depth] == IF l = 0 THEN index ELSE above[l-1] \div 2
    IN  above

IsLeft(index, l) == Ancestors(index)[l] % 2 = 0
SiblingOf(index) == IF index % 2 = 0 THEN index + 1 ELSE index - 1

-----------------------------------------------------------------------------
(* The program: filled[l] is the last left node of level l.                *)

EmptySubtrees == [l \in Levels |-> Zeros[l]]

\* The node of each level on the way from leaf number `index' to the root.
InsertPath(filled, index, leaf) ==
    LET node[l \in 0..Depth] ==
            IF l = 0 THEN leaf
            ELSE IF IsLeft(index, l-1) THEN Hash(node[l-1], Zeros[l-1])
                 ELSE Hash(filled[l-1], node[l-1])
    IN  node

Insert(filled, index, leaf) ==
    LET node == InsertPath(filled, index, leaf)
    IN  [filled |-> [l \in Levels |-> IF IsLeft(index, l) THEN node[l] ELSE filled[l]],
         root   |-> node[Depth]]

-----------------------------------------------------------------------------
(* The SDK: levels as sequences, padded on the right with empty subtrees.  *)

LevelUp(nodes, zero) ==
    [i \in 1..((Len(nodes) + 1) \div 2) |->
        Hash(nodes[2*i - 1], IF 2*i <= Len(nodes) THEN nodes[2*i] ELSE zero)]

TreeLevels(leaves) ==
    LET level[l \in 0..Depth] ==
            IF l = 0 THEN leaves ELSE LevelUp(level[l-1], Zeros[l-1])
    IN  level

TreeRoot(leaves) == IF leaves = <<>> THEN Zeros[Depth] ELSE TreeLevels(leaves)[Depth][1]

\* Mutant of PathElements: the sibling of a level is taken at the leaf's index.
PathElementsUnshifted(leaves, index) ==
    LET level == TreeLevels(leaves)
    IN  [l \in Levels |->
            LET sibling == SiblingOf(index)
            IN  IF sibling < Len(level[l]) THEN level[l][sibling + 1] ELSE Zeros[l]]

PathElements(leaves, index) ==
    LET level == TreeLevels(leaves)
    IN  [l \in Levels |->
            LET sibling == SiblingOf(Ancestors(index)[l])
            IN  IF sibling < Len(level[l]) THEN level[l][sibling + 1] ELSE Zeros[l]]

-----------------------------------------------------------------------------
(* The circuit, for path indices that are the bits of a leaf's index, as   *)
(* getProof supplies them.  The circuit does not require them to be bits:  *)
(* for others it computes something else, which is not modelled.           *)

PathRoot(leaf, index, elements) ==
    LET node[l \in 0..Depth] ==
            IF l = 0 THEN leaf
            ELSE IF IsLeft(index, l-1) THEN Hash(node[l-1], elements[l-1])
                 ELSE Hash(elements[l-1], node[l-1])
    IN  node[Depth]

\* The witness the SDK computes for a leaf satisfies the circuit.
Provable(leaves, index) ==
    PathRoot(leaves[index + 1], index, PathElements(leaves, index)) = TreeRoot(leaves)
=============================================================================
