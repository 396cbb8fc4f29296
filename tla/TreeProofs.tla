----------------------------- MODULE TreeProofs -----------------------------
(***************************************************************************)
(* What the program, the SDK and the circuit compute of one list of leaves *)
(* agrees, for a tree of any depth.                                        *)
(*                                                                         *)
(* All three are compared with NodeAt, the node of a level at a position   *)
(* where everything to the right of the leaves is an empty subtree.  Every *)
(* node is the hash of the two below it (NodeAbove), so whoever climbs     *)
(* from a leaf and takes the right sibling at each level passes through    *)
(* nodes of the tree.  A leaf that is appended changes the nodes above it  *)
(* only: those on their left are complete and those on their right empty,  *)
(* which is why the program needs no more than filledSubtrees.             *)
(***************************************************************************)
EXTENDS MerkleTree, FiniteSetTheorems, SequenceTheorems, WellFoundedInduction, TLAPS

-----------------------------------------------------------------------------
(* Induction, and the functions defined by recursion on the level.         *)

\* A set of naturals that is not empty has a least element.
LEMMA Least ==
    ASSUME NEW T, T \subseteq Nat, T # {}
    PROVE  \E x \in T : \A y \in T : x <= y
  <1> DEFINE Below == {0..x : x \in T}
  <1>1. \A x \in Nat : 0..x \in FiniteSubsetsOf(Nat)
    BY FS_Interval DEF FiniteSubsetsOf
  <1>2. Below \subseteq FiniteSubsetsOf(Nat) /\ Below # {}
    BY <1>1
  <1>3. PICK A \in Below : \A B \in Below : ~ (<<B, A>> \in StrictSubsetOrdering(Nat))
    <2> HIDE DEF Below
    <2> QED BY <1>2, FS_StrictSubsetOrderingWellFounded, WFMin
  <1>4. PICK x \in T : A = 0..x
    OBVIOUS
  <1>5. ASSUME NEW y \in T, y < x PROVE FALSE
    <2>1. 0..y \in Below /\ 0..y \subseteq Nat /\ A \subseteq Nat
      BY <1>4
    <2>2. 0..y \subseteq A /\ 0..y # A
      <3>1. x \in A /\ x \notin 0..y
        BY <1>4, <1>5
      <3> QED BY <3>1, <1>4, <1>5
    <2> QED BY <1>3, <2>1, <2>2 DEF StrictSubsetOrdering
  <1> QED BY <1>5

\* What holds of 0, and of l + 1 when it holds of l, holds up to n.
LEMMA Upwards ==
    ASSUME NEW n \in Nat, NEW S, 0 \in S, \A l \in 0..(n-1) : l \in S => l + 1 \in S
    PROVE  \A l \in 0..n : l \in S
  <1> SUFFICES ASSUME ~ \A l \in 0..n : l \in S PROVE FALSE
    OBVIOUS
  <1> DEFINE T == {l \in 0..n : l \notin S}
  <1>1. PICK x \in T : \A y \in T : x <= y
    <2>1. T \subseteq Nat /\ T # {}
      OBVIOUS
    <2> HIDE DEF T
    <2> QED BY <2>1, Least
  <1>2. x - 1 \in 0..(n-1) /\ x - 1 \in S
    BY <1>1
  <1> QED BY <1>1, <1>2

\* The width of a subtree doubles with its height.
LEMMA WidthFacts ==
    /\ \A h \in 0..Depth : Width[h] \in Nat \ {0}
    /\ Width[0] = 1
    /\ \A h \in 0..(Depth - 1) : Width[h+1] = 2 * Width[h]
  <1> DEFINE Upto(k, f) == f = [h \in 0..k |-> IF h = 0 THEN 1 ELSE 2 * f[h-1]]
             S == {k \in 0..Depth : \E f : Upto(k, f)}
  <1>1. 0 \in S
    <2>1. Upto(0, [h \in 0..0 |-> 1])
      OBVIOUS
    <2> HIDE DEF Upto
    <2> QED BY <2>1, TreeAssumption
  <1>2. ASSUME NEW k \in 0..(Depth - 1), k \in S PROVE k + 1 \in S
    <2>1. PICK f : Upto(k, f)
      BY <1>2
    <2> DEFINE g == [h \in 0..(k+1) |-> IF h = k + 1 THEN 2 * f[k] ELSE f[h]]
    <2>2. \A h \in 0..(k+1) : g[h] = IF h = 0 THEN 1 ELSE 2 * g[h-1]
      BY <2>1
    <2>3. g = [h \in 0..(k+1) |-> g[h]]
      OBVIOUS
    <2>4. Upto(k+1, g)
      <3> HIDE DEF g
      <3> QED BY <2>2, <2>3
    <2> HIDE DEF Upto, g
    <2> QED BY <2>4, TreeAssumption
  <1>3. Depth \in S
    <2> HIDE DEF S
    <2> QED BY <1>1, <1>2, Upwards, TreeAssumption
  <1>4. PICK f : Upto(Depth, f)
    BY <1>3
  <1>5. Width = [h \in 0..Depth |-> IF h = 0 THEN 1 ELSE 2 * Width[h-1]]
    BY <1>4 DEF Width
  <1>6. Width[0] = 1 /\ \A h \in 0..(Depth - 1) : Width[h+1] = 2 * Width[h]
    <2>1. ASSUME NEW h \in 0..Depth PROVE Width[h] = IF h = 0 THEN 1 ELSE 2 * Width[h-1]
      BY <1>5, Zenon
    <2>2. \A h \in 0..(Depth - 1) : h + 1 \in 0..Depth /\ h + 1 # 0 /\ (h + 1) - 1 = h
      BY TreeAssumption
    <2> QED BY <2>1, <2>2, TreeAssumption
  <1>7. \A h \in 0..Depth : h \in {i \in 0..Depth : Width[i] \in Nat \ {0}}
    <2> DEFINE T == {i \in 0..Depth : Width[i] \in Nat \ {0}}
    <2>1. 0 \in T
      BY <1>6, TreeAssumption
    <2>2. \A h \in 0..(Depth - 1) : h \in T => h + 1 \in T
      BY <1>6, TreeAssumption
    <2> HIDE DEF T
    <2>3. \A h \in 0..Depth : h \in T
      BY <2>1, <2>2, Upwards, TreeAssumption
    <2> QED BY <2>3 DEF T
  <1> QED BY <1>6, <1>7

\* A tree holds a positive number of leaves.
LEMMA CapacityType == Capacity \in Nat \ {0}
  BY WidthFacts, TreeAssumption DEF Capacity

\* A subtree of empty subtrees is an empty subtree.
LEMMA ZerosFacts ==
    /\ Zeros[0] = ZeroLeaf
    /\ \A l \in Levels : Zeros[l+1] = Hash(Zeros[l], Zeros[l])
  <1> DEFINE Upto(k, f) == f = [l \in 0..k |-> IF l = 0 THEN ZeroLeaf ELSE Hash(f[l-1], f[l-1])]
             S == {k \in 0..Depth : \E f : Upto(k, f)}
  <1>1. 0 \in S
    <2>1. Upto(0, [l \in 0..0 |-> ZeroLeaf])
      OBVIOUS
    <2> HIDE DEF Upto
    <2> QED BY <2>1, TreeAssumption
  <1>2. ASSUME NEW k \in 0..(Depth - 1), k \in S PROVE k + 1 \in S
    <2>1. PICK f : Upto(k, f)
      BY <1>2
    <2> DEFINE g == [l \in 0..(k+1) |-> IF l = k + 1 THEN Hash(f[k], f[k]) ELSE f[l]]
    <2>2. \A l \in 0..(k+1) : g[l] = IF l = 0 THEN ZeroLeaf ELSE Hash(g[l-1], g[l-1])
      BY <2>1
    <2>3. g = [l \in 0..(k+1) |-> g[l]]
      OBVIOUS
    <2>4. Upto(k+1, g)
      <3> HIDE DEF g
      <3> QED BY <2>2, <2>3
    <2> HIDE DEF Upto, g
    <2> QED BY <2>4, TreeAssumption
  <1>3. Depth \in S
    <2> HIDE DEF S
    <2> QED BY <1>1, <1>2, Upwards, TreeAssumption
  <1>4. PICK f : Upto(Depth, f)
    BY <1>3
  <1>5. Zeros = [l \in 0..Depth |-> IF l = 0 THEN ZeroLeaf ELSE Hash(Zeros[l-1], Zeros[l-1])]
    BY <1>4 DEF Zeros
  <1>6. ASSUME NEW l \in 0..Depth
        PROVE  Zeros[l] = IF l = 0 THEN ZeroLeaf ELSE Hash(Zeros[l-1], Zeros[l-1])
    BY <1>5, Zenon
  <1>7. \A l \in Levels : l + 1 \in 0..Depth /\ l + 1 # 0 /\ (l + 1) - 1 = l
    BY TreeAssumption DEF Levels
  <1> QED BY <1>6, <1>7, TreeAssumption

\* The way up from a leaf halves its index, rounding down, at every level.
LEMMA AncestorsFacts ==
    ASSUME NEW index \in Nat
    PROVE  /\ \A l \in 0..Depth : Ancestors(index)[l] \in Nat
           /\ Ancestors(index)[0] = index
           /\ \A l \in Levels : Ancestors(index)[l+1] = Ancestors(index)[l] \div 2
  <1> DEFINE above[l \in 0..Depth] == IF l = 0 THEN index ELSE above[l-1] \div 2
             Upto(k, f) == f = [l \in 0..k |-> IF l = 0 THEN index ELSE f[l-1] \div 2]
             S == {k \in 0..Depth : \E f : Upto(k, f)}
  <1>1. 0 \in S
    <2>1. Upto(0, [l \in 0..0 |-> index])
      OBVIOUS
    <2> HIDE DEF Upto
    <2> QED BY <2>1, TreeAssumption
  <1>2. ASSUME NEW k \in 0..(Depth - 1), k \in S PROVE k + 1 \in S
    <2>1. PICK f : Upto(k, f)
      BY <1>2
    <2> DEFINE g == [l \in 0..(k+1) |-> IF l = k + 1 THEN f[k] \div 2 ELSE f[l]]
    <2>2. \A l \in 0..(k+1) : g[l] = IF l = 0 THEN index ELSE g[l-1] \div 2
      BY <2>1
    <2>3. g = [l \in 0..(k+1) |-> g[l]]
      OBVIOUS
    <2>4. Upto(k+1, g)
      <3> HIDE DEF g
      <3> QED BY <2>2, <2>3
    <2> HIDE DEF Upto, g
    <2> QED BY <2>4, TreeAssumption
  <1>3. Depth \in S
    <2> HIDE DEF S
    <2> QED BY <1>1, <1>2, Upwards, TreeAssumption
  <1>4. PICK f : Upto(Depth, f)
    BY <1>3
  <1>5. above = [l \in 0..Depth |-> IF l = 0 THEN index ELSE above[l-1] \div 2]
    BY <1>4 DEF above
  <1>6. Ancestors(index) = above
    BY DEF Ancestors
  <1> HIDE DEF above
  <1>7. above[0] = index /\ \A l \in Levels : above[l+1] = above[l] \div 2
    <2>1. ASSUME NEW l \in 0..Depth
          PROVE  above[l] = IF l = 0 THEN index ELSE above[l-1] \div 2
      BY <1>5, Zenon
    <2>2. \A l \in Levels : l + 1 \in 0..Depth /\ l + 1 # 0 /\ (l + 1) - 1 = l
      BY TreeAssumption DEF Levels
    <2> QED BY <2>1, <2>2, TreeAssumption
  <1>8. \A l \in 0..Depth : above[l] \in Nat
    <2> DEFINE T == {l \in 0..Depth : above[l] \in Nat}
    <2>1. 0 \in T
      BY <1>7, TreeAssumption
    <2>2. \A l \in 0..(Depth - 1) : l \in T => l + 1 \in T
      BY <1>7, TreeAssumption DEF Levels
    <2> HIDE DEF T
    <2>3. \A l \in 0..Depth : l \in T
      BY <2>1, <2>2, Upwards, TreeAssumption
    <2> QED BY <2>3 DEF T
  <1> QED BY <1>6, <1>7, <1>8

-----------------------------------------------------------------------------
(* The nodes of a tree.                                                    *)

\* The levels above a list of leaves are lists half as long, rounded up.
LEMMA LevelsFacts ==
    ASSUME NEW T, NEW leaves \in Seq(T)
    PROVE  /\ TreeLevels(leaves)[0] = leaves
           /\ \A l \in Levels : TreeLevels(leaves)[l+1] = LevelUp(TreeLevels(leaves)[l], Zeros[l])
           /\ \A l \in 0..Depth : Len(TreeLevels(leaves)[l]) \in Nat
           /\ \A l \in Levels :
                 Len(TreeLevels(leaves)[l+1]) = (Len(TreeLevels(leaves)[l]) + 1) \div 2
  <1> DEFINE level[l \in 0..Depth] ==
                 IF l = 0 THEN leaves ELSE LevelUp(level[l-1], Zeros[l-1])
             Upto(k, f) == f = [l \in 0..k |-> IF l = 0 THEN leaves
                                               ELSE LevelUp(f[l-1], Zeros[l-1])]
             S == {k \in 0..Depth : \E f : Upto(k, f)}
  <1>1. 0 \in S
    <2>1. Upto(0, [l \in 0..0 |-> leaves])
      OBVIOUS
    <2> HIDE DEF Upto
    <2> QED BY <2>1, TreeAssumption
  <1>2. ASSUME NEW k \in 0..(Depth - 1), k \in S PROVE k + 1 \in S
    <2>1. PICK f : Upto(k, f)
      BY <1>2
    <2> DEFINE g == [l \in 0..(k+1) |-> IF l = k + 1 THEN LevelUp(f[k], Zeros[k]) ELSE f[l]]
    <2>2. \A l \in 0..(k+1) : g[l] = IF l = 0 THEN leaves ELSE LevelUp(g[l-1], Zeros[l-1])
      BY <2>1
    <2>3. g = [l \in 0..(k+1) |-> g[l]]
      OBVIOUS
    <2>4. Upto(k+1, g)
      <3> HIDE DEF g
      <3> QED BY <2>2, <2>3
    <2> HIDE DEF Upto, g
    <2> QED BY <2>4, TreeAssumption
  <1>3. Depth \in S
    <2> HIDE DEF S
    <2>1. \A k \in 0..Depth : k \in S
      BY <1>1, <1>2, Upwards, TreeAssumption
    <2> QED BY <2>1, TreeAssumption
  <1>4. PICK f : Upto(Depth, f)
    BY <1>3
  <1>5. level = [l \in 0..Depth |-> IF l = 0 THEN leaves ELSE LevelUp(level[l-1], Zeros[l-1])]
    BY <1>4 DEF level
  <1>6. TreeLevels(leaves) = level
    BY DEF TreeLevels
  <1> HIDE DEF level
  <1>7. level[0] = leaves /\ \A l \in Levels : level[l+1] = LevelUp(level[l], Zeros[l])
    <2>1. ASSUME NEW l \in 0..Depth
          PROVE  level[l] = IF l = 0 THEN leaves ELSE LevelUp(level[l-1], Zeros[l-1])
      BY <1>5, Zenon
    <2>2. \A l \in Levels : l + 1 \in 0..Depth /\ l + 1 # 0 /\ (l + 1) - 1 = l
      BY TreeAssumption DEF Levels
    <2> QED BY <2>1, <2>2, TreeAssumption
  <1>8. ASSUME NEW l \in Levels, Len(level[l]) \in Nat
        PROVE  Len(level[l+1]) = (Len(level[l]) + 1) \div 2 /\ Len(level[l+1]) \in Nat
    <2>1. level[l+1] = LevelUp(level[l], Zeros[l])
      BY <1>7
    <2>2. PICK n \in Nat : n = Len(level[l])
      BY <1>8
    <2>3. DOMAIN level[l+1] = 1..((n + 1) \div 2)
      BY <2>1, <2>2 DEF LevelUp
    <2>4. (n + 1) \div 2 \in Nat
      OBVIOUS
    <2>5. Len(level[l+1]) = (n + 1) \div 2
      BY <2>3, <2>4
    <2> QED BY <2>2, <2>4, <2>5
  <1>9. \A l \in 0..Depth : Len(level[l]) \in Nat
    <2> DEFINE U == {l \in 0..Depth : Len(level[l]) \in Nat}
    <2>1. 0 \in U
      BY <1>7, TreeAssumption
    <2>2. \A l \in 0..(Depth - 1) : l \in U => l + 1 \in U
      BY <1>8, TreeAssumption DEF Levels
    <2> HIDE DEF U
    <2>3. \A l \in 0..Depth : l \in U
      BY <2>1, <2>2, Upwards, TreeAssumption
    <2> QED BY <2>3 DEF U
  <1>10. Levels \subseteq 0..Depth
    BY TreeAssumption DEF Levels
  <1> QED BY <1>6, <1>7, <1>8, <1>9, <1>10

\* The node of level l at position j, in the tree padded with empty subtrees.
NodeAt(leaves, l, j) ==
    LET nodes == TreeLevels(leaves)[l]
    IN  IF j < Len(nodes) THEN nodes[j + 1] ELSE Zeros[l]

\* The nodes of the lowest level are the leaves.
LEMMA NodeAtLeaf ==
    ASSUME NEW T, NEW leaves \in Seq(T), NEW j \in Nat
    PROVE  NodeAt(leaves, 0, j) = IF j < Len(leaves) THEN leaves[j + 1] ELSE ZeroLeaf
  BY LevelsFacts, ZerosFacts DEF NodeAt

\* A node above the leaves is the hash of the two nodes below it, present or empty.
LEMMA NodeAbove ==
    ASSUME NEW T, NEW leaves \in Seq(T), NEW l \in Levels, NEW j \in Nat
    PROVE  NodeAt(leaves, l + 1, j) = Hash(NodeAt(leaves, l, 2 * j), NodeAt(leaves, l, 2 * j + 1))
  <1> DEFINE nodes == TreeLevels(leaves)[l]
             above == TreeLevels(leaves)[l+1]
             zero  == Zeros[l]
  <1>1. Len(nodes) \in Nat
    BY LevelsFacts, TreeAssumption DEF Levels
  <1>2. above = LevelUp(nodes, zero) /\ Len(above) = (Len(nodes) + 1) \div 2
    BY LevelsFacts
  <1>3. Zeros[l+1] = Hash(zero, zero)
    BY ZerosFacts
  <1> HIDE DEF nodes, above, zero
  <1>4. CASE j < Len(above)
    <2>1. j + 1 \in 1..((Len(nodes) + 1) \div 2)
      BY <1>1, <1>2, <1>4
    <2>2. above[j+1] = Hash(nodes[2*(j+1) - 1], IF 2*(j+1) <= Len(nodes) THEN nodes[2*(j+1)] ELSE zero)
      BY <1>2, <2>1 DEF LevelUp
    <2>3. 2*(j+1) - 1 = 2*j + 1 /\ 2*(j+1) = (2*j + 1) + 1 /\ 2*j < Len(nodes)
      BY <1>1, <1>2, <1>4
    <2>4. (2*(j+1) <= Len(nodes)) <=> (2*j + 1 < Len(nodes))
      BY <1>1
    <2> QED BY <1>4, <2>2, <2>3, <2>4 DEF NodeAt, nodes, above, zero
  <1>5. CASE ~ (j < Len(above))
    <2>1. ~ (2*j < Len(nodes)) /\ ~ (2*j + 1 < Len(nodes))
      BY <1>1, <1>2, <1>5
    <2> QED BY <1>3, <1>5, <2>1 DEF NodeAt, nodes, above, zero
  <1> QED BY <1>4, <1>5

\* The root the SDK computes is the node at the top.
LEMMA RootIsNode ==
    ASSUME NEW T, NEW leaves \in Seq(T)
    PROVE  TreeRoot(leaves) = NodeAt(leaves, Depth, 0)
  <1> DEFINE Size(l) == Len(TreeLevels(leaves)[l])
             P == {l \in 0..Depth : (Size(l) = 0) <=> (leaves = <<>>)}
  <1>1. \A l \in 0..Depth : Size(l) \in Nat
    BY LevelsFacts
  <1>2. \A l \in Levels : Size(l + 1) = (Size(l) + 1) \div 2
    BY LevelsFacts
  <1>3. Size(0) = Len(leaves)
    BY LevelsFacts
  <1> HIDE DEF Size
  <1>4. 0 \in P
    BY <1>3, TreeAssumption
  <1>5. \A l \in 0..(Depth - 1) : l \in P => l + 1 \in P
    <2>1. \A n \in Nat : ((n + 1) \div 2 = 0) <=> (n = 0)
      OBVIOUS
    <2> QED BY <1>1, <1>2, <2>1, TreeAssumption DEF Levels
  <1>6. Depth \in P
    <2> HIDE DEF P
    <2>1. \A l \in 0..Depth : l \in P
      BY <1>4, <1>5, Upwards, TreeAssumption
    <2> QED BY <2>1, TreeAssumption
  <1>7. (0 < Size(Depth)) <=> (leaves # <<>>)
    BY <1>1, <1>6, TreeAssumption
  <1> QED BY <1>7 DEF TreeRoot, NodeAt, Size

-----------------------------------------------------------------------------
(* Climbing from a leaf to the root.                                       *)

\* From a leaf within the capacity, the way up ends at the root.
LEMMA TopOfTree ==
    ASSUME NEW index \in Nat, index < Capacity
    PROVE  Ancestors(index)[Depth] = 0
  <1> DEFINE A == Ancestors(index)
             P == {l \in 0..Depth : A[l] < Width[Depth - l]}
  <1>1. A[0] = index /\ (\A l \in 0..Depth : A[l] \in Nat)
        /\ \A l \in Levels : A[l+1] = A[l] \div 2
    BY AncestorsFacts
  <1> HIDE DEF A
  <1>2. 0 \in P
    BY <1>1, TreeAssumption DEF Capacity
  <1>3. ASSUME NEW l \in 0..(Depth - 1), l \in P PROVE l + 1 \in P
    <2>1. PICK h \in 0..(Depth - 1) : h = Depth - (l + 1) /\ h + 1 = Depth - l
      BY TreeAssumption
    <2>2. PICK w \in Nat : w = Width[h] /\ Width[h+1] = 2 * w
      BY WidthFacts, TreeAssumption
    <2>3. PICK i \in Nat : i = A[l] /\ A[l+1] = i \div 2
      BY <1>1, TreeAssumption DEF Levels
    <2>4. i < 2 * w
      BY <1>3, <2>1, <2>2, <2>3
    <2>5. i \div 2 < w
      BY <2>4
    <2> QED BY <2>1, <2>2, <2>3, <2>5, TreeAssumption
  <1>4. Depth \in P
    <2> HIDE DEF P
    <2>1. \A l \in 0..Depth : l \in P
      BY <1>2, <1>3, Upwards, TreeAssumption
    <2> QED BY <2>1, TreeAssumption
  <1>5. A[Depth] < Width[0] /\ A[Depth] \in Nat
    BY <1>1, <1>4, TreeAssumption
  <1> QED BY <1>5, WidthFacts DEF A

\* What append_*_commitment hashes at each level.
LEMMA InsertPathFacts ==
    ASSUME NEW filled, NEW index, NEW leaf
    PROVE  /\ InsertPath(filled, index, leaf)[0] = leaf
           /\ \A l \in Levels :
                 InsertPath(filled, index, leaf)[l+1] =
                    IF IsLeft(index, l) THEN Hash(InsertPath(filled, index, leaf)[l], Zeros[l])
                    ELSE Hash(filled[l], InsertPath(filled, index, leaf)[l])
  <1> DEFINE node[l \in 0..Depth] == IF l = 0 THEN leaf ELSE IF IsLeft(index, l-1) THEN Hash(node[l-1], Zeros[l-1]) ELSE Hash(filled[l-1], node[l-1])
             Upto(k, f) == f = [l \in 0..k |-> IF l = 0 THEN leaf
                                               ELSE IF IsLeft(index, l-1) THEN Hash(f[l-1], Zeros[l-1]) ELSE Hash(filled[l-1], f[l-1])]
             S == {k \in 0..Depth : \E f : Upto(k, f)}
  <1>1. 0 \in S
    <2>1. Upto(0, [l \in 0..0 |-> leaf])
      OBVIOUS
    <2> HIDE DEF Upto
    <2> QED BY <2>1, TreeAssumption
  <1>2. ASSUME NEW k \in 0..(Depth - 1), k \in S PROVE k + 1 \in S
    <2>1. PICK f : Upto(k, f)
      BY <1>2
    <2> DEFINE g == [l \in 0..(k+1) |-> IF l = k + 1 THEN IF IsLeft(index, k) THEN Hash(f[k], Zeros[k]) ELSE Hash(filled[k], f[k]) ELSE f[l]]
    <2>2. \A l \in 0..(k+1) : g[l] = IF l = 0 THEN leaf ELSE IF IsLeft(index, l-1) THEN Hash(g[l-1], Zeros[l-1]) ELSE Hash(filled[l-1], g[l-1])
      BY <2>1
    <2>3. g = [l \in 0..(k+1) |-> g[l]]
      OBVIOUS
    <2>4. Upto(k+1, g)
      <3> HIDE DEF g
      <3> QED BY <2>2, <2>3
    <2> HIDE DEF Upto, g
    <2> QED BY <2>4, TreeAssumption
  <1>3. Depth \in S
    <2> HIDE DEF S
    <2>1. \A k \in 0..Depth : k \in S
      BY <1>1, <1>2, Upwards, TreeAssumption
    <2> QED BY <2>1, TreeAssumption
  <1>4. PICK f : Upto(Depth, f)
    BY <1>3
  <1>5. node = [l \in 0..Depth |-> IF l = 0 THEN leaf ELSE IF IsLeft(index, l-1) THEN Hash(node[l-1], Zeros[l-1]) ELSE Hash(filled[l-1], node[l-1])]
    BY <1>4 DEF node
  <1>6. InsertPath(filled, index, leaf) = node
    BY DEF InsertPath
  <1> HIDE DEF node
  <1>7. node[0] = leaf
        /\ \A l \in Levels : node[l+1] = IF IsLeft(index, l) THEN Hash(node[l], Zeros[l])
                                         ELSE Hash(filled[l], node[l])
    <2>1. ASSUME NEW l \in 0..Depth
          PROVE  node[l] = IF l = 0 THEN leaf ELSE IF IsLeft(index, l-1) THEN Hash(node[l-1], Zeros[l-1]) ELSE Hash(filled[l-1], node[l-1])
      BY <1>5, Zenon
    <2>2. \A l \in Levels : l + 1 \in 0..Depth /\ l + 1 # 0 /\ (l + 1) - 1 = l
      BY TreeAssumption DEF Levels
    <2> QED BY <2>1, <2>2, TreeAssumption
  <1> QED BY <1>6, <1>7

\* What the circuit hashes at each level, for the siblings it is given.
LEMMA PathRootFacts ==
    ASSUME NEW leaf, NEW index, NEW elements
    PROVE  \E node : /\ node[0] = leaf
                     /\ \A l \in Levels :
                           node[l+1] = IF IsLeft(index, l) THEN Hash(node[l], elements[l])
                                       ELSE Hash(elements[l], node[l])
                     /\ PathRoot(leaf, index, elements) = node[Depth]
  <1> DEFINE node[l \in 0..Depth] == IF l = 0 THEN leaf ELSE IF IsLeft(index, l-1) THEN Hash(node[l-1], elements[l-1]) ELSE Hash(elements[l-1], node[l-1])
             Upto(k, f) == f = [l \in 0..k |-> IF l = 0 THEN leaf
                                               ELSE IF IsLeft(index, l-1) THEN Hash(f[l-1], elements[l-1]) ELSE Hash(elements[l-1], f[l-1])]
             S == {k \in 0..Depth : \E f : Upto(k, f)}
  <1>1. 0 \in S
    <2>1. Upto(0, [l \in 0..0 |-> leaf])
      OBVIOUS
    <2> HIDE DEF Upto
    <2> QED BY <2>1, TreeAssumption
  <1>2. ASSUME NEW k \in 0..(Depth - 1), k \in S PROVE k + 1 \in S
    <2>1. PICK f : Upto(k, f)
      BY <1>2
    <2> DEFINE g == [l \in 0..(k+1) |-> IF l = k + 1 THEN IF IsLeft(index, k) THEN Hash(f[k], elements[k]) ELSE Hash(elements[k], f[k]) ELSE f[l]]
    <2>2. \A l \in 0..(k+1) : g[l] = IF l = 0 THEN leaf ELSE IF IsLeft(index, l-1) THEN Hash(g[l-1], elements[l-1]) ELSE Hash(elements[l-1], g[l-1])
      BY <2>1
    <2>3. g = [l \in 0..(k+1) |-> g[l]]
      OBVIOUS
    <2>4. Upto(k+1, g)
      <3> HIDE DEF g
      <3> QED BY <2>2, <2>3
    <2> HIDE DEF Upto, g
    <2> QED BY <2>4, TreeAssumption
  <1>3. Depth \in S
    <2> HIDE DEF S
    <2>1. \A k \in 0..Depth : k \in S
      BY <1>1, <1>2, Upwards, TreeAssumption
    <2> QED BY <2>1, TreeAssumption
  <1>4. PICK f : Upto(Depth, f)
    BY <1>3
  <1>5. node = [l \in 0..Depth |-> IF l = 0 THEN leaf ELSE IF IsLeft(index, l-1) THEN Hash(node[l-1], elements[l-1]) ELSE Hash(elements[l-1], node[l-1])]
    BY <1>4 DEF node
  <1>6. PathRoot(leaf, index, elements) = node[Depth]
    BY DEF PathRoot
  <1> HIDE DEF node
  <1>7. node[0] = leaf
        /\ \A l \in Levels : node[l+1] = IF IsLeft(index, l) THEN Hash(node[l], elements[l])
                                         ELSE Hash(elements[l], node[l])
    <2>1. ASSUME NEW l \in 0..Depth
          PROVE  node[l] = IF l = 0 THEN leaf ELSE IF IsLeft(index, l-1) THEN Hash(node[l-1], elements[l-1]) ELSE Hash(elements[l-1], node[l-1])
      BY <1>5, Zenon
    <2>2. \A l \in Levels : l + 1 \in 0..Depth /\ l + 1 # 0 /\ (l + 1) - 1 = l
      BY TreeAssumption DEF Levels
    <2> QED BY <2>1, <2>2, TreeAssumption
  <1> QED BY <1>6, <1>7

\* Whichever child of its parent a node is, its sibling is the other one.
LEMMA Siblings ==
    ASSUME NEW index \in Nat, NEW l \in Levels
    PROVE  \E j \in Nat :
              /\ Ancestors(index)[l+1] = j
              /\ IsLeft(index, l) => /\ Ancestors(index)[l] = 2 * j
                                     /\ SiblingOf(Ancestors(index)[l]) = 2 * j + 1
              /\ ~ IsLeft(index, l) => /\ Ancestors(index)[l] = 2 * j + 1
                                       /\ SiblingOf(Ancestors(index)[l]) = 2 * j
  <1>1. PICK i \in Nat : i = Ancestors(index)[l] /\ Ancestors(index)[l+1] = i \div 2
    BY AncestorsFacts, TreeAssumption DEF Levels
  <1>2. i \div 2 \in Nat /\ (i % 2 = 0 => i = 2 * (i \div 2)) /\ (i % 2 # 0 => i = 2 * (i \div 2) + 1)
    OBVIOUS
  <1> QED BY <1>1, <1>2 DEF IsLeft, SiblingOf

\* With the siblings of getProof, the circuit passes through nodes of the tree and
\* arrives at the root of getRoot: every leaf the SDK lists can be proved.
THEOREM ListedIsProvable ==
    ASSUME NEW T, NEW leaves \in Seq(T), Len(leaves) <= Capacity,
           NEW index \in 0..(Len(leaves) - 1)
    PROVE  Provable(leaves, index)
  <1> DEFINE A == Ancestors(index)
             elements == PathElements(leaves, index)
  <1>1. Len(leaves) \in Nat /\ index \in Nat /\ index < Capacity
    BY CapacityType
  <1>2. PICK node : /\ node[0] = leaves[index + 1]
                    /\ \A l \in Levels :
                          node[l+1] = IF IsLeft(index, l) THEN Hash(node[l], elements[l])
                                      ELSE Hash(elements[l], node[l])
                    /\ PathRoot(leaves[index + 1], index, elements) = node[Depth]
    BY PathRootFacts
  <1>3. \A l \in Levels : elements[l] = NodeAt(leaves, l, SiblingOf(A[l]))
    BY DEF PathElements, NodeAt
  <1> HIDE DEF elements
  <1> DEFINE P == {l \in 0..Depth : node[l] = NodeAt(leaves, l, A[l])}
  <1>4. 0 \in P
    <2>1. A[0] = index
      BY <1>1, AncestorsFacts
    <2> QED BY <1>1, <1>2, <2>1, NodeAtLeaf, TreeAssumption
  <1>5. ASSUME NEW l \in 0..(Depth - 1), l \in P PROVE l + 1 \in P
    <2>1. l \in Levels /\ l + 1 \in 0..Depth
      BY TreeAssumption DEF Levels
    <2>2. PICK j \in Nat : /\ A[l+1] = j
                           /\ IsLeft(index, l) => A[l] = 2*j /\ SiblingOf(A[l]) = 2*j + 1
                           /\ ~ IsLeft(index, l) => A[l] = 2*j + 1 /\ SiblingOf(A[l]) = 2*j
      BY <1>1, <2>1, Siblings
    <2>3. NodeAt(leaves, l + 1, j) = Hash(NodeAt(leaves, l, 2*j), NodeAt(leaves, l, 2*j + 1))
      BY <2>1, NodeAbove
    <2>4. node[l] = NodeAt(leaves, l, A[l])
      BY <1>5
    <2>5. node[l+1] = NodeAt(leaves, l + 1, j)
      BY <1>2, <1>3, <2>1, <2>2, <2>3, <2>4
    <2> QED BY <2>1, <2>2, <2>5
  <1>6. Depth \in P
    <2> HIDE DEF P
    <2>1. \A l \in 0..Depth : l \in P
      BY <1>4, <1>5, Upwards, TreeAssumption
    <2> QED BY <2>1, TreeAssumption
  <1>7. node[Depth] = NodeAt(leaves, Depth, 0)
    BY <1>1, <1>6, TopOfTree
  <1> QED BY <1>2, <1>7, RootIsNode DEF Provable, elements

-----------------------------------------------------------------------------
(* Inserting one leaf.                                                     *)

\* The way up from the next leaf is at the same node or at the next.
LEMMA NextPath ==
    ASSUME NEW n \in Nat, NEW l \in 0..Depth
    PROVE  Ancestors(n + 1)[l] \in {Ancestors(n)[l], Ancestors(n)[l] + 1}
  <1> DEFINE A == Ancestors(n)
             B == Ancestors(n + 1)
             P == {k \in 0..Depth : B[k] \in {A[k], A[k] + 1}}
  <1>1. A[0] = n /\ (\A k \in 0..Depth : A[k] \in Nat) /\ \A k \in Levels : A[k+1] = A[k] \div 2
    BY AncestorsFacts
  <1>2. B[0] = n + 1 /\ (\A k \in 0..Depth : B[k] \in Nat) /\ \A k \in Levels : B[k+1] = B[k] \div 2
    BY AncestorsFacts
  <1> HIDE DEF A, B
  <1>3. 0 \in P
    BY <1>1, <1>2, TreeAssumption
  <1>4. ASSUME NEW k \in 0..(Depth - 1), k \in P PROVE k + 1 \in P
    <2>1. k \in Levels /\ k \in 0..Depth /\ k + 1 \in 0..Depth
      BY TreeAssumption DEF Levels
    <2>2. PICK i \in Nat, j \in Nat : i = A[k] /\ j = B[k]
      BY <1>1, <1>2, <2>1
    <2>3. j \in {i, i + 1}
      BY <1>4, <2>2
    <2>4. j \div 2 \in {i \div 2, (i \div 2) + 1}
      BY <2>3
    <2> QED BY <1>1, <1>2, <2>1, <2>2, <2>4
  <1>5. l \in P
    <2> HIDE DEF P
    <2> QED BY <1>3, <1>4, Upwards, TreeAssumption
  <1> QED BY <1>5 DEF A, B

\* Appending a leaf leaves the nodes on the left of its path as they are, since
\* they are complete, and those on the right of it empty.
LEMMA BesideThePath ==
    ASSUME NEW T, NEW leaves \in Seq(T), NEW leaf \in T, NEW l \in 0..Depth, NEW j \in Nat
    PROVE  LET grown == Append(leaves, leaf)
               n     == Ancestors(Len(leaves))[l]
           IN  /\ j < n => NodeAt(grown, l, j) = NodeAt(leaves, l, j)
               /\ j > n => NodeAt(grown, l, j) = Zeros[l]
  <1> DEFINE grown == Append(leaves, leaf)
             A == Ancestors(Len(leaves))
             Left(k)  == \A i \in Nat : i < A[k] => NodeAt(grown, k, i) = NodeAt(leaves, k, i)
             Right(k) == \A i \in Nat : i > A[k] => NodeAt(grown, k, i) = Zeros[k]
             P == {k \in 0..Depth : Left(k) /\ Right(k)}
  <1>1. grown \in Seq(T) /\ Len(grown) = Len(leaves) + 1 /\ Len(leaves) \in Nat
        /\ \A i \in 1..Len(leaves) : grown[i] = leaves[i]
    OBVIOUS
  <1>2. A[0] = Len(leaves) /\ (\A k \in 0..Depth : A[k] \in Nat)
        /\ \A k \in Levels : A[k+1] = A[k] \div 2
    BY <1>1, AncestorsFacts
  <1> HIDE DEF A, grown
  <1>3. 0 \in P
    <2>0. /\ \A i \in Nat : NodeAt(grown, 0, i) = IF i < Len(grown) THEN grown[i + 1] ELSE ZeroLeaf
          /\ \A i \in Nat : NodeAt(leaves, 0, i) = IF i < Len(leaves) THEN leaves[i + 1] ELSE ZeroLeaf
      BY <1>1, NodeAtLeaf
    <2>1. Left(0)
      BY <1>1, <1>2, <2>0
    <2>2. Right(0)
      BY <1>1, <1>2, <2>0, ZerosFacts
    <2> QED BY <2>1, <2>2, TreeAssumption
  <1>4. ASSUME NEW k \in 0..(Depth - 1), k \in P PROVE k + 1 \in P
    <2>1. k \in Levels /\ k \in 0..Depth /\ k + 1 \in 0..Depth
      BY TreeAssumption DEF Levels
    <2>2. PICK a \in Nat : a = A[k] /\ A[k+1] = a \div 2
      BY <1>2, <2>1
    <2>3. Left(k) /\ Right(k)
      BY <1>4
    <2>4. Left(k + 1)
      <3> SUFFICES ASSUME NEW i \in Nat, i < a \div 2
                   PROVE  NodeAt(grown, k + 1, i) = NodeAt(leaves, k + 1, i)
        BY <2>2
      <3>1. 2 * i \in Nat /\ 2 * i + 1 \in Nat /\ 2 * i < a /\ 2 * i + 1 < a
        OBVIOUS
      <3>2. NodeAt(grown, k, 2 * i) = NodeAt(leaves, k, 2 * i)
            /\ NodeAt(grown, k, 2 * i + 1) = NodeAt(leaves, k, 2 * i + 1)
        BY <2>2, <2>3, <3>1
      <3> QED BY <1>1, <2>1, <3>2, NodeAbove
    <2>5. Right(k + 1)
      <3> SUFFICES ASSUME NEW i \in Nat, i > a \div 2
                   PROVE  NodeAt(grown, k + 1, i) = Zeros[k + 1]
        BY <2>2
      <3>1. 2 * i \in Nat /\ 2 * i + 1 \in Nat /\ 2 * i > a /\ 2 * i + 1 > a
        OBVIOUS
      <3>2. NodeAt(grown, k, 2 * i) = Zeros[k] /\ NodeAt(grown, k, 2 * i + 1) = Zeros[k]
        BY <2>2, <2>3, <3>1
      <3> QED BY <1>1, <2>1, <3>2, NodeAbove, ZerosFacts
    <2> QED BY <2>1, <2>4, <2>5
  <1>5. l \in P
    <2> HIDE DEF P
    <2> QED BY <1>3, <1>4, Upwards, TreeAssumption
  <1> QED BY <1>5 DEF A, grown

\* filled_subtrees holds the left sibling at every level where the next leaf needs
\* one; what it holds at the other levels does not matter.
FilledFor(filled, leaves) ==
    \A l \in Levels :
        ~ IsLeft(Len(leaves), l)
        => filled[l] = NodeAt(leaves, l, Ancestors(Len(leaves))[l] - 1)

\* With such siblings, append_*_commitment passes through nodes of the new tree.
LEMMA InsertClimbs ==
    ASSUME NEW T, NEW leaves \in Seq(T), NEW leaf \in T, NEW filled,
           FilledFor(filled, leaves), NEW l \in 0..Depth
    PROVE  InsertPath(filled, Len(leaves), leaf)[l]
              = NodeAt(Append(leaves, leaf), l, Ancestors(Len(leaves))[l])
  <1> DEFINE grown == Append(leaves, leaf)
             n == Len(leaves)
             A == Ancestors(n)
             node == InsertPath(filled, n, leaf)
             P == {k \in 0..Depth : node[k] = NodeAt(grown, k, A[k])}
  <1>1. grown \in Seq(T) /\ Len(grown) = n + 1 /\ n \in Nat /\ grown[n + 1] = leaf
    OBVIOUS
  <1>2. node[0] = leaf /\ \A k \in Levels : node[k+1] = IF IsLeft(n, k) THEN Hash(node[k], Zeros[k])
                                                        ELSE Hash(filled[k], node[k])
    BY InsertPathFacts
  <1>3. A[0] = n
    BY <1>1, AncestorsFacts
  <1> HIDE DEF grown, node
  <1>4. 0 \in P
    BY <1>1, <1>2, <1>3, NodeAtLeaf, TreeAssumption
  <1>5. ASSUME NEW k \in 0..(Depth - 1), k \in P PROVE k + 1 \in P
    <2>1. k \in Levels /\ k \in 0..Depth /\ k + 1 \in 0..Depth
      BY TreeAssumption DEF Levels
    <2>2. PICK j \in Nat : /\ A[k+1] = j
                           /\ IsLeft(n, k) => A[k] = 2*j
                           /\ ~ IsLeft(n, k) => A[k] = 2*j + 1
      BY <1>1, <2>1, Siblings
    <2>3. NodeAt(grown, k + 1, j) = Hash(NodeAt(grown, k, 2*j), NodeAt(grown, k, 2*j + 1))
      BY <1>1, <2>1, NodeAbove
    <2>4. node[k] = NodeAt(grown, k, A[k])
      BY <1>5
    <2>5. CASE IsLeft(n, k)
      <3>1. NodeAt(grown, k, 2*j + 1) = Zeros[k]
        BY <2>1, <2>2, <2>5, BesideThePath DEF grown
      <3> QED BY <1>2, <2>1, <2>2, <2>3, <2>4, <2>5, <3>1
    <2>6. CASE ~ IsLeft(n, k)
      <3>1. NodeAt(grown, k, 2*j) = NodeAt(leaves, k, 2*j)
        BY <2>1, <2>2, <2>6, BesideThePath DEF grown
      <3>2. filled[k] = NodeAt(leaves, k, 2*j)
        <4>1. A[k] - 1 = 2*j
          BY <2>2, <2>6
        <4> QED BY <2>1, <2>6, <4>1 DEF FilledFor
      <3> QED BY <1>2, <2>1, <2>2, <2>3, <2>4, <2>6, <3>1, <3>2
    <2> QED BY <2>5, <2>6
  <1>6. l \in P
    <2> HIDE DEF P
    <2> QED BY <1>4, <1>5, Upwards, TreeAssumption
  <1> QED BY <1>6 DEF grown, node

\* The program computes the root the SDK computes of all the leaves, and keeps
\* what it needs for the next leaf.
LEMMA InsertFacts ==
    ASSUME NEW T, NEW leaves \in Seq(T), NEW leaf \in T, NEW filled,
           Len(leaves) < Capacity, FilledFor(filled, leaves)
    PROVE  /\ Insert(filled, Len(leaves), leaf).root = TreeRoot(Append(leaves, leaf))
           /\ FilledFor(Insert(filled, Len(leaves), leaf).filled, Append(leaves, leaf))
  <1> DEFINE grown == Append(leaves, leaf)
             n == Len(leaves)
             A == Ancestors(n)
             B == Ancestors(n + 1)
             node == InsertPath(filled, n, leaf)
  <1>1. grown \in Seq(T) /\ Len(grown) = n + 1 /\ n \in Nat
    OBVIOUS
  <1>2. \A l \in 0..Depth : node[l] = NodeAt(grown, l, A[l])
    BY InsertClimbs
  <1>3. Insert(filled, n, leaf).root = node[Depth]
        /\ \A l \in Levels : Insert(filled, n, leaf).filled[l]
                                = IF IsLeft(n, l) THEN node[l] ELSE filled[l]
    BY DEF Insert
  <1>4. A[Depth] = 0
    BY <1>1, TopOfTree
  <1> HIDE DEF node, grown
  <1>5. Insert(filled, n, leaf).root = TreeRoot(grown)
    BY <1>1, <1>2, <1>3, <1>4, RootIsNode, TreeAssumption
  <1>6. ASSUME NEW l \in Levels, ~ IsLeft(n + 1, l)
        PROVE  Insert(filled, n, leaf).filled[l] = NodeAt(grown, l, B[l] - 1)
    <2>1. l \in 0..Depth
      BY TreeAssumption DEF Levels
    <2>2. PICK i \in Nat, j \in Nat : i = A[l] /\ j = B[l] /\ j \in {i, i + 1} /\ j % 2 # 0
      <3>1. n \in Nat /\ n + 1 \in Nat
        BY <1>1
      <3>2. A[l] \in Nat /\ B[l] \in Nat
        BY <2>1, <3>1, AncestorsFacts
      <3>3. B[l] \in {A[l], A[l] + 1}
        BY <2>1, <3>1, NextPath
      <3>4. B[l] % 2 # 0
        BY <1>6 DEF IsLeft
      <3> QED BY <3>2, <3>3, <3>4
    <2>3. CASE j = i
      <3>1. ~ IsLeft(n, l) /\ i - 1 \in Nat
        BY <2>2, <2>3 DEF IsLeft
      <3>2. filled[l] = NodeAt(leaves, l, i - 1)
        BY <2>2, <3>1 DEF FilledFor
      <3>3. NodeAt(grown, l, i - 1) = NodeAt(leaves, l, i - 1)
        BY <2>1, <2>2, <3>1, BesideThePath DEF grown
      <3> QED BY <1>3, <2>2, <2>3, <3>1, <3>2, <3>3
    <2>4. CASE j = i + 1
      <3>1. IsLeft(n, l) /\ j - 1 = i
        <4>1. i % 2 \in {0, 1} /\ (i + 1) % 2 # 0 /\ j - 1 = i
          <5>1. i % 2 \in 0..1
            OBVIOUS
          <5> QED BY <2>2, <2>4, <5>1
        <4>2. i % 2 = 0
          <5>1. PICK q \in Nat : i = 2 * q \/ i = 2 * q + 1
            BY <4>1
          <5>2. CASE i = 2 * q + 1
            <6>1. i + 1 = 2 * (q + 1)
              BY <5>2
            <6> QED BY <4>1, <6>1
          <5> QED BY <5>1, <5>2
        <4> QED BY <2>2, <4>1, <4>2 DEF IsLeft
      <3> QED BY <1>2, <1>3, <2>1, <2>2, <3>1
    <2> QED BY <2>2, <2>3, <2>4
  <1>7. FilledFor(Insert(filled, n, leaf).filled, grown)
    BY <1>1, <1>6 DEF FilledFor
  <1> QED BY <1>5, <1>7 DEF grown

\* A new pool needs no siblings.
LEMMA FilledForEmpty ==
    ASSUME NEW filled
    PROVE  FilledFor(filled, <<>>)
  <1> DEFINE A == Ancestors(0)
             P == {k \in 0..Depth : A[k] = 0}
  <1>1. A[0] = 0 /\ \A k \in Levels : A[k+1] = A[k] \div 2
    BY AncestorsFacts
  <1> HIDE DEF A
  <1>2. 0 \in P
    BY <1>1, TreeAssumption
  <1>3. \A k \in 0..(Depth - 1) : k \in P => k + 1 \in P
    BY <1>1, TreeAssumption DEF Levels
  <1>4. \A k \in 0..Depth : k \in P
    <2> HIDE DEF P
    <2> QED BY <1>2, <1>3, Upwards, TreeAssumption
  <1>5. \A l \in Levels : IsLeft(0, l)
    BY <1>4, TreeAssumption DEF A, IsLeft, Levels
  <1>6. Len(<<>>) = 0
    OBVIOUS
  <1> QED BY <1>5, <1>6 DEF FilledFor

-----------------------------------------------------------------------------
(* A root stands for its leaves.                                           *)

\* Trees with the same root have the same nodes at every level.
LEMMA SameNodes ==
    ASSUME NEW T, NEW s \in Seq(T), NEW t \in Seq(T), TreeRoot(s) = TreeRoot(t),
           NEW j \in Nat, j < Capacity
    PROVE  NodeAt(s, 0, j) = NodeAt(t, 0, j)
  <1> DEFINE Same(l, w) == \A i \in Nat : i < w => NodeAt(s, l, i) = NodeAt(t, l, i)
             P == {h \in 0..Depth : Same(Depth - h, Width[h])}
  <1>1. 0 \in P
    <2>1. \A i \in Nat : i < 1 => i = 0
      OBVIOUS
    <2>2. Same(Depth, 1)
      BY <2>1, RootIsNode
    <2> QED BY <2>2, WidthFacts, TreeAssumption
  <1>2. ASSUME NEW h \in 0..(Depth - 1), h \in P PROVE h + 1 \in P
    <2>1. PICK l \in Levels : l = Depth - (h + 1) /\ l + 1 = Depth - h
      BY TreeAssumption DEF Levels
    <2>2. PICK w \in Nat : w = Width[h] /\ Width[h+1] = 2 * w
      BY WidthFacts, TreeAssumption
    <2>3. Same(l + 1, w)
      BY <1>2, <2>1, <2>2
    <2>4. ASSUME NEW i \in Nat, i < 2 * w PROVE NodeAt(s, l, i) = NodeAt(t, l, i)
      <3>1. PICK k \in Nat : k < w /\ i \in {2 * k, 2 * k + 1}
        <4>1. i \div 2 \in Nat /\ i \div 2 < w /\ i \in {2 * (i \div 2), 2 * (i \div 2) + 1}
          BY <2>4
        <4> QED BY <4>1
      <3>2. NodeAt(s, l + 1, k) = NodeAt(t, l + 1, k)
        BY <2>3, <3>1
      <3>3. Hash(NodeAt(s, l, 2*k), NodeAt(s, l, 2*k + 1))
              = Hash(NodeAt(t, l, 2*k), NodeAt(t, l, 2*k + 1))
        BY <3>1, <3>2, NodeAbove
      <3>4. NodeAt(s, l, 2*k) = NodeAt(t, l, 2*k) /\ NodeAt(s, l, 2*k + 1) = NodeAt(t, l, 2*k + 1)
        BY <3>3 DEF Hash
      <3> QED BY <3>1, <3>4
    <2>5. Same(l, Width[h+1])
      BY <2>2, <2>4
    <2> HIDE DEF Same
    <2> QED BY <2>1, <2>5, TreeAssumption
  <1>3. Depth \in P
    <2> HIDE DEF P
    <2>1. \A h \in 0..Depth : h \in P
      BY <1>1, <1>2, Upwards, TreeAssumption
    <2> QED BY <2>1, TreeAssumption
  <1>4. Same(0, Capacity)
    BY <1>3, TreeAssumption DEF Capacity
  <1> QED BY <1>4

\* Two lists of leaves with the same root are the same list: nothing was left out,
\* added or moved.  An empty leaf is no leaf that is deposited.  This is about the
\* lists that programs compute roots of; of who can prove a leaf against a root it
\* says nothing.
LEMMA RootsDiffer ==
    ASSUME NEW T, ZeroLeaf \notin T, NEW s \in Seq(T), NEW t \in Seq(T),
           Len(s) <= Capacity, Len(t) <= Capacity, TreeRoot(s) = TreeRoot(t)
    PROVE  s = t
  <1>1. Len(s) \in Nat /\ Len(t) \in Nat /\ Capacity \in Nat
    BY CapacityType
  <1>2. \A j \in Nat : j < Capacity =>
            (IF j < Len(s) THEN s[j + 1] ELSE ZeroLeaf) = (IF j < Len(t) THEN t[j + 1] ELSE ZeroLeaf)
    BY SameNodes, NodeAtLeaf
  <1>3. Len(s) = Len(t)
    <2>1. CASE Len(s) < Len(t)
      <3>1. t[Len(s) + 1] = ZeroLeaf /\ t[Len(s) + 1] \in T
        BY <1>1, <1>2, <2>1
      <3> QED BY <3>1
    <2>2. CASE Len(t) < Len(s)
      <3>1. s[Len(t) + 1] = ZeroLeaf /\ s[Len(t) + 1] \in T
        BY <1>1, <1>2, <2>2
      <3> QED BY <3>1
    <2> QED BY <1>1, <2>1, <2>2
  <1>4. ASSUME NEW i \in 1..Len(s) PROVE s[i] = t[i]
    <2>1. i - 1 \in Nat /\ i - 1 < Len(s) /\ (i - 1) + 1 = i
      BY <1>1
    <2> QED BY <1>1, <1>2, <1>3, <2>1
  <1> QED BY <1>3, <1>4, SeqEqual
=============================================================================
