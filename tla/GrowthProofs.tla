---------------------------- MODULE GrowthProofs ----------------------------
(***************************************************************************)
(* A tree that grows leaf by leaf, for any depth and any leaves: the root  *)
(* the program keeps is that of the list of all leaves, and every leaf has *)
(* a path to it.                                                           *)
(*                                                                         *)
(* Neither is inductive without GrowthInv, which adds that the program     *)
(* remembers the siblings the next leaf needs, and so the next, to the     *)
(* capacity.                                                               *)
(***************************************************************************)
EXTENDS TreeGrowth, TreeProofs

GrowthInv ==
    /\ leaves \in Seq(Leaves) /\ Len(leaves) <= Capacity
    /\ FilledFor(filled, leaves)
    /\ root = TreeRoot(leaves)

\* An empty tree remembers the root of no leaves.
LEMMA InitGrowth == Init => GrowthInv
  <1> SUFFICES ASSUME Init PROVE GrowthInv
    OBVIOUS
  <1>1. leaves = <<>> /\ root = Zeros[Depth]
    BY DEF Init
  <1>2. leaves \in Seq(Leaves) /\ Len(leaves) <= Capacity
    BY <1>1, CapacityType
  <1>3. FilledFor(filled, leaves)
    BY <1>1, FilledForEmpty
  <1>4. root = TreeRoot(leaves)
    BY <1>1 DEF TreeRoot
  <1> QED BY <1>2, <1>3, <1>4 DEF GrowthInv

\* Each insertion keeps the invariant, as long as the tree is not full.
LEMMA NextGrowth == GrowthInv /\ [Next]_vars => GrowthInv'
  <1> SUFFICES ASSUME GrowthInv, [Next]_vars PROVE GrowthInv'
    OBVIOUS
  <1>1. CASE UNCHANGED vars
    BY <1>1 DEF GrowthInv, vars
  <1>2. ASSUME NEW leaf \in Leaves, Grow(leaf) PROVE GrowthInv'
    <2>1. leaves \in Seq(Leaves) /\ Len(leaves) < Capacity /\ FilledFor(filled, leaves)
      BY <1>2 DEF GrowthInv, Grow
    <2>2. leaves' = Append(leaves, leaf)
          /\ filled' = Insert(filled, Len(leaves), leaf).filled
          /\ root' = Insert(filled, Len(leaves), leaf).root
      BY <1>2 DEF Grow
    <2>3. leaves' \in Seq(Leaves) /\ Len(leaves') <= Capacity
      BY <2>1, <2>2, CapacityType
    <2>4. root' = TreeRoot(leaves')
      BY <2>1, <2>2, InsertFacts
    <2>5. FilledFor(filled', leaves')
      BY <2>1, <2>2, InsertFacts
    <2> QED BY <2>3, <2>4, <2>5 DEF GrowthInv
  <1> QED BY <1>1, <1>2 DEF Next

\* GrowthInv holds however far the tree has grown.
THEOREM GrowthInvAlways == Spec => []GrowthInv
  BY InitGrowth, NextGrowth, PTL DEF Spec

\* The root the program computes one leaf at a time, from one left sibling per
\* level, is the root the SDK computes from all the leaves.
THEOREM ProgramAgreesWithSdk == Spec => []IncrementalIsFull
  <1>1. GrowthInv => IncrementalIsFull
    BY DEF GrowthInv, IncrementalIsFull
  <1> QED BY <1>1, GrowthInvAlways, PTL

\* The path the SDK takes for any leaf of the tree leads the circuit to the root
\* the program has.
THEOREM CircuitAcceptsEveryLeaf == Spec => []EveryLeafProvable
  <1>1. ASSUME GrowthInv PROVE EveryLeafProvable
    <2>1. leaves \in Seq(Leaves) /\ Len(leaves) <= Capacity /\ root = TreeRoot(leaves)
      BY <1>1 DEF GrowthInv
    <2> QED BY <2>1, ListedIsProvable DEF Provable, EveryLeafProvable
  <1> QED BY <1>1, GrowthInvAlways, PTL
=============================================================================
