------------------------------- MODULE MCPool -------------------------------
(***************************************************************************)
(* Three notes, one of which has the nullifier zero.                       *)
(***************************************************************************)
EXTENDS Pool, TLC

CONSTANTS n1, n2, n3, hash1, hash2, alice, bob, input1, input2,
          treasury1, treasury2

ThreeNotes == (n1 :> hash1) @@ (n2 :> hash2) @@ (n3 :> ZeroNullifier)

TwoInputs == (alice :> input1) @@ (bob :> input2)

\* The other two notes, with their nullifiers, are alike, and so are the
\* recipients and the treasuries.
Symmetry ==
    {(n1 :> n2) @@ (n2 :> n1) @@ (hash1 :> hash2) @@ (hash2 :> hash1)}
    \cup {(alice :> bob) @@ (bob :> alice) @@ (input1 :> input2) @@ (input2 :> input1)}
    \cup Permutations({treasury1, treasury2})
=============================================================================
