----------------------------- MODULE MCRelayer -----------------------------
(* Instances of Relayer for TLC.                                           *)
EXTENDS Relayer, TLC

CONSTANTS r1, r2, n1, n2

OneNote  == [r \in Requests |-> n1]                       \* both spend one note
SameNote == Permutations({r1, r2})   \* of OneNote

TwoNotes == [r \in Requests |-> IF r = r1 THEN n1 ELSE n2]
=============================================================================
