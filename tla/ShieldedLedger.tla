--------------------------- MODULE ShieldedLedger ---------------------------
(***************************************************************************)
(* What a pool promises its depositors, whatever trees, pages, roots and   *)
(* accounts it keeps inside: the notes it took in stay listed in the order *)
(* they came, each nullifier is spent at most once and only by a note that *)
(* was deposited, and the money of every deposit not yet withdrawn is in   *)
(* the vault.  That a note was deposited is promised of the proofs the SDK *)
(* makes; of a proof made otherwise, only that it pays once and that its   *)
(* payment shows in the vault.                                             *)
(***************************************************************************)
EXTENDS Naturals, Sequences

CONSTANTS
    Notes, NullifierOf, DepositAmount, Capacity,
    OtherNullifiers     \* nullifiers of proofs that were not made by the SDK

VARIABLES
    listed,     \* the notes deposited, in order
    spent,      \* the nullifiers withdrawn
    held        \* what the vault holds

vars == <<listed, spent, held>>

Init ==
    /\ listed \in UNION {[1..k -> Notes] : k \in 0..Capacity}
    /\ spent = {}
    /\ held = DepositAmount * Len(listed)

Deposit(n) ==
    /\ Len(listed) < Capacity
    /\ listed' = Append(listed, n)
    /\ held' = held + DepositAmount
    /\ UNCHANGED spent

Withdraw(n) ==
    /\ \E i \in 1..Len(listed) : listed[i] = n
    /\ NullifierOf[n] \notin spent
    /\ spent' = spent \cup {NullifierOf[n]}
    /\ held' = held - DepositAmount
    /\ UNCHANGED listed

WithdrawOtherwise(x) ==
    /\ x \notin spent
    /\ DepositAmount <= held
    /\ spent' = spent \cup {x}
    /\ held' = held - DepositAmount
    /\ UNCHANGED listed

Next ==
    \/ \E n \in Notes : Deposit(n) \/ Withdraw(n)
    \/ \E x \in OtherNullifiers : WithdrawOtherwise(x)

Spec == Init /\ [][Next]_vars
=============================================================================
