--------------------------- MODULE JournalPromise ---------------------------
(***************************************************************************)
(* What a journal of notes promises to whoever must get the money of a     *)
(* script back, whatever the script was doing when it stopped: a note that *)
(* is on file stays on file while its run is the last one, a note that is  *)
(* marked withdrawn was withdrawn, and a mark is never taken back.         *)
(***************************************************************************)
EXTENDS Naturals

CONSTANT Notes

VARIABLES
    pool,       \* the notes deposited
    spent,      \* those of them withdrawn
    filed,      \* the notes on file
    marked,     \* those of them marked withdrawn
    old         \* the notes of earlier runs

vars == <<pool, spent, filed, marked, old>>

Init == pool = {} /\ spent = {} /\ filed = {} /\ marked = {} /\ old = {}

\* A run begins; what there is then is of earlier runs.
Begin ==
    /\ old' \in SUBSET Notes /\ pool \cup filed \cup old \subseteq old'
    /\ UNCHANGED <<pool, spent, filed, marked>>

Deposit(n) ==
    /\ n \notin pool /\ pool' = pool \cup {n}
    /\ UNCHANGED <<spent, filed, marked, old>>

Withdraw(n) ==
    /\ n \in pool \ spent /\ spent' = spent \cup {n}
    /\ UNCHANGED <<pool, filed, marked, old>>

\* The file is written: only notes of earlier runs may leave it.
Write ==
    /\ filed' \in SUBSET Notes /\ filed \ filed' \subseteq old
    /\ marked' \subseteq filed' \cap spent /\ marked \cap filed' \subseteq marked'
    /\ UNCHANGED <<pool, spent, old>>

Next == Begin \/ Write \/ \E n \in Notes : Deposit(n) \/ Withdraw(n)

Spec == Init /\ [][Next]_vars
=============================================================================
