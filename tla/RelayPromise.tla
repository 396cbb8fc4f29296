---------------------------- MODULE RelayPromise ----------------------------
(***************************************************************************)
(* What the relayer promises those who post requests to it, whatever its   *)
(* service, its retry manager, its database and the cluster do inside: it  *)
(* takes up one request per note, every request is answered at most once,  *)
(* and success is reported only for a note that is spent on chain.         *)
(***************************************************************************)

CONSTANTS Requests, Nullifiers, NullifierOf

VARIABLES
    accepted,   \* requests the relayer has taken up
    spent,      \* nullifiers spent on chain
    answer      \* the answer to each request, "none" until there is one

vars == <<accepted, spent, answer>>

OnePerNote(R) == \A q, r \in R : NullifierOf[q] = NullifierOf[r] => q = r

\* Requests taken up by an earlier process have lost their client.
Init ==
    /\ accepted \in {R \in SUBSET Requests : OnePerNote(R)}
    /\ spent = {}
    /\ answer = [r \in Requests |-> IF r \in accepted THEN "dropped" ELSE "none"]

Accept(r) ==
    /\ answer[r] = "none"
    /\ r \notin accepted
    /\ \A q \in accepted : NullifierOf[q] # NullifierOf[r]
    /\ accepted' = accepted \cup {r}
    /\ UNCHANGED <<spent, answer>>

Spend(n) ==
    /\ n \notin spent
    /\ spent' = spent \cup {n}
    /\ UNCHANGED <<accepted, answer>>

Answer(r) ==
    /\ answer[r] = "none"
    /\ \/ \E a \in {"ok", "error"} :
             r \in accepted /\ answer' = [answer EXCEPT ![r] = a]
       \/ answer' = [answer EXCEPT ![r] = "rejected"]
    /\ answer'[r] = "ok" => NullifierOf[r] \in spent
    /\ UNCHANGED <<accepted, spent>>

\* The relayer dies: every request it has taken up loses its answer.
Drop ==
    /\ answer' = [r \in Requests |-> IF r \in accepted /\ answer[r] = "none"
                                     THEN "dropped" ELSE answer[r]]
    /\ UNCHANGED <<accepted, spent>>

Next ==
    \/ \E r \in Requests : Accept(r) \/ Answer(r)
    \/ \E n \in Nullifiers : Spend(n)
    \/ Drop

Spec == Init /\ [][Next]_vars
=============================================================================
