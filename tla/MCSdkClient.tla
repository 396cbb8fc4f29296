---------------------------- MODULE MCSdkClient ----------------------------
(* Two processes on one pool, one call open in each. *)
EXTENDS SdkClient

CONSTANTS a, b, ka, kb, r1

MCClientOf == (ka :> a) @@ (kb :> b)
MCWays     == (a :> {"withdraw"}) @@ (b :> {"relay"})
MCOptions  == {[mint |-> TRUE, treasury |-> TRUE, bps |-> 500, treeDepth |-> 20]}
Limits(perHour, perDay) ==
    [maxPerTransaction |-> 100, requireOwnerApproval |-> 100, allowedPool |-> TRUE,
     maxPerHour |-> perHour, maxPerDay |-> perDay]
MCPolicy   == (a :> Limits(100, 200)) @@ (b :> Limits(200, 100))
\* Two deposits that raced for the first leaf.
MCBacklog == <<[by |-> a, index |-> 0], [by |-> a, index |-> 0]>>
MCQuotes   == {[feeBps |-> 500, minFee |-> 0]}
=============================================================================
