----------------------------- MODULE MCGateway -----------------------------
(* Two replicas, two addresses and three notes; a tick is half a window. *)
EXTENDS Gateway, TLC

MCPools ==
    {[depositAmount |-> 1000, protocolFeeBps |-> 55, assetType |-> "sol"],
     [depositAmount |-> 1000, protocolFeeBps |-> 55, assetType |-> "spl"]}

\* The fee of the first is its minimum for SOL and is rounded down for
\* tokens; the second's exceeds what the protocol fee leaves.
MCConfigs ==
    {[feeBps |-> 55,   minFeeLamports |-> 10],
     [feeBps |-> 9950, minFeeLamports |-> 10]}

MCSymmetry == Permutations(Replicas) \cup Permutations(IPs) \cup Permutations(Notes)
=============================================================================
