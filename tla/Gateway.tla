------------------------------ MODULE Gateway ------------------------------
(***************************************************************************)
(* The front of the relayer: what stands between a signed request and the  *)
(* row that Relayer follows.  Several replicas, each with a clock and a    *)
(* configuration of its own, share the request table: the sliding-window   *)
(* limits and the unique nullifier (rate-limiter.ts, store.ts              *)
(* reservePending), and the fee that getInfo quotes and relay() demands    *)
(* (service.ts, fee-calculator.ts).                                        *)
(*                                                                         *)
(* Everything up to the reservation runs without an await and is one       *)
(* step; the fee is looked at after the pool was fetched, when the row     *)
(* already stands.  A request may be delivered at any time after its fee   *)
(* was quoted, to any replica and more than once; the freshness that the   *)
(* envelope demands would only take behaviours away.  What becomes of an   *)
(* accepted row is the business of Relayer.                                *)
(***************************************************************************)
EXTENDS Integers, Sequences, FiniteSets, FiniteSetsExt

CONSTANTS
    Replicas, IPs, Notes,
    Pools,                    \* deposit amount, protocol fee and asset
    Configs,                  \* the fees a replica may be started with
    PerIpLimit, GlobalLimit,
    WindowMs,                 \* DEFAULT_WINDOW_MS
    MaxDrift,                 \* how far ahead a clock may run
    None,
    MaxRestarts, MaxTime      \* bounds of the model

ASSUME GatewayAssumption ==
    /\ PerIpLimit \in Nat /\ GlobalLimit \in Nat /\ WindowMs \in Nat
    /\ MaxDrift \in Nat
    /\ Pools \subseteq [depositAmount: Nat \ {0}, protocolFeeBps: Nat, assetType: {"sol", "spl"}]
    /\ Configs \subseteq [feeBps: Nat, minFeeLamports: Nat]
    /\ None \notin Configs /\ None \notin {"ip", "global"}

VARIABLES
    now, drift,      \* the time, and how far each replica's clock is ahead
    pool,            \* the pool the relayer serves
    config,          \* what each replica was started with
    restarts,
    quoted,          \* the configurations that clients were quoted fees of
    rows,            \* relay_requests, in the order of insertion
    checking         \* the handlers past their reservation: replica and row

vars == <<now, drift, pool, config, restarts, quoted, rows, checking>>

Clock(r) == now + drift[r]

-----------------------------------------------------------------------------
(* Fees.                                                                   *)

CalculateFee(amount, bps, minimum) == Max({(amount * bps) \div 10000, minimum})

\* Mutant of ExpectedFee: the minimum is demanded of every asset.
ExpectedFeeAnyAsset(c) == CalculateFee(pool.depositAmount, c.feeBps, c.minFeeLamports)

\* The fee that relay() demands and that getInfo breaks down.
ExpectedFee(c) ==
    CalculateFee(pool.depositAmount, c.feeBps,
                 IF pool.assetType = "sol" THEN c.minFeeLamports ELSE 0)

\* The fee a client computes from getInfo and signs.
SignedFee(c) ==
    CalculateFee(pool.depositAmount, c.feeBps,
                 IF pool.assetType = "sol" THEN c.minFeeLamports ELSE 0)

\* buildWithdrawalBreakdown does not throw.
Payable(fee) ==
    (pool.depositAmount * pool.protocolFeeBps) \div 10000 + fee < pool.depositAmount

-----------------------------------------------------------------------------
(* The limits, as one transaction reads them from the table.               *)

\* Mutant of Since: the clocks ahead are taken for garbage and left out.
SinceOwnClock(at) == {i \in DOMAIN rows : rows[i].at \in (at - WindowMs)..at}

Since(at)   == {i \in DOMAIN rows : rows[i].at >= at - WindowMs}
OfIp(ip, S) == {i \in S : rows[i].request.ip = ip}

\* A limit of zero still lets the first request of a window pass.
Reached(S, limit) == Cardinality(S) >= limit /\ S # {}

\* The limit that refuses a request of ip, with the rows it counted.
Refusal(ip, at) ==
    IF Reached(OfIp(ip, Since(at)), PerIpLimit)
    THEN [limit |-> "ip", counted |-> OfIp(ip, Since(at))]
    ELSE IF Reached(Since(at), GlobalLimit)
         THEN [limit |-> "global", counted |-> Since(at)]
         ELSE [limit |-> None, counted |-> {}]

\* Mutant of RetryAfter: the oldest row of all, not of the ones counted.
RetryAfterOldest(at, counted) ==
    Max({1, WindowMs - (at - Min({rows[i].at : i \in Since(at)}))})

RetryAfter(at, counted) ==
    Max({1, WindowMs - (at - Min({rows[i].at : i \in counted}))})

-----------------------------------------------------------------------------
Request == [note: Notes, ip: IPs, fee: Nat, quote: Configs \cup {None}]

Row == [request: Request, at: Nat, status: {"pending", "expired", "failed"}]

TypeOK ==
    /\ now \in Nat /\ drift \in [Replicas -> Nat] /\ pool \in Pools
    /\ config \in [Replicas -> Configs] /\ restarts \in Nat
    /\ quoted \subseteq Configs
    /\ rows \in Seq(Row)
    /\ checking \subseteq Replicas \X DOMAIN rows

Init ==
    /\ now = 0 /\ drift \in [Replicas -> 0..MaxDrift]
    /\ pool \in Pools /\ config \in [Replicas -> Configs] /\ restarts = 0
    /\ quoted = {} /\ rows = <<>> /\ checking = {}

\* getInfo, which throws when the fees exceed the deposit.
GetInfo(r) ==
    /\ Payable(ExpectedFee(config[r]))
    /\ quoted' = quoted \cup {config[r]}
    /\ UNCHANGED <<now, drift, pool, config, restarts, rows, checking>>

\* A client signs for a fee it was quoted, or for a fee of its own choice.
Requests ==
    {[note |-> n, ip |-> ip, fee |-> SignedFee(c), quote |-> IF c \in quoted THEN c ELSE None] :
        n \in Notes, ip \in IPs, c \in Configs}

\* Mutant of Accept: the handler goes on with the row before its own.
AcceptRowBefore(r, q) ==
    /\ Refusal(q.ip, Clock(r)).limit = None
    /\ \A i \in DOMAIN rows : rows[i].request.note # q.note
    /\ rows' = Append(rows, [request |-> q, at |-> Clock(r), status |-> "pending"])
    /\ checking' = checking \cup {<<r, Len(rows)>>}
    /\ UNCHANGED <<now, drift, pool, config, restarts, quoted>>

\* relay() up to its first await, when the reservation succeeds.  A request
\* that a limit refuses is answered 429 and one whose nullifier has a row
\* 409; neither leaves anything behind.
Accept(r, q) ==
    /\ Refusal(q.ip, Clock(r)).limit = None
    /\ \A i \in DOMAIN rows : rows[i].request.note # q.note
    /\ rows' = Append(rows, [request |-> q, at |-> Clock(r), status |-> "pending"])
    /\ checking' = checking \cup {<<r, Len(rows) + 1>>}
    /\ UNCHANGED <<now, drift, pool, config, restarts, quoted>>

\* The pool was fetched: the signed fee is the expected one and can be paid,
\* and the proof is verified next.
Pass(r, i) ==
    /\ <<r, i>> \in checking
    /\ rows[i].request.fee = ExpectedFee(config[r])
    /\ Payable(rows[i].request.fee)
    /\ checking' = checking \ {<<r, i>>}
    /\ UNCHANGED <<now, drift, pool, config, restarts, quoted, rows>>

\* Another fee is a 400 and ends the row for good; one that exceeds the
\* deposit is a 500.
Reject(r, i) ==
    /\ <<r, i>> \in checking
    /\ \/ /\ rows[i].request.fee # ExpectedFee(config[r])
          /\ rows' = [rows EXCEPT ![i].status = "expired"]
       \/ /\ rows[i].request.fee = ExpectedFee(config[r])
          /\ ~ Payable(rows[i].request.fee)
          /\ rows' = [rows EXCEPT ![i].status = "failed"]
    /\ checking' = checking \ {<<r, i>>}
    /\ UNCHANGED <<now, drift, pool, config, restarts, quoted>>

\* A replica stops, its handlers with it, and comes back with other fees and
\* the table it shares with the rest.
Restart(r, c) ==
    /\ restarts < MaxRestarts /\ restarts' = restarts + 1
    /\ config' = [config EXCEPT ![r] = c]
    /\ checking' = {h \in checking : h[1] # r}
    /\ UNCHANGED <<now, drift, pool, quoted, rows>>

Tick ==
    /\ now < MaxTime /\ now' = now + 1
    /\ UNCHANGED <<drift, pool, config, restarts, quoted, rows, checking>>

Next ==
    \/ \E r \in Replicas : GetInfo(r)
    \/ \E r \in Replicas, q \in Requests : Accept(r, q)
    \/ \E r \in Replicas, i \in DOMAIN rows : Pass(r, i) \/ Reject(r, i)
    \/ \E r \in Replicas, c \in Configs : Restart(r, c)
    \/ Tick

Spec == Init /\ [][Next]_vars

-----------------------------------------------------------------------------
Largest(limit) == Max({1, limit})

InWindow(t) == {i \in DOMAIN rows : rows[i].at \in t..(t + WindowMs)}

\* However the clocks of the replicas differ and however often they restart,
\* no window of WindowMs holds more accepted requests of one address, or of
\* all, than the limit allows.
WindowLimits ==
    \A i \in DOMAIN rows :
        LET W == InWindow(rows[i].at)
        IN  /\ Cardinality(W) <= Largest(GlobalLimit)
            /\ \A ip \in IPs : Cardinality(OfIp(ip, W)) <= Largest(PerIpLimit)

\* A client that waits longer than a 429 tells it is not refused by the same
\* limit, unless a request was accepted meanwhile or some clock ran ahead of
\* the one it was refused by.
WaitedIsServed ==
    \A r \in Replicas, ip \in IPs :
        LET at      == Clock(r)
            refusal == Refusal(ip, at)
            told    == at + RetryAfter(at, refusal.counted)
        IN  /\ refusal.limit # None
            /\ \A i \in DOMAIN rows : rows[i].at <= at
            => \A later \in (told + 1)..(told + WindowMs) :
                  Refusal(ip, later).limit # refusal.limit

\* A request for a fee that a replica quoted is refused for its fee only by
\* a replica that was started with other fees.
QuotedIsAccepted ==
    [][\A i \in DOMAIN rows :
        rows[i].request.quote # None /\ rows'[i].status # rows[i].status
        => \E r \in Replicas : <<r, i>> \in checking /\ config[r] # rows[i].request.quote]_vars
=============================================================================
