--------------------------- MODULE GatewayProofs ---------------------------
(***************************************************************************)
(* The limits of the relayer's front hold for any number of replicas,      *)
(* addresses and requests, for clocks that differ by any amount, and for   *)
(* limits and windows of any size; a 429 tells a client long enough to     *)
(* wait; and a quoted fee is refused only after a change of fees.          *)
(*                                                                         *)
(* WindowLimits is inductive with TypeOK: the row inserted last in a window *)
(* counted every other row of it, since a row counts all that are younger  *)
(* than one window before itself, those of clocks ahead included.          *)
(***************************************************************************)
EXTENDS Gateway, FiniteSetTheorems, TLAPS

-----------------------------------------------------------------------------
(* Least numbers, sets of rows and fees.                                   *)

\* A set of natural numbers that is not empty has a least element.
LEMMA Least ==
    ASSUME NEW T, T \subseteq Nat, T # {}
    PROVE  \E x \in T : \A y \in T : x <= y
  <1> DEFINE Below == {0..x : x \in T}
  <1>1. \A x \in Nat : 0..x \in FiniteSubsetsOf(Nat)
    BY FS_Interval DEF FiniteSubsetsOf
  <1>2. Below \subseteq FiniteSubsetsOf(Nat) /\ Below # {}
    BY <1>1
  <1>3. PICK A \in Below : \A B \in Below : ~ (<<B, A>> \in StrictSubsetOrdering(Nat))
    <2> HIDE DEF Below
    <2> QED BY <1>2, FS_StrictSubsetOrderingWellFounded, WFMin
  <1>4. PICK x \in T : A = 0..x
    OBVIOUS
  <1>5. ASSUME NEW y \in T, y < x PROVE FALSE
    <2>1. 0..y \in Below /\ 0..y \subseteq Nat /\ A \subseteq Nat
      BY <1>4
    <2>2. 0..y \subseteq A /\ 0..y # A
      <3>1. x \in A /\ x \notin 0..y
        BY <1>4, <1>5
      <3> QED BY <3>1, <1>4, <1>5
    <2> QED BY <1>3, <2>1, <2>2 DEF StrictSubsetOrdering
  <1> QED BY <1>5

\* Min finds it.
LEMMA MinOfNat ==
    ASSUME NEW T, T \subseteq Nat, T # {}
    PROVE  Min(T) \in T /\ \A y \in T : Min(T) <= y
  BY Least DEF Min

\* Max of two numbers.
LEMMA MaxOfTwo ==
    ASSUME NEW a \in Int, NEW b \in Int
    PROVE  Max({a, b}) \in {a, b} /\ Max({a, b}) >= a /\ Max({a, b}) >= b
  <1>1. \E x \in {a, b} : \A y \in {a, b} : x >= y
    OBVIOUS
  <1> QED BY <1>1 DEF Max

\* Rows form a finite set, and so does any part of them.
LEMMA RowsFinite ==
    ASSUME rows \in Seq(Row), NEW S, S \subseteq DOMAIN rows
    PROVE  IsFiniteSet(S) /\ Cardinality(S) \in Nat
  <1>1. DOMAIN rows = 1..Len(rows) /\ Len(rows) \in Nat
    OBVIOUS
  <1>2. IsFiniteSet(DOMAIN rows)
    BY <1>1, FS_Interval
  <1> QED BY <1>2, FS_Subset, FS_CardinalityType

\* The times of the rows are numbers.
LEMMA RowTimes ==
    ASSUME TypeOK
    PROVE  \A i \in DOMAIN rows : rows[i].at \in Nat
  <1>1. \A i \in DOMAIN rows : rows[i] \in Row
    BY DEF TypeOK
  <1> QED BY <1>1 DEF Row

\* What a client signs is an amount.
LEMMA FeeType ==
    ASSUME TypeOK, NEW c \in Configs
    PROVE  SignedFee(c) \in Nat
  <1>1. /\ pool.depositAmount \in Nat /\ c.feeBps \in Nat /\ c.minFeeLamports \in Nat
    BY GatewayAssumption DEF TypeOK
  <1>2. pool.depositAmount * c.feeBps \in Nat
    BY <1>1
  <1>3. (pool.depositAmount * c.feeBps) \div 10000 \in Nat
    BY <1>2
  <1>4. (IF pool.assetType = "sol" THEN c.minFeeLamports ELSE 0) \in Nat
    BY <1>1
  <1> DEFINE a == (pool.depositAmount * c.feeBps) \div 10000
             b == IF pool.assetType = "sol" THEN c.minFeeLamports ELSE 0
  <1>5. a \in Nat /\ b \in Nat
    BY <1>3, <1>4
  <1>6. SignedFee(c) = Max({a, b})
    BY DEF SignedFee, CalculateFee
  <1> HIDE DEF a, b
  <1> QED BY <1>5, <1>6, MaxOfTwo

\* Requests are well formed.
LEMMA RequestType ==
    ASSUME TypeOK, NEW q \in Requests
    PROVE  q \in Request
  BY FeeType DEF Requests, Request, TypeOK

-----------------------------------------------------------------------------
(* Types.                                                                  *)

\* Types hold at first.
LEMMA TypeInit == Init => TypeOK
  BY GatewayAssumption DEF Init, TypeOK

\* Every step preserves types.
LEMMA TypeNext == TypeOK /\ [Next]_vars => TypeOK'
  <1> SUFFICES ASSUME TypeOK, [Next]_vars PROVE TypeOK'
    OBVIOUS
  <1>1. ASSUME NEW r \in Replicas, GetInfo(r) PROVE TypeOK'
    BY <1>1 DEF TypeOK, GetInfo
  <1>2. ASSUME NEW r \in Replicas, NEW q \in Requests, Accept(r, q) PROVE TypeOK'
    <2>1. q \in Request
      BY RequestType
    <2>2. Clock(r) \in Nat
      BY DEF TypeOK, Clock
    <2>3. [request |-> q, at |-> Clock(r), status |-> "pending"] \in Row
      BY <2>1, <2>2 DEF Row
    <2>4. rows' \in Seq(Row) /\ DOMAIN rows' = DOMAIN rows \cup {Len(rows) + 1}
      BY <1>2, <2>3 DEF Accept, TypeOK
    <2>5. checking' \subseteq Replicas \X DOMAIN rows'
      BY <1>2, <2>4 DEF Accept, TypeOK
    <2> QED BY <1>2, <2>4, <2>5 DEF Accept, TypeOK
  <1>3. ASSUME NEW r \in Replicas, NEW i \in DOMAIN rows, Pass(r, i) PROVE TypeOK'
    BY <1>3 DEF TypeOK, Pass
  <1>4. ASSUME NEW r \in Replicas, NEW i \in DOMAIN rows, Reject(r, i) PROVE TypeOK'
    <2>1. PICK s \in {"expired", "failed"} : rows' = [rows EXCEPT ![i].status = s]
      BY <1>4 DEF Reject
    <2>2. [rows[i] EXCEPT !.status = s] \in Row
      <3>1. rows[i] \in Row
        BY DEF TypeOK
      <3> QED BY <3>1 DEF Row
    <2>3. rows' \in Seq(Row) /\ DOMAIN rows' = DOMAIN rows
      BY <2>1, <2>2 DEF TypeOK
    <2> QED BY <1>4, <2>3 DEF TypeOK, Reject
  <1>5. ASSUME NEW r \in Replicas, NEW c \in Configs, Restart(r, c) PROVE TypeOK'
    BY <1>5 DEF TypeOK, Restart
  <1>6. ASSUME Tick PROVE TypeOK'
    BY <1>6 DEF TypeOK, Tick
  <1>7. ASSUME UNCHANGED vars PROVE TypeOK'
    BY <1>7 DEF TypeOK, vars
  <1> QED BY <1>1, <1>2, <1>3, <1>4, <1>5, <1>6, <1>7 DEF Next

\* Every variable keeps its type, for any replicas, addresses, notes, pools
\* and configurations.
THEOREM TypeCorrect == Spec => []TypeOK
  BY TypeInit, TypeNext, PTL DEF Spec
-----------------------------------------------------------------------------
(* The limits.                                                             *)

\* What Largest is.
LEMMA LargestFact ==
    ASSUME NEW limit \in Nat
    PROVE  Largest(limit) \in {1, limit} /\ Largest(limit) >= 1 /\ Largest(limit) >= limit
  <1>1. 1 \in Int /\ limit \in Int
    OBVIOUS
  <1> QED BY <1>1, MaxOfTwo DEF Largest

\* A limit that does not refuse leaves room for one more.
LEMMA RoomForOne ==
    ASSUME NEW S, IsFiniteSet(S), NEW limit \in Nat, ~ Reached(S, limit)
    PROVE  Cardinality(S) + 1 <= Largest(limit)
  <1>1. Cardinality(S) \in Nat
    BY FS_CardinalityType
  <1>2. Cardinality(S) = 0 \/ Cardinality(S) < limit
    BY <1>1, FS_EmptySet DEF Reached
  <1> QED BY <1>1, <1>2, LargestFact

\* A part of a finite set has no more elements, and with one more element
\* at most one more.
LEMMA PartAndOne ==
    ASSUME NEW S, IsFiniteSet(S), NEW x, NEW T, T \subseteq S \cup {x}
    PROVE  IsFiniteSet(T) /\ Cardinality(T) <= Cardinality(S) + 1
  <1>0. Cardinality(S) \in Nat
    BY FS_CardinalityType
  <1>1. IsFiniteSet(S \cup {x}) /\ Cardinality(S \cup {x}) <= Cardinality(S) + 1
                              /\ Cardinality(S \cup {x}) \in Nat
    <2>1. /\ IsFiniteSet(S \cup {x})
          /\ Cardinality(S \cup {x}) = IF x \in S THEN Cardinality(S) ELSE Cardinality(S) + 1
      BY FS_AddElement
    <2> QED BY <1>0, <2>1
  <1>2. IsFiniteSet(T) /\ Cardinality(T) <= Cardinality(S \cup {x})
    BY <1>1, FS_Subset
  <1> QED BY <1>1, <1>2, FS_CardinalityType

\* The limits hold for the windows that begin at a row, so they hold for
\* every window: it holds no more than the one that begins at its first row.
LEMMA AnyWindow ==
    ASSUME TypeOK, WindowLimits, NEW t \in Int
    PROVE  /\ Cardinality(InWindow(t)) <= Largest(GlobalLimit)
           /\ \A ip \in IPs : Cardinality(OfIp(ip, InWindow(t))) <= Largest(PerIpLimit)
  <1>1. rows \in Seq(Row) /\ \A i \in DOMAIN rows : rows[i].at \in Nat
    BY RowTimes DEF TypeOK
  <1>2. GlobalLimit \in Nat /\ PerIpLimit \in Nat /\ WindowMs \in Nat
    BY GatewayAssumption
  <1>3. CASE InWindow(t) = {}
    <2>1. \A ip \in IPs : OfIp(ip, InWindow(t)) = {}
      BY <1>3 DEF OfIp
    <2> QED BY <1>2, <1>3, <2>1, FS_EmptySet, LargestFact
  <1>4. CASE InWindow(t) # {}
    <2> DEFINE Times == {rows[i].at : i \in InWindow(t)}
    <2>1. Times \subseteq Nat /\ Times # {}
      BY <1>1, <1>4 DEF InWindow
    <2>2. PICK m \in Times : \A y \in Times : m <= y
      <3> HIDE DEF Times
      <3> QED BY <2>1, Least
    <2>3. PICK k \in InWindow(t) : rows[k].at = m
      OBVIOUS
    <2>4. k \in DOMAIN rows /\ m \in Nat /\ t <= m
      BY <1>1, <2>3 DEF InWindow
    <2>5. \A i \in InWindow(t) : rows[i].at \in m..(m + WindowMs)
      BY <1>1, <1>2, <2>2, <2>4 DEF InWindow
    <2>6. InWindow(t) \subseteq InWindow(m)
      BY <2>5 DEF InWindow
    <2>7. /\ Cardinality(InWindow(m)) <= Largest(GlobalLimit)
          /\ \A ip \in IPs : Cardinality(OfIp(ip, InWindow(m))) <= Largest(PerIpLimit)
      BY <2>3, <2>4 DEF WindowLimits
    <2>8. InWindow(m) \subseteq DOMAIN rows
      BY DEF InWindow
    <2>9. Cardinality(InWindow(t)) <= Cardinality(InWindow(m))
      BY <1>1, <2>6, <2>8, RowsFinite, FS_Subset
    <2>10. ASSUME NEW ip \in IPs
           PROVE  Cardinality(OfIp(ip, InWindow(t))) <= Cardinality(OfIp(ip, InWindow(m)))
      <3>1. OfIp(ip, InWindow(t)) \subseteq OfIp(ip, InWindow(m)) /\ OfIp(ip, InWindow(m)) \subseteq DOMAIN rows
        BY <2>6, <2>8 DEF OfIp
      <3> QED BY <1>1, <3>1, RowsFinite, FS_Subset
    <2>11. /\ Cardinality(InWindow(t)) \in Nat /\ Cardinality(InWindow(m)) \in Nat
           /\ \A ip \in IPs : Cardinality(OfIp(ip, InWindow(t))) \in Nat
                              /\ Cardinality(OfIp(ip, InWindow(m))) \in Nat
      <3>1. /\ InWindow(t) \subseteq DOMAIN rows
            /\ \A ip \in IPs : OfIp(ip, InWindow(t)) \subseteq DOMAIN rows
                               /\ OfIp(ip, InWindow(m)) \subseteq DOMAIN rows
        BY DEF InWindow, OfIp
      <3> QED BY <1>1, <2>8, <3>1, RowsFinite
    <2>12. Largest(GlobalLimit) \in Nat /\ Largest(PerIpLimit) \in Nat
      BY <1>2, LargestFact
    <2>13. Cardinality(InWindow(t)) <= Largest(GlobalLimit)
      BY <2>7, <2>9, <2>11, <2>12
    <2>14. \A ip \in IPs : Cardinality(OfIp(ip, InWindow(t))) <= Largest(PerIpLimit)
      BY <2>7, <2>10, <2>11, <2>12
    <2> QED BY <2>13, <2>14
  <1> QED BY <1>3, <1>4

\* The table after an insertion.
LEMMA RowsOfAccept ==
    ASSUME TypeOK, NEW r \in Replicas, NEW q \in Requests, Accept(r, q)
    PROVE  /\ DOMAIN rows' = DOMAIN rows \cup {Len(rows) + 1}
           /\ Len(rows) + 1 \notin DOMAIN rows
           /\ \A i \in DOMAIN rows : rows'[i] = rows[i] /\ rows[i].at \in Nat
           /\ rows'[Len(rows) + 1].request = q /\ rows'[Len(rows) + 1].at = Clock(r)
           /\ Clock(r) \in Nat
  <1> DEFINE row == [request |-> q, at |-> Clock(r), status |-> "pending"]
  <1>1. rows \in Seq(Row) /\ rows' = Append(rows, row) /\ Clock(r) \in Nat
    BY DEF TypeOK, Accept, Clock
  <1>2. row.request = q /\ row.at = Clock(r)
    OBVIOUS
  <1> HIDE DEF row
  <1>3. \A i \in DOMAIN rows : rows[i].at \in Nat
    BY RowTimes
  <1>4. /\ DOMAIN rows = 1..Len(rows) /\ DOMAIN rows' = 1..(Len(rows) + 1) /\ Len(rows) \in Nat
        /\ \A i \in 1..Len(rows) : rows'[i] = rows[i]
        /\ rows'[Len(rows) + 1] = row
    BY <1>1
  <1> QED BY <1>1, <1>2, <1>3, <1>4

\* A window that the new row falls in holds rows that it counted, and itself.
LEMMA NewWindow ==
    ASSUME TypeOK, NEW r \in Replicas, NEW q \in Requests, Accept(r, q), NEW t \in Int,
           Clock(r) \in t..(t + WindowMs)
    PROVE  /\ InWindow(t)' \subseteq Since(Clock(r)) \cup {Len(rows) + 1}
           /\ OfIp(q.ip, InWindow(t))' \subseteq OfIp(q.ip, Since(Clock(r))) \cup {Len(rows) + 1}
           /\ \A ip \in IPs \ {q.ip} : OfIp(ip, InWindow(t))' = OfIp(ip, InWindow(t))
  <1>1. WindowMs \in Nat
    BY GatewayAssumption
  <1>2. \A i \in DOMAIN rows : rows[i].at \in t..(t + WindowMs) => rows[i].at >= Clock(r) - WindowMs
    BY <1>1, RowsOfAccept
  <1>3. InWindow(t)' = InWindow(t) \cup {Len(rows) + 1}
    BY RowsOfAccept DEF InWindow
  <1>4. InWindow(t) \subseteq Since(Clock(r)) /\ InWindow(t) \subseteq DOMAIN rows
    BY <1>2 DEF InWindow, Since
  <1>5. OfIp(q.ip, InWindow(t))' = OfIp(q.ip, InWindow(t)) \cup {Len(rows) + 1}
    BY <1>3, <1>4, RowsOfAccept DEF OfIp
  <1>6. \A ip \in IPs \ {q.ip} : OfIp(ip, InWindow(t))' = OfIp(ip, InWindow(t))
    BY <1>3, <1>4, RowsOfAccept DEF OfIp
  <1>7. OfIp(q.ip, InWindow(t)) \subseteq OfIp(q.ip, Since(Clock(r)))
    BY <1>4 DEF OfIp
  <1> QED BY <1>3, <1>4, <1>5, <1>6, <1>7

\* A window that the new row is not in stays as it was.
LEMMA OldWindow ==
    ASSUME TypeOK, NEW r \in Replicas, NEW q \in Requests, Accept(r, q), NEW t \in Int,
           Clock(r) \notin t..(t + WindowMs)
    PROVE  /\ InWindow(t)' = InWindow(t)
           /\ \A ip \in IPs : OfIp(ip, InWindow(t))' = OfIp(ip, InWindow(t))
  <1>1. InWindow(t)' = InWindow(t) /\ InWindow(t) \subseteq DOMAIN rows
    BY RowsOfAccept DEF InWindow
  <1> QED BY <1>1, RowsOfAccept DEF OfIp

\* An insertion keeps the limits in every window.
LEMMA AcceptLimits ==
    ASSUME TypeOK, WindowLimits, NEW r \in Replicas, NEW q \in Requests, Accept(r, q), NEW t \in Int
    PROVE  /\ Cardinality(InWindow(t)') <= Largest(GlobalLimit)
           /\ \A ip \in IPs : Cardinality(OfIp(ip, InWindow(t))') <= Largest(PerIpLimit)
  <1>1. CASE Clock(r) \notin t..(t + WindowMs)
    BY <1>1, OldWindow, AnyWindow
  <1>2. CASE Clock(r) \in t..(t + WindowMs)
    <2> DEFINE S == Since(Clock(r))
    <2>1. rows \in Seq(Row) /\ GlobalLimit \in Nat /\ PerIpLimit \in Nat
      BY GatewayAssumption DEF TypeOK
    <2>2. IsFiniteSet(S) /\ IsFiniteSet(OfIp(q.ip, S))
      <3>1. S \subseteq DOMAIN rows /\ OfIp(q.ip, S) \subseteq DOMAIN rows
        BY DEF Since, OfIp
      <3> QED BY <2>1, <3>1, RowsFinite
    <2>3. ~ Reached(OfIp(q.ip, S), PerIpLimit) /\ ~ Reached(S, GlobalLimit)
      <3>1. "ip" # None /\ "global" # None
        BY GatewayAssumption
      <3>2. Refusal(q.ip, Clock(r)).limit = None
        BY DEF Accept
      <3> QED BY <3>1, <3>2 DEF Refusal
    <2>4. Cardinality(S) + 1 <= Largest(GlobalLimit)
      BY <2>1, <2>2, <2>3, RoomForOne
    <2>5. Cardinality(OfIp(q.ip, S)) + 1 <= Largest(PerIpLimit)
      BY <2>1, <2>2, <2>3, RoomForOne
    <2>6. IsFiniteSet(InWindow(t)') /\ Cardinality(InWindow(t)') <= Cardinality(S) + 1
      BY <1>2, <2>2, NewWindow, PartAndOne
    <2>7. IsFiniteSet(OfIp(q.ip, InWindow(t))')
          /\ Cardinality(OfIp(q.ip, InWindow(t))') <= Cardinality(OfIp(q.ip, S)) + 1
      BY <1>2, <2>2, NewWindow, PartAndOne
    <2>8. Cardinality(InWindow(t)') <= Largest(GlobalLimit)
      BY <2>1, <2>2, <2>4, <2>6, LargestFact, FS_CardinalityType
    <2>9. Cardinality(OfIp(q.ip, InWindow(t))') <= Largest(PerIpLimit)
      BY <2>1, <2>2, <2>5, <2>7, LargestFact, FS_CardinalityType
    <2>10. \A ip \in IPs \ {q.ip} : Cardinality(OfIp(ip, InWindow(t))') <= Largest(PerIpLimit)
      BY <1>2, NewWindow, AnyWindow
    <2> QED BY <2>8, <2>9, <2>10
  <1> QED BY <1>1, <1>2

\* No other step touches the time or the request of a row.
LEMMA SameRows ==
    ASSUME TypeOK, [Next]_vars, \A r \in Replicas, q \in Requests : ~ Accept(r, q)
    PROVE  /\ DOMAIN rows' = DOMAIN rows
           /\ \A i \in DOMAIN rows : rows'[i].at = rows[i].at /\ rows'[i].request = rows[i].request
  <1>1. CASE \E r \in Replicas, i \in DOMAIN rows : Reject(r, i)
    <2>1. PICK i \in DOMAIN rows, s \in {"expired", "failed"} : rows' = [rows EXCEPT ![i].status = s]
      BY <1>1 DEF Reject
    <2>2. rows \in Seq(Row) /\ \A k \in DOMAIN rows : rows[k] \in Row
      BY DEF TypeOK
    <2>3. [rows[i] EXCEPT !.status = s].at = rows[i].at
          /\ [rows[i] EXCEPT !.status = s].request = rows[i].request
      BY <2>2 DEF Row
    <2>4. DOMAIN rows' = DOMAIN rows /\ rows'[i] = [rows[i] EXCEPT !.status = s]
          /\ \A k \in DOMAIN rows \ {i} : rows'[k] = rows[k]
      BY <2>1, <2>2
    <2> QED BY <2>3, <2>4
  <1>2. CASE UNCHANGED rows
    BY <1>2
  <1>3. (\E r \in Replicas, i \in DOMAIN rows : Reject(r, i)) \/ UNCHANGED rows
    BY DEF Next, vars, GetInfo, Pass, Restart, Tick
  <1> QED BY <1>1, <1>2, <1>3

\* So the windows stay as they were.
LEMMA SameWindows ==
    ASSUME TypeOK, [Next]_vars, \A r \in Replicas, q \in Requests : ~ Accept(r, q), NEW t \in Int
    PROVE  /\ InWindow(t)' = InWindow(t)
           /\ \A ip \in IPs : OfIp(ip, InWindow(t))' = OfIp(ip, InWindow(t))
  <1>1. /\ DOMAIN rows' = DOMAIN rows
        /\ \A i \in DOMAIN rows : rows'[i].at = rows[i].at /\ rows'[i].request = rows[i].request
    BY SameRows
  <1>2. InWindow(t)' = InWindow(t) /\ InWindow(t) \subseteq DOMAIN rows
    BY <1>1 DEF InWindow
  <1> QED BY <1>1, <1>2 DEF OfIp

\* The limits hold of an empty table.
LEMMA LimitsInit == Init => WindowLimits
  BY DEF Init, WindowLimits

\* Every step preserves the limits.
LEMMA LimitsNext == TypeOK /\ WindowLimits /\ [Next]_vars => WindowLimits'
  <1> SUFFICES ASSUME TypeOK, WindowLimits, [Next]_vars PROVE WindowLimits'
    OBVIOUS
  <1>1. TypeOK'
    BY TypeNext
  <1>2. \A i \in DOMAIN rows' : rows'[i].at \in Int
    <2>1. \A i \in DOMAIN rows' : rows'[i] \in Row
      BY <1>1 DEF TypeOK
    <2> QED BY <2>1 DEF Row
  <1>3. ASSUME NEW t \in Int
        PROVE  /\ Cardinality(InWindow(t)') <= Largest(GlobalLimit)
               /\ \A ip \in IPs : Cardinality(OfIp(ip, InWindow(t))') <= Largest(PerIpLimit)
    <2>1. CASE \E r \in Replicas, q \in Requests : Accept(r, q)
      BY <2>1, AcceptLimits
    <2>2. CASE \A r \in Replicas, q \in Requests : ~ Accept(r, q)
      BY <2>2, SameWindows, AnyWindow
    <2> QED BY <2>1, <2>2
  <1> DEFINE Rows(t) == {i \in DOMAIN rows' : rows'[i].at \in t..(t + WindowMs)}
             RowsOf(ip, t) == {i \in Rows(t) : rows'[i].request.ip = ip}
  <1>4. \A t \in Int : /\ Cardinality(Rows(t)) <= Largest(GlobalLimit)
                       /\ \A ip \in IPs : Cardinality(RowsOf(ip, t)) <= Largest(PerIpLimit)
    BY <1>3 DEF InWindow, OfIp
  <1>5. \A i \in DOMAIN rows' :
           /\ Cardinality(Rows(rows'[i].at)) <= Largest(GlobalLimit)
           /\ \A ip \in IPs : Cardinality(RowsOf(ip, rows'[i].at)) <= Largest(PerIpLimit)
    <2> HIDE DEF Rows, RowsOf
    <2> QED BY <1>2, <1>4
  <1> QED BY <1>5 DEF WindowLimits, InWindow, OfIp

\* In every window no more requests of one address, or of all, are accepted
\* than the limit allows: for any number of replicas and restarts, clocks
\* that differ by any amount, and limits and windows of any size.
THEOREM LimitsHold == Spec => []WindowLimits
  BY TypeInit, TypeNext, LimitsInit, LimitsNext, PTL DEF Spec

-----------------------------------------------------------------------------
(* What a 429 tells.                                                       *)

\* RetryAfter lasts until the first of the counted rows leaves the window.
LEMMA RetryAfterFact ==
    ASSUME TypeOK, NEW at \in Nat, NEW S, S \subseteq DOMAIN rows, S # {}
    PROVE  \E k \in S : /\ \A i \in S : rows[k].at <= rows[i].at
                        /\ RetryAfter(at, S) \in Int
                        /\ at + RetryAfter(at, S) >= rows[k].at + WindowMs
                        /\ RetryAfter(at, S) >= 1
  <1> DEFINE Times == {rows[i].at : i \in S}
             m     == Min(Times)
  <1>1. \A i \in S : rows[i].at \in Nat
    BY RowTimes
  <1>2. Times \subseteq Nat /\ Times # {}
    BY <1>1
  <1>3. m \in Times /\ \A y \in Times : m <= y
    <2> HIDE DEF Times
    <2> QED BY <1>2, MinOfNat
  <1>4. PICK k \in S : rows[k].at = m
    BY <1>3
  <1>5. WindowMs \in Nat /\ m \in Nat
    BY <1>2, <1>3, GatewayAssumption
  <1>6. RetryAfter(at, S) = Max({1, WindowMs - (at - m)})
    BY DEF RetryAfter
  <1>7. \A i \in S : m <= rows[i].at
    BY <1>3
  <1> HIDE DEF m, Times
  <1>8. WindowMs - (at - m) \in Int
    BY <1>5
  <1>9. /\ RetryAfter(at, S) \in {1, WindowMs - (at - m)}
        /\ RetryAfter(at, S) >= 1 /\ RetryAfter(at, S) >= WindowMs - (at - m)
    BY <1>6, <1>8, MaxOfTwo
  <1>10. RetryAfter(at, S) \in Int /\ at + RetryAfter(at, S) >= m + WindowMs
    BY <1>5, <1>8, <1>9
  <1> QED BY <1>4, <1>7, <1>9, <1>10

\* Rows that no limit allows more of, and one of them left the window: what
\* is still counted does not reach the limit.
LEMMA OneLeft ==
    ASSUME NEW S, IsFiniteSet(S), NEW limit \in Nat, Cardinality(S) <= Largest(limit),
           NEW k \in S, NEW T, T \subseteq S \ {k}
    PROVE  ~ Reached(T, limit)
  <1>1. Cardinality(S) \in Nat
    BY FS_CardinalityType
  <1>2. IsFiniteSet(S \ {k}) /\ Cardinality(S \ {k}) = Cardinality(S) - 1
    BY FS_RemoveElement
  <1>3. IsFiniteSet(T) /\ Cardinality(T) <= Cardinality(S \ {k})
    BY <1>2, FS_Subset
  <1>4. Cardinality(T) \in Nat
    BY <1>3, FS_CardinalityType
  <1>5. Cardinality(T) < Largest(limit)
    BY <1>1, <1>2, <1>3, <1>4, LargestFact
  <1>6. T = {} \/ Cardinality(T) # 0
    BY <1>3, FS_EmptySet
  <1>7. T = {} \/ Cardinality(T) < limit
    BY <1>4, <1>5, <1>6, LargestFact
  <1> QED BY <1>4, <1>7 DEF Reached

\* The argument for either limit: S is what the limit counts at one time, T
\* what it counts later.
LEMMA Waited ==
    ASSUME TypeOK, WindowLimits, NEW r \in Replicas, NEW ip \in IPs,
           \A i \in DOMAIN rows : rows[i].at <= Clock(r)
    PROVE  LET at == Clock(r) IN
           /\ Reached(OfIp(ip, Since(at)), PerIpLimit)
              => \A later \in Int : later > at + RetryAfter(at, OfIp(ip, Since(at)))
                   => ~ Reached(OfIp(ip, Since(later)), PerIpLimit)
           /\ Reached(Since(at), GlobalLimit)
              => \A later \in Int : later > at + RetryAfter(at, Since(at))
                   => ~ Reached(Since(later), GlobalLimit)
  <1> DEFINE at == Clock(r)
  <1>1. at \in Nat /\ WindowMs \in Nat /\ GlobalLimit \in Nat /\ PerIpLimit \in Nat
        /\ rows \in Seq(Row) /\ \A i \in DOMAIN rows : rows[i].at \in Nat /\ rows[i].at <= at
    <2>1. at \in Nat
      BY GatewayAssumption DEF TypeOK, Clock
    <2>2. rows \in Seq(Row) /\ \A i \in DOMAIN rows : rows[i].at \in Nat
      BY RowTimes DEF TypeOK
    <2> QED BY <2>1, <2>2, GatewayAssumption
  <1> HIDE DEF at
  <1>2. /\ Since(at) = InWindow(at - WindowMs)
        /\ Since(at) \subseteq DOMAIN rows /\ OfIp(ip, Since(at)) \subseteq DOMAIN rows
    <2>1. \A i \in DOMAIN rows : rows[i].at >= at - WindowMs
                                <=> rows[i].at \in (at - WindowMs)..((at - WindowMs) + WindowMs)
      BY <1>1
    <2> QED BY <2>1 DEF Since, InWindow, OfIp
  <1>3. /\ Cardinality(Since(at)) <= Largest(GlobalLimit)
        /\ Cardinality(OfIp(ip, Since(at))) <= Largest(PerIpLimit)
    BY <1>1, <1>2, AnyWindow
  <1>4. IsFiniteSet(Since(at)) /\ IsFiniteSet(OfIp(ip, Since(at)))
    BY <1>1, <1>2, RowsFinite
  <1>5. ASSUME NEW S, S \subseteq Since(at), S # {}, NEW later \in Int,
               later > at + RetryAfter(at, S)
        PROVE  \E k \in S : \A i \in Since(later) : i \in Since(at) /\ i # k
    <2>1. S \subseteq DOMAIN rows
      BY <1>2, <1>5
    <2>2. PICK k \in S : /\ RetryAfter(at, S) \in Int
                         /\ at + RetryAfter(at, S) >= rows[k].at + WindowMs
                         /\ RetryAfter(at, S) >= 1
      BY <1>1, <1>5, <2>1, RetryAfterFact
    <2>3. k \in DOMAIN rows /\ rows[k].at \in Nat
      BY <1>1, <2>1
    <2>4. later - WindowMs > rows[k].at /\ later > at
      BY <1>1, <1>5, <2>2, <2>3
    <2>5. \A i \in DOMAIN rows : rows[i].at >= later - WindowMs => rows[i].at >= at - WindowMs /\ i # k
      BY <1>1, <2>3, <2>4
    <2>6. \A i \in Since(later) : i \in Since(at) /\ i # k
      BY <2>5 DEF Since
    <2> QED BY <2>6
  <1>6. ASSUME Reached(OfIp(ip, Since(at)), PerIpLimit), NEW later \in Int,
               later > at + RetryAfter(at, OfIp(ip, Since(at)))
        PROVE  ~ Reached(OfIp(ip, Since(later)), PerIpLimit)
    <2>1. OfIp(ip, Since(at)) # {} /\ OfIp(ip, Since(at)) \subseteq Since(at)
      BY <1>6 DEF Reached, OfIp
    <2>2. PICK k \in OfIp(ip, Since(at)) : \A i \in Since(later) : i \in Since(at) /\ i # k
      BY <1>5, <1>6, <2>1
    <2>3. OfIp(ip, Since(later)) \subseteq OfIp(ip, Since(at)) \ {k}
      BY <2>2 DEF OfIp
    <2> QED BY <1>1, <1>3, <1>4, <2>3, OneLeft
  <1>7. ASSUME Reached(Since(at), GlobalLimit), NEW later \in Int,
               later > at + RetryAfter(at, Since(at))
        PROVE  ~ Reached(Since(later), GlobalLimit)
    <2>1. Since(at) # {}
      BY <1>7 DEF Reached
    <2>2. PICK k \in Since(at) : \A i \in Since(later) : i \in Since(at) /\ i # k
      BY <1>5, <1>7, <2>1
    <2>3. Since(later) \subseteq Since(at) \ {k}
      BY <2>2
    <2> QED BY <1>1, <1>3, <1>4, <2>3, OneLeft
  <1> QED BY <1>6, <1>7 DEF at

\* Whoever has waited finds room below every limit.
LEMMA WaitedFromLimits == TypeOK /\ WindowLimits => WaitedIsServed
  <1> SUFFICES ASSUME TypeOK, WindowLimits, NEW r \in Replicas, NEW ip \in IPs,
                      Refusal(ip, Clock(r)).limit # None,
                      \A i \in DOMAIN rows : rows[i].at <= Clock(r),
                      NEW later \in (Clock(r) + RetryAfter(Clock(r), Refusal(ip, Clock(r)).counted) + 1)
                                   ..(Clock(r) + RetryAfter(Clock(r), Refusal(ip, Clock(r)).counted) + WindowMs)
               PROVE  Refusal(ip, later).limit # Refusal(ip, Clock(r)).limit
    BY DEF WaitedIsServed
  <1> DEFINE at == Clock(r)
  <1>1. None # "ip" /\ None # "global"
    BY GatewayAssumption
  <1>2. at \in Nat /\ WindowMs \in Nat
    BY GatewayAssumption DEF TypeOK, Clock
  <1>3. \A S : S \subseteq DOMAIN rows /\ S # {} => RetryAfter(at, S) \in Int
    BY <1>2, RetryAfterFact
  <1>4. Since(at) \subseteq DOMAIN rows /\ OfIp(ip, Since(at)) \subseteq DOMAIN rows
    BY DEF Since, OfIp
  <1> HIDE DEF at
  <1>5. CASE Reached(OfIp(ip, Since(at)), PerIpLimit)
    <2>1. Refusal(ip, at).limit = "ip" /\ Refusal(ip, at).counted = OfIp(ip, Since(at))
      BY <1>5 DEF Refusal
    <2>2. RetryAfter(at, OfIp(ip, Since(at))) \in Int
      BY <1>3, <1>4, <1>5 DEF Reached
    <2>3. later \in Int /\ later > at + RetryAfter(at, OfIp(ip, Since(at)))
      BY <1>2, <2>1, <2>2 DEF at
    <2>4. ~ Reached(OfIp(ip, Since(later)), PerIpLimit)
      BY <1>5, <2>3, Waited DEF at
    <2>5. Refusal(ip, later).limit # "ip"
      BY <1>1, <2>4 DEF Refusal
    <2> QED BY <2>1, <2>5 DEF at
  <1>6. CASE ~ Reached(OfIp(ip, Since(at)), PerIpLimit)
    <2>1. /\ Reached(Since(at), GlobalLimit)
          /\ Refusal(ip, at).limit = "global" /\ Refusal(ip, at).counted = Since(at)
      BY <1>6 DEF Refusal, at
    <2>2. RetryAfter(at, Since(at)) \in Int
      BY <1>3, <1>4, <2>1 DEF Reached
    <2>3. later \in Int /\ later > at + RetryAfter(at, Since(at))
      BY <1>2, <2>1, <2>2 DEF at
    <2>4. ~ Reached(Since(later), GlobalLimit)
      BY <2>1, <2>3, Waited DEF at
    <2>5. Refusal(ip, later).limit # "global"
      BY <1>1, <2>4 DEF Refusal
    <2> QED BY <2>1, <2>5 DEF at
  <1> QED BY <1>5, <1>6

\* A client that waits longer than a 429 told it is not refused by the same
\* limit while no request was accepted and no clock ran ahead.
THEOREM WaitedServed == Spec => []WaitedIsServed
  BY TypeInit, TypeNext, LimitsInit, LimitsNext, WaitedFromLimits, PTL DEF Spec

-----------------------------------------------------------------------------
(* Quoted fees.                                                            *)

\* Fees that were quoted are payable, and a request that was signed for a
\* quoted fee carries it.
QuoteOK ==
    /\ \A c \in quoted : Payable(ExpectedFee(c))
    /\ \A i \in DOMAIN rows :
          LET q == rows[i].request
          IN  q.quote # None => /\ q.quote \in Configs /\ q.fee = ExpectedFee(q.quote)
                                /\ Payable(q.fee)

\* No row is quoted at first.
LEMMA QuoteInit == Init => QuoteOK
  BY DEF Init, QuoteOK

\* Every step keeps the quotes of the rows.
LEMMA QuoteNext == TypeOK /\ QuoteOK /\ [Next]_vars => QuoteOK'
  <1> SUFFICES ASSUME TypeOK, QuoteOK, [Next]_vars PROVE QuoteOK'
    OBVIOUS
  <1>1. pool' = pool
    BY DEF Next, vars, GetInfo, Accept, Pass, Reject, Restart, Tick
  <1>2. /\ \A c : ExpectedFee(c)' = ExpectedFee(c)
        /\ \A fee : Payable(fee)' = Payable(fee)
    BY <1>1 DEF ExpectedFee, Payable
  <1>3. \A c \in quoted' : Payable(ExpectedFee(c))
    <2>1. CASE \E r \in Replicas : GetInfo(r)
      BY <2>1 DEF GetInfo, QuoteOK
    <2>2. CASE quoted' = quoted
      BY <2>2 DEF QuoteOK
    <2> QED BY <2>1, <2>2 DEF Next, vars, Accept, Pass, Reject, Restart, Tick
  <1>4. ASSUME NEW i \in DOMAIN rows', rows'[i].request.quote # None
        PROVE  /\ rows'[i].request.quote \in Configs
               /\ rows'[i].request.fee = ExpectedFee(rows'[i].request.quote)
               /\ Payable(rows'[i].request.fee)
    <2>1. CASE \E r \in Replicas, q \in Requests : Accept(r, q)
      <3>1. PICK r \in Replicas, q \in Requests : Accept(r, q)
        BY <2>1
      <3>2. CASE i \in DOMAIN rows
        BY <1>4, <3>1, <3>2, RowsOfAccept DEF QuoteOK
      <3>3. CASE i = Len(rows) + 1
        <4>1. rows'[i].request = q
          BY <3>1, <3>3, RowsOfAccept
        <4>2. PICK c \in Configs : q.fee = SignedFee(c) /\ q.quote = IF c \in quoted THEN c ELSE None
          BY DEF Requests
        <4>3. c \in quoted /\ q.quote = c
          BY <1>4, <4>1, <4>2
        <4>4. SignedFee(c) = ExpectedFee(c)
          BY DEF SignedFee, ExpectedFee
        <4>5. Payable(ExpectedFee(c))
          BY <4>3 DEF QuoteOK
        <4> QED BY <4>1, <4>2, <4>3, <4>4, <4>5
      <3> QED BY <3>1, <3>2, <3>3, RowsOfAccept
    <2>2. CASE \A r \in Replicas, q \in Requests : ~ Accept(r, q)
      <3>1. i \in DOMAIN rows /\ rows'[i].request = rows[i].request
        BY <2>2, SameRows
      <3> QED BY <1>4, <3>1 DEF QuoteOK
    <2> QED BY <2>1, <2>2
  <1> QED BY <1>2, <1>3, <1>4 DEF QuoteOK

\* A quoted row changes its status only while a replica checks it that was configured
\* differently since.
LEMMA QuoteStep == TypeOK /\ QuoteOK /\ [Next]_vars =>
    \A i \in DOMAIN rows :
        rows[i].request.quote # None /\ rows'[i].status # rows[i].status
        => \E r \in Replicas : <<r, i>> \in checking /\ config[r] # rows[i].request.quote
  <1> SUFFICES ASSUME TypeOK, QuoteOK, [Next]_vars, NEW i \in DOMAIN rows,
                      rows[i].request.quote # None, rows'[i].status # rows[i].status
               PROVE  \E r \in Replicas : <<r, i>> \in checking /\ config[r] # rows[i].request.quote
    OBVIOUS
  <1>1. rows \in Seq(Row)
    BY DEF TypeOK
  <1>2. \E r \in Replicas : Reject(r, i)
    <2>1. ASSUME NEW r \in Replicas, NEW q \in Requests, Accept(r, q) PROVE FALSE
      BY <2>1, RowsOfAccept
    <2>2. ASSUME NEW r \in Replicas, NEW k \in DOMAIN rows, Reject(r, k) PROVE k = i
      BY <1>1, <2>2 DEF Reject
    <2>3. rows' # rows
      OBVIOUS
    <2> QED BY <2>1, <2>2, <2>3 DEF Next, vars, GetInfo, Pass, Restart, Tick
  <1>3. PICK r \in Replicas : Reject(r, i)
    BY <1>2
  <1>4. <<r, i>> \in checking
    BY <1>3 DEF Reject
  <1>5. rows[i].request.fee # ExpectedFee(config[r]) \/ ~ Payable(rows[i].request.fee)
    BY <1>3 DEF Reject
  <1>6. config[r] # rows[i].request.quote
    BY <1>5 DEF QuoteOK
  <1> QED BY <1>4, <1>6

\* A request for a quoted fee is refused for its fee only by a replica that
\* was started with other fees, for any pools and fees.
THEOREM QuotesHold == Spec => QuotedIsAccepted
  BY TypeInit, TypeNext, QuoteInit, QuoteNext, QuoteStep, PTL DEF Spec, QuotedIsAccepted
=============================================================================
