----------------------------- MODULE PoolProofs -----------------------------
(***************************************************************************)
(* Theorems about the pool, for trees, pages, root histories, deposits,    *)
(* recipients and fees of any size.                                        *)
(*                                                                         *)
(* Solvent counts the nullifiers that are spent, the program counts the    *)
(* withdrawals.  The two counts agree because a withdrawal never finds its *)
(* nullifier spent; Inv says so, and that the vault is what the counters   *)
(* make it.  A pool uses one of two places for nullifiers, never both:     *)
(* without that, a nullifier could be listed in one and recorded in the    *)
(* other.                                                                  *)
(*                                                                         *)
(* That the pool keeps the abstract ledger needs three facts more: the     *)
(* pages of a paged pool make up one list of commitments (PagesOK), the    *)
(* ring of roots holds the roots of the last prefixes of that list         *)
(* (TreeOK, with the facts of TreeProofs about insertion), and a proof of  *)
(* the SDK is of a note in some list, be it one the chain never had        *)
(* (ProofsOK).  If its root is in the ring, that list is a prefix of the   *)
(* pool's, since trees with the same root have the same leaves.  Proofs    *)
(* made otherwise carry a nullifier of OtherNullifiers, and nothing is     *)
(* said of what they prove; every theorem holds with them about.           *)
(***************************************************************************)
EXTENDS Pool, TreeProofs

PlaceOK ==
    /\ kind = "legacy" => nullifierRecords = {}
    /\ kind # "legacy" => usedNullifiers = <<>>

CountOK == IsFiniteSet(Spent) /\ Cardinality(Spent) = nullifierCount

MoneyOK == vault = DepositAmount * (nextIndex - nullifierCount)

Inv == TypeOK /\ PlaceOK /\ CountOK /\ MoneyOK

-----------------------------------------------------------------------------
(* Sums and sequences.                                                     *)

\* One deposit in or out of the vault is one step of its counter.
LEMMA OneDeposit ==
    ASSUME NEW d \in Nat, NEW k \in Int
    PROVE  /\ d * (k + 1) = d * k + d
           /\ d * (k - 1) = d * k - d
  OBVIOUS

\* Appending adds the element to the range, and nothing else.
LEMMA RangeOfAppend ==
    ASSUME NEW S, NEW s \in Seq(S), NEW x \in S
    PROVE  Range(Append(s, x)) = Range(s) \cup {x}
  <1>1. Append(s, x) \in Seq(S) /\ Len(Append(s, x)) = Len(s) + 1
    OBVIOUS
  <1>2. \A i \in 1..Len(s) : Append(s, x)[i] = s[i]
    OBVIOUS
  <1>3. Append(s, x)[Len(s) + 1] = x
    OBVIOUS
  <1>4. DOMAIN s = 1..Len(s) /\ DOMAIN Append(s, x) = 1..(Len(s) + 1) /\ Len(s) \in Nat
    BY <1>1, LenProperties
  <1>5. 1..(Len(s) + 1) = (1..Len(s)) \cup {Len(s) + 1}
    BY <1>4
  <1> QED BY <1>2, <1>3, <1>4, <1>5 DEF Range

\* The empty sequence holds nothing.
LEMMA RangeOfEmpty == Range(<<>>) = {}
  BY DEF Range

\* What a pool of any kind promises of its assumptions.
LEMMA Facts ==
    /\ Capacity \in Nat /\ DepositAmount \in Nat /\ PageCapacity \in Nat \ {0}
    /\ RootHistorySize \in Nat \ {0} /\ ProtocolFeeBps \in Nat /\ RelayerFees \subseteq Nat
    /\ InlineLengths \subseteq 0..Capacity
    /\ ZeroLeaf \notin Notes
  BY PoolAssumption, CapacityType

\* compute_protocol_fee returns an amount.
LEMMA ProtocolFeeType == ProtocolFee \in Nat
  <1>1. DepositAmount * ProtocolFeeBps \in Nat
    BY Facts
  <1> QED BY <1>1 DEF ProtocolFee

-----------------------------------------------------------------------------
(* Division by the capacity of a page, or by the length of the ring.       *)

\* The next multiple of m is m away.
LEMMA Times ==
    ASSUME NEW p \in Nat, NEW q \in Nat, NEW m \in Nat \ {0}, p < q
    PROVE  p * m + m <= q * m
  <1>1. PICK d \in Nat : q = p + 1 + d
    <2>1. q - p - 1 \in Nat /\ q = p + 1 + (q - p - 1)
      OBVIOUS
    <2> QED BY <2>1
  <1>2. d * m \in Nat /\ p * m \in Nat
    OBVIOUS
  <1>3. q * m = p * m + m + d * m
    BY <1>1
  <1> QED BY <1>2, <1>3

\* Quotient and remainder.
LEMMA DivMod ==
    ASSUME NEW a \in Nat, NEW m \in Nat \ {0}
    PROVE  /\ a \div m \in Nat /\ a % m \in 0..(m - 1) /\ a = (a \div m) * m + (a % m)
  OBVIOUS

\* The quotient is the number of the interval of length m a number is in.
LEMMA DivIff ==
    ASSUME NEW a \in Nat, NEW m \in Nat \ {0}, NEW p \in Nat
    PROVE  (a \div m = p) <=> (p * m <= a /\ a < p * m + m)
  <1>1. PICK q \in Nat, r \in 0..(m-1) : q = a \div m /\ a = q * m + r
    BY DivMod
  <1>2. p = q \/ p < q \/ q < p
    OBVIOUS
  <1>3. p * m \in Nat /\ q * m \in Nat
    OBVIOUS
  <1>4. p < q => p * m + m <= q * m
    BY Times
  <1>5. q < p => q * m + m <= p * m
    BY Times
  <1> QED BY <1>1, <1>2, <1>3, <1>4, <1>5

\* Numbers with the same remainder are apart by m at least, and m apart they have it.
LEMMA SameRemainder ==
    ASSUME NEW a \in Nat, NEW b \in Nat, NEW m \in Nat \ {0}
    PROVE  /\ a % m = b % m /\ a < b => a + m <= b
           /\ (a + m) % m = a % m
           /\ a < m => a % m = a
           /\ a % m <= a
  <1>1. PICK q \in Nat, r \in 0..(m-1) : q = a \div m /\ r = a % m /\ a = q * m + r
    BY DivMod
  <1>2. PICK p \in Nat, t \in 0..(m-1) : p = b \div m /\ t = b % m /\ b = p * m + t
    BY DivMod
  <1>3. q * m \in Nat /\ p * m \in Nat
    OBVIOUS
  <1>4. ASSUME r = t, a < b PROVE a + m <= b
    <2>1. q < p
      <3>1. p < q => p * m + m <= q * m
        BY Times
      <3> QED BY <1>1, <1>2, <1>3, <1>4, <3>1
    <2>2. q * m + m <= p * m
      BY <2>1, Times
    <2> QED BY <1>1, <1>2, <1>3, <1>4, <2>2
  <1>5. (a + m) % m = r
    <2>1. PICK c \in Nat, k \in Nat : c = a + m /\ k = q + 1
      OBVIOUS
    <2>2. k * m = q * m + m
      BY <2>1
    <2>3. k * m <= c /\ c < k * m + m
      BY <1>1, <1>3, <2>1, <2>2
    <2>4. c \div m = k
      BY <2>3, DivIff
    <2>5. c = (c \div m) * m + (c % m) /\ c % m \in Int
      BY DivMod
    <2>6. c % m = c - k * m
      BY <1>3, <2>2, <2>4, <2>5
    <2> QED BY <1>1, <1>3, <2>1, <2>2, <2>6
  <1>6. a < m => a % m = a
    <2>1. ASSUME a < m PROVE q = 0
      BY <1>1, <2>1, DivIff
    <2>2. q = 0 => q * m = 0
      OBVIOUS
    <2> QED BY <1>1, <2>1, <2>2
  <1> QED BY <1>1, <1>2, <1>3, <1>4, <1>5, <1>6

-----------------------------------------------------------------------------
(* Sums of what was paid.                                                  *)

\* The element a sum over s takes first, and what it leaves.
AnyOf(s) == CHOOSE x \in s : TRUE
Rest(s)  == s \ {AnyOf(s)}

SumsUp(sum, f, S) ==
    \A s \in SUBSET S : sum[s] = IF s = {} THEN 0 ELSE f[AnyOf(s)] + sum[Rest(s)]

\* A sum over a finite set is one: SumFunctionOnSet adds the elements up.
LEMMA SumIsSum ==
    ASSUME NEW f, NEW S, IsFiniteSet(S)
    PROVE  \E sum : SumsUp(sum, f, S) /\ SumFunctionOnSet(f, S) = sum[S]
  <1> DEFINE iter[s \in SUBSET S] == IF s = {} THEN 0 ELSE f[AnyOf(s)] + iter[Rest(s)]
             Part(k) == {s \in SUBSET S : Cardinality(s) <= k}
             Upto(k, h) == h = [s \in Part(k) |-> IF s = {} THEN 0 ELSE f[AnyOf(s)] + h[Rest(s)]]
             K == {k \in 0..Cardinality(S) : \E h : Upto(k, h)}
  <1>0. /\ Cardinality(S) \in Nat
        /\ \A s \in SUBSET S : IsFiniteSet(s) /\ Cardinality(s) \in 0..Cardinality(S)
    <2>1. \A s \in SUBSET S : IsFiniteSet(s) /\ Cardinality(s) \in Nat /\ Cardinality(s) <= Cardinality(S)
      BY FS_Subset, FS_CardinalityType
    <2> QED BY <2>1, FS_CardinalityType
  <1>1. \A s \in SUBSET S : s # {} => /\ AnyOf(s) \in s /\ Rest(s) \in SUBSET S
                                      /\ Cardinality(Rest(s)) = Cardinality(s) - 1
    BY <1>0, FS_RemoveElement DEF AnyOf, Rest
  <1>2. 0 \in K
    <2>1. \A s \in Part(0) : s = {}
      BY <1>0, FS_EmptySet
    <2>2. Upto(0, [s \in Part(0) |-> 0])
      <3> HIDE DEF Part
      <3> QED BY <2>1
    <2> HIDE DEF Upto
    <2> QED BY <2>2, <1>0
  <1>3. ASSUME NEW k \in 0..(Cardinality(S) - 1), k \in K PROVE k + 1 \in K
    <2>1. PICK h : Upto(k, h)
      BY <1>3
    <2> DEFINE g == [s \in Part(k+1) |-> IF Cardinality(s) <= k THEN h[s] ELSE f[AnyOf(s)] + h[Rest(s)]]
    <2>2. ASSUME NEW s \in Part(k+1) PROVE g[s] = IF s = {} THEN 0 ELSE f[AnyOf(s)] + g[Rest(s)]
      <3>1. CASE s = {}
        <4>1. Cardinality(s) <= k /\ s \in Part(k)
          BY <3>1, FS_EmptySet, <1>3
        <4>2. h[s] = 0
          BY <4>1, <3>1, <2>1
        <4> QED BY <4>1, <4>2, <3>1
      <3>2. CASE s # {}
        <4>1. s \in SUBSET S /\ Rest(s) \in SUBSET S /\ Cardinality(Rest(s)) = Cardinality(s) - 1 /\ Cardinality(s) \in Nat
          BY <3>2, <1>1, <1>0
        <4>2. Rest(s) \in Part(k) /\ Rest(s) \in Part(k+1) 
          BY <4>1
        <4>3. g[Rest(s)] = h[Rest(s)]
          BY <4>2
        <4>4. CASE Cardinality(s) <= k
          <5>1. s \in Part(k)
            BY <4>1, <4>4
          <5>2. h[s] = f[AnyOf(s)] + h[Rest(s)]
            BY <5>1, <3>2, <2>1, Zenon
          <5> QED BY <5>2, <4>3, <4>4, <3>2
        <4>5. CASE ~ (Cardinality(s) <= k)
          BY <4>3, <4>5, <3>2
        <4> QED BY <4>4, <4>5
      <3> QED BY <3>1, <3>2
    <2>3. g = [s \in Part(k+1) |-> g[s]]
      OBVIOUS
    <2>4. Upto(k+1, g)
      <3> HIDE DEF g
      <3> QED BY <2>2, <2>3, Zenon
    <2> HIDE DEF Upto, g
    <2> QED BY <2>4, <1>0
  <1>4. Cardinality(S) \in K
    <2> HIDE DEF K
    <2>1. \A k \in 0..Cardinality(S) : k \in K
      BY <1>0, <1>2, <1>3, Upwards
    <2> QED BY <2>1, <1>0
  <1>5. PICK h : Upto(Cardinality(S), h)
    BY <1>4
  <1>6. Part(Cardinality(S)) = SUBSET S
    BY <1>0
  <1>7. h = [s \in SUBSET S |-> IF s = {} THEN 0 ELSE f[AnyOf(s)] + h[Rest(s)]]
    <2> HIDE DEF Part
    <2> QED BY <1>5, <1>6, Zenon
  <1>8. iter = [s \in SUBSET S |-> IF s = {} THEN 0 ELSE f[AnyOf(s)] + iter[Rest(s)]]
    BY <1>7 DEF iter
  <1>9. SumFunctionOnSet(f, S) = iter[S]
    BY DEF SumFunctionOnSet, FoldFunctionOnSet, MapThenFoldSet, iter, AnyOf, Rest
  <1> HIDE DEF iter
  <1>10. ASSUME NEW s \in SUBSET S PROVE iter[s] = IF s = {} THEN 0 ELSE f[AnyOf(s)] + iter[Rest(s)]
    BY <1>8, Zenon
  <1> QED BY <1>9, <1>10 DEF SumsUp

\* When one value grows by d, the sum of a set that has it grows by d.
LEMMA SumStep ==
    ASSUME NEW S, IsFiniteSet(S), NEW f, NEW g, NEW x, NEW d \in Nat,
           \A y \in S : f[y] \in Nat,
           \A y \in S : g[y] = f[y] + (IF y = x THEN d ELSE 0)
    PROVE  /\ SumFunctionOnSet(f, S) \in Nat
           /\ SumFunctionOnSet(g, S) = SumFunctionOnSet(f, S) + (IF x \in S THEN d ELSE 0)
  <1>1. PICK sumf : SumsUp(sumf, f, S) /\ SumFunctionOnSet(f, S) = sumf[S]
    BY SumIsSum
  <1>2. PICK sumg : SumsUp(sumg, g, S) /\ SumFunctionOnSet(g, S) = sumg[S]
    BY SumIsSum
  <1>3. /\ Cardinality(S) \in Nat
        /\ \A s \in SUBSET S : IsFiniteSet(s) /\ Cardinality(s) \in 0..Cardinality(S)
    <2>1. \A s \in SUBSET S : IsFiniteSet(s) /\ Cardinality(s) \in Nat /\ Cardinality(s) <= Cardinality(S)
      BY FS_Subset, FS_CardinalityType
    <2> QED BY <2>1, FS_CardinalityType
  <1> DEFINE Agree(s) == sumf[s] \in Nat /\ sumg[s] = sumf[s] + (IF x \in s THEN d ELSE 0)
             K == {k \in 0..Cardinality(S) : \A s \in SUBSET S : Cardinality(s) = k => Agree(s)}
  <1>4. 0 \in K
    <2>1. \A s \in SUBSET S : Cardinality(s) = 0 => s = {}
      BY <1>3, FS_EmptySet
    <2> QED BY <1>1, <1>2, <1>3, <2>1 DEF SumsUp
  <1>5. ASSUME NEW k \in 0..(Cardinality(S) - 1), k \in K PROVE k + 1 \in K
    <2> SUFFICES ASSUME NEW s \in SUBSET S, Cardinality(s) = k + 1 PROVE Agree(s)
      BY <1>3
    <2>1. s # {}
      BY <1>3, FS_EmptySet
    <2>2. PICK y \in s : y = AnyOf(s) /\ Rest(s) = s \ {y} /\ Rest(s) \in SUBSET S
      BY <2>1 DEF AnyOf, Rest
    <2>3. Cardinality(Rest(s)) = k
      <3>1. IsFiniteSet(s) /\ Cardinality(s \ {y}) = Cardinality(s) - 1
        BY <1>3, FS_RemoveElement
      <3> QED BY <2>2, <3>1
    <2>4. Agree(Rest(s))
      BY <1>5, <2>2, <2>3
    <2>5. sumf[s] = f[y] + sumf[Rest(s)] /\ sumg[s] = g[y] + sumg[Rest(s)]
      BY <1>1, <1>2, <2>1, <2>2 DEF SumsUp
    <2>6. f[y] \in Nat /\ g[y] = f[y] + (IF y = x THEN d ELSE 0)
      BY <2>2
    <2>7. (x \in s) <=> (x = y \/ x \in Rest(s))
      BY <2>2
    <2>8. x = y => x \notin Rest(s)
      BY <2>2
    <2> HIDE <2>2
    <2> QED BY <2>4, <2>5, <2>6, <2>7, <2>8
  <1>6. Cardinality(S) \in K
    <2> HIDE DEF K
    <2>1. \A k \in 0..Cardinality(S) : k \in K
      BY <1>3, <1>4, <1>5, Upwards
    <2> QED BY <2>1, <1>3
  <1> QED BY <1>1, <1>2, <1>6

\* The sum of zeros.
LEMMA SumOfZeros ==
    ASSUME NEW S, IsFiniteSet(S), NEW f, \A y \in S : f[y] = 0
    PROVE  SumFunctionOnSet(f, S) = 0
  <1>1. PICK sum : SumsUp(sum, f, S) /\ SumFunctionOnSet(f, S) = sum[S]
    BY SumIsSum
  <1>2. /\ Cardinality(S) \in Nat
        /\ \A s \in SUBSET S : IsFiniteSet(s) /\ Cardinality(s) \in 0..Cardinality(S)
    <2>1. \A s \in SUBSET S : IsFiniteSet(s) /\ Cardinality(s) \in Nat /\ Cardinality(s) <= Cardinality(S)
      BY FS_Subset, FS_CardinalityType
    <2> QED BY <2>1, FS_CardinalityType
  <1> DEFINE K == {k \in 0..Cardinality(S) : \A s \in SUBSET S : Cardinality(s) = k => sum[s] = 0}
  <1>3. 0 \in K
    <2>1. \A s \in SUBSET S : Cardinality(s) = 0 => s = {}
      BY <1>2, FS_EmptySet
    <2> QED BY <1>1, <1>2, <2>1 DEF SumsUp
  <1>4. ASSUME NEW k \in 0..(Cardinality(S) - 1), k \in K PROVE k + 1 \in K
    <2> SUFFICES ASSUME NEW s \in SUBSET S, Cardinality(s) = k + 1 PROVE sum[s] = 0
      BY <1>2
    <2>1. s # {}
      BY <1>2, FS_EmptySet
    <2>2. PICK y \in s : y = AnyOf(s) /\ Rest(s) = s \ {y} /\ Rest(s) \in SUBSET S
      BY <2>1 DEF AnyOf, Rest
    <2>3. Cardinality(Rest(s)) = k
      <3>1. IsFiniteSet(s) /\ Cardinality(s \ {y}) = Cardinality(s) - 1
        BY <1>2, FS_RemoveElement
      <3> QED BY <2>2, <3>1
    <2>4. sum[Rest(s)] = 0 /\ f[y] = 0
      BY <1>4, <2>2, <2>3
    <2>5. sum[s] = f[y] + sum[Rest(s)]
      BY <1>1, <2>1, <2>2 DEF SumsUp
    <2> QED BY <2>4, <2>5
  <1>5. Cardinality(S) \in K
    <2> HIDE DEF K
    <2>1. \A k \in 0..Cardinality(S) : k \in K
      BY <1>2, <1>3, <1>4, Upwards
    <2> QED BY <2>1, <1>2
  <1> QED BY <1>1, <1>5

-----------------------------------------------------------------------------
(* Initial pools.                                                          *)

\* A pool as one of the initialize instructions leaves it satisfies Inv.
LEMMA InitInv == Init => Inv
  <1> SUFFICES ASSUME Init PROVE Inv
    OBVIOUS
  <1>1. PICK k \in InlineLengths : commitments \in [1..k -> Notes]
    BY DEF Init
  <1>2. k \in Nat /\ k <= Capacity
    BY <1>1, Facts
  <1>3. commitments \in Seq(Notes) /\ Len(commitments) = k
    BY <1>1, <1>2
  <1>4. nextIndex = k /\ rootCount = k
    BY <1>3 DEF Init
  <1>5. TypeOK
    <2>1. kind \in AllKinds
      BY PoolAssumption DEF Init
    <2>2. DOMAIN roots = 0..(RootHistorySize - 1)
      BY DEF Init
    <2>3. DOMAIN filledSubtrees = Levels
      BY DEF Init
    <2>4. pages \in [PageIndexes -> Page]
      BY Facts DEF Init, NoPage, Page
    <2>5. usedNullifiers \in Seq(Nullifiers) /\ nullifierRecords \subseteq Nullifiers
      BY DEF Init
    <2>6. vault \in Nat
      BY <1>2, <1>4, Facts DEF Init
    <2>7. paid \in [Accounts -> Nat]
      BY DEF Init
    <2> QED BY <1>2, <1>3, <1>4, <2>1, <2>2, <2>3, <2>4, <2>5, <2>6, <2>7 DEF Init, TypeOK
  <1>6. PlaceOK
    BY DEF Init, PlaceOK
  <1>7. Spent = {}
    BY RangeOfEmpty DEF Init, Spent
  <1>8. CountOK
    BY <1>7, FS_EmptySet DEF Init, CountOK
  <1>9. MoneyOK
    BY <1>2, <1>4 DEF Init, MoneyOK
  <1> QED BY <1>5, <1>6, <1>8, <1>9 DEF Inv

-----------------------------------------------------------------------------
(* Deposits.                                                               *)

\* A new leaf adds one deposit to the vault and one to the counter.
LEMMA AppendLeafFacts ==
    ASSUME Inv, NEW n \in Notes, AppendLeaf(n)
    PROVE  /\ nextIndex' \in 0..Capacity /\ rootCount' \in Nat
           /\ DOMAIN roots' = 0..(RootHistorySize - 1) /\ DOMAIN filledSubtrees' = Levels
           /\ vault' \in Nat
           /\ vault' = DepositAmount * (nextIndex' - nullifierCount)
  <1>1. nextIndex \in 0..Capacity /\ rootCount \in Nat /\ vault \in Nat /\ nullifierCount \in Nat
        /\ DOMAIN roots = 0..(RootHistorySize - 1)
    BY DEF Inv, TypeOK
  <1>2. nextIndex < Capacity /\ nextIndex' = nextIndex + 1 /\ rootCount' = rootCount + 1
        /\ vault' = vault + DepositAmount
    BY DEF AppendLeaf
  <1>3. DOMAIN roots' = DOMAIN roots
    BY DEF AppendLeaf
  <1>4. DOMAIN filledSubtrees' = Levels
    BY DEF AppendLeaf, Insert
  <1>5. nextIndex' - nullifierCount = (nextIndex - nullifierCount) + 1
    BY <1>1, <1>2
  <1>6. vault' = DepositAmount * (nextIndex' - nullifierCount)
    BY <1>1, <1>2, <1>5, OneDeposit, Facts DEF Inv, MoneyOK
  <1> QED BY <1>1, <1>2, <1>3, <1>4, <1>6, Facts

\* The deposit into the leaves array of the oldest pools.
LEMMA DepositPreservesInv ==
    ASSUME Inv, NEW n \in Notes, AppendLeaf(n),
           commitments' \in Seq(Notes),
           pages' \in [PageIndexes -> Page],
           UNCHANGED <<kind, spend, treasury, paid, proofs>>
    PROVE  Inv'
  <1>1. TypeOK'
    BY AppendLeafFacts DEF Inv, TypeOK, spend
  <1>2. Spent' = Spent
    BY DEF Spent, spend
  <1>3. PlaceOK' /\ CountOK' /\ MoneyOK'
    BY <1>2, AppendLeafFacts DEF Inv, PlaceOK, CountOK, MoneyOK, spend
  <1> QED BY <1>1, <1>3 DEF Inv

\* Appending a leaf to its page leaves well-formed pages.
LEMMA AppendCommitmentPageType ==
    ASSUME Inv, NEW n \in Notes, NEW index \in PageIndexes, NEW offset \in Nat,
           offset < PageCapacity, AppendCommitmentPage(index, offset, n)
    PROVE  pages' \in [PageIndexes -> Page]
  <1> DEFINE page == OpenPage(pages, index, offset)
  <1>1. pages \in [PageIndexes -> Page]
    BY DEF Inv, TypeOK
  <1>2. page \in Page
    BY <1>1, Facts DEF OpenPage, NoPage, Page
  <1>3. offset - page.start = page.count /\ page.count < PageCapacity
        /\ pages' = [pages EXCEPT ![index] = [page EXCEPT !.count = @ + 1, !.leaves = Append(@, n)]]
    BY DEF AppendCommitmentPage, NextOfPage
  <1> HIDE DEF page
  <1>4. page.count + 1 \in 0..PageCapacity /\ Append(page.leaves, n) \in Seq(Notes)
    BY <1>2, <1>3, Facts DEF Page
  <1>5. [page EXCEPT !.count = @ + 1, !.leaves = Append(@, n)] \in Page
    BY <1>2, <1>4 DEF Page
  <1> QED BY <1>1, <1>3, <1>5

\* A deposit that writes the leaf to a commitment page.
LEMMA DepositPagedPreservesInv ==
    ASSUME Inv, NEW n \in Notes, NEW index \in PageIndexes, DepositPaged(n, index)
    PROVE  Inv'
  <1>1. nextIndex % PageCapacity \in Nat /\ nextIndex % PageCapacity < PageCapacity
    BY Facts DEF Inv, TypeOK
  <1>2. AppendCommitmentPage(index, nextIndex % PageCapacity, n) /\ AppendLeaf(n)
        /\ commitments' = commitments /\ UNCHANGED <<kind, spend, treasury, paid, proofs>>
    BY DEF DepositPaged
  <1>3. commitments' \in Seq(Notes)
    BY <1>2 DEF Inv, TypeOK
  <1>4. pages' \in [PageIndexes -> Page]
    BY <1>1, <1>2, AppendCommitmentPageType
  <1> QED BY <1>2, <1>3, <1>4, DepositPreservesInv

\* Whichever instruction the kind of the pool calls for.
LEMMA DepositNextPreservesInv == Inv /\ DepositNext => Inv'
  <1> SUFFICES ASSUME Inv, NEW n \in Notes,
                      \/ Deposit(n)
                      \/ \E index \in PageIndexes : DepositPaged(n, index)
               PROVE  Inv'
    BY DEF DepositNext, DepositV2, DepositSpl, DepositFeeV2, DepositFeeSpl
  <1>1. CASE Deposit(n)
    <2>1. AppendLeaf(n) /\ commitments' = Append(commitments, n) /\ pages' = pages
          /\ UNCHANGED <<kind, spend, treasury, paid, proofs>>
      BY <1>1 DEF Deposit
    <2>2. commitments' \in Seq(Notes)
      BY <2>1 DEF Inv, TypeOK
    <2> QED BY <2>1, <2>2, DepositPreservesInv DEF Inv, TypeOK
  <1>2. CASE \E index \in PageIndexes : DepositPaged(n, index)
    BY <1>2, DepositPagedPreservesInv
  <1> QED BY <1>1, <1>2

-----------------------------------------------------------------------------
(* Withdrawals.                                                            *)

\* A payment splits one deposit between a recipient, the relayer and a treasury.
LEMMA PayFacts ==
    ASSUME Inv, NEW r, NEW amount \in Nat, NEW fee \in Nat, NEW t, NEW protocolFee \in Nat,
           amount + fee + protocolFee = DepositAmount,
           Pay(r, amount, fee, t, protocolFee)
    PROVE  /\ vault' \in Nat /\ vault' = vault - DepositAmount
           /\ paid' \in [Accounts -> Nat]
           /\ UNCHANGED <<kind, tree, treasury, proofs>>
  <1> DEFINE due == [a \in Accounts |-> IF a = r THEN amount ELSE IF a = Relayer THEN fee
                                        ELSE IF a = t THEN protocolFee ELSE 0]
  <1>1. due \in [Accounts -> Nat]
    OBVIOUS
  <1>2. paid' = [a \in Accounts |-> paid[a] + due[a]]
    BY DEF Pay
  <1> HIDE DEF due
  <1>3. paid \in [Accounts -> Nat] /\ vault \in Nat
    BY DEF Inv, TypeOK
  <1>4. paid' \in [Accounts -> Nat]
    BY <1>1, <1>2, <1>3
  <1>5. DepositAmount <= vault /\ vault' = vault - DepositAmount
    BY DEF Pay
  <1> QED BY <1>3, <1>4, <1>5, Facts DEF Pay

\* Whatever it pays to whom, a withdrawal takes one deposit out of the vault.
PaysDeposit ==
    /\ vault' \in Nat /\ vault' = vault - DepositAmount
    /\ paid' \in [Accounts -> Nat]
    /\ UNCHANGED <<kind, tree, treasury, proofs>>

\* Each of the ten withdrawals takes exactly one deposit from the vault.
LEMMA WithdrawalsPayDeposit ==
    ASSUME Inv, NEW r, NEW fee \in Nat, NEW t
    PROVE  /\ PayRecipient(r) => PaysDeposit
           /\ PayRelayed(r, fee) => PaysDeposit
           /\ PayWithFees(r, fee, t) => PaysDeposit
  <1>1. DepositAmount \in Nat /\ ProtocolFee \in Nat
    BY Facts, ProtocolFeeType
  <1>2. ASSUME PayRecipient(r) PROVE PaysDeposit
    BY <1>1, <1>2, PayFacts DEF PayRecipient, PaysDeposit
  <1>3. ASSUME PayRelayed(r, fee) PROVE PaysDeposit
    <2>1. DepositAmount - fee \in Nat /\ (DepositAmount - fee) + fee + 0 = DepositAmount
      BY <1>1, <1>3 DEF PayRelayed
    <2> QED BY <1>3, <2>1, PayFacts DEF PayRelayed, PaysDeposit
  <1>4. ASSUME PayWithFees(r, fee, t) PROVE PaysDeposit
    <2> DEFINE amount == DepositAmount - ProtocolFee - fee
    <2>1. amount \in Nat /\ amount + fee + ProtocolFee = DepositAmount
      BY <1>1, <1>4 DEF PayWithFees
    <2>2. Pay(r, amount, fee, t, ProtocolFee)
      BY <1>4 DEF PayWithFees
    <2> HIDE DEF amount
    <2> QED BY <1>1, <2>1, <2>2, PayFacts DEF PaysDeposit
  <1> QED BY <1>2, <1>3, <1>4

\* A nullifier is used only once, in the one place its pool has for nullifiers.
UsesOnce(nullifier) ==
    /\ nullifier \in Nullifiers /\ nullifier \notin Spent
    /\ Spent' = Spent \cup {nullifier}
    /\ nullifierCount' = nullifierCount + 1
    /\ usedNullifiers' \in Seq(Nullifiers) /\ nullifierRecords' \subseteq Nullifiers
    /\ kind = "legacy" => nullifierRecords' = {}
    /\ kind # "legacy" => usedNullifiers' = <<>>

\* A nullifier one of the two records holds is refused, so a new one is new to
\* the pool's array and to the nullifier accounts alike.
LEMMA NullifierUsedOnce ==
    ASSUME Inv, NEW nullifier \in Nullifiers
    PROVE  /\ kind = "legacy" /\ UseNullifier(nullifier) => UsesOnce(nullifier)
           /\ kind # "legacy" /\ RecordNullifier(nullifier) => UsesOnce(nullifier)
  <1>1. usedNullifiers \in Seq(Nullifiers) /\ nullifierRecords \subseteq Nullifiers
    BY DEF Inv, TypeOK
  <1>2. ASSUME kind = "legacy", UseNullifier(nullifier) PROVE UsesOnce(nullifier)
    <2>1. nullifierRecords = {} /\ nullifierRecords' = {}
      BY <1>2 DEF Inv, PlaceOK, UseNullifier
    <2>2. Range(usedNullifiers') = Range(usedNullifiers) \cup {nullifier}
      BY <1>1, <1>2, RangeOfAppend DEF UseNullifier
    <2>3. usedNullifiers' \in Seq(Nullifiers)
      BY <1>1, <1>2 DEF UseNullifier
    <2> QED BY <1>2, <2>1, <2>2, <2>3 DEF UseNullifier, UsesOnce, Spent
  <1>3. ASSUME kind # "legacy", RecordNullifier(nullifier) PROVE UsesOnce(nullifier)
    <2>1. usedNullifiers = <<>> /\ usedNullifiers' = <<>>
      BY <1>3 DEF Inv, PlaceOK, RecordNullifier
    <2>2. Range(usedNullifiers) = {} /\ Range(usedNullifiers') = {}
      BY <2>1, RangeOfEmpty
    <2>3. nullifierRecords' \subseteq Nullifiers
      BY <1>1, <1>3 DEF RecordNullifier
    <2> QED BY <1>1, <1>3, <2>1, <2>2, <2>3 DEF RecordNullifier, UsesOnce, Spent
  <1> QED BY <1>2, <1>3

\* A withdrawal counts one nullifier more and one deposit less, together.
LEMMA WithdrawalPreservesInv ==
    ASSUME Inv, NEW nullifier, UsesOnce(nullifier), PaysDeposit
    PROVE  Inv'
  <1>1. nextIndex' = nextIndex /\ kind' = kind
    BY DEF PaysDeposit, tree
  <1>2. nullifierCount \in Nat /\ nextIndex \in Nat /\ vault \in Nat
    BY Facts DEF Inv, TypeOK
  <1>3. TypeOK'
    BY <1>2 DEF Inv, TypeOK, UsesOnce, PaysDeposit, tree
  <1>4. PlaceOK'
    BY <1>1 DEF UsesOnce, PlaceOK
  <1>5. CountOK'
    BY FS_AddElement DEF Inv, CountOK, UsesOnce
  <1>6. MoneyOK'
    <2>1. nextIndex' - nullifierCount' = (nextIndex - nullifierCount) - 1
      BY <1>1, <1>2 DEF UsesOnce
    <2>2. DepositAmount * (nextIndex' - nullifierCount')
              = DepositAmount * (nextIndex - nullifierCount) - DepositAmount
      BY <1>2, <2>1, OneDeposit, Facts
    <2> QED BY <2>2 DEF Inv, MoneyOK, PaysDeposit
  <1> QED BY <1>3, <1>4, <1>5, <1>6 DEF Inv

\* Every kind of withdrawal pays one deposit for one nullifier.
LEMMA EveryWithdrawal ==
    ASSUME Inv, NEW proof \in proofs, NEW r \in Recipients,
           \/ DirectNext(proof, r)
           \/ \E fee \in RelayerFees : RelayedNext(proof, r, fee)
    PROVE  PaysDeposit /\ UsesOnce(proof.nullifier)
  <1> DEFINE Legacy == kind = "legacy" /\ UseNullifier(proof.nullifier)
             Paged  == kind # "legacy" /\ RecordNullifier(proof.nullifier)
             Money  == \/ PayRecipient(r)
                       \/ \E fee \in RelayerFees : PayRelayed(r, fee)
                       \/ \E fee \in RelayerFees \cup {0}, t \in Treasuries : PayWithFees(r, fee, t)
  <1>1. proof.nullifier \in Nullifiers
    BY DEF Inv, TypeOK
  <1>2. (Legacy \/ Paged) /\ Money
    <2>1. CASE DirectNext(proof, r)
      BY <2>1, Zenon DEF DirectNext, WithdrawZk, WithdrawZkV2, WithdrawZkSpl, WithdrawZkFeeV2,
                         WithdrawZkFeeSpl
    <2>2. CASE \E fee \in RelayerFees : RelayedNext(proof, r, fee)
      BY <2>2, Zenon DEF RelayedNext, WithdrawZkRelayed, WithdrawZkRelayedV2,
                         WithdrawZkRelayedSpl, WithdrawZkRelayedFeeV2, WithdrawZkRelayedFeeSpl
    <2> QED BY <2>1, <2>2
  <1>3. UsesOnce(proof.nullifier)
    BY <1>1, <1>2, NullifierUsedOnce
  <1>4. RelayerFees \cup {0} \subseteq Nat
    BY Facts
  <1>5. PaysDeposit
    BY <1>2, <1>4, WithdrawalsPayDeposit
  <1> QED BY <1>3, <1>5

-----------------------------------------------------------------------------
(* The theorems.                                                           *)

\* Every step of a pool preserves Inv.
LEMMA NextInv == Inv /\ [Next]_vars => Inv'
  <1> SUFFICES ASSUME Inv, [Next]_vars PROVE Inv'
    OBVIOUS
  <1>1. CASE DepositNext
    BY <1>1, DepositNextPreservesInv
  <1>2. CASE \E n \in Notes, r \in Recipients : Prove(n, r)
    <2>1. PICK n \in Notes, r \in Recipients : Prove(n, r)
      BY <1>2
    <2>2. UNCHANGED <<kind, tree, spend, treasury, vault, paid>>
      BY <2>1 DEF Prove
    <2>3. \E root : proofs' = proofs \cup {[root |-> root, nullifier |-> NullifierOf[n],
                                             recipient |-> RecipientInput[r]]}
      BY <2>1 DEF Prove
    <2>4. \A proof \in proofs' : proof.nullifier \in Nullifiers /\ proof.recipient \in Range(RecipientInput)
      BY <2>3, PoolAssumption DEF Inv, TypeOK, Nullifiers, Range
    <2>5. TypeOK'
      BY <2>2, <2>4 DEF Inv, TypeOK, tree, spend
    <2> QED BY <2>2, <2>5 DEF Inv, PlaceOK, CountOK, MoneyOK, Spent, tree, spend
  <1>3. CASE \E proof \in proofs, r \in Recipients :
                DirectNext(proof, r) \/ \E fee \in RelayerFees : RelayedNext(proof, r, fee)
    BY <1>3, EveryWithdrawal, WithdrawalPreservesInv
  <1>4. CASE \E x \in OtherNullifiers, r \in Recipients : ProveOtherwise(x, r)
    <2>1. PICK x \in OtherNullifiers, r \in Recipients : ProveOtherwise(x, r)
      BY <1>4
    <2>2. UNCHANGED <<kind, tree, spend, treasury, vault, paid>>
      BY <2>1 DEF ProveOtherwise
    <2>3. \E root : proofs' = proofs \cup {[root |-> root, nullifier |-> x,
                                             recipient |-> RecipientInput[r]]}
      BY <2>1 DEF ProveOtherwise
    <2>4. \A proof \in proofs' : proof.nullifier \in Nullifiers /\ proof.recipient \in Range(RecipientInput)
      BY <2>3, PoolAssumption DEF Inv, TypeOK, Nullifiers, Range
    <2>5. TypeOK'
      BY <2>2, <2>4 DEF Inv, TypeOK, tree, spend
    <2> QED BY <2>2, <2>5 DEF Inv, PlaceOK, CountOK, MoneyOK, Spent, tree, spend
  <1>5. CASE \E t \in Treasuries : UpdateTreasury(t)
    BY <1>5 DEF UpdateTreasury, Inv, TypeOK, PlaceOK, CountOK, MoneyOK, Spent, tree, spend
  <1>6. CASE UNCHANGED vars
    BY <1>6 DEF vars, Inv, TypeOK, PlaceOK, CountOK, MoneyOK, Spent, tree, spend
  <1> QED BY <1>1, <1>2, <1>3, <1>4, <1>5, <1>6 DEF Next

\* The invariant of this module holds of every pool.
THEOREM InvAlways == Spec => []Inv
  BY InitInv, NextInv, PTL DEF Spec

\* The counters, the page, the balances and the vault of a pool keep their types:
\* above all, no payment takes more out of the vault than it holds.
THEOREM TypeCorrect == Spec => []TypeOK
  <1>1. Inv => TypeOK
    BY DEF Inv
  <1> QED BY <1>1, InvAlways, PTL

\* The vault always holds one deposit for each leaf of the tree, less one for each
\* spent nullifier, whatever fees were paid and to which treasury.
THEOREM PoolSolvent == Spec => []Solvent
  <1>1. Inv => Solvent
    BY DEF Inv, CountOK, MoneyOK, Solvent
  <1> QED BY <1>1, InvAlways, PTL

-----------------------------------------------------------------------------
(* What a client lists.                                                    *)

\* mergeCommitmentSources, for any inline leaves, pages and number of leaves.
InPage(pgs, i, p) ==
    LET local == i - p * PageCapacity - pgs[p].start
    IN  0 <= local /\ local < pgs[p].count

Merge(inline, pgs, n) ==
    [i \in 1..n |->
        IF \E p \in PageIndexes : InPage(pgs, i - 1, p)
        THEN LET p == CHOOSE p \in PageIndexes : InPage(pgs, i - 1, p)
             IN  pgs[p].leaves[i - p * PageCapacity - pgs[p].start]
        ELSE IF i <= Len(inline) THEN inline[i] ELSE ZeroLeaf]

\* A page holds the leaves of its interval from the first that is not inline to
\* the last of the pool; a page without such leaves does not exist.
PageOf(page, p, c, n) ==
    LET base  == p * PageCapacity
        first == IF c > base THEN c ELSE base
        end   == IF n < base + PageCapacity THEN n ELSE base + PageCapacity
    IN  IF first < end
        THEN page.start = first - base /\ page.count = end - first /\ Len(page.leaves) = end - first
        ELSE page = NoPage

PagesFor(pgs, c, n) == \A p \in PageIndexes : PageOf(pgs[p], p, c, n)

\* The page a leaf is in is the one of its interval.
LEMMA PageIndexOf ==
    ASSUME NEW i \in Nat, i <= Capacity
    PROVE  i \div PageCapacity \in PageIndexes
  <1>1. PICK q \in Nat : q = i \div PageCapacity /\ q * PageCapacity <= i
    BY Facts, DivMod, DivIff
  <1>2. PICK k \in Nat : k = Capacity \div PageCapacity /\ Capacity < k * PageCapacity + PageCapacity
    BY Facts, DivMod, DivIff
  <1>3. ~ (k < q)
    <2>1. k < q => k * PageCapacity + PageCapacity <= q * PageCapacity
      BY Facts, Times
    <2>2. q * PageCapacity \in Nat /\ k * PageCapacity \in Nat
      BY Facts
    <2> QED BY <1>1, <1>2, <2>1, <2>2, Facts
  <1> QED BY <1>1, <1>2, <1>3, Facts DEF PageIndexes

\* Leaf i is in page p if it is not inline and p is the page of its interval.
LEMMA InPageIff ==
    ASSUME NEW pgs \in [PageIndexes -> Page], NEW c \in Nat, NEW n \in Nat,
           PagesFor(pgs, c, n), NEW p \in PageIndexes, NEW i \in Nat, i < n
    PROVE  /\ InPage(pgs, i, p) <=> (c <= i /\ i \div PageCapacity = p)
           /\ InPage(pgs, i, p) => i - p * PageCapacity - pgs[p].start + 1 \in 1..Len(pgs[p].leaves)
  <1>1. p \in Nat /\ PageCapacity \in Nat \ {0}
    BY Facts DEF PageIndexes
  <1>2. PICK base \in Nat : base = p * PageCapacity
    BY <1>1
  <1>3. (i \div PageCapacity = p) <=> (base <= i /\ i < base + PageCapacity)
    BY <1>1, <1>2, DivIff
  <1> DEFINE first == IF c > base THEN c ELSE base
             end   == IF n < base + PageCapacity THEN n ELSE base + PageCapacity
  <1>4. IF first < end
        THEN pgs[p].start = first - base /\ pgs[p].count = end - first
             /\ Len(pgs[p].leaves) = end - first
        ELSE pgs[p] = NoPage
    BY <1>2 DEF PagesFor, PageOf
  <1>5. InPage(pgs, i, p) <=> (0 <= i - base - pgs[p].start /\ i - base - pgs[p].start < pgs[p].count)
    BY <1>2 DEF InPage
  <1>6. CASE first < end
    <2>1. InPage(pgs, i, p) <=> (first <= i /\ i < end)
      BY <1>1, <1>4, <1>5, <1>6
    <2>2. (first <= i /\ i < end) <=> (c <= i /\ base <= i /\ i < base + PageCapacity)
      BY <1>1
    <2>3. ASSUME InPage(pgs, i, p)
          PROVE  i - p * PageCapacity - pgs[p].start + 1 \in 1..Len(pgs[p].leaves)
      <3>1. first <= i /\ i < end /\ first \in Nat /\ end \in Nat
        BY <1>1, <2>1, <2>3
      <3>2. Len(pgs[p].leaves) = end - first /\ pgs[p].start = first - base
        BY <1>4, <1>6
      <3> HIDE DEF first, end
      <3>3. i - base - (first - base) + 1 \in 1..(end - first)
        BY <3>1
      <3> QED BY <1>2, <3>2, <3>3
    <2> QED BY <1>1, <1>3, <2>1, <2>2, <2>3
  <1>7. CASE ~ (first < end)
    <2>1. pgs[p].count = 0 /\ pgs[p].start = 0
      BY <1>4, <1>7 DEF NoPage
    <2>2. ~ InPage(pgs, i, p)
      BY <1>5, <2>1
    <2> QED BY <1>1, <1>3, <1>7, <2>2
  <1> QED BY <1>6, <1>7

\* What the client lists: inline leaves first, then each leaf from its page.
LEMMA MergeAt ==
    ASSUME NEW inline \in Seq(Notes), NEW pgs \in [PageIndexes -> Page], NEW n \in 0..Capacity,
           Len(inline) <= n, PagesFor(pgs, Len(inline), n), NEW i \in 1..n
    PROVE  LET p     == (i - 1) \div PageCapacity
               entry == i - p * PageCapacity - pgs[p].start
           IN  /\ i <= Len(inline) => Merge(inline, pgs, n)[i] = inline[i]
               /\ i > Len(inline) => /\ p \in PageIndexes /\ entry \in 1..Len(pgs[p].leaves)
                                     /\ Merge(inline, pgs, n)[i] = pgs[p].leaves[entry]
  <1> DEFINE p == (i - 1) \div PageCapacity
  <1>1. i - 1 \in Nat /\ i - 1 < n /\ i - 1 <= Capacity /\ n \in Nat /\ Len(inline) \in Nat
    BY Facts
  <1>2. p \in PageIndexes
    BY <1>1, PageIndexOf
  <1>3. \A q \in PageIndexes : InPage(pgs, i - 1, q) <=> (Len(inline) <= i - 1 /\ p = q)
    BY <1>1, InPageIff
  <1>4. ASSUME i <= Len(inline) PROVE Merge(inline, pgs, n)[i] = inline[i]
    <2>1. ~ \E q \in PageIndexes : InPage(pgs, i - 1, q)
      BY <1>1, <1>3, <1>4
    <2> QED BY <1>4, <2>1 DEF Merge
  <1>5. ASSUME i > Len(inline)
        PROVE  /\ i - p * PageCapacity - pgs[p].start \in 1..Len(pgs[p].leaves)
               /\ Merge(inline, pgs, n)[i] = pgs[p].leaves[i - p * PageCapacity - pgs[p].start]
    <2>1. InPage(pgs, i - 1, p) /\ \A q \in PageIndexes : InPage(pgs, i - 1, q) => q = p
      BY <1>1, <1>2, <1>3, <1>5
    <2>2. (CHOOSE q \in PageIndexes : InPage(pgs, i - 1, q)) = p
      <3> HIDE DEF p
      <3> QED BY <1>2, <2>1
    <2>3. Merge(inline, pgs, n)[i] = pgs[p].leaves[i - p * PageCapacity - pgs[p].start]
      <3> HIDE DEF p
      <3> QED BY <1>2, <2>1, <2>2 DEF Merge
    <2>4. (i - 1) - p * PageCapacity - pgs[p].start + 1 \in 1..Len(pgs[p].leaves)
      BY <1>1, <1>2, <2>1, InPageIff
    <2>5. (i - 1) - p * PageCapacity - pgs[p].start + 1 = i - p * PageCapacity - pgs[p].start
      <3>1. p \in Nat /\ pgs[p].start \in Nat
        BY <1>2, Facts DEF PageIndexes, Page
      <3>2. p * PageCapacity \in Nat
        BY <3>1, Facts
      <3> HIDE DEF p
      <3> QED BY <3>1, <3>2
    <2> QED BY <2>3, <2>4, <2>5
  <1> QED BY <1>2, <1>4, <1>5

\* The list is one of notes, as long as the tree.
LEMMA MergeType ==
    ASSUME NEW inline \in Seq(Notes), NEW pgs \in [PageIndexes -> Page], NEW n \in 0..Capacity,
           Len(inline) <= n, PagesFor(pgs, Len(inline), n)
    PROVE  /\ Merge(inline, pgs, n) \in [1..n -> Notes]
           /\ Merge(inline, pgs, n) \in Seq(Notes) /\ Len(Merge(inline, pgs, n)) = n
  <1>1. n \in Nat
    BY Facts
  <1>2. ASSUME NEW i \in 1..n PROVE Merge(inline, pgs, n)[i] \in Notes
    <2>1. CASE i <= Len(inline)
      BY <2>1, MergeAt
    <2>2. CASE ~ (i <= Len(inline))
      <3>1. PICK p \in PageIndexes : \E entry \in 1..Len(pgs[p].leaves) :
                Merge(inline, pgs, n)[i] = pgs[p].leaves[entry]
        BY <1>1, <2>2, MergeAt
      <3>2. pgs[p].leaves \in Seq(Notes)
        BY DEF Page
      <3> QED BY <3>1, <3>2
    <2> QED BY <2>1, <2>2
  <1>3. Merge(inline, pgs, n) \in [1..n -> Notes]
    BY <1>2 DEF Merge
  <1> QED BY <1>1, <1>3

\* Two lists are one after the other if they agree but for the last leaf.
LEMMA GrownList ==
    ASSUME NEW n \in Nat, NEW s \in Seq(Notes), Len(s) = n, NEW note \in Notes,
           NEW t \in Seq(Notes), Len(t) = n + 1, t[n + 1] = note,
           \A i \in 1..n : t[i] = s[i]
    PROVE  t = Append(s, note)
  <1>1. Append(s, note) \in Seq(Notes) /\ Len(Append(s, note)) = n + 1
        /\ Append(s, note)[n + 1] = note /\ \A i \in 1..n : Append(s, note)[i] = s[i]
    OBVIOUS
  <1>2. \A i \in 1..(n + 1) : t[i] = Append(s, note)[i]
    <2>1. \A i \in 1..(n + 1) : i = n + 1 \/ i \in 1..n
      OBVIOUS
    <2> QED BY <1>1, <2>1
  <1> QED BY <1>1, <1>2, SeqEqual

\* A deposit among the inline leaves of a pool without pages is listed last.
LEMMA InlineGrows ==
    ASSUME NEW inline \in Seq(Notes), NEW pgs \in [PageIndexes -> Page], NEW n \in 0..Capacity,
           n < Capacity, Len(inline) = n, PagesFor(pgs, n, n), NEW note \in Notes
    PROVE  /\ PagesFor(pgs, n + 1, n + 1)
           /\ Merge(Append(inline, note), pgs, n + 1) = Append(Merge(inline, pgs, n), note)
  <1>1. n \in Nat /\ n + 1 \in 0..Capacity /\ PageCapacity \in Nat \ {0}
    BY Facts
  <1>2. \A m \in Nat, base \in Nat : ~ ((IF m > base THEN m ELSE base)
                                   < (IF m < base + PageCapacity THEN m ELSE base + PageCapacity))
    BY <1>1
  <1>3. \A p \in PageIndexes : p * PageCapacity \in Nat
    BY Facts DEF PageIndexes
  <1>4. PagesFor(pgs, n + 1, n + 1)
    BY <1>1, <1>2, <1>3 DEF PagesFor, PageOf
  <1> DEFINE longer == Append(inline, note)
  <1>5. longer \in Seq(Notes) /\ Len(longer) = n + 1 /\ longer[n + 1] = note
        /\ \A i \in 1..n : longer[i] = inline[i]
    OBVIOUS
  <1> HIDE DEF longer
  <1>6. \A i \in 1..n : Merge(inline, pgs, n)[i] = inline[i]
    BY <1>1, MergeAt
  <1>7. \A i \in 1..(n + 1) : Merge(longer, pgs, n + 1)[i] = longer[i]
    BY <1>1, <1>4, <1>5, MergeAt
  <1>8. Merge(inline, pgs, n) \in Seq(Notes) /\ Len(Merge(inline, pgs, n)) = n
    BY <1>1, MergeType
  <1>9. Merge(longer, pgs, n + 1) \in Seq(Notes) /\ Len(Merge(longer, pgs, n + 1)) = n + 1
    BY <1>1, <1>4, <1>5, MergeType
  <1>10. Merge(longer, pgs, n + 1) = Append(Merge(inline, pgs, n), note)
    <2>1. n + 1 \in 1..(n + 1) /\ \A i \in 1..n : i \in 1..(n + 1)
      BY <1>1
    <2> QED BY <1>1, <1>5, <1>6, <1>7, <1>8, <1>9, <2>1, GrownList
  <1> QED BY <1>4, <1>10 DEF longer

\* Leaf n is added to page number index, and nothing else is changed.
LeafAdded(pgs, grown, index, n, note) ==
    /\ \A p \in PageIndexes : p # index => grown[p] = pgs[p]
    /\ \A k \in 1..Len(pgs[index].leaves) :
          grown[index].start = pgs[index].start /\ grown[index].leaves[k] = pgs[index].leaves[k]
    /\ grown[index].leaves[(n + 1) - index * PageCapacity - grown[index].start] = note

\* A leaf added to its page is listed last if the leaves before it stay in place.
LEMMA PagedGrows ==
    ASSUME NEW inline \in Seq(Notes), NEW pgs \in [PageIndexes -> Page], NEW n \in 0..Capacity,
           n < Capacity, Len(inline) <= n, PagesFor(pgs, Len(inline), n), NEW note \in Notes,
           NEW index \in PageIndexes, index = n \div PageCapacity,
           NEW grown \in [PageIndexes -> Page], PagesFor(grown, Len(inline), n + 1),
           LeafAdded(pgs, grown, index, n, note)
    PROVE  Merge(inline, grown, n + 1) = Append(Merge(inline, pgs, n), note)
  <1>1. n \in Nat /\ n + 1 \in 0..Capacity /\ Len(inline) \in Nat /\ Len(inline) <= n + 1
    BY Facts
  <1>2. Merge(inline, pgs, n) \in Seq(Notes) /\ Len(Merge(inline, pgs, n)) = n
    BY MergeType
  <1>3. Merge(inline, grown, n + 1) \in Seq(Notes) /\ Len(Merge(inline, grown, n + 1)) = n + 1
    BY <1>1, MergeType
  <1>4. Merge(inline, grown, n + 1)[n + 1] = note
    <2>1. n + 1 \in 1..(n + 1) /\ n + 1 > Len(inline) /\ (n + 1) - 1 = n
      BY <1>1
    <2>2. Merge(inline, grown, n + 1)[n + 1]
            = grown[index].leaves[(n + 1) - index * PageCapacity - grown[index].start]
      BY <1>1, <2>1, MergeAt
    <2> QED BY <2>2 DEF LeafAdded
  <1>5. ASSUME NEW i \in 1..n PROVE Merge(inline, grown, n + 1)[i] = Merge(inline, pgs, n)[i]
    <2>1. i \in 1..(n + 1) /\ i \in Nat
      BY <1>1
    <2>2. CASE i <= Len(inline)
      <3>1. Merge(inline, grown, n + 1)[i] = inline[i]
        BY <1>1, <2>1, <2>2, MergeAt
      <3>2. Merge(inline, pgs, n)[i] = inline[i]
        BY <2>2, MergeAt
      <3> QED BY <3>1, <3>2
    <2>3. CASE i > Len(inline)
      <3>1. PICK p : p = (i - 1) \div PageCapacity
        OBVIOUS
      <3>2. /\ p \in PageIndexes
            /\ i - p * PageCapacity - pgs[p].start \in 1..Len(pgs[p].leaves)
            /\ Merge(inline, pgs, n)[i] = pgs[p].leaves[i - p * PageCapacity - pgs[p].start]
        BY <2>3, <3>1, MergeAt
      <3>3. Merge(inline, grown, n + 1)[i] = grown[p].leaves[i - p * PageCapacity - grown[p].start]
        <4>1. PICK m \in 0..Capacity : m = n + 1 /\ i \in 1..m /\ Len(inline) <= m
          BY <1>1, <2>1
        <4>2. PagesFor(grown, Len(inline), m)
          BY <4>1
        <4>3. Merge(inline, grown, m)[i] = grown[p].leaves[i - p * PageCapacity - grown[p].start]
          BY <2>3, <3>1, <4>1, <4>2, MergeAt
        <4> QED BY <4>1, <4>3
      <3>4. CASE p # index
        BY <3>2, <3>3, <3>4 DEF LeafAdded
      <3>5. CASE p = index
        BY <3>2, <3>3, <3>5 DEF LeafAdded
      <3> QED BY <3>4, <3>5
    <2> QED BY <1>1, <2>1, <2>2, <2>3
  <1> QED BY <1>1, <1>2, <1>3, <1>4, <1>5, GrownList

\* A page holds the leaves from base that are not inline, of the first n.
HoldsUpTo(page, c, base, n) ==
    LET first == IF c > base THEN c ELSE base
    IN  page.start = first - base /\ page.count = n - first /\ Len(page.leaves) = n - first

\* The page that the next leaf goes to, found or created, holds the leaves of its
\* interval so far.
LEMMA OpenPageFacts ==
    ASSUME NEW c \in Nat, NEW pgs, NEW n \in Nat, c <= n, PagesFor(pgs, c, n),
           NEW index \in PageIndexes, NEW base \in Nat, base = index * PageCapacity,
           base <= n, n < base + PageCapacity
    PROVE  HoldsUpTo(OpenPage(pgs, index, n - base), c, base, n)
  <1> DEFINE first == IF c > base THEN c ELSE base
  <1>0. PICK page : page = OpenPage(pgs, index, n - base)
    OBVIOUS
  <1>1. PageCapacity \in Nat \ {0} /\ first \in Nat /\ first <= n
    BY Facts
  <1>2. IF first < n THEN pgs[index].start = first - base /\ pgs[index].count = n - first
                          /\ Len(pgs[index].leaves) = n - first
        ELSE pgs[index] = NoPage
    BY <1>1 DEF PagesFor, PageOf
  <1>3. ASSUME first < n
        PROVE  page.start = first - base /\ page.count = n - first /\ Len(page.leaves) = n - first
    <2>1. pgs[index] # NoPage
      BY <1>1, <1>2, <1>3 DEF NoPage
    <2> QED BY <1>0, <1>2, <1>3, <2>1 DEF OpenPage
  <1>4. ASSUME ~ (first < n)
        PROVE  page.start = first - base /\ page.count = n - first /\ Len(page.leaves) = n - first
    <2>1. first = n
      BY <1>1, <1>4
    <2>2. page = [NoPage EXCEPT !.start = n - base]
      BY <1>0, <1>2, <1>4 DEF OpenPage
    <2>3. page.start = n - base /\ page.count = 0 /\ page.leaves = <<>>
      BY <2>2 DEF NoPage
    <2> QED BY <1>1, <2>1, <2>3
  <1> QED BY <1>0, <1>3, <1>4 DEF HoldsUpTo

\* A deposit adds its leaf to the page of the next leaf, wherever the page begins.
LEMMA PagesGrow ==
    ASSUME NEW inline \in Seq(Notes), NEW pgs \in [PageIndexes -> Page], NEW n \in 0..Capacity,
           n < Capacity, Len(inline) <= n, PagesFor(pgs, Len(inline), n), NEW note \in Notes,
           NEW index \in PageIndexes, index = n \div PageCapacity,
           NEW page \in Page, page = OpenPage(pgs, index, n % PageCapacity),
           NEW grown \in [PageIndexes -> Page],
           grown = [pgs EXCEPT ![index] = [page EXCEPT !.count = @ + 1, !.leaves = Append(@, note)]]
    PROVE  PagesFor(grown, Len(inline), n + 1) /\ LeafAdded(pgs, grown, index, n, note)
  <1> DEFINE c == Len(inline)
  <1>1. n \in Nat /\ n + 1 \in 0..Capacity /\ c \in Nat /\ c <= n /\ PageCapacity \in Nat \ {0}
        /\ index \in Nat
    BY Facts DEF PageIndexes
  <1>2. PICK base \in Nat : base = index * PageCapacity
    BY <1>1
  <1>3. base <= n /\ n < base + PageCapacity /\ n % PageCapacity = n - base
    <2>1. base <= n /\ n < base + PageCapacity
      BY <1>1, <1>2, DivIff
    <2>2. n = base + (n % PageCapacity) /\ n % PageCapacity \in Int
      BY <1>1, <1>2, DivMod
    <2> QED BY <1>1, <2>1, <2>2
  <1> DEFINE first == IF c > base THEN c ELSE base
  <1>4. first \in Nat /\ first <= n
    BY <1>1, <1>3
  <1>5. page.start = first - base /\ page.count = n - first /\ Len(page.leaves) = n - first
    <2>1. PagesFor(pgs, c, n) /\ page = OpenPage(pgs, index, n - base)
      BY <1>3
    <2>2. HoldsUpTo(page, c, base, n)
      <3> HIDE DEF c
      <3> QED BY <1>1, <1>2, <1>3, <2>1, OpenPageFacts
    <2> QED BY <2>2 DEF HoldsUpTo
  <1>6. page.leaves \in Seq(Notes)
    BY DEF Page
  <1>7. /\ grown[index].start = first - base /\ grown[index].count = (n - first) + 1
        /\ grown[index].leaves = Append(page.leaves, note)
        /\ \A p \in PageIndexes : p # index => grown[p] = pgs[p]
    BY <1>5 DEF Page
  <1>8. /\ Len(grown[index].leaves) = (n - first) + 1
        /\ grown[index].leaves[(n - first) + 1] = note
        /\ \A k \in 1..(n - first) : grown[index].leaves[k] = page.leaves[k]
    <2> DEFINE longer == Append(page.leaves, note)
    <2>1. /\ Len(longer) = Len(page.leaves) + 1 /\ longer[Len(page.leaves) + 1] = note
          /\ \A k \in 1..Len(page.leaves) : longer[k] = page.leaves[k]
      BY <1>6
    <2>2. grown[index].leaves = longer /\ Len(page.leaves) = n - first
      BY <1>5, <1>7
    <2> HIDE DEF longer, first
    <2> QED BY <2>1, <2>2
  <1>9. PagesFor(grown, c, n + 1)
    <2> SUFFICES ASSUME NEW p \in PageIndexes PROVE PageOf(grown[p], p, c, n + 1)
      BY DEF PagesFor
    <2>1. CASE p = index
      <3> HIDE DEF c
      <3>0. n + 1 <= base + PageCapacity
        BY <1>1, <1>3
      <3>1. first < n + 1 /\ (IF n + 1 < base + PageCapacity THEN n + 1 ELSE base + PageCapacity) = n + 1
            /\ (n + 1) - first = (n - first) + 1
        <4>1. first < n + 1 /\ (n + 1) - first = (n - first) + 1
          <5>1. n \in Nat /\ first \in Nat /\ first <= n
            BY <1>1, <1>4
          <5> HIDE DEF first
          <5> QED BY <5>1
        <4>2. (IF n + 1 < base + PageCapacity THEN n + 1 ELSE base + PageCapacity) = n + 1
          BY <1>1, <3>0
        <4> QED BY <4>1, <4>2
      <3> QED BY <1>2, <1>7, <1>8, <2>1, <3>1 DEF PageOf
    <2>2. CASE p # index
      <3>1. PICK b \in Nat : b = p * PageCapacity
        BY <1>1 DEF PageIndexes
      <3>2. b > n \/ b + PageCapacity <= n
        <4>1. p \in Nat /\ (p < index \/ index < p)
          BY <1>1, <2>2 DEF PageIndexes
        <4>2. p < index => b + PageCapacity <= base
          BY <1>1, <1>2, <3>1, <4>1, Times
        <4>3. index < p => base + PageCapacity <= b
          BY <1>1, <1>2, <3>1, <4>1, Times
        <4> QED BY <1>1, <1>3, <4>1, <4>2, <4>3
      <3>3. PageOf(pgs[p], p, c, n) /\ grown[p] = pgs[p]
        BY <1>7, <2>2 DEF PagesFor
      <3>4. CASE b > n
        <4>1. \A m \in {n, n + 1} :
                  ~ ((IF c > b THEN c ELSE b)
                        < (IF m < b + PageCapacity THEN m ELSE b + PageCapacity))
          BY <1>1, <3>4
        <4> QED BY <3>1, <3>3, <4>1 DEF PageOf
      <3>5. CASE b + PageCapacity <= n
        <4>1. \A m \in {n, n + 1} :
                  (IF m < b + PageCapacity THEN m ELSE b + PageCapacity) = b + PageCapacity
          BY <1>1, <3>5
        <4> QED BY <3>1, <3>3, <4>1 DEF PageOf
      <3> QED BY <3>2, <3>4, <3>5
    <2> QED BY <2>1, <2>2
  <1>10. grown[index].leaves[(n + 1) - index * PageCapacity - grown[index].start] = note
    <2>1. (n + 1) - base - (first - base) = (n - first) + 1
      BY <1>1, <1>4
    <2> QED BY <1>2, <1>7, <1>8, <2>1
  <1>11. ASSUME NEW k \in 1..Len(pgs[index].leaves)
         PROVE  grown[index].start = pgs[index].start /\ grown[index].leaves[k] = pgs[index].leaves[k]
    <2>1. pgs[index] # NoPage
      BY DEF NoPage
    <2>2. page = pgs[index]
      BY <2>1 DEF OpenPage
    <2>3. grown[index].start = page.start /\ k \in 1..(n - first)
      BY <1>5, <1>7, <2>2
    <2>4. grown[index].leaves[k] = page.leaves[k]
      BY <1>8, <2>3
    <2> QED BY <2>2, <2>3, <2>4
  <1>12. PagesFor(grown, Len(inline), n + 1)
    BY <1>9
  <1>13. \A p \in PageIndexes : p # index => grown[p] = pgs[p]
    BY <1>7
  <1>14. LeafAdded(pgs, grown, index, n, note)
    BY <1>10, <1>11, <1>13 DEF LeafAdded
  <1> QED BY <1>12, <1>14

-----------------------------------------------------------------------------
(* The ring of recent roots.                                               *)

\* The first k leaves of a list.
LEMMA Prefixes ==
    ASSUME NEW s \in Seq(Notes), NEW k \in 0..Len(s)
    PROVE  SubSeq(s, 1, k) \in Seq(Notes) /\ Len(SubSeq(s, 1, k)) = k
           /\ \A i \in 1..k : SubSeq(s, 1, k)[i] = s[i]
  BY SubSeqProperties

\* They stay the same when a leaf is appended, and all of them are the list.
LEMMA PrefixOfGrown ==
    ASSUME NEW s \in Seq(Notes), NEW note \in Notes
    PROVE  /\ \A k \in 0..Len(s) : SubSeq(Append(s, note), 1, k) = SubSeq(s, 1, k)
           /\ SubSeq(Append(s, note), 1, Len(s) + 1) = Append(s, note)
           /\ SubSeq(s, 1, Len(s)) = s
  <1> DEFINE t == Append(s, note)
  <1>1. t \in Seq(Notes) /\ Len(t) = Len(s) + 1 /\ Len(s) \in Nat
        /\ \A i \in 1..Len(s) : t[i] = s[i]
    OBVIOUS
  <1> HIDE DEF t
  <1>2. ASSUME NEW k \in 0..Len(s) PROVE SubSeq(t, 1, k) = SubSeq(s, 1, k)
    <2>1. k \in 0..Len(t)
      BY <1>1
    <2>2. SubSeq(t, 1, k) \in Seq(Notes) /\ Len(SubSeq(t, 1, k)) = k
          /\ \A i \in 1..k : SubSeq(t, 1, k)[i] = t[i]
      BY <1>1, <2>1, Prefixes
    <2>3. SubSeq(s, 1, k) \in Seq(Notes) /\ Len(SubSeq(s, 1, k)) = k
          /\ \A i \in 1..k : SubSeq(s, 1, k)[i] = s[i]
      BY Prefixes
    <2>4. \A i \in 1..k : t[i] = s[i]
      BY <1>1
    <2> QED BY <2>2, <2>3, <2>4, SeqEqual
  <1>3. SubSeq(t, 1, Len(t)) = t
    <2>1. Len(t) \in 0..Len(t)
      BY <1>1
    <2> QED BY <1>1, <2>1, Prefixes, SeqEqual
  <1>4. SubSeq(s, 1, Len(s)) = s
    <2>1. Len(s) \in 0..Len(s)
      BY <1>1
    <2> QED BY <1>1, <2>1, Prefixes, SeqEqual
  <1> QED BY <1>1, <1>2, <1>3, <1>4 DEF t

\* Each slot in use holds the root of one of the last RootHistorySize deposits.
RingFor(ring, s) ==
    \A slot \in 0..(RootHistorySize - 1) :
        slot < Len(s)
        => \E k \in 1..Len(s) : /\ k + RootHistorySize > Len(s)
                                /\ (k - 1) % RootHistorySize = slot
                                /\ ring[slot] = TreeRoot(SubSeq(s, 1, k))

\* A new root takes the place of the one that is RootHistorySize deposits old.
LEMMA RingTurns ==
    ASSUME NEW s \in Seq(Notes), NEW note \in Notes, NEW ring,
           DOMAIN ring = 0..(RootHistorySize - 1), RingFor(ring, s), NEW root,
           root = TreeRoot(Append(s, note)), NEW turned,
           turned = [ring EXCEPT ![Len(s) % RootHistorySize] = root]
    PROVE  RingFor(turned, Append(s, note))
  <1> DEFINE t == Append(s, note)
  <1>1. PICK n \in Nat, size \in Nat \ {0} : n = Len(s) /\ n + 1 = Len(t) /\ size = RootHistorySize
    BY Facts
  <1>2. n % size \in 0..(size - 1)
    BY <1>1, DivMod
  <1> HIDE DEF t
  <1> SUFFICES ASSUME NEW slot \in 0..(size - 1), slot < n + 1
               PROVE  \E k \in 1..(n + 1) : /\ k + size > n + 1 /\ (k - 1) % size = slot
                                            /\ turned[slot] = TreeRoot(SubSeq(t, 1, k))
    BY <1>1 DEF RingFor, t
  <1>3. CASE slot = n % size
    <2>1. turned[slot] = root
      BY <1>1, <1>2, <1>3
    <2>2. SubSeq(t, 1, n + 1) = t
      BY <1>1, PrefixOfGrown DEF t
    <2>3. n + 1 \in 1..(n + 1) /\ (n + 1) + size > n + 1 /\ (n + 1) - 1 = n
      BY <1>1
    <2> QED BY <1>3, <2>1, <2>2, <2>3 DEF t
  <1>4. CASE slot # n % size
    <2>1. slot < n
      <3>1. n < size => n % size = n
        BY SameRemainder
      <3> QED BY <1>4, <3>1
    <2>2. PICK k \in 1..n : /\ k + size > n /\ (k - 1) % size = slot
                            /\ ring[slot] = TreeRoot(SubSeq(s, 1, k))
      BY <1>1, <2>1 DEF RingFor
    <2>3. k + size # n + 1
      <3>1. PICK j \in Nat : j = k - 1
        BY <1>1
      <3>2. (j + size) % size = j % size
        BY SameRemainder
      <3>3. k + size = n + 1 => j + size = n
        BY <3>1
      <3> QED BY <1>4, <2>2, <3>1, <3>2, <3>3
    <2>4. turned[slot] = ring[slot]
      BY <1>1, <1>4
    <2>5. SubSeq(t, 1, k) = SubSeq(s, 1, k)
      BY <1>1, PrefixOfGrown DEF t
    <2>6. k \in 1..(n + 1) /\ k + size > n + 1
      BY <2>2, <2>3
    <2> QED BY <2>2, <2>4, <2>5, <2>6
  <1> QED BY <1>3, <1>4

\* Of the last RootHistorySize deposits, every root is in its slot.
LEMMA RingHoldsAll ==
    ASSUME NEW s \in Seq(Notes), NEW ring, RingFor(ring, s),
           NEW k \in 1..Len(s), k + RootHistorySize > Len(s)
    PROVE  \E slot \in 0..(RootHistorySize - 1) :
              slot < Len(s) /\ ring[slot] = TreeRoot(SubSeq(s, 1, k))
  <1>1. PICK n \in Nat, size \in Nat \ {0} : n = Len(s) /\ size = RootHistorySize
    BY Facts
  <1>2. PICK j \in Nat : j = k - 1
    BY <1>1
  <1>3. j % size \in 0..(size - 1) /\ j % size < n
    <2>1. j % size \in 0..(size - 1) /\ j % size <= j
      BY DivMod, SameRemainder
    <2> QED BY <1>1, <1>2, <2>1
  <1>4. PICK m \in 1..n : /\ m + size > n /\ (m - 1) % size = j % size
                          /\ ring[j % size] = TreeRoot(SubSeq(s, 1, m))
    BY <1>1, <1>3 DEF RingFor
  <1>5. PICK i \in Nat : i = m - 1
    BY <1>1
  <1>6. m = k
    <2>1. i < j => i + size <= j
      BY <1>4, <1>5, SameRemainder
    <2>2. j < i => j + size <= i
      BY <1>4, <1>5, SameRemainder
    <2> QED BY <1>1, <1>2, <1>4, <1>5, <2>1, <2>2
  <1> QED BY <1>1, <1>3, <1>4, <1>6

\* A tree built leaf by leaf is the tree of its leaves, however many are in.
LEMMA TreeAfterFacts ==
    ASSUME NEW s \in Seq(Notes), Len(s) <= Capacity, NEW i \in 0..Len(s)
    PROVE  /\ FilledFor(TreeAfter(s)[i].filled, SubSeq(s, 1, i))
           /\ TreeAfter(s)[i].root = TreeRoot(SubSeq(s, 1, i))
  <1> DEFINE empty == [filled |-> EmptySubtrees, root |-> Zeros[Depth]]
             after[k \in 0..Len(s)] == IF k = 0 THEN empty
                                       ELSE Insert(after[k-1].filled, k - 1, s[k])
             Upto(k, f) == f = [j \in 0..k |-> IF j = 0 THEN empty
                                               ELSE Insert(f[j-1].filled, j - 1, s[j])]
             S == {k \in 0..Len(s) : \E f : Upto(k, f)}
  <1>0. Len(s) \in Nat
    OBVIOUS
  <1>1. 0 \in S
    <2> HIDE DEF empty
    <2>1. Upto(0, [j \in 0..0 |-> empty])
      OBVIOUS
    <2> HIDE DEF Upto
    <2> QED BY <1>0, <2>1
  <1>2. ASSUME NEW k \in 0..(Len(s) - 1), k \in S PROVE k + 1 \in S
    <2> HIDE DEF empty
    <2>1. PICK f : Upto(k, f)
      BY <1>2
    <2> DEFINE g == [j \in 0..(k+1) |-> IF j = k + 1 THEN Insert(f[k].filled, k, s[k+1]) ELSE f[j]]
    <2>2. \A j \in 0..(k+1) : g[j] = IF j = 0 THEN empty ELSE Insert(g[j-1].filled, j - 1, s[j])
      BY <2>1
    <2>3. g = [j \in 0..(k+1) |-> g[j]]
      OBVIOUS
    <2>4. Upto(k+1, g)
      <3> HIDE DEF g
      <3> QED BY <2>2, <2>3
    <2> HIDE DEF Upto, g
    <2> QED BY <1>0, <2>4
  <1>3. Len(s) \in S
    <2> HIDE DEF S
    <2>1. \A k \in 0..Len(s) : k \in S
      BY <1>0, <1>1, <1>2, Upwards
    <2> QED BY <1>0, <2>1
  <1>4. PICK f : Upto(Len(s), f)
    BY <1>3
  <1>5. after = [k \in 0..Len(s) |-> IF k = 0 THEN empty ELSE Insert(after[k-1].filled, k - 1, s[k])]
    BY <1>4 DEF after
  <1>6. TreeAfter(s) = after
    BY DEF TreeAfter
  <1> HIDE DEF after
  <1>7. ASSUME NEW k \in 0..Len(s)
        PROVE  after[k] = IF k = 0 THEN empty ELSE Insert(after[k-1].filled, k - 1, s[k])
    <2> HIDE DEF empty
    <2> QED BY <1>5, Zenon
  <1> DEFINE Right(k) == /\ FilledFor(after[k].filled, SubSeq(s, 1, k))
                         /\ after[k].root = TreeRoot(SubSeq(s, 1, k))
             P == {k \in 0..Len(s) : Right(k)}
  <1>8. 0 \in P
    <2>1. SubSeq(s, 1, 0) = <<>>
      BY <1>0, Prefixes
    <2>2. after[0] = empty /\ 0 \in 0..Len(s)
      BY <1>0, <1>7
    <2>3. FilledFor(after[0].filled, <<>>) /\ after[0].root = TreeRoot(<<>>)
      BY <2>2, FilledForEmpty DEF TreeRoot
    <2> QED BY <2>1, <2>2, <2>3
  <1>9. ASSUME NEW k \in 0..(Len(s) - 1), k \in P PROVE k + 1 \in P
    <2>1. k \in 0..Len(s) /\ k + 1 \in 0..Len(s) /\ k + 1 # 0 /\ (k + 1) - 1 = k
          /\ s[k+1] \in Notes
      BY <1>0
    <2>2. after[k+1] = Insert(after[k].filled, k, s[k+1])
      BY <1>7, <2>1
    <2> DEFINE t == SubSeq(s, 1, k)
    <2>3. t \in Seq(Notes) /\ Len(t) = k
      BY <2>1, Prefixes
    <2>4. SubSeq(s, 1, k + 1) = Append(t, s[k+1])
      <3>1. SubSeq(s, 1, k + 1) \in Seq(Notes) /\ Len(SubSeq(s, 1, k + 1)) = k + 1
            /\ \A j \in 1..(k+1) : SubSeq(s, 1, k + 1)[j] = s[j]
        BY <2>1, Prefixes
      <3>2. \A j \in 1..k : t[j] = s[j]
        BY <2>1, Prefixes
      <3>3. k + 1 \in 1..(k+1) /\ \A j \in 1..k : j \in 1..(k+1)
        BY <2>1
      <3> HIDE DEF t
      <3> QED BY <2>1, <2>3, <3>1, <3>2, <3>3, GrownList
    <2>5. Len(t) < Capacity
      BY <1>0, <2>1, <2>3, Facts
    <2>6. FilledFor(after[k].filled, t)
      BY <1>9
    <2> HIDE DEF t
    <2>7. /\ Insert(after[k].filled, Len(t), s[k+1]).root = TreeRoot(Append(t, s[k+1]))
          /\ FilledFor(Insert(after[k].filled, Len(t), s[k+1]).filled, Append(t, s[k+1]))
      BY <2>1, <2>3, <2>5, <2>6, InsertFacts
    <2>8. Right(k + 1)
      BY <2>2, <2>3, <2>4, <2>7
    <2> QED BY <2>1, <2>8
  <1>10. i \in P
    <2> HIDE DEF P
    <2> QED BY <1>0, <1>8, <1>9, Upwards
  <1> QED BY <1>6, <1>10

-----------------------------------------------------------------------------
(* The ledger.                                                             *)

\* A proof of the SDK was made of a note in some list of notes.
ProofsOK ==
    \A proof \in proofs :
        \/ proof.nullifier \in OtherNullifiers
        \/ \E s \in Seq(Notes) : \E i \in 1..Len(s) :
              /\ Len(s) <= Capacity
              /\ proof.root = TreeRoot(s)
              /\ proof.nullifier = NullifierOf[s[i]]

PagesOK ==
    /\ Len(commitments) <= nextIndex
    /\ kind = "legacy" => Len(commitments) = nextIndex
    /\ PagesFor(pages, Len(commitments), nextIndex)

TreeOK ==
    /\ FilledFor(filledSubtrees, MergeCommitmentSources)
    /\ rootCount = nextIndex
    /\ RingFor(roots, MergeCommitmentSources)

ListInv == Inv /\ PagesOK /\ TreeOK /\ ProofsOK

\* What the client lists is Merge of the accounts.
LEMMA ListedIsMerge == MergeCommitmentSources = Merge(commitments, pages, nextIndex)
  BY DEF MergeCommitmentSources, Merge, InPage

\* The list has the length of the tree and holds notes only.
LEMMA ListedType ==
    ASSUME ListInv
    PROVE  /\ MergeCommitmentSources \in Seq(Notes) /\ Len(MergeCommitmentSources) = nextIndex
           /\ MergeCommitmentSources \in [1..nextIndex -> Notes]
           /\ nextIndex \in 0..Capacity
  <1>1. commitments \in Seq(Notes) /\ pages \in [PageIndexes -> Page] /\ nextIndex \in 0..Capacity
        /\ Len(commitments) <= nextIndex /\ PagesFor(pages, Len(commitments), nextIndex)
    BY DEF ListInv, Inv, TypeOK, PagesOK
  <1> QED BY <1>1, ListedIsMerge, MergeType

\* A set of numbers up to n that is not empty has a greatest element.
LEMMA Greatest ==
    ASSUME NEW n \in Nat, NEW T, T \subseteq 1..n, T # {}
    PROVE  \E x \in T : \A y \in T : y <= x
  <1> DEFINE U == {n - y : y \in T}
  <1>1. U \subseteq Nat /\ U # {}
    <2>1. PICK y \in T : y \in 1..n
      OBVIOUS
    <2>2. n - y \in U
      OBVIOUS
    <2> QED BY <2>2
  <1>2. PICK u \in U : \A v \in U : u <= v
    <2> HIDE DEF U
    <2> QED BY <1>1, Least
  <1>3. PICK x \in T : u = n - x
    BY <1>2
  <1>4. ASSUME NEW y \in T PROVE y <= x
    <2>1. n - y \in U /\ x \in 1..n /\ y \in 1..n
      OBVIOUS
    <2>2. n - x <= n - y
      BY <1>2, <1>3, <2>1
    <2> QED BY <2>1, <2>2
  <1> QED BY <1>4

\* The leaves of a pool from before the pages are listed, with their recent roots.
LEMMA InitListInv == Init => ListInv
  <1> SUFFICES ASSUME Init PROVE ListInv
    OBVIOUS
  <1>1. Inv
    BY InitInv
  <1>2. commitments \in Seq(Notes) /\ nextIndex = Len(commitments) /\ nextIndex \in 0..Capacity
    BY <1>1 DEF Init, Inv, TypeOK
  <1>3. nextIndex \in Nat /\ nextIndex <= Capacity
    BY <1>2, Facts
  <1>4. PagesFor(pages, Len(commitments), nextIndex)
    <2>1. \A p \in PageIndexes : p * PageCapacity \in Nat /\ pages[p] = NoPage
      BY Facts DEF PageIndexes, Init
    <2>2. \A base \in Nat : ~ ((IF nextIndex > base THEN nextIndex ELSE base)
              < (IF nextIndex < base + PageCapacity THEN nextIndex ELSE base + PageCapacity))
      BY <1>3, Facts
    <2> QED BY <1>2, <2>1, <2>2 DEF PagesFor, PageOf
  <1>5. PagesOK
    BY <1>2, <1>3, <1>4 DEF PagesOK
  <1>6. MergeCommitmentSources = commitments
    <2>1. pages \in [PageIndexes -> Page]
      BY <1>1 DEF Inv, TypeOK
    <2>2. \A i \in 1..nextIndex : Merge(commitments, pages, nextIndex)[i] = commitments[i]
      BY <1>2, <1>3, <1>4, <2>1, MergeAt
    <2>3. Merge(commitments, pages, nextIndex) \in Seq(Notes)
          /\ Len(Merge(commitments, pages, nextIndex)) = nextIndex
      BY <1>2, <1>3, <1>4, <2>1, MergeType
    <2>4. Merge(commitments, pages, nextIndex) = commitments
      BY <1>2, <2>2, <2>3, SeqEqual
    <2> QED BY <2>4, ListedIsMerge
  <1>7. TreeOK
    <2> DEFINE after == TreeAfter(commitments)
               latest(slot) == {i \in 1..nextIndex : (i - 1) % RootHistorySize = slot}
    <2>1. \A i \in 0..nextIndex : /\ FilledFor(after[i].filled, SubSeq(commitments, 1, i))
                                  /\ after[i].root = TreeRoot(SubSeq(commitments, 1, i))
      BY <1>2, <1>3, TreeAfterFacts
    <2>2. filledSubtrees = [l \in Levels |-> after[nextIndex].filled[l]]
          /\ rootCount = nextIndex
          /\ roots = [slot \in 0..(RootHistorySize - 1) |->
                        IF latest(slot) = {} THEN ZeroLeaf
                        ELSE after[CHOOSE i \in latest(slot) :
                                        \A j \in latest(slot) : j <= i].root]
      BY DEF Init
    <2> HIDE DEF after
    <2>3. SubSeq(commitments, 1, nextIndex) = commitments
      <3>1. nextIndex \in 0..Len(commitments)
        BY <1>2, <1>3
      <3> QED BY <1>2, <3>1, Prefixes, SeqEqual
    <2>4. FilledFor(filledSubtrees, commitments)
      <3>1. FilledFor(after[nextIndex].filled, commitments)
        <4>1. nextIndex \in 0..nextIndex
          BY <1>3
        <4>2. FilledFor(after[nextIndex].filled, SubSeq(commitments, 1, nextIndex))
          BY <2>1, <4>1
        <4> QED BY <2>3, <4>2
      <3> QED BY <2>2, <3>1 DEF FilledFor
    <2>5. ASSUME NEW slot \in 0..(RootHistorySize - 1), slot < nextIndex
          PROVE  \E k \in 1..nextIndex : /\ k + RootHistorySize > nextIndex
                                         /\ (k - 1) % RootHistorySize = slot
                                         /\ roots[slot] = TreeRoot(SubSeq(commitments, 1, k))
      <3>1. PICK n \in Nat, size \in Nat \ {0} : n = nextIndex /\ size = RootHistorySize
        BY <1>3, Facts
      <3>2. slot + 1 \in latest(slot)
        <4>1. slot \in Nat /\ slot < size
          BY <3>1
        <4>2. slot % size = slot
          BY <4>1, SameRemainder
        <4>3. slot + 1 \in 1..nextIndex /\ (slot + 1) - 1 = slot
          BY <2>5, <3>1, <4>1
        <4> QED BY <3>1, <4>2, <4>3
      <3>3. \E k \in latest(slot) : \A j \in latest(slot) : j <= k
        <4>1. latest(slot) \subseteq 1..n
          BY <3>1
        <4> HIDE DEF latest
        <4> QED BY <3>2, <4>1, Greatest
      <3>4. PICK k : /\ k = CHOOSE i \in latest(slot) : \A j \in latest(slot) : j <= i
                     /\ k \in latest(slot) /\ \A j \in latest(slot) : j <= k
        <4> HIDE DEF latest
        <4> QED BY <3>3
      <3>5. roots[slot] = after[k].root
        <4>1. latest(slot) # {}
          BY <3>2
        <4> HIDE DEF latest
        <4> QED BY <2>2, <3>4, <4>1
      <3>6. k \in 1..n /\ (k - 1) % size = slot
        BY <3>1, <3>4
      <3>7. k + size > n
        <4> SUFFICES ASSUME k + size <= n PROVE FALSE
          BY <3>6
        <4>1. PICK j \in Nat : j = k - 1
          BY <3>6
        <4>2. (j + size) % size = slot
          BY <3>6, <4>1, SameRemainder
        <4>3. k + size \in 1..n /\ (k + size) - 1 = j + size
          BY <3>6, <4>1
        <4>4. k + size \in latest(slot)
          BY <3>1, <4>2, <4>3
        <4>5. k + size <= k
          <5> HIDE DEF latest
          <5> QED BY <3>4, <4>4
        <4> QED BY <3>6, <4>5
      <3>8. after[k].root = TreeRoot(SubSeq(commitments, 1, k))
        BY <2>1, <3>1, <3>6
      <3> QED BY <3>1, <3>5, <3>6, <3>7, <3>8
    <2>6. RingFor(roots, commitments)
      BY <1>2, <2>5 DEF RingFor
    <2> QED BY <1>6, <2>2, <2>4, <2>6 DEF TreeOK
  <1>8. ProofsOK
    BY DEF Init, ProofsOK
  <1> QED BY <1>1, <1>5, <1>7, <1>8 DEF ListInv

\* What a deposit of any kind does to the tree, given what it does to the list.
LEMMA LeafListed ==
    ASSUME ListInv, NEW note \in Notes, AppendLeaf(note),
           MergeCommitmentSources' = Append(MergeCommitmentSources, note)
    PROVE  TreeOK'
  <1>1. MergeCommitmentSources \in Seq(Notes) /\ Len(MergeCommitmentSources) = nextIndex
        /\ nextIndex < Capacity
    BY ListedType DEF AppendLeaf
  <1> DEFINE inserted == Insert(filledSubtrees, nextIndex, note)
  <1>2. /\ filledSubtrees' = inserted.filled
        /\ roots' = [roots EXCEPT ![nextIndex % RootHistorySize] = inserted.root]
        /\ rootCount' = rootCount + 1 /\ nextIndex' = nextIndex + 1
    BY DEF AppendLeaf, ListInv, TreeOK
  <1>3. inserted.root = TreeRoot(Append(MergeCommitmentSources, note))
        /\ FilledFor(inserted.filled, Append(MergeCommitmentSources, note))
    BY <1>1, InsertFacts DEF ListInv, TreeOK
  <1> HIDE DEF inserted
  <1>4. FilledFor(filledSubtrees', MergeCommitmentSources')
    BY <1>2, <1>3
  <1>5. RingFor(roots', MergeCommitmentSources')
    <2>1. DOMAIN roots = 0..(RootHistorySize - 1) /\ RingFor(roots, MergeCommitmentSources)
      BY DEF ListInv, Inv, TypeOK, TreeOK
    <2> QED BY <1>1, <1>2, <1>3, <2>1, RingTurns
  <1>6. rootCount' = nextIndex'
    BY <1>2 DEF ListInv, TreeOK
  <1> QED BY <1>4, <1>5, <1>6 DEF TreeOK

\* Every deposit is listed last.
LEMMA DepositListed ==
    ASSUME ListInv, NEW note \in Notes,
           \/ Deposit(note)
           \/ \E index \in PageIndexes : kind # "legacy" /\ DepositPaged(note, index)
    PROVE  /\ AppendLeaf(note) /\ UNCHANGED <<kind, spend, treasury, paid, proofs>>
           /\ MergeCommitmentSources' = Append(MergeCommitmentSources, note)
           /\ PagesOK'
  <1>1. commitments \in Seq(Notes) /\ pages \in [PageIndexes -> Page] /\ nextIndex \in 0..Capacity
        /\ Len(commitments) <= nextIndex /\ PagesFor(pages, Len(commitments), nextIndex)
    BY DEF ListInv, Inv, TypeOK, PagesOK
  <1>2. CASE Deposit(note)
    <2>1. AppendLeaf(note) /\ commitments' = Append(commitments, note) /\ pages' = pages
          /\ kind = "legacy" /\ UNCHANGED <<kind, spend, treasury, paid, proofs>>
      BY <1>2 DEF Deposit
    <2>2. nextIndex < Capacity /\ nextIndex' = nextIndex + 1
      BY <2>1 DEF AppendLeaf
    <2>3. Len(commitments) = nextIndex
      BY <2>1 DEF ListInv, PagesOK
    <2>4. PagesFor(pages, nextIndex + 1, nextIndex + 1)
          /\ Merge(Append(commitments, note), pages, nextIndex + 1)
                = Append(Merge(commitments, pages, nextIndex), note)
      BY <1>1, <2>2, <2>3, InlineGrows
    <2>5. MergeCommitmentSources' = Append(MergeCommitmentSources, note)
      <3>1. MergeCommitmentSources' = Merge(commitments', pages', nextIndex')
        BY DEF MergeCommitmentSources, Merge, InPage
      <3> QED BY <2>1, <2>2, <2>4, <3>1, ListedIsMerge
    <2>6. Len(commitments') = nextIndex'
      BY <1>1, <2>1, <2>2, <2>3
    <2>7. PagesOK'
      BY <1>1, <2>1, <2>2, <2>4, <2>6 DEF PagesOK
    <2> QED BY <2>1, <2>5, <2>7
  <1>3. CASE \E index \in PageIndexes : kind # "legacy" /\ DepositPaged(note, index)
    <2>1. PICK index \in PageIndexes : kind # "legacy" /\ DepositPaged(note, index)
      BY <1>3
    <2>2. index = nextIndex \div PageCapacity
          /\ AppendCommitmentPage(index, nextIndex % PageCapacity, note)
          /\ AppendLeaf(note) /\ UNCHANGED <<kind, commitments, spend, treasury, paid, proofs>>
      BY <2>1 DEF DepositPaged
    <2>3. nextIndex < Capacity /\ nextIndex' = nextIndex + 1
      BY <2>2 DEF AppendLeaf
    <2>4. nextIndex % PageCapacity \in Nat /\ nextIndex % PageCapacity < PageCapacity
      BY <1>1, Facts
    <2>5. pages' \in [PageIndexes -> Page]
      BY <2>2, <2>4, AppendCommitmentPageType DEF ListInv
    <2>6. PICK page : page = OpenPage(pages, index, nextIndex % PageCapacity)
      OBVIOUS
    <2>7. pages' = [pages EXCEPT ![index] = [page EXCEPT !.count = @ + 1, !.leaves = Append(@, note)]]
      BY <2>2, <2>6 DEF AppendCommitmentPage
    <2>8. page \in Page
      <3>1. nextIndex % PageCapacity \in 0..PageCapacity /\ 0 \in 0..PageCapacity
        BY <2>4, Facts
      <3> QED BY <1>1, <2>6, <3>1 DEF OpenPage, NoPage, Page
    <2>9. PagesFor(pages', Len(commitments), nextIndex + 1)
          /\ LeafAdded(pages, pages', index, nextIndex, note)
      BY <1>1, <2>2, <2>3, <2>5, <2>6, <2>7, <2>8, PagesGrow
    <2>10. Merge(commitments, pages', nextIndex + 1) = Append(Merge(commitments, pages, nextIndex), note)
      BY <1>1, <2>2, <2>3, <2>5, <2>9, PagedGrows
    <2>11. MergeCommitmentSources' = Append(MergeCommitmentSources, note)
      <3>1. MergeCommitmentSources' = Merge(commitments', pages', nextIndex')
        BY DEF MergeCommitmentSources, Merge, InPage
      <3> QED BY <2>2, <2>3, <2>10, <3>1, ListedIsMerge
    <2>12. PagesOK'
      <3>1. Len(commitments) \in Nat /\ nextIndex \in Nat
        BY <1>1, Facts
      <3>2. Len(commitments) <= nextIndex + 1
        BY <1>1, <3>1
      <3> QED BY <2>1, <2>2, <2>3, <2>9, <3>2 DEF PagesOK
    <2> QED BY <2>2, <2>11, <2>12
  <1> QED BY <1>2, <1>3

\* A root the program knows is that of a list the deposits have passed through.
LEMMA KnownRootIsPrefix ==
    ASSUME ListInv, NEW root \in KnownRoots
    PROVE  \E k \in 1..nextIndex : /\ k + RootHistorySize > nextIndex
                                   /\ root = TreeRoot(SubSeq(MergeCommitmentSources, 1, k))
  <1>1. PICK slot \in 0..(RootHistorySize - 1) : slot < nextIndex /\ root = roots[slot]
    BY DEF KnownRoots, ListInv, TreeOK
  <1> QED BY <1>1, ListedType DEF ListInv, TreeOK, RingFor

\* A proof of the SDK that the program accepts is of a note that is listed: a list
\* with one more leaf than the chain ever had has another root.
LEMMA AcceptedIsListed ==
    ASSUME ListInv, NEW proof \in proofs, proof.root \in KnownRoots,
           proof.nullifier \notin OtherNullifiers
    PROVE  \E i \in 1..nextIndex : proof.nullifier = NullifierOf[MergeCommitmentSources[i]]
  <1> DEFINE listed == MergeCommitmentSources
  <1>1. PICK s \in Seq(Notes) : \E i \in 1..Len(s) : /\ Len(s) <= Capacity
                                                     /\ proof.root = TreeRoot(s)
                                                     /\ proof.nullifier = NullifierOf[s[i]]
    BY DEF ListInv, ProofsOK
  <1>2. PICK i \in 1..Len(s) : /\ Len(s) <= Capacity
                               /\ proof.root = TreeRoot(s)
                               /\ proof.nullifier = NullifierOf[s[i]]
    BY <1>1
  <1>3. PICK k \in 1..nextIndex : proof.root = TreeRoot(SubSeq(listed, 1, k))
    BY KnownRootIsPrefix
  <1>4. listed \in Seq(Notes) /\ Len(listed) = nextIndex /\ nextIndex \in Nat /\ nextIndex <= Capacity
    BY ListedType, Facts
  <1> HIDE DEF listed
  <1>5. k \in 0..Len(listed) /\ k <= Capacity /\ k \in Nat
    BY <1>4, Facts
  <1>6. SubSeq(listed, 1, k) \in Seq(Notes) /\ Len(SubSeq(listed, 1, k)) = k
        /\ \A j \in 1..k : SubSeq(listed, 1, k)[j] = listed[j]
    BY <1>4, <1>5, Prefixes
  <1>7. s = SubSeq(listed, 1, k)
    BY <1>2, <1>3, <1>5, <1>6, Facts, RootsDiffer
  <1>8. i \in 1..k /\ s[i] = listed[i]
    BY <1>6, <1>7
  <1>9. i \in 1..nextIndex
    BY <1>4, <1>8
  <1> QED BY <1>2, <1>8, <1>9 DEF listed

\* Every withdrawal makes the checks of Verify.
LEMMA EveryWithdrawalVerifies ==
    ASSUME NEW proof, NEW r,
           \/ DirectNext(proof, r)
           \/ \E fee \in RelayerFees : RelayedNext(proof, r, fee)
    PROVE  Verify(proof, r)
  BY Zenon DEF DirectNext, WithdrawZk, WithdrawZkV2, WithdrawZkSpl, WithdrawZkFeeV2, WithdrawZkFeeSpl,
               RelayedNext, WithdrawZkRelayed, WithdrawZkRelayedV2, WithdrawZkRelayedSpl,
               WithdrawZkRelayedFeeV2, WithdrawZkRelayedFeeSpl

\* Steps that leave the tree alone leave the list alone, and what is known of both.
LEMMA TreeUnchanged ==
    ASSUME ListInv, UNCHANGED <<kind, tree>>
    PROVE  PagesOK' /\ TreeOK' /\ MergeCommitmentSources' = MergeCommitmentSources
  <1>1. MergeCommitmentSources' = MergeCommitmentSources
    BY DEF tree, MergeCommitmentSources
  <1> QED BY <1>1 DEF tree, ListInv, PagesOK, TreeOK

\* Every step of a pool preserves ListInv.
LEMMA NextListInv == ListInv /\ [Next]_vars => ListInv'
  <1> SUFFICES ASSUME ListInv, [Next]_vars PROVE ListInv'
    OBVIOUS
  <1>1. Inv'
    BY NextInv DEF ListInv
  <1>2. CASE DepositNext
    <2>1. PICK note \in Notes : \/ Deposit(note)
                                \/ \E index \in PageIndexes : kind # "legacy" /\ DepositPaged(note, index)
      BY <1>2 DEF DepositNext, DepositV2, DepositSpl, DepositFeeV2, DepositFeeSpl
    <2>2. PagesOK' /\ TreeOK' /\ proofs' = proofs
      BY <2>1, DepositListed, LeafListed
    <2> QED BY <1>1, <2>2 DEF ListInv, ProofsOK
  <1>3. CASE \E n \in Notes, r \in Recipients : Prove(n, r)
    <2>1. PICK n \in Notes, r \in Recipients : Prove(n, r)
      BY <1>3
    <2> DEFINE listed == MergeCommitmentSources
               views  == {listed} \cup (IF nextIndex < Capacity THEN {Append(listed, n)} ELSE {})
    <2>2. PICK leaves \in views : \E i \in 1..Len(leaves) :
              /\ leaves[i] = n
              /\ proofs' = proofs \cup
                    {[root |-> TreeRoot(leaves), nullifier |-> NullifierOf[n],
                      recipient |-> RecipientInput[r]]}
      BY <2>1 DEF Prove
    <2>3. listed \in Seq(Notes) /\ Len(listed) = nextIndex /\ nextIndex \in Nat /\ nextIndex <= Capacity
      BY ListedType, Facts
    <2> HIDE DEF listed
    <2>4. leaves \in Seq(Notes) /\ Len(leaves) <= Capacity
      <3>1. CASE leaves = listed
        BY <2>3, <3>1
      <3>2. CASE nextIndex < Capacity /\ leaves = Append(listed, n)
        <4>1. Append(listed, n) \in Seq(Notes) /\ Len(Append(listed, n)) = nextIndex + 1
          BY <2>3
        <4> QED BY <2>3, <3>2, <4>1, Facts
      <3> QED BY <3>1, <3>2
    <2>5. PICK i \in 1..Len(leaves) :
              /\ leaves[i] = n
              /\ proofs' = proofs \cup
                    {[root |-> TreeRoot(leaves), nullifier |-> NullifierOf[n],
                      recipient |-> RecipientInput[r]]}
      BY <2>2
    <2>6. ProofsOK'
      <3> SUFFICES ASSUME NEW proof \in proofs', proof.nullifier \notin OtherNullifiers
                   PROVE  \E s \in Seq(Notes) : \E j \in 1..Len(s) :
                              /\ Len(s) <= Capacity
                              /\ proof.root = TreeRoot(s)
                              /\ proof.nullifier = NullifierOf[s[j]]
        BY DEF ProofsOK
      <3>1. CASE proof \in proofs
        BY <3>1 DEF ListInv, ProofsOK
      <3>2. CASE proof = [root |-> TreeRoot(leaves), nullifier |-> NullifierOf[n],
                          recipient |-> RecipientInput[r]]
        BY <2>4, <2>5, <3>2
      <3> QED BY <2>5, <3>1, <3>2
    <2>7. UNCHANGED <<kind, tree>>
      BY <2>1 DEF Prove
    <2> QED BY <1>1, <2>6, <2>7, TreeUnchanged DEF ListInv
  <1>4. CASE \E proof \in proofs, r \in Recipients :
                DirectNext(proof, r) \/ \E fee \in RelayerFees : RelayedNext(proof, r, fee)
    <2>1. PaysDeposit
      BY <1>4, EveryWithdrawal DEF ListInv
    <2>2. UNCHANGED <<kind, tree>> /\ proofs' = proofs
      BY <2>1 DEF PaysDeposit
    <2> QED BY <1>1, <2>2, TreeUnchanged DEF ListInv, ProofsOK
  <1>5. CASE \E t \in Treasuries : UpdateTreasury(t)
    <2>1. UNCHANGED <<kind, tree>> /\ proofs' = proofs
      BY <1>5 DEF UpdateTreasury
    <2> QED BY <1>1, <2>1, TreeUnchanged DEF ListInv, ProofsOK
  <1>6. CASE UNCHANGED vars
    <2>1. UNCHANGED <<kind, tree>> /\ proofs' = proofs
      BY <1>6 DEF vars
    <2> QED BY <1>1, <2>1, TreeUnchanged DEF ListInv, ProofsOK
  <1>7. CASE \E x \in OtherNullifiers, r \in Recipients : ProveOtherwise(x, r)
    <2>1. PICK x \in OtherNullifiers, r \in Recipients : ProveOtherwise(x, r)
      BY <1>7
    <2>2. UNCHANGED <<kind, tree>>
      BY <2>1 DEF ProveOtherwise
    <2>3. \A proof \in proofs' : proof \in proofs \/ proof.nullifier = x
      BY <2>1 DEF ProveOtherwise
    <2>4. ProofsOK'
      BY <2>3 DEF ListInv, ProofsOK
    <2> QED BY <1>1, <2>2, <2>4, TreeUnchanged DEF ListInv
  <1> QED BY <1>2, <1>3, <1>4, <1>5, <1>6, <1>7 DEF Next

\* The list, the tree and the ring of roots agree in every pool.
THEOREM ListInvAlways == Spec => []ListInv
  BY InitListInv, NextListInv, PTL DEF Spec

\* The ring holds the roots of the last prefixes of the list, and no others.
LEMMA RingIsRecent == ListInv => RootsOfLastDeposits
  <1> SUFFICES ASSUME ListInv PROVE RootsOfLastDeposits
    OBVIOUS
  <1> DEFINE listed == MergeCommitmentSources
             Recent == {TreeRoot(SubSeq(listed, 1, k)) :
                           k \in {j \in 1..nextIndex : j + RootHistorySize > nextIndex}}
  <1>1. ASSUME NEW root \in KnownRoots PROVE root \in Recent
    BY KnownRootIsPrefix
  <1>2. ASSUME NEW k \in 1..nextIndex, k + RootHistorySize > nextIndex
        PROVE  TreeRoot(SubSeq(listed, 1, k)) \in KnownRoots
    <2>1. listed \in Seq(Notes) /\ Len(listed) = nextIndex
      BY ListedType
    <2>2. RingFor(roots, listed) /\ rootCount = nextIndex
      BY DEF ListInv, TreeOK
    <2>3. PICK slot \in 0..(RootHistorySize - 1) :
              slot < nextIndex /\ roots[slot] = TreeRoot(SubSeq(listed, 1, k))
      BY <1>2, <2>1, <2>2, RingHoldsAll
    <2> QED BY <2>2, <2>3 DEF KnownRoots
  <1>3. KnownRoots = Recent
    BY <1>1, <1>2
  <1> QED BY <1>3 DEF RootsOfLastDeposits

\* The roots a proof may be made against are those of the last RootHistorySize
\* deposits as a client computes them, of pages of any size and a ring of any length.
THEOREM RootsAreRecent == Spec => []RootsOfLastDeposits
  BY RingIsRecent, ListInvAlways, PTL

\* A root names one list: that of the first k deposits is known exactly until the
\* RootHistorySize-th deposit after them, and no later deposit brings it back.  The
\* model of the clients takes this from the program (RootKnown of SdkClient).
KnownExactlyRecent ==
    \A k \in 1..nextIndex :
        TreeRoot(SubSeq(MergeCommitmentSources, 1, k)) \in KnownRoots
        <=> nextIndex - k < RootHistorySize

\* A client may rely on the age of a root alone: a proof is acceptable for exactly
\* RootHistorySize - 1 deposits after the state it was made from, whatever they are.
THEOREM RootsAgeOut == Spec => []KnownExactlyRecent
  <1>1. ASSUME ListInv PROVE KnownExactlyRecent
    <2> SUFFICES ASSUME NEW k \in 1..nextIndex
                 PROVE  TreeRoot(SubSeq(MergeCommitmentSources, 1, k)) \in KnownRoots
                        <=> nextIndex - k < RootHistorySize
      BY DEF KnownExactlyRecent
    <2> DEFINE listed == MergeCommitmentSources
    <2>1. listed \in Seq(Notes) /\ Len(listed) = nextIndex /\ nextIndex \in Nat
          /\ nextIndex <= Capacity /\ Capacity \in Nat
      BY <1>1, ListedType, Facts
    <2>2. nextIndex - k < RootHistorySize <=> k + RootHistorySize > nextIndex
      BY <2>1, Facts
    <2>3. RootsOfLastDeposits
      BY <1>1, RingIsRecent
    <2>4. k + RootHistorySize > nextIndex => TreeRoot(SubSeq(listed, 1, k)) \in KnownRoots
      BY <2>3 DEF RootsOfLastDeposits
    <2>5. ASSUME TreeRoot(SubSeq(listed, 1, k)) \in KnownRoots PROVE k + RootHistorySize > nextIndex
      <3>1. PICK m \in 1..nextIndex : /\ m + RootHistorySize > nextIndex
                                      /\ TreeRoot(SubSeq(listed, 1, k)) = TreeRoot(SubSeq(listed, 1, m))
        BY <1>1, <2>5, KnownRootIsPrefix
      <3> HIDE DEF listed
      <3>2. \A j \in {k, m} : /\ SubSeq(listed, 1, j) \in Seq(Notes)
                              /\ Len(SubSeq(listed, 1, j)) = j /\ j <= Capacity
        <4> SUFFICES ASSUME NEW j \in {k, m}
                     PROVE  /\ SubSeq(listed, 1, j) \in Seq(Notes)
                            /\ Len(SubSeq(listed, 1, j)) = j /\ j <= Capacity
          OBVIOUS
        <4>1. j \in 0..Len(listed) /\ j <= Capacity
          BY <2>1
        <4> QED BY <2>1, <4>1, Prefixes
      <3>3. SubSeq(listed, 1, k) = SubSeq(listed, 1, m)
        BY <3>1, <3>2, Facts, RootsDiffer
      <3>4. k = m
        BY <3>2, <3>3
      <3> QED BY <3>1, <3>4
    <2> QED BY <2>2, <2>4, <2>5
  <1> QED BY <1>1, ListInvAlways, PTL

\* No pool, of pages of any size and with any number of inline leaves, comes to a
\* state in which the page of its next leaf refuses it.
THEOREM PagesNeverWedge == Spec => []PageTakesNext
  <1>1. ASSUME ListInv PROVE PageTakesNext
    <2> SUFFICES ASSUME nextIndex < Capacity
                 PROVE  NextOfPage(OpenPage(pages, nextIndex \div PageCapacity,
                                            nextIndex % PageCapacity),
                                   nextIndex % PageCapacity)
      BY DEF PageTakesNext
    <2>1. PICK c \in Nat : c = Len(commitments) /\ c <= nextIndex /\ PagesFor(pages, c, nextIndex)
      BY <1>1 DEF ListInv, Inv, TypeOK, PagesOK
    <2>2. pages \in [PageIndexes -> Page] /\ nextIndex \in 0..Capacity /\ nextIndex \in Nat
      BY <1>1, Facts DEF ListInv, Inv, TypeOK
    <2>3. PICK index \in PageIndexes : index = nextIndex \div PageCapacity
      BY <2>2, PageIndexOf
    <2>4. PICK page \in Page : page = OpenPage(pages, index, nextIndex % PageCapacity)
      <3>1. nextIndex % PageCapacity \in 0..PageCapacity /\ 0 \in 0..PageCapacity
        BY <2>2, Facts
      <3> QED BY <2>2, <3>1 DEF OpenPage, NoPage, Page
    <2>5. PICK base \in Nat : base = index * PageCapacity
      BY Facts DEF PageIndexes
    <2>6. PICK first \in Nat : first = IF c > base THEN c ELSE base
      OBVIOUS
    <2>7. base <= nextIndex /\ nextIndex < base + PageCapacity
          /\ nextIndex % PageCapacity = nextIndex - base
      <3>1. index \in Nat /\ PageCapacity \in Nat \ {0}
        BY Facts DEF PageIndexes
      <3>2. base <= nextIndex /\ nextIndex < base + PageCapacity
        BY <2>2, <2>3, <2>5, <3>1, DivIff
      <3>3. nextIndex = base + (nextIndex % PageCapacity) /\ nextIndex % PageCapacity \in Int
        BY <2>2, <2>3, <2>5, <3>1, DivMod
      <3> QED BY <2>2, <3>1, <3>2, <3>3
    <2>8. page.start = first - base /\ page.count = nextIndex - first
      <3>1. page = OpenPage(pages, index, nextIndex - base)
        BY <2>4, <2>7
      <3>2. HoldsUpTo(page, c, base, nextIndex)
        BY <2>1, <2>2, <2>3, <2>5, <2>7, <3>1, OpenPageFacts
      <3> QED BY <2>6, <3>2 DEF HoldsUpTo
    <2>9. base <= first /\ first <= nextIndex
      BY <2>1, <2>2, <2>6, <2>7
    <2>10. NextOfPage(page, nextIndex % PageCapacity)
      BY <2>2, <2>5, <2>6, <2>7, <2>8, <2>9, Facts DEF NextOfPage
    <2> QED BY <2>3, <2>4, <2>10
  <1> QED BY <1>1, ListInvAlways, PTL

-----------------------------------------------------------------------------
(* The refinement of ShieldedLedger.                                       *)

\* A new pool is a ledger of its inline leaves, none of them spent.
LEMMA InitLedger == Init => Ledger!Init
  <1> SUFFICES ASSUME Init PROVE Ledger!Init
    OBVIOUS
  <1>1. ListInv
    BY InitListInv
  <1>2. MergeCommitmentSources \in [1..nextIndex -> Notes] /\ nextIndex \in 0..Capacity
        /\ Len(MergeCommitmentSources) = nextIndex
    BY <1>1, ListedType
  <1>3. Spent = {}
    BY RangeOfEmpty DEF Init, Spent
  <1>4. vault = DepositAmount * nextIndex
    BY DEF Init
  <1> QED BY <1>2, <1>3, <1>4 DEF Ledger!Init

\* Every instruction is one of the ledger's, or does not concern it.
LEMMA NextLedger == ListInv /\ [Next]_vars => [Ledger!Next]_(Ledger!vars)
  <1> SUFFICES ASSUME ListInv, [Next]_vars PROVE [Ledger!Next]_(Ledger!vars)
    OBVIOUS
  <1>1. CASE DepositNext
    <2>1. PICK note \in Notes : \/ Deposit(note)
                                \/ \E index \in PageIndexes : kind # "legacy" /\ DepositPaged(note, index)
      BY <1>1 DEF DepositNext, DepositV2, DepositSpl, DepositFeeV2, DepositFeeSpl
    <2>2. AppendLeaf(note) /\ UNCHANGED spend
          /\ MergeCommitmentSources' = Append(MergeCommitmentSources, note)
      BY <2>1, DepositListed
    <2>3. Len(MergeCommitmentSources) < Capacity /\ vault' = vault + DepositAmount
      BY <2>2, ListedType DEF AppendLeaf
    <2>4. Spent' = Spent
      BY <2>2 DEF spend, Spent
    <2>5. Ledger!Deposit(note)
      BY <2>2, <2>3, <2>4 DEF Ledger!Deposit
    <2> QED BY <2>5 DEF Ledger!Next
  <1>2. CASE \E proof \in proofs, r \in Recipients :
                DirectNext(proof, r) \/ \E fee \in RelayerFees : RelayedNext(proof, r, fee)
    <2>1. PICK proof \in proofs, r \in Recipients :
              DirectNext(proof, r) \/ \E fee \in RelayerFees : RelayedNext(proof, r, fee)
      BY <1>2
    <2>2. PaysDeposit /\ UsesOnce(proof.nullifier)
      BY <2>1, EveryWithdrawal DEF ListInv
    <2>3. MergeCommitmentSources' = MergeCommitmentSources
      BY <2>2, TreeUnchanged DEF PaysDeposit
    <2>4. CASE proof.nullifier \in OtherNullifiers
      <3>1. DepositAmount <= vault
        BY <2>2, Facts DEF PaysDeposit, ListInv, Inv, TypeOK
      <3>2. Ledger!WithdrawOtherwise(proof.nullifier)
        BY <2>2, <2>3, <3>1 DEF UsesOnce, PaysDeposit, Ledger!WithdrawOtherwise
      <3> QED BY <2>4, <3>2 DEF Ledger!Next
    <2>5. CASE proof.nullifier \notin OtherNullifiers
      <3>1. proof.root \in KnownRoots
        BY <2>1, EveryWithdrawalVerifies DEF Verify
      <3>2. PICK i \in 1..nextIndex : proof.nullifier = NullifierOf[MergeCommitmentSources[i]]
        BY <2>5, <3>1, AcceptedIsListed
      <3>3. PICK note \in Notes : note = MergeCommitmentSources[i]
        BY ListedType
      <3>4. \E j \in 1..Len(MergeCommitmentSources) : MergeCommitmentSources[j] = note
        BY <3>3, ListedType
      <3>5. NullifierOf[note] \notin Spent /\ Spent' = Spent \cup {NullifierOf[note]}
            /\ vault' = vault - DepositAmount
        BY <2>2, <3>2, <3>3 DEF UsesOnce, PaysDeposit
      <3>6. Ledger!Withdraw(note)
        BY <2>3, <3>4, <3>5 DEF Ledger!Withdraw
      <3> QED BY <3>6 DEF Ledger!Next
    <2> QED BY <2>4, <2>5
  <1>3. CASE \/ \E n \in Notes, r \in Recipients : Prove(n, r)
             \/ \E x \in OtherNullifiers, r \in Recipients : ProveOtherwise(x, r)
             \/ \E t \in Treasuries : UpdateTreasury(t)
             \/ UNCHANGED vars
    <2>1. UNCHANGED <<kind, tree, spend, vault>>
      BY <1>3 DEF Prove, ProveOtherwise, UpdateTreasury, vars
    <2>2. MergeCommitmentSources' = MergeCommitmentSources
      BY <2>1, TreeUnchanged
    <2>3. Spent' = Spent /\ vault' = vault
      BY <2>1 DEF spend, Spent
    <2> QED BY <2>2, <2>3 DEF Ledger!vars
  <1> QED BY <1>1, <1>2, <1>3 DEF Next

\* The program keeps the ledger of ShieldedLedger: a client finds every deposit in
\* order, a nullifier is spent once whoever made its proof, for a note that is listed
\* if the SDK made it, and the vault pays one deposit for it.  Who else can make a
\* proof is not decided here: the circuit leaves its pathIndices unconstrained.
THEOREM PoolKeepsLedger == Spec => KeepsLedger
  <1>1. Init => Ledger!Init
    BY InitLedger
  <1>2. ListInv /\ [Next]_vars => [Ledger!Next]_(Ledger!vars)
    BY NextLedger
  <1> QED BY <1>1, <1>2, ListInvAlways, PTL DEF Spec, KeepsLedger, Ledger!Spec

-----------------------------------------------------------------------------
(* Whether a note can be withdrawn.  FreshProofAccepted says it with       *)
(* ENABLED; this says it guard by guard.                                   *)

\* The proof that the owner of the i-th note makes from what the pool lists now.
FreshProof(i, r) ==
    [root |-> TreeRoot(MergeCommitmentSources), nullifier |-> NullifierOf[MergeCommitmentSources[i]],
     recipient |-> RecipientInput[r]]

\* What the withdrawal instructions ask of the money.
Payable ==
    /\ DepositAmount <= vault
    /\ kind \in FeeKinds => ProtocolFee < DepositAmount /\ treasury \in Treasuries

Withdrawable ==
    Spent \cap OtherNullifiers = {} => \A i \in 1..nextIndex :
        NullifierOf[MergeCommitmentSources[i]] \notin Spent \cup {ZeroNullifier} =>
            /\ Provable(MergeCommitmentSources, i - 1)
            /\ \A r \in Recipients : Verify(FreshProof(i, r), r)
            /\ Payable

\* A nullifier that a proof of the SDK spent is one of a listed note.
SpentListed ==
    \A x \in Spent \ OtherNullifiers :
        \E j \in 1..Len(MergeCommitmentSources) : NullifierOf[MergeCommitmentSources[j]] = x

\* Every step of the ledger keeps that.
LEMMA NextSpentListed ==
    ASSUME ListInv, SpentListed, [Ledger!Next]_(Ledger!vars)
    PROVE  SpentListed'
  <1> DEFINE listed == MergeCommitmentSources
  <1>1. listed \in Seq(Notes)
    BY ListedType
  <1>2. CASE \E n \in Notes : Ledger!Deposit(n)
    <2>1. PICK n \in Notes : listed' = Append(listed, n) /\ Spent' = Spent
      BY <1>2 DEF Ledger!Deposit
    <2>2. Len(listed') = Len(listed) + 1 /\ \A j \in 1..Len(listed) : listed'[j] = listed[j]
      <3> HIDE DEF listed
      <3> QED BY <1>1, <2>1
    <2>3. \A j \in 1..Len(listed) : j \in 1..Len(listed')
      <3> HIDE DEF listed
      <3> QED BY <1>1, <2>2
    <2> QED BY <2>1, <2>2, <2>3 DEF SpentListed
  <1>3. CASE \E n \in Notes : Ledger!Withdraw(n)
    <2>1. PICK n \in Notes : /\ \E i \in 1..Len(listed) : listed[i] = n
                             /\ Spent' = Spent \cup {NullifierOf[n]} /\ listed' = listed
      BY <1>3 DEF Ledger!Withdraw
    <2> QED BY <2>1 DEF SpentListed
  <1>4. CASE \E x \in OtherNullifiers : Ledger!WithdrawOtherwise(x)
    BY <1>4 DEF SpentListed, Ledger!WithdrawOtherwise
  <1>5. CASE UNCHANGED Ledger!vars
    BY <1>5 DEF SpentListed, Ledger!vars
  <1> QED BY <1>2, <1>3, <1>4, <1>5 DEF Ledger!Next

\* The protocol fee is less than the deposit.
LEMMA FeeLeavesSome == ProtocolFee < DepositAmount
  <1>1. PICK d \in Nat \ {0} : d = DepositAmount
    BY PoolAssumption
  <1>2. PICK b \in 0..500 : b = ProtocolFeeBps
    BY PoolAssumption
  <1>3. PICK x \in Nat : x = d * b
    OBVIOUS
  <1>4. x <= d * 500
    <2>1. PICK c \in Nat : b + c = 500
      <3>1. 500 - b \in Nat /\ b + (500 - b) = 500
        OBVIOUS
      <3> QED BY <3>1
    <2>2. d * 500 = d * b + d * c /\ d * c \in Nat
      BY <2>1
    <2> QED BY <1>3, <2>2
  <1>5. x \div 10000 < d
    BY <1>4
  <1> QED BY <1>1, <1>2, <1>3, <1>5 DEF ProtocolFee

\* While a note is not spent its deposit is in the vault, if only notes were.
LEMMA DepositIsHeld ==
    ASSUME ListInv, SpentListed, Spent \cap OtherNullifiers = {}, NEW i \in 1..nextIndex,
           NullifierOf[MergeCommitmentSources[i]] \notin Spent
    PROVE  DepositAmount <= vault
  <1>1. PICK n \in Nat : n = nextIndex
    BY ListedType
  <1> DEFINE name == [j \in 1..n |-> NullifierOf[MergeCommitmentSources[j]]]
             All  == {name[j] : j \in 1..n}
  <1>2. IsFiniteSet(All) /\ Cardinality(All) <= n
    <2>1. name \in Surjection(1..n, All)
      BY DEF Surjection
    <2>2. IsFiniteSet(1..n) /\ Cardinality(1..n) = n
      BY FS_Interval
    <2> HIDE DEF name, All
    <2> QED BY <2>1, <2>2, FS_Surjection
  <1>3. Spent \subseteq All /\ name[i] \in All /\ name[i] \notin Spent
    BY <1>1, ListedType DEF SpentListed
  <1> HIDE DEF All, name
  <1>4. IsFiniteSet(Spent) /\ Cardinality(Spent) < Cardinality(All)
    BY <1>2, <1>3, FS_Subset, FS_CardinalityType
  <1>5. PICK k \in Nat : k = Cardinality(Spent) /\ k = nullifierCount /\ k < n
    BY <1>2, <1>4, FS_CardinalityType DEF ListInv, Inv, CountOK
  <1>6. PICK m \in Nat : n - k = m + 1
    <2>1. (n - k) - 1 \in Nat
      BY <1>5
    <2> QED BY <2>1
  <1>7. PICK d \in Nat : d = DepositAmount
    BY Facts
  <1>8. vault = d * (n - k)
    BY <1>1, <1>5, <1>7 DEF ListInv, Inv, MoneyOK
  <1>9. d * (m + 1) = d * m + d /\ d * m \in Nat
    OBVIOUS
  <1> QED BY <1>6, <1>7, <1>8, <1>9

\* No note is stranded by what depositors, relayers and the authority do: in every
\* state that proofs of the SDK lead to, the owner of a note that is deposited and not
\* spent can prove it from what the pool lists, and every check of the program, of
\* the proof, the fee and the money, lets its withdrawal pass.
THEOREM NoNoteStranded == Spec => []Withdrawable
  <1>1. Init => SpentListed
    <2>1. Init => Spent = {}
      BY RangeOfEmpty DEF Init, Spent
    <2> QED BY <2>1 DEF SpentListed
  <1>2. ListInv /\ SpentListed /\ [Next]_vars => SpentListed'
    BY NextLedger, NextSpentListed
  <1>3. ASSUME ListInv, SpentListed PROVE Withdrawable
    <2> SUFFICES ASSUME Spent \cap OtherNullifiers = {}, NEW i \in 1..nextIndex,
                        NullifierOf[MergeCommitmentSources[i]] \notin Spent \cup {ZeroNullifier}
                 PROVE  /\ Provable(MergeCommitmentSources, i - 1)
                        /\ \A r \in Recipients : Verify(FreshProof(i, r), r)
                        /\ Payable
      BY DEF Withdrawable
    <2> DEFINE listed == MergeCommitmentSources
    <2>1. listed \in Seq(Notes) /\ Len(listed) = nextIndex /\ nextIndex \in 0..Capacity
      BY <1>3, ListedType
    <2>2. Provable(listed, i - 1)
      <3>1. i - 1 \in 0..(Len(listed) - 1) /\ Len(listed) <= Capacity
        BY <2>1, Facts
      <3> HIDE DEF listed
      <3> QED BY <2>1, <3>1, ListedIsProvable
    <2>3. TreeRoot(listed) \in KnownRoots
      <3>1. SubSeq(listed, 1, nextIndex) = listed
        <4> HIDE DEF listed
        <4> QED BY <2>1
      <3>2. nextIndex \in {j \in 1..nextIndex : j + RootHistorySize > nextIndex}
        BY <2>1, Facts
      <3> QED BY <1>3, <3>1, <3>2, RingIsRecent DEF RootsOfLastDeposits
    <2>4. \A r \in Recipients : Verify(FreshProof(i, r), r)
      BY <2>3 DEF Verify, FreshProof
    <2>5. Payable
      BY <1>3, DepositIsHeld, FeeLeavesSome DEF Payable, ListInv, Inv, TypeOK
    <2> QED BY <2>2, <2>4, <2>5
  <1> QED BY <1>1, <1>2, <1>3, ListInvAlways, PTL DEF Spec

-----------------------------------------------------------------------------
(* Who is paid.                                                            *)

\* What a pool of this kind owes its treasury for a withdrawal.
ProtocolShare == IF kind \in FeeKinds THEN ProtocolFee ELSE 0

\* Every withdrawal pays the recipient the proof names, the relayer, and the
\* treasury the pool has at that moment, one deposit between them.
LEMMA EveryWithdrawalPays ==
    ASSUME Inv, NEW proof \in proofs, NEW r \in Recipients,
           \/ DirectNext(proof, r)
           \/ \E fee \in RelayerFees : RelayedNext(proof, r, fee)
    PROVE  \E amount \in 0..DepositAmount, fee \in Nat :
              /\ amount + fee + ProtocolShare = DepositAmount
              /\ Pay(r, amount, fee, treasury, ProtocolShare)
  <1> DEFINE Free == kind \notin FeeKinds /\ (PayRecipient(r) \/ \E fee \in RelayerFees : PayRelayed(r, fee))
             Fees == kind \in FeeKinds /\ \E fee \in RelayerFees \cup {0}, t \in Treasuries : PayWithFees(r, fee, t)
  <1>1. DepositAmount \in Nat /\ ProtocolFee \in Nat /\ RelayerFees \cup {0} \subseteq Nat
    BY Facts, ProtocolFeeType
  <1>2. /\ "legacy" \notin FeeKinds /\ "v2" \notin FeeKinds /\ "spl" \notin FeeKinds
        /\ "fee_v2" \in FeeKinds /\ "fee_spl" \in FeeKinds
    BY DEF FeeKinds
  <1>3. Free \/ Fees
    <2>1. CASE DirectNext(proof, r)
      BY <1>2, <2>1, Zenon DEF DirectNext, WithdrawZk, WithdrawZkV2, WithdrawZkSpl, WithdrawZkFeeV2,
                               WithdrawZkFeeSpl
    <2>2. CASE \E fee \in RelayerFees : RelayedNext(proof, r, fee)
      BY <1>2, <2>2, Zenon DEF RelayedNext, WithdrawZkRelayed, WithdrawZkRelayedV2,
                         WithdrawZkRelayedSpl, WithdrawZkRelayedFeeV2, WithdrawZkRelayedFeeSpl
    <2> QED BY <2>1, <2>2
  <1>4. ASSUME kind \notin FeeKinds, PayRecipient(r)
        PROVE  Pay(r, DepositAmount, 0, treasury, ProtocolShare) /\ ProtocolShare = 0
    BY <1>4 DEF PayRecipient, ProtocolShare
  <1>5. ASSUME kind \notin FeeKinds, NEW fee \in RelayerFees, PayRelayed(r, fee)
        PROVE  /\ Pay(r, DepositAmount - fee, fee, treasury, ProtocolShare) /\ ProtocolShare = 0
               /\ DepositAmount - fee \in 0..DepositAmount
    BY <1>1, <1>5 DEF PayRelayed, ProtocolShare
  <1>6. ASSUME kind \in FeeKinds, NEW fee \in RelayerFees \cup {0}, NEW t, PayWithFees(r, fee, t)
        PROVE  /\ Pay(r, DepositAmount - ProtocolFee - fee, fee, treasury, ProtocolShare)
               /\ ProtocolShare = ProtocolFee
               /\ DepositAmount - ProtocolFee - fee \in 0..DepositAmount
    BY <1>1, <1>6 DEF PayWithFees, ProtocolShare
  <1>7. CASE kind \notin FeeKinds /\ PayRecipient(r)
    BY <1>1, <1>4, <1>7
  <1>8. CASE kind \notin FeeKinds /\ \E fee \in RelayerFees : PayRelayed(r, fee)
    <2>1. PICK fee \in RelayerFees : PayRelayed(r, fee)
      BY <1>8
    <2>2. fee \in Nat /\ (DepositAmount - fee) + fee + 0 = DepositAmount
      BY <1>1
    <2> QED BY <1>5, <1>8, <2>1, <2>2
  <1>9. CASE Fees
    <2>1. PICK fee \in RelayerFees \cup {0}, t \in Treasuries : PayWithFees(r, fee, t)
      BY <1>9
    <2>2. fee \in Nat /\ (DepositAmount - ProtocolFee - fee) + fee + ProtocolFee = DepositAmount
      BY <1>1
    <2> QED BY <1>6, <1>9, <2>1, <2>2
  <1> QED BY <1>3, <1>7, <1>8, <1>9

\* A payment adds what is due to the payee's account, and nothing to the others.
LEMMA PaidTo ==
    ASSUME Inv, NEW r \in Recipients, NEW amount \in Nat, NEW fee \in Nat, NEW share \in Nat,
           Pay(r, amount, fee, treasury, share)
    PROVE  /\ \A a \in Recipients : paid'[a] = paid[a] + (IF a = r THEN amount ELSE 0)
           /\ \A a \in Treasuries : paid'[a] = paid[a] + (IF a = treasury THEN share ELSE 0)
           /\ \A a \in Recipients \cup Treasuries : paid[a] \in Nat
  <1>1. paid \in [Accounts -> Nat] /\ treasury \in Treasuries
    BY DEF Inv, TypeOK
  <1>2. Recipients \subseteq Accounts /\ Treasuries \subseteq Accounts
        /\ Relayer \notin Recipients \cup Treasuries /\ Recipients \cap Treasuries = {}
    BY PoolAssumption DEF Accounts
  <1> DEFINE due == [a \in Accounts |-> IF a = r THEN amount ELSE IF a = Relayer THEN fee
                                        ELSE IF a = treasury THEN share ELSE 0]
  <1>3. paid' = [a \in Accounts |-> paid[a] + due[a]]
    BY DEF Pay
  <1>4. \A a \in Recipients : due[a] = IF a = r THEN amount ELSE 0
    BY <1>1, <1>2
  <1>5. \A a \in Treasuries : due[a] = IF a = treasury THEN share ELSE 0
    BY <1>1, <1>2
  <1> HIDE DEF due
  <1> QED BY <1>1, <1>2, <1>3, <1>4, <1>5

\* A withdrawal pays the protocol fee to the treasury of the moment.
LEMMA FeeStep ==
    ASSUME Inv, NEW proof \in proofs, NEW r \in Recipients,
           \/ DirectNext(proof, r)
           \/ \E fee \in RelayerFees : RelayedNext(proof, r, fee)
    PROVE  /\ nullifierCount' # nullifierCount
           /\ \A t \in Treasuries :
                 paid'[t] = paid[t] + (IF t = treasury THEN ProtocolShare ELSE 0)
  <1>1. PICK amount \in 0..DepositAmount, fee \in Nat :
            /\ amount + fee + ProtocolShare = DepositAmount
            /\ Pay(r, amount, fee, treasury, ProtocolShare)
    BY EveryWithdrawalPays
  <1>2. amount \in Nat /\ ProtocolShare \in Nat
    BY ProtocolFeeType, Facts DEF ProtocolShare
  <1>3. nullifierCount' = nullifierCount + 1 /\ nullifierCount \in Nat
    BY EveryWithdrawal DEF UsesOnce, Inv, TypeOK
  <1> QED BY <1>1, <1>2, <1>3, PaidTo

\* Nothing was paid yet.
LEMMA InitPaid == Init => PaidAsProved
  <1> SUFFICES ASSUME Init PROVE PaidAsProved
    OBVIOUS
  <1>1. IsFiniteSet(Recipients)
    BY PoolAssumption
  <1>2. Recipients \subseteq Accounts
    BY DEF Accounts
  <1>3. paid = [a \in Accounts |-> 0] /\ proofs = {}
    BY DEF Init
  <1> SUFFICES ASSUME NEW input \in Range(RecipientInput)
               PROVE  SumFunctionOnSet(paid, {r \in Recipients : RecipientInput[r] = input})
                        <= DepositAmount * Cardinality(
                             {proof.nullifier : proof \in {q \in proofs : q.recipient = input
                                                                          /\ q.nullifier \in Spent}})
    BY DEF PaidAsProved
  <1> DEFINE S == {r \in Recipients : RecipientInput[r] = input}
             X == {proof.nullifier : proof \in {q \in proofs : q.recipient = input
                                                               /\ q.nullifier \in Spent}}
  <1>4. S \subseteq Recipients /\ S \subseteq Accounts
    BY <1>2
  <1>5. X = {}
    BY <1>3
  <1> HIDE DEF S, X
  <1>6. IsFiniteSet(S)
    BY <1>1, <1>4, FS_Subset
  <1>7. SumFunctionOnSet(paid, S) = 0
    BY <1>3, <1>4, <1>6, SumOfZeros
  <1>8. Cardinality(X) = 0
    BY <1>5, FS_EmptySet
  <1>9. SumFunctionOnSet(paid, S) <= DepositAmount * Cardinality(X)
    BY <1>7, <1>8, Facts
  <1> QED BY <1>9 DEF S, X

\* The nullifiers that were spent and proved for a recipient.
SpentFor(input, spent) ==
    {proof.nullifier : proof \in {q \in proofs : q.recipient = input /\ q.nullifier \in spent}}

\* A withdrawal pays at most one deposit, to a recipient its proof names, for a
\* nullifier that was not spent before.
LEMMA PaidStep ==
    ASSUME Inv, PaidAsProved, NEW proof \in proofs, NEW r \in Recipients,
           \/ DirectNext(proof, r)
           \/ \E fee \in RelayerFees : RelayedNext(proof, r, fee)
    PROVE  PaidAsProved'
  <1>1. PICK amount \in 0..DepositAmount, fee \in Nat :
            /\ amount + fee + ProtocolShare = DepositAmount
            /\ Pay(r, amount, fee, treasury, ProtocolShare)
    BY EveryWithdrawalPays
  <1>2. PaysDeposit /\ UsesOnce(proof.nullifier) /\ Verify(proof, r)
    BY EveryWithdrawal, EveryWithdrawalVerifies
  <1>3. DepositAmount \in Nat /\ amount \in Nat /\ amount <= DepositAmount /\ ProtocolShare \in Nat
    BY ProtocolFeeType, Facts DEF ProtocolShare
  <1>4. /\ \A a \in Recipients : paid'[a] = paid[a] + (IF a = r THEN amount ELSE 0)
        /\ \A a \in Recipients : paid[a] \in Nat
    BY <1>1, <1>3, PaidTo
  <1>5. IsFiniteSet(Spent) /\ Spent' = Spent \cup {proof.nullifier} /\ proof.nullifier \notin Spent
        /\ proofs' = proofs /\ proof.recipient = RecipientInput[r]
    BY <1>2 DEF UsesOnce, PaysDeposit, Verify, Inv, CountOK
  <1> SUFFICES ASSUME NEW input \in Range(RecipientInput)
               PROVE  SumFunctionOnSet(paid', {a \in Recipients : RecipientInput[a] = input})
                        <= DepositAmount * Cardinality(SpentFor(input, Spent'))
    BY <1>5 DEF PaidAsProved, SpentFor
  <1> DEFINE S == {a \in Recipients : RecipientInput[a] = input}
             X == SpentFor(input, Spent)
             Y == SpentFor(input, Spent')
  <1>6. S \subseteq Recipients /\ IsFiniteSet(S)
    BY PoolAssumption, FS_Subset
  <1>7. r \in S <=> proof.recipient = input
    BY <1>5
  <1>8. SumFunctionOnSet(paid, S) <= DepositAmount * Cardinality(X)
    BY DEF PaidAsProved, SpentFor
  <1>9. X \subseteq Spent /\ X \subseteq Y /\ Y \subseteq X \cup {proof.nullifier}
        /\ (proof.recipient = input => Y = X \cup {proof.nullifier})
    BY <1>5 DEF SpentFor
  <1> HIDE DEF S, X, Y
  <1>10. SumFunctionOnSet(paid', S) = SumFunctionOnSet(paid, S) + (IF r \in S THEN amount ELSE 0)
         /\ SumFunctionOnSet(paid, S) \in Nat
    <2>1. \A a \in S : paid'[a] = paid[a] + (IF a = r THEN amount ELSE 0)
      BY <1>4, <1>6
    <2>2. \A a \in S : paid[a] \in Nat
      BY <1>4, <1>6
    <2> QED BY <1>3, <1>6, <2>1, <2>2, SumStep
  <1>11. IsFiniteSet(X) /\ Cardinality(X) \in Nat /\ proof.nullifier \notin X
    BY <1>5, <1>9, FS_Subset, FS_CardinalityType
  <1>12. CASE r \in S
    <2>1. Cardinality(Y) = Cardinality(X) + 1
      BY <1>7, <1>9, <1>11, <1>12, FS_AddElement
    <2>2. DepositAmount * (Cardinality(X) + 1) = DepositAmount * Cardinality(X) + DepositAmount
      BY <1>3, <1>11, OneDeposit
    <2>3. DepositAmount * Cardinality(X) \in Nat
      BY <1>3, <1>11
    <2> QED BY <1>3, <1>8, <1>10, <1>12, <2>1, <2>2, <2>3 DEF S, Y
  <1>13. CASE r \notin S
    <2>1. Cardinality(X) <= Cardinality(Y) /\ Cardinality(Y) \in Nat
      <3>1. IsFiniteSet(X \cup {proof.nullifier})
        BY <1>11, FS_AddElement
      <3>2. IsFiniteSet(Y)
        BY <1>9, <3>1, FS_Subset
      <3> QED BY <1>9, <3>2, FS_Subset, FS_CardinalityType
    <2>2. PICK k \in Nat, m \in Nat : k = Cardinality(X) /\ k + m = Cardinality(Y)
      <3>1. Cardinality(Y) - Cardinality(X) \in Nat
        BY <1>11, <2>1
      <3> QED BY <1>11, <2>1, <3>1
    <2>3. DepositAmount * (k + m) = DepositAmount * k + DepositAmount * m
          /\ DepositAmount * k \in Nat /\ DepositAmount * m \in Nat
      BY <1>3
    <2>4. DepositAmount * Cardinality(X) <= DepositAmount * Cardinality(Y)
          /\ DepositAmount * Cardinality(Y) \in Nat /\ DepositAmount * Cardinality(X) \in Nat
      BY <2>2, <2>3
    <2>5. SumFunctionOnSet(paid', S) = SumFunctionOnSet(paid, S)
      BY <1>10, <1>13
    <2>6. SumFunctionOnSet(paid', S) <= DepositAmount * Cardinality(Y)
      BY <1>8, <1>10, <2>4, <2>5
    <2> QED BY <2>6 DEF S, Y
  <1> QED BY <1>12, <1>13

\* A sum of natural numbers is one.
LEMMA SumType ==
    ASSUME NEW S, IsFiniteSet(S), NEW f, \A y \in S : f[y] \in Nat
    PROVE  SumFunctionOnSet(f, S) \in Nat
  <1>1. \A y \in S : f[y] = f[y] + (IF y = 0 THEN 0 ELSE 0)
    OBVIOUS
  <1> QED BY <1>1, 0 \in Nat, SumStep

\* More proofs allow more payments, never fewer.
LEMMA MoreProofs ==
    ASSUME Inv, PaidAsProved, proofs \subseteq proofs', UNCHANGED <<spend, paid>>
    PROVE  PaidAsProved'
  <1>1. Spent' = Spent /\ IsFiniteSet(Spent) /\ DepositAmount \in Nat
    BY Facts DEF spend, Spent, Inv, CountOK
  <1> SUFFICES ASSUME NEW input \in Range(RecipientInput)
               PROVE  SumFunctionOnSet(paid, {a \in Recipients : RecipientInput[a] = input})
                        <= DepositAmount * Cardinality(SpentFor(input, Spent)')
    BY <1>1 DEF PaidAsProved, SpentFor
  <1> DEFINE total == SumFunctionOnSet(paid, {a \in Recipients : RecipientInput[a] = input})
             X == SpentFor(input, Spent)
  <1>2. total <= DepositAmount * Cardinality(X)
    BY DEF PaidAsProved, SpentFor
  <1>3. X \subseteq X' /\ X \subseteq Spent /\ X' \subseteq Spent
    BY <1>1 DEF SpentFor
  <1>4. total \in Nat
    <2> DEFINE S == {a \in Recipients : RecipientInput[a] = input}
    <2>1. paid \in [Accounts -> Nat] /\ Recipients \subseteq Accounts
      BY DEF Inv, TypeOK, Accounts
    <2>2. S \subseteq Recipients /\ IsFiniteSet(S)
      BY PoolAssumption, FS_Subset
    <2> HIDE DEF S
    <2>3. \A a \in S : paid[a] \in Nat
      BY <2>1, <2>2
    <2>4. SumFunctionOnSet(paid, S) \in Nat
      BY <2>2, <2>3, SumType
    <2> QED BY <2>4 DEF S
  <1> HIDE DEF total, X
  <1>5. Cardinality(X) \in Nat /\ Cardinality(X') \in Nat /\ Cardinality(X) <= Cardinality(X')
    <2>1. IsFiniteSet(X')
      BY <1>1, <1>3, FS_Subset
    <2> QED BY <1>3, <2>1, FS_Subset, FS_CardinalityType
  <1>6. PICK k \in Nat, m \in Nat : k = Cardinality(X) /\ k + m = Cardinality(X')
    <2>1. Cardinality(X') - Cardinality(X) \in Nat
      BY <1>5
    <2> QED BY <1>5, <2>1
  <1>7. DepositAmount * (k + m) = DepositAmount * k + DepositAmount * m
        /\ DepositAmount * k \in Nat /\ DepositAmount * m \in Nat
    BY <1>1
  <1>8. total <= DepositAmount * Cardinality(X')
    BY <1>2, <1>4, <1>6, <1>7
  <1> QED BY <1>8 DEF total, X

\* No other step pays anybody.
LEMMA OthersPayNobody ==
    ASSUME [Next]_vars,
           ~ \E proof \in proofs, r \in Recipients :
                DirectNext(proof, r) \/ \E fee \in RelayerFees : RelayedNext(proof, r, fee)
    PROVE  UNCHANGED <<kind, spend, paid>> /\ proofs \subseteq proofs'
  BY DEF Next, DepositNext, Deposit, DepositV2, DepositSpl, DepositFeeV2, DepositFeeSpl,
         DepositPaged, Prove, ProveOtherwise, UpdateTreasury, vars

\* Every step of a pool preserves PaidAsProved.
LEMMA NextPaid == Inv /\ PaidAsProved /\ [Next]_vars => PaidAsProved'
  BY PaidStep, OthersPayNobody, MoreProofs

\* Every withdrawal of a fee-capable pool, relayed or not, pays the protocol fee to
\* the treasury the pool has when it executes, and to no other; no other step and no
\* other pool pays a treasury.
THEOREM EveryFeeCollected == Spec => FeesToTreasury
  <1> DEFINE Due == IF kind \in FeeKinds /\ nullifierCount' # nullifierCount THEN ProtocolFee ELSE 0
             Fee == \A t \in Treasuries : paid'[t] = paid[t] + (IF t = treasury THEN Due ELSE 0)
  <1>1. ASSUME Inv, [Next]_vars PROVE Fee
    <2>1. CASE \E proof \in proofs, r \in Recipients :
                  DirectNext(proof, r) \/ \E fee \in RelayerFees : RelayedNext(proof, r, fee)
      BY <1>1, <2>1, FeeStep DEF ProtocolShare
    <2>2. CASE ~ \E proof \in proofs, r \in Recipients :
                    DirectNext(proof, r) \/ \E fee \in RelayerFees : RelayedNext(proof, r, fee)
      <3>1. paid' = paid /\ nullifierCount' = nullifierCount
        BY <1>1, <2>2, OthersPayNobody DEF spend
      <3>2. \A t \in Treasuries : paid[t] \in Nat
        BY <1>1 DEF Inv, TypeOK, Accounts
      <3> QED BY <3>1, <3>2
    <2> QED BY <2>1, <2>2
  <1>2. Inv /\ [Next]_vars => [Fee]_vars
    BY <1>1
  <1> QED BY <1>2, InvAlways, PTL DEF Spec, FeesToTreasury

\* Whoever submits proofs, and however they were made, the recipients they name get
\* at most one deposit for each nullifier they spend.
THEOREM NobodyOverpaid == Spec => []PaidAsProved
  BY InitPaid, InitInv, NextPaid, NextInv, PTL DEF Spec
=============================================================================
