------------------------- MODULE NoteJournalProofs -------------------------
(***************************************************************************)
(* What holds of the journals of NoteJournal for every set of scripts, any *)
(* size of a burst, any number of retries and any bounds.                  *)
(*                                                                         *)
(* The properties are about a journal and the chain at any point of a      *)
(* script, so an invariant has to say what is so at each of its steps.  A  *)
(* program is a sequence of up to a hundred steps, and longer with the     *)
(* size of a burst; what it has done so far is one of a few stages.  The   *)
(* first part shows that every program is a walk from stage to stage, the  *)
(* parts it is put together from being walks; Holds says what is so at a   *)
(* stage, and StageOK, with the parts of Inv about single variables, is    *)
(* kept by every step.                                                     *)
(***************************************************************************)
EXTENDS NoteJournal, FiniteSetTheorems, SequenceTheorems, WellFoundedInduction, TLAPS

-----------------------------------------------------------------------------
(* Least and greatest elements, and the naturals up to a bound.            *)

\* A set of naturals that is not empty has a least element, and Min is it.
LEMMA Least ==
    ASSUME NEW T, T \subseteq Nat, T # {}
    PROVE  Min(T) \in T /\ \A y \in T : Min(T) <= y
  <1> DEFINE Below == {0..x : x \in T}
  <1>1. \A x \in Nat : 0..x \in FiniteSubsetsOf(Nat)
    BY FS_Interval DEF FiniteSubsetsOf
  <1>2. Below \subseteq FiniteSubsetsOf(Nat) /\ Below # {}
    BY <1>1
  <1>3. PICK A \in Below : \A B \in Below : ~ (<<B, A>> \in StrictSubsetOrdering(Nat))
    <2> HIDE DEF Below
    <2> QED BY <1>2, FS_StrictSubsetOrderingWellFounded, WFMin
  <1>4. PICK x \in T : A = 0..x
    OBVIOUS
  <1>5. ASSUME NEW y \in T, y < x PROVE FALSE
    <2>1. 0..y \in Below /\ 0..y \subseteq Nat /\ A \subseteq Nat
      BY <1>4
    <2>2. 0..y \subseteq A /\ 0..y # A
      <3>1. x \in A /\ x \notin 0..y
        BY <1>4, <1>5
      <3> QED BY <3>1, <1>4, <1>5
    <2> QED BY <1>3, <2>1, <2>2 DEF StrictSubsetOrdering
  <1>6. \E z \in T : \A y \in T : z <= y
    BY <1>5
  <1> QED BY <1>6 DEF Min

\* A set of naturals with a bound has a greatest element, and Max is it.
LEMMA Greatest ==
    ASSUME NEW T, NEW k \in Nat, T \subseteq 0..k, T # {}
    PROVE  Max(T) \in T /\ \A y \in T : Max(T) >= y
  <1> DEFINE U == {j \in 0..k : \A y \in T : y <= j}
  <1>1. U \subseteq Nat /\ U # {}
    OBVIOUS
  <1>2. PICK j \in U : \A y \in U : j <= y
    <2> HIDE DEF U
    <2> QED BY <1>1, Least
  <1>3. j \in T
    <2> SUFFICES ASSUME j \notin T PROVE FALSE
      OBVIOUS
    <2>1. \A y \in T : y <= j - 1
      BY <1>2
    <2>2. PICK y \in T : y <= j - 1
      BY <2>1
    <2>3. j - 1 \in 0..k
      BY <1>2, <2>2
    <2>4. j - 1 \in U
      BY <2>1, <2>3
    <2> QED BY <2>4, <1>2
  <1>4. \E x \in T : \A y \in T : x >= y
    BY <1>2, <1>3
  <1> QED BY <1>4 DEF Max

\* What holds of 0, and of l + 1 when it holds of l, holds up to n.
LEMMA Upwards ==
    ASSUME NEW n \in Nat, NEW S, 0 \in S, \A l \in 0..(n-1) : l \in S => l + 1 \in S
    PROVE  \A l \in 0..n : l \in S
  <1> SUFFICES ASSUME ~ \A l \in 0..n : l \in S PROVE FALSE
    OBVIOUS
  <1> DEFINE T == {l \in 0..n : l \notin S}
  <1>1. PICK x \in T : \A y \in T : x <= y
    <2>1. T \subseteq Nat /\ T # {}
      OBVIOUS
    <2> HIDE DEF T
    <2> QED BY <2>1, Least
  <1>2. x - 1 \in 0..(n-1) /\ x - 1 \in S
    BY <1>1
  <1> QED BY <1>1, <1>2

-----------------------------------------------------------------------------
(* Programs.                                                               *)

\* A collection of programs that are closed under sequencing holds the repetitions.
LEMMA TimesIn ==
    ASSUME NEW C, NEW p, p \in C, <<>> \in C, NEW k \in Nat,
           \A q \in C : q \o p \in C
    PROVE  Times(k, p) \in C
  <1> DEFINE ps == [i \in 1..k |-> p]
             Upto(n, f) == f = [i \in 1..n |-> IF i = 1 THEN ps[i] ELSE f[i-1] \o ps[i]]
             S == {n \in 0..k : \E f : Upto(n, f)}
             flatten[i \in 1..Len(ps)] == IF i = 1 THEN ps[i] ELSE flatten[i-1] \o ps[i]
  <1>1. Len(ps) = k
    OBVIOUS
  <1>2. CASE k = 0
    <2>1. ps = <<>>
      BY <1>2
    <2> HIDE DEF ps
    <2> QED BY <1>1, <1>2, <2>1 DEF Times, FlattenSeq, ps
  <1>3. CASE k # 0
    <2>1. 0 \in S
      <3>1. Upto(0, [i \in 1..0 |-> p])
        OBVIOUS
      <3> HIDE DEF Upto
      <3> QED BY <3>1
    <2>2. ASSUME NEW n \in 0..(k - 1), n \in S PROVE n + 1 \in S
      <3>1. PICK f : Upto(n, f)
        BY <2>2
      <3> DEFINE g == [i \in 1..(n+1) |-> IF i = n + 1 THEN (IF i = 1 THEN p ELSE f[n] \o p) ELSE f[i]]
      <3>2. \A i \in 1..(n+1) : g[i] = IF i = 1 THEN ps[i] ELSE g[i-1] \o ps[i]
        <4>1. \A i \in 1..n : f[i] = IF i = 1 THEN ps[i] ELSE f[i-1] \o ps[i]
          <5> HIDE DEF ps
          <5> QED BY <3>1
        <4>2. ASSUME NEW i \in 1..n PROVE g[i] = f[i] /\ (i # 1 => g[i-1] = f[i-1])
          OBVIOUS
        <4>3. g[n+1] = IF n + 1 = 1 THEN p ELSE f[n] \o p
          OBVIOUS
        <4>4. n + 1 # 1 => g[n] = f[n]
          OBVIOUS
        <4>5. ps[n+1] = p /\ (n + 1) - 1 = n
          OBVIOUS
        <4>6. \A i \in 1..(n+1) : i \in 1..n \/ i = n + 1
          OBVIOUS
        <4> HIDE DEF g, ps
        <4> QED BY <4>1, <4>2, <4>3, <4>4, <4>5, <4>6
      <3>3. g = [i \in 1..(n+1) |-> g[i]]
        OBVIOUS
      <3>4. Upto(n+1, g)
        <4> HIDE DEF g, ps
        <4> QED BY <3>2, <3>3
      <3> HIDE DEF Upto, g
      <3> QED BY <3>4
    <2>3. k \in S
      <3> HIDE DEF S
      <3>1. \A n \in 0..k : n \in S
        BY <2>1, <2>2, Upwards
      <3> QED BY <3>1
    <2>4. PICK f : Upto(k, f)
      BY <2>3
    <2>5. flatten = [i \in 1..k |-> IF i = 1 THEN ps[i] ELSE flatten[i-1] \o ps[i]]
      BY <1>1, <2>4 DEF flatten
    <2>6. Times(k, p) = flatten[k]
      BY <1>1, <1>3 DEF Times, FlattenSeq
    <2>7. \A i \in 1..k : ps[i] = p
      OBVIOUS
    <2> HIDE DEF flatten, ps
    <2> DEFINE T == {n \in 0..k : n # 0 => flatten[n] \in C}
    <2>8. 0 \in T
      OBVIOUS
    <2>9. ASSUME NEW n \in 0..(k - 1), n \in T PROVE n + 1 \in T
      <3>1. flatten[n+1] = IF n + 1 = 1 THEN ps[n+1] ELSE flatten[(n+1)-1] \o ps[n+1]
        <4>1. n + 1 \in 1..k
          OBVIOUS
        <4> QED BY <2>5, <4>1, Zenon
      <3>2. (n + 1) - 1 = n /\ ps[n+1] = p /\ n + 1 \in 0..k
        BY <2>7
      <3>3. CASE n = 0
        BY <3>1, <3>2, <3>3
      <3>4. CASE n # 0
        BY <3>1, <3>2, <3>4, <2>9
      <3> QED BY <3>3, <3>4
    <2> HIDE DEF T
    <2>10. \A n \in 0..k : n \in T
      BY <2>8, <2>9, Upwards
    <2> QED BY <2>10, <1>3, <2>6 DEF T
  <1> QED BY <1>2, <1>3

Steps ==
    {"open", "load", "reuse", "persist", "check", "next", "try", "catch", "halt", "ensure",
     "deposit", "depositRetry", "await", "plan", "record", "deposited", "create", "send", "settle",
     "withdraw", "withdrawRetry", "withdrawAll", "again", "mark", "unresolved", "rescue",
     "relay", "relayRetry", "process", "post"}

Stages ==
    {"begin", "ready", "clean", "made", "noted", "asked", "marked", "caught", "ensured",
     "settled", "kept", "unpaid", "rescuing", "created", "saved", "sent"}

Asking == {"relay", "relayRetry", "withdraw", "withdrawRetry", "process"}

\* A program goes through stages: what a script has done with its notes when it
\* comes to a step.  Edge(a, op, b): the step op leads from stage a to stage b.
Edge(a, op, b) ==
    \/ a = "begin" /\ op \in {"open", "load"} /\ b \in {"ready", "clean"}
    \/ a = "ready" /\ op = "reuse" /\ b = "clean"
    \/ a = "clean" /\ op \in {"deposit", "depositRetry"} /\ b = "made"
    \/ a = "made" /\ op = "await" /\ b = "made"
    \/ a = "made" /\ op \in {"plan", "record"} /\ b = "noted"
    \/ a = "noted" /\ op = "persist" /\ b = "clean"
    \/ a = "clean" /\ op \in {"await", "check", "deposited", "persist", "try"} /\ b = "clean"
    \/ a = "clean" /\ op \in Asking /\ b = "asked"
    \/ a = "asked" /\ op = "mark" /\ b = "marked"
    \/ a = "marked" /\ op \in {"persist", "halt", "post"} /\ b = "marked"
    \/ a \in {"clean", "marked", "caught"} /\ op = "next" /\ b = "clean"
    \/ a \in {"clean", "marked"} /\ op = "catch" /\ b = "caught"
    \/ a = "caught" /\ op \in {"persist", "again"} /\ b = "caught"
    \/ a = "asked" /\ op = "ensure" /\ b = "ensured"
    \/ a = "ensured" /\ op = "mark" /\ b = "settled"
    \/ a = "settled" /\ op = "persist" /\ b = "kept"
    \/ a = "kept" /\ op = "check" /\ b = "kept"
    \/ a = "kept" /\ op = "again" /\ b = "unpaid"
    \/ a = "unpaid" /\ op = "unresolved" /\ b = "rescuing"
    \/ a = "rescuing" /\ op = "rescue" /\ b = "rescuing"
    \/ a = "clean" /\ op = "create" /\ b = "created"
    \/ a = "created" /\ op = "persist" /\ b = "saved"
    \/ a = "saved" /\ op = "check" /\ b = "saved"
    \/ a = "saved" /\ op = "send" /\ b = "sent"
    \/ a = "sent" /\ op \in {"settle", "persist", "check"} /\ b = "sent"
    \/ a = "sent" /\ op = "withdrawAll" /\ b = "asked"

\* f gives the stage before each step of p, and the one after the last.  A
\* reuse comes before the steps it passes over.
Path(p, f) ==
    /\ p \in Seq(Steps) /\ f \in Seq(Stages) /\ Len(f) = Len(p) + 1
    /\ \A i \in 1..Len(p) : Edge(f[i], p[i], f[i+1])
    /\ \A i \in 1..Len(p) : p[i] = "reuse" =>
          i + Len(Once) <= Len(p) /\ f[i + Len(Once) + 1] = "clean"

\* Every try is followed by a catch of its own.
Balanced(p) ==
    \A i \in 1..Len(p) : p[i] = "try" =>
        \E j \in (i+1)..Len(p) : p[j] = "catch" /\ \A k \in (i+1)..(j-1) : p[k] \notin {"try", "catch"}

Walks(p, a, b) == \E f : Path(p, f) /\ f[1] = a /\ f[Len(p) + 1] = b
Leads(p, a, b) == Balanced(p) /\ Walks(p, a, b)

\* Two programs whose try blocks are closed make one.
LEMMA BalancedThen ==
    ASSUME NEW p \in Seq(Steps), NEW q \in Seq(Steps), Balanced(p), Balanced(q)
    PROVE  Balanced(p \o q)
  <1>1. PICK m \in Nat : m = Len(p)
    OBVIOUS
  <1>2. PICK n \in Nat : n = Len(q)
    OBVIOUS
  <1> DEFINE pq == p \o q
  <1>3. /\ Len(pq) = m + n
        /\ \A i \in 1..m : pq[i] = p[i]
        /\ \A i \in (m+1)..(m+n) : pq[i] = q[i-m]
    BY <1>1, <1>2
  <1> HIDE DEF pq
  <1>4. ASSUME NEW i \in 1..(m+n), pq[i] = "try"
        PROVE  \E j \in (i+1)..(m+n) :
                  pq[j] = "catch" /\ \A k \in (i+1)..(j-1) : pq[k] \notin {"try", "catch"}
    <2>1. CASE i \in 1..m
      <3>1. PICK j \in (i+1)..m : p[j] = "catch" /\ \A k \in (i+1)..(j-1) : p[k] \notin {"try", "catch"}
        <4>1. p[i] = "try"
          BY <1>3, <1>4, <2>1
        <4>2. \A x \in 1..m : p[x] = "try" =>
                 \E j \in (x+1)..m : p[j] = "catch" /\ \A k \in (x+1)..(j-1) : p[k] \notin {"try", "catch"}
          BY <1>1 DEF Balanced
        <4> QED BY <2>1, <4>1, <4>2
      <3>2. \A k \in (i+1)..j : pq[k] = p[k]
        BY <1>3, <2>1
      <3> QED BY <2>1, <3>1, <3>2
    <2>2. CASE i \in (m+1)..(m+n)
      <3>1. i - m \in 1..n /\ q[i-m] = "try"
        BY <1>3, <1>4, <2>2
      <3>2. PICK j \in ((i-m)+1)..n :
               q[j] = "catch" /\ \A k \in ((i-m)+1)..(j-1) : q[k] \notin {"try", "catch"}
        BY <1>2, <3>1 DEF Balanced
      <3>3. j + m \in (i+1)..(m+n) /\ pq[j+m] = "catch"
        BY <1>3, <2>2, <3>2
      <3>4. ASSUME NEW k \in (i+1)..((j+m)-1) PROVE pq[k] \notin {"try", "catch"}
        <4>1. k - m \in ((i-m)+1)..(j-1) /\ pq[k] = q[k-m]
          BY <1>3, <2>2, <3>2
        <4> QED BY <4>1, <3>2
      <3> QED BY <3>3, <3>4
    <2> QED BY <2>1, <2>2
  <1> QED BY <1>3, <1>4 DEF Balanced, pq

\* A part of a program is followed by one that begins where it ends.
LEMMA WalksThen ==
    ASSUME NEW p, NEW q, NEW a, NEW b, NEW c, Walks(p, a, b), Walks(q, b, c)
    PROVE  Walks(p \o q, a, c)
  <1>1. PICK f : Path(p, f) /\ f[1] = a /\ f[Len(p) + 1] = b
    BY DEF Walks
  <1>2. PICK g : Path(q, g) /\ g[1] = b /\ g[Len(q) + 1] = c
    BY DEF Walks
  <1>3. p \in Seq(Steps) /\ q \in Seq(Steps)
    BY <1>1, <1>2 DEF Path
  <1>4. PICK m \in Nat : m = Len(p)
    BY <1>3
  <1>5. PICK n \in Nat : n = Len(q)
    BY <1>3
  <1>6. /\ p \o q \in Seq(Steps) /\ Len(p \o q) = m + n
        /\ \A i \in 1..m : (p \o q)[i] = p[i]
        /\ \A i \in (m+1)..(m+n) : (p \o q)[i] = q[i-m]
    BY <1>3, <1>4, <1>5
  <1> DEFINE pq == p \o q
             h  == [i \in 1..(m + n + 1) |-> IF i <= m THEN f[i] ELSE g[i-m]]
  <1>7. /\ \A i \in 1..(m+1) : h[i] = f[i]
        /\ \A i \in (m+1)..(m+n+1) : h[i] = g[i-m]
    BY <1>1, <1>2, <1>4, <1>5
  <1>8. h \in Seq(Stages) /\ Len(h) = m + n + 1
    <2>1. \A i \in 1..(m+n+1) : h[i] \in Stages
      BY <1>1, <1>2, <1>4, <1>5, <1>7 DEF Path
    <2>2. h \in [1..(m+n+1) -> Stages]
      BY <2>1
    <2> QED BY <2>2
  <1> HIDE DEF h, pq
  <1>9. PICK once \in Nat : once = Len(Once)
    BY DEF Once
  <1>10. ASSUME NEW i \in 1..(m+n)
         PROVE  /\ Edge(h[i], pq[i], h[i+1])
                /\ pq[i] = "reuse" => i + once <= m + n /\ h[i + once + 1] = "clean"
    <2>1. CASE i \in 1..m
      <3>1. pq[i] = p[i] /\ h[i] = f[i] /\ h[i+1] = f[i+1]
        <4>1. pq[i] = p[i]
          BY <1>6, <2>1 DEF pq
        <4>2. i \in 1..(m+1) /\ i + 1 \in 1..(m+1)
          BY <2>1
        <4>3. h[i] = f[i] /\ h[i+1] = f[i+1]
          BY <1>7, <4>2
        <4> QED BY <4>1, <4>3
      <3>2. p[i] = "reuse" => i + once <= m /\ f[i + once + 1] = "clean"
        BY <1>1, <1>4, <1>9, <2>1 DEF Path
      <3>3. i + once <= m => h[i + once + 1] = f[i + once + 1]
        BY <1>7, <2>1
      <3> QED BY <1>1, <1>4, <2>1, <3>1, <3>2, <3>3 DEF Path
    <2>2. CASE i \in (m+1)..(m+n)
      <3>1. i - m \in 1..n /\ (i - m) + 1 = (i + 1) - m
        BY <2>2
      <3>2. pq[i] = q[i-m] /\ h[i] = g[i-m] /\ h[i+1] = g[(i-m)+1]
        <4>1. i + 1 \in (m+1)..(m+n+1) /\ i \in (m+1)..(m+n+1)
          BY <2>2
        <4>2. h[i+1] = g[(i+1)-m]
          BY <1>7, <4>1
        <4> QED BY <1>6, <1>7, <2>2, <3>1, <4>1, <4>2 DEF pq
      <3>3. q[i-m] = "reuse" => (i - m) + once <= n /\ g[(i - m) + once + 1] = "clean"
        BY <1>2, <1>5, <1>9, <3>1 DEF Path
      <3>4. (i - m) + once <= n => h[i + once + 1] = g[(i - m) + once + 1]
        BY <1>7, <2>2
      <3> QED BY <1>2, <1>5, <3>1, <3>2, <3>3, <3>4 DEF Path
    <2> QED BY <2>1, <2>2
  <1>11. Path(pq, h)
    BY <1>6, <1>8, <1>9, <1>10 DEF Path, pq
  <1>12. h[1] = a /\ h[m + n + 1] = c
    BY <1>1, <1>2, <1>4, <1>5, <1>7
  <1>13. Len(pq) = m + n
    BY <1>6 DEF pq
  <1> QED BY <1>11, <1>12, <1>13 DEF Walks, pq

\* The same, where the try blocks of both are closed.
LEMMA LeadsThen ==
    ASSUME NEW p, NEW q, NEW a, NEW b, NEW c, Leads(p, a, b), Leads(q, b, c)
    PROVE  Leads(p \o q, a, c)
  <1>1. p \in Seq(Steps) /\ q \in Seq(Steps)
    BY DEF Leads, Walks, Path
  <1> QED BY <1>1, WalksThen, BalancedThen DEF Leads

\* The empty program stays where it is.
LEMMA LeadsNowhere ==
    ASSUME NEW a \in Stages
    PROVE  Leads(<<>>, a, a)
  <1>1. <<>> \in Seq(Steps) /\ Len(<<>>) = 0 /\ <<a>> \in Seq(Stages) /\ Len(<<a>>) = 1
    BY EmptySeq
  <1>2. Path(<<>>, <<a>>)
    BY <1>1 DEF Path
  <1> QED BY <1>1, <1>2 DEF Leads, Walks, Balanced

\* A part of a program that ends where it begins can be repeated.
LEMMA LeadsRound ==
    ASSUME NEW p, NEW a \in Stages, Leads(p, a, a), NEW k \in Nat
    PROVE  Leads(Times(k, p), a, a)
  <1> DEFINE C == {q \in Seq(Steps) : Leads(q, a, a)}
  <1>1. \A q : Leads(q, a, a) => q \in Seq(Steps)
    BY DEF Leads, Walks, Path
  <1>2. p \in C /\ <<>> \in C
    BY <1>1, LeadsNowhere
  <1>3. \A q \in C : q \o p \in C
    BY <1>1, LeadsThen
  <1> HIDE DEF C
  <1>4. Times(k, p) \in C
    BY <1>2, <1>3, TimesIn
  <1> QED BY <1>4 DEF C

\* One step; a try block is made of several.
LEMMA WalksStep ==
    ASSUME NEW a \in Stages, NEW op \in Steps \ {"reuse"}, NEW b \in Stages, Edge(a, op, b)
    PROVE  Walks(<<op>>, a, b)
  <1>1. Path(<<op>>, <<a, b>>)
    BY DEF Path
  <1> QED BY <1>1 DEF Walks

\* A step that opens no block is a program of its own.
LEMMA LeadsStep ==
    ASSUME NEW a \in Stages, NEW op \in Steps \ {"reuse", "try"}, NEW b \in Stages, Edge(a, op, b)
    PROVE  Leads(<<op>>, a, b)
  <1>1. Walks(<<op>>, a, b)
    BY WalksStep
  <1> QED BY <1>1 DEF Leads, Balanced

\* A part without a try block, between try and catch.
LEMMA BalancedBlock ==
    ASSUME NEW q \in Seq(Steps \ {"try", "catch"})
    PROVE  Balanced(<<"try">> \o q \o <<"catch">>)
  <1>1. PICK n \in Nat : n = Len(q)
    OBVIOUS
  <1> DEFINE p == <<"try">> \o q \o <<"catch">>
  <1>2. Len(p) = n + 2 /\ p[n+2] = "catch"
    BY <1>1
  <1>3. \A i \in 2..(n+1) : p[i] = q[i-1] /\ p[i] \notin {"try", "catch"}
    BY <1>1
  <1> HIDE DEF p
  <1>4. \A i \in 1..(n+2) : i = 1 \/ i \in 2..(n+1) \/ i = n + 2
    OBVIOUS
  <1> QED BY <1>2, <1>3, <1>4 DEF Balanced, p

\* A sequence of parts is the same in whatever order they are put together.
LEMMA GroupRight == \A p, t, q, r \in Seq(Steps) : p \o t \o q \o r = p \o (t \o (q \o r))
  OBVIOUS

\* The same, for two of them in the middle.
LEMMA GroupMiddle == \A p, t, q, r \in Seq(Steps) : p \o t \o (q \o r) = p \o (t \o q) \o r
  OBVIOUS

\* A try block around two parts of a program that has one.
LEMMA LeadsGuarded ==
    ASSUME NEW p, NEW q \in Seq(Steps \ {"try", "catch"}), NEW r \in Seq(Steps \ {"try", "catch"}), NEW s,
           NEW a, NEW b \in Stages, NEW c \in Stages, NEW d \in Stages, NEW e \in Stages, NEW x \in Stages, NEW z,
           Leads(p, a, b), Edge(b, "try", c), Walks(q, c, d), Walks(r, d, e), Edge(e, "catch", x),
           Leads(s, x, z)
    PROVE  Leads(p \o <<"try">> \o q \o r \o (<<"catch">> \o s), a, z)
  <1> DEFINE t == <<"try">>
             h == <<"catch">>
  <1>1. /\ p \in Seq(Steps) /\ s \in Seq(Steps) /\ q \in Seq(Steps) /\ r \in Seq(Steps)
        /\ t \in Seq(Steps) /\ h \in Seq(Steps)
    BY DEF Leads, Walks, Path, Steps
  <1>2. Walks(t, b, c) /\ Walks(h, e, x)
    BY WalksStep DEF Steps
  <1>3. q \o r \in Seq(Steps \ {"try", "catch"})
    OBVIOUS
  <1>4. Balanced(t \o (q \o r) \o h)
    BY <1>3, BalancedBlock
  <1> HIDE DEF t, h
  <1>5. Walks(p \o t \o q \o r \o (h \o s), a, z)
    BY <1>2, WalksThen DEF Leads
  <1>6. Balanced(p \o (t \o (q \o r) \o h) \o s)
    <2>1. t \o (q \o r) \o h \in Seq(Steps)
      BY <1>1
    <2>2. p \o (t \o (q \o r) \o h) \in Seq(Steps)
      BY <1>1, <2>1
    <2>3. Balanced(p \o (t \o (q \o r) \o h))
      BY <1>1, <1>4, <2>1, BalancedThen DEF Leads
    <2> QED BY <1>1, <2>2, <2>3, BalancedThen DEF Leads
  <1>7. p \o t \o q \o r \o (h \o s) = p \o (t \o (q \o r) \o h) \o s
    <2> DEFINE u == t \o (q \o r)
    <2>1. p \o t \o q \o r = p \o u
      <3>1. \A v1, v2, v3 \in Seq(Steps) : p \o v1 \o v2 \o v3 = p \o (v1 \o (v2 \o v3))
        BY <1>1, GroupRight, Zenon
      <3>2. \A v2, v3 \in Seq(Steps) : p \o t \o v2 \o v3 = p \o (t \o (v2 \o v3))
        BY <1>1, <3>1, Zenon
      <3>3. \A v3 \in Seq(Steps) : p \o t \o q \o v3 = p \o (t \o (q \o v3))
        BY <1>1, <3>2, Zenon
      <3> QED BY <1>1, <3>3, Zenon
    <2>2. u \in Seq(Steps)
      BY <1>1
    <2> HIDE DEF u
    <2>3. p \o u \o (h \o s) = p \o (u \o h) \o s
      <3>1. \A v1, v2, v3 \in Seq(Steps) : p \o v1 \o (v2 \o v3) = p \o (v1 \o v2) \o v3
        BY <1>1, GroupMiddle, Zenon
      <3>2. \A v2, v3 \in Seq(Steps) : p \o u \o (v2 \o v3) = p \o (u \o v2) \o v3
        BY <2>2, <3>1, Zenon
      <3>3. \A v3 \in Seq(Steps) : p \o u \o (h \o v3) = p \o (u \o h) \o v3
        BY <1>1, <3>2, Zenon
      <3> QED BY <1>1, <3>3, Zenon
    <2> QED BY <2>1, <2>3, Zenon DEF u
  <1> QED BY <1>5, <1>6, <1>7 DEF Leads, t, h

-----------------------------------------------------------------------------
(* The stages of the scripts.                                              *)

Loose      == {"relayerCanary", "soak"}
LooseSteps == {"try", "catch", "next", "deposit", "await", "relay", "ensure", "check"}
Bursts     == {"relayer", "phase13bRelayer"}
BurstSteps == Steps \ {"settle", "send", "withdraw", "withdrawRetry", "withdrawAll", "again", "rescue", "ensure"}

\* The parts that make a deposit and put it on file, and those that withdraw.
LEMMA Parts ==
    /\ Leads(Observed, "clean", "clean")
    /\ Leads(Journaled, "clean", "clean")
    /\ Leads(Once, "clean", "clean")
    /\ Leads(<<"reuse">> \o Once, "ready", "clean")
    /\ Leads(Withdrawal, "clean", "marked")
  <1>1. Path(Observed, <<"clean", "made", "made", "noted", "clean">>)
    BY DEF Path, Edge, Steps, Stages, Once, Observed
  <1>2. Path(Journaled, <<"clean", "made", "noted", "clean", "clean", "clean", "clean">>)
    BY DEF Path, Edge, Steps, Stages, Once, Journaled
  <1>3. Path(Once, <<"clean", "made", "noted", "clean", "clean", "clean", "clean">>)
    BY DEF Path, Edge, Steps, Stages, Once
  <1>4. <<"reuse", "deposit", "plan", "persist", "await", "deposited", "persist">> = <<"reuse">> \o Once
    BY DEF Once
  <1>5. Path(<<"reuse">> \o Once, <<"ready", "clean", "made", "noted", "clean", "clean", "clean", "clean">>)
    BY <1>4 DEF Path, Edge, Steps, Stages, Once
  <1>6. Path(Withdrawal, <<"clean", "asked", "marked", "marked">>)
    BY DEF Path, Edge, Steps, Stages, Asking, Once, Withdrawal
  <1>7. /\ Balanced(Observed) /\ Len(Observed) = 4
        /\ Balanced(Journaled) /\ Len(Journaled) = 6
        /\ Balanced(Once) /\ Len(Once) = 6
        /\ Balanced(Withdrawal) /\ Len(Withdrawal) = 3
    BY DEF Balanced, Observed, Journaled, Once, Withdrawal
  <1>8. Balanced(<<"reuse">> \o Once) /\ Len(<<"reuse">> \o Once) = 7
    BY <1>4 DEF Balanced
  <1> QED BY <1>1, <1>2, <1>3, <1>5, <1>6, <1>7, <1>8 DEF Leads, Walks

\* A program of a script that keeps a journal, from its first step on.
Staged(p) == \E a \in {"begin", "clean"}, b \in Stages : Leads(p, a, b)

\* The validation of the two pools, with its two guarded parts.
LEMMA PoolStaged == Staged(PoolValidation)
  <1>1. Leads(<<"next">>, "marked", "clean") /\ Leads(<<"next">>, "caught", "clean")
    BY LeadsStep DEF Edge, Steps, Stages
  <1>2. Leads(PoolBaseline, "clean", "clean") /\ Leads(PoolCheckpoint, "clean", "clean")
    BY <1>1, Parts, LeadsThen DEF PoolBaseline, PoolCheckpoint
  <1>3. Leads(PoolGrowth, "clean", "clean")
    <2>1. Path(PoolGrowth, <<"clean", "made", "noted", "clean", "clean">>)
      BY DEF Path, Edge, Steps, Stages, Once, PoolGrowth
    <2> QED BY <2>1 DEF Leads, Walks, Balanced, PoolGrowth
  <1>4. /\ PoolGrowth \in Seq(Steps \ {"try", "catch"})
        /\ PoolCheckpoint \in Seq(Steps \ {"try", "catch"})
    BY DEF PoolGrowth, PoolCheckpoint, Observed, Withdrawal, Steps
  <1>5. Leads(SolValidation, "clean", "clean") /\ Leads(SplValidation, "clean", "clean")
    <2>1. Edge("clean", "try", "clean") /\ Edge("clean", "catch", "caught")
      BY DEF Edge
    <2>2. "clean" \in Stages /\ "caught" \in Stages
      BY DEF Stages
    <2>3. <<"catch", "next">> = <<"catch">> \o <<"next">>
      OBVIOUS
    <2>4. Leads(PoolBaseline \o <<"try">> \o PoolGrowth \o PoolCheckpoint \o (<<"catch">> \o <<"next">>),
                "clean", "clean")
      BY <1>1, <1>2, <1>3, <1>4, <2>1, <2>2, LeadsGuarded DEF Leads
    <2> QED BY <2>3, <2>4 DEF SolValidation, SplValidation
  <1>6. Leads(<<"open">>, "begin", "clean") /\ Leads(<<"persist">>, "clean", "clean")
    BY LeadsStep DEF Edge, Steps, Stages
  <1>7. Leads(PoolValidation, "begin", "clean")
    BY <1>5, <1>6, LeadsThen DEF PoolValidation
  <1> QED BY <1>7 DEF Staged, Stages

\* The relayer validation; it is one of the two that burst.
LEMMA RelayerStaged ==
    ASSUME NEW sel
    PROVE  Staged(RelayerValidation(sel)) /\ RelayerValidation(sel) \in Seq(BurstSteps)
  <1> DEFINE verdict == <<"relayRetry", "mark", "persist", "halt", "next">>
             raw     == <<"relayRetry", "mark", "persist", "next">>
             restart == <<"process", "mark", "persist", "next">>
  <1>1. Leads(verdict, "clean", "clean")
    <2>1. Path(verdict, <<"clean", "asked", "marked", "marked", "marked", "clean">>)
      BY DEF Path, Edge, Steps, Stages, Asking, Once
    <2> QED BY <2>1 DEF Leads, Walks, Balanced
  <1>2. Leads(raw, "clean", "clean") /\ Leads(restart, "clean", "clean")
    <2>1. Path(restart, <<"clean", "asked", "marked", "marked", "clean">>)
      BY DEF Path, Edge, Steps, Stages, Asking, Once
    <2>2. Path(raw, <<"clean", "asked", "marked", "marked", "clean">>)
      BY DEF Path, Edge, Steps, Stages, Asking, Once
    <2> QED BY <2>1, <2>2 DEF Leads, Walks, Balanced
  <1>3. \A k \in Nat : Leads(Times(k, Observed), "clean", "clean")
    BY Parts, LeadsRound DEF Stages
  <1>4. \A k \in Nat : Times(k, Observed) \in Seq(BurstSteps)
    <2>1. Observed \in Seq(BurstSteps) /\ <<>> \in Seq(BurstSteps)
      BY EmptySeq DEF Observed, BurstSteps, Steps
    <2>2. \A q \in Seq(BurstSteps) : q \o Observed \in Seq(BurstSteps)
      BY <2>1
    <2> QED BY <2>1, <2>2, TimesIn
  <1>5. /\ verdict \in Seq(BurstSteps) /\ raw \in Seq(BurstSteps) /\ restart \in Seq(BurstSteps)
        /\ <<"open", "check">> \in Seq(BurstSteps)
    BY DEF BurstSteps, Steps
  <1> HIDE DEF verdict, raw, restart
  <1>6. \A k \in Nat : /\ Leads(RelayScenario(k), "clean", "clean")
                       /\ RelayScenario(k) \in Seq(BurstSteps)
    <2> TAKE k \in Nat
    <2>1. RelayScenario(k) = Times(k, Observed) \o verdict
      BY DEF RelayScenario, verdict
    <2> QED BY <2>1, <1>1, <1>3, <1>4, <1>5, LeadsThen
  <1>7. Leads(RestartScenario, "clean", "clean") /\ RestartScenario \in Seq(BurstSteps)
    <2>1. RestartScenario = Observed \o restart
      BY DEF RestartScenario, restart
    <2>2. Observed \in Seq(BurstSteps)
      BY DEF Observed, BurstSteps, Steps
    <2> QED BY <2>1, <2>2, <1>2, <1>5, Parts, LeadsThen
  <1>8. Leads(<<"open", "check">>, "begin", "clean")
    <2>1. Path(<<"open", "check">>, <<"begin", "clean", "clean">>)
      BY DEF Path, Edge, Steps, Stages, Once
    <2> QED BY <2>1 DEF Leads, Walks, Balanced
  <1>9. 1 \in Nat /\ Burst \in Nat
    BY NoteJournalAssumption
  <1>10. Leads(RawThroughput, "clean", "clean") /\ RawThroughput \in Seq(BurstSteps)
    <2>1. RawThroughput = Times(Burst, Observed) \o raw
      BY DEF RawThroughput, raw
    <2> QED BY <2>1, <1>2, <1>3, <1>4, <1>5, <1>9, LeadsThen
  <1>11. ASSUME NEW s, NEW p, Leads(p, "clean", "clean"), p \in Seq(BurstSteps)
         PROVE  /\ Leads(Selected(sel, s, p), "clean", "clean")
                /\ Selected(sel, s, p) \in Seq(BurstSteps)
    <2>1. Leads(<<>>, "clean", "clean") /\ <<>> \in Seq(BurstSteps)
      BY LeadsNowhere, EmptySeq DEF Stages
    <2> QED BY <1>11, <2>1 DEF Selected
  <1> DEFINE a1 == Selected(sel, "baseline", RelayScenario(1))
             a2 == Selected(sel, "burst", RelayScenario(Burst))
             a3 == Selected(sel, "raw", RawThroughput)
             a4 == Selected(sel, "restart", RestartScenario)
  <1>12. /\ Leads(a1, "clean", "clean") /\ a1 \in Seq(BurstSteps)
         /\ Leads(a2, "clean", "clean") /\ a2 \in Seq(BurstSteps)
         /\ Leads(a3, "clean", "clean") /\ a3 \in Seq(BurstSteps)
         /\ Leads(a4, "clean", "clean") /\ a4 \in Seq(BurstSteps)
    BY <1>6, <1>7, <1>9, <1>10, <1>11
  <1>13. RelayerValidation(sel) = <<"open", "check">> \o a1 \o a2 \o a3 \o a4
    BY DEF RelayerValidation
  <1> HIDE DEF a1, a2, a3, a4
  <1>14. Leads(RelayerValidation(sel), "begin", "clean")
    BY <1>8, <1>12, <1>13, LeadsThen
  <1>15. RelayerValidation(sel) \in Seq(BurstSteps)
    BY <1>5, <1>12, <1>13
  <1> QED BY <1>14, <1>15 DEF Staged, Stages

\* The two scripts of phase 13B, the second of which bursts.
LEMMA Phase13bStaged ==
    Staged(Phase13b) /\ Staged(Phase13bRelayer) /\ Phase13bRelayer \in Seq(BurstSteps)
  <1> DEFINE start  == <<"open">> \o SelectPool \o <<"check">>
             canary == <<"try", "withdrawRetry", "mark", "persist", "catch", "persist">>
             relay  == <<"relayRetry", "mark", "persist", "next">>
             again  == <<"relayRetry", "mark", "persist", "post", "next">>
             late   == <<"check", "next">>
             checks == <<"persist", "check">>
  <1>1. Leads(start, "begin", "clean")
    <2>1. <<"open", "check", "check">> = start
      BY DEF SelectPool
    <2>2. Path(<<"open", "check", "check">>, <<"begin", "clean", "clean", "clean">>)
      BY DEF Path, Edge, Steps, Stages, Once
    <2>3. Leads(<<"open", "check", "check">>, "begin", "clean")
      BY <2>2 DEF Leads, Walks, Balanced
    <2> QED BY <2>1, <2>3
  <1>2. Leads(canary, "clean", "caught")
    <2>1. Path(canary, <<"clean", "clean", "asked", "marked", "marked", "caught", "caught">>)
      BY DEF Path, Edge, Steps, Stages, Asking, Once
    <2>2. Balanced(canary)
      BY DEF Balanced
    <2> QED BY <2>1, <2>2 DEF Leads, Walks
  <1>3. Leads(relay, "clean", "clean") /\ Leads(checks, "clean", "clean")
    <2>1. Path(relay, <<"clean", "asked", "marked", "marked", "clean">>)
      BY DEF Path, Edge, Steps, Stages, Asking, Once
    <2>2. Path(checks, <<"clean", "clean", "clean">>)
      BY DEF Path, Edge, Steps, Stages, Once
    <2> QED BY <2>1, <2>2 DEF Leads, Walks, Balanced
  <1>16. Leads(again, "clean", "clean") /\ Leads(late, "clean", "clean")
    <2>1. Path(again, <<"clean", "asked", "marked", "marked", "marked", "clean">>)
      BY DEF Path, Edge, Steps, Stages, Asking, Once
    <2>2. Path(late, <<"clean", "clean", "clean">>)
      BY DEF Path, Edge, Steps, Stages, Once
    <2> QED BY <2>1, <2>2 DEF Leads, Walks, Balanced
  <1>17. again \in Seq(BurstSteps) /\ late \in Seq(BurstSteps)
    BY DEF BurstSteps, Steps
  <1>4. relay \in Seq(BurstSteps) /\ checks \in Seq(BurstSteps) /\ Journaled \in Seq(BurstSteps)
    BY DEF Journaled, BurstSteps, Steps
  <1> HIDE DEF start, canary, relay, again, late, checks
  <1>5. Leads(FundedCanary, "clean", "caught")
    <2>1. FundedCanary = Journaled \o canary
      BY DEF FundedCanary, CanaryDeposit, canary
    <2> QED BY <2>1, <1>2, Parts, LeadsThen
  <1>6. Leads(DuplicateWithdraw, "caught", "caught") /\ Leads(<<"persist">>, "caught", "caught")
    BY LeadsStep DEF Edge, Steps, Stages, DuplicateWithdraw
  <1>7. Leads(Phase13b, "begin", "caught")
    <2>1. Phase13b = start \o FundedCanary \o DuplicateWithdraw \o <<"persist">>
      BY DEF Phase13b, start
    <2> QED BY <2>1, <1>1, <1>5, <1>6, LeadsThen
  <1>8. Leads(<<"next">>, "clean", "clean") /\ Leads(<<"persist">>, "clean", "clean")
    BY LeadsStep DEF Edge, Steps, Stages
  <1>9. Leads(<<"load">>, "begin", "clean")
    BY LeadsStep DEF Edge, Steps, Stages
  <1>10. /\ <<"next">> \in Seq(BurstSteps)
         /\ <<"persist">> \in Seq(BurstSteps)
         /\ <<"load">> \in Seq(BurstSteps)
    BY DEF BurstSteps, Steps
  <1>11. Leads(BaselineFlow, "clean", "clean") /\ BaselineFlow \in Seq(BurstSteps)
    <2>1. BaselineFlow = Journaled \o again \o Journaled \o late
      BY DEF BaselineFlow, again, late
    <2>2. Leads(BaselineFlow, "clean", "clean")
      BY <2>1, <1>16, Parts, LeadsThen
    <2>3. BaselineFlow \in Seq(BurstSteps)
      BY <2>1, <1>4, <1>17
    <2> QED BY <2>2, <2>3
  <1>12. Leads(BurstScenario, "clean", "clean") /\ BurstScenario \in Seq(BurstSteps)
    <2>1. BurstScenario = Times(Burst, Journaled) \o relay
      BY DEF BurstScenario, relay
    <2>2. Leads(Times(Burst, Journaled), "clean", "clean")
      BY Parts, LeadsRound, NoteJournalAssumption DEF Stages
    <2>3. Times(Burst, Journaled) \in Seq(BurstSteps)
      <3>1. <<>> \in Seq(BurstSteps)
        BY EmptySeq
      <3>2. \A q \in Seq(BurstSteps) : q \o Journaled \in Seq(BurstSteps)
        BY <1>4
      <3> QED BY <3>1, <3>2, <1>4, TimesIn, NoteJournalAssumption
    <2> QED BY <2>1, <2>2, <2>3, <1>3, <1>4, LeadsThen
  <1>13. Phase13bRelayer = <<"load">> \o BaselineFlow \o checks \o BurstScenario \o <<"persist">>
    BY DEF Phase13bRelayer, checks
  <1>14. Leads(Phase13bRelayer, "begin", "clean")
    BY <1>3, <1>8, <1>9, <1>11, <1>12, <1>13, LeadsThen
  <1>15. Phase13bRelayer \in Seq(BurstSteps)
    BY <1>4, <1>10, <1>11, <1>12, <1>13
  <1> QED BY <1>7, <1>14, <1>15 DEF Staged, Stages

\* The two journals of phase 14A, the second one opened or loaded.
LEMMA Phase14aStaged ==
    /\ Staged(Phase14aDirect)
    /\ Staged(<<"open">> \o Phase14aRelayed) /\ Staged(<<"load">> \o Phase14aRelayed)
  <1> DEFINE ends   == <<"mark", "persist">>
             pays   == <<"persist", "relay", "ensure", "mark", "persist">>
             replay == <<"check", "again", "unresolved", "rescue">>
  <1>1. Leads(<<"open">>, "begin", "clean") /\ Leads(FeePool, "clean", "clean")
    BY LeadsStep DEF Edge, Steps, Stages, FeePool
  <1>2. Leads(DirectCanary, "clean", "asked")
    BY LeadsStep DEF Edge, Steps, Stages, Asking, DirectCanary
  <1>3. Leads(ends, "asked", "marked")
    <2>1. Path(ends, <<"asked", "marked", "marked">>)
      BY DEF Path, Edge, Steps, Stages, Once
    <2> QED BY <2>1 DEF Leads, Walks, Balanced
  <1>4. Leads(pays, "clean", "kept")
    <2>1. Path(pays, <<"clean", "clean", "asked", "ensured", "settled", "kept">>)
      BY DEF Path, Edge, Steps, Stages, Asking, Once
    <2> QED BY <2>1 DEF Leads, Walks, Balanced
  <1>5. Leads(replay, "kept", "rescuing")
    <2>1. Path(replay, <<"kept", "kept", "unpaid", "rescuing", "rescuing">>)
      BY DEF Path, Edge, Steps, Stages, Once
    <2> QED BY <2>1 DEF Leads, Walks, Balanced
  <1> HIDE DEF ends, pays, replay
  <1>6. Leads(Phase14aDirect, "begin", "marked")
    <2>1. Phase14aDirect = <<"open">> \o FeePool \o Once \o DirectCanary \o ends
      BY DEF Phase14aDirect, ends
    <2> QED BY <2>1, <1>1, <1>2, <1>3, Parts, LeadsThen
  <1>7. Leads(Phase14aRelayed, "ready", "rescuing")
    <2>1. Phase14aRelayed = <<"reuse">> \o Once \o pays \o replay
      BY DEF Phase14aRelayed, Replay, pays, replay
    <2> QED BY <2>1, <1>4, <1>5, Parts, LeadsThen
  <1>8. Leads(<<"open">>, "begin", "ready") /\ Leads(<<"load">>, "begin", "ready")
    BY LeadsStep DEF Edge, Steps, Stages
  <1> QED BY <1>6, <1>7, <1>8, LeadsThen DEF Staged, Stages

\* The concurrency round, with and without the warmup.
LEMMA ConcurrencyStaged ==
    Staged(Concurrency(ConcurrencyWarmup)) /\ Staged(Concurrency(<<>>))
  <1>1. Leads(<<"open">>, "begin", "clean")
    BY LeadsStep DEF Edge, Steps, Stages
  <1>2. Walks(ConcurrencyWarmup, "clean", "marked")
    <2>1. Leads(<<"check">>, "clean", "clean")
      BY LeadsStep DEF Edge, Steps, Stages
    <2> QED BY <2>1, Parts, LeadsThen DEF ConcurrencyWarmup, Leads
  <1>3. Walks(ConcurrencyRound, "clean", "clean") /\ Walks(ConcurrencyRound, "marked", "clean")
    <2>1. Path(ConcurrencyRound, <<"clean", "clean", "created", "saved", "saved", "sent", "sent",
                                   "sent", "sent", "asked", "marked", "marked", "clean">>)
      BY DEF Path, Edge, Steps, Stages, Once, ConcurrencyRound
    <2>2. Path(ConcurrencyRound, <<"marked", "clean", "created", "saved", "saved", "sent", "sent",
                                   "sent", "sent", "asked", "marked", "marked", "clean">>)
      BY DEF Path, Edge, Steps, Stages, Once, ConcurrencyRound
    <2>3. Len(ConcurrencyRound) = 12
      BY DEF ConcurrencyRound
    <2> QED BY <2>1, <2>2, <2>3 DEF Walks
  <1>4. /\ ConcurrencyWarmup \in Seq(Steps \ {"try", "catch"})
        /\ ConcurrencyRound \in Seq(Steps \ {"try", "catch"})
        /\ <<>> \in Seq(Steps \ {"try", "catch"})
    BY EmptySeq DEF ConcurrencyWarmup, ConcurrencyRound, Observed, Withdrawal, Steps
  <1>5. Walks(<<>>, "clean", "clean")
    BY LeadsNowhere DEF Leads, Stages
  <1>6. Leads(<<"persist">>, "caught", "caught")
    BY LeadsStep DEF Edge, Steps, Stages
  <1>7. Edge("clean", "try", "clean") /\ Edge("clean", "catch", "caught")
    BY DEF Edge
  <1>8. "clean" \in Stages /\ "caught" \in Stages /\ "marked" \in Stages
    BY DEF Stages
  <1>9. <<"open", "try">> = <<"open">> \o <<"try">> /\ <<"catch", "persist">> = <<"catch">> \o <<"persist">>
    OBVIOUS
  <1>10. ASSUME NEW w \in Seq(Steps \ {"try", "catch"}), NEW m \in {"clean", "marked"},
                Walks(w, "clean", m)
         PROVE  Leads(Concurrency(w), "begin", "caught")
    <2>1. Walks(Level(w), "clean", "clean")
      BY <1>3, <1>10, WalksThen DEF Level
    <2>2. Level(w) \in Seq(Steps \ {"try", "catch"})
      BY <1>4 DEF Level
    <2> QED BY <1>1, <1>6, <1>7, <1>8, <1>9, <2>1, <2>2, LeadsGuarded DEF Concurrency
  <1>11. Leads(Concurrency(ConcurrencyWarmup), "begin", "caught") /\ Leads(Concurrency(<<>>), "begin", "caught")
    BY <1>2, <1>4, <1>5, <1>10
  <1> QED BY <1>11 DEF Staged, Stages

\* The recovery canary and the seeding of the pools.
LEMMA SmallStaged == Staged(RecoveryCanary) /\ Staged(Seed)
  <1>1. Leads(<<"open">>, "begin", "clean")
    BY LeadsStep DEF Edge, Steps, Stages
  <1>2. Leads(RecoveryCanary, "begin", "clean")
    BY <1>1, Parts, LeadsThen DEF RecoveryCanary
  <1> DEFINE pool == <<"check", "deposit", "record", "persist", "next">>
  <1>3. Leads(pool, "clean", "clean")
    <2>1. Path(pool, <<"clean", "clean", "made", "noted", "clean", "clean">>)
      BY DEF Path, Edge, Steps, Stages, Once
    <2> QED BY <2>1 DEF Leads, Walks, Balanced
  <1> HIDE DEF pool
  <1>4. Leads(Times(2, pool), "clean", "clean")
    BY <1>3, LeadsRound DEF Stages
  <1>5. Seed = Times(2, pool)
    BY DEF Seed, pool
  <1> QED BY <1>2, <1>4, <1>5 DEF Staged, Stages

\* The scripts that keep no journal at all.
LEMMA LoosePrograms ==
    /\ RelayerCanary \in Seq(LooseSteps) /\ Balanced(RelayerCanary)
    /\ Soak \in Seq(LooseSteps) /\ Balanced(Soak)
  <1> DEFINE rounds == <<"try", "deposit", "await", "relay", "ensure", "catch", "next">>
             C == {q \in Seq(Steps) : q \in Seq(LooseSteps) /\ Balanced(q)}
  <1>1. <<"deposit", "await", "relay", "ensure", "check">> = RelayerCanary
    BY DEF RelayerCanary, CanaryReplay
  <1>2. RelayerCanary \in Seq(LooseSteps) /\ Balanced(RelayerCanary)
    <2>1. <<"deposit", "await", "relay", "ensure", "check">> \in Seq(LooseSteps)
      BY DEF LooseSteps
    <2>2. Balanced(<<"deposit", "await", "relay", "ensure", "check">>)
      BY DEF Balanced
    <2> QED BY <1>1, <2>1, <2>2
  <1>3. rounds \in C
    BY DEF Steps, LooseSteps, Balanced
  <1>4. <<>> \in C
    BY EmptySeq DEF Balanced
  <1> HIDE DEF rounds
  <1>5. \A q \in C : q \o rounds \in C
    BY <1>3, BalancedThen
  <1> HIDE DEF C
  <1>6. Times(2, rounds) \in C
    BY <1>3, <1>4, <1>5, TimesIn
  <1>7. Soak = Times(2, rounds)
    BY DEF Soak, rounds
  <1> QED BY <1>2, <1>6, <1>7 DEF C

\* What is known of the program of a script that runs.
LEMMA ProgramFacts ==
    ASSUME NEW s \in Scripts, NEW p \in Programs[s]
    PROVE  /\ p \in Seq(Steps) /\ Balanced(p)
           /\ s \notin Loose => Staged(p)
           /\ s \in Loose => p \in Seq(LooseSteps)
           /\ s \in Bursts => p \in Seq(BurstSteps)
  <1>1. \A q : Staged(q) => q \in Seq(Steps) /\ Balanced(q)
    BY DEF Staged, Leads, Walks, Path
  <1>2. LooseSteps \subseteq Steps
    BY DEF LooseSteps, Steps
  <1>3. \A q \in Seq(LooseSteps) : q \in Seq(Steps)
    BY <1>2
  <1>4. s \in DOMAIN Programs
    BY ScriptsAssumption
  <1>5. \/ s = "pool" /\ p = PoolValidation
        \/ s = "relayer" /\ \E sel \in Selections : p = RelayerValidation(sel)
        \/ s = "phase13b" /\ p = Phase13b
        \/ s = "phase13bRelayer" /\ p = Phase13bRelayer
        \/ s = "phase14aDirect" /\ p = Phase14aDirect
        \/ s = "phase14aRelayed" /\ p \in {<<"open">> \o Phase14aRelayed, <<"load">> \o Phase14aRelayed}
        \/ s = "concurrency" /\ p \in {Concurrency(ConcurrencyWarmup), Concurrency(<<>>)}
        \/ s = "recoveryCanary" /\ p = RecoveryCanary
        \/ s = "relayerCanary" /\ p = RelayerCanary
        \/ s = "soak" /\ p = Soak
        \/ s = "seed" /\ p = Seed
    BY <1>4 DEF Programs
  <1>6. s \notin Loose => Staged(p)
    BY <1>5, PoolStaged, RelayerStaged, Phase13bStaged, Phase14aStaged, ConcurrencyStaged, SmallStaged DEF Loose
  <1>7. s \in Loose => p \in Seq(LooseSteps) /\ Balanced(p)
    BY <1>5, LoosePrograms DEF Loose
  <1>8. s \in Bursts => p \in Seq(BurstSteps)
    BY <1>5, RelayerStaged, Phase13bStaged DEF Bursts
  <1> QED BY <1>1, <1>3, <1>6, <1>7, <1>8

-----------------------------------------------------------------------------
(* The invariant.                                                          *)

Payers      == {"nobody", "script", "relayer", "recovery"}
Statuses    == {0, 200, 409, 429, 502}
Attempts    == {"none", "recovered", "already-withdrawn", "failed",
                "skipped-withdrawn", "skipped-filtered", "dry-run"}
NoteRecords == [state : {"planned", "confirmed", "failed"}, withdrawn : BOOLEAN]
Journals    == UNION {[D -> NoteRecords] : D \in SUBSET Notes}

ControlOK ==
    /\ script \in Scripts /\ prog \in Seq(Steps)
    /\ pc \in 0..(Len(prog) + 1) /\ tries \in 0..Retries /\ recoveries \in Nat
    /\ Running => prog \in Programs[script]

NotesOK ==
    /\ next \in 1..(MaxNotes + 1) /\ first \in 1..next
    /\ batch \subseteq 1..(next - 1) /\ todo \subseteq batch /\ done \subseteq batch
    /\ todo = batch \/ done \intersect todo = {}
    /\ flight \subseteq 1..(next - 1) /\ landed \subseteq 1..(next - 1)
    /\ flight \intersect landed = {}
    /\ ~Running => batch = {} /\ todo = {} /\ done = {}

\* A note the relayer answered 200 for is one it withdrew; there is no answer for
\* a note that is still to be made.
ChainOK ==
    /\ spentBy \in [Notes -> Payers] /\ pend \subseteq Notes \X Payers
    /\ answer \in [Notes -> Statuses]
    /\ \A n \in Notes : /\ answer[n] = 200 => spentBy[n] = "relayer"
                        /\ n >= next => answer[n] = 0

\* What a script that runs has forgotten of its file is of an earlier run, and a
\* script that loads its file forgets nothing.
JournalsOK ==
    /\ mem \in Journals /\ DOMAIN mem \subseteq 1..(next - 1)
    /\ file \in Journals /\ DOMAIN file \subseteq 1..(next - 1)
    /\ batch \intersect DOMAIN file \subseteq DOMAIN mem
    /\ ~Running => mem = Empty
    /\ Running => \A n \in DOMAIN file :
          /\ n \in DOMAIN mem => (file[n].withdrawn => mem[n].withdrawn)
          /\ n \notin DOMAIN mem => n < first /\ (prog[1] = "load" => pc = 1)
    /\ script \in Loose => mem = Empty /\ file = Empty

Recoveries ==
    [on : BOOLEAN, todo : SUBSET Notes, copy : Journals, tries : 0..Retries,
     attempts : [Notes -> Attempts], dry : BOOLEAN, planned : BOOLEAN, lost : BOOLEAN]

\* A recovery has come past a note when it has withdrawn it, found it withdrawn
\* or reported it.
RecoveryOK ==
    /\ rec \in Recoveries /\ rec.todo \subseteq DOMAIN rec.copy
    /\ ~rec.on => rec = Idle
    /\ rec.on => ~Running /\ DOMAIN rec.copy = DOMAIN file /\ script \in Keeping /\ recoveries > 0
    /\ (rec.on /\ rec.planned /\ ~rec.dry) =>
          \A n \in DOMAIN rec.copy \ rec.todo :
              spentBy[n] = "nobody" => rec.copy[n].state = "failed" \/ rec.attempts[n] = "failed"

Unfiled == (batch \intersect (flight \union landed)) \ DOMAIN file

RiskOK == script \notin Loose => \A m, n \in Unfiled : m = n

\* A scenario whose notes nobody has taken out so far: none of them is marked,
\* and what the relayer has answered is of the call the script is at.
Fresh(op) ==
    /\ done \subseteq Spent
    /\ op \notin Asking => done = {}
    /\ op \notin {"relay", "relayRetry"} => \A n \in batch : answer[n] = 0
    /\ \A n \in batch \intersect DOMAIN mem : ~mem[n].withdrawn
    /\ script \in Bursts => \A n \in done : answer[n] \in {0, 200}

\* What is so when a script comes to the step op at the stage s.
Holds(s, op) ==
    /\ s \in {"begin", "ready"} => batch = {} /\ done = {} /\ \A n \in Notes : answer[n] = 0
    /\ s = "begin" => mem = Empty
    /\ s \in {"ready", "kept", "unpaid"} => DOMAIN mem = DOMAIN file
    /\ s \in {"clean", "made", "noted"} => Fresh(op)
    /\ s \notin {"made", "noted", "caught"} => Unfiled = {}
    /\ s \in {"noted", "created"} => batch \subseteq DOMAIN mem
    /\ s \in {"saved", "sent"} => batch \subseteq DOMAIN file
    /\ (s \in {"created", "saved"} /\ op # "send") => batch \intersect (flight \union landed) = {}
    /\ s = "saved" => todo \intersect (flight \union landed) = {}
    /\ (s = "sent" /\ op = "withdrawAll") => todo = batch \/ done \subseteq Spent
    /\ s \in {"asked", "ensured"} => done \subseteq Spent
    /\ (s = "asked" /\ script \in Bursts) => \A n \in done : answer[n] \in {0, 200}
    /\ s \in {"ensured", "settled", "kept"} => batch \subseteq Spent
    /\ (s = "kept" /\ op = "again") => todo = batch \/ done = {}
    /\ s \in {"unpaid", "rescuing"} => done = {}

\* The stages of a program, from its first step on.
Stage(p) == CHOOSE f : Path(p, f) /\ f[1] \in {"begin", "clean"}

At(s, op) == pc \in 1..Len(prog) /\ s = Stage(prog)[pc] /\ op = prog[pc]
StageOK   == script \notin Loose => \A s, op : At(s, op) => Holds(s, op)

Inv ==
    /\ ControlOK /\ NotesOK /\ ChainOK /\ JournalsOK /\ RecoveryOK /\ RiskOK /\ StageOK
    /\ WithdrawnIsSpent

-----------------------------------------------------------------------------
(* How a script moves on.                                                  *)

\* A script that is at a step of its program is in its program.
LEMMA AtStep ==
    ASSUME ControlOK, Op # "none"
    PROVE  Running /\ pc \in 1..Len(prog) /\ Op = prog[pc] /\ Op \in Steps
           /\ prog \in Programs[script] /\ Balanced(prog)
  <1>1. pc \in 1..Len(prog) /\ Op = prog[pc]
    BY DEF Op, ControlOK
  <1>2. Running /\ prog \in Programs[script] /\ prog[pc] \in Steps
    BY <1>1 DEF ControlOK, Running
  <1> QED BY <1>1, <1>2, ProgramFacts DEF ControlOK

\* A call that throws goes to what comes after a catch, or to the end.
LEMMA HandlerFacts ==
    ASSUME ControlOK, Op # "none"
    PROVE  /\ Handler \in (pc+1)..(Len(prog) + 1)
           /\ Handler <= Len(prog) => prog[Handler - 1] = "catch"
  <1> DEFINE Marks == {i \in 1..pc : prog[i] \in {"try", "catch"}}
  <1>1. PICK m \in Nat : m = Len(prog)
    BY DEF ControlOK
  <1>2. pc \in 1..m /\ Balanced(prog)
    BY <1>1, AtStep
  <1>3. CASE Marks # {} /\ prog[Max(Marks)] = "try"
    <2>1. Max(Marks) \in Marks /\ \A i \in Marks : Max(Marks) >= i
      <3>1. Marks \subseteq 0..pc /\ pc \in Nat
        BY <1>2
      <3> HIDE DEF Marks
      <3> QED BY <3>1, <1>3, Greatest
    <2>2. PICK i \in 1..pc : i = Max(Marks)
      BY <2>1
    <2>3. PICK j \in (i+1)..m : prog[j] = "catch"
      <3>1. i \in 1..m /\ prog[i] = "try"
        <4> HIDE DEF Marks
        <4> QED BY <1>2, <1>3, <2>2
      <3> HIDE DEF Marks
      <3> QED BY <1>1, <1>2, <3>1 DEF Balanced
    <2>4. ~ (j <= pc)
      <3> SUFFICES ASSUME j <= pc PROVE FALSE
        OBVIOUS
      <3>1. j \in Marks
        BY <2>3
      <3> HIDE DEF Marks
      <3> QED BY <3>1, <2>1, <2>2, <2>3
    <2> DEFINE Catches == {k \in pc..m : prog[k] = "catch"}
    <2>5. Catches \subseteq Nat /\ Catches # {}
      BY <1>2, <2>3, <2>4
    <2>6. Min(Catches) \in Catches
      <3> HIDE DEF Catches
      <3> QED BY <2>5, Least
    <2>7. Handler = Min(Catches) + 1
      BY <1>1, <1>3 DEF Handler
    <2>8. PICK k \in pc..m : k = Min(Catches) /\ prog[k] = "catch"
      BY <2>6
    <2> HIDE DEF Catches
    <2>9. Handler = k + 1 /\ k \in Nat
      BY <2>7, <2>8, <1>2
    <2> QED BY <1>1, <1>2, <2>8, <2>9
  <1>4. CASE ~ (Marks # {} /\ prog[Max(Marks)] = "try")
    <2>1. Handler = m + 1
      BY <1>1, <1>4 DEF Handler
    <2> QED BY <1>1, <1>2, <2>1
  <1> QED BY <1>3, <1>4

\* The stages of a program of a script.
LEMMA StageOf ==
    ASSUME NEW s \in Scripts, NEW p \in Programs[s], s \notin Loose
    PROVE  /\ Path(p, Stage(p)) /\ Stage(p)[1] \in {"begin", "clean"}
           /\ \A i \in 1..(Len(p) + 1) : Stage(p)[i] \in Stages
           /\ \A i \in 2..(Len(p) + 1) : Stage(p)[i] # "begin"
  <1>1. Staged(p) /\ p \in Seq(Steps)
    BY ProgramFacts
  <1>2. PICK f : Path(p, f) /\ f[1] \in {"begin", "clean"}
    BY <1>1 DEF Staged, Leads, Walks
  <1>3. Path(p, Stage(p)) /\ Stage(p)[1] \in {"begin", "clean"}
    BY <1>2 DEF Stage
  <1> DEFINE g == Stage(p)
  <1> HIDE DEF g
  <1>4. Path(p, g)
    BY <1>3 DEF g
  <1>5. PICK m \in Nat : m = Len(p)
    BY <1>1
  <1>6. \A i \in 1..(m + 1) : g[i] \in Stages
    BY <1>4, <1>5 DEF Path
  <1>7. \A i \in 1..m : Edge(g[i], p[i], g[i+1])
    BY <1>4, <1>5 DEF Path
  <1>8. \A a, op, b : Edge(a, op, b) => b # "begin"
    BY DEF Edge
  <1>9. \A i \in 2..(m + 1) : i - 1 \in 1..m /\ (i - 1) + 1 = i
    OBVIOUS
  <1>10. \A i \in 2..(m + 1) : g[i] # "begin"
    BY <1>7, <1>8, <1>9
  <1> QED BY <1>3, <1>5, <1>6, <1>10 DEF g

\* A step of a script stays at its call, goes further in the program or ends it.
LEMMA Moves ==
    ASSUME ControlOK, Step
    PROVE  /\ Running /\ script' = script /\ prog' = prog /\ runs' = runs
           /\ first' = first /\ recoveries' = recoveries /\ rec' = rec
           /\ \/ pc' = pc /\ tries' \in 0..Retries
              \/ Op # "none" /\ pc' \in (pc+1)..(Len(prog) + 1) /\ tries' = 0
              \/ Exit
  <1> USE DEF chain, journal, notes, relayed, control, rescue, fixed
  <1>1. Op # "none" => pc \in 1..Len(prog) /\ Running /\ pc + 1 \in (pc+1)..(Len(prog) + 1)
                       /\ Handler \in (pc+1)..(Len(prog) + 1) /\ Len(prog) \in Nat /\ tries \in Nat
    BY AtStep, HandlerFacts DEF ControlOK
  <1>2. 0 \in 0..Retries /\ Retries \in Nat /\ tries \in 0..Retries
    BY NoteJournalAssumption DEF ControlOK
  <1>3. CASE Persist
    BY <1>3, <1>1, <1>2 DEF Persist, Advance
  <1>4. CASE Open
    BY <1>4, <1>1, <1>2 DEF Open, Advance
  <1>5. CASE Load
    BY <1>5, <1>1, <1>2 DEF Load, Advance
  <1>6. CASE Reuse
    <2>1. Op = "reuse" /\ prog[pc] = "reuse" /\ pc \in 1..Len(prog) /\ Running
      BY <1>6, AtStep DEF Reuse
    <2>2. script \notin Loose
      <3>1. \A q \in Seq(LooseSteps) : \A i \in 1..Len(q) : q[i] # "reuse"
        BY DEF LooseSteps
      <3> QED BY <2>1, <3>1, ProgramFacts DEF ControlOK
    <2>3. pc + Len(Once) <= Len(prog)
      <3>1. prog \in Programs[script] /\ script \in Scripts
        BY <2>1 DEF ControlOK
      <3> QED BY <2>1, <2>2, <3>1, StageOf DEF Path
    <2>4. Len(Once) = 6 /\ Len(prog) \in Nat
      BY DEF Once, ControlOK
    <2>5. pc + Len(Once) + 1 \in (pc+1)..(Len(prog) + 1)
      BY <2>1, <2>3, <2>4
    <2> QED BY <1>6, <1>1, <2>5 DEF Reuse, Advance
  <1>7. CASE Deposit
    BY <1>7, <1>1, <1>2 DEF Deposit, Failed, Throw, Advance
  <1>8. CASE Await
    BY <1>8, <1>1, <1>2 DEF Await, Throw, Advance
  <1>9. CASE Check
    BY <1>9, <1>1, <1>2 DEF Check, Throw, Advance
  <1>10. CASE Plan
    BY <1>10, <1>1, <1>2 DEF Plan, Advance
  <1>11. CASE RecordNote
    BY <1>11, <1>1, <1>2 DEF RecordNote, Advance
  <1>12. CASE Deposited
    BY <1>12, <1>1, <1>2 DEF Deposited, Advance
  <1>13. CASE Create
    BY <1>13, <1>1, <1>2 DEF Create, Advance
  <1>14. CASE Nothing
    BY <1>14, <1>1, <1>2 DEF Nothing, Advance
  <1>15. CASE Send
    BY <1>15, <1>1, <1>2 DEF Send, Finish, Advance
  <1>16. CASE Settle
    BY <1>16, <1>1, <1>2 DEF Settle, Advance
  <1>17. CASE WithdrawNote
    BY <1>17, <1>1, <1>2 DEF WithdrawNote, Failed, Throw, Finish, Advance
  <1>18. CASE WithdrawEach
    BY <1>18, <1>1, <1>2 DEF WithdrawEach, Finish, Advance
  <1>19. CASE Mark
    BY <1>19, <1>1, <1>2 DEF Mark, Advance
  <1>20. CASE Unresolved
    BY <1>20, <1>1, <1>2 DEF Unresolved, Advance
  <1>21. CASE RescueNote
    BY <1>21, <1>1, <1>2 DEF RescueNote, Finish, Advance
  <1>22. CASE Relay
    BY <1>22, <1>1, <1>2 DEF Relay, RelaySucceeds, RelayRefuses, Takes, Answered, Unanswered, Failed, Throw, Finish, Advance
  <1>23. CASE Process
    BY <1>23, <1>1, <1>2 DEF Process, Unconfirmed, Throw, Finish, Advance
  <1>24. CASE Halt
    <2>1. Op # "none" => Len(prog) + 1 \in (pc+1)..(Len(prog) + 1)
      BY <1>1
    <2> QED BY <1>24, <1>1, <2>1 DEF Halt, Advance
  <1>25. CASE Ensure
    BY <1>25, <1>1, <1>2 DEF Ensure, Throw, Advance
  <1>26. CASE NextScenario
    BY <1>26, <1>1, <1>2 DEF NextScenario, Advance
  <1>27. CASE Exit
    BY <1>27 DEF Exit, Stop
  <1> QED BY <1>3, <1>4, <1>5, <1>6, <1>7, <1>8, <1>9, <1>10, <1>11, <1>12, <1>13, <1>14,
         <1>15, <1>16, <1>17, <1>18, <1>19, <1>20, <1>21, <1>22, <1>23, <1>24, <1>25, <1>26, <1>27 DEF Step

-----------------------------------------------------------------------------
(* Journals.                                                               *)

\* A journal is a function from notes to records.
LEMMA JournalIs ==
    \A f : f \in Journals <=>
        DOMAIN f \subseteq Notes /\ f = [n \in DOMAIN f |-> f[n]] /\ \A n \in DOMAIN f : f[n] \in NoteRecords
  BY DEF Journals

\* The empty journal is one.
LEMMA EmptyIs == Empty \in Journals /\ DOMAIN Empty = {}
  <1>1. DOMAIN Empty = {} /\ Empty \in [{} -> NoteRecords]
    BY DEF Empty
  <1> QED BY <1>1, JournalIs

\* The recovery script when it does not run.
LEMMA IdleIs == Idle \in Recoveries /\ Idle.on = FALSE /\ Idle.todo = {} /\ Idle.copy = Empty
  <1>1. [n \in Notes |-> "none"] \in [Notes -> Attempts]
    BY DEF Attempts
  <1> QED BY <1>1, EmptyIs, NoteJournalAssumption DEF Idle, Recoveries

\* A journal in which notes have been marked is a journal, with their marks and the old ones.
LEMMA JournalMarked ==
    ASSUME NEW f \in Journals, NEW ns \in SUBSET Notes
    PROVE  /\ SetWithdrawn(f, ns) \in Journals /\ DOMAIN SetWithdrawn(f, ns) = DOMAIN f
           /\ \A n \in DOMAIN f : f[n].withdrawn => SetWithdrawn(f, ns)[n].withdrawn
           /\ \A n \in DOMAIN f : SetWithdrawn(f, ns)[n].withdrawn => f[n].withdrawn \/ n \in ns
  <1>1. DOMAIN f \subseteq Notes /\ \A n \in DOMAIN f : f[n] \in NoteRecords
    BY JournalIs
  <1>2. SetWithdrawn(f, ns) \in [DOMAIN f -> NoteRecords]
    BY <1>1 DEF SetWithdrawn, NoteRecords
  <1>3. \A n \in DOMAIN f : f[n].withdrawn => SetWithdrawn(f, ns)[n].withdrawn
    BY <1>1 DEF SetWithdrawn
  <1>4. \A n \in DOMAIN f : SetWithdrawn(f, ns)[n].withdrawn => f[n].withdrawn \/ n \in ns
    BY DEF SetWithdrawn
  <1> QED BY <1>1, <1>2, <1>3, <1>4 DEF Journals

\* A journal to which notes have been added is a journal.
LEMMA JournalAdded ==
    ASSUME NEW f \in Journals, NEW ns \in SUBSET Notes, NEW s \in {"planned", "confirmed", "failed"}, NEW g,
           g = [n \in ns \union DOMAIN f |-> IF n \in ns THEN Record(s) ELSE f[n]]
    PROVE  g \in Journals
  <1>1. DOMAIN f \subseteq Notes /\ \A n \in DOMAIN f : f[n] \in NoteRecords
    BY JournalIs
  <1>2. g \in [ns \union DOMAIN f -> NoteRecords]
    BY <1>1 DEF Record, NoteRecords
  <1> QED BY <1>1, <1>2 DEF Journals

\* Nobody gives a note back.
LEMMA SpentGrows ==
    ASSUME ChainOK, Next
    PROVE  \A n \in Notes : spentBy[n] # "nobody" => spentBy'[n] = spentBy[n]
  <1> USE DEF chain, ChainOK
  <1>1. CASE Step
    <2>1. CASE Persist \/ Open \/ Load \/ Reuse \/ Await \/ Check \/ Plan \/ RecordNote \/ Deposited
               \/ Create \/ Nothing \/ Settle \/ Mark \/ Unresolved \/ Halt \/ Ensure \/ NextScenario \/ Exit
      BY <2>1 DEF Persist, Open, Load, Reuse, Await, Check, Plan, RecordNote, Deposited, Create, Nothing,
                  Settle, Mark, Unresolved, Halt, Ensure, NextScenario, Exit, Stop
    <2>2. CASE Deposit \/ Send
      BY <2>2 DEF Deposit, Send
    <2>3. CASE WithdrawNote \/ WithdrawEach \/ RescueNote
      <3>1. PICK n, out : Withdraw(n, "script", out)
        BY <2>3 DEF WithdrawNote, WithdrawEach, RescueNote
      <3> QED BY <3>1 DEF Withdraw
    <2>4. CASE Relay
      BY <2>4 DEF Relay, RelaySucceeds, RelayRefuses
    <2>5. CASE Process
      BY <2>5 DEF Process
    <2> QED BY <1>1, <2>1, <2>2, <2>3, <2>4, <2>5 DEF Step
  <1>2. CASE Recover
    BY <1>2 DEF Recover, Withdraw
  <1>3. CASE Crash \/ (\E p \in Programs[script] : Start(p)) \/ RecoverSkips \/ RecoveryEnds \/ RecoveryCrashes
             \/ (\E dry, planned \in BOOLEAN : StartRecovery(dry, planned)) \/ (\E n \in Notes : Land(n))
    BY <1>3 DEF Crash, Stop, Start, StartRecovery, RecoverSkips, RecoveryEnds, RecoveryCrashes, Land
  <1>4. CASE \E n \in Notes, who \in {"script", "relayer", "recovery"} : Execute(n, who)
    BY <1>4 DEF Execute
  <1> QED BY <1>1, <1>2, <1>3, <1>4 DEF Next, Recovery

-----------------------------------------------------------------------------
(* What is so at a step.                                                   *)

\* A script that keeps its notes comes to a step at a stage of its program.
LEMMA Here ==
    ASSUME ControlOK, StageOK, Op # "none", script \notin Loose
    PROVE  \E a, b \in Stages : /\ a = Stage(prog)[pc] /\ b = Stage(prog)[pc+1]
                                /\ Edge(a, Op, b) /\ Holds(a, Op)
  <1>1. pc \in 1..Len(prog) /\ Op = prog[pc] /\ prog \in Programs[script]
    BY AtStep
  <1> DEFINE a == Stage(prog)[pc]
             b == Stage(prog)[pc+1]
  <1>2. a \in Stages /\ b \in Stages /\ Edge(a, Op, b)
    <2>1. Path(prog, Stage(prog)) /\ \A i \in 1..(Len(prog) + 1) : Stage(prog)[i] \in Stages
      BY <1>1, StageOf DEF ControlOK
    <2>2. pc \in 1..(Len(prog) + 1) /\ pc + 1 \in 1..(Len(prog) + 1)
      BY <1>1 DEF ControlOK
    <2> QED BY <1>1, <2>1, <2>2 DEF Path
  <1>3. At(a, Op)
    BY <1>1 DEF At
  <1> HIDE DEF a, b
  <1>4. Holds(a, Op)
    BY <1>3 DEF StageOK
  <1> QED BY <1>2, <1>4 DEF a, b

\* The stages that certain steps come from.
LEMMA EdgeFrom ==
    /\ \A a, b : Edge(a, "open", b) => a = "begin"
    /\ \A a, b : Edge(a, "load", b) => a = "begin"
    /\ \A a, b : Edge(a, "reuse", b) => a = "ready"
    /\ \A a, b : Edge(a, "deposit", b) => a = "clean"
    /\ \A a, b : Edge(a, "depositRetry", b) => a = "clean"
    /\ \A a, b : Edge(a, "create", b) => a = "clean"
    /\ \A a, b : Edge(a, "send", b) => a = "saved"
    /\ \A a, b : Edge(a, "mark", b) => a = "asked" \/ a = "ensured"
    /\ \A a, b : Edge(a, "unresolved", b) => a = "unpaid"
    /\ \A a, b : Edge(a, "rescue", b) => a = "rescuing"
  BY DEF Edge, Asking

\* The steps that touch a journal, and what is so when a script comes to them.
LEMMA Before ==
    ASSUME ControlOK, StageOK
    PROVE  /\ Op \in {"open", "load", "reuse", "persist", "plan", "record", "deposited", "create", "send",
                      "settle", "mark", "unresolved", "rescue"} => script \notin Loose
           /\ Op \in {"open", "load"} => pc = 1 /\ batch = {} /\ done = {} /\ mem = Empty
           /\ Op = "reuse" => batch = {} /\ done = {} /\ DOMAIN mem = DOMAIN file
           /\ Op \in {"deposit", "depositRetry"} /\ script \notin Loose => Unfiled = {}
           /\ Op = "create" => done = {}
           /\ Op = "send" => todo \intersect (flight \union landed) = {} /\ batch \subseteq DOMAIN file
           /\ Op = "mark" => done \subseteq Spent
           /\ Op = "unresolved" => DOMAIN mem = DOMAIN file
           /\ Op \in {"unresolved", "rescue"} => done = {}
  <1> DEFINE Touching == {"open", "load", "reuse", "persist", "plan", "record", "deposited", "create", "send",
                          "settle", "mark", "unresolved", "rescue"}
  <1>1. ASSUME script \in Loose, Op # "none" PROVE Op \in LooseSteps
    BY <1>1, AtStep, ProgramFacts DEF ControlOK
  <1>2. Op \in Touching => script \notin Loose
    BY <1>1 DEF LooseSteps
  <1> HIDE DEF Touching
  <1>3. Op # "none" /\ script \notin Loose =>
           \E a, b \in Stages : /\ a = Stage(prog)[pc] /\ b = Stage(prog)[pc+1]
                                /\ Edge(a, Op, b) /\ Holds(a, Op)
    BY Here
  <1>a. ASSUME NEW x, Op = x, x \in Touching
        PROVE  \E a, b \in Stages : a = Stage(prog)[pc] /\ Edge(a, x, b) /\ Holds(a, x)
    <2>1. Op # "none" /\ script \notin Loose
      BY <1>2, <1>a DEF Touching
    <2> QED BY <1>3, <1>a, <2>1
  <1> USE DEF Touching
  <1>4. Op \in {"open", "load"} => pc = 1 /\ batch = {} /\ done = {} /\ mem = Empty
    <2> SUFFICES ASSUME Op \in {"open", "load"} PROVE pc = 1 /\ batch = {} /\ done = {} /\ mem = Empty
      OBVIOUS
    <2>1. Stage(prog)[pc] = "begin" /\ Holds("begin", Op)
      <3>1. CASE Op = "open"
        BY <1>a, <3>1, EdgeFrom
      <3>2. CASE Op = "load"
        BY <1>a, <3>2, EdgeFrom
      <3> QED BY <3>1, <3>2
    <2>2. pc \in 1..Len(prog) /\ prog \in Programs[script]
      BY AtStep
    <2>3. \A i \in 2..(Len(prog) + 1) : Stage(prog)[i] # "begin"
      BY <1>2, <2>2, StageOf DEF ControlOK
    <2>4. pc = 1
      BY <2>1, <2>2, <2>3 DEF ControlOK
    <2> QED BY <2>1, <2>4 DEF Holds
  <1>5. Op = "reuse" => Holds("ready", "reuse")
    BY <1>a, EdgeFrom
  <1>6. Op \in {"deposit", "depositRetry"} /\ script \notin Loose => Holds("clean", Op)
    BY <1>3 DEF Edge
  <1>7. Op = "create" => Holds("clean", "create")
    BY <1>a, EdgeFrom
  <1>8. Op = "send" => Holds("saved", "send")
    BY <1>a, EdgeFrom
  <1>9. Op = "mark" => Holds("asked", "mark") \/ Holds("ensured", "mark")
    BY <1>a, EdgeFrom
  <1>10. Op = "unresolved" => Holds("unpaid", "unresolved")
    BY <1>a, EdgeFrom
  <1>11. Op = "rescue" => Holds("rescuing", "rescue")
    BY <1>a, EdgeFrom
  <1> QED BY <1>2, <1>4, <1>5, <1>6, <1>7, <1>8, <1>9, <1>10, <1>11 DEF Holds, Fresh, Asking

-----------------------------------------------------------------------------
(* Every step keeps the invariant, one part of it after the other.         *)

\* A script that takes a step and does not end runs on.
LEMMA RunsOn ==
    ASSUME ControlOK, Step, ~Exit
    PROVE  Running /\ Running' /\ pc' \in pc..(Len(prog) + 1) /\ pc' # 0
  <1>1. pc \in Nat /\ pc # 0 /\ Len(prog) \in Nat
    BY Moves DEF ControlOK, Running
  <1>2. pc' = pc \/ pc' \in (pc+1)..(Len(prog) + 1)
    BY Moves
  <1>3. pc <= Len(prog) + 1
    BY DEF ControlOK
  <1> QED BY <1>1, <1>2, <1>3 DEF Running

\* The part on the script, its program and where it is.
LEMMA ControlKept ==
    ASSUME ControlOK, Next
    PROVE  ControlOK'
  <1> USE DEF fixed, control, rescue
  <1>1. CASE Step
    <2>1. CASE Exit
      <3>1. script' = script /\ prog' = prog /\ recoveries' = recoveries
        BY <1>1, Moves
      <3>2. pc' = 0 /\ tries' = 0
        BY <2>1 DEF Exit, Stop
      <3>3. 0 \in 0..Retries /\ 0 \in 0..(Len(prog) + 1) /\ ~Running'
        BY <3>2, NoteJournalAssumption DEF ControlOK, Running
      <3> QED BY <3>1, <3>2, <3>3 DEF ControlOK
    <2>2. CASE ~Exit
      <3>1. script' = script /\ prog' = prog /\ recoveries' = recoveries
        BY <1>1, Moves
      <3>2. Running /\ pc' \in pc..(Len(prog) + 1) /\ pc' # 0
        BY <1>1, <2>2, RunsOn
      <3>3. tries' \in 0..Retries
        BY <1>1, <2>2, Moves, NoteJournalAssumption
      <3> QED BY <3>1, <3>2, <3>3 DEF ControlOK
    <2> QED BY <2>1, <2>2
  <1>2. CASE Crash
    BY <1>2, NoteJournalAssumption DEF Crash, Stop, ControlOK, Running
  <1>3. ASSUME NEW p \in Programs[script], Start(p) PROVE ControlOK'
    <2>1. p \in Seq(Steps)
      BY ProgramFacts DEF ControlOK
    <2>2. 1 \in 0..(Len(p) + 1)
      BY <2>1
    <2> QED BY <1>3, <2>1, <2>2 DEF Start, ControlOK
  <1>4. CASE RecoverSkips \/ Recover \/ RecoveryEnds \/ RecoveryCrashes
             \/ \E n \in Notes : Land(n) \/ \E who \in {"script", "relayer", "recovery"} : Execute(n, who)
    <2>1. UNCHANGED <<fixed, control, recoveries>>
      BY <1>4 DEF RecoverSkips, Recover, RecoveryEnds, RecoveryCrashes, Land, Execute
    <2> QED BY <2>1 DEF ControlOK, Running
  <1>5. CASE \E dry, planned \in BOOLEAN : StartRecovery(dry, planned)
    BY <1>5 DEF StartRecovery, ControlOK, Running
  <1> QED BY <1>1, <1>2, <1>3, <1>4, <1>5 DEF Next, Recovery

\* A call for a note of the batch leaves the notes that come after it.
LEMMA FinishIs ==
    ASSUME NotesOK, NEW n \in todo, NEW d, d \subseteq Begin \union {n}, Finish(n, d)
    PROVE  /\ batch' = batch /\ todo' \subseteq batch /\ done' \subseteq batch
           /\ todo' = batch \/ done' \intersect todo' = {}
  BY DEF NotesOK, Begin, Finish

\* The note a resumed run goes on with is in its journal.
LEMMA ReuseIs ==
    ASSUME JournalsOK, NotesOK, Reuse
    PROVE  /\ done' = done /\ todo' = batch'
           /\ batch' = batch \/ batch' \subseteq DOMAIN mem
           /\ batch' = batch \/ \A n \in batch' : ~mem[n].withdrawn
           /\ (pc' = pc + 1 /\ batch' = batch) \/ pc' = pc + Len(Once) + 1
           /\ UNCHANGED <<journal, notes, chain, relayed, rescue, fixed>>
  <1> DEFINE Usable == {n \in DOMAIN mem : mem[n].state = "confirmed" /\ ~mem[n].withdrawn}
  <1>1. Usable # {} => Min(Usable) \in Usable
    <2>1. Usable \subseteq Nat
      BY DEF JournalsOK, NotesOK
    <2> HIDE DEF Usable
    <2> QED BY <2>1, Least
  <1>2. Usable # {} => Min(Usable) \in DOMAIN mem /\ ~mem[Min(Usable)].withdrawn
    BY <1>1
  <1>3. \/ Advance(batch)
        \/ Usable # {} /\ pc' = pc + Len(Once) + 1 /\ batch' = {Min(Usable)} /\ todo' = {Min(Usable)}
    BY DEF Reuse
  <1> HIDE DEF Usable
  <1> QED BY <1>2, <1>3 DEF Reuse, Advance

\* The part on the notes that have been made and those of the scenario.
LEMMA NotesKept ==
    ASSUME ControlOK, StageOK, JournalsOK, NotesOK, Next
    PROVE  NotesOK'
  <1> USE DEF fixed, control, rescue, chain, notes
  <1> DEFINE Same   == next' = next /\ first' = first /\ flight' = flight /\ landed' = landed
             Held   == batch' = batch /\ (todo' = todo \/ todo' = batch) /\ done' = done
             Parted == /\ batch' = batch /\ todo' \subseteq batch /\ done' \subseteq batch
                       /\ todo' = batch \/ done' \intersect todo' = {}
  <1>1. CASE Step /\ ~Exit
    <2>1. Running /\ Running'
      BY <1>1, RunsOn
    <2>2. CASE Persist \/ Open \/ Load \/ Await \/ Check \/ Plan \/ RecordNote \/ Deposited \/ Mark \/ Halt \/ Ensure
      <3>1. Same /\ Held
        BY <2>2 DEF Persist, Open, Load, Await, Check, Plan, RecordNote, Deposited, Mark, Halt, Ensure, Advance, Throw
      <3> QED BY <3>1, <2>1 DEF NotesOK
    <2>3. CASE Reuse
      <3>1. Same /\ done' = done /\ done = {} /\ todo' = batch' /\ (batch' = batch \/ batch' \subseteq DOMAIN mem)
        BY <2>3, Before, ReuseIs DEF Reuse
      <3>2. DOMAIN mem \subseteq 1..(next - 1)
        BY DEF JournalsOK
      <3> QED BY <3>1, <3>2, <2>1 DEF NotesOK
    <2>4. CASE Nothing \/ NextScenario
      BY <2>4, <2>1 DEF Nothing, NextScenario, Advance, NotesOK
    <2>5. CASE Unresolved
      <3>1. Same /\ done' = done /\ done = {} /\ todo' = batch' /\ batch' \subseteq DOMAIN mem
        BY <2>5, Before DEF Unresolved, Advance
      <3>2. DOMAIN mem \subseteq 1..(next - 1)
        BY DEF JournalsOK
      <3> QED BY <3>1, <3>2, <2>1 DEF NotesOK
    <2>6. CASE Settle
      BY <2>6, <2>1 DEF Settle, Advance, NotesOK
    <2>7. CASE WithdrawNote \/ RescueNote
      <3>1. Current \in todo
        <4>1. todo # {} /\ todo \subseteq Nat
          BY <2>7 DEF WithdrawNote, RescueNote, NotesOK
        <4> QED BY <4>1, Least DEF Current
      <3>2. Op = "rescue" => done = {}
        BY Before
      <3>3. Same
        BY <2>7 DEF WithdrawNote, RescueNote
      <3>4. \/ Finish(Current, Begin \union {Current})
            \/ batch' = batch /\ todo' = todo /\ done' = done
            \/ done = {} /\ Finish(Current, done)
        BY <2>7, <3>2 DEF WithdrawNote, RescueNote, Failed, Throw
      <3>5. Parted
        BY <3>1, <3>4, FinishIs DEF NotesOK
      <3> QED BY <3>3, <3>5, <2>1 DEF NotesOK
    <2>8. CASE WithdrawEach
      <3>1. PICK n \in todo, out \in Outcomes : Finish(n, IF out = "ok" THEN Begin \union {n} ELSE Begin)
        BY <2>8 DEF WithdrawEach
      <3>2. Finish(n, Begin \union {n}) \/ Finish(n, Begin)
        BY <3>1
      <3>3. Parted
        BY <3>2, FinishIs
      <3> QED BY <2>8, <3>3, <2>1 DEF NotesOK, WithdrawEach
    <2>9. CASE Relay
      <3>1. Same
        BY <2>9 DEF Relay
      <3>2. \/ batch' = batch /\ todo' = todo /\ done' = done
            \/ \E n \in todo : Finish(n, Begin \union {n}) \/ Finish(n, Begin)
        <4>1. ASSUME NEW kind, Unanswered(kind) PROVE batch' = batch /\ todo' = todo /\ done' = done
          BY <4>1 DEF Unanswered, Failed, Throw
        <4>2. ASSUME NEW n, NEW status, Answered(n, status)
              PROVE  Finish(n, Begin \union {n}) \/ Finish(n, Begin)
          BY <4>2 DEF Answered
        <4> QED BY <2>9, <4>1, <4>2 DEF Relay, RelaySucceeds, RelayRefuses
      <3>3. Parted
        BY <3>2, FinishIs DEF NotesOK
      <3> QED BY <3>1, <3>3, <2>1 DEF NotesOK
    <2>10. CASE Process
      <3>1. Same
        BY <2>10 DEF Process
      <3>2. \/ batch' = batch /\ todo' = todo /\ done' = done
            \/ \E n \in todo : Finish(n, {n}) \/ Finish(n, {})
        BY <2>10 DEF Process, Unconfirmed, Throw
      <3>3. Parted
        BY <3>2, FinishIs DEF NotesOK
      <3> QED BY <3>1, <3>3, <2>1 DEF NotesOK
    <2>11. CASE Deposit
      <3>1. batch \subseteq batch' /\ batch' \subseteq batch \union {next} /\ done' = done /\ first' = first
            /\ (todo' = batch' \/ (batch' = batch /\ todo' = todo))
        BY <2>11 DEF Deposit, Advance, Failed, Throw
      <3>2. \/ /\ next' = next + 1 /\ next \in Notes
               /\ \/ landed' = landed \union {next} /\ flight' = flight
                  \/ flight' = flight \union {next} /\ landed' = landed
            \/ batch' = batch /\ next' = next /\ flight' = flight /\ landed' = landed
        BY <2>11 DEF Deposit, Failed, Throw
      <3>3. CASE batch' = batch /\ next' = next /\ flight' = flight /\ landed' = landed
        BY <3>1, <3>3, <2>1 DEF NotesOK
      <3>4. CASE /\ next' = next + 1 /\ next \in Notes
                 /\ \/ landed' = landed \union {next} /\ flight' = flight
                    \/ flight' = flight \union {next} /\ landed' = landed
        <4>1. /\ next \in 1..MaxNotes /\ next' - 1 = next /\ next' \in 1..(MaxNotes + 1)
              /\ next \notin 1..(next-1) /\ 1..(next-1) \union {next} \subseteq 1..next
          BY <3>4, NoteJournalAssumption DEF Notes
        <4>2. batch' \subseteq 1..next /\ flight' \subseteq 1..next /\ landed' \subseteq 1..next
          BY <3>1, <3>4, <4>1 DEF NotesOK
        <4>3. flight' \intersect landed' = {}
          BY <3>4, <4>1 DEF NotesOK
        <4>4. /\ todo' \subseteq batch' /\ done' \subseteq batch'
              /\ todo' = batch' \/ done' \intersect todo' = {}
          BY <3>1 DEF NotesOK
        <4>5. first' \in 1..next'
          BY <3>1, <3>4, <4>1 DEF NotesOK
        <4> QED BY <2>1, <4>1, <4>2, <4>3, <4>4, <4>5 DEF NotesOK
      <3> QED BY <3>2, <3>3, <3>4
    <2>12. CASE Create
      <3>1. /\ next' = next + Burst /\ first' = first /\ flight' = flight /\ landed' = landed
            /\ batch' = next..(next + Burst - 1) /\ todo' = batch' /\ done' = done /\ done = {}
            /\ next..(next + Burst - 1) \subseteq Notes
        BY <2>12, Before DEF Create, Advance
      <3>2. next + Burst - 1 \in Notes /\ Burst \in Nat /\ Burst > 0
        BY <3>1, NoteJournalAssumption DEF NotesOK
      <3> QED BY <3>1, <3>2, <2>1, NoteJournalAssumption DEF NotesOK, Notes
    <2>13. CASE Send
      <3>1. todo \intersect (flight \union landed) = {}
        BY <2>13, Before DEF Send
      <3>2. PICK n \in todo :
              /\ Finish(n, Begin \union {n}) \/ Finish(n, Begin)
              /\ \/ landed' = landed \union {n} /\ flight' = flight
                 \/ landed' = landed /\ flight' = flight
                 \/ flight' = flight \union {n} /\ landed' = landed
        BY <2>13 DEF Send
      <3>3. Parted /\ next' = next /\ first' = first
        BY <2>13, <3>2, FinishIs DEF Send
      <3> QED BY <3>1, <3>2, <3>3, <2>1 DEF NotesOK
    <2> QED BY <1>1, <2>2, <2>3, <2>4, <2>5, <2>6, <2>7, <2>8, <2>9, <2>10, <2>11, <2>12, <2>13 DEF Step
  <1>2. CASE Exit \/ Crash
    BY <1>2 DEF Exit, Crash, Stop, NotesOK, Running
  <1>3. CASE \E p \in Programs[script] : Start(p)
    <2>1. ~Running /\ first' = next /\ UNCHANGED <<next, flight, landed, batch, todo, done>>
      BY <1>3 DEF Start
    <2> QED BY <2>1 DEF NotesOK
  <1>4. CASE \/ \E dry, planned \in BOOLEAN : StartRecovery(dry, planned)
             \/ RecoverSkips \/ Recover \/ RecoveryEnds \/ RecoveryCrashes
             \/ \E n \in Notes, who \in {"script", "relayer", "recovery"} : Execute(n, who)
    <2>1. Same /\ UNCHANGED control
      BY <1>4 DEF StartRecovery, RecoverSkips, Recover, RecoveryEnds, RecoveryCrashes, Execute
    <2> QED BY <2>1 DEF NotesOK, Running
  <1>5. CASE \E n \in Notes : Land(n)
    <2>1. PICK n \in flight : flight' = flight \ {n} /\ landed' \in {landed, landed \union {n}}
      BY <1>5 DEF Land
    <2>2. UNCHANGED <<notes, control>>
      BY <1>5 DEF Land
    <2> QED BY <2>1, <2>2 DEF NotesOK, Running
  <1> QED BY <1>1, <1>2, <1>3, <1>4, <1>5 DEF Next, Recovery, Step

\* The notes of a scenario are notes that have been made.
LEMMA NotesAre ==
    ASSUME NotesOK
    PROVE  /\ next \in Nat /\ 1..(next - 1) \subseteq Notes /\ \A n \in 1..(next - 1) : ~ (n >= next)
           /\ batch \subseteq Notes /\ todo \subseteq Notes /\ done \subseteq Notes
           /\ todo \subseteq 1..(next - 1) /\ (todo # {} => Current \in todo)
  <1>1. next \in Nat /\ 1..(next - 1) \subseteq Notes /\ \A n \in 1..(next - 1) : ~ (n >= next)
    BY NoteJournalAssumption DEF NotesOK, Notes
  <1>2. todo \subseteq 1..(next - 1) /\ todo \subseteq Nat
    BY DEF NotesOK
  <1> QED BY <1>1, <1>2, Least DEF NotesOK, Current

\* What a withdrawal does to the chain.
LEMMA WithdrawIs ==
    ASSUME ChainOK, NEW n \in Notes, NEW who \in Payers, NEW out, Withdraw(n, who, out)
    PROVE  /\ spentBy' \in [Notes -> Payers] /\ pend' \subseteq Notes \X Payers
           /\ out \in {"ok", "used"} /\ who # "nobody" => spentBy'[n] # "nobody"
  <1>1. CASE out = "ok"
    <2>1. \/ spentBy' = spentBy /\ spentBy[n] # "nobody" /\ pend' = pend
          \/ spentBy' = [spentBy EXCEPT ![n] = who] /\ pend' = pend
      BY <1>1 DEF Withdraw
    <2> QED BY <2>1 DEF ChainOK
  <1>2. CASE out # "ok"
    BY <1>2 DEF ChainOK, Withdraw
  <1> QED BY <1>1, <1>2

\* The note a recovery comes to is one of its journal.
LEMMA RecoverIs ==
    ASSUME RecoveryOK, rec.todo # {}
    PROVE  Min(rec.todo) \in rec.todo /\ Min(rec.todo) \in Notes /\ Min(rec.todo) \in DOMAIN rec.copy
  <1>1. rec.todo \subseteq Notes /\ Notes \subseteq Nat
    BY DEF RecoveryOK, Recoveries, Notes
  <1>2. Min(rec.todo) \in rec.todo
    BY <1>1, Least
  <1> QED BY <1>1, <1>2 DEF RecoveryOK

\* What a recovery writes down of a note it passes over.
LEMMA SkipIs ==
    ASSUME RecoveryOK, RecoverSkips, NEW n, n = Min(rec.todo)
    PROVE  /\ Skipped(rec.copy[n]) # "none" /\ rec' \in Recoveries /\ rec'.on = rec.on
           /\ rec'.planned = rec.planned /\ rec'.dry = rec.dry /\ rec'.lost = rec.lost
           /\ rec'.todo = rec.todo \ {n} /\ rec'.copy = rec.copy
           /\ rec'.attempts[n] = Skipped(rec.copy[n])
           /\ \A m \in Notes : m # n => rec'.attempts[m] = rec.attempts[m]
  <1>1. n \in Notes /\ rec \in Recoveries
    BY RecoverIs DEF RecoverSkips, RecoveryOK
  <1>2. /\ Skipped(rec.copy[n]) # "none"
        /\ rec' = [rec EXCEPT !.todo = @ \ {n}, !.attempts[n] = Skipped(rec.copy[n])]
    BY DEF RecoverSkips
  <1>3. Skipped(rec.copy[n]) \in Attempts
    BY DEF Skipped, Attempts
  <1> QED BY <1>1, <1>2, <1>3 DEF Recoveries

\* A call of a recovery that is made again leaves its journal and its verdicts.
LEMMA RetryIs ==
    ASSUME RecoveryOK, NEW out, RecoverRetries(out)
    PROVE  /\ out \in {"error", "lost"} /\ rec' \in Recoveries /\ rec'.on = rec.on
           /\ rec'.planned = rec.planned /\ rec'.dry = rec.dry
           /\ rec'.todo = rec.todo /\ rec'.copy = rec.copy /\ rec'.attempts = rec.attempts
           /\ ~rec'.lost => ~rec.lost /\ out # "lost"
  <1> DEFINE lost  == rec.lost \/ out = "lost"
             again == rec.tries + 1
  <1>1. rec \in Recoveries /\ out \in {"error", "lost"}
    BY DEF RecoveryOK, RecoverRetries
  <1>2. rec' = [rec EXCEPT !.tries = again, !.lost = lost]
    BY <1>1 DEF RecoverRetries, Recoveries
  <1>3. again \in 0..Retries
    <2>1. rec.tries \in 0..Retries /\ rec.tries < Retries
      BY <1>1 DEF RecoverRetries, Recoveries
    <2> QED BY <2>1, NoteJournalAssumption
  <1>4. lost \in BOOLEAN /\ (~lost => ~rec.lost /\ out # "lost")
    OBVIOUS
  <1> HIDE DEF lost, again
  <1>5. rec' \in Recoveries /\ rec'.lost = lost
    BY <1>1, <1>2, <1>3, <1>4 DEF Recoveries
  <1>6. /\ rec'.planned = rec.planned /\ rec'.dry = rec.dry /\ rec'.on = rec.on
        /\ rec'.todo = rec.todo /\ rec'.copy = rec.copy /\ rec'.attempts = rec.attempts
    BY <1>1, <1>2 DEF Recoveries
  <1> QED BY <1>1, <1>4, <1>5, <1>6

\* What a recovery writes down of a note it has tried to withdraw.
LEMMA SettleIs ==
    ASSUME RecoveryOK, rec.todo # {}, NEW n, NEW out, n = Min(rec.todo), RecoverSettles(n, out)
    PROVE  /\ rec' \in Recoveries /\ rec'.on = rec.on
           /\ rec'.planned = rec.planned /\ rec'.dry = rec.dry
           /\ rec'.todo = rec.todo \ {n} /\ DOMAIN rec'.copy = DOMAIN rec.copy
           /\ out \in {"ok", "used"} => rec'.copy[n] = [state |-> "confirmed", withdrawn |-> TRUE]
           /\ out \notin {"ok", "used"} => rec'.copy = rec.copy
           /\ \A m \in DOMAIN rec.copy : m # n => rec'.copy[m] = rec.copy[m]
           /\ out = "ok" => rec'.attempts[n] = "recovered"
           /\ out = "used" => rec'.attempts[n] = "already-withdrawn"
           /\ out \notin {"ok", "used"} => rec'.attempts[n] = "failed"
           /\ \A m \in Notes : m # n => rec'.attempts[m] = rec.attempts[m]
           /\ ~rec'.lost => ~rec.lost /\ out # "lost"
  <1> DEFINE verdict == CASE out = "ok" -> "recovered" [] out = "used" -> "already-withdrawn" [] OTHER -> "failed"
             copy    == IF out \in {"ok", "used"} THEN SetWithdrawn(rec.copy, {n}) ELSE rec.copy
             lost    == rec.lost \/ out = "lost"
             left    == rec.todo \ {n}
             found   == [rec.attempts EXCEPT ![n] = verdict]
  <1>1. n \in Notes /\ n \in DOMAIN rec.copy /\ rec \in Recoveries /\ rec.copy \in Journals
    BY RecoverIs DEF RecoveryOK, Recoveries
  <1>2. lost \in BOOLEAN /\ (~lost => ~rec.lost /\ out # "lost")
    OBVIOUS
  <1>3. rec' = [rec EXCEPT !.todo = @ \ {n}, !.tries = 0, !.lost = lost, !.attempts[n] = verdict, !.copy = copy]
    BY <1>1 DEF RecoverSettles, Recoveries
  <1>4. verdict \in Attempts
    BY DEF Attempts
  <1>5. copy \in Journals /\ DOMAIN copy = DOMAIN rec.copy
    BY <1>1, JournalMarked
  <1>6. \A m \in DOMAIN rec.copy : m # n => copy[m] = rec.copy[m]
    BY DEF SetWithdrawn
  <1>7. /\ out \in {"ok", "used"} => copy[n] = [state |-> "confirmed", withdrawn |-> TRUE]
        /\ out \notin {"ok", "used"} => copy = rec.copy
    BY <1>1 DEF SetWithdrawn
  <1>8. /\ out = "ok" => verdict = "recovered"
        /\ out = "used" => verdict = "already-withdrawn"
        /\ out \notin {"ok", "used"} => verdict = "failed"
    OBVIOUS
  <1> HIDE DEF verdict, copy, lost
  <1>9. rec' = [rec EXCEPT !.todo = left, !.tries = 0, !.lost = lost, !.attempts = found, !.copy = copy]
    BY <1>1, <1>3 DEF Recoveries
  <1>10. /\ found \in [Notes -> Attempts] /\ found[n] = verdict
         /\ \A m \in Notes : m # n => found[m] = rec.attempts[m]
    BY <1>1, <1>4 DEF Recoveries
  <1>11. left \in SUBSET Notes /\ 0 \in 0..Retries
    BY <1>1, NoteJournalAssumption DEF Recoveries
  <1> HIDE DEF found
  <1>12. rec' \in Recoveries /\ rec'.attempts = found /\ rec'.lost = lost
    <2> HIDE DEF left
    <2> QED BY <1>1, <1>2, <1>5, <1>9, <1>10, <1>11 DEF Recoveries
  <1>13. /\ rec'.todo = left /\ rec'.copy = copy /\ rec'.on = rec.on
         /\ rec'.planned = rec.planned /\ rec'.dry = rec.dry
    BY <1>1, <1>9 DEF Recoveries
  <1> QED BY <1>2, <1>5, <1>6, <1>7, <1>8, <1>10, <1>12, <1>13

\* The part on the chain and the answers of the relayer.
LEMMA ChainKept ==
    ASSUME NotesOK, ChainOK, RecoveryOK, Next
    PROVE  ChainOK'
  <1> USE DEF chain, notes, relayed
  <1>1. todo \subseteq Notes /\ (todo # {} => Current \in todo)
    BY NotesAre
  <1>2. {"script", "relayer", "recovery"} \subseteq Payers
    BY DEF Payers
  <1>3. spentBy' \in [Notes -> Payers] /\ pend' \subseteq Notes \X Payers
    <2>1. CASE Persist \/ Open \/ Load \/ Reuse \/ Await \/ Check \/ Plan \/ RecordNote \/ Deposited
               \/ Create \/ Nothing \/ Settle \/ Mark \/ Unresolved \/ Halt \/ Ensure \/ NextScenario \/ Exit
      BY <2>1 DEF Persist, Open, Load, Reuse, Await, Check, Plan, RecordNote, Deposited, Create, Nothing,
                  Settle, Mark, Unresolved, Halt, Ensure, NextScenario, Exit, Stop, ChainOK
    <2>2. CASE Deposit \/ Send
      BY <2>2 DEF Deposit, Send, ChainOK
    <2>3. CASE WithdrawNote \/ WithdrawEach \/ RescueNote
      <3>1. PICK n \in todo, out \in Outcomes : Withdraw(n, "script", out)
        BY <1>1, <2>3 DEF WithdrawNote, WithdrawEach, RescueNote
      <3> QED BY <1>1, <1>2, <3>1, WithdrawIs
    <2>4. CASE Relay
      BY <1>1, <1>2, <2>4 DEF Relay, RelaySucceeds, RelayRefuses, Takes, ChainOK
    <2>5. CASE Process
      BY <1>1, <1>2, <2>5 DEF Process, ChainOK
    <2>6. CASE Recover
      <3>1. PICK out : Withdraw(Min(rec.todo), "recovery", out)
        BY <2>6 DEF Recover
      <3>2. Min(rec.todo) \in Notes
        BY <2>6, RecoverIs DEF Recover
      <3> QED BY <1>2, <3>1, <3>2, WithdrawIs
    <2>7. CASE Crash \/ (\E p \in Programs[script] : Start(p)) \/ RecoverSkips \/ RecoveryEnds \/ RecoveryCrashes
               \/ (\E dry, planned \in BOOLEAN : StartRecovery(dry, planned)) \/ (\E n \in Notes : Land(n))
      BY <2>7 DEF Crash, Stop, Start, StartRecovery, RecoverSkips, RecoveryEnds, RecoveryCrashes, Land, ChainOK
    <2>8. CASE \E n \in Notes, who \in {"script", "relayer", "recovery"} : Execute(n, who)
      BY <1>2, <2>8 DEF Execute, ChainOK
    <2> QED BY <2>1, <2>2, <2>3, <2>4, <2>5, <2>6, <2>7, <2>8 DEF Next, Step, Recovery
  <1>4. \A n \in Notes : spentBy[n] = "relayer" => spentBy'[n] = "relayer"
    BY SpentGrows
  <1>5. CASE \/ Persist \/ Open \/ Load \/ Reuse \/ Await \/ Check \/ Plan \/ RecordNote \/ Deposited
             \/ Nothing \/ Settle \/ Mark \/ Unresolved \/ Halt \/ Ensure \/ NextScenario \/ Exit \/ Send
             \/ WithdrawNote \/ WithdrawEach \/ RescueNote \/ Process
             \/ Crash \/ RecoverSkips \/ Recover \/ RecoveryEnds \/ RecoveryCrashes
             \/ (\E dry, planned \in BOOLEAN : StartRecovery(dry, planned)) \/ (\E n \in Notes : Land(n))
             \/ (\E n \in Notes, who \in {"script", "relayer", "recovery"} : Execute(n, who))
    <2>1. answer' = answer /\ next' = next
      BY <1>5 DEF Persist, Open, Load, Reuse, Await, Check, Plan, RecordNote, Deposited, Nothing,
                  Settle, Mark, Unresolved, Halt, Ensure, NextScenario, Exit, Stop, Send,
                  WithdrawNote, WithdrawEach, RescueNote, Process, Crash, RecoverSkips, Recover,
                  RecoveryEnds, RecoveryCrashes, StartRecovery, Land, Execute
    <2> QED BY <1>3, <1>4, <2>1 DEF ChainOK
  <1>6. CASE Deposit \/ Create
    <2>1. answer' = answer /\ (next' = next \/ next' = next + 1 \/ next' = next + Burst)
      BY <1>6 DEF Deposit, Create
    <2>2. \A n \in Notes : n >= next' => n >= next
      BY <2>1, NotesAre, NoteJournalAssumption DEF Notes
    <2> QED BY <1>3, <1>4, <2>1, <2>2 DEF ChainOK
  <1>7. CASE \E p \in Programs[script] : Start(p)
    BY <1>3, <1>7 DEF Start, ChainOK, Statuses
  <1>8. CASE Relay
    <2>1. next' = next
      BY <1>8 DEF Relay
    <2>2. \A n \in todo : ~ (n >= next)
      BY NotesAre
    <2>3. \A n \in Notes : answer[n] = 200 => spentBy'[n] = "relayer"
      BY <1>4 DEF ChainOK
    <2>4. ASSUME NEW kind, Unanswered(kind) PROVE ChainOK'
      <3>1. \A n \in Notes : answer'[n] = answer[n] \/ answer'[n] = 0
        BY <2>4 DEF Unanswered, ChainOK
      <3>2. answer' \in [Notes -> Statuses]
        BY <2>4 DEF Unanswered, ChainOK, Statuses
      <3> QED BY <1>3, <2>1, <2>3, <3>1, <3>2 DEF ChainOK
    <2>5. ASSUME NEW n \in todo, NEW status \in Statuses, Answered(n, status),
                 status = 200 => spentBy'[n] = "relayer"
          PROVE  ChainOK'
      <3>1. answer' = [answer EXCEPT ![n] = status]
        BY <2>5 DEF Answered
      <3> QED BY <1>1, <1>3, <2>1, <2>2, <2>3, <2>5, <3>1 DEF ChainOK
    <2>6. \/ \E n \in todo : \/ RelaySucceeds(n) \/ RelayRefuses(n) \/ Answered(n, 502)
          \/ \E kind : Unanswered(kind)
      BY <1>8 DEF Relay
    <2>7. ASSUME NEW n \in todo, RelaySucceeds(n) PROVE ChainOK'
      <3>1. spentBy'[n] = "relayer"
        BY <1>1, <2>7 DEF RelaySucceeds, ChainOK
      <3> QED BY <2>5, <2>7, <3>1 DEF RelaySucceeds, Statuses
    <2>8. ASSUME NEW n \in todo, RelayRefuses(n) PROVE ChainOK'
      BY <2>5, <2>8 DEF RelayRefuses, Statuses
    <2>9. ASSUME NEW n \in todo, Answered(n, 502) PROVE ChainOK'
      BY <2>5, <2>9 DEF Statuses
    <2> QED BY <2>4, <2>6, <2>7, <2>8, <2>9
  <1> QED BY <1>5, <1>6, <1>7, <1>8 DEF Next, Step, Recovery

\* A step that leaves the file and adds to what the script remembers.
LEMMA MemoryGrows ==
    ASSUME ControlOK, JournalsOK, Step, ~Exit, Op \notin {"none", "load"},
           file' = file, mem' \in Journals, DOMAIN mem \subseteq DOMAIN mem', DOMAIN mem' \subseteq 1..(next' - 1),
           DOMAIN file \subseteq 1..(next' - 1),
           batch' \intersect DOMAIN file \subseteq DOMAIN mem', DOMAIN mem' \intersect DOMAIN file \subseteq DOMAIN mem,
           \A n \in DOMAIN mem : mem[n].withdrawn => mem'[n].withdrawn,
           script \in Loose => mem' = mem
    PROVE  JournalsOK'
  <1>1. Running /\ Running' /\ script' = script /\ prog' = prog /\ first' = first
    BY Moves, RunsOn
  <1>2. pc = 1 => prog[1] # "load"
    BY AtStep
  <1>3. \A n \in DOMAIN file : n \notin DOMAIN mem => n < first /\ prog[1] # "load"
    BY <1>1, <1>2 DEF JournalsOK
  <1> QED BY <1>1, <1>3 DEF JournalsOK

\* The part on the two journals.
LEMMA JournalsKept ==
    ASSUME ControlOK, StageOK, NotesOK, JournalsOK, RecoveryOK, Next
    PROVE  JournalsOK'
  <1> USE DEF fixed, control, rescue, chain, notes, journal
  <1>a. next \in Nat /\ 1..(next - 1) \subseteq Notes /\ \A n \in 1..(next - 1) : ~ (n >= next)
    BY NotesAre
  <1>b. /\ mem \in Journals /\ DOMAIN mem \subseteq 1..(next - 1)
        /\ file \in Journals /\ DOMAIN file \subseteq 1..(next - 1)
        /\ batch \intersect DOMAIN file \subseteq DOMAIN mem
        /\ batch \subseteq 1..(next - 1) /\ done \subseteq batch
    BY DEF JournalsOK, NotesOK
  <1>1. CASE Step /\ ~Exit
    <2>1. Running /\ Running' /\ script' = script /\ prog' = prog /\ first' = first
      BY <1>1, Moves, RunsOn
    <2>2. CASE Persist
      <3>1. file' = mem /\ mem' = mem /\ next' = next /\ script \notin Loose
        BY <2>2, Before DEF Persist
      <3> QED BY <1>b, <2>1, <3>1 DEF JournalsOK
    <2>3. CASE Open
      <3>1. file' = Empty /\ mem' = Empty /\ next' = next /\ script \notin Loose
        BY <2>3, Before DEF Open
      <3> QED BY <2>1, <3>1, EmptyIs DEF JournalsOK
    <2>4. CASE Load
      <3>1. file' = file /\ mem' = file /\ next' = next /\ script \notin Loose
        BY <2>4, Before DEF Load
      <3> QED BY <1>b, <2>1, <3>1 DEF JournalsOK
    <2>5. CASE Await \/ Check \/ Halt \/ Ensure \/ Nothing \/ NextScenario \/ Send
               \/ WithdrawNote \/ WithdrawEach \/ Relay \/ Process
      <3>1. /\ UNCHANGED <<journal, next>> /\ Op \notin {"none", "load"}
        BY <2>5 DEF Await, Check, Halt, Ensure, Nothing, NextScenario, Send, WithdrawNote, WithdrawEach, Relay, Process
      <3>2. batch' = batch \/ batch' = {}
        <4>1. CASE WithdrawNote
          BY <4>1 DEF WithdrawNote, Finish, Failed, Throw
        <4>2. CASE Relay
          BY <4>2 DEF Relay, RelaySucceeds, RelayRefuses, Answered, Unanswered, Failed, Finish, Throw
        <4> QED BY <2>5, <4>1, <4>2 DEF Await, Check, Halt, Ensure, Nothing, NextScenario, Send,
                    WithdrawEach, Process, Unconfirmed, Advance, Finish, Throw
      <3> QED BY <1>1, <1>b, <3>1, <3>2, MemoryGrows
    <2>6. CASE Reuse \/ Unresolved
      <3>1. UNCHANGED <<journal, next>> /\ Op \notin {"none", "load"}
        BY <2>6 DEF Reuse, Unresolved
      <3>2. batch' = batch \/ batch' \subseteq DOMAIN mem
        BY <2>6, ReuseIs DEF Unresolved, Advance
      <3> QED BY <1>1, <1>b, <3>1, <3>2, MemoryGrows
    <2>7. CASE Deposit
      <3>1. UNCHANGED journal /\ Op \notin {"none", "load"} /\ (next' = next \/ next' = next + 1)
        BY <2>7 DEF Deposit
      <3>2. batch' \subseteq batch \union {next}
        BY <2>7 DEF Deposit, Advance, Failed, Throw
      <3>3. next \notin DOMAIN file /\ 1..(next - 1) \subseteq 1..(next' - 1)
        BY <1>a, <1>b, <3>1
      <3> QED BY <1>1, <1>b, <3>1, <3>2, <3>3, MemoryGrows
    <2>8. CASE Plan \/ RecordNote
      <3>1. PICK s \in {"planned", "confirmed"} : Upsert(batch \ DOMAIN mem, s)
        BY <2>8 DEF Plan, RecordNote
      <3> DEFINE new == batch \ DOMAIN mem
      <3>2. mem' = [n \in new \union DOMAIN mem |-> IF n \in new THEN Record(s) ELSE mem[n]]
        BY <3>1 DEF Upsert
      <3>3. UNCHANGED <<file, next>> /\ Op \notin {"none", "load"} /\ script \notin Loose /\ batch' = batch
        BY <2>8, Before DEF Plan, RecordNote, Advance
      <3>4. new \in SUBSET Notes /\ new \intersect DOMAIN file = {} /\ new \subseteq 1..(next - 1)
        BY <1>a, <1>b
      <3> HIDE DEF new
      <3>5. mem' \in Journals
        <4>1. s \in {"planned", "confirmed", "failed"} /\ mem \in Journals
          BY <1>b
        <4> QED BY <3>2, <3>4, <4>1, JournalAdded
      <3>6. DOMAIN mem' = new \union DOMAIN mem /\ \A n \in DOMAIN mem : mem[n].withdrawn => n \in new \/ mem'[n].withdrawn
        BY <3>2
      <3>7. \A n \in DOMAIN mem : n \notin new
        BY DEF new
      <3> QED BY <1>1, <1>b, <3>3, <3>4, <3>5, <3>6, <3>7, MemoryGrows
    <2>9. CASE Create
      <3> DEFINE new == next..(next + Burst - 1)
      <3>1. /\ file' = file /\ next' = next + Burst /\ Op \notin {"none", "load"} /\ script \notin Loose
            /\ batch' = new /\ new \subseteq Notes
        BY <2>9, Before DEF Create, Advance
      <3>2. mem' = [n \in new \union DOMAIN mem |-> IF n \in new THEN Record("planned") ELSE mem[n]]
        BY <2>9 DEF Create, Upsert
      <3>3. /\ new \intersect DOMAIN file = {} /\ new \intersect DOMAIN mem = {}
            /\ new \subseteq 1..(next' - 1) /\ 1..(next - 1) \subseteq 1..(next' - 1)
        <4>1. next \in 1..(MaxNotes + 1)
          BY DEF NotesOK
        <4> QED BY <1>a, <1>b, <3>1, <4>1, NoteJournalAssumption
      <3> HIDE DEF new
      <3>4. mem' \in Journals
        BY <1>b, <3>1, <3>2, JournalAdded
      <3>5. DOMAIN mem' = new \union DOMAIN mem /\ \A n \in DOMAIN mem : mem[n].withdrawn => mem'[n].withdrawn
        BY <3>2, <3>3
      <3> QED BY <1>1, <1>b, <3>1, <3>3, <3>4, <3>5, MemoryGrows
    <2>10. CASE Deposited \/ Settle
      <3>1. /\ UNCHANGED <<file, next>> /\ Op \notin {"none", "load"} /\ script \notin Loose /\ batch' \subseteq batch
        BY <1>b, <2>10, Before DEF Deposited, Settle, Advance
      <3>2. DOMAIN mem' = DOMAIN mem /\ \A n \in DOMAIN mem : mem'[n] = mem[n] \/
                \E s \in {"planned", "confirmed", "failed"} : mem'[n] = [mem[n] EXCEPT !.state = s]
        BY <2>10 DEF Deposited, Settle, SetState
      <3>3. mem' = [n \in DOMAIN mem |-> mem'[n]]
        BY <2>10 DEF Deposited, Settle, SetState
      <3>4. DOMAIN mem \subseteq Notes /\ \A n \in DOMAIN mem : mem[n] \in NoteRecords
        BY <1>b, JournalIs
      <3>5. \A n \in DOMAIN mem : mem'[n] \in NoteRecords /\ mem'[n].withdrawn = mem[n].withdrawn
        BY <3>2, <3>4 DEF NoteRecords
      <3>6. mem' \in Journals
        BY <3>2, <3>3, <3>4, <3>5, JournalIs
      <3> QED BY <1>1, <1>b, <3>1, <3>2, <3>5, <3>6, MemoryGrows
    <2>11. CASE Mark \/ RescueNote
      <3>1. UNCHANGED <<file, next>> /\ Op \notin {"none", "load"} /\ script \notin Loose /\ batch' = batch
        BY <2>11, Before DEF Mark, RescueNote, Advance, Finish
      <3>2. mem' = mem \/ mem' = SetWithdrawn(mem, done) \/ (Current \in Notes /\ mem' = SetWithdrawn(mem, {Current}))
        BY <2>11, NotesAre DEF Mark, RescueNote
      <3>3. mem' = mem \/ \E ns \in SUBSET Notes : mem' = SetWithdrawn(mem, ns)
        BY <3>2, NotesAre
      <3>4. mem' \in Journals /\ DOMAIN mem' = DOMAIN mem /\ \A n \in DOMAIN mem : mem[n].withdrawn => mem'[n].withdrawn
        <4>1. CASE mem' = mem
          BY <1>b, <4>1
        <4>2. ASSUME NEW ns \in SUBSET Notes, mem' = SetWithdrawn(mem, ns)
              PROVE  /\ mem' \in Journals /\ DOMAIN mem' = DOMAIN mem
                     /\ \A n \in DOMAIN mem : mem[n].withdrawn => mem'[n].withdrawn
          <5>1. /\ SetWithdrawn(mem, ns) \in Journals /\ DOMAIN SetWithdrawn(mem, ns) = DOMAIN mem
                /\ \A n \in DOMAIN mem : mem[n].withdrawn => SetWithdrawn(mem, ns)[n].withdrawn
            BY <1>b, JournalMarked, Zenon
          <5> QED BY <4>2, <5>1
        <4> QED BY <3>3, <4>1, <4>2
      <3> QED BY <1>1, <1>b, <3>1, <3>4, MemoryGrows
    <2> QED BY <1>1, <2>2, <2>3, <2>4, <2>5, <2>6, <2>7, <2>8, <2>9, <2>10, <2>11 DEF Step
  <1>2. CASE Exit \/ Crash
    <2>1. /\ mem' = Empty /\ file' = file /\ next' = next /\ script' = script /\ batch' = {} /\ ~Running'
      BY <1>2 DEF Exit, Crash, Stop, Running
    <2> QED BY <1>b, <2>1, EmptyIs DEF JournalsOK
  <1>3. CASE \E p \in Programs[script] : Start(p)
    <2>1. /\ ~Running /\ first' = next /\ pc' = 1
          /\ UNCHANGED <<mem, file, next, batch, script>>
      BY <1>3 DEF Start
    <2>2. Running' /\ mem = Empty
      BY <2>1 DEF Running, JournalsOK
    <2>3. \A n \in DOMAIN file : n < next
      BY <1>a, <1>b
    <2> QED BY <1>b, <2>1, <2>2, <2>3, EmptyIs DEF JournalsOK
  <1>4. CASE RecoveryEnds
    <2>1. UNCHANGED <<mem, next, batch, script, pc, prog, first>> /\ (file' = file \/ file' = rec.copy) /\ rec.on
      BY <1>4 DEF RecoveryEnds
    <2>2. /\ ~Running /\ DOMAIN rec.copy = DOMAIN file /\ rec.copy \in Journals /\ script \notin Loose
      BY <2>1 DEF RecoveryOK, Recoveries, Keeping, Loose
    <2>3. ~Running'
      BY <2>1, <2>2 DEF Running
    <2> QED BY <1>b, <2>1, <2>2, <2>3 DEF JournalsOK
  <1>5. CASE \/ \E dry, planned \in BOOLEAN : StartRecovery(dry, planned)
             \/ RecoverSkips \/ Recover \/ RecoveryCrashes
             \/ \E n \in Notes : Land(n) \/ \E who \in {"script", "relayer", "recovery"} : Execute(n, who)
    <2>1. UNCHANGED <<journal, next, batch, script, pc, prog, first>>
      BY <1>5 DEF StartRecovery, RecoverSkips, Recover, RecoveryCrashes, Land, Execute
    <2> QED BY <2>1 DEF JournalsOK, Running
  <1> QED BY <1>1, <1>2, <1>3, <1>4, <1>5 DEF Next, Recovery, Step

\* The part on the marks of the journals.
LEMMA MarksKept ==
    ASSUME ControlOK, StageOK, NotesOK, ChainOK, JournalsOK, RecoveryOK, WithdrawnIsSpent, Next
    PROVE  WithdrawnIsSpent'
  <1> USE DEF fixed, control, rescue, chain, notes, journal
  <1> DEFINE Marked(f) == \A n \in DOMAIN f : f[n].withdrawn => spentBy'[n] # "nobody"
  <1>1. Marked(mem) /\ Marked(file) /\ Marked(rec.copy) /\ Marked(Empty)
    <2>1. DOMAIN mem \subseteq Notes /\ DOMAIN file \subseteq Notes /\ DOMAIN rec.copy \subseteq Notes
      BY JournalIs DEF JournalsOK, RecoveryOK, Recoveries
    <2>2. Marked(Empty)
      BY EmptyIs
    <2>3. \A n \in Notes : spentBy[n] # "nobody" => spentBy'[n] = spentBy[n]
      BY SpentGrows
    <2> QED BY <2>1, <2>2, <2>3 DEF WithdrawnIsSpent
  <1>2. ASSUME NEW f \in {mem, rec.copy}, NEW ns \in SUBSET Notes, \A n \in ns : spentBy'[n] # "nobody"
        PROVE  Marked(SetWithdrawn(f, ns))
    <2>1. f \in Journals
      BY <1>2 DEF JournalsOK, RecoveryOK, Recoveries
    <2>2. Marked(f)
      BY <1>1, <1>2
    <2>3. \A n \in DOMAIN SetWithdrawn(f, ns) : n \in DOMAIN f
      BY DEF SetWithdrawn
    <2>4. \A n \in DOMAIN f : SetWithdrawn(f, ns)[n].withdrawn => f[n].withdrawn \/ n \in ns
      BY <2>1, JournalMarked
    <2> QED BY <1>2, <2>2, <2>3, <2>4
  <1>3. Marked(mem')
    <2>1. CASE Persist \/ Reuse \/ Deposit \/ Await \/ Check \/ Nothing \/ Send \/ WithdrawNote \/ WithdrawEach
               \/ Unresolved \/ Relay \/ Process \/ Halt \/ Ensure \/ NextScenario
               \/ (\E p \in Programs[script] : Start(p)) \/ RecoverSkips \/ Recover \/ RecoveryEnds \/ RecoveryCrashes
               \/ (\E dry, planned \in BOOLEAN : StartRecovery(dry, planned)) \/ (\E n \in Notes : Land(n))
               \/ (\E n \in Notes, who \in {"script", "relayer", "recovery"} : Execute(n, who))
      <3>1. mem' = mem
        BY <2>1 DEF Persist, Reuse, Deposit, Await, Check, Nothing, Send, WithdrawNote, WithdrawEach,
                    Unresolved, Relay, Process, Halt, Ensure, NextScenario, Start, RecoverSkips, Recover,
                    RecoveryEnds, RecoveryCrashes, StartRecovery, Land, Execute
      <3> QED BY <1>1, <3>1
    <2>2. CASE Open \/ Load \/ Exit \/ Crash
      <3>1. mem' = Empty \/ mem' = file
        BY <2>2 DEF Open, Load, Exit, Crash, Stop
      <3> QED BY <1>1, <3>1
    <2>3. CASE Plan \/ RecordNote \/ Create
      <3>1. PICK ns, s : mem' = [n \in ns \union DOMAIN mem |-> IF n \in ns THEN Record(s) ELSE mem[n]]
        BY <2>3 DEF Plan, RecordNote, Create, Upsert
      <3>2. \A n \in DOMAIN mem' : mem'[n].withdrawn => n \in DOMAIN mem /\ mem[n].withdrawn
        BY <3>1 DEF Record
      <3> QED BY <1>1, <3>2
    <2>4. CASE Deposited \/ Settle
      <3>1. DOMAIN mem' = DOMAIN mem /\ \A n \in DOMAIN mem : mem'[n] = mem[n] \/
                \E s \in {"planned", "confirmed", "failed"} : mem'[n] = [mem[n] EXCEPT !.state = s]
        BY <2>4 DEF Deposited, Settle, SetState
      <3>2. \A n \in DOMAIN mem : mem[n] \in NoteRecords
        BY JournalIs DEF JournalsOK
      <3>3. \A n \in DOMAIN mem : mem'[n].withdrawn = mem[n].withdrawn
        BY <3>1, <3>2 DEF NoteRecords
      <3> QED BY <1>1, <3>1, <3>3
    <2>5. CASE Mark
      <3>1. mem' = SetWithdrawn(mem, done) /\ done \subseteq Spent
        BY <2>5, Before DEF Mark
      <3>2. \A n \in done : spentBy'[n] # "nobody"
        BY <3>1, SpentGrows DEF Spent
      <3> QED BY <1>2, <3>1, <3>2, NotesAre
    <2>6. CASE RescueNote
      <3>1. PICK out : Withdraw(Current, "script", out) /\ mem' = IF out = "ok" THEN SetWithdrawn(mem, {Current}) ELSE mem
        BY <2>6 DEF RescueNote
      <3>2. Current \in Notes
        BY <2>6, NotesAre DEF RescueNote
      <3>3. out = "ok" => spentBy'[Current] # "nobody"
        BY <3>1, <3>2, WithdrawIs DEF Payers
      <3>4. CASE out = "ok"
        BY <1>2, <3>1, <3>2, <3>3, <3>4
      <3>5. CASE out # "ok"
        BY <1>1, <3>1, <3>5
      <3> QED BY <3>4, <3>5
    <2> QED BY <2>1, <2>2, <2>3, <2>4, <2>5, <2>6 DEF Next, Step, Recovery
  <1>4. Marked(file')
    <2>1. CASE Step \/ Crash \/ (\E p \in Programs[script] : Start(p))
      <3>1. file' = file \/ file' = mem \/ file' = Empty
        BY <2>1 DEF Step, Crash, Start, Persist, Open, Load, Reuse, Deposit, Await, Check, Plan, RecordNote, Deposited,
                    Create, Nothing, Send, Settle, WithdrawNote, WithdrawEach, Mark, Unresolved, RescueNote, Relay,
                    Process, Halt, Ensure, NextScenario, Exit, Stop
      <3> QED BY <1>1, <3>1
    <2>2. CASE RecoverSkips \/ Recover \/ RecoveryEnds \/ RecoveryCrashes
               \/ (\E dry, planned \in BOOLEAN : StartRecovery(dry, planned)) \/ (\E n \in Notes : Land(n))
               \/ (\E n \in Notes, who \in {"script", "relayer", "recovery"} : Execute(n, who))
      <3>1. file' = file \/ file' = rec.copy
        BY <2>2 DEF RecoverSkips, Recover, RecoveryEnds, RecoveryCrashes, StartRecovery, Land, Execute
      <3> QED BY <1>1, <3>1
    <2> QED BY <2>1, <2>2 DEF Next, Recovery
  <1>5. Marked(rec.copy')
    <2>1. CASE Step \/ Crash \/ (\E p \in Programs[script] : Start(p)) \/ (\E n \in Notes : Land(n))
               \/ (\E n \in Notes, who \in {"script", "relayer", "recovery"} : Execute(n, who))
      <3>1. rec' = rec
        <4>1. Step => rec' = rec
          BY Moves
        <4> QED BY <2>1, <4>1 DEF Crash, Stop, Start, Land, Execute
      <3> QED BY <1>1, <3>1
    <2>2. CASE RecoverSkips \/ RecoveryEnds \/ RecoveryCrashes
               \/ (\E dry, planned \in BOOLEAN : StartRecovery(dry, planned))
      <3>1. rec.copy' = rec.copy \/ rec.copy' = Empty \/ rec.copy' = file
        <4>1. CASE RecoverSkips
          BY <4>1 DEF RecoverSkips, RecoveryOK, Recoveries
        <4>2. CASE RecoveryEnds \/ RecoveryCrashes
          BY <4>2, IdleIs DEF RecoveryEnds, RecoveryCrashes
        <4>3. CASE \E dry, planned \in BOOLEAN : StartRecovery(dry, planned)
          BY <4>3 DEF StartRecovery, Idle
        <4> QED BY <2>2, <4>1, <4>2, <4>3
      <3> QED BY <1>1, <3>1
    <2>3. CASE Recover
      <3> DEFINE n == Min(rec.todo)
      <3>1. n \in Notes
        BY <2>3, RecoverIs DEF Recover
      <3>2. PICK out : Withdraw(n, "recovery", out) /\ (RecoverRetries(out) \/ RecoverSettles(n, out))
        BY <2>3 DEF Recover
      <3> HIDE DEF n
      <3>3. \/ rec.copy' = rec.copy
            \/ out \in {"ok", "used"} /\ rec.copy' = SetWithdrawn(rec.copy, {n})
        BY <3>2 DEF RecoverRetries, RecoverSettles, RecoveryOK, Recoveries
      <3>4. out \in {"ok", "used"} => spentBy'[n] # "nobody"
        BY <3>1, <3>2, WithdrawIs DEF Payers
      <3>5. CASE rec.copy' = rec.copy
        BY <1>1, <3>5
      <3>6. CASE out \in {"ok", "used"} /\ rec.copy' = SetWithdrawn(rec.copy, {n})
        BY <1>2, <3>1, <3>4, <3>6
      <3> QED BY <3>3, <3>5, <3>6
    <2> QED BY <2>1, <2>2, <2>3 DEF Next, Recovery
  <1> QED BY <1>3, <1>4, <1>5 DEF WithdrawnIsSpent

\* The part on the recovery script.
LEMMA RecoveryKept ==
    ASSUME ControlOK, ChainOK, JournalsOK, RecoveryOK, WithdrawnIsSpent, Next
    PROVE  RecoveryOK'
  <1> USE DEF fixed, control, rescue, chain, notes, journal
  <1>1. \A n \in Notes : spentBy'[n] = "nobody" => spentBy[n] = "nobody"
    BY SpentGrows
  <1>2. CASE Step \/ Crash \/ \E p \in Programs[script] : Start(p)
    <2>1. rec' = rec /\ ~rec.on
      <3>1. Step => Running /\ rec' = rec
        BY Moves
      <3> QED BY <1>2, <3>1 DEF Crash, Stop, Start, RecoveryOK
    <2> QED BY <2>1 DEF RecoveryOK
  <1>3. CASE \/ \E n \in Notes : Land(n)
             \/ \E n \in Notes, who \in {"script", "relayer", "recovery"} : Execute(n, who)
    <2>1. UNCHANGED <<rec, journal, control, fixed, recoveries>>
      BY <1>3 DEF Land, Execute
    <2>2. DOMAIN rec.copy \subseteq Notes
      BY JournalIs DEF RecoveryOK, Recoveries
    <2> QED BY <1>1, <2>1, <2>2 DEF RecoveryOK, Running
  <1>4. CASE RecoveryEnds \/ RecoveryCrashes
    <2>1. rec' = Idle
      BY <1>4 DEF RecoveryEnds, RecoveryCrashes
    <2> QED BY <2>1, IdleIs, EmptyIs DEF RecoveryOK
  <1>5. ASSUME NEW dry \in BOOLEAN, NEW planned \in BOOLEAN, StartRecovery(dry, planned)
        PROVE  RecoveryOK'
    <2>1. /\ rec' = [Idle EXCEPT !.on = TRUE, !.todo = DOMAIN file, !.copy = file, !.dry = dry, !.planned = planned]
          /\ ~Running /\ script \in Keeping /\ recoveries' = recoveries + 1 /\ recoveries \in Nat
          /\ UNCHANGED <<file, pc, script>>
      BY <1>5 DEF StartRecovery, ControlOK
    <2>2. file \in Journals /\ DOMAIN file \in SUBSET Notes
      BY JournalIs DEF JournalsOK
    <2>3. rec' \in Recoveries /\ rec'.on /\ rec'.todo = DOMAIN file /\ rec'.copy = file
      BY <2>1, <2>2, IdleIs DEF Recoveries
    <2> QED BY <2>1, <2>3 DEF RecoveryOK, Running
  <1>6. CASE RecoverSkips \/ Recover
    <2>1. PICK n \in rec.todo : n = Min(rec.todo) /\ n \in Notes /\ n \in DOMAIN rec.copy /\ rec.on
      BY <1>6, RecoverIs DEF RecoverSkips, Recover
    <2>2. rec \in Recoveries /\ rec.copy \in Journals /\ \A m \in DOMAIN rec.copy : m \in Notes /\ rec.copy[m] \in NoteRecords
      BY JournalIs DEF RecoveryOK, Recoveries
    <2>3. UNCHANGED <<journal, control, fixed, recoveries>>
      BY <1>6 DEF RecoverSkips, Recover
    <2>4. n = Min(rec.todo) /\ rec.todo # {}
      BY <2>1
    <2>5. CASE RecoverSkips
      <3>1. rec.planned /\ ~rec.dry => rec.copy[n].withdrawn \/ rec.copy[n].state = "failed"
        BY <2>4, <2>5, SkipIs DEF Skipped
      <3>2. rec.copy[n].withdrawn => spentBy'[n] # "nobody"
        BY <1>1, <2>1 DEF WithdrawnIsSpent
      <3>3. /\ rec' \in Recoveries /\ rec'.todo = rec.todo \ {n} /\ rec'.copy = rec.copy /\ rec'.on = rec.on
            /\ rec'.planned = rec.planned /\ rec'.dry = rec.dry
            /\ \A m \in Notes : m # n => rec'.attempts[m] = rec.attempts[m]
        BY <2>4, <2>5, SkipIs
      <3> QED BY <1>1, <2>1, <2>2, <2>3, <3>1, <3>2, <3>3 DEF RecoveryOK, Running
    <2>6. CASE Recover
      <3>1. PICK out : Withdraw(n, "recovery", out) /\ (RecoverRetries(out) \/ RecoverSettles(n, out))
        BY <2>1, <2>6 DEF Recover
      <3>2. CASE RecoverRetries(out)
        <4>1. /\ rec' \in Recoveries /\ rec'.todo = rec.todo /\ rec'.copy = rec.copy /\ rec'.on = rec.on
              /\ rec'.planned = rec.planned /\ rec'.dry = rec.dry /\ rec'.attempts = rec.attempts
          BY <3>2, RetryIs
        <4> QED BY <1>1, <2>1, <2>2, <2>3, <4>1 DEF RecoveryOK, Running
      <3>3. CASE RecoverSettles(n, out)
        <4>1. /\ rec' \in Recoveries /\ rec'.todo = rec.todo \ {n} /\ rec'.on = rec.on
              /\ rec'.planned = rec.planned /\ rec'.dry = rec.dry /\ DOMAIN rec'.copy = DOMAIN rec.copy
              /\ out \notin {"ok", "used"} => rec'.attempts[n] = "failed"
              /\ \A m \in DOMAIN rec.copy : m # n => rec'.copy[m] = rec.copy[m]
              /\ \A m \in Notes : m # n => rec'.attempts[m] = rec.attempts[m]
          BY <2>4, <3>3, SettleIs
        <4>2. out \in {"ok", "used"} => spentBy'[n] # "nobody"
          BY <2>1, <3>1, WithdrawIs DEF Payers
        <4>3. rec'.todo \subseteq DOMAIN rec'.copy
          BY <4>1 DEF RecoveryOK
        <4>4. ASSUME rec'.planned, ~rec'.dry, NEW m \in DOMAIN rec'.copy \ rec'.todo, spentBy'[m] = "nobody"
              PROVE  rec'.copy[m].state = "failed" \/ rec'.attempts[m] = "failed"
          <5>1. CASE m = n
            BY <4>1, <4>2, <4>4, <5>1
          <5>2. CASE m # n
            BY <1>1, <2>1, <2>2, <4>1, <4>4, <5>2 DEF RecoveryOK
          <5> QED BY <5>1, <5>2
        <4> QED BY <2>1, <2>3, <4>1, <4>3, <4>4 DEF RecoveryOK, Running
      <3> QED BY <3>1, <3>2, <3>3
    <2> QED BY <1>6, <2>5, <2>6
  <1> QED BY <1>2, <1>3, <1>4, <1>5, <1>6 DEF Next, Recovery

\* What is not on file grows by a deposit only, which comes when everything is.
LEMMA UnfiledKept ==
    ASSUME ControlOK, StageOK, NotesOK, JournalsOK, RecoveryOK, Next, script \notin Loose
    PROVE  Unfiled' \subseteq Unfiled \/ (Op \in {"deposit", "depositRetry"} /\ Unfiled = {} /\ Unfiled' \subseteq {next})
  <1> USE DEF fixed, control, rescue, chain, notes, journal
  <1>a. /\ batch \intersect DOMAIN file \subseteq DOMAIN mem /\ done \subseteq batch
        /\ flight \union landed \subseteq 1..(next - 1)
    BY DEF NotesOK, JournalsOK
  <1>1. CASE \/ Await \/ Check \/ Plan \/ RecordNote \/ Deposited \/ Nothing \/ Settle \/ WithdrawNote \/ WithdrawEach
             \/ Mark \/ RescueNote \/ Relay \/ Process \/ Halt \/ Ensure \/ NextScenario
    <2>1. UNCHANGED <<flight, landed, file>>
      BY <1>1 DEF Await, Check, Plan, RecordNote, Deposited, Nothing, Settle, WithdrawNote, WithdrawEach,
                  Mark, RescueNote, Relay, Process, Halt, Ensure, NextScenario
    <2>2. batch' \subseteq batch
      <3>1. CASE WithdrawNote
        BY <3>1 DEF WithdrawNote, Finish, Failed, Throw
      <3>2. CASE Relay
        BY <3>2 DEF Relay, RelaySucceeds, RelayRefuses, Answered, Unanswered, Failed, Finish, Throw
      <3>3. CASE Settle
        BY <1>a, <3>3 DEF Settle, Advance
      <3> QED BY <1>1, <3>1, <3>2, <3>3 DEF Await, Check, Plan, RecordNote, Deposited, Nothing,
                  WithdrawEach, Mark, RescueNote, Process, Unconfirmed, Halt, Ensure, NextScenario,
                  Advance, Finish, Throw
    <2> QED BY <2>1, <2>2 DEF Unfiled
  <1>2. CASE Persist
    BY <1>2, <1>a DEF Persist, Advance, Unfiled
  <1>3. CASE Open \/ Load \/ Exit \/ Crash
    <2>1. batch' = {}
      BY <1>3, Before DEF Open, Load, Exit, Crash, Stop, Advance
    <2> QED BY <2>1 DEF Unfiled
  <1>4. CASE Reuse \/ Unresolved
    <2>1. (batch' = batch \/ batch' \subseteq DOMAIN mem) /\ DOMAIN mem = DOMAIN file /\ UNCHANGED <<flight, landed, file>>
      BY <1>4, Before, ReuseIs DEF Reuse, Unresolved, Advance
    <2> QED BY <2>1 DEF Unfiled
  <1>5. CASE Deposit
    <2>1. Unfiled = {} /\ Op \in {"deposit", "depositRetry"} /\ file' = file
      BY <1>5, Before DEF Deposit
    <2>2. batch' \subseteq batch \union {next} /\ flight' \union landed' \subseteq flight \union landed \union {next}
      BY <1>5 DEF Deposit, Advance, Failed, Throw
    <2> QED BY <2>1, <2>2 DEF Unfiled
  <1>6. CASE Create
    <2>1. batch' = next..(next + Burst - 1) /\ UNCHANGED <<flight, landed>>
      BY <1>6 DEF Create, Advance
    <2>2. \A n \in next..(next + Burst - 1) : n \notin 1..(next - 1)
      BY NotesAre
    <2> QED BY <1>a, <2>1, <2>2 DEF Unfiled
  <1>7. CASE Send
    <2>1. batch \subseteq DOMAIN file /\ batch' = batch /\ file' = file
      BY <1>7, Before DEF Send, Finish
    <2> QED BY <2>1 DEF Unfiled
  <1>8. CASE \/ (\E p \in Programs[script] : Start(p)) \/ RecoverSkips \/ Recover \/ RecoveryEnds \/ RecoveryCrashes
             \/ (\E dry, planned \in BOOLEAN : StartRecovery(dry, planned)) \/ (\E n \in Notes : Land(n))
             \/ (\E n \in Notes, who \in {"script", "relayer", "recovery"} : Execute(n, who))
    <2>1. batch' = batch /\ flight' \union landed' \subseteq flight \union landed
      BY <1>8 DEF Start, RecoverSkips, Recover, RecoveryEnds, RecoveryCrashes, StartRecovery, Land, Execute
    <2>2. DOMAIN file' = DOMAIN file
      <3>1. file' = file \/ (rec.on /\ file' = rec.copy)
        BY <1>8 DEF Start, RecoverSkips, Recover, RecoveryEnds, RecoveryCrashes, StartRecovery, Land, Execute
      <3> QED BY <3>1 DEF RecoveryOK
    <2> QED BY <2>1, <2>2 DEF Unfiled
  <1> QED BY <1>1, <1>2, <1>3, <1>4, <1>5, <1>6, <1>7, <1>8 DEF Next, Step, Recovery

\* The part on the deposits at risk.
LEMMA RiskKept ==
    ASSUME ControlOK, StageOK, NotesOK, JournalsOK, RecoveryOK, RiskOK, Next
    PROVE  RiskOK'
  <1>1. script' = script
    <2>1. Step => script' = script
      BY Moves
    <2> QED BY <2>1 DEF Next, Crash, Stop, Start, Recovery, RecoverSkips, Recover, RecoveryEnds, RecoveryCrashes,
                      StartRecovery, Land, Execute, fixed
  <1>2. CASE script \notin Loose
    <2>1. Unfiled' \subseteq Unfiled \/ Unfiled' \subseteq {next}
      BY <1>2, UnfiledKept
    <2> QED BY <1>1, <1>2, <2>1 DEF RiskOK
  <1> QED BY <1>1, <1>2 DEF RiskOK

\* Between which stages the steps lead.
LEMMA EdgesOf ==
    /\ \A a, b : Edge(a, "persist", b) =>
          \/ (a = "noted" /\ b = "clean") \/ (a = "clean" /\ b = "clean") \/ (a = "marked" /\ b = "marked")
          \/ (a = "caught" /\ b = "caught") \/ (a = "settled" /\ b = "kept") \/ (a = "created" /\ b = "saved")
          \/ (a = "sent" /\ b = "sent")
    /\ \A a, b : Edge(a, "open", b) \/ Edge(a, "load", b) => b \in {"ready", "clean"}
    /\ \A a, b : Edge(a, "reuse", b) => a = "ready" /\ b = "clean"
    /\ \A a, b : Edge(a, "deposit", b) \/ Edge(a, "depositRetry", b) => (a = "clean" /\ b = "made")
    /\ \A a, b : Edge(a, "await", b) => a \in {"made", "clean"} /\ b = a
    /\ \A a, b : Edge(a, "check", b) => a \in {"clean", "kept", "saved", "sent"} /\ b = a
    /\ \A a, b : Edge(a, "plan", b) \/ Edge(a, "record", b) => (a = "made" /\ b = "noted")
    /\ \A a, b : Edge(a, "deposited", b) => a = "clean" /\ b = "clean"
    /\ \A a, b : Edge(a, "create", b) => a = "clean" /\ b = "created"
    /\ \A a, b : Edge(a, "send", b) => a = "saved" /\ b = "sent"
    /\ \A a, b : Edge(a, "settle", b) => a = "sent" /\ b = "sent"
    /\ \A a, op, b : op \in Asking /\ Edge(a, op, b) => a = "clean" /\ b = "asked"
    /\ \A a, b : Edge(a, "withdrawAll", b) => a = "sent" /\ b = "asked"
    /\ \A a, b : Edge(a, "again", b) => (a = "caught" /\ b = "caught") \/ (a = "kept" /\ b = "unpaid")
    /\ \A a, b : Edge(a, "mark", b) => (a = "asked" /\ b = "marked") \/ (a = "ensured" /\ b = "settled")
    /\ \A a, b : Edge(a, "unresolved", b) => a = "unpaid" /\ b = "rescuing"
    /\ \A a, b : Edge(a, "rescue", b) => a = "rescuing" /\ b = "rescuing"
    /\ \A a, b : Edge(a, "halt", b) \/ Edge(a, "post", b) => a = "marked" /\ b = "marked"
    /\ \A a, b : Edge(a, "ensure", b) => a = "asked" /\ b = "ensured"
    /\ \A a, b : Edge(a, "next", b) => a \in {"clean", "marked", "caught"} /\ b = "clean"
    /\ \A a, b : Edge(a, "try", b) => a = "clean" /\ b = "clean"
    /\ \A a, b : Edge(a, "catch", b) => b = "caught"
  <1>1. \A a, b : Edge(a, "persist", b) =>
          \/ (a = "noted" /\ b = "clean") \/ (a = "clean" /\ b = "clean") \/ (a = "marked" /\ b = "marked")
          \/ (a = "caught" /\ b = "caught") \/ (a = "settled" /\ b = "kept") \/ (a = "created" /\ b = "saved")
          \/ (a = "sent" /\ b = "sent")
    <2>1. \A a, b : Edge(a, "persist", b) => a \in {"noted", "clean", "marked", "caught", "settled", "created", "sent"}
      BY DEF Edge, Asking
    <2>2. \A b : Edge("noted", "persist", b) => b = "clean"
      BY DEF Edge, Asking
    <2>3. \A b : Edge("clean", "persist", b) => b = "clean"
      BY DEF Edge, Asking
    <2>4. \A b : Edge("marked", "persist", b) => b = "marked"
      BY DEF Edge, Asking
    <2>5. \A b : Edge("caught", "persist", b) => b = "caught"
      BY DEF Edge, Asking
    <2>6. \A b : Edge("settled", "persist", b) => b = "kept"
      BY DEF Edge, Asking
    <2>7. \A b : Edge("created", "persist", b) => b = "saved"
      BY DEF Edge, Asking
    <2>8. \A b : Edge("sent", "persist", b) => b = "sent"
      BY DEF Edge, Asking
    <2> QED BY <2>1, <2>2, <2>3, <2>4, <2>5, <2>6, <2>7, <2>8
  <1>2. \A a, b : Edge(a, "open", b) \/ Edge(a, "load", b) => b \in {"ready", "clean"}
    BY DEF Edge, Asking
  <1>3. \A a, b : Edge(a, "reuse", b) => a = "ready" /\ b = "clean"
    BY DEF Edge, Asking
  <1>4. \A a, b : Edge(a, "deposit", b) \/ Edge(a, "depositRetry", b) => (a = "clean" /\ b = "made")
    BY DEF Edge, Asking
  <1>5. \A a, b : Edge(a, "await", b) => a \in {"made", "clean"} /\ b = a
    BY DEF Edge, Asking
  <1>6. \A a, b : Edge(a, "check", b) => a \in {"clean", "kept", "saved", "sent"} /\ b = a
    BY DEF Edge, Asking
  <1>7. \A a, b : Edge(a, "plan", b) \/ Edge(a, "record", b) => (a = "made" /\ b = "noted")
    BY DEF Edge, Asking
  <1>8. \A a, b : Edge(a, "deposited", b) => a = "clean" /\ b = "clean"
    BY DEF Edge, Asking
  <1>9. \A a, b : Edge(a, "create", b) => a = "clean" /\ b = "created"
    BY DEF Edge, Asking
  <1>10. \A a, b : Edge(a, "send", b) => a = "saved" /\ b = "sent"
    BY DEF Edge, Asking
  <1>11. \A a, b : Edge(a, "settle", b) => a = "sent" /\ b = "sent"
    BY DEF Edge, Asking
  <1>12. \A a, op, b : op \in Asking /\ Edge(a, op, b) => a = "clean" /\ b = "asked"
    BY DEF Edge, Asking
  <1>13. \A a, b : Edge(a, "withdrawAll", b) => a = "sent" /\ b = "asked"
    BY DEF Edge, Asking
  <1>14. \A a, b : Edge(a, "again", b) => (a = "caught" /\ b = "caught") \/ (a = "kept" /\ b = "unpaid")
    <2>1. \A a, b : Edge(a, "again", b) => a \in {"caught", "kept"}
      BY DEF Edge, Asking
    <2>2. \A b : Edge("caught", "again", b) => b = "caught"
      BY DEF Edge, Asking
    <2>3. \A b : Edge("kept", "again", b) => b = "unpaid"
      BY DEF Edge, Asking
    <2> QED BY <2>1, <2>2, <2>3
  <1>15. \A a, b : Edge(a, "mark", b) => (a = "asked" /\ b = "marked") \/ (a = "ensured" /\ b = "settled")
    <2>1. \A a, b : Edge(a, "mark", b) => a \in {"asked", "ensured"}
      BY DEF Edge, Asking
    <2>2. \A b : Edge("asked", "mark", b) => b = "marked"
      BY DEF Edge, Asking
    <2>3. \A b : Edge("ensured", "mark", b) => b = "settled"
      BY DEF Edge, Asking
    <2> QED BY <2>1, <2>2, <2>3
  <1>16. \A a, b : Edge(a, "unresolved", b) => a = "unpaid" /\ b = "rescuing"
    BY DEF Edge, Asking
  <1>17. \A a, b : Edge(a, "rescue", b) => a = "rescuing" /\ b = "rescuing"
    BY DEF Edge, Asking
  <1>18. \A a, b : Edge(a, "halt", b) \/ Edge(a, "post", b) => a = "marked" /\ b = "marked"
    BY DEF Edge, Asking
  <1>19. \A a, b : Edge(a, "ensure", b) => a = "asked" /\ b = "ensured"
    BY DEF Edge, Asking
  <1>20. \A a, b : Edge(a, "next", b) => a \in {"clean", "marked", "caught"} /\ b = "clean"
    BY DEF Edge, Asking
  <1>21. \A a, b : Edge(a, "try", b) => a = "clean" /\ b = "clean"
    BY DEF Edge, Asking
  <1>22. \A a, b : Edge(a, "catch", b) => b = "caught"
    BY DEF Edge, Asking
  <1> QED BY <1>1, <1>2, <1>3, <1>4, <1>5, <1>6, <1>7, <1>8, <1>9, <1>10, <1>11, <1>12,
         <1>13, <1>14, <1>15, <1>16, <1>17, <1>18, <1>19, <1>20, <1>21, <1>22

\* A script that has moved is at a stage again when what that stage requires is so:
\* a call that throws comes to one that requires nothing.
LEMMA StageReached ==
    ASSUME ControlOK, Step, script \notin Loose, NEW a, NEW b,
           Op # "none", a = Stage(prog)[pc], b = Stage(prog)[pc+1],
           \/ Throw
           \/ pc' = Len(prog) + 1
           \/ pc' = pc /\ \E op : op = Op /\ Holds(a, op)'
           \/ pc' = pc + 1 /\ \A x : Holds(b, x)'
           \/ Op = "reuse" /\ pc' = pc + Len(Once) + 1 /\ \A x : Holds("clean", x)'
    PROVE  StageOK'
  <1>1. script' = script /\ prog' = prog
    BY Moves
  <1>2. pc \in 1..Len(prog) /\ Op = prog[pc] /\ prog \in Programs[script] /\ Len(prog) \in Nat
    BY AtStep DEF ControlOK
  <1>3. Path(prog, Stage(prog))
    BY <1>2, StageOf DEF ControlOK
  <1> SUFFICES ASSUME NEW s, NEW x, pc' \in 1..Len(prog), s = Stage(prog)[pc'], x = prog[pc']
               PROVE  Holds(s, x)'
    BY <1>1 DEF StageOK, At
  <1>4. CASE Throw
    <2>1. pc' = Handler
      BY <1>4 DEF Throw
    <2>2. PICK h \in 2..Len(prog) : h = pc' /\ prog[h - 1] = "catch"
      BY <1>2, <2>1, HandlerFacts
    <2>3. h - 1 \in 1..Len(prog) /\ (h - 1) + 1 = h
      BY <1>2
    <2>4. Edge(Stage(prog)[h - 1], "catch", Stage(prog)[h])
      BY <1>3, <2>2, <2>3 DEF Path
    <2>5. s = "caught"
      BY <2>2, <2>4, EdgesOf
    <2> QED BY <2>5 DEF Holds
  <1>5. CASE pc' = Len(prog) + 1
    BY <1>2, <1>5
  <1>6. CASE pc' = pc /\ \E op : op = Op /\ Holds(a, op)'
    BY <1>2, <1>6
  <1>7. CASE pc' = pc + 1 /\ \A y : Holds(b, y)'
    BY <1>7
  <1>8. CASE Op = "reuse" /\ pc' = pc + Len(Once) + 1 /\ \A y : Holds("clean", y)'
    <2>1. Stage(prog)[pc + Len(Once) + 1] = "clean"
      BY <1>2, <1>3, <1>8 DEF Path
    <2> QED BY <1>8, <2>1
  <1> QED BY <1>4, <1>5, <1>6, <1>7, <1>8

\* Where a script that keeps its notes is when it comes to the step x.
LEMMA AtStage ==
    ASSUME ControlOK, StageOK, script \notin Loose, NEW x, Op = x, x # "none"
    PROVE  \E a, b \in Stages : /\ a = Stage(prog)[pc] /\ b = Stage(prog)[pc+1]
                                /\ Edge(a, x, b) /\ Holds(a, x)
  BY Here

\* What everything but a deposit leaves alone.
LEMMA Frame ==
    ASSUME ControlOK, StageOK, NotesOK, ChainOK, JournalsOK, RecoveryOK, Next, script \notin Loose
    PROVE  /\ Spent \subseteq Spent'
           /\ Op \notin {"deposit", "depositRetry"} /\ Unfiled = {} => Unfiled' = {}
  BY SpentGrows, UnfiledKept DEF Spent

\* The stage after the journal has been written.
LEMMA PersistStage ==
    ASSUME ControlOK, StageOK, NotesOK, ChainOK, JournalsOK, RecoveryOK, script \notin Loose, Persist
    PROVE  StageOK'
  <1> USE DEF fixed, control, rescue, chain, notes, journal, relayed
  <1>1. PICK a, b \in Stages : /\ a = Stage(prog)[pc] /\ b = Stage(prog)[pc+1]
                               /\ Edge(a, "persist", b) /\ Holds(a, "persist")
    BY AtStage DEF Persist
  <1>2. /\ pc' = pc + 1 /\ batch' = batch /\ todo' = batch /\ done' = done
        /\ mem' = mem /\ file' = mem /\ answer' = answer /\ script' = script
        /\ UNCHANGED <<flight, landed, spentBy>>
    BY DEF Persist, Advance
  <1>3. /\ Spent' = Spent /\ (Unfiled = {} => Unfiled' = {})
    BY <1>2, Frame DEF Persist, Next, Step, Spent
  <1>4. batch \intersect DOMAIN file \subseteq DOMAIN mem
    BY DEF JournalsOK
  <1>5. ASSUME NEW x PROVE Holds(b, x)'
    <2>1. CASE a = "noted" /\ b = "clean"
      <3>1. batch \subseteq DOMAIN mem
        BY <1>1, <2>1 DEF Holds
      <3>2. Unfiled' = {}
        BY <1>2, <3>1 DEF Unfiled
      <3>3. Fresh(x)'
        BY <1>1, <1>2, <1>3, <2>1 DEF Holds, Fresh, Asking
      <3> QED BY <2>1, <3>2, <3>3 DEF Holds
    <2>2. CASE a = "clean" /\ b = "clean"
      <3>1. Fresh(x)'
        BY <1>1, <1>2, <1>3, <2>2 DEF Holds, Fresh, Asking
      <3> QED BY <1>1, <1>3, <2>2, <3>1 DEF Holds
    <2>3. CASE (a = "marked" /\ b = "marked") \/ (a = "caught" /\ b = "caught")
      BY <1>1, <1>3, <2>3 DEF Holds
    <2>4. CASE a = "settled" /\ b = "kept"
      BY <1>1, <1>2, <1>3, <2>4 DEF Holds
    <2>5. CASE a = "created" /\ b = "saved"
      BY <1>1, <1>2, <1>3, <2>5 DEF Holds
    <2>6. CASE a = "sent" /\ b = "sent"
      BY <1>1, <1>2, <1>3, <1>4, <2>6 DEF Holds
    <2> QED BY <1>1, EdgesOf, <2>1, <2>2, <2>3, <2>4, <2>5, <2>6
  <1> QED BY <1>1, <1>2, <1>5, StageReached DEF Step, Persist

\* The stage after a journal has been begun or read again.
LEMMA OpenStage ==
    ASSUME ControlOK, StageOK, NotesOK, ChainOK, JournalsOK, RecoveryOK, script \notin Loose, Open \/ Load
    PROVE  StageOK'
  <1> USE DEF fixed, control, rescue, chain, notes, journal, relayed
  <1>1. PICK x \in {"open", "load"} : x = Op
    BY DEF Open, Load
  <1>2. PICK a, b \in Stages : /\ a = Stage(prog)[pc] /\ b = Stage(prog)[pc+1]
                               /\ Edge(a, x, b) /\ Holds(a, x)
    BY <1>1, AtStage
  <1>3. b \in {"ready", "clean"} /\ a = "begin"
    BY <1>1, <1>2, EdgesOf, EdgeFrom
  <1>4. /\ pc' = pc + 1 /\ batch' = {} /\ todo' = {} /\ done' = {} /\ answer' = answer
        /\ DOMAIN mem' = DOMAIN file' /\ \A n \in Notes : answer[n] = 0
    BY <1>2, <1>3, Before DEF Open, Load, Advance, Holds
  <1>5. Unfiled' = {}
    BY <1>4 DEF Unfiled
  <1>6. ASSUME NEW y PROVE Holds(b, y)'
    <2>1. Fresh(y)'
      BY <1>4 DEF Fresh
    <2> QED BY <1>3, <1>4, <1>5, <2>1 DEF Holds
  <1> QED BY <1>1, <1>2, <1>4, <1>6, StageReached DEF Step

\* The stage of a run that goes on with a note of the last one, or with none.
LEMMA ReuseStage ==
    ASSUME ControlOK, StageOK, NotesOK, ChainOK, JournalsOK, RecoveryOK, script \notin Loose, Reuse
    PROVE  StageOK'
  <1> USE DEF fixed, control, rescue, chain, notes, journal, relayed
  <1>1. PICK a, b \in Stages : /\ a = Stage(prog)[pc] /\ b = Stage(prog)[pc+1]
                               /\ Edge(a, "reuse", b) /\ Holds(a, "reuse")
    BY AtStage DEF Reuse
  <1>2. a = "ready" /\ b = "clean"
    BY <1>1, EdgesOf
  <1>3. /\ batch = {} /\ done = {} /\ DOMAIN mem = DOMAIN file /\ \A n \in Notes : answer[n] = 0
    BY <1>1, <1>2 DEF Holds
  <1>4. /\ done' = {} /\ batch' \subseteq DOMAIN mem /\ \A n \in batch' : ~mem[n].withdrawn
        /\ pc' = pc + 1 \/ pc' = pc + Len(Once) + 1
        /\ UNCHANGED <<mem, file, flight, landed, answer>>
    BY <1>3, ReuseIs
  <1>5. batch' \subseteq Notes
    BY <1>4, JournalIs DEF JournalsOK
  <1>6. Unfiled' = {}
    BY <1>3, <1>4 DEF Unfiled
  <1>7. ASSUME NEW x PROVE Holds("clean", x)'
    <2>1. Fresh(x)'
      BY <1>3, <1>4, <1>5 DEF Fresh
    <2> QED BY <1>6, <2>1 DEF Holds
  <1>8. Op = "reuse" /\ Step
    BY DEF Reuse, Step
  <1> QED BY <1>1, <1>2, <1>4, <1>7, <1>8, StageReached

\* The stage after a deposit, or when it is tried again.
LEMMA DepositStage ==
    ASSUME ControlOK, StageOK, NotesOK, ChainOK, JournalsOK, RecoveryOK, script \notin Loose, Deposit
    PROVE  StageOK'
  <1> USE DEF fixed, control, rescue, chain, notes, journal, relayed
  <1>1. PICK x \in {"deposit", "depositRetry"} : x = Op
    BY DEF Deposit
  <1>2. PICK a, b \in Stages : /\ a = Stage(prog)[pc] /\ b = Stage(prog)[pc+1]
                               /\ Edge(a, x, b) /\ Holds(a, x)
    BY <1>1, AtStage
  <1>3. a = "clean" /\ b = "made"
    BY <1>1, <1>2, EdgesOf
  <1>4. Unfiled = {} /\ Fresh(x)
    BY <1>2, <1>3 DEF Holds
  <1>5. /\ UNCHANGED <<done, mem, file, answer, spentBy, script>>
        /\ flight' \union landed' \subseteq flight \union landed \union {next}
    BY DEF Deposit, Failed, Throw
  <1>6. \/ pc' = pc + 1 /\ batch' = batch \union {next} /\ next \in Notes
        \/ pc' = pc /\ batch' = batch
        \/ Throw
    BY DEF Deposit, Failed, Advance
  <1>7. next \notin batch /\ next \notin DOMAIN mem /\ (next \in Notes => answer[next] = 0)
    <2>1. next \notin 1..(next - 1) /\ next >= next
      BY NotesAre
    <2> QED BY <2>1 DEF NotesOK, JournalsOK, ChainOK
  <1>8. Spent' = Spent
    BY <1>5 DEF Spent
  <1>9. CASE pc' = pc + 1 /\ batch' = batch \union {next} /\ next \in Notes
    <2>1. ASSUME NEW y PROVE Holds(b, y)'
      <3>1. done = {} /\ (\A n \in batch : answer[n] = 0) /\ \A n \in batch \intersect DOMAIN mem : ~mem[n].withdrawn
        BY <1>1, <1>4 DEF Fresh, Asking
      <3>2. Fresh(y)'
        BY <1>5, <1>7, <1>9, <3>1 DEF Fresh
      <3> QED BY <1>3, <3>2 DEF Holds
    <2> QED BY <1>1, <1>2, <1>9, <2>1, StageReached DEF Step
  <1>10. CASE pc' = pc /\ batch' = batch
    <2>1. Unfiled' = {}
      BY <1>4, <1>5, <1>7, <1>10 DEF Unfiled
    <2>2. Fresh(x)'
      BY <1>4, <1>5, <1>8, <1>10 DEF Fresh
    <2>3. Holds(a, x)'
      BY <1>3, <2>1, <2>2 DEF Holds
    <2> QED BY <1>1, <1>2, <1>10, <2>3, StageReached DEF Step
  <1>11. CASE Throw
    BY <1>1, <1>2, <1>11, StageReached DEF Step
  <1> QED BY <1>6, <1>9, <1>10, <1>11

\* The stage after the signature of a deposit has been waited for, or after a look at something else.
LEMMA LookStage ==
    ASSUME ControlOK, StageOK, NotesOK, ChainOK, JournalsOK, RecoveryOK, script \notin Loose, Await \/ Check
    PROVE  StageOK'
  <1> USE DEF fixed, control, rescue, chain, notes, journal, relayed
  <1>1. PICK x \in {"await", "check"} : x = Op
    BY DEF Await, Check
  <1>2. PICK a, b \in Stages : /\ a = Stage(prog)[pc] /\ b = Stage(prog)[pc+1]
                               /\ Edge(a, x, b) /\ Holds(a, x)
    BY <1>1, AtStage
  <1>3. a \in {"made", "clean", "kept", "saved", "sent"} /\ b = a
    BY <1>1, <1>2, EdgesOf
  <1>4. UNCHANGED <<done, mem, file, answer, spentBy, script, flight, landed>>
    BY DEF Await, Check
  <1>5. Throw \/ (pc' = pc + 1 /\ batch' = batch /\ todo' = batch)
    BY DEF Await, Check, Advance
  <1>6. CASE pc' = pc + 1 /\ batch' = batch /\ todo' = batch
    <2>1. Spent' = Spent /\ Unfiled' = Unfiled
      BY <1>4, <1>6 DEF Spent, Unfiled
    <2>2. ASSUME NEW y PROVE Holds(b, y)'
      <3>1. CASE a \in {"made", "clean"}
        <4>1. Fresh(y)'
          BY <1>1, <1>2, <1>4, <1>6, <2>1, <3>1 DEF Holds, Fresh, Asking
        <4> QED BY <1>2, <1>3, <2>1, <3>1, <4>1 DEF Holds
      <3>2. CASE a = "kept"
        BY <1>2, <1>3, <1>4, <1>6, <2>1, <3>2 DEF Holds
      <3>3. CASE a = "saved"
        BY <1>1, <1>2, <1>3, <1>4, <1>6, <2>1, <3>3 DEF Holds
      <3>4. CASE a = "sent"
        BY <1>2, <1>3, <1>4, <1>6, <2>1, <3>4 DEF Holds
      <3> QED BY <1>3, <3>1, <3>2, <3>3, <3>4
    <2> QED BY <1>1, <1>2, <1>6, <2>2, StageReached DEF Step
  <1>7. CASE Throw
    BY <1>1, <1>2, <1>7, StageReached DEF Step
  <1> QED BY <1>5, <1>6, <1>7

\* The stage after the notes of the scenario have been added to the journal.
LEMMA PlanStage ==
    ASSUME ControlOK, StageOK, NotesOK, ChainOK, JournalsOK, RecoveryOK, script \notin Loose, Plan \/ RecordNote
    PROVE  StageOK'
  <1> USE DEF fixed, control, rescue, chain, notes, journal, relayed
  <1>1. PICK x \in {"plan", "record"} : x = Op
    BY DEF Plan, RecordNote
  <1>2. PICK a, b \in Stages : /\ a = Stage(prog)[pc] /\ b = Stage(prog)[pc+1]
                               /\ Edge(a, x, b) /\ Holds(a, x)
    BY <1>1, AtStage
  <1>3. a = "made" /\ b = "noted"
    BY <1>1, <1>2, EdgesOf
  <1>4. /\ pc' = pc + 1 /\ batch' = batch /\ todo' = batch
        /\ UNCHANGED <<done, file, answer, spentBy, script, flight, landed>>
    BY DEF Plan, RecordNote, Advance
  <1>5. done = {} /\ (\A n \in batch : answer[n] = 0) /\ \A n \in batch \intersect DOMAIN mem : ~mem[n].withdrawn
    BY <1>1, <1>2, <1>3 DEF Holds, Fresh, Asking
  <1>6. batch \subseteq DOMAIN mem' /\ \A n \in batch : ~mem'[n].withdrawn
    <2>1. PICK s : mem' = [n \in (batch \ DOMAIN mem) \union DOMAIN mem |->
                              IF n \in batch \ DOMAIN mem THEN Record(s) ELSE mem[n]]
      BY DEF Plan, RecordNote, Upsert
    <2> QED BY <1>5, <2>1 DEF Record
  <1>7. ASSUME NEW y PROVE Holds(b, y)'
    <2>1. Fresh(y)'
      BY <1>4, <1>5, <1>6 DEF Fresh
    <2> QED BY <1>3, <1>4, <1>6, <2>1 DEF Holds
  <1> QED BY <1>1, <1>2, <1>4, <1>7, StageReached DEF Step

\* The stage after the notes have been called deposited.
LEMMA DepositedStage ==
    ASSUME ControlOK, StageOK, NotesOK, ChainOK, JournalsOK, RecoveryOK, script \notin Loose, Deposited
    PROVE  StageOK'
  <1> USE DEF fixed, control, rescue, chain, notes, journal, relayed
  <1>1. PICK a, b \in Stages : /\ a = Stage(prog)[pc] /\ b = Stage(prog)[pc+1]
                               /\ Edge(a, "deposited", b) /\ Holds(a, "deposited")
    BY AtStage DEF Deposited
  <1>2. a = "clean" /\ b = "clean"
    BY <1>1, EdgesOf
  <1>3. /\ pc' = pc + 1 /\ batch' = batch /\ todo' = batch
        /\ UNCHANGED <<done, file, answer, spentBy, script, flight, landed>>
    BY DEF Deposited, Advance
  <1>4. Spent' = Spent /\ Unfiled' = Unfiled
    BY <1>3 DEF Spent, Unfiled
  <1>5. DOMAIN mem' = DOMAIN mem /\ \A n \in DOMAIN mem : mem'[n].withdrawn = mem[n].withdrawn
    <2>1. DOMAIN mem' = DOMAIN mem
          /\ \A n \in DOMAIN mem : mem'[n] = mem[n] \/ mem'[n] = [mem[n] EXCEPT !.state = "confirmed"]
      BY DEF Deposited, SetState
    <2>2. \A n \in DOMAIN mem : mem[n] \in NoteRecords
      BY JournalIs DEF JournalsOK
    <2> QED BY <2>1, <2>2 DEF NoteRecords
  <1>6. ASSUME NEW x PROVE Holds(b, x)'
    <2>1. Fresh(x)'
      BY <1>1, <1>2, <1>3, <1>4, <1>5 DEF Holds, Fresh, Asking
    <2> QED BY <1>1, <1>2, <1>4, <2>1 DEF Holds
  <1> QED BY <1>1, <1>3, <1>6, StageReached DEF Step, Deposited

\* The stage after the notes of a round have been made.
LEMMA CreateStage ==
    ASSUME ControlOK, StageOK, NotesOK, ChainOK, JournalsOK, RecoveryOK, script \notin Loose, Create
    PROVE  StageOK'
  <1> USE DEF fixed, control, rescue, chain, notes, journal, relayed
  <1>1. PICK a, b \in Stages : /\ a = Stage(prog)[pc] /\ b = Stage(prog)[pc+1]
                               /\ Edge(a, "create", b) /\ Holds(a, "create")
    BY AtStage DEF Create
  <1>2. a = "clean" /\ b = "created"
    BY <1>1, EdgesOf
  <1>3. /\ pc' = pc + 1 /\ batch' = next..(next + Burst - 1) /\ todo' = batch'
        /\ UNCHANGED <<file, flight, landed>> /\ batch' \subseteq DOMAIN mem'
    BY DEF Create, Advance, Upsert
  <1>4. batch' \intersect (flight \union landed) = {}
    <2>1. \A n \in next..(next + Burst - 1) : n \notin 1..(next - 1)
      BY NotesAre
    <2> QED BY <1>3, <2>1 DEF NotesOK
  <1>5. ASSUME NEW x PROVE Holds(b, x)'
    BY <1>2, <1>3, <1>4 DEF Holds, Unfiled
  <1> QED BY <1>1, <1>3, <1>5, StageReached DEF Step, Create

\* The stage after a call for no note at all.
LEMMA NothingStage ==
    ASSUME ControlOK, StageOK, NotesOK, ChainOK, JournalsOK, RecoveryOK, script \notin Loose, Nothing
    PROVE  StageOK'
  <1> USE DEF fixed, control, rescue, chain, notes, journal, relayed
  <1>1. PICK x \in {"send", "withdraw", "withdrawRetry", "withdrawAll", "again", "rescue",
                   "relay", "relayRetry", "process", "post"} : x = Op
    BY DEF Nothing
  <1>2. PICK a, b \in Stages : /\ a = Stage(prog)[pc] /\ b = Stage(prog)[pc+1]
                               /\ Edge(a, x, b) /\ Holds(a, x)
    BY <1>1, AtStage
  <1>3. /\ pc' = pc + 1 /\ batch' = batch /\ todo' = batch /\ done' = {}
        /\ UNCHANGED <<mem, file, answer, spentBy, script, flight, landed>>
    BY DEF Nothing, Advance
  <1>4. Spent' = Spent /\ Unfiled' = Unfiled
    BY <1>3 DEF Spent, Unfiled
  <1>5. ASSUME NEW y PROVE Holds(b, y)'
    <2>1. CASE x = "send"
      <3>1. a = "saved" /\ b = "sent"
        BY <1>2, <2>1, EdgesOf
      <3> QED BY <1>2, <1>3, <1>4, <3>1 DEF Holds
    <2>2. CASE x \in Asking
      <3>1. a = "clean" /\ b = "asked"
        BY <1>2, <2>2, EdgesOf
      <3> QED BY <1>2, <1>3, <1>4, <3>1 DEF Holds
    <2>3. CASE x = "withdrawAll"
      <3>1. a = "sent" /\ b = "asked"
        BY <1>2, <2>3, EdgesOf
      <3> QED BY <1>2, <1>3, <1>4, <3>1 DEF Holds
    <2>4. CASE x = "again"
      <3>1. (a = "caught" /\ b = "caught") \/ (a = "kept" /\ b = "unpaid")
        BY <1>2, <2>4, EdgesOf
      <3> QED BY <1>2, <1>3, <1>4, <3>1 DEF Holds
    <2>6. CASE x = "post"
      <3>1. a = "marked" /\ b = "marked"
        BY <1>2, <2>6, EdgesOf
      <3> QED BY <1>2, <1>3, <1>4, <3>1 DEF Holds
    <2>5. CASE x = "rescue"
      <3>1. a = "rescuing" /\ b = "rescuing"
        BY <1>2, <2>5, EdgesOf
      <3> QED BY <1>2, <1>3, <1>4, <3>1 DEF Holds
    <2> QED BY <1>1, <2>1, <2>2, <2>3, <2>4, <2>5, <2>6 DEF Asking
  <1> QED BY <1>1, <1>2, <1>3, <1>5, StageReached DEF Step

\* The stage after a transaction of a round, or between two of them.
LEMMA SendStage ==
    ASSUME ControlOK, StageOK, NotesOK, ChainOK, JournalsOK, RecoveryOK, script \notin Loose, Send
    PROVE  StageOK'
  <1> USE DEF fixed, control, rescue, chain, notes, journal, relayed
  <1>1. PICK a, b \in Stages : /\ a = Stage(prog)[pc] /\ b = Stage(prog)[pc+1]
                               /\ Edge(a, "send", b) /\ Holds(a, "send")
    BY AtStage DEF Send
  <1>2. a = "saved" /\ b = "sent"
    BY <1>1, EdgesOf
  <1>3. PICK n \in todo : /\ flight' \union landed' \subseteq flight \union landed \union {n}
                          /\ Finish(n, Begin \union {n}) \/ Finish(n, Begin)
    BY DEF Send
  <1>4. /\ batch' = batch /\ file' = file /\ script' = script
        /\ \/ pc' = pc + 1 /\ todo' = batch
           \/ pc' = pc /\ todo' = todo \ {n}
    BY <1>3 DEF Send, Finish
  <1>5. batch \subseteq DOMAIN file /\ todo \intersect (flight \union landed) = {}
    BY <1>1, <1>2 DEF Holds
  <1>6. Unfiled' = {}
    BY <1>4, <1>5 DEF Unfiled
  <1>7. CASE pc' = pc + 1 /\ todo' = batch
    <2>1. ASSUME NEW x PROVE Holds(b, x)'
      BY <1>2, <1>4, <1>5, <1>6, <1>7 DEF Holds
    <2> QED BY <1>1, <1>7, <2>1, StageReached DEF Step, Send
  <1>8. CASE pc' = pc /\ todo' = todo \ {n}
    <2>1. Holds(a, "send")'
      BY <1>2, <1>3, <1>4, <1>5, <1>6, <1>8 DEF Holds
    <2> QED BY <1>1, <1>8, <2>1, StageReached DEF Step, Send
  <1> QED BY <1>4, <1>7, <1>8

\* The stage after a round has written down which of its deposits were made.
LEMMA SettleStage ==
    ASSUME ControlOK, StageOK, NotesOK, ChainOK, JournalsOK, RecoveryOK, script \notin Loose, Settle
    PROVE  StageOK'
  <1> USE DEF fixed, control, rescue, chain, notes, journal, relayed
  <1>1. PICK a, b \in Stages : /\ a = Stage(prog)[pc] /\ b = Stage(prog)[pc+1]
                               /\ Edge(a, "settle", b) /\ Holds(a, "settle")
    BY AtStage DEF Settle
  <1>2. a = "sent" /\ b = "sent"
    BY <1>1, EdgesOf
  <1>3. /\ pc' = pc + 1 /\ batch' = done /\ todo' = done /\ done \subseteq batch
        /\ UNCHANGED <<file, flight, landed>>
    BY DEF Settle, Advance, NotesOK
  <1>4. ASSUME NEW x PROVE Holds(b, x)'
    BY <1>1, <1>2, <1>3 DEF Holds, Unfiled
  <1> QED BY <1>1, <1>3, <1>4, StageReached DEF Step, Settle

\* The stage after the withdrawals of a scenario, or between two of them.
LEMMA WithdrawStage ==
    ASSUME ControlOK, StageOK, NotesOK, ChainOK, JournalsOK, RecoveryOK, script \notin Loose, WithdrawNote
    PROVE  StageOK'
  <1> USE DEF fixed, control, rescue, chain, notes, journal, relayed
  <1>1. PICK x \in {"withdraw", "withdrawRetry"} : x = Op
    BY DEF WithdrawNote
  <1>2. PICK a, b \in Stages : /\ a = Stage(prog)[pc] /\ b = Stage(prog)[pc+1]
                               /\ Edge(a, x, b) /\ Holds(a, x)
    BY <1>1, AtStage
  <1>3. a = "clean" /\ b = "asked"
    BY <1>1, <1>2, EdgesOf DEF Asking
  <1>4. Unfiled = {} /\ Fresh(x)
    BY <1>2, <1>3 DEF Holds
  <1>5. PICK out \in Outcomes :
          /\ Withdraw(Current, "script", out)
          /\ CASE out = "ok"   -> Finish(Current, Begin \union {Current})
               [] out = "used" -> Throw /\ UNCHANGED done
               [] OTHER        -> Failed(IF Op = "withdrawRetry" THEN "retry" ELSE "once") /\ UNCHANGED done
    BY DEF WithdrawNote
  <1>6. Current \in todo /\ Current \in Notes /\ todo \subseteq batch /\ done \subseteq batch /\ batch \subseteq Notes
    BY NotesAre DEF WithdrawNote, NotesOK
  <1>7. Spent \subseteq Spent' /\ Unfiled' = {} /\ UNCHANGED <<mem, answer, script>>
    BY <1>1, <1>4, Frame DEF Next, Step, WithdrawNote
  <1>8. CASE out = "ok"
    <2>1. spentBy'[Current] # "nobody"
      BY <1>5, <1>6, <1>8, WithdrawIs DEF Payers
    <2>2. Finish(Current, Begin \union {Current})
      BY <1>5, <1>8
    <2>3. batch' = batch /\ done' \subseteq done \union {Current} /\ (pc' = pc \/ pc' = pc + 1)
      BY <2>2 DEF Finish, Begin
    <2>4. done' \subseteq Spent'
      BY <1>4, <1>6, <1>7, <2>1, <2>3 DEF Fresh, Spent
    <2>5. \A n \in done' : answer'[n] = 0
      BY <1>1, <1>4, <1>6, <1>7, <2>3 DEF Fresh
    <2>6. Fresh(x)'
      BY <1>1, <1>4, <1>7, <2>3, <2>4, <2>5 DEF Fresh, Asking
    <2>7. Holds(a, x)' /\ \A y : Holds(b, y)'
      BY <1>3, <1>7, <2>4, <2>5, <2>6 DEF Holds
    <2> QED BY <1>1, <1>2, <2>3, <2>7, StageReached DEF Step
  <1>9. CASE out # "ok"
    <2>1. done' = done /\ (Throw \/ (pc' = pc /\ batch' = batch))
      BY <1>5, <1>9 DEF Failed, Outcomes
    <2>2. CASE Throw
      BY <1>1, <1>2, <2>2, StageReached DEF Step
    <2>3. CASE pc' = pc /\ batch' = batch
      <3>1. Fresh(x)'
        BY <1>4, <1>7, <2>1, <2>3 DEF Fresh
      <3>2. Holds(a, x)'
        BY <1>3, <1>7, <3>1 DEF Holds
      <3> QED BY <1>1, <1>2, <2>3, <3>2, StageReached DEF Step
    <2> QED BY <2>1, <2>2, <2>3
  <1> QED BY <1>8, <1>9

\* The stage after the withdrawals of a round, or after the second ones.
LEMMA EachStage ==
    ASSUME ControlOK, StageOK, NotesOK, ChainOK, JournalsOK, RecoveryOK, script \notin Loose, WithdrawEach
    PROVE  StageOK'
  <1> USE DEF fixed, control, rescue, chain, notes, journal, relayed
  <1>1. PICK x \in {"withdrawAll", "again"} : x = Op
    BY DEF WithdrawEach
  <1>2. PICK a, b \in Stages : /\ a = Stage(prog)[pc] /\ b = Stage(prog)[pc+1]
                               /\ Edge(a, x, b) /\ Holds(a, x)
    BY <1>1, AtStage
  <1>3. PICK out \in Outcomes, n \in todo :
          /\ Withdraw(n, "script", out) /\ Finish(n, IF out = "ok" THEN Begin \union {n} ELSE Begin)
    BY DEF WithdrawEach
  <1>4. n \in Notes /\ n \in batch
    BY NotesAre DEF NotesOK
  <1>5. /\ batch' = batch /\ (pc' = pc \/ pc' = pc + 1)
        /\ done' = (IF out = "ok" THEN Begin \union {n} ELSE Begin)
        /\ UNCHANGED <<mem, file, answer, script>>
    BY <1>3 DEF Finish, WithdrawEach
  <1>6. Spent \subseteq Spent' /\ (Unfiled = {} => Unfiled' = {})
    BY <1>1, Frame DEF Next, Step
  <1>7. out = "ok" => n \in Spent' /\ n \notin Spent
    BY <1>3, <1>4, WithdrawIs DEF Payers, Spent, Withdraw
  <1>8. CASE x = "withdrawAll"
    <2>1. a = "sent" /\ b = "asked"
      BY <1>2, <1>8, EdgesOf
    <2>2. script \notin Bursts
      <3>1. Op \in BurstSteps => Op # "withdrawAll"
        BY DEF BurstSteps
      <3>2. script \in Bursts => prog \in Seq(BurstSteps) /\ pc \in 1..Len(prog) /\ Op = prog[pc]
        BY <1>1, AtStep, ProgramFacts DEF ControlOK
      <3> QED BY <1>1, <1>8, <3>1, <3>2
    <2>3. Begin \subseteq Spent
      BY <1>2, <1>8, <2>1 DEF Holds, Begin
    <2>4. done' \subseteq Spent'
      BY <1>5, <1>6, <1>7, <2>3
    <2>5. batch \subseteq DOMAIN file /\ Unfiled = {}
      BY <1>2, <2>1 DEF Holds
    <2>6. Holds(a, x)' /\ \A y : Holds(b, y)'
      BY <1>5, <1>6, <2>1, <2>2, <2>4, <2>5 DEF Holds
    <2> QED BY <1>1, <1>2, <1>5, <2>6, StageReached DEF Step
  <1>9. CASE x = "again" /\ a = "caught" /\ b = "caught"
    <2>1. Holds(a, x)' /\ \A y : Holds(b, y)'
      BY <1>9 DEF Holds
    <2> QED BY <1>1, <1>2, <1>5, <2>1, StageReached DEF Step
  <1>10. CASE x = "again" /\ a = "kept" /\ b = "unpaid"
    <2>1. DOMAIN mem = DOMAIN file /\ Unfiled = {} /\ batch \subseteq Spent /\ (todo = batch \/ done = {})
      BY <1>2, <1>10 DEF Holds
    <2>2. done' = {}
      BY <1>4, <1>5, <1>7, <2>1 DEF Begin
    <2>3. batch' \subseteq Spent'
      BY <1>5, <1>6, <2>1
    <2>4. Holds(a, x)' /\ \A y : Holds(b, y)'
      BY <1>5, <1>6, <1>10, <2>1, <2>2, <2>3 DEF Holds
    <2> QED BY <1>1, <1>2, <1>5, <2>4, StageReached DEF Step
  <1> QED BY <1>1, <1>2, <1>8, <1>9, <1>10, EdgesOf

\* The stage after the marks.
LEMMA MarkStage ==
    ASSUME ControlOK, StageOK, NotesOK, ChainOK, JournalsOK, RecoveryOK, script \notin Loose, Mark
    PROVE  StageOK'
  <1> USE DEF fixed, control, rescue, chain, notes, journal, relayed
  <1>1. PICK a, b \in Stages : /\ a = Stage(prog)[pc] /\ b = Stage(prog)[pc+1]
                               /\ Edge(a, "mark", b) /\ Holds(a, "mark")
    BY AtStage DEF Mark
  <1>2. (a = "asked" /\ b = "marked") \/ (a = "ensured" /\ b = "settled")
    BY <1>1, EdgesOf
  <1>3. Op = "mark" /\ pc' = pc + 1 /\ batch' = batch
    BY DEF Mark, Advance
  <1>4. Spent \subseteq Spent' /\ (Unfiled = {} => Unfiled' = {})
    BY <1>3, Frame DEF Next, Step
  <1>5. ASSUME NEW x PROVE Holds(b, x)'
    BY <1>1, <1>2, <1>3, <1>4 DEF Holds
  <1> QED BY <1>1, <1>3, <1>5, StageReached DEF Step

\* The stage when the rest of the journal is to be taken out.
LEMMA UnresolvedStage ==
    ASSUME ControlOK, StageOK, NotesOK, ChainOK, JournalsOK, RecoveryOK, script \notin Loose, Unresolved
    PROVE  StageOK'
  <1> USE DEF fixed, control, rescue, chain, notes, journal, relayed
  <1>1. PICK a, b \in Stages : /\ a = Stage(prog)[pc] /\ b = Stage(prog)[pc+1]
                               /\ Edge(a, "unresolved", b) /\ Holds(a, "unresolved")
    BY AtStage DEF Unresolved
  <1>2. a = "unpaid" /\ b = "rescuing"
    BY <1>1, EdgesOf
  <1>3. Op = "unresolved" /\ pc' = pc + 1 /\ done' = done
    BY DEF Unresolved, Advance
  <1>4. Unfiled = {} => Unfiled' = {}
    BY <1>3, Frame DEF Next, Step
  <1>5. ASSUME NEW x PROVE Holds(b, x)'
    BY <1>1, <1>2, <1>3, <1>4 DEF Holds
  <1> QED BY <1>1, <1>3, <1>5, StageReached DEF Step

\* The stage while it is taken out, and after.
LEMMA RescueStage ==
    ASSUME ControlOK, StageOK, NotesOK, ChainOK, JournalsOK, RecoveryOK, script \notin Loose, RescueNote
    PROVE  StageOK'
  <1> USE DEF fixed, control, rescue, chain, notes, journal, relayed
  <1>1. PICK a, b \in Stages : /\ a = Stage(prog)[pc] /\ b = Stage(prog)[pc+1]
                               /\ Edge(a, "rescue", b) /\ Holds(a, "rescue")
    BY AtStage DEF RescueNote
  <1>2. a = "rescuing" /\ b = "rescuing"
    BY <1>1, EdgesOf
  <1>3. Op = "rescue" /\ (pc' = pc \/ pc' = pc + 1) /\ done' = done
    BY DEF RescueNote, Finish
  <1>4. Unfiled = {} => Unfiled' = {}
    BY <1>3, Frame DEF Next, Step
  <1>5. ASSUME NEW x PROVE Holds(b, x)'
    BY <1>1, <1>2, <1>3, <1>4 DEF Holds
  <1> QED BY <1>1, <1>2, <1>3, <1>5, StageReached DEF Step

\* The stage after an answer of the relayer, or after the last one.
LEMMA RelayStage ==
    ASSUME ControlOK, StageOK, NotesOK, ChainOK, JournalsOK, RecoveryOK, script \notin Loose, Relay
    PROVE  StageOK'
  <1> USE DEF fixed, control, rescue, chain, notes, journal, relayed
  <1>1. PICK x \in {"relay", "relayRetry"} : x = Op
    BY DEF Relay
  <1>2. PICK a, b \in Stages : /\ a = Stage(prog)[pc] /\ b = Stage(prog)[pc+1]
                               /\ Edge(a, x, b) /\ Holds(a, x)
    BY <1>1, AtStage
  <1>3. a = "clean" /\ b = "asked"
    BY <1>1, <1>2, EdgesOf DEF Asking
  <1>4. Unfiled = {} /\ Fresh(x)
    BY <1>2, <1>3 DEF Holds
  <1>5. Spent \subseteq Spent' /\ Unfiled' = {} /\ UNCHANGED <<mem, script>>
    BY <1>1, <1>4, Frame DEF Next, Step, Relay
  <1>6. todo \subseteq Notes /\ todo \subseteq batch /\ done \subseteq Notes /\ (todo = batch \/ done \intersect todo = {})
    BY NotesAre DEF NotesOK
  <1>7. ASSUME NEW n \in todo, NEW status \in Statuses, Answered(n, status), status = 200 => n \in Spent'
        PROVE  StageOK'
    <2>1. /\ answer' = [answer EXCEPT ![n] = status] /\ done' = (IF status = 200 THEN Begin \union {n} ELSE Begin)
          /\ batch' = batch /\ (pc' = pc \/ pc' = pc + 1)
      BY <1>7 DEF Answered, Finish
    <2>2. Begin \subseteq done /\ n \notin Begin
      BY <1>6 DEF Begin
    <2>3. done' \subseteq Spent'
      BY <1>4, <1>5, <1>7, <2>1, <2>2 DEF Fresh
    <2>4. script' \in Bursts => \A m \in done' : answer'[m] \in {0, 200}
      BY <1>4, <1>5, <1>6, <2>1, <2>2 DEF Fresh, ChainOK
    <2>5. Fresh(x)'
      BY <1>1, <1>4, <1>5, <2>1, <2>3, <2>4 DEF Fresh, Asking
    <2>6. Holds(a, x)' /\ \A y : Holds(b, y)'
      BY <1>3, <1>5, <2>3, <2>4, <2>5 DEF Holds
    <2> QED BY <1>1, <1>2, <2>1, <2>6, StageReached DEF Step
  <1>8. ASSUME NEW kind, Unanswered(kind) PROVE StageOK'
    <2>1. done' = done /\ (Throw \/ (pc' = pc /\ batch' = batch /\ answer' = answer))
      BY <1>8 DEF Unanswered, Failed
    <2>2. CASE Throw
      BY <1>1, <1>2, <2>2, StageReached DEF Step
    <2>3. CASE pc' = pc /\ batch' = batch /\ answer' = answer
      <3>1. Fresh(x)'
        BY <1>4, <1>5, <2>1, <2>3 DEF Fresh
      <3>2. Holds(a, x)'
        BY <1>3, <1>5, <3>1 DEF Holds
      <3> QED BY <1>1, <1>2, <2>3, <3>2, StageReached DEF Step
    <2> QED BY <2>1, <2>2, <2>3
  <1>9. ASSUME NEW n \in todo, RelaySucceeds(n) PROVE StageOK'
    <2>1. n \in Spent' /\ Answered(n, 200) /\ 200 \in Statuses
      BY <1>6, <1>9 DEF RelaySucceeds, Spent, ChainOK, Statuses
    <2> QED BY <1>7, <2>1
  <1>10. ASSUME NEW n \in todo, RelayRefuses(n) PROVE StageOK'
    <2>1. PICK status \in {429, 409, 502} : Answered(n, status)
      BY <1>10 DEF RelayRefuses
    <2> QED BY <1>7, <2>1 DEF Statuses
  <1>11. ASSUME NEW n \in todo, Answered(n, 502) PROVE StageOK'
    BY <1>7, <1>11 DEF Statuses
  <1>12. \/ \E n \in todo : RelaySucceeds(n) \/ RelayRefuses(n) \/ Answered(n, 502)
         \/ \E kind : Unanswered(kind)
    BY DEF Relay
  <1> QED BY <1>8, <1>9, <1>10, <1>11, <1>12

\* The stage after the verdict of a relayer that was restarted.
LEMMA ProcessStage ==
    ASSUME ControlOK, StageOK, NotesOK, ChainOK, JournalsOK, RecoveryOK, script \notin Loose, Process
    PROVE  StageOK'
  <1> USE DEF fixed, control, rescue, chain, notes, journal, relayed
  <1>1. PICK x \in {"process", "post"}, a, b \in Stages :
           /\ x = Op /\ a = Stage(prog)[pc] /\ b = Stage(prog)[pc+1]
           /\ Edge(a, x, b) /\ Holds(a, x)
    BY AtStage DEF Process
  <1>2. \/ x = "process" /\ a = "clean" /\ b = "asked"
        \/ x = "post" /\ a = "marked" /\ b = "marked"
    BY <1>1, EdgesOf DEF Asking
  <1>3. Unfiled = {} /\ (x = "process" => Fresh("process"))
    BY <1>1, <1>2 DEF Holds
  <1>4. Spent \subseteq Spent' /\ Unfiled' = {} /\ UNCHANGED <<mem, script, answer>>
    BY <1>1, <1>3, Frame DEF Next, Step, Process
  <1>5. PICK n \in todo : \/ Finish(n, {n}) /\ spentBy' = [spentBy EXCEPT ![n] = "relayer"]
                          \/ Finish(n, {})
                          \/ Throw
    BY DEF Process, Unconfirmed
  <1>6. n \in Notes /\ n \in batch
    BY NotesAre DEF NotesOK
  <1>7. CASE Throw
    BY <1>1, <1>7, StageReached DEF Step, Process
  <1>8. CASE ~Throw
    <2>1. /\ batch' = batch /\ done' \subseteq {n} /\ (pc' = pc \/ pc' = pc + 1)
          /\ done' = {} \/ spentBy' = [spentBy EXCEPT ![n] = "relayer"]
      BY <1>5, <1>8 DEF Finish
    <2>2. done' \subseteq Spent'
      BY <1>6, <2>1 DEF Spent, ChainOK
    <2>3. ASSUME x = "process" PROVE Holds(a, x)' /\ \A y : Holds(b, y)'
      <3>1. \A m \in batch : answer[m] = 0
        BY <1>3, <2>3 DEF Fresh
      <3>2. Fresh("process")'
        BY <1>3, <1>4, <1>6, <2>1, <2>2, <2>3, <3>1 DEF Fresh, Asking
      <3> QED BY <1>2, <1>4, <1>6, <2>1, <2>2, <2>3, <3>1, <3>2 DEF Holds
    <2>4. ASSUME x = "post" PROVE Holds(a, x)' /\ \A y : Holds(b, y)'
      BY <1>2, <1>4, <2>4 DEF Holds
    <2>5. Holds(a, x)' /\ \A y : Holds(b, y)'
      BY <2>3, <2>4
    <2> QED BY <1>1, <2>1, <2>5, StageReached DEF Step, Process
  <1> QED BY <1>7, <1>8

\* The stage after a look at the answers of a scenario.
LEMMA HaltStage ==
    ASSUME ControlOK, StageOK, NotesOK, ChainOK, JournalsOK, RecoveryOK, script \notin Loose, Halt
    PROVE  StageOK'
  <1> USE DEF fixed, control, rescue, chain, notes, journal, relayed
  <1>1. PICK a, b \in Stages : /\ a = Stage(prog)[pc] /\ b = Stage(prog)[pc+1]
                               /\ Edge(a, "halt", b) /\ Holds(a, "halt")
    BY AtStage DEF Halt
  <1>2. a = "marked" /\ b = "marked"
    BY <1>1, EdgesOf
  <1>3. Op = "halt" /\ (pc' = Len(prog) + 1 \/ pc' = pc + 1)
    BY DEF Halt, Advance
  <1>4. Unfiled = {} => Unfiled' = {}
    BY <1>3, Frame DEF Next, Step
  <1>5. ASSUME NEW x PROVE Holds(b, x)'
    BY <1>1, <1>2, <1>4 DEF Holds
  <1> QED BY <1>1, <1>3, <1>5, StageReached DEF Step

\* The stage when every note of a scenario has been withdrawn.
LEMMA EnsureStage ==
    ASSUME ControlOK, StageOK, NotesOK, ChainOK, JournalsOK, RecoveryOK, script \notin Loose, Ensure
    PROVE  StageOK'
  <1> USE DEF fixed, control, rescue, chain, notes, journal, relayed
  <1>1. PICK a, b \in Stages : /\ a = Stage(prog)[pc] /\ b = Stage(prog)[pc+1]
                               /\ Edge(a, "ensure", b) /\ Holds(a, "ensure")
    BY AtStage DEF Ensure
  <1>2. a = "asked" /\ b = "ensured"
    BY <1>1, EdgesOf
  <1>3. Op = "ensure" /\ done' = done /\ (Throw \/ (pc' = pc + 1 /\ batch' = batch /\ batch \subseteq done))
    BY DEF Ensure, Advance
  <1>4. Spent \subseteq Spent' /\ (Unfiled = {} => Unfiled' = {})
    BY <1>3, Frame DEF Next, Step
  <1>5. CASE Throw
    BY <1>1, <1>3, <1>5, StageReached DEF Step
  <1>6. CASE pc' = pc + 1 /\ batch' = batch /\ batch \subseteq done
    <2>1. ASSUME NEW x PROVE Holds(b, x)'
      BY <1>1, <1>2, <1>3, <1>4, <1>6 DEF Holds
    <2> QED BY <1>1, <1>3, <1>6, <2>1, StageReached DEF Step
  <1> QED BY <1>3, <1>5, <1>6

\* The stage when a scenario ends, and at both ends of a try block.
LEMMA NextStage ==
    ASSUME ControlOK, StageOK, NotesOK, ChainOK, JournalsOK, RecoveryOK, script \notin Loose, NextScenario
    PROVE  StageOK'
  <1> USE DEF fixed, control, rescue, chain, notes, journal, relayed
  <1>1. PICK x \in {"next", "try", "catch"} : x = Op
    BY DEF NextScenario
  <1>2. PICK a, b \in Stages : /\ a = Stage(prog)[pc] /\ b = Stage(prog)[pc+1]
                               /\ Edge(a, x, b) /\ Holds(a, x)
    BY <1>1, AtStage
  <1>3. pc' = pc + 1 /\ UNCHANGED <<mem, answer, script>>
    BY DEF NextScenario, Advance
  <1>4. Spent \subseteq Spent' /\ (Unfiled = {} => Unfiled' = {})
    BY <1>1, Frame DEF Next, Step
  <1>5. ASSUME NEW y PROVE Holds(b, y)'
    <2>1. CASE x = "next"
      <3>1. b = "clean"
        BY <1>2, <2>1, EdgesOf
      <3>2. batch' = {} /\ done' = {}
        BY <1>1, <2>1 DEF NextScenario, Advance
      <3>3. Unfiled' = {} /\ Fresh(y)'
        BY <3>2 DEF Unfiled, Fresh
      <3> QED BY <3>1, <3>3 DEF Holds
    <2>2. CASE x = "try"
      <3>1. a = "clean" /\ b = "clean"
        BY <1>2, <2>2, EdgesOf
      <3>2. batch' = batch /\ done' = done
        BY <1>1, <2>2 DEF NextScenario, Advance
      <3>3. Fresh(y)'
        BY <1>2, <1>3, <1>4, <2>2, <3>1, <3>2 DEF Holds, Fresh, Asking
      <3> QED BY <1>2, <1>4, <3>1, <3>3 DEF Holds
    <2>3. CASE x = "catch"
      <3>1. b = "caught"
        BY <1>2, <2>3, EdgesOf
      <3> QED BY <3>1 DEF Holds
    <2> QED BY <1>1, <2>1, <2>2, <2>3
  <1> QED BY <1>1, <1>2, <1>3, <1>5, StageReached DEF Step

\* What holds at a stage is not disturbed by the cluster or by what others withdraw.
LEMMA HoldsStays ==
    ASSUME NEW s, NEW op, Holds(s, op), UNCHANGED <<script, control, journal, answer>>,
           flight' \union landed' \subseteq flight \union landed, Spent \subseteq Spent'
    PROVE  Holds(s, op)'
  <1> USE DEF control, journal
  <1>1. Unfiled = {} => Unfiled' = {}
    BY DEF Unfiled
  <1>2. Fresh(op) => Fresh(op)'
    BY DEF Fresh
  <1> QED BY <1>1, <1>2 DEF Holds

\* The part on the stages of the program.
LEMMA StageKept ==
    ASSUME ControlOK, StageOK, NotesOK, ChainOK, JournalsOK, RecoveryOK, Next
    PROVE  StageOK'
  <1> USE DEF fixed, control, rescue, chain, notes, journal, relayed
  <1>1. script' = script
    <2>1. Step => script' = script
      BY Moves
    <2> QED BY <2>1 DEF Next, Crash, Stop, Start, Recovery, RecoverSkips, Recover, RecoveryEnds, RecoveryCrashes,
                      StartRecovery, Land, Execute
  <1>2. CASE script \in Loose
    BY <1>1, <1>2 DEF StageOK
  <1>3. CASE script \notin Loose
    <2>1. CASE Exit \/ Crash
      <3>1. pc' = 0
        BY <2>1 DEF Exit, Crash, Stop
      <3> QED BY <3>1 DEF StageOK, At
    <2>2. CASE Step /\ ~Exit
      BY <1>3, <2>2, PersistStage, OpenStage, ReuseStage, DepositStage, LookStage, PlanStage, DepositedStage,
         CreateStage, NothingStage, SendStage, SettleStage, WithdrawStage, EachStage, MarkStage,
         UnresolvedStage, RescueStage, RelayStage, ProcessStage, HaltStage, EnsureStage, NextStage DEF Step
    <2>3. ASSUME NEW p \in Programs[script], Start(p) PROVE StageOK'
      <3>1. /\ prog' = p /\ pc' = 1 /\ \A n \in Notes : answer'[n] = 0
            /\ batch' = {} /\ done' = {} /\ mem' = Empty
        BY <2>3 DEF Start, NotesOK, JournalsOK
      <3>2. Stage(p)[1] \in {"begin", "clean"}
        BY <1>3, StageOf DEF ControlOK
      <3>3. Unfiled' = {}
        BY <3>1 DEF Unfiled
      <3>4. ASSUME NEW op PROVE Fresh(op)'
        BY <3>1 DEF Fresh
      <3>5. ASSUME NEW op, NEW s \in {"begin", "clean"} PROVE Holds(s, op)'
        BY <3>1, <3>3, <3>4 DEF Holds
      <3>6. ASSUME NEW s, NEW op, At(s, op)' PROVE s = Stage(p)[1]
        BY <3>1, <3>6 DEF At
      <3> QED BY <3>2, <3>5, <3>6 DEF StageOK
    <2>4. CASE RecoverSkips \/ Recover \/ RecoveryEnds \/ RecoveryCrashes
               \/ \E dry, planned \in BOOLEAN : StartRecovery(dry, planned)
      <3>1. pc' = 0
        BY <2>4 DEF RecoverSkips, Recover, RecoveryEnds, RecoveryCrashes, StartRecovery, RecoveryOK, Running
      <3> QED BY <3>1 DEF StageOK, At
    <2>5. CASE \/ (\E n \in Notes : Land(n))
               \/ (\E n \in Notes, who \in {"script", "relayer", "recovery"} : Execute(n, who))
      <3>1. UNCHANGED <<fixed, control, journal, answer>> /\ flight' \union landed' \subseteq flight \union landed
        BY <2>5 DEF Land, Execute
      <3>2. Spent \subseteq Spent'
        BY SpentGrows DEF Spent
      <3>3. ASSUME NEW s, NEW op, At(s, op)' PROVE At(s, op)
        BY <3>1, <3>3 DEF At
      <3>4. ASSUME NEW s, NEW op, At(s, op)' PROVE Holds(s, op)'
        <4>1. Holds(s, op)
          BY <1>3, <3>3, <3>4 DEF StageOK
        <4> QED BY <3>1, <3>2, <4>1, HoldsStays
      <3> QED BY <3>4 DEF StageOK
    <2> QED BY <2>1, <2>2, <2>3, <2>4, <2>5 DEF Next, Recovery
  <1> QED BY <1>2, <1>3

\* A step keeps the invariant.
LEMMA InvKept ==
    ASSUME Inv, Next
    PROVE  Inv'
  BY ControlKept, NotesKept, ChainKept, JournalsKept, MarksKept, RecoveryKept, RiskKept, StageKept DEF Inv

\* The invariant holds in the beginning.
LEMMA InvBegins ==
    ASSUME Init
    PROVE  Inv
  <1>1. /\ DOMAIN Empty = {} /\ Empty \in Journals /\ Idle \in Recoveries /\ Idle.on = FALSE
        /\ Idle.todo = {} /\ Idle.copy = Empty
    BY EmptyIs, IdleIs
  <1>2. ControlOK
    <2>1. <<>> \in Seq(Steps) /\ Len(<<>>) = 0
      BY EmptySeq
    <2> QED BY <2>1, NoteJournalAssumption DEF Init, ControlOK, Running
  <1>3. NotesOK
    BY NoteJournalAssumption DEF Init, NotesOK, Running
  <1>4. ChainOK
    BY DEF Init, ChainOK, Payers, Statuses
  <1>5. JournalsOK
    BY <1>1 DEF Init, JournalsOK, Running
  <1>6. RecoveryOK
    BY <1>1 DEF Init, RecoveryOK
  <1>7. RiskOK
    BY DEF Init, RiskOK, Unfiled
  <1>8. StageOK
    BY DEF Init, StageOK, At
  <1>9. WithdrawnIsSpent
    BY <1>1 DEF Init, WithdrawnIsSpent
  <1> QED BY <1>2, <1>3, <1>4, <1>5, <1>6, <1>7, <1>8, <1>9 DEF Inv

\* The invariant holds throughout.
LEMMA InvAlways == Spec => []Inv
  <1>1. Init => Inv
    BY InvBegins
  <1>2. ASSUME Inv, UNCHANGED vars PROVE Inv'
    <2>1. UNCHANGED <<chain, journal, notes, relayed, control, rescue, fixed>>
      BY <1>2 DEF vars
    <2>2. /\ UNCHANGED <<script, prog, pc, tries, batch, todo, done, mem, file>>
          /\ UNCHANGED <<next, first, flight, landed, pend, spentBy, accepted, answer, rec, faults, runs, recoveries>>
      BY <2>1 DEF chain, journal, notes, relayed, control, rescue, fixed
    <2>3. ControlOK' /\ NotesOK' /\ ChainOK'
      BY <1>2, <2>2 DEF Inv, ControlOK, NotesOK, ChainOK, Running
    <2>4. JournalsOK'
      BY <1>2, <2>2 DEF Inv, JournalsOK, Running
    <2>5. RecoveryOK'
      BY <1>2, <2>2 DEF Inv, RecoveryOK, Running
    <2>6. RiskOK' /\ WithdrawnIsSpent'
      BY <1>2, <2>2 DEF Inv, RiskOK, Unfiled, WithdrawnIsSpent
    <2>7. StageOK'
      <3>1. Spent \subseteq Spent' /\ flight' \union landed' \subseteq flight \union landed
        BY <2>2 DEF Spent
      <3>2. ASSUME script' \notin Loose, NEW s, NEW op, At(s, op)' PROVE Holds(s, op)'
        <4>1. At(s, op) /\ script \notin Loose
          BY <2>2, <3>2 DEF At
        <4>2. Holds(s, op)
          BY <1>2, <4>1 DEF Inv, StageOK
        <4> QED BY <2>2, <3>1, <4>2, HoldsStays DEF control, journal
      <3> QED BY <3>2 DEF StageOK
    <2> QED BY <2>3, <2>4, <2>5, <2>6, <2>7 DEF Inv
  <1>3. Inv /\ [Next]_vars => Inv'
    BY <1>2, InvKept
  <1> QED BY <1>1, <1>3, PTL DEF Spec

-----------------------------------------------------------------------------
(* What it shows.                                                          *)

\* The script, its notes, the journals and the recovery are what they are meant to be.
THEOREM TypeCorrect == Spec => []TypeOK
  <1>1. ASSUME Inv PROVE TypeOK
    <2>1. /\ pc \in 0..(Len(prog) + 1) /\ tries \in 0..Retries
          /\ batch \subseteq 1..(next - 1) /\ todo \subseteq batch /\ done \subseteq batch
          /\ flight \intersect landed = {} /\ flight \union landed \subseteq 1..(next - 1)
          /\ rec.todo \subseteq DOMAIN rec.copy /\ rec.tries \in 0..Retries
      BY <1>1 DEF Inv, ControlOK, NotesOK, RecoveryOK, Recoveries
    <2>2. /\ DOMAIN mem \subseteq 1..(next - 1) /\ DOMAIN file \subseteq 1..(next - 1)
          /\ DOMAIN rec.copy \subseteq 1..(next - 1)
      BY <1>1, EmptyIs, IdleIs DEF Inv, JournalsOK, RecoveryOK
    <2>3. mem \in Journals /\ file \in Journals /\ rec.copy \in Journals
      BY <1>1 DEF Inv, JournalsOK, RecoveryOK, Recoveries
    <2>4. ASSUME NEW f \in {mem, file, rec.copy}, NEW n \in DOMAIN f
          PROVE  n < next /\ f[n].state \in {"planned", "confirmed", "failed"}
      <3>1. n \in 1..(next - 1) /\ next \in Nat
        BY <1>1, <2>2 DEF Inv, NotesOK
      <3>2. f[n] \in NoteRecords
        BY <2>3, JournalIs
      <3> QED BY <3>1, <3>2 DEF NoteRecords
    <2> QED BY <2>1, <2>4 DEF TypeOK
  <1> QED BY <1>1, InvAlways, PTL

\* What a journal calls withdrawn has been withdrawn by somebody, in memory, on disk
\* and in the copy of the recovery script alike.
THEOREM MarksAreTrue == Spec => []WithdrawnIsSpent
  <1>1. Inv => WithdrawnIsSpent
    BY DEF Inv
  <1> QED BY <1>1, InvAlways, PTL

\* At any point, a crash included, a script that keeps a journal has at most one
\* deposit that its journal does not know.
THEOREM AtMostOneAtRisk == Spec => []OneAtRisk
  <1>1. ASSUME Inv, script \in Keeping \union {"seed"} PROVE Cardinality(Unfiled) <= 1
    <2>1. \A m, n \in Unfiled : m = n
      BY <1>1 DEF Inv, RiskOK, Keeping, Loose
    <2>2. CASE Unfiled = {}
      BY <2>2, FS_EmptySet
    <2>3. CASE Unfiled # {}
      <3>1. PICK n : Unfiled = {n}
        BY <2>1, <2>3
      <3> QED BY <3>1, FS_Singleton
    <2> QED BY <2>2, <2>3
  <1>2. Inv => OneAtRisk
    BY <1>1 DEF OneAtRisk, Unfiled
  <1> QED BY <1>2, InvAlways, PTL

\* Every note of its journal that is still in the pool when a recovery is over is
\* reported as failed, unless the run that made it had given it up.
THEOREM NothingLeftUnreported == Spec => []RecoveredOrReported
  <1>1. ASSUME Inv PROVE RecoveredOrReported
    <2> SUFFICES ASSUME rec.on, rec.todo = {}, ~rec.dry, rec.planned, NEW n \in DOMAIN rec.copy,
                        spentBy[n] = "nobody"
                 PROVE  rec.copy[n].state = "failed" \/ rec.attempts[n] = "failed"
      BY DEF RecoveredOrReported
    <2> QED BY <1>1 DEF Inv, RecoveryOK
  <1> QED BY <1>1, InvAlways, PTL

\* A note on file leaves it only when a later run begins with a fresh journal.
THEOREM FileIsKept == Spec => KeptOnFile
  <1> DEFINE Kept == \A n \in DOMAIN file \ DOMAIN file' : Running /\ n < first /\ prog[1] # "load"
  <1>1. ASSUME Inv, Next PROVE Kept
    <2> USE DEF fixed, control, rescue, chain, notes, journal
    <2>1. CASE Persist
      <3>1. Running /\ Op = "persist" /\ Op = prog[pc] /\ file' = mem
        BY <1>1, <2>1, AtStep DEF Inv, Persist
      <3>2. ASSUME NEW n \in DOMAIN file, n \notin DOMAIN mem PROVE n < first /\ (prog[1] = "load" => pc = 1)
        BY <1>1, <3>1, <3>2 DEF Inv, JournalsOK
      <3> QED BY <3>1, <3>2
    <2>2. CASE Open
      <3>1. Running /\ Op = "open" /\ Op = prog[pc] /\ pc = 1 /\ mem = Empty
        BY <1>1, <2>2, AtStep, Before DEF Inv, Open
      <3>2. \A n \in DOMAIN file : n < first
        BY <1>1, <3>1, EmptyIs DEF Inv, JournalsOK
      <3> QED BY <3>1, <3>2
    <2>3. CASE Step /\ ~Persist /\ ~Open
      <3>1. file' = file
        BY <2>3 DEF Step, Load, Reuse, Deposit, Await, Check, Plan, RecordNote, Deposited, Create, Nothing,
                    Send, Settle, WithdrawNote, WithdrawEach, Mark, Unresolved, RescueNote, Relay, Process,
                    Halt, Ensure, NextScenario, Exit, Stop
      <3> QED BY <3>1
    <2>4. CASE Crash \/ (\E p \in Programs[script] : Start(p)) \/ Recovery \/ RecoveryCrashes
               \/ (\E dry, planned \in BOOLEAN : StartRecovery(dry, planned)) \/ (\E n \in Notes : Land(n))
               \/ (\E n \in Notes, who \in {"script", "relayer", "recovery"} : Execute(n, who))
      <3>1. file' = file \/ (rec.on /\ file' = rec.copy)
        BY <2>4 DEF Crash, Stop, Start, Recovery, RecoverSkips, Recover, RecoveryEnds, RecoveryCrashes,
                    StartRecovery, Land, Execute
      <3>2. DOMAIN file' = DOMAIN file
        BY <1>1, <3>1 DEF Inv, RecoveryOK
      <3> QED BY <3>2
    <2> QED BY <1>1, <2>1, <2>2, <2>3, <2>4 DEF Next
  <1>2. Inv /\ [Next]_vars => [Kept]_vars
    BY <1>1
  <1>3. KeptOnFile <=> [][Kept]_vars
    BY DEF KeptOnFile
  <1> QED BY <1>2, <1>3, InvAlways, PTL DEF Spec

-----------------------------------------------------------------------------
(* What a run may put into the pool.                                       *)

\* How often op is among the first k steps of p, and how many notes these make at most.
Ticks(p, op, k) == Cardinality({i \in 1..k : p[i] = op})
Cost(p, k)      == Ticks(p, "deposit", k) + Ticks(p, "depositRetry", k) + Burst * Ticks(p, "create", k)
                   + Retries * Ticks(p, "depositRetry", k)

\* A deposit the script is at has made one more note for every attempt that failed.
CostOK == Running => next - first <= Cost(prog, pc - 1) + (IF Op = "depositRetry" THEN tries ELSE 0)

\* Counting the steps of a program.
LEMMA TicksAre ==
    ASSUME NEW p, NEW op, NEW k \in Nat
    PROVE  /\ Ticks(p, op, k) \in Nat
           /\ Ticks(p, op, k + 1) = Ticks(p, op, k) + (IF p[k + 1] = op THEN 1 ELSE 0)
           /\ \A l \in 0..k : Ticks(p, op, l) <= Ticks(p, op, k)
  <1> DEFINE T(l) == {i \in 1..l : p[i] = op}
  <1>1. \A l \in Nat : IsFiniteSet(T(l)) /\ Cardinality(T(l)) \in Nat
    <2>1. ASSUME NEW l \in Nat PROVE IsFiniteSet(T(l))
      <3>1. IsFiniteSet(1..l)
        BY FS_Interval
      <3>2. T(l) \subseteq 1..l
        OBVIOUS
      <3> QED BY <3>1, <3>2, FS_Subset
    <2> QED BY <2>1, FS_CardinalityType
  <1>2. ASSUME p[k + 1] = op PROVE Cardinality(T(k + 1)) = Cardinality(T(k)) + 1
    <2>1. T(k + 1) = T(k) \union {k + 1} /\ k + 1 \notin T(k)
      BY <1>2
    <2>2. IsFiniteSet(T(k))
      BY <1>1
    <2> HIDE DEF T
    <2> QED BY <2>1, <2>2, FS_AddElement
  <1>3. ASSUME p[k + 1] # op PROVE Cardinality(T(k + 1)) = Cardinality(T(k))
    <2>1. T(k + 1) = T(k)
      BY <1>3
    <2> HIDE DEF T
    <2> QED BY <2>1
  <1>4. Cardinality(T(k + 1)) = Cardinality(T(k)) + (IF p[k + 1] = op THEN 1 ELSE 0)
    <2>1. PICK c \in Nat : c = Cardinality(T(k))
      BY <1>1
    <2> HIDE DEF T
    <2> QED BY <1>2, <1>3, <2>1
  <1>5. ASSUME NEW l \in 0..k PROVE Cardinality(T(l)) <= Cardinality(T(k))
    <2>1. T(l) \subseteq T(k)
      OBVIOUS
    <2> HIDE DEF T
    <2> QED BY <1>1, <2>1, FS_Subset
  <1>6. Cardinality(T(k)) \in Nat
    BY <1>1
  <1> QED BY <1>4, <1>5, <1>6 DEF Ticks

\* What is more often costs more.
LEMMA TimesMore == \A c, x, y \in Nat : x <= y => c * x \in Nat /\ c * x <= c * y
  <1> SUFFICES ASSUME NEW c \in Nat, NEW x \in Nat, NEW y \in Nat, x <= y
               PROVE  c * x \in Nat /\ c * x <= c * y
    OBVIOUS
  <1>1. PICK d \in Nat : y = x + d
    <2>1. y - x \in Nat /\ y = x + (y - x)
      OBVIOUS
    <2> QED BY <2>1
  <1>2. c * x \in Nat /\ c * d \in Nat
    OBVIOUS
  <1>3. c * y = c * x + c * d
    BY <1>1
  <1> QED BY <1>2, <1>3

\* The notes a part of a program makes are no more than those of a longer part.
LEMMA CostIs ==
    ASSUME NEW p, NEW k \in Nat
    PROVE  /\ Cost(p, k) \in Nat
           /\ \A l \in 0..k : Cost(p, l) <= Cost(p, k)
           /\ p[k + 1] = "deposit" => Cost(p, k) + 1 <= Cost(p, k + 1)
           /\ p[k + 1] = "depositRetry" => Cost(p, k) + 1 + Retries <= Cost(p, k + 1)
           /\ p[k + 1] = "create" => Cost(p, k) + Burst <= Cost(p, k + 1)
  <1>1. ASSUME NEW l \in Nat
        PROVE  Ticks(p, "deposit", l) \in Nat /\ Ticks(p, "depositRetry", l) \in Nat /\ Ticks(p, "create", l) \in Nat
    BY TicksAre
  <1>2. Burst \in Nat /\ Retries \in Nat
    BY NoteJournalAssumption
  <1>3. ASSUME NEW l \in Nat
        PROVE  Burst * Ticks(p, "create", l) \in Nat /\ Retries * Ticks(p, "depositRetry", l) \in Nat
    BY <1>1, <1>2, TimesMore
  <1>4. ASSUME NEW l \in Nat PROVE Cost(p, l) \in Nat
    <2>1. PICK a, b, c, d \in Nat :
             /\ a = Ticks(p, "deposit", l) /\ b = Ticks(p, "depositRetry", l)
             /\ c = Burst * Ticks(p, "create", l) /\ d = Retries * Ticks(p, "depositRetry", l)
      BY <1>1, <1>3
    <2> QED BY <2>1 DEF Cost
  <1>5. ASSUME NEW l \in Nat, NEW j \in Nat,
               Ticks(p, "deposit", l) <= Ticks(p, "deposit", j),
               Ticks(p, "depositRetry", l) <= Ticks(p, "depositRetry", j),
               Ticks(p, "create", l) <= Ticks(p, "create", j)
        PROVE  Cost(p, l) <= Cost(p, j)
    <2>1. Burst * Ticks(p, "create", l) <= Burst * Ticks(p, "create", j)
      BY <1>1, <1>2, <1>5, TimesMore
    <2>2. Retries * Ticks(p, "depositRetry", l) <= Retries * Ticks(p, "depositRetry", j)
      BY <1>1, <1>2, <1>5, TimesMore
    <2>3. PICK a, b, c, d \in Nat :
             /\ a = Ticks(p, "deposit", l) /\ b = Ticks(p, "depositRetry", l)
             /\ c = Burst * Ticks(p, "create", l) /\ d = Retries * Ticks(p, "depositRetry", l)
      BY <1>1, <1>3
    <2>4. PICK e, f, g, h \in Nat :
             /\ e = Ticks(p, "deposit", j) /\ f = Ticks(p, "depositRetry", j)
             /\ g = Burst * Ticks(p, "create", j) /\ h = Retries * Ticks(p, "depositRetry", j)
      BY <1>1, <1>3
    <2> QED BY <1>5, <2>1, <2>2, <2>3, <2>4 DEF Cost
  <1>6. \A l \in 0..k : Cost(p, l) <= Cost(p, k)
    <2>1. ASSUME NEW l \in 0..k PROVE Cost(p, l) <= Cost(p, k)
      <3>1. /\ Ticks(p, "deposit", l) <= Ticks(p, "deposit", k)
            /\ Ticks(p, "depositRetry", l) <= Ticks(p, "depositRetry", k)
            /\ Ticks(p, "create", l) <= Ticks(p, "create", k)
        BY TicksAre
      <3> QED BY <1>5, <3>1
    <2> QED BY <2>1
  <1> DEFINE One(op) == IF p[k + 1] = op THEN 1 ELSE 0
  <1>7. /\ Ticks(p, "deposit", k + 1) = Ticks(p, "deposit", k) + One("deposit")
        /\ Ticks(p, "depositRetry", k + 1) = Ticks(p, "depositRetry", k) + One("depositRetry")
        /\ Ticks(p, "create", k + 1) = Ticks(p, "create", k) + One("create")
    BY TicksAre
  <1>8. PICK a, b, c \in Nat :
             a = Ticks(p, "deposit", k) /\ b = Ticks(p, "depositRetry", k) /\ c = Ticks(p, "create", k)
    BY <1>1
  <1>9. Cost(p, k) = a + b + Burst * c + Retries * b
    BY <1>8 DEF Cost
  <1>10. Burst * c \in Nat /\ Retries * b \in Nat
    BY <1>2, TimesMore
  <1>11. CASE p[k + 1] = "deposit"
    <2>1. Cost(p, k + 1) = (a + 1) + b + Burst * c + Retries * b
      BY <1>7, <1>8, <1>11 DEF Cost
    <2>2. Cost(p, k) + 1 <= Cost(p, k + 1)
      BY <1>9, <1>10, <2>1
    <2> QED BY <1>4, <1>6, <1>11, <2>2
  <1>12. CASE p[k + 1] = "depositRetry"
    <2>1. Cost(p, k + 1) = a + (b + 1) + Burst * c + Retries * (b + 1)
      BY <1>7, <1>8, <1>12 DEF Cost
    <2>2. Retries * (b + 1) = Retries * b + Retries
      BY <1>2
    <2>3. Cost(p, k) + 1 + Retries <= Cost(p, k + 1)
      BY <1>2, <1>9, <1>10, <2>1, <2>2
    <2> QED BY <1>4, <1>6, <1>12, <2>3
  <1>13. CASE p[k + 1] = "create"
    <2>1. Cost(p, k + 1) = a + b + Burst * (c + 1) + Retries * b
      BY <1>7, <1>8, <1>13 DEF Cost
    <2>2. Burst * (c + 1) = Burst * c + Burst
      BY <1>2
    <2>3. Cost(p, k) + Burst <= Cost(p, k + 1)
      BY <1>2, <1>9, <1>10, <2>1, <2>2
    <2> QED BY <1>4, <1>6, <1>13, <2>3
  <1> QED BY <1>4, <1>6, <1>11, <1>12, <1>13

\* The part on the notes a run has made so far.
LEMMA CostKept ==
    ASSUME Inv, CostOK, Next
    PROVE  CostOK'
  <1> USE DEF fixed, control, rescue, chain, notes
  <1>a. ControlOK /\ ControlOK' /\ NotesOK /\ NotesOK' /\ Burst \in Nat /\ Retries \in Nat
    BY ControlKept, NotesKept, NoteJournalAssumption DEF Inv
  <1>1. CASE Exit \/ Crash
    BY <1>1 DEF Exit, Crash, Stop, CostOK, Running
  <1>2. CASE Step /\ ~Exit
    <2>1. Running /\ Running' /\ prog' = prog /\ first' = first /\ pc' \in pc..(Len(prog) + 1)
      BY <1>2, <1>a, RunsOn, Moves
    <2>2. PICK k \in Nat : pc = k + 1
      <3>1. pc \in Nat /\ pc # 0
        BY <1>a, <2>1 DEF ControlOK, Running
      <3>2. pc - 1 \in Nat /\ pc = (pc - 1) + 1
        BY <3>1
      <3> QED BY <3>2
    <2>3. PICK l \in Nat : pc' = l + 1 /\ l >= k
      <3>1. pc' \in Nat /\ pc' >= k + 1
        <4>1. Len(prog) + 1 \in Nat
          BY <1>a DEF ControlOK
        <4> QED BY <2>1, <2>2, <4>1
      <3>2. PICK j \in Nat : j = pc' /\ j >= k + 1
        BY <3>1
      <3>a. j >= k + 1
        BY <3>2
      <3>3. j - 1 \in Nat /\ j = (j - 1) + 1 /\ j - 1 >= k
        BY <3>a
      <3> QED BY <3>2, <3>3
    <2>4. PICK m \in Nat : m = Cost(prog, k)
      BY CostIs
    <2>5. PICK m2 \in Nat : m2 = Cost(prog, l) /\ m <= m2
      <3>1. Cost(prog, l) \in Nat /\ Cost(prog, k) <= Cost(prog, l)
        BY <2>2, <2>3, CostIs
      <3> QED BY <2>4, <3>1
    <2>6. pc - 1 = k /\ pc' - 1 = l /\ (l = k \/ l > k) /\ (l = k => Op' = Op)
      BY <2>1, <2>2, <2>3 DEF Op
    <2>7. Op # "none" => prog[k + 1] = Op
      BY <1>a, <2>2, AtStep
    <2>8. ASSUME l > k
          PROVE  /\ Op = "deposit" => m + 1 <= m2
                 /\ Op = "depositRetry" => m + 1 + Retries <= m2
                 /\ Op = "create" => m + Burst <= m2
      <3>1. k + 1 \in 0..l
        BY <2>8
      <3>2. PICK m3 \in Nat : m3 = Cost(prog, k + 1) /\ m3 <= m2
        <4>1. Cost(prog, k + 1) \in Nat /\ Cost(prog, k + 1) <= Cost(prog, l)
          BY <3>1, CostIs
        <4> QED BY <2>5, <4>1
      <3>3. /\ prog[k + 1] = "deposit" => m + 1 <= m3
            /\ prog[k + 1] = "depositRetry" => m + 1 + Retries <= m3
            /\ prog[k + 1] = "create" => m + Burst <= m3
        BY <2>4, <3>2, CostIs
      <3>4. CASE Op = "deposit"
        BY <1>a, <2>7, <3>2, <3>3, <3>4
      <3>5. CASE Op = "depositRetry"
        BY <1>a, <2>7, <3>2, <3>3, <3>5
      <3>6. CASE Op = "create"
        BY <1>a, <2>7, <3>2, <3>3, <3>6
      <3> QED BY <3>4, <3>5, <3>6
    <2>9. PICK a, a2, b, t, t2 \in Nat :
             a = next /\ a2 = next' /\ b = first /\ t = tries /\ t2 = tries' /\ t <= Retries
      <3>1. MaxNotes + 1 \in Nat
        BY NoteJournalAssumption
      <3>2. tries' \in Nat
        BY <1>a DEF ControlOK
      <3>3. tries \in Nat /\ tries <= Retries
        BY <1>a DEF ControlOK
      <3> QED BY <1>a, <3>1, <3>2, <3>3 DEF NotesOK
    <2>10. (Op = "depositRetry" => a - b <= m + t) /\ (Op # "depositRetry" => a - b <= m)
      BY <2>1, <2>4, <2>6, <2>9 DEF CostOK
    <2>11. SUFFICES a2 - b <= m2 \/ (Op' = "depositRetry" /\ a2 - b <= m2 + t2)
      <3>1. CostOK' <=> a2 - b <= m2 + (IF Op' = "depositRetry" THEN t2 ELSE 0)
        BY <2>1, <2>5, <2>6, <2>9 DEF CostOK
      <3>2. Op' = "depositRetry" => (CostOK' <=> a2 - b <= m2 + t2)
        BY <3>1
      <3>3. Op' # "depositRetry" => (CostOK' <=> a2 - b <= m2)
        BY <3>1
      <3>4. a2 - b <= m2 => a2 - b <= m2 + t2
        OBVIOUS
      <3> QED BY <3>2, <3>3, <3>4
    <2>12. CASE Deposit
      <3>1. Op \in {"deposit", "depositRetry"} /\ a2 <= a + 1
        BY <1>a, <2>9, <2>12 DEF Deposit
      <3>2. \/ l > k
            \/ Op = "depositRetry" /\ l = k /\ t2 = t + 1
        <4>1. Advance(batch \union {next}) => pc' = pc + 1
          BY DEF Advance
        <4>2. Throw => pc' \in (pc+1)..(Len(prog) + 1)
          BY <1>a, <3>1, HandlerFacts DEF Throw
        <4>3. \/ pc' = pc + 1 \/ Throw \/ (Op = "depositRetry" /\ pc' = pc /\ tries' = tries + 1)
          BY <2>12, <4>1 DEF Deposit, Failed
        <4>4. Throw => pc' >= pc + 1
          BY <1>a, <4>2 DEF ControlOK
        <4> QED BY <2>2, <2>3, <2>9, <4>3, <4>4
      <3>3. CASE Op = "deposit"
        BY <2>8, <2>10, <3>1, <3>2, <3>3
      <3>4. CASE Op = "depositRetry" /\ l > k
        <4>1. m + 1 + Retries <= m2 /\ a - b <= m + t
          BY <2>8, <2>10, <3>4
        <4>2. t <= Retries /\ a2 <= a + 1 /\ Retries \in Nat
          BY <1>a, <2>9, <3>1
        <4> QED BY <4>1, <4>2
      <3>5. CASE Op = "depositRetry" /\ l = k /\ t2 = t + 1
        <4>1. a2 - b <= m2 + t2
          BY <2>5, <2>10, <3>1, <3>5
        <4> QED BY <2>6, <3>5, <4>1
      <3> QED BY <3>1, <3>2, <3>3, <3>4, <3>5
    <2>13. CASE Create
      <3>1. Op = "create" /\ a2 = a + Burst /\ pc' = pc + 1
        BY <2>9, <2>13 DEF Create, Advance
      <3>2. l > k
        BY <2>2, <2>3, <3>1
      <3>3. m + Burst <= m2 /\ a - b <= m
        BY <2>8, <2>10, <3>1, <3>2
      <3> QED BY <1>a, <3>1, <3>3
    <2>14. CASE ~Deposit /\ ~Create
      <3>1. next' = next /\ Op # "depositRetry"
        BY <1>2, <2>14 DEF Step, Persist, Open, Load, Reuse, Await, Check, Plan, RecordNote, Deposited, Nothing,
                    Send, Settle, WithdrawNote, WithdrawEach, Mark, Unresolved, RescueNote, Relay, Process,
                    Halt, Ensure, NextScenario
      <3>2. a2 = a
        BY <2>9, <3>1
      <3> QED BY <2>5, <2>10, <3>1, <3>2
    <2> QED BY <2>12, <2>13, <2>14
  <1>3. ASSUME NEW p \in Programs[script], Start(p) PROVE CostOK'
    <2>1. pc' = 1 /\ next' = next /\ first' = next /\ prog' = p /\ 1 - 1 = 0
      BY <1>3 DEF Start
    <2>2. next \in Nat /\ tries' \in Nat /\ Cost(p, 0) \in Nat
      <3>1. MaxNotes + 1 \in Nat
        BY NoteJournalAssumption
      <3>2. tries' \in Nat
        BY <1>a DEF ControlOK
      <3> QED BY <1>a, <3>1, <3>2, CostIs DEF NotesOK
    <2>3. next' - first' = 0 /\ Cost(prog', pc' - 1) = Cost(p, 0)
      BY <2>1, <2>2
    <2> QED BY <2>2, <2>3 DEF CostOK
  <1>4. CASE RecoverSkips \/ Recover \/ RecoveryEnds \/ RecoveryCrashes
             \/ (\E dry, planned \in BOOLEAN : StartRecovery(dry, planned))
             \/ \E n \in Notes : Land(n) \/ \E who \in {"script", "relayer", "recovery"} : Execute(n, who)
    <2>1. UNCHANGED <<next, first, prog, pc, tries>>
      BY <1>4 DEF RecoverSkips, Recover, RecoveryEnds, RecoveryCrashes, StartRecovery, Land, Execute
    <2> QED BY <2>1 DEF CostOK, Running, Op
  <1> QED BY <1>1, <1>2, <1>3, <1>4 DEF Next, Recovery

\* The guardrail's figure, and a retry of each deposit, bound what a run puts into the pool.
THEOREM ExposureIsBounded == Spec => []ExposureBounded
  <1>1. Init => CostOK
    BY DEF Init, CostOK, Running
  <1>2. ASSUME Inv, CostOK, [Next]_vars PROVE CostOK'
    <2>1. CASE Next
      BY <1>2, <2>1, CostKept
    <2>2. CASE UNCHANGED vars
      <3>1. UNCHANGED <<next, first, prog, pc, tries>>
        BY <2>2 DEF vars, notes, fixed, control
      <3> QED BY <1>2, <3>1 DEF CostOK, Running, Op
    <2> QED BY <1>2, <2>1, <2>2
  <1>3. ASSUME Inv, CostOK, Running PROVE Cardinality({n \in landed \union flight : n >= first}) <= Exposure(prog)
    <2>1. PICK m \in Nat : m = Len(prog)
      BY <1>3 DEF Inv, ControlOK
    <2>2. PICK k \in 0..m : k = pc - 1
      BY <1>3, <2>1 DEF Inv, ControlOK, Running
    <2>3. \A op : Ticks(prog, op, m) = Count(prog, op)
      <3>1. DOMAIN prog = 1..m
        BY <1>3, <2>1 DEF Inv, ControlOK
      <3> QED BY <3>1 DEF Ticks, Count
    <2>4. Cost(prog, m) = Exposure(prog)
      BY <2>3 DEF Cost, Exposure, Planned
    <2>5. next \in Nat /\ first \in Nat /\ first <= next /\ first > 0 /\ tries \in 0..Retries /\ Retries \in Nat
      BY <1>3, NoteJournalAssumption DEF Inv, NotesOK, ControlOK
    <2>6. next - first <= Cost(prog, m)
      <3>1. Cost(prog, k) \in Nat /\ Cost(prog, m) \in Nat /\ Cost(prog, k) <= Cost(prog, m)
        BY <2>2, CostIs
      <3>2. next - first <= Cost(prog, k) + (IF Op = "depositRetry" THEN tries ELSE 0)
        BY <1>3, <2>2 DEF CostOK
      <3>3. CASE Op = "depositRetry"
        <4>1. pc \in 1..m /\ prog[pc] = "depositRetry"
          BY <1>3, <2>1, <3>3, AtStep DEF Inv
        <4>2. k + 1 = pc /\ k + 1 \in 0..m
          BY <2>2, <4>1
        <4>3. Cost(prog, k) + 1 + Retries <= Cost(prog, k + 1) /\ Cost(prog, k + 1) <= Cost(prog, m)
          BY <4>1, <4>2, <2>2, CostIs
        <4>4. Cost(prog, k + 1) \in Nat
          BY <4>2, CostIs
        <4> QED BY <2>5, <3>1, <3>2, <3>3, <4>3, <4>4
      <3>4. CASE Op # "depositRetry"
        BY <2>5, <3>1, <3>2, <3>4
      <3> QED BY <3>3, <3>4
    <2> DEFINE D == {n \in landed \union flight : n >= first}
    <2>7. D \subseteq first..(next - 1)
      <3>1. landed \union flight \subseteq 1..(next - 1)
        BY <1>3 DEF Inv, NotesOK
      <3>2. ASSUME NEW n \in 1..(next - 1), n >= first PROVE n \in first..(next - 1)
        BY <2>5, <3>2
      <3> QED BY <3>1, <3>2
    <2>8. IsFiniteSet(first..(next - 1)) /\ Cardinality(first..(next - 1)) = next - first
      <3>1. next - 1 \in Int /\ first \in Int /\ (next - 1) - first + 1 = next - first
        BY <2>5
      <3>2. first > next - 1 => next - first = 0
        BY <2>5
      <3> QED BY <3>1, <3>2, FS_Interval
    <2>9. Cardinality(D) <= next - first /\ Cardinality(D) \in Nat
      <3> HIDE DEF D
      <3> QED BY <2>7, <2>8, FS_Subset, FS_CardinalityType
    <2>10. Cost(prog, m) \in Nat
      BY CostIs
    <2> HIDE DEF D
    <2>11. Cardinality(D) <= Cost(prog, m)
      BY <2>5, <2>6, <2>9, <2>10
    <2> QED BY <2>4, <2>11 DEF D
  <1>4. Inv /\ CostOK => ExposureBounded
    BY <1>3 DEF ExposureBounded
  <1>5. Inv /\ CostOK /\ [Next]_vars => CostOK'
    BY <1>2
  <1> QED BY <1>1, <1>4, <1>5, InvAlways, PTL DEF Spec

-----------------------------------------------------------------------------
(* What reconciliation tells of a burst.  A script that bursts withdraws   *)
(* nothing itself, so its notes go to the relayer or to a recovery.        *)

NotGivenUp == \A f \in {mem, file, rec.copy} : \A n \in DOMAIN f : f[n].state # "failed"

\* Before the first recovery a note is marked only if its request was answered 200,
\* or in an earlier run.
MarksAnswered ==
    recoveries = 0 => \A f \in {mem, file} : \A n \in DOMAIN f : f[n].withdrawn => answer[n] \in {0, 200}

Takers ==
    /\ \A n \in Notes : spentBy[n] # "script" /\ <<n, "script">> \notin pend
    /\ recoveries = 0 => \A n \in Notes : spentBy[n] # "recovery" /\ <<n, "recovery">> \notin pend
    /\ recoveries = 1 /\ rec.on /\ ~rec.lost =>
          \A n \in Notes : /\ <<n, "recovery">> \notin pend
                           /\ spentBy[n] = "recovery" => rec.attempts[n] = "recovered"

\* What the first recovery has found out about a note.
FoundOut(n) ==
    /\ rec.attempts[n] = "none" <=> n \in rec.todo
    /\ rec.attempts[n] = "recovered" => spentBy[n] = "recovery"
    /\ rec.attempts[n] = "already-withdrawn" /\ ~rec.lost => spentBy[n] = "relayer"
    /\ rec.attempts[n] = "skipped-withdrawn" => answer[n] \in {0, 200}
    /\ n \in rec.todo /\ rec.copy[n].withdrawn => answer[n] \in {0, 200}
    /\ rec.attempts[n] = "skipped-filtered" => ~rec.planned
    /\ rec.attempts[n] = "dry-run" => rec.dry

Findings == recoveries = 1 /\ rec.on => \A n \in DOMAIN rec.copy : FoundOut(n)
BurstOK  == script \in Bursts => NotGivenUp /\ MarksAnswered /\ Takers /\ Findings

\* What a script that bursts does not do.
LEMMA BurstOnly ==
    ASSUME ControlOK, script \in Bursts
    PROVE  ~Settle /\ ~WithdrawNote /\ ~WithdrawEach /\ ~RescueNote /\ ~Ensure /\ script \notin Loose
  <1>1. Op # "none" => Op \in BurstSteps
    BY AtStep, ProgramFacts DEF ControlOK
  <1>2. Op \notin {"settle", "withdraw", "withdrawRetry", "withdrawAll", "again", "rescue", "ensure"}
    BY <1>1 DEF BurstSteps
  <1> QED BY <1>2 DEF Settle, WithdrawNote, WithdrawEach, RescueNote, Ensure, Bursts, Loose

\* Such a script never comes to a mark after an ensure, as it has none.
LEMMA NeverEnsured ==
    ASSUME ControlOK, script \in Bursts, Op # "none"
    PROVE  Stage(prog)[pc] # "ensured"
  <1>1. pc \in 1..Len(prog) /\ prog \in Programs[script] /\ script \in Scripts
    BY AtStep DEF ControlOK
  <1>2. script \notin Loose
    BY DEF Bursts, Loose
  <1>3. prog \in Seq(BurstSteps) /\ Path(prog, Stage(prog)) /\ Stage(prog)[1] \in {"begin", "clean"}
    BY <1>1, <1>2, ProgramFacts, StageOf
  <1>4. PICK i \in 1..Len(prog) : i = pc
    BY <1>1
  <1>5. PICK f : f = Stage(prog)
    OBVIOUS
  <1>6. CASE i = 1
    BY <1>3, <1>4, <1>6
  <1>7. CASE i # 1
    <2>1. PICK m \in Nat : m = Len(prog)
      BY <1>3
    <2>2. PICK j \in 1..m : j + 1 = i
      BY <1>4, <1>7, <2>1
    <2>3. Edge(f[j], prog[j], f[i]) /\ prog[j] # "ensure"
      BY <1>3, <1>5, <2>1, <2>2 DEF Path, BurstSteps
    <2>4. f[i] # "ensured"
      BY <2>3 DEF Edge
    <2> QED BY <1>4, <1>5, <2>4
  <1> QED BY <1>6, <1>7

\* A note that such a script has put on file is not given up.
LEMMA NotGivenUpKept ==
    ASSUME Inv, script \in Bursts, NotGivenUp, Next
    PROVE  NotGivenUp'
  <1> USE DEF fixed, control, rescue, chain, notes, journal
  <1> DEFINE Good(f) == \A n \in DOMAIN f : f[n].state # "failed"
  <1>1. Good(mem) /\ Good(file) /\ Good(rec.copy) /\ Good(Empty)
    <2>1. Good(Empty)
      BY EmptyIs
    <2> QED BY <2>1 DEF NotGivenUp
  <1>2. ~Settle /\ ~RescueNote
    BY BurstOnly DEF Inv
  <1>3. Good(mem')
    <2>1. CASE Persist \/ Reuse \/ Deposit \/ Await \/ Check \/ Nothing \/ Send \/ WithdrawNote \/ WithdrawEach
               \/ Unresolved \/ Relay \/ Process \/ Halt \/ Ensure \/ NextScenario
               \/ (\E p \in Programs[script] : Start(p)) \/ RecoverSkips \/ Recover \/ RecoveryEnds \/ RecoveryCrashes
               \/ (\E dry, planned \in BOOLEAN : StartRecovery(dry, planned)) \/ (\E n \in Notes : Land(n))
               \/ (\E n \in Notes, who \in {"script", "relayer", "recovery"} : Execute(n, who))
      <3>1. mem' = mem
        BY <2>1 DEF Persist, Reuse, Deposit, Await, Check, Nothing, Send, WithdrawNote, WithdrawEach,
                    Unresolved, Relay, Process, Halt, Ensure, NextScenario, Start, RecoverSkips, Recover,
                    RecoveryEnds, RecoveryCrashes, StartRecovery, Land, Execute
      <3> QED BY <1>1, <3>1
    <2>2. CASE Open \/ Load \/ Exit \/ Crash
      <3>1. mem' = Empty \/ mem' = file
        BY <2>2 DEF Open, Load, Exit, Crash, Stop
      <3> QED BY <1>1, <3>1
    <2>3. CASE Plan \/ RecordNote \/ Create
      <3>1. \A n \in DOMAIN mem' : (n \in DOMAIN mem /\ mem'[n] = mem[n]) \/ mem'[n].state # "failed"
        <4>1. CASE Plan
          <5>1. mem' = [n \in (batch \ DOMAIN mem) \union DOMAIN mem |->
                         IF n \in batch \ DOMAIN mem THEN Record("planned") ELSE mem[n]]
            BY <4>1 DEF Plan, Upsert
          <5> QED BY <5>1 DEF Record
        <4>2. CASE RecordNote
          <5>1. mem' = [n \in (batch \ DOMAIN mem) \union DOMAIN mem |->
                         IF n \in batch \ DOMAIN mem THEN Record("confirmed") ELSE mem[n]]
            BY <4>2 DEF RecordNote, Upsert
          <5> QED BY <5>1 DEF Record
        <4>3. CASE Create
          <5> DEFINE Made == next..(next + Burst - 1)
          <5>1. mem' = [n \in Made \union DOMAIN mem |-> IF n \in Made THEN Record("planned") ELSE mem[n]]
            BY <4>3 DEF Create, Upsert
          <5> HIDE DEF Made
          <5> QED BY <5>1 DEF Record
        <4> QED BY <2>3, <4>1, <4>2, <4>3
      <3> QED BY <1>1, <3>1
    <2>4. CASE Deposited \/ Mark
      <3>1. DOMAIN mem' = DOMAIN mem /\ \A n \in DOMAIN mem : mem'[n] = mem[n]
                \/ mem'[n] = [mem[n] EXCEPT !.state = "confirmed"]
                \/ mem'[n] = [state |-> "confirmed", withdrawn |-> TRUE]
        BY <2>4 DEF Deposited, Mark, SetState, SetWithdrawn
      <3>2. \A n \in DOMAIN mem : mem[n] \in NoteRecords
        BY JournalIs DEF Inv, JournalsOK
      <3>3. \A n \in DOMAIN mem : mem'[n].state = mem[n].state \/ mem'[n].state = "confirmed"
        BY <3>1, <3>2 DEF NoteRecords
      <3> QED BY <1>1, <3>1, <3>3
    <2> QED BY <1>2, <2>1, <2>2, <2>3, <2>4 DEF Next, Step, Recovery
  <1>4. Good(file')
    <2>1. CASE Step \/ Crash \/ (\E p \in Programs[script] : Start(p))
      <3>1. file' = file \/ file' = mem \/ file' = Empty
        BY <2>1 DEF Step, Crash, Start, Persist, Open, Load, Reuse, Deposit, Await, Check, Plan, RecordNote, Deposited,
                    Create, Nothing, Send, Settle, WithdrawNote, WithdrawEach, Mark, Unresolved, RescueNote, Relay,
                    Process, Halt, Ensure, NextScenario, Exit, Stop
      <3> QED BY <1>1, <3>1
    <2>2. CASE RecoverSkips \/ Recover \/ RecoveryEnds \/ RecoveryCrashes
               \/ (\E dry, planned \in BOOLEAN : StartRecovery(dry, planned)) \/ (\E n \in Notes : Land(n))
               \/ (\E n \in Notes, who \in {"script", "relayer", "recovery"} : Execute(n, who))
      <3>1. file' = file \/ file' = rec.copy
        BY <2>2 DEF RecoverSkips, Recover, RecoveryEnds, RecoveryCrashes, StartRecovery, Land, Execute
      <3> QED BY <1>1, <3>1
    <2> QED BY <2>1, <2>2 DEF Next, Recovery
  <1>5. Good(rec.copy')
    <2>1. CASE Step \/ Crash \/ (\E p \in Programs[script] : Start(p)) \/ (\E n \in Notes : Land(n))
               \/ (\E n \in Notes, who \in {"script", "relayer", "recovery"} : Execute(n, who))
      <3>1. rec' = rec
        <4>1. Step => rec' = rec
          BY Moves DEF Inv
        <4> QED BY <2>1, <4>1 DEF Crash, Stop, Start, Land, Execute
      <3> QED BY <1>1, <3>1
    <2>2. CASE RecoverSkips \/ RecoveryEnds \/ RecoveryCrashes
               \/ (\E dry, planned \in BOOLEAN : StartRecovery(dry, planned))
      <3>1. rec.copy' = rec.copy \/ rec.copy' = Empty \/ rec.copy' = file
        <4>1. CASE RecoverSkips
          BY <4>1 DEF RecoverSkips, Inv, RecoveryOK, Recoveries
        <4>2. CASE RecoveryEnds \/ RecoveryCrashes
          BY <4>2, IdleIs DEF RecoveryEnds, RecoveryCrashes
        <4>3. CASE \E dry, planned \in BOOLEAN : StartRecovery(dry, planned)
          BY <4>3 DEF StartRecovery, Idle
        <4> QED BY <2>2, <4>1, <4>2, <4>3
      <3> QED BY <1>1, <3>1
    <2>3. CASE Recover
      <3>1. PICK n \in rec.todo : n = Min(rec.todo)
        BY <2>3, RecoverIs DEF Inv, Recover
      <3>2. PICK out : RecoverRetries(out) \/ RecoverSettles(n, out)
        BY <2>3, <3>1 DEF Recover
      <3>3. CASE RecoverRetries(out)
        <4>1. rec'.copy = rec.copy
          BY <3>3, RetryIs DEF Inv
        <4> QED BY <1>1, <4>1
      <3>4. CASE RecoverSettles(n, out)
        <4>1. /\ DOMAIN rec'.copy = DOMAIN rec.copy /\ \A m \in DOMAIN rec.copy : m # n => rec'.copy[m] = rec.copy[m]
              /\ rec'.copy = rec.copy \/ rec'.copy[n] = [state |-> "confirmed", withdrawn |-> TRUE]
          BY <3>1, <3>4, SettleIs DEF Inv
        <4>2. \A m \in DOMAIN rec.copy : rec'.copy[m] = rec.copy[m] \/ rec'.copy[m].state = "confirmed"
          BY <4>1
        <4> QED BY <1>1, <4>1, <4>2
      <3> QED BY <3>2, <3>3, <3>4
    <2> QED BY <2>1, <2>2, <2>3 DEF Next, Recovery
  <1> QED BY <1>3, <1>4, <1>5 DEF NotGivenUp

\* The relayer answers for the notes of the scenario, and none of these is marked.
LEMMA AnswersKept ==
    ASSUME Inv, script \in Bursts, Next
    PROVE  \A f \in {mem, file} : \A n \in DOMAIN f : f[n].withdrawn => answer'[n] \in {answer[n], 0}
  <1> USE DEF relayed, notes
  <1>a. DOMAIN mem \subseteq Notes /\ DOMAIN file \subseteq Notes /\ answer \in [Notes -> Statuses]
    BY JournalIs DEF Inv, JournalsOK, ChainOK
  <1>1. CASE \/ Persist \/ Open \/ Load \/ Reuse \/ Await \/ Check \/ Plan \/ RecordNote \/ Deposited
             \/ Nothing \/ Settle \/ Mark \/ Unresolved \/ Halt \/ Ensure \/ NextScenario \/ Exit \/ Send
             \/ WithdrawNote \/ WithdrawEach \/ RescueNote \/ Process \/ Deposit \/ Create
             \/ Crash \/ RecoverSkips \/ Recover \/ RecoveryEnds \/ RecoveryCrashes
             \/ (\E dry, planned \in BOOLEAN : StartRecovery(dry, planned)) \/ (\E n \in Notes : Land(n))
             \/ (\E n \in Notes, who \in {"script", "relayer", "recovery"} : Execute(n, who))
    <2>1. answer' = answer
      BY <1>1 DEF Persist, Open, Load, Reuse, Await, Check, Plan, RecordNote, Deposited, Nothing,
                  Settle, Mark, Unresolved, Halt, Ensure, NextScenario, Exit, Stop, Send,
                  WithdrawNote, WithdrawEach, RescueNote, Process, Deposit, Create, Crash, RecoverSkips, Recover,
                  RecoveryEnds, RecoveryCrashes, StartRecovery, Land, Execute
    <2> QED BY <2>1
  <1>2. CASE \E p \in Programs[script] : Start(p)
    <2>1. answer' = [n \in Notes |-> 0]
      BY <1>2 DEF Start
    <2> QED BY <1>a, <2>1
  <1>3. CASE Relay
    <2>1. PICK x \in {"relay", "relayRetry"} : x = Op
      BY <1>3 DEF Relay
    <2>2. PICK a, b \in Stages : Edge(a, x, b) /\ Holds(a, x)
      BY <2>1, AtStage, BurstOnly DEF Inv
    <2>3. a = "clean"
      BY <2>1, <2>2, EdgesOf DEF Asking
    <2>4. \A n \in batch \intersect DOMAIN mem : ~mem[n].withdrawn
      BY <2>2, <2>3 DEF Holds, Fresh
    <2>5. Running
      BY <2>1, AtStep DEF Inv
    <2>6. \A n \in batch \intersect DOMAIN file : ~file[n].withdrawn
      BY <2>4, <2>5 DEF Inv, JournalsOK
    <2>7. \A n \in Notes \ batch : answer'[n] = answer[n]
      <3>1. \/ \E n \in todo : \E s : answer' = [answer EXCEPT ![n] = s]
            \/ answer' = answer
            \/ answer' = [n \in Notes |-> IF n \in batch THEN 0 ELSE answer[n]]
        BY <1>3 DEF Relay, RelaySucceeds, RelayRefuses, Answered, Unanswered
      <3>2. todo \subseteq batch
        BY DEF Inv, NotesOK
      <3> QED BY <1>a, <3>1, <3>2
    <2> QED BY <1>a, <2>4, <2>6, <2>7
  <1> QED BY <1>1, <1>2, <1>3 DEF Next, Step, Recovery

\* The part on the marks of notes.
LEMMA MarksAnsweredKept ==
    ASSUME Inv, script \in Bursts, MarksAnswered, Next
    PROVE  MarksAnswered'
  <1> USE DEF fixed, control, rescue, chain, notes, journal, relayed
  <1> SUFFICES ASSUME recoveries' = 0
               PROVE  \A f \in {mem', file'} : \A n \in DOMAIN f : f[n].withdrawn => answer'[n] \in {0, 200}
    BY DEF MarksAnswered
  <1> DEFINE Said(f) == \A n \in DOMAIN f : f[n].withdrawn => answer'[n] \in {0, 200}
  <1>1. recoveries = 0 /\ ~rec.on
    <2>1. recoveries' = recoveries \/ recoveries' = recoveries + 1
      <3>1. Step => recoveries' = recoveries
        BY Moves DEF Inv
      <3> QED BY <3>1 DEF Next, Crash, Stop, Start, Recovery, RecoverSkips, Recover, RecoveryEnds, RecoveryCrashes,
                         StartRecovery, Land, Execute
    <2>2. recoveries \in Nat /\ (rec.on => recoveries > 0)
      BY DEF Inv, ControlOK, RecoveryOK
    <2> QED BY <2>1, <2>2
  <1>2. Said(mem) /\ Said(file) /\ Said(Empty)
    <2>1. Said(Empty)
      BY EmptyIs
    <2> QED BY <1>1, <2>1, AnswersKept DEF MarksAnswered
  <1>3. ~Settle /\ ~RescueNote
    BY BurstOnly DEF Inv
  <1>4. Said(mem')
    <2>1. CASE Persist \/ Reuse \/ Deposit \/ Await \/ Check \/ Nothing \/ Send \/ WithdrawNote \/ WithdrawEach
               \/ Unresolved \/ Relay \/ Process \/ Halt \/ Ensure \/ NextScenario
               \/ (\E p \in Programs[script] : Start(p)) \/ RecoverSkips \/ Recover \/ RecoveryEnds \/ RecoveryCrashes
               \/ (\E dry, planned \in BOOLEAN : StartRecovery(dry, planned)) \/ (\E n \in Notes : Land(n))
               \/ (\E n \in Notes, who \in {"script", "relayer", "recovery"} : Execute(n, who))
      <3>1. mem' = mem
        BY <2>1 DEF Persist, Reuse, Deposit, Await, Check, Nothing, Send, WithdrawNote, WithdrawEach,
                    Unresolved, Relay, Process, Halt, Ensure, NextScenario, Start, RecoverSkips, Recover,
                    RecoveryEnds, RecoveryCrashes, StartRecovery, Land, Execute
      <3> QED BY <1>2, <3>1
    <2>2. CASE Open \/ Load \/ Exit \/ Crash
      <3>1. mem' = Empty \/ mem' = file
        BY <2>2 DEF Open, Load, Exit, Crash, Stop
      <3> QED BY <1>2, <3>1
    <2>3. CASE Plan \/ RecordNote \/ Create
      <3>1. PICK ns, s : mem' = [n \in ns \union DOMAIN mem |-> IF n \in ns THEN Record(s) ELSE mem[n]]
        BY <2>3 DEF Plan, RecordNote, Create, Upsert
      <3>2. \A n \in DOMAIN mem' : mem'[n].withdrawn => n \in DOMAIN mem /\ mem[n].withdrawn
        BY <3>1 DEF Record
      <3> QED BY <1>2, <3>2
    <2>4. CASE Deposited
      <3>1. DOMAIN mem' = DOMAIN mem /\ \A n \in DOMAIN mem : mem'[n] = mem[n] \/
                mem'[n] = [mem[n] EXCEPT !.state = "confirmed"]
        BY <2>4 DEF Deposited, SetState
      <3>2. \A n \in DOMAIN mem : mem[n] \in NoteRecords
        BY JournalIs DEF Inv, JournalsOK
      <3>3. \A n \in DOMAIN mem : mem'[n].withdrawn = mem[n].withdrawn
        BY <3>1, <3>2 DEF NoteRecords
      <3> QED BY <1>2, <3>1, <3>3
    <2>5. CASE Mark
      <3>1. Op = "mark" /\ mem' = SetWithdrawn(mem, done) /\ answer' = answer
        BY <2>5 DEF Mark
      <3>2. PICK a, b \in Stages : Edge(a, "mark", b) /\ Holds(a, "mark") /\ a = Stage(prog)[pc]
        BY <3>1, AtStage, BurstOnly DEF Inv
      <3>3. a = "asked"
        <4>1. a # "ensured"
          BY <3>1, <3>2, NeverEnsured DEF Inv
        <4> QED BY <3>2, <4>1, EdgesOf
      <3>4. \A n \in done : answer[n] \in {0, 200}
        BY <3>2, <3>3 DEF Holds
      <3>5. mem \in Journals /\ done \in SUBSET Notes
        BY NotesAre DEF Inv, JournalsOK, NotesOK
      <3>6. DOMAIN mem' = DOMAIN mem /\ \A n \in DOMAIN mem : mem'[n].withdrawn => mem[n].withdrawn \/ n \in done
        BY <3>1, <3>5, JournalMarked
      <3> QED BY <1>2, <3>1, <3>4, <3>6
    <2> QED BY <1>3, <2>1, <2>2, <2>3, <2>4, <2>5 DEF Next, Step, Recovery
  <1>5. Said(file')
    <2>1. file' = file \/ file' = mem \/ file' = Empty
      BY <1>1 DEF Next, Step, Recovery, Crash, Start, Persist, Open, Load, Reuse, Deposit, Await, Check, Plan,
                  RecordNote, Deposited, Create, Nothing, Send, Settle, WithdrawNote, WithdrawEach, Mark, Unresolved,
                  RescueNote, Relay, Process, Halt, Ensure, NextScenario, Exit, Stop, RecoverSkips, Recover,
                  RecoveryEnds, RecoveryCrashes, StartRecovery, Land, Execute
    <2> QED BY <1>2, <2>1
  <1> QED BY <1>4, <1>5

\* A step of such a script takes no note itself, and none for a recovery.
LEMMA StepTakes ==
    ASSUME Inv, script \in Bursts, Step, NEW n \in Notes, NEW w, w \in {"script", "recovery"}
    PROVE  (spentBy'[n] = w => spentBy[n] = w) /\ (<<n, w>> \in pend' => <<n, w>> \in pend)
  <1>1. CASE Persist \/ Open \/ Load \/ Reuse \/ Deposit \/ Await \/ Check \/ Plan \/ RecordNote \/ Deposited
             \/ Create \/ Nothing \/ Send \/ Settle \/ Mark \/ Unresolved \/ Halt \/ Ensure \/ NextScenario \/ Exit
    <2>1. spentBy' = spentBy /\ pend' = pend
      BY <1>1 DEF Persist, Open, Load, Reuse, Deposit, Await, Check, Plan, RecordNote, Deposited, Create, Nothing,
                  Send, Settle, Mark, Unresolved, Halt, Ensure, NextScenario, Exit, Stop, chain
    <2> QED BY <2>1
  <1>2. CASE Relay \/ Process
    <2>1. PICK m : /\ spentBy' = spentBy \/ spentBy' = [spentBy EXCEPT ![m] = "relayer"]
                   /\ pend' = pend \/ pend' = pend \union {<<m, "relayer">>}
      BY <1>2 DEF Relay, RelaySucceeds, RelayRefuses, Takes, Process
    <2>2. w # "relayer"
      OBVIOUS
    <2>3. spentBy'[n] = w => spentBy[n] = w
      BY <2>1, <2>2 DEF Inv, ChainOK
    <2>4. <<n, w>> \in pend' => <<n, w>> \in pend
      BY <2>1, <2>2
    <2> QED BY <2>3, <2>4
  <1>3. ~WithdrawNote /\ ~WithdrawEach /\ ~RescueNote
    BY BurstOnly DEF Inv
  <1> QED BY <1>1, <1>2, <1>3 DEF Step

\* What a recovery takes.
LEMMA RecoveryTakes ==
    ASSUME Inv, Recover, NEW n, n = Min(rec.todo)
    PROVE  \E out : /\ RecoverRetries(out) \/ RecoverSettles(n, out)
                    /\ \A m \in Notes : m # n => spentBy'[m] = spentBy[m]
                    /\ out = "ok" => spentBy'[n] = "recovery"
                    /\ out # "ok" => spentBy' = spentBy
                    /\ out = "used" => spentBy[n] # "nobody"
                    /\ out # "lost" => pend' = pend
                    /\ \A x : x \in pend' => x \in pend \/ x = <<n, "recovery">>
  <1>1. n \in Notes /\ spentBy \in [Notes -> Payers]
    BY RecoverIs DEF Inv, Recover, ChainOK
  <1>2. PICK out : Withdraw(n, "recovery", out) /\ (RecoverRetries(out) \/ RecoverSettles(n, out))
    BY DEF Recover
  <1>3. CASE out = "ok"
    <2>1. spentBy' = [spentBy EXCEPT ![n] = "recovery"] /\ pend' = pend
      BY <1>2, <1>3 DEF Withdraw
    <2> QED BY <1>1, <1>2, <1>3, <2>1
  <1>4. CASE out # "ok"
    <2>1. /\ spentBy' = spentBy
          /\ out = "used" => spentBy[n] # "nobody"
          /\ out # "lost" => pend' = pend
          /\ \A x : x \in pend' => x \in pend \/ x = <<n, "recovery">>
      BY <1>2, <1>4 DEF Withdraw
    <2> QED BY <1>2, <1>4, <2>1
  <1> QED BY <1>3, <1>4

\* The part on who takes the notes.
LEMMA TakersKept ==
    ASSUME Inv, script \in Bursts, Takers, Findings, Next
    PROVE  Takers'
  <1> USE DEF fixed, control, rescue, chain, notes, journal
  <1>1. spentBy \in [Notes -> Payers] /\ recoveries \in Nat /\ (rec.on => recoveries > 0 /\ ~Running)
    BY DEF Inv, ChainOK, ControlOK, RecoveryOK
  <1>2. CASE Step
    <2>1. rec' = rec /\ recoveries' = recoveries /\ ~rec.on
      BY <1>1, <1>2, Moves DEF Inv
    <2>2. \A n \in Notes, w \in {"script", "recovery"} :
             (spentBy'[n] = w => spentBy[n] = w) /\ (<<n, w>> \in pend' => <<n, w>> \in pend)
      BY <1>2, StepTakes
    <2> QED BY <2>1, <2>2 DEF Takers
  <1>3. CASE Crash \/ (\E p \in Programs[script] : Start(p)) \/ (\E n \in Notes : Land(n))
    <2>1. spentBy' = spentBy /\ pend' = pend /\ rec' = rec /\ recoveries' = recoveries
      BY <1>3 DEF Crash, Stop, Start, Land
    <2> QED BY <2>1 DEF Takers
  <1>4. CASE RecoveryEnds \/ RecoveryCrashes
    <2>1. spentBy' = spentBy /\ pend' = pend /\ ~rec'.on /\ recoveries' = recoveries
      BY <1>4, IdleIs DEF RecoveryEnds, RecoveryCrashes
    <2> QED BY <2>1 DEF Takers
  <1>5. CASE \E dry, planned \in BOOLEAN : StartRecovery(dry, planned)
    <2>1. spentBy' = spentBy /\ pend' = pend /\ recoveries' = recoveries + 1
      BY <1>5 DEF StartRecovery
    <2>2. recoveries' = 1 => recoveries = 0
      BY <1>1, <2>1
    <2>3. recoveries' # 0
      BY <1>1, <2>1
    <2> QED BY <2>1, <2>2, <2>3 DEF Takers
  <1>6. CASE RecoverSkips
    <2>1. PICK n \in rec.todo : n = Min(rec.todo)
      BY <1>6, RecoverIs DEF Inv, RecoverSkips
    <2>2. /\ rec'.on = rec.on /\ rec'.lost = rec.lost
          /\ \A m \in Notes : m # n => rec'.attempts[m] = rec.attempts[m]
      <3>1. RecoveryOK
        BY DEF Inv
      <3> QED BY <1>6, <2>1, <3>1, SkipIs
    <2>4. spentBy' = spentBy /\ pend' = pend /\ recoveries' = recoveries
      BY <1>6 DEF RecoverSkips
    <2>3. recoveries = 1 /\ rec.on => rec.attempts[n] = "none"
      BY <2>1 DEF Findings, FoundOut, Inv, RecoveryOK
    <2> QED BY <2>2, <2>3, <2>4 DEF Takers
  <1>7. CASE Recover
    <2>1. PICK n \in rec.todo : n = Min(rec.todo)
      BY <1>7, RecoverIs DEF Inv, Recover
    <2>2. PICK out : /\ RecoverRetries(out) \/ RecoverSettles(n, out)
                     /\ \A m \in Notes : m # n => spentBy'[m] = spentBy[m]
                     /\ out = "ok" => spentBy'[n] = "recovery"
                     /\ out # "ok" => spentBy' = spentBy
                     /\ out = "used" => spentBy[n] # "nobody"
                     /\ out # "lost" => pend' = pend
                     /\ \A x : x \in pend' => x \in pend \/ x = <<n, "recovery">>
      BY <1>7, <2>1, RecoveryTakes
    <2>3. rec.on /\ recoveries' = recoveries /\ n \in Notes
      BY <1>7, <2>1, RecoverIs DEF Recover, Inv
    <2>4. recoveries = 1 => rec.attempts[n] = "none"
      BY <2>1, <2>3 DEF Findings, FoundOut, Inv, RecoveryOK
    <2>5. \A m \in Notes : spentBy'[m] # "script" /\ <<m, "script">> \notin pend'
      BY <2>2 DEF Takers
    <2>6. ASSUME recoveries = 1, ~rec'.lost, NEW m \in Notes
          PROVE  <<m, "recovery">> \notin pend' /\ (spentBy'[m] = "recovery" => rec'.attempts[m] = "recovered")
      <3>1. CASE RecoverRetries(out)
        <4>1. ~rec.lost /\ out # "lost" /\ out # "ok" /\ rec'.attempts = rec.attempts
          BY <2>6, <3>1, RetryIs DEF Inv
        <4> QED BY <2>2, <2>3, <2>6, <4>1 DEF Takers
      <3>2. CASE RecoverSettles(n, out)
        <4>1. /\ ~rec.lost /\ out # "lost" /\ (m # n => rec'.attempts[m] = rec.attempts[m])
              /\ out = "ok" => rec'.attempts[n] = "recovered"
          BY <2>1, <2>6, <3>2, SettleIs DEF Inv
        <4>2. <<m, "recovery">> \notin pend /\ (spentBy[m] = "recovery" => rec.attempts[m] = "recovered")
          BY <2>3, <2>6, <4>1 DEF Takers
        <4>3. spentBy[n] # "recovery"
          BY <2>3, <2>4, <2>6, <4>1 DEF Takers
        <4> QED BY <2>2, <4>1, <4>2, <4>3
      <3> QED BY <2>2, <3>1, <3>2
    <2> QED BY <1>1, <2>3, <2>5, <2>6 DEF Takers
  <1>8. CASE \E n \in Notes, who \in {"script", "relayer", "recovery"} : Execute(n, who)
    <2>1. PICK n \in Notes, who \in {"script", "relayer", "recovery"} : Execute(n, who)
      BY <1>8
    <2>2. /\ <<n, who>> \in pend /\ pend' \subseteq pend
          /\ spentBy' = spentBy \/ spentBy' = [spentBy EXCEPT ![n] = who]
          /\ rec' = rec /\ recoveries' = recoveries
      BY <2>1 DEF Execute
    <2>3. \A m \in Notes : spentBy'[m] = spentBy[m] \/ (m = n /\ spentBy'[m] = who)
      BY <1>1, <2>2
    <2> QED BY <2>2, <2>3 DEF Takers
  <1> QED BY <1>2, <1>3, <1>4, <1>5, <1>6, <1>7, <1>8 DEF Next, Recovery

\* The part on the verdicts of the first recovery.
LEMMA FindingsKept ==
    ASSUME Inv, script \in Bursts, NotGivenUp, MarksAnswered, Takers, Findings, Next
    PROVE  Findings'
  <1> USE DEF fixed, control, rescue, chain, notes, journal, relayed
  <1>1. /\ spentBy \in [Notes -> Payers] /\ recoveries \in Nat /\ (rec.on => recoveries > 0 /\ ~Running)
        /\ rec.todo \subseteq DOMAIN rec.copy /\ DOMAIN rec.copy \subseteq Notes
        /\ \A n \in DOMAIN rec.copy : rec.copy[n] \in NoteRecords
    <2>1. rec.copy \in Journals
      BY DEF Inv, RecoveryOK, Recoveries
    <2> QED BY <2>1, JournalIs DEF Inv, ChainOK, ControlOK, RecoveryOK
  <1>2. CASE Step
    <2>1. rec' = rec /\ ~rec.on
      BY <1>1, <1>2, Moves DEF Inv
    <2> QED BY <2>1 DEF Findings
  <1>3. CASE Crash \/ (\E p \in Programs[script] : Start(p))
    <2>1. rec' = rec /\ ~rec.on
      BY <1>1, <1>3 DEF Crash, Stop, Start
    <2> QED BY <2>1 DEF Findings
  <1>4. CASE RecoveryEnds \/ RecoveryCrashes
    <2>1. ~rec'.on
      BY <1>4, IdleIs DEF RecoveryEnds, RecoveryCrashes
    <2> QED BY <2>1 DEF Findings
  <1>5. CASE (\E n \in Notes : Land(n))
             \/ (\E n \in Notes, who \in {"script", "relayer", "recovery"} : Execute(n, who))
    <2>1. rec' = rec /\ recoveries' = recoveries /\ answer' = answer
      BY <1>5 DEF Land, Execute
    <2>2. \A n \in DOMAIN rec.copy : spentBy[n] # "nobody" => spentBy'[n] = spentBy[n]
      BY <1>1, SpentGrows DEF Inv
    <2>3. ASSUME recoveries = 1, rec.on, NEW n \in DOMAIN rec.copy PROVE FoundOut(n)'
      <3>1. FoundOut(n)
        BY <2>3 DEF Findings
      <3> QED BY <2>1, <2>2, <3>1 DEF FoundOut
    <2> QED BY <2>1, <2>3 DEF Findings
  <1>6. CASE \E dry, planned \in BOOLEAN : StartRecovery(dry, planned)
    <2>1. PICK dry, planned \in BOOLEAN : StartRecovery(dry, planned)
      BY <1>6
    <2>2. /\ rec'.todo = DOMAIN file /\ rec'.copy = file /\ answer' = answer
          /\ rec'.attempts = [n \in Notes |-> "none"]
      BY <2>1 DEF StartRecovery, Idle
    <2>3. recoveries' = 1 => recoveries = 0
      BY <1>1, <2>1 DEF StartRecovery
    <2>4. DOMAIN file \subseteq Notes
      BY JournalIs DEF Inv, JournalsOK
    <2>5. ASSUME recoveries = 0, NEW n \in DOMAIN file PROVE FoundOut(n)'
      <3>1. file[n].withdrawn => answer[n] \in {0, 200}
        BY <2>5 DEF MarksAnswered
      <3>2. rec'.attempts[n] = "none"
        BY <2>2, <2>4
      <3> QED BY <2>2, <3>1, <3>2 DEF FoundOut
    <2> QED BY <2>2, <2>3, <2>5 DEF Findings
  <1>7. CASE RecoverSkips
    <2>1. PICK n \in rec.todo : n = Min(rec.todo)
      BY <1>7, RecoverIs DEF Inv, RecoverSkips
    <2>2. /\ rec'.planned = rec.planned /\ rec'.dry = rec.dry /\ rec'.lost = rec.lost /\ rec'.on = rec.on
          /\ rec'.todo = rec.todo \ {n} /\ rec'.copy = rec.copy
          /\ Skipped(rec.copy[n]) # "none" /\ rec'.attempts[n] = Skipped(rec.copy[n])
          /\ \A m \in Notes : m # n => rec'.attempts[m] = rec.attempts[m]
      <3>1. RecoveryOK
        BY DEF Inv
      <3> QED BY <1>7, <2>1, <3>1, SkipIs
    <2>3. spentBy' = spentBy /\ answer' = answer /\ recoveries' = recoveries
      BY <1>7 DEF RecoverSkips
    <2>4. ASSUME recoveries = 1, rec.on, NEW m \in DOMAIN rec.copy PROVE FoundOut(m)'
      <3>1. FoundOut(m) /\ m \in Notes
        BY <1>1, <2>4 DEF Findings
      <3>2. CASE m # n
        BY <2>2, <2>3, <3>1, <3>2 DEF FoundOut
      <3>3. CASE m = n
        <4>1. \/ rec'.attempts[n] = "skipped-withdrawn" /\ rec.copy[n].withdrawn
              \/ rec'.attempts[n] = "skipped-filtered" /\ (rec.copy[n].state = "failed" \/ ~rec.planned)
              \/ rec'.attempts[n] = "dry-run" /\ rec.dry
          BY <2>2 DEF Skipped
        <4>2. rec.copy[n].state # "failed"
          BY <3>3 DEF NotGivenUp
        <4>3. rec.copy[n].withdrawn => answer[n] \in {0, 200}
          BY <2>1, <3>1, <3>3 DEF FoundOut
        <4>4. n \notin rec'.todo
          BY <2>2
        <4> QED BY <2>2, <2>3, <3>3, <4>1, <4>2, <4>3, <4>4 DEF FoundOut
      <3> QED BY <3>2, <3>3
    <2> QED BY <2>2, <2>3, <2>4 DEF Findings
  <1>8. CASE Recover
    <2>1. PICK n \in rec.todo : n = Min(rec.todo)
      BY <1>8, RecoverIs DEF Inv, Recover
    <2>2. PICK out : /\ RecoverRetries(out) \/ RecoverSettles(n, out)
                     /\ \A m \in Notes : m # n => spentBy'[m] = spentBy[m]
                     /\ out = "ok" => spentBy'[n] = "recovery"
                     /\ out # "ok" => spentBy' = spentBy
                     /\ out = "used" => spentBy[n] # "nobody"
      BY <1>8, <2>1, RecoveryTakes
    <2>3. rec.on /\ recoveries' = recoveries /\ answer' = answer /\ n \in Notes
      BY <1>8, <2>1, RecoverIs DEF Recover, Inv
    <2>4. RecoveryOK /\ rec.todo # {}
      BY <2>1 DEF Inv
    <2>5. ASSUME recoveries = 1, NEW m \in DOMAIN rec.copy
          PROVE  FoundOut(m)'
      <3>1. FoundOut(m) /\ FoundOut(n) /\ m \in Notes
        BY <1>1, <2>1, <2>3, <2>5 DEF Findings
      <3>2. CASE RecoverRetries(out)
        <4>1. /\ out \in {"error", "lost"} /\ rec'.planned = rec.planned /\ rec'.dry = rec.dry
              /\ rec'.todo = rec.todo /\ rec'.copy = rec.copy /\ rec'.attempts = rec.attempts
              /\ ~rec'.lost => ~rec.lost
          BY <2>4, <3>2, RetryIs
        <4> QED BY <2>2, <2>3, <2>5, <3>1, <4>1 DEF FoundOut
      <3>3. CASE RecoverSettles(n, out)
        <4>1. /\ rec'.planned = rec.planned /\ rec'.dry = rec.dry
              /\ rec'.todo = rec.todo \ {n} /\ DOMAIN rec'.copy = DOMAIN rec.copy
              /\ \A x \in DOMAIN rec.copy : x # n => rec'.copy[x] = rec.copy[x]
              /\ out = "ok" => rec'.attempts[n] = "recovered"
              /\ out = "used" => rec'.attempts[n] = "already-withdrawn"
              /\ out \notin {"ok", "used"} => rec'.attempts[n] = "failed"
              /\ \A x \in Notes : x # n => rec'.attempts[x] = rec.attempts[x]
              /\ ~rec'.lost => ~rec.lost
          BY <2>1, <2>4, <3>3, SettleIs
        <4>2. CASE m # n
          BY <2>2, <2>3, <2>5, <3>1, <4>1, <4>2 DEF FoundOut
        <4>3. CASE m = n
          <5>1. out = "used" /\ ~rec'.lost => spentBy'[n] = "relayer"
            <6>1. rec.attempts[n] = "none"
              BY <2>1, <3>1 DEF FoundOut
            <6>2. ~rec.lost => spentBy[n] \notin {"script", "recovery"}
              BY <2>3, <2>5, <6>1 DEF Takers
            <6> QED BY <1>1, <2>2, <2>3, <4>1, <6>2 DEF Payers
          <5>2. FoundOut(n)'
            BY <2>2, <4>1, <5>1 DEF FoundOut
          <5> QED BY <4>3, <5>2
        <4> QED BY <4>2, <4>3
      <3> QED BY <2>2, <3>2, <3>3
    <2>6. \A m \in DOMAIN rec'.copy : recoveries = 1 => FoundOut(m)'
      <3>1. DOMAIN rec'.copy = DOMAIN rec.copy
        <4>1. CASE RecoverRetries(out)
          BY <2>4, <4>1, RetryIs
        <4>2. CASE RecoverSettles(n, out)
          BY <2>1, <2>4, <4>2, SettleIs
        <4> QED BY <2>2, <4>1, <4>2
      <3> QED BY <2>5, <3>1
    <2> QED BY <2>3, <2>6 DEF Findings
  <1> QED BY <1>2, <1>3, <1>4, <1>5, <1>6, <1>7, <1>8 DEF Next, Recovery

\* The script is the same in every run of the system.
LEMMA SameScript ==
    ASSUME Inv, Next
    PROVE  script' = script
  <1>1. Step => script' = script
    BY Moves DEF Inv
  <1> QED BY <1>1 DEF Next, Crash, Stop, Start, Recovery, RecoverSkips, Recover, RecoveryEnds, RecoveryCrashes,
                     StartRecovery, Land, Execute, fixed

\* What reconciliation rests on holds always.
LEMMA BurstAlways == Spec => [](Inv /\ BurstOK)
  <1>1. Init => BurstOK
    <2> SUFFICES ASSUME Init PROVE BurstOK
      OBVIOUS
    <2>1. /\ mem = Empty /\ file = Empty /\ rec = Idle /\ pend = {}
          /\ spentBy = [n \in Notes |-> "nobody"]
      BY DEF Init
    <2>2. rec.copy = Empty /\ ~rec.on /\ DOMAIN Empty = {}
      BY <2>1, EmptyIs, IdleIs
    <2> QED BY <2>1, <2>2 DEF BurstOK, NotGivenUp, MarksAnswered, Takers, Findings
  <1>2. ASSUME Inv, BurstOK, Next PROVE BurstOK'
    <2> SUFFICES ASSUME script' \in Bursts PROVE NotGivenUp' /\ MarksAnswered' /\ Takers' /\ Findings'
      BY DEF BurstOK
    <2>1. script \in Bursts
      BY <1>2, SameScript
    <2>2. NotGivenUp /\ MarksAnswered /\ Takers /\ Findings
      BY <1>2, <2>1 DEF BurstOK
    <2> QED BY <1>2, <2>1, <2>2, NotGivenUpKept, MarksAnsweredKept, TakersKept, FindingsKept
  <1>3. ASSUME BurstOK, UNCHANGED vars PROVE BurstOK'
    <2>1. UNCHANGED <<chain, journal, notes, relayed, control, rescue, fixed>>
      BY <1>3 DEF vars
    <2>2. UNCHANGED <<script, mem, file, rec, recoveries, answer, spentBy, pend>>
      BY <2>1 DEF chain, journal, relayed, rescue, fixed
    <2> QED BY <1>3, <2>2 DEF BurstOK, NotGivenUp, MarksAnswered, Takers, Findings, FoundOut
  <1> QED BY <1>1, <1>2, <1>3, InvAlways, PTL DEF Spec

\* After a burst and the first recovery, a note of a request that is reported as
\* withdrawn already was withdrawn by the relayer, and one that required recovery
\* by the recovery.
THEOREM VerdictsAreTrue == Spec => []ReconciledTruly
  <1>1. ASSUME Inv, BurstOK PROVE ReconciledTruly
    <2> SUFFICES ASSUME script \in Bursts, rec.on, rec.todo = {}, ~rec.dry, rec.planned,
                        ~rec.lost, recoveries = 1, NEW n \in Reconciled
                 PROVE  /\ Bucket(n) \in {"confirmed-success", "already-withdrawn"} => spentBy[n] = "relayer"
                        /\ Bucket(n) = "required-recovery" /\ rec.attempts[n] # "failed"
                              => spentBy[n] = "recovery"
      BY DEF ReconciledTruly, Bursts
    <2>1. n \in DOMAIN rec.copy /\ answer[n] # 0 /\ n \in Notes
      BY <1>1, JournalIs DEF Reconciled, Inv, RecoveryOK, Recoveries
    <2>2. FoundOut(n) /\ rec.attempts[n] \in Attempts
      BY <1>1, <2>1 DEF BurstOK, Findings, Inv, RecoveryOK, Recoveries
    <2>3. RecoveryStatus(n) = rec.attempts[n]
      BY <2>2 DEF FoundOut, RecoveryStatus
    <2>4. answer[n] = 200 => spentBy[n] = "relayer"
      BY <1>1, <2>1 DEF Inv, ChainOK
    <2>5. CASE answer[n] = 200
      <3>1. Bucket(n) = "confirmed-success"
        BY <2>5 DEF Bucket
      <3> QED BY <2>4, <2>5, <3>1
    <2>6. CASE answer[n] = 429
      <3>1. Bucket(n) = "rate-limited-without-spend"
        BY <2>6 DEF Bucket
      <3> QED BY <3>1
    <2>7. CASE answer[n] \notin {200, 429}
      <3>1. CASE rec.attempts[n] = "already-withdrawn"
        <4>1. Bucket(n) = "already-withdrawn"
          BY <2>3, <2>7, <3>1 DEF Bucket
        <4> QED BY <2>2, <3>1, <4>1 DEF FoundOut
      <3>2. CASE rec.attempts[n] # "already-withdrawn"
        <4>1. Bucket(n) = "required-recovery"
          BY <2>3, <2>7, <3>2 DEF Bucket
        <4>2. rec.attempts[n] = "recovered" \/ rec.attempts[n] = "failed"
          BY <2>1, <2>2, <2>7, <3>2 DEF FoundOut, Attempts
        <4> QED BY <2>2, <4>1, <4>2 DEF FoundOut
      <3> QED BY <3>1, <3>2
    <2> QED BY <2>5, <2>6, <2>7
  <1> QED BY <1>1, BurstAlways, PTL

-----------------------------------------------------------------------------
(* The promise of a journal.                                               *)

\* Only a note that is in the pool is withdrawn, or may still be.
PooledOK == Spent \subseteq landed /\ pend \subseteq landed \X Payers

\* The copy of a recovery has every mark of the file.
CopyOK == rec.on => \A n \in DOMAIN file : file[n].withdrawn => rec.copy[n].withdrawn

\* The part on what is in the pool.
LEMMA PooledKept ==
    ASSUME Inv, PooledOK, Next
    PROVE  PooledOK'
  <1> USE DEF fixed, control, rescue, chain, notes, journal, relayed
  <1>1. spentBy \in [Notes -> Payers] /\ pend \subseteq landed \X Payers
        /\ \A n \in Notes : spentBy[n] # "nobody" => n \in landed
    BY DEF PooledOK, Spent, Inv, ChainOK
  <1>2. landed \subseteq landed'
    <2>1. CASE Step
      BY <2>1 DEF Step, Persist, Open, Load, Reuse, Deposit, Await, Check, Plan, RecordNote, Deposited,
                  Create, Nothing, Send, Settle, WithdrawNote, WithdrawEach, Mark, Unresolved, RescueNote, Relay,
                  Process, Halt, Ensure, NextScenario, Exit, Stop
    <2>2. CASE ~Step
      BY <2>2 DEF Next, Crash, Stop, Start, Recovery, RecoverSkips, Recover, RecoveryEnds, RecoveryCrashes,
                  StartRecovery, Land, Execute
    <2> QED BY <2>1, <2>2
  <1>3. ASSUME NEW m \in landed, NEW w \in Payers, NEW n \in Notes,
               \/ spentBy' = spentBy \/ spentBy' = [spentBy EXCEPT ![m] = w],
               spentBy'[n] # "nobody"
        PROVE  n \in landed
    BY <1>1, <1>3
  <1>4. ASSUME NEW m, m \in landed, NEW w \in Payers,
               spentBy' = spentBy \/ spentBy' = [spentBy EXCEPT ![m] = w],
               pend' \subseteq pend \union {<<m, w>>}
        PROVE  PooledOK'
    <2>1. \A n \in Notes : spentBy'[n] # "nobody" => n \in landed
      BY <1>1, <1>4
    <2>2. pend' \subseteq landed \X Payers
      BY <1>1, <1>4
    <2> QED BY <1>2, <2>1, <2>2 DEF PooledOK, Spent
  <1>5. ASSUME spentBy' = spentBy, pend' \subseteq pend PROVE PooledOK'
    <2>1. \A n \in Notes : spentBy'[n] # "nobody" => n \in landed
      BY <1>1, <1>5
    <2>2. pend' \subseteq landed \X Payers
      BY <1>1, <1>5
    <2> QED BY <1>2, <2>1, <2>2 DEF PooledOK, Spent
  <1>6. ASSUME NEW m, NEW w \in Payers, NEW out, Withdraw(m, w, out) PROVE PooledOK'
    <2>1. CASE out \in {"ok", "lost"}
      <3>1. m \in landed /\ (spentBy' = spentBy \/ spentBy' = [spentBy EXCEPT ![m] = w])
            /\ pend' \subseteq pend \union {<<m, w>>}
        BY <1>6, <2>1 DEF Withdraw
      <3> QED BY <1>4, <3>1
    <2>2. CASE out \notin {"ok", "lost"}
      <3>1. spentBy' = spentBy /\ pend' \subseteq pend
        BY <1>6, <2>2 DEF Withdraw
      <3> QED BY <1>5, <3>1
    <2> QED BY <2>1, <2>2
  <1>7. CASE \/ Persist \/ Open \/ Load \/ Reuse \/ Deposit \/ Await \/ Check \/ Plan \/ RecordNote \/ Deposited
             \/ Create \/ Nothing \/ Send \/ Settle \/ Mark \/ Unresolved \/ Halt \/ Ensure \/ NextScenario \/ Exit
             \/ Crash \/ (\E p \in Programs[script] : Start(p)) \/ RecoverSkips \/ RecoveryEnds \/ RecoveryCrashes
             \/ (\E dry, planned \in BOOLEAN : StartRecovery(dry, planned)) \/ (\E n \in Notes : Land(n))
    <2>1. spentBy' = spentBy /\ pend' = pend
      BY <1>7 DEF Persist, Open, Load, Reuse, Deposit, Await, Check, Plan, RecordNote, Deposited, Create, Nothing,
                  Send, Settle, Mark, Unresolved, Halt, Ensure, NextScenario, Exit, Stop, Crash, Start,
                  RecoverSkips, RecoveryEnds, RecoveryCrashes, StartRecovery, Land
    <2> QED BY <1>5, <2>1
  <1>8. CASE WithdrawNote \/ WithdrawEach \/ RescueNote \/ Recover
    <2>1. PICK w \in {"script", "recovery"} : \E m, out : Withdraw(m, w, out)
      <3>1. WithdrawNote => \E out \in Outcomes : Withdraw(Current, "script", out)
        BY DEF WithdrawNote
      <3>2. WithdrawEach => \E out \in Outcomes, n \in todo : Withdraw(n, "script", out)
        BY DEF WithdrawEach
      <3>3. RescueNote => \E out \in Outcomes : Withdraw(Current, "script", out)
        BY DEF RescueNote
      <3>4. Recover => \E out \in Outcomes : Withdraw(Min(rec.todo), "recovery", out)
        BY DEF Recover
      <3> QED BY <1>8, <3>1, <3>2, <3>3, <3>4
    <2> QED BY <1>6, <2>1 DEF Payers
  <1>9. CASE Relay \/ Process
    <2>1. \/ spentBy' = spentBy /\ pend' = pend
          \/ \E m : /\ m \in landed
                    /\ spentBy' = spentBy \/ spentBy' = [spentBy EXCEPT ![m] = "relayer"]
                    /\ pend' = pend \/ pend' = pend \union {<<m, "relayer">>}
      BY <1>9 DEF Relay, RelaySucceeds, RelayRefuses, Takes, Process
    <2> QED BY <1>4, <1>5, <2>1 DEF Payers
  <1>10. CASE \E n \in Notes, who \in {"script", "relayer", "recovery"} : Execute(n, who)
    <2>1. PICK n \in Notes, who \in {"script", "relayer", "recovery"} : Execute(n, who)
      BY <1>10
    <2>2. <<n, who>> \in pend /\ pend' \subseteq pend
          /\ (spentBy' = spentBy \/ spentBy' = [spentBy EXCEPT ![n] = who])
      BY <2>1 DEF Execute
    <2>3. n \in landed /\ who \in Payers
      BY <1>1, <2>2
    <2> QED BY <1>4, <2>2, <2>3
  <1> QED BY <1>7, <1>8, <1>9, <1>10 DEF Next, Step, Recovery

\* The part on the copy of the recovery.
LEMMA CopyKept ==
    ASSUME Inv, CopyOK, Next
    PROVE  CopyOK'
  <1> USE DEF fixed, control, rescue, chain, notes, journal, relayed
  <1>1. rec.on => ~Running /\ DOMAIN rec.copy = DOMAIN file /\ rec.copy \in Journals
    BY DEF Inv, RecoveryOK, Recoveries
  <1>2. CASE Step \/ Crash \/ (\E p \in Programs[script] : Start(p)) \/ (\E n \in Notes : Land(n))
             \/ (\E n \in Notes, who \in {"script", "relayer", "recovery"} : Execute(n, who))
    <2>1. rec' = rec /\ (rec.on => file' = file)
      <3>1. Step => rec' = rec /\ Running
        BY Moves DEF Inv
      <3> QED BY <1>1, <1>2, <3>1 DEF Crash, Stop, Start, Land, Execute
    <2> QED BY <2>1 DEF CopyOK
  <1>3. CASE \E dry, planned \in BOOLEAN : StartRecovery(dry, planned)
    <2>1. rec'.copy = file /\ file' = file
      BY <1>3 DEF StartRecovery, Idle
    <2> QED BY <2>1 DEF CopyOK
  <1>4. CASE RecoveryEnds \/ RecoveryCrashes
    <2>1. ~rec'.on
      BY <1>4, IdleIs DEF RecoveryEnds, RecoveryCrashes
    <2> QED BY <2>1 DEF CopyOK
  <1>5. CASE RecoverSkips
    <2>1. rec'.on = rec.on /\ rec'.copy = rec.copy /\ file' = file
      BY <1>5 DEF RecoverSkips, Inv, RecoveryOK, Recoveries
    <2> QED BY <2>1 DEF CopyOK
  <1>6. CASE Recover
    <2>1. PICK n \in rec.todo : n = Min(rec.todo)
      BY <1>6, RecoverIs DEF Inv, Recover
    <2>2. PICK out : RecoverRetries(out) \/ RecoverSettles(n, out)
      BY <1>6, <2>1 DEF Recover
    <2>3. file' = file /\ rec.on
      BY <1>6 DEF Recover
    <2>4. \A m \in DOMAIN rec.copy : rec.copy[m].withdrawn => rec'.copy[m].withdrawn
      <3>1. CASE RecoverRetries(out)
        <4>1. rec'.copy = rec.copy
          BY <3>1, RetryIs DEF Inv
        <4> QED BY <4>1
      <3>2. CASE RecoverSettles(n, out)
        <4>1. /\ DOMAIN rec'.copy = DOMAIN rec.copy /\ \A m \in DOMAIN rec.copy : m # n => rec'.copy[m] = rec.copy[m]
              /\ rec'.copy = rec.copy \/ rec'.copy[n] = [state |-> "confirmed", withdrawn |-> TRUE]
          BY <2>1, <3>2, SettleIs DEF Inv
        <4> QED BY <4>1
      <3> QED BY <2>2, <3>1, <3>2
    <2> QED BY <1>1, <2>3, <2>4 DEF CopyOK
  <1> QED BY <1>2, <1>3, <1>4, <1>5, <1>6 DEF Next, Recovery

Marks(f) == {n \in DOMAIN f : f[n].withdrawn}

\* A deposit that lands is one of the abstract pool.
LEMMA PoolGrows ==
    ASSUME NEW n \in Notes, landed' \in {landed, landed \union {n}},
           Spent' = Spent, file' = file, first' = first
    PROVE  [Journal!Next]_(Journal!vars)
  <1>1. CASE landed' = landed
    BY <1>1 DEF Journal!vars
  <1>2. CASE landed' # landed
    <2>1. n \notin landed /\ landed' = landed \union {n}
      BY <1>2
    <2>2. Journal!Deposit(n)
      BY <2>1 DEF Journal!Deposit
    <2> QED BY <2>2 DEF Journal!Next
  <1> QED BY <1>1, <1>2

\* So is a withdrawal.
LEMMA NoteIsTaken ==
    ASSUME PooledOK', spentBy \in [Notes -> Payers], NEW n \in Notes, NEW w \in Payers,
           \/ spentBy' = spentBy
           \/ spentBy' = [spentBy EXCEPT ![n] = w] /\ w # "nobody",
           landed' = landed, file' = file, first' = first
    PROVE  [Journal!Next]_(Journal!vars)
  <1>1. CASE Spent' = Spent
    BY <1>1 DEF Journal!vars
  <1>2. CASE Spent' # Spent
    <2>1. spentBy' = [spentBy EXCEPT ![n] = w] /\ w # "nobody"
      BY <1>2 DEF Spent
    <2>2. Spent' = Spent \union {n}
      BY <2>1 DEF Spent
    <2>3. n \in landed /\ n \notin Spent
      BY <1>2, <2>2 DEF PooledOK
    <2>4. Journal!Withdraw(n)
      BY <2>2, <2>3 DEF Journal!Withdraw
    <2> QED BY <2>4 DEF Journal!Next
  <1> QED BY <1>1, <1>2

\* And a write of the file that forgets only notes of earlier runs and no mark.
LEMMA FileIsWritten ==
    ASSUME Inv, Inv', DOMAIN file \ DOMAIN file' \subseteq 1..(first - 1),
           \A m \in DOMAIN file \intersect DOMAIN file' : file[m].withdrawn => file'[m].withdrawn,
           landed' = landed, spentBy' = spentBy, first' = first
    PROVE  [Journal!Next]_(Journal!vars)
  <1>1. DOMAIN file' \subseteq Notes /\ DOMAIN file \subseteq Notes
    BY JournalIs DEF Inv, JournalsOK
  <1>2. Marks(file') \subseteq DOMAIN file' \intersect Spent
    BY <1>1 DEF Inv, WithdrawnIsSpent, Spent, Marks
  <1>3. Marks(file) \intersect DOMAIN file' \subseteq Marks(file')
    BY DEF Marks
  <1>4. Spent' = Spent
    BY DEF Spent
  <1>5. Journal!Write
    BY <1>1, <1>2, <1>3, <1>4 DEF Journal!Write, Marks
  <1> QED BY <1>5 DEF Journal!Next

\* Every step keeps the promise.
LEMMA PromiseKept ==
    ASSUME Inv, Inv', CopyOK, PooledOK', Next
    PROVE  [Journal!Next]_(Journal!vars)
  <1> USE DEF fixed, control, rescue, chain, notes, journal, relayed
  <1>1. /\ spentBy \in [Notes -> Payers] /\ todo \subseteq Notes /\ rec.todo \subseteq Notes
        /\ next \in 1..(MaxNotes + 1) /\ first \in 1..next
    <2>1. rec.copy \in Journals
      BY DEF Inv, RecoveryOK, Recoveries
    <2> QED BY <2>1, JournalIs, NotesAre DEF Inv, ChainOK, NotesOK, RecoveryOK
  <1>2. ASSUME UNCHANGED <<landed, spentBy, file, first>> PROVE [Journal!Next]_(Journal!vars)
    BY <1>2 DEF Journal!vars, Spent
  <1>3. CASE \/ Load \/ Reuse \/ Await \/ Check \/ Plan \/ RecordNote \/ Deposited \/ Create \/ Nothing \/ Settle
             \/ Mark \/ Unresolved \/ Halt \/ Ensure \/ NextScenario \/ Exit \/ Crash
             \/ RecoverSkips \/ RecoveryCrashes \/ (\E dry, planned \in BOOLEAN : StartRecovery(dry, planned))
    <2>1. UNCHANGED <<landed, spentBy, file, first>>
      BY <1>3 DEF Load, Reuse, Await, Check, Plan, RecordNote, Deposited, Create, Nothing, Settle, Mark,
                  Unresolved, Halt, Ensure, NextScenario, Exit, Stop, Crash, RecoverSkips, RecoveryCrashes,
                  StartRecovery
    <2> QED BY <1>2, <2>1
  <1>4. CASE Deposit \/ Send \/ (\E n \in Notes : Land(n))
    <2>1. UNCHANGED <<spentBy, file, first>>
      BY <1>4 DEF Deposit, Send, Land
    <2>2. landed' = landed \/ \E n \in Notes : landed' = landed \union {n}
      BY <1>1, <1>4 DEF Deposit, Send, Land
    <2>3. Spent' = Spent
      BY <2>1 DEF Spent
    <2>4. CASE landed' = landed
      BY <1>2, <2>1, <2>4
    <2>5. CASE \E n \in Notes : landed' = landed \union {n}
      BY <2>1, <2>3, <2>5, PoolGrows
    <2> QED BY <2>2, <2>4, <2>5
  <1>5. ASSUME NEW n \in Notes, NEW w \in {"script", "recovery"}, NEW out, Withdraw(n, w, out),
               UNCHANGED <<landed, file, first>>
        PROVE  [Journal!Next]_(Journal!vars)
    <2>1. spentBy' = spentBy \/ spentBy' = [spentBy EXCEPT ![n] = w]
      BY <1>5 DEF Withdraw
    <2>2. w \in Payers /\ w # "nobody"
      BY DEF Payers
    <2> QED BY <1>1, <1>5, <2>1, <2>2, NoteIsTaken
  <1>6. CASE WithdrawNote \/ WithdrawEach \/ RescueNote \/ Recover
    <2>1. UNCHANGED <<landed, file, first>>
      BY <1>6 DEF WithdrawNote, WithdrawEach, RescueNote, Recover
    <2>2. WithdrawNote \/ RescueNote => Current \in Notes
      BY NotesAre DEF Inv, WithdrawNote, RescueNote
    <2>3. Recover => Min(rec.todo) \in Notes
      BY RecoverIs DEF Inv, Recover
    <2>4. WithdrawNote \/ RescueNote => \E out \in Outcomes : Withdraw(Current, "script", out)
      BY DEF WithdrawNote, RescueNote
    <2>5. WithdrawEach => \E n \in Notes, out \in Outcomes : Withdraw(n, "script", out)
      <3>1. WithdrawEach => \E out \in Outcomes, n \in todo : Withdraw(n, "script", out)
        BY DEF WithdrawEach
      <3> QED BY <1>1, <3>1
    <2>6. Recover => \E out \in Outcomes : Withdraw(Min(rec.todo), "recovery", out)
      BY DEF Recover
    <2> QED BY <1>5, <1>6, <2>1, <2>2, <2>3, <2>4, <2>5, <2>6
  <1>7. CASE Relay \/ Process
    <2>1. UNCHANGED <<landed, file, first>>
      BY <1>7 DEF Relay, Process
    <2>2. \/ spentBy' = spentBy
          \/ \E n \in todo : spentBy' = [spentBy EXCEPT ![n] = "relayer"]
      BY <1>7 DEF Relay, RelaySucceeds, RelayRefuses, Takes, Process
    <2>3. CASE spentBy' = spentBy
      BY <1>2, <2>1, <2>3
    <2>4. CASE \E n \in todo : spentBy' = [spentBy EXCEPT ![n] = "relayer"]
      <3>1. PICK n \in Notes : spentBy' = [spentBy EXCEPT ![n] = "relayer"]
        BY <1>1, <2>4
      <3>2. "relayer" \in Payers /\ "relayer" # "nobody"
        BY DEF Payers
      <3> QED BY <1>1, <2>1, <3>1, <3>2, NoteIsTaken
    <2> QED BY <2>2, <2>3, <2>4
  <1>8. CASE \E n \in Notes, who \in {"script", "relayer", "recovery"} : Execute(n, who)
    <2>1. PICK n \in Notes, who \in {"script", "relayer", "recovery"} : Execute(n, who)
      BY <1>8
    <2>2. UNCHANGED <<landed, file, first>> /\ (spentBy' = spentBy \/ spentBy' = [spentBy EXCEPT ![n] = who])
      BY <2>1 DEF Execute
    <2>3. who \in Payers /\ who # "nobody"
      BY DEF Payers
    <2> QED BY <1>1, <2>2, <2>3, NoteIsTaken
  <1>9. CASE Persist
    <2>1. Running /\ file' = mem /\ UNCHANGED <<landed, spentBy, first>>
      BY <1>9, AtStep DEF Inv, Persist
    <2>2. DOMAIN file \ DOMAIN mem \subseteq 1..(first - 1)
      <3>1. ASSUME NEW n \in DOMAIN file, n \notin DOMAIN mem PROVE n < first
        BY <2>1, <3>1 DEF Inv, JournalsOK
      <3>2. DOMAIN file \subseteq 1..(next - 1)
        BY DEF Inv, JournalsOK
      <3> QED BY <1>1, <3>1, <3>2
    <2>3. \A n \in DOMAIN file \intersect DOMAIN mem : file[n].withdrawn => mem[n].withdrawn
      BY <2>1 DEF Inv, JournalsOK
    <2> QED BY <2>1, <2>2, <2>3, FileIsWritten
  <1>10. CASE Open
    <2>1. Running /\ Op = "open" /\ mem = Empty /\ file' = Empty /\ UNCHANGED <<landed, spentBy, first>>
      BY <1>10, AtStep, Before DEF Inv, Open
    <2>2. DOMAIN file \subseteq 1..(first - 1)
      <3>1. \A n \in DOMAIN file : n < first
        BY <2>1, EmptyIs DEF Inv, JournalsOK
      <3>2. DOMAIN file \subseteq 1..(next - 1)
        BY DEF Inv, JournalsOK
      <3> QED BY <1>1, <3>1, <3>2
    <2> QED BY <2>1, <2>2, EmptyIs, FileIsWritten
  <1>11. CASE RecoveryEnds
    <2>1. (file' = file \/ file' = rec.copy) /\ rec.on /\ UNCHANGED <<landed, spentBy, first>>
      BY <1>11 DEF RecoveryEnds
    <2>2. DOMAIN rec.copy = DOMAIN file /\ \A n \in DOMAIN file : file[n].withdrawn => rec.copy[n].withdrawn
      BY <2>1 DEF CopyOK, Inv, RecoveryOK
    <2> QED BY <2>1, <2>2, FileIsWritten
  <1>12. CASE \E p \in Programs[script] : Start(p)
    <2>1. first' = next /\ UNCHANGED <<landed, spentBy, file>>
      BY <1>12 DEF Start
    <2>2. landed \subseteq 1..(next - 1) /\ DOMAIN file \subseteq 1..(next - 1)
          /\ 1..(first - 1) \subseteq 1..(next - 1) /\ 1..(next - 1) \subseteq Notes
      BY <1>1, NotesAre DEF Inv, NotesOK, JournalsOK
    <2>3. Spent' = Spent
      BY <2>1 DEF Spent
    <2>4. Journal!Begin
      BY <2>1, <2>2, <2>3 DEF Journal!Begin
    <2> QED BY <2>4 DEF Journal!Next
  <1> QED BY <1>3, <1>4, <1>6, <1>7, <1>8, <1>9, <1>10, <1>11, <1>12 DEF Next, Step, Recovery

\* Every script, with whatever failures, crashes and recoveries, implements the
\* journal that JournalPromise describes.
THEOREM JournalsKeepTheirPromise == Spec => KeepsJournal
  <1>1. Init => PooledOK /\ CopyOK
    <2>1. Idle.on = FALSE
      BY IdleIs
    <2> QED BY <2>1 DEF Init, PooledOK, CopyOK, Spent
  <1>2. Init => Journal!Init
    BY EmptyIs DEF Init, Journal!Init, Spent
  <1>3. ASSUME UNCHANGED vars
        PROVE  UNCHANGED <<landed, spentBy, pend, file, first, rec>>
    BY <1>3 DEF vars, chain, journal, notes, control, rescue, fixed
  <1>4. Inv /\ PooledOK /\ CopyOK /\ [Next]_vars => (PooledOK /\ CopyOK)'
    <2>1. Inv /\ PooledOK /\ CopyOK /\ Next => (PooledOK /\ CopyOK)'
      BY PooledKept, CopyKept
    <2>2. PooledOK /\ CopyOK /\ UNCHANGED vars => (PooledOK /\ CopyOK)'
      BY <1>3 DEF PooledOK, CopyOK, Spent
    <2> QED BY <2>1, <2>2
  <1>5. Inv /\ Inv' /\ CopyOK /\ PooledOK' /\ [Next]_vars => [Journal!Next]_(Journal!vars)
    <2>1. UNCHANGED vars => UNCHANGED Journal!vars
      BY <1>3 DEF Journal!vars, Spent
    <2> QED BY <2>1, PromiseKept
  <1>6. Journal!Spec <=> Journal!Init /\ [][Journal!Next]_(Journal!vars)
    BY DEF Journal!Spec
  <1> QED BY <1>1, <1>2, <1>4, <1>5, <1>6, InvAlways, PTL DEF Spec, KeepsJournal
=============================================================================
