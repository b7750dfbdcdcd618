------------------------ MODULE RequestGuards_proofs -------------------------
(***************************************************************************)
(* Theorems about RequestGuards, for any finite pool of threads and any    *)
(* limits, windows and lags.                                               *)
(***************************************************************************)
EXTENDS RequestGuards, FiniteSetTheorems, SequenceTheorems, WellFoundedInduction, TLAPS

-----------------------------------------------------------------------------
(***************************************************************************)
(* Numbers.                                                                *)
(***************************************************************************)
LEMMA GreatestOfTwo ==
    ASSUME NEW a \in Int, NEW b \in Int
    PROVE  Max({a, b}) = IF a >= b THEN a ELSE b
<1> DEFINE m == IF a >= b THEN a ELSE b
<1>1. m \in {a, b} /\ \A y \in {a, b} : m >= y
  OBVIOUS
<1>2. \A x \in {a, b} : (\A y \in {a, b} : x >= y) => x = m
  OBVIOUS
<1> QED BY <1>1, <1>2 DEF Max

LEMMA LeastOfTwo ==
    ASSUME NEW a \in Int, NEW b \in Int
    PROVE  Min({a, b}) = IF a <= b THEN a ELSE b
<1> DEFINE m == IF a <= b THEN a ELSE b
<1>1. m \in {a, b} /\ \A y \in {a, b} : m <= y
  OBVIOUS
<1>2. \A x \in {a, b} : (\A y \in {a, b} : x <= y) => x = m
  OBVIOUS
<1> QED BY <1>1, <1>2 DEF Min

\* Old is beyond every age that is compared with anything.
LEMMA Bounds ==
    /\ Old \in Nat /\ MaxLag \in Nat /\ LimitWindow \in Nat /\ FailureWindow \in Nat
    /\ LimitWindow + MaxLag < Old /\ FailureWindow + MaxLag < Old
    /\ Limit \in Nat \ {0} /\ MaxFailures \in Nat \ {0}
    /\ IsFiniteSet(Threads) /\ Cardinality(Threads) \in Nat
<1> DEFINE S == {PredictWindow, LoginWindow, FailureWindow}
<1>1. PredictWindow \in Nat /\ LoginWindow \in Nat /\ FailureWindow \in Nat /\ MaxLag \in Nat
  BY RequestGuardsAssumption
<1>2. \E m \in S : \A y \in S : m >= y
  BY <1>1
<1>3. Max(S) \in S /\ \A y \in S : Max(S) >= y
  BY <1>2 DEF Max
<1>4. Old \in Nat /\ \A y \in S : y + MaxLag < Old
  <2>1. Old = Max(S) + MaxLag + 1 /\ Max(S) \in Nat
    BY <1>1, <1>3 DEF Old
  <2> QED BY <2>1, <1>1, <1>3
<1>5. LimitWindow \in S /\ FailureWindow \in S
  BY DEF LimitWindow
<1>6. Limit \in Nat \ {0} /\ MaxFailures \in Nat \ {0}
  BY RequestGuardsAssumption DEF Limit
<1>7. IsFiniteSet(Threads) /\ Cardinality(Threads) \in Nat
  BY RequestGuardsAssumption, FS_CardinalityType
<1> QED BY <1>1, <1>4, <1>5, <1>6, <1>7

\* A set of threads that differs from another one in t alone.
LEMMA FlipOne ==
    ASSUME NEW A, NEW B, A \subseteq Threads, B \subseteq Threads, NEW t \in Threads, A \ {t} = B \ {t}
    PROVE  /\ Cardinality(A) \in Nat /\ Cardinality(B) \in Nat
           /\ Cardinality(A) <= Cardinality(Threads) /\ Cardinality(B) <= Cardinality(Threads)
           /\ t \in A /\ t \notin B => Cardinality(B) + 1 = Cardinality(A)
           /\ t \notin A /\ t \in B => Cardinality(B) = Cardinality(A) + 1
           /\ (t \in A <=> t \in B) => Cardinality(B) = Cardinality(A)
           /\ t \notin B => Cardinality(B) + 1 <= Cardinality(Threads)
<1>1. /\ IsFiniteSet(A) /\ IsFiniteSet(B) /\ Cardinality(A) \in Nat /\ Cardinality(B) \in Nat
      /\ Cardinality(A) <= Cardinality(Threads) /\ Cardinality(B) <= Cardinality(Threads)
  BY Bounds, FS_Subset, FS_CardinalityType
<1>2. Cardinality(A \ {t}) = IF t \in A THEN Cardinality(A) - 1 ELSE Cardinality(A)
  BY <1>1, FS_RemoveElement
<1>3. Cardinality(B \ {t}) = IF t \in B THEN Cardinality(B) - 1 ELSE Cardinality(B)
  BY <1>1, FS_RemoveElement
<1>4. t \notin B => Cardinality(B) + 1 <= Cardinality(Threads)
  <2>1. SUFFICES ASSUME t \notin B PROVE Cardinality(B) + 1 <= Cardinality(Threads)
    OBVIOUS
  <2>2. B \subseteq Threads \ {t} /\ IsFiniteSet(Threads \ {t})
    BY <2>1, Bounds, FS_RemoveElement
  <2>3. Cardinality(Threads \ {t}) = IF t \in Threads THEN Cardinality(Threads) - 1 ELSE Cardinality(Threads)
    BY Bounds, FS_RemoveElement
  <2>4. Cardinality(B) <= Cardinality(Threads \ {t})
    BY <2>2, FS_Subset
  <2> QED BY <1>1, <2>3, <2>4, Bounds
<1> QED BY <1>1, <1>2, <1>3, <1>4

-----------------------------------------------------------------------------
(***************************************************************************)
(* Lists of ages.                                                          *)
(***************************************************************************)

LEMMA FunctionIsSeq ==
    ASSUME NEW S, NEW n \in Nat, NEW f \in [1..n -> S]
    PROVE  f \in Seq(S) /\ Len(f) = n
<1>1. DOMAIN f = 1..n
  OBVIOUS
<1>2. f \in Seq(S)
  OBVIOUS
<1>3. Len(f) \in Nat /\ 1..Len(f) = 1..n
  BY <1>1, <1>2, LenProperties
<1> QED BY <1>2, <1>3

\* How many of the ages of s are at most a.
Within(s, a) == {i \in DOMAIN s : s[i] <= a}
Young(s, a) == Cardinality(Within(s, a))

LEMMA YoungFacts ==
    ASSUME NEW s \in Seq(Nat), NEW a \in Int
    PROVE  /\ Len(s) \in Nat /\ DOMAIN s = 1..Len(s) /\ \A i \in DOMAIN s : s[i] \in Nat
           /\ IsFiniteSet(Within(s, a)) /\ Young(s, a) \in Nat /\ Young(s, a) <= Len(s)
<1>1. Len(s) \in Nat /\ DOMAIN s = 1..Len(s) /\ \A i \in DOMAIN s : s[i] \in Nat
  BY LenProperties, ElementOfSeq
<1>2. IsFiniteSet(1..Len(s)) /\ Cardinality(1..Len(s)) = Len(s)
  <2>1. 1 \in Int /\ Len(s) \in Int
    BY <1>1
  <2>2. /\ IsFiniteSet(1..Len(s))
        /\ Cardinality(1..Len(s)) = IF 1 > Len(s) THEN 0 ELSE Len(s) - 1 + 1
    BY <2>1, FS_Interval
  <2> QED BY <1>1, <2>2
<1>3. Within(s, a) \subseteq 1..Len(s)
  BY <1>1 DEF Within
<1>4. IsFiniteSet(Within(s, a)) /\ Cardinality(Within(s, a)) <= Len(s)
  BY <1>2, <1>3, FS_Subset
<1> QED BY <1>1, <1>4, FS_CardinalityType DEF Young

\* A list that holds, at other places, all the young ages of another one holds as
\* many.
LEMMA Moved ==
    ASSUME NEW s \in Seq(Nat), NEW u \in Seq(Nat), NEW a \in Int, NEW k \in Int,
           \A i \in Within(s, a) : i + k \in Within(u, a)
    PROVE  Young(s, a) <= Young(u, a)
<1> DEFINE f == [i \in Within(s, a) |-> i + k]
<1>1. f \in [Within(s, a) -> Within(u, a)]
  OBVIOUS
<1>2. \A i, j \in Within(s, a) : f[i] = f[j] => i = j
  <2>1. Within(s, a) \subseteq Nat
    BY YoungFacts DEF Within
  <2> QED BY <2>1
<1>3. f \in Injection(Within(s, a), Within(u, a))
  BY <1>1, <1>2 DEF Injection, IsInjective
<1>4. IsFiniteSet(Within(u, a))
  BY YoungFacts
<1>5. Cardinality(Within(s, a)) <= Cardinality(Within(u, a))
  BY <1>3, <1>4, FS_Injection
<1> QED BY <1>5 DEF Young

LEMMA YoungOfAppend ==
    ASSUME NEW s \in Seq(Nat), NEW e \in Nat, NEW a \in Int
    PROVE  /\ Append(s, e) \in Seq(Nat) /\ Len(Append(s, e)) = Len(s) + 1
           /\ Young(Append(s, e), a) = IF e <= a THEN Young(s, a) + 1 ELSE Young(s, a)
<1>1. /\ Append(s, e) \in Seq(Nat) /\ Len(Append(s, e)) = Len(s) + 1
      /\ \A i \in 1..Len(s) : Append(s, e)[i] = s[i]
      /\ Append(s, e)[Len(s) + 1] = e
  BY AppendProperties
<1>2. /\ Len(s) \in Nat /\ DOMAIN s = 1..Len(s) /\ DOMAIN Append(s, e) = 1..Len(s) + 1
      /\ IsFiniteSet(Within(s, a)) /\ Young(s, a) \in Nat
  BY <1>1, YoungFacts
<1>3. CASE e <= a
  <2>1. Within(Append(s, e), a) = Within(s, a) \cup {Len(s) + 1}
    BY <1>1, <1>2, <1>3 DEF Within
  <2>2. Len(s) + 1 \notin Within(s, a)
    BY <1>2 DEF Within
  <2>3. Cardinality(Within(s, a) \cup {Len(s) + 1}) =
           IF Len(s) + 1 \in Within(s, a) THEN Cardinality(Within(s, a)) ELSE Cardinality(Within(s, a)) + 1
    BY <1>2, FS_AddElement
  <2> QED BY <1>1, <1>3, <2>1, <2>2, <2>3 DEF Young
<1>4. CASE ~(e <= a)
  <2>1. Within(Append(s, e), a) = Within(s, a)
    BY <1>1, <1>2, <1>4 DEF Within
  <2> QED BY <1>1, <1>4, <2>1 DEF Young
<1> QED BY <1>3, <1>4

\* Nothing young is lost with an old head.
LEMMA YoungOfTail ==
    ASSUME NEW s \in Seq(Nat), s # <<>>, NEW a \in Int, a < Head(s)
    PROVE  /\ Tail(s) \in Seq(Nat) /\ Len(Tail(s)) = Len(s) - 1
           /\ Young(s, a) <= Young(Tail(s), a)
<1>1. /\ Head(s) \in Nat /\ Tail(s) \in Seq(Nat) /\ Len(Tail(s)) = Len(s) - 1 /\ Head(s) = s[1]
      /\ \A i \in 1..Len(Tail(s)) : Tail(s)[i] = s[i + 1]
  BY HeadTailProperties
<1>2. /\ Len(s) \in Nat /\ DOMAIN s = 1..Len(s) /\ DOMAIN Tail(s) = 1..Len(Tail(s))
      /\ Len(Tail(s)) \in Nat
  BY <1>1, YoungFacts
<1> PICK k \in Int : k = -1
  OBVIOUS
<1>3. ASSUME NEW i \in Within(s, a) PROVE i + k \in Within(Tail(s), a)
  <2>1. i \in 1..Len(s) /\ s[i] <= a /\ i # 1
    BY <1>1, <1>2, <1>3 DEF Within
  <2>2. i - 1 \in 1..Len(Tail(s))
    BY <1>1, <1>2, <2>1
  <2>3. Tail(s)[i - 1] = s[(i - 1) + 1]
    BY <1>1, <2>2
  <2>4. i - 1 \in Within(Tail(s), a)
    BY <1>2, <2>1, <2>2, <2>3 DEF Within
  <2> QED BY <2>1, <2>4
<1>4. Young(s, a) <= Young(Tail(s), a)
  BY <1>1, <1>3, Moved
<1> QED BY <1>1, <1>4

LEMMA TailFacts ==
    ASSUME NEW S, NEW s \in Seq(S), s # <<>>
    PROVE  Tail(s) \in Seq(S) /\ Len(Tail(s)) = Len(s) - 1 /\ Len(s) \in Nat \ {0} /\ Head(s) \in S
BY HeadTailProperties, EmptySeq, LenProperties

\* All ages grow by one, and are not told apart any more beyond Old.
LEMMA YoungOfAged ==
    ASSUME NEW s \in Seq(0..Old), NEW a \in Int, a < Old
    PROVE  /\ Aged(s) \in Seq(0..Old) /\ Len(Aged(s)) = Len(s) /\ DOMAIN Aged(s) = DOMAIN s
           /\ \A i \in DOMAIN s : Aged(s)[i] = (IF s[i] < Old THEN s[i] + 1 ELSE Old) /\ s[i] \in 0..Old
           /\ Young(Aged(s), a) = Young(s, a - 1)
<1>1. Len(s) \in Nat /\ DOMAIN s = 1..Len(s) /\ \A i \in DOMAIN s : s[i] \in 0..Old
  BY LenProperties, ElementOfSeq
<1>2. \A i \in DOMAIN s : Aged(s)[i] = (IF s[i] < Old THEN s[i] + 1 ELSE Old) /\ Aged(s)[i] \in 0..Old
  <2>1. ASSUME NEW i \in DOMAIN s
        PROVE  Aged(s)[i] = (IF s[i] < Old THEN s[i] + 1 ELSE Old) /\ Aged(s)[i] \in 0..Old
    <3>1. s[i] \in 0..Old /\ Old \in Nat /\ s[i] + 1 \in Int
      BY <1>1, Bounds
    <3>2. Min({s[i] + 1, Old}) = IF s[i] + 1 <= Old THEN s[i] + 1 ELSE Old
      BY <3>1, LeastOfTwo
    <3>3. Aged(s)[i] = Min({s[i] + 1, Old})
      BY DEF Aged
    <3> QED BY <3>1, <3>2, <3>3
  <2> QED BY <2>1
<1>3. DOMAIN Aged(s) = 1..Len(s)
  BY <1>1 DEF Aged
<1>4. Aged(s) \in Seq(0..Old) /\ Len(Aged(s)) = Len(s)
  <2>1. Aged(s) \in [1..Len(s) -> 0..Old]
    BY <1>1, <1>2 DEF Aged
  <2> PICK aged : aged = Aged(s)
    OBVIOUS
  <2> PICK n \in Nat : n = Len(s)
    BY <1>1
  <2>2. aged \in [1..n -> 0..Old]
    BY <2>1
  <2>3. aged \in Seq(0..Old) /\ Len(aged) = n
    BY <2>2, FunctionIsSeq
  <2> QED BY <2>3
<1>5. Within(Aged(s), a) = Within(s, a - 1)
  BY <1>1, <1>2, <1>3, Bounds DEF Within
<1> QED BY <1>1, <1>2, <1>3, <1>4, <1>5 DEF Young

Descending(s) == \A i, j \in DOMAIN s : i < j => s[i] >= s[j]

LEMMA HasLeast ==
    ASSUME NEW S, S \subseteq Nat, S # {}
    PROVE  \E m \in S : \A k \in S : m <= k
<1> DEFINE R == {ss \in Nat \X Nat : ss[1] < ss[2]}
<1>1. IsWellFoundedOn(R, Nat)
  BY NatLessThanWellFounded DEF OpToRel
<1>2. PICK m \in S : \A k \in S : ~(<<k, m>> \in R)
  BY <1>1, WFMin
<1>3. ASSUME NEW k \in S PROVE m <= k
  <2>1. k \in Nat /\ m \in Nat /\ ~(k < m)
    BY <1>2
  <2> QED BY <2>1
<1> QED BY <1>3

\* In a list that descends, the ages beyond w come first.
LEMMA OldOnesFirst ==
    ASSUME NEW s \in Seq(Nat), Descending(s), NEW w \in Int
    PROVE  LET k == Cardinality({i \in DOMAIN s : s[i] > w})
           IN  /\ k \in 0..Len(s)
               /\ \A i \in DOMAIN s : s[i] > w <=> i <= k
<1> DEFINE n == Len(s)
           Beyond == {i \in DOMAIN s : s[i] > w}
           Free == {j \in Nat : j + 1 \notin Beyond}
<1>1. n \in Nat /\ DOMAIN s = 1..n /\ \A i \in 1..n : s[i] \in Nat
  BY YoungFacts
<1>2. n \in Free /\ Free \subseteq Nat
  BY <1>1
<1>3. PICK m \in Free : \A j \in Free : m <= j
  BY <1>2, HasLeast
<1>4. m \in Nat /\ m <= n
  BY <1>2, <1>3
<1>5. ASSUME NEW i \in 1..n PROVE s[i] > w <=> i <= m
  <2>1. ASSUME i <= m PROVE s[i] > w
    <3>1. i - 1 \in Nat /\ ~(m <= i - 1)
      BY <2>1, <1>4
    <3>2. i - 1 \notin Free
      BY <3>1, <1>3
    <3> QED BY <3>1, <3>2
  <2>2. ASSUME i > m PROVE ~(s[i] > w)
    <3>1. m + 1 \notin Beyond /\ m + 1 \in 1..n
      BY <1>3, <1>4, <2>2
    <3>2. ~(s[m + 1] > w) /\ s[m + 1] \in Nat /\ s[i] \in Nat
      BY <3>1, <1>1
    <3>3. i = m + 1 \/ m + 1 < i
      BY <2>2, <1>4
    <3>4. s[m + 1] >= s[i]
      BY <1>1, <3>1, <3>2, <3>3 DEF Descending
    <3> QED BY <3>2, <3>4
  <2> QED BY <2>1, <2>2, <1>4
<1>6. Beyond = 1..m
  BY <1>1, <1>4, <1>5
<1>7. Cardinality(1..m) = m
  <2>1. 1 \in Int /\ m \in Int
    BY <1>4
  <2>2. Cardinality(1..m) = IF 1 > m THEN 0 ELSE m - 1 + 1
    BY <2>1, FS_Interval
  <2> QED BY <2>2, <1>4
<1>8. Cardinality(Beyond) = m
  BY <1>6, <1>7
<1> HIDE DEF Beyond
<1>9. m \in 0..Len(s) /\ \A i \in DOMAIN s : s[i] > w <=> i <= m
  BY <1>1, <1>4, <1>5
<1> QED BY <1>8, <1>9 DEF Beyond

\* Recent keeps exactly the young ages, in their order.
LEMMA RecentFacts ==
    ASSUME NEW s \in Seq(Nat), Descending(s), NEW w \in Nat
    PROVE  /\ Recent(s, w) \in Seq(0..w) /\ Descending(Recent(s, w))
           /\ \A a \in Int : Young(Recent(s, w), a) <= Young(s, a)
<1> DEFINE kept == Recent(s, w)
<1> PICK n : n = Len(s)
  OBVIOUS
<1>1. n \in Nat /\ DOMAIN s = 1..n /\ \A i \in 1..n : s[i] \in Nat
  <2>1. w \in Int
    OBVIOUS
  <2> QED BY <2>1, YoungFacts
<1> PICK k : k = Cardinality({i \in DOMAIN s : s[i] > w})
  OBVIOUS
<1>2. k \in 0..n /\ \A i \in DOMAIN s : s[i] > w <=> i <= k
  <2>1. w \in Int
    OBVIOUS
  <2> QED BY <2>1, OldOnesFirst
<1>k. k \in Nat /\ k <= n /\ n \in Nat
  BY <1>1, <1>2
<1>3. kept = SubSeq(s, k + 1, n)
  BY DEF Recent
<1>4. \A i \in k + 1..n : s[i] \in 0..w
  <2>1. ASSUME NEW i \in k + 1..n PROVE s[i] \in 0..w
    <3>1. i \in 1..n /\ ~(i <= k)
      BY <1>1, <1>2
    <3>2. s[i] \in Nat /\ ~(s[i] > w)
      BY <1>1, <1>2, <3>1
    <3> QED BY <3>2
  <2> QED BY <2>1
<1>5. /\ SubSeq(s, k + 1, n) \in Seq(0..w)
      /\ Len(SubSeq(s, k + 1, n)) = IF k + 1 <= n THEN n - (k + 1) + 1 ELSE 0
      /\ \A i \in 1 .. n - (k + 1) + 1 : SubSeq(s, k + 1, n)[i] = s[k + 1 + i - 1]
  <2> PICK m : m = k + 1
    OBVIOUS
  <2>1. m \in Int /\ n \in Int
    BY <1>k
  <2>b. \A i \in m..n : s[i] \in 0..w
    BY <1>4
  <2> PICK S : S = 0..w
    OBVIOUS
  <2>c. \A i \in m..n : s[i] \in S
    BY <2>b
  <2>2. /\ SubSeq(s, m, n) \in Seq(S)
        /\ Len(SubSeq(s, m, n)) = IF m <= n THEN n - m + 1 ELSE 0
        /\ \A i \in 1 .. n - m + 1 : SubSeq(s, m, n)[i] = s[m + i - 1]
    <3>1. SubSeq(s, m, n) \in Seq(S)
      BY ONLY <2>1, <2>c, SubSeqProperties
    <3>2. Len(SubSeq(s, m, n)) = IF m <= n THEN n - m + 1 ELSE 0
      BY ONLY <2>1, <2>c, SubSeqProperties
    <3>3. \A i \in 1 .. n - m + 1 : SubSeq(s, m, n)[i] = s[m + i - 1]
      BY ONLY <2>1, <2>c, SubSeqProperties
    <3> QED BY <3>1, <3>2, <3>3
  <2> QED BY <2>2
<1>6. kept \in Seq(0..w) /\ Len(kept) = n - k /\ DOMAIN kept = 1..n - k
  <2>1. kept \in Seq(0..w) /\ Len(kept) = n - k
    BY <1>k, <1>3, <1>5
  <2> HIDE DEF kept
  <2>2. DOMAIN kept = 1..Len(kept)
    BY <2>1, LenProperties
  <2> QED BY <2>1, <2>2
<1>7. \A i \in 1..n - k : kept[i] = s[i + k]
  <2>1. ASSUME NEW i \in 1..n - k PROVE kept[i] = s[i + k]
    <3>1. i \in 1 .. n - (k + 1) + 1 /\ k + 1 + i - 1 = i + k
      BY <1>1, <1>2
    <3> QED BY <1>3, <1>5, <3>1
  <2> QED BY <2>1
<1> HIDE DEF kept
<1>8. Descending(kept)
  <2>1. ASSUME NEW i \in 1..n - k, NEW j \in 1..n - k, i < j PROVE kept[i] >= kept[j]
    <3>1. i + k \in DOMAIN s /\ j + k \in DOMAIN s /\ i + k < j + k
      <4>1. i \in 1..n - k /\ j \in 1..n - k /\ i < j /\ k \in Nat /\ n \in Nat /\ DOMAIN s = 1..n
        BY <1>1, <1>k, <2>1
      <4> QED BY ONLY <4>1
    <3>2. s[i + k] >= s[j + k]
      BY <3>1 DEF Descending
    <3> QED BY <1>7, <3>2
  <2> QED BY <2>1, <1>6 DEF Descending
<1>9. ASSUME NEW a \in Int PROVE Young(kept, a) <= Young(s, a)
  <2>1. kept \in Seq(Nat) /\ k \in Int
    <3>1. 0..w \subseteq Nat
      OBVIOUS
    <3> QED BY <1>2, <1>6, <3>1, SeqMonotonic
  <2>2. ASSUME NEW i \in Within(kept, a) PROVE i + k \in Within(s, a)
    <3>1. i \in 1..n - k /\ kept[i] <= a
      BY <1>6, <2>2 DEF Within
    <3>2. i + k \in 1..n
      BY <3>1, <1>1, <1>2
    <3>3. s[i + k] <= a
      BY <3>1, <1>7
    <3> QED BY <1>1, <3>2, <3>3 DEF Within
  <2> QED BY <2>1, <2>2, Moved
<1> QED BY <1>6, <1>8, <1>9 DEF kept

LEMMA RecentCounts ==
    ASSUME NEW s \in Seq(Nat), Descending(s), NEW w \in Int
    PROVE  Len(Recent(s, w)) = Young(s, w)
<1> PICK n : n = Len(s)
  OBVIOUS
<1>1. n \in Nat /\ DOMAIN s = 1..n /\ \A i \in 1..n : s[i] \in Nat
  BY YoungFacts
<1> PICK k : k = Cardinality({i \in DOMAIN s : s[i] > w})
  OBVIOUS
<1>2. k \in 0..n /\ \A i \in DOMAIN s : s[i] > w <=> i <= k
  BY OldOnesFirst
<1>k. k \in Nat /\ k <= n /\ n \in Nat
  BY <1>1, <1>2
<1>3. Recent(s, w) = SubSeq(s, k + 1, n)
  BY DEF Recent
<1>4. Len(SubSeq(s, k + 1, n)) = IF k + 1 <= n THEN n - (k + 1) + 1 ELSE 0
  <2> PICK m : m = k + 1
    OBVIOUS
  <2>1. m \in Int /\ n \in Int /\ m \in 1..n + 1
    BY <1>1, <1>2
  <2>2. \A i \in m..n : s[i] \in Nat
    <3>1. ASSUME NEW i \in m..n PROVE s[i] \in Nat
      <4>1. i \in 1..n
        BY <1>1, <2>1
      <4> QED BY <1>1, <4>1
    <3> QED BY <3>1
  <2>3. Len(SubSeq(s, m, n)) = IF m <= n THEN n - m + 1 ELSE 0
    BY <2>1, <2>2, SubSeqProperties
  <2> QED BY <2>3
<1>5. Within(s, w) = k + 1..n
  <2>1. ASSUME NEW i \in 1..n PROVE s[i] <= w <=> i \in k + 1..n
    <3>1. s[i] \in Nat /\ (s[i] > w <=> i <= k)
      BY <1>1, <1>2
    <3> QED BY <3>1, <1>1, <1>2
  <2>2. \A i \in k + 1..n : i \in 1..n
    BY <1>k
  <2>3. Within(s, w) = {i \in 1..n : s[i] <= w}
    BY <1>1 DEF Within
  <2> QED BY <2>1, <2>2, <2>3
<1>6. Cardinality(k + 1..n) = IF k + 1 > n THEN 0 ELSE n - (k + 1) + 1
  <2> PICK m : m = k + 1
    OBVIOUS
  <2>1. m \in Int /\ n \in Int
    BY <1>1, <1>2
  <2>2. Cardinality(m..n) = IF m > n THEN 0 ELSE n - m + 1
    BY <2>1, FS_Interval
  <2> QED BY <2>2
<1>7. Len(Recent(s, w)) = n - k /\ Young(s, w) = n - k
  BY <1>k, <1>3, <1>4, <1>5, <1>6 DEF Young
<1> QED BY <1>7

\* Time passes for a list that descends.
LEMMA TimePasses ==
    ASSUME NEW w \in Nat, w < Old, NEW s \in Seq(0..w), Descending(s)
    PROVE  /\ Recent(Aged(s), w) \in Seq(0..w) /\ Descending(Recent(Aged(s), w))
           /\ \A a \in Int : a < Old => Young(Recent(Aged(s), w), a) <= Young(s, a - 1)
<1> DEFINE aged == Aged(s)
<1>1. 0..w \subseteq 0..Old /\ 0..Old \subseteq Nat /\ -1 \in Int /\ -1 < Old
  BY Bounds
<1>2. s \in Seq(0..Old)
  BY <1>1, SeqMonotonic
<1>3. /\ aged \in Seq(0..Old) /\ Len(aged) = Len(s) /\ DOMAIN aged = DOMAIN s
      /\ \A i \in DOMAIN s : aged[i] = (IF s[i] < Old THEN s[i] + 1 ELSE Old) /\ s[i] \in 0..Old
  BY <1>1, <1>2, YoungOfAged
<1>4. \A a \in Int : a < Old => Young(aged, a) = Young(s, a - 1)
  BY <1>2, YoungOfAged
<1> HIDE DEF aged
<1>5. aged \in Seq(Nat)
  BY <1>1, <1>3, SeqMonotonic
<1>6. Descending(aged)
  <2>1. ASSUME NEW i \in DOMAIN s, NEW j \in DOMAIN s, i < j PROVE aged[i] >= aged[j]
    <3>1. s[i] >= s[j] /\ s[i] \in Int /\ s[j] \in Int
      BY <1>3, <2>1 DEF Descending
    <3>2. aged[i] = (IF s[i] < Old THEN s[i] + 1 ELSE Old) /\ aged[j] = (IF s[j] < Old THEN s[j] + 1 ELSE Old)
      BY <1>3
    <3> QED BY <3>1, <3>2, Bounds
  <2> QED BY <2>1, <1>3 DEF Descending
<1>7. /\ Recent(aged, w) \in Seq(0..w) /\ Descending(Recent(aged, w))
      /\ \A a \in Int : Young(Recent(aged, w), a) <= Young(aged, a)
  BY <1>5, <1>6, RecentFacts
<1>8. ASSUME NEW a \in Int, a < Old PROVE Young(Recent(aged, w), a) <= Young(s, a - 1)
  BY <1>4, <1>7, <1>8
<1> QED BY <1>7, <1>8 DEF aged

-----------------------------------------------------------------------------
(***************************************************************************)
(* The inductive invariant.                                                *)
(***************************************************************************)
ThreadType == [call : Calls, step : Steps, lag : 0..MaxLag, q : Deques]

\* The conjuncts of TypeOK but the bound on the limiter's deque, which follows
\* from CountInv.
Shape ==
    /\ scope \in {"predict", "auth_login"}
    /\ deque \in [Deques -> Seq(0..Old)]
    /\ table \in Deques
    /\ thread \in [Threads -> ThreadType]
    /\ admitted \in Seq(0..LimitWindow)
    /\ failed \in Seq(0..FailureWindow)
    /\ robbed \in 0..Old

\* A thread holds a deque only inside and after the purge loop, and the one of
\* the guard it is in.
ThreadFits(th) ==
    /\ th.step \in {"rescan", "pop", "append"} => (th.call = "check" <=> th.q = Hits)
    /\ th.step \notin {"rescan", "pop", "append"} => th.q = Hits
    /\ th.step = "append" => th.call # "ensure_allowed"
    /\ th.step \in {"idle", "enter", "verify"} => th.call = "check" /\ th.lag = 0

\* A deque without a reference is gone.
Collected ==
    \A d \in Deques :
        d # Hits /\ d # table /\ (\A t \in Threads : thread[t].q # d) => deque[d] = <<>>

TypeInv ==
    /\ Shape
    /\ \A t \in Threads : ThreadFits(thread[t])
    /\ Collected
    /\ Descending(admitted) /\ Descending(failed)

\* The deque of the lock key.
Failures == IF table = 0 THEN <<>> ELSE deque[table]

\* A thread that was found below the limit and has not appended yet; one that may
\* still register a failure, or that reads a deque which is not in the table any
\* more; one that will register a failed login in the deque of the table.
Counts(th) == th.call = "check" /\ th.step = "append"
Commits(th, tbl) ==
    \/ th.call = "register_failure"
    \/ th.step = "verify"
    \/ th.call = "ensure_allowed" /\ th.step \in {"rescan", "pop"} /\ th.q # tbl
Pends(th, tbl, a) ==
    /\ th.call = "register_failure"
    /\ th.step = "scan" \/ th.q = tbl
    /\ th.lag <= a

Counters == {t \in Threads : Counts(thread[t])}
Committed == {t \in Threads : Commits(thread[t], table)}
Pending(a) == {t \in Threads : Pends(thread[t], table, a)}

\* What is in a deque and what may still come fits.
CountInv ==
    /\ Len(deque[Hits]) + Cardinality(Counters) <= Limit + Others
    /\ Len(Failures) + Cardinality(Committed) <= MaxFailures + Others

\* Since the last robbery every admission and every failed login is still in its
\* deque, or is about to be registered.
CoverInv ==
    /\ \A a \in Int : a < robbed /\ a + MaxLag <= LimitWindow =>
           Young(admitted, a) <= Young(deque[Hits], a + MaxLag)
    /\ \A a \in Int : a < robbed /\ a <= FailureWindow =>
           Young(failed, a) <= Young(Failures, a) + Cardinality(Pending(a))

IInv == TypeInv /\ CountInv /\ CoverInv

-----------------------------------------------------------------------------
LEMMA AgesAreNumbers ==
    ASSUME NEW s \in Seq(0..Old)
    PROVE  s \in Seq(Nat)
<1>1. 0..Old \subseteq Nat
  BY Bounds
<1> QED BY <1>1, SeqMonotonic

LEMMA NoAges ==
    /\ <<>> \in Seq(0..Old) /\ Len(<<>>) = 0
    /\ \A a \in Int : Young(<<>>, a) = 0
<1>1. <<>> \in Seq(0..Old) /\ Len(<<>>) = 0 /\ DOMAIN <<>> = {}
  BY EmptySeq
<1>2. ASSUME NEW a \in Int PROVE Young(<<>>, a) = 0
  <2>1. Within(<<>>, a) = {}
    BY <1>1 DEF Within
  <2>2. Cardinality({}) = 0
    BY FS_EmptySet
  <2> QED BY <2>1, <2>2 DEF Young
<1> QED BY <1>1, <1>2

\* Before there was an age there was nothing young.
LEMMA YoungOfNegative ==
    ASSUME NEW s \in Seq(Nat), NEW a \in Int, a < 0
    PROVE  Young(s, a) = 0
<1>1. Within(s, a) = {}
  BY YoungFacts DEF Within
<1>2. Cardinality({}) = 0
  BY FS_EmptySet
<1> QED BY <1>1, <1>2 DEF Young

LEMMA StateFacts ==
    ASSUME Shape
    PROVE  /\ \A d \in Deques : deque[d] \in Seq(0..Old) /\ deque[d] \in Seq(Nat)
           /\ Failures \in Seq(0..Old) /\ Failures \in Seq(Nat)
           /\ admitted \in Seq(Nat) /\ failed \in Seq(Nat)
           /\ Hits \in Deques /\ Deques \subseteq Nat
           /\ \A t \in Threads : thread[t] \in ThreadType
           /\ robbed \in Nat /\ robbed <= Old
<1>1. \A d \in Deques : deque[d] \in Seq(0..Old) /\ deque[d] \in Seq(Nat)
  BY AgesAreNumbers DEF Shape
<1>2. Failures \in Seq(0..Old) /\ Failures \in Seq(Nat)
  BY <1>1, NoAges, AgesAreNumbers DEF Failures, Shape
<1>3. admitted \in Seq(Nat) /\ failed \in Seq(Nat)
  <2>1. 0..LimitWindow \subseteq Nat /\ 0..FailureWindow \subseteq Nat
    BY Bounds
  <2>2. admitted \in Seq(0..LimitWindow) /\ failed \in Seq(0..FailureWindow)
    BY DEF Shape
  <2> QED BY <2>1, <2>2, SeqMonotonic
<1>4. Hits \in Deques /\ Deques \subseteq Nat
  BY Bounds DEF Hits, Deques
<1>5. robbed \in Nat /\ robbed <= Old /\ \A t \in Threads : thread[t] \in ThreadType
  BY Bounds DEF Shape
<1> QED BY <1>1, <1>2, <1>3, <1>4, <1>5

LEMMA ListsAreTyped ==
    Shape =>
      /\ \A d \in Deques : deque[d] \in Seq(Nat)
      /\ Failures \in Seq(Nat) /\ admitted \in Seq(Nat) /\ failed \in Seq(Nat)
      /\ Hits \in Deques /\ robbed \in Nat
BY StateFacts

\* There are more deques than references.
LEMMA UnusedIsFree ==
    ASSUME Shape, table = 0
    PROVE  /\ Unused \in Deques /\ Unused # Hits /\ Unused # table
           /\ \A t \in Threads : thread[t].q # Unused
<1> DEFINE N == Cardinality(Threads)
           held == [t \in Threads |-> thread[t].q]
           Q == {thread[t].q : t \in Threads}
<1>1. held \in Surjection(Threads, Q)
  BY DEF Surjection
<1>2. IsFiniteSet(Threads) /\ N \in Nat
  BY Bounds
<1>3. IsFiniteSet(Q) /\ Cardinality(Q) <= N
  <2>1. \E f \in Surjection(Threads, Q) : TRUE
    BY <1>1
  <2> HIDE DEF Q, held
  <2> QED BY <1>1, <1>2, FS_Surjection
<1>4. IsFiniteSet(Q \cup {0}) /\ Cardinality(Q \cup {0}) <= N + 1 /\ Cardinality(Q \cup {0}) \in Nat
  <2> HIDE DEF Q
  <2>1. IsFiniteSet(Q \cup {0}) /\ Cardinality(Q \cup {0}) = IF 0 \in Q THEN Cardinality(Q) ELSE Cardinality(Q) + 1
    BY <1>3, FS_AddElement
  <2>2. Cardinality(Q) \in Nat
    BY <1>3, FS_CardinalityType
  <2> QED BY <1>2, <1>3, <2>1, <2>2
<1>5. Cardinality(Deques) = N + 2
  <2> PICK n : n = N + 1
    OBVIOUS
  <2>1. 0 \in Int /\ n \in Int /\ n >= 0
    BY <1>2
  <2>2. Cardinality(0..n) = IF 0 > n THEN 0 ELSE n - 0 + 1
    BY <2>1, FS_Interval
  <2>3. Cardinality(0..n) = N + 2
    BY <1>2, <2>1, <2>2
  <2> QED BY <2>3 DEF Deques
<1>6. PICK d \in Deques : d \notin Q \cup {0}
  <2>1. SUFFICES ASSUME Deques \subseteq Q \cup {0} PROVE FALSE
    OBVIOUS
  <2> HIDE DEF Q
  <2>2. Cardinality(Deques) <= Cardinality(Q \cup {0})
    BY <1>4, <2>1, FS_Subset
  <2> QED BY <1>2, <1>4, <1>5, <2>2
<1>7. d # Hits /\ d # table /\ \A t \in Threads : thread[t].q # d
  BY <1>6 DEF Hits
<1> QED BY <1>7 DEF Unused

-----------------------------------------------------------------------------
(***************************************************************************)
(* What a step of one thread changes.                                      *)
(***************************************************************************)

\* The table keeps its deque, or gets a new one, or loses it.
Keeps(tbl) == tbl = table \/ (table = 0 /\ \A u \in Threads : thread[u].q # tbl)

LEMMA BecomeFacts ==
    ASSUME TypeInv, NEW t \in Threads, NEW th \in ThreadType, ThreadFits(th), NEW tbl \in Deques,
           NEW content \in [Deques -> Seq(0..Old)], Become(t, th, tbl, content)
    PROVE  /\ deque' \in [Deques -> Seq(0..Old)]
           /\ table' = tbl /\ table' \in Deques
           /\ thread' \in [Threads -> ThreadType]
           /\ thread'[t] = th /\ \A u \in Threads : u # t => thread'[u] = thread[u]
           /\ \A u \in Threads : ThreadFits(thread'[u])
           /\ Collected'
           /\ deque'[Hits] = content[Hits]
           /\ Failures' = IF tbl = 0 THEN <<>> ELSE content[tbl]
<1>1. /\ thread' = [thread EXCEPT ![t] = th]
      /\ table' = tbl
      /\ deque' = [d \in Deques |->
            IF d \in {Hits, tbl, th.q} \cup {thread[u].q : u \in Threads \ {t}}
            THEN content[d] ELSE <<>>]
  BY DEF Become
<1>2. /\ thread \in [Threads -> ThreadType]
      /\ \A u \in Threads : ThreadFits(thread[u])
  BY DEF TypeInv, Shape
<1>3. /\ thread' \in [Threads -> ThreadType]
      /\ thread'[t] = th /\ \A u \in Threads : u # t => thread'[u] = thread[u]
  BY <1>1, <1>2
<1>4. \A u \in Threads : ThreadFits(thread'[u])
  <2>1. ASSUME NEW u \in Threads PROVE ThreadFits(thread'[u])
    BY <1>2, <1>3
  <2> QED BY <2>1
<1>5. deque' \in [Deques -> Seq(0..Old)]
  <2>1. ASSUME NEW d \in Deques PROVE content[d] \in Seq(0..Old) /\ <<>> \in Seq(0..Old)
    BY NoAges
  <2> QED BY <1>1, <2>1
<1>6. ASSUME NEW d \in Deques, d # Hits, d # table', \A u \in Threads : thread'[u].q # d
      PROVE  deque'[d] = <<>>
  <2>1. d # tbl /\ d # th.q
    BY <1>1, <1>3, <1>6
  <2>2. d \notin {thread[u].q : u \in Threads \ {t}}
    BY <1>3, <1>6
  <2> QED BY <1>1, <1>6, <2>1, <2>2
<1>7. Collected'
  BY <1>6 DEF Collected, Hits
<1>8. deque'[Hits] = content[Hits]
  BY <1>1, StateFacts DEF TypeInv
<1>9. Failures' = IF tbl = 0 THEN <<>> ELSE content[tbl]
  BY <1>1 DEF Failures
<1> QED BY <1>1, <1>3, <1>4, <1>5, <1>7, <1>8, <1>9

Bit(p) == IF p THEN 1 ELSE 0

LEMMA Flips ==
    ASSUME NEW A, NEW B, A \subseteq Threads, B \subseteq Threads, NEW t \in Threads, A \ {t} = B \ {t}
    PROVE  /\ Cardinality(A) \in Nat /\ Cardinality(B) \in Nat
           /\ Cardinality(B) <= Cardinality(Threads)
           /\ Cardinality(A) + Bit(t \in B) = Cardinality(B) + Bit(t \in A)
BY FlipOne DEF Bit

LEMMA ThreadStep ==
    ASSUME TypeInv, NEW t \in Threads, NEW th \in ThreadType, ThreadFits(th), NEW tbl \in Deques,
           NEW content \in [Deques -> Seq(0..Old)], Become(t, th, tbl, content)
    PROVE  /\ Cardinality(Counters) \in Nat /\ Cardinality(Counters') \in Nat
           /\ Cardinality(Counters') <= Cardinality(Threads)
           /\ Cardinality(Counters) + Bit(Counts(th)) = Cardinality(Counters') + Bit(Counts(thread[t]))
           /\ Cardinality(Committed') \in Nat /\ Cardinality(Committed') <= Cardinality(Threads)
           /\ Keeps(tbl) =>
                /\ Cardinality(Committed) \in Nat
                /\ Cardinality(Committed) + Bit(Commits(th, tbl)) =
                      Cardinality(Committed') + Bit(Commits(thread[t], table))
           /\ \A a \in Int : Cardinality(Pending(a)') \in Nat
           /\ Keeps(tbl) => \A a \in Int :
                /\ Cardinality(Pending(a)) \in Nat
                /\ Cardinality(Pending(a)) + Bit(Pends(th, tbl, a)) =
                      Cardinality(Pending(a)') + Bit(Pends(thread[t], table, a))
<1>1. /\ table' = tbl
      /\ thread'[t] = th /\ \A u \in Threads : u # t => thread'[u] = thread[u]
  BY BecomeFacts
<1>2. \A u \in Threads : thread[u] \in ThreadType /\ ThreadFits(thread[u])
  BY StateFacts DEF TypeInv
<1>3. /\ Counters \subseteq Threads /\ Counters' \subseteq Threads
      /\ Committed \subseteq Threads /\ Committed' \subseteq Threads
      /\ \A a \in Int : Pending(a) \subseteq Threads /\ Pending(a)' \subseteq Threads
  BY DEF Counters, Committed, Pending
<1>4. /\ t \in Counters <=> Counts(thread[t])
      /\ t \in Counters' <=> Counts(th)
      /\ t \in Committed <=> Commits(thread[t], table)
      /\ t \in Committed' <=> Commits(th, tbl)
      /\ \A a \in Int : (t \in Pending(a) <=> Pends(thread[t], table, a)) /\ (t \in Pending(a)' <=> Pends(th, tbl, a))
  BY <1>1 DEF Counters, Committed, Pending
<1>5. Counters \ {t} = Counters' \ {t}
  BY <1>1 DEF Counters
<1>6. /\ Cardinality(Counters) \in Nat /\ Cardinality(Counters') \in Nat
      /\ Cardinality(Counters') <= Cardinality(Threads)
      /\ Cardinality(Counters) + Bit(t \in Counters') = Cardinality(Counters') + Bit(t \in Counters)
  BY <1>3, <1>5, Flips
<1>7. Cardinality(Committed') \in Nat /\ Cardinality(Committed') <= Cardinality(Threads)
  BY <1>3, Flips
<1>8. \A a \in Int : Cardinality(Pending(a)') \in Nat
  BY <1>3, Flips
<1>9. ASSUME Keeps(tbl), NEW u \in Threads, u # t
      PROVE  /\ Commits(thread[u], table) <=> Commits(thread'[u], table')
             /\ \A a \in Int : Pends(thread[u], table, a) <=> Pends(thread'[u], table', a)
  <2>1. thread'[u] = thread[u]
    BY <1>1, <1>9
  <2>2. CASE tbl = table
    BY <1>1, <2>1, <2>2
  <2>3. CASE table = 0 /\ \A v \in Threads : thread[v].q # tbl
    <3> PICK o : o = thread[u]
      OBVIOUS
    <3>1. o.q # tbl /\ ThreadFits(o) /\ o \in ThreadType /\ table = 0
      BY <1>2, <2>3
    <3>2. o.call = "register_failure" => o.step = "scan" \/ o.q # 0
      BY <3>1 DEF ThreadFits, ThreadType, Steps, Hits
    <3>3. o.call = "ensure_allowed" /\ o.step \in {"rescan", "pop"} => o.q # 0
      BY <3>1 DEF ThreadFits, Hits
    <3>4. Commits(o, table) <=> Commits(o, tbl)
      BY <3>1, <3>3 DEF Commits
    <3>5. \A a \in Int : Pends(o, table, a) <=> Pends(o, tbl, a)
      BY <3>1, <3>2 DEF Pends
    <3> QED BY <1>1, <2>1, <3>4, <3>5
  <2> QED BY <1>9, <2>2, <2>3 DEF Keeps
<1>10. ASSUME Keeps(tbl)
       PROVE  /\ Cardinality(Committed) \in Nat
              /\ Cardinality(Committed) + Bit(t \in Committed') = Cardinality(Committed') + Bit(t \in Committed)
  <2>1. Committed \ {t} = Committed' \ {t}
    BY <1>9, <1>10 DEF Committed
  <2> QED BY <1>3, <2>1, Flips
<1>11. ASSUME Keeps(tbl), NEW a \in Int
       PROVE  /\ Cardinality(Pending(a)) \in Nat
              /\ Cardinality(Pending(a)) + Bit(t \in Pending(a)') = Cardinality(Pending(a)') + Bit(t \in Pending(a))
  <2>1. Pending(a) \ {t} = Pending(a)' \ {t}
    BY <1>9, <1>11 DEF Pending
  <2> QED BY <1>3, <2>1, Flips
<1> QED BY <1>4, <1>6, <1>7, <1>8, <1>10, <1>11 DEF Bit

\* A step of a thread keeps the invariant if it fits what the thread was about to do.
LEMMA StepKeeps ==
    ASSUME IInv, NEW t \in Threads, NEW th \in ThreadType, ThreadFits(th), NEW tbl \in Deques,
           NEW content \in [Deques -> Seq(0..Old)], Become(t, th, tbl, content),
           NEW hits, hits = content[Hits],
           NEW fails, fails = IF tbl = 0 THEN <<>> ELSE content[tbl],
           scope' = scope, admitted' \in Seq(0..LimitWindow), failed' \in Seq(0..FailureWindow),
           robbed' \in 0..Old, Descending(admitted'), Descending(failed'),
           \/ Len(hits) < Limit
           \/ Len(hits) + Bit(Counts(th)) <= Len(deque[Hits]) + Bit(Counts(thread[t])),
           \/ Len(fails) < MaxFailures
           \/ Keeps(tbl) /\ Len(fails) + Bit(Commits(th, tbl)) <= Len(Failures) + Bit(Commits(thread[t], table)),
           \A a \in Int : a < robbed' /\ a + MaxLag <= LimitWindow =>
               \/ Young(admitted', a) = 0
               \/ /\ a < robbed
                  /\ Young(admitted', a) + Young(deque[Hits], a + MaxLag)
                         <= Young(admitted, a) + Young(hits, a + MaxLag),
           \A a \in Int : a < robbed' /\ a <= FailureWindow =>
               \/ Young(failed', a) = 0
               \/ /\ a < robbed /\ Keeps(tbl)
                  /\ Young(failed', a) + Young(Failures, a) + Bit(Pends(thread[t], table, a))
                         <= Young(failed, a) + Young(fails, a) + Bit(Pends(th, tbl, a))
    PROVE  IInv'
<1>1. TypeInv /\ Shape /\ CountInv /\ CoverInv
  BY DEF IInv, TypeInv
<1>2. /\ deque' \in [Deques -> Seq(0..Old)]
      /\ table' = tbl /\ table' \in Deques
      /\ thread' \in [Threads -> ThreadType]
      /\ \A u \in Threads : ThreadFits(thread'[u])
      /\ Collected'
      /\ deque'[Hits] = hits
      /\ Failures' = fails
  BY <1>1, BecomeFacts
<1>3. LimitWindow' = LimitWindow /\ Limit' = Limit
  BY DEF LimitWindow, Limit
<1>4. Shape'
  BY <1>1, <1>2, <1>3 DEF Shape
<1>5. TypeInv'
  BY <1>2, <1>4 DEF TypeInv
<1>6. /\ hits \in Seq(Nat) /\ fails \in Seq(Nat) /\ admitted' \in Seq(Nat) /\ failed' \in Seq(Nat)
      /\ deque[Hits] \in Seq(Nat) /\ Failures \in Seq(Nat) /\ admitted \in Seq(Nat) /\ failed \in Seq(Nat)
      /\ robbed \in Nat /\ robbed' \in Nat
  <2>1. (/\ \A d \in Deques : deque[d] \in Seq(Nat)
         /\ Failures \in Seq(Nat) /\ admitted \in Seq(Nat) /\ failed \in Seq(Nat)
         /\ Hits \in Deques /\ robbed \in Nat)'
    BY <1>4, ListsAreTyped, PTL
  <2> QED BY <1>1, <1>2, <2>1, StateFacts
<1>7. Len(hits) \in Nat /\ Len(fails) \in Nat /\ Len(deque[Hits]) \in Nat /\ Len(Failures) \in Nat
  BY <1>6, LenProperties
<1>8. \A a \in Int :
        /\ Young(hits, a) \in Nat /\ Young(fails, a) \in Nat
        /\ Young(admitted', a) \in Nat /\ Young(failed', a) \in Nat
        /\ Young(deque[Hits], a) \in Nat /\ Young(Failures, a) \in Nat
        /\ Young(admitted, a) \in Nat /\ Young(failed, a) \in Nat
  BY <1>6, YoungFacts
<1>9. Limit \in Nat /\ MaxFailures \in Nat /\ Cardinality(Threads) \in Nat /\ Others = Cardinality(Threads) - 1
      /\ MaxLag \in Nat
  BY Bounds DEF Others
<1>b. /\ Bit(Counts(th)) \in 0..1 /\ Bit(Counts(thread[t])) \in 0..1
      /\ Bit(Commits(th, tbl)) \in 0..1 /\ Bit(Commits(thread[t], table)) \in 0..1
      /\ \A a \in Int : Bit(Pends(th, tbl, a)) \in 0..1 /\ Bit(Pends(thread[t], table, a)) \in 0..1
  BY DEF Bit
<1>10. CountInv'
  <2>1. Len(hits) + Cardinality(Counters') <= Limit + Others
    <3>1. /\ Cardinality(Counters) \in Nat /\ Cardinality(Counters') \in Nat
          /\ Cardinality(Counters') <= Cardinality(Threads)
          /\ Cardinality(Counters) + Bit(Counts(th)) = Cardinality(Counters') + Bit(Counts(thread[t]))
      BY <1>1, ThreadStep
    <3>2. Len(deque[Hits]) + Cardinality(Counters) <= Limit + Others
      BY <1>1 DEF CountInv
    <3>3. CASE Len(hits) < Limit
      <4>1. PICK n, l, k, m : n = Len(hits) /\ l = Cardinality(Counters') /\ k = Cardinality(Threads) /\ m = Limit
        OBVIOUS
      <4>2. n \in Nat /\ l \in Nat /\ k \in Nat /\ m \in Nat /\ n < m /\ l <= k
        BY <1>7, <1>9, <3>1, <3>3, <4>1
      <4>3. n + l <= m + (k - 1)
        BY ONLY <4>2
      <4> QED BY <1>9, <4>1, <4>3
    <3>4. CASE Len(hits) + Bit(Counts(th)) <= Len(deque[Hits]) + Bit(Counts(thread[t]))
      <4> PICK n, m, b, c, k, l : /\ n = Len(hits) /\ m = Len(deque[Hits])
                                  /\ b = Bit(Counts(th)) /\ c = Bit(Counts(thread[t]))
                                  /\ k = Cardinality(Counters) /\ l = Cardinality(Counters')
        OBVIOUS
      <4>1. n \in Nat /\ m \in Nat /\ b \in 0..1 /\ c \in 0..1 /\ k \in Nat /\ l \in Nat
        BY <1>7, <1>b, <3>1
      <4>2. n + b <= m + c
        BY <3>4
      <4>3. k + b = l + c
        BY <3>1
      <4>4. n + l <= m + k
        BY ONLY <4>1, <4>2, <4>3
      <4>5. m + k <= Limit + Others
        BY <3>2
      <4>6. Limit + Others \in Int
        BY <1>9
      <4>7. n + l <= Limit + Others
        BY ONLY <4>1, <4>4, <4>5, <4>6
      <4> QED BY <4>7
    <3> QED BY <3>3, <3>4
  <2>2. Len(fails) + Cardinality(Committed') <= MaxFailures + Others
    <3>1. /\ Cardinality(Committed') \in Nat /\ Cardinality(Committed') <= Cardinality(Threads)
          /\ Keeps(tbl) =>
                /\ Cardinality(Committed) \in Nat
                /\ Cardinality(Committed) + Bit(Commits(th, tbl)) =
                      Cardinality(Committed') + Bit(Commits(thread[t], table))
      BY <1>1, ThreadStep
    <3>2. Len(Failures) + Cardinality(Committed) <= MaxFailures + Others
      BY <1>1 DEF CountInv
    <3>3. CASE Len(fails) < MaxFailures
      BY <1>7, <1>9, <3>1, <3>3
    <3>4. CASE Keeps(tbl) /\ Len(fails) + Bit(Commits(th, tbl)) <= Len(Failures) + Bit(Commits(thread[t], table))
      <4> PICK n, m, b, c, k, l : /\ n = Len(fails) /\ m = Len(Failures)
                                  /\ b = Bit(Commits(th, tbl)) /\ c = Bit(Commits(thread[t], table))
                                  /\ k = Cardinality(Committed) /\ l = Cardinality(Committed')
        OBVIOUS
      <4>1. n \in Nat /\ m \in Nat /\ b \in 0..1 /\ c \in 0..1 /\ k \in Nat /\ l \in Nat
        BY <1>7, <1>b, <3>1, <3>4
      <4>2. n + b <= m + c
        BY <3>4
      <4>3. k + b = l + c
        BY <3>1, <3>4
      <4>4. n + l <= m + k
        BY ONLY <4>1, <4>2, <4>3
      <4>5. m + k <= MaxFailures + Others
        BY <3>2
      <4>6. MaxFailures + Others \in Int
        BY <1>9
      <4>7. n + l <= MaxFailures + Others
        BY ONLY <4>1, <4>4, <4>5, <4>6
      <4> QED BY <4>7
    <3> QED BY <3>3, <3>4
  <2>3. (Limit + Others)' = Limit + Others /\ (MaxFailures + Others)' = MaxFailures + Others
    BY <1>3 DEF Others
  <2> QED BY <1>2, <2>1, <2>2, <2>3 DEF CountInv
<1>11. ASSUME NEW a \in Int, a < robbed', a + MaxLag <= LimitWindow
       PROVE  Young(admitted', a) <= Young(hits, a + MaxLag)
  <2>1. a + MaxLag \in Int
    BY <1>9
  <2>2. /\ Young(admitted', a) \in Nat /\ Young(admitted, a) \in Nat
        /\ Young(deque[Hits], a + MaxLag) \in Nat /\ Young(hits, a + MaxLag) \in Nat
    BY <1>8, <2>1
  <2>3. CASE Young(admitted', a) = 0
    BY <2>2, <2>3
  <2>4. CASE /\ a < robbed
             /\ Young(admitted', a) + Young(deque[Hits], a + MaxLag)
                    <= Young(admitted, a) + Young(hits, a + MaxLag)
    <3>1. Young(admitted, a) <= Young(deque[Hits], a + MaxLag)
      BY <1>1, <1>11, <2>4 DEF CoverInv
    <3> QED BY <2>2, <2>4, <3>1
  <2> QED BY <1>11, <2>3, <2>4
<1>12. ASSUME NEW a \in Int, a < robbed', a <= FailureWindow
       PROVE  Young(failed', a) <= Young(fails, a) + Cardinality(Pending(a)')
  <2>1. /\ Cardinality(Pending(a)') \in Nat
        /\ Keeps(tbl) =>
             /\ Cardinality(Pending(a)) \in Nat
             /\ Cardinality(Pending(a)) + Bit(Pends(th, tbl, a)) =
                   Cardinality(Pending(a)') + Bit(Pends(thread[t], table, a))
    BY <1>1, ThreadStep
  <2>4. /\ Young(failed', a) \in Nat /\ Young(failed, a) \in Nat
        /\ Young(Failures, a) \in Nat /\ Young(fails, a) \in Nat
    BY <1>8
  <2>5. Bit(Pends(th, tbl, a)) \in 0..1 /\ Bit(Pends(thread[t], table, a)) \in 0..1
    BY <1>b
  <2>2. CASE Young(failed', a) = 0
    BY <2>1, <2>2, <2>4
  <2>3. CASE /\ a < robbed /\ Keeps(tbl)
             /\ Young(failed', a) + Young(Failures, a) + Bit(Pends(thread[t], table, a))
                    <= Young(failed, a) + Young(fails, a) + Bit(Pends(th, tbl, a))
    <3>1. Young(failed, a) <= Young(Failures, a) + Cardinality(Pending(a))
      BY <1>1, <1>12, <2>3 DEF CoverInv
    <3> PICK x, y, f, g, b, c, k, l : /\ x = Young(failed', a) /\ y = Young(failed, a)
                                      /\ f = Young(Failures, a) /\ g = Young(fails, a)
                                      /\ b = Bit(Pends(th, tbl, a)) /\ c = Bit(Pends(thread[t], table, a))
                                      /\ k = Cardinality(Pending(a)) /\ l = Cardinality(Pending(a)')
      OBVIOUS
    <3>2. /\ x \in Nat /\ y \in Nat /\ f \in Nat /\ g \in Nat
          /\ b \in 0..1 /\ c \in 0..1 /\ k \in Nat /\ l \in Nat
      BY <2>1, <2>3, <2>4, <2>5
    <3>3. x + f + c <= y + g + b
      BY <2>3
    <3>4. k + b = l + c
      BY <2>1, <2>3
    <3>5. y <= f + k
      BY <3>1
    <3>6. x <= g + l
      BY ONLY <3>2, <3>3, <3>4, <3>5
    <3> QED BY <3>6
  <2> QED BY <1>12, <2>2, <2>3
<1>13. CoverInv'
  <2>1. ASSUME NEW a \in Int, a < robbed', a <= FailureWindow
        PROVE  Young(failed', a) <= Young(Failures', a) + Cardinality(Pending(a)')
    BY <1>2, <1>12, <2>1
  <2>2. ASSUME NEW a \in Int, a < robbed', a + MaxLag <= LimitWindow'
        PROVE  Young(admitted', a) <= Young(deque'[Hits], a + MaxLag)
    BY <1>2, <1>3, <1>11, <2>2
  <2> QED BY <2>1, <2>2 DEF CoverInv, Hits
<1> QED BY <1>5, <1>10, <1>13 DEF IInv

\* A deque that is put into the table is a new one.
LEMMA TableContent ==
    ASSUME TypeInv, NEW tbl \in Deques, Keeps(tbl)
    PROVE  (IF tbl = 0 THEN <<>> ELSE deque[tbl]) = Failures
BY DEF Keeps, Failures, TypeInv, Collected, Hits

\* A step that only moves the thread, or hands out a new deque, or ends a purge
\* that lost a failed login.
LEMMA QuietStep ==
    ASSUME IInv, NEW t \in Threads, NEW th \in ThreadType, ThreadFits(th), NEW tbl \in Deques,
           Keeps(tbl), Become(t, th, tbl, deque),
           UNCHANGED <<scope, admitted, failed>>, robbed' = robbed \/ robbed' = 0,
           Len(deque[Hits]) < Limit \/ (Counts(th) => Counts(thread[t])),
           Len(Failures) < MaxFailures \/ (Commits(th, tbl) => Commits(thread[t], table)),
           \/ robbed' = 0
           \/ \A a \in Int : a >= 0 /\ Pends(thread[t], table, a) => Pends(th, tbl, a)
    PROVE  IInv'
<1>1. TypeInv /\ Shape
  BY DEF IInv, TypeInv
<1>2. /\ deque \in [Deques -> Seq(0..Old)] /\ deque[Hits] \in Seq(Nat)
      /\ Failures \in Seq(Nat) /\ admitted \in Seq(Nat) /\ failed \in Seq(Nat)
      /\ robbed \in Nat /\ robbed' \in 0..Old
      /\ admitted' \in Seq(0..LimitWindow) /\ failed' \in Seq(0..FailureWindow)
      /\ Descending(admitted') /\ Descending(failed')
  <2>1. /\ Hits \in Deques /\ \A d \in Deques : deque[d] \in Seq(Nat)
        /\ Failures \in Seq(Nat) /\ admitted \in Seq(Nat) /\ failed \in Seq(Nat) /\ robbed \in Nat
    BY <1>1, ListsAreTyped
  <2>2. /\ deque \in [Deques -> Seq(0..Old)]
        /\ robbed \in 0..Old /\ admitted \in Seq(0..LimitWindow) /\ failed \in Seq(0..FailureWindow)
    BY <1>1 DEF Shape
  <2>3. robbed' \in 0..Old
    BY <2>2, Bounds
  <2>4. admitted' \in Seq(0..LimitWindow) /\ failed' \in Seq(0..FailureWindow)
    BY <2>2
  <2>5. Descending(admitted') /\ Descending(failed')
    BY <1>1 DEF TypeInv
  <2> QED BY <2>1, <2>2, <2>3, <2>4, <2>5
<1> PICK hits, fails : hits = deque[Hits] /\ fails = IF tbl = 0 THEN <<>> ELSE deque[tbl]
  OBVIOUS
<1>3. fails = Failures
  BY <1>1, TableContent
<1>4. \/ Len(hits) < Limit
      \/ Len(hits) + Bit(Counts(th)) <= Len(deque[Hits]) + Bit(Counts(thread[t]))
  <2>1. ASSUME Counts(th) => Counts(thread[t])
        PROVE  Bit(Counts(th)) <= Bit(Counts(thread[t]))
    BY <2>1 DEF Bit
  <2>2. Len(deque[Hits]) \in Nat /\ Bit(Counts(th)) \in Nat /\ Bit(Counts(thread[t])) \in Nat
    BY <1>2, LenProperties DEF Bit
  <2> QED BY <2>1, <2>2
<1>5. \/ Len(fails) < MaxFailures
      \/ Keeps(tbl) /\ Len(fails) + Bit(Commits(th, tbl)) <= Len(Failures) + Bit(Commits(thread[t], table))
  <2>1. ASSUME Commits(th, tbl) => Commits(thread[t], table)
        PROVE  Bit(Commits(th, tbl)) <= Bit(Commits(thread[t], table))
    BY <2>1 DEF Bit
  <2>2. Len(Failures) \in Nat /\ Bit(Commits(th, tbl)) \in Nat /\ Bit(Commits(thread[t], table)) \in Nat
    BY <1>2, LenProperties DEF Bit
  <2> QED BY <1>3, <2>1, <2>2
<1>6. ASSUME NEW a \in Int, a < robbed'
      PROVE  a < robbed \/ (Young(admitted', a) = 0 /\ Young(failed', a) = 0)
  BY <1>2, <1>6, YoungOfNegative
<1>7. \A a \in Int : a < robbed' /\ a + MaxLag <= LimitWindow =>
          \/ Young(admitted', a) = 0
          \/ /\ a < robbed
             /\ Young(admitted', a) + Young(deque[Hits], a + MaxLag) <= Young(admitted, a) + Young(hits, a + MaxLag)
  <2>1. ASSUME NEW a \in Int
        PROVE  Young(admitted', a) + Young(deque[Hits], a + MaxLag) <= Young(admitted, a) + Young(hits, a + MaxLag)
    <3>1. a + MaxLag \in Int
      BY Bounds
    <3>2. Young(admitted, a) \in Nat /\ Young(deque[Hits], a + MaxLag) \in Nat
      BY <1>2, <3>1, YoungFacts
    <3>3. Young(admitted', a) = Young(admitted, a)
      OBVIOUS
    <3> QED BY <3>2, <3>3
  <2> QED BY <1>6, <2>1
<1>8. \A a \in Int : a < robbed' /\ a <= FailureWindow =>
          \/ Young(failed', a) = 0
          \/ /\ a < robbed /\ Keeps(tbl)
             /\ Young(failed', a) + Young(Failures, a) + Bit(Pends(thread[t], table, a))
                    <= Young(failed, a) + Young(fails, a) + Bit(Pends(th, tbl, a))
  <2>1. ASSUME NEW a \in Int, a < robbed', a >= 0
        PROVE  Young(failed', a) + Young(Failures, a) + Bit(Pends(thread[t], table, a))
                   <= Young(failed, a) + Young(fails, a) + Bit(Pends(th, tbl, a))
    <3>1. Young(failed, a) \in Nat /\ Young(Failures, a) \in Nat
      BY <1>2, YoungFacts
    <3>2. Young(failed', a) = Young(failed, a) /\ Young(fails, a) = Young(Failures, a)
      BY <1>3
    <3>3. Pends(thread[t], table, a) => Pends(th, tbl, a)
      BY <2>1
    <3>4. Bit(Pends(thread[t], table, a)) <= Bit(Pends(th, tbl, a))
          /\ Bit(Pends(thread[t], table, a)) \in Nat /\ Bit(Pends(th, tbl, a)) \in Nat
      BY <3>3 DEF Bit
    <3> QED BY <3>1, <3>2, <3>4
  <2>2. ASSUME NEW a \in Int, ~(a >= 0) PROVE Young(failed', a) = 0
    BY <1>2, <2>2, YoungOfNegative
  <2> QED BY <1>6, <2>1, <2>2
<1>9. scope' = scope
  OBVIOUS
<1> QED BY <1>2, <1>4, <1>5, <1>7, <1>8, <1>9, StepKeeps

LEMMA IdleFacts ==
    /\ Idle \in ThreadType /\ ThreadFits(Idle) /\ ~Counts(Idle)
    /\ \A tbl : ~Commits(Idle, tbl)
    /\ [Idle EXCEPT !.step = "verify"] \in ThreadType
    /\ [Idle EXCEPT !.step = "enter"] \in ThreadType
    /\ Idle.call = "check" /\ Idle.step = "idle" /\ Idle.lag = 0 /\ Idle.q = Hits
BY Bounds DEF Idle, ThreadType, ThreadFits, Counts, Commits, Calls, Steps, Deques, Hits

\* The comparison after the purge loop.
LEMMA DecideStep ==
    ASSUME IInv, NEW t \in Threads, NEW q \in Deques, NEW tbl \in Deques, Decide(t, q, tbl),
           Keeps(tbl), thread[t].step \in {"scan", "rescan"}, thread[t].call = "check" <=> q = Hits,
           thread[t].call = "check" => tbl = table,
           thread[t].step = "scan" /\ thread[t].call # "check" => q = tbl,
           thread[t].step = "rescan" => q = thread[t].q /\ tbl = table,
           UNCHANGED <<scope, admitted, failed, robbed>>
    PROVE  IInv'
<1> PICK o : o = thread[t]
  OBVIOUS
<1> PICK n : n = Len(deque[q])
  OBVIOUS
<1>1. TypeInv /\ Shape /\ o \in ThreadType /\ ThreadFits(o)
  BY StateFacts DEF IInv, TypeInv
<1>2. o.call \in Calls /\ o.step \in Steps /\ o.lag \in 0..MaxLag /\ o.q \in Deques
  BY <1>1 DEF ThreadType
<1> DEFINE held == [o EXCEPT !.q = q]
           next == CASE o.call = "check" ->
                           IF n >= Limit THEN Idle ELSE [held EXCEPT !.step = "append"]
                     [] o.call = "ensure_allowed" ->
                           IF n >= MaxFailures THEN Idle ELSE [Idle EXCEPT !.step = "verify"]
                     [] o.call = "register_failure" ->
                           [held EXCEPT !.step = "append", !.lag = 0]
<1>3. Become(t, next, tbl, deque)
  BY DEF Decide
<1>4. n \in Nat
  <2>1. deque[q] \in Seq(Nat)
    BY <1>1, StateFacts
  <2> QED BY <2>1, LenProperties
<1>5. UNCHANGED <<scope, admitted, failed>> /\ (robbed' = robbed \/ robbed' = 0)
  OBVIOUS
<1>6. ASSUME next = Idle, o.call # "register_failure" PROVE IInv'
  <2>1. \A a \in Int : ~Pends(o, table, a)
    BY <1>6 DEF Pends
  <2>2. Become(t, Idle, tbl, deque)
    BY <1>3, <1>6
  <2> QED BY <1>5, <2>1, <2>2, IdleFacts, QuietStep
<1>7. CASE o.call = "check"
  <2>1. CASE n >= Limit
    <3>1. next = Idle
      BY <1>7, <2>1
    <3> QED BY <1>6, <1>7, <3>1
  <2>2. CASE ~(n >= Limit)
    <3> DEFINE th == [held EXCEPT !.step = "append"]
    <3>1. next = th
      BY <1>7, <2>2
    <3>2. Become(t, th, tbl, deque)
      BY <1>3, <3>1
    <3>3. th \in ThreadType /\ th.call = "check" /\ th.step = "append" /\ th.q = q
      BY <1>1, <1>7 DEF ThreadType, Steps
    <3> HIDE DEF th
    <3>4. ThreadFits(th) /\ ~Commits(th, tbl)
      BY <3>3, <1>7 DEF ThreadFits, Commits
    <3>5. Len(deque[Hits]) < Limit
      BY <1>4, <1>7, <2>2, Bounds
    <3>6. \A a \in Int : ~Pends(o, table, a)
      BY <1>7 DEF Pends
    <3> QED BY <1>5, <3>2, <3>3, <3>4, <3>5, <3>6, QuietStep
  <2> QED BY <2>1, <2>2
<1>8. CASE o.call = "ensure_allowed"
  <2>1. CASE n >= MaxFailures
    <3>1. next = Idle
      BY <1>8, <2>1
    <3> QED BY <1>6, <1>8, <3>1
  <2>2. CASE ~(n >= MaxFailures)
    <3> DEFINE th == [Idle EXCEPT !.step = "verify"]
    <3>1. next = th
      BY <1>8, <2>2
    <3>2. Become(t, th, tbl, deque)
      BY <1>3, <3>1
    <3>3. th \in ThreadType /\ th.call = "check" /\ th.step = "verify" /\ th.q = Hits /\ th.lag = 0
      BY IdleFacts DEF ThreadType, Idle, Hits
    <3> HIDE DEF th
    <3>4. ThreadFits(th) /\ ~Counts(th)
      BY <3>3 DEF ThreadFits, Counts
    <3>5. Len(Failures) < MaxFailures \/ Commits(o, table)
      <4>1. CASE q = tbl
        <5>1. tbl # 0
          BY <1>8, <4>1 DEF Hits
        <5>2. deque[q] = Failures
          BY <1>1, <4>1, <5>1, TableContent
        <5> QED BY <1>4, <2>2, <5>2, Bounds
      <4>2. CASE q # tbl
        <5>1. o.step = "rescan" /\ o.q # table
          BY <1>8, <4>2
        <5> QED BY <1>8, <5>1 DEF Commits
      <4> QED BY <4>1, <4>2
    <3>6. \A a \in Int : ~Pends(o, table, a)
      BY <1>8 DEF Pends
    <3> QED BY <1>5, <3>2, <3>3, <3>4, <3>5, <3>6, QuietStep
  <2> QED BY <2>1, <2>2
<1>9. CASE o.call = "register_failure"
  <2> DEFINE th == [held EXCEPT !.step = "append", !.lag = 0]
  <2>1. next = th
    BY <1>9
  <2>2. Become(t, th, tbl, deque)
    BY <1>3, <2>1
  <2>3. th \in ThreadType /\ th.call = "register_failure" /\ th.step = "append" /\ th.q = q /\ th.lag = 0
    <3>1. 0 \in 0..MaxLag
      BY Bounds
    <3>2. held \in ThreadType /\ held.call = o.call /\ held.q = q
      BY <1>1 DEF ThreadType
    <3>3. "append" \in Steps
      BY DEF Steps
    <3> HIDE DEF held
    <3> QED BY <1>9, <3>1, <3>2, <3>3 DEF ThreadType
  <2> HIDE DEF th
  <2>4. ThreadFits(th) /\ ~Counts(th)
    BY <2>3, <1>9 DEF ThreadFits, Counts
  <2>5. Commits(o, table)
    BY <1>9 DEF Commits
  <2>6. ASSUME NEW a \in Int, a >= 0, Pends(o, table, a) PROVE Pends(th, tbl, a)
    <3>1. q = tbl
      BY <1>9, <2>6 DEF Pends
    <3> QED BY <2>3, <2>6, <3>1 DEF Pends
  <2>7. \A a \in Int : a >= 0 /\ Pends(thread[t], table, a) => Pends(th, tbl, a)
    BY <2>6
  <2> QED BY <1>5, <2>2, <2>3, <2>4, <2>5, <2>7, QuietStep
<1> QED BY <1>2, <1>7, <1>8, <1>9 DEF Calls

\* The head of deque q is taken away: it is stale, or the purge robs.
LEMMA PopStep ==
    ASSUME IInv, NEW t \in Threads, NEW q \in Deques, deque[q] # <<>>,
           thread[t].call = "check" <=> q = Hits,
           \/ thread[t].step = "pop" /\ q = thread[t].q
           \/ thread[t].step = "scan" /\ (thread[t].call # "check" => q = table),
           Become(t, [thread[t] EXCEPT !.step = "rescan", !.q = q], table, [deque EXCEPT ![q] = Tail(@)]),
           UNCHANGED <<scope, admitted, failed>>,
           robbed' = 0 \/ (robbed' = robbed /\ Stale(t, q))
    PROVE  IInv'
<1> PICK o : o = thread[t]
  OBVIOUS
<1> DEFINE th == [o EXCEPT !.step = "rescan", !.q = q]
           content == [deque EXCEPT ![q] = Tail(@)]
<1>1. TypeInv /\ Shape /\ o \in ThreadType /\ ThreadFits(o)
  BY StateFacts DEF IInv, TypeInv
<1>2. o.call \in Calls /\ o.step \in Steps /\ o.lag \in 0..MaxLag /\ o.q \in Deques
  BY <1>1 DEF ThreadType
<1>3. Become(t, th, table, content)
  OBVIOUS
<1>4. /\ th \in ThreadType /\ th.call = o.call /\ th.step = "rescan" /\ th.q = q /\ th.lag = o.lag
  BY <1>1 DEF ThreadType, Steps
<1>5. ThreadFits(th) /\ ~Counts(th)
  BY <1>4 DEF ThreadFits, Counts
<1>6. /\ deque \in [Deques -> Seq(0..Old)] /\ deque[Hits] \in Seq(Nat)
      /\ Failures \in Seq(Nat) /\ admitted \in Seq(Nat) /\ failed \in Seq(Nat)
      /\ robbed \in Nat /\ robbed' \in 0..Old
      /\ admitted' \in Seq(0..LimitWindow) /\ failed' \in Seq(0..FailureWindow)
      /\ Descending(admitted') /\ Descending(failed')
  <2>1. /\ deque \in [Deques -> Seq(0..Old)] /\ deque[Hits] \in Seq(Nat)
        /\ Failures \in Seq(Nat) /\ admitted \in Seq(Nat) /\ failed \in Seq(Nat)
        /\ robbed \in Nat /\ robbed \in 0..Old /\ 0 \in 0..Old
    <3>1. deque \in [Deques -> Seq(0..Old)] /\ robbed \in 0..Old
      BY <1>1 DEF Shape
    <3>2. /\ deque[Hits] \in Seq(Nat) /\ Failures \in Seq(Nat)
          /\ admitted \in Seq(Nat) /\ failed \in Seq(Nat) /\ robbed \in Nat
      BY <1>1, ListsAreTyped
    <3>3. 0 \in 0..Old
      BY Bounds
    <3> QED BY <3>1, <3>2, <3>3
  <2>2. robbed' \in 0..Old
    BY <2>1
  <2>3. /\ admitted' \in Seq(0..LimitWindow) /\ failed' \in Seq(0..FailureWindow)
        /\ Descending(admitted') /\ Descending(failed')
    BY <1>1 DEF Shape, TypeInv
  <2> QED BY <2>1, <2>2, <2>3
<1>7. /\ deque[q] \in Seq(Nat) /\ Tail(deque[q]) \in Seq(0..Old) /\ Tail(deque[q]) \in Seq(Nat)
      /\ Len(Tail(deque[q])) = Len(deque[q]) - 1 /\ Head(deque[q]) \in Nat /\ Len(deque[q]) \in Nat
  <2>1. deque[q] \in Seq(0..Old) /\ deque[q] \in Seq(Nat)
    BY <1>1, StateFacts
  <2> QED BY <2>1, TailFacts
<1>8. content \in [Deques -> Seq(0..Old)]
  BY <1>6, <1>7
<1>c. \A d \in Deques : content[d] = IF d = q THEN Tail(deque[q]) ELSE deque[d]
  BY <1>6
<1> HIDE DEF content
<1> PICK hits, fails : hits = content[Hits] /\ fails = IF table = 0 THEN <<>> ELSE content[table]
  OBVIOUS
<1>9. /\ hits = IF q = Hits THEN Tail(deque[Hits]) ELSE deque[Hits]
      /\ fails = IF q = table /\ q # Hits THEN Tail(Failures) ELSE Failures
      /\ q = table /\ q # Hits => deque[q] = Failures
  BY <1>c, <1>6, StateFacts, <1>1 DEF Failures, Hits, Shape
<1>10. Len(hits) + Bit(Counts(th)) <= Len(deque[Hits]) + Bit(Counts(thread[t]))
  <2>1. Bit(Counts(th)) = 0 /\ Bit(Counts(thread[t])) \in Nat
    BY <1>5 DEF Bit
  <2>2. Len(hits) <= Len(deque[Hits]) /\ Len(hits) \in Nat /\ Len(deque[Hits]) \in Nat
    BY <1>6, <1>7, <1>9, LenProperties
  <2> QED BY <2>1, <2>2
<1>11. Keeps(table)
  BY DEF Keeps
<1>12. Len(fails) + Bit(Commits(th, table)) <= Len(Failures) + Bit(Commits(thread[t], table))
  <2>1. Commits(th, table) => Commits(o, table)
    BY <1>4 DEF Commits
  <2>2. /\ Bit(Commits(th, table)) <= Bit(Commits(o, table))
        /\ Bit(Commits(th, table)) \in Nat /\ Bit(Commits(o, table)) \in Nat
    BY <2>1 DEF Bit
  <2>3. Len(fails) <= Len(Failures) /\ Len(fails) \in Nat /\ Len(Failures) \in Nat
    <3>1. Len(Failures) \in Nat
      BY <1>6, LenProperties
    <3>2. CASE q = table /\ q # Hits
      <4>1. Len(fails) = Len(Tail(deque[q])) /\ Len(deque[q]) = Len(Failures)
        BY <1>9, <3>2
      <4>2. Len(Tail(deque[q])) = Len(deque[q]) - 1 /\ Len(Tail(deque[q])) \in Nat
        BY <1>7, LenProperties
      <4> QED BY <3>1, <4>1, <4>2
    <3>3. CASE ~(q = table /\ q # Hits)
      BY <1>9, <3>1, <3>3
    <3> QED BY <3>2, <3>3
  <2> QED BY <2>2, <2>3
<1>13. ASSUME NEW a \in Int, a < robbed'
       PROVE  (Young(admitted', a) = 0 /\ Young(failed', a) = 0) \/ (a < robbed /\ Stale(t, q))
  BY <1>6, <1>13, YoungOfNegative
<1>14. ASSUME Stale(t, q), NEW a \in Int, a <= Window(t)
       PROVE  Young(deque[q], a) <= Young(Tail(deque[q]), a)
  <2>1. Head(deque[q]) - o.lag > Window(t) /\ Window(t) \in Nat /\ o.lag \in Nat
    BY <1>2, <1>14, Bounds DEF Stale, Window
  <2>2. a < Head(deque[q])
    BY <1>7, <1>14, <2>1
  <2> QED BY <1>7, <2>2, YoungOfTail
<1>15. \A a \in Int : a < robbed' /\ a + MaxLag <= LimitWindow =>
          \/ Young(admitted', a) = 0
          \/ /\ a < robbed
             /\ Young(admitted', a) + Young(deque[Hits], a + MaxLag) <= Young(admitted, a) + Young(hits, a + MaxLag)
  <2>1. ASSUME NEW a \in Int, a + MaxLag <= LimitWindow, Stale(t, q)
        PROVE  Young(admitted', a) + Young(deque[Hits], a + MaxLag) <= Young(admitted, a) + Young(hits, a + MaxLag)
    <3> PICK b : b = a + MaxLag
      OBVIOUS
    <3>1. b \in Int /\ b <= LimitWindow
      BY <2>1, Bounds
    <3>2. Young(deque[Hits], b) <= Young(hits, b)
      <4>1. CASE q = Hits
        <5>1. Window(t) = LimitWindow
          BY <4>1 DEF Window
        <5> QED BY <1>9, <1>14, <2>1, <3>1, <4>1, <5>1
      <4>2. CASE q # Hits
        <5>1. hits = deque[Hits] /\ Young(deque[Hits], b) \in Nat
          BY <1>6, <1>9, <3>1, <4>2, YoungFacts
        <5> QED BY <5>1
      <4> QED BY <4>1, <4>2
    <3>3. hits \in Seq(Nat)
      BY <1>6, <1>7, <1>9
    <3>4. Young(admitted, a) \in Nat /\ Young(deque[Hits], b) \in Nat /\ Young(hits, b) \in Nat
      BY <1>6, <3>1, <3>3, YoungFacts
    <3>5. Young(admitted', a) = Young(admitted, a)
      OBVIOUS
    <3> QED BY <3>2, <3>4, <3>5
  <2> QED BY <1>13, <2>1
<1>16. \A a \in Int : a < robbed' /\ a <= FailureWindow =>
          \/ Young(failed', a) = 0
          \/ /\ a < robbed /\ Keeps(table)
             /\ Young(failed', a) + Young(Failures, a) + Bit(Pends(thread[t], table, a))
                    <= Young(failed, a) + Young(fails, a) + Bit(Pends(th, table, a))
  <2>1. ASSUME NEW a \in Int, a <= FailureWindow, Stale(t, q)
        PROVE  Young(failed', a) + Young(Failures, a) + Bit(Pends(thread[t], table, a))
                   <= Young(failed, a) + Young(fails, a) + Bit(Pends(th, table, a))
    <3>1. Young(Failures, a) <= Young(fails, a)
      <4>1. CASE q = table /\ q # Hits
        <5>1. Window(t) = FailureWindow
          BY <4>1 DEF Window
        <5> QED BY <1>9, <1>14, <2>1, <4>1, <5>1
      <4>2. CASE ~(q = table /\ q # Hits)
        <5>1. Young(fails, a) = Young(Failures, a)
          BY <1>9, <4>2
        <5>2. Young(Failures, a) \in Nat
          BY <1>6, YoungFacts
        <5> QED BY <5>1, <5>2
      <4> QED BY <4>1, <4>2
    <3>2. fails \in Seq(Nat)
      BY <1>6, <1>7, <1>9
    <3>3. Young(failed, a) \in Nat /\ Young(Failures, a) \in Nat /\ Young(fails, a) \in Nat
      BY <1>6, <3>2, YoungFacts
    <3>4. Pends(o, table, a) => Pends(th, table, a)
      BY <1>4 DEF Pends
    <3>5. /\ Bit(Pends(o, table, a)) <= Bit(Pends(th, table, a))
          /\ Bit(Pends(o, table, a)) \in Nat /\ Bit(Pends(th, table, a)) \in Nat
      BY <3>4 DEF Bit
    <3>6. Young(failed', a) = Young(failed, a)
      OBVIOUS
    <3> QED BY <3>1, <3>3, <3>5, <3>6
  <2> QED BY <1>11, <1>13, <2>1
<1>17. scope' = scope /\ table \in Deques
  BY <1>1 DEF Shape
<1> HIDE DEF th
<1> QED BY <1>3, <1>4, <1>5, <1>6, <1>8, <1>10, <1>11, <1>12, <1>15, <1>16, <1>17, StepKeeps

-----------------------------------------------------------------------------
(***************************************************************************)
(* The actions.                                                            *)
(***************************************************************************)
LEMMA ThreadFacts ==
    ASSUME IInv, NEW t \in Threads
    PROVE  /\ TypeInv /\ Shape
           /\ thread[t] \in ThreadType /\ ThreadFits(thread[t])
           /\ thread[t].call \in Calls /\ thread[t].step \in Steps
           /\ thread[t].lag \in 0..MaxLag /\ thread[t].q \in Deques
           /\ table \in Deques /\ Keeps(table) /\ Hits \in Deques
           /\ deque \in [Deques -> Seq(0..Old)]
           /\ admitted \in Seq(0..LimitWindow) /\ failed \in Seq(0..FailureWindow)
           /\ robbed \in 0..Old /\ Descending(admitted) /\ Descending(failed)
BY StateFacts DEF IInv, TypeInv, Shape, ThreadType, Keeps

LEMMA ScanKeeps ==
    ASSUME IInv, NEW t \in Threads, Scan(t)
    PROVE  IInv'
<1> PICK q : q = Lookup(t)
  OBVIOUS
<1> PICK tbl : tbl = IF thread[t].call = "check" THEN table ELSE q
  OBVIOUS
<1>1. /\ thread[t].step = "scan"
      /\ IF Stale(t, q)
         THEN Become(t, [thread[t] EXCEPT !.step = "rescan", !.q = q], tbl, [deque EXCEPT ![q] = Tail(@)])
         ELSE Decide(t, q, tbl)
      /\ UNCHANGED <<scope, admitted, failed, robbed>>
  BY DEF Scan
<1>2. TypeInv /\ Shape /\ table \in Deques /\ Keeps(table) /\ Hits \in Deques
  BY ThreadFacts
<1>3. /\ q \in Deques /\ tbl \in Deques /\ Keeps(tbl)
      /\ thread[t].call = "check" <=> q = Hits
      /\ thread[t].call = "check" => tbl = table
      /\ thread[t].call # "check" => q = tbl
      /\ thread[t].call # "check" => q = table \/ deque[q] = <<>>
  <2>1. CASE thread[t].call = "check"
    BY <1>2, <2>1 DEF Lookup
  <2>2. CASE thread[t].call # "check" /\ table # 0
    BY <1>2, <2>2 DEF Lookup, Hits
  <2>3. CASE thread[t].call # "check" /\ table = 0
    <3>1. /\ Unused \in Deques /\ Unused # Hits /\ Unused # table
          /\ \A u \in Threads : thread[u].q # Unused
      BY <1>2, <2>3, UnusedIsFree
    <3>2. q = Unused /\ tbl = Unused
      BY <2>3 DEF Lookup
    <3>3. deque[Unused] = <<>>
      BY <1>2, <3>1 DEF TypeInv, Collected
    <3> QED BY <2>3, <3>1, <3>2, <3>3 DEF Keeps
  <2> QED BY <2>1, <2>2, <2>3
<1>4. CASE Stale(t, q)
  <2>1. deque[q] # <<>>
    BY <1>4 DEF Stale
  <2>2. tbl = table /\ (thread[t].call # "check" => q = table)
    BY <1>3, <2>1
  <2>3. Become(t, [thread[t] EXCEPT !.step = "rescan", !.q = q], table, [deque EXCEPT ![q] = Tail(@)])
    BY <1>1, <1>4, <2>2
  <2> QED BY <1>1, <1>3, <1>4, <2>1, <2>2, <2>3, PopStep
<1>5. CASE ~Stale(t, q)
  <2>1. Decide(t, q, tbl)
    BY <1>1, <1>5
  <2> QED BY <1>1, <1>3, <2>1, DecideStep
<1> QED BY <1>4, <1>5

LEMMA RescanKeeps ==
    ASSUME IInv, NEW t \in Threads, Rescan(t)
    PROVE  IInv'
<1> PICK q : q = thread[t].q
  OBVIOUS
<1>1. /\ thread[t].step = "rescan"
      /\ IF Stale(t, q) THEN Goto(t, "pop") ELSE Decide(t, q, table)
      /\ UNCHANGED <<scope, admitted, failed, robbed>>
  BY DEF Rescan
<1>2. /\ TypeInv /\ thread[t] \in ThreadType /\ ThreadFits(thread[t])
      /\ table \in Deques /\ Keeps(table) /\ q \in Deques
  BY ThreadFacts
<1>3. thread[t].call = "check" <=> q = Hits
  BY <1>1, <1>2 DEF ThreadFits
<1>4. CASE Stale(t, q)
  <2> PICK o : o = thread[t]
    OBVIOUS
  <2> DEFINE th == [o EXCEPT !.step = "pop"]
  <2>1. Become(t, th, table, deque)
    BY <1>1, <1>4 DEF Goto
  <2>2. th \in ThreadType /\ th.call = o.call /\ th.step = "pop" /\ th.q = o.q /\ th.lag = o.lag
    BY <1>2 DEF ThreadType, Steps
  <2> HIDE DEF th
  <2>3. ThreadFits(th) /\ ~Counts(th)
    BY <1>1, <1>2, <2>2 DEF ThreadFits, Counts
  <2>4. Commits(th, table) => Commits(o, table)
    BY <1>1, <2>2 DEF Commits
  <2>5. \A a \in Int : a >= 0 /\ Pends(thread[t], table, a) => Pends(th, table, a)
    BY <1>1, <2>2 DEF Pends
  <2> QED BY <1>1, <1>2, <2>1, <2>2, <2>3, <2>4, <2>5, QuietStep
<1>5. CASE ~Stale(t, q)
  <2>1. Decide(t, q, table)
    BY <1>1, <1>5
  <2> QED BY <1>1, <1>2, <1>3, <2>1, DecideStep
<1> QED BY <1>4, <1>5

\* popleft of an empty deque: the thread ends, and a failed login is not registered.
LEMMA LeaveKeeps ==
    ASSUME IInv, NEW t \in Threads, Leave(t), UNCHANGED <<scope, admitted, failed>>,
           robbed' = 0 \/ (robbed' = robbed /\ thread[t].call # "register_failure")
    PROVE  IInv'
<1>1. Become(t, Idle, table, deque)
  BY DEF Leave
<1>2. table \in Deques /\ Keeps(table)
  BY ThreadFacts
<1>3. robbed' = 0 \/ \A a \in Int : a >= 0 /\ Pends(thread[t], table, a) => Pends(Idle, table, a)
  BY DEF Pends
<1> QED BY <1>1, <1>2, <1>3, IdleFacts, QuietStep

LEMMA PopKeeps ==
    ASSUME IInv, NEW t \in Threads, Pop(t)
    PROVE  IInv'
<1> PICK q : q = thread[t].q
  OBVIOUS
<1> DEFINE robs == IF deque[q] = <<>> THEN thread[t].call = "register_failure" ELSE ~Stale(t, q)
<1>1. /\ thread[t].step = "pop"
      /\ IF deque[q] = <<>> THEN Leave(t)
         ELSE Become(t, [thread[t] EXCEPT !.step = "rescan"], table, [deque EXCEPT ![q] = Tail(@)])
      /\ robbed' = IF robs THEN 0 ELSE robbed
      /\ UNCHANGED <<scope, admitted, failed>>
  BY DEF Pop
<1>2. /\ thread[t] \in ThreadType /\ ThreadFits(thread[t]) /\ q \in Deques
  BY ThreadFacts
<1>3. thread[t].call = "check" <=> q = Hits
  BY <1>1, <1>2 DEF ThreadFits
<1>4. CASE deque[q] = <<>>
  <2>1. Leave(t) /\ (robbed' = 0 \/ (robbed' = robbed /\ thread[t].call # "register_failure"))
    BY <1>1, <1>4
  <2> QED BY <1>1, <2>1, LeaveKeeps
<1>5. CASE deque[q] # <<>>
  <2>1. [thread[t] EXCEPT !.step = "rescan"] = [thread[t] EXCEPT !.step = "rescan", !.q = q]
    BY <1>2 DEF ThreadType
  <2>2. Become(t, [thread[t] EXCEPT !.step = "rescan", !.q = q], table, [deque EXCEPT ![q] = Tail(@)])
    BY <1>1, <1>5, <2>1
  <2>3. robbed' = 0 \/ (robbed' = robbed /\ Stale(t, q))
    BY <1>1, <1>5
  <2> QED BY <1>1, <1>2, <1>3, <1>5, <2>2, <2>3, PopStep
<1> QED BY <1>4, <1>5

LEMMA CallKeeps ==
    ASSUME IInv, NEW t \in Threads, NEW call \in {"check", "ensure_allowed"}, Call(t, call),
           UNCHANGED <<scope, admitted, failed, robbed>>, thread[t].call = "check"
    PROVE  IInv'
<1> DEFINE th == [Idle EXCEPT !.call = call, !.step = "scan"]
<1>1. Become(t, th, table, deque)
  BY DEF Call
<1>2. th \in ThreadType /\ th.call = call /\ th.step = "scan" /\ th.q = Hits /\ th.lag = 0
  BY IdleFacts DEF Idle, ThreadType, Calls, Steps, Hits
<1> HIDE DEF th
<1>3. ThreadFits(th) /\ ~Counts(th) /\ ~Commits(th, table)
  BY <1>2 DEF ThreadFits, Counts, Commits
<1>4. \A a \in Int : ~Pends(thread[t], table, a)
  BY DEF Pends
<1>5. table \in Deques /\ Keeps(table)
  BY ThreadFacts
<1> QED BY <1>1, <1>2, <1>3, <1>4, <1>5, QuietStep

LEMMA ArriveKeeps ==
    ASSUME IInv, NEW t \in Threads, Arrive(t)
    PROVE  IInv'
<1>1. thread[t].call = "check"
  BY ThreadFacts DEF Arrive, ThreadFits
<1> QED BY <1>1, CallKeeps DEF Arrive

LEMMA EnterKeeps ==
    ASSUME IInv, NEW t \in Threads, Enter(t)
    PROVE  IInv'
<1>1. thread[t].call = "check"
  BY ThreadFacts DEF Enter, ThreadFits
<1> QED BY <1>1, CallKeeps DEF Enter

\* The deque that t holds gets the reading of its clock.
LEMMA AppendedFacts ==
    ASSUME IInv, NEW t \in Threads, NEW q, q = thread[t].q
    PROVE  /\ Appended(t) \in [Deques -> Seq(0..Old)]
           /\ Appended(t)[q] = Append(deque[q], thread[t].lag)
           /\ \A d \in Deques : d # q => Appended(t)[d] = deque[d]
           /\ thread[t].lag \in Nat /\ thread[t].lag <= MaxLag
<1>1. /\ q \in Deques /\ thread[t].lag \in 0..MaxLag /\ deque \in [Deques -> Seq(0..Old)]
  BY ThreadFacts
<1>2. thread[t].lag \in 0..Old /\ thread[t].lag \in Nat /\ thread[t].lag <= MaxLag
  BY <1>1, Bounds
<1>3. Append(deque[q], thread[t].lag) \in Seq(0..Old)
  <2>1. deque[q] \in Seq(0..Old)
    BY <1>1
  <2> QED BY <1>2, <2>1, AppendProperties
<1>4. Appended(t) = [deque EXCEPT ![q] = Append(deque[q], thread[t].lag)]
  BY DEF Appended
<1> QED BY <1>1, <1>2, <1>3, <1>4

\* A new age, 0, at the end of the history.
LEMMA HistoryGrows ==
    ASSUME NEW w \in Nat, NEW s \in Seq(0..w), s \in Seq(Nat), Descending(s)
    PROVE  /\ Append(s, 0) \in Seq(0..w) /\ Descending(Append(s, 0))
           /\ \A a \in Int : Young(Append(s, 0), a) = IF a >= 0 THEN Young(s, a) + 1 ELSE 0
<1>1. 0 \in 0..w /\ 0 \in Nat
  OBVIOUS
<1>2. Append(s, 0) \in Seq(0..w)
  BY <1>1, AppendProperties
<1>3. /\ Append(s, 0) \in Seq(Nat) /\ Len(Append(s, 0)) = Len(s) + 1
      /\ \A i \in 1..Len(s) : Append(s, 0)[i] = s[i]
      /\ Append(s, 0)[Len(s) + 1] = 0
  BY <1>1, AppendProperties
<1>4. Len(s) \in Nat /\ DOMAIN s = 1..Len(s) /\ \A i \in 1..Len(s) : s[i] \in Nat
  <2>1. 0 \in Int
    OBVIOUS
  <2> QED BY <2>1, YoungFacts
<1>5. DOMAIN Append(s, 0) = 1..Len(s) + 1
  BY <1>3, LenProperties
<1>6. Descending(Append(s, 0))
  <2> PICK u, n : u = Append(s, 0) /\ n = Len(s)
    OBVIOUS
  <2>1. ASSUME NEW i \in 1..n + 1, NEW j \in 1..n + 1, i < j PROVE u[i] >= u[j]
    <3>1. i \in 1..n /\ u[i] = s[i] /\ s[i] \in Nat
      BY <1>3, <1>4, <2>1
    <3>2. CASE j \in 1..n
      <4>1. u[j] = s[j] /\ s[i] >= s[j]
        BY <1>3, <1>4, <2>1, <3>1, <3>2 DEF Descending
      <4> QED BY <3>1, <4>1
    <3>3. CASE j \notin 1..n
      <4>1. u[j] = 0
        BY <1>3, <1>4, <3>3
      <4> QED BY <3>1, <4>1
    <3> QED BY <3>2, <3>3
  <2> QED BY <2>1, <1>5 DEF Descending
<1>7. ASSUME NEW a \in Int, a >= 0 PROVE Young(Append(s, 0), a) = Young(s, a) + 1
  BY <1>1, <1>7, YoungOfAppend
<1>8. ASSUME NEW a \in Int, ~(a >= 0) PROVE Young(Append(s, 0), a) = 0
  <2>1. a < 0
    BY <1>8
  <2> QED BY <1>3, <2>1, YoungOfNegative
<1> QED BY <1>2, <1>6, <1>7, <1>8

LEMMA AdmitKeeps ==
    ASSUME IInv, NEW t \in Threads, Admit(t)
    PROVE  IInv'
<1> PICK o : o = thread[t]
  OBVIOUS
<1> PICK th : th = IF scope = "predict" THEN Idle ELSE [Idle EXCEPT !.step = "enter"]
  OBVIOUS
<1> PICK content : content = Appended(t)
  OBVIOUS
<1>1. /\ o.call = "check" /\ o.step = "append"
      /\ Become(t, th, table, content)
      /\ admitted' = Append(admitted, 0)
      /\ UNCHANGED <<scope, failed, robbed>>
  BY DEF Admit
<1>2. /\ TypeInv /\ Shape /\ ThreadFits(o) /\ table \in Deques /\ Keeps(table) /\ Hits \in Deques
      /\ admitted \in Seq(0..LimitWindow) /\ failed \in Seq(0..FailureWindow) /\ robbed \in 0..Old
      /\ Descending(admitted) /\ Descending(failed)
  BY ThreadFacts
<1>3. deque[Hits] \in Seq(Nat) /\ Failures \in Seq(Nat) /\ admitted \in Seq(Nat) /\ failed \in Seq(Nat)
  BY <1>2, StateFacts
<1>4. th \in ThreadType /\ th.call = "check" /\ th.step \in {"idle", "enter"} /\ th.lag = 0 /\ th.q = Hits
  BY IdleFacts DEF Idle, Hits
<1>5. ThreadFits(th) /\ ~Counts(th) /\ ~Commits(th, table)
  BY <1>4 DEF ThreadFits, Counts, Commits
<1>6. Counts(o) /\ o.q = Hits
  BY <1>1, <1>2 DEF Counts, ThreadFits
<1>7. /\ content \in [Deques -> Seq(0..Old)]
      /\ content[Hits] = Append(deque[Hits], o.lag)
      /\ \A d \in Deques : d # Hits => content[d] = deque[d]
      /\ o.lag \in Nat /\ o.lag <= MaxLag
  BY <1>6, AppendedFacts
<1> PICK hits, fails : hits = content[Hits] /\ fails = IF table = 0 THEN <<>> ELSE content[table]
  OBVIOUS
<1>8. fails = Failures
  BY <1>2, <1>7 DEF Failures, Hits
<1>9. hits = Append(deque[Hits], o.lag)
  BY <1>7
<1>10. Len(hits) + Bit(Counts(th)) <= Len(deque[Hits]) + Bit(Counts(thread[t]))
  <2>1. Bit(Counts(th)) = 0 /\ Bit(Counts(thread[t])) = 1
    BY <1>5, <1>6 DEF Bit
  <2>2. Len(hits) = Len(deque[Hits]) + 1 /\ Len(deque[Hits]) \in Nat
    BY <1>3, <1>7, <1>9, AppendProperties, LenProperties
  <2> QED BY <2>1, <2>2
<1>11. Keeps(table) /\ Len(fails) + Bit(Commits(th, table)) <= Len(Failures) + Bit(Commits(thread[t], table))
  <2>1. Bit(Commits(th, table)) = 0 /\ Bit(Commits(thread[t], table)) \in Nat
    BY <1>5 DEF Bit
  <2>2. Len(fails) = Len(Failures) /\ Len(Failures) \in Nat
    BY <1>3, <1>8, LenProperties
  <2> QED BY <1>2, <2>1, <2>2
<1>12. /\ admitted' \in Seq(0..LimitWindow) /\ Descending(admitted')
       /\ \A a \in Int : Young(admitted', a) = IF a >= 0 THEN Young(admitted, a) + 1 ELSE 0
  BY <1>1, <1>2, <1>3, Bounds, HistoryGrows
<1>13. \A a \in Int : a < robbed' /\ a + MaxLag <= LimitWindow =>
          \/ Young(admitted', a) = 0
          \/ /\ a < robbed
             /\ Young(admitted', a) + Young(deque[Hits], a + MaxLag) <= Young(admitted, a) + Young(hits, a + MaxLag)
  <2>1. ASSUME NEW a \in Int, a >= 0
        PROVE  Young(admitted', a) + Young(deque[Hits], a + MaxLag) <= Young(admitted, a) + Young(hits, a + MaxLag)
    <3>0. PICK b : b = a + MaxLag
      OBVIOUS
    <3>1. b \in Int /\ o.lag <= b
      <4>1. o.lag \in Nat /\ o.lag <= MaxLag /\ MaxLag \in Nat
        BY <1>7, Bounds
      <4>2. a \in Int /\ a >= 0 /\ b = a + MaxLag
        BY <2>1, <3>0
      <4> QED BY ONLY <4>1, <4>2
    <3>2. Young(hits, b) = Young(deque[Hits], b) + 1
      BY <1>3, <1>7, <1>9, <3>1, YoungOfAppend
    <3>3. Young(admitted, a) \in Nat /\ Young(deque[Hits], b) \in Nat
      BY <1>3, <3>1, YoungFacts
    <3>4. Young(admitted', a) = Young(admitted, a) + 1
      BY <1>12, <2>1
    <3> QED BY <3>0, <3>2, <3>3, <3>4
  <2> QED BY <1>1, <1>12, <2>1
<1>14. \A a \in Int : a < robbed' /\ a <= FailureWindow =>
          \/ Young(failed', a) = 0
          \/ /\ a < robbed /\ Keeps(table)
             /\ Young(failed', a) + Young(Failures, a) + Bit(Pends(thread[t], table, a))
                    <= Young(failed, a) + Young(fails, a) + Bit(Pends(th, table, a))
  <2>1. ASSUME NEW a \in Int
        PROVE  Young(failed', a) + Young(Failures, a) + Bit(Pends(thread[t], table, a))
                   <= Young(failed, a) + Young(fails, a) + Bit(Pends(th, table, a))
    <3>1. Bit(Pends(thread[t], table, a)) = 0 /\ Bit(Pends(th, table, a)) = 0
      BY <1>1, <1>4 DEF Bit, Pends
    <3>2. Young(failed', a) = Young(failed, a) /\ Young(fails, a) = Young(Failures, a)
      BY <1>1, <1>8
    <3>3. Young(failed, a) \in Nat /\ Young(Failures, a) \in Nat
      BY <1>3, YoungFacts
    <3> QED BY <3>1, <3>2, <3>3
  <2> QED BY <1>1, <1>2, <2>1
<1>15. scope' = scope /\ failed' \in Seq(0..FailureWindow) /\ robbed' \in 0..Old /\ Descending(failed')
  BY <1>1, <1>2
<1>16. /\ th \in ThreadType /\ ThreadFits(th) /\ table \in Deques /\ Become(t, th, table, content)
       /\ content \in [Deques -> Seq(0..Old)]
       /\ admitted' \in Seq(0..LimitWindow) /\ Descending(admitted')
  BY <1>1, <1>2, <1>4, <1>5, <1>7, <1>12
<1> QED BY <1>10, <1>11, <1>13, <1>14, <1>15, <1>16, StepKeeps

\* A step that leaves the limiter alone asks nothing of its history.
LEMMA HitsUntouched ==
    ASSUME IInv, admitted' = admitted, robbed' = robbed, NEW hits, hits = deque[Hits]
    PROVE  \A a \in Int : a < robbed' /\ a + MaxLag <= LimitWindow =>
             \/ Young(admitted', a) = 0
             \/ /\ a < robbed
                /\ Young(admitted', a) + Young(deque[Hits], a + MaxLag) <= Young(admitted, a) + Young(hits, a + MaxLag)
<1>1. Shape
  BY DEF IInv, TypeInv
<1>2. deque[Hits] \in Seq(Nat) /\ admitted \in Seq(Nat)
  BY <1>1, StateFacts
<1>3. ASSUME NEW a \in Int
      PROVE  Young(admitted', a) + Young(deque[Hits], a + MaxLag) <= Young(admitted, a) + Young(hits, a + MaxLag)
  <2>1. a + MaxLag \in Int
    BY Bounds
  <2>2. Young(admitted, a) \in Nat /\ Young(deque[Hits], a + MaxLag) \in Nat
    BY <1>2, <2>1, YoungFacts
  <2>3. Young(admitted', a) = Young(admitted, a) /\ Young(hits, a + MaxLag) = Young(deque[Hits], a + MaxLag)
    OBVIOUS
  <2> QED BY <2>2, <2>3
<1> QED BY <1>3

LEMMA FailKeeps ==
    ASSUME IInv, NEW t \in Threads, Fail(t)
    PROVE  IInv'
<1> PICK o : o = thread[t]
  OBVIOUS
<1> PICK th : th = [Idle EXCEPT !.call = "register_failure", !.step = "scan"]
  OBVIOUS
<1>1. /\ o.step = "verify"
      /\ Become(t, th, table, deque)
      /\ failed' = Append(failed, 0)
      /\ UNCHANGED <<scope, admitted, robbed>>
  BY DEF Fail, Call
<1>2. /\ TypeInv /\ Shape /\ ThreadFits(o) /\ table \in Deques /\ Keeps(table) /\ Hits \in Deques
      /\ admitted \in Seq(0..LimitWindow) /\ failed \in Seq(0..FailureWindow) /\ robbed \in 0..Old
      /\ Descending(admitted) /\ Descending(failed) /\ deque \in [Deques -> Seq(0..Old)]
  BY ThreadFacts
<1>3. deque[Hits] \in Seq(Nat) /\ Failures \in Seq(Nat) /\ admitted \in Seq(Nat) /\ failed \in Seq(Nat)
  BY <1>2, StateFacts
<1>4. th \in ThreadType /\ th.call = "register_failure" /\ th.step = "scan" /\ th.lag = 0 /\ th.q = Hits
  BY IdleFacts DEF Idle, Hits, ThreadType, Calls, Steps
<1>5. ThreadFits(th) /\ ~Counts(th) /\ Commits(thread[t], table)
  BY <1>1, <1>4 DEF ThreadFits, Counts, Commits
<1> PICK hits, fails : hits = deque[Hits] /\ fails = IF table = 0 THEN <<>> ELSE deque[table]
  OBVIOUS
<1>6. fails = Failures
  BY DEF Failures
<1>7. Len(hits) + Bit(Counts(th)) <= Len(deque[Hits]) + Bit(Counts(thread[t]))
  <2>1. Bit(Counts(th)) = 0 /\ Bit(Counts(thread[t])) \in Nat
    BY <1>5 DEF Bit
  <2>2. Len(hits) \in Nat
    BY <1>3, LenProperties
  <2> QED BY <2>1, <2>2
<1>8. Keeps(table) /\ Len(fails) + Bit(Commits(th, table)) <= Len(Failures) + Bit(Commits(thread[t], table))
  <2>1. Bit(Commits(th, table)) \in 0..1 /\ Bit(Commits(thread[t], table)) = 1
    BY <1>5 DEF Bit
  <2>2. Len(fails) = Len(Failures) /\ Len(Failures) \in Nat
    BY <1>3, <1>6, LenProperties
  <2> QED BY <1>2, <2>1, <2>2
<1>9. /\ failed' \in Seq(0..FailureWindow) /\ Descending(failed')
      /\ \A a \in Int : Young(failed', a) = IF a >= 0 THEN Young(failed, a) + 1 ELSE 0
  BY <1>1, <1>2, <1>3, Bounds, HistoryGrows
<1>10. \A a \in Int : a < robbed' /\ a + MaxLag <= LimitWindow =>
          \/ Young(admitted', a) = 0
          \/ /\ a < robbed
             /\ Young(admitted', a) + Young(deque[Hits], a + MaxLag) <= Young(admitted, a) + Young(hits, a + MaxLag)
  BY <1>1, HitsUntouched
<1>11. \A a \in Int : a < robbed' /\ a <= FailureWindow =>
          \/ Young(failed', a) = 0
          \/ /\ a < robbed /\ Keeps(table)
             /\ Young(failed', a) + Young(Failures, a) + Bit(Pends(thread[t], table, a))
                    <= Young(failed, a) + Young(fails, a) + Bit(Pends(th, table, a))
  <2>1. ASSUME NEW a \in Int, a >= 0
        PROVE  Young(failed', a) + Young(Failures, a) + Bit(Pends(thread[t], table, a))
                   <= Young(failed, a) + Young(fails, a) + Bit(Pends(th, table, a))
    <3>1. Bit(Pends(thread[t], table, a)) = 0
      <4>1. o.call = "check"
        BY <1>1, <1>2 DEF ThreadFits
      <4> QED BY <4>1 DEF Bit, Pends
    <3>2. Bit(Pends(th, table, a)) = 1
      BY <1>4, <2>1 DEF Bit, Pends
    <3>3. Young(failed', a) = Young(failed, a) + 1 /\ Young(fails, a) = Young(Failures, a)
      BY <1>6, <1>9, <2>1
    <3>4. Young(failed, a) \in Nat /\ Young(Failures, a) \in Nat
      BY <1>3, YoungFacts
    <3> QED BY <3>1, <3>2, <3>3, <3>4
  <2> QED BY <1>1, <1>2, <1>9, <2>1
<1>12. scope' = scope /\ admitted' \in Seq(0..LimitWindow) /\ robbed' \in 0..Old /\ Descending(admitted')
  BY <1>1, <1>2
<1>13. /\ th \in ThreadType /\ ThreadFits(th) /\ table \in Deques /\ Become(t, th, table, deque)
       /\ deque \in [Deques -> Seq(0..Old)]
       /\ failed' \in Seq(0..FailureWindow) /\ Descending(failed')
  BY <1>1, <1>2, <1>4, <1>5, <1>9
<1> QED BY <1>7, <1>8, <1>10, <1>11, <1>12, <1>13, StepKeeps

LEMMA RegisterKeeps ==
    ASSUME IInv, NEW t \in Threads, Register(t)
    PROVE  IInv'
<1> PICK o, q : o = thread[t] /\ q = thread[t].q
  OBVIOUS
<1> PICK content : content = Appended(t)
  OBVIOUS
<1>1. /\ o.call = "register_failure" /\ o.step = "append"
      /\ Become(t, Idle, table, content)
      /\ UNCHANGED <<scope, admitted, failed, robbed>>
  BY DEF Register
<1>2. /\ TypeInv /\ Shape /\ ThreadFits(o) /\ table \in Deques /\ Keeps(table) /\ Hits \in Deques
      /\ admitted \in Seq(0..LimitWindow) /\ failed \in Seq(0..FailureWindow) /\ robbed \in 0..Old
      /\ Descending(admitted) /\ Descending(failed) /\ q \in Deques
  BY ThreadFacts
<1>3. deque[Hits] \in Seq(Nat) /\ Failures \in Seq(Nat) /\ admitted \in Seq(Nat) /\ failed \in Seq(Nat)
  BY <1>2, StateFacts
<1>4. q # Hits /\ Commits(thread[t], table) /\ ~Commits(Idle, table)
  BY <1>1, <1>2, IdleFacts DEF ThreadFits, Commits
<1>5. /\ content \in [Deques -> Seq(0..Old)]
      /\ content[q] = Append(deque[q], o.lag)
      /\ \A d \in Deques : d # q => content[d] = deque[d]
      /\ o.lag \in Nat
  BY AppendedFacts
<1> PICK hits, fails : hits = content[Hits] /\ fails = IF table = 0 THEN <<>> ELSE content[table]
  OBVIOUS
<1>6. hits = deque[Hits]
  BY <1>2, <1>4, <1>5
<1>7. fails = IF q = table THEN Append(Failures, o.lag) ELSE Failures
  BY <1>2, <1>4, <1>5 DEF Failures, Hits
<1>8. Len(hits) + Bit(Counts(Idle)) <= Len(deque[Hits]) + Bit(Counts(thread[t]))
  <2>1. Bit(Counts(Idle)) = 0 /\ Bit(Counts(thread[t])) \in Nat
    BY IdleFacts DEF Bit
  <2>2. Len(hits) = Len(deque[Hits]) /\ Len(deque[Hits]) \in Nat
    BY <1>3, <1>6, LenProperties
  <2> QED BY <2>1, <2>2
<1>9. /\ Append(Failures, o.lag) \in Seq(Nat) /\ Len(Append(Failures, o.lag)) = Len(Failures) + 1
      /\ \A a \in Int : Young(Append(Failures, o.lag), a) = IF o.lag <= a THEN Young(Failures, a) + 1 ELSE Young(Failures, a)
  <2>1. 0 \in Int
    OBVIOUS
  <2> QED BY <1>3, <1>5, <2>1, YoungOfAppend
<1>10. Keeps(table) /\ Len(fails) + Bit(Commits(Idle, table)) <= Len(Failures) + Bit(Commits(thread[t], table))
  <2>1. Bit(Commits(Idle, table)) = 0 /\ Bit(Commits(thread[t], table)) = 1
    BY <1>4 DEF Bit
  <2>2. Len(fails) <= Len(Failures) + 1 /\ Len(Failures) \in Nat /\ Len(fails) \in Nat
    BY <1>3, <1>7, <1>9, LenProperties
  <2> QED BY <1>2, <2>1, <2>2
<1>11. \A a \in Int : a < robbed' /\ a + MaxLag <= LimitWindow =>
          \/ Young(admitted', a) = 0
          \/ /\ a < robbed
             /\ Young(admitted', a) + Young(deque[Hits], a + MaxLag) <= Young(admitted, a) + Young(hits, a + MaxLag)
  BY <1>1, <1>6, HitsUntouched
<1>12. \A a \in Int : a < robbed' /\ a <= FailureWindow =>
          \/ Young(failed', a) = 0
          \/ /\ a < robbed /\ Keeps(table)
             /\ Young(failed', a) + Young(Failures, a) + Bit(Pends(thread[t], table, a))
                    <= Young(failed, a) + Young(fails, a) + Bit(Pends(Idle, table, a))
  <2>1. ASSUME NEW a \in Int
        PROVE  Young(failed', a) + Young(Failures, a) + Bit(Pends(thread[t], table, a))
                   <= Young(failed, a) + Young(fails, a) + Bit(Pends(Idle, table, a))
    <3>1. Bit(Pends(Idle, table, a)) = 0
      BY IdleFacts DEF Bit, Pends
    <3>2. Bit(Pends(thread[t], table, a)) = IF q = table /\ o.lag <= a THEN 1 ELSE 0
      BY <1>1 DEF Bit, Pends
    <3>3. Young(failed', a) = Young(failed, a)
      BY <1>1
    <3>4. Young(fails, a) = IF q = table /\ o.lag <= a THEN Young(Failures, a) + 1 ELSE Young(Failures, a)
      BY <1>7, <1>9
    <3>5. Young(failed, a) \in Nat /\ Young(Failures, a) \in Nat
      BY <1>3, YoungFacts
    <3> QED BY <3>1, <3>2, <3>3, <3>4, <3>5
  <2> QED BY <1>1, <1>2, <2>1
<1>13. /\ scope' = scope /\ robbed' \in 0..Old
       /\ admitted' \in Seq(0..LimitWindow) /\ failed' \in Seq(0..FailureWindow)
       /\ Descending(admitted') /\ Descending(failed')
  BY <1>1, <1>2
<1>14. Idle \in ThreadType /\ ThreadFits(Idle) /\ table \in Deques
  BY <1>2, IdleFacts
<1> QED BY <1>1, <1>5, <1>8, <1>10, <1>11, <1>12, <1>13, <1>14, StepKeeps

LEMMA SucceedKeeps ==
    ASSUME IInv, NEW t \in Threads, Succeed(t)
    PROVE  IInv'
<1> PICK tbl : tbl = 0
  OBVIOUS
<1>1. /\ Become(t, Idle, tbl, deque) /\ failed' = <<>> /\ UNCHANGED <<scope, admitted, robbed>>
  BY DEF Succeed
<1>2. /\ Shape /\ tbl \in Deques /\ deque \in [Deques -> Seq(0..Old)]
      /\ admitted \in Seq(0..LimitWindow) /\ robbed \in 0..Old /\ Descending(admitted)
  BY ThreadFacts DEF Hits
<1> PICK hits, fails : hits = deque[Hits] /\ fails = IF tbl = 0 THEN <<>> ELSE deque[tbl]
  OBVIOUS
<1>3. fails = <<>> /\ Len(fails) < MaxFailures
  BY NoAges, Bounds
<1>4. Len(hits) + Bit(Counts(Idle)) <= Len(deque[Hits]) + Bit(Counts(thread[t]))
  <2>1. Bit(Counts(Idle)) = 0 /\ Bit(Counts(thread[t])) \in Nat
    BY IdleFacts DEF Bit
  <2>2. Len(hits) \in Nat
    <3>1. deque[Hits] \in Seq(Nat)
      BY <1>2, StateFacts
    <3> QED BY <3>1, LenProperties
  <2> QED BY <2>1, <2>2
<1>5. failed' \in Seq(0..FailureWindow) /\ Descending(failed')
  <2>1. <<>> \in Seq(0..FailureWindow) /\ DOMAIN <<>> = {}
    BY EmptySeq
  <2> QED BY <1>1, <2>1 DEF Descending
<1>6. \A a \in Int : Young(failed', a) = 0
  BY <1>1, NoAges
<1>7. \A a \in Int : a < robbed' /\ a + MaxLag <= LimitWindow =>
          \/ Young(admitted', a) = 0
          \/ /\ a < robbed
             /\ Young(admitted', a) + Young(deque[Hits], a + MaxLag) <= Young(admitted, a) + Young(hits, a + MaxLag)
  BY <1>1, HitsUntouched
<1>8. scope' = scope /\ robbed' \in 0..Old /\ admitted' \in Seq(0..LimitWindow) /\ Descending(admitted')
  BY <1>1, <1>2
<1>9. /\ Idle \in ThreadType /\ ThreadFits(Idle) /\ tbl \in Deques /\ deque \in [Deques -> Seq(0..Old)]
      /\ Become(t, Idle, tbl, deque)
  BY <1>1, <1>2, IdleFacts
<1> QED BY <1>3, <1>4, <1>5, <1>6, <1>7, <1>8, <1>9, StepKeeps

LEMMA TickKeeps ==
    ASSUME IInv, Tick
    PROVE  IInv'
<1>1. /\ \A t \in Threads : HoldsClock(t) => thread[t].lag < MaxLag
      /\ deque' = [d \in Deques |-> Aged(deque[d])]
      /\ thread' = [t \in Threads |-> IF HoldsClock(t) THEN [thread[t] EXCEPT !.lag = @ + 1] ELSE thread[t]]
      /\ admitted' = Recent(Aged(admitted), LimitWindow)
      /\ failed' = Recent(Aged(failed), FailureWindow)
      /\ robbed' = Min({robbed + 1, Old})
      /\ UNCHANGED <<scope, table>>
  BY DEF Tick
<1>2. /\ TypeInv /\ Shape /\ CountInv /\ CoverInv /\ Collected
      /\ admitted \in Seq(0..LimitWindow) /\ failed \in Seq(0..FailureWindow)
      /\ Descending(admitted) /\ Descending(failed)
      /\ robbed \in Nat /\ robbed <= Old /\ Hits \in Deques /\ table \in Deques
      /\ \A t \in Threads : thread[t] \in ThreadType /\ ThreadFits(thread[t])
  BY StateFacts DEF IInv, TypeInv, Shape
<1>3. \A d \in Deques : deque[d] \in Seq(0..Old) /\ deque'[d] = Aged(deque[d])
  BY <1>1, <1>2, StateFacts
<1>4. \A d \in Deques : deque'[d] \in Seq(0..Old) /\ Len(deque'[d]) = Len(deque[d])
  <2>1. 0 \in Int /\ 0 < Old
    BY Bounds
  <2> QED BY <1>3, <2>1, YoungOfAged
<1>5. robbed' = IF robbed + 1 <= Old THEN robbed + 1 ELSE Old
  <2> PICK r : r = robbed + 1
    OBVIOUS
  <2>1. r \in Int /\ Old \in Int
    BY <1>2, Bounds
  <2>2. Min({r, Old}) = IF r <= Old THEN r ELSE Old
    BY <2>1, LeastOfTwo
  <2> QED BY <1>1, <2>2
<1>6. /\ admitted' \in Seq(0..LimitWindow) /\ Descending(admitted')
      /\ \A a \in Int : a < Old => Young(admitted', a) <= Young(admitted, a - 1)
  <2>1. LimitWindow \in Nat /\ LimitWindow < Old
    BY Bounds
  <2> QED BY <1>1, <1>2, <2>1, TimePasses
<1>7. /\ failed' \in Seq(0..FailureWindow) /\ Descending(failed')
      /\ \A a \in Int : a < Old => Young(failed', a) <= Young(failed, a - 1)
  <2>1. FailureWindow \in Nat /\ FailureWindow < Old
    BY Bounds
  <2> QED BY <1>1, <1>2, <2>1, TimePasses
<1>8. ASSUME NEW t \in Threads
      PROVE  /\ thread'[t] \in ThreadType /\ ThreadFits(thread'[t])
             /\ thread'[t].call = thread[t].call /\ thread'[t].step = thread[t].step
             /\ thread'[t].q = thread[t].q
             /\ thread[t].call = "register_failure" => thread'[t].lag = thread[t].lag + 1
             /\ thread[t].lag \in Nat
  <2> PICK o, th : o = thread[t] /\ th = thread'[t]
    OBVIOUS
  <2>1. o \in ThreadType /\ ThreadFits(o) /\ o.lag \in 0..MaxLag /\ o.step \in Steps
    BY <1>2 DEF ThreadType
  <2>2. th = IF HoldsClock(t) THEN [o EXCEPT !.lag = o.lag + 1] ELSE o
    BY <1>1
  <2>3. CASE HoldsClock(t)
    <3>1. o.lag + 1 \in 0..MaxLag
      BY <1>1, <2>1, <2>3, Bounds
    <3>2. th \in ThreadType /\ th.call = o.call /\ th.step = o.step /\ th.q = o.q /\ th.lag = o.lag + 1
      BY <2>1, <2>2, <2>3, <3>1 DEF ThreadType
    <3>3. o.step \notin {"idle", "enter", "verify"}
      BY <2>3 DEF HoldsClock
    <3>4. ThreadFits(th)
      BY <2>1, <3>2, <3>3 DEF ThreadFits
    <3> QED BY <2>1, <3>2, <3>4
  <2>4. CASE ~HoldsClock(t)
    <3>1. th = o
      BY <2>2, <2>4
    <3>2. o.step \in {"idle", "enter", "verify"}
      BY <2>1, <2>4 DEF HoldsClock, Steps
    <3>3. o.call # "register_failure"
      BY <2>1, <3>2 DEF ThreadFits
    <3> QED BY <2>1, <3>1, <3>3
  <2> QED BY <2>3, <2>4
<1>9. thread' \in [Threads -> ThreadType]
  BY <1>1, <1>8
<1>10. deque' \in [Deques -> Seq(0..Old)]
  BY <1>1, <1>4
<1>11. LimitWindow' = LimitWindow /\ Limit' = Limit /\ table' = table
  BY <1>1 DEF LimitWindow, Limit
<1>12. Shape'
  <2>1. robbed' \in 0..Old
    BY <1>2, <1>5, Bounds
  <2>2. scope' \in {"predict", "auth_login"} /\ table' \in Deques
    BY <1>1, <1>2 DEF Shape
  <2> QED BY <1>6, <1>7, <1>9, <1>10, <1>11, <2>1, <2>2 DEF Shape
<1>13. Collected'
  <2>1. ASSUME NEW d \in Deques, d # Hits, d # table', \A t \in Threads : thread'[t].q # d
        PROVE  deque'[d] = <<>>
    <3>1. d # table /\ \A t \in Threads : thread[t].q # d
      BY <1>8, <1>11, <2>1
    <3>2. deque[d] = <<>>
      BY <1>2, <2>1, <3>1 DEF Collected
    <3>3. Len(deque'[d]) = 0 /\ deque'[d] \in Seq(0..Old)
      BY <1>4, <3>2, NoAges
    <3> QED BY <3>3, EmptySeq
  <2> QED BY <2>1 DEF Collected, Hits
<1>14. TypeInv'
  BY <1>6, <1>7, <1>8, <1>12, <1>13 DEF TypeInv
<1>15. Failures' = Aged(Failures) /\ Len(Failures') = Len(Failures) /\ Failures \in Seq(0..Old)
  <2>1. CASE table = 0
    <3>1. Aged(<<>>) \in Seq(0..Old) /\ Len(Aged(<<>>)) = 0
      <4>1. 0 \in Int /\ 0 < Old
        BY Bounds
      <4> QED BY <4>1, NoAges, YoungOfAged
    <3>2. Aged(<<>>) = <<>>
      BY <3>1, EmptySeq
    <3> QED BY <1>11, <2>1, <3>2, NoAges DEF Failures
  <2>2. CASE table # 0
    BY <1>2, <1>3, <1>4, <1>11, <2>2 DEF Failures
  <2> QED BY <2>1, <2>2
<1>16. CountInv'
  <2>1. Counters' = Counters /\ Committed' = Committed
    BY <1>8, <1>11 DEF Counters, Committed, Counts, Commits
  <2>2. Len(deque'[Hits]) = Len(deque[Hits]) /\ (Limit + Others)' = Limit + Others
    BY <1>2, <1>4, <1>11 DEF Others
  <2> QED BY <1>2, <1>15, <2>1, <2>2 DEF CountInv, Others, Hits
<1>17. ASSUME NEW a \in Int, a < robbed'
       PROVE  a - 1 \in Int /\ a - 1 < robbed /\ a < Old
  BY <1>2, <1>5, <1>17, Bounds
<1>18. ASSUME NEW a \in Int, a < robbed', a + MaxLag <= LimitWindow
       PROVE  Young(admitted', a) <= Young(deque'[Hits], a + MaxLag)
  <2> PICK b : b = a - 1
    OBVIOUS
  <2>1. b \in Int /\ b < robbed /\ b + MaxLag <= LimitWindow /\ a < Old /\ b + MaxLag \in Int
        /\ a + MaxLag \in Int /\ a + MaxLag < Old /\ a + MaxLag - 1 = b + MaxLag
    BY <1>17, <1>18, Bounds
  <2>2. Young(admitted, b) <= Young(deque[Hits], b + MaxLag)
    BY <1>2, <2>1 DEF CoverInv
  <2>3. Young(admitted', a) <= Young(admitted, b)
    BY <1>6, <2>1
  <2>4. Young(deque'[Hits], a + MaxLag) = Young(deque[Hits], b + MaxLag)
    <3>0. PICK c : c = a + MaxLag
      OBVIOUS
    <3>1. Young(Aged(deque[Hits]), c) = Young(deque[Hits], c - 1)
      BY <1>2, <1>3, <2>1, <3>0, YoungOfAged
    <3>2. c - 1 = b + MaxLag
      <4>1. a \in Int /\ MaxLag \in Int /\ b = a - 1
        BY Bounds
      <4> QED BY ONLY <3>0, <4>1
    <3>3. deque'[Hits] = Aged(deque[Hits])
      BY <1>2, <1>3
    <3> QED BY <3>0, <3>1, <3>2, <3>3
  <2>5. /\ Young(admitted', a) \in Nat /\ Young(admitted, b) \in Nat
        /\ Young(deque[Hits], b + MaxLag) \in Nat
    <3>1. admitted \in Seq(Nat) /\ deque[Hits] \in Seq(Nat)
      BY <1>2, StateFacts
    <3>2. admitted' \in Seq(Nat)
      <4>1. 0..LimitWindow \subseteq Nat
        BY Bounds
      <4> QED BY <1>6, <4>1, SeqMonotonic
    <3> QED BY <2>1, <3>1, <3>2, YoungFacts
  <2> QED BY <2>2, <2>3, <2>4, <2>5
<1>19. ASSUME NEW a \in Int, a < robbed', a <= FailureWindow
       PROVE  Young(failed', a) <= Young(Failures', a) + Cardinality(Pending(a)')
  <2> PICK b : b = a - 1
    OBVIOUS
  <2>1. b \in Int /\ b < robbed /\ b <= FailureWindow /\ a < Old
    BY <1>17, <1>19, Bounds
  <2>2. Young(failed, b) <= Young(Failures, b) + Cardinality(Pending(b))
    BY <1>2, <2>1 DEF CoverInv
  <2>3. Young(failed', a) <= Young(failed, b)
    BY <1>7, <2>1
  <2>4. Young(Failures', a) = Young(Failures, b)
    BY <1>15, <2>1, YoungOfAged
  <2>5. Pending(a)' = Pending(b)
    <3>1. ASSUME NEW t \in Threads
          PROVE  Pends(thread'[t], table', a) <=> Pends(thread[t], table, b)
      <4>1. CASE thread[t].call = "register_failure"
        <5>1. thread'[t].lag = thread[t].lag + 1 /\ thread[t].lag \in Nat
          BY <1>8, <4>1
        <5>2. thread'[t].lag <= a <=> thread[t].lag <= b
          BY <5>1
        <5> QED BY <1>8, <1>11, <5>2 DEF Pends
      <4>2. CASE thread[t].call # "register_failure"
        BY <1>8, <4>2 DEF Pends
      <4> QED BY <4>1, <4>2
    <3> QED BY <3>1 DEF Pending
  <2>6. /\ Young(failed', a) \in Nat /\ Young(failed, b) \in Nat
        /\ Young(Failures, b) \in Nat /\ Cardinality(Pending(b)) \in Nat
    <3>1. failed \in Seq(Nat) /\ Failures \in Seq(Nat)
      BY <1>2, StateFacts
    <3>2. failed' \in Seq(Nat)
      <4>1. 0..FailureWindow \subseteq Nat
        BY Bounds
      <4> QED BY <1>7, <4>1, SeqMonotonic
    <3>3. Cardinality(Pending(b)) \in Nat
      <4>1. Pending(b) \subseteq Threads
        BY DEF Pending
      <4> QED BY <4>1, Bounds, FS_Subset, FS_CardinalityType
    <3> QED BY <2>1, <3>1, <3>2, <3>3, YoungFacts
  <2> QED BY <2>2, <2>3, <2>4, <2>5, <2>6
<1>20. CoverInv'
  BY <1>11, <1>18, <1>19 DEF CoverInv, Hits
<1> QED BY <1>14, <1>16, <1>20 DEF IInv

LEMMA InitHolds ==
    ASSUME Init
    PROVE  IInv
<1>1. /\ scope \in {"predict", "auth_login"} /\ deque = [d \in Deques |-> <<>>] /\ table = 0
      /\ thread = [t \in Threads |-> Idle] /\ admitted = <<>> /\ failed = <<>> /\ robbed = Old
  BY DEF Init
<1>2. \A t \in Threads : thread[t] = Idle
  BY <1>1
<1>3. Hits \in Deques /\ 0 \in Deques /\ deque[Hits] = <<>> /\ Failures = <<>>
  BY <1>1, Bounds DEF Hits, Deques, Failures
<1>4. <<>> \in Seq(0..LimitWindow) /\ <<>> \in Seq(0..FailureWindow) /\ DOMAIN <<>> = {}
  BY EmptySeq
<1>5. Shape
  BY <1>1, <1>3, <1>4, NoAges, IdleFacts, Bounds DEF Shape
<1>6. TypeInv
  BY <1>1, <1>2, <1>4, <1>5, IdleFacts DEF TypeInv, Collected, Descending
<1>7. Counters = {} /\ Committed = {} /\ \A a \in Int : Pending(a) = {}
  BY <1>2, IdleFacts DEF Counters, Committed, Pending, Pends
<1>8. Cardinality({}) = 0
  BY FS_EmptySet
<1>9. CountInv
  <2>1. Others \in Int /\ Others >= -1 /\ Limit \in Nat \ {0} /\ MaxFailures \in Nat \ {0}
    BY Bounds DEF Others
  <2>2. Len(<<>>) = 0
    BY NoAges
  <2>3. Len(deque[Hits]) + Cardinality(Counters) = 0 /\ Len(Failures) + Cardinality(Committed) = 0
    BY <1>3, <1>7, <1>8, <2>2
  <2> QED BY <2>1, <2>3 DEF CountInv
<1>10. CoverInv
  <2>1. \A a \in Int : Young(<<>>, a) = 0 /\ Young(<<>>, a + MaxLag) = 0
    BY NoAges, Bounds
  <2> QED BY <1>1, <1>3, <1>7, <1>8, <2>1 DEF CoverInv
<1> QED BY <1>6, <1>9, <1>10 DEF IInv

LEMMA StutterKeeps ==
    ASSUME IInv, UNCHANGED vars
    PROVE  IInv'
<1>1. UNCHANGED <<scope, deque, table, thread, admitted, failed, robbed>>
  BY DEF vars
<1>2. Counters' = Counters /\ Committed' = Committed /\ \A a : Pending(a)' = Pending(a)
  BY <1>1 DEF Counters, Committed, Pending
<1>3. Failures' = Failures /\ LimitWindow' = LimitWindow /\ Limit' = Limit
  BY <1>1 DEF Failures, LimitWindow, Limit
<1>4. TypeInv'
  BY <1>1, <1>3 DEF IInv, TypeInv, Shape, Collected
<1>5. CountInv'
  BY <1>1, <1>2, <1>3 DEF IInv, CountInv, Others
<1>6. CoverInv'
  BY <1>1, <1>2, <1>3 DEF IInv, CoverInv
<1> QED BY <1>4, <1>5, <1>6 DEF IInv

LEMMA NextKeeps == IInv /\ [Next]_vars => IInv'
<1> SUFFICES ASSUME IInv, [Next]_vars PROVE IInv'
  OBVIOUS
<1>1. CASE Tick
  BY <1>1, TickKeeps
<1>2. ASSUME NEW t \in Threads, Arrive(t) \/ Work(t) PROVE IInv'
  <2>1. CASE Arrive(t)
    BY <2>1, ArriveKeeps
  <2>2. CASE Scan(t)
    BY <2>2, ScanKeeps
  <2>3. CASE Rescan(t)
    BY <2>3, RescanKeeps
  <2>4. CASE Pop(t)
    BY <2>4, PopKeeps
  <2>5. CASE Admit(t)
    BY <2>5, AdmitKeeps
  <2>6. CASE Enter(t)
    BY <2>6, EnterKeeps
  <2>7. CASE Fail(t)
    BY <2>7, FailKeeps
  <2>8. CASE Register(t)
    BY <2>8, RegisterKeeps
  <2>9. CASE Succeed(t)
    BY <2>9, SucceedKeeps
  <2> QED BY <1>2, <2>1, <2>2, <2>3, <2>4, <2>5, <2>6, <2>7, <2>8, <2>9 DEF Work, Purge
<1>3. CASE UNCHANGED vars
  BY <1>3, StutterKeeps
<1> QED BY <1>1, <1>2, <1>3 DEF Next

\* In every reachable state the deques hold what the histories require.
THEOREM InductiveInvariant == Spec => []IInv
<1>1. Init => IInv
  BY InitHolds
<1> QED BY <1>1, NextKeeps, PTL DEF Spec

-----------------------------------------------------------------------------
(***************************************************************************)
(* What the invariant says.                                                *)
(***************************************************************************)
LEMMA CountersAreThreads ==
    /\ Cardinality(Counters) \in Nat /\ Cardinality(Committed) \in Nat
    /\ \A a \in Int : /\ Cardinality(Pending(a)) \in Nat
                      /\ Cardinality(Pending(a)) <= Cardinality(Committed)
<1>1. Counters \subseteq Threads /\ Committed \subseteq Threads
  BY DEF Counters, Committed
<1>2. /\ IsFiniteSet(Committed)
      /\ Cardinality(Counters) \in Nat /\ Cardinality(Committed) \in Nat
  BY <1>1, Bounds, FS_Subset, FS_CardinalityType
<1>3. ASSUME NEW a \in Int
      PROVE  Cardinality(Pending(a)) \in Nat /\ Cardinality(Pending(a)) <= Cardinality(Committed)
  <2>1. Pending(a) \subseteq Committed
    BY DEF Pending, Committed, Pends, Commits
  <2> QED BY <1>2, <2>1, FS_Subset, FS_CardinalityType
<1> QED BY <1>2, <1>3

LEMMA InvImpliesTypeOK == IInv => TypeOK
<1> SUFFICES ASSUME IInv PROVE TypeOK
  OBVIOUS
<1>1. Shape /\ Len(deque[Hits]) + Cardinality(Counters) <= Limit + Others
  BY DEF IInv, TypeInv, CountInv
<1>2. Len(deque[Hits]) \in Nat
  <2>1. deque[Hits] \in Seq(Nat)
    BY <1>1, StateFacts
  <2> QED BY <2>1, LenProperties
<1>3. Len(deque[Hits]) < Limit + Cardinality(Threads)
  <2>1. Cardinality(Counters) \in Nat
    BY CountersAreThreads
  <2>2. Limit \in Int /\ Cardinality(Threads) \in Int /\ Others = Cardinality(Threads) - 1
    BY Bounds DEF Others
  <2> QED BY <1>1, <1>2, <2>1, <2>2
<1> QED BY <1>1, <1>3 DEF TypeOK, Shape, ThreadType

LEMMA InvImpliesLimit == IInv => LimitIsKept
<1> SUFFICES ASSUME IInv, NotRobbed
             PROVE  Len(Recent(admitted, LimitWindow - MaxLag)) <= Limit + Others
  BY DEF LimitIsKept
<1> PICK w : w = LimitWindow - MaxLag
  OBVIOUS
<1>1. w \in Int /\ w + MaxLag = LimitWindow /\ LimitWindow \in Int /\ w + MaxLag \in Int /\ w <= LimitWindow
  BY Bounds
<1>2. /\ Shape /\ CoverInv /\ Descending(admitted)
      /\ Len(deque[Hits]) + Cardinality(Counters) <= Limit + Others
  BY DEF IInv, TypeInv, CountInv
<1>3. admitted \in Seq(Nat) /\ deque[Hits] \in Seq(Nat) /\ robbed \in Nat
  BY <1>2, StateFacts
<1>4. w < robbed
  <2>1. Max({LimitWindow, FailureWindow}) = IF LimitWindow >= FailureWindow THEN LimitWindow ELSE FailureWindow
    BY Bounds, GreatestOfTwo
  <2>2. LimitWindow < robbed
    BY <1>3, <2>1, Bounds DEF NotRobbed
  <2> QED BY <1>1, <1>3, <2>2
<1>5. Young(admitted, w) <= Young(deque[Hits], w + MaxLag)
  BY <1>1, <1>2, <1>4 DEF CoverInv
<1>6. Young(deque[Hits], w + MaxLag) <= Len(deque[Hits])
      /\ Young(deque[Hits], w + MaxLag) \in Nat /\ Len(deque[Hits]) \in Nat
  BY <1>1, <1>3, YoungFacts
<1>7. Len(Recent(admitted, w)) = Young(admitted, w) /\ Young(admitted, w) \in Nat
  BY <1>1, <1>2, <1>3, RecentCounts, YoungFacts
<1>8. Limit + Others \in Int
  BY Bounds DEF Others
<1>9. Len(deque[Hits]) <= Limit + Others
  <2>1. Cardinality(Counters) \in Nat
    BY CountersAreThreads
  <2> QED BY <1>2, <1>6, <1>8, <2>1
<1>10. Young(admitted, w) <= Limit + Others
  BY <1>5, <1>6, <1>7, <1>8, <1>9
<1> QED BY <1>7, <1>10

LEMMA InvImpliesFailures == IInv => FailuresAreBounded
<1> SUFFICES ASSUME IInv, NotRobbed
             PROVE  Len(Recent(failed, FailureWindow - MaxLag)) <= MaxFailures + Others
  BY DEF FailuresAreBounded
<1> PICK w : w = FailureWindow - MaxLag
  OBVIOUS
<1>1. w \in Int /\ w <= FailureWindow
  BY Bounds
<1>2. /\ Shape /\ CoverInv /\ Descending(failed)
      /\ Len(Failures) + Cardinality(Committed) <= MaxFailures + Others
  BY DEF IInv, TypeInv, CountInv
<1>3. failed \in Seq(Nat) /\ Failures \in Seq(Nat) /\ robbed \in Nat
  BY <1>2, StateFacts
<1>4. w < robbed
  <2>1. Max({LimitWindow, FailureWindow}) = IF LimitWindow >= FailureWindow THEN LimitWindow ELSE FailureWindow
    BY Bounds, GreatestOfTwo
  <2>2. FailureWindow < robbed
    BY <1>3, <2>1, Bounds DEF NotRobbed
  <2> QED BY <1>1, <1>3, <2>2, Bounds
<1>5. Young(failed, w) <= Young(Failures, w) + Cardinality(Pending(w))
  BY <1>1, <1>2, <1>4 DEF CoverInv
<1>6. Young(Failures, w) <= Len(Failures) /\ Young(Failures, w) \in Nat /\ Len(Failures) \in Nat
  BY <1>1, <1>3, YoungFacts
<1>7. Len(Recent(failed, w)) = Young(failed, w) /\ Young(failed, w) \in Nat
  BY <1>1, <1>2, <1>3, RecentCounts, YoungFacts
<1>8. /\ Cardinality(Pending(w)) \in Nat /\ Cardinality(Committed) \in Nat
      /\ Cardinality(Pending(w)) <= Cardinality(Committed)
  BY <1>1, CountersAreThreads
<1>9. MaxFailures + Others \in Int
  BY Bounds DEF Others
<1>10. Young(failed, w) <= Len(Failures) + Cardinality(Committed)
  BY <1>5, <1>6, <1>7, <1>8
<1>11. Young(failed, w) <= MaxFailures + Others
  BY <1>2, <1>6, <1>7, <1>8, <1>9, <1>10
<1> QED BY <1>7, <1>11

\* The deques hold ages, the threads the deques they work on, and the limiter's
\* deque stays below its limit and one entry for each thread: the deque the code
\* lets grow without a lock is bounded.
THEOREM TypeCorrect == Spec => []TypeOK
BY InductiveInvariant, InvImpliesTypeOK, PTL

\* InMemoryRateLimiter.check: as long as no purge pops a head that another thread
\* left it, the requests admitted within a window exceed the limit by the other
\* threads at most, whatever the interleaving.
THEOREM LimitKept == Spec => []LimitIsKept
BY InductiveInvariant, InvImpliesLimit, PTL

\* LoginFailureGuard: likewise for the failed logins of a client since its last
\* successful one.
THEOREM FailuresBounded == Spec => []FailuresAreBounded
BY InductiveInvariant, InvImpliesFailures, PTL
=============================================================================
