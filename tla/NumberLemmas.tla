---------------------------- MODULE NumberLemmas ----------------------------
(***************************************************************************)
(* Facts about sets of natural numbers that the proofs of several modules  *)
(* rest on: the handlers take the rows of a batch in id order, and new     *)
(* rows get the next ids.  And facts about sums over a finite set: the     *)
(* weights of the cases of a suite.                                        *)
(***************************************************************************)
EXTENDS Naturals, FiniteSets, FiniteSetTheorems, WellFoundedInduction, TLAPS

\* Every set of numbers has a smallest element: the first row of a batch, the
\* oldest timestamp of a bucket.  The sets {n \in S : n <= m} are finite, and
\* one of them has no smaller one.
LEMMA SmallestElement ==
  ASSUME NEW S \in SUBSET Nat, S # {}
  PROVE  \E m \in S : \A n \in S : m <= n
<1> DEFINE Below(m) == {n \in S : n <= m}
           Belows == {Below(m) : m \in S}
           R == StrictSubsetOrdering(S)
<1>1. Belows \subseteq FiniteSubsetsOf(S) /\ Belows # {}
  <2>1. ASSUME NEW m \in S
        PROVE  Below(m) \in FiniteSubsetsOf(S)
    <3>1. Below(m) \in SUBSET Nat /\ m \in Nat /\ \A n \in Below(m) : n <= m
      OBVIOUS
    <3>2. IsFiniteSet(Below(m))
      BY <3>1, FS_BoundedSetOfNaturals
    <3>3. QED
      BY <3>2 DEF FiniteSubsetsOf
  <2>2. QED
    BY <2>1
<1>2. PICK T \in Belows : \A U \in Belows : <<U, T>> \notin R
  <2> HIDE DEF Belows, R
  <2>1. IsWellFoundedOn(R, FiniteSubsetsOf(S))
    BY FS_StrictSubsetOrderingWellFounded DEF R
  <2>2. QED
    BY <1>1, <2>1, WFMin
<1>3. PICK m \in S : T = Below(m)
  BY <1>2
<1>4. ASSUME NEW n \in S, ~(m <= n)
      PROVE  FALSE
  <2>1. m \in Nat /\ n \in Nat
    OBVIOUS
  <2>2. m \in Below(m) /\ m \notin Below(n)
    BY <1>4, <2>1
  <2>3. ASSUME NEW x \in Below(n)
        PROVE  x \in Below(m)
    <3>1. x \in Nat /\ x \in S /\ x <= n
      OBVIOUS
    <3>2. QED
      BY <1>4, <2>1, <3>1
  <2>4. <<Below(n), Below(m)>> \in R
    BY <2>2, <2>3 DEF StrictSubsetOrdering
  <2>5. QED
    BY <1>2, <1>3, <2>4
<1>5. QED
  BY <1>4

\* A bounded set has a largest element: the last event of a chain.
LEMMA LargestElement ==
  ASSUME NEW S \in SUBSET Nat, S # {}, NEW b \in Nat, \A n \in S : n <= b
  PROVE  \E m \in S : \A n \in S : n <= m
<1> DEFINE Bounds == {k \in Nat : \A n \in S : n <= k}
<1>1. PICK m \in Bounds : \A k \in Bounds : m <= k
  <2>1. Bounds \in SUBSET Nat /\ Bounds # {}
    OBVIOUS
  <2> HIDE DEF Bounds
  <2>2. QED
    BY <2>1, SmallestElement
<1>2. SUFFICES ASSUME m \notin S
               PROVE  FALSE
  BY <1>1
<1>3. PICK n \in S : n \in Nat /\ n <= m /\ n # m
  BY <1>1, <1>2
<1>4. m - 1 \in Nat
  BY <1>1, <1>3
<1>5. ASSUME NEW x \in S
      PROVE  x <= m - 1
  BY <1>1, <1>2, <1>4, <1>5
<1>6. m - 1 \in Bounds
  BY <1>4, <1>5
<1>7. QED
  BY <1>1, <1>4, <1>6

\* Induction, for a set instead of a predicate.
LEMMA SetInduction ==
  ASSUME NEW S, 0 \in S, \A n \in Nat : n \in S => n + 1 \in S
  PROVE  Nat \subseteq S
<1>1. SUFFICES ASSUME Nat \ S # {}
               PROVE  FALSE
  OBVIOUS
<1>2. PICK m \in Nat \ S : \A n \in Nat \ S : m <= n
  <2>1. Nat \ S \in SUBSET Nat
    OBVIOUS
  <2>2. QED
    BY <1>1, <2>1, SmallestElement
<1>3. m # 0 /\ m - 1 \in Nat /\ ~(m <= m - 1) /\ (m - 1) + 1 = m
  BY <1>2
<1>4. QED
  BY <1>2, <1>3

\* Of a finite set of numbers, those with fewer than n smaller ones are n, if
\* there are that many: a batch is as large as it may be, and a row that is
\* inserted has an id.
LEMMA FirstOnes ==
  ASSUME NEW S \in SUBSET Nat, IsFiniteSet(S), NEW n \in Nat, n <= Cardinality(S)
  PROVE  Cardinality({e \in S : Cardinality({f \in S : f < e}) < n}) = n
<1> DEFINE Less(e) == {f \in S : f < e}
           First(k) == {e \in S : Cardinality(Less(e)) < k}
           Good == {k \in Nat : k <= Cardinality(S) => Cardinality(First(k)) = k}
<1>1. \A e \in S : /\ IsFiniteSet(Less(e)) /\ Cardinality(Less(e)) \in Nat
  <2>1. SUFFICES ASSUME NEW e \in S
                 PROVE  IsFiniteSet(Less(e)) /\ Cardinality(Less(e)) \in Nat
    OBVIOUS
  <2>2. Less(e) \in SUBSET S
    OBVIOUS
  <2>3. QED
    BY <2>2, FS_Subset, FS_CardinalityType
<1>2. ASSUME NEW d \in S, NEW e \in S, d < e
      PROVE  Cardinality(Less(d)) < Cardinality(Less(e))
  <2>1. Less(d) \in SUBSET Less(e)
    <3>1. ASSUME NEW f \in Less(d)
          PROVE  f \in Less(e)
      <4>1. f \in Nat /\ d \in Nat /\ e \in Nat /\ f < d /\ f \in S
        OBVIOUS
      <4>2. QED
        BY <1>2, <4>1
    <3>2. QED
      BY <3>1
  <2>2. d \in Less(e) /\ d \notin Less(d)
    BY <1>2
  <2> HIDE DEF Less
  <2>3. Cardinality(Less(d)) <= Cardinality(Less(e)) /\ Cardinality(Less(d)) # Cardinality(Less(e))
    BY <1>1, <2>1, <2>2, FS_Subset
  <2>4. QED
    BY <1>1, <2>3
<1>3. 0 \in Good
  <2>1. First(0) = {}
    <3>1. \A e \in S : ~(Cardinality(Less(e)) < 0)
      <4> HIDE DEF Less
      <4>1. QED
        BY <1>1
    <3>2. QED
      BY <3>1
  <2>2. QED
    BY <2>1, FS_EmptySet
<1>4. ASSUME NEW k \in Nat, k \in Good, k + 1 <= Cardinality(S)
      PROVE  Cardinality(First(k + 1)) = k + 1
  <2>1. Cardinality(S) \in Nat
    BY FS_CardinalityType
  <2>2. Cardinality(First(k)) = k
    BY <1>4, <2>1
  <2>3. First(k) \in SUBSET S /\ S \ First(k) \in SUBSET Nat
    OBVIOUS
  <2>4. IsFiniteSet(First(k))
    BY <2>3, FS_Subset
  <2>5. S \ First(k) # {}
    <3>1. First(k) # S
      <4> HIDE DEF First
      <4>1. QED
        BY <1>4, <2>1, <2>2
    <3>2. QED
      BY <2>3, <3>1
  <2>6. PICK m \in S \ First(k) : \A e \in S \ First(k) : m <= e
    <3> HIDE DEF First
    <3>1. QED
      BY <2>3, <2>5, SmallestElement
  <2>7. Less(m) = First(k)
    <3>1. ASSUME NEW e \in Less(m)
          PROVE  e \in First(k)
      <4>1. e \in S /\ e \in Nat /\ m \in Nat /\ ~(m <= e)
        OBVIOUS
      <4>2. QED
        BY <2>6, <4>1
    <3>2. ASSUME NEW e \in First(k), ~(e < m)
          PROVE  FALSE
      <4>1. e \in S /\ m \in S /\ e \in Nat /\ m \in Nat
        BY <3>2, <2>6
      <4>2. e = m \/ m < e
        BY <3>2, <4>1
      <4>3. Cardinality(Less(m)) <= Cardinality(Less(e))
        <5> HIDE DEF Less
        <5>1. CASE e = m
          BY <5>1, <4>1, <1>1
        <5>2. CASE m < e
          BY <5>2, <4>1, <1>1, <1>2
        <5>3. QED
          BY <4>2, <5>1, <5>2
      <4>4. Cardinality(Less(e)) < k /\ ~(Cardinality(Less(m)) < k)
        BY <3>2, <2>6
      <4> HIDE DEF Less
      <4>5. QED
        BY <1>1, <4>1, <4>3, <4>4
    <3>3. First(k) \subseteq S
      OBVIOUS
    <3>4. QED
      BY <3>1, <3>2, <3>3
  <2>8. First(k + 1) = First(k) \cup {m}
    <3>1. Cardinality(Less(m)) = k
      BY <2>2, <2>7
    <3>2. ASSUME NEW e \in S
          PROVE  e \in First(k + 1) <=> e \in First(k) \/ e = m
      <4>1. e = m => Cardinality(Less(e)) = k
        BY <3>1
      <4>2. e # m => e < m \/ m < e
        BY <3>2, <2>6
      <4>3. m < e => Cardinality(Less(e)) > k
        <5> HIDE DEF Less
        <5>1. QED
          BY <1>1, <1>2, <3>1, <2>6
      <4>4. e < m => Cardinality(Less(e)) < k
        <5> HIDE DEF Less
        <5>1. QED
          BY <1>1, <1>2, <3>1, <2>6
      <4>5. Cardinality(Less(e)) \in Nat
        BY <1>1
      <4>6. e \in First(k + 1) <=> Cardinality(Less(e)) < k + 1
        OBVIOUS
      <4>7. e \in First(k) <=> Cardinality(Less(e)) < k
        OBVIOUS
      <4> HIDE DEF Less, First
      <4>8. QED
        BY <4>1, <4>2, <4>3, <4>4, <4>5, <4>6, <4>7
    <3>3. First(k + 1) \subseteq S /\ First(k) \subseteq S /\ m \in S
      BY <2>6
    <3> HIDE DEF First
    <3>4. QED
      BY <3>2, <3>3
  <2>9. QED
    <3> HIDE DEF First
    <3>1. m \notin First(k)
      BY <2>6
    <3>2. QED
      BY <2>2, <2>4, <2>8, <3>1, FS_AddElement
<1>5. n \in Good
  <2>1. \A k \in Nat : k \in Good => k + 1 \in Good
    <3>1. SUFFICES ASSUME NEW k \in Nat, k \in Good
                   PROVE  k + 1 \in Good
      OBVIOUS
    <3>2. k + 1 \in Nat
      OBVIOUS
    <3> HIDE DEF First
    <3>3. QED
      BY <1>4, <3>1, <3>2
  <2> HIDE DEF Good
  <2>2. QED
    BY <1>3, <2>1, SetInduction
<1>6. QED
  <2> HIDE DEF First
  <2>1. Cardinality(First(n)) = n
    BY <1>5
  <2>2. QED
    BY <2>1 DEF First

\* A set whose elements are all the same.
LEMMA AtMostOne ==
  ASSUME NEW S, \A r, s \in S : r = s
  PROVE  IsFiniteSet(S) /\ Cardinality(S) \in {0, 1} /\ (S # {} => Cardinality(S) = 1)
<1>1. CASE S = {}
  BY <1>1, FS_EmptySet
<1>2. CASE S # {}
  <2>1. PICK r : S = {r}
    BY <1>2
  <2>2. QED
    BY <2>1, FS_Singleton
<1>3. QED
  BY <1>1, <1>2

Picks(pick, D) == \A s \in SUBSET D : s # {} => pick[s] \in s

\* f sums up the weights w of every subset of D, in the order in which pick
\* chooses the elements.
SumsUp(f, w, pick, D) ==
  \A s \in SUBSET D : f[s] = IF s = {} THEN 0 ELSE w[pick[s]] + f[s \ {pick[s]}]

\* There is such a sum: one for the sets of k elements gives one for k + 1.
LEMMA SumExists ==
  ASSUME NEW D, IsFiniteSet(D), NEW w \in [D -> Nat], NEW pick, Picks(pick, D)
  PROVE  \E f \in [SUBSET D -> Nat] : SumsUp(f, w, pick, D)
<1> USE DEF Picks
<1> DEFINE Sum(f, s) == IF s = {} THEN 0 ELSE w[pick[s]] + f[s \ {pick[s]}]
           Good == {k \in Nat : \E f \in [SUBSET D -> Nat] : \A s \in SUBSET D :
                                  Cardinality(s) <= k => f[s] = Sum(f, s)}
<1>1. \A s \in SUBSET D : IsFiniteSet(s) /\ Cardinality(s) \in Nat /\ Cardinality(s) <= Cardinality(D)
  BY FS_Subset, FS_CardinalityType
<1>2. ASSUME NEW f \in [SUBSET D -> Nat], NEW s \in SUBSET D
      PROVE  Sum(f, s) \in Nat
  <2>1. s # {} => w[pick[s]] \in Nat /\ f[s \ {pick[s]}] \in Nat
    OBVIOUS
  <2>2. QED
    BY <2>1
<1>3. 0 \in Good
  <2> DEFINE f == [s \in SUBSET D |-> 0]
  <2>1. f \in [SUBSET D -> Nat]
    OBVIOUS
  <2>2. ASSUME NEW s \in SUBSET D, Cardinality(s) <= 0
        PROVE  f[s] = Sum(f, s)
    <3>1. s = {}
      BY <1>1, <2>2, FS_EmptySet
    <3>2. QED
      BY <3>1
  <2> HIDE DEF f, Sum
  <2>3. QED
    BY <2>1, <2>2
<1>4. ASSUME NEW k \in Nat, k \in Good
      PROVE  k + 1 \in Good
  <2>1. PICK f \in [SUBSET D -> Nat] :
          \A s \in SUBSET D : Cardinality(s) <= k => f[s] = Sum(f, s)
    BY <1>4
  <2> DEFINE g == [s \in SUBSET D |-> Sum(f, s)]
  <2>2. g \in [SUBSET D -> Nat]
    <3> HIDE DEF Sum
    <3>1. QED
      BY <1>2
  <2>3. ASSUME NEW s \in SUBSET D, Cardinality(s) <= k + 1
        PROVE  g[s] = Sum(g, s)
    <3>1. CASE s = {}
      BY <3>1
    <3>2. CASE s # {}
      <4> DEFINE r == s \ {pick[s]}
      <4>1. pick[s] \in s /\ r \in SUBSET D
        BY <3>2
      <4>2. Cardinality(r) <= k
        <5>1. Cardinality(r) = Cardinality(s) - 1
          BY <1>1, <4>1, FS_RemoveElement
        <5> HIDE DEF r
        <5>2. QED
          BY <1>1, <2>3, <5>1
      <4>3. g[r] = f[r]
        <5> HIDE DEF Sum, r
        <5>1. QED
          BY <2>1, <4>1, <4>2
      <4>4. Sum(f, s) = w[pick[s]] + f[r] /\ Sum(g, s) = w[pick[s]] + g[r]
        BY <3>2
      <4> HIDE DEF Sum, r
      <4>5. QED
        BY <4>3, <4>4
    <3>3. QED
      BY <3>1, <3>2
  <2> HIDE DEF g, Sum
  <2>4. QED
    BY <2>2, <2>3
<1>5. Cardinality(D) \in Good
  <2> HIDE DEF Good
  <2>1. QED
    BY <1>1, <1>3, <1>4, SetInduction
<1> HIDE DEF Sum
<1>6. PICK f \in [SUBSET D -> Nat] :
        \A s \in SUBSET D : Cardinality(s) <= Cardinality(D) => f[s] = Sum(f, s)
  BY <1>5
<1>7. \A s \in SUBSET D : f[s] = Sum(f, s)
  BY <1>1, <1>6
<1>8. QED
  BY <1>6, <1>7 DEF Sum, SumsUp

\* Two such sums agree on the subsets of a set that is summed up by both.
LEMMA SumUnique ==
  ASSUME NEW D, IsFiniteSet(D), NEW E \in SUBSET D, NEW w, NEW pick,
         Picks(pick, D), NEW f, NEW g, SumsUp(f, w, pick, D), SumsUp(g, w, pick, E)
  PROVE  \A s \in SUBSET E : f[s] = g[s]
<1> USE DEF Picks, SumsUp
<1> DEFINE Good == {k \in Nat : \A s \in SUBSET E : Cardinality(s) <= k => f[s] = g[s]}
<1>1. \A s \in SUBSET E : s \in SUBSET D /\ IsFiniteSet(s) /\ Cardinality(s) \in Nat
  BY FS_Subset, FS_CardinalityType
<1>2. 0 \in Good
  <2>1. ASSUME NEW s \in SUBSET E, Cardinality(s) <= 0
        PROVE  f[s] = g[s]
    <3>1. s = {}
      BY <1>1, <2>1, FS_EmptySet
    <3>2. QED
      BY <1>1, <3>1
  <2>2. QED
    BY <2>1
<1>3. ASSUME NEW k \in Nat, k \in Good
      PROVE  k + 1 \in Good
  <2>1. ASSUME NEW s \in SUBSET E, Cardinality(s) <= k + 1
        PROVE  f[s] = g[s]
    <3>1. CASE s = {}
      BY <1>1, <3>1
    <3>2. CASE s # {}
      <4>1. pick[s] \in s /\ s \ {pick[s]} \in SUBSET E
        BY <1>1, <3>2
      <4>2. Cardinality(s \ {pick[s]}) = Cardinality(s) - 1
        BY <1>1, <4>1, FS_RemoveElement
      <4>3. Cardinality(s \ {pick[s]}) <= k
        BY <1>1, <2>1, <4>2
      <4>4. f[s \ {pick[s]}] = g[s \ {pick[s]}]
        BY <1>3, <4>1, <4>3
      <4>5. QED
        BY <1>1, <3>2, <4>4
    <3>3. QED
      BY <3>1, <3>2
  <2>2. QED
    BY <2>1
<1>4. ASSUME NEW s \in SUBSET E
      PROVE  f[s] = g[s]
  <2>1. Cardinality(s) \in Good
    <3> HIDE DEF Good
    <3>1. QED
      BY <1>1, <1>2, <1>3, SetInduction
  <2>2. QED
    BY <1>1, <2>1
<1>5. QED
  BY <1>4

\* Any element may be taken first.
LEMMA SumAnyElement ==
  ASSUME NEW D, IsFiniteSet(D), NEW w \in [D -> Nat], NEW pick,
         Picks(pick, D), NEW f \in [SUBSET D -> Nat], SumsUp(f, w, pick, D),
         NEW S \in SUBSET D, NEW x \in S
  PROVE  f[S] = w[x] + f[S \ {x}]
<1> USE DEF Picks, SumsUp
<1> DEFINE Good == {k \in Nat : \A s \in SUBSET D : \A y \in s :
                      Cardinality(s) <= k => f[s] = w[y] + f[s \ {y}]}
<1>1. \A s \in SUBSET D : IsFiniteSet(s) /\ Cardinality(s) \in Nat
  BY FS_Subset, FS_CardinalityType
<1>2. 0 \in Good
  <2>1. ASSUME NEW s \in SUBSET D, NEW y \in s, Cardinality(s) <= 0
        PROVE  FALSE
    BY <1>1, <2>1, FS_EmptySet
  <2>2. QED
    BY <2>1
<1>3. ASSUME NEW k \in Nat, k \in Good
      PROVE  k + 1 \in Good
  <2>1. ASSUME NEW s \in SUBSET D, NEW y \in s, Cardinality(s) <= k + 1
        PROVE  f[s] = w[y] + f[s \ {y}]
    <3> DEFINE z == pick[s]
               sz == s \ {z}
               sy == s \ {y}
    <3>1. z \in s /\ f[s] = w[z] + f[sz]
      OBVIOUS
    <3>2. CASE z = y
      BY <3>1, <3>2
    <3>3. CASE z # y
      <4>1. /\ sz \in SUBSET D /\ sy \in SUBSET D
            /\ y \in sz /\ z \in sy /\ sz \ {y} = sy \ {z}
        BY <3>1, <3>3
      <4>2. Cardinality(sz) <= k /\ Cardinality(sy) <= k
        <5>1. Cardinality(sz) = Cardinality(s) - 1 /\ Cardinality(sy) = Cardinality(s) - 1
          BY <1>1, <3>1, FS_RemoveElement
        <5> HIDE DEF sz, sy
        <5>2. QED
          BY <1>1, <2>1, <5>1
      <4>3. f[sz] = w[y] + f[sz \ {y}] /\ f[sy] = w[z] + f[sy \ {z}]
        <5> HIDE DEF sz, sy, z
        <5>1. QED
          BY <1>3, <4>1, <4>2
      <4> DEFINE rest == f[sz \ {y}]
      <4>4. w[z] \in Nat /\ w[y] \in Nat /\ rest \in Nat
        BY <3>1, <4>1
      <4>5. f[sz] = w[y] + rest /\ f[sy] = w[z] + rest
        <5> HIDE DEF sz, sy, z
        <5>1. QED
          BY <4>1, <4>3
      <4>6. f[s] = w[y] + f[sy]
        <5> HIDE DEF sz, sy, z, rest
        <5>1. QED
          BY <3>1, <4>4, <4>5
      <4>7. QED
        BY <4>6
    <3>4. QED
      BY <3>2, <3>3
  <2>2. QED
    BY <2>1
<1>4. Cardinality(S) \in Good
  <2> HIDE DEF Good
  <2>1. QED
    BY <1>1, <1>2, <1>3, SetInduction
<1>5. QED
  BY <1>1, <1>4

\* The sum of two disjoint sets.
LEMMA SumDisjoint ==
  ASSUME NEW D, IsFiniteSet(D), NEW w \in [D -> Nat], NEW pick,
         Picks(pick, D), NEW f \in [SUBSET D -> Nat], SumsUp(f, w, pick, D),
         NEW S \in SUBSET D, NEW T \in SUBSET D, S \cap T = {}
  PROVE  f[S \cup T] = f[S] + f[T]
<1> DEFINE Good == {k \in Nat : \A s, t \in SUBSET D :
                      s \cap t = {} /\ Cardinality(t) <= k => f[s \cup t] = f[s] + f[t]}
<1>1. \A s \in SUBSET D : IsFiniteSet(s) /\ Cardinality(s) \in Nat
  BY FS_Subset, FS_CardinalityType
<1>2. ASSUME NEW s \in SUBSET D, NEW t \in SUBSET D, t = {}
      PROVE  f[s \cup t] = f[s] + f[t]
  <2>1. f[s \cup t] = f[s]
    <3>1. s \cup t = s
      BY <1>2
    <3>2. QED
      BY <3>1
  <2>2. f[t] = 0 /\ f[s] \in Nat
    <3>1. f[{}] = 0
      BY DEF SumsUp
    <3>2. QED
      BY <1>2, <3>1
  <2>3. QED
    BY <2>1, <2>2
<1>3. 0 \in Good
  <2>1. ASSUME NEW t \in SUBSET D, Cardinality(t) <= 0
        PROVE  t = {}
    BY <1>1, <2>1, FS_EmptySet
  <2>2. QED
    BY <1>2, <2>1
<1>4. ASSUME NEW k \in Nat, k \in Good
      PROVE  k + 1 \in Good
  <2>1. ASSUME NEW s \in SUBSET D, NEW t \in SUBSET D, s \cap t = {}, Cardinality(t) <= k + 1
        PROVE  f[s \cup t] = f[s] + f[t]
    <3>1. CASE t = {}
      BY <1>2, <3>1
    <3>2. CASE t # {}
      <4>1. PICK y \in t : TRUE
        BY <3>2
      <4> DEFINE r == t \ {y}
      <4>2. /\ r \in SUBSET D /\ s \cup t \in SUBSET D /\ y \in s \cup t /\ s \cap r = {}
            /\ (s \cup t) \ {y} = s \cup r
        BY <2>1, <4>1
      <4>3. Cardinality(r) <= k
        <5>1. Cardinality(r) = Cardinality(t) - 1
          BY <1>1, <4>1, FS_RemoveElement
        <5> HIDE DEF r
        <5>2. QED
          BY <1>1, <2>1, <5>1
      <4>4. f[t] = w[y] + f[r]
        BY <4>1, SumAnyElement
      <4>5. w[y] \in Nat /\ f[s] \in Nat /\ f[r] \in Nat
        BY <4>1, <4>2
      <4> HIDE DEF r
      <4>6. f[s \cup r] = f[s] + f[r]
        BY <1>4, <4>2, <4>3
      <4>7. f[s \cup t] = w[y] + f[s \cup r]
        BY <4>2, SumAnyElement
      <4>8. QED
        BY <4>4, <4>5, <4>6, <4>7
    <3>3. QED
      BY <3>1, <3>2
  <2>2. QED
    BY <2>1
<1>5. Cardinality(T) \in Good /\ Cardinality(T) <= Cardinality(T)
  <2> HIDE DEF Good
  <2>1. Cardinality(T) \in Good
    BY <1>1, <1>3, <1>4, SetInduction
  <2>2. QED
    BY <1>1, <2>1
<1>6. QED
  BY <1>5
=============================================================================
