----------------------- MODULE PopulationPoolsProofs -----------------------
(* Theorems about PopulationPools, for all widths, leaves and keys.         *)
EXTENDS PopulationPools, FiniteSetTheorems, WellFoundedInduction, TLAPS

\* Every non-empty set of naturals has a least element.
LEMMA NatMinimum ==
  ASSUME NEW T \in SUBSET Nat, T # {}
  PROVE  \E m \in T : \A k \in T : m <= k
<1> DEFINE R == OpToRel(<, Nat)
<1>1. IsWellFoundedOn(R, Nat)
  BY NatLessThanWellFounded
<1> HIDE DEF R
<1>2. PICK m \in T : \A k \in T : ~ (<<k, m>> \in R)
  BY <1>1, WFMin
<1>3. ASSUME NEW k \in T PROVE m <= k
  <2>1. <<k, m>> \notin R
    BY <1>2, <1>3
  <2>2. ~ (k < m)
    BY <2>1 DEF R, OpToRel
  <2>3. QED
    BY <2>2
<1>4. QED
  BY <1>3

\* Every non-empty set of naturals with an upper bound has a greatest element.
LEMMA NatMaximum ==
  ASSUME NEW T \in SUBSET Nat, T # {}, NEW n \in Nat, \A k \in T : k <= n
  PROVE  \E m \in T : \A k \in T : k <= m
<1> DEFINE B == {b \in Nat : \A k \in T : k <= b}
<1>1. PICK b \in B : \A c \in B : b <= c
  <2>1. n \in B
    OBVIOUS
  <2>2. QED
    BY <2>1, NatMinimum
<1>2. b \in T
  <2>1. SUFFICES ASSUME b \notin T PROVE FALSE
    OBVIOUS
  <2>2. PICK k \in T : TRUE
    OBVIOUS
  <2>3. \A j \in T : j <= b - 1
    BY <1>1, <2>1
  <2>4. b - 1 \in B
    BY <1>1, <2>2, <2>3
  <2>5. QED
    BY <1>1, <2>4
<1>3. QED
  BY <1>1, <1>2

\* The last bucket that a key lands on before num_buckets.
LEMMA JumpLandsLast ==
  ASSUME NEW k \in Keys, NEW n \in Nat \ {0}
  PROVE  LET b == JumpConsistentHash(k, n)
         IN  /\ b \in k /\ b \in 0 .. n - 1
             /\ \A a \in k : a < n => a <= b
<1> DEFINE Before == {a \in k : a < n}
<1>1. k \subseteq Nat /\ 0 \in k
  BY WidthsAssumption
<1>2. PICK b \in Before : \A a \in Before : a <= b
  <2>1. Before \in SUBSET Nat
    BY <1>1
  <2>2. 0 \in Before
    BY <1>1
  <2>3. \A a \in Before : a <= n
    <3>1. TAKE a \in Before
    <3>2. a \in Nat /\ a < n
      BY <2>1
    <3>3. QED
      BY <3>2
  <2> HIDE DEF Before
  <2>4. QED
    BY <2>1, <2>2, <2>3, NatMaximum
<1>3. \E c \in k : c < n /\ \A a \in k : a < n => a <= c
  BY <1>2
<1>4. JumpConsistentHash(k, n)
        = CHOOSE c \in k : c < n /\ \A a \in k : a < n => a <= c
  BY DEF JumpConsistentHash
<1>5. /\ JumpConsistentHash(k, n) \in k
      /\ JumpConsistentHash(k, n) < n
      /\ \A a \in k : a < n => a <= JumpConsistentHash(k, n)
  BY <1>3, <1>4, Zenon
<1>6. JumpConsistentHash(k, n) \in Nat
  BY <1>1, <1>5
<1>7. JumpConsistentHash(k, n) \in 0 .. n - 1
  BY <1>5, <1>6
<1>8. QED
  BY <1>5, <1>7

\* JumpConsistentHash is consistent (consistent_hash_test.cc): with more
\* buckets, a key keeps its bucket or gets one of the new ones.
THEOREM JumpMovesLittle ==
  ASSUME NEW k \in Keys, NEW m \in Nat \ {0}, NEW n \in Nat, m <= n
  PROVE  \/ JumpConsistentHash(k, n) = JumpConsistentHash(k, m)
         \/ JumpConsistentHash(k, n) \in m .. n - 1
<1> DEFINE new == JumpConsistentHash(k, n)
           old == JumpConsistentHash(k, m)
<1>1. /\ new \in k /\ new \in 0 .. n - 1
      /\ \A a \in k : a < n => a <= new
  BY JumpLandsLast
<1>2. /\ old \in k /\ old \in 0 .. m - 1
      /\ \A a \in k : a < m => a <= old
  BY JumpLandsLast
<1> HIDE DEF new, old
<1>3. new < m => new <= old
  BY <1>1, <1>2
<1>4. old <= new
  BY <1>1, <1>2
<1>5. new = old \/ new \in m .. n - 1
  BY <1>1, <1>2, <1>3, <1>4
<1>6. QED
  BY <1>5 DEF new, old

---------------------------------------------------------------------------
(* Adding up the populations and dropping the empty pools.                  *)

\* A function on 0 .. n that is given at 0 and by a step from each k - 1 to k.
IsBySteps(f, n, S, s0, h) ==
  /\ f \in [0 .. n -> S] /\ f[0] = s0
  /\ \A k \in 1 .. n : f[k] = h[k][f[k - 1]]

\* There is such a function for every start and every step.
LEMMA FunctionBySteps ==
  ASSUME NEW n \in Nat, NEW S, NEW s0 \in S, NEW h \in [1 .. n -> [S -> S]]
  PROVE  \E f : IsBySteps(f, n, S, s0, h)
<1> DEFINE Upto(m) == \E f \in [0 .. m -> S] :
             f[0] = s0 /\ \A k \in 1 .. m : f[k] = h[k][f[k - 1]]
           T == {m \in 0 .. n : ~ Upto(m)}
<1>1. ASSUME T # {} PROVE FALSE
  <2>1. T \in SUBSET Nat
    OBVIOUS
  <2>2. PICK m \in T : \A k \in T : m <= k
    <3> HIDE DEF T
    <3>1. QED
      BY <1>1, <2>1, NatMinimum
  <2>3. m \in 0 .. n /\ ~ Upto(m)
    OBVIOUS
  <2>4. Upto(0)
    <3>1. [k \in 0 .. 0 |-> s0] \in [0 .. 0 -> S]
      OBVIOUS
    <3>2. [k \in 0 .. 0 |-> s0][0] = s0
      OBVIOUS
    <3>3. 1 .. 0 = {}
      OBVIOUS
    <3>4. QED
      BY <3>1, <3>2, <3>3, Zenon
  <2>5. m # 0
    BY <2>3, <2>4
  <2>6. Upto(m - 1)
    <3>1. m - 1 \in 0 .. n /\ ~ (m <= m - 1)
      BY <2>3, <2>5
    <3>2. m - 1 \notin T
      BY <2>2, <3>1
    <3> HIDE DEF Upto
    <3>3. QED
      BY <3>1, <3>2
  <2>7. PICK f \in [0 .. m - 1 -> S] :
          f[0] = s0 /\ \A k \in 1 .. m - 1 : f[k] = h[k][f[k - 1]]
    BY <2>6
  <2> DEFINE g == [k \in 0 .. m |-> IF k = m THEN h[m][f[m - 1]] ELSE f[k]]
  <2>8. f[m - 1] \in S /\ m \in 1 .. n
    BY <2>3, <2>5, <2>7
  <2>9. g \in [0 .. m -> S]
    BY <2>3, <2>7, <2>8
  <2>10. g[0] = s0
    BY <2>3, <2>5, <2>7
  <2>11. ASSUME NEW k \in 1 .. m PROVE g[k] = h[k][g[k - 1]]
    <3>1. CASE k = m
      BY <2>3, <2>5, <3>1
    <3>2. CASE k # m
      BY <2>3, <2>7, <3>2
    <3>3. QED
      BY <3>1, <3>2
  <2> HIDE DEF g
  <2>12. QED
    BY <2>3, <2>9, <2>10, <2>11
<1>2. n \in 0 .. n
  OBVIOUS
<1> HIDE DEF T, Upto
<1>3. n \notin T
  BY <1>1
<1>4. Upto(n)
  BY <1>2, <1>3, Zenon DEF T
<1>5. QED
  BY <1>4 DEF Upto, IsBySteps

\* A pool of a list has two uint64.
LEMMA PoolTyped ==
  ASSUME NEW pools \in Seq(VirtualPersonPool), NEW k \in 1 .. Len(pools)
  PROVE  /\ pools[k] \in VirtualPersonPool
         /\ pools[k].population_offset \in 0 .. Word - 1
         /\ pools[k].total_population \in 0 .. Word - 1
         /\ pools[k].population_offset \in Nat
         /\ pools[k].total_population \in Nat
<1>1. pools[k] \in VirtualPersonPool
  OBVIOUS
<1>2. Word \in Nat
  BY WidthsAssumption
<1>3. QED
  BY <1>1, <1>2 DEF VirtualPersonPool, UInt64

\* The offsets into the population: they add up.
LEMMA PopulationFacts ==
  ASSUME NEW pools \in Seq(VirtualPersonPool)
  PROVE  /\ Population(pools) \in [0 .. Len(pools) -> Nat]
         /\ Population(pools)[0] = 0
         /\ \A k \in 1 .. Len(pools) :
              Population(pools)[k]
                = Population(pools)[k - 1] + pools[k].total_population
<1> DEFINE n == Len(pools)
           a(k) == pools[k].total_population
           h == [k \in 1 .. n |-> [s \in Nat |-> s + a(k)]]
<1>1. n \in Nat /\ \A k \in 1 .. n : a(k) \in Nat
  BY PoolTyped
<1>2. \E f : f = [k \in 0 .. n |-> IF k = 0 THEN 0 ELSE f[k - 1] + a(k)]
  <2>1. h \in [1 .. n -> [Nat -> Nat]]
    BY <1>1
  <2>2. \A k \in 1 .. n, s \in Nat : h[k][s] = s + a(k)
    OBVIOUS
  <2> HIDE DEF h, a, n
  <2>3. 0 \in Nat /\ n \in Nat
    BY <1>1
  <2>4. PICK f : /\ f \in [0 .. n -> Nat] /\ f[0] = 0
                 /\ \A k \in 1 .. n : f[k] = h[k][f[k - 1]]
    <3>1. \E f : IsBySteps(f, n, Nat, 0, h)
      BY <2>1, <2>3, FunctionBySteps
    <3>2. QED
      BY <3>1 DEF IsBySteps
  <2>5. ASSUME NEW k \in 0 .. n
        PROVE  f[k] = IF k = 0 THEN 0 ELSE f[k - 1] + a(k)
    <3>1. CASE k = 0
      BY <2>4, <3>1
    <3>2. CASE k # 0
      <4>1. k \in 1 .. n /\ k - 1 \in 0 .. n
        BY <1>1, <3>2
      <4>2. f[k - 1] \in Nat
        BY <2>4, <4>1
      <4>3. QED
        BY <2>2, <2>4, <3>2, <4>1, <4>2
    <3>3. QED
      BY <3>1, <3>2
  <2>6. f = [k \in 0 .. n |-> IF k = 0 THEN 0 ELSE f[k - 1] + a(k)]
    BY <2>4, <2>5
  <2>7. QED
    BY <2>6
<1> DEFINE u == Population(pools)
<1>3. u = CHOOSE f : f = [k \in 0 .. n |-> IF k = 0 THEN 0 ELSE f[k - 1] + a(k)]
  BY DEF Population
<1> HIDE DEF u, a, n, h
<1>4. u = [k \in 0 .. n |-> IF k = 0 THEN 0 ELSE u[k - 1] + a(k)]
  BY <1>2, <1>3, Zenon
<1>5. \A k \in 0 .. n : u[k] = IF k = 0 THEN 0 ELSE u[k - 1] + a(k)
  BY <1>4, Zenon
<1>6. u[0] = 0 /\ \A k \in 1 .. n : u[k] = u[k - 1] + a(k)
  BY <1>1, <1>5
<1> DEFINE T == {k \in 0 .. n : u[k] \notin Nat}
<1>7. ASSUME T # {} PROVE FALSE
  <2>1. PICK m \in T : \A k \in T : m <= k
    <3>1. T \in SUBSET Nat
      BY <1>1
    <3>2. QED
      BY <1>7, <3>1, NatMinimum
  <2>2. m \in 0 .. n /\ u[m] \notin Nat /\ m # 0
    BY <1>6, <2>1
  <2>3. u[m - 1] \in Nat
    BY <1>1, <2>1, <2>2
  <2>4. QED
    BY <1>1, <1>6, <2>2, <2>3
<1>8. u \in [0 .. n -> Nat]
  BY <1>4, <1>7
<1>9. QED
  BY <1>6, <1>8 DEF u, n, a

\* A longer prefix of the pools has no fewer persons.
LEMMA PopulationGrows ==
  ASSUME NEW pools \in Seq(VirtualPersonPool),
         NEW j \in 0 .. Len(pools), NEW k \in j .. Len(pools)
  PROVE  Population(pools)[j] <= Population(pools)[k]
<1> DEFINE u == Population(pools)
           n == Len(pools)
           T == {m \in j .. n : ~ (u[j] <= u[m])}
<1>1. n \in Nat /\ j \in Nat /\ \A m \in 1 .. n : pools[m].total_population \in Nat
  BY PoolTyped
<1>2. /\ u \in [0 .. n -> Nat]
      /\ \A m \in 1 .. n : u[m] = u[m - 1] + pools[m].total_population
  BY PopulationFacts
<1> HIDE DEF u, n
<1>3. ASSUME T # {} PROVE FALSE
  <2>1. PICK m \in T : \A i \in T : m <= i
    <3>1. T \in SUBSET Nat
      BY <1>1
    <3>2. QED
      BY <1>3, <3>1, NatMinimum
  <2>2. m \in j .. n /\ ~ (u[j] <= u[m])
    BY <2>1
  <2>3. m # j /\ m - 1 \in j .. n
    <3>1. u[j] <= u[j]
      <4>1. u[j] \in Nat
        BY <1>2, <1>1 DEF n
      <4>2. QED
        BY <4>1
    <3>2. QED
      BY <1>1, <2>2, <3>1
  <2>4. u[j] <= u[m - 1]
    BY <1>1, <2>1, <2>2, <2>3
  <2>5. m \in 1 .. n
    BY <1>1, <2>2, <2>3
  <2>6. u[m] = u[m - 1] + pools[m].total_population
    BY <1>2, <2>5
  <2>7. u[j] \in Nat /\ u[m - 1] \in Nat
    <3>1. j \in 0 .. n /\ m - 1 \in 0 .. n
      BY <1>1, <2>5 DEF n
    <3>2. QED
      BY <1>2, <3>1
  <2>8. QED
    BY <1>1, <2>2, <2>4, <2>5, <2>6, <2>7
<1>4. QED
  BY <1>3 DEF n, u

\* A last pool adds its population.
LEMMA PopulationOfAppend ==
  ASSUME NEW pools \in Seq(VirtualPersonPool), NEW p \in VirtualPersonPool
  PROVE  Population(Append(pools, p))[Len(pools) + 1]
           = Population(pools)[Len(pools)] + p.total_population
<1> DEFINE q == Append(pools, p)
           n == Len(pools)
           u == Population(pools)
           v == Population(q)
           T == {m \in 0 .. n : v[m] # u[m]}
<1>1. n \in Nat /\ q \in Seq(VirtualPersonPool) /\ Len(q) = n + 1
  OBVIOUS
<1>2. q[n + 1] = p /\ \A m \in 1 .. n : q[m] = pools[m]
  OBVIOUS
<1>3. u[0] = 0 /\ \A m \in 1 .. n : u[m] = u[m - 1] + pools[m].total_population
  BY PopulationFacts
<1>4. v[0] = 0 /\ \A m \in 1 .. n + 1 : v[m] = v[m - 1] + q[m].total_population
  <2> HIDE DEF q
  <2>1. QED
    BY <1>1, PopulationFacts
<1> HIDE DEF q, u, v, n
<1>5. ASSUME T # {} PROVE FALSE
  <2>1. PICK m \in T : \A i \in T : m <= i
    <3>1. T \in SUBSET Nat
      BY <1>1
    <3>2. QED
      BY <1>5, <3>1, NatMinimum
  <2>2. m \in 0 .. n /\ v[m] # u[m]
    BY <2>1
  <2>3. m \in 1 .. n /\ m \in 1 .. n + 1
    BY <1>1, <1>3, <1>4, <2>2
  <2>4. v[m - 1] = u[m - 1]
    BY <1>1, <2>1, <2>2, <2>3
  <2>5. QED
    BY <1>2, <1>3, <1>4, <2>2, <2>3, <2>4
<1>6. v[n] = u[n]
  BY <1>1, <1>5
<1>7. v[n + 1] = v[n] + q[n + 1].total_population
  BY <1>1, <1>4
<1>8. QED
  BY <1>2, <1>6, <1>7 DEF n, u, v, q

\* What the loop of Build has kept of the first k pools: those with persons, in
\* places that at records, and with them all the persons.
Keeps(kept, pools, k) ==
  /\ kept \in Seq(VirtualPersonPool)
  /\ Population(kept)[Len(kept)] = Population(pools)[k]
  /\ \A j \in 1 .. Len(kept) : kept[j].total_population # 0
  /\ \E at \in [1 .. Len(kept) -> 1 .. k] :
       /\ \A i, j \in 1 .. Len(kept) : at[i] = at[j] => i = j
       /\ \A j \in 1 .. Len(kept) : kept[j] = pools[at[j]]
       /\ \A i \in 1 .. k : pools[i].total_population # 0 =>
            \E j \in 1 .. Len(kept) : at[j] = i

\* An empty pool is passed over.
LEMMA EmptyPoolPassed ==
  ASSUME NEW pools \in Seq(VirtualPersonPool), NEW k \in 1 .. Len(pools),
         pools[k].total_population = 0, NEW kept, Keeps(kept, pools, k - 1)
  PROVE  Keeps(kept, pools, k)
<1> DEFINE m == Len(kept)
<1>1. /\ kept \in Seq(VirtualPersonPool)
      /\ Population(kept)[m] = Population(pools)[k - 1]
      /\ \A j \in 1 .. m : kept[j].total_population # 0
  BY DEF Keeps
<1>2. PICK at \in [1 .. m -> 1 .. k - 1] :
        /\ \A i, j \in 1 .. m : at[i] = at[j] => i = j
        /\ \A j \in 1 .. m : kept[j] = pools[at[j]]
        /\ \A i \in 1 .. k - 1 : pools[i].total_population # 0 =>
             \E j \in 1 .. m : at[j] = i
  BY DEF Keeps
<1> HIDE DEF m
<1>3. Population(pools)[k] = Population(pools)[k - 1]
  <2>1. /\ Population(pools) \in [0 .. Len(pools) -> Nat]
        /\ Population(pools)[k] = Population(pools)[k - 1] + pools[k].total_population
    BY PopulationFacts
  <2>2. Population(pools)[k - 1] \in Nat
    BY <2>1
  <2>3. QED
    BY <2>1, <2>2
<1>4. at \in [1 .. m -> 1 .. k]
  BY <1>2
<1>5. \A i \in 1 .. k : pools[i].total_population # 0 =>
        \E j \in 1 .. m : at[j] = i
  <2>1. \A i \in 1 .. k : i = k \/ i \in 1 .. k - 1
    OBVIOUS
  <2>2. QED
    BY <1>2, <2>1
<1>6. QED
  BY <1>1, <1>2, <1>3, <1>4, <1>5, Zenon DEF Keeps, m

\* Another pool comes last.
LEMMA PoolKept ==
  ASSUME NEW pools \in Seq(VirtualPersonPool), NEW k \in 1 .. Len(pools),
         pools[k].total_population # 0, NEW kept, Keeps(kept, pools, k - 1)
  PROVE  Keeps(Append(kept, pools[k]), pools, k)
<1> DEFINE m == Len(kept)
           next == Append(kept, pools[k])
<1>1. /\ kept \in Seq(VirtualPersonPool)
      /\ Population(kept)[m] = Population(pools)[k - 1]
      /\ \A j \in 1 .. m : kept[j].total_population # 0
  BY DEF Keeps
<1>2. PICK at \in [1 .. m -> 1 .. k - 1] :
        /\ \A i, j \in 1 .. m : at[i] = at[j] => i = j
        /\ \A j \in 1 .. m : kept[j] = pools[at[j]]
        /\ \A i \in 1 .. k - 1 : pools[i].total_population # 0 =>
             \E j \in 1 .. m : at[j] = i
  BY DEF Keeps
<1>3. pools[k] \in VirtualPersonPool
  BY PoolTyped
<1>4. /\ next \in Seq(VirtualPersonPool) /\ Len(next) = m + 1 /\ m \in Nat
      /\ next[m + 1] = pools[k] /\ \A j \in 1 .. m : next[j] = kept[j]
  BY <1>1, <1>3
<1>5. Population(next)[m + 1] = Population(pools)[k]
  <2>1. Population(pools)[k] = Population(pools)[k - 1] + pools[k].total_population
    BY PopulationFacts
  <2>2. Population(next)[m + 1] = Population(kept)[m] + pools[k].total_population
    BY <1>1, <1>3, PopulationOfAppend
  <2>3. QED
    BY <1>1, <2>1, <2>2
<1> HIDE DEF m, next
<1>6. \A j \in 1 .. m + 1 : j = m + 1 \/ (j \in 1 .. m /\ j # m + 1)
  BY <1>4
<1>7. \A j \in 1 .. m + 1 : next[j].total_population # 0
  BY <1>1, <1>4, <1>6
<1> DEFINE to == [j \in 1 .. m + 1 |-> IF j = m + 1 THEN k ELSE at[j]]
<1>8. /\ m + 1 \in 1 .. m + 1 /\ to[m + 1] = k
      /\ \A j \in 1 .. m : /\ j \in 1 .. m + 1 /\ to[j] = at[j]
                           /\ at[j] \in 1 .. k /\ at[j] # k
  BY <1>2, <1>4
<1>9. to \in [1 .. m + 1 -> 1 .. k]
  BY <1>6, <1>8
<1> HIDE DEF to
<1>10. \A i, j \in 1 .. m + 1 : to[i] = to[j] => i = j
  BY <1>2, <1>6, <1>8
<1>11. \A j \in 1 .. m + 1 : next[j] = pools[to[j]]
  BY <1>2, <1>4, <1>6, <1>8
<1>12. \A i \in 1 .. k : pools[i].total_population # 0 =>
         \E j \in 1 .. m + 1 : to[j] = i
  <2>1. \A i \in 1 .. k : i = k \/ i \in 1 .. k - 1
    OBVIOUS
  <2>2. QED
    BY <1>2, <1>8, <2>1
<1>13. Keeps(next, pools, k)
  <2>1. Len(next) = m + 1
    BY <1>4
  <2>2. \E x \in [1 .. Len(next) -> 1 .. k] :
          /\ \A i, j \in 1 .. Len(next) : x[i] = x[j] => i = j
          /\ \A j \in 1 .. Len(next) : next[j] = pools[x[j]]
          /\ \A i \in 1 .. k : pools[i].total_population # 0 =>
               \E j \in 1 .. Len(next) : x[j] = i
    <3>1. to \in [1 .. Len(next) -> 1 .. k]
      BY <1>9, <2>1
    <3>2. /\ \A i, j \in 1 .. Len(next) : to[i] = to[j] => i = j
          /\ \A j \in 1 .. Len(next) : next[j] = pools[to[j]]
          /\ \A i \in 1 .. k : pools[i].total_population # 0 =>
               \E j \in 1 .. Len(next) : to[j] = i
      BY <1>10, <1>11, <1>12, <2>1
    <3>3. QED
      BY <3>1, <3>2
  <2>3. QED
    BY <1>4, <1>5, <1>7, <2>1, <2>2 DEF Keeps
<1>14. QED
  BY <1>13 DEF next

\* So the loop of Build keeps the pools that have persons.
LEMMA NonEmptyKeeps ==
  ASSUME NEW pools \in Seq(VirtualPersonPool)
  PROVE  Keeps(NonEmpty(pools), pools, Len(pools))
<1> DEFINE n == Len(pools)
           S == Seq(VirtualPersonPool)
           step(k, s) == IF pools[k].total_population = 0 THEN s
                         ELSE Append(s, pools[k])
           h == [k \in 1 .. n |-> [s \in S |-> step(k, s)]]
           IsLoop(f) == f = [k \in 0 .. n |->
                               IF k = 0 THEN <<>>
                               ELSE IF pools[k].total_population = 0
                               THEN f[k - 1] ELSE Append(f[k - 1], pools[k])]
<1>1. n \in Nat /\ \A k \in 1 .. n : pools[k] \in VirtualPersonPool
  BY PoolTyped
<1>2. \E f : IsLoop(f)
  <2>1. \A k \in 1 .. n, s \in S : step(k, s) \in S
    BY <1>1
  <2>2. h \in [1 .. n -> [S -> S]]
    BY <2>1
  <2>3. \A k \in 1 .. n, s \in S : h[k][s] = step(k, s)
    OBVIOUS
  <2>4. <<>> \in S
    OBVIOUS
  <2> HIDE DEF h, S, n
  <2>5. PICK f : IsBySteps(f, n, S, <<>>, h)
    BY <1>1, <2>2, <2>4, FunctionBySteps
  <2>6. /\ f \in [0 .. n -> S] /\ f[0] = <<>>
        /\ \A k \in 1 .. n : f[k] = h[k][f[k - 1]]
    BY <2>5 DEF IsBySteps
  <2>7. ASSUME NEW k \in 0 .. n
        PROVE  f[k] = IF k = 0 THEN <<>>
                      ELSE IF pools[k].total_population = 0
                      THEN f[k - 1] ELSE Append(f[k - 1], pools[k])
    <3>1. CASE k = 0
      BY <2>6, <3>1
    <3>2. CASE k # 0
      <4>1. k \in 1 .. n /\ k - 1 \in 0 .. n
        BY <1>1, <3>2
      <4>2. f[k - 1] \in S
        BY <2>6, <4>1
      <4>3. f[k] = step(k, f[k - 1])
        BY <2>3, <2>6, <4>1, <4>2
      <4>4. QED
        BY <3>2, <4>3
    <3>3. QED
      BY <3>1, <3>2
  <2>8. IsLoop(f)
    BY <2>6, <2>7
  <2>9. QED
    BY <2>8
<1> DEFINE u == CHOOSE f : IsLoop(f)
<1>3. NonEmpty(pools) = u[n]
  BY DEF NonEmpty
<1>4. IsLoop(u)
  <2> HIDE DEF IsLoop
  <2>1. QED
    BY <1>2, Zenon
<1> HIDE DEF u, n, h, S
<1>5. \A k \in 0 .. n : u[k] = IF k = 0 THEN <<>>
                               ELSE IF pools[k].total_population = 0
                               THEN u[k - 1] ELSE Append(u[k - 1], pools[k])
  BY <1>4, Zenon
<1> DEFINE T == {k \in 0 .. n : ~ Keeps(u[k], pools, k)}
<1>6. Keeps(u[0], pools, 0)
  <2>1. u[0] = <<>>
    BY <1>1, <1>5
  <2>2. <<>> \in Seq(VirtualPersonPool) /\ Len(<<>>) = 0
    OBVIOUS
  <2>3. Population(<<>>)[0] = Population(pools)[0]
    <3>1. Population(<<>>)[0] = 0
      BY <2>2, PopulationFacts
    <3>2. Population(pools)[0] = 0
      BY PopulationFacts
    <3>3. QED
      BY <3>1, <3>2
  <2>4. 1 .. 0 = {} /\ [j \in 1 .. 0 |-> j] \in [1 .. 0 -> 1 .. 0]
    OBVIOUS
  <2>5. QED
    BY <2>1, <2>2, <2>3, <2>4 DEF Keeps
<1>7. ASSUME T # {} PROVE FALSE
  <2>1. PICK k \in T : \A i \in T : k <= i
    <3>1. T \in SUBSET Nat
      BY <1>1
    <3> HIDE DEF T
    <3>2. QED
      BY <1>7, <3>1, NatMinimum
  <2>2. k \in 0 .. n /\ ~ Keeps(u[k], pools, k)
    BY <2>1
  <2>3. k # 0
    BY <1>6, <2>2
  <2>4. /\ k \in 1 .. n /\ k \in 1 .. Len(pools) /\ k - 1 \in 0 .. n
        /\ ~ (k <= k - 1)
    BY <1>1, <2>2, <2>3 DEF n
  <2>5. Keeps(u[k - 1], pools, k - 1)
    BY <2>1, <2>4
  <2>6. CASE pools[k].total_population = 0
    <3>1. u[k] = u[k - 1]
      BY <1>5, <2>2, <2>3, <2>6
    <3>2. QED
      BY <2>2, <2>4, <2>5, <2>6, <3>1, EmptyPoolPassed
  <2>7. CASE pools[k].total_population # 0
    <3>1. u[k] = Append(u[k - 1], pools[k])
      BY <1>5, <2>2, <2>3, <2>7
    <3>2. QED
      BY <2>2, <2>4, <2>5, <2>7, <3>1, PoolKept
  <2>8. QED
    BY <2>6, <2>7
<1>8. n \in 0 .. n
  BY <1>1
<1> HIDE DEF T
<1>9. n \notin T
  BY <1>7
<1>10. Keeps(u[n], pools, n)
  BY <1>8, <1>9 DEF T
<1>11. QED
  BY <1>3, <1>10 DEF n

\* The cast to int32 keeps what fits.
LEMMA Int32Keeps ==
  ASSUME NEW u \in Nat, u < IntHalf PROVE Int32(u) = u
<1>1. IntHalf \in Nat \ {0}
  BY WidthsAssumption
<1>2. u % (2 * IntHalf) = u
  BY <1>1
<1>3. QED
  BY <1>1, <1>2 DEF Int32

\* No cast to int32 is larger than what is cast.
LEMMA Int32Bounds ==
  ASSUME NEW u \in Nat PROVE Int32(u) \in Int /\ Int32(u) <= u /\ Int32(u) < IntHalf
<1>1. IntHalf \in Nat \ {0}
  BY WidthsAssumption
<1> DEFINE low == u % (2 * IntHalf)
<1>2. low \in 0 .. (2 * IntHalf) - 1
  BY <1>1
<1>3. low <= u
  <2>1. CASE u < 2 * IntHalf
    <3>1. low = u
      BY <1>1, <2>1
    <3>2. QED
      BY <3>1
  <2>2. CASE ~ (u < 2 * IntHalf)
    BY <1>1, <1>2, <2>2
  <2>3. QED
    BY <2>1, <2>2
<1> HIDE DEF low
<1>4. Int32(u) = IF low < IntHalf THEN low ELSE low - (2 * IntHalf)
  BY DEF Int32, low
<1>5. QED
  BY <1>1, <1>2, <1>3, <1>4

\* The population index of a key lies in the population, if the cast to int32
\* leaves any.
LEMMA IndexOfKey ==
  ASSUME NEW k \in Keys, NEW t \in Nat, Int32(t) > 0
  PROVE  /\ JumpConsistentHash(k, Int32(t)) \in 0 .. t - 1
         /\ JumpConsistentHash(k, Int32(t)) % Word = JumpConsistentHash(k, Int32(t))
<1>1. IntHalf \in Nat \ {0} /\ Word \in Nat /\ 2 * IntHalf <= Word
  BY WidthsAssumption
<1>2. Int32(t) \in Nat \ {0} /\ Int32(t) <= t /\ Int32(t) < IntHalf
  BY Int32Bounds
<1> DEFINE b == JumpConsistentHash(k, Int32(t))
<1>3. b \in 0 .. Int32(t) - 1
  BY <1>2, JumpLandsLast
<1> HIDE DEF b
<1>4. b \in Nat /\ b < Word /\ b \in 0 .. t - 1
  BY <1>1, <1>2, <1>3
<1>5. b % Word = b
  BY <1>1, <1>4
<1>6. QED
  BY <1>4, <1>5 DEF b

---------------------------------------------------------------------------
(* A population leaf.                                                      *)

\* What the offsets of a compiled leaf have in common: they start at zero, and
\* no pool is empty.
IsCompiled(l, pools) ==
  LET q == NonEmpty(pools)
      u == Population(q)
  IN  /\ l.kind = "population"
      /\ q \in Seq(VirtualPersonPool) /\ q # <<>>
      /\ l.total_population = u[Len(q)]
      /\ DOMAIN l.pools = 1 .. Len(q) /\ Len(l.pools) = Len(q)
      /\ \A k \in 1 .. Len(q) :
           /\ l.pools[k].virtual_people_id_offset = q[k].population_offset
           /\ l.pools[k].population_index_offset = u[k - 1]

\* A leaf that gives ids as a population leaf does has been compiled.
LEMMA PopulationLeafIsCompiled ==
  ASSUME NEW c \in Configs, NEW lib \in Libraries,
         Built(c)[lib].kind = "population"
  PROVE  c.kind = "population" /\ IsCompiled(Built(c)[lib], c.pools)
<1> DEFINE q == NonEmpty(c.pools)
           l == Built(c)[lib]
<1>1. c.kind = "population"
  <2>1. CASE c.kind = "ranked"
    <3>1. l = RankedLeaf(lib, c)
      BY <2>1 DEF Built
    <3>2. l.kind \in {"ranked", "refused"}
      BY <3>1 DEF RankedLeaf, Refused
    <3>3. QED
      BY <3>2
  <2>2. QED
    BY <2>1, WidthsAssumption
<1>2. l = PopulationLeaf(lib, c.pools)
  BY <1>1 DEF Built
<1>3. l = CompiledPools(c.pools)
  BY <1>2 DEF PopulationLeaf, EmptyPool, Refused
<1>4. q # <<>>
  BY <1>3 DEF CompiledPools, Refused
<1>5. l = [kind |-> "population",
           total_population |-> Population(q)[Len(q)],
           pools |-> [k \in DOMAIN q |->
                        [virtual_people_id_offset |-> q[k].population_offset,
                         population_index_offset |-> Population(q)[k - 1]]]]
  BY <1>3, <1>4 DEF CompiledPools
<1>6. c.pools \in Seq(VirtualPersonPool)
  BY WidthsAssumption
<1>7. q \in Seq(VirtualPersonPool)
  BY <1>6, NonEmptyKeeps DEF Keeps
<1> HIDE DEF q, l
<1>8. DOMAIN q = 1 .. Len(q) /\ Len(q) \in Nat
  BY <1>7
<1>9. /\ l.kind = "population" /\ l.total_population = Population(q)[Len(q)]
      /\ DOMAIN l.pools = 1 .. Len(q)
      /\ \A k \in 1 .. Len(q) :
           /\ l.pools[k].virtual_people_id_offset = q[k].population_offset
           /\ l.pools[k].population_index_offset = Population(q)[k - 1]
  BY <1>5, <1>8
<1>10. Len(l.pools) = Len(q)
  BY <1>8, <1>9
<1>11. QED
  BY <1>1, <1>4, <1>7, <1>9, <1>10 DEF IsCompiled, q, l

\* The offsets of a compiled leaf increase from pool to pool.
LEMMA OffsetsIncrease ==
  ASSUME NEW c \in Configs
  PROVE  LET q == NonEmpty(c.pools)
             u == Population(q)
         IN  /\ q \in Seq(VirtualPersonPool) /\ Len(q) \in Nat
             /\ u \in [0 .. Len(q) -> Nat] /\ u[0] = 0
             /\ \A j \in 1 .. Len(q) :
                  u[j] = u[j - 1] + q[j].total_population /\ u[j - 1] < u[j]
             /\ \A j \in 0 .. Len(q), k \in 0 .. Len(q) : j < k => u[j] < u[k]
<1> DEFINE q == NonEmpty(c.pools)
           u == Population(q)
<1>1. c.pools \in Seq(VirtualPersonPool)
  BY WidthsAssumption
<1>2. /\ q \in Seq(VirtualPersonPool)
      /\ \A j \in 1 .. Len(q) : q[j].total_population # 0
  BY <1>1, NonEmptyKeeps DEF Keeps
<1> HIDE DEF q
<1>3. Len(q) \in Nat
  BY <1>2
<1>4. /\ u \in [0 .. Len(q) -> Nat] /\ u[0] = 0
      /\ \A j \in 1 .. Len(q) : u[j] = u[j - 1] + q[j].total_population
  BY <1>2, PopulationFacts
<1>5. \A j \in 0 .. Len(q) : \A k \in j .. Len(q) : u[j] <= u[k]
  BY <1>2, PopulationGrows
<1> HIDE DEF u
<1>6. ASSUME NEW j \in 1 .. Len(q) PROVE u[j - 1] < u[j]
  <2>1. q[j].total_population \in Nat \ {0}
    BY <1>2, PoolTyped
  <2>2. u[j - 1] \in Nat
    BY <1>3, <1>4
  <2>3. QED
    BY <1>4, <2>1, <2>2
<1>7. ASSUME NEW j \in 0 .. Len(q), NEW k \in 0 .. Len(q), j < k PROVE u[j] < u[k]
  <2>1. j + 1 \in 1 .. Len(q) /\ k \in j + 1 .. Len(q) /\ j + 1 \in 0 .. Len(q)
    BY <1>3, <1>7
  <2>2. u[j] < u[j + 1]
    <3>1. (j + 1) - 1 = j
      OBVIOUS
    <3>2. QED
      BY <1>6, <2>1, <3>1
  <2>3. u[j + 1] <= u[k]
    BY <1>5, <2>1
  <2>4. u[j] \in Nat /\ u[j + 1] \in Nat /\ u[k] \in Nat
    BY <1>4, <2>1
  <2>5. QED
    BY <2>2, <2>3, <2>4
<1>8. QED
  BY <1>2, <1>3, <1>4, <1>6, <1>7 DEF q, u

\* The place of the pool that a population index falls into: both libraries find
\* it, and the last pool takes every index that is too large.
LEMMA PoolOfIndex ==
  ASSUME NEW c \in Configs, NEW l, IsCompiled(l, c.pools), NEW index \in Nat
  PROVE  LET q == NonEmpty(c.pools)
             u == Population(q)
         IN  \E j \in 1 .. Len(q) :
               /\ PoolCc(l.pools, index) = j /\ PoolKt(l.pools, index) = j
               /\ u[j - 1] <= index /\ (j < Len(q) => index < u[j])
<1> DEFINE q == NonEmpty(c.pools)
           u == Population(q)
           n == Len(q)
           Not == {k \in 1 .. n : u[k - 1] <= index}
           Larger == {k \in 1 .. n : index < u[k - 1]}
<1>1. /\ n \in Nat /\ u \in [0 .. n -> Nat] /\ u[0] = 0
      /\ \A j, k \in 0 .. n : j < k => u[j] < u[k]
  BY OffsetsIncrease
<1>2. /\ q # <<>> /\ q \in Seq(VirtualPersonPool)
      /\ DOMAIN l.pools = 1 .. n /\ Len(l.pools) = n
      /\ \A k \in 1 .. n : l.pools[k].population_index_offset = u[k - 1]
  BY DEF IsCompiled
<1>3. n # 0
  BY <1>2
<1> HIDE DEF u, q, n
<1>4. \A k \in 1 .. n : k - 1 \in 0 .. n /\ u[k - 1] \in Nat
  BY <1>1
<1>5. PICK j \in Not : \A k \in Not : k <= j
  <2>1. 1 \in Not
    BY <1>1, <1>3
  <2>2. Not \in SUBSET Nat /\ \A k \in Not : k <= n
    BY <1>1
  <2> HIDE DEF Not
  <2>3. QED
    BY <1>1, <2>1, <2>2, NatMaximum
<1>6. j \in 1 .. n /\ j \in Nat /\ u[j - 1] <= index
  BY <1>1, <1>5
<1>7. ASSUME NEW k \in 1 .. n PROVE k \in Not <=> k <= j
  <2>1. CASE k <= j
    <3>1. u[k - 1] <= u[j - 1]
      <4>1. k - 1 < j - 1 \/ k = j
        BY <1>6, <2>1
      <4>2. QED
        BY <1>1, <1>4, <1>6, <4>1
    <3>2. QED
      BY <1>4, <1>6, <2>1, <3>1
  <2>2. CASE ~ (k <= j)
    BY <1>5, <2>2
  <2>3. QED
    BY <2>1, <2>2
<1>8. Not = 1 .. j
  BY <1>1, <1>6, <1>7
<1>9. Larger = j + 1 .. n
  <2>1. \A k \in 1 .. n : k \in Larger <=> k \notin Not
    BY <1>4
  <2>2. Larger \subseteq 1 .. n
    OBVIOUS
  <2>3. \A k \in 1 .. n : k \in Larger <=> k \in j + 1 .. n
    BY <1>1, <1>6, <1>7, <2>1
  <2>4. j + 1 .. n \subseteq 1 .. n
    BY <1>1, <1>6
  <2>5. QED
    BY <2>2, <2>3, <2>4
<1> HIDE DEF Not, Larger
<1>10. PoolCc(l.pools, index) = j
  <2>1. PoolCc(l.pools, index) = Cardinality(Not)
    BY <1>2 DEF PoolCc, Not
  <2>2. Cardinality(1 .. j) = j
    BY <1>6, FS_Interval
  <2>3. QED
    BY <1>8, <2>1, <2>2
<1>11. PoolKt(l.pools, index) = j
  <2> DEFINE least == CHOOSE k \in Larger : \A i \in Larger : k <= i
  <2>1. PoolKt(l.pools, index) = IF Larger = {} THEN n ELSE least - 1
    <3> DEFINE S == {k \in DOMAIN l.pools :
                       index < l.pools[k].population_index_offset}
    <3>1. PoolKt(l.pools, index)
            = IF S = {} THEN Len(l.pools)
              ELSE (CHOOSE k \in S : \A i \in S : k <= i) - 1
      BY DEF PoolKt
    <3>2. S = Larger /\ Len(l.pools) = n
      BY <1>2 DEF Larger
    <3> HIDE DEF S
    <3>3. QED
      BY <3>1, <3>2
  <2>2. CASE Larger = {}
    <3>1. j = n
      BY <1>1, <1>6, <1>9, <2>2
    <3>2. QED
      BY <2>1, <2>2, <3>1
  <2>3. CASE Larger # {}
    <3>1. j + 1 \in Larger /\ \A i \in Larger : j + 1 <= i
      BY <1>1, <1>6, <1>9, <2>3
    <3>2. least \in Larger /\ \A i \in Larger : least <= i
      BY <3>1, Zenon
    <3> HIDE DEF least
    <3>3. least = j + 1
      <4>1. \A i \in Larger : i \in Int
        BY <1>1, <1>6, <1>9
      <4>2. least \in Int /\ least <= j + 1 /\ j + 1 <= least
        BY <3>1, <3>2, <4>1
      <4>3. QED
        BY <1>6, <4>2
    <3>4. PoolKt(l.pools, index) = least - 1
      BY <2>1, <2>3
    <3>5. QED
      BY <1>6, <3>3, <3>4
  <2>4. QED
    BY <2>2, <2>3
<1>12. j < n => index < u[j]
  <2>1. SUFFICES ASSUME j < n PROVE index < u[j]
    OBVIOUS
  <2>2. j + 1 \in Larger /\ (j + 1) - 1 = j
    BY <1>1, <1>6, <1>9, <2>1
  <2>3. QED
    BY <2>2 DEF Larger
<1>13. QED
  BY <1>6, <1>10, <1>11, <1>12 DEF n, q, u

\* The person of a population index is that of a pool, the same in both libraries.
LEMMA PersonOfIndex ==
  ASSUME NEW c \in Configs, NEW l, IsCompiled(l, c.pools), NEW index \in Nat
  PROVE  LET q == NonEmpty(c.pools)
             u == Population(q)
         IN  \E j \in 1 .. Len(q) :
               /\ u[j - 1] <= index
               /\ index < l.total_population => index < u[j]
               /\ \A lib \in Libraries :
                    PersonAt(lib, l, index)
                      = (index - u[j - 1] + q[j].population_offset) % Word
<1> DEFINE q == NonEmpty(c.pools)
           u == Population(q)
           n == Len(q)
<1>1. PICK j \in 1 .. n :
        /\ PoolCc(l.pools, index) = j /\ PoolKt(l.pools, index) = j
        /\ u[j - 1] <= index /\ (j < n => index < u[j])
  BY PoolOfIndex
<1>2. /\ l.total_population = u[n] /\ n \in Nat
      /\ l.pools[j].virtual_people_id_offset = q[j].population_offset
      /\ l.pools[j].population_index_offset = u[j - 1]
  BY OffsetsIncrease DEF IsCompiled
<1> HIDE DEF q, u, n
<1>3. index < l.total_population => index < u[j]
  <2>1. j = n \/ j < n
    BY <1>2
  <2>2. QED
    BY <1>1, <1>2, <2>1
<1>4. ASSUME NEW lib \in Libraries
      PROVE  PersonAt(lib, l, index)
               = (index - u[j - 1] + q[j].population_offset) % Word
  BY <1>1, <1>2 DEF PersonAt
<1>5. QED
  BY <1>1, <1>3, <1>4 DEF q, u, n

\* It is one of the possible ids.
LEMMA PersonIsPossible ==
  ASSUME NEW c \in Configs, NEW lib \in Libraries, NEW l,
         IsCompiled(l, c.pools), NEW index \in 0 .. l.total_population - 1
  PROVE  \E k \in DOMAIN c.pools :
           PersonAt(lib, l, index)
             \in Range64(c.pools[k].population_offset,
                         c.pools[k].total_population)
<1> DEFINE q == NonEmpty(c.pools)
           u == Population(q)
<1>1. /\ q \in Seq(VirtualPersonPool) /\ u \in [0 .. Len(q) -> Nat] /\ Len(q) \in Nat
      /\ \A j \in 1 .. Len(q) : u[j] = u[j - 1] + q[j].total_population
  BY OffsetsIncrease
<1>2. l.total_population \in Nat
  BY <1>1 DEF IsCompiled
<1>3. index \in Nat /\ index < l.total_population
  BY <1>2
<1>4. PICK j \in 1 .. Len(q) :
        /\ u[j - 1] <= index /\ index < u[j]
        /\ PersonAt(lib, l, index)
             = (index - u[j - 1] + q[j].population_offset) % Word
  BY <1>3, PersonOfIndex
<1> DEFINE i == index - u[j - 1]
           off == q[j].population_offset
           size == q[j].total_population
<1>5. /\ u[j - 1] \in Nat /\ u[j] = u[j - 1] + size
      /\ size \in Nat /\ off \in Nat
  BY <1>1, PoolTyped
<1>6. c.pools \in Seq(VirtualPersonPool)
  BY WidthsAssumption
<1>7. PICK k \in 1 .. Len(c.pools) : q[j] = c.pools[k]
  BY <1>6, NonEmptyKeeps DEF Keeps
<1> HIDE DEF q, u
<1>8. i \in 0 .. size - 1 /\ i + off = off + i
  BY <1>3, <1>4, <1>5
<1> HIDE DEF i
<1>9. PersonAt(lib, l, index) = (off + i) % Word
  BY <1>4, <1>8 DEF i
<1>10. PersonAt(lib, l, index) \in Range64(off, size)
  BY <1>8, <1>9 DEF Range64
<1>11. k \in DOMAIN c.pools
  BY <1>6
<1>12. QED
  BY <1>7, <1>10, <1>11

---------------------------------------------------------------------------
(* The invariant: the leaves are those of the message, and the ids are what *)
(* the leaves give the key.                                                 *)

IInv ==
  /\ config \in Configs
  /\ leaf = Built(config)
  /\ \/ ids = NoIds
     \/ key \in Keys /\ ids = [lib \in Libraries |-> IdOf(lib, leaf[lib], key)]

LEMMA IInvHolds == Spec => []IInv
<1>1. Init => IInv
  BY DEF Init, IInv
<1>2. IInv /\ [Next]_vars => IInv'
  <2>1. SUFFICES ASSUME IInv, [Next]_vars PROVE IInv'
    OBVIOUS
  <2>2. ASSUME NEW c \in Configs, Build(c) PROVE IInv'
    BY <2>2 DEF Build, IInv
  <2>3. ASSUME NEW k \in Keys, Label(k) PROVE IInv'
    BY <2>1, <2>3 DEF Label, IInv
  <2>4. CASE UNCHANGED vars
    BY <2>1, <2>4 DEF vars, IInv
  <2>5. QED
    BY <2>1, <2>2, <2>3, <2>4 DEF Next
<1>3. QED
  BY <1>1, <1>2, PTL DEF Spec

\* A leaf has the populations of its pools.
LEMMA TotalPopulation ==
  ASSUME NEW c \in Configs, NEW l, IsCompiled(l, c.pools)
  PROVE  /\ l.total_population \in Nat \ {0}
         /\ l.total_population = Population(c.pools)[Len(c.pools)]
<1> DEFINE q == NonEmpty(c.pools)
           u == Population(q)
<1>1. /\ q \in Seq(VirtualPersonPool) /\ u \in [0 .. Len(q) -> Nat]
      /\ Len(q) \in Nat /\ u[0] = 0
      /\ \A j, k \in 0 .. Len(q) : j < k => u[j] < u[k]
  BY OffsetsIncrease
<1>2. q # <<>> /\ l.total_population = u[Len(q)]
  BY DEF IsCompiled
<1>3. c.pools \in Seq(VirtualPersonPool)
  BY WidthsAssumption
<1>4. u[Len(q)] = Population(c.pools)[Len(c.pools)]
  BY <1>3, NonEmptyKeeps DEF Keeps
<1>5. Len(q) # 0
  BY <1>1, <1>2
<1> HIDE DEF q, u
<1>6. u[Len(q)] \in Nat /\ u[0] < u[Len(q)]
  BY <1>1, <1>5
<1>7. QED
  BY <1>1, <1>2, <1>4, <1>6

\* The cast of a total leaves some persons, or it fails.
LEMMA CastLeavesPersons ==
  ASSUME NEW c \in Configs, NEW l, IsCompiled(l, c.pools), ~ CastFails(l)
  PROVE  Int32(l.total_population) > 0
<1>1. l.total_population \in Nat
  BY TotalPopulation
<1>2. Int32(l.total_population) \in Int
  BY <1>1, WidthsAssumption DEF Int32
<1>3. QED
  BY <1>2 DEF CastFails

\* The id of a key in a population leaf, where the cast leaves a population.
LEMMA PersonOfKey ==
  ASSUME NEW c \in Configs, NEW lib \in Libraries, NEW l, NEW k \in Keys,
         IsCompiled(l, c.pools), Int32(l.total_population) > 0
  PROVE  LET b == JumpConsistentHash(k, Int32(l.total_population))
         IN  /\ IdOf(lib, l, k) = PersonAt(lib, l, b)
             /\ b \in 0 .. l.total_population - 1
<1>1. l.total_population \in Nat
  BY TotalPopulation
<1>2. l.kind = "population"
  BY DEF IsCompiled
<1>3. QED
  BY <1>1, <1>2, IndexOfKey DEF IdOf, GetVirtualPersonId

\* An id of a population leaf is the id that its compiled pools give the key.
LEMMA IdComesFromLeaf ==
  ASSUME IInv, config.kind = "population", NEW lib \in Libraries, ids[lib] # NoId
  PROVE  /\ config \in Configs /\ key \in Keys
         /\ Built(config)[lib].kind = "population"
         /\ IsCompiled(leaf[lib], config.pools)
         /\ ids[lib] = IdOf(lib, leaf[lib], key)
<1>1. config \in Configs /\ leaf = Built(config)
  BY DEF IInv
<1>2. key \in Keys /\ ids[lib] = IdOf(lib, leaf[lib], key)
  BY DEF IInv, NoIds
<1>3. leaf[lib] = PopulationLeaf(lib, config.pools)
  BY <1>1 DEF Built
<1>4. leaf[lib].kind \in {"population", "refused", "empty"}
  BY <1>3 DEF PopulationLeaf, CompiledPools, Refused, EmptyPool
<1>5. leaf[lib].kind = "population"
  BY <1>2, <1>4 DEF IdOf
<1>6. QED
  BY <1>1, <1>2, <1>5, PopulationLeafIsCompiled

\* Whatever the pools and their sizes, no id of a population leaf lies outside
\* of them, but where the cast of the total to int32 leaves no population.
THEOREM IdsStayInPools == Spec => []InPoolsUnlessCastFails
<1>1. IInv => InPoolsUnlessCastFails
  <2>1. SUFFICES ASSUME IInv, NEW lib \in Libraries,
                        config.kind = "population", ids[lib] # NoId,
                        ~ CastFails(leaf[lib])
                 PROVE  ids[lib] \in PossibleIds(config.pools)
    BY DEF InPoolsUnlessCastFails
  <2> DEFINE l == leaf[lib]
             b == JumpConsistentHash(key, Int32(l.total_population))
  <2>2. /\ config \in Configs /\ key \in Keys /\ IsCompiled(l, config.pools)
        /\ ids[lib] = IdOf(lib, l, key)
    BY <2>1, IdComesFromLeaf
  <2>3. Int32(l.total_population) > 0
    BY <2>1, <2>2, CastLeavesPersons
  <2>4. ids[lib] = PersonAt(lib, l, b) /\ b \in 0 .. l.total_population - 1
    BY <2>2, <2>3, PersonOfKey
  <2> HIDE DEF l, b
  <2>5. \E k \in DOMAIN config.pools :
          ids[lib] \in Range64(config.pools[k].population_offset,
                               config.pools[k].total_population)
    BY <2>2, <2>4, PersonIsPossible
  <2>6. QED
    BY <2>5 DEF PossibleIds
<1>2. QED
  BY <1>1, IInvHolds, PTL

\* Whatever the C++ library builds, Kotlin builds as well, and the two give every
\* key the same id: for all pools, also those whose total the cast spoils.
THEOREM LibrariesAlwaysAgree == Spec => []LibrariesAgree
<1>1. IInv => LibrariesAgree
  <2>1. SUFFICES ASSUME IInv, leaf["cc"] # Refused
                 PROVE  leaf["kt"] = leaf["cc"] /\ ids["kt"] = ids["cc"]
    BY DEF LibrariesAgree
  <2>2. "cc" \in Libraries /\ "kt" \in Libraries
    BY DEF Libraries
  <2>3. config \in Configs /\ leaf = Built(config)
    BY <2>1 DEF IInv
  <2>4. config.kind \in {"population", "ranked"}
    BY <2>3, WidthsAssumption
  <2>5. leaf["kt"] = leaf["cc"]
    <3>1. CASE config.kind = "population"
      <4>1. /\ leaf["cc"] = PopulationLeaf("cc", config.pools)
            /\ leaf["kt"] = PopulationLeaf("kt", config.pools)
        BY <2>2, <2>3, <3>1 DEF Built
      <4>2. leaf["cc"] = CompiledPools(config.pools)
        BY <2>1, <4>1 DEF PopulationLeaf
      <4>3. leaf["cc"].kind = "population"
        BY <2>1, <4>2 DEF CompiledPools
      <4>4. ~ IsEmptyPopulationPool(config.pools)
        <5>1. IsCompiled(leaf["cc"], config.pools)
          BY <2>2, <2>3, <4>3, PopulationLeafIsCompiled
        <5>2. config.pools \in Seq(VirtualPersonPool)
          BY <2>3, WidthsAssumption
        <5>3. PICK j \in 1 .. Len(NonEmpty(config.pools)),
                   k \in 1 .. Len(config.pools) :
                /\ NonEmpty(config.pools)[j] = config.pools[k]
                /\ config.pools[k].total_population # 0
          <6>1. 1 \in 1 .. Len(NonEmpty(config.pools))
            BY <5>1 DEF IsCompiled
          <6>2. QED
            BY <5>2, <6>1, NonEmptyKeeps DEF Keeps
        <5>4. QED
          BY <5>3 DEF IsEmptyPopulationPool
      <4>5. QED
        BY <4>1, <4>2, <4>4 DEF PopulationLeaf
    <3>2. CASE config.kind = "ranked"
      <4>1. /\ leaf["cc"] = RankedLeaf("cc", config)
            /\ leaf["kt"] = RankedLeaf("kt", config)
        BY <2>2, <2>3, <3>2 DEF Built
      <4>2. QED
        BY <2>1, <4>1 DEF RankedLeaf, FitsInInt
    <3>3. QED
      BY <2>4, <3>1, <3>2
  <2>6. ids["kt"] = ids["cc"]
    <3>1. CASE ids = NoIds
      BY <2>2, <3>1 DEF NoIds
    <3>2. CASE ids # NoIds
      <4>1. /\ key \in Keys
            /\ ids["cc"] = IdOf("cc", leaf["cc"], key)
            /\ ids["kt"] = IdOf("kt", leaf["cc"], key)
        BY <2>1, <2>2, <2>5, <3>2 DEF IInv
      <4>2. CASE leaf["cc"].kind = "population"
        <5> DEFINE l == leaf["cc"]
                   index == JumpConsistentHash(key, Int32(l.total_population))
                              % Word
        <5>1. IsCompiled(l, config.pools)
          BY <2>2, <2>3, <4>2, PopulationLeafIsCompiled
        <5>2. index \in Nat
          <6>1. l.total_population \in Nat
            BY <2>3, <5>1, TotalPopulation
          <6>2. Int32(l.total_population) \in Int
            BY <6>1, Int32Bounds
          <6>3. JumpConsistentHash(key, Int32(l.total_population)) \in Int
            <7>1. CASE Int32(l.total_population) <= 0
              BY <7>1 DEF JumpConsistentHash
            <7>2. CASE ~ (Int32(l.total_population) <= 0)
              <8>1. Int32(l.total_population) \in Nat \ {0}
                BY <6>2, <7>2
              <8>2. QED
                BY <4>1, <8>1, JumpLandsLast
            <7>3. QED
              BY <7>1, <7>2
          <6>4. Word \in Nat \ {0}
            BY WidthsAssumption
          <6>5. QED
            BY <6>3, <6>4
        <5> HIDE DEF index
        <5>3. PersonAt("kt", l, index) = PersonAt("cc", l, index)
          <6> DEFINE q == NonEmpty(config.pools)
                     u == Population(q)
          <6> HIDE DEF l
          <6>1. PICK j \in 1 .. Len(q) : \A lib \in Libraries :
                  PersonAt(lib, l, index)
                    = (index - u[j - 1] + q[j].population_offset) % Word
            BY <2>3, <5>1, <5>2, PersonOfIndex
          <6>2. QED
            BY <2>2, <6>1
        <5>4. QED
          BY <4>1, <4>2, <5>3 DEF IdOf, GetVirtualPersonId, index
      <4>3. CASE leaf["cc"].kind # "population"
        BY <4>1, <4>3 DEF IdOf
      <4>4. QED
        BY <4>2, <4>3
    <3>3. QED
      BY <3>1, <3>2
  <2>7. QED
    BY <2>5, <2>6
<1>2. QED
  BY <1>1, IInvHolds, PTL

\* Every id of a pool is the person of an index that falls into that pool.
LEMMA PossibleIsPerson ==
  ASSUME NEW c \in Configs, NEW lib \in Libraries, NEW l,
         IsCompiled(l, c.pools), NEW v \in PossibleIds(c.pools)
  PROVE  v \in {PersonAt(lib, l, index) : index \in 0 .. l.total_population - 1}
<1> DEFINE q == NonEmpty(c.pools)
           u == Population(q)
           n == Len(q)
<1>1. /\ q \in Seq(VirtualPersonPool) /\ n \in Nat /\ u \in [0 .. n -> Nat]
      /\ \A j \in 1 .. n : u[j] = u[j - 1] + q[j].total_population
      /\ \A j, k \in 0 .. n : j < k => u[j] < u[k]
  BY OffsetsIncrease
<1>2. c.pools \in Seq(VirtualPersonPool)
  BY WidthsAssumption
<1>3. PICK p \in DOMAIN c.pools :
        v \in Range64(c.pools[p].population_offset, c.pools[p].total_population)
  BY DEF PossibleIds
<1>4. PICK i \in 0 .. c.pools[p].total_population - 1 :
        v = (c.pools[p].population_offset + i) % Word
  BY <1>3 DEF Range64
<1>5. p \in 1 .. Len(c.pools)
  BY <1>2
<1>6. c.pools[p].total_population \in Nat /\ c.pools[p].population_offset \in Nat
  BY <1>2, <1>5, PoolTyped
<1>7. c.pools[p].total_population # 0
  BY <1>4, <1>6
<1>8. PICK k \in 1 .. n : q[k] = c.pools[p]
  BY <1>2, <1>5, <1>7, NonEmptyKeeps DEF Keeps
<1>9. l.total_population = u[n]
  BY DEF IsCompiled
<1> HIDE DEF q, u, n
<1> DEFINE index == u[k - 1] + i
<1>10. /\ k - 1 \in 0 .. n /\ k \in 0 .. n /\ n \in 0 .. n
       /\ u[k - 1] \in Nat /\ u[k] \in Nat /\ u[n] \in Nat
  BY <1>1
<1>11. u[k] = u[k - 1] + c.pools[p].total_population
  BY <1>1, <1>8
<1>12. index \in Nat /\ index < u[k]
  BY <1>4, <1>6, <1>10, <1>11
<1>13. u[k] <= u[n]
  <2>1. k = n \/ k < n
    BY <1>1
  <2>2. QED
    BY <1>1, <1>10, <2>1
<1>14. index < l.total_population
  BY <1>9, <1>10, <1>12, <1>13
<1> HIDE DEF index
<1>15. PICK j \in 1 .. n :
         /\ u[j - 1] <= index /\ index < u[j]
         /\ PersonAt(lib, l, index)
              = (index - u[j - 1] + q[j].population_offset) % Word
  BY <1>12, <1>14, PersonOfIndex DEF q, u, n
<1>16. j = k
  <2>1. j - 1 \in 0 .. n /\ j \in 0 .. n /\ u[j - 1] \in Nat /\ u[j] \in Nat
    BY <1>1
  <2>2. ASSUME j < k PROVE FALSE
    <3>1. j = k - 1 \/ j < k - 1
      BY <1>1, <2>2
    <3>2. u[j] <= u[k - 1]
      BY <1>1, <1>10, <2>1, <3>1
    <3>3. u[k - 1] <= index
      BY <1>4, <1>6, <1>10 DEF index
    <3>4. QED
      BY <1>10, <1>12, <1>15, <2>1, <3>2, <3>3
  <2>3. ASSUME k < j PROVE FALSE
    <3>1. k = j - 1 \/ k < j - 1
      BY <1>1, <2>3
    <3>2. u[k] <= u[j - 1]
      BY <1>1, <1>10, <2>1, <3>1
    <3>3. QED
      BY <1>10, <1>12, <1>15, <2>1, <3>2
  <2>4. QED
    BY <1>1, <2>2, <2>3
<1>17. index - u[k - 1] + q[k].population_offset = c.pools[p].population_offset + i
  BY <1>4, <1>6, <1>8, <1>10 DEF index
<1>18. PersonAt(lib, l, index) = v
  BY <1>4, <1>15, <1>16, <1>17
<1>19. index \in 0 .. l.total_population - 1
  BY <1>9, <1>10, <1>12, <1>14
<1>20. QED
  BY <1>18, <1>19

\* A pool whose end wraps around has the greatest of all ids, and the end of a
\* pool that reaches a reserved id wraps around or was refused.
LEMMA ReservedByWrapping ==
  ASSUME NEW pool \in VirtualPersonPool
  PROVE  /\ EndWraps(pool) =>
              Word - 1 \in Range64(pool.population_offset, pool.total_population)
         /\ \A v \in Range64(pool.population_offset, pool.total_population) :
              /\ v >= CookieOffset
              /\ (pool.population_offset + pool.total_population) % Word
                   <= CookieOffset
              => EndWraps(pool)
<1> DEFINE off == pool.population_offset
           size == pool.total_population
<1>1. Word \in Nat /\ CookieOffset \in Nat /\ CookieOffset < Word
  BY WidthsAssumption DEF UInt64
<1>2. off \in 0 .. Word - 1 /\ size \in 0 .. Word - 1
  BY DEF VirtualPersonPool, UInt64
<1> HIDE DEF off, size
<1>3. ASSUME off + size >= Word PROVE Word - 1 \in Range64(off, size)
  <2>1. Word - 1 - off \in 0 .. size - 1
    BY <1>1, <1>2, <1>3
  <2>2. (off + (Word - 1 - off)) % Word = Word - 1
    <3>1. off + (Word - 1 - off) = Word - 1 /\ Word - 1 \in 0 .. Word - 1
      BY <1>1, <1>2
    <3>2. (Word - 1) % Word = Word - 1
      BY <1>1, <3>1
    <3>3. QED
      BY <3>1, <3>2
  <2>3. QED
    BY <2>1, <2>2 DEF Range64
<1>4. ASSUME NEW i \in 0 .. size - 1, (off + i) % Word >= CookieOffset,
             (off + size) % Word <= CookieOffset
      PROVE  off + size >= Word
  <2>1. SUFFICES ASSUME off + size < Word PROVE FALSE
    BY <1>1, <1>2
  <2>2. (off + size) % Word = off + size
    BY <1>1, <1>2, <2>1
  <2>3. off + i \in 0 .. Word - 1 /\ off + i < off + size
    BY <1>1, <1>2, <2>1
  <2>4. (off + i) % Word = off + i
    BY <1>1, <2>3
  <2>5. QED
    BY <1>1, <1>2, <1>4, <2>2, <2>3, <2>4
<1>5. QED
  BY <1>3, <1>4 DEF EndWraps, Range64, off, size

\* Whatever the pools, IsValidPools keeps the reserved ids for the cookie monster
\* pool if and only if the end of no pool wraps around; and an event gets such an
\* id only from a leaf with a pool that wraps, or whose total is not positive
\* when cast to int32.  Nothing is assumed of the messages.
THEOREM ReservedIdsKept == Spec => []ReservedKept
<1>1. IInv => ReservedKept
  <2> DEFINE l == leaf["cc"]
             Wraps == \E k \in DOMAIN config.pools : EndWraps(config.pools[k])
             b == JumpConsistentHash(key, Int32(l.total_population))
             Reserved(i) == PersonAt("cc", l, i) >= CookieOffset
  <2>1. SUFFICES ASSUME IInv, l.kind = "population",
                        ~ IsCookieMonsterPool(config.pools)
                 PROVE  /\ Wraps <=>
                             \E i \in 0 .. l.total_population - 1 : Reserved(i)
                        /\ (ids["cc"] # NoId /\ ids["cc"] >= CookieOffset) =>
                             Wraps \/ CastFails(l)
    BY DEF ReservedKept
  <2>2. "cc" \in Libraries /\ config \in Configs /\ leaf = Built(config)
    BY <2>1 DEF Libraries, IInv
  <2>3. config.kind = "population" /\ IsCompiled(l, config.pools)
    BY <2>1, <2>2, PopulationLeafIsCompiled
  <2>4. IsValidPools(config.pools)
    <3>1. l = PopulationLeaf("cc", config.pools)
      BY <2>2, <2>3 DEF Built
    <3>2. QED
      BY <2>1, <3>1 DEF PopulationLeaf, Refused
  <2>5. ASSUME NEW k \in DOMAIN config.pools
        PROVE  config.pools[k] \in VirtualPersonPool
    <3>1. config.pools \in Seq(VirtualPersonPool)
      BY <2>2, WidthsAssumption
    <3>2. QED
      BY <3>1
  <2>6. Word - 1 >= CookieOffset
    BY WidthsAssumption DEF UInt64
  <2> HIDE DEF l
  <2>7. ASSUME NEW i \in 0 .. l.total_population - 1, Reserved(i)
        PROVE  Wraps
    <3>1. PICK k \in DOMAIN config.pools :
            PersonAt("cc", l, i)
              \in Range64(config.pools[k].population_offset,
                          config.pools[k].total_population)
      BY <2>2, <2>3, PersonIsPossible
    <3>2. (config.pools[k].population_offset
             + config.pools[k].total_population) % Word <= CookieOffset
      BY <2>1, <2>4 DEF IsValidPools
    <3>3. EndWraps(config.pools[k])
      BY <2>5, <2>7, <3>1, <3>2, ReservedByWrapping
    <3>4. QED
      BY <3>3
  <2>8. ASSUME NEW k \in DOMAIN config.pools, EndWraps(config.pools[k])
        PROVE  \E i \in 0 .. l.total_population - 1 : Reserved(i)
    <3>1. Word - 1 \in Range64(config.pools[k].population_offset,
                               config.pools[k].total_population)
      BY <2>5, <2>8, ReservedByWrapping
    <3>2. Word - 1 \in PossibleIds(config.pools)
      BY <3>1 DEF PossibleIds
    <3>3. Word - 1 \in {PersonAt("cc", l, i) : i \in 0 .. l.total_population - 1}
      BY <2>2, <2>3, <3>2, PossibleIsPerson
    <3>4. QED
      BY <2>6, <3>3
  <2>9. ASSUME ids["cc"] # NoId, ids["cc"] >= CookieOffset, ~ CastFails(l)
        PROVE  Wraps
    <3>1. key \in Keys /\ ids["cc"] = IdOf("cc", l, key)
      BY <2>1, <2>2, <2>3, <2>9, IdComesFromLeaf DEF l
    <3>2. Int32(l.total_population) > 0
      BY <2>2, <2>3, <2>9, CastLeavesPersons
    <3>3. ids["cc"] = PersonAt("cc", l, b) /\ b \in 0 .. l.total_population - 1
      BY <2>2, <2>3, <3>1, <3>2, PersonOfKey
    <3> HIDE DEF b
    <3>4. QED
      BY <2>7, <2>9, <3>3
  <2>10. QED
    BY <2>7, <2>8, <2>9
<1>2. QED
  BY <1>1, IInvHolds, PTL

\* No two of the first Word numbers are the same modulo Word.
LEMMA SameRemainder ==
  ASSUME NEW w \in Nat \ {0}, NEW a \in Nat, NEW b \in Nat, a <= b, b - a < w,
         a % w = b % w
  PROVE  a = b
<1>1. PICK x \in Int, y \in Int : a = w * x + (a % w) /\ b = w * y + (b % w)
  <2>1. a \div w \in Int /\ b \div w \in Int
    OBVIOUS
  <2>2. a = w * (a \div w) + (a % w) /\ b = w * (b \div w) + (b % w)
    OBVIOUS
  <2>3. QED
    BY <2>1, <2>2
<1>2. b - a = w * (y - x)
  <2>1. w * (y - x) = w * y - w * x
    BY <1>1
  <2>2. a % w \in Int
    OBVIOUS
  <2>3. QED
    BY <1>1, <2>1, <2>2
<1>3. CASE y - x <= 0
  <2>1. w * (y - x) <= 0
    BY <1>1, <1>3
  <2>2. QED
    BY <1>2, <2>1
<1>4. CASE y - x >= 1
  <2>1. w * (y - x) >= w
    BY <1>1, <1>4
  <2>2. QED
    BY <1>2, <2>1
<1>5. QED
  BY <1>1, <1>3, <1>4

\* The pools of a leaf have no id in common.
Disjoint(pools) ==
  \A j, k \in DOMAIN pools : j # k =>
    PossibleIds(<<pools[j]>>) \cap PossibleIds(<<pools[k]>>) = {}

\* Where the pools are disjoint, two indexes are two persons.
LEMMA PersonIsUnique ==
  ASSUME NEW c \in Configs, NEW lib \in Libraries, NEW l,
         IsCompiled(l, c.pools), Disjoint(c.pools),
         NEW i1 \in 0 .. l.total_population - 1,
         NEW i2 \in 0 .. l.total_population - 1, i1 <= i2,
         PersonAt(lib, l, i1) = PersonAt(lib, l, i2)
  PROVE  i1 = i2
<1> DEFINE q == NonEmpty(c.pools)
           u == Population(q)
           n == Len(q)
           v == PersonAt(lib, l, i1)
<1>1. /\ q \in Seq(VirtualPersonPool) /\ n \in Nat /\ u \in [0 .. n -> Nat]
      /\ \A j \in 1 .. n : u[j] = u[j - 1] + q[j].total_population
  BY OffsetsIncrease
<1>2. c.pools \in Seq(VirtualPersonPool) /\ Word \in Nat \ {0}
  BY WidthsAssumption
<1>3. PICK at \in [1 .. n -> 1 .. Len(c.pools)] :
        /\ \A i, j \in 1 .. n : at[i] = at[j] => i = j
        /\ \A j \in 1 .. n : q[j] = c.pools[at[j]]
  BY <1>2, NonEmptyKeeps DEF Keeps
<1>4. /\ i1 \in Nat /\ i1 < l.total_population
      /\ i2 \in Nat /\ i2 < l.total_population
  BY TotalPopulation
<1>5. PICK j1 \in 1 .. n :
        /\ u[j1 - 1] <= i1 /\ i1 < u[j1]
        /\ PersonAt(lib, l, i1)
             = (i1 - u[j1 - 1] + q[j1].population_offset) % Word
  BY <1>4, PersonOfIndex
<1>6. PICK j2 \in 1 .. n :
        /\ u[j2 - 1] <= i2 /\ i2 < u[j2]
        /\ PersonAt(lib, l, i2)
             = (i2 - u[j2 - 1] + q[j2].population_offset) % Word
  BY <1>4, PersonOfIndex
<1> HIDE DEF q, u, n
<1>7. ASSUME NEW j \in 1 .. n, NEW i \in Nat, u[j - 1] <= i, i < u[j],
             v = (i - u[j - 1] + q[j].population_offset) % Word
      PROVE  /\ i - u[j - 1] + q[j].population_offset \in Nat
             /\ v \in PossibleIds(<<c.pools[at[j]]>>)
  <2> DEFINE p == c.pools[at[j]]
             d == i - u[j - 1]
  <2>1. q[j] = p
    BY <1>3
  <2>2. /\ q[j].total_population \in Nat /\ q[j].population_offset \in Nat
    BY <1>1, PoolTyped DEF n
  <2>3. u[j - 1] \in Nat /\ u[j] = u[j - 1] + q[j].total_population
    BY <1>1
  <2>4. d \in 0 .. q[j].total_population - 1
    BY <1>7, <2>2, <2>3
  <2> HIDE DEF d, p, v
  <2>5. v = (q[j].population_offset + d) % Word
    <3>1. v = (d + q[j].population_offset) % Word
      BY <1>7 DEF d
    <3>2. d + q[j].population_offset = q[j].population_offset + d
      BY <2>2, <2>4
    <3>3. QED
      BY <3>1, <3>2
  <2>6. v \in Range64(p.population_offset, p.total_population)
    BY <2>1, <2>4, <2>5 DEF Range64
  <2>7. DOMAIN <<p>> = {1} /\ <<p>>[1] = p
    OBVIOUS
  <2>8. v \in PossibleIds(<<p>>)
    BY <2>6, <2>7 DEF PossibleIds
  <2>9. d + q[j].population_offset \in Nat
    BY <2>2, <2>4
  <2>10. QED
    BY <2>8, <2>9 DEF d, p
<1>8. /\ i1 - u[j1 - 1] + q[j1].population_offset \in Nat
      /\ v \in PossibleIds(<<c.pools[at[j1]]>>)
  BY <1>4, <1>5, <1>7
<1>9. /\ i2 - u[j2 - 1] + q[j2].population_offset \in Nat
      /\ v \in PossibleIds(<<c.pools[at[j2]]>>)
  BY <1>4, <1>6, <1>7
<1> HIDE DEF v
<1>10. at[j1] = at[j2]
  <2>1. at[j1] \in DOMAIN c.pools /\ at[j2] \in DOMAIN c.pools
    BY <1>2, <1>3
  <2>2. QED
    BY <1>8, <1>9, <2>1 DEF Disjoint
<1>11. j1 = j2
  BY <1>3, <1>10
<1> DEFINE off == q[j1].population_offset
           a == i1 - u[j1 - 1] + off
           b == i2 - u[j1 - 1] + off
<1>12. /\ u[j1 - 1] \in Nat /\ u[j1] = u[j1 - 1] + q[j1].total_population
  BY <1>1
<1>13. /\ q[j1].total_population \in 0 .. Word - 1 /\ off \in Nat
  BY <1>1, PoolTyped DEF n
<1>14. a \in Nat /\ b \in Nat /\ a % Word = b % Word
  BY <1>5, <1>6, <1>8, <1>9, <1>11
<1> HIDE DEF off
<1>15. a <= b /\ b - a < Word
  BY <1>2, <1>4, <1>5, <1>6, <1>11, <1>12, <1>13
<1>16. a = b
  <2> HIDE DEF a, b
  <2>1. QED
    BY <1>2, <1>14, <1>15, SameRemainder
<1>17. QED
  BY <1>4, <1>12, <1>13, <1>16

\* No leaf loses a person or counts one twice, whatever the pools: compiling
\* them gives each id exactly one population index, where the pools are disjoint.
THEOREM PersonsCountedOnce == Spec => []EveryPersonOnce
<1>1. IInv => EveryPersonOnce
  <2>1. SUFFICES ASSUME IInv, NEW lib \in Libraries,
                        leaf[lib].kind = "population", Disjoint(config.pools),
                        NEW v \in PossibleIds(config.pools)
                 PROVE  Cardinality({i \in 0 .. leaf[lib].total_population - 1 :
                                       PersonAt(lib, leaf[lib], i) = v}) = 1
    BY DEF EveryPersonOnce, Disjoint
  <2> DEFINE l == leaf[lib]
             Of == {i \in 0 .. l.total_population - 1 : PersonAt(lib, l, i) = v}
  <2>2. config \in Configs /\ IsCompiled(l, config.pools)
    BY <2>1, PopulationLeafIsCompiled DEF IInv
  <2>3. PICK i1 \in 0 .. l.total_population - 1 : PersonAt(lib, l, i1) = v
    <3> HIDE DEF l
    <3>1. v \in PossibleIds(config.pools)
      BY <2>1
    <3>2. QED
      <4>1. v \in {PersonAt(lib, l, index) : index \in 0 .. l.total_population - 1}
        BY <2>1, <2>2, <3>1, PossibleIsPerson
      <4>2. QED
        BY <4>1
  <2>4. ASSUME NEW i2 \in Of PROVE i2 = i1
    <3>1. /\ i2 \in 0 .. l.total_population - 1
          /\ PersonAt(lib, l, i2) = PersonAt(lib, l, i1)
      BY <2>3
    <3>2. l.total_population \in Nat
      BY <2>2, TotalPopulation
    <3>3. i1 <= i2 \/ i2 <= i1
      BY <2>3, <3>1, <3>2
    <3> HIDE DEF l
    <3>4. QED
      BY <2>1, <2>2, <2>3, <3>1, <3>3, PersonIsUnique
  <2>5. Of = {i1}
    BY <2>3, <2>4
  <2>6. QED
    BY <2>5, FS_Singleton
<1>2. QED
  BY <1>1, IInvHolds, PTL

\* When pools grow at their end, by whatever they grow, an event keeps its person
\* or gets one of the new ones.
THEOREM GrowingMovesLittle == Spec => GrowthMovesLittle
<1> DEFINE Moves ==
      \A lib \in Libraries :
        Extends(lib, leaf[lib], leaf'[lib]) =>
          \A k \in Keys :
            \/ IdOf(lib, leaf'[lib], k) = IdOf(lib, leaf[lib], k)
            \/ \E i \in leaf[lib].total_population ..
                          leaf'[lib].total_population - 1 :
                 IdOf(lib, leaf'[lib], k) = PersonAt(lib, leaf'[lib], i)
<1>1. IInv /\ IInv' => Moves
  <2>1. SUFFICES ASSUME IInv, IInv', NEW lib \in Libraries, NEW k \in Keys,
                        Extends(lib, leaf[lib], leaf'[lib])
                 PROVE  \/ IdOf(lib, leaf'[lib], k) = IdOf(lib, leaf[lib], k)
                        \/ \E i \in leaf[lib].total_population ..
                                      leaf'[lib].total_population - 1 :
                             IdOf(lib, leaf'[lib], k) = PersonAt(lib, leaf'[lib], i)
    OBVIOUS
  <2> DEFINE old == leaf[lib]
             new == leaf'[lib]
             m == old.total_population
             n == new.total_population
             b == JumpConsistentHash(k, m)
             d == JumpConsistentHash(k, n)
  <2>2. config \in Configs /\ IsCompiled(old, config.pools)
    BY <2>1, PopulationLeafIsCompiled DEF IInv, Extends
  <2>3. config' \in Configs /\ IsCompiled(new, config'.pools)
    <3>1. config' \in Configs /\ new = Built(config')[lib] /\ new.kind = "population"
      BY <2>1 DEF IInv, Extends
    <3>2. QED
      BY <3>1, PopulationLeafIsCompiled
  <2> HIDE DEF old, new
  <2>4. /\ m \in Nat \ {0} /\ n \in Nat \ {0} /\ m < n /\ n < IntHalf
        /\ \A i \in 0 .. m - 1 : PersonAt(lib, new, i) = PersonAt(lib, old, i)
    <3>1. m \in Nat \ {0} /\ n \in Nat \ {0}
      BY <2>2, <2>3, TotalPopulation
    <3>2. QED
      BY <2>1, <3>1 DEF Extends, old, new
  <2>5. IntHalf \in Nat
    BY WidthsAssumption
  <2>6. Int32(m) = m /\ Int32(n) = n
    BY <2>4, <2>5, Int32Keeps
  <2>7. IdOf(lib, old, k) = PersonAt(lib, old, b) /\ b \in 0 .. m - 1
    <3>1. Int32(old.total_population) > 0
      BY <2>4, <2>6
    <3>2. /\ IdOf(lib, old, k) = PersonAt(lib, old, JumpConsistentHash(k, Int32(m)))
          /\ JumpConsistentHash(k, Int32(m)) \in 0 .. m - 1
      BY <2>1, <2>2, <3>1, PersonOfKey
    <3>3. QED
      BY <2>6, <3>2
  <2>8. IdOf(lib, new, k) = PersonAt(lib, new, d)
    BY <2>3, <2>4, <2>6, PersonOfKey
  <2>9. d = b \/ d \in m .. n - 1
    BY <2>4, JumpMovesLittle
  <2> HIDE DEF b, d
  <2>10. QED
    BY <2>4, <2>7, <2>8, <2>9 DEF old, new
<1>2. QED
  BY <1>1, IInvHolds, PTL DEF GrowthMovesLittle

\* A ranked leaf that C++ has built fits in an int32.
LEMMA RankedFits ==
  ASSUME NEW c \in Configs, Built(c)["cc"].kind = "ranked"
  PROVE  LET l == Built(c)["cc"]
         IN  /\ l.pool_offset \in UInt64
             /\ l.pool_size \in 1 .. IntHalf - 1
             /\ l.ranked_size \in 0 .. l.pool_size
<1>1. "cc" \in Libraries
  BY DEF Libraries
<1>2. CASE c.kind = "population"
  <2>1. Built(c)["cc"] = PopulationLeaf("cc", c.pools)
    BY <1>1, <1>2 DEF Built
  <2>2. Built(c)["cc"].kind \in {"refused", "population"}
    BY <2>1 DEF PopulationLeaf, CompiledPools, Refused
  <2>3. QED
    BY <2>2
<1>3. CASE c.kind # "population"
  <2>1. c.kind = "ranked"
    BY <1>3, WidthsAssumption
  <2>2. /\ c.pools \in Seq(VirtualPersonPool)
        /\ c.ranked_size \in UInt64
        /\ IntHalf \in Nat
    BY <2>1, WidthsAssumption
  <2>3. Built(c)["cc"] = RankedLeaf("cc", c)
    BY <1>1, <1>3 DEF Built
  <2>4. /\ Len(c.pools) = 1
        /\ c.pools[1].total_population # 0
        /\ c.pools[1].total_population <= IntHalf - 1
        /\ c.ranked_size <= c.pools[1].total_population
        /\ Built(c)["cc"].pool_offset = c.pools[1].population_offset
        /\ Built(c)["cc"].pool_size = c.pools[1].total_population
        /\ Built(c)["cc"].ranked_size = c.ranked_size
    BY <2>3 DEF RankedLeaf, FitsInInt, Refused
  <2>5. c.pools[1] \in VirtualPersonPool
    BY <2>2, <2>4
  <2>6. /\ c.pools[1].population_offset \in UInt64
        /\ c.pools[1].total_population \in UInt64
    BY <2>5 DEF VirtualPersonPool
  <2>7. QED
    BY <2>2, <2>4, <2>6 DEF UInt64
<1>4. QED
  BY <1>2, <1>3

\* Where the unranked path of such a leaf ends.
LEMMA UnrankedPersonIsApart ==
  ASSUME NEW l, NEW k \in Keys,
         l.pool_offset \in UInt64, l.pool_size \in 1 .. IntHalf - 1,
         l.ranked_size \in 0 .. l.pool_size, UnrankedPersonId(l, k) # NoId
  PROVE  UnrankedPersonId(l, k) \in UnrankedIds(l)
<1>1. /\ IntHalf \in Nat \ {0} /\ Word \in Nat
      /\ l.pool_offset \in Nat /\ l.pool_size \in Nat /\ l.ranked_size \in Nat
  BY WidthsAssumption DEF UInt64
<1>2. CASE l.unranked_mode = "DISJOINT"
  <2> DEFINE size == l.pool_size - l.ranked_size
             b == JumpConsistentHash(k, size)
  <2>1. l.pool_size # l.ranked_size
    BY <1>2 DEF UnrankedPersonId
  <2>2. size \in Nat \ {0} /\ size < IntHalf
    BY <1>1, <2>1
  <2>3. Int32(size) = size
    BY <2>2, Int32Keeps
  <2>4. b \in 0 .. size - 1
    BY <2>2, JumpLandsLast
  <2>5. UnrankedPersonId(l, k) = (l.pool_offset + l.ranked_size + b) % Word
    BY <1>2, <2>1, <2>3 DEF UnrankedPersonId
  <2>6. UnrankedIds(l) = Range64(l.pool_offset + l.ranked_size, size)
    BY <1>2 DEF UnrankedIds
  <2> HIDE DEF size, b
  <2>7. QED
    BY <2>4, <2>5, <2>6 DEF Range64
<1>3. CASE l.unranked_mode # "DISJOINT"
  <2> DEFINE b == JumpConsistentHash(k, l.pool_size)
  <2>1. l.pool_size \in Nat \ {0} /\ l.pool_size < IntHalf
    BY <1>1
  <2>2. Int32(l.pool_size) = l.pool_size
    BY <2>1, Int32Keeps
  <2>3. b \in 0 .. l.pool_size - 1
    BY <2>1, JumpLandsLast
  <2>4. UnrankedPersonId(l, k) = (l.pool_offset + b) % Word
    BY <1>3, <2>2 DEF UnrankedPersonId
  <2>5. UnrankedIds(l) = Range64(l.pool_offset, l.pool_size)
    BY <1>3 DEF UnrankedIds
  <2> HIDE DEF b
  <2>6. QED
    BY <2>3, <2>4, <2>5 DEF Range64
<1>4. QED
  BY <1>2, <1>3

\* Every unranked person of a ranked leaf of the C++ library stays apart from
\* the ranked ones, for every width, pool and key: the guard of Build suffices.
THEOREM UnrankedStaysApart == Spec => []UnrankedApart
<1>1. IInv => UnrankedApart
  <2>1. SUFFICES ASSUME IInv, leaf["cc"].kind = "ranked", ids["cc"] # NoId
                 PROVE  ids["cc"] \in UnrankedIds(leaf["cc"])
    BY DEF UnrankedApart
  <2>2. "cc" \in Libraries
    BY DEF Libraries
  <2>3. key \in Keys /\ ids["cc"] = IdOf("cc", leaf["cc"], key)
    BY <2>1, <2>2 DEF IInv, NoIds
  <2>4. ids["cc"] = UnrankedPersonId(leaf["cc"], key)
    BY <2>1, <2>3 DEF IdOf
  <2>5. /\ leaf["cc"].pool_offset \in UInt64
        /\ leaf["cc"].pool_size \in 1 .. IntHalf - 1
        /\ leaf["cc"].ranked_size \in 0 .. leaf["cc"].pool_size
    BY <2>1, RankedFits DEF IInv
  <2>6. QED
    BY <2>1, <2>3, <2>4, <2>5, UnrankedPersonIsApart
<1>2. QED
  BY <1>1, IInvHolds, PTL
=============================================================================
