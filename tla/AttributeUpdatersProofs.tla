---------------------- MODULE AttributeUpdatersProofs ----------------------
(***************************************************************************)
(* What Build has checked is enough for every call that follows, whatever  *)
(* the message, the event and the hashes: the invariants of the updaters   *)
(* and of the label of a person follow from what the operators return,     *)
(* since an updater is what Build makes of its message and an answer what  *)
(* Update makes of its event.  The facts about consistent hashing come     *)
(* first: a choice of positive probability, with the least quotient of     *)
(* hash and probability.                                                   *)
(***************************************************************************)
EXTENDS AttributeUpdaters, WellFoundedInduction, TLAPS

\* Every non-empty set of naturals has a least element.
LEMMA NatMinimum ==
  ASSUME NEW T \in SUBSET Nat, T # {}
  PROVE  \E m \in T : \A k \in T : m <= k
<1> DEFINE R == OpToRel(<, Nat)
<1>1. IsWellFoundedOn(R, Nat)
  BY NatLessThanWellFounded
<1> HIDE DEF R
<1>2. PICK m \in T : \A k \in T : ~ (<<k, m>> \in R)
  BY <1>1, WFMin
<1>3. ASSUME NEW k \in T PROVE m <= k
  <2>1. <<k, m>> \notin R
    BY <1>2, <1>3
  <2>2. ~ (k < m)
    BY <2>1 DEF R, OpToRel
  <2>3. QED
    BY <2>2
<1>4. QED
  BY <1>3

\* A function on 0 .. n that is given at 0 and by a step from each k - 1 to k.
IsBySteps(f, n, S, s0, h) ==
  /\ f \in [0 .. n -> S] /\ f[0] = s0
  /\ \A k \in 1 .. n : f[k] = h[k][f[k - 1]]

\* There is such a function for every start and every step.
LEMMA FunctionBySteps ==
  ASSUME NEW n \in Nat, NEW S, NEW s0 \in S, NEW h \in [1 .. n -> [S -> S]]
  PROVE  \E f : IsBySteps(f, n, S, s0, h)
<1> DEFINE Upto(m) == \E f \in [0 .. m -> S] :
             f[0] = s0 /\ \A k \in 1 .. m : f[k] = h[k][f[k - 1]]
           T == {m \in 0 .. n : ~ Upto(m)}
<1>1. ASSUME T # {} PROVE FALSE
  <2>1. T \in SUBSET Nat
    OBVIOUS
  <2>2. PICK m \in T : \A k \in T : m <= k
    <3> HIDE DEF T
    <3>1. QED
      BY <1>1, <2>1, NatMinimum
  <2>3. m \in 0 .. n /\ ~ Upto(m)
    OBVIOUS
  <2>4. Upto(0)
    <3>1. [k \in 0 .. 0 |-> s0] \in [0 .. 0 -> S]
      OBVIOUS
    <3>2. [k \in 0 .. 0 |-> s0][0] = s0
      OBVIOUS
    <3>3. 1 .. 0 = {}
      OBVIOUS
    <3>4. QED
      BY <3>1, <3>2, <3>3, Zenon
  <2>5. m # 0
    BY <2>3, <2>4
  <2>6. Upto(m - 1)
    <3>1. m - 1 \in 0 .. n /\ ~ (m <= m - 1)
      BY <2>3, <2>5
    <3>2. m - 1 \notin T
      BY <2>2, <3>1
    <3> HIDE DEF Upto
    <3>3. QED
      BY <3>1, <3>2
  <2>7. PICK f \in [0 .. m - 1 -> S] :
          f[0] = s0 /\ \A k \in 1 .. m - 1 : f[k] = h[k][f[k - 1]]
    BY <2>6
  <2> DEFINE g == [k \in 0 .. m |-> IF k = m THEN h[m][f[m - 1]] ELSE f[k]]
  <2>8. f[m - 1] \in S /\ m \in 1 .. n
    BY <2>3, <2>5, <2>7
  <2>9. g \in [0 .. m -> S]
    BY <2>3, <2>7, <2>8
  <2>10. g[0] = s0
    BY <2>3, <2>5, <2>7
  <2>11. ASSUME NEW k \in 1 .. m PROVE g[k] = h[k][g[k - 1]]
    <3>1. CASE k = m
      BY <2>3, <2>5, <3>1
    <3>2. CASE k # m
      BY <2>3, <2>7, <3>2
    <3>3. QED
      BY <3>1, <3>2
  <2> HIDE DEF g
  <2>12. QED
    BY <2>3, <2>9, <2>10, <2>11
<1>2. n \in 0 .. n
  OBVIOUS
<1> HIDE DEF T, Upto
<1>3. n \notin T
  BY <1>1
<1>4. Upto(n)
  BY <1>2, <1>3, Zenon DEF T
<1>5. QED
  BY <1>4 DEF Upto, IsBySteps

\* What is kept from each number to the next holds for all.
LEMMA UpTo ==
  ASSUME NEW n \in Nat, NEW T, 0 \in T,
         \A k \in 1 .. n : k - 1 \in T => k \in T
  PROVE  \A k \in 0 .. n : k \in T
<1> DEFINE M == {k \in 0 .. n : k \notin T}
<1>1. ASSUME M # {} PROVE FALSE
  <2>1. M \in SUBSET Nat
    OBVIOUS
  <2>2. PICK m \in M : \A k \in M : m <= k
    <3> HIDE DEF M
    <3>1. QED
      BY <1>1, <2>1, NatMinimum
  <2>3. m \in 1 .. n /\ m \notin T
    <3>1. m # 0
      BY <2>2
    <3>2. QED
      BY <2>2, <3>1
  <2>4. m - 1 \in T
    BY <2>2, <2>3
  <2>5. QED
    BY <2>3, <2>4
<1>2. QED
  BY <1>1
-----------------------------------------------------------------------------
(* Consistent hashing.                                                      *)

\* u has the sums of the first probabilities.
IsSums(ps, u) ==
  /\ u \in [0 .. Len(ps) -> Int] /\ u[0] = 0
  /\ \A k \in 1 .. Len(ps) : u[k] = u[k - 1] + ps[k]

LEMMA SumsExist ==
  ASSUME NEW ps \in Seq(Int)
  PROVE  \E u : IsSums(ps, u)
<1> DEFINE n == Len(ps)
           h == [k \in 1 .. n |-> [s \in Int |-> s + ps[k]]]
<1>1. n \in Nat /\ 0 \in Int
  OBVIOUS
<1>2. \A k \in 1 .. n, s \in Int : s + ps[k] \in Int
  OBVIOUS
<1>3. h \in [1 .. n -> [Int -> Int]]
  BY <1>2
<1>4. \A k \in 1 .. n, s \in Int : h[k][s] = s + ps[k]
  OBVIOUS
<1> HIDE DEF h, n
<1>5. PICK u : IsBySteps(u, n, Int, 0, h)
  BY <1>1, <1>3, FunctionBySteps
<1>6. /\ u \in [0 .. n -> Int] /\ u[0] = 0
      /\ \A k \in 1 .. n : u[k] = h[k][u[k - 1]]
  BY <1>5 DEF IsBySteps
<1>7. ASSUME NEW k \in 1 .. n PROVE u[k] = u[k - 1] + ps[k]
  <2>1. k - 1 \in 0 .. n
    BY <1>1
  <2>2. u[k - 1] \in Int
    BY <1>6, <2>1
  <2>3. QED
    BY <1>4, <1>6, <2>2
<1>8. QED
  BY <1>6, <1>7 DEF IsSums, n

LEMMA SumIsLast ==
  ASSUME NEW ps \in Seq(Int)
  PROVE  \E u : IsSums(ps, u) /\ ProbabilitiesSum(ps) = u[Len(ps)]
<1> DEFINE n == Len(ps)
           F(f) == [k \in 0 .. n |-> IF k = 0 THEN 0 ELSE f[k - 1] + ps[k]]
           v == CHOOSE f : f = F(f)
<1>1. PICK u : IsSums(ps, u)
  BY SumsExist
<1>2. ProbabilitiesSum(ps) = v[n]
  BY DEF ProbabilitiesSum
<1>3. n \in Nat /\ ps \in [1 .. n -> Int]
  OBVIOUS
<1>4. u = F(u)
  BY <1>1 DEF IsSums
<1>5. v = F(v)
  <2> HIDE DEF F
  <2>1. QED
    BY <1>4
<1>6. v[0] = 0 /\ \A k \in 1 .. n : v[k] = v[k - 1] + ps[k]
  <2> HIDE DEF v, n
  <2>1. \A k \in 0 .. n : v[k] = IF k = 0 THEN 0 ELSE v[k - 1] + ps[k]
    BY <1>5, Zenon
  <2>2. QED
    BY <1>3, <2>1
<1> DEFINE T == {k \in 0 .. n : v[k] = u[k]}
<1>7. 0 \in T
  <2> HIDE DEF v
  <2>1. QED
    BY <1>1, <1>3, <1>6 DEF IsSums
<1>8. ASSUME NEW k \in 1 .. n, k - 1 \in T PROVE k \in T
  <2> HIDE DEF v
  <2>1. QED
    BY <1>1, <1>3, <1>6, <1>8 DEF IsSums
<1>9. n \in T
  <2> HIDE DEF T, n
  <2>1. \A k \in 0 .. n : k \in T
    BY <1>3, <1>7, <1>8, UpTo
  <2>2. QED
    BY <1>3, <2>1
<1>10. ProbabilitiesSum(ps) = u[n]
  <2> HIDE DEF v
  <2>1. QED
    BY <1>2, <1>9
<1>11. QED
  BY <1>1, <1>10

\* The sum of a distribution is not 0.
LEMMA SomePositive ==
  ASSUME NEW ps \in Seq(Int), IsDistribution(ps)
  PROVE  \E k \in DOMAIN ps : ps[k] > 0
<1>1. PICK u : IsSums(ps, u) /\ ProbabilitiesSum(ps) = u[Len(ps)]
  BY SumIsLast
<1> DEFINE n == Len(ps)
           T == {k \in 0 .. n : u[k] = 0}
<1> SUFFICES ASSUME \A k \in DOMAIN ps : ~ (ps[k] > 0) PROVE FALSE
  OBVIOUS
<1>2. n \in Nat /\ DOMAIN ps = 1 .. n /\ \A k \in 1 .. n : ps[k] = 0
  BY DEF IsDistribution
<1>3. 0 \in T
  BY <1>1, <1>2 DEF IsSums
<1>4. ASSUME NEW k \in 1 .. n, k - 1 \in T PROVE k \in T
  BY <1>1, <1>2, <1>4 DEF IsSums
<1>5. n \in T
  <2> HIDE DEF T, n
  <2>1. \A k \in 0 .. n : k \in T
    BY <1>2, <1>3, <1>4, UpTo
  <2>2. QED
    BY <1>2, <2>1
<1>6. ProbabilitiesSum(ps) >= 1
  BY UpdatersAssumption DEF IsDistribution
<1>7. QED
  BY <1>1, <1>5, <1>6

LEMMA TimesLess ==
  ASSUME NEW x \in Int, NEW y \in Int, NEW q \in Nat \ {0}
  PROVE  /\ x < y <=> q * x < q * y
         /\ x <= y <=> q * x <= q * y
<1>1. x < y => q * x < q * y
  BY SMT
<1>2. y <= x => q * y <= q * x
  BY SMT
<1>3. y < x => q * y < q * x
  BY SMT
<1>4. x <= y => q * x <= q * y
  BY SMT
<1>5. q * x \in Int /\ q * y \in Int
  BY SMT
<1> DEFINE a == q * x
           b == q * y
<1> HIDE DEF a, b
<1>6. QED
  BY <1>1, <1>2, <1>3, <1>4, <1>5 DEF a, b

\* a / p < b / q and b / q <= c / r.
LEMMA QuotientsLess ==
  ASSUME NEW a \in Nat, NEW b \in Nat, NEW c \in Nat,
         NEW p \in Nat \ {0}, NEW q \in Nat \ {0}, NEW r \in Nat \ {0},
         a * q < b * p, b * r <= c * q
  PROVE  a * r < c * p
<1>1. /\ a * q \in Int /\ b * p \in Int /\ b * r \in Int /\ c * q \in Int
      /\ a * r \in Int /\ c * p \in Int
  BY SMT
<1>2. r * (a * q) < r * (b * p)
  BY <1>1, TimesLess
<1>3. p * (b * r) <= p * (c * q)
  BY <1>1, TimesLess
<1>4. /\ r * (a * q) = q * (a * r) /\ r * (b * p) = p * (b * r)
      /\ p * (c * q) = q * (c * p)
  BY SMT
<1>5. q * (a * r) \in Int /\ p * (b * r) \in Int /\ q * (c * p) \in Int
  BY SMT
<1>6. q * (a * r) < q * (c * p)
  BY <1>2, <1>3, <1>4, <1>5
<1>7. QED
  BY <1>1, <1>6, TimesLess

\* The quotient of hash and probability of choice k is smaller.
Smaller(ps, h, k, b) ==
  /\ ps[k] > 0
  /\ b # 0 => h[k - 1] * ps[b] < h[b - 1] * ps[k]

\* u has the best of the first choices.
IsBests(ps, h, u) ==
  /\ u \in [0 .. Len(ps) -> 0 .. Len(ps)] /\ u[0] = 0
  /\ \A k \in 1 .. Len(ps) :
       u[k] = IF Smaller(ps, h, k, u[k - 1]) THEN k ELSE u[k - 1]

LEMMA BestsExist ==
  ASSUME NEW ps \in Seq(Int), NEW h
  PROVE  \E u : IsBests(ps, h, u)
<1> DEFINE n == Len(ps)
           S == 0 .. n
           next(k, s) == IF Smaller(ps, h, k, s) THEN k ELSE s
           g == [k \in 1 .. n |-> [s \in S |-> next(k, s)]]
<1>1. n \in Nat /\ 0 \in S
  OBVIOUS
<1>2. \A k \in 1 .. n, s \in S : next(k, s) \in S
  OBVIOUS
<1>3. g \in [1 .. n -> [S -> S]]
  <2> HIDE DEF next, S
  <2>1. QED
    BY <1>2
<1>4. \A k \in 1 .. n, s \in S : g[k][s] = next(k, s)
  OBVIOUS
<1> HIDE DEF g, n, S, next
<1>5. PICK u : IsBySteps(u, n, S, 0, g)
  BY <1>1, <1>3, FunctionBySteps
<1>6. /\ u \in [0 .. n -> S] /\ u[0] = 0
      /\ \A k \in 1 .. n : u[k] = g[k][u[k - 1]]
  BY <1>5 DEF IsBySteps
<1>7. ASSUME NEW k \in 1 .. n PROVE u[k] = next(k, u[k - 1])
  <2>1. k - 1 \in 0 .. n
    BY <1>1
  <2>2. u[k - 1] \in S
    BY <1>6, <2>1
  <2>3. QED
    BY <1>4, <1>6, <2>2
<1>8. QED
  BY <1>6, <1>7 DEF IsBests, n, S, next

\* The choice of Hash is the best of all, or the first if there is none.
LEMMA HashIsLast ==
  ASSUME NEW ps \in Seq(Int), NEW h
  PROVE  \E u : /\ IsBests(ps, h, u)
                /\ Hash(ps, h) = IF u[Len(ps)] = 0 THEN 0 ELSE u[Len(ps)] - 1
<1> DEFINE n == Len(ps)
           next(k, b) == IF /\ ps[k] > 0
                            /\ b # 0 => h[k - 1] * ps[b] < h[b - 1] * ps[k]
                         THEN k ELSE b
           F(f) == [k \in 0 .. n |-> IF k = 0 THEN 0 ELSE next(k, f[k - 1])]
           v == CHOOSE f : f = F(f)
<1>1. PICK u : IsBests(ps, h, u)
  BY BestsExist
<1>2. Hash(ps, h) = IF v[n] = 0 THEN 0 ELSE v[n] - 1
  BY DEF Hash
<1>3. n \in Nat
  OBVIOUS
<1>4. u \in [0 .. n -> 0 .. n] /\ u[0] = 0
  BY <1>1 DEF IsBests
<1>5. \A k \in 1 .. n : u[k] = next(k, u[k - 1])
  BY <1>1, Zenon DEF IsBests, Smaller
<1> HIDE DEF next
<1>6. u = F(u)
  BY <1>3, <1>4, <1>5
<1>7. v = F(v)
  <2> HIDE DEF F
  <2>1. QED
    BY <1>6
<1>8. v[0] = 0 /\ \A k \in 1 .. n : v[k] = next(k, v[k - 1])
  <2> HIDE DEF v, n
  <2>1. \A k \in 0 .. n : v[k] = IF k = 0 THEN 0 ELSE next(k, v[k - 1])
    BY <1>7, Zenon
  <2>2. QED
    BY <1>3, <2>1
<1> DEFINE T == {k \in 0 .. n : v[k] = u[k]}
<1>9. 0 \in T
  <2> HIDE DEF v
  <2>1. QED
    BY <1>3, <1>4, <1>8
<1>10. ASSUME NEW k \in 1 .. n, k - 1 \in T PROVE k \in T
  <2> HIDE DEF v
  <2>1. QED
    BY <1>3, <1>5, <1>8, <1>10
<1>11. n \in T
  <2> HIDE DEF T, n
  <2>1. \A k \in 0 .. n : k \in T
    BY <1>3, <1>9, <1>10, UpTo
  <2>2. QED
    BY <1>3, <2>1
<1>12. Hash(ps, h) = IF u[n] = 0 THEN 0 ELSE u[n] - 1
  <2> HIDE DEF v
  <2>1. QED
    BY <1>2, <1>11
<1>13. QED
  BY <1>1, <1>12

\* b is the first of those of the first n choices whose probability is
\* positive and whose quotient is the least.
IsBestOf(ps, h, n, b) ==
  /\ b \in 1 .. n /\ ps[b] > 0
  /\ \A j \in 1 .. n :
       ps[j] > 0 => /\ h[b - 1] * ps[j] <= h[j - 1] * ps[b]
                    /\ j < b => h[b - 1] * ps[j] < h[j - 1] * ps[b]

ExpHashes == [0 .. MaxRows - 1 -> Nat \ {0}]
Probabilities == {ps \in Seq(Int) : Len(ps) <= MaxRows}

LEMMA HashTyped ==
  ASSUME NEW ps \in Probabilities, NEW h \in ExpHashes, NEW k \in DOMAIN ps
  PROVE  h[k - 1] \in Nat \ {0} /\ ps[k] \in Int
BY UpdatersAssumption DEF ExpHashes, Probabilities

LEMMA BestGoesOn ==
  ASSUME NEW ps \in Probabilities, NEW h \in ExpHashes, NEW k \in 1 .. Len(ps),
         NEW b \in 0 .. k - 1,
         IF b = 0 THEN \A j \in 1 .. k - 1 : ~ (ps[j] > 0)
         ELSE IsBestOf(ps, h, k - 1, b)
  PROVE  /\ Smaller(ps, h, k, b) => IsBestOf(ps, h, k, k)
         /\ ~ Smaller(ps, h, k, b) =>
              IF b = 0 THEN \A j \in 1 .. k : ~ (ps[j] > 0)
              ELSE IsBestOf(ps, h, k, b)
<1>1. Len(ps) \in Nat /\ DOMAIN ps = 1 .. Len(ps) /\ k \in Nat
  BY DEF Probabilities
<1>2. \A j \in 1 .. k : h[j - 1] \in Nat \ {0} /\ ps[j] \in Int
  BY <1>1, HashTyped
<1>3. ASSUME Smaller(ps, h, k, b) PROVE IsBestOf(ps, h, k, k)
  <2>1. ps[k] > 0 /\ (b # 0 => h[k - 1] * ps[b] < h[b - 1] * ps[k])
    BY <1>3 DEF Smaller
  <2>2. ASSUME NEW j \in 1 .. k - 1, ps[j] > 0
        PROVE  h[k - 1] * ps[j] < h[j - 1] * ps[k]
    <3>1. b # 0 /\ IsBestOf(ps, h, k - 1, b)
      BY <2>2
    <3>2. b \in 1 .. k - 1 /\ ps[b] > 0 /\ h[b - 1] * ps[j] <= h[j - 1] * ps[b]
      BY <2>2, <3>1 DEF IsBestOf
    <3>3. b \in 1 .. k /\ j \in 1 .. k
      BY <1>1, <3>2
    <3>4. /\ h[k - 1] \in Nat /\ h[b - 1] \in Nat /\ h[j - 1] \in Nat
          /\ ps[k] \in Nat \ {0} /\ ps[b] \in Nat \ {0} /\ ps[j] \in Nat \ {0}
      <4>1. k \in 1 .. k
        BY <1>1
      <4>2. /\ h[k - 1] \in Nat \ {0} /\ h[b - 1] \in Nat \ {0}
            /\ h[j - 1] \in Nat \ {0}
            /\ ps[k] \in Int /\ ps[b] \in Int /\ ps[j] \in Int
        BY <1>2, <3>3, <4>1, Zenon
      <4>3. ps[k] > 0 /\ ps[b] > 0 /\ ps[j] > 0
        BY <2>1, <2>2, <3>2, Zenon
      <4>4. \A x \in Int : x > 0 => x \in Nat \ {0}
        OBVIOUS
      <4>5. \A x \in Nat \ {0} : x \in Nat
        OBVIOUS
      <4>6. QED
        BY <4>2, <4>3, <4>4, <4>5, Zenon
    <3>5. h[k - 1] * ps[b] < h[b - 1] * ps[k]
      BY <2>1, <3>1
    <3> DEFINE hk == h[k - 1]
               hb == h[b - 1]
               hj == h[j - 1]
               pk == ps[k]
               pb == ps[b]
               pj == ps[j]
    <3> HIDE DEF hk, hb, hj, pk, pb, pj
    <3>6. /\ hk \in Nat /\ hb \in Nat /\ hj \in Nat
          /\ pk \in Nat \ {0} /\ pb \in Nat \ {0} /\ pj \in Nat \ {0}
          /\ hk * pb < hb * pk /\ hb * pj <= hj * pb
      BY <3>2, <3>4, <3>5 DEF hk, hb, hj, pk, pb, pj
    <3>7. hk * pj < hj * pk
      BY <3>6, QuotientsLess
    <3>8. QED
      BY <3>7 DEF hk, hj, pk, pj
  <2>3. h[k - 1] * ps[k] <= h[k - 1] * ps[k]
    <3>1. h[k - 1] * ps[k] \in Int
      BY <1>1, <1>2
    <3>2. QED
      BY <3>1
  <2>4. ASSUME NEW j \in 1 .. k, ps[j] > 0
        PROVE  /\ h[k - 1] * ps[j] <= h[j - 1] * ps[k]
               /\ j < k => h[k - 1] * ps[j] < h[j - 1] * ps[k]
    <3>1. CASE j = k
      BY <1>1, <2>3, <3>1
    <3>2. CASE j # k
      <4>1. j \in 1 .. k - 1
        BY <1>1, <3>2
      <4>2. h[k - 1] * ps[j] < h[j - 1] * ps[k]
        BY <2>2, <2>4, <4>1
      <4>3. h[k - 1] * ps[j] \in Int /\ h[j - 1] * ps[k] \in Int
        <5>1. k \in 1 .. k
          BY <1>1
        <5>2. /\ h[k - 1] \in Nat \ {0} /\ h[j - 1] \in Nat \ {0}
              /\ ps[k] \in Int /\ ps[j] \in Int
          BY <1>2, <5>1, Zenon
        <5>3. QED
          BY <5>2
      <4>4. QED
        BY <4>2, <4>3
    <3>3. QED
      BY <3>1, <3>2
  <2>5. QED
    BY <1>1, <2>1, <2>4 DEF IsBestOf
<1>4. ASSUME ~ Smaller(ps, h, k, b), b = 0
      PROVE  \A j \in 1 .. k : ~ (ps[j] > 0)
  BY <1>1, <1>4 DEF Smaller
<1>5. ASSUME ~ Smaller(ps, h, k, b), b # 0
      PROVE  IsBestOf(ps, h, k, b)
  <2>1. IsBestOf(ps, h, k - 1, b) /\ b \in 1 .. k - 1 /\ ps[b] > 0
    BY <1>5 DEF IsBestOf
  <2>2. ps[k] > 0 => ~ (h[k - 1] * ps[b] < h[b - 1] * ps[k])
    BY <1>5 DEF Smaller
  <2>3. b \in 1 .. k
    BY <1>1, <2>1
  <2>4. h[k - 1] * ps[b] \in Int /\ h[b - 1] * ps[k] \in Int
    BY <1>1, <1>2, <2>3
  <2>5. ps[k] > 0 => h[b - 1] * ps[k] <= h[k - 1] * ps[b]
    BY <2>2, <2>4
  <2>6. ASSUME NEW j \in 1 .. k, ps[j] > 0
        PROVE  /\ h[b - 1] * ps[j] <= h[j - 1] * ps[b]
               /\ j < b => h[b - 1] * ps[j] < h[j - 1] * ps[b]
    <3>1. CASE j = k
      BY <1>1, <2>1, <2>5, <2>6, <3>1
    <3>2. CASE j # k
      BY <1>1, <2>1, <2>6, <3>2 DEF IsBestOf
    <3>3. QED
      BY <3>1, <3>2
  <2>7. QED
    BY <2>1, <2>3, <2>6 DEF IsBestOf
<1>6. QED
  BY <1>3, <1>4, <1>5

\* Hash returns an index of a positive probability: the first of those with
\* the least quotient.
LEMMA HashFacts ==
  ASSUME NEW ps \in Probabilities, NEW h \in ExpHashes, IsDistribution(ps)
  PROVE  /\ Hash(ps, h) \in 0 .. Len(ps) - 1
         /\ IsBestOf(ps, h, Len(ps), Hash(ps, h) + 1)
<1> DEFINE n == Len(ps)
           Ok(k, b) == IF b = 0 THEN \A j \in 1 .. k : ~ (ps[j] > 0)
                       ELSE IsBestOf(ps, h, k, b)
<1>1. ps \in Seq(Int) /\ n \in Nat /\ DOMAIN ps = 1 .. n
  BY DEF Probabilities
<1>2. PICK u : /\ IsBests(ps, h, u)
               /\ Hash(ps, h) = IF u[n] = 0 THEN 0 ELSE u[n] - 1
  BY <1>1, HashIsLast
<1>3. /\ u \in [0 .. n -> 0 .. n] /\ u[0] = 0
      /\ \A k \in 1 .. n :
           u[k] = IF Smaller(ps, h, k, u[k - 1]) THEN k ELSE u[k - 1]
  BY <1>2 DEF IsBests
<1> DEFINE T == {k \in 0 .. n : u[k] \in 0 .. k /\ Ok(k, u[k])}
<1>4. 0 \in T
  BY <1>1, <1>3
<1>5. ASSUME NEW k \in 1 .. n, k - 1 \in T PROVE k \in T
  <2>1. k \in Nat /\ u[k - 1] \in 0 .. k - 1 /\ Ok(k - 1, u[k - 1])
    BY <1>1, <1>5
  <2> DEFINE b == u[k - 1]
  <2>2. /\ Smaller(ps, h, k, b) => IsBestOf(ps, h, k, k)
        /\ ~ Smaller(ps, h, k, b) => Ok(k, b)
    <3> HIDE DEF b
    <3>1. k \in 1 .. Len(ps) /\ b \in 0 .. k - 1 /\ Ok(k - 1, b)
      BY <2>1 DEF b
    <3>2. QED
      BY <3>1, BestGoesOn
  <2>3. u[k] = IF Smaller(ps, h, k, b) THEN k ELSE b
    BY <1>3
  <2>4. u[k] \in 0 .. k
    BY <2>1, <2>3
  <2>5. Ok(k, u[k])
    BY <2>1, <2>2, <2>3
  <2> HIDE DEF Ok
  <2>6. QED
    BY <1>1, <2>1, <2>4, <2>5
<1>6. n \in T
  <2> HIDE DEF T, n
  <2>1. \A k \in 0 .. n : k \in T
    BY <1>1, <1>4, <1>5, UpTo
  <2>2. QED
    BY <1>1, <2>1
<1>7. \E j \in 1 .. n : ps[j] > 0
  BY <1>1, SomePositive
<1>8. u[n] # 0 /\ IsBestOf(ps, h, n, u[n])
  BY <1>6, <1>7
<1>9. u[n] \in 1 .. n /\ Hash(ps, h) = u[n] - 1
  BY <1>1, <1>2, <1>3, <1>8
<1>10. Hash(ps, h) + 1 = u[n]
  BY <1>1, <1>9
<1>11. QED
  BY <1>1, <1>8, <1>9, <1>10

LEMMA DistributionTyped ==
  ASSUME NEW ps \in Probabilities, IsDistribution(ps), NEW k \in DOMAIN ps
  PROVE  ps[k] \in Int /\ ps[k] >= 0
<1>1. ps \in Seq(Int)
  BY DEF Probabilities
<1>2. ps[k] >= 0
  BY DEF IsDistribution
<1>3. QED
  BY <1>1, <1>2

\* Where two distributions choose differently, the new choice has grown
\* relative to the old one.
LEMMA ChoiceMovesTowardGrowth ==
  ASSUME NEW p \in Probabilities, NEW q \in Probabilities, Len(p) = Len(q),
         IsDistribution(p), IsDistribution(q), NEW h \in ExpHashes,
         Hash(p, h) # Hash(q, h)
  PROVE  q[Hash(q, h) + 1] * p[Hash(p, h) + 1]
           > q[Hash(p, h) + 1] * p[Hash(q, h) + 1]
<1> DEFINE n == Len(p)
           old == Hash(p, h) + 1
           new == Hash(q, h) + 1
           a == h[old - 1]
           b == h[new - 1]
           po == p[old]
           pn == p[new]
           qo == q[old]
           qn == q[new]
<1>1. /\ Hash(p, h) \in 0 .. n - 1 /\ Hash(q, h) \in 0 .. n - 1 /\ n \in Nat
      /\ IsBestOf(p, h, n, old) /\ IsBestOf(q, h, n, new)
  BY HashFacts DEF Probabilities
<1>2. DOMAIN p = 1 .. n /\ DOMAIN q = 1 .. n
  BY DEF Probabilities
<1>3. old \in 1 .. n /\ new \in 1 .. n /\ old # new /\ old \in Nat /\ new \in Nat
  BY <1>1
<1> HIDE DEF old, new, n
<1>4. /\ po \in Nat /\ pn \in Nat /\ qo \in Nat /\ qn \in Nat
  <2>1. \A k \in 1 .. n : /\ p[k] \in Int /\ p[k] >= 0
                         /\ q[k] \in Int /\ q[k] >= 0
    BY <1>2, DistributionTyped, Zenon
  <2>2. QED
    BY <1>3, <2>1
<1>5. a \in Nat \ {0} /\ b \in Nat \ {0}
  BY <1>2, <1>3, HashTyped
<1>6. po > 0 /\ qn > 0
  BY <1>1 DEF IsBestOf
<1>7. /\ pn > 0 => a * pn <= b * po
      /\ pn > 0 /\ new < old => a * pn < b * po
      /\ qo > 0 => b * qo <= a * qn
      /\ qo > 0 /\ old < new => b * qo < a * qn
  BY <1>1, <1>3, Zenon DEF IsBestOf
<1> HIDE DEF a, b, po, pn, qo, qn
<1>8. /\ qn * po \in Nat \ {0} /\ qo * pn \in Nat
  BY <1>4, <1>6, SMT
<1>9. CASE pn = 0 \/ qo = 0
  <2>1. qo * pn = 0
    BY <1>4, <1>9, SMT
  <2>2. QED
    BY <1>8, <2>1 DEF qn, po, qo, pn, old, new
<1>10. CASE pn > 0 /\ qo > 0
  <2>1. po \in Nat \ {0} /\ qn \in Nat \ {0} /\ pn \in Nat \ {0} /\ qo \in Nat \ {0}
    BY <1>4, <1>6, <1>10
  <2>2. CASE old < new
    <3>1. b * qo < a * qn /\ a * pn <= b * po
      BY <1>7, <1>10, <2>2
    <3>2. qo * pn < qn * po
      \* qo / qn < a / b and a / b <= po / pn.
      <4>1. qo * b < a * qn /\ a * pn <= po * b
        BY <1>5, <2>1, <3>1, SMT
      <4>2. qo * pn < po * qn
        BY <1>5, <2>1, <4>1, QuotientsLess
      <4>3. po * qn = qn * po
        BY <2>1, SMT
      <4>4. QED
        BY <4>2, <4>3
    <3>3. QED
      BY <1>8, <3>2 DEF qn, po, qo, pn, old, new
  <2>3. CASE new < old
    <3>1. a * pn < b * po /\ b * qo <= a * qn
      BY <1>7, <1>10, <2>3
    <3>2. qo * pn < qn * po
      <4>1. pn * a < b * po /\ b * qo <= qn * a
        BY <1>5, <2>1, <3>1, SMT
      <4>2. pn * qo < qn * po
        BY <1>5, <2>1, <4>1, QuotientsLess
      <4>3. pn * qo = qo * pn
        BY <2>1, SMT
      <4>4. QED
        BY <4>2, <4>3
    <3>3. QED
      BY <1>8, <3>2 DEF qn, po, qo, pn, old, new
  <2>4. QED
    BY <1>3, <2>2, <2>3
<1>11. QED
  BY <1>4, <1>9, <1>10

-----------------------------------------------------------------------------
(* Columns and rows.                                                        *)

\* The index of a cell is in its matrix.
LEMMA CellIndex ==
  ASSUME NEW R \in Nat, NEW C \in Nat, NEW r \in 1 .. R, NEW k \in 1 .. C
  PROVE  (r - 1) * C + k \in 1 .. R * C
<1> DEFINE s == r - 1
<1>1. s \in Nat /\ s <= R - 1 /\ C \in Nat \ {0}
  OBVIOUS
<1> HIDE DEF s
<1>2. C * s <= C * (R - 1)
  BY <1>1, TimesLess
<1>3. C * s = s * C /\ C * (R - 1) = R * C - C /\ s * C \in Nat /\ R * C \in Int
  BY <1>1, SMT
<1>4. s * C + k \in 1 .. R * C
  BY <1>1, <1>2, <1>3
<1>5. QED
  BY <1>4 DEF s

\* A column whose masked fields or set fields are those of the event.
ColumnMatches(mask, attrs, e) ==
  IF mask = Missing THEN IsMatch(attrs, e)
  ELSE \A f \in mask : attrs[f] = e[f]

LEMMA MaskedSame ==
  ASSUME NEW x, NEW e, NEW mask \in SUBSET Fields
  PROVE  Masked(x, mask) = Masked(e, mask) <=> \A f \in mask : x[f] = e[f]
<1>1. ASSUME Masked(x, mask) = Masked(e, mask), NEW f \in mask
      PROVE  x[f] = e[f]
  <2>1. f \in Fields
    OBVIOUS
  <2>2. Masked(x, mask)[f] = x[f] /\ Masked(e, mask)[f] = e[f]
    BY <2>1 DEF Masked
  <2>3. QED
    BY <1>1, <2>2
<1>2. ASSUME \A f \in mask : x[f] = e[f]
      PROVE  Masked(x, mask) = Masked(e, mask)
  BY <1>2 DEF Masked
<1>3. QED
  BY <1>1, <1>2

\* The first match, if there is any.
LEMMA FirstMatch ==
  ASSUME NEW S, NEW filters \in Seq(S), NEW e
  PROVE  \/ /\ GetFirstMatch(filters, e) = kNoMatchingIndex
            /\ \A k \in DOMAIN filters : ~ IsMatch(filters[k], e)
         \/ \E k \in DOMAIN filters :
              /\ GetFirstMatch(filters, e) = k - 1
              /\ IsMatch(filters[k], e)
              /\ \A j \in 1 .. k - 1 : ~ IsMatch(filters[j], e)
<1> DEFINE matching == {k \in DOMAIN filters : IsMatch(filters[k], e)}
           first == CHOOSE k \in matching : \A l \in matching : k <= l
<1>1. CASE matching = {}
  BY <1>1 DEF GetFirstMatch
<1>2. CASE matching # {}
  <2>1. matching \in SUBSET Nat /\ DOMAIN filters = 1 .. Len(filters)
        /\ Len(filters) \in Nat
    OBVIOUS
  <2>2. GetFirstMatch(filters, e) = first - 1
    BY <1>2 DEF GetFirstMatch
  <2>3. first \in matching /\ \A l \in matching : first <= l
    <3> HIDE DEF matching
    <3>1. \E k \in matching : \A l \in matching : k <= l
      BY <1>2, <2>1, NatMinimum
    <3>2. QED
      BY <3>1
  <2> HIDE DEF first
  <2>4. first \in DOMAIN filters /\ IsMatch(filters[first], e)
    BY <2>3
  <2>5. ASSUME NEW j \in 1 .. first - 1 PROVE ~ IsMatch(filters[j], e)
    <3>1. j \in DOMAIN filters /\ ~ (first <= j)
      BY <2>1, <2>4
    <3>2. QED
      BY <2>3, <3>1
  <2>6. QED
    BY <2>2, <2>4, <2>5
<1>3. QED
  BY <1>1, <1>2

\* The column that SelectFromMatrix finds is the first that matches.
LEMMA ColumnFacts ==
  ASSUME NEW u, NEW e, u.columns \in Seq(LabelerEvent),
         u.hash_field_mask \in Optional(SUBSET Fields),
         HasColumnMatcher(u.columns, u.hash_field_mask)
  PROVE  \/ /\ ColumnOf(u, e) = kNoMatchingIndex
            /\ \A k \in DOMAIN u.columns :
                 ~ ColumnMatches(u.hash_field_mask, u.columns[k], e)
         \/ \E k \in DOMAIN u.columns :
              /\ ColumnOf(u, e) = k - 1
              /\ ColumnMatches(u.hash_field_mask, u.columns[k], e)
              /\ \A j \in 1 .. k - 1 :
                   ~ ColumnMatches(u.hash_field_mask, u.columns[j], e)
<1> DEFINE cs == u.columns
           mask == u.hash_field_mask
<1>1. CASE mask = Missing
  <2>1. ColumnOf(u, e) = GetFirstMatch(cs, e)
    BY <1>1 DEF ColumnOf
  <2>2. \A k : ColumnMatches(mask, cs[k], e) <=> IsMatch(cs[k], e)
    BY <1>1 DEF ColumnMatches
  <2> HIDE DEF cs, mask
  <2>3. cs \in Seq(LabelerEvent)
    BY DEF cs
  <2>4. QED
    BY <2>1, <2>2, <2>3, FirstMatch, Zenon DEF cs, mask
<1>2. CASE mask # Missing
  <2> DEFINE matching == {k \in DOMAIN cs : Masked(cs[k], mask) = Masked(e, mask)}
             one == CHOOSE k \in matching : TRUE
  <2>1. mask \in SUBSET Fields
    BY <1>2 DEF Optional
  <2>2. \A k : ColumnMatches(mask, cs[k], e)
                 <=> Masked(cs[k], mask) = Masked(e, mask)
    <3> HIDE DEF cs, mask
    <3>1. QED
      BY <1>2, <2>1, MaskedSame DEF ColumnMatches
  <2>3. ColumnOf(u, e) = IF matching = {} THEN kNoMatchingIndex ELSE one - 1
    BY <1>2 DEF ColumnOf, GetMatch
  <2>4. \A j, k \in DOMAIN cs :
          j # k => Masked(cs[j], mask) # Masked(cs[k], mask)
    BY <1>2 DEF HasColumnMatcher, HasMatcher
  <2>5. CASE matching = {}
    <3>1. ColumnOf(u, e) = kNoMatchingIndex
      BY <2>3, <2>5
    <3>2. \A k \in DOMAIN cs : ~ ColumnMatches(mask, cs[k], e)
      BY <2>2, <2>5
    <3>3. QED
      BY <3>1, <3>2
  <2>6. CASE matching # {}
    <3>1. ColumnOf(u, e) = one - 1
      BY <2>3, <2>6
    <3>2. one \in matching
      <4> HIDE DEF matching
      <4>1. QED
        BY <2>6
    <3> HIDE DEF one
    <3>3. one \in DOMAIN cs /\ Masked(cs[one], mask) = Masked(e, mask)
      BY <3>2
    <3>4. ASSUME NEW j \in 1 .. one - 1 PROVE ~ ColumnMatches(mask, cs[j], e)
      <4>1. j \in DOMAIN cs /\ j # one
        BY <3>3
      <4>2. QED
        BY <2>2, <2>4, <3>3, <4>1
    <3>5. ColumnMatches(mask, cs[one], e)
      BY <2>2, <3>3
    <3>6. QED
      BY <3>1, <3>3, <3>4, <3>5
  <2>7. QED
    BY <2>5, <2>6
<1>3. QED
  BY <1>1, <1>2

\* What SelectFromMatrix returns is no error when it has both indexes.
LEMMA IndexesAreNoError ==
  ASSUME NEW column, NEW row
  PROVE  MatrixIndexes(column, row) # Internal
<1>1. ASSUME MatrixIndexes(column, row) = Internal PROVE FALSE
  <2>1. [column |-> column, row |-> row] = [error |-> "internal"]
    BY <1>1 DEF MatrixIndexes, Internal
  <2>2. /\ DOMAIN [column |-> column, row |-> row] = {"column", "row"}
        /\ DOMAIN [error |-> "internal"] = {"error"}
    OBVIOUS
  <2>3. "column" \in {"error"}
    BY <2>1, <2>2
  <2>4. QED
    BY <2>3
<1>2. QED
  BY <1>1

\* No index of a matrix is out of range.
LEMMA SelectIndexes ==
  ASSUME NEW u, NEW e, NEW h, u.columns \in Seq(LabelerEvent),
         u.hash_field_mask \in Optional(SUBSET Fields),
         HasColumnMatcher(u.columns, u.hash_field_mask),
         DOMAIN u.row_hashings = DOMAIN u.columns
  PROVE  LET column == ColumnOf(u, e)
         IN  /\ SelectFromMatrix(u, e, h) # Internal
             /\ SelectFromMatrix(u, e, h).column = column
             /\ SelectFromMatrix(u, e, h).row =
                  IF column = kNoMatchingIndex THEN kNoMatchingIndex
                  ELSE Hash(u.row_hashings[column + 1], h)
<1> DEFINE column == ColumnOf(u, e)
           row == IF column = kNoMatchingIndex THEN kNoMatchingIndex
                  ELSE Hash(u.row_hashings[column + 1], h)
<1>1. SelectFromMatrix(u, e, h) = MatrixIndexes(column, row)
  <2>1. CASE column = kNoMatchingIndex
    BY <2>1 DEF SelectFromMatrix
  <2>2. CASE column # kNoMatchingIndex
    <3>1. PICK k \in DOMAIN u.columns : column = k - 1
      BY <2>2, ColumnFacts
    <3>2. column + 1 \in DOMAIN u.row_hashings
      <4>1. k \in Nat
        OBVIOUS
      <4>2. column + 1 = k
        BY <3>1, <4>1
      <4>3. QED
        BY <4>2
    <3>3. QED
      BY <2>2, <3>2 DEF SelectFromMatrix
  <2>3. QED
    BY <2>1, <2>2
<1>2. /\ SelectFromMatrix(u, e, h).column = column
      /\ SelectFromMatrix(u, e, h).row = row
      /\ SelectFromMatrix(u, e, h) # Internal
  <2> HIDE DEF column, row
  <2>1. QED
    BY <1>1, IndexesAreNoError DEF MatrixIndexes
<1>3. QED
  BY <1>2

\* The column and the row of a matrix.
LEMMA SelectFacts ==
  ASSUME NEW u, NEW e, NEW h \in ExpHashes, u.columns \in Seq(LabelerEvent),
         u.hash_field_mask \in Optional(SUBSET Fields),
         HasColumnMatcher(u.columns, u.hash_field_mask),
         DOMAIN u.row_hashings = DOMAIN u.columns,
         \A k \in DOMAIN u.columns : /\ u.row_hashings[k] \in Probabilities
                                     /\ IsDistribution(u.row_hashings[k])
  PROVE  \/ /\ SelectFromMatrix(u, e, h).column = kNoMatchingIndex
            /\ \A k \in DOMAIN u.columns :
                 ~ ColumnMatches(u.hash_field_mask, u.columns[k], e)
         \/ \E k \in DOMAIN u.columns :
              /\ SelectFromMatrix(u, e, h).column = k - 1
              /\ ColumnMatches(u.hash_field_mask, u.columns[k], e)
              /\ \A j \in 1 .. k - 1 :
                   ~ ColumnMatches(u.hash_field_mask, u.columns[j], e)
              /\ \E r \in 1 .. Len(u.row_hashings[k]) :
                   /\ SelectFromMatrix(u, e, h).row = r - 1
                   /\ u.row_hashings[k][r] > 0
<1> DEFINE column == ColumnOf(u, e)
           row == IF column = kNoMatchingIndex THEN kNoMatchingIndex
                  ELSE Hash(u.row_hashings[column + 1], h)
<1>2. SelectFromMatrix(u, e, h).column = column /\ SelectFromMatrix(u, e, h).row = row
  BY SelectIndexes
<1>3. CASE /\ column = kNoMatchingIndex
           /\ \A k \in DOMAIN u.columns :
                ~ ColumnMatches(u.hash_field_mask, u.columns[k], e)
  BY <1>2, <1>3
<1>4. ASSUME NEW k \in DOMAIN u.columns, column = k - 1
      PROVE  \E r \in 1 .. Len(u.row_hashings[k]) :
               row = r - 1 /\ u.row_hashings[k][r] > 0
  <2> DEFINE ps == u.row_hashings[k]
  <2>1. k \in Nat \ {0}
    OBVIOUS
  <2>2. column # kNoMatchingIndex /\ column + 1 = k
    BY <1>4, <2>1 DEF kNoMatchingIndex
  <2>3. row = Hash(ps, h)
    BY <2>2
  <2>4. ps \in Probabilities /\ IsDistribution(ps)
    OBVIOUS
  <2> HIDE DEF ps, row, column
  <2>5. Hash(ps, h) \in 0 .. Len(ps) - 1 /\ ps[Hash(ps, h) + 1] > 0
    BY <2>4, HashFacts DEF IsBestOf
  <2>6. Len(ps) \in Nat
    BY <2>4 DEF Probabilities
  <2> DEFINE r == Hash(ps, h) + 1
  <2>7. r \in 1 .. Len(ps) /\ row = r - 1 /\ ps[r] > 0
    BY <2>3, <2>5, <2>6
  <2> HIDE DEF r
  <2>8. QED
    BY <2>7 DEF ps
<1>5. CASE \E k \in DOMAIN u.columns :
             /\ column = k - 1
             /\ ColumnMatches(u.hash_field_mask, u.columns[k], e)
             /\ \A j \in 1 .. k - 1 :
                  ~ ColumnMatches(u.hash_field_mask, u.columns[j], e)
  <2> HIDE DEF column, row
  <2>1. QED
    BY <1>2, <1>4, <1>5
<1>6. QED
  <2> HIDE DEF row
  <2>1. QED
    BY <1>3, <1>5, ColumnFacts

\* What Build has checked of a dense matrix.
LEMMA DenseBuilt ==
  ASSUME NEW c \in UpdateMatrixMessage, BuildUpdateMatrix(c) # Refused
  PROVE  /\ BuildUpdateMatrix(c) =
              [kind |-> "update_matrix",
               columns |-> c.columns, hash_field_mask |-> c.hash_field_mask,
               row_hashings |-> [k \in DOMAIN c.columns |-> ColumnDistribution(c, k)],
               rows |-> c.rows, pass_through |-> c.pass_through]
         /\ HasColumnMatcher(c.columns, c.hash_field_mask) /\ c.columns # <<>>
         /\ \A k \in DOMAIN c.columns :
              /\ ColumnDistribution(c, k) \in Probabilities
              /\ IsDistribution(ColumnDistribution(c, k))
              /\ Len(ColumnDistribution(c, k)) = Len(c.rows)
<1>1. /\ c.rows # <<>> /\ c.columns # <<>>
      /\ Len(c.rows) * Len(c.columns) = Len(c.probabilities)
      /\ HasColumnMatcher(c.columns, c.hash_field_mask)
      /\ \A k \in DOMAIN c.columns : IsDistribution(ColumnDistribution(c, k))
  BY Zenon DEF BuildUpdateMatrix
<1>2. /\ c.rows \in Seq(LabelerEvent) /\ Len(c.rows) <= MaxRows
      /\ c.columns \in Seq(LabelerEvent) /\ c.probabilities \in Seq(Int)
  BY DEF UpdateMatrixMessage, Rows
<1> DEFINE R == Len(c.rows)
           C == Len(c.columns)
           ps == c.probabilities
<1>3. /\ R \in Nat /\ C \in Nat /\ R * C = Len(ps) /\ DOMAIN c.rows = 1 .. R
      /\ DOMAIN c.columns = 1 .. C /\ R <= MaxRows
  <2>1. R * C = Len(ps)
    BY <1>1, Zenon
  <2>2. /\ R \in Nat /\ C \in Nat /\ DOMAIN c.rows = 1 .. R
        /\ DOMAIN c.columns = 1 .. C /\ R <= MaxRows
    BY <1>2
  <2>3. QED
    BY <2>1, <2>2, Zenon
<1>4. ps \in [1 .. R * C -> Int]
  <2>1. ps \in [1 .. Len(ps) -> Int]
    BY <1>2
  <2> HIDE DEF R, C, ps
  <2>2. QED
    BY <1>3, <2>1
<1>5. ASSUME NEW k \in DOMAIN c.columns
      PROVE  /\ ColumnDistribution(c, k) \in Probabilities
             /\ Len(ColumnDistribution(c, k)) = Len(c.rows)
  <2> DEFINE q == [r \in 1 .. R |-> ps[(r - 1) * C + k]]
  <2>1. ColumnDistribution(c, k) = q
    BY <1>3 DEF ColumnDistribution
  <2>2. ASSUME NEW r \in 1 .. R PROVE ps[(r - 1) * C + k] \in Int
    <3>1. k \in 1 .. C
      BY <1>3
    <3> HIDE DEF R, C, ps
    <3>2. (r - 1) * C + k \in 1 .. R * C
      BY <1>3, <3>1, CellIndex
    <3>3. QED
      BY <1>4, <3>2
  <2> HIDE DEF R, C, ps
  <2>3. q \in [1 .. R -> Int]
    BY <2>2
  <2> HIDE DEF q
  <2>4. q \in Seq(Int) /\ Len(q) = R
    BY <1>3, <2>3
  <2>5. QED
    BY <1>3, <2>1, <2>4 DEF Probabilities, R
<1>6. BuildUpdateMatrix(c) =
        [kind |-> "update_matrix",
         columns |-> c.columns, hash_field_mask |-> c.hash_field_mask,
         row_hashings |-> [k \in DOMAIN c.columns |-> ColumnDistribution(c, k)],
         rows |-> c.rows, pass_through |-> c.pass_through]
  BY <1>1, Zenon DEF BuildUpdateMatrix
<1>7. QED
  BY <1>1, <1>5, <1>6

\* What Build has checked of a sparse matrix.
LEMMA SparseBuilt ==
  ASSUME NEW c \in SparseUpdateMatrixMessage, BuildSparseUpdateMatrix(c) # Refused
  PROVE  /\ BuildSparseUpdateMatrix(c) =
              [kind |-> "sparse_update_matrix",
               columns |-> SparseColumns(c), hash_field_mask |-> c.hash_field_mask,
               row_hashings |-> [k \in DOMAIN c.columns |-> c.columns[k].probabilities],
               rows |-> [k \in DOMAIN c.columns |-> c.columns[k].rows],
               pass_through |-> c.pass_through]
         /\ HasColumnMatcher(SparseColumns(c), c.hash_field_mask)
         /\ SparseColumns(c) \in Seq(LabelerEvent)
         /\ DOMAIN SparseColumns(c) = DOMAIN c.columns
         /\ \A k \in DOMAIN c.columns :
              /\ c.columns[k].probabilities \in Probabilities
              /\ IsDistribution(c.columns[k].probabilities)
              /\ Len(c.columns[k].probabilities) = Len(c.columns[k].rows)
              /\ c.columns[k].rows \in Rows
<1>1. /\ \A k \in DOMAIN c.columns : IsColumn(c.columns[k])
      /\ HasColumnMatcher(SparseColumns(c), c.hash_field_mask)
      /\ \A k \in DOMAIN c.columns : IsDistribution(c.columns[k].probabilities)
  BY Zenon DEF BuildSparseUpdateMatrix
<1>2. c.columns \in Seq(SparseColumn)
  BY DEF SparseUpdateMatrixMessage
<1>3. ASSUME NEW k \in DOMAIN c.columns
      PROVE  /\ c.columns[k].probabilities \in Probabilities
             /\ IsDistribution(c.columns[k].probabilities)
             /\ Len(c.columns[k].probabilities) = Len(c.columns[k].rows)
             /\ c.columns[k].rows \in Rows
             /\ c.columns[k].column_attrs \in LabelerEvent
  <2> DEFINE column == c.columns[k]
  <2>1. column \in SparseColumn
    BY <1>2
  <2>2. IsColumn(column) /\ IsDistribution(column.probabilities)
    BY <1>1
  <2> HIDE DEF column
  <2>3. /\ column.column_attrs \in Optional(LabelerEvent) /\ column.rows \in Rows
        /\ column.probabilities \in Seq(Int)
    BY <2>1 DEF SparseColumn
  <2>4. /\ column.column_attrs \in LabelerEvent
        /\ Len(column.probabilities) = Len(column.rows)
    BY <2>2, <2>3 DEF IsColumn, Optional
  <2>5. column.probabilities \in Probabilities
    BY <2>3, <2>4 DEF Probabilities, Rows
  <2>6. QED
    BY <2>2, <2>3, <2>4, <2>5 DEF column
<1>4. /\ SparseColumns(c) \in Seq(LabelerEvent)
      /\ DOMAIN SparseColumns(c) = DOMAIN c.columns
  <2>1. DOMAIN c.columns = 1 .. Len(c.columns) /\ Len(c.columns) \in Nat
    BY <1>2
  <2>2. SparseColumns(c) = [k \in DOMAIN c.columns |-> c.columns[k].column_attrs]
    BY DEF SparseColumns
  <2>3. SparseColumns(c) \in [1 .. Len(c.columns) -> LabelerEvent]
    BY <1>3, <2>1, <2>2
  <2>4. QED
    BY <2>1, <2>3
<1>5. BuildSparseUpdateMatrix(c) =
        [kind |-> "sparse_update_matrix",
         columns |-> SparseColumns(c), hash_field_mask |-> c.hash_field_mask,
         row_hashings |-> [k \in DOMAIN c.columns |-> c.columns[k].probabilities],
         rows |-> [k \in DOMAIN c.columns |-> c.columns[k].rows],
         pass_through |-> c.pass_through]
  BY Zenon DEF BuildSparseUpdateMatrix
<1>6. QED
  BY <1>1, <1>3, <1>4, <1>5

\* A dense matrix merges a row of its column, or does what is for no match.
LEMMA DenseUpdates ==
  ASSUME NEW c \in UpdateMatrixMessage, BuildUpdateMatrix(c) # Refused,
         NEW e, NEW h \in ExpHashes
  PROVE  \/ /\ \A k \in DOMAIN c.columns :
                 ~ ColumnMatches(c.hash_field_mask, c.columns[k], e)
            /\ UpdateByMatrix(BuildUpdateMatrix(c), e, h)
                 = IF c.pass_through THEN e ELSE Failed
         \/ \E k \in DOMAIN c.columns :
              /\ ColumnMatches(c.hash_field_mask, c.columns[k], e)
              /\ \A j \in 1 .. k - 1 :
                   ~ ColumnMatches(c.hash_field_mask, c.columns[j], e)
              /\ \E r \in DOMAIN c.rows :
                   /\ ColumnDistribution(c, k)[r] > 0
                   /\ UpdateByMatrix(BuildUpdateMatrix(c), e, h)
                        = MergeFrom(e, c.rows[r])
<1> DEFINE u == BuildUpdateMatrix(c)
           s == SelectFromMatrix(u, e, h)
<1>1. /\ u.columns = c.columns /\ u.hash_field_mask = c.hash_field_mask
      /\ u.rows = c.rows /\ u.pass_through = c.pass_through
      /\ u.row_hashings = [k \in DOMAIN c.columns |-> ColumnDistribution(c, k)]
  BY DenseBuilt
<1>2. /\ c.columns \in Seq(LabelerEvent) /\ c.rows \in Seq(LabelerEvent)
      /\ c.hash_field_mask \in Optional(SUBSET Fields)
  BY DEF UpdateMatrixMessage, Rows
<1>3. /\ HasColumnMatcher(c.columns, c.hash_field_mask)
      /\ \A k \in DOMAIN c.columns :
           /\ ColumnDistribution(c, k) \in Probabilities
           /\ IsDistribution(ColumnDistribution(c, k))
           /\ Len(ColumnDistribution(c, k)) = Len(c.rows)
  BY DenseBuilt
<1>4. s # Internal =>
        UpdateByMatrix(u, e, h) = IF s.column = kNoMatchingIndex THEN NoMatch(u, e)
                                  ELSE MergeRow(u.rows, s.row, e)
  BY DEF UpdateByMatrix
<1>5. \A k \in DOMAIN c.columns : u.row_hashings[k] = ColumnDistribution(c, k)
  <2> HIDE DEF u
  <2>1. QED
    BY <1>1
<1> HIDE DEF u
<1>6. s # Internal
  <2>1. /\ u.columns \in Seq(LabelerEvent)
        /\ u.hash_field_mask \in Optional(SUBSET Fields)
        /\ HasColumnMatcher(u.columns, u.hash_field_mask)
        /\ DOMAIN u.row_hashings = DOMAIN u.columns
    BY <1>1, <1>2, <1>3
  <2>2. QED
    BY <2>1, SelectIndexes
<1>7. \/ /\ s.column = kNoMatchingIndex
         /\ \A k \in DOMAIN c.columns :
              ~ ColumnMatches(c.hash_field_mask, c.columns[k], e)
      \/ \E k \in DOMAIN c.columns :
           /\ s.column = k - 1
           /\ ColumnMatches(c.hash_field_mask, c.columns[k], e)
           /\ \A j \in 1 .. k - 1 :
                ~ ColumnMatches(c.hash_field_mask, c.columns[j], e)
           /\ \E r \in 1 .. Len(ColumnDistribution(c, k)) :
                s.row = r - 1 /\ ColumnDistribution(c, k)[r] > 0
  <2>1. /\ u.columns \in Seq(LabelerEvent)
        /\ u.hash_field_mask \in Optional(SUBSET Fields)
        /\ HasColumnMatcher(u.columns, u.hash_field_mask)
        /\ \A k \in DOMAIN u.columns : /\ u.row_hashings[k] \in Probabilities
                                       /\ IsDistribution(u.row_hashings[k])
        /\ DOMAIN u.row_hashings = DOMAIN u.columns
    BY <1>1, <1>2, <1>3, <1>5
  <2>2. \/ /\ s.column = kNoMatchingIndex
           /\ \A k \in DOMAIN u.columns :
                ~ ColumnMatches(u.hash_field_mask, u.columns[k], e)
        \/ \E k \in DOMAIN u.columns :
             /\ s.column = k - 1
             /\ ColumnMatches(u.hash_field_mask, u.columns[k], e)
             /\ \A j \in 1 .. k - 1 :
                  ~ ColumnMatches(u.hash_field_mask, u.columns[j], e)
             /\ \E r \in 1 .. Len(u.row_hashings[k]) :
                  s.row = r - 1 /\ u.row_hashings[k][r] > 0
    BY <2>1, SelectFacts
  <2> HIDE DEF s
  <2>3. QED
    BY <1>1, <1>5, <2>2
<1> HIDE DEF s
<1>8. CASE /\ s.column = kNoMatchingIndex
           /\ \A k \in DOMAIN c.columns :
                ~ ColumnMatches(c.hash_field_mask, c.columns[k], e)
  <2>1. UpdateByMatrix(u, e, h) = IF c.pass_through THEN e ELSE Failed
    BY <1>1, <1>4, <1>6, <1>8 DEF NoMatch
  <2>2. QED
    BY <1>8, <2>1 DEF u
<1>9. ASSUME NEW k \in DOMAIN c.columns, s.column = k - 1,
             NEW r \in 1 .. Len(ColumnDistribution(c, k)), s.row = r - 1
      PROVE  r \in DOMAIN c.rows /\ UpdateByMatrix(u, e, h) = MergeFrom(e, c.rows[r])
  <2>1. r \in 1 .. Len(c.rows) /\ Len(c.rows) \in Nat /\ k \in Nat \ {0}
    BY <1>2, <1>3
  <2>2. s.column # kNoMatchingIndex
    BY <1>9, <2>1 DEF kNoMatchingIndex
  <2>3. UpdateByMatrix(u, e, h) = MergeRow(c.rows, r - 1, e)
    BY <1>1, <1>4, <1>6, <1>9, <2>2
  <2>4. MergeRow(c.rows, r - 1, e) = MergeFrom(e, c.rows[r])
    BY <2>1 DEF MergeRow
  <2>5. QED
    BY <1>2, <2>1, <2>3, <2>4
<1>10. QED
  BY <1>7, <1>8, <1>9 DEF u

\* The same of a sparse matrix.
LEMMA SparseUpdates ==
  ASSUME NEW c \in SparseUpdateMatrixMessage, BuildSparseUpdateMatrix(c) # Refused,
         NEW e, NEW h \in ExpHashes
  PROVE  \/ /\ \A k \in DOMAIN c.columns :
                 ~ ColumnMatches(c.hash_field_mask, c.columns[k].column_attrs, e)
            /\ UpdateBySparseMatrix(BuildSparseUpdateMatrix(c), e, h)
                 = IF c.pass_through THEN e ELSE Failed
         \/ \E k \in DOMAIN c.columns :
              /\ ColumnMatches(c.hash_field_mask, c.columns[k].column_attrs, e)
              /\ \A j \in 1 .. k - 1 :
                   ~ ColumnMatches(c.hash_field_mask, c.columns[j].column_attrs, e)
              /\ \E r \in DOMAIN c.columns[k].rows :
                   /\ c.columns[k].probabilities[r] > 0
                   /\ UpdateBySparseMatrix(BuildSparseUpdateMatrix(c), e, h)
                        = MergeFrom(e, c.columns[k].rows[r])
<1> DEFINE u == BuildSparseUpdateMatrix(c)
           s == SelectFromMatrix(u, e, h)
           cs == c.columns
           attrs == SparseColumns(c)
<1>1. /\ u.columns = attrs /\ u.hash_field_mask = c.hash_field_mask
      /\ u.pass_through = c.pass_through
      /\ u.rows = [k \in DOMAIN cs |-> cs[k].rows]
      /\ u.row_hashings = [k \in DOMAIN cs |-> cs[k].probabilities]
  <2> DEFINE rs == [k \in DOMAIN cs |-> cs[k].rows]
             ps == [k \in DOMAIN cs |-> cs[k].probabilities]
  <2>1. u = [kind |-> "sparse_update_matrix",
             columns |-> attrs, hash_field_mask |-> c.hash_field_mask,
             row_hashings |-> ps, rows |-> rs, pass_through |-> c.pass_through]
    BY SparseBuilt, Zenon
  <2> HIDE DEF u, attrs, rs, ps
  <2>2. /\ u.columns = attrs /\ u.hash_field_mask = c.hash_field_mask
        /\ u.pass_through = c.pass_through /\ u.rows = rs /\ u.row_hashings = ps
    BY <2>1
  <2>3. QED
    BY <2>2 DEF rs, ps
<1>2. cs \in Seq(SparseColumn) /\ c.hash_field_mask \in Optional(SUBSET Fields)
  BY DEF SparseUpdateMatrixMessage
<1>3. /\ HasColumnMatcher(attrs, c.hash_field_mask)
      /\ attrs \in Seq(LabelerEvent) /\ DOMAIN attrs = DOMAIN cs
      /\ \A k \in DOMAIN cs : /\ cs[k].probabilities \in Probabilities
                              /\ IsDistribution(cs[k].probabilities)
                              /\ Len(cs[k].probabilities) = Len(cs[k].rows)
                              /\ cs[k].rows \in Rows
  BY SparseBuilt
<1>4. s # Internal =>
        UpdateBySparseMatrix(u, e, h)
          = IF s.column = kNoMatchingIndex THEN NoMatch(u, e)
            ELSE IF s.column + 1 \notin DOMAIN u.rows THEN Internal
            ELSE MergeRow(u.rows[s.column + 1], s.row, e)
  BY DEF UpdateBySparseMatrix
<1>5. DOMAIN cs = 1 .. Len(cs) /\ Len(cs) \in Nat
  BY <1>2
<1>6. \A k \in DOMAIN cs : attrs[k] = cs[k].column_attrs
  BY DEF SparseColumns
<1> HIDE DEF u, cs, attrs
<1>7. \A k \in DOMAIN cs : /\ u.row_hashings[k] = cs[k].probabilities
                           /\ u.rows[k] = cs[k].rows
  BY <1>1
<1>8. s # Internal
  <2>1. /\ u.columns \in Seq(LabelerEvent)
        /\ u.hash_field_mask \in Optional(SUBSET Fields)
        /\ HasColumnMatcher(u.columns, u.hash_field_mask)
        /\ DOMAIN u.row_hashings = DOMAIN u.columns
    BY <1>1, <1>2, <1>3
  <2>2. QED
    BY <2>1, SelectIndexes
<1>9. \/ /\ s.column = kNoMatchingIndex
         /\ \A k \in DOMAIN cs : ~ ColumnMatches(c.hash_field_mask, attrs[k], e)
      \/ \E k \in DOMAIN cs :
           /\ s.column = k - 1
           /\ ColumnMatches(c.hash_field_mask, attrs[k], e)
           /\ \A j \in 1 .. k - 1 : ~ ColumnMatches(c.hash_field_mask, attrs[j], e)
           /\ \E r \in 1 .. Len(cs[k].probabilities) :
                s.row = r - 1 /\ cs[k].probabilities[r] > 0
  <2>1. /\ u.columns \in Seq(LabelerEvent)
        /\ u.hash_field_mask \in Optional(SUBSET Fields)
        /\ HasColumnMatcher(u.columns, u.hash_field_mask)
        /\ \A k \in DOMAIN u.columns : /\ u.row_hashings[k] \in Probabilities
                                       /\ IsDistribution(u.row_hashings[k])
        /\ DOMAIN u.row_hashings = DOMAIN u.columns
    BY <1>1, <1>2, <1>3, <1>7
  <2>2. \/ /\ s.column = kNoMatchingIndex
           /\ \A k \in DOMAIN u.columns :
                ~ ColumnMatches(u.hash_field_mask, u.columns[k], e)
        \/ \E k \in DOMAIN u.columns :
             /\ s.column = k - 1
             /\ ColumnMatches(u.hash_field_mask, u.columns[k], e)
             /\ \A j \in 1 .. k - 1 :
                  ~ ColumnMatches(u.hash_field_mask, u.columns[j], e)
             /\ \E r \in 1 .. Len(u.row_hashings[k]) :
                  s.row = r - 1 /\ u.row_hashings[k][r] > 0
    BY <2>1, SelectFacts
  <2> HIDE DEF s
  <2>3. QED
    BY <1>1, <1>3, <1>7, <2>2
<1> HIDE DEF s
<1>10. CASE /\ s.column = kNoMatchingIndex
           /\ \A k \in DOMAIN cs : ~ ColumnMatches(c.hash_field_mask, attrs[k], e)
  <2>1. UpdateBySparseMatrix(u, e, h) = IF c.pass_through THEN e ELSE Failed
    BY <1>1, <1>4, <1>8, <1>10 DEF NoMatch
  <2>2. QED
    BY <1>6, <1>10, <2>1 DEF u, cs
<1>11. ASSUME NEW k \in DOMAIN cs, s.column = k - 1,
              NEW r \in 1 .. Len(cs[k].probabilities), s.row = r - 1
       PROVE  /\ r \in DOMAIN cs[k].rows
              /\ UpdateBySparseMatrix(u, e, h) = MergeFrom(e, cs[k].rows[r])
  <2> DEFINE rows == cs[k].rows
  <2>1. rows \in Seq(LabelerEvent) /\ r \in 1 .. Len(rows) /\ k \in Nat \ {0}
    BY <1>3, <1>5 DEF Rows
  <2>2. s.column # kNoMatchingIndex /\ s.column + 1 = k
    BY <1>11, <2>1 DEF kNoMatchingIndex
  <2>3. UpdateBySparseMatrix(u, e, h) = MergeRow(rows, r - 1, e)
    <3>1. s.column + 1 \in DOMAIN u.rows
      BY <1>1, <2>2
    <3>2. QED
      BY <1>4, <1>7, <1>8, <1>11, <2>2, <3>1
  <2> HIDE DEF rows
  <2>4. MergeRow(rows, r - 1, e) = MergeFrom(e, rows[r]) /\ r \in DOMAIN rows
    BY <2>1 DEF MergeRow
  <2>5. QED
    BY <2>3, <2>4 DEF rows
<1>12. ASSUME NEW k \in DOMAIN cs, NEW j \in 1 .. k - 1 PROVE j \in DOMAIN cs
  BY <1>5
<1>13. QED
  BY <1>6, <1>9, <1>10, <1>11, <1>12 DEF u, cs

-----------------------------------------------------------------------------
(* The updater is what Build makes of its message, and the answer what       *)
(* Update makes of the event.                                               *)

UpdatersInv ==
  /\ config \in Configs /\ updater = Built(config)
  /\ \/ before = NoEvent /\ after = NoEvent
     \/ /\ updater # Refused /\ before \in Events /\ hash \in Hashes
        /\ after = Updated(updater, before, hash)

LEMMA UpdatersInvHolds == Spec => []UpdatersInv
<1>1. Init => UpdatersInv
  BY DEF Init, UpdatersInv
<1>2. ASSUME UpdatersInv, [Next]_vars PROVE UpdatersInv'
  <2>1. ASSUME NEW c \in Configs, Build(c) PROVE UpdatersInv'
    BY <2>1 DEF Build, UpdatersInv
  <2>2. ASSUME NEW e \in Events, NEW h \in Hashes, Update(e, h) PROVE UpdatersInv'
    BY <1>2, <2>2 DEF Update, UpdatersInv
  <2>3. CASE UNCHANGED vars
    BY <1>2, <2>3 DEF vars, UpdatersInv
  <2>4. QED
    BY <1>2, <2>1, <2>2, <2>3 DEF Next
<1>3. QED
  BY <1>1, <1>2, PTL DEF Spec

\* A message is of its kind.
LEMMA Kinds ==
  ASSUME NEW c \in Configs
  PROVE  /\ c.kind = "update_matrix" => c \in UpdateMatrixMessage
         /\ c.kind = "sparse_update_matrix" => c \in SparseUpdateMatrixMessage
         /\ c.kind = "conditional_merge" => c \in ConditionalMergeMessage
         /\ c.kind = "conditional_assignment" => c \in ConditionalAssignmentMessage
         /\ c.kind = "geometric_shredder" => c \in GeometricShredderMessage
         /\ c.kind = "quantum_labels" => c \in QuantumLabelsMessage
         /\ c.kind \in {"update_matrix", "sparse_update_matrix",
                        "conditional_merge", "conditional_assignment",
                        "geometric_shredder", "quantum_labels", "not_set"}
<1>1. /\ c \in UpdateMatrixMessage => c.kind = "update_matrix"
      /\ c \in SparseUpdateMatrixMessage => c.kind = "sparse_update_matrix"
      /\ c \in ConditionalMergeMessage => c.kind = "conditional_merge"
      /\ c \in ConditionalAssignmentMessage => c.kind = "conditional_assignment"
      /\ c \in GeometricShredderMessage => c.kind = "geometric_shredder"
      /\ c \in QuantumLabelsMessage => c.kind = "quantum_labels"
      /\ c \in [kind : {"not_set"}] => c.kind = "not_set"
  BY DEF UpdateMatrixMessage, SparseUpdateMatrixMessage, ConditionalMergeMessage,
     ConditionalAssignmentMessage, GeometricShredderMessage, QuantumLabelsMessage
<1>2. \/ c \in UpdateMatrixMessage \/ c \in SparseUpdateMatrixMessage
      \/ c \in ConditionalMergeMessage \/ c \in ConditionalAssignmentMessage
      \/ c \in GeometricShredderMessage \/ c \in QuantumLabelsMessage
      \/ c \in [kind : {"not_set"}]
  BY ConfigsAssumption, Zenon
<1>3. QED
  BY <1>1, <1>2

\* Which Build and which Update are those of a message.
LEMMA BuiltKinds ==
  ASSUME NEW c \in Configs, Built(c) # Refused, NEW e, NEW h
  PROVE  /\ Built(c).kind = c.kind /\ c.kind # "not_set"
         /\ c.kind = "update_matrix" =>
              /\ Built(c) = BuildUpdateMatrix(c)
              /\ Updated(Built(c), e, h) = UpdateByMatrix(Built(c), e, h)
         /\ c.kind = "sparse_update_matrix" =>
              /\ Built(c) = BuildSparseUpdateMatrix(c)
              /\ Updated(Built(c), e, h) = UpdateBySparseMatrix(Built(c), e, h)
         /\ c.kind = "conditional_merge" =>
              /\ Built(c) = BuildConditionalMerge(c)
              /\ Updated(Built(c), e, h) = UpdateByMerge(Built(c), e)
         /\ c.kind = "conditional_assignment" =>
              /\ Built(c) = BuildConditionalAssignment(c)
              /\ Updated(Built(c), e, h) = UpdateByAssignment(Built(c), e)
         /\ c.kind = "geometric_shredder" =>
              /\ Built(c) = BuildGeometricShredder(c)
              /\ Updated(Built(c), e, h) = UpdateByShredder(Built(c), e, h)
         /\ c.kind = "quantum_labels" =>
              /\ Built(c) = c
              /\ Updated(Built(c), e, h) = WriteLabel(c.quantum_labels, e, h)
<1>1. /\ c.kind = "update_matrix" => Built(c) = BuildUpdateMatrix(c)
      /\ c.kind = "sparse_update_matrix" => Built(c) = BuildSparseUpdateMatrix(c)
      /\ c.kind = "conditional_merge" => Built(c) = BuildConditionalMerge(c)
      /\ c.kind = "conditional_assignment" => Built(c) = BuildConditionalAssignment(c)
      /\ c.kind = "geometric_shredder" => Built(c) = BuildGeometricShredder(c)
      /\ c.kind = "quantum_labels" => Built(c) = c
      /\ c.kind = "not_set" => Built(c) = Refused
  BY DEF Built
<1>2. /\ c.kind = "update_matrix" => Built(c).kind = c.kind
      /\ c.kind = "sparse_update_matrix" => Built(c).kind = c.kind
      /\ c.kind = "conditional_merge" => Built(c).kind = c.kind
      /\ c.kind = "conditional_assignment" => Built(c).kind = c.kind
      /\ c.kind = "geometric_shredder" => Built(c).kind = c.kind
      /\ c.kind = "quantum_labels" => Built(c).kind = c.kind
  <2>1. c.kind = "update_matrix" => Built(c).kind = c.kind
    BY <1>1, Kinds, DenseBuilt
  <2>2. c.kind = "sparse_update_matrix" => Built(c).kind = c.kind
    BY <1>1, Kinds, SparseBuilt
  <2>3. c.kind = "conditional_merge" => Built(c).kind = c.kind
    BY <1>1 DEF BuildConditionalMerge
  <2>4. c.kind = "conditional_assignment" => Built(c).kind = c.kind
    BY <1>1 DEF BuildConditionalAssignment
  <2>5. c.kind = "geometric_shredder" => Built(c).kind = c.kind
    BY <1>1 DEF BuildGeometricShredder
  <2>6. c.kind = "quantum_labels" => Built(c).kind = c.kind
    BY <1>1
  <2>7. QED
    BY <2>1, <2>2, <2>3, <2>4, <2>5, <2>6
<1>3. Built(c).kind = c.kind /\ c.kind # "not_set"
  BY <1>1, <1>2, Kinds, Zenon
<1> DEFINE u == Built(c)
<1>4. /\ u.kind = "update_matrix" => Updated(u, e, h) = UpdateByMatrix(u, e, h)
      /\ u.kind = "sparse_update_matrix"
           => Updated(u, e, h) = UpdateBySparseMatrix(u, e, h)
      /\ u.kind = "conditional_merge" => Updated(u, e, h) = UpdateByMerge(u, e)
      /\ u.kind = "conditional_assignment"
           => Updated(u, e, h) = UpdateByAssignment(u, e)
      /\ u.kind = "geometric_shredder"
           => Updated(u, e, h) = UpdateByShredder(u, e, h)
      /\ u.kind = "quantum_labels"
           => Updated(u, e, h) = WriteLabel(u.quantum_labels, e, h)
  <2> HIDE DEF u
  <2>1. QED
    BY DEF Updated
<1>5. QED
  BY <1>1, <1>3, <1>4, Zenon

LEMMA HashesAreExpHashes ==
  ASSUME NEW h \in Hashes
  PROVE  h \in ExpHashes
BY UpdatersAssumption DEF ExpHashes

LEMMA NoEventIsNone ==
  NoEvent \notin LabelerEvent
<1>1. ASSUME NoEvent \in LabelerEvent PROVE FALSE
  <2>1. DOMAIN NoEvent = Fields /\ "error" \in DOMAIN NoEvent
    BY <1>1 DEF NoEvent, LabelerEvent
  <2>2. QED
    BY <2>1, UpdatersAssumption
<1>2. QED
  BY <1>1

\* A call has been made, and this is its answer.
LEMMA CallFacts ==
  ASSUME UpdatersInv, before # NoEvent
  PROVE  /\ config \in Configs /\ updater = Built(config) /\ updater # Refused
         /\ before \in LabelerEvent /\ hash \in ExpHashes
         /\ after = Updated(updater, before, hash)
<1>1. /\ config \in Configs /\ updater = Built(config) /\ updater # Refused
      /\ before \in Events /\ hash \in Hashes
      /\ after = Updated(updater, before, hash)
  BY DEF UpdatersInv
<1>2. QED
  BY <1>1, HashesAreExpHashes, UpdatersAssumption

\* A matrix, dense or sparse, merges a row of positive probability of the first
\* column that matches the event, and leaves the event alone, or fails, only
\* if there is none: whatever the message that Build has accepted, the event
\* and the hashes.
THEOREM MatrixMergesRowOfColumn == Spec => []RowOfColumn
<1>1. ASSUME UpdatersInv PROVE RowOfColumn
  <2> SUFFICES ASSUME updater.kind \in {"update_matrix", "sparse_update_matrix"},
                      before # NoEvent
               PROVE  RowOfColumn
    BY DEF RowOfColumn
  <2> DEFINE c == config
             e == before
             h == hash
             mask == c.hash_field_mask
  <2>1. /\ c \in Configs /\ updater = Built(c) /\ updater # Refused
        /\ e \in LabelerEvent /\ h \in ExpHashes /\ after = Updated(updater, e, h)
    BY <1>1, CallFacts
  <2>2. updater.kind = c.kind
    BY <2>1, BuiltKinds
  <2> DEFINE Matches(k) == ColumnMatches(mask, CellColumn(k), e)
             Goal == \/ /\ \A k \in DOMAIN c.columns : ~ Matches(k)
                        /\ after = IF c.pass_through THEN e ELSE Failed
                     \/ \E k \in DOMAIN c.columns :
                          /\ Matches(k)
                          /\ \A j \in 1 .. k - 1 : ~ Matches(j)
                          /\ \E r \in CellRows(k) :
                               /\ CellProbability(r, k) > 0
                               /\ after = MergeFrom(e, CellRow(r, k))
  <2>3. Goal => RowOfColumn
    BY Zenon DEF RowOfColumn, ColumnMatches
  <2>4. CASE c.kind = "update_matrix"
    <3>1. /\ c \in UpdateMatrixMessage /\ updater = BuildUpdateMatrix(c)
          /\ after = UpdateByMatrix(BuildUpdateMatrix(c), e, h)
      BY <2>1, <2>4, Kinds, BuiltKinds
    <3>2. /\ \A k : CellColumn(k) = c.columns[k] /\ CellRows(k) = DOMAIN c.rows
          /\ \A k, r : CellRow(r, k) = c.rows[r]
      BY <2>4 DEF CellColumn, CellRows, CellRow
    <3>3. \A k, r : CellProbability(r, k)
                      = c.probabilities[(r - 1) * Len(c.columns) + k]
      BY <2>4, Zenon DEF CellProbability
    <3>4. \A k, r : r \in DOMAIN c.rows
                      => ColumnDistribution(c, k)[r] = CellProbability(r, k)
      BY <3>3 DEF ColumnDistribution
    <3>5. \/ /\ \A k \in DOMAIN c.columns :
                  ~ ColumnMatches(c.hash_field_mask, c.columns[k], e)
             /\ after = IF c.pass_through THEN e ELSE Failed
          \/ \E k \in DOMAIN c.columns :
               /\ ColumnMatches(c.hash_field_mask, c.columns[k], e)
               /\ \A j \in 1 .. k - 1 :
                    ~ ColumnMatches(c.hash_field_mask, c.columns[j], e)
               /\ \E r \in DOMAIN c.rows :
                    /\ ColumnDistribution(c, k)[r] > 0
                    /\ after = MergeFrom(e, c.rows[r])
      BY <2>1, <3>1, DenseUpdates, Zenon
    <3>6. Goal
      BY <3>2, <3>4, <3>5, Zenon
    <3>7. QED
      BY <2>3, <3>6
  <2>5. CASE c.kind = "sparse_update_matrix"
    <3>1. /\ c \in SparseUpdateMatrixMessage /\ updater = BuildSparseUpdateMatrix(c)
          /\ after = UpdateBySparseMatrix(BuildSparseUpdateMatrix(c), e, h)
      BY <2>1, <2>5, Kinds, BuiltKinds
    <3>2. /\ \A k : /\ CellColumn(k) = c.columns[k].column_attrs
                    /\ CellRows(k) = DOMAIN c.columns[k].rows
          /\ \A k, r : /\ CellRow(r, k) = c.columns[k].rows[r]
                       /\ CellProbability(r, k) = c.columns[k].probabilities[r]
      BY <2>5 DEF CellColumn, CellRows, CellRow, CellProbability
    <3>3. \/ /\ \A k \in DOMAIN c.columns :
                  ~ ColumnMatches(c.hash_field_mask, c.columns[k].column_attrs, e)
             /\ after = IF c.pass_through THEN e ELSE Failed
          \/ \E k \in DOMAIN c.columns :
               /\ ColumnMatches(c.hash_field_mask, c.columns[k].column_attrs, e)
               /\ \A j \in 1 .. k - 1 :
                    ~ ColumnMatches(c.hash_field_mask, c.columns[j].column_attrs, e)
               /\ \E r \in DOMAIN c.columns[k].rows :
                    /\ c.columns[k].probabilities[r] > 0
                    /\ after = MergeFrom(e, c.columns[k].rows[r])
      <4>1. BuildSparseUpdateMatrix(c) # Refused
        BY <2>1, <3>1
      <4>2. QED
        BY <2>1, <3>1, <4>1, SparseUpdates
    <3>4. Goal
      BY <3>2, <3>3, Zenon
    <3>5. QED
      BY <2>3, <3>4
  <2>6. QED
    BY <2>2, <2>4, <2>5
<1>2. QED
  BY <1>1, UpdatersInvHolds, PTL

-----------------------------------------------------------------------------
\* The sparse matrix that lists all the cells of a dense one.
LEMMA SparseOfDense ==
  ASSUME NEW c \in UpdateMatrixMessage, BuildUpdateMatrix(c) # Refused
  PROVE  /\ Built(Sparse(c)).kind = "sparse_update_matrix"
         /\ Built(Sparse(c)).columns = c.columns
         /\ Built(Sparse(c)).hash_field_mask = c.hash_field_mask
         /\ Built(Sparse(c)).pass_through = c.pass_through
         /\ Built(Sparse(c)).row_hashings
              = [k \in DOMAIN c.columns |-> ColumnDistribution(c, k)]
         /\ Built(Sparse(c)).rows = [k \in DOMAIN c.columns |-> c.rows]
<1> DEFINE Column(k) == [column_attrs |-> c.columns[k], rows |-> c.rows,
                         probabilities |-> ColumnDistribution(c, k)]
           cs == [k \in DOMAIN c.columns |-> Column(k)]
           s == Sparse(c)
<1>1. /\ HasColumnMatcher(c.columns, c.hash_field_mask) /\ c.columns # <<>>
      /\ \A k \in DOMAIN c.columns :
           /\ ColumnDistribution(c, k) \in Probabilities
           /\ IsDistribution(ColumnDistribution(c, k))
           /\ Len(ColumnDistribution(c, k)) = Len(c.rows)
  BY DenseBuilt
<1>2. c.rows # <<>>
  BY Zenon DEF BuildUpdateMatrix
<1>3. c.columns \in Seq(LabelerEvent)
  BY DEF UpdateMatrixMessage
<1>4. s = [kind |-> "sparse_update_matrix", hash_field_mask |-> c.hash_field_mask,
           pass_through |-> c.pass_through, columns |-> cs]
  BY DEF Sparse, ColumnDistribution
<1> HIDE DEF s, cs
<1>5. /\ s.kind = "sparse_update_matrix" /\ s.columns = cs
      /\ s.hash_field_mask = c.hash_field_mask /\ s.pass_through = c.pass_through
  BY <1>4
<1>6. DOMAIN cs = DOMAIN c.columns
  BY DEF cs
<1>7. ASSUME NEW k \in DOMAIN c.columns
      PROVE  /\ cs[k].column_attrs = c.columns[k] /\ cs[k].rows = c.rows
             /\ cs[k].probabilities = ColumnDistribution(c, k)
  BY DEF cs
<1>8. SparseColumns(s) = c.columns
  <2>1. SparseColumns(s) = [k \in DOMAIN c.columns |-> cs[k].column_attrs]
    BY <1>5, <1>6, Zenon DEF SparseColumns
  <2>2. [k \in DOMAIN c.columns |-> cs[k].column_attrs] = c.columns
    BY <1>3, <1>7
  <2>3. QED
    BY <2>1, <2>2
<1>9. cs # <<>>
  <2>1. 1 \in DOMAIN c.columns
    BY <1>1, <1>3
  <2>2. 1 \in DOMAIN cs
    BY <1>6, <2>1
  <2>3. QED
    BY <2>2
<1>10. \A k \in DOMAIN cs : /\ IsColumn(cs[k])
                            /\ IsDistribution(cs[k].probabilities)
  <2> SUFFICES ASSUME NEW k \in DOMAIN c.columns
               PROVE  IsColumn(cs[k]) /\ IsDistribution(cs[k].probabilities)
    BY <1>6
  <2>1. c.columns[k] \in LabelerEvent
    BY <1>3
  <2>2. c.columns[k] # Missing
    BY <2>1, UpdatersAssumption
  <2>3. QED
    BY <1>1, <1>2, <1>7, <2>2, Zenon DEF IsColumn
<1> DEFINE ps == [k \in DOMAIN c.columns |-> ColumnDistribution(c, k)]
           rs == [k \in DOMAIN c.columns |-> c.rows]
<1>11. /\ [k \in DOMAIN cs |-> cs[k].probabilities] = ps
       /\ [k \in DOMAIN cs |-> cs[k].rows] = rs
  BY <1>6, <1>7
<1>12. Built(s) = BuildSparseUpdateMatrix(s)
  BY <1>5 DEF Built
<1> HIDE DEF ps, rs
<1>13. BuildSparseUpdateMatrix(s)
         = [kind |-> "sparse_update_matrix",
            columns |-> c.columns, hash_field_mask |-> c.hash_field_mask,
            row_hashings |-> ps, rows |-> rs, pass_through |-> c.pass_through]
  BY <1>1, <1>5, <1>8, <1>9, <1>10, <1>11, Zenon DEF BuildSparseUpdateMatrix
<1> DEFINE b == Built(s)
<1>14. b = [kind |-> "sparse_update_matrix",
            columns |-> c.columns, hash_field_mask |-> c.hash_field_mask,
            row_hashings |-> ps, rows |-> rs, pass_through |-> c.pass_through]
  BY <1>12, <1>13
<1> HIDE DEF b
<1>15. /\ b.kind = "sparse_update_matrix"
       /\ b.columns = c.columns /\ b.hash_field_mask = c.hash_field_mask
       /\ b.pass_through = c.pass_through /\ b.row_hashings = ps /\ b.rows = rs
  BY <1>14
<1>16. QED
  BY <1>15 DEF b, s, ps, rs

\* Every dense matrix that Build accepts updates every event, with every hash,
\* as the sparse matrix does that lists all its cells.
THEOREM DenseAlwaysSparse == Spec => []DenseIsSparse
<1>1. ASSUME UpdatersInv PROVE DenseIsSparse
  <2> SUFFICES ASSUME updater.kind = "update_matrix", before # NoEvent
               PROVE  after = Updated(Built(Sparse(config)), before, hash)
    BY DEF DenseIsSparse
  <2> DEFINE c == config
             e == before
             h == hash
             u == Built(Sparse(c))
             d == BuildUpdateMatrix(c)
  <2>1. /\ c \in Configs /\ updater = Built(c) /\ updater # Refused
        /\ h \in ExpHashes /\ after = Updated(updater, e, h)
    BY <1>1, CallFacts
  <2>2. /\ c \in UpdateMatrixMessage /\ updater = d /\ d # Refused
        /\ after = UpdateByMatrix(d, e, h)
    BY <2>1, Kinds, BuiltKinds
  <2>3. /\ u.kind = "sparse_update_matrix"
        /\ u.columns = c.columns /\ u.hash_field_mask = c.hash_field_mask
        /\ u.pass_through = c.pass_through
        /\ u.row_hashings = [k \in DOMAIN c.columns |-> ColumnDistribution(c, k)]
        /\ u.rows = [k \in DOMAIN c.columns |-> c.rows]
    BY <2>2, SparseOfDense
  <2>4. /\ d.columns = c.columns /\ d.hash_field_mask = c.hash_field_mask
        /\ d.rows = c.rows /\ d.pass_through = c.pass_through
        /\ d.row_hashings = [k \in DOMAIN c.columns |-> ColumnDistribution(c, k)]
    BY <2>2, DenseBuilt
  <2>5. HasColumnMatcher(c.columns, c.hash_field_mask)
    BY <2>2, DenseBuilt
  <2>6. c.columns \in Seq(LabelerEvent) /\ c.hash_field_mask \in Optional(SUBSET Fields)
    BY <2>2 DEF UpdateMatrixMessage
  <2> HIDE DEF u, d
  <2>7. SelectFromMatrix(u, e, h) = SelectFromMatrix(d, e, h)
    BY <2>3, <2>4, Zenon DEF SelectFromMatrix, ColumnOf
  <2>8. NoMatch(u, e) = NoMatch(d, e)
    BY <2>3, <2>4 DEF NoMatch
  <2> DEFINE s == SelectFromMatrix(d, e, h)
  <2>9. s # Internal /\ s.column = ColumnOf(d, e)
    <3>1. /\ d.columns \in Seq(LabelerEvent)
          /\ d.hash_field_mask \in Optional(SUBSET Fields)
          /\ HasColumnMatcher(d.columns, d.hash_field_mask)
          /\ DOMAIN d.row_hashings = DOMAIN d.columns
      BY <2>4, <2>5, <2>6
    <3>2. QED
      BY <3>1, SelectIndexes
  <2>10. s.column # kNoMatchingIndex => s.column + 1 \in DOMAIN c.columns
    <3>1. \/ ColumnOf(d, e) = kNoMatchingIndex
          \/ \E k \in DOMAIN d.columns : ColumnOf(d, e) = k - 1
      BY <2>4, <2>5, <2>6, ColumnFacts
    <3>2. ASSUME NEW k \in DOMAIN c.columns, ColumnOf(d, e) = k - 1
          PROVE  s.column + 1 \in DOMAIN c.columns
      <4>1. k \in Nat
        BY <2>6
      <4>2. s.column + 1 = k
        BY <2>9, <3>2, <4>1
      <4>3. QED
        BY <4>2
    <3>3. QED
      BY <2>4, <2>9, <3>1, <3>2
  <2> HIDE DEF s
  <2>11. Updated(u, e, h) = IF s.column = kNoMatchingIndex THEN NoMatch(u, e)
                            ELSE IF s.column + 1 \notin DOMAIN u.rows THEN Internal
                            ELSE MergeRow(u.rows[s.column + 1], s.row, e)
    BY <2>3, <2>7, <2>9 DEF Updated, UpdateBySparseMatrix, s
  <2>12. UpdateByMatrix(d, e, h) = IF s.column = kNoMatchingIndex THEN NoMatch(d, e)
                                   ELSE MergeRow(d.rows, s.row, e)
    BY <2>9 DEF UpdateByMatrix, s
  <2>13. s.column # kNoMatchingIndex =>
           s.column + 1 \in DOMAIN u.rows /\ u.rows[s.column + 1] = d.rows
    BY <2>3, <2>4, <2>10
  <2>14. after = Updated(u, e, h)
    BY <2>2, <2>8, <2>11, <2>12, <2>13
  <2>15. QED
    BY <2>14 DEF u
<1>2. QED
  BY <1>1, UpdatersInvHolds, PTL

\* When the model is rebuilt with other probabilities for the same rows and
\* columns, whatever they are and for every hash, a column only moves to a row
\* that has grown relative to the one it leaves.
THEOREM RowsMoveTowardGrowth == Spec => MovesTowardGrowth
<1> DEFINE A == (/\ updater.kind = "update_matrix" /\ updater'.kind = "update_matrix"
                 /\ updater'.columns = updater.columns /\ updater'.rows = updater.rows)
                => \A k \in DOMAIN updater.columns, h \in Hashes :
                     LET p == updater.row_hashings[k]
                         q == updater'.row_hashings[k]
                         old == Hash(p, h) + 1
                         new == Hash(q, h) + 1
                     IN  old # new => q[new] * p[old] > q[old] * p[new]
<1>1. ASSUME UpdatersInv, UpdatersInv' PROVE A
  <2> SUFFICES ASSUME updater.kind = "update_matrix", updater'.kind = "update_matrix",
                      updater'.columns = updater.columns,
                      updater'.rows = updater.rows,
                      NEW k \in DOMAIN updater.columns, NEW h \in Hashes,
                      Hash(updater.row_hashings[k], h) + 1
                        # Hash(updater'.row_hashings[k], h) + 1
               PROVE  updater'.row_hashings[k][Hash(updater'.row_hashings[k], h) + 1]
                        * updater.row_hashings[k][Hash(updater.row_hashings[k], h) + 1]
                      > updater'.row_hashings[k][Hash(updater.row_hashings[k], h) + 1]
                        * updater.row_hashings[k][Hash(updater'.row_hashings[k], h) + 1]
    BY Zenon
  <2>1. ASSUME NEW c \in Configs, NEW u, u = Built(c), u.kind = "update_matrix",
               k \in DOMAIN u.columns
        PROVE  /\ u.row_hashings[k] \in Probabilities
               /\ IsDistribution(u.row_hashings[k])
               /\ Len(u.row_hashings[k]) = Len(u.rows)
    <3>1. u # Refused
      BY <2>1 DEF Refused
    <3>2. /\ c \in UpdateMatrixMessage /\ u = BuildUpdateMatrix(c)
          /\ BuildUpdateMatrix(c) # Refused
      BY <2>1, <3>1, Kinds, BuiltKinds
    <3>3. /\ u.columns = c.columns /\ u.rows = c.rows
          /\ u.row_hashings = [j \in DOMAIN c.columns |-> ColumnDistribution(c, j)]
      BY <3>2, DenseBuilt
    <3>4. k \in DOMAIN c.columns
      BY <2>1, <3>3
    <3>5. u.row_hashings[k] = ColumnDistribution(c, k)
      BY <3>3, <3>4
    <3>6. QED
      BY <3>2, <3>3, <3>4, <3>5, DenseBuilt
  <2>2. /\ config \in Configs /\ updater = Built(config)
        /\ config' \in Configs /\ updater' = Built(config')
    BY <1>1 DEF UpdatersInv
  <2> DEFINE p == updater.row_hashings[k]
             q == updater'.row_hashings[k]
  <2>3. /\ p \in Probabilities /\ IsDistribution(p) /\ Len(p) = Len(updater.rows)
    BY <2>1, <2>2
  <2>4. /\ q \in Probabilities /\ IsDistribution(q) /\ Len(q) = Len(updater'.rows)
    BY <2>1, <2>2
  <2>5. Hash(p, h) # Hash(q, h) /\ Len(p) = Len(q) /\ h \in ExpHashes
    BY <2>3, <2>4, HashesAreExpHashes
  <2> HIDE DEF p, q
  <2>6. q[Hash(q, h) + 1] * p[Hash(p, h) + 1]
          > q[Hash(p, h) + 1] * p[Hash(q, h) + 1]
    BY <2>3, <2>4, <2>5, ChoiceMovesTowardGrowth
  <2>7. QED
    BY <2>6 DEF p, q
<1>2. UpdatersInv /\ UpdatersInv' => [A]_updater
  BY <1>1
<1>3. QED
  BY <1>2, UpdatersInvHolds, PTL DEF MovesTowardGrowth

-----------------------------------------------------------------------------
(* The label of a person.                                                   *)

MaybeLabel == LabelerEvent \cup {Failed}

\* A quantum label that can be collapsed, and the label it collapses to.
Sound(q) == Len(q.labels) = Len(q.probabilities) /\ IsDistribution(q.probabilities)
Chosen(q, h) == Hash(q.probabilities, SeedHash(q.seed, h)) + 1
LabelOf(q, h) == q.labels[Chosen(q, h)]
SetsField(q, h, f) == LabelOf(q, h)[f] # Unset

LEMMA FailedIsNoEvent ==
  Failed \notin LabelerEvent
<1>1. ASSUME Failed \in LabelerEvent PROVE FALSE
  <2>1. DOMAIN Failed = Fields /\ "error" \in DOMAIN Failed
    BY <1>1 DEF Failed, LabelerEvent
  <2>2. QED
    BY <2>1, UpdatersAssumption
<1>2. QED
  BY <1>1

LEMMA MergeTyped ==
  ASSUME NEW e \in LabelerEvent, NEW x \in LabelerEvent
  PROVE  MergeFrom(e, x) \in LabelerEvent
BY DEF MergeFrom, LabelerEvent

LEMMA SeedHashTyped ==
  ASSUME NEW s \in Nat, NEW h \in ExpHashes
  PROVE  SeedHash(s, h) \in ExpHashes
<1>1. ASSUME NEW c \in 0 .. MaxRows - 1
      PROVE  h[(c + s) % MaxRows] \in Nat \ {0}
  <2>1. MaxRows \in Nat \ {0} /\ c + s \in Nat
    BY UpdatersAssumption
  <2> DEFINE i == (c + s) % MaxRows
  <2>2. i \in 0 .. MaxRows - 1
    BY <2>1
  <2> HIDE DEF i
  <2>3. h[i] \in Nat \ {0}
    BY <2>2 DEF ExpHashes
  <2>4. QED
    BY <2>3 DEF i
<1>2. QED
  BY <1>1 DEF SeedHash, ExpHashes

\* The label chosen of a sound quantum label has positive probability.
LEMMA ChosenFacts ==
  ASSUME NEW q \in QuantumLabel, Sound(q), NEW h \in ExpHashes
  PROVE  /\ Chosen(q, h) \in DOMAIN q.labels /\ Chosen(q, h) \in 1 .. MaxRows
         /\ q.probabilities[Chosen(q, h)] > 0
         /\ LabelOf(q, h) \in LabelerEvent /\ q.labels # <<>>
<1> DEFINE ps == q.probabilities
           ls == q.labels
           g == SeedHash(q.seed, h)
<1>1. /\ q.seed \in Nat /\ ls \in Seq(LabelerEvent) /\ Len(ls) <= MaxRows
      /\ ps \in Seq(Int) /\ Len(ls) = Len(ps) /\ IsDistribution(ps)
  BY DEF QuantumLabel, Rows, Sound
<1>2. ps \in Probabilities /\ g \in ExpHashes
  BY <1>1, SeedHashTyped DEF Probabilities
<1>3. Chosen(q, h) = Hash(ps, g) + 1
  BY DEF Chosen
<1>4. LabelOf(q, h) = ls[Chosen(q, h)]
  BY DEF LabelOf
<1> HIDE DEF ps, ls, g
<1>5. Hash(ps, g) \in 0 .. Len(ps) - 1 /\ ps[Hash(ps, g) + 1] > 0
  BY <1>1, <1>2, HashFacts DEF IsBestOf
<1>6. Chosen(q, h) \in 1 .. Len(ls) /\ Len(ls) \in Nat /\ MaxRows \in Nat
  BY <1>1, <1>3, <1>5, UpdatersAssumption
<1>7. DOMAIN ls = 1 .. Len(ls) /\ ls # <<>>
  BY <1>1, <1>6
<1>8. ls[Chosen(q, h)] \in LabelerEvent
  BY <1>1, <1>6
<1>9. QED
  BY <1>1, <1>3, <1>4, <1>5, <1>6, <1>7, <1>8 DEF ps, ls

LEMMA CollapseFacts ==
  ASSUME NEW q \in QuantumLabel, NEW x \in MaybeLabel, NEW h \in ExpHashes
  PROVE  /\ CollapseQuantumLabel(q, x, h) \in MaybeLabel
         /\ CollapseQuantumLabel(q, x, h)
              = IF x # Failed /\ Sound(q) THEN MergeFrom(x, LabelOf(q, h))
                ELSE Failed
<1>1. Sound(q) => q.labels # <<>>
  BY ChosenFacts
<1>2. CollapseQuantumLabel(q, x, h)
        = IF x # Failed /\ Sound(q) THEN MergeFrom(x, LabelOf(q, h)) ELSE Failed
  BY <1>1, Zenon DEF CollapseQuantumLabel, Sound, LabelOf, Chosen
<1>3. x # Failed /\ Sound(q) => MergeFrom(x, LabelOf(q, h)) \in LabelerEvent
  BY ChosenFacts, MergeTyped DEF MaybeLabel
<1>4. QED
  BY <1>2, <1>3 DEF MaybeLabel

\* u has the labels merged so far.
IsMerged(qs, label, h, u) ==
  /\ u \in [0 .. Len(qs) -> MaybeLabel] /\ u[0] = label
  /\ \A k \in 1 .. Len(qs) : u[k] = CollapseQuantumLabel(qs[k], u[k - 1], h)

LEMMA MergedExist ==
  ASSUME NEW qs \in Seq(QuantumLabel), NEW label \in MaybeLabel,
         NEW h \in ExpHashes
  PROVE  \E u : IsMerged(qs, label, h, u)
<1> DEFINE n == Len(qs)
           S == MaybeLabel
           next(k, s) == CollapseQuantumLabel(qs[k], s, h)
           g == [k \in 1 .. n |-> [s \in S |-> next(k, s)]]
<1>1. n \in Nat
  OBVIOUS
<1>2. ASSUME NEW k \in 1 .. n, NEW s \in S PROVE next(k, s) \in S
  <2>1. qs[k] \in QuantumLabel
    OBVIOUS
  <2>2. QED
    BY <2>1, CollapseFacts
<1> HIDE DEF next, S
<1>3. g \in [1 .. n -> [S -> S]]
  BY <1>2
<1>4. \A k \in 1 .. n, s \in S : g[k][s] = next(k, s)
  OBVIOUS
<1>5. label \in S
  BY DEF S
<1> HIDE DEF g, n
<1>6. PICK u : IsBySteps(u, n, S, label, g)
  BY <1>1, <1>3, <1>5, FunctionBySteps
<1>7. /\ u \in [0 .. n -> S] /\ u[0] = label
      /\ \A k \in 1 .. n : u[k] = g[k][u[k - 1]]
  BY <1>6 DEF IsBySteps
<1>8. ASSUME NEW k \in 1 .. n PROVE u[k] = next(k, u[k - 1])
  <2>1. k - 1 \in 0 .. n
    BY <1>1
  <2>2. u[k - 1] \in S
    BY <1>7, <2>1
  <2>3. QED
    BY <1>4, <1>7, <2>2
<1>9. QED
  BY <1>7, <1>8 DEF IsMerged, n, S, next

LEMMA MergedIsLast ==
  ASSUME NEW qs \in Seq(QuantumLabel), NEW label \in MaybeLabel,
         NEW h \in ExpHashes
  PROVE  \E u : IsMerged(qs, label, h, u) /\ Collapsed(qs, label, h) = u[Len(qs)]
<1> DEFINE n == Len(qs)
           next(k, x) == CollapseQuantumLabel(qs[k], x, h)
           F(f) == [k \in 0 .. n |-> IF k = 0 THEN label ELSE next(k, f[k - 1])]
           v == CHOOSE f : f = F(f)
<1>1. PICK u : IsMerged(qs, label, h, u)
  BY MergedExist
<1>2. Collapsed(qs, label, h) = v[n]
  BY DEF Collapsed
<1>3. n \in Nat
  OBVIOUS
<1>4. /\ u \in [0 .. n -> MaybeLabel] /\ u[0] = label
      /\ \A k \in 1 .. n : u[k] = next(k, u[k - 1])
  BY <1>1 DEF IsMerged
<1> HIDE DEF next
<1>5. u = F(u)
  BY <1>3, <1>4
<1>6. v = F(v)
  <2> HIDE DEF F
  <2>1. QED
    BY <1>5
<1>7. v[0] = label /\ \A k \in 1 .. n : v[k] = next(k, v[k - 1])
  <2> HIDE DEF v, n
  <2>1. \A k \in 0 .. n : v[k] = IF k = 0 THEN label ELSE next(k, v[k - 1])
    BY <1>6, Zenon
  <2>2. QED
    BY <1>3, <2>1
<1> DEFINE T == {k \in 0 .. n : v[k] = u[k]}
<1>8. 0 \in T
  <2> HIDE DEF v
  <2>1. QED
    BY <1>3, <1>4, <1>7
<1>9. ASSUME NEW k \in 1 .. n, k - 1 \in T PROVE k \in T
  <2> HIDE DEF v
  <2>1. QED
    BY <1>3, <1>4, <1>7, <1>9
<1>10. n \in T
  <2> HIDE DEF T, n
  <2>1. \A k \in 0 .. n : k \in T
    BY <1>3, <1>8, <1>9, UpTo
  <2>2. QED
    BY <1>3, <2>1
<1>11. Collapsed(qs, label, h) = u[n]
  <2> HIDE DEF v
  <2>1. QED
    BY <1>2, <1>10
<1>12. QED
  BY <1>1, <1>11

\* x is what the last of the first k quantum labels that sets field f sets.
LastOf(qs, h, k, f, x) ==
  \/ x = Unset /\ \A j \in 1 .. k : ~ SetsField(qs[j], h, f)
  \/ \E j \in 1 .. k :
       /\ SetsField(qs[j], h, f) /\ x = LabelOf(qs[j], h)[f]
       /\ \A l \in j + 1 .. k : ~ SetsField(qs[l], h, f)

LEMMA LastOfNext ==
  ASSUME NEW qs, NEW h, NEW f, NEW x, NEW k \in Nat \ {0},
         LastOf(qs, h, k - 1, f, x)
  PROVE  LastOf(qs, h, k, f, IF SetsField(qs[k], h, f) THEN LabelOf(qs[k], h)[f]
                             ELSE x)
<1>1. CASE SetsField(qs[k], h, f)
  <2>1. k \in 1 .. k /\ k + 1 .. k = {}
    OBVIOUS
  <2>2. QED
    BY <1>1, <2>1 DEF LastOf
<1>2. CASE ~ SetsField(qs[k], h, f)
  <2>1. ASSUME x = Unset, \A j \in 1 .. k - 1 : ~ SetsField(qs[j], h, f)
        PROVE  LastOf(qs, h, k, f, x)
    <3>1. \A j \in 1 .. k : ~ SetsField(qs[j], h, f)
      <4> SUFFICES ASSUME NEW j \in 1 .. k PROVE ~ SetsField(qs[j], h, f)
        OBVIOUS
      <4>1. j = k \/ j \in 1 .. k - 1
        OBVIOUS
      <4>2. QED
        BY <1>2, <2>1, <4>1
    <3>2. QED
      BY <2>1, <3>1 DEF LastOf
  <2>2. ASSUME NEW j \in 1 .. k - 1, SetsField(qs[j], h, f),
               x = LabelOf(qs[j], h)[f],
               \A l \in j + 1 .. k - 1 : ~ SetsField(qs[l], h, f)
        PROVE  LastOf(qs, h, k, f, x)
    <3>1. j \in 1 .. k
      OBVIOUS
    <3>2. ASSUME NEW l \in j + 1 .. k PROVE ~ SetsField(qs[l], h, f)
      <4>1. l = k \/ l \in j + 1 .. k - 1
        OBVIOUS
      <4>2. QED
        BY <1>2, <2>2, <4>1
    <3>3. QED
      BY <2>2, <3>1, <3>2 DEF LastOf
  <2>3. LastOf(qs, h, k, f, x)
    BY <2>1, <2>2, Zenon DEF LastOf
  <2>4. QED
    BY <1>2, <2>3
<1>3. QED
  BY <1>1, <1>2

\* One message that is not sound refuses the label; else each field has what
\* the last label that sets it has given.
LEMMA CollapsedFacts ==
  ASSUME NEW qs \in Seq(QuantumLabel), NEW h \in ExpHashes
  PROVE  /\ (\E k \in DOMAIN qs : ~ Sound(qs[k])) => Collapsed(qs, NoLabel, h) = Failed
         /\ (\A k \in DOMAIN qs : Sound(qs[k])) =>
              /\ Collapsed(qs, NoLabel, h) \in LabelerEvent
              /\ \A f \in Fields :
                   LastOf(qs, h, Len(qs), f, Collapsed(qs, NoLabel, h)[f])
<1> DEFINE n == Len(qs)
<1>1. n \in Nat /\ DOMAIN qs = 1 .. n /\ \A k \in 1 .. n : qs[k] \in QuantumLabel
  OBVIOUS
<1>2. NoLabel \in LabelerEvent /\ NoLabel \in MaybeLabel
  BY DEF NoLabel, LabelerEvent, MaybeLabel
<1>3. PICK u : IsMerged(qs, NoLabel, h, u) /\ Collapsed(qs, NoLabel, h) = u[n]
  BY <1>2, MergedIsLast
<1>4. /\ u \in [0 .. n -> MaybeLabel] /\ u[0] = NoLabel
      /\ \A k \in 1 .. n : u[k] = CollapseQuantumLabel(qs[k], u[k - 1], h)
  BY <1>3 DEF IsMerged
<1> DEFINE Good(k) == \A j \in 1 .. k : Sound(qs[j])
           Ok(k) == /\ ~ Good(k) => u[k] = Failed
                    /\ Good(k) => /\ u[k] \in LabelerEvent
                                  /\ \A f \in Fields : LastOf(qs, h, k, f, u[k][f])
           T == {k \in 0 .. n : Ok(k)}
<1>5. 0 \in T
  <2>1. \A f \in Fields : LastOf(qs, h, 0, f, NoLabel[f])
    BY DEF LastOf, NoLabel
  <2>2. QED
    BY <1>1, <1>2, <1>4, <2>1
<1>6. ASSUME NEW k \in 1 .. n, k - 1 \in T PROVE k \in T
  <2>1. k \in Nat \ {0} /\ k - 1 \in 0 .. n /\ qs[k] \in QuantumLabel
    BY <1>1
  <2>2. u[k - 1] \in MaybeLabel /\ Ok(k - 1)
    BY <1>4, <1>6, <2>1
  <2>3. u[k] = IF u[k - 1] # Failed /\ Sound(qs[k])
               THEN MergeFrom(u[k - 1], LabelOf(qs[k], h)) ELSE Failed
    BY <1>4, <2>1, <2>2, CollapseFacts
  <2>4. Good(k) <=> Good(k - 1) /\ Sound(qs[k])
    <3>1. \A j \in 1 .. k : j = k \/ j \in 1 .. k - 1
      BY <2>1
    <3>2. k \in 1 .. k /\ \A j \in 1 .. k - 1 : j \in 1 .. k
      BY <2>1
    <3>3. QED
      BY <3>1, <3>2
  <2> HIDE DEF Good
  <2>5. CASE ~ Good(k)
    <3>1. u[k] = Failed
      BY <2>2, <2>3, <2>4, <2>5
    <3>2. QED
      BY <2>5, <3>1
  <2>6. CASE Good(k)
    <3> DEFINE y == u[k - 1]
               z == LabelOf(qs[k], h)
    <3>1. /\ Sound(qs[k]) /\ y \in LabelerEvent
          /\ \A f \in Fields : LastOf(qs, h, k - 1, f, y[f])
      BY <2>2, <2>4, <2>6
    <3>2. z \in LabelerEvent
      BY <2>1, <3>1, ChosenFacts
    <3>3. u[k] = MergeFrom(y, z)
      BY <2>3, <3>1, FailedIsNoEvent
    <3> HIDE DEF y
    <3>4. u[k] \in LabelerEvent
      BY <3>1, <3>2, <3>3, MergeTyped
    <3>5. ASSUME NEW f \in Fields PROVE LastOf(qs, h, k, f, u[k][f])
      <4>1. u[k][f] = IF SetsField(qs[k], h, f) THEN LabelOf(qs[k], h)[f] ELSE y[f]
        BY <3>3 DEF MergeFrom, SetsField
      <4>2. LastOf(qs, h, k - 1, f, y[f])
        BY <3>1
      <4>3. QED
        BY <2>1, <4>1, <4>2, LastOfNext
    <3>6. QED
      BY <2>6, <3>4, <3>5
  <2>7. QED
    BY <2>5, <2>6
<1>7. Ok(n)
  <2> HIDE DEF Ok, n
  <2>1. \A k \in 0 .. n : k \in T
    <3> HIDE DEF T
    <3>1. QED
      BY <1>1, <1>5, <1>6, UpTo
  <2>2. QED
    BY <1>1, <2>1
<1>8. QED
  BY <1>1, <1>3, <1>7

\* For every sequence of quantum labels, classic label and hashes: the label of
\* a person is refused only for a message, and else each of its fields is that
\* of the classic label, or of the last quantum label that sets it, each of
\* them collapsed to one label of positive probability.
THEOREM LabelHasLastWord == Spec => []LabelOfChoices
<1>1. ASSUME UpdatersInv PROVE LabelOfChoices
  <2> SUFFICES ASSUME config.kind = "quantum_labels", before # NoEvent
               PROVE  LabelOfChoices
    BY DEF LabelOfChoices
  <2> DEFINE c == config
             qs == c.quantum_labels
             h == hash
             label == Collapsed(qs, NoLabel, h)
  <2>1. /\ c \in Configs /\ updater = Built(c) /\ updater # Refused
        /\ before \in LabelerEvent /\ h \in ExpHashes
        /\ after = Updated(updater, before, h)
    BY <1>1, CallFacts
  <2>2. c \in QuantumLabelsMessage /\ after = WriteLabel(qs, before, h)
    BY <2>1, Kinds, BuiltKinds
  <2>3. qs \in Seq(QuantumLabel)
    BY <2>2 DEF QuantumLabelsMessage
  <2>4. DOMAIN qs = 1 .. Len(qs) /\ Len(qs) \in Nat
    BY <2>3
  <2>5. after = IF label = Failed THEN Failed ELSE MergeFrom(label, before)
    BY <2>2, Zenon DEF WriteLabel
  <2> DEFINE IsSound(q) == Len(q.labels) = Len(q.probabilities)
                             /\ IsDistribution(q.probabilities)
             Picks == [DOMAIN qs -> 1 .. MaxRows]
             Sets(chosen, k, f) == qs[k].labels[chosen[k]][f] # Unset
             OfField(chosen, f) ==
               \/ before[f] # Unset /\ after[f] = before[f]
               \/ /\ before[f] = Unset
                  /\ \E k \in DOMAIN qs :
                       /\ Sets(chosen, k, f)
                       /\ \A l \in k + 1 .. Len(qs) : ~ Sets(chosen, l, f)
                       /\ after[f] = qs[k].labels[chosen[k]][f]
               \/ /\ before[f] = Unset /\ after[f] = Unset
                  /\ \A k \in DOMAIN qs : ~ Sets(chosen, k, f)
             Is(chosen) ==
               /\ \A k \in DOMAIN qs : /\ chosen[k] \in DOMAIN qs[k].labels
                                       /\ qs[k].probabilities[chosen[k]] > 0
               /\ \A j, k \in DOMAIN qs :
                    (qs[j].seed = qs[k].seed
                       /\ qs[j].probabilities = qs[k].probabilities)
                      => chosen[j] = chosen[k]
               /\ \A f \in Fields : OfField(chosen, f)
             Goal == IF \E k \in DOMAIN qs : ~ IsSound(qs[k]) THEN after = Failed
                     ELSE \E chosen \in Picks : Is(chosen)
  <2>6. Goal => LabelOfChoices
    BY Zenon DEF LabelOfChoices
  <2>7. \A k : IsSound(qs[k]) <=> Sound(qs[k])
    BY DEF Sound
  <2>8. CASE \E k \in DOMAIN qs : ~ IsSound(qs[k])
    <3> HIDE DEF IsSound, qs, label
    <3>1. \E k \in DOMAIN qs : ~ Sound(qs[k])
      BY <2>7, <2>8
    <3>2. label = Failed
      BY <2>1, <2>3, <3>1, CollapsedFacts DEF label
    <3>3. after = Failed
      BY <2>5, <3>2
    <3>4. Goal
      BY <2>8, <3>3
    <3>5. QED
      BY <2>6, <3>4
  <2>9. CASE \A k \in DOMAIN qs : IsSound(qs[k])
    <3> DEFINE chosen == [k \in DOMAIN qs |-> Chosen(qs[k], h)]
    <3> HIDE DEF IsSound, qs
    <3>1. ASSUME NEW k \in DOMAIN qs
          PROVE  /\ chosen[k] = Chosen(qs[k], h)
                 /\ chosen[k] \in DOMAIN qs[k].labels /\ chosen[k] \in 1 .. MaxRows
                 /\ qs[k].probabilities[chosen[k]] > 0
                 /\ qs[k].labels[chosen[k]] = LabelOf(qs[k], h)
      <4>1. qs[k] \in QuantumLabel /\ Sound(qs[k])
        BY <2>3, <2>7, <2>9
      <4>2. chosen[k] = Chosen(qs[k], h)
        OBVIOUS
      <4> HIDE DEF chosen
      <4>3. QED
        BY <2>1, <4>1, <4>2, ChosenFacts DEF LabelOf
    <3>2. chosen \in Picks
      BY <3>1
    <3>3. ASSUME NEW j \in DOMAIN qs, NEW k \in DOMAIN qs,
                 qs[j].seed = qs[k].seed,
                 qs[j].probabilities = qs[k].probabilities
          PROVE  chosen[j] = chosen[k]
      <4> HIDE DEF chosen
      <4>1. QED
        BY <3>1, <3>3 DEF Chosen
    <3> HIDE DEF chosen, label
    <3>4. /\ label \in LabelerEvent
          /\ \A f \in Fields : LastOf(qs, h, Len(qs), f, label[f])
      <4>1. \A k \in DOMAIN qs : Sound(qs[k])
        BY <2>7, <2>9
      <4>2. QED
        BY <2>1, <2>3, <4>1, CollapsedFacts DEF label
    <3>5. after = MergeFrom(label, before)
      BY <2>5, <3>4, FailedIsNoEvent
    <3>6. ASSUME NEW f \in Fields PROVE OfField(chosen, f)
      <4>1. after[f] = IF before[f] # Unset THEN before[f] ELSE label[f]
        BY <3>5 DEF MergeFrom
      <4>2. \A k \in DOMAIN qs : /\ Sets(chosen, k, f) <=> SetsField(qs[k], h, f)
                                 /\ qs[k].labels[chosen[k]][f] = LabelOf(qs[k], h)[f]
        BY <3>1 DEF SetsField
      <4> HIDE DEF Sets
      <4>3. CASE before[f] # Unset
        BY <4>1, <4>3
      <4>4. CASE before[f] = Unset /\ label[f] = Unset
                   /\ \A j \in 1 .. Len(qs) : ~ SetsField(qs[j], h, f)
        BY <2>4, <4>1, <4>2, <4>4
      <4>5. ASSUME before[f] = Unset, NEW j \in 1 .. Len(qs),
                   SetsField(qs[j], h, f), label[f] = LabelOf(qs[j], h)[f],
                   \A l \in j + 1 .. Len(qs) : ~ SetsField(qs[l], h, f)
            PROVE  OfField(chosen, f)
        <5>1. j \in DOMAIN qs /\ \A l \in j + 1 .. Len(qs) : l \in DOMAIN qs
          BY <2>4
        <5>2. Sets(chosen, j, f) /\ after[f] = qs[j].labels[chosen[j]][f]
          BY <4>1, <4>2, <4>5, <5>1
        <5>3. \A l \in j + 1 .. Len(qs) : ~ Sets(chosen, l, f)
          BY <4>2, <4>5, <5>1
        <5>4. QED
          BY <4>5, <5>1, <5>2, <5>3
      <4>6. LastOf(qs, h, Len(qs), f, label[f])
        BY <3>4
      <4> HIDE DEF OfField
      <4>7. QED
        BY <4>3, <4>4, <4>5, <4>6, Zenon DEF LastOf
    <3> HIDE DEF OfField
    <3>7. Is(chosen)
      BY <3>1, <3>3, <3>6
    <3> HIDE DEF Is, Picks
    <3>8. Goal
      BY <2>9, <3>2, <3>7
    <3>9. QED
      BY <2>6, <3>8
  <2>10. QED
    BY <2>8, <2>9
<1>2. QED
  BY <1>1, UpdatersInvHolds, PTL

-----------------------------------------------------------------------------
(* The other updaters, and that no index is out of range.                   *)

\* Assignments stay in a set that each of them stays in.
LEMMA AssignedIn ==
  ASSUME NEW u, NEW S, NEW e \in S, u.assignments \in Seq(FieldAssignment),
         \A k \in DOMAIN u.assignments, x \in S : Assign(x, u.assignments[k]) \in S
  PROVE  UpdateByAssignment(u, e) \in S
<1> DEFINE list == u.assignments
           n == Len(list)
           next(k, x) == Assign(x, list[k])
           g == [k \in 1 .. n |-> [x \in S |-> next(k, x)]]
           F(f) == [k \in 0 .. n |-> IF k = 0 THEN e ELSE next(k, f[k - 1])]
           v == CHOOSE f : f = F(f)
<1>1. UpdateByAssignment(u, e) = IF IsMatch(u.condition, e) THEN v[n] ELSE e
  BY DEF UpdateByAssignment
<1>2. n \in Nat
  OBVIOUS
<1>3. ASSUME NEW k \in 1 .. n, NEW x \in S PROVE next(k, x) \in S
  <2>1. k \in DOMAIN list
    OBVIOUS
  <2>2. QED
    BY <2>1
<1> HIDE DEF next, list
<1>4. g \in [1 .. n -> [S -> S]]
  BY <1>3
<1>5. \A k \in 1 .. n, x \in S : g[k][x] = next(k, x)
  OBVIOUS
<1>6. e \in S
  OBVIOUS
<1> HIDE DEF g, n
<1>7. PICK w : IsBySteps(w, n, S, e, g)
  BY <1>2, <1>4, <1>6, FunctionBySteps
<1>8. /\ w \in [0 .. n -> S] /\ w[0] = e
      /\ \A k \in 1 .. n : w[k] = g[k][w[k - 1]]
  BY <1>7 DEF IsBySteps
<1>9. ASSUME NEW k \in 1 .. n PROVE w[k] = next(k, w[k - 1])
  <2>1. k - 1 \in 0 .. n
    BY <1>2
  <2>2. w[k - 1] \in S
    BY <1>8, <2>1
  <2>3. QED
    BY <1>5, <1>8, <2>2
<1>10. w = F(w)
  BY <1>2, <1>8, <1>9
<1>11. v = F(v)
  <2> HIDE DEF F
  <2>1. QED
    BY <1>10
<1> HIDE DEF v
<1>12. v[0] = e /\ \A k \in 1 .. n : v[k] = next(k, v[k - 1])
  <2>1. \A k \in 0 .. n : v[k] = IF k = 0 THEN e ELSE next(k, v[k - 1])
    BY <1>11, Zenon
  <2>2. QED
    BY <1>2, <2>1
<1> DEFINE T == {k \in 0 .. n : v[k] \in S}
<1>13. 0 \in T
  BY <1>2, <1>6, <1>12
<1>14. ASSUME NEW k \in 1 .. n, k - 1 \in T PROVE k \in T
  BY <1>2, <1>3, <1>12, <1>14
<1>15. v[n] \in S
  <2>1. \A k \in 0 .. n : k \in T
    <3> HIDE DEF T
    <3>1. QED
      BY <1>2, <1>13, <1>14, UpTo
  <2>2. QED
    BY <1>2, <2>1
<1>16. QED
  BY <1>1, <1>6, <1>15

\* What assignments leave in a field was in a field of its type, and a field
\* that they change is a target.
Assigned(list, e, x) ==
  /\ x \in LabelerEvent
  /\ \A f \in Fields : e[f] # Unset => x[f] # Unset
  /\ \A f \in Fields : \E g \in Fields : Types[g] = Types[f] /\ x[f] = e[g]
  /\ \A f \in Fields :
       x[f] # e[f] => \E k \in DOMAIN list : list[k].target_field = f

LEMMA AssignedKept ==
  ASSUME NEW u, NEW e \in LabelerEvent, u.assignments \in Seq(FieldAssignment),
         \A k \in DOMAIN u.assignments :
           LET source == u.assignments[k].source_field
               target == u.assignments[k].target_field
           IN  source \in Fields /\ target \in Fields /\ Types[source] = Types[target]
  PROVE  Assigned(u.assignments, e, UpdateByAssignment(u, e))
<1> DEFINE list == u.assignments
           S == {x \in LabelerEvent : Assigned(list, e, x)}
<1>1. e \in S
  BY DEF Assigned
<1>2. ASSUME NEW k \in DOMAIN list, NEW x \in S PROVE Assign(x, list[k]) \in S
  <2> DEFINE source == list[k].source_field
             target == list[k].target_field
             y == [x EXCEPT ![target] = x[source]]
  <2>1. source \in Fields /\ target \in Fields /\ Types[source] = Types[target]
    OBVIOUS
  <2>2. x \in LabelerEvent /\ Assigned(list, e, x)
    OBVIOUS
  <2>3. Assign(x, list[k]) = IF x[source] = Unset THEN x ELSE y
    BY DEF Assign
  <2> HIDE DEF source
  <2>4. ASSUME x[source] # Unset PROVE Assigned(list, e, y)
    <3>1. target = list[k].target_field
      OBVIOUS
    <3> HIDE DEF target, list, S
    <3>2. y \in LabelerEvent /\ \A f \in Fields :
            y[f] = IF f = target THEN x[source] ELSE x[f]
      BY <2>1, <2>2 DEF LabelerEvent
    <3> HIDE DEF y
    <3>3. \A f \in Fields : e[f] # Unset => y[f] # Unset
      BY <2>2, <2>4, <3>2 DEF Assigned
    <3>4. ASSUME NEW f \in Fields
          PROVE  \E g \in Fields : Types[g] = Types[f] /\ y[f] = e[g]
      <4>1. CASE f = target
        <5>1. PICK g \in Fields : Types[g] = Types[source] /\ x[source] = e[g]
          BY <2>1, <2>2 DEF Assigned
        <5>2. QED
          BY <2>1, <3>2, <4>1, <5>1
      <4>2. CASE f # target
        BY <2>2, <3>2, <4>2 DEF Assigned
      <4>3. QED
        BY <4>1, <4>2
    <3>5. ASSUME NEW f \in Fields, y[f] # e[f]
          PROVE  \E j \in DOMAIN list : list[j].target_field = f
      BY <2>2, <3>1, <3>2, <3>5 DEF Assigned
    <3>6. QED
      BY <3>2, <3>3, <3>4, <3>5 DEF Assigned
  <2>5. Assigned(list, e, Assign(x, list[k]))
    BY <2>2, <2>3, <2>4
  <2>6. QED
    BY <2>5 DEF Assigned
<1> HIDE DEF S
<1>3. UpdateByAssignment(u, e) \in S
  BY <1>1, <1>2, AssignedIn
<1>4. QED
  BY <1>3 DEF S

\* A shredded event has another value in its target field, or is as it was.
LEMMA ShreddedKept ==
  ASSUME NEW c \in GeometricShredderMessage, BuildGeometricShredder(c) # Refused,
         NEW e \in LabelerEvent, NEW h \in Hashes
  PROVE  LET after_it == UpdateByShredder(BuildGeometricShredder(c), e, h)
         IN  \/ after_it = Failed
             \/ /\ after_it \in LabelerEvent
                /\ \A f \in Fields : e[f] # Unset => after_it[f] # Unset
<1> DEFINE u == BuildGeometricShredder(c)
           key == ShredHash(u, e, h)
           target == c.target_field
           value == Shred[e[target], key]
           y == [e EXCEPT ![target] = value]
<1>1. /\ c.psi \in 0 .. 2 /\ c.randomness_field \in Fields /\ target \in Fields
      /\ u.psi = c.psi /\ u.randomness_field = c.randomness_field
      /\ u.target_field = target
  BY DEF BuildGeometricShredder
<1> HIDE DEF u
<1>2. UpdateByShredder(u, e, h) =
        IF key = Unset THEN Failed
        ELSE IF key = 0 THEN e
        ELSE IF e[target] = Unset THEN Failed ELSE y
  BY <1>1, Zenon DEF UpdateByShredder
<1>3. key \in {0, Unset, e[c.randomness_field], h[0] \div 2}
  BY <1>1 DEF ShredHash
<1>4. ASSUME key # Unset, key # 0 PROVE key \in ShredHashes
  <2>1. e[c.randomness_field] \in Values \cup {Unset}
    BY <1>1 DEF LabelerEvent
  <2> HIDE DEF key
  <2>2. QED
    BY <1>3, <1>4, <2>1 DEF ShredHashes
<1> HIDE DEF key, target
<1>5. ASSUME key # Unset, key # 0, e[target] # Unset
      PROVE  y \in LabelerEvent /\ \A f \in Fields : e[f] # Unset => y[f] # Unset
  <2>1. e[target] \in Values
    BY <1>1, <1>5 DEF LabelerEvent
  <2>2. <<e[target], key>> \in Values \X ShredHashes
    BY <1>4, <1>5, <2>1
  <2>3. value \in Values /\ value # Unset
    BY <2>2, ShredAssumption, UpdatersAssumption
  <2> HIDE DEF value
  <2>4. QED
    BY <1>1, <2>3 DEF LabelerEvent
<1> HIDE DEF y
<1>6. \/ UpdateByShredder(u, e, h) = Failed
      \/ /\ UpdateByShredder(u, e, h) \in LabelerEvent
         /\ \A f \in Fields : e[f] # Unset => UpdateByShredder(u, e, h)[f] # Unset
  <2> DEFINE r == UpdateByShredder(u, e, h)
  <2>1. CASE r = Failed
    BY <2>1
  <2>2. CASE r = e
    BY <2>2
  <2>3. CASE r = y /\ key # Unset /\ key # 0 /\ e[target] # Unset
    BY <1>5, <2>3
  <2>4. QED
    BY <1>2, <2>1, <2>2, <2>3
<1>7. QED
  BY <1>6 DEF u

LEMMA FieldsAreNotInternal ==
  ASSUME NEW x, DOMAIN x = Fields
  PROVE  x # Internal
<1>1. ASSUME x = Internal PROVE FALSE
  <2>1. "error" \in DOMAIN x
    BY <1>1 DEF Internal
  <2>2. QED
    BY <2>1, UpdatersAssumption
<1>2. QED
  BY <1>1

LEMMA FailedIsNotInternal ==
  Failed # Internal
<1>1. Failed.error = "invalid argument" /\ Internal.error = "internal"
  BY DEF Failed, Internal
<1>2. QED
  BY <1>1

\* What a call can leave.
LEMMA CallOutcomes ==
  ASSUME UpdatersInv, before # NoEvent
  PROVE  /\ updater.kind = config.kind
         /\ config.kind = "conditional_assignment" =>
              Assigned(updater.assignments, before, after)
         /\ config.kind # "conditional_assignment" =>
              \/ after = Failed \/ after = before
              \/ \E x : after = MergeFrom(before, x) \/ after = MergeFrom(x, before)
              \/ /\ after \in LabelerEvent
                 /\ \A f \in Fields : before[f] # Unset => after[f] # Unset
<1> DEFINE c == config
           e == before
           h == hash
           Kept == /\ after \in LabelerEvent
                   /\ \A f \in Fields : e[f] # Unset => after[f] # Unset
           Outcome == \/ after = Failed \/ after = e
                      \/ \E x : after = MergeFrom(e, x) \/ after = MergeFrom(x, e)
                      \/ Kept
<1>1. /\ c \in Configs /\ updater = Built(c) /\ updater # Refused
      /\ e \in LabelerEvent /\ h \in ExpHashes /\ h \in Hashes
      /\ after = Updated(updater, e, h)
  BY CallFacts DEF UpdatersInv
<1>2. ASSUME c.kind = "update_matrix" PROVE Outcome
  <2>1. /\ c \in UpdateMatrixMessage /\ updater = BuildUpdateMatrix(c)
        /\ after = UpdateByMatrix(BuildUpdateMatrix(c), e, h)
    BY <1>1, <1>2, Kinds, BuiltKinds
  <2>2. after \in {e, Failed} \/ \E r : after = MergeFrom(e, r)
    BY <1>1, <2>1, DenseUpdates
  <2>3. QED
    BY <2>2
<1>3. ASSUME c.kind = "sparse_update_matrix" PROVE Outcome
  <2>1. /\ c \in SparseUpdateMatrixMessage
        /\ updater = BuildSparseUpdateMatrix(c)
        /\ after = UpdateBySparseMatrix(BuildSparseUpdateMatrix(c), e, h)
    BY <1>1, <1>3, Kinds, BuiltKinds
  <2>2. after \in {e, Failed} \/ \E r : after = MergeFrom(e, r)
    BY <1>1, <2>1, SparseUpdates
  <2>3. QED
    BY <2>2
<1>4. ASSUME c.kind = "conditional_merge" PROVE Outcome
  <2> DEFINE n == Len(c.nodes)
             filters == [k \in DOMAIN c.nodes |-> c.nodes[k].condition]
             updates == [k \in DOMAIN c.nodes |-> c.nodes[k].update]
             index == GetFirstMatch(filters, e)
             u == BuildConditionalMerge(c)
  <2>1. /\ c \in ConditionalMergeMessage /\ updater = u /\ u # Refused
        /\ after = UpdateByMerge(u, e)
    BY <1>1, <1>4, Kinds, BuiltKinds
  <2>2. c.nodes \in Seq(ConditionalMergeNode)
    BY <2>1 DEF ConditionalMergeMessage
  <2>3. DOMAIN c.nodes = 1 .. n /\ n \in Nat
    BY <2>2
  <2>4. filters \in [1 .. n -> Optional(LabelerEvent)]
          /\ updates \in [1 .. n -> Optional(LabelerEvent)]
    <3>1. ASSUME NEW k \in 1 .. n
          PROVE  /\ c.nodes[k].condition \in Optional(LabelerEvent)
                 /\ c.nodes[k].update \in Optional(LabelerEvent)
      <4>1. c.nodes[k] \in ConditionalMergeNode
        BY <2>2, <2>3
      <4>2. QED
        BY <4>1 DEF ConditionalMergeNode
    <3>2. QED
      BY <2>3, <3>1
  <2>5. /\ filters \in Seq(Optional(LabelerEvent))
        /\ updates \in Seq(Optional(LabelerEvent))
        /\ Len(filters) = n /\ Len(updates) = n
        /\ DOMAIN filters = 1 .. n
    BY <2>3, <2>4
  <2>6. u.filters = filters /\ u.updates = updates
    BY <2>1, Zenon DEF BuildConditionalMerge
  <2>7. index = kNoMatchingIndex \/ \E k \in 1 .. n : index = k - 1
    BY <2>5, FirstMatch
  <2>8. UpdateByMerge(u, e) = IF index = kNoMatchingIndex THEN NoMatch(u, e)
                              ELSE MergeRow(updates, index, e)
    BY <2>6 DEF UpdateByMerge
  <2>9. NoMatch(u, e) \in {e, Failed}
    BY DEF NoMatch
  <2> HIDE DEF filters, updates, u, index
  <2>10. ASSUME NEW k \in 1 .. n, index = k - 1
         PROVE  MergeRow(updates, index, e) = MergeFrom(e, updates[k])
    <3>1. index \in 0 .. Len(updates) - 1 /\ index + 1 = k
      BY <2>3, <2>5, <2>10
    <3>2. QED
      BY <3>1 DEF MergeRow
  <2>11. after \in {e, Failed} \/ \E r : after = MergeFrom(e, r)
    BY <2>1, <2>7, <2>8, <2>9, <2>10
  <2>12. QED
    BY <2>11
<1>5. ASSUME c.kind = "conditional_assignment"
      PROVE  Assigned(updater.assignments, e, after)
  <2> DEFINE list == c.assignments
             u == BuildConditionalAssignment(c)
  <2>1. /\ c \in ConditionalAssignmentMessage /\ updater = u /\ u # Refused
        /\ after = UpdateByAssignment(u, e)
    BY <1>1, <1>5, Kinds, BuiltKinds
  <2>2. list \in Seq(FieldAssignment)
    BY <2>1 DEF ConditionalAssignmentMessage
  <2>3. \A k \in DOMAIN list :
          LET source == list[k].source_field
              target == list[k].target_field
          IN  source \in Fields /\ target \in Fields /\ Types[source] = Types[target]
    BY <2>1, Zenon DEF BuildConditionalAssignment
  <2>4. u.assignments = list
    BY <2>1, Zenon DEF BuildConditionalAssignment
  <2> HIDE DEF list, u
  <2>5. /\ u.assignments \in Seq(FieldAssignment)
        /\ \A k \in DOMAIN u.assignments :
             LET source == u.assignments[k].source_field
                 target == u.assignments[k].target_field
             IN  source \in Fields /\ target \in Fields /\ Types[source] = Types[target]
    BY <2>2, <2>3, <2>4
  <2>6. Assigned(u.assignments, e, UpdateByAssignment(u, e))
    BY <1>1, <2>5, AssignedKept
  <2>7. QED
    BY <2>1, <2>6
<1>6. ASSUME c.kind = "geometric_shredder" PROVE Outcome
  <2> DEFINE u == BuildGeometricShredder(c)
  <2>1. /\ c \in GeometricShredderMessage /\ u # Refused
        /\ after = UpdateByShredder(u, e, h)
    BY <1>1, <1>6, Kinds, BuiltKinds
  <2> HIDE DEF u
  <2>2. after = Failed \/ Kept
    BY <1>1, <2>1, ShreddedKept DEF u
  <2>3. QED
    BY <2>2
<1>7. ASSUME c.kind = "quantum_labels" PROVE Outcome
  <2>1. after = WriteLabel(c.quantum_labels, e, h)
    BY <1>1, <1>7, BuiltKinds
  <2>2. after = Failed \/ \E x : after = MergeFrom(x, e)
    BY <2>1, Zenon DEF WriteLabel
  <2>3. QED
    BY <2>2
<1>8. updater.kind = c.kind /\ c.kind # "not_set"
  BY <1>1, BuiltKinds
<1> HIDE DEF Outcome
<1>9. /\ c.kind = "conditional_assignment" => Assigned(updater.assignments, e, after)
      /\ c.kind # "conditional_assignment" => Outcome
  BY <1>1, <1>2, <1>3, <1>4, <1>5, <1>6, <1>7, <1>8, Kinds
<1>10. QED
  BY <1>8, <1>9 DEF Outcome

\* What a matcher or a hashing returns is never out of range, whatever Build
\* has accepted: no call returns an internal error.
THEOREM NoIndexOutOfRange == Spec => []NeverInternal
<1>1. ASSUME UpdatersInv PROVE NeverInternal
  <2>1. CASE before = NoEvent
    <3>1. after = NoEvent
      <4>1. before \in Events => before \in LabelerEvent
        BY UpdatersAssumption
      <4>2. QED
        BY <1>1, <2>1, <4>1, NoEventIsNone DEF UpdatersInv
    <3>2. NoEvent.error = "no call" /\ Internal.error = "internal"
      BY DEF NoEvent, Internal
    <3>3. QED
      BY <3>1, <3>2 DEF NeverInternal
  <2>2. CASE before # NoEvent
    <3>1. \A x : DOMAIN MergeFrom(before, x) = Fields /\ DOMAIN MergeFrom(x, before) = Fields
      BY DEF MergeFrom
    <3>2. before \in LabelerEvent
      BY <1>1, <2>2, CallFacts
    <3>3. \A x \in LabelerEvent : DOMAIN x = Fields
      BY DEF LabelerEvent
    <3>4. after = Failed \/ DOMAIN after = Fields
      <4>1. CASE config.kind = "conditional_assignment"
        BY <1>1, <2>2, <3>3, <4>1, CallOutcomes DEF Assigned
      <4>2. CASE config.kind # "conditional_assignment"
        BY <1>1, <2>2, <3>1, <3>2, <3>3, <4>2, CallOutcomes
      <4>3. QED
        BY <4>1, <4>2
    <3>5. QED
      BY <3>4, FieldsAreNotInternal, FailedIsNotInternal DEF NeverInternal
  <2>3. QED
    BY <2>1, <2>2
<1>2. QED
  BY <1>1, UpdatersInvHolds, PTL

\* No updater and no label clears a field, whatever the message, the event and
\* the hashes, and an assignment only copies what the event held in a field of
\* the same type, however long the list of assignments and whatever its order.
THEOREM FieldsAreKept == Spec => []KeepsFields
<1>1. ASSUME UpdatersInv PROVE KeepsFields
  <2> SUFFICES ASSUME before # NoEvent, after # Failed
               PROVE  /\ \A f \in Fields : before[f] # Unset => after[f] # Unset
                      /\ updater.kind = "conditional_assignment" =>
                           \A f \in Fields : after[f] # before[f] =>
                             /\ \E k \in DOMAIN updater.assignments :
                                  updater.assignments[k].target_field = f
                             /\ \E g \in Fields :
                                  Types[g] = Types[f] /\ after[f] = before[g]
    BY DEF KeepsFields
  <2>1. CASE config.kind = "conditional_assignment"
    BY <1>1, <2>1, CallOutcomes DEF Assigned
  <2>2. CASE config.kind # "conditional_assignment"
    <3>1. ASSUME NEW x, NEW f \in Fields, before[f] # Unset
          PROVE  MergeFrom(before, x)[f] # Unset /\ MergeFrom(x, before)[f] # Unset
      BY <3>1 DEF MergeFrom
    <3>2. QED
      BY <1>1, <2>2, <3>1, CallOutcomes
  <2>3. QED
    BY <2>1, <2>2
<1>2. QED
  BY <1>1, UpdatersInvHolds, PTL
=============================================================================
