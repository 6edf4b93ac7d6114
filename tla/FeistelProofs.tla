--------------------------- MODULE FeistelProofs ---------------------------
(***************************************************************************)
(* FeistelPermute is injective, for every domain size and every hash.  The *)
(* four rounds, as one function Perm on the numbers of two digits, are     *)
(* injective.  A call follows Perm from its argument to the first value    *)
(* in the domain; two calls with the same answer can be followed back      *)
(* step by step, and the one that started first in the domain would have   *)
(* been the answer of the other.                                           *)
(***************************************************************************)
EXTENDS Feistel, WellFoundedInduction, TLAPS

Digit == 0 .. Half - 1
Square == 0 .. Half * Half - 1

\* The digits of x after 0 to 4 rounds.
Next2(k, p) == <<p[2], NewRight(k, p[1], p[2])>>
After0(x) == <<x \div Half, x % Half>>
After1(x) == Next2(0, After0(x))
After2(x) == Next2(1, After1(x))
After3(x) == Next2(2, After2(x))
After4(x) == Next2(3, After3(x))
After(k, x) ==
  IF k = 0 THEN After0(x) ELSE IF k = 1 THEN After1(x)
  ELSE IF k = 2 THEN After2(x) ELSE IF k = 3 THEN After3(x) ELSE After4(x)

Number(p) == p[1] * Half + p[2]
Perm(x) == Number(After4(x))

Fixed == domain_size \in Sizes /\ hash \in Hashes

\* Every non-empty set of naturals has a least element.
LEMMA NatMinimum ==
  ASSUME NEW T \in SUBSET Nat, T # {}
  PROVE  \E m \in T : \A k \in T : m <= k
<1> DEFINE R == OpToRel(<, Nat)
<1>1. IsWellFoundedOn(R, Nat)
  BY NatLessThanWellFounded
<1> HIDE DEF R
<1>2. PICK m \in T : \A k \in T : ~ (<<k, m>> \in R)
  BY <1>1, WFMin
<1>3. ASSUME NEW k \in T PROVE m <= k
  <2>1. <<k, m>> \notin R
    BY <1>2, <1>3
  <2>2. ~ (k < m)
    BY <2>1 DEF R, OpToRel
  <2>3. QED
    BY <2>2
<1>4. QED
  BY <1>3

LEMMA HalfProperties ==
  ASSUME Fixed
  PROVE  /\ domain_size \in Nat \ {0}
         /\ Half \in Nat \ {0} /\ Half <= MaxHalf
         /\ domain_size <= Half * Half
<1>1. domain_size \in Nat \ {0}
  BY FeistelAssumption DEF Fixed
<1> DEFINE T == {h \in 0 .. domain_size : h * h >= domain_size}
<1>2. domain_size * domain_size >= domain_size
  BY <1>1
<1>3. T # {} /\ T \in SUBSET Nat
  <2>1. domain_size \in T
    BY <1>1, <1>2
  <2>2. T \in SUBSET Nat
    OBVIOUS
  <2>3. QED
    BY <2>1, <2>2
<1>4. PICK h \in T : \A k \in T : h <= k
  BY <1>3, NatMinimum
<1>5. IsHalf(domain_size, h)
  <2>1. SUFFICES ASSUME NEW g \in 0 .. h - 1 PROVE g * g < domain_size
    BY <1>4 DEF IsHalf
  <2>2. g \in 0 .. domain_size /\ g \notin T
    BY <1>1, <1>4
  <2>3. g * g \in Int
    OBVIOUS
  <2>4. QED
    BY <1>1, <2>2, <2>3
<1>6. Half \in 0 .. domain_size /\ IsHalf(domain_size, Half)
  BY <1>4, <1>5 DEF Half
<1>7. Half # 0
  BY <1>1, <1>6 DEF IsHalf
<1>8. Half <= MaxHalf
  BY <1>6, FeistelAssumption DEF Fixed
<1>9. QED
  BY <1>1, <1>6, <1>7, <1>8 DEF IsHalf

LEMMA DivMod ==
  ASSUME NEW x \in Nat, NEW h \in Nat \ {0}
  PROVE  /\ x = (x \div h) * h + (x % h)
         /\ x % h \in 0 .. h - 1 /\ x \div h \in Nat
  OBVIOUS

LEMMA Monotone ==
  ASSUME NEW a \in Nat, NEW b \in Nat, NEW h \in Nat, a <= b
  PROVE  a * h <= b * h /\ (a + 1) * h = a * h + h
  OBVIOUS

LEMMA AddMod ==
  ASSUME NEW h \in Nat \ {0}, NEW l \in 0 .. h - 1, NEW r \in 0 .. h - 1
  PROVE  (l + r) % h = IF l + r < h THEN l + r ELSE l + r - h
  OBVIOUS

LEMMA CancelMod ==
  ASSUME NEW h \in Nat, NEW d \in 0 .. h - 1,
         NEW a \in 0 .. h - 1, NEW b \in 0 .. h - 1,
         (IF a + d < h THEN a + d ELSE a + d - h)
           = (IF b + d < h THEN b + d ELSE b + d - h)
  PROVE  a = b
  OBVIOUS

\* A number of two digits.
LEMMA DigitsOfNumber ==
  ASSUME Fixed, NEW x \in Square
  PROVE  After0(x) \in Digit \X Digit /\ Number(After0(x)) = x
<1>1. Half \in Nat \ {0} /\ x \in Nat /\ x < Half * Half
  BY HalfProperties DEF Square
<1>2. /\ x = (x \div Half) * Half + (x % Half)
      /\ x % Half \in Digit /\ x \div Half \in Nat
  BY <1>1, DivMod DEF Digit
<1>3. x \div Half < Half
  <2>1. SUFFICES ASSUME Half <= x \div Half PROVE FALSE
    BY <1>1, <1>2
  <2>2. Half * Half <= (x \div Half) * Half
    BY <1>1, <1>2, <2>1, Monotone
  <2>3. (x \div Half) * Half \in Int /\ x % Half >= 0
    BY <1>1, <1>2 DEF Digit
  <2>4. QED
    BY <1>1, <1>2, <2>2, <2>3
<1>4. x \div Half \in Digit
  BY <1>1, <1>2, <1>3 DEF Digit
<1>5. QED
  BY <1>2, <1>4 DEF After0, Number

LEMMA NumberProperties ==
  ASSUME Fixed, NEW p \in Digit \X Digit
  PROVE  /\ Number(p) \in Square
         /\ \A q \in Digit \X Digit : Number(p) = Number(q) => p = q
<1>1. Half \in Nat \ {0}
  BY HalfProperties
<1>2. \A a \in Digit, r \in Digit :
        a * Half \in Nat /\ a * Half + r < (a + 1) * Half
  BY <1>1, Monotone DEF Digit
<1>3. Number(p) \in Square
  <2>1. (p[1] + 1) * Half <= Half * Half
    BY <1>1, Monotone DEF Digit
  <2>2. QED
    BY <1>1, <1>2, <2>1 DEF Number, Digit, Square
<1>4. ASSUME NEW a \in Digit, NEW b \in Digit, NEW r \in Digit, NEW s \in Digit,
             a < b
      PROVE  a * Half + r # b * Half + s
  <2>1. (a + 1) * Half <= b * Half
    BY <1>1, <1>4, Monotone DEF Digit
  <2>2. a * Half + r < (a + 1) * Half /\ b * Half \in Nat /\ (a + 1) * Half \in Int
    BY <1>1, <1>2 DEF Digit
  <2>3. QED
    BY <1>1, <2>1, <2>2, <1>2 DEF Digit
<1>5. ASSUME NEW q \in Digit \X Digit, Number(p) = Number(q) PROVE p = q
  <2>1. ~ (p[1] < q[1]) /\ ~ (q[1] < p[1])
    BY <1>4, <1>5 DEF Number
  <2>2. p[1] = q[1]
    BY <1>1, <2>1 DEF Digit
  <2>3. p[1] * Half \in Int
    BY <1>1 DEF Digit
  <2>4. p[2] = q[2]
    BY <1>1, <1>5, <2>2, <2>3 DEF Number, Digit
  <2>5. QED
    BY <2>2, <2>4
<1>6. QED
  BY <1>3, <1>5

\* A round maps pairs of digits to pairs of digits, different ones differently.
LEMMA RoundProperties ==
  ASSUME Fixed, NEW k \in 0 .. 3, NEW p \in Digit \X Digit
  PROVE  /\ Next2(k, p) \in Digit \X Digit
         /\ \A q \in Digit \X Digit : Next2(k, p) = Next2(k, q) => p = q
<1>1. Half \in Nat \ {0} /\ Half <= MaxHalf /\ MaxHalf \in Nat
  BY HalfProperties, FeistelAssumption
<1>2. \A r \in Digit : hash[k][r] % Half \in Digit
  <2>1. \A r \in Digit : hash[k][r] \in Nat
    BY <1>1, FeistelAssumption DEF Fixed, Digit
  <2>2. QED
    BY <1>1, <2>1, DivMod DEF Digit
<1>3. ASSUME NEW l \in Digit, NEW r \in Digit
      PROVE  /\ NewRight(k, l, r) \in Digit
             /\ NewRight(k, l, r) = IF l + (hash[k][r] % Half) < Half
                                    THEN l + (hash[k][r] % Half)
                                    ELSE l + (hash[k][r] % Half) - Half
  <2>1. hash[k][r] % Half \in Digit
    BY <1>2
  <2> DEFINE d == hash[k][r] % Half
  <2>2. (l + d) % Half = IF l + d < Half THEN l + d ELSE l + d - Half
    <3>1. d \in 0 .. Half - 1 /\ l \in 0 .. Half - 1
      BY <2>1 DEF Digit
    <3> HIDE DEF d
    <3>2. QED
      BY <1>1, <3>1, AddMod
  <2>3. d \in 0 .. Half - 1 /\ l \in 0 .. Half - 1
    BY <2>1 DEF Digit
  <2>4. NewRight(k, l, r) = (l + d) % Half
    BY DEF NewRight
  <2> HIDE DEF d
  <2>5. NewRight(k, l, r) \in Digit
    BY <1>1, <2>2, <2>3, <2>4 DEF Digit
  <2>6. QED
    BY <2>2, <2>4, <2>5 DEF d
<1>4. Next2(k, p) \in Digit \X Digit
  BY <1>3 DEF Next2
<1>5. ASSUME NEW q \in Digit \X Digit, Next2(k, p) = Next2(k, q) PROVE p = q
  <2>1. p[2] = q[2] /\ NewRight(k, p[1], p[2]) = NewRight(k, q[1], p[2])
    BY <1>5 DEF Next2
  <2>2. hash[k][p[2]] % Half \in Digit /\ p[1] \in Digit /\ q[1] \in Digit
        /\ p[2] \in Digit
    BY <1>2
  <2> DEFINE d == hash[k][p[2]] % Half
  <2>3. /\ NewRight(k, p[1], p[2]) = IF p[1] + d < Half THEN p[1] + d ELSE p[1] + d - Half
        /\ NewRight(k, q[1], p[2]) = IF q[1] + d < Half THEN q[1] + d ELSE q[1] + d - Half
    BY <1>3, <2>2
  <2>4. /\ d \in 0 .. Half - 1 /\ p[1] \in 0 .. Half - 1
        /\ q[1] \in 0 .. Half - 1
    BY <2>2 DEF Digit
  <2>5. (IF p[1] + d < Half THEN p[1] + d ELSE p[1] + d - Half)
          = (IF q[1] + d < Half THEN q[1] + d ELSE q[1] + d - Half)
    BY <2>1, <2>3
  <2> HIDE DEF d
  <2>7. p[1] = q[1]
    BY <1>1, <2>4, <2>5, CancelMod
  <2>8. QED
    BY <2>1, <2>7
<1>6. QED
  BY <1>4, <1>5

LEMMA AfterProperties ==
  ASSUME Fixed, NEW x \in Square
  PROVE  /\ \A k \in 0 .. 4 : After(k, x) \in Digit \X Digit
         /\ \A k \in 0 .. 3 : After(k + 1, x) = Next2(k, After(k, x))
<1>1. After0(x) \in Digit \X Digit
  BY DigitsOfNumber
<1>2. After1(x) \in Digit \X Digit
  BY <1>1, RoundProperties DEF After1
<1>3. After2(x) \in Digit \X Digit
  BY <1>2, RoundProperties DEF After2
<1>4. After3(x) \in Digit \X Digit
  BY <1>3, RoundProperties DEF After3
<1>5. After4(x) \in Digit \X Digit
  BY <1>4, RoundProperties DEF After4
<1>6. \A k \in 0 .. 3 : After(k + 1, x) = Next2(k, After(k, x))
  <2>1. \A k \in 0 .. 3 : k = 0 \/ k = 1 \/ k = 2 \/ k = 3
    OBVIOUS
  <2>2. /\ After(0, x) = After0(x) /\ After(1, x) = After1(x)
        /\ After(2, x) = After2(x) /\ After(3, x) = After3(x)
        /\ After(4, x) = After4(x)
    BY DEF After
  <2>3. /\ After(0 + 1, x) = Next2(0, After(0, x))
        /\ After(1 + 1, x) = Next2(1, After(1, x))
        /\ After(2 + 1, x) = Next2(2, After(2, x))
        /\ After(3 + 1, x) = Next2(3, After(3, x))
    BY <2>2 DEF After1, After2, After3, After4
  <2>4. QED
    BY <2>1, <2>3
<1>7. QED
  BY <1>1, <1>2, <1>3, <1>4, <1>5, <1>6 DEF After

\* The four rounds are injective on the numbers of two digits.
LEMMA PermProperties ==
  ASSUME Fixed, NEW x \in Square
  PROVE  /\ Perm(x) \in Square
         /\ \A y \in Square : Perm(x) = Perm(y) => x = y
<1>1. \A k \in 0 .. 4 : After(k, x) \in Digit \X Digit
  BY AfterProperties
<1>2. Perm(x) \in Square
  BY <1>1, NumberProperties DEF Perm, After
<1>3. ASSUME NEW y \in Square, Perm(x) = Perm(y) PROVE x = y
  <2>1. \A k \in 0 .. 4 : After(k, y) \in Digit \X Digit
    BY AfterProperties
  <2>2. \A k \in 0 .. 3 : After(k + 1, x) = After(k + 1, y) => After(k, x) = After(k, y)
    <3>1. SUFFICES ASSUME NEW k \in 0 .. 3, After(k + 1, x) = After(k + 1, y)
                   PROVE  After(k, x) = After(k, y)
      OBVIOUS
    <3>2. Next2(k, After(k, x)) = Next2(k, After(k, y))
      BY <3>1, AfterProperties
    <3>3. After(k, x) \in Digit \X Digit /\ After(k, y) \in Digit \X Digit
      BY <1>1, <2>1
    <3>4. QED
      BY <3>2, <3>3, RoundProperties
  <2>3. After(4, x) = After(4, y)
    BY <1>1, <1>3, <2>1, NumberProperties DEF Perm, After
  <2>4. After(3, x) = After(3, y)
    BY <2>2, <2>3
  <2>5. After(2, x) = After(2, y)
    BY <2>2, <2>4
  <2>6. After(1, x) = After(1, y)
    BY <2>2, <2>5
  <2>7. After(0, x) = After(0, y)
    BY <2>2, <2>6
  <2>8. QED
    BY <2>7, DigitsOfNumber DEF After
<1>4. QED
  BY <1>2, <1>3

-----------------------------------------------------------------------------
\* A sequence that follows Perm.
Follows(t) ==
  /\ t \in Seq(Square)
  /\ \A k \in 1 .. Len(t) - 1 : t[k + 1] = Perm(t[k])

\* Two sequences that meet can be followed back from where they meet.
LEMMA FollowBack ==
  ASSUME Fixed, NEW s, Follows(s), NEW t, Follows(t),
         NEW a \in 1 .. Len(s), NEW b \in 1 .. Len(t), a <= b, s[a] = t[b]
  PROVE  s[1] = t[b - a + 1]
<1> DEFINE Apart == {j \in 0 .. a - 1 : s[a - j] # t[b - j]}
<1>1. Len(s) \in Nat /\ Len(t) \in Nat /\ a \in Nat /\ b \in Nat
  BY DEF Follows
<1>2. Apart = {}
  <2>1. SUFFICES ASSUME Apart # {} PROVE FALSE
    OBVIOUS
  <2>2. Apart \in SUBSET Nat
    BY <1>1
  <2>3. PICK j \in Apart : \A i \in Apart : j <= i
    BY <2>1, <2>2, NatMinimum
  <2>4. j \in 1 .. a - 1
    <3>1. j \in 0 .. a - 1 /\ s[a - j] # t[b - j]
      BY <2>3
    <3>2. a - 0 = a /\ b - 0 = b
      BY <1>1
    <3>3. j # 0
      BY <3>1, <3>2
    <3>4. QED
      BY <1>1, <3>1, <3>3
  <2>5. j - 1 \in 0 .. a - 1 /\ j - 1 \notin Apart
    <3>1. j - 1 \in 0 .. a - 1 /\ ~ (j <= j - 1)
      BY <1>1, <2>4
    <3>2. QED
      BY <2>3, <3>1
  <2>6. s[a - (j - 1)] = t[b - (j - 1)]
    BY <2>5
  <2>7. /\ a - j \in 1 .. Len(s) - 1 /\ b - j \in 1 .. Len(t) - 1
        /\ a - (j - 1) = (a - j) + 1 /\ b - (j - 1) = (b - j) + 1
    BY <1>1, <2>4
  <2>8. Perm(s[a - j]) = Perm(t[b - j])
    BY <2>6, <2>7 DEF Follows
  <2>9. s[a - j] \in Square /\ t[b - j] \in Square
    <3>1. a - j \in 1 .. Len(s) /\ b - j \in 1 .. Len(t)
      BY <1>1, <2>7
    <3>2. QED
      BY <3>1 DEF Follows
  <2>10. s[a - j] = t[b - j]
    BY <2>8, <2>9, PermProperties
  <2>11. QED
    BY <2>3, <2>10
<1>3. a - 1 \in 0 .. a - 1 /\ a - (a - 1) = 1 /\ b - (a - 1) = b - a + 1
  BY <1>1
<1>4. QED
  BY <1>2, <1>3

\* A call that runs, or has run, from v: after v the trail is outside of the
\* domain, up to the answer.
Walks(t, v) ==
  /\ Follows(t) /\ Len(t) >= 1 /\ t[1] = v
  /\ \A k \in 2 .. Len(t) : t[k] >= domain_size

Path(t, v, w) ==
  /\ Follows(t) /\ Len(t) >= 2 /\ t[1] = v /\ t[Len(t)] = w
  /\ \A k \in 2 .. Len(t) - 1 : t[k] >= domain_size

\* Two calls with one answer had one argument.
LEMMA PathsApart ==
  ASSUME Fixed, NEW v \in Domain, NEW s, NEW t, NEW w \in Domain,
         NEW x \in Domain, Path(s, v, w), Path(t, x, w), Len(s) <= Len(t)
  PROVE  v = x
<1>1. domain_size \in Nat
  BY HalfProperties
<1>2. Len(s) \in Nat /\ Len(t) \in Nat /\ Len(s) >= 2 /\ Len(t) >= 2
  BY DEF Path, Follows
<1>3. s[1] = t[Len(t) - Len(s) + 1]
  <2>1. Len(s) \in 1 .. Len(s) /\ Len(t) \in 1 .. Len(t) /\ s[Len(s)] = t[Len(t)]
    BY <1>2 DEF Path
  <2>2. QED
    BY <2>1, FollowBack DEF Path
<1>4. CASE Len(s) = Len(t)
  <2>1. Len(t) - Len(s) + 1 = 1
    BY <1>2, <1>4
  <2>2. QED
    BY <1>3, <2>1 DEF Path
<1>5. CASE Len(s) < Len(t)
  <2>1. Len(t) - Len(s) + 1 \in 2 .. Len(t) - 1
    BY <1>2, <1>5
  <2>2. s[1] >= domain_size
    BY <1>3, <2>1 DEF Path
  <2>3. QED
    BY <1>1, <2>2 DEF Path, Domain
<1>6. QED
  BY <1>2, <1>4, <1>5

\* A walk does not come by a value twice.
LEMMA WalkApart ==
  ASSUME Fixed, NEW v \in Domain, NEW t, Walks(t, v),
         NEW j \in 1 .. Len(t), NEW k \in 1 .. Len(t), j < k
  PROVE  t[j] # t[k]
<1>1. SUFFICES ASSUME t[j] = t[k] PROVE FALSE
  OBVIOUS
<1>2. Len(t) \in Nat /\ domain_size \in Nat
  BY HalfProperties DEF Walks, Follows
<1>3. j <= k
  BY <1>2
<1>4. t[1] = t[k - j + 1]
  BY <1>1, <1>3, FollowBack DEF Walks
<1>5. k - j + 1 \in 2 .. Len(t)
  BY <1>2
<1>6. t[1] >= domain_size
  BY <1>4, <1>5 DEF Walks
<1>7. QED
  BY <1>2, <1>6 DEF Walks, Domain
-----------------------------------------------------------------------------
\* The inductive invariant: a call walks from its argument, its digits are
\* those of the last value after the rounds so far, and an answer is the end of
\* a path.
IInv ==
  /\ Fixed /\ TypeOK
  /\ value # NoValue =>
       /\ domain_size > 1 /\ Walks(trail, value)
       /\ <<left, right>> = After(round, trail[Len(trail)])
  /\ value = NoValue => trail = <<>>
  /\ \A v \in DOMAIN permuted :
       /\ permuted[v] \in Domain
       /\ domain_size > 1 => \E t : Path(t, v, permuted[v])

LEMMA IInvImplies == IInv => TypeOK /\ Bijective /\ NoRevisit
<1>1. SUFFICES ASSUME IInv PROVE Bijective /\ NoRevisit
  BY DEF IInv
<1>2. Fixed /\ domain_size \in Nat \ {0}
  BY <1>1, HalfProperties DEF IInv
<1>3. Bijective
  <2>1. SUFFICES ASSUME NEW v \in DOMAIN permuted, NEW w \in DOMAIN permuted,
                        permuted[v] = permuted[w]
                 PROVE  v = w
    BY <1>1 DEF IInv, Bijective
  <2>2. v \in Domain /\ w \in Domain /\ permuted[v] \in Domain
    BY <1>1 DEF IInv, TypeOK
  <2>3. CASE domain_size = 1
    BY <2>2, <2>3 DEF Domain
  <2>4. CASE domain_size > 1
    <3>1. PICK s : Path(s, v, permuted[v])
      BY <1>1, <2>4 DEF IInv
    <3>2. PICK t : Path(t, w, permuted[v])
      BY <1>1, <2>1, <2>4 DEF IInv
    <3>3. Len(s) \in Nat /\ Len(t) \in Nat
      BY <3>1, <3>2 DEF Path, Follows
    <3>4. CASE Len(s) <= Len(t)
      BY <1>2, <2>2, <3>1, <3>2, <3>4, PathsApart
    <3>5. CASE Len(t) <= Len(s)
      BY <1>2, <2>2, <3>1, <3>2, <3>5, PathsApart
    <3>6. QED
      BY <3>3, <3>4, <3>5
  <2>5. QED
    BY <1>2, <2>3, <2>4
<1>4. NoRevisit
  <2>1. SUFFICES ASSUME NEW j \in DOMAIN trail, NEW k \in DOMAIN trail,
                        trail[j] = trail[k], j # k
                 PROVE  FALSE
    BY DEF NoRevisit
  <2>2. DOMAIN trail = 1 .. Len(trail) /\ Len(trail) \in Nat
    BY <1>1 DEF IInv, TypeOK
  <2>3. value # NoValue
    <3>1. trail # <<>>
      BY <2>1
    <3>2. QED
      BY <1>1, <3>1 DEF IInv
  <2>4. value \in Domain /\ Walks(trail, value)
    BY <1>1, <2>3 DEF IInv, TypeOK
  <2>5. CASE j < k
    BY <1>2, <2>1, <2>2, <2>4, <2>5, WalkApart
  <2>6. CASE k < j
    BY <1>2, <2>1, <2>2, <2>4, <2>6, WalkApart
  <2>7. QED
    BY <2>1, <2>2, <2>5, <2>6
<1>5. QED
  BY <1>3, <1>4

LEMMA InitHolds == Init => IInv
<1>1. SUFFICES ASSUME Init PROVE IInv
  OBVIOUS
<1>2. Fixed
  BY <1>1 DEF Init, Fixed
<1>3. Half \in Nat \ {0}
  BY <1>2, HalfProperties
<1>4. TypeOK
  BY <1>1, <1>3 DEF Init, TypeOK
<1>5. QED
  BY <1>1, <1>2, <1>4 DEF Init, IInv

\* What a step leaves alone.
LEMMA Kept ==
  ASSUME UNCHANGED <<domain_size, hash>>
  PROVE  /\ Half' = Half /\ Domain' = Domain /\ Fixed' = Fixed
         /\ \A t, v : Walks(t, v)' <=> Walks(t, v)
         /\ \A t, v, w : Path(t, v, w)' <=> Path(t, v, w)
         /\ \A k, x : After(k, x)' = After(k, x)
<1>1. Half' = Half
  BY DEF Half
<1>2. \A k, x : After(k, x)' = After(k, x)
  BY <1>1 DEF After, After0, After1, After2, After3, After4, Next2, NewRight
<1>3. \A x : Perm(x)' = Perm(x)
  BY <1>1 DEF Perm, Number, After0, After1, After2, After3, After4, Next2, NewRight
<1>4. Square' = Square
  BY <1>1 DEF Square
<1>5. \A t : Follows(t)' <=> Follows(t)
  BY <1>3, <1>4 DEF Follows
<1>6. QED
  BY <1>1, <1>2, <1>5 DEF Domain, Fixed, Walks, Path

LEMMA CallOfOneStep == IInv /\ CallOfOne => IInv'
<1>1. SUFFICES ASSUME IInv, CallOfOne PROVE IInv'
  OBVIOUS
<1>2. Fixed /\ domain_size = 1
  BY <1>1, HalfProperties DEF IInv, CallOfOne
<1>3. 0 \in Domain
  BY <1>2 DEF Domain
<1>4. PICK v \in Domain : permuted' = Answered(v, 0)
  BY <1>1 DEF CallOfOne
<1>5. UNCHANGED <<domain_size, hash, value, round, left, right, trail>>
  BY <1>1 DEF CallOfOne
<1>6. /\ DOMAIN permuted' = DOMAIN permuted \cup {v}
      /\ \A x \in DOMAIN permuted' : permuted'[x] = IF x = v THEN 0 ELSE permuted[x]
  BY <1>4 DEF Answered
<1>7. TypeOK'
  BY <1>1, <1>5, <1>6, Kept DEF IInv, TypeOK
<1>8. QED
  BY <1>1, <1>2, <1>3, <1>5, <1>6, <1>7, Kept DEF IInv, CallOfOne

LEMMA CallStep == IInv /\ Call => IInv'
<1>1. SUFFICES ASSUME IInv, Call PROVE IInv'
  OBVIOUS
<1>2. Fixed /\ Half \in Nat \ {0} /\ domain_size <= Half * Half
      /\ domain_size \in Nat \ {0}
  BY <1>1, HalfProperties DEF IInv
<1>3. UNCHANGED <<domain_size, hash, permuted>> /\ domain_size > 1
  BY <1>1 DEF Call
<1>4. value' \in Domain /\ value' \in Square
  <2>1. value' \in Domain
    BY <1>1 DEF Call
  <2>2. QED
    BY <1>2, <2>1 DEF Domain, Square
<1>5. After0(value') \in Digit \X Digit /\ <<left', right'>> = After0(value')
  BY <1>1, <1>2, <1>4, DigitsOfNumber DEF Call, After0
<1>6. left' \in Digit /\ right' \in Digit
  BY <1>5
<1>7. trail' = <<value'>> /\ round' = 0 /\ trail' \in Seq(Square)
  BY <1>1, <1>4 DEF Call
<1>8. TypeOK'
  BY <1>1, <1>3, <1>4, <1>6, <1>7, Kept DEF IInv, TypeOK, Digit, Square
<1>9. Walks(trail', value')
  BY <1>7 DEF Walks, Follows
<1>10. <<left', right'>> = After(round', trail'[Len(trail')])
  BY <1>5, <1>7 DEF After
<1>11. trail' # <<>> /\ value' # NoValue
  BY <1>4, <1>7, <1>2, FeistelAssumption DEF Domain
<1>12. QED
  BY <1>1, <1>3, <1>8, <1>9, <1>10, <1>11, Kept DEF IInv

LEMMA RoundStep == IInv /\ Round => IInv'
<1>1. SUFFICES ASSUME IInv, Round PROVE IInv'
  OBVIOUS
<1>2. Fixed /\ value # NoValue /\ round \in 0 .. 3
  BY <1>1 DEF IInv, TypeOK, Round
<1>3. UNCHANGED <<domain_size, hash, value, trail, permuted>>
  BY <1>1 DEF Round
<1> DEFINE x == trail[Len(trail)]
<1>4. x \in Square /\ <<left, right>> = After(round, x)
  <2>1. Walks(trail, value)
    BY <1>1, <1>2 DEF IInv
  <2>2. Len(trail) \in 1 .. Len(trail) /\ trail \in Seq(Square)
    BY <2>1 DEF Walks, Follows
  <2>3. QED
    BY <1>1, <1>2, <2>2 DEF IInv
<1>5. <<left', right'>> = Next2(round, <<left, right>>) /\ round' = round + 1
  BY <1>1 DEF Round, Next2
<1>6. /\ After(round + 1, x) = Next2(round, After(round, x))
      /\ After(round + 1, x) \in Digit \X Digit
  BY <1>2, <1>4, AfterProperties
<1>7. <<left', right'>> = After(round', x)
  BY <1>4, <1>5, <1>6
<1>8. left' \in Digit /\ right' \in Digit
  BY <1>5, <1>6, <1>7
<1>9. round' \in 0 .. 4
  BY <1>2, <1>5
<1>10. TypeOK'
  BY <1>1, <1>3, <1>8, <1>9, Kept DEF IInv, TypeOK, Digit
<1>11. QED
  BY <1>1, <1>3, <1>7, <1>10, Kept DEF IInv

\* After four rounds, current is Perm of the last value of the trail.
LEMMA CurrentIsPerm ==
  ASSUME IInv, value # NoValue, round = 4
  PROVE  /\ Fixed /\ Walks(trail, value)
         /\ trail \in Seq(Square) /\ Len(trail) \in Nat \ {0}
         /\ Current = Perm(trail[Len(trail)]) /\ Current \in Square
<1>1. Fixed /\ Walks(trail, value)
  BY DEF IInv
<1>2. trail \in Seq(Square) /\ Len(trail) \in Nat \ {0}
  BY <1>1 DEF Walks, Follows
<1> DEFINE x == trail[Len(trail)]
<1>3. x \in Square
  BY <1>2
<1>4. <<left, right>> = After4(x)
  BY DEF IInv, After
<1>5. Current = Perm(x)
  BY <1>4 DEF Current, Perm, Number
<1>6. Perm(x) \in Square
  BY <1>1, <1>3, PermProperties
<1>7. QED
  BY <1>1, <1>2, <1>5, <1>6

\* A trail that follows Perm, with one value more.
LEMMA FollowsMore ==
  ASSUME NEW t, Follows(t), Len(t) >= 1, NEW x \in Square, x = Perm(t[Len(t)])
  PROVE  /\ Follows(Append(t, x)) /\ Len(Append(t, x)) = Len(t) + 1
         /\ Append(t, x)[Len(t) + 1] = x
         /\ \A k \in 1 .. Len(t) : Append(t, x)[k] = t[k]
<1>1. t \in Seq(Square) /\ Len(t) \in Nat
  BY DEF Follows
<1> DEFINE s == Append(t, x)
<1>2. /\ s \in Seq(Square) /\ Len(s) = Len(t) + 1 /\ s[Len(t) + 1] = x
      /\ \A k \in 1 .. Len(t) : s[k] = t[k]
  BY <1>1
<1> HIDE DEF s
<1>3. ASSUME NEW k \in 1 .. Len(s) - 1 PROVE s[k + 1] = Perm(s[k])
  <2>1. CASE k = Len(t)
    <3>1. k \in 1 .. Len(t)
      BY <1>1, <2>1
    <3>2. QED
      BY <1>2, <2>1, <3>1
  <2>2. CASE k < Len(t)
    <3>1. k \in 1 .. Len(t) /\ k + 1 \in 1 .. Len(t) /\ k \in 1 .. Len(t) - 1
      BY <1>1, <2>2
    <3>2. t[k + 1] = Perm(t[k])
      BY <3>1 DEF Follows
    <3>3. QED
      BY <1>2, <3>1, <3>2
  <2>3. QED
    BY <1>1, <1>2, <2>1, <2>2
<1>4. QED
  BY <1>2, <1>3 DEF Follows, s

LEMMA WalkStep == IInv /\ Walk => IInv'
<1>1. SUFFICES ASSUME IInv, Walk PROVE IInv'
  OBVIOUS
<1>2. value # NoValue /\ round = 4 /\ Current >= domain_size
  BY <1>1 DEF Walk
<1>3. /\ Fixed /\ Walks(trail, value)
      /\ trail \in Seq(Square) /\ Len(trail) \in Nat \ {0}
      /\ Current = Perm(trail[Len(trail)]) /\ Current \in Square
  BY <1>1, <1>2, CurrentIsPerm
<1>4. UNCHANGED <<domain_size, hash, value, permuted>>
  BY <1>1 DEF Walk
<1>5. /\ Follows(trail') /\ Len(trail') = Len(trail) + 1
      /\ trail'[Len(trail) + 1] = Current
      /\ \A k \in 1 .. Len(trail) : trail'[k] = trail[k]
  BY <1>1, <1>3, FollowsMore DEF Walk, Walks
<1>6. Walks(trail', value)
  <2>1. trail'[1] = value
    BY <1>3, <1>5 DEF Walks
  <2>2. ASSUME NEW k \in 2 .. Len(trail') PROVE trail'[k] >= domain_size
    <3>1. k \in 2 .. Len(trail) \/ k = Len(trail) + 1
      BY <1>3, <1>5
    <3>2. CASE k \in 2 .. Len(trail)
      <4>1. k \in 1 .. Len(trail)
        BY <1>3, <3>2
      <4>2. QED
        BY <1>3, <1>5, <3>2, <4>1 DEF Walks
    <3>3. CASE k = Len(trail) + 1
      BY <1>2, <1>5, <3>3
    <3>4. QED
      BY <3>1, <3>2, <3>3
  <2>3. QED
    BY <1>3, <1>5, <2>1, <2>2 DEF Walks
<1>7. <<left', right'>> = After0(Current) /\ After0(Current) \in Digit \X Digit
  BY <1>1, <1>3, DigitsOfNumber DEF Walk, After0
<1>8. left' \in Digit /\ right' \in Digit /\ round' = 0
  BY <1>1, <1>7 DEF Walk
<1>9. <<left', right'>> = After(round', trail'[Len(trail')])
  BY <1>5, <1>7, <1>8 DEF After
<1>10. TypeOK'
  BY <1>1, <1>4, <1>5, <1>8, Kept DEF IInv, TypeOK, Digit, Follows, Square
<1>11. QED
  BY <1>1, <1>2, <1>4, <1>6, <1>9, <1>10, Kept DEF IInv

LEMMA ReturnStep == IInv /\ Return => IInv'
<1>1. SUFFICES ASSUME IInv, Return PROVE IInv'
  OBVIOUS
<1>2. value # NoValue /\ round = 4 /\ Current < domain_size
  BY <1>1 DEF Return
<1>3. /\ Fixed /\ Walks(trail, value)
      /\ trail \in Seq(Square) /\ Len(trail) \in Nat \ {0}
      /\ Current = Perm(trail[Len(trail)]) /\ Current \in Square
  BY <1>1, <1>2, CurrentIsPerm
<1>4. UNCHANGED <<domain_size, hash>> /\ domain_size \in Nat \ {0}
  BY <1>1, <1>3, HalfProperties DEF Return
<1> DEFINE t == Append(trail, Current)
<1>5. /\ Follows(t) /\ Len(t) = Len(trail) + 1 /\ t[Len(trail) + 1] = Current
      /\ \A k \in 1 .. Len(trail) : t[k] = trail[k]
  BY <1>3, FollowsMore DEF Walks
<1> HIDE DEF t
<1>6. Path(t, value, Current)
  <2>1. t[1] = value /\ Len(t) >= 2 /\ t[Len(t)] = Current
    BY <1>3, <1>5 DEF Walks
  <2>2. ASSUME NEW k \in 2 .. Len(t) - 1 PROVE t[k] >= domain_size
    <3>1. k \in 1 .. Len(trail) /\ k \in 2 .. Len(trail)
      BY <1>3, <1>5
    <3>2. QED
      BY <1>3, <1>5, <3>1 DEF Walks
  <2>3. QED
    BY <1>5, <2>1, <2>2 DEF Path
<1>7. Current \in Domain
  BY <1>2, <1>3, <1>4 DEF Domain, Square
<1>8. /\ DOMAIN permuted' = DOMAIN permuted \cup {value}
      /\ \A x \in DOMAIN permuted' :
           permuted'[x] = IF x = value THEN Current ELSE permuted[x]
  BY <1>1 DEF Return, Answered
<1>9. ASSUME NEW x \in DOMAIN permuted'
      PROVE  permuted'[x] \in Domain /\ \E u : domain_size > 1 => Path(u, x, permuted'[x])
  <2>1. CASE x = value
    BY <1>6, <1>7, <1>8, <2>1
  <2>2. CASE x # value
    <3>1. x \in DOMAIN permuted /\ permuted'[x] = permuted[x]
      BY <1>8, <2>2
    <3>2. QED
      BY <1>1, <3>1 DEF IInv
  <2>3. QED
    BY <2>1, <2>2
<1>10. Half \in Nat \ {0} /\ value \in Domain
  BY <1>1, <1>2, <1>3, HalfProperties DEF IInv, TypeOK
<1>11. /\ value' = NoValue /\ left' = 0 /\ right' = 0 /\ round' = 0
       /\ trail' = <<>>
  BY <1>1 DEF Return
<1>12. TypeOK'
  BY <1>1, <1>4, <1>8, <1>10, <1>11, Kept DEF IInv, TypeOK
<1>13. QED
  BY <1>1, <1>3, <1>4, <1>9, <1>11, <1>12, Kept DEF IInv

LEMMA StutterStep == IInv /\ UNCHANGED vars => IInv'
<1>1. SUFFICES ASSUME IInv, UNCHANGED vars PROVE IInv'
  OBVIOUS
<1>2. UNCHANGED <<domain_size, hash, value, round, left, right, trail, permuted>>
  BY <1>1 DEF vars
<1>3. TypeOK'
  BY <1>1, <1>2, Kept DEF IInv, TypeOK
<1>4. QED
  BY <1>1, <1>2, <1>3, Kept DEF IInv

\* feistel.h: a "bijective permutation on [0, domain_size)", for every size and
\* every hash.  Answers are in the domain, and no two values have the same.
THEOREM PermuteIsBijective == Spec => []Bijective
<1>1. IInv /\ [Next]_vars => IInv'
  BY CallOfOneStep, CallStep, RoundStep, WalkStep, ReturnStep, StutterStep DEF Next
<1>2. QED
  BY InitHolds, <1>1, IInvImplies, PTL DEF Spec

\* The digits stay below ceil(sqrt(domain_size)), so that no sum or product of
\* the rounds is ever outside of the square of it.
THEOREM DigitsStayInRange == Spec => []TypeOK
<1>1. IInv /\ [Next]_vars => IInv'
  BY CallOfOneStep, CallStep, RoundStep, WalkStep, ReturnStep, StutterStep DEF Next
<1>2. QED
  BY InitHolds, <1>1, IInvImplies, PTL DEF Spec

\* Cycle-walking comes by no value twice: there is no cycle outside of the
\* domain that a walk could be caught in.
THEOREM WalkNeverRevisits == Spec => []NoRevisit
<1>1. IInv /\ [Next]_vars => IInv'
  BY CallOfOneStep, CallStep, RoundStep, WalkStep, ReturnStep, StutterStep DEF Next
<1>2. QED
  BY InitHolds, <1>1, IInvImplies, PTL DEF Spec
=============================================================================
