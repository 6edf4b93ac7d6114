------------------------------ MODULE Feistel ------------------------------
(***************************************************************************)
(* FeistelPermute, called on the ranks of one pool: the seed and the size  *)
(* of the domain are those of a ranked population node.  A call runs four  *)
(* Feistel rounds on the two digits of the value, and again on the result  *)
(* for as long as that is outside of the domain.                           *)
(***************************************************************************)
EXTENDS Integers, Sequences

CONSTANTS
  Sizes,          \* the domain sizes
  Hashes,         \* what the round hashes of a seed may be
  MaxHalf,        \* no digit reaches it
  NoValue         \* no call under way

IsHalf(n, h) == h * h >= n /\ \A g \in 0 .. h - 1 : g * g < n

ASSUME FeistelAssumption ==
  /\ MaxHalf \in Nat /\ NoValue \notin Nat
  /\ \A n \in Sizes :
       n \in Nat \ {0} /\ \A h \in 0 .. n : IsHalf(n, h) => h <= MaxHalf
  /\ \A f \in Hashes :
       \A k \in 0 .. 3, r \in 0 .. MaxHalf : f[k][r] \in Nat

VARIABLES
  domain_size, hash,    \* the domain and the round hash, never changed
  value,                \* the argument of the call under way
  round,                \* how many rounds have run on current
  left, right,          \* the digits
  trail,                \* every value of current so far
  permuted              \* what the calls that have returned were answered

vars == <<domain_size, hash, value, round, left, right, trail, permuted>>

\* ceil(sqrt(domain_size)).
Half == CHOOSE h \in 0 .. domain_size : IsHalf(domain_size, h)
Domain == 0 .. domain_size - 1

Init ==
  /\ domain_size \in Sizes
  /\ hash \in Hashes
  /\ value = NoValue
  /\ round = 0 /\ left = 0 /\ right = 0
  /\ trail = <<>>
  /\ permuted = [v \in {} |-> 0]

Answered(v, w) ==
  [x \in DOMAIN permuted \cup {v} |-> IF x = v THEN w ELSE permuted[x]]

\* A domain of one value needs no rounds.
CallOfOne ==
  /\ value = NoValue /\ domain_size <= 1
  /\ \E v \in Domain : permuted' = Answered(v, 0)
  /\ UNCHANGED <<domain_size, hash, value, round, left, right, trail>>

Call ==
  /\ value = NoValue /\ domain_size > 1
  /\ value' \in Domain
  /\ left' = value' \div Half /\ right' = value' % Half
  /\ round' = 0
  /\ trail' = <<value'>>
  /\ UNCHANGED <<domain_size, hash, permuted>>

\* Fault: the left digit is forgotten.
HashOnly(k, l, r) == hash[k][r] % Half

\* Fault: the sum is not reduced.
UnreducedRight(k, l, r) == l + (hash[k][r] % Half)

\* The new right digit of a round.
NewRight(k, l, r) == (l + (hash[k][r] % Half)) % Half

Round ==
  /\ value # NoValue /\ round < 4
  /\ left' = right
  /\ right' = NewRight(round, left, right)
  /\ round' = round + 1
  /\ UNCHANGED <<domain_size, hash, value, trail, permuted>>

Current == left * Half + right

\* Fault: the walk starts again at the argument.
RestartWalk ==
  /\ value # NoValue /\ round = 4 /\ Current >= domain_size
  /\ left' = value \div Half /\ right' = value % Half
  /\ round' = 0
  /\ trail' = <<value, value>>
  /\ UNCHANGED <<domain_size, hash, value, permuted>>

\* The loop condition holds: current is outside of the domain.
Walk ==
  /\ value # NoValue /\ round = 4 /\ Current >= domain_size
  /\ left' = Current \div Half /\ right' = Current % Half
  /\ round' = 0
  /\ trail' = Append(trail, Current)
  /\ UNCHANGED <<domain_size, hash, value, permuted>>

Return ==
  /\ value # NoValue /\ round = 4 /\ Current < domain_size
  /\ permuted' = Answered(value, Current)
  /\ value' = NoValue
  /\ left' = 0 /\ right' = 0 /\ round' = 0
  /\ trail' = <<>>
  /\ UNCHANGED <<domain_size, hash>>

Next == CallOfOne \/ Call \/ Round \/ Walk \/ Return

Spec == Init /\ [][Next]_vars
FairSpec == Spec /\ WF_vars(Round) /\ WF_vars(Walk) /\ WF_vars(Return)
-----------------------------------------------------------------------------
\* The digits stay below Half, and current below its square.
TypeOK ==
  /\ value \in Domain \cup {NoValue}
  /\ round \in 0 .. 4
  /\ left \in 0 .. Half - 1 /\ right \in 0 .. Half - 1
  /\ trail \in Seq(0 .. Half * Half - 1)
  /\ DOMAIN permuted \subseteq Domain

\* feistel.h: "Bijective permutation on [0, domain_size) ... zero collisions by
\* construction".  Answers are in the domain and no two are the same, however
\* long the walks were.
Bijective ==
  /\ \A v \in DOMAIN permuted : permuted[v] \in Domain
  /\ \A v, w \in DOMAIN permuted : permuted[v] = permuted[w] => v = w

\* A walk does not come by the same value twice, so it does not go round
\* outside of the domain.
NoRevisit ==
  \A j, k \in DOMAIN trail : trail[j] = trail[k] => j = k

\* Every call returns.
Terminates == (value # NoValue) ~> (value = NoValue)
=============================================================================
