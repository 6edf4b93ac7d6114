--------------------------- MODULE LabelingProofs ---------------------------
(***************************************************************************)
(* A branch node never makes more clones than it is asked for.  And the    *)
(* ranked people of two events never share a virtual person id, nor does   *)
(* anybody without a rank have theirs where DISJOINT splits the pool, for  *)
(* every model, every set of events and every order of the calls.  The     *)
(* invariant follows a person from the leaf that adds it through clones    *)
(* and merges to the output: it carries the permuted rank that the ranker  *)
(* gave to its event in its pool, or an id behind the ranked range.        *)
(*                                                                         *)
(* The two passes over an event take the same path: they announce a pool   *)
(* for each ranked person, in that order, and the ranks that are given for *)
(* the announced pools are all that the second pass needs.  A call is seen *)
(* as a run of a deterministic machine; its state in the one pass is       *)
(* related to its state in the other, step by step.                        *)
(*                                                                         *)
(* And a call answers with what its model means.  The meaning of a node is *)
(* defined by recursion on its height.  At every step of a call there is a *)
(* chain of results, one for each Apply call under way, from the meaning   *)
(* of the root to what the event has brought so far: each is the meaning   *)
(* of its node if the next is what the part under way brings.              *)
(***************************************************************************)
EXTENDS TwoPassLabeling, LabelingMeaning, Multiplicity, WellFoundedInduction,
        TLAPS

(***************************************************************************)
(* The number of clones, for every message, value and seed.                *)
(***************************************************************************)
LEMMA DivMod ==
  ASSUME NEW x \in Nat, NEW n \in Nat \ {0}
  PROVE  /\ x \div n \in Nat /\ x % n \in 0 .. n - 1
         /\ x = n * (x \div n) + (x % n)
BY SMT

\* Rounding down after multiplication keeps the order.
LEMMA ScaledOrder ==
  ASSUME NEW a \in Nat, NEW b \in Nat, a <= b,
         NEW s \in Nat, NEW n \in Nat \ {0}
  PROVE  (a * s) \div n <= (b * s) \div n
<1> DEFINE p == a * s
           q == b * s
<1>1. p \in Nat /\ q \in Nat /\ p <= q
  BY SMT
<1> HIDE DEF p, q
<1>2. /\ p \div n \in Nat /\ p % n \in 0 .. n - 1
      /\ q \div n \in Nat /\ q % n \in 0 .. n - 1
      /\ p = n * (p \div n) + (p % n) /\ q = n * (q \div n) + (q % n)
  BY <1>1, DivMod
<1> DEFINE c == p \div n
           d == q \div n
<1>3. c \in Nat /\ d \in Nat /\ n * c <= n * d + (n - 1)
  BY <1>1, <1>2, SMT
<1> HIDE DEF c, d
<1>4. c > d => n * c >= n * (d + 1)
  BY <1>3, SMT
<1>5. n * (d + 1) = n * d + n
  BY <1>3, SMT
<1>6. n * c \in Nat /\ n * d \in Nat
  BY <1>3, SMT
<1>7. c <= d
  BY <1>3, <1>4, <1>5, <1>6, SMT
<1>8. QED
  BY <1>7 DEF c, d, p, q

\* For one event, a larger expected number is not rounded to fewer clones.
LEMMA BimodalOrder ==
  ASSUME NEW x \in Nat, NEW y \in Nat, x <= y, NEW seed \in Nat
  PROVE  /\ ComputeBimodalInteger(x, seed) \in Nat
         /\ ComputeBimodalInteger(x, seed) <= ComputeBimodalInteger(y, seed)
<1> DEFINE u == x \div One
           v == y \div One
<1>1. /\ One \in Nat \ {0} /\ Seeds \in Nat
  BY MultiplicityAssumption
<1>2. /\ u \in Nat /\ x % One \in 0 .. One - 1 /\ x = One * u + (x % One)
      /\ v \in Nat /\ y % One \in 0 .. One - 1 /\ y = One * v + (y % One)
  BY <1>1, DivMod
<1>3. /\ ComputeBimodalInteger(x, seed)
           = IF seed < Threshold(x) THEN u + 1 ELSE u
      /\ ComputeBimodalInteger(y, seed)
           = IF seed < Threshold(y) THEN v + 1 ELSE v
  BY DEF ComputeBimodalInteger
<1> HIDE DEF u, v
<1>4. One * u \in Nat /\ One * v \in Nat
  BY <1>1, <1>2, SMT
<1>5. u > v => One * u >= One * (v + 1)
  BY <1>1, <1>2, SMT
<1>6. One * (v + 1) = One * v + One
  BY <1>1, <1>2, SMT
<1>7. u <= v
  BY <1>1, <1>2, <1>4, <1>5, <1>6, SMT
<1>8. CASE u < v
  BY <1>2, <1>3, <1>8, SMT
<1>9. CASE u = v
  <2>1. x % One <= y % One
    BY <1>2, <1>4, <1>9, SMT
  <2>2. ((x % One) * Seeds) \div One <= ((y % One) * Seeds) \div One
    <3>1. x % One \in Nat /\ y % One \in Nat
      BY <1>1, <1>2, SMT
    <3>2. QED
      BY <1>1, <2>1, <3>1, ScaledOrder, Zenon
  <2>3. Threshold(x) <= Threshold(y)
    BY <2>2 DEF Threshold
  <2>4. Threshold(x) \in Int /\ Threshold(y) \in Int
    BY <1>1, <1>2, SMT DEF Threshold
  <2>5. QED
    BY <1>2, <1>3, <1>9, <2>3, <2>4, SMT
<1>10. QED
  BY <1>2, <1>7, <1>8, <1>9, SMT

\* No rounding adds a whole clone.
LEMMA BimodalNear ==
  ASSUME NEW x \in Nat, NEW seed \in Nat
  PROVE  One * ComputeBimodalInteger(x, seed) < x + One
<1> DEFINE u == x \div One
           r == x % One
<1>1. One \in Nat \ {0} /\ Seeds \in Nat
  BY MultiplicityAssumption
<1>2. u \in Nat /\ r \in 0 .. One - 1 /\ x = One * u + r
  BY <1>1, DivMod
<1>3. ComputeBimodalInteger(x, seed)
        = IF seed < (r * Seeds) \div One THEN u + 1 ELSE u
  BY DEF ComputeBimodalInteger, Threshold
<1> HIDE DEF u, r
<1>4. r = 0 => (r * Seeds) \div One = 0
  BY <1>1, SMT
<1>5. One * (u + 1) = One * u + One /\ One * u \in Nat
  BY <1>1, <1>2, SMT
<1>6. CASE r = 0
  BY <1>1, <1>2, <1>3, <1>4, <1>5, <1>6, SMT
<1>7. CASE r # 0
  <2>1. \/ ComputeBimodalInteger(x, seed) = u + 1
        \/ ComputeBimodalInteger(x, seed) = u
    BY <1>3
  <2>2. One * u < x + One /\ One * u + One < x + One
    BY <1>1, <1>2, <1>5, <1>7, SMT
  <2>3. QED
    BY <1>5, <2>1, <2>2
<1>8. QED
  BY <1>6, <1>7
-----------------------------------------------------------------------------
\* What BuildMultiplicity leaves of a message.
IsMultiplicity(m) ==
  /\ m.expected \in Int /\ m.max_value \in Int /\ m.cap_at_max \in BOOLEAN

\* The number of clones of an event, for its value of the field and its seed.
IsCountOf(m, value, seed) ==
  /\ value \in Int \cup {NotSet} /\ seed \in Nat
  /\ ComputeEventMultiplicity(m, value, seed) # NoCount

LEMMA CountIsRounded ==
  ASSUME NEW m, NEW value, NEW seed, NotSet \notin Int,
         IsMultiplicity(m), IsCountOf(m, value, seed)
  PROVE  LET expected == ExpectedMultiplicity(m, value)
         IN  /\ expected \in Int
             /\ Capped(m, expected) \in Nat
             /\ ComputeEventMultiplicity(m, value, seed)
                  = ComputeBimodalInteger(Capped(m, expected), seed)
<1> DEFINE expected == ExpectedMultiplicity(m, value)
<1>1. expected # NotSet /\ ~ (Capped(m, expected) < 0)
  BY DEF IsCountOf, ComputeEventMultiplicity
<1>2. expected \in Int
  BY <1>1 DEF ExpectedMultiplicity, IsMultiplicity, IsCountOf
<1>3. ComputeEventMultiplicity(m, value, seed)
        = ComputeBimodalInteger(Capped(m, expected), seed)
  BY DEF IsCountOf, ComputeEventMultiplicity
<1> HIDE DEF expected
<1>4. Capped(m, expected) \in Nat
  BY <1>1, <1>2 DEF Capped, IsMultiplicity
<1>5. QED
  BY <1>2, <1>3, <1>4 DEF expected

\* The number of clones never exceeds max_value, but for rounding it up when it
\* is not whole: cap_at_max caps, and without it a larger number is an error.
THEOREM ClonesWithinCap ==
  ASSUME NEW m, NEW value, NEW seed, NotSet \notin Int,
         IsMultiplicity(m), IsCountOf(m, value, seed)
  PROVE  One * ComputeEventMultiplicity(m, value, seed) < m.max_value + One
<1> DEFINE x == Capped(m, ExpectedMultiplicity(m, value))
           n == ComputeBimodalInteger(x, seed)
<1>1. /\ ExpectedMultiplicity(m, value) \in Int /\ x \in Nat
      /\ ComputeEventMultiplicity(m, value, seed) = n
  BY CountIsRounded, Zenon
<1>2. x <= m.max_value
  BY <1>1 DEF Capped, IsMultiplicity
<1>3. seed \in Nat
  BY DEF IsCountOf
<1> HIDE DEF x
<1>4. n \in Nat /\ One * n < x + One
  BY <1>1, <1>3, BimodalNear, BimodalOrder
<1> HIDE DEF n
<1>5. One \in Nat /\ m.max_value \in Int
  BY MultiplicityAssumption DEF IsMultiplicity
<1>6. QED
  BY <1>1, <1>2, <1>4, <1>5

\* When the value of the field grows, an event never gets fewer clones: as
\* a clone depends on its index alone, those it had stay as they were.
THEOREM ClonesGrowWithValue ==
  ASSUME NEW m, NEW v \in Int, NEW w \in Int, v <= w, NEW seed,
         NotSet \notin Int, IsMultiplicity(m),
         IsCountOf(m, v, seed), IsCountOf(m, w, seed)
  PROVE  ComputeEventMultiplicity(m, v, seed)
           <= ComputeEventMultiplicity(m, w, seed)
<1> DEFINE x == Capped(m, ExpectedMultiplicity(m, v))
           y == Capped(m, ExpectedMultiplicity(m, w))
<1>1. /\ ExpectedMultiplicity(m, v) \in Int /\ x \in Nat
      /\ ComputeEventMultiplicity(m, v, seed) = ComputeBimodalInteger(x, seed)
  BY CountIsRounded, Zenon
<1>2. /\ ExpectedMultiplicity(m, w) \in Int /\ y \in Nat
      /\ ComputeEventMultiplicity(m, w, seed) = ComputeBimodalInteger(y, seed)
  BY CountIsRounded, Zenon
<1>3. ExpectedMultiplicity(m, v) <= ExpectedMultiplicity(m, w)
  BY DEF ExpectedMultiplicity, IsMultiplicity
<1>4. x <= y
  BY <1>1, <1>2, <1>3 DEF Capped, IsMultiplicity
<1>5. seed \in Nat
  BY DEF IsCountOf
<1> HIDE DEF x, y
<1>6. QED
  BY <1>1, <1>2, <1>4, <1>5, BimodalOrder

(***************************************************************************)
(* The ranked people of two events.                                        *)
(***************************************************************************)

FrameType == UpdatesFrame \cup ClonesFrame

\* A person given from a rank of its event, in model t with the ranks r.
HasRank(t, p, ra) ==
  /\ ra.pool_offset = t[p.leaf].pool_offset
  /\ ra.local_rank < t[p.leaf].ranked_size
  /\ p.vid = t[p.leaf].pool_offset + t[p.leaf].permute[ra.local_rank]
FromRank(t, r, p, e) ==
  p.ranked => /\ t[p.leaf].kind = "ranked"
              /\ \E k \in DOMAIN r[e] : HasRank(t, p, r[e][k])

\* A person without a rank is behind the ranked range of a DISJOINT leaf.
BehindRanks(t, p) ==
  (/\ ~ p.ranked
   /\ t[p.leaf].kind = "ranked" /\ t[p.leaf].unranked_mode = "DISJOINT")
  => p.vid >= t[p.leaf].pool_offset + t[p.leaf].ranked_size
PersonOk(t, r, p, e) == FromRank(t, r, p, e) /\ BehindRanks(t, p)
PeopleOk(t, r, people, e) == \A k \in DOMAIN people : PersonOk(t, r, people[k], e)

\* A pool assignment of a pool that the model has.
IsPool(t, o) == \E n \in Nodes : t[n].kind = "ranked" /\ o = t[n].pool_offset
PoolsOk(t, pools) == \A k \in DOMAIN pools : IsPool(t, pools[k].pool_offset)

EventOk(t, r, ev, e) == PeopleOk(t, r, ev.people, e) /\ PoolsOk(t, ev.pools)
FrameOk(t, r, f, e) ==
  /\ f.kind = "updates" => t[f.node].kind = "updates"
  /\ f.kind = "clones" =>
       /\ t[f.node].kind = "multiplicity" /\ EventOk(t, r, f.source, e)
       /\ PeopleOk(t, r, f.people, e) /\ PoolsOk(t, f.pools)
FramesOk(t, r, fs, e) == \A k \in DOMAIN fs : FrameOk(t, r, fs[k], e)

\* The ranks of the call are the ranker's.
InputOk(r, in) ==
  \A k \in DOMAIN in.ranks :
    k \in DOMAIN r[in.event] /\ in.ranks[k] = r[in.event][k]

CallInv ==
  /\ LabelerTypeOK
  /\ outcome = "running" =>
       /\ EventOk(tree, ranks, event, input.event)
       /\ FramesOk(tree, ranks, frames, input.event)
  /\ outcome # "running" => frames = <<>>

-----------------------------------------------------------------------------
\* Nodes are what TreesAssumption says.
LEMMA NodeFacts ==
  ASSUME tree \in Trees, NEW n \in Nodes
  PROVE  /\ tree[n].kind = "updates" => Branching(tree[n]) /\ Updating(tree[n])
         /\ tree[n].kind = "multiplicity" =>
              Branching(tree[n]) /\ Cloning(tree[n])
         /\ tree[n].kind = "ranked" => Ranked(tree[n])
         /\ tree[n].kind = "population" => tree[n].vid \in [Fingerprints -> Nat]
  BY TreesAssumption

LEMMA ConcatOk ==
  ASSUME NEW T, NEW R, NEW e, NEW s \in Seq(VirtualPersonActivity),
         NEW t \in Seq(VirtualPersonActivity), PeopleOk(T, R, s, e), PeopleOk(T, R, t, e),
         NEW u \in Seq(PoolAssignment), NEW v \in Seq(PoolAssignment),
         PoolsOk(T, u), PoolsOk(T, v)
  PROVE  /\ s \o t \in Seq(VirtualPersonActivity) /\ PeopleOk(T, R, s \o t, e)
         /\ u \o v \in Seq(PoolAssignment) /\ PoolsOk(T, u \o v)
<1>1. ASSUME NEW k \in DOMAIN (s \o t)
      PROVE  \/ k \in DOMAIN s /\ (s \o t)[k] = s[k]
             \/ k - Len(s) \in DOMAIN t /\ (s \o t)[k] = t[k - Len(s)]
  OBVIOUS
<1>2. ASSUME NEW k \in DOMAIN (u \o v)
      PROVE  \/ k \in DOMAIN u /\ (u \o v)[k] = u[k]
             \/ k - Len(u) \in DOMAIN v /\ (u \o v)[k] = v[k - Len(u)]
  OBVIOUS
<1>3. PeopleOk(T, R, s \o t, e)
  BY <1>1 DEF PeopleOk
<1>4. PoolsOk(T, u \o v)
  BY <1>2 DEF PoolsOk
<1>5. QED
  BY <1>3, <1>4

LEMMA AppendOk ==
  ASSUME NEW T, NEW R, NEW e, NEW s \in Seq(VirtualPersonActivity), PeopleOk(T, R, s, e),
         NEW p \in VirtualPersonActivity, PersonOk(T, R, p, e)
  PROVE  Append(s, p) \in Seq(VirtualPersonActivity) /\ PeopleOk(T, R, Append(s, p), e)
<1>1. \A k \in DOMAIN Append(s, p) :
        \/ k \in DOMAIN s /\ Append(s, p)[k] = s[k]
        \/ Append(s, p)[k] = p
  OBVIOUS
<1>2. QED
  BY <1>1 DEF PeopleOk

LEMMA AppendPoolOk ==
  ASSUME NEW T, NEW s \in Seq(PoolAssignment), PoolsOk(T, s), NEW p \in PoolAssignment,
         IsPool(T, p.pool_offset)
  PROVE  Append(s, p) \in Seq(PoolAssignment) /\ PoolsOk(T, Append(s, p))
<1>1. \A k \in DOMAIN Append(s, p) :
        \/ k \in DOMAIN s /\ Append(s, p)[k] = s[k]
        \/ Append(s, p)[k] = p
  OBVIOUS
<1>2. QED
  BY <1>1 DEF PoolsOk

\* The stack.
LEMMA FramesFacts ==
  ASSUME CallInv, outcome = "running", frames # <<>>
  PROVE  /\ Top \in FrameType /\ FrameOk(tree, ranks, Top, input.event)
         /\ Below \in Seq(FrameType) /\ FramesOk(tree, ranks, Below, input.event)
<1>1. frames \in Seq(FrameType) /\ FramesOk(tree, ranks, frames, input.event)
  BY DEF CallInv, LabelerTypeOK, FrameType
<1>2. Len(frames) \in DOMAIN frames /\ Len(frames) \in Nat
  BY <1>1
<1>3. Below \in Seq(FrameType) /\ \A k \in DOMAIN Below : k \in DOMAIN frames /\ Below[k] = frames[k]
  BY <1>1, <1>2 DEF Below
<1>4. QED
  BY <1>1, <1>2, <1>3 DEF Top, FramesOk

LEMMA PushOk ==
  ASSUME NEW T, NEW R, NEW e, NEW fs \in Seq(FrameType), FramesOk(T, R, fs, e),
         NEW f \in FrameType, FrameOk(T, R, f, e)
  PROVE  Append(fs, f) \in Seq(FrameType) /\ FramesOk(T, R, Append(fs, f), e)
<1>1. \A k \in DOMAIN Append(fs, f) :
        \/ k \in DOMAIN fs /\ Append(fs, f)[k] = fs[k]
        \/ Append(fs, f)[k] = f
  OBVIOUS
<1>2. QED
  BY <1>1 DEF FramesOk

LEMMA StateFacts ==
  ASSUME NEW ev \in LabelerEvent
  PROVE  /\ StateOf(ev) \in State
         /\ \A s \in State : /\ InState(ev, s) \in LabelerEvent
                             /\ InState(ev, s).people = ev.people
                             /\ InState(ev, s).pools = ev.pools
  BY DEF LabelerEvent, StateOf, InState, State
-----------------------------------------------------------------------------
\* A step of a call that goes on keeps the invariant if what it leaves is typed
\* and its people are from ranks.
LEMMA Goes ==
  ASSUME CallInv, outcome = "running", ranks' = ranks,
         tree' = tree, UNCHANGED <<input, mode, outcome, output>>,
         at' \in Nodes \cup {NoNode},
         event' \in LabelerEvent, EventOk(tree, ranks, event', input.event),
         frames' \in Seq(FrameType), FramesOk(tree, ranks, frames', input.event)
  PROVE  CallInv'
<1>1. LabelerTypeOK'
  BY DEF CallInv, LabelerTypeOK, FrameType
<1>2. QED
  BY <1>1 DEF CallInv

LEMMA FailsKeep ==
  ASSUME CallInv, ranks' = ranks, NEW error, error # "running", Fail(error)
  PROVE  CallInv'
  BY DEF CallInv, LabelerTypeOK, Fail

LEMMA ChildStep ==
  ASSUME CallInv, outcome = "running", ranks' = ranks,
         NEW n \in Nodes, Branching(tree[n]),
         NEW ev \in LabelerEvent, EventOk(tree, ranks, ev, input.event),
         NEW calls \in Seq(FrameType), FramesOk(tree, ranks, calls, input.event),
         ApplyChild(n, ev, calls)
  PROVE  CallInv'
<1> DEFINE selected == tree[n].select[StateOf(ev)]
<1>1. selected \in 0 .. Len(tree[n].children) /\ tree[n].children \in Seq(Nodes)
  BY StateFacts DEF Branching
<1>2. CASE selected = 0
  BY <1>2, FailsKeep DEF ApplyChild
<1>3. CASE selected # 0
  <2>1. /\ at' = tree[n].children[selected] /\ event' = ev /\ frames' = calls
        /\ UNCHANGED <<tree, input, mode, outcome, output>>
    BY <1>3 DEF ApplyChild
  <2>2. at' \in Nodes
    BY <1>1, <1>3, <2>1
  <2>3. QED
    BY <2>1, <2>2, Goes
<1>4. QED
  BY <1>2, <1>3

\* What every step of Apply may use.
LEMMA RunFacts ==
  ASSUME CallInv, outcome = "running"
  PROVE  /\ tree \in Trees /\ event \in LabelerEvent /\ input \in LabelerInput
         /\ EventOk(tree, ranks, event, input.event)
         /\ frames \in Seq(FrameType) /\ FramesOk(tree, ranks, frames, input.event)
         /\ at \in Nodes \cup {NoNode} /\ NoNode \in Nodes \cup {NoNode}
  BY DEF CallInv, LabelerTypeOK, FrameType

LEMMA ApplyUpdatesStep ==
  ASSUME CallInv, ranks' = ranks, ApplyUpdates PROVE CallInv'
<1>1. outcome = "running" /\ at \in Nodes
  BY RunFacts DEF ApplyUpdates, Applied
<1> DEFINE f == [kind |-> "updates", node |-> at, next |-> 1]
<1>2. f \in FrameType /\ FrameOk(tree, ranks, f, input.event)
  BY <1>1 DEF FrameType, UpdatesFrame, FrameOk, ApplyUpdates, Applied
<1>3. /\ Append(frames, f) \in Seq(FrameType)
      /\ FramesOk(tree, ranks, Append(frames, f), input.event)
  BY <1>1, <1>2, RunFacts, PushOk
<1>4. QED
  BY <1>1, <1>3, RunFacts, Goes DEF ApplyUpdates

LEMMA UpdateStep ==
  ASSUME CallInv, ranks' = ranks, Update PROVE CallInv'
<1>1. outcome = "running" /\ frames # <<>> /\ Top.kind = "updates"
  BY DEF Update, Returned, Top
<1>2. /\ Top \in UpdatesFrame
      /\ Below \in Seq(FrameType) /\ FramesOk(tree, ranks, Below, input.event)
  BY <1>1, FramesFacts DEF FrameType, UpdatesFrame, ClonesFrame
<1> DEFINE f == [Top EXCEPT !.next = @ + 1]
           updater == tree[Top.node].updaters[Top.next]
<1>3. f \in FrameType /\ FrameOk(tree, ranks, f, input.event)
  BY <1>1, <1>2, FramesFacts DEF FrameType, UpdatesFrame, FrameOk
<1>4. /\ Append(Below, f) \in Seq(FrameType)
      /\ FramesOk(tree, ranks, Append(Below, f), input.event)
  BY <1>2, <1>3, PushOk
<1>5. /\ Top.node \in Nodes /\ Branching(tree[Top.node])
      /\ Top.next \in DOMAIN tree[Top.node].updaters
      /\ \/ updater.by = "tree" /\ updater.root \in Nodes
         \/ updater.by = "function" /\ updater.f \in [State -> State \cup {Failed}]
  <2>1. Top.node \in Nodes /\ tree[Top.node].kind = "updates"
    BY <1>1, <1>2, FramesFacts DEF UpdatesFrame, FrameOk
  <2>2. Branching(tree[Top.node]) /\ Updating(tree[Top.node])
    BY <1>1, <2>1, NodeFacts, RunFacts
  <2>3. Top.next \in DOMAIN tree[Top.node].updaters
    BY DEF Update
  <2>4. QED
    BY <2>1, <2>2, <2>3 DEF Updating
<1>6. CASE updater.by = "tree"
  <2>1. /\ at' = updater.root /\ frames' = Append(Below, f)
        /\ UNCHANGED <<tree, input, mode, event, outcome, output>>
    BY <1>6 DEF Update
  <2>2. QED
    BY <1>1, <1>4, <1>5, <1>6, <2>1, RunFacts, Goes
<1>7. CASE updater.by = "function" /\ updater.f[StateOf(event)] # Failed
  <2>1. /\ event' = InState(event, updater.f[StateOf(event)])
        /\ frames' = Append(Below, f)
        /\ UNCHANGED <<tree, input, mode, at, outcome, output>>
    BY <1>7 DEF Update
  <2>2. /\ event' \in LabelerEvent /\ event'.people = event.people
        /\ event'.pools = event.pools
    <3>1. event \in LabelerEvent /\ StateOf(event) \in State
      BY <1>1, RunFacts, StateFacts
    <3>2. updater.f[StateOf(event)] \in State
      BY <1>5, <1>7, <3>1
    <3>3. QED
      BY <2>1, <3>1, <3>2, StateFacts
  <2>3. EventOk(tree, ranks, event', input.event)
    BY <1>1, <2>2, RunFacts DEF EventOk
  <2>4. QED
    BY <1>1, <1>4, <2>1, <2>2, <2>3, RunFacts, Goes
<1>8. CASE updater.by = "function" /\ updater.f[StateOf(event)] = Failed
  BY <1>8, FailsKeep DEF Update
<1>9. QED
  BY <1>5, <1>6, <1>7, <1>8

LEMMA UpdatedStep ==
  ASSUME CallInv, ranks' = ranks, Updated PROVE CallInv'
<1>1. outcome = "running" /\ frames # <<>> /\ Top.kind = "updates"
  BY DEF Updated, Returned, Top
<1>2. /\ Top \in UpdatesFrame /\ FrameOk(tree, ranks, Top, input.event)
      /\ Below \in Seq(FrameType) /\ FramesOk(tree, ranks, Below, input.event)
  BY <1>1, FramesFacts DEF FrameType, UpdatesFrame, ClonesFrame
<1>3. Top.node \in Nodes /\ Branching(tree[Top.node])
  BY <1>1, <1>2, NodeFacts, RunFacts DEF UpdatesFrame, FrameOk
<1>4. QED
  BY <1>1, <1>2, <1>3, RunFacts, ChildStep DEF Updated

LEMMA CloneStateFacts ==
  ASSUME tree \in Trees, NEW n \in Nodes, Cloning(tree[n]), NEW s \in State,
         NEW i \in 0 .. MaxClones
  PROVE  CloneState(n, s, i) \in State
<1>1. s.fp \in Fingerprints /\ s.fields \in Fields
  BY DEF State
<1>2. i # 0 => i \in 1 .. MaxClones
  BY TreesAssumption
<1>3. (IF i = 0 THEN s.fp ELSE tree[n].clone_fp[s.fp][i]) \in Fingerprints
  BY <1>1, <1>2 DEF Cloning
<1>4. tree[n].person_index[s.fields][i] \in Fields
  BY <1>1 DEF Cloning
<1>5. QED
  BY <1>3, <1>4 DEF CloneState, State

LEMMA ApplyMultiplicityStep ==
  ASSUME CallInv, ranks' = ranks, ApplyMultiplicity PROVE CallInv'
<1>1. outcome = "running" /\ at \in Nodes /\ tree[at].kind = "multiplicity"
  BY RunFacts DEF ApplyMultiplicity, Applied
<1>2. Branching(tree[at]) /\ Cloning(tree[at])
  BY <1>1, NodeFacts, RunFacts
<1> DEFINE s == StateOf(event)
           count == tree[at].clone_count[s]
<1>3. s \in State /\ event \in LabelerEvent
  BY <1>1, RunFacts, StateFacts
<1>4. count \in 0 .. MaxClones \cup {Failed}
  BY <1>2, <1>3 DEF Cloning
<1>5. MaxClones \in Nat
  BY TreesAssumption
<1> HIDE DEF s
<1>6. CASE count = 1
  <2>1. 0 \in 0 .. MaxClones
    BY <1>5
  <2>2. CloneState(at, s, 0) \in State
    BY <1>1, <1>2, <1>3, <2>1, RunFacts, CloneStateFacts
  <2> DEFINE ev == InState(event, CloneState(at, s, 0))
  <2>3. /\ ev \in LabelerEvent /\ ev.people = event.people
        /\ ev.pools = event.pools
    BY <1>3, <2>2, StateFacts
  <2>4. EventOk(tree, ranks, ev, input.event)
    BY <1>1, <2>3, RunFacts DEF EventOk
  <2>5. ApplyChild(at, ev, frames)
    BY <1>6, TreesAssumption DEF ApplyMultiplicity, s
  <2> HIDE DEF ev
  <2>6. QED
    BY <1>1, <1>2, <2>3, <2>4, <2>5, RunFacts, ChildStep
<1>7. CASE count = Failed
  BY <1>7, TreesAssumption, FailsKeep DEF ApplyMultiplicity, s
<1>8. CASE count \notin {1, Failed}
  <2> DEFINE clones == [i \in 1 .. count |-> CloneState(at, s, i - 1)]
             f == [kind |-> "clones", node |-> at, source |-> event,
                   clones |-> clones, applied |-> 0,
                   people |-> <<>>, pools |-> <<>>]
  <2>1. /\ frames' = Append(frames, f) /\ at' = NoNode
        /\ UNCHANGED <<tree, input, mode, event, outcome, output>>
    BY <1>8 DEF ApplyMultiplicity, s
  <2>2. count \in Nat /\ count <= MaxClones
    BY <1>4, <1>5, <1>8
  <2>3. clones \in Seq(State)
    <3>1. \A i \in 1 .. count : CloneState(at, s, i - 1) \in State
      <4>1. \A i \in 1 .. count : i - 1 \in 0 .. MaxClones
        BY <1>5, <2>2
      <4>2. QED
        BY <1>1, <1>2, <1>3, <4>1, RunFacts, CloneStateFacts
    <3> HIDE DEF count
    <3>2. QED
      BY <2>2, <3>1
  <2> HIDE DEF clones
  <2>4. f \in ClonesFrame
    BY <1>1, <1>3, <2>3 DEF ClonesFrame
  <2>5. FrameOk(tree, ranks, f, input.event)
    BY <1>1, RunFacts DEF FrameOk, PeopleOk, PoolsOk
  <2> HIDE DEF f
  <2>6. /\ Append(frames, f) \in Seq(FrameType)
        /\ FramesOk(tree, ranks, Append(frames, f), input.event)
    BY <1>1, <2>4, <2>5, RunFacts, PushOk DEF FrameType
  <2>7. QED
    BY <1>1, <2>1, <2>6, RunFacts, Goes
<1>9. QED
  BY <1>6, <1>7, <1>8

\* What the clones have brought.
LEMMA CollectFacts ==
  ASSUME CallInv, outcome = "running", frames # <<>>, Top.kind = "clones"
  PROVE  /\ Top \in ClonesFrame /\ FrameOk(tree, ranks, Top, input.event)
         /\ Collect(Top) \in ClonesFrame
         /\ Collect(Top).node = Top.node /\ Collect(Top).source = Top.source
         /\ Collect(Top).clones = Top.clones
         /\ FrameOk(tree, ranks, Collect(Top), input.event)
<1>1. Top \in ClonesFrame /\ FrameOk(tree, ranks, Top, input.event)
  BY FramesFacts DEF FrameType, UpdatesFrame, ClonesFrame
<1>2. CASE Top.applied = 0
  BY <1>1, <1>2 DEF Collect
<1>3. CASE Top.applied # 0
  <2>1. /\ Top.people \in Seq(VirtualPersonActivity)
        /\ Top.pools \in Seq(PoolAssignment)
        /\ PeopleOk(tree, ranks, Top.people, input.event)
        /\ PoolsOk(tree, Top.pools)
    BY <1>1 DEF ClonesFrame, FrameOk
  <2>2. /\ event.people \in Seq(VirtualPersonActivity)
        /\ event.pools \in Seq(PoolAssignment)
        /\ PeopleOk(tree, ranks, event.people, input.event)
        /\ PoolsOk(tree, event.pools)
    BY RunFacts DEF LabelerEvent, EventOk
  <2> DEFINE people == Top.people \o event.people
             pools == Top.pools \o event.pools
  <2>3. /\ people \in Seq(VirtualPersonActivity)
        /\ pools \in Seq(PoolAssignment)
        /\ PeopleOk(tree, ranks, people, input.event)
        /\ PoolsOk(tree, pools)
    BY <2>1, <2>2, ConcatOk
  <2>4. Collect(Top) = [Top EXCEPT !.people = people, !.pools = pools]
    BY <1>3 DEF Collect
  <2> HIDE DEF people, pools
  <2>5. /\ Collect(Top) \in ClonesFrame
        /\ Collect(Top).node = Top.node /\ Collect(Top).source = Top.source
        /\ Collect(Top).clones = Top.clones
        /\ Collect(Top).people = people /\ Collect(Top).pools = pools
    BY <1>1, <2>3, <2>4 DEF ClonesFrame
  <2>6. Collect(Top).kind = "clones" /\ Top.kind = "clones"
    BY <1>1, <2>5 DEF ClonesFrame
  <2>7. QED
    BY <1>1, <2>3, <2>5, <2>6 DEF FrameOk
<1>4. QED
  BY <1>2, <1>3

LEMMA ApplyCloneStep ==
  ASSUME CallInv, ranks' = ranks, ApplyClone PROVE CallInv'
<1>1. /\ outcome = "running" /\ frames # <<>> /\ Top.kind = "clones"
      /\ Top.applied < Len(Top.clones)
  BY DEF ApplyClone, Returned, Top
<1>2. /\ Top \in ClonesFrame /\ FrameOk(tree, ranks, Top, input.event)
      /\ Collect(Top) \in ClonesFrame
      /\ FrameOk(tree, ranks, Collect(Top), input.event)
  BY <1>1, CollectFacts
<1> DEFINE f == [Collect(Top) EXCEPT !.applied = @ + 1]
           ev == CloneOf(Top)
<1>3. f \in FrameType /\ FrameOk(tree, ranks, f, input.event)
  <2> DEFINE c == Collect(Top)
  <2>1. c \in ClonesFrame /\ FrameOk(tree, ranks, c, input.event)
    BY <1>2
  <2> HIDE DEF c
  <2>2. /\ f \in ClonesFrame /\ f.kind = c.kind /\ f.node = c.node
        /\ f.source = c.source /\ f.people = c.people /\ f.pools = c.pools
    BY <2>1 DEF ClonesFrame, c
  <2>3. QED
    BY <2>1, <2>2 DEF FrameType, FrameOk
<1>4. /\ Append(Below, f) \in Seq(FrameType)
      /\ FramesOk(tree, ranks, Append(Below, f), input.event)
  BY <1>1, <1>3, FramesFacts, PushOk
<1>5. Top.node \in Nodes /\ Branching(tree[Top.node])
  <2>1. Top.node \in Nodes /\ tree[Top.node].kind = "multiplicity"
    BY <1>1, <1>2 DEF ClonesFrame, FrameOk
  <2>2. QED
    BY <1>1, <2>1, NodeFacts, RunFacts
<1>6. Top.clones[Top.applied + 1] \in State
  <2>1. Top.clones \in Seq(State) /\ Top.applied \in Nat
    BY <1>2 DEF ClonesFrame
  <2>2. Top.applied + 1 \in 1 .. Len(Top.clones)
    BY <1>1, <2>1
  <2>3. QED
    BY <2>1, <2>2
<1>7. /\ ev \in LabelerEvent /\ ev.people = Top.source.people
      /\ ev.pools = Top.source.pools
  <2>1. Top.source \in LabelerEvent
    BY <1>2 DEF ClonesFrame
  <2>2. QED
    BY <1>6, <2>1, StateFacts DEF CloneOf
<1>8. EventOk(tree, ranks, ev, input.event)
  BY <1>1, <1>2, <1>7 DEF FrameOk, EventOk
<1>9. ApplyChild(Top.node, ev, Append(Below, f))
  BY DEF ApplyClone
<1> HIDE DEF ev, f
<1>10. QED
  BY <1>1, <1>4, <1>5, <1>7, <1>8, <1>9, ChildStep

LEMMA MergeClonesStep ==
  ASSUME CallInv, ranks' = ranks, MergeClones PROVE CallInv'
<1>1. outcome = "running" /\ frames # <<>> /\ Top.kind = "clones"
  BY DEF MergeClones, Returned, Top
<1>2. /\ Top \in ClonesFrame /\ Collect(Top) \in ClonesFrame
      /\ FrameOk(tree, ranks, Top, input.event)
      /\ FrameOk(tree, ranks, Collect(Top), input.event)
  BY <1>1, CollectFacts
<1>3. /\ Top.source \in LabelerEvent
      /\ Collect(Top).people \in Seq(VirtualPersonActivity)
      /\ Collect(Top).pools \in Seq(PoolAssignment)
      /\ Collect(Top).kind = "clones"
  BY <1>2 DEF ClonesFrame
<1>4. /\ Top.source.people \in Seq(VirtualPersonActivity)
      /\ Top.source.pools \in Seq(PoolAssignment)
      /\ PeopleOk(tree, ranks, Top.source.people, input.event)
      /\ PoolsOk(tree, Top.source.pools)
      /\ PeopleOk(tree, ranks, Collect(Top).people, input.event)
      /\ PoolsOk(tree, Collect(Top).pools)
  BY <1>1, <1>2, <1>3 DEF FrameOk, EventOk, LabelerEvent
<1> DEFINE people == Top.source.people \o Collect(Top).people
           pools == Top.source.pools \o Collect(Top).pools
<1>5. /\ people \in Seq(VirtualPersonActivity) /\ pools \in Seq(PoolAssignment)
      /\ PeopleOk(tree, ranks, people, input.event) /\ PoolsOk(tree, pools)
  BY <1>3, <1>4, ConcatOk
<1>6. /\ event' = [Top.source EXCEPT !.people = people, !.pools = pools]
      /\ frames' = Below
      /\ UNCHANGED <<tree, input, mode, at, outcome, output>>
  BY <1>3 DEF MergeClones, LabelerEvent
<1> HIDE DEF people, pools
<1>7. /\ event' \in LabelerEvent /\ event'.people = people
      /\ event'.pools = pools
  BY <1>3, <1>5, <1>6 DEF LabelerEvent
<1>8. EventOk(tree, ranks, event', input.event)
  BY <1>5, <1>7 DEF EventOk
<1>9. QED
  BY <1>1, <1>6, <1>7, <1>8, FramesFacts, RunFacts, Goes
-----------------------------------------------------------------------------
\* Leaves.
LEMMA LeafStep ==
  ASSUME CallInv, outcome = "running", ranks' = ranks, NEW ev \in LabelerEvent,
         EventOk(tree, ranks, ev, input.event), LeafReturns(ev)
  PROVE  CallInv'
  BY RunFacts, Goes DEF LeafReturns

LEMMA AddPersonStep ==
  ASSUME CallInv, outcome = "running", ranks' = ranks, at \in Nodes,
         NEW vid \in Nat, NEW ranked \in BOOLEAN, AddPerson(vid, ranked),
         PersonOk(tree, ranks, [vid |-> vid, leaf |-> at, ranked |-> ranked],
                  input.event)
  PROVE  CallInv'
<1> DEFINE p == [vid |-> vid, leaf |-> at, ranked |-> ranked]
           people == Append(event.people, p)
           ev == [event EXCEPT !.people = people]
<1>1. CASE event.fields \in Collapsible
  <2>1. p \in VirtualPersonActivity
    BY DEF VirtualPersonActivity
  <2>2. /\ event \in LabelerEvent
        /\ event.people \in Seq(VirtualPersonActivity)
        /\ PeopleOk(tree, ranks, event.people, input.event)
        /\ PoolsOk(tree, event.pools)
    BY RunFacts DEF LabelerEvent, EventOk
  <2> HIDE DEF p
  <2>3. /\ people \in Seq(VirtualPersonActivity)
        /\ PeopleOk(tree, ranks, people, input.event)
    BY <2>1, <2>2, AppendOk DEF p
  <2> HIDE DEF people
  <2>4. /\ ev \in LabelerEvent /\ ev.people = people /\ ev.pools = event.pools
    BY <2>2, <2>3 DEF LabelerEvent
  <2>5. EventOk(tree, ranks, ev, input.event)
    BY <2>2, <2>3, <2>4 DEF EventOk
  <2>6. LeafReturns(ev)
    BY <1>1, <2>2 DEF AddPerson, people, p, LabelerEvent
  <2> HIDE DEF ev
  <2>7. QED
    BY <2>4, <2>5, <2>6, LeafStep
<1>2. CASE event.fields \notin Collapsible
  BY <1>2, FailsKeep DEF AddPerson
<1>3. QED
  BY <1>1, <1>2

LEMMA ApplyStopStep ==
  ASSUME CallInv, ranks' = ranks, ApplyStop PROVE CallInv'
  BY RunFacts, LeafStep DEF ApplyStop, Applied

LEMMA ApplyPopulationStep ==
  ASSUME CallInv, ranks' = ranks, ApplyPopulation PROVE CallInv'
<1>1. outcome = "running" /\ at \in Nodes /\ tree[at].kind = "population"
  BY RunFacts DEF ApplyPopulation, Applied
<1>2. CASE LeafReturns(event)
  BY <1>1, <1>2, RunFacts, LeafStep
<1>3. CASE Fail("people")
  BY <1>3, FailsKeep
<1>4. CASE AddPerson(tree[at].vid[event.fp], FALSE)
  <2>1. tree[at].vid[event.fp] \in Nat
    BY <1>1, NodeFacts, RunFacts DEF LabelerEvent
  <2> DEFINE vid == tree[at].vid[event.fp]
  <2>2. PersonOk(tree, ranks, [vid |-> vid, leaf |-> at, ranked |-> FALSE],
                 input.event)
    BY <1>1 DEF PersonOk, FromRank, BehindRanks
  <2> HIDE DEF vid
  <2>3. QED
    BY <1>1, <1>4, <2>1, <2>2, AddPersonStep DEF vid
<1>5. QED
  BY <1>2, <1>3, <1>4 DEF ApplyPopulation

LEMMA AnnouncePoolStep ==
  ASSUME CallInv, ranks' = ranks, AnnouncePool PROVE CallInv'
<1>1. outcome = "running" /\ at \in Nodes /\ tree[at].kind = "ranked"
  BY RunFacts DEF AnnouncePool, Applied
<1> DEFINE leaf == tree[at]
           pool == PoolAssignmentOf(leaf)
           pools == Append(event.pools, pool)
           ev == [event EXCEPT !.pools = pools]
<1>2. pool \in PoolAssignment /\ IsPool(tree, pool.pool_offset)
  BY <1>1, NodeFacts, RunFacts DEF Ranked, PoolAssignment, IsPool,
     PoolAssignmentOf
<1>3. /\ event \in LabelerEvent /\ event.pools \in Seq(PoolAssignment)
      /\ PoolsOk(tree, event.pools)
      /\ PeopleOk(tree, ranks, event.people, input.event)
  BY <1>1, RunFacts DEF LabelerEvent, EventOk
<1>4. LeafReturns(ev)
  BY <1>3 DEF AnnouncePool, LabelerEvent
<1> HIDE DEF pool
<1>5. pools \in Seq(PoolAssignment) /\ PoolsOk(tree, pools)
  BY <1>2, <1>3, AppendPoolOk
<1> HIDE DEF pools
<1>6. /\ ev \in LabelerEvent /\ ev.people = event.people /\ ev.pools = pools
  BY <1>3, <1>5 DEF LabelerEvent
<1>7. EventOk(tree, ranks, ev, input.event)
  BY <1>3, <1>5, <1>6 DEF EventOk
<1> HIDE DEF ev
<1>8. QED
  BY <1>1, <1>4, <1>6, <1>7, LeafStep

LEMMA AddRankedStep ==
  ASSUME CallInv, InputOk(ranks, input), ranks' = ranks, AddRanked PROVE CallInv'
<1>1. outcome = "running" /\ at \in Nodes /\ tree[at].kind = "ranked"
  BY RunFacts DEF AddRanked, Applied
<1> DEFINE leaf == tree[at]
<1>2. PICK k \in RanksFor(leaf.pool_offset) :
        /\ input.ranks[k].local_rank < leaf.ranked_size
        /\ AddPerson(RankedVid(leaf, k), TRUE)
  BY DEF AddRanked
<1> DEFINE ra == input.ranks[k]
           vid == RankedVid(leaf, k)
<1>3. /\ k \in DOMAIN input.ranks /\ ra.pool_offset = leaf.pool_offset
      /\ ra \in RankAssignment
  <2>1. input.ranks \in Seq(RankAssignment)
    BY <1>1, RunFacts DEF LabelerInput
  <2>2. QED
    BY <1>2, <2>1 DEF RanksFor
<1>4. Ranked(leaf)
  BY <1>1, NodeFacts, RunFacts
<1>5. vid = leaf.pool_offset + leaf.permute[ra.local_rank] /\ vid \in Nat
  <2>1. /\ leaf.ranked_size \in Nat /\ ra.local_rank \in Nat
        /\ leaf.pool_offset \in Nat
    BY <1>3, <1>4 DEF Ranked, RankAssignment
  <2>2. ra.local_rank \in 0 .. leaf.ranked_size - 1
    BY <1>2, <2>1
  <2>3. leaf.permute[ra.local_rank] \in Nat
    BY <1>4, <2>1, <2>2 DEF Ranked
  <2>4. QED
    BY <2>1, <2>3 DEF RankedVid
<1> DEFINE p == [vid |-> vid, leaf |-> at, ranked |-> TRUE]
<1>6. HasRank(tree, p, ra)
  <2>1. p.vid = vid /\ p.leaf = at
    OBVIOUS
  <2> HIDE DEF p, vid
  <2>2. QED
    BY <1>2, <1>3, <1>5, <2>1 DEF HasRank
<1>7. FromRank(tree, ranks, p, input.event)
  <2>1. k \in DOMAIN ranks[input.event] /\ ra = ranks[input.event][k]
    BY <1>3 DEF InputOk
  <2>2. tree[p.leaf].kind = "ranked"
    BY <1>1
  <2> HIDE DEF p
  <2>3. QED
    BY <1>6, <2>1, <2>2 DEF FromRank
<1>8. PersonOk(tree, ranks, p, input.event)
  BY <1>7 DEF PersonOk, BehindRanks
<1> HIDE DEF vid
<1>9. QED
  BY <1>1, <1>2, <1>5, <1>8, AddPersonStep DEF vid

LEMMA AddUnrankedStep ==
  ASSUME CallInv, ranks' = ranks, AddUnranked PROVE CallInv'
<1>1. outcome = "running" /\ at \in Nodes /\ tree[at].kind = "ranked"
  BY RunFacts DEF AddUnranked, Applied
<1> DEFINE leaf == tree[at]
           vid == UnrankedVid(leaf)
<1>2. CASE AddPerson(vid, FALSE)
  <2> DEFINE p == [vid |-> vid, leaf |-> at, ranked |-> FALSE]
  <2>1. /\ vid \in Nat
        /\ leaf.unranked_mode = "DISJOINT"
             => vid >= leaf.pool_offset + leaf.ranked_size
    <3>1. Ranked(leaf) /\ event.fp \in Fingerprints
      BY <1>1, NodeFacts, RunFacts DEF LabelerEvent
    <3>2. /\ leaf.pool_offset \in Nat /\ leaf.ranked_size \in Nat
          /\ leaf.jump[event.fp] \in Nat
      BY <3>1 DEF Ranked
    <3>3. QED
      BY <3>2 DEF UnrankedVid
  <2>2. PersonOk(tree, ranks, p, input.event)
    <3>1. p.leaf = at /\ p.vid = vid /\ p.ranked = FALSE
      OBVIOUS
    <3> HIDE DEF p, vid
    <3>2. QED
      BY <2>1, <3>1 DEF PersonOk, FromRank, BehindRanks
  <2> HIDE DEF vid
  <2>3. QED
    BY <1>1, <1>2, <2>1, <2>2, AddPersonStep
<1>3. CASE Fail("unranked space") \/ Fail("unranked mode")
  BY <1>3, FailsKeep
<1>4. QED
  BY <1>2, <1>3 DEF AddUnranked

LEMMA ReturnStep ==
  ASSUME CallInv, ranks' = ranks, Return PROVE CallInv'
<1>1. outcome = "running"
  BY DEF Return
<1>2. [people |-> event.people, pools |-> event.pools] \in LabelerOutput
  BY <1>1, RunFacts DEF LabelerEvent, LabelerOutput
<1>3. LabelerTypeOK'
  BY <1>2 DEF CallInv, LabelerTypeOK, Return
<1>4. outcome' # "running" /\ frames' = <<>>
  BY DEF Return
<1>5. QED
  BY <1>3, <1>4 DEF CallInv

LEMMA ApplyStep ==
  ASSUME CallInv, InputOk(ranks, input), ranks' = ranks, Apply PROVE CallInv'
<1>1. CASE RankedError
  BY <1>1, FailsKeep DEF RankedError
<1>2. QED
  BY <1>1, ApplyUpdatesStep, UpdateStep, UpdatedStep, ApplyMultiplicityStep,
     ApplyCloneStep, MergeClonesStep, ApplyStopStep, ApplyPopulationStep,
     AnnouncePoolStep, AddRankedStep, AddUnrankedStep, ReturnStep DEF Apply

\* A step of Apply leaves the model and the call alone, and only the return of
\* the root's Apply succeeds.
LEMMA ApplyFrame ==
  ASSUME CallInv, Apply
  PROVE  /\ UNCHANGED <<tree, input, mode>> /\ outcome = "running"
         /\ outcome' = "ok" => Return
<1>1. CASE ApplyUpdates
  BY <1>1 DEF ApplyUpdates, Applied
<1>2. CASE Update
  BY <1>2 DEF Update, Returned, Fail
<1>3. CASE Updated
  BY <1>3 DEF Updated, Returned, ApplyChild, Fail
<1>4. CASE ApplyMultiplicity
  BY <1>4 DEF ApplyMultiplicity, Applied, ApplyChild, Fail
<1>5. CASE ApplyClone
  BY <1>5 DEF ApplyClone, Returned, ApplyChild, Fail
<1>6. CASE MergeClones
  BY <1>6 DEF MergeClones, Returned
<1>7. CASE ApplyStop
  BY <1>7 DEF ApplyStop, Applied, LeafReturns
<1>8. CASE ApplyPopulation
  BY <1>8 DEF ApplyPopulation, Applied, AddPerson, LeafReturns, Fail
<1>9. CASE AnnouncePool
  BY <1>9 DEF AnnouncePool, Applied, LeafReturns
<1>10. CASE AddRanked
  BY <1>10 DEF AddRanked, Applied, AddPerson, LeafReturns, Fail
<1>11. CASE AddUnranked
  BY <1>11 DEF AddUnranked, Applied, AddPerson, LeafReturns, Fail
<1>12. CASE RankedError
  BY <1>12 DEF RankedError, Applied, Fail
<1>13. CASE Return
  BY <1>13 DEF Return
<1>14. QED
  BY <1>1, <1>2, <1>3, <1>4, <1>5, <1>6, <1>7, <1>8, <1>9, <1>10, <1>11,
     <1>12, <1>13 DEF Apply

LEMMA LabelStep ==
  ASSUME CallInv, ranks' = ranks, NEW in \in LabelerInput, NEW m \in Modes,
         Label(in, m)
  PROVE  CallInv'
<1> DEFINE ev == NewEvent(in)
<1>1. /\ ev \in LabelerEvent /\ ev.people = <<>> /\ ev.pools = <<>>
  BY TreesAssumption DEF NewEvent, LabelerEvent, LabelerInput
<1> HIDE DEF ev
<1>2. /\ input' = in /\ mode' = m /\ at' = Root /\ event' = ev
      /\ outcome' = "running" /\ output' = Nothing /\ tree' = tree
      /\ frames' = <<>>
  BY DEF Label, CallInv, ev
<1>3. Nothing \in LabelerOutput
  BY DEF Nothing, LabelerOutput
<1>4. LabelerTypeOK'
  BY <1>1, <1>2, <1>3, TreesAssumption DEF CallInv, LabelerTypeOK
<1>5. EventOk(tree, ranks, ev, in.event)
  BY <1>1 DEF EventOk, PeopleOk, PoolsOk
<1>6. FramesOk(tree, ranks, <<>>, in.event)
  BY DEF FramesOk
<1>7. QED
  BY <1>2, <1>4, <1>5, <1>6 DEF CallInv
-----------------------------------------------------------------------------
\* What the ranker has given: every rank once per pool.
RanksInv ==
  /\ ranks \in [Events -> Seq(RankAssignment)]
  /\ next_rank \in [Offsets -> Nat]
  /\ \A e \in Events : \A k \in DOMAIN ranks[e] :
       /\ ranks[e][k].pool_offset \in Offsets
       /\ ranks[e][k].local_rank < next_rank[ranks[e][k].pool_offset]
  /\ \A e1, e2 \in Events :
       \A k1 \in DOMAIN ranks[e1], k2 \in DOMAIN ranks[e2] :
         /\ e1 # e2
         /\ ranks[e1][k1].pool_offset = ranks[e2][k2].pool_offset
         => ranks[e1][k1].local_rank # ranks[e2][k2].local_rank

\* What the passes have returned.
AnnouncedOk(t, pools) ==
  pools # None => pools \in Seq(PoolAssignment) /\ PoolsOk(t, pools)
LabeledOk(t, r, people, e) ==
  people # None =>
    people \in Seq(VirtualPersonActivity) /\ PeopleOk(t, r, people, e)
CallerInv ==
  /\ DOMAIN announced = Events /\ DOMAIN labeled = Events
  /\ \A e \in Events : AnnouncedOk(tree, announced[e])
  /\ \A e \in Events : LabeledOk(tree, ranks, labeled[e], e)

IInv ==
  /\ CallInv
  /\ outcome = "running" => InputOk(ranks, input)
  /\ RanksInv
  /\ CallerInv

LEMMA InitInv == Init => IInv
<1> SUFFICES ASSUME Init PROVE IInv
  OBVIOUS
<1>1. Nothing \in LabelerOutput
  BY DEF Nothing, LabelerOutput
<1>2. CallInv
  BY <1>1 DEF Init, LabelerInit, CallInv, LabelerTypeOK, Modes
<1>3. RanksInv
  BY DEF Init, RanksInv
<1>4. CallerInv
  BY DEF Init, CallerInv, AnnouncedOk, LabeledOk
<1>5. QED
  BY <1>2, <1>3, <1>4 DEF IInv, Init, LabelerInit

\* A rank that is there stays there.
LEMMA MoreRanks ==
  ASSUME NEW T, NEW R, NEW S, NEW e,
         \A k \in DOMAIN R[e] : k \in DOMAIN S[e] /\ S[e][k] = R[e][k]
  PROVE  /\ \A people : PeopleOk(T, R, people, e) => PeopleOk(T, S, people, e)
         /\ \A ev : EventOk(T, R, ev, e) => EventOk(T, S, ev, e)
         /\ \A fs : FramesOk(T, R, fs, e) => FramesOk(T, S, fs, e)
         /\ \A in : in.event = e /\ InputOk(R, in) => InputOk(S, in)
<1>1. \A p : PersonOk(T, R, p, e) => PersonOk(T, S, p, e)
  BY DEF PersonOk, FromRank
<1>2. \A people : PeopleOk(T, R, people, e) => PeopleOk(T, S, people, e)
  BY <1>1 DEF PeopleOk
<1>3. \A ev : EventOk(T, R, ev, e) => EventOk(T, S, ev, e)
  BY <1>2 DEF EventOk
<1>4. \A f : FrameOk(T, R, f, e) => FrameOk(T, S, f, e)
  BY <1>2, <1>3 DEF FrameOk
<1>5. \A fs : FramesOk(T, R, fs, e) => FramesOk(T, S, fs, e)
  BY <1>4 DEF FramesOk
<1>6. \A in : in.event = e /\ InputOk(R, in) => InputOk(S, in)
  BY DEF InputOk
<1>7. QED
  BY <1>2, <1>3, <1>5, <1>6
-----------------------------------------------------------------------------
LEMMA RequestFacts ==
  ASSUME NEW e \in Events, NEW r \in Seq(RankAssignment)
  PROVE  /\ Request(e, r) \in LabelerInput
         /\ Request(e, r).event = e /\ Request(e, r).ranks = r
  BY InputAssumption DEF Request, LabelerInput

\* What a step that leaves the ranker and the model alone keeps.
LEMMA RanksKept ==
  ASSUME RanksInv, UNCHANGED <<tree, ranks, next_rank>>
  PROVE  RanksInv'
  BY DEF RanksInv, Offsets

LEMMA PassStep ==
  ASSUME IInv, Pass1 \/ Pass2
  PROVE  IInv'
<1>1. PICK e \in Events, r \in Seq(RankAssignment), m \in Modes :
        Label(Request(e, r), m) /\ (r = <<>> \/ r = ranks[e])
  <2>1. "full" \in Modes /\ "pool_identity" \in Modes
    BY DEF Modes
  <2>2. <<>> \in Seq(RankAssignment)
    OBVIOUS
  <2>3. CASE Pass1
    <3>1. PICK e \in Events : Label(Request(e, <<>>), "pool_identity")
      BY <2>3 DEF Pass1
    <3>2. QED
      BY <2>1, <2>2, <3>1
  <2>4. CASE Pass2
    <3>1. PICK e \in Events : Label(Request(e, ranks[e]), "full")
      BY <2>4 DEF Pass2
    <3>2. ranks[e] \in Seq(RankAssignment)
      BY DEF IInv, RanksInv
    <3>3. QED
      BY <2>1, <3>1, <3>2, Zenon
  <2>5. QED
    BY <2>3, <2>4
<1>2. UNCHANGED callerVars /\ tree' = tree /\ input' = Request(e, r)
  BY <1>1 DEF Pass1, Pass2, Label
<1>3. CallInv'
  BY <1>1, <1>2, RequestFacts, LabelStep DEF IInv, callerVars
<1>4. InputOk(ranks, Request(e, r))
  BY <1>1, RequestFacts DEF InputOk
<1>5. RanksInv'
  BY <1>2, RanksKept DEF IInv, callerVars
<1>6. CallerInv'
  BY <1>2 DEF IInv, CallerInv, callerVars
<1>7. QED
  BY <1>2, <1>3, <1>4, <1>5, <1>6 DEF IInv, callerVars

LEMMA AnswerStep ==
  ASSUME IInv, Answer
  PROVE  IInv'
<1>1. /\ UNCHANGED <<tree, input, ranks, next_rank>> /\ outcome = "running"
      /\ outcome' = "ok" => Return
  BY ApplyFrame DEF IInv, Answer
<1>2. CallInv'
  BY <1>1, ApplyStep DEF IInv, Answer
<1>3. RanksInv'
  BY <1>1, RanksKept DEF IInv
<1>4. CallerInv'
  <2>1. CASE outcome' # "ok"
    BY <1>1, <2>1 DEF IInv, CallerInv, Answer
  <2>2. CASE outcome' = "ok"
    <3> DEFINE e == input.event
    <3>1. /\ output' = [people |-> event.people, pools |-> event.pools]
          /\ event \in LabelerEvent /\ EventOk(tree, ranks, event, e)
          /\ e \in Events
      BY <1>1, <2>2, RunFacts DEF Return, IInv, LabelerInput
    <3>2. /\ LabeledOk(tree, ranks, output'.people, e)
          /\ AnnouncedOk(tree, output'.pools)
      BY <3>1 DEF LabelerEvent, EventOk, LabeledOk, AnnouncedOk
    <3> HIDE DEF e
    <3>3. /\ \/ labeled' = [labeled EXCEPT ![e] = output'.people]
             \/ labeled' = labeled
          /\ \/ announced' = [announced EXCEPT ![e] = output'.pools]
             \/ announced' = announced
      BY <2>2 DEF Answer, e
    <3>4. \A d \in Events : LabeledOk(tree, ranks, labeled'[d], d)
      BY <3>1, <3>2, <3>3 DEF IInv, CallerInv
    <3>5. \A d \in Events : AnnouncedOk(tree, announced'[d])
      BY <3>1, <3>2, <3>3 DEF IInv, CallerInv
    <3>6. DOMAIN announced' = Events /\ DOMAIN labeled' = Events
      BY <3>3 DEF IInv, CallerInv
    <3>7. QED
      BY <1>1, <3>4, <3>5, <3>6 DEF CallerInv
  <2>3. QED
    BY <2>1, <2>2
<1>5. QED
  BY <1>1, <1>2, <1>3, <1>4 DEF IInv

LEMMA RankStep ==
  ASSUME IInv, Rank
  PROVE  IInv'
<1>1. PICK e \in Events :
        /\ announced[e] # None /\ Len(ranks[e]) < Len(announced[e])
        /\ LET o == announced[e][Len(ranks[e]) + 1].pool_offset
           IN  /\ ranks' = [ranks EXCEPT ![e] =
                     Append(@, [pool_offset |-> o, local_rank |-> next_rank[o]])]
               /\ next_rank' = [next_rank EXCEPT ![o] = @ + 1]
        /\ UNCHANGED <<labelerVars, announced, labeled>>
  BY DEF Rank
<1> DEFINE o == announced[e][Len(ranks[e]) + 1].pool_offset
           ra == [pool_offset |-> o, local_rank |-> next_rank[o]]
<1>2. /\ ranks \in [Events -> Seq(RankAssignment)]
      /\ next_rank \in [Offsets -> Nat]
      /\ ranks[e] \in Seq(RankAssignment)
  BY DEF IInv, RanksInv
<1>3. o \in Offsets /\ Offsets \subseteq Nat
  <2>1. announced[e] \in Seq(PoolAssignment) /\ PoolsOk(tree, announced[e])
    BY <1>1 DEF IInv, CallerInv, AnnouncedOk
  <2>2. Len(ranks[e]) + 1 \in DOMAIN announced[e]
    BY <1>1, <1>2, <2>1
  <2>3. IsPool(tree, o)
    BY <2>1, <2>2 DEF PoolsOk
  <2>4. tree \in Trees
    BY DEF IInv, CallInv, LabelerTypeOK
  <2>5. QED
    BY <2>3, <2>4, NodeFacts DEF IsPool, Offsets, Ranked
<1>4. /\ ranks' = [ranks EXCEPT ![e] = Append(ranks[e], ra)]
      /\ next_rank' = [next_rank EXCEPT ![o] = next_rank[o] + 1]
      /\ UNCHANGED <<labelerVars, announced, labeled>>
  BY <1>1, <1>2, <1>3
<1> HIDE DEF o
<1>5. ra \in RankAssignment /\ ra.pool_offset = o /\ ra.local_rank = next_rank[o]
  BY <1>2, <1>3 DEF RankAssignment
<1> HIDE DEF ra
<1>6. \A d \in Events : \A k \in DOMAIN ranks[d] :
        k \in DOMAIN ranks'[d] /\ ranks'[d][k] = ranks[d][k]
  BY <1>2, <1>4, <1>5
<1>7. \A d \in Events : \A k \in DOMAIN ranks'[d] :
        \/ k \in DOMAIN ranks[d] /\ ranks'[d][k] = ranks[d][k]
        \/ d = e /\ ranks'[d][k] = ra
  BY <1>2, <1>4, <1>5
<1>8. RanksInv'
  <2>1. Offsets' = Offsets
    BY <1>4 DEF Offsets, labelerVars
  <2>2. ranks' \in [Events -> Seq(RankAssignment)]
    BY <1>2, <1>4, <1>5
  <2>3. /\ next_rank' \in [Offsets -> Nat] /\ next_rank'[o] = next_rank[o] + 1
        /\ \A x \in Offsets : next_rank[x] <= next_rank'[x]
    BY <1>2, <1>3, <1>4
  <2>4. ASSUME NEW d \in Events, NEW k \in DOMAIN ranks'[d]
        PROVE  /\ ranks'[d][k].pool_offset \in Offsets
               /\ ranks'[d][k].local_rank
                    < next_rank'[ranks'[d][k].pool_offset]
    <3>1. CASE k \in DOMAIN ranks[d] /\ ranks'[d][k] = ranks[d][k]
      <4> DEFINE x == ranks[d][k].pool_offset
                 l == ranks[d][k].local_rank
      <4>1. x \in Offsets /\ l < next_rank[x]
        BY <3>1 DEF IInv, RanksInv
      <4>2. ranks[d][k] \in RankAssignment
        BY <1>2, <3>1
      <4>3. l \in Nat
        BY <4>2 DEF RankAssignment
      <4>4. next_rank[x] \in Nat /\ next_rank'[x] \in Nat
            /\ next_rank[x] <= next_rank'[x]
        BY <1>2, <2>3, <4>1
      <4> HIDE DEF x, l
      <4>5. l < next_rank'[x]
        BY <4>1, <4>3, <4>4
      <4>6. QED
        BY <3>1, <4>1, <4>5 DEF x, l
    <3>2. CASE d = e /\ ranks'[d][k] = ra
      <4>1. next_rank[o] \in Nat
        BY <1>2, <1>3
      <4>2. QED
        BY <1>3, <1>5, <2>3, <3>2, <4>1
    <3>3. QED
      BY <1>7, <3>1, <3>2
  <2>5. ASSUME NEW d1 \in Events, NEW d2 \in Events, d1 # d2,
               NEW k1 \in DOMAIN ranks'[d1], NEW k2 \in DOMAIN ranks'[d2],
               ranks'[d1][k1].pool_offset = ranks'[d2][k2].pool_offset,
               ranks'[d1][k1].local_rank = ranks'[d2][k2].local_rank
        PROVE  FALSE
    <3>1. \A d \in Events : \A k \in DOMAIN ranks[d] :
            ranks[d][k].pool_offset = o => ranks[d][k].local_rank # next_rank[o]
      <4> SUFFICES ASSUME NEW d \in Events, NEW k \in DOMAIN ranks[d],
                          ranks[d][k].pool_offset = o,
                          ranks[d][k].local_rank = next_rank[o]
                   PROVE  FALSE
        OBVIOUS
      <4>1. next_rank[o] < next_rank[o]
        BY DEF IInv, RanksInv
      <4>2. next_rank[o] \in Nat
        BY <1>2, <1>3
      <4>3. QED
        BY <4>1, <4>2
    <3>2. CASE /\ k1 \in DOMAIN ranks[d1] /\ ranks'[d1][k1] = ranks[d1][k1]
               /\ k2 \in DOMAIN ranks[d2] /\ ranks'[d2][k2] = ranks[d2][k2]
      BY <2>5, <3>2 DEF IInv, RanksInv
    <3>3. CASE /\ d1 = e /\ ranks'[d1][k1] = ra
               /\ k2 \in DOMAIN ranks[d2] /\ ranks'[d2][k2] = ranks[d2][k2]
      BY <1>5, <2>5, <3>1, <3>3
    <3>4. CASE /\ d2 = e /\ ranks'[d2][k2] = ra
               /\ k1 \in DOMAIN ranks[d1] /\ ranks'[d1][k1] = ranks[d1][k1]
      BY <1>5, <2>5, <3>1, <3>4
    <3>5. QED
      BY <1>7, <2>5, <3>2, <3>3, <3>4
  <2>6. QED
    BY <2>1, <2>2, <2>3, <2>4, <2>5 DEF RanksInv
<1>9. CallInv' /\ (outcome' = "running" => InputOk(ranks', input'))
  <2>1. UNCHANGED labelerVars
    BY <1>4
  <2>2. LabelerTypeOK'
    BY <2>1 DEF IInv, CallInv, LabelerTypeOK, labelerVars
  <2>3. CASE outcome = "running"
    <3>1. input.event \in Events
      BY <2>3, RunFacts DEF IInv, LabelerInput
    <3>2. /\ EventOk(tree, ranks', event, input.event)
          /\ FramesOk(tree, ranks', frames, input.event)
          /\ InputOk(ranks', input)
      BY <1>6, <2>3, <3>1, MoreRanks DEF IInv, CallInv
    <3>3. QED
      BY <2>1, <2>2, <2>3, <3>2 DEF CallInv, labelerVars
  <2>4. CASE outcome # "running"
    BY <2>1, <2>2, <2>4 DEF IInv, CallInv, labelerVars
  <2>5. QED
    BY <2>3, <2>4
<1>10. CallerInv'
  <2>1. UNCHANGED <<tree, announced, labeled>>
    BY <1>4 DEF labelerVars
  <2>2. \A d \in Events : LabeledOk(tree, ranks', labeled[d], d)
    BY <1>6, MoreRanks DEF IInv, CallerInv, LabeledOk
  <2>3. QED
    BY <2>1, <2>2 DEF IInv, CallerInv
<1>11. QED
  BY <1>8, <1>9, <1>10 DEF IInv

LEMMA StutterStep ==
  ASSUME IInv, UNCHANGED vars
  PROVE  IInv'
<1>1. UNCHANGED <<labelerVars, announced, ranks, next_rank, labeled>>
  BY DEF vars, callerVars
<1>2. LabelerTypeOK'
  BY <1>1 DEF IInv, CallInv, LabelerTypeOK, labelerVars
<1>3. CallInv'
  BY <1>1, <1>2 DEF IInv, CallInv, labelerVars
<1>4. RanksInv'
  BY <1>1, RanksKept DEF IInv, labelerVars
<1>5. CallerInv'
  BY <1>1 DEF IInv, CallerInv, labelerVars
<1>6. QED
  BY <1>1, <1>3, <1>4, <1>5 DEF IInv, labelerVars

\* The invariant that all of this is about.
THEOREM IInvHolds == Spec => []IInv
<1>1. IInv /\ [Next]_vars => IInv'
  BY PassStep, AnswerStep, RankStep, StutterStep DEF Next
<1>2. QED
  BY InitInv, <1>1, PTL DEF Spec

\* The labeler only ever calls nodes of its model with typed events.
THEOREM LabelerIsTyped == Spec => []LabelerTypeOK
<1>1. IInv => LabelerTypeOK
  BY DEF IInv, CallInv
<1>2. QED
  BY IInvHolds, <1>1, PTL

LEMMA RankedPersonFacts ==
  ASSUME IInv, NEW e \in Events, NEW p \in RankedPeople(e)
  PROVE  /\ p.leaf \in Nodes /\ Ranked(tree[p.leaf])
         /\ tree[p.leaf].kind = "ranked"
         /\ \E k \in DOMAIN ranks[e] : HasRank(tree, p, ranks[e][k])
<1>1. labeled[e] # None
  BY DEF RankedPeople
<1>2. PICK j \in DOMAIN labeled[e] : p = labeled[e][j] /\ p.ranked
  BY <1>1 DEF RankedPeople
<1>3. p \in VirtualPersonActivity /\ FromRank(tree, ranks, p, e)
  BY <1>1, <1>2 DEF IInv, CallerInv, LabeledOk, PeopleOk, PersonOk
<1>4. tree \in Trees
  BY DEF IInv, CallInv, LabelerTypeOK
<1>5. p.leaf \in Nodes /\ tree[p.leaf].kind = "ranked"
  BY <1>2, <1>3 DEF VirtualPersonActivity, FromRank
<1>6. QED
  BY <1>2, <1>3, <1>4, <1>5, NodeFacts DEF FromRank

\* Two ranks of one pool are permuted to different virtual person ids.
LEMMA InvApart == IInv => RankedApart
<1> SUFFICES ASSUME IInv, OnePermutationPerPool,
                    NEW e1 \in Events, NEW e2 \in Events, e1 # e2,
                    NEW p \in RankedPeople(e1), NEW q \in RankedPeople(e2),
                    PoolOf(p) = PoolOf(q), p.vid = q.vid
             PROVE  FALSE
  BY DEF RankedApart
<1> DEFINE m == tree[p.leaf]
           n == tree[q.leaf]
<1>1. /\ p.leaf \in Nodes /\ Ranked(m) /\ m.kind = "ranked"
      /\ q.leaf \in Nodes /\ Ranked(n) /\ n.kind = "ranked"
  BY RankedPersonFacts
<1>2. PICK i \in DOMAIN ranks[e1] : HasRank(tree, p, ranks[e1][i])
  BY RankedPersonFacts
<1>3. PICK j \in DOMAIN ranks[e2] : HasRank(tree, q, ranks[e2][j])
  BY RankedPersonFacts
<1> DEFINE x == ranks[e1][i].local_rank
           y == ranks[e2][j].local_rank
<1>4. x \in Nat /\ y \in Nat
  <2>1. ranks[e1][i] \in RankAssignment /\ ranks[e2][j] \in RankAssignment
    BY <1>2, <1>3 DEF IInv, RanksInv
  <2>2. QED
    BY <2>1 DEF RankAssignment
<1>5. /\ x < m.ranked_size /\ p.vid = m.pool_offset + m.permute[x]
      /\ y < n.ranked_size /\ q.vid = n.pool_offset + n.permute[y]
      /\ ranks[e1][i].pool_offset = m.pool_offset
      /\ ranks[e2][j].pool_offset = n.pool_offset
      /\ m.pool_offset = n.pool_offset
  BY <1>2, <1>3 DEF HasRank, PoolOf
<1>6. m.permute = n.permute
  BY <1>1, <1>5 DEF OnePermutationPerPool
<1>7. x # y
  BY <1>2, <1>3, <1>5 DEF IInv, RanksInv
<1> HIDE DEF m, n, x, y
<1>8. /\ m.permute \in [0 .. m.ranked_size - 1 -> 0 .. m.ranked_size - 1]
      /\ n.permute \in [0 .. n.ranked_size - 1 -> 0 .. n.ranked_size - 1]
      /\ m.ranked_size \in Nat /\ n.ranked_size \in Nat /\ m.pool_offset \in Nat
  BY <1>1 DEF Ranked
<1>9. x \in 0 .. m.ranked_size - 1 /\ y \in 0 .. m.ranked_size - 1
  <2>1. x \in 0 .. m.ranked_size - 1 /\ y \in 0 .. n.ranked_size - 1
    BY <1>4, <1>5, <1>8
  <2>2. 0 .. m.ranked_size - 1 = 0 .. n.ranked_size - 1
    BY <1>6, <1>8
  <2>3. QED
    BY <2>1, <2>2
<1>10. m.permute[x] = m.permute[y]
  <2>1. m.permute[x] \in Int /\ m.permute[y] \in Int
    BY <1>8, <1>9
  <2>2. m.pool_offset + m.permute[x] = m.pool_offset + m.permute[y]
    BY <1>5, <1>6
  <2>3. QED
    BY <1>8, <2>1, <2>2
<1>11. QED
  BY <1>1, <1>7, <1>9, <1>10 DEF Ranked

\* People that two events were given from ranks of one pool have different
\* virtual person ids, whatever the model, the events and the order of calls.
THEOREM RankedIsCollisionFree == Spec => []RankedApart
  BY IInvHolds, InvApart, PTL

\* In a pool that DISJOINT splits, a person without a rank is behind the ranked
\* range, and a person with a rank is in it.
LEMMA InvDisjoint == IInv => DisjointApart
<1> SUFFICES ASSUME IInv, NEW e1 \in Events, NEW e2 \in Events,
                    labeled[e1] # None, NEW k \in DOMAIN labeled[e1],
                    ~ labeled[e1][k].ranked, SplitsPool(labeled[e1][k].leaf),
                    NEW q \in RankedPeople(e2),
                    PoolOf(labeled[e1][k]) = PoolOf(q),
                    labeled[e1][k].vid = q.vid
             PROVE  FALSE
  BY DEF DisjointApart
<1> DEFINE p == labeled[e1][k]
           m == tree[p.leaf]
           n == tree[q.leaf]
<1>1. p \in VirtualPersonActivity /\ BehindRanks(tree, p)
  BY DEF IInv, CallerInv, LabeledOk, PeopleOk, PersonOk
<1>2. p.leaf \in Nodes /\ Ranked(m) /\ p.vid >= m.pool_offset + m.ranked_size
  <2>1. tree \in Trees /\ p.leaf \in Nodes
    BY <1>1 DEF IInv, CallInv, LabelerTypeOK, VirtualPersonActivity
  <2>2. QED
    BY <1>1, <2>1, NodeFacts DEF SplitsPool, BehindRanks
<1>3. q.leaf \in Nodes /\ Ranked(n) /\ n.kind = "ranked"
  BY RankedPersonFacts
<1>4. n.ranked_size <= m.ranked_size /\ n.pool_offset = m.pool_offset
  BY <1>3 DEF SplitsPool, PoolOf
<1>5. PICK j \in DOMAIN ranks[e2] : HasRank(tree, q, ranks[e2][j])
  BY RankedPersonFacts
<1> DEFINE x == ranks[e2][j].local_rank
<1>6. x \in Nat
  <2>1. ranks[e2][j] \in RankAssignment
    BY <1>5 DEF IInv, RanksInv
  <2>2. QED
    BY <2>1 DEF RankAssignment
<1>7. x < n.ranked_size /\ q.vid = n.pool_offset + n.permute[x]
  BY <1>5 DEF HasRank
<1>8. p.vid = q.vid
  OBVIOUS
<1> HIDE DEF p, m, n, x
<1>9. /\ n.permute \in [0 .. n.ranked_size - 1 -> 0 .. n.ranked_size - 1]
      /\ n.ranked_size \in Nat /\ n.pool_offset \in Nat
      /\ m.ranked_size \in Nat /\ m.pool_offset \in Nat
  BY <1>2, <1>3 DEF Ranked
<1>10. x \in 0 .. n.ranked_size - 1
  BY <1>6, <1>7, <1>9
<1>11. n.permute[x] \in 0 .. n.ranked_size - 1
  BY <1>9, <1>10
<1>12. QED
  BY <1>2, <1>4, <1>7, <1>8, <1>9, <1>11

\* Where DISJOINT splits a pool, nobody without a rank ever has the virtual
\* person id of somebody with one.
THEOREM UnrankedKeepOut == Spec => []DisjointApart
  BY IInvHolds, InvDisjoint, PTL

(***************************************************************************)
(* The pools that the people of a call come from, person by person.        *)
(***************************************************************************)
\* Every non-empty set of naturals has a least element.
LEMMA NatMinimum ==
  ASSUME NEW T \in SUBSET Nat, T # {}
  PROVE  \E m \in T : \A k \in T : m <= k
<1> DEFINE R == OpToRel(<, Nat)
<1>1. IsWellFoundedOn(R, Nat)
  BY NatLessThanWellFounded
<1> HIDE DEF R
<1>2. PICK m \in T : \A k \in T : ~ (<<k, m>> \in R)
  BY <1>1, WFMin
<1>3. ASSUME NEW k \in T PROVE m <= k
  <2>1. <<k, m>> \notin R
    BY <1>2, <1>3
  <2>2. ~ (k < m)
    BY <2>1 DEF R, OpToRel
  <2>3. QED
    BY <2>2
<1>4. QED
  BY <1>3

\* A function on 0 .. n that is given at 0 and by a step from each k - 1 to k.
IsBySteps(f, n, S, s0, h) ==
  /\ f \in [0 .. n -> S] /\ f[0] = s0
  /\ \A k \in 1 .. n : f[k] = h[k][f[k - 1]]

\* There is such a function for every start and every step.
LEMMA FunctionBySteps ==
  ASSUME NEW n \in Nat, NEW S, NEW s0 \in S, NEW h \in [1 .. n -> [S -> S]]
  PROVE  \E f : IsBySteps(f, n, S, s0, h)
<1> DEFINE Upto(m) == \E f \in [0 .. m -> S] :
             f[0] = s0 /\ \A k \in 1 .. m : f[k] = h[k][f[k - 1]]
           T == {m \in 0 .. n : ~ Upto(m)}
<1>1. ASSUME T # {} PROVE FALSE
  <2>1. T \in SUBSET Nat
    OBVIOUS
  <2>2. PICK m \in T : \A k \in T : m <= k
    <3> HIDE DEF T
    <3>1. QED
      BY <1>1, <2>1, NatMinimum
  <2>3. m \in 0 .. n /\ ~ Upto(m)
    OBVIOUS
  <2>4. Upto(0)
    <3>1. [k \in 0 .. 0 |-> s0] \in [0 .. 0 -> S]
      OBVIOUS
    <3>2. [k \in 0 .. 0 |-> s0][0] = s0
      OBVIOUS
    <3>3. 1 .. 0 = {}
      OBVIOUS
    <3>4. QED
      BY <3>1, <3>2, <3>3, Zenon
  <2>5. m # 0
    BY <2>3, <2>4
  <2>6. Upto(m - 1)
    <3>1. m - 1 \in 0 .. n /\ ~ (m <= m - 1)
      BY <2>3, <2>5
    <3>2. m - 1 \notin T
      BY <2>2, <3>1
    <3> HIDE DEF Upto
    <3>3. QED
      BY <3>1, <3>2
  <2>7. PICK f \in [0 .. m - 1 -> S] :
          f[0] = s0 /\ \A k \in 1 .. m - 1 : f[k] = h[k][f[k - 1]]
    BY <2>6
  <2> DEFINE g == [k \in 0 .. m |-> IF k = m THEN h[m][f[m - 1]] ELSE f[k]]
  <2>8. f[m - 1] \in S /\ m \in 1 .. n
    BY <2>3, <2>5, <2>7
  <2>9. g \in [0 .. m -> S]
    BY <2>3, <2>7, <2>8
  <2>10. g[0] = s0
    BY <2>3, <2>5, <2>7
  <2>11. ASSUME NEW k \in 1 .. m PROVE g[k] = h[k][g[k - 1]]
    <3>1. CASE k = m
      BY <2>3, <2>5, <3>1
    <3>2. CASE k # m
      BY <2>3, <2>7, <3>2
    <3>3. QED
      BY <3>1, <3>2
  <2> HIDE DEF g
  <2>12. QED
    BY <2>3, <2>9, <2>10, <2>11
<1>2. n \in 0 .. n
  OBVIOUS
<1> HIDE DEF T, Upto
<1>3. n \notin T
  BY <1>1
<1>4. Upto(n)
  BY <1>2, <1>3, Zenon DEF T
<1>5. QED
  BY <1>4 DEF Upto, IsBySteps

\* What is kept from each number to the next holds for all.
LEMMA UpTo ==
  ASSUME NEW n \in Nat, NEW T, 0 \in T,
         \A k \in 1 .. n : k - 1 \in T => k \in T
  PROVE  \A k \in 0 .. n : k \in T
<1> DEFINE M == {k \in 0 .. n : k \notin T}
<1>1. ASSUME M # {} PROVE FALSE
  <2>1. M \in SUBSET Nat
    OBVIOUS
  <2>2. PICK m \in M : \A k \in M : m <= k
    <3> HIDE DEF M
    <3>1. QED
      BY <1>1, <2>1, NatMinimum
  <2>3. m \in 1 .. n /\ m \notin T
    <3>1. m # 0
      BY <2>2
    <3>2. QED
      BY <2>2, <3>1
  <2>4. m - 1 \in T
    BY <2>2, <2>3
  <2>5. QED
    BY <2>3, <2>4
<1>2. QED
  BY <1>1
-----------------------------------------------------------------------------
\* u lists the pools of the first people, one more with each person.
IsPoolsUpTo(t, people, u) ==
  /\ u \in [0 .. Len(people) -> Seq(PoolAssignment)] /\ u[0] = <<>>
  /\ \A k \in 1 .. Len(people) :
       u[k] = IF t[people[k].leaf].kind = "ranked"
              THEN Append(u[k - 1], PoolAssignmentOf(t[people[k].leaf]))
              ELSE u[k - 1]

LEMMA PoolOfPerson ==
  ASSUME NEW t \in Trees, NEW p \in VirtualPersonActivity,
         t[p.leaf].kind = "ranked"
  PROVE  PoolAssignmentOf(t[p.leaf]) \in PoolAssignment
<1>1. p.leaf \in Nodes
  BY DEF VirtualPersonActivity
<1>2. Ranked(t[p.leaf])
  BY <1>1, TreesAssumption
<1>3. QED
  BY <1>2 DEF Ranked, PoolAssignmentOf, PoolAssignment

LEMMA PoolsUpToExist ==
  ASSUME NEW t \in Trees, NEW people \in Seq(VirtualPersonActivity)
  PROVE  \E u : IsPoolsUpTo(t, people, u)
<1> DEFINE n == Len(people)
           S == Seq(PoolAssignment)
           next(k, s) == IF t[people[k].leaf].kind = "ranked"
                         THEN Append(s, PoolAssignmentOf(t[people[k].leaf]))
                         ELSE s
           h == [k \in 1 .. n |-> [s \in S |-> next(k, s)]]
<1>1. n \in Nat /\ <<>> \in S
  OBVIOUS
<1>2. \A k \in 1 .. n, s \in S : next(k, s) \in S
  <2> SUFFICES ASSUME NEW k \in 1 .. n, NEW s \in S PROVE next(k, s) \in S
    OBVIOUS
  <2>1. people[k] \in VirtualPersonActivity
    OBVIOUS
  <2>2. t[people[k].leaf].kind = "ranked"
          => PoolAssignmentOf(t[people[k].leaf]) \in PoolAssignment
    BY <2>1, PoolOfPerson
  <2>3. QED
    BY <2>2
<1>3. h \in [1 .. n -> [S -> S]]
  BY <1>2
<1>4. \A k \in 1 .. n, s \in S : h[k][s] = next(k, s)
  OBVIOUS
<1> HIDE DEF h, n, S
<1>5. PICK u : IsBySteps(u, n, S, <<>>, h)
  BY <1>1, <1>3, FunctionBySteps
<1>6. /\ u \in [0 .. n -> S] /\ u[0] = <<>>
      /\ \A k \in 1 .. n : u[k] = h[k][u[k - 1]]
  BY <1>5 DEF IsBySteps
<1>7. \A k \in 1 .. n : u[k] = next(k, u[k - 1])
  <2> SUFFICES ASSUME NEW k \in 1 .. n PROVE u[k] = next(k, u[k - 1])
    OBVIOUS
  <2>1. k - 1 \in 0 .. n
    BY <1>1
  <2>2. u[k - 1] \in S
    BY <1>6, <2>1
  <2>3. QED
    BY <1>4, <1>6, <2>2
<1>8. IsPoolsUpTo(t, people, u)
  BY <1>6, <1>7 DEF IsPoolsUpTo, n, S
<1>9. QED
  BY <1>8

\* PoolsOfPeople is the last of them.
LEMMA PoolsFacts ==
  ASSUME NEW t \in Trees, NEW people \in Seq(VirtualPersonActivity),
         NEW u, IsPoolsUpTo(t, people, u)
  PROVE  /\ PoolsOfPeople(t, people) = u[Len(people)]
         /\ PoolsOfPeople(t, people) \in Seq(PoolAssignment)
<1> DEFINE n == Len(people)
           F(f) == [k \in 0 .. n |->
                      IF k = 0 THEN <<>>
                      ELSE IF t[people[k].leaf].kind = "ranked"
                      THEN Append(f[k - 1], PoolAssignmentOf(t[people[k].leaf]))
                      ELSE f[k - 1]]
           v == CHOOSE f : f = F(f)
<1>1. n \in Nat
  OBVIOUS
<1>2. PoolsOfPeople(t, people) = v[n]
  BY DEF PoolsOfPeople
<1>3. /\ u \in [0 .. n -> Seq(PoolAssignment)] /\ u[0] = <<>>
      /\ \A k \in 1 .. n :
           u[k] = IF t[people[k].leaf].kind = "ranked"
                  THEN Append(u[k - 1], PoolAssignmentOf(t[people[k].leaf]))
                  ELSE u[k - 1]
  BY DEF IsPoolsUpTo
<1>4. u = F(u)
  <2>1. ASSUME NEW k \in 0 .. n
        PROVE  u[k] = IF k = 0 THEN <<>>
                      ELSE IF t[people[k].leaf].kind = "ranked"
                      THEN Append(u[k - 1], PoolAssignmentOf(t[people[k].leaf]))
                      ELSE u[k - 1]
    <3>1. CASE k = 0
      BY <1>3, <3>1
    <3>2. CASE k # 0
      <4>1. k \in 1 .. n
        BY <1>1, <3>2
      <4>2. QED
        BY <1>3, <3>2, <4>1, Zenon
    <3>3. QED
      BY <3>1, <3>2
  <2>2. QED
    BY <1>3, <2>1, Zenon
<1> HIDE DEF F
<1>5. v = F(v)
  BY <1>4, Zenon
<1> HIDE DEF v
<1> USE DEF F
<1>6. \A k \in 0 .. n :
        v[k] = IF k = 0 THEN <<>>
               ELSE IF t[people[k].leaf].kind = "ranked"
               THEN Append(v[k - 1], PoolAssignmentOf(t[people[k].leaf]))
               ELSE v[k - 1]
  BY <1>5, Zenon
<1> DEFINE T == {k \in 0 .. n : v[k] = u[k]}
<1>7. 0 \in T
  BY <1>1, <1>3, <1>6
<1>8. ASSUME NEW k \in 1 .. n, k - 1 \in T PROVE k \in T
  BY <1>1, <1>3, <1>6, <1>8
<1>9. \A k \in 0 .. n : k \in T
  <2> HIDE DEF T, n
  <2>1. QED
    BY <1>1, <1>7, <1>8, UpTo
<1>10. v[n] = u[n] /\ n \in 0 .. n
  BY <1>1, <1>9
<1>11. QED
  BY <1>2, <1>3, <1>10

LEMMA PoolsOfNobody ==
  ASSUME NEW t \in Trees
  PROVE  PoolsOfPeople(t, <<>>) = <<>>
<1>1. <<>> \in Seq(VirtualPersonActivity) /\ Len(<<>>) = 0
  OBVIOUS
<1>2. PICK u : IsPoolsUpTo(t, <<>>, u)
  BY <1>1, PoolsUpToExist
<1>3. PoolsOfPeople(t, <<>>) = u[0] /\ u[0] = <<>>
  BY <1>1, <1>2, PoolsFacts DEF IsPoolsUpTo
<1>4. QED
  BY <1>3

\* One more person.
LEMMA PoolsOfOneMore ==
  ASSUME NEW t \in Trees, NEW people \in Seq(VirtualPersonActivity),
         NEW p \in VirtualPersonActivity
  PROVE  PoolsOfPeople(t, Append(people, p))
           = IF t[p.leaf].kind = "ranked"
             THEN Append(PoolsOfPeople(t, people), PoolAssignmentOf(t[p.leaf]))
             ELSE PoolsOfPeople(t, people)
<1> DEFINE n == Len(people)
           more == Append(people, p)
           last(s) == IF t[p.leaf].kind = "ranked"
                      THEN Append(s, PoolAssignmentOf(t[p.leaf])) ELSE s
<1>1. PICK u : IsPoolsUpTo(t, people, u)
  BY PoolsUpToExist
<1> DEFINE w == [k \in 0 .. n + 1 |-> IF k = n + 1 THEN last(u[n]) ELSE u[k]]
<1>2. /\ n \in Nat /\ more \in Seq(VirtualPersonActivity) /\ Len(more) = n + 1
      /\ more[n + 1] = p /\ \A k \in 1 .. n : more[k] = people[k]
  OBVIOUS
<1>3. PoolsOfPeople(t, people) = u[n]
  BY <1>1, PoolsFacts
<1>4. /\ u \in [0 .. n -> Seq(PoolAssignment)] /\ u[0] = <<>>
      /\ \A k \in 1 .. n :
           u[k] = IF t[people[k].leaf].kind = "ranked"
                  THEN Append(u[k - 1], PoolAssignmentOf(t[people[k].leaf]))
                  ELSE u[k - 1]
  BY <1>1 DEF IsPoolsUpTo
<1>5. last(u[n]) \in Seq(PoolAssignment)
  <2>1. u[n] \in Seq(PoolAssignment)
    BY <1>2, <1>4
  <2>2. QED
    BY <2>1, PoolOfPerson
<1> HIDE DEF n, more
<1>6. w \in [0 .. n + 1 -> Seq(PoolAssignment)] /\ w[0] = <<>>
  <2> HIDE DEF last
  <2>1. \A k \in 0 .. n + 1 : k # n + 1 => k \in 0 .. n
    BY <1>2
  <2>2. 0 \in 0 .. n + 1 /\ 0 # n + 1
    BY <1>2
  <2>3. QED
    BY <1>4, <1>5, <2>1, <2>2
<1>7. ASSUME NEW k \in 1 .. n + 1
      PROVE  w[k] = IF t[more[k].leaf].kind = "ranked"
                    THEN Append(w[k - 1], PoolAssignmentOf(t[more[k].leaf]))
                    ELSE w[k - 1]
  <2>1. k \in 0 .. n + 1 /\ k - 1 \in 0 .. n + 1 /\ k - 1 # n + 1
    BY <1>2
  <2>2. w[k - 1] = u[k - 1]
    BY <2>1
  <2>3. CASE k = n + 1
    <3>1. w[k] = last(u[n]) /\ k - 1 = n /\ more[k] = p
      BY <1>2, <2>1, <2>3
    <3>2. QED
      BY <2>2, <3>1
  <2>4. CASE k # n + 1
    <3>1. k \in 1 .. n
      BY <1>2, <2>4
    <3>2. w[k] = u[k] /\ more[k] = people[k]
      BY <1>2, <2>1, <2>4, <3>1
    <3>3. QED
      BY <1>4, <2>2, <3>1, <3>2
  <2>5. QED
    BY <2>3, <2>4
<1>8. w[n + 1] = last(u[n])
  BY <1>2
<1> HIDE DEF w
<1>9. IsPoolsUpTo(t, more, w)
  BY <1>2, <1>6, <1>7 DEF IsPoolsUpTo
<1>10. PoolsOfPeople(t, more) = w[n + 1]
  BY <1>2, <1>9, PoolsFacts
<1>11. QED
  BY <1>3, <1>8, <1>10 DEF more

LEMMA AppendBehind ==
  ASSUME NEW s \in Seq(PoolAssignment), NEW t \in Seq(PoolAssignment),
         NEW x \in PoolAssignment
  PROVE  s \o Append(t, x) = Append(s \o t, x)
<1> DEFINE a == s \o Append(t, x)
           b == Append(s \o t, x)
<1>1. a \in Seq(PoolAssignment) /\ b \in Seq(PoolAssignment) /\ Len(a) = Len(b)
  OBVIOUS
<1>2. ASSUME NEW k \in 1 .. Len(a) PROVE a[k] = b[k]
  OBVIOUS
<1> HIDE DEF a, b
<1>3. a = b
  BY <1>1, <1>2
<1>4. QED
  BY <1>3 DEF a, b

\* The people of one sequence behind those of another.
LEMMA PoolsOfBoth ==
  ASSUME NEW t \in Trees, NEW first \in Seq(VirtualPersonActivity),
         NEW second \in Seq(VirtualPersonActivity)
  PROVE  PoolsOfPeople(t, first \o second)
           = PoolsOfPeople(t, first) \o PoolsOfPeople(t, second)
<1> DEFINE m == Len(first)
           n == Len(second)
           both == first \o second
<1>1. PICK u : IsPoolsUpTo(t, first, u)
  BY PoolsUpToExist
<1>2. PICK v : IsPoolsUpTo(t, second, v)
  BY PoolsUpToExist
<1> DEFINE w == [k \in 0 .. m + n |-> IF k <= m THEN u[k] ELSE u[m] \o v[k - m]]
<1>3. /\ m \in Nat /\ n \in Nat
      /\ both \in Seq(VirtualPersonActivity) /\ Len(both) = m + n
      /\ \A k \in 1 .. m : both[k] = first[k]
      /\ \A k \in 1 .. m + n : k > m => both[k] = second[k - m]
  OBVIOUS
<1>4. PoolsOfPeople(t, first) = u[m] /\ PoolsOfPeople(t, second) = v[n]
  BY <1>1, <1>2, PoolsFacts
<1>5. /\ u \in [0 .. m -> Seq(PoolAssignment)] /\ u[0] = <<>>
      /\ \A k \in 1 .. m :
           u[k] = IF t[first[k].leaf].kind = "ranked"
                  THEN Append(u[k - 1], PoolAssignmentOf(t[first[k].leaf]))
                  ELSE u[k - 1]
  BY <1>1 DEF IsPoolsUpTo
<1>6. /\ v \in [0 .. n -> Seq(PoolAssignment)] /\ v[0] = <<>>
      /\ \A k \in 1 .. n :
           v[k] = IF t[second[k].leaf].kind = "ranked"
                  THEN Append(v[k - 1], PoolAssignmentOf(t[second[k].leaf]))
                  ELSE v[k - 1]
  BY <1>2 DEF IsPoolsUpTo
<1>7. \A k \in 1 .. n : second[k] \in VirtualPersonActivity
  OBVIOUS
<1> HIDE DEF m, n, both
<1>8. u[m] \in Seq(PoolAssignment) /\ \A k \in 0 .. n : v[k] \in Seq(PoolAssignment)
  BY <1>3, <1>5, <1>6
<1>9. /\ w \in [0 .. m + n -> Seq(PoolAssignment)] /\ w[0] = <<>>
      /\ \A k \in 0 .. m : w[k] = u[k]
      /\ \A k \in 0 .. n : w[m + k] = u[m] \o v[k]
  <2>1. \A k \in 0 .. m : k \in 0 .. m + n /\ w[k] = u[k]
    BY <1>3
  <2>2. ASSUME NEW k \in 0 .. m + n, ~ (k <= m)
        PROVE  k - m \in 0 .. n
    BY <1>3, <2>2
  <2>3. \A k \in 0 .. m + n : w[k] \in Seq(PoolAssignment)
    BY <1>3, <1>5, <1>8, <2>2
  <2>4. ASSUME NEW k \in 0 .. n PROVE w[m + k] = u[m] \o v[k]
    <3>1. CASE k = 0
      <4>1. m + k = m /\ v[k] = <<>>
        BY <1>3, <1>6, <3>1
      <4>2. w[m] = u[m]
        BY <1>3
      <4>3. u[m] \o <<>> = u[m]
        BY <1>8
      <4>4. QED
        BY <4>1, <4>2, <4>3
    <3>2. CASE k # 0
      <4>1. m + k \in 0 .. m + n /\ ~ (m + k <= m) /\ (m + k) - m = k
        BY <1>3, <3>2
      <4> DEFINE i == m + k
      <4>2. i \in 0 .. m + n /\ ~ (i <= m) /\ i - m = k
        BY <4>1
      <4> HIDE DEF i
      <4>3. w[i] = u[m] \o v[i - m]
        BY <4>2
      <4>4. w[i] = u[m] \o v[k]
        BY <4>2, <4>3
      <4>5. QED
        BY <4>4 DEF i
    <3>3. QED
      BY <3>1, <3>2
  <2>5. 0 \in 0 .. m
    BY <1>3
  <2> HIDE DEF w
  <2>6. w[0] = <<>>
    BY <1>5, <2>1, <2>5
  <2>7. w \in [0 .. m + n -> Seq(PoolAssignment)]
    BY <2>3 DEF w
  <2>8. QED
    BY <2>1, <2>4, <2>6, <2>7
<1> HIDE DEF w
<1>10. ASSUME NEW k \in 1 .. m + n
       PROVE  w[k] = IF t[both[k].leaf].kind = "ranked"
                     THEN Append(w[k - 1], PoolAssignmentOf(t[both[k].leaf]))
                     ELSE w[k - 1]
  <2>1. CASE k <= m
    <3>1. k \in 1 .. m /\ k \in 0 .. m /\ k - 1 \in 0 .. m
      BY <1>3, <2>1
    <3>2. w[k] = u[k] /\ w[k - 1] = u[k - 1] /\ both[k] = first[k]
      BY <1>3, <1>9, <3>1
    <3>3. QED
      BY <1>5, <3>1, <3>2
  <2>2. CASE ~ (k <= m)
    <3> DEFINE j == k - m
    <3>1. /\ j \in 1 .. n /\ j \in 0 .. n /\ j - 1 \in 0 .. n
          /\ m + j = k /\ m + (j - 1) = k - 1
      BY <1>3, <2>2
    <3>2. both[k] = second[j]
      BY <1>3, <2>2
    <3> HIDE DEF j
    <3>3. w[k] = u[m] \o v[j] /\ w[k - 1] = u[m] \o v[j - 1]
      BY <1>9, <3>1
    <3>4. v[j - 1] \in Seq(PoolAssignment)
      BY <1>8, <3>1
    <3>5. CASE t[second[j].leaf].kind = "ranked"
      <4> DEFINE p == PoolAssignmentOf(t[second[j].leaf])
      <4>1. p \in PoolAssignment
        BY <1>7, <3>1, <3>5, PoolOfPerson
      <4>2. v[j] = Append(v[j - 1], p)
        BY <1>6, <3>1, <3>5
      <4> HIDE DEF p
      <4>3. u[m] \o Append(v[j - 1], p) = Append(u[m] \o v[j - 1], p)
        <5>1. u[m] \in Seq(PoolAssignment)
          BY <1>8
        <5>2. QED
          BY <5>1, <3>4, <4>1, AppendBehind
      <4>4. QED
        BY <3>2, <3>3, <3>5, <4>2, <4>3 DEF p
    <3>6. CASE t[second[j].leaf].kind # "ranked"
      BY <1>6, <3>1, <3>2, <3>3, <3>6
    <3>7. QED
      BY <3>5, <3>6
  <2>3. QED
    BY <2>1, <2>2
<1>11. IsPoolsUpTo(t, both, w)
  BY <1>3, <1>9, <1>10 DEF IsPoolsUpTo
<1>12. PoolsOfPeople(t, both) = w[m + n]
  BY <1>3, <1>11, PoolsFacts
<1>13. w[m + n] = u[m] \o v[n]
  <2>1. n \in 0 .. n
    BY <1>3
  <2>2. QED
    BY <1>9, <2>1
<1>14. QED
  BY <1>4, <1>12, <1>13 DEF both

(***************************************************************************)
(* A call as a run of a deterministic machine.                             *)
(***************************************************************************)
CallState(node, ev, fs) == [at |-> node, event |-> ev, frames |-> fs]
CallStates ==
  [at : Nodes \cup {NoNode}, event : LabelerEvent, frames : Seq(FrameType)]
Now == CallState(at, event, frames)
Start(in) == CallState(Root, NewEvent(in), <<>>)
Final(c) == c.at = NoNode /\ c.frames = <<>>

Innermost(c) == c.frames[Len(c.frames)]
Outer(c) == SubSeq(c.frames, 1, Len(c.frames) - 1)

\* What is merged, with event ev of the clone that has returned.
Collected(f, ev) ==
  IF f.applied = 0 THEN f
  ELSE [f EXCEPT !.people = @ \o ev.people, !.pools = @ \o ev.pools]
CloneStateIn(t, n, s, i) ==
  [fp |-> IF i = 0 THEN s.fp ELSE t[n].clone_fp[s.fp][i],
   fields |-> t[n].person_index[s.fields][i]]
IsRankFor(in, offset, k) ==
  k \in DOMAIN in.ranks /\ in.ranks[k].pool_offset = offset
FirstRankIn(in, offset) ==
  CHOOSE k \in DOMAIN in.ranks :
    /\ IsRankFor(in, offset, k)
    /\ \A j \in DOMAIN in.ranks : IsRankFor(in, offset, j) => k <= j

\* The state after each kind of step, in model t.
ToChild(t, n, ev, fs) ==
  CallState(t[n].children[t[n].select[StateOf(ev)]], ev, fs)

AfterUpdate(t, c) ==
  LET f == Innermost(c)
      u == t[f.node].updaters[f.next]
      next == Append(Outer(c), [f EXCEPT !.next = @ + 1])
  IN  IF f.next \notin DOMAIN t[f.node].updaters
      THEN ToChild(t, f.node, c.event, Outer(c))
      ELSE IF u.by = "tree" THEN CallState(u.root, c.event, next)
      ELSE CallState(NoNode, InState(c.event, u.f[StateOf(c.event)]), next)

AfterClone(t, c) ==
  LET f == Innermost(c)
      g == Collected(f, c.event)
  IN  IF f.applied < Len(f.clones)
      THEN ToChild(t, f.node, CloneOf(f),
                   Append(Outer(c), [g EXCEPT !.applied = @ + 1]))
      ELSE CallState(NoNode,
             [f.source EXCEPT !.people = @ \o g.people, !.pools = @ \o g.pools],
             Outer(c))

AfterMultiplicity(t, c) ==
  LET s == StateOf(c.event)
      count == t[c.at].clone_count[s]
  IN  IF count = 1
      THEN ToChild(t, c.at, InState(c.event, CloneStateIn(t, c.at, s, 0)),
                   c.frames)
      ELSE CallState(NoNode, c.event, Append(c.frames,
             [kind |-> "clones", node |-> c.at, source |-> c.event,
              clones |-> [i \in 1 .. count |-> CloneStateIn(t, c.at, s, i - 1)],
              applied |-> 0, people |-> <<>>, pools |-> <<>>]))

\* The person that a leaf adds, from the ranks of in.
PersonAt(t, in, c) ==
  LET leaf == t[c.at]
      o == leaf.pool_offset
      k == FirstRankIn(in, o)
  IN  IF leaf.kind = "population"
      THEN [vid |-> leaf.vid[c.event.fp], leaf |-> c.at, ranked |-> FALSE]
      ELSE IF /\ \E j \in DOMAIN in.ranks : IsRankFor(in, o, j)
              /\ in.ranks[k].local_rank < leaf.ranked_size
      THEN [vid |-> o + leaf.permute[in.ranks[k].local_rank],
            leaf |-> c.at, ranked |-> TRUE]
      ELSE [vid |-> o + leaf.jump[c.event.fp]
              + (IF leaf.unranked_mode = "DISJOINT" THEN leaf.ranked_size ELSE 0),
            leaf |-> c.at, ranked |-> FALSE]

AfterLeaf(t, in, m, c) ==
  LET leaf == t[c.at]
      ev == c.event
  IN  CallState(NoNode,
        IF leaf.kind = "stop" THEN ev
        ELSE IF m = "full" THEN
          [ev EXCEPT !.people = Append(@, PersonAt(t, in, c))]
        ELSE IF leaf.kind = "population" THEN ev
        ELSE [ev EXCEPT !.pools = Append(@, PoolAssignmentOf(leaf))],
        c.frames)

After(t, in, m, c) ==
  IF c.at = NoNode
  THEN IF Innermost(c).kind = "updates" THEN AfterUpdate(t, c)
       ELSE AfterClone(t, c)
  ELSE IF t[c.at].kind = "updates"
  THEN CallState(NoNode, c.event,
         Append(c.frames, [kind |-> "updates", node |-> c.at, next |-> 1]))
  ELSE IF t[c.at].kind = "multiplicity" THEN AfterMultiplicity(t, c)
  ELSE AfterLeaf(t, in, m, c)

LEMMA LastOfAppend ==
  ASSUME NEW S, NEW s, NEW x, s \in Seq(S), Append(s, x) \in Seq(S)
  PROVE  x \in S
<1>1. Len(Append(s, x)) \in 1 .. Len(Append(s, x)) /\ Append(s, x)[Len(Append(s, x))] = x
  OBVIOUS
<1>2. QED
  BY <1>1

LEMMA CallStateFacts ==
  ASSUME NEW node, NEW ev, NEW fs
  PROVE  /\ CallState(node, ev, fs).at = node
         /\ CallState(node, ev, fs).event = ev
         /\ CallState(node, ev, fs).frames = fs
  BY DEF CallState

LEMMA NowFacts ==
  /\ Now.at = at /\ Now.event = event /\ Now.frames = frames
  /\ Innermost(Now) = Top /\ Outer(Now) = Below
<1>1. Now.at = at /\ Now.event = event /\ Now.frames = frames
  BY DEF Now, CallState
<1> QED
  BY <1>1 DEF Innermost, Outer, Top, Below

LEMMA NowTyped ==
  ASSUME CallInv, outcome = "running"
  PROVE  Now \in CallStates
  BY RunFacts DEF Now, CallState, CallStates

\* The steps of a call that goes on are those of the machine.
LEMMA ChildFollows ==
  ASSUME NEW n, NEW ev, NEW calls, ApplyChild(n, ev, calls),
         outcome' = "running"
  PROVE  Now' = ToChild(tree, n, ev, calls)
<1>1. /\ at' = tree[n].children[tree[n].select[StateOf(ev)]]
      /\ event' = ev /\ frames' = calls
  BY DEF ApplyChild, Fail
<1>2. QED
  BY <1>1 DEF Now, ToChild, CallState

LEMMA UpdateFollows ==
  ASSUME CallInv, outcome' = "running", Update \/ Updated
  PROVE  Now' = AfterUpdate(tree, Now)
<1> DEFINE f == Top
           u == tree[f.node].updaters[f.next]
           next == Append(Below, [f EXCEPT !.next = @ + 1])
<1>1. CASE Updated
  <2>1. f.next \notin DOMAIN tree[f.node].updaters
    BY <1>1 DEF Updated
  <2>2. Now' = ToChild(tree, f.node, event, Below)
    BY <1>1, ChildFollows DEF Updated
  <2>3. QED
    BY <2>1, <2>2, NowFacts DEF AfterUpdate
<1>2. CASE Update
  <2>1. f.next \in DOMAIN tree[f.node].updaters
    BY <1>2 DEF Update
  <2>2. \/ u.by = "tree" /\ at' = u.root /\ event' = event /\ frames' = next
        \/ /\ u.by = "function" /\ event' = InState(event, u.f[StateOf(event)])
           /\ at' = NoNode /\ frames' = next
    BY <1>2 DEF Update, Returned, Fail
  <2> HIDE DEF u, next, f
  <2>3. Now' = IF u.by = "tree" THEN CallState(u.root, event, next)
               ELSE CallState(NoNode, InState(event, u.f[StateOf(event)]), next)
    BY <2>2 DEF Now
  <2>4. QED
    BY <2>1, <2>3, NowFacts DEF AfterUpdate, u, next, f
<1>3. QED
  BY <1>1, <1>2

LEMMA CloneFollows ==
  ASSUME CallInv, outcome' = "running", ApplyClone \/ MergeClones
  PROVE  Now' = AfterClone(tree, Now)
<1>1. Collect(Top) = Collected(Top, event)
  BY DEF Collect, Collected
<1>2. CASE ApplyClone
  <2>1. Top.applied < Len(Top.clones)
    BY <1>2 DEF ApplyClone
  <2>2. Now' = ToChild(tree, Top.node, CloneOf(Top),
                 Append(Below, [Collect(Top) EXCEPT !.applied = @ + 1]))
    BY <1>2, ChildFollows DEF ApplyClone
  <2>3. QED
    BY <1>1, <2>1, <2>2, NowFacts DEF AfterClone
<1>3. CASE MergeClones
  <2>1. ~ (Top.applied < Len(Top.clones))
    <3>1. outcome = "running" /\ frames # <<>> /\ Top.kind = "clones"
      BY <1>3 DEF MergeClones, Returned, Top
    <3>2. Top \in ClonesFrame
      BY <3>1, CollectFacts
    <3>3. Top.applied \in Nat
      BY <3>2 DEF ClonesFrame
    <3>4. QED
      BY <1>3, <3>3 DEF MergeClones
  <2>2. /\ event' = [Top.source EXCEPT !.people = @ \o Collect(Top).people,
                                       !.pools = @ \o Collect(Top).pools]
        /\ at' = NoNode /\ frames' = Below
    BY <1>3 DEF MergeClones, Returned
  <2>3. QED
    BY <1>1, <2>1, <2>2, NowFacts DEF AfterClone, Now
<1>4. QED
  BY <1>2, <1>3

LEMMA MultiplicityFollows ==
  ASSUME CallInv, outcome' = "running", ApplyMultiplicity
  PROVE  Now' = AfterMultiplicity(tree, Now)
<1> DEFINE s == StateOf(event)
           count == tree[at].clone_count[s]
<1>1. \A i : CloneState(at, s, i) = CloneStateIn(tree, at, s, i)
  BY DEF CloneState, CloneStateIn
<1>2. count # Failed
  BY TreesAssumption DEF ApplyMultiplicity, Fail
<1>3. CASE count = 1
  <2>1. ApplyChild(at, InState(event, CloneState(at, s, 0)), frames)
    BY <1>2, <1>3 DEF ApplyMultiplicity
  <2>2. Now' = ToChild(tree, at, InState(event, CloneState(at, s, 0)), frames)
    BY <2>1, ChildFollows
  <2>3. QED
    BY <1>1, <1>3, <2>2, NowFacts DEF AfterMultiplicity
<1>4. CASE count # 1
  <2> DEFINE f == [kind |-> "clones", node |-> at, source |-> event,
                   clones |-> [i \in 1 .. count |-> CloneState(at, s, i - 1)],
                   applied |-> 0, people |-> <<>>, pools |-> <<>>]
  <2>1. at' = NoNode /\ event' = event /\ frames' = Append(frames, f)
    BY <1>2, <1>4 DEF ApplyMultiplicity
  <2>2. f.clones = [i \in 1 .. count |-> CloneStateIn(tree, at, s, i - 1)]
    BY <1>1
  <2>3. QED
    BY <1>1, <1>4, <2>1, <2>2, NowFacts DEF AfterMultiplicity, Now
<1>5. QED
  BY <1>3, <1>4

\* The first rank for a pool, if there is one.
LEMMA FirstRankFacts ==
  ASSUME NEW in \in LabelerInput, NEW o, NEW k \in DOMAIN in.ranks,
         IsRankFor(in, o, k),
         \A j \in DOMAIN in.ranks : IsRankFor(in, o, j) => k <= j
  PROVE  FirstRankIn(in, o) = k
<1>1. in.ranks \in Seq(RankAssignment)
  BY DEF LabelerInput
<1>2. DOMAIN in.ranks \subseteq Nat
  BY <1>1
<1> DEFINE Is(j) == /\ IsRankFor(in, o, j)
                    /\ \A i \in DOMAIN in.ranks : IsRankFor(in, o, i) => j <= i
<1>3. Is(k)
  OBVIOUS
<1>4. ASSUME NEW j \in DOMAIN in.ranks, Is(j) PROVE j = k
  <2>1. j <= k /\ k <= j
    BY <1>4
  <2>2. QED
    BY <1>2, <2>1
<1>5. FirstRankIn(in, o) = CHOOSE j \in DOMAIN in.ranks : Is(j)
  BY DEF FirstRankIn
<1> HIDE DEF Is
<1>6. QED
  BY <1>3, <1>4, <1>5

LEMMA AddPersonFollows ==
  ASSUME NEW vid, NEW ranked, AddPerson(vid, ranked), outcome' = "running"
  PROVE  /\ at' = NoNode /\ frames' = frames
         /\ event' = [event EXCEPT !.people =
              Append(@, [vid |-> vid, leaf |-> at, ranked |-> ranked])]
  BY DEF AddPerson, LeafReturns, Fail

LEMMA AddRankedFollows ==
  ASSUME CallInv, outcome' = "running", AddRanked
  PROVE  Now' = AfterLeaf(tree, input, mode, Now)
<1> DEFINE o == tree[at].pool_offset
<1>1. PICK k \in RanksFor(o) :
        /\ IsFirst(k, RanksFor(o))
        /\ input.ranks[k].local_rank < tree[at].ranked_size
        /\ AddPerson(RankedVid(tree[at], k), TRUE)
  BY DEF AddRanked
<1>2. input \in LabelerInput
  BY RunFacts DEF AddRanked, Applied
<1>3. /\ k \in DOMAIN input.ranks /\ IsRankFor(input, o, k)
      /\ \A j \in DOMAIN input.ranks : IsRankFor(input, o, j) => k <= j
  BY <1>1 DEF RanksFor, IsFirst, IsRankFor
<1>4. FirstRankIn(input, o) = k
  BY <1>2, <1>3, FirstRankFacts
<1>5. PersonAt(tree, input, Now)
        = [vid |-> RankedVid(tree[at], k), leaf |-> at, ranked |-> TRUE]
  <2>1. tree[at].kind = "ranked"
    BY DEF AddRanked, Applied
  <2>2. QED
    BY <1>1, <1>3, <1>4, <2>1, NowFacts DEF PersonAt, RankedVid
<1>6. /\ at' = NoNode /\ frames' = frames
      /\ event' = [event EXCEPT !.people = Append(@, PersonAt(tree, input, Now))]
  BY <1>1, <1>5, AddPersonFollows
<1>7. tree[at].kind = "ranked" /\ mode = "full"
  BY DEF AddRanked, Applied
<1>8. QED
  BY <1>6, <1>7, NowFacts DEF AfterLeaf, Now

LEMMA AddUnrankedFollows ==
  ASSUME CallInv, outcome' = "running", AddUnranked
  PROVE  Now' = AfterLeaf(tree, input, mode, Now)
<1> DEFINE o == tree[at].pool_offset
<1>1. /\ \A k \in RanksFor(o) : IsFirst(k, RanksFor(o)) =>
           input.ranks[k].local_rank >= tree[at].ranked_size
      /\ AddPerson(UnrankedVid(tree[at]), FALSE)
      /\ tree[at].kind = "ranked" /\ mode = "full" /\ outcome = "running"
  BY DEF AddUnranked, Applied, Fail
<1>2. input \in LabelerInput
  BY <1>1, RunFacts
<1>3. input.ranks \in Seq(RankAssignment)
  BY <1>2 DEF LabelerInput
<1>4. ASSUME \E j \in DOMAIN input.ranks : IsRankFor(input, o, j)
      PROVE  ~ (input.ranks[FirstRankIn(input, o)].local_rank
                  < tree[at].ranked_size)
  <2>1. RanksFor(o) \in SUBSET Nat /\ RanksFor(o) # {}
    BY <1>3, <1>4 DEF RanksFor, IsRankFor
  <2>2. PICK k \in RanksFor(o) : \A j \in RanksFor(o) : k <= j
    BY <2>1, NatMinimum
  <2>3. /\ k \in DOMAIN input.ranks /\ IsRankFor(input, o, k)
        /\ \A j \in DOMAIN input.ranks : IsRankFor(input, o, j) => k <= j
    BY <2>2 DEF RanksFor, IsRankFor
  <2>4. FirstRankIn(input, o) = k
    BY <1>2, <2>3, FirstRankFacts
  <2>5. input.ranks[k].local_rank >= tree[at].ranked_size
    BY <1>1, <2>2 DEF IsFirst
  <2>6. input.ranks[k].local_rank \in Int /\ tree[at].ranked_size \in Int
    <3>1. input.ranks[k] \in RankAssignment
      BY <1>3, <2>3
    <3>2. Ranked(tree[at])
      BY <1>1, RunFacts, NodeFacts DEF AddUnranked, Applied
    <3>3. QED
      BY <3>1, <3>2 DEF RankAssignment, Ranked
  <2>7. QED
    BY <2>4, <2>5, <2>6
<1>5. PersonAt(tree, input, Now)
        = [vid |-> UnrankedVid(tree[at]), leaf |-> at, ranked |-> FALSE]
  BY <1>1, <1>4, NowFacts DEF PersonAt, UnrankedVid
<1>6. /\ at' = NoNode /\ frames' = frames
      /\ event' = [event EXCEPT !.people = Append(@, PersonAt(tree, input, Now))]
  BY <1>1, <1>5, AddPersonFollows
<1>7. QED
  BY <1>1, <1>6, NowFacts DEF AfterLeaf, Now

LEMMA LeafFollows ==
  ASSUME CallInv, outcome' = "running",
         ApplyStop \/ ApplyPopulation \/ AnnouncePool
  PROVE  Now' = AfterLeaf(tree, input, mode, Now)
<1>1. CASE ApplyStop
  <2>1. tree[at].kind = "stop" /\ at' = NoNode /\ event' = event /\ frames' = frames
    BY <1>1 DEF ApplyStop, Applied, LeafReturns
  <2>2. QED
    BY <2>1, NowFacts DEF AfterLeaf, Now
<1>2. CASE ApplyPopulation
  <2>1. tree[at].kind = "population"
    BY <1>2 DEF ApplyPopulation, Applied
  <2>2. CASE mode = "pool_identity"
    <3>1. at' = NoNode /\ event' = event /\ frames' = frames
      BY <1>2, <2>2 DEF ApplyPopulation, LeafReturns
    <3>2. QED
      BY <2>1, <2>2, <3>1, NowFacts DEF AfterLeaf, Now
  <2>3. CASE mode # "pool_identity"
    <3>1. mode = "full" /\ AddPerson(tree[at].vid[event.fp], FALSE)
      BY <1>2, <2>3 DEF ApplyPopulation, Fail
    <3>2. PersonAt(tree, input, Now)
            = [vid |-> tree[at].vid[event.fp], leaf |-> at, ranked |-> FALSE]
      BY <2>1, NowFacts DEF PersonAt
    <3>3. /\ at' = NoNode /\ frames' = frames
          /\ event' = [event EXCEPT !.people = Append(@, PersonAt(tree, input, Now))]
      BY <3>1, <3>2, AddPersonFollows
    <3>4. QED
      BY <2>1, <3>1, <3>3, NowFacts DEF AfterLeaf, Now
  <2>4. QED
    BY <2>2, <2>3
<1>3. CASE AnnouncePool
  <2>1. /\ tree[at].kind = "ranked" /\ mode = "pool_identity"
        /\ at' = NoNode /\ frames' = frames
        /\ event' = [event EXCEPT !.pools = Append(@, PoolAssignmentOf(tree[at]))]
    BY <1>3 DEF AnnouncePool, Applied, LeafReturns
  <2>2. QED
    BY <2>1, NowFacts DEF AfterLeaf, Now
<1>4. QED
  BY <1>1, <1>2, <1>3

LEMMA Follows ==
  ASSUME CallInv, Apply, outcome' = "running"
  PROVE  ~ Final(Now) /\ Now' = After(tree, input, mode, Now)
<1>1. CASE Update \/ Updated
  <2>1. at = NoNode /\ frames # <<>> /\ Top.kind = "updates"
    BY <1>1 DEF Update, Updated, Returned, Top
  <2>2. QED
    BY <1>1, <2>1, UpdateFollows, NowFacts DEF After, Final
<1>2. CASE ApplyClone \/ MergeClones
  <2>1. at = NoNode /\ frames # <<>> /\ Top.kind = "clones"
    BY <1>2 DEF ApplyClone, MergeClones, Returned, Top
  <2>2. QED
    BY <1>2, <2>1, CloneFollows, NowFacts DEF After, Final
<1>3. CASE ApplyUpdates
  <2>1. /\ at # NoNode /\ tree[at].kind = "updates"
        /\ at' = NoNode /\ event' = event
        /\ frames' = Append(frames, [kind |-> "updates", node |-> at, next |-> 1])
    BY <1>3 DEF ApplyUpdates, Applied
  <2>2. QED
    BY <2>1, NowFacts DEF After, Final, Now
<1>4. CASE ApplyMultiplicity
  <2>1. at # NoNode /\ tree[at].kind = "multiplicity"
    BY <1>4 DEF ApplyMultiplicity, Applied
  <2>2. QED
    BY <1>4, <2>1, MultiplicityFollows, NowFacts DEF After, Final
<1>5. CASE ApplyStop \/ ApplyPopulation \/ AnnouncePool \/ AddRanked \/ AddUnranked
  <2>1. at # NoNode /\ tree[at].kind \in {"stop", "population", "ranked"}
    BY <1>5 DEF ApplyStop, ApplyPopulation, AnnouncePool, AddRanked, AddUnranked,
       Applied
  <2>2. Now' = AfterLeaf(tree, input, mode, Now)
    BY <1>5, LeafFollows, AddRankedFollows, AddUnrankedFollows
  <2>3. QED
    BY <2>1, <2>2, NowFacts DEF After, Final
<1>6. CASE RankedError \/ Return
  BY <1>6 DEF RankedError, Return, Fail
<1>7. QED
  BY <1>1, <1>2, <1>3, <1>4, <1>5, <1>6 DEF Apply
-----------------------------------------------------------------------------
\* p is a run of n steps of the call with input in.
IsRun(t, in, m, n, p) ==
  /\ p \in [0 .. n -> CallStates] /\ p[0] = Start(in)
  /\ \A k \in 1 .. n : ~ Final(p[k - 1]) /\ p[k] = After(t, in, m, p[k - 1])
RunsTo(t, in, m, c) == \E n \in Nat : \E p : IsRun(t, in, m, n, p) /\ p[n] = c

LEMMA RunStarts ==
  ASSUME NEW t, NEW in, NEW m, Start(in) \in CallStates
  PROVE  RunsTo(t, in, m, Start(in))
<1> DEFINE p == [k \in 0 .. 0 |-> Start(in)]
<1>1. p \in [0 .. 0 -> CallStates] /\ p[0] = Start(in) /\ 1 .. 0 = {}
  OBVIOUS
<1> HIDE DEF p
<1>2. IsRun(t, in, m, 0, p)
  BY <1>1 DEF IsRun
<1>3. QED
  BY <1>1, <1>2 DEF RunsTo

LEMMA RunGoesOn ==
  ASSUME NEW t, NEW in, NEW m, NEW c, RunsTo(t, in, m, c), ~ Final(c),
         After(t, in, m, c) \in CallStates
  PROVE  RunsTo(t, in, m, After(t, in, m, c))
<1>1. PICK n \in Nat : \E p : IsRun(t, in, m, n, p) /\ p[n] = c
  BY DEF RunsTo
<1>2. PICK p : IsRun(t, in, m, n, p) /\ p[n] = c
  BY <1>1
<1> DEFINE d == After(t, in, m, c)
           q == [k \in 0 .. n + 1 |-> IF k = n + 1 THEN d ELSE p[k]]
<1>3. /\ p \in [0 .. n -> CallStates] /\ p[0] = Start(in)
      /\ \A k \in 1 .. n : ~ Final(p[k - 1]) /\ p[k] = After(t, in, m, p[k - 1])
  BY <1>2 DEF IsRun
<1>4. d \in CallStates
  OBVIOUS
<1> HIDE DEF d
<1>5. /\ q \in [0 .. n + 1 -> CallStates] /\ q[n + 1] = d
      /\ \A k \in 0 .. n : q[k] = p[k]
  <2>1. \A k \in 0 .. n + 1 : k # n + 1 => k \in 0 .. n
    OBVIOUS
  <2>2. \A k \in 0 .. n : k \in 0 .. n + 1 /\ k # n + 1
    OBVIOUS
  <2>3. n + 1 \in 0 .. n + 1
    OBVIOUS
  <2>4. QED
    BY <1>3, <1>4, <2>1, <2>2, <2>3
<1> HIDE DEF q
<1>6. ASSUME NEW k \in 1 .. n + 1
      PROVE  ~ Final(q[k - 1]) /\ q[k] = After(t, in, m, q[k - 1])
  <2>1. CASE k = n + 1
    <3>1. q[k - 1] = c /\ q[k] = d
      BY <1>2, <1>5, <2>1
    <3>2. QED
      BY <3>1 DEF d
  <2>2. CASE k # n + 1
    <3>1. k \in 1 .. n /\ k \in 0 .. n /\ k - 1 \in 0 .. n
      BY <2>2
    <3>2. QED
      BY <1>3, <1>5, <3>1
  <2>3. QED
    BY <2>1, <2>2
<1>7. q[0] = Start(in)
  BY <1>3, <1>5
<1>8. IsRun(t, in, m, n + 1, q)
  BY <1>5, <1>6, <1>7 DEF IsRun
<1>9. n + 1 \in Nat
  OBVIOUS
<1>10. QED
  BY <1>5, <1>8, <1>9 DEF RunsTo, d

\* Two runs side by side: the one that has ended was, on its way, where it
\* corresponds to the other.
LEMMA SideBySide ==
  ASSUME NEW t, NEW in1, NEW m1, NEW in2, NEW m2, NEW R,
         <<Start(in1), Start(in2)>> \in R,
         \A x, y : <<x, y>> \in R => (Final(x) <=> Final(y)),
         \A x, y : /\ <<x, y>> \in R /\ x \in CallStates /\ y \in CallStates
                   /\ ~ Final(x)
                   /\ After(t, in1, m1, x) \in CallStates
                   /\ After(t, in2, m2, y) \in CallStates
                   => <<After(t, in1, m1, x), After(t, in2, m2, y)>> \in R,
         NEW c, RunsTo(t, in1, m1, c), Final(c),
         NEW d, RunsTo(t, in2, m2, d)
  PROVE  \E x \in CallStates :
           /\ <<x, d>> \in R
           /\ \A T : /\ x \in T
                     /\ \A z \in T : z \in CallStates /\ ~ Final(z)
                                       /\ After(t, in1, m1, z) \in CallStates
                                       => After(t, in1, m1, z) \in T
                     => c \in T
<1>1. PICK n \in Nat : \E p : IsRun(t, in1, m1, n, p) /\ p[n] = c
  BY DEF RunsTo
<1>2. PICK p : IsRun(t, in1, m1, n, p) /\ p[n] = c
  BY <1>1
<1>3. PICK l \in Nat : \E q : IsRun(t, in2, m2, l, q) /\ q[l] = d
  BY DEF RunsTo
<1>4. PICK q : IsRun(t, in2, m2, l, q) /\ q[l] = d
  BY <1>3
<1>5. /\ p \in [0 .. n -> CallStates] /\ p[0] = Start(in1)
      /\ \A k \in 1 .. n : ~ Final(p[k - 1]) /\ p[k] = After(t, in1, m1, p[k - 1])
  BY <1>2 DEF IsRun
<1>6. /\ q \in [0 .. l -> CallStates] /\ q[0] = Start(in2)
      /\ \A k \in 1 .. l : ~ Final(q[k - 1]) /\ q[k] = After(t, in2, m2, q[k - 1])
  BY <1>4 DEF IsRun
<1> DEFINE U == {k \in 0 .. l : k <= n /\ <<p[k], q[k]>> \in R}
<1>7. 0 \in U
  BY <1>5, <1>6
<1>8. ASSUME NEW k \in 1 .. l, k - 1 \in U PROVE k \in U
  <2>1. k - 1 <= n /\ <<p[k - 1], q[k - 1]>> \in R /\ ~ Final(q[k - 1])
    BY <1>6, <1>8
  <2>2. ~ Final(p[k - 1])
    BY <2>1
  <2>3. k - 1 # n
    BY <1>2, <2>2
  <2>4. k \in 1 .. n /\ k \in 0 .. n /\ k - 1 \in 0 .. n
        /\ k \in 0 .. l /\ k - 1 \in 0 .. l
    BY <2>1, <2>3
  <2>5. /\ p[k] = After(t, in1, m1, p[k - 1]) /\ p[k] \in CallStates
        /\ q[k] = After(t, in2, m2, q[k - 1]) /\ q[k] \in CallStates
        /\ p[k - 1] \in CallStates /\ q[k - 1] \in CallStates
    BY <1>5, <1>6, <2>4
  <2>6. <<p[k], q[k]>> \in R
    BY <2>1, <2>2, <2>5
  <2>7. QED
    BY <2>4, <2>6
<1>9. l <= n /\ <<p[l], d>> \in R
  <2>1. \A k \in 0 .. l : k \in U
    <3> HIDE DEF U
    <3>1. QED
      BY <1>7, <1>8, UpTo
  <2>2. l \in U
    BY <2>1
  <2>3. QED
    BY <1>4, <2>2
<1>10. p[l] \in CallStates
  BY <1>5, <1>9
<1>11. ASSUME NEW T, p[l] \in T,
              \A z \in T : z \in CallStates /\ ~ Final(z)
                             /\ After(t, in1, m1, z) \in CallStates
                             => After(t, in1, m1, z) \in T
       PROVE  c \in T
  <2> DEFINE V == {j \in 0 .. n - l : p[l + j] \in T}
  <2>1. 0 \in V /\ n - l \in Nat
    BY <1>9, <1>11
  <2>2. ASSUME NEW j \in 1 .. n - l, j - 1 \in V PROVE j \in V
    <3>1. /\ l + j \in 1 .. n /\ l + j \in 0 .. n /\ (l + j) - 1 \in 0 .. n
          /\ l + (j - 1) = (l + j) - 1 /\ j \in 0 .. n - l
      BY <1>9
    <3>2. p[(l + j) - 1] \in T
      BY <2>2, <3>1
    <3>3. /\ p[l + j] = After(t, in1, m1, p[(l + j) - 1])
          /\ ~ Final(p[(l + j) - 1])
          /\ p[l + j] \in CallStates /\ p[(l + j) - 1] \in CallStates
      BY <1>5, <3>1
    <3>4. p[l + j] \in T
      BY <1>11, <3>2, <3>3
    <3>5. QED
      BY <3>1, <3>4
  <2>3. n - l \in V
    <3> HIDE DEF V
    <3>1. \A j \in 0 .. n - l : j \in V
      BY <2>1, <2>2, UpTo
    <3>2. QED
      BY <2>1, <3>1
  <2>4. l + (n - l) = n
    OBVIOUS
  <2>5. QED
    BY <1>2, <2>3, <2>4
<1>12. QED
  BY <1>9, <1>10, <1>11

\* A call with the same input ends in the same state.
LEMMA SameEnd ==
  ASSUME NEW t, NEW in, NEW m, NEW c, RunsTo(t, in, m, c), Final(c),
         NEW d, RunsTo(t, in, m, d), Final(d), Start(in) \in CallStates
  PROVE  c = d
<1> DEFINE R == {<<x, x>> : x \in CallStates}
<1>1. \A x, y : <<x, y>> \in R <=> x = y /\ x \in CallStates
  OBVIOUS
<1> HIDE DEF R
<1>2. <<Start(in), Start(in)>> \in R
  BY <1>1
<1>3. PICK x \in CallStates :
        /\ <<x, d>> \in R
        /\ \A T : /\ x \in T
                  /\ \A z \in T : z \in CallStates /\ ~ Final(z)
                                    /\ After(t, in, m, z) \in CallStates
                                    => After(t, in, m, z) \in T
                  => c \in T
  <2>1. \A x, y : <<x, y>> \in R => (Final(x) <=> Final(y))
    BY <1>1
  <2>2. \A x, y : /\ <<x, y>> \in R /\ x \in CallStates /\ y \in CallStates
                  /\ ~ Final(x)
                  /\ After(t, in, m, x) \in CallStates
                  /\ After(t, in, m, y) \in CallStates
                  => <<After(t, in, m, x), After(t, in, m, y)>> \in R
    BY <1>1
  <2>3. QED
    BY <1>2, <2>1, <2>2, SideBySide, Zenon
<1>4. x = d
  BY <1>1, <1>3
<1>5. c \in {d}
  <2>1. \A z \in {d} : Final(z)
    OBVIOUS
  <2>2. QED
    BY <1>3, <1>4, <2>1
<1>6. QED
  BY <1>5
-----------------------------------------------------------------------------
\* A state of pass 1, and the state of pass 2 with the people of its pools.
EventAlike(t, x, y) ==
  /\ x.fp = y.fp /\ x.fields = y.fields
  /\ x.pools = PoolsOfPeople(t, y.people)
FrameAlike(t, f, g) ==
  /\ f.kind = g.kind /\ f.node = g.node
  /\ f.kind = "updates" => f.next = g.next
  /\ f.kind = "clones" =>
       /\ f.clones = g.clones /\ f.applied = g.applied
       /\ EventAlike(t, f.source, g.source)
       /\ f.pools = PoolsOfPeople(t, g.people)
FramesAlike(t, fs, gs) ==
  /\ Len(fs) = Len(gs)
  /\ \A k \in 1 .. Len(fs) : FrameAlike(t, fs[k], gs[k])
Alike(t, c, d) ==
  /\ c.at = d.at /\ EventAlike(t, c.event, d.event)
  /\ FramesAlike(t, c.frames, d.frames)

LEMMA FinalAlike ==
  ASSUME NEW t, NEW c \in CallStates, NEW d \in CallStates, Alike(t, c, d)
  PROVE  Final(c) <=> Final(d)
<1>1. c.frames \in Seq(FrameType) /\ d.frames \in Seq(FrameType)
  BY DEF CallStates
<1>2. c.at = d.at /\ Len(c.frames) = Len(d.frames)
  BY DEF Alike, FramesAlike
<1>3. c.frames = <<>> <=> d.frames = <<>>
  BY <1>1, <1>2
<1>4. QED
  BY <1>2, <1>3 DEF Final

LEMMA StartAlike ==
  ASSUME NEW t \in Trees, NEW in1, NEW in2, in1.fp = in2.fp, in1.fields = in2.fields
  PROVE  Alike(t, Start(in1), Start(in2))
<1>1. EventAlike(t, NewEvent(in1), NewEvent(in2))
  BY PoolsOfNobody DEF EventAlike, NewEvent
<1>2. FramesAlike(t, <<>>, <<>>)
  BY DEF FramesAlike
<1>3. QED
  BY <1>1, <1>2 DEF Alike, Start, CallState

LEMMA PushAlike ==
  ASSUME NEW t, NEW fs \in Seq(FrameType), NEW gs \in Seq(FrameType),
         FramesAlike(t, fs, gs), NEW f \in FrameType, NEW g \in FrameType,
         FrameAlike(t, f, g)
  PROVE  FramesAlike(t, Append(fs, f), Append(gs, g))
<1>1. Len(fs) = Len(gs) /\ Len(Append(fs, f)) = Len(Append(gs, g))
  BY DEF FramesAlike
<1>2. \A k \in 1 .. Len(Append(fs, f)) :
        \/ k \in 1 .. Len(fs) /\ Append(fs, f)[k] = fs[k] /\ Append(gs, g)[k] = gs[k]
        \/ Append(fs, f)[k] = f /\ Append(gs, g)[k] = g
  BY <1>1
<1>3. QED
  BY <1>1, <1>2 DEF FramesAlike

LEMMA PopAlike ==
  ASSUME NEW t, NEW c \in CallStates, NEW d \in CallStates, Alike(t, c, d),
         c.frames # <<>>
  PROVE  /\ FrameAlike(t, Innermost(c), Innermost(d))
         /\ FramesAlike(t, Outer(c), Outer(d))
         /\ Innermost(c) \in FrameType /\ Innermost(d) \in FrameType
         /\ Outer(c) \in Seq(FrameType) /\ Outer(d) \in Seq(FrameType)
<1> DEFINE fs == c.frames
           gs == d.frames
<1>1. fs \in Seq(FrameType) /\ gs \in Seq(FrameType)
  BY DEF CallStates
<1>2. FramesAlike(t, fs, gs) /\ fs # <<>>
  BY DEF Alike
<1>3. Innermost(c) = fs[Len(fs)] /\ Innermost(d) = gs[Len(gs)]
  BY DEF Innermost
<1>4. Outer(c) = SubSeq(fs, 1, Len(fs) - 1) /\ Outer(d) = SubSeq(gs, 1, Len(gs) - 1)
  BY DEF Outer
<1> HIDE DEF fs, gs
<1>5. Len(fs) = Len(gs) /\ Len(fs) \in Nat \ {0} /\ Len(fs) \in 1 .. Len(fs)
  BY <1>1, <1>2 DEF FramesAlike
<1>6. /\ Outer(c) \in Seq(FrameType) /\ Len(Outer(c)) = Len(fs) - 1
      /\ Outer(d) \in Seq(FrameType) /\ Len(Outer(d)) = Len(fs) - 1
      /\ \A k \in 1 .. Len(fs) - 1 : Outer(c)[k] = fs[k] /\ Outer(d)[k] = gs[k]
  BY <1>1, <1>4, <1>5
<1>7. FramesAlike(t, Outer(c), Outer(d))
  BY <1>2, <1>5, <1>6 DEF FramesAlike
<1>8. QED
  BY <1>1, <1>2, <1>3, <1>5, <1>6, <1>7 DEF FramesAlike

LEMMA ChildAlike ==
  ASSUME NEW t, NEW n, NEW x, NEW y, EventAlike(t, x, y),
         NEW fs, NEW gs, FramesAlike(t, fs, gs)
  PROVE  Alike(t, ToChild(t, n, x, fs), ToChild(t, n, y, gs))
<1>1. StateOf(x) = StateOf(y)
  BY DEF EventAlike, StateOf
<1>2. QED
  BY <1>1 DEF Alike, ToChild, CallState

LEMMA InStateAlike ==
  ASSUME NEW t, NEW x \in LabelerEvent, NEW y \in LabelerEvent,
         EventAlike(t, x, y), NEW s
  PROVE  EventAlike(t, InState(x, s), InState(y, s))
  BY DEF EventAlike, InState, LabelerEvent

LEMMA UpdateAlike ==
  ASSUME NEW t, NEW c \in CallStates, NEW d \in CallStates, Alike(t, c, d),
         c.frames # <<>>, c.at = NoNode, Innermost(c).kind = "updates"
  PROVE  Alike(t, AfterUpdate(t, c), AfterUpdate(t, d))
<1> DEFINE f == Innermost(c)
           g == Innermost(d)
           u == t[f.node].updaters[f.next]
           nextc == Append(Outer(c), [f EXCEPT !.next = @ + 1])
           nextd == Append(Outer(d), [g EXCEPT !.next = @ + 1])
<1>1. /\ FrameAlike(t, f, g) /\ FramesAlike(t, Outer(c), Outer(d))
      /\ f \in FrameType /\ g \in FrameType
      /\ Outer(c) \in Seq(FrameType) /\ Outer(d) \in Seq(FrameType)
  BY PopAlike
<1>2. /\ c.event \in LabelerEvent /\ d.event \in LabelerEvent
      /\ EventAlike(t, c.event, d.event)
  BY DEF CallStates, Alike
<1> DEFINE x == c.event
           y == d.event
           of == Outer(c)
           og == Outer(d)
<1>3. /\ f \in UpdatesFrame /\ g \in UpdatesFrame
      /\ f.node = g.node /\ f.next = g.next /\ f.kind = "updates"
  BY <1>1 DEF FrameAlike, FrameType, UpdatesFrame, ClonesFrame
<1>4. /\ AfterUpdate(t, c)
           = IF f.next \notin DOMAIN t[f.node].updaters
             THEN ToChild(t, f.node, x, of)
             ELSE IF u.by = "tree" THEN CallState(u.root, x, nextc)
             ELSE CallState(NoNode, InState(x, u.f[StateOf(x)]), nextc)
      /\ AfterUpdate(t, d)
           = IF f.next \notin DOMAIN t[f.node].updaters
             THEN ToChild(t, f.node, y, og)
             ELSE IF u.by = "tree" THEN CallState(u.root, y, nextd)
             ELSE CallState(NoNode, InState(y, u.f[StateOf(y)]), nextd)
  BY <1>3 DEF AfterUpdate
<1>5. FramesAlike(t, nextc, nextd)
  <2> DEFINE f2 == [f EXCEPT !.next = @ + 1]
             g2 == [g EXCEPT !.next = @ + 1]
  <2>1. f2 \in FrameType /\ g2 \in FrameType /\ FrameAlike(t, f2, g2)
    <3> HIDE DEF f, g
    <3>1. f2 \in UpdatesFrame /\ g2 \in UpdatesFrame
      BY <1>3 DEF UpdatesFrame
    <3>2. /\ f2.kind = "updates" /\ g2.kind = "updates"
          /\ f2.node = g2.node /\ f2.next = g2.next
      BY <1>3 DEF UpdatesFrame
    <3>3. QED
      BY <3>1, <3>2 DEF FrameAlike, FrameType
  <2> HIDE DEF f2, g2, f, g
  <2>2. QED
    BY <1>1, <2>1, PushAlike DEF f2, g2
<1>6. StateOf(x) = StateOf(y)
  BY <1>2 DEF EventAlike, StateOf
<1>7. Alike(t, ToChild(t, f.node, x, of), ToChild(t, f.node, y, og))
  BY <1>1, <1>2, ChildAlike
<1>8. EventAlike(t, InState(x, u.f[StateOf(x)]), InState(y, u.f[StateOf(x)]))
  BY <1>2, InStateAlike
<1> HIDE DEF f, g, u, nextc, nextd, x, y, of, og
<1>9. Alike(t, CallState(u.root, x, nextc), CallState(u.root, y, nextd))
  BY <1>2, <1>5 DEF Alike, CallState, x, y
<1>10. Alike(t, CallState(NoNode, InState(x, u.f[StateOf(x)]), nextc),
                CallState(NoNode, InState(y, u.f[StateOf(y)]), nextd))
  BY <1>5, <1>6, <1>8 DEF Alike, CallState
<1>11. QED
  BY <1>4, <1>7, <1>9, <1>10

LEMMA CollectedAlike ==
  ASSUME NEW t \in Trees, NEW f \in ClonesFrame, NEW g \in ClonesFrame,
         FrameAlike(t, f, g), NEW x \in LabelerEvent, NEW y \in LabelerEvent,
         EventAlike(t, x, y)
  PROVE  /\ FrameAlike(t, Collected(f, x), Collected(g, y))
         /\ Collected(f, x) \in ClonesFrame /\ Collected(g, y) \in ClonesFrame
         /\ Collected(f, x).applied = f.applied
         /\ Collected(g, y).applied = g.applied
<1>1. f.applied = g.applied /\ f.kind = "clones"
  BY DEF FrameAlike, ClonesFrame
<1>2. CASE f.applied = 0
  BY <1>1, <1>2 DEF Collected
<1>3. CASE f.applied # 0
  <2> DEFINE people1 == f.people \o x.people
             people2 == g.people \o y.people
             pools1 == f.pools \o x.pools
             pools2 == g.pools \o y.pools
  <2>1. /\ people1 \in Seq(VirtualPersonActivity) /\ pools1 \in Seq(PoolAssignment)
        /\ people2 \in Seq(VirtualPersonActivity) /\ pools2 \in Seq(PoolAssignment)
    BY DEF ClonesFrame, LabelerEvent
  <2>2. pools1 = PoolsOfPeople(t, people2)
    <3>1. /\ g.people \in Seq(VirtualPersonActivity)
          /\ y.people \in Seq(VirtualPersonActivity)
      BY DEF ClonesFrame, LabelerEvent
    <3>2. f.pools = PoolsOfPeople(t, g.people) /\ x.pools = PoolsOfPeople(t, y.people)
      BY <1>1 DEF FrameAlike, EventAlike
    <3>3. QED
      BY <3>1, <3>2, PoolsOfBoth
  <2>3. /\ Collected(f, x) = [f EXCEPT !.people = people1, !.pools = pools1]
        /\ Collected(g, y) = [g EXCEPT !.people = people2, !.pools = pools2]
    BY <1>1, <1>3 DEF Collected, ClonesFrame
  <2> HIDE DEF people1, people2, pools1, pools2
  <2> DEFINE f2 == Collected(f, x)
             g2 == Collected(g, y)
  <2>4. /\ f2 \in ClonesFrame /\ g2 \in ClonesFrame
        /\ f2.kind = f.kind /\ f2.node = f.node /\ f2.clones = f.clones
        /\ f2.applied = f.applied /\ f2.source = f.source /\ f2.pools = pools1
        /\ g2.kind = g.kind /\ g2.node = g.node /\ g2.clones = g.clones
        /\ g2.applied = g.applied /\ g2.source = g.source /\ g2.people = people2
    BY <2>1, <2>3 DEF ClonesFrame
  <2> HIDE DEF f2, g2
  <2>5. FrameAlike(t, f2, g2)
    BY <1>1, <2>2, <2>4 DEF FrameAlike
  <2>6. QED
    BY <2>4, <2>5 DEF f2, g2
<1>4. QED
  BY <1>2, <1>3

LEMMA NextClone ==
  ASSUME NEW f \in ClonesFrame
  PROVE  LET f3 == [f EXCEPT !.applied = @ + 1]
         IN  /\ f3 \in ClonesFrame /\ f3.kind = f.kind /\ f3.node = f.node
             /\ f3.clones = f.clones /\ f3.source = f.source
             /\ f3.pools = f.pools /\ f3.people = f.people
             /\ f3.applied = f.applied + 1
<1> DEFINE a == f.applied + 1
           f3 == [f EXCEPT !.applied = a]
<1>1. a \in Nat
  BY DEF ClonesFrame
<1> HIDE DEF a
<1>2. f3 \in ClonesFrame
  BY <1>1 DEF ClonesFrame
<1>3. /\ f3.kind = f.kind /\ f3.node = f.node
      /\ f3.clones = f.clones /\ f3.source = f.source
      /\ f3.pools = f.pools /\ f3.people = f.people
      /\ f3.applied = a
  BY DEF ClonesFrame
<1> HIDE DEF f3
<1>4. QED
  BY <1>2, <1>3 DEF f3, a

LEMMA CloneAlike ==
  ASSUME NEW t \in Trees, NEW c \in CallStates, NEW d \in CallStates,
         Alike(t, c, d), c.frames # <<>>, Innermost(c).kind # "updates"
  PROVE  Alike(t, AfterClone(t, c), AfterClone(t, d))
<1> DEFINE f == Innermost(c)
           g == Innermost(d)
           x == c.event
           y == d.event
           f2 == Collected(f, x)
           g2 == Collected(g, y)
           of == Outer(c)
           og == Outer(d)
<1>1. /\ FrameAlike(t, f, g) /\ FramesAlike(t, of, og)
      /\ f \in FrameType /\ g \in FrameType
      /\ of \in Seq(FrameType) /\ og \in Seq(FrameType)
  BY PopAlike
<1>2. x \in LabelerEvent /\ y \in LabelerEvent /\ EventAlike(t, x, y)
  BY DEF CallStates, Alike
<1>3. f \in ClonesFrame /\ g \in ClonesFrame /\ f.kind = "clones"
  BY <1>1 DEF FrameAlike, FrameType, UpdatesFrame, ClonesFrame
<1>4. /\ AfterClone(t, c)
           = IF f.applied < Len(f.clones)
             THEN ToChild(t, f.node, CloneOf(f),
                          Append(of, [f2 EXCEPT !.applied = @ + 1]))
             ELSE CallState(NoNode,
                    [f.source EXCEPT !.people = @ \o f2.people,
                                     !.pools = @ \o f2.pools], of)
      /\ AfterClone(t, d)
           = IF g.applied < Len(g.clones)
             THEN ToChild(t, g.node, CloneOf(g),
                          Append(og, [g2 EXCEPT !.applied = @ + 1]))
             ELSE CallState(NoNode,
                    [g.source EXCEPT !.people = @ \o g2.people,
                                     !.pools = @ \o g2.pools], og)
  BY DEF AfterClone
<1> HIDE DEF f, g, x, y, of, og
<1>5. /\ FrameAlike(t, f2, g2) /\ f2 \in ClonesFrame /\ g2 \in ClonesFrame
  BY <1>1, <1>2, <1>3, CollectedAlike
<1>6. /\ f.node = g.node /\ f.applied = g.applied /\ f.clones = g.clones
      /\ f.source \in LabelerEvent /\ g.source \in LabelerEvent
      /\ EventAlike(t, f.source, g.source)
  BY <1>1, <1>3 DEF FrameAlike, ClonesFrame
<1> HIDE DEF f2, g2
<1>7. CASE f.applied < Len(f.clones)
  <2> DEFINE f3 == [f2 EXCEPT !.applied = @ + 1]
             g3 == [g2 EXCEPT !.applied = @ + 1]
  <2>1. /\ /\ f3 \in ClonesFrame /\ f3.kind = f2.kind /\ f3.node = f2.node
           /\ f3.clones = f2.clones /\ f3.source = f2.source /\ f3.pools = f2.pools
           /\ f3.applied = f2.applied + 1
        /\ /\ g3 \in ClonesFrame /\ g3.kind = g2.kind /\ g3.node = g2.node
           /\ g3.clones = g2.clones /\ g3.source = g2.source /\ g3.people = g2.people
           /\ g3.applied = g2.applied + 1
    BY <1>5, NextClone
  <2>2. f3.kind = "clones"
    BY <2>1 DEF ClonesFrame
  <2> HIDE DEF f3, g3
  <2>3. FrameAlike(t, f3, g3)
    BY <1>5, <2>1, <2>2 DEF FrameAlike
  <2>4. f3 \in FrameType /\ g3 \in FrameType
    BY <2>1 DEF FrameType
  <2>5. FramesAlike(t, Append(of, f3), Append(og, g3))
    BY <1>1, <2>3, <2>4, PushAlike
  <2>6. EventAlike(t, CloneOf(f), CloneOf(g))
    BY <1>6, InStateAlike DEF CloneOf
  <2>7. Alike(t, ToChild(t, f.node, CloneOf(f), Append(of, f3)),
                 ToChild(t, f.node, CloneOf(g), Append(og, g3)))
    BY <2>5, <2>6, ChildAlike
  <2>8. QED
    BY <1>4, <1>6, <1>7, <2>7 DEF f3, g3
<1>8. CASE ~ (f.applied < Len(f.clones))
  <2> DEFINE people == g.source.people \o g2.people
             x2 == [f.source EXCEPT !.people = @ \o f2.people, !.pools = @ \o f2.pools]
             y2 == [g.source EXCEPT !.people = @ \o g2.people, !.pools = @ \o g2.pools]
  <2>1. /\ x2.fp = f.source.fp /\ x2.fields = f.source.fields
        /\ x2.pools = f.source.pools \o f2.pools
        /\ y2.fp = g.source.fp /\ y2.fields = g.source.fields
        /\ y2.people = people
    BY <1>6 DEF LabelerEvent
  <2>2. f.source.pools \o f2.pools = PoolsOfPeople(t, people)
    <3>1. /\ g.source.people \in Seq(VirtualPersonActivity)
          /\ g2.people \in Seq(VirtualPersonActivity)
      BY <1>5, <1>6 DEF ClonesFrame, LabelerEvent
    <3>2. /\ f.source.pools = PoolsOfPeople(t, g.source.people)
          /\ f2.pools = PoolsOfPeople(t, g2.people)
      <4>1. f2.kind = "clones"
        BY <1>5 DEF ClonesFrame
      <4>2. QED
        BY <1>5, <1>6, <4>1 DEF FrameAlike, EventAlike
    <3>3. QED
      BY <3>1, <3>2, PoolsOfBoth
  <2> HIDE DEF x2, y2, people
  <2>3. EventAlike(t, x2, y2)
    BY <1>6, <2>1, <2>2 DEF EventAlike
  <2>4. Alike(t, CallState(NoNode, x2, of), CallState(NoNode, y2, og))
    BY <1>1, <2>3 DEF Alike, CallState
  <2>5. QED
    BY <1>4, <1>6, <1>8, <2>4 DEF x2, y2
<1>9. QED
  BY <1>7, <1>8

LEMMA MultiplicityAlike ==
  ASSUME NEW t \in Trees, NEW c \in CallStates, NEW d \in CallStates,
         Alike(t, c, d),
         AfterMultiplicity(t, c) \in CallStates, AfterMultiplicity(t, d) \in CallStates
  PROVE  Alike(t, AfterMultiplicity(t, c), AfterMultiplicity(t, d))
<1> DEFINE x == c.event
           y == d.event
           n == c.at
           s == StateOf(x)
           count == t[n].clone_count[s]
           clones == [i \in 1 .. count |-> CloneStateIn(t, n, s, i - 1)]
           f == [kind |-> "clones", node |-> n, source |-> x, clones |-> clones,
                 applied |-> 0, people |-> <<>>, pools |-> <<>>]
           g == [kind |-> "clones", node |-> n, source |-> y, clones |-> clones,
                 applied |-> 0, people |-> <<>>, pools |-> <<>>]
<1>1. /\ x \in LabelerEvent /\ y \in LabelerEvent /\ EventAlike(t, x, y)
      /\ c.at = d.at /\ FramesAlike(t, c.frames, d.frames)
      /\ c.frames \in Seq(FrameType) /\ d.frames \in Seq(FrameType)
  BY DEF CallStates, Alike
<1>2. StateOf(y) = s
  BY <1>1 DEF EventAlike, StateOf
<1>3. /\ AfterMultiplicity(t, c)
           = IF count = 1
             THEN ToChild(t, n, InState(x, CloneStateIn(t, n, s, 0)), c.frames)
             ELSE CallState(NoNode, x, Append(c.frames, f))
      /\ AfterMultiplicity(t, d)
           = IF count = 1
             THEN ToChild(t, n, InState(y, CloneStateIn(t, n, s, 0)), d.frames)
             ELSE CallState(NoNode, y, Append(d.frames, g))
  BY <1>1, <1>2 DEF AfterMultiplicity
<1>4. CASE count = 1
  <2>1. EventAlike(t, InState(x, CloneStateIn(t, n, s, 0)),
                      InState(y, CloneStateIn(t, n, s, 0)))
    BY <1>1, InStateAlike
  <2>2. QED
    BY <1>1, <1>3, <1>4, <2>1, ChildAlike
<1>5. CASE count # 1
  <2>1. FrameAlike(t, f, g)
    BY <1>1, PoolsOfNobody DEF FrameAlike
  <2> HIDE DEF f, g
  <2>2. Append(c.frames, f) \in Seq(FrameType) /\ Append(d.frames, g) \in Seq(FrameType)
    BY <1>3, <1>5 DEF CallStates, CallState
  <2>3. f \in FrameType /\ g \in FrameType
    BY <1>1, <2>2, LastOfAppend
  <2>4. FramesAlike(t, Append(c.frames, f), Append(d.frames, g))
    BY <1>1, <2>1, <2>3, PushAlike
  <2>5. QED
    BY <1>1, <1>3, <1>5, <2>4 DEF Alike, CallState
<1>6. QED
  BY <1>4, <1>5

LEMMA LeafAlike ==
  ASSUME NEW t \in Trees, NEW in1, NEW in2,
         NEW c \in CallStates, NEW d \in CallStates, Alike(t, c, d),
         t[c.at].kind \in {"stop", "population", "ranked"},
         AfterLeaf(t, in1, "pool_identity", c) \in CallStates,
         AfterLeaf(t, in2, "full", d) \in CallStates
  PROVE  Alike(t, AfterLeaf(t, in1, "pool_identity", c),
                  AfterLeaf(t, in2, "full", d))
<1> DEFINE x == c.event
           y == d.event
           n == c.at
           person == PersonAt(t, in2, d)
           people == Append(y.people, person)
           x2 == IF t[n].kind = "ranked"
                 THEN [x EXCEPT !.pools = Append(@, PoolAssignmentOf(t[n]))] ELSE x
           y2 == IF t[n].kind = "stop" THEN y
                 ELSE [y EXCEPT !.people = people]
<1>1. /\ x \in LabelerEvent /\ y \in LabelerEvent /\ EventAlike(t, x, y)
      /\ c.at = d.at /\ FramesAlike(t, c.frames, d.frames)
  BY DEF CallStates, Alike
<1>2. /\ AfterLeaf(t, in1, "pool_identity", c) = CallState(NoNode, x2, c.frames)
      /\ AfterLeaf(t, in2, "full", d) = CallState(NoNode, y2, d.frames)
  BY <1>1 DEF AfterLeaf, LabelerEvent
<1>3. EventAlike(t, x2, y2)
  <2>1. CASE t[n].kind = "stop"
    BY <1>1, <2>1
  <2>2. CASE t[n].kind # "stop"
    <3>1. person.leaf = n
      BY <1>1 DEF PersonAt
    <3> HIDE DEF person
    <3>2. y2.people = people /\ y2.fp = y.fp /\ y2.fields = y.fields
      BY <1>1, <2>2 DEF LabelerEvent
    <3>3. people \in Seq(VirtualPersonActivity) /\ y.people \in Seq(VirtualPersonActivity)
      <4> HIDE DEF people, y2
      <4>1. y2 \in LabelerEvent
        BY <1>2 DEF CallStates, CallState
      <4>2. QED
        BY <1>1, <3>2, <4>1 DEF LabelerEvent
    <3>4. person \in VirtualPersonActivity
      BY <3>3, LastOfAppend
    <3>5. PoolsOfPeople(t, people)
            = IF t[n].kind = "ranked"
              THEN Append(PoolsOfPeople(t, y.people), PoolAssignmentOf(t[n]))
              ELSE PoolsOfPeople(t, y.people)
      BY <3>1, <3>3, <3>4, PoolsOfOneMore
    <3>6. /\ x2.fp = x.fp /\ x2.fields = x.fields
          /\ x2.pools = IF t[n].kind = "ranked"
                        THEN Append(x.pools, PoolAssignmentOf(t[n])) ELSE x.pools
      BY <1>1 DEF LabelerEvent
    <3> HIDE DEF people, x2, y2
    <3>7. QED
      BY <1>1, <3>2, <3>5, <3>6 DEF EventAlike
  <2>3. QED
    BY <2>1, <2>2
<1> HIDE DEF x2, y2
<1>4. QED
  BY <1>1, <1>2, <1>3 DEF Alike, CallState

LEMMA AfterAlike ==
  ASSUME NEW t \in Trees, NEW in1, NEW in2,
         NEW c \in CallStates, NEW d \in CallStates, Alike(t, c, d), ~ Final(c),
         After(t, in1, "pool_identity", c) \in CallStates,
         After(t, in2, "full", d) \in CallStates
  PROVE  Alike(t, After(t, in1, "pool_identity", c), After(t, in2, "full", d))
<1>1. /\ c.at = d.at /\ EventAlike(t, c.event, d.event)
      /\ FramesAlike(t, c.frames, d.frames)
      /\ c.frames \in Seq(FrameType) /\ d.frames \in Seq(FrameType)
      /\ c.at \in Nodes \cup {NoNode}
  BY DEF CallStates, Alike
<1>2. CASE c.at = NoNode
  <2>1. c.frames # <<>>
    BY <1>2 DEF Final
  <2>2. Innermost(c).kind = Innermost(d).kind
    BY <2>1, PopAlike DEF FrameAlike
  <2>3. CASE Innermost(c).kind = "updates"
    BY <1>1, <1>2, <2>1, <2>2, <2>3, UpdateAlike DEF After
  <2>4. CASE Innermost(c).kind # "updates"
    BY <1>1, <1>2, <2>1, <2>2, <2>4, CloneAlike DEF After
  <2>5. QED
    BY <2>3, <2>4
<1>3. CASE c.at # NoNode /\ t[c.at].kind = "updates"
  <2> DEFINE f == [kind |-> "updates", node |-> c.at, next |-> 1]
  <2>1. /\ After(t, in1, "pool_identity", c)
             = CallState(NoNode, c.event, Append(c.frames, f))
        /\ After(t, in2, "full", d)
             = CallState(NoNode, d.event, Append(d.frames, f))
    BY <1>1, <1>3 DEF After
  <2>2. f \in FrameType /\ FrameAlike(t, f, f)
    BY <1>1, <1>3 DEF FrameType, UpdatesFrame, FrameAlike
  <2> HIDE DEF f
  <2>3. FramesAlike(t, Append(c.frames, f), Append(d.frames, f))
    BY <1>1, <2>2, PushAlike
  <2> DEFINE fs == Append(c.frames, f)
             gs == Append(d.frames, f)
  <2> HIDE DEF fs, gs
  <2>4. Alike(t, CallState(NoNode, c.event, fs), CallState(NoNode, d.event, gs))
    BY <1>1, <2>3, CallStateFacts DEF Alike, fs, gs
  <2>5. QED
    BY <2>1, <2>4 DEF fs, gs
<1>4. CASE c.at # NoNode /\ t[c.at].kind = "multiplicity"
  <2>1. /\ After(t, in1, "pool_identity", c) = AfterMultiplicity(t, c)
        /\ After(t, in2, "full", d) = AfterMultiplicity(t, d)
    BY <1>1, <1>4 DEF After
  <2>2. QED
    BY <2>1, MultiplicityAlike
<1>5. CASE c.at # NoNode /\ t[c.at].kind \notin {"updates", "multiplicity"}
  <2>1. t[c.at].kind \in {"stop", "population", "ranked"}
    BY <1>1, <1>5, TreesAssumption
  <2>2. /\ After(t, in1, "pool_identity", c) = AfterLeaf(t, in1, "pool_identity", c)
        /\ After(t, in2, "full", d) = AfterLeaf(t, in2, "full", d)
    BY <1>1, <1>5 DEF After
  <2>3. QED
    BY <2>1, <2>2, LeafAlike
<1>6. QED
  BY <1>2, <1>3, <1>4, <1>5
-----------------------------------------------------------------------------
\* A pool once announced is not lost: it is in the event, or in the frame of
\* a multiplicity node that will merge it.
HasPool(pools, o) == \E k \in DOMAIN pools : pools[k].pool_offset = o
FrameHas(f, o) ==
  f.kind = "clones" /\ (HasPool(f.source.pools, o) \/ HasPool(f.pools, o))
FramesHave(fs, o) == \E k \in 1 .. Len(fs) : FrameHas(fs[k], o)
CallHas(c, o) == HasPool(c.event.pools, o) \/ FramesHave(c.frames, o)

\* Only the innermost multiplicity has not begun, and the event is its source.
HasBegun(f) == f.kind = "clones" => f.applied # 0
AllBegun(fs) == \A k \in 1 .. Len(fs) : HasBegun(fs[k])
Begun(c) ==
  \/ AllBegun(c.frames)
  \/ /\ c.at = NoNode /\ c.frames # <<>> /\ AllBegun(Outer(c))
     /\ Innermost(c).source.pools = c.event.pools
Keeps(c, d, o) == Begun(d) /\ (CallHas(c, o) => CallHas(d, o))

LEMMA PushBegun ==
  ASSUME NEW fs \in Seq(FrameType), NEW f \in FrameType
  PROVE  /\ AllBegun(fs) /\ HasBegun(f) => AllBegun(Append(fs, f))
         /\ \A o : FramesHave(fs, o) \/ FrameHas(f, o)
                     => FramesHave(Append(fs, f), o)
<1> DEFINE gs == Append(fs, f)
<1>1. /\ gs \in Seq(FrameType) /\ Len(gs) = Len(fs) + 1 /\ Len(fs) \in Nat
      /\ gs[Len(fs) + 1] = f /\ \A k \in 1 .. Len(fs) : gs[k] = fs[k]
  OBVIOUS
<1> HIDE DEF gs
<1>2. Len(fs) + 1 \in 1 .. Len(gs) /\ \A k \in 1 .. Len(fs) : k \in 1 .. Len(gs)
  BY <1>1
<1>3. \A k \in 1 .. Len(gs) : k \in 1 .. Len(fs) \/ k = Len(fs) + 1
  BY <1>1
<1>4. QED
  BY <1>1, <1>2, <1>3 DEF AllBegun, FramesHave, gs

LEMMA PopBegun ==
  ASSUME NEW c \in CallStates, c.frames # <<>>
  PROVE  /\ Innermost(c) \in FrameType /\ Outer(c) \in Seq(FrameType)
         /\ Begun(c) => AllBegun(Outer(c))
         /\ Begun(c) => HasBegun(Innermost(c))
                          \/ Innermost(c).source.pools = c.event.pools
         /\ \A o : FramesHave(c.frames, o)
                     => FramesHave(Outer(c), o) \/ FrameHas(Innermost(c), o)
<1> DEFINE fs == c.frames
           n == Len(fs)
<1>1. fs \in Seq(FrameType) /\ fs # <<>>
  BY DEF CallStates
<1>2. Innermost(c) = fs[n] /\ Outer(c) = SubSeq(fs, 1, n - 1)
  BY DEF Innermost, Outer
<1> HIDE DEF fs
<1>3. n \in Nat \ {0} /\ n \in 1 .. n
  BY <1>1
<1>4. /\ Innermost(c) \in FrameType /\ Outer(c) \in Seq(FrameType)
      /\ Len(Outer(c)) = n - 1 /\ \A k \in 1 .. n - 1 : Outer(c)[k] = fs[k]
  <2>1. fs[n] \in FrameType
    BY <1>1, <1>3
  <2>2. /\ SubSeq(fs, 1, n - 1) \in Seq(FrameType)
        /\ Len(SubSeq(fs, 1, n - 1)) = n - 1
        /\ \A k \in 1 .. n - 1 : SubSeq(fs, 1, n - 1)[k] = fs[k]
    <3> DEFINE v == SubSeq(fs, 1, n - 1)
    <3> HIDE DEF n
    <3>1. n = Len(fs)
      BY DEF n
    <3>2. v \in Seq(FrameType) /\ Len(v) = n - 1 /\ \A k \in 1 .. n - 1 : v[k] = fs[k]
      BY <1>1, <1>3, <3>1
    <3>3. QED
      BY <3>2
  <2>3. QED
    BY <1>2, <2>1, <2>2
<1> HIDE DEF n
<1>5. AllBegun(fs) => AllBegun(Outer(c)) /\ HasBegun(Innermost(c))
  BY <1>2, <1>3, <1>4 DEF AllBegun, n
<1>6. \A k \in 1 .. n : k \in 1 .. n - 1 \/ k = n
  BY <1>3
<1>7. \A o : FramesHave(fs, o) => FramesHave(Outer(c), o) \/ FrameHas(Innermost(c), o)
  BY <1>2, <1>4, <1>6 DEF FramesHave, n
<1>8. QED
  BY <1>4, <1>5, <1>7 DEF Begun, fs

LEMMA HasConcat ==
  ASSUME NEW s \in Seq(PoolAssignment), NEW u \in Seq(PoolAssignment), NEW o,
         HasPool(s, o) \/ HasPool(u, o)
  PROVE  HasPool(s \o u, o)
<1>1. \A k \in DOMAIN s : k \in DOMAIN (s \o u) /\ (s \o u)[k] = s[k]
  OBVIOUS
<1>2. \A k \in DOMAIN u :
        Len(s) + k \in DOMAIN (s \o u) /\ (s \o u)[Len(s) + k] = u[k]
  OBVIOUS
<1>3. QED
  BY <1>1, <1>2 DEF HasPool

LEMMA HasAppend ==
  ASSUME NEW s \in Seq(PoolAssignment), NEW x, NEW o,
         HasPool(s, o) \/ x.pool_offset = o
  PROVE  HasPool(Append(s, x), o)
<1>1. \A k \in DOMAIN s : k \in DOMAIN Append(s, x) /\ Append(s, x)[k] = s[k]
  OBVIOUS
<1>2. Len(s) + 1 \in DOMAIN Append(s, x) /\ Append(s, x)[Len(s) + 1] = x
  OBVIOUS
<1>3. QED
  BY <1>1, <1>2 DEF HasPool

\* A call that goes on with begun frames, and has what it had.
LEMMA KeepsBy ==
  ASSUME NEW c, NEW node, NEW ev, NEW fs, NEW o, AllBegun(fs),
         CallHas(c, o) => HasPool(ev.pools, o) \/ FramesHave(fs, o)
  PROVE  Keeps(c, CallState(node, ev, fs), o)
  BY DEF Keeps, CallState, Begun, CallHas

LEMMA UpdateKeeps ==
  ASSUME NEW t, NEW c \in CallStates, NEW o, Begun(c),
         c.frames # <<>>, Innermost(c).kind = "updates"
  PROVE  Keeps(c, AfterUpdate(t, c), o)
<1> DEFINE f == Innermost(c)
           u == t[f.node].updaters[f.next]
           of == Outer(c)
           f2 == [f EXCEPT !.next = @ + 1]
           next == Append(of, f2)
           x == c.event
<1>1. /\ f \in UpdatesFrame /\ of \in Seq(FrameType) /\ AllBegun(of)
      /\ FramesHave(c.frames, o) => FramesHave(of, o) \/ FrameHas(f, o)
  BY PopBegun DEF FrameType, UpdatesFrame, ClonesFrame
<1>2. ~ FrameHas(f, o)
  BY DEF FrameHas
<1>3. /\ x \in LabelerEvent
      /\ CallHas(c, o) => HasPool(x.pools, o) \/ FramesHave(of, o)
  BY <1>1, <1>2 DEF CallHas, CallStates
<1>4. AfterUpdate(t, c)
           = IF f.next \notin DOMAIN t[f.node].updaters
             THEN ToChild(t, f.node, x, of)
             ELSE IF u.by = "tree" THEN CallState(u.root, x, next)
             ELSE CallState(NoNode, InState(x, u.f[StateOf(x)]), next)
  BY DEF AfterUpdate
<1> HIDE DEF f, of, x
<1>5. f2 \in FrameType /\ HasBegun(f2)
  <2>1. f2 \in UpdatesFrame
    BY <1>1 DEF UpdatesFrame
  <2>2. f2.kind = "updates"
    BY <2>1 DEF UpdatesFrame
  <2>3. QED
    BY <2>1, <2>2 DEF FrameType, HasBegun
<1> HIDE DEF f2
<1>6. /\ AllBegun(next)
      /\ CallHas(c, o) => HasPool(x.pools, o) \/ FramesHave(next, o)
  BY <1>1, <1>3, <1>5, PushBegun
<1>7. \A s : InState(x, s).pools = x.pools
  BY <1>3 DEF InState, LabelerEvent
<1> HIDE DEF next, u
<1>8. Keeps(c, ToChild(t, f.node, x, of), o)
  BY <1>1, <1>3, KeepsBy DEF ToChild
<1>9. Keeps(c, CallState(u.root, x, next), o)
  BY <1>6, KeepsBy
<1>10. Keeps(c, CallState(NoNode, InState(x, u.f[StateOf(x)]), next), o)
  BY <1>6, <1>7, KeepsBy
<1>11. QED
  BY <1>4, <1>8, <1>9, <1>10

LEMMA CloneKeeps ==
  ASSUME NEW t, NEW c \in CallStates, NEW o, Begun(c),
         c.frames # <<>>, Innermost(c).kind # "updates"
  PROVE  Keeps(c, AfterClone(t, c), o)
<1> DEFINE f == Innermost(c)
           of == Outer(c)
           x == c.event
           g == Collected(f, x)
<1>1. /\ f \in ClonesFrame /\ of \in Seq(FrameType) /\ AllBegun(of)
      /\ HasBegun(f) \/ f.source.pools = x.pools
      /\ FramesHave(c.frames, o) => FramesHave(of, o) \/ FrameHas(f, o)
  BY PopBegun DEF FrameType, UpdatesFrame, ClonesFrame
<1>2. /\ x \in LabelerEvent
      /\ CallHas(c, o)
           => HasPool(x.pools, o) \/ FramesHave(of, o) \/ FrameHas(f, o)
  BY <1>1 DEF CallHas, CallStates
<1>3. AfterClone(t, c)
        = IF f.applied < Len(f.clones)
          THEN ToChild(t, f.node, CloneOf(f),
                       Append(of, [g EXCEPT !.applied = @ + 1]))
          ELSE CallState(NoNode,
                 [f.source EXCEPT !.people = @ \o g.people, !.pools = @ \o g.pools],
                 of)
  BY DEF AfterClone
<1> HIDE DEF f, of, x
<1>4. /\ g \in ClonesFrame /\ g.source = f.source /\ g.kind = "clones"
      /\ f.source \in LabelerEvent /\ f.kind = "clones"
  <2>1. f.source \in LabelerEvent /\ f.kind = "clones"
    BY <1>1 DEF ClonesFrame
  <2>2. CASE f.applied = 0
    BY <1>1, <2>1, <2>2 DEF Collected
  <2>3. CASE f.applied # 0
    <3> DEFINE people == f.people \o x.people
               pools == f.pools \o x.pools
    <3>1. people \in Seq(VirtualPersonActivity) /\ pools \in Seq(PoolAssignment)
      BY <1>1, <1>2 DEF ClonesFrame, LabelerEvent
    <3>2. g = [f EXCEPT !.people = people, !.pools = pools]
      BY <1>1, <2>3 DEF Collected, ClonesFrame
    <3> HIDE DEF g, people, pools
    <3>3. QED
      BY <1>1, <2>1, <3>1, <3>2 DEF ClonesFrame
  <2>4. QED
    BY <2>2, <2>3
<1>5. CallHas(c, o)
        => FramesHave(of, o) \/ HasPool(g.source.pools, o) \/ HasPool(g.pools, o)
  <2>1. f.source.pools \in Seq(PoolAssignment) /\ f.pools \in Seq(PoolAssignment)
        /\ x.pools \in Seq(PoolAssignment)
    BY <1>1, <1>2, <1>4 DEF ClonesFrame, LabelerEvent
  <2>2. CASE f.applied = 0
    <3>1. f.source.pools = x.pools /\ g = f
      BY <1>1, <1>4, <2>2 DEF HasBegun, Collected
    <3>2. QED
      BY <1>2, <1>4, <3>1 DEF FrameHas
  <2>3. CASE f.applied # 0
    <3>1. g.pools = f.pools \o x.pools
      BY <1>1, <2>3 DEF Collected, ClonesFrame
    <3>2. HasPool(f.pools, o) \/ HasPool(x.pools, o) => HasPool(g.pools, o)
      BY <2>1, <3>1, HasConcat
    <3>3. QED
      BY <1>2, <1>4, <3>2 DEF FrameHas
  <2>4. QED
    BY <2>2, <2>3
<1> HIDE DEF g
<1>6. CASE f.applied < Len(f.clones)
  <2> DEFINE g2 == [g EXCEPT !.applied = @ + 1]
             fs == Append(of, g2)
  <2>1. /\ g2 \in ClonesFrame /\ g2.kind = g.kind /\ g2.source = g.source
        /\ g2.pools = g.pools /\ g2.applied = g.applied + 1
    BY <1>4, NextClone
  <2>2. g.applied \in Nat
    BY <1>4 DEF ClonesFrame
  <2> HIDE DEF g2
  <2>3. g2 \in FrameType /\ HasBegun(g2)
    BY <2>1, <2>2 DEF FrameType, HasBegun
  <2>4. CallHas(c, o) => FramesHave(of, o) \/ FrameHas(g2, o)
    BY <1>4, <1>5, <2>1 DEF FrameHas
  <2>5. AllBegun(fs) /\ (CallHas(c, o) => FramesHave(fs, o))
    BY <1>1, <2>3, <2>4, PushBegun
  <2> HIDE DEF fs
  <2>6. Keeps(c, ToChild(t, f.node, CloneOf(f), fs), o)
    BY <2>5, KeepsBy DEF ToChild
  <2>7. QED
    BY <1>3, <1>6, <2>6 DEF fs, g2
<1>7. CASE ~ (f.applied < Len(f.clones))
  <2> DEFINE ev == [f.source EXCEPT !.people = @ \o g.people, !.pools = @ \o g.pools]
  <2>1. ev.pools = f.source.pools \o g.pools
    BY <1>4 DEF LabelerEvent
  <2>2. f.source.pools \in Seq(PoolAssignment) /\ g.pools \in Seq(PoolAssignment)
    BY <1>4 DEF ClonesFrame, LabelerEvent
  <2> HIDE DEF ev
  <2>3. CallHas(c, o) => HasPool(ev.pools, o) \/ FramesHave(of, o)
    BY <1>4, <1>5, <2>1, <2>2, HasConcat
  <2>4. Keeps(c, CallState(NoNode, ev, of), o)
    BY <1>1, <2>3, KeepsBy
  <2>5. QED
    BY <1>3, <1>7, <2>4 DEF ev
<1>8. QED
  BY <1>6, <1>7

LEMMA SeqPushed ==
  ASSUME NEW S, NEW s \in Seq(S), NEW x
  PROVE  /\ Append(s, x) \in Seq(S \cup {x}) /\ Append(s, x) # <<>>
         /\ Append(s, x)[Len(Append(s, x))] = x
         /\ SubSeq(Append(s, x), 1, Len(Append(s, x)) - 1) = s
<1> DEFINE u == Append(s, x)
           v == SubSeq(u, 1, Len(u) - 1)
<1>1. /\ s \in Seq(S \cup {x}) /\ u \in Seq(S \cup {x})
      /\ Len(u) = Len(s) + 1 /\ Len(s) \in Nat /\ u[Len(u)] = x
      /\ \A k \in 1 .. Len(s) : u[k] = s[k]
  OBVIOUS
<1> HIDE DEF u
<1>2. /\ v \in Seq(S \cup {x}) /\ Len(v) = Len(s)
      /\ \A k \in 1 .. Len(s) : v[k] = u[k]
  BY <1>1
<1> HIDE DEF v
<1>3. v = s
  BY <1>1, <1>2
<1>4. u # <<>>
  BY <1>1
<1>5. QED
  BY <1>1, <1>3, <1>4 DEF u, v

LEMMA AfterKeeps ==
  ASSUME NEW t \in Trees, NEW in, NEW c \in CallStates, NEW o,
         Begun(c), ~ Final(c)
  PROVE  Keeps(c, After(t, in, "pool_identity", c), o)
<1>1. /\ c.event \in LabelerEvent /\ c.frames \in Seq(FrameType)
      /\ c.at \in Nodes \cup {NoNode}
      /\ CallHas(c, o) => HasPool(c.event.pools, o) \/ FramesHave(c.frames, o)
  BY DEF CallStates, CallHas
<1> DEFINE d == After(t, in, "pool_identity", c)
<1>2. CASE c.at = NoNode
  <2>1. c.frames # <<>>
    BY <1>2 DEF Final
  <2>2. QED
    BY <1>2, <2>1, UpdateKeeps, CloneKeeps DEF After
<1>3. CASE c.at # NoNode
  <2>1. AllBegun(c.frames)
    BY <1>3 DEF Begun
  <2>2. CASE t[c.at].kind = "updates"
    <3> DEFINE f == [kind |-> "updates", node |-> c.at, next |-> 1]
               fs == Append(c.frames, f)
    <3>1. d = CallState(NoNode, c.event, fs)
      BY <1>3, <2>2 DEF After
    <3>2. f \in FrameType /\ HasBegun(f)
      BY <1>1, <1>3 DEF FrameType, UpdatesFrame, HasBegun
    <3> HIDE DEF f
    <3>3. /\ AllBegun(fs)
          /\ CallHas(c, o) => HasPool(c.event.pools, o) \/ FramesHave(fs, o)
      BY <1>1, <2>1, <3>2, PushBegun
    <3> HIDE DEF fs, d
    <3>4. Keeps(c, d, o)
      BY <3>1, <3>3, KeepsBy
    <3>5. QED
      BY <3>4 DEF d
  <2>3. CASE t[c.at].kind = "multiplicity"
    <3> DEFINE s == StateOf(c.event)
               count == t[c.at].clone_count[s]
               f == [kind |-> "clones", node |-> c.at, source |-> c.event,
                     clones |-> [i \in 1 .. count |->
                                   CloneStateIn(t, c.at, s, i - 1)],
                     applied |-> 0, people |-> <<>>, pools |-> <<>>]
               fs == Append(c.frames, f)
               ev == InState(c.event, CloneStateIn(t, c.at, s, 0))
    <3>1. d = IF count = 1 THEN ToChild(t, c.at, ev, c.frames)
              ELSE CallState(NoNode, c.event, fs)
      BY <1>3, <2>3 DEF After, AfterMultiplicity
    <3>2. ev.pools = c.event.pools
      BY <1>1 DEF InState, LabelerEvent
    <3> HIDE DEF ev
    <3>3. Keeps(c, ToChild(t, c.at, ev, c.frames), o)
      BY <1>1, <2>1, <3>2, KeepsBy DEF ToChild
    <3>4. Keeps(c, CallState(NoNode, c.event, fs), o)
      <4>1. f.source = c.event
        OBVIOUS
      <4> HIDE DEF f
      <4>2. /\ fs \in Seq(FrameType \cup {f}) /\ fs # <<>>
            /\ fs[Len(fs)] = f /\ SubSeq(fs, 1, Len(fs) - 1) = c.frames
        BY <1>1, SeqPushed
      <4>3. FramesHave(c.frames, o) => FramesHave(fs, o)
        <5>1. /\ Len(fs) = Len(c.frames) + 1
              /\ \A k \in 1 .. Len(c.frames) : fs[k] = c.frames[k] /\ k \in 1 .. Len(fs)
          BY <1>1
        <5>2. QED
          BY <5>1 DEF FramesHave
      <4> HIDE DEF fs
      <4> DEFINE e == CallState(NoNode, c.event, fs)
      <4>4. /\ e.at = NoNode /\ e.event = c.event /\ e.frames = fs
        BY DEF CallState
      <4>5. Innermost(e) = f /\ Outer(e) = c.frames
        BY <4>2, <4>4 DEF Innermost, Outer
      <4> HIDE DEF e
      <4>6. Begun(e)
        BY <2>1, <4>1, <4>2, <4>4, <4>5 DEF Begun
      <4>7. CallHas(c, o) => CallHas(e, o)
        BY <1>1, <4>3, <4>4 DEF CallHas
      <4>8. Keeps(c, e, o)
        BY <4>6, <4>7 DEF Keeps
      <4>9. QED
        BY <4>8 DEF e
    <3> HIDE DEF d, fs
    <3>5. Keeps(c, d, o)
      BY <3>1, <3>3, <3>4
    <3>6. QED
      BY <3>5 DEF d
  <2>4. CASE t[c.at].kind \notin {"updates", "multiplicity"}
    <3> DEFINE ev == IF t[c.at].kind \in {"stop", "population"} THEN c.event
                     ELSE [c.event EXCEPT !.pools =
                             Append(@, PoolAssignmentOf(t[c.at]))]
    <3>1. d = CallState(NoNode, ev, c.frames)
      BY <1>3, <2>4 DEF After, AfterLeaf
    <3>2. HasPool(c.event.pools, o) => HasPool(ev.pools, o)
      <4>1. c.event.pools \in Seq(PoolAssignment)
        BY <1>1 DEF LabelerEvent
      <4>2. HasPool(c.event.pools, o)
              => HasPool(Append(c.event.pools, PoolAssignmentOf(t[c.at])), o)
        BY <4>1, HasAppend
      <4>3. \/ ev.pools = c.event.pools
            \/ ev.pools = Append(c.event.pools, PoolAssignmentOf(t[c.at]))
        BY <1>1 DEF LabelerEvent
      <4>4. QED
        BY <4>2, <4>3
    <3> HIDE DEF ev, d
    <3>3. Keeps(c, d, o)
      BY <1>1, <2>1, <3>1, <3>2, KeepsBy
    <3>4. QED
      BY <3>3 DEF d
  <2>5. QED
    BY <2>2, <2>3, <2>4
<1>4. QED
  BY <1>2, <1>3

LEMMA StartBegun ==
  ASSUME NEW in
  PROVE  Begun(Start(in))
  BY DEF Begun, AllBegun, Start, CallState
-----------------------------------------------------------------------------
\* The two passes of an event, side by side.
LEMMA RunTyped ==
  ASSUME NEW t, NEW in, NEW m, NEW c, RunsTo(t, in, m, c)
  PROVE  c \in CallStates
<1>1. PICK n \in Nat : \E p : IsRun(t, in, m, n, p) /\ p[n] = c
  BY DEF RunsTo
<1>2. PICK p : IsRun(t, in, m, n, p) /\ p[n] = c
  BY <1>1
<1>3. n \in 0 .. n
  OBVIOUS
<1>4. QED
  BY <1>2, <1>3 DEF IsRun

LEMMA StartTyped ==
  ASSUME NEW e \in Events, NEW r \in Seq(RankAssignment)
  PROVE  Start(Request(e, r)) \in CallStates
<1>1. Request(e, r) \in LabelerInput
  BY RequestFacts
<1>2. NewEvent(Request(e, r)) \in LabelerEvent
  BY <1>1, TreesAssumption DEF NewEvent, LabelerEvent, LabelerInput
<1>3. Root \in Nodes \cup {NoNode} /\ <<>> \in Seq(FrameType)
  BY TreesAssumption
<1>4. QED
  BY <1>2, <1>3 DEF Start, CallState, CallStates

LEMMA PassesCorrespond ==
  ASSUME NEW t \in Trees, NEW e \in Events, NEW r \in Seq(RankAssignment),
         NEW c, RunsTo(t, Request(e, <<>>), "pool_identity", c), Final(c),
         NEW d, RunsTo(t, Request(e, r), "full", d)
  PROVE  \E x \in CallStates :
           /\ Alike(t, x, d) /\ Begun(x)
           /\ \A T : /\ x \in T
                     /\ \A z \in T :
                          z \in CallStates /\ ~ Final(z)
                            /\ After(t, Request(e, <<>>), "pool_identity", z)
                                 \in CallStates
                          => After(t, Request(e, <<>>), "pool_identity", z) \in T
                     => c \in T
<1> DEFINE in1 == Request(e, <<>>)
           in2 == Request(e, r)
           R == {xy \in CallStates \X CallStates :
                   Alike(t, xy[1], xy[2]) /\ Begun(xy[1])}
<1>1. \A x, y : <<x, y>> \in R <=>
        x \in CallStates /\ y \in CallStates /\ Alike(t, x, y) /\ Begun(x)
  OBVIOUS
<1> HIDE DEF R
<1>2. <<Start(in1), Start(in2)>> \in R
  <2>1. <<>> \in Seq(RankAssignment)
    OBVIOUS
  <2>2. Start(in1) \in CallStates /\ Start(in2) \in CallStates
    BY <2>1, StartTyped
  <2>3. in1.fp = in2.fp /\ in1.fields = in2.fields
    BY DEF Request
  <2> HIDE DEF in1, in2
  <2>4. Alike(t, Start(in1), Start(in2)) /\ Begun(Start(in1))
    BY <2>3, StartAlike, StartBegun
  <2>5. QED
    BY <1>1, <2>2, <2>4
<1> HIDE DEF in1, in2
<1>3. \A x, y : <<x, y>> \in R => (Final(x) <=> Final(y))
  BY <1>1, FinalAlike
<1>4. \A x, y : /\ <<x, y>> \in R /\ x \in CallStates /\ y \in CallStates
                /\ ~ Final(x)
                /\ After(t, in1, "pool_identity", x) \in CallStates
                /\ After(t, in2, "full", y) \in CallStates
                => <<After(t, in1, "pool_identity", x), After(t, in2, "full", y)>> \in R
  <2> SUFFICES ASSUME NEW x \in CallStates, NEW y \in CallStates,
                      Alike(t, x, y), Begun(x), ~ Final(x),
                      After(t, in1, "pool_identity", x) \in CallStates,
                      After(t, in2, "full", y) \in CallStates
               PROVE  <<After(t, in1, "pool_identity", x), After(t, in2, "full", y)>> \in R
    BY <1>1
  <2>1. Alike(t, After(t, in1, "pool_identity", x), After(t, in2, "full", y))
    BY AfterAlike
  <2>2. Begun(After(t, in1, "pool_identity", x))
    BY AfterKeeps DEF Keeps
  <2>3. QED
    BY <1>1, <2>1, <2>2
<1>5. RunsTo(t, in1, "pool_identity", c) /\ RunsTo(t, in2, "full", d)
  BY DEF in1, in2
<1>6. PICK x \in CallStates :
        /\ <<x, d>> \in R
        /\ \A T : /\ x \in T
                  /\ \A z \in T : z \in CallStates /\ ~ Final(z)
                                    /\ After(t, in1, "pool_identity", z) \in CallStates
                                    => After(t, in1, "pool_identity", z) \in T
                  => c \in T
  BY <1>2, <1>3, <1>4, <1>5, SideBySide, Zenon
<1>7. Alike(t, x, d) /\ Begun(x)
  BY <1>1, <1>6
<1>8. QED
  BY <1>6, <1>7 DEF in1

\* Where pass 2 ends, pass 1 has announced the pools of its people.
LEMMA EndsAgree ==
  ASSUME NEW t \in Trees, NEW e \in Events, NEW r \in Seq(RankAssignment),
         NEW c, RunsTo(t, Request(e, <<>>), "pool_identity", c), Final(c),
         NEW d, RunsTo(t, Request(e, r), "full", d), Final(d)
  PROVE  c.event.pools = PoolsOfPeople(t, d.event.people)
<1>1. PICK x \in CallStates :
        /\ Alike(t, x, d) /\ Begun(x)
        /\ \A T : /\ x \in T
                  /\ \A z \in T :
                       z \in CallStates /\ ~ Final(z)
                         /\ After(t, Request(e, <<>>), "pool_identity", z)
                              \in CallStates
                       => After(t, Request(e, <<>>), "pool_identity", z) \in T
                  => c \in T
  BY PassesCorrespond, Zenon
<1>2. d \in CallStates
  BY RunTyped
<1>3. Final(x)
  BY <1>1, <1>2, FinalAlike
<1>4. c \in {x}
  <2>1. \A z \in {x} : Final(z)
    BY <1>3
  <2>2. x \in {x}
    OBVIOUS
  <2>3. QED
    BY <1>1, <2>1, <2>2, Zenon
<1>5. QED
  BY <1>1, <1>4 DEF Alike, EventAlike

\* The pool of a ranked leaf that pass 2 comes to is announced.
LEMMA PoolIsAnnounced ==
  ASSUME NEW t \in Trees, NEW e \in Events, NEW r \in Seq(RankAssignment),
         NEW c, RunsTo(t, Request(e, <<>>), "pool_identity", c), Final(c),
         NEW d, RunsTo(t, Request(e, r), "full", d),
         d.at # NoNode, t[d.at].kind = "ranked"
  PROVE  HasPool(c.event.pools, t[d.at].pool_offset)
<1> DEFINE in == Request(e, <<>>)
           o == t[d.at].pool_offset
<1>1. PICK x \in CallStates :
        /\ Alike(t, x, d) /\ Begun(x)
        /\ \A T : /\ x \in T
                  /\ \A z \in T :
                       z \in CallStates /\ ~ Final(z)
                         /\ After(t, in, "pool_identity", z) \in CallStates
                       => After(t, in, "pool_identity", z) \in T
                  => c \in T
  BY PassesCorrespond, Zenon
<1> DEFINE next == After(t, in, "pool_identity", x)
           T == {x} \cup {z \in CallStates : Begun(z) /\ CallHas(z, o)}
<1> HIDE DEF in
<1>2. x.at = d.at /\ ~ Final(x)
  BY <1>1 DEF Alike, Final
<1>3. Begun(next) /\ CallHas(next, o)
  <2>1. Begun(next)
    BY <1>1, <1>2, AfterKeeps DEF Keeps
  <2>2. next = CallState(NoNode,
          [x.event EXCEPT !.pools = Append(@, PoolAssignmentOf(t[d.at]))], x.frames)
    BY <1>2 DEF After, AfterLeaf
  <2>3. x.event.pools \in Seq(PoolAssignment) /\ x.event \in LabelerEvent
    BY DEF CallStates, LabelerEvent
  <2>4. next.event.pools = Append(x.event.pools, PoolAssignmentOf(t[d.at]))
    BY <2>2, <2>3 DEF CallState, LabelerEvent
  <2>5. PoolAssignmentOf(t[d.at]).pool_offset = o
    BY DEF PoolAssignmentOf
  <2> HIDE DEF next, o
  <2>6. HasPool(next.event.pools, o)
    BY <2>3, <2>4, <2>5, HasAppend
  <2>7. QED
    BY <2>1, <2>6 DEF CallHas
<1>4. ASSUME NEW z \in T, z \in CallStates, ~ Final(z),
             After(t, in, "pool_identity", z) \in CallStates
      PROVE  After(t, in, "pool_identity", z) \in T
  <2>1. CASE z = x
    BY <1>3, <1>4, <2>1
  <2>2. CASE Begun(z) /\ CallHas(z, o)
    BY <1>4, <2>2, AfterKeeps DEF Keeps
  <2>3. QED
    BY <1>4, <2>1, <2>2
<1>5. x \in T
  OBVIOUS
<1>6. c \in T
  <2> HIDE DEF T
  <2>1. QED
    BY <1>1, <1>4, <1>5, Zenon
<1>7. c # x /\ CallHas(c, o)
  BY <1>2, <1>6
<1>8. ~ FramesHave(c.frames, o)
  BY DEF Final, FramesHave
<1>9. QED
  BY <1>7, <1>8 DEF CallHas
-----------------------------------------------------------------------------
\* What the passes have returned is where the runs of the calls end.
Announces(t, e, pools) ==
  \E c : /\ RunsTo(t, Request(e, <<>>), "pool_identity", c)
         /\ Final(c) /\ c.event.pools = pools
Labels(t, e, r, people) ==
  \E d : /\ RunsTo(t, Request(e, r), "full", d)
         /\ Final(d) /\ d.event.people = people
\* The ranks of an event are for the pools it has announced, in that order.
RanksMatch(pools, r) ==
  IF pools = None THEN r = <<>>
  ELSE /\ Len(r) <= Len(pools)
       /\ \A k \in DOMAIN r : r[k].pool_offset = pools[k].pool_offset

RunningInv ==
  /\ RunsTo(tree, input, mode, Now)
  /\ input = Request(input.event, input.ranks)
  /\ mode = "pool_identity" => input.ranks = <<>>
  /\ mode = "full" =>
       AllRanked(input.event) /\ input.ranks = ranks[input.event]
PassesInv(e) ==
  /\ announced[e] # None => Announces(tree, e, announced[e])
  /\ RanksMatch(announced[e], ranks[e])
  /\ labeled[e] # None =>
       AllRanked(e) /\ Labels(tree, e, ranks[e], labeled[e])
RunInv ==
  /\ outcome # "no rank"
  /\ outcome = "running" => RunningInv
  /\ \A e \in Events : PassesInv(e)

LEMMA InitRunInv == Init => RunInv
  BY DEF Init, LabelerInit, RunInv, PassesInv, RanksMatch

\* A pass that has returned before returns the same.
LEMMA SamePools ==
  ASSUME NEW t, NEW e \in Events, NEW p, NEW q, Announces(t, e, p), Announces(t, e, q)
  PROVE  p = q
<1>1. PICK c : /\ RunsTo(t, Request(e, <<>>), "pool_identity", c)
               /\ Final(c) /\ c.event.pools = p
  BY DEF Announces
<1>2. PICK d : /\ RunsTo(t, Request(e, <<>>), "pool_identity", d)
               /\ Final(d) /\ d.event.pools = q
  BY DEF Announces
<1>3. <<>> \in Seq(RankAssignment)
  OBVIOUS
<1>4. Start(Request(e, <<>>)) \in CallStates
  BY <1>3, StartTyped
<1>5. c = d
  BY <1>1, <1>2, <1>4, SameEnd, Zenon
<1>6. QED
  BY <1>1, <1>2, <1>5

LEMMA SamePeople ==
  ASSUME NEW t, NEW e \in Events, NEW r \in Seq(RankAssignment),
         NEW p, NEW q, Labels(t, e, r, p), Labels(t, e, r, q)
  PROVE  p = q
<1>1. PICK c : /\ RunsTo(t, Request(e, r), "full", c)
               /\ Final(c) /\ c.event.people = p
  BY DEF Labels
<1>2. PICK d : /\ RunsTo(t, Request(e, r), "full", d)
               /\ Final(d) /\ d.event.people = q
  BY DEF Labels
<1>3. Start(Request(e, r)) \in CallStates
  BY StartTyped
<1>4. c = d
  BY <1>1, <1>2, <1>3, SameEnd, Zenon
<1>5. QED
  BY <1>1, <1>2, <1>4

LEMMA PassRuns ==
  ASSUME IInv, RunInv, Pass1 \/ Pass2
  PROVE  RunInv'
<1>1. PICK e \in Events, r \in Seq(RankAssignment), m \in Modes :
        /\ Label(Request(e, r), m)
        /\ m = "pool_identity" => r = <<>>
        /\ m = "full" => AllRanked(e) /\ r = ranks[e]
  <2>1. CASE Pass1
    <3>1. <<>> \in Seq(RankAssignment) /\ "pool_identity" \in Modes
      BY DEF Modes
    <3>2. PICK e \in Events : Label(Request(e, <<>>), "pool_identity")
      BY <2>1 DEF Pass1
    <3>3. QED
      BY <3>1, <3>2
  <2>2. CASE Pass2
    <3>1. PICK e \in Events : AllRanked(e) /\ Label(Request(e, ranks[e]), "full")
      BY <2>2 DEF Pass2
    <3>2. ranks[e] \in Seq(RankAssignment) /\ "full" \in Modes
      BY DEF IInv, RanksInv, Modes
    <3>3. QED
      BY <3>1, <3>2
  <2>3. QED
    BY <2>1, <2>2
<1>2. /\ UNCHANGED <<announced, ranks, labeled, tree>>
      /\ input' = Request(e, r) /\ mode' = m /\ outcome' = "running"
      /\ at' = Root /\ event' = NewEvent(Request(e, r)) /\ frames' = <<>>
  BY <1>1 DEF Pass1, Pass2, Label, callerVars, IInv, CallInv
<1>3. Now' = Start(Request(e, r))
  BY <1>2 DEF Now, Start
<1>4. RunsTo(tree, Request(e, r), m, Start(Request(e, r)))
  BY StartTyped, RunStarts
<1>5. Request(e, r).event = e /\ Request(e, r).ranks = r
  BY RequestFacts
<1>6. RunningInv'
  BY <1>1, <1>2, <1>3, <1>4, <1>5 DEF RunningInv, AllRanked
<1>7. \A d \in Events : PassesInv(d)'
  BY <1>2 DEF RunInv, PassesInv, AllRanked
<1>8. QED
  BY <1>2, <1>6, <1>7 DEF RunInv

\* A call that goes on.
LEMMA GoesOnRuns ==
  ASSUME IInv, RunInv, Answer, outcome' = "running"
  PROVE  RunInv'
<1>1. /\ UNCHANGED <<tree, input, mode, ranks, announced, labeled>>
      /\ outcome = "running"
  BY ApplyFrame DEF IInv, Answer
<1>2. CallInv'
  BY <1>1, ApplyStep DEF IInv, Answer
<1>3. Now' \in CallStates
  <2>1. /\ event' \in LabelerEvent /\ frames' \in Seq(FrameType)
        /\ at' \in Nodes \cup {NoNode}
    BY <1>2 DEF CallInv, LabelerTypeOK, FrameType
  <2>2. QED
    BY <2>1 DEF Now, CallState, CallStates
<1>4. ~ Final(Now) /\ Now' = After(tree, input, mode, Now)
  BY Follows DEF IInv, Answer
<1>5. RunsTo(tree, input, mode, Now')
  <2> DEFINE c == Now
             d == Now'
  <2>1. RunsTo(tree, input, mode, c)
    BY <1>1 DEF RunInv, RunningInv
  <2>2. ~ Final(c) /\ d = After(tree, input, mode, c) /\ d \in CallStates
    BY <1>3, <1>4
  <2> HIDE DEF c, d
  <2>3. RunsTo(tree, input, mode, d)
    BY <2>1, <2>2, RunGoesOn
  <2>4. QED
    BY <2>3 DEF d
<1>6. RunningInv'
  <2>1. RunsTo(tree, input, mode, Now)'
    BY <1>1, <1>5
  <2>2. QED
    BY <1>1, <2>1 DEF RunInv, RunningInv, AllRanked
<1>7. \A d \in Events : PassesInv(d)'
  BY <1>1 DEF RunInv, PassesInv, AllRanked
<1>8. QED
  BY <1>6, <1>7 DEF RunInv

\* A call that returns.
LEMMA ReturnFacts ==
  ASSUME IInv, RunInv, Answer, outcome' = "ok"
  PROVE  /\ input.event \in Events /\ mode \in Modes
         /\ Final(Now) /\ RunsTo(tree, input, mode, Now)
         /\ input = Request(input.event, input.ranks)
         /\ output' = [people |-> event.people, pools |-> event.pools]
         /\ UNCHANGED <<tree, ranks>>
         /\ mode = "pool_identity" =>
              Announces(tree, input.event, event.pools)
         /\ mode = "full" =>
              Labels(tree, input.event, ranks[input.event], event.people)
<1>1. Return /\ outcome = "running" /\ UNCHANGED <<tree, ranks>>
  BY ApplyFrame DEF IInv, Answer
<1>2. input.event \in Events /\ mode \in Modes
  BY <1>1, RunFacts DEF IInv, CallInv, LabelerTypeOK, LabelerInput
<1>3. Final(Now) /\ output' = [people |-> event.people, pools |-> event.pools]
  BY <1>1, NowFacts DEF Return, Final
<1>4. RunningInv
  BY <1>1 DEF RunInv
<1>5. RunsTo(tree, Request(input.event, input.ranks), mode, Now)
  BY <1>4 DEF RunningInv
<1>6. Now.event = event
  BY NowFacts
<1> DEFINE c == Now
<1> HIDE DEF c
<1>7. mode = "pool_identity" => Announces(tree, input.event, event.pools)
  <2>1. mode = "pool_identity" => RunsTo(tree, Request(input.event, <<>>), "pool_identity", c)
    BY <1>4, <1>5 DEF RunningInv, c
  <2>2. QED
    BY <1>3, <1>6, <2>1 DEF Announces, c
<1>8. mode = "full" => Labels(tree, input.event, ranks[input.event], event.people)
  <2>1. mode = "full" => RunsTo(tree, Request(input.event, ranks[input.event]), "full", c)
    BY <1>4, <1>5 DEF RunningInv, c
  <2>2. QED
    BY <1>3, <1>6, <2>1 DEF Labels, c
<1>9. QED
  BY <1>1, <1>2, <1>3, <1>4, <1>7, <1>8 DEF RunningInv

\* What a pass returns that an event already has is what it has.
LEMMA ReturnsSame ==
  ASSUME IInv, RunInv, Answer, NEW e \in Events
  PROVE  /\ announced[e] # None => announced'[e] = announced[e]
         /\ labeled[e] # None => labeled'[e] = labeled[e]
<1>1. DOMAIN announced = Events /\ DOMAIN labeled = Events
  BY DEF IInv, CallerInv
<1>2. CASE outcome' # "ok"
  BY <1>2 DEF Answer
<1>3. CASE outcome' = "ok"
  <2> DEFINE i == input.event
  <2>1. /\ i \in Events /\ mode \in Modes
        /\ output' = [people |-> event.people, pools |-> event.pools]
        /\ mode = "pool_identity" => Announces(tree, i, event.pools)
        /\ mode = "full" => Labels(tree, i, ranks[i], event.people)
    BY <1>3, ReturnFacts
  <2>2. PassesInv(i) /\ ranks[i] \in Seq(RankAssignment)
    BY <2>1 DEF RunInv, IInv, RanksInv
  <2> HIDE DEF i
  <2>3. CASE mode = "full"
    <3>1. labeled' = [labeled EXCEPT ![i] = event.people] /\ announced' = announced
      BY <1>3, <2>1, <2>3 DEF Answer, i
    <3>2. labeled[i] # None => event.people = labeled[i]
      BY <2>1, <2>2, <2>3, SamePeople DEF PassesInv
    <3>3. QED
      BY <1>1, <2>1, <3>1, <3>2
  <2>4. CASE mode # "full"
    <3>1. announced' = [announced EXCEPT ![i] = event.pools] /\ labeled' = labeled
      BY <1>3, <2>1, <2>4 DEF Answer, i
    <3>2. announced[i] # None => event.pools = announced[i]
      BY <2>1, <2>2, <2>4, SamePools DEF PassesInv, Modes
    <3>3. QED
      BY <1>1, <2>1, <3>1, <3>2
  <2>5. QED
    BY <2>3, <2>4
<1>4. QED
  BY <1>2, <1>3

LEMMA ReturnRuns ==
  ASSUME IInv, RunInv, Answer, outcome' = "ok"
  PROVE  RunInv'
<1> DEFINE i == input.event
<1>1. /\ i \in Events /\ mode \in Modes /\ UNCHANGED <<tree, ranks>>
      /\ output' = [people |-> event.people, pools |-> event.pools]
      /\ mode = "pool_identity" => Announces(tree, i, event.pools)
      /\ mode = "full" => Labels(tree, i, ranks[i], event.people)
  BY ReturnFacts
<1>2. DOMAIN announced = Events /\ DOMAIN labeled = Events
  BY DEF IInv, CallerInv
<1>3. mode = "full" => AllRanked(i)
  <2>1. outcome = "running"
    BY ApplyFrame DEF IInv, Answer
  <2>2. QED
    BY <2>1 DEF RunInv, RunningInv
<1> HIDE DEF i
<1>4. ASSUME NEW e \in Events PROVE PassesInv(e)'
  <2>1. PassesInv(e)
    BY DEF RunInv
  <2>2. /\ announced[e] # None => announced'[e] = announced[e]
        /\ labeled[e] # None => labeled'[e] = labeled[e]
    BY ReturnsSame
  <2>3. CASE mode = "full"
    <3>1. labeled' = [labeled EXCEPT ![i] = event.people] /\ announced' = announced
      BY <1>1, <2>3 DEF Answer, i
    <3>2. CASE e = i
      BY <1>1, <1>2, <1>3, <2>1, <2>3, <3>1, <3>2 DEF PassesInv, AllRanked
    <3>3. CASE e # i
      BY <1>1, <1>2, <2>1, <3>1, <3>3 DEF PassesInv, AllRanked
    <3>4. QED
      BY <3>2, <3>3
  <2>4. CASE mode # "full"
    <3>1. announced' = [announced EXCEPT ![i] = event.pools] /\ labeled' = labeled
      BY <1>1, <2>4 DEF Answer, i
    <3>2. CASE announced[e] # None \/ e # i
      <4>1. announced'[e] = announced[e]
        BY <1>1, <1>2, <2>2, <3>1, <3>2
      <4>2. QED
        BY <1>1, <2>1, <3>1, <4>1 DEF PassesInv, AllRanked
    <3>3. CASE announced[e] = None /\ e = i
      <4>1. ranks[e] = <<>> /\ labeled[e] = None
        BY <2>1, <3>3 DEF PassesInv, RanksMatch, AllRanked
      <4>2. announced'[e] = event.pools /\ Announces(tree, e, event.pools)
        BY <1>1, <1>2, <2>4, <3>1, <3>3 DEF Modes
      <4>3. event.pools \in Seq(PoolAssignment)
        <5>1. outcome = "running"
          BY ApplyFrame DEF IInv, Answer
        <5>2. QED
          BY <5>1, RunFacts DEF IInv, LabelerEvent
      <4>4. RanksMatch(event.pools, <<>>)
        BY <4>3 DEF RanksMatch
      <4>5. QED
        BY <1>1, <3>1, <4>1, <4>2, <4>4 DEF PassesInv
    <3>4. QED
      BY <3>2, <3>3
  <2>5. QED
    BY <2>3, <2>4
<1>5. QED
  BY <1>4 DEF RunInv

\* The error for missing ranks: only RankedError returns it.
LEMMA NoRankBy ==
  ASSUME Apply, outcome' = "no rank", outcome # "no rank"
  PROVE  /\ outcome = "running" /\ at # NoNode /\ tree[at].kind = "ranked"
         /\ mode = "full" /\ RanksFor(tree[at].pool_offset) = {}
<1>1. RankedError
  BY DEF Apply, ApplyUpdates, Update, Updated, ApplyMultiplicity, ApplyClone,
     MergeClones, ApplyStop, ApplyPopulation, AnnouncePool, AddRanked,
     AddUnranked, Return, ApplyChild, AddPerson, LeafReturns, Fail
<1>2. QED
  BY <1>1 DEF RankedError, Applied, Fail

LEMMA SeqDomain ==
  ASSUME NEW S, NEW s \in Seq(S)
  PROVE  DOMAIN s = 1 .. Len(s)
OBVIOUS

LEMMA NeverNoRank ==
  ASSUME IInv, RunInv, Answer
  PROVE  outcome' # "no rank"
<1> SUFFICES ASSUME outcome' = "no rank" PROVE FALSE
  OBVIOUS
<1> DEFINE i == input.event
           o == tree[at].pool_offset
<1>1. /\ outcome = "running" /\ at # NoNode /\ tree[at].kind = "ranked"
      /\ mode = "full" /\ RanksFor(o) = {}
  BY NoRankBy DEF RunInv, Answer
<1>2. RunningInv /\ i \in Events /\ tree \in Trees
  BY <1>1, RunFacts DEF RunInv, IInv, LabelerInput
<1>3. ranks[i] \in Seq(RankAssignment) /\ input.ranks = ranks[i] /\ AllRanked(i)
  BY <1>1, <1>2 DEF RunningInv, IInv, RanksInv
<1>4. RunsTo(tree, Request(i, ranks[i]), "full", Now)
  BY <1>1, <1>2, <1>3 DEF RunningInv
<1>5. announced[i] # None /\ Len(ranks[i]) = Len(announced[i])
      /\ Announces(tree, i, announced[i]) /\ RanksMatch(announced[i], ranks[i])
  BY <1>2, <1>3 DEF RunInv, PassesInv, AllRanked
<1>6. PICK c : /\ RunsTo(tree, Request(i, <<>>), "pool_identity", c)
               /\ Final(c) /\ c.event.pools = announced[i]
  BY <1>5 DEF Announces
<1>7. HasPool(announced[i], o)
  <2> DEFINE d == Now
  <2>1. d.at = at /\ RunsTo(tree, Request(i, ranks[i]), "full", d)
    BY <1>4, NowFacts
  <2> HIDE DEF d, i
  <2>2. HasPool(c.event.pools, tree[d.at].pool_offset)
    BY <1>1, <1>2, <1>3, <1>6, <2>1, PoolIsAnnounced
  <2>3. QED
    BY <1>6, <2>1, <2>2
<1>8. announced[i] \in Seq(PoolAssignment)
  BY <1>2, <1>5 DEF IInv, CallerInv, AnnouncedOk
<1>9. PICK k \in DOMAIN announced[i] : announced[i][k].pool_offset = o
  BY <1>7 DEF HasPool
<1>10. k \in DOMAIN ranks[i]
  <2> HIDE DEF i
  <2>1. DOMAIN announced[i] = 1 .. Len(announced[i])
    BY <1>8, SeqDomain, Zenon
  <2>2. DOMAIN ranks[i] = 1 .. Len(ranks[i])
    BY <1>3, SeqDomain, Zenon
  <2>3. QED
    BY <1>5, <1>9, <2>1, <2>2
<1>11. ranks[i][k].pool_offset = o
  BY <1>5, <1>9, <1>10 DEF RanksMatch
<1>12. k \in RanksFor(o)
  BY <1>3, <1>10, <1>11 DEF RanksFor
<1>13. QED
  BY <1>1, <1>12

LEMMA AnswerRuns ==
  ASSUME IInv, RunInv, Answer
  PROVE  RunInv'
<1>1. CASE outcome' \notin {"running", "ok"}
  <2>1. UNCHANGED <<tree, ranks, announced, labeled>>
    BY <1>1, ApplyFrame DEF IInv, Answer
  <2>2. \A d \in Events : PassesInv(d)'
    BY <2>1 DEF RunInv, PassesInv, AllRanked
  <2>3. QED
    BY <1>1, <2>2, NeverNoRank DEF RunInv
<1>2. QED
  BY <1>1, GoesOnRuns, ReturnRuns

LEMMA RankRuns ==
  ASSUME IInv, RunInv, Rank
  PROVE  RunInv'
<1>1. PICK e \in Events :
        /\ announced[e] # None /\ Len(ranks[e]) < Len(announced[e])
        /\ \E l : ranks' = [ranks EXCEPT ![e] = Append(@,
             [pool_offset |-> announced[e][Len(ranks[e]) + 1].pool_offset,
              local_rank |-> l])]
        /\ UNCHANGED <<labelerVars, announced, labeled>>
  BY DEF Rank
<1>2. PICK l : ranks' = [ranks EXCEPT ![e] = Append(@,
             [pool_offset |-> announced[e][Len(ranks[e]) + 1].pool_offset,
              local_rank |-> l])]
  BY <1>1
<1> DEFINE ra == [pool_offset |-> announced[e][Len(ranks[e]) + 1].pool_offset,
                  local_rank |-> l]
<1>3. /\ ranks \in [Events -> Seq(RankAssignment)]
      /\ ranks[e] \in Seq(RankAssignment)
      /\ announced[e] \in Seq(PoolAssignment)
  BY <1>1 DEF IInv, RanksInv, CallerInv, AnnouncedOk
<1>4. /\ ranks'[e] = Append(ranks[e], ra)
      /\ \A d \in Events : d # e => ranks'[d] = ranks[d]
  BY <1>2, <1>3
<1>5. /\ UNCHANGED <<tree, input, mode, outcome, announced, labeled>>
      /\ Now' = Now
  BY <1>1 DEF labelerVars, Now
<1>6. ~ AllRanked(e)
  BY <1>1, <1>3 DEF AllRanked
<1>7. ASSUME NEW d \in Events PROVE PassesInv(d)'
  <2>1. PassesInv(d)
    BY DEF RunInv
  <2>2. CASE d # e
    BY <1>4, <1>5, <2>1, <2>2 DEF PassesInv, AllRanked
  <2>3. CASE d = e
    <3>1. labeled[d] = None /\ announced[d] # None /\ RanksMatch(announced[d], ranks[d])
      BY <1>1, <1>6, <2>1, <2>3 DEF PassesInv
    <3>2. RanksMatch(announced[d], ranks'[d])
      <4>1. Len(ranks'[d]) = Len(ranks[d]) + 1 /\ Len(ranks'[d]) <= Len(announced[d])
        BY <1>1, <1>3, <1>4, <2>3
      <4>2. \A k \in DOMAIN ranks'[d] :
              \/ k \in DOMAIN ranks[d] /\ ranks'[d][k] = ranks[d][k]
              \/ k = Len(ranks[d]) + 1 /\ ranks'[d][k] = ra
        BY <1>3, <1>4, <2>3
      <4>3. ra.pool_offset = announced[d][Len(ranks[d]) + 1].pool_offset
        BY <2>3
      <4> HIDE DEF ra
      <4>4. QED
        BY <3>1, <4>1, <4>2, <4>3 DEF RanksMatch
    <3>3. QED
      BY <1>5, <2>1, <3>1, <3>2 DEF PassesInv
  <2>4. QED
    BY <2>2, <2>3
<1>8. ASSUME outcome = "running" PROVE RunningInv'
  <2>1. RunningInv /\ input.event \in Events
    BY <1>8, RunFacts DEF RunInv, IInv, LabelerInput
  <2>2. mode = "full" => input.event # e
    BY <1>6, <2>1 DEF RunningInv
  <2>3. RunsTo(tree, input, mode, Now)'
    BY <1>5, <2>1 DEF RunningInv
  <2>4. QED
    BY <1>4, <1>5, <2>1, <2>2, <2>3 DEF RunningInv, AllRanked
<1>9. QED
  BY <1>5, <1>7, <1>8 DEF RunInv

LEMMA StutterRuns ==
  ASSUME RunInv, UNCHANGED vars
  PROVE  RunInv'
<1>1. UNCHANGED <<tree, input, mode, at, event, frames, outcome,
                  announced, ranks, labeled>>
  BY DEF vars, labelerVars, callerVars
<1>2. Now' = Now
  BY <1>1 DEF Now
<1>3. outcome = "running" => RunningInv'
  <2>1. outcome = "running" => RunsTo(tree, input, mode, Now)'
    BY <1>1, <1>2 DEF RunInv, RunningInv
  <2>2. QED
    BY <1>1, <2>1 DEF RunInv, RunningInv, AllRanked
<1>4. \A d \in Events : PassesInv(d)'
  BY <1>1 DEF RunInv, PassesInv, AllRanked
<1>5. QED
  BY <1>1, <1>3, <1>4 DEF RunInv

LEMMA RunInvHolds == Spec => [](IInv /\ RunInv)
<1>1. IInv /\ RunInv /\ [Next]_vars => RunInv'
  BY PassRuns, AnswerRuns, RankRuns, StutterRuns DEF Next
<1>2. QED
  BY IInvHolds, InitRunInv, <1>1, PTL DEF Spec

LEMMA InvPassesAgree == IInv /\ RunInv => PassesAgree
<1> SUFFICES ASSUME IInv, RunInv, NEW e \in Events, labeled[e] # None
             PROVE  PoolsOfPeople(tree, labeled[e]) = announced[e]
  BY DEF PassesAgree
<1>1. /\ Announces(tree, e, announced[e]) /\ Labels(tree, e, ranks[e], labeled[e])
      /\ ranks[e] \in Seq(RankAssignment) /\ tree \in Trees
  BY DEF RunInv, PassesInv, AllRanked, IInv, RanksInv, CallInv, LabelerTypeOK
<1>2. PICK c : /\ RunsTo(tree, Request(e, <<>>), "pool_identity", c)
               /\ Final(c) /\ c.event.pools = announced[e]
  BY <1>1 DEF Announces
<1>3. PICK d : /\ RunsTo(tree, Request(e, ranks[e]), "full", d)
               /\ Final(d) /\ d.event.people = labeled[e]
  BY <1>1 DEF Labels
<1>4. c.event.pools = PoolsOfPeople(tree, d.event.people)
  BY <1>1, <1>2, <1>3, EndsAgree, Zenon
<1>5. QED
  BY <1>2, <1>3, <1>4

\* Pass 2 takes every event where pass 1 took it: the pools of its ranked
\* people are those that were announced, one by one and in that order.
THEOREM PassesTakeOnePath == Spec => []PassesAgree
  BY RunInvHolds, InvPassesAgree, PTL

\* A caller that ranks all pools that were announced before it asks for the
\* people of an event never gets the error for missing ranks.
THEOREM RanksAlwaysSuffice == Spec => []RanksSuffice
<1>1. RunInv => RanksSuffice
  BY DEF RunInv, RanksSuffice
<1>2. QED
  BY RunInvHolds, <1>1, PTL

\* A repeated pass has the same answer, whatever happened in between.
THEOREM PassesRepeat == Spec => Repeatable
<1> DEFINE Same == \A e \in Events :
             /\ announced[e] # None => announced'[e] = announced[e]
             /\ labeled[e] # None => labeled'[e] = labeled[e]
<1>1. IInv /\ RunInv /\ [Next]_vars => [Same]_vars
  <2> SUFFICES ASSUME IInv, RunInv, Next PROVE Same
    OBVIOUS
  <2>1. CASE Pass1 \/ Pass2 \/ Rank
    BY <2>1 DEF Pass1, Pass2, Rank, callerVars
  <2>2. CASE Answer
    BY <2>2, ReturnsSame
  <2>3. QED
    BY <2>1, <2>2 DEF Next
<1>2. QED
  BY RunInvHolds, <1>1, PTL DEF Spec, Repeatable
-----------------------------------------------------------------------------
(***************************************************************************)
(* Functions that are defined by recursion on the height of a node.        *)
(***************************************************************************)
\* F makes a function on D from another, f is its fixed point.
Revises(F, D, R) == F \in [[D -> R] -> [D -> R]]
IsFixed(f, F, D, R) == f \in [D -> R] /\ f = F[f]

\* F at d looks at nothing but what is lower than d.
LooksDown(F, D, R, h) ==
  \A f, g \in [D -> R] : \A d \in D :
    (\A e \in D : h[e] < h[d] => f[e] = g[e]) => F[f][d] = F[g][d]

\* What holds of a node when it holds of all lower ones holds of every node.
LEMMA LowestFirst ==
  ASSUME NEW D, NEW K \in Nat, NEW h \in [D -> 0 .. K], NEW T,
         \A d \in D : (\A e \in D : h[e] < h[d] => e \in T) => d \in T
  PROVE  D \subseteq T
<1> DEFINE H == {h[d] : d \in D \ T}
<1>1. H \in SUBSET Nat
  OBVIOUS
<1>2. ASSUME H # {} PROVE FALSE
  <2>1. PICK m \in H : \A k \in H : m <= k
    <3> HIDE DEF H
    <3>1. QED
      BY <1>1, <1>2, NatMinimum
  <2>2. PICK d \in D \ T : h[d] = m
    BY <2>1
  <2>3. ASSUME NEW e \in D, h[e] < h[d], e \notin T PROVE FALSE
    <3>1. h[e] \in H
      BY <2>3
    <3>2. m <= h[e]
      BY <2>1, <3>1
    <3>3. h[e] \in Nat /\ h[d] \in Nat
      OBVIOUS
    <3>4. QED
      BY <2>2, <2>3, <3>2, <3>3
  <2>4. QED
    BY <2>2, <2>3
<1>3. QED
  BY <1>2

\* There is a function that such a definition defines.
LEMMA RecursionByHeight ==
  ASSUME NEW D, NEW R, NEW r \in R, NEW K \in Nat, NEW h \in [D -> 0 .. K],
         NEW F, Revises(F, D, R), LooksDown(F, D, R, h)
  PROVE  \E f : IsFixed(f, F, D, R)
<1> USE DEF Revises, IsFixed
<1> DEFINE S == [D -> R]
           n == K + 2
           f0 == [d \in D |-> r]
           step == [k \in 1 .. n |-> F]
<1>1. PICK g : IsBySteps(g, n, S, f0, step)
  <2>1. n \in Nat /\ f0 \in S /\ step \in [1 .. n -> [S -> S]]
    OBVIOUS
  <2> HIDE DEF n, S, f0, step
  <2>2. QED
    BY <2>1, FunctionBySteps
<1>2. g \in [0 .. n -> S] /\ \A k \in 1 .. n : g[k] = F[g[k - 1]]
  BY <1>1 DEF IsBySteps
<1> DEFINE T == {k \in 0 .. K + 1 :
                   \A d \in D : h[d] < k => g[k][d] = g[k + 1][d]}
<1>3. 0 \in T
  <2>1. \A d \in D : ~ (h[d] < 0)
    OBVIOUS
  <2>2. QED
    BY <2>1
<1>4. ASSUME NEW k \in 1 .. K + 1, k - 1 \in T PROVE k \in T
  <2>1. ASSUME NEW d \in D, h[d] < k PROVE g[k][d] = g[k + 1][d]
    <3>1. /\ g[k] = F[g[k - 1]] /\ g[k + 1] = F[g[k]]
          /\ g[k - 1] \in S /\ g[k] \in S
      <4>1. k \in 1 .. n /\ k + 1 \in 1 .. n /\ (k + 1) - 1 = k
        OBVIOUS
      <4>2. k - 1 \in 0 .. n /\ k \in 0 .. n
        OBVIOUS
      <4> HIDE DEF n, S
      <4>3. QED
        BY <1>2, <4>1, <4>2
    <3>2. ASSUME NEW e \in D, h[e] < h[d] PROVE g[k - 1][e] = g[k][e]
      <4>1. h[e] < k - 1
        BY <2>1, <3>2
      <4>2. (k - 1) + 1 = k
        OBVIOUS
      <4>3. QED
        BY <1>4, <4>1, <4>2
    <3>3. F[g[k - 1]][d] = F[g[k]][d]
      BY <3>1, <3>2 DEF LooksDown
    <3>4. QED
      BY <3>1, <3>3
  <2>2. QED
    BY <2>1
<1>5. \A k \in 0 .. K + 1 : k \in T
  <2> HIDE DEF T
  <2>1. QED
    BY <1>3, <1>4, UpTo
<1>6. g[K + 1] \in S /\ g[K + 2] \in S /\ g[K + 2] = F[g[K + 1]]
  <2>1. K + 2 \in 1 .. n /\ (K + 2) - 1 = K + 1 /\ K + 1 \in 0 .. n /\ K + 2 \in 0 .. n
    OBVIOUS
  <2> HIDE DEF n, S
  <2>2. QED
    BY <1>2, <2>1
<1>7. \A d \in D : g[K + 1][d] = g[K + 2][d]
  <2>1. K + 1 \in T /\ (K + 1) + 1 = K + 2
    <3> HIDE DEF T
    <3>1. QED
      BY <1>5
  <2>2. \A d \in D : h[d] < K + 1
    OBVIOUS
  <2>3. QED
    BY <2>1, <2>2
<1>8. g[K + 1] = g[K + 2]
  BY <1>6, <1>7
<1>9. QED
  BY <1>6, <1>8
-----------------------------------------------------------------------------
(***************************************************************************)
(* What a node means is defined, and typed.                                *)
(***************************************************************************)
MeaningErrors ==
  {"no condition", "update", "multiplicity", "label", "no rank",
   "unranked mode", "unranked space"}
Successes ==
  [error : {"none"}, state : State, people : Seq(VirtualPersonActivity),
   pools : Seq(PoolAssignment)]
Failures == {FailsWith(e) : e \in MeaningErrors}
Results == Successes \cup Failures
Meanings == [State -> Results]

\* A call in model tree.
Calling == tree \in Trees /\ input \in LabelerInput /\ mode \in Modes

LEMMA BringsFacts ==
  ASSUME NEW s \in State, NEW people \in Seq(VirtualPersonActivity),
         NEW pools \in Seq(PoolAssignment)
  PROVE  /\ Brings(s, people, pools) \in Results
         /\ Brings(s, people, pools).error = "none"
         /\ Brings(s, people, pools).state = s
         /\ Brings(s, people, pools).people = people
         /\ Brings(s, people, pools).pools = pools
<1>1. Brings(s, people, pools) \in Successes
  BY DEF Brings, Successes
<1>2. QED
  BY <1>1 DEF Brings, Results

LEMMA BringsNothing ==
  ASSUME NEW s \in State
  PROVE  /\ Brings(s, <<>>, <<>>) \in Results
         /\ Brings(s, <<>>, <<>>).error = "none"
         /\ Brings(s, <<>>, <<>>).state = s
         /\ Brings(s, <<>>, <<>>).people = <<>>
         /\ Brings(s, <<>>, <<>>).pools = <<>>
<1>1. <<>> \in Seq(VirtualPersonActivity) /\ <<>> \in Seq(PoolAssignment)
  OBVIOUS
<1>2. QED
  BY <1>1, BringsFacts

LEMMA FailsFacts ==
  ASSUME NEW e \in MeaningErrors
  PROVE  /\ FailsWith(e) \in Results /\ FailsWith(e).error = e /\ e # "none"
         /\ e # "idle" /\ e # "running" /\ e # "ok"
  BY DEF FailsWith, Results, Failures, MeaningErrors

LEMMA ResultFacts ==
  ASSUME NEW r \in Results
  PROVE  /\ r.error = "none" => /\ r.state \in State
                                /\ r.people \in Seq(VirtualPersonActivity)
                                /\ r.pools \in Seq(PoolAssignment)
                                /\ r = Brings(r.state, r.people, r.pools)
         /\ r.error # "none" => r.error \in MeaningErrors /\ r = FailsWith(r.error)
<1>1. CASE r \in Successes
  <2>1. /\ r.error = "none" /\ r.state \in State
        /\ r.people \in Seq(VirtualPersonActivity) /\ r.pools \in Seq(PoolAssignment)
    BY <1>1 DEF Successes
  <2>2. r = [error |-> r.error, state |-> r.state, people |-> r.people,
             pools |-> r.pools]
    BY <1>1 DEF Successes
  <2>3. QED
    BY <2>1, <2>2 DEF Brings
<1>2. CASE r \in Failures
  <2>1. PICK e \in MeaningErrors : r = FailsWith(e)
    BY <1>2 DEF Failures
  <2>2. QED
    BY <2>1, FailsFacts
<1>3. QED
  BY <1>1, <1>2 DEF Results

LEMMA JoinTyped ==
  ASSUME NEW a \in Results, NEW b \in Results
  PROVE  /\ Join(a, b) \in Results
         /\ a.error # "none" => Join(a, b) = a
         /\ a.error = "none" /\ b.error # "none" => Join(a, b) = b
         /\ a.error = "none" /\ b.error = "none" =>
              Join(a, b) = Brings(a.state, a.people \o b.people, a.pools \o b.pools)
<1>1. CASE a.error = "none" /\ b.error = "none"
  <2>1. /\ a.state \in State
        /\ a.people \o b.people \in Seq(VirtualPersonActivity)
        /\ a.pools \o b.pools \in Seq(PoolAssignment)
    <3>1. /\ a.people \in Seq(VirtualPersonActivity)
          /\ b.people \in Seq(VirtualPersonActivity)
          /\ a.pools \in Seq(PoolAssignment) /\ b.pools \in Seq(PoolAssignment)
          /\ a.state \in State
      BY <1>1, ResultFacts
    <3>2. QED
      BY <3>1
  <2>2. QED
    BY <1>1, <2>1, BringsFacts DEF Join
<1>2. CASE a.error # "none" \/ b.error # "none"
  BY <1>2 DEF Join
<1>3. QED
  BY <1>1, <1>2

\* What a leaf brings.
LEMMA PersonTyped ==
  ASSUME NEW s \in State, NEW n \in Nodes, NEW vid \in Nat, NEW ranked \in BOOLEAN
  PROVE  PersonOf(s, n, vid, ranked) \in Results
<1> DEFINE p == [vid |-> vid, leaf |-> n, ranked |-> ranked]
<1>1. p \in VirtualPersonActivity
  BY DEF VirtualPersonActivity
<1> HIDE DEF p
<1>2. <<p>> \in Seq(VirtualPersonActivity) /\ <<>> \in Seq(PoolAssignment)
  BY <1>1
<1>3. Brings(s, <<p>>, <<>>) \in Results /\ FailsWith("label") \in Results
  BY <1>2, BringsFacts, FailsFacts DEF MeaningErrors
<1>4. QED
  BY <1>3 DEF PersonOf, p

LEMMA RankedTyped ==
  ASSUME Calling, NEW n \in Nodes, tree[n].kind = "ranked", NEW s \in State
  PROVE  RankedMeaning(n, s) \in Results
<1> DEFINE leaf == tree[n]
           matches == {k \in DOMAIN input.ranks :
                         input.ranks[k].pool_offset = leaf.pool_offset}
           first == CHOOSE k \in matches : \A j \in matches : k <= j
           rank == input.ranks[first].local_rank
           within == leaf.unranked_mode = "FULL_POOL"
           vid == leaf.pool_offset + leaf.jump[s.fp]
                    + (IF within THEN 0 ELSE leaf.ranked_size)
<1>1. /\ leaf.pool_offset \in Nat /\ leaf.pool_size \in Nat
      /\ leaf.ranked_size \in Nat
      /\ leaf.permute \in [0 .. leaf.ranked_size - 1 -> 0 .. leaf.ranked_size - 1]
      /\ leaf.jump \in [Fingerprints -> Nat]
  <2>1. Ranked(leaf)
    BY NodeFacts DEF Calling
  <2>2. QED
    BY <2>1 DEF Ranked
<1>2. input.ranks \in Seq(RankAssignment)
  BY DEF Calling, LabelerInput
<1>3. ASSUME matches # {} PROVE rank \in Nat
  <2>1. matches \in SUBSET Nat /\ matches \subseteq DOMAIN input.ranks
    BY <1>2
  <2>2. \E k \in matches : \A j \in matches : k <= j
    <3> HIDE DEF matches
    <3>1. QED
      BY <1>3, <2>1, NatMinimum
  <2>3. first \in matches
    <3> HIDE DEF matches
    <3>1. QED
      BY <2>2
  <2>4. input.ranks[first] \in RankAssignment
    <3> HIDE DEF first, matches
    <3>1. QED
      BY <1>2, <2>1, <2>3
  <2>5. QED
    BY <2>4 DEF RankAssignment
<1>4. PoolAssignmentOf(leaf) \in PoolAssignment
  BY <1>1 DEF PoolAssignmentOf, PoolAssignment
<1>5. Brings(s, <<>>, <<PoolAssignmentOf(leaf)>>) \in Results
  <2>1. <<PoolAssignmentOf(leaf)>> \in Seq(PoolAssignment)
        /\ <<>> \in Seq(VirtualPersonActivity)
    BY <1>4
  <2>2. QED
    BY <2>1, BringsFacts
<1>6. ASSUME matches # {}, rank < leaf.ranked_size
      PROVE  PersonOf(s, n, leaf.pool_offset + leaf.permute[rank], TRUE) \in Results
  <2>1. rank \in Nat
    BY <1>3, <1>6
  <2> HIDE DEF rank, leaf, matches
  <2>2. leaf.permute[rank] \in Nat
    <3>1. rank \in 0 .. leaf.ranked_size - 1
      BY <1>1, <1>6, <2>1
    <3>2. leaf.permute[rank] \in 0 .. leaf.ranked_size - 1
      BY <1>1, <3>1
    <3>3. QED
      BY <3>2
  <2>3. leaf.pool_offset + leaf.permute[rank] \in Nat
    BY <1>1, <2>2
  <2>4. QED
    BY <2>3, PersonTyped
<1>7. PersonOf(s, n, vid, FALSE) \in Results
  <2>1. s.fp \in Fingerprints
    BY DEF State
  <2>2. leaf.jump[s.fp] \in Nat
    BY <1>1, <2>1
  <2>3. vid \in Nat
    BY <1>1, <2>2
  <2>4. QED
    BY <2>3, PersonTyped
<1>8. /\ FailsWith("no rank") \in Results /\ FailsWith("unranked mode") \in Results
      /\ FailsWith("unranked space") \in Results
  BY FailsFacts DEF MeaningErrors
<1> DEFINE person == PersonOf(s, n, leaf.pool_offset + leaf.permute[rank], TRUE)
           unranked == PersonOf(s, n, vid, FALSE)
<1>9. RankedMeaning(n, s) =
        IF mode = "pool_identity" THEN Brings(s, <<>>, <<PoolAssignmentOf(leaf)>>)
        ELSE IF input.ranks # <<>> /\ matches = {} THEN FailsWith("no rank")
        ELSE IF matches # {} /\ rank < leaf.ranked_size THEN person
        ELSE IF leaf.unranked_mode = "UNSPECIFIED" THEN FailsWith("unranked mode")
        ELSE IF ~ within /\ leaf.ranked_size = leaf.pool_size
        THEN FailsWith("unranked space")
        ELSE unranked
  BY DEF RankedMeaning
<1>10. matches # {} /\ rank < leaf.ranked_size => person \in Results
  BY <1>6
<1> HIDE DEF person, unranked, matches, rank, first, vid, leaf, within
<1>11. unranked \in Results
  BY <1>7 DEF unranked
<1>12. QED
  BY <1>5, <1>8, <1>9, <1>10, <1>11
-----------------------------------------------------------------------------
MeansBelow(M, n) == \A c \in Callees(tree[n]) : M[c] \in Meanings

\* Branch nodes.
LEMMA BranchFacts ==
  ASSUME Calling, NEW n \in Nodes, tree[n].kind \in {"updates", "multiplicity"}
  PROVE  /\ Branching(tree[n])
         /\ tree[n].kind = "updates" => Updating(tree[n])
         /\ tree[n].kind = "multiplicity" => Cloning(tree[n])
         /\ Children(tree[n]) \subseteq Callees(tree[n])
         /\ Callees(tree[n]) \subseteq Nodes
         /\ tree[n].kind = "updates" =>
              UpdateTrees(tree[n]) \subseteq Callees(tree[n])
<1>1. /\ Branching(tree[n])
      /\ tree[n].kind = "updates" => Updating(tree[n])
      /\ tree[n].kind = "multiplicity" => Cloning(tree[n])
  BY NodeFacts DEF Calling
<1>2. CASE tree[n].kind = "updates"
  <2>1. Callees(tree[n]) = Children(tree[n]) \cup UpdateTrees(tree[n])
    BY <1>2 DEF Callees
  <2>2. Children(tree[n]) \subseteq Nodes
    BY <1>1 DEF Children, Branching
  <2>3. UpdateTrees(tree[n]) \subseteq Nodes
    BY <1>1, <1>2 DEF UpdateTrees, Updating
  <2>4. QED
    BY <1>1, <2>1, <2>2, <2>3
<1>3. CASE tree[n].kind = "multiplicity"
  <2>1. Callees(tree[n]) = Children(tree[n])
    BY <1>3 DEF Callees
  <2>2. Children(tree[n]) \subseteq Nodes
    BY <1>1 DEF Children, Branching
  <2>3. QED
    BY <1>1, <1>3, <2>1, <2>2
<1>4. QED
  BY <1>2, <1>3

LEMMA ChildFacts ==
  ASSUME Calling, NEW n \in Nodes, tree[n].kind \in {"updates", "multiplicity"},
         NEW s \in State
  PROVE  /\ tree[n].select[s] # 0 =>
              tree[n].children[tree[n].select[s]] \in Callees(tree[n]) \cap Nodes
         /\ \A M : MeansBelow(M, n) => ChildMeaning(M, n, s) \in Results
<1>1. Branching(tree[n]) /\ Children(tree[n]) \subseteq Callees(tree[n])
      /\ Callees(tree[n]) \subseteq Nodes
  BY BranchFacts
<1> DEFINE k == tree[n].select[s]
           c == tree[n].children[k]
<1>2. k # 0 => c \in Callees(tree[n])
  <2>1. k \in 0 .. Len(tree[n].children) /\ tree[n].children \in Seq(Nodes)
    BY <1>1 DEF Branching
  <2>2. k # 0 => k \in DOMAIN tree[n].children
    BY <2>1
  <2>3. k # 0 => c \in Children(tree[n])
    BY <2>2 DEF Children
  <2>4. QED
    BY <1>1, <2>3
<1>3. ASSUME NEW M, MeansBelow(M, n) PROVE ChildMeaning(M, n, s) \in Results
  <2>1. CASE k = 0
    BY <2>1, FailsFacts DEF ChildMeaning, MeaningErrors
  <2>2. CASE k # 0
    <3>1. M[c] \in Meanings
      BY <1>2, <1>3, <2>2 DEF MeansBelow
    <3> HIDE DEF c
    <3>2. M[c][s] \in Results
      BY <3>1 DEF Meanings
    <3>3. QED
      BY <2>2, <3>2 DEF ChildMeaning, c
  <2>3. QED
    BY <2>1, <2>2
<1>4. QED
  BY <1>1, <1>2, <1>3

\* One more updater.
LEMMA ThenUpdateTyped ==
  ASSUME Calling, NEW n \in Nodes, tree[n].kind = "updates",
         NEW M, MeansBelow(M, n), NEW r \in Results,
         NEW k \in 1 .. Len(tree[n].updaters)
  PROVE  ThenUpdate(M, r, tree[n].updaters[k]) \in Results
<1> DEFINE u == tree[n].updaters[k]
<1>1. /\ k \in DOMAIN tree[n].updaters
      /\ UpdateTrees(tree[n]) \subseteq Callees(tree[n])
      /\ \/ u.by = "tree"
         \/ u.by = "function" /\ u.f \in [State -> State \cup {Failed}]
  BY BranchFacts DEF Updating
<1>2. CASE r.error # "none"
  BY <1>2 DEF ThenUpdate
<1>3. CASE r.error = "none" /\ u.by = "tree"
  <2>1. u.root \in UpdateTrees(tree[n])
    BY <1>1, <1>3 DEF UpdateTrees
  <2>2. M[u.root] \in Meanings /\ r.state \in State
    BY <1>1, <1>3, <2>1, ResultFacts DEF MeansBelow
  <2>3. M[u.root][r.state] \in Results
    BY <2>2 DEF Meanings
  <2>4. QED
    BY <1>3, <2>3 DEF ThenUpdate
<1>4. CASE r.error = "none" /\ u.by = "function"
  <2>1. r.state \in State /\ u.f \in [State -> State \cup {Failed}]
    BY <1>1, <1>4, ResultFacts
  <2>2. CASE u.f[r.state] = Failed
    BY <1>4, <2>2, FailsFacts DEF ThenUpdate, MeaningErrors
  <2>3. CASE u.f[r.state] # Failed
    <3>1. u.f[r.state] \in State
      BY <2>1, <2>3
    <3>2. Brings(u.f[r.state], <<>>, <<>>) \in Results
      BY <3>1, BringsNothing
    <3>3. QED
      BY <1>4, <2>3, <3>2 DEF ThenUpdate
  <2>4. QED
    BY <2>2, <2>3
<1>5. QED
  BY <1>1, <1>2, <1>3, <1>4

\* u has the results of the first updaters.
IsFirstUpdates(M, n, s, u) ==
  /\ u \in [0 .. Len(tree[n].updaters) -> Results]
  /\ u[0] = Brings(s, <<>>, <<>>)
  /\ \A k \in 1 .. Len(tree[n].updaters) :
       u[k] = ThenUpdate(M, u[k - 1], tree[n].updaters[k])

LEMMA FirstUpdatesFacts ==
  ASSUME Calling, NEW n \in Nodes, tree[n].kind = "updates", NEW s \in State,
         NEW M, MeansBelow(M, n)
  PROVE  IsFirstUpdates(M, n, s, FirstUpdates(M, n, s))
<1> DEFINE len == Len(tree[n].updaters)
           next(k, r) == ThenUpdate(M, r, tree[n].updaters[k])
           start == Brings(s, <<>>, <<>>)
           h == [k \in 1 .. len |-> [r \in Results |-> next(k, r)]]
           F(f) == [k \in 0 .. len |-> IF k = 0 THEN start ELSE next(k, f[k - 1])]
           v == CHOOSE f : f = F(f)
<1>1. len \in Nat /\ start \in Results
  <2>1. len \in Nat
    BY BranchFacts DEF Updating
  <2>2. QED
    BY <2>1, BringsNothing
<1>2. \A k \in 1 .. len, r \in Results : next(k, r) \in Results
  BY ThenUpdateTyped
<1>3. FirstUpdates(M, n, s) = v
  BY DEF FirstUpdates
<1>4. v \in [0 .. len -> Results] /\ v[0] = start
      /\ \A k \in 1 .. len : v[k] = next(k, v[k - 1])
  <2> HIDE DEF len, next, start
  <2>1. h \in [1 .. len -> [Results -> Results]]
        /\ \A k \in 1 .. len, r \in Results : h[k][r] = next(k, r)
    BY <1>2
  <2> HIDE DEF h
  <2>2. PICK u : IsBySteps(u, len, Results, start, h)
    BY <1>1, <2>1, FunctionBySteps
  <2>3. u \in [0 .. len -> Results] /\ u[0] = start
        /\ \A k \in 1 .. len : u[k] = h[k][u[k - 1]]
    BY <2>2 DEF IsBySteps
  <2>4. ASSUME NEW k \in 1 .. len PROVE u[k] = next(k, u[k - 1])
    <3>1. k - 1 \in 0 .. len
      BY <1>1
    <3>2. u[k - 1] \in Results
      BY <2>3, <3>1
    <3>3. QED
      BY <2>1, <2>3, <3>2
  <2>5. u = F(u)
    <3>1. \A k \in 0 .. len : k = 0 \/ k \in 1 .. len
      BY <1>1
    <3>2. ASSUME NEW k \in 0 .. len
          PROVE  u[k] = IF k = 0 THEN start ELSE next(k, u[k - 1])
      BY <2>3, <2>4, <3>1, Zenon
    <3>3. QED
      BY <2>3, <3>2, Zenon
  <2> HIDE DEF F
  <2>6. v = F(v)
    BY <2>5, Zenon
  <2> HIDE DEF v
  <2> USE DEF F
  <2>7. \A k \in 0 .. len : v[k] = IF k = 0 THEN start ELSE next(k, v[k - 1])
    BY <2>6, Zenon
  <2> DEFINE T == {k \in 0 .. len : v[k] = u[k]}
  <2>8. 0 \in T
    BY <1>1, <2>3, <2>7
  <2>9. ASSUME NEW k \in 1 .. len, k - 1 \in T PROVE k \in T
    BY <1>1, <2>4, <2>7, <2>9
  <2>10. \A k \in 0 .. len : k \in T
    <3> HIDE DEF T
    <3>1. QED
      BY <1>1, <2>8, <2>9, UpTo
  <2>11. v = u
    BY <2>3, <2>6, <2>10
  <2>12. QED
    BY <2>3, <2>4, <2>11
<1>5. QED
  BY <1>3, <1>4 DEF IsFirstUpdates

\* The clones of an event.
LEMMA CloneStates ==
  ASSUME Calling, NEW n \in Nodes, tree[n].kind = "multiplicity", NEW s \in State
  PROVE  /\ tree[n].clone_count[s] # Failed => tree[n].clone_count[s] \in 0 .. MaxClones
         /\ tree[n].clone_count[s] # Failed => tree[n].clone_count[s] \in Nat
         /\ \A i \in 0 .. tree[n].clone_count[s] - 1 :
              tree[n].clone_count[s] # Failed => CloneState(n, s, i) \in State
         /\ tree[n].clone_count[s] = 1 => CloneState(n, s, 0) \in State
<1>1. Cloning(tree[n]) /\ MaxClones \in Nat /\ s.fp \in Fingerprints
      /\ s.fields \in Fields
  BY BranchFacts, TreesAssumption DEF State
<1>2. tree[n].clone_count[s] # Failed => tree[n].clone_count[s] \in 0 .. MaxClones
  BY <1>1 DEF Cloning
<1>3. \A i \in 0 .. MaxClones : CloneState(n, s, i) \in State
  BY <1>1, CloneStateFacts DEF Calling
<1>4. QED
  BY <1>1, <1>2, <1>3

\* u has the results of the first clones.
IsFirstClones(M, n, s, u) ==
  /\ u \in [0 .. tree[n].clone_count[s] -> Results]
  /\ u[0] = Brings(s, <<>>, <<>>)
  /\ \A k \in 1 .. tree[n].clone_count[s] :
       u[k] = Join(u[k - 1], ChildMeaning(M, n, CloneState(n, s, k - 1)))

LEMMA FirstClonesFacts ==
  ASSUME Calling, NEW n \in Nodes, tree[n].kind = "multiplicity", NEW s \in State,
         tree[n].clone_count[s] # Failed,
         NEW M, MeansBelow(M, n)
  PROVE  IsFirstClones(M, n, s, FirstClones(M, n, s))
<1> DEFINE len == tree[n].clone_count[s]
           next(k, r) == Join(r, ChildMeaning(M, n, CloneState(n, s, k - 1)))
           start == Brings(s, <<>>, <<>>)
           h == [k \in 1 .. len |-> [r \in Results |-> next(k, r)]]
           F(f) == [k \in 0 .. len |-> IF k = 0 THEN start ELSE next(k, f[k - 1])]
           v == CHOOSE f : f = F(f)
<1>1. len \in Nat /\ start \in Results
  <2>1. len \in Nat
    BY CloneStates
  <2>2. QED
    BY <2>1, BringsNothing
<1>2. \A k \in 1 .. len, r \in Results : next(k, r) \in Results
  <2> SUFFICES ASSUME NEW k \in 1 .. len, NEW r \in Results
               PROVE  next(k, r) \in Results
    OBVIOUS
  <2>1. k - 1 \in 0 .. len - 1
    BY CloneStates
  <2>2. CloneState(n, s, k - 1) \in State
    BY <2>1, CloneStates
  <2>3. ChildMeaning(M, n, CloneState(n, s, k - 1)) \in Results
    BY <2>2, ChildFacts
  <2>4. QED
    BY <2>3, JoinTyped
<1>3. FirstClones(M, n, s) = v
  BY DEF FirstClones
<1>4. v \in [0 .. len -> Results] /\ v[0] = start
      /\ \A k \in 1 .. len : v[k] = next(k, v[k - 1])
  <2> HIDE DEF len, next, start
  <2>1. h \in [1 .. len -> [Results -> Results]]
        /\ \A k \in 1 .. len, r \in Results : h[k][r] = next(k, r)
    BY <1>2
  <2> HIDE DEF h
  <2>2. PICK u : IsBySteps(u, len, Results, start, h)
    BY <1>1, <2>1, FunctionBySteps
  <2>3. u \in [0 .. len -> Results] /\ u[0] = start
        /\ \A k \in 1 .. len : u[k] = h[k][u[k - 1]]
    BY <2>2 DEF IsBySteps
  <2>4. ASSUME NEW k \in 1 .. len PROVE u[k] = next(k, u[k - 1])
    <3>1. k - 1 \in 0 .. len
      BY <1>1
    <3>2. u[k - 1] \in Results
      BY <2>3, <3>1
    <3>3. QED
      BY <2>1, <2>3, <3>2
  <2>5. u = F(u)
    <3>1. \A k \in 0 .. len : k = 0 \/ k \in 1 .. len
      BY <1>1
    <3>2. ASSUME NEW k \in 0 .. len
          PROVE  u[k] = IF k = 0 THEN start ELSE next(k, u[k - 1])
      BY <2>3, <2>4, <3>1, Zenon
    <3>3. QED
      BY <2>3, <3>2, Zenon
  <2> HIDE DEF F
  <2>6. v = F(v)
    BY <2>5, Zenon
  <2> HIDE DEF v
  <2> USE DEF F
  <2>7. \A k \in 0 .. len : v[k] = IF k = 0 THEN start ELSE next(k, v[k - 1])
    BY <2>6, Zenon
  <2> DEFINE T == {k \in 0 .. len : v[k] = u[k]}
  <2>8. 0 \in T
    BY <1>1, <2>3, <2>7
  <2>9. ASSUME NEW k \in 1 .. len, k - 1 \in T PROVE k \in T
    BY <1>1, <2>4, <2>7, <2>9
  <2>10. \A k \in 0 .. len : k \in T
    <3> HIDE DEF T
    <3>1. QED
      BY <1>1, <2>8, <2>9, UpTo
  <2>11. v = u
    BY <2>3, <2>6, <2>10
  <2>12. QED
    BY <2>3, <2>4, <2>11
<1>5. QED
  BY <1>3, <1>4 DEF IsFirstClones
-----------------------------------------------------------------------------
\* The meaning of a node is typed if those below it are.
LEMMA NodeTyped ==
  ASSUME Calling, NEW n \in Nodes, NEW s \in State, NEW M, MeansBelow(M, n)
  PROVE  NodeMeaning(M, n, s) \in Results
<1>1. CASE tree[n].kind = "stop"
  BY <1>1, BringsNothing DEF NodeMeaning
<1>2. CASE tree[n].kind = "population"
  <2>1. tree[n].vid \in [Fingerprints -> Nat] /\ s.fp \in Fingerprints
    BY <1>2, NodeFacts DEF Calling, State
  <2>2. tree[n].vid[s.fp] \in Nat
    BY <2>1
  <2>3. PersonOf(s, n, tree[n].vid[s.fp], FALSE) \in Results
    BY <2>2, PersonTyped
  <2>4. QED
    BY <1>2, <2>3, BringsNothing DEF NodeMeaning
<1>3. CASE tree[n].kind = "ranked"
  BY <1>3, RankedTyped DEF NodeMeaning
<1>4. CASE tree[n].kind = "updates"
  <2> DEFINE u == FirstUpdates(M, n, s)
             k == Len(tree[n].updaters)
  <2>1. u \in [0 .. k -> Results] /\ k \in Nat
    BY <1>4, FirstUpdatesFacts, BranchFacts DEF IsFirstUpdates, Updating
  <2>2. u[k] \in Results
    <3>1. k \in 0 .. k
      BY <2>1
    <3> HIDE DEF u, k
    <3>2. QED
      BY <2>1, <3>1
  <2>3. u[k].error = "none" => ChildMeaning(M, n, u[k].state) \in Results
    <3> HIDE DEF u, k
    <3>1. QED
      BY <1>4, <2>2, ResultFacts, ChildFacts
  <2>4. UpdatesMeaning(M, n, s) \in Results
    BY <2>2, <2>3 DEF UpdatesMeaning
  <2>5. QED
    BY <1>4, <2>4 DEF NodeMeaning
<1>5. CASE tree[n].kind = "multiplicity"
  <2> DEFINE count == tree[n].clone_count[s]
  <2>1. CASE count = Failed
    BY <1>5, <2>1, FailsFacts DEF NodeMeaning, ClonesMeaning, MeaningErrors
  <2>2. CASE count = 1
    <3>1. ChildMeaning(M, n, CloneState(n, s, 0)) \in Results
      BY <1>5, <2>2, CloneStates, ChildFacts
    <3>2. count # Failed
      BY <2>2, TreesAssumption
    <3>3. QED
      BY <1>5, <2>2, <3>1, <3>2 DEF NodeMeaning, ClonesMeaning
  <2>3. CASE count \notin {1, Failed}
    <3>1. count \in Nat
      BY <1>5, <2>3, CloneStates
    <3>2. FirstClones(M, n, s) \in [0 .. count -> Results]
      BY <1>5, <2>3, FirstClonesFacts DEF IsFirstClones
    <3>3. FirstClones(M, n, s)[count] \in Results
      <4>1. count \in 0 .. count
        BY <3>1
      <4> HIDE DEF count
      <4>2. QED
        BY <3>2, <4>1
    <3>4. QED
      BY <1>5, <2>3, <3>3 DEF NodeMeaning, ClonesMeaning
  <2>4. QED
    BY <2>1, <2>2, <2>3
<1>6. QED
  BY <1>1, <1>2, <1>3, <1>4, <1>5, TreesAssumption DEF Calling

\* It is the same whatever the others are.
LEMMA NodeAgrees ==
  ASSUME Calling, NEW n \in Nodes, NEW s \in State,
         NEW f, MeansBelow(f, n), NEW g, MeansBelow(g, n),
         \A c \in Callees(tree[n]) : f[c] = g[c]
  PROVE  NodeMeaning(f, n, s) = NodeMeaning(g, n, s)
<1>1. ASSUME tree[n].kind \in {"updates", "multiplicity"}, NEW st \in State
      PROVE  ChildMeaning(f, n, st) = ChildMeaning(g, n, st)
  <2>1. tree[n].select[st] # 0 =>
          tree[n].children[tree[n].select[st]] \in Callees(tree[n])
    BY <1>1, ChildFacts
  <2>2. QED
    BY <2>1 DEF ChildMeaning
<1>2. CASE tree[n].kind = "updates"
  <2> DEFINE u == FirstUpdates(f, n, s)
             v == FirstUpdates(g, n, s)
             len == Len(tree[n].updaters)
             T == {k \in 0 .. len : u[k] = v[k]}
  <2>1. IsFirstUpdates(f, n, s, u) /\ IsFirstUpdates(g, n, s, v)
    BY <1>2, FirstUpdatesFacts
  <2>2. len \in Nat /\ Updating(tree[n])
        /\ UpdateTrees(tree[n]) \subseteq Callees(tree[n])
    BY <1>2, BranchFacts DEF Updating
  <2> HIDE DEF u, v
  <2>3. 0 \in T
    BY <2>1, <2>2 DEF IsFirstUpdates
  <2>4. ASSUME NEW k \in 1 .. len, k - 1 \in T PROVE k \in T
    <3> DEFINE up == tree[n].updaters[k]
    <3>1. u[k] = ThenUpdate(f, u[k - 1], up) /\ v[k] = ThenUpdate(g, u[k - 1], up)
      BY <2>1, <2>4 DEF IsFirstUpdates
    <3>2. up.by = "tree" => up.root \in Callees(tree[n])
      BY <2>2 DEF UpdateTrees, Updating
    <3>3. ThenUpdate(f, u[k - 1], up) = ThenUpdate(g, u[k - 1], up)
      BY <3>2 DEF ThenUpdate
    <3>4. QED
      BY <2>2, <3>1, <3>3
  <2>5. \A k \in 0 .. len : k \in T
    <3> HIDE DEF T, len
    <3>1. QED
      BY <2>2, <2>3, <2>4, UpTo
  <2>6. u[len] = v[len] /\ u[len] \in Results
    <3>1. len \in 0 .. len
      BY <2>2
    <3>2. QED
      BY <2>1, <2>5, <3>1 DEF IsFirstUpdates
  <2>7. u[len].error = "none" =>
          ChildMeaning(f, n, u[len].state) = ChildMeaning(g, n, u[len].state)
    BY <1>1, <1>2, <2>6, ResultFacts
  <2>8. UpdatesMeaning(f, n, s) = UpdatesMeaning(g, n, s)
    BY <2>6, <2>7 DEF UpdatesMeaning, u, v
  <2>9. QED
    BY <1>2, <2>8 DEF NodeMeaning
<1>3. CASE tree[n].kind = "multiplicity"
  <2> DEFINE count == tree[n].clone_count[s]
  <2>1. CASE count = Failed
    BY <1>3, <2>1 DEF NodeMeaning, ClonesMeaning
  <2>2. CASE count = 1
    <3>1. ChildMeaning(f, n, CloneState(n, s, 0)) = ChildMeaning(g, n, CloneState(n, s, 0))
      BY <1>1, <1>3, <2>2, CloneStates
    <3>2. ClonesMeaning(f, n, s) = ClonesMeaning(g, n, s)
      BY <2>2, <3>1, TreesAssumption DEF ClonesMeaning
    <3>3. QED
      BY <1>3, <3>2 DEF NodeMeaning
  <2>3. CASE count \notin {1, Failed}
    <3> DEFINE u == FirstClones(f, n, s)
               v == FirstClones(g, n, s)
               T == {k \in 0 .. count : u[k] = v[k]}
    <3>1. IsFirstClones(f, n, s, u) /\ IsFirstClones(g, n, s, v)
      BY <1>3, <2>3, FirstClonesFacts
    <3>2. count \in Nat
      BY <1>3, <2>3, CloneStates
    <3> HIDE DEF u, v
    <3>3. 0 \in T
      BY <3>1, <3>2 DEF IsFirstClones
    <3>4. ASSUME NEW k \in 1 .. count, k - 1 \in T PROVE k \in T
      <4> DEFINE st == CloneState(n, s, k - 1)
      <4>1. st \in State
        <5>1. k - 1 \in 0 .. count - 1
          BY <3>2
        <5>2. QED
          BY <1>3, <2>3, <5>1, CloneStates
      <4>2. ChildMeaning(f, n, st) = ChildMeaning(g, n, st)
        BY <1>1, <1>3, <4>1
      <4>3. u[k] = Join(u[k - 1], ChildMeaning(f, n, st))
            /\ v[k] = Join(v[k - 1], ChildMeaning(g, n, st))
        BY <3>1, <3>4 DEF IsFirstClones
      <4> HIDE DEF st
      <4>4. u[k - 1] = v[k - 1] /\ k \in 0 .. count
        BY <3>2, <3>4
      <4>5. QED
        BY <4>2, <4>3, <4>4
    <3>5. \A k \in 0 .. count : k \in T
      <4> HIDE DEF T, count
      <4>1. QED
        BY <3>2, <3>3, <3>4, UpTo
    <3>6. u[count] = v[count]
      <4>1. count \in 0 .. count
        BY <3>2
      <4>2. QED
        BY <3>5, <4>1
    <3>7. ClonesMeaning(f, n, s) = ClonesMeaning(g, n, s)
      BY <2>3, <3>6 DEF ClonesMeaning, u, v
    <3>8. QED
      BY <1>3, <3>7 DEF NodeMeaning
  <2>4. QED
    BY <2>1, <2>2, <2>3
<1>4. CASE tree[n].kind \in {"stop", "population", "ranked"}
  BY <1>4 DEF NodeMeaning
<1>5. QED
  BY <1>2, <1>3, <1>4, TreesAssumption DEF Calling
-----------------------------------------------------------------------------
IsHeight(h) ==
  /\ h \in [Nodes -> 0 .. MaxHeight]
  /\ \A n \in Nodes : \A c \in Callees(tree[n]) : h[c] < h[n]

LEMMA CalleesFacts ==
  ASSUME Calling
  PROVE  /\ \A n \in Nodes : Callees(tree[n]) \subseteq Nodes
         /\ MaxHeight \in Nat /\ \E h : IsHeight(h)
<1>1. ASSUME NEW n \in Nodes PROVE Callees(tree[n]) \subseteq Nodes
  <2>1. CASE tree[n].kind \in {"updates", "multiplicity"}
    BY <2>1, BranchFacts
  <2>2. CASE tree[n].kind \notin {"updates", "multiplicity"}
    BY <2>2 DEF Callees
  <2>3. QED
    BY <2>1, <2>2
<1>2. MaxHeight \in Nat /\ \E h : IsHeight(h)
  BY MeaningAssumption DEF Calling, IsHeight
<1>3. QED
  BY <1>1, <1>2

\* Meaning is typed, and is what its definition says.
LEMMA MeaningFacts ==
  ASSUME Calling
  PROVE  /\ Meaning \in [Nodes -> Meanings]
         /\ \A n \in Nodes, s \in State :
              /\ Meaning[n][s] = NodeMeaning(Meaning, n, s)
              /\ Meaning[n][s] \in Results
         /\ \A n \in Nodes : MeansBelow(Meaning, n)
<1> DEFINE G(m) == [n \in Nodes |-> [s \in State |-> NodeMeaning(m, n, s)]]
           D == [Nodes -> Meanings]
           F == [m \in D |-> G(m)]
<1>1. MaxHeight \in Nat /\ \A n \in Nodes : Callees(tree[n]) \subseteq Nodes
  BY CalleesFacts
<1>2. PICK h : IsHeight(h)
  BY CalleesFacts
<1>3. h \in [Nodes -> 0 .. MaxHeight]
      /\ \A n \in Nodes : \A c \in Callees(tree[n]) : h[c] < h[n]
  BY <1>2 DEF IsHeight
<1>4. \A m \in D, n \in Nodes : MeansBelow(m, n)
  BY <1>1 DEF MeansBelow
<1>5. ASSUME NEW m \in D PROVE G(m) \in D
  BY <1>4, NodeTyped DEF Meanings
<1>6. F \in [D -> D]
  BY <1>5
<1>7. LooksDown(F, Nodes, Meanings, h)
  <2> SUFFICES ASSUME NEW f \in D, NEW g \in D, NEW n \in Nodes,
                      \A e \in Nodes : h[e] < h[n] => f[e] = g[e]
               PROVE  F[f][n] = F[g][n]
    BY DEF LooksDown
  <2>1. \A c \in Callees(tree[n]) : f[c] = g[c]
    BY <1>1, <1>3
  <2>2. \A s \in State : NodeMeaning(f, n, s) = NodeMeaning(g, n, s)
    BY <1>4, <2>1, NodeAgrees
  <2>3. QED
    BY <2>2
<1>8. [s \in State |-> FailsWith("label")] \in Meanings
  <2>1. FailsWith("label") \in Results
    BY FailsFacts DEF MeaningErrors
  <2>2. QED
    BY <2>1 DEF Meanings
<1>9. PICK f : IsFixed(f, F, Nodes, Meanings)
  <2>1. Revises(F, Nodes, Meanings)
    BY <1>6 DEF Revises
  <2> HIDE DEF F
  <2>2. QED
    BY <1>1, <1>3, <1>7, <1>8, <2>1, RecursionByHeight, Zenon
<1>10. f = G(f)
  BY <1>9 DEF IsFixed
<1>11. Meaning = CHOOSE m : m = G(m)
  BY DEF Meaning
<1> HIDE DEF F
<1>12. Meaning = G(Meaning)
  <2> DEFINE E(m) == m = G(m)
  <2>1. E(f) /\ Meaning = CHOOSE m : E(m)
    BY <1>10, <1>11
  <2> HIDE DEF E
  <2>2. E(Meaning)
    BY <2>1, Zenon
  <2>3. QED
    BY <2>2 DEF E
<1>13. \A n \in Nodes : Meaning[n] = [s \in State |-> NodeMeaning(Meaning, n, s)]
  BY <1>12, Zenon
<1> DEFINE T == {n \in Nodes : Meaning[n] \in Meanings}
<1>14. Nodes \subseteq T
  <2>1. ASSUME NEW n \in Nodes, \A e \in Nodes : h[e] < h[n] => e \in T
        PROVE  n \in T
    <3>1. MeansBelow(Meaning, n)
      BY <1>1, <1>3, <2>1 DEF MeansBelow
    <3>2. \A s \in State : NodeMeaning(Meaning, n, s) \in Results
      BY <3>1, NodeTyped
    <3>3. QED
      BY <1>13, <3>2 DEF Meanings
  <2> HIDE DEF T
  <2>2. QED
    BY <1>1, <1>3, <2>1, LowestFirst
<1>15. Meaning \in D
  BY <1>12, <1>14
<1>16. \A n \in Nodes, s \in State :
         /\ Meaning[n][s] = NodeMeaning(Meaning, n, s)
         /\ Meaning[n][s] \in Results
  <2> HIDE DEF G
  <2>1. QED
    BY <1>13, <1>15 DEF Meanings
<1>17. QED
  BY <1>4, <1>15, <1>16

\* What is reached from a node: itself, and whatever Apply calls from there.
LEMMA ReachableFacts ==
  ASSUME Calling
  PROVE  /\ \A n \in Nodes : Reachable[n] \subseteq Nodes /\ n \in Reachable[n]
         /\ \A n \in Nodes : \A c \in Callees(tree[n]) : Reachable[c] \subseteq Reachable[n]
         /\ \A n \in Nodes : \A m \in Reachable[n] : Callees(tree[m]) \subseteq Reachable[n]
<1> DEFINE G(f) == [n \in Nodes |-> {n} \cup UNION {f[c] : c \in Callees(tree[n])}]
           D == [Nodes -> SUBSET Nodes]
           F == [f \in D |-> G(f)]
<1>1. MaxHeight \in Nat /\ \A n \in Nodes : Callees(tree[n]) \subseteq Nodes
  BY CalleesFacts
<1>2. PICK h : IsHeight(h)
  BY CalleesFacts
<1>3. h \in [Nodes -> 0 .. MaxHeight]
      /\ \A n \in Nodes : \A c \in Callees(tree[n]) : h[c] < h[n]
  BY <1>2 DEF IsHeight
<1>4. F \in [D -> D]
  <2>1. ASSUME NEW f \in D PROVE G(f) \in D
    BY <1>1
  <2>2. QED
    BY <2>1
<1>5. LooksDown(F, Nodes, SUBSET Nodes, h)
  <2> SUFFICES ASSUME NEW f \in D, NEW g \in D, NEW n \in Nodes,
                      \A e \in Nodes : h[e] < h[n] => f[e] = g[e]
               PROVE  F[f][n] = F[g][n]
    BY DEF LooksDown
  <2>1. \A c \in Callees(tree[n]) : f[c] = g[c]
    BY <1>1, <1>3
  <2>2. {f[c] : c \in Callees(tree[n])} = {g[c] : c \in Callees(tree[n])}
    BY <2>1
  <2>3. QED
    BY <2>2
<1>6. PICK f : IsFixed(f, F, Nodes, SUBSET Nodes)
  <2>1. {} \in SUBSET Nodes /\ Revises(F, Nodes, SUBSET Nodes)
    BY <1>4 DEF Revises
  <2> HIDE DEF F
  <2>2. QED
    BY <1>1, <1>3, <1>5, <2>1, RecursionByHeight, Zenon
<1>7. f = G(f)
  BY <1>6 DEF IsFixed
<1>8. Reachable = CHOOSE g : g = G(g)
  BY DEF Reachable
<1> HIDE DEF F
<1>9. Reachable = G(Reachable)
  <2> DEFINE E(g) == g = G(g)
  <2>1. E(f) /\ Reachable = CHOOSE g : E(g)
    BY <1>7, <1>8
  <2> HIDE DEF E
  <2>2. E(Reachable)
    BY <2>1, Zenon
  <2>3. QED
    BY <2>2 DEF E
<1>10. \A n \in Nodes :
         Reachable[n] = {n} \cup UNION {Reachable[c] : c \in Callees(tree[n])}
  BY <1>9, Zenon
<1> HIDE DEF D, G
<1>11. \A n \in Nodes : n \in Reachable[n]
         /\ \A c \in Callees(tree[n]) : Reachable[c] \subseteq Reachable[n]
  <2> SUFFICES ASSUME NEW n \in Nodes
               PROVE  n \in Reachable[n]
                      /\ \A c \in Callees(tree[n]) : Reachable[c] \subseteq Reachable[n]
    OBVIOUS
  <2>1. Reachable[n] = {n} \cup UNION {Reachable[c] : c \in Callees(tree[n])}
    BY <1>10
  <2>2. QED
    BY <2>1
<1> DEFINE T == {n \in Nodes : /\ Reachable[n] \subseteq Nodes
                               /\ \A m \in Reachable[n] :
                                    Callees(tree[m]) \subseteq Reachable[n]}
<1>12. Nodes \subseteq T
  <2>1. ASSUME NEW n \in Nodes, \A e \in Nodes : h[e] < h[n] => e \in T
        PROVE  n \in T
    <3>1. \A c \in Callees(tree[n]) : c \in T
      BY <1>1, <1>3, <2>1
    <3>2. ASSUME NEW m \in Reachable[n]
          PROVE  m \in Nodes /\ Callees(tree[m]) \subseteq Reachable[n]
      <4>1. CASE m = n
        BY <1>1, <1>11, <4>1
      <4>2. CASE m # n
        <5>1. PICK c \in Callees(tree[n]) : m \in Reachable[c]
          BY <1>10, <3>2, <4>2
        <5>2. m \in Nodes /\ Callees(tree[m]) \subseteq Reachable[c]
          BY <3>1, <5>1
        <5>3. QED
          BY <1>11, <5>2
      <4>3. QED
        BY <4>1, <4>2
    <3>3. QED
      BY <3>2
  <2> HIDE DEF T
  <2>2. QED
    BY <1>1, <1>3, <2>1, LowestFirst
<1>13. QED
  BY <1>11, <1>12
-----------------------------------------------------------------------------
(***************************************************************************)
(* Update trees that end in stop nodes bring nothing.                      *)
(***************************************************************************)
Quiet(r) == r.people = <<>> /\ r.pools = <<>>
QuietNode(n) == \A s \in State : Quiet(Meaning[n][s])

LEMMA QuietFacts ==
  /\ \A s \in State : Quiet(Brings(s, <<>>, <<>>))
  /\ \A e : Quiet(FailsWith(e))
  /\ \A a, b \in Results : Quiet(a) /\ Quiet(b) => Quiet(Join(a, b))
<1>1. \A s \in State : Quiet(Brings(s, <<>>, <<>>))
  BY BringsNothing DEF Quiet
<1>2. \A e : Quiet(FailsWith(e))
  BY DEF Quiet, FailsWith
<1>3. ASSUME NEW a \in Results, NEW b \in Results, Quiet(a), Quiet(b)
      PROVE  Quiet(Join(a, b))
  <2>1. CASE a.error = "none" /\ b.error = "none"
    <3>1. Join(a, b) = Brings(a.state, a.people \o b.people, a.pools \o b.pools)
      BY <2>1, JoinTyped
    <3>2. a.people \o b.people = <<>> /\ a.pools \o b.pools = <<>>
      BY <1>3 DEF Quiet
    <3>3. a.state \in State
      BY <2>1, ResultFacts
    <3>4. QED
      BY <1>1, <3>1, <3>2, <3>3
  <2>2. CASE ~ (a.error = "none" /\ b.error = "none")
    BY <1>3, <2>2, JoinTyped
  <2>3. QED
    BY <2>1, <2>2
<1>4. QED
  BY <1>1, <1>2, <1>3

LEMMA FirstUpdatesQuiet ==
  ASSUME Calling, NEW n \in Nodes, tree[n].kind = "updates", NEW s \in State,
         \A c \in UpdateTrees(tree[n]) : QuietNode(c)
  PROVE  \A k \in 0 .. Len(tree[n].updaters) :
           Quiet(FirstUpdates(Meaning, n, s)[k])
<1> DEFINE u == FirstUpdates(Meaning, n, s)
           len == Len(tree[n].updaters)
           T == {k \in 0 .. len : Quiet(u[k])}
<1>1. IsFirstUpdates(Meaning, n, s, u)
  BY MeaningFacts, FirstUpdatesFacts
<1>2. len \in Nat /\ Updating(tree[n])
  BY BranchFacts DEF Updating
<1>3. /\ u \in [0 .. len -> Results] /\ u[0] = Brings(s, <<>>, <<>>)
      /\ \A k \in 1 .. len : u[k] = ThenUpdate(Meaning, u[k - 1], tree[n].updaters[k])
  BY <1>1 DEF IsFirstUpdates
<1> HIDE DEF u
<1>4. 0 \in T
  BY <1>2, <1>3, QuietFacts
<1>5. ASSUME NEW k \in 1 .. len, k - 1 \in T PROVE k \in T
  <2> DEFINE up == tree[n].updaters[k]
             r == u[k - 1]
  <2>1. r \in Results /\ Quiet(r) /\ u[k] = ThenUpdate(Meaning, r, up)
    BY <1>3, <1>5
  <2>2. \/ up.by = "tree" /\ up.root \in UpdateTrees(tree[n])
        \/ up.by = "function" /\ up.f \in [State -> State \cup {Failed}]
    BY <1>2 DEF Updating, UpdateTrees
  <2> HIDE DEF r, up
  <2>3. Quiet(ThenUpdate(Meaning, r, up))
    <3>1. CASE r.error # "none"
      BY <2>1, <3>1 DEF ThenUpdate
    <3>2. CASE r.error = "none" /\ up.by = "tree"
      <4>1. r.state \in State /\ up.root \in UpdateTrees(tree[n])
        BY <2>1, <2>2, <3>2, ResultFacts
      <4>2. QED
        BY <3>2, <4>1 DEF ThenUpdate, QuietNode
    <3>3. CASE r.error = "none" /\ up.by = "function"
      <4>1. up.f[r.state] \in State \cup {Failed}
        BY <2>1, <2>2, <3>3, ResultFacts
      <4>2. QED
        BY <3>3, <4>1, QuietFacts DEF ThenUpdate
    <3>4. QED
      BY <2>2, <3>1, <3>2, <3>3
  <2>4. k \in 0 .. len
    BY <1>2
  <2>5. QED
    BY <2>1, <2>3, <2>4
<1>6. \A k \in 0 .. len : k \in T
  <2> HIDE DEF T, len
  <2>1. QED
    BY <1>2, <1>4, <1>5, UpTo
<1>7. QED
  BY <1>6 DEF u

LEMMA QuietCallees ==
  ASSUME Calling, NEW n \in Nodes, tree[n].kind \notin {"population", "ranked"},
         \A c \in Callees(tree[n]) : QuietNode(c)
  PROVE  QuietNode(n)
<1> SUFFICES ASSUME NEW s \in State PROVE Quiet(NodeMeaning(Meaning, n, s))
  BY MeaningFacts DEF QuietNode
<1>1. ASSUME tree[n].kind \in {"updates", "multiplicity"}, NEW st \in State
      PROVE  Quiet(ChildMeaning(Meaning, n, st))
  <2>1. tree[n].select[st] # 0 =>
          tree[n].children[tree[n].select[st]] \in Callees(tree[n])
    BY <1>1, ChildFacts
  <2>2. CASE tree[n].select[st] = 0
    BY <2>2, QuietFacts DEF ChildMeaning
  <2>3. CASE tree[n].select[st] # 0
    BY <2>1, <2>3 DEF ChildMeaning, QuietNode
  <2>4. QED
    BY <2>2, <2>3
<1>2. CASE tree[n].kind = "stop"
  BY <1>2, QuietFacts DEF NodeMeaning
<1>3. CASE tree[n].kind = "updates"
  <2> DEFINE r == FirstUpdates(Meaning, n, s)[Len(tree[n].updaters)]
  <2>1. UpdateTrees(tree[n]) \subseteq Callees(tree[n]) /\ Updating(tree[n])
    BY <1>3, BranchFacts
  <2>2. Len(tree[n].updaters) \in 0 .. Len(tree[n].updaters)
    BY <2>1 DEF Updating
  <2>3. Quiet(r) /\ r \in Results
    BY <1>3, <2>1, <2>2, FirstUpdatesQuiet, FirstUpdatesFacts, MeaningFacts
    DEF IsFirstUpdates
  <2> HIDE DEF r
  <2>4. r.error = "none" => Quiet(ChildMeaning(Meaning, n, r.state))
    BY <1>1, <1>3, <2>3, ResultFacts
  <2>5. Quiet(UpdatesMeaning(Meaning, n, s))
    BY <2>3, <2>4 DEF UpdatesMeaning, r
  <2>6. QED
    BY <1>3, <2>5 DEF NodeMeaning
<1>4. CASE tree[n].kind = "multiplicity"
  <2> DEFINE count == tree[n].clone_count[s]
  <2>1. CASE count = Failed
    BY <1>4, <2>1, QuietFacts DEF NodeMeaning, ClonesMeaning
  <2>2. CASE count = 1
    <3>1. Quiet(ChildMeaning(Meaning, n, CloneState(n, s, 0)))
      BY <1>1, <1>4, <2>2, CloneStates
    <3>2. count # Failed
      BY <2>2, TreesAssumption
    <3>3. QED
      BY <1>4, <2>2, <3>1, <3>2 DEF NodeMeaning, ClonesMeaning
  <2>3. CASE count \notin {1, Failed}
    <3> DEFINE u == FirstClones(Meaning, n, s)
               T == {k \in 0 .. count : Quiet(u[k])}
    <3>1. IsFirstClones(Meaning, n, s, u)
      BY <1>4, <2>3, FirstClonesFacts, MeaningFacts
    <3>2. count \in Nat
      BY <1>4, <2>3, CloneStates
    <3>3. /\ u \in [0 .. count -> Results] /\ u[0] = Brings(s, <<>>, <<>>)
          /\ \A k \in 1 .. count :
               u[k] = Join(u[k - 1], ChildMeaning(Meaning, n, CloneState(n, s, k - 1)))
      BY <3>1 DEF IsFirstClones
    <3> HIDE DEF u
    <3>4. 0 \in T
      BY <3>2, <3>3, QuietFacts
    <3>5. ASSUME NEW k \in 1 .. count, k - 1 \in T PROVE k \in T
      <4> DEFINE c == ChildMeaning(Meaning, n, CloneState(n, s, k - 1))
      <4>1. CloneState(n, s, k - 1) \in State
        <5>1. k - 1 \in 0 .. count - 1
          BY <3>2
        <5>2. QED
          BY <1>4, <2>3, <5>1, CloneStates
      <4>2. c \in Results /\ Quiet(c)
        BY <1>1, <1>4, <4>1, ChildFacts, MeaningFacts
      <4>3. u[k - 1] \in Results /\ Quiet(u[k - 1]) /\ u[k] = Join(u[k - 1], c)
        BY <3>3, <3>5
      <4> HIDE DEF c
      <4>4. Quiet(u[k]) /\ k \in 0 .. count
        BY <3>2, <4>2, <4>3, QuietFacts
      <4>5. QED
        BY <4>4
    <3>6. \A k \in 0 .. count : k \in T
      <4> HIDE DEF T, count
      <4>1. QED
        BY <3>2, <3>4, <3>5, UpTo
    <3>7. Quiet(u[count])
      <4>1. count \in 0 .. count
        BY <3>2
      <4>2. QED
        BY <3>6, <4>1
    <3>8. QED
      BY <1>4, <2>3, <3>7 DEF NodeMeaning, ClonesMeaning, u
  <2>4. QED
    BY <2>1, <2>2, <2>3
<1>5. QED
  BY <1>2, <1>3, <1>4, TreesAssumption DEF Calling

\* Every update tree of the model.
LEMMA UpdateTreesQuiet ==
  ASSUME Calling, StopsUpdates, NEW n \in Reachable[Root], tree[n].kind = "updates"
  PROVE  \A r \in UpdateTrees(tree[n]) : QuietNode(r)
<1> SUFFICES ASSUME NEW r \in UpdateTrees(tree[n]) PROVE QuietNode(r)
  OBVIOUS
<1>1. Root \in Nodes /\ n \in Nodes
  BY TreesAssumption, ReachableFacts
<1>2. r \in UpdateRoots /\ r \in Nodes
  BY <1>1, BranchFacts DEF UpdateRoots
<1>3. PICK h : IsHeight(h)
  BY CalleesFacts
<1> DEFINE T == {m \in Nodes : m \in Reachable[r] => QuietNode(m)}
<1>4. ASSUME NEW m \in Nodes, \A e \in Nodes : h[e] < h[m] => e \in T
      PROVE  m \in T
  <2>1. SUFFICES ASSUME m \in Reachable[r] PROVE QuietNode(m)
    OBVIOUS
  <2>2. tree[m].kind \notin {"population", "ranked"}
    BY <1>2, <2>1 DEF StopsUpdates
  <2>3. ASSUME NEW c \in Callees(tree[m]) PROVE QuietNode(c)
    <3>1. c \in Nodes /\ c \in Reachable[r]
      BY <1>2, <2>1, CalleesFacts, ReachableFacts
    <3>2. h[c] < h[m]
      BY <1>3 DEF IsHeight
    <3>3. QED
      BY <1>4, <3>1, <3>2
  <2>4. QED
    BY <2>2, <2>3, QuietCallees
<1>5. Nodes \subseteq T
  <2> HIDE DEF T
  <2>1. QED
    BY <1>3, <1>4, CalleesFacts, LowestFirst DEF IsHeight
<1>6. r \in Reachable[r]
  BY <1>2, ReachableFacts
<1>7. QED
  BY <1>2, <1>5, <1>6
-----------------------------------------------------------------------------
(***************************************************************************)
(* A walk through the tree, seen from below: what is under way will bring  *)
(* a result, from which each frame makes that of its node.                 *)
(***************************************************************************)
\* What Apply of updates and of multiplicities is.
LEMMA UpdatesMean ==
  ASSUME Calling, NEW n \in Nodes, tree[n].kind = "updates", NEW s \in State
  PROVE  /\ IsFirstUpdates(Meaning, n, s, FirstUpdates(Meaning, n, s))
         /\ Len(tree[n].updaters) \in Nat /\ Updating(tree[n])
         /\ Meaning[n][s] = UpdatesMeaning(Meaning, n, s)
<1>1. Meaning[n][s] = NodeMeaning(Meaning, n, s)
  BY MeaningFacts
<1>2. NodeMeaning(Meaning, n, s) = UpdatesMeaning(Meaning, n, s)
  BY DEF NodeMeaning
<1>3. QED
  BY <1>1, <1>2, FirstUpdatesFacts, MeaningFacts, BranchFacts DEF Updating

LEMMA ClonesMean ==
  ASSUME Calling, NEW n \in Nodes, tree[n].kind = "multiplicity", NEW s \in State
  PROVE  /\ tree[n].clone_count[s] # Failed =>
              IsFirstClones(Meaning, n, s, FirstClones(Meaning, n, s))
         /\ Meaning[n][s] = ClonesMeaning(Meaning, n, s)
<1>1. Meaning[n][s] = NodeMeaning(Meaning, n, s)
  BY MeaningFacts
<1>2. NodeMeaning(Meaning, n, s) = ClonesMeaning(Meaning, n, s)
  BY DEF NodeMeaning
<1>3. QED
  BY <1>1, <1>2, FirstClonesFacts, MeaningFacts

\* The first error is that of the node.
LEMMA UpdatesFail ==
  ASSUME Calling, NEW n \in Nodes, tree[n].kind = "updates", NEW s \in State,
         NEW k \in 0 .. Len(tree[n].updaters),
         FirstUpdates(Meaning, n, s)[k].error # "none"
  PROVE  Meaning[n][s] = FirstUpdates(Meaning, n, s)[k]
<1> DEFINE u == FirstUpdates(Meaning, n, s)
           len == Len(tree[n].updaters)
           T == {j \in 0 .. len : j >= k => u[j] = u[k]}
<1>1. len \in Nat
  BY UpdatesMean
<1>2. \A j \in 1 .. len : u[j] = ThenUpdate(Meaning, u[j - 1], tree[n].updaters[j])
  BY UpdatesMean DEF IsFirstUpdates
<1>3. u[k].error # "none"
  OBVIOUS
<1> HIDE DEF u
<1>4. 0 \in T
  <2>1. 0 >= k => k = 0
    BY <1>1
  <2>2. QED
    BY <1>1, <2>1
<1>5. ASSUME NEW j \in 1 .. len, j - 1 \in T PROVE j \in T
  <2>1. j \in 0 .. len /\ (j >= k => j = k \/ j - 1 >= k)
    BY <1>1
  <2>2. CASE j - 1 >= k
    <3>1. u[j - 1] = u[k]
      BY <1>5, <2>2
    <3>2. u[j] = u[k]
      BY <1>2, <1>3, <3>1 DEF ThenUpdate
    <3>3. QED
      BY <2>1, <3>2
  <2>3. CASE ~ (j - 1 >= k)
    BY <2>1, <2>3
  <2>4. QED
    BY <2>2, <2>3
<1>6. \A j \in 0 .. len : j \in T
  <2> HIDE DEF T, len
  <2>1. QED
    BY <1>1, <1>4, <1>5, UpTo
<1>7. u[len] = u[k]
  <2>1. len \in 0 .. len /\ len >= k
    BY <1>1
  <2>2. QED
    BY <1>6, <2>1
<1>8. UpdatesMeaning(Meaning, n, s) = u[len]
  BY <1>3, <1>7 DEF UpdatesMeaning, u
<1>9. QED
  BY <1>7, <1>8, UpdatesMean DEF u

LEMMA ClonesFail ==
  ASSUME Calling, NEW n \in Nodes, tree[n].kind = "multiplicity", NEW s \in State,
         tree[n].clone_count[s] \notin {1, Failed},
         NEW k \in 0 .. tree[n].clone_count[s],
         FirstClones(Meaning, n, s)[k].error # "none"
  PROVE  Meaning[n][s] = FirstClones(Meaning, n, s)[k]
<1> DEFINE u == FirstClones(Meaning, n, s)
           len == tree[n].clone_count[s]
           T == {j \in 0 .. len : j >= k => u[j] = u[k]}
<1>1. len \in Nat
  BY CloneStates
<1>2. \A j \in 1 .. len :
        u[j] = Join(u[j - 1], ChildMeaning(Meaning, n, CloneState(n, s, j - 1)))
  BY ClonesMean DEF IsFirstClones
<1>3. u[k].error # "none"
  OBVIOUS
<1> HIDE DEF u
<1>4. 0 \in T
  <2>1. 0 >= k => k = 0
    BY <1>1
  <2>2. QED
    BY <1>1, <2>1
<1>5. ASSUME NEW j \in 1 .. len, j - 1 \in T PROVE j \in T
  <2>1. j \in 0 .. len /\ (j >= k => j = k \/ j - 1 >= k)
    BY <1>1
  <2>2. CASE j - 1 >= k
    <3>1. u[j - 1] = u[k]
      BY <1>5, <2>2
    <3>2. u[j] = u[k]
      BY <1>2, <1>3, <3>1 DEF Join
    <3>3. QED
      BY <2>1, <3>2
  <2>3. CASE ~ (j - 1 >= k)
    BY <2>1, <2>3
  <2>4. QED
    BY <2>2, <2>3
<1>6. \A j \in 0 .. len : j \in T
  <2> HIDE DEF T, len
  <2>1. QED
    BY <1>1, <1>4, <1>5, UpTo
<1>7. u[len] = u[k]
  <2>1. len \in 0 .. len /\ len >= k
    BY <1>1
  <2>2. QED
    BY <1>6, <2>1
<1>8. ClonesMeaning(Meaning, n, s) = u[len]
  BY DEF ClonesMeaning, u
<1>9. QED
  BY <1>7, <1>8, ClonesMean DEF u

\* The Apply of a frame was called in state s, and what is under way brings r.
UpdatesTake(f, r, s) ==
  /\ tree[f.node].kind = "updates"
  /\ f.next - 1 \in 0 .. Len(tree[f.node].updaters)
  /\ r = FirstUpdates(Meaning, f.node, s)[f.next - 1]
ClonesTake(f, r, s) ==
  /\ tree[f.node].kind = "multiplicity"
  /\ StateOf(f.source) = s /\ Quiet(f.source)
  /\ tree[f.node].clone_count[s] \notin {1, Failed}
  /\ f.clones = [i \in 1 .. tree[f.node].clone_count[s] |-> CloneState(f.node, s, i - 1)]
  /\ f.applied \in 0 .. tree[f.node].clone_count[s]
  /\ f.applied = 0 => r = Brings(s, <<>>, <<>>) /\ Quiet(f)
  /\ f.applied # 0 =>
       /\ r = ChildMeaning(Meaning, f.node, f.clones[f.applied])
       /\ FirstClones(Meaning, f.node, s)[f.applied - 1] = Brings(s, f.people, f.pools)
FrameTakes(f, r, out) ==
  /\ f.node \in Reachable[Root]
  /\ \E s \in State : /\ out = Meaning[f.node][s]
                      /\ f.kind = "updates" => UpdatesTake(f, r, s)
                      /\ f.kind = "clones" => ClonesTake(f, r, s)

\* What the model means for the input, and the results from there to r.
Goal == Meaning[Root][StateOf(NewEvent(input))]
Chain(fs, R) ==
  /\ R \in [0 .. Len(fs) -> Results] /\ R[0] = Goal
  /\ \A j \in 1 .. Len(fs) : FrameTakes(fs[j], R[j], R[j - 1])
Way(fs, r) == \E R : Chain(fs, R) /\ R[Len(fs)] = r

LEMMA GoalTyped == ASSUME Calling PROVE Goal \in Results
<1>1. StateOf(NewEvent(input)) \in State /\ Root \in Nodes
  BY TreesAssumption DEF Calling, LabelerInput, NewEvent, StateOf, State
<1>2. QED
  BY <1>1, MeaningFacts DEF Goal

LEMMA WayStarts ==
  ASSUME Calling
  PROVE  /\ Way(<<>>, Goal)
         /\ \A r : Way(<<>>, r) => r = Goal
<1>1. Len(<<>>) = 0
  OBVIOUS
<1> DEFINE R == [j \in 0 .. 0 |-> Goal]
<1>2. R \in [0 .. 0 -> Results] /\ R[0] = Goal
  BY GoalTyped
<1>3. Chain(<<>>, R)
  <2>1. 1 .. 0 = {}
    OBVIOUS
  <2> HIDE DEF R
  <2>2. QED
    BY <1>1, <1>2, <2>1 DEF Chain
<1>4. Way(<<>>, Goal)
  <2> HIDE DEF R
  <2>1. QED
    BY <1>1, <1>2, <1>3 DEF Way
<1>5. \A r : Way(<<>>, r) => r = Goal
  BY <1>1 DEF Way, Chain
<1>6. QED
  BY <1>4, <1>5

LEMMA WayPushed ==
  ASSUME NEW fs \in Seq(FrameType), NEW out, Way(fs, out),
         NEW f \in FrameType, NEW r \in Results, FrameTakes(f, r, out)
  PROVE  Way(Append(fs, f), r)
<1>1. PICK R : Chain(fs, R) /\ R[Len(fs)] = out
  BY DEF Way
<1> DEFINE gs == Append(fs, f)
           n == Len(fs)
           Q == [j \in 0 .. n + 1 |-> IF j = n + 1 THEN r ELSE R[j]]
<1>2. n \in Nat /\ Len(gs) = n + 1 /\ gs[n + 1] = f
      /\ \A j \in 1 .. n : gs[j] = fs[j]
  OBVIOUS
<1>3. R \in [0 .. n -> Results] /\ R[0] = Goal
      /\ \A j \in 1 .. n : FrameTakes(fs[j], R[j], R[j - 1])
  BY <1>1 DEF Chain
<1> HIDE DEF gs
<1>4. Q \in [0 .. n + 1 -> Results] /\ Q[n + 1] = r /\ \A j \in 0 .. n : Q[j] = R[j]
  BY <1>2, <1>3
<1> HIDE DEF Q
<1>5. ASSUME NEW j \in 1 .. n + 1 PROVE FrameTakes(gs[j], Q[j], Q[j - 1])
  <2>1. CASE j = n + 1
    <3>1. j - 1 = n /\ n \in 0 .. n
      BY <1>2, <2>1
    <3>2. Q[j - 1] = out
      BY <1>1, <1>4, <3>1
    <3>3. QED
      BY <1>2, <1>4, <2>1, <3>2
  <2>2. CASE j # n + 1
    <3>1. j \in 1 .. n /\ j \in 0 .. n /\ j - 1 \in 0 .. n
      BY <1>2, <2>2
    <3>2. QED
      BY <1>2, <1>3, <1>4, <3>1
  <2>3. QED
    BY <2>1, <2>2
<1>6. Q[0] = Goal
  <2>1. 0 \in 0 .. n
    BY <1>2
  <2>2. QED
    BY <1>3, <1>4, <2>1
<1>7. Chain(gs, Q)
  BY <1>2, <1>4, <1>5, <1>6 DEF Chain
<1>8. QED
  BY <1>2, <1>4, <1>7 DEF Way, gs

LEMMA WayPopped ==
  ASSUME NEW fs \in Seq(FrameType), fs # <<>>, NEW r, Way(fs, r)
  PROVE  \E out \in Results : /\ Way(SubSeq(fs, 1, Len(fs) - 1), out)
                              /\ FrameTakes(fs[Len(fs)], r, out)
<1>1. PICK R : Chain(fs, R) /\ R[Len(fs)] = r
  BY DEF Way
<1> DEFINE n == Len(fs)
           gs == SubSeq(fs, 1, n - 1)
           Q == [j \in 0 .. n - 1 |-> R[j]]
<1>2. n \in Nat /\ n >= 1
  OBVIOUS
<1>3. Len(gs) = n - 1 /\ \A j \in 1 .. n - 1 : gs[j] = fs[j]
  <2>1. fs \in Seq(FrameType) /\ n = Len(fs) /\ n - 1 \in 0 .. n
    BY <1>2
  <2> HIDE DEF n
  <2>2. QED
    BY <1>2, <2>1
<1>4. R \in [0 .. n -> Results] /\ R[0] = Goal
      /\ \A j \in 1 .. n : FrameTakes(fs[j], R[j], R[j - 1])
  BY <1>1 DEF Chain
<1> HIDE DEF gs
<1>5. Q \in [0 .. n - 1 -> Results] /\ \A j \in 0 .. n - 1 : Q[j] = R[j]
  BY <1>2, <1>4
<1> HIDE DEF Q
<1>6. Q[0] = Goal
  <2>1. 0 \in 0 .. n - 1
    BY <1>2
  <2>2. QED
    BY <1>4, <1>5, <2>1
<1>7. ASSUME NEW j \in 1 .. n - 1 PROVE FrameTakes(gs[j], Q[j], Q[j - 1])
  <2>1. j \in 1 .. n /\ j \in 0 .. n - 1 /\ j - 1 \in 0 .. n - 1
    BY <1>2
  <2>2. QED
    BY <1>3, <1>4, <1>5, <1>7, <2>1
<1>8. Chain(gs, Q)
  BY <1>3, <1>5, <1>6, <1>7 DEF Chain
<1>9. Way(gs, R[n - 1])
  <2>1. n - 1 \in 0 .. n - 1
    BY <1>2
  <2>2. Q[n - 1] = R[n - 1]
    BY <1>5, <2>1
  <2>3. QED
    BY <1>3, <1>8, <2>2 DEF Way
<1>10. FrameTakes(fs[n], r, R[n - 1]) /\ R[n - 1] \in Results
  <2>1. n \in 1 .. n /\ n - 1 \in 0 .. n
    BY <1>2
  <2>2. QED
    BY <1>1, <1>4, <2>1
<1>11. QED
  BY <1>9, <1>10 DEF gs
-----------------------------------------------------------------------------
\* What the clones of a frame have brought, with the one under way.
LEMMA ClonesSoFar ==
  ASSUME Calling, NEW f, f.node \in Nodes, NEW r, NEW s \in State, ClonesTake(f, r, s)
  PROVE  /\ f.applied = 0 => FirstClones(Meaning, f.node, s)[f.applied] = r
         /\ f.applied # 0 => FirstClones(Meaning, f.node, s)[f.applied]
                               = Join(Brings(s, f.people, f.pools), r)
<1> DEFINE n == f.node
           a == f.applied
           count == tree[n].clone_count[s]
           u == FirstClones(Meaning, n, s)
<1>1. tree[n].kind = "multiplicity" /\ count \notin {1, Failed} /\ a \in 0 .. count
  BY DEF ClonesTake
<1>2. count \in Nat /\ IsFirstClones(Meaning, n, s, u)
  BY <1>1, CloneStates, ClonesMean
<1>3. u[0] = Brings(s, <<>>, <<>>)
      /\ \A k \in 1 .. count :
           u[k] = Join(u[k - 1], ChildMeaning(Meaning, n, CloneState(n, s, k - 1)))
  BY <1>2 DEF IsFirstClones
<1> HIDE DEF u
<1>4. CASE a = 0
  <2>1. r = Brings(s, <<>>, <<>>)
    BY <1>4 DEF ClonesTake
  <2>2. QED
    BY <1>3, <1>4, <2>1 DEF u
<1>5. CASE a # 0
  <2>1. a \in 1 .. count
    BY <1>1, <1>2, <1>5
  <2>2. f.clones[a] = CloneState(n, s, a - 1)
    BY <2>1 DEF ClonesTake
  <2>3. r = ChildMeaning(Meaning, n, CloneState(n, s, a - 1))
        /\ u[a - 1] = Brings(s, f.people, f.pools)
    BY <1>5, <2>2 DEF ClonesTake, u
  <2>4. QED
    BY <1>3, <1>5, <2>1, <2>3 DEF u
<1>6. QED
  BY <1>4, <1>5

\* An error goes from a frame to the frame below it, and so to the root.
LEMMA FrameFails ==
  ASSUME Calling, NEW f \in FrameType, NEW r, NEW out, FrameTakes(f, r, out),
         r.error # "none"
  PROVE  out = r
<1>1. PICK s \in State : /\ out = Meaning[f.node][s]
                         /\ f.kind = "updates" => UpdatesTake(f, r, s)
                         /\ f.kind = "clones" => ClonesTake(f, r, s)
  BY DEF FrameTakes
<1>2. f.node \in Nodes
  BY ReachableFacts, TreesAssumption DEF FrameTakes
<1>3. CASE f.kind = "updates"
  <2>1. UpdatesTake(f, r, s)
    BY <1>1, <1>3
  <2>2. QED
    BY <1>1, <1>2, <2>1, UpdatesFail DEF UpdatesTake
<1>4. CASE f.kind = "clones"
  <2>1. ClonesTake(f, r, s)
    BY <1>1, <1>4
  <2> DEFINE q == FirstClones(Meaning, f.node, s)[f.applied]
  <2>2. q = r
    <3>1. Brings(s, f.people, f.pools).error = "none"
      BY DEF Brings
    <3>2. QED
      BY <1>2, <2>1, <3>1, ClonesSoFar DEF Join
  <2>3. Meaning[f.node][s] = q
    <3>1. /\ tree[f.node].kind = "multiplicity"
          /\ tree[f.node].clone_count[s] \notin {1, Failed}
          /\ f.applied \in 0 .. tree[f.node].clone_count[s]
      BY <2>1 DEF ClonesTake
    <3>2. FirstClones(Meaning, f.node, s)[f.applied].error # "none"
      BY <2>2
    <3>3. QED
      BY <1>2, <3>1, <3>2, ClonesFail
  <2>4. QED
    BY <1>1, <2>2, <2>3
<1>5. QED
  BY <1>3, <1>4 DEF FrameType, UpdatesFrame, ClonesFrame

LEMMA WayFails ==
  ASSUME Calling, NEW fs \in Seq(FrameType), NEW r, Way(fs, r), r.error # "none"
  PROVE  Goal = r
<1>1. PICK R : Chain(fs, R) /\ R[Len(fs)] = r
  BY DEF Way
<1> DEFINE n == Len(fs)
           T == {k \in 0 .. n : R[n - k] = r}
<1>2. n \in Nat /\ \A j \in 1 .. n : fs[j] \in FrameType
  OBVIOUS
<1>3. R[0] = Goal /\ \A j \in 1 .. n : FrameTakes(fs[j], R[j], R[j - 1])
  BY <1>1 DEF Chain
<1> HIDE DEF n
<1>4. 0 \in T
  <2>1. n - 0 = n
    BY <1>2
  <2>2. QED
    BY <1>1, <1>2, <2>1 DEF n
<1>5. ASSUME NEW k \in 1 .. n, k - 1 \in T PROVE k \in T
  <2> DEFINE j == n - (k - 1)
  <2>1. j \in 1 .. n /\ j - 1 = n - k /\ k \in 0 .. n
    BY <1>2
  <2>2. R[j] = r
    BY <1>5
  <2> HIDE DEF j
  <2>3. R[j - 1] = r
    BY <1>2, <1>3, <2>1, <2>2, FrameFails
  <2>4. QED
    BY <2>1, <2>3
<1>6. \A k \in 0 .. n : k \in T
  <2> HIDE DEF T
  <2>1. QED
    BY <1>2, <1>4, <1>5, UpTo
<1>7. n \in 0 .. n /\ n - n = 0
  BY <1>2
<1>8. QED
  BY <1>3, <1>6, <1>7
-----------------------------------------------------------------------------
\* What Apply of the node will bring, or has brought to the event.
Pending(node, ev) ==
  IF node = NoNode THEN Brings(StateOf(ev), ev.people, ev.pools)
  ELSE Meaning[node][StateOf(ev)]

\* A call is on its way from the meaning of the model to that of the node.  An
\* event that comes to a node is bare.
OnTheWay(node, ev, fs) ==
  /\ node \in Nodes \cup {NoNode} /\ ev \in LabelerEvent /\ fs \in Seq(FrameType)
  /\ node # NoNode => node \in Reachable[Root] /\ Quiet(ev)
  /\ Way(fs, Pending(node, ev))

\* A step goes on, or ends the call with the error that the model means.
GoesOn ==
  /\ outcome' = "running" /\ output' = output
  /\ OnTheWay(at', event', frames')
EndsInError ==
  /\ outcome' \in MeaningErrors /\ outcome' = Goal.error
  /\ output' = output /\ frames' = <<>>

LEMMA InStateFacts ==
  ASSUME NEW ev \in LabelerEvent, NEW s \in State
  PROVE  /\ StateOf(InState(ev, s)) = s /\ InState(ev, s) \in LabelerEvent
         /\ InState(ev, s).people = ev.people /\ InState(ev, s).pools = ev.pools
<1>1. InState(ev, s) \in LabelerEvent /\ InState(ev, s).fp = s.fp
      /\ InState(ev, s).fields = s.fields
      /\ InState(ev, s).people = ev.people /\ InState(ev, s).pools = ev.pools
  BY DEF InState, LabelerEvent, State
<1>2. s = [fp |-> s.fp, fields |-> s.fields]
  BY DEF State
<1>3. QED
  BY <1>1, <1>2 DEF StateOf

LEMMA PendingTyped ==
  ASSUME Calling, NEW node \in Nodes \cup {NoNode}, NEW ev \in LabelerEvent
  PROVE  /\ Pending(node, ev) \in Results
         /\ StateOf(ev) \in State
         /\ ev.people \in Seq(VirtualPersonActivity)
         /\ ev.pools \in Seq(PoolAssignment)
<1>1. StateOf(ev) \in State /\ ev.people \in Seq(VirtualPersonActivity)
      /\ ev.pools \in Seq(PoolAssignment)
  BY StateFacts DEF LabelerEvent
<1>2. Brings(StateOf(ev), ev.people, ev.pools) \in Results
  BY <1>1, BringsFacts
<1>3. node # NoNode => Meaning[node][StateOf(ev)] \in Results
  BY <1>1, MeaningFacts
<1>4. QED
  BY <1>1, <1>2, <1>3 DEF Pending

LEMMA ErrorEnds ==
  ASSUME Calling, NEW e \in MeaningErrors, Fail(e),
         NEW fs \in Seq(FrameType), NEW r, Way(fs, r), r.error = e
  PROVE  EndsInError
<1>1. e # "none"
  BY FailsFacts
<1>2. Goal = r
  BY <1>1, WayFails
<1>3. QED
  BY <1>2 DEF EndsInError, Fail

\* Where all goes on at the selected child.
LEMMA ChildGoesOn ==
  ASSUME Calling, outcome = "running", NEW n \in Reachable[Root],
         tree[n].kind \in {"updates", "multiplicity"},
         NEW ev \in LabelerEvent, Quiet(ev), NEW calls \in Seq(FrameType),
         Way(calls, ChildMeaning(Meaning, n, StateOf(ev))),
         ApplyChild(n, ev, calls)
  PROVE  GoesOn \/ EndsInError
<1> DEFINE k == tree[n].select[StateOf(ev)]
           c == tree[n].children[k]
<1>1. n \in Nodes /\ Root \in Nodes /\ StateOf(ev) \in State
  BY ReachableFacts, TreesAssumption, StateFacts
<1>2. CASE k = 0
  <2>1. Fail("no condition")
    BY <1>2 DEF ApplyChild
  <2>2. ChildMeaning(Meaning, n, StateOf(ev)) = FailsWith("no condition")
    BY <1>2 DEF ChildMeaning
  <2>3. FailsWith("no condition").error = "no condition"
        /\ "no condition" \in MeaningErrors
    BY DEF FailsWith, MeaningErrors
  <2>4. QED
    BY <2>1, <2>2, <2>3, ErrorEnds
<1>3. CASE k # 0
  <2>1. /\ at' = c /\ event' = ev /\ frames' = calls
        /\ UNCHANGED <<outcome, output>>
    BY <1>3 DEF ApplyChild
  <2>2. c \in Callees(tree[n]) /\ c \in Nodes
    BY <1>1, <1>3, ChildFacts
  <2>3. c \in Reachable[Root] /\ c # NoNode
    BY <1>1, <2>2, ReachableFacts, TreesAssumption
  <2>4. Pending(c, ev) = ChildMeaning(Meaning, n, StateOf(ev))
    BY <1>3, <2>3 DEF Pending, ChildMeaning
  <2> HIDE DEF c
  <2>5. OnTheWay(c, ev, calls)
    BY <2>2, <2>3, <2>4 DEF OnTheWay
  <2>6. QED
    BY <2>1, <2>5 DEF GoesOn
<1>4. QED
  BY <1>2, <1>3

\* The innermost frame.
LEMMA TopTakes ==
  ASSUME Calling, OnTheWay(NoNode, event, frames), frames # <<>>
  PROVE  /\ Top \in FrameType /\ Below \in Seq(FrameType)
         /\ event \in LabelerEvent
         /\ Top.node \in Nodes /\ Top.node \in Reachable[Root]
         /\ \E out \in Results :
              /\ Way(Below, out)
              /\ FrameTakes(Top, Brings(StateOf(event), event.people, event.pools), out)
<1>1. frames \in Seq(FrameType) /\ Way(frames, Pending(NoNode, event))
      /\ event \in LabelerEvent
  BY DEF OnTheWay
<1>2. Pending(NoNode, event) = Brings(StateOf(event), event.people, event.pools)
  BY DEF Pending
<1>3. Top \in FrameType /\ Below \in Seq(FrameType)
  <2>1. Len(frames) \in Nat /\ Len(frames) \in 1 .. Len(frames)
    BY <1>1
  <2>2. QED
    BY <1>1, <2>1 DEF Top, Below
<1>4. PICK out \in Results : Way(Below, out) /\ FrameTakes(Top, Pending(NoNode, event), out)
  BY <1>1, WayPopped DEF Top, Below
<1>5. Top.node \in Nodes /\ Top.node \in Reachable[Root]
  BY <1>4, ReachableFacts, TreesAssumption DEF FrameTakes
<1>6. QED
  BY <1>1, <1>2, <1>3, <1>4, <1>5
-----------------------------------------------------------------------------
(***************************************************************************)
(* The steps of a call: each goes on with what the model means, or ends in *)
(* the error that it means.                                                *)
(***************************************************************************)
\* A call under way, of a model whose update trees end in stop nodes.
Midway ==
  Calling /\ StopsUpdates /\ outcome = "running" /\ OnTheWay(at, event, frames)

\* A node that is to be applied.
LEMMA NodeToApply ==
  ASSUME Midway, at # NoNode
  PROVE  /\ at \in Nodes /\ at \in Reachable[Root]
         /\ event \in LabelerEvent /\ frames \in Seq(FrameType)
         /\ StateOf(event) \in State
         /\ event.people = <<>> /\ event.pools = <<>>
         /\ Way(frames, Meaning[at][StateOf(event)])
BY StateFacts DEF Midway, OnTheWay, Pending, Quiet

LEMMA ApplyUpdatesMeans ==
  ASSUME Midway, ApplyUpdates
  PROVE  GoesOn
<1> DEFINE s == StateOf(event)
           f == [kind |-> "updates", node |-> at, next |-> 1]
           r == Brings(s, <<>>, <<>>)
<1>1. Calling /\ outcome = "running" /\ at # NoNode /\ tree[at].kind = "updates"
      /\ frames' = Append(frames, f) /\ at' = NoNode
      /\ UNCHANGED <<event, outcome, output>>
  BY DEF Midway, ApplyUpdates, Applied
<1>2. /\ at \in Nodes /\ at \in Reachable[Root]
      /\ event \in LabelerEvent /\ frames \in Seq(FrameType) /\ s \in State
      /\ event.people = <<>> /\ event.pools = <<>>
      /\ Way(frames, Meaning[at][s])
  BY <1>1, NodeToApply
<1>3. f \in FrameType /\ f.kind = "updates" /\ f.node = at /\ f.next = 1
  BY <1>2 DEF FrameType, UpdatesFrame
<1>4. f.next - 1 = 0 /\ f.next - 1 \in 0 .. Len(tree[at].updaters)
      /\ r = FirstUpdates(Meaning, at, s)[0]
  BY <1>1, <1>2, <1>3, UpdatesMean DEF IsFirstUpdates
<1> HIDE DEF f
<1>5. FrameTakes(f, r, Meaning[at][s])
  <2>1. UpdatesTake(f, r, s)
    BY <1>1, <1>3, <1>4 DEF UpdatesTake
  <2>2. QED
    BY <1>2, <1>3, <2>1 DEF FrameTakes
<1>6. r \in Results
  BY <1>2, BringsNothing
<1>7. Way(Append(frames, f), r)
  BY <1>2, <1>3, <1>5, <1>6, WayPushed
<1>8. Pending(NoNode, event) = r
  BY <1>2 DEF Pending
<1>9. Append(frames, f) \in Seq(FrameType)
  BY <1>2, <1>3
<1>10. OnTheWay(NoNode, event, Append(frames, f))
  BY <1>2, <1>7, <1>8, <1>9 DEF OnTheWay
<1>11. QED
  BY <1>1, <1>10 DEF GoesOn

\* The innermost call of a branch node without a multiplicity.
LEMMA UpdatesTop ==
  ASSUME Midway, Returned("updates")
  PROVE  /\ Calling /\ at = NoNode /\ Top \in UpdatesFrame /\ Below \in Seq(FrameType)
         /\ event \in LabelerEvent /\ StateOf(event) \in State
         /\ Top.node \in Nodes /\ Top.node \in Reachable[Root]
         /\ tree[Top.node].kind = "updates"
         /\ Top.next - 1 \in 0 .. Len(tree[Top.node].updaters)
         /\ event.people = <<>> /\ event.pools = <<>>
         /\ \E s \in State :
              /\ Way(Below, Meaning[Top.node][s])
              /\ FirstUpdates(Meaning, Top.node, s)[Top.next - 1]
                   = Brings(StateOf(event), <<>>, <<>>)
<1> DEFINE r == Brings(StateOf(event), event.people, event.pools)
           n == Top.node
<1>1. Calling /\ StopsUpdates /\ at = NoNode /\ frames # <<>> /\ Top.kind = "updates"
      /\ OnTheWay(NoNode, event, frames)
  BY DEF Midway, Returned, Top
<1>2. /\ Top \in FrameType /\ Below \in Seq(FrameType) /\ event \in LabelerEvent
      /\ n \in Nodes /\ n \in Reachable[Root]
  BY <1>1, TopTakes
<1>3. PICK out \in Results : Way(Below, out) /\ FrameTakes(Top, r, out)
  BY <1>1, TopTakes
<1>4. PICK s \in State : out = Meaning[n][s] /\ UpdatesTake(Top, r, s)
  BY <1>1, <1>3 DEF FrameTakes
<1>5. /\ tree[n].kind = "updates"
      /\ Top.next - 1 \in 0 .. Len(tree[n].updaters)
      /\ FirstUpdates(Meaning, n, s)[Top.next - 1] = r
  BY <1>4 DEF UpdatesTake
<1>6. Quiet(r)
  BY <1>1, <1>2, <1>5, UpdateTreesQuiet, FirstUpdatesQuiet
<1>7. event.people = <<>> /\ event.pools = <<>>
  BY <1>6 DEF Quiet, Brings
<1>8. Top \in UpdatesFrame
  BY <1>1, <1>2 DEF FrameType, ClonesFrame
<1>9. StateOf(event) \in State
  BY <1>2, StateFacts
<1>10. QED
  BY <1>1, <1>2, <1>3, <1>4, <1>5, <1>7, <1>8, <1>9

LEMMA UpdateMeans ==
  ASSUME Midway, Update
  PROVE  GoesOn \/ EndsInError
<1> DEFINE n == Top.node
           k == Top.next
           t == StateOf(event)
           updater == tree[n].updaters[k]
           f == [Top EXCEPT !.next = @ + 1]
<1>1. Returned("updates") /\ k \in DOMAIN tree[n].updaters
  BY DEF Update
<1>2. /\ Calling /\ StopsUpdates /\ at = NoNode /\ Top \in UpdatesFrame /\ Below \in Seq(FrameType)
      /\ event \in LabelerEvent /\ t \in State
      /\ n \in Nodes /\ n \in Reachable[Root] /\ tree[n].kind = "updates"
      /\ event.people = <<>> /\ event.pools = <<>>
  BY <1>1, UpdatesTop DEF Midway
<1>3. PICK s \in State : /\ Way(Below, Meaning[n][s])
                         /\ FirstUpdates(Meaning, n, s)[k - 1] = Brings(t, <<>>, <<>>)
  BY <1>1, UpdatesTop
<1> DEFINE u == FirstUpdates(Meaning, n, s)
           len == Len(tree[n].updaters)
<1>4. len \in Nat /\ DOMAIN tree[n].updaters = 1 .. len /\ IsFirstUpdates(Meaning, n, s, u)
      /\ Updating(tree[n])
  BY <1>2, UpdatesMean DEF Updating
<1>5. k \in 1 .. len /\ k \in 0 .. len /\ k \in Nat \ {0}
  BY <1>1, <1>4
<1>6. u[k] = ThenUpdate(Meaning, Brings(t, <<>>, <<>>), updater) /\ u[k] \in Results
  BY <1>3, <1>4, <1>5 DEF IsFirstUpdates
<1>7. Brings(t, <<>>, <<>>).error = "none" /\ Brings(t, <<>>, <<>>).state = t
  BY DEF Brings
<1> DEFINE r == u[k]
<1>8. f \in UpdatesFrame /\ f.kind = "updates" /\ f.node = n /\ f.next = k + 1
  <2>1. Top = [kind |-> "updates", node |-> n, next |-> k]
    BY <1>2 DEF UpdatesFrame
  <2>2. f = [kind |-> "updates", node |-> n, next |-> k + 1]
    BY <2>1
  <2> HIDE DEF f
  <2>3. QED
    BY <1>2, <1>5, <2>2 DEF UpdatesFrame
<1> HIDE DEF f
<1>9. f.next - 1 = k
  BY <1>5, <1>8
<1>10. Way(Append(Below, f), r) /\ Append(Below, f) \in Seq(FrameType)
  <2>1. UpdatesTake(f, r, s)
    BY <1>2, <1>5, <1>8, <1>9 DEF UpdatesTake
  <2>2. FrameTakes(f, r, Meaning[n][s])
    BY <1>2, <1>8, <2>1 DEF FrameTakes
  <2>3. f \in FrameType
    BY <1>8 DEF FrameType
  <2> HIDE DEF r
  <2>4. QED
    BY <1>2, <1>3, <1>6, <2>2, <2>3, WayPushed DEF r
<1>11. CASE updater.by = "tree"
  <2>1. /\ at' = updater.root /\ frames' = Append(Below, f) /\ event' = event
        /\ UNCHANGED <<outcome, output>>
    BY <1>11 DEF Update, f
  <2>2. updater.root \in UpdateTrees(tree[n])
    BY <1>1, <1>11 DEF UpdateTrees
  <2>3. updater.root \in Reachable[Root] /\ updater.root \in Nodes /\ updater.root # NoNode
    <3>1. UpdateTrees(tree[n]) \subseteq Callees(tree[n]) /\ Callees(tree[n]) \subseteq Nodes
      BY <1>2, BranchFacts
    <3>2. Root \in Nodes /\ NoNode \notin Nodes
      BY TreesAssumption
    <3>3. Callees(tree[n]) \subseteq Reachable[Root]
      BY <1>2, <3>2, ReachableFacts
    <3> HIDE DEF updater
    <3>4. QED
      BY <2>2, <3>1, <3>2, <3>3
  <2>4. r = Meaning[updater.root][t]
    BY <1>6, <1>7, <1>11 DEF ThenUpdate
  <2>5. Pending(updater.root, event) = r /\ Quiet(event)
    BY <1>2, <2>3, <2>4 DEF Pending, Quiet
  <2> HIDE DEF r, updater
  <2>6. OnTheWay(updater.root, event, Append(Below, f))
    BY <1>2, <1>10, <2>3, <2>5 DEF OnTheWay
  <2>7. QED
    BY <2>1, <2>6 DEF GoesOn, Midway
<1>12. CASE updater.by # "tree"
  <2>1. updater.by = "function" /\ updater.f \in [State -> State \cup {Failed}]
    BY <1>1, <1>4, <1>12 DEF Updating
  <2> DEFINE x == updater.f[t]
  <2>2. CASE x # Failed
    <3>1. x \in State
      BY <1>2, <2>1, <2>2
    <3>2. /\ event' = InState(event, x) /\ frames' = Append(Below, f) /\ at' = NoNode
          /\ UNCHANGED <<outcome, output>>
      BY <1>2, <1>12, <2>2 DEF Update, f
    <3>3. r = Brings(x, <<>>, <<>>)
      BY <1>6, <1>7, <1>12, <2>2 DEF ThenUpdate
    <3> HIDE DEF x, r
    <3>4. InState(event, x) \in LabelerEvent /\ Pending(NoNode, InState(event, x)) = r
      BY <1>2, <3>1, <3>3, InStateFacts DEF Pending
    <3>5. OnTheWay(NoNode, InState(event, x), Append(Below, f))
      BY <1>10, <3>4 DEF OnTheWay
    <3>6. QED
      BY <3>2, <3>5 DEF GoesOn, Midway
  <2>3. CASE x = Failed
    <3>1. Fail("update")
      BY <1>12, <2>3 DEF Update
    <3>2. r = FailsWith("update")
      BY <1>6, <1>7, <1>12, <2>3 DEF ThenUpdate
    <3>3. r.error = "update" /\ "update" \in MeaningErrors
      BY <3>2 DEF FailsWith, MeaningErrors
    <3>4. QED
      BY <1>2, <1>10, <3>1, <3>3, ErrorEnds
  <2>4. QED
    BY <2>2, <2>3
<1>13. QED
  BY <1>11, <1>12

LEMMA UpdatedMeans ==
  ASSUME Midway, Updated
  PROVE  GoesOn \/ EndsInError
<1> DEFINE n == Top.node
           t == StateOf(event)
           len == Len(tree[n].updaters)
<1>1. Returned("updates") /\ Top.next \notin DOMAIN tree[n].updaters
      /\ ApplyChild(n, event, Below)
  BY DEF Updated
<1>2. /\ Calling /\ at = NoNode /\ Top \in UpdatesFrame /\ Below \in Seq(FrameType)
      /\ event \in LabelerEvent /\ t \in State
      /\ n \in Nodes /\ n \in Reachable[Root] /\ tree[n].kind = "updates"
      /\ Top.next - 1 \in 0 .. len
      /\ event.people = <<>> /\ event.pools = <<>>
  BY <1>1, UpdatesTop
<1>3. PICK s \in State : /\ Way(Below, Meaning[n][s])
                         /\ FirstUpdates(Meaning, n, s)[Top.next - 1] = Brings(t, <<>>, <<>>)
  BY <1>1, UpdatesTop
<1>4. len \in Nat /\ DOMAIN tree[n].updaters = 1 .. len
      /\ Meaning[n][s] = UpdatesMeaning(Meaning, n, s)
  BY <1>2, UpdatesMean DEF Updating
<1>5. Top.next - 1 = len
  <2>1. Top.next \in Nat \ {0}
    BY <1>2 DEF UpdatesFrame
  <2>2. QED
    BY <1>1, <1>2, <1>4, <2>1
<1>6. Meaning[n][s] = ChildMeaning(Meaning, n, t)
  BY <1>3, <1>4, <1>5 DEF UpdatesMeaning, Brings
<1>7. Way(Below, ChildMeaning(Meaning, n, t)) /\ Quiet(event)
  BY <1>2, <1>3, <1>6 DEF Quiet
<1>8. QED
  BY <1>1, <1>2, <1>7, ChildGoesOn DEF Midway

LEMMA ApplyMultiplicityMeans ==
  ASSUME Midway, ApplyMultiplicity
  PROVE  GoesOn \/ EndsInError
<1> DEFINE s == StateOf(event)
           count == tree[at].clone_count[s]
           clones == [i \in 1 .. count |-> CloneState(at, s, i - 1)]
           f == [kind |-> "clones", node |-> at, source |-> event, clones |-> clones,
                 applied |-> 0, people |-> <<>>, pools |-> <<>>]
           r == Brings(s, <<>>, <<>>)
<1>1. Calling /\ outcome = "running" /\ at # NoNode /\ tree[at].kind = "multiplicity"
  BY DEF Midway, ApplyMultiplicity, Applied
<1>2. /\ at \in Nodes /\ at \in Reachable[Root]
      /\ event \in LabelerEvent /\ frames \in Seq(FrameType) /\ s \in State
      /\ event.people = <<>> /\ event.pools = <<>>
      /\ Way(frames, Meaning[at][s])
  BY <1>1, NodeToApply
<1>3. Meaning[at][s] = ClonesMeaning(Meaning, at, s)
  BY <1>1, <1>2, ClonesMean
<1>4. Failed # 1
  BY TreesAssumption
<1>5. CASE count = 1
  <2> DEFINE ev == InState(event, CloneState(at, s, 0))
  <2>1. ApplyChild(at, ev, frames)
    BY <1>4, <1>5 DEF ApplyMultiplicity
  <2>2. CloneState(at, s, 0) \in State
    BY <1>1, <1>2, <1>5, CloneStates
  <2>3. StateOf(ev) = CloneState(at, s, 0) /\ ev \in LabelerEvent /\ Quiet(ev)
    BY <1>2, <2>2, InStateFacts DEF Quiet
  <2>4. Meaning[at][s] = ChildMeaning(Meaning, at, StateOf(ev))
    BY <1>3, <1>4, <1>5, <2>3 DEF ClonesMeaning
  <2> HIDE DEF ev
  <2>5. QED
    BY <1>1, <1>2, <2>1, <2>3, <2>4, ChildGoesOn
<1>6. CASE count = Failed
  <2>1. Fail("multiplicity")
    BY <1>4, <1>6 DEF ApplyMultiplicity
  <2>2. Meaning[at][s] = FailsWith("multiplicity")
    BY <1>3, <1>6 DEF ClonesMeaning
  <2>3. FailsWith("multiplicity").error = "multiplicity" /\ "multiplicity" \in MeaningErrors
    BY DEF FailsWith, MeaningErrors
  <2>4. QED
    BY <1>1, <1>2, <2>1, <2>2, <2>3, ErrorEnds
<1>7. CASE count \notin {1, Failed}
  <2>1. /\ frames' = Append(frames, f) /\ at' = NoNode
        /\ UNCHANGED <<event, outcome, output>>
    BY <1>7 DEF ApplyMultiplicity
  <2>2. count \in Nat /\ \A i \in 0 .. count - 1 : CloneState(at, s, i) \in State
    BY <1>1, <1>2, <1>7, CloneStates
  <2>3. clones \in Seq(State)
    <3>1. \A i \in 1 .. count : CloneState(at, s, i - 1) \in State
      <4>1. \A i \in 1 .. count : i - 1 \in 0 .. count - 1
        BY <2>2
      <4>2. QED
        BY <2>2, <4>1
    <3> HIDE DEF count
    <3>2. QED
      BY <2>2, <3>1
  <2> HIDE DEF clones
  <2>4. f \in FrameType
    <3>1. <<>> \in Seq(VirtualPersonActivity) /\ <<>> \in Seq(PoolAssignment)
      OBVIOUS
    <3>2. QED
      BY <1>2, <2>3, <3>1 DEF FrameType, ClonesFrame
  <2>5. /\ f.kind = "clones" /\ f.node = at /\ f.source = event /\ f.clones = clones
        /\ f.applied = 0 /\ f.people = <<>> /\ f.pools = <<>>
    OBVIOUS
  <2> HIDE DEF f
  <2>6. ClonesTake(f, r, s)
    <3>1. Quiet(f) /\ Quiet(f.source) /\ f.applied \in 0 .. count
      BY <1>2, <2>2, <2>5 DEF Quiet
    <3>2. QED
      BY <1>1, <1>7, <2>5, <3>1 DEF ClonesTake, clones
  <2>7. FrameTakes(f, r, Meaning[at][s])
    BY <1>2, <2>5, <2>6 DEF FrameTakes
  <2>8. r \in Results
    BY <1>2, BringsNothing
  <2>9. Way(Append(frames, f), r) /\ Append(frames, f) \in Seq(FrameType)
    BY <1>2, <2>4, <2>7, <2>8, WayPushed
  <2>10. Pending(NoNode, event) = r
    BY <1>2 DEF Pending
  <2>11. OnTheWay(NoNode, event, Append(frames, f))
    BY <1>2, <2>9, <2>10 DEF OnTheWay
  <2>12. QED
    BY <1>1, <2>1, <2>11 DEF GoesOn
<1>8. QED
  BY <1>5, <1>6, <1>7

\* The innermost call of a branch node with a multiplicity: what the clone that
\* has returned brings, and what all before bring together.
LEMMA ClonesTop ==
  ASSUME Midway, Returned("clones")
  PROVE  /\ Calling /\ at = NoNode /\ outcome = "running"
         /\ Top \in ClonesFrame /\ Below \in Seq(FrameType)
         /\ Collect(Top) \in ClonesFrame
         /\ Top.node \in Nodes /\ Top.node \in Reachable[Root]
         /\ tree[Top.node].kind = "multiplicity"
         /\ LET f == Collect(Top)
                n == Top.node
                s == StateOf(Top.source)
                count == tree[n].clone_count[s]
            IN  /\ s \in State /\ Quiet(Top.source) /\ Top.source \in LabelerEvent
                /\ f.kind = "clones" /\ f.node = n /\ f.source = Top.source
                /\ f.clones = Top.clones /\ f.applied = Top.applied
                /\ count \in Nat /\ count \notin {1, Failed}
                /\ Top.clones = [i \in 1 .. count |-> CloneState(n, s, i - 1)]
                /\ Top.applied \in 0 .. count
                /\ Way(Below, Meaning[n][s])
                /\ FirstClones(Meaning, n, s)[Top.applied] = Brings(s, f.people, f.pools)
<1> DEFINE r == Brings(StateOf(event), event.people, event.pools)
           n == Top.node
           f == Collect(Top)
<1>1. Calling /\ at = NoNode /\ frames # <<>> /\ Top.kind = "clones" /\ outcome = "running"
      /\ OnTheWay(NoNode, event, frames)
  BY DEF Midway, Returned, Top
<1>2. /\ Top \in FrameType /\ Below \in Seq(FrameType) /\ event \in LabelerEvent
      /\ n \in Nodes /\ n \in Reachable[Root]
  BY <1>1, TopTakes
<1>3. PICK out \in Results : Way(Below, out) /\ FrameTakes(Top, r, out)
  BY <1>1, TopTakes
<1>4. PICK s \in State : out = Meaning[n][s] /\ ClonesTake(Top, r, s)
  BY <1>1, <1>3 DEF FrameTakes
<1> DEFINE count == tree[n].clone_count[s]
<1>5. /\ tree[n].kind = "multiplicity"
      /\ StateOf(Top.source) = s /\ Quiet(Top.source)
      /\ count \notin {1, Failed}
      /\ Top.clones = [i \in 1 .. count |-> CloneState(n, s, i - 1)]
      /\ Top.applied \in 0 .. count
      /\ Top.applied = 0 => r = Brings(s, <<>>, <<>>) /\ Quiet(Top)
  BY <1>4 DEF ClonesTake
<1>6. count \in Nat
  BY <1>1, <1>2, <1>5, CloneStates
<1>7. Top \in ClonesFrame
  BY <1>1, <1>2 DEF FrameType, UpdatesFrame
<1>8. /\ event.people \in Seq(VirtualPersonActivity) /\ event.pools \in Seq(PoolAssignment)
      /\ Top.people \in Seq(VirtualPersonActivity) /\ Top.pools \in Seq(PoolAssignment)
      /\ StateOf(event) \in State /\ Top.source \in LabelerEvent
  BY <1>2, <1>7, StateFacts DEF LabelerEvent, ClonesFrame
<1>9. /\ f \in ClonesFrame /\ f.kind = "clones" /\ f.node = n /\ f.source = Top.source
      /\ f.clones = Top.clones /\ f.applied = Top.applied
      /\ Top.applied = 0 => f = Top
      /\ Top.applied # 0 => f.people = Top.people \o event.people
                            /\ f.pools = Top.pools \o event.pools
  <2>1. CASE Top.applied = 0
    BY <1>1, <1>7, <2>1 DEF Collect
  <2>2. CASE Top.applied # 0
    <3> DEFINE people == Top.people \o event.people
               pools == Top.pools \o event.pools
    <3>1. f = [Top EXCEPT !.people = people, !.pools = pools]
      BY <2>2 DEF Collect
    <3>2. people \in Seq(VirtualPersonActivity) /\ pools \in Seq(PoolAssignment)
      BY <1>8
    <3> HIDE DEF people, pools, f
    <3>3. f \in ClonesFrame
      BY <1>7, <3>1, <3>2 DEF ClonesFrame
    <3>4. f.people = people /\ f.pools = pools /\ f.kind = "clones" /\ f.node = n
          /\ f.source = Top.source /\ f.clones = Top.clones /\ f.applied = Top.applied
      BY <1>1, <1>7, <3>1 DEF ClonesFrame
    <3>5. QED
      BY <2>2, <3>3, <3>4 DEF people, pools
  <2>3. QED
    BY <2>1, <2>2
<1> DEFINE q == FirstClones(Meaning, n, s)[Top.applied]
<1>10. q = Brings(s, f.people, f.pools)
  <2>1. CASE Top.applied = 0
    <3>1. q = r
      BY <1>1, <1>2, <1>4, <2>1, ClonesSoFar
    <3>2. f.people = <<>> /\ f.pools = <<>>
      BY <1>5, <1>9, <2>1 DEF Quiet
    <3>3. QED
      BY <1>5, <2>1, <3>1, <3>2
  <2>2. CASE Top.applied # 0
    <3>1. q = Join(Brings(s, Top.people, Top.pools), r)
      BY <1>1, <1>2, <1>4, <2>2, ClonesSoFar
    <3>2. Join(Brings(s, Top.people, Top.pools), r)
            = Brings(s, Top.people \o event.people, Top.pools \o event.pools)
      BY DEF Join, Brings
    <3>3. QED
      BY <1>9, <2>2, <3>1, <3>2
  <2>3. QED
    BY <2>1, <2>2
<1> HIDE DEF f, q
<1>11. QED
  BY <1>1, <1>2, <1>3, <1>4, <1>5, <1>6, <1>7, <1>8, <1>9, <1>10 DEF f, q

LEMMA ApplyCloneMeans ==
  ASSUME Midway, ApplyClone
  PROVE  GoesOn \/ EndsInError
<1> DEFINE n == Top.node
           s == StateOf(Top.source)
           count == tree[n].clone_count[s]
           f == Collect(Top)
           a == Top.applied
           g == [f EXCEPT !.applied = @ + 1]
           c == Top.clones[a + 1]
           ev == InState(Top.source, c)
           r == ChildMeaning(Meaning, n, c)
<1>1. Returned("clones") /\ a < Len(Top.clones) /\ ApplyChild(n, ev, Append(Below, g))
  BY DEF ApplyClone, CloneOf
<1>2. /\ Calling /\ outcome = "running"
      /\ Below \in Seq(FrameType) /\ f \in ClonesFrame
      /\ n \in Nodes /\ n \in Reachable[Root] /\ tree[n].kind = "multiplicity"
      /\ s \in State /\ Quiet(Top.source) /\ Top.source \in LabelerEvent
      /\ f.kind = "clones" /\ f.node = n /\ f.source = Top.source
      /\ f.clones = Top.clones /\ f.applied = a
      /\ count \in Nat /\ count \notin {1, Failed}
      /\ Top.clones = [i \in 1 .. count |-> CloneState(n, s, i - 1)]
      /\ a \in 0 .. count
      /\ Way(Below, Meaning[n][s])
      /\ FirstClones(Meaning, n, s)[a] = Brings(s, f.people, f.pools)
  BY <1>1, ClonesTop
<1> HIDE DEF f, s, n
<1>3. Len(Top.clones) = count
  <2> HIDE DEF count
  <2>1. QED
    BY <1>2
<1>4. a + 1 \in 1 .. count /\ a + 1 \in 0 .. count /\ a \in 0 .. count - 1 /\ a + 1 # 0
      /\ a + 1 \in Nat /\ (a + 1) - 1 = a
  <2> HIDE DEF count, a
  <2>1. QED
    BY <1>1, <1>2, <1>3
<1>5. c = CloneState(n, s, a) /\ c \in State
  <2>1. c = CloneState(n, s, (a + 1) - 1)
    BY <1>2, <1>4
  <2>2. CloneState(n, s, a) \in State
    BY <1>2, <1>4, CloneStates
  <2>3. QED
    BY <1>4, <2>1, <2>2
<1> HIDE DEF c, a, count
<1>6. g \in ClonesFrame /\ g.applied = a + 1 /\ g.kind = "clones" /\ g.node = n
      /\ g.source = Top.source /\ g.clones = Top.clones
      /\ g.people = f.people /\ g.pools = f.pools
  BY <1>2, <1>4 DEF ClonesFrame
<1> HIDE DEF g
<1>7. r \in Results
  BY <1>2, <1>5, ChildFacts, MeaningFacts
<1>8. ClonesTake(g, r, s)
  <2>1. g.clones[a + 1] = c
    BY <1>6 DEF c, a
  <2>2. r = ChildMeaning(Meaning, n, g.clones[a + 1])
    BY <2>1
  <2>3. StateOf(g.source) = s
    BY <1>6 DEF s
  <2>4. FirstClones(Meaning, n, s)[(a + 1) - 1] = Brings(s, f.people, f.pools)
    BY <1>2, <1>4
  <2> HIDE DEF r
  <2>5. QED
    BY <1>2, <1>4, <1>6, <2>2, <2>3, <2>4 DEF ClonesTake, count
<1>9. FrameTakes(g, r, Meaning[n][s])
  BY <1>2, <1>6, <1>8 DEF FrameTakes
<1>10. Way(Append(Below, g), r) /\ Append(Below, g) \in Seq(FrameType)
  <2>1. g \in FrameType
    BY <1>6 DEF FrameType
  <2> HIDE DEF r
  <2>2. QED
    BY <1>2, <1>7, <1>9, <2>1, WayPushed
<1>11. ev \in LabelerEvent /\ StateOf(ev) = c /\ Quiet(ev)
  BY <1>2, <1>5, InStateFacts DEF Quiet
<1>12. ApplyChild(n, ev, Append(Below, g))
  BY <1>1 DEF n, c, f, a, g
<1> HIDE DEF ev
<1>13. QED
  BY <1>2, <1>10, <1>11, <1>12, ChildGoesOn

LEMMA MergeClonesMeans ==
  ASSUME Midway, MergeClones
  PROVE  GoesOn
<1> DEFINE n == Top.node
           s == StateOf(Top.source)
           count == tree[n].clone_count[s]
           f == Collect(Top)
           source == Top.source
           ev == [source EXCEPT !.people = @ \o f.people, !.pools = @ \o f.pools]
<1>1. /\ Returned("clones") /\ Top.applied = Len(Top.clones)
      /\ event' = ev /\ frames' = Below /\ at' = at
      /\ UNCHANGED <<outcome, output>>
  BY DEF MergeClones
<1>2. /\ Calling /\ outcome = "running" /\ at = NoNode
      /\ Below \in Seq(FrameType) /\ f \in ClonesFrame
      /\ n \in Nodes /\ n \in Reachable[Root] /\ tree[n].kind = "multiplicity"
      /\ s \in State /\ Quiet(source) /\ source \in LabelerEvent
      /\ count \in Nat /\ count \notin {1, Failed}
      /\ Top.clones = [i \in 1 .. count |-> CloneState(n, s, i - 1)]
      /\ Way(Below, Meaning[n][s])
      /\ FirstClones(Meaning, n, s)[Top.applied] = Brings(s, f.people, f.pools)
  BY <1>1, ClonesTop
<1>3. Top.applied = count
  <2> HIDE DEF count
  <2>1. QED
    BY <1>1, <1>2
<1>4. Meaning[n][s] = Brings(s, f.people, f.pools)
  <2>1. Meaning[n][s] = ClonesMeaning(Meaning, n, s)
    BY <1>2, ClonesMean
  <2>2. ClonesMeaning(Meaning, n, s) = FirstClones(Meaning, n, s)[count]
    BY <1>2 DEF ClonesMeaning
  <2>3. QED
    BY <1>2, <1>3, <2>1, <2>2
<1> DEFINE people == f.people
           pools == f.pools
<1>5. people \in Seq(VirtualPersonActivity) /\ pools \in Seq(PoolAssignment)
  BY <1>2 DEF ClonesFrame
<1>6. ev = [source EXCEPT !.people = people, !.pools = pools]
  <2>1. source.people = <<>> /\ source.pools = <<>>
    BY <1>2 DEF Quiet
  <2>2. source.people \o people = people /\ source.pools \o pools = pools
    <3> HIDE DEF people, pools, source
    <3>1. QED
      BY <1>5, <2>1
  <2>3. QED
    BY <2>2
<1> HIDE DEF people, pools, ev
<1>7. ev \in LabelerEvent
  BY <1>2, <1>5, <1>6 DEF LabelerEvent
<1>8. ev.people = people /\ ev.pools = pools /\ ev.fp = source.fp /\ ev.fields = source.fields
  BY <1>2, <1>6 DEF LabelerEvent
<1>9. StateOf(ev) = s
  BY <1>8 DEF StateOf
<1>10. Pending(NoNode, ev) = Meaning[n][s]
  BY <1>4, <1>8, <1>9 DEF Pending, people, pools
<1>11. OnTheWay(NoNode, ev, Below)
  BY <1>2, <1>7, <1>10 DEF OnTheWay
<1>12. QED
  BY <1>1, <1>2, <1>11 DEF GoesOn
-----------------------------------------------------------------------------
\* A leaf brings what it means.
LEMMA LeafGoesOn ==
  ASSUME Midway, at # NoNode, NEW ev \in LabelerEvent, LeafReturns(ev),
         Meaning[at][StateOf(event)] = Brings(StateOf(ev), ev.people, ev.pools)
  PROVE  GoesOn
<1>1. Way(frames, Meaning[at][StateOf(event)]) /\ frames \in Seq(FrameType)
  BY NodeToApply
<1>2. Pending(NoNode, ev) = Meaning[at][StateOf(event)]
  BY DEF Pending
<1>3. OnTheWay(NoNode, ev, frames)
  BY <1>1, <1>2 DEF OnTheWay
<1>4. QED
  BY <1>3 DEF GoesOn, LeafReturns, Midway

LEMMA LeafFails ==
  ASSUME Midway, at # NoNode, NEW e \in MeaningErrors, Fail(e),
         Meaning[at][StateOf(event)] = FailsWith(e)
  PROVE  EndsInError
<1>1. Way(frames, FailsWith(e)) /\ frames \in Seq(FrameType) /\ Calling
  BY NodeToApply DEF Midway
<1>2. FailsWith(e).error = e
  BY DEF FailsWith
<1>3. QED
  BY <1>1, <1>2, ErrorEnds

LEMMA PersonGoesOn ==
  ASSUME Midway, at # NoNode, NEW vid \in Nat, NEW ranked \in BOOLEAN,
         AddPerson(vid, ranked),
         Meaning[at][StateOf(event)] = PersonOf(StateOf(event), at, vid, ranked)
  PROVE  GoesOn \/ EndsInError
<1> DEFINE p == [vid |-> vid, leaf |-> at, ranked |-> ranked]
           s == StateOf(event)
           ev == [event EXCEPT !.people = <<p>>]
<1>1. at \in Nodes /\ event \in LabelerEvent /\ event.people = <<>> /\ event.pools = <<>>
  BY NodeToApply
<1>2. s.fields = event.fields
  BY DEF StateOf
<1>3. CASE event.fields \in Collapsible
  <2>1. p \in VirtualPersonActivity
    BY <1>1 DEF VirtualPersonActivity
  <2>2. LeafReturns([event EXCEPT !.people = Append(@, p)])
    BY <1>3 DEF AddPerson
  <2>3. PersonOf(s, at, vid, ranked) = Brings(s, <<p>>, <<>>)
    BY <1>2, <1>3 DEF PersonOf
  <2> HIDE DEF p
  <2>4. Append(<<>>, p) = <<p>> /\ <<p>> \in Seq(VirtualPersonActivity)
    BY <2>1
  <2>5. LeafReturns(ev)
    BY <1>1, <2>2, <2>4
  <2>6. ev \in LabelerEvent
    BY <1>1, <2>4 DEF LabelerEvent
  <2>7. ev.people = <<p>> /\ ev.pools = <<>> /\ StateOf(ev) = s
    BY <1>1 DEF LabelerEvent, StateOf
  <2> HIDE DEF ev
  <2>8. QED
    BY <2>3, <2>5, <2>6, <2>7, LeafGoesOn
<1>4. CASE event.fields \notin Collapsible
  <2>1. Fail("label") /\ "label" \in MeaningErrors
    BY <1>4 DEF AddPerson, MeaningErrors
  <2>2. PersonOf(s, at, vid, ranked) = FailsWith("label")
    BY <1>2, <1>4 DEF PersonOf
  <2>3. QED
    BY <2>1, <2>2, LeafFails
<1>5. QED
  BY <1>3, <1>4

\* An event that comes to a node has no people.
LEMMA LeafMeans ==
  ASSUME Midway, at # NoNode
  PROVE  /\ Calling /\ at \in Nodes /\ input \in LabelerInput /\ mode \in Modes
         /\ event \in LabelerEvent /\ event.people = <<>> /\ event.pools = <<>>
         /\ StateOf(event) \in State /\ StateOf(event).fp = event.fp
         /\ event.fp \in Fingerprints
         /\ Meaning[at][StateOf(event)] = NodeMeaning(Meaning, at, StateOf(event))
<1>1. Calling /\ input \in LabelerInput /\ mode \in Modes
  BY DEF Midway, Calling
<1>2. at \in Nodes /\ event \in LabelerEvent /\ event.people = <<>> /\ event.pools = <<>>
      /\ StateOf(event) \in State
  BY NodeToApply
<1>3. StateOf(event).fp = event.fp
  BY DEF StateOf
<1>4. event.fp \in Fingerprints
  BY <1>2 DEF LabelerEvent
<1>5. Meaning[at][StateOf(event)] = NodeMeaning(Meaning, at, StateOf(event))
  BY <1>1, <1>2, MeaningFacts
<1>6. QED
  BY <1>1, <1>2, <1>3, <1>4, <1>5

LEMMA ApplyStopMeans ==
  ASSUME Midway, ApplyStop
  PROVE  GoesOn
<1>1. at # NoNode /\ tree[at].kind = "stop" /\ LeafReturns(event)
  BY DEF ApplyStop, Applied
<1>2. NodeMeaning(Meaning, at, StateOf(event)) = Brings(StateOf(event), <<>>, <<>>)
  BY <1>1 DEF NodeMeaning
<1>3. QED
  BY <1>1, <1>2, LeafMeans, LeafGoesOn

LEMMA ApplyPopulationMeans ==
  ASSUME Midway, ApplyPopulation
  PROVE  GoesOn \/ EndsInError
<1> DEFINE s == StateOf(event)
           vid == tree[at].vid[event.fp]
<1>1. at # NoNode /\ tree[at].kind = "population"
  BY DEF ApplyPopulation, Applied
<1>2. /\ Calling /\ at \in Nodes /\ event \in LabelerEvent
      /\ event.people = <<>> /\ event.pools = <<>> /\ event.fp \in Fingerprints
      /\ s.fp = event.fp /\ mode \in Modes
      /\ Meaning[at][s] = NodeMeaning(Meaning, at, s)
  BY <1>1, LeafMeans
<1>3. CASE mode = "pool_identity"
  <2>1. LeafReturns(event)
    BY <1>2, <1>3 DEF ApplyPopulation
  <2>2. NodeMeaning(Meaning, at, s) = Brings(s, <<>>, <<>>)
    BY <1>1, <1>3 DEF NodeMeaning
  <2>3. QED
    BY <1>1, <1>2, <2>1, <2>2, LeafGoesOn
<1>4. CASE mode = "full"
  <2>1. AddPerson(vid, FALSE)
    BY <1>2, <1>4 DEF ApplyPopulation
  <2>2. NodeMeaning(Meaning, at, s) = PersonOf(s, at, vid, FALSE)
    BY <1>1, <1>2, <1>4 DEF NodeMeaning
  <2>3. vid \in Nat
    BY <1>1, <1>2, NodeFacts DEF Calling
  <2>4. QED
    BY <1>1, <1>2, <2>1, <2>2, <2>3, PersonGoesOn
<1>5. QED
  BY <1>2, <1>3, <1>4 DEF Modes

\* What a ranked leaf means in pass 2, in the terms of its actions.
RankedLeaf(leaf, meant, s) ==
  LET K == RanksFor(leaf.pool_offset)
      unranked ==
        /\ K = {} => input.ranks = <<>>
        /\ \A k \in K : IsFirst(k, K) => input.ranks[k].local_rank >= leaf.ranked_size
  IN  /\ input.ranks # <<>> /\ K = {} => meant = FailsWith("no rank")
      /\ \A k \in K :
           IsFirst(k, K) /\ input.ranks[k].local_rank < leaf.ranked_size =>
             RankedVid(leaf, k) \in Nat /\ meant = PersonOf(s, at, RankedVid(leaf, k), TRUE)
      /\ unranked /\ leaf.unranked_mode = "UNSPECIFIED" =>
           meant = FailsWith("unranked mode")
      /\ unranked /\ leaf.unranked_mode = "DISJOINT" /\ leaf.ranked_size = leaf.pool_size =>
           meant = FailsWith("unranked space")
      /\ \/ unranked /\ leaf.unranked_mode = "DISJOINT" /\ leaf.ranked_size < leaf.pool_size
         \/ unranked /\ leaf.unranked_mode = "FULL_POOL"
         => UnrankedVid(leaf) \in Nat /\ meant = PersonOf(s, at, UnrankedVid(leaf), FALSE)

LEMMA RankedMeans ==
  ASSUME Midway, Applied("ranked")
  PROVE  /\ mode = "pool_identity" =>
              Meaning[at][StateOf(event)]
                = Brings(StateOf(event), <<>>, <<PoolAssignmentOf(tree[at])>>)
         /\ mode = "full" =>
              RankedLeaf(tree[at], Meaning[at][StateOf(event)], StateOf(event))
<1> DEFINE s == StateOf(event)
           leaf == tree[at]
           o == leaf.pool_offset
           K == RanksFor(o)
           first == CHOOSE k \in K : \A j \in K : k <= j
           rank == input.ranks[first].local_rank
           within == leaf.unranked_mode = "FULL_POOL"
           vid == o + leaf.jump[event.fp] + (IF within THEN 0 ELSE leaf.ranked_size)
           meant == Meaning[at][s]
<1>1. at # NoNode /\ tree[at].kind = "ranked"
  BY DEF Applied
<1>2. /\ Calling /\ at \in Nodes /\ input \in LabelerInput
      /\ event.fp \in Fingerprints /\ s.fp = event.fp
      /\ Meaning[at][s] = NodeMeaning(Meaning, at, s)
  BY <1>1, LeafMeans
<1>3. meant = RankedMeaning(at, s)
  BY <1>1, <1>2 DEF NodeMeaning
<1>4. mode = "pool_identity" => meant = Brings(s, <<>>, <<PoolAssignmentOf(leaf)>>)
  BY <1>3 DEF RankedMeaning
<1>5. K = {k \in DOMAIN input.ranks : input.ranks[k].pool_offset = leaf.pool_offset}
  BY DEF RanksFor
<1>6. mode = "full" =>
        meant = IF input.ranks # <<>> /\ K = {} THEN FailsWith("no rank")
                ELSE IF K # {} /\ rank < leaf.ranked_size
                THEN PersonOf(s, at, o + leaf.permute[rank], TRUE)
                ELSE IF leaf.unranked_mode = "UNSPECIFIED" THEN FailsWith("unranked mode")
                ELSE IF ~ within /\ leaf.ranked_size = leaf.pool_size
                THEN FailsWith("unranked space")
                ELSE PersonOf(s, at, vid, FALSE)
  BY <1>2, <1>3, <1>5 DEF RankedMeaning
<1>7. K \in SUBSET Nat /\ \A k \in K : input.ranks[k] \in RankAssignment
  <2>1. input.ranks \in Seq(RankAssignment)
    BY <1>2 DEF LabelerInput
  <2>2. QED
    BY <2>1, <1>5
<1>8. /\ leaf.pool_offset \in Nat /\ leaf.pool_size \in Nat
      /\ leaf.ranked_size \in Nat
      /\ leaf.permute \in [0 .. leaf.ranked_size - 1 -> 0 .. leaf.ranked_size - 1]
      /\ leaf.jump[event.fp] \in Nat
  <2>1. Ranked(leaf)
    BY <1>1, <1>2, NodeFacts DEF Calling
  <2>2. QED
    BY <1>2, <2>1 DEF Ranked
<1>9. \A k \in K : IsFirst(k, K) => k = first
  <2> SUFFICES ASSUME NEW k \in K, IsFirst(k, K) PROVE k = first
    OBVIOUS
  <2>1. \A j \in K : k <= j
    BY DEF IsFirst
  <2> HIDE DEF K
  <2>2. first \in K /\ \A j \in K : first <= j
    BY <2>1
  <2>3. first \in Nat /\ k \in Nat /\ first <= k /\ k <= first
    BY <1>7, <2>1, <2>2
  <2> HIDE DEF first
  <2>4. QED
    BY <2>3
<1>10. K # {} => first \in K /\ IsFirst(first, K)
  <2> HIDE DEF K
  <2>1. K # {} => \E k \in K : \A j \in K : k <= j
    BY <1>7, NatMinimum
  <2>2. QED
    BY <2>1 DEF IsFirst
<1>12. leaf.unranked_mode \in {"FULL_POOL", "DISJOINT"} => UnrankedVid(leaf) = vid
  BY DEF UnrankedVid
<1>13. \A k \in K : input.ranks[k].local_rank < leaf.ranked_size =>
         /\ RankedVid(leaf, k) = o + leaf.permute[input.ranks[k].local_rank]
         /\ RankedVid(leaf, k) \in Nat
  <2> SUFFICES ASSUME NEW k \in K, input.ranks[k].local_rank < leaf.ranked_size
               PROVE  /\ RankedVid(leaf, k) = o + leaf.permute[input.ranks[k].local_rank]
                      /\ RankedVid(leaf, k) \in Nat
    OBVIOUS
  <2> DEFINE l == input.ranks[k].local_rank
  <2>1. RankedVid(leaf, k) = o + leaf.permute[l]
    BY DEF RankedVid
  <2>2. l \in Nat
    BY <1>7 DEF RankAssignment
  <2> HIDE DEF l, leaf
  <2>3. l \in 0 .. leaf.ranked_size - 1
    BY <1>8, <2>2 DEF l
  <2>4. leaf.permute[l] \in 0 .. leaf.ranked_size - 1
    BY <1>8, <2>3
  <2>5. o + leaf.permute[l] \in Nat
    BY <1>8, <2>4
  <2>6. QED
    BY <2>1, <2>5 DEF l
<1>14. vid \in Nat
  BY <1>8
<1>15. ASSUME mode = "full" PROVE RankedLeaf(leaf, meant, s)
  <2> HIDE DEF meant, s, vid, rank, leaf
  <2> DEFINE unranked ==
        /\ K = {} => input.ranks = <<>>
        /\ \A k \in K : IsFirst(k, K) => input.ranks[k].local_rank >= leaf.ranked_size
  <2>1. input.ranks # <<>> /\ K = {} => meant = FailsWith("no rank")
    BY <1>6, <1>15
  <2>2. ASSUME NEW k \in K, IsFirst(k, K), input.ranks[k].local_rank < leaf.ranked_size
        PROVE  RankedVid(leaf, k) \in Nat /\ meant = PersonOf(s, at, RankedVid(leaf, k), TRUE)
    <3>1. K # {} /\ k = first
      BY <1>9, <2>2
    <3>2. rank = input.ranks[k].local_rank
      BY <3>1 DEF rank
    <3> HIDE DEF K, first
    <3>3. meant = PersonOf(s, at, o + leaf.permute[rank], TRUE)
      BY <1>6, <1>15, <2>2, <3>1, <3>2
    <3>4. QED
      BY <1>13, <2>2, <3>2, <3>3
  <2>3. ASSUME unranked
        PROVE  meant = IF leaf.unranked_mode = "UNSPECIFIED"
                       THEN FailsWith("unranked mode")
                       ELSE IF ~ within /\ leaf.ranked_size = leaf.pool_size
                       THEN FailsWith("unranked space")
                       ELSE PersonOf(s, at, vid, FALSE)
    <3>1. ~ (K # {} /\ rank < leaf.ranked_size)
      <4>1. ASSUME K # {} PROVE rank >= leaf.ranked_size /\ rank \in Nat
        <5>1. first \in K /\ IsFirst(first, K)
          BY <1>10, <4>1
        <5>2. rank >= leaf.ranked_size
          BY <2>3, <5>1 DEF rank
        <5>3. rank \in Nat
          BY <1>7, <5>1 DEF rank, RankAssignment
        <5>4. QED
          BY <5>2, <5>3
      <4> HIDE DEF K
      <4>2. QED
        BY <1>8, <4>1
    <3>2. ~ (input.ranks # <<>> /\ K = {})
      BY <2>3
    <3> HIDE DEF K, first, within
    <3>3. QED
      BY <1>6, <1>15, <3>1, <3>2
  <2>4. ASSUME unranked,
               \/ leaf.unranked_mode = "DISJOINT" /\ leaf.ranked_size < leaf.pool_size
               \/ leaf.unranked_mode = "FULL_POOL"
        PROVE  UnrankedVid(leaf) \in Nat /\ meant = PersonOf(s, at, UnrankedVid(leaf), FALSE)
    <3>1. UnrankedVid(leaf) = vid
      BY <1>12, <2>4
    <3>2. leaf.unranked_mode # "UNSPECIFIED"
          /\ ~ (~ within /\ leaf.ranked_size = leaf.pool_size)
      BY <1>8, <2>4
    <3> HIDE DEF unranked
    <3>3. meant = PersonOf(s, at, vid, FALSE)
      BY <2>3, <2>4, <3>2
    <3>4. QED
      BY <1>14, <3>1, <3>3
  <2>5. unranked /\ leaf.unranked_mode = "UNSPECIFIED" => meant = FailsWith("unranked mode")
    <3> HIDE DEF unranked
    <3>1. QED
      BY <2>3
  <2>6. unranked /\ leaf.unranked_mode = "DISJOINT" /\ leaf.ranked_size = leaf.pool_size =>
          meant = FailsWith("unranked space")
    <3> HIDE DEF unranked
    <3>1. QED
      BY <2>3
  <2>7. QED
    BY <2>1, <2>2, <2>4, <2>5, <2>6, Zenon DEF RankedLeaf
<1>16. QED
  BY <1>4, <1>15

LEMMA AnnouncePoolMeans ==
  ASSUME Midway, AnnouncePool
  PROVE  GoesOn
<1> DEFINE q == PoolAssignmentOf(tree[at])
           ev == [event EXCEPT !.pools = <<q>>]
           s == StateOf(event)
<1>1. /\ at # NoNode /\ tree[at].kind = "ranked" /\ Applied("ranked") /\ mode = "pool_identity"
      /\ LeafReturns([event EXCEPT !.pools = Append(@, q)])
  BY DEF AnnouncePool, Applied
<1>2. /\ Calling /\ at \in Nodes /\ event \in LabelerEvent
      /\ event.people = <<>> /\ event.pools = <<>>
  BY <1>1, LeafMeans
<1>3. q \in PoolAssignment
  <2>1. Ranked(tree[at])
    BY <1>1, <1>2, NodeFacts DEF Calling
  <2>2. QED
    BY <2>1 DEF Ranked, PoolAssignmentOf, PoolAssignment
<1>4. Meaning[at][s] = Brings(s, <<>>, <<q>>)
  BY <1>1, RankedMeans
<1> HIDE DEF q
<1>5. Append(<<>>, q) = <<q>> /\ <<q>> \in Seq(PoolAssignment)
  BY <1>3
<1>6. LeafReturns(ev)
  BY <1>1, <1>2, <1>5
<1>7. ev \in LabelerEvent
  BY <1>2, <1>5 DEF LabelerEvent
<1>8. ev.people = <<>> /\ ev.pools = <<q>> /\ StateOf(ev) = s
  BY <1>2 DEF LabelerEvent, StateOf
<1> HIDE DEF ev
<1>9. QED
  BY <1>1, <1>4, <1>6, <1>7, <1>8, LeafGoesOn

LEMMA AddRankedMeans ==
  ASSUME Midway, AddRanked
  PROVE  GoesOn \/ EndsInError
<1> DEFINE leaf == tree[at]
           K == RanksFor(leaf.pool_offset)
           s == StateOf(event)
<1>1. at # NoNode /\ Applied("ranked") /\ mode = "full"
  BY DEF AddRanked, Applied
<1>2. PICK k \in K : /\ IsFirst(k, K)
                     /\ input.ranks[k].local_rank < leaf.ranked_size
                     /\ AddPerson(RankedVid(leaf, k), TRUE)
  BY DEF AddRanked
<1>3. RankedLeaf(leaf, Meaning[at][s], s)
  BY <1>1, RankedMeans
<1>4. RankedVid(leaf, k) \in Nat
      /\ Meaning[at][s] = PersonOf(s, at, RankedVid(leaf, k), TRUE)
  BY <1>2, <1>3 DEF RankedLeaf
<1>5. QED
  BY <1>1, <1>2, <1>4, PersonGoesOn

LEMMA AddUnrankedMeans ==
  ASSUME Midway, AddUnranked
  PROVE  GoesOn \/ EndsInError
<1> DEFINE leaf == tree[at]
           K == RanksFor(leaf.pool_offset)
           s == StateOf(event)
           meant == Meaning[at][s]
           unranked ==
             /\ K = {} => input.ranks = <<>>
             /\ \A k \in K : IsFirst(k, K) => input.ranks[k].local_rank >= leaf.ranked_size
           pooled == \/ leaf.unranked_mode = "DISJOINT" /\ leaf.ranked_size < leaf.pool_size
                     \/ leaf.unranked_mode = "FULL_POOL"
<1>1. at # NoNode /\ Applied("ranked") /\ mode = "full" /\ unranked
  BY DEF AddUnranked, Applied
<1>2. RankedLeaf(leaf, meant, s)
  BY <1>1, RankedMeans
<1>3. CASE pooled /\ AddPerson(UnrankedVid(leaf), FALSE)
  <2>1. UnrankedVid(leaf) \in Nat /\ meant = PersonOf(s, at, UnrankedVid(leaf), FALSE)
    BY <1>1, <1>2, <1>3 DEF RankedLeaf
  <2>2. QED
    BY <1>1, <1>3, <2>1, PersonGoesOn
<1>4. CASE /\ leaf.unranked_mode = "DISJOINT" /\ leaf.ranked_size = leaf.pool_size
           /\ Fail("unranked space")
  <2>1. meant = FailsWith("unranked space") /\ "unranked space" \in MeaningErrors
    BY <1>1, <1>2, <1>4 DEF RankedLeaf, MeaningErrors
  <2>2. QED
    BY <1>1, <1>4, <2>1, LeafFails
<1>5. CASE leaf.unranked_mode = "UNSPECIFIED" /\ Fail("unranked mode")
  <2>1. meant = FailsWith("unranked mode") /\ "unranked mode" \in MeaningErrors
    BY <1>1, <1>2, <1>5 DEF RankedLeaf, MeaningErrors
  <2>2. QED
    BY <1>1, <1>5, <2>1, LeafFails
<1>6. QED
  BY <1>3, <1>4, <1>5 DEF AddUnranked

LEMMA RankedErrorMeans ==
  ASSUME Midway, RankedError
  PROVE  EndsInError
<1> DEFINE s == StateOf(event)
<1>1. at # NoNode /\ Applied("ranked") /\ mode = "full"
  BY DEF RankedError, Applied
<1>2. event.people = <<>>
  BY <1>1, LeafMeans
<1>3. input.ranks # <<>> /\ RanksFor(tree[at].pool_offset) = {} /\ Fail("no rank")
  BY <1>2 DEF RankedError
<1>4. RankedLeaf(tree[at], Meaning[at][s], s)
  BY <1>1, RankedMeans
<1>5. Meaning[at][s] = FailsWith("no rank") /\ "no rank" \in MeaningErrors
  BY <1>3, <1>4 DEF RankedLeaf, MeaningErrors
<1>6. QED
  BY <1>1, <1>3, <1>5, LeafFails

LEMMA ReturnMeans ==
  ASSUME Midway, Return
  PROVE  /\ Goal.error = "none" /\ outcome' = "ok" /\ frames' = <<>>
         /\ output' = [people |-> Goal.people, pools |-> Goal.pools]
<1>1. Calling /\ at = NoNode /\ frames = <<>> /\ OnTheWay(NoNode, event, <<>>)
  BY DEF Midway, Return
<1>2. Way(<<>>, Brings(StateOf(event), event.people, event.pools))
  BY <1>1 DEF OnTheWay, Pending
<1>3. Goal = Brings(StateOf(event), event.people, event.pools)
  BY <1>1, <1>2, WayStarts
<1>4. QED
  BY <1>1, <1>3 DEF Return, Brings
-----------------------------------------------------------------------------
\* What a model means depends on nothing that a step of a call changes.
SameCall == tree' = tree /\ input' = input /\ mode' = mode

LEMMA SameMeaning ==
  ASSUME SameCall
  PROVE  Meaning' = Meaning
BY DEF SameCall, Meaning, NodeMeaning, UpdatesMeaning, ClonesMeaning, FirstUpdates,
       FirstClones, ChildMeaning, ThenUpdate, RankedMeaning, PersonOf, CloneState,
       Brings, FailsWith, Join, PoolAssignmentOf

LEMMA SameReachable ==
  ASSUME SameCall
  PROVE  Reachable' = Reachable
BY DEF SameCall, Reachable

LEMMA SameParts ==
  ASSUME SameCall
  PROVE  \A n, s : /\ (FirstUpdates(Meaning, n, s))' = FirstUpdates(Meaning, n, s)
                   /\ (FirstClones(Meaning, n, s))' = FirstClones(Meaning, n, s)
                   /\ (ChildMeaning(Meaning, n, s))' = ChildMeaning(Meaning, n, s)
                   /\ \A i : (CloneState(n, s, i))' = CloneState(n, s, i)
<1>1. Meaning' = Meaning
  BY SameMeaning
<1>2. ASSUME NEW n, NEW s PROVE (ChildMeaning(Meaning, n, s))' = ChildMeaning(Meaning, n, s)
  BY <1>1 DEF ChildMeaning, SameCall
<1>3. ASSUME NEW n, NEW s, NEW i PROVE (CloneState(n, s, i))' = CloneState(n, s, i)
  BY DEF CloneState, SameCall
<1>4. ASSUME NEW n, NEW s PROVE (FirstUpdates(Meaning, n, s))' = FirstUpdates(Meaning, n, s)
  BY <1>1 DEF FirstUpdates, ThenUpdate, SameCall
<1>5. ASSUME NEW n, NEW s PROVE (FirstClones(Meaning, n, s))' = FirstClones(Meaning, n, s)
  BY <1>1, <1>2, <1>3 DEF FirstClones, ChildMeaning, CloneState, SameCall
<1>6. QED
  BY <1>2, <1>3, <1>4, <1>5

LEMMA SameFrame ==
  ASSUME SameCall, NEW f, NEW r, NEW out
  PROVE  (FrameTakes(f, r, out))' <=> FrameTakes(f, r, out)
<1>1. tree' = tree /\ Reachable' = Reachable /\ Meaning' = Meaning
  BY SameMeaning, SameReachable DEF SameCall
<1>2. \A s : (UpdatesTake(f, r, s))' <=> UpdatesTake(f, r, s)
  BY <1>1, SameParts DEF UpdatesTake
<1>3. \A s : (ClonesTake(f, r, s))' <=> ClonesTake(f, r, s)
  <2> SUFFICES ASSUME NEW s PROVE (ClonesTake(f, r, s))' <=> ClonesTake(f, r, s)
    OBVIOUS
  <2>1. (ChildMeaning(Meaning, f.node, f.clones[f.applied]))'
          = ChildMeaning(Meaning, f.node, f.clones[f.applied])
    BY SameParts
  <2>2. (FirstClones(Meaning, f.node, s))' = FirstClones(Meaning, f.node, s)
    BY SameParts
  <2>3. [i \in 1 .. tree[f.node].clone_count[s] |-> CloneState(f.node, s, i - 1)]'
          = [i \in 1 .. tree[f.node].clone_count[s] |-> CloneState(f.node, s, i - 1)]
    <3>1. \A i : (CloneState(f.node, s, i))' = CloneState(f.node, s, i)
      BY SameParts
    <3>2. QED
      BY <1>1, <3>1
  <2>4. QED
    BY <1>1, <2>1, <2>2, <2>3 DEF ClonesTake
<1>4. QED
  BY <1>1, <1>2, <1>3 DEF FrameTakes

LEMMA SameGoal ==
  ASSUME SameCall
  PROVE  Goal' = Goal
BY SameMeaning DEF Goal, SameCall, NewEvent, StateOf

LEMMA CallStarts ==
  Calling => OnTheWay(Root, NewEvent(input), <<>>)
<1> SUFFICES ASSUME Calling PROVE OnTheWay(Root, NewEvent(input), <<>>)
  OBVIOUS
<1>1. Root \in Nodes /\ Root # NoNode /\ Root \in Reachable[Root]
  BY TreesAssumption, ReachableFacts
<1>2. NewEvent(input) \in LabelerEvent /\ Quiet(NewEvent(input))
  <2>1. <<>> \in Seq(VirtualPersonActivity) /\ <<>> \in Seq(PoolAssignment)
    OBVIOUS
  <2>2. QED
    BY <2>1, TreesAssumption DEF Calling, LabelerInput, NewEvent, LabelerEvent, Quiet
<1>3. Way(<<>>, Goal) /\ <<>> \in Seq(FrameType)
  BY WayStarts
<1>4. Pending(Root, NewEvent(input)) = Goal
  BY <1>1 DEF Pending, Goal
<1>5. QED
  BY <1>1, <1>2, <1>3, <1>4 DEF OnTheWay

LEMMA CallStartsNext ==
  Calling' => (OnTheWay(Root, NewEvent(input), <<>>))'
BY CallStarts, PTL

LEMMA SameWay ==
  ASSUME SameCall
  PROVE  (OnTheWay(at, event, frames))' <=> OnTheWay(at', event', frames')
<1>1. Meaning' = Meaning /\ Reachable' = Reachable /\ Goal' = Goal
  BY SameMeaning, SameReachable, SameGoal
<1>2. \A R : (Chain(frames, R))' <=> Chain(frames', R)
  BY <1>1, SameFrame DEF Chain
<1>3. (Pending(at, event))' = Pending(at', event')
  BY <1>1 DEF Pending, Brings, StateOf
<1>4. (Way(frames, Pending(at, event)))' <=> Way(frames', Pending(at', event'))
  BY <1>2, <1>3 DEF Way
<1>5. QED
  BY <1>1, <1>4 DEF OnTheWay, Quiet

LEMMA SameStops ==
  ASSUME tree' = tree
  PROVE  StopsUpdates' <=> StopsUpdates
<1>1. Reachable' = Reachable
  BY DEF Reachable
<1>2. QED
  BY <1>1 DEF StopsUpdates, UpdateRoots

\* The answer of a call.
IsAnswer ==
  \/ /\ outcome = "ok" /\ Goal.error = "none"
     /\ output = [people |-> Goal.people, pools |-> Goal.pools]
  \/ outcome \in MeaningErrors /\ outcome = Goal.error /\ output = Nothing

\* What makes OutputIsMeaning inductive: every result on the way from the root
\* to the node at work is the meaning of its node, if what is to come is.
MeaningInv ==
  StopsUpdates =>
    /\ tree \in Trees
    /\ outcome # "idle" => Calling
    /\ outcome # "running" => frames = <<>>
    /\ outcome = "running" => OnTheWay(at, event, frames) /\ output = Nothing
    /\ outcome \notin {"idle", "running"} => IsAnswer

LEMMA MeaningStarts ==
  LabelerInit => MeaningInv
BY DEF LabelerInit, MeaningInv

LEMMA LabelMeans ==
  ASSUME MeaningInv, NEW in \in LabelerInput, NEW m \in Modes, Label(in, m)
  PROVE  MeaningInv'
<1> SUFFICES ASSUME StopsUpdates' PROVE MeaningInv'
  BY DEF MeaningInv
<1>1. StopsUpdates
  BY SameStops DEF Label
<1>2. tree' \in Trees /\ Calling'
  BY <1>1 DEF MeaningInv, Label, Calling
<1>3. frames' = <<>> /\ at' = Root /\ outcome' = "running" /\ output' = Nothing
  BY <1>1 DEF MeaningInv, Label
<1>4. event' = (NewEvent(input))'
  BY DEF Label, NewEvent
<1>5. (OnTheWay(Root, NewEvent(input), <<>>))'
  BY <1>2, CallStartsNext
<1>6. (OnTheWay(at, event, frames))'
  BY <1>3, <1>4, <1>5 DEF OnTheWay, Pending, Way, Chain
<1>7. QED
  BY <1>2, <1>3, <1>6 DEF MeaningInv, Nothing

LEMMA ApplyMeans ==
  ASSUME MeaningInv, Apply
  PROVE  MeaningInv'
<1> SUFFICES ASSUME StopsUpdates' PROVE MeaningInv'
  BY DEF MeaningInv
<1>1. SameCall /\ outcome = "running"
  BY DEF Apply, ApplyUpdates, Update, Updated, ApplyMultiplicity, ApplyClone,
     MergeClones, ApplyStop, ApplyPopulation, AnnouncePool, AddRanked, AddUnranked,
     RankedError, Return, ApplyChild, LeafReturns, AddPerson, Fail, Applied, Returned,
     SameCall
<1>2. StopsUpdates
  BY <1>1, SameStops DEF SameCall
<1>3. Midway /\ output = Nothing /\ tree \in Trees
  BY <1>1, <1>2 DEF MeaningInv, Midway
<1>4. CASE GoesOn
  <2>1. (OnTheWay(at, event, frames))'
    BY <1>1, <1>4, SameWay DEF GoesOn
  <2>2. outcome' = "running" /\ output' = Nothing /\ tree' \in Trees /\ Calling'
    BY <1>1, <1>3, <1>4 DEF GoesOn, SameCall, Midway, Calling
  <2>3. QED
    BY <2>1, <2>2 DEF MeaningInv, Nothing
<1>5. CASE EndsInError
  <2>1. /\ outcome' \in MeaningErrors /\ outcome' = (Goal.error)'
        /\ output' = Nothing /\ frames' = <<>>
    BY <1>1, <1>3, <1>5, SameGoal DEF EndsInError
  <2>2. IsAnswer'
    BY <2>1 DEF IsAnswer, Nothing
  <2>3. tree' \in Trees /\ Calling' /\ outcome' # "running"
    BY <1>1, <1>3, <2>1, FailsFacts DEF SameCall, Midway, Calling
  <2>4. QED
    BY <2>1, <2>2, <2>3 DEF MeaningInv
<1>6. CASE Return
  <2>1. /\ outcome' = "ok" /\ (Goal.error)' = "none" /\ frames' = <<>>
        /\ output' = [people |-> (Goal.people)', pools |-> (Goal.pools)']
    BY <1>1, <1>3, <1>6, ReturnMeans, SameGoal
  <2>2. IsAnswer'
    BY <2>1 DEF IsAnswer
  <2>3. tree' \in Trees /\ Calling'
    BY <1>1, <1>3 DEF SameCall, Midway, Calling
  <2>4. QED
    BY <2>1, <2>2, <2>3 DEF MeaningInv
<1>7. CASE ~ Return
  BY <1>3, <1>4, <1>5, <1>7, ApplyUpdatesMeans, UpdateMeans, UpdatedMeans,
     ApplyMultiplicityMeans, ApplyCloneMeans, MergeClonesMeans, ApplyStopMeans,
     ApplyPopulationMeans, AnnouncePoolMeans, AddRankedMeans, AddUnrankedMeans,
     RankedErrorMeans DEF Apply
<1>8. QED
  BY <1>6, <1>7

LEMMA StutterMeans ==
  ASSUME MeaningInv, UNCHANGED labelerVars
  PROVE  MeaningInv'
<1> SUFFICES ASSUME StopsUpdates' PROVE MeaningInv'
  BY DEF MeaningInv
<1>1. /\ SameCall /\ at' = at /\ event' = event /\ frames' = frames /\ outcome' = outcome
      /\ output' = output
  BY DEF labelerVars, SameCall
<1>2. StopsUpdates
  BY <1>1, SameStops DEF SameCall
<1>3. IsAnswer' <=> IsAnswer
  BY <1>1, SameGoal DEF IsAnswer, Nothing
<1>4. (OnTheWay(at, event, frames))' <=> OnTheWay(at, event, frames)
  BY <1>1, SameWay
<1>5. Calling' <=> Calling
  BY <1>1 DEF SameCall, Calling
<1>6. QED
  BY <1>1, <1>2, <1>3, <1>4, <1>5 DEF MeaningInv, Nothing, SameCall

LEMMA MeaningInductive ==
  ASSUME MeaningInv, [LabelingNext]_labelerVars
  PROVE  MeaningInv'
<1>1. CASE UNCHANGED labelerVars
  BY <1>1, StutterMeans
<1>2. CASE Apply
  BY <1>2, ApplyMeans
<1>3. ASSUME NEW e \in Events, NEW fp \in Fingerprints \cup {NoEvent}, NEW f \in Fields,
             NEW r \in RanksGiven, NEW m \in Modes,
             Label([event |-> e, fp |-> fp, fields |-> f, ranks |-> r], m)
      PROVE  MeaningInv'
  <2> DEFINE in == [event |-> e, fp |-> fp, fields |-> f, ranks |-> r]
  <2>1. in \in LabelerInput
    BY MeaningAssumption DEF LabelerInput
  <2> HIDE DEF in
  <2>2. Label(in, m)
    BY <1>3 DEF in
  <2>3. QED
    BY <2>1, <2>2, LabelMeans
<1>4. QED
  BY <1>1, <1>2, <1>3 DEF LabelingNext

LEMMA MeaningInvMeans ==
  MeaningInv => OutputIsMeaning
<1> SUFFICES ASSUME MeaningInv, StopsUpdates, outcome \notin {"idle", "running"}
             PROVE  OutputIsMeaning
  BY DEF OutputIsMeaning
<1>1. IsAnswer
  BY DEF MeaningInv
<1>2. Goal = Meaning[Root][[fp |-> IF input.fp = NoEvent THEN Default ELSE input.fp,
                            fields |-> input.fields]]
  BY DEF Goal, NewEvent, StateOf
<1>3. \A e \in MeaningErrors : e # "ok"
  BY FailsFacts
<1>4. QED
  BY <1>1, <1>2, <1>3 DEF IsAnswer, OutputIsMeaning

\* OutputIsMeaning for every model, input and mode: the walk with its stack of
\* Apply calls, its one event and its clones computes the meaning of the root,
\* which knows of no stack, copy or merge.
THEOREM WalkIsMeaning == LabelingSpec => []OutputIsMeaning
<1>1. LabelerInit => MeaningInv
  BY MeaningStarts
<1>2. MeaningInv /\ [LabelingNext]_labelerVars => MeaningInv'
  BY MeaningInductive
<1>3. MeaningInv => OutputIsMeaning
  BY MeaningInvMeans
<1>4. QED
  BY <1>1, <1>2, <1>3, PTL DEF LabelingSpec
=============================================================================
