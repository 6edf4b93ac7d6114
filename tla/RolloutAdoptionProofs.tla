----------------------- MODULE RolloutAdoptionProofs -----------------------
(* Lemmas about the operators of RolloutSchedule, for all sorted lists of   *)
(* rollouts, all days, all ids and all hashes, and with them the theorems   *)
(* about RolloutAdoption, for all lists of rollouts and all days.           *)
EXTENDS RolloutAdoption, WellFoundedInduction, TLAPS

\* Every non-empty set of naturals has a least element.
LEMMA NatMinimum ==
  ASSUME NEW T \in SUBSET Nat, T # {}
  PROVE  \E m \in T : \A k \in T : m <= k
<1> DEFINE R == OpToRel(<, Nat)
<1>1. IsWellFoundedOn(R, Nat)
  BY NatLessThanWellFounded
<1> HIDE DEF R
<1>2. PICK m \in T : \A k \in T : ~ (<<k, m>> \in R)
  BY <1>1, WFMin
<1>3. ASSUME NEW k \in T PROVE m <= k
  <2>1. <<k, m>> \notin R
    BY <1>2, <1>3
  <2>2. ~ (k < m)
    BY <2>1 DEF R, OpToRel
  <2>3. QED
    BY <2>2
<1>4. QED
  BY <1>3

\* Every non-empty set of naturals with an upper bound has a greatest element.
LEMMA NatMaximum ==
  ASSUME NEW T \in SUBSET Nat, T # {}, NEW n \in Nat, \A k \in T : k <= n
  PROVE  \E m \in T : \A k \in T : k <= m
<1> DEFINE B == {b \in Nat : \A k \in T : k <= b}
<1>1. PICK b \in B : \A c \in B : b <= c
  <2>1. n \in B
    OBVIOUS
  <2>2. QED
    BY <2>1, NatMinimum
<1>2. b \in T
  <2>1. SUFFICES ASSUME b \notin T PROVE FALSE
    OBVIOUS
  <2>2. PICK k \in T : TRUE
    OBVIOUS
  <2>3. \A j \in T : j <= b - 1
    BY <1>1, <2>1
  <2>4. b - 1 \in B
    BY <1>1, <2>2, <2>3
  <2>5. QED
    BY <1>1, <2>4
<1>3. QED
  BY <1>1, <1>2

\* What the loop over a sorted list relies on.
Sorted(list) ==
  /\ list \in Seq(Rollout)
  /\ \A i \in DOMAIN list : WellFormed(list[i])
  /\ \A i, j \in DOMAIN list : i < j => list[i].start <= list[j].start

\* Sorting keeps the rollouts and puts them in the order of their start dates.
LEMMA SortedRolloutsSorted ==
  ASSUME NEW list \in Seq(Rollout), \A i \in DOMAIN list : WellFormed(list[i]),
         NEW s \in SortedRollouts(list)
  PROVE  Sorted(s)
<1>1. list \in Seq(Rollout) /\ \A i \in DOMAIN list : WellFormed(list[i])
  OBVIOUS
<1>2. PICK p \in [DOMAIN list -> DOMAIN list] :
        SortedBy(list, p) /\ s = [i \in DOMAIN list |-> list[p[i]]]
  BY DEF SortedRollouts
<1>3. DOMAIN list = 1 .. Len(list) /\ Len(list) \in Nat
  BY <1>1
<1>4. \A i \in DOMAIN list : list[p[i]] \in Rollout /\ WellFormed(list[p[i]])
  BY <1>1, <1>2, <1>3
<1>5. s \in Seq(Rollout) /\ DOMAIN s = DOMAIN list
  BY <1>2, <1>3, <1>4
<1>6. QED
  BY <1>2, <1>4, <1>5 DEF Sorted, SortedBy

\* Dates of the rollouts of a sorted list.
LEMMA SortedDates ==
  ASSUME NEW list, Sorted(list)
  PROVE  /\ DOMAIN list = 1 .. Len(list) /\ Len(list) \in Nat
         /\ \A i \in DOMAIN list :
              /\ list[i].start \in Int /\ list[i].end \in Int
              /\ list[i].freeze \in Int \cup {NoFreeze}
              /\ list[i].release \in Releases
              /\ list[i].start <= list[i].end
         /\ \A i, j \in DOMAIN list : i <= j => list[i].start <= list[j].start
<1>1. DOMAIN list = 1 .. Len(list) /\ Len(list) \in Nat
  BY DEF Sorted
<1>2. \A i \in DOMAIN list : list[i] \in Rollout /\ list[i].start <= list[i].end
  BY DEF Sorted, WellFormed
<1>3. QED
  BY <1>1, <1>2 DEF Rollout, Sorted

\* SelectedIndex picks one of the percentiles: the last of those that take
\* the id if there are any, and otherwise the first of all.
LEMMA SelectedIndexProperties ==
  ASSUME NEW n \in Nat, NEW q, DOMAIN q \subseteq 1 .. n, DOMAIN q # {}, NEW id
  PROVE  /\ SelectedIndex(q, id) \in DOMAIN q
         /\ \A i \in DOMAIN q :
              Adopted(q[i], id) => i <= SelectedIndex(q, id)
         /\ \/ Adopted(q[SelectedIndex(q, id)], id)
            \/ \A i \in DOMAIN q : SelectedIndex(q, id) <= i
<1> DEFINE takers == {i \in DOMAIN q : Adopted(q[i], id)}
<1>1. CASE takers = {}
  <2>1. \E i \in DOMAIN q : \A j \in DOMAIN q : i <= j
    BY NatMinimum
  <2>2. SelectedIndex(q, id) =
          CHOOSE i \in DOMAIN q : \A j \in DOMAIN q : i <= j
    BY <1>1 DEF SelectedIndex
  <2>3. QED
    BY <1>1, <2>1, <2>2
<1>2. CASE takers # {}
  <2>1. \E i \in takers : \A j \in takers : j <= i
    <3>1. takers \in SUBSET Nat /\ \A k \in takers : k <= n
      OBVIOUS
    <3>2. QED
      BY <1>2, <3>1, NatMaximum
  <2>2. SelectedIndex(q, id) =
          CHOOSE i \in takers : \A j \in takers : j <= i
    BY <1>2 DEF SelectedIndex
  <2>3. QED
    BY <2>1, <2>2
<1>3. QED
  BY <1>1, <1>2

\* A rollout that is active has started, and no newer one ends the walk.
LEMMA ActiveRollouts ==
  ASSUME NEW list, Sorted(list), NEW d \in Int
  PROVE  RetrieveActiveRollouts(list, d) =
           { i \in DOMAIN list :
               /\ list[i].start <= d
               /\ \A j \in DOMAIN list : j > i => ~ EndsWalk(list[j], d) }
<1>1. ASSUME NEW i \in DOMAIN list
      PROVE  (d >= list[i].end \/ d >= list[i].start) <=> list[i].start <= d
  BY SortedDates
<1>2. ASSUME NEW i \in DOMAIN list, list[i].start <= d
      PROVE  d >= list[1].start
  <2>1. 1 \in DOMAIN list /\ list[1].start <= list[i].start
    BY SortedDates
  <2>2. QED
    BY <1>2, <2>1, SortedDates
<1>3. QED
  BY <1>1, <1>2 DEF RetrieveActiveRollouts

\* The newest rollout that ends the walk stays active from then on, so a
\* list that was ever active stays active.
LEMMA ActiveStaysNonEmpty ==
  ASSUME NEW list, Sorted(list), NEW d \in Int, NEW e \in Int, d <= e,
         RetrieveActiveRollouts(list, d) # {}
  PROVE  RetrieveActiveRollouts(list, e) # {}
<1> DEFINE started == {i \in DOMAIN list : list[i].start <= e}
           enders == {i \in DOMAIN list : EndsWalk(list[i], e)}
<1>1. started # {}
  BY ActiveRollouts, SortedDates
<1>2. CASE enders = {}
  <2>1. PICK i \in started : TRUE
    BY <1>1
  <2>2. i \in RetrieveActiveRollouts(list, e)
    BY <1>2, <2>1, ActiveRollouts
  <2>3. QED
    BY <2>2
<1>3. CASE enders # {}
  <2>1. enders \in SUBSET Nat /\ \A k \in enders : k <= Len(list)
    BY SortedDates
  <2>2. PICK m \in enders : \A k \in enders : k <= m
    BY <1>3, <2>1, SortedDates, NatMaximum
  <2>3. list[m].start <= e
    BY <2>2, SortedDates DEF EndsWalk
  <2>4. \A j \in DOMAIN list : j > m => ~ EndsWalk(list[j], e)
    BY <2>1, <2>2, SortedDates
  <2>5. m \in RetrieveActiveRollouts(list, e)
    BY <2>2, <2>3, <2>4, ActiveRollouts
  <2>6. QED
    BY <2>5
<1>4. QED
  BY <1>2, <1>3

\* CalculatePercentages: one percentile per active rollout.
LEMMA PercentagesOf ==
  ASSUME NEW list, Sorted(list), NEW d \in Int
  PROVE  LET q == CalculatePercentages(list, d)
         IN  /\ DOMAIN q = RetrieveActiveRollouts(list, d)
             /\ DOMAIN q \subseteq 1 .. Len(list)
             /\ \A i \in DOMAIN q :
                  /\ q[i].share = CalculatePercentageAdoption(list[i], d)
                  /\ q[i].release = list[i].release
<1>1. RetrieveActiveRollouts(list, d) \subseteq 1 .. Len(list)
  BY SortedDates DEF RetrieveActiveRollouts
<1>2. QED
  BY <1>1 DEF CalculatePercentages

\* The products of Adopted are monotone in the numerator of the share.
LEMMA ShareGrows ==
  ASSUME NEW h \in Int, NEW a \in Int, NEW b \in Int, a <= b,
         NEW scale \in Nat, h < a * scale
  PROVE  h < b * scale
<1>1. a * scale <= b * scale
  BY Z3
<1>2. QED
  BY <1>1

\* The share of a rollout never shrinks: an id that is in it on one day is in
\* it on every later one.
LEMMA AdoptedStays ==
  ASSUME NEW list, Sorted(list), NEW d \in Int, NEW e \in Int, d <= e,
         NEW i \in DOMAIN list, NEW id \in Ids,
         NEW p, p.share = CalculatePercentageAdoption(list[i], d),
         p.release = list[i].release,
         NEW q, q.share = CalculatePercentageAdoption(list[i], e),
         q.release = list[i].release,
         Adopted(p, id)
  PROVE  Adopted(q, id)
<1> DEFINE r == list[i]
           until(t) == IF r.freeze # NoFreeze /\ t >= r.freeze
                       THEN r.freeze ELSE t
<1>1. r.start \in Int /\ r.end \in Int /\ r.freeze \in Int \cup {NoFreeze}
      /\ r.release \in Releases
  BY SortedDates
<1>2. CASE r.start = r.end
  BY <1>2 DEF CalculatePercentageAdoption, Adopted
<1>3. CASE r.start # r.end
  <2>1. p.share = <<until(d) - r.start, r.end - r.start>>
        /\ q.share = <<until(e) - r.start, r.end - r.start>>
    BY <1>3 DEF CalculatePercentageAdoption
  <2>2. until(d) \in Int /\ until(e) \in Int /\ until(d) <= until(e)
    BY <1>1
  <2> HIDE DEF until
  <2>3. Hash(r.release, id) * (r.end - r.start)
          < (until(d) - r.start) * HashScale
    BY <2>1 DEF Adopted
  <2>4. Hash(r.release, id) * (r.end - r.start) \in Int /\ HashScale \in Nat
    BY <1>1, HashAssumption
  <2>5. Hash(r.release, id) * (r.end - r.start)
          < (until(e) - r.start) * HashScale
    <3>1. /\ until(d) - r.start \in Int /\ until(e) - r.start \in Int
          /\ until(d) - r.start <= until(e) - r.start
      BY <1>1, <2>2
    <3> HIDE DEF r
    <3>2. QED
      BY <2>3, <2>4, <3>1, ShareGrows
  <2>6. QED
    BY <2>1, <2>5 DEF Adopted
<1>4. QED
  BY <1>2, <1>3

\* From one day to a later one an id moves on or stays.
LEMMA SelectionAdvances ==
  ASSUME NEW list, Sorted(list), NEW d \in Int, NEW e \in Int, d <= e,
         NEW id \in Ids, RetrieveActiveRollouts(list, d) # {}
  PROVE  SelectedIndex(CalculatePercentages(list, d), id)
           <= SelectedIndex(CalculatePercentages(list, e), id)
<1> DEFINE p == CalculatePercentages(list, d)
           q == CalculatePercentages(list, e)
           k == SelectedIndex(p, id)
           m == SelectedIndex(q, id)
<1>1. DOMAIN p # {} /\ DOMAIN q # {}
  BY PercentagesOf, ActiveStaysNonEmpty
<1>2. DOMAIN p \subseteq 1 .. Len(list) /\ DOMAIN q \subseteq 1 .. Len(list)
      /\ Len(list) \in Nat
  BY PercentagesOf, SortedDates
<1>3. k \in DOMAIN p /\ (Adopted(p[k], id) \/ \A i \in DOMAIN p : k <= i)
  BY <1>1, <1>2, SelectedIndexProperties
<1>4. m \in DOMAIN q /\ \A i \in DOMAIN q : Adopted(q[i], id) => i <= m
  BY <1>1, <1>2, SelectedIndexProperties
<1>5. /\ DOMAIN p = { i \in DOMAIN list : list[i].start <= d
              /\ \A j \in DOMAIN list : j > i => ~ EndsWalk(list[j], d) }
      /\ DOMAIN q = { i \in DOMAIN list : list[i].start <= e
              /\ \A j \in DOMAIN list : j > i => ~ EndsWalk(list[j], e) }
  BY PercentagesOf, ActiveRollouts
<1>6. \A j \in DOMAIN list : EndsWalk(list[j], d) => EndsWalk(list[j], e)
  BY SortedDates DEF EndsWalk
<1>0. SUFFICES k <= m
  OBVIOUS
<1>p. /\ k \in DOMAIN list
      /\ p[k].share = CalculatePercentageAdoption(list[k], d)
      /\ p[k].release = list[k].release
  BY <1>3, PercentagesOf, SortedDates
<1>q. k \in DOMAIN q => /\ q[k].share = CalculatePercentageAdoption(list[k], e)
                        /\ q[k].release = list[k].release
  BY PercentagesOf
<1> HIDE DEF p, q, k, m
<1>7. CASE k \notin DOMAIN q
  \* Some newer rollout ends the walk before it gets to k.
  <2>1. PICK j \in DOMAIN list : j > k /\ EndsWalk(list[j], e)
    BY <1>3, <1>5, <1>7, SortedDates
  <2>2. ~ (j > m)
    BY <1>4, <1>5, <2>1
  <2>3. QED
    BY <1>2, <1>3, <1>4, <2>1, <2>2, SortedDates
<1>8. CASE k \in DOMAIN q /\ Adopted(p[k], id)
  <2>1. Adopted(q[k], id)
    BY <1>p, <1>q, <1>8, AdoptedStays
  <2>2. QED
    BY <1>4, <1>8, <2>1
<1>9. CASE k \in DOMAIN q /\ \A i \in DOMAIN p : k <= i
  \* k was the oldest active rollout: what is older is not active later.
  <2>1. SUFFICES ASSUME m < k PROVE FALSE
    BY <1>2, <1>3, <1>4
  <2>2. m \notin DOMAIN p
    BY <1>2, <1>3, <1>4, <1>9, <2>1
  <2>3. list[m].start <= d
    BY <1>2, <1>3, <1>4, <1>5, <2>1, SortedDates
  <2>4. \A j \in DOMAIN list : j > m => ~ EndsWalk(list[j], d)
    BY <1>4, <1>5, <1>6
  <2>5. QED
    BY <1>4, <1>5, <2>2, <2>3, <2>4
<1>10. QED
  BY <1>3, <1>7, <1>8, <1>9

\* CivilDay of a timestamp is a natural.
LEMMA CivilDayType == \A time \in Nat : CivilDay(time) \in Nat
  BY ClockAssumption DEF CivilDay

\* What is answered is one of the releases, no release, or the error.
LEMMA SelectReleaseType ==
  ASSUME NEW list, Sorted(list), NEW d \in Int, NEW library, NEW input
  PROVE  SelectRelease(library, CalculatePercentages(list, d), input)
           \in Releases \cup {NoRelease, InvalidArgument}
<1> DEFINE q == CalculatePercentages(list, d)
           id == GetEventId(library, input)
<1>1. CASE DOMAIN q # {} /\ id # NoId
  <2>1. SelectedIndex(q, id) \in DOMAIN q
    BY <1>1, PercentagesOf, SortedDates, SelectedIndexProperties
  <2>2. q[SelectedIndex(q, id)].release \in Releases
    BY <2>1, PercentagesOf, SortedDates
  <2>3. SelectRelease(library, q, input) = q[SelectedIndex(q, id)].release
    BY <1>1 DEF SelectRelease
  <2>4. QED
    BY <2>2, <2>3
<1>2. CASE DOMAIN q = {} \/ id = NoId
  BY <1>2 DEF SelectRelease
<1>3. QED
  BY <1>1, <1>2

-----------------------------------------------------------------------------
\* The list stays sorted and well formed, and the day within its bounds.
THEOREM TypeCorrect == Spec => []TypeOK
<1>1. Init => TypeOK
  <2>1. SUFFICES ASSUME Init PROVE TypeOK
    OBVIOUS
  <2>2. Sorted(rollouts)
    BY <2>1, SortedRolloutsSorted, RolloutListsAssumption DEF Init
  <2>3. QED
    BY <2>1, <2>2, LastDayAssumption DEF Init, TypeOK, Sorted
<1>2. TypeOK /\ [Next]_vars => TypeOK'
  BY LastDayAssumption DEF TypeOK, Next, NextDay, vars, WellFormed
<1>3. QED
  BY <1>1, <1>2, PTL DEF Spec

\* As the date advances, no id is ever returned to an older rollout: the
\* theorem for every list of well formed rollouts, every hash and every day.
THEOREM NeverBackToAnOlderRelease == Spec => AdoptionIsMonotone
<1>1. TypeOK /\ [Next]_vars => [\A id \in Ids : Given(id) <= Given(id)']_vars
  <2>1. SUFFICES ASSUME TypeOK, NextDay, NEW id \in Ids
                 PROVE  Given(id) <= Given(id)'
    BY DEF Next
  <2>2. Sorted(rollouts) /\ day \in Int /\ day + 1 \in Int /\ day <= day + 1
    BY <2>1, LastDayAssumption DEF TypeOK, Sorted
  <2>3. Today' = CalculatePercentages(rollouts, day + 1)
    BY <2>1 DEF NextDay, Today
  <2>4. CASE DOMAIN Today = {}
    <3>1. Given(id) = 0
      BY <2>4 DEF Given
    <3>2. DOMAIN Today' # {} => SelectedIndex(Today', id) \in DOMAIN Today'
      BY <2>2, <2>3, PercentagesOf, SortedDates, SelectedIndexProperties
    <3>3. DOMAIN Today' \subseteq Nat
      BY <2>2, <2>3, PercentagesOf, SortedDates
    <3>4. QED
      BY <3>1, <3>2, <3>3 DEF Given
  <2>5. CASE DOMAIN Today # {}
    <3>1. RetrieveActiveRollouts(rollouts, day) # {}
      BY <2>2, <2>5, PercentagesOf DEF Today
    <3>2. DOMAIN Today' # {}
      BY <2>2, <2>3, <3>1, ActiveStaysNonEmpty, PercentagesOf
    <3>3. SelectedIndex(Today, id) <= SelectedIndex(Today', id)
      BY <2>2, <2>3, <3>1, SelectionAdvances DEF Today
    <3>4. QED
      BY <2>5, <3>2, <3>3 DEF Given
  <2>6. QED
    BY <2>4, <2>5
<1>2. QED
  BY <1>1, TypeCorrect, PTL DEF Spec, AdoptionIsMonotone

\* The rollout an id is given has started and is not superseded.
THEOREM SelectionIsCurrent == Spec => []GivenIsCurrent
<1>1. TypeOK => GivenIsCurrent
  <2>1. SUFFICES ASSUME TypeOK, NEW id \in Ids, Given(id) # 0
                 PROVE  /\ rollouts[Given(id)].start <= day
                        /\ \A j \in DOMAIN rollouts :
                             j > Given(id) /\ rollouts[j].end <= day
                             => rollouts[j].freeze # NoFreeze
    BY DEF GivenIsCurrent
  <2>2. Sorted(rollouts) /\ day \in Int
    BY <2>1, LastDayAssumption DEF TypeOK, Sorted
  <2>3. DOMAIN Today # {} /\ Given(id) = SelectedIndex(Today, id)
    BY <2>1 DEF Given
  <2>4. Given(id) \in RetrieveActiveRollouts(rollouts, day)
    BY <2>2, <2>3, PercentagesOf, SortedDates, SelectedIndexProperties DEF Today
  <2>5. QED
    BY <2>2, <2>4, ActiveRollouts, SortedDates DEF EndsWalk
<1>2. QED
  BY <1>1, TypeCorrect, PTL

\* What the loop has collected once it has been through the i oldest rollouts,
\* without the loop: the rollouts that have started, or are over, and that no
\* completed one of the i cuts off.
Collected(i) ==
  { j \in 1 .. i :
      /\ day >= rollouts[j].end \/ day >= rollouts[j].start
      /\ \A k \in j + 1 .. i : ~ EndsWalk(rollouts[k], day) }

\* One turn of the loop adds to what the older rollouts bring.
LEMMA CollectedStep ==
  ASSUME NEW i \in Nat \ {0}
  PROVE  Collected(i) =
           IF day >= rollouts[i].end
           THEN {i} \cup IF rollouts[i].freeze = NoFreeze THEN {}
                         ELSE Collected(i - 1)
           ELSE (IF day >= rollouts[i].start THEN {i} ELSE {})
                  \cup Collected(i - 1)
<1>1. \A j \in 1 .. i : j = i \/ j \in 1 .. i - 1
  OBVIOUS
<1>2. \A j \in 1 .. i - 1 : /\ i \in j + 1 .. i
                            /\ \A k \in j + 1 .. i : k = i \/ k \in j + 1 .. i - 1
                            /\ \A k \in j + 1 .. i - 1 : k \in j + 1 .. i
  OBVIOUS
<1>3. i \in 1 .. i /\ i + 1 .. i = {}
  OBVIOUS
<1>4. i \in Collected(i)
        <=> day >= rollouts[i].end \/ day >= rollouts[i].start
  BY <1>3 DEF Collected
<1>5. ASSUME NEW j \in 1 .. i - 1
      PROVE  j \in Collected(i)
               <=> j \in Collected(i - 1) /\ ~ EndsWalk(rollouts[i], day)
  BY <1>2, <1>5 DEF Collected
<1>6. Collected(i) \subseteq 1 .. i /\ Collected(i - 1) \subseteq 1 .. i - 1
  BY DEF Collected
<1>7. QED
  BY <1>1, <1>4, <1>5, <1>6 DEF EndsWalk

\* Walk is a function that calls itself: one such function exists, and all of
\* them agree, for otherwise there would be a least turn at which they do not.
LEMMA WalkIsCollected == \A i \in Nat : Walk[i] = Collected(i)
<1> DEFINE Turn(i, older) ==
             IF i = 0 THEN {}
             ELSE IF day >= rollouts[i].end
             THEN {i} \cup IF rollouts[i].freeze = NoFreeze THEN {} ELSE older
             ELSE (IF day >= rollouts[i].start THEN {i} ELSE {}) \cup older
<1>1. \A i \in Nat : Collected(i) = Turn(i, Collected(i - 1))
  BY CollectedStep DEF Collected
<1>2. \E f : f = [i \in Nat |-> Turn(i, f[i - 1])]
  <2> DEFINE g == [i \in Nat |-> Collected(i)]
  <2>1. ASSUME NEW i \in Nat PROVE g[i] = Turn(i, g[i - 1])
    <3>1. CASE i = 0
      BY <1>1, <3>1
    <3>2. CASE i # 0
      BY <1>1, <3>2
    <3>3. QED
      BY <3>1, <3>2
  <2>2. g = [i \in Nat |-> Turn(i, g[i - 1])]
    BY <2>1
  <2>3. QED
    BY <2>2
<1>3. Walk = CHOOSE f : f = [i \in Nat |-> Turn(i, f[i - 1])]
  BY DEF Walk
<1>4. Walk = [i \in Nat |-> Turn(i, Walk[i - 1])]
  BY <1>2, <1>3, Zenon
<1>5. \A i \in Nat : Walk[i] = Turn(i, Walk[i - 1])
  BY <1>4, Zenon
<1> DEFINE T == {i \in Nat : Walk[i] # Collected(i)}
<1>6. ASSUME T # {} PROVE FALSE
  <2>1. PICK i \in T : \A k \in T : i <= k
    BY <1>6, NatMinimum
  <2>2. i \in Nat /\ Walk[i] # Collected(i)
    BY <2>1
  <2>3. i # 0
    BY <1>1, <1>5, <2>2
  <2>4. Walk[i - 1] = Collected(i - 1)
    BY <2>1, <2>2, <2>3
  <2>5. QED
    BY <1>1, <1>5, <2>2, <2>4
<1>7. QED
  BY <1>6

\* The loop of RetrieveActiveRollouts collects exactly the active rollouts,
\* whatever the list and the day.
THEOREM WalkIsActive == Spec => []WalkFindsActive
<1>1. TypeOK => WalkFindsActive
  <2>1. SUFFICES ASSUME TypeOK PROVE WalkFindsActive
    OBVIOUS
  <2>2. /\ DOMAIN rollouts = 1 .. Len(rollouts) /\ Len(rollouts) \in Nat
        /\ day \in Int /\ \A i \in DOMAIN rollouts : rollouts[i].start \in Int
    BY <2>1, SortedDates, LastDayAssumption DEF TypeOK, Sorted
  <2>3. CASE rollouts = <<>> \/ day < rollouts[1].start
    BY <2>2, <2>3 DEF WalkFindsActive, RetrieveActiveRollouts
  <2>4. CASE rollouts # <<>> /\ ~ (day < rollouts[1].start)
    <3>1. day >= rollouts[1].start
      BY <2>1, <2>2, <2>4 DEF TypeOK
    <3>2. RetrieveActiveRollouts(rollouts, day) = Collected(Len(rollouts))
      <4>1. \A i \in 1 .. Len(rollouts), k \in 1 .. Len(rollouts) :
              k > i <=> k \in i + 1 .. Len(rollouts)
        BY <2>2
      <4>2. \A i \in 1 .. Len(rollouts) :
              i + 1 .. Len(rollouts) \subseteq 1 .. Len(rollouts)
        BY <2>2
      <4>3. QED
        BY <2>2, <3>1, <4>1, <4>2 DEF RetrieveActiveRollouts, Collected
    <3>3. QED
      BY <2>2, <2>4, <3>2, WalkIsCollected DEF WalkFindsActive
  <2>5. QED
    BY <2>3, <2>4
<1>2. QED
  BY <1>1, TypeCorrect, PTL
=============================================================================
