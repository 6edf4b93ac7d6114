----------------------- MODULE VidModelSelectorProofs -----------------------
(* Theorems about VidModelSelector, for any number of threads, any cache    *)
(* size, any rollouts and any events.                                       *)
EXTENDS VidModelSelector, SequenceTheorems, FiniteSetTheorems,
        WellFoundedInduction, TLAPS

-----------------------------------------------------------------------------
(* The lemmas about RolloutSchedule are those of RolloutAdoptionProofs; the *)
(* selector and the adoption share the schedule, whatever the day is.       *)
Adoption == INSTANCE RolloutAdoptionProofs WITH LastDay <- 0, day <- 0

\* What the selector assumes is what the lemmas about the schedule rest on.
LEMMA AdoptionAssumptions ==
  /\ Adoption!ClockAssumption
  /\ Adoption!HashAssumption
  /\ Adoption!NoFreezeAssumption
  /\ Adoption!NamesAssumption
  /\ Adoption!RolloutListsAssumption
  /\ Adoption!LastDayAssumption
BY ClockAssumption, HashAssumption, NoFreezeAssumption, NamesAssumption,
   SelectorAssumption
   DEF Adoption!ClockAssumption, Adoption!HashAssumption,
       Adoption!NoFreezeAssumption, Adoption!NamesAssumption,
       Adoption!RolloutListsAssumption, Adoption!LastDayAssumption,
       Adoption!WellFormed, Adoption!Rollout, WellFormed, Rollout

\* What the loop over a sorted list relies on.
Sorted(list) ==
  /\ list \in Seq(Rollout)
  /\ \A i \in DOMAIN list : WellFormed(list[i])
  /\ \A i, j \in DOMAIN list : i < j => list[i].start <= list[j].start

LEMMA SortedOfAdoption == \A list : Sorted(list) <=> Adoption!Sorted(list)
BY DEF Sorted, WellFormed, Rollout,
       Adoption!Sorted, Adoption!WellFormed, Adoption!Rollout

\* Sorting keeps the rollouts and puts them in the order of their start dates.
LEMMA SortedRolloutsSorted ==
  ASSUME NEW list \in Seq(Rollout), \A i \in DOMAIN list : WellFormed(list[i]),
         NEW s \in SortedRollouts(list)
  PROVE  Sorted(s)
<1>1. list \in Seq(Adoption!Rollout)
      /\ \A i \in DOMAIN list : Adoption!WellFormed(list[i])
  BY DEF WellFormed, Rollout, Adoption!WellFormed, Adoption!Rollout
<1>2. s \in Adoption!SortedRollouts(list)
  BY DEF SortedRollouts, SortedBy, Adoption!SortedRollouts, Adoption!SortedBy
<1>3. Adoption!Sorted(s)
  BY <1>1, <1>2, AdoptionAssumptions, Adoption!SortedRolloutsSorted
<1>4. QED
  BY <1>3, SortedOfAdoption

\* Dates of the rollouts of a sorted list.
LEMMA SortedDates ==
  ASSUME NEW list, Sorted(list)
  PROVE  /\ DOMAIN list = 1 .. Len(list) /\ Len(list) \in Nat
         /\ \A i \in DOMAIN list :
              /\ list[i].start \in Int /\ list[i].end \in Int
              /\ list[i].freeze \in Int \cup {NoFreeze}
              /\ list[i].release \in Releases
              /\ list[i].start <= list[i].end
         /\ \A i, j \in DOMAIN list : i <= j => list[i].start <= list[j].start
<1>1. Adoption!Sorted(list)
  BY SortedOfAdoption
<1>2. QED
  BY <1>1, AdoptionAssumptions, Adoption!SortedDates

\* CivilDay of a timestamp is a natural.
LEMMA CivilDayType == \A time \in Nat : CivilDay(time) \in Nat
  BY ClockAssumption DEF CivilDay

\* What is answered is one of the releases, no release, or the error.
LEMMA SelectReleaseType ==
  ASSUME NEW list, Sorted(list), NEW d \in Int, NEW library, NEW in
  PROVE  SelectRelease(library, CalculatePercentages(list, d), in)
           \in Releases \cup {NoRelease, InvalidArgument}
<1>1. Adoption!Sorted(list)
  BY SortedOfAdoption
<1>2. CalculatePercentages(list, d) = Adoption!CalculatePercentages(list, d)
  BY DEF CalculatePercentages, Adoption!CalculatePercentages,
         RetrieveActiveRollouts, Adoption!RetrieveActiveRollouts,
         EndsWalk, Adoption!EndsWalk,
         CalculatePercentageAdoption, Adoption!CalculatePercentageAdoption
<1>3. \A q : SelectRelease(library, q, in)
             = Adoption!SelectRelease(library, q, in)
  BY DEF SelectRelease, Adoption!SelectRelease, GetEventId, Adoption!GetEventId,
         SelectedIndex, Adoption!SelectedIndex, Adopted, Adoption!Adopted
<1>4. Adoption!SelectRelease(library, Adoption!CalculatePercentages(list, d), in)
        \in Releases \cup {NoRelease, InvalidArgument}
  BY <1>1, AdoptionAssumptions, Adoption!SelectReleaseType
<1>5. QED
  BY <1>2, <1>3, <1>4
-----------------------------------------------------------------------------

Places == Locked \cup {"idle", "check", "wait", "select", "return"}

\* The control of a call: its input and its reply are there when its place
\* says so, and whoever is between the lock and the unlock has the mutex.
CallInv ==
  /\ model_line \in Lines
  /\ status \in {"unbuilt", "built", "rejected"}
  /\ mutex \in Threads \cup {NoThread}
  /\ pc \in [Threads -> Places]
  /\ input \in [Threads -> Inputs \cup {NoInput}]
  /\ DOMAIN percentages = Threads
  /\ DOMAIN reply = Threads
  /\ \A t \in Threads :
       /\ pc[t] = "idle" <=> input[t] = NoInput
       /\ pc[t] = "return" <=> reply[t] # NoReply
       /\ pc[t] \in Locked => mutex = t
       /\ pc[t] # "idle" => status = "built"
       /\ pc[t] \in Locked \cup {"wait", "select"} => InWindow(input[t].time)

\* Nothing is cached or copied before the rollouts are final.
DataInv ==
  /\ Sorted(rollouts)
  /\ status # "built" => DOMAIN cache_data = {}
  /\ \A t \in Threads : pc[t] \in {"compute", "add"} => ~ Held(Day(t))
  /\ CacheCoherent

Inv == CallInv /\ DataInv

\* Both libraries read a timestamp as a natural.
LEMMA EventTimeType ==
  \A time \in Nat : WholeSecond(time) \in Nat /\ EventTime(time) \in Nat
<1>1. ASSUME NEW time \in Nat, NEW n \in Nat \ {0} PROVE (time \div n) * n \in Nat
  OBVIOUS
<1>2. QED
  BY <1>1, SelectorAssumption DEF WholeSecond, EventTime

\* A thread in a call asks about a day.
LEMMA DayType ==
  ASSUME CallInv, NEW t \in Threads, pc[t] # "idle"
  PROVE  Day(t) \in Nat
<1>1. input[t] \in LabelerInput
  BY SelectorAssumption DEF CallInv
<1>2. QED
  BY <1>1, CivilDayType, EventTimeType DEF Day, LabelerInput, CallInv

LEMMA InitInv == Init => Inv
<1>1. SUFFICES ASSUME Init PROVE Inv
  OBVIOUS
<1>2. Sorted(<<>>)
  BY DEF Sorted
<1>3. CallInv
  BY <1>1 DEF Init, CallInv, Places, Locked
<1>4. DataInv
  BY <1>1, <1>2 DEF Init, LruInit, DataInv, CacheCoherent, Held
<1>5. QED
  BY <1>3, <1>4 DEF Inv

\* The control of a call is kept by every step.
LEMMA CallInvKept == Inv /\ [Next]_vars => CallInv'
<1> SUFFICES ASSUME CallInv, DataInv, [Next]_vars PROVE CallInv'
  BY DEF Inv
<1> USE SelectorAssumption
        DEF CallInv, Places, Locked, Move, InWindow, EventTime, ActiveEnd
<1>1. ASSUME NEW list \in RolloutLists, Build(list) PROVE CallInv'
  BY <1>1 DEF Build
<1>2. ASSUME NEW t \in Threads, NEW in \in Inputs, GetModelRelease(t, in)
      PROVE  CallInv'
  BY <1>2 DEF GetModelRelease
<1>3. ASSUME NEW t \in Threads, InsideWindow(t) PROVE CallInv'
  BY <1>3 DEF InsideWindow
<1>4. ASSUME NEW t \in Threads, OutsideWindow(t) PROVE CallInv'
  BY <1>4 DEF OutsideWindow
<1>5. ASSUME NEW t \in Threads, Lock(t) PROVE CallInv'
  BY <1>5 DEF Lock
<1>6. ASSUME NEW t \in Threads, CacheHit(t) PROVE CallInv'
  BY <1>6 DEF CacheHit
<1>7. ASSUME NEW t \in Threads, CacheMiss(t) PROVE CallInv'
  BY <1>7 DEF CacheMiss
<1>8. ASSUME NEW t \in Threads, Compute(t) PROVE CallInv'
  BY <1>8 DEF Compute
<1>9. ASSUME NEW t \in Threads, CacheAdd(t) PROVE CallInv'
  BY <1>9 DEF CacheAdd
<1>10. ASSUME NEW t \in Threads, Unlock(t) PROVE CallInv'
  BY <1>10 DEF Unlock
<1>11. ASSUME NEW t \in Threads, Select(t) PROVE CallInv'
  <2>1. Day(t) \in Int /\ percentages[t] = CalculatePercentages(rollouts, Day(t))
    BY <1>11, DayType DEF Select, DataInv, CacheCoherent
  <2>2. SelectRelease(model_line.library, percentages[t], input[t]) # NoReply
    BY <2>1, SelectReleaseType DEF DataInv
  <2>3. QED
    BY <1>11, <2>2 DEF Select
<1>12. ASSUME NEW t \in Threads, Return(t) PROVE CallInv'
  BY <1>12 DEF Return
<1>13. CASE UNCHANGED vars
  BY <1>13 DEF vars, selectorVars
<1>14. QED
  BY <1>1, <1>2, <1>3, <1>4, <1>5, <1>6, <1>7, <1>8, <1>9, <1>10, <1>11,
     <1>12, <1>13 DEF Next, Step

\* A step that leaves the cache and the rollouts alone, and takes no thread
\* to a place that promises something of its copy, keeps the data invariant.
LEMMA DataUntouched ==
  ASSUME DataInv, UNCHANGED <<model_line, status, rollouts, lruVars, percentages>>,
         \A u \in Threads :
           /\ pc'[u] \in {"compute", "add"} =>
                ~ Held(Day(u)) /\ Day(u)' = Day(u)
           /\ pc'[u] \in {"add", "unlock", "select"} =>
                pc[u] \in {"add", "unlock", "select"} /\ Day(u)' = Day(u)
  PROVE  DataInv'
<1>1. \A d : Held(d)' <=> Held(d)
  BY DEF Held, lruVars
<1>2. CacheCoherent'
  BY DEF DataInv, CacheCoherent, lruVars
<1>3. QED
  BY <1>1, <1>2 DEF DataInv, lruVars

\* The cache and the copies are kept coherent by every step.
LEMMA DataInvKept == Inv /\ [Next]_vars => DataInv'
<1> SUFFICES ASSUME CallInv, DataInv, [Next]_vars PROVE DataInv'
  BY DEF Inv
<1> USE DEF CallInv, Move, Day, EventTime
<1>1. ASSUME NEW list \in RolloutLists, Build(list) PROVE DataInv'
  <2>1. Sorted(rollouts')
    <3>1. CASE rollouts' \in SortedRollouts(list)
      BY <3>1, SortedRolloutsSorted, SelectorAssumption
    <3>2. CASE rollouts' = rollouts
      BY <3>2 DEF DataInv, Sorted
    <3>3. QED
      BY <1>1, <3>1, <3>2 DEF Build
  <2>2. /\ DOMAIN cache_data' = {}
        /\ \A t \in Threads : pc'[t] = "idle"
    BY <1>1 DEF Build, DataInv, lruVars, Places
  <2>3. QED
    BY <2>1, <2>2 DEF DataInv, CacheCoherent
<1>2. ASSUME NEW t \in Threads, NEW in \in Inputs, GetModelRelease(t, in)
      PROVE  DataInv'
  BY <1>2, DataUntouched DEF GetModelRelease, DataInv
<1>3. ASSUME NEW t \in Threads, InsideWindow(t) PROVE DataInv'
  BY <1>3, DataUntouched DEF InsideWindow, DataInv
<1>4. ASSUME NEW t \in Threads, OutsideWindow(t) PROVE DataInv'
  BY <1>4, DataUntouched DEF OutsideWindow, DataInv
<1>5. ASSUME NEW t \in Threads, Lock(t) PROVE DataInv'
  BY <1>5, DataUntouched DEF Lock, DataInv
<1>6. ASSUME NEW t \in Threads, CacheHit(t) PROVE DataInv'
  <2>1. UNCHANGED <<model_line, status, rollouts, input, cache_data>>
    BY <1>6 DEF CacheHit, Get
  <2>2. percentages'[t] = CalculatePercentages(rollouts, Day(t))
    BY <1>6 DEF CacheHit, Get, Held, DataInv, CacheCoherent
  <2>3. \A u \in Threads : u # t =>
          pc'[u] = pc[u] /\ percentages'[u] = percentages[u]
    BY <1>6 DEF CacheHit
  <2>4. pc'[t] = "unlock"
    BY <1>6 DEF CacheHit
  <2>5. QED
    BY <2>1, <2>2, <2>3, <2>4 DEF DataInv, CacheCoherent, Held
<1>7. ASSUME NEW t \in Threads, CacheMiss(t) PROVE DataInv'
  BY <1>7, DataUntouched DEF CacheMiss, DataInv
<1>8. ASSUME NEW t \in Threads, Compute(t) PROVE DataInv'
  <2>1. UNCHANGED <<model_line, status, rollouts, input, cache_data>>
    BY <1>8 DEF Compute, lruVars
  <2>2. percentages'[t] = CalculatePercentages(rollouts, Day(t))
    BY <1>8 DEF Compute
  <2>3. \A u \in Threads : u # t =>
          pc'[u] = pc[u] /\ percentages'[u] = percentages[u]
    BY <1>8 DEF Compute
  <2>4. pc'[t] = "add" /\ ~ Held(Day(t))
    BY <1>8 DEF Compute, DataInv
  <2>5. QED
    BY <2>1, <2>2, <2>3, <2>4 DEF DataInv, CacheCoherent, Held
<1>9. ASSUME NEW t \in Threads, CacheAdd(t) PROVE DataInv'
  <2>1. UNCHANGED <<model_line, status, rollouts, input, percentages>>
    BY <1>9 DEF CacheAdd
  <2>2. percentages[t] = CalculatePercentages(rollouts, Day(t))
    BY <1>9 DEF CacheAdd, DataInv, CacheCoherent
  <2>3. /\ DOMAIN cache_data' \subseteq DOMAIN cache_data \cup {Day(t)}
        /\ \A d \in DOMAIN cache_data' :
             cache_data'[d] = IF d = Day(t) THEN percentages[t]
                              ELSE cache_data[d]
    BY <1>9 DEF CacheAdd, Add
  <2>4. \A u \in Threads : u # t => pc'[u] \notin Locked
    BY <1>9 DEF CacheAdd, Locked
  <2>5. pc'[t] = "unlock" /\ \A u \in Threads : u # t => pc'[u] = pc[u]
    BY <1>9 DEF CacheAdd
  <2>6. status' = "built"
    BY <1>9, <2>1 DEF CacheAdd
  <2>7. CacheCoherent'
    BY <2>1, <2>2, <2>3, <2>5 DEF DataInv, CacheCoherent
  <2>8. QED
    BY <2>1, <2>4, <2>5, <2>6, <2>7 DEF DataInv, Locked
<1>10. ASSUME NEW t \in Threads, Unlock(t) PROVE DataInv'
  BY <1>10, DataUntouched DEF Unlock, DataInv
<1>11. ASSUME NEW t \in Threads, Select(t) PROVE DataInv'
  BY <1>11, DataUntouched DEF Select, DataInv
<1>12. ASSUME NEW t \in Threads, Return(t) PROVE DataInv'
  <2>1. UNCHANGED <<model_line, status, rollouts, cache_data>>
    BY <1>12 DEF Return, lruVars
  <2>2. pc'[t] = "idle" /\ \A u \in Threads : u # t =>
          /\ pc'[u] = pc[u] /\ percentages'[u] = percentages[u]
          /\ input'[u] = input[u]
    BY <1>12 DEF Return
  <2>3. QED
    BY <2>1, <2>2 DEF DataInv, CacheCoherent, Held
<1>13. CASE UNCHANGED vars
  BY <1>13, DataUntouched DEF vars, selectorVars, DataInv
<1>14. QED
  BY <1>1, <1>2, <1>3, <1>4, <1>5, <1>6, <1>7, <1>8, <1>9, <1>10, <1>11,
     <1>12, <1>13 DEF Next, Step

\* The inductive invariant of the selector.
THEOREM InvHolds == Spec => []Inv
<1>1. Inv /\ [Next]_vars => Inv'
  BY CallInvKept, DataInvKept DEF Inv
<1>2. QED
  BY InitInv, <1>1, PTL DEF Spec

\* At most one thread is inside ReadFromCache, and it computes a day only
\* when the day is not cached.
THEOREM OneThreadComputes == Spec => []ComputedOnce
<1>1. Inv => ComputedOnce
  BY SelectorAssumption DEF Inv, CallInv, DataInv, ComputedOnce, Locked
<1>2. QED
  BY <1>1, InvHolds, PTL

\* The cache never holds, and never hands out, anything but the percentages
\* of the day it is asked for.
THEOREM CacheIsCoherent == Spec => []CacheCoherent
<1>1. Inv => CacheCoherent
  BY DEF Inv, DataInv
<1>2. QED
  BY <1>1, InvHolds, PTL

\* The instance of the service uses the rules of RolloutSchedule.
LEMMA SameRules ==
  /\ \A list, d : Service!CalculatePercentages(list, d)
                    = CalculatePercentages(list, d)
  /\ \A lib, q, in : Service!SelectRelease(lib, q, in) = SelectRelease(lib, q, in)
  /\ \A time : Service!CivilDay(time) = CivilDay(time)
<1>1. \A lib, in : Service!GetEventId(lib, in) = GetEventId(lib, in)
  BY DEF GetEventId, Service!GetEventId
<1>2. \A q, id : Service!SelectedIndex(q, id) = SelectedIndex(q, id)
  BY DEF SelectedIndex, Service!SelectedIndex, Adopted, Service!Adopted
<1>3. \A lib, q, in : Service!SelectRelease(lib, q, in)
                        = SelectRelease(lib, q, in)
  BY <1>1, <1>2 DEF SelectRelease, Service!SelectRelease
<1>4. \A list, d : Service!CalculatePercentages(list, d)
                     = CalculatePercentages(list, d)
  BY DEF CalculatePercentages, Service!CalculatePercentages,
         CalculatePercentageAdoption, Service!CalculatePercentageAdoption,
         RetrieveActiveRollouts, Service!RetrieveActiveRollouts,
         EndsWalk, Service!EndsWalk
<1>5. QED
  BY <1>3, <1>4 DEF CivilDay, Service!CivilDay

\* Whole seconds are on the same side of a whole second as the timestamp.
LEMMA SecondsCompare ==
  ASSUME NEW n \in Nat \ {0}, NEW time \in Nat, NEW s \in Nat, s % n = 0
  PROVE  (time \div n) * n >= s <=> time >= s
<1>1. PICK k \in Nat : s = k * n
  <2>1. s \div n \in Nat /\ s = (s \div n) * n + (s % n)
    OBVIOUS
  <2>2. QED
    BY <2>1
<1>2. PICK q \in Nat, r \in 0 .. n - 1 : time = q * n + r /\ q = time \div n
  <2>1. /\ time \div n \in Nat /\ time % n \in 0 .. n - 1
        /\ time = (time \div n) * n + (time % n)
    OBVIOUS
  <2>2. QED
    BY <2>1
<1>3. q * n \in Nat /\ k * n \in Nat
  OBVIOUS
<1>4. CASE q >= k
  <2>1. q * n >= k * n
    BY <1>4
  <2>2. QED
    BY <1>1, <1>2, <1>3, <2>1
<1>5. CASE q + 1 <= k
  <2>1. (q + 1) * n <= k * n /\ (q + 1) * n = q * n + n
    BY <1>5
  <2>2. QED
    BY <1>1, <1>2, <1>3, <2>1
<1>6. QED
  BY <1>4, <1>5

\* A quotient is the number whose multiple is the last one up to the dividend.
LEMMA Quotient ==
  ASSUME NEW n \in Nat \ {0}, NEW x \in Nat, NEW d \in Nat,
         d * n <= x, x < d * n + n
  PROVE  x \div n = d
<1>1. PICK q \in Nat, r \in 0 .. n - 1 : x = q * n + r /\ q = x \div n
  <2>1. /\ x \div n \in Nat /\ x % n \in 0 .. n - 1
        /\ x = (x \div n) * n + (x % n)
    OBVIOUS
  <2>2. QED
    BY <2>1
<1>2. q * n \in Nat /\ d * n \in Nat
  OBVIOUS
<1>3. CASE q + 1 <= d
  <2>1. (q + 1) * n <= d * n /\ (q + 1) * n = q * n + n
    BY <1>3
  <2>2. QED
    BY <1>1, <1>2, <2>1
<1>4. CASE d + 1 <= q
  <2>1. (d + 1) * n <= q * n /\ (d + 1) * n = d * n + n
    BY <1>4
  <2>2. QED
    BY <1>1, <1>2, <2>1
<1>5. QED
  BY <1>1, <1>3, <1>4

\* A day begins on a whole second, so that both libraries see the same day.
LEMMA SecondsDay == \A time \in Nat : CivilDay(WholeSecond(time)) = CivilDay(time)
<1> SUFFICES ASSUME NEW time \in Nat
             PROVE  WholeSecond(time) \div TicksPerDay = time \div TicksPerDay
  BY DEF CivilDay
<1> DEFINE n == TicksPerSecond
           D == TicksPerDay
           d == time \div D
           s == (time \div n) * n
<1>1. n \in Nat \ {0} /\ D \in Nat \ {0} /\ D % n = 0
  BY SelectorAssumption, ClockAssumption
<1> HIDE DEF n, D
<1>2. d \in Nat /\ time % D \in 0 .. D - 1 /\ time = d * D + (time % D)
  BY <1>1
<1>3. PICK m \in Nat : D = m * n
  <2>1. D \div n \in Nat /\ D = (D \div n) * n + (D % n)
    BY <1>1
  <2>2. QED
    BY <1>1, <2>1
<1> HIDE DEF d
<1>4. d * D \in Nat /\ (d * D) % n = 0
  <2>1. d * D = (d * m) * n /\ d * m \in Nat
    BY <1>1, <1>2, <1>3
  <2>2. \A k \in Nat : (k * n) % n = 0
    <3>1. TAKE k \in Nat
    <3>2. k * n \in Nat /\ k * n < k * n + n
      BY <1>1
    <3>3. (k * n) \div n = k
      BY <1>1, <3>2, Quotient
    <3>4. k * n = ((k * n) \div n) * n + ((k * n) % n) /\ (k * n) % n \in Int
      BY <1>1, <3>2
    <3>5. QED
      BY <3>2, <3>3, <3>4
  <2>3. ((d * m) * n) % n = 0
    BY <2>1, <2>2
  <2>4. d * D \in Nat
    BY <1>1, <1>2
  <2>5. QED
    BY <2>1, <2>3, <2>4
<1>5. time >= d * D
  BY <1>1, <1>2, <1>4
<1>6. s >= d * D
  BY <1>1, <1>4, <1>5, SecondsCompare
<1>7. s \in Nat /\ s <= time
  <2>1. /\ time \div n \in Nat /\ time % n \in 0 .. n - 1
        /\ time = (time \div n) * n + (time % n)
    BY <1>1
  <2>2. s \in Nat
    BY <1>1, <2>1
  <2>3. QED
    BY <2>1, <2>2
<1> HIDE DEF s
<1>8. s < d * D + D
  BY <1>1, <1>2, <1>4, <1>7
<1>9. s \div D = d
  BY <1>1, <1>2, <1>6, <1>7, <1>8, Quotient
<1>10. QED
  BY <1>9 DEF s, d, D, n, WholeSecond

\* On whole seconds both libraries see the window and the day that the service
\* sees.
LEMMA SameWindow ==
  ASSUME OnWholeSeconds, model_line \in Lines, NEW time \in Nat
  PROVE  /\ InWindow(time) <=> Service!InWindow(time)
         /\ CivilDay(EventTime(time)) = CivilDay(time)
<1>1. CASE model_line.library = "cc"
  BY <1>1 DEF InWindow, EventTime, ActiveEnd, Service!InWindow
<1>2. CASE model_line.library = "kt"
  <2>1. /\ model_line.end # NoEnd
        /\ model_line.start % TicksPerSecond = 0
        /\ model_line.end % TicksPerSecond = 0
    BY <1>2 DEF OnWholeSeconds
  <2>2. TicksPerSecond \in Nat \ {0} /\ model_line.start \in Nat /\ model_line.end \in Nat
    BY <2>1, SelectorAssumption
  <2>3. /\ WholeSecond(time) >= model_line.start <=> time >= model_line.start
        /\ WholeSecond(time) >= model_line.end <=> time >= model_line.end
    BY <2>1, <2>2, SecondsCompare DEF WholeSecond
  <2>4. WholeSecond(time) \in Nat
    BY EventTimeType
  <2> HIDE DEF WholeSecond
  <2>5. InWindow(time) <=> Service!InWindow(time)
    BY <1>2, <2>1, <2>2, <2>3, <2>4
       DEF InWindow, EventTime, ActiveEnd, Service!InWindow
  <2>6. QED
    BY <1>2, <2>5, SecondsDay DEF EventTime
<1>3. QED
  BY <1>1, <1>2, SelectorAssumption

\* The selector implements the stateless service: whatever the threads, the
\* evictions and the hits, every reply is the one of a selector that computes
\* it afresh from the rollouts and the event.  A Kotlin selector does so if the
\* window of its line is set and falls on whole seconds.
THEOREM SelectorIsStateless ==
  ASSUME OnWholeSeconds PROVE Spec => Stateless
<1> USE DEF Service!serviceVars, Move
<1>1. Init => Service!Init
  BY DEF Init, Service!Init
<1>2. Inv /\ [Next]_vars => [Service!Next]_(Service!serviceVars)
  <2> SUFFICES ASSUME CallInv, DataInv, [Next]_vars
               PROVE  [Service!Next]_(Service!serviceVars)
    BY DEF Inv
  <2> USE DEF CallInv
  <2>1. ASSUME NEW list \in RolloutLists, Build(list)
        PROVE  Service!Next
    <3>1. Service!SortedRollouts(list) = SortedRollouts(list)
      BY DEF SortedRollouts, Service!SortedRollouts, SortedBy, Service!SortedBy
    <3>2. \A name : Service!ReadModelLine(name) = ReadModelLine(name)
      BY DEF ReadModelLine, Service!ReadModelLine
    <3>3. \A key, name : Service!FromName(key, name) = FromName(key, name)
      BY DEF FromName, Service!FromName
    <3>4. /\ Service!ModelLineKey = ModelLineKey
          /\ Service!ModelRolloutKey = ModelRolloutKey
      BY DEF ModelLineKey, Service!ModelLineKey,
             ModelRolloutKey, Service!ModelRolloutKey
    <3>5. Service!Accepts(model_line, list) <=> Accepts(model_line, list)
      <4> HIDE DEF Service!ReadModelLine, Service!FromName,
                   Service!ModelLineKey, Service!ModelRolloutKey
      <4>1. QED
        BY <3>2, <3>3, <3>4 DEF Accepts, Service!Accepts
    <3>6. Service!Build(list)
      BY <2>1, <3>1, <3>5 DEF Build, Service!Build
    <3>7. QED
      BY <3>6 DEF Service!Next
  <2>2. ASSUME NEW t \in Threads, NEW in \in Inputs, GetModelRelease(t, in)
        PROVE  Service!Next
    <3>1. Service!Call(t, in)
      BY <2>2 DEF GetModelRelease, Service!Call
    <3>2. QED
      BY <3>1 DEF Service!Next
  <2>3. ASSUME NEW t \in Threads, InsideWindow(t)
        PROVE  UNCHANGED Service!serviceVars
    BY <2>3 DEF InsideWindow
  <2>4. ASSUME NEW t \in Threads, OutsideWindow(t) PROVE Service!Next
    <3>1. input[t].time \in Nat
      BY <2>4, SelectorAssumption DEF OutsideWindow, LabelerInput
    <3>2. ~ Service!InWindow(input[t].time)
      BY <2>4, <3>1, SameWindow DEF OutsideWindow
    <3>3. Service!Answer(t)
      BY <2>4, <3>2 DEF OutsideWindow, Service!Answer, Service!ModelReleaseOf
    <3>4. QED
      BY <3>3 DEF Service!Next
  <2>5. ASSUME NEW t \in Threads, Lock(t)
        PROVE  UNCHANGED Service!serviceVars
    BY <2>5 DEF Lock
  <2>6. ASSUME NEW t \in Threads, CacheHit(t)
        PROVE  UNCHANGED Service!serviceVars
    BY <2>6 DEF CacheHit
  <2>7. ASSUME NEW t \in Threads, CacheMiss(t)
        PROVE  UNCHANGED Service!serviceVars
    BY <2>7 DEF CacheMiss
  <2>8. ASSUME NEW t \in Threads, Compute(t)
        PROVE  UNCHANGED Service!serviceVars
    BY <2>8 DEF Compute
  <2>9. ASSUME NEW t \in Threads, CacheAdd(t)
        PROVE  UNCHANGED Service!serviceVars
    BY <2>9 DEF CacheAdd
  <2>10. ASSUME NEW t \in Threads, Unlock(t)
         PROVE  UNCHANGED Service!serviceVars
    BY <2>10 DEF Unlock
  <2>11. ASSUME NEW t \in Threads, Select(t) PROVE Service!Next
    \* The copy is coherent, and only events in the window get this far.
    <3>1. percentages[t] = CalculatePercentages(rollouts, Day(t))
          /\ InWindow(input[t].time)
      BY <2>11 DEF Select, DataInv, CacheCoherent, Locked
    <3>2. input[t].time \in Nat
      BY <2>11, SelectorAssumption DEF Select, LabelerInput
    <3>3. Service!InWindow(input[t].time) /\ Day(t) = CivilDay(input[t].time)
      BY <3>1, <3>2, SameWindow DEF Day
    <3>4. Service!ModelReleaseOf(rollouts, input[t])
            = SelectRelease(model_line.library, percentages[t], input[t])
      BY <3>1, <3>3, SameRules DEF Service!ModelReleaseOf
    <3>5. Service!Answer(t)
      BY <2>11, <3>4 DEF Select, Service!Answer
    <3>6. QED
      BY <3>5 DEF Service!Next
  <2>12. ASSUME NEW t \in Threads, Return(t) PROVE Service!Next
    <3>1. Service!Return(t)
      BY <2>12 DEF Return, Service!Return
    <3>2. QED
      BY <3>1 DEF Service!Next
  <2>13. CASE UNCHANGED vars
    BY <2>13 DEF vars, selectorVars
  <2>14. QED
    BY <2>1, <2>2, <2>3, <2>4, <2>5, <2>6, <2>7, <2>8, <2>9, <2>10, <2>11,
       <2>12, <2>13 DEF Next, Step
<1>3. QED
  BY <1>1, <1>2, InvHolds, PTL DEF Spec, Stateless, Service!Spec

-----------------------------------------------------------------------------
\* No key is twice in a list.
Distinct(order) == \A p, q \in DOMAIN order : order[p] = order[q] => p = q

LruInv ==
  /\ recency \in Seq(Nat) /\ Distinct(recency)
  /\ access_order \in Seq(Nat)
  /\ LruExact

\* MoveToFront permutes a list without duplicates.
LEMMA MoveToFrontProperties ==
  ASSUME NEW order \in Seq(Nat), Distinct(order), NEW p \in DOMAIN order
  PROVE  /\ MoveToFront(order, order[p]) \in Seq(Nat)
         /\ Len(MoveToFront(order, order[p])) = Len(order)
         /\ Distinct(MoveToFront(order, order[p]))
         /\ \A i \in DOMAIN order :
              MoveToFront(order, order[p])[i] =
                IF i = 1 THEN order[p]
                ELSE IF i <= p THEN order[i - 1] ELSE order[i]
         /\ \A key :
              Listed(MoveToFront(order, order[p]), key) <=> Listed(order, key)
<1> DEFINE n == Len(order)
           d == order[p]
           moved == MoveToFront(order, d)
           \* The place from which the entry at i comes.
           from(i) == IF i = 1 THEN p ELSE IF i <= p THEN i - 1 ELSE i
<1>1. DOMAIN order = 1 .. n /\ n \in Nat /\ p \in 1 .. n
      /\ \A i \in 1 .. n : order[i] \in Nat
  OBVIOUS
<1>2. Position(order, d) = p
  BY <1>1 DEF Position, Distinct
<1>3. moved = [ i \in 1 .. n |->
                  IF i = 1 THEN d
                  ELSE IF i <= p THEN order[i - 1] ELSE order[i] ]
  BY <1>1, <1>2 DEF MoveToFront
<1>4. \A i \in 1 .. n : from(i) \in 1 .. n /\ moved[i] = order[from(i)]
  BY <1>1, <1>3
<1>5. moved \in [1 .. n -> Nat]
  <2>1. \A i \in 1 .. n : moved[i] \in Nat
    BY <1>1, <1>4
  <2>2. QED
    BY <1>3, <2>1
<1>6. moved \in Seq(Nat) /\ Len(moved) = n /\ DOMAIN moved = 1 .. n
  BY <1>1, <1>5
<1>7. \A i, j \in 1 .. n : from(i) = from(j) => i = j
  BY <1>1
<1>8. \A k \in 1 .. n : \E i \in 1 .. n : from(i) = k
  <2>1. TAKE k \in 1 .. n
  <2>2. CASE k = p
    BY <1>1, <2>2
  <2>3. CASE k < p
    <3>1. k + 1 \in 1 .. n /\ from(k + 1) = k
      BY <1>1, <2>3
    <3>2. QED
      BY <3>1
  <2>4. CASE k > p
    <3>1. from(k) = k
      BY <1>1, <2>4
    <3>2. QED
      BY <3>1
  <2>5. QED
    BY <1>1, <2>2, <2>3, <2>4
<1>9. \A i \in DOMAIN order :
        moved[i] = IF i = 1 THEN d
                   ELSE IF i <= p THEN order[i - 1] ELSE order[i]
  BY <1>1, <1>3
<1> HIDE DEF moved, from, n, d
<1>10. Distinct(moved)
  BY <1>1, <1>4, <1>6, <1>7 DEF Distinct
<1>11. \A key : Listed(moved, key) <=> Listed(order, key)
  <2>1. \A i \in 1 .. n : \E k \in 1 .. n : moved[i] = order[k]
    BY <1>4
  <2>2. \A k \in 1 .. n : \E i \in 1 .. n : moved[i] = order[k]
    BY <1>4, <1>8
  <2>3. TAKE key
  <2>4. ASSUME Listed(moved, key) PROVE Listed(order, key)
    <3>1. PICK i \in 1 .. n : moved[i] = key
      BY <1>6, <2>4, Zenon DEF Listed
    <3>2. PICK k \in 1 .. n : moved[i] = order[k]
      BY <2>1, Zenon
    <3>3. QED
      BY <1>1, <3>1, <3>2 DEF Listed
  <2>5. ASSUME Listed(order, key) PROVE Listed(moved, key)
    <3>1. PICK k \in 1 .. n : order[k] = key
      BY <1>1, <2>5, Zenon DEF Listed
    <3>2. PICK i \in 1 .. n : moved[i] = order[k]
      BY <2>2, Zenon
    <3>3. QED
      BY <1>6, <3>1, <3>2 DEF Listed
  <2>6. QED
    BY <2>4, <2>5
<1>12. moved \in Seq(Nat) /\ Len(moved) = n
  BY <1>6
<1>13. QED
  BY <1>9, <1>10, <1>11, <1>12 DEF moved, n, d

\* The cache is full exactly when the list has CacheSize entries.
LEMMA FullIff ==
  ASSUME LruInv
  PROVE  /\ Full <=> Len(access_order) >= CacheSize
         /\ Len(access_order) <= Len(recency)
         /\ Distinct(access_order)
<1>1. /\ Len(recency) \in Nat /\ DOMAIN recency = 1 .. Len(recency)
      /\ Len(access_order) \in Nat
      /\ DOMAIN access_order = 1 .. Len(access_order)
      /\ Len(access_order) <= Len(recency)
  BY CacheSizeAssumption DEF LruInv, LruExact
<1>2. Distinct(access_order)
  BY <1>1 DEF LruInv, LruExact, Distinct
<1>3. access_order \in Bijection(1 .. Len(access_order), DOMAIN cache_data)
  BY <1>1, <1>2 DEF LruInv, LruExact, Distinct, Bijection, Injection,
                    Surjection, IsInjective
<1>4. Cardinality(DOMAIN cache_data) = Len(access_order)
  <2>1. IsFiniteSet(1 .. Len(access_order))
        /\ Cardinality(1 .. Len(access_order)) = Len(access_order)
    <3>1. /\ IsFiniteSet(1 .. Len(access_order))
          /\ Cardinality(1 .. Len(access_order)) =
               IF 1 > Len(access_order) THEN 0 ELSE Len(access_order) - 1 + 1
      <4>1. 1 \in Int /\ Len(access_order) \in Int
        BY <1>1
      <4>2. QED
        BY <4>1, FS_Interval, Zenon
    <3> DEFINE c == Cardinality(1 .. Len(access_order))
    <3> HIDE DEF c
    <3>2. c = Len(access_order)
      BY <1>1, <3>1 DEF c
    <3>3. QED
      BY <3>1, <3>2 DEF c
  <2>2. QED
    BY <1>3, <2>1, FS_Bijection DEF ExistsBijection
<1>5. QED
  BY <1>1, <1>2, <1>4 DEF Full

\* After a use, the day used is in front and the days that were used more
\* recently than its last use have moved back by one.
LEMMA UsedProperties ==
  ASSUME LruInv, NEW d \in Nat, Used(d)
  PROVE  /\ recency' \in Seq(Nat) /\ Distinct(recency')
         /\ Listed(recency, d) => Len(recency') = Len(recency)
         /\ ~ Listed(recency, d) => Len(recency') = Len(recency) + 1
         /\ recency'[1] = d /\ Len(recency') >= 1
         /\ \A i \in DOMAIN recency :
              (\A j \in 1 .. i : recency[j] # d) =>
                i + 1 <= Len(recency') /\ recency'[i + 1] = recency[i]
         /\ \A i \in DOMAIN recency :
              (\E j \in 1 .. i - 1 : recency[j] = d) => recency'[i] = recency[i]
<1>1. recency \in Seq(Nat) /\ Distinct(recency) /\ Len(recency) \in Nat
      /\ DOMAIN recency = 1 .. Len(recency)
  BY DEF LruInv
<1>2. CASE Listed(recency, d)
  <2>1. PICK p \in DOMAIN recency : recency[p] = d
    BY <1>2 DEF Listed
  <2>2. recency' = MoveToFront(recency, d)
    BY <1>2, <2>1 DEF Used
  <2>3. /\ recency' \in Seq(Nat) /\ Len(recency') = Len(recency)
        /\ Distinct(recency')
        /\ \A i \in DOMAIN recency :
             recency'[i] = IF i = 1 THEN d
                           ELSE IF i <= p THEN recency[i - 1] ELSE recency[i]
    <3>1. recency \in Seq(Nat) /\ Distinct(recency)
      BY <1>1
    <3>2. /\ MoveToFront(recency, recency[p]) \in Seq(Nat)
          /\ Len(MoveToFront(recency, recency[p])) = Len(recency)
          /\ Distinct(MoveToFront(recency, recency[p]))
          /\ \A i \in DOMAIN recency :
              MoveToFront(recency, recency[p])[i] =
                IF i = 1 THEN recency[p]
                ELSE IF i <= p THEN recency[i - 1] ELSE recency[i]
      BY <3>1, MoveToFrontProperties
    <3>3. QED
      BY <2>1, <2>2, <3>2
  <2>4. recency'[1] = d /\ Len(recency') >= 1
    BY <1>1, <2>3
  <2>5. ASSUME NEW i \in DOMAIN recency, \A j \in 1 .. i : recency[j] # d
        PROVE  i + 1 <= Len(recency') /\ recency'[i + 1] = recency[i]
    <3>1. i < p
      BY <1>1, <2>1, <2>5
    <3>2. i + 1 \in DOMAIN recency /\ i + 1 # 1 /\ i + 1 <= p /\ (i + 1) - 1 = i
      BY <1>1, <3>1
    <3>3. QED
      BY <1>1, <2>3, <3>2
  <2>6. ASSUME NEW i \in DOMAIN recency, \E j \in 1 .. i - 1 : recency[j] = d
        PROVE  recency'[i] = recency[i]
    <3>1. i > p /\ i # 1
      BY <1>1, <2>1, <2>6 DEF Distinct
    <3>2. QED
      BY <1>1, <2>3, <3>1
  <2>7. QED
    BY <1>2, <2>3, <2>4, <2>5, <2>6
<1>3. CASE ~ Listed(recency, d)
  <2>1. recency' = <<d>> \o recency
    BY <1>3 DEF Used
  <2>2. /\ recency' \in Seq(Nat) /\ Len(recency') = Len(recency) + 1
        /\ DOMAIN recency' = 1 .. Len(recency) + 1
        /\ \A i \in 1 .. Len(recency) + 1 :
             recency'[i] = IF i = 1 THEN d ELSE recency[i - 1]
    BY <1>1, <2>1
  <2>3. \A p \in DOMAIN recency : recency[p] # d
    BY <1>3 DEF Listed
  <2>4. Distinct(recency')
    <3>1. \A i \in 2 .. Len(recency) + 1 :
            i - 1 \in DOMAIN recency /\ recency'[i] = recency[i - 1]
      BY <1>1, <2>2
    <3>2. \A i \in 2 .. Len(recency) + 1 : recency'[i] # d
      BY <2>3, <3>1
    <3>3. recency'[1] = d
      BY <1>1, <2>2
    <3>4. \A i, j \in 2 .. Len(recency) + 1 :
            recency'[i] = recency'[j] => i - 1 = j - 1
      BY <1>1, <3>1 DEF Distinct
    <3>5. SUFFICES ASSUME NEW i \in 1 .. Len(recency) + 1,
                          NEW j \in 1 .. Len(recency) + 1,
                          recency'[i] = recency'[j]
                   PROVE  i = j
      BY <2>2 DEF Distinct
    <3>6. QED
      BY <1>1, <3>2, <3>3, <3>4, <3>5
  <2>5. ASSUME NEW i \in DOMAIN recency
        PROVE  i + 1 <= Len(recency') /\ recency'[i + 1] = recency[i]
    BY <1>1, <2>2
  <2>6. \A i \in DOMAIN recency : ~ \E j \in 1 .. i - 1 : recency[j] = d
    BY <1>1, <2>3
  <2>7. recency'[1] = d /\ Len(recency') >= 1
    BY <1>1, <2>2
  <2>8. QED
    BY <1>3, <2>2, <2>4, <2>5, <2>6, <2>7
<1>4. QED
  BY <1>2, <1>3

\* A hit keeps the list equal to the days used last.
LEMMA HitKeepsLru ==
  ASSUME LruInv, NEW d \in Nat, Get(d), Used(d)
  PROVE  LruInv'
<1> DEFINE L == Len(access_order)
<1>1. /\ recency \in Seq(Nat) /\ Distinct(recency)
      /\ access_order \in Seq(Nat) /\ Distinct(access_order)
      /\ L \in Nat /\ Len(recency) \in Nat /\ L <= Len(recency)
      /\ DOMAIN recency = 1 .. Len(recency) /\ DOMAIN access_order = 1 .. L
      /\ \A i \in 1 .. L : access_order[i] = recency[i]
  BY FullIff DEF LruInv, LruExact
<1>2. PICK p \in 1 .. L : access_order[p] = d
  BY <1>1 DEF Get, Held, LruInv, LruExact
<1>3. recency[p] = d /\ p \in DOMAIN recency /\ p \in DOMAIN access_order
  BY <1>1, <1>2
<1>4. Listed(recency, d) /\ Listed(access_order, d)
  BY <1>1, <1>2, <1>3 DEF Listed
<1>5. recency' = MoveToFront(recency, recency[p])
      /\ access_order' = MoveToFront(access_order, access_order[p])
      /\ cache_data' = cache_data
  BY <1>2, <1>3, <1>4 DEF Get, Used
<1>6. /\ recency' \in Seq(Nat) /\ Len(recency') = Len(recency)
      /\ Distinct(recency')
      /\ \A i \in DOMAIN recency :
           recency'[i] = IF i = 1 THEN recency[p]
                         ELSE IF i <= p THEN recency[i - 1] ELSE recency[i]
  <2>1. /\ MoveToFront(recency, recency[p]) \in Seq(Nat)
        /\ Len(MoveToFront(recency, recency[p])) = Len(recency)
        /\ Distinct(MoveToFront(recency, recency[p]))
        /\ \A i \in DOMAIN recency :
             MoveToFront(recency, recency[p])[i] =
               IF i = 1 THEN recency[p]
               ELSE IF i <= p THEN recency[i - 1] ELSE recency[i]
    <3>1. recency \in Seq(Nat) /\ Distinct(recency)
      BY <1>1
    <3>2. p \in DOMAIN recency
      BY <1>1, <1>3
    <3>3. QED
      BY <3>1, <3>2, MoveToFrontProperties, Zenon
  <2>2. QED
    BY <1>5, <2>1
<1>7. /\ access_order' \in Seq(Nat) /\ Len(access_order') = L
      /\ \A i \in DOMAIN access_order :
           access_order'[i] =
             IF i = 1 THEN access_order[p]
             ELSE IF i <= p THEN access_order[i - 1] ELSE access_order[i]
      /\ \A key : Listed(access_order', key) <=> Listed(access_order, key)
  <2>1. /\ MoveToFront(access_order, access_order[p]) \in Seq(Nat)
        /\ Len(MoveToFront(access_order, access_order[p])) = L
        /\ \A i \in DOMAIN access_order :
             MoveToFront(access_order, access_order[p])[i] =
               IF i = 1 THEN access_order[p]
               ELSE IF i <= p THEN access_order[i - 1] ELSE access_order[i]
        /\ \A key : Listed(MoveToFront(access_order, access_order[p]), key)
                     <=> Listed(access_order, key)
    <3>1. access_order \in Seq(Nat) /\ Distinct(access_order)
      BY <1>1
    <3>2. p \in DOMAIN access_order
      BY <1>1, <1>3
    <3>3. L = Len(access_order)
      OBVIOUS
    <3>4. HIDE DEF L
    <3>5. QED
      BY <3>1, <3>2, <3>3, MoveToFrontProperties, Zenon
  <2>2. QED
    BY <1>5, <2>1
<1>8. \A i \in 1 .. L : access_order'[i] = recency'[i]
  <2>1. TAKE i \in 1 .. L
  <2>2. i \in DOMAIN access_order /\ i \in DOMAIN recency
    BY <1>1
  <2>3. access_order[p] = recency[p] /\ access_order[i] = recency[i]
    BY <1>2, <1>3, <1>1
  <2>4. i # 1 => access_order[i - 1] = recency[i - 1]
    <3>1. i # 1 => i - 1 \in 1 .. L
      BY <1>1
    <3>2. QED
      BY <1>1, <3>1
  <2>5. QED
    BY <1>6, <1>7, <2>2, <2>3, <2>4
<1>9. DOMAIN access_order' = 1 .. L
  BY <1>1, <1>7
<1>10. LruExact'
  <2>1. {access_order'[i] : i \in DOMAIN access_order'} = DOMAIN cache_data'
    <3>1. \A key : Listed(access_order, key) <=> key \in DOMAIN cache_data
      BY DEF LruInv, LruExact, Listed
    <3>2. \A key : Listed(access_order', key) <=> key \in DOMAIN cache_data'
      BY <1>5, <1>7, <3>1, Zenon
    <3>3. QED
      BY <3>2, Zenon DEF Listed
  <2>2. Len(access_order') = IF Len(recency') < CacheSize
                             THEN Len(recency') ELSE CacheSize
    BY <1>6, <1>7 DEF LruInv, LruExact
  <2>3. QED
    BY <1>8, <1>9, <2>1, <2>2 DEF LruExact
<1>11. QED
  BY <1>6, <1>7, <1>10 DEF LruInv

\* A day added after a miss is in front, and what the cache evicts for it is
\* the day used longest ago.
LEMMA AddKeepsLru ==
  ASSUME LruInv, NEW d \in Nat, ~ Held(d), NEW value, Add(d, value), Used(d)
  PROVE  LruInv'
<1> DEFINE L == Len(access_order)
           R == Len(recency)
           kept == IF Full THEN L - 1 ELSE L
           order == IF Full THEN SubSeq(access_order, 1, L - 1)
                    ELSE access_order
<1>1. /\ recency \in Seq(Nat) /\ Distinct(recency)
      /\ access_order \in Seq(Nat) /\ Distinct(access_order)
      /\ L \in Nat /\ R \in Nat /\ L <= R /\ CacheSize \in Nat \ {0}
      /\ L = IF R < CacheSize THEN R ELSE CacheSize
      /\ DOMAIN recency = 1 .. R /\ DOMAIN access_order = 1 .. L
      /\ \A i \in 1 .. L : access_order[i] = recency[i]
      /\ Full <=> L >= CacheSize
  BY FullIff, CacheSizeAssumption DEF LruInv, LruExact
<1>2. \A i \in 1 .. L : access_order[i] # d /\ recency[i] # d
  BY <1>1 DEF Held, LruInv, LruExact
<1>3. /\ kept \in 0 .. L
      /\ order \in Seq(Nat) /\ Len(order) = kept /\ DOMAIN order = 1 .. kept
      /\ \A i \in 1 .. kept : order[i] = access_order[i]
  <2>1. CASE Full
    <3>1. L - 1 \in 0 .. L
      BY <1>1, <2>1
    <3>2. /\ SubSeq(access_order, 1, L - 1) \in Seq(Nat)
          /\ Len(SubSeq(access_order, 1, L - 1)) = L - 1
          /\ \A i \in 1 .. L - 1 :
               SubSeq(access_order, 1, L - 1)[i] = access_order[i]
      BY <1>1, <3>1
    <3>3. QED
      BY <2>1, <3>1, <3>2
  <2>2. CASE ~ Full
    BY <1>1, <2>2
  <2>3. QED
    BY <2>1, <2>2
<1>4. \A key : Listed(order, key) <=> key \in DOMAIN cache_data \ Evicted
  <2>1. \A key : key \in DOMAIN cache_data
                   <=> \E i \in 1 .. L : access_order[i] = key
    BY <1>1 DEF LruInv, LruExact
  <2>2. \A i \in 1 .. L : access_order[i] \in Evicted <=> i \notin 1 .. kept
    <3>1. CASE Full
      <4>1. L \in 1 .. L /\ Evicted = {access_order[L]} /\ kept = L - 1
        BY <1>1, <3>1 DEF Evicted
      <4>2. \A i \in 1 .. L : access_order[i] = access_order[L] <=> i = L
        BY <1>1, <4>1 DEF Distinct
      <4>3. \A i \in 1 .. L : i = L <=> i \notin 1 .. (L - 1)
        <5>1. L \in Nat
          BY <1>1
        <5> HIDE DEF L
        <5>2. ASSUME NEW i \in 1 .. L PROVE i = L <=> i \notin 1 .. (L - 1)
          BY <5>1
        <5>3. QED
          BY <5>2
      <4>4. QED
        BY <4>1, <4>2, <4>3
    <3>2. CASE ~ Full
      BY <3>2 DEF Evicted
    <3>3. QED
      BY <3>1, <3>2
  <2>3. 1 .. kept \subseteq 1 .. L
    BY <1>1, <1>3
  <2> HIDE DEF L, kept, order
  <2>4. TAKE key
  <2>5. ASSUME Listed(order, key) PROVE key \in DOMAIN cache_data \ Evicted
    <3>1. PICK i \in 1 .. kept : order[i] = key
      BY <1>3, <2>5, Zenon DEF Listed
    <3>2. i \in 1 .. L /\ access_order[i] = key
      BY <1>3, <2>3, <3>1
    <3>3. QED
      BY <2>1, <2>2, <3>1, <3>2
  <2>6. ASSUME key \in DOMAIN cache_data \ Evicted PROVE Listed(order, key)
    <3>1. PICK i \in 1 .. L : access_order[i] = key
      BY <2>1, <2>6
    <3>2. i \in 1 .. kept
      BY <2>2, <2>6, <3>1
    <3>3. QED
      BY <1>3, <3>1, <3>2 DEF Listed
  <2>7. QED
    BY <2>5, <2>6
<1>5. access_order' = <<d>> \o order
      /\ DOMAIN cache_data' = (DOMAIN cache_data \ Evicted) \cup {d}
  BY DEF Add
<1> HIDE DEF order, kept
<1>6. /\ access_order' \in Seq(Nat) /\ Len(access_order') = kept + 1
      /\ DOMAIN access_order' = 1 .. kept + 1
      /\ access_order'[1] = d
      /\ \A i \in 1 .. kept : access_order'[i + 1] = order[i]
  BY <1>3, <1>5
<1>7. {access_order'[i] : i \in DOMAIN access_order'} = DOMAIN cache_data'
  <2>1. \A i \in 1 .. kept + 1 : i = 1 \/ (i - 1 \in 1 .. kept /\ (i - 1) + 1 = i)
    BY <1>1, <1>3
  <2>2. \A i \in 1 .. kept : i + 1 \in 1 .. kept + 1
    BY <1>1, <1>3
  <2>3. 1 \in 1 .. kept + 1
    BY <1>1, <1>3
  <2>4. ASSUME NEW i \in 1 .. kept + 1 PROVE access_order'[i] \in DOMAIN cache_data'
    <3>1. CASE i = 1
      BY <1>5, <1>6, <3>1
    <3>2. CASE i - 1 \in 1 .. kept /\ (i - 1) + 1 = i
      <4>1. access_order'[i] = order[i - 1] /\ Listed(order, order[i - 1])
        BY <1>3, <1>6, <3>2 DEF Listed
      <4>2. QED
        BY <1>4, <1>5, <4>1
    <3>3. QED
      BY <2>1, <3>1, <3>2
  <2>5. ASSUME NEW key \in DOMAIN cache_data'
        PROVE  \E i \in 1 .. kept + 1 : access_order'[i] = key
    <3>1. CASE key = d
      BY <1>6, <2>3, <3>1
    <3>2. CASE key # d
      <4>1. Listed(order, key)
        BY <1>4, <1>5, <3>2
      <4>2. PICK i \in 1 .. kept : order[i] = key
        BY <1>3, <4>1, Zenon DEF Listed
      <4>3. QED
        BY <1>6, <2>2, <4>2
    <3>3. QED
      BY <3>1, <3>2
  <2>6. \A key : key \in {access_order'[i] : i \in DOMAIN access_order'}
                   <=> \E i \in 1 .. kept + 1 : access_order'[i] = key
    BY <1>6
  <2>7. QED
    BY <1>6, <2>4, <2>5, <2>6
<1>8. /\ recency' \in Seq(Nat) /\ Distinct(recency')
      /\ Listed(recency, d) => Len(recency') = R
      /\ ~ Listed(recency, d) => Len(recency') = R + 1
      /\ recency'[1] = d
      /\ \A i \in DOMAIN recency :
           (\A j \in 1 .. i : recency[j] # d) =>
             i + 1 <= Len(recency') /\ recency'[i + 1] = recency[i]
  BY UsedProperties
<1>9. Len(access_order') = IF Len(recency') < CacheSize
                           THEN Len(recency') ELSE CacheSize
  <2>1. CASE Full
    <3>1. kept + 1 = CacheSize /\ R >= CacheSize
      <4>1. L >= CacheSize
        BY <1>1, <2>1, Zenon
      <4>2. kept = L - 1
        BY <2>1, Zenon DEF kept
      <4> HIDE DEF L, R
      <4>3. QED
        BY <1>1, <4>1, <4>2
    <3>2. Len(recency') >= R
      BY <1>1, <1>8
    <3> HIDE DEF R
    <3>3. QED
      BY <1>1, <1>6, <1>8, <3>1, <3>2
  <2>2. CASE ~ Full
    <3>1. kept = L /\ L = R /\ R < CacheSize
      <4>1. ~ (L >= CacheSize)
        BY <1>1, <2>2, Zenon
      <4>2. kept = L
        BY <2>2, Zenon DEF kept
      <4> HIDE DEF L, R
      <4>3. QED
        BY <1>1, <4>1, <4>2
    <3>2. ~ Listed(recency, d)
      BY <1>1, <1>2, <3>1 DEF Listed
    <3> HIDE DEF R
    <3>3. QED
      BY <1>1, <1>6, <1>8, <3>1, <3>2
  <2>3. QED
    BY <2>1, <2>2
<1>10. \A i \in 1 .. kept + 1 : access_order'[i] = recency'[i]
  <2>1. TAKE i \in 1 .. kept + 1
  <2>2. CASE i = 1
    BY <1>6, <1>8, <2>2
  <2>3. CASE i # 1
    <3>1. i - 1 \in 1 .. kept /\ i - 1 \in 1 .. L /\ (i - 1) + 1 = i
          /\ i - 1 \in DOMAIN recency
      BY <1>1, <1>3, <2>3
    <3>2. \A j \in 1 .. (i - 1) : j \in 1 .. L
      BY <1>1, <3>1
    <3>3. recency'[(i - 1) + 1] = recency[i - 1]
      BY <1>2, <1>8, <3>1, <3>2
    <3>4. access_order'[(i - 1) + 1] = access_order[i - 1]
      BY <1>3, <1>6, <3>1
    <3>5. QED
      BY <1>1, <3>1, <3>3, <3>4
  <2>4. QED
    BY <2>2, <2>3
<1>11. QED
  BY <1>6, <1>7, <1>8, <1>9, <1>10 DEF LruInv, LruExact

LEMMA LruInvKept == Inv /\ LruInv /\ [Next]_vars => LruInv'
<1> SUFFICES ASSUME CallInv, DataInv, LruInv, [Next]_vars PROVE LruInv'
  BY DEF Inv
<1>1. ASSUME NEW t \in Threads, CacheHit(t) PROVE LruInv'
  <2>1. Day(t) \in Nat
    BY <1>1, DayType DEF CacheHit, Move
  <2>2. QED
    BY <1>1, <2>1, HitKeepsLru DEF CacheHit
<1>2. ASSUME NEW t \in Threads, CacheAdd(t) PROVE LruInv'
  <2>1. Day(t) \in Nat /\ ~ Held(Day(t))
    BY <1>2, DayType DEF CacheAdd, Move, CallInv, DataInv
  <2>2. QED
    BY <1>2, <2>1, AddKeepsLru DEF CacheAdd
<1>3. ASSUME UNCHANGED <<recency, lruVars>> PROVE LruInv'
  BY <1>3 DEF LruInv, LruExact, Distinct, lruVars
<1>4. ASSUME NEW t \in Threads, Step(t) PROVE LruInv'
  BY <1>1, <1>2, <1>3, <1>4
     DEF Step, InsideWindow, OutsideWindow, Lock, CacheMiss, Compute, Unlock,
         Select, Return
<1>5. QED
  BY <1>3, <1>4 DEF Next, vars, selectorVars, Build, GetModelRelease

\* For every size of the cache, the days it holds are the days used last, in
\* the order of their last use.
THEOREM CacheIsLru == Spec => []LruExact
<1>1. Init => LruInv
  BY CacheSizeAssumption DEF Init, LruInit, LruInv, LruExact, Distinct
<1>2. LruInv => LruExact
  BY DEF LruInv
<1>3. QED
  BY <1>1, <1>2, LruInvKept, InvHolds, PTL DEF Spec

---------------------------------------------------------------------------
(* Types.  A copy of percentages stays with its thread until the call       *)
(* returns; so an idle thread has none when the rollouts are replaced.      *)

TypeInv ==
  /\ reply \in [Threads -> Releases \cup {NoReply, NoRelease, InvalidArgument}]
  /\ \A t \in Threads :
       /\ IsPercentages(percentages[t])
       /\ pc[t] = "idle" => percentages[t] = None

\* What is computed for a day is a vector of percentiles of the rollouts.
LEMMA PercentagesTyped ==
  ASSUME Sorted(rollouts), NEW d \in Int
  PROVE  IsPercentages(CalculatePercentages(rollouts, d))
<1>1. ASSUME NEW i \in DOMAIN rollouts
      PROVE  CalculatePercentageAdoption(rollouts[i], d) \in Int \X Int
  BY <1>1, SortedDates DEF CalculatePercentageAdoption
<1>2. QED
  BY <1>1, SortedDates DEF IsPercentages, Percentile, CalculatePercentages,
                           RetrieveActiveRollouts

LEMMA TypeInvKept == Inv /\ TypeInv /\ [Next]_vars => TypeInv'
<1> SUFFICES ASSUME CallInv, DataInv, TypeInv, [Next]_vars PROVE TypeInv'
  BY DEF Inv
<1> USE DEF CallInv, Move
<1>1. ASSUME NEW list \in RolloutLists, Build(list) PROVE TypeInv'
  <2>1. UNCHANGED <<pc, percentages, reply>> /\ \A t \in Threads : pc[t] = "idle"
    BY <1>1 DEF Build
  <2>2. QED
    BY <2>1 DEF TypeInv, IsPercentages, None
<1>2. ASSUME NEW t \in Threads, CacheHit(t) PROVE TypeInv'
  <2>1. Day(t) \in Int
    BY <1>2, DayType DEF CacheHit
  <2>2. cache_data[Day(t)] = CalculatePercentages(rollouts, Day(t))
    BY <1>2 DEF CacheHit, Get, Held, DataInv, CacheCoherent
  <2>3. IsPercentages(cache_data[Day(t)])
    BY <2>1, <2>2, PercentagesTyped DEF DataInv
  <2>4. QED
    BY <1>2, <2>3 DEF CacheHit, TypeInv, IsPercentages
<1>3. ASSUME NEW t \in Threads, Compute(t) PROVE TypeInv'
  <2>1. Day(t) \in Int
    BY <1>3, DayType DEF Compute
  <2>2. IsPercentages(CalculatePercentages(rollouts, Day(t)))
    BY <2>1, PercentagesTyped DEF DataInv
  <2>3. QED
    BY <1>3, <2>2 DEF Compute, TypeInv, IsPercentages
<1>4. ASSUME NEW t \in Threads, Select(t) PROVE TypeInv'
  <2>1. Day(t) \in Int /\ percentages[t] = CalculatePercentages(rollouts, Day(t))
    BY <1>4, DayType DEF Select, DataInv, CacheCoherent
  <2>2. SelectRelease(model_line.library, percentages[t], input[t])
          \in Releases \cup {NoRelease, InvalidArgument}
    BY <2>1, SelectReleaseType DEF DataInv
  <2>3. QED
    BY <1>4, <2>2 DEF Select, TypeInv, IsPercentages
<1>5. ASSUME NEW t \in Threads, Return(t) PROVE TypeInv'
  BY <1>5 DEF Return, TypeInv, IsPercentages, None
<1>6. ASSUME NEW t \in Threads, OutsideWindow(t) PROVE TypeInv'
  BY <1>6 DEF OutsideWindow, TypeInv, IsPercentages
<1>7. ASSUME NEW t \in Threads, NEW in \in Inputs, GetModelRelease(t, in)
      PROVE  TypeInv'
  BY <1>7 DEF GetModelRelease, TypeInv, IsPercentages
<1>8. ASSUME UNCHANGED <<rollouts, percentages, reply>>,
             \A t \in Threads : pc'[t] = "idle" => pc[t] = "idle"
      PROVE  TypeInv'
  BY <1>8 DEF TypeInv, IsPercentages
<1>9. ASSUME NEW t \in Threads, Step(t) PROVE TypeInv'
  BY <1>2, <1>3, <1>4, <1>5, <1>6, <1>8, <1>9
     DEF Step, InsideWindow, Lock, CacheMiss, CacheAdd, Unlock
<1>10. CASE UNCHANGED vars
  BY <1>8, <1>10 DEF vars, selectorVars
<1>11. QED
  BY <1>1, <1>7, <1>9, <1>10 DEF Next

\* The variables of the selector and of its cache have their types: no release
\* that is not one of the releases is ever answered, and no vector holds a
\* percentile of a rollout that the selector does not have.
THEOREM SelectorIsTyped == Spec => []TypeOK
<1>1. Init => LruInv /\ TypeInv
  BY CacheSizeAssumption
     DEF Init, LruInit, LruInv, LruExact, Distinct, TypeInv, IsPercentages, None
<1>2. Inv /\ LruInv /\ TypeInv => TypeOK
  <2> SUFFICES ASSUME CallInv, DataInv, LruInv, TypeInv PROVE TypeOK
    BY DEF Inv
  <2>1. DOMAIN cache_data \subseteq Nat
    BY DEF LruInv, LruExact
  <2>2. ASSUME NEW d \in DOMAIN cache_data PROVE IsPercentages(cache_data[d])
    <3>1. d \in Int /\ cache_data[d] = CalculatePercentages(rollouts, d)
      BY <2>1, <2>2 DEF DataInv, CacheCoherent
    <3>2. QED
      BY <3>1, PercentagesTyped DEF DataInv
  <2>3. QED
    BY <2>1, <2>2 DEF TypeOK, CallInv, DataInv, LruInv, TypeInv, Sorted, Places
<1>3. QED
  BY <1>1, <1>2, LruInvKept, TypeInvKept, InvHolds, PTL DEF Spec
=============================================================================
