-------------------------- MODULE RolloutAdoption --------------------------
(***************************************************************************)
(* The selector from one day to the next: a list of rollouts is fixed when *)
(* the selector is built, the date advances, and each id is given a rollout*)
(* anew every day.                                                         *)
(***************************************************************************)
EXTENDS RolloutSchedule

CONSTANTS
  RolloutLists,   \* the lists of rollouts a selector may be built with
  LastDay         \* the bound on the days

ASSUME RolloutListsAssumption ==
  \A list \in RolloutLists :
    list \in Seq(Rollout) /\ \A i \in DOMAIN list : WellFormed(list[i])
ASSUME LastDayAssumption == LastDay \in Nat

VARIABLES
  rollouts,       \* model_rollouts_, as RetrieveActiveRollouts sorts them
  day             \* event_date_utc

vars == <<rollouts, day>>

Init ==
  /\ \E list \in RolloutLists : rollouts \in SortedRollouts(list)
  /\ day = 0

NextDay ==
  /\ day < LastDay
  /\ day' = day + 1
  /\ UNCHANGED rollouts

Next == NextDay

Spec == Init /\ [][Next]_vars

Today == CalculatePercentages(rollouts, day)

\* The index of the rollout an id is given, 0 while there is none.
Given(id) == IF DOMAIN Today = {} THEN 0 ELSE SelectedIndex(Today, id)

\* The loop of RetrieveActiveRollouts over the i oldest rollouts, from the
\* newest of them to the oldest, with its break.
Walk[i \in Nat] ==
  IF i = 0 THEN {}
  ELSE IF day >= rollouts[i].end
  THEN {i} \cup IF rollouts[i].freeze = NoFreeze THEN {} ELSE Walk[i - 1]
  ELSE (IF day >= rollouts[i].start THEN {i} ELSE {}) \cup Walk[i - 1]
-----------------------------------------------------------------------------
\* The rollouts are sorted and well formed, the day is in its bounds.
TypeOK ==
  /\ rollouts \in Seq(Rollout)
  /\ \A i \in DOMAIN rollouts : WellFormed(rollouts[i])
  /\ \A i, j \in DOMAIN rollouts :
       i < j => rollouts[i].start <= rollouts[j].start
  /\ day \in 0 .. LastDay

\* The rollouts that are active on a day are those the loop collects.
WalkFindsActive ==
  RetrieveActiveRollouts(rollouts, day) =
    IF rollouts = <<>> \/ day < rollouts[1].start THEN {}
    ELSE Walk[Len(rollouts)]

\* The rollout an id is given has started, and every newer one that is over
\* was frozen: GetModelRelease never labels with a release that a completed
\* rollout has superseded.
GivenIsCurrent ==
  \A id \in Ids : Given(id) # 0 =>
    /\ rollouts[Given(id)].start <= day
    /\ \A j \in DOMAIN rollouts :
         j > Given(id) /\ rollouts[j].end <= day => rollouts[j].freeze # NoFreeze

\* As the date advances an id only ever moves on to rollouts that start later,
\* and never back to having none: neither the end of a rollout, nor a freeze,
\* nor the cut at the newest completed rollout returns it to an older release.
AdoptionIsMonotone == [][\A id \in Ids : Given(id) <= Given(id)']_vars
=============================================================================
