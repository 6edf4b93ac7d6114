-------------------------- MODULE RolloutSchedule --------------------------
(***************************************************************************)
(* The rules by which VidModelSelector turns the rollouts of a model line  *)
(* into the model release that labels one event: which rollouts are active *)
(* on a day, which share of the events each of them has adopted by then,   *)
(* and which of them an event id falls into.                               *)
(*                                                                         *)
(* A list of rollouts is a sequence ordered by start date.  A list of the  *)
(* active ones, or of their percentiles, is a function on a set of indices *)
(* of that sequence, read in the order of the indices: index order is the  *)
(* order of the vectors of the code.                                       *)
(*                                                                         *)
(* An instant rollout is one with start = end.  A double is the fraction   *)
(* <<numerator, denominator>>.                                             *)
(***************************************************************************)
EXTENDS Integers, Sequences, FiniteSets

CONSTANTS
  Names,          \* resource names of model lines and of rollouts
  Releases,       \* resource keys of model releases
  Ids,            \* user ids and event ids
  EmptyId,        \* the id that is the empty string
  NoId,           \* an id that is not set
  NoEvent,        \* LabelerInput.event_id that is not set
  NoProfile,      \* LabelerInput.profile_info that is not set
  NoFreeze,       \* ModelRollout.rollout_freeze_date that is not set
  NoRelease,      \* the answer std::nullopt
  InvalidArgument,\* the answer absl::InvalidArgumentError
  Hash(_, _),     \* |Fingerprint64(release + id)|, scaled to 0 .. HashScale
  HashScale,      \* numeric_limits<int64_t>::max()
  TicksPerDay     \* timestamps per civil day

ASSUME HashAssumption ==
  /\ HashScale \in Nat \ {0}
  /\ \A r \in Releases, e \in Ids : Hash(r, e) \in 0 .. HashScale
  /\ EmptyId \in Ids /\ {NoId, NoEvent} \cap Ids = {} /\ NoId # NoEvent
ASSUME ClockAssumption == TicksPerDay \in Nat \ {0}
ASSUME NoFreezeAssumption == NoFreeze \notin Int
ASSUME NamesAssumption == Names \subseteq Seq(STRING)

\* A name is the sequence of its segments, none of them empty.  ReadModelLine
\* takes what stands between two markers, whatever stands around them.
ReadModelLine(name) ==
  LET starts == {k \in DOMAIN name : name[k] = "modelLines" /\ k < Len(name)}
      start == 1 + CHOOSE k \in starts : \A j \in starts : k <= j
      ends == {k \in start + 1 .. Len(name) - 1 : name[k] = "modelRollouts"}
      end == CHOOSE k \in ends : \A j \in ends : k <= j
  IN  CASE starts = {} -> <<>>
        [] starts # {} /\ ends = {} -> SubSeq(name, start, Len(name))
        [] starts # {} /\ ends # {} -> SubSeq(name, start, end - 1)

\* The keys of Kotlin take a name only if it has all segments of its kind.
ModelLineKey == <<"modelProviders", "modelSuites", "modelLines">>
ModelRolloutKey == ModelLineKey \o <<"modelRollouts">>
FromName(key, name) ==
  IF /\ Len(name) = 2 * Len(key)
     /\ \A k \in DOMAIN key : name[2 * k - 1] = key[k]
  THEN <<name[6]>> ELSE <<>>

\* Neither looks at the provider or the suite of the line.
Accepts(line, list) ==
  LET id == IF line.library = "kt" THEN FromName(ModelLineKey, line.name)
            ELSE ReadModelLine(line.name)
      parent(name) == IF line.library = "kt" THEN FromName(ModelRolloutKey, name)
                      ELSE ReadModelLine(name)
  IN  id # <<>> /\ \A i \in DOMAIN list : parent(list[i].name) = id

Rollout ==
  [name : Names, release : Releases, start : Int, end : Int,
   freeze : Int \cup {NoFreeze}]

\* A rollout period never ends before it starts.
WellFormed(r) == r \in Rollout /\ r.start <= r.end

LabelerInput ==
  [time : Nat, event_id : Ids \cup {NoId, NoEvent},
   profile : {NoProfile} \cup Seq(Ids \cup {NoId})]

CivilDay(time) == time \div TicksPerDay

\* A profile holds one entry per kind of user id, in the order in which the
\* code tries them.  NoId stands for the error that there is none.  Of an event
\* id without an id, C++ takes the empty string; Kotlin asks whether it is set.
GetEventId(library, input) ==
  IF input.profile = NoProfile
  THEN CASE input.event_id = NoEvent -> NoId
         [] input.event_id = NoId -> IF library = "kt" THEN NoId ELSE EmptyId
         [] OTHER -> input.event_id
  ELSE LET set == {k \in DOMAIN input.profile : input.profile[k] # NoId}
       IN  IF set = {} THEN NoId
           ELSE input.profile[CHOOSE k \in set : \A j \in set : k <= j]

-----------------------------------------------------------------------------
\* std::sort is not stable: rollouts of the same start date may come out in
\* any order, but in the same one every time, the input being the same.
SortedBy(list, p) ==
  /\ \A i, j \in DOMAIN list : p[i] = p[j] => i = j
  /\ \A i, j \in DOMAIN list : i < j => list[p[i]].start <= list[p[j]].start

\* Fault: the rollouts stay in the order they were read in.
UnsortedRollouts(list) == {list}

SortedRollouts(list) ==
  { [i \in DOMAIN list |-> list[p[i]]] :
      p \in {q \in [DOMAIN list -> DOMAIN list] : SortedBy(list, q)} }

\* Fault: a rollout that ends today does not end the walk.
EndsWalkLate(r, day) == day > r.end /\ r.freeze = NoFreeze

\* The walk from the newest rollout to the oldest ends at one of these.
EndsWalk(r, day) == day >= r.end /\ r.freeze = NoFreeze

\* Fault: the walk goes on past the newest completed rollout.
AllStartedRollouts(rollouts, day) ==
  { i \in DOMAIN rollouts :
      /\ day >= rollouts[1].start
      /\ day >= rollouts[i].end \/ day >= rollouts[i].start }

RetrieveActiveRollouts(rollouts, day) ==
  { i \in DOMAIN rollouts :
      /\ day >= rollouts[1].start
      /\ day >= rollouts[i].end \/ day >= rollouts[i].start
      /\ \A j \in DOMAIN rollouts : j > i => ~ EndsWalk(rollouts[j], day) }

\* Fault: a frozen rollout loses its share instead of keeping it.
AdoptionLostByFreeze(r, day) ==
  IF r.start = r.end THEN <<11, 10>>
  ELSE LET frozen == r.freeze # NoFreeze /\ day >= r.freeze
       IN  <<IF frozen THEN 0 ELSE day - r.start, r.end - r.start>>

CalculatePercentageAdoption(r, day) ==
  IF r.start = r.end THEN <<11, 10>>
  ELSE LET counted == IF r.freeze # NoFreeze /\ day >= r.freeze
                      THEN r.freeze ELSE day
       IN  <<counted - r.start, r.end - r.start>>

CalculatePercentages(rollouts, day) ==
  [ i \in RetrieveActiveRollouts(rollouts, day) |->
      [share   |-> CalculatePercentageAdoption(rollouts[i], day),
       release |-> rollouts[i].release] ]

\* Whether the id is in the share of its events that the release has adopted.
Adopted(percentile, id) ==
  Hash(percentile.release, id) * percentile.share[2]
    < percentile.share[1] * HashScale

\* The last percentile that takes the id, the first one when none does.
SelectedIndex(percentages, id) ==
  LET takers == {i \in DOMAIN percentages : Adopted(percentages[i], id)}
  IN  IF takers = {}
      THEN CHOOSE i \in DOMAIN percentages :
             \A j \in DOMAIN percentages : i <= j
      ELSE CHOOSE i \in takers : \A j \in takers : j <= i

\* Fault: the percentile is returned in place of its release.
SelectPercentile(library, percentages, input) ==
  IF DOMAIN percentages = {} THEN NoRelease
  ELSE IF GetEventId(library, input) = NoId THEN InvalidArgument
  ELSE percentages[SelectedIndex(percentages, GetEventId(library, input))]

\* Only an event that some rollout is active for needs an id.
SelectRelease(library, percentages, input) ==
  LET id == GetEventId(library, input)
  IN  CASE DOMAIN percentages = {} -> NoRelease
        [] DOMAIN percentages # {} /\ id = NoId -> InvalidArgument
        [] DOMAIN percentages # {} /\ id # NoId ->
             percentages[SelectedIndex(percentages, id)].release
=============================================================================
