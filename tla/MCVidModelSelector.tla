------------------------- MODULE MCVidModelSelector -------------------------
(* Three days over a cache of two: every day is evicted and comes back.     *)
EXTENDS VidModelSelector, TLC

CONSTANTS t1, t2, t3, r1, r2, i0, i1, i2

MCHash(r, e) == IF <<r, e>> \in {<<r1, i1>>, <<r2, i2>>} THEN 1 ELSE 3

LineName(id) == <<"modelProviders", "p", "modelSuites", "s", "modelLines", id>>
RolloutName(id) == LineName(id) \o <<"modelRollouts", "r">>
MCNames ==
  {LineName("l"), RolloutName("l"), RolloutName("other"), <<"l">>}

\* A list in which one name is that of a rollout of this or another line, or
\* that of the line itself, which C++ takes for a rollout of it.
MCRollouts(name) ==
  << [name |-> RolloutName("l"), release |-> r2,
      start |-> 1, end |-> 3, freeze |-> 2],
     [name |-> name, release |-> r1,
      start |-> 0, end |-> 0, freeze |-> NoFreeze] >>
MCRolloutLists ==
  { MCRollouts(name) : name \in MCNames \ {<<"l">>} } \cup { <<>> }

\* Windows that open and close within a day, an event exactly at each end.
\* A Kotlin selector agrees with the service when both ends are set and fall on
\* whole seconds.  A line without a valid name is refused.
Line(library, name, start, end) ==
  [library |-> library, name |-> name, start |-> start, end |-> end]
MCLines == { Line("cc", LineName("l"), 3, 13) }
MCOtherLines ==
  { Line("cc", LineName("l"), 3, NoEnd), Line("kt", LineName("l"), 2, 10),
    Line("cc", <<"l">>, 2, 10) }

Event(time, id) == [time |-> time, event_id |-> id, profile |-> NoProfile]
MCInputs ==
  { Event(time, i1) : time \in {1, 3, 5, 8, 13} }
  \cup { Event(8, id) : id \in {NoId, NoEvent} }
\* The event id is not used when there is a profile, not even an empty one.
MCProfileInputs ==
  { [time |-> 9, event_id |-> i1, profile |-> p] :
      p \in {NoProfile, <<NoId, NoId>>, <<NoId, i2>>, <<i1, i2>>} }
  \cup { Event(9, id) : id \in {NoId, NoEvent} }
  \cup { Event(time, i2) : time \in {2, 5, 10} }

MCThreads == {t1, t2, t3}
TwoThreads == {t1, t2}
Symmetry == Permutations(MCThreads)
=============================================================================
