------------------------- MODULE MCRolloutAdoption -------------------------
(* All lists of up to two rollouts over the days 0 .. 4, and all lists of   *)
(* three over fewer dates, each rollout with a release of its own.          *)
EXTENDS RolloutAdoption

CONSTANTS r1, r2, r3

MCReleases == {r1, r2, r3}
\* An id is the vector of its hashes: every combination of them occurs.
MCIds == [MCReleases -> {0, 2, 4}]
MCEmptyId == [r \in MCReleases |-> 4]
MCHash(r, e) == e[r]

RolloutName ==
  <<"modelProviders", "p", "modelSuites", "s", "modelLines", "l",
    "modelRollouts", "r">>
MCNames == {RolloutName}

Dated(release, dates, freezes) ==
  { [name |-> RolloutName, release |-> release, start |-> d[1], end |-> d[2],
     freeze |-> f] :
      d \in {p \in dates \X dates : p[1] <= p[2]}, f \in freezes \cup {NoFreeze} }

\* The names of the releases do not matter, so they follow the list.
MCRolloutLists ==
  {<<>>}
  \cup { <<a>> : a \in Dated(r1, 0 .. 4, 0 .. 4) }
  \cup { <<a, b>> : a \in Dated(r1, 0 .. 4, {0, 1, 3}),
                    b \in Dated(r2, 0 .. 4, {1, 3}) }
  \cup { <<a, b, c>> : a \in Dated(r1, {0, 2, 3}, {2}),
                       b \in Dated(r2, {0, 2, 3}, {1}),
                       c \in Dated(r3, {1, 2, 4}, {2, 3}) }
=============================================================================
