------------------------- MODULE MCTwoPassLabeling -------------------------
(* Three events, models with two ranked pools of which one is smaller than  *)
(* what is asked of it, with and without clones.                            *)
EXTENDS TwoPassLabeling, TLC

CONSTANTS a, b, c, d, e, first, second, third
MCNodes == {a, b, c, d, e}
MCFingerprints == {1, 2}
MCFields == 0 .. 2
MCInputOf ==
  first :> [fp |-> 1, fields |-> 0] @@ second :> [fp |-> 1, fields |-> 1]
    @@ third :> [fp |-> NoEvent, fields |-> 2]

RankedLeaf(offset, size, ranked, unranked) ==
  [kind |-> "ranked", pool_offset |-> offset, pool_size |-> size,
   ranked_size |-> ranked, unranked_mode |-> unranked,
   permute |-> [r \in 0 .. ranked - 1 |-> ranked - 1 - r],
   jump |-> [fp \in MCFingerprints |->
               IF unranked = "DISJOINT" THEN fp % (size - ranked) ELSE fp % size]]
Everybody == [kind |-> "population", vid |-> [fp \in MCFingerprints |-> 90 + fp]]
Updates(us, children, select) ==
  [kind |-> "updates", updaters |-> us, children |-> children, select |-> select]
Clones(counts, children, select) ==
  [kind |-> "multiplicity", clone_count |-> counts,
   clone_fp |-> [fp \in MCFingerprints |-> [i \in 1 .. 2 |-> 1 + ((fp + i) % 2)]],
   person_index |-> [v \in MCFields |-> [i \in 0 .. 2 |-> i]],
   children |-> children, select |-> select]

ByField == [s \in State |-> IF s.fields = 0 THEN 1 ELSE 2]
ByChance == [s \in State |-> s.fp]
Always == [s \in State |-> 1]
CountByField == [s \in State |-> s.fields]
Two == [s \in State |-> 2]
Shred == [s \in State |-> [fp |-> 3 - s.fp, fields |-> s.fields]]

\* The two pools of the integration test: every event in one of them.
TwoLeaves ==
  (a :> Updates(<<>>, <<b, c>>, ByField) @@ b :> RankedLeaf(10, 3, 1, "DISJOINT")
   @@ c :> RankedLeaf(20, 2, 1, "FULL_POOL") @@ d :> Everybody @@ e :> Everybody)
\* One pool, two leaves.
OnePool ==
  (a :> Updates(<<ByFunction(Shred)>>, <<b, c>>, ByChance)
   @@ b :> RankedLeaf(10, 4, 2, "DISJOINT")
   @@ c :> RankedLeaf(10, 4, 2, "FULL_POOL") @@ d :> Everybody @@ e :> Everybody)
\* Clones of one event in different pools, or without one.
ClonesApart ==
  (a :> Clones(CountByField, <<b, c>>, ByField)
   @@ b :> RankedLeaf(10, 3, 2, "DISJOINT") @@ c :> Updates(<<>>, <<d, e>>, ByChance)
   @@ d :> Everybody @@ e :> RankedLeaf(20, 2, 1, "FULL_POOL"))
\* Clones of one event in one pool.
ClonesTogether ==
  (a :> Clones(Two, <<b>>, Always) @@ b :> RankedLeaf(10, 9, 8, "DISJOINT")
   @@ c :> Everybody @@ d :> Everybody @@ e :> Everybody)
\* A ranked leaf in an update tree.
UpdateLeaf ==
  (a :> Updates(<<ByTree(b)>>, <<c>>, Always)
   @@ b :> Updates(<<>>, <<c, d>>, ByField)
   @@ c :> [kind |-> "stop"] @@ d :> RankedLeaf(10, 3, 2, "DISJOINT")
   @@ e :> Everybody)

MCTrees == {TwoLeaves, OnePool, ClonesApart, ClonesTogether, UpdateLeaf}
=============================================================================
