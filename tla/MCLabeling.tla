----------------------------- MODULE MCLabeling -----------------------------
(* Trees of six nodes over two fingerprints and three values of the field   *)
(* that updates write and person indexes go to.                              *)
EXTENDS LabelingMeaning, Multiplicity, TLC

CONSTANTS a, b, c, d, e, f, click, view
MCNodes == {a, b, c, d, e, f}
MCFingerprints == {1, 2}
MCFields == 0 .. 2

Stop == [kind |-> "stop"]
Everybody(offset) == [kind |-> "population", vid |-> [fp \in MCFingerprints |-> offset + fp]]
RankedLeaf(offset, size, ranked, unranked) ==
  [kind |-> "ranked", pool_offset |-> offset, pool_size |-> size,
   ranked_size |-> ranked, unranked_mode |-> unranked,
   permute |-> [r \in 0 .. ranked - 1 |-> ranked - 1 - r],
   jump |-> [fp \in MCFingerprints |->
               IF unranked = "DISJOINT" /\ ranked < size
               THEN fp % (size - ranked) ELSE fp % size]]

\* Branch by the field (0 and 1 match a condition), or by the fingerprint.
ByCondition == [s \in State |-> IF s.fields = 2 THEN 0 ELSE s.fields + 1]
ByChance == [s \in State |-> s.fp]
Always == [s \in State |-> 1]

Updates(us, children, select) ==
  [kind |-> "updates", updaters |-> us, children |-> children, select |-> select]
Clones(counts, index, children, select) ==
  [kind |-> "multiplicity", clone_count |-> counts,
   clone_fp |-> [fp \in MCFingerprints |-> [i \in 1 .. 3 |-> 1 + ((fp + i) % 2)]],
   person_index |-> [v \in MCFields |-> index],
   children |-> children, select |-> select]

\* The person index of a clone; with Index the third clone finds no branch.
Index == [i \in 0 .. 3 |-> IF i = 3 THEN 0 ELSE i]
Parity == [i \in 0 .. 3 |-> i % 2]

\* An update that fails in one state, one that every clone takes differently.
Shift == [s \in State |-> IF s = [fp |-> 2, fields |-> 2] THEN Failed
                          ELSE [fp |-> 3 - s.fp, fields |-> s.fields]]
Clear == [s \in State |-> [fp |-> s.fp, fields |-> 0]]

\* Expected numbers count in halves: three halves of the field, capped at 3 or
\* refused above it, and three halves.
Message(ref, expected, cap) ==
  [ref |-> ref, field_type |-> "double", expected |-> expected,
   person_index_type |-> "int32", max_value |-> 3 * One, cap_at_max |-> cap,
   random_seed |-> "seed"]
Count(config, parts) ==
  [s \in State |->
     LET n == ComputeEventMultiplicity(BuildMultiplicity(config), parts * s.fields,
                                       IF s.fp = 2 THEN 1 ELSE 3)
     IN  IF n = NoCount THEN Failed ELSE n]
CountByField == Count(Message("expected_multiplicity_field", 0, TRUE), 3)
CountByBoth == Count(Message("expected_multiplicity_field", 0, FALSE), 3)
CountByFp == Count(Message("expected_multiplicity", 3, TRUE), 0)

MCTrees ==
  { \* A multiplicity over a ranked leaf and a branch with an update.
    (a :> Clones(CountByField, index, <<b, c>>, ByCondition)
     @@ b :> RankedLeaf(10, 3, 2, "DISJOINT")
     @@ c :> Updates(<<ByFunction(Shift), ByFunction(Clear)>>, <<d, e>>, ByChance)
     @@ d :> Everybody(30) @@ e :> RankedLeaf(20, 2, 1, "FULL_POOL") @@ f :> Stop)
    : index \in {Index, Parity} }
  \cup
  {
    \* An update tree with a multiplicity and an update in it.
    (a :> Updates(<<ByTree(b), ByFunction(Shift)>>, <<d, e>>, ByCondition)
     @@ b :> Clones(CountByField, Index, <<c>>, Always)
     @@ c :> Updates(<<ByFunction(Clear)>>, <<f>>, Always)
     @@ d :> RankedLeaf(10, 2, 2, "DISJOINT")
     @@ e :> RankedLeaf(20, 2, 1, "UNSPECIFIED") @@ f :> Stop),
    \* Clones of clones.
    (a :> Clones(CountByBoth, Parity, <<b>>, Always)
     @@ b :> Clones(CountByFp, Parity, <<c, d>>, ByChance)
     @@ c :> RankedLeaf(10, 3, 0, "FULL_POOL")
     @@ d :> Updates(<<>>, <<e, f>>, ByCondition)
     @@ e :> Everybody(30) @@ f :> Stop),
    \* Update trees with leaves that are not stop nodes.
    (a :> Updates(<<ByTree(b)>>, <<d>>, Always)
     @@ b :> Updates(<<>>, <<e, c>>, ByChance)
     @@ c :> RankedLeaf(10, 2, 1, "DISJOINT")
     @@ d :> Clones(CountByField, Index, <<f, b>>, ByChance)
     @@ e :> Everybody(30) @@ f :> Everybody(40)) }

MCRanksGiven ==
  LET Assign(offset, rank) == [pool_offset |-> offset, local_rank |-> rank]
  IN  { <<>>, <<Assign(10, 0)>>, <<Assign(10, 2)>>,
        <<Assign(20, 0), Assign(10, 1), Assign(10, 0)>>, <<Assign(20, 1)>> }
=============================================================================
