------------------------- MODULE MCPopulationPools -------------------------
(* Widths for TLC: an int32 ends before 6, a uint64 before 64, and the cookie *)
(* monster pool has 14 persons from 40 on, 2 of them after the cast to int32. *)
EXTENDS PopulationPools

AllKeys == {{0} \cup k : k \in SUBSET (1 .. IntHalf - 1)}

Pool(offset, size) ==
  [population_offset |-> offset, total_population |-> size]
PopulationNode(pools) == [kind |-> "population", pools |-> pools]
RankedNode(pools, size, mode) ==
  [kind |-> "ranked", pools |-> pools, ranked_size |-> size,
   unranked_mode |-> mode]
Modes == {"DISJOINT", "FULL_POOL"}

Pools(offsets, sizes) == {Pool(o, s) : o \in offsets, s \in sizes}
UpToTwo(pools) ==
  {<<>>} \cup {<<p>> : p \in pools} \cup {<<p, q>> : p, q \in pools}

\* Pools that fit: overlapping, empty, at the border of the reserved range and
\* beyond it; three pools that grow; and ranked pools around the end of int32.
Fitting ==
  {PopulationNode(ps) : ps \in UpToTwo(Pools({0, 3, 38}, 0 .. 2))}
  \cup {PopulationNode(ps \o <<Pool(10, 0), Pool(20, s)>>) :
          ps \in UpToTwo(Pools({0, 3}, 0 .. 1)), s \in 1 .. 3}
  \cup {PopulationNode(<<Pool(CookieOffset, CookieSize)>>),
        PopulationNode(<<Pool(CookieOffset, 3)>>),
        PopulationNode(<<Pool(CookieOffset - 1, 2), Pool(1, 1)>>),
        PopulationNode(<<Pool(Word - 5, 3), Pool(1, 1)>>)}
  \cup {RankedNode(<<Pool(7, s)>>, r, m) :
          s \in 0 .. IntHalf + 1, r \in 0 .. 3, m \in Modes}
  \cup {RankedNode(ps, 1, "DISJOINT") : ps \in {<<>>, <<Pool(1, 3), Pool(4, 3)>>, <<Pool(Word - 2, 4)>>}}

\* Populations from 2^31 on.
Large ==
  {PopulationNode(ps) :
     ps \in UpToTwo(Pools({0, 10}, {1, IntHalf - 1, IntHalf, 2 * IntHalf}))}

\* Pools whose end wraps around: just, by far, with few or many persons, alone,
\* before and after another pool; the cast of some of their totals fails.
Wrapping ==
  {PopulationNode(ps) :
     ps \in UNION {{<<p>>, <<p, Pool(1, 1)>>, <<Pool(0, IntHalf), p>>} :
                     p \in {Pool(Word - 3, 3), Pool(Word - 5, 8),
                            Pool(20, 50), Pool(20, 56), Pool(39, 26)}}}

\* All of them: no message of a leaf is left out because of what it leads to.
AnySize == Fitting \cup Large \cup Wrapping
=============================================================================
