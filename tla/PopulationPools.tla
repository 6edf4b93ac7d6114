-------------------------- MODULE PopulationPools --------------------------
(***************************************************************************)
(* From the pools of a leaf to a virtual person id: a leaf is compiled by  *)
(* the C++ and by the Kotlin library, refused or built, and asked for the  *)
(* id of a key.  Arithmetic is that of the code: uint64 wraps at Word, and *)
(* int32 ends before IntHalf.                                              *)
(*                                                                         *)
(* A key stands for the chain of buckets that JumpConsistentHash lands on  *)
(* from it: the multiplier of the loop is at least one, so that the chain  *)
(* is increasing, starts at 0 and does not depend on the number of buckets.*)
(***************************************************************************)
EXTENDS Integers, Sequences, FiniteSets

CONSTANTS
  Word,                       \* 2^64
  IntHalf,                    \* 2^31
  CookieOffset, CookieSize,   \* kCookieMonsterOffset and kCookieMonsterSize
  Configs,                    \* the leaves of the versions of a model
  Keys,                       \* the keys, as the buckets they land on
  NoId                        \* an error return, or no id set

Libraries == {"cc", "kt"}
UInt64 == 0 .. Word - 1
VirtualPersonPool == [population_offset : UInt64, total_population : UInt64]

\* The populations of the first k pools.
Population(pools) ==
  LET upTo[k \in 0 .. Len(pools)] ==
        IF k = 0 THEN 0 ELSE upTo[k - 1] + pools[k].total_population
  IN  upTo

\* 10^14 % 2^32 is less than 2^31.  The populations of a leaf add up in a
\* uint64; no code checks that.
ASSUME WidthsAssumption ==
  /\ IntHalf \in Nat \ {0} /\ Word \in Nat /\ 2 * IntHalf <= Word
  /\ CookieOffset \in UInt64 /\ CookieSize \in UInt64
  /\ CookieSize % (2 * IntHalf) \in 1 .. IntHalf - 1
  /\ \A key \in Keys : key \subseteq 0 .. IntHalf - 1 /\ 0 \in key
  /\ \A c \in Configs :
       /\ c.kind \in {"population", "ranked"}
       /\ c.pools \in Seq(VirtualPersonPool)
       /\ Population(c.pools)[Len(c.pools)] < Word
       /\ c.kind = "ranked" =>
            /\ c.ranked_size \in UInt64
            /\ c.unranked_mode \in {"DISJOINT", "FULL_POOL"}

VARIABLES
  config,       \* the message of the leaf, in the version of the model in use
  leaf,         \* what each library has built from it
  key, ids      \* the key asked for last, and the id each library has given

vars == <<config, leaf, key, ids>>

Refused == [kind |-> "refused"]
EmptyPool == [kind |-> "empty"]
NoKey == {}
NoIds == [lib \in Libraries |-> NoId]

---------------------------------------------------------------------------
(* Building a leaf.                                                        *)

IsCookieMonsterPool(pools) ==
  /\ Len(pools) = 1
  /\ pools[1].population_offset = CookieOffset
  /\ pools[1].total_population = CookieSize

\* Fault: only the offset of a pool is compared.
OffsetsBelow(pools) ==
  \/ IsCookieMonsterPool(pools)
  \/ \A k \in DOMAIN pools : pools[k].population_offset <= CookieOffset

IsValidPools(pools) ==
  \/ IsCookieMonsterPool(pools)
  \/ \A k \in DOMAIN pools :
       (pools[k].population_offset + pools[k].total_population) % Word
         <= CookieOffset

\* The pools that have persons.
NonEmpty(pools) ==
  LET upTo[k \in 0 .. Len(pools)] ==
        IF k = 0 THEN <<>>
        ELSE IF pools[k].total_population = 0 THEN upTo[k - 1]
        ELSE Append(upTo[k - 1], pools[k])
  IN  upTo[Len(pools)]

\* Fault: the populations are not added up.
NotAddedUp(pools) ==
  LET nonempty == NonEmpty(pools)
  IN  IF nonempty = <<>> THEN Refused
      ELSE [kind |-> "population",
            total_population |-> Population(nonempty)[Len(nonempty)],
            pools |-> [k \in DOMAIN nonempty |->
                         [virtual_people_id_offset |->
                            nonempty[k].population_offset,
                          population_index_offset |->
                            IF k = 1 THEN 0
                            ELSE nonempty[k - 1].total_population]]]

\* VirtualPersonSelector::Build, the same in both libraries: empty pools are
\* dropped, and the others are put one after the other.
CompiledPools(pools) ==
  LET nonempty == NonEmpty(pools)
      population == Population(nonempty)
  IN  IF nonempty = <<>> THEN Refused
      ELSE [kind |-> "population",
            total_population |-> population[Len(nonempty)],
            pools |-> [k \in DOMAIN nonempty |->
                         [virtual_people_id_offset |->
                            nonempty[k].population_offset,
                          population_index_offset |-> population[k - 1]]]]

IsEmptyPopulationPool(pools) ==
  /\ Len(pools) = 1
  /\ pools[1].population_offset = 0 /\ pools[1].total_population = 0

PopulationLeaf(lib, pools) ==
  IF lib = "kt"
  THEN IF IsEmptyPopulationPool(pools) THEN EmptyPool ELSE CompiledPools(pools)
  ELSE IF IsValidPools(pools) THEN CompiledPools(pools) ELSE Refused

\* Fault: the guard of C++ is one too high.
GuardTooHigh(lib, size) == lib = "cc" => size <= IntHalf

\* Only C++ refuses a pool that does not fit in an int32.
FitsInInt(lib, size) == lib = "cc" => size <= IntHalf - 1

RankedLeaf(lib, c) ==
  IF /\ Len(c.pools) = 1
     /\ c.pools[1].total_population # 0
     /\ FitsInInt(lib, c.pools[1].total_population)
     /\ c.ranked_size <= c.pools[1].total_population
  THEN [kind |-> "ranked",
        pool_offset |-> c.pools[1].population_offset,
        pool_size |-> c.pools[1].total_population,
        ranked_size |-> c.ranked_size,
        unranked_mode |-> c.unranked_mode]
  ELSE Refused

Built(c) ==
  [lib \in Libraries |->
     IF c.kind = "population" THEN PopulationLeaf(lib, c.pools)
     ELSE RankedLeaf(lib, c)]

Init ==
  /\ config \in Configs
  /\ leaf = Built(config)
  /\ key = NoKey /\ ids = NoIds

\* A new version of the model is built.
Build(c) ==
  /\ config' = c
  /\ leaf' = Built(c)
  /\ key' = NoKey /\ ids' = NoIds

---------------------------------------------------------------------------
(* Asking for an id.                                                       *)

\* static_cast<int32_t> and toInt().
Int32(u) ==
  LET low == u % (2 * IntHalf)
  IN  IF low < IntHalf THEN low ELSE low - (2 * IntHalf)

\* Fault: a hash that spreads the keys anew over each number of buckets.
Remainder(k, num_buckets) ==
  IF num_buckets <= 0 THEN -1
  ELSE Cardinality(k) % num_buckets

\* The last bucket of the chain before num_buckets; -1 if there is none.
JumpConsistentHash(k, num_buckets) ==
  IF num_buckets <= 0 THEN -1
  ELSE CHOOSE b \in k : /\ b < num_buckets
                        /\ \A a \in k : a < num_buckets => a <= b

\* Fault: std::lower_bound.
LowerBound(pools, index) ==
  Cardinality({k \in DOMAIN pools :
                 k = 1 \/ pools[k].population_index_offset < index})

\* The pool before std::upper_bound.
PoolCc(pools, index) ==
  Cardinality({k \in DOMAIN pools : pools[k].population_index_offset <= index})

\* Fault: the first pool that is not smaller.
FirstNotSmaller(pools, index) ==
  LET larger == {k \in DOMAIN pools :
                   k > 1 /\ index <= pools[k].population_index_offset}
  IN  IF larger = {} THEN Len(pools)
      ELSE (CHOOSE k \in larger : \A l \in larger : k <= l) - 1

\* The pool before indexOfFirst, or the last.
PoolKt(pools, index) ==
  LET larger == {k \in DOMAIN pools : index < pools[k].population_index_offset}
  IN  IF larger = {} THEN Len(pools)
      ELSE (CHOOSE k \in larger : \A l \in larger : k <= l) - 1

\* The id of a population index.
PersonAt(lib, l, index) ==
  LET k == IF lib = "cc" THEN PoolCc(l.pools, index) ELSE PoolKt(l.pools, index)
  IN  (index - l.pools[k].population_index_offset
         + l.pools[k].virtual_people_id_offset) % Word

GetVirtualPersonId(lib, l, k) ==
  PersonAt(lib, l, JumpConsistentHash(k, Int32(l.total_population)) % Word)

\* The unranked path of a ranked leaf.
UnrankedPersonId(l, k) ==
  IF l.unranked_mode = "DISJOINT"
  THEN IF l.pool_size = l.ranked_size THEN NoId
       ELSE (l.pool_offset + l.ranked_size
               + JumpConsistentHash(k, Int32(l.pool_size - l.ranked_size)))
              % Word
  ELSE (l.pool_offset + JumpConsistentHash(k, Int32(l.pool_size))) % Word

\* A leaf that Kotlin built from an empty population pool gives no id.
IdOf(lib, l, k) ==
  CASE l.kind = "population" -> GetVirtualPersonId(lib, l, k)
    [] l.kind = "ranked" -> UnrankedPersonId(l, k)
    [] OTHER -> NoId

\* An event is labeled.
Label(k) ==
  /\ \E lib \in Libraries : leaf[lib] # Refused
  /\ key' = k
  /\ ids' = [lib \in Libraries |-> IdOf(lib, leaf[lib], k)]
  /\ UNCHANGED <<config, leaf>>

Next == (\E c \in Configs : Build(c)) \/ (\E k \in Keys : Label(k))

Spec == Init /\ [][Next]_vars

---------------------------------------------------------------------------
(* Properties.                                                             *)

\* The ids from offset on.
Range64(offset, size) == {(offset + i) % Word : i \in 0 .. size - 1}
PossibleIds(pools) ==
  UNION {Range64(pools[k].population_offset, pools[k].total_population) :
           k \in DOMAIN pools}

\* The possible id space of VirtualPersonSelector is the combination of all
\* pools: no id that it gives is outside of every pool.
IdInPools ==
  config.kind = "population" =>
    \A lib \in Libraries : ids[lib] # NoId => ids[lib] \in PossibleIds(config.pools)

\* The cast of a total to int32 leaves no population to choose from.
CastFails(l) == Int32(l.total_population) <= 0

\* What the code does keep of this, for every message that it builds: the id is
\* in the pools, through empty pools, borders and ends that wrap around, unless
\* the cast of the total to int32 fails.
InPoolsUnlessCastFails ==
  \A lib \in Libraries :
    (config.kind = "population" /\ ids[lib] # NoId) =>
      \/ ids[lib] \in PossibleIds(config.pools)
      \/ CastFails(leaf[lib])

\* The end of a pool does not fit in a uint64.
EndWraps(pool) == pool.population_offset + pool.total_population >= Word

\* The ids from kCookieMonsterOffset on are for the cookie monster pool.  What
\* IsValidPools makes of this, for any other population leaf that C++ builds:
\* the leaf has a person there exactly if the end of a pool wraps around, which
\* the comparison of the sums lets through; and an event gets such an id only
\* from such a leaf, or from one whose total is not positive as an int32.
ReservedKept ==
  LET l == leaf["cc"]
      Wraps == \E k \in DOMAIN config.pools : EndWraps(config.pools[k])
  IN  (l.kind = "population" /\ ~ IsCookieMonsterPool(config.pools)) =>
        /\ Wraps <=> \E i \in 0 .. l.total_population - 1 :
                       PersonAt("cc", l, i) >= CookieOffset
        /\ (ids["cc"] # NoId /\ ids["cc"] >= CookieOffset) =>
             Wraps \/ CastFails(l)

\* Compiling loses no person and counts none twice: when the pools of a leaf are
\* disjoint, each id of them belongs to exactly one population index.
EveryPersonOnce ==
  \A lib \in Libraries :
    LET l == leaf[lib]
    IN  (/\ l.kind = "population"
         /\ \A j, k \in DOMAIN config.pools : j # k =>
              PossibleIds(<<config.pools[j]>>) \cap PossibleIds(<<config.pools[k]>>)
                = {})
        => \A v \in PossibleIds(config.pools) :
             Cardinality({i \in 0 .. l.total_population - 1 :
                            PersonAt(lib, l, i) = v}) = 1

\* The libraries are to behave the same (virtual_person_selector_test.cc and
\* population_node_impl_test.cc compare exact counts): whatever C++ builds,
\* Kotlin builds, and it gives every key the same id.
LibrariesAgree ==
  leaf["cc"] # Refused => leaf["kt"] = leaf["cc"] /\ ids["kt"] = ids["cc"]

\* Where an unranked person of a ranked leaf may be.
UnrankedIds(l) ==
  IF l.unranked_mode = "DISJOINT"
  THEN Range64(l.pool_offset + l.ranked_size, l.pool_size - l.ranked_size)
  ELSE Range64(l.pool_offset, l.pool_size)

\* An unranked person of a ranked leaf that C++ has built stays in the unranked
\* sub-range of the pool, or in the pool in FULL_POOL mode, however large the
\* pool is.  Kotlin builds larger pools, of which this is false.
UnrankedApart ==
  (leaf["cc"].kind = "ranked" /\ ids["cc"] # NoId)
    => ids["cc"] \in UnrankedIds(leaf["cc"])

\* The old leaf's population comes first in the new leaf, which is in reach of
\* an int32.
Extends(lib, old, new) ==
  /\ old.kind = "population" /\ new.kind = "population"
  /\ new.total_population < IntHalf
  /\ old.total_population < new.total_population
  /\ \A i \in 0 .. old.total_population - 1 :
       PersonAt(lib, new, i) = PersonAt(lib, old, i)

\* Consistent hashing: when pools grow at their end, an event keeps its person
\* or gets one of the new persons, and is never moved among the old ones.
GrowthMovesLittle ==
  [][\A lib \in Libraries :
       Extends(lib, leaf[lib], leaf'[lib]) =>
         \A k \in Keys :
           \/ IdOf(lib, leaf'[lib], k) = IdOf(lib, leaf[lib], k)
           \/ \E i \in leaf[lib].total_population ..
                         leaf'[lib].total_population - 1 :
                IdOf(lib, leaf'[lib], k) = PersonAt(lib, leaf'[lib], i)]_leaf
=============================================================================
