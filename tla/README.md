# Virtual People core serving: a verification development in TLA+

The repository labels advertising events with virtual person ids (VIDs). It has
two independent halves, each written twice, in C++ and in Kotlin:

* the **selector** picks, for one event, the model release that labels it;
* the **labeler** applies one model, a tree of compiled nodes, to the event.

This directory models both, checks the models with TLC on small instances, and
proves the most important results for all values of the constants with TLAPS.
`PROJECT.json` lists the components, the runs, the lines of the source each
definition stands for, one mutant of the code per checked property, the
findings, the hazards and the theorems.

Paths below are relative to `src/src/main/cc/wfa/virtual_people/core/` (C++) and
`src/src/main/kotlin/org/wfanet/virtualpeople/core/` (Kotlin).

## 1. The system

### 1.1 Components, their state and their operations

| Component | State | Operations | Modelled by |
|---|---|---|---|
| `selector/vid_model_selector.cc`, `VidModelSelector.kt` | the model line, its rollouts, a cache behind `mtx_` (`synchronized` in Kotlin) | `Build` (`ReadModelLine`), `GetModelRelease` (`ReadFromCache`, `CalculatePercentages`, `RetrieveActiveRollouts`, `CalculatePercentageAdoption`, `GetEventId`) | `RolloutSchedule`, `RolloutAdoption`, `VidModelSelector`, `ModelReleaseService` |
| `resourcekey/*.kt` | none | `fromName` of lines and rollouts | `RolloutSchedule` |
| `selector/lru_cache.cc` | a map and the list of its keys by last use | `Get`, `Add` | `LruCache` |
| `labeler/labeler.cc`, `Labeler.kt`, `Build` | `node_refs`: the nodes no parent has claimed yet | `Build(root)`, `Build(nodes)` with `ModelNode::Build`, `BranchNodeImpl::Build` and `BuildUpdaters` | `ModelBuild` |
| `model/model_serializer.cc` | the caller's message, the node list and the next index | `ToNodeListRepresentation`, called again after a refusal or a success | `ModelSerializer`, `ModelRoundTrip` |
| `labeler/labeler.cc`, `Label`, and `model/*_impl.cc` | the event that walks the tree, one frame per `Apply` | `Label` in two modes; `Apply` of branch, stop, population and ranked population nodes; `Update` of update trees | `Labeling`, `LabelingMeaning` |
| the two passes over a set of events | what pass 1 announced, the ranks, what pass 2 returned | pass 1, the ranker (external), pass 2 | `TwoPassLabeling` |
| `model/utils/feistel.cc`, `Feistel.kt` | the digits and the round | `FeistelPermute` | `Feistel` |
| `model/population_node_impl.cc`, `ranked_population_node_impl.cc`, `utils/virtual_person_selector.cc` and the Kotlin versions | compiled pools | `Build`, `GetVirtualPersonId`, the unranked path | `PopulationPools` |
| `utils/consistent_hash.cc` | none | `JumpConsistentHash` | `PopulationPools` |
| `update_matrix_impl.cc`, `sparse_update_matrix_impl.cc`, `conditional_merge_impl.cc`, `conditional_assignment_impl.cc`, `geometric_shredder_impl.cc`, `utils/update_matrix_helper.cc`, the two matchers, `distributed_consistent_hashing.cc` | what `Build` made of the message | `Build` and `Update` of each kind | `AttributeUpdaters` |
| `CollapseQuantumLabel` and the label a leaf writes, in `population_node_impl.cc` | none | collapse of each label by the seed of the person, merge over the classic label | `AttributeUpdaters` (`Labeling` has whether it succeeds) |
| `model/multiplicity_impl.cc` | the expected count | `Build`, `ComputeEventMultiplicity`, `GetFingerprintForIndex` | `Multiplicity`, `Labeling` |
| `model/*.kt` | as in C++ | as in C++ | the build of a model (`ModelBuild`), the population leaves (`PopulationPools`) and `Feistel`; the walk of a labeler and the updaters from C++ only |
| `model_writer_main.cc` | none | flags and files | not modelled |

### 1.2 How they interact

There are no messages between processes: components are called. Three kinds of
interaction matter.

* **Threads over one selector.** `GetModelRelease` is called concurrently. The
  percentages of adoption of a day are read from, or computed into, an LRU cache
  under one mutex; the choice of a release is made on a copy outside of it.
* **A list of nodes becomes a tree.** `Labeler::Build(nodes)` keeps built nodes
  in `node_refs` by index; a branch node that is built later moves its children
  out of that map. An update tree inside of a branch node gets a map of its own.
  The serializer produces such lists, and rewrites the caller's message as it
  goes.
* **An event walks a tree, twice.** A branch node updates the event and passes
  it on, or clones it, passes each clone on and merges what the clones bring
  back. In pass 1 (`pool_identity`) ranked leaves announce their pools; a ranker
  outside of the library gives each announcement a rank within its pool; in
  pass 2 the ranked leaf permutes that rank into a VID.

### 1.3 What is hard about it, and what makes each part correct

| Part | Hard | Correct means |
|---|---|---|
| rollouts | gradual adoption, freezes and the cut at the newest completed rollout over many days; ties in a sort that is not stable | an id never returns to an older release; the loop collects the active rollouts |
| selector | threads, a mutex, eviction; percentages that are cached per day and copied; two libraries that read names and windows differently | each reply is that of a selector without a cache; a day is computed once; calls return |
| node list | an index claimed twice, defined again, or never; update trees with a map of their own | lists are accepted exactly when they are one tree, and each node has one owner |
| serializer | numbers given in post order by a recursion that also rewrites the message, and may stop half way | the list rebuilds the same tree; a message that a refusal left half rewritten is never listed without what was replaced |
| labeling | clones of clones, updates before and after cloning, errors in the middle | the output is the meaning of the tree, computed without events that change |
| two passes | retries, any order of calls, clones that share a pool, pools too small | two events never share a ranked id; both passes agree on the pools |
| Feistel | an odd domain, cycle walking without a bound | a bijection; every walk ends |
| pools | empty pools, wrap around, a cast to int32, two libraries | ids stay in the pools, each person has one index, growth moves few events |
| updaters | a flat array read by columns, overlapping conditions, probabilities of zero | the merged row belongs to the column of the event; changed distributions move events only to what grew |
| labels | several quantum labels over one classic label, one seed for all fields, a label that fails after others were merged | what a leaf writes in a field is a choice of the last label that has it |

`PROJECT.json` lists the hazards one by one, each at its line, with the
properties that cover it or the reason why none does.

## 2. The modules

```
RolloutSchedule ── RolloutAdoption            (day by day)
       └────────── ModelReleaseService        (abstract: no cache, no mutex)
       └── LruCache ── VidModelSelector       (refines ModelReleaseService)
ModelBuild <── ModelRoundTrip ── ModelSerializer
Labeling ── LabelingMeaning                   (abstract: the meaning of a tree)
    ├────── TwoPassLabeling                   (caller, ranker, retries)
    └ ─ ─ ─ Multiplicity                      (the counts of the trees)
Feistel          PopulationPools          AttributeUpdaters (and labels)
```

`MC*.tla` and `MC*.cfg` give the constants their values. `*Proofs.tla` hold the
theorems (those of `LabelingMeaning`, `TwoPassLabeling` and `Multiplicity` in
`LabelingProofs`).

**RolloutSchedule** is the pure part of the selector: how rollouts are sorted,
which are active on a day, the share each has, and the release of an id. Dates
are civil days. A share is a fraction of two integers, so that doubles are
exact. `Hash` stands for `Fingerprint64`: a constant function, uniform over
`HashScale` values. `SortedRollouts` may put rollouts that start together in any
order, since `std::sort` is not stable; a selector keeps the order it got.
A resource name is the sequence of its segments. `Accepts` is what `Build` asks
of the names: `ReadModelLine` of C++ takes what stands between two markers,
`FromName` of the Kotlin keys wants all segments of its kind in their places.
*Assumed:* a rollout starts no later than it ends (`WellFormed`); the code does
not check it.

**RolloutAdoption** lets the date advance over the rollouts of one selector. The
date is that of the events: no code advances it, so `NextDay` is external.

**VidModelSelector** has one action per step of `GetModelRelease` between which
another thread may come in: the check of the window, `Lock`, `CacheHit` or
`CacheMiss`, `Compute`, `CacheAdd`, `Unlock`, `Select`, `Return`. `recency` is a
history variable (the days by last use); no action reads it. `model_line` says
which library serves it: `EventTime` and `ActiveEnd` are the two places where
they differ after `Build` (whole seconds, and the epoch for an end that is not
set). The Kotlin cache, a `LinkedHashMap` in access order, is taken for the C++
one, which keeps the same days.
**ModelReleaseService** is what both promise: a call is answered with a function
of its input, the line and the rollouts. `Stateless` says that the first
implements the second, for Kotlin if the line is `OnWholeSeconds`: both ends of
its window set and on whole seconds. `GetEventId` asks which library serves the
line, as they differ for an event id that is set without an `id`.

**ModelBuild** is the recursion of `Build` over a list as an explicit stack:
`node_refs`, the frames of branch nodes under construction, the node just built.
Messages are model values with an index, branches, update trees and a flag that
says whether their own contents are sound. A message stands in one place only,
as messages of a tree do; the messages nested in it (`Parts`) are nested less
deep, within `MaxDepth`, which stands for the nesting that protobuf can parse;
and only branch nodes have branches and update trees. A model says which library
builds it and whether it comes as a list or as one root. A root's indexes are not
looked at. A frame of
an update tree (`in_update`) sees an empty `node_refs` (`Refs`). Kotlin looks
for a second node of one index before it builds the node (`FoundEarly`), C++
afterwards (`Store`). **ModelSerializer** is `AddToNodeList` in the same form,
and **ModelRoundTrip** runs `ModelBuild` on the output of the first.
`CallAgain` is the caller who passes the same message again, as the last call
left it; `Repair` gives a child to a branch that was refused for lack of one. The
caller passes a tree, `IsTree`, and leaves one: as in `ModelBuild`, a message has
one place, is nested less deep than what holds it, and only branch nodes have
branches and update trees. Branches may already have an index, or nothing.

**Labeling** is `Label` as a stack of frames, one per `Apply`, and one event at
the top. What a functional update, a matcher, a hash or the expected
multiplicity yields is a function of the event, and part of the tree.
* Update trees are walked explicitly. No code checks that they end in stop
  nodes, so the trees include some that do not; the error "people only in leaf
  nodes" is then reachable.
* What an update tree changes inside of a multiplicity is lost with the clones,
  as in the code.
* The code merges the clones after the last of them has returned; the model
  collects as each returns, with the same result.
* `leaf` and `ranked` of a person are ghost fields that the properties read.
* `Ranked(n)` assumes that `permute` is injective, which `PermuteIsBijective`
  proves of the real one, and that the unranked hash is in its range, which
  `UnrankedStaysApart` proves of the leaves that C++ builds.
* Labels are payload: only whether they collapse is modelled here; what they
  collapse to is in `AttributeUpdaters`.

**LabelingMeaning** states what a tree means as one recursive function of a node
and a state, without a walk. As each node has one owner, which `OwnedOnce` and
`TreeIsTheModel` say of what `Build` returns, nodes have a height, below
`MaxHeight`, and `Apply` calls only what is lower. The meaning is stated for
models whose update trees have no leaf that gives people (`StopsUpdates`).
**TwoPassLabeling** adds the caller: events, what
each pass returned, and the ranker. The ranker is not in the repository; its
behaviour is that of `ranked_labeling_integration_test.cc:79-186`, one
sequential rank per announcement and pool. Ranked leaves that share a pool must
share the permutation (`OnePermutationPerPool`): no code checks that, and the
properties take it as a premise.

**Multiplicity** is the number of clones of an event: the expected number, from
the message or from a field, is capped or refused and rounded up or down by a
hash of the fingerprint. Expected numbers are exact. `UINT64_MAX` as a double
is 2^64, and so the threshold is a fraction of that. `MCLabeling` builds its
multiplicities by these operators, so that `Labeling` gets counts and errors
that the code can produce.

**Feistel** keeps the round hash free: any function of round and digit.

**PopulationPools** compiles one leaf by both libraries and asks both for the id
of the same key. Widths are constants (`Word` for 2^64, `IntHalf` for 2^31), so
that wrapping and the cast to int32 happen in a small instance. A key is the set
of buckets that `JumpConsistentHash` lands on: the chain increases, because the
multiplier of its loop is at least one, and does not depend on the number of
buckets. *Assumed:* the populations of a leaf add up in 64 bits; no code checks
it. As the total is cast to int32, the cookie monster pool of 10^14 persons uses
only 10^14 mod 2^32 = 276,447,232 of its ids.

**AttributeUpdaters** builds one updater from a message and calls it on events.
Probabilities are whole parts of `One`, not normalised, which changes no
comparison; the hash of each choice is free, so ties occur. *Assumed:* masked
events that differ have different fingerprints, and no fingerprint is 0 (its
`ExpHash` would be infinite). The checks of an index at run time, of rows and of
columns, are modelled with the `InternalError` they return, so that
`NeverInternal` speaks of all of them. The label of a leaf is a message of the same
kind: the quantum labels of the event are collapsed one after the other with the
hashing of the updaters, merged, and the classic label is merged on top.
`LabelerEvent`, `MergeFrom` and `FieldFilter` belong to protobuf and to another repository; they are modelled from their use
and marked external.

## 3. The runs

All runs of TLC are exhaustive. "Violation" runs find what section 5 describes.

| Run | Instance | Shows |
|---|---|---|
| `adoption` | every list of up to two rollouts over days 0..4, many lists of three, days 0..5; ids are all vectors of three hashes | the collected rollouts are those the loop walks to (`WalkFindsActive`), nobody is given a superseded release (`GivenIsCurrent`), nobody goes back (`AdoptionIsMonotone`) |
| `selector` | 3 threads, 3 days, a cache of 2, a C++ line whose window opens and closes within a day, rollouts named after this line, another, or the line itself, symmetric threads | `ComputedOnce`, `CacheCoherent`, `LruExact`, and the refinement `Stateless` |
| `selector_live` | 2 threads, a cache of 1, a C++ line without an end, a Kotlin line on whole seconds, a line whose name is refused, events with and without profiles, fairness | calls return (`CallReturns`), and again `Stateless` |
| `model_build` | both libraries; lists of up to 3 messages over 2 indexes, or a root; a fourth message nested under a branch or in an update tree | accepted exactly when it is a tree (`AcceptsTrees`), that tree (`TreeIsTheModel`), one owner (`OwnedOnce`), an end (`Returns`) |
| `round_trip` | every ordered tree of up to 4 messages, passed up to three times, with and without repair | the same tree comes back (`SameTree`), no list lacks a message of the tree (`NothingLost`) |
| `labeling` | 5 trees of 6 nodes, up to 3 clones, every input and mode, call after call | the walk answers with the meaning (`OutputIsMeaning`) |
| `two_pass` | 3 events, 5 models, pools with less room than events, retries | `RankedApart`, `DisjointApart`, `PassesAgree`, `RanksSuffice`, `Repeatable` |
| `two_pass_collisions` | the same | violation of `ZeroCollisions` |
| `feistel` | domains of 1, 2, 3, 5; all round hashes on two digits | `Bijective`, `NoRevisit`, `Terminates` |
| `pools` | 310 leaves, with populations past 2^31 and pools whose end wraps, every change from one to another, all keys | `InPoolsUnlessCastFails`, `ReservedKept`, `EveryPersonOnce`, `LibrariesAgree`, `UnrankedApart`, `GrowthMovesLittle` |
| `pools_large` | leaves of 2^31 persons and more | violation of `IdInPools` |
| `updaters` | 91 messages, 18 events, 10 hash outcomes with ties | `NeverInternal`, `RowOfColumn`, `DenseIsSparse`, `LabelOfChoices`, `KeepsFields`, `MovesTowardGrowth` |

`TypeOK` of the selector, of the adoption and of Feistel, and `LabelerTypeOK`,
are checked in the runs of their modules.

### Bounds, and why they are enough

* **Days and rollouts.** Three rollouts are what the break of the loop needs: a
  completed one, a frozen one before it and an active one after it. Five dates
  allow every order of two starts, two ends and a freeze; `LastDay` is one past
  the last of them, after which nothing changes.
* **Threads, cache.** Three days over a cache of two makes every day be evicted
  and come back; two threads race for one miss and the third finds the result.
  The theorems of section 4 cover all other sizes.
* **Nodes.** `MaxDepth` = 3 and `MaxHeight` = 3 leave room for every message and
  tree of the runs. Three listed messages give an index to a child, to a second parent
  that wants it too, and to a duplicate; the fourth is nested or an update tree.
  Four messages give the serializer a subtree of every shape before a sibling;
  the trees of `round_trip` have branches that are already numbers or nothing,
  update trees, messages that are not sound and branch nodes without branches.
  `MaxCallsAgain` = 2 lets a call follow a refusal and another follow that.
* **Trees.** `MaxClones` is 3 in `labeling`, so that a clone has one before and
  one after it, and 2 in `two_pass`, where two clones already share a pool; the
  models nest multiplicities, put multiplicities and leaves into update trees
  and let updates fail in one state only.
* **Two passes.** Pools have one or two ranks for three events, so that ranks run
  out and unranked persons meet ranked ones.
* **Feistel.** `MaxHalf` = 3 digits per half: domain 5 has four values to walk
  through and 2 and 3 have fewer; 1 and 2 are the special cases.
* **Pools.** `IntHalf` = 6 and `Word` = 64: sizes below, at and above the end of
  int32, up to four times it, whose cast is positive, zero or negative; pools
  whose end wraps just or by far, alone, before and after others; the reserved
  range starts at 40 and holds 14, of which 2 remain after the cast. `pools` has
  all of these leaves: nothing is left out because of what it leads to.
* **Updaters.** Matrices of two columns and two rows have all ways to mix them
  up; a third row lets a changed distribution move events between two others.

### Fairness

* `selector_live`: weak fairness of the steps of each thread that is in a call.
  A thread that runs is scheduled; `std::mutex` promises no waiter its turn while
  others keep taking it, and so `CallReturns` is about calls after which the
  other threads stop calling.
* `model_build`: weak fairness of `Next`, as the code is sequential.
* `feistel`: weak fairness of `Round`, `Walk` and `Return`, the loop of one
  call; calls themselves need not come.

The other runs check safety only. Deadlock is checked where the system goes on
for ever. `adoption`, `model_build` and `round_trip` do stop (the last day, the
end of the build).

## 4. The theorems

Each theorem holds for every value of the constants under the named assumptions
of the modules (`RolloutListsAssumption`, `SelectorAssumption`,
`ModelsAssumption`, `TreesAssumption`, `WidthsAssumption`, ...), which TLC also evaluates.

* **Adoption** (`RolloutAdoptionProofs`). `NeverBackToAnOlderRelease` is the
  monotonicity of adoption for any rollouts, ids and hash. Its core is
  `SelectionAdvances`: the share of a rollout only
  grows until it is frozen or complete, so that an id which has adopted it keeps
  it (`AdoptedStays`), and the first active rollout, to which every other id
  falls, only moves forward. No strengthening of `TypeOK` is needed: the date
  and the rollouts are all the state there is. `SelectionIsCurrent` follows from
  `ActiveRollouts`. `WalkIsActive` is about the loop of the code, a recursive
  function: what it has collected when it comes to a rollout are the active
  ones after it.
* **Selector** (`VidModelSelectorProofs`, for both libraries). `CallInv` ties the control of a call
  to its input, reply and the mutex; `DataInv` says that nothing is cached
  before the rollouts are final and that a day computed under the lock is not
  yet held. Together they are inductive, and imply `OneThreadComputes` and
  `CacheIsCoherent`. From those follows the refinement `SelectorIsStateless`:
  the only step that gives a reply maps to the answer of the service, all others
  to a call, a return or a stutter; for a Kotlin line it needs that the two
  readings of the window agree, which they do on whole seconds. `CacheIsLru` adds
  the history of uses, and is about sequences that move an element to the front.
  `SelectorIsTyped` needs `TypeInv`, that an idle thread holds no percentages.
* **Building** (`ModelBuildProofs`). The invariant places nodes: a child or an
  update tree by the message of its parent, whether the parent is built or
  under construction, a waiting node by its index, a branch node under
  construction by its call. `Once` says that no node is in two places, and
  `PutOnce` that a step which moves one node keeps that. A step may only *add* a
  node that is nowhere yet: therefore the invariant also says that whatever is
  somewhere has had its turn in the messages (`Passed`), and as a message stands
  in one place (`ModelsAssumption`), the one that is built next is new
  (`FreshListed`, `FreshBranch`, `FreshUpdate`). `EveryNodeHasOneOwner` follows,
  for both libraries and entries. `BuiltTreeIsModel` needs to know more, that
  nothing is built but what is asked for, and nothing is lost. So `BuildInv` adds
  that each call under way is for the node its caller waits for (`Chained`) and
  what is built fits its message (`Fits`); that what was taken from the list is
  somewhere (`ListedKept`); that an owner has complete nodes only
  (`OwnedAreGrown`); and that a branch node is above what it owns (`Layered`),
  which gives the tree a height. At the end only the root is left outside of
  branch nodes. Every part of a message is then in the tree, by the depth of the
  messages, and every node of the tree is a part of the list, by its height.
  `AcceptsExactlyTrees` says when `Build` gives an error: a list is a
  tree (`Representable`) when, for each index, the messages that define it and the branches that
  claim it come in the right order and number (`InOrder`). `AcceptInv` counts
  along the list: between two messages, an index that was defined and not yet
  claimed is the index of exactly one node of `node_refs`, and no other is
  (`Indexed`, `Balanced`); while a message is built, what its branches have
  claimed so far is what their frames have taken from `node_refs`; and a call
  for an update tree knows that it is in one and claims nothing (`Allowed`). An
  error is reported only where one of these counts, or a message itself, fails
  the condition, and a model only when all of the list has met it.
* **Round trip** (`ModelRoundTripProofs`). The serializer rewrites the messages
  it recurses over, and a call that is refused leaves them half rewritten; its
  invariant `SInv` therefore compares the branches as they are with those of the
  tree as it was passed in. Each branch still nests its child or has a number in
  its place (`Rewritten`). That number is the position of the child in the list
  for every branch the calls under way are past (`Calling`) and for every
  message already listed (`Listed`, `Linked`), so a number that stands for
  nothing can only be in a branch that is still ahead, where it will be refused.
  A message is listed once, as it has one place, which is rewritten by then.
  `EveryMessageIsListed` follows: the last one of a list is the root, and the
  messages of the list are closed under children. `RoundTripKeepsTheTree`
  composes this with the theorems about building. What the serializer leaves is
  a list that satisfies `ModelsAssumption` (`ListsAssumption`), and every step of
  the loader is a step of `ModelBuild` over that list (`LoaderIsBuild`), so that
  the invariant of the build holds of the list as of any other model. The list
  represents a tree exactly when the tree that was passed in is `Buildable`
  (`ListRepresents`), for each number is defined once and claimed once, later;
  and as a number stands for the child that was nested there, the tree that is
  built is the tree that was passed in (`TreeIsTheSame`).
* **Two passes** (`LabelingProofs`). `CallInv` types the event through every
  frame of a walk, and carries along, for each person on an event, in a frame or
  in a clone, a rank of that event in the pool of the leaf. `InputOk`
  says that the ranks a running call was given are a prefix of those of its
  event; `RanksInv` that the ranker gives a rank of a pool to one event only;
  `CallerInv` that what the passes have returned is as `CallInv` leaves it.
  `RankedIsCollisionFree` follows, as permutations are injective. Without
  `InputOk` the invariant is not inductive: a call may overlap with the ranker.
  `PersonOk` also says of a person without a rank that the leaf has put it
  behind the ranked range of a pool that `DISJOINT` splits (`BehindRanks`);
  `UnrankedKeepOut` follows from that and the range of the permutations.
* **Two passes, one path** (`LabelingProofs`). Nothing in the state of pass 2
  says what pass 1 did, so `RunInv` speaks of runs: `Apply` is a deterministic
  machine, the call under way is in a state its machine comes to (`RunsTo`), and
  each output that a caller holds is the end of such a run. Two runs over one
  event, one in each mode, go side by side through the same nodes and states;
  where the one has announced a pool the other has given a person of that pool,
  or failed. As the ranks are for the announced pools in their order
  (`RanksMatch`), no rank is ever missing. `PassesTakeOnePath`,
  `RanksAlwaysSuffice` and `PassesRepeat` follow.
* **Meaning** (`LabelingProofs`). `WalkIsMeaning`: at every step there is a chain
  of results from the meaning of the root (`Goal`) through the frames to what the
  event has brought so far, each the meaning of its node if the next is what the
  part under way brings (`OnTheWay`). A step of the walk extends, shortens or
  keeps the chain; when no frame is left, its two ends are one result. That
  `Meaning` is a function which satisfies its recursive definition is proved
  first, by the height of the nodes.
* **Feistel** (`FeistelProofs`). A round is invertible, so four rounds are a
  permutation of the square; a walk is a path of it and paths from different
  arguments never meet (`PathsApart`). The invariant says that the trail of the
  call is such a path and that each answer ends one. `PermuteIsBijective` and
  `WalkNeverRevisits` follow.
* **Pools** (`PopulationPoolsProofs`). `JumpMovesLittle`: for any chain of
  buckets, with more buckets a key keeps its bucket or moves to a new one.
  `UnrankedStaysApart`: the guard of the C++ `Build` on the pool size is enough
  to keep unranked persons of a ranked leaf out of its ranked range. The others
  rest on the sums that the leaf is compiled to: they increase, and so each index
  of a person falls into one pool. `LibrariesAlwaysAgree` and
  `PersonsCountedOnce` hold of all pools. So do `IdsStayInPools` and
  `ReservedIdsKept`, without hypotheses: they say which leaves fail. An id is
  outside of the pools only if the total is not positive as an int32
  (`CastFails`), which no code checks of a population leaf; that is the finding
  of `pools_large`. As `IsValidPools` adds modulo 2^64, a leaf that C++ accepts,
  other than the cookie monster pool, has a reserved person exactly if the end
  of one of its pools wraps (`EndWraps`): a pool that passes without wrapping
  ends below the reserved range, and one that wraps holds the last id before
  2^64. An event gets a reserved id only from such a leaf, or where the cast
  fails and the bucket is -1, which is counted back from the last pool and may
  wrap below 0.
  `GrowingMovesLittle` needs no hypothesis either; the population stays in reach
  of an int32 by what it means to grow (`Extends`).
* **Updaters and labels** (`AttributeUpdatersProofs`). `UpdatersInv` says that
  the updater is what `Build` made of its message and the answer what `Update`
  made of the event; the rest is about these operators. A hashing that `Build`
  accepts has a choice of positive probability and returns one with the least
  quotient of hash and probability. With it: no index is out of range
  (`NoIndexOutOfRange`), a matrix merges a row of the first column that matches
  (`MatrixMergesRowOfColumn`), the flat array of a dense matrix has the cells of
  the sparse one at the places the matcher asks for (`DenseAlwaysSparse`), a
  changed distribution moves columns to what has grown (`RowsMoveTowardGrowth`),
  and a field of a label is from the last message that has it
  (`LabelHasLastWord`). `CallOutcomes` sums up what any call can leave, and
  gives `FieldsAreKept`: for the list of assignments it is an invariant of the
  single assignment, that each field holds what one of its type held before.
* **Multiplicity** (`LabelingProofs`). `ClonesWithinCap`: an event never gets
  as many as `max_value` plus one clones. `ClonesGrowWithValue`: for one event a
  larger value never gives fewer clones. Both rest on `BimodalOrder` and
  `BimodalNear`, facts about the rounding.

Recursion: the installed provers cannot use induction over data. Where a
definition is recursive, a proof takes a least counterexample instead, from
`NatLessThanWellFounded` (`NatMinimum`), over a length, a height or a depth. The
constants therefore bound the height of trees and the depth of messages; the
bounds are arbitrary.

Only model-checked: liveness (`CallReturns`, `Returns`, `Terminates`), which is
out of the prover's reach. Every invariant and every action property of a
passing run is a theorem as well, and so is the refinement `Stateless`.

## 5. Findings

* `two_pass_collisions`: `ranked_population_node_impl.cc:131` promises "zero
  collisions" on the ranked path. Two clones of one event that reach one pool
  both take the *first* rank of that pool (lines 114-120) and get the same VID,
  though pass 1 announced the pool twice and the ranker gave two ranks. Between
  events there is no collision: that is `RankedIsCollisionFree`.
* `pools_large`: `virtual_person_selector.cc:95` casts the total population to
  int32. From 2^31 on the number of buckets may be negative, the bucket is -1,
  and the id lies outside of all pools. `VirtualPeopleSelector.kt` does the same.

Observed while modelling, without a run of their own:

* `RankedPopulationNodeImpl.kt:85` calls `toInt()` on the unranked size without
  the guard of C++ (`ranked_population_node_impl.cc:59-66`), so that
  `UnrankedApart` is false of the larger leaves that Kotlin builds.
* `IsValidPools` (`population_node_impl.cc:64`) adds offset and size modulo 2^64:
  a pool whose end wraps may pass as below the reserved range (`ReservedKept`).
* `BuildUpdaters` (`branch_node_impl.cc:94-107`) builds updaters without
  `node_refs`, so that an update tree whose branches are indexes is refused,
  although `attributes_updater.h:35-40` offers the variant with `node_refs`.
* `labeler.h:81` says of `Build(root)` that "Any index or node_index field is
  ignored"; a branch with a `node_index` is refused.
* A node of a list may take over the index of a child it claims: C++ builds the
  node, and so frees the index, before it looks for a second one; Kotlin looks
  first and refuses.
* Kotlin's selector takes a line without an end as one that ended at the epoch
  and reads event times in whole seconds (`VidModelSelector.kt:74`); C++ takes
  it as one that never ends, and microseconds.
* For an input with an `event_id` whose `id` is not set, C++ takes the empty
  string as the id (`vid_model_selector.cc:356-357`), so that all such events get
  one release; Kotlin fails (`VidModelSelector.kt:285-288`).
* C++ takes the name of a line for the name of a rollout of it, and any text
  around the markers; Kotlin wants all segments. Neither compares the provider
  or the suite of a rollout with those of the line.
* `population_node_impl.h:36-38` and `55-57` describe a leaf with a single empty
  pool; C++ refuses it, Kotlin builds it.

## 6. Not modelled

* The walk of the Kotlin labeler and its updaters: the code follows C++ node by
  node, and a second copy of `Labeling` would say the same. Where the libraries
  are known to differ (building a model, pools, names, the window of a line),
  both are modelled.
* Floating point: shares, probabilities and hashes are exact, and NaN does not
  occur. `ExpHash`, the multiplier of the jump hash and `sqrt` in Feistel are
  described by what the callers need of them. `sqrt` is exact for the domains
  that C++ admits, which end at 2^31 - 1.
* The values of demographics and classifiers: payload that no property tells
  apart.
* Flags, reading and writing of files, logging; `model_writer_main.cc` has
  nothing else.

## 7. Plan

Done: the selector in both libraries with its names; the build of a model from a
list or a root, with update trees, in both libraries; the serializer and the
message it leaves; labeling and its meaning; the two passes; Feistel;
multiplicity; pools; updaters; labels; a theorem for each invariant that a run
checks.

Left: **the walk of the Kotlin labeler**, as a parameter of `Labeling`, should
it come to differ from C++.
