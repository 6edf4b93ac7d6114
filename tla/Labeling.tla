------------------------------ MODULE Labeling ------------------------------
(***************************************************************************)
(* Labeler::Label on a built model: the LabelerEvent walks from the root   *)
(* to a leaf.  A branch node updates the event and selects a child; one    *)
(* with a multiplicity sends several clones of the event down and merges   *)
(* what they bring back.  In pool identity mode (pass 1) a ranked leaf     *)
(* announces its pool, in full mode (pass 2) a leaf adds a person.         *)
(*                                                                         *)
(* What an update, a matcher, a hash or the expected multiplicity computes *)
(* is part of the tree: a function of the acting fingerprint and the other *)
(* fields of the event.                                                    *)
(***************************************************************************)
EXTENDS Integers, Sequences

CONSTANTS
  Nodes, Root, NoNode,    \* the ModelNodes, root_, and none
  Fingerprints, Default,  \* acting fingerprints, and the one of no event id
  Fields,                 \* what else of the event a tree reads and writes
  Failed,                 \* an error status
  Collapsible,            \* the fields whose quantum labels collapse
  MaxClones,              \* no expected multiplicity is above it
  Events, NoEvent,        \* the events to label, and an id or event not set
  Trees                   \* the models a Labeler may be built from

State == [fp : Fingerprints, fields : Fields]
PoolAssignment == [pool_offset : Nat, pool_size : Nat, ranked_size : Nat]
RankAssignment == [pool_offset : Nat, local_rank : Nat]
Modes == {"pool_identity", "full"}

\* A person of the output.  The node that added it and whether it did so from
\* a rank are not part of the message: the properties need them.
VirtualPersonActivity == [vid : Nat, leaf : Nodes, ranked : BOOLEAN]

\* What Build leaves of a node of each kind.  An updater is a function, or an
\* update tree: a tree of its own.  That permute is injective is the theorem of
\* FeistelProofs.
ByFunction(f) == [by |-> "function", f |-> f]
ByTree(n) == [by |-> "tree", root |-> n]
Branching(n) ==
  /\ n.children \in Seq(Nodes)
  /\ n.select \in [State -> 0 .. Len(n.children)]
Updating(n) ==
  /\ Len(n.updaters) \in Nat /\ DOMAIN n.updaters = 1 .. Len(n.updaters)
  /\ \A k \in DOMAIN n.updaters :
       \/ n.updaters[k].by = "tree" /\ n.updaters[k].root \in Nodes
       \/ /\ n.updaters[k].by = "function"
          /\ n.updaters[k].f \in [State -> State \cup {Failed}]
Cloning(n) ==
  /\ n.clone_count \in [State -> 0 .. MaxClones \cup {Failed}]
  /\ n.clone_fp \in [Fingerprints -> [1 .. MaxClones -> Fingerprints]]
  /\ n.person_index \in [Fields -> [0 .. MaxClones -> Fields]]
Ranked(n) ==
  /\ n.pool_offset \in Nat /\ n.pool_size \in Nat \ {0}
  /\ n.ranked_size \in 0 .. n.pool_size
  /\ n.unranked_mode \in {"DISJOINT", "FULL_POOL", "UNSPECIFIED"}
  /\ n.permute \in [0 .. n.ranked_size - 1 -> 0 .. n.ranked_size - 1]
  /\ \A i, j \in 0 .. n.ranked_size - 1 : n.permute[i] = n.permute[j] => i = j
  /\ n.jump \in [Fingerprints -> Nat]
  /\ \A fp \in Fingerprints :
       IF n.unranked_mode = "DISJOINT"
       THEN n.ranked_size < n.pool_size =>
              n.ranked_size + n.jump[fp] < n.pool_size
       ELSE n.jump[fp] < n.pool_size

ASSUME TreesAssumption ==
  /\ Root \in Nodes /\ NoNode \notin Nodes /\ NoEvent \notin Events
  /\ Default \in Fingerprints /\ Failed \notin State /\ Failed \notin Nat
  /\ MaxClones \in Nat
  /\ \A t \in Trees, n \in Nodes :
       \/ t[n].kind = "updates" /\ Branching(t[n]) /\ Updating(t[n])
       \/ t[n].kind = "multiplicity" /\ Branching(t[n]) /\ Cloning(t[n])
       \/ t[n].kind = "ranked" /\ Ranked(t[n])
       \/ t[n].kind = "population" /\ t[n].vid \in [Fingerprints -> Nat]
       \/ t[n].kind = "stop"

VARIABLES
  tree,           \* the nodes under root_, never changed
  input,          \* LabelerInput of the call: event, fingerprint, fields, ranks
  mode,           \* the LabelingMode of the call
  at,             \* the node whose Apply is called, NoNode once it has returned
  event,          \* the LabelerEvent that Apply works on
  frames,         \* Apply calls of branch nodes under way, the innermost last
  outcome,        \* "idle", "running", "ok" or the error returned
  output          \* LabelerOutput

labelerVars == <<tree, input, mode, at, event, frames, outcome, output>>

LabelerInput ==
  [event : Events, fp : Fingerprints \cup {NoEvent}, fields : Fields,
   ranks : Seq(RankAssignment)]
LabelerEvent ==
  [fp : Fingerprints, fields : Fields, people : Seq(VirtualPersonActivity),
   pools : Seq(PoolAssignment)]

\* The updaters of a node still to call, or the clones still to apply with
\* what those before have brought.
UpdatesFrame == [kind : {"updates"}, node : Nodes, next : Nat \ {0}]
ClonesFrame ==
  [kind : {"clones"}, node : Nodes, source : LabelerEvent,
   clones : Seq(State), applied : Nat, people : Seq(VirtualPersonActivity),
   pools : Seq(PoolAssignment)]
LabelerOutput ==
  [people : Seq(VirtualPersonActivity), pools : Seq(PoolAssignment)]
Nothing == [people |-> <<>>, pools |-> <<>>]

LabelerInit ==
  /\ tree \in Trees
  /\ input = NoEvent /\ mode = "full"
  /\ at = NoNode
  /\ event = NoEvent
  /\ frames = <<>>
  /\ outcome = "idle"
  /\ output = Nothing

\* Fault: an acting fingerprint that is not set is passed on.
UnsetEvent(in) ==
  [fp |-> in.fp, fields |-> in.fields, people |-> <<>>, pools |-> <<>>]

\* Fault: what the last call has put in the event stays there.
ReusedEvent(in) ==
  [fp |-> IF in.fp = NoEvent THEN Default ELSE in.fp, fields |-> in.fields,
   people |-> IF event = NoEvent THEN <<>> ELSE event.people,
   pools |-> IF event = NoEvent THEN <<>> ELSE event.pools]

\* SetFingerprints: the acting fingerprint is that of the event id, or keeps
\* the default of the message.
NewEvent(in) ==
  [fp |-> IF in.fp = NoEvent THEN Default ELSE in.fp, fields |-> in.fields,
   people |-> <<>>, pools |-> <<>>]

\* Label is called with a new event.
Label(in, m) ==
  /\ outcome # "running"
  /\ input' = in /\ mode' = m
  /\ at' = Root
  /\ event' = NewEvent(in)
  /\ outcome' = "running"
  /\ output' = Nothing
  /\ UNCHANGED <<tree, frames>>

\* An error return ends the call: nothing is written to the output.
Fail(error) ==
  /\ outcome' = error
  /\ at' = NoNode /\ frames' = <<>>
  /\ UNCHANGED <<tree, input, mode, event, output>>

StateOf(ev) == [fp |-> ev.fp, fields |-> ev.fields]
InState(ev, s) == [ev EXCEPT !.fp = s.fp, !.fields = s.fields]

\* ApplyChild: the branch that hashing_ or matcher_ selects.
ApplyChild(n, ev, calls) ==
  LET selected == tree[n].select[StateOf(ev)]
  IN  \/ /\ selected # 0
         /\ at' = tree[n].children[selected]
         /\ event' = ev /\ frames' = calls
         /\ UNCHANGED <<tree, input, mode, outcome, output>>
      \/ /\ selected = 0
         /\ Fail("no condition")

Applied(kind) ==
  outcome = "running" /\ at # NoNode /\ tree[at].kind = kind
Returned(kind) ==
  /\ outcome = "running" /\ at = NoNode
  /\ frames # <<>> /\ frames[Len(frames)].kind = kind
Top == frames[Len(frames)]
Below == SubSeq(frames, 1, Len(frames) - 1)

\* BranchNodeImpl::Apply without a multiplicity: the updaters, one by one.
ApplyUpdates ==
  /\ Applied("updates")
  /\ frames' = Append(frames, [kind |-> "updates", node |-> at, next |-> 1])
  /\ at' = NoNode
  /\ UNCHANGED <<tree, input, mode, event, outcome, output>>

Update ==
  /\ Returned("updates")
  /\ Top.next \in DOMAIN tree[Top.node].updaters
  /\ LET updater == tree[Top.node].updaters[Top.next]
         next == Append(Below, [Top EXCEPT !.next = @ + 1])
     IN  \/ /\ updater.by = "tree"
            /\ at' = updater.root /\ frames' = next
            /\ UNCHANGED <<tree, input, mode, event, outcome, output>>
         \/ /\ updater.by = "function"
            /\ updater.f[StateOf(event)] # Failed
            /\ event' = InState(event, updater.f[StateOf(event)])
            /\ frames' = next
            /\ UNCHANGED <<tree, input, mode, at, outcome, output>>
         \/ /\ updater.by = "function"
            /\ updater.f[StateOf(event)] = Failed
            /\ Fail("update")

Updated ==
  /\ Returned("updates")
  /\ Top.next \notin DOMAIN tree[Top.node].updaters
  /\ ApplyChild(Top.node, event, Below)

\* GetFingerprintForIndex and the person index field of a clone.
CloneState(n, s, i) ==
  [fp |-> IF i = 0 THEN s.fp ELSE tree[n].clone_fp[s.fp][i],
   fields |-> tree[n].person_index[s.fields][i]]

\* ApplyMultiplicity: a single clone is the event itself.
ApplyMultiplicity ==
  /\ Applied("multiplicity")
  /\ LET s == StateOf(event)
         count == tree[at].clone_count[s]
     IN  \/ /\ count = 1
            /\ ApplyChild(at, InState(event, CloneState(at, s, 0)), frames)
         \/ /\ count \notin {1, Failed}
            /\ frames' = Append(frames,
                 [kind |-> "clones", node |-> at, source |-> event,
                  clones |-> [i \in 1 .. count |-> CloneState(at, s, i - 1)],
                  applied |-> 0, people |-> <<>>, pools |-> <<>>])
            /\ at' = NoNode
            /\ UNCHANGED <<tree, input, mode, event, outcome, output>>
         \/ /\ count = Failed
            /\ Fail("multiplicity")

\* Fault: a clone starts with what the clone before it has brought.
SharedClone(f) == InState(event, f.clones[f.applied + 1])

\* The next clone, a copy of the event as it was.
CloneOf(f) == InState(f.source, f.clones[f.applied + 1])

\* Fault: pool assignments of clones are dropped.
CollectPeople(f) ==
  IF f.applied = 0 THEN f ELSE [f EXCEPT !.people = @ \o event.people]

\* What the clone that has returned brings is merged behind the others'.
Collect(f) ==
  IF f.applied = 0 THEN f
  ELSE [f EXCEPT !.people = @ \o event.people, !.pools = @ \o event.pools]

ApplyClone ==
  /\ Returned("clones")
  /\ Top.applied < Len(Top.clones)
  /\ ApplyChild(Top.node, CloneOf(Top),
       Append(Below, [Collect(Top) EXCEPT !.applied = @ + 1]))

MergeClones ==
  /\ Returned("clones")
  /\ Top.applied = Len(Top.clones)
  /\ event' = [Top.source EXCEPT !.people = @ \o Collect(Top).people,
                                 !.pools = @ \o Collect(Top).pools]
  /\ frames' = Below
  /\ UNCHANGED <<tree, input, mode, at, outcome, output>>

LeafReturns(ev) ==
  /\ event' = ev
  /\ at' = NoNode
  /\ UNCHANGED <<tree, input, mode, frames, outcome, output>>

\* A leaf adds a person, whose label is collapsed from the quantum labels.
AddPerson(vid, ranked) ==
  IF event.fields \in Collapsible
  THEN LeafReturns([event EXCEPT !.people =
         Append(@, [vid |-> vid, leaf |-> at, ranked |-> ranked])])
  ELSE Fail("label")

ApplyStop ==
  /\ Applied("stop")
  /\ LeafReturns(event)

ApplyPopulation ==
  /\ Applied("population")
  /\ \/ /\ mode = "pool_identity"
        /\ LeafReturns(event)
     \/ /\ mode = "full" /\ event.people # <<>>
        /\ Fail("people")
     \/ /\ mode = "full" /\ event.people = <<>>
        /\ AddPerson(tree[at].vid[event.fp], FALSE)

PoolAssignmentOf(leaf) ==
  [pool_offset |-> leaf.pool_offset, pool_size |-> leaf.pool_size,
   ranked_size |-> leaf.ranked_size]

\* RankedPopulationNodeImpl::Apply in pass 1.
AnnouncePool ==
  /\ Applied("ranked") /\ mode = "pool_identity"
  /\ LeafReturns([event EXCEPT !.pools = Append(@, PoolAssignmentOf(tree[at]))])

\* Fault: only the first rank assignment is looked at.
FirstRankFor(offset) ==
  {k \in DOMAIN input.ranks : k = 1 /\ input.ranks[k].pool_offset = offset}

\* The rank assignments for a pool, of which the first counts.
RanksFor(offset) ==
  {k \in DOMAIN input.ranks : input.ranks[k].pool_offset = offset}
IsFirst(k, K) == k \in K /\ \A j \in K : k <= j

\* Fault: a rank is hashed into the ranked range.
HashedVid(leaf, k) == leaf.pool_offset + (leaf.jump[event.fp] % leaf.ranked_size)

\* The permuted rank.
RankedVid(leaf, k) == leaf.pool_offset + leaf.permute[input.ranks[k].local_rank]

\* Fault: the hash starts at the ranked range.
UnsplitVid(leaf) == leaf.pool_offset + leaf.jump[event.fp]

\* The hashed id: DISJOINT hashes into the rest of the pool.
UnrankedVid(leaf) ==
  leaf.pool_offset + leaf.jump[event.fp]
    + (IF leaf.unranked_mode = "DISJOINT" THEN leaf.ranked_size ELSE 0)

\* The RANKED path.
AddRanked ==
  /\ Applied("ranked") /\ mode = "full" /\ event.people = <<>>
  /\ LET leaf == tree[at]
     IN  \E k \in RanksFor(leaf.pool_offset) :
           /\ IsFirst(k, RanksFor(leaf.pool_offset))
           /\ input.ranks[k].local_rank < leaf.ranked_size
           /\ AddPerson(RankedVid(leaf, k), TRUE)

\* The UNRANKED path.
AddUnranked ==
  /\ Applied("ranked") /\ mode = "full" /\ event.people = <<>>
  /\ LET leaf == tree[at]
         ranks == RanksFor(leaf.pool_offset)
     IN  /\ ranks = {} => input.ranks = <<>>
         /\ \A k \in ranks : IsFirst(k, ranks) =>
              input.ranks[k].local_rank >= leaf.ranked_size
         /\ \/ /\ leaf.unranked_mode = "DISJOINT"
               /\ leaf.ranked_size < leaf.pool_size
               /\ AddPerson(UnrankedVid(leaf), FALSE)
            \/ /\ leaf.unranked_mode = "FULL_POOL"
               /\ AddPerson(UnrankedVid(leaf), FALSE)
            \/ /\ leaf.unranked_mode = "DISJOINT"
               /\ leaf.ranked_size = leaf.pool_size
               /\ Fail("unranked space")
            \/ /\ leaf.unranked_mode = "UNSPECIFIED"
               /\ Fail("unranked mode")

RankedError ==
  /\ Applied("ranked") /\ mode = "full"
  /\ \/ /\ event.people # <<>>
        /\ Fail("people")
     \/ /\ event.people = <<>>
        /\ input.ranks # <<>> /\ RanksFor(tree[at].pool_offset) = {}
        /\ Fail("no rank")

\* Apply of the root has returned: the output is written.
Return ==
  /\ outcome = "running" /\ at = NoNode /\ frames = <<>>
  /\ output' = [people |-> event.people, pools |-> event.pools]
  /\ outcome' = "ok"
  /\ UNCHANGED <<tree, input, mode, at, event, frames>>

Apply ==
  \/ ApplyUpdates \/ Update \/ Updated
  \/ ApplyMultiplicity \/ ApplyClone \/ MergeClones
  \/ ApplyStop \/ ApplyPopulation
  \/ AnnouncePool \/ AddRanked \/ AddUnranked \/ RankedError
  \/ Return
-----------------------------------------------------------------------------
\* The types of the variables.
LabelerTypeOK ==
  /\ tree \in Trees
  /\ input \in LabelerInput \cup {NoEvent}
  /\ mode \in Modes
  /\ at \in Nodes \cup {NoNode}
  /\ event \in LabelerEvent \cup {NoEvent}
  /\ frames \in Seq(UpdatesFrame \cup ClonesFrame)
  /\ output \in LabelerOutput
  /\ outcome = "running" => input \in LabelerInput /\ event \in LabelerEvent
=============================================================================
