-------------------------- MODULE LabelingMeaning --------------------------
(***************************************************************************)
(* What a model means, as a function of a node and of the state of the     *)
(* event: no event is passed along, copied or merged.  It is defined for   *)
(* the models whose update trees end in stop nodes.                        *)
(***************************************************************************)
EXTENDS Labeling

CONSTANTS
  RanksGiven,     \* rank assignments that callers bring
  MaxHeight       \* no model is higher

LabelingNext ==
  \/ \E e \in Events, fp \in Fingerprints \cup {NoEvent}, f \in Fields,
        r \in RanksGiven, m \in Modes :
       Label([event |-> e, fp |-> fp, fields |-> f, ranks |-> r], m)
  \/ Apply

LabelingSpec == LabelerInit /\ [][LabelingNext]_labelerVars

\* The nodes whose Apply a node may call.
UpdateTrees(node) ==
  { node.updaters[k].root :
      k \in {j \in DOMAIN node.updaters : node.updaters[j].by = "tree"} }
Children(node) == {node.children[k] : k \in DOMAIN node.children}
Callees(node) ==
  CASE node.kind = "updates" -> Children(node) \cup UpdateTrees(node)
    [] node.kind = "multiplicity" -> Children(node)
    [] OTHER -> {}

\* A node has one owner, which is above it: Apply calls only what is lower.
ASSUME MeaningAssumption ==
  /\ RanksGiven \subseteq Seq(RankAssignment)
  /\ MaxHeight \in Nat
  /\ \A t \in Trees : \E height \in [Nodes -> 0 .. MaxHeight] :
       \A n \in Nodes : \A c \in Callees(t[n]) : height[c] < height[n]

Brings(s, people, pools) ==
  [error |-> "none", state |-> s, people |-> people, pools |-> pools]
FailsWith(e) == [error |-> e, state |-> Failed, people |-> <<>>, pools |-> <<>>]

\* One result after another, the first error wins.  The state is the earlier.
Join(a, b) ==
  IF a.error # "none" THEN a ELSE IF b.error # "none" THEN b
  ELSE Brings(a.state, a.people \o b.people, a.pools \o b.pools)

PersonOf(s, n, vid, ranked) ==
  IF s.fields \notin Collapsible THEN FailsWith("label")
  ELSE Brings(s, << [vid |-> vid, leaf |-> n, ranked |-> ranked] >>, <<>>)

RankedMeaning(n, s) ==
  LET leaf == tree[n]
      matches == {k \in DOMAIN input.ranks :
                    input.ranks[k].pool_offset = leaf.pool_offset}
      rank == input.ranks[CHOOSE k \in matches : \A j \in matches : k <= j].local_rank
      within == leaf.unranked_mode = "FULL_POOL"
  IN  IF mode = "pool_identity"
      THEN Brings(s, <<>>, <<PoolAssignmentOf(leaf)>>)
      ELSE IF input.ranks # <<>> /\ matches = {} THEN FailsWith("no rank")
      ELSE IF matches # {} /\ rank < leaf.ranked_size
      THEN PersonOf(s, n, leaf.pool_offset + leaf.permute[rank], TRUE)
      ELSE IF leaf.unranked_mode = "UNSPECIFIED" THEN FailsWith("unranked mode")
      ELSE IF ~ within /\ leaf.ranked_size = leaf.pool_size
      THEN FailsWith("unranked space")
      ELSE PersonOf(s, n, leaf.pool_offset + leaf.jump[s.fp]
                            + (IF within THEN 0 ELSE leaf.ranked_size), FALSE)

\* What the selected child brings, one more updater, the first updaters and
\* the first clones, if M is what the nodes below mean.
ChildMeaning(M, n, s) ==
  IF tree[n].select[s] = 0 THEN FailsWith("no condition")
  ELSE M[tree[n].children[tree[n].select[s]]][s]

ThenUpdate(M, r, u) ==
  IF r.error # "none" THEN r
  ELSE IF u.by = "tree" THEN M[u.root][r.state]
  ELSE IF u.f[r.state] = Failed THEN FailsWith("update")
  ELSE Brings(u.f[r.state], <<>>, <<>>)

FirstUpdates(M, n, s) ==
  LET upTo[k \in 0 .. Len(tree[n].updaters)] ==
        IF k = 0 THEN Brings(s, <<>>, <<>>)
        ELSE ThenUpdate(M, upTo[k - 1], tree[n].updaters[k])
  IN  upTo

FirstClones(M, n, s) ==
  LET upTo[k \in 0 .. tree[n].clone_count[s]] ==
        IF k = 0 THEN Brings(s, <<>>, <<>>)
        ELSE Join(upTo[k - 1], ChildMeaning(M, n, CloneState(n, s, k - 1)))
  IN  upTo

UpdatesMeaning(M, n, s) ==
  LET r == FirstUpdates(M, n, s)[Len(tree[n].updaters)]
  IN  IF r.error = "none" THEN ChildMeaning(M, n, r.state) ELSE r

ClonesMeaning(M, n, s) ==
  LET count == tree[n].clone_count[s]
  IN  IF count = Failed THEN FailsWith("multiplicity")
      ELSE IF count = 1 THEN ChildMeaning(M, n, CloneState(n, s, 0))
      ELSE FirstClones(M, n, s)[count]

NodeMeaning(M, n, s) ==
  CASE tree[n].kind = "stop" -> Brings(s, <<>>, <<>>)
    [] tree[n].kind = "population" ->
         IF mode = "full" THEN PersonOf(s, n, tree[n].vid[s.fp], FALSE)
         ELSE Brings(s, <<>>, <<>>)
    [] tree[n].kind = "ranked" -> RankedMeaning(n, s)
    [] tree[n].kind = "updates" -> UpdatesMeaning(M, n, s)
    [] tree[n].kind = "multiplicity" -> ClonesMeaning(M, n, s)

\* What Apply of a node brings to an event in state s, and the state it leaves.
\* The clones of a multiplicity are gone when it returns, and with them what
\* was updated in them.
Meaning[n \in Nodes] == [s \in State |-> NodeMeaning(Meaning, n, s)]

\* The nodes of a tree, and the models whose update trees have only stop nodes
\* for leaves.
Reachable[n \in Nodes] == {n} \cup UNION {Reachable[c] : c \in Callees(tree[n])}

UpdateRoots ==
  UNION { UpdateTrees(tree[n]) :
            n \in {m \in Reachable[Root] : tree[m].kind = "updates"} }
StopsUpdates ==
  \A r \in UpdateRoots, n \in Nodes :
    n \in Reachable[r] => tree[n].kind \notin {"population", "ranked"}

\* Label answers with what the model means: the people and pool assignments of
\* the leaves that are reached, in the order of the clones, or the first error.
\* Clones do not see one another, an update in a clone stays there, and nothing
\* of an earlier call is left.
OutputIsMeaning ==
  StopsUpdates /\ outcome \notin {"idle", "running"} =>
    LET fp == IF input.fp = NoEvent THEN Default ELSE input.fp
        meant == Meaning[Root][[fp |-> fp, fields |-> input.fields]]
    IN  IF outcome = "ok"
        THEN /\ meant.error = "none"
             /\ output = [people |-> meant.people, pools |-> meant.pools]
        ELSE meant.error = outcome /\ output = Nothing
=============================================================================
