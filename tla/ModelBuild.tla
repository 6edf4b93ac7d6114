----------------------------- MODULE ModelBuild -----------------------------
(***************************************************************************)
(* Labeler::Build, from one CompiledNode or from a list of them, in C++    *)
(* and in Kotlin.  Every node of a list is turned into a ModelNode, and    *)
(* waits in node_refs under its index until a branch of a later node       *)
(* claims it.  A ModelNode is owned by one unique_ptr at a time: in        *)
(* node_refs, by a branch node under construction or built, as a child or  *)
(* as an update tree, in the hands of Build, or as the root of the model.  *)
(*                                                                         *)
(* A node is named by the message it is built from.  A branch of a message *)
(* gives its child by index, as a nested message, or not at all.           *)
(***************************************************************************)
EXTENDS Integers, Sequences, FiniteSets, SequencesExt

CONSTANTS
  Configs,        \* CompiledNode messages, those of the list and nested ones
  Indices,        \* node indexes
  NoIndex,        \* CompiledNode.index that is not set
  NoNode,         \* a null ModelNode pointer
  MaxDepth,       \* no message is nested deeper
  Models          \* what Build may be given

ByIndex(i) == [by |-> "index", index |-> i]
ByNode(c) == [by |-> "node", node |-> c]
Childless == [by |-> "nothing"]
Branches == {ByIndex(i) : i \in Indices} \cup {ByNode(c) : c \in Configs}
              \cup {Childless}

\* nodes is the list, or the root alone.  updates are the roots of the update
\* trees of a branch node.  sound are the messages that pass the validation of
\* their own: the type is set and the fields of the node, of its select_by and
\* of its action are what their Build functions ask for.
Model ==
  [library : {"cc", "kt"}, entry : {"list", "root"}, nodes : Seq(Configs),
   index : [Configs -> Indices \cup {NoIndex}],
   branches : [Configs -> Seq(Branches)], updates : [Configs -> Seq(Configs)],
   branching : SUBSET Configs, sound : SUBSET Configs]

\* The places of a message: in the list, under a branch, as an update tree.
InList(m, c) ==
  { <<"list", NoNode, p>> : p \in {j \in DOMAIN m.nodes : m.nodes[j] = c} }
UnderBranch(m, d, c) ==
  { <<"branch", d, k>> :
      k \in {j \in DOMAIN m.branches[d] : m.branches[d][j] = ByNode(c)} }
AsUpdate(m, d, c) ==
  { <<"update", d, k>> :
      k \in {j \in DOMAIN m.updates[d] : m.updates[d][j] = c} }
Places(m, c) ==
  InList(m, c) \cup UNION {UnderBranch(m, d, c) \cup AsUpdate(m, d, c) : d \in Configs}

\* The messages that are nested in a message, under a branch or as an update
\* tree.
Parts(m, c) ==
  {b.node : b \in {x \in ToSet(m.branches[c]) : x.by = "node"}} \cup ToSet(m.updates[c])

\* A message has one place, and is in no part of itself.  Branches and update
\* trees are fields of a branch node.
ASSUME ModelsAssumption ==
  /\ NoIndex \notin Indices /\ NoNode \notin Configs /\ MaxDepth \in Nat
  /\ \A m \in Models :
       /\ \E depth \in [Configs -> 0 .. MaxDepth] :
            \A c \in Configs : \A d \in Parts(m, c) : depth[d] < depth[c]
       /\ \A c \in Configs \ m.branching : m.branches[c] = <<>> /\ m.updates[c] = <<>>
       /\ m.entry = "root" => Len(m.nodes) = 1
       /\ m.nodes \in Seq(Configs)
       /\ m.index \in [Configs -> Indices \cup {NoIndex}]
       /\ m.branching \subseteq Configs /\ m.sound \subseteq Configs
       /\ \A c \in Configs :
            /\ m.branches[c] \in Seq(Branches)
            /\ m.updates[c] \in Seq(Configs)
            /\ \A p, q \in Places(m, c) : p = q

VARIABLES
  model,          \* the argument of Build
  status,         \* "building", then "ok" or "error"
  read,           \* how many nodes of the list Build has taken
  stack,          \* BranchNodeImpl::Build calls under way, the innermost last
  built,          \* what ModelNode::Build returned for the node just taken
  node_refs,      \* nodes by index that no parent has claimed
  child_nodes,    \* the children of the branch nodes built
  updaters,       \* and the roots of their update trees
  root

vars ==
  <<model, status, read, stack, built, node_refs, child_nodes, updaters, root>>

NoRefs == [i \in {} |-> NoNode]
Extended(f, k, v) == [x \in DOMAIN f \cup {k} |-> IF x = k THEN v ELSE f[x]]
Without(f, k) == [x \in DOMAIN f \ {k} |-> f[x]]

Init ==
  /\ model \in Models
  /\ status = "building"
  /\ read = 0
  /\ stack = <<>>
  /\ built = NoNode
  /\ node_refs = NoRefs
  /\ child_nodes = NoRefs
  /\ updaters = NoRefs
  /\ root = NoNode

\* An error return destroys every node built so far.
Fail ==
  /\ status' = "error"
  /\ stack' = <<>> /\ built' = NoNode /\ root' = NoNode
  /\ node_refs' = NoRefs /\ child_nodes' = NoRefs /\ updaters' = NoRefs
  /\ UNCHANGED <<model, read>>

\* One call of BranchNodeImpl::Build.  In an update tree it has a node_refs of
\* its own, which is empty and stays so.
Frame ==
  [node : Configs, children : Seq(Configs), updaters : Seq(Configs),
   in_update : BOOLEAN]
Called(c, in_update) ==
  [node |-> c, children |-> <<>>, updaters |-> <<>>, in_update |-> in_update]

Top == Last(stack)
LacksChildren(f) == Len(f.children) < Len(model.branches[f.node])
Branch == model.branches[Top.node][Len(Top.children) + 1]
MoreBranches == status = "building" /\ stack # <<>> /\ LacksChildren(Top)
MoreUpdates ==
  /\ status = "building" /\ stack # <<>> /\ ~ LacksChildren(Top)
  /\ Len(Top.updaters) < Len(model.updates[Top.node])
Refs == IF Top.in_update THEN NoRefs ELSE node_refs

\* Fault: the children come in the reverse order of the branches.
PrependChild(frame, c) == [frame EXCEPT !.children = <<c>> \o @]

AppendChild(frame, c) == [frame EXCEPT !.children = Append(@, c)]
AppendUpdater(frame, c) == [frame EXCEPT !.updaters = Append(@, c)]

\* A node that is built goes to the branch node that waits for it, or back to
\* Labeler::Build.
HandOver(frames, c) ==
  IF frames = <<>>
  THEN stack' = frames /\ built' = c
  ELSE /\ stack' = [frames EXCEPT ![Len(frames)] =
                      IF LacksChildren(@) THEN AppendChild(@, c)
                      ELSE AppendUpdater(@, c)]
       /\ UNCHANGED built

\* ModelNode::Build: a branch node has children to build first.  A branch
\* node without branches is an error at once.
Enter(c, in_update) ==
  /\ \/ /\ c \in model.branching /\ model.branches[c] # <<>>
        /\ stack' = Append(stack, Called(c, in_update))
        /\ UNCHANGED built
     \/ c \in model.sound \ model.branching /\ HandOver(stack, c)
  /\ UNCHANGED <<model, status, node_refs, child_nodes, updaters, root>>

Rejects(c) ==
  IF c \in model.branching THEN model.branches[c] = <<>>
  ELSE c \notin model.sound

\* Build(root) looks at no index.
Numbered(c) == model.entry = "list" /\ model.index[c] # NoIndex

\* Kotlin looks for a second node of one index before it builds the node.
FoundEarly(c) ==
  /\ model.library = "kt" /\ Numbered(c)
  /\ model.index[c] \in DOMAIN node_refs

\* The next node of the list.  There is none after a root without an index.
TakeNode ==
  /\ status = "building" /\ stack = <<>> /\ built = NoNode
  /\ read < Len(model.nodes)
  /\ LET c == model.nodes[read + 1]
     IN  \/ /\ root = NoNode /\ ~ FoundEarly(c)
            /\ read' = read + 1
            /\ Enter(c, FALSE)
         \/ /\ root # NoNode \/ FoundEarly(c) \/ Rejects(c)
            /\ Fail

\* Fault: the child stays in node_refs.
AppendShared ==
  /\ MoreBranches /\ Branch.by = "index" /\ Branch.index \in DOMAIN Refs
  /\ HandOver(stack, Refs[Branch.index])
  /\ UNCHANGED <<model, status, read, node_refs, child_nodes, updaters, root>>

\* AppendChildNode with node_index set: the parent takes the node out of
\* node_refs.
AppendByIndex ==
  /\ MoreBranches /\ Branch.by = "index" /\ Branch.index \in DOMAIN Refs
  /\ HandOver(stack, Refs[Branch.index])
  /\ node_refs' = Without(node_refs, Branch.index)
  /\ UNCHANGED <<model, status, read, child_nodes, updaters, root>>

\* AppendChildNode with node set: builds it with the same node_refs.
AppendByNode ==
  /\ MoreBranches /\ Branch.by = "node"
  /\ Enter(Branch.node, Top.in_update)
  /\ UNCHANGED read

\* Fault: a branch without a child is retried.
AwaitChild ==
  /\ MoreBranches
  /\ \/ Branch.by = "nothing"
     \/ Branch.by = "index" /\ Branch.index \notin DOMAIN Refs
     \/ Branch.by = "node" /\ Rejects(Branch.node)
  /\ UNCHANGED vars

NoChild ==
  /\ MoreBranches
  /\ \/ Branch.by = "nothing"
     \/ Branch.by = "index" /\ Branch.index \notin DOMAIN Refs
     \/ Branch.by = "node" /\ Rejects(Branch.node)
  /\ Fail

\* BuildUpdaters, for the next update tree.
BuildUpdateTree ==
  /\ MoreUpdates
  /\ LET c == model.updates[Top.node][Len(Top.updaters) + 1]
     IN  \/ Enter(c, TRUE) /\ UNCHANGED read
         \/ Rejects(c) /\ Fail

\* The rest of BranchNodeImpl::Build, once all children and updaters are there.
FinishBranch ==
  /\ status = "building" /\ stack # <<>> /\ ~ MoreBranches /\ ~ MoreUpdates
  /\ \/ /\ Top.node \in model.sound
        /\ child_nodes' = Extended(child_nodes, Top.node, Top.children)
        /\ updaters' = Extended(updaters, Top.node, Top.updaters)
        /\ HandOver(Front(stack), Top.node)
        /\ UNCHANGED <<model, status, read, node_refs, root>>
     \/ Top.node \notin model.sound /\ Fail

\* Fault: a second node of the same index replaces the first.
StoreOver ==
  /\ status = "building" /\ built # NoNode
  /\ built' = NoNode
  /\ \/ /\ Numbered(built)
        /\ node_refs' = Extended(node_refs, model.index[built], built)
        /\ UNCHANGED root
     \/ /\ ~ Numbered(built)
        /\ root' = built
        /\ UNCHANGED node_refs
  /\ UNCHANGED <<model, status, read, stack, child_nodes, updaters>>

\* A node with an index is kept for a parent, one without is the root.
Store ==
  /\ status = "building" /\ built # NoNode
  /\ \/ /\ \/ /\ Numbered(built) /\ model.index[built] \notin DOMAIN node_refs
              /\ node_refs' = Extended(node_refs, model.index[built], built)
              /\ UNCHANGED root
           \/ /\ ~ Numbered(built)
              /\ root' = built
              /\ UNCHANGED node_refs
        /\ built' = NoNode
        /\ UNCHANGED <<model, status, read, stack, child_nodes, updaters>>
     \/ /\ Numbered(built) /\ model.index[built] \in DOMAIN node_refs
        /\ Fail

\* The end of the list.  Without a root, any entry of node_refs is taken as
\* the root, and no other may be left.
Finish ==
  /\ status = "building" /\ stack = <<>> /\ built = NoNode
  /\ read = Len(model.nodes)
  /\ \/ /\ \/ /\ root # NoNode /\ DOMAIN node_refs = {}
              /\ UNCHANGED <<node_refs, root>>
           \/ /\ root = NoNode
              /\ \E i \in DOMAIN node_refs :
                   /\ DOMAIN node_refs = {i}
                   /\ root' = node_refs[i]
                   /\ node_refs' = Without(node_refs, i)
        /\ status' = "ok"
        /\ UNCHANGED <<model, read, stack, built, child_nodes, updaters>>
     \/ /\ IF root = NoNode THEN Cardinality(DOMAIN node_refs) # 1
           ELSE DOMAIN node_refs # {}
        /\ Fail

Next ==
  \/ TakeNode
  \/ AppendByIndex \/ AppendByNode \/ NoChild \/ BuildUpdateTree \/ FinishBranch
  \/ Store \/ Finish

Spec == Init /\ [][Next]_vars
FairSpec == Spec /\ WF_vars(Next)
-----------------------------------------------------------------------------
\* The places of a node: each is a unique_ptr that owns it.
Slots(kind, x, seq, c) ==
  { <<kind, x, k>> : k \in {j \in DOMAIN seq : seq[j] = c} }
Owners(c) ==
  { <<"ref", i, 0>> : i \in {j \in DOMAIN node_refs : node_refs[j] = c} }
  \cup (UNION {Slots("child", d, child_nodes[d], c) : d \in DOMAIN child_nodes})
  \cup (UNION {Slots("updater", d, updaters[d], c) : d \in DOMAIN updaters})
  \cup (UNION {Slots("new child", f, stack[f].children, c) : f \in DOMAIN stack})
  \cup (UNION {Slots("new updater", f, stack[f].updaters, c) : f \in DOMAIN stack})
  \cup Slots("built", 0, <<built>>, c) \cup Slots("root", 0, <<root>>, c)

\* branch_node_impl.h - "The entry is removed from @node_refs after the
\* ownership of the std::unique_ptr<ModelNode> is moved to this class": no
\* node ever has two owners, whatever branches claim its index, and a branch
\* node that was built is not lost while the tree is under construction.
OwnedOnce ==
  \A c \in Configs :
    /\ \A p, q \in Owners(c) : p = q
    /\ c \in DOMAIN child_nodes => Owners(c) # {}

\* The nodes of the subtree under a message, nested ones and update trees
\* included.
Under[c \in Configs] ==
  {c} \cup UNION {Under[d] : d \in Parts(model, c)}

\* The branches under the first n nodes of the list that claim index i, and
\* those of these nodes that have it.
ClaimsOf(i, n) ==
  UNION { {d} \X {k \in DOMAIN model.branches[d] : model.branches[d][k] = ByIndex(i)} :
            d \in UNION {Under[model.nodes[p]] : p \in 1 .. n} }
DefinitionsOf(i, n) ==
  {p \in 1 .. n : Numbered(model.nodes[p]) /\ model.index[model.nodes[p]] = i}

Claims(i, n) == Cardinality(ClaimsOf(i, n))
Definitions(i, n) == Cardinality(DefinitionsOf(i, n))

\* What a message of the tree has to be by itself.
Complete(c) ==
  /\ c \in model.sound
  /\ c \in model.branching => model.branches[c] # <<>>
  /\ Childless \notin ToSet(model.branches[c])
  /\ \A u \in ToSet(model.updates[c]) :
       \A d \in Under[u] : \A b \in ToSet(model.branches[d]) : b.by # "index"

\* The p-th node of the list, and what is nested in it, claims what is listed
\* before, and its index is free.  In Kotlin, it cannot take over the index of a
\* child it claims.
InOrder(p) ==
  \A i \in Indices :
    /\ Claims(i, p) <= Definitions(i, p - 1)
    /\ model.index[model.nodes[p]] = i =>
         Definitions(i, p) - Claims(i, IF model.library = "kt" THEN p - 1 ELSE p) <= 1

\* What labeler.h asks of a list, as a count: only the last node may lack an
\* index; a child is listed before its parent; an index is not given twice
\* before it is claimed; and all but the last node are claimed.  labeler.h does
\* not say that an update tree cannot claim any node.
Representable ==
  LET size == Len(model.nodes)
      last == model.nodes[size]
  IN  /\ size > 0
      /\ \A p \in 1 .. size :
           /\ p < size => Numbered(model.nodes[p])
           /\ \A c \in Under[model.nodes[p]] : Complete(c)
           /\ InOrder(p)
      /\ \A i \in Indices :
           Definitions(i, size) - Claims(i, size) =
             IF Numbered(last) /\ model.index[last] = i THEN 1 ELSE 0

\* Build accepts a list exactly when it represents a tree.
AcceptsTrees ==
  /\ status = "ok" => Representable
  /\ status = "error" => ~ Representable

\* The nodes of the tree that was built, from a node down.
Reached[c \in Configs] ==
  {c} \cup IF c \in DOMAIN child_nodes
           THEN UNION { Reached[d] :
                          d \in ToSet(child_nodes[c]) \cup ToSet(updaters[c]) }
           ELSE {}

\* The tree that Build returns has every node of the list in it, the last one
\* as its root, and each child is where the message puts it: the nested one,
\* or one listed earlier with the index of the branch.
TreeIsTheModel ==
  status = "ok" =>
    /\ root = Last(model.nodes)
    /\ Reached[root] = UNION { Under[c] : c \in ToSet(model.nodes) }
    /\ updaters = [c \in DOMAIN child_nodes |-> model.updates[c]]
    /\ \A c \in DOMAIN child_nodes :
         /\ Len(child_nodes[c]) = Len(model.branches[c])
         /\ \A k \in DOMAIN child_nodes[c] :
              LET b == model.branches[c][k]
              IN  IF b.by = "node" THEN child_nodes[c][k] = b.node
                  ELSE model.index[child_nodes[c][k]] = b.index

\* Build always returns.
Returns == <>(status # "building")
=============================================================================
