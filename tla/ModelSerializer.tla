-------------------------- MODULE ModelSerializer --------------------------
(***************************************************************************)
(* ToNodeListRepresentation: the messages of one model tree are numbered   *)
(* and listed, children first, and every nested child is replaced, in the  *)
(* message itself, by its number.  AddToNodeList and AddChildren call each *)
(* other; a frame of the stack is one call of AddToNodeList.               *)
(***************************************************************************)
EXTENDS Integers, Sequences, FiniteSets, SequencesExt

CONSTANTS
  Configs,        \* CompiledNode messages
  NoIndex,        \* CompiledNode.index that is not set
  MaxDepth,       \* no message is nested deeper
  Trees           \* the trees a caller may pass in

ByIndex(i) == [by |-> "index", index |-> i]
ByNode(c) == [by |-> "node", node |-> c]
Childless == [by |-> "nothing"]
Branches ==
  [by : {"index"}, index : Nat] \cup [by : {"node"}, node : Configs] \cup {Childless}

\* updates are the roots of the update trees of a branch node, and sound the
\* messages that pass the validation of their own when a model is built.
Tree ==
  [root : Configs, branches : [Configs -> Seq(Branches)],
   updates : [Configs -> Seq(Configs)],
   branching : SUBSET Configs, sound : SUBSET Configs]

\* The messages nested under the branches of a message, those nested in it at
\* all, and the places of a message in others.
Children(t, c) == {b.node : b \in {x \in ToSet(t.branches[c]) : x.by = "node"}}
Parts(t, c) == Children(t, c) \cup ToSet(t.updates[c])
Places(t, c) ==
  UNION { {<<"branch", d, k>> : k \in {j \in DOMAIN t.branches[d] :
                                        t.branches[d][j] = ByNode(c)}}
            \cup {<<"update", d, k>> : k \in {j \in DOMAIN t.updates[d] :
                                               t.updates[d][j] = c}} :
          d \in Configs }

\* A message other than the root has one place, and is in no part of itself.
\* Branches and update trees are fields of a branch node.
IsTree(t) ==
  /\ t \in Tree
  /\ \A c \in Configs \ t.branching : t.branches[c] = <<>> /\ t.updates[c] = <<>>
  /\ \A c \in Configs : \A p, q \in Places(t, c) : p = q
  /\ Places(t, t.root) = {}
  /\ \E depth \in [Configs -> 0 .. MaxDepth] :
       \A c \in Configs : \A d \in Parts(t, c) : depth[d] < depth[c]

ASSUME TreesAssumption ==
  /\ NoIndex \notin Nat /\ MaxDepth \in Nat
  /\ \A t \in Trees : IsTree(t)

VARIABLES
  tree,           \* the tree that was passed in
  branches,       \* the branches of each message, as they are now
  index,          \* the index of each message, as it is now
  outcome,        \* "listing", then "listed" or "refused"
  calls,          \* AddToNodeList calls under way, the innermost last
  next_index,
  node_list

serializerVars ==
  <<tree, branches, index, outcome, calls, next_index, node_list>>

Init ==
  /\ tree \in Trees
  /\ branches = tree.branches
  /\ index = [c \in Configs |-> NoIndex]
  /\ outcome = "listing"
  /\ calls = << [node |-> tree.root, done |-> 0] >>
  /\ next_index = 0
  /\ node_list = <<>>

Call == Last(calls)
MoreChildren ==
  outcome = "listing" /\ Call.done < Len(branches[Call.node])
NextBranch == branches[Call.node][Call.done + 1]

\* Fault: a branch that has a number is taken as done.
AddUnnumbered ==
  /\ MoreChildren
  /\ \/ /\ NextBranch.by = "node"
        /\ calls' = Append(calls, [node |-> NextBranch.node, done |-> 0])
     \/ /\ NextBranch.by = "index"
        /\ calls' = [calls EXCEPT ![Len(calls)].done = @ + 1]
  /\ UNCHANGED <<tree, branches, index, outcome, next_index, node_list>>

\* AddChildren, for the next branch: its nested node is added first.
AddChild ==
  /\ MoreChildren /\ NextBranch.by = "node"
  /\ calls' = Append(calls, [node |-> NextBranch.node, done |-> 0])
  /\ UNCHANGED <<tree, branches, index, outcome, next_index, node_list>>

\* A branch with an index, or with no child at all, is an error.  What was
\* rewritten by then stays rewritten; the list is dropped.
Refuse ==
  /\ MoreChildren /\ NextBranch.by # "node"
  /\ outcome' = "refused"
  /\ calls' = <<>>
  /\ node_list' = <<>>
  /\ UNCHANGED <<tree, branches, index, next_index>>

\* Fault: the branch gets the index that the next node will have.
NextReference == ByIndex(next_index + 1)

\* What the branch of a node says once the node is added.
Reference == ByIndex(next_index)

Continued(parent) == [parent EXCEPT !.done = @ + 1]

\* The end of AddToNodeList: the node is numbered and listed, and its parent
\* refers to it by number from now on.
AddNode ==
  /\ outcome = "listing" /\ ~ MoreChildren
  /\ index' = [index EXCEPT ![Call.node] = next_index]
  /\ node_list' = Append(node_list, Call.node)
  /\ next_index' = next_index + 1
  /\ IF Len(calls) = 1
     THEN outcome' = "listed" /\ calls' = <<>> /\ UNCHANGED branches
     ELSE LET parent == calls[Len(calls) - 1]
          IN  /\ branches' = [branches EXCEPT ![parent.node][parent.done + 1] =
                                Reference]
              /\ calls' = Append(SubSeq(calls, 1, Len(calls) - 2),
                                 Continued(parent))
              /\ UNCHANGED outcome
  /\ UNCHANGED tree

Next == AddChild \/ Refuse \/ AddNode

Spec == Init /\ [][Next]_serializerVars
=============================================================================
