--------------------------- MODULE ModelRoundTrip ---------------------------
(***************************************************************************)
(* A model tree is turned into a node list, and the labeler builds its     *)
(* model from that list.  The list is made out of the caller's own         *)
(* message, which a call leaves rewritten, in whole or in part; the caller *)
(* may pass the same message again, as it is or with a child for a branch  *)
(* that lacked one.                                                        *)
(***************************************************************************)
EXTENDS ModelSerializer

CONSTANTS
  NoNode,         \* a null ModelNode pointer
  MaxCallsAgain   \* bound: how often the caller passes the message again

ASSUME NoNodeAssumption == NoNode \notin Configs

VARIABLES
  status, read, stack, built, node_refs, child_nodes, updaters, root,
  calls_again
loaderVars ==
  <<status, read, stack, built, node_refs, child_nodes, updaters, root>>

\* What the labeler reads is the list as the serializer left it.  Update trees
\* are not rewritten: they stay what they were, nested messages.
Loader ==
  INSTANCE ModelBuild
    WITH Models <- {}, Indices <- Nat,
         model <- [library |-> "cc", entry |-> "list", nodes |-> node_list,
                   index |-> index, branches |-> branches,
                   updates |-> tree.updates, branching |-> tree.branching,
                   sound |-> tree.sound]

RoundTripInit ==
  /\ Init
  /\ calls_again = 0
  /\ status = "building" /\ read = 0 /\ stack = <<>> /\ built = NoNode
  /\ node_refs = Loader!NoRefs /\ child_nodes = Loader!NoRefs
  /\ updaters = Loader!NoRefs /\ root = NoNode

Serialize ==
  /\ outcome = "listing"
  /\ Next
  /\ UNCHANGED <<loaderVars, calls_again>>

Load ==
  /\ outcome = "listed"
  /\ UNCHANGED <<serializerVars, calls_again>>
  /\ Loader!Next

\* The caller completes the message after the refusal, or leaves it as it is.
Repair ==
  \/ UNCHANGED <<tree, branches>>
  \/ /\ outcome = "refused"
     /\ \E c, x \in Configs : \E k \in DOMAIN branches[c] :
          /\ branches[c][k] = Childless
          /\ branches' = [branches EXCEPT ![c][k] = ByNode(x)]
          /\ tree' = [tree EXCEPT !.branches[c][k] = ByNode(x)]
          /\ IsTree(tree')

CallAgain ==
  /\ calls_again < MaxCallsAgain
  /\ outcome = "refused" \/ status # "building"
  /\ Repair
  /\ calls_again' = calls_again + 1
  /\ outcome' = "listing"
  /\ calls' = << [node |-> tree.root, done |-> 0] >>
  /\ next_index' = 0 /\ node_list' = <<>>
  /\ status' = "building" /\ read' = 0 /\ stack' = <<>> /\ built' = NoNode
  /\ node_refs' = Loader!NoRefs /\ child_nodes' = Loader!NoRefs
  /\ updaters' = Loader!NoRefs /\ root' = NoNode
  /\ UNCHANGED index

RoundTripSpec ==
  /\ RoundTripInit
  /\ [][Serialize \/ Load \/ CallAgain]_<<serializerVars, loaderVars, calls_again>>
-----------------------------------------------------------------------------
\* The messages that were passed in, from the root down: update trees aside,
\* and with them.
Nested[c \in Configs] == {c} \cup UNION {Nested[d] : d \in Children(tree, c)}
Whole[c \in Configs] == {c} \cup UNION {Whole[d] : d \in Parts(tree, c)}

\* Build would have no complaint of any message, and every branch has a nested
\* child.
Buildable ==
  \A c \in Whole[tree.root] :
    /\ c \in tree.sound
    /\ c \in tree.branching => tree.branches[c] # <<>>
    /\ \A b \in ToSet(tree.branches[c]) : b.by = "node"

\* Nothing is lost on the way: a tree that can be built directly is rebuilt
\* from its list, node for node and branch for branch, and no other is.
SameTree ==
  /\ status = "ok" =>
       /\ Buildable
       /\ root = tree.root
       /\ DOMAIN child_nodes = Whole[root] \cap tree.branching
       /\ \A c \in DOMAIN child_nodes :
            /\ tree.branches[c] =
                 [k \in DOMAIN child_nodes[c] |-> ByNode(child_nodes[c][k])]
            /\ updaters[c] = tree.updates[c]
  /\ status = "error" => ~ Buildable

\* model_serializer.cc:63 - a call that is refused has already replaced the
\* children before the refused branch by numbers that stand for nothing.  Such
\* a message is never listed again without them, whether its caller completes
\* it or not: every list has all messages of the tree, each once.
NothingLost ==
  outcome = "listed" =>
    /\ ToSet(node_list) = Nested[tree.root]
    /\ Cardinality(ToSet(node_list)) = Len(node_list)
=============================================================================
