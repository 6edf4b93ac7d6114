-------------------------- MODULE MCModelRoundTrip --------------------------
(* Every ordered tree of up to four messages, in which some branches may     *)
(* have no nested node and some messages may be unsound.                    *)
EXTENDS ModelRoundTrip

CONSTANTS m1, m2, m3, m4

MCConfigs == {m1, m2, m3, m4}

Lists(n, set) == UNION { [1 .. k -> set] : k \in 0 .. n }
Nests(messages) == {ByNode(x) : x \in messages} \cup {Childless}

Shape(ofA, ofB, ofC) ==
  [x \in MCConfigs |->
     CASE x = m1 -> ofA [] x = m2 -> ofB [] x = m3 -> ofC [] x = m4 -> <<>>]

NestedOnce(shape) ==
  \A x \in MCConfigs :
    Cardinality({ p \in MCConfigs \X (1 .. 3) :
                    p[2] \in DOMAIN shape[p[1]]
                      /\ shape[p[1]][p[2]] = ByNode(x) }) <= 1

Shapes ==
  { s \in { Shape(x, y, z) : x \in Lists(3, Nests({m2, m3, m4})),
                             y \in Lists(2, Nests({m3, m4}) \cup {ByIndex(0)}),
                             z \in Lists(1, Nests({m4}) \cup {ByIndex(0)}) } : NestedOnce(s) }

\* A message without branches is a leaf, or a branch node that lacks them.
\* The first one may have an update tree, a leaf or a branch node.
Given(shape, updates, more, sound) ==
  [root |-> m1, branches |-> shape, updates |-> updates,
   branching |-> {x \in MCConfigs : shape[x] # <<>>} \cup more,
   sound |-> sound]

Unnested(x, s) == \A y \in MCConfigs : ByNode(x) \notin ToSet(s[y])

\* A shape, the update tree of the first message, a branch node that lacks
\* branches, an unsound message.
Cases ==
  { x \in Shapes \X {<<>>, <<m3>>, <<m4>>} \X {{}, {m4}} \X {{}, {m3}, {m4}} :
      /\ x[2] = <<>> => x[4] # {m4}
      /\ x[2] # <<>> => /\ x[1][m1] # <<>> /\ Unnested(x[2][1], x[1])
                        /\ x[3] = {} /\ x[4] # {m3} }

MCTrees ==
  { Given(x[1], Shape(x[2], <<>>, <<>>), x[3], MCConfigs \ x[4]) : x \in Cases }
=============================================================================
