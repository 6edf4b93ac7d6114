---------------------------- MODULE MCModelBuild ----------------------------
(* Lists of up to three messages, of which later ones may have branches, and *)
(* a fourth message that one of them may nest or have as an update tree.    *)
EXTENDS ModelBuild

CONSTANTS m1, m2, m3, m4

MCConfigs == {m1, m2, m3, m4}

Simple == {ByIndex(1), ByIndex(2), ByNode(m4)}
Single == {<<x>> : x \in Simple}
Double == {<<x, y>> : x \in Simple, y \in Simple}
None == {<<>>}

Each(ofA, ofB, ofC, ofD) ==
  [x \in MCConfigs |->
     CASE x = m1 -> ofA [] x = m2 -> ofB [] x = m3 -> ofC [] x = m4 -> ofD]

Uses(shape) ==
  Cardinality({ p \in MCConfigs \X (1 .. 2) :
                  p[2] \in DOMAIN shape[p[1]]
                    /\ shape[p[1]][p[2]] = ByNode(m4) })

Shapes ==
  { s \in { Each(w, x, y, z) :
              w \in None \cup {<<ByIndex(1)>>, <<ByNode(m4)>>},
              x \in None \cup Single,
              y \in None \cup Single \cup Double \cup {<<Childless>>},
              z \in None \cup {<<ByIndex(1)>>} } : Uses(s) <= 1 }

Numberings ==
  { Each(x, y, z, NoIndex) : x \in {NoIndex, 1}, y \in {NoIndex, 1, 2},
                             z \in {NoIndex, 1, 2} }

Alone == Each(<<>>, <<>>, <<>>, <<>>)

\* A message without branches is a leaf, or a branch node that lacks them.
Given(library, entry, nodes, shape, updates, numbering, leaves, sound) ==
  [library |-> library, entry |-> entry, nodes |-> nodes, index |-> numbering,
   branches |-> shape, updates |-> updates,
   branching |-> MCConfigs \ {x \in leaves : shape[x] = <<>>}, sound |-> sound]

\* Lists of sound messages, for each library.
Lists ==
  { Given(library, "list", <<m1, m2, m3>>, shape, Alone, numbering, MCConfigs,
          MCConfigs) :
      library \in {"cc", "kt"}, shape \in Shapes, numbering \in Numberings }
  \cup
  { Given(library, "list", nodes, shape, Alone, numbering, MCConfigs, MCConfigs) :
      library \in {"cc", "kt"}, nodes \in {<<>>, <<m1>>, <<m1, m2>>},
      shape \in {s \in Shapes : s[m3] = <<>>},
      numbering \in {s \in Numberings : s[m3] = NoIndex} }

\* Lists with an unsound message, or a branch node that lacks branches.
Unsound ==
  { Given("cc", "list", <<m1, m2, m3>>, shape, Alone, Each(1, 2, NoIndex, NoIndex),
          leaves, sound) :
      shape \in {s \in Shapes : s[m3] \in Double}, leaves \in {MCConfigs, {m1, m4}},
      sound \in {{m1, m2, m4}, {m1, m3, m4}, {m1, m2, m3}} }

\* The fourth message is an update tree of the second or the third.
WithUpdates ==
  { Given("cc", "list", <<m1, m2, m3>>, shape, updates, numbering, MCConfigs, sound) :
      shape \in {s \in Shapes : Uses(s) = 0 /\ s[m2] # <<>> /\ s[m3] \in Single},
      updates \in {Each(<<>>, <<m4>>, <<>>, <<>>), Each(<<>>, <<>>, <<m4>>, <<>>)},
      numbering \in Numberings, sound \in {MCConfigs, {m1, m2, m3}} }

\* The third message is the root, and nests the fourth, which nests another
\* or has it as an update tree.
Roots ==
  { Given("cc", "root", <<m3>>, Each(<<>>, <<>>, <<x, ByNode(m4)>>, <<y>>),
          updates, numbering, MCConfigs, MCConfigs) :
      x \in {ByNode(m1), ByIndex(1)}, y \in {ByNode(m2), ByIndex(1), Childless},
      updates \in {Alone, Each(<<>>, <<>>, <<m2>>, <<>>)},
      numbering \in Numberings }

MCModels ==
  Lists \cup Unsound
    \cup { m \in WithUpdates \cup Roots :
             \A x \in MCConfigs : \A p, q \in Places(m, x) : p = q }
=============================================================================
