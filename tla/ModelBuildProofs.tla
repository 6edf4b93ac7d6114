-------------------------- MODULE ModelBuildProofs --------------------------
(***************************************************************************)
(* Ownership under Labeler::Build, for every list of messages: the moves   *)
(* of the unique_ptrs keep one owner for every node.  A child is placed by *)
(* the message of its parent, whether the parent is built or under         *)
(* construction, and a branch node under construction is somewhere too, on *)
(* the stack.  The invariant also says that whatever is somewhere has had  *)
(* its turn in the messages: so a message that is built next is nowhere    *)
(* yet.                                                                    *)
(*                                                                         *)
(* What Build returns is the tree of the messages: every call that is      *)
(* under way is for the node that its caller waits for, no node that was   *)
(* located is lost, an owner has only nodes that are complete, and a       *)
(* branch node is built above its children.  So at the end the tree from   *)
(* the root down and the parts of the messages are the same nodes, by an   *)
(* argument up the depth of the messages in one direction and down the     *)
(* branches of the tree in the other.                                      *)
(*                                                                         *)
(* Build counts.  For an index, the nodes that have it and are stored are  *)
(* those that a branch claimed and the one in node_refs.  Between two      *)
(* nodes of the list every claim of the nodes taken is made, for whatever  *)
(* was taken is built.  So the checks of Build are those of a count over   *)
(* the messages, and Build accepts a list exactly when the count does.     *)
(***************************************************************************)
EXTENDS ModelBuild, FiniteSetTheorems, WellFoundedInduction, TLAPS

\* The places that the call fr, the f-th under way, gives to node c.
InFrame(fr, f, kind, x, k, c) ==
  \/ /\ kind = "child" /\ x = fr.node
     /\ k \in DOMAIN fr.children /\ fr.children[k] = c
  \/ /\ kind = "updater" /\ x = fr.node
     /\ k \in DOMAIN fr.updaters /\ fr.updaters[k] = c
  \/ kind = "stack" /\ x = f /\ k = 0 /\ fr.node = c

\* The node c is in the hands of the calls fs, or of Labeler::Build in b.
Working(fs, b, kind, x, k, c) ==
  \/ \E f \in DOMAIN fs : InFrame(fs[f], f, kind, x, k, c)
  \/ kind = "built" /\ x = 0 /\ k = 0 /\ b = c

\* One more place is taken, by node c: of the call a, now b, or in all calls.
FrameTakes(a, b, f, K, X, N, c) ==
  \A kind, x, k : \A d \in Configs :
    InFrame(b, f, kind, x, k, d) <=> \/ InFrame(a, f, kind, x, k, d)
                                     \/ kind = K /\ x = X /\ k = N /\ d = c
Takes(fs, b, gs, e, K, X, N, c) ==
  \A kind, x, k : \A d \in Configs :
    Working(gs, e, kind, x, k, d) <=> \/ Working(fs, b, kind, x, k, d)
                                      \/ kind = K /\ x = X /\ k = N /\ d = c

\* It waits in node_refs, is under a branch node that is built, or the root.
Kept(kind, x, k, c) ==
  \/ kind = "ref" /\ k = 0 /\ x \in DOMAIN node_refs /\ node_refs[x] = c
  \/ /\ kind = "child" /\ x \in DOMAIN child_nodes
     /\ k \in DOMAIN child_nodes[x] /\ child_nodes[x][k] = c
  \/ /\ kind = "updater" /\ x \in DOMAIN child_nodes
     /\ k \in DOMAIN updaters[x] /\ updaters[x][k] = c
  \/ kind = "root" /\ x = 0 /\ k = 0 /\ root = c

At(kind, x, k, c) == Working(stack, built, kind, x, k, c) \/ Kept(kind, x, k, c)
Located(c) == \E kind, x, k : At(kind, x, k, c)
Owned(c) == \E kind, x, k : kind # "stack" /\ At(kind, x, k, c)

Once ==
  \A c \in Configs : \A kind, x, k, kind2, x2, k2 :
    At(kind, x, k, c) /\ At(kind2, x2, k2, c)
      => kind = kind2 /\ x = x2 /\ k = k2

\* The k-th branch, or update tree, of the f-th call has had its turn: what it
\* asks for is there, or is being built.
BranchTurn(fs, f, k) ==
  \/ k <= Len(fs[f].children)
  \/ k = Len(fs[f].children) + 1 /\ f < Len(fs) /\ LacksChildren(fs[f])
UpdateTurn(fs, f, k) ==
  \/ k <= Len(fs[f].updaters)
  \/ k = Len(fs[f].updaters) + 1 /\ f < Len(fs) /\ ~ LacksChildren(fs[f])

BranchPassed(e, k) ==
  \/ e \in DOMAIN child_nodes
  \/ \E f \in DOMAIN stack : stack[f].node = e /\ BranchTurn(stack, f, k)
UpdatePassed(e, k) ==
  \/ e \in DOMAIN child_nodes
  \/ \E f \in DOMAIN stack : stack[f].node = e /\ UpdateTurn(stack, f, k)
Passed(c) ==
  \/ \E p \in DOMAIN model.nodes : model.nodes[p] = c /\ p <= read
  \/ \E e \in Configs : \E k \in DOMAIN model.branches[e] :
       model.branches[e][k] = ByNode(c) /\ BranchPassed(e, k)
  \/ \E e \in Configs : \E k \in DOMAIN model.updates[e] :
       model.updates[e][k] = c /\ UpdatePassed(e, k)

Typed ==
  /\ model \in Models /\ read \in Nat /\ stack \in Seq(Frame)
  /\ built \in Configs \cup {NoNode} /\ root \in Configs \cup {NoNode}
  /\ \A i \in DOMAIN node_refs : node_refs[i] \in Configs
  /\ DOMAIN child_nodes \subseteq Configs /\ DOMAIN updaters = DOMAIN child_nodes
Control ==
  /\ built # NoNode => stack = <<>>
  /\ built # NoNode \/ stack # <<>> => root = NoNode

IInv ==
  /\ Typed /\ Control /\ Once
  /\ \A c \in Configs : Located(c) => Passed(c)
  /\ \A c \in DOMAIN child_nodes : Owned(c)
-----------------------------------------------------------------------------
LEMMA ModelFacts ==
  ASSUME model \in Models
  PROVE  /\ model.nodes \in Seq(Configs)
         /\ \A c \in Configs : /\ model.branches[c] \in Seq(Branches)
                               /\ model.updates[c] \in Seq(Configs)
  BY ModelsAssumption

\* No message is in two places.
LEMMA OnePlace ==
  ASSUME model \in Models, NEW c \in Configs
  PROVE  /\ \A p, q \in DOMAIN model.nodes :
              model.nodes[p] = c /\ model.nodes[q] = c => p = q
         /\ \A d, e \in Configs : \A j \in DOMAIN model.branches[d],
                                      k \in DOMAIN model.branches[e] :
              model.branches[d][j] = ByNode(c) /\ model.branches[e][k] = ByNode(c)
                => d = e /\ j = k
         /\ \A d, e \in Configs : \A j \in DOMAIN model.updates[d],
                                      k \in DOMAIN model.updates[e] :
              model.updates[d][j] = c /\ model.updates[e][k] = c => d = e /\ j = k
         /\ \A p \in DOMAIN model.nodes, e \in Configs :
              \A k \in DOMAIN model.branches[e] :
                ~ (model.nodes[p] = c /\ model.branches[e][k] = ByNode(c))
         /\ \A p \in DOMAIN model.nodes, e \in Configs :
              \A k \in DOMAIN model.updates[e] :
                ~ (model.nodes[p] = c /\ model.updates[e][k] = c)
         /\ \A d, e \in Configs : \A j \in DOMAIN model.branches[d],
                                      k \in DOMAIN model.updates[e] :
              ~ (model.branches[d][j] = ByNode(c) /\ model.updates[e][k] = c)
<1>1. \A p, q \in Places(model, c) : p = q
  BY ModelsAssumption
<1>2. ASSUME NEW p \in DOMAIN model.nodes, model.nodes[p] = c
      PROVE  <<"list", NoNode, p>> \in Places(model, c)
  <2>1. <<"list", NoNode, p>> \in InList(model, c)
    BY <1>2 DEF InList
  <2>2. QED
    BY <2>1 DEF Places
<1>3. ASSUME NEW e \in Configs, NEW n \in DOMAIN model.branches[e],
             model.branches[e][n] = ByNode(c)
      PROVE  <<"branch", e, n>> \in Places(model, c)
  <2>1. <<"branch", e, n>> \in UnderBranch(model, e, c)
    BY <1>3 DEF UnderBranch
  <2>2. QED
    BY <2>1 DEF Places
<1>4. ASSUME NEW e \in Configs, NEW n \in DOMAIN model.updates[e],
             model.updates[e][n] = c
      PROVE  <<"update", e, n>> \in Places(model, c)
  <2>1. <<"update", e, n>> \in AsUpdate(model, e, c)
    BY <1>4 DEF AsUpdate
  <2>2. QED
    BY <2>1 DEF Places
<1>5. \A x, y, j, k : <<"list", x, j>> # <<"branch", y, k>>
  OBVIOUS
<1>6. \A x, y, j, k : <<"list", x, j>> # <<"update", y, k>>
  OBVIOUS
<1>7. \A x, y, j, k : <<"branch", x, j>> # <<"update", y, k>>
  OBVIOUS
<1>8. \A t, x, y, j, k : <<t, x, j>> = <<t, y, k>> => x = y /\ j = k
  OBVIOUS
<1>9. \A p, q \in DOMAIN model.nodes :
        model.nodes[p] = c /\ model.nodes[q] = c => p = q
  BY <1>1, <1>2, <1>8
<1>10. ASSUME NEW d \in Configs, NEW e \in Configs,
              NEW j \in DOMAIN model.branches[d], NEW k \in DOMAIN model.branches[e],
              model.branches[d][j] = ByNode(c), model.branches[e][k] = ByNode(c)
       PROVE  d = e /\ j = k
  <2>1. <<"branch", d, j>> = <<"branch", e, k>>
    BY <1>1, <1>3, <1>10, Zenon
  <2>2. QED
    BY <2>1
<1>11. ASSUME NEW d \in Configs, NEW e \in Configs,
              NEW j \in DOMAIN model.updates[d], NEW k \in DOMAIN model.updates[e],
              model.updates[d][j] = c, model.updates[e][k] = c
       PROVE  d = e /\ j = k
  <2>1. <<"update", d, j>> = <<"update", e, k>>
    BY <1>1, <1>4, <1>11, Zenon
  <2>2. QED
    BY <2>1
<1>12. \A p \in DOMAIN model.nodes, e \in Configs :
         \A k \in DOMAIN model.branches[e] :
           ~ (model.nodes[p] = c /\ model.branches[e][k] = ByNode(c))
  BY <1>1, <1>2, <1>3, <1>5
<1>13. \A p \in DOMAIN model.nodes, e \in Configs :
         \A k \in DOMAIN model.updates[e] :
           ~ (model.nodes[p] = c /\ model.updates[e][k] = c)
  BY <1>1, <1>2, <1>4, <1>6
<1>14. \A d, e \in Configs : \A j \in DOMAIN model.branches[d],
                                 k \in DOMAIN model.updates[e] :
         ~ (model.branches[d][j] = ByNode(c) /\ model.updates[e][k] = c)
  BY <1>1, <1>3, <1>4, <1>7
<1>15. QED
  BY <1>9, <1>10, <1>11, <1>12, <1>13, <1>14

LEMMA UnderOneBranch ==
  ASSUME model \in Models, NEW c \in Configs, NEW e \in Configs,
         NEW k \in DOMAIN model.branches[e], model.branches[e][k] = ByNode(c)
  PROVE  /\ \A p \in DOMAIN model.nodes : model.nodes[p] # c
         /\ \A d \in Configs : \A j \in DOMAIN model.branches[d] :
              model.branches[d][j] = ByNode(c) => d = e /\ j = k
         /\ \A d \in Configs : \A j \in DOMAIN model.updates[d] :
              model.updates[d][j] # c
<1>1. /\ \A d \in Configs : \A j \in DOMAIN model.branches[d],
                               l \in DOMAIN model.branches[e] :
           model.branches[d][j] = ByNode(c) /\ model.branches[e][l] = ByNode(c)
             => d = e /\ j = l
      /\ \A p \in DOMAIN model.nodes : \A l \in DOMAIN model.branches[e] :
           ~ (model.nodes[p] = c /\ model.branches[e][l] = ByNode(c))
      /\ \A d \in Configs : \A j \in DOMAIN model.branches[e],
                               l \in DOMAIN model.updates[d] :
           ~ (model.branches[e][j] = ByNode(c) /\ model.updates[d][l] = c)
  BY OnePlace
<1>2. QED
  BY <1>1, Zenon

LEMMA InOneUpdate ==
  ASSUME model \in Models, NEW c \in Configs, NEW e \in Configs,
         NEW k \in DOMAIN model.updates[e], model.updates[e][k] = c
  PROVE  /\ \A p \in DOMAIN model.nodes : model.nodes[p] # c
         /\ \A d \in Configs : \A j \in DOMAIN model.branches[d] :
              model.branches[d][j] # ByNode(c)
         /\ \A d \in Configs : \A j \in DOMAIN model.updates[d] :
              model.updates[d][j] = c => d = e /\ j = k
<1>1. \A p \in DOMAIN model.nodes : model.nodes[p] # c
  BY OnePlace, Zenon
<1>2. \A d \in Configs : \A j \in DOMAIN model.branches[d] :
        model.branches[d][j] # ByNode(c)
  BY OnePlace, Zenon
<1>3. \A d \in Configs : \A j \in DOMAIN model.updates[d] :
        model.updates[d][j] = c => d = e /\ j = k
  BY OnePlace, Zenon
<1>4. QED
  BY <1>1, <1>2, <1>3

\* The node is a branch node that is built, or another that was accepted.
Grown(c) == c \in DOMAIN child_nodes \/ c \in model.sound \ model.branching

\* No node is lost in the step, and what it gives an owner is a leaf, or is
\* built.
Moves ==
  /\ \A d \in Configs : Located(d) => Located(d)'
  /\ \A d \in Configs : Owned(d)' => Owned(d) \/ Grown(d)'

\* The step puts node c, wherever it was, in one place, and moves no other.
Puts(K, X, N, c) ==
  \A kind, x, k : \A d \in Configs :
    At(kind, x, k, d)' <=> \/ At(kind, x, k, d) /\ d # c
                           \/ kind = K /\ x = X /\ k = N /\ d = c

\* A node that is put in one place has that place.
LEMMA PutOnce ==
  ASSUME Once, NEW c \in Configs, NEW K, NEW X, NEW N, Puts(K, X, N, c)
  PROVE  /\ Once'
         /\ \A d \in Configs : Owned(d) /\ d # c => Owned(d)'
         /\ K # "stack" => Owned(c)'
         /\ \A d \in Configs : Located(d)' => Located(d) \/ d = c
         /\ \A d \in Configs : Located(d) \/ d = c => Located(d)'
         /\ \A d \in Configs : Owned(d)' => Owned(d) \/ (d = c /\ K # "stack")
<1>0. \A kind, x, k : \A d \in Configs :
        At(kind, x, k, d)' <=> \/ At(kind, x, k, d) /\ d # c
                               \/ kind = K /\ x = X /\ k = N /\ d = c
  BY DEF Puts
<1>1. Once'
  <2>1. SUFFICES ASSUME NEW d \in Configs, NEW kind, NEW x, NEW k,
                        NEW kind2, NEW x2, NEW k2,
                        At(kind, x, k, d)', At(kind2, x2, k2, d)'
                 PROVE  kind = kind2 /\ x = x2 /\ k = k2
    BY DEF Once
  <2>2. CASE d = c
    <3>1. \A i, y, n : At(i, y, n, d)' => i = K /\ y = X /\ n = N
      BY <1>0, <2>2
    <3>2. kind = K /\ x = X /\ k = N
      BY <2>1, <3>1
    <3>3. kind2 = K /\ x2 = X /\ k2 = N
      BY <2>1, <3>1
    <3>4. QED
      BY <3>2, <3>3
  <2>3. CASE d # c
    <3>1. At(kind, x, k, d) /\ At(kind2, x2, k2, d)
      BY <1>0, <2>1, <2>3, Zenon
    <3>2. \A i, j : \A y, z : \A m, n :
            At(i, y, m, d) /\ At(j, z, n, d) => i = j /\ y = z /\ m = n
      BY Zenon DEF Once
    <3>3. QED
      BY <3>1, <3>2, Zenon
  <2>4. QED
    BY <2>2, <2>3
<1>2. \A d \in Configs : Owned(d) /\ d # c => Owned(d)'
  BY <1>0, Zenon DEF Owned
<1>3. K # "stack" => Owned(c)'
  BY <1>0, Zenon DEF Owned
<1>4. \A d \in Configs : Located(d)' => Located(d) \/ d = c
  BY <1>0, Zenon DEF Located
<1>5. \A d \in Configs : Located(d) \/ d = c => Located(d)'
  BY <1>0, Zenon DEF Located
<1>6. \A d \in Configs : Owned(d)' => Owned(d) \/ (d = c /\ K # "stack")
  BY <1>0, Zenon DEF Owned
<1>7. QED
  BY <1>1, <1>2, <1>3, <1>4, <1>5, <1>6
-----------------------------------------------------------------------------
\* What HandOver does to the calls.
LEMMA HandOverFacts ==
  ASSUME NEW fs \in Seq(Frame), NEW c \in Configs, HandOver(fs, c), fs # <<>>
  PROVE  /\ built' = built /\ stack' \in Seq(Frame) /\ Len(stack') = Len(fs)
         /\ Len(fs) \in DOMAIN fs /\ Len(fs) \in Nat /\ DOMAIN fs = 1 .. Len(fs)
         /\ DOMAIN stack' = DOMAIN fs
         /\ \A f \in DOMAIN fs : f # Len(fs) => stack'[f] = fs[f]
         /\ stack'[Len(fs)].node = fs[Len(fs)].node
         /\ LacksChildren(fs[Len(fs)]) =>
              /\ stack'[Len(fs)].children = Append(fs[Len(fs)].children, c)
              /\ stack'[Len(fs)].updaters = fs[Len(fs)].updaters
         /\ ~ LacksChildren(fs[Len(fs)]) =>
              /\ stack'[Len(fs)].children = fs[Len(fs)].children
              /\ stack'[Len(fs)].updaters = Append(fs[Len(fs)].updaters, c)
<1> DEFINE n == Len(fs)
           g == IF LacksChildren(fs[n]) THEN AppendChild(fs[n], c)
                ELSE AppendUpdater(fs[n], c)
<1>1. n \in DOMAIN fs /\ n \in Nat /\ DOMAIN fs = 1 .. n
  OBVIOUS
<1>2. stack' = [fs EXCEPT ![n] = g] /\ built' = built
  BY <1>1 DEF HandOver
<1>3. fs[n] \in Frame
  BY <1>1
<1>4. /\ g \in Frame /\ g.node = fs[n].node
      /\ LacksChildren(fs[n]) => /\ g.children = Append(fs[n].children, c)
                                 /\ g.updaters = fs[n].updaters
      /\ ~ LacksChildren(fs[n]) => /\ g.children = fs[n].children
                                   /\ g.updaters = Append(fs[n].updaters, c)
  <2> DEFINE f == fs[n]
             s == Append(f.children, c)
             u == Append(f.updaters, c)
  <2>1. f \in Frame
    BY <1>3
  <2> HIDE DEF f
  <2>2. f.children \in Seq(Configs) /\ f.updaters \in Seq(Configs)
    BY <2>1 DEF Frame
  <2>3. s \in Seq(Configs) /\ u \in Seq(Configs)
    BY <2>2
  <2> HIDE DEF s, u
  <2>4. /\ [f EXCEPT !.children = s] \in Frame
        /\ [f EXCEPT !.children = s].node = f.node
        /\ [f EXCEPT !.children = s].children = s
        /\ [f EXCEPT !.children = s].updaters = f.updaters
    BY <2>1, <2>3 DEF Frame
  <2>5. /\ [f EXCEPT !.updaters = u] \in Frame
        /\ [f EXCEPT !.updaters = u].node = f.node
        /\ [f EXCEPT !.updaters = u].children = f.children
        /\ [f EXCEPT !.updaters = u].updaters = u
    BY <2>1, <2>3 DEF Frame
  <2>6. /\ AppendChild(f, c) = [f EXCEPT !.children = s]
        /\ AppendUpdater(f, c) = [f EXCEPT !.updaters = u]
    BY DEF AppendChild, AppendUpdater, s, u
  <2>7. QED
    BY <2>4, <2>5, <2>6 DEF f, s, u
<1> HIDE DEF g
<1>5. /\ stack' \in Seq(Frame) /\ Len(stack') = n /\ stack'[n] = g
      /\ DOMAIN stack' = DOMAIN fs
      /\ \A f \in DOMAIN fs : f # n => stack'[f] = fs[f]
  BY <1>1, <1>2, <1>4
<1>6. QED
  BY <1>1, <1>2, <1>4, <1>5

\* The node goes to one place, and no other changes hands.
LEMMA HandOverAt ==
  ASSUME NEW fs \in Seq(Frame), NEW c \in Configs, HandOver(fs, c),
         built = NoNode
  PROVE  \E K, X, N : K # "stack" /\ Takes(fs, built, stack', built', K, X, N, c)
<1>0. NoNode \notin Configs
  BY ModelsAssumption
<1>1. CASE fs = <<>>
  <2>1. stack' = fs /\ built' = c
    BY <1>1 DEF HandOver
  <2>2. Takes(fs, built, stack', built', "built", 0, 0, c)
    BY <1>0, <2>1, Zenon DEF Takes, Working
  <2>3. QED
    BY <2>2
<1>2. CASE fs # <<>>
  <2> DEFINE n == Len(fs)
             a == fs[n]
             b == stack'[n]
  <2>1. /\ built' = built /\ n \in DOMAIN fs /\ DOMAIN stack' = DOMAIN fs
        /\ \A f \in DOMAIN fs : f # n => stack'[f] = fs[f]
        /\ b.node = a.node
        /\ LacksChildren(a) => /\ b.children = Append(a.children, c)
                               /\ b.updaters = a.updaters
        /\ ~ LacksChildren(a) => /\ b.children = a.children
                                 /\ b.updaters = Append(a.updaters, c)
    BY <1>2, HandOverFacts
  <2>2. a \in Frame
    BY <2>1
  <2>3. a.children \in Seq(Configs) /\ a.updaters \in Seq(Configs)
    BY <2>2 DEF Frame
  <2>4. \A s \in Seq(Configs) : \A k :
          /\ k \in DOMAIN Append(s, c) <=> k \in DOMAIN s \/ k = Len(s) + 1
          /\ k \in DOMAIN s => Append(s, c)[k] = s[k]
          /\ Append(s, c)[Len(s) + 1] = c
          /\ Len(s) + 1 \notin DOMAIN s
    OBVIOUS
  <2>5. ASSUME NEW K, NEW N, FrameTakes(a, b, n, K, a.node, N, c)
        PROVE  Takes(fs, built, stack', built', K, a.node, N, c)
    BY <2>1, <2>5 DEF Takes, FrameTakes, Working
  <2>6. CASE LacksChildren(a)
    <3>1. /\ \A k : k \in DOMAIN b.children
                      <=> k \in DOMAIN a.children \/ k = Len(a.children) + 1
          /\ \A k \in DOMAIN a.children : b.children[k] = a.children[k]
          /\ b.children[Len(a.children) + 1] = c
          /\ b.updaters = a.updaters
      BY <2>1, <2>3, <2>4, <2>6
    <3> HIDE DEF a, b
    <3>2. FrameTakes(a, b, n, "child", a.node, Len(a.children) + 1, c)
      BY <2>1, <3>1 DEF FrameTakes, InFrame
    <3>3. QED
      BY <2>5, <3>2
  <2>7. CASE ~ LacksChildren(a)
    <3>1. /\ \A k : k \in DOMAIN b.updaters
                      <=> k \in DOMAIN a.updaters \/ k = Len(a.updaters) + 1
          /\ \A k \in DOMAIN a.updaters : b.updaters[k] = a.updaters[k]
          /\ b.updaters[Len(a.updaters) + 1] = c
          /\ b.children = a.children
      BY <2>1, <2>3, <2>4, <2>7
    <3> HIDE DEF a, b
    <3>2. FrameTakes(a, b, n, "updater", a.node, Len(a.updaters) + 1, c)
      BY <2>1, <3>1 DEF FrameTakes, InFrame
    <3>3. QED
      BY <2>5, <3>2
  <2>8. QED
    BY <2>6, <2>7
<1>3. QED
  BY <1>1, <1>2

\* A call of BranchNodeImpl::Build is one more place, on the stack.
LEMMA PushAt ==
  ASSUME stack \in Seq(Frame), NEW c \in Configs, NEW u \in BOOLEAN,
         stack' = Append(stack, Called(c, u)), built' = built
  PROVE  /\ Takes(stack, built, stack', built', "stack", Len(stack) + 1, 0, c)
         /\ stack' \in Seq(Frame) /\ Len(stack') = Len(stack) + 1
         /\ DOMAIN stack = 1 .. Len(stack) /\ DOMAIN stack' = 1 .. Len(stack) + 1
         /\ Len(stack) \in Nat
         /\ \A f \in DOMAIN stack : stack'[f] = stack[f]
<1> DEFINE n == Len(stack)
           new == Called(c, u)
<1>1. new \in Frame
  BY DEF Called, Frame
<1>2. new.node = c /\ new.children = <<>> /\ new.updaters = <<>>
  BY DEF Called
<1> HIDE DEF new
<1>3. /\ stack' \in Seq(Frame) /\ Len(stack') = n + 1 /\ n \in Nat
      /\ DOMAIN stack = 1 .. n /\ DOMAIN stack' = 1 .. n + 1
      /\ \A f \in DOMAIN stack : stack'[f] = stack[f]
      /\ stack'[n + 1] = new
  BY <1>1 DEF new
<1>4. \A f : f \in DOMAIN stack' <=> f \in DOMAIN stack \/ f = n + 1
  BY <1>3
<1>5. \A kind, x, k : \A d \in Configs :
        InFrame(new, n + 1, kind, x, k, d)
          <=> kind = "stack" /\ x = n + 1 /\ k = 0 /\ d = c
  BY <1>2 DEF InFrame
<1> HIDE DEF n
<1>6. Takes(stack, built, stack', built', "stack", n + 1, 0, c)
  <2> SUFFICES ASSUME NEW kind, NEW x, NEW k, NEW d \in Configs
               PROVE  Working(stack', built', kind, x, k, d)
                        <=> \/ Working(stack, built, kind, x, k, d)
                            \/ kind = "stack" /\ x = n + 1 /\ k = 0 /\ d = c
    BY DEF Takes
  <2>1. ASSUME NEW f
        PROVE  f \in DOMAIN stack' /\ InFrame(stack'[f], f, kind, x, k, d)
                 <=> \/ f \in DOMAIN stack /\ InFrame(stack[f], f, kind, x, k, d)
                     \/ f = n + 1 /\ InFrame(new, f, kind, x, k, d)
    BY <1>3, <1>4
  <2>2. QED
    BY <1>5, <2>1 DEF Working
<1>7. QED
  BY <1>3, <1>6 DEF n

\* The calls fs and whatever the calls were about to get have their turn in
\* the next state.
Turned(fs) ==
  \A f \in DOMAIN fs :
    /\ f \in DOMAIN stack' /\ stack'[f].node = fs[f].node
    /\ \A k \in Nat :
         /\ \/ k <= Len(fs[f].children)
            \/ k = Len(fs[f].children) + 1 /\ LacksChildren(fs[f])
            => BranchTurn(stack, f, k)'
         /\ \/ k <= Len(fs[f].updaters)
            \/ k = Len(fs[f].updaters) + 1 /\ ~ LacksChildren(fs[f])
            => UpdateTurn(stack, f, k)'

LEMMA PushTurned ==
  ASSUME stack \in Seq(Frame), NEW c \in Configs, NEW u \in BOOLEAN,
         stack' = Append(stack, Called(c, u)), built' = built, model' = model
  PROVE  Turned(stack)
<1>1. /\ Len(stack') = Len(stack) + 1 /\ Len(stack) \in Nat
      /\ DOMAIN stack = 1 .. Len(stack) /\ DOMAIN stack' = 1 .. Len(stack) + 1
      /\ \A f \in DOMAIN stack : stack'[f] = stack[f]
  BY PushAt
<1>2. QED
  BY <1>1 DEF Turned, BranchTurn, UpdateTurn, LacksChildren

LEMMA HandOverTurned ==
  ASSUME NEW fs \in Seq(Frame), NEW c \in Configs, HandOver(fs, c),
         model' = model
  PROVE  Turned(fs)
<1>1. CASE fs = <<>>
  BY <1>1 DEF Turned
<1>2. CASE fs # <<>>
  <2> DEFINE n == Len(fs)
  <2>1. /\ Len(stack') = n /\ n \in Nat /\ DOMAIN fs = 1 .. n
        /\ DOMAIN stack' = DOMAIN fs
        /\ \A f \in DOMAIN fs : f # n => stack'[f] = fs[f]
        /\ stack'[n].node = fs[n].node
        /\ LacksChildren(fs[n]) =>
             /\ stack'[n].children = Append(fs[n].children, c)
             /\ stack'[n].updaters = fs[n].updaters
        /\ ~ LacksChildren(fs[n]) =>
             /\ stack'[n].children = fs[n].children
             /\ stack'[n].updaters = Append(fs[n].updaters, c)
    BY <1>2, HandOverFacts
  <2>2. ASSUME NEW f \in DOMAIN fs
        PROVE  /\ fs[f].children \in Seq(Configs) /\ fs[f].updaters \in Seq(Configs)
    <3>1. fs[f] \in Frame
      OBVIOUS
    <3>2. QED
      BY <3>1 DEF Frame
  <2>3. ASSUME NEW s \in Seq(Configs)
        PROVE  Len(s) \in Nat /\ Len(Append(s, c)) = Len(s) + 1
    OBVIOUS
  <2> HIDE DEF n
  <2>4. ASSUME NEW f \in DOMAIN fs, f # n
        PROVE  /\ f \in DOMAIN stack' /\ stack'[f].node = fs[f].node
               /\ \A k \in Nat :
                    /\ \/ k <= Len(fs[f].children)
                       \/ k = Len(fs[f].children) + 1 /\ LacksChildren(fs[f])
                       => BranchTurn(stack, f, k)'
                    /\ \/ k <= Len(fs[f].updaters)
                       \/ k = Len(fs[f].updaters) + 1 /\ ~ LacksChildren(fs[f])
                       => UpdateTurn(stack, f, k)'
    BY <2>1, <2>4 DEF BranchTurn, UpdateTurn, LacksChildren
  <2>5. n \in DOMAIN fs
    BY <1>2, <2>1 DEF n
  <2>6. /\ Len(fs[n].children) \in Nat /\ Len(fs[n].updaters) \in Nat
        /\ LacksChildren(fs[n]) =>
             /\ Len(stack'[n].children) = Len(fs[n].children) + 1
             /\ Len(stack'[n].updaters) = Len(fs[n].updaters)
        /\ ~ LacksChildren(fs[n]) =>
             /\ Len(stack'[n].children) = Len(fs[n].children)
             /\ Len(stack'[n].updaters) = Len(fs[n].updaters) + 1
    BY <2>1, <2>2, <2>3, <2>5
  <2>7. \A k \in Nat :
           /\ \/ k <= Len(fs[n].children)
              \/ k = Len(fs[n].children) + 1 /\ LacksChildren(fs[n])
              => BranchTurn(stack, n, k)'
           /\ \/ k <= Len(fs[n].updaters)
              \/ k = Len(fs[n].updaters) + 1 /\ ~ LacksChildren(fs[n])
              => UpdateTurn(stack, n, k)'
    <3>1. CASE LacksChildren(fs[n])
      BY <2>6, <3>1 DEF BranchTurn, UpdateTurn
    <3>2. CASE ~ LacksChildren(fs[n])
      BY <2>6, <3>2 DEF BranchTurn, UpdateTurn
    <3>3. QED
      BY <3>1, <3>2
  <2>8. QED
    BY <2>1, <2>4, <2>5, <2>7, Zenon DEF Turned
<1>3. QED
  BY <1>1, <1>2

\* What had its turn keeps it: the calls that go on are turned, and one that
\* is gone is a branch node that is built.
LEMMA PassedStays ==
  ASSUME Typed, NEW fs \in Seq(Frame), Turned(fs),
         model' = model, read' \in Nat, read <= read',
         DOMAIN child_nodes \subseteq DOMAIN child_nodes',
         \A f \in DOMAIN stack :
           \/ f \in DOMAIN fs /\ fs[f] = stack[f]
           \/ stack[f].node \in DOMAIN child_nodes',
         NEW c \in Configs, Passed(c)
  PROVE  Passed(c)'
<1>1. /\ model.nodes \in Seq(Configs)
      /\ \A e \in Configs : /\ model.branches[e] \in Seq(Branches)
                            /\ model.updates[e] \in Seq(Configs)
  BY ModelFacts DEF Typed
<1>2. CASE \E p \in DOMAIN model.nodes : model.nodes[p] = c /\ p <= read
  BY <1>1, <1>2 DEF Passed, Typed
<1>3. ASSUME NEW e \in Configs, NEW k \in Nat
      PROVE  /\ BranchPassed(e, k) => BranchPassed(e, k)'
             /\ UpdatePassed(e, k) => UpdatePassed(e, k)'
  <2>1. ASSUME NEW f \in DOMAIN stack, stack[f].node = e
        PROVE  \/ e \in DOMAIN child_nodes'
               \/ /\ f \in DOMAIN stack' /\ stack'[f].node = e
                  /\ BranchTurn(stack, f, k) => BranchTurn(stack, f, k)'
                  /\ UpdateTurn(stack, f, k) => UpdateTurn(stack, f, k)'
    <3>1. CASE stack[f].node \in DOMAIN child_nodes'
      BY <2>1, <3>1
    <3>2. CASE f \in DOMAIN fs /\ fs[f] = stack[f]
      <4>1. /\ f \in DOMAIN stack' /\ stack'[f].node = e
            /\ \/ k <= Len(stack[f].children)
               \/ k = Len(stack[f].children) + 1 /\ LacksChildren(stack[f])
               => BranchTurn(stack, f, k)'
            /\ \/ k <= Len(stack[f].updaters)
               \/ k = Len(stack[f].updaters) + 1 /\ ~ LacksChildren(stack[f])
               => UpdateTurn(stack, f, k)'
        BY <2>1, <3>2, Zenon DEF Turned
      <4>2. /\ BranchTurn(stack, f, k) =>
                 \/ k <= Len(stack[f].children)
                 \/ k = Len(stack[f].children) + 1 /\ LacksChildren(stack[f])
            /\ UpdateTurn(stack, f, k) =>
                 \/ k <= Len(stack[f].updaters)
                 \/ k = Len(stack[f].updaters) + 1 /\ ~ LacksChildren(stack[f])
        BY Zenon DEF BranchTurn, UpdateTurn
      <4>3. QED
        BY <4>1, <4>2, Zenon
    <3>3. QED
      BY <3>1, <3>2
  <2>2. e \in DOMAIN child_nodes => e \in DOMAIN child_nodes'
    OBVIOUS
  <2>3. QED
    BY <2>1, <2>2, Zenon DEF BranchPassed, UpdatePassed
<1>4. \A e \in Configs :
         /\ \A k \in DOMAIN model.branches[e] : k \in Nat
         /\ \A k \in DOMAIN model.updates[e] : k \in Nat
  BY <1>1
<1>5. CASE \E e \in Configs : \E k \in DOMAIN model.branches[e] :
             model.branches[e][k] = ByNode(c) /\ BranchPassed(e, k)
  BY <1>3, <1>4, <1>5, Zenon DEF Passed
<1>6. CASE \E e \in Configs : \E k \in DOMAIN model.updates[e] :
             model.updates[e][k] = c /\ UpdatePassed(e, k)
  BY <1>3, <1>4, <1>6, Zenon DEF Passed
<1>7. QED
  BY <1>2, <1>5, <1>6 DEF Passed
-----------------------------------------------------------------------------
\* A branch node under construction has one call, and is not built yet.
LEMMA StackOnce ==
  ASSUME IInv, NEW f \in DOMAIN stack
  PROVE  /\ stack[f] \in Frame /\ stack[f].node \in Configs
         /\ At("stack", f, 0, stack[f].node)
         /\ stack[f].node \notin DOMAIN child_nodes
         /\ \A g \in DOMAIN stack : stack[g].node = stack[f].node => g = f
<1>1. stack \in Seq(Frame)
  BY DEF IInv, Typed
<1>2. \A g \in DOMAIN stack : stack[g] \in Frame
  BY <1>1
<1>3. \A g \in DOMAIN stack : stack[g].node \in Configs
  BY <1>2 DEF Frame
<1>4. \A g \in DOMAIN stack : At("stack", g, 0, stack[g].node)
  BY Zenon DEF At, Working, InFrame
<1>5. Once /\ \A c \in DOMAIN child_nodes : Owned(c)
  BY DEF IInv
<1>6. \A g \in DOMAIN stack : stack[g].node = stack[f].node => g = f
  <2>1. \A g \in DOMAIN stack :
          stack[g].node = stack[f].node => At("stack", g, 0, stack[f].node)
    BY <1>4
  <2>2. QED
    BY <1>3, <1>4, <1>5, <2>1, Zenon DEF Once
<1>7. stack[f].node \notin DOMAIN child_nodes
  <2>1. SUFFICES ASSUME stack[f].node \in DOMAIN child_nodes PROVE FALSE
    OBVIOUS
  <2>2. Owned(stack[f].node)
    BY <1>5, <2>1
  <2>3. PICK kind, x, k : kind # "stack" /\ At(kind, x, k, stack[f].node)
    BY <2>2, Zenon DEF Owned
  <2>4. kind = "stack"
    BY <1>3, <1>4, <1>5, <2>3, Zenon DEF Once
  <2>5. QED
    BY <2>3, <2>4
<1>8. QED
  BY <1>2, <1>3, <1>4, <1>6, <1>7

\* A message that has not had its turn is nowhere.
LEMMA FreshListed ==
  ASSUME IInv, read < Len(model.nodes)
  PROVE  /\ model.nodes[read + 1] \in Configs
         /\ ~ Located(model.nodes[read + 1])
<1> DEFINE c == model.nodes[read + 1]
<1>1. model \in Models /\ read \in Nat
  BY DEF IInv, Typed
<1>2. model.nodes \in Seq(Configs)
  BY <1>1, ModelFacts
<1>3. read + 1 \in DOMAIN model.nodes /\ c \in Configs
  BY <1>1, <1>2
<1>4. ~ Passed(c)
  <2>1. ~ \E p \in DOMAIN model.nodes : model.nodes[p] = c /\ p <= read
    <3> HIDE DEF c
    <3>1. \A p \in DOMAIN model.nodes : model.nodes[p] = c => p = read + 1
      BY <1>1, <1>3, OnePlace DEF c
    <3>2. QED
      BY <1>1, <3>1
  <2>2. ~ \E e \in Configs : \E k \in DOMAIN model.branches[e] :
            model.branches[e][k] = ByNode(c)
    BY <1>1, <1>3, OnePlace
  <2>3. ~ \E e \in Configs : \E k \in DOMAIN model.updates[e] :
            model.updates[e][k] = c
    BY <1>1, <1>3, OnePlace
  <2>4. QED
    BY <2>1, <2>2, <2>3, Zenon DEF Passed
<1>5. QED
  BY <1>3, <1>4 DEF IInv

\* The innermost call, and the branch or update tree it is at.
LEMMA TopFacts ==
  ASSUME IInv, stack # <<>>
  PROVE  /\ Len(stack) \in DOMAIN stack /\ Top = stack[Len(stack)]
         /\ Len(stack) \in Nat /\ DOMAIN stack = 1 .. Len(stack)
         /\ Top \in Frame /\ Top.node \in Configs /\ Top.in_update \in BOOLEAN
         /\ Len(Top.children) \in Nat /\ Len(Top.updaters) \in Nat
         /\ LacksChildren(Top) =>
              Len(Top.children) + 1 \in DOMAIN model.branches[Top.node]
         /\ Len(Top.updaters) < Len(model.updates[Top.node]) =>
              /\ Len(Top.updaters) + 1 \in DOMAIN model.updates[Top.node]
              /\ model.updates[Top.node][Len(Top.updaters) + 1] \in Configs
<1>1. stack \in Seq(Frame) /\ model \in Models
  BY DEF IInv, Typed
<1>2. Len(stack) \in DOMAIN stack /\ Top = stack[Len(stack)] /\ Top \in Frame
      /\ Len(stack) \in Nat /\ DOMAIN stack = 1 .. Len(stack)
  BY <1>1 DEF Top, Last
<1>3. /\ Top.node \in Configs /\ Top.in_update \in BOOLEAN
      /\ Top.children \in Seq(Configs) /\ Top.updaters \in Seq(Configs)
  BY <1>2 DEF Frame
<1>4. /\ model.branches[Top.node] \in Seq(Branches)
      /\ model.updates[Top.node] \in Seq(Configs)
  BY <1>1, <1>3, ModelFacts
<1>5. Len(Top.children) \in Nat /\ Len(Top.updaters) \in Nat
  BY <1>3
<1>6. LacksChildren(Top) =>
        Len(Top.children) + 1 \in DOMAIN model.branches[Top.node]
  BY <1>4, <1>5 DEF LacksChildren
<1>7. Len(Top.updaters) < Len(model.updates[Top.node]) =>
        /\ Len(Top.updaters) + 1 \in DOMAIN model.updates[Top.node]
        /\ model.updates[Top.node][Len(Top.updaters) + 1] \in Configs
  BY <1>4, <1>5
<1>8. QED
  BY <1>2, <1>3, <1>5, <1>6, <1>7

LEMMA FreshBranch ==
  ASSUME IInv, MoreBranches, Branch.by = "node"
  PROVE  Branch.node \in Configs /\ ~ Located(Branch.node)
<1> DEFINE c == Branch.node
           n == Len(stack)
           k == Len(Top.children) + 1
<1>1. stack # <<>> /\ LacksChildren(Top) /\ model \in Models
  BY DEF MoreBranches, IInv, Typed
<1>2. /\ n \in DOMAIN stack /\ Top = stack[n] /\ Top.node \in Configs
      /\ k \in DOMAIN model.branches[Top.node] /\ n \in Nat
      /\ Len(Top.children) \in Nat
  BY <1>1, TopFacts
<1>3. Branch \in Branches
  <2>1. model.branches[Top.node] \in Seq(Branches)
    BY <1>1, <1>2, ModelFacts
  <2>2. QED
    BY <1>2, <2>1 DEF Branch
<1>4. c \in Configs /\ model.branches[Top.node][k] = ByNode(c)
  <2>1. Branch = ByNode(Branch.node) /\ Branch.node \in Configs
    <3>1. PICK d \in Configs : Branch = ByNode(d)
      BY <1>3 DEF Branches, ByIndex, Childless
    <3>2. Branch.node = d
      BY <3>1 DEF ByNode
    <3>3. QED
      BY <3>1, <3>2
  <2>2. QED
    BY <2>1 DEF Branch
<1>5. Top.node \notin DOMAIN child_nodes
      /\ \A f \in DOMAIN stack : stack[f].node = Top.node => f = n
  BY <1>2, StackOnce
<1> HIDE DEF c, k, n
<1>6. ~ BranchPassed(Top.node, k)
  <2>1. ~ BranchTurn(stack, n, k)
    BY <1>2 DEF BranchTurn, k, n
  <2>2. QED
    BY <1>5, <2>1, Zenon DEF BranchPassed
<1>7. /\ \A p \in DOMAIN model.nodes : model.nodes[p] # c
      /\ \A d \in Configs : \A j \in DOMAIN model.branches[d] :
           model.branches[d][j] = ByNode(c) => d = Top.node /\ j = k
      /\ \A d \in Configs : \A j \in DOMAIN model.updates[d] :
           model.updates[d][j] # c
  BY <1>1, <1>2, <1>4, UnderOneBranch
<1>8. ~ Passed(c)
  BY <1>6, <1>7, Zenon DEF Passed
<1>9. QED
  BY <1>4, <1>8 DEF IInv, c

LEMMA FreshUpdate ==
  ASSUME IInv, MoreUpdates,
         NEW c, c = model.updates[Top.node][Len(Top.updaters) + 1]
  PROVE  c \in Configs /\ ~ Located(c)
<1> DEFINE n == Len(stack)
           k == Len(Top.updaters) + 1
<1>1. /\ stack # <<>> /\ ~ LacksChildren(Top) /\ model \in Models
      /\ Len(Top.updaters) < Len(model.updates[Top.node])
  BY DEF MoreUpdates, IInv, Typed
<1>2. /\ n \in DOMAIN stack /\ Top = stack[n] /\ Top.node \in Configs
      /\ k \in DOMAIN model.updates[Top.node] /\ n \in Nat
      /\ Len(Top.updaters) \in Nat
      /\ c \in Configs
  BY <1>1, TopFacts
<1>3. model.updates[Top.node][k] = c
  OBVIOUS
<1>4. Top.node \notin DOMAIN child_nodes
      /\ \A f \in DOMAIN stack : stack[f].node = Top.node => f = n
  BY <1>2, StackOnce
<1> HIDE DEF k, n
<1>5. ~ UpdatePassed(Top.node, k)
  <2>1. ~ UpdateTurn(stack, n, k)
    BY <1>2 DEF UpdateTurn, k, n
  <2>2. QED
    BY <1>4, <2>1, Zenon DEF UpdatePassed
<1>6. /\ \A p \in DOMAIN model.nodes : model.nodes[p] # c
      /\ \A d \in Configs : \A j \in DOMAIN model.branches[d] :
           model.branches[d][j] # ByNode(c)
      /\ \A d \in Configs : \A j \in DOMAIN model.updates[d] :
           model.updates[d][j] = c => d = Top.node /\ j = k
  BY <1>1, <1>2, <1>3, InOneUpdate
<1>7. ~ Passed(c)
  BY <1>5, <1>6, Zenon DEF Passed
<1>8. QED
  BY <1>2, <1>7 DEF IInv
-----------------------------------------------------------------------------
\* Such a step keeps the invariant, if the node has had its turn.
LEMMA PutIn ==
  ASSUME IInv, Typed', Control', NEW c \in Configs, NEW K, NEW X, NEW N,
         Puts(K, X, N, c), Passed(c)',
         \A d \in Configs : Passed(d) => Passed(d)',
         DOMAIN child_nodes' \subseteq DOMAIN child_nodes \cup {c},
         K = "stack" => c \notin DOMAIN child_nodes',
         K # "stack" => Owned(c) \/ Grown(c)'
  PROVE  IInv' /\ Moves /\ Located(c)'
<1>1. /\ Once'
      /\ \A d \in Configs : Owned(d) /\ d # c => Owned(d)'
      /\ K # "stack" => Owned(c)'
      /\ \A d \in Configs : Located(d)' => Located(d) \/ d = c
      /\ \A d \in Configs : Located(d) \/ d = c => Located(d)'
      /\ \A d \in Configs : Owned(d)' => Owned(d) \/ (d = c /\ K # "stack")
  <2>1. Once
    BY DEF IInv
  <2>2. QED
    BY <2>1, PutOnce
<1>2. \A d \in Configs : Located(d)' => Passed(d)'
  BY <1>1, Zenon DEF IInv
<1>3. ASSUME NEW d \in DOMAIN child_nodes' PROVE Owned(d)'
  <2>1. CASE d = c
    BY <1>1, <1>3, <2>1, Zenon
  <2>2. CASE d # c
    <3>1. d \in DOMAIN child_nodes /\ d \in Configs
      BY <1>3, <2>2 DEF IInv, Typed
    <3>2. Owned(d)
      BY <3>1 DEF IInv
    <3>3. QED
      BY <1>1, <2>2, <3>1, <3>2, Zenon
  <2>3. QED
    BY <2>1, <2>2
<1>4. Moves /\ Located(c)'
  BY <1>1, Zenon DEF Moves
<1>5. QED
  BY <1>1, <1>2, <1>3, <1>4 DEF IInv

\* A node that was nowhere gets the place that the calls have taken.
LEMMA FreshPut ==
  ASSUME NEW c \in Configs, ~ Located(c), NEW K, NEW X, NEW N,
         Takes(stack, built, stack', built', K, X, N, c),
         UNCHANGED <<node_refs, child_nodes, updaters, root>>
  PROVE  Puts(K, X, N, c)
<1>1. \A kind, x, k : \A d \in Configs :
        Kept(kind, x, k, d)' <=> Kept(kind, x, k, d)
  <2>1. /\ node_refs' = node_refs /\ child_nodes' = child_nodes
        /\ updaters' = updaters /\ root' = root
    OBVIOUS
  <2>2. QED
    BY <2>1 DEF Kept
<1>2. \A kind, x, k : ~ At(kind, x, k, c)
  BY Zenon DEF Located
<1>3. \A kind, x, k : \A d \in Configs :
        At(kind, x, k, d)' <=> \/ At(kind, x, k, d)
                               \/ kind = K /\ x = X /\ k = N /\ d = c
  BY <1>1, Zenon DEF At, Takes
<1>4. \A kind, x, k : \A d \in Configs :
        At(kind, x, k, d) <=> At(kind, x, k, d) /\ d # c
  BY <1>2, Zenon
<1>5. QED
  BY <1>3, <1>4, Zenon DEF Puts

\* The build of a message begins, or of a leaf is done.
LEMMA EnterKeeps ==
  ASSUME IInv, NEW c \in Configs, NEW u \in BOOLEAN, Enter(c, u), ~ Located(c),
         built = NoNode, root = NoNode, read' \in Nat, read <= read',
         Turned(stack) => Passed(c)'
  PROVE  IInv' /\ Moves /\ Located(c)'
<1>1. /\ stack \in Seq(Frame) /\ Typed /\ Control
      /\ UNCHANGED <<model, node_refs, child_nodes, updaters, root>>
      /\ NoNode \notin Configs
  BY ModelsAssumption DEF IInv, Typed, Enter
<1>2. c \notin DOMAIN child_nodes
  <2>1. Owned(c) => Located(c)
    BY Zenon DEF Owned, Located
  <2>2. QED
    BY <2>1 DEF IInv
<1>3. Turned(stack) => \A d \in Configs : Passed(d) => Passed(d)'
  <2>1. \A f \in DOMAIN stack : f \in DOMAIN stack /\ stack[f] = stack[f]
    OBVIOUS
  <2>2. QED
    BY <1>1, <2>1, PassedStays
<1>4. CASE stack' = Append(stack, Called(c, u)) /\ UNCHANGED built
  <2>1. /\ Takes(stack, built, stack', built', "stack", Len(stack) + 1, 0, c)
        /\ stack' \in Seq(Frame)
    BY <1>1, <1>4, PushAt
  <2>2. Turned(stack)
    BY <1>1, <1>4, PushTurned
  <2>3. Typed' /\ Control'
    BY <1>1, <1>4, <2>1 DEF Typed, Control
  <2>4. Puts("stack", Len(stack) + 1, 0, c)
    BY <1>1, <2>1, FreshPut
  <2>5. DOMAIN child_nodes' \subseteq DOMAIN child_nodes \cup {c}
        /\ c \notin DOMAIN child_nodes'
    BY <1>1, <1>2
  <2>6. QED
    BY <1>3, <2>2, <2>3, <2>4, <2>5, PutIn
<1>5. CASE HandOver(stack, c) /\ c \in model.sound \ model.branching
  <2>1. Turned(stack)
    BY <1>1, <1>5, HandOverTurned
  <2>2. PICK K, X, N :
          K # "stack" /\ Takes(stack, built, stack', built', K, X, N, c)
    BY <1>1, <1>5, HandOverAt
  <2>3. /\ stack' \in Seq(Frame) /\ built' \in Configs \cup {NoNode}
        /\ built' # NoNode => stack' = <<>>
    <3>1. CASE stack = <<>>
      BY <1>1, <1>5, <3>1 DEF HandOver
    <3>2. CASE stack # <<>>
      BY <1>1, <1>5, <3>2, HandOverFacts
    <3>3. QED
      BY <3>1, <3>2
  <2>4. Typed' /\ Control'
    BY <1>1, <2>3 DEF Typed, Control
  <2>5. Puts(K, X, N, c)
    BY <1>1, <2>2, FreshPut
  <2>6. DOMAIN child_nodes' \subseteq DOMAIN child_nodes \cup {c}
    BY <1>1
  <2>7. Grown(c)'
    BY <1>1, <1>5 DEF Grown
  <2>8. QED
    BY <1>3, <2>1, <2>2, <2>4, <2>5, <2>6, <2>7, PutIn
<1>6. QED
  BY <1>4, <1>5 DEF Enter

\* After an error nothing is anywhere.
LEMMA FailKeeps ==
  ASSUME IInv, Fail
  PROVE  IInv'
<1>1. Typed' /\ Control'
  BY DEF IInv, Typed, Control, Fail, NoRefs
<1>2. \A kind, x, k : \A c \in Configs : ~ At(kind, x, k, c)'
  BY ModelsAssumption DEF Fail, NoRefs, At, Working, Kept
<1>3. DOMAIN child_nodes' = {}
  BY DEF Fail, NoRefs
<1>4. Once' /\ \A c \in Configs : ~ Located(c)'
  BY <1>2, Zenon DEF Once, Located
<1>5. QED
  BY <1>1, <1>3, <1>4 DEF IInv

LEMMA TakeNodeKeeps ==
  ASSUME IInv, TakeNode
  PROVE  IInv' /\ (Fail \/ (Moves /\ Located(model.nodes[read])'))
<1>1. CASE Fail
  BY <1>1, FailKeeps
<1>2. ASSUME NEW c, c = model.nodes[read + 1],
             root = NoNode, read' = read + 1, Enter(c, FALSE)
      PROVE  IInv' /\ Moves /\ Located(model.nodes[read])'
  <2>1. c \in Configs /\ ~ Located(c)
    BY <1>2, FreshListed DEF TakeNode
  <2>2. read \in Nat /\ built = NoNode /\ model \in Models /\ model' = model
    BY <1>2 DEF IInv, Typed, TakeNode, Enter
  <2>3. Passed(c)'
    <3>1. model.nodes \in Seq(Configs) /\ read < Len(model.nodes)
      BY <2>2, ModelFacts DEF TakeNode
    <3>2. read + 1 \in DOMAIN model'.nodes /\ model'.nodes[read + 1] = c
          /\ read + 1 <= read'
      BY <1>2, <2>2, <3>1
    <3>3. QED
      BY <3>2, Zenon DEF Passed
  <2>4. read' \in Nat /\ read <= read'
    BY <1>2, <2>2
  <2>5. IInv' /\ Moves /\ Located(c)'
    BY <1>2, <2>1, <2>2, <2>3, <2>4, EnterKeeps
  <2>6. c = model'.nodes[read']
    BY <1>2, <2>2
  <2>7. QED
    BY <2>5, <2>6
<1>3. QED
  BY <1>1, <1>2 DEF TakeNode

\* The node of a call that is under way has no other owner to be Build.
LEMMA Inside ==
  ASSUME IInv, stack # <<>>
  PROVE  built = NoNode /\ root = NoNode /\ read \in Nat
  BY DEF IInv, Control, Typed

LEMMA AppendByNodeKeeps ==
  ASSUME IInv, AppendByNode
  PROVE  IInv' /\ (Moves \/ Fail)
<1>1. MoreBranches /\ Branch.by = "node" /\ read' = read
      /\ Enter(Branch.node, Top.in_update)
  BY DEF AppendByNode
<1>2. stack # <<>> /\ LacksChildren(Top)
  BY <1>1 DEF MoreBranches
<1>3. built = NoNode /\ root = NoNode /\ read \in Nat
  BY <1>2, Inside
<1>4. Branch.node \in Configs /\ ~ Located(Branch.node)
  BY <1>1, FreshBranch
<1>5. PICK c \in Configs : c = Branch.node
  BY <1>4
<1>6. PICK n, e, k : n = Len(stack) /\ e = Top.node /\ k = Len(Top.children) + 1
  OBVIOUS
<1>7. /\ n \in DOMAIN stack /\ Top = stack[n] /\ e \in Configs
      /\ Top.in_update \in BOOLEAN
      /\ k \in DOMAIN model.branches[e] /\ k \in Nat
  BY <1>2, <1>6, TopFacts
<1>8. model.branches[e][k] = ByNode(c)
  <2>1. model.branches[e] \in Seq(Branches)
    BY <1>7, ModelFacts DEF IInv, Typed
  <2>2. Branch \in Branches
    BY <1>6, <1>7, <2>1 DEF Branch
  <2>3. PICK d \in Configs : Branch = ByNode(d)
    BY <1>1, <2>2 DEF Branches, ByIndex, Childless
  <2>4. Branch.node = d
    BY <2>3 DEF ByNode
  <2>5. QED
    BY <1>5, <1>6, <2>3, <2>4 DEF Branch
<1>9. ASSUME Turned(stack) PROVE Passed(c)'
  <2>1. BranchTurn(stack, n, k)' /\ n \in DOMAIN stack' /\ stack'[n].node = e
    BY <1>2, <1>6, <1>7, <1>9 DEF Turned
  <2>2. BranchPassed(e, k)'
    BY <2>1, Zenon DEF BranchPassed
  <2>3. model' = model
    BY <1>1 DEF Enter
  <2>4. QED
    BY <1>7, <1>8, <2>2, <2>3, Zenon DEF Passed
<1>10. QED
  BY <1>1, <1>3, <1>4, <1>5, <1>7, <1>9, EnterKeeps

LEMMA BuildUpdateTreeKeeps ==
  ASSUME IInv, BuildUpdateTree
  PROVE  IInv' /\ (Moves \/ Fail)
<1>1. CASE Fail
  BY <1>1, FailKeeps
<1>2. ASSUME NEW c, c = model.updates[Top.node][Len(Top.updaters) + 1],
             Enter(c, TRUE), UNCHANGED read
      PROVE  IInv' /\ Moves
  <2>1. MoreUpdates
    BY DEF BuildUpdateTree
  <2>2. /\ stack # <<>> /\ ~ LacksChildren(Top)
        /\ Len(Top.updaters) < Len(model.updates[Top.node])
    BY <2>1 DEF MoreUpdates
  <2>3. built = NoNode /\ root = NoNode /\ read \in Nat
    BY <2>2, Inside
  <2>4. c \in Configs /\ ~ Located(c)
    BY <1>2, <2>1, FreshUpdate
  <2>5. PICK n, e, k : n = Len(stack) /\ e = Top.node /\ k = Len(Top.updaters) + 1
    OBVIOUS
  <2>6. /\ n \in DOMAIN stack /\ Top = stack[n] /\ e \in Configs
        /\ k \in DOMAIN model.updates[e] /\ k \in Nat
        /\ model.updates[e][k] = c
    BY <1>2, <2>2, <2>5, TopFacts
  <2>7. ASSUME Turned(stack) PROVE Passed(c)'
    <3>1. UpdateTurn(stack, n, k)' /\ n \in DOMAIN stack' /\ stack'[n].node = e
      BY <2>2, <2>5, <2>6, <2>7 DEF Turned
    <3>2. UpdatePassed(e, k)'
      BY <3>1, Zenon DEF UpdatePassed
    <3>3. model' = model
      BY <1>2 DEF Enter
    <3>4. QED
      BY <2>6, <3>2, <3>3, Zenon DEF Passed
  <2>8. read' \in Nat /\ read <= read'
    BY <1>2, <2>3
  <2>9. QED
    BY <1>2, <2>3, <2>4, <2>7, <2>8, EnterKeeps
<1>3. QED
  BY <1>1, <1>2 DEF BuildUpdateTree

\* The parent takes the node out of node_refs.
LEMMA AppendByIndexKeeps ==
  ASSUME IInv, AppendByIndex
  PROVE  IInv' /\ (Moves \/ Fail)
<1>1. /\ stack # <<>> /\ Typed /\ Once /\ stack \in Seq(Frame)
      /\ UNCHANGED <<model, read, child_nodes, updaters, root>>
  BY DEF AppendByIndex, MoreBranches, IInv, Typed
<1>2. built = NoNode /\ root = NoNode /\ read \in Nat
  BY <1>1, Inside
<1>3. PICK i : i = Branch.index
  OBVIOUS
<1>4. ~ Top.in_update /\ i \in DOMAIN node_refs /\ Refs = node_refs
  BY <1>3 DEF AppendByIndex, Refs, NoRefs
<1>5. PICK c \in Configs : c = node_refs[i]
  BY <1>1, <1>4 DEF Typed
<1>6. HandOver(stack, c) /\ node_refs' = Without(node_refs, i)
  BY <1>3, <1>4, <1>5 DEF AppendByIndex
<1>7. Turned(stack)
  BY <1>1, <1>6, HandOverTurned
<1>8. PICK K, X, N :
        K # "stack" /\ Takes(stack, built, stack', built', K, X, N, c)
  BY <1>1, <1>2, <1>6, HandOverAt
<1>9. At("ref", i, 0, c)
  BY <1>4, <1>5 DEF At, Kept
<1>10. \A kind, x, k : At(kind, x, k, c) => kind = "ref" /\ x = i /\ k = 0
  BY <1>1, <1>9, Zenon DEF Once
<1>11. \A kind, x, k : \A d \in Configs :
         Kept(kind, x, k, d)' <=> Kept(kind, x, k, d) /\ ~ (kind = "ref" /\ x = i)
  <2>1. /\ \A x : x \in DOMAIN node_refs' <=> x \in DOMAIN node_refs /\ x # i
        /\ \A x \in DOMAIN node_refs' : node_refs'[x] = node_refs[x]
        /\ child_nodes' = child_nodes /\ updaters' = updaters /\ root' = root
    BY <1>1, <1>6 DEF Without
  <2>2. QED
    BY <2>1 DEF Kept
<1>12. \A kind, x, k : \A d \in Configs :
         Working(stack, built, kind, x, k, d) => kind # "ref"
  BY DEF Working, InFrame
<1>13. \A x, k : \A d \in Configs : d # c => ~ Kept("ref", i, k, d)
  BY <1>5 DEF Kept
<1>14. Puts(K, X, N, c)
  <2> SUFFICES ASSUME NEW kind, NEW x, NEW k, NEW d \in Configs
               PROVE  At(kind, x, k, d)' <=> \/ At(kind, x, k, d) /\ d # c
                                             \/ kind = K /\ x = X /\ k = N /\ d = c
    BY DEF Puts
  <2>1. Working(stack, built, kind, x, k, d)'
          <=> \/ Working(stack, built, kind, x, k, d)
              \/ kind = K /\ x = X /\ k = N /\ d = c
    BY <1>8, Zenon DEF Takes
  <2>2. CASE d = c
    <3>1. ~ Working(stack, built, kind, x, k, d)
      BY <1>10, <1>12, <2>2 DEF At
    <3>2. ~ Kept(kind, x, k, d)'
      BY <1>10, <1>11, <2>2 DEF At
    <3>3. QED
      BY <2>1, <2>2, <3>1, <3>2 DEF At
  <2>3. CASE d # c
    <3>1. Kept(kind, x, k, d)' <=> Kept(kind, x, k, d)
      BY <1>11, <1>13, <2>3
    <3>2. QED
      BY <2>1, <2>3, <3>1 DEF At
  <2>4. QED
    BY <2>2, <2>3
<1>15. \A d \in Configs : Passed(d) => Passed(d)'
  <2>1. read' \in Nat /\ read <= read'
    BY <1>1, <1>2
  <2>2. \A f \in DOMAIN stack : f \in DOMAIN stack /\ stack[f] = stack[f]
    OBVIOUS
  <2>3. QED
    BY <1>1, <1>7, <2>1, <2>2, PassedStays
<1>16. Passed(c)'
  <2>1. Located(c)
    BY <1>9, Zenon DEF Located
  <2>2. QED
    BY <1>15, <2>1 DEF IInv
<1>17. Typed' /\ Control'
  <2>1. /\ stack' \in Seq(Frame) /\ built' = built /\ Len(stack') = Len(stack)
    BY <1>1, <1>6, HandOverFacts
  <2>2. \A j \in DOMAIN node_refs' : node_refs'[j] \in Configs
    BY <1>1, <1>6 DEF Typed, Without
  <2>3. QED
    BY <1>1, <1>2, <2>1, <2>2 DEF Typed, Control
<1>18. Owned(c)
  BY <1>9, Zenon DEF Owned
<1>19. DOMAIN child_nodes' \subseteq DOMAIN child_nodes \cup {c}
  BY <1>1
<1>20. QED
  BY <1>8, <1>14, <1>15, <1>16, <1>17, <1>18, <1>19, PutIn

\* Without the innermost call its children and its own place are missing.
LEMMA PopAt ==
  ASSUME stack \in Seq(Frame), stack # <<>>, NEW b
  PROVE  /\ Front(stack) \in Seq(Frame)
         /\ DOMAIN Front(stack) = DOMAIN stack \ {Len(stack)}
         /\ \A f \in DOMAIN Front(stack) : Front(stack)[f] = stack[f]
         /\ \A kind, x, k : \A d \in Configs :
              Working(stack, b, kind, x, k, d)
                <=> \/ Working(Front(stack), b, kind, x, k, d)
                    \/ InFrame(stack[Len(stack)], Len(stack), kind, x, k, d)
<1> DEFINE fs == Front(stack)
           n == Len(stack)
<1>1. /\ fs \in Seq(Frame) /\ DOMAIN fs = 1 .. n - 1 /\ n \in Nat /\ n > 0
      /\ DOMAIN stack = 1 .. n
      /\ \A f \in DOMAIN fs : fs[f] = stack[f]
  BY DEF Front
<1>2. \A f : f \in DOMAIN stack <=> f \in DOMAIN fs \/ f = n
  BY <1>1
<1>3. DOMAIN fs = DOMAIN stack \ {n}
  BY <1>1
<1> HIDE DEF fs, n
<1>4. ASSUME NEW kind, NEW x, NEW k, NEW d \in Configs
      PROVE  Working(stack, b, kind, x, k, d)
               <=> \/ Working(fs, b, kind, x, k, d)
                   \/ InFrame(stack[n], n, kind, x, k, d)
  <2>1. ASSUME NEW f
        PROVE  f \in DOMAIN stack /\ InFrame(stack[f], f, kind, x, k, d)
                 <=> \/ f \in DOMAIN fs /\ InFrame(fs[f], f, kind, x, k, d)
                     \/ f = n /\ InFrame(stack[n], n, kind, x, k, d)
    BY <1>1, <1>2
  <2>2. QED
    BY <2>1 DEF Working
<1>5. QED
  BY <1>1, <1>3, <1>4 DEF fs, n

\* The node leaves the stack with its children.
LEMMA FinishBranchKeeps ==
  ASSUME IInv, FinishBranch
  PROVE  IInv' /\ (Moves \/ Fail)
<1>1. CASE Fail
  BY <1>1, FailKeeps
<1>2. ASSUME NEW top, top = Top, NEW c, c = top.node, NEW fs, fs = Front(stack),
             child_nodes' = Extended(child_nodes, c, top.children),
             updaters' = Extended(updaters, c, top.updaters),
             HandOver(fs, c), UNCHANGED <<model, read, node_refs, root>>
      PROVE  IInv' /\ Moves
  <2>1. stack # <<>> /\ Typed /\ Once /\ stack \in Seq(Frame)
    BY DEF FinishBranch, IInv, Typed
  <2>2. built = NoNode /\ root = NoNode /\ read \in Nat
    BY <2>1, Inside
  <2>3. PICK n : n = Len(stack)
    OBVIOUS
  <2>4. /\ n \in DOMAIN stack /\ top = stack[n] /\ top \in Frame
        /\ c \in Configs /\ n # 0
    BY <1>2, <2>1, <2>3, TopFacts
  <2>5. At("stack", n, 0, c) /\ c \notin DOMAIN child_nodes
    BY <1>2, <2>4, StackOnce
  <2>6. \A kind, x, k : At(kind, x, k, c) => kind = "stack" /\ x = n /\ k = 0
    BY <2>1, <2>4, <2>5, Zenon DEF Once
  <2>7. /\ fs \in Seq(Frame) /\ DOMAIN fs = DOMAIN stack \ {n}
        /\ \A f \in DOMAIN fs : fs[f] = stack[f]
        /\ \A kind, x, k : \A d \in Configs :
             Working(stack, built, kind, x, k, d)
               <=> \/ Working(fs, built, kind, x, k, d)
                   \/ InFrame(top, n, kind, x, k, d)
    BY <1>2, <2>1, <2>3, <2>4, PopAt
  <2>8. Turned(fs)
    BY <1>2, <2>4, <2>7, HandOverTurned
  <2>9. PICK K, X, N :
          K # "stack" /\ Takes(fs, built, stack', built', K, X, N, c)
    BY <1>2, <2>2, <2>4, <2>7, HandOverAt
  <2>10. \A kind, x, k : \A d \in Configs :
           Kept(kind, x, k, d)'
             <=> \/ Kept(kind, x, k, d)
                 \/ kind # "stack" /\ InFrame(top, n, kind, x, k, d)
    <3>1. /\ DOMAIN updaters = DOMAIN child_nodes
          /\ DOMAIN child_nodes' = DOMAIN child_nodes \cup {c}
          /\ child_nodes'[c] = top.children /\ updaters'[c] = top.updaters
          /\ \A x \in DOMAIN child_nodes :
               child_nodes'[x] = child_nodes[x] /\ updaters'[x] = updaters[x]
      BY <1>2, <2>1, <2>5 DEF Extended, Typed
    <3>2. node_refs' = node_refs /\ root' = root
      BY <1>2
    <3>3. \A x : x \in DOMAIN child_nodes' <=> x \in DOMAIN child_nodes \/ x = c
      BY <3>1
    <3>4. ASSUME NEW x, NEW k, NEW d
          PROVE  /\ Kept("child", x, k, d)'
                      <=> \/ Kept("child", x, k, d)
                          \/ x = c /\ k \in DOMAIN top.children /\ top.children[k] = d
                 /\ Kept("updater", x, k, d)'
                      <=> \/ Kept("updater", x, k, d)
                          \/ x = c /\ k \in DOMAIN top.updaters /\ top.updaters[k] = d
      BY <2>5, <3>1, <3>3 DEF Kept
    <3>5. ASSUME NEW kind, NEW x, NEW k, NEW d, kind # "child", kind # "updater"
          PROVE  Kept(kind, x, k, d)' <=> Kept(kind, x, k, d)
      BY <3>2, <3>5 DEF Kept
    <3>6. SUFFICES ASSUME NEW kind, NEW x, NEW k, NEW d \in Configs
                   PROVE  Kept(kind, x, k, d)'
                            <=> \/ Kept(kind, x, k, d)
                                \/ kind # "stack" /\ InFrame(top, n, kind, x, k, d)
      OBVIOUS
    <3>7. CASE kind = "child"
      BY <1>2, <3>4, <3>7 DEF InFrame
    <3>8. CASE kind = "updater"
      BY <1>2, <3>4, <3>8 DEF InFrame
    <3>9. CASE kind # "child" /\ kind # "updater"
      BY <3>5, <3>9 DEF InFrame
    <3>10. QED
      BY <3>7, <3>8, <3>9
  <2>11. \A x, k : \A d \in Configs :
           InFrame(top, n, "stack", x, k, d) <=> x = n /\ k = 0 /\ d = c
    BY <1>2 DEF InFrame
  <2>12. ~ Working(fs, built, "stack", n, 0, c)
    BY <2>7 DEF Working, InFrame
  <2>13. ~ Kept("stack", n, 0, c)
    BY DEF Kept
  <2>14. Puts(K, X, N, c)
    <3> SUFFICES ASSUME NEW kind, NEW x, NEW k, NEW d \in Configs
                 PROVE  At(kind, x, k, d)' <=> \/ At(kind, x, k, d) /\ d # c
                                               \/ kind = K /\ x = X /\ k = N /\ d = c
      BY DEF Puts
    <3>1. Working(stack, built, kind, x, k, d)'
            <=> \/ Working(fs, built, kind, x, k, d)
                \/ kind = K /\ x = X /\ k = N /\ d = c
      BY <2>9, Zenon DEF Takes
    <3>2. At(kind, x, k, d)
            <=> \/ Working(fs, built, kind, x, k, d)
                \/ InFrame(top, n, kind, x, k, d) \/ Kept(kind, x, k, d)
      BY <2>7, Zenon DEF At
    <3>3. CASE d = c
      <4>1. ~ Working(fs, built, kind, x, k, d) /\ ~ Kept(kind, x, k, d)
            /\ ~ (kind # "stack" /\ InFrame(top, n, kind, x, k, d))
        BY <2>6, <2>12, <2>13, <3>2, <3>3
      <4>2. QED
        BY <2>10, <3>1, <3>3, <4>1, Zenon DEF At
    <3>4. CASE d # c
      <4>1. kind = "stack" => ~ InFrame(top, n, kind, x, k, d)
        BY <2>11, <3>4
      <4>2. QED
        BY <2>10, <3>1, <3>2, <3>4, <4>1, Zenon DEF At
    <3>5. QED
      BY <3>3, <3>4
  <2>15. DOMAIN child_nodes' = DOMAIN child_nodes \cup {c}
         /\ DOMAIN updaters' = DOMAIN updaters \cup {c}
    BY <1>2 DEF Extended
  <2>16. \A d \in Configs : Passed(d) => Passed(d)'
    <3>1. read' \in Nat /\ read <= read' /\ model' = model
      BY <1>2, <2>2
    <3>2. \A f \in DOMAIN stack :
            \/ f \in DOMAIN fs /\ fs[f] = stack[f]
            \/ stack[f].node \in DOMAIN child_nodes'
      BY <1>2, <2>4, <2>7, <2>15
    <3>3. DOMAIN child_nodes \subseteq DOMAIN child_nodes'
      BY <2>15
    <3>4. QED
      BY <2>1, <2>7, <2>8, <3>1, <3>2, <3>3, PassedStays
  <2>17. Passed(c)'
    <3>1. Located(c)
      BY <2>5, Zenon DEF Located
    <3>2. QED
      BY <2>4, <2>16, <3>1 DEF IInv
  <2>18. Typed' /\ Control'
    <3>1. /\ stack' \in Seq(Frame) /\ built' \in Configs \cup {NoNode}
          /\ built' # NoNode => stack' = <<>>
      <4>1. CASE fs = <<>>
        BY <1>2, <2>4, <2>7, <4>1 DEF HandOver
      <4>2. CASE fs # <<>>
        BY <1>2, <2>2, <2>4, <2>7, <4>2, HandOverFacts
      <4>3. QED
        BY <4>1, <4>2
    <3>2. QED
      BY <1>2, <2>1, <2>2, <2>4, <2>15, <3>1 DEF Typed, Control
  <2>19. Grown(c)'
    BY <2>15 DEF Grown
  <2>20. QED
    BY <2>4, <2>9, <2>14, <2>15, <2>16, <2>17, <2>18, <2>19, PutIn
<1>3. CASE /\ child_nodes' = Extended(child_nodes, Top.node, Top.children)
           /\ updaters' = Extended(updaters, Top.node, Top.updaters)
           /\ HandOver(Front(stack), Top.node)
           /\ UNCHANGED <<model, status, read, node_refs, root>>
  <2>1. PICK top, c, fs : top = Top /\ c = top.node /\ fs = Front(stack)
    OBVIOUS
  <2>2. QED
    BY <1>2, <1>3, <2>1
<1>4. QED
  BY <1>1, <1>3 DEF FinishBranch

\* Labeler::Build puts a node away.
LEMMA StoreKeeps ==
  ASSUME IInv, Store
  PROVE  IInv' /\ (Moves \/ Fail)
<1>1. /\ Typed /\ Control /\ Once /\ built \in Configs /\ built # NoNode
      /\ stack = <<>> /\ root = NoNode /\ NoNode \notin Configs
  BY ModelsAssumption DEF Store, IInv, Typed, Control
<1>2. PICK c \in Configs : c = built
  BY <1>1
<1>3. CASE Fail
  BY <1>3, FailKeeps
<1>4. ASSUME built' = NoNode,
             UNCHANGED <<model, read, stack, child_nodes, updaters>>,
             NEW K, NEW X, K # "stack", Puts(K, X, 0, c), Typed', Control'
      PROVE  IInv' /\ Moves
  <2>1. Turned(stack)
    BY <1>1 DEF Turned
  <2>2. \A d \in Configs : Passed(d) => Passed(d)'
    <3>1. read' \in Nat /\ read <= read' /\ stack \in Seq(Frame)
      BY <1>1, <1>4 DEF Typed
    <3>2. \A f \in DOMAIN stack : f \in DOMAIN stack /\ stack[f] = stack[f]
      OBVIOUS
    <3>3. QED
      BY <1>1, <1>4, <2>1, <3>1, <3>2, PassedStays
  <2>3. At("built", 0, 0, c)
    BY <1>2 DEF At, Working
  <2>4. Located(c)
    BY <2>3, Zenon DEF Located
  <2>5. Passed(c)'
    BY <2>2, <2>4 DEF IInv
  <2>6. DOMAIN child_nodes' \subseteq DOMAIN child_nodes \cup {c}
    BY <1>4
  <2>7. Owned(c)
    BY <2>3, Zenon DEF Owned
  <2>8. QED
    BY <1>4, <2>2, <2>5, <2>6, <2>7, PutIn
<1>5. \A kind, x, k : ~ (kind = "built" /\ x = 0 /\ k = 0) => ~ At(kind, x, k, c)
  <2>1. At("built", 0, 0, c)
    BY <1>2 DEF At, Working
  <2>2. QED
    BY <1>1, <2>1, Zenon DEF Once
<1>6. \A kind, x, k : \A d \in Configs :
        Working(stack, built, kind, x, k, d)
          <=> kind = "built" /\ x = 0 /\ k = 0 /\ d = c
  BY <1>1, <1>2 DEF Working
<1>7. ASSUME built' = NoNode, stack' = stack
      PROVE  \A kind, x, k : \A d \in Configs :
               ~ Working(stack, built, kind, x, k, d)'
  BY <1>1, <1>7 DEF Working
<1>8. ASSUME NEW K, NEW X, built' = NoNode, stack' = stack,
             \A kind, x, k : \A d \in Configs :
               Kept(kind, x, k, d)' <=> \/ Kept(kind, x, k, d)
                                        \/ kind = K /\ x = X /\ k = 0 /\ d = c
      PROVE  Puts(K, X, 0, c)
  <2> SUFFICES ASSUME NEW kind, NEW x, NEW k, NEW d \in Configs
               PROVE  At(kind, x, k, d)' <=> \/ At(kind, x, k, d) /\ d # c
                                             \/ kind = K /\ x = X /\ k = 0 /\ d = c
    BY DEF Puts
  <2>1. At(kind, x, k, d)' <=> \/ Kept(kind, x, k, d)
                               \/ kind = K /\ x = X /\ k = 0 /\ d = c
    BY <1>7, <1>8, Zenon DEF At
  <2>2. ~ Kept(kind, x, k, c)
    <3>1. CASE kind = "built"
      BY <3>1 DEF Kept
    <3>2. CASE kind # "built"
      BY <1>5, <3>2 DEF At
    <3>3. QED
      BY <3>1, <3>2
  <2>3. CASE d = c
    BY <2>1, <2>2, <2>3
  <2>4. CASE d # c
    <3>1. ~ Working(stack, built, kind, x, k, d)
      BY <1>6, <2>4
    <3>2. QED
      BY <2>1, <2>4, <3>1 DEF At
  <2>5. QED
    BY <2>3, <2>4
<1>9. ASSUME built' = NoNode, NEW i, i \notin DOMAIN node_refs,
             node_refs' = Extended(node_refs, i, c), root' = root,
             UNCHANGED <<model, read, stack, child_nodes, updaters>>
      PROVE  IInv' /\ Moves
  <2>1. /\ \A j : j \in DOMAIN node_refs' <=> j \in DOMAIN node_refs \/ j = i
        /\ \A j \in DOMAIN node_refs : node_refs'[j] = node_refs[j]
        /\ node_refs'[i] = c
        /\ child_nodes' = child_nodes /\ updaters' = updaters
    BY <1>9 DEF Extended
  <2>2. \A kind, x, k : \A d \in Configs :
          Kept(kind, x, k, d)' <=> \/ Kept(kind, x, k, d)
                                   \/ kind = "ref" /\ x = i /\ k = 0 /\ d = c
    BY <1>9, <2>1 DEF Kept
  <2>3. Puts("ref", i, 0, c)
    BY <1>8, <1>9, <2>2
  <2>4. Typed' /\ Control'
    BY <1>1, <1>9, <2>1 DEF Typed, Control
  <2>5. QED
    BY <1>4, <1>9, <2>3, <2>4
<1>10. ASSUME built' = NoNode, root' = c, node_refs' = node_refs,
              UNCHANGED <<model, read, stack, child_nodes, updaters>>
       PROVE  IInv' /\ Moves
  <2>1. \A kind, x, k : \A d \in Configs :
          Kept(kind, x, k, d)' <=> \/ Kept(kind, x, k, d)
                                   \/ kind = "root" /\ x = 0 /\ k = 0 /\ d = c
    BY <1>1, <1>10 DEF Kept
  <2>2. Puts("root", 0, 0, c)
    BY <1>8, <1>10, <2>1
  <2>3. Typed' /\ Control'
    BY <1>1, <1>10 DEF Typed, Control
  <2>4. QED
    BY <1>4, <1>10, <2>2, <2>3
<1>11. CASE ~ Fail
  <2>1. PICK i : i = model.index[built]
    OBVIOUS
  <2>2. \/ /\ i \notin DOMAIN node_refs
           /\ node_refs' = Extended(node_refs, i, c) /\ root' = root
        \/ root' = c /\ node_refs' = node_refs
    BY <1>2, <1>11, <2>1 DEF Store
  <2>3. /\ built' = NoNode
        /\ UNCHANGED <<model, read, stack, child_nodes, updaters>>
    BY <1>11 DEF Store
  <2>4. QED
    BY <1>9, <1>10, <2>2, <2>3
<1>12. QED
  BY <1>3, <1>11

LEMMA StutterKeeps ==
  ASSUME IInv,
         UNCHANGED <<model, read, stack, built, node_refs, child_nodes, updaters,
                     root>>
  PROVE  IInv' /\ Moves
<1>1. /\ model' = model /\ read' = read /\ stack' = stack /\ built' = built
      /\ node_refs' = node_refs /\ child_nodes' = child_nodes
      /\ updaters' = updaters /\ root' = root
  OBVIOUS
<1>2. Typed' /\ Control'
  BY <1>1 DEF IInv, Typed, Control
<1>3. \A kind, x, k : \A c \in Configs : At(kind, x, k, c)' <=> At(kind, x, k, c)
  BY <1>1 DEF At, Working, Kept
<1>4. Once'
  <2>1. Once
    BY DEF IInv
  <2>2. SUFFICES ASSUME NEW c \in Configs, NEW kind, NEW x, NEW k,
                        NEW kind2, NEW x2, NEW k2,
                        At(kind, x, k, c)', At(kind2, x2, k2, c)'
                 PROVE  kind = kind2 /\ x = x2 /\ k = k2
    BY DEF Once
  <2>3. At(kind, x, k, c) /\ At(kind2, x2, k2, c)
    BY <1>3, <2>2, Zenon
  <2>4. QED
    BY <2>1, <2>3, Zenon DEF Once
<1>5. \A c \in Configs : /\ Located(c)' <=> Located(c)
                         /\ Owned(c)' <=> Owned(c)
  BY <1>3, Zenon DEF Located, Owned
<1>6. \A c \in Configs : Passed(c)' <=> Passed(c)
  BY <1>1 DEF Passed, BranchPassed, UpdatePassed, BranchTurn, UpdateTurn,
              LacksChildren
<1>7. \A c \in DOMAIN child_nodes : c \in Configs
  BY DEF IInv, Typed
<1>8. Moves
  BY <1>5, Zenon DEF Moves
<1>9. QED
  BY <1>1, <1>2, <1>4, <1>5, <1>6, <1>7, <1>8, Zenon DEF IInv

\* The end of the list: the root may come out of node_refs.
LEMMA FinishKeeps ==
  ASSUME IInv, Finish
  PROVE  IInv' /\ (Moves \/ Fail)
<1>1. CASE Fail
  BY <1>1, FailKeeps
<1>2. CASE UNCHANGED <<model, read, stack, built, node_refs, child_nodes, updaters,
                       root>>
  BY <1>2, StutterKeeps
<1>3. ASSUME NEW i \in DOMAIN node_refs, NEW c, c = node_refs[i], root = NoNode,
             root' = c, node_refs' = Without(node_refs, i),
             UNCHANGED <<model, read, stack, built, child_nodes, updaters>>
      PROVE  IInv' /\ Moves
  <2>1. /\ Typed /\ Control /\ Once /\ c \in Configs /\ stack = <<>>
        /\ built = NoNode /\ NoNode \notin Configs
    BY <1>3, ModelsAssumption DEF Finish, IInv, Typed
  <2>2. At("ref", i, 0, c)
    BY <1>3 DEF At, Kept
  <2>3. \A kind, x, k : At(kind, x, k, c) => kind = "ref" /\ x = i /\ k = 0
    BY <2>1, <2>2, Zenon DEF Once
  <2>4. /\ \A j : j \in DOMAIN node_refs' <=> j \in DOMAIN node_refs /\ j # i
        /\ \A j \in DOMAIN node_refs' : node_refs'[j] = node_refs[j]
        /\ child_nodes' = child_nodes /\ updaters' = updaters
        /\ stack' = stack /\ built' = built
    BY <1>3 DEF Without
  <2>5. \A kind, x, k : \A d \in Configs :
          ~ Working(stack, built, kind, x, k, d)
            /\ ~ Working(stack, built, kind, x, k, d)'
    BY <2>1, <2>4 DEF Working
  <2>6. Puts("root", 0, 0, c)
    <3> SUFFICES ASSUME NEW kind, NEW x, NEW k, NEW d \in Configs
                 PROVE  At(kind, x, k, d)'
                          <=> \/ At(kind, x, k, d) /\ d # c
                              \/ kind = "root" /\ x = 0 /\ k = 0 /\ d = c
      BY DEF Puts
    <3>1. Kept(kind, x, k, d)'
            <=> \/ Kept(kind, x, k, d) /\ ~ (kind = "ref" /\ x = i)
                \/ kind = "root" /\ x = 0 /\ k = 0 /\ d = c
      BY <1>3, <2>1, <2>4 DEF Kept
    <3>2. CASE d = c
      BY <2>3, <2>5, <3>1, <3>2 DEF At
    <3>3. CASE d # c
      <4>1. kind = "ref" /\ x = i => ~ Kept(kind, x, k, d)
        BY <1>3, <3>3 DEF Kept
      <4>2. QED
        BY <2>5, <3>1, <3>3, <4>1 DEF At
    <3>4. QED
      BY <3>2, <3>3
  <2>7. Typed' /\ Control'
    BY <1>3, <2>1, <2>4 DEF Typed, Control
  <2>8. Turned(stack)
    BY <2>1 DEF Turned
  <2>9. \A d \in Configs : Passed(d) => Passed(d)'
    <3>1. read' \in Nat /\ read <= read' /\ stack \in Seq(Frame) /\ model' = model
      BY <1>3, <2>1 DEF Typed
    <3>2. \A f \in DOMAIN stack : f \in DOMAIN stack /\ stack[f] = stack[f]
      OBVIOUS
    <3>3. QED
      BY <2>1, <2>4, <2>8, <3>1, <3>2, PassedStays
  <2>10. Passed(c)'
    <3>1. Located(c)
      BY <2>2, Zenon DEF Located
    <3>2. QED
      BY <2>1, <2>9, <3>1 DEF IInv
  <2>11. DOMAIN child_nodes' \subseteq DOMAIN child_nodes \cup {c}
    BY <2>4
  <2>12. Owned(c)
    BY <2>2, Zenon DEF Owned
  <2>13. QED
    BY <2>1, <2>6, <2>7, <2>9, <2>10, <2>11, <2>12, PutIn
<1>4. QED
  BY <1>1, <1>2, <1>3 DEF Finish
-----------------------------------------------------------------------------
\* The owner p in OwnedOnce is the place with this name.
Names(p, kind, x, k) ==
  \/ kind = "ref" /\ p = <<"ref", x, 0>>
  \/ kind = "child" /\ x \in DOMAIN child_nodes /\ p = <<"child", x, k>>
  \/ kind = "updater" /\ x \in DOMAIN child_nodes /\ p = <<"updater", x, k>>
  \/ /\ kind = "child"
     /\ \E f \in DOMAIN stack : x = stack[f].node /\ p = <<"new child", f, k>>
  \/ /\ kind = "updater"
     /\ \E f \in DOMAIN stack : x = stack[f].node /\ p = <<"new updater", f, k>>
  \/ kind = "built" /\ p = <<"built", 0, 1>>
  \/ kind = "root" /\ p = <<"root", 0, 1>>

LEMMA OneName ==
  ASSUME IInv, NEW kind, NEW x, NEW k, NEW p, NEW q,
         Names(p, kind, x, k), Names(q, kind, x, k)
  PROVE  p = q
<1>1. \A f, g \in DOMAIN stack :
        /\ stack[f].node \notin DOMAIN child_nodes
        /\ stack[g].node = stack[f].node => g = f
  BY StackOnce
<1> DEFINE Calls(r, tag) ==
             \E f \in DOMAIN stack : x = stack[f].node /\ r = <<tag, f, k>>
<1>2. ASSUME NEW tag, NEW r, NEW s, Calls(r, tag)
      PROVE  x \notin DOMAIN child_nodes /\ (Calls(s, tag) => r = s)
  BY <1>1, <1>2, Zenon
<1> HIDE DEF Calls
<1>3. CASE kind \in {"ref", "built", "root"}
  <2>1. kind # "child" /\ kind # "updater"
    BY <1>3
  <2>2. \/ kind = "ref" /\ p = <<"ref", x, 0>>
        \/ kind = "built" /\ p = <<"built", 0, 1>>
        \/ kind = "root" /\ p = <<"root", 0, 1>>
    BY <2>1, Zenon DEF Names
  <2>3. \/ kind = "ref" /\ q = <<"ref", x, 0>>
        \/ kind = "built" /\ q = <<"built", 0, 1>>
        \/ kind = "root" /\ q = <<"root", 0, 1>>
    BY <2>1, Zenon DEF Names
  <2>4. QED
    BY <2>2, <2>3
<1>4. CASE kind = "child"
  <2>1. \/ x \in DOMAIN child_nodes /\ p = <<"child", x, k>>
        \/ Calls(p, "new child")
    BY <1>4 DEF Names, Calls
  <2>2. \/ x \in DOMAIN child_nodes /\ q = <<"child", x, k>>
        \/ Calls(q, "new child")
    BY <1>4 DEF Names, Calls
  <2>3. QED
    BY <1>2, <2>1, <2>2
<1>5. CASE kind = "updater"
  <2>1. \/ x \in DOMAIN child_nodes /\ p = <<"updater", x, k>>
        \/ Calls(p, "new updater")
    BY <1>5 DEF Names, Calls
  <2>2. \/ x \in DOMAIN child_nodes /\ q = <<"updater", x, k>>
        \/ Calls(q, "new updater")
    BY <1>5 DEF Names, Calls
  <2>3. QED
    BY <1>2, <2>1, <2>2
<1>6. kind \in {"ref", "built", "root"} \/ kind = "child" \/ kind = "updater"
  BY Zenon DEF Names
<1>7. QED
  BY <1>3, <1>4, <1>5, <1>6

LEMMA InOwners ==
  ASSUME NEW c, NEW p
  PROVE  p \in Owners(c) <=>
           \/ p \in { <<"ref", i, 0>> : i \in {j \in DOMAIN node_refs : node_refs[j] = c} }
           \/ \E d \in DOMAIN child_nodes : p \in Slots("child", d, child_nodes[d], c)
           \/ \E d \in DOMAIN updaters : p \in Slots("updater", d, updaters[d], c)
           \/ \E f \in DOMAIN stack : p \in Slots("new child", f, stack[f].children, c)
           \/ \E f \in DOMAIN stack : p \in Slots("new updater", f, stack[f].updaters, c)
           \/ p \in Slots("built", 0, <<built>>, c) \/ p \in Slots("root", 0, <<root>>, c)
<1> DEFINE refs ==
             { <<"ref", i, 0>> : i \in {j \in DOMAIN node_refs : node_refs[j] = c} }
           A == UNION {Slots("child", d, child_nodes[d], c) : d \in DOMAIN child_nodes}
           B == UNION {Slots("updater", d, updaters[d], c) : d \in DOMAIN updaters}
           C == UNION {Slots("new child", f, stack[f].children, c) :
                         f \in DOMAIN stack}
           D == UNION {Slots("new updater", f, stack[f].updaters, c) :
                         f \in DOMAIN stack}
<1>1. Owners(c) = refs \cup A \cup B \cup C \cup D
                    \cup Slots("built", 0, <<built>>, c)
                    \cup Slots("root", 0, <<root>>, c)
  BY Zenon DEF Owners
<1>2. p \in A <=> \E d \in DOMAIN child_nodes : p \in Slots("child", d, child_nodes[d], c)
  OBVIOUS
<1>3. p \in B <=> \E d \in DOMAIN updaters : p \in Slots("updater", d, updaters[d], c)
  OBVIOUS
<1>4. p \in C <=> \E f \in DOMAIN stack : p \in Slots("new child", f, stack[f].children, c)
  OBVIOUS
<1>5. p \in D <=> \E f \in DOMAIN stack : p \in Slots("new updater", f, stack[f].updaters, c)
  OBVIOUS
<1> HIDE DEF A, B, C, D
<1>6. p \in Owners(c) <=> \/ p \in refs \/ p \in A \/ p \in B \/ p \in C \/ p \in D
                          \/ p \in Slots("built", 0, <<built>>, c)
                          \/ p \in Slots("root", 0, <<root>>, c)
  BY <1>1, Zenon
<1>7. QED
  BY <1>2, <1>3, <1>4, <1>5, <1>6, Zenon

LEMMA OwnersAreAt ==
  ASSUME IInv, NEW c \in Configs, NEW p \in Owners(c)
  PROVE  \E kind, x, k : At(kind, x, k, c) /\ Names(p, kind, x, k)
<1>0. DOMAIN updaters = DOMAIN child_nodes
  BY DEF IInv, Typed
<1>1. CASE p \in { <<"ref", i, 0>> : i \in {j \in DOMAIN node_refs : node_refs[j] = c} }
  <2>1. PICK i \in DOMAIN node_refs : node_refs[i] = c /\ p = <<"ref", i, 0>>
    BY <1>1
  <2>2. At("ref", i, 0, c) /\ Names(p, "ref", i, 0)
    BY <2>1 DEF At, Kept, Names
  <2>3. QED
    BY <2>2, Zenon
<1>2. ASSUME NEW d \in DOMAIN child_nodes, p \in Slots("child", d, child_nodes[d], c)
      PROVE  \E kind, x, k : At(kind, x, k, c) /\ Names(p, kind, x, k)
  <2>1. PICK k \in DOMAIN child_nodes[d] :
          child_nodes[d][k] = c /\ p = <<"child", d, k>>
    BY <1>2 DEF Slots
  <2>2. At("child", d, k, c) /\ Names(p, "child", d, k)
    BY <2>1 DEF At, Kept, Names
  <2>3. QED
    BY <2>2, Zenon
<1>3. ASSUME NEW d \in DOMAIN updaters, p \in Slots("updater", d, updaters[d], c)
      PROVE  \E kind, x, k : At(kind, x, k, c) /\ Names(p, kind, x, k)
  <2>1. PICK k \in DOMAIN updaters[d] : updaters[d][k] = c /\ p = <<"updater", d, k>>
    BY <1>3 DEF Slots
  <2>2. At("updater", d, k, c) /\ Names(p, "updater", d, k)
    BY <1>0, <2>1 DEF At, Kept, Names
  <2>3. QED
    BY <2>2, Zenon
<1>4. ASSUME NEW f \in DOMAIN stack,
             p \in Slots("new child", f, stack[f].children, c)
      PROVE  \E kind, x, k : At(kind, x, k, c) /\ Names(p, kind, x, k)
  <2>1. PICK k \in DOMAIN stack[f].children :
          stack[f].children[k] = c /\ p = <<"new child", f, k>>
    BY <1>4 DEF Slots
  <2>2. PICK d : d = stack[f].node
    OBVIOUS
  <2>3. InFrame(stack[f], f, "child", d, k, c)
    BY <2>1, <2>2 DEF InFrame
  <2>4. At("child", d, k, c)
    BY <2>3, Zenon DEF At, Working
  <2>5. Names(p, "child", d, k)
    BY <2>1, <2>2, Zenon DEF Names
  <2>6. QED
    BY <2>4, <2>5, Zenon
<1>5. ASSUME NEW f \in DOMAIN stack,
             p \in Slots("new updater", f, stack[f].updaters, c)
      PROVE  \E kind, x, k : At(kind, x, k, c) /\ Names(p, kind, x, k)
  <2>1. PICK k \in DOMAIN stack[f].updaters :
          stack[f].updaters[k] = c /\ p = <<"new updater", f, k>>
    BY <1>5 DEF Slots
  <2>2. PICK d : d = stack[f].node
    OBVIOUS
  <2>3. InFrame(stack[f], f, "updater", d, k, c)
    BY <2>1, <2>2 DEF InFrame
  <2>4. At("updater", d, k, c)
    BY <2>3, Zenon DEF At, Working
  <2>5. Names(p, "updater", d, k)
    BY <2>1, <2>2, Zenon DEF Names
  <2>6. QED
    BY <2>4, <2>5, Zenon
<1>6. CASE p \in Slots("built", 0, <<built>>, c)
  <2>1. built = c /\ p = <<"built", 0, 1>>
    BY <1>6 DEF Slots
  <2>2. At("built", 0, 0, c) /\ Names(p, "built", 0, 0)
    BY <2>1 DEF At, Working, Names
  <2>3. QED
    BY <2>2, Zenon
<1>7. CASE p \in Slots("root", 0, <<root>>, c)
  <2>1. root = c /\ p = <<"root", 0, 1>>
    BY <1>7 DEF Slots
  <2>2. At("root", 0, 0, c) /\ Names(p, "root", 0, 0)
    BY <2>1 DEF At, Kept, Names
  <2>3. QED
    BY <2>2, Zenon
<1>8. \/ p \in { <<"ref", i, 0>> : i \in {j \in DOMAIN node_refs : node_refs[j] = c} }
      \/ \E d \in DOMAIN child_nodes : p \in Slots("child", d, child_nodes[d], c)
      \/ \E d \in DOMAIN updaters : p \in Slots("updater", d, updaters[d], c)
      \/ \E f \in DOMAIN stack : p \in Slots("new child", f, stack[f].children, c)
      \/ \E f \in DOMAIN stack : p \in Slots("new updater", f, stack[f].updaters, c)
      \/ p \in Slots("built", 0, <<built>>, c) \/ p \in Slots("root", 0, <<root>>, c)
  BY InOwners, Zenon
<1>9. QED
  BY <1>1, <1>2, <1>3, <1>4, <1>5, <1>6, <1>7, <1>8, Zenon

LEMMA OwnedHasOwner ==
  ASSUME IInv, NEW c \in Configs, NEW kind, NEW x, NEW k,
         kind # "stack", At(kind, x, k, c)
  PROVE  Owners(c) # {}
<1>0. DOMAIN updaters = DOMAIN child_nodes
  BY DEF IInv, Typed
<1>1. CASE Kept(kind, x, k, c)
  <2>1. CASE x \in DOMAIN node_refs /\ node_refs[x] = c
    <3>1. <<"ref", x, 0>> \in Owners(c)
      BY <2>1 DEF Owners
    <3>2. QED
      BY <3>1
  <2>2. CASE /\ x \in DOMAIN child_nodes
             /\ k \in DOMAIN child_nodes[x] /\ child_nodes[x][k] = c
    <3>1. <<"child", x, k>> \in Slots("child", x, child_nodes[x], c)
      BY <2>2 DEF Slots
    <3>2. QED
      BY <2>2, <3>1, InOwners, Zenon
  <2>3. CASE /\ x \in DOMAIN child_nodes
             /\ k \in DOMAIN updaters[x] /\ updaters[x][k] = c
    <3>1. <<"updater", x, k>> \in Slots("updater", x, updaters[x], c)
      BY <2>3 DEF Slots
    <3>2. QED
      BY <1>0, <2>3, <3>1, InOwners, Zenon
  <2>4. CASE root = c
    <3>1. <<"root", 0, 1>> \in Slots("root", 0, <<root>>, c)
      BY <2>4 DEF Slots
    <3>2. QED
      BY <3>1, InOwners, Zenon
  <2>5. QED
    BY <1>1, <2>1, <2>2, <2>3, <2>4 DEF Kept
<1>2. CASE Working(stack, built, kind, x, k, c)
  <2>1. ASSUME NEW f \in DOMAIN stack,
               k \in DOMAIN stack[f].children, stack[f].children[k] = c
        PROVE  Owners(c) # {}
    <3>1. <<"new child", f, k>> \in Slots("new child", f, stack[f].children, c)
      BY <2>1 DEF Slots
    <3>2. QED
      BY <3>1, InOwners, Zenon
  <2>2. ASSUME NEW f \in DOMAIN stack,
               k \in DOMAIN stack[f].updaters, stack[f].updaters[k] = c
        PROVE  Owners(c) # {}
    <3>1. <<"new updater", f, k>> \in Slots("new updater", f, stack[f].updaters, c)
      BY <2>2 DEF Slots
    <3>2. QED
      BY <3>1, InOwners, Zenon
  <2>3. CASE built = c
    <3>1. <<"built", 0, 1>> \in Slots("built", 0, <<built>>, c)
      BY <2>3 DEF Slots
    <3>2. QED
      BY <3>1, InOwners, Zenon
  <2>4. QED
    BY <1>2, <2>1, <2>2, <2>3, Zenon DEF Working, InFrame
<1>3. QED
  BY <1>1, <1>2 DEF At

LEMMA InitKeeps ==
  ASSUME Init
  PROVE  IInv
<1>1. Typed /\ Control
  BY DEF Init, Typed, Control, NoRefs
<1>2. \A kind, x, k : \A c \in Configs : ~ At(kind, x, k, c)
  BY ModelsAssumption DEF Init, NoRefs, At, Working, Kept
<1>3. DOMAIN child_nodes = {}
  BY DEF Init, NoRefs
<1>4. Once /\ \A c \in Configs : ~ Located(c)
  BY <1>2, Zenon DEF Once, Located
<1>5. QED
  BY <1>1, <1>3, <1>4 DEF IInv

\* No node ever has two owners, and no branch node is lost, whatever indexes
\* the branches of a list or of its update trees claim, in either library.
THEOREM EveryNodeHasOneOwner == Spec => []OwnedOnce
<1>1. Init => IInv
  BY InitKeeps
<1>2. IInv /\ [Next]_vars => IInv'
  <2> SUFFICES ASSUME IInv, [Next]_vars PROVE IInv'
    OBVIOUS
  <2>1. CASE TakeNode
    BY <2>1, TakeNodeKeeps
  <2>2. CASE AppendByIndex
    BY <2>2, AppendByIndexKeeps
  <2>3. CASE AppendByNode
    BY <2>3, AppendByNodeKeeps
  <2>4. CASE NoChild
    BY <2>4, FailKeeps DEF NoChild
  <2>5. CASE BuildUpdateTree
    BY <2>5, BuildUpdateTreeKeeps
  <2>6. CASE FinishBranch
    BY <2>6, FinishBranchKeeps
  <2>7. CASE Store
    BY <2>7, StoreKeeps
  <2>8. CASE Finish
    BY <2>8, FinishKeeps
  <2>9. CASE UNCHANGED vars
    BY <2>9, StutterKeeps DEF vars
  <2>10. QED
    BY <2>1, <2>2, <2>3, <2>4, <2>5, <2>6, <2>7, <2>8, <2>9 DEF Next
<1>3. IInv => OwnedOnce
  <2> SUFFICES ASSUME IInv, NEW c \in Configs
               PROVE  /\ \A p, q \in Owners(c) : p = q
                      /\ c \in DOMAIN child_nodes => Owners(c) # {}
    BY DEF OwnedOnce
  <2>1. ASSUME NEW p \in Owners(c), NEW q \in Owners(c)
        PROVE  p = q
    <3>1. PICK kind, x, k : At(kind, x, k, c) /\ Names(p, kind, x, k)
      BY OwnersAreAt
    <3>2. PICK kind2, x2, k2 : At(kind2, x2, k2, c) /\ Names(q, kind2, x2, k2)
      BY OwnersAreAt
    <3>3. Once
      BY DEF IInv
    <3>4. kind = kind2 /\ x = x2 /\ k = k2
      BY <3>1, <3>2, <3>3, Zenon DEF Once
    <3>5. Names(q, kind, x, k)
      BY <3>2, <3>4
    <3>6. QED
      BY <3>1, <3>5, OneName
  <2>2. ASSUME c \in DOMAIN child_nodes
        PROVE  Owners(c) # {}
    <3>1. Owned(c)
      BY <2>2 DEF IInv
    <3>2. PICK kind, x, k : kind # "stack" /\ At(kind, x, k, c)
      BY <3>1, Zenon DEF Owned
    <3>3. QED
      BY <3>2, OwnedHasOwner
  <2>3. QED
    BY <2>1, <2>2
<1>4. QED
  BY <1>1, <1>2, <1>3, PTL DEF Spec
-----------------------------------------------------------------------------
(***************************************************************************)
(* The shape of what is built: each child is where the message puts it.    *)
(***************************************************************************)
Suits(b, c) ==
  (b.by = "node" /\ c = b.node) \/ (b.by = "index" /\ model.index[c] = b.index)

\* A call has the first of its children and update trees, and waits for the
\* next.
Begun(fr) ==
  /\ Len(fr.children) <= Len(model.branches[fr.node])
  /\ \A k \in DOMAIN fr.children : Suits(model.branches[fr.node][k], fr.children[k])
  /\ Len(fr.updaters) <= Len(model.updates[fr.node])
  /\ \A k \in DOMAIN fr.updaters : fr.updaters[k] = model.updates[fr.node][k]
Awaits(fr, c) ==
  \/ LacksChildren(fr) /\ Suits(model.branches[fr.node][Len(fr.children) + 1], c)
  \/ /\ ~ LacksChildren(fr) /\ Len(fr.updaters) < Len(model.updates[fr.node])
     /\ c = model.updates[fr.node][Len(fr.updaters) + 1]

\* The node that Labeler::Build took from the list last.
Taken(c) == read \in DOMAIN model.nodes /\ c = model.nodes[read]

\* The outermost call is for that node, each other for what its caller awaits.
Chained(fs) ==
  \A f \in DOMAIN fs : /\ Begun(fs[f])
                       /\ f = 1 => Taken(fs[1].node)
                       /\ f > 1 => Awaits(fs[f - 1], fs[f].node)

BuiltFits ==
  /\ updaters = [d \in DOMAIN child_nodes |-> model.updates[d]]
  /\ \A d \in DOMAIN child_nodes :
       /\ child_nodes[d] \in Seq(Configs)
       /\ Len(child_nodes[d]) = Len(model.branches[d])
       /\ \A k \in DOMAIN child_nodes[d] :
            Suits(model.branches[d][k], child_nodes[d][k])

\* Between two nodes of the list the last one is the root, or in node_refs.
Waiting ==
  \/ read = 0 /\ root = NoNode /\ DOMAIN node_refs = {}
  \/ root # NoNode /\ Taken(root)
  \/ root = NoNode /\ \E i \in DOMAIN node_refs : Taken(node_refs[i])
Done ==
  /\ stack = <<>> /\ built = NoNode /\ root # NoNode /\ Taken(root)
  /\ DOMAIN node_refs = {} /\ read = Len(model.nodes)

Fits ==
  /\ \A i \in DOMAIN node_refs : model.index[node_refs[i]] = i
  /\ BuiltFits /\ Chained(stack) /\ read <= Len(model.nodes)
  /\ built # NoNode => Taken(built)
  /\ stack = <<>> /\ built = NoNode => Waiting
  /\ status = "ok" => Done
-----------------------------------------------------------------------------
\* The innermost call gets what it waits for.
LEMMA HandOverChained ==
  ASSUME model \in Models, NEW fs \in Seq(Frame), NEW c \in Configs,
         HandOver(fs, c), UNCHANGED <<model, read>>, Chained(fs), fs # <<>>,
         Awaits(fs[Len(fs)], c)
  PROVE  Chained(stack)' /\ built' = built /\ stack' # <<>>
<1> DEFINE n == Len(fs)
           a == fs[n]
           b == stack'[n]
<1>1. /\ built' = built /\ stack' \in Seq(Frame) /\ Len(stack') = n
      /\ n \in DOMAIN fs /\ n \in Nat /\ DOMAIN fs = 1 .. n
      /\ DOMAIN stack' = DOMAIN fs
      /\ \A f \in DOMAIN fs : f # n => stack'[f] = fs[f]
      /\ b.node = a.node
      /\ LacksChildren(a) => /\ b.children = Append(a.children, c)
                             /\ b.updaters = a.updaters
      /\ ~ LacksChildren(a) => /\ b.children = a.children
                               /\ b.updaters = Append(a.updaters, c)
  BY HandOverFacts
<1>2. a \in Frame /\ Begun(a) /\ Awaits(a, c)
  BY <1>1 DEF Chained
<1>3. /\ a.children \in Seq(Configs) /\ a.updaters \in Seq(Configs)
      /\ a.node \in Configs
  BY <1>2 DEF Frame
<1>4. \A s \in Seq(Configs) :
        /\ Len(s) \in Nat /\ Len(Append(s, c)) = Len(s) + 1
        /\ \A k : k \in DOMAIN Append(s, c) <=> k \in DOMAIN s \/ k = Len(s) + 1
        /\ \A k \in DOMAIN s : Append(s, c)[k] = s[k]
        /\ Append(s, c)[Len(s) + 1] = c
  OBVIOUS
<1>5. Len(model.branches[a.node]) \in Nat /\ Len(model.updates[a.node]) \in Nat
  <2>1. /\ model.branches[a.node] \in Seq(Branches)
        /\ model.updates[a.node] \in Seq(Configs)
    BY <1>3, ModelFacts
  <2>2. QED
    BY <2>1
<1>6. model' = model /\ read' = read
  OBVIOUS
<1>7. \A fr : Begun(fr)' <=> Begun(fr)
  BY <1>6 DEF Begun, Suits
<1>8. \A fr, d : Awaits(fr, d)' <=> Awaits(fr, d)
  BY <1>6 DEF Awaits, Suits, LacksChildren
<1>9. \A d : Taken(d)' <=> Taken(d)
  BY <1>6 DEF Taken
<1>10. Begun(b)
  <2> HIDE DEF a, b, n
  <2>1. CASE LacksChildren(a)
    <3>1. /\ Suits(model.branches[a.node][Len(a.children) + 1], c)
          /\ Len(a.children) < Len(model.branches[a.node])
      BY <1>2, <2>1 DEF Awaits, LacksChildren
    <3>2. /\ Len(b.children) = Len(a.children) + 1
          /\ \A k \in DOMAIN b.children :
               k \in DOMAIN a.children \/ k = Len(a.children) + 1
          /\ \A k \in DOMAIN a.children : b.children[k] = a.children[k]
          /\ b.children[Len(a.children) + 1] = c
          /\ Len(a.children) \in Nat
      BY <1>1, <1>3, <1>4, <2>1
    <3>3. \A k \in DOMAIN b.children : Suits(model.branches[b.node][k], b.children[k])
      BY <1>1, <1>2, <3>1, <3>2 DEF Begun
    <3>4. Len(b.children) <= Len(model.branches[b.node])
      BY <1>1, <1>5, <3>1, <3>2
    <3>5. QED
      BY <1>1, <1>2, <2>1, <3>3, <3>4 DEF Begun
  <2>2. CASE ~ LacksChildren(a)
    <3>1. /\ model.updates[a.node][Len(a.updaters) + 1] = c
          /\ Len(a.updaters) < Len(model.updates[a.node])
      BY <1>2, <2>2 DEF Awaits
    <3>2. /\ Len(b.updaters) = Len(a.updaters) + 1
          /\ \A k \in DOMAIN b.updaters :
               k \in DOMAIN a.updaters \/ k = Len(a.updaters) + 1
          /\ \A k \in DOMAIN a.updaters : b.updaters[k] = a.updaters[k]
          /\ b.updaters[Len(a.updaters) + 1] = c
          /\ Len(a.updaters) \in Nat
      BY <1>1, <1>3, <1>4, <2>2
    <3>3. \A k \in DOMAIN b.updaters : b.updaters[k] = model.updates[b.node][k]
      BY <1>1, <1>2, <3>1, <3>2 DEF Begun
    <3>4. Len(b.updaters) <= Len(model.updates[b.node])
      BY <1>1, <1>5, <3>1, <3>2
    <3>5. QED
      BY <1>1, <1>2, <2>2, <3>3, <3>4 DEF Begun
  <2>3. QED
    BY <2>1, <2>2
<1>11. ASSUME NEW f \in DOMAIN fs
       PROVE  /\ Begun(stack'[f])
              /\ f = 1 => Taken(stack'[1].node)
              /\ f > 1 => Awaits(stack'[f - 1], stack'[f].node)
  <2>1. stack'[f].node = fs[f].node
    BY <1>1
  <2>2. Begun(stack'[f])
    BY <1>1, <1>10 DEF Chained
  <2>3. f = 1 => Taken(stack'[1].node)
    BY <2>1 DEF Chained
  <2>4. ASSUME f > 1 PROVE Awaits(stack'[f - 1], stack'[f].node)
    <3>1. f - 1 \in DOMAIN fs /\ f - 1 # n
      BY <1>1, <2>4
    <3>2. stack'[f - 1] = fs[f - 1]
      BY <1>1, <3>1
    <3>3. QED
      BY <2>1, <2>4, <3>2 DEF Chained
  <2>5. QED
    BY <2>2, <2>3, <2>4
<1>12. Chained(stack)'
  <2>1. Chained(stack)' <=>
          \A f \in DOMAIN stack' :
            /\ Begun(stack'[f])
            /\ f = 1 => Taken(stack'[1].node)
            /\ f > 1 => Awaits(stack'[f - 1], stack'[f].node)
    BY <1>7, <1>8, <1>9, Zenon DEF Chained
  <2>2. QED
    BY <1>1, <1>11, <2>1
<1>13. QED
  BY <1>1, <1>12

\* A call that begins is for what is awaited, and a leaf goes to who awaits it.
LEMMA EnterChained ==
  ASSUME Typed, NEW c \in Configs, NEW u \in BOOLEAN, Enter(c, u),
         built = NoNode, Chained(stack),
         stack = <<>> => Taken(c)',
         stack # <<>> => read' = read /\ Awaits(Top, c)
  PROVE  /\ Chained(stack)' /\ (built' # NoNode => Taken(built)')
         /\ stack' # <<>> \/ built' # NoNode
<1>1. /\ model' = model /\ model \in Models /\ stack \in Seq(Frame)
      /\ NoNode \notin Configs
  BY ModelsAssumption DEF Typed, Enter
<1>2. CASE stack' = Append(stack, Called(c, u)) /\ UNCHANGED built
  <2> DEFINE n == Len(stack)
             new == Called(c, u)
  <2>1. /\ n \in Nat /\ DOMAIN stack = 1 .. n /\ DOMAIN stack' = 1 .. n + 1
        /\ \A f \in DOMAIN stack : stack'[f] = stack[f]
    BY <1>1, <1>2, PushAt
  <2>2. stack'[n + 1] = new
    BY <1>1, <1>2, <2>1
  <2>3. new.node = c /\ new.children = <<>> /\ new.updaters = <<>>
    BY DEF Called
  <2>4. Len(model.branches[c]) \in Nat /\ Len(model.updates[c]) \in Nat
    <3>1. model.branches[c] \in Seq(Branches) /\ model.updates[c] \in Seq(Configs)
      BY <1>1, ModelFacts
    <3>2. QED
      BY <3>1
  <2>5. Begun(new)
    <3>1. Len(<<>>) = 0 /\ DOMAIN <<>> = {}
      OBVIOUS
    <3> HIDE DEF new
    <3>2. QED
      BY <1>1, <2>3, <2>4, <3>1 DEF Begun
  <2>6. stack # <<>> =>
          /\ n \in DOMAIN stack /\ Top = stack[n] /\ read' = read
          /\ Awaits(stack[n], c)
    BY <1>1, <2>1 DEF Top, Last
  <2>7. stack = <<>> <=> n = 0
    BY <1>1
  <2> HIDE DEF n, new
  <2>8. \A fr, d : /\ Begun(fr)' <=> Begun(fr)
                   /\ Awaits(fr, d)' <=> Awaits(fr, d)
    BY <1>1 DEF Begun, Awaits, Suits, LacksChildren
  <2> DEFINE Took(d) == read' \in DOMAIN model.nodes /\ d = model.nodes[read']
  <2>9. /\ \A d : Taken(d)' <=> Took(d)
        /\ stack # <<>> => \A d : Took(d) <=> Taken(d)
    BY <1>1, <2>6 DEF Taken
  <2> HIDE DEF Took
  <2>10. ASSUME NEW f \in 1 .. n + 1
         PROVE  /\ Begun(stack'[f])
                /\ f = 1 => Took(stack'[1].node)
                /\ f > 1 => Awaits(stack'[f - 1], stack'[f].node)
    <3>1. CASE f = n + 1
      <4>1. Begun(stack'[f])
        BY <2>2, <2>5, <3>1
      <4>2. f = 1 => Took(stack'[1].node)
        BY <2>1, <2>2, <2>3, <2>7, <2>9, <3>1
      <4>3. f > 1 => Awaits(stack'[f - 1], stack'[f].node)
        <5>1. SUFFICES ASSUME f > 1 PROVE Awaits(stack'[n], c)
          BY <2>1, <2>2, <2>3, <3>1
        <5>2. n \in DOMAIN stack /\ Awaits(stack[n], c)
          BY <2>1, <2>6, <2>7, <3>1, <5>1
        <5>3. stack'[n] = stack[n]
          BY <2>1, <5>2
        <5>4. QED
          BY <2>8, <5>2, <5>3
      <4>4. QED
        BY <4>1, <4>2, <4>3
    <3>2. CASE f # n + 1
      <4>1. f \in DOMAIN stack /\ stack # <<>> /\ f \in Nat
        BY <2>1, <2>7, <3>2
      <4>2. /\ Begun(stack[f]) /\ (f = 1 => Taken(stack[1].node))
            /\ (f > 1 => Awaits(stack[f - 1], stack[f].node))
        BY <4>1 DEF Chained
      <4>3. stack'[f] = stack[f] /\ (f > 1 => stack'[f - 1] = stack[f - 1])
        BY <2>1, <4>1
      <4>4. QED
        BY <2>8, <2>9, <4>1, <4>2, <4>3
    <3>3. QED
      BY <3>1, <3>2
  <2>11. Chained(stack)'
    <3>1. Chained(stack)' <=>
            \A f \in DOMAIN stack' :
              /\ Begun(stack'[f])
              /\ f = 1 => Took(stack'[1].node)
              /\ f > 1 => Awaits(stack'[f - 1], stack'[f].node)
      BY <2>8, <2>9, Zenon DEF Chained
    <3>2. QED
      BY <2>1, <2>10, <3>1, Zenon
  <2>12. stack' # <<>> /\ built' = NoNode
    BY <1>1, <1>2
  <2>13. QED
    BY <2>11, <2>12
<1>3. CASE HandOver(stack, c) /\ stack = <<>>
  <2>1. stack' = <<>> /\ built' = c
    BY <1>3 DEF HandOver
  <2>2. Chained(stack)'
    BY <2>1 DEF Chained
  <2>3. QED
    BY <1>1, <1>3, <2>1, <2>2
<1>4. CASE HandOver(stack, c) /\ stack # <<>>
  <2>1. Top = stack[Len(stack)]
    BY <1>1, <1>4 DEF Top, Last
  <2>2. QED
    BY <1>1, <1>4, <2>1, HandOverChained
<1>5. QED
  BY <1>2, <1>3, <1>4 DEF Enter

\* A step of the calls that builds no branch node, and stores none.
LEMMA FitsGoesOn ==
  ASSUME Fits, UNCHANGED <<model, child_nodes, updaters>>, status' # "ok",
         \A i \in DOMAIN node_refs' : i \in DOMAIN node_refs
                                        /\ node_refs'[i] = node_refs[i],
         read' <= Len(model.nodes), Chained(stack)', built' # NoNode => Taken(built)',
         stack' # <<>> \/ built' # NoNode
  PROVE  Fits'
<1>1. model' = model /\ child_nodes' = child_nodes /\ updaters' = updaters
  OBVIOUS
<1>2. BuiltFits'
  BY <1>1 DEF Fits, BuiltFits, Suits
<1>3. \A i \in DOMAIN node_refs' : model'.index[node_refs'[i]] = i
  BY <1>1 DEF Fits
<1>4. QED
  BY <1>1, <1>2, <1>3 DEF Fits

LEMMA TakeNodeFits ==
  ASSUME IInv, Fits, TakeNode, ~ Fail
  PROVE  Fits'
<1>1. /\ stack = <<>> /\ built = NoNode /\ Typed /\ status = "building"
      /\ read < Len(model.nodes)
  BY DEF TakeNode, IInv
<1>2. PICK c : c = model.nodes[read + 1]
  OBVIOUS
<1>3. read' = read + 1 /\ Enter(c, FALSE)
  BY <1>2 DEF TakeNode
<1>4. c \in Configs
  BY <1>1, <1>2, FreshListed
<1>5. /\ model' = model /\ status' = status
      /\ UNCHANGED <<node_refs, child_nodes, updaters>>
  BY <1>3 DEF Enter
<1>6. /\ read' \in Nat /\ read' <= Len(model.nodes)
      /\ read' \in DOMAIN model.nodes
  <2>1. model.nodes \in Seq(Configs) /\ read \in Nat
    BY <1>1, ModelFacts DEF Typed
  <2>2. QED
    BY <1>1, <1>3, <2>1
<1>7. Taken(c)'
  BY <1>2, <1>3, <1>5, <1>6 DEF Taken
<1>8. Chained(stack)
  BY DEF Fits
<1>9. /\ Chained(stack)' /\ (built' # NoNode => Taken(built)')
      /\ stack' # <<>> \/ built' # NoNode
  BY <1>1, <1>3, <1>4, <1>7, <1>8, EnterChained
<1>10. QED
  BY <1>1, <1>5, <1>6, <1>9, FitsGoesOn

LEMMA AppendByNodeFits ==
  ASSUME IInv, Fits, AppendByNode
  PROVE  Fits'
<1>1. /\ MoreBranches /\ Branch.by = "node" /\ read' = read
      /\ Enter(Branch.node, Top.in_update)
  BY DEF AppendByNode
<1>2. /\ stack # <<>> /\ LacksChildren(Top) /\ Typed /\ status = "building"
      /\ Chained(stack) /\ read <= Len(model.nodes)
  BY <1>1 DEF MoreBranches, IInv, Fits
<1>3. PICK c, u : c = Branch.node /\ u = Top.in_update
  OBVIOUS
<1>4. c \in Configs /\ u \in BOOLEAN /\ built = NoNode
  BY <1>1, <1>2, <1>3, FreshBranch, TopFacts, Inside
<1>5. Awaits(Top, c)
  BY <1>1, <1>2, <1>3 DEF Awaits, Suits, Branch
<1>6. /\ Chained(stack)' /\ (built' # NoNode => Taken(built)')
      /\ stack' # <<>> \/ built' # NoNode
  BY <1>1, <1>2, <1>3, <1>4, <1>5, EnterChained
<1>7. status' = status /\ UNCHANGED <<model, node_refs, child_nodes, updaters>>
  BY <1>1 DEF Enter
<1>8. QED
  BY <1>1, <1>2, <1>6, <1>7, FitsGoesOn

LEMMA BuildUpdateTreeFits ==
  ASSUME IInv, Fits, BuildUpdateTree, ~ Fail
  PROVE  Fits'
<1>1. PICK c : c = model.updates[Top.node][Len(Top.updaters) + 1]
  OBVIOUS
<1>2. MoreUpdates /\ Enter(c, TRUE) /\ read' = read
  BY <1>1 DEF BuildUpdateTree
<1>3. /\ stack # <<>> /\ ~ LacksChildren(Top) /\ Typed /\ status = "building"
      /\ Len(Top.updaters) < Len(model.updates[Top.node])
      /\ Chained(stack) /\ read <= Len(model.nodes)
  BY <1>2 DEF MoreUpdates, IInv, Fits
<1>4. c \in Configs /\ built = NoNode
  BY <1>1, <1>2, <1>3, FreshUpdate, Inside
<1>5. Awaits(Top, c)
  BY <1>1, <1>3 DEF Awaits
<1>6. /\ Chained(stack)' /\ (built' # NoNode => Taken(built)')
      /\ stack' # <<>> \/ built' # NoNode
  BY <1>2, <1>3, <1>4, <1>5, EnterChained
<1>7. status' = status /\ UNCHANGED <<model, node_refs, child_nodes, updaters>>
  BY <1>2 DEF Enter
<1>8. QED
  BY <1>2, <1>3, <1>6, <1>7, FitsGoesOn

LEMMA AppendByIndexFits ==
  ASSUME IInv, Fits, AppendByIndex
  PROVE  Fits'
<1>1. /\ stack # <<>> /\ LacksChildren(Top) /\ Typed /\ status = "building"
      /\ Chained(stack) /\ read <= Len(model.nodes)
      /\ model \in Models /\ stack \in Seq(Frame)
      /\ UNCHANGED <<model, status, read, child_nodes, updaters, root>>
      /\ Branch.by = "index"
  BY DEF AppendByIndex, MoreBranches, IInv, Typed, Fits
<1>2. PICK i : i = Branch.index
  OBVIOUS
<1>3. i \in DOMAIN node_refs /\ Refs = node_refs
  BY <1>2 DEF AppendByIndex, Refs, NoRefs
<1>4. PICK c \in Configs : c = node_refs[i]
  BY <1>1, <1>3 DEF Typed
<1>5. HandOver(stack, c) /\ node_refs' = Without(node_refs, i)
  BY <1>2, <1>3, <1>4 DEF AppendByIndex
<1>6. Awaits(Top, c)
  <2>1. model.index[c] = i
    BY <1>3, <1>4 DEF Fits
  <2>2. QED
    BY <1>1, <1>2, <2>1 DEF Awaits, Suits, Branch
<1>7. Top = stack[Len(stack)]
  BY <1>1 DEF Top, Last
<1>8. Chained(stack)' /\ built' = built /\ stack' # <<>>
  BY <1>1, <1>5, <1>6, <1>7, HandOverChained
<1>9. built = NoNode
  BY <1>1, Inside
<1>10. \A j \in DOMAIN node_refs' : j \in DOMAIN node_refs
                                     /\ node_refs'[j] = node_refs[j]
  BY <1>5 DEF Without
<1>11. QED
  BY <1>1, <1>8, <1>9, <1>10, FitsGoesOn

\* A call that returns has all its children and update trees.
LEMMA FinishBranchFits ==
  ASSUME IInv, Fits, FinishBranch, ~ Fail
  PROVE  Fits'
<1>1. PICK top, c, fs, n :
        top = Top /\ c = top.node /\ fs = Front(stack) /\ n = Len(stack)
  OBVIOUS
<1>2. /\ stack # <<>> /\ ~ MoreBranches /\ ~ MoreUpdates /\ status = "building"
      /\ child_nodes' = Extended(child_nodes, c, top.children)
      /\ updaters' = Extended(updaters, c, top.updaters)
      /\ HandOver(fs, c)
      /\ model' = model /\ status' = status /\ read' = read
      /\ node_refs' = node_refs /\ root' = root
  BY <1>1 DEF FinishBranch
<1>3. /\ Typed /\ model \in Models /\ stack \in Seq(Frame) /\ built = NoNode
      /\ NoNode \notin Configs /\ Chained(stack) /\ BuiltFits
      /\ read <= Len(model.nodes)
  BY <1>2, Inside, ModelsAssumption DEF IInv, Typed, Fits
<1>4. /\ n \in DOMAIN stack /\ top = stack[n] /\ top \in Frame /\ c \in Configs
      /\ n \in Nat /\ DOMAIN stack = 1 .. n
  BY <1>1, <1>2, TopFacts
<1>5. /\ fs \in Seq(Frame) /\ DOMAIN fs = DOMAIN stack \ {n}
      /\ \A f \in DOMAIN fs : fs[f] = stack[f]
  BY <1>1, <1>2, <1>3, PopAt
<1>6. /\ top.children \in Seq(Configs) /\ top.updaters \in Seq(Configs)
      /\ model.branches[c] \in Seq(Branches) /\ model.updates[c] \in Seq(Configs)
  <2>1. top.children \in Seq(Configs) /\ top.updaters \in Seq(Configs)
    BY <1>4 DEF Frame
  <2>2. QED
    BY <1>3, <1>4, <2>1, ModelFacts
<1>7. Begun(top)
  BY <1>3, <1>4 DEF Chained
<1>8. ~ LacksChildren(top) /\ ~ (Len(top.updaters) < Len(model.updates[c]))
  BY <1>1, <1>2 DEF MoreBranches, MoreUpdates
<1>9. /\ Len(top.children) = Len(model.branches[c])
      /\ \A k \in DOMAIN top.children : Suits(model.branches[c][k], top.children[k])
  <2>1. /\ Len(top.children) <= Len(model.branches[c])
        /\ \A k \in DOMAIN top.children : Suits(model.branches[c][k], top.children[k])
        /\ ~ (Len(top.children) < Len(model.branches[c]))
    BY <1>1, <1>7, <1>8 DEF Begun, LacksChildren
  <2>2. Len(top.children) \in Nat /\ Len(model.branches[c]) \in Nat
    BY <1>6
  <2>3. QED
    BY <2>1, <2>2
<1>10. top.updaters = model.updates[c]
  <2>1. /\ Len(top.updaters) <= Len(model.updates[c])
        /\ \A k \in DOMAIN top.updaters : top.updaters[k] = model.updates[c][k]
    BY <1>1, <1>7 DEF Begun
  <2>2. Len(top.updaters) = Len(model.updates[c])
    <3>1. Len(top.updaters) \in Nat /\ Len(model.updates[c]) \in Nat
      BY <1>6
    <3>2. QED
      BY <1>8, <2>1, <3>1
  <2>3. \A s, t \in Seq(Configs) :
          Len(s) = Len(t) /\ (\A k \in DOMAIN s : s[k] = t[k]) => s = t
    OBVIOUS
  <2>4. QED
    BY <1>6, <2>1, <2>2, <2>3
<1>11. BuiltFits'
  <2>1. /\ c \notin DOMAIN child_nodes /\ DOMAIN updaters = DOMAIN child_nodes
    BY <1>1, <1>3, <1>4, StackOnce DEF Typed
  <2>2. /\ \A d : d \in DOMAIN child_nodes' <=> d \in DOMAIN child_nodes \/ d = c
        /\ child_nodes'[c] = top.children /\ updaters'[c] = top.updaters
        /\ \A d \in DOMAIN child_nodes :
             child_nodes'[d] = child_nodes[d] /\ updaters'[d] = updaters[d]
    BY <1>2, <2>1 DEF Extended
  <2>3. updaters' = [d \in DOMAIN child_nodes' |-> model.updates[d]]
    <3>1. \A d \in DOMAIN updaters' : updaters'[d] = model.updates[d]
      BY <1>2, <1>3, <1>10, <2>1, <2>2 DEF Extended, BuiltFits
    <3>2. /\ updaters' = [d \in DOMAIN updaters' |-> updaters'[d]]
          /\ DOMAIN updaters' = DOMAIN child_nodes'
      BY <1>2, <2>1 DEF Extended
    <3>3. QED
      BY <3>1, <3>2
  <2>4. SUFFICES ASSUME NEW d \in DOMAIN child_nodes'
                 PROVE  /\ child_nodes'[d] \in Seq(Configs)
                        /\ Len(child_nodes'[d]) = Len(model.branches[d])
                        /\ \A k \in DOMAIN child_nodes'[d] :
                             Suits(model.branches[d][k], child_nodes'[d][k])
    BY <1>2, <2>3 DEF BuiltFits, Suits
  <2>5. CASE d = c
    BY <1>6, <1>9, <2>2, <2>5
  <2>6. CASE d # c
    BY <1>3, <2>2, <2>6 DEF BuiltFits
  <2>7. QED
    BY <2>5, <2>6
<1>12. Chained(fs)
  <2>1. \A f \in DOMAIN fs : f \in DOMAIN stack /\ fs[f] = stack[f]
    BY <1>5
  <2>2. \A f \in DOMAIN fs : f > 1 => fs[f - 1] = stack[f - 1]
    <3>1. \A f \in DOMAIN fs : f > 1 => f - 1 \in DOMAIN fs
      BY <1>4, <1>5
    <3>2. QED
      BY <2>1, <3>1
  <2>3. \A f \in DOMAIN fs : f = 1 => fs[1] = stack[1]
    BY <2>1
  <2>4. QED
    BY <1>3, <2>1, <2>2, <2>3 DEF Chained
<1>13. /\ Chained(stack)' /\ (built' # NoNode => Taken(built)')
       /\ stack' # <<>> \/ built' # NoNode
  <2>1. CASE fs = <<>>
    <3>1. stack' = <<>> /\ built' = c
      BY <1>2, <2>1 DEF HandOver
    <3>2. n = 1
      <4>1. DOMAIN fs = {}
        BY <2>1
      <4>2. QED
        BY <1>4, <1>5, <4>1
    <3>3. Taken(c)
      BY <1>1, <1>3, <1>4, <3>2 DEF Chained
    <3>4. Taken(built)'
      BY <1>2, <3>1, <3>3 DEF Taken
    <3>5. Chained(stack)'
      BY <3>1 DEF Chained
    <3>6. QED
      BY <1>3, <1>4, <3>1, <3>4, <3>5
  <2>2. CASE fs # <<>>
    <3>1. Len(fs) = n - 1 /\ n - 1 \in DOMAIN fs /\ n > 1
      <4>1. Len(fs) \in Nat /\ DOMAIN fs = 1 .. Len(fs) /\ Len(fs) # 0
        BY <1>5, <2>2
      <4>2. 1 .. Len(fs) = 1 .. n \ {n}
        BY <1>4, <1>5, <4>1
      <4>3. QED
        BY <1>4, <4>1, <4>2
    <3>2. Awaits(stack[n - 1], c)
      BY <1>1, <1>3, <1>4, <3>1 DEF Chained
    <3>3. Awaits(fs[Len(fs)], c)
      BY <1>5, <3>1, <3>2
    <3>4. QED
      BY <1>2, <1>3, <1>4, <1>5, <1>12, <2>2, <3>3, HandOverChained
  <2>3. QED
    BY <2>1, <2>2
<1>14. \A i \in DOMAIN node_refs' : model'.index[node_refs'[i]] = i
  BY <1>2 DEF Fits
<1>15. QED
  BY <1>2, <1>3, <1>11, <1>13, <1>14 DEF Fits

LEMMA StoreFits ==
  ASSUME IInv, Fits, Store, ~ Fail
  PROVE  Fits'
<1>1. /\ built # NoNode /\ Typed /\ Control /\ stack = <<>> /\ root = NoNode
      /\ NoNode \notin Configs /\ status = "building"
      /\ built \in Configs
  BY ModelsAssumption DEF Store, IInv, Typed, Control
<1>2. /\ built' = NoNode /\ model' = model /\ status' = status /\ read' = read
      /\ stack' = stack /\ child_nodes' = child_nodes /\ updaters' = updaters
  BY DEF Store
<1>3. PICK c, i : c = built /\ i = model.index[c]
  OBVIOUS
<1>4. \/ /\ i \notin DOMAIN node_refs
         /\ node_refs' = Extended(node_refs, i, c) /\ root' = root
      \/ root' = c /\ node_refs' = node_refs
  BY <1>3 DEF Store
<1>5. Taken(c)
  BY <1>1, <1>3 DEF Fits
<1>6. Taken(c)'
  BY <1>2, <1>5 DEF Taken
<1>7. Waiting' /\ \A j \in DOMAIN node_refs' : model'.index[node_refs'[j]] = j
  <2>1. CASE /\ i \notin DOMAIN node_refs
             /\ node_refs' = Extended(node_refs, i, c) /\ root' = root
    <3>1. /\ \A j : j \in DOMAIN node_refs' <=> j \in DOMAIN node_refs \/ j = i
          /\ \A j \in DOMAIN node_refs : node_refs'[j] = node_refs[j]
          /\ node_refs'[i] = c
      BY <2>1 DEF Extended
    <3>2. i \in DOMAIN node_refs' /\ Taken(node_refs[i])'
      BY <1>6, <3>1 DEF Taken
    <3>3. Waiting'
      BY <1>1, <2>1, <3>2, Zenon DEF Waiting
    <3>4. \A j \in DOMAIN node_refs' : model'.index[node_refs'[j]] = j
      BY <1>2, <1>3, <3>1 DEF Fits
    <3>5. QED
      BY <3>3, <3>4
  <2>2. CASE root' = c /\ node_refs' = node_refs
    <3>1. Waiting'
      BY <1>1, <1>3, <1>6, <2>2 DEF Waiting, Taken
    <3>2. QED
      BY <1>2, <2>2, <3>1 DEF Fits
  <2>3. QED
    BY <1>4, <2>1, <2>2
<1>8. BuiltFits' /\ Chained(stack)'
  BY <1>1, <1>2 DEF Fits, BuiltFits, Suits, Chained
<1>9. QED
  BY <1>1, <1>2, <1>7, <1>8 DEF Fits

\* The root is the last node of the list.
LEMMA FinishFits ==
  ASSUME IInv, Fits, Finish, ~ Fail
  PROVE  Fits'
<1>1. /\ stack = <<>> /\ built = NoNode /\ read = Len(model.nodes) /\ Typed
      /\ NoNode \notin Configs /\ Waiting
  BY ModelsAssumption DEF Finish, IInv, Fits
<1>2. /\ model' = model /\ read' = read /\ stack' = stack /\ built' = built
      /\ child_nodes' = child_nodes /\ updaters' = updaters
  BY DEF Finish
<1>3. \/ /\ root # NoNode /\ DOMAIN node_refs = {}
         /\ node_refs' = node_refs /\ root' = root
      \/ /\ root = NoNode
         /\ \E i \in DOMAIN node_refs :
              /\ DOMAIN node_refs = {i} /\ root' = node_refs[i]
              /\ node_refs' = Without(node_refs, i)
  BY DEF Finish
<1>4. root' # NoNode /\ Taken(root)' /\ DOMAIN node_refs' = {}
  <2>1. CASE /\ root # NoNode /\ DOMAIN node_refs = {}
             /\ node_refs' = node_refs /\ root' = root
    <3>1. Taken(root)
      BY <1>1, <2>1 DEF Waiting
    <3>2. QED
      BY <1>2, <2>1, <3>1 DEF Taken
  <2>2. ASSUME root = NoNode, NEW i \in DOMAIN node_refs, DOMAIN node_refs = {i},
               root' = node_refs[i], node_refs' = Without(node_refs, i)
        PROVE  root' # NoNode /\ Taken(root)' /\ DOMAIN node_refs' = {}
    <3>1. Taken(node_refs[i])
      BY <1>1, <2>2 DEF Waiting
    <3>2. Taken(root)'
      BY <1>2, <2>2, <3>1 DEF Taken
    <3>3. root' \in Configs
      BY <1>1, <2>2 DEF Typed
    <3>4. DOMAIN node_refs' = {}
      BY <2>2 DEF Without
    <3>5. QED
      BY <1>1, <3>2, <3>3, <3>4
  <2>3. QED
    BY <1>3, <2>1, <2>2
<1>5. Done' /\ Waiting'
  BY <1>1, <1>2, <1>4 DEF Done, Waiting
<1>6. BuiltFits' /\ Chained(stack)'
  BY <1>1, <1>2 DEF Fits, BuiltFits, Suits, Chained
<1>7. read' <= Len(model'.nodes) /\ built' = NoNode
  BY <1>1, <1>2 DEF Fits
<1>8. QED
  BY <1>4, <1>5, <1>6, <1>7 DEF Fits

-----------------------------------------------------------------------------
(***************************************************************************)
(* What is reached from a node by steps that go down.                      *)
(***************************************************************************)
IsClosure(R, D, S) == R = [c \in D |-> {c} \cup UNION {R[d] : d \in S[c]}]
GoesDown(S, D, K, h) ==
  /\ K \in Nat /\ h \in [D -> 0 .. K] /\ S \in [D -> SUBSET D]
  /\ \A c \in D : \A d \in S[c] : h[d] < h[c]

\* Every non-empty set of naturals has a least element.
LEMMA NatMinimum ==
  ASSUME NEW T \in SUBSET Nat, T # {}
  PROVE  \E m \in T : \A k \in T : m <= k
<1> DEFINE R == OpToRel(<, Nat)
<1>1. IsWellFoundedOn(R, Nat)
  BY NatLessThanWellFounded
<1> HIDE DEF R
<1>2. PICK m \in T : \A k \in T : ~ (<<k, m>> \in R)
  BY <1>1, WFMin
<1>3. ASSUME NEW k \in T PROVE m <= k
  <2>1. <<k, m>> \notin R
    BY <1>2, <1>3
  <2>2. ~ (k < m)
    BY <2>1 DEF R, OpToRel
  <2>3. QED
    BY <2>2
<1>4. QED
  BY <1>3

\* What holds of a node when it holds of all lower ones holds of every node.
LEMMA LowestFirst ==
  ASSUME NEW D, NEW K \in Nat, NEW h \in [D -> 0 .. K], NEW T,
         \A d \in D : (\A e \in D : h[e] < h[d] => e \in T) => d \in T
  PROVE  D \subseteq T
<1> DEFINE H == {h[d] : d \in D \ T}
<1>1. H \in SUBSET Nat
  OBVIOUS
<1>2. ASSUME H # {} PROVE FALSE
  <2>1. PICK m \in H : \A k \in H : m <= k
    <3> HIDE DEF H
    <3>1. QED
      BY <1>1, <1>2, NatMinimum
  <2>2. PICK d \in D \ T : h[d] = m
    BY <2>1
  <2>3. ASSUME NEW e \in D, h[e] < h[d], e \notin T PROVE FALSE
    <3>1. h[e] \in H
      BY <2>3
    <3>2. m <= h[e]
      BY <2>1, <3>1
    <3>3. h[e] \in Nat /\ h[d] \in Nat
      OBVIOUS
    <3>4. QED
      BY <2>2, <2>3, <3>2, <3>3
  <2>4. QED
    BY <2>2, <2>3
<1>3. QED
  BY <1>2

\* And what holds of a node when it holds of all higher ones.
LEMMA HighestFirst ==
  ASSUME NEW D, NEW K \in Nat, NEW h \in [D -> 0 .. K], NEW T,
         \A d \in D : (\A e \in D : h[d] < h[e] => e \in T) => d \in T
  PROVE  D \subseteq T
<1> DEFINE H == {K - h[d] : d \in D \ T}
<1>1. H \in SUBSET Nat
  OBVIOUS
<1>2. ASSUME H # {} PROVE FALSE
  <2>1. PICK m \in H : \A k \in H : m <= k
    <3> HIDE DEF H
    <3>1. QED
      BY <1>1, <1>2, NatMinimum
  <2>2. PICK d \in D \ T : K - h[d] = m
    BY <2>1
  <2>3. ASSUME NEW e \in D, h[d] < h[e], e \notin T PROVE FALSE
    <3>1. K - h[e] \in H
      BY <2>3
    <3>2. m <= K - h[e]
      BY <2>1, <3>1
    <3>3. h[e] \in Nat /\ h[d] \in Nat
      OBVIOUS
    <3>4. QED
      BY <2>2, <2>3, <3>2, <3>3
  <2>4. QED
    BY <2>2, <2>3
<1>3. QED
  BY <1>2

\* The closed sets around a node have a least one, so there is a closure.
LEMMA ClosureExists ==
  ASSUME NEW D, NEW S \in [D -> SUBSET D]
  PROVE  \E R : IsClosure(R, D, S)
<1> DEFINE Closed(T) == \A m \in T : S[m] \subseteq T
           C(c) == {d \in D : \A T \in SUBSET D : c \in T /\ Closed(T) => d \in T}
           R == [c \in D |-> C(c)]
<1>1. ASSUME NEW c \in D PROVE Closed(C(c)) /\ c \in C(c) /\ C(c) \in SUBSET D
  OBVIOUS
<1>2. ASSUME NEW c \in D PROVE C(c) = {c} \cup UNION {C(d) : d \in S[c]}
  <2> DEFINE T0 == {c} \cup UNION {C(d) : d \in S[c]}
  <2>0. S[c] \subseteq D
    OBVIOUS
  <2>1. T0 \subseteq C(c)
    <3>1. c \in C(c)
      BY <1>1
    <3>2. ASSUME NEW d \in S[c], NEW x \in C(d) PROVE x \in C(c)
      OBVIOUS
    <3> HIDE DEF C
    <3>3. QED
      BY <3>1, <3>2
  <2>2. T0 \in SUBSET D
    <3> HIDE DEF C
    <3>1. QED
      BY <1>1, <2>0
  <2>3. Closed(T0)
    <3>1. ASSUME NEW m \in T0 PROVE S[m] \subseteq T0
      <4>1. CASE m = c
        <5> HIDE DEF C
        <5>1. \A d \in S[c] : d \in C(d)
          BY <1>1, <2>0
        <5>2. QED
          BY <4>1, <5>1
      <4>2. CASE m # c
        <5> HIDE DEF C
        <5>1. PICK d \in S[c] : m \in C(d)
          BY <3>1, <4>2
        <5>2. S[m] \subseteq C(d)
          BY <1>1, <2>0, <5>1
        <5>3. QED
          BY <5>2
      <4>3. QED
        BY <4>1, <4>2
    <3> HIDE DEF T0
    <3>2. QED
      BY <3>1
  <2>4. c \in T0
    OBVIOUS
  <2>5. C(c) \subseteq T0
    <3> HIDE DEF T0, Closed
    <3>1. QED
      BY <2>2, <2>3, <2>4
  <2>6. QED
    BY <2>1, <2>5
<1> HIDE DEF C
<1>3. \A c \in D : {R[d] : d \in S[c]} = {C(d) : d \in S[c]}
  <2>1. \A c \in D : \A d \in S[c] : R[d] = C(d)
    OBVIOUS
  <2>2. QED
    BY <2>1
<1>4. R = [c \in D |-> {c} \cup UNION {R[d] : d \in S[c]}]
  BY <1>2, <1>3
<1> HIDE DEF R
<1>5. IsClosure(R, D, S)
  BY <1>4 DEF IsClosure
<1>6. QED
  BY <1>5, Zenon

\* A node is in its closure, which is closed, and is in every closed set
\* around the node.
LEMMA ClosureFacts ==
  ASSUME NEW D, NEW S, NEW K, NEW h, GoesDown(S, D, K, h), NEW R, IsClosure(R, D, S)
  PROVE  /\ \A c \in D : c \in R[c] /\ \A d \in S[c] : R[d] \subseteq R[c]
         /\ \A c \in D : \A m \in R[c] : m \in D /\ S[m] \subseteq R[c]
         /\ \A T \in SUBSET D : (\A m \in T : S[m] \subseteq T)
              => \A c \in T : R[c] \subseteq T
<1>1. /\ K \in Nat /\ h \in [D -> 0 .. K] /\ S \in [D -> SUBSET D]
      /\ \A c \in D : \A d \in S[c] : h[d] < h[c]
  BY DEF GoesDown
<1>2. \A c \in D : R[c] = {c} \cup UNION {R[d] : d \in S[c]}
  BY DEF IsClosure
<1>3. \A c \in D : c \in R[c] /\ \A d \in S[c] : R[d] \subseteq R[c]
  <2> SUFFICES ASSUME NEW c \in D
               PROVE  c \in R[c] /\ \A d \in S[c] : R[d] \subseteq R[c]
    OBVIOUS
  <2>1. R[c] = {c} \cup UNION {R[d] : d \in S[c]}
    BY <1>2
  <2>2. QED
    BY <2>1
<1>4. ASSUME NEW c \in D, NEW m \in R[c], m # c
      PROVE  \E d \in S[c] : m \in R[d]
  BY <1>2, <1>4
<1> DEFINE A == {c \in D : \A m \in R[c] : m \in D /\ S[m] \subseteq R[c]}
<1>5. D \subseteq A
  <2>1. ASSUME NEW c \in D, \A e \in D : h[e] < h[c] => e \in A
        PROVE  c \in A
    <3>1. \A d \in S[c] : d \in A
      BY <1>1, <2>1
    <3>2. ASSUME NEW m \in R[c] PROVE m \in D /\ S[m] \subseteq R[c]
      <4>1. CASE m = c
        <5>1. \A d \in S[c] : d \in R[c]
          BY <1>1, <1>3
        <5>2. QED
          BY <4>1, <5>1
      <4>2. CASE m # c
        <5>1. PICK d \in S[c] : m \in R[d]
          BY <1>4, <4>2
        <5>2. m \in D /\ S[m] \subseteq R[d]
          BY <3>1, <5>1
        <5>3. QED
          BY <1>3, <5>2
      <4>3. QED
        BY <4>1, <4>2
    <3>3. QED
      BY <3>2
  <2> HIDE DEF A
  <2>2. QED
    BY <1>1, <2>1, LowestFirst
<1>6. ASSUME NEW T \in SUBSET D, \A m \in T : S[m] \subseteq T, NEW c \in T
      PROVE  R[c] \subseteq T
  <2> DEFINE B == {d \in D : d \in T => R[d] \subseteq T}
  <2>1. ASSUME NEW d \in D, \A e \in D : h[e] < h[d] => e \in B
        PROVE  d \in B
    <3>1. SUFFICES ASSUME d \in T PROVE R[d] \subseteq T
      OBVIOUS
    <3>2. \A e \in S[d] : e \in T /\ e \in B
      BY <1>1, <1>6, <2>1, <3>1
    <3>3. ASSUME NEW m \in R[d], m # d PROVE m \in T
      <4>1. PICK e \in S[d] : m \in R[e]
        BY <1>4, <3>3
      <4>2. QED
        BY <3>2, <4>1
    <3>4. QED
      BY <3>1, <3>3
  <2>2. D \subseteq B
    <3> HIDE DEF B
    <3>1. QED
      BY <1>1, <2>1, LowestFirst
  <2>3. QED
    BY <2>2
<1>7. QED
  BY <1>3, <1>5, <1>6

-----------------------------------------------------------------------------
(***************************************************************************)
(* The whole invariant of a build that has not failed.                     *)
(***************************************************************************)
\* A branch node that is built is above its children and its update trees.
Attached(x) == ToSet(child_nodes[x]) \cup ToSet(updaters[x])
Above(h) == \A x \in DOMAIN child_nodes : \A d \in Attached(x) : h[d] < h[x]
Layered == \E K \in Nat : \E h \in [Configs -> 0 .. K] : Above(h)

\* Nothing that was taken from the list is lost.
ListedKept == \A p \in DOMAIN model.nodes : p <= read => Located(model.nodes[p])
OwnedAreGrown == \A c \in Configs : Owned(c) => Grown(c)

BuildInv ==
  /\ IInv
  /\ status # "error" => Fits /\ Layered /\ ListedKept /\ OwnedAreGrown

LEMMA AttachedAt ==
  ASSUME IInv, Fits, NEW x \in DOMAIN child_nodes
  PROVE  /\ \A d \in Attached(x) :
              \E kind, k : kind \in {"child", "updater"} /\ At(kind, x, k, d)
         /\ Attached(x) \subseteq Configs
<1>1. /\ DOMAIN updaters = DOMAIN child_nodes /\ x \in Configs /\ model \in Models
      /\ child_nodes[x] \in Seq(Configs) /\ updaters[x] = model.updates[x]
  BY DEF IInv, Typed, Fits, BuiltFits
<1>2. updaters[x] \in Seq(Configs)
  BY <1>1, ModelFacts
<1>3. Attached(x) \subseteq Configs
  BY <1>1, <1>2 DEF Attached, ToSet
<1>4. ASSUME NEW d \in Attached(x)
      PROVE  \E kind, k : kind \in {"child", "updater"} /\ At(kind, x, k, d)
  <2>1. CASE d \in ToSet(child_nodes[x])
    <3>1. PICK k \in DOMAIN child_nodes[x] : child_nodes[x][k] = d
      BY <2>1 DEF ToSet
    <3>2. At("child", x, k, d)
      BY <3>1 DEF At, Kept
    <3>3. QED
      BY <3>2
  <2>2. CASE d \in ToSet(updaters[x])
    <3>1. PICK k \in DOMAIN updaters[x] : updaters[x][k] = d
      BY <2>2 DEF ToSet
    <3>2. At("updater", x, k, d)
      BY <3>1 DEF At, Kept
    <3>3. QED
      BY <3>2
  <2>3. QED
    BY <1>4, <2>1, <2>2 DEF Attached
<1>5. QED
  BY <1>3, <1>4

\* The node that is built now is put above all others.
LEMMA FinishBranchLayered ==
  ASSUME IInv, Fits, Layered, FinishBranch, ~ Fail
  PROVE  Layered'
<1>1. PICK top, c, n : top = Top /\ c = top.node /\ n = Len(stack)
  OBVIOUS
<1>2. /\ stack # <<>> /\ child_nodes' = Extended(child_nodes, c, top.children)
      /\ updaters' = Extended(updaters, c, top.updaters)
  BY <1>1 DEF FinishBranch
<1>3. /\ n \in DOMAIN stack /\ top = stack[n] /\ top \in Frame /\ c \in Configs
  BY <1>1, <1>2, TopFacts
<1>4. /\ At("stack", n, 0, c) /\ c \notin DOMAIN child_nodes /\ Once
      /\ DOMAIN updaters = DOMAIN child_nodes
  BY <1>1, <1>3, StackOnce DEF IInv, Typed
<1>5. \A kind, x, k : At(kind, x, k, c) => kind = "stack"
  BY <1>3, <1>4, Zenon DEF Once
<1>6. top.children \in Seq(Configs) /\ top.updaters \in Seq(Configs)
  BY <1>3 DEF Frame
<1>7. /\ DOMAIN child_nodes' = DOMAIN child_nodes \cup {c}
      /\ child_nodes'[c] = top.children /\ updaters'[c] = top.updaters
      /\ \A x \in DOMAIN child_nodes :
           child_nodes'[x] = child_nodes[x] /\ updaters'[x] = updaters[x]
  BY <1>2, <1>4 DEF Extended
<1>8. ASSUME NEW x \in DOMAIN child_nodes, NEW d \in Attached(x)
      PROVE  d \in Configs /\ d # c /\ x # c
  <2>1. PICK kind, k : kind \in {"child", "updater"} /\ At(kind, x, k, d)
    BY <1>8, AttachedAt
  <2>2. d # c
    BY <1>5, <2>1
  <2>3. d \in Configs
    BY <1>8, AttachedAt
  <2>4. QED
    BY <1>4, <2>2, <2>3
<1>9. ASSUME NEW d \in ToSet(top.children) \cup ToSet(top.updaters)
      PROVE  d \in Configs /\ d # c
  <2>1. \E kind, k : kind \in {"child", "updater"} /\ InFrame(top, n, kind, c, k, d)
    <3>1. \/ \E k \in DOMAIN top.children : top.children[k] = d
          \/ \E k \in DOMAIN top.updaters : top.updaters[k] = d
      BY <1>9 DEF ToSet
    <3>2. QED
      BY <1>1, <3>1 DEF InFrame
  <2>2. PICK kind, k : kind \in {"child", "updater"} /\ InFrame(top, n, kind, c, k, d)
    BY <2>1
  <2>3. At(kind, c, k, d)
    BY <1>3, <2>2, Zenon DEF At, Working
  <2>4. d # c
    BY <1>5, <2>2, <2>3
  <2>5. d \in Configs
    BY <1>6, <1>9 DEF ToSet
  <2>6. QED
    BY <2>4, <2>5
<1>10. PICK K \in Nat : \E h \in [Configs -> 0 .. K] : Above(h)
  BY DEF Layered
<1>11. PICK h \in [Configs -> 0 .. K] : Above(h)
  BY <1>10
<1>12. PICK g : g = [h EXCEPT ![c] = K + 1]
  OBVIOUS
<1>13. /\ g \in [Configs -> 0 .. K + 1] /\ g[c] = K + 1
       /\ \A d \in Configs : d # c => g[d] = h[d]
       /\ \A d \in Configs : h[d] \in 0 .. K
  BY <1>3, <1>12
<1>14. Above(g)'
  <2>1. SUFFICES ASSUME NEW x \in DOMAIN child_nodes \cup {c},
                        NEW d \in ToSet(child_nodes'[x]) \cup ToSet(updaters'[x])
                 PROVE  g[d] < g[x]
    BY <1>7 DEF Above, Attached
  <2>2. CASE x = c
    <3>1. d \in Configs /\ d # c
      BY <1>7, <1>9, <2>1, <2>2
    <3>2. QED
      BY <1>13, <2>2, <3>1
  <2>3. CASE x # c
    <3>1. x \in DOMAIN child_nodes /\ x \in Configs
      BY <2>1, <2>3 DEF IInv, Typed
    <3>2. d \in Attached(x)
      BY <1>7, <2>1, <3>1 DEF Attached
    <3>3. d \in Configs /\ d # c /\ h[d] < h[x]
      BY <1>8, <1>11, <3>1, <3>2 DEF Above
    <3>4. QED
      BY <1>13, <2>3, <3>1, <3>3
  <2>4. QED
    BY <2>2, <2>3
<1>15. K + 1 \in Nat
  OBVIOUS
<1>16. QED
  BY <1>13, <1>14, <1>15 DEF Layered

\* What such a step means for the rest of the invariant.
LEMMA BuildGoesOn ==
  ASSUME BuildInv, status # "error", IInv', Moves, Fits', Layered',
         model' = model, DOMAIN child_nodes \subseteq DOMAIN child_nodes',
         \A p \in DOMAIN model.nodes :
           p <= read' => p <= read \/ Located(model.nodes[p])'
  PROVE  BuildInv'
<1>1. ListedKept /\ OwnedAreGrown /\ model \in Models
  BY DEF BuildInv, IInv, Typed
<1>2. \A p \in DOMAIN model.nodes : model.nodes[p] \in Configs
  BY <1>1, ModelFacts
<1>3. ListedKept'
  <2>1. SUFFICES ASSUME NEW p \in DOMAIN model.nodes, p <= read'
                 PROVE  Located(model.nodes[p])'
    BY DEF ListedKept
  <2>2. CASE p <= read
    <3>1. PICK c \in Configs : c = model.nodes[p]
      BY <1>2
    <3>2. Located(c)
      BY <1>1, <2>2, <3>1 DEF ListedKept
    <3>3. Located(c)'
      BY <3>2, Zenon DEF Moves
    <3>4. c = model'.nodes[p]
      BY <3>1
    <3>5. QED
      BY <3>3, <3>4
  <2>3. QED
    BY <2>1, <2>2
<1>4. OwnedAreGrown'
  <2>1. SUFFICES ASSUME NEW c \in Configs, Owned(c)' PROVE Grown(c)'
    BY DEF OwnedAreGrown
  <2>2. Owned(c) \/ Grown(c)'
    BY <2>1, Zenon DEF Moves
  <2>3. Grown(c) => Grown(c)'
    BY DEF Grown
  <2>4. QED
    BY <1>1, <2>2, <2>3 DEF OwnedAreGrown
<1>5. QED
  BY <1>3, <1>4 DEF BuildInv

LEMMA BuildInvStep ==
  ASSUME BuildInv, [Next]_vars
  PROVE  BuildInv'
<1>1. IInv
  BY DEF BuildInv
<1>2. CASE UNCHANGED vars
  <2>1. /\ UNCHANGED <<model, read, stack, built, node_refs, child_nodes, updaters,
                       root>>
        /\ status' = status /\ model' = model /\ read' = read
        /\ child_nodes' = child_nodes /\ updaters' = updaters /\ stack' = stack
        /\ built' = built /\ node_refs' = node_refs /\ root' = root
    BY <1>2 DEF vars
  <2>2. IInv' /\ Moves
    BY <1>1, <2>1, StutterKeeps
  <2>3. ASSUME status # "error" PROVE BuildInv'
    <3>1. Fits
      BY <2>3 DEF BuildInv
    <3>2. Fits'
      BY <2>1, <3>1 DEF Fits, BuiltFits, Suits, Chained, Begun, Awaits, Taken,
                        LacksChildren, Waiting, Done
    <3>3. Layered'
      <4>1. Layered
        BY <2>3 DEF BuildInv
      <4>2. QED
        BY <2>1, <4>1 DEF Layered, Above, Attached
    <3>4. \A p \in DOMAIN model.nodes :
            p <= read' => p <= read \/ Located(model.nodes[p])'
      BY <2>1
    <3>5. QED
      BY <2>1, <2>2, <2>3, <3>2, <3>3, <3>4, BuildGoesOn
  <2>4. QED
    BY <2>1, <2>2, <2>3 DEF BuildInv
<1>3. CASE Next /\ Fail
  BY <1>1, <1>3, FailKeeps DEF BuildInv, Fail
<1>4. CASE Next /\ ~ Fail
  <2>1. status = "building"
    BY <1>4 DEF Next, TakeNode, AppendByIndex, AppendByNode, NoChild,
                BuildUpdateTree, FinishBranch, Store, Finish, MoreBranches,
                MoreUpdates
  <2>2. status # "error" /\ Fits /\ Layered
    BY <2>1 DEF BuildInv
  <2>3. ASSUME UNCHANGED <<model, child_nodes, updaters>>
        PROVE  /\ Layered' /\ model' = model
               /\ DOMAIN child_nodes \subseteq DOMAIN child_nodes'
    BY <2>2, <2>3 DEF Layered, Above, Attached
  <2>4. ASSUME read' = read
        PROVE  \A p \in DOMAIN model.nodes :
                 p <= read' => p <= read \/ Located(model.nodes[p])'
    BY <2>4
  <2>5. CASE TakeNode
    <3>1. IInv' /\ Moves /\ Located(model.nodes[read])'
      BY <1>1, <1>4, <2>5, TakeNodeKeeps
    <3>2. Fits'
      BY <1>1, <1>4, <2>2, <2>5, TakeNodeFits
    <3>3. read' = read + 1 /\ UNCHANGED <<model, child_nodes, updaters>>
      BY <1>4, <2>5 DEF TakeNode, Enter
    <3>4. \A p \in DOMAIN model.nodes :
            p <= read' => p <= read \/ Located(model.nodes[p])'
      <4>1. SUFFICES ASSUME NEW p \in DOMAIN model.nodes, p <= read', ~ (p <= read)
                     PROVE  Located(model.nodes[p])'
        OBVIOUS
      <4>2. p \in Nat /\ read \in Nat
        <5>1. model.nodes \in Seq(Configs) /\ read \in Nat
          BY <1>1, ModelFacts DEF IInv, Typed
        <5>2. QED
          BY <5>1
      <4>3. p = read'
        BY <3>3, <4>1, <4>2
      <4>4. QED
        BY <3>1, <4>3
    <3>5. QED
      BY <2>2, <2>3, <3>1, <3>2, <3>3, <3>4, BuildGoesOn
  <2>6. CASE AppendByIndex
    <3>1. IInv' /\ Moves
      BY <1>1, <1>4, <2>6, AppendByIndexKeeps
    <3>2. Fits'
      BY <1>1, <2>2, <2>6, AppendByIndexFits
    <3>3. read' = read /\ UNCHANGED <<model, child_nodes, updaters>>
      BY <2>6 DEF AppendByIndex
    <3>4. QED
      BY <2>2, <2>3, <2>4, <3>1, <3>2, <3>3, BuildGoesOn
  <2>7. CASE AppendByNode
    <3>1. IInv' /\ Moves
      BY <1>1, <1>4, <2>7, AppendByNodeKeeps
    <3>2. Fits'
      BY <1>1, <2>2, <2>7, AppendByNodeFits
    <3>3. read' = read /\ UNCHANGED <<model, child_nodes, updaters>>
      BY <2>7 DEF AppendByNode, Enter
    <3>4. QED
      BY <2>2, <2>3, <2>4, <3>1, <3>2, <3>3, BuildGoesOn
  <2>8. CASE NoChild
    BY <1>4, <2>8 DEF NoChild
  <2>9. CASE BuildUpdateTree
    <3>1. IInv' /\ Moves
      BY <1>1, <1>4, <2>9, BuildUpdateTreeKeeps
    <3>2. Fits'
      BY <1>1, <1>4, <2>2, <2>9, BuildUpdateTreeFits
    <3>3. read' = read /\ UNCHANGED <<model, child_nodes, updaters>>
      BY <1>4, <2>9 DEF BuildUpdateTree, Enter
    <3>4. QED
      BY <2>2, <2>3, <2>4, <3>1, <3>2, <3>3, BuildGoesOn
  <2>10. CASE FinishBranch
    <3>1. IInv' /\ Moves
      BY <1>1, <1>4, <2>10, FinishBranchKeeps
    <3>2. Fits' /\ Layered'
      BY <1>1, <1>4, <2>2, <2>10, FinishBranchFits, FinishBranchLayered
    <3>3. /\ read' = read /\ model' = model
          /\ DOMAIN child_nodes \subseteq DOMAIN child_nodes'
      BY <1>4, <2>10 DEF FinishBranch, Extended
    <3>4. QED
      BY <2>2, <2>4, <3>1, <3>2, <3>3, BuildGoesOn
  <2>11. CASE Store
    <3>1. IInv' /\ Moves
      BY <1>1, <1>4, <2>11, StoreKeeps
    <3>2. Fits'
      BY <1>1, <1>4, <2>2, <2>11, StoreFits
    <3>3. read' = read /\ UNCHANGED <<model, child_nodes, updaters>>
      BY <1>4, <2>11 DEF Store
    <3>4. QED
      BY <2>2, <2>3, <2>4, <3>1, <3>2, <3>3, BuildGoesOn
  <2>12. CASE Finish
    <3>1. IInv' /\ Moves
      BY <1>1, <1>4, <2>12, FinishKeeps
    <3>2. Fits'
      BY <1>1, <1>4, <2>2, <2>12, FinishFits
    <3>3. read' = read /\ UNCHANGED <<model, child_nodes, updaters>>
      BY <1>4, <2>12 DEF Finish
    <3>4. QED
      BY <2>2, <2>3, <2>4, <3>1, <3>2, <3>3, BuildGoesOn
  <2>13. QED
    BY <1>4, <2>5, <2>6, <2>7, <2>8, <2>9, <2>10, <2>11, <2>12 DEF Next
<1>5. QED
  BY <1>2, <1>3, <1>4

LEMMA BuildInvInit ==
  ASSUME Init
  PROVE  BuildInv
<1>1. IInv
  BY InitKeeps
<1>2. /\ stack = <<>> /\ built = NoNode /\ read = 0 /\ root = NoNode
      /\ DOMAIN node_refs = {} /\ DOMAIN child_nodes = {} /\ status = "building"
      /\ model \in Models
  BY DEF Init, NoRefs
<1>3. model.nodes \in Seq(Configs)
  BY <1>2, ModelFacts
<1>4. Fits
  <2>1. 0 <= Len(model.nodes)
    BY <1>3
  <2>2. updaters = [d \in DOMAIN child_nodes |-> model.updates[d]]
    BY DEF Init, NoRefs
  <2>3. QED
    BY <1>2, <2>1, <2>2 DEF Fits, BuiltFits, Chained, Waiting
<1>5. Layered
  <2>1. 0 \in Nat /\ [c \in Configs |-> 0] \in [Configs -> 0 .. 0]
    OBVIOUS
  <2>2. Above([c \in Configs |-> 0])
    BY <1>2 DEF Above
  <2>3. QED
    BY <2>1, <2>2, Zenon DEF Layered
<1>6. ListedKept
  <2>1. \A p \in DOMAIN model.nodes : p \in Nat /\ p > 0
    BY <1>3
  <2>2. QED
    BY <1>2, <2>1 DEF ListedKept
<1>7. OwnedAreGrown
  <2>1. \A kind, x, k : \A c \in Configs : ~ At(kind, x, k, c)
    BY <1>2, ModelsAssumption DEF At, Working, Kept
  <2>2. QED
    BY <2>1, Zenon DEF OwnedAreGrown, Owned
<1>8. QED
  BY <1>1, <1>4, <1>5, <1>6, <1>7 DEF BuildInv

-----------------------------------------------------------------------------
(***************************************************************************)
(* What was built has all that was given.                                  *)
(***************************************************************************)
PartsOf == [c \in Configs |-> Parts(model, c)]
Below ==
  [c \in Configs |-> IF c \in DOMAIN child_nodes THEN Attached(c) ELSE {}]

\* The parts of a message are what its branches nest and its update trees.
LEMMA PartsFacts ==
  ASSUME model \in Models, NEW e \in Configs
  PROVE  /\ Parts(model, e) \subseteq Configs
         /\ \A d \in Parts(model, e) :
              \/ \E k \in DOMAIN model.branches[e] : model.branches[e][k] = ByNode(d)
              \/ \E k \in DOMAIN model.updates[e] : model.updates[e][k] = d
         /\ \A d : \A k \in DOMAIN model.branches[e] :
              model.branches[e][k] = ByNode(d) => d \in Parts(model, e)
         /\ \A d : \A k \in DOMAIN model.updates[e] :
              model.updates[e][k] = d => d \in Parts(model, e)
<1>1. model.branches[e] \in Seq(Branches) /\ model.updates[e] \in Seq(Configs)
  BY ModelFacts
<1>2. \A b \in Branches : b.by = "node" => b.node \in Configs /\ b = ByNode(b.node)
  <2>1. ASSUME NEW b \in Branches, b.by = "node"
        PROVE  b.node \in Configs /\ b = ByNode(b.node)
    <3>1. PICK d \in Configs : b = ByNode(d)
      BY <2>1 DEF Branches, ByIndex, Childless
    <3>2. b.node = d
      BY <3>1 DEF ByNode
    <3>3. QED
      BY <3>1, <3>2
  <2>2. QED
    BY <2>1
<1>3. ASSUME NEW d \in Parts(model, e)
      PROVE  /\ d \in Configs
             /\ \/ \E k \in DOMAIN model.branches[e] : model.branches[e][k] = ByNode(d)
                \/ \E k \in DOMAIN model.updates[e] : model.updates[e][k] = d
  <2>1. CASE d \in ToSet(model.updates[e])
    BY <1>1, <2>1 DEF ToSet
  <2>2. CASE d \in {b.node : b \in {x \in ToSet(model.branches[e]) : x.by = "node"}}
    <3>1. PICK b \in ToSet(model.branches[e]) : b.by = "node" /\ d = b.node
      BY <2>2
    <3>2. PICK k \in DOMAIN model.branches[e] : model.branches[e][k] = b
      BY <3>1 DEF ToSet
    <3>3. b \in Branches
      BY <1>1, <3>2
    <3>4. QED
      BY <1>2, <3>1, <3>2, <3>3
  <2>3. QED
    BY <1>3, <2>1, <2>2 DEF Parts
<1>4. ASSUME NEW d, NEW k \in DOMAIN model.branches[e],
             model.branches[e][k] = ByNode(d)
      PROVE  d \in Parts(model, e)
  <2>1. /\ ByNode(d) \in ToSet(model.branches[e])
        /\ ByNode(d).by = "node" /\ ByNode(d).node = d
    BY <1>4 DEF ToSet, ByNode
  <2>2. QED
    BY <2>1 DEF Parts
<1>5. ASSUME NEW d, NEW k \in DOMAIN model.updates[e], model.updates[e][k] = d
      PROVE  d \in Parts(model, e)
  BY <1>5 DEF Parts, ToSet
<1>6. QED
  BY <1>3, <1>4, <1>5

LEMMA PartsGoDown ==
  ASSUME model \in Models
  PROVE  \E h : GoesDown(PartsOf, Configs, MaxDepth, h)
<1>1. PICK h \in [Configs -> 0 .. MaxDepth] :
        \A c \in Configs : \A d \in Parts(model, c) : h[d] < h[c]
  BY ModelsAssumption
<1>2. \A c \in Configs : Parts(model, c) \subseteq Configs
  BY PartsFacts
<1>3. PartsOf \in [Configs -> SUBSET Configs]
  BY <1>2 DEF PartsOf
<1>4. \A c \in Configs : \A d \in PartsOf[c] : h[d] < h[c]
  BY <1>1 DEF PartsOf
<1>5. MaxDepth \in Nat
  BY ModelsAssumption
<1>6. GoesDown(PartsOf, Configs, MaxDepth, h)
  BY <1>3, <1>4, <1>5 DEF GoesDown
<1>7. QED
  BY <1>6, Zenon

LEMMA UnderIsClosure ==
  ASSUME model \in Models
  PROVE  IsClosure(Under, Configs, PartsOf)
<1> DEFINE G(f) == [c \in Configs |-> {c} \cup UNION {f[d] : d \in Parts(model, c)}]
           E(g) == g = G(g)
<1>1. ASSUME NEW f
      PROVE  G(f) = [c \in Configs |-> {c} \cup UNION {f[d] : d \in PartsOf[c]}]
  BY DEF PartsOf
<1>2. Under = CHOOSE g : E(g)
  BY DEF Under
<1>3. PartsOf \in [Configs -> SUBSET Configs]
  BY PartsFacts DEF PartsOf
<1>4. PICK f : IsClosure(f, Configs, PartsOf)
  BY <1>3, ClosureExists, Zenon
<1> HIDE DEF G
<1>5. E(f)
  <2>1. f = [c \in Configs |-> {c} \cup UNION {f[d] : d \in PartsOf[c]}]
    BY <1>4 DEF IsClosure
  <2>2. G(f) = [c \in Configs |-> {c} \cup UNION {f[d] : d \in PartsOf[c]}]
    BY <1>1
  <2>3. QED
    BY <2>1, <2>2, Zenon
<1> HIDE DEF E
<1>6. E(Under)
  BY <1>2, <1>5, Zenon
<1>7. Under = G(Under)
  BY <1>6 DEF E
<1>8. G(Under) = [c \in Configs |-> {c} \cup UNION {Under[d] : d \in PartsOf[c]}]
  BY <1>1
<1>9. QED
  BY <1>7, <1>8, Zenon DEF IsClosure

LEMMA BelowGoesDown ==
  ASSUME IInv, Fits, Layered
  PROVE  \E K, h : GoesDown(Below, Configs, K, h)
<1>1. PICK K \in Nat : \E h \in [Configs -> 0 .. K] : Above(h)
  BY DEF Layered
<1>2. PICK h \in [Configs -> 0 .. K] : Above(h)
  BY <1>1
<1>3. \A x \in DOMAIN child_nodes : Attached(x) \subseteq Configs
  BY AttachedAt
<1>4. Below \in [Configs -> SUBSET Configs]
  BY <1>3 DEF Below
<1>5. \A c \in Configs : \A d \in Below[c] : h[d] < h[c]
  BY <1>2 DEF Below, Above
<1>6. GoesDown(Below, Configs, K, h)
  BY <1>4, <1>5 DEF GoesDown
<1>7. QED
  BY <1>6, Zenon

LEMMA ReachedIsClosure ==
  ASSUME IInv, Fits
  PROVE  IsClosure(Reached, Configs, Below)
<1> DEFINE G(f) == [c \in Configs |->
                      {c} \cup IF c \in DOMAIN child_nodes
                               THEN UNION { f[d] : d \in ToSet(child_nodes[c])
                                                           \cup ToSet(updaters[c]) }
                               ELSE {}]
           E(g) == g = G(g)
<1>1. ASSUME NEW f
      PROVE  G(f) = [c \in Configs |-> {c} \cup UNION {f[d] : d \in Below[c]}]
  <2>1. ASSUME NEW c \in Configs
        PROVE  (IF c \in DOMAIN child_nodes
                THEN UNION { f[d] : d \in ToSet(child_nodes[c]) \cup ToSet(updaters[c]) }
                ELSE {}) = UNION {f[d] : d \in Below[c]}
    BY DEF Below, Attached
  <2>2. QED
    BY <2>1
<1>2. Reached = CHOOSE g : E(g)
  BY DEF Reached
<1>3. Below \in [Configs -> SUBSET Configs]
  BY AttachedAt DEF Below
<1>4. PICK f : IsClosure(f, Configs, Below)
  BY <1>3, ClosureExists, Zenon
<1> HIDE DEF G
<1>5. E(f)
  <2>1. f = [c \in Configs |-> {c} \cup UNION {f[d] : d \in Below[c]}]
    BY <1>4 DEF IsClosure
  <2>2. G(f) = [c \in Configs |-> {c} \cup UNION {f[d] : d \in Below[c]}]
    BY <1>1
  <2>3. QED
    BY <2>1, <2>2, Zenon
<1> HIDE DEF E
<1>6. E(Reached)
  BY <1>2, <1>5, Zenon
<1>7. Reached = G(Reached)
  BY <1>6 DEF E
<1>8. G(Reached) = [c \in Configs |-> {c} \cup UNION {Reached[d] : d \in Below[c]}]
  BY <1>1
<1>9. QED
  BY <1>7, <1>8, Zenon DEF IsClosure

\* At the end, nothing is on the stack or in the hands of Build.
LEMMA DoneFacts ==
  ASSUME BuildInv, status = "ok"
  PROVE  /\ IInv /\ Fits /\ Layered /\ ListedKept /\ OwnedAreGrown /\ model \in Models
         /\ stack = <<>> /\ root \in Configs /\ read = Len(model.nodes)
         /\ read \in DOMAIN model.nodes /\ root = model.nodes[read]
         /\ \A c \in Configs : \A kind, x, k :
              At(kind, x, k, c)
                <=> \/ /\ kind = "child" /\ x \in DOMAIN child_nodes
                       /\ k \in DOMAIN child_nodes[x] /\ child_nodes[x][k] = c
                    \/ /\ kind = "updater" /\ x \in DOMAIN child_nodes
                       /\ k \in DOMAIN updaters[x] /\ updaters[x][k] = c
                    \/ kind = "root" /\ x = 0 /\ k = 0 /\ root = c
<1>1. /\ IInv /\ Fits /\ Layered /\ ListedKept /\ OwnedAreGrown /\ Typed
      /\ model \in Models
  BY DEF BuildInv, IInv, Typed
<1>2. /\ stack = <<>> /\ built = NoNode /\ root # NoNode /\ Taken(root)
      /\ DOMAIN node_refs = {} /\ read = Len(model.nodes)
  BY <1>1 DEF Fits, Done
<1>3. /\ root \in Configs /\ read \in DOMAIN model.nodes /\ root = model.nodes[read]
  BY <1>1, <1>2 DEF Taken, Typed
<1>4. NoNode \notin Configs
  BY ModelsAssumption
<1>5. \A c \in Configs : \A kind, x, k : ~ Working(stack, built, kind, x, k, c)
  BY <1>2, <1>4 DEF Working
<1>6. \A c \in Configs : \A kind, x, k :
        At(kind, x, k, c)
          <=> \/ /\ kind = "child" /\ x \in DOMAIN child_nodes
                 /\ k \in DOMAIN child_nodes[x] /\ child_nodes[x][k] = c
              \/ /\ kind = "updater" /\ x \in DOMAIN child_nodes
                 /\ k \in DOMAIN updaters[x] /\ updaters[x][k] = c
              \/ kind = "root" /\ x = 0 /\ k = 0 /\ root = c
  BY <1>2, <1>5 DEF At, Kept
<1>7. QED
  BY <1>1, <1>2, <1>3, <1>6

\* Whatever is somewhere is a part of a message that was taken from the list.
LEMMA LocatedIsGiven ==
  ASSUME IInv, NEW c \in Configs, Located(c)
  PROVE  \E p \in DOMAIN model.nodes : p <= read /\ c \in Under[model.nodes[p]]
<1>1. model \in Models
  BY DEF IInv, Typed
<1>2. PICK h : GoesDown(PartsOf, Configs, MaxDepth, h)
  BY <1>1, PartsGoDown
<1>3. IsClosure(Under, Configs, PartsOf)
  BY <1>1, UnderIsClosure
<1>4. /\ \A e \in Configs : e \in Under[e]
      /\ \A e \in Configs : \A m \in Under[e] : PartsOf[m] \subseteq Under[e]
  BY <1>2, <1>3, ClosureFacts
<1>5. \A p \in DOMAIN model.nodes : model.nodes[p] \in Configs
  <2>1. model.nodes \in Seq(Configs)
    BY <1>1, ModelFacts
  <2>2. QED
    BY <2>1
<1> DEFINE Given(d) == \E p \in DOMAIN model.nodes :
                         p <= read /\ d \in Under[model.nodes[p]]
           T == {d \in Configs : Located(d) => Given(d)}
<1>6. ASSUME NEW e \in Configs, Given(e), NEW d \in Parts(model, e)
      PROVE  Given(d)
  <2>1. PICK p \in DOMAIN model.nodes : p <= read /\ e \in Under[model.nodes[p]]
    BY <1>6
  <2>2. PartsOf[e] \subseteq Under[model.nodes[p]]
    BY <1>4, <1>5, <2>1
  <2>3. d \in PartsOf[e]
    BY <1>6 DEF PartsOf
  <2>4. QED
    BY <2>1, <2>2, <2>3
<1>7. ASSUME NEW d \in Configs, \A e \in Configs : h[d] < h[e] => e \in T
      PROVE  d \in T
  <2>1. SUFFICES ASSUME Located(d) PROVE Given(d)
    OBVIOUS
  <2>2. Passed(d)
    BY <2>1 DEF IInv
  <2>3. ASSUME NEW p \in DOMAIN model.nodes, model.nodes[p] = d, p <= read
        PROVE  Given(d)
    BY <1>4, <2>3
  <2>4. ASSUME NEW e \in Configs, d \in Parts(model, e), Located(e)
        PROVE  Given(d)
    <3>1. h[d] < h[e]
      BY <1>2, <2>4 DEF GoesDown, PartsOf
    <3>2. Given(e)
      BY <1>7, <2>4, <3>1
    <3>3. QED
      BY <1>6, <2>4, <3>2
  <2>5. ASSUME NEW e \in Configs, e \in DOMAIN child_nodes PROVE Located(e)
    <3>1. Owned(e)
      BY <2>5 DEF IInv
    <3>2. QED
      BY <3>1, Zenon DEF Owned, Located
  <2>6. ASSUME NEW f \in DOMAIN stack PROVE Located(stack[f].node)
    <3>1. At("stack", f, 0, stack[f].node)
      BY <2>6, StackOnce
    <3>2. QED
      BY <3>1, Zenon DEF Located
  <2>7. \A e \in Configs : \A k : /\ BranchPassed(e, k) => Located(e)
                                  /\ UpdatePassed(e, k) => Located(e)
    BY <2>5, <2>6 DEF BranchPassed, UpdatePassed
  <2>8. \A e \in Configs :
          /\ \A k \in DOMAIN model.branches[e] :
               model.branches[e][k] = ByNode(d) => d \in Parts(model, e)
          /\ \A k \in DOMAIN model.updates[e] :
               model.updates[e][k] = d => d \in Parts(model, e)
    BY <1>1, PartsFacts
  <2> HIDE DEF Given
  <2>9. QED
    BY <2>2, <2>3, <2>4, <2>7, <2>8, Zenon DEF Passed
<1>8. MaxDepth \in Nat /\ h \in [Configs -> 0 .. MaxDepth]
  BY <1>2 DEF GoesDown
<1>9. Configs \subseteq T
  <2> HIDE DEF T
  <2>1. QED
    BY <1>7, <1>8, HighestFirst
<1>10. QED
  BY <1>9

\* With a node that has an owner every part of it has one.
LEMMA OwnedIsWhole ==
  ASSUME IInv, Fits, OwnedAreGrown, NEW c \in Configs, Owned(c)
  PROVE  \A d \in Under[c] : d \in Configs /\ Owned(d)
<1>1. model \in Models
  BY DEF IInv, Typed
<1> DEFINE T == {d \in Configs : Owned(d)}
<1>2. ASSUME NEW e \in T, NEW d \in Parts(model, e)
      PROVE  d \in T
  <2>1. e \in Configs /\ Owned(e) /\ d \in Configs
    BY <1>1, <1>2, PartsFacts
  <2>2. /\ model.branches[e] \in Seq(Branches) /\ model.updates[e] \in Seq(Configs)
    BY <1>1, <2>1, ModelFacts
  <2>3. e \in model.branching
    <3>1. e \notin model.branching => model.branches[e] = <<>> /\ model.updates[e] = <<>>
      BY <1>1, <2>1, ModelsAssumption
    <3>2. model.branches[e] # <<>> \/ model.updates[e] # <<>>
      <4>1. \/ \E k \in DOMAIN model.branches[e] : model.branches[e][k] = ByNode(d)
            \/ \E k \in DOMAIN model.updates[e] : model.updates[e][k] = d
        BY <1>1, <1>2, PartsFacts
      <4>2. QED
        BY <2>2, <4>1
    <3>3. QED
      BY <3>1, <3>2
  <2>4. e \in DOMAIN child_nodes
    BY <2>1, <2>3 DEF OwnedAreGrown, Grown
  <2>5. CASE \E k \in DOMAIN model.branches[e] : model.branches[e][k] = ByNode(d)
    <3>1. PICK k \in DOMAIN model.branches[e] : model.branches[e][k] = ByNode(d)
      BY <2>5
    <3>2. /\ k \in DOMAIN child_nodes[e]
          /\ Suits(model.branches[e][k], child_nodes[e][k])
      <4>1. /\ child_nodes[e] \in Seq(Configs)
            /\ Len(child_nodes[e]) = Len(model.branches[e])
        BY <2>4 DEF Fits, BuiltFits
      <4>2. k \in DOMAIN child_nodes[e]
        BY <2>2, <3>1, <4>1
      <4>3. QED
        BY <2>4, <4>2 DEF Fits, BuiltFits
    <3>3. child_nodes[e][k] = d
      BY <3>1, <3>2 DEF Suits, ByNode
    <3>4. At("child", e, k, d)
      BY <2>4, <3>2, <3>3 DEF At, Kept
    <3>5. QED
      BY <2>1, <3>4, Zenon DEF Owned
  <2>6. CASE \E k \in DOMAIN model.updates[e] : model.updates[e][k] = d
    <3>1. PICK k \in DOMAIN model.updates[e] : model.updates[e][k] = d
      BY <2>6
    <3>2. updaters[e] = model.updates[e]
      BY <2>4 DEF Fits, BuiltFits
    <3>3. At("updater", e, k, d)
      BY <2>4, <3>1, <3>2 DEF At, Kept
    <3>4. QED
      BY <2>1, <3>3, Zenon DEF Owned
  <2>7. QED
    BY <1>1, <2>1, <2>5, <2>6, PartsFacts
<1>3. Under[c] \subseteq T
  <2>1. PICK h : GoesDown(PartsOf, Configs, MaxDepth, h)
    BY <1>1, PartsGoDown
  <2>2. IsClosure(Under, Configs, PartsOf)
    BY <1>1, UnderIsClosure
  <2>3. \A S \in SUBSET Configs : (\A m \in S : PartsOf[m] \subseteq S)
          => \A d \in S : Under[d] \subseteq S
    BY <2>1, <2>2, ClosureFacts
  <2>4. c \in T /\ T \in SUBSET Configs /\ \A m \in T : PartsOf[m] = Parts(model, m)
    BY DEF PartsOf
  <2> HIDE DEF T
  <2>5. \A m \in T : PartsOf[m] \subseteq T
    BY <1>2, <2>4
  <2>6. QED
    BY <2>3, <2>4, <2>5
<1>4. QED
  BY <1>3

\* Between two nodes of the list, every part of what was taken has an owner.
LEMMA GivenIsOwned ==
  ASSUME IInv, Fits, ListedKept, OwnedAreGrown, stack = <<>>,
         NEW p \in DOMAIN model.nodes, p <= read, NEW c \in Under[model.nodes[p]]
  PROVE  c \in Configs /\ Owned(c)
<1>1. PICK d \in Configs : d = model.nodes[p]
  <2>1. model.nodes \in Seq(Configs)
    BY ModelFacts DEF IInv, Typed
  <2>2. QED
    BY <2>1
<1>2. Located(d)
  BY <1>1 DEF ListedKept
<1>3. \A kind, x, k : At(kind, x, k, d) => kind # "stack"
  <2>1. DOMAIN stack = {}
    OBVIOUS
  <2>2. QED
    BY <2>1 DEF At, Working, Kept
<1>4. Owned(d)
  BY <1>2, <1>3, Zenon DEF Located, Owned
<1>5. QED
  BY <1>1, <1>4, OwnedIsWhole

\* The tree has the root, and whatever has an owner.
LEMMA OwnedIsReached ==
  ASSUME BuildInv, status = "ok"
  PROVE  /\ \A c \in Reached[root] : c \in Configs /\ Located(c)
         /\ \A c \in Configs : Owned(c) => c \in Reached[root]
<1>1. /\ IInv /\ Fits /\ Layered /\ model \in Models /\ root \in Configs
      /\ \A d \in Configs : \A kind, x, k :
              At(kind, x, k, d)
                <=> \/ /\ kind = "child" /\ x \in DOMAIN child_nodes
                       /\ k \in DOMAIN child_nodes[x] /\ child_nodes[x][k] = d
                    \/ /\ kind = "updater" /\ x \in DOMAIN child_nodes
                       /\ k \in DOMAIN updaters[x] /\ updaters[x][k] = d
                    \/ kind = "root" /\ x = 0 /\ k = 0 /\ root = d
  BY DoneFacts
<1>2. PICK K, h : GoesDown(Below, Configs, K, h)
  BY <1>1, BelowGoesDown
<1>3. IsClosure(Reached, Configs, Below)
  BY <1>1, ReachedIsClosure
<1>4. /\ \A c \in Configs : c \in Reached[c]
      /\ \A c \in Configs : \A m \in Reached[c] : Below[m] \subseteq Reached[c]
      /\ \A T \in SUBSET Configs : (\A m \in T : Below[m] \subseteq T)
           => \A c \in T : Reached[c] \subseteq T
  BY <1>2, <1>3, ClosureFacts
<1>5. \A c \in Reached[root] : c \in Configs /\ Located(c)
  <2> DEFINE T == {c \in Configs : Located(c)}
  <2>1. root \in T
    <3>1. At("root", 0, 0, root)
      BY <1>1
    <3>2. QED
      BY <1>1, <3>1, Zenon DEF Located
  <2>2. ASSUME NEW m \in T, NEW d \in Below[m] PROVE d \in T
    <3>1. m \in DOMAIN child_nodes /\ d \in Attached(m)
      BY <2>2 DEF Below
    <3>2. PICK kind, k : At(kind, m, k, d)
      BY <1>1, <3>1, AttachedAt
    <3>3. d \in Configs
      BY <1>1, <3>1, AttachedAt
    <3>4. QED
      BY <3>2, <3>3, Zenon DEF Located
  <2>3. T \in SUBSET Configs
    OBVIOUS
  <2>4. Reached[root] \subseteq T
    <3> HIDE DEF T
    <3>1. QED
      BY <1>4, <2>1, <2>2, <2>3
  <2>5. QED
    BY <2>4
<1> DEFINE B == {c \in Configs : Owned(c) => c \in Reached[root]}
<1>6. ASSUME NEW c \in Configs, \A e \in Configs : h[c] < h[e] => e \in B
      PROVE  c \in B
  <2>1. SUFFICES ASSUME Owned(c) PROVE c \in Reached[root]
    OBVIOUS
  <2>2. PICK kind, x, k : At(kind, x, k, c)
    BY <2>1, Zenon DEF Owned
  <2>3. CASE kind = "root"
    <3>1. root = c
      BY <1>1, <2>2, <2>3
    <3>2. QED
      BY <1>1, <1>4, <3>1
  <2>4. CASE kind # "root"
    <3>1. x \in DOMAIN child_nodes /\ c \in Attached(x)
      BY <1>1, <2>2, <2>4 DEF Attached, ToSet
    <3>2. x \in Configs /\ Owned(x)
      BY <1>1, <3>1 DEF IInv, Typed
    <3>3. c \in Below[x]
      BY <3>1, <3>2 DEF Below
    <3>4. h[c] < h[x]
      BY <1>2, <3>2, <3>3 DEF GoesDown
    <3>5. x \in Reached[root]
      BY <1>6, <3>2, <3>4
    <3>6. QED
      BY <1>1, <1>4, <3>3, <3>5
  <2>5. QED
    BY <2>3, <2>4
<1>7. K \in Nat /\ h \in [Configs -> 0 .. K]
  BY <1>2 DEF GoesDown
<1>8. Configs \subseteq B
  <2> HIDE DEF B
  <2>1. QED
    BY <1>6, <1>7, HighestFirst
<1>9. QED
  BY <1>5, <1>8

\* The tree that is returned when Build succeeds.
LEMMA TreeOfBuild == BuildInv => TreeIsTheModel
<1> SUFFICES ASSUME BuildInv, status = "ok"
             PROVE  /\ root = Last(model.nodes)
                    /\ Reached[root] = UNION { Under[c] : c \in ToSet(model.nodes) }
                    /\ updaters = [c \in DOMAIN child_nodes |-> model.updates[c]]
                    /\ \A c \in DOMAIN child_nodes :
                         /\ Len(child_nodes[c]) = Len(model.branches[c])
                         /\ \A k \in DOMAIN child_nodes[c] :
                              LET b == model.branches[c][k]
                              IN  IF b.by = "node" THEN child_nodes[c][k] = b.node
                                  ELSE model.index[child_nodes[c][k]] = b.index
  BY DEF TreeIsTheModel
<1>1. /\ IInv /\ Fits /\ Layered /\ model \in Models /\ root \in Configs
      /\ read = Len(model.nodes) /\ read \in DOMAIN model.nodes
      /\ root = model.nodes[read]
  BY DoneFacts
<1>2. root = Last(model.nodes)
  BY <1>1 DEF Last
<1>3. Reached[root] \subseteq UNION { Under[c] : c \in ToSet(model.nodes) }
  <2>1. ASSUME NEW d \in Reached[root]
        PROVE  d \in UNION { Under[c] : c \in ToSet(model.nodes) }
    <3>1. d \in Configs /\ Located(d)
      BY <2>1, OwnedIsReached
    <3>2. PICK p \in DOMAIN model.nodes : p <= read /\ d \in Under[model.nodes[p]]
      BY <1>1, <3>1, LocatedIsGiven
    <3>3. QED
      BY <3>2 DEF ToSet
  <2>2. QED
    BY <2>1
<1>4. UNION { Under[c] : c \in ToSet(model.nodes) } \subseteq Reached[root]
  <2>1. ASSUME NEW p \in DOMAIN model.nodes, NEW d \in Under[model.nodes[p]]
        PROVE  d \in Reached[root]
    <3>1. p <= read
      <4>1. model.nodes \in Seq(Configs)
        BY <1>1, ModelFacts
      <4>2. QED
        BY <1>1, <2>1, <4>1
    <3>2. d \in Configs /\ Owned(d)
      BY <2>1, <3>1, DoneFacts, GivenIsOwned
    <3>3. QED
      BY <3>2, OwnedIsReached
  <2>2. QED
    BY <2>1 DEF ToSet
<1>5. updaters = [c \in DOMAIN child_nodes |-> model.updates[c]]
  BY <1>1 DEF Fits, BuiltFits
<1>6. \A c \in DOMAIN child_nodes :
        /\ Len(child_nodes[c]) = Len(model.branches[c])
        /\ \A k \in DOMAIN child_nodes[c] :
             LET b == model.branches[c][k]
             IN  IF b.by = "node" THEN child_nodes[c][k] = b.node
                 ELSE model.index[child_nodes[c][k]] = b.index
  BY <1>1 DEF Fits, BuiltFits, Suits
<1>7. QED
  BY <1>2, <1>3, <1>4, <1>5, <1>6

\* For every list of messages, in either library: when Build succeeds, the
\* tree has every message of the list and every part of one, no other, the
\* last of the list as its root, and each child where its parent's message
\* puts it.
THEOREM BuiltTreeIsModel == Spec => []TreeIsTheModel
<1>1. Init => BuildInv
  BY BuildInvInit
<1>2. BuildInv /\ [Next]_vars => BuildInv'
  BY BuildInvStep
<1>3. BuildInv => TreeIsTheModel
  BY TreeOfBuild
<1>4. QED
  BY <1>1, <1>2, <1>3, PTL DEF Spec
-----------------------------------------------------------------------------
(***************************************************************************)
(* Build accepts the lists that represent a tree, and no other: it counts. *)
(***************************************************************************)
\* A sequence has finitely many elements.
LEMMA FiniteRange ==
  ASSUME NEW T, NEW s \in Seq(T)
  PROVE  IsFiniteSet(ToSet(s)) /\ IsFiniteSet(DOMAIN s)
<1>1. DOMAIN s = 1 .. Len(s) /\ Len(s) \in Nat /\ s \in [1 .. Len(s) -> T]
  OBVIOUS
<1>2. IsFiniteSet(1 .. Len(s))
  BY <1>1, FS_Interval
<1>3. s \in Surjection(1 .. Len(s), ToSet(s))
  BY <1>1 DEF Surjection, ToSet
<1>4. QED
  BY <1>1, <1>2, <1>3, FS_Surjection

LEMMA PartsAreFinite ==
  ASSUME model \in Models, NEW c \in Configs
  PROVE  IsFiniteSet(Parts(model, c))
<1> DEFINE N == {x \in ToSet(model.branches[c]) : x.by = "node"}
<1>1. /\ IsFiniteSet(ToSet(model.branches[c])) /\ IsFiniteSet(ToSet(model.updates[c]))
  BY ModelFacts, FiniteRange
<1>2. IsFiniteSet(N)
  BY <1>1, FS_Subset
<1>3. PICK f : f = [x \in N |-> x.node]
  OBVIOUS
<1>4. f \in Surjection(N, {x.node : x \in N})
  BY <1>3 DEF Surjection
<1>5. IsFiniteSet({x.node : x \in N})
  BY <1>2, <1>4, FS_Surjection
<1>6. Parts(model, c) = {x.node : x \in N} \cup ToSet(model.updates[c])
  BY DEF Parts
<1>7. QED
  BY <1>1, <1>5, <1>6, FS_Union

\* A message has finitely many messages in it, and itself.
LEMMA UnderFacts ==
  ASSUME model \in Models
  PROVE  /\ \A c \in Configs : /\ c \in Under[c] /\ IsFiniteSet(Under[c])
                               /\ Under[c] \subseteq Configs
         /\ \A c \in Configs : \A d \in Under[c] : Parts(model, d) \subseteq Under[c]
         /\ \A c \in Configs : \A T \in SUBSET Configs :
              c \in T /\ (\A m \in T : Parts(model, m) \subseteq T) => Under[c] \subseteq T
<1>1. PICK h : GoesDown(PartsOf, Configs, MaxDepth, h)
  BY PartsGoDown
<1>2. IsClosure(Under, Configs, PartsOf)
  BY UnderIsClosure
<1>3. /\ \A c \in Configs : c \in Under[c]
      /\ \A c \in Configs : \A m \in Under[c] :
           m \in Configs /\ PartsOf[m] \subseteq Under[c]
      /\ \A T \in SUBSET Configs : (\A m \in T : PartsOf[m] \subseteq T)
           => \A c \in T : Under[c] \subseteq T
  BY <1>1, <1>2, ClosureFacts
<1>4. \A c \in Configs : PartsOf[c] = Parts(model, c) /\ PartsOf[c] \subseteq Configs
  BY PartsFacts DEF PartsOf
<1> DEFINE T == {c \in Configs : IsFiniteSet(Under[c])}
<1>5. ASSUME NEW c \in Configs, \A e \in Configs : h[e] < h[c] => e \in T
      PROVE  c \in T
  <2>1. Under[c] = {c} \cup UNION {Under[d] : d \in PartsOf[c]}
    BY <1>2 DEF IsClosure
  <2>2. \A d \in PartsOf[c] : IsFiniteSet(Under[d])
    BY <1>1, <1>4, <1>5 DEF GoesDown
  <2>3. IsFiniteSet(PartsOf[c])
    BY <1>4, PartsAreFinite
  <2>4. PICK f : f = [d \in PartsOf[c] |-> Under[d]]
    OBVIOUS
  <2>5. f \in Surjection(PartsOf[c], {Under[d] : d \in PartsOf[c]})
    BY <2>4 DEF Surjection
  <2>6. IsFiniteSet({Under[d] : d \in PartsOf[c]})
    BY <2>3, <2>5, FS_Surjection
  <2>7. IsFiniteSet(UNION {Under[d] : d \in PartsOf[c]})
    BY <2>2, <2>6, FS_UNION
  <2>8. IsFiniteSet({c})
    BY FS_Singleton
  <2>9. IsFiniteSet(Under[c])
    <3>1. PICK V : V = UNION {Under[d] : d \in PartsOf[c]}
      OBVIOUS
    <3>2. IsFiniteSet({c} \cup V)
      BY <2>7, <2>8, <3>1, FS_Union
    <3>3. QED
      BY <2>1, <3>1, <3>2, Zenon
  <2>10. QED
    BY <2>9
<1>6. Configs \subseteq T
  <2>1. MaxDepth \in Nat /\ h \in [Configs -> 0 .. MaxDepth]
    BY <1>1 DEF GoesDown
  <2> HIDE DEF T
  <2>2. QED
    BY <1>5, <2>1, LowestFirst
<1>7. QED
  BY <1>3, <1>4, <1>6

\* The claims are finitely many, and more with more nodes.
LEMMA ClaimsFacts ==
  ASSUME model \in Models, NEW i, NEW n \in Nat, n <= Len(model.nodes)
  PROVE  /\ \A x : x \in ClaimsOf(i, n) <=>
              \E p \in 1 .. n : \E d \in Under[model.nodes[p]] :
                \E k \in DOMAIN model.branches[d] :
                  model.branches[d][k] = ByIndex(i) /\ x = <<d, k>>
         /\ IsFiniteSet(ClaimsOf(i, n)) /\ Claims(i, n) \in Nat
         /\ \A m \in 0 .. n : Claims(i, m) <= Claims(i, n)
<1>1. model.nodes \in Seq(Configs) /\ \A p \in 1 .. n : model.nodes[p] \in Configs
  <2>1. model.nodes \in Seq(Configs)
    BY ModelFacts
  <2>2. \A p \in 1 .. n : p \in DOMAIN model.nodes
    BY <2>1
  <2>3. QED
    BY <2>1, <2>2
<1> DEFINE U(m) == UNION {Under[model.nodes[p]] : p \in 1 .. m}
           K(d) == {k \in DOMAIN model.branches[d] : model.branches[d][k] = ByIndex(i)}
<1>2. IsFiniteSet(U(n)) /\ U(n) \subseteq Configs
  <2>1. IsFiniteSet(1 .. n)
    BY FS_Interval
  <2>2. PICK f : f = [p \in 1 .. n |-> Under[model.nodes[p]]]
    OBVIOUS
  <2>3. f \in Surjection(1 .. n, {Under[model.nodes[p]] : p \in 1 .. n})
    BY <2>2 DEF Surjection
  <2>4. IsFiniteSet({Under[model.nodes[p]] : p \in 1 .. n})
    BY <2>1, <2>3, FS_Surjection
  <2>5. \A V \in {Under[model.nodes[p]] : p \in 1 .. n} :
          IsFiniteSet(V) /\ V \subseteq Configs
    BY <1>1, UnderFacts
  <2>6. IsFiniteSet(UNION {Under[model.nodes[p]] : p \in 1 .. n})
    BY <2>4, <2>5, FS_UNION
  <2>7. QED
    BY <2>5, <2>6
<1>3. \A d \in Configs : IsFiniteSet({d} \X K(d))
  <2>1. ASSUME NEW d \in Configs PROVE IsFiniteSet({d} \X K(d))
    <3>1. IsFiniteSet(DOMAIN model.branches[d])
      BY ModelFacts, FiniteRange
    <3>2. IsFiniteSet(K(d))
      BY <3>1, FS_Subset
    <3>3. IsFiniteSet({d})
      BY FS_Singleton
    <3>4. QED
      BY <3>2, <3>3, FS_Product
  <2>2. QED
    BY <2>1
<1>4. ClaimsOf(i, n) = UNION {{d} \X K(d) : d \in U(n)}
  BY DEF ClaimsOf
<1>5. IsFiniteSet(ClaimsOf(i, n))
  <2>1. PICK f : f = [d \in U(n) |-> {d} \X K(d)]
    OBVIOUS
  <2> HIDE DEF U, K
  <2>2. f \in Surjection(U(n), {{d} \X K(d) : d \in U(n)})
    BY <2>1 DEF Surjection
  <2>3. IsFiniteSet({{d} \X K(d) : d \in U(n)})
    BY <1>2, <2>2, FS_Surjection
  <2>4. \A Y \in {{d} \X K(d) : d \in U(n)} : IsFiniteSet(Y)
    BY <1>2, <1>3
  <2>5. QED
    BY <1>4, <2>3, <2>4, FS_UNION
<1>6. ASSUME NEW x
      PROVE  x \in ClaimsOf(i, n) <=>
              \E p \in 1 .. n : \E d \in Under[model.nodes[p]] :
                \E k \in DOMAIN model.branches[d] :
                  model.branches[d][k] = ByIndex(i) /\ x = <<d, k>>
  <2>1. x \in ClaimsOf(i, n) <=> \E d \in U(n) : \E k \in K(d) : x = <<d, k>>
    <3> HIDE DEF U, K
    <3>1. \A d : x \in {d} \X K(d) <=> \E k \in K(d) : x = <<d, k>>
      OBVIOUS
    <3>2. x \in ClaimsOf(i, n) <=> \E d \in U(n) : x \in {d} \X K(d)
      BY <1>4
    <3>3. QED
      BY <3>1, <3>2, Zenon
  <2>2. QED
    BY <2>1
<1>7. ASSUME NEW m \in 0 .. n
      PROVE  Claims(i, m) <= Claims(i, n)
  <2>1. \A p \in 1 .. m : p \in 1 .. n
    OBVIOUS
  <2>2. ClaimsOf(i, m) \subseteq ClaimsOf(i, n)
    BY <2>1 DEF ClaimsOf
  <2>3. QED
    BY <1>5, <2>2, FS_Subset DEF Claims
<1>8. Claims(i, n) \in Nat
  BY <1>5, FS_CardinalityType DEF Claims
<1>9. QED
  BY <1>5, <1>6, <1>7, <1>8

\* One more node of the list may have the index.
LEMMA DefinitionsFacts ==
  ASSUME NEW i, NEW n \in Nat
  PROVE  /\ Definitions(i, n) \in Nat /\ Definitions(i, 0) = 0
         /\ Definitions(i, n + 1) =
              Definitions(i, n)
                + IF Numbered(model.nodes[n + 1]) /\ model.index[model.nodes[n + 1]] = i
                  THEN 1 ELSE 0
<1> DEFINE Q(p) == Numbered(model.nodes[p]) /\ model.index[model.nodes[p]] = i
<1>1. \A m : DefinitionsOf(i, m) = {p \in 1 .. m : Q(p)}
  BY DEF DefinitionsOf
<1> HIDE DEF Q
<1>2. IsFiniteSet(DefinitionsOf(i, n))
  <2>1. IsFiniteSet(1 .. n)
    BY FS_Interval
  <2>2. QED
    BY <1>1, <2>1, FS_Subset
<1>3. DefinitionsOf(i, 0) = {}
  BY <1>1
<1>4. Definitions(i, n) \in Nat /\ Definitions(i, 0) = 0
  BY <1>2, <1>3, FS_CardinalityType, FS_EmptySet DEF Definitions
<1>5. 1 .. n + 1 = (1 .. n) \cup {n + 1}
  OBVIOUS
<1>6. CASE Q(n + 1)
  <2>1. DefinitionsOf(i, n + 1) = DefinitionsOf(i, n) \cup {n + 1}
    BY <1>1, <1>5, <1>6
  <2>2. n + 1 \notin DefinitionsOf(i, n)
    BY <1>1
  <2>3. Definitions(i, n + 1) = Definitions(i, n) + 1
    BY <1>2, <2>1, <2>2, FS_AddElement DEF Definitions
  <2>4. QED
    BY <1>4, <1>6, <2>3 DEF Q
<1>7. CASE ~ Q(n + 1)
  <2>1. \A p \in 1 .. n + 1 : Q(p) => p \in 1 .. n
    BY <1>5, <1>7
  <2>2. DefinitionsOf(i, n + 1) = {p \in 1 .. n + 1 : Q(p)}
    BY <1>1
  <2>3. DefinitionsOf(i, n) = {p \in 1 .. n : Q(p)}
    BY <1>1
  <2>4. DefinitionsOf(i, n + 1) = DefinitionsOf(i, n)
    BY <1>5, <2>1, <2>2, <2>3
  <2>5. Definitions(i, n + 1) = Definitions(i, n)
    BY <2>4 DEF Definitions
  <2>6. QED
    BY <1>4, <1>7, <2>5 DEF Q
<1>8. QED
  BY <1>6, <1>7
-----------------------------------------------------------------------------
\* What the messages say, and the nodes of the list by themselves, is the same
\* in every state.
LEMMA SameMessages ==
  ASSUME model' = model
  PROVE  /\ Under' = Under /\ Representable' = Representable
         /\ \A i, n : /\ Claims(i, n)' = Claims(i, n)
                      /\ Definitions(i, n)' = Definitions(i, n)
         /\ \A p : InOrder(p)' = InOrder(p)
<1>1. Under' = Under
  BY DEF Under
<1>2. \A c : Numbered(c)' = Numbered(c)
  BY DEF Numbered
<1>3. \A i, n : DefinitionsOf(i, n)' = DefinitionsOf(i, n)
  BY <1>2 DEF DefinitionsOf
<1>4. \A i, n : ClaimsOf(i, n)' = ClaimsOf(i, n)
  BY <1>1 DEF ClaimsOf
<1>5. \A i, n : /\ Claims(i, n)' = Claims(i, n)
                /\ Definitions(i, n)' = Definitions(i, n)
  BY <1>3, <1>4 DEF Claims, Definitions
<1>6. \A p : InOrder(p)' = InOrder(p)
  BY <1>5 DEF InOrder
<1>7. \A c : Complete(c)' = Complete(c)
  BY <1>1 DEF Complete
<1>8. Representable' = Representable
  BY <1>1, <1>2, <1>5, <1>6, <1>7 DEF Representable
<1>9. QED
  BY <1>1, <1>5, <1>6, <1>8

\* A message is in an update tree, of any branch node or of one that was taken
\* from the list.
InUpdate(c) == \E e \in Configs : \E u \in ToSet(model.updates[e]) : c \in Under[u]
InTakenUpdate(c) ==
  \E p \in DOMAIN model.nodes : p <= read /\
    \E e \in Under[model.nodes[p]] : \E u \in ToSet(model.updates[e]) : c \in Under[u]

\* Only the root of an update tree is there by itself.
LEMMA UpdateTreeFacts ==
  ASSUME model \in Models, NEW c \in Configs, InUpdate(c)
  PROVE  /\ \A p \in DOMAIN model.nodes : model.nodes[p] # c
         /\ \A e \in Configs : \A k \in DOMAIN model.branches[e] :
              model.branches[e][k] = ByNode(c) => InUpdate(e)
<1>1. PICK e \in Configs : \E u \in ToSet(model.updates[e]) : c \in Under[u]
  BY DEF InUpdate
<1>2. PICK u \in ToSet(model.updates[e]) : c \in Under[u]
  BY <1>1
<1>3. u \in Configs /\ \E k \in DOMAIN model.updates[e] : model.updates[e][k] = u
  <2>1. model.updates[e] \in Seq(Configs)
    BY ModelFacts
  <2>2. QED
    BY <1>2, <2>1 DEF ToSet
<1> DEFINE T == {x \in Under[u] : x = u \/ \E d \in Under[u] : x \in Parts(model, d)}
<1>4. c \in T
  <2>1. u \in T /\ T \in SUBSET Configs
    BY <1>3, UnderFacts
  <2>2. \A m \in T : Parts(model, m) \subseteq T
    BY <1>3, UnderFacts
  <2> HIDE DEF T
  <2>3. Under[u] \subseteq T
    BY <1>3, <2>1, <2>2, UnderFacts
  <2>4. QED
    BY <1>2, <2>3
<1>5. CASE c = u
  BY <1>3, <1>5, OnePlace
<1>6. CASE c # u
  <2>1. PICK d \in Under[u] : c \in Parts(model, d)
    BY <1>4, <1>6
  <2>2. d \in Configs /\ InUpdate(d)
    BY <1>2, <1>3, <2>1, UnderFacts DEF InUpdate
  <2>3. \/ \E j \in DOMAIN model.branches[d] : model.branches[d][j] = ByNode(c)
        \/ \E j \in DOMAIN model.updates[d] : model.updates[d][j] = c
    BY <2>1, <2>2, PartsFacts
  <2>4. QED
    BY <2>2, <2>3, OnePlace
<1>7. QED
  BY <1>5, <1>6

\* A nested message is in the same update trees, and an update tree in its own.
LEMMA TakenUpdateFacts ==
  ASSUME IInv, NEW e \in Configs
  PROVE  /\ InTakenUpdate(e) => \A d \in Parts(model, e) : InTakenUpdate(d)
         /\ Located(e) => \A u \in ToSet(model.updates[e]) : InTakenUpdate(u)
<1>1. model \in Models
  BY DEF IInv, Typed
<1>2. \A p \in DOMAIN model.nodes : Under[model.nodes[p]] \subseteq Configs
  <2>1. model.nodes \in Seq(Configs)
    BY <1>1, ModelFacts
  <2>2. QED
    BY <1>1, <2>1, UnderFacts
<1>3. \A d \in Configs : \A u \in ToSet(model.updates[d]) : u \in Configs
  <2>1. \A d \in Configs : model.updates[d] \in Seq(Configs)
    BY <1>1, ModelFacts
  <2>2. QED
    BY <2>1 DEF ToSet
<1>4. ASSUME InTakenUpdate(e), NEW d \in Parts(model, e) PROVE InTakenUpdate(d)
  <2>1. PICK p \in DOMAIN model.nodes : p <= read /\
          \E x \in Under[model.nodes[p]] : \E u \in ToSet(model.updates[x]) : e \in Under[u]
    BY <1>4 DEF InTakenUpdate
  <2>2. PICK x \in Under[model.nodes[p]] :
          \E u \in ToSet(model.updates[x]) : e \in Under[u]
    BY <2>1
  <2>3. PICK u \in ToSet(model.updates[x]) : e \in Under[u]
    BY <2>2
  <2>4. d \in Under[u]
    BY <1>1, <1>2, <1>3, <1>4, <2>2, <2>3, UnderFacts
  <2>5. QED
    BY <2>1, <2>2, <2>3, <2>4 DEF InTakenUpdate
<1>5. ASSUME Located(e), NEW u \in ToSet(model.updates[e]) PROVE InTakenUpdate(u)
  <2>1. PICK p \in DOMAIN model.nodes : p <= read /\ e \in Under[model.nodes[p]]
    BY <1>5, LocatedIsGiven
  <2>2. u \in Under[u]
    BY <1>1, <1>3, <1>5, UnderFacts
  <2>3. QED
    BY <1>5, <2>1, <2>2 DEF InTakenUpdate
<1>6. QED
  BY <1>4, <1>5
-----------------------------------------------------------------------------
\* The first n branches of a message claim no node.
Claimless(c, n) == \A k \in 1 .. n : model.branches[c][k].by # "index"

\* A call for a message of an update tree knows that it is in one, and has
\* found no branch that claims a node.  What a call builds is nested in it.
Allowed(fs) ==
  \A f \in DOMAIN fs :
    /\ model.branches[fs[f].node] # <<>>
    /\ InUpdate(fs[f].node) => fs[f].in_update
    /\ fs[f].in_update => /\ InTakenUpdate(fs[f].node)
                          /\ Claimless(fs[f].node, Len(fs[f].children))
    /\ f < Len(fs) /\ LacksChildren(fs[f]) =>
         model.branches[fs[f].node][Len(fs[f].children) + 1].by = "node"

BuiltAllowed ==
  \A x \in DOMAIN child_nodes :
    /\ x \in model.sound /\ model.branches[x] # <<>>
    /\ InUpdate(x) => Claimless(x, Len(model.branches[x]))

LEMMA HandOverAllowed ==
  ASSUME model \in Models, NEW fs \in Seq(Frame), NEW c \in Configs,
         HandOver(fs, c), model' = model, read' = read \/ fs = <<>>, Allowed(fs),
         fs # <<>> => LET a == fs[Len(fs)]
                      IN  LacksChildren(a) /\ a.in_update =>
                            model.branches[a.node][Len(a.children) + 1].by # "index"
  PROVE  Allowed(stack)'
<1>1. CASE fs = <<>>
  <2>1. stack' = <<>>
    BY <1>1 DEF HandOver
  <2>2. DOMAIN stack' = {}
    BY <2>1
  <2>3. QED
    BY <2>2 DEF Allowed
<1>2. CASE fs # <<>>
  <2>1. PICK n, a, b : n = Len(fs) /\ a = fs[n] /\ b = stack'[n]
    OBVIOUS
  <2>2. /\ Len(stack') = n /\ n \in DOMAIN fs /\ n \in Nat
        /\ DOMAIN stack' = DOMAIN fs /\ DOMAIN fs = 1 .. n
        /\ \A f \in DOMAIN fs : f # n => stack'[f] = fs[f]
        /\ b.node = a.node
        /\ LacksChildren(a) => b.children = Append(a.children, c)
        /\ ~ LacksChildren(a) => b.children = a.children
    BY <1>2, <2>1, HandOverFacts
  <2>3. a \in Frame /\ b.in_update = a.in_update
    <3>1. a \in Frame
      BY <2>1, <2>2
    <3>2. stack' = [fs EXCEPT ![n] = IF LacksChildren(a) THEN AppendChild(a, c)
                                     ELSE AppendUpdater(a, c)]
      BY <1>2, <2>1, <2>2 DEF HandOver
    <3>3. b = IF LacksChildren(a) THEN AppendChild(a, c) ELSE AppendUpdater(a, c)
      BY <2>1, <2>2, <3>2
    <3>4. QED
      BY <3>1, <3>3 DEF AppendChild, AppendUpdater, Frame
  <2>4. \A x : /\ InUpdate(x)' <=> InUpdate(x)
               /\ InTakenUpdate(x)' <=> InTakenUpdate(x)
    BY <1>2, SameMessages DEF InUpdate, InTakenUpdate
  <2>5. \A x, m : Claimless(x, m)' <=> Claimless(x, m)
    BY DEF Claimless
  <2>6. a.children \in Seq(Configs)
    BY <2>3 DEF Frame
  <2>7. a.in_update => Claimless(b.node, Len(b.children))
    <3>1. CASE LacksChildren(a)
      <4>1. Len(b.children) = Len(a.children) + 1 /\ Len(a.children) \in Nat
        BY <2>2, <2>6, <3>1
      <4>2. a.in_update => Claimless(a.node, Len(a.children))
        BY <2>1, <2>2 DEF Allowed
      <4>3. a.in_update => model.branches[a.node][Len(a.children) + 1].by # "index"
        BY <1>2, <2>1, <3>1
      <4>4. QED
        BY <2>2, <4>1, <4>2, <4>3 DEF Claimless
    <3>2. CASE ~ LacksChildren(a)
      BY <2>1, <2>2, <3>2 DEF Allowed
    <3>3. QED
      BY <3>1, <3>2
  <2>8. SUFFICES ASSUME NEW f \in 1 .. n
                 PROVE  LET fr == stack'[f]
                        IN  /\ model.branches[fr.node] # <<>>
                            /\ InUpdate(fr.node) => fr.in_update
                            /\ fr.in_update => /\ InTakenUpdate(fr.node)
                                               /\ Claimless(fr.node, Len(fr.children))
                            /\ f < n /\ LacksChildren(fr) =>
                                 model.branches[fr.node][Len(fr.children) + 1].by = "node"
    BY <2>2, <2>4, <2>5 DEF Allowed, LacksChildren
  <2>9. CASE f # n
    BY <2>1, <2>2, <2>8, <2>9 DEF Allowed
  <2>10. CASE f = n
    <3>1. /\ model.branches[a.node] # <<>>
          /\ InUpdate(a.node) => a.in_update
          /\ a.in_update => InTakenUpdate(a.node)
      BY <2>1, <2>2 DEF Allowed
    <3>2. QED
      BY <2>1, <2>2, <2>3, <2>7, <2>10, <3>1
  <2>11. QED
    BY <2>9, <2>10
<1>3. QED
  BY <1>1, <1>2
-----------------------------------------------------------------------------
LEMMA EnterAllowed ==
  ASSUME IInv, NEW c \in Configs, NEW u \in BOOLEAN, Enter(c, u), Allowed(stack),
         read' = read \/ stack = <<>>,
         InUpdate(c) => u, u => read' = read /\ InTakenUpdate(c),
         stack # <<>> /\ LacksChildren(Top) => Branch.by = "node"
  PROVE  Allowed(stack)'
<1>1. /\ model \in Models /\ model' = model /\ stack \in Seq(Frame)
  BY DEF IInv, Typed, Enter
<1>2. CASE HandOver(stack, c)
  <2>1. stack # <<>> => Top = stack[Len(stack)]
    BY DEF Top, Last
  <2>2. QED
    BY <1>1, <1>2, <2>1, HandOverAllowed DEF Branch
<1>3. CASE /\ model.branches[c] # <<>>
           /\ stack' = Append(stack, Called(c, u)) /\ UNCHANGED built
  <2>1. PICK n : n = Len(stack)
    OBVIOUS
  <2>2. /\ n \in Nat /\ Len(stack') = n + 1 /\ DOMAIN stack = 1 .. n
        /\ DOMAIN stack' = 1 .. n + 1
        /\ \A f \in DOMAIN stack : stack'[f] = stack[f]
        /\ stack'[n + 1] = Called(c, u)
    BY <1>1, <1>3, <2>1, PushAt
  <2>3. \A x : InUpdate(x)' <=> InUpdate(x)
    BY <1>1, SameMessages DEF InUpdate
  <2>4. read' = read => \A x : InTakenUpdate(x)' <=> InTakenUpdate(x)
    BY <1>1, SameMessages DEF InTakenUpdate
  <2>5. \A x, m : Claimless(x, m)' <=> Claimless(x, m)
    BY <1>1 DEF Claimless
  <2>6. SUFFICES ASSUME NEW f \in 1 .. n + 1
                 PROVE  LET fr == stack'[f]
                        IN  /\ model.branches[fr.node] # <<>>
                            /\ InUpdate(fr.node) => fr.in_update
                            /\ fr.in_update => /\ read' = read /\ InTakenUpdate(fr.node)
                                               /\ Claimless(fr.node, Len(fr.children))
                            /\ f < n + 1 /\ LacksChildren(fr) =>
                                 model.branches[fr.node][Len(fr.children) + 1].by = "node"
    BY <1>1, <2>2, <2>3, <2>4, <2>5 DEF Allowed, LacksChildren
  <2>7. CASE f = n + 1
    <3>1. /\ stack'[f].node = c /\ stack'[f].children = <<>>
          /\ stack'[f].in_update = u
      BY <2>2, <2>7 DEF Called
    <3>2. Claimless(c, 0)
      BY DEF Claimless
    <3>3. QED
      BY <1>3, <2>7, <3>1, <3>2
  <2>8. CASE f < n
    <3>1. stack # <<>> /\ f \in DOMAIN stack /\ stack'[f] = stack[f]
      BY <2>1, <2>2, <2>8
    <3>2. QED
      BY <2>1, <2>8, <3>1 DEF Allowed
  <2>9. CASE f = n
    <3>1. Top = stack[n] /\ stack'[n] = Top /\ stack # <<>>
      BY <2>1, <2>2, <2>9 DEF Top, Last
    <3>2. LacksChildren(Top) =>
            model.branches[Top.node][Len(Top.children) + 1].by = "node"
      BY <3>1 DEF Branch
    <3>3. QED
      BY <2>1, <2>2, <2>9, <3>1, <3>2 DEF Allowed
  <2>10. QED
    BY <2>2, <2>7, <2>8, <2>9
<1>4. QED
  BY <1>2, <1>3 DEF Enter
-----------------------------------------------------------------------------
LEMMA BuiltAllowedStays ==
  ASSUME BuiltAllowed, model' = model, child_nodes' = child_nodes
  PROVE  BuiltAllowed'
<1>1. \A x : /\ InUpdate(x)' <=> InUpdate(x)
             /\ \A n : Claimless(x, n)' <=> Claimless(x, n)
  BY SameMessages DEF InUpdate, Claimless
<1>2. QED
  BY <1>1 DEF BuiltAllowed

LEMMA TakeNodeAllowed ==
  ASSUME IInv, TakeNode, ~ Fail, Allowed(stack)
  PROVE  Allowed(stack)'
<1>1. PICK c : c = model.nodes[read + 1]
  OBVIOUS
<1>2. /\ stack = <<>> /\ read < Len(model.nodes) /\ read \in Nat /\ model \in Models
      /\ Enter(c, FALSE)
  BY <1>1 DEF TakeNode, IInv, Typed
<1>3. c \in Configs
  BY <1>1, <1>2, FreshListed
<1>4. read + 1 \in DOMAIN model.nodes
  <2>1. model.nodes \in Seq(Configs)
    BY <1>2, ModelFacts
  <2>2. QED
    BY <1>2, <2>1
<1>5. ~ InUpdate(c)
  BY <1>1, <1>2, <1>3, <1>4, UpdateTreeFacts
<1>6. QED
  BY <1>2, <1>3, <1>5, EnterAllowed

LEMMA AppendByNodeAllowed ==
  ASSUME IInv, AppendByNode, Allowed(stack)
  PROVE  Allowed(stack)'
<1>1. PICK c, u, e, k : /\ c = Branch.node /\ u = Top.in_update /\ e = Top.node
                        /\ k = Len(Top.children) + 1
  OBVIOUS
<1>2. /\ MoreBranches /\ Branch.by = "node" /\ Enter(c, u) /\ read' = read
      /\ stack # <<>> /\ LacksChildren(Top) /\ model \in Models
  BY <1>1 DEF AppendByNode, MoreBranches, IInv, Typed
<1>3. /\ c \in Configs /\ u \in BOOLEAN /\ e \in Configs
      /\ k \in DOMAIN model.branches[e] /\ Top = stack[Len(stack)]
      /\ Len(stack) \in DOMAIN stack
  BY <1>1, <1>2, FreshBranch, TopFacts
<1>4. model.branches[e][k] = ByNode(c)
  <2>1. model.branches[e][k] \in Branches /\ model.branches[e][k] = Branch
    <3>1. model.branches[e] \in Seq(Branches)
      BY <1>2, <1>3, ModelFacts
    <3>2. QED
      BY <1>1, <1>3, <3>1 DEF Branch
  <2>2. PICK d \in Configs : Branch = ByNode(d)
    BY <1>2, <2>1 DEF Branches, ByIndex, Childless
  <2>3. QED
    BY <1>1, <2>1, <2>2 DEF ByNode
<1>5. InUpdate(c) => u
  <2>1. InUpdate(c) => InUpdate(e)
    BY <1>2, <1>3, <1>4, UpdateTreeFacts
  <2>2. QED
    BY <1>1, <1>3, <2>1 DEF Allowed
<1>6. u => InTakenUpdate(c)
  <2>1. c \in Parts(model, e)
    BY <1>2, <1>3, <1>4, PartsFacts
  <2>2. u => InTakenUpdate(e)
    BY <1>1, <1>3 DEF Allowed
  <2>3. QED
    BY <1>3, <2>1, <2>2, TakenUpdateFacts
<1>7. QED
  BY <1>2, <1>3, <1>5, <1>6, EnterAllowed

LEMMA BuildUpdateTreeAllowed ==
  ASSUME IInv, BuildUpdateTree, ~ Fail, Allowed(stack)
  PROVE  Allowed(stack)'
<1>1. PICK c, e, k : /\ e = Top.node /\ k = Len(Top.updaters) + 1
                     /\ c = model.updates[e][k]
  OBVIOUS
<1>2. /\ Enter(c, TRUE) /\ read' = read /\ MoreUpdates /\ model \in Models
      /\ stack # <<>> /\ ~ LacksChildren(Top)
  BY <1>1 DEF BuildUpdateTree, MoreUpdates, IInv, Typed
<1>3. /\ c \in Configs /\ e \in Configs /\ k \in DOMAIN model.updates[e]
      /\ Len(stack) \in DOMAIN stack /\ Top = stack[Len(stack)]
  BY <1>1, <1>2, TopFacts DEF MoreUpdates
<1>4. Located(e)
  <2>1. At("stack", Len(stack), 0, e)
    BY <1>1, <1>3, StackOnce
  <2>2. QED
    BY <2>1, Zenon DEF Located
<1>5. c \in ToSet(model.updates[e])
  BY <1>1, <1>3 DEF ToSet
<1>6. InTakenUpdate(c)
  BY <1>3, <1>4, <1>5, TakenUpdateFacts
<1>7. QED
  BY <1>2, <1>3, <1>6, EnterAllowed

LEMMA AppendByIndexAllowed ==
  ASSUME IInv, AppendByIndex, Allowed(stack)
  PROVE  Allowed(stack)'
<1>1. PICK c : c = Refs[Branch.index]
  OBVIOUS
<1>2. /\ HandOver(stack, c) /\ model' = model /\ read' = read
      /\ Branch.index \in DOMAIN Refs /\ stack # <<>>
      /\ model \in Models /\ stack \in Seq(Frame)
  BY <1>1 DEF AppendByIndex, MoreBranches, IInv, Typed
<1>3. ~ Top.in_update /\ Refs = node_refs
  BY <1>2 DEF Refs, NoRefs
<1>4. c \in Configs
  BY <1>1, <1>2, <1>3 DEF IInv, Typed
<1>5. Top = stack[Len(stack)]
  BY <1>2, TopFacts
<1>6. QED
  BY <1>2, <1>3, <1>4, <1>5, HandOverAllowed

LEMMA FinishBranchAllowed ==
  ASSUME IInv, Fits, FinishBranch, ~ Fail, Allowed(stack), BuiltAllowed
  PROVE  Allowed(stack)' /\ BuiltAllowed'
<1>1. PICK c, fs, n : c = Top.node /\ fs = Front(stack) /\ n = Len(stack)
  OBVIOUS
<1>2. /\ HandOver(fs, c) /\ model' = model /\ read' = read /\ stack # <<>>
      /\ child_nodes' = Extended(child_nodes, c, Top.children)
      /\ model \in Models /\ stack \in Seq(Frame) /\ c \in model.sound
      /\ ~ LacksChildren(Top)
  BY <1>1 DEF FinishBranch, IInv, Typed, MoreBranches
<1>3. /\ Top = stack[n] /\ c \in Configs /\ n \in DOMAIN stack /\ n \in Nat
      /\ DOMAIN stack = 1 .. n
  BY <1>1, <1>2, TopFacts
<1>4. /\ fs \in Seq(Frame) /\ Len(fs) = n - 1 /\ DOMAIN fs = 1 .. n - 1
      /\ \A f \in 1 .. n - 1 : fs[f] = stack[f]
  BY <1>1, <1>2, <1>3 DEF Front
<1>5. Allowed(fs)
  BY <1>1, <1>3, <1>4 DEF Allowed
<1>6. fs # <<>> => LET a == fs[Len(fs)]
                   IN  LacksChildren(a) /\ a.in_update =>
                         model.branches[a.node][Len(a.children) + 1].by # "index"
  <2>1. SUFFICES ASSUME fs # <<>>, LacksChildren(fs[n - 1])
                 PROVE  model.branches[fs[n - 1].node][Len(fs[n - 1].children) + 1].by
                          = "node"
    BY <1>4
  <2>2. n - 1 \in DOMAIN stack /\ n - 1 < n /\ fs[n - 1] = stack[n - 1]
    BY <1>3, <1>4, <2>1
  <2>3. QED
    BY <1>1, <2>1, <2>2 DEF Allowed
<1>7. Allowed(stack)'
  BY <1>2, <1>3, <1>4, <1>5, <1>6, HandOverAllowed
<1>8. /\ model.branches[c] # <<>>
      /\ InUpdate(c) => Claimless(c, Len(model.branches[c]))
  <2>1. /\ model.branches[c] # <<>>
        /\ InUpdate(c) => Claimless(c, Len(Top.children))
    BY <1>1, <1>3 DEF Allowed
  <2>2. Len(Top.children) = Len(model.branches[c])
    <3>1. Len(Top.children) <= Len(model.branches[c])
      BY <1>1, <1>3 DEF Fits, Chained, Begun
    <3>2. /\ ~ (Len(Top.children) < Len(model.branches[c]))
          /\ Len(Top.children) \in Nat /\ Len(model.branches[c]) \in Nat
      <4>1. model.branches[c] \in Seq(Branches)
        BY <1>2, <1>3, ModelFacts
      <4>2. QED
        BY <1>1, <1>2, <4>1, TopFacts DEF LacksChildren
    <3>3. QED
      BY <3>1, <3>2
  <2>3. QED
    BY <2>1, <2>2
<1>9. \A x : /\ InUpdate(x)' <=> InUpdate(x)
             /\ \A m : Claimless(x, m)' <=> Claimless(x, m)
  BY <1>2, SameMessages DEF InUpdate, Claimless
<1>10. DOMAIN child_nodes' = DOMAIN child_nodes \cup {c}
  BY <1>2 DEF Extended
<1>11. BuiltAllowed'
  BY <1>2, <1>8, <1>9, <1>10 DEF BuiltAllowed
<1>12. QED
  BY <1>7, <1>11
-----------------------------------------------------------------------------
\* The branches that claim an index and have their child.
InCall(fs, d, k) == \E f \in DOMAIN fs : fs[f].node = d /\ k <= Len(fs[f].children)
Made(i) ==
  {x \in Configs \X Nat :
     /\ x[2] \in DOMAIN model.branches[x[1]]
     /\ model.branches[x[1]][x[2]] = ByIndex(i)
     /\ x[1] \in DOMAIN child_nodes \/ InCall(stack, x[1], x[2])}

\* They are among those of the nodes that were taken, and between two nodes
\* of the list they are all of these.
LEMMA MadeFacts ==
  ASSUME IInv, Fits, NEW i
  PROVE  /\ Made(i) \subseteq ClaimsOf(i, read)
         /\ IsFiniteSet(Made(i)) /\ Cardinality(Made(i)) \in Nat
         /\ stack = <<>> /\ ListedKept /\ OwnedAreGrown => Made(i) = ClaimsOf(i, read)
<1>1. /\ model \in Models /\ read \in Nat /\ read <= Len(model.nodes)
      /\ model.nodes \in Seq(Configs) /\ DOMAIN model.nodes = 1 .. Len(model.nodes)
  BY ModelFacts DEF IInv, Typed, Fits
<1>2. \A x : x \in ClaimsOf(i, read) <=>
        \E p \in 1 .. read : \E d \in Under[model.nodes[p]] :
          \E k \in DOMAIN model.branches[d] :
            model.branches[d][k] = ByIndex(i) /\ x = <<d, k>>
  BY <1>1, ClaimsFacts
<1>3. ASSUME NEW x \in Made(i) PROVE x \in ClaimsOf(i, read)
  <2>1. PICK d \in Configs, k \in Nat : x = <<d, k>>
    BY <1>3 DEF Made
  <2>2. /\ k \in DOMAIN model.branches[d] /\ model.branches[d][k] = ByIndex(i)
        /\ d \in DOMAIN child_nodes \/ InCall(stack, d, k)
    BY <1>3, <2>1 DEF Made
  <2>3. Located(d)
    <3>1. CASE d \in DOMAIN child_nodes
      <4>1. Owned(d)
        BY <3>1 DEF IInv
      <4>2. QED
        BY <4>1, Zenon DEF Owned, Located
    <3>2. CASE InCall(stack, d, k)
      <4>1. PICK f \in DOMAIN stack : stack[f].node = d
        BY <3>2 DEF InCall
      <4>2. At("stack", f, 0, d)
        BY <4>1, StackOnce
      <4>3. QED
        BY <4>2, Zenon DEF Located
    <3>3. QED
      BY <2>2, <3>1, <3>2
  <2>4. PICK p \in DOMAIN model.nodes : p <= read /\ d \in Under[model.nodes[p]]
    BY <2>3, LocatedIsGiven
  <2>5. p \in 1 .. read
    BY <1>1, <2>4
  <2>6. QED
    BY <1>2, <2>1, <2>2, <2>4, <2>5
<1>4. IsFiniteSet(ClaimsOf(i, read))
  BY <1>1, ClaimsFacts
<1>5. IsFiniteSet(Made(i)) /\ Cardinality(Made(i)) \in Nat
  BY <1>3, <1>4, FS_Subset, FS_CardinalityType
<1>6. ASSUME stack = <<>>, ListedKept, OwnedAreGrown, NEW x \in ClaimsOf(i, read)
      PROVE  x \in Made(i)
  <2>1. PICK p \in 1 .. read : \E d \in Under[model.nodes[p]] :
          \E k \in DOMAIN model.branches[d] :
            model.branches[d][k] = ByIndex(i) /\ x = <<d, k>>
    BY <1>2, <1>6
  <2>2. PICK d \in Under[model.nodes[p]] : \E k \in DOMAIN model.branches[d] :
          model.branches[d][k] = ByIndex(i) /\ x = <<d, k>>
    BY <2>1
  <2>3. PICK k \in DOMAIN model.branches[d] :
          model.branches[d][k] = ByIndex(i) /\ x = <<d, k>>
    BY <2>2
  <2>4. p \in DOMAIN model.nodes /\ p <= read
    BY <1>1, <2>1
  <2>5. d \in Configs /\ Owned(d)
    BY <1>6, <2>2, <2>4, GivenIsOwned
  <2>6. k \in Nat /\ model.branches[d] # <<>>
    <3>1. model.branches[d] \in Seq(Branches)
      BY <1>1, <2>5, ModelFacts
    <3>2. QED
      BY <2>3, <3>1
  <2>7. d \in DOMAIN child_nodes
    <3>1. d \in DOMAIN child_nodes \/ d \notin model.branching
      BY <1>6, <2>5 DEF OwnedAreGrown, Grown
    <3>2. d \notin model.branching => model.branches[d] = <<>>
      BY <1>1, <2>5, ModelsAssumption
    <3>3. QED
      BY <2>6, <3>1, <3>2
  <2>8. <<d, k>>[1] = d /\ <<d, k>>[2] = k /\ <<d, k>> \in Configs \X Nat
    BY <2>5, <2>6
  <2>9. QED
    BY <2>3, <2>7, <2>8 DEF Made
<1>7. QED
  BY <1>3, <1>5, <1>6

\* The call that gets a child has one more.
LEMMA HandOverInCall ==
  ASSUME model \in Models, NEW fs \in Seq(Frame), NEW c \in Configs, HandOver(fs, c),
         NEW d, NEW k \in Nat
  PROVE  InCall(stack', d, k) <=>
           \/ InCall(fs, d, k)
           \/ /\ fs # <<>> /\ LacksChildren(fs[Len(fs)])
              /\ d = fs[Len(fs)].node /\ k = Len(fs[Len(fs)].children) + 1
<1>1. CASE fs = <<>>
  <2>1. stack' = <<>> /\ DOMAIN fs = {} /\ DOMAIN stack' = {}
    BY <1>1 DEF HandOver
  <2>2. QED
    BY <1>1, <2>1 DEF InCall
<1>2. CASE fs # <<>>
  <2>1. PICK n, a, b : n = Len(fs) /\ a = fs[n] /\ b = stack'[n]
    OBVIOUS
  <2>2. /\ n \in DOMAIN fs /\ DOMAIN stack' = DOMAIN fs
        /\ \A f \in DOMAIN fs : f # n => stack'[f] = fs[f]
        /\ b.node = a.node
        /\ LacksChildren(a) => b.children = Append(a.children, c)
        /\ ~ LacksChildren(a) => b.children = a.children
    BY <1>2, <2>1, HandOverFacts
  <2>3. a.children \in Seq(Configs)
    <3>1. a \in Frame
      BY <2>1, <2>2
    <3>2. QED
      BY <3>1 DEF Frame
  <2>4. b.node = d /\ k <= Len(b.children) <=>
          \/ a.node = d /\ k <= Len(a.children)
          \/ LacksChildren(a) /\ d = a.node /\ k = Len(a.children) + 1
    BY <2>2, <2>3
  <2>5. InCall(fs, d, k) <=>
          \/ \E f \in DOMAIN fs : f # n /\ fs[f].node = d /\ k <= Len(fs[f].children)
          \/ a.node = d /\ k <= Len(a.children)
    BY <2>1, <2>2, Zenon DEF InCall
  <2>6. InCall(stack', d, k) <=>
          \/ \E f \in DOMAIN fs : f # n /\ fs[f].node = d /\ k <= Len(fs[f].children)
          \/ b.node = d /\ k <= Len(b.children)
    BY <2>1, <2>2, Zenon DEF InCall
  <2>7. QED
    BY <1>2, <2>1, <2>4, <2>5, <2>6
<1>3. QED
  BY <1>1, <1>2

\* A step makes the claims that its calls and branch nodes make.
LEMMA MadeStep ==
  ASSUME model \in Models, model' = model, NEW i, NEW M,
         \A d \in Configs : \A k \in DOMAIN model.branches[d] :
           model.branches[d][k] = ByIndex(i) =>
             (d \in DOMAIN child_nodes' \/ InCall(stack', d, k)
                <=> d \in DOMAIN child_nodes \/ InCall(stack, d, k) \/ <<d, k>> \in M)
  PROVE  /\ \A x \in Made(i)' : x \in Made(i) \/ x \in M
         /\ \A x \in Made(i) : x \in Made(i)'
         /\ \A d \in Configs : \A k \in DOMAIN model.branches[d] :
              model.branches[d][k] = ByIndex(i) /\ <<d, k>> \in M => <<d, k>> \in Made(i)'
<1>1. Made(i)' = {x \in Configs \X Nat :
                    /\ x[2] \in DOMAIN model.branches[x[1]]
                    /\ model.branches[x[1]][x[2]] = ByIndex(i)
                    /\ x[1] \in DOMAIN child_nodes' \/ InCall(stack', x[1], x[2])}
  BY DEF Made, InCall
<1>2. ASSUME NEW x \in Configs \X Nat, x[2] \in DOMAIN model.branches[x[1]],
             model.branches[x[1]][x[2]] = ByIndex(i)
      PROVE  (x[1] \in DOMAIN child_nodes' \/ InCall(stack', x[1], x[2])
                <=> \/ x[1] \in DOMAIN child_nodes \/ InCall(stack, x[1], x[2])
                    \/ x \in M)
  <2>1. PICK d \in Configs, k \in Nat : x = <<d, k>> /\ d = x[1] /\ k = x[2]
    BY <1>2
  <2>2. QED
    BY <1>2, <2>1
<1>3. ASSUME NEW d \in Configs, NEW k \in DOMAIN model.branches[d],
             model.branches[d][k] = ByIndex(i), <<d, k>> \in M
      PROVE  <<d, k>> \in Made(i)'
  <2>1. k \in Nat
    <3>1. model.branches[d] \in Seq(Branches)
      BY ModelFacts
    <3>2. QED
      BY <3>1
  <2>2. <<d, k>>[1] = d /\ <<d, k>>[2] = k /\ <<d, k>> \in Configs \X Nat
    BY <2>1
  <2>3. QED
    BY <1>1, <1>3, <2>2
<1>4. QED
  BY <1>1, <1>2, <1>3 DEF Made
-----------------------------------------------------------------------------
LEMMA MadeStays ==
  ASSUME model \in Models, model' = model, NEW i,
         \A d \in Configs : \A k \in DOMAIN model.branches[d] :
           model.branches[d][k] = ByIndex(i) =>
             (d \in DOMAIN child_nodes' \/ InCall(stack', d, k)
                <=> d \in DOMAIN child_nodes \/ InCall(stack, d, k))
  PROVE  Made(i)' = Made(i)
<1>1. PICK M : M = {}
  OBVIOUS
<1>2. \A d \in Configs : \A k \in DOMAIN model.branches[d] :
        model.branches[d][k] = ByIndex(i) =>
          (d \in DOMAIN child_nodes' \/ InCall(stack', d, k)
             <=> d \in DOMAIN child_nodes \/ InCall(stack, d, k) \/ <<d, k>> \in M)
  BY <1>1
<1>3. /\ \A x \in Made(i)' : x \in Made(i) \/ x \in M
      /\ \A x \in Made(i) : x \in Made(i)'
  BY <1>2, MadeStep
<1>4. QED
  BY <1>1, <1>3

LEMMA EnterMade ==
  ASSUME IInv, NEW c \in Configs, NEW u \in BOOLEAN, Enter(c, u),
         stack # <<>> /\ LacksChildren(Top) => Branch.by = "node", NEW i
  PROVE  Made(i)' = Made(i)
<1>1. /\ model \in Models /\ model' = model /\ child_nodes' = child_nodes
      /\ stack \in Seq(Frame)
  BY DEF IInv, Typed, Enter
<1>2. ASSUME NEW d \in Configs, NEW k \in DOMAIN model.branches[d],
             model.branches[d][k] = ByIndex(i)
      PROVE  InCall(stack', d, k) <=> InCall(stack, d, k)
  <2>1. k \in Nat /\ k > 0 /\ model.branches[d][k].by = "index"
    <3>1. model.branches[d] \in Seq(Branches)
      BY <1>1, ModelFacts
    <3>2. QED
      BY <1>2, <3>1 DEF ByIndex
  <2>2. CASE HandOver(stack, c)
    <3>1. stack # <<>> => Top = stack[Len(stack)]
      BY DEF Top, Last
    <3>2. ~ /\ stack # <<>> /\ LacksChildren(stack[Len(stack)])
            /\ d = stack[Len(stack)].node /\ k = Len(stack[Len(stack)].children) + 1
      BY <2>1, <3>1 DEF Branch
    <3>3. QED
      BY <1>1, <2>1, <2>2, <3>2, HandOverInCall
  <2>3. CASE stack' = Append(stack, Called(c, u)) /\ UNCHANGED built
    <3>1. PICK n : n = Len(stack)
      OBVIOUS
    <3>2. /\ n \in Nat /\ DOMAIN stack = 1 .. n /\ DOMAIN stack' = 1 .. n + 1
          /\ \A f \in DOMAIN stack : stack'[f] = stack[f]
          /\ stack'[n + 1].children = <<>>
      BY <1>1, <2>3, <3>1, PushAt DEF Called
    <3>3. ~ (k <= Len(stack'[n + 1].children))
      BY <2>1, <3>2
    <3>4. QED
      BY <3>2, <3>3 DEF InCall
  <2>4. QED
    BY <2>2, <2>3 DEF Enter
<1>3. QED
  BY <1>1, <1>2, MadeStays

\* The call that returns made the claims of its branch node.
LEMMA FinishBranchMade ==
  ASSUME IInv, Fits, FinishBranch, ~ Fail, Allowed(stack), NEW i
  PROVE  Made(i)' = Made(i)
<1>1. PICK c, fs, n : c = Top.node /\ fs = Front(stack) /\ n = Len(stack)
  OBVIOUS
<1>2. /\ HandOver(fs, c) /\ model' = model /\ stack # <<>> /\ ~ LacksChildren(Top)
      /\ child_nodes' = Extended(child_nodes, c, Top.children)
      /\ model \in Models /\ stack \in Seq(Frame)
  BY <1>1 DEF FinishBranch, IInv, Typed, MoreBranches
<1>3. /\ Top = stack[n] /\ c \in Configs /\ n \in DOMAIN stack /\ n \in Nat
      /\ DOMAIN stack = 1 .. n
  BY <1>1, <1>2, TopFacts
<1>4. /\ fs \in Seq(Frame) /\ Len(fs) = n - 1 /\ DOMAIN fs = 1 .. n - 1
      /\ \A f \in 1 .. n - 1 : fs[f] = stack[f]
  BY <1>1, <1>2, <1>3 DEF Front
<1>5. DOMAIN child_nodes' = DOMAIN child_nodes \cup {c}
  BY <1>2 DEF Extended
<1>6. ASSUME NEW d \in Configs, NEW k \in DOMAIN model.branches[d],
             model.branches[d][k] = ByIndex(i)
      PROVE  d \in DOMAIN child_nodes' \/ InCall(stack', d, k)
               <=> d \in DOMAIN child_nodes \/ InCall(stack, d, k)
  <2>1. /\ k \in Nat /\ k <= Len(model.branches[d]) /\ Len(model.branches[d]) \in Nat
        /\ model.branches[d][k].by = "index"
    <3>1. model.branches[d] \in Seq(Branches)
      BY <1>2, ModelFacts
    <3>2. QED
      BY <1>6, <3>1 DEF ByIndex
  <2>2. InCall(stack', d, k) <=> InCall(fs, d, k)
    <3>1. SUFFICES ASSUME fs # <<>>, LacksChildren(fs[n - 1]), d = fs[n - 1].node,
                          k = Len(fs[n - 1].children) + 1
                   PROVE  FALSE
      BY <1>2, <1>3, <1>4, <2>1, HandOverInCall
    <3>2. n - 1 \in DOMAIN stack /\ n - 1 < n /\ fs[n - 1] = stack[n - 1]
      BY <1>3, <1>4, <3>1
    <3>3. model.branches[d][k].by = "node"
      BY <1>1, <3>1, <3>2 DEF Allowed
    <3>4. QED
      BY <2>1, <3>3
  <2>3. InCall(stack, d, k) <=> InCall(fs, d, k) \/ (c = d /\ k <= Len(Top.children))
    <3>1. InCall(stack, d, k) <=>
            \/ \E f \in 1 .. n - 1 : stack[f].node = d /\ k <= Len(stack[f].children)
            \/ stack[n].node = d /\ k <= Len(stack[n].children)
      <4>1. \A f \in 1 .. n : f \in 1 .. n - 1 \/ f = n
        BY <1>3
      <4>2. \A f \in 1 .. n - 1 : f \in 1 .. n
        BY <1>3
      <4>3. QED
        BY <1>3, <4>1, <4>2, Zenon DEF InCall
    <3>2. QED
      BY <1>1, <1>3, <1>4, <3>1 DEF InCall
  <2>4. d = c => k <= Len(Top.children)
    <3>1. Len(Top.children) \in Nat
      BY <1>2, TopFacts
    <3>2. QED
      BY <1>1, <1>2, <2>1, <3>1 DEF LacksChildren
  <2>5. QED
    BY <1>5, <2>2, <2>3, <2>4
<1>7. QED
  BY <1>2, <1>6, MadeStays

\* The branch that takes its child out of node_refs is one more.
LEMMA AppendByIndexMade ==
  ASSUME IInv, AppendByIndex, NEW i
  PROVE  \E x : /\ x \notin Made(i)
                /\ Made(i)' = IF i = Branch.index THEN Made(i) \cup {x} ELSE Made(i)
<1>1. PICK e, m, x, c :
        /\ e = Top.node /\ m = Len(Top.children) + 1 /\ x = <<e, m>>
        /\ c = Refs[Branch.index]
  OBVIOUS
<1>2. /\ HandOver(stack, c) /\ model' = model /\ child_nodes' = child_nodes
      /\ Branch.index \in DOMAIN Refs /\ Branch.by = "index" /\ stack # <<>>
      /\ model \in Models /\ stack \in Seq(Frame) /\ LacksChildren(Top)
  BY <1>1 DEF AppendByIndex, MoreBranches, IInv, Typed
<1>3. Refs = node_refs /\ c \in Configs
  BY <1>1, <1>2 DEF Refs, NoRefs, IInv, Typed
<1>4. /\ Top = stack[Len(stack)] /\ e \in Configs /\ Len(stack) \in DOMAIN stack
      /\ m \in DOMAIN model.branches[e] /\ Len(Top.children) \in Nat
  BY <1>1, <1>2, TopFacts
<1>5. Branch = ByIndex(Branch.index) /\ Branch = model.branches[e][m]
  <2>1. Branch = model.branches[e][m] /\ Branch \in Branches
    <3>1. model.branches[e] \in Seq(Branches)
      BY <1>2, <1>4, ModelFacts
    <3>2. QED
      BY <1>1, <1>4, <3>1 DEF Branch
  <2>2. PICK j \in Indices : Branch = ByIndex(j)
    BY <1>2, <2>1 DEF Branches, ByNode, Childless
  <2>3. QED
    BY <2>1, <2>2 DEF ByIndex
<1>6. ASSUME NEW d \in Configs, NEW k \in DOMAIN model.branches[d],
             model.branches[d][k] = ByIndex(i)
      PROVE  InCall(stack', d, k) <=> InCall(stack, d, k) \/ <<d, k>> \in {x}
  <2>1. k \in Nat
    <3>1. model.branches[d] \in Seq(Branches)
      BY <1>2, ModelFacts
    <3>2. QED
      BY <3>1
  <2>2. InCall(stack', d, k) <=> InCall(stack, d, k) \/ (d = e /\ k = m)
    BY <1>1, <1>2, <1>3, <1>4, <2>1, HandOverInCall
  <2>3. <<d, k>> \in {x} <=> d = e /\ k = m
    BY <1>1
  <2>4. QED
    BY <2>2, <2>3
<1>7. /\ \A y \in Made(i)' : y \in Made(i) \/ y \in {x}
      /\ \A y \in Made(i) : y \in Made(i)'
      /\ i = Branch.index => x \in Made(i)'
  <2>1. \A d \in Configs : \A k \in DOMAIN model.branches[d] :
          model.branches[d][k] = ByIndex(i) =>
            (d \in DOMAIN child_nodes' \/ InCall(stack', d, k)
               <=> d \in DOMAIN child_nodes \/ InCall(stack, d, k) \/ <<d, k>> \in {x})
    BY <1>2, <1>6
  <2>2. /\ \A y \in Made(i)' : y \in Made(i) \/ y \in {x}
        /\ \A y \in Made(i) : y \in Made(i)'
        /\ \A d \in Configs : \A k \in DOMAIN model.branches[d] :
             model.branches[d][k] = ByIndex(i) /\ <<d, k>> \in {x} => <<d, k>> \in Made(i)'
    BY <1>2, <2>1, MadeStep
  <2>3. QED
    BY <1>1, <1>4, <1>5, <2>2
<1>8. x \notin Made(i)
  <2>1. SUFFICES ASSUME x \in Made(i) PROVE FALSE
    OBVIOUS
  <2>2. x[1] = e /\ x[2] = m
    BY <1>1
  <2>3. e \in DOMAIN child_nodes \/ InCall(stack, e, m)
    BY <2>1, <2>2 DEF Made
  <2>4. e \notin DOMAIN child_nodes
    BY <1>1, <1>4, StackOnce
  <2>5. PICK f \in DOMAIN stack : stack[f].node = e /\ m <= Len(stack[f].children)
    BY <2>3, <2>4 DEF InCall
  <2>6. f = Len(stack)
    BY <1>1, <1>4, <2>5, StackOnce
  <2>7. QED
    BY <1>1, <1>4, <2>5, <2>6
<1>9. i # Branch.index => x \notin Made(i)'
  <2>1. x \in Made(i)' => model'.branches[x[1]][x[2]] = ByIndex(i)
    BY DEF Made
  <2>2. x[1] = e /\ x[2] = m
    BY <1>1
  <2>3. QED
    BY <1>2, <1>5, <2>1, <2>2 DEF ByIndex
<1>10. QED
  BY <1>7, <1>8, <1>9
-----------------------------------------------------------------------------
\* A node is being built or is to be stored, and is not counted yet.
Busy == stack # <<>> \/ built # NoNode
Stored == IF Busy THEN read - 1 ELSE read

\* All but the last node have an index, and a root has none.
Indexed ==
  /\ \A i \in DOMAIN node_refs : Numbered(node_refs[i])
  /\ root # NoNode => ~ Numbered(root)
  /\ \A p \in DOMAIN model.nodes : p < read => Numbered(model.nodes[p])

\* The nodes of an index are those that a branch claimed, and the one that
\* waits in node_refs.
Balanced ==
  \A i \in Indices :
    Definitions(i, Stored) = Cardinality(Made(i)) + IF i \in DOMAIN node_refs THEN 1 ELSE 0

\* What Kotlin asks of a node before it builds the node.
FreeFor(p) ==
  model.library = "kt" =>
    \A i \in Indices : model.index[model.nodes[p]] = i =>
      Definitions(i, p) - Claims(i, p - 1) <= 1

Accepting ==
  /\ Allowed(stack) /\ BuiltAllowed /\ Indexed /\ Balanced
  /\ \A p \in 1 .. Stored : InOrder(p)
  /\ Busy => FreeFor(read)

AcceptInv ==
  /\ BuildInv /\ AcceptsTrees
  /\ status = "building" => Accepting
  /\ status # "error" => BuiltAllowed

LEMMA BusyFacts ==
  ASSUME IInv, Fits
  PROVE  /\ model \in Models /\ read \in Nat /\ read <= Len(model.nodes)
         /\ model.nodes \in Seq(Configs) /\ DOMAIN model.nodes = 1 .. Len(model.nodes)
         /\ Len(model.nodes) \in Nat /\ Stored \in 0 .. Len(model.nodes)
         /\ \A p \in DOMAIN model.nodes : model.nodes[p] \in Configs
         /\ Busy => read \in DOMAIN model.nodes /\ Stored = read - 1
         /\ ~ Busy => Stored = read
<1>1. /\ model \in Models /\ read \in Nat /\ read <= Len(model.nodes)
      /\ stack \in Seq(Frame)
  BY DEF IInv, Typed, Fits
<1>2. model.nodes \in Seq(Configs)
  BY <1>1, ModelFacts
<1>3. Busy => read \in DOMAIN model.nodes
  <2>1. built # NoNode => read \in DOMAIN model.nodes
    BY DEF Fits, Taken
  <2>2. CASE stack # <<>>
    <3>1. 1 \in DOMAIN stack
      BY <1>1, <2>2
    <3>2. Taken(stack[1].node)
      BY <3>1 DEF Fits, Chained
    <3>3. QED
      BY <3>2 DEF Taken
  <2>3. QED
    BY <2>1, <2>2 DEF Busy
<1>4. QED
  BY <1>1, <1>2, <1>3 DEF Stored

\* An index in node_refs is one, and that of the node.
LEMMA RefsFacts ==
  ASSUME IInv, Fits, Indexed, NEW i \in DOMAIN node_refs
  PROVE  /\ i \in Indices /\ node_refs[i] \in Configs
         /\ Numbered(node_refs[i]) /\ model.index[node_refs[i]] = i
<1>1. /\ node_refs[i] \in Configs /\ model \in Models
      /\ Numbered(node_refs[i]) /\ model.index[node_refs[i]] = i
  BY DEF IInv, Typed, Fits, Indexed
<1>2. model.index \in [Configs -> Indices \cup {NoIndex}]
  BY <1>1, ModelsAssumption
<1>3. QED
  BY <1>1, <1>2 DEF Numbered

\* Between two calls of ModelNode::Build all claims are made.
LEMMA IdleCount ==
  ASSUME BuildInv, status = "building", Accepting, stack = <<>>, NEW i \in Indices
  PROVE  /\ Claims(i, read) \in Nat
         /\ Definitions(i, Stored) =
              Claims(i, read) + IF i \in DOMAIN node_refs THEN 1 ELSE 0
<1>1. IInv /\ Fits /\ ListedKept /\ OwnedAreGrown
  BY DEF BuildInv
<1>2. Made(i) = ClaimsOf(i, read) /\ Cardinality(Made(i)) \in Nat
  BY <1>1, MadeFacts
<1>3. QED
  BY <1>2 DEF Accepting, Balanced, Claims

\* What a message is not complete for.
LEMMA NotComplete ==
  ASSUME model \in Models, NEW p \in DOMAIN model.nodes,
         NEW c \in Under[model.nodes[p]], ~ Complete(c)
  PROVE  ~ Representable
<1>1. model.nodes \in Seq(Configs)
  BY ModelFacts
<1>2. p \in 1 .. Len(model.nodes)
  BY <1>1
<1>3. QED
  BY <1>2 DEF Representable

LEMMA EnterBusy ==
  ASSUME stack \in Seq(Frame), NEW c \in Configs, NEW u, Enter(c, u)
  PROVE  Busy'
<1>1. NoNode \notin Configs
  BY ModelsAssumption
<1>2. CASE HandOver(stack, c)
  <2>1. CASE stack = <<>>
    BY <1>1, <1>2, <2>1 DEF HandOver, Busy
  <2>2. CASE stack # <<>>
    <3>1. DOMAIN stack' = DOMAIN stack
      BY <1>2, <2>2, HandOverFacts
    <3>2. stack' # <<>>
      BY <2>2, <3>1
    <3>3. QED
      BY <3>2 DEF Busy
  <2>3. QED
    BY <2>1, <2>2
<1>3. CASE stack' = Append(stack, Called(c, u))
  BY <1>3 DEF Busy
<1>4. QED
  BY <1>2, <1>3 DEF Enter

\* A step of the calls that leaves node_refs alone.
LEMMA CallsGoOn ==
  ASSUME IInv, Fits, Accepting, IInv', Fits', model' = model, node_refs' = node_refs,
         root' = root, Allowed(stack)', BuiltAllowed', Busy', read' - 1 = Stored,
         \A i \in Indices : Made(i)' = Made(i),
         \A p \in DOMAIN model.nodes : p < read' => Numbered(model.nodes[p]),
         FreeFor(read')
  PROVE  Accepting'
<1>1. \A c : Numbered(c)' <=> Numbered(c)
  BY DEF Numbered
<1>2. Stored' = Stored
  BY DEF Stored
<1>3. \A i, n : /\ Claims(i, n)' = Claims(i, n)
                /\ Definitions(i, n)' = Definitions(i, n)
  BY SameMessages
<1>4. \A p : InOrder(p)' <=> InOrder(p)
  BY SameMessages
<1>5. Indexed'
  BY <1>1 DEF Indexed, Accepting
<1>6. Balanced'
  <2>1. SUFFICES ASSUME NEW i \in Indices
                 PROVE  Definitions(i, Stored') =
                          Cardinality(Made(i)) + IF i \in DOMAIN node_refs THEN 1 ELSE 0
    BY <1>3 DEF Balanced
  <2>2. QED
    BY <1>2 DEF Accepting, Balanced
<1>7. \A p \in 1 .. Stored' : InOrder(p)'
  BY <1>2, <1>4 DEF Accepting
<1>8. FreeFor(read)'
  BY <1>3 DEF FreeFor
<1>9. QED
  BY <1>5, <1>6, <1>7, <1>8 DEF Accepting
-----------------------------------------------------------------------------
\* The part of a message that Build rejects.
LEMMA RejectedPart ==
  ASSUME IInv, NEW e \in Configs, Located(e), NEW c \in {e} \cup Parts(model, e),
         ~ Complete(c)
  PROVE  ~ Representable
<1>1. model \in Models /\ model.nodes \in Seq(Configs)
  BY ModelFacts DEF IInv, Typed
<1>2. PICK p \in DOMAIN model.nodes : e \in Under[model.nodes[p]]
  BY LocatedIsGiven
<1>3. model.nodes[p] \in Configs
  BY <1>1
<1>4. c \in Under[model.nodes[p]]
  BY <1>1, <1>2, <1>3, UnderFacts
<1>5. QED
  BY <1>1, <1>4, NotComplete

LEMMA RejectsFacts ==
  ASSUME NEW c, Rejects(c)
  PROVE  ~ Complete(c)
BY DEF Rejects, Complete

LEMMA TakeNodeAccepts ==
  ASSUME BuildInv, Accepting, TakeNode, BuildInv'
  PROVE  IF Fail THEN ~ Representable ELSE Accepting'
<1>1. PICK c : c = model.nodes[read + 1]
  OBVIOUS
<1>2. /\ stack = <<>> /\ built = NoNode /\ status = "building"
      /\ read < Len(model.nodes) /\ ~ Busy
  BY DEF TakeNode, Busy
<1>3. IInv /\ Fits /\ Waiting
  BY <1>2 DEF BuildInv, Fits
<1>4. /\ model \in Models /\ read \in Nat /\ Stored = read /\ c \in Configs
      /\ DOMAIN model.nodes = 1 .. Len(model.nodes) /\ Len(model.nodes) \in Nat
      /\ read + 1 \in DOMAIN model.nodes
  BY <1>1, <1>2, <1>3, BusyFacts
<1>5. /\ stack \in Seq(Frame) /\ Allowed(stack) /\ BuiltAllowed /\ Indexed
  BY <1>3 DEF IInv, Typed, Accepting
<1>6. \A i \in Indices :
        /\ Claims(i, read) \in Nat
        /\ Definitions(i, read) =
             Claims(i, read) + IF i \in DOMAIN node_refs THEN 1 ELSE 0
        /\ Definitions(i, read + 1) =
             Definitions(i, read)
               + IF Numbered(c) /\ model.index[c] = i THEN 1 ELSE 0
  BY <1>1, <1>2, <1>4, IdleCount, DefinitionsFacts
<1>7. CASE root = NoNode /\ ~ FoundEarly(c) /\ read' = read + 1 /\ Enter(c, FALSE)
  <2>1. ~ Fail
    BY <1>2, <1>7 DEF Fail, Enter
  <2>2. IInv' /\ Fits'
    BY <1>2, <1>7 DEF BuildInv, Enter
  <2>3. /\ model' = model /\ node_refs' = node_refs /\ root' = root
        /\ child_nodes' = child_nodes /\ read' - 1 = Stored
    BY <1>4, <1>7 DEF Enter
  <2>4. Allowed(stack)' /\ BuiltAllowed'
    BY <1>3, <1>5, <2>1, <2>3, TakeNodeAllowed, BuiltAllowedStays
  <2>5. Busy'
    BY <1>4, <1>5, <1>7, EnterBusy
  <2>6. \A i \in Indices : Made(i)' = Made(i)
    BY <1>2, <1>3, <1>4, <1>7, EnterMade
  <2>7. \A p \in DOMAIN model.nodes : p < read' => Numbered(model.nodes[p])
    <3>1. read > 0 => Numbered(model.nodes[read])
      BY <1>3, <1>5, <1>7, RefsFacts DEF Waiting, Taken
    <3>2. \A p \in DOMAIN model.nodes : p < read' => p < read \/ p = read
      BY <1>4, <1>7
    <3>3. QED
      BY <1>4, <1>5, <3>1, <3>2 DEF Indexed
  <2>8. FreeFor(read')
    <3>1. SUFFICES ASSUME model.library = "kt", NEW i \in Indices, model.index[c] = i
                   PROVE  Definitions(i, read + 1) - Claims(i, read) <= 1
      BY <1>1, <1>4, <1>7 DEF FreeFor
    <3>2. ~ (Numbered(c) /\ i \in DOMAIN node_refs)
      BY <1>7, <3>1 DEF FoundEarly
    <3>3. QED
      BY <1>6, <3>1, <3>2
  <2>9. Accepting'
    BY <1>3, <2>2, <2>3, <2>4, <2>5, <2>6, <2>7, <2>8, CallsGoOn
  <2>10. QED
    BY <2>1, <2>9
<1>8. CASE (root # NoNode \/ FoundEarly(c) \/ Rejects(c)) /\ Fail
  <2>1. CASE root # NoNode
    <3>1. read \in DOMAIN model.nodes /\ ~ Numbered(model.nodes[read])
      BY <1>3, <1>5, <2>1 DEF Waiting, Taken, Indexed
    <3>2. QED
      BY <1>2, <1>4, <1>8, <3>1 DEF Representable
  <2>2. CASE FoundEarly(c)
    <3>1. PICK i : i = model.index[c]
      OBVIOUS
    <3>2. /\ model.library = "kt" /\ Numbered(c) /\ i \in DOMAIN node_refs
          /\ i \in Indices
      BY <1>3, <1>5, <2>2, <3>1, RefsFacts DEF FoundEarly
    <3>3. ~ (Definitions(i, read + 1) - Claims(i, read) <= 1)
      BY <1>6, <3>1, <3>2
    <3>4. ~ InOrder(read + 1)
      BY <1>1, <1>4, <3>1, <3>2, <3>3 DEF InOrder
    <3>5. QED
      BY <1>4, <1>8, <3>4 DEF Representable
  <2>3. CASE Rejects(c)
    <3>1. c \in Under[c]
      BY <1>4, UnderFacts
    <3>2. QED
      BY <1>1, <1>4, <1>8, <2>3, <3>1, RejectsFacts, NotComplete
  <2>4. QED
    BY <1>8, <2>1, <2>2, <2>3
<1>9. QED
  BY <1>1, <1>7, <1>8 DEF TakeNode

\* The calls of a branch node.
LEMMA TopIsLocated ==
  ASSUME IInv, stack # <<>>
  PROVE  /\ Top.node \in Configs /\ Located(Top.node)
         /\ Busy
<1>1. Top = stack[Len(stack)] /\ Len(stack) \in DOMAIN stack /\ Top.node \in Configs
  BY TopFacts
<1>2. At("stack", Len(stack), 0, Top.node)
  BY <1>1, StackOnce
<1>3. QED
  BY <1>1, <1>2, Zenon DEF Located, Busy

LEMMA AppendByNodeAccepts ==
  ASSUME BuildInv, Accepting, AppendByNode, BuildInv'
  PROVE  Accepting'
<1>1. PICK c, u : c = Branch.node /\ u = Top.in_update
  OBVIOUS
<1>2. /\ MoreBranches /\ Branch.by = "node" /\ Enter(c, u) /\ read' = read
      /\ stack # <<>> /\ status = "building"
  BY <1>1 DEF AppendByNode, MoreBranches
<1>3. IInv /\ Fits /\ Busy /\ stack \in Seq(Frame) /\ c \in Configs /\ u \in BOOLEAN
  BY <1>1, <1>2, FreshBranch, TopFacts DEF BuildInv, IInv, Typed, Busy
<1>4. /\ Allowed(stack) /\ BuiltAllowed /\ Indexed /\ FreeFor(read)
  BY <1>3 DEF Accepting
<1>5. /\ model' = model /\ node_refs' = node_refs /\ root' = root
      /\ child_nodes' = child_nodes /\ status' = status
  BY <1>2 DEF Enter
<1>6. IInv' /\ Fits'
  BY <1>2, <1>5 DEF BuildInv
<1>7. Allowed(stack)' /\ BuiltAllowed'
  BY <1>3, <1>4, <1>5, AppendByNodeAllowed, BuiltAllowedStays
<1>8. Busy' /\ \A i \in Indices : Made(i)' = Made(i)
  BY <1>2, <1>3, EnterBusy, EnterMade
<1>9. read' - 1 = Stored
  BY <1>2, <1>3 DEF Stored
<1>10. QED
  BY <1>2, <1>3, <1>4, <1>5, <1>6, <1>7, <1>8, <1>9, CallsGoOn DEF Indexed

LEMMA BuildUpdateTreeAccepts ==
  ASSUME BuildInv, Accepting, BuildUpdateTree, BuildInv'
  PROVE  IF Fail THEN ~ Representable ELSE Accepting'
<1>1. PICK c : c = model.updates[Top.node][Len(Top.updaters) + 1]
  OBVIOUS
<1>2. /\ MoreUpdates /\ stack # <<>> /\ ~ LacksChildren(Top)
      /\ (Enter(c, TRUE) /\ read' = read) \/ (Rejects(c) /\ Fail)
      /\ status = "building"
  BY <1>1 DEF BuildUpdateTree, MoreUpdates
<1>3. IInv /\ Fits /\ Busy /\ stack \in Seq(Frame) /\ c \in Configs /\ model \in Models
  BY <1>1, <1>2, FreshUpdate DEF BuildInv, IInv, Typed, Busy
<1>4. /\ Allowed(stack) /\ BuiltAllowed /\ Indexed /\ FreeFor(read)
  BY <1>3 DEF Accepting
<1>5. CASE Enter(c, TRUE) /\ read' = read
  <2>1. /\ model' = model /\ node_refs' = node_refs /\ root' = root
        /\ child_nodes' = child_nodes /\ status' = status
    BY <1>5 DEF Enter
  <2>2. IInv' /\ Fits' /\ ~ Fail
    BY <1>2, <2>1 DEF BuildInv, Fail
  <2>3. Allowed(stack)' /\ BuiltAllowed'
    BY <1>3, <1>4, <2>1, <2>2, BuildUpdateTreeAllowed, BuiltAllowedStays
  <2>4. Busy' /\ \A i \in Indices : Made(i)' = Made(i)
    BY <1>2, <1>3, <1>5, EnterBusy, EnterMade
  <2>5. read' - 1 = Stored
    BY <1>3, <1>5 DEF Stored
  <2>6. Accepting'
    BY <1>3, <1>4, <1>5, <2>1, <2>2, <2>3, <2>4, <2>5, CallsGoOn DEF Indexed
  <2>7. QED
    BY <2>2, <2>6
<1>6. CASE Rejects(c) /\ Fail
  <2>1. Top.node \in Configs /\ Located(Top.node)
    BY <1>2, <1>3, TopIsLocated
  <2>2. c \in Parts(model, Top.node)
    BY <1>1, <1>2, <1>3, <2>1, TopFacts, PartsFacts DEF MoreUpdates
  <2>3. QED
    BY <1>3, <1>6, <2>1, <2>2, RejectsFacts, RejectedPart
<1>7. QED
  BY <1>2, <1>5, <1>6

LEMMA FinishBranchAccepts ==
  ASSUME BuildInv, Accepting, FinishBranch, BuildInv'
  PROVE  IF Fail THEN ~ Representable ELSE Accepting'
<1>1. PICK c, fs : c = Top.node /\ fs = Front(stack)
  OBVIOUS
<1>2. stack # <<>> /\ status = "building"
  BY DEF FinishBranch
<1>3. /\ IInv /\ Fits /\ Busy /\ stack \in Seq(Frame) /\ c \in Configs
      /\ Located(c) /\ model \in Models
  BY <1>1, <1>2, TopIsLocated DEF BuildInv, IInv, Typed
<1>4. /\ Allowed(stack) /\ BuiltAllowed /\ Indexed /\ FreeFor(read)
  BY <1>3 DEF Accepting
<1>5. CASE ~ Fail
  <2>1. /\ HandOver(fs, c) /\ model' = model /\ status' = status /\ read' = read
        /\ node_refs' = node_refs /\ root' = root
    BY <1>1, <1>5 DEF FinishBranch
  <2>2. IInv' /\ Fits'
    BY <1>2, <2>1 DEF BuildInv
  <2>3. Allowed(stack)' /\ BuiltAllowed' /\ \A i \in Indices : Made(i)' = Made(i)
    BY <1>3, <1>4, <1>5, FinishBranchAllowed, FinishBranchMade
  <2>4. Busy'
    <3>1. CASE fs = <<>>
      BY <1>3, <2>1, <3>1, ModelsAssumption DEF HandOver, Busy
    <3>2. CASE fs # <<>>
      <4>1. fs \in Seq(Frame)
        BY <1>1, <1>2, <1>3 DEF Front
      <4>2. DOMAIN stack' = DOMAIN fs
        BY <1>3, <2>1, <3>2, <4>1, HandOverFacts
      <4>3. stack' # <<>>
        BY <3>2, <4>1, <4>2
      <4>4. QED
        BY <4>3 DEF Busy
    <3>3. QED
      BY <3>1, <3>2
  <2>5. read' - 1 = Stored
    BY <1>3, <2>1 DEF Stored
  <2>6. Accepting'
    BY <1>3, <1>4, <2>1, <2>2, <2>3, <2>4, <2>5, CallsGoOn DEF Indexed
  <2>7. QED
    BY <1>5, <2>6
<1>6. CASE Fail
  <2>1. c \notin model.sound
    BY <1>1, <1>2, <1>6 DEF FinishBranch, Fail
  <2>2. ~ Complete(c)
    BY <2>1 DEF Complete
  <2>3. QED
    BY <1>3, <1>6, <2>2, RejectedPart
<1>7. QED
  BY <1>5, <1>6
-----------------------------------------------------------------------------
LEMMA AppendByIndexAccepts ==
  ASSUME BuildInv, Accepting, AppendByIndex, BuildInv'
  PROVE  Accepting'
<1>1. PICK c, b : b = Branch.index /\ c = Refs[b]
  OBVIOUS
<1>2. /\ stack # <<>> /\ status = "building" /\ HandOver(stack, c)
      /\ b \in DOMAIN Refs /\ node_refs' = Without(node_refs, b)
      /\ model' = model /\ read' = read /\ root' = root /\ child_nodes' = child_nodes
      /\ status' = status
  BY <1>1 DEF AppendByIndex, MoreBranches
<1>3. /\ IInv /\ Fits /\ Busy /\ stack \in Seq(Frame)
      /\ b \in DOMAIN node_refs /\ c \in Configs
  BY <1>1, <1>2 DEF BuildInv, IInv, Typed, Busy, Refs, NoRefs
<1>4. /\ Allowed(stack) /\ BuiltAllowed /\ Indexed /\ FreeFor(read)
  BY <1>3 DEF Accepting
<1>5. Allowed(stack)' /\ BuiltAllowed'
  BY <1>2, <1>3, <1>4, AppendByIndexAllowed, BuiltAllowedStays
<1>6. Busy' /\ Stored' = Stored
  <2>1. DOMAIN stack' = DOMAIN stack
    BY <1>2, <1>3, HandOverFacts
  <2>2. stack' # <<>>
    BY <1>2, <1>3, <2>1
  <2>3. QED
    BY <1>2, <1>3, <2>2 DEF Busy, Stored
<1>7. /\ DOMAIN node_refs' = DOMAIN node_refs \ {b}
      /\ \A i \in DOMAIN node_refs' : node_refs'[i] = node_refs[i]
  BY <1>2 DEF Without
<1>8. /\ \A d : Numbered(d)' <=> Numbered(d)
      /\ \A i, n : /\ Claims(i, n)' = Claims(i, n)
                   /\ Definitions(i, n)' = Definitions(i, n)
      /\ \A p : InOrder(p)' <=> InOrder(p)
  BY <1>2, SameMessages DEF Numbered
<1>9. Indexed'
  BY <1>2, <1>4, <1>7, <1>8 DEF Indexed
<1>10. Balanced'
  <2>1. ASSUME NEW i \in Indices
        PROVE  Definitions(i, Stored) =
                 Cardinality(Made(i)') + IF i \in DOMAIN node_refs' THEN 1 ELSE 0
    <3>1. PICK x : /\ x \notin Made(i)
                   /\ Made(i)' = IF i = b THEN Made(i) \cup {x} ELSE Made(i)
      BY <1>1, <1>3, AppendByIndexMade
    <3>2. /\ Definitions(i, Stored) =
               Cardinality(Made(i)) + IF i \in DOMAIN node_refs THEN 1 ELSE 0
          /\ IsFiniteSet(Made(i)) /\ Cardinality(Made(i)) \in Nat
      BY <1>3, MadeFacts DEF Accepting, Balanced
    <3>3. CASE i = b
      <4>1. Cardinality(Made(i)') = Cardinality(Made(i)) + 1
        BY <3>1, <3>2, <3>3, FS_AddElement
      <4>2. QED
        BY <1>3, <1>7, <3>2, <3>3, <4>1
    <3>4. CASE i # b
      BY <1>7, <3>1, <3>2, <3>4
    <3>5. QED
      BY <3>3, <3>4
  <2>2. QED
    BY <1>6, <1>8, <2>1 DEF Balanced
<1>11. \A p \in 1 .. Stored' : InOrder(p)'
  BY <1>6, <1>8 DEF Accepting
<1>12. FreeFor(read)'
  BY <1>2, <1>4, <1>8 DEF FreeFor
<1>13. QED
  BY <1>5, <1>9, <1>10, <1>11, <1>12 DEF Accepting

\* A branch that finds no child is one that claims too much, claims from an
\* update tree, or gives no child.
LEMMA NoChildAccepts ==
  ASSUME BuildInv, Accepting, NoChild
  PROVE  Fail /\ ~ Representable
<1>1. PICK e, m, b : /\ e = Top.node /\ m = Len(Top.children) + 1
                     /\ b = model.branches[e][m]
  OBVIOUS
<1>2. /\ Fail /\ stack # <<>> /\ LacksChildren(Top) /\ status = "building" /\ b = Branch
      /\ \/ b.by = "nothing"
         \/ b.by = "index" /\ b.index \notin DOMAIN Refs
         \/ b.by = "node" /\ Rejects(b.node)
  BY <1>1 DEF NoChild, MoreBranches, Branch
<1>3. IInv /\ Fits /\ model \in Models
  BY <1>2 DEF BuildInv, IInv, Typed
<1>4. /\ e \in Configs /\ Located(e) /\ Busy /\ m \in DOMAIN model.branches[e]
      /\ Top = stack[Len(stack)] /\ Len(stack) \in DOMAIN stack
      /\ Len(Top.children) \in Nat
  BY <1>1, <1>2, <1>3, TopIsLocated, TopFacts
<1>5. b \in Branches /\ b \in ToSet(model.branches[e])
  <2>1. model.branches[e] \in Seq(Branches)
    BY <1>3, <1>4, ModelFacts
  <2>2. model.branches[e][m] \in Branches
    BY <1>4, <2>1
  <2>3. model.branches[e][m] \in ToSet(model.branches[e])
    BY <1>4, Zenon DEF ToSet
  <2>4. QED
    BY <1>1, <2>2, <2>3
<1>6. /\ read \in DOMAIN model.nodes /\ read \in Nat /\ read <= Len(model.nodes)
      /\ Stored = read - 1 /\ DOMAIN model.nodes = 1 .. Len(model.nodes)
      /\ \A p \in DOMAIN model.nodes : model.nodes[p] \in Configs
  BY <1>3, <1>4, BusyFacts
<1>7. CASE b.by = "nothing"
  <2>1. b = Childless
    BY <1>5, <1>7 DEF Branches, ByIndex, ByNode, Childless
  <2>2. ~ Complete(e)
    BY <1>5, <2>1 DEF Complete
  <2>3. QED
    BY <1>2, <1>3, <1>4, <2>2, RejectedPart
<1>8. CASE b.by = "node" /\ Rejects(b.node)
  <2>1. b = ByNode(b.node)
    <3>1. PICK d \in Configs : b = ByNode(d)
      BY <1>5, <1>8 DEF Branches, ByIndex, Childless
    <3>2. QED
      BY <3>1 DEF ByNode
  <2>2. b.node \in Parts(model, e)
    <3>1. model.branches[e][m] = ByNode(b.node)
      BY <1>1, <2>1
    <3>2. QED
      BY <1>3, <1>4, <3>1, PartsFacts
  <2>3. QED
    BY <1>2, <1>3, <1>4, <1>8, <2>2, RejectsFacts, RejectedPart
<1>9. CASE b.by = "index" /\ Top.in_update
  <2>1. InTakenUpdate(e)
    BY <1>1, <1>4, <1>9 DEF Accepting, Allowed
  <2>2. PICK p \in DOMAIN model.nodes : p <= read /\
          \E x \in Under[model.nodes[p]] : \E u \in ToSet(model.updates[x]) : e \in Under[u]
    BY <2>1 DEF InTakenUpdate
  <2>3. PICK x \in Under[model.nodes[p]] :
          \E u \in ToSet(model.updates[x]) : e \in Under[u]
    BY <2>2
  <2>4. ~ Complete(x)
    BY <1>5, <1>9, <2>3 DEF Complete
  <2>5. QED
    BY <1>2, <1>3, <2>3, <2>4, NotComplete
<1>10. CASE b.by = "index" /\ ~ Top.in_update
  <2>1. PICK i \in Indices : b = ByIndex(i)
    BY <1>5, <1>10 DEF Branches, ByNode, Childless
  <2>2. i \notin DOMAIN node_refs
    BY <1>2, <1>10, <2>1 DEF Refs, ByIndex
  <2>3. /\ Definitions(i, read - 1) = Cardinality(Made(i))
        /\ IsFiniteSet(Made(i)) /\ Cardinality(Made(i)) \in Nat
        /\ Made(i) \subseteq ClaimsOf(i, read)
    <3>1. Definitions(i, Stored) =
            Cardinality(Made(i)) + IF i \in DOMAIN node_refs THEN 1 ELSE 0
      BY DEF Accepting, Balanced
    <3>2. /\ IsFiniteSet(Made(i)) /\ Cardinality(Made(i)) \in Nat
          /\ Made(i) \subseteq ClaimsOf(i, read)
      BY <1>3, MadeFacts
    <3>3. QED
      BY <1>6, <2>2, <3>1, <3>2
  <2>4. PICK x : x = <<e, m>>
    OBVIOUS
  <2>5. x \notin Made(i)
    <3>1. SUFFICES ASSUME x \in Made(i) PROVE FALSE
      OBVIOUS
    <3>2. x[1] = e /\ x[2] = m
      BY <2>4
    <3>3. e \in DOMAIN child_nodes \/ InCall(stack, e, m)
      BY <3>1, <3>2 DEF Made
    <3>4. e \notin DOMAIN child_nodes
      BY <1>1, <1>3, <1>4, StackOnce
    <3>5. PICK f \in DOMAIN stack : stack[f].node = e /\ m <= Len(stack[f].children)
      BY <3>3, <3>4 DEF InCall
    <3>6. f = Len(stack)
      BY <1>1, <1>3, <1>4, <3>5, StackOnce
    <3>7. QED
      BY <1>1, <1>4, <3>5, <3>6
  <2>6. x \in ClaimsOf(i, read) /\ IsFiniteSet(ClaimsOf(i, read))
    <3>1. PICK p \in DOMAIN model.nodes : p <= read /\ e \in Under[model.nodes[p]]
      BY <1>3, <1>4, LocatedIsGiven
    <3>2. p \in 1 .. read
      BY <1>6, <3>1
    <3>3. QED
      BY <1>1, <1>3, <1>4, <1>6, <2>1, <2>4, <3>1, <3>2, ClaimsFacts
  <2>7. Cardinality(Made(i) \cup {x}) = Cardinality(Made(i)) + 1
    BY <2>3, <2>5, FS_AddElement
  <2>8. /\ Cardinality(Made(i) \cup {x}) <= Claims(i, read)
        /\ Claims(i, read) \in Nat
    <3>1. Made(i) \cup {x} \in SUBSET ClaimsOf(i, read)
      BY <2>3, <2>6
    <3>2. QED
      BY <2>6, <3>1, FS_Subset, FS_CardinalityType DEF Claims
  <2>9. ~ InOrder(read)
    BY <2>3, <2>7, <2>8 DEF InOrder
  <2>10. QED
    BY <1>2, <1>6, <2>9 DEF Representable
<1>11. Top.in_update \in BOOLEAN
  BY <1>2, <1>3, TopFacts
<1>12. QED
  BY <1>2, <1>7, <1>8, <1>9, <1>10, <1>11

\* The node that was built is counted now.
LEMMA StoreAccepts ==
  ASSUME BuildInv, Accepting, Store, BuildInv'
  PROVE  IF Fail THEN ~ Representable ELSE Accepting'
<1>1. PICK c : c = built
  OBVIOUS
<1>2. /\ status = "building" /\ built # NoNode /\ Busy
  BY DEF Store, Busy
<1>3. /\ IInv /\ Fits /\ stack = <<>> /\ root = NoNode /\ Taken(c) /\ c \in Configs
      /\ Indexed /\ FreeFor(read) /\ BuiltAllowed
  BY <1>1, <1>2 DEF BuildInv, Fits, IInv, Control, Typed, Accepting
<1>4. /\ model \in Models /\ read \in Nat /\ Stored = read - 1 /\ read \in DOMAIN model.nodes
      /\ DOMAIN model.nodes = 1 .. Len(model.nodes) /\ Len(model.nodes) \in Nat
      /\ read <= Len(model.nodes) /\ c = model.nodes[read] /\ read - 1 \in Nat
  BY <1>2, <1>3, BusyFacts DEF Taken
<1>5. \A i \in Indices :
        /\ Claims(i, read) \in Nat
        /\ Definitions(i, read - 1) \in Nat
        /\ Definitions(i, read - 1) =
             Claims(i, read) + IF i \in DOMAIN node_refs THEN 1 ELSE 0
        /\ Definitions(i, read) =
             Definitions(i, read - 1)
               + IF Numbered(c) /\ model.index[c] = i THEN 1 ELSE 0
        /\ Claims(i, read - 1) <= Claims(i, read) /\ Claims(i, read - 1) \in Nat
  <2>1. SUFFICES ASSUME NEW i \in Indices
                 PROVE  /\ Claims(i, read) \in Nat
                        /\ Definitions(i, read - 1) \in Nat
                        /\ Definitions(i, read - 1) =
                             Claims(i, read) + IF i \in DOMAIN node_refs THEN 1 ELSE 0
                        /\ Definitions(i, read) =
                             Definitions(i, read - 1)
                               + IF Numbered(c) /\ model.index[c] = i THEN 1 ELSE 0
                        /\ Claims(i, read - 1) <= Claims(i, read)
                        /\ Claims(i, read - 1) \in Nat
    OBVIOUS
  <2>2. /\ Claims(i, read) \in Nat
        /\ Definitions(i, read - 1) =
             Claims(i, read) + IF i \in DOMAIN node_refs THEN 1 ELSE 0
    BY <1>2, <1>3, <1>4, IdleCount
  <2>3. /\ Definitions(i, read - 1) \in Nat
        /\ Definitions(i, read) =
             Definitions(i, read - 1)
               + IF Numbered(c) /\ model.index[c] = i THEN 1 ELSE 0
    <3>1. (read - 1) + 1 = read
      BY <1>4
    <3>2. /\ Definitions(i, read - 1) \in Nat
          /\ Definitions(i, (read - 1) + 1) =
               Definitions(i, read - 1)
                 + IF /\ Numbered(model.nodes[(read - 1) + 1])
                      /\ model.index[model.nodes[(read - 1) + 1]] = i
                   THEN 1 ELSE 0
      BY <1>4, DefinitionsFacts
    <3>3. QED
      BY <1>4, <3>1, <3>2
  <2>4. Claims(i, read - 1) <= Claims(i, read)
    <3>1. read - 1 \in 0 .. read
      BY <1>4
    <3>2. QED
      BY <1>4, <3>1, ClaimsFacts
  <2>5. Claims(i, read - 1) \in Nat
    <3>1. read - 1 <= Len(model.nodes)
      BY <1>4
    <3>2. QED
      BY <1>4, <3>1, ClaimsFacts
  <2>6. QED
    BY <2>2, <2>3, <2>4, <2>5
<1>6. CASE Fail
  <2>1. PICK i : i = model.index[c]
    OBVIOUS
  <2>2. Numbered(c) /\ i \in DOMAIN node_refs /\ i \in Indices
    BY <1>1, <1>2, <1>3, <1>6, <2>1, RefsFacts DEF Store, Fail
  <2>3. Definitions(i, read) = Claims(i, read) + 2
    BY <1>5, <2>1, <2>2
  <2>4. ~ InOrder(read)
    BY <1>4, <1>5, <2>1, <2>2, <2>3 DEF InOrder
  <2>5. QED
    BY <1>4, <1>6, <2>4 DEF Representable
<1>7. CASE ~ Fail
  <2>1. /\ \/ /\ Numbered(c) /\ model.index[c] \notin DOMAIN node_refs
              /\ node_refs' = Extended(node_refs, model.index[c], c) /\ root' = root
           \/ ~ Numbered(c) /\ root' = c /\ node_refs' = node_refs
        /\ built' = NoNode /\ model' = model /\ status' = status /\ read' = read
        /\ stack' = stack /\ child_nodes' = child_nodes
    BY <1>1, <1>7 DEF Store
  <2>2. ~ Busy' /\ Stored' = read
    BY <1>3, <2>1 DEF Busy, Stored
  <2>3. /\ \A d : Numbered(d)' <=> Numbered(d)
        /\ \A i, n : /\ Claims(i, n)' = Claims(i, n)
                     /\ Definitions(i, n)' = Definitions(i, n)
        /\ \A p : InOrder(p)' <=> InOrder(p)
    BY <2>1, SameMessages DEF Numbered
  <2>4. Allowed(stack)' /\ BuiltAllowed'
    BY <1>3, <2>1, BuiltAllowedStays DEF Allowed
  <2>5. Indexed'
    <3>1. \A i \in DOMAIN node_refs' : Numbered(node_refs'[i])
      BY <1>3, <2>1 DEF Indexed, Extended
    <3>2. root' # NoNode => ~ Numbered(root')
      BY <1>3, <2>1
    <3>3. QED
      BY <1>3, <2>1, <2>3, <3>1, <3>2 DEF Indexed
  <2>6. Balanced'
    <3>1. \A i \in Indices : Cardinality(Made(i))' = Claims(i, read)
      <4>1. \A i : Made(i)' = Made(i)
        BY <2>1 DEF Made, InCall
      <4>2. \A i \in Indices : Made(i) = ClaimsOf(i, read)
        BY <1>2, <1>3, MadeFacts DEF BuildInv
      <4>3. QED
        BY <4>1, <4>2 DEF Claims
    <3>2. ASSUME NEW i \in Indices
          PROVE  Definitions(i, read) =
                   Claims(i, read) + IF i \in DOMAIN node_refs' THEN 1 ELSE 0
      BY <1>5, <2>1, <3>2 DEF Extended
    <3>3. QED
      BY <2>2, <2>3, <3>1, <3>2 DEF Balanced
  <2>7. InOrder(read)
    <3>1. SUFFICES ASSUME NEW i \in Indices
                   PROVE  /\ Claims(i, read) <= Definitions(i, read - 1)
                          /\ model.index[c] = i =>
                               Definitions(i, read)
                                 - Claims(i, IF model.library = "kt" THEN read - 1 ELSE read)
                                 <= 1
      BY <1>4 DEF InOrder
    <3>2. Claims(i, read) <= Definitions(i, read - 1)
      BY <1>5
    <3>3. CASE model.library = "kt"
      BY <1>3, <1>4, <3>2, <3>3 DEF FreeFor
    <3>4. CASE model.library # "kt"
      BY <1>5, <2>1, <3>2, <3>4
    <3>5. QED
      BY <3>3, <3>4
  <2>8. \A p \in 1 .. Stored' : InOrder(p)'
    <3>1. \A p \in 1 .. read : p \in 1 .. Stored \/ p = read
      BY <1>4
    <3>2. QED
      BY <2>2, <2>3, <2>7, <3>1 DEF Accepting
  <2>9. QED
    BY <1>7, <2>2, <2>4, <2>5, <2>6, <2>8 DEF Accepting
<1>8. QED
  BY <1>6, <1>7

\* The end: what is left over is the root.
LEMMA FinishAccepts ==
  ASSUME BuildInv, Accepting, Finish
  PROVE  IF Fail THEN ~ Representable ELSE status' = "ok" /\ Representable
<1>1. /\ status = "building" /\ stack = <<>> /\ built = NoNode
      /\ read = Len(model.nodes) /\ ~ Busy
  BY DEF Finish, Busy
<1>2. /\ IInv /\ Fits /\ Waiting /\ Indexed /\ BuiltAllowed /\ ListedKept
      /\ OwnedAreGrown
  BY <1>1 DEF BuildInv, Fits, Accepting
<1>3. /\ model \in Models /\ read \in Nat /\ Stored = read
      /\ DOMAIN model.nodes = 1 .. read
      /\ \A p \in DOMAIN model.nodes : model.nodes[p] \in Configs
  BY <1>1, <1>2, BusyFacts
<1>4. PICK last : last = model.nodes[read]
  OBVIOUS
<1>5. \A i \in Indices :
        Definitions(i, read) - Claims(i, read) = IF i \in DOMAIN node_refs THEN 1 ELSE 0
  <2>1. ASSUME NEW i \in Indices
        PROVE  /\ Claims(i, read) \in Nat
               /\ Definitions(i, read) =
                    Claims(i, read) + IF i \in DOMAIN node_refs THEN 1 ELSE 0
    BY <1>1, <1>3, IdleCount
  <2>2. QED
    BY <2>1
<1>6. Representable <=>
        /\ read > 0
        /\ \A p \in 1 .. read :
             /\ p < read => Numbered(model.nodes[p])
             /\ \A c \in Under[model.nodes[p]] : Complete(c)
             /\ InOrder(p)
        /\ \A i \in Indices :
             (IF i \in DOMAIN node_refs THEN 1 ELSE 0)
               = IF Numbered(last) /\ model.index[last] = i THEN 1 ELSE 0
  BY <1>1, <1>4, <1>5 DEF Representable
<1>7. \A i \in DOMAIN node_refs : /\ i \in Indices /\ Numbered(node_refs[i])
                                  /\ model.index[node_refs[i]] = i
  BY <1>2, RefsFacts
<1>8. CASE Fail
  <2>1. IF root = NoNode THEN Cardinality(DOMAIN node_refs) # 1 ELSE DOMAIN node_refs # {}
    BY <1>1, <1>8 DEF Finish, Fail
  <2>2. CASE root # NoNode
    <3>1. last = root /\ ~ Numbered(last)
      BY <1>2, <1>4, <2>2 DEF Waiting, Taken, Indexed
    <3>2. QED
      BY <1>6, <1>7, <1>8, <2>1, <2>2, <3>1
  <2>3. CASE root = NoNode /\ read = 0
    BY <1>6, <1>8, <2>3
  <2>4. CASE root = NoNode /\ read # 0
    <3>1. PICK i \in DOMAIN node_refs : last = node_refs[i]
      BY <1>2, <1>4, <2>4 DEF Waiting, Taken
    <3>2. DOMAIN node_refs # {i}
      BY <2>1, <2>4, FS_Singleton
    <3>3. PICK j \in DOMAIN node_refs : j # i
      BY <3>1, <3>2
    <3>4. model.index[last] = i
      BY <1>7, <3>1
    <3>5. QED
      BY <1>6, <1>7, <1>8, <3>3, <3>4
  <2>5. QED
    BY <2>2, <2>3, <2>4
<1>9. CASE ~ Fail
  <2>1. /\ status' = "ok"
        /\ \/ root # NoNode /\ DOMAIN node_refs = {}
           \/ root = NoNode /\ \E i \in DOMAIN node_refs : DOMAIN node_refs = {i}
    BY <1>9 DEF Finish
  <2>2. /\ read > 0
        /\ \A i \in Indices :
             (IF i \in DOMAIN node_refs THEN 1 ELSE 0)
               = IF Numbered(last) /\ model.index[last] = i THEN 1 ELSE 0
    <3>1. CASE root # NoNode
      <4>1. last = root /\ ~ Numbered(last) /\ read \in DOMAIN model.nodes
        BY <1>2, <1>4, <3>1 DEF Waiting, Taken, Indexed
      <4>2. QED
        BY <1>3, <2>1, <3>1, <4>1
    <3>2. CASE root = NoNode
      <4>1. PICK i \in DOMAIN node_refs : DOMAIN node_refs = {i}
        BY <2>1, <3>2
      <4>2. last = node_refs[i] /\ read \in DOMAIN model.nodes
        BY <1>2, <1>4, <3>2, <4>1 DEF Waiting, Taken
      <4>3. QED
        BY <1>3, <1>7, <4>1, <4>2
    <3>3. QED
      BY <3>1, <3>2
  <2>3. ASSUME NEW p \in 1 .. read, NEW c \in Under[model.nodes[p]] PROVE Complete(c)
    <3>1. c \in Configs /\ Owned(c)
      BY <1>1, <1>2, <1>3, <2>3, GivenIsOwned
    <3>2. /\ model.branches[c] \in Seq(Branches) /\ model.updates[c] \in Seq(Configs)
          /\ c \notin model.branching => model.branches[c] = <<>> /\ model.updates[c] = <<>>
      BY <1>3, <3>1, ModelFacts, ModelsAssumption
    <3>3. CASE c \in DOMAIN child_nodes
      <4>1. c \in model.sound /\ model.branches[c] # <<>>
        BY <1>2, <3>3 DEF BuiltAllowed
      <4>2. Childless \notin ToSet(model.branches[c])
        <5>1. SUFFICES ASSUME NEW k \in DOMAIN model.branches[c],
                              model.branches[c][k] = Childless
                       PROVE  FALSE
          BY DEF ToSet
        <5>2. /\ child_nodes[c] \in Seq(Configs)
              /\ Len(child_nodes[c]) = Len(model.branches[c])
          BY <1>2, <3>3 DEF Fits, BuiltFits
        <5>3. k \in DOMAIN child_nodes[c]
          BY <3>2, <5>2
        <5>4. Suits(model.branches[c][k], child_nodes[c][k])
          BY <1>2, <3>3, <5>3 DEF Fits, BuiltFits
        <5>5. QED
          BY <5>1, <5>4 DEF Suits, Childless
      <4>3. ASSUME NEW u \in ToSet(model.updates[c]), NEW d \in Under[u],
                   NEW b \in ToSet(model.branches[d])
            PROVE  b.by # "index"
        <5>1. u \in Configs /\ u \in Parts(model, c)
          BY <3>2, <4>3 DEF ToSet, Parts
        <5>2. u \in Under[model.nodes[p]]
          BY <1>3, <2>3, <5>1, UnderFacts
        <5>3. Owned(u)
          BY <1>1, <1>2, <1>3, <2>3, <5>2, GivenIsOwned
        <5>4. d \in Configs /\ Owned(d)
          BY <1>2, <4>3, <5>1, <5>3, OwnedIsWhole
        <5>5. model.branches[d] \in Seq(Branches)
          BY <1>3, <5>4, ModelFacts
        <5>6. PICK k \in DOMAIN model.branches[d] : model.branches[d][k] = b
          BY <4>3 DEF ToSet
        <5>7. d \in DOMAIN child_nodes
          <6>1. d \in DOMAIN child_nodes \/ d \notin model.branching
            BY <1>2, <5>4 DEF OwnedAreGrown, Grown
          <6>2. d \notin model.branching => model.branches[d] = <<>>
            BY <1>3, <5>4, ModelsAssumption
          <6>3. QED
            BY <5>6, <6>1, <6>2
        <5>8. InUpdate(d)
          BY <3>1, <4>3 DEF InUpdate
        <5>9. Claimless(d, Len(model.branches[d]))
          BY <1>2, <5>7, <5>8 DEF BuiltAllowed
        <5>10. QED
          BY <5>5, <5>6, <5>9 DEF Claimless
      <4>4. QED
        BY <4>1, <4>2, <4>3 DEF Complete
    <3>4. CASE c \in model.sound \ model.branching
      <4>1. ToSet(model.branches[c]) = {} /\ ToSet(model.updates[c]) = {}
        BY <3>2, <3>4 DEF ToSet
      <4>2. QED
        BY <3>4, <4>1 DEF Complete
    <3>5. QED
      BY <1>2, <3>1, <3>3, <3>4 DEF OwnedAreGrown, Grown
  <2>4. \A p \in 1 .. read : InOrder(p) /\ (p < read => Numbered(model.nodes[p]))
    BY <1>2, <1>3 DEF Accepting, Indexed
  <2>5. QED
    BY <1>6, <1>9, <2>1, <2>2, <2>3, <2>4
<1>10. QED
  BY <1>8, <1>9
-----------------------------------------------------------------------------
LEMMA AcceptInvInit ==
  ASSUME Init
  PROVE  AcceptInv
<1>1. BuildInv
  BY BuildInvInit
<1>2. /\ stack = <<>> /\ built = NoNode /\ read = 0 /\ root = NoNode
      /\ DOMAIN node_refs = {} /\ DOMAIN child_nodes = {} /\ status = "building"
      /\ model \in Models /\ DOMAIN stack = {}
  BY DEF Init, NoRefs
<1>3. ~ Busy /\ Stored = 0
  BY <1>2 DEF Busy, Stored
<1>4. Allowed(stack) /\ BuiltAllowed
  BY <1>2 DEF Allowed, BuiltAllowed
<1>5. Indexed
  <2>1. \A p \in DOMAIN model.nodes : p \in Nat /\ p > 0
    BY <1>2, ModelFacts
  <2>2. QED
    BY <1>2, <2>1 DEF Indexed
<1>6. Balanced
  <2>1. ASSUME NEW i \in Indices
        PROVE  Cardinality(Made(i)) = 0 /\ Definitions(i, 0) = 0
    <3>1. Made(i) = {}
      BY <1>2 DEF Made, InCall
    <3>2. Definitions(i, 0) = 0
      BY DefinitionsFacts
    <3>3. QED
      BY <3>1, <3>2, FS_EmptySet
  <2>2. \A i \in Indices : i \notin DOMAIN node_refs
    BY <1>2
  <2>3. QED
    BY <1>3, <2>1, <2>2 DEF Balanced
<1>7. QED
  BY <1>1, <1>2, <1>3, <1>4, <1>5, <1>6 DEF AcceptInv, Accepting, AcceptsTrees

LEMMA AcceptInvStep ==
  ASSUME AcceptInv, [Next]_vars
  PROVE  AcceptInv'
<1>1. BuildInv /\ BuildInv'
  BY BuildInvStep DEF AcceptInv
<1>2. CASE UNCHANGED vars
  <2>1. /\ model' = model /\ status' = status /\ read' = read /\ stack' = stack
        /\ built' = built /\ node_refs' = node_refs /\ child_nodes' = child_nodes
        /\ updaters' = updaters /\ root' = root
    BY <1>2 DEF vars
  <2>2. AcceptsTrees'
    BY <2>1, SameMessages DEF AcceptInv, AcceptsTrees
  <2>3. ASSUME Accepting PROVE Accepting'
    <3>1. /\ \A x : /\ InUpdate(x)' <=> InUpdate(x)
                    /\ InTakenUpdate(x)' <=> InTakenUpdate(x)
                    /\ Numbered(x)' <=> Numbered(x)
          /\ \A x, n : Claimless(x, n)' <=> Claimless(x, n)
          /\ \A i, n : /\ Claims(i, n)' = Claims(i, n)
                       /\ Definitions(i, n)' = Definitions(i, n)
          /\ \A p : InOrder(p)' <=> InOrder(p)
          /\ \A i : Made(i)' = Made(i)
          /\ Stored' = Stored /\ (Busy' <=> Busy)
      BY <2>1, SameMessages DEF InUpdate, InTakenUpdate, Numbered, Claimless, Made,
                                InCall, Stored, Busy
    <3>2. Allowed(stack)' /\ BuiltAllowed'
      BY <2>1, <2>3, <3>1 DEF Accepting, Allowed, BuiltAllowed, LacksChildren
    <3>3. Indexed' /\ Balanced' /\ (Busy' => FreeFor(read)')
      BY <2>1, <2>3, <3>1 DEF Accepting, Indexed, Balanced, FreeFor
    <3>4. QED
      BY <2>3, <3>1, <3>2, <3>3 DEF Accepting
  <2>4. BuiltAllowed => BuiltAllowed'
    BY <2>1, BuiltAllowedStays
  <2>5. QED
    BY <1>1, <2>1, <2>2, <2>3, <2>4 DEF AcceptInv
<1>3. CASE Next
  <2>1. status = "building" /\ Accepting
    <3>1. status = "building"
      BY <1>3 DEF Next, TakeNode, AppendByIndex, AppendByNode, NoChild,
                  BuildUpdateTree, FinishBranch, Store, Finish, MoreBranches,
                  MoreUpdates
    <3>2. QED
      BY <3>1 DEF AcceptInv
  <2>2. ASSUME Fail, ~ Representable PROVE AcceptInv'
    <3>1. status' = "error" /\ model' = model
      BY <2>2 DEF Fail
    <3>2. QED
      BY <1>1, <2>2, <3>1, SameMessages DEF AcceptInv, AcceptsTrees
  <2>3. ASSUME Accepting', status' = status PROVE AcceptInv'
    BY <1>1, <2>1, <2>3 DEF AcceptInv, AcceptsTrees, Accepting
  <2>4. CASE TakeNode
    <3>1. ~ Fail => status' = status
      BY <2>4 DEF TakeNode, Enter
    <3>2. QED
      BY <1>1, <2>1, <2>2, <2>3, <2>4, <3>1, TakeNodeAccepts
  <2>5. CASE AppendByIndex
    <3>1. status' = status
      BY <2>5 DEF AppendByIndex
    <3>2. QED
      BY <1>1, <2>1, <2>3, <2>5, <3>1, AppendByIndexAccepts
  <2>6. CASE AppendByNode
    <3>1. status' = status
      BY <2>6 DEF AppendByNode, Enter
    <3>2. QED
      BY <1>1, <2>1, <2>3, <2>6, <3>1, AppendByNodeAccepts
  <2>7. CASE NoChild
    BY <1>1, <2>1, <2>2, <2>7, NoChildAccepts
  <2>8. CASE BuildUpdateTree
    <3>1. ~ Fail => status' = status
      BY <2>8 DEF BuildUpdateTree, Enter
    <3>2. QED
      BY <1>1, <2>1, <2>2, <2>3, <2>8, <3>1, BuildUpdateTreeAccepts
  <2>9. CASE FinishBranch
    <3>1. ~ Fail => status' = status
      BY <2>9 DEF FinishBranch
    <3>2. QED
      BY <1>1, <2>1, <2>2, <2>3, <2>9, <3>1, FinishBranchAccepts
  <2>10. CASE Store
    <3>1. ~ Fail => status' = status
      BY <2>10 DEF Store
    <3>2. QED
      BY <1>1, <2>1, <2>2, <2>3, <2>10, <3>1, StoreAccepts
  <2>11. CASE Finish
    <3>1. ASSUME status' = "ok", Representable, ~ Fail PROVE AcceptInv'
      <4>1. model' = model /\ child_nodes' = child_nodes
        BY <2>11, <3>1 DEF Finish
      <4>2. BuiltAllowed'
        BY <2>1, <4>1, BuiltAllowedStays DEF Accepting
      <4>3. QED
        BY <1>1, <3>1, <4>1, <4>2, SameMessages DEF AcceptInv, AcceptsTrees
    <3>2. QED
      BY <1>1, <2>1, <2>2, <2>11, <3>1, FinishAccepts
  <2>12. QED
    BY <1>3, <2>4, <2>5, <2>6, <2>7, <2>8, <2>9, <2>10, <2>11 DEF Next
<1>4. QED
  BY <1>2, <1>3

\* The branch nodes of the tree are built from the messages of branch nodes.
LEMMA BuiltBranches ==
  ASSUME AcceptInv, status = "ok"
  PROVE  DOMAIN child_nodes = Reached[root] \cap model.branching
<1>1. /\ BuildInv /\ BuiltAllowed /\ IInv /\ OwnedAreGrown /\ model \in Models
      /\ stack = <<>>
  BY DoneFacts DEF AcceptInv
<1>2. ASSUME NEW c \in DOMAIN child_nodes
      PROVE  c \in Reached[root] /\ c \in model.branching
  <2>1. c \in Configs /\ Owned(c)
    BY <1>1, <1>2 DEF IInv, Typed
  <2>2. model.branches[c] # <<>>
    BY <1>1, <1>2 DEF BuiltAllowed
  <2>3. c \in model.branching
    BY <1>1, <2>1, <2>2, ModelsAssumption
  <2>4. QED
    BY <1>1, <2>1, <2>3, OwnedIsReached
<1>3. ASSUME NEW c \in Reached[root], c \in model.branching
      PROVE  c \in DOMAIN child_nodes
  <2>1. c \in Configs /\ Located(c)
    BY <1>1, <1>3, OwnedIsReached
  <2>2. \A kind, x, k : At(kind, x, k, c) => kind # "stack"
    <3>1. DOMAIN stack = {}
      BY <1>1
    <3>2. QED
      BY <3>1 DEF At, Working, Kept
  <2>3. Owned(c)
    BY <2>1, <2>2, Zenon DEF Located, Owned
  <2>4. QED
    BY <1>1, <1>3, <2>1, <2>3 DEF OwnedAreGrown, Grown
<1>4. QED
  BY <1>2, <1>3

\* For every list of messages, and every root, in either library: Build
\* returns a model if and only if the list represents a tree, and reports an
\* error if and only if it does not.
THEOREM AcceptsExactlyTrees == Spec => []AcceptsTrees
<1>1. Init => AcceptInv
  BY AcceptInvInit
<1>2. AcceptInv /\ [Next]_vars => AcceptInv'
  BY AcceptInvStep
<1>3. AcceptInv => AcceptsTrees
  BY DEF AcceptInv
<1>4. QED
  BY <1>1, <1>2, <1>3, PTL DEF Spec
=============================================================================
