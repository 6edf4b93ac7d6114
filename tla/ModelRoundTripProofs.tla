------------------------ MODULE ModelRoundTripProofs ------------------------
(***************************************************************************)
(* Theorems about ModelRoundTrip, for all messages and any number of calls *)
(* with them.                                                              *)
(***************************************************************************)
EXTENDS ModelRoundTrip, FiniteSetTheorems, SequenceTheorems, WellFoundedInduction, TLAPS

\* The messages that any set has that has the root and, of each of its
\* messages, the children.
RootedIn(t) ==
  {c \in Configs : \A S \in SUBSET Configs :
     t.root \in S /\ (\A d \in S : Children(t, d) \subseteq S) => c \in S}
FromRoot == RootedIn(tree)

\* A branch has the number of the message that was nested there, and that
\* message is one of the first n of the list.
Linked(c, k, n) ==
  \E j \in 1 .. n : /\ branches[c][k] = ByIndex(j - 1)
                    /\ tree.branches[c][k] = ByNode(node_list[j])

Typed ==
  /\ IsTree(tree)
  /\ branches \in [Configs -> Seq(Branches)]
  /\ index \in [Configs -> Nat \cup {NoIndex}]
  /\ outcome \in {"listing", "listed", "refused"}
  /\ calls \in Seq([node : Configs, done : Nat])
  /\ next_index \in Nat /\ node_list \in Seq(Configs)

\* The message is as it was passed in, but for nested children that this call
\* or an earlier one has replaced.
Rewritten ==
  \A c \in Configs :
    /\ Len(branches[c]) = Len(tree.branches[c])
    /\ \A k \in DOMAIN branches[c] :
         \/ branches[c][k] = tree.branches[c][k]
         \/ /\ branches[c][k].by = "index" /\ tree.branches[c][k].by = "node"
            /\ c \in FromRoot

Numbered ==
  /\ \A c \in Configs : index[c] # NoIndex => c \in FromRoot
  /\ \A p \in DOMAIN node_list : index[node_list[p]] = p - 1
  /\ outcome # "refused" => next_index = Len(node_list)

\* Each call is for the child that its caller has come to, and all branches
\* before that one are rewritten.
CallFits(f, c) ==
  /\ c \in FromRoot /\ calls[f].done <= Len(branches[c])
  /\ \A k \in 1 .. calls[f].done : Linked(c, k, Len(node_list))
  /\ f < Len(calls) => /\ calls[f].done < Len(branches[c])
                       /\ branches[c][calls[f].done + 1] = ByNode(calls[f + 1].node)
Calling ==
  /\ calls # <<>> /\ calls[1].node = tree.root
  /\ \A f \in DOMAIN calls : \A c \in Configs : calls[f].node = c => CallFits(f, c)
  /\ \A f, g \in DOMAIN calls : calls[f].node = calls[g].node => f = g
  /\ \A p \in DOMAIN node_list : node_list[p] # tree.root

\* A message is listed after its children, and rewritten wherever it was.
ListedFits(p, c) ==
  /\ c \in FromRoot
  /\ \A k \in DOMAIN branches[c] : Linked(c, k, p - 1)
  /\ c # tree.root =>
       \E e \in Configs : \E k \in DOMAIN branches[e] :
         tree.branches[e][k] = ByNode(c) /\ branches[e][k].by = "index"
Listed ==
  \A p \in DOMAIN node_list : \A c \in Configs : node_list[p] = c => ListedFits(p, c)

SInv ==
  /\ Typed /\ Rewritten /\ Numbered /\ Listed
  /\ outcome = "listing" => Calling
  /\ outcome = "listed" => node_list # <<>> /\ Last(node_list) = tree.root
  /\ outcome = "refused" => node_list = <<>>
-----------------------------------------------------------------------------
LEMMA TreeFacts ==
  ASSUME NEW t, IsTree(t)
  PROVE  /\ t.root \in Configs /\ t.branches \in [Configs -> Seq(Branches)]
         /\ t.updates \in [Configs -> Seq(Configs)]
         /\ t.branching \subseteq Configs /\ t.sound \subseteq Configs
         /\ \A c \in Configs \ t.branching : t.branches[c] = <<>> /\ t.updates[c] = <<>>
  BY DEF IsTree, Tree

\* A branch says how its child is given, and by what.
LEMMA BranchFacts ==
  /\ \A b \in Branches : /\ b.by \in {"index", "node", "nothing"}
                         /\ b.by = "node" => b.node \in Configs /\ b = ByNode(b.node)
                         /\ b.by = "index" => b.index \in Nat /\ b = ByIndex(b.index)
                         /\ b.by = "nothing" => b = Childless
  /\ \A i : ByIndex(i).by = "index" /\ ByIndex(i).index = i
  /\ \A c : ByNode(c).by = "node" /\ ByNode(c).node = c
  /\ Childless.by = "nothing"
  /\ \A i \in Nat : ByIndex(i) \in Branches
  /\ \A c \in Configs : ByNode(c) \in Branches
  BY DEF Branches, ByIndex, ByNode, Childless

\* The children of a message are what its branches nest.
LEMMA ChildrenFacts ==
  ASSUME NEW t, IsTree(t), NEW c \in Configs
  PROVE  /\ Children(t, c) \subseteq Configs
         /\ \A d : d \in Children(t, c) <=>
                     \E k \in DOMAIN t.branches[c] : t.branches[c][k] = ByNode(d)
<1>1. t.branches[c] \in Seq(Branches)
  BY TreeFacts
<1>2. \A k \in DOMAIN t.branches[c] : t.branches[c][k] \in Branches
  BY <1>1
<1>3. QED
  BY <1>2, BranchFacts DEF Children, ToSet

\* A message has one place at most, and the root none.
LEMMA OnePlace ==
  ASSUME NEW t, IsTree(t), NEW c \in Configs
  PROVE  /\ \A d, e \in Configs : \A k \in DOMAIN t.branches[d], j \in DOMAIN t.branches[e] :
              t.branches[d][k] = ByNode(c) /\ t.branches[e][j] = ByNode(c)
                => d = e /\ k = j
         /\ \A d, e \in Configs : \A k \in DOMAIN t.branches[d], j \in DOMAIN t.updates[e] :
              ~ (t.branches[d][k] = ByNode(c) /\ t.updates[e][j] = c)
         /\ \A d, e \in Configs : \A k \in DOMAIN t.updates[d], j \in DOMAIN t.updates[e] :
              t.updates[d][k] = c /\ t.updates[e][j] = c => d = e /\ k = j
         /\ \A d \in Configs : \A k \in DOMAIN t.branches[d] :
              t.branches[d][k] = ByNode(c) => c # t.root
         /\ \A d \in Configs : \A k \in DOMAIN t.updates[d] :
              t.updates[d][k] = c => c # t.root
<1>1. ASSUME NEW d \in Configs, NEW k \in DOMAIN t.branches[d],
             t.branches[d][k] = ByNode(c)
      PROVE  <<"branch", d, k>> \in Places(t, c)
  BY <1>1 DEF Places
<1>2. ASSUME NEW d \in Configs, NEW k \in DOMAIN t.updates[d], t.updates[d][k] = c
      PROVE  <<"update", d, k>> \in Places(t, c)
  BY <1>2 DEF Places
<1>3. /\ \A p, q \in Places(t, c) : p = q
      /\ c = t.root => Places(t, c) = {}
  BY DEF IsTree
<1>4. ASSUME NEW d \in Configs, NEW e \in Configs,
             NEW k \in DOMAIN t.branches[d], NEW j \in DOMAIN t.branches[e],
             t.branches[d][k] = ByNode(c), t.branches[e][j] = ByNode(c)
      PROVE  d = e /\ k = j
  <2>1. <<"branch", d, k>> = <<"branch", e, j>>
    BY <1>1, <1>3, <1>4
  <2>2. QED
    BY <2>1
<1>5. ASSUME NEW d \in Configs, NEW e \in Configs,
             NEW k \in DOMAIN t.branches[d], NEW j \in DOMAIN t.updates[e],
             t.branches[d][k] = ByNode(c), t.updates[e][j] = c
      PROVE  FALSE
  <2>1. <<"branch", d, k>> = <<"update", e, j>>
    BY <1>1, <1>2, <1>3, <1>5
  <2>2. QED
    BY <2>1
<1>6. ASSUME NEW d \in Configs, NEW e \in Configs,
             NEW k \in DOMAIN t.updates[d], NEW j \in DOMAIN t.updates[e],
             t.updates[d][k] = c, t.updates[e][j] = c
      PROVE  d = e /\ k = j
  <2>1. <<"update", d, k>> = <<"update", e, j>>
    BY <1>2, <1>3, <1>6
  <2>2. QED
    BY <2>1
<1>7. ASSUME c = t.root
      PROVE  /\ \A d \in Configs : \A k \in DOMAIN t.branches[d] : t.branches[d][k] # ByNode(c)
             /\ \A d \in Configs : \A k \in DOMAIN t.updates[d] : t.updates[d][k] # c
  <2>1. Places(t, c) = {}
    BY <1>3, <1>7
  <2>2. QED
    BY <1>1, <1>2, <2>1
<1>8. \A d, e \in Configs : \A k \in DOMAIN t.branches[d], j \in DOMAIN t.branches[e] :
        t.branches[d][k] = ByNode(c) /\ t.branches[e][j] = ByNode(c) => d = e /\ k = j
  BY <1>4
<1>9. \A d, e \in Configs : \A k \in DOMAIN t.branches[d], j \in DOMAIN t.updates[e] :
        ~ (t.branches[d][k] = ByNode(c) /\ t.updates[e][j] = c)
  BY <1>5
<1>10. \A d, e \in Configs : \A k \in DOMAIN t.updates[d], j \in DOMAIN t.updates[e] :
         t.updates[d][k] = c /\ t.updates[e][j] = c => d = e /\ k = j
  BY <1>6
<1>11. /\ \A d \in Configs : \A k \in DOMAIN t.branches[d] :
            t.branches[d][k] = ByNode(c) => c # t.root
       /\ \A d \in Configs : \A k \in DOMAIN t.updates[d] :
            t.updates[d][k] = c => c # t.root
  BY <1>7
<1>12. QED
  BY <1>8, <1>9, <1>10, <1>11, Zenon

LEMMA RootedFacts ==
  ASSUME NEW t, IsTree(t)
  PROVE  /\ RootedIn(t) \subseteq Configs /\ t.root \in RootedIn(t)
         /\ \A c \in RootedIn(t) : Children(t, c) \subseteq RootedIn(t)
         /\ \A S \in SUBSET Configs :
              t.root \in S /\ (\A d \in S : Children(t, d) \subseteq S)
                => RootedIn(t) \subseteq S
<1>1. t.root \in RootedIn(t)
  BY TreeFacts DEF RootedIn
<1>2. ASSUME NEW c \in RootedIn(t), NEW d \in Children(t, c)
      PROVE  d \in RootedIn(t)
  <2>1. d \in Configs
    BY <1>2, ChildrenFacts DEF RootedIn
  <2>2. ASSUME NEW S \in SUBSET Configs, t.root \in S,
               \A x \in S : Children(t, x) \subseteq S
        PROVE  d \in S
    BY <1>2, <2>2 DEF RootedIn
  <2>3. QED
    BY <2>1, <2>2 DEF RootedIn
<1>3. QED
  BY <1>1, <1>2 DEF RootedIn

LEMMA FromRootFacts ==
  ASSUME IsTree(tree)
  PROVE  /\ FromRoot \subseteq Configs /\ tree.root \in FromRoot
         /\ \A c \in FromRoot : Children(tree, c) \subseteq FromRoot
         /\ \A S \in SUBSET Configs :
              tree.root \in S /\ (\A d \in S : Children(tree, d) \subseteq S)
                => FromRoot \subseteq S
  BY RootedFacts DEF FromRoot
-----------------------------------------------------------------------------
(***************************************************************************)
(* ToNodeListRepresentation keeps SInv.                                    *)
(***************************************************************************)
Fresh ==
  /\ Typed /\ Rewritten /\ (\A c \in Configs : index[c] # NoIndex => c \in FromRoot)
  /\ outcome = "listing" /\ calls = << [node |-> tree.root, done |-> 0] >>
  /\ next_index = 0 /\ node_list = <<>>

LEMMA StartListing == Fresh => SInv
<1> SUFFICES ASSUME Fresh PROVE SInv
  OBVIOUS
<1> USE DEF Fresh
<1>1. /\ IsTree(tree) /\ tree.root \in Configs
      /\ branches[tree.root] \in Seq(Branches)
  BY TreeFacts DEF Typed
<1>2. Numbered /\ Listed
  BY DEF Numbered, Listed
<1>3. Calling
  <2>1. /\ Len(calls) = 1 /\ DOMAIN calls = {1} /\ calls # <<>>
        /\ calls[1].node = tree.root /\ calls[1].done = 0
    OBVIOUS
  <2>2. tree.root \in FromRoot /\ DOMAIN node_list = {}
    BY <1>1, FromRootFacts
  <2>3. 0 <= Len(branches[tree.root])
    BY <1>1
  <2>4. \A c \in Configs : calls[1].node = c => CallFits(1, c)
    BY <2>1, <2>2, <2>3 DEF CallFits
  <2>5. QED
    BY <2>1, <2>2, <2>4 DEF Calling
<1>4. QED
  BY <1>2, <1>3 DEF SInv

LEMMA SInvInit ==
  ASSUME Init
  PROVE  SInv
<1>1. IsTree(tree)
  BY TreesAssumption DEF Init
<1>2. tree.root \in Configs /\ tree.branches \in [Configs -> Seq(Branches)]
  BY <1>1, TreeFacts
<1>3. Typed
  BY <1>1, <1>2 DEF Typed, Init
<1>4. Rewritten /\ \A c \in Configs : index[c] # NoIndex => c \in FromRoot
  BY DEF Rewritten, Init
<1>5. QED
  BY <1>3, <1>4, StartListing DEF Fresh, Init

LEMMA Elements ==
  ASSUME NEW S, NEW s \in Seq(S)
  PROVE  /\ Len(s) \in Nat /\ DOMAIN s = 1 .. Len(s)
         /\ \A i \in DOMAIN s : s[i] \in S
  OBVIOUS

LEMMA CallFacts ==
  ASSUME SInv, outcome = "listing"
  PROVE  /\ Len(calls) \in Nat \ {0} /\ DOMAIN calls = 1 .. Len(calls)
         /\ Call = calls[Len(calls)] /\ Call.node \in FromRoot
         /\ \A f \in DOMAIN calls : /\ calls[f] \in [node : Configs, done : Nat]
                                    /\ calls[f].node \in Configs
                                    /\ calls[f].done \in Nat
         /\ branches[Call.node] \in Seq(Branches)
         /\ Call.done <= Len(branches[Call.node])
         /\ MoreChildren => /\ Call.done + 1 \in DOMAIN branches[Call.node]
                            /\ NextBranch \in Branches
<1>1. /\ calls \in Seq([node : Configs, done : Nat]) /\ calls # <<>>
      /\ branches \in [Configs -> Seq(Branches)]
      /\ \A f \in DOMAIN calls : \A c \in Configs :
           calls[f].node = c => c \in FromRoot /\ calls[f].done <= Len(branches[c])
  BY DEF SInv, Typed, Calling, CallFits
<1>2. Len(calls) \in Nat \ {0} /\ DOMAIN calls = 1 .. Len(calls)
  BY <1>1
<1>3. \A f \in DOMAIN calls : /\ calls[f] \in [node : Configs, done : Nat]
                              /\ calls[f].node \in Configs
                              /\ calls[f].done \in Nat
  <2>1. \A f \in DOMAIN calls : calls[f] \in [node : Configs, done : Nat]
    BY <1>1, Elements
  <2>2. QED
    BY <2>1
<1>4. Len(calls) \in DOMAIN calls /\ Call = calls[Len(calls)]
  BY <1>2 DEF Call, Last
<1>5. branches[Call.node] \in Seq(Branches)
  BY <1>1, <1>3, <1>4
<1>6. ASSUME MoreChildren
      PROVE  /\ Call.done + 1 \in DOMAIN branches[Call.node]
             /\ NextBranch \in Branches
  <2>1. Call.done + 1 \in DOMAIN branches[Call.node]
    BY <1>3, <1>4, <1>5, <1>6 DEF MoreChildren
  <2>2. QED
    BY <1>5, <2>1 DEF NextBranch
<1>7. QED
  BY <1>1, <1>2, <1>3, <1>4, <1>5, <1>6

LEMMA SameDomain ==
  ASSUME SInv, NEW c \in Configs
  PROVE  /\ branches[c] \in Seq(Branches) /\ tree.branches[c] \in Seq(Branches)
         /\ DOMAIN branches[c] = DOMAIN tree.branches[c]
         /\ DOMAIN branches[c] = 1 .. Len(branches[c])
<1>1. /\ branches[c] \in Seq(Branches) /\ tree.branches[c] \in Seq(Branches)
      /\ Len(branches[c]) = Len(tree.branches[c])
  BY TreeFacts DEF SInv, Typed, Rewritten
<1>2. QED
  BY <1>1

\* What a branch nests that is not rewritten is what was passed in.
LEMMA ByNodeIsGiven ==
  ASSUME SInv, NEW c \in Configs, NEW k \in DOMAIN branches[c],
         branches[c][k].by = "node"
  PROVE  /\ k \in DOMAIN tree.branches[c] /\ tree.branches[c][k] = branches[c][k]
         /\ branches[c][k].node \in Children(tree, c)
         /\ branches[c][k] = ByNode(branches[c][k].node)
<1>1. /\ branches[c] \in Seq(Branches) /\ IsTree(tree)
      /\ tree.branches[c] \in Seq(Branches)
      /\ Len(branches[c]) = Len(tree.branches[c])
      /\ tree.branches[c][k] = branches[c][k]
  BY TreeFacts DEF SInv, Typed, Rewritten
<1>2. k \in DOMAIN tree.branches[c]
  BY <1>1
<1>3. branches[c][k] \in Branches
  BY <1>1
<1>4. branches[c][k] = ByNode(branches[c][k].node)
  BY <1>3, BranchFacts
<1>5. QED
  BY <1>1, <1>2, <1>4, ChildrenFacts

LEMMA AddChildKeeps ==
  ASSUME SInv, AddChild
  PROVE  SInv'
<1>1. /\ outcome = "listing" /\ MoreChildren /\ NextBranch.by = "node"
      /\ calls' = Append(calls, [node |-> NextBranch.node, done |-> 0])
      /\ tree' = tree /\ branches' = branches /\ index' = index
      /\ outcome' = outcome /\ next_index' = next_index /\ node_list' = node_list
  BY DEF AddChild, MoreChildren
<1> DEFINE n == Len(calls)
           x == NextBranch.node
<1>2. /\ n \in Nat \ {0} /\ DOMAIN calls = 1 .. n /\ Call = calls[n]
      /\ Call.node \in FromRoot /\ Call.node \in Configs /\ Call.done \in Nat
      /\ \A f \in DOMAIN calls : calls[f].node \in Configs /\ calls[f].done \in Nat
      /\ branches[Call.node] \in Seq(Branches)
      /\ Call.done + 1 \in DOMAIN branches[Call.node] /\ NextBranch \in Branches
  BY <1>1, CallFacts
<1>3. /\ IsTree(tree) /\ Calling /\ calls \in Seq([node : Configs, done : Nat])
  BY <1>1 DEF SInv, Typed
<1>4. /\ Call.done + 1 \in DOMAIN tree.branches[Call.node]
      /\ tree.branches[Call.node][Call.done + 1] = ByNode(x)
      /\ branches[Call.node][Call.done + 1] = ByNode(x)
      /\ x \in Children(tree, Call.node)
  BY <1>1, <1>2, ByNodeIsGiven DEF NextBranch
<1>5. x \in FromRoot /\ x \in Configs
  BY <1>2, <1>3, <1>4, FromRootFacts
<1>6. FromRoot' = FromRoot
  BY <1>1 DEF FromRoot
<1>7. \A c, k, m : Linked(c, k, m)' <=> Linked(c, k, m)
  BY <1>1 DEF Linked
<1>8. /\ calls' \in Seq([node : Configs, done : Nat]) /\ Len(calls') = n + 1
      /\ DOMAIN calls' = 1 .. n + 1
      /\ \A f \in 1 .. n : calls'[f] = calls[f]
      /\ calls'[n + 1] = [node |-> x, done |-> 0]
  <2>1. [node |-> x, done |-> 0] \in [node : Configs, done : Nat]
    BY <1>5
  <2>2. QED
    BY <1>1, <1>2, <1>3, <2>1
<1>9. \A f \in 1 .. n : calls[f].node # x
  <2>1. SUFFICES ASSUME NEW f \in 1 .. n, calls[f].node = x PROVE FALSE
    OBVIOUS
  <2>2. x # tree.root
    BY <1>2, <1>3, <1>4, <1>5, OnePlace
  <2>3. f # 1
    BY <1>3, <2>1, <2>2 DEF Calling
  <2>4. f - 1 \in 1 .. n /\ f - 1 < n /\ f - 1 + 1 = f
    BY <1>2, <2>1, <2>3
  <2>5. PICK e, j :
          e \in Configs /\ e = calls[f - 1].node /\ j = calls[f - 1].done + 1 /\ j \in Nat \ {0}
    BY <1>2, <2>4
  <2>6. j <= Len(branches[e]) /\ branches[e][j] = ByNode(x)
    <3>1. f - 1 \in DOMAIN calls /\ CallFits(f - 1, e) /\ f - 1 < Len(calls)
      BY <1>2, <1>3, <2>4, <2>5 DEF Calling
    <3>2. branches[e] \in Seq(Branches) /\ calls[f - 1].done \in Nat
      BY <1>2, <2>5, <3>1 DEF SInv, Typed
    <3>3. QED
      BY <2>1, <2>4, <2>5, <3>1, <3>2 DEF CallFits
  <2>7. j \in DOMAIN branches[e]
    <3>1. branches[e] \in Seq(Branches)
      BY <2>5 DEF SInv, Typed
    <3>2. QED
      BY <2>5, <2>6, <3>1
  <2>8. j \in DOMAIN tree.branches[e] /\ tree.branches[e][j] = ByNode(x)
    BY <2>5, <2>6, <2>7, ByNodeIsGiven, BranchFacts
  <2>9. calls[f - 1].node = Call.node
    <3>1. PICK d, k : d \in Configs /\ d = Call.node /\ k = Call.done + 1
      BY <1>2
    <3>2. k \in DOMAIN tree.branches[d] /\ tree.branches[d][k] = ByNode(x)
      BY <1>4, <3>1
    <3>3. d = e
      <4>1. d \in Configs /\ e \in Configs
        BY <2>5, <3>1
      <4>2. QED
        BY <1>3, <1>5, <2>8, <3>2, <4>1, OnePlace
    <3>4. QED
      BY <2>5, <3>1, <3>3
  <2>10. f - 1 = n
    <3>1. /\ \A g, h \in DOMAIN calls : calls[g].node = calls[h].node => g = h
          /\ f - 1 \in DOMAIN calls /\ n \in DOMAIN calls
      BY <1>2, <1>3, <2>4 DEF Calling
    <3>2. calls[f - 1].node = calls[n].node
      BY <1>2, <2>9
    <3>3. QED
      BY <3>1, <3>2
  <2>11. QED
    BY <2>4, <2>10
<1>10. Calling'
  <2>1. calls' # <<>> /\ calls'[1].node = tree.root
    BY <1>2, <1>3, <1>8 DEF Calling
  <2>2. ASSUME NEW f \in 1 .. n + 1, NEW c \in Configs, calls'[f].node = c
        PROVE  CallFits(f, c)'
    <3>1. CASE f = n + 1
      <4>1. branches[x] \in Seq(Branches)
        BY <1>5 DEF SInv, Typed
      <4>2. QED
        BY <1>1, <1>5, <1>6, <1>8, <2>2, <3>1, <4>1 DEF CallFits
    <3>2. CASE f = n
      <4>1. Call.done < Len(branches[Call.node])
        BY <1>1 DEF MoreChildren
      <4>2. calls'[n] = Call /\ calls'[n + 1].node = x /\ c = Call.node
        BY <1>2, <1>8, <2>2, <3>2
      <4>3. CallFits(n, c)
        <5>1. n \in DOMAIN calls /\ calls[n].node = c
          BY <1>2, <4>2
        <5>2. QED
          BY <1>3, <2>2, <5>1 DEF Calling
      <4>4. QED
        <5>1. /\ c \in FromRoot /\ Call.done <= Len(branches[c])
              /\ \A k \in 1 .. Call.done : Linked(c, k, Len(node_list))
              /\ Call.done < Len(branches[c]) /\ branches[c][Call.done + 1] = ByNode(x)
          BY <1>2, <1>4, <4>1, <4>2, <4>3 DEF CallFits
        <5>2. /\ calls'[n].done = Call.done /\ branches' = branches
              /\ node_list' = node_list
          BY <1>1, <4>2
        <5>3. \A k \in 1 .. Call.done : Linked(c, k, Len(node_list))'
          BY <1>7, <5>1, <5>2
        <5>4. n < Len(calls') /\ calls'[n + 1].node = x
          BY <1>2, <1>8
        <5>5. QED
          BY <1>6, <3>2, <5>1, <5>2, <5>3, <5>4 DEF CallFits
    <3>3. CASE f \in 1 .. n - 1
      <4>1. f \in 1 .. n /\ f + 1 \in 1 .. n /\ f < n
        BY <1>2, <3>3
      <4>2. CallFits(f, c)
        BY <1>2, <1>3, <1>8, <2>2, <4>1 DEF Calling
      <4>3. calls'[f] = calls[f] /\ calls'[f + 1] = calls[f + 1]
        BY <1>8, <4>1
      <4>4. QED
        BY <1>1, <1>6, <1>7, <4>1, <4>2, <4>3 DEF CallFits
    <3>4. QED
      BY <1>2, <2>2, <3>1, <3>2, <3>3
  <2>3. \A f, g \in DOMAIN calls' : calls'[f].node = calls'[g].node => f = g
    <3>1. \A f, g \in 1 .. n : calls[f].node = calls[g].node => f = g
      BY <1>2, <1>3 DEF Calling
    <3>2. \A f \in 1 .. n + 1 : f \in 1 .. n \/ f = n + 1
      BY <1>2
    <3>3. QED
      BY <1>8, <1>9, <3>1, <3>2
  <2>4. \A p \in DOMAIN node_list : node_list[p] # tree.root
    BY <1>3 DEF Calling
  <2>5. QED
    BY <1>1, <1>8, <2>1, <2>2, <2>3, <2>4 DEF Calling
<1>11. Typed'
  BY <1>1, <1>8 DEF SInv, Typed
<1>12. Rewritten' /\ Numbered' /\ Listed'
  BY <1>1, <1>6, <1>7 DEF SInv, Rewritten, Numbered, Listed, ListedFits
<1>13. QED
  BY <1>1, <1>10, <1>11, <1>12 DEF SInv

LEMMA RefuseKeeps ==
  ASSUME SInv, Refuse
  PROVE  SInv'
<1>1. /\ outcome' = "refused" /\ calls' = <<>> /\ node_list' = <<>>
      /\ tree' = tree /\ branches' = branches /\ index' = index
      /\ next_index' = next_index
  BY DEF Refuse
<1>2. FromRoot' = FromRoot
  BY <1>1 DEF FromRoot
<1>3. Typed'
  BY <1>1 DEF SInv, Typed
<1>4. Rewritten' /\ Numbered' /\ Listed'
  BY <1>1, <1>2 DEF SInv, Rewritten, Numbered, Listed
<1>5. QED
  BY <1>1, <1>3, <1>4 DEF SInv

\* The caller of a call waits for its node, at a branch that still nests it.
LEMMA CallerFacts ==
  ASSUME SInv, outcome = "listing", Call.node # tree.root \/ Len(calls) # 1
  PROVE  LET caller == calls[Len(calls) - 1]
         IN  /\ Len(calls) - 1 \in DOMAIN calls /\ caller.node \in Configs
             /\ caller.done + 1 \in DOMAIN branches[caller.node]
             /\ branches[caller.node][caller.done + 1] = ByNode(Call.node)
             /\ caller.done + 1 \in DOMAIN tree.branches[caller.node]
             /\ tree.branches[caller.node][caller.done + 1] = ByNode(Call.node)
             /\ Call.node # tree.root /\ caller.node \in FromRoot
             /\ caller.done \in Nat
<1> DEFINE n == Len(calls)
<1>1. /\ n \in Nat \ {0} /\ DOMAIN calls = 1 .. n /\ Call = calls[n]
      /\ Call.node \in Configs
      /\ \A f \in DOMAIN calls : calls[f].node \in Configs /\ calls[f].done \in Nat
  BY CallFacts
<1>2. IsTree(tree) /\ Calling
  BY DEF SInv, Typed
<1>3. n # 1
  BY <1>1, <1>2 DEF Calling
<1>4. n - 1 \in 1 .. n /\ n - 1 < n /\ (n - 1) + 1 = n
  BY <1>1, <1>3
<1>5. PICK d, k : d \in Configs /\ d = calls[n - 1].node /\ k = calls[n - 1].done + 1
  BY <1>1, <1>4
<1>6. /\ k \in Nat \ {0} /\ k - 1 < Len(branches[d])
      /\ branches[d][k] = ByNode(Call.node) /\ d \in FromRoot
  <2>1. n - 1 \in DOMAIN calls
    BY <1>1, <1>4
  <2>2. CallFits(n - 1, d)
    BY <1>2, <1>5, <2>1 DEF Calling
  <2>3. calls[n - 1].done \in Nat
    BY <1>1, <2>1
  <2>4. QED
    BY <1>1, <1>4, <1>5, <2>2, <2>3 DEF CallFits
<1>7. k \in DOMAIN branches[d]
  <2>1. branches[d] \in Seq(Branches)
    BY <1>5 DEF SInv, Typed
  <2>2. QED
    BY <1>6, <2>1
<1>8. k \in DOMAIN tree.branches[d] /\ tree.branches[d][k] = ByNode(Call.node)
  <2>1. branches[d][k].by = "node"
    BY <1>6, BranchFacts
  <2>2. QED
    BY <1>5, <1>6, <1>7, <2>1, ByNodeIsGiven
<1>9. Call.node # tree.root
  BY <1>1, <1>2, <1>5, <1>8, OnePlace
<1>10. QED
  BY <1>1, <1>4, <1>5, <1>6, <1>7, <1>8, <1>9

\* A message that is added is not in the list yet.
LEMMA FreshNode ==
  ASSUME SInv, outcome = "listing"
  PROVE  \A p \in DOMAIN node_list : node_list[p] # Call.node
<1>1. SUFFICES ASSUME NEW p \in DOMAIN node_list, node_list[p] = Call.node PROVE FALSE
  OBVIOUS
<1>2. IsTree(tree) /\ Call.node \in Configs /\ Call.node # tree.root
  BY <1>1, CallFacts DEF SInv, Typed, Calling
<1>3. PICK e \in Configs : \E k \in DOMAIN branches[e] :
        tree.branches[e][k] = ByNode(Call.node) /\ branches[e][k].by = "index"
  BY <1>1, <1>2 DEF SInv, Listed, ListedFits
<1>4. PICK k \in DOMAIN branches[e] :
        tree.branches[e][k] = ByNode(Call.node) /\ branches[e][k].by = "index"
  BY <1>3
<1>5. PICK d, j :
        /\ d \in Configs
        /\ j \in DOMAIN branches[d] /\ branches[d][j] = ByNode(Call.node)
        /\ j \in DOMAIN tree.branches[d] /\ tree.branches[d][j] = ByNode(Call.node)
  BY <1>2, CallerFacts
<1>6. k \in DOMAIN tree.branches[e]
  <2>1. /\ branches[e] \in Seq(Branches) /\ tree.branches[e] \in Seq(Branches)
        /\ Len(branches[e]) = Len(tree.branches[e])
    BY <1>2, TreeFacts DEF SInv, Typed, Rewritten
  <2>2. QED
    BY <1>4, <2>1
<1>7. d = e /\ j = k
  BY <1>2, <1>4, <1>5, <1>6, OnePlace
<1>8. QED
  BY <1>4, <1>5, <1>7, BranchFacts

\* One branch of one message is replaced.
LEMMA PutBranch ==
  ASSUME NEW f \in [Configs -> Seq(Branches)], NEW d \in Configs,
         NEW j \in DOMAIN f[d], NEW b \in Branches
  PROVE  LET g == [f EXCEPT ![d][j] = b]
         IN  /\ g \in [Configs -> Seq(Branches)]
             /\ \A e \in Configs : Len(g[e]) = Len(f[e]) /\ DOMAIN g[e] = DOMAIN f[e]
             /\ \A e \in Configs : \A k \in DOMAIN f[e] :
                  IF e = d /\ k = j THEN g[e][k] = b ELSE g[e][k] = f[e][k]
<1>1. PICK s : s = [f[d] EXCEPT ![j] = b]
  OBVIOUS
<1>2. f[d] \in Seq(Branches)
  OBVIOUS
<1>3. s \in Seq(Branches) /\ Len(s) = Len(f[d]) /\ DOMAIN s = DOMAIN f[d]
  BY <1>1, <1>2
<1>4. \A k \in DOMAIN f[d] : IF k = j THEN s[k] = b ELSE s[k] = f[d][k]
  BY <1>1, <1>2
<1>5. [f EXCEPT ![d][j] = b] = [f EXCEPT ![d] = s]
  BY <1>1
<1>6. QED
  BY <1>3, <1>4, <1>5

\* What adding a node does to the message: nothing, or one more child is
\* replaced by the number of the node.
Replaces(c) ==
  /\ branches' \in [Configs -> Seq(Branches)]
  /\ \A d \in Configs :
       /\ Len(branches'[d]) = Len(branches[d])
       /\ \A k \in DOMAIN branches[d] :
            \/ branches'[d][k] = branches[d][k]
            \/ /\ branches[d][k] = ByNode(c) /\ d \in FromRoot
               /\ branches'[d][k] = ByIndex(Len(node_list))

LEMMA LinkedStays ==
  ASSUME SInv, NEW c \in Configs, Replaces(c), tree' = tree,
         node_list' = Append(node_list, c),
         NEW d \in Configs, NEW k \in DOMAIN branches[d], NEW n \in 0 .. Len(node_list),
         Linked(d, k, n)
  PROVE  Linked(d, k, n)'
<1>1. PICK j \in 1 .. n : /\ branches[d][k] = ByIndex(j - 1)
                          /\ tree.branches[d][k] = ByNode(node_list[j])
  BY DEF Linked
<1>2. branches'[d][k] = branches[d][k]
  BY <1>1, BranchFacts DEF Replaces
<1>3. node_list'[j] = node_list[j]
  <2>1. node_list \in Seq(Configs)
    BY DEF SInv, Typed
  <2>2. QED
    BY <1>1, <2>1
<1>4. QED
  BY <1>1, <1>2, <1>3 DEF Linked

\* A step that lists c, all of whose branches are linked, and replaces it under
\* its parent keeps what is known of the list.
LEMMA ListOneMore ==
  ASSUME SInv, outcome = "listing", ~ MoreChildren,
         NEW c \in Configs, c = Call.node, Replaces(c), tree' = tree,
         index' = [index EXCEPT ![c] = next_index],
         next_index' = next_index + 1, node_list' = Append(node_list, c),
         outcome' \in {"listing", "listed"},
         calls' \in Seq([node : Configs, done : Nat]),
         c # tree.root =>
           \E e \in Configs : \E k \in DOMAIN branches[e] :
             tree.branches[e][k] = ByNode(c) /\ branches'[e][k].by = "index"
  PROVE  Typed' /\ Rewritten' /\ Numbered' /\ Listed'
<1>0. PICK n : n = Len(node_list)
  OBVIOUS
<1>1. /\ IsTree(tree) /\ branches \in [Configs -> Seq(Branches)]
      /\ branches' \in [Configs -> Seq(Branches)]
      /\ index \in [Configs -> Nat \cup {NoIndex}]
      /\ next_index = n /\ node_list \in Seq(Configs) /\ c \in FromRoot
  BY <1>0, CallFacts DEF SInv, Typed, Numbered, Replaces
<1>2. n \in Nat /\ DOMAIN node_list = 1 .. n
  BY <1>0, <1>1
<1>3. /\ node_list' \in Seq(Configs) /\ Len(node_list') = n + 1
      /\ DOMAIN node_list' = 1 .. n + 1 /\ node_list'[n + 1] = c
      /\ \A p \in 1 .. n : node_list'[p] = node_list[p]
  BY <1>0, <1>1, <1>2
<1>4. FromRoot' = FromRoot
  BY DEF FromRoot
<1>5. Typed'
  BY <1>1, <1>2, <1>3 DEF Typed
<1>6. \A d \in Configs : DOMAIN branches'[d] = DOMAIN branches[d]
  <2>1. \A d \in Configs : /\ DOMAIN branches[d] = 1 .. Len(branches[d])
                           /\ DOMAIN branches'[d] = 1 .. Len(branches'[d])
    BY <1>1
  <2>2. QED
    BY <2>1 DEF Replaces
<1>7. Rewritten'
  <2>1. SUFFICES ASSUME NEW d \in Configs
                 PROVE  /\ Len(branches'[d]) = Len(tree.branches[d])
                        /\ \A k \in DOMAIN branches'[d] :
                             \/ branches'[d][k] = tree.branches[d][k]
                             \/ /\ branches'[d][k].by = "index"
                                /\ tree.branches[d][k].by = "node"
                                /\ d \in FromRoot
    BY <1>4 DEF Rewritten
  <2>2. /\ Len(branches[d]) = Len(tree.branches[d])
        /\ \A k \in DOMAIN branches[d] :
             \/ branches[d][k] = tree.branches[d][k]
             \/ /\ branches[d][k].by = "index" /\ tree.branches[d][k].by = "node"
                /\ d \in FromRoot
    BY DEF SInv, Rewritten
  <2>3. QED
    BY <1>6, <2>2, BranchFacts DEF Replaces
<1>8. Numbered'
  <2>1. \A d \in Configs : index'[d] # NoIndex => d \in FromRoot'
    BY <1>1, <1>4 DEF SInv, Numbered
  <2>2. \A p \in DOMAIN node_list' : index'[node_list'[p]] = p - 1
    <3>1. \A p \in 1 .. n : node_list[p] \in Configs /\ node_list[p] # c
      BY <1>1, <1>2, FreshNode, Elements
    <3>2. \A p \in 1 .. n : index[node_list[p]] = p - 1
      BY <1>2 DEF SInv, Numbered
    <3>3. \A p \in 1 .. n : index'[node_list'[p]] = p - 1
      BY <1>1, <1>3, <3>1, <3>2
    <3>4. index'[c] = n
      BY <1>1
    <3>5. QED
      BY <1>2, <1>3, <3>3, <3>4
  <2>3. next_index' = Len(node_list')
    BY <1>1, <1>3
  <2>4. QED
    BY <2>1, <2>2, <2>3 DEF Numbered
<1>9. Listed'
  <2>1. SUFFICES ASSUME NEW p \in 1 .. n + 1, NEW d \in Configs, node_list'[p] = d
                 PROVE  ListedFits(p, d)'
    BY <1>3 DEF Listed
  <2>2. CASE p = n + 1
    <3>1. \A k \in DOMAIN branches[c] : Linked(c, k, n)
      <4>1. Call.done = Len(branches[c]) /\ DOMAIN branches[c] = 1 .. Len(branches[c])
        <5>1. /\ Call.done <= Len(branches[Call.node])
              /\ branches[Call.node] \in Seq(Branches) /\ Call.done \in Nat
          <6>1. Call = calls[Len(calls)] /\ Len(calls) \in DOMAIN calls
            BY CallFacts
          <6>2. QED
            BY <6>1, CallFacts
        <5>2. ~ (Call.done < Len(branches[Call.node]))
          BY DEF MoreChildren
        <5>3. QED
          BY <5>1, <5>2
      <4>2. Len(calls) \in DOMAIN calls /\ calls[Len(calls)] = Call
        BY CallFacts
      <4>3. CallFits(Len(calls), c)
        BY <4>2 DEF SInv, Calling
      <4>4. QED
        BY <1>0, <4>1, <4>2, <4>3 DEF CallFits
    <3>2. ASSUME NEW k \in DOMAIN branches[c] PROVE Linked(c, k, n)'
      <4>1. n \in 0 .. Len(node_list) /\ Linked(c, k, n)
        BY <1>0, <1>2, <3>1
      <4>2. QED
        BY <4>1, LinkedStays
    <3>3. p - 1 = n /\ d = c
      BY <1>2, <1>3, <2>1, <2>2
    <3>4. QED
      BY <1>1, <1>4, <1>6, <3>2, <3>3 DEF ListedFits
  <2>3. CASE p \in 1 .. n
    <3>1. node_list[p] = d
      BY <1>3, <2>1, <2>3
    <3>2. ListedFits(p, d)
      BY <1>2, <2>3, <3>1 DEF SInv, Listed
    <3>3. ASSUME NEW k \in DOMAIN branches[d] PROVE Linked(d, k, p - 1)'
      <4>1. p - 1 \in 0 .. Len(node_list) /\ Linked(d, k, p - 1)
        BY <1>0, <1>2, <2>3, <3>2 DEF ListedFits
      <4>2. QED
        BY <4>1, LinkedStays
    <3>4. d # tree.root =>
            \E e \in Configs : \E k \in DOMAIN branches'[e] :
             tree.branches[e][k] = ByNode(d) /\ branches'[e][k].by = "index"
      <4>1. SUFFICES ASSUME d # tree.root
                     PROVE  \E e \in Configs : \E k \in DOMAIN branches'[e] :
                              /\ tree.branches[e][k] = ByNode(d)
                              /\ branches'[e][k].by = "index"
        OBVIOUS
      <4>2. PICK e \in Configs : \E k \in DOMAIN branches[e] :
              tree.branches[e][k] = ByNode(d) /\ branches[e][k].by = "index"
        BY <3>2, <4>1 DEF ListedFits
      <4>3. PICK k \in DOMAIN branches[e] :
              tree.branches[e][k] = ByNode(d) /\ branches[e][k].by = "index"
        BY <4>2
      <4>4. k \in DOMAIN branches'[e] /\ branches'[e][k].by = "index"
        BY <1>6, <4>3, BranchFacts DEF Replaces
      <4>5. QED
        BY <4>3, <4>4
    <3>5. QED
      BY <1>4, <1>6, <3>2, <3>3, <3>4 DEF ListedFits
  <2>4. QED
    BY <1>2, <2>1, <2>2, <2>3
<1>10. QED
  BY <1>5, <1>7, <1>8, <1>9

\* The root is listed last.
LEMMA AddRootKeeps ==
  ASSUME SInv, AddNode, Len(calls) = 1
  PROVE  SInv' /\ outcome' = "listed"
<1>1. /\ outcome = "listing" /\ ~ MoreChildren /\ tree' = tree
      /\ index' = [index EXCEPT ![Call.node] = next_index]
      /\ node_list' = Append(node_list, Call.node) /\ next_index' = next_index + 1
      /\ outcome' = "listed" /\ calls' = <<>> /\ branches' = branches
  BY DEF AddNode
<1>2. Call.node \in Configs /\ Call.node = tree.root
  BY <1>1, CallFacts DEF SInv, Calling
<1>3. branches \in [Configs -> Seq(Branches)] /\ node_list \in Seq(Configs)
  BY DEF SInv, Typed
<1>4. Replaces(Call.node)
  BY <1>1, <1>3 DEF Replaces
<1>5. calls' \in Seq([node : Configs, done : Nat])
  BY <1>1
<1>6. Typed' /\ Rewritten' /\ Numbered' /\ Listed'
  BY <1>1, <1>2, <1>4, <1>5, ListOneMore
<1>7. node_list' # <<>> /\ Last(node_list') = tree.root
  BY <1>1, <1>2, <1>3 DEF Last
<1>8. QED
  BY <1>1, <1>6, <1>7 DEF SInv

\* Any other node is listed, and its caller goes on.
LEMMA AddInnerKeeps ==
  ASSUME SInv, AddNode, Len(calls) # 1
  PROVE  SInv' /\ outcome' = "listing"
<1>0. PICK n, m, c : n = Len(calls) /\ m = Len(node_list) /\ c = Call.node
  OBVIOUS
<1>1. /\ outcome = "listing" /\ ~ MoreChildren /\ tree' = tree
      /\ index' = [index EXCEPT ![c] = next_index]
      /\ node_list' = Append(node_list, c) /\ next_index' = next_index + 1
      /\ branches' = [branches EXCEPT ![calls[n - 1].node][calls[n - 1].done + 1] =
                        ByIndex(next_index)]
      /\ calls' = Append(SubSeq(calls, 1, n - 2), [calls[n - 1] EXCEPT !.done = @ + 1])
      /\ outcome' = outcome
  BY <1>0 DEF AddNode, Reference, Continued
<1>2. /\ n \in Nat \ {0} /\ DOMAIN calls = 1 .. n /\ c \in Configs /\ Call = calls[n]
      /\ \A f \in DOMAIN calls : /\ calls[f] \in [node : Configs, done : Nat]
                                 /\ calls[f].node \in Configs /\ calls[f].done \in Nat
  BY <1>0, <1>1, CallFacts
<1>3. /\ Calling /\ branches \in [Configs -> Seq(Branches)] /\ node_list \in Seq(Configs)
      /\ next_index = m /\ m \in Nat /\ calls \in Seq([node : Configs, done : Nat])
  <2>1. /\ Calling /\ branches \in [Configs -> Seq(Branches)] /\ node_list \in Seq(Configs)
        /\ next_index = m /\ calls \in Seq([node : Configs, done : Nat])
    BY <1>0, <1>1 DEF SInv, Typed, Numbered
  <2>2. QED
    BY <1>0, <2>1
<1>4. PICK d, j :
        /\ d \in Configs
        /\ d = calls[n - 1].node /\ j = calls[n - 1].done + 1 /\ j \in Nat \ {0}
        /\ n - 1 \in 1 .. n /\ d \in FromRoot /\ c # tree.root
        /\ j \in DOMAIN branches[d] /\ branches[d][j] = ByNode(c)
        /\ j \in DOMAIN tree.branches[d] /\ tree.branches[d][j] = ByNode(c)
  <2>1. n # 1 \/ c # tree.root
    BY <1>0
  <2>2. /\ n - 1 \in 1 .. n /\ calls[n - 1].node \in Configs
        /\ calls[n - 1].done + 1 \in DOMAIN branches[calls[n - 1].node]
        /\ branches[calls[n - 1].node][calls[n - 1].done + 1] = ByNode(c)
        /\ calls[n - 1].done + 1 \in DOMAIN tree.branches[calls[n - 1].node]
        /\ tree.branches[calls[n - 1].node][calls[n - 1].done + 1] = ByNode(c)
        /\ c # tree.root /\ calls[n - 1].node \in FromRoot
        /\ calls[n - 1].done \in Nat
    BY <1>0, <1>1, <1>2, <2>1, CallerFacts
  <2>3. calls[n - 1].done + 1 \in Nat \ {0}
    BY <2>2
  <2>4. QED
    BY <2>2, <2>3, Zenon
<1>5. branches' = [branches EXCEPT ![d][j] = ByIndex(m)]
  BY <1>1, <1>3, <1>4
<1>6. /\ branches' \in [Configs -> Seq(Branches)]
      /\ \A e \in Configs : /\ Len(branches'[e]) = Len(branches[e])
                            /\ DOMAIN branches'[e] = DOMAIN branches[e]
      /\ \A e \in Configs : \A k \in DOMAIN branches[e] :
           IF e = d /\ k = j THEN branches'[e][k] = ByIndex(m)
           ELSE branches'[e][k] = branches[e][k]
  <2>1. ByIndex(m) \in Branches
    BY <1>3, BranchFacts
  <2>2. j \in DOMAIN branches[d] /\ d \in Configs
    BY <1>4
  <2>3. branches \in [Configs -> Seq(Branches)]
    BY <1>3
  <2>4. QED
    BY <1>5, <2>1, <2>2, <2>3, PutBranch
<1>7. Replaces(c)
  BY <1>0, <1>4, <1>6 DEF Replaces
<1>8. /\ calls' \in Seq([node : Configs, done : Nat]) /\ Len(calls') = n - 1
      /\ DOMAIN calls' = 1 .. n - 1 /\ n \in Nat /\ n >= 2
      /\ \A f \in 1 .. n - 2 : calls'[f] = calls[f]
      /\ calls'[n - 1].node = d /\ calls'[n - 1].done = j
  <2>1. n \in Nat /\ n >= 2
    BY <1>2, <1>4
  <2>2. [calls[n - 1] EXCEPT !.done = @ + 1] = [node |-> d, done |-> j]
    BY <1>2, <1>4
  <2>3. /\ SubSeq(calls, 1, n - 2) \in Seq([node : Configs, done : Nat])
        /\ Len(SubSeq(calls, 1, n - 2)) = n - 2
        /\ \A f \in 1 .. n - 2 : SubSeq(calls, 1, n - 2)[f] = calls[f]
    <3>1. PICK r \in Nat : r = n - 2
      BY <2>1
    <3>2. \A i \in 1 .. r : calls[i] \in [node : Configs, done : Nat]
      BY <1>2, <2>1, <3>1
    <3>3. /\ SubSeq(calls, 1, r) \in Seq([node : Configs, done : Nat])
          /\ Len(SubSeq(calls, 1, r)) = IF 1 <= r THEN r - 1 + 1 ELSE 0
          /\ \A i \in 1 .. r - 1 + 1 : SubSeq(calls, 1, r)[i] = calls[1 + i - 1]
      BY <3>2, SubSeqProperties
    <3>4. \A i \in 1 .. r : i \in 1 .. r - 1 + 1 /\ 1 + i - 1 = i
      BY <3>1
    <3>5. Len(SubSeq(calls, 1, r)) = r
      BY <3>1, <3>3
    <3>6. \A i \in 1 .. r : SubSeq(calls, 1, r)[i] = calls[i]
      BY <3>3, <3>4
    <3>7. QED
      BY <3>1, <3>3, <3>5, <3>6
  <2>4. [node |-> d, done |-> j] \in [node : Configs, done : Nat]
    BY <1>4
  <2>5. PICK s, r : /\ s = SubSeq(calls, 1, n - 2) /\ r = [node |-> d, done |-> j]
    OBVIOUS
  <2>6. /\ s \in Seq([node : Configs, done : Nat]) /\ Len(s) = n - 2
        /\ \A f \in 1 .. n - 2 : s[f] = calls[f]
        /\ r \in [node : Configs, done : Nat] /\ r.node = d /\ r.done = j
    BY <2>3, <2>4, <2>5
  <2>7. calls' = Append(s, r)
    BY <1>1, <2>2, <2>5
  <2>8. /\ calls' \in Seq([node : Configs, done : Nat]) /\ Len(calls') = n - 1
        /\ DOMAIN calls' = 1 .. n - 1 /\ calls'[n - 1] = r
        /\ \A f \in 1 .. n - 2 : calls'[f] = s[f]
    <3>1. /\ Len(Append(s, r)) = Len(s) + 1 /\ DOMAIN Append(s, r) = 1 .. Len(s) + 1
          /\ Append(s, r) \in Seq([node : Configs, done : Nat])
          /\ Append(s, r)[Len(s) + 1] = r
          /\ \A f \in 1 .. Len(s) : Append(s, r)[f] = s[f]
      BY <2>6
    <3>2. Len(s) + 1 = n - 1
      BY <2>1, <2>6
    <3>3. QED
      BY <2>6, <2>7, <3>1, <3>2
  <2>9. QED
    BY <2>1, <2>6, <2>8
<1>9. Typed' /\ Rewritten' /\ Numbered' /\ Listed'
  <2>1. \E e \in Configs : \E k \in DOMAIN branches[e] :
          tree.branches[e][k] = ByNode(c) /\ branches'[e][k].by = "index"
    <3>1. branches'[d][j].by = "index"
      BY <1>4, <1>6, BranchFacts
    <3>2. QED
      BY <1>4, <3>1
  <2>2. QED
    BY <1>0, <1>1, <1>2, <1>7, <1>8, <2>1, ListOneMore
<1>10. FromRoot' = FromRoot
  BY <1>1 DEF FromRoot
<1>11. /\ node_list' \in Seq(Configs) /\ Len(node_list') = m + 1
       /\ node_list'[m + 1] = c
       /\ \A p \in 1 .. m : node_list'[p] = node_list[p]
  BY <1>0, <1>1, <1>2, <1>3
<1>12. \A f \in 1 .. n - 1 : calls'[f].node = calls[f].node
  <2>1. \A f \in 1 .. n - 1 : f \in 1 .. n - 2 \/ f = n - 1
    BY <1>8
  <2>2. QED
    BY <1>4, <1>8, <2>1
<1>13. Calling'
  <2>1. calls' # <<>> /\ calls'[1].node = tree.root
    <3>1. 1 \in 1 .. n - 1
      BY <1>8
    <3>2. QED
      BY <1>3, <1>8, <1>12, <3>1 DEF Calling
  <2>2. ASSUME NEW f \in 1 .. n - 1, NEW e \in Configs, calls'[f].node = e
        PROVE  CallFits(f, e)'
    <3>0. f \in 1 .. n /\ f < n
      BY <1>8
    <3>1. /\ f \in DOMAIN calls /\ f < n /\ f < Len(calls) /\ calls[f].node = e
          /\ calls[f].done \in Nat
      BY <1>0, <1>2, <1>12, <2>2, <3>0
    <3>2. CallFits(f, e)
      BY <1>3, <3>1 DEF Calling
    <3>3. branches[e] \in Seq(Branches) /\ DOMAIN branches[e] = 1 .. Len(branches[e])
      BY <1>3
    <3>4. ASSUME NEW k \in 1 .. calls[f].done PROVE Linked(e, k, m + 1)'
      <4>1. k \in DOMAIN branches[e] /\ Linked(e, k, m) /\ m \in 0 .. Len(node_list)
        <5>1. k \in 1 .. Len(branches[e])
          BY <3>1, <3>2, <3>3 DEF CallFits
        <5>2. Linked(e, k, Len(node_list))
          BY <3>1, <3>2 DEF CallFits
        <5>3. m \in 0 .. Len(node_list)
          BY <1>0, <1>3
        <5>4. QED
          BY <1>0, <3>3, <5>1, <5>2, <5>3
      <4>2. Linked(e, k, m)'
        BY <1>0, <1>1, <1>2, <1>7, <4>1, LinkedStays
      <4>3. QED
        BY <1>3, <4>2 DEF Linked
    <3>5. CASE f = n - 1
      <4>1. e = d /\ calls'[f].done = j /\ j = calls[f].done + 1 /\ ~ (f < Len(calls'))
        BY <1>4, <1>8, <3>1, <3>5
      <4>2. Linked(d, j, m + 1)'
        <5>1. branches'[d][j] = ByIndex(m) /\ m + 1 \in 1 .. m + 1 /\ (m + 1) - 1 = m
          BY <1>3, <1>4, <1>6
        <5>2. tree'.branches[d][j] = ByNode(node_list'[m + 1])
          BY <1>1, <1>4, <1>11
        <5>3. QED
          BY <5>1, <5>2 DEF Linked
      <4>3. \A k \in 1 .. j : k \in 1 .. calls[f].done \/ k = j
        BY <3>1, <4>1
      <4>4. \A k \in 1 .. j : Linked(d, k, m + 1)'
        BY <3>4, <4>1, <4>2, <4>3
      <4>5. j <= Len(branches'[d])
        BY <1>4, <1>6, <3>3, <4>1
      <4>6. QED
        BY <1>4, <1>10, <1>11, <4>1, <4>4, <4>5 DEF CallFits
    <3>6. CASE f \in 1 .. n - 2
      <4>1. /\ calls'[f] = calls[f] /\ f + 1 \in 1 .. n - 1
            /\ f \in 1 .. n /\ n - 1 \in 1 .. n /\ f # n - 1
        BY <1>8, <3>6
      <4>2. e # d
        BY <1>2, <1>3, <1>4, <3>1, <4>1 DEF Calling
      <4>3. calls'[f + 1].node = calls[f + 1].node
        BY <1>12, <4>1
      <4>4. /\ calls[f].done < Len(branches[e])
            /\ branches[e][calls[f].done + 1] = ByNode(calls[f + 1].node)
        BY <3>1, <3>2 DEF CallFits
      <4>5. calls[f].done + 1 \in DOMAIN branches[e]
        BY <3>1, <3>3, <4>4
      <4>6. branches'[e][calls[f].done + 1] = branches[e][calls[f].done + 1]
        BY <1>6, <4>2, <4>5
      <4>7. calls[f].done < Len(branches'[e]) /\ calls[f].done <= Len(branches'[e])
        BY <1>6, <3>1, <3>3, <4>4
      <4>8. e \in FromRoot'
        BY <1>10, <3>2 DEF CallFits
      <4>9. QED
        BY <1>11, <3>4, <4>1, <4>3, <4>4, <4>6, <4>7, <4>8 DEF CallFits
    <3>7. QED
      BY <1>8, <2>2, <3>5, <3>6
  <2>3. \A f, g \in 1 .. n - 1 : calls'[f].node = calls'[g].node => f = g
    <3>1. \A f \in 1 .. n - 1 : f \in DOMAIN calls
      BY <1>2, <1>8
    <3>2. QED
      BY <1>3, <1>12, <3>1 DEF Calling
  <2>4. \A p \in 1 .. m + 1 : node_list'[p] # tree.root
    <3>1. \A p \in 1 .. m : node_list[p] # tree.root
      <4>1. DOMAIN node_list = 1 .. m
        BY <1>0, <1>3
      <4>2. QED
        BY <1>3, <4>1 DEF Calling
    <3>2. \A p \in 1 .. m + 1 : p \in 1 .. m \/ p = m + 1
      BY <1>3
    <3>3. QED
      BY <1>4, <1>11, <3>1, <3>2
  <2>5. DOMAIN node_list' = 1 .. m + 1
    BY <1>11
  <2>6. QED
    BY <1>1, <1>8, <2>1, <2>2, <2>3, <2>4, <2>5 DEF Calling
<1>14. QED
  BY <1>1, <1>9, <1>13 DEF SInv

LEMMA SerializeKeeps ==
  ASSUME SInv, Next
  PROVE  SInv'
<1>1. CASE AddChild
  BY <1>1, AddChildKeeps
<1>2. CASE Refuse
  BY <1>2, RefuseKeeps
<1>3. CASE AddNode
  BY <1>3, AddRootKeeps, AddInnerKeeps
<1>4. QED
  BY <1>1, <1>2, <1>3 DEF Next

LEMMA NothingSerialized ==
  ASSUME SInv, UNCHANGED serializerVars
  PROVE  SInv'
<1>1. /\ tree' = tree /\ branches' = branches /\ index' = index /\ outcome' = outcome
      /\ calls' = calls /\ next_index' = next_index /\ node_list' = node_list
  BY DEF serializerVars
<1>2. FromRoot' = FromRoot
  BY <1>1 DEF FromRoot
<1>3. \A c, k, m : Linked(c, k, m)' <=> Linked(c, k, m)
  BY <1>1 DEF Linked
<1>4. \A f, c : CallFits(f, c)' <=> CallFits(f, c)
  BY <1>1, <1>2, <1>3 DEF CallFits
<1>5. \A p, c : ListedFits(p, c)' <=> ListedFits(p, c)
  BY <1>1, <1>2, <1>3 DEF ListedFits
<1>6. Typed' /\ Rewritten' /\ Numbered' /\ Listed'
  BY <1>1, <1>2, <1>5 DEF SInv, Typed, Rewritten, Numbered, Listed
<1>7. Calling' <=> Calling
  BY <1>1, <1>4 DEF Calling
<1>8. QED
  BY <1>1, <1>6, <1>7 DEF SInv

\* A caller may complete a message, and only that.
LEMMA CallAgainKeeps ==
  ASSUME SInv, CallAgain
  PROVE  SInv'
<1>1. /\ outcome' = "listing" /\ calls' = << [node |-> tree'.root, done |-> 0] >>
      /\ next_index' = 0 /\ node_list' = <<>> /\ index' = index /\ Repair
  <2>1. tree.root = tree'.root
    <3>1. CASE UNCHANGED tree
      BY <3>1
    <3>2. CASE \E c, x \in Configs : \E k \in DOMAIN branches[c] :
                 tree' = [tree EXCEPT !.branches[c][k] = ByNode(x)]
      <4>1. tree \in Tree
        BY DEF SInv, Typed, IsTree
      <4>2. QED
        BY <3>2, <4>1 DEF Tree
    <3>3. QED
      BY <3>1, <3>2 DEF CallAgain, Repair
  <2>2. QED
    BY <2>1 DEF CallAgain
<1>2. /\ IsTree(tree) /\ tree.branches \in [Configs -> Seq(Branches)]
      /\ branches \in [Configs -> Seq(Branches)]
      /\ index \in [Configs -> Nat \cup {NoIndex}]
  BY TreeFacts DEF SInv, Typed
<1>3. CASE UNCHANGED <<tree, branches>>
  <2>1. FromRoot' = FromRoot
    BY <1>3 DEF FromRoot
  <2>2. Typed'
    <3>1. calls' \in Seq([node : Configs, done : Nat])
      BY <1>1, <1>2, <1>3, TreeFacts
    <3>2. QED
      BY <1>1, <1>2, <1>3, <3>1 DEF Typed
  <2>3. Rewritten' /\ \A c \in Configs : index'[c] # NoIndex => c \in FromRoot'
    BY <1>1, <1>3, <2>1 DEF SInv, Rewritten, Numbered
  <2>4. Fresh'
    BY <1>1, <2>2, <2>3 DEF Fresh
  <2>5. QED
    BY <2>4, StartListing, PTL
<1>4. CASE \E c, x \in Configs : \E k \in DOMAIN branches[c] :
             /\ branches[c][k] = Childless
             /\ branches' = [branches EXCEPT ![c][k] = ByNode(x)]
             /\ tree' = [tree EXCEPT !.branches[c][k] = ByNode(x)]
             /\ IsTree(tree')
  <2>0. PICK c \in Configs, x \in Configs : \E k \in DOMAIN branches[c] :
             /\ branches[c][k] = Childless
             /\ branches' = [branches EXCEPT ![c][k] = ByNode(x)]
             /\ tree' = [tree EXCEPT !.branches[c][k] = ByNode(x)]
             /\ IsTree(tree')
    BY <1>4
  <2>1. PICK k \in DOMAIN branches[c] :
             /\ branches[c][k] = Childless
             /\ branches' = [branches EXCEPT ![c][k] = ByNode(x)]
             /\ tree' = [tree EXCEPT !.branches[c][k] = ByNode(x)]
             /\ IsTree(tree')
    BY <2>0
  <2>2. /\ tree'.root = tree.root
        /\ tree'.branches = [tree.branches EXCEPT ![c][k] = ByNode(x)]
    <3>1. tree \in Tree
      BY <1>2 DEF IsTree
    <3>2. QED
      BY <2>1, <3>1 DEF Tree
  <2>3. k \in DOMAIN tree.branches[c] /\ tree.branches[c][k] = Childless
    <3>1. /\ branches[c] \in Seq(Branches) /\ tree.branches[c] \in Seq(Branches)
          /\ Len(branches[c]) = Len(tree.branches[c])
      BY <1>2 DEF SInv, Rewritten
    <3>2. k \in DOMAIN tree.branches[c]
      BY <3>1
    <3>3. branches[c][k].by # "index"
      BY <2>1, BranchFacts
    <3>4. QED
      BY <2>1, <3>2, <3>3 DEF SInv, Rewritten
  <2>4. /\ branches' \in [Configs -> Seq(Branches)]
        /\ \A d \in Configs : /\ Len(branches'[d]) = Len(branches[d])
                             /\ DOMAIN branches'[d] = DOMAIN branches[d]
        /\ \A d \in Configs : \A j \in DOMAIN branches[d] :
             IF d = c /\ j = k THEN branches'[d][j] = ByNode(x)
             ELSE branches'[d][j] = branches[d][j]
    BY <1>2, <2>1, PutBranch, BranchFacts
  <2>5. /\ \A d \in Configs : /\ Len(tree'.branches[d]) = Len(tree.branches[d])
                             /\ DOMAIN tree'.branches[d] = DOMAIN tree.branches[d]
        /\ \A d \in Configs : \A j \in DOMAIN tree.branches[d] :
             IF d = c /\ j = k THEN tree'.branches[d][j] = ByNode(x)
             ELSE tree'.branches[d][j] = tree.branches[d][j]
    BY <1>2, <2>2, <2>3, PutBranch, BranchFacts
  <2>6. FromRoot \subseteq FromRoot'
    <3>1. /\ RootedIn(tree') \subseteq Configs /\ tree'.root \in RootedIn(tree')
          /\ \A d \in RootedIn(tree') : Children(tree', d) \subseteq RootedIn(tree')
      BY <2>1, RootedFacts
    <3>2. ASSUME NEW d \in Configs, NEW e \in Children(tree, d)
          PROVE  e \in Children(tree', d)
      <4>1. PICK j \in DOMAIN tree.branches[d] : tree.branches[d][j] = ByNode(e)
        BY <1>2, <3>2, ChildrenFacts
      <4>2. tree'.branches[d][j] = ByNode(e)
        BY <2>3, <2>5, <4>1, BranchFacts
      <4>3. QED
        BY <2>1, <2>5, <4>1, <4>2, ChildrenFacts
    <3>3. \A d \in RootedIn(tree') : Children(tree, d) \subseteq RootedIn(tree')
      BY <3>1, <3>2
    <3>4. RootedIn(tree') \in SUBSET Configs /\ tree.root \in RootedIn(tree')
      BY <2>2, <3>1
    <3>5. RootedIn(tree) \subseteq RootedIn(tree')
      BY <1>2, <3>3, <3>4, RootedFacts
    <3>6. QED
      BY <3>5 DEF FromRoot
  <2>7. Typed'
    <3>1. calls' \in Seq([node : Configs, done : Nat])
      <4>1. IsTree(tree')
        BY <2>1
      <4>2. tree'.root \in Configs
        BY <4>1, TreeFacts
      <4>3. QED
        BY <1>1, <4>2
    <3>2. QED
      BY <1>1, <1>2, <2>1, <2>4, <3>1 DEF Typed
  <2>8. Rewritten'
    <3>1. SUFFICES ASSUME NEW d \in Configs
                   PROVE  /\ Len(branches'[d]) = Len(tree'.branches[d])
                          /\ \A j \in DOMAIN branches'[d] :
                               \/ branches'[d][j] = tree'.branches[d][j]
                               \/ /\ branches'[d][j].by = "index"
                                  /\ tree'.branches[d][j].by = "node"
                                  /\ d \in FromRoot'
      BY DEF Rewritten
    <3>2. /\ Len(branches[d]) = Len(tree.branches[d])
          /\ \A j \in DOMAIN branches[d] :
               \/ branches[d][j] = tree.branches[d][j]
               \/ /\ branches[d][j].by = "index" /\ tree.branches[d][j].by = "node"
                  /\ d \in FromRoot
      BY DEF SInv, Rewritten
    <3>3. DOMAIN branches[d] = DOMAIN tree.branches[d]
      <4>1. branches[d] \in Seq(Branches) /\ tree.branches[d] \in Seq(Branches)
        BY <1>2
      <4>2. QED
        BY <3>2, <4>1
    <3>4. QED
      BY <2>4, <2>5, <2>6, <3>2, <3>3
  <2>9. \A d \in Configs : index'[d] # NoIndex => d \in FromRoot'
    BY <1>1, <2>6 DEF SInv, Numbered
  <2>10. Fresh'
    BY <1>1, <2>7, <2>8, <2>9 DEF Fresh
  <2>11. QED
    BY <2>10, StartListing, PTL
<1>5. QED
  BY <1>1, <1>3, <1>4 DEF Repair
-----------------------------------------------------------------------------
(***************************************************************************)
(* The loader is Build, given the list.                                    *)
(***************************************************************************)
\* The lists that Build may be given.
Lists ==
  {m \in Loader!Model :
     /\ \E depth \in [Configs -> 0 .. MaxDepth] :
          \A c \in Configs : \A d \in Loader!Parts(m, c) : depth[d] < depth[c]
     /\ \A c \in Configs \ m.branching : m.branches[c] = <<>> /\ m.updates[c] = <<>>
     /\ m.entry = "root" => Len(m.nodes) = 1
     /\ \A c \in Configs : \A p, q \in Loader!Places(m, c) : p = q}

List ==
  [library |-> "cc", entry |-> "list", nodes |-> node_list, index |-> index,
   branches |-> branches, updates |-> tree.updates, branching |-> tree.branching,
   sound |-> tree.sound]

L == INSTANCE ModelBuildProofs WITH Models <- Lists, Indices <- Nat, model <- List

LEMMA SameTerms ==
  /\ \A c : L!ByNode(c) = ByNode(c) /\ Loader!ByNode(c) = ByNode(c)
  /\ \A i : L!ByIndex(i) = ByIndex(i) /\ Loader!ByIndex(i) = ByIndex(i)
  /\ L!Childless = Childless /\ Loader!Childless = Childless
  /\ \A s : L!ToSet(s) = ToSet(s) /\ Loader!ToSet(s) = ToSet(s)
  /\ \A s : L!Last(s) = Last(s)
  BY DEF L!ByNode, Loader!ByNode, ByNode, L!ByIndex, Loader!ByIndex, ByIndex,
         L!Childless, Loader!Childless, Childless, L!ToSet, Loader!ToSet, ToSet,
         L!Last, Last

LEMMA SameSize == ASSUME NEW S PROVE L!Cardinality(S) = Cardinality(S)
  BY DEF L!Cardinality, Cardinality

LEMMA SameBranches == L!Branches = Branches /\ Loader!Branches = Branches
  BY DEF L!Branches, Loader!Branches, Branches, L!ByNode, Loader!ByNode, L!ByIndex,
         Loader!ByIndex, L!Childless, Loader!Childless, Childless

LEMMA SamePlaces ==
  ASSUME NEW m, NEW c
  PROVE  L!Places(m, c) = Loader!Places(m, c)
  BY DEF L!Places, Loader!Places, L!InList, Loader!InList, L!UnderBranch,
         Loader!UnderBranch, L!AsUpdate, Loader!AsUpdate, L!ByNode, Loader!ByNode

LEMMA SameParts ==
  ASSUME NEW m, NEW c
  PROVE  L!Parts(m, c) = Loader!Parts(m, c)
  BY DEF L!Parts, Loader!Parts, L!ToSet, Loader!ToSet

LEMMA ListsAssumption == L!ModelsAssumption
<1>1. NoIndex \notin Nat /\ NoNode \notin Configs /\ MaxDepth \in Nat
  BY NoNodeAssumption, TreesAssumption
<1>2. L!Branches = Loader!Branches
  BY SameBranches
<1>3. ASSUME NEW m \in Lists
      PROVE  /\ \E depth \in [Configs -> 0 .. MaxDepth] :
                  \A c \in Configs : \A d \in L!Parts(m, c) : depth[d] < depth[c]
             /\ \A c \in Configs \ m.branching :
                  m.branches[c] = <<>> /\ m.updates[c] = <<>>
             /\ m.entry = "root" => Len(m.nodes) = 1
             /\ m.nodes \in Seq(Configs)
             /\ m.index \in [Configs -> Nat \cup {NoIndex}]
             /\ m.branching \subseteq Configs /\ m.sound \subseteq Configs
             /\ \A c \in Configs :
                  /\ m.branches[c] \in Seq(L!Branches)
                  /\ m.updates[c] \in Seq(Configs)
                  /\ \A p, q \in L!Places(m, c) : p = q
  <2>1. /\ \E depth \in [Configs -> 0 .. MaxDepth] :
             \A c \in Configs : \A d \in Loader!Parts(m, c) : depth[d] < depth[c]
        /\ \A c \in Configs : \A p, q \in Loader!Places(m, c) : p = q
        /\ \A c \in Configs \ m.branching : m.branches[c] = <<>> /\ m.updates[c] = <<>>
        /\ m.entry = "root" => Len(m.nodes) = 1
    BY DEF Lists
  <2>2. \A c \in Configs : /\ L!Parts(m, c) = Loader!Parts(m, c)
                           /\ L!Places(m, c) = Loader!Places(m, c)
    BY SameParts, SamePlaces
  <2>3. /\ m.nodes \in Seq(Configs) /\ m.index \in [Configs -> Nat \cup {NoIndex}]
        /\ m.branching \subseteq Configs /\ m.sound \subseteq Configs
        /\ m.branches \in [Configs -> Seq(Loader!Branches)]
        /\ m.updates \in [Configs -> Seq(Configs)]
    BY DEF Lists, Loader!Model
  <2>4. \A c \in Configs :
          m.branches[c] \in Seq(L!Branches) /\ m.updates[c] \in Seq(Configs)
    BY <1>2, <2>3
  <2>5. PICK depth \in [Configs -> 0 .. MaxDepth] :
          \A c \in Configs : \A d \in Loader!Parts(m, c) : depth[d] < depth[c]
    BY <2>1
  <2>6. \A c \in Configs : \A d \in L!Parts(m, c) : depth[d] < depth[c]
    BY <2>2, <2>5
  <2>7. \A c \in Configs : \A p, q \in L!Places(m, c) : p = q
    BY <2>1, <2>2
  <2>8. QED
    BY <2>1, <2>3, <2>4, <2>6, <2>7
<1>4. QED
  BY <1>1, <1>3 DEF L!ModelsAssumption

LEMMA LoaderIsBuild ==
  ASSUME Loader!Next
  PROVE  L!Next
<1>1. ASSUME Loader!TakeNode PROVE L!TakeNode
  BY <1>1
  DEF List, Loader!TakeNode, L!TakeNode, Loader!Enter, L!Enter,
      Loader!FoundEarly, L!FoundEarly, Loader!Numbered, L!Numbered,
      Loader!Rejects, L!Rejects, Loader!Fail, L!Fail, Loader!HandOver,
      L!HandOver, Loader!NoRefs, L!NoRefs, Loader!Called, L!Called,
      Loader!LacksChildren, L!LacksChildren, Loader!AppendChild,
      L!AppendChild, Loader!AppendUpdater, L!AppendUpdater
<1>2. ASSUME Loader!AppendByIndex PROVE L!AppendByIndex
  BY <1>2
  DEF List, Loader!AppendByIndex, L!AppendByIndex, Loader!MoreBranches,
      L!MoreBranches, Loader!Branch, L!Branch, Loader!Refs, L!Refs,
      Loader!HandOver, L!HandOver, Loader!Without, L!Without,
      Loader!LacksChildren, L!LacksChildren, Loader!Top, L!Top,
      Loader!AppendChild, L!AppendChild, Loader!AppendUpdater,
      L!AppendUpdater, Loader!NoRefs, L!NoRefs, Loader!Last, L!Last
<1>3. ASSUME Loader!AppendByNode PROVE L!AppendByNode
  BY <1>3
  DEF List, Loader!AppendByNode, L!AppendByNode, Loader!MoreBranches,
      L!MoreBranches, Loader!Branch, L!Branch, Loader!Enter, L!Enter,
      Loader!HandOver, L!HandOver, Loader!LacksChildren, L!LacksChildren,
      Loader!Top, L!Top, Loader!AppendChild, L!AppendChild,
      Loader!AppendUpdater, L!AppendUpdater, Loader!Called, L!Called,
      Loader!Last, L!Last
<1>4. ASSUME Loader!NoChild PROVE L!NoChild
  BY <1>4
  DEF List, Loader!NoChild, L!NoChild, Loader!MoreBranches, L!MoreBranches,
      Loader!Branch, L!Branch, Loader!Refs, L!Refs, Loader!Rejects,
      L!Rejects, Loader!Fail, L!Fail, Loader!NoRefs, L!NoRefs,
      Loader!LacksChildren, L!LacksChildren, Loader!Top, L!Top, Loader!Last,
      L!Last
<1>5. ASSUME Loader!BuildUpdateTree PROVE L!BuildUpdateTree
  BY <1>5
  DEF List, Loader!BuildUpdateTree, L!BuildUpdateTree, Loader!MoreUpdates,
      L!MoreUpdates, Loader!Enter, L!Enter, Loader!Rejects, L!Rejects,
      Loader!Fail, L!Fail, Loader!NoRefs, L!NoRefs, Loader!HandOver,
      L!HandOver, Loader!LacksChildren, L!LacksChildren, Loader!Top, L!Top,
      Loader!AppendChild, L!AppendChild, Loader!AppendUpdater,
      L!AppendUpdater, Loader!Called, L!Called, Loader!Last, L!Last
<1>6. ASSUME Loader!FinishBranch PROVE L!FinishBranch
  BY <1>6
  DEF List, Loader!FinishBranch, L!FinishBranch, Loader!MoreBranches,
      L!MoreBranches, Loader!MoreUpdates, L!MoreUpdates, Loader!Extended,
      L!Extended, Loader!HandOver, L!HandOver, Loader!LacksChildren,
      L!LacksChildren, Loader!Top, L!Top, Loader!AppendChild, L!AppendChild,
      Loader!AppendUpdater, L!AppendUpdater, Loader!Fail, L!Fail,
      Loader!NoRefs, L!NoRefs, Loader!Last, L!Last, Loader!Front, L!Front
<1>7. ASSUME Loader!Store PROVE L!Store
  BY <1>7
  DEF List, Loader!Store, L!Store, Loader!Numbered, L!Numbered,
      Loader!Extended, L!Extended, Loader!Fail, L!Fail, Loader!NoRefs,
      L!NoRefs
<1>8. ASSUME Loader!Finish PROVE L!Finish
  BY <1>8
  DEF List, Loader!Finish, L!Finish, Loader!Without, L!Without, Loader!Fail,
      L!Fail, Loader!NoRefs, L!NoRefs, Loader!Cardinality, L!Cardinality
<1>9. QED
  BY <1>1, <1>2, <1>3, <1>4, <1>5, <1>6, <1>7, <1>8 DEF Loader!Next, L!Next
-----------------------------------------------------------------------------
(***************************************************************************)
(* The messages of the tree.                                               *)
(***************************************************************************)
ChildrenOf == [c \in Configs |-> Children(tree, c)]
PartsOf == [c \in Configs |-> Parts(tree, c)]

LEMMA PartsFacts ==
  ASSUME IsTree(tree)
  PROVE  /\ ChildrenOf \in [Configs -> SUBSET Configs]
         /\ PartsOf \in [Configs -> SUBSET Configs]
         /\ \A c \in Configs : /\ ChildrenOf[c] = Children(tree, c)
                               /\ PartsOf[c] = Parts(tree, c)
                               /\ Parts(tree, c) = Children(tree, c) \cup ToSet(tree.updates[c])
                               /\ ToSet(tree.updates[c]) \subseteq Configs
         /\ \E h : /\ L!GoesDown(ChildrenOf, Configs, MaxDepth, h)
                   /\ L!GoesDown(PartsOf, Configs, MaxDepth, h)
<1>1. \A c \in Configs : /\ Parts(tree, c) = Children(tree, c) \cup ToSet(tree.updates[c])
                         /\ ToSet(tree.updates[c]) \subseteq Configs
  <2>1. \A c \in Configs : tree.updates[c] \in Seq(Configs)
    BY TreeFacts
  <2>2. \A c \in Configs : ToSet(tree.updates[c]) \subseteq Configs
    BY <2>1 DEF ToSet
  <2>3. QED
    BY <2>2 DEF Parts
<1>2. /\ ChildrenOf \in [Configs -> SUBSET Configs]
      /\ PartsOf \in [Configs -> SUBSET Configs]
  BY <1>1, ChildrenFacts DEF ChildrenOf, PartsOf
<1>3. PICK h \in [Configs -> 0 .. MaxDepth] :
        \A c \in Configs : \A d \in Parts(tree, c) : h[d] < h[c]
  BY DEF IsTree
<1>4. /\ \A c \in Configs : \A d \in ChildrenOf[c] : h[d] < h[c]
      /\ \A c \in Configs : \A d \in PartsOf[c] : h[d] < h[c]
  BY <1>1, <1>3 DEF ChildrenOf, PartsOf
<1>5. MaxDepth \in Nat
  BY TreesAssumption
<1>6. /\ L!GoesDown(ChildrenOf, Configs, MaxDepth, h)
      /\ L!GoesDown(PartsOf, Configs, MaxDepth, h)
  BY <1>2, <1>4, <1>5 DEF L!GoesDown
<1>7. QED
  BY <1>1, <1>2, <1>6, Zenon DEF ChildrenOf, PartsOf

LEMMA NestedIsClosure ==
  ASSUME IsTree(tree)
  PROVE  L!IsClosure(Nested, Configs, ChildrenOf)
<1> DEFINE G(f) == [c \in Configs |-> {c} \cup UNION {f[d] : d \in Children(tree, c)}]
           E(g) == g = G(g)
<1>1. ASSUME NEW f
      PROVE  G(f) = [c \in Configs |-> {c} \cup UNION {f[d] : d \in ChildrenOf[c]}]
  BY DEF ChildrenOf
<1>2. Nested = CHOOSE g : E(g)
  BY DEF Nested
<1>3. ChildrenOf \in [Configs -> SUBSET Configs]
  BY PartsFacts
<1>4. PICK f : L!IsClosure(f, Configs, ChildrenOf)
  BY <1>3, ListsAssumption, L!ClosureExists, Zenon
<1> HIDE DEF G
<1>5. E(f)
  <2>1. f = [c \in Configs |-> {c} \cup UNION {f[d] : d \in ChildrenOf[c]}]
    BY <1>4 DEF L!IsClosure
  <2>2. G(f) = [c \in Configs |-> {c} \cup UNION {f[d] : d \in ChildrenOf[c]}]
    BY <1>1
  <2>3. QED
    BY <2>1, <2>2, Zenon
<1> HIDE DEF E
<1>6. E(Nested)
  BY <1>2, <1>5, Zenon
<1>7. Nested = G(Nested)
  BY <1>6 DEF E
<1>8. G(Nested) = [c \in Configs |-> {c} \cup UNION {Nested[d] : d \in ChildrenOf[c]}]
  BY <1>1
<1>9. QED
  BY <1>7, <1>8, Zenon DEF L!IsClosure

LEMMA WholeIsClosure ==
  ASSUME IsTree(tree)
  PROVE  L!IsClosure(Whole, Configs, PartsOf)
<1> DEFINE G(f) == [c \in Configs |-> {c} \cup UNION {f[d] : d \in Parts(tree, c)}]
           E(g) == g = G(g)
<1>1. ASSUME NEW f
      PROVE  G(f) = [c \in Configs |-> {c} \cup UNION {f[d] : d \in PartsOf[c]}]
  BY DEF PartsOf
<1>2. Whole = CHOOSE g : E(g)
  BY DEF Whole
<1>3. PartsOf \in [Configs -> SUBSET Configs]
  BY PartsFacts
<1>4. PICK f : L!IsClosure(f, Configs, PartsOf)
  BY <1>3, ListsAssumption, L!ClosureExists, Zenon
<1> HIDE DEF G
<1>5. E(f)
  <2>1. f = [c \in Configs |-> {c} \cup UNION {f[d] : d \in PartsOf[c]}]
    BY <1>4 DEF L!IsClosure
  <2>2. G(f) = [c \in Configs |-> {c} \cup UNION {f[d] : d \in PartsOf[c]}]
    BY <1>1
  <2>3. QED
    BY <2>1, <2>2, Zenon
<1> HIDE DEF E
<1>6. E(Whole)
  BY <1>2, <1>5, Zenon
<1>7. Whole = G(Whole)
  BY <1>6 DEF E
<1>8. G(Whole) = [c \in Configs |-> {c} \cup UNION {Whole[d] : d \in PartsOf[c]}]
  BY <1>1
<1>9. QED
  BY <1>7, <1>8, Zenon DEF L!IsClosure

\* Nested has the messages of the tree that the serializer comes to.
LEMMA NestedFacts ==
  ASSUME IsTree(tree)
  PROVE  Nested[tree.root] = FromRoot
<1>1. PICK h : L!GoesDown(ChildrenOf, Configs, MaxDepth, h)
  BY PartsFacts
<1>2. /\ \A c \in Configs : c \in Nested[c]
      /\ \A c \in Configs : \A m \in Nested[c] :
           m \in Configs /\ ChildrenOf[m] \subseteq Nested[c]
      /\ \A T \in SUBSET Configs : (\A m \in T : ChildrenOf[m] \subseteq T)
           => \A c \in T : Nested[c] \subseteq T
  BY <1>1, NestedIsClosure, ListsAssumption, L!ClosureFacts
<1>3. /\ tree.root \in Configs
      /\ \A c \in Configs : ChildrenOf[c] = Children(tree, c)
  BY TreeFacts, PartsFacts
<1>4. FromRoot \subseteq Nested[tree.root]
  <2>1. Nested[tree.root] \in SUBSET Configs /\ tree.root \in Nested[tree.root]
    BY <1>2, <1>3
  <2>2. \A d \in Nested[tree.root] : Children(tree, d) \subseteq Nested[tree.root]
    BY <1>2, <1>3
  <2>3. QED
    BY <2>1, <2>2, FromRootFacts
<1>5. Nested[tree.root] \subseteq FromRoot
  <2>1. /\ FromRoot \in SUBSET Configs /\ tree.root \in FromRoot
        /\ \A m \in FromRoot : ChildrenOf[m] \subseteq FromRoot
    BY <1>3, FromRootFacts
  <2>2. QED
    BY <1>2, <2>1
<1>6. QED
  BY <1>4, <1>5

LEMMA WholeFacts ==
  ASSUME IsTree(tree)
  PROVE  /\ Whole[tree.root] \subseteq Configs /\ tree.root \in Whole[tree.root]
         /\ \A c \in Whole[tree.root] : Parts(tree, c) \subseteq Whole[tree.root]
         /\ \A T \in SUBSET Configs :
              tree.root \in T /\ (\A c \in T : Parts(tree, c) \subseteq T)
                => Whole[tree.root] \subseteq T
<1>1. PICK h : L!GoesDown(PartsOf, Configs, MaxDepth, h)
  BY PartsFacts
<1>2. /\ \A c \in Configs : c \in Whole[c]
      /\ \A c \in Configs : \A m \in Whole[c] :
           m \in Configs /\ PartsOf[m] \subseteq Whole[c]
      /\ \A T \in SUBSET Configs : (\A m \in T : PartsOf[m] \subseteq T)
           => \A c \in T : Whole[c] \subseteq T
  BY <1>1, WholeIsClosure, ListsAssumption, L!ClosureFacts
<1>3. /\ tree.root \in Configs
      /\ \A c \in Configs : PartsOf[c] = Parts(tree, c)
  BY TreeFacts, PartsFacts
<1>4. QED
  BY <1>2, <1>3
-----------------------------------------------------------------------------
(***************************************************************************)
(* The list, once it is complete.                                          *)
(***************************************************************************)
\* It has the messages from the root down, each once.
LEMMA ListedOnce ==
  ASSUME SInv
  PROVE  /\ node_list \in Seq(Configs) /\ Len(node_list) \in Nat
         /\ DOMAIN node_list = 1 .. Len(node_list)
         /\ \A p \in 1 .. Len(node_list) :
              node_list[p] \in Configs /\ index[node_list[p]] = p - 1
         /\ \A p, q \in 1 .. Len(node_list) : node_list[p] = node_list[q] => p = q
<1>1. node_list \in Seq(Configs) /\ \A p \in DOMAIN node_list : index[node_list[p]] = p - 1
  BY DEF SInv, Typed, Numbered
<1>2. /\ Len(node_list) \in Nat /\ DOMAIN node_list = 1 .. Len(node_list)
      /\ \A p \in DOMAIN node_list : node_list[p] \in Configs
  BY <1>1, Elements
<1>3. \A p, q \in DOMAIN node_list : node_list[p] = node_list[q] => p = q
  BY <1>1, <1>2
<1>4. QED
  BY <1>1, <1>2, <1>3

LEMMA ListedIsFromRoot ==
  ASSUME SInv, outcome = "listed"
  PROVE  /\ Len(node_list) > 0 /\ node_list[Len(node_list)] = tree.root
         /\ \A c : c \in FromRoot <=> \E p \in 1 .. Len(node_list) : node_list[p] = c
<1>1. /\ node_list \in Seq(Configs) /\ Len(node_list) \in Nat
      /\ DOMAIN node_list = 1 .. Len(node_list)
      /\ \A p \in 1 .. Len(node_list) : node_list[p] \in Configs
      /\ node_list # <<>> /\ Last(node_list) = tree.root
      /\ IsTree(tree) /\ branches \in [Configs -> Seq(Branches)]
  BY ListedOnce DEF SInv, Typed
<1>2. Len(node_list) > 0 /\ node_list[Len(node_list)] = tree.root
  BY <1>1 DEF Last
<1>3. PICK T : T = {node_list[p] : p \in 1 .. Len(node_list)}
  OBVIOUS
<1>4. T \in SUBSET Configs /\ tree.root \in T
  <2>1. T \in SUBSET Configs
    BY <1>1, <1>3
  <2>2. Len(node_list) \in 1 .. Len(node_list)
    BY <1>1, <1>2
  <2>3. QED
    BY <1>2, <1>3, <2>1, <2>2
<1>5. ASSUME NEW c \in T, NEW d \in Children(tree, c)
      PROVE  d \in T
  <2>1. PICK p \in 1 .. Len(node_list) : node_list[p] = c
    BY <1>3, <1>5
  <2>2. c \in Configs
    BY <1>1, <2>1
  <2>3. PICK k \in DOMAIN tree.branches[c] : tree.branches[c][k] = ByNode(d)
    BY <1>1, <1>5, <2>2, ChildrenFacts
  <2>4. k \in DOMAIN branches[c]
    BY <2>2, <2>3, SameDomain
  <2>5. Linked(c, k, p - 1)
    BY <1>1, <2>1, <2>2, <2>4 DEF SInv, Listed, ListedFits
  <2>6. PICK j \in 1 .. p - 1 : tree.branches[c][k] = ByNode(node_list[j])
    BY <2>5 DEF Linked
  <2>7. d = node_list[j]
    BY <2>3, <2>6 DEF ByNode
  <2>8. j \in 1 .. Len(node_list)
    BY <1>1, <2>1, <2>6
  <2>9. QED
    BY <1>3, <2>7, <2>8
<1>6. FromRoot \subseteq T
  BY <1>1, <1>4, <1>5, FromRootFacts
<1>7. ASSUME NEW p \in 1 .. Len(node_list) PROVE node_list[p] \in FromRoot
  BY <1>1 DEF SInv, Listed, ListedFits
<1>8. QED
  BY <1>2, <1>3, <1>6, <1>7

\* An injective sequence has as many elements as it is long.
LEMMA SizeOfList ==
  ASSUME SInv
  PROVE  Cardinality(ToSet(node_list)) = Len(node_list)
<1>1. PICK n : n = Len(node_list)
  OBVIOUS
<1>2. /\ n \in Nat /\ DOMAIN node_list = 1 .. n /\ node_list \in Seq(Configs)
      /\ \A p, q \in 1 .. n : node_list[p] = node_list[q] => p = q
  BY <1>1, ListedOnce
<1>3. node_list \in Bijection(1 .. n, ToSet(node_list))
  <2>1. node_list \in [1 .. n -> ToSet(node_list)]
    BY <1>2 DEF ToSet
  <2>2. QED
    BY <1>2, <2>1 DEF Bijection, Injection, IsInjective, Surjection, ToSet
<1>4. IsFiniteSet(1 .. n) /\ Cardinality(1 .. n) = n
  BY <1>2, FS_Interval
<1>5. ExistsBijection(1 .. n, ToSet(node_list))
  BY <1>3 DEF ExistsBijection
<1>6. QED
  BY <1>1, <1>4, <1>5, FS_Bijection

LEMMA NothingIsLost == SInv => NothingLost
<1>1. SUFFICES ASSUME SInv, outcome = "listed"
               PROVE  /\ ToSet(node_list) = Nested[tree.root]
                      /\ Cardinality(ToSet(node_list)) = Len(node_list)
  BY DEF NothingLost
<1>2. Nested[tree.root] = FromRoot
  BY <1>1, NestedFacts DEF SInv, Typed
<1>3. DOMAIN node_list = 1 .. Len(node_list)
  BY <1>1, ListedOnce
<1>4. ToSet(node_list) = FromRoot
  BY <1>1, <1>3, ListedIsFromRoot DEF ToSet
<1>5. QED
  BY <1>1, <1>2, <1>4, SizeOfList

\* What is nested in a message of the list, or in one that is not listed.
LEMMA PartsOfList ==
  ASSUME SInv, NEW c \in Configs
  PROVE  /\ \A d : d \in L!Parts(List, c) <=>
              \/ \E k \in DOMAIN branches[c] : branches[c][k] = ByNode(d)
              \/ d \in ToSet(tree.updates[c])
         /\ Loader!Parts(List, c) = L!Parts(List, c)
         /\ L!Parts(List, c) \subseteq Parts(tree, c)
<1>1. /\ branches[c] \in Seq(Branches) /\ IsTree(tree)
      /\ \A k \in DOMAIN branches[c] : branches[c][k] \in Branches
  BY SameDomain DEF SInv, Typed
<1>2. L!Parts(List, c) =
        {b.node : b \in {x \in ToSet(branches[c]) : x.by = "node"}}
          \cup ToSet(tree.updates[c])
  BY SameTerms DEF L!Parts, List
<1>3. \A d : d \in {b.node : b \in {x \in ToSet(branches[c]) : x.by = "node"}} <=>
               \E k \in DOMAIN branches[c] : branches[c][k] = ByNode(d)
  BY <1>1, BranchFacts DEF ToSet
<1>4. \A d : \A k \in DOMAIN branches[c] :
        branches[c][k] = ByNode(d) => d \in Children(tree, c)
  BY ByNodeIsGiven, BranchFacts
<1>5. Parts(tree, c) = Children(tree, c) \cup ToSet(tree.updates[c])
  BY DEF Parts
<1>6. QED
  BY <1>2, <1>3, <1>4, <1>5, SameParts

\* Where a message that is listed was nested it is not any more.
LEMMA ListedIsReplaced ==
  ASSUME SInv, outcome = "listed", NEW p \in 1 .. Len(node_list)
  PROVE  /\ \A e \in Configs : \A k \in DOMAIN branches[e] :
              branches[e][k] # ByNode(node_list[p])
         /\ \A e \in Configs : \A k \in DOMAIN tree.updates[e] :
              tree.updates[e][k] # node_list[p]
         /\ node_list[p] # tree.root =>
              \E e \in FromRoot : \E k \in DOMAIN branches[e] :
                /\ tree.branches[e][k] = ByNode(node_list[p])
                /\ branches[e][k].by = "index"
<1>1. PICK c \in Configs : c = node_list[p]
  BY ListedOnce
<1>2. /\ p \in DOMAIN node_list /\ IsTree(tree)
      /\ \A e \in Configs : DOMAIN branches[e] = DOMAIN tree.branches[e]
  BY ListedOnce, SameDomain DEF SInv, Typed
<1>3. CASE c = tree.root
  <2>1. \A e \in Configs : \A k \in DOMAIN tree.branches[e] :
          tree.branches[e][k] # ByNode(c)
    BY <1>2, <1>3, OnePlace
  <2>2. \A e \in Configs : \A k \in DOMAIN branches[e] : branches[e][k] # ByNode(c)
    BY <2>1, ByNodeIsGiven, BranchFacts
  <2>3. \A e \in Configs : \A k \in DOMAIN tree.updates[e] : tree.updates[e][k] # c
    BY <1>2, <1>3, OnePlace
  <2>4. QED
    BY <1>1, <1>3, <2>2, <2>3
<1>4. CASE c # tree.root
  <2>1. PICK e \in Configs : \E k \in DOMAIN branches[e] :
          tree.branches[e][k] = ByNode(c) /\ branches[e][k].by = "index"
    BY <1>1, <1>2, <1>4 DEF SInv, Listed, ListedFits
  <2>2. PICK k \in DOMAIN branches[e] :
          tree.branches[e][k] = ByNode(c) /\ branches[e][k].by = "index"
    BY <2>1
  <2>3. k \in DOMAIN tree.branches[e]
    BY <1>2
  <2>4. e \in FromRoot
    BY <2>2, BranchFacts DEF SInv, Rewritten
  <2>5. ASSUME NEW d \in Configs, NEW j \in DOMAIN branches[d], branches[d][j] = ByNode(c)
        PROVE  FALSE
    <3>1. j \in DOMAIN tree.branches[d] /\ tree.branches[d][j] = ByNode(c)
      BY <2>5, ByNodeIsGiven, BranchFacts
    <3>2. d = e /\ j = k
      BY <1>2, <2>2, <2>3, <3>1, OnePlace
    <3>3. QED
      BY <2>2, <2>5, <3>2, BranchFacts
  <2>6. \A d \in Configs : \A j \in DOMAIN tree.updates[d] : tree.updates[d][j] # c
    BY <1>2, <2>2, <2>3, OnePlace
  <2>7. QED
    BY <1>1, <2>2, <2>4, <2>5, <2>6
<1>5. QED
  BY <1>3, <1>4

\* Build may be given the list.
LEMMA ListIsGiven ==
  ASSUME SInv, outcome = "listed"
  PROVE  List \in Lists
<1>1. /\ IsTree(tree) /\ branches \in [Configs -> Seq(Branches)]
      /\ index \in [Configs -> Nat \cup {NoIndex}] /\ node_list \in Seq(Configs)
      /\ tree.updates \in [Configs -> Seq(Configs)]
      /\ tree.branching \subseteq Configs /\ tree.sound \subseteq Configs
      /\ \A c \in Configs \ tree.branching :
           tree.branches[c] = <<>> /\ tree.updates[c] = <<>>
  BY TreeFacts DEF SInv, Typed
<1>2. List \in Loader!Model
  <2>1. branches \in [Configs -> Seq(Loader!Branches)]
    BY <1>1, SameBranches
  <2>2. QED
    BY <1>1, <2>1 DEF List, Loader!Model
<1>3. \A c \in Configs : Loader!Parts(List, c) \subseteq Parts(tree, c)
  BY PartsOfList
<1>4. \E depth \in [Configs -> 0 .. MaxDepth] :
        \A c \in Configs : \A d \in Loader!Parts(List, c) : depth[d] < depth[c]
  <2>1. PICK depth \in [Configs -> 0 .. MaxDepth] :
          \A c \in Configs : \A d \in Parts(tree, c) : depth[d] < depth[c]
    BY <1>1 DEF IsTree
  <2>2. QED
    BY <1>3, <2>1
<1>5. \A c \in Configs \ tree.branching : branches[c] = <<>> /\ tree.updates[c] = <<>>
  <2>1. SUFFICES ASSUME NEW c \in Configs \ tree.branching PROVE branches[c] = <<>>
    BY <1>1
  <2>2. DOMAIN branches[c] = DOMAIN tree.branches[c] /\ tree.branches[c] = <<>>
    BY <1>1, SameDomain
  <2>3. QED
    BY <1>1, <2>2
<1>6. ASSUME NEW c \in Configs, NEW p \in Loader!Places(List, c),
             NEW q \in Loader!Places(List, c)
      PROVE  p = q
  <2> DEFINE InList == {<<"list", NoNode, j>> : j \in {i \in DOMAIN node_list : node_list[i] = c}}
  <2>1. ASSUME NEW x \in Loader!Places(List, c), x \notin InList
        PROVE  x \in Places(tree, c)
    <3>1. \/ \E d \in Configs : \E k \in DOMAIN branches[d] :
               branches[d][k] = ByNode(c) /\ x = <<"branch", d, k>>
          \/ \E d \in Configs : \E k \in DOMAIN tree.updates[d] :
               tree.updates[d][k] = c /\ x = <<"update", d, k>>
      BY <2>1, SameTerms
      DEF List, Loader!Places, Loader!InList, Loader!UnderBranch, Loader!AsUpdate
    <3>2. CASE \E d \in Configs : \E k \in DOMAIN branches[d] :
               branches[d][k] = ByNode(c) /\ x = <<"branch", d, k>>
      <4>1. PICK d \in Configs : \E k \in DOMAIN branches[d] :
               branches[d][k] = ByNode(c) /\ x = <<"branch", d, k>>
        BY <3>2
      <4>2. PICK k \in DOMAIN branches[d] :
               branches[d][k] = ByNode(c) /\ x = <<"branch", d, k>>
        BY <4>1
      <4>3. k \in DOMAIN tree.branches[d] /\ tree.branches[d][k] = ByNode(c)
        BY <4>2, ByNodeIsGiven, BranchFacts
      <4>4. QED
        BY <4>2, <4>3 DEF Places
    <3>3. CASE \E d \in Configs : \E k \in DOMAIN tree.updates[d] :
               tree.updates[d][k] = c /\ x = <<"update", d, k>>
      BY <3>3 DEF Places
    <3>4. QED
      BY <3>1, <3>2, <3>3
  <2>2. ASSUME NEW x \in InList PROVE \A y \in Loader!Places(List, c) : y \in InList
    <3>1. PICK i \in 1 .. Len(node_list) : node_list[i] = c
      BY ListedOnce
    <3>2. /\ \A e \in Configs : \A k \in DOMAIN branches[e] : branches[e][k] # ByNode(c)
          /\ \A e \in Configs : \A k \in DOMAIN tree.updates[e] : tree.updates[e][k] # c
      BY <3>1, ListedIsReplaced
    <3>3. QED
      BY <3>2, SameTerms
      DEF List, Loader!Places, Loader!InList, Loader!UnderBranch, Loader!AsUpdate
  <2>3. \A x, y \in InList : x = y
    <3>1. \A i, j \in DOMAIN node_list : node_list[i] = c /\ node_list[j] = c => i = j
      BY ListedOnce
    <3>2. QED
      BY <3>1
  <2>4. \A x, y \in Places(tree, c) : x = y
    BY <1>1 DEF IsTree
  <2> HIDE DEF InList
  <2>5. QED
    BY <2>1, <2>2, <2>3, <2>4
<1>7. QED
  BY <1>2, <1>4, <1>5, <1>6 DEF Lists, List
-----------------------------------------------------------------------------
(***************************************************************************)
(* The build of the list.                                                  *)
(***************************************************************************)
LoaderIdle ==
  /\ status = "building" /\ read = 0 /\ stack = <<>> /\ built = NoNode
  /\ node_refs = Loader!NoRefs /\ child_nodes = Loader!NoRefs
  /\ updaters = Loader!NoRefs /\ root = NoNode

\* A list is built by Build, and nothing else is.
RTInv ==
  /\ SInv
  /\ outcome # "listed" => LoaderIdle
  /\ outcome = "listed" => L!AcceptInv

LEMMA BuildStarts == SInv /\ outcome = "listed" /\ LoaderIdle => L!AcceptInv
<1> SUFFICES ASSUME SInv, outcome = "listed", LoaderIdle PROVE L!AcceptInv
  OBVIOUS
<1>1. List \in Lists
  BY ListIsGiven
<1>2. L!NoRefs = Loader!NoRefs
  BY DEF L!NoRefs, Loader!NoRefs
<1>3. L!Init
  BY <1>1, <1>2 DEF L!Init, LoaderIdle
<1>4. QED
  BY <1>3, ListsAssumption, L!AcceptInvInit

LEMMA RTInvInit == RoundTripInit => RTInv
<1> SUFFICES ASSUME RoundTripInit PROVE RTInv
  OBVIOUS
<1>1. SInv
  BY SInvInit DEF RoundTripInit
<1>2. outcome = "listing" /\ LoaderIdle
  BY DEF RoundTripInit, Init, LoaderIdle
<1>3. QED
  BY <1>1, <1>2 DEF RTInv

LEMMA SerializeKeepsAll ==
  ASSUME RTInv, Serialize
  PROVE  RTInv'
<1>1. SInv /\ outcome = "listing" /\ Next /\ UNCHANGED loaderVars /\ LoaderIdle
  BY DEF RTInv, Serialize
<1>2. SInv'
  BY <1>1, SerializeKeeps
<1>3. LoaderIdle'
  <2>1. Loader!NoRefs' = Loader!NoRefs
    BY DEF Loader!NoRefs
  <2>2. QED
    BY <1>1, <2>1 DEF LoaderIdle, loaderVars
<1>4. CASE outcome' = "listed"
  <2>1. (SInv /\ outcome = "listed" /\ LoaderIdle)'
    BY <1>2, <1>3, <1>4
  <2>2. L!AcceptInv'
    BY <2>1, BuildStarts, PTL
  <2>3. QED
    BY <1>2, <1>4, <2>2 DEF RTInv
<1>5. CASE outcome' # "listed"
  BY <1>2, <1>3, <1>5 DEF RTInv
<1>6. QED
  BY <1>4, <1>5

LEMMA LoadKeepsAll ==
  ASSUME RTInv, Load
  PROVE  RTInv'
<1>1. /\ SInv /\ outcome = "listed" /\ L!AcceptInv /\ UNCHANGED serializerVars
      /\ Loader!Next
  BY DEF RTInv, Load
<1>2. SInv' /\ outcome' = "listed"
  BY <1>1, NothingSerialized DEF serializerVars
<1>3. L!Next
  BY <1>1, LoaderIsBuild
<1>4. L!AcceptInv'
  BY <1>1, <1>3, ListsAssumption, L!AcceptInvStep
<1>5. QED
  BY <1>2, <1>4 DEF RTInv

LEMMA NothingChanges ==
  ASSUME RTInv, UNCHANGED <<serializerVars, loaderVars, calls_again>>
  PROVE  RTInv'
<1>1. SInv' /\ outcome' = outcome
  BY NothingSerialized DEF RTInv, serializerVars
<1>2. LoaderIdle' <=> LoaderIdle
  <2>1. Loader!NoRefs' = Loader!NoRefs
    BY DEF Loader!NoRefs
  <2>2. QED
    BY <2>1 DEF LoaderIdle, loaderVars
<1>3. ASSUME L!AcceptInv PROVE L!AcceptInv'
  <2>1. UNCHANGED L!vars
    BY DEF L!vars, List, serializerVars, loaderVars
  <2>2. QED
    BY <1>3, <2>1, ListsAssumption, L!AcceptInvStep
<1>4. QED
  BY <1>1, <1>2, <1>3 DEF RTInv

LEMMA CallAgainKeepsAll ==
  ASSUME RTInv, CallAgain
  PROVE  RTInv'
<1>1. SInv'
  BY CallAgainKeeps DEF RTInv
<1>2. outcome' = "listing" /\ LoaderIdle'
  <2>1. Loader!NoRefs' = Loader!NoRefs
    BY DEF Loader!NoRefs
  <2>2. QED
    BY <2>1 DEF CallAgain, LoaderIdle
<1>3. QED
  BY <1>1, <1>2 DEF RTInv

LEMMA RTInvStep ==
  RTInv /\ [Serialize \/ Load \/ CallAgain]_<<serializerVars, loaderVars, calls_again>>
    => RTInv'
  BY SerializeKeepsAll, LoadKeepsAll, CallAgainKeepsAll, NothingChanges
-----------------------------------------------------------------------------
(***************************************************************************)
(* What Build makes of the list.                                           *)
(***************************************************************************)
\* A message that is not listed is as it was passed in, and one that is has
\* the numbers of nodes before it.
LEMMA UnlistedIsGiven ==
  ASSUME SInv, NEW c \in Configs, c \notin FromRoot
  PROVE  branches[c] = tree.branches[c]
<1>1. /\ branches[c] \in Seq(Branches) /\ tree.branches[c] \in Seq(Branches)
      /\ DOMAIN branches[c] = DOMAIN tree.branches[c]
  BY SameDomain
<1>2. \A k \in DOMAIN branches[c] : branches[c][k] = tree.branches[c][k]
  BY DEF SInv, Rewritten
<1>3. QED
  BY <1>1, <1>2

LEMMA RowOfList ==
  ASSUME SInv, outcome = "listed", NEW p \in 1 .. Len(node_list),
         NEW k \in DOMAIN branches[node_list[p]]
  PROVE  \E j \in 1 .. p - 1 : /\ j \in 1 .. Len(node_list)
                               /\ branches[node_list[p]][k] = ByIndex(j - 1)
                               /\ tree.branches[node_list[p]][k] = ByNode(node_list[j])
<1>1. PICK c \in Configs : c = node_list[p]
  BY ListedOnce
<1>2. p \in DOMAIN node_list /\ Len(node_list) \in Nat
  BY ListedOnce
<1>3. Linked(c, k, p - 1)
  BY <1>1, <1>2 DEF SInv, Listed, ListedFits
<1>4. QED
  BY <1>1, <1>2, <1>3 DEF Linked

\* The messages of Build are those of the tree; of a message that is listed,
\* all but its update trees are listed too.
LEMMA UnderList ==
  ASSUME SInv, outcome = "listed"
  PROVE  /\ \A p \in 1 .. Len(node_list) :
              L!Under[node_list[p]] =
                {node_list[p]} \cup UNION {L!Under[u] : u \in ToSet(tree.updates[node_list[p]])}
         /\ \A c \in Configs : \A u \in ToSet(tree.updates[c]) :
              \A d \in L!Under[u] : d \in Configs /\ d \notin FromRoot
         /\ Whole[tree.root] =
              UNION {L!Under[node_list[p]] : p \in 1 .. Len(node_list)}
         /\ \A c \in Whole[tree.root] : L!Under[c] \subseteq Whole[tree.root]
<1> DEFINE n == Len(node_list)
           U == UNION {L!Under[node_list[p]] : p \in 1 .. n}
<1>1. /\ IsTree(tree) /\ List \in Lists /\ L!ModelsAssumption
      /\ \A p \in 1 .. n : node_list[p] \in Configs
      /\ node_list[n] = tree.root /\ n \in 1 .. n
      /\ \A c : c \in FromRoot <=> \E p \in 1 .. n : node_list[p] = c
  <2>1. n \in Nat /\ n > 0
    BY ListedOnce, ListedIsFromRoot
  <2>2. n \in 1 .. n
    BY <2>1
  <2>3. /\ IsTree(tree) /\ List \in Lists /\ L!ModelsAssumption
        /\ \A p \in 1 .. n : node_list[p] \in Configs
    BY ListsAssumption, ListIsGiven, ListedOnce DEF SInv, Typed
  <2>4. /\ node_list[n] = tree.root
        /\ \A c : c \in FromRoot <=> \E p \in 1 .. n : node_list[p] = c
    BY ListedIsFromRoot
  <2>5. QED
    BY <2>2, <2>3, <2>4
<1>2. /\ \A c \in Configs : c \in L!Under[c] /\ L!Under[c] \subseteq Configs
      /\ \A c \in Configs : \A d \in L!Under[c] : L!Parts(List, d) \subseteq L!Under[c]
      /\ \A c \in Configs : \A T \in SUBSET Configs :
           c \in T /\ (\A m \in T : L!Parts(List, m) \subseteq T) => L!Under[c] \subseteq T
      /\ \A c \in Configs :
           L!Under[c] = {c} \cup UNION {L!Under[d] : d \in L!Parts(List, c)}
  <2>1. L!IsClosure(L!Under, Configs, L!PartsOf)
    BY <1>1, L!UnderIsClosure
  <2>2. \A c \in Configs :
          L!Under[c] = {c} \cup UNION {L!Under[d] : d \in L!PartsOf[c]}
    BY <2>1 DEF L!IsClosure
  <2>3. \A c \in Configs : L!PartsOf[c] = L!Parts(List, c)
    BY DEF L!PartsOf
  <2>4. QED
    BY <1>1, <2>2, <2>3, L!UnderFacts
<1>3. \A p \in 1 .. n : L!Parts(List, node_list[p]) = ToSet(tree.updates[node_list[p]])
  <2>1. ASSUME NEW p \in 1 .. n, NEW k \in DOMAIN branches[node_list[p]]
        PROVE  branches[node_list[p]][k].by = "index"
    <3>1. PICK i : branches[node_list[p]][k] = ByIndex(i)
      BY <2>1, RowOfList
    <3>2. QED
      BY <3>1 DEF ByIndex
  <2>2. ASSUME NEW p \in 1 .. n
        PROVE  L!Parts(List, node_list[p]) = ToSet(tree.updates[node_list[p]])
    <3>1. PICK c \in Configs : c = node_list[p]
      BY <1>1
    <3>2. \A d : d \in L!Parts(List, c) <=>
              \/ \E k \in DOMAIN branches[c] : branches[c][k] = ByNode(d)
              \/ d \in ToSet(tree.updates[c])
      BY PartsOfList
    <3>3. \A d : \A k \in DOMAIN branches[c] : branches[c][k] # ByNode(d)
      BY <2>1, <3>1, BranchFacts
    <3>4. QED
      BY <3>1, <3>2, <3>3
  <2>3. QED
    BY <2>2
<1>4. \A p \in 1 .. n :
        L!Under[node_list[p]] =
          {node_list[p]} \cup UNION {L!Under[u] : u \in ToSet(tree.updates[node_list[p]])}
  <2>1. ASSUME NEW p \in 1 .. n
        PROVE  L!Under[node_list[p]] =
                 {node_list[p]} \cup UNION {L!Under[u] : u \in ToSet(tree.updates[node_list[p]])}
    <3>1. PICK c \in Configs : c = node_list[p]
      BY <1>1
    <3>2. L!Under[c] = {c} \cup UNION {L!Under[d] : d \in L!Parts(List, c)}
      BY <1>2
    <3>3. L!Parts(List, c) = ToSet(tree.updates[c])
      BY <1>3, <3>1
    <3>4. QED
      BY <3>1, <3>2, <3>3, Zenon
  <2>2. QED
    BY <2>1
<1>5. ASSUME NEW c \in Configs, NEW u \in ToSet(tree.updates[c]), NEW d \in L!Under[u]
      PROVE  d \in Configs /\ d \notin FromRoot
  <2>1. u \in Configs /\ d \in Configs
    BY <1>1, <1>2, <1>5, PartsFacts
  <2>2. L!InUpdate(d)
    BY <1>5, SameTerms DEF L!InUpdate, List
  <2>3. \A p \in DOMAIN List.nodes : List.nodes[p] # d
    BY <1>1, <2>1, <2>2, L!UpdateTreeFacts
  <2>4. DOMAIN node_list = 1 .. n
    BY ListedOnce
  <2>5. \A p \in 1 .. n : node_list[p] # d
    BY <2>3, <2>4 DEF List
  <2>6. QED
    BY <1>1, <2>1, <2>5
<1>6. Whole[tree.root] \subseteq U
  <2>1. U \in SUBSET Configs /\ tree.root \in U
    <3>1. \A p \in 1 .. n : L!Under[node_list[p]] \subseteq Configs
      BY <1>1, <1>2
    <3>2. tree.root \in L!Under[node_list[n]]
      BY <1>1, <1>2
    <3>3. QED
      BY <1>1, <3>1, <3>2
  <2>2. ASSUME NEW c \in U PROVE Parts(tree, c) \subseteq U
    <3>1. PICK p \in 1 .. n : c \in L!Under[node_list[p]]
      BY <2>2
    <3>2. c \in Configs
      BY <2>1, <2>2
    <3>3. CASE c \in FromRoot
      <4>1. PICK q \in 1 .. n : node_list[q] = c
        BY <1>1, <3>3
      <4>2. ToSet(tree.updates[c]) \subseteq L!Under[c]
        BY <1>2, <1>3, <3>2, <4>1
      <4>3. ASSUME NEW d \in Children(tree, c) PROVE d \in U
        <5>1. d \in FromRoot
          BY <1>1, <3>3, <4>3, FromRootFacts
        <5>2. PICK r \in 1 .. n : node_list[r] = d
          BY <1>1, <5>1
        <5>3. d \in L!Under[node_list[r]]
          BY <1>1, <1>2, <5>2
        <5>4. QED
          BY <5>3
      <4>4. Parts(tree, c) = Children(tree, c) \cup ToSet(tree.updates[c])
        BY DEF Parts
      <4>5. QED
        BY <4>1, <4>2, <4>3, <4>4
    <3>4. CASE c \notin FromRoot
      <4>1. branches[c] = tree.branches[c]
        BY <3>2, <3>4, UnlistedIsGiven
      <4>2. Parts(tree, c) \subseteq L!Parts(List, c)
        <5>1. \A d \in Children(tree, c) : d \in L!Parts(List, c)
          BY <1>1, <3>2, <4>1, PartsOfList, ChildrenFacts
        <5>2. QED
          BY <3>2, <5>1, PartsOfList DEF Parts
      <4>3. L!Parts(List, c) \subseteq L!Under[node_list[p]]
        BY <1>1, <1>2, <3>1
      <4>4. QED
        BY <4>2, <4>3
    <3>5. QED
      BY <3>3, <3>4
  <2> HIDE DEF U
  <2>3. QED
    BY <1>1, <2>1, <2>2, WholeFacts
<1>7. /\ Whole[tree.root] \subseteq Configs /\ tree.root \in Whole[tree.root]
      /\ \A c \in Whole[tree.root] : Parts(tree, c) \subseteq Whole[tree.root]
  BY <1>1, WholeFacts
<1>8. ASSUME NEW c \in Whole[tree.root] PROVE L!Under[c] \subseteq Whole[tree.root]
  <2>1. PICK T \in SUBSET Configs : T = Whole[tree.root]
    BY <1>7
  <2>2. c \in Configs /\ c \in T /\ \A m \in T : L!Parts(List, m) \subseteq T
    BY <1>7, <1>8, <2>1, PartsOfList
  <2>3. L!Under[c] \subseteq T
    <3>1. \A S \in SUBSET Configs :
            c \in S /\ (\A m \in S : L!Parts(List, m) \subseteq S) => L!Under[c] \subseteq S
      BY <1>2, <2>2
    <3>2. QED
      BY <2>2, <3>1
  <2>4. QED
    BY <2>1, <2>3
<1>9. ASSUME NEW p \in 1 .. n PROVE L!Under[node_list[p]] \subseteq Whole[tree.root]
  <2>1. \A c \in Whole[tree.root] : Children(tree, c) \subseteq Whole[tree.root]
    BY <1>7 DEF Parts
  <2>2. FromRoot \subseteq Whole[tree.root]
    BY <1>1, <1>7, <2>1, FromRootFacts
  <2>3. QED
    BY <1>1, <1>8, <2>2
<1>10. Whole[tree.root] = U
  <2>1. U \subseteq Whole[tree.root]
    BY <1>9, Zenon
  <2> HIDE DEF U
  <2>2. QED
    BY <1>6, <2>1
<1>11. QED
  BY <1>4, <1>5, <1>8, <1>10, Zenon


\* An index stands for one node of the list.
LEMMA DefinitionsOfList ==
  ASSUME SInv, outcome = "listed", NEW i \in Nat, NEW p \in 0 .. Len(node_list)
  PROVE  L!Definitions(i, p) = IF i < p THEN 1 ELSE 0
<1>1. PICK S : S = L!DefinitionsOf(i, p)
  OBVIOUS
<1>2. \A q \in 1 .. p : q \in 1 .. Len(node_list)
  BY ListedOnce
<1>3. \A q \in 1 .. p : index[node_list[q]] = q - 1
  BY <1>2, ListedOnce
<1>4. NoIndex \notin Nat
  BY TreesAssumption
<1>5. S = {q \in 1 .. p : q - 1 = i}
  <2>1. S = {q \in 1 .. p : index[node_list[q]] # NoIndex /\ index[node_list[q]] = i}
    BY <1>1 DEF L!DefinitionsOf, L!Numbered, List
  <2>2. \A q \in 1 .. p : index[node_list[q]] # NoIndex
    BY <1>3, <1>4
  <2>3. QED
    BY <1>3, <2>1, <2>2
<1>6. p \in Nat
  BY ListedOnce
<1>7. S = IF i < p THEN {i + 1} ELSE {}
  BY <1>5, <1>6
<1>8. L!Definitions(i, p) = Cardinality(S)
  BY <1>1, SameSize DEF L!Definitions
<1>9. QED
  BY <1>7, <1>8, FS_EmptySet, FS_Singleton

LEMMA ClaimIs ==
  ASSUME NEW i \in Nat, NEW p \in Nat, NEW x
  PROVE  x \in L!ClaimsOf(i, p) <=>
           \E q \in 1 .. p : \E d \in L!Under[node_list[q]] :
             \E k \in DOMAIN branches[d] : branches[d][k] = ByIndex(i) /\ x = <<d, k>>
  BY SameTerms DEF L!ClaimsOf, List

\* No branch of an update tree claims a node.
PlainUpdates ==
  \A p \in 1 .. Len(node_list) : \A u \in ToSet(tree.updates[node_list[p]]) :
    \A d \in L!Under[u] : \A k \in DOMAIN branches[d] : branches[d][k].by # "index"

\* A claim is of a parent that is listed later, in place of the node.
LEMMA ClaimOfList ==
  ASSUME SInv, outcome = "listed", PlainUpdates, NEW i \in Nat,
         NEW p \in 0 .. Len(node_list), NEW x \in L!ClaimsOf(i, p)
  PROVE  /\ i < p - 1
         /\ \E e \in Configs : \E k \in DOMAIN tree.branches[e] :
              x = <<e, k>> /\ tree.branches[e][k] = ByNode(node_list[i + 1])
<1>1. p \in Nat
  BY ListedOnce
<1>2. PICK q \in 1 .. p : \E d \in L!Under[node_list[q]] : \E k \in DOMAIN branches[d] :
        branches[d][k] = ByIndex(i) /\ x = <<d, k>>
  BY <1>1, ClaimIs
<1>3. PICK d \in L!Under[node_list[q]] : \E k \in DOMAIN branches[d] :
        branches[d][k] = ByIndex(i) /\ x = <<d, k>>
  BY <1>2
<1>4. PICK k \in DOMAIN branches[d] : branches[d][k] = ByIndex(i) /\ x = <<d, k>>
  BY <1>3
<1>5. q \in 1 .. Len(node_list)
  BY ListedOnce
<1>6. d = node_list[q]
  BY <1>4, <1>5, UnderList, BranchFacts DEF PlainUpdates
<1>7. PICK j \in 1 .. q - 1 : /\ branches[d][k] = ByIndex(j - 1)
                              /\ tree.branches[d][k] = ByNode(node_list[j])
  BY <1>5, <1>6, RowOfList
<1>8. j - 1 = i /\ j = i + 1
  <2>1. j - 1 = i
    BY <1>4, <1>7 DEF ByIndex
  <2>2. QED
    BY <1>7, <2>1
<1>9. i < p - 1
  BY <1>1, <1>2, <1>7, <1>8
<1>10. d \in Configs /\ k \in DOMAIN tree.branches[d]
  BY <1>5, <1>6, ListedOnce, SameDomain
<1>11. QED
  BY <1>4, <1>7, <1>8, <1>9, <1>10

\* Every node but the root is claimed, once.
LEMMA ClaimsOfList ==
  ASSUME SInv, outcome = "listed", PlainUpdates, NEW i \in Nat
  PROVE  /\ \A p \in 0 .. Len(node_list) :
              /\ L!Claims(i, p) \in Nat
              /\ L!Claims(i, p) <= IF i < p - 1 THEN 1 ELSE 0
         /\ i < Len(node_list) - 1 => L!Claims(i, Len(node_list)) = 1
<1>1. /\ List \in Lists /\ L!ModelsAssumption /\ IsTree(tree)
      /\ Len(node_list) \in Nat
      /\ \A p \in 1 .. Len(node_list) : node_list[p] \in Configs
  BY ListIsGiven, ListsAssumption, ListedOnce DEF SInv, Typed
<1>2. ASSUME NEW p \in 0 .. Len(node_list)
      PROVE  \/ L!ClaimsOf(i, p) = {} /\ L!Claims(i, p) = 0
             \/ i < p - 1 /\ L!Claims(i, p) = 1
  <2>1. CASE L!ClaimsOf(i, p) = {}
    BY <2>1, SameSize, FS_EmptySet DEF L!Claims
  <2>2. CASE L!ClaimsOf(i, p) # {}
    <3>1. PICK x : x \in L!ClaimsOf(i, p)
      BY <2>2
    <3>2. ASSUME NEW y \in L!ClaimsOf(i, p) PROVE y = x
      <4>1. i < p - 1
        BY <3>1, ClaimOfList
      <4>2. i + 1 \in 1 .. Len(node_list)
        BY <1>1, <1>2, <4>1
      <4>3. PICK c \in Configs : c = node_list[i + 1]
        BY <1>1, <4>2
      <4>4. PICK e \in Configs : \E k \in DOMAIN tree.branches[e] :
              x = <<e, k>> /\ tree.branches[e][k] = ByNode(c)
        BY <3>1, <4>3, ClaimOfList
      <4>5. PICK k \in DOMAIN tree.branches[e] :
              x = <<e, k>> /\ tree.branches[e][k] = ByNode(c)
        BY <4>4
      <4>6. PICK d \in Configs : \E j \in DOMAIN tree.branches[d] :
              y = <<d, j>> /\ tree.branches[d][j] = ByNode(c)
        BY <3>2, <4>3, ClaimOfList
      <4>7. PICK j \in DOMAIN tree.branches[d] :
              y = <<d, j>> /\ tree.branches[d][j] = ByNode(c)
        BY <4>6
      <4>8. d = e /\ j = k
        BY <1>1, <4>5, <4>7, OnePlace
      <4>9. QED
        BY <4>5, <4>7, <4>8
    <3>3. L!ClaimsOf(i, p) = {x}
      BY <3>1, <3>2
    <3>4. L!Claims(i, p) = 1
      BY <3>3, SameSize, FS_Singleton DEF L!Claims
    <3>5. QED
      BY <3>1, <3>4, ClaimOfList
  <2>3. QED
    BY <2>1, <2>2
<1>3. \A p \in 0 .. Len(node_list) :
        L!Claims(i, p) \in Nat /\ L!Claims(i, p) <= IF i < p - 1 THEN 1 ELSE 0
  BY <1>2
<1>4. ASSUME i < Len(node_list) - 1 PROVE L!ClaimsOf(i, Len(node_list)) # {}
  <2>1. PICK n : n = Len(node_list)
    OBVIOUS
  <2>2. n \in Nat /\ i + 1 \in 1 .. n /\ i + 1 # n
    BY <1>1, <1>4, <2>1
  <2>3. n \in 1 .. n
    BY <2>2
  <2>4. node_list[i + 1] # tree.root
    BY <2>1, <2>2, <2>3, ListedOnce, ListedIsFromRoot
  <2>5. PICK e \in FromRoot : \E k \in DOMAIN branches[e] :
                /\ tree.branches[e][k] = ByNode(node_list[i + 1])
                /\ branches[e][k].by = "index"
    BY <2>1, <2>2, <2>4, ListedIsReplaced
  <2>6. PICK k \in DOMAIN branches[e] :
                /\ tree.branches[e][k] = ByNode(node_list[i + 1])
                /\ branches[e][k].by = "index"
    BY <2>5
  <2>7. PICK q \in 1 .. n : node_list[q] = e
    BY <2>1, <2>5, ListedIsFromRoot
  <2>8. PICK j \in 1 .. q - 1 : /\ j \in 1 .. n
                                /\ branches[e][k] = ByIndex(j - 1)
                                /\ tree.branches[e][k] = ByNode(node_list[j])
    BY <2>1, <2>6, <2>7, RowOfList
  <2>9. node_list[j] = node_list[i + 1]
    BY <2>6, <2>8 DEF ByNode
  <2>10. j = i + 1
    BY <2>1, <2>2, <2>8, <2>9, ListedOnce
  <2>11. branches[e][k] = ByIndex(i)
    <3>1. j - 1 = i
      BY <2>10
    <3>2. QED
      BY <2>8, <3>1
  <2>12. e \in L!Under[node_list[q]]
    BY <2>1, <2>7, UnderList
  <2>13. <<e, k>> \in L!ClaimsOf(i, n)
    BY <2>2, <2>6, <2>7, <2>11, <2>12, ClaimIs
  <2>14. QED
    BY <2>1, <2>13
<1>5. i < Len(node_list) - 1 => L!Claims(i, Len(node_list)) = 1
  BY <1>1, <1>2, <1>4
<1>6. QED
  BY <1>3, <1>5

\* Build accepts a list when the tree that was passed in is one to build.
LEMMA ListRepresents ==
  ASSUME SInv, outcome = "listed"
  PROVE  L!Representable <=> Buildable
<1>1. PICK n : n = Len(node_list)
  OBVIOUS
<1>2. /\ n \in Nat /\ n > 0 /\ n \in 1 .. n
      /\ \A p \in 1 .. n : node_list[p] \in Configs /\ index[node_list[p]] = p - 1
      /\ \A p \in 1 .. n : L!Under[node_list[p]] \subseteq Whole[tree.root]
      /\ \A c \in Whole[tree.root] : \E p \in 1 .. n : c \in L!Under[node_list[p]]
      /\ Whole[tree.root] \subseteq Configs /\ IsTree(tree)
  <2>1. n \in Nat /\ n > 0
    BY <1>1, ListedOnce, ListedIsFromRoot
  <2>2. IsTree(tree)
    BY DEF SInv, Typed
  <2>3. /\ \A p \in 1 .. n : node_list[p] \in Configs /\ index[node_list[p]] = p - 1
        /\ Whole[tree.root] \subseteq Configs
    BY <1>1, <2>2, ListedOnce, WholeFacts
  <2>4. Whole[tree.root] = UNION {L!Under[node_list[p]] : p \in 1 .. n}
    BY <1>1, UnderList
  <2>5. QED
    BY <2>1, <2>2, <2>3, <2>4
<1>3. \A p \in 1 .. n : L!Numbered(node_list[p])
  <2>1. NoIndex \notin Nat
    BY TreesAssumption
  <2>2. QED
    BY <1>2, <2>1 DEF L!Numbered, List
<1>4. ASSUME Buildable PROVE L!Representable
  <2>1. \A c \in Whole[tree.root] :
          /\ c \in tree.sound /\ (c \in tree.branching => branches[c] # <<>>)
          /\ \A k \in DOMAIN branches[c] :
               branches[c][k].by \in {"node", "index"}
    <3>1. ASSUME NEW c \in Whole[tree.root], NEW k \in DOMAIN branches[c]
          PROVE  branches[c][k].by \in {"node", "index"}
      <4>1. c \in Configs /\ k \in DOMAIN tree.branches[c]
        BY <1>2, <3>1, SameDomain
      <4>2. tree.branches[c][k].by = "node"
        BY <1>4, <3>1, <4>1 DEF Buildable, ToSet
      <4>3. branches[c][k] = tree.branches[c][k] \/ branches[c][k].by = "index"
        BY <3>1, <4>1 DEF SInv, Rewritten
      <4>4. QED
        BY <4>2, <4>3
    <3>2. ASSUME NEW c \in Whole[tree.root], c \in tree.branching
          PROVE  branches[c] # <<>>
      <4>1. tree.branches[c] # <<>>
        BY <1>4, <3>2 DEF Buildable
      <4>2. /\ branches[c] \in Seq(Branches) /\ tree.branches[c] \in Seq(Branches)
            /\ DOMAIN branches[c] = DOMAIN tree.branches[c]
        BY <1>2, <3>2, SameDomain
      <4>3. QED
        BY <4>1, <4>2
    <3>3. QED
      BY <1>4, <3>1, <3>2 DEF Buildable
  <2>2. ASSUME NEW p \in 1 .. n, NEW e \in L!Under[node_list[p]],
               NEW u \in ToSet(tree.updates[e]), NEW d \in L!Under[u],
               NEW k \in DOMAIN branches[d]
        PROVE  branches[d][k].by # "index"
    <3>1. e \in Whole[tree.root] /\ e \in Configs
      BY <1>2, <2>2
    <3>2. d \in Configs /\ d \notin FromRoot
      BY <2>2, <3>1, UnderList
    <3>3. d \in Whole[tree.root]
      <4>1. Parts(tree, e) \subseteq Whole[tree.root]
        BY <1>2, <3>1, WholeFacts
      <4>2. u \in Whole[tree.root]
        BY <2>2, <4>1 DEF Parts
      <4>3. QED
        BY <2>2, <4>2, UnderList
    <3>4. branches[d][k] = tree.branches[d][k] /\ k \in DOMAIN tree.branches[d]
      BY <2>2, <3>2, UnlistedIsGiven
    <3>5. tree.branches[d][k].by = "node"
      BY <1>4, <3>3, <3>4 DEF Buildable, ToSet
    <3>6. QED
      BY <3>4, <3>5
  <2>3. PlainUpdates
    <3>1. \A p \in 1 .. n : node_list[p] \in L!Under[node_list[p]]
      BY <1>1, UnderList
    <3>2. QED
      BY <1>1, <2>2, <3>1 DEF PlainUpdates
  <2>4. \A p \in 1 .. n : \A c \in L!Under[node_list[p]] : L!Complete(c)
    <3>1. SUFFICES ASSUME NEW p \in 1 .. n, NEW c \in L!Under[node_list[p]]
                   PROVE  L!Complete(c)
      OBVIOUS
    <3>2. c \in Whole[tree.root]
      BY <1>2
    <3>3. Childless \notin ToSet(branches[c])
      BY <2>1, <3>2, BranchFacts DEF ToSet
    <3>4. \A u \in ToSet(tree.updates[c]) : \A d \in L!Under[u] :
            \A b \in ToSet(branches[d]) : b.by # "index"
      BY <2>2 DEF ToSet
    <3>5. QED
      BY <2>1, <3>2, <3>3, <3>4, SameTerms DEF L!Complete, List
  <2>5. \A p \in 1 .. n : L!InOrder(p)
    <3>1. SUFFICES ASSUME NEW p \in 1 .. n, NEW i \in Nat
                   PROVE  /\ L!Claims(i, p) <= L!Definitions(i, p - 1)
                          /\ L!Definitions(i, p) - L!Claims(i, p) <= 1
      BY DEF L!InOrder, List
    <3>2. p \in 0 .. n /\ p - 1 \in 0 .. n
      BY <1>2
    <3>3. /\ L!Claims(i, p) \in Nat
          /\ L!Claims(i, p) <= IF i < p - 1 THEN 1 ELSE 0
      BY <1>1, <2>3, <3>2, ClaimsOfList
    <3>4. /\ L!Definitions(i, p - 1) = IF i < p - 1 THEN 1 ELSE 0
          /\ L!Definitions(i, p) = IF i < p THEN 1 ELSE 0
      BY <1>1, <3>2, DefinitionsOfList
    <3>5. QED
      BY <3>3, <3>4
  <2>6. ASSUME NEW i \in Nat
        PROVE  L!Definitions(i, n) - L!Claims(i, n) =
                 IF L!Numbered(node_list[n]) /\ index[node_list[n]] = i THEN 1 ELSE 0
    <3>1. n \in 0 .. n
      BY <1>2
    <3>2. L!Definitions(i, n) = IF i < n THEN 1 ELSE 0
      BY <1>1, <3>1, DefinitionsOfList
    <3>3. /\ L!Claims(i, n) \in Nat /\ L!Claims(i, n) <= IF i < n - 1 THEN 1 ELSE 0
          /\ i < n - 1 => L!Claims(i, n) = 1
      BY <1>1, <2>3, <3>1, ClaimsOfList
    <3>4. L!Numbered(node_list[n]) /\ index[node_list[n]] = n - 1
      BY <1>2, <1>3
    <3>5. QED
      BY <1>2, <3>2, <3>3, <3>4
  <2>7. QED
    BY <1>1, <1>2, <1>3, <2>4, <2>5, <2>6 DEF L!Representable, List
<1>5. ASSUME L!Representable PROVE Buildable
  <2>1. \A p \in 1 .. n : \A c \in L!Under[node_list[p]] : L!Complete(c)
    BY <1>1, <1>5 DEF L!Representable, List
  <2>2. SUFFICES ASSUME NEW c \in Whole[tree.root]
                 PROVE  /\ c \in tree.sound
                        /\ c \in tree.branching => tree.branches[c] # <<>>
                        /\ \A k \in DOMAIN tree.branches[c] :
                             tree.branches[c][k].by = "node"
    BY DEF Buildable, ToSet
  <2>3. PICK p \in 1 .. n : c \in L!Under[node_list[p]]
    BY <1>2
  <2>4. /\ c \in tree.sound /\ (c \in tree.branching => branches[c] # <<>>)
        /\ Childless \notin ToSet(branches[c])
    BY <2>1, <2>3, SameTerms DEF L!Complete, List
  <2>5. /\ c \in Configs /\ DOMAIN branches[c] = DOMAIN tree.branches[c]
        /\ branches[c] \in Seq(Branches) /\ tree.branches[c] \in Seq(Branches)
    BY <1>2, <2>2, SameDomain
  <2>6. c \in tree.branching => tree.branches[c] # <<>>
    BY <2>4, <2>5
  <2>7. ASSUME NEW k \in DOMAIN tree.branches[c]
        PROVE  tree.branches[c][k].by = "node"
    <3>1. CASE c = node_list[p]
      <4>1. \E j \in 1 .. p - 1 : tree.branches[c][k] = ByNode(node_list[j])
        BY <1>1, <2>5, <2>7, <3>1, RowOfList
      <4>2. QED
        BY <4>1, BranchFacts
    <3>2. CASE c # node_list[p]
      <4>1. PICK u \in ToSet(tree.updates[node_list[p]]) : c \in L!Under[u]
        BY <1>1, <2>3, <3>2, UnderList
      <4>2. c \notin FromRoot
        BY <1>2, <4>1, UnderList
      <4>3. branches[c] = tree.branches[c]
        BY <2>5, <4>2, UnlistedIsGiven
      <4>4. node_list[p] \in L!Under[node_list[p]]
        BY <1>1, UnderList
      <4>5. \A b \in ToSet(branches[c]) : b.by # "index"
        BY <2>1, <4>1, <4>4, SameTerms DEF L!Complete, List
      <4>6. branches[c][k] \in ToSet(branches[c]) /\ branches[c][k] \in Branches
        BY <2>5, <2>7 DEF ToSet
      <4>7. branches[c][k].by \notin {"index", "nothing"}
        BY <2>4, <4>5, <4>6, BranchFacts
      <4>8. QED
        BY <4>3, <4>6, <4>7, BranchFacts
    <3>3. QED
      BY <3>1, <3>2
  <2>8. QED
    BY <2>4, <2>6, <2>7
<1>6. QED
  BY <1>4, <1>5

\* A tree that is built has each child that was passed in where it was.
LEMMA ChildIsGiven ==
  ASSUME SInv, outcome = "listed", Buildable, NEW c \in Whole[tree.root],
         NEW k \in DOMAIN branches[c], NEW d \in Configs, L!Suits(branches[c][k], d)
  PROVE  tree.branches[c][k] = ByNode(d)
<1>1. /\ IsTree(tree) /\ c \in Configs /\ k \in DOMAIN tree.branches[c]
      /\ branches[c][k] \in Branches /\ Len(node_list) \in Nat
  <2>1. IsTree(tree)
    BY DEF SInv, Typed
  <2>2. c \in Configs
    BY <2>1, WholeFacts
  <2>3. QED
    BY <2>1, <2>2, SameDomain, ListedOnce
<1>2. CASE branches[c][k].by = "node"
  <2>1. d = branches[c][k].node
    BY <1>2 DEF L!Suits
  <2>2. QED
    BY <1>1, <1>2, <2>1, ByNodeIsGiven
<1>3. CASE branches[c][k].by = "index"
  <2>1. index[d] = branches[c][k].index /\ index[d] \in Nat
    BY <1>1, <1>3, BranchFacts DEF L!Suits, List
  <2>2. c \in FromRoot
    <3>1. tree.branches[c][k].by = "node"
      BY <1>1 DEF Buildable, ToSet
    <3>2. branches[c][k] # tree.branches[c][k]
      BY <1>3, <3>1
    <3>3. QED
      BY <1>1, <3>2 DEF SInv, Rewritten
  <2>3. PICK p \in 1 .. Len(node_list) : node_list[p] = c
    BY <2>2, ListedIsFromRoot
  <2>4. PICK j \in 1 .. p - 1 : /\ j \in 1 .. Len(node_list)
                                /\ branches[c][k] = ByIndex(j - 1)
                                /\ tree.branches[c][k] = ByNode(node_list[j])
    BY <2>3, RowOfList
  <2>5. index[d] = j - 1
    BY <2>1, <2>4 DEF ByIndex
  <2>6. NoIndex \notin Nat
    BY TreesAssumption
  <2>7. d \in FromRoot
    BY <2>1, <2>6 DEF SInv, Numbered
  <2>8. PICK q \in 1 .. Len(node_list) : node_list[q] = d
    BY <2>7, ListedIsFromRoot
  <2>9. q = j
    <3>1. index[d] = q - 1
      BY <2>8, ListedOnce
    <3>2. QED
      BY <1>1, <2>4, <2>5, <2>8, <3>1
  <2>10. QED
    BY <2>4, <2>8, <2>9
<1>4. QED
  BY <1>2, <1>3 DEF L!Suits

LEMMA TreeIsTheSame == RTInv => SameTree
<1>1. SUFFICES ASSUME RTInv, status # "building"
               PROVE  SameTree
  BY DEF SameTree
<1>2. /\ outcome = "listed" /\ SInv /\ L!AcceptInv /\ L!ModelsAssumption
      /\ L!BuildInv /\ L!AcceptsTrees /\ IsTree(tree)
  BY <1>1, ListsAssumption DEF RTInv, LoaderIdle, L!AcceptInv, SInv, Typed
<1>3. L!Representable <=> Buildable
  BY <1>2, ListRepresents
<1>4. status = "error" => ~ Buildable
  BY <1>2, <1>3 DEF L!AcceptsTrees
<1>5. ASSUME status = "ok"
      PROVE  /\ Buildable
             /\ root = tree.root
             /\ DOMAIN child_nodes = Whole[root] \cap tree.branching
             /\ \A c \in DOMAIN child_nodes :
                  /\ tree.branches[c] =
                       [k \in DOMAIN child_nodes[c] |-> ByNode(child_nodes[c][k])]
                  /\ updaters[c] = tree.updates[c]
  <2>1. Buildable
    BY <1>2, <1>3, <1>5 DEF L!AcceptsTrees
  <2>2. /\ root = L!Last(List.nodes)
        /\ L!Reached[root] = UNION {L!Under[c] : c \in L!ToSet(List.nodes)}
        /\ updaters = [c \in DOMAIN child_nodes |-> List.updates[c]]
    BY <1>2, <1>5, L!TreeOfBuild DEF L!TreeIsTheModel
  <2>3. root = tree.root
    BY <1>2, <2>2, SameTerms DEF List, SInv
  <2>4. L!Reached[root] = Whole[root]
    <3>1. DOMAIN node_list = 1 .. Len(node_list)
      BY <1>2, ListedOnce
    <3>2. L!Reached[root] = UNION {L!Under[c] : c \in ToSet(node_list)}
      BY <2>2, SameTerms DEF List
    <3>3. L!Reached[root] = UNION {L!Under[node_list[p]] : p \in 1 .. Len(node_list)}
      BY <3>1, <3>2 DEF ToSet
    <3>4. QED
      BY <1>2, <2>3, <3>3, UnderList
  <2>5. DOMAIN child_nodes = L!Reached[root] \cap List.branching
    BY <1>2, <1>5, L!BuiltBranches
  <2>6. DOMAIN child_nodes = Whole[root] \cap tree.branching
    BY <2>4, <2>5 DEF List
  <2>7. ASSUME NEW c \in DOMAIN child_nodes
        PROVE  /\ tree.branches[c] =
                    [k \in DOMAIN child_nodes[c] |-> ByNode(child_nodes[c][k])]
               /\ updaters[c] = tree.updates[c]
    <3>1. /\ child_nodes[c] \in Seq(Configs)
          /\ Len(child_nodes[c]) = Len(branches[c])
          /\ \A k \in DOMAIN child_nodes[c] : L!Suits(branches[c][k], child_nodes[c][k])
      <4>1. L!Fits
        BY <1>2, <1>5 DEF L!BuildInv
      <4>2. QED
        BY <2>7, <4>1 DEF L!Fits, L!BuiltFits, List
    <3>2. c \in Whole[tree.root] /\ c \in Configs
      BY <1>2, <2>3, <2>6, <2>7, WholeFacts
    <3>3. /\ DOMAIN child_nodes[c] = DOMAIN branches[c]
          /\ DOMAIN branches[c] = DOMAIN tree.branches[c]
          /\ tree.branches[c] \in Seq(Branches)
          /\ \A k \in DOMAIN child_nodes[c] : child_nodes[c][k] \in Configs
      BY <1>2, <3>1, <3>2, SameDomain, Elements
    <3>4. \A k \in DOMAIN child_nodes[c] :
            tree.branches[c][k] = ByNode(child_nodes[c][k])
      BY <1>2, <2>1, <3>1, <3>2, <3>3, ChildIsGiven
    <3>5. tree.branches[c] = [k \in DOMAIN tree.branches[c] |-> tree.branches[c][k]]
      BY <3>3
    <3>6. updaters[c] = tree.updates[c]
      BY <2>2, <2>7 DEF List
    <3>7. QED
      BY <3>3, <3>4, <3>5, <3>6
  <2>8. QED
    BY <2>1, <2>3, <2>6, <2>7
<1>6. QED
  BY <1>4, <1>5 DEF SameTree
-----------------------------------------------------------------------------
\* For all messages, and any number of calls with them, refused or not, and
\* with any repair in between: a list that the serializer returns has every
\* message of the tree, once.
THEOREM EveryMessageIsListed == RoundTripSpec => []NothingLost
<1>1. RoundTripInit => RTInv
  BY RTInvInit
<1>2. RTInv /\ [Serialize \/ Load \/ CallAgain]_<<serializerVars, loaderVars, calls_again>>
        => RTInv'
  BY RTInvStep
<1>3. RTInv => NothingLost
  BY NothingIsLost DEF RTInv
<1>4. QED
  BY <1>1, <1>2, <1>3, PTL DEF RoundTripSpec

\* And the labeler builds from that list the tree that was passed in, branch
\* for branch, or reports an error if that tree cannot be built.
THEOREM RoundTripKeepsTheTree == RoundTripSpec => []SameTree
<1>1. RoundTripInit => RTInv
  BY RTInvInit
<1>2. RTInv /\ [Serialize \/ Load \/ CallAgain]_<<serializerVars, loaderVars, calls_again>>
        => RTInv'
  BY RTInvStep
<1>3. RTInv => SameTree
  BY TreeIsTheSame
<1>4. QED
  BY <1>1, <1>2, <1>3, PTL DEF RoundTripSpec
=============================================================================
