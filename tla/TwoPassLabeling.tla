-------------------------- MODULE TwoPassLabeling --------------------------
(***************************************************************************)
(* Labeling in two passes.  Pass 1 labels every event in pool identity     *)
(* mode; a ranker outside of the library then counts, per pool, the pool   *)
(* assignments it was given, and pass 2 labels the events in full mode     *)
(* with their ranks.  Calls may be repeated, and come in any order that    *)
(* lets an event pass through the passes.                                  *)
(***************************************************************************)
EXTENDS Labeling

CONSTANTS
  InputOf         \* the fingerprint and fields of each event

ASSUME InputAssumption ==
  InputOf \in [Events -> [fp : Fingerprints \cup {NoEvent}, fields : Fields]]

VARIABLES
  announced,      \* the pool assignments of each event that pass 1 returned
  ranks,          \* the rank assignments the ranker has made for each event
  next_rank,      \* the next rank of each pool
  labeled         \* the people of each event that pass 2 returned

callerVars == <<announced, ranks, next_rank, labeled>>
vars == <<labelerVars, callerVars>>

\* No output yet.
None == <<NoEvent>>
Offsets ==
  {tree[n].pool_offset : n \in {m \in Nodes : tree[m].kind = "ranked"}}

Init ==
  /\ LabelerInit
  /\ announced = [e \in Events |-> None]
  /\ ranks = [e \in Events |-> <<>>]
  /\ next_rank = [o \in Offsets |-> 0]
  /\ labeled = [e \in Events |-> None]

Request(e, r) ==
  [event |-> e, fp |-> InputOf[e].fp, fields |-> InputOf[e].fields, ranks |-> r]

\* An announced event is ranked once all of its pool assignments are.
AllRanked(e) == announced[e] # None /\ Len(ranks[e]) = Len(announced[e])

Pass1 ==
  /\ \E e \in Events : Label(Request(e, <<>>), "pool_identity")
  /\ UNCHANGED callerVars

Pass2 ==
  /\ \E e \in Events : AllRanked(e) /\ Label(Request(e, ranks[e]), "full")
  /\ UNCHANGED callerVars

Answer ==
  /\ Apply
  /\ IF outcome' = "ok" /\ mode = "full"
     THEN /\ labeled' = [labeled EXCEPT ![input.event] = output'.people]
          /\ UNCHANGED announced
     ELSE IF outcome' = "ok"
     THEN /\ announced' = [announced EXCEPT ![input.event] = output'.pools]
          /\ UNCHANGED labeled
     ELSE UNCHANGED <<announced, labeled>>
  /\ UNCHANGED <<ranks, next_rank>>

\* The ranker gives the next rank of a pool to an event that has announced it.
Rank ==
  \E e \in Events :
    /\ announced[e] # None /\ Len(ranks[e]) < Len(announced[e])
    /\ LET o == announced[e][Len(ranks[e]) + 1].pool_offset
       IN  /\ ranks' = [ranks EXCEPT ![e] =
                 Append(@, [pool_offset |-> o, local_rank |-> next_rank[o]])]
           /\ next_rank' = [next_rank EXCEPT ![o] = @ + 1]
    /\ UNCHANGED <<labelerVars, announced, labeled>>

Next == Pass1 \/ Pass2 \/ Answer \/ Rank

Spec == Init /\ [][Next]_vars
-----------------------------------------------------------------------------
\* Leaves of one pool rank it alike.
OnePermutationPerPool ==
  \A m, n \in Nodes :
    /\ tree[m].kind = "ranked" /\ tree[n].kind = "ranked"
    /\ tree[m].pool_offset = tree[n].pool_offset
    => tree[m].permute = tree[n].permute

PoolOf(p) == tree[p.leaf].pool_offset
RankedPeople(e) ==
  IF labeled[e] = None THEN {}
  ELSE {labeled[e][k] : k \in {j \in DOMAIN labeled[e] : labeled[e][j].ranked}}

\* ranked_population_node_impl.h: ranked is collision-free.  People that two
\* events were given from ranks of one pool have different virtual person ids.
RankedApart ==
  OnePermutationPerPool =>
    \A e1, e2 \in Events :
      e1 # e2 => \A p \in RankedPeople(e1), q \in RankedPeople(e2) :
                   PoolOf(p) = PoolOf(q) => p.vid # q.vid

\* ranked_population_node_impl.cc: the ranked path is a "Feistel bijection -
\* zero collisions".  No two people of a pool that were given from ranks, of
\* one event or of several, have the same virtual person id.
ZeroCollisions ==
  OnePermutationPerPool =>
    \A e1, e2 \in Events :
      labeled[e1] # None /\ labeled[e2] # None =>
        \A j \in DOMAIN labeled[e1], k \in DOMAIN labeled[e2] :
          LET p == labeled[e1][j]
              q == labeled[e2][k]
          IN  <<e1, j>> # <<e2, k>> /\ p.ranked /\ q.ranked /\ PoolOf(p) = PoolOf(q)
                => p.vid # q.vid

\* "Splits VID assignment into ranked and unranked sub-ranges": where a pool is
\* split by DISJOINT, nobody without a rank has the virtual person id of
\* somebody with a rank.
SplitsPool(n) ==
  /\ tree[n].kind = "ranked" /\ tree[n].unranked_mode = "DISJOINT"
  /\ \A m \in Nodes :
       tree[m].kind = "ranked" /\ tree[m].pool_offset = tree[n].pool_offset
         => tree[m].ranked_size <= tree[n].ranked_size

DisjointApart ==
  \A e1, e2 \in Events :
    labeled[e1] # None =>
      \A k \in DOMAIN labeled[e1] :
        LET p == labeled[e1][k]
        IN  ~ p.ranked /\ SplitsPool(p.leaf) =>
              \A q \in RankedPeople(e2) : PoolOf(p) = PoolOf(q) => p.vid # q.vid

\* The pools of the people of ranked leaves, in model t.
PoolsOfPeople(t, people) ==
  LET upTo[k \in 0 .. Len(people)] ==
        IF k = 0 THEN <<>>
        ELSE IF t[people[k].leaf].kind = "ranked"
        THEN Append(upTo[k - 1], PoolAssignmentOf(t[people[k].leaf]))
        ELSE upTo[k - 1]
  IN  upTo[Len(people)]

\* Pass 2 takes the event where pass 1 took it: the people of ranked leaves are
\* in the pools that were announced, in that order.
PassesAgree ==
  \A e \in Events :
    labeled[e] # None => PoolsOfPeople(tree, labeled[e]) = announced[e]

\* The error for rank assignments of which none matches is for callers that
\* misuse them: a caller that follows the protocol never meets it.
RanksSuffice == outcome # "no rank"

\* A repeated call has the same answer: a pass that is retried changes nothing.
Repeatable ==
  [][\A e \in Events :
       /\ announced[e] # None => announced'[e] = announced[e]
       /\ labeled[e] # None => labeled'[e] = labeled[e]]_vars
=============================================================================
