------------------------ MODULE MCAttributeUpdaters ------------------------
(* Events with a string and two numbers; probabilities count in tenths, and *)
(* hashes are small, so that quotients tie.                                 *)
EXTENDS AttributeUpdaters

AllTypes == [country |-> "string", key |-> "uint64", salt |-> "uint64"]
AllEvents == {e \in [{"country", "key", "salt"} -> {0, 1, Unset}] : e.salt # 0}
AllHashes == {h \in [0 .. 2 -> {1, 2, 5}] : 2 \in {h[0], h[2]} /\ h[1] # 2}
AllShreds == [x \in {0, 1} \X (1 .. 2) |-> (x[1] + x[2]) % 2]

Event(country, key, salt) == [country |-> country, key |-> key, salt |-> salt]
Only(country) == Event(country, Unset, Unset)
AllRows == <<Only(1), Event(Unset, 1, Unset), Event(0, 0, Unset)>>

UpdateMatrix(columns, mask, rows, probabilities, pass) ==
  [kind |-> "update_matrix", columns |-> columns, hash_field_mask |-> mask,
   rows |-> rows, probabilities |-> probabilities, pass_through |-> pass]
Column(attrs, rows, probabilities) ==
  [column_attrs |-> attrs, rows |-> rows, probabilities |-> probabilities]
SparseMatrix(columns, mask, pass) ==
  [kind |-> "sparse_update_matrix", columns |-> columns,
   hash_field_mask |-> mask, pass_through |-> pass]

TwoColumns ==
  {<<Only(0), Only(1)>>, <<Only(0), Event(0, 1, Unset)>>,
   <<Event(0, 1, Unset), Event(0, Unset, Unset)>>}
Masks == {Missing, {}, {"country"}, {"country", "key"}}

\* Matrices of two columns over two rows, and of one over three: with columns
\* that overlap, that the mask tells apart or not, and a changing distribution.
Matrices ==
  {UpdateMatrix(cs, m, SubSeq(AllRows, 1, 2), <<8, 3, 2, 7>>, p) :
     cs \in TwoColumns, m \in Masks, p \in BOOLEAN}
  \cup {UpdateMatrix(<<Only(0), Only(1), Event(Unset, 0, Unset)>>, Missing,
                     SubSeq(AllRows, 1, 2), <<5, 0, 3, 5, 10, 7>>, TRUE)}
  \cup {UpdateMatrix(<<Event(Unset, 1, Unset)>>, Missing, AllRows, ps, FALSE) :
          ps \in {<<5, 2, 3>>, <<1, 4, 5>>, <<0, 10, 0>>, <<4, 4, 3>>, <<0, 5, 5>>,
                  <<10, 1, -1>>, <<2, 3, 2>>, <<10>>}}
  \cup {UpdateMatrix(<<>>, Missing, AllRows, <<>>, TRUE),
        UpdateMatrix(<<Only(0)>>, Missing, <<>>, <<>>, TRUE)}

SparseMatrices ==
  {SparseMatrix(<<Column(Only(0), SubSeq(AllRows, 1, 1), <<10>>),
                  Column(a, SubSeq(AllRows, 2, 3), <<10 - k, k>>)>>, m, TRUE) :
     a \in {Missing, Only(1), Event(0, 1, Unset)}, m \in {Missing, {"country"}},
     k \in {0, 4}}
  \cup {SparseMatrix(<<Column(Only(0), SubSeq(AllRows, 1, 1), <<5, 5>>)>>,
                     Missing, FALSE),
        SparseMatrix(<<Column(Only(0), <<>>, <<>>)>>, Missing, FALSE),
        SparseMatrix(<<>>, Missing, FALSE)}

Merges ==
  {[kind |-> "conditional_merge", nodes |-> ns, pass_through |-> p] :
     ns \in {<<>>, <<[condition |-> Missing, update |-> Only(1)]>>,
             <<[condition |-> Only(0), update |-> Missing]>>,
             <<[condition |-> Only(0), update |-> Event(Unset, Unset, 1)],
               [condition |-> Event(Unset, 1, Unset), update |-> Only(0)]>>},
     p \in BOOLEAN}

Assignment(s, t) == [source_field |-> s, target_field |-> t]
Assignments ==
  {[kind |-> "conditional_assignment", condition |-> c, assignments |-> as] :
     c \in {Missing, Only(1)},
     as \in {<<>>, <<Assignment("key", "salt")>>,
             <<Assignment("key", "salt"), Assignment("salt", "key")>>,
             <<Assignment("key", "country")>>,
             <<Assignment(Missing, "key")>>, <<Assignment("key", Missing)>>}}

Shredders ==
  {[kind |-> "geometric_shredder", psi |-> psi, randomness_field |-> r,
    target_field |-> t] :
     psi \in -1 .. 3, r \in {"salt"}, t \in {"key", "country"}}

\* Two quantum labels, with one seed or two, whose labels overlap; and one that
\* is refused, before or behind another.
Quantum(seed, labels, probabilities) ==
  [seed |-> seed, labels |-> labels, probabilities |-> probabilities]
QuantumLabels ==
  LET Even == <<5, 0, 5>>
      First(ps) == Quantum(0, AllRows, ps)
      Second(seed) == Quantum(seed, <<Event(Unset, 0, 1), Only(1), Event(1, Unset, Unset)>>, Even)
      Bad == {Quantum(1, <<>>, <<>>), Quantum(1, AllRows, <<10>>),
              Quantum(1, AllRows, <<4, 1, 2>>)}
  IN  {[kind |-> "quantum_labels", quantum_labels |-> qs] :
         qs \in {<<>>} \cup {<<First(Even), Second(seed)>> : seed \in 0 .. 1}
                \cup {<<First(<<1, 8, 2>>), Second(1)>>}
                \cup {<<First(Even), q>> : q \in Bad} \cup {<<q, First(Even)>> : q \in Bad}}

AllConfigs ==
  Matrices \cup SparseMatrices \cup Merges \cup Assignments \cup Shredders
  \cup QuantumLabels
  \cup {[kind |-> "not_set"]}
=============================================================================
