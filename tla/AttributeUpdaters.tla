------------------------- MODULE AttributeUpdaters -------------------------
(***************************************************************************)
(* The attributes updaters of a branch node: update matrices, dense and    *)
(* sparse, conditional merges and assignments, and the geometric shredder. *)
(* A message is refused or built, and the updater built from it is called  *)
(* on events.  Indexes start at 0, as in the code.                         *)
(*                                                                         *)
(* The label that a leaf writes is made with the same hashing and merging, *)
(* and is modelled with them: of the quantum labels of the event (config)  *)
(* and its classic label (before).                                         *)
(*                                                                         *)
(* Probabilities are whole parts of One.  Dividing them by their sum does  *)
(* not change which quotient is smaller, and is left out.                  *)
(***************************************************************************)
EXTENDS Integers, Sequences

CONSTANTS
  Values, Unset,          \* of the fields of an event
  Types,                  \* the type of each field of a LabelerEvent
  One, Tolerance,         \* a probability of 1, and kNormalizeError
  MaxRows,                \* no matrix has more rows
  Hashes,                 \* what ExpHash may yield for the seeds of a call
  Shred,                  \* Fingerprint64 of the value and the shred hash
  Configs, Events,        \* messages of updaters, and events
  Missing                 \* a field of a message that is not set

Fields == DOMAIN Types
LabelerEvent == [Fields -> Values \cup {Unset}]
kNoMatchingIndex == -1

\* A hash is positive and finite: no fingerprint is 0.
ASSUME UpdatersAssumption ==
  /\ One \in Nat \ {0} /\ Tolerance \in 0 .. One - 1 /\ MaxRows \in Nat \ {0}
  /\ Hashes \subseteq [0 .. MaxRows - 1 -> Nat \ {0}]
  /\ Values \subseteq Nat /\ Unset \notin Values
  /\ Missing \notin LabelerEvent /\ "error" \notin Fields
  /\ Events \subseteq LabelerEvent

\* The hashes that shred: none is 0.
ShredHashes == (Values \cup {h[0] \div 2 : h \in Hashes}) \ {0}
ASSUME ShredAssumption == Shred \in [Values \X ShredHashes -> Values]

\* The messages, of each kind of updater.
Optional(set) == set \cup {Missing}
Rows == {rows \in Seq(LabelerEvent) : Len(rows) <= MaxRows}
UpdateMatrixMessage ==
  [kind : {"update_matrix"}, columns : Seq(LabelerEvent),
   hash_field_mask : Optional(SUBSET Fields), rows : Rows,
   probabilities : Seq(Int), pass_through : BOOLEAN]
SparseColumn ==
  [column_attrs : Optional(LabelerEvent), rows : Rows, probabilities : Seq(Int)]
SparseUpdateMatrixMessage ==
  [kind : {"sparse_update_matrix"}, columns : Seq(SparseColumn),
   hash_field_mask : Optional(SUBSET Fields), pass_through : BOOLEAN]
ConditionalMergeNode ==
  [condition : Optional(LabelerEvent), update : Optional(LabelerEvent)]
ConditionalMergeMessage ==
  [kind : {"conditional_merge"}, nodes : Seq(ConditionalMergeNode),
   pass_through : BOOLEAN]
FieldAssignment ==
  [source_field : Optional(Fields), target_field : Optional(Fields)]
ConditionalAssignmentMessage ==
  [kind : {"conditional_assignment"}, condition : Optional(LabelerEvent),
   assignments : Seq(FieldAssignment)]
GeometricShredderMessage ==
  [kind : {"geometric_shredder"}, psi : Int,
   randomness_field : Optional(Fields), target_field : Optional(Fields)]
QuantumLabel == [seed : Nat, labels : Rows, probabilities : Seq(Int)]
QuantumLabelsMessage ==
  [kind : {"quantum_labels"}, quantum_labels : Seq(QuantumLabel)]

ASSUME ConfigsAssumption ==
  Configs \subseteq
    UpdateMatrixMessage \cup SparseUpdateMatrixMessage
    \cup ConditionalMergeMessage \cup ConditionalAssignmentMessage
    \cup GeometricShredderMessage \cup QuantumLabelsMessage
    \cup [kind : {"not_set"}]

VARIABLES
  config,       \* the message of the updater, in the model in use
  updater,      \* what Build has made of it
  before,       \* the event that the last call was given
  hash,         \* the hashes of that call
  after         \* the event it has left, or the error it has returned

vars == <<config, updater, before, hash, after>>

Refused == [kind |-> "refused"]
Failed == [error |-> "invalid argument"]
Internal == [error |-> "internal"]
NoEvent == [error |-> "no call"]

---------------------------------------------------------------------------
(* Matching and merging.                                                   *)

\* Message::MergeFrom: a field that is set overwrites.
MergeFrom(e, update) ==
  [f \in Fields |-> IF update[f] # Unset THEN update[f] ELSE e[f]]

\* FieldFilter: the fields that are set have to be equal.
IsMatch(filter, e) == \A f \in Fields : filter[f] # Unset => e[f] = filter[f]

Masked(e, mask) == [f \in Fields |-> IF f \in mask THEN e[f] ELSE Unset]

\* Fault: the last filter that matches.
GetLastMatch(filters, e) ==
  LET matching == {k \in DOMAIN filters : IsMatch(filters[k], e)}
  IN  IF matching = {} THEN kNoMatchingIndex
      ELSE (CHOOSE k \in matching : \A l \in matching : l <= k) - 1

HasFilters(filters) ==
  filters # <<>> /\ \A k \in DOMAIN filters : filters[k] # Missing

GetFirstMatch(filters, e) ==
  LET matching == {k \in DOMAIN filters : IsMatch(filters[k], e)}
  IN  IF matching = {} THEN kNoMatchingIndex
      ELSE (CHOOSE k \in matching : \A l \in matching : k <= l) - 1

\* HashFieldMaskMatcher::Build; fingerprints of different events differ.
HasMatcher(events, mask) ==
  /\ events # <<>> /\ mask # {}
  /\ \A j, k \in DOMAIN events :
       j # k => Masked(events[j], mask) # Masked(events[k], mask)

GetMatch(events, mask, e) ==
  LET matching == {k \in DOMAIN events :
                     Masked(events[k], mask) = Masked(e, mask)}
  IN  IF matching = {} THEN kNoMatchingIndex
      ELSE (CHOOSE k \in matching : TRUE) - 1

---------------------------------------------------------------------------
(* Consistent hashing over a distribution.                                 *)

ProbabilitiesSum(ps) ==
  LET sum[k \in 0 .. Len(ps)] == IF k = 0 THEN 0 ELSE sum[k - 1] + ps[k]
  IN  sum[Len(ps)]

IsDistribution(ps) ==
  /\ ps # <<>>
  /\ \A k \in DOMAIN ps : ps[k] >= 0
  /\ ProbabilitiesSum(ps) \in One - Tolerance .. One + Tolerance

\* Fault: the walk along the probabilities that consistent hashing replaces.
Cumulative(ps, h) ==
  LET reached == {k \in DOMAIN ps :
                    h[0] % One < ProbabilitiesSum(SubSeq(ps, 1, k))}
  IN  IF reached = {} THEN Len(ps) - 1
      ELSE (CHOOSE k \in reached : \A l \in reached : k <= l) - 1

\* The first choice with the smallest hash divided by probability.  With a
\* probability of 0 the quotient is infinite, and never chosen.
Hash(ps, h) ==
  LET Smaller(k, b) == /\ ps[k] > 0
                       /\ b # 0 => h[k - 1] * ps[b] < h[b - 1] * ps[k]
      best[k \in 0 .. Len(ps)] ==
        IF k = 0 THEN 0
        ELSE IF Smaller(k, best[k - 1]) THEN k ELSE best[k - 1]
  IN  IF best[Len(ps)] = 0 THEN 0 ELSE best[Len(ps)] - 1

---------------------------------------------------------------------------
(* Matrices.                                                               *)

\* The columns can be matched, by the hash of the masked fields or by filters.
HasColumnMatcher(columns, mask) ==
  IF mask = Missing THEN HasFilters(columns) ELSE HasMatcher(columns, mask)

\* Build has set exactly one of the two matchers.
ColumnOf(u, e) ==
  IF u.hash_field_mask # Missing THEN GetMatch(u.columns, u.hash_field_mask, e)
  ELSE GetFirstMatch(u.columns, e)

MatrixIndexes(column, row) == [column |-> column, row |-> row]

SelectFromMatrix(u, e, h) ==
  LET column == ColumnOf(u, e)
  IN  IF column = kNoMatchingIndex
      THEN MatrixIndexes(kNoMatchingIndex, kNoMatchingIndex)
      ELSE IF column + 1 \notin DOMAIN u.row_hashings THEN Internal
      ELSE MatrixIndexes(column, Hash(u.row_hashings[column + 1], h))

\* Fault: the rows and columns of the probabilities are taken for each other.
TransposedDistribution(c, column) ==
  [r \in DOMAIN c.rows |->
     c.probabilities[(column - 1) * Len(c.rows) + r]]

\* The probabilities of a column, from those of all cells row by row.
ColumnDistribution(c, column) ==
  [r \in DOMAIN c.rows |->
     c.probabilities[(r - 1) * Len(c.columns) + column]]

BuildUpdateMatrix(c) ==
  IF /\ c.rows # <<>> /\ c.columns # <<>>
     /\ Len(c.rows) * Len(c.columns) = Len(c.probabilities)
     /\ HasColumnMatcher(c.columns, c.hash_field_mask)
     /\ \A k \in DOMAIN c.columns : IsDistribution(ColumnDistribution(c, k))
  THEN [kind |-> "update_matrix",
        columns |-> c.columns, hash_field_mask |-> c.hash_field_mask,
        row_hashings |-> [k \in DOMAIN c.columns |-> ColumnDistribution(c, k)],
        rows |-> c.rows, pass_through |-> c.pass_through]
  ELSE Refused

\* Fault: rows and probabilities need not be aligned.
UnalignedColumn(column) ==
  column.column_attrs # Missing /\ column.rows # <<>>

IsColumn(column) ==
  /\ column.column_attrs # Missing
  /\ column.rows # <<>>
  /\ Len(column.rows) = Len(column.probabilities)

SparseColumns(c) == [k \in DOMAIN c.columns |-> c.columns[k].column_attrs]

BuildSparseUpdateMatrix(c) ==
  IF /\ c.columns # <<>>
     /\ \A k \in DOMAIN c.columns : IsColumn(c.columns[k])
     /\ HasColumnMatcher(SparseColumns(c), c.hash_field_mask)
     /\ \A k \in DOMAIN c.columns : IsDistribution(c.columns[k].probabilities)
  THEN [kind |-> "sparse_update_matrix",
        columns |-> SparseColumns(c), hash_field_mask |-> c.hash_field_mask,
        row_hashings |-> [k \in DOMAIN c.columns |-> c.columns[k].probabilities],
        rows |-> [k \in DOMAIN c.columns |-> c.columns[k].rows],
        pass_through |-> c.pass_through]
  ELSE Refused

NoMatch(u, e) == IF u.pass_through THEN e ELSE Failed

MergeRow(rows, row, e) ==
  IF row \in 0 .. Len(rows) - 1 THEN MergeFrom(e, rows[row + 1]) ELSE Internal

UpdateByMatrix(u, e, h) ==
  LET indexes == SelectFromMatrix(u, e, h)
  IN  IF indexes = Internal THEN Internal
      ELSE IF indexes.column = kNoMatchingIndex THEN NoMatch(u, e)
      ELSE MergeRow(u.rows, indexes.row, e)

UpdateBySparseMatrix(u, e, h) ==
  LET indexes == SelectFromMatrix(u, e, h)
  IN  IF indexes = Internal THEN Internal
      ELSE IF indexes.column = kNoMatchingIndex THEN NoMatch(u, e)
      ELSE IF indexes.column + 1 \notin DOMAIN u.rows THEN Internal
      ELSE MergeRow(u.rows[indexes.column + 1], indexes.row, e)

---------------------------------------------------------------------------
(* Conditional updates and the shredder.                                   *)

BuildConditionalMerge(c) ==
  LET filters == [k \in DOMAIN c.nodes |-> c.nodes[k].condition]
  IN
  IF HasFilters(filters) /\ \A k \in DOMAIN c.nodes : c.nodes[k].update # Missing
  THEN [kind |-> "conditional_merge", filters |-> filters,
        updates |-> [k \in DOMAIN c.nodes |-> c.nodes[k].update],
        pass_through |-> c.pass_through]
  ELSE Refused

UpdateByMerge(u, e) ==
  LET index == GetFirstMatch(u.filters, e)
  IN  IF index = kNoMatchingIndex THEN NoMatch(u, e)
      ELSE MergeRow(u.updates, index, e)

\* Floating point fields and messages cannot be assigned.
BuildConditionalAssignment(c) ==
  IF /\ c.condition # Missing
     /\ c.assignments # <<>>
     /\ \A k \in DOMAIN c.assignments :
          LET source == c.assignments[k].source_field
              target == c.assignments[k].target_field
          IN  /\ source \in Fields /\ target \in Fields
              /\ Types[source] = Types[target]
              /\ Types[source] \in {"uint64", "string"}
  THEN [kind |-> "conditional_assignment",
        condition |-> c.condition, assignments |-> c.assignments]
  ELSE Refused

\* Fault: a source that is not set clears the target.
AssignUnset(e, a) == [e EXCEPT ![a.target_field] = e[a.source_field]]

Assign(e, a) ==
  IF e[a.source_field] = Unset THEN e
  ELSE [e EXCEPT ![a.target_field] = e[a.source_field]]

\* One assignment after the other: each sees those before it.
UpdateByAssignment(u, e) ==
  LET assigned[k \in 0 .. Len(u.assignments)] ==
        IF k = 0 THEN e ELSE Assign(assigned[k - 1], u.assignments[k])
  IN  IF IsMatch(u.condition, e) THEN assigned[Len(u.assignments)] ELSE e

\* psi counts in halves.
BuildGeometricShredder(c) ==
  IF /\ c.psi \in 0 .. 2
     /\ c.randomness_field \in Fields /\ Types[c.randomness_field] = "uint64"
     /\ c.target_field \in Fields /\ Types[c.target_field] = "uint64"
  THEN [kind |-> "geometric_shredder", psi |-> c.psi,
        randomness_field |-> c.randomness_field,
        target_field |-> c.target_field]
  ELSE Refused

\* For a psi between, the first hash is that of the randomness value divided
\* by -log(psi), in halves and not yet floored.
ShredHash(u, e, h) ==
  IF u.psi = 0 THEN 0
  ELSE IF e[u.randomness_field] = Unset THEN Unset
  ELSE IF u.psi = 2 THEN e[u.randomness_field]
  ELSE h[0] \div 2

UpdateByShredder(u, e, h) ==
  LET shred_hash == ShredHash(u, e, h)
  IN  IF shred_hash = Unset THEN Failed
      ELSE IF shred_hash = 0 THEN e
      ELSE IF e[u.target_field] = Unset THEN Failed
      ELSE [e EXCEPT ![u.target_field] =
                       Shred[e[u.target_field], shred_hash]]

---------------------------------------------------------------------------
(* The label of a person.                                                  *)

\* What ExpHash yields for a seed, of those for all seeds.
SeedHash(seed, h) == [choice \in 0 .. MaxRows - 1 |-> h[(choice + seed) % MaxRows]]

CollapseQuantumLabel(q, label, h) ==
  IF /\ label # Failed
     /\ q.labels # <<>> /\ Len(q.labels) = Len(q.probabilities)
     /\ IsDistribution(q.probabilities)
  THEN MergeFrom(label, q.labels[Hash(q.probabilities, SeedHash(q.seed, h)) + 1])
  ELSE Failed

NoLabel == [f \in Fields |-> Unset]

\* Quantum labels are merged in their order.
Collapsed(quantum_labels, label, h) ==
  LET merged[k \in 0 .. Len(quantum_labels)] ==
        IF k = 0 THEN label
        ELSE CollapseQuantumLabel(quantum_labels[k], merged[k - 1], h)
  IN  merged[Len(quantum_labels)]

\* Fault: the classic label is merged first.
ClassicFirst(quantum_labels, classic, h) == Collapsed(quantum_labels, classic, h)

\* The classic label is merged on top.
WriteLabel(quantum_labels, classic, h) ==
  LET label == Collapsed(quantum_labels, NoLabel, h)
  IN  IF label = Failed THEN Failed ELSE MergeFrom(label, classic)

---------------------------------------------------------------------------

\* AttributesUpdaterInterface::Build.
Built(c) ==
  CASE c.kind = "update_matrix" -> BuildUpdateMatrix(c)
    [] c.kind = "sparse_update_matrix" -> BuildSparseUpdateMatrix(c)
    [] c.kind = "conditional_merge" -> BuildConditionalMerge(c)
    [] c.kind = "conditional_assignment" -> BuildConditionalAssignment(c)
    [] c.kind = "geometric_shredder" -> BuildGeometricShredder(c)
    [] c.kind = "quantum_labels" -> c
    [] c.kind = "not_set" -> Refused

Updated(u, e, h) ==
  CASE u.kind = "update_matrix" -> UpdateByMatrix(u, e, h)
    [] u.kind = "sparse_update_matrix" -> UpdateBySparseMatrix(u, e, h)
    [] u.kind = "conditional_merge" -> UpdateByMerge(u, e)
    [] u.kind = "conditional_assignment" -> UpdateByAssignment(u, e)
    [] u.kind = "geometric_shredder" -> UpdateByShredder(u, e, h)
    [] u.kind = "quantum_labels" -> WriteLabel(u.quantum_labels, e, h)

NoHash == <<>>

Init ==
  /\ config \in Configs
  /\ updater = Built(config)
  /\ before = NoEvent /\ hash = NoHash /\ after = NoEvent

\* A new version of the model is built.
Build(c) ==
  /\ config' = c
  /\ updater' = Built(c)
  /\ before' = NoEvent /\ hash' = NoHash /\ after' = NoEvent

\* A branch node applies the updater to an event, with fresh hashes.
Update(e, h) ==
  /\ updater # Refused
  /\ before' = e
  /\ hash' = h
  /\ after' = Updated(updater, e, h)
  /\ UNCHANGED <<config, updater>>

Next ==
  \/ \E c \in Configs : Build(c)
  \/ \E e \in Events, h \in Hashes : Update(e, h)

Spec == Init /\ [][Next]_vars

---------------------------------------------------------------------------
(* Properties.                                                             *)

\* What Build has checked is enough: no index that a matcher or a hashing
\* returns is out of range ("This should never happen").
NeverInternal == after # Internal

\* The cells of a matrix, whichever form it has.
CellProbability(row, column) ==
  IF config.kind = "update_matrix"
  THEN config.probabilities[(row - 1) * Len(config.columns) + column]
  ELSE config.columns[column].probabilities[row]
CellRow(row, column) ==
  IF config.kind = "update_matrix" THEN config.rows[row]
  ELSE config.columns[column].rows[row]
CellRows(column) ==
  IF config.kind = "update_matrix" THEN DOMAIN config.rows
  ELSE DOMAIN config.columns[column].rows
CellColumn(column) ==
  IF config.kind = "update_matrix" THEN config.columns[column]
  ELSE config.columns[column].column_attrs

\* A matrix merges a row that its column gives a positive probability, where
\* the column is the first that matches the event, or has its masked fields;
\* and it leaves the event alone only if no column does.
RowOfColumn ==
  (/\ updater.kind \in {"update_matrix", "sparse_update_matrix"}
   /\ before # NoEvent)
  => LET Matches(k) ==
           IF config.hash_field_mask = Missing THEN IsMatch(CellColumn(k), before)
           ELSE \A f \in config.hash_field_mask : CellColumn(k)[f] = before[f]
     IN  \/ /\ \A k \in DOMAIN config.columns : ~ Matches(k)
            /\ after = IF config.pass_through THEN before ELSE Failed
         \/ \E k \in DOMAIN config.columns :
              /\ Matches(k)
              /\ \A j \in 1 .. k - 1 : ~ Matches(j)
              /\ \E r \in CellRows(k) :
                   /\ CellProbability(r, k) > 0
                   /\ after = MergeFrom(before, CellRow(r, k))

\* A dense matrix does what the sparse one does that lists all its cells.
Sparse(c) ==
  [kind |-> "sparse_update_matrix", hash_field_mask |-> c.hash_field_mask,
   pass_through |-> c.pass_through,
   columns |-> [k \in DOMAIN c.columns |->
                  [column_attrs |-> c.columns[k], rows |-> c.rows,
                   probabilities |-> [r \in DOMAIN c.rows |->
                     c.probabilities[(r - 1) * Len(c.columns) + k]]]]]
DenseIsSparse ==
  (updater.kind = "update_matrix" /\ before # NoEvent)
    => after = Updated(Built(Sparse(config)), before, hash)

\* A label is refused only for the message of a quantum label, wherever it is
\* in the sequence.  Else the classic label has the last word on each of its
\* fields, and the last quantum label that sets it on each other one: each of
\* them with one label, the same in all its fields, of positive probability.
LabelOfChoices ==
  (config.kind = "quantum_labels" /\ before # NoEvent) =>
    LET qs == config.quantum_labels
        Sound(q) == Len(q.labels) = Len(q.probabilities)
                      /\ IsDistribution(q.probabilities)
        Picks == [DOMAIN qs -> 1 .. MaxRows]
    IN  IF \E k \in DOMAIN qs : ~ Sound(qs[k]) THEN after = Failed
        ELSE \E chosen \in Picks :
          /\ \A k \in DOMAIN qs : /\ chosen[k] \in DOMAIN qs[k].labels
                                  /\ qs[k].probabilities[chosen[k]] > 0
          /\ \A j, k \in DOMAIN qs :
               (qs[j].seed = qs[k].seed /\ qs[j].probabilities = qs[k].probabilities)
                 => chosen[j] = chosen[k]
          /\ \A f \in Fields :
               LET Sets(k) == qs[k].labels[chosen[k]][f] # Unset
               IN  \/ before[f] # Unset /\ after[f] = before[f]
                   \/ /\ before[f] = Unset
                      /\ \E k \in DOMAIN qs :
                           /\ Sets(k) /\ \A l \in k + 1 .. Len(qs) : ~ Sets(l)
                           /\ after[f] = qs[k].labels[chosen[k]][f]
                   \/ /\ before[f] = Unset /\ after[f] = Unset
                      /\ \A k \in DOMAIN qs : ~ Sets(k)

\* No updater and no label clears a field that is set.  The assignments of a
\* list see each other's targets; what they leave in a field they change is
\* still what some field of its type had when Update was called.
KeepsFields ==
  (before # NoEvent /\ after # Failed) =>
    /\ \A f \in Fields : before[f] # Unset => after[f] # Unset
    /\ updater.kind = "conditional_assignment" =>
         \A f \in Fields : after[f] # before[f] =>
           /\ \E k \in DOMAIN updater.assignments :
                updater.assignments[k].target_field = f
           /\ \E g \in Fields : Types[g] = Types[f] /\ after[f] = before[g]

\* Consistent hashing: when the probabilities of a column change, the events
\* that move between rows only move to a row that has grown relative to theirs.
MovesTowardGrowth ==
  [][(/\ updater.kind = "update_matrix" /\ updater'.kind = "update_matrix"
      /\ updater'.columns = updater.columns /\ updater'.rows = updater.rows)
     => \A k \in DOMAIN updater.columns, h \in Hashes :
          LET p == updater.row_hashings[k]
              q == updater'.row_hashings[k]
              old == Hash(p, h) + 1
              new == Hash(q, h) + 1
          IN  old # new => q[new] * p[old] > q[old] * p[new]]_updater
=============================================================================
