----------------------------- MODULE MCFeistel -----------------------------
(* Domains with and without walks; for two digits every round hash, for     *)
(* three digits round hashes that are free in two of the rounds.            *)
EXTENDS Feistel

Two == [0 .. 1 -> 0 .. 1]
Three == [0 .. 2 -> {0, 1, 5}]
Padded(f, n) == [r \in 0 .. 3 |-> IF r < n THEN f[r] ELSE 0]
MCHashes ==
  { [k \in 0 .. 3 |-> Padded(IF k = 0 THEN f ELSE IF k = 1 THEN g
                             ELSE IF k = 2 THEN [r \in 0 .. 2 |-> 2 * r] ELSE f, 3)]
      : f \in Three, g \in { h \in Three : h[0] = 0 } }
  \cup { [k \in 0 .. 3 |-> Padded(fs[k], 2)] : fs \in [0 .. 3 -> Two] }
=============================================================================
