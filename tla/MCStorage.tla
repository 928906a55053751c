----------------------------- MODULE MCStorage -----------------------------
(***************************************************************************)
(* The instances of Storage that TLC checks.                               *)
(***************************************************************************)
EXTENDS Storage, TLC

CONSTANTS n1, n2,      \* nodes
          k1, k2, k3,  \* keys
          b1, b2,      \* Secrets
          d1, d2       \* deferred deletes

OneBucket == [k \in Keys |-> b1]
TwoBuckets == [k \in Keys |-> IF k = k3 THEN b2 ELSE b1]

Symmetric == Permutations(Nodes)
=============================================================================
