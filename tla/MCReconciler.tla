---------------------------- MODULE MCReconciler ----------------------------
(***************************************************************************)
(* The instances of Reconciler that TLC checks, with the keys a/x and a/y  *)
(* of Secret a, and the key b/z of Secret b.                               *)
(***************************************************************************)
EXTENDS Reconciler

CONSTANTS ax, ay, bz, secretA, secretB, s1, s2

Bucket == [k \in Keys |-> IF k = bz THEN secretB ELSE secretA]

\* The prefix a: the keys of Secret a, and its name.
KeysUnderA == [s \in Subs |-> Keys \ {bz}]
NamesUnderA == [s \in Subs |-> {secretA}]
=============================================================================
