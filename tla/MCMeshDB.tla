------------------------------ MODULE MCMeshDB ------------------------------
(***************************************************************************)
(* The instances of MeshDB that TLC checks.                                *)
(***************************************************************************)
EXTENDS MeshDB

CONSTANTS r1, r2, x1, x2, rb1, rb2, n1, l1, p1, p2

V4State == [domain |-> "mesh", networkV4 |-> "a"]
V6State == [domain |-> "mesh", networkV6 |-> "b"]
MCMeshStates == {V4State, V6State}
=============================================================================
