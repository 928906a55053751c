---------------------------- MODULE MCConsensus ----------------------------
(***************************************************************************)
(* The instances of Consensus that TLC checks.                             *)
(***************************************************************************)
EXTENDS Consensus

CONSTANTS n1, n2, o1
=============================================================================
