---------------------------- MODULE MCLifecycle ----------------------------
(***************************************************************************)
(* The instances of Lifecycle that TLC checks.                             *)
(***************************************************************************)
EXTENDS Lifecycle

CONSTANTS n1, n2, o1
=============================================================================
