------------------------------ MODULE MCLocks ------------------------------
(***************************************************************************)
(* The instance of Locks that TLC checks.  Callbacks make every call, the  *)
(* iteration with a callback of its own included; of the paths of a call,  *)
(* the longest.  That of the iteration has those of the other storage      *)
(* calls in it, and that of Close those of Start.                          *)
(***************************************************************************)
EXTENDS Locks

CONSTANTS g1, g2, w1

Longest(paths) == {p \in paths : \A q \in paths : Len(q) <= Len(p)}
BackPaths == UNION {Longest(c) : c \in {IterPrefix, ConsensusRead, GetLeader, ConsensusChange,
                                        Bootstrap, Status, Close, GraphChange, MeshStateCall}}
=============================================================================
