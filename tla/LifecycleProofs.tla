-------------------------- MODULE LifecycleProofs --------------------------
(***************************************************************************)
(* What TLAPS proves of Lifecycle for every set of nodes: the type         *)
(* invariant and WriterHoldsLease.  The latter is not inductive: a node    *)
(* that nothing has happened to since it took the lease must be known to   *)
(* be renewing it, so that no other can take it, and one that never took   *)
(* it must be known not to be its holder, so that it does not see itself   *)
(* there.                                                                  *)
(***************************************************************************)
EXTENDS Lifecycle, TLAPS

\* Of a node that was not cut off, closed or dead since it took or renewed the lease.
Unfaulted(n) ==
  /\ n \in connected \ done
  /\ phase[n] \in {"off", "acquire", "renew"}
  /\ lease = n <=> phase[n] = "renew"
  /\ observed[n] = n => lease = n

IInv == TypeOK /\ \A n \in StorageNodes \ faulted : Unfaulted(n)

-----------------------------------------------------------------------------

USE NodesAssumption DEF Nodes, Holders, Phases

LEMMA InitIInv == Init => IInv
  BY DEF Init, IInv, TypeOK, Unfaulted

LEMMA ProviderTypes ==
  ASSUME TypeOK, NEW n \in Nodes, NEW b \in BOOLEAN, NEW state \in {"off", "failed"},
         \/ Start(n, b) \/ Close(n) \/ CallerCancels(n) \/ Restart(n)
         \/ ManagerReturns(n, state)
  PROVE  TypeOK'
<1>1. CASE Start(n, b)
  BY <1>1 DEF Start, Elects, TypeOK, election
<1>2. CASE Close(n) \/ CallerCancels(n)
  BY <1>2 DEF Close, CallerCancels, TypeOK, election
<1>3. CASE Restart(n)
  BY <1>3 DEF Restart, TypeOK
<1>4. CASE ManagerReturns(n, state)
  BY <1>4 DEF ManagerReturns, TypeOK, election
<1> QED BY <1>1, <1>2, <1>3, <1>4

LEMMA ElectorTypes ==
  ASSUME TypeOK, NEW n \in StorageNodes,
         Observe(n) \/ Acquire(n) \/ Elector(n) \/ Partition(n)
  PROVE  TypeOK'
<1>1. CASE Observe(n)
  BY <1>1 DEF Observe, TypeOK
<1>2. CASE Acquire(n)
  BY <1>2 DEF Acquire, InRun, TypeOK
<1>3. CASE Lose(n) \/ Cancelled(n)
  BY <1>3 DEF Lose, Cancelled, InRun, TypeOK, election
<1>4. CASE Release(n)
  BY <1>4 DEF Release, TypeOK
<1>5. CASE LoopAgain(n)
  BY <1>5 DEF LoopAgain, TypeOK, election
<1>6. CASE Partition(n)
  BY <1>6 DEF Partition, TypeOK
<1> QED BY <1>1, <1>2, <1>3, <1>4, <1>5, <1>6 DEF Elector

-----------------------------------------------------------------------------

\* What a provider's call or a fault does to one node leaves the others' lease alone.
LEMMA ProviderKeeps ==
  ASSUME IInv, NEW n \in Nodes, NEW b \in BOOLEAN, NEW state \in {"off", "failed"},
         \/ Start(n, b) \/ Close(n) \/ CallerCancels(n) \/ Restart(n)
         \/ ManagerReturns(n, state),
         NEW m \in StorageNodes \ faulted'
  PROVE  Unfaulted(m)'
<1>1. CASE Start(n, b)
  BY <1>1 DEF Start, Elects, IInv, TypeOK, Unfaulted, election
<1>2. CASE Close(n) \/ CallerCancels(n)
  BY <1>2 DEF Close, CallerCancels, IInv, TypeOK, Unfaulted, election
<1>3. CASE Restart(n)
  BY <1>3 DEF Restart, IInv, TypeOK, Unfaulted
<1>4. CASE ManagerReturns(n, state)
  BY <1>4 DEF ManagerReturns, IInv, TypeOK, Unfaulted, election
<1> QED BY <1>1, <1>2, <1>3, <1>4

\* A lease that its holder renews is not taken by another.
LEMMA AcquireKeeps ==
  ASSUME IInv, NEW n \in StorageNodes, Acquire(n), NEW m \in StorageNodes \ faulted'
  PROVE  Unfaulted(m)'
<1>1. CASE m = n
  BY <1>1 DEF Acquire, InRun, IInv, TypeOK, Unfaulted
<1>2. CASE m # n
  <2>1. m \notin faulted /\ Unfaulted(m)
    BY <1>2 DEF Acquire, IInv
  <2>2. lease # m
    BY <1>2, <2>1 DEF Acquire, Renewing, Unfaulted
  <2> QED BY <1>2, <2>1, <2>2 DEF Acquire, IInv, TypeOK, Unfaulted
<1> QED BY <1>1, <1>2

LEMMA ElectorKeeps ==
  ASSUME IInv, NEW n \in StorageNodes, Observe(n) \/ Elector(n) \/ Partition(n),
         NEW m \in StorageNodes \ faulted'
  PROVE  Unfaulted(m)'
<1>1. CASE Observe(n)
  BY <1>1 DEF Observe, IInv, TypeOK, Unfaulted
<1>2. CASE Lose(n)
  BY <1>2 DEF Lose, IInv, TypeOK, Unfaulted, election
<1>3. CASE Cancelled(n)
  BY <1>3 DEF Cancelled, IInv, TypeOK, Unfaulted, election
<1>4. CASE Release(n)
  <2>1. m \notin faulted /\ Unfaulted(m) /\ m # n
    BY <1>4 DEF Release, IInv, Unfaulted
  <2> QED BY <1>4, <2>1 DEF Release, IInv, TypeOK, Unfaulted
<1>5. CASE LoopAgain(n)
  BY <1>5 DEF LoopAgain, IInv, TypeOK, Unfaulted, election
<1>6. CASE Partition(n)
  BY <1>6 DEF Partition, IInv, TypeOK, Unfaulted
<1> QED BY <1>1, <1>2, <1>3, <1>4, <1>5, <1>6 DEF Elector

LEMMA NextIInv == IInv /\ [Next]_vars => IInv'
<1> SUFFICES ASSUME IInv, [Next]_vars PROVE IInv'
  OBVIOUS
<1>1. ASSUME NEW n \in Nodes,
             StartManaged(n) \/ StartUnmanaged(n) \/ Close(n) \/ CallerCancels(n) \/ Restart(n)
      PROVE  IInv'
  <2>1. Start(n, TRUE) \/ Start(n, FALSE) \/ Close(n) \/ CallerCancels(n) \/ Restart(n)
    BY <1>1 DEF StartManaged, StartUnmanaged
  <2>2. TypeOK'
    BY <2>1, ProviderTypes DEF IInv
  <2>3. \A m \in StorageNodes \ faulted' : Unfaulted(m)'
    BY <2>1, ProviderKeeps
  <2> QED BY <2>2, <2>3 DEF IInv
<1>2. ASSUME NEW n \in Nodes, NEW state \in {"off", "failed"}, ManagerReturns(n, state)
      PROVE  IInv'
  <2>1. TypeOK'
    BY <1>2, ProviderTypes DEF IInv
  <2>2. \A m \in StorageNodes \ faulted' : Unfaulted(m)'
    BY <1>2, ProviderKeeps
  <2> QED BY <2>1, <2>2 DEF IInv
<1>3. ASSUME NEW n \in StorageNodes, Observe(n) \/ Acquire(n) \/ Elector(n) \/ Partition(n)
      PROVE  IInv'
  <2>1. TypeOK'
    BY <1>3, ElectorTypes DEF IInv
  <2>2. \A m \in StorageNodes \ faulted' : Unfaulted(m)'
    BY <1>3, AcquireKeeps, ElectorKeeps
  <2> QED BY <2>1, <2>2 DEF IInv
<1>4. CASE UNCHANGED vars
  BY <1>4 DEF vars, IInv, TypeOK, Unfaulted
<1> QED BY <1>1, <1>2, <1>3, <1>4 DEF Next

LEMMA Invariance == Spec => []IInv
  BY InitIInv, NextIInv, PTL DEF Spec

\* A node has an election loop only while it is started, and only a storage node
\* has one, whatever the providers and their world do: an observer never runs for leader.
THEOREM TypeCorrect == Spec => []TypeOK
  BY Invariance, PTL DEF IInv

\* PutValue and Delete pass their check only at the holder of the lease, or after the node
\* was cut off, closed or dead since it took or renewed the lease.
THEOREM WritersHoldTheLease == Spec => []WriterHoldsLease
<1>1. IInv => WriterHoldsLease
  BY DEF IInv, Unfaulted, WriterHoldsLease, Writers, IsLeader
<1> QED BY <1>1, Invariance, PTL
=============================================================================
