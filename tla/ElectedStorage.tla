--------------------------- MODULE ElectedStorage ---------------------------
(***************************************************************************)
(* Storage under the election of Lifecycle: PutValue, Delete and GetValue  *)
(* ask the elector whether the node leads, and it is the elector's view of *)
(* the lease that answers.  The Active nodes of Storage are those that may *)
(* write, have a write under way or a deferred delete to run.  Observers,  *)
(* which have no elector and no part in the election, are left out.        *)
(***************************************************************************)
EXTENDS Storage

VARIABLES started, done, manager, phase, observed, lease, connected, faulted

NoNode == CHOOSE x : x \notin Nodes

L == INSTANCE Lifecycle WITH StorageNodes <- Nodes, Observers <- {}

providerVars == <<started, done, manager, phase, observed, lease, connected, faulted>>

ElectedInit == Init /\ L!Init

----------------------------------------------------------------------------

\* The calls of a node, and its informer.
Work(n) ==
  /\ \/ Put(n) \/ Delete(n) \/ NotLeader(n) \/ GetValue(n) \/ ReadError(n)
     \/ RunReap(n) \/ Proceed(n)
     \/ \E b \in Buckets : CacheSync(n, b)
  /\ UNCHANGED providerVars

\* The process dies with its provider, its elector, its calls and their goroutines.
Die(n) == L!Restart(n) /\ Crash(n)

\* What a provider, its elector or its network does; Storage hears of it what IsLeader
\* answers from now on.
Elects(n) ==
  /\ \/ L!StartManaged(n) \/ L!StartUnmanaged(n) \/ L!Close(n) \/ L!CallerCancels(n)
     \/ \E state \in {"off", "failed"} : L!ManagerReturns(n, state)
     \/ L!Observe(n) \/ L!Acquire(n) \/ L!Elector(n) \/ L!Partition(n)
  /\ Elect(n) \/ Lose(n) \/ UNCHANGED vars
  /\ leading' = L!Writers'

ElectedNext ==
  \/ \E n \in Nodes : Work(n) \/ Die(n) \/ Elects(n)
  \/ Tick /\ UNCHANGED providerVars

ElectedSpec == ElectedInit /\ [][ElectedNext]_<<vars, providerVars>>

----------------------------------------------------------------------------
(* Properties *)

\* Who may write, is writing or has a deferred delete to run holds the lease, unless it
\* was cut off, closed or dead since it took or renewed the lease.
ActiveHoldsLease == \A n \in Active \ faulted : lease = n

\* Elections overlap only when the lease goes to a node while another, that was cut off,
\* closed or dead since it had it, may still write or has a write to finish.
OverlapNeedsFault ==
  [][overlap' # overlap => \E m \in Active \cap faulted : lease' # m]_<<vars, providerVars>>
=============================================================================
