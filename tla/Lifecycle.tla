----------------------------- MODULE Lifecycle -----------------------------
(***************************************************************************)
(* The providers of provider/provider.go from New to Close: the controller *)
(* manager each starts and the loop in which it runs for leader.  The      *)
(* elector itself is client-go's: Run acquires the lease, renews it, and,  *)
(* with ReleaseOnCancel, gives it up when its context ends or a renewal    *)
(* fails for RenewDeadline.  Of time the model keeps that only a lease     *)
(* whose holder does not renew it expires.                                 *)
(***************************************************************************)
CONSTANTS StorageNodes, Observers,
          NoNode  \* no holder of the lease

ASSUME NodesAssumption == /\ StorageNodes \cap Observers = {}
                          /\ NoNode \notin StorageNodes \cup Observers

VARIABLES started,   \* the providers with the started flag
          done,      \* those whose context is cancelled
          manager,   \* the controller manager of each
          phase,     \* where each election loop is
          observed,  \* the holder each elector has seen last
          lease,     \* the holder in the Lease object
          connected, \* the storage nodes that reach the API server
          faulted    \* history: the storage nodes cut off, closed or dead since they took or
                     \* renewed the lease

vars == <<started, done, manager, phase, observed, lease, connected, faulted>>

Nodes == StorageNodes \cup Observers
Holders == StorageNodes \cup {NoNode}

\* "acquire", "renew" and "release" are inside the elector's Run; "returned" is before
\* the select of RunLeaderElection.
Phases == {"off", "acquire", "renew", "release", "returned"}

\* An observer has no elector, so no loop: in one, Run would dereference nil.
TypeOK ==
  /\ started \subseteq Nodes
  /\ done \subseteq started
  /\ manager \in [Nodes -> {"off", "running", "failed"}]
  /\ phase \in [Nodes -> Phases]
  /\ \A n \in Nodes : phase[n] # "off" => n \in started \cap StorageNodes
  /\ observed \in [StorageNodes -> Holders]
  /\ lease \in Holders
  /\ connected \subseteq StorageNodes
  /\ faulted \subseteq StorageNodes

Init ==
  /\ started = {}
  /\ done = {}
  /\ manager = [n \in Nodes |-> "off"]
  /\ phase = [n \in Nodes |-> "off"]
  /\ observed = [n \in StorageNodes |-> NoNode]
  /\ lease = NoNode
  /\ connected = StorageNodes
  /\ faulted = {}

election == <<observed, lease, connected>>

----------------------------------------------------------------------------
(* The provider's calls.  Those that return ErrStarted or ErrClosed change *)
(* nothing.                                                                *)

\* Mutant of Elects: every provider runs for leader.
ElectsAlways(n) == TRUE

Elects(n) == n \in StorageNodes

Start(n, withManager) ==
  /\ n \notin started
  /\ started' = started \cup {n}
  /\ manager' = [manager EXCEPT ![n] = IF withManager THEN "running" ELSE "off"]
  /\ phase' = [phase EXCEPT ![n] = IF Elects(n) THEN "acquire" ELSE "off"]
  /\ UNCHANGED <<done, election, faulted>>

StartManaged(n) == Start(n, TRUE)
StartUnmanaged(n) == Start(n, FALSE)

\* started stays set: a closed provider is not started again.
Close(n) ==
  /\ n \in started
  /\ done' = done \cup {n}
  /\ faulted' = faulted \cup ({n} \cap StorageNodes)
  /\ UNCHANGED <<started, manager, phase, election>>

\* The caller's context ends, of which the provider's is a child.
CallerCancels(n) ==
  /\ n \in started
  /\ done' = done \cup {n}
  /\ faulted' = faulted \cup ({n} \cap StorageNodes)
  /\ UNCHANGED <<started, manager, phase, election>>

\* mgr.Start returns: with the context, or with an error that goes to errc, which
\* nothing reads.
ManagerReturns(n, state) ==
  /\ manager[n] = "running"
  /\ state = "off" => n \in done
  /\ manager' = [manager EXCEPT ![n] = state]
  /\ UNCHANGED <<started, done, phase, election, faulted>>

----------------------------------------------------------------------------
(* RunLeaderElection around the elector's Run.                             *)

\* Those who keep a lease from expiring when it is theirs.
Renewing == {n \in connected : phase[n] = "renew"}
InRun(n) == phase[n] \in {"acquire", "renew"}

\* A try that reads the lease and leaves it: it is held by another, or the update fails.
Observe(n) ==
  /\ InRun(n) /\ n \in connected
  /\ observed' = [observed EXCEPT ![n] = lease]
  /\ UNCHANGED <<started, done, manager, phase, lease, connected, faulted>>

\* Mutant of Acquire: a lease runs out before its holder has to renew it.
AcquireEarly(n) ==
  /\ InRun(n) /\ n \in connected \ done
  /\ lease' = n
  /\ observed' = [observed EXCEPT ![n] = n]
  /\ phase' = [phase EXCEPT ![n] = "renew"]
  /\ faulted' = faulted \ {n}
  /\ UNCHANGED <<started, done, manager, connected>>

\* A try that finds the lease free, its own or expired.
Acquire(n) ==
  /\ InRun(n) /\ n \in connected \ done
  /\ lease \notin Renewing \ {n}
  /\ lease' = n
  /\ observed' = [observed EXCEPT ![n] = n]
  /\ phase' = [phase EXCEPT ![n] = "renew"]
  /\ faulted' = faulted \ {n}
  /\ UNCHANGED <<started, done, manager, connected>>

\* No renewal for RenewDeadline.
Lose(n) ==
  /\ phase[n] = "renew"
  /\ n \notin connected \/ lease # n
  /\ phase' = [phase EXCEPT ![n] = "release"]
  /\ UNCHANGED <<started, done, manager, election, faulted>>

\* The context ends: only renewing ends with a release.
Cancelled(n) ==
  /\ n \in done /\ InRun(n)
  /\ phase' = [phase EXCEPT ![n] = IF @ = "renew" THEN "release" ELSE "returned"]
  /\ UNCHANGED <<started, done, manager, election, faulted>>

\* One update, if the elector thinks that it leads; when it fails the elector goes on
\* thinking so.
Release(n) ==
  /\ phase[n] = "release"
  /\ phase' = [phase EXCEPT ![n] = "returned"]
  /\ \/ /\ n \in connected /\ observed[n] = n /\ lease = n
        /\ lease' = NoNode
        /\ observed' = [observed EXCEPT ![n] = NoNode]
     \/ UNCHANGED <<lease, observed>>
  /\ UNCHANGED <<started, done, manager, connected, faulted>>

\* Mutants of LoopAgain: one election and no more; elections for ever.
LoopNever(n) ==
  /\ phase[n] = "returned"
  /\ phase' = [phase EXCEPT ![n] = "off"]
  /\ UNCHANGED <<started, done, manager, election, faulted>>

LoopForever(n) ==
  /\ phase[n] = "returned"
  /\ phase' = [phase EXCEPT ![n] = "acquire"]
  /\ UNCHANGED <<started, done, manager, election, faulted>>

LoopAgain(n) ==
  /\ phase[n] = "returned"
  /\ phase' = [phase EXCEPT ![n] = IF n \in done THEN "off" ELSE "acquire"]
  /\ UNCHANGED <<started, done, manager, election, faulted>>

----------------------------------------------------------------------------
(* The writes of storage.go: PutValue, Delete and the deferred deletes.    *)

IsLeader(n) == observed[n] = n

----------------------------------------------------------------------------
(* The world *)

\* The process dies and comes back with a new provider.
Restart(n) ==
  /\ started' = started \ {n}
  /\ done' = done \ {n}
  /\ manager' = [manager EXCEPT ![n] = "off"]
  /\ phase' = [phase EXCEPT ![n] = "off"]
  /\ observed' = [m \in StorageNodes |-> IF m = n THEN NoNode ELSE observed[m]]
  /\ faulted' = faulted \cup ({n} \cap StorageNodes)
  /\ UNCHANGED <<lease, connected>>

\* A network that fails, or a process that is stopped for longer than a renewal may take.
Partition(n) ==
  /\ connected' = IF n \in connected THEN connected \ {n} ELSE connected \cup {n}
  /\ faulted' = faulted \cup {n}
  /\ UNCHANGED <<started, done, manager, phase, observed, lease>>

Elector(n) == Lose(n) \/ Cancelled(n) \/ Release(n) \/ LoopAgain(n)

Next ==
  \/ \E n \in Nodes : \/ StartManaged(n) \/ StartUnmanaged(n) \/ Close(n)
                      \/ CallerCancels(n) \/ Restart(n)
  \/ \E n \in Nodes, state \in {"off", "failed"} : ManagerReturns(n, state)
  \/ \E n \in StorageNodes : \/ Observe(n) \/ Acquire(n) \/ Elector(n) \/ Partition(n)

Spec == Init /\ [][Next]_vars

\* The goroutines run, and the elector tries again every RetryPeriod.
Fairness ==
  /\ \A n \in StorageNodes : WF_vars(Elector(n)) /\ WF_vars(Acquire(n)) /\ WF_vars(Observe(n))
  /\ \A n \in Nodes : WF_vars(ManagerReturns(n, "off"))

FairSpec == Spec /\ Fairness

----------------------------------------------------------------------------
(* Properties *)

Runs(n) == n \in started \ done

\* A lease that was lost is fought for again: while one node stays up and connected,
\* somebody leads, or leads again, whatever the other nodes do.
SomebodyLeads ==
  \A n \in StorageNodes :
    <>[](Runs(n) /\ n \in connected) => []<>(lease \in Renewing)

\* Close, or the end of the caller's context, ends the election loop and the
\* manager of the provider.
ClosedStops ==
  \A n \in Nodes : n \in done ~> (phase[n] = "off" /\ manager[n] # "running")

\* The nodes whose PutValue and Delete write.
Writers == {n \in StorageNodes : IsLeader(n)}

\* A node whose PutValue and Delete pass their check holds the lease, unless it was cut
\* off, closed or dead since it took or renewed the lease.  So two nodes can write at
\* once, which Storage calls an overlap, only after a fault of one of them.
WriterHoldsLease == \A n \in Writers \ faulted : lease = n

\* A node that has lost the lease learns of it while it runs and is connected: it does
\* not believe for ever that it leads.  (A closed one may.)
StaleLeaderYields ==
  \A n \in StorageNodes :
    <>[](Runs(n) /\ n \in connected) => []<>(IsLeader(n) => lease = n)
=============================================================================
