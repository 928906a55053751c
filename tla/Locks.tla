------------------------------- MODULE Locks -------------------------------
(***************************************************************************)
(* The mutexes of one process and who waits for whom.  A call is the       *)
(* sequence of what it does with them; what it does in between is left     *)
(* out.  c.mu and submu are Go's sync.RWMutex: a writer that waits for     *)
(* readers to leave keeps new readers out, those included that are inside  *)
(* already, and lets all that wait in when it leaves.  Iterators and       *)
(* subscribers are the embedding program's and may call the provider.      *)
(***************************************************************************)
EXTENDS Naturals, Sequences

CONSTANTS Programs,     \* goroutines of the embedding program and deferred deletes
          Controllers,  \* the workers of the two controllers
          Nobody,
          BackCalls     \* the paths of the calls that callbacks make

ASSUME GoroutinesAssumption == /\ Programs \cap Controllers = {}
                               /\ Nobody \notin Programs \cup Controllers

VARIABLES todo,     \* what is left to do of each goroutine's call
          writer,   \* who holds each lock for writing, or has closed it to new readers
          readers,  \* how many times each goroutine holds it for reading
          parked    \* the readers that wait for the writer

vars == <<todo, writer, readers, parked>>

Goroutines == Programs \cup Controllers
Mutexes == {"p.mu", "subsmu", "c.mu", "st.mu", "submu", "state.mu"}

Step == [do: {"lock", "drain", "unlock", "rlock", "runlock", "callback", "return"},
         on: Mutexes \cup {"none"}]
Do(what, lock) == <<[do |-> what, on |-> lock]>>

Locked(lock, body) == Do("lock", lock) \o body \o Do("unlock", lock)
RLocked(lock, body) == Do("rlock", lock) \o body \o Do("runlock", lock)
Callback == Do("callback", "none")

----------------------------------------------------------------------------
(* The calls: for each the sequences it may go through.                    *)

\* GetValue, PutValue, Delete, ListKeys, Subscribe and the deferred delete.
StorageCall == {Locked("st.mu", <<>>)}

IterPrefix == StorageCall \cup {Locked("st.mu", Callback)}

IsLeader == RLocked("c.mu", <<>>)

\* Mutant of ConsensusRead: GetPeers unlocks what its defer unlocks again.
ConsensusReadTwice == {IsLeader \o Do("runlock", "c.mu")}

\* IsLeader, GetPeer and GetPeers.
ConsensusRead == {IsLeader}

\* The fast path, and a peer of the list that is the holder.  The loop may ask IsLeader
\* of more peers when the holder moves: each is another read within the same one.
GetLeader == {RLocked("c.mu", IsLeader), RLocked("c.mu", IsLeader \o IsLeader)}

\* AddVoter, AddObserver, DemoteVoter and RemovePeer.
ConsensusChange == {Locked("c.mu", <<>>)}

Start == {Locked("p.mu", <<>>)}

\* Mutant of Bootstrap: the locks are taken in the other order.
BootstrapInverted == {Locked("p.mu", <<>>), Locked("c.mu", Locked("p.mu", <<>>))}

Bootstrap == {Locked("p.mu", body) : body \in {<<>>} \cup ConsensusChange}

\* Mutant of Status: the early return leaves p.mu locked.
StatusLocked == {Do("lock", "p.mu") \o IsLeader, Locked("p.mu", IsLeader \o IsLeader)}

\* Closed; not a peer; a peer, whose status depends on who leads.
Status == {Locked("p.mu", body) : body \in {<<>>, IsLeader, IsLeader \o IsLeader}}

Close == {Locked("p.mu", body) : body \in {<<>>, Locked("subsmu", <<>>)}}

\* Mutant of Reconcile: it looks whether the provider is started, as the calls do.
ReconcileChecks == {Locked("subsmu", Locked("p.mu", <<>>)), Locked("subsmu", Callback)}

Reconcile == {Locked("subsmu", body) : body \in {<<>>, Callback}}

\* Subscribe of the graph, and Close of the database.
GraphChange == {Locked("submu", <<>>)}

GraphReconcile == {RLocked("submu", body) : body \in {<<>>, Callback}}

\* SetMeshState and GetMeshState.
MeshStateCall == {Locked("state.mu", <<>>)}

Calls == StorageCall \cup IterPrefix \cup ConsensusRead \cup GetLeader \cup ConsensusChange
           \cup Start \cup Bootstrap \cup Status \cup Close \cup GraphChange \cup MeshStateCall

Work == Reconcile \cup GraphReconcile

ASSUME BackCallsAssumption == BackCalls \subseteq Calls

Paths(g) == IF g \in Programs THEN Calls ELSE Work

----------------------------------------------------------------------------

Init ==
  /\ todo = [g \in Goroutines |-> <<>>]
  /\ writer = [l \in Mutexes |-> Nobody]
  /\ readers = [l \in Mutexes |-> [g \in Goroutines |-> 0]]
  /\ parked = [l \in Mutexes |-> {}]

TypeOK ==
  /\ todo \in [Goroutines -> Seq(Step)]
  /\ writer \in [Mutexes -> Goroutines \cup {Nobody}]
  /\ readers \in [Mutexes -> [Goroutines -> Nat]]
  /\ parked \in [Mutexes -> SUBSET Goroutines]

At(g, what) == todo[g] # <<>> /\ Head(todo[g]).do = what
On(g) == Head(todo[g]).on
Pass(g) == todo' = [todo EXCEPT ![g] = Tail(@)]

Begin(g) ==
  /\ todo[g] = <<>>
  /\ \E path \in Paths(g) : todo' = [todo EXCEPT ![g] = path]
  /\ UNCHANGED <<writer, readers, parked>>

NoReaders(l) == \A h \in Goroutines : readers[l][h] = 0

\* Lock: no other writer, and no more readers from now on.
Announce(g) ==
  /\ At(g, "lock")
  /\ writer[On(g)] = Nobody
  /\ writer' = [writer EXCEPT ![On(g)] = g]
  /\ IF NoReaders(On(g))
     THEN Pass(g)
     ELSE todo' = [todo EXCEPT ![g] = Do("drain", On(g)) \o Tail(@)]
  /\ UNCHANGED <<readers, parked>>

\* The readers have left.
Enter(g) ==
  /\ At(g, "drain")
  /\ NoReaders(On(g))
  /\ Pass(g)
  /\ UNCHANGED <<writer, readers, parked>>

\* The readers that wait go in before another writer can.
Unlock(g) ==
  /\ At(g, "unlock")
  /\ LET l == On(g)
         in == parked[l]
     IN  /\ writer' = [writer EXCEPT ![l] = Nobody]
         /\ readers' = [readers EXCEPT ![l] = [h \in Goroutines |-> IF h \in in THEN @[h] + 1 ELSE @[h]]]
         /\ parked' = [parked EXCEPT ![l] = {}]
         /\ todo' = [h \in Goroutines |-> IF h \in in \cup {g} THEN Tail(todo[h]) ELSE todo[h]]

RLock(g) ==
  /\ At(g, "rlock")
  /\ IF writer[On(g)] = Nobody
     THEN /\ readers' = [readers EXCEPT ![On(g)][g] = @ + 1]
          /\ Pass(g)
          /\ UNCHANGED parked
     ELSE /\ g \notin parked[On(g)]
          /\ parked' = [parked EXCEPT ![On(g)] = @ \cup {g}]
          /\ UNCHANGED <<readers, todo>>
  /\ UNCHANGED writer

RUnlock(g) ==
  /\ At(g, "runlock")
  /\ readers' = [readers EXCEPT ![On(g)][g] = @ - 1]
  /\ Pass(g)
  /\ UNCHANGED <<writer, parked>>

\* The callback makes one call, or none, and returns.
CallBack(g) ==
  /\ At(g, "callback")
  /\ \/ Pass(g)
     \/ \E path \in BackCalls :
          todo' = [todo EXCEPT ![g] = path \o Do("return", "none") \o Tail(@)]
  /\ UNCHANGED <<writer, readers, parked>>

Return(g) ==
  /\ At(g, "return")
  /\ Pass(g)
  /\ UNCHANGED <<writer, readers, parked>>

GoOn(g) == \/ Announce(g) \/ Enter(g) \/ Unlock(g) \/ RLock(g) \/ RUnlock(g)
           \/ CallBack(g) \/ Return(g)

Next == \E g \in Goroutines : Begin(g) \/ GoOn(g)

Spec == Init /\ [][Next]_vars

\* Goroutines run.  A sync.Mutex is handed to the goroutine that has waited for it
\* longer than a millisecond, however many others ask.
Fairness == \A g \in Goroutines : WF_vars(GoOn(g)) /\ SF_vars(Announce(g))

FairSpec == Spec /\ Fairness

----------------------------------------------------------------------------
(* Properties *)

\* Whom g waits for; nobody that can go on, if g waits for itself.
WaitsFor(g) ==
  IF At(g, "lock") THEN {writer[On(g)]} \ {Nobody}
  ELSE IF At(g, "drain") THEN {h \in Goroutines : readers[On(g)][h] > 0}
  ELSE IF At(g, "rlock") /\ g \in parked[On(g)] THEN {writer[On(g)]} \ {Nobody}
  ELSE {}

\* Those who wait in a circle, and those who wait for them.
Deadlocked ==
  UNION {S \in SUBSET Goroutines : \A g \in S : WaitsFor(g) \cap S # {}}

InCallback(g) == \E i \in DOMAIN todo[g] : todo[g][i].do = "return"

\* A reader that waits for the writer that waits for it.
ReadsTwice(g) == \E l \in Mutexes : g \in parked[l] /\ readers[l][g] > 0

\* The locks of a process are taken in an order that has no circle.  What can go
\* wrong is a GetLeader that asks for c.mu again while another call waits to write, or a
\* callback.  Iterators and subscribers may call consensus (but GetLeader) and the
\* mesh state, and subscribers the storage; an iterator that does waits for itself.
OnlyKnownDeadlocks ==
  Deadlocked # {} =>
    \E g \in Deadlocked :
      \/ ReadsTwice(g)
      \/ InCallback(g) /\ On(g) \in {"p.mu", "subsmu", "submu"}
      \/ InCallback(g) /\ On(g) = "st.mu" /\ writer["st.mu"] = g

\* Without callbacks, the deadlock of GetLeader takes with it what needs c.mu or p.mu:
\* consensus, Start, Bootstrap, Status and Close.  Storage, notifications, graph and mesh state
\* go on.
DeadlockContained ==
  (\A g \in Goroutines : ~InCallback(g)) =>
    \A g \in Deadlocked : On(g) \in {"c.mu", "p.mu"}

\* A call returns, however many others ask for the same locks, unless it is in a
\* deadlock or waits for one.
WaitersGetIn ==
  \A g \in Goroutines : todo[g] # <<>> ~> (todo[g] = <<>> \/ g \in Deadlocked)
=============================================================================
