# Verification of storage-provider-k8s

TLA+ modules of the Webmesh storage provider on Kubernetes, the TLC runs that check
them, and proofs of the central invariants in TLAPS. Every definition is translated from
the Go code under `src/`; `PROJECT.json` maps each to its lines.

    tlc -config storage_safety.cfg MCStorage     # any run: see PROJECT.json
    tlapm StorageProofs.tla                      # any of the *Proofs modules

## 1. The system

Several processes (*nodes*) run a `Provider` each. They share nothing but the Kubernetes
API server, where everything is an object that is read with Get or List and written by
server-side apply **of the whole object, forced and without a resource version**
(`provider/util/util.go`): the last apply wins. Reads come from the process's informers,
which lag, unless `DisableCache` is set. One node leads: the holder of a lease, as
client-go's elector of each node believes.

| component | code | state | operations |
|---|---|---|---|
| storage | `storage.go`, `util/` | one Secret per bucket of keys; `st.mu` | GetValue (with deferred deletes), PutValue, Delete |
| bucket index | `storage.go` | the name and the label of each Secret | bucketForKey, ListKeys, IterPrefix |
| subscriptions | `reconciler.go`, `storage.go`, `provider.go` | `subs`, `seen`, the controller's queue; `subsmu` | Subscribe, cancel, Reconcile, Close |
| consensus | `consensus.go` | one StoragePeer per member; `self`; `c.mu` | AddVoter, AddObserver, DemoteVoter, RemovePeer, GetLeader, GetPeer(s) |
| provider | `provider.go` | `started`, the elector; `p.mu` | New, Start, Bootstrap, Status, RunLeaderElection, Close |
| locks | all of these | `p.mu`, `subsmu`, `c.mu`, two `st.mu`, `submu` | every call, as the sequence of the locks it takes |
| peer graph | `database/graphstore.go`, `database/database.go` | one Peer per vertex, one MeshEdge per edge; `graph.subs`; `submu` | Add/RemoveVertex, Add/Update/RemoveEdge, Vertex, Edge, lists, Subscribe, Reconcile, Close |
| networking | `database/networking.go` | Routes, NetworkACLs | put, get, delete, list |
| rbac | `database/rbac.go` | Roles, RoleBindings, Groups, one ConfigMap | put, get, delete, list, ListNodeRoles, ListUserRoles, SetEnabled |
| mesh state | `database/meshstate.go` | one MeshState | get, set |
| manager | `manager/manager.go` | - | wires the client, with or without the cache |
| api | `api/` | - | types, CRDs, generated copies |

How they interact: PutValue and Delete ask the elector whether this node leads;
Consensus asks it who does. The provider's controller watches Secrets and calls the
subscribers of `storage`; the database's controller watches Peers, Routes and MeshEdges
and calls those of the graph. Bootstrap calls AddVoter, Status calls GetPeers and the
elector. Callbacks run on the controller's goroutine with its lock held.

What is hard: two nodes that both believe they lead (a leader that stalls between its
read and its apply); reads from an informer that has not seen this node's own last
write; a goroutine that applies an old copy of a Secret; requests that fail after they
took effect; queues that keep names and forget events; contexts that end while a
subscriber is about to be called; locks taken twice. `PROJECT.json` lists each hazard at
its line, with the properties that bear on it.

What makes each component correct:

* storage - a call changes its own key and no other; only the leader writes; together
  the nodes implement a key-value map whose entries expire;
* bucket index - ListKeys finds what GetValue finds (and, by its label, keys of other
  namespaces too: section 5);
* subscriptions - no deletion is told that did not happen; once the store is quiet each
  live subscriber knows its present contents;
* consensus - the leader that is named was the elector's at some moment of the call; an
  observer changes nothing but itself;
* provider - a node that lost the lease runs for leader again and learns that it lost it;
  nobody else may write while nothing went wrong; Close ends what Start began;
* locks - what deadlocks is known, and takes with it no more than it must;
* peer graph - a subscriber has at some time heard of each Peer that exists and changed,
  as it is now (not that it heard it last: section 5), and hears nothing after Close;
* rbac - the roles of a subject are those it had in the course of the call;
* mesh state, and whether RBAC is enabled - the last set that returned is what is found.

## 2. The modules

| module | models | proved about |
|---|---|---|
| `DataItems` | an item of a Secret, expiry, adding and removing an item | |
| `KVStore` | the abstract store: what Storage promises | |
| `Storage` | `storage.go`: one action for each request of GetValue, PutValue, Delete and the deferred delete | `StorageProofs` |
| `BucketIndex` | buckets, labels, ListKeys | `BucketIndexProofs` |
| `Reconciler` | subscriptions to keys | `ReconcilerProofs` |
| `Consensus` | the storage group, GetLeader, Bootstrap, Status | `ConsensusProofs` |
| `Lifecycle` | Start, Close and the election loop around client-go's elector, down to who may write | `LifecycleProofs` |
| `ElectedStorage` | Storage with the electors of Lifecycle to ask who leads | `StorageProofs` |
| `PeerGraph` | the graph, routes' events, subscriptions to peers | `PeerGraphProofs` |
| `Locks` | the six mutexes and who waits for whom | `LocksProofs` |
| `RBAC` | roles, bindings, ListNodeRoles and ListUserRoles | `MeshDBProofs` |
| `MeshDB` | RBAC with the mesh state and SetEnabled | `MeshDBProofs` |
| `MC*` | the instances for TLC | |

State and actions follow one scheme. Objects in the API server are a variable
(`secrets`, `peers`, `roles`), the informer's copy another (`cache`), and a definition
`View` picks the one that reads come from. A call that makes several requests is one
action per request, and the variable `op` (or `work`, `list`) holds what the goroutine
remembers in between: that is where another node, a failing request or a crash comes in.
A request that fails either took effect or did not. A mutex is the guard that `op` (or
`work`) is idle. What a comment calls *history* is read by properties only, never by a
guard.

Definitions whose comment begins "Mutant of ..." are no part of a specification. Each is
a plausible bug of the code that a property must notice.

**Storage.** A call takes `st.mu` (`op[n]` leaves `Idle`); `PutStart` and `DeleteStart`
check leadership, `PutGet` and `DeleteGet` read the Secret, `Drop` deletes a Secret that
became empty and `Patch` applies it whole. GetValue is one action when it finds a live
item (`GetLive`) or nothing (`GetMiss`); for an expired one it reads (`GetExpired`),
asks the elector (`GetCheck`) and leaves a deferred delete in `reaps`, with the Secret
*as it was read*. `ReapStart` is that goroutine when it gets `st.mu`: it does not ask or
read again. `overlap` records that a node was elected while another led, had a write in
flight or a deferred delete pending.

**KVStore** is a map from keys to items. A call that writes takes effect, or fails with
or without effect; an expired item may disappear; nothing else changes. Storage maps to
it by taking the items of all Secrets together (`KVSpec`).

**BucketIndex** works on sequences of characters, because the splitting and joining is
what could be wrong. `NameChars` is the set of characters Kubernetes takes in the name
of a Secret. Values, expiry and failures are Storage's.

**Reconciler.** Every change of a Secret puts its name in `queue` (a set: the
controller's queue coalesces). `ReconcileGet` takes a name and reads the Secret,
`ReconcileSub` tells one subscriber. Subscribe comes at any time, because it takes
`st.mu` where Reconcile holds `subsmu`. `Reapply` is the second request of patchBucket
after its Delete, during which the Secret does not exist.

**Consensus.** GetLeader is the list (`GetLeader`) and then, for each peer, up to three
questions to the elector, one action each: is the peer the holder (`AskHolder`), does
this node lead (`AskLeader`), is the peer the holder (`AskAgain`). `Observe` is the
elector learning of a new holder, between any two. An observer's GetLeader decides by
its list alone and changes nothing, so it is no step. `DemoteVoter`/`DemotePatch` and
`BootstrapList`/`BootstrapAdd` are calls of two requests. Refused calls change nothing
and are no steps either.

**Lifecycle.** `phase` is where the loop of RunLeaderElection is: in the elector's Run
(`acquire`, `renew`, `release`) or behind it (`returned`), where `LoopAgain` is the
select. A lease expires when its holder is not renewing it, that is the only thing the
model knows of time. Two nodes may report themselves as holders at once (`IsLeader` is
what PutValue and Delete ask); `faulted` is the history of the nodes to which something
happened since they took or renewed the lease. `Observe` is a try of the elector that
reads the lease and leaves it alone.

**ElectedStorage** puts Storage and Lifecycle together for the storage nodes: a step is one
of a call (`Work`), one of a provider, its elector or its network (`Elects`), after which
`leading` is whoever sees itself in the lease, or the death of a process (`Die`), which is
a step of both. It has no run: the product of the two state spaces is out of proportion to
what a run may take, both are checked by themselves, and what is said of them together is
proved.

**PeerGraph.** Peers are named by `HashNodeID`, edges and routes labelled with
`TruncateNodeID` or the ID; both functions are parameters of which only what matters is
assumed. `ReconcileNext` looks at a subscription's context and `ReconcileTell` calls it,
so that a cancellation may come in between, while Subscribe and Close wait for `submu`.

**Locks.** A call is the set of sequences of lock steps it may go through (`StorageCall`,
`Status`, ...), translated from its source; what it does between them is the other
modules'. A goroutine begins any call and goes on step by step. `Announce`, `Enter`,
`Unlock`, `RLock` and `RUnlock` are Go's RWMutex, where a writer that waits keeps new
readers out, those included that read already; a Mutex is one that nobody reads. The
iterators and subscribers of the embedding program make a call of their own or none
(`CallBack`), an iteration with a callback of its own included.

**RBAC.** ListNodeRoles and ListUserRoles are the same steps. The history of a call is
what a reader could have seen since it began.

**MeshDB** adds the two objects that are set whole: `SetGet` is the read, through the
informer of the process, and `SetApply` the apply; `SetReturn` is a step of its own,
since another process may apply before the caller goes on. The history `standing` is
what the last set that returned may be found as: itself, or a set that ran with it or
later. The values of a mesh state are records of the fields that are not empty, since
what may go wrong is a mixture of two.

## 3. The runs

| run | instance | shows |
|---|---|---|
| `storage_safety` | 2 nodes, 2 keys in one Secret, no cache, every item expires, 1 deferred delete, crashes | TypeOK; SoleWriter: until elections overlap one process can write; CleanApply: what a call applies differs from the Secret in its own key only |
| `storage_refines` | the same, with items that expire and items that do not, under `Exclusive` | KVSpec: Storage implements KVStore |
| `storage_progress` | 1 node with an informer, 1 key, 2 deferred deletes | CallsReturn: st.mu is given back; ReapsRun: deferred deletes get it |
| `bucket_list` | 15 keys of up to 3 segments in 2 namespaces, 3 writes, every prefix | TypeOK, HeldIsStored, ListFinds: a key is listed under each of its prefixes while its Secret has its label |
| `reconciler_onesecret` | 2 subscriptions to 1 Secret, 3 changes, failing requests, crashes | TypeOK, SeenIsTold, NoFalseDeletion; Converges: subscribers end up with what is stored in the Secrets that exist |
| `consensus_group` | 2 storage nodes, 1 of them active, 1 observer; the active node has an informer | TypeOK, LeaderWasObserved, ObserversKeepToThemselves |
| `lifecycle_election` | 2 storage nodes and an observer, partitions, crashes | TypeOK; WriterHoldsLease: without a fault only the holder passes the check of PutValue; SomebodyLeads: a lost lease is fought for again; StaleLeaderYields: who has lost it learns of it; ClosedStops |
| `graph_subscribers` | 2 subscriptions, 2 Peers, 1 edge, 1 route, 2 changes | TypeOK, QuietAfterRemoval; UpdatesHeard: subscribers hear of each Peer as it is now |
| `locks_calls` | 2 goroutines and 1 controller, callbacks that call anything | TypeOK; OnlyKnownDeadlocks: the nested read lock of GetLeader and callbacks, nothing else; DeadlockContained: what goes on beside the deadlock of GetLeader; WaitersGetIn: every other call returns |
| `meshdb` | 2 roles, 2 bindings, 1 list, informers, 4 changes; 2 processes, 3 sets | TypeOK, SettingsTypeOK; ListIsRegular: the answer could be read in the course of the call; BlamesMissing; LastSetWins: the last set that returned is found, whole |

Runs in which the code does what a comment says it does not:

| run | what happens |
|---|---|
| `storage_lostwrite` | one node with the cache enabled: its second write undoes its first |
| `reconciler_othersecret` | an event of one Secret is told as the deletion of the keys seen in another |

The passing runs beside them say where the code is right: `storage_safety` reads from
the API server, `reconciler_onesecret` has one Secret. UpdatesHeard, which holds with
edges and routes, speaks of Peers that were told *at some time* as they are now; the
empty peer that an edge's event tells (section 5) may come after that.

### Bounds, and why they are enough

* `Nodes` of Storage: two, because each of its hazards is between two writers; a third
  leader is to the second what the second is to the first. Two keys in one Secret are
  what a whole-Secret apply can confuse. Three keys and two Secrets in
  `storage_lostwrite`.
* `ReapIds`, `MaxTime`: a clock of two ticks has items that expired, expire and do not
  expire yet. Two deferred deletes, in `storage_progress`, wait behind each other.
* `MaxWrites`: two changes make a queue coalesce and a reader stale; three and four let
  something be put, removed and put again. A listing goes wrong for a key because of the
  last write to its Secret, so that three writes suffice in BucketIndex.
* `Callers` (Consensus): the second storage node is a peer and a holder of the lease but
  makes no calls; the first adds and removes all peers, which is what calls of the
  second would do.
* `Subs`: two, because what goes wrong between subscriptions is one ending the loop for
  the next.
* Lifecycle needs no bound.
* Locks: two goroutines and a worker, with calls that repeat without bound. A circle of
  waits needs two parties, three when one only keeps a reader out; each lock is taken by
  two of the three in some call. Callbacks take the longest path of each call; that of the
  iteration has those of the other storage calls in it, and that of Close those of Start.
* `MaxSets`: one set that lags, one that returns in between and one that fails.
  `Bounded`: settings and roles share no object, so that a behaviour of `meshdb` changes
  only the ones or the others.

### Constraint

`storage_refines` has the state constraint `Exclusive`: at most one snapshot of a Secret
is on its way back to it. TLC does not look beyond a state that breaks it. It is not an
assumption about the code, which breaks it when elections overlap and when a deferred
delete waits behind a write; it is the condition under which the store is a map.
`SoleWriter` says how far the election supplies it, and `OverlapsNeedFaults` (section 4)
when it does not.

### Fairness

* Storage: a goroutine that holds `st.mu` goes on, because requests return (weak
  fairness); a deferred delete gets `st.mu` although calls keep coming, because
  `sync.Mutex` hands itself to a waiter of more than 1 ms (strong fairness of
  ReapStart). No node is assumed to be elected.
* Reconciler and PeerGraph: the work queue is first in, first out, and a Get that fails
  is retried, so that each queued name is taken (strong fairness, since Close and
  Subscribe may come first); a Reconcile in progress goes on, which supposes that
  callbacks return; patchBucket goes on to its second request. Changes are bounded, so
  that every fair behaviour becomes quiet.
* Lifecycle: goroutines run, and an elector that can take the lease at every try takes
  it, since it tries every RetryPeriod and a connected node's request does not fail for
  ever. Nodes stay up or connected only as far as SomebodyLeads supposes it of one of
  them.
  That a connected elector that does not lead reads the lease is what a try begins with
  (`Observe`).
* Locks: goroutines run and callbacks return. A `sync.Mutex` is handed to the waiter of
  more than 1 ms, so that a Lock succeeds that is possible again and again (strong
  fairness of Announce); a reader needs no such thing, since the writer that leaves lets
  it in.
* Consensus, BucketIndex, RBAC and MeshDB have safety properties only.

## 4. The proofs

`StorageProofs` has three parts. The first proves of `Spec` of Storage, for every set of nodes,
keys, values, ttls, buckets and pending deletes, with and without the cache. They use
the assumptions named in the modules: ttls and the bound on the clock are naturals, the
Secret of a key is a Secret, `DisableCache` is Boolean.

* `TypeCorrect`: `[]TypeOK`. TypeOK is inductive; one step per action, with lemmas for
  what `With`, `Without`, `View` and `Expiry` return.
* `SoleWriterCorrect`: `[]SoleWriter`, inductive together with TypeOK: a write starts
  only at a leader, a deferred delete is left only by a leader, a node that loses the
  lead stays active while its writes are in flight, and `Elect` sets `overlap` when
  another node is active.
* `CleanApplyCorrect`: `[]CleanApply`. Its premise is that reads go to the API server
  and elections have not overlapped; items may expire and deferred deletes be pending.
  It is not inductive alone. SoleWriter supplies that nobody else applies while a call
  is between its read and its apply, and the helper `DropsEmpty` that a call about to
  delete the Secret has an empty copy, so that the Secret it deletes had nothing but the
  call's own key.

The second part proves that Storage implements KVStore, on the premises of
`storage_refines`: reads go to the API server (`DisableCache`), and `Exclusive` holds
throughout. It is a formula over behaviours here, `[]Exclusive`, where the run has a
state constraint.

* `StorageIsAMap`: `Spec /\ []Exclusive => KVSpec`. A call that applies a whole Secret
  is the change of one item in the map only if the rest of the Secret is as it was read.
  The invariant says so of each snapshot: what a call is about to apply is the Secret as
  it is now, with the call's own key changed (`CallsCurrent`), and what a deferred delete
  keeps is the Secret as it is now, with its key expired (`ReapsCurrent`); and a Secret
  has one item per key and keys of its own (`SecretsTidy`), without which the union of
  the Secrets would not be a map. Then, action by action: a request to the API server is
  an Apply, a Return or a Collect of the map, and everything else is a Read, a refusal,
  the beginning of a call, or nothing. `Exclusive` is used for one thing, that nobody
  else changes a Secret that somebody has a snapshot of (`Alone`).
* `LeadershipIsEnough`: where no value has a ttl, `Spec /\ []~overlap => KVSpec`.
  Nothing expires, so that GetValue leaves no deferred deletes (`NothingExpires`), the
  only snapshots are those of writes, and SoleWriter makes them one. With ttls the
  premise is not enough: a deferred delete of the leader competes with the leader's own
  writes.

The third part is about ElectedStorage, for every set of nodes. Its invariant is that of
LifecycleProofs (`Unfaulted`, below), of the nodes that are *active* in place of those
whose elector answers yes: a write in flight and a deferred delete outlive that answer.

* `ElectionsAreStorage`: `ElectedSpec => Spec`, and `leading` is what the electors answer.
  The elections of Storage are free; these are among them, so that the theorems on
  Storage hold here.
* `ActiveNodesHoldTheLease`: who may write, is writing or has a deferred delete to run
  holds the lease, unless it was cut off, closed or dead since it took or renewed it.
* `OverlapsNeedFaults`: the action property that a step which makes elections overlap
  finds such a node still active, without the lease.

Nothing in the code stops a write that is under way, or a node that waits in a Get, when
its elector loses the lease; LeaseDuration and RenewDeadline only make it unlikely. So no
theorem says that the store is a map past such a fault.

`ConsensusProofs` proves three theorems of `Spec` of Consensus, for every set of storage
nodes and observers, whichever of them have a cache. It uses that the two sets are
disjoint, and that `NoNode` is in neither.

* `ConsensusTypeCorrect`: `[]TypeOK`.
* `LeaderWasObservedCorrect`: `[]LeaderWasObserved`. The inductive invariant adds
  `HeldSoFar`: in a call in the loop, what the elector reports now has been recorded,
  and the peer of a question that was answered yes is among what was recorded. Without
  it a peer could be named on the strength of an answer nobody gave.
* `ObserversKeepToThemselvesCorrect`: the action property, because an observer never has
  a second request pending (`ObserversFree`): DemotePatch, which makes no check of its
  own, is out of its reach.

`BucketIndexProofs`, for every alphabet, every set of keys and prefixes over it, of any
length, and any number of namespaces and writes. The assumptions are that `/` and `_`
are characters and lower case keeps them, that keys are not empty, and that `MaxWrites`
is a natural.

* `BucketTypeCorrect`: `[]TypeOK`; a namespace has one Secret of each name.
* `HeldIsStoredCorrect`: `[]HeldIsStored`. The invariant adds that a key is in the Secret
  of its own bucket (`Placed`), without which a Delete could leave it in another.
* `ListFindsCorrect`: `[]ListFinds`, from the former and a fact about sequences
  (`PrefixOfBucket`): the bucket of a prefix is a prefix of the bucket of the key. The
  last separator of the prefix is not after that of the key; and if the prefix has none
  it ends before the key's last one. That a last separator exists takes an induction:
  it is the least number of a set of naturals, `WFMin` of the library.

`LifecycleProofs`, for every set of storage nodes and observers.

* `TypeCorrect`: `[]TypeOK`; that an observer never has an election loop is part of it.
* `WritersHoldTheLease`: `[]WriterHoldsLease`. The inductive invariant says of each node
  that is not in `faulted` that it is connected and open, that it renews exactly if it
  holds the lease (so that no other can take it) and that it sees itself as the holder
  only if it is.

`ReconcilerProofs`, for every set of keys, Secrets and subscriptions.

* `TypeCorrect`: `[]TypeOK`, with no assumption but those on the constants.
* `RemembersWhatItTold`: `[]SeenIsTold`, where no key is the name of a Secret
  (`KeysAreNoNames`: keys of two segments or more). Inductive together with TypeOK.
* `TellsNoFalseDeletion`: the action property NoFalseDeletion, where moreover all keys
  are in one Secret (`OneSecret`). Both conditions are needed: the run
  `reconciler_othersecret` refutes the property without the second.

`PeerGraphProofs`, for every graph, every naming of nodes (with NamesAssumption) and
every set of subscriptions.

* `TypeCorrect`: `[]TypeOK`; the queue has names of Peers and node IDs only.
* `RemovedAreQuiet`: the action property QuietAfterRemoval, since the subscription that
  Reconcile is calling has not been removed (`ToldIsSubscribed`): Close waits for submu.

`MeshDBProofs`, for every set of roles, rules, bindings, calls and processes, with and
without informers.

* `RBACTypeCorrect`, `ListsAreRegular`, `MissingRolesAreBlamed`: `[]TypeOK`,
  `[]ListIsRegular`, `[]BlamesMissing`. The properties speak of calls that answered. The
  invariant says of those under way that each binding is still to be looked at or has
  its role among the results (`Gathered`), that what is visible now is in the call's
  history (`Watched`), and that a call that failed has a role to blame (`Blamed`).
* `LastSetsWin`: `[]LastSetWins`, from: what is stored is among what was applied since
  any set that has applied and not yet returned began (`Applied`).
* `SettingsTypeCorrect`: `[]SettingsTypeOK`.
* `DBListsAreRegular`: the three results about RBAC hold of MeshDB, because a step of it
  is a step of RBAC or leaves its variables alone.

`LocksProofs`, for any number of goroutines and workers and whatever calls callbacks
make of those the process has, callbacks of callbacks included (`BackCallsAssumption`).

* `LocksTypeCorrect`: `[]TypeOK`: nobody unlocks what it does not hold.
* `DeadlocksAreKnown`, `DeadlocksAreContained`: `[]OnlyKnownDeadlocks` and
  `[]DeadlockContained`. The locks have a rank: p.mu, subsmu, submu, st.mu, c.mu,
  state.mu. The invariant relates what a goroutine holds now (`Holding`) to the rest of
  its call (`Leads`): the rest gives back all of it, and whoever asks for a lock on the
  way holds only locks of lower rank, but in a callback and for the second time in
  GetLeader. What it holds at each position of the rest is a function from positions
  that `Leads` says exists, so that a step takes its first value away and a call or a
  callback is joined to it at the front (`JoinLeads`); no induction over sequences is
  needed. In a circle of waits one asks for a lock of the highest rank
  (`HighestInCircle`), and the next one holds that lock and asks for another: it can
  only be one of the exceptions (`HolderInCircle`).
* `HarmlessCallbacks`: if iterators and subscribers call nothing but Consensus and the
  mesh state, every deadlock has a GetLeader in it that asks for c.mu again: what they ask
  for ranks above the locks they are called with (`InnerOnly`).

Model-checked only: liveness, since fairness and ENABLED are out of the prover's reach:
CallsReturn, ReapsRun, Converges, SomebodyLeads, ClosedStops, StaleLeaderYields,
UpdatesHeard and WaitersGetIn. Every other property of a run that passes is stated by a
theorem.

## 5. Where code and comments part

Seen while modelling, each at the line given. The models have the behaviour unless a
reason is named; the two that are runs are in section 3.

* A leader that stalls between its Get and its apply undoes the writes of the next
  leader (`storage.go:183`); a deferred delete undoes writes made since GetValue read
  the Secret (`storage.go:122`). Both break `Exclusive`.
* An empty bucket is deleted and then applied again at once (`storage.go:305`), so that
  empty Secrets stay.
* Keys that differ in case share a Secret whose label is that of the last write, and are
  not listed while it has the other label (`storage.go:316`, `:345`). ListKeys lists
  every namespace (`:325`). A bucket of two segments or more has a `_` in its name,
  which Kubernetes refuses (`:367`).
* The deletion of a Secret is told under the name of the Secret, not of its keys, and
  `seen` keeps them (`reconciler.go:68`). A key of one segment therefore comes back with
  its old value untold.
* GetLeader asks twice in one condition (`consensus.go:149`): when the lease passes from
  the peer to this node in between, the other node's peer is stored as "ourself", and
  the fast path names it whenever this node leads. LeaderWasObserved allows for that.
* DemoteVoter makes a member of a peer that another node removed after the Get
  (`consensus.go:240`). It applies what it read, whose kind client-go may have left out.
* Two nodes that list no peers both bootstrap (`provider.go:349`). An observer passes
  the check of RemovePeer with its own name and is refused by removePeerByIDHash
  (`consensus.go:259`).
* An observer has no elector: Status, once it is a peer, and PutValue and Delete at once
  dereference nil (`provider.go:404`, `storage.go:143`). Status asks the elector up to
  three times, and the answers may differ.
* Close leaves `started` set: a closed provider cannot be started again, and a second
  Close, Bootstrap and Status take it for open. When its release of the lease fails its
  elector goes on reporting it as the leader (`provider.go:246`). The error of a manager
  that fails goes to a channel that nobody reads (`:273`).
* The watches of edges and routes queue node IDs where Peers are named by a hash: their
  events find no Peer and tell an empty one under the ID of a node that exists
  (`database.go:105`).
* A removed vertex is told under the hash of its ID (`database.go:163`). AddEdge and
  UpdateEdge apply the edge whatever exists (`graphstore.go:213`, `:230`). Vertex looks
  in every namespace (`:136`; the model has one). IDs of more than 63 characters are
  truncated in labels and may collide (parameter `TruncateNodeID`).
* GetLeader takes `c.mu` for reading and again in IsLeader (`consensus.go:134`, `:149`).
  If AddVoter or RemovePeer asks for it in between, none of them returns, and with them
  hang Status, Bootstrap, Close and every later call on the group; storage, graph and
  notifications go on (DeadlockContained).
* An iterator that calls the storage, reads included, waits for itself
  (`storage.go:276`; the comment at `:249` warns of writes). A subscriber that asks for
  Status, Bootstrap or Close may wait for a Close that waits for it.
* The lists of a subject's roles mean to pass over a role that is gone, but GetRole has
  renamed the error, and the whole list fails (`rbac.go:304`).

## 6. What is not modelled

* Requests that the API server executes after the caller has given up on them: a request
  takes effect before the call returns or never.
* Encodings (JSON items, hashed keys), which are injective; validation of keys; tracing.
* The writes of an observer, and what two GetLeader calls of one node do to `self`, which
  both write under the read lock: Consensus has one at a time.
* What client-go's elector and controller-runtime promise inside: clocks, the lease
  record, watches.
* Network ACLs and groups, which are put and deleted by one request that nothing here
  looks at, and reads that are one request.
* Goroutines that die with a lock held: Locks has no crash, since what a process loses
  it loses with its locks.
* Type declarations, CRDs, manifests, the build.

## 7. Plan

Done, in this order: `DataItems`, `KVStore`, `Storage` and its proofs; `Reconciler`;
`PeerGraph`; `BucketIndex`; `RBAC`; `Consensus` and its proofs; `Lifecycle`; `Locks`;
`MeshDB`; the proofs of Lifecycle, Reconciler, PeerGraph, RBAC and MeshDB; the refinement
of KVStore, ObserversKeepToThemselves and the proofs of BucketIndex and Locks;
`ElectedStorage` and its proofs. Next:

* in Reconciler, the keys stored before a subscription and what it is told of them.
