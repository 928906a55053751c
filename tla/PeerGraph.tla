----------------------------- MODULE PeerGraph -----------------------------
(***************************************************************************)
(* provider/database/graphstore.go with the controller of database.go, and *)
(* the routes of networking.go that the controller watches: the graph of   *)
(* the mesh, kept as one object for each vertex and each edge, and what    *)
(* the subscribers of one process hear of it.  Peers are named by the hash *)
(* of the node's ID, while edges and routes put the ID itself in the       *)
(* controller's queue.  Reconcile holds submu for reading, Subscribe and   *)
(* Close for writing.  A request that fails changes what it would have     *)
(* changed or nothing.                                                     *)
(***************************************************************************)
EXTENDS Naturals

CONSTANTS NodeIDs, Values,
          Pairs,           \* the source and the target of each edge
          Routes,          \* the names of routes
          Names,           \* what HashNodeID and TruncateNodeID return
          HashNodeID,
          TruncateNodeID,
          Subs,            \* subscriptions
          Absent,          \* no such object
          Empty,           \* a MeshNode with nothing but its ID
          MaxWrites        \* bound: changes to the graph

ASSUME PairsAssumption == Pairs \subseteq NodeIDs \X NodeIDs
ASSUME NamesAssumption ==
  /\ HashNodeID \in [NodeIDs -> Names]
  /\ TruncateNodeID \in [NodeIDs -> Names]
  /\ \A m, n \in NodeIDs : /\ HashNodeID[m] = HashNodeID[n] => m = n
                           /\ HashNodeID[m] \notin {n, TruncateNodeID[n]}
ASSUME ValuesAssumption == /\ {Absent, Empty} \cap Values = {} /\ Absent # Empty
                           /\ Absent \notin NodeIDs
ASSUME BoundAssumption == MaxWrites \in Nat

VARIABLES peers,      \* the Peer of each node
          edges,      \* the MeshEdges that exist
          routes,     \* the node of each Route
          queue,      \* the controller's queue
          work,       \* the Reconcile in progress
          subs,       \* GraphStore.subs
          cancelled,  \* subscriptions whose context is done
          unused,     \* subscriptions not made yet
          told,       \* what each subscriber was last told under each ID
          heard,      \* history: the Peers each was told of as they are now
          owed,       \* history: the Peers changed since the subscription
          writes      \* the number of changes

graph == <<peers, edges, routes, writes>>
subscriptions == <<subs, cancelled, unused>>
history == <<heard, owed>>
vars == <<graph, queue, work, subscriptions, told, history>>

IDs == NodeIDs \cup Names

NoWork == [telling |-> {}]
\* object: the Peer that was read, if any; told to one subscriber at a time.
Work == [request: IDs, object: {{}} \cup {{n} : n \in NodeIDs}, value: Values \cup {Empty},
         telling: {{}} \cup {{s} : s \in Subs}, done: SUBSET Subs]

TypeOK ==
  /\ peers \in [NodeIDs -> Values \cup {Absent}]
  /\ edges \subseteq Pairs
  /\ routes \in [Routes -> NodeIDs \cup {Absent}]
  /\ queue \subseteq IDs
  /\ work = NoWork \/ work \in Work
  /\ subs \subseteq Subs /\ cancelled \subseteq Subs /\ unused \subseteq Subs
  /\ told \in [Subs -> [IDs -> Values \cup {Absent, Empty}]]
  /\ heard \in [Subs -> SUBSET NodeIDs] /\ owed \in [Subs -> SUBSET NodeIDs]
  /\ writes \in 0..MaxWrites

Init ==
  /\ peers = [n \in NodeIDs |-> Absent]
  /\ edges = {}
  /\ routes = [r \in Routes |-> Absent]
  /\ queue = {}
  /\ work = NoWork
  /\ subs = {} /\ cancelled = {} /\ unused = Subs
  /\ told = [s \in Subs |-> [i \in IDs |-> Absent]]
  /\ heard = [s \in Subs |-> {}] /\ owed = [s \in Subs |-> {}]
  /\ writes = 0

----------------------------------------------------------------------------
(* Changes to the graph, by whatever process, and the events they raise.   *)

Write == writes < MaxWrites /\ writes' = writes + 1

EdgeRequests(e) == {TruncateNodeID[e[1]], TruncateNodeID[e[2]]}
RouteRequests(n) == {n} \ {Absent}

\* A Peer that is applied as it is raises no event.
ChangePeer(n, v) ==
  /\ Write
  /\ peers[n] # v
  /\ peers' = [peers EXCEPT ![n] = v]
  /\ queue' = queue \cup {HashNodeID[n]}
  /\ heard' = [s \in Subs |-> heard[s] \ {n}]
  /\ owed' = [s \in Subs |-> IF s \in subs THEN owed[s] \cup {n} ELSE owed[s]]
  /\ UNCHANGED <<edges, routes, work, subscriptions, told>>

AddVertex(n, v) == ChangePeer(n, v)

\* Edges of the node stay.
RemoveVertex(n) == ChangePeer(n, Absent)

\* The MeshEdge is applied whatever there is.  One that exists raises an event
\* when it changes.
ApplyEdge(e) ==
  /\ Write
  /\ edges' = edges \cup {e}
  /\ \/ queue' = queue \cup EdgeRequests(e)
     \/ e \in edges /\ queue' = queue
  /\ UNCHANGED <<peers, routes, work, subscriptions, told, history>>

AddEdge(e) == ApplyEdge(e)

UpdateEdge(e) == ApplyEdge(e)

RemoveEdge(e) ==
  /\ Write
  /\ e \in edges
  /\ edges' = edges \ {e}
  /\ queue' = queue \cup EdgeRequests(e)
  /\ UNCHANGED <<peers, routes, work, subscriptions, told, history>>

\* The event of an update carries the old labels too.  A Route put again with the
\* same node raises an event when something else in it changes.
ChangeRoute(r, n) ==
  /\ Write
  /\ routes' = [routes EXCEPT ![r] = n]
  /\ \/ queue' = queue \cup RouteRequests(routes[r]) \cup RouteRequests(n)
     \/ routes[r] = n /\ queue' = queue
  /\ UNCHANGED <<peers, edges, work, subscriptions, told, history>>

PutRoute(r, n) == ChangeRoute(r, n)

DeleteRoute(r) == ChangeRoute(r, Absent)

----------------------------------------------------------------------------
(* Subscriptions *)

Subscribe(s) ==
  /\ work = NoWork
  /\ s \in unused
  /\ unused' = unused \ {s}
  /\ subs' = subs \cup {s}
  /\ UNCHANGED <<graph, queue, work, cancelled, told, history>>

\* The subscriber calls the CancelFunc, or its own context ends.
Cancel(s) ==
  /\ s \in subs
  /\ cancelled' = cancelled \cup {s}
  /\ UNCHANGED <<graph, queue, work, subs, unused, told, history>>

\* Mutant of Close: submu is not taken.
CloseUnlocked ==
  /\ cancelled' = cancelled \cup subs
  /\ subs' = {}
  /\ UNCHANGED <<graph, queue, work, unused, told, history>>

Close ==
  /\ work = NoWork
  /\ cancelled' = cancelled \cup subs
  /\ subs' = {}
  /\ UNCHANGED <<graph, queue, work, unused, told, history>>

\* The process dies and starts again: the informers list every object.
Restart ==
  /\ cancelled' = cancelled \cup subs
  /\ subs' = {}
  /\ work' = NoWork
  /\ queue' = {HashNodeID[n] : n \in {m \in NodeIDs : peers[m] # Absent}}
                \cup (UNION {EdgeRequests(e) : e \in edges})
                \cup (UNION {RouteRequests(routes[r]) : r \in Routes})
  /\ UNCHANGED <<graph, unused, told, history>>

----------------------------------------------------------------------------
(* Reconcile *)

Read(request) == {n \in NodeIDs : peers[n] # Absent /\ HashNodeID[n] = request}

\* A Get that fails puts the request back in the queue, and changes nothing.
ReconcileGet(request) ==
  /\ work = NoWork
  /\ request \in queue
  /\ queue' = queue \ {request}
  /\ work' = [request |-> request, object |-> Read(request),
              value |-> IF Read(request) = {} THEN Empty
                                             ELSE peers[CHOOSE n \in NodeIDs : n \in Read(request)],
              telling |-> {}, done |-> {}]
  /\ UNCHANGED <<graph, subscriptions, told, history>>

\* The MeshNode has the ID in the Peer, or the name in the request.
ID == IF work.object = {} THEN work.request ELSE CHOOSE n \in NodeIDs : n \in work.object

\* Mutant of ReconcileNext: the first subscription that is done ends the loop.
ReconcileNextReturns(s) ==
  /\ work # NoWork
  /\ work.telling = {}
  /\ s \in subs \ work.done
  /\ IF s \in cancelled
     THEN /\ subs' = subs \ {s}
          /\ work' = [work EXCEPT !.done = Subs]
     ELSE /\ work' = [work EXCEPT !.telling = {s}]
          /\ UNCHANGED subs
  /\ UNCHANGED <<graph, queue, cancelled, unused, told, history>>

\* The loop comes to s, and looks whether its context is done.
ReconcileNext(s) ==
  /\ work # NoWork
  /\ work.telling = {}
  /\ s \in subs \ work.done
  /\ IF s \in cancelled
     THEN /\ subs' = subs \ {s}
          /\ work' = [work EXCEPT !.done = @ \cup {s}]
     ELSE /\ work' = [work EXCEPT !.telling = {s}]
          /\ UNCHANGED subs
  /\ UNCHANGED <<graph, queue, cancelled, unused, told, history>>

\* Mutant of ReconcileTell: an empty peer is told as nil.
ReconcileTellNil(s) ==
  /\ s \in work.telling
  /\ told' = [told EXCEPT ![s][ID] = IF work.object = {} THEN work.object ELSE work.value]
  /\ heard' = [heard EXCEPT ![s] = @ \cup {n \in work.object : peers[n] = work.value}]
  /\ work' = [work EXCEPT !.telling = {}, !.done = @ \cup {s}]
  /\ UNCHANGED <<graph, queue, subscriptions, owed>>

\* sub.fn
ReconcileTell(s) ==
  /\ s \in work.telling
  /\ told' = [told EXCEPT ![s][ID] = work.value]
  /\ heard' = [heard EXCEPT ![s] = @ \cup {n \in work.object : peers[n] = work.value}]
  /\ work' = [work EXCEPT !.telling = {}, !.done = @ \cup {s}]
  /\ UNCHANGED <<graph, queue, subscriptions, owed>>

ReconcileEnd ==
  /\ work # NoWork
  /\ work.telling = {}
  /\ subs \subseteq work.done
  /\ work' = NoWork
  /\ UNCHANGED <<graph, queue, subscriptions, told, history>>

----------------------------------------------------------------------------

Next ==
  \/ \E n \in NodeIDs : RemoveVertex(n) \/ \E v \in Values : AddVertex(n, v)
  \/ \E e \in Pairs : AddEdge(e) \/ UpdateEdge(e) \/ RemoveEdge(e)
  \/ \E r \in Routes : DeleteRoute(r) \/ \E n \in NodeIDs : PutRoute(r, n)
  \/ \E s \in Subs : Subscribe(s) \/ Cancel(s) \/ ReconcileNext(s) \/ ReconcileTell(s)
  \/ \E request \in IDs : ReconcileGet(request)
  \/ ReconcileEnd
  \/ Close
  \/ Restart

Spec == Init /\ [][Next]_vars

\* The queue is first in, first out, a Get that fails is retried, and callbacks
\* return.
Fairness ==
  /\ \A request \in IDs : SF_vars(ReconcileGet(request))
  /\ WF_vars(ReconcileEnd \/ \E s \in Subs : ReconcileNext(s) \/ ReconcileTell(s))

FairSpec == Spec /\ Fairness

----------------------------------------------------------------------------
(* Properties *)

Live(s) == s \in subs \ cancelled

\* Reconcile takes submu for reading and Close for writing: a subscription that
\* Close or Reconcile has removed is told nothing any more.
QuietAfterRemoval == [][\A s \in cancelled \ subs : told'[s] = told[s]]_vars

\* Once the graph stops changing, every live subscriber has been told of each
\* Peer that exists and changed since it subscribed, as that Peer is now.
UpdatesHeard ==
  \A s \in Subs :
    <>[](Live(s) => \A n \in owed[s] : peers[n] # Absent => n \in heard[s])
=============================================================================
