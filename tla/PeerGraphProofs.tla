-------------------------- MODULE PeerGraphProofs --------------------------
(***************************************************************************)
(* What TLAPS proves of PeerGraph for every graph, every naming of its     *)
(* nodes and every set of subscriptions: the type invariant and            *)
(* QuietAfterRemoval, which rests on the subscription that Reconcile is    *)
(* calling being one that was not removed.                                 *)
(***************************************************************************)
EXTENDS PeerGraph, TLAPS

ToldIsSubscribed == work.telling \subseteq subs

IInv == TypeOK /\ ToldIsSubscribed

USE PairsAssumption, NamesAssumption, ValuesAssumption, BoundAssumption

-----------------------------------------------------------------------------
(* Changes to the graph *)

LEMMA InitIInv == Init => IInv
  BY DEF Init, IInv, TypeOK, ToldIsSubscribed, NoWork, IDs

LEMMA ChangePeerKeeps ==
  ASSUME IInv, NEW n \in NodeIDs, NEW v \in Values \cup {Absent}, ChangePeer(n, v)
  PROVE  IInv'
<1>1. peers' \in [NodeIDs -> Values \cup {Absent}] /\ writes' \in 0..MaxWrites
  BY DEF ChangePeer, Write, IInv, TypeOK
<1>2. queue' \subseteq IDs
  BY DEF ChangePeer, IInv, TypeOK, IDs
<1>3. heard' \in [Subs -> SUBSET NodeIDs] /\ owed' \in [Subs -> SUBSET NodeIDs]
  BY DEF ChangePeer, IInv, TypeOK
<1>4. UNCHANGED <<edges, routes, work, subs, cancelled, unused, told>>
  BY DEF ChangePeer, subscriptions
<1> QED BY <1>1, <1>2, <1>3, <1>4 DEF IInv, TypeOK, ToldIsSubscribed

LEMMA EdgeKeeps ==
  ASSUME IInv, NEW e \in Pairs, ApplyEdge(e) \/ RemoveEdge(e)
  PROVE  IInv'
<1>1. EdgeRequests(e) \subseteq IDs
  BY DEF EdgeRequests, IDs
<1>2. edges' \subseteq Pairs /\ queue' \subseteq IDs /\ writes' \in 0..MaxWrites
  BY <1>1 DEF ApplyEdge, RemoveEdge, Write, IInv, TypeOK
<1>3. UNCHANGED <<peers, routes, work, subs, cancelled, unused, told, heard, owed>>
  BY DEF ApplyEdge, RemoveEdge, subscriptions, history
<1> QED BY <1>2, <1>3 DEF IInv, TypeOK, ToldIsSubscribed

LEMMA RouteKeeps ==
  ASSUME IInv, NEW r \in Routes, NEW n \in NodeIDs \cup {Absent}, ChangeRoute(r, n)
  PROVE  IInv'
<1>1. RouteRequests(n) \subseteq IDs /\ RouteRequests(routes[r]) \subseteq IDs
  BY DEF RouteRequests, IDs, IInv, TypeOK
<1>2. /\ routes' \in [Routes -> NodeIDs \cup {Absent}]
      /\ queue' \subseteq IDs
      /\ writes' \in 0..MaxWrites
  BY <1>1 DEF ChangeRoute, Write, IInv, TypeOK
<1>3. UNCHANGED <<peers, edges, work, subs, cancelled, unused, told, heard, owed>>
  BY DEF ChangeRoute, subscriptions, history
<1> QED BY <1>2, <1>3 DEF IInv, TypeOK, ToldIsSubscribed

-----------------------------------------------------------------------------
(* Subscriptions *)

LEMMA SubscriptionKeeps ==
  ASSUME IInv, (\E s \in Subs : Subscribe(s) \/ Cancel(s)) \/ Close
  PROVE  IInv'
<1>1. CASE \E s \in Subs : Subscribe(s)
  BY <1>1 DEF Subscribe, IInv, TypeOK, ToldIsSubscribed, graph, history
<1>2. CASE \E s \in Subs : Cancel(s)
  BY <1>2 DEF Cancel, IInv, TypeOK, ToldIsSubscribed, graph, history
<1>3. CASE Close
  BY <1>3 DEF Close, IInv, TypeOK, ToldIsSubscribed, NoWork, graph, history
<1> QED BY <1>1, <1>2, <1>3

LEMMA RestartKeeps ==
  ASSUME IInv, Restart
  PROVE  IInv'
<1>1. \A e \in edges : EdgeRequests(e) \subseteq IDs
  BY DEF IInv, TypeOK, EdgeRequests, IDs
<1>2. \A r \in Routes : RouteRequests(routes[r]) \subseteq IDs
  BY DEF IInv, TypeOK, RouteRequests, IDs
<1>3. \A n \in NodeIDs : HashNodeID[n] \in IDs
  BY DEF IDs
<1>4. queue' \subseteq IDs
  <2> DEFINE ofPeers == {HashNodeID[n] : n \in {m \in NodeIDs : peers[m] # Absent}}
             ofEdges == UNION {EdgeRequests(e) : e \in edges}
             ofRoutes == UNION {RouteRequests(routes[r]) : r \in Routes}
  <2>1. ofPeers \subseteq IDs /\ ofEdges \subseteq IDs /\ ofRoutes \subseteq IDs
    BY <1>1, <1>2, <1>3
  <2>2. queue' = ofPeers \cup ofEdges \cup ofRoutes
    BY DEF Restart
  <2> HIDE DEF ofPeers, ofEdges, ofRoutes
  <2> QED BY <2>1, <2>2
<1> QED BY <1>4 DEF Restart, IInv, TypeOK, ToldIsSubscribed, NoWork, graph, history

-----------------------------------------------------------------------------
(* Reconcile *)

\* A name is that of one Peer at most.
LEMMA ReadOne ==
  ASSUME NEW request
  PROVE  Read(request) = {} \/ \E n \in NodeIDs : Read(request) = {n} /\ peers[n] # Absent
  BY DEF Read

LEMMA ReconcileGetKeeps ==
  ASSUME IInv, NEW request \in IDs, ReconcileGet(request)
  PROVE  IInv'
<1>1. work' \in Work
  <2>1. CASE Read(request) = {}
    BY <2>1 DEF ReconcileGet, Work
  <2>2. CASE Read(request) # {}
    <3>1. PICK n \in NodeIDs : Read(request) = {n} /\ peers[n] # Absent
      BY <2>2, ReadOne
    <3>2. (CHOOSE m \in NodeIDs : m \in Read(request)) = n
      BY <3>1
    <3>3. peers[n] \in Values
      BY <3>1 DEF IInv, TypeOK
    <3> QED BY <2>2, <3>1, <3>2, <3>3 DEF ReconcileGet, Work
  <2> QED BY <2>1, <2>2
<1>2. work'.telling = {}
  BY DEF ReconcileGet
<1> QED BY <1>1, <1>2
        DEF ReconcileGet, IInv, TypeOK, ToldIsSubscribed, graph, subscriptions, history

LEMMA WorkType ==
  ASSUME IInv, work # NoWork
  PROVE  work \in Work
  BY DEF IInv, TypeOK

LEMMA ReconcileNextKeeps ==
  ASSUME IInv, NEW s \in Subs, ReconcileNext(s)
  PROVE  IInv'
<1>1. work \in Work /\ s \in subs
  BY WorkType DEF ReconcileNext
<1>2. work' \in Work /\ subs' \subseteq Subs /\ work'.telling \subseteq subs'
  <2>1. CASE s \in cancelled
    <3>1. work' = [work EXCEPT !.done = @ \cup {s}] /\ subs' = subs \ {s} /\ work.telling = {}
      BY <2>1 DEF ReconcileNext
    <3>2. work.done \cup {s} \in SUBSET Subs
      BY <1>1 DEF Work
    <3>3. work' \in Work /\ work'.telling = {}
      BY <1>1, <3>1, <3>2 DEF Work
    <3> QED BY <3>1, <3>3 DEF IInv, TypeOK
  <2>2. CASE s \notin cancelled
    <3>1. work' = [work EXCEPT !.telling = {s}] /\ subs' = subs
      BY <2>2 DEF ReconcileNext
    <3>2. work' \in Work /\ work'.telling = {s}
      BY <1>1, <3>1 DEF Work
    <3> QED BY <1>1, <3>1, <3>2 DEF IInv, TypeOK
  <2> QED BY <2>1, <2>2
<1> QED BY <1>2 DEF ReconcileNext, IInv, TypeOK, ToldIsSubscribed, graph, history

LEMMA ReconcileTellKeeps ==
  ASSUME IInv, NEW s \in Subs, ReconcileTell(s)
  PROVE  IInv'
<1>1. work \in Work
  BY WorkType DEF ReconcileTell, NoWork
<1>2. ID \in IDs /\ work.value \in Values \cup {Empty} /\ work.object \subseteq NodeIDs
  BY <1>1 DEF ID, IDs, Work
<1>3. told' \in [Subs -> [IDs -> Values \cup {Absent, Empty}]]
  BY <1>2 DEF ReconcileTell, IInv, TypeOK
<1>4. heard' \in [Subs -> SUBSET NodeIDs]
  BY <1>2 DEF ReconcileTell, IInv, TypeOK
<1>5. work' \in Work /\ work'.telling = {}
  BY <1>1 DEF ReconcileTell, Work
<1> QED BY <1>3, <1>4, <1>5
        DEF ReconcileTell, IInv, TypeOK, ToldIsSubscribed, graph, subscriptions

LEMMA NextIInv == IInv /\ [Next]_vars => IInv'
<1> SUFFICES ASSUME IInv, [Next]_vars PROVE IInv'
  OBVIOUS
<1>1. ASSUME NEW n \in NodeIDs, RemoveVertex(n) \/ \E v \in Values : AddVertex(n, v)
      PROVE  IInv'
  BY <1>1, ChangePeerKeeps DEF RemoveVertex, AddVertex
<1>2. ASSUME NEW e \in Pairs, AddEdge(e) \/ UpdateEdge(e) \/ RemoveEdge(e)
      PROVE  IInv'
  BY <1>2, EdgeKeeps DEF AddEdge, UpdateEdge
<1>3. ASSUME NEW r \in Routes, DeleteRoute(r) \/ \E n \in NodeIDs : PutRoute(r, n)
      PROVE  IInv'
  BY <1>3, RouteKeeps DEF DeleteRoute, PutRoute
<1>4. ASSUME NEW s \in Subs, Subscribe(s) \/ Cancel(s) \/ ReconcileNext(s) \/ ReconcileTell(s)
      PROVE  IInv'
  BY <1>4, SubscriptionKeeps, ReconcileNextKeeps, ReconcileTellKeeps
<1>5. ASSUME NEW request \in IDs, ReconcileGet(request)
      PROVE  IInv'
  BY <1>5, ReconcileGetKeeps
<1>6. CASE ReconcileEnd
  BY <1>6 DEF ReconcileEnd, IInv, TypeOK, ToldIsSubscribed, NoWork, graph, subscriptions, history
<1>7. CASE Close \/ Restart
  BY <1>7, SubscriptionKeeps, RestartKeeps
<1>8. CASE UNCHANGED vars
  BY <1>8 DEF vars, IInv, TypeOK, ToldIsSubscribed, graph, subscriptions, history
<1> QED BY <1>1, <1>2, <1>3, <1>4, <1>5, <1>6, <1>7, <1>8 DEF Next

LEMMA Invariance == Spec => []IInv
  BY InitIInv, NextIInv, PTL DEF Spec

-----------------------------------------------------------------------------

\* The queue holds names of Peers and IDs of nodes and nothing else, and a subscriber is
\* told a MeshNode or an empty one, whatever changes, fails or is removed meanwhile.
THEOREM TypeCorrect == Spec => []TypeOK
  BY Invariance, PTL DEF IInv

\* A subscription that Close, Reconcile or the end of the process has removed is told
\* nothing more: no call of its function is under way when it is removed.
THEOREM RemovedAreQuiet == Spec => QuietAfterRemoval
<1>1. IInv /\ [Next]_vars => [\A s \in cancelled \ subs : told'[s] = told[s]]_vars
  <2> SUFFICES ASSUME IInv, Next, NEW s \in cancelled \ subs
               PROVE  told'[s] = told[s]
    BY DEF IInv
  <2>1. ASSUME NEW t \in Subs, ReconcileTell(t)
        PROVE  told'[s] = told[s]
    <3>1. t # s
      BY <2>1 DEF ReconcileTell, IInv, ToldIsSubscribed
    <3> QED BY <2>1, <3>1 DEF ReconcileTell, IInv, TypeOK
  <2>2. CASE UNCHANGED told
    BY <2>2
  <2>3. UNCHANGED told \/ \E t \in Subs : ReconcileTell(t)
    BY DEF Next, RemoveVertex, AddVertex, ChangePeer, AddEdge, UpdateEdge, ApplyEdge, RemoveEdge,
           DeleteRoute, PutRoute, ChangeRoute, Subscribe, Cancel, ReconcileNext, ReconcileGet,
           ReconcileEnd, Close, Restart
  <2> QED BY <2>1, <2>2, <2>3
<1> QED BY <1>1, Invariance, PTL DEF Spec, QuietAfterRemoval
=============================================================================
