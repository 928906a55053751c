----------------------------- MODULE Consensus -----------------------------
(***************************************************************************)
(* provider/consensus.go, with Bootstrap and Status of                     *)
(* provider/provider.go: the peers of the storage group, kept as one       *)
(* StoragePeer object each, and who leads it.  c.mu serialises the changes *)
(* one process makes; nothing but the API server's last apply orders the   *)
(* changes of two.  An observer's provider has no leader elector.          *)
(***************************************************************************)
CONSTANTS StorageNodes, Observers,
          NoNode,        \* no holder of the lease; no peer stored
          DisableCache,  \* the nodes with Options.DisableCache
          Callers        \* bound: the nodes that do anything

ASSUME NodesAssumption == /\ StorageNodes \cap Observers = {}
                          /\ NoNode \notin StorageNodes \cup Observers
ASSUME CacheAssumption == DisableCache \subseteq StorageNodes \cup Observers
ASSUME CallersAssumption == Callers \subseteq StorageNodes \cup Observers

VARIABLES peers,     \* the ClusterStatus of each StoragePeer
          cache,     \* the same in each node's informer
          observed,  \* the holder each elector has seen last
          self,      \* Consensus.self: the peer each node has stored
          op,        \* the call that holds each node's c.mu
          boot       \* does Bootstrap hold p.mu

vars == <<peers, cache, observed, self, op, boot>>

Nodes == StorageNodes \cup Observers
Holders == StorageNodes \cup {NoNode}

\* CLUSTER_LEADER is never stored.
Absent == "absent"
Statuses == {Absent, "voter", "observer"}

\* GetLeader asks the elector about one peer of the list after the other: "next" is
\* between two peers, "asked" after the first question answered yes (149), "declined"
\* after the first condition failed.  held is history: what the elector has
\* reported in the course of the call.
Idle == [call |-> "idle"]
Demote == [call: {"demote"}, peer: Nodes]
Leader == [call: {"leader"}, todo: SUBSET Nodes, at: Nodes \cup {NoNode},
           stage: {"next", "asked", "declined"}, held: SUBSET Holders]
Named == [call: {"named"}, peer: Nodes, held: SUBSET Holders]

TypeOK ==
  /\ peers \in [Nodes -> Statuses]
  /\ cache \in [Nodes -> [Nodes -> Statuses]]
  /\ observed \in [StorageNodes -> Holders]
  /\ self \in [StorageNodes -> Nodes \cup {NoNode}]
  /\ op \in [Nodes -> {Idle} \cup Demote \cup Leader \cup Named]
  /\ boot \in [Nodes -> {"idle", "adding"}]

Init ==
  /\ peers = [p \in Nodes |-> Absent]
  /\ cache = [n \in Nodes |-> peers]
  /\ observed = [n \in StorageNodes |-> NoNode]
  /\ self = [n \in StorageNodes |-> NoNode]
  /\ op = [n \in Nodes |-> Idle]
  /\ boot = [n \in Nodes |-> "idle"]

View(n) == IF n \in DisableCache THEN peers ELSE cache[n]
GetPeers(n) == {p \in Nodes : View(n)[p] # Absent}
Free(n) == op[n] = Idle
Refused(n) == n \in Observers

\* The apply or delete of one StoragePeer: it may fail, executed or not.
Request(p, status) == peers' \in {peers, [peers EXCEPT ![p] = status]}

environment == <<cache, observed>>

----------------------------------------------------------------------------
(* Membership.  A refused or failing call changes nothing.                 *)

AddVoter(n, p) ==
  /\ Free(n) /\ ~Refused(n)
  /\ Request(p, "voter")
  /\ UNCHANGED <<environment, self, op, boot>>

\* Mutant of AddObserver: an observer may add any peer.
AddObserverAny(n, p) ==
  /\ Free(n)
  /\ Request(p, "observer")
  /\ UNCHANGED <<environment, self, op, boot>>

AddObserver(n, p) ==
  /\ Free(n)
  /\ Refused(n) => p = n
  /\ Request(p, "observer")
  /\ UNCHANGED <<environment, self, op, boot>>

\* Get of the StoragePeer.
DemoteVoter(n, p) ==
  /\ Free(n) /\ ~Refused(n)
  /\ p \in GetPeers(n)
  /\ op' = [op EXCEPT ![n] = [call |-> "demote", peer |-> p]]
  /\ UNCHANGED <<peers, environment, self, boot>>

\* Apply of the copy with the status changed; it creates what was removed.
DemotePatch(n) ==
  /\ op[n].call = "demote"
  /\ Request(op[n].peer, "observer")
  /\ op' = [op EXCEPT ![n] = Idle]
  /\ UNCHANGED <<environment, self, boot>>

\* RemovePeer lets an observer pass with its own name; removePeerByIDHash refuses
\* every observer.
RemovePeer(n, p) ==
  /\ Free(n)
  /\ Refused(n) => p = n
  /\ IF Refused(n) THEN UNCHANGED peers ELSE Request(p, Absent)
  /\ UNCHANGED <<environment, self, op, boot>>

----------------------------------------------------------------------------
(* GetLeader of a storage node.  An observer decides by its list alone and *)
(* keeps nothing, so its call is no step of this module.                   *)

Reported(n) == observed[n]
IsLeader(n) == n \in StorageNodes /\ Reported(n) = n

\* Mutant of FastPath: whoever has stored a peer.
FastPathAlways(n) == self[n] # NoNode

FastPath(n) == IsLeader(n) /\ self[n] # NoNode

Name(n, p, held) == op' = [op EXCEPT ![n] = [call |-> "named", peer |-> p, held |-> held]]

\* The stored peer, or the list of all of them; a failing list ends the call.
GetLeader(n) ==
  /\ Free(n) /\ n \in StorageNodes
  /\ IF FastPath(n)
     THEN Name(n, self[n], {Reported(n)})
     ELSE op' = [op EXCEPT ![n] =
            [call |-> "leader", todo |-> GetPeers(n), at |-> NoNode,
             stage |-> "next", held |-> {Reported(n)}]]
  /\ UNCHANGED <<peers, environment, self, boot>>

InLoop(n, stage) == n \in StorageNodes /\ op[n].call = "leader" /\ op[n].stage = stage

\* The next peer of the list, which is in the order of hashes: is it the holder?
AskHolder(n, p) ==
  /\ InLoop(n, "next")
  /\ p \in op[n].todo
  /\ op' = [op EXCEPT ![n].todo = @ \ {p}, ![n].at = p,
                      ![n].stage = IF Reported(n) = p THEN "asked" ELSE "declined"]
  /\ UNCHANGED <<peers, environment, self, boot>>

\* Is this node the leader now?  Then the peer is stored as this node.
AskLeader(n) ==
  /\ InLoop(n, "asked")
  /\ IF IsLeader(n)
     THEN /\ self' = [self EXCEPT ![n] = op[n].at]
          /\ Name(n, op[n].at, op[n].held)
     ELSE op' = [op EXCEPT ![n].stage = "declined"] /\ UNCHANGED self
  /\ UNCHANGED <<peers, environment, boot>>

\* The second condition asks for the holder again.
AskAgain(n) ==
  /\ InLoop(n, "declined")
  /\ IF Reported(n) = op[n].at
     THEN Name(n, op[n].at, op[n].held)
     ELSE op' = [op EXCEPT ![n].at = NoNode, ![n].stage = "next"]
  /\ UNCHANGED <<peers, environment, self, boot>>

\* The answer, or ErrNoLeader at the end of the list.
LeaderReturns(n) ==
  /\ \/ op[n].call = "named"
     \/ InLoop(n, "next") /\ op[n].todo = {}
  /\ op' = [op EXCEPT ![n] = Idle]
  /\ UNCHANGED <<peers, environment, self, boot>>

----------------------------------------------------------------------------
(* Bootstrap and Status hold p.mu.                                         *)

BootstrapList(n) ==
  /\ boot[n] = "idle"
  /\ GetPeers(n) = {}
  /\ boot' = [boot EXCEPT ![n] = "adding"]
  /\ UNCHANGED <<peers, environment, self, op>>

\* Mutant of BootstrapAdd: the CLUSTER_LEADER that Bootstrap passes is stored.
BootstrapAddLeader(n) ==
  /\ boot[n] = "adding" /\ Free(n)
  /\ IF Refused(n) THEN UNCHANGED peers ELSE Request(n, "leader")
  /\ boot' = [boot EXCEPT ![n] = "idle"]
  /\ UNCHANGED <<environment, self, op>>

\* AddVoter of the node itself; the CLUSTER_LEADER it passes is overwritten.
BootstrapAdd(n) ==
  /\ boot[n] = "adding" /\ Free(n)
  /\ IF Refused(n) THEN UNCHANGED peers ELSE Request(n, "voter")
  /\ boot' = [boot EXCEPT ![n] = "idle"]
  /\ UNCHANGED <<environment, self, op>>

\* The process dies and starts again.
Restart(n) ==
  /\ op' = [op EXCEPT ![n] = Idle]
  /\ boot' = [boot EXCEPT ![n] = "idle"]
  /\ self' = [m \in StorageNodes |-> IF m = n THEN NoNode ELSE self[m]]
  /\ observed' = [m \in StorageNodes |-> IF m = n THEN NoNode ELSE observed[m]]
  /\ cache' = IF n \in DisableCache THEN cache ELSE [cache EXCEPT ![n] = peers]
  /\ UNCHANGED peers

\* Status only reads; but when it finds the node among the peers it asks the elector,
\* and an observer has none: the nil pointer ends its process.
StatusPanics(n) ==
  /\ boot[n] = "idle" /\ Free(n)
  /\ n \in Observers
  /\ n \in GetPeers(n)
  /\ Restart(n)

----------------------------------------------------------------------------
(* The electors and the informer.                                          *)

\* The elector reads the lease.
Observe(n, h) ==
  /\ observed' = [observed EXCEPT ![n] = h]
  /\ op' = IF op[n].call = "leader" THEN [op EXCEPT ![n].held = @ \cup {h}] ELSE op
  /\ UNCHANGED <<peers, cache, self, boot>>

CacheSync(n) ==
  /\ n \notin DisableCache
  /\ cache' = [cache EXCEPT ![n] = peers]
  /\ UNCHANGED <<peers, observed, self, op, boot>>

----------------------------------------------------------------------------

Calls(n) ==
  \/ \E p \in Nodes : \/ AddVoter(n, p) \/ AddObserver(n, p) \/ DemoteVoter(n, p)
                      \/ RemovePeer(n, p) \/ AskHolder(n, p)
  \/ DemotePatch(n)
  \/ GetLeader(n) \/ AskLeader(n) \/ AskAgain(n) \/ LeaderReturns(n)
  \/ BootstrapList(n) \/ BootstrapAdd(n) \/ StatusPanics(n)

Next ==
  \/ \E n \in Callers : Calls(n) \/ CacheSync(n) \/ Restart(n)
  \/ \E n \in Callers \cap StorageNodes, h \in Holders : Observe(n, h)

Spec == Init /\ [][Next]_vars

----------------------------------------------------------------------------
(* Properties *)

\* An observer changes no StoragePeer but its own, and that one to an observer.
ObserversKeepToThemselves ==
  [][\A n \in Observers :
       Calls(n) => /\ \A p \in Nodes \ {n} : peers'[p] = peers[p]
                   /\ peers'[n] \in {peers[n], "observer"}]_vars

\* However the elector's reports change while GetLeader asks about one peer after the
\* other, the peer it names was reported in the course of the call; or it is
\* the stored one, and this node was reported itself.  The stored one may be
\* another node's: the lease can pass from it to this node before AskLeader.
LeaderWasObserved ==
  \A n \in StorageNodes :
    op[n].call = "named" =>
      \/ op[n].peer \in op[n].held
      \/ op[n].peer = self[n] /\ n \in op[n].held
=============================================================================
