-------------------------- MODULE ConsensusProofs --------------------------
(***************************************************************************)
(* What TLAPS proves of Consensus for every set of nodes: the type         *)
(* invariant, LeaderWasObserved and ObserversKeepToThemselves.             *)
(* LeaderWasObserved is not inductive: it needs to know of a GetLeader in  *)
(* its loop that held is what the elector has reported so far, and that a  *)
(* peer the elector was asked about, and said yes to, is in it.  An        *)
(* observer writes no other peer's object because it never has a second    *)
(* request pending.                                                        *)
(***************************************************************************)
EXTENDS Consensus, TLAPS

HeldSoFar ==
  \A n \in StorageNodes :
    op[n].call = "leader" =>
      /\ observed[n] \in op[n].held
      /\ op[n].stage # "next" => op[n].at \in Nodes
      /\ op[n].stage = "asked" => op[n].at \in op[n].held

IInv == TypeOK /\ HeldSoFar /\ LeaderWasObserved

-----------------------------------------------------------------------------

USE NodesAssumption, CallersAssumption DEF Nodes, Holders

LEMMA InitIInv == Init => IInv
  BY DEF Init, IInv, TypeOK, HeldSoFar, LeaderWasObserved, Idle, Statuses, Absent

\* A call that leaves op, self and the elector alone leaves what is said of them.
LEMMA SameOps ==
  ASSUME IInv, UNCHANGED <<op, observed, self>>
  PROVE  HeldSoFar' /\ LeaderWasObserved'
  BY DEF IInv, HeldSoFar, LeaderWasObserved

\* Nor does one node's call that is neither in the loop of GetLeader nor behind it.
LEMMA NotNamed ==
  ASSUME IInv, NEW n \in Nodes, UNCHANGED <<observed, self>>,
         op' = [op EXCEPT ![n] = op'[n]], op'[n].call \notin {"leader", "named"}
  PROVE  HeldSoFar' /\ LeaderWasObserved'
<1>1. ASSUME NEW m \in StorageNodes
      PROVE  op'[m].call \notin {"leader", "named"} \/ op'[m] = op[m]
  BY DEF IInv, TypeOK
<1>2. HeldSoFar'
  BY <1>1 DEF IInv, HeldSoFar
<1>3. LeaderWasObserved'
  BY <1>1 DEF IInv, LeaderWasObserved
<1> QED BY <1>2, <1>3

LEMMA MembershipTypes ==
  ASSUME TypeOK, NEW n \in Nodes, NEW p \in Nodes,
         AddVoter(n, p) \/ AddObserver(n, p) \/ DemoteVoter(n, p)
           \/ RemovePeer(n, p) \/ DemotePatch(n)
  PROVE  TypeOK'
<1>1. CASE AddVoter(n, p)
  BY <1>1 DEF AddVoter, TypeOK, Request, Statuses, Absent, environment
<1>2. CASE AddObserver(n, p)
  BY <1>2 DEF AddObserver, TypeOK, Request, Statuses, Absent, environment
<1>3. CASE DemoteVoter(n, p)
  BY <1>3 DEF DemoteVoter, TypeOK, Demote, environment
<1>4. CASE RemovePeer(n, p)
  BY <1>4 DEF RemovePeer, TypeOK, Request, Statuses, Absent, environment
<1>5. CASE DemotePatch(n)
  BY <1>5 DEF DemotePatch, TypeOK, Request, Statuses, Absent, Idle, environment
<1> QED BY <1>1, <1>2, <1>3, <1>4, <1>5

LEMMA MembershipKeeps ==
  ASSUME IInv, NEW n \in Nodes, NEW p \in Nodes,
         AddVoter(n, p) \/ AddObserver(n, p) \/ DemoteVoter(n, p)
           \/ RemovePeer(n, p) \/ DemotePatch(n)
  PROVE  HeldSoFar' /\ LeaderWasObserved'
<1>1. CASE AddVoter(n, p) \/ AddObserver(n, p) \/ RemovePeer(n, p)
  BY <1>1, SameOps DEF AddVoter, AddObserver, RemovePeer, environment
<1>2. CASE DemoteVoter(n, p)
  <2>1. op' = [op EXCEPT ![n] = op'[n]] /\ op'[n].call = "demote"
    BY <1>2 DEF DemoteVoter, IInv, TypeOK
  <2>2. UNCHANGED <<observed, self>>
    BY <1>2 DEF DemoteVoter, environment
  <2> QED BY <2>1, <2>2, NotNamed
<1>3. CASE DemotePatch(n)
  <2>1. op' = [op EXCEPT ![n] = op'[n]] /\ op'[n].call = "idle"
    BY <1>3 DEF DemotePatch, Idle, IInv, TypeOK
  <2>2. UNCHANGED <<observed, self>>
    BY <1>3 DEF DemotePatch, environment
  <2> QED BY <2>1, <2>2, NotNamed
<1> QED BY <1>1, <1>2, <1>3

----------------------------------------------------------------------------
(* GetLeader *)

\* What a call in the loop is.
LEMMA InLoopType ==
  ASSUME TypeOK, NEW n \in Nodes, op[n].call = "leader"
  PROVE  op[n] \in Leader
BY DEF TypeOK, Idle, Demote, Named

LEMMA GetLeaderStep ==
  ASSUME IInv, NEW n \in Nodes, GetLeader(n)
  PROVE  IInv'
<1>1. n \in StorageNodes /\ UNCHANGED <<peers, cache, observed, self, boot>>
  BY DEF GetLeader, environment
<1>2. CASE FastPath(n)
  <2>1. op' = [op EXCEPT ![n] = [call |-> "named", peer |-> self[n], held |-> {n}]]
    BY <1>2 DEF GetLeader, Name, FastPath, IsLeader, Reported
  <2>2. self[n] \in Nodes
    BY <1>1, <1>2 DEF IInv, TypeOK, FastPath
  <2>3. TypeOK'
    BY <1>1, <2>1, <2>2 DEF IInv, TypeOK, Named
  <2>4. HeldSoFar'
    BY <1>1, <2>1 DEF IInv, TypeOK, HeldSoFar
  <2>5. LeaderWasObserved'
    BY <1>1, <2>1 DEF IInv, TypeOK, LeaderWasObserved
  <2> QED BY <2>3, <2>4, <2>5 DEF IInv
<1>3. CASE ~FastPath(n)
  <2>1. op' = [op EXCEPT ![n] =
           [call |-> "leader", todo |-> GetPeers(n), at |-> NoNode,
            stage |-> "next", held |-> {observed[n]}]]
    BY <1>3 DEF GetLeader, Reported
  <2>2. GetPeers(n) \in SUBSET Nodes
    BY DEF GetPeers
  <2>3. observed[n] \in Holders
    BY <1>1 DEF IInv, TypeOK
  <2>4. TypeOK'
    BY <1>1, <2>1, <2>2, <2>3 DEF IInv, TypeOK, Leader
  <2>5. HeldSoFar'
    BY <1>1, <2>1 DEF IInv, TypeOK, HeldSoFar
  <2>6. LeaderWasObserved'
    BY <1>1, <2>1 DEF IInv, TypeOK, LeaderWasObserved
  <2> QED BY <2>4, <2>5, <2>6 DEF IInv
<1> QED BY <1>2, <1>3

LEMMA AskHolderStep ==
  ASSUME IInv, NEW n \in Nodes, NEW p \in Nodes, AskHolder(n, p)
  PROVE  IInv'
<1>1. /\ op[n].call = "leader"
      /\ UNCHANGED <<peers, cache, observed, self, boot>>
  BY DEF AskHolder, InLoop, environment
<1>2. op[n] \in Leader
  BY <1>1, InLoopType DEF IInv
<1>3. /\ op' = [op EXCEPT ![n] = op'[n]]
      /\ op'[n] = [op[n] EXCEPT !.todo = @ \ {p}, !.at = p,
                               !.stage = IF Reported(n) = p THEN "asked" ELSE "declined"]
  BY DEF AskHolder, IInv, TypeOK
<1>4. /\ op'[n] \in Leader
      /\ op'[n].at = p /\ op'[n].held = op[n].held
      /\ op'[n].stage = "asked" => observed[n] = p
  <2> DEFINE left == op[n].todo \ {p}
             answer == IF Reported(n) = p THEN "asked" ELSE "declined"
  <2>1. left \in SUBSET Nodes
    BY <1>2 DEF Leader
  <2>2. /\ answer \in {"next", "asked", "declined"}
        /\ answer = "asked" => observed[n] = p
    BY DEF Reported
  <2>3. op'[n] = [op[n] EXCEPT !.todo = left, !.at = p, !.stage = answer]
    BY <1>3
  <2> HIDE DEF left, answer
  <2> QED BY <1>2, <2>1, <2>2, <2>3 DEF Leader
<1>5. TypeOK'
  BY <1>1, <1>3, <1>4 DEF IInv, TypeOK
<1>6. op'[n].call = "leader"
  BY <1>4 DEF Leader
<1>7. HeldSoFar'
  BY <1>1, <1>3, <1>4 DEF IInv, TypeOK, HeldSoFar
<1>8. LeaderWasObserved'
  BY <1>1, <1>3, <1>6 DEF IInv, TypeOK, LeaderWasObserved
<1> QED BY <1>5, <1>7, <1>8 DEF IInv

\* An operation that ends, or names a peer, leaves the others as they are.
LEMMA EndsIInv ==
  ASSUME IInv, NEW n \in Nodes, op' = [op EXCEPT ![n] = Idle],
         UNCHANGED <<peers, cache, observed, self, boot>>
  PROVE  IInv'
<1>1. TypeOK'
  BY DEF IInv, TypeOK
<1>2. op' = [op EXCEPT ![n] = op'[n]] /\ op'[n].call = "idle"
  BY DEF IInv, TypeOK, Idle
<1> QED BY <1>1, <1>2, NotNamed DEF IInv

LEMMA AskLeaderStep ==
  ASSUME IInv, NEW n \in Nodes, AskLeader(n)
  PROVE  IInv'
<1>1. /\ op[n].call = "leader" /\ op[n].stage = "asked"
      /\ UNCHANGED <<peers, cache, observed, boot>>
  BY DEF AskLeader, InLoop, environment
<1>2. op[n] \in Leader
  BY <1>1, InLoopType DEF IInv
<1>3. CASE IsLeader(n)
  <2>1. /\ n \in StorageNodes
        /\ self' = [self EXCEPT ![n] = op[n].at]
        /\ op' = [op EXCEPT ![n] = [call |-> "named", peer |-> op[n].at, held |-> op[n].held]]
    BY <1>3 DEF AskLeader, IsLeader, Name
  <2>2. op[n].at \in op[n].held
    BY <1>1, <2>1 DEF IInv, HeldSoFar
  <2>3. op[n].at \in Nodes /\ op[n].held \in SUBSET Holders
    BY <1>1, <1>2, <2>1 DEF IInv, HeldSoFar, Leader
  <2>4. TypeOK'
    BY <1>1, <2>1, <2>3 DEF IInv, TypeOK, Named
  <2>5. HeldSoFar'
    BY <1>1, <2>1 DEF IInv, TypeOK, HeldSoFar
  <2>6. LeaderWasObserved'
    BY <1>1, <2>1, <2>2 DEF IInv, TypeOK, LeaderWasObserved
  <2> QED BY <2>4, <2>5, <2>6 DEF IInv
<1>4. CASE ~IsLeader(n)
  <2>1. UNCHANGED self
        /\ op' = [op EXCEPT ![n] = op'[n]]
        /\ op'[n] = [op[n] EXCEPT !.stage = "declined"]
    BY <1>4 DEF AskLeader, IInv, TypeOK
  <2>2. /\ op'[n] \in Leader /\ op'[n].stage = "declined"
        /\ op'[n].held = op[n].held /\ op'[n].at = op[n].at
    BY <1>2, <2>1 DEF Leader
  <2>3. TypeOK'
    BY <1>1, <2>1, <2>2 DEF IInv, TypeOK
  <2>4. op'[n].call = "leader"
    BY <2>2 DEF Leader
  <2>5. HeldSoFar'
    BY <1>1, <2>1, <2>2 DEF IInv, TypeOK, HeldSoFar
  <2>6. LeaderWasObserved'
    BY <1>1, <2>1, <2>4 DEF IInv, TypeOK, LeaderWasObserved
  <2> QED BY <2>3, <2>5, <2>6 DEF IInv
<1> QED BY <1>3, <1>4

LEMMA AskAgainStep ==
  ASSUME IInv, NEW n \in Nodes, AskAgain(n)
  PROVE  IInv'
<1>1. /\ n \in StorageNodes /\ op[n].call = "leader" /\ op[n].stage = "declined"
      /\ UNCHANGED <<peers, cache, observed, self, boot>>
  BY DEF AskAgain, InLoop, environment
<1>2. op[n] \in Leader
  BY <1>1, InLoopType DEF IInv
<1>3. CASE Reported(n) = op[n].at
  <2>1. op' = [op EXCEPT ![n] = [call |-> "named", peer |-> op[n].at, held |-> op[n].held]]
    BY <1>3 DEF AskAgain, Name
  <2>2. op[n].at \in op[n].held
    BY <1>1, <1>3 DEF IInv, HeldSoFar, Reported
  <2>3. op[n].at \in Nodes /\ op[n].held \in SUBSET Holders
    BY <1>1, <1>2 DEF IInv, HeldSoFar, Leader
  <2>4. TypeOK'
    BY <1>1, <2>1, <2>3 DEF IInv, TypeOK, Named
  <2>5. HeldSoFar'
    BY <1>1, <2>1 DEF IInv, TypeOK, HeldSoFar
  <2>6. LeaderWasObserved'
    BY <1>1, <2>1, <2>2 DEF IInv, TypeOK, LeaderWasObserved
  <2> QED BY <2>4, <2>5, <2>6 DEF IInv
<1>4. CASE Reported(n) # op[n].at
  <2>1. /\ op' = [op EXCEPT ![n] = op'[n]]
        /\ op'[n] = [op[n] EXCEPT !.at = NoNode, !.stage = "next"]
    BY <1>4 DEF AskAgain, IInv, TypeOK
  <2>2. op'[n] \in Leader /\ op'[n].held = op[n].held /\ op'[n].stage = "next"
    BY <1>2, <2>1 DEF Leader
  <2>3. TypeOK'
    BY <1>1, <2>1, <2>2 DEF IInv, TypeOK
  <2>4. op'[n].call = "leader"
    BY <2>2 DEF Leader
  <2>5. HeldSoFar'
    BY <1>1, <2>1, <2>2 DEF IInv, TypeOK, HeldSoFar
  <2>6. LeaderWasObserved'
    BY <1>1, <2>1, <2>4 DEF IInv, TypeOK, LeaderWasObserved
  <2> QED BY <2>3, <2>5, <2>6 DEF IInv
<1> QED BY <1>3, <1>4

----------------------------------------------------------------------------
(* Bootstrap, restarts, the electors and the informers                     *)

LEMMA BootstrapStep ==
  ASSUME IInv, NEW n \in Nodes, BootstrapList(n) \/ BootstrapAdd(n)
  PROVE  IInv'
<1>1. UNCHANGED <<op, observed, self, cache>>
  BY DEF BootstrapList, BootstrapAdd, environment
<1>2. /\ peers \in [Nodes -> Statuses]
      /\ boot \in [Nodes -> {"idle", "adding"}]
  BY DEF IInv, TypeOK
<1>3. peers' \in [Nodes -> Statuses]
  BY <1>2 DEF BootstrapList, BootstrapAdd, Request, Statuses
<1>4. boot' \in [Nodes -> {"idle", "adding"}]
  BY <1>2 DEF BootstrapList, BootstrapAdd
<1>5. TypeOK'
  BY <1>1, <1>3, <1>4 DEF IInv, TypeOK
<1> QED BY <1>1, <1>5, SameOps DEF IInv

LEMMA RestartStep ==
  ASSUME IInv, NEW n \in Nodes, Restart(n)
  PROVE  IInv'
<1>1. TypeOK'
  BY DEF Restart, IInv, TypeOK, Idle
<1>2. ASSUME NEW m \in StorageNodes
      PROVE  \/ op'[m] = Idle
             \/ op'[m] = op[m] /\ observed'[m] = observed[m] /\ self'[m] = self[m]
  BY DEF Restart, IInv, TypeOK
<1>3. HeldSoFar'
  BY <1>2 DEF IInv, HeldSoFar, Idle
<1>4. LeaderWasObserved'
  BY <1>2 DEF IInv, LeaderWasObserved, Idle
<1> QED BY <1>1, <1>3, <1>4 DEF IInv

LEMMA ObserveStep ==
  ASSUME IInv, NEW n \in StorageNodes, NEW h \in Holders, Observe(n, h)
  PROVE  IInv'
<1>1. /\ observed' = [observed EXCEPT ![n] = h]
      /\ UNCHANGED <<peers, cache, self, boot>>
  BY DEF Observe
<1>2. CASE op[n].call = "leader"
  <2>1. op[n] \in Leader
    BY <1>2, InLoopType DEF IInv
  <2>2. /\ op' = [op EXCEPT ![n] = op'[n]]
        /\ op'[n] = [op[n] EXCEPT !.held = @ \cup {h}]
    BY <1>2 DEF Observe, IInv, TypeOK
  <2>3. /\ op'[n] \in Leader
        /\ op'[n].held = op[n].held \cup {h}
        /\ op'[n].at = op[n].at /\ op'[n].stage = op[n].stage
    BY <2>1, <2>2 DEF Leader
  <2>4. TypeOK'
    BY <1>1, <2>2, <2>3 DEF IInv, TypeOK
  <2>5. op'[n].call = "leader"
    BY <2>3 DEF Leader
  <2>6. HeldSoFar'
    <3>1. \A m \in StorageNodes \ {n} : op'[m] = op[m] /\ observed'[m] = observed[m]
      BY <1>1, <2>2 DEF IInv, TypeOK
    <3>2. observed'[n] = h /\ h \in op'[n].held
      <4>1. n \in DOMAIN observed
        BY DEF IInv, TypeOK
      <4> QED BY <1>1, <2>3, <4>1
    <3>3. /\ op'[n].stage # "next" => op'[n].at \in Nodes
          /\ op'[n].stage = "asked" => op'[n].at \in op'[n].held
      BY <1>2, <2>3 DEF IInv, HeldSoFar
    <3> QED BY <3>1, <3>2, <3>3 DEF IInv, HeldSoFar
  <2>7. LeaderWasObserved'
    BY <1>1, <2>2, <2>5 DEF IInv, TypeOK, LeaderWasObserved
  <2> QED BY <2>4, <2>6, <2>7 DEF IInv
<1>3. CASE op[n].call # "leader"
  <2>1. UNCHANGED op
    BY <1>3 DEF Observe
  <2>2. TypeOK'
    BY <1>1, <2>1 DEF IInv, TypeOK
  <2>3. HeldSoFar'
    BY <1>1, <1>3, <2>1 DEF IInv, TypeOK, HeldSoFar
  <2>4. LeaderWasObserved'
    BY <1>1, <2>1 DEF IInv, LeaderWasObserved
  <2> QED BY <2>2, <2>3, <2>4 DEF IInv
<1> QED BY <1>2, <1>3

LEMMA CacheSyncStep ==
  ASSUME IInv, NEW n \in Nodes, CacheSync(n)
  PROVE  IInv'
<1>1. TypeOK'
  BY DEF CacheSync, IInv, TypeOK
<1> QED BY <1>1, SameOps DEF CacheSync, IInv

----------------------------------------------------------------------------
(* Theorems *)

LEMMA CallsStep ==
  ASSUME IInv, NEW n \in Nodes, Calls(n)
  PROVE  IInv'
<1>1. ASSUME NEW p \in Nodes,
             AddVoter(n, p) \/ AddObserver(n, p) \/ DemoteVoter(n, p)
               \/ RemovePeer(n, p) \/ DemotePatch(n)
      PROVE  IInv'
  BY <1>1, MembershipTypes, MembershipKeeps DEF IInv
<1>2. ASSUME NEW p \in Nodes, AskHolder(n, p) PROVE IInv'
  BY <1>2, AskHolderStep
<1>3. CASE AskAgain(n)
  BY <1>3, AskAgainStep
<1>4. CASE LeaderReturns(n)
  BY <1>4, EndsIInv DEF LeaderReturns, environment
<1>5. CASE StatusPanics(n)
  BY <1>5, RestartStep DEF StatusPanics
<1> QED BY <1>1, <1>2, <1>3, <1>4, <1>5, GetLeaderStep, AskLeaderStep, BootstrapStep DEF Calls

LEMMA IInvStep == IInv /\ [Next]_vars => IInv'
<1> SUFFICES ASSUME IInv, [Next]_vars PROVE IInv'
  OBVIOUS
<1>1. ASSUME NEW n \in Callers, Calls(n) \/ CacheSync(n) \/ Restart(n) PROVE IInv'
  BY <1>1, CallsStep, CacheSyncStep, RestartStep
<1>2. ASSUME NEW n \in Callers \cap StorageNodes, NEW h \in Holders, Observe(n, h) PROVE IInv'
  BY <1>2, ObserveStep
<1>3. CASE UNCHANGED vars
  <2>1. TypeOK'
    BY <1>3 DEF vars, IInv, TypeOK
  <2> QED BY <1>3, <2>1, SameOps DEF vars, IInv
<1> QED BY <1>1, <1>2, <1>3 DEF Next

\* Whatever happens between the requests and questions of the calls of
\* consensus.go, peers, electors and calls in progress are of their types.
THEOREM ConsensusTypeCorrect == Spec => []TypeOK
<1>1. IInv => TypeOK
  BY DEF IInv
<1> QED BY <1>1, InitIInv, IInvStep, PTL DEF Spec

\* However the lease moves while GetLeader asks about it, the peer it names was the
\* holder at some moment of the call, or is the stored peer of a node that was.
THEOREM LeaderWasObservedCorrect == Spec => []LeaderWasObserved
<1>1. IInv => LeaderWasObserved
  BY DEF IInv
<1> QED BY <1>1, InitIInv, IInvStep, PTL DEF Spec

-----------------------------------------------------------------------------
(* Observers *)

\* A call of an observer ends with its one request: it has none to come back to.
ObserversFree == \A n \in Observers : op[n] = Idle

LEMMA ObserversFreeStep ==
  ASSUME TypeOK, ObserversFree, [Next]_vars
  PROVE  ObserversFree'
<1>1. ASSUME NEW n \in Nodes, Calls(n)
      PROVE  ObserversFree'
  <2>1. CASE n \in StorageNodes
    <3>1. \A m \in Nodes \ {n} : op'[m] = op[m]
      BY <1>1 DEF Calls, AddVoter, AddObserver, DemoteVoter, DemotePatch, RemovePeer,
                  GetLeader, Name, AskHolder, AskLeader, AskAgain, LeaderReturns,
                  BootstrapList, BootstrapAdd, StatusPanics, Restart, TypeOK
    <3> QED BY <2>1, <3>1 DEF ObserversFree
  <2>2. CASE n \in Observers
    <3>1. n \notin StorageNodes /\ op[n].call = "idle"
      BY <2>2 DEF ObserversFree, Idle
    <3>2. op' = op \/ op' = [op EXCEPT ![n] = Idle]
      BY <1>1, <2>2, <3>1 DEF Calls, AddVoter, AddObserver, DemoteVoter, DemotePatch,
                  RemovePeer, GetLeader, AskHolder, AskLeader, AskAgain, LeaderReturns,
                  InLoop, BootstrapList, BootstrapAdd, StatusPanics, Restart, Refused
    <3> QED BY <3>2 DEF ObserversFree, TypeOK
  <2> QED BY <2>1, <2>2
<1>2. ASSUME NEW n \in Nodes, CacheSync(n) \/ Restart(n)
      PROVE  ObserversFree'
  BY <1>2 DEF CacheSync, Restart, ObserversFree, TypeOK
<1>3. ASSUME NEW n \in StorageNodes, NEW h \in Holders, Observe(n, h)
      PROVE  ObserversFree'
  <2>1. \A m \in Nodes \ {n} : op'[m] = op[m]
    BY <1>3 DEF Observe, TypeOK
  <2> QED BY <2>1 DEF ObserversFree
<1>4. CASE UNCHANGED vars
  BY <1>4 DEF vars, ObserversFree
<1> QED BY <1>1, <1>2, <1>3, <1>4 DEF Next

\* Nothing an observer calls, Bootstrap and Status included, writes a StoragePeer other
\* than its own, makes a voter of it or removes it: every path from the public calls to
\* the requests has passed a check of the observer.
THEOREM ObserversKeepToThemselvesCorrect == Spec => ObserversKeepToThemselves
<1>1. Init => ObserversFree
  BY DEF Init, ObserversFree
<1>2. ASSUME TypeOK, ObserversFree, NEW n \in Observers, Calls(n)
      PROVE  /\ \A p \in Nodes \ {n} : peers'[p] = peers[p]
             /\ peers'[n] \in {peers[n], "observer"}
  <2>1. Refused(n) /\ n \notin StorageNodes /\ op[n].call = "idle"
    BY <1>2 DEF Refused, ObserversFree, Idle
  <2>2. peers' = peers \/ peers' = [peers EXCEPT ![n] = "observer"]
    BY <1>2, <2>1 DEF Calls, AddVoter, AddObserver, DemoteVoter, DemotePatch, RemovePeer,
                Request, GetLeader, AskHolder, AskLeader, AskAgain, LeaderReturns, InLoop,
                BootstrapList, BootstrapAdd, StatusPanics, Restart
  <2> QED BY <1>2, <2>2 DEF TypeOK
<1>3. TypeOK /\ ObserversFree /\ [Next]_vars
        => [\A n \in Observers :
              Calls(n) => /\ \A p \in Nodes \ {n} : peers'[p] = peers[p]
                          /\ peers'[n] \in {peers[n], "observer"}]_vars
  BY <1>2
<1> QED BY <1>1, <1>3, ObserversFreeStep, ConsensusTypeCorrect, PTL
        DEF Spec, ObserversKeepToThemselves
=============================================================================
