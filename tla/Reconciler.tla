----------------------------- MODULE Reconciler -----------------------------
(***************************************************************************)
(* provider/reconciler.go with Subscribe of provider/storage.go: how the   *)
(* subscribers of one process hear of changes.  Every event of a Secret    *)
(* puts its name in the controller's queue; Reconcile takes a name, reads  *)
(* the Secret and calls the subscribers one after the other, under subsmu. *)
(* Subscribe takes st.mu instead, so that it may come in between.  Each    *)
(* subscription remembers in seen what it was told; there is one seen for  *)
(* all the buckets.                                                        *)
(***************************************************************************)
EXTENDS Naturals

CONSTANTS Keys, Values,
          Buckets,       \* the names of Secrets
          bucketForKey,  \* the Secret of each key
          Subs,          \* subscriptions
          prefixKeys,    \* the keys that have each subscription's prefix
          prefixNames,   \* the names of Secrets that have it, in lower case
          NoValue,       \* no item; the nil a deletion is told with
          MaxWrites      \* bound: changes to the store

ASSUME BucketAssumption == bucketForKey \in [Keys -> Buckets]
ASSUME PrefixAssumption == /\ prefixKeys \in [Subs -> SUBSET Keys]
                           /\ prefixNames \in [Subs -> SUBSET Buckets]
ASSUME NoValueAssumption == NoValue \notin Values
ASSUME BoundAssumption == MaxWrites \in Nat

VARIABLES found,      \* the Secrets that exist
          value,      \* the value of each key in its Secret
          dropped,    \* Secrets patchBucket has deleted and not yet applied again
          queue,      \* the controller's queue
          work,       \* the Reconcile in progress
          subs,       \* st.subs
          cancelled,  \* subscriptions whose context is done
          unused,     \* subscriptions not made yet
          seen,       \* Subscription.seen
          told,       \* what each subscriber was last told of each name
          owed,       \* history: the keys changed since the subscription
          writes      \* the number of changes

store == <<found, value, dropped, writes>>
subscriptions == <<subs, cancelled, unused>>
vars == <<found, value, dropped, queue, work, subs, cancelled, unused, seen, told, owed, writes>>

\* A key with one segment is the name of its own Secret.
Names == Keys \cup Buckets
MaybeValue == Values \cup {NoValue}

NoWork == [bucket |-> {}]
\* all is history: every value at the moment the Secret was read.
Work == [bucket: Buckets, found: BOOLEAN, all: [Keys -> MaybeValue], todo: SUBSET Subs,
         done: SUBSET Subs]

TypeOK ==
  /\ found \in [Buckets -> BOOLEAN]
  /\ value \in [Keys -> MaybeValue]
  /\ dropped \subseteq Buckets
  /\ queue \subseteq Buckets
  /\ work \in {NoWork} \cup Work
  /\ subs \subseteq Subs /\ cancelled \subseteq Subs /\ unused \subseteq Subs
  /\ seen \in [Subs -> [Keys -> MaybeValue]]
  /\ told \in [Subs -> [Names -> MaybeValue]]
  /\ owed \in [Subs -> SUBSET Keys]
  /\ writes \in 0..MaxWrites

Init ==
  /\ found = [b \in Buckets |-> FALSE]
  /\ value = [k \in Keys |-> NoValue]
  /\ dropped = {}
  /\ queue = {}
  /\ work = NoWork
  /\ subs = {}
  /\ cancelled = {}
  /\ unused = Subs
  /\ seen = [s \in Subs |-> [k \in Keys |-> NoValue]]
  /\ told = [s \in Subs |-> [x \in Names |-> NoValue]]
  /\ owed = [s \in Subs |-> {}]
  /\ writes = 0

----------------------------------------------------------------------------
(* Changes to the Secrets, by whatever process.  The informer enqueues the *)
(* name of every Secret that carries the label (enqueueObjectIfOwner).     *)

Change(k, v) ==
  /\ value' = [value EXCEPT ![k] = v]
  /\ owed' = [s \in Subs |-> IF s \in subs /\ k \in prefixKeys[s] THEN owed[s] \cup {k}
                                                                 ELSE owed[s]]
  /\ writes' = writes + 1
  /\ queue' = queue \cup {bucketForKey[k]}
  /\ UNCHANGED <<work, subscriptions, seen, told>>

Put(k, v) ==
  /\ writes < MaxWrites
  /\ value[k] # v
  /\ bucketForKey[k] \notin dropped
  /\ found' = [found EXCEPT ![bucketForKey[k]] = TRUE]
  /\ Change(k, v)
  /\ UNCHANGED dropped

\* patchBucket with data left, and its first request when none is left.
Delete(k) ==
  LET last == \A j \in Keys : (j # k /\ bucketForKey[j] = bucketForKey[k]) => value[j] = NoValue
  IN  /\ writes < MaxWrites
      /\ value[k] # NoValue
      /\ found' = [found EXCEPT ![bucketForKey[k]] = ~last]
      /\ dropped' = IF last THEN dropped \cup {bucketForKey[k]} ELSE dropped
      /\ Change(k, NoValue)

\* The second request of patchBucket: the Secret is created without data.
Reapply(b) ==
  /\ b \in dropped
  /\ dropped' = dropped \ {b}
  /\ found' = [found EXCEPT ![b] = TRUE]
  /\ queue' = queue \cup {b}
  /\ UNCHANGED <<value, work, subscriptions, seen, told, owed, writes>>

ReapplyFails(b) ==
  /\ b \in dropped
  /\ dropped' = dropped \ {b}
  /\ UNCHANGED <<found, value, queue, work, subscriptions, seen, told, owed, writes>>

\* The informer lists its Secrets again.
Resync(b) ==
  /\ found[b]
  /\ queue' = queue \cup {b}
  /\ UNCHANGED <<store, work, subscriptions, seen, told, owed>>

----------------------------------------------------------------------------
(* Subscriptions *)

\* Subscribe takes st.mu, and no notice of a Reconcile in progress.
Subscribe(s) ==
  /\ s \in unused
  /\ unused' = unused \ {s}
  /\ subs' = subs \cup {s}
  /\ UNCHANGED <<store, queue, work, cancelled, seen, told, owed>>

\* The subscriber calls the CancelFunc, or its own context ends.
Cancel(s) ==
  /\ s \in subs
  /\ cancelled' = cancelled \cup {s}
  /\ UNCHANGED <<store, queue, work, subs, unused, seen, told, owed>>

\* Close takes subsmu, cancels every subscription and removes it.
Close ==
  /\ work = NoWork
  /\ cancelled' = cancelled \cup subs
  /\ subs' = {}
  /\ UNCHANGED <<store, queue, work, unused, seen, told, owed>>

\* The process dies (a Subscribe during a Reconcile is a concurrent map access
\* that can kill it) and starts again: the informer lists every Secret.
Crash ==
  /\ subs' = {}
  /\ cancelled' = cancelled \cup subs
  /\ work' = NoWork
  /\ queue' = {b \in Buckets : found[b]}
  /\ UNCHANGED <<store, unused, seen, told, owed>>

----------------------------------------------------------------------------
(* Reconcile *)

\* A Get that fails puts the name back in the queue, and changes nothing.
ReconcileGet(b) ==
  /\ work = NoWork
  /\ b \in queue
  /\ queue' = queue \ {b}
  /\ work' = [bucket |-> b, found |-> found[b], all |-> value, todo |-> subs, done |-> {}]
  /\ UNCHANGED <<store, subscriptions, seen, told, owed>>

InData(k) == bucketForKey[k] = work.bucket /\ work.all[k] # NoValue

\* Mutant of News: a key seen before is not compared with its value.
NewsUnseen(s) == {k \in prefixKeys[s] : InData(k) /\ seen[s][k] = NoValue}

\* The keys of the Secret that differ from what the subscription has seen.
News(s) == {k \in prefixKeys[s] : InData(k) /\ seen[s][k] # work.all[k]}

\* Mutant of Losses: no look at the Secret.
LossesSeen(s) == {k \in prefixKeys[s] : seen[s][k] # NoValue}

\* The keys it has seen that are not in this Secret.
Losses(s) == {k \in prefixKeys[s] : seen[s][k] # NoValue /\ ~InData(k)}

Tell(s, news, losses) ==
  /\ seen' = [seen EXCEPT ![s] = [k \in Keys |-> IF k \in news THEN work.all[k]
                                                ELSE IF k \in losses THEN NoValue ELSE @[k]]]
  /\ told' = [told EXCEPT ![s] = [x \in Names |-> IF x \in news THEN work.all[x]
                                                 ELSE IF x \in losses THEN NoValue ELSE @[x]]]

\* Mutant of Notify: deleted keys stay in seen.
NotifyKeepsSeen(s) ==
  /\ seen' = [seen EXCEPT ![s] = [k \in Keys |-> IF k \in News(s) THEN work.all[k] ELSE @[k]]]
  /\ told' = [told EXCEPT ![s] = [x \in Names |-> IF x \in News(s) THEN work.all[x]
                                                 ELSE IF x \in Losses(s) THEN NoValue ELSE @[x]]]

Notify(s) == Tell(s, News(s), Losses(s))

\* Mutant of NotifyGone: the name is passed as the value too.
NotifyGoneName(s) ==
  /\ told' = IF work.bucket \in prefixNames[s]
             THEN [told EXCEPT ![s][work.bucket] = work.bucket]
             ELSE told
  /\ UNCHANGED seen

\* The Secret is gone: its name is told as if it were a key, and seen stays.
NotifyGone(s) ==
  /\ told' = IF work.bucket \in prefixNames[s]
             THEN [told EXCEPT ![s][work.bucket] = NoValue]
             ELSE told
  /\ UNCHANGED seen

\* The iteration reaches s.  Subscriptions made meanwhile may be reached or not.
ReconcileSub(s) ==
  /\ work # NoWork
  /\ s \in subs \ work.done
  /\ IF s \in cancelled
     THEN subs' = subs \ {s} /\ UNCHANGED <<seen, told>>
     ELSE /\ IF work.found THEN Notify(s) ELSE NotifyGone(s)
          /\ UNCHANGED subs
  /\ work' = [work EXCEPT !.done = @ \cup {s}]
  /\ UNCHANGED <<store, queue, cancelled, unused, owed>>

ReconcileEnd ==
  /\ work # NoWork
  /\ work.todo \cap subs \subseteq work.done
  /\ work' = NoWork
  /\ UNCHANGED <<store, queue, subscriptions, seen, told, owed>>

----------------------------------------------------------------------------

Next ==
  \/ \E k \in Keys : Delete(k) \/ \E v \in Values : Put(k, v)
  \/ \E b \in Buckets : \/ Reapply(b) \/ ReapplyFails(b) \/ Resync(b)
                        \/ ReconcileGet(b)
  \/ \E s \in Subs : Subscribe(s) \/ Cancel(s) \/ ReconcileSub(s)
  \/ ReconcileEnd
  \/ Close
  \/ Crash

Spec == Init /\ [][Next]_vars

\* The queue is first in, first out, a Get that fails is retried, and callbacks
\* return.  patchBucket goes on to its second request.
Fairness ==
  /\ \A b \in Buckets : SF_vars(ReconcileGet(b)) /\ WF_vars(Reapply(b) \/ ReapplyFails(b))
  /\ WF_vars(ReconcileEnd \/ \E s \in Subs : ReconcileSub(s))

FairSpec == Spec /\ Fairness

----------------------------------------------------------------------------
(* Properties *)

\* A subscriber hears of a deletion only of a key that was not stored when
\* Reconcile read the Secret.
NoFalseDeletion ==
  [][\A s \in Subs : \A k \in Keys :
       (told[s][k] # NoValue /\ told'[s][k] = NoValue) => work.all[k] = NoValue]_vars

\* Once the store stops changing, every live subscriber has heard the present
\* value, or the deletion, of every key that changed since it subscribed and whose
\* Secret exists.  A Secret that was deleted and not applied again is told by its own
\* name only.
Converges ==
  \A s \in Subs :
    <>[](s \in subs \ cancelled =>
           \A k \in owed[s] : found[bucketForKey[k]] => told[s][k] = value[k])

\* What a subscription remembers is what its subscriber was told.
SeenIsTold == \A s \in Subs : \A k \in Keys : seen[s][k] = told[s][k]
=============================================================================
