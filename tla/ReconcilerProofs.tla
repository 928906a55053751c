-------------------------- MODULE ReconcilerProofs --------------------------
(***************************************************************************)
(* What TLAPS proves of Reconciler for every set of keys, Secrets and      *)
(* subscriptions: the type invariant, and two properties that hold only of *)
(* some stores.  What a subscription remembers is what was told where no   *)
(* key is the name of a Secret, and nothing stored is told as deleted      *)
(* where, moreover, there is one Secret only.                              *)
(***************************************************************************)
EXTENDS Reconciler, TLAPS

\* A key with one segment is the name of its Secret: these have two or more.
KeysAreNoNames == Keys \cap Buckets = {}

OneSecret == \A k \in Keys, b \in Buckets : bucketForKey[k] = b

USE BucketAssumption, PrefixAssumption, NoValueAssumption, BoundAssumption DEF Names, MaybeValue

-----------------------------------------------------------------------------
(* Types *)

LEMMA InitTypes == Init => TypeOK
  BY DEF Init, TypeOK

LEMMA ChangeTypes ==
  ASSUME TypeOK, NEW k \in Keys, NEW v \in MaybeValue, Change(k, v), writes < MaxWrites,
         found' \in [Buckets -> BOOLEAN], dropped' \subseteq Buckets
  PROVE  TypeOK'
<1>1. /\ value' \in [Keys -> MaybeValue]
      /\ queue' \subseteq Buckets
      /\ writes' \in 0..MaxWrites
  BY DEF Change, TypeOK
<1>2. owed' \in [Subs -> SUBSET Keys]
  BY DEF Change, TypeOK
<1> QED BY <1>1, <1>2 DEF Change, TypeOK, subscriptions

LEMMA PutTypes ==
  ASSUME TypeOK, NEW k \in Keys, NEW v \in Values, Put(k, v)
  PROVE  TypeOK'
  BY ChangeTypes DEF Put, TypeOK

LEMMA DeleteTypes ==
  ASSUME TypeOK, NEW k \in Keys, Delete(k)
  PROVE  TypeOK'
<1>1. found' \in [Buckets -> BOOLEAN] /\ dropped' \subseteq Buckets
  BY DEF Delete, TypeOK
<1> QED BY <1>1, ChangeTypes DEF Delete

LEMMA SecretTypes ==
  ASSUME TypeOK, NEW b \in Buckets, Reapply(b) \/ ReapplyFails(b) \/ Resync(b)
  PROVE  TypeOK'
<1>1. CASE Reapply(b)
  BY <1>1 DEF Reapply, TypeOK, subscriptions
<1>2. CASE ReapplyFails(b)
  BY <1>2 DEF ReapplyFails, TypeOK, subscriptions
<1>3. CASE Resync(b)
  BY <1>3 DEF Resync, TypeOK, store, subscriptions
<1> QED BY <1>1, <1>2, <1>3

LEMMA SubscriptionTypes ==
  ASSUME TypeOK, (\E s \in Subs : Subscribe(s) \/ Cancel(s)) \/ Close \/ Crash
  PROVE  TypeOK'
<1>1. CASE \E s \in Subs : Subscribe(s)
  BY <1>1 DEF Subscribe, TypeOK, store
<1>2. CASE \E s \in Subs : Cancel(s)
  BY <1>2 DEF Cancel, TypeOK, store
<1>3. CASE Close
  BY <1>3 DEF Close, TypeOK, store
<1>4. CASE Crash
  BY <1>4 DEF Crash, TypeOK, store
<1> QED BY <1>1, <1>2, <1>3, <1>4

\* Work in progress is that of a Reconcile.
LEMMA WorkType ==
  ASSUME TypeOK, work # NoWork
  PROVE  work \in Work
  BY DEF TypeOK

LEMMA NotifyTypes ==
  ASSUME TypeOK, work # NoWork, NEW s \in Subs, Notify(s) \/ NotifyGone(s)
  PROVE  /\ seen' \in [Subs -> [Keys -> MaybeValue]]
         /\ told' \in [Subs -> [Names -> MaybeValue]]
<1>1. work.bucket \in Buckets /\ work.all \in [Keys -> MaybeValue]
  BY WorkType DEF Work
<1>2. CASE Notify(s)
  <2> DEFINE news == News(s)
             losses == Losses(s)
  <2>1. news \subseteq Keys /\ losses \subseteq Keys
    BY DEF News, Losses
  <2>2. Tell(s, news, losses)
    BY <1>2 DEF Notify
  <2> HIDE DEF news, losses
  <2>3. seen' \in [Subs -> [Keys -> MaybeValue]]
    BY <1>1, <2>1, <2>2 DEF Tell, TypeOK
  <2>4. told' \in [Subs -> [Names -> MaybeValue]]
    BY <1>1, <2>1, <2>2 DEF Tell, TypeOK
  <2> QED BY <2>3, <2>4
<1>3. CASE NotifyGone(s)
  BY <1>1, <1>3 DEF NotifyGone, TypeOK
<1> QED BY <1>2, <1>3

LEMMA ReconcileSubTypes ==
  ASSUME TypeOK, NEW s \in Subs, ReconcileSub(s)
  PROVE  TypeOK'
<1>1. work # NoWork /\ UNCHANGED <<store, queue, cancelled, unused, owed>>
  BY DEF ReconcileSub
<1>2. work' \in Work
  BY <1>1, WorkType DEF ReconcileSub, Work
<1>3. subs' \subseteq Subs
  BY DEF ReconcileSub, TypeOK
<1>4. /\ seen' \in [Subs -> [Keys -> MaybeValue]]
      /\ told' \in [Subs -> [Names -> MaybeValue]]
  <2>1. CASE s \in cancelled
    BY <2>1 DEF ReconcileSub, TypeOK
  <2>2. CASE s \notin cancelled
    <3>1. Notify(s) \/ NotifyGone(s)
      BY <2>2 DEF ReconcileSub
    <3> QED BY <1>1, <3>1, NotifyTypes
  <2> QED BY <2>1, <2>2
<1> QED BY <1>1, <1>2, <1>3, <1>4 DEF TypeOK, store

LEMMA ReconcileTypes ==
  ASSUME TypeOK, (\E b \in Buckets : ReconcileGet(b)) \/ ReconcileEnd
  PROVE  TypeOK'
<1>1. ASSUME NEW b \in Buckets, ReconcileGet(b)
      PROVE  TypeOK'
  <2>1. work' \in Work
    BY <1>1 DEF ReconcileGet, TypeOK, Work
  <2> QED BY <1>1, <2>1 DEF ReconcileGet, TypeOK, store, subscriptions
<1>2. CASE ReconcileEnd
  BY <1>2 DEF ReconcileEnd, TypeOK, store, subscriptions
<1> QED BY <1>1, <1>2

LEMMA NextTypes == TypeOK /\ [Next]_vars => TypeOK'
<1> SUFFICES ASSUME TypeOK, [Next]_vars PROVE TypeOK'
  OBVIOUS
<1>1. ASSUME NEW k \in Keys, Delete(k) \/ \E v \in Values : Put(k, v)
      PROVE  TypeOK'
  BY <1>1, PutTypes, DeleteTypes
<1>2. ASSUME NEW b \in Buckets, Reapply(b) \/ ReapplyFails(b) \/ Resync(b) \/ ReconcileGet(b)
      PROVE  TypeOK'
  BY <1>2, SecretTypes, ReconcileTypes
<1>3. ASSUME NEW s \in Subs, Subscribe(s) \/ Cancel(s) \/ ReconcileSub(s)
      PROVE  TypeOK'
  BY <1>3, SubscriptionTypes, ReconcileSubTypes
<1>4. CASE ReconcileEnd \/ Close \/ Crash
  BY <1>4, SubscriptionTypes, ReconcileTypes
<1>5. CASE UNCHANGED vars
  BY <1>5 DEF vars, TypeOK
<1> QED BY <1>1, <1>2, <1>3, <1>4, <1>5 DEF Next

LEMMA Typing == Spec => []TypeOK
  BY InitTypes, NextTypes, PTL DEF Spec

-----------------------------------------------------------------------------
(* What was told and what is remembered of a key change together.          *)

LEMMA ToldTogether ==
  ASSUME TypeOK, [Next]_vars, KeysAreNoNames, NEW s \in Subs, NEW k \in Keys
  PROVE  \/ told'[s][k] = told[s][k] /\ seen'[s][k] = seen[s][k]
         \/ /\ work # NoWork
            /\ k \in News(s) \cup Losses(s)
            /\ told'[s][k] = seen'[s][k]
            /\ k \in News(s) => told'[s][k] = work.all[k]
<1>1. ASSUME NEW t \in Subs, ReconcileSub(t), t \notin cancelled
      PROVE  \/ told'[s][k] = told[s][k] /\ seen'[s][k] = seen[s][k]
             \/ /\ work # NoWork
                /\ k \in News(s) \cup Losses(s)
                /\ told'[s][k] = seen'[s][k]
                /\ k \in News(s) => told'[s][k] = work.all[k]
  <2>1. work # NoWork /\ work \in Work
    BY <1>1, WorkType DEF ReconcileSub
  <2>2. CASE Notify(t)
    <3> DEFINE news == News(t)
               losses == Losses(t)
    <3>1. Tell(t, news, losses)
      BY <2>2 DEF Notify
    <3> HIDE DEF news, losses
    <3>2. /\ seen'[s][k] = IF s = t /\ k \in news THEN work.all[k]
                           ELSE IF s = t /\ k \in losses THEN NoValue ELSE seen[s][k]
          /\ told'[s][k] = IF s = t /\ k \in news THEN work.all[k]
                           ELSE IF s = t /\ k \in losses THEN NoValue ELSE told[s][k]
      BY <3>1 DEF Tell, TypeOK
    <3> QED BY <2>1, <3>2 DEF news, losses
  <2>3. CASE NotifyGone(t)
    BY <2>1, <2>3 DEF NotifyGone, KeysAreNoNames, TypeOK, Work
  <2> QED BY <1>1, <2>2, <2>3 DEF ReconcileSub
<1>2. ASSUME NEW t \in Subs, ReconcileSub(t), t \in cancelled
      PROVE  UNCHANGED <<seen, told>>
  BY <1>2 DEF ReconcileSub
<1>3. CASE \/ UNCHANGED vars \/ ReconcileEnd \/ Close \/ Crash
          \/ \E t \in Subs : Subscribe(t) \/ Cancel(t)
          \/ \E b \in Buckets : Reapply(b) \/ ReapplyFails(b) \/ Resync(b) \/ ReconcileGet(b)
          \/ \E j \in Keys : Delete(j) \/ \E v \in Values : Put(j, v)
  BY <1>3 DEF vars, ReconcileEnd, Close, Crash, Subscribe, Cancel, Reapply, ReapplyFails,
              Resync, ReconcileGet, Delete, Put, Change
<1> QED BY <1>1, <1>2, <1>3 DEF Next

LEMMA SeenStep == TypeOK /\ KeysAreNoNames /\ SeenIsTold /\ [Next]_vars => SeenIsTold'
  BY ToldTogether DEF SeenIsTold

LEMMA InitSeen == Init => SeenIsTold
<1> SUFFICES ASSUME Init, NEW s \in Subs, NEW k \in Keys
             PROVE  seen[s][k] = told[s][k]
  BY DEF SeenIsTold
<1>1. seen[s] = [j \in Keys |-> NoValue] /\ told[s] = [x \in Keys \cup Buckets |-> NoValue]
  BY DEF Init
<1> QED BY <1>1

-----------------------------------------------------------------------------

\* The queue, the work in progress and what is remembered and told keep their types, in
\* whatever order subscriptions come and go during a Reconcile.
THEOREM TypeCorrect == Spec => []TypeOK
  BY Typing

\* A key of two segments or more: what Reconcile compares the next value with is what the
\* subscriber was told.
THEOREM RemembersWhatItTold ==
  ASSUME KeysAreNoNames
  PROVE  Spec => []SeenIsTold
<1>1. TypeOK /\ SeenIsTold /\ [Next]_vars => SeenIsTold'
  BY SeenStep
<1> QED BY <1>1, InitSeen, Typing, PTL DEF Spec

\* Where all keys are in one Secret, no subscriber is told of the deletion of a key that
\* was stored when Reconcile read the Secret.
THEOREM TellsNoFalseDeletion ==
  ASSUME KeysAreNoNames, OneSecret
  PROVE  Spec => NoFalseDeletion
<1>1. TypeOK /\ SeenIsTold /\ [Next]_vars =>
        [\A s \in Subs : \A k \in Keys :
           (told[s][k] # NoValue /\ told'[s][k] = NoValue) => work.all[k] = NoValue]_vars
  <2> SUFFICES ASSUME TypeOK, [Next]_vars, NEW s \in Subs, NEW k \in Keys,
                      told[s][k] # NoValue, told'[s][k] = NoValue
               PROVE  work.all[k] = NoValue
    OBVIOUS
  <2>1. /\ work # NoWork
        /\ k \in News(s) \cup Losses(s)
        /\ k \in News(s) => told'[s][k] = work.all[k]
    BY ToldTogether
  <2>2. bucketForKey[k] = work.bucket
    BY <2>1, WorkType DEF OneSecret, Work
  <2> QED BY <2>1, <2>2 DEF Losses, InData
<1> QED BY <1>1, Typing, RemembersWhatItTold, PTL DEF Spec, NoFalseDeletion
=============================================================================
