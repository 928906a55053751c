------------------------------ MODULE Storage ------------------------------
(***************************************************************************)
(* provider/storage.go: the key-value store over Kubernetes Secrets.  A    *)
(* Secret holds a bucket of items; a write reads the whole Secret, changes *)
(* one item and applies the whole Secret back (provider/util), with no     *)
(* resource version, so that the last apply wins.  st.mu serialises the    *)
(* calls of one process; leadership is the only thing that keeps two       *)
(* processes apart.  GetValue leaves the removal of an expired item to a   *)
(* goroutine that applies the Secret GetValue read.                        *)
(***************************************************************************)
EXTENDS DataItems

CONSTANTS Nodes,         \* the storage nodes (observers have no elector)
          EmptyValue,    \* the zero-length value
          Buckets,       \* the names of Secrets
          bucketForKey,  \* the Secret of each key
          DisableCache,  \* Options.DisableCache
          ReapIds,       \* bound: deferred deletes pending at once
          MaxTime        \* bound: clock ticks

ASSUME BucketAssumption == bucketForKey \in [Keys -> Buckets]
ASSUME CacheAssumption == DisableCache \in BOOLEAN
ASSUME TimeAssumption == MaxTime \in Nat

VARIABLES secrets,  \* the Secrets in the API server
          cache,    \* the copy of the Secrets in each node's informer
          leading,  \* the nodes whose elector answers IsLeader
          op,       \* the call that holds each node's st.mu
          reaps,    \* deferred deletes that have not taken st.mu yet
          res,      \* the last result of each node
          now,      \* the clock
          overlap   \* history: a node was elected while another could write

vars == <<secrets, cache, leading, op, reaps, res, now, overlap>>

Absent == [found |-> FALSE, data |-> {}]
Secret(data) == [found |-> TRUE, data |-> data]

Idle == [kind |-> "idle", stage |-> "idle"]
PutOp == [kind: {"put"}, stage: {"get", "patch"}, key: Keys, val: Values, ttl: TTLs,
          data: SUBSET Item]
RemoveOp == [kind: {"delete", "reap"}, stage: {"get", "drop", "patch"}, key: Keys,
             data: SUBSET Item]
GetOp == [kind: {"get"}, stage: {"check"}, key: Keys, id: ReapIds, data: SUBSET Item]
Reap == [id: ReapIds, node: Nodes, key: Keys, data: SUBSET Item]

Results == {"ok", "err", "notleader", "notfound"} \cup Values

TypeOK ==
  /\ secrets \in [Buckets -> [found: BOOLEAN, data: SUBSET Item]]
  /\ cache \in [Nodes -> [Buckets -> [found: BOOLEAN, data: SUBSET Item]]]
  /\ leading \subseteq Nodes
  /\ op \in [Nodes -> {Idle} \cup PutOp \cup RemoveOp \cup GetOp]
  /\ reaps \subseteq Reap
  /\ res \in [Nodes -> Results]
  /\ now \in Nat
  /\ overlap \in BOOLEAN

Init ==
  /\ secrets = [b \in Buckets |-> Absent]
  /\ cache = [n \in Nodes |-> [b \in Buckets |-> Absent]]
  /\ leading = {}
  /\ op = [n \in Nodes |-> Idle]
  /\ reaps = {}
  /\ res = [n \in Nodes |-> "ok"]
  /\ now = 0
  /\ overlap = FALSE

\* Mutant of View: Secrets are missing from the list of uncached objects.
ViewInformer(n, k) == cache[n][bucketForKey[k]]

\* mgr.GetClient() reads the informer unless the cache is disabled.
View(n, k) == (IF DisableCache THEN secrets ELSE cache[n])[bucketForKey[k]]

Holds(n, kind, stage) == op[n].kind = kind /\ op[n].stage = stage
Writing(n) == op[n].kind \in {"put", "delete", "reap"}

Finish(n, result) == /\ op' = [op EXCEPT ![n] = Idle]
                     /\ res' = [res EXCEPT ![n] = result]

\* Mutant of FinishWrite: the error path forgets to unlock.
FinishWriteLocked(n, result) ==
  /\ op' = IF result = "err" THEN [op EXCEPT ![n].stage = "locked"] ELSE [op EXCEPT ![n] = Idle]
  /\ res' = IF op[n].kind = "reap" THEN res ELSE [res EXCEPT ![n] = result]

\* The error of a deferred delete is logged, and nobody gets its result.
FinishWrite(n, result) ==
  /\ op' = [op EXCEPT ![n] = Idle]
  /\ res' = IF op[n].kind = "reap" THEN res ELSE [res EXCEPT ![n] = result]

----------------------------------------------------------------------------
(* PutValue *)

\* Mutant of PutStart: no leader check.
PutStartUnchecked(n, k, v, ttl) ==
  /\ op[n] = Idle
  /\ op' = [op EXCEPT ![n] = [kind |-> "put", stage |-> "get", key |-> k, val |-> v,
                              ttl |-> ttl, data |-> {}]]
  /\ UNCHANGED <<secrets, cache, leading, reaps, res, now, overlap>>

PutStart(n, k, v, ttl) ==
  /\ op[n] = Idle
  /\ n \in leading
  /\ op' = [op EXCEPT ![n] = [kind |-> "put", stage |-> "get", key |-> k, val |-> v,
                              ttl |-> ttl, data |-> {}]]
  /\ UNCHANGED <<secrets, cache, leading, reaps, res, now, overlap>>

\* PutValue or Delete on a node that does not lead.
NotLeader(n) ==
  /\ op[n] = Idle
  /\ n \notin leading
  /\ Finish(n, "notleader")
  /\ UNCHANGED <<secrets, cache, leading, reaps, now, overlap>>

PutGet(n) ==
  /\ Holds(n, "put", "get")
  /\ LET item == [key |-> op[n].key, val |-> op[n].val, exp |-> Expiry(op[n].ttl, now)]
     IN  op' = [op EXCEPT ![n].stage = "patch",
                          ![n].data = With(View(n, op[n].key).data, item)]
  /\ UNCHANGED <<secrets, cache, leading, reaps, res, now, overlap>>

----------------------------------------------------------------------------
(* Delete *)

DeleteStart(n, k) ==
  /\ op[n] = Idle
  /\ n \in leading
  /\ op' = [op EXCEPT ![n] = [kind |-> "delete", stage |-> "get", key |-> k, data |-> {}]]
  /\ UNCHANGED <<secrets, cache, leading, reaps, res, now, overlap>>

DeleteNotFound(n) ==
  /\ Holds(n, "delete", "get")
  /\ ~View(n, op[n].key).found
  /\ Finish(n, "notfound")
  /\ UNCHANGED <<secrets, cache, leading, reaps, now, overlap>>

\* patchBucket takes a bucket with nothing left to delete the Secret first.
RemoveStage(data) == IF data = {} THEN "drop" ELSE "patch"

DeleteGet(n) ==
  /\ Holds(n, "delete", "get")
  /\ View(n, op[n].key).found
  /\ LET rest == Without(View(n, op[n].key).data, op[n].key)
     IN  op' = [op EXCEPT ![n].stage = RemoveStage(rest), ![n].data = rest]
  /\ UNCHANGED <<secrets, cache, leading, reaps, res, now, overlap>>
----------------------------------------------------------------------------
(* GetValue.  ListKeys and IterPrefix are in module BucketIndex.           *)

Found(n, k) == {i \in View(n, k).data : i.key = k}

GetLive(n, k) ==
  /\ op[n] = Idle
  /\ \E i \in Found(n, k) : /\ ~Expired(i, now)
                            /\ i.val # EmptyValue
                            /\ Finish(n, i.val)
  /\ UNCHANGED <<secrets, cache, leading, reaps, now, overlap>>

\* No Secret, no item, or an item with a zero-length value.
GetMiss(n, k) ==
  /\ op[n] = Idle
  /\ \A i \in Found(n, k) : ~Expired(i, now) /\ i.val = EmptyValue
  /\ Finish(n, "notfound")
  /\ UNCHANGED <<secrets, cache, leading, reaps, now, overlap>>

ReadError(n) ==
  /\ op[n] = Idle
  /\ Finish(n, "err")
  /\ UNCHANGED <<secrets, cache, leading, reaps, now, overlap>>

FreeReapIds == ReapIds \ ({r.id : r \in reaps} \cup
                          {op[m].id : m \in {x \in Nodes : op[x].kind = "get"}})

\* The item is expired: the call goes on to ask whether this node leads.
GetExpired(n, k, id) ==
  /\ op[n] = Idle
  /\ \E i \in Found(n, k) : Expired(i, now)
  /\ id \in FreeReapIds
  /\ op' = [op EXCEPT ![n] = [kind |-> "get", stage |-> "check", key |-> k, id |-> id,
                              data |-> View(n, k).data]]
  /\ UNCHANGED <<secrets, cache, leading, reaps, res, now, overlap>>

GetCheck(n) ==
  /\ Holds(n, "get", "check")
  /\ reaps' = IF n \in leading
              THEN reaps \cup {[id |-> op[n].id, node |-> n, key |-> op[n].key,
                                data |-> op[n].data]}
              ELSE reaps
  /\ Finish(n, "notfound")
  /\ UNCHANGED <<secrets, cache, leading, now, overlap>>

\* Mutant of ReapStart: the goroutine waits until its node leads again.
ReapStartLeading(n, r) ==
  /\ op[n] = Idle
  /\ r.node = n
  /\ n \in leading
  /\ reaps' = reaps \ {r}
  /\ LET rest == Without(r.data, r.key)
     IN  op' = [op EXCEPT ![n] = [kind |-> "reap", stage |-> RemoveStage(rest),
                                  key |-> r.key, data |-> rest]]
  /\ UNCHANGED <<secrets, cache, leading, res, now, overlap>>

\* The goroutine takes st.mu.  It asks nobody whether the node still leads,
\* and does not read the Secret again.
ReapStart(n, r) ==
  /\ op[n] = Idle
  /\ r.node = n
  /\ reaps' = reaps \ {r}
  /\ LET rest == Without(r.data, r.key)
     IN  op' = [op EXCEPT ![n] = [kind |-> "reap", stage |-> RemoveStage(rest),
                                  key |-> r.key, data |-> rest]]
  /\ UNCHANGED <<secrets, cache, leading, res, now, overlap>>

----------------------------------------------------------------------------
(* patchBucket and util.PatchObject: the requests to the API server.       *)

\* Delete of the Secret of an empty bucket; not found is no error.
Drop(n) ==
  /\ op[n].stage = "drop"
  /\ secrets' = [secrets EXCEPT ![bucketForKey[op[n].key]] = Absent]
  /\ op' = [op EXCEPT ![n].stage = "patch"]
  /\ UNCHANGED <<cache, leading, reaps, res, now, overlap>>

\* Mutant of Applied: a merge patch in place of a server-side apply.
AppliedMerge(n) ==
  LET b == bucketForKey[op[n].key]
  IN  [secrets EXCEPT ![b] = Secret(secrets[b].data \cup op[n].data)]

\* Server-side apply with ForceOwnership: the fields this field manager applied
\* before are replaced, and a Secret that does not exist is created.
Applied(n) == [secrets EXCEPT ![bucketForKey[op[n].key]] = Secret(op[n].data)]

Patch(n) ==
  /\ op[n].stage = "patch"
  /\ secrets' = Applied(n)
  /\ FinishWrite(n, "ok")
  /\ UNCHANGED <<cache, leading, reaps, now, overlap>>

\* A request fails: the read, or the delete or apply, which the API server
\* may have executed all the same.
WriteError(n) ==
  /\ \/ op[n].stage = "get" /\ UNCHANGED secrets
     \/ /\ op[n].stage = "drop"
        /\ secrets' \in {secrets, [secrets EXCEPT ![bucketForKey[op[n].key]] = Absent]}
     \/ op[n].stage = "patch" /\ secrets' \in {secrets, Applied(n)}
  /\ FinishWrite(n, "err")
  /\ UNCHANGED <<cache, leading, reaps, now, overlap>>

----------------------------------------------------------------------------
(* Leadership (client-go's elector), the informer (controller-runtime),    *)
(* the process and the clock.                                              *)

Active == leading \cup {m \in Nodes : Writing(m)} \cup {r.node : r \in reaps}

\* The node's elector reads its own identity in the lease.  The last holder
\* may still believe that it leads, or be in the middle of a write.
Elect(n) ==
  /\ n \notin leading
  /\ leading' = leading \cup {n}
  /\ overlap' = (overlap \/ \E m \in Active : m # n)
  /\ UNCHANGED <<secrets, cache, op, reaps, res, now>>

Lose(n) ==
  /\ n \in leading
  /\ leading' = leading \ {n}
  /\ UNCHANGED <<secrets, cache, op, reaps, res, now, overlap>>

\* The informer catches up with one Secret.
CacheSync(n, b) ==
  /\ ~DisableCache
  /\ cache' = [cache EXCEPT ![n][b] = secrets[b]]
  /\ UNCHANGED <<secrets, leading, op, reaps, res, now, overlap>>

\* The process dies with its calls and goroutines; its callers get no answer.
\* It starts again with an informer that has listed the Secrets.
Crash(n) ==
  /\ leading' = leading \ {n}
  /\ Finish(n, "err")
  /\ reaps' = {r \in reaps : r.node # n}
  /\ cache' = IF DisableCache THEN cache ELSE [cache EXCEPT ![n] = secrets]
  /\ UNCHANGED <<secrets, now, overlap>>

Tick ==
  /\ now < MaxTime
  /\ now' = now + 1
  /\ UNCHANGED <<secrets, cache, leading, op, reaps, res, overlap>>

----------------------------------------------------------------------------

Put(n) == \E k \in Keys, v \in Values, ttl \in TTLs : PutStart(n, k, v, ttl)
Delete(n) == \E k \in Keys : DeleteStart(n, k)
GetValue(n) == \E k \in Keys : \/ GetLive(n, k)
                               \/ GetMiss(n, k)
                               \/ \E id \in ReapIds : GetExpired(n, k, id)
RunReap(n) == \E r \in reaps : ReapStart(n, r)

\* The steps of the call that holds st.mu, up to its return.
Proceed(n) == \/ PutGet(n) \/ DeleteGet(n) \/ DeleteNotFound(n) \/ GetCheck(n)
              \/ Drop(n) \/ Patch(n) \/ WriteError(n)

Next ==
  \/ \E n \in Nodes :
       \/ Put(n) \/ Delete(n) \/ NotLeader(n) \/ GetValue(n) \/ ReadError(n)
       \/ RunReap(n) \/ Proceed(n)
       \/ Elect(n) \/ Lose(n) \/ Crash(n)
       \/ \E b \in Buckets : CacheSync(n, b)
  \/ Tick

Spec == Init /\ [][Next]_vars

\* Requests are answered, or fail, and sync.Mutex hands itself to a waiter
\* that has starved for a millisecond: a goroutine that again and again
\* finds st.mu free gets it.
Fairness == \A n \in Nodes : /\ WF_vars(Proceed(n))
                             /\ \A id \in ReapIds :
                                  SF_vars(\E r \in reaps : r.id = id /\ ReapStart(n, r))

FairSpec == Spec /\ Fairness

----------------------------------------------------------------------------
(* Properties                                                              *)

\* Once elections never overlap, one process at a time can reach the API
\* server with a write, and it is the leader, if there is one: a deferred
\* delete or a call in flight counts as much as the right to begin one.
SoleWriter == ~overlap => \A m, n \in Active : m = n

\* Reading from the API server, and without overlapping elections, what PutValue
\* and Delete apply differs from the Secret as it is at that moment in the call's own
\* key only: no other key is lost or brought back, deferred deletes or not.
CleanApply ==
  (DisableCache /\ ~overlap) =>
    \A n \in Nodes :
      (op[n].kind \in {"put", "delete"} /\ op[n].stage \in {"drop", "patch"}) =>
        Without(op[n].data, op[n].key)
          = Without(secrets[bucketForKey[op[n].key]].data, op[n].key)

\* Every call that takes st.mu gives it back.
CallsReturn == \A n \in Nodes : (op[n] # Idle) ~> (op[n] = Idle)

\* Every deferred delete runs, however many calls compete for st.mu.
ReapsRun == \A id \in ReapIds :
              (\E r \in reaps : r.id = id) ~> (\A r \in reaps : r.id # id)

\* One snapshot at a time is on its way back to each bucket: the calls that
\* have read, the reads that found an expired item and the deferred deletes
\* never overlap.
Snapshots(b) ==
  {<<"call", n>> : n \in {m \in Nodes : /\ op[m].stage \in {"check", "drop", "patch"}
                                        /\ bucketForKey[op[m].key] = b}}
    \cup {<<"reap", r.id>> : r \in {s \in reaps : bucketForKey[s.key] = b}}

Exclusive == \A b \in Buckets : \A x, y \in Snapshots(b) : x = y

\* What the comments of PutValue and Delete say: they set, or remove, a key.
\* The items of every other key stay as they are.
OneKeyWrites ==
  [][\A n \in Nodes :
       (op[n].kind \in {"put", "delete"} /\ op'[n] # op[n]) =>
         \A b \in Buckets : Without(secrets'[b].data, op[n].key)
                              = Without(secrets[b].data, op[n].key)]_vars

----------------------------------------------------------------------------
(* The abstract store.  A call takes effect at its last request; a delete  *)
(* of the last item of a bucket at the Delete of the Secret.               *)

Store == UNION {secrets[b].data : b \in Buckets}

CallOf(o) ==
  CASE o.kind = "put" ->
         [kind |-> "put", key |-> o.key, val |-> o.val, ttl |-> o.ttl, done |-> FALSE]
    [] o.kind = "delete" ->
         [kind |-> "delete", key |-> o.key, done |-> o.stage = "patch" /\ o.data = {}]
    [] OTHER -> [kind |-> "idle"]

\* A read that found an expired item has its answer when it reads.
ResultOf(o, result) == IF o.kind = "get" THEN "notfound" ELSE result

KV == INSTANCE KVStore WITH kv <- Store,
                            call <- [n \in Nodes |-> CallOf(op[n])],
                            res <- [n \in Nodes |-> ResultOf(op[n], res[n])]

\* As long as one snapshot at a time is on its way back to each bucket, and
\* reads go to the API server, the Secrets are the map the callers expect.
KVSpec == KV!Spec
=============================================================================
