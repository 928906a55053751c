--------------------------- MODULE StorageProofs ---------------------------
(***************************************************************************)
(* Theorems about module Storage, for every set of nodes, keys, values and *)
(* ttls, every assignment of keys to Secrets and every bound: its types,   *)
(* that one process at a time writes, that it implements KVStore, and what *)
(* the election of Lifecycle adds to it (ElectedStorage).                  *)
(***************************************************************************)
EXTENDS ElectedStorage, TLAPS

----------------------------------------------------------------------------
(* Items and their sets *)

\* A data map with one entry removed, or with one entry set, holds items.
LEMMA WithoutType ==
  ASSUME NEW data \in SUBSET Item, NEW k
  PROVE  Without(data, k) \in SUBSET Item
BY DEF Without

LEMMA WithType ==
  ASSUME NEW data \in SUBSET Item, NEW item \in Item
  PROVE  With(data, item) \in SUBSET Item
BY DEF With, Without

\* The expiry PutValue stamps is a time.
LEMMA ExpiryType ==
  ASSUME NEW ttl \in TTLs, NEW t \in Nat
  PROVE  Expiry(ttl, t) \in Nat
BY TTLsAssumption DEF Expiry

\* A write to one key leaves the other entries of the map as they are.
LEMMA WithoutWith ==
  ASSUME NEW data, NEW item
  PROVE  Without(With(data, item), item.key) = Without(data, item.key)
BY DEF With, Without

LEMMA WithoutWithout ==
  ASSUME NEW data, NEW k
  PROVE  Without(Without(data, k), k) = Without(data, k)
BY DEF Without

LEMMA RemoveStageType ==
  ASSUME NEW data
  PROVE  /\ RemoveStage(data) \in {"drop", "patch"}
         /\ RemoveStage(data) = "drop" => data = {}
BY DEF RemoveStage

----------------------------------------------------------------------------
(* Type correctness *)

LEMMA ViewType ==
  ASSUME TypeOK, NEW n \in Nodes, NEW k \in Keys
  PROVE  View(n, k).data \in SUBSET Item
BY BucketAssumption DEF TypeOK, View

\* A call of each kind has the fields of that kind.
LEMMA OpType ==
  ASSUME TypeOK, NEW n \in Nodes
  PROVE  /\ op[n].kind \in {"idle", "put", "delete", "reap", "get"}
         /\ op[n].kind = "idle" => op[n] = Idle
         /\ op[n].kind = "put" => op[n] \in PutOp
         /\ op[n].kind \in {"delete", "reap"} => op[n] \in RemoveOp
         /\ op[n].kind = "get" => op[n] \in GetOp
BY DEF TypeOK, Idle, PutOp, RemoveOp, GetOp

LEMMA TypeInit == Init => TypeOK
<1> SUFFICES ASSUME Init PROVE TypeOK
    OBVIOUS
<1>1. Absent \in [found: BOOLEAN, data: SUBSET Item]
      BY DEF Absent
<1>2. secrets \in [Buckets -> [found: BOOLEAN, data: SUBSET Item]]
      BY <1>1 DEF Init
<1>3. cache \in [Nodes -> [Buckets -> [found: BOOLEAN, data: SUBSET Item]]]
      BY <1>1 DEF Init
<1>4. /\ leading \subseteq Nodes
      /\ op \in [Nodes -> {Idle} \cup PutOp \cup RemoveOp \cup GetOp]
      /\ reaps \subseteq Reap
      /\ res \in [Nodes -> Results]
      /\ now \in Nat
      /\ overlap \in BOOLEAN
      BY DEF Init, Results
<1> QED BY <1>2, <1>3, <1>4 DEF TypeOK

LEMMA TypeStep == TypeOK /\ [Next]_vars => TypeOK'
<1> SUFFICES ASSUME TypeOK, [Next]_vars
             PROVE  TypeOK'
    OBVIOUS
<1>1. ASSUME NEW n \in Nodes, Put(n)
      PROVE  TypeOK'
  <2>1. PICK k \in Keys, v \in Values, ttl \in TTLs : PutStart(n, k, v, ttl)
        BY <1>1 DEF Put
  <2>2. [kind |-> "put", stage |-> "get", key |-> k, val |-> v, ttl |-> ttl, data |-> {}]
          \in PutOp
        BY DEF PutOp
  <2> QED BY <2>1, <2>2 DEF PutStart, TypeOK
<1>2. ASSUME NEW n \in Nodes, Delete(n)
      PROVE  TypeOK'
  <2>1. PICK k \in Keys : DeleteStart(n, k)
        BY <1>2 DEF Delete
  <2>2. [kind |-> "delete", stage |-> "get", key |-> k, data |-> {}] \in RemoveOp
        BY DEF RemoveOp
  <2> QED BY <2>1, <2>2 DEF DeleteStart, TypeOK
<1>3. ASSUME NEW n \in Nodes, NotLeader(n) \/ ReadError(n)
      PROVE  TypeOK'
      BY <1>3 DEF NotLeader, ReadError, Finish, TypeOK, Results
<1>4. ASSUME NEW n \in Nodes, GetValue(n)
      PROVE  TypeOK'
  <2>1. PICK k \in Keys : \/ GetLive(n, k)
                          \/ GetMiss(n, k)
                          \/ \E id \in ReapIds : GetExpired(n, k, id)
        BY <1>4 DEF GetValue
  <2>2. CASE GetLive(n, k)
    <3>1. PICK i \in Found(n, k) : Finish(n, i.val)
          BY <2>2 DEF GetLive
    <3>2. i.val \in Values
          BY ViewType DEF Found, Item
    <3> QED BY <2>2, <3>1, <3>2 DEF GetLive, Finish, TypeOK, Results
  <2>3. CASE GetMiss(n, k)
        BY <2>3 DEF GetMiss, Finish, TypeOK, Results
  <2>4. CASE \E id \in ReapIds : GetExpired(n, k, id)
    <3>1. PICK id \in ReapIds : GetExpired(n, k, id)
          BY <2>4
    <3>2. [kind |-> "get", stage |-> "check", key |-> k, id |-> id, data |-> View(n, k).data]
            \in GetOp
          BY ViewType DEF GetOp
    <3> QED BY <3>1, <3>2 DEF GetExpired, TypeOK
  <2> QED BY <2>1, <2>2, <2>3, <2>4
<1>5. ASSUME NEW n \in Nodes, RunReap(n)
      PROVE  TypeOK'
  <2>1. PICK r \in reaps : ReapStart(n, r)
        BY <1>5 DEF RunReap
  <2>2. r \in Reap
        BY DEF TypeOK
  <2>3. [kind |-> "reap", stage |-> RemoveStage(Without(r.data, r.key)), key |-> r.key,
         data |-> Without(r.data, r.key)] \in RemoveOp
        BY <2>2, WithoutType, RemoveStageType DEF RemoveOp, Reap
  <2> QED BY <2>1, <2>3 DEF ReapStart, TypeOK
<1>6. ASSUME NEW n \in Nodes, Proceed(n)
      PROVE  TypeOK'
  <2>1. CASE PutGet(n)
    <3>1. op[n] \in PutOp
          BY <2>1, OpType DEF PutGet, Holds
    <3> DEFINE item == [key |-> op[n].key, val |-> op[n].val, exp |-> Expiry(op[n].ttl, now)]
    <3>2. item \in Item
          BY <3>1, ExpiryType DEF PutOp, Item, TypeOK
    <3>3. With(View(n, op[n].key).data, item) \in SUBSET Item
          BY <3>1, <3>2, ViewType, WithType DEF PutOp
    <3>4. [op[n] EXCEPT !.stage = "patch", !.data = With(View(n, op[n].key).data, item)]
            \in PutOp
          BY <3>1, <3>3 DEF PutOp
    <3>5. op' = [op EXCEPT ![n] = [op[n] EXCEPT !.stage = "patch",
                                  !.data = With(View(n, op[n].key).data, item)]]
          BY <2>1 DEF PutGet, TypeOK
    <3> HIDE DEF item
    <3> QED BY <2>1, <3>4, <3>5 DEF PutGet, TypeOK
  <2>2. CASE DeleteGet(n)
    <3>1. op[n] \in RemoveOp
          BY <2>2, OpType DEF DeleteGet, Holds
    <3> DEFINE rest == Without(View(n, op[n].key).data, op[n].key)
    <3>2. rest \in SUBSET Item
          BY <3>1, ViewType, WithoutType DEF RemoveOp
    <3>3. [op[n] EXCEPT !.stage = RemoveStage(rest), !.data = rest] \in RemoveOp
          BY <3>1, <3>2, RemoveStageType DEF RemoveOp
    <3>4. op' = [op EXCEPT ![n] = [op[n] EXCEPT !.stage = RemoveStage(rest), !.data = rest]]
          BY <2>2 DEF DeleteGet, TypeOK
    <3> HIDE DEF rest
    <3> QED BY <2>2, <3>3, <3>4 DEF DeleteGet, TypeOK
  <2>3. CASE DeleteNotFound(n)
        BY <2>3 DEF DeleteNotFound, Finish, TypeOK, Results
  <2>4. CASE GetCheck(n)
    <3>1. op[n] \in GetOp
          BY <2>4, OpType DEF GetCheck, Holds
    <3>2. [id |-> op[n].id, node |-> n, key |-> op[n].key, data |-> op[n].data] \in Reap
          BY <3>1 DEF GetOp, Reap
    <3> QED BY <2>4, <3>2 DEF GetCheck, Finish, TypeOK, Results
  <2>5. ASSUME op[n].stage \in {"drop", "patch"}
        PROVE  /\ op[n].key \in Keys
               /\ op[n].data \in SUBSET Item
               /\ op[n] \in PutOp \cup RemoveOp
        BY <2>5, OpType DEF PutOp, RemoveOp, GetOp, Idle
  <2>6. CASE Drop(n)
    <3>1. op[n] \in RemoveOp
          BY <2>6, <2>5 DEF Drop, PutOp
    <3>2. [op[n] EXCEPT !.stage = "patch"] \in RemoveOp
          BY <3>1 DEF RemoveOp
    <3>3. Absent \in [found: BOOLEAN, data: SUBSET Item]
          BY DEF Absent
    <3>4. secrets' \in [Buckets -> [found: BOOLEAN, data: SUBSET Item]]
          BY <2>6, <3>3 DEF Drop, TypeOK
    <3>5. op' \in [Nodes -> {Idle} \cup PutOp \cup RemoveOp \cup GetOp]
          BY <2>6, <3>2 DEF Drop, TypeOK
    <3> QED BY <2>6, <3>4, <3>5 DEF Drop, TypeOK
  <2>7. CASE Patch(n)
        BY <2>7, <2>5 DEF Patch, Applied, FinishWrite, TypeOK, Secret, Results
  <2>8. CASE WriteError(n)
    <3>1. \A data \in SUBSET Item : {Absent, Secret(data)} \subseteq [found: BOOLEAN, data: SUBSET Item]
          BY DEF Absent, Secret
    <3>2. secrets' \in [Buckets -> [found: BOOLEAN, data: SUBSET Item]]
      <4>1. CASE secrets' = secrets
            BY <4>1 DEF TypeOK
      <4>2. CASE op[n].stage = "drop" /\
                 secrets' = [secrets EXCEPT ![bucketForKey[op[n].key]] = Absent]
            BY <4>2, <3>1 DEF TypeOK
      <4>3. CASE op[n].stage = "patch" /\ secrets' = Applied(n)
            BY <4>3, <2>5, <3>1 DEF TypeOK, Applied
      <4> QED BY <2>8, <4>1, <4>2, <4>3 DEF WriteError
    <3>3. op' \in [Nodes -> {Idle} \cup PutOp \cup RemoveOp \cup GetOp]
          BY <2>8 DEF WriteError, FinishWrite, TypeOK
    <3>4. res' \in [Nodes -> Results]
          BY <2>8 DEF WriteError, FinishWrite, TypeOK, Results
    <3> QED BY <2>8, <3>2, <3>3, <3>4 DEF WriteError, TypeOK
  <2> QED BY <1>6, <2>1, <2>2, <2>3, <2>4, <2>6, <2>7, <2>8 DEF Proceed
<1>7. ASSUME NEW n \in Nodes, Elect(n) \/ Lose(n) \/ Crash(n)
      PROVE  TypeOK'
  <2>1. CASE Elect(n)
      BY <2>1 DEF Elect, TypeOK
  <2>2. CASE Lose(n)
      BY <2>2 DEF Lose, TypeOK
  <2>3. CASE Crash(n)
      BY <2>3 DEF Crash, Finish, TypeOK, Results
  <2> QED BY <1>7, <2>1, <2>2, <2>3
<1>8. ASSUME NEW n \in Nodes, NEW b \in Buckets, CacheSync(n, b)
      PROVE  TypeOK'
      BY <1>8 DEF CacheSync, TypeOK
<1>9. CASE Tick
      BY <1>9 DEF Tick, TypeOK
<1>10. CASE UNCHANGED vars
      BY <1>10 DEF vars, TypeOK
<1> QED
  BY <1>1, <1>2, <1>3, <1>4, <1>5, <1>6, <1>7, <1>8, <1>9, <1>10 DEF Next

\* The state of storage.go and of its environment keeps its types.
THEOREM TypeCorrect == Spec => []TypeOK
BY TypeInit, TypeStep, PTL DEF Spec

----------------------------------------------------------------------------
(* One writer at a time *)

LEMMA IdleActive ==
  ASSUME TypeOK, NEW n \in Nodes, op' = [op EXCEPT ![n] = Idle],
         leading' \subseteq leading, reaps' \subseteq reaps
  PROVE  Active' \subseteq Active
<1>1. \A m \in Nodes : m # n => op'[m] = op[m]
      BY DEF TypeOK
<1>2. op'[n].kind = "idle"
      BY DEF TypeOK, Idle
<1> QED BY <1>1, <1>2 DEF Active, Writing

\* No step but an election adds to the processes that can write: a call ends
\* or becomes a deferred delete of the same process, a deferred delete becomes
\* a call of it, and a call that writes begins under the leader.
LEMMA ActiveShrinks ==
  ASSUME TypeOK, [Next]_vars, \A n \in Nodes : ~Elect(n)
  PROVE  Active' \subseteq Active /\ overlap' = overlap
<1>1. ASSUME NEW n \in Nodes, Put(n) \/ Delete(n)
      PROVE  Active' \subseteq Active /\ overlap' = overlap
      BY <1>1 DEF Put, Delete, PutStart, DeleteStart, TypeOK, Active, Writing
<1>2. ASSUME NEW n \in Nodes, NotLeader(n) \/ ReadError(n)
      PROVE  Active' \subseteq Active /\ overlap' = overlap
      BY <1>2, IdleActive DEF NotLeader, ReadError, Finish
<1>3. ASSUME NEW n \in Nodes, GetValue(n)
      PROVE  Active' \subseteq Active /\ overlap' = overlap
  <2>1. CASE \E k \in Keys : GetLive(n, k) \/ GetMiss(n, k)
        BY <2>1, IdleActive DEF GetLive, GetMiss, Finish
  <2>2. ASSUME NEW k \in Keys, NEW id \in ReapIds, GetExpired(n, k, id)
        PROVE  Active' \subseteq Active /\ overlap' = overlap
    <3>1. /\ op'[n].kind = "get"
          /\ \A m \in Nodes : m # n => op'[m] = op[m]
          /\ UNCHANGED <<leading, reaps, overlap>>
          BY <2>2 DEF GetExpired, TypeOK
    <3> QED BY <3>1 DEF Active, Writing
  <2> QED BY <1>3, <2>1, <2>2 DEF GetValue
<1>4. ASSUME NEW n \in Nodes, RunReap(n)
      PROVE  Active' \subseteq Active /\ overlap' = overlap
      BY <1>4 DEF RunReap, ReapStart, TypeOK, Active, Writing
<1>5. ASSUME NEW n \in Nodes, Proceed(n)
      PROVE  Active' \subseteq Active /\ overlap' = overlap
  <2>1. CASE PutGet(n) \/ DeleteGet(n)
    <3>1. /\ Writing(n)
          /\ \A m \in Nodes : m # n => op'[m] = op[m]
          /\ UNCHANGED <<leading, reaps, overlap>>
          BY <2>1 DEF PutGet, DeleteGet, Holds, Writing, TypeOK
    <3> QED BY <3>1 DEF Active, Writing
  <2>2. CASE GetCheck(n)
        BY <2>2 DEF GetCheck, Finish, TypeOK, Active, Writing, Idle
  <2>3. CASE DeleteNotFound(n)
        BY <2>3, IdleActive DEF DeleteNotFound, Finish
  <2>4. CASE Drop(n)
    <3>1. /\ op'[n].kind = op[n].kind
          /\ \A m \in Nodes : m # n => op'[m] = op[m]
          /\ UNCHANGED <<leading, reaps, overlap>>
      <4>1. op[n] \in RemoveOp
            BY <2>4, OpType DEF Drop, Idle, PutOp, GetOp
      <4> QED BY <2>4, <4>1 DEF Drop, RemoveOp, TypeOK
    <3> QED BY <3>1 DEF Active, Writing
  <2>5. CASE Patch(n) \/ WriteError(n)
        BY <2>5, IdleActive DEF Patch, WriteError, FinishWrite
  <2> QED BY <1>5, <2>1, <2>2, <2>3, <2>4, <2>5 DEF Proceed
<1>6. ASSUME NEW n \in Nodes, Lose(n) \/ Crash(n)
      PROVE  Active' \subseteq Active /\ overlap' = overlap
  <2>1. CASE Lose(n)
        BY <2>1 DEF Lose, Active, Writing
  <2>2. CASE Crash(n)
        BY <2>2, IdleActive DEF Crash, Finish
  <2> QED BY <1>6, <2>1, <2>2
<1>7. CASE \/ Tick
           \/ \E n \in Nodes, b \in Buckets : CacheSync(n, b)
           \/ UNCHANGED vars
      BY <1>7 DEF Tick, CacheSync, vars, Active, Writing
<1> QED
  BY <1>1, <1>2, <1>3, <1>4, <1>5, <1>6, <1>7 DEF Next

LEMMA SoleWriterStep == TypeOK /\ SoleWriter /\ [Next]_vars => SoleWriter'
<1> SUFFICES ASSUME TypeOK, SoleWriter, [Next]_vars
             PROVE  SoleWriter'
    OBVIOUS
<1>1. CASE \A n \in Nodes : ~Elect(n)
      BY <1>1, ActiveShrinks DEF SoleWriter
<1>2. ASSUME NEW n \in Nodes, Elect(n)
      PROVE  SoleWriter'
  <2>1. Active' = Active \cup {n}
        BY <1>2 DEF Elect, Active, Writing
  <2> QED BY <1>2, <2>1 DEF Elect, SoleWriter
<1> QED BY <1>1, <1>2

\* Whoever may begin a write, has one in flight or a deferred delete pending is
\* one and the same node until two elections overlap, with or without the
\* cache, expired items and crashes.
THEOREM SoleWriterCorrect == Spec => []SoleWriter
<1>1. Init => SoleWriter
      BY DEF Init, SoleWriter, Active, Writing, Idle
<1> QED BY <1>1, SoleWriterStep, TypeCorrect, PTL DEF Spec

----------------------------------------------------------------------------
(* No lost updates without overlapping elections                           *)

\* Only a bucket with nothing left is dropped.
DropsEmpty == \A n \in Nodes : op[n].stage = "drop" => op[n].data = {}

LEMMA ApplyType ==
  ASSUME TypeOK, NEW n \in Nodes, op[n].stage \in {"drop", "patch"}
  PROVE  /\ op[n].key \in Keys
         /\ bucketForKey[op[n].key] \in Buckets
         /\ Writing(n)
BY OpType, BucketAssumption DEF PutOp, RemoveOp, GetOp, Idle, Writing

LEMMA IdleDropsEmpty ==
  ASSUME TypeOK, DropsEmpty, NEW n \in Nodes, op' = [op EXCEPT ![n] = Idle]
  PROVE  DropsEmpty'
<1>1. \A m \in Nodes : m # n => op'[m] = op[m]
      BY DEF TypeOK
<1>2. op'[n] = Idle
      BY DEF TypeOK
<1> QED BY <1>1, <1>2 DEF DropsEmpty, Idle

LEMMA DropsEmptyStep == TypeOK /\ DropsEmpty /\ [Next]_vars => DropsEmpty'
<1> SUFFICES ASSUME TypeOK, DropsEmpty, [Next]_vars
             PROVE  DropsEmpty'
    OBVIOUS
<1>1. ASSUME NEW n \in Nodes, Put(n) \/ Delete(n)
      PROVE  DropsEmpty'
  <2>1. op'[n].stage = "get" /\ \A m \in Nodes : m # n => op'[m] = op[m]
        BY <1>1 DEF Put, Delete, PutStart, DeleteStart, TypeOK
  <2> QED BY <2>1 DEF DropsEmpty
<1>2. ASSUME NEW n \in Nodes, NotLeader(n) \/ ReadError(n) \/ Crash(n)
      PROVE  DropsEmpty'
      BY <1>2, IdleDropsEmpty DEF NotLeader, ReadError, Crash, Finish
<1>3. ASSUME NEW n \in Nodes, GetValue(n)
      PROVE  DropsEmpty'
  <2>1. CASE \E k \in Keys : GetLive(n, k) \/ GetMiss(n, k)
        BY <2>1, IdleDropsEmpty DEF GetLive, GetMiss, Finish
  <2>2. CASE \E k \in Keys, id \in ReapIds : GetExpired(n, k, id)
        BY <2>2 DEF GetExpired, TypeOK, DropsEmpty
  <2> QED BY <1>3, <2>1, <2>2 DEF GetValue
<1>4. ASSUME NEW n \in Nodes, RunReap(n)
      PROVE  DropsEmpty'
      BY <1>4, RemoveStageType DEF RunReap, ReapStart, TypeOK, DropsEmpty
<1>5. ASSUME NEW n \in Nodes, Proceed(n)
      PROVE  DropsEmpty'
  <2>1. CASE PutGet(n)
    <3>1. op[n] \in PutOp
          BY <2>1, OpType DEF PutGet, Holds
    <3>2. op'[n].stage = "patch" /\ \A m \in Nodes : m # n => op'[m] = op[m]
          BY <2>1, <3>1 DEF PutGet, TypeOK, PutOp
    <3> QED BY <3>2 DEF DropsEmpty
  <2>2. CASE DeleteGet(n)
    <3> DEFINE rest == Without(View(n, op[n].key).data, op[n].key)
    <3>1. op[n] \in RemoveOp
          BY <2>2, OpType DEF DeleteGet, Holds
    <3>2. /\ op'[n].data = rest /\ op'[n].stage = RemoveStage(rest)
          /\ \A m \in Nodes : m # n => op'[m] = op[m]
          BY <2>2, <3>1 DEF DeleteGet, TypeOK, RemoveOp
    <3> HIDE DEF rest
    <3> QED BY <3>2, RemoveStageType DEF DropsEmpty
  <2>3. CASE DeleteNotFound(n) \/ GetCheck(n) \/ Patch(n) \/ WriteError(n)
        BY <2>3, IdleDropsEmpty DEF DeleteNotFound, GetCheck, Patch, WriteError, Finish,
                                    FinishWrite
  <2>4. CASE Drop(n)
    <3>1. op[n] \in RemoveOp
          BY <2>4, OpType DEF Drop, Idle, PutOp, GetOp
    <3>2. op'[n].stage = "patch" /\ \A m \in Nodes : m # n => op'[m] = op[m]
          BY <2>4, <3>1 DEF Drop, TypeOK, RemoveOp
    <3> QED BY <3>2 DEF DropsEmpty
  <2> QED BY <1>5, <2>1, <2>2, <2>3, <2>4 DEF Proceed
<1>6. CASE \/ \E n \in Nodes : Elect(n) \/ Lose(n)
           \/ Tick
           \/ \E n \in Nodes, b \in Buckets : CacheSync(n, b)
           \/ UNCHANGED vars
      BY <1>6 DEF Elect, Lose, Tick, CacheSync, vars, DropsEmpty
<1> QED
  BY <1>1, <1>2, <1>3, <1>4, <1>5, <1>6 DEF Next

Applying(n) == op[n].kind \in {"put", "delete"} /\ op[n].stage \in {"drop", "patch"}

LEMMA CleanApplyStep ==
  DisableCache /\ TypeOK /\ SoleWriter /\ DropsEmpty /\ CleanApply /\ [Next]_vars => CleanApply'
<1> SUFFICES ASSUME DisableCache, TypeOK, SoleWriter, DropsEmpty, CleanApply, [Next]_vars,
                    ~overlap',
                    NEW x \in Nodes, Applying(x)'
             PROVE  Without(op'[x].data, op'[x].key)
                      = Without(secrets'[bucketForKey[op'[x].key]].data, op'[x].key)
    BY DEF CleanApply, Applying
<1>1. ~overlap
  <2>1. CASE \A n \in Nodes : ~Elect(n)
        BY <2>1, ActiveShrinks
  <2>2. CASE \E n \in Nodes : Elect(n)
        BY <2>2 DEF Elect
  <2> QED BY <2>1, <2>2
<1>2. Applying(x) => Without(op[x].data, op[x].key)
                       = Without(secrets[bucketForKey[op[x].key]].data, op[x].key)
      BY <1>1 DEF CleanApply, Applying
<1>3. CASE secrets' = secrets /\ op'[x] = op[x]
      BY <1>2, <1>3 DEF Applying
\* Two nodes with a request to send would be two writers.
<1>4. \A n \in Nodes : op[n].stage \in {"drop", "patch"} /\ op[x].stage \in {"drop", "patch"}
                         => n = x
      BY <1>1, ApplyType DEF SoleWriter, Active
<1>5. ASSUME NEW n \in Nodes, Put(n) \/ Delete(n)
      PROVE  secrets' = secrets /\ op'[x] = op[x]
      BY <1>5 DEF Put, Delete, PutStart, DeleteStart, TypeOK, Applying
\* A call that ends leaves no request behind.
<1>6. ASSUME NEW n \in Nodes, op' = [op EXCEPT ![n] = Idle]
      PROVE  x # n /\ op'[x] = op[x]
      BY <1>6 DEF TypeOK, Idle, Applying
<1>7. ASSUME NEW n \in Nodes, NotLeader(n) \/ ReadError(n) \/ Crash(n)
      PROVE  secrets' = secrets /\ op'[x] = op[x]
      BY <1>7, <1>6 DEF NotLeader, ReadError, Crash, Finish
<1>8. ASSUME NEW n \in Nodes, GetValue(n)
      PROVE  secrets' = secrets /\ op'[x] = op[x]
  <2>1. CASE \E k \in Keys : GetLive(n, k) \/ GetMiss(n, k)
        BY <2>1, <1>6 DEF GetLive, GetMiss, Finish
  <2>2. CASE \E k \in Keys, id \in ReapIds : GetExpired(n, k, id)
        BY <2>2 DEF GetExpired, TypeOK, Applying
  <2> QED BY <1>8, <2>1, <2>2 DEF GetValue
\* A deferred delete is not one of the calls.
<1>9. ASSUME NEW n \in Nodes, RunReap(n)
      PROVE  secrets' = secrets /\ op'[x] = op[x]
      BY <1>9 DEF RunReap, ReapStart, TypeOK, Applying
<1>10. ASSUME NEW n \in Nodes, PutGet(n)
       PROVE  Without(op'[x].data, op'[x].key)
                = Without(secrets'[bucketForKey[op'[x].key]].data, op'[x].key)
  <2> DEFINE item == [key |-> op[n].key, val |-> op[n].val, exp |-> Expiry(op[n].ttl, now)]
  <2>1. CASE x # n
        BY <1>10, <2>1, <1>3 DEF PutGet, TypeOK
  <2>2. CASE x = n
    <3>1. op[n] \in PutOp
          BY <1>10, OpType DEF PutGet, Holds
    <3>2. /\ op'[n].data = With(View(n, op[n].key).data, item)
          /\ op'[n].key = op[n].key
          /\ secrets' = secrets
          BY <1>10, <3>1 DEF PutGet, TypeOK, PutOp
    <3>3. item.key = op[n].key
          OBVIOUS
    <3>4. View(n, op[n].key) = secrets[bucketForKey[op[n].key]]
          BY DEF View
    <3> HIDE DEF item
    <3> QED BY <2>2, <3>2, <3>3, <3>4, WithoutWith
  <2> QED BY <2>1, <2>2
<1>11. ASSUME NEW n \in Nodes, DeleteGet(n)
       PROVE  Without(op'[x].data, op'[x].key)
                = Without(secrets'[bucketForKey[op'[x].key]].data, op'[x].key)
  <2>1. CASE x # n
        BY <1>11, <2>1, <1>3 DEF DeleteGet, TypeOK
  <2>2. CASE x = n
    <3>1. op[n] \in RemoveOp
          BY <1>11, OpType DEF DeleteGet, Holds
    <3>2. /\ op'[n].data = Without(View(n, op[n].key).data, op[n].key)
          /\ op'[n].key = op[n].key
          /\ secrets' = secrets
          BY <1>11, <3>1 DEF DeleteGet, TypeOK, RemoveOp
    <3>3. View(n, op[n].key) = secrets[bucketForKey[op[n].key]]
          BY DEF View
    <3> QED BY <2>2, <3>2, <3>3, WithoutWithout
  <2> QED BY <2>1, <2>2
<1>12. ASSUME NEW n \in Nodes, DeleteNotFound(n) \/ GetCheck(n)
       PROVE  secrets' = secrets /\ op'[x] = op[x]
       BY <1>12, <1>6 DEF DeleteNotFound, GetCheck, Finish
<1>13. ASSUME NEW n \in Nodes, Drop(n)
       PROVE  Without(op'[x].data, op'[x].key)
                = Without(secrets'[bucketForKey[op'[x].key]].data, op'[x].key)
  <2>1. op[n] \in RemoveOp
        BY <1>13, OpType DEF Drop, Idle, PutOp, GetOp
  <2>2. x = n
        BY <1>13, <1>4 DEF Drop, TypeOK, Applying
  <2>3. op'[n].data = {} /\ op'[n].key = op[n].key
        BY <1>13, <2>1 DEF Drop, TypeOK, RemoveOp, DropsEmpty
  <2>4. secrets'[bucketForKey[op[n].key]].data = {}
        BY <1>13, <2>1, BucketAssumption DEF Drop, TypeOK, RemoveOp, Absent
  <2> QED BY <2>2, <2>3, <2>4
<1>14. ASSUME NEW n \in Nodes, Patch(n) \/ WriteError(n)
       PROVE  secrets' = secrets /\ op'[x] = op[x]
  <2>1. op' = [op EXCEPT ![n] = Idle]
        BY <1>14 DEF Patch, WriteError, FinishWrite
  <2>2. x # n /\ op'[x] = op[x]
        BY <2>1, <1>6
  <2>3. op[n].stage \notin {"drop", "patch"}
        BY <2>2, <1>4 DEF Applying
  <2> QED BY <1>14, <2>2, <2>3 DEF Patch, WriteError
<1>15. CASE \/ \E n \in Nodes : Elect(n) \/ Lose(n)
            \/ Tick
            \/ \E n \in Nodes, b \in Buckets : CacheSync(n, b)
            \/ UNCHANGED vars
       BY <1>15, <1>3 DEF Elect, Lose, Tick, CacheSync, vars
<1> QED
  BY <1>3, <1>5, <1>7, <1>8, <1>9, <1>10, <1>11, <1>12, <1>13, <1>14, <1>15
  DEF Next, Proceed

\* No lost update: with reads from the API server and without overlapping
\* elections, the whole-Secret apply of PutValue and Delete carries every other
\* key of the bucket exactly as it is in the Secret at that moment, also when
\* items expire and deletes are deferred.
THEOREM CleanApplyCorrect == Spec => []CleanApply
<1>1. CASE DisableCache
  <2>1. Init => DropsEmpty /\ CleanApply
        BY DEF Init, DropsEmpty, CleanApply, Idle
  <2>2. Spec => [](DropsEmpty /\ CleanApply)
        BY <1>1, <2>1, TypeCorrect, SoleWriterCorrect, DropsEmptyStep, CleanApplyStep, PTL
        DEF Spec
  <2> QED BY <2>2, PTL
<1>2. CASE ~DisableCache
  <2>1. CleanApply
        BY <1>2 DEF CleanApply
  <2> QED BY <2>1, PTL
<1> QED BY <1>1, <1>2
-----------------------------------------------------------------------------
(* Storage implements KVStore where reads go to the API server and one     *)
(* snapshot of a Secret at a time is on its way back to it.  What a call   *)
(* or a deferred delete is about to apply must be known to be the Secret   *)
(* as it is, but for the call's own key: Current says so of each.  Nobody  *)
(* else can change the Secret meanwhile, because that would take another   *)
(* snapshot.                                                               *)

HasExpired(data, k, t) == \E i \in data : i.key = k /\ Expired(i, t)

\* What the call o would write is made of the data that is stored.  A delete whose
\* bucket became empty has nothing left to write once the Secret is deleted.
Current(o, data, t) ==
  /\ (o.kind = "put" /\ o.stage = "patch") =>
       \E u \in 0..t :
         o.data = With(data, [key |-> o.key, val |-> o.val, exp |-> Expiry(o.ttl, u)])
  /\ (o.kind \in {"delete", "reap"} /\ o.stage \in {"drop", "patch"}) =>
       \/ /\ o.data = Without(data, o.key)
          /\ o.stage = RemoveStage(o.data)
          /\ o.kind = "reap" => HasExpired(data, o.key, t)
       \/ o.stage = "patch" /\ o.data = {} /\ data = {}
  /\ o.kind = "get" => o.data = data /\ HasExpired(data, o.key, t)

Data(k) == secrets[bucketForKey[k]].data

CallsCurrent == \A n \in Nodes : Current(op[n], Data(op[n].key), now)

ReapsCurrent == \A r \in reaps : r.data = Data(r.key) /\ HasExpired(r.data, r.key, now)

\* The items of a bucket are of its keys, one of each.
Tidy(b, data) == /\ \A i \in data : bucketForKey[i.key] = b
                 /\ \A i, j \in data : i.key = j.key => i = j

SecretsTidy == \A b \in Buckets : /\ Tidy(b, secrets[b].data)
                                  /\ ~secrets[b].found => secrets[b].data = {}

RInv == TypeOK /\ SecretsTidy /\ CallsCurrent /\ ReapsCurrent

-----------------------------------------------------------------------------
(* Data *)

LEMMA TidyWith ==
  ASSUME NEW data, NEW item, NEW b, Tidy(b, data), bucketForKey[item.key] = b
  PROVE  Tidy(b, With(data, item))
  BY DEF Tidy, With, Without

LEMMA TidyWithout ==
  ASSUME NEW data, NEW k, NEW b, Tidy(b, data)
  PROVE  Tidy(b, Without(data, k))
  BY DEF Tidy, Without

\* What is current stays so while time passes.
LEMMA CurrentLater ==
  ASSUME NEW o, NEW data \in SUBSET Item, NEW t \in Nat, Current(o, data, t)
  PROVE  Current(o, data, t + 1)
<1>1. \A i \in data : Expired(i, t) => Expired(i, t + 1)
  BY DEF Expired, Item
<1>2. \A k : HasExpired(data, k, t) => HasExpired(data, k, t + 1)
  BY <1>1 DEF HasExpired
<1>3. \A u \in 0..t : u \in 0..(t + 1)
  OBVIOUS
<1> QED BY <1>2, <1>3 DEF Current

-----------------------------------------------------------------------------
(* The invariant *)

\* While n has a request to send, nobody else has a copy of the same Secret.
LEMMA Alone ==
  ASSUME TypeOK, Exclusive, NEW n \in Nodes, op[n].stage \in {"drop", "patch"}
  PROVE  /\ op[n].key \in Keys /\ bucketForKey[op[n].key] \in Buckets
         /\ \A m \in Nodes \ {n} : op[m].stage \in {"check", "drop", "patch"} =>
              bucketForKey[op[m].key] # bucketForKey[op[n].key]
         /\ \A r \in reaps : bucketForKey[r.key] # bucketForKey[op[n].key]
<1> DEFINE b == bucketForKey[op[n].key]
<1>1. op[n].key \in Keys
  BY DEF TypeOK, Idle, PutOp, RemoveOp, GetOp
<1>2. b \in Buckets
  BY <1>1, BucketAssumption
<1>3. <<"call", n>> \in Snapshots(b)
  BY DEF Snapshots
<1>4. ASSUME NEW m \in Nodes \ {n}, op[m].stage \in {"check", "drop", "patch"},
             bucketForKey[op[m].key] = b
      PROVE  FALSE
  <2>1. <<"call", m>> \in Snapshots(b)
    BY <1>4 DEF Snapshots
  <2>2. <<"call", m>> = <<"call", n>>
    BY <1>2, <1>3, <2>1 DEF Exclusive
  <2> QED BY <2>2, <1>4
<1>5. ASSUME NEW r \in reaps, bucketForKey[r.key] = b
      PROVE  FALSE
  <2>1. <<"reap", r.id>> \in Snapshots(b)
    BY <1>5 DEF Snapshots
  <2>2. <<"reap", r.id>> = <<"call", n>>
    BY <1>2, <1>3, <2>1 DEF Exclusive
  <2> QED BY <2>2
<1> QED BY <1>1, <1>2, <1>4, <1>5

\* The other calls stay current when their Secrets stay as they are.
LEMMA OthersCurrent ==
  ASSUME RInv, NEW n \in Nodes, now' = now,
         \A m \in Nodes \ {n} :
           /\ op'[m] = op[m]
           /\ op[m].stage \in {"check", "drop", "patch"} =>
                secrets'[bucketForKey[op[m].key]] = secrets[bucketForKey[op[m].key]],
         Current(op'[n], secrets'[bucketForKey[op'[n].key]].data, now)
  PROVE  CallsCurrent'
<1> SUFFICES ASSUME NEW m \in Nodes \ {n}
             PROVE  Current(op'[m], secrets'[bucketForKey[op'[m].key]].data, now')
  BY DEF CallsCurrent, Data
<1>1. CASE op[m].stage \in {"check", "drop", "patch"}
  BY <1>1 DEF RInv, CallsCurrent, Data
<1>2. CASE op[m].stage \notin {"check", "drop", "patch"}
  <2>1. op[m].kind # "get"
    BY <1>2, OpType DEF RInv, GetOp
  <2> QED BY <1>2, <2>1 DEF Current
<1> QED BY <1>1, <1>2

\* A step that leaves the Secrets alone and n with no snapshot.
LEMMA NoSnapshot ==
  ASSUME RInv, TypeOK', NEW n \in Nodes, UNCHANGED <<secrets, now>>, reaps' \subseteq reaps,
         op' = [op EXCEPT ![n] = op'[n]],
         op'[n].stage \notin {"check", "drop", "patch"}
  PROVE  RInv'
<1>1. op'[n].kind = "get" => op'[n].stage = "check"
  BY DEF TypeOK, Idle, PutOp, RemoveOp, GetOp
<1>2. Current(op'[n], secrets'[bucketForKey[op'[n].key]].data, now)
  BY <1>1 DEF Current
<1>3. CallsCurrent'
  BY <1>2, OthersCurrent DEF RInv, TypeOK
<1>4. ReapsCurrent'
  BY DEF RInv, ReapsCurrent, Data
<1> QED BY <1>3, <1>4 DEF RInv, SecretsTidy

LEMMA IdleKind == Idle.kind = "idle" /\ Idle.stage = "idle"
  BY DEF Idle

\* The end of a call that has changed nothing.
LEMMA Ended ==
  ASSUME RInv, TypeOK', NEW n \in Nodes, UNCHANGED <<secrets, now>>, reaps' \subseteq reaps,
         op' = [op EXCEPT ![n] = Idle]
  PROVE  RInv'
<1>1. op'[n] = Idle
  BY DEF RInv, TypeOK
<1> QED BY <1>1, IdleKind, NoSnapshot

\* A step that leaves the Secrets alone and n with a snapshot that is current.
LEMMA NewSnapshot ==
  ASSUME RInv, TypeOK', NEW n \in Nodes, UNCHANGED <<secrets, now>>, reaps' \subseteq reaps,
         op' = [op EXCEPT ![n] = op'[n]],
         Current(op'[n], Data(op'[n].key), now)
  PROVE  RInv'
<1>1. CallsCurrent'
  BY OthersCurrent DEF RInv, TypeOK, Data
<1>2. ReapsCurrent'
  BY DEF RInv, ReapsCurrent, Data
<1> QED BY <1>1, <1>2 DEF RInv, SecretsTidy

\* A request that replaces a Secret.
LEMMA NewSecret ==
  ASSUME RInv, TypeOK', Exclusive, NEW n \in Nodes, op[n].stage \in {"drop", "patch"},
         UNCHANGED <<reaps, now>>,
         op' = [op EXCEPT ![n] = op'[n]],
         NEW b, b = bucketForKey[op[n].key],
         NEW s, secrets' = [secrets EXCEPT ![b] = s],
         Tidy(b, s.data), s.found \/ s.data = {},
         op'[n].kind = "idle" \/ (op'[n].key = op[n].key /\ Current(op'[n], s.data, now))
  PROVE  RInv'
<1>1. b \in Buckets
  BY Alone DEF RInv
<1>2. secrets'[b] = s /\ \A c \in Buckets \ {b} : secrets'[c] = secrets[c]
  BY <1>1 DEF RInv, TypeOK
<1>3. \A m \in Nodes \ {n} : op[m].stage \in {"check", "drop", "patch"} =>
        bucketForKey[op[m].key] \in Buckets \ {b}
  BY Alone, BucketAssumption DEF RInv, TypeOK, Idle, PutOp, RemoveOp, GetOp
<1>4. Current(op'[n], secrets'[bucketForKey[op'[n].key]].data, now)
  BY <1>2 DEF Current
<1>5. CallsCurrent'
  <2>1. \A c \in Buckets \ {b} : secrets'[c] = secrets[c]
    BY <1>2
  <2> QED BY <1>3, <1>4, <2>1, OthersCurrent DEF RInv, TypeOK
<1>6. \A r \in reaps : bucketForKey[r.key] \in Buckets \ {b}
  BY Alone, BucketAssumption DEF RInv, TypeOK, Reap
<1>7. ReapsCurrent'
  BY <1>2, <1>6 DEF RInv, ReapsCurrent, Data
<1>8. SecretsTidy'
  BY <1>1, <1>2 DEF RInv, SecretsTidy
<1> QED BY <1>5, <1>7, <1>8 DEF RInv

LEMMA RInvInit == Init => RInv
<1> SUFFICES ASSUME Init PROVE RInv
  OBVIOUS
<1>1. SecretsTidy
  BY DEF Init, SecretsTidy, Tidy, Absent
<1>2. CallsCurrent /\ ReapsCurrent
  BY DEF Init, CallsCurrent, ReapsCurrent, Current, Idle
<1> QED BY <1>1, <1>2, TypeInit DEF RInv

\* What a call is about to apply keeps the bucket tidy, and is what patchBucket and the
\* deferred delete expect of it.
LEMMA PatchTidy ==
  ASSUME RInv, NEW n \in Nodes, op[n].stage \in {"drop", "patch"}
  PROVE  Tidy(bucketForKey[op[n].key], op[n].data)
<1> DEFINE b == bucketForKey[op[n].key]
<1>1. op[n] \in PutOp \cup RemoveOp
  BY DEF RInv, TypeOK, Idle, GetOp
<1>2. b \in Buckets
  BY <1>1, BucketAssumption DEF PutOp, RemoveOp
<1>3. Tidy(b, secrets[b].data)
  BY <1>2 DEF RInv, SecretsTidy
<1>4. Current(op[n], secrets[b].data, now)
  BY DEF RInv, CallsCurrent, Data
<1>5. CASE op[n] \in PutOp
  <2>1. PICK u \in 0..now : op[n].data = With(secrets[b].data,
               [key |-> op[n].key, val |-> op[n].val, exp |-> Expiry(op[n].ttl, u)])
    BY <1>4, <1>5 DEF Current, PutOp
  <2> QED BY <1>3, <2>1, TidyWith
<1>6. CASE op[n] \in RemoveOp
  <2>1. op[n].data \in {Without(secrets[b].data, op[n].key), {}}
    BY <1>4, <1>6 DEF Current, RemoveOp
  <2>2. Tidy(b, {})
    BY DEF Tidy
  <2> QED BY <1>3, <2>1, <2>2, TidyWithout
<1> QED BY <1>1, <1>5, <1>6

LEMMA RInvStep ==
  ASSUME DisableCache, RInv, Exclusive, Next
  PROVE  RInv'
<1>1. TypeOK'
  BY TypeStep DEF RInv
<1>2. ASSUME NEW n \in Nodes, Put(n) \/ Delete(n)
      PROVE  RInv'
  <2>1. UNCHANGED <<secrets, now, reaps>> /\ op' = [op EXCEPT ![n] = op'[n]]
    BY <1>2 DEF Put, Delete, PutStart, DeleteStart, RInv, TypeOK
  <2>2. op'[n].stage = "get"
    BY <1>2 DEF Put, Delete, PutStart, DeleteStart, RInv, TypeOK
  <2> QED BY <1>1, <2>1, <2>2, NoSnapshot
<1>3. ASSUME NEW n \in Nodes, NotLeader(n) \/ ReadError(n) \/ DeleteNotFound(n) \/ Crash(n)
      PROVE  RInv'
  <2>1. UNCHANGED <<secrets, now>> /\ reaps' \subseteq reaps /\ op' = [op EXCEPT ![n] = Idle]
    BY <1>3 DEF NotLeader, ReadError, DeleteNotFound, Crash, Finish
  <2> QED BY <1>1, <2>1, Ended
<1>4. ASSUME NEW n \in Nodes, GetValue(n)
      PROVE  RInv'
  <2>1. PICK k \in Keys : \/ GetLive(n, k)
                          \/ GetMiss(n, k)
                          \/ \E id \in ReapIds : GetExpired(n, k, id)
    BY <1>4 DEF GetValue
  <2>2. CASE GetLive(n, k) \/ GetMiss(n, k)
    BY <1>1, <2>2, Ended DEF GetLive, GetMiss, Finish
  <2>3. CASE \E id \in ReapIds : GetExpired(n, k, id)
    <3>1. PICK id \in ReapIds : GetExpired(n, k, id)
      BY <2>3
    <3>2. op'[n] = [kind |-> "get", stage |-> "check", key |-> k, id |-> id, data |-> Data(k)]
      BY <3>1 DEF GetExpired, View, Data, RInv, TypeOK
    <3>3. HasExpired(Data(k), k, now)
      BY <3>1 DEF GetExpired, Found, View, Data, HasExpired
    <3>4. Current(op'[n], Data(op'[n].key), now)
      BY <3>2, <3>3 DEF Current
    <3> QED BY <1>1, <3>1, <3>4, NewSnapshot DEF GetExpired, RInv, TypeOK
  <2> QED BY <2>1, <2>2, <2>3
\* The snapshot passes from the call to the deferred delete, and from that to its call.
<1>5. ASSUME NEW n \in Nodes, GetCheck(n)
      PROVE  RInv'
  <2>1. op[n] \in GetOp /\ Current(op[n], Data(op[n].key), now)
    BY <1>5, OpType DEF GetCheck, Holds, RInv, CallsCurrent
  <2>2. op[n].data = Data(op[n].key) /\ HasExpired(op[n].data, op[n].key, now)
    BY <2>1 DEF GetOp, Current
  <2>3. UNCHANGED <<secrets, now>> /\ op' = [op EXCEPT ![n] = Idle]
    BY <1>5 DEF GetCheck, Finish
  <2>4. CallsCurrent'
    BY <2>3, OthersCurrent DEF RInv, TypeOK, Current, Idle
  <2>5. ReapsCurrent'
    BY <1>5, <2>2, <2>3 DEF GetCheck, RInv, ReapsCurrent, Data
  <2> QED BY <1>1, <2>3, <2>4, <2>5 DEF RInv, SecretsTidy
<1>6. ASSUME NEW n \in Nodes, RunReap(n)
      PROVE  RInv'
  <2>1. PICK r \in reaps : ReapStart(n, r)
    BY <1>6 DEF RunReap
  <2> DEFINE rest == Without(r.data, r.key)
  <2>2. op'[n] = [kind |-> "reap", stage |-> RemoveStage(rest), key |-> r.key, data |-> rest]
    BY <2>1 DEF ReapStart, RInv, TypeOK
  <2>3. r.data = Data(r.key) /\ HasExpired(r.data, r.key, now)
    BY DEF RInv, ReapsCurrent
  <2>4. Current(op'[n], Data(op'[n].key), now)
    BY <2>2, <2>3 DEF Current
  <2> QED BY <1>1, <2>1, <2>4, NewSnapshot DEF ReapStart, RInv, TypeOK
<1>7. ASSUME NEW n \in Nodes, PutGet(n)
      PROVE  RInv'
  <2> DEFINE item == [key |-> op[n].key, val |-> op[n].val, exp |-> Expiry(op[n].ttl, now)]
  <2>1. op[n] \in PutOp
    BY <1>7, OpType DEF PutGet, Holds, RInv
  <2>2. /\ op'[n].kind = "put" /\ op'[n].key = op[n].key /\ op'[n].val = op[n].val
        /\ op'[n].ttl = op[n].ttl
        /\ op'[n].data = With(Data(op[n].key), item)
        /\ op' = [op EXCEPT ![n] = op'[n]]
    BY <1>7, <2>1 DEF PutGet, Holds, View, Data, RInv, TypeOK, PutOp
  <2>3. now \in 0..now
    BY DEF RInv, TypeOK
  <2>4. Current(op'[n], Data(op'[n].key), now)
    BY <2>2, <2>3 DEF Current
  <2> QED BY <1>1, <1>7, <2>2, <2>4, NewSnapshot DEF PutGet
<1>8. ASSUME NEW n \in Nodes, DeleteGet(n)
      PROVE  RInv'
  <2> DEFINE rest == Without(Data(op[n].key), op[n].key)
  <2>1. op[n] \in RemoveOp
    BY <1>8, OpType DEF DeleteGet, Holds, RInv
  <2>2. /\ op'[n].kind = "delete" /\ op'[n].key = op[n].key
        /\ op'[n].data = rest /\ op'[n].stage = RemoveStage(rest)
        /\ op' = [op EXCEPT ![n] = op'[n]]
    BY <1>8, <2>1 DEF DeleteGet, Holds, View, Data, RInv, TypeOK, RemoveOp
  <2>3. Current(op'[n], Data(op'[n].key), now)
    BY <2>2 DEF Current
  <2> QED BY <1>1, <1>8, <2>2, <2>3, NewSnapshot DEF DeleteGet
<1>9. ASSUME NEW n \in Nodes, Drop(n)
      PROVE  RInv'
  <2> DEFINE b == bucketForKey[op[n].key]
  <2>1. op[n] \in RemoveOp
    BY <1>9, OpType DEF Drop, Idle, PutOp, GetOp, RInv
  <2>2. Current(op[n], Data(op[n].key), now)
    BY DEF RInv, CallsCurrent
  <2>3. op[n].data = {}
    BY <1>9, <2>1, <2>2, RemoveStageType DEF Drop, Current, RemoveOp
  <2>4. /\ op'[n].kind = op[n].kind /\ op'[n].key = op[n].key
        /\ op'[n].stage = "patch" /\ op'[n].data = {}
        /\ op' = [op EXCEPT ![n] = op'[n]]
    BY <1>9, <2>1, <2>3 DEF Drop, RInv, TypeOK, RemoveOp
  <2>5. Current(op'[n], Absent.data, now) /\ Tidy(b, Absent.data) /\ Absent.data = {}
    BY <2>1, <2>4 DEF Current, Absent, Tidy, RemoveOp
  <2>6. /\ op[n].stage \in {"drop", "patch"}
        /\ UNCHANGED <<reaps, now>>
        /\ secrets' = [secrets EXCEPT ![b] = Absent]
    BY <1>9 DEF Drop
  <2> QED BY <1>1, <2>4, <2>5, <2>6, NewSecret
<1>10. ASSUME NEW n \in Nodes, Patch(n) \/ WriteError(n)
       PROVE  RInv'
  <2> DEFINE b == bucketForKey[op[n].key]
  <2>1. UNCHANGED <<reaps, now>> /\ op' = [op EXCEPT ![n] = Idle]
    BY <1>10 DEF Patch, WriteError, FinishWrite
  <2>2. op'[n] = Idle
    BY <2>1 DEF RInv, TypeOK
  <2>3. CASE secrets' = secrets
    BY <1>1, <2>1, <2>3, Ended
  <2>4. CASE op[n].stage = "drop" /\ secrets' = [secrets EXCEPT ![b] = Absent]
    <3>1. Tidy(b, Absent.data) /\ Absent.data = {}
      BY DEF Tidy, Absent
    <3>2. op'[n].kind = "idle" /\ op' = [op EXCEPT ![n] = op'[n]]
      BY <2>1, <2>2, IdleKind
    <3>3. op[n].stage \in {"drop", "patch"}
      BY <2>4
    <3> QED BY <1>1, <2>1, <2>4, <3>1, <3>2, <3>3, NewSecret
  <2>5. CASE op[n].stage = "patch" /\ secrets' = [secrets EXCEPT ![b] = Secret(op[n].data)]
    <3>1. Secret(op[n].data).found /\ Tidy(b, Secret(op[n].data).data)
      BY <2>5, PatchTidy DEF Secret
    <3>2. op'[n].kind = "idle" /\ op' = [op EXCEPT ![n] = op'[n]]
      BY <2>1, <2>2, IdleKind
    <3>3. op[n].stage \in {"drop", "patch"}
      BY <2>5
    <3> QED BY <1>1, <2>1, <2>5, <3>1, <3>2, <3>3, NewSecret
  <2> QED BY <1>10, <2>3, <2>4, <2>5 DEF Patch, WriteError, Applied
<1>11. ASSUME NEW n \in Nodes, \/ Elect(n) \/ Lose(n)
                               \/ \E b \in Buckets : CacheSync(n, b)
       PROVE  RInv'
  <2>1. UNCHANGED <<secrets, op, reaps, now>>
    BY <1>11 DEF Elect, Lose, CacheSync
  <2> QED BY <1>1, <2>1 DEF RInv, SecretsTidy, CallsCurrent, ReapsCurrent, Data
<1>12. CASE Tick
  <2>1. UNCHANGED <<secrets, op, reaps>> /\ now' = now + 1 /\ now \in Nat
    BY <1>12 DEF Tick, RInv, TypeOK
  <2>2. CallsCurrent'
    <3>1. ASSUME NEW n \in Nodes
          PROVE  Current(op[n], Data(op[n].key), now + 1)
      <4>1. CASE op[n] = Idle
        BY <4>1 DEF Current, Idle
      <4>2. CASE op[n] # Idle
        <5>1. op[n].key \in Keys
          BY <4>2 DEF RInv, TypeOK, PutOp, RemoveOp, GetOp
        <5>2. Data(op[n].key) \in SUBSET Item
          BY <5>1, BucketAssumption DEF Data, RInv, TypeOK
        <5> QED BY <2>1, <5>2, CurrentLater DEF RInv, CallsCurrent
      <4> QED BY <4>1, <4>2
    <3> QED BY <2>1, <3>1 DEF CallsCurrent, Data
  <2>3. ReapsCurrent'
    <3>1. \A r \in reaps : r.data \in SUBSET Item
      BY DEF RInv, TypeOK, Reap
    <3>2. \A r \in reaps : HasExpired(r.data, r.key, now) => HasExpired(r.data, r.key, now + 1)
      BY <2>1, <3>1 DEF HasExpired, Expired, Item
    <3> QED BY <2>1, <3>2 DEF RInv, ReapsCurrent, Data
  <2> QED BY <1>1, <2>1, <2>2, <2>3 DEF RInv, SecretsTidy
<1> QED
  BY <1>2, <1>3, <1>4, <1>5, <1>6, <1>7, <1>8, <1>9, <1>10, <1>11, <1>12 DEF Next, Proceed

-----------------------------------------------------------------------------
(* Steps of Storage are steps of KVStore *)

calls == [n \in Nodes |-> CallOf(op[n])]
results == [n \in Nodes |-> ResultOf(op[n], res[n])]

LEMMA Kinds ==
  ASSUME NEW o
  PROVE  /\ o.kind = "put" =>
              CallOf(o) = [kind |-> "put", key |-> o.key, val |-> o.val, ttl |-> o.ttl,
                           done |-> FALSE]
         /\ o.kind = "delete" =>
              CallOf(o) = [kind |-> "delete", key |-> o.key,
                           done |-> o.stage = "patch" /\ o.data = {}]
         /\ o.kind \notin {"put", "delete"} => CallOf(o) = KV!NoCall
  BY DEF CallOf, KV!NoCall

LEMMA AtNode ==
  ASSUME NEW n \in Nodes
  PROVE  /\ calls[n] = CallOf(op[n]) /\ [calls EXCEPT ![n] = CallOf(op[n])] = calls
         /\ results[n] = ResultOf(op[n], res[n])
  BY DEF calls, results

\* A step of one node is one of its call and its result.
LEMMA OneCall ==
  ASSUME TypeOK, NEW n \in Nodes, NEW o, op' = [op EXCEPT ![n] = o]
  PROVE  calls' = [calls EXCEPT ![n] = CallOf(o)]
  BY DEF calls, TypeOK

LEMMA OneResult ==
  ASSUME TypeOK, NEW n \in Nodes, NEW o, op' = [op EXCEPT ![n] = o],
         NEW r, res' = [res EXCEPT ![n] = r]
  PROVE  results' = [results EXCEPT ![n] = ResultOf(o, r)]
  BY DEF results, TypeOK

\* Items are found in the bucket of their key.
LEMMA InStore ==
  ASSUME RInv, NEW k \in Keys
  PROVE  \A i : (i \in Store /\ i.key = k) <=> (i \in Data(k) /\ i.key = k)
  BY BucketAssumption DEF RInv, SecretsTidy, Tidy, Store, Data

LEMMA SameStore ==
  ASSUME \A b \in Buckets : secrets'[b].data = secrets[b].data
  PROVE  Store' = Store
  BY DEF Store

\* What is done to the bucket of a key is done to the store.
LEMMA StoreChanges ==
  ASSUME RInv, NEW k \in Keys, NEW b, b = bucketForKey[k],
         NEW s, secrets' = [secrets EXCEPT ![b] = s]
  PROVE  /\ s.data = Without(secrets[b].data, k) => Store' = Without(Store, k)
         /\ \A item : (item.key = k /\ s.data = With(secrets[b].data, item)) =>
                         Store' = With(Store, item)
         /\ s.data = secrets[b].data => Store' = Store
<1>1. b \in Buckets
  BY BucketAssumption
<1>2. secrets'[b] = s /\ \A c \in Buckets \ {b} : secrets'[c] = secrets[c]
  BY <1>1 DEF RInv, TypeOK
<1>3. \A c \in Buckets \ {b} : \A i \in secrets[c].data : i.key # k
  BY DEF RInv, SecretsTidy, Tidy
<1>4. \A i : i \in Store' <=> i \in s.data \/ \E c \in Buckets \ {b} : i \in secrets[c].data
  BY <1>1, <1>2 DEF Store
<1>5. \A i : i \in Store <=> i \in secrets[b].data
                            \/ \E c \in Buckets \ {b} : i \in secrets[c].data
  BY <1>1 DEF Store
<1>6. s.data = Without(secrets[b].data, k) => Store' = Without(Store, k)
  BY <1>3, <1>4, <1>5 DEF Without
<1>7. ASSUME NEW item, item.key = k, s.data = With(secrets[b].data, item)
      PROVE  Store' = With(Store, item)
  BY <1>3, <1>4, <1>5, <1>7 DEF With, Without
<1>8. s.data = secrets[b].data => Store' = Store
  BY <1>4, <1>5
<1> QED BY <1>6, <1>7, <1>8

\* The operators of DataItems are the same in KVStore.
LEMMA SameItems ==
  /\ \A data, k : KV!Without(data, k) = Without(data, k)
  /\ \A data, item : KV!With(data, item) = With(data, item)
  /\ \A item, t : KV!Expired(item, t) = Expired(item, t)
  /\ \A ttl, t : KV!Expiry(ttl, t) = Expiry(ttl, t)
  BY DEF KV!Without, Without, KV!With, With, KV!Expired, Expired, KV!Expiry, Expiry

Performed(o) ==
  \/ /\ o.kind = "put"
     /\ \E u \in 0..now :
          Store' = With(Store, [key |-> o.key, val |-> o.val, exp |-> Expiry(o.ttl, u)])
  \/ o.kind = "delete" /\ Store' = Without(Store, o.key)

LEMMA Performs ==
  ASSUME NEW o, o.kind \in {"put", "delete"}, Performed(o)
  PROVE  KV!Perform(CallOf(o))
<1>1. CASE o.kind = "put"
  <2>1. PICK u \in 0..now :
          Store' = With(Store, [key |-> o.key, val |-> o.val, exp |-> Expiry(o.ttl, u)])
    BY <1>1 DEF Performed
  <2>2. CallOf(o) = [kind |-> "put", key |-> o.key, val |-> o.val, ttl |-> o.ttl, done |-> FALSE]
    BY <1>1, Kinds
  <2> QED BY <2>1, <2>2, SameItems DEF KV!Perform
<1>2. CASE o.kind = "delete"
  <2>1. Store' = Without(Store, o.key)
    BY <1>2 DEF Performed
  <2>2. CallOf(o).kind = "delete" /\ CallOf(o).key = o.key
    BY <1>2, Kinds
  <2> QED BY <2>1, <2>2, SameItems DEF KV!Perform
<1> QED BY <1>1, <1>2

LEMMA IdleMaps == CallOf(Idle) = KV!NoCall /\ \A r : ResultOf(Idle, r) = r
  BY Kinds, IdleKind DEF ResultOf

\* A call ends.
LEMMA Ends ==
  ASSUME TypeOK, NEW n \in Nodes, op' = [op EXCEPT ![n] = Idle], NEW r,
         res' = [res EXCEPT ![n] = r]
  PROVE  /\ calls' = [calls EXCEPT ![n] = KV!NoCall]
         /\ results' = [results EXCEPT ![n] = r]
<1>1. calls' = [calls EXCEPT ![n] = CallOf(Idle)]
  BY OneCall
<1>2. results' = [results EXCEPT ![n] = ResultOf(Idle, r)]
  BY OneResult
<1>3. ResultOf(Idle, r) = r
  BY IdleMaps
<1> QED BY <1>1, <1>2, <1>3, IdleMaps

\* A call returns: it has taken effect before, or does so now.
LEMMA Returns ==
  ASSUME TypeOK, NEW n \in Nodes, op[n].kind \in {"put", "delete"},
         op' = [op EXCEPT ![n] = Idle], NEW r \in {"ok", "err"},
         res' = [res EXCEPT ![n] = r], now' = now,
         \/ op[n].kind = "delete" /\ op[n].stage = "patch" /\ op[n].data = {} /\ Store' = Store
         \/ ~(op[n].kind = "delete" /\ op[n].stage = "patch" /\ op[n].data = {})
               /\ Performed(op[n])
  PROVE  KV!Next
<1>1. /\ calls' = [calls EXCEPT ![n] = KV!NoCall]
      /\ results' = [results EXCEPT ![n] = r]
  BY Ends
<1>2. calls[n] = CallOf(op[n])
  BY AtNode
<1>3. calls[n].kind # "idle"
  BY <1>2, Kinds
<1> DEFINE over == op[n].kind = "delete" /\ op[n].stage = "patch" /\ op[n].data = {}
<1>4. CASE over
  <2>1. (op[n].stage = "patch" /\ op[n].data = {}) = TRUE
    BY <1>4
  <2>2. calls[n] = [kind |-> "delete", key |-> op[n].key, done |-> TRUE]
    BY <1>2, <1>4, <2>1, Kinds
  <2>3. calls[n].done
    BY <2>2
  <2> QED BY <1>1, <1>4, <1>3, <2>3 DEF KV!Next, KV!Return, calls, results
<1>5. CASE ~over
  <2>1. (op[n].stage = "patch" /\ op[n].data = {}) = FALSE \/ op[n].kind = "put"
    BY <1>5
  <2>2. op[n].kind = "put" => calls[n].done = FALSE
    BY <1>2, Kinds
  <2>3. ASSUME op[n].kind = "delete"
        PROVE  calls[n].done = FALSE
    <3>1. calls[n] = [kind |-> "delete", key |-> op[n].key, done |-> FALSE]
      BY <1>2, <2>1, <2>3, Kinds
    <3> QED BY <3>1
  <2>4. ~calls[n].done
    BY <2>2, <2>3
  <2>5. KV!Perform(calls[n])
    BY <1>2, <1>5, Performs
  <2> QED BY <1>1, <1>3, <2>4, <2>5 DEF KV!Next, KV!Return, calls, results
<1> QED BY <1>4, <1>5

\* A call fails.
LEMMA Fails ==
  ASSUME TypeOK, NEW n \in Nodes, op' = [op EXCEPT ![n] = Idle],
         res' = [res EXCEPT ![n] = "err"], now' = now, Store' = Store
  PROVE  KV!Next
<1>1. /\ calls' = [calls EXCEPT ![n] = KV!NoCall]
      /\ results' = [results EXCEPT ![n] = "err"]
  BY Ends
<1> QED BY <1>1 DEF KV!Next, KV!Fail, calls, results

\* A step that callers do not notice.
LEMMA Unnoticed ==
  ASSUME TypeOK, NEW n \in Nodes, NEW o, op' = [op EXCEPT ![n] = o],
         CallOf(o) = CallOf(op[n]), NEW r, res' = [res EXCEPT ![n] = r],
         ResultOf(o, r) = ResultOf(op[n], res[n])
  PROVE  calls' = calls /\ results' = results
  BY DEF calls, results, TypeOK

LEMMA Stutters ==
  ASSUME calls' = calls, results' = results, Store' = Store, now' = now
  PROVE  UNCHANGED KV!vars
  BY DEF KV!vars, calls, results

\* An expired item disappears.
LEMMA Collects ==
  ASSUME RInv, NEW k \in Keys, HasExpired(Data(k), k, now), Store' = Without(Store, k),
         calls' = calls, results' = results, now' = now
  PROVE  KV!Next
<1>1. PICK i \in Data(k) : i.key = k /\ Expired(i, now)
  BY DEF HasExpired
<1>2. i \in Store
  BY <1>1, InStore
<1> QED BY <1>1, <1>2, SameItems DEF KV!Next, KV!Collect, calls, results

LiveItems(k) == {i \in Data(k) : i.key = k /\ ~Expired(i, now) /\ i.val # EmptyValue}

\* A call that changes nothing answers.
LEMMA Answers ==
  ASSUME RInv, NEW n \in Nodes, NEW k \in Keys, op[n] = Idle,
         NEW o, op' = [op EXCEPT ![n] = o], CallOf(o) = KV!NoCall,
         NEW r, res' = [res EXCEPT ![n] = r], now' = now, Store' = Store,
         \/ \E i \in LiveItems(k) : ResultOf(o, r) = i.val
         \/ LiveItems(k) = {} /\ ResultOf(o, r) = "notfound"
  PROVE  KV!Next
<1> DEFINE answer == ResultOf(o, r)
<1>1. TypeOK
  BY DEF RInv
<1>2. calls[n] = KV!NoCall /\ calls' = calls
  <2>1. CallOf(op[n]) = KV!NoCall
    BY IdleMaps
  <2>2. calls[n] = CallOf(op[n]) /\ [calls EXCEPT ![n] = CallOf(op[n])] = calls
    BY AtNode
  <2>3. calls' = [calls EXCEPT ![n] = CallOf(o)]
    BY <1>1, OneCall
  <2> QED BY <2>1, <2>2, <2>3
<1>3. calls[n].kind = "idle"
  BY <1>2 DEF KV!NoCall
<1>4. results' = [results EXCEPT ![n] = answer]
  BY <1>1, OneResult
<1>5. KV!Answer(k) = {i.val : i \in {j \in Data(k) : j.key = k /\ ~Expired(j, now)}} \ {EmptyValue}
  BY InStore, SameItems DEF KV!Answer
<1>6. \/ \E v \in KV!Answer(k) : answer = v
      \/ KV!Answer(k) = {} /\ answer = "notfound"
  BY <1>5 DEF LiveItems
<1>7. UNCHANGED <<Store, now, calls>>
  BY <1>2
<1> HIDE DEF answer
<1>8. CASE \E v \in KV!Answer(k) : answer = v
  BY <1>3, <1>4, <1>7, <1>8 DEF KV!Next, KV!Read, calls, results
<1>9. CASE KV!Answer(k) = {} /\ answer = "notfound"
  BY <1>3, <1>4, <1>7, <1>9 DEF KV!Next, KV!Read, calls, results
<1> QED BY <1>6, <1>8, <1>9

\* Calls that begin.
LEMMA Invokes ==
  ASSUME TypeOK, NEW n \in Nodes, Put(n) \/ Delete(n)
  PROVE  KV!Next
<1>1. /\ Store' = Store /\ now' = now /\ res' = res
      /\ op[n] = Idle /\ op' = [op EXCEPT ![n] = op'[n]]
  BY SameStore DEF Put, Delete, PutStart, DeleteStart, TypeOK
<1>2. CallOf(op'[n]) \in KV!Requests
  <2>1. CASE Put(n)
    <3>1. PICK k \in Keys, v \in Values, ttl \in TTLs : PutStart(n, k, v, ttl)
      BY <2>1 DEF Put
    <3>2. PICK o : o = op'[n]
      OBVIOUS
    <3>3. o = [kind |-> "put", stage |-> "get", key |-> k, val |-> v, ttl |-> ttl, data |-> {}]
      BY <3>1, <3>2 DEF PutStart, TypeOK
    <3>4. o.kind = "put" /\ o.key = k /\ o.val = v /\ o.ttl = ttl
      BY <3>3
    <3>5. CallOf(o) = [kind |-> "put", key |-> k, val |-> v, ttl |-> ttl, done |-> FALSE]
      BY <3>4, Kinds
    <3>6. [kind |-> "put", key |-> k, val |-> v, ttl |-> ttl, done |-> FALSE] \in KV!Requests
      BY DEF KV!Requests
    <3> QED BY <3>2, <3>5, <3>6
  <2>2. CASE Delete(n)
    <3>1. PICK k \in Keys : DeleteStart(n, k)
      BY <2>2 DEF Delete
    <3>2. PICK o : o = op'[n]
      OBVIOUS
    <3>3. o = [kind |-> "delete", stage |-> "get", key |-> k, data |-> {}]
      BY <3>1, <3>2 DEF DeleteStart, TypeOK
    <3>4. o.kind = "delete" /\ o.key = k /\ (o.stage = "patch" /\ o.data = {}) = FALSE
      BY <3>3
    <3>5. CallOf(o) = [kind |-> "delete", key |-> k, done |-> FALSE]
      BY <3>4, Kinds
    <3>6. [kind |-> "delete", key |-> k, done |-> FALSE] \in KV!Requests
      BY DEF KV!Requests
    <3> QED BY <3>2, <3>5, <3>6
  <2> QED BY <2>1, <2>2
<1>3. op'[n].kind # "get"
  BY DEF Put, Delete, PutStart, DeleteStart, TypeOK
<1>4. calls' = [calls EXCEPT ![n] = CallOf(op'[n])]
  BY <1>1, OneCall
<1>5. calls[n].kind = "idle"
  BY <1>1, AtNode, IdleMaps DEF KV!NoCall
<1>6. results' = results
  BY <1>1, <1>3, IdleKind DEF results, ResultOf, TypeOK
<1> QED BY <1>1, <1>2, <1>4, <1>5, <1>6 DEF KV!Next, KV!Invoke, calls, results

\* Reads, and calls that are refused or find nothing.
LEMMA Reads ==
  ASSUME DisableCache, RInv, NEW n \in Nodes, GetValue(n) \/ ReadError(n)
  PROVE  KV!Next
<1>1. TypeOK
  BY DEF RInv
<1>2. CASE ReadError(n)
  BY <1>1, <1>2, Fails, SameStore DEF ReadError, Finish
<1>3. CASE GetValue(n)
  <2>1. PICK k \in Keys : \/ GetLive(n, k)
                          \/ GetMiss(n, k)
                          \/ \E id \in ReapIds : GetExpired(n, k, id)
    BY <1>3 DEF GetValue
  <2>2. Found(n, k) = {i \in Data(k) : i.key = k}
    BY DEF Found, View, Data
  <2>3. Store' = Store /\ now' = now /\ op[n] = Idle
    BY <2>1, SameStore DEF GetLive, GetMiss, GetExpired
  <2>4. CASE GetLive(n, k)
    <3>1. PICK i \in Found(n, k) : ~Expired(i, now) /\ i.val # EmptyValue /\ Finish(n, i.val)
      BY <2>4 DEF GetLive
    <3>2. i \in LiveItems(k) /\ ResultOf(Idle, i.val) = i.val
      BY <2>2, <3>1, IdleMaps DEF LiveItems
    <3>3. op' = [op EXCEPT ![n] = Idle] /\ res' = [res EXCEPT ![n] = i.val]
      BY <3>1 DEF Finish
    <3>4. CallOf(Idle) = KV!NoCall /\ \E j \in LiveItems(k) : ResultOf(Idle, i.val) = j.val
      BY <3>2, IdleMaps
    <3> QED BY <2>3, <3>3, <3>4, Answers
  <2>5. CASE GetMiss(n, k)
    <3>1. LiveItems(k) = {} /\ ResultOf(Idle, "notfound") = "notfound"
      BY <2>2, <2>5, IdleMaps DEF GetMiss, LiveItems
    <3>2. op' = [op EXCEPT ![n] = Idle] /\ res' = [res EXCEPT ![n] = "notfound"]
      BY <2>5 DEF GetMiss, Finish
    <3>3. CallOf(Idle) = KV!NoCall
      BY IdleMaps
    <3> QED BY <2>3, <3>1, <3>2, <3>3, Answers
  <2>6. CASE \E id \in ReapIds : GetExpired(n, k, id)
    <3>1. PICK id \in ReapIds : GetExpired(n, k, id)
      BY <2>6
    <3> DEFINE o == [kind |-> "get", stage |-> "check", key |-> k, id |-> id,
                     data |-> View(n, k).data]
    <3>2. op' = [op EXCEPT ![n] = o] /\ res' = [res EXCEPT ![n] = res[n]]
      BY <1>1, <3>1 DEF GetExpired, TypeOK
    <3>3. o.kind = "get"
      OBVIOUS
    <3>4. PICK i \in Found(n, k) : Expired(i, now)
      BY <3>1 DEF GetExpired
    <3>5. Tidy(bucketForKey[k], Data(k))
      BY BucketAssumption DEF RInv, SecretsTidy, Data
    <3>6. LiveItems(k) = {}
      BY <2>2, <3>4, <3>5 DEF Tidy, LiveItems
    <3> HIDE DEF o
    <3>7. CallOf(o) = KV!NoCall /\ ResultOf(o, res[n]) = "notfound"
      BY <3>3, Kinds DEF ResultOf
    <3> QED BY <2>3, <3>2, <3>6, <3>7, Answers
  <2> QED BY <2>1, <2>4, <2>5, <2>6
<1> QED BY <1>2, <1>3

LEMMA Refusals ==
  ASSUME DisableCache, RInv, NEW n \in Nodes,
         NotLeader(n) \/ DeleteNotFound(n) \/ Crash(n)
  PROVE  KV!Next
<1>1. TypeOK
  BY DEF RInv
<1>2. CASE NotLeader(n)
  <2>1. calls[n] = KV!NoCall /\ calls' = [calls EXCEPT ![n] = KV!NoCall]
    BY <1>1, <1>2, AtNode, OneCall, IdleMaps DEF NotLeader, Finish
  <2>2. calls[n].kind = "idle" /\ calls' = calls
    <3>1. calls[n].kind = "idle"
      BY <2>1 DEF KV!NoCall
    <3>2. calls' = calls
      BY <2>1, AtNode
    <3> QED BY <3>1, <3>2
  <2>3. results' = [results EXCEPT ![n] = "notleader"]
    BY <1>1, <1>2, Ends DEF NotLeader, Finish
  <2>4. Store' = Store /\ now' = now
    BY <1>2, SameStore DEF NotLeader
  <2> QED BY <2>2, <2>3, <2>4 DEF KV!Next, KV!Refuse, calls, results
<1>3. CASE DeleteNotFound(n)
  <2>1. op[n] \in RemoveOp /\ op[n].kind = "delete"
    BY <1>1, <1>3, OpType DEF DeleteNotFound, Holds
  <2>2. calls[n].kind = "delete" /\ calls[n].key = op[n].key
    BY <2>1, AtNode, Kinds
  <2>3. /\ calls' = [calls EXCEPT ![n] = KV!NoCall]
        /\ results' = [results EXCEPT ![n] = "notfound"]
    BY <1>1, <1>3, Ends DEF DeleteNotFound, Finish
  <2>4. op[n].key \in Keys
    BY <2>1 DEF RemoveOp
  <2>5. Data(op[n].key) = {}
    BY <1>3, <2>4, BucketAssumption DEF DeleteNotFound, View, Data, RInv, SecretsTidy
  <2>6. \A i \in Store : i.key # op[n].key
    BY <2>4, <2>5, InStore
  <2>7. Store' = Store /\ now' = now
    BY <1>3, SameStore DEF DeleteNotFound
  <2> QED BY <2>2, <2>3, <2>6, <2>7 DEF KV!Next, KV!DeleteMisses, calls, results
<1>4. CASE Crash(n)
  BY <1>1, <1>4, Fails, SameStore DEF Crash, Finish
<1> QED BY <1>2, <1>3, <1>4

\* Steps that read, or that pass a snapshot on.
LEMMA Snapshooting ==
  ASSUME TypeOK, NEW n \in Nodes, PutGet(n) \/ DeleteGet(n) \/ GetCheck(n) \/ RunReap(n)
  PROVE  UNCHANGED KV!vars
<1>1. Store' = Store /\ now' = now
  BY SameStore DEF PutGet, DeleteGet, GetCheck, RunReap, ReapStart
<1>2. PICK o, r : /\ op' = [op EXCEPT ![n] = o] /\ res' = [res EXCEPT ![n] = r]
                  /\ CallOf(o) = CallOf(op[n]) /\ ResultOf(o, r) = ResultOf(op[n], res[n])
  <2>1. CASE PutGet(n)
    <3>1. op[n] \in PutOp
      BY <2>1, OpType DEF PutGet, Holds
    <3>2. PICK o : o = op'[n]
      OBVIOUS
    <3>3. /\ op' = [op EXCEPT ![n] = o] /\ res' = [res EXCEPT ![n] = res[n]]
          /\ o.kind = "put" /\ op[n].kind = "put"
          /\ o.key = op[n].key /\ o.val = op[n].val /\ o.ttl = op[n].ttl
      BY <2>1, <3>1, <3>2 DEF PutGet, TypeOK, PutOp
    <3>4. CallOf(o) = CallOf(op[n])
      BY <3>3, Kinds
    <3>5. ResultOf(o, res[n]) = ResultOf(op[n], res[n])
      BY <3>3 DEF ResultOf
    <3> QED BY <3>3, <3>4, <3>5
  <2>2. CASE DeleteGet(n)
    <3>1. op[n] \in RemoveOp /\ op[n].kind = "delete" /\ op[n].stage = "get"
      BY <2>2, OpType DEF DeleteGet, Holds
    <3>2. PICK o : o = op'[n]
      OBVIOUS
    <3>3. /\ op' = [op EXCEPT ![n] = o] /\ res' = [res EXCEPT ![n] = res[n]]
          /\ o.kind = "delete" /\ o.key = op[n].key /\ o.stage = RemoveStage(o.data)
      BY <2>2, <3>1, <3>2 DEF DeleteGet, TypeOK, RemoveOp
    <3>4. /\ (o.stage = "patch" /\ o.data = {}) = FALSE
          /\ (op[n].stage = "patch" /\ op[n].data = {}) = FALSE
      BY <3>1, <3>3 DEF RemoveStage
    <3>5. CallOf(o) = CallOf(op[n])
      BY <3>1, <3>3, <3>4, Kinds
    <3>6. ResultOf(o, res[n]) = ResultOf(op[n], res[n])
      BY <3>1, <3>3 DEF ResultOf
    <3> QED BY <3>3, <3>5, <3>6
  <2>3. CASE GetCheck(n)
    <3>1. op[n].kind = "get"
      BY <2>3 DEF GetCheck, Holds
    <3>2. op' = [op EXCEPT ![n] = Idle] /\ res' = [res EXCEPT ![n] = "notfound"]
      BY <2>3 DEF GetCheck, Finish
    <3>3. CallOf(Idle) = CallOf(op[n])
      BY <3>1, Kinds, IdleMaps
    <3>4. ResultOf(Idle, "notfound") = ResultOf(op[n], res[n])
      BY <3>1, IdleMaps DEF ResultOf
    <3> QED BY <3>2, <3>3, <3>4
  <2>4. CASE RunReap(n)
    <3>1. PICK r \in reaps : ReapStart(n, r)
      BY <2>4 DEF RunReap
    <3>2. PICK o : o = op'[n]
      OBVIOUS
    <3>3. /\ op' = [op EXCEPT ![n] = o] /\ res' = [res EXCEPT ![n] = res[n]]
          /\ o.kind = "reap" /\ op[n] = Idle
      BY <3>1, <3>2 DEF ReapStart, TypeOK
    <3>4. CallOf(o) = CallOf(op[n])
      BY <3>3, Kinds, IdleMaps
    <3>5. ResultOf(o, res[n]) = ResultOf(op[n], res[n])
      BY <3>3, IdleMaps DEF ResultOf
    <3> QED BY <3>3, <3>4, <3>5
  <2> QED BY <2>1, <2>2, <2>3, <2>4
<1>3. calls' = calls /\ results' = results
  BY <1>2, Unnoticed
<1> QED BY <1>1, <1>3, Stutters

\* What a request does to the store, if it is executed.
LEMMA Executed ==
  ASSUME RInv, NEW n \in Nodes,
         NEW b, b = bucketForKey[op[n].key], NEW s, secrets' = [secrets EXCEPT ![b] = s],
         \/ op[n].stage = "drop" /\ s.data = {}
         \/ op[n].stage = "patch" /\ s.data = op[n].data
  PROVE  LET over == op[n].stage = "patch" /\ op[n].data = {}
         IN  /\ op[n].kind = "put" => Performed(op[n])
             /\ op[n].kind \in {"delete", "reap"} =>
                  \/ over /\ Store' = Store
                  \/ /\ ~over
                     /\ Store' = Without(Store, op[n].key)
                     /\ op[n].kind = "reap" => HasExpired(Data(op[n].key), op[n].key, now)
<1>1. op[n] \in PutOp \cup RemoveOp
  BY DEF RInv, TypeOK, Idle, GetOp
<1>2. op[n].key \in Keys
  BY <1>1 DEF PutOp, RemoveOp
<1>3. Current(op[n], Data(op[n].key), now)
  BY DEF RInv, CallsCurrent
<1>4. Data(op[n].key) = secrets[b].data
  BY DEF Data
<1>5. ASSUME op[n].kind = "put"
      PROVE  Performed(op[n])
  <2>1. op[n].stage = "patch"
    BY <1>1, <1>5 DEF PutOp, RemoveOp
  <2>2. PICK u \in 0..now : op[n].data = With(Data(op[n].key),
               [key |-> op[n].key, val |-> op[n].val, exp |-> Expiry(op[n].ttl, u)])
    BY <1>3, <1>5, <2>1 DEF Current
  <2> DEFINE item == [key |-> op[n].key, val |-> op[n].val, exp |-> Expiry(op[n].ttl, u)]
  <2>3. item.key = op[n].key
    OBVIOUS
  <2>4. s.data = With(secrets[b].data, item)
    BY <1>4, <2>1, <2>2
  <2> HIDE DEF item
  <2>5. Store' = With(Store, item)
    BY <1>2, <2>3, <2>4, StoreChanges
  <2> QED BY <1>5, <2>5 DEF Performed, item
<1>6. ASSUME op[n].kind \in {"delete", "reap"}
      PROVE  \/ op[n].stage = "patch" /\ op[n].data = {} /\ Store' = Store
             \/ /\ ~(op[n].stage = "patch" /\ op[n].data = {})
                /\ Store' = Without(Store, op[n].key)
                /\ op[n].kind = "reap" => HasExpired(Data(op[n].key), op[n].key, now)
  <2>1. CASE /\ op[n].data = Without(Data(op[n].key), op[n].key)
             /\ op[n].stage = RemoveStage(op[n].data)
             /\ op[n].kind = "reap" => HasExpired(Data(op[n].key), op[n].key, now)
    <3>1. s.data = op[n].data /\ ~(op[n].stage = "patch" /\ op[n].data = {})
      BY <2>1 DEF RemoveStage
    <3>2. Store' = Without(Store, op[n].key)
      BY <1>2, <1>4, <2>1, <3>1, StoreChanges
    <3> QED BY <2>1, <3>1, <3>2
  <2>2. CASE op[n].stage = "patch" /\ op[n].data = {} /\ Data(op[n].key) = {}
    <3>1. Store' = Store
      BY <1>2, <1>4, <2>2, StoreChanges
    <3> QED BY <2>2, <3>1
  <2> QED BY <1>3, <1>6, <2>1, <2>2 DEF Current
<1> QED BY <1>5, <1>6

(* Marking the call of a delete as performed changes its mark alone.       *)
LEMMA SetDone ==
  ASSUME NEW k, NEW t, NEW f
  PROVE  [[kind |-> "delete", key |-> k, done |-> f] EXCEPT !.done = t]
           = [kind |-> "delete", key |-> k, done |-> t]
  OBVIOUS

\* Deleting the Secret of an empty bucket is where a delete takes effect.
LEMMA Drops ==
  ASSUME RInv, NEW n \in Nodes, Drop(n)
  PROVE  KV!Next \/ UNCHANGED KV!vars
<1> DEFINE b == bucketForKey[op[n].key]
<1>1. TypeOK
  BY DEF RInv
<1>2. op[n] \in RemoveOp /\ op[n].stage = "drop"
  BY <1>1, OpType DEF Drop, Idle, PutOp, GetOp
<1>3. secrets' = [secrets EXCEPT ![b] = Absent] /\ Absent.data = {} /\ now' = now
  BY DEF Drop, Absent
<1>4. /\ Store' = Without(Store, op[n].key)
      /\ op[n].kind = "reap" => HasExpired(Data(op[n].key), op[n].key, now)
  BY <1>2, <1>3, Executed DEF RemoveOp
<1>5. Current(op[n], Data(op[n].key), now)
  BY DEF RInv, CallsCurrent
<1>6. op[n].data = {}
  BY <1>2, <1>5, RemoveStageType DEF Current, RemoveOp
<1>7. PICK o : o = op'[n]
  OBVIOUS
<1>8. /\ op' = [op EXCEPT ![n] = o] /\ res' = [res EXCEPT ![n] = res[n]]
      /\ o.kind = op[n].kind /\ o.key = op[n].key /\ o.stage = "patch" /\ o.data = {}
  BY <1>1, <1>2, <1>6, <1>7 DEF Drop, TypeOK, RemoveOp
<1>9. ResultOf(o, res[n]) = ResultOf(op[n], res[n])
  BY <1>8 DEF ResultOf
<1>10. CASE op[n].kind = "delete"
  <2> DEFINE c == [kind |-> "delete", key |-> op[n].key, done |-> FALSE]
  <2>1. /\ (o.stage = "patch" /\ o.data = {}) = TRUE
        /\ (op[n].stage = "patch" /\ op[n].data = {}) = FALSE
    BY <1>2, <1>8
  <2>2. calls[n] = c
    BY <1>10, <2>1, AtNode, Kinds
  <2>3. CallOf(o) = [kind |-> "delete", key |-> op[n].key, done |-> TRUE]
    BY <1>8, <1>10, <2>1, Kinds
  <2>4. [c EXCEPT !.done = TRUE] = [kind |-> "delete", key |-> op[n].key, done |-> TRUE]
    BY SetDone, Zenon
  <2>5. CallOf(o) = [c EXCEPT !.done = TRUE]
    BY <2>3, <2>4
  <2>6. calls' = [calls EXCEPT ![n] = CallOf(o)]
    BY <1>1, <1>8, OneCall
  <2>7. results' = results
    BY <1>1, <1>8, <1>9 DEF results, TypeOK
  <2>8. Store' = Without(Store, c.key) /\ c.kind = "delete"
    BY <1>4
  <2>9. c.kind # "idle" /\ c.done = FALSE
    OBVIOUS
  <2> HIDE DEF c
  <2>10. calls' = [calls EXCEPT ![n].done = TRUE]
    BY <2>2, <2>5, <2>6
  <2>11. KV!Perform(calls[n])
    BY <2>2, <2>8, SameItems DEF KV!Perform
  <2>12. calls[n].kind # "idle" /\ ~calls[n].done
    BY <2>2, <2>9
  <2> QED BY <1>3, <2>7, <2>10, <2>11, <2>12 DEF KV!Next, KV!Apply, calls, results
<1>11. CASE op[n].kind = "reap"
  <2>1. CallOf(o) = CallOf(op[n])
    BY <1>8, <1>11, Kinds
  <2>2. calls' = calls /\ results' = results
    BY <1>1, <1>8, <1>9, <2>1, Unnoticed
  <2>3. op[n].key \in Keys
    BY <1>2 DEF RemoveOp
  <2> QED BY <1>3, <1>4, <1>11, <2>2, <2>3, Collects
<1> QED BY <1>2, <1>10, <1>11 DEF RemoveOp

\* The last request of a call, executed or not.
LEMMA LastRequests ==
  ASSUME RInv, NEW n \in Nodes, Patch(n) \/ WriteError(n)
  PROVE  KV!Next \/ UNCHANGED KV!vars
<1> DEFINE b == bucketForKey[op[n].key]
           over == op[n].stage = "patch" /\ op[n].data = {}
<1>1. TypeOK
  BY DEF RInv
<1>2. op[n] \in PutOp \cup RemoveOp /\ op[n].key \in Keys
  BY <1>1 DEF Patch, WriteError, TypeOK, Idle, GetOp, PutOp, RemoveOp
<1>3. PICK r \in {"ok", "err"} : /\ FinishWrite(n, r)
                                 /\ r = "ok" => Patch(n)
  BY DEF Patch, WriteError
<1>4. now' = now /\ op' = [op EXCEPT ![n] = Idle]
  BY <1>3 DEF Patch, WriteError, FinishWrite
<1>5. CASE r = "err" /\ secrets' = secrets /\ op[n].kind # "reap"
  <2>1. res' = [res EXCEPT ![n] = "err"]
    BY <1>3, <1>5 DEF FinishWrite
  <2> QED BY <1>1, <1>4, <1>5, <2>1, SameStore, Fails
<1>6. CASE \E s : /\ secrets' = [secrets EXCEPT ![b] = s]
                  /\ \/ op[n].stage = "drop" /\ s.data = {}
                     \/ op[n].stage = "patch" /\ s.data = op[n].data
  <2>1. /\ op[n].kind = "put" => Performed(op[n])
        /\ op[n].kind \in {"delete", "reap"} =>
             \/ over /\ Store' = Store
             \/ /\ ~over
                /\ Store' = Without(Store, op[n].key)
                /\ op[n].kind = "reap" => HasExpired(Data(op[n].key), op[n].key, now)
    <3>1. PICK s : /\ secrets' = [secrets EXCEPT ![b] = s]
                   /\ \/ op[n].stage = "drop" /\ s.data = {}
                      \/ op[n].stage = "patch" /\ s.data = op[n].data
      BY <1>6
    <3> QED BY <3>1, Executed
  <2>2. CASE op[n].kind \in {"put", "delete"}
    <3>1. res' = [res EXCEPT ![n] = r]
      BY <1>3, <2>2 DEF FinishWrite
    <3>2. \/ op[n].kind = "delete" /\ op[n].stage = "patch" /\ op[n].data = {}
               /\ Store' = Store
          \/ ~(op[n].kind = "delete" /\ op[n].stage = "patch" /\ op[n].data = {})
               /\ Performed(op[n])
      BY <2>1, <2>2 DEF Performed
    <3> QED BY <1>1, <1>4, <2>2, <3>1, <3>2, Returns
  <2>3. CASE op[n].kind = "reap"
    <3>1. res' = [res EXCEPT ![n] = res[n]]
      BY <1>1, <1>3, <2>3 DEF FinishWrite, TypeOK
    <3>2. CallOf(Idle) = CallOf(op[n]) /\ ResultOf(Idle, res[n]) = ResultOf(op[n], res[n])
      BY <2>3, Kinds, IdleMaps DEF ResultOf
    <3>3. calls' = calls /\ results' = results
      BY <1>1, <1>4, <3>1, <3>2, Unnoticed
    <3> QED BY <1>2, <1>4, <2>1, <2>3, <3>3, Collects, Stutters
  <2> QED BY <1>2, <2>2, <2>3 DEF PutOp, RemoveOp
<1>7. CASE secrets' = secrets /\ op[n].kind = "reap"
  <2>1. res' = [res EXCEPT ![n] = res[n]]
    BY <1>1, <1>3, <1>7 DEF FinishWrite, TypeOK
  <2>2. CallOf(Idle) = CallOf(op[n]) /\ ResultOf(Idle, res[n]) = ResultOf(op[n], res[n])
    BY <1>7, Kinds, IdleMaps DEF ResultOf
  <2>3. calls' = calls /\ results' = results
    BY <1>1, <1>4, <2>1, <2>2, Unnoticed
  <2> QED BY <1>4, <1>7, <2>3, SameStore, Stutters
<1>8. \/ secrets' = secrets /\ ~Patch(n)
      \/ \E s : /\ secrets' = [secrets EXCEPT ![b] = s]
                /\ \/ op[n].stage = "drop" /\ s.data = {}
                   \/ op[n].stage = "patch" /\ s.data = op[n].data
  BY DEF Patch, WriteError, Applied, Secret, Absent
<1> QED BY <1>3, <1>5, <1>6, <1>7, <1>8

\* Every step of Storage is one of KVStore, or none.
LEMMA MapStep ==
  ASSUME DisableCache, RInv, [Next]_vars
  PROVE  [KV!Next]_KV!vars
<1>1. TypeOK
  BY DEF RInv
<1>2. CASE \E n \in Nodes : Put(n) \/ Delete(n)
  BY <1>1, <1>2, Invokes
<1>3. CASE \E n \in Nodes : GetValue(n) \/ ReadError(n)
  BY <1>3, Reads
<1>4. CASE \E n \in Nodes : NotLeader(n) \/ DeleteNotFound(n) \/ Crash(n)
  BY <1>4, Refusals
<1>5. CASE \E n \in Nodes : PutGet(n) \/ DeleteGet(n) \/ GetCheck(n) \/ RunReap(n)
  BY <1>1, <1>5, Snapshooting
<1>6. CASE \E n \in Nodes : Drop(n) \/ Patch(n) \/ WriteError(n)
  BY <1>6, Drops, LastRequests
<1>7. CASE \/ \E n \in Nodes : Elect(n) \/ Lose(n) \/ \E b \in Buckets : CacheSync(n, b)
           \/ UNCHANGED vars
  <2>1. UNCHANGED <<secrets, op, res, now>>
    BY <1>7 DEF Elect, Lose, CacheSync, vars
  <2>2. calls' = calls /\ results' = results
    BY <2>1 DEF calls, results
  <2> QED BY <2>1, <2>2, SameStore, Stutters
<1>8. CASE Tick
  <2>1. UNCHANGED <<secrets, op, res>> /\ now' = now + 1
    BY <1>8 DEF Tick
  <2>2. calls' = calls /\ results' = results
    BY <2>1 DEF calls, results
  <2>3. Store' = Store
    BY <2>1, SameStore
  <2> QED BY <2>1, <2>2, <2>3 DEF KV!Next, KV!Tick, calls, results
<1> QED BY <1>2, <1>3, <1>4, <1>5, <1>6, <1>7, <1>8 DEF Next, Proceed

LEMMA MapInit == Init => KV!Init
<1> SUFFICES ASSUME Init PROVE KV!Init
  OBVIOUS
<1>1. Store = {}
  BY DEF Init, Store, Absent
<1>2. \A n \in Nodes : CallOf(op[n]) = KV!NoCall /\ ResultOf(op[n], res[n]) = "ok"
  BY IdleMaps DEF Init
<1> QED BY <1>1, <1>2 DEF KV!Init, Init

-----------------------------------------------------------------------------

\* As long as one snapshot at a time is on its way back to each Secret, and reads go to
\* the API server, PutValue, Delete and GetValue with its deferred deletes are one map
\* from keys to items, whatever fails, expires or dies.
THEOREM StorageIsAMap ==
  ASSUME DisableCache
  PROVE  Spec /\ []Exclusive => KVSpec
<1>1. RInv /\ Exclusive /\ [Next]_vars => RInv'
  <2>1. CASE UNCHANGED vars
    BY <2>1 DEF vars, RInv, TypeOK, SecretsTidy, CallsCurrent, ReapsCurrent, Data
  <2> QED BY <2>1, RInvStep
<1>2. Spec /\ []Exclusive => []RInv
  BY <1>1, RInvInit, PTL DEF Spec
<1>3. RInv /\ [Next]_vars => [KV!Next]_KV!vars
  BY MapStep
<1> QED BY <1>2, <1>3, MapInit, PTL DEF Spec, KVSpec, KV!Spec

-----------------------------------------------------------------------------
(* Where nothing expires nothing is left to a deferred delete, and elections *)
(* that do not overlap are enough to keep the snapshots apart.               *)

Lasting(data) == \A i \in data : i.exp = 0

\* No item expires, and no call but a write of one is under way.
NothingExpires ==
  /\ \A b \in Buckets : Lasting(secrets[b].data)
  /\ \A n \in Nodes : op[n] # Idle =>
       op[n].kind \in {"put", "delete"} /\ Lasting(op[n].data)
  /\ reaps = {}

LEMMA NothingExpiresStep ==
  ASSUME DisableCache, TTLs = {0}, TypeOK, NothingExpires, [Next]_vars
  PROVE  NothingExpires'
<1>1. \A n \in Nodes, k \in Keys : Lasting(View(n, k).data)
  BY BucketAssumption DEF View, NothingExpires
<1>2. ASSUME NEW n \in Nodes, Put(n) \/ Delete(n)
      PROVE  NothingExpires'
  <2>1. PICK o : /\ op' = [op EXCEPT ![n] = o]
                 /\ o.kind \in {"put", "delete"} /\ o.data = {}
                 /\ UNCHANGED <<secrets, reaps>>
    <3>1. CASE Put(n)
      <4>1. PICK k \in Keys, v \in Values, ttl \in TTLs : PutStart(n, k, v, ttl)
        BY <3>1 DEF Put
      <4> DEFINE p == [kind |-> "put", stage |-> "get", key |-> k, val |-> v,
                       ttl |-> ttl, data |-> {}]
      <4>2. op' = [op EXCEPT ![n] = p] /\ UNCHANGED <<secrets, reaps>>
        BY <4>1 DEF PutStart
      <4>3. p.kind = "put" /\ p.data = {}
        OBVIOUS
      <4> HIDE DEF p
      <4> QED BY <4>2, <4>3
    <3>2. CASE Delete(n)
      <4>1. PICK k \in Keys : DeleteStart(n, k)
        BY <3>2 DEF Delete
      <4> DEFINE d == [kind |-> "delete", stage |-> "get", key |-> k, data |-> {}]
      <4>2. op' = [op EXCEPT ![n] = d] /\ UNCHANGED <<secrets, reaps>>
        BY <4>1 DEF DeleteStart
      <4>3. d.kind = "delete" /\ d.data = {}
        OBVIOUS
      <4> HIDE DEF d
      <4> QED BY <4>2, <4>3
    <3> QED BY <1>2, <3>1, <3>2
  <2>2. op'[n] = o /\ \A m \in Nodes \ {n} : op'[m] = op[m]
    BY <2>1 DEF TypeOK
  <2>3. Lasting(o.data)
    BY <2>1 DEF Lasting
  <2> QED BY <2>1, <2>2, <2>3 DEF NothingExpires
<1>3. ASSUME NEW n \in Nodes, op' = [op EXCEPT ![n] = Idle],
             secrets' = secrets, reaps' \subseteq reaps
      PROVE  NothingExpires'
  BY <1>3 DEF NothingExpires, Lasting, TypeOK
<1>4. ASSUME NEW n \in Nodes, GetValue(n) \/ RunReap(n) \/ GetCheck(n)
      PROVE  NothingExpires'
  <2>1. ~RunReap(n) /\ ~GetCheck(n)
    BY DEF NothingExpires, RunReap, GetCheck, Holds, Idle
  <2>2. \A k \in Keys, id \in ReapIds : ~GetExpired(n, k, id)
    BY <1>1 DEF GetExpired, Found, Expired, Lasting
  <2> QED BY <1>3, <1>4, <2>1, <2>2 DEF GetValue, GetLive, GetMiss, Finish
<1>5. ASSUME NEW n \in Nodes, PutGet(n) \/ DeleteGet(n)
      PROVE  NothingExpires'
  <2>1. op[n].key \in Keys
    BY <1>5, OpType DEF PutGet, DeleteGet, Holds, PutOp, RemoveOp, Idle, GetOp
  <2>2. Lasting(op'[n].data)
    <3>1. CASE PutGet(n)
      <4>1. op[n].ttl = 0
        BY <3>1, OpType DEF PutGet, Holds, PutOp, RemoveOp, Idle, GetOp
      <4> QED BY <1>1, <2>1, <3>1, <4>1 DEF PutGet, TypeOK, With, Without, Expiry, Lasting
    <3>2. CASE DeleteGet(n)
      BY <1>1, <2>1, <3>2 DEF DeleteGet, TypeOK, Without, Lasting
    <3> QED BY <1>5, <3>1, <3>2
  <2>3. /\ op'[n].kind \in {"put", "delete"}
        /\ \A m \in Nodes : m # n => op'[m] = op[m]
        /\ UNCHANGED <<secrets, reaps>>
    <3>1. op[n] \in PutOp \cup RemoveOp
      BY <1>5, OpType DEF PutGet, DeleteGet, Holds, Idle, GetOp
    <3> QED BY <1>5, <3>1 DEF PutGet, DeleteGet, Holds, PutOp, RemoveOp, TypeOK
  <2> QED BY <2>2, <2>3 DEF NothingExpires, Lasting
<1>6. ASSUME NEW n \in Nodes, Drop(n)
      PROVE  NothingExpires'
  <2>1. /\ op'[n].kind = op[n].kind /\ op'[n].data = op[n].data
        /\ \A m \in Nodes : m # n => op'[m] = op[m]
        /\ op[n] # Idle
    <3>1. op[n] \in RemoveOp
      BY <1>6, OpType DEF Drop, Idle, PutOp, GetOp
    <3> QED BY <1>6, <3>1 DEF Drop, RemoveOp, TypeOK, Idle
  <2>2. /\ \A b \in Buckets : secrets'[b] \in {secrets[b], Absent}
        /\ reaps' = reaps
    BY <1>6 DEF Drop, TypeOK
  <2> QED BY <2>1, <2>2 DEF NothingExpires, Lasting, Absent
<1>7. ASSUME NEW n \in Nodes, Patch(n) \/ WriteError(n)
      PROVE  NothingExpires'
  <2>1. /\ \A b \in Buckets :
             \/ secrets'[b] \in {secrets[b], Absent}
             \/ secrets'[b] = Secret(op[n].data) /\ op[n].stage = "patch"
        /\ reaps' = reaps /\ op' = [op EXCEPT ![n] = Idle]
    BY <1>7 DEF Patch, WriteError, Applied, FinishWrite, TypeOK
  <2>2. op[n].stage = "patch" => Lasting(op[n].data)
    BY DEF NothingExpires, Idle
  <2>3. \A b \in Buckets : Lasting(secrets'[b].data)
    BY <2>1, <2>2 DEF NothingExpires, Lasting, Absent, Secret
  <2> QED BY <2>1, <2>3 DEF NothingExpires, Lasting, TypeOK
<1>8. CASE \/ Tick \/ UNCHANGED vars
           \/ \E n \in Nodes : Elect(n) \/ Lose(n) \/ \E b \in Buckets : CacheSync(n, b)
  BY <1>8 DEF Tick, vars, Elect, Lose, CacheSync, NothingExpires
<1>9. ASSUME NEW n \in Nodes, NotLeader(n) \/ ReadError(n) \/ DeleteNotFound(n) \/ Crash(n)
      PROVE  NothingExpires'
  BY <1>3, <1>9 DEF NotLeader, ReadError, DeleteNotFound, Crash, Finish
<1> QED BY <1>2, <1>4, <1>5, <1>6, <1>7, <1>8, <1>9 DEF Next, Proceed

LEMMA LastingExclusive ==
  ASSUME NothingExpires, SoleWriter, ~overlap
  PROVE  Exclusive
<1>1. \A n \in Nodes : op[n].stage \in {"check", "drop", "patch"} => n \in Active
  BY DEF NothingExpires, Idle, Active, Writing
<1> QED BY <1>1 DEF Exclusive, Snapshots, NothingExpires, SoleWriter

\* With no ttl and no overlapping elections the Secrets are one map from keys to values
\* for all nodes: leadership alone serialises the writers.
THEOREM LeadershipIsEnough ==
  ASSUME DisableCache, TTLs = {0}
  PROVE  Spec /\ []~overlap => KVSpec
<1>1. Init => NothingExpires
  BY DEF Init, NothingExpires, Lasting, Absent
<1>2. Spec => []NothingExpires
  BY <1>1, NothingExpiresStep, TypeCorrect, PTL DEF Spec
<1>3. NothingExpires /\ SoleWriter /\ ~overlap => Exclusive
  BY LastingExclusive
<1> QED BY <1>2, <1>3, SoleWriterCorrect, StorageIsAMap, PTL

-----------------------------------------------------------------------------
(* Under the election of Lifecycle.  The invariant is that of               *)
(* LifecycleProofs, of the nodes that are active where that is of those     *)
(* whose elector answers yes: writes and deferred deletes outlive that      *)
(* answer, and a node must not lose the lease before them.                  *)

\* Of a node that was not cut off, closed or dead since it took or renewed the lease.
Unfaulted(n) ==
  /\ n \in connected \ done
  /\ phase[n] \in {"off", "acquire", "renew"}
  /\ lease = n <=> phase[n] = "renew"
  /\ n \in Active => lease = n

EInv ==
  /\ TypeOK
  /\ L!TypeOK
  /\ leading = L!Writers
  /\ \A n \in Nodes \ faulted : Unfaulted(n)

LEMMA NoNodeIsNone == NoNode \notin Nodes
  BY NoSetContainsEverything DEF NoNode

LEMMA EInvInit == ElectedInit => EInv
<1> SUFFICES ASSUME ElectedInit PROVE EInv
  OBVIOUS
<1>1. TypeOK
  BY TypeInit DEF ElectedInit
<1>2. L!TypeOK
  BY DEF ElectedInit, L!Init, L!TypeOK, L!Nodes, L!Holders, L!Phases
<1>3. Active = {} /\ L!Writers = {} /\ leading = {}
  BY NoNodeIsNone DEF ElectedInit, Init, L!Init, L!Writers, L!IsLeader, Active, Writing, Idle
<1>4. \A n \in Nodes : Unfaulted(n)
  BY <1>3, NoNodeIsNone DEF ElectedInit, L!Init, L!Nodes, Unfaulted
<1> QED BY <1>1, <1>2, <1>3, <1>4 DEF EInv

\* What Storage sees of a step is one of its own.
LEMMA ElectedStep == [ElectedNext]_<<vars, providerVars>> => [Next]_vars
  BY DEF ElectedNext, Work, Die, Elects, Next, vars

LEMMA WorkKeepsLeading ==
  ASSUME NEW n \in Nodes, Work(n)
  PROVE  leading' = leading
  BY DEF Work, Put, PutStart, Delete, DeleteStart, NotLeader, GetValue, GetLive, GetMiss,
         GetExpired, ReadError, RunReap, ReapStart, Proceed, PutGet, DeleteGet,
         DeleteNotFound, GetCheck, Drop, Patch, WriteError, CacheSync

\* Who becomes active is the node whose elector now says that it leads.
LEMMA NewlyActive ==
  ASSUME TypeOK, [Next]_vars, NEW m \in Active' \ Active
  PROVE  m \in leading' \ leading /\ Elect(m)
<1>1. PICK n \in Nodes : Elect(n)
  BY ActiveShrinks
<1>2. Active' = Active \cup {n}
  BY <1>1 DEF Elect, Active, Writing
<1> QED BY <1>1, <1>2 DEF Elect

\* What a provider does keeps the types of Lifecycle.
LEMMA ProviderTypes ==
  ASSUME L!TypeOK, NEW n \in Nodes, NEW b \in BOOLEAN, NEW state \in {"off", "failed"},
         \/ L!Start(n, b) \/ L!Close(n) \/ L!CallerCancels(n) \/ L!Restart(n)
         \/ L!ManagerReturns(n, state)
  PROVE  L!TypeOK'
<1> USE DEF L!TypeOK, L!Nodes, L!Holders, L!Phases, L!election
<1>1. CASE L!Start(n, b)
  BY <1>1 DEF L!Start, L!Elects
<1>2. CASE L!Close(n) \/ L!CallerCancels(n)
  BY <1>2 DEF L!Close, L!CallerCancels
<1>3. CASE L!Restart(n)
  BY <1>3 DEF L!Restart
<1>4. CASE L!ManagerReturns(n, state)
  BY <1>4 DEF L!ManagerReturns
<1> QED BY <1>1, <1>2, <1>3, <1>4

LEMMA ElectorTypes ==
  ASSUME L!TypeOK, NEW n \in Nodes,
         L!Observe(n) \/ L!Acquire(n) \/ L!Elector(n) \/ L!Partition(n)
  PROVE  L!TypeOK'
<1> USE DEF L!TypeOK, L!Nodes, L!Holders, L!Phases, L!election
<1>1. CASE L!Observe(n)
  BY <1>1 DEF L!Observe
<1>2. CASE L!Acquire(n)
  BY <1>2 DEF L!Acquire, L!InRun
<1>3. CASE L!Lose(n) \/ L!Cancelled(n)
  BY <1>3 DEF L!Lose, L!Cancelled, L!InRun
<1>4. CASE L!Release(n)
  BY <1>4 DEF L!Release
<1>5. CASE L!LoopAgain(n)
  BY <1>5 DEF L!LoopAgain
<1>6. CASE L!Partition(n)
  BY <1>6 DEF L!Partition
<1> QED BY <1>1, <1>2, <1>3, <1>4, <1>5, <1>6 DEF L!Elector

\* A call that goes on is not new to the lease, and a process that dies is faulted.
LEMMA WorkKeeps ==
  ASSUME EInv, NEW n \in Nodes, Work(n)
  PROVE  EInv'
<1>1. leading' = leading
  BY WorkKeepsLeading
<1>2. [Next]_vars
  BY DEF Work, Next
<1>3. TypeOK' /\ Active' \subseteq Active
  BY <1>1, <1>2, TypeStep, NewlyActive DEF EInv
<1>4. L!TypeOK' /\ L!Writers' = L!Writers
  BY DEF EInv, Work, providerVars, L!TypeOK, L!Writers, L!IsLeader
<1>5. \A m \in Nodes \ faulted' : Unfaulted(m)'
  BY <1>3 DEF EInv, Work, providerVars, Unfaulted
<1> QED BY <1>1, <1>3, <1>4, <1>5 DEF EInv

LEMMA DieKeeps ==
  ASSUME EInv, NEW n \in Nodes, Die(n)
  PROVE  EInv'
<1>1. leading' = leading \ {n}
  BY DEF Die, Crash
<1>2. [Next]_vars
  BY DEF Die, Next
<1>3. TypeOK' /\ Active' \subseteq Active
  BY <1>1, <1>2, TypeStep, NewlyActive DEF EInv
<1>4. L!TypeOK'
  BY ProviderTypes DEF EInv, Die
<1>5. L!Writers' = L!Writers \ {n}
  BY NoNodeIsNone DEF EInv, Die, L!Restart, L!TypeOK, L!Writers, L!IsLeader
<1>6. \A m \in Nodes \ faulted' : Unfaulted(m)'
  BY <1>3 DEF EInv, Die, L!Restart, L!TypeOK, L!Nodes, Unfaulted
<1> QED BY <1>1, <1>3, <1>4, <1>5, <1>6 DEF EInv

\* Nobody loses the lease without a fault.
LEMMA ElectsUnfaulted ==
  ASSUME EInv, NEW n \in Nodes, Elects(n), NEW m \in Nodes \ faulted'
  PROVE  Unfaulted(m)'
<1>1. m \in Active' => m \in Active \/ (m = n /\ observed'[n] = n /\ observed[n] # n)
  <2>1. [Next]_vars
    BY DEF Elects, Next
  <2>2. leading' = L!Writers' /\ leading = L!Writers
    BY DEF EInv, Elects
  <2>3. leading' \ leading \subseteq {n}
    BY DEF Elects, Elect, Lose, vars
  <2> QED BY <2>1, <2>2, <2>3, NewlyActive DEF EInv, L!Writers, L!IsLeader
<1> USE DEF EInv, L!TypeOK, L!Nodes, Unfaulted, L!election
<1>2. CASE L!StartManaged(n) \/ L!StartUnmanaged(n)
  BY <1>1, <1>2 DEF L!StartManaged, L!StartUnmanaged, L!Start, L!Elects
<1>3. CASE L!Close(n) \/ L!CallerCancels(n)
  BY <1>1, <1>3 DEF L!Close, L!CallerCancels
<1>4. CASE \E state \in {"off", "failed"} : L!ManagerReturns(n, state)
  BY <1>1, <1>4 DEF L!ManagerReturns
<1>5. CASE L!Observe(n)
  BY <1>1, <1>5 DEF L!Observe
<1>6. CASE L!Acquire(n)
  <2>1. CASE m = n
    BY <1>6, <2>1 DEF L!Acquire, L!InRun
  <2>2. CASE m # n
    <3>1. m \notin faulted /\ Unfaulted(m)
      BY <1>6, <2>2 DEF L!Acquire
    <3>2. lease # m
      BY <1>6, <2>2, <3>1 DEF L!Acquire, L!Renewing
    <3> QED BY <1>1, <1>6, <2>2, <3>1, <3>2 DEF L!Acquire
  <2> QED BY <2>1, <2>2
<1>7. CASE L!Lose(n)
  BY <1>1, <1>7 DEF L!Lose
<1>8. CASE L!Cancelled(n)
  BY <1>1, <1>8 DEF L!Cancelled
<1>9. CASE L!Release(n)
  <2>1. m \notin faulted /\ Unfaulted(m) /\ m # n
    BY <1>9 DEF L!Release
  <2> QED BY <1>1, <1>9, <2>1, NoNodeIsNone DEF L!Release
<1>10. CASE L!LoopAgain(n)
  BY <1>1, <1>10 DEF L!LoopAgain
<1>11. CASE L!Partition(n)
  BY <1>1, <1>11 DEF L!Partition
<1> QED BY <1>2, <1>3, <1>4, <1>5, <1>6, <1>7, <1>8, <1>9, <1>10, <1>11
        DEF Elects, L!Elector

LEMMA ElectsKeeps ==
  ASSUME EInv, NEW n \in Nodes, Elects(n)
  PROVE  EInv'
<1>1. TypeOK'
  BY TypeStep DEF EInv, Elects, Next
<1>2. L!TypeOK'
  <2>1. CASE L!Observe(n) \/ L!Acquire(n) \/ L!Elector(n) \/ L!Partition(n)
    BY <2>1, ElectorTypes DEF EInv
  <2>2. CASE L!StartManaged(n) \/ L!StartUnmanaged(n) \/ L!Close(n) \/ L!CallerCancels(n)
    <3>1. L!Start(n, TRUE) \/ L!Start(n, FALSE) \/ L!Close(n) \/ L!CallerCancels(n)
      BY <2>2 DEF L!StartManaged, L!StartUnmanaged
    <3> QED BY <3>1, ProviderTypes DEF EInv
  <2>3. ASSUME NEW state \in {"off", "failed"}, L!ManagerReturns(n, state)
        PROVE  L!TypeOK'
    BY <2>3, ProviderTypes DEF EInv
  <2> QED BY <2>1, <2>2, <2>3 DEF Elects
<1> QED BY <1>1, <1>2, ElectsUnfaulted DEF EInv, Elects

LEMMA EInvStep == EInv /\ [ElectedNext]_<<vars, providerVars>> => EInv'
<1> SUFFICES ASSUME EInv, [ElectedNext]_<<vars, providerVars>> PROVE EInv'
  OBVIOUS
<1>1. CASE \E n \in Nodes : Work(n) \/ Die(n) \/ Elects(n)
  BY <1>1, WorkKeeps, DieKeeps, ElectsKeeps
<1>2. CASE (Tick \/ UNCHANGED vars) /\ UNCHANGED providerVars
  <2>1. leading' = leading /\ [Next]_vars
    BY <1>2 DEF Tick, vars, Next
  <2>2. TypeOK' /\ Active' \subseteq Active
    BY <2>1, TypeStep, NewlyActive DEF EInv
  <2>3. L!TypeOK' /\ L!Writers' = L!Writers
    BY <1>2 DEF EInv, providerVars, L!TypeOK, L!Writers, L!IsLeader
  <2>4. \A m \in Nodes \ faulted' : Unfaulted(m)'
    BY <1>2, <2>2 DEF EInv, providerVars, Unfaulted
  <2> QED BY <2>1, <2>2, <2>3, <2>4 DEF EInv
<1> QED BY <1>1, <1>2 DEF ElectedNext

LEMMA EInvariance == ElectedSpec => []EInv
  BY EInvInit, EInvStep, PTL DEF ElectedSpec

\* Whatever happens to providers, their network and the elector, what Storage sees of it
\* is what its module allows: every theorem about Storage holds under the election, where
\* the elector's answers are the leadership that Storage supposes.
THEOREM ElectionsAreStorage == ElectedSpec => Spec /\ [](leading = L!Writers)
<1>1. ElectedInit => Init
  BY DEF ElectedInit
<1>2. EInv => leading = L!Writers
  BY DEF EInv
<1> QED BY <1>1, <1>2, ElectedStep, EInvariance, PTL DEF ElectedSpec, Spec

\* A node that may write, has a write under way or a deferred delete to run holds the
\* lease, as long as nothing has happened to it since it took or renewed the lease.
THEOREM ActiveNodesHoldTheLease == ElectedSpec => []ActiveHoldsLease
<1>1. EInv => ActiveHoldsLease
  <2> SUFFICES ASSUME EInv PROVE ActiveHoldsLease
    OBVIOUS
  <2>1. Active \subseteq Nodes
    BY DEF EInv, TypeOK, Active, Reap
  <2> QED BY <2>1 DEF EInv, Unfaulted, ActiveHoldsLease
<1> QED BY <1>1, EInvariance, PTL

\* A step that makes elections overlap gives the lease, or the sight of it, to a node while
\* another is active, which without a fault would be renewing the lease.
LEMMA OverlapStep ==
  ASSUME EInv, [ElectedNext]_<<vars, providerVars>>, overlap' # overlap
  PROVE  \E m \in Active \cap faulted : m \in Active' /\ lease' # m
<1>1. PICK n \in Nodes : Elect(n)
  BY ElectedStep, ActiveShrinks DEF EInv
<1>2. leading' = leading \cup {n} /\ n \notin leading /\ \E m \in Active : m # n
  BY <1>1 DEF Elect, EInv, TypeOK
<1>3. PICK m \in Active : m # n
  BY <1>2
<1>4. m \in Active'
  BY <1>1 DEF Elect, Active, Writing
<1>5. observed[n] # n /\ observed'[n] = n /\ m \in Nodes
  BY <1>1, <1>2, <1>3, EInvStep DEF EInv, L!Writers, L!IsLeader, TypeOK, Active, Reap
<1>6. PICK e \in Nodes : Elects(e)
  <2>1. ASSUME NEW e \in Nodes, Work(e) \/ Die(e)
        PROVE  FALSE
    BY <1>2, <2>1, WorkKeepsLeading DEF Die, Crash
  <2> QED BY <1>2, <2>1 DEF ElectedNext, Tick, vars
<1>7. L!Observe(n) \/ L!Acquire(n)
  <2>1. CASE L!Observe(e) \/ L!Acquire(e)
    BY <1>5, <2>1 DEF L!Observe, L!Acquire, EInv, L!TypeOK
  <2>2. CASE ~(L!Observe(e) \/ L!Acquire(e))
    BY <1>5, <1>6, <2>2, NoNodeIsNone
       DEF Elects, L!StartManaged, L!StartUnmanaged, L!Start, L!Close, L!CallerCancels,
           L!ManagerReturns, L!Elector, L!Lose, L!Cancelled, L!Release, L!LoopAgain,
           L!Partition, L!election, EInv, L!TypeOK
  <2> QED BY <2>1, <2>2
<1>8. lease' = n
  BY <1>5, <1>7 DEF L!Observe, L!Acquire, EInv, L!TypeOK
<1>9. m \in faulted
  <2> SUFFICES ASSUME m \notin faulted PROVE FALSE
    OBVIOUS
  <2>1. lease = m /\ phase[m] = "renew" /\ m \in connected
    BY <1>3, <1>5 DEF EInv, Unfaulted
  <2> QED BY <1>3, <1>7, <1>8, <2>1 DEF L!Observe, L!Acquire, L!Renewing
<1> QED BY <1>3, <1>4, <1>8, <1>9

\* Elections overlap only when the lease goes to a node while another, that was cut off,
\* closed or dead since it had it, may still write.
THEOREM OverlapsNeedFaults == ElectedSpec => OverlapNeedsFault
<1>1. EInv /\ [ElectedNext]_<<vars, providerVars>> =>
        [overlap' # overlap => \E m \in Active \cap faulted : lease' # m]_<<vars, providerVars>>
  BY OverlapStep
<1> QED BY <1>1, EInvariance, PTL DEF ElectedSpec, OverlapNeedsFault
=============================================================================
