------------------------------ MODULE KVStore ------------------------------
(***************************************************************************)
(* What MeshStorage promises its callers: one map from keys to items,      *)
(* shared by the nodes of the group, that changes one key at a time.  A    *)
(* write takes effect at most once, between its call and its return; one   *)
(* that returns ok has taken effect, one that fails may have.  A read      *)
(* answers from the map as it is.  Expired items may be collected, and     *)
(* nothing else is ever removed.                                           *)
(***************************************************************************)
EXTENDS DataItems

CONSTANTS Nodes,       \* the providers
          EmptyValue   \* the zero-length value, which reads as not found

VARIABLES kv,     \* the items stored
          call,   \* the write each node is executing
          res,    \* the last result each node returned
          now     \* the clock

vars == <<kv, call, res, now>>

NoCall == [kind |-> "idle"]
Requests == [kind: {"put"}, key: Keys, val: Values, ttl: TTLs, done: {FALSE}]
              \cup [kind: {"delete"}, key: Keys, done: {FALSE}]

Init == /\ kv = {}
        /\ call = [n \in Nodes |-> NoCall]
        /\ res = [n \in Nodes |-> "ok"]
        /\ now = 0

\* kv' is kv with the write c performed; its expiry is stamped at some moment
\* of the call.
Perform(c) ==
  \/ /\ c.kind = "put"
     /\ \E t \in 0..now :
          kv' = With(kv, [key |-> c.key, val |-> c.val, exp |-> Expiry(c.ttl, t)])
  \/ /\ c.kind = "delete"
     /\ kv' = Without(kv, c.key)

Invoke(n) == /\ call[n].kind = "idle"
             /\ \E c \in Requests : call' = [call EXCEPT ![n] = c]
             /\ UNCHANGED <<kv, res, now>>

\* The write takes effect before its call returns.
Apply(n) == /\ call[n].kind # "idle"
            /\ ~call[n].done
            /\ Perform(call[n])
            /\ call' = [call EXCEPT ![n].done = TRUE]
            /\ UNCHANGED <<res, now>>

Return(n) == /\ call[n].kind # "idle"
             /\ \/ call[n].done /\ UNCHANGED kv
                \/ ~call[n].done /\ Perform(call[n])
             /\ call' = [call EXCEPT ![n] = NoCall]
             /\ \E r \in {"ok", "err"} : res' = [res EXCEPT ![n] = r]
             /\ UNCHANGED now

\* A call that fails, a read included, and one that ends with its process.
Fail(n) == /\ call' = [call EXCEPT ![n] = NoCall]
           /\ res' = [res EXCEPT ![n] = "err"]
           /\ UNCHANGED <<kv, now>>

\* The node is not the leader: the write is refused.
Refuse(n) == /\ call[n].kind = "idle"
             /\ res' = [res EXCEPT ![n] = "notleader"]
             /\ UNCHANGED <<kv, call, now>>

DeleteMisses(n) == /\ call[n].kind = "delete"
                   /\ \A i \in kv : i.key # call[n].key
                   /\ call' = [call EXCEPT ![n] = NoCall]
                   /\ res' = [res EXCEPT ![n] = "notfound"]
                   /\ UNCHANGED <<kv, now>>

Answer(k) == {i.val : i \in {j \in kv : j.key = k /\ ~Expired(j, now)}} \ {EmptyValue}

Read(n, k) == /\ call[n].kind = "idle"
              /\ \/ \E v \in Answer(k) : res' = [res EXCEPT ![n] = v]
                 \/ Answer(k) = {} /\ res' = [res EXCEPT ![n] = "notfound"]
              /\ UNCHANGED <<kv, call, now>>

Collect == /\ \E i \in kv : Expired(i, now) /\ kv' = Without(kv, i.key)
           /\ UNCHANGED <<call, res, now>>

Tick == now' = now + 1 /\ UNCHANGED <<kv, call, res>>

Next == \/ \E n \in Nodes : \/ Invoke(n) \/ Apply(n) \/ Return(n) \/ Fail(n)
                            \/ Refuse(n) \/ DeleteMisses(n)
                            \/ \E k \in Keys : Read(n, k)
        \/ Collect
        \/ Tick

Spec == Init /\ [][Next]_vars
=============================================================================
