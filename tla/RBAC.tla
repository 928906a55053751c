-------------------------------- MODULE RBAC --------------------------------
(***************************************************************************)
(* provider/database/rbac.go: roles and role bindings, one object each,    *)
(* and the roles that a node or a user has.  ListNodeRoles and             *)
(* ListUserRoles list the bindings, and then get the role of each binding  *)
(* that names the subject, one request after the other; roles and bindings *)
(* change in between.  With informers the roles and the bindings are each  *)
(* as old as their informer.  What a role allows is one value; the groups  *)
(* of rbac.go are stored and read back, and bind nothing here.             *)
(***************************************************************************)
EXTENDS Naturals, FiniteSets

CONSTANTS Roles,         \* the names of roles
          Rules,         \* what a role allows
          Bindings,      \* the names of role bindings
          Subjects,      \* nodes and users
          Lists,         \* the calls of ListNodeRoles and ListUserRoles
          Absent,        \* no such object
          DisableCache,  \* Options.DisableCache
          MaxWrites      \* bound: changes to roles and bindings

ASSUME AbsentAssumption == Absent \notin Rules \cup Roles
ASSUME CacheAssumption == DisableCache \in BOOLEAN
ASSUME BoundAssumption == MaxWrites \in Nat

VARIABLES roles,        \* the Role of each name
          bindings,     \* the RoleBinding of each name
          roleCache,    \* the same in the informers
          bindingCache,
          list,         \* each call of ListNodeRoles
          writes        \* the number of changes

store == <<roles, bindings, writes>>
caches == <<roleCache, bindingCache>>
vars == <<store, caches, list>>

Binding == [role: Roles, subjects: SUBSET Subjects]

\* The bindings left to look at, the roles gathered, and history: what was bound to
\* the subject when the bindings were listed, the roles there were since, and those
\* that have not changed.
Call == [subject: Subjects, todo: SUBSET Bindings, bound: [Bindings -> Roles \cup {Absent}],
         out: SUBSET (Roles \X Rules), been: SUBSET (Roles \X Rules), stable: SUBSET Roles,
         answer: {"none", "ok", "err", "rolenotfound"}]
NotCalled == [answer |-> "uncalled"]

TypeOK ==
  /\ roles \in [Roles -> Rules \cup {Absent}]
  /\ roleCache \in [Roles -> Rules \cup {Absent}]
  /\ bindings \in [Bindings -> Binding \cup {Absent}]
  /\ bindingCache \in [Bindings -> Binding \cup {Absent}]
  /\ list \in [Lists -> Call \cup {NotCalled}]
  /\ writes \in 0..MaxWrites

Init ==
  /\ roles = [r \in Roles |-> Absent] /\ roleCache = roles
  /\ bindings = [b \in Bindings |-> Absent] /\ bindingCache = bindings
  /\ list = [l \in Lists |-> NotCalled]
  /\ writes = 0

ViewRoles == IF DisableCache THEN roles ELSE roleCache
ViewBindings == IF DisableCache THEN bindings ELSE bindingCache

----------------------------------------------------------------------------
(* Roles and bindings.  A request that fails changes what it would have    *)
(* changed or nothing.                                                     *)

Existing(seen) == {<<r, seen[r]>> : r \in {q \in Roles : seen[q] # Absent}}

\* What the calls in progress can find from now on.
Track(seen) ==
  list' = [l \in Lists |->
             IF list[l].answer # "none" THEN list[l]
             ELSE [list[l] EXCEPT !.been = @ \cup Existing(seen),
                                  !.stable = {r \in @ : <<r, seen[r]>> \in list[l].been}]]

ChangeRole(r, v) ==
  /\ writes < MaxWrites
  /\ writes' = writes + 1
  /\ roles[r] # v
  /\ roles' = [roles EXCEPT ![r] = v]
  /\ IF DisableCache THEN Track(roles') ELSE UNCHANGED list
  /\ UNCHANGED <<bindings, caches>>

PutRole(r, v) == ChangeRole(r, v)

\* Bindings to the role stay.
DeleteRole(r) == ChangeRole(r, Absent)

ChangeBinding(b, v) ==
  /\ writes < MaxWrites
  /\ writes' = writes + 1
  /\ bindings[b] # v
  /\ bindings' = [bindings EXCEPT ![b] = v]
  /\ UNCHANGED <<roles, caches, list>>

PutRoleBinding(b, v) == ChangeBinding(b, v)

DeleteRoleBinding(b) == ChangeBinding(b, Absent)

\* The informers of Roles and of RoleBindings catch up, each for itself.
RoleCacheSync ==
  /\ ~DisableCache
  /\ roleCache' = roles
  /\ Track(roles)
  /\ UNCHANGED <<store, bindingCache>>

BindingCacheSync ==
  /\ ~DisableCache
  /\ bindingCache' = bindings
  /\ UNCHANGED <<store, roleCache, list>>

----------------------------------------------------------------------------
(* ListNodeRoles and ListUserRoles *)

Bound(s) == {b \in Bindings : ViewBindings[b] # Absent /\ s \in ViewBindings[b].subjects}

ListBindings(l, s) ==
  /\ list[l] = NotCalled
  /\ list' = [list EXCEPT ![l] =
       [subject |-> s, todo |-> Bound(s),
        bound |-> [b \in Bindings |-> IF b \in Bound(s) THEN ViewBindings[b].role ELSE Absent],
        out |-> {}, been |-> Existing(ViewRoles),
        stable |-> {r \in Roles : ViewRoles[r] # Absent}, answer |-> "none"]]
  /\ UNCHANGED <<store, caches>>

\* Mutant of GetRole: the error is not looked at.
GetRoleUnchecked(l, b) ==
  /\ list[l].answer = "none"
  /\ b \in list[l].todo
  /\ LET r == list[l].bound[b] IN
       list' = [list EXCEPT ![l].out = @ \cup {<<r, ViewRoles[r]>>}, ![l].todo = @ \ {b}]
  /\ UNCHANGED <<store, caches>>

\* The role of a binding that names the subject.
GetRole(l, b) ==
  /\ list[l].answer = "none"
  /\ b \in list[l].todo
  /\ LET r == list[l].bound[b] IN
       /\ ViewRoles[r] # Absent
       /\ list' = [list EXCEPT ![l].out = @ \cup {<<r, ViewRoles[r]>>}, ![l].todo = @ \ {b}]
  /\ UNCHANGED <<store, caches>>

\* Mutant of GetRoleMissing: the rest of the bindings is passed over.
GetRoleMissingStops(l, b) ==
  /\ list[l].answer = "none"
  /\ b \in list[l].todo
  /\ ViewRoles[list[l].bound[b]] = Absent
  /\ list' = [list EXCEPT ![l].answer = "ok", ![l].todo = {}]
  /\ UNCHANGED <<store, caches>>

\* GetRole answers ErrRoleNotFound, which IgnoreNotFound does not know: the list
\* fails with it.
GetRoleMissing(l, b) ==
  /\ list[l].answer = "none"
  /\ b \in list[l].todo
  /\ ViewRoles[list[l].bound[b]] = Absent
  /\ list' = [list EXCEPT ![l].answer = "rolenotfound", ![l].todo = {}]
  /\ UNCHANGED <<store, caches>>

\* Mutant of ListFails: every error is taken for ErrRoleNotFound.
ListFailsNotFound(l) ==
  /\ list[l].answer = "none"
  /\ list' = [list EXCEPT ![l].answer = "rolenotfound", ![l].todo = {}]
  /\ UNCHANGED <<store, caches>>

\* Any other error of a request.
ListFails(l) ==
  /\ list[l].answer = "none"
  /\ list' = [list EXCEPT ![l].answer = "err", ![l].todo = {}]
  /\ UNCHANGED <<store, caches>>

ListEnd(l) ==
  /\ list[l].answer = "none"
  /\ list[l].todo = {}
  /\ list' = [list EXCEPT ![l].answer = "ok"]
  /\ UNCHANGED <<store, caches>>

----------------------------------------------------------------------------

Next ==
  \/ \E r \in Roles : DeleteRole(r) \/ \E v \in Rules : PutRole(r, v)
  \/ \E b \in Bindings : DeleteRoleBinding(b) \/ \E v \in Binding : PutRoleBinding(b, v)
  \/ RoleCacheSync \/ BindingCacheSync
  \/ \E l \in Lists : \/ \E s \in Subjects : ListBindings(l, s)
                      \/ \E b \in Bindings : GetRole(l, b) \/ GetRoleMissing(l, b)
                      \/ ListFails(l) \/ ListEnd(l)

Spec == Init /\ [][Next]_vars

----------------------------------------------------------------------------
(* Properties *)

Answered(l) == list[l].answer = "ok"
BoundRoles(l) == {list[l].bound[b] : b \in Bindings} \ {Absent}

\* ListNodeRoles is several requests.  What it answers is what could be read in
\* the course of the call: roles that were bound to the subject when the bindings were
\* listed, as they were at some moment since; and it has every such role that did
\* not change.
ListIsRegular ==
  \A l \in Lists : Answered(l) =>
    /\ list[l].out \subseteq {x \in list[l].been : x[1] \in BoundRoles(l)}
    /\ \A r \in BoundRoles(l) \cap list[l].stable : \E v \in Rules : <<r, v>> \in list[l].out

\* The same of a call that failed: it blames a role only when one that the subject
\* was bound to was not there, at some moment since.
BlamesMissing ==
  \A l \in Lists : list[l].answer = "rolenotfound" => ~(BoundRoles(l) \subseteq list[l].stable)
=============================================================================
