---------------------------- MODULE MeshDBProofs ----------------------------
(***************************************************************************)
(* What TLAPS proves of RBAC and MeshDB for every set of roles, bindings,  *)
(* calls and processes.  ListIsRegular and BlamesMissing speak of calls    *)
(* that have answered: of one under way, what it sees must be known to be  *)
(* in been, the roles in stable to be there, and each binding to be looked *)
(* at still or to have its role in out.  LastSetWins rests on what is      *)
(* stored being among what was applied since any set that has applied.     *)
(***************************************************************************)
EXTENDS MeshDB, TLAPS

Gathered(l) ==
  list[l] # NotCalled =>
    /\ list[l].answer = "ok" => list[l].todo = {}
    /\ \A b \in list[l].todo : list[l].bound[b] # Absent
    /\ \A x \in list[l].out : x \in list[l].been /\ x[1] \in BoundRoles(l)
    /\ list[l].answer \in {"none", "ok"} =>
         \A b \in Bindings : list[l].bound[b] # Absent =>
           b \in list[l].todo \/ \E v \in Rules : <<list[l].bound[b], v>> \in list[l].out

Watched(l) ==
  list[l].answer = "none" =>
    \A r \in Roles : /\ ViewRoles[r] # Absent => <<r, ViewRoles[r]>> \in list[l].been
                     /\ r \in list[l].stable => ViewRoles[r] # Absent

Blamed(l) == list[l].answer = "rolenotfound" => ~(BoundRoles(l) \subseteq list[l].stable)

CallsOK == \A l \in Lists : Gathered(l) /\ Watched(l) /\ Blamed(l)

IInv == TypeOK /\ CallsOK

-----------------------------------------------------------------------------

USE AbsentAssumption, CacheAssumption, BoundAssumption

LEMMA InitIInv == Init => IInv
  BY DEF Init, IInv, TypeOK, CallsOK, Gathered, Watched, Blamed, NotCalled

LEMMA ViewTypes ==
  ASSUME TypeOK
  PROVE  /\ ViewRoles \in [Roles -> Rules \cup {Absent}]
         /\ ViewBindings \in [Bindings -> Binding \cup {Absent}]
  BY DEF TypeOK, ViewRoles, ViewBindings

\* What calls know of roles stays true of the roles that are seen next.
LEMMA TrackKeeps ==
  ASSUME IInv, NEW next \in [Roles -> Rules \cup {Absent}], Track(next), ViewRoles' = next
  PROVE  list' \in [Lists -> Call \cup {NotCalled}] /\ CallsOK'
<1>1. ASSUME NEW l \in Lists
      PROVE  /\ list'[l] \in Call \cup {NotCalled}
             /\ Gathered(l)' /\ Watched(l)' /\ Blamed(l)'
  <2>1. CASE list[l].answer # "none"
    <3>1. list'[l] = list[l]
      BY <2>1 DEF Track
    <3> QED BY <2>1, <3>1 DEF IInv, TypeOK, CallsOK, Gathered, Watched, Blamed, BoundRoles
  <2>2. CASE list[l].answer = "none"
    <3>1. list[l] \in Call
      BY <2>2 DEF IInv, TypeOK, NotCalled
    <3> DEFINE c == list[l]
    <3>2. list'[l] = [c EXCEPT !.been = @ \cup Existing(next),
                               !.stable = {r \in @ : <<r, next[r]>> \in c.been}]
      BY <2>2 DEF Track
    <3>3. Existing(next) \subseteq Roles \X Rules
      BY DEF Existing
    <3>4. list'[l] \in Call
      <4> DEFINE been == c.been \cup Existing(next)
                 stable == {r \in c.stable : <<r, next[r]>> \in c.been}
      <4>1. been \in SUBSET (Roles \X Rules)
        BY <3>1, <3>3 DEF Call
      <4>2. stable \in SUBSET Roles
        BY <3>1 DEF Call
      <4>3. list'[l] = [c EXCEPT !.been = been, !.stable = stable]
        BY <3>2
      <4> HIDE DEF been, stable, c
      <4> QED BY <3>1, <4>1, <4>2, <4>3 DEF Call, c
    <3>5. Gathered(l)'
      BY <3>1, <3>2 DEF IInv, CallsOK, Gathered, BoundRoles, Call, NotCalled
    <3>6. Watched(l)'
      BY <3>1, <3>2 DEF Watched, Existing, Call
    <3>7. Blamed(l)'
      BY <2>2, <3>1, <3>2 DEF Blamed, Call
    <3> QED BY <3>4, <3>5, <3>6, <3>7
  <2> QED BY <2>1, <2>2
<1>2. DOMAIN list' = Lists
  BY DEF Track
<1>3. list' = [l \in Lists |-> list'[l]]
  BY <1>2 DEF Track
<1> QED BY <1>1, <1>3 DEF CallsOK

\* A step that leaves the calls and the roles they see alone.
LEMMA SameCalls ==
  ASSUME IInv, UNCHANGED list, UNCHANGED ViewRoles
  PROVE  CallsOK'
  BY DEF IInv, CallsOK, Gathered, Watched, Blamed, BoundRoles

LEMMA ChangeRoleKeeps ==
  ASSUME IInv, NEW r \in Roles, NEW v \in Rules \cup {Absent}, ChangeRole(r, v)
  PROVE  IInv'
<1>1. /\ roles' \in [Roles -> Rules \cup {Absent}]
      /\ writes' \in 0..MaxWrites
      /\ UNCHANGED <<bindings, roleCache, bindingCache>>
  BY DEF ChangeRole, IInv, TypeOK, caches
<1>2. list' \in [Lists -> Call \cup {NotCalled}] /\ CallsOK'
  <2>1. CASE DisableCache
    BY <1>1, <2>1, TrackKeeps DEF ChangeRole, ViewRoles
  <2>2. CASE ~DisableCache
    <3>1. UNCHANGED <<list, ViewRoles>>
      BY <1>1, <2>2 DEF ChangeRole, ViewRoles
    <3> QED BY <3>1, SameCalls DEF IInv, TypeOK
  <2> QED BY <2>1, <2>2
<1> QED BY <1>1, <1>2 DEF IInv, TypeOK

LEMMA ChangeBindingKeeps ==
  ASSUME IInv, NEW b \in Bindings, NEW v \in Binding \cup {Absent}, ChangeBinding(b, v)
  PROVE  IInv'
<1>1. CallsOK'
  BY SameCalls DEF ChangeBinding, ViewRoles, caches
<1>2. TypeOK'
  BY DEF ChangeBinding, IInv, TypeOK, caches
<1> QED BY <1>1, <1>2 DEF IInv

LEMMA SyncKeeps ==
  ASSUME IInv, RoleCacheSync \/ BindingCacheSync
  PROVE  IInv'
<1>1. CASE RoleCacheSync
  <2>1. roles \in [Roles -> Rules \cup {Absent}] /\ Track(roles) /\ ViewRoles' = roles
    BY <1>1 DEF RoleCacheSync, ViewRoles, IInv, TypeOK, store
  <2>2. list' \in [Lists -> Call \cup {NotCalled}] /\ CallsOK'
    BY <2>1, TrackKeeps
  <2> QED BY <1>1, <2>2 DEF RoleCacheSync, IInv, TypeOK, store
<1>2. CASE BindingCacheSync
  <2>1. CallsOK'
    BY <1>2, SameCalls DEF BindingCacheSync, ViewRoles, store
  <2> QED BY <1>2, <2>1 DEF BindingCacheSync, IInv, TypeOK, store
<1> QED BY <1>1, <1>2

----------------------------------------------------------------------------
(* The calls *)

\* A step of one call that leaves roles and bindings alone.
LEMMA CallStep ==
  ASSUME IInv, NEW l \in Lists, NEW c \in Call, list' = [list EXCEPT ![l] = c],
         UNCHANGED <<store, caches>>, Gathered(l)', Watched(l)', Blamed(l)'
  PROVE  IInv'
<1>1. TypeOK'
  BY DEF IInv, TypeOK, store, caches
<1>2. UNCHANGED ViewRoles
  BY DEF ViewRoles, store, caches
<1>3. ASSUME NEW k \in Lists, k # l
      PROVE  Gathered(k)' /\ Watched(k)' /\ Blamed(k)'
  <2>1. list'[k] = list[k]
    BY <1>3 DEF IInv, TypeOK
  <2>2. Gathered(k) /\ Watched(k) /\ Blamed(k)
    BY DEF IInv, CallsOK
  <2>3. BoundRoles(k)' = BoundRoles(k)
    BY <2>1 DEF BoundRoles
  <2>4. Gathered(k)'
    BY <2>1, <2>2, <2>3 DEF Gathered
  <2>5. Watched(k)'
    BY <1>2, <2>1, <2>2 DEF Watched
  <2>6. Blamed(k)'
    BY <2>1, <2>2, <2>3 DEF Blamed
  <2> QED BY <2>4, <2>5, <2>6
<1>4. CallsOK'
  BY <1>3 DEF CallsOK
<1> QED BY <1>1, <1>4 DEF IInv

LEMMA ListBindingsKeeps ==
  ASSUME IInv, NEW l \in Lists, NEW s \in Subjects, ListBindings(l, s)
  PROVE  IInv'
<1> DEFINE c == [subject |-> s, todo |-> Bound(s),
                 bound |-> [b \in Bindings |-> IF b \in Bound(s) THEN ViewBindings[b].role
                                                                ELSE Absent],
                 out |-> {}, been |-> Existing(ViewRoles),
                 stable |-> {r \in Roles : ViewRoles[r] # Absent}, answer |-> "none"]
<1>1. list' = [list EXCEPT ![l] = c] /\ UNCHANGED <<store, caches>>
  BY DEF ListBindings
<1>2. list'[l] = c
  BY <1>1 DEF IInv, TypeOK
<1>3. /\ Bound(s) \subseteq Bindings
      /\ \A b \in Bound(s) : ViewBindings[b].role \in Roles
  BY ViewTypes DEF IInv, Bound, Binding
<1>4. Existing(ViewRoles) \subseteq Roles \X Rules
  BY ViewTypes DEF IInv, Existing
<1>5. c \in Call
  BY <1>3, <1>4 DEF Call
<1>6. Gathered(l)'
  BY <1>2, <1>3 DEF Gathered
<1>7. UNCHANGED ViewRoles
  BY <1>1 DEF ViewRoles, store, caches
<1>8. Watched(l)'
  BY <1>2, <1>7 DEF Watched, Existing
<1>9. Blamed(l)'
  BY <1>2 DEF Blamed
<1> HIDE DEF c
<1> QED BY <1>1, <1>5, <1>6, <1>8, <1>9, CallStep

LEMMA GetRoleKeeps ==
  ASSUME IInv, NEW l \in Lists, NEW b \in Bindings, GetRole(l, b)
  PROVE  IInv'
<1> DEFINE r == list[l].bound[b]
           c == [list[l] EXCEPT !.out = @ \cup {<<r, ViewRoles[r]>>}, !.todo = @ \ {b}]
<1>1. list[l] \in Call /\ list[l] # NotCalled
  BY DEF GetRole, IInv, TypeOK, NotCalled
<1>2. list' = [list EXCEPT ![l] = c] /\ UNCHANGED <<store, caches>>
  BY <1>1 DEF GetRole, IInv, TypeOK
<1>3. list'[l] = c
  BY <1>2 DEF IInv, TypeOK
<1>4. r \in Roles /\ ViewRoles[r] \in Rules
  BY <1>1, ViewTypes DEF GetRole, IInv, CallsOK, Gathered, Call
<1>5. <<r, ViewRoles[r]>> \in list[l].been /\ r \in BoundRoles(l)
  BY <1>4 DEF GetRole, IInv, CallsOK, Watched, BoundRoles
<1>6. c \in Call
  <2>1. <<r, ViewRoles[r]>> \in Roles \X Rules
    BY <1>4
  <2>2. list[l].out \cup {<<r, ViewRoles[r]>>} \in SUBSET (Roles \X Rules)
    BY <1>1, <2>1 DEF Call
  <2>3. list[l].todo \ {b} \in SUBSET Bindings
    BY <1>1 DEF Call
  <2> QED BY <1>1, <2>2, <2>3 DEF Call
<1>7. Gathered(l)'
  <2>1. BoundRoles(l)' = BoundRoles(l)
    BY <1>1, <1>3 DEF BoundRoles, Call
  <2>2. \A x \in c.out : x \in c.been /\ x[1] \in BoundRoles(l)
    BY <1>1, <1>5 DEF IInv, CallsOK, Gathered, Call
  <2>3. \A d \in c.todo : c.bound[d] # Absent
    BY <1>1 DEF IInv, CallsOK, Gathered, Call
  <2>4. \A d \in Bindings : c.bound[d] # Absent =>
           d \in c.todo \/ \E v \in Rules : <<c.bound[d], v>> \in c.out
    <3> SUFFICES ASSUME NEW d \in Bindings, c.bound[d] # Absent, d \notin c.todo
                 PROVE  \E v \in Rules : <<c.bound[d], v>> \in c.out
      OBVIOUS
    <3>1. CASE d = b
      <4>1. <<c.bound[d], ViewRoles[r]>> \in c.out
        BY <1>1, <3>1 DEF Call
      <4> QED BY <1>4, <4>1
    <3>2. CASE d # b
      <4>1. d \notin list[l].todo /\ list[l].bound[d] # Absent
        BY <1>1, <3>2 DEF Call
      <4>2. \E v \in Rules : <<list[l].bound[d], v>> \in list[l].out
        BY <1>1, <4>1 DEF GetRole, IInv, CallsOK, Gathered
      <4> QED BY <1>1, <4>2 DEF Call
    <3> QED BY <3>1, <3>2
  <2>5. c.answer = "none"
    BY <1>1 DEF GetRole, Call
  <2> HIDE DEF c
  <2> QED BY <1>3, <2>1, <2>2, <2>3, <2>4, <2>5 DEF Gathered
<1>8. UNCHANGED ViewRoles
  BY <1>2 DEF ViewRoles, store, caches
<1>9. Watched(l)'
  <2>1. list'[l].been = list[l].been /\ list'[l].stable = list[l].stable
    BY <1>1, <1>3 DEF Call
  <2>2. list[l].answer = "none" /\ Watched(l)
    BY DEF GetRole, IInv, CallsOK
  <2> QED BY <1>8, <2>1, <2>2 DEF Watched
<1>10. Blamed(l)'
  BY <1>1, <1>3 DEF GetRole, Blamed, Call
<1> HIDE DEF c
<1> QED BY <1>2, <1>6, <1>7, <1>9, <1>10, CallStep

\* The end of a call, with an error or without.
LEMMA AnswerKeeps ==
  ASSUME IInv, NEW l \in Lists,
         (\E b \in Bindings : GetRoleMissing(l, b)) \/ ListFails(l) \/ ListEnd(l)
  PROVE  IInv'
<1>1. list[l] \in Call /\ list[l] # NotCalled /\ list[l].answer = "none"
  BY DEF GetRoleMissing, ListFails, ListEnd, IInv, TypeOK, NotCalled
<1>2. PICK a \in {"ok", "err", "rolenotfound"} :
        /\ list' = [list EXCEPT ![l] = [@ EXCEPT !.answer = a, !.todo = {}]]
        /\ a = "ok" => list[l].todo = {}
        /\ a = "rolenotfound" =>
             \E b \in list[l].todo : ViewRoles[list[l].bound[b]] = Absent
        /\ UNCHANGED <<store, caches>>
  <2>1. CASE \E b \in Bindings : GetRoleMissing(l, b)
    BY <1>1, <2>1 DEF GetRoleMissing, IInv, TypeOK
  <2>2. CASE ListFails(l)
    BY <1>1, <2>2 DEF ListFails, IInv, TypeOK
  <2>3. CASE ListEnd(l)
    <3>1. [list[l] EXCEPT !.answer = "ok", !.todo = {}] = [list[l] EXCEPT !.answer = "ok"]
      BY <1>1, <2>3 DEF ListEnd, Call
    <3> QED BY <1>1, <2>3, <3>1 DEF ListEnd, IInv, TypeOK
  <2> QED BY <2>1, <2>2, <2>3
<1> DEFINE c == [list[l] EXCEPT !.answer = a, !.todo = {}]
<1>3. list' = [list EXCEPT ![l] = c] /\ list'[l] = c
  BY <1>2 DEF IInv, TypeOK
<1>4. c \in Call
  BY <1>1 DEF Call
<1>5. Gathered(l)'
  <2>1. /\ c.todo = {} /\ c.out = list[l].out /\ c.been = list[l].been
        /\ c.bound = list[l].bound /\ c.answer = a
    BY <1>1 DEF Call
  <2>2. BoundRoles(l)' = BoundRoles(l)
    BY <1>3, <2>1 DEF BoundRoles
  <2>3. \A x \in c.out : x \in c.been /\ x[1] \in BoundRoles(l)
    BY <1>1, <2>1 DEF IInv, CallsOK, Gathered
  <2>4. a = "ok" => \A b \in Bindings : c.bound[b] # Absent =>
                      \E v \in Rules : <<c.bound[b], v>> \in c.out
    BY <1>1, <1>2, <2>1 DEF IInv, CallsOK, Gathered
  <2> HIDE DEF c
  <2> QED BY <1>2, <1>3, <2>1, <2>2, <2>3, <2>4 DEF Gathered
<1>6. Watched(l)'
  <2>1. c.answer # "none"
    BY <1>1, <1>2 DEF Call
  <2> HIDE DEF c
  <2> QED BY <1>3, <2>1 DEF Watched
<1>7. Blamed(l)'
  <2> SUFFICES ASSUME a = "rolenotfound"
               PROVE  ~(BoundRoles(l)' \subseteq c.stable)
    BY <1>1, <1>3 DEF Blamed, Call
  <2>0. PICK b \in list[l].todo : ViewRoles[list[l].bound[b]] = Absent
    BY <1>2
  <2> DEFINE r == list[l].bound[b]
  <2>1. r # Absent
    BY <1>1, <1>2 DEF IInv, CallsOK, Gathered
  <2>2. r \in BoundRoles(l)'
    BY <1>1, <1>3, <2>1 DEF BoundRoles, Call
  <2>3. r \in Roles
    BY <1>1, <2>1 DEF Call
  <2>4. r \notin list[l].stable
    BY <1>1, <2>0, <2>3 DEF IInv, CallsOK, Watched
  <2> QED BY <1>1, <2>2, <2>4 DEF Call
<1> HIDE DEF c
<1> QED BY <1>2, <1>3, <1>4, <1>5, <1>6, <1>7, CallStep

LEMMA NextIInv == IInv /\ [Next]_vars => IInv'
<1> SUFFICES ASSUME IInv, [Next]_vars PROVE IInv'
  OBVIOUS
<1>1. ASSUME NEW r \in Roles, DeleteRole(r) \/ \E v \in Rules : PutRole(r, v)
      PROVE  IInv'
  BY <1>1, ChangeRoleKeeps DEF DeleteRole, PutRole
<1>2. ASSUME NEW b \in Bindings,
             DeleteRoleBinding(b) \/ \E v \in Binding : PutRoleBinding(b, v)
      PROVE  IInv'
  BY <1>2, ChangeBindingKeeps DEF DeleteRoleBinding, PutRoleBinding
<1>3. ASSUME RoleCacheSync \/ BindingCacheSync
      PROVE  IInv'
  BY <1>3, SyncKeeps
<1>4. ASSUME NEW l \in Lists, \E s \in Subjects : ListBindings(l, s)
      PROVE  IInv'
  BY <1>4, ListBindingsKeeps
<1>5. ASSUME NEW l \in Lists, NEW b \in Bindings, GetRole(l, b)
      PROVE  IInv'
  BY <1>5, GetRoleKeeps
<1>6. ASSUME NEW l \in Lists, NEW b \in Bindings, GetRoleMissing(l, b)
      PROVE  IInv'
  BY <1>6, AnswerKeeps
<1>7. ASSUME NEW l \in Lists, ListFails(l) \/ ListEnd(l)
      PROVE  IInv'
  BY <1>7, AnswerKeeps
<1>8. CASE UNCHANGED vars
  <2>1. CallsOK'
    BY <1>8, SameCalls DEF vars, store, caches, ViewRoles
  <2> QED BY <1>8, <2>1 DEF vars, store, caches, IInv, TypeOK
<1> QED BY <1>1, <1>2, <1>3, <1>4, <1>5, <1>6, <1>7, <1>8 DEF Next

LEMMA Invariance == Spec => []IInv
  BY InitIInv, NextIInv, PTL DEF Spec

\* Roles, bindings and the calls that list them keep their types: what a call gathers is
\* roles that some object had, never a binding's dangling name.
THEOREM RBACTypeCorrect == Spec => []TypeOK
  BY Invariance, PTL DEF IInv

\* However many roles and bindings change during ListNodeRoles, and however old the
\* informers are, an answer is what could be read in the course of the call.
THEOREM ListsAreRegular == Spec => []ListIsRegular
<1>1. IInv => ListIsRegular
  <2> SUFFICES ASSUME IInv, NEW l \in Lists, Answered(l)
               PROVE  /\ list[l].out \subseteq {x \in list[l].been : x[1] \in BoundRoles(l)}
                      /\ \A r \in BoundRoles(l) \cap list[l].stable :
                           \E v \in Rules : <<r, v>> \in list[l].out
    BY DEF ListIsRegular
  <2>1. list[l] # NotCalled /\ Gathered(l)
    BY DEF Answered, NotCalled, IInv, CallsOK
  <2>2. list[l].todo = {}
    BY <2>1 DEF Gathered, Answered
  <2>3. list[l].out \subseteq {x \in list[l].been : x[1] \in BoundRoles(l)}
    BY <2>1 DEF Gathered
  <2>4. ASSUME NEW r \in BoundRoles(l)
        PROVE  \E v \in Rules : <<r, v>> \in list[l].out
    BY <2>1, <2>2 DEF Gathered, BoundRoles, Answered
  <2> QED BY <2>3, <2>4
<1> QED BY <1>1, Invariance, PTL

\* A call reports a role missing only if a binding of the subject named one that was not
\* there at some moment since the bindings were listed.
THEOREM MissingRolesAreBlamed == Spec => []BlamesMissing
<1>1. IInv => BlamesMissing
  BY DEF IInv, CallsOK, Blamed, BlamesMissing
<1> QED BY <1>1, Invariance, PTL

----------------------------------------------------------------------------
(* MeshDB: every step of it is one of RBAC or leaves RBAC alone, so that   *)
(* the above holds of it too.                                              *)

LEMMA DBIsRBAC == DBSpec => Spec
<1>1. DBInit => Init
  BY DEF DBInit
<1>2. [DBNext]_dbVars => [Next]_vars
  BY DEF DBNext, dbVars
<1> QED BY <1>1, <1>2, PTL DEF DBSpec, Spec

\* What is stored is among what was applied since any set that has applied began.
Applied ==
  \A s \in Settings :
    /\ stored[s] \in standing[s]
    /\ \A p \in Processes : setting[p][s].stage = "applied" => stored[s] \in since[p][s]

SInv == SettingsTypeOK /\ Applied

LEMMA InitSInv == DBInit => SInv
  BY SetsAssumption
     DEF DBInit, SInv, SettingsTypeOK, Applied, Objects, Idle, Settings

LEMMA SetGetKeeps ==
  ASSUME SInv, NEW p \in Processes, NEW s \in Settings, NEW v \in ValuesOf(s), SetGet(p, s, v)
  PROVE  SInv'
<1> DEFINE c == [stage |-> "got", value |-> v, read |-> View(p, s)]
<1>1. c \in SetCall
  BY DEF SetCall, SInv, SettingsTypeOK, View, ValuesOf, Objects
<1>2. SettingsTypeOK'
  BY <1>1, SetsAssumption DEF SetGet, SInv, SettingsTypeOK
<1>3. ASSUME NEW q \in Processes, NEW t \in Settings, setting'[q][t].stage = "applied"
      PROVE  stored'[t] \in since'[q][t]
  <2>1. q # p \/ t # s
    BY <1>3 DEF SetGet, SInv, SettingsTypeOK
  <2>2. setting'[q][t] = setting[q][t] /\ since'[q][t] = since[q][t]
    BY <2>1 DEF SetGet, SInv, SettingsTypeOK
  <2> QED BY <1>3, <2>2 DEF SetGet, SInv, Applied
<1>4. Applied'
  BY <1>3 DEF SetGet, SInv, Applied
<1> QED BY <1>2, <1>4 DEF SInv

LEMMA SetApplyKeeps ==
  ASSUME SInv, NEW p \in Processes, NEW s \in Settings, SetApply(p, s)
  PROVE  SInv'
<1> DEFINE v == setting[p][s].value
<1>1. setting[p][s] \in SetCall /\ setting[p][s] # Idle
  BY DEF SetApply, SInv, SettingsTypeOK, Idle
<1>2. v \in Objects
  BY <1>1 DEF SetCall
<1>3. stored' = [stored EXCEPT ![s] = v]
  BY DEF SetApply, Patched
<1>4. SettingsTypeOK'
  <2>1. setting' \in [Processes -> [Settings -> SetCall \cup {Idle}]]
    BY <1>1 DEF SetApply, SInv, SettingsTypeOK, SetCall
  <2>2. since' \in [Processes -> [Settings -> SUBSET Objects]]
    BY <1>2 DEF SetApply, SInv, SettingsTypeOK
  <2> QED BY <1>2, <1>3, <2>1, <2>2 DEF SetApply, SInv, SettingsTypeOK
<1>5. ASSUME NEW q \in Processes, NEW t \in Settings, setting'[q][t].stage = "applied"
      PROVE  stored'[t] \in since'[q][t]
  <2>1. CASE t = s
    <3>1. setting[q][s] # Idle
      BY <1>1, <1>5, <2>1 DEF SetApply, SInv, SettingsTypeOK, Idle
    <3>2. v \in since'[q][s]
      BY <3>1 DEF SetApply, SInv, SettingsTypeOK
    <3> QED BY <1>3, <2>1, <3>2 DEF SInv, SettingsTypeOK
  <2>2. CASE t # s
    <3>1. setting'[q][t] = setting[q][t] /\ since'[q][t] = since[q][t]
      BY <2>2 DEF SetApply, SInv, SettingsTypeOK
    <3> QED BY <1>3, <1>5, <2>2, <3>1 DEF SInv, SettingsTypeOK, Applied
  <2> QED BY <2>1, <2>2
<1>6. \A t \in Settings : stored'[t] \in standing'[t]
  BY <1>3 DEF SetApply, SInv, SettingsTypeOK, Applied
<1> QED BY <1>4, <1>5, <1>6 DEF SInv, Applied

LEMMA SetEndKeeps ==
  ASSUME SInv, NEW p \in Processes, NEW s \in Settings, SetReturn(p, s) \/ SetFails(p, s)
  PROVE  SInv'
<1>1. setting[p][s] \in SetCall
  BY DEF SetReturn, SetFails, SInv, SettingsTypeOK, Idle
<1>2. standing' \in [Settings -> SUBSET Objects]
  <2>1. setting[p][s].value \in Objects
    BY <1>1 DEF SetCall
  <2>2. CASE SetReturn(p, s)
    BY <2>1, <2>2 DEF SetReturn, SInv, SettingsTypeOK
  <2>3. CASE SetFails(p, s)
    BY <2>3 DEF SetFails, SInv, SettingsTypeOK
  <2> QED BY <2>2, <2>3
<1>3. SettingsTypeOK'
  <2>1. /\ setting' = [setting EXCEPT ![p][s] = Idle]
        /\ since' = [since EXCEPT ![p][s] = {}]
        /\ UNCHANGED <<stored, seen, changes>>
    BY DEF SetReturn, SetFails
  <2>2. setting' \in [Processes -> [Settings -> SetCall \cup {Idle}]]
    BY <2>1 DEF SInv, SettingsTypeOK
  <2>3. since' \in [Processes -> [Settings -> SUBSET Objects]]
    BY <2>1 DEF SInv, SettingsTypeOK
  <2> QED BY <1>2, <2>1, <2>2, <2>3 DEF SInv, SettingsTypeOK
<1>4. ASSUME NEW q \in Processes, NEW t \in Settings, setting'[q][t].stage = "applied"
      PROVE  stored'[t] \in since'[q][t]
  <2>1. q # p \/ t # s
    BY <1>4 DEF SetReturn, SetFails, SInv, SettingsTypeOK, Idle
  <2>2. setting'[q][t] = setting[q][t] /\ since'[q][t] = since[q][t]
    BY <2>1 DEF SetReturn, SetFails, SInv, SettingsTypeOK
  <2> QED BY <1>4, <2>2 DEF SetReturn, SetFails, SInv, Applied
<1>5. \A t \in Settings : stored'[t] \in standing'[t]
  BY DEF SetReturn, SetFails, SInv, SettingsTypeOK, Applied
<1> QED BY <1>3, <1>4, <1>5 DEF SInv, Applied

LEMMA NextSInv == SInv /\ [DBNext]_dbVars => SInv'
<1> SUFFICES ASSUME SInv, [DBNext]_dbVars PROVE SInv'
  OBVIOUS
<1>1. CASE UNCHANGED meshVars
  BY <1>1 DEF meshVars, SInv, SettingsTypeOK, Applied
<1>2. ASSUME NEW p \in Processes, NEW s \in Settings, SettingSync(p, s)
      PROVE  SInv'
  BY <1>2 DEF SettingSync, SInv, SettingsTypeOK, Applied
<1>3. ASSUME NEW p \in Processes, NEW s \in Settings,
             \/ \E v \in ValuesOf(s) : SetGet(p, s, v)
             \/ SetApply(p, s) \/ SetReturn(p, s) \/ SetFails(p, s)
      PROVE  SInv'
  BY <1>3, SetGetKeeps, SetApplyKeeps, SetEndKeeps
<1> QED BY <1>1, <1>2, <1>3 DEF DBNext, SettingsNext, dbVars

LEMMA SettingsInvariance == DBSpec => []SInv
  BY InitSInv, NextSInv, PTL DEF DBSpec

\* The settings and the sets in progress keep their types: what is stored, seen or was
\* applied is a value of one of the settings, or nothing.
THEOREM SettingsTypeCorrect == DBSpec => []SettingsTypeOK
<1>1. SInv => SettingsTypeOK
  BY DEF SInv
<1> QED BY <1>1, SettingsInvariance, PTL

\* However many processes set the mesh state or whether RBAC is enabled, and however old
\* what they read is, the last set that returned is what is found, or one that ran with
\* it or came after it.
THEOREM LastSetsWin == DBSpec => []LastSetWins
<1>1. SInv => LastSetWins
  BY DEF SInv, Applied, Settings, LastSetWins
<1> QED BY <1>1, SettingsInvariance, PTL

\* What was proved of RBAC by itself, next to the settings.
THEOREM DBListsAreRegular == DBSpec => [](TypeOK /\ ListIsRegular /\ BlamesMissing)
  BY DBIsRBAC, RBACTypeCorrect, ListsAreRegular, MissingRolesAreBlamed, PTL
=============================================================================
