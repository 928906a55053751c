------------------------------- MODULE MeshDB -------------------------------
(***************************************************************************)
(* RBAC together with the two settings of a mesh that provider/database    *)
(* keeps in one object each: whether RBAC is enabled (SetEnabled of        *)
(* rbac.go, a ConfigMap) and the mesh state (meshstate.go).  A set gets    *)
(* the object and then applies it, two requests, from several processes    *)
(* with informers of their own.  All apply under one field manager and by  *)
(* force.  st.mu lets a process set the mesh state once at a time; of      *)
(* SetEnabled a process is one caller.                                     *)
(***************************************************************************)
EXTENDS RBAC

CONSTANTS Processes,
          MeshStates,  \* the NetworkStates that are set: the fields that are not empty
          MaxSets      \* bound: sets

ASSUME SetsAssumption == MaxSets \in Nat

VARIABLES stored,    \* the object of each setting
          seen,      \* the same in the informers of each process
          setting,   \* the set in progress of each process
          since,     \* history: what was applied since that set began
          standing,  \* history: what was applied and not followed by a whole set
          changes    \* the number of sets

meshVars == <<stored, seen, setting, since, standing, changes>>
dbVars == <<vars, meshVars>>

\* An object is what it has: the Data of the ConfigMap, the fields of the state.
Enabled == [enabled: {"true", "false"}]
Settings == {"enabled", "meshstate"}
ValuesOf(s) == IF s = "enabled" THEN Enabled ELSE MeshStates
Objects == Enabled \cup MeshStates \cup {Absent}

Idle == [stage |-> "idle"]
SetCall == [stage: {"got", "applied"}, value: Objects, read: Objects]

SettingsTypeOK ==
  /\ stored \in [Settings -> Objects]
  /\ seen \in [Processes -> [Settings -> Objects]]
  /\ setting \in [Processes -> [Settings -> SetCall \cup {Idle}]]
  /\ since \in [Processes -> [Settings -> SUBSET Objects]]
  /\ standing \in [Settings -> SUBSET Objects]
  /\ changes \in 0..MaxSets

DBInit ==
  /\ Init
  /\ stored = [s \in Settings |-> Absent]
  /\ seen = [p \in Processes |-> stored]
  /\ setting = [p \in Processes |-> [s \in Settings |-> Idle]]
  /\ since = [p \in Processes |-> [s \in Settings |-> {}]]
  /\ standing = [s \in Settings |-> {Absent}]
  /\ changes = 0

----------------------------------------------------------------------------
(* SetEnabled and SetMeshState *)

View(p, s) == IF DisableCache THEN stored[s] ELSE seen[p][s]

\* Mutant of SetGet: a set of what is there already returns at once.
SetGetUnchanged(p, s, v) ==
  /\ changes < MaxSets
  /\ setting[p][s] = Idle
  /\ changes' = changes + 1
  /\ IF View(p, s) = v
     THEN /\ standing' = [standing EXCEPT ![s] = {v}]
          /\ UNCHANGED <<setting, since>>
     ELSE /\ setting' = [setting EXCEPT ![p][s] = [stage |-> "got", value |-> v, read |-> View(p, s)]]
          /\ since' = [since EXCEPT ![p][s] = {}]
          /\ UNCHANGED standing
  /\ UNCHANGED <<stored, seen>>

\* An object that is not found is a new one; any other error ends the call.
SetGet(p, s, v) ==
  /\ changes < MaxSets
  /\ setting[p][s] = Idle
  /\ changes' = changes + 1
  /\ setting' = [setting EXCEPT ![p][s] = [stage |-> "got", value |-> v, read |-> View(p, s)]]
  /\ since' = [since EXCEPT ![p][s] = {}]
  /\ UNCHANGED <<stored, seen, standing>>

\* Mutant of Patched: fields with no value are left as they are.
Merged(read, v) ==
  IF read = Absent THEN v
  ELSE [f \in DOMAIN read \cup DOMAIN v |-> IF f \in DOMAIN v THEN v[f] ELSE read[f]]

\* The whole NetworkState is replaced; "enabled" is all that the Data has.
Patched(read, v) == v

SetApply(p, s) ==
  /\ setting[p][s].stage = "got"
  /\ setting' = [setting EXCEPT ![p][s].stage = "applied"]
  /\ stored' = [stored EXCEPT ![s] = Patched(setting[p][s].read, setting[p][s].value)]
  /\ standing' = [standing EXCEPT ![s] = @ \cup {setting[p][s].value}]
  /\ since' = [q \in Processes |-> IF setting[q][s] = Idle THEN since[q]
                                   ELSE [since[q] EXCEPT ![s] = @ \cup {setting[p][s].value}]]
  /\ UNCHANGED <<seen, changes>>

SetReturn(p, s) ==
  /\ setting[p][s].stage = "applied"
  /\ setting' = [setting EXCEPT ![p][s] = Idle]
  /\ since' = [since EXCEPT ![p][s] = {}]
  /\ standing' = [standing EXCEPT ![s] = (@ \cap since[p][s]) \cup {setting[p][s].value}]
  /\ UNCHANGED <<stored, seen, changes>>

\* The apply fails, or its answer is lost, or the process dies.
SetFails(p, s) ==
  /\ setting[p][s] # Idle
  /\ setting' = [setting EXCEPT ![p][s] = Idle]
  /\ since' = [since EXCEPT ![p][s] = {}]
  /\ UNCHANGED <<stored, seen, standing, changes>>

SettingSync(p, s) ==
  /\ ~DisableCache
  /\ seen' = [seen EXCEPT ![p][s] = stored[s]]
  /\ UNCHANGED <<stored, setting, since, standing, changes>>

----------------------------------------------------------------------------
(* GetEnabled and GetMeshState *)

\* Enabled, unless it says otherwise.
GetEnabled(o) == o = Absent \/ o.enabled = "true"

HasDomain(o) == o # Absent /\ "domain" \in DOMAIN o
HasNetwork(o) == {"networkV4", "networkV6"} \cap DOMAIN o # {}

\* A state with no domain or no network is not found.
GetMeshState(o) == IF HasDomain(o) /\ HasNetwork(o) THEN o ELSE Absent

----------------------------------------------------------------------------

SettingsNext ==
  \E p \in Processes, s \in Settings :
    \/ \E v \in ValuesOf(s) : SetGet(p, s, v)
    \/ SetApply(p, s) \/ SetReturn(p, s) \/ SetFails(p, s) \/ SettingSync(p, s)

\* Settings and roles share no object: in one behaviour only the ones or the others
\* change.
Bounded == 0 \in {writes, changes}

DBNext ==
  /\ \/ Next /\ UNCHANGED meshVars
     \/ SettingsNext /\ UNCHANGED vars
  /\ Bounded'

DBSpec == DBInit /\ [][DBNext]_dbVars

----------------------------------------------------------------------------
(* Properties *)

\* The last set of a setting that returned is what GetEnabled or GetMeshState finds, or
\* one that was under way with it or came after it: whole, never with fields of another,
\* however old the object is that the set has read, and whatever sets failed.
LastSetWins ==
  /\ GetEnabled(stored["enabled"]) \in {GetEnabled(o) : o \in standing["enabled"]}
  /\ GetMeshState(stored["meshstate"]) \in {GetMeshState(o) : o \in standing["meshstate"]}
=============================================================================
