---------------------------- MODULE BucketIndex ----------------------------
(***************************************************************************)
(* Where provider/storage.go keeps a key and how it finds the keys of a    *)
(* prefix again.  A key is a sequence of characters; its bucket is the     *)
(* path before its last separator, joined with "_".  The Secret has that   *)
(* name in lower case, and the name as it is in a label, which ListKeys    *)
(* and IterPrefix compare with the bucket of their prefix.  Values, expiry *)
(* and failures are left to module Storage.                                *)
(***************************************************************************)
EXTENDS Naturals, SequencesExt

CONSTANTS Keys,         \* the keys written
          ListPrefixes, \* the prefixes listed
          Alphabet,     \* their characters
          lower,        \* strings.ToLower, of one character
          NameChars,    \* the characters that Kubernetes lets into the name of a Secret
          Namespaces,   \* the namespaces of the storages in the cluster
          MaxWrites     \* bound: calls that write

ASSUME AlphabetAssumption ==
  /\ {"/", "_"} \subseteq Alphabet
  /\ lower \in [Alphabet -> Alphabet]
  /\ lower["/"] = "/" /\ lower["_"] = "_"
ASSUME KeysAssumption ==
  /\ Keys \subseteq Seq(Alphabet) \ {<<>>}
  /\ ListPrefixes \subseteq Seq(Alphabet)
ASSUME BoundAssumption == MaxWrites \in Nat

VARIABLES secrets,  \* the Secrets with the label of the storage
          stored,   \* history: the keys each namespace was given and not relieved of
          writes    \* the number of writes

vars == <<secrets, stored, writes>>

----------------------------------------------------------------------------

LastSeparator(k) == Max({i \in DOMAIN k : k[i] = "/"})

\* A key of one segment is its own bucket.
Path(k) == IF Contains(k, "/") THEN SubSeq(k, 1, LastSeparator(k) - 1) ELSE k

rawBucketForKey(k) == [i \in DOMAIN Path(k) |-> IF Path(k)[i] = "/" THEN "_" ELSE Path(k)[i]]

bucketForKey(k) == [i \in DOMAIN rawBucketForKey(k) |-> lower[rawBucketForKey(k)[i]]]

\* External: the name of a Secret is a DNS subdomain.
ValidName(name) == name # <<>> /\ \A i \in DOMAIN name : name[i] \in NameChars

----------------------------------------------------------------------------

Secrets == [namespace: Namespaces, name: {bucketForKey(k) : k \in Keys},
            label: {rawBucketForKey(k) : k \in Keys}, data: SUBSET Keys]

TypeOK ==
  /\ secrets \subseteq Secrets
  /\ \A s, t \in secrets : (s.namespace = t.namespace /\ s.name = t.name) => s = t
  /\ stored \in [Namespaces -> SUBSET Keys]
  /\ writes \in 0..MaxWrites

Init ==
  /\ secrets = {}
  /\ stored = [ns \in Namespaces |-> {}]
  /\ writes = 0

Bucket(ns, k) == {s \in secrets : s.namespace = ns /\ s.name = bucketForKey(k)}

\* Mutant of Data: a Secret with the label of another key is not read.
DataByLabel(ns, k) == UNION {s.data : s \in {t \in Bucket(ns, k) : t.label = rawBucketForKey(k)}}

Data(ns, k) == UNION {s.data : s \in Bucket(ns, k)}

\* Mutant of patchBucket: a Secret with another label is another Secret.
patchBucketByLabel(ns, k, data) ==
  secrets' = {s \in secrets : s \notin Bucket(ns, k) \/ s.label # rawBucketForKey(k)}
               \cup {[namespace |-> ns, name |-> bucketForKey(k), label |-> rawBucketForKey(k),
                      data |-> data]}

\* The label is that of the key at hand.  An empty Secret is deleted, and then
\* applied all the same.
patchBucket(ns, k, data) ==
  secrets' = (secrets \ Bucket(ns, k))
               \cup {[namespace |-> ns, name |-> bucketForKey(k), label |-> rawBucketForKey(k),
                      data |-> data]}

PutValue(ns, k) ==
  /\ ValidName(bucketForKey(k))
  /\ patchBucket(ns, k, Data(ns, k) \cup {k})
  /\ stored' = [stored EXCEPT ![ns] = @ \cup {k}]

\* The API server refuses the Secret.
PutValueRefused(ns, k) ==
  /\ ~ValidName(bucketForKey(k))
  /\ UNCHANGED <<secrets, stored>>

\* A key that is not in the Secret is removed like one that is.
Delete(ns, k) ==
  /\ Bucket(ns, k) # {}
  /\ patchBucket(ns, k, Data(ns, k) \ {k})
  /\ stored' = [stored EXCEPT ![ns] = @ \ {k}]

\* Mutant of Matches: the prefix is compared as it is.
MatchesPrefix(s, prefix) == prefix = <<>> \/ IsPrefix(prefix, s.label)

\* bucketsForPrefix lists the Secrets of every namespace.
Matches(s, prefix) == prefix = <<>> \/ IsPrefix(rawBucketForKey(prefix), s.label)

\* ListKeys, and the keys that IterPrefix passes on.
ListKeys(prefix) ==
  {k \in UNION {s.data : s \in {t \in secrets : Matches(t, prefix)}} : IsPrefix(prefix, k)}

Next ==
  /\ writes < MaxWrites
  /\ writes' = writes + 1
  /\ \E ns \in Namespaces, k \in Keys :
       PutValue(ns, k) \/ PutValueRefused(ns, k) \/ Delete(ns, k)

Spec == Init /\ [][Next]_vars

----------------------------------------------------------------------------
(* Properties *)

\* PutValue and Delete carry the other keys of a Secret along, those that it has
\* under another label too: the Secrets of a namespace hold what was stored in it.
HeldIsStored ==
  \A ns \in Namespaces :
    UNION {s.data : s \in {t \in secrets : t.namespace = ns}} = stored[ns]

\* A Secret has the label of the last write to it.  As long as that is the bucket of
\* the key, ListKeys finds a stored key under each of its prefixes, of any depth,
\* whole segments or not; and it finds nothing that is not stored.
ListFinds ==
  \A prefix \in ListPrefixes :
    /\ \A k \in ListKeys(prefix) : \E ns \in Namespaces : k \in stored[ns]
    /\ \A ns \in Namespaces : \A k \in stored[ns] :
         (IsPrefix(prefix, k) /\ \A s \in Bucket(ns, k) : s.label = rawBucketForKey(k))
           => k \in ListKeys(prefix)
=============================================================================
