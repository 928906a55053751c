------------------------- MODULE BucketIndexProofs -------------------------
(***************************************************************************)
(* Proofs about BucketIndex, for keys of any length.  What ListKeys finds  *)
(* rests on one fact about keys: the bucket of a prefix of a key is a      *)
(* prefix of the bucket of the key, wherever the prefix was cut.           *)
(***************************************************************************)
EXTENDS BucketIndex, SequenceTheorems, WellFoundedInduction, TLAPS

(* Sequences *)

LEMMA LastExists ==
  ASSUME NEW n \in Nat, NEW S \in SUBSET (1..n), S # {}
  PROVE  \E m \in S : \A i \in S : i <= m
<1> DEFINE T == {n - i : i \in S}
<1> DEFINE R == OpToRel(<, Nat)
<1>1. \A i \in S : i \in Nat /\ n - i \in Nat
  OBVIOUS
<1>2. T \subseteq Nat /\ T # {}
  <2> HIDE DEF R
  <2> QED BY <1>1
<1>3. IsWellFoundedOn(R, Nat)
  BY NatLessThanWellFounded
<1>4. \A x, y \in Nat : y < x => <<y, x>> \in R
  BY DEF OpToRel
<1> HIDE DEF R
<1>5. PICK x \in T : \A y \in T : ~(<<y, x>> \in R)
  BY <1>2, <1>3, WFMin
<1>6. \A y \in T : x <= y
  <2> SUFFICES ASSUME NEW y \in T PROVE x <= y
    OBVIOUS
  <2>1. x \in Nat /\ y \in Nat
    BY <1>2
  <2>2. ~(y < x)
    BY <1>4, <1>5, <2>1
  <2> QED BY <2>1, <2>2
<1>7. PICK m \in S : x = n - m
  BY <1>5
<1>8. \A i \in S : n - m <= n - i
  BY <1>6, <1>7
<1> QED BY <1>1, <1>8

LEMMA PrefixIff ==
  ASSUME NEW S, NEW s \in Seq(S), NEW t \in Seq(S)
  PROVE  IsPrefix(s, t) <=> Len(s) <= Len(t) /\ \A i \in 1..Len(s) : s[i] = t[i]
<1>1. SubSeq(s, 1, Len(s)) = s
  BY SubSeqFull
<1>2. ASSUME Len(s) <= Len(t)
      PROVE  /\ SubSeq(t, 1, Len(s)) \in Seq(S)
             /\ Len(SubSeq(t, 1, Len(s))) = Len(s)
             /\ \A i \in 1..Len(s) : SubSeq(t, 1, Len(s))[i] = t[i]
  BY <1>2
<1>3. ASSUME Len(s) <= Len(t)
      PROVE  SubSeq(t, 1, Len(s)) = s <=> \A i \in 1..Len(s) : s[i] = t[i]
  <2> DEFINE u == SubSeq(t, 1, Len(s))
  <2>1. u \in Seq(S) /\ Len(u) = Len(s) /\ \A i \in 1..Len(s) : u[i] = t[i]
    BY <1>2, <1>3
  <2> HIDE DEF u
  <2>2. u = s <=> \A i \in 1..Len(s) : s[i] = u[i]
    BY <2>1, SeqEqual
  <2> QED BY <2>1, <2>2 DEF u
<1> QED BY <1>1, <1>3 DEF IsPrefix

-----------------------------------------------------------------------------
(* Keys and their buckets *)

Separators(k) == {i \in DOMAIN k : k[i] = "/"}

\* The path is the key up to its last separator.
LEMMA PathOf ==
  ASSUME NEW k \in Seq(Alphabet)
  PROVE  /\ Path(k) \in Seq(Alphabet)
         /\ Len(Path(k)) <= Len(k)
         /\ \A i \in 1..Len(Path(k)) : Path(k)[i] = k[i]
         /\ \/ Separators(k) = {} /\ Len(Path(k)) = Len(k)
            \/ /\ Len(Path(k)) + 1 \in Separators(k)
               /\ \A i \in Separators(k) : i <= Len(Path(k)) + 1
<1>1. DOMAIN k = 1..Len(k) /\ Len(k) \in Nat
  OBVIOUS
<1>2. Contains(k, "/") <=> Separators(k) # {}
  BY <1>1 DEF Contains, Separators
<1>3. CASE Separators(k) = {}
  BY <1>2, <1>3 DEF Path
<1>4. CASE Separators(k) # {}
  <2> DEFINE l == LastSeparator(k)
  <2>1. \E m \in Separators(k) : \A i \in Separators(k) : m >= i
    BY <1>1, <1>4, LastExists DEF Separators
  <2>2. l \in Separators(k) /\ \A i \in Separators(k) : l >= i
    BY <2>1 DEF LastSeparator, Max, Separators
  <2>3. l \in 1..Len(k) /\ Path(k) = SubSeq(k, 1, l - 1)
    BY <1>1, <1>2, <1>4, <2>2 DEF Path, Separators
  <2> HIDE DEF l
  <2>4. /\ Path(k) \in Seq(Alphabet) /\ Len(Path(k)) = l - 1
        /\ \A i \in 1..(l - 1) : Path(k)[i] = k[i]
    BY <1>1, <2>3
  <2>5. \A i \in Separators(k) : i \in Int
    BY <1>1 DEF Separators
  <2> QED BY <1>1, <2>2, <2>3, <2>4, <2>5
<1> QED BY <1>3, <1>4

LEMMA PrefixOfPath ==
  ASSUME NEW p \in Seq(Alphabet), NEW k \in Seq(Alphabet), IsPrefix(p, k)
  PROVE  IsPrefix(Path(p), Path(k))
<1>1. Len(p) <= Len(k) /\ \A i \in 1..Len(p) : p[i] = k[i]
  BY PrefixIff
<1>2. /\ DOMAIN p = 1..Len(p) /\ DOMAIN k = 1..Len(k)
      /\ Len(p) \in Nat /\ Len(k) \in Nat
      /\ Path(p) \in Seq(Alphabet) /\ Path(k) \in Seq(Alphabet)
      /\ Len(Path(p)) \in Nat /\ Len(Path(k)) \in Nat
  BY PathOf
<1>3. \A i \in Separators(p) : i \in Separators(k)
  BY <1>1, <1>2 DEF Separators
<1>4. Len(Path(p)) <= Len(Path(k))
  <2>1. CASE Separators(p) # {}
    <3>1. Len(Path(p)) + 1 \in Separators(k)
      BY <1>3, <2>1, PathOf
    <3> QED BY <1>2, <3>1, PathOf
  <2>2. CASE Separators(p) = {} /\ Separators(k) = {}
    BY <1>1, <2>2, PathOf
  <2>3. CASE Separators(p) = {} /\ Separators(k) # {}
    <3> DEFINE q == Len(Path(k)) + 1
    <3>1. q \in Separators(k)
      BY <2>3, PathOf
    <3>2. q \notin 1..Len(p)
      BY <1>1, <1>2, <2>3, <3>1 DEF Separators
    <3>3. q \in Nat /\ q >= 1
      BY <1>2
    <3>4. Len(Path(p)) <= Len(p)
      BY PathOf
    <3> QED BY <1>2, <3>2, <3>3, <3>4
  <2> QED BY <2>1, <2>2, <2>3
<1>5. \A i \in 1..Len(Path(p)) : Path(p)[i] = Path(k)[i]
  <2> SUFFICES ASSUME NEW i \in 1..Len(Path(p)) PROVE Path(p)[i] = Path(k)[i]
    OBVIOUS
  <2>1. Path(p)[i] = p[i] /\ i \in 1..Len(p) /\ i \in 1..Len(Path(k))
    BY <1>2, <1>4, PathOf
  <2>2. Path(k)[i] = k[i]
    BY <2>1, PathOf
  <2> QED BY <1>1, <2>1, <2>2
<1> QED BY <1>2, <1>4, <1>5, PrefixIff

\* Wherever a prefix of a key is cut, its bucket is a prefix of the key's.
LEMMA PrefixOfBucket ==
  ASSUME NEW p \in Seq(Alphabet), NEW k \in Seq(Alphabet), IsPrefix(p, k)
  PROVE  IsPrefix(rawBucketForKey(p), rawBucketForKey(k))
<1>1. ASSUME NEW x \in Seq(Alphabet)
      PROVE  /\ rawBucketForKey(x) \in Seq(Alphabet)
             /\ Len(rawBucketForKey(x)) = Len(Path(x))
             /\ \A i \in 1..Len(Path(x)) :
                  rawBucketForKey(x)[i] = IF Path(x)[i] = "/" THEN "_" ELSE Path(x)[i]
  <2>1. Path(x) \in Seq(Alphabet)
    BY PathOf
  <2>2. /\ DOMAIN Path(x) = 1..Len(Path(x)) /\ Len(Path(x)) \in Nat
        /\ \A i \in 1..Len(Path(x)) : Path(x)[i] \in Alphabet
    BY <2>1
  <2>3. rawBucketForKey(x)
          = [i \in 1..Len(Path(x)) |-> IF Path(x)[i] = "/" THEN "_" ELSE Path(x)[i]]
    BY <2>2, Zenon DEF rawBucketForKey
  <2>4. rawBucketForKey(x) \in [1..Len(Path(x)) -> Alphabet]
    BY <2>2, <2>3, AlphabetAssumption
  <2>5. rawBucketForKey(x) \in Seq(Alphabet)
    BY <2>2, <2>4, SeqDef
  <2>6. Len(rawBucketForKey(x)) = Len(Path(x))
    BY <2>2, <2>4, <2>5, LenProperties
  <2> QED BY <2>3, <2>5, <2>6
<1>2. /\ Path(p) \in Seq(Alphabet) /\ Path(k) \in Seq(Alphabet)
      /\ Len(Path(p)) <= Len(Path(k))
      /\ \A i \in 1..Len(Path(p)) : Path(p)[i] = Path(k)[i]
  BY PathOf, PrefixOfPath, PrefixIff
<1>3. /\ rawBucketForKey(p) \in Seq(Alphabet) /\ rawBucketForKey(k) \in Seq(Alphabet)
      /\ Len(rawBucketForKey(p)) <= Len(rawBucketForKey(k))
  BY <1>1, <1>2
<1>4. \A i \in 1..Len(rawBucketForKey(p)) : rawBucketForKey(p)[i] = rawBucketForKey(k)[i]
  <2> SUFFICES ASSUME NEW i \in 1..Len(Path(p))
               PROVE  rawBucketForKey(p)[i] = rawBucketForKey(k)[i]
    BY <1>1
  <2>1. i \in 1..Len(Path(k))
    BY <1>2
  <2> QED BY <1>1, <1>2, <2>1
<1> QED BY <1>3, <1>4, PrefixIff

-----------------------------------------------------------------------------
(* The invariant: a key is in the Secret of its bucket and in no other.    *)

Placed == \A s \in secrets : \A k \in s.data : s.name = bucketForKey(k)

Held(ns) == UNION {s.data : s \in {t \in secrets : t.namespace = ns}}

IInv == TypeOK /\ Placed /\ HeldIsStored

NewSecret(ns, k, data) == [namespace |-> ns, name |-> bucketForKey(k),
                           label |-> rawBucketForKey(k), data |-> data]

\* A request replaces one Secret, and what its namespace holds changes by it alone.
LEMMA PatchReplaces ==
  ASSUME IInv, NEW ns \in Namespaces, NEW k \in Keys, NEW data \in SUBSET Keys,
         \A j \in data : bucketForKey(j) = bucketForKey(k),
         patchBucket(ns, k, data)
  PROVE  /\ secrets' \subseteq Secrets
         /\ \A s, t \in secrets' : (s.namespace = t.namespace /\ s.name = t.name) => s = t
         /\ Placed'
         /\ \A m \in Namespaces \ {ns} : Held(m)' = Held(m)
         /\ Held(ns)' = (Held(ns) \ Data(ns, k)) \cup data
<1> DEFINE new == NewSecret(ns, k, data)
<1>1. secrets' = (secrets \ Bucket(ns, k)) \cup {new}
  BY DEF patchBucket, NewSecret
<1>2. /\ new \in Secrets /\ new.namespace = ns /\ new.name = bucketForKey(k)
      /\ new.data = data
  BY DEF NewSecret, Secrets
<1> HIDE DEF new
<1>3. secrets' \subseteq Secrets
  BY <1>1, <1>2 DEF IInv, TypeOK
<1>4. \A s, t \in secrets' : (s.namespace = t.namespace /\ s.name = t.name) => s = t
  BY <1>1, <1>2 DEF IInv, TypeOK, Bucket
<1>5. Placed'
  BY <1>1, <1>2 DEF IInv, Placed
<1>6. ASSUME NEW m \in Namespaces \ {ns}
      PROVE  Held(m)' = Held(m)
  <2>1. {t \in secrets' : t.namespace = m} = {t \in secrets : t.namespace = m}
    BY <1>1, <1>2 DEF Bucket
  <2> QED BY <2>1 DEF Held
<1>7. Held(ns)' = (Held(ns) \ Data(ns, k)) \cup data
  <2>1. \A j : j \in Held(ns)' <=>
          j \in data \/ \E s \in secrets \ Bucket(ns, k) : s.namespace = ns /\ j \in s.data
    BY <1>1, <1>2 DEF Held
  <2>2. \A j : j \in Held(ns) <=>
          \/ \E s \in Bucket(ns, k) : j \in s.data
          \/ \E s \in secrets \ Bucket(ns, k) : s.namespace = ns /\ j \in s.data
    BY DEF Held, Bucket
  <2>3. \A j : j \in Data(ns, k) <=> \E s \in Bucket(ns, k) : j \in s.data
    BY DEF Data
  <2>4. \A s \in secrets \ Bucket(ns, k), t \in Bucket(ns, k) : \A j :
          s.namespace = ns => ~(j \in s.data /\ j \in t.data)
    BY DEF IInv, Placed, Bucket
  <2> QED BY <2>1, <2>2, <2>3, <2>4
<1> QED BY <1>3, <1>4, <1>5, <1>6, <1>7

LEMMA DataOf ==
  ASSUME IInv, NEW ns \in Namespaces, NEW k \in Keys
  PROVE  /\ Data(ns, k) \in SUBSET Keys
         /\ \A j \in Data(ns, k) : bucketForKey(j) = bucketForKey(k)
         /\ Data(ns, k) \subseteq Held(ns)
         /\ k \in Held(ns) => k \in Data(ns, k)
  BY DEF IInv, TypeOK, Secrets, Placed, Held, Data, Bucket

LEMMA IInvInit == Init => IInv
  BY BoundAssumption DEF Init, IInv, TypeOK, Placed, HeldIsStored

LEMMA IInvStep ==
  ASSUME IInv, [Next]_vars
  PROVE  IInv'
<1>1. CASE UNCHANGED vars
  BY <1>1 DEF vars, IInv, TypeOK, Placed, HeldIsStored
<1>2. ASSUME NEW ns \in Namespaces, NEW k \in Keys, Next, PutValue(ns, k)
      PROVE  IInv'
  <2>1. Data(ns, k) \cup {k} \in SUBSET Keys
    BY DataOf
  <2>2. \A j \in Data(ns, k) \cup {k} : bucketForKey(j) = bucketForKey(k)
    BY DataOf
  <2>3. patchBucket(ns, k, Data(ns, k) \cup {k})
    BY <1>2 DEF PutValue
  <2>4. /\ secrets' \subseteq Secrets
        /\ \A s, t \in secrets' : (s.namespace = t.namespace /\ s.name = t.name) => s = t
        /\ Placed'
        /\ \A m \in Namespaces \ {ns} : Held(m)' = Held(m)
        /\ Held(ns)' = (Held(ns) \ Data(ns, k)) \cup (Data(ns, k) \cup {k})
    BY <2>1, <2>2, <2>3, PatchReplaces
  <2>5. Held(ns)' = Held(ns) \cup {k}
    BY <2>4, DataOf
  <2>6. stored' = [stored EXCEPT ![ns] = @ \cup {k}] /\ writes' \in 0..MaxWrites
    BY <1>2, BoundAssumption DEF PutValue, Next, IInv, TypeOK
  <2>7. \A m \in Namespaces : Held(m)' = stored'[m]
    <3>1. stored \in [Namespaces -> SUBSET Keys]
      BY DEF IInv, TypeOK
    <3>2. \A m \in Namespaces : Held(m) = stored[m]
      BY DEF IInv, HeldIsStored, Held
    <3> QED BY <2>4, <2>5, <2>6, <3>1, <3>2
  <2>8. TypeOK'
    BY <2>4, <2>6 DEF IInv, TypeOK, Secrets
  <2> QED BY <2>4, <2>7, <2>8 DEF IInv, HeldIsStored, Held
<1>3. ASSUME NEW ns \in Namespaces, NEW k \in Keys, Next, Delete(ns, k)
      PROVE  IInv'
  <2>1. Data(ns, k) \ {k} \in SUBSET Keys
    BY DataOf
  <2>2. \A j \in Data(ns, k) \ {k} : bucketForKey(j) = bucketForKey(k)
    BY DataOf
  <2>3. patchBucket(ns, k, Data(ns, k) \ {k})
    BY <1>3 DEF Delete
  <2>4. /\ secrets' \subseteq Secrets
        /\ \A s, t \in secrets' : (s.namespace = t.namespace /\ s.name = t.name) => s = t
        /\ Placed'
        /\ \A m \in Namespaces \ {ns} : Held(m)' = Held(m)
        /\ Held(ns)' = (Held(ns) \ Data(ns, k)) \cup (Data(ns, k) \ {k})
    BY <2>1, <2>2, <2>3, PatchReplaces
  <2>5. Held(ns)' = Held(ns) \ {k}
    BY <2>4, DataOf
  <2>6. stored' = [stored EXCEPT ![ns] = @ \ {k}] /\ writes' \in 0..MaxWrites
    BY <1>3, BoundAssumption DEF Delete, Next, IInv, TypeOK
  <2>7. \A m \in Namespaces : Held(m)' = stored'[m]
    <3>1. stored \in [Namespaces -> SUBSET Keys]
      BY DEF IInv, TypeOK
    <3>2. \A m \in Namespaces : Held(m) = stored[m]
      BY DEF IInv, HeldIsStored, Held
    <3> QED BY <2>4, <2>5, <2>6, <3>1, <3>2
  <2>8. TypeOK'
    BY <2>4, <2>6 DEF IInv, TypeOK, Secrets
  <2> QED BY <2>4, <2>7, <2>8 DEF IInv, HeldIsStored, Held
<1>4. ASSUME NEW ns \in Namespaces, NEW k \in Keys, Next, PutValueRefused(ns, k)
      PROVE  IInv'
  <2>1. UNCHANGED <<secrets, stored>> /\ writes' \in 0..MaxWrites
    BY <1>4, BoundAssumption DEF PutValueRefused, Next, IInv, TypeOK
  <2> QED BY <2>1 DEF IInv, TypeOK, Placed, HeldIsStored, Secrets
<1> QED BY <1>1, <1>2, <1>3, <1>4 DEF Next

-----------------------------------------------------------------------------

\* BucketIndex keeps its types: among them, one Secret per namespace and name.
THEOREM BucketTypeCorrect == Spec => []TypeOK
<1>1. IInv => TypeOK
  BY DEF IInv
<1> QED BY <1>1, IInvInit, IInvStep, PTL DEF Spec

\* Keys that share a Secret, under one label or several, do not lose each other.
THEOREM HeldIsStoredCorrect == Spec => []HeldIsStored
<1>1. IInv => HeldIsStored
  BY DEF IInv
<1> QED BY <1>1, IInvInit, IInvStep, PTL DEF Spec

\* ListKeys finds what is stored, and all of it that is under its own label, for
\* keys and prefixes of any length, cut at a separator or not.
THEOREM ListFindsCorrect == Spec => []ListFinds
<1>1. ASSUME IInv
      PROVE  ListFinds
  <2>1. ASSUME NEW prefix \in ListPrefixes, NEW k \in ListKeys(prefix)
        PROVE  \E ns \in Namespaces : k \in stored[ns]
    <3>1. PICK s \in secrets : k \in s.data
      BY <2>1 DEF ListKeys
    <3>2. s.namespace \in Namespaces
      BY <1>1 DEF IInv, TypeOK, Secrets
    <3>3. k \in Held(s.namespace)
      BY <3>1 DEF Held
    <3> QED BY <1>1, <3>2, <3>3 DEF IInv, HeldIsStored, Held
  <2>2. ASSUME NEW prefix \in ListPrefixes, NEW ns \in Namespaces, NEW k \in stored[ns],
               IsPrefix(prefix, k), \A s \in Bucket(ns, k) : s.label = rawBucketForKey(k)
        PROVE  k \in ListKeys(prefix)
    <3>1. k \in Keys
      BY <1>1 DEF IInv, TypeOK
    <3>2. k \in Data(ns, k)
      BY <1>1, <3>1, DataOf DEF IInv, HeldIsStored, Held
    <3>3. PICK s \in Bucket(ns, k) : k \in s.data
      BY <3>2 DEF Data
    <3>4. IsPrefix(rawBucketForKey(prefix), s.label)
      BY <2>2, <3>1, <3>3, KeysAssumption, PrefixOfBucket
    <3>5. s \in secrets /\ Matches(s, prefix)
      BY <3>3, <3>4 DEF Bucket, Matches
    <3> QED BY <2>2, <3>3, <3>5 DEF ListKeys
  <2> QED BY <2>1, <2>2 DEF ListFinds
<1>2. IInv => ListFinds
  BY <1>1
<1> QED BY <1>2, IInvInit, IInvStep, PTL DEF Spec
=============================================================================
