----------------------------- MODULE DataItems -----------------------------
(***************************************************************************)
(* The records of provider/storage.go: a DataItem is a key, its value and  *)
(* an expiry time.  A Secret's Data map (base64 of the key -> encoded      *)
(* item) is the set of its items; the encodings are injective, so an item  *)
(* is found by its key.                                                    *)
(***************************************************************************)
EXTENDS Naturals

CONSTANTS Keys,      \* the keys written and read
          Values,    \* the values written
          TTLs       \* the ttl arguments of PutValue, in clock ticks

ASSUME TTLsAssumption == TTLs \subseteq Nat

\* exp = 0 is the zero time.Time: the item never expires.
Item == [key: Keys, val: Values, exp: Nat]

\* !Expiry.IsZero() && Expiry.Before(now)
Expired(item, t) == item.exp # 0 /\ item.exp < t

\* Mutant of Expiry: the ttl is subtracted.
ExpiryBackwards(ttl, t) == IF ttl = 0 THEN 0 ELSE t - ttl

Expiry(ttl, t) == IF ttl = 0 THEN 0 ELSE t + ttl

\* delete(Data, hashKey(k)), and Data[hashKey(item.key)] = item
Without(data, k) == {i \in data : i.key # k}
With(data, item) == Without(data, item.key) \cup {item}
=============================================================================
