--------------------------- MODULE MCBucketIndex ---------------------------
(***************************************************************************)
(* The instance of BucketIndex that TLC checks: keys of up to three        *)
(* segments, empty ones included, and underscores; keys that differ in     *)
(* case; a key whose bucket is empty.                                      *)
(***************************************************************************)
EXTENDS BucketIndex

Lower == [c \in Alphabet |-> IF c = "A" THEN "a" ELSE c]

CaseKeys == {<<c>> : c \in {"a", "A"}} \cup {<<c, "/", d>> : c, d \in {"a", "A"}}
DeepKeys == {<<"a", x, "a", y, "a">> : x, y \in {"/", "_"}}
              \cup {<<"a", "/">>, <<"a", "/", "/">>, <<"a", "a", "/", "a">>, <<"a", "_", "/">>}
ManyKeys == CaseKeys \cup DeepKeys \cup {<<"/", "a">>}

AllPrefixes == UNION {Prefixes(k) : k \in Keys}
=============================================================================
