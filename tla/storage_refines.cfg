\* Reads go to the API server, items expire, one snapshot at a time.
CONSTANTS
  n1 = n1  n2 = n2
  k1 = k1  k2 = k2  k3 = k3
  b1 = b1  b2 = b2
  d1 = d1  d2 = d2
  Nodes = {n1, n2}
  Keys = {k1, k2}
  Values = {v1}
  EmptyValue = empty
  TTLs = {0, 1}
  Buckets = {b1}
  bucketForKey <- OneBucket
  DisableCache = TRUE
  ReapIds = {d1}
  MaxTime = 2
SPECIFICATION Spec
CONSTRAINT Exclusive
PROPERTY KVSpec
SYMMETRY Symmetric
