\* One node with an informer: calls and two deferred deletes compete for st.mu.
CONSTANTS
  n1 = n1  n2 = n2
  k1 = k1  k2 = k2  k3 = k3
  b1 = b1  b2 = b2
  d1 = d1  d2 = d2
  Nodes = {n1}
  Keys = {k1}
  Values = {v1}
  EmptyValue = empty
  TTLs = {1}
  Buckets = {b1}
  bucketForKey <- OneBucket
  DisableCache = FALSE
  ReapIds = {d1, d2}
  MaxTime = 2
SPECIFICATION FairSpec
PROPERTY CallsReturn
PROPERTY ReapsRun
