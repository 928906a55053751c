\* One node reads its informer between two writes.
CONSTANTS
  n1 = n1  n2 = n2
  k1 = k1  k2 = k2  k3 = k3
  b1 = b1  b2 = b2
  d1 = d1  d2 = d2
  Nodes = {n1}
  Keys = {k1, k2, k3}
  Values = {v1}
  EmptyValue = empty
  TTLs = {0}
  Buckets = {b1, b2}
  bucketForKey <- TwoBuckets
  DisableCache = FALSE
  ReapIds = {d1}
  MaxTime = 0
SPECIFICATION Spec
PROPERTY OneKeyWrites
