\* Two subscriptions to the keys of one Secret; requests fail and the process dies.
CONSTANTS
  ax = ax  ay = ay  bz = bz
  secretA = secretA  secretB = secretB
  s1 = s1  s2 = s2
  Keys = {ax, ay}
  Values = {1, 2}
  Buckets = {secretA}
  bucketForKey <- Bucket
  Subs = {s1, s2}
  prefixKeys <- KeysUnderA
  prefixNames <- NamesUnderA
  NoValue = NoValue
  MaxWrites = 3
SPECIFICATION FairSpec
INVARIANTS TypeOK SeenIsTold
PROPERTIES NoFalseDeletion Converges
