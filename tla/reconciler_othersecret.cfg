\* A subscription to the keys of one Secret, and a key in another.
CONSTANTS
  ax = ax  ay = ay  bz = bz
  secretA = secretA  secretB = secretB
  s1 = s1  s2 = s2
  Keys = {ax, bz}
  Values = {1}
  Buckets = {secretA, secretB}
  bucketForKey <- Bucket
  Subs = {s1}
  prefixKeys <- KeysUnderA
  prefixNames <- NamesUnderA
  NoValue = NoValue
  MaxWrites = 3
SPECIFICATION Spec
PROPERTY NoFalseDeletion
