\* Two subscribers come and go while vertices, an edge and a route change.
CONSTANTS
  a = a  b = b  hashA = hashA  hashB = hashB
  v1 = v1  v2 = v2  s1 = s1  s2 = s2  r1 = r1
  NodeIDs = {a, b}
  Values = {v1, v2}
  Pairs <- OneEdge
  Routes = {r1}
  Names = {a, b, hashA, hashB}
  HashNodeID <- Hash
  TruncateNodeID <- Short
  Subs = {s1, s2}
  Absent = Absent
  Empty = Empty
  MaxWrites = 2
SPECIFICATION FairSpec
INVARIANT TypeOK
PROPERTIES QuietAfterRemoval UpdatesHeard
