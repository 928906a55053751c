\* Two storage nodes, of which one is active, and an observer; the active node reads
\* from its informer.
CONSTANTS
  n1 = n1  n2 = n2  o1 = o1
  StorageNodes = {n1, n2}
  Observers = {o1}
  NoNode = NoNode
  DisableCache = {n2, o1}
  Callers = {n1, o1}
SPECIFICATION Spec
INVARIANTS TypeOK LeaderWasObserved
PROPERTY ObserversKeepToThemselves
