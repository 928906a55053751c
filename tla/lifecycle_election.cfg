\* Two storage nodes and an observer.
CONSTANTS
  n1 = n1  n2 = n2  o1 = o1
  StorageNodes = {n1, n2}
  Observers = {o1}
  NoNode = NoNode
SPECIFICATION FairSpec
INVARIANTS TypeOK WriterHoldsLease
PROPERTIES SomebodyLeads ClosedStops StaleLeaderYields
