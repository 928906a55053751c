\* Two goroutines of the embedding program and a controller; callbacks make any call.
CONSTANTS
  g1 = g1  g2 = g2  w1 = w1
  Programs = {g1, g2}
  Controllers = {w1}
  Nobody = Nobody
  BackCalls <- BackPaths
SPECIFICATION FairSpec
INVARIANTS TypeOK OnlyKnownDeadlocks DeadlockContained
PROPERTY WaitersGetIn
CHECK_DEADLOCK FALSE
