\* Two roles and two bindings that change while one call lists, with informers, and two
\* processes that set whether RBAC is enabled and the mesh state.
CONSTANTS
  r1 = r1  r2 = r2  x1 = x1  x2 = x2  rb1 = rb1  rb2 = rb2  n1 = n1  l1 = l1
  p1 = p1  p2 = p2
  Roles = {r1, r2}
  Rules = {x1, x2}
  Bindings = {rb1, rb2}
  Subjects = {n1}
  Lists = {l1}
  Absent = Absent
  DisableCache = FALSE
  Processes = {p1, p2}
  MeshStates <- MCMeshStates
  MaxWrites = 4
  MaxSets = 3
SPECIFICATION DBSpec
INVARIANTS TypeOK ListIsRegular  SettingsTypeOK LastSetWins
CHECK_DEADLOCK FALSE
