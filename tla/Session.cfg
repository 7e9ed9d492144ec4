SPECIFICATION LiveSpec
CONSTANTS
  t1 = t1
  t2 = t2
  s1 = s1
  s2 = s2
  alice = alice
  Tabs = {t1, t2}
  Slots = {s1, s2}
  Users = {alice}
  MaxTokens = 4
  Visited = {"users", "dangerous-approvals"}
  Casts <- MCCasts
INVARIANTS StoredRefreshIsLive
PROPERTIES OfferedPagesAnswer RequestsReturn RoleCatchesUp
CHECK_DEADLOCK FALSE
