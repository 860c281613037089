SPECIFICATION FairSpec
CONSTANTS
  Routers = {s1, s2}
  Changing = {s1}
  PoolMax = 2
  Base = 3
  Skip = 1
  Cap = 3
  Probe = 3
  Slow = 0
  Ttl = 2
  Deadline = 1
  MaxFails = 2
  MaxChanges = 1
INVARIANTS TypeOK OneReadPerRouter PoolBounded
PROPERTY KeepsBeingRead
