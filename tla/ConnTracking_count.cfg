CONSTANTS
  Replicas = {r1, r2}
  Conns = {c1, c2}
  TTL = 3
  MaxFailures = 1
  None = None
SPECIFICATION FairSpec
INVARIANTS TypeOK LiveCounted NoGhostWhileUp
PROPERTIES GhostsVanish GhostsPurged
