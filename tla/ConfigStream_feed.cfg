CONSTANTS
  Keys = {k1, k2}
  Handlers = {h1, h2}
  Replicas = {r1, r2}
  Clients = {c1}
  BufferSize = 1
  WindowSize = 1
  MaxChanges = 2
  MaxDisconnects = 1
  MaxLosses = 1
  None = None
SPECIFICATION ApartSpec
INVARIANTS TypeOK NoGap FeedOrdered
PROPERTIES Converges
CHECK_DEADLOCK FALSE
