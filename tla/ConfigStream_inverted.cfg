CONSTANTS
  Keys = {k1}
  Handlers = {h1, h2}
  Replicas = {r1}
  Clients = {c1}
  BufferSize = 2
  WindowSize = 1
  MaxChanges = 2
  MaxDisconnects = 0
  MaxLosses = 0
  None = None
SPECIFICATION FairSpec
PROPERTIES Converges
CHECK_DEADLOCK FALSE
