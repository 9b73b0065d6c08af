CONSTANTS
  Replicas = {r1, r2}
  Requests = {q1}
  a1 = a1
  a2 = a2
  b1 = b1
  Bots = {b1}
  Senders = {a1, a2}
  Loops = {l1, l2}
  Choices <- MCChoices
  MaxUpdates = 0
  MaxFailures = 0
  None = None
SPECIFICATION Spec
INVARIANTS OffIsOff
