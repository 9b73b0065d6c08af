CONSTANTS
  Replicas = {r1}
  Requests = {q1}
  a1 = a1
  a2 = a2
  b1 = b1
  Bots = {b1}
  Senders = {a1, a2}
  Loops = {l1, l2}
  Choices <- MCChoices
  MaxUpdates = 2
  MaxFailures = 1
  None = None
SPECIFICATION FairSpec
INVARIANTS TypeOK OneLoop ConfirmedAnswered InOrder ListedOnly SavedIsApplied
PROPERTIES Answered
